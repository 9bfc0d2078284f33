\* Two pids and two processes: both at once, or one pid used twice.
SPECIFICATION Spec
CONSTANTS
    Pid = {p1, p2}
    None = None
    MaxTargets = 2
    Attempts = 1
INVARIANTS
    ClaimIsReleased
    NoStrandedChild
    NothingRunsUnwatched
    OthersLetGo
PROPERTIES
    KillsAreAnswerable
    CallsReturn
