\* Two threads, two code addresses, one toggled breakpoint.
SPECIFICATION Spec
CONSTANTS
    Thread = {t1, t2}
    Main = t1
    CodeSize = 2
    Faulty = {0}
    Toggled = {0}
    MaxRequests = 1
INVARIANTS
    NoBreakpointLost
    PauseIsOnItsWay
    OverMeansDead
PROPERTIES
    NoUnaskedStep
    StopsAreAnswered
CHECK_DEADLOCK FALSE
