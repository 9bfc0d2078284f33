\* The hand-off between the callers, the loop and the target's threads.
SPECIFICATION Spec
CONSTANTS
    Thread = {t1, t2, t3}
    NoThread = NoThread
INVARIANTS
    RepliesAccounted
    CommandsBelongToTheirStop
    SuspendsAreUndone
    KilledClean
PROPERTIES
    StopLetsGoFirst
    ProtocolSafety
    StopEndsTheLoop
    DeathIsNoticed
    ProtocolProgress
