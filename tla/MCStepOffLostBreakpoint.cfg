\* Two threads: a second hit during a step-off cycle.
SPECIFICATION Spec
CONSTANTS
    Thread = {t1, t2}
    Main = t1
    CodeSize = 3
    Builds <- OnlyX86
INVARIANT NoBreakpointLost
CHECK_DEADLOCK FALSE
