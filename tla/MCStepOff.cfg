\* One thread, on both builds, over three addresses.
SPECIFICATION Spec
CONSTANTS
    Thread = {t1}
    Main = t1
    CodeSize = 3
    Builds <- BothBuilds
INVARIANTS
    NoBreakpointLost
    NoStrayStep
PROPERTIES
    NoUnaskedStep
    CycleEnds
CHECK_DEADLOCK FALSE
