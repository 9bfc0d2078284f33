\* Three sessions, at most one Stop() of them unheard.
SPECIFICATION Spec
CONSTANTS
    MaxSessions = 3
    MaxStops = 2
    MaxLost = 1
INVARIANTS
    DestroyedOnlyAfterReturn
    PanelsShowTheStop
PROPERTIES
    WindowComesBack
CHECK_DEADLOCK FALSE
