\* Two sessions, both Stop()s unheard.
SPECIFICATION Spec
CONSTANTS
    MaxSessions = 2
    MaxStops = 1
    MaxLost = 2
PROPERTY WindowComesBack
CHECK_DEADLOCK FALSE
