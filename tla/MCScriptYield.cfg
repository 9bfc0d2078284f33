\* Two starts of a script, an abort and a user's run.
SPECIFICATION Spec
CONSTANTS
    MaxStarts = 2
    MaxAborts = 1
    MaxRuns = 1
INVARIANTS
    RequestHolds
PROPERTIES
    OnlyRealStops
    YieldIsAnswered
    EventEnds
CHECK_DEADLOCK FALSE
