\* One script over two events, nobody interfering.
SPECIFICATION Spec
CONSTANTS
    MaxStarts = 1
    MaxAborts = 0
    MaxRuns = 0
PROPERTY NextEventEnds
CHECK_DEADLOCK FALSE
