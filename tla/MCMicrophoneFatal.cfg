SPECIFICATION BoundarySpec
CONSTANTS
    MaxListens = 3
    MaxStreams = 3
    MaxUtterances = 3
    MaxQueue = 3
    MaxTurns = 1
    MaxFailures = 1
INVARIANT ViolationContained
CHECK_DEADLOCK FALSE
