SPECIFICATION BoundaryFairSpec
CONSTANTS
    MaxListens = 3
    MaxStreams = 3
    MaxUtterances = 3
    MaxQueue = 3
    MaxTurns = 1
    MaxFailures = 1
INVARIANTS
    ArmedMeansHearing
    OnlyEarlySpeechOrLateStop
    PlaybackShowsProcessing
PROPERTIES
    CaptureEnds
CHECK_DEADLOCK FALSE
