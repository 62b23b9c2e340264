SPECIFICATION OrchFairSpec
CONSTANTS
    Domains = {d1}
    TwoModels = TRUE
    MaxTasks = 3
    MaxTurns = 2
INVARIANTS
    NothingBuiltOnFailure
PROPERTIES
    MessageIsAnswered
CHECK_DEADLOCK FALSE
