SPECIFICATION DomainSpec
CONSTANTS
    MaxToolCalls = 3
    MaxRepairs = 1
    Devices = {v1, v2}
    Speakers = {s1, s2, s3}
    Items = {i1}
    Providers = 2
INVARIANTS
    EffectsAreBounded
    SuccessHappened
    MusicKeepsPlaying
    OkMeansOutputs
    KnownIsAnswered
CHECK_DEADLOCK FALSE
