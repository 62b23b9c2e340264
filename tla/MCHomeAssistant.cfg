SPECIFICATION HaFairSpec
CONSTANTS
    Devices <- MCDevices
    Installed <- MCInstalled
    Names <- MCNames
    Called <- MCCalled
    AreaOf <- MCAreaOf
    PropertyOf <- MCPropertyOf
    Requested <- MCRequested
    MaxChanges = 2
    MaxFailures = 1
    MaxRequests = 1
    MaxStarts = 2
INVARIANTS
    FreshUnlessExcused
    OkMeansEveryDeviceTold
PROPERTIES
    EventuallyFresh
CHECK_DEADLOCK FALSE
