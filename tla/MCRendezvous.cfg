\* Every order of three send() and two receive() calls.
CONSTANTS
    SendCall = {s1, s2, s3}
    ReceiveCall = {r1, r2}
    NoCall = NoCall
SPECIFICATION FairSpec
INVARIANTS
    SenderTellsTheTruth
    NoLostWakeup
PROPERTIES
    CloseReleasesAll
    ImplementsHandoff
CHECK_DEADLOCK FALSE
