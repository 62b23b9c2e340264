SPECIFICATION CallsSpec
CONSTANTS
    Requests = {"cloud", "local"}
    Repairs = {p1}
    Closers = {c1}
INVARIANTS
    ExclusiveIsAlone
    WaitsForSomeone
    RaceLeavesNobody
PROPERTIES
    VerifiedIsResident
    CloseIsServed
CHECK_DEADLOCK FALSE
