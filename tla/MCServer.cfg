SPECIFICATION ServerFairSpec
INVARIANTS
    SharedOutlivesInputs
PROPERTIES
    StopsInTheEnd
CHECK_DEADLOCK FALSE
