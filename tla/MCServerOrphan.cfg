SPECIFICATION ServerSpec
INVARIANTS
    EveryInputHasItsAgent
CHECK_DEADLOCK FALSE
