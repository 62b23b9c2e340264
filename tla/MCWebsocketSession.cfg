\* A client that sends anything at any time but waits for conversation_ready,
\* and a server that may shut down.
CONSTANTS
    IngressCapacity = 1
    EagerClient = FALSE
    Shutdown = TRUE
SPECIFICATION FairSpec
INVARIANTS
    AssertionsHold
PROPERTIES
    CloseIsHeard
    SlotReleased
