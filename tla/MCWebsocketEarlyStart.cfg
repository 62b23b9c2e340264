\* The client sends start_conversation ahead of conversation_ready and leaves.
CONSTANTS
    IngressCapacity = 1
    EagerClient = TRUE
    Shutdown = FALSE
SPECIFICATION FairSpec
PROPERTIES
    SlotReleased
CHECK_DEADLOCK FALSE
