\* A close commits while session_accepted or follow_up_requested is being sent.
CONSTANTS
    IngressCapacity = 1
    EagerClient = FALSE
    Shutdown = FALSE
SPECIFICATION Spec
PROPERTIES
    ClosingIsFinal
