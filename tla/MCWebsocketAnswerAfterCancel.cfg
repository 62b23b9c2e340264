\* An answer comes together with the cancellation before it.
CONSTANTS
    IngressCapacity = 1
    EagerClient = FALSE
    Shutdown = FALSE
SPECIFICATION Spec
INVARIANTS
    FramesAreAnswered
