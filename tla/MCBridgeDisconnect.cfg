\* A text client that disconnects.
CONSTANTS
    Media = {"TEXT"}
    Faults = {"loss"}
SPECIFICATION Spec
INVARIANTS
    DisconnectContained
