\* A text conversation without failures: can a second turn answer?
CONSTANTS
    Media = {"TEXT"}
    Faults = {}
SPECIFICATION Spec
INVARIANTS
    LaterTurnMayStream
