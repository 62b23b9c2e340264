\* A conversation of either binding with every failure of its neighbours.
CONSTANTS
    Media = {"TEXT", "VOICE"}
    Faults = {"slow", "entry", "worker", "loss", "input"}
SPECIFICATION FairSpec
INVARIANTS
    NoStreamLeftOpen
    OnlyKnownFatalities
PROPERTIES
    ReadyInputStopsWork
    EndIsReached
    ImplementsOutcome
