\* An agent with or without heartbeats.
CONSTANTS
    AgentKinds = {"plain", "helped"}
SPECIFICATION FairSpec
INVARIANTS
    QuietWhenStopped
PROPERTIES
    ImplementsPort
    StopIsAcknowledged
