\* An agent with heartbeats: is every cancellation acknowledged?
CONSTANTS
    AgentKinds = {"helped"}
SPECIFICATION Spec
INVARIANTS
    DeadlineKept
