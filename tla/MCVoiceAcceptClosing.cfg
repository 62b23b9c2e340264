SPECIFICATION VsSpec
CONSTANT MaxSessions = 3
INVARIANT AcceptedOnlyWhenIdle
CHECK_DEADLOCK FALSE
