SPECIFICATION VsFairSpec
CONSTANT MaxSessions = 3
INVARIANT ClosedIsQuiet
PROPERTIES
    CloseWins
    CloseReturns
    LostIsReconnected
CHECK_DEADLOCK FALSE
