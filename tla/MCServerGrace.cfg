SPECIFICATION ServerSpec
PROPERTIES
    LimitIsHard
CHECK_DEADLOCK FALSE
