SPECIFICATION Spec
CONSTANTS
    WORD = 24
    TICK_INTERVAL = 10
    MaxLag = 1
    Horizon = 62
INVARIANTS
    NextTickInSight
    TicksInTime
CHECK_DEADLOCK FALSE
