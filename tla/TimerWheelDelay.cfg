CONSTANTS
    WHEEL_SLOTS = 4
    MAX_TIMERS = 2
    MAX_COROUTINES = 3
    MaxDelay = 9
    MaxTick = 14
SPECIFICATION WheelSpec
INVARIANT AfterDelay
CHECK_DEADLOCK FALSE
