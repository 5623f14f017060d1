CONSTANTS
    Limit = 5
    MaxSlots = 2
SPECIFICATION SemaphoreSpec
INVARIANT CounterAsExpected
CHECK_DEADLOCK FALSE
