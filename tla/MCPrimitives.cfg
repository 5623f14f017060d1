CONSTANTS
    Limit = 5
    MaxWorkers = 4
    MaxRounds = 3
    MaxPauses = 4
    MaxSlots = 3
    WHEEL_SLOTS = 4
    MAX_TIMERS = 2
    MAX_COROUTINES = 2
    MaxDelay = 9
    MaxTick = 12
    Stacks = {16, 32, 48}
    Sizes = {16, 17, 23, 24, 31, 32, 33, 39, 40, 47, 48, 63, 64, 65, 72, 80}
    Items = {c1, c2, c3}
    NULL = NULL
    QUEUE_CAP = 4
SPECIFICATION Spec
INVARIANT QueueTypeOK
INVARIANT IndicesAgree
INVARIANT ArrivalsCounted
INVARIANT NobodyPassesEarly
INVARIANT PermitsConserved
INVARIANT CountsWithOnePermit
INVARIANT NoneOverdue
INVARIANT FiresWhenDue
INVARIANT FrameInStack
PROPERTY ImplementsFifo
PROPERTY Ends
CHECK_DEADLOCK FALSE
