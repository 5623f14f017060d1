CONSTANTS
    N = 3
    CalleeSaved = {rbx}
    Values = {0, 1}
    Blocks = {b1, b2, b3}
    NoBlock = NoBlock
    MainCode = MainCode
    LoopCode = LoopCode
    MAX_COROUTINES = 4
SPECIFICATION BothSpec
INVARIANT TypeOK
INVARIANT ReturnContextIsLive
PROPERTY RegistersPreserved
PROPERTY ImplementsService
PROPERTY SchedulerImplementsService
PROPERTY EveryReadyRuns
CHECK_DEADLOCK FALSE
