CONSTANTS
    Limit = 4
SPECIFICATION Spec
INVARIANT FibonacciNumbers
INVARIANT StreamsLoseNothing
INVARIANT EachTaskOnce
INVARIANT NobodyLeavesEarly
INVARIANT ChannelInOrder
INVARIANT ChannelLosesNoWakeup
INVARIANT RunsAfterDeps
INVARIANT StopsAtLimit
INVARIANT ConnectionsInStep
INVARIANT TimersOnSchedule
INVARIANT RequestsOverlap
PROPERTY ProgramsEnd
CHECK_DEADLOCK FALSE
