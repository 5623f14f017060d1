CONSTANTS
    N = 2
    CalleeSaved = {rbx}
    Values = {0, 1}
SPECIFICATION NestedSpec
INVARIANT OutsideMeansMain
CHECK_DEADLOCK FALSE
