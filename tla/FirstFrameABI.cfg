CONSTANTS
    Stacks = {16, 32, 48}
    Sizes = {16, 17, 31, 32, 33}
SPECIFICATION FrameSpec
INVARIANT SystemVEntry
CHECK_DEADLOCK FALSE
