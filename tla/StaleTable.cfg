CONSTANTS
    Blocks = {b1, b2}
    NULL = NULL
    Main = Main
    Loop = Loop
    MAX_COROUTINES = 3
SPECIFICATION StaleSpec
INVARIANT OnlyCoroutinesQueued
CHECK_DEADLOCK FALSE
