CONSTANTS
    Blocks = {b1, b2}
    NULL = NULL
    Main = Main
    Loop = Loop
    MAX_COROUTINES = 2
SPECIFICATION Spec
PROPERTY AllDoneAfterRun
CHECK_DEADLOCK FALSE
