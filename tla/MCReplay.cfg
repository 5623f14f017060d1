CONSTANTS
    Blocks = {b1, b2, b3, b4}
    NULL = NULL
    Main = Main
    Loop = Loop
    MAX_COROUTINES = 4
SYMMETRY BlockSymmetry
SPECIFICATION Spec
INVARIANT OrderIsDeterministic
CHECK_DEADLOCK FALSE
