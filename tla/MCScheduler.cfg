CONSTANTS
    Blocks = {b1, b2, b3, b4}
    NULL = NULL
    Main = Main
    Loop = Loop
    MAX_COROUTINES = 5
SYMMETRY BlockSymmetry
SPECIFICATION Spec
INVARIANT TypeOK
INVARIANT QueueIsReadySet
INVARIANT RunningIsCaller
INVARIANT NoLostWakeup
INVARIANT InternalAssertionsHold
INVARIANT IdsFindCoroutines
INVARIANT ReturnsWhenDoneOrCyclic
PROPERTY FirstComeFirstServed
CHECK_DEADLOCK FALSE
