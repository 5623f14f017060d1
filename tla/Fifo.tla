-------------------------------- MODULE Fifo --------------------------------
(***************************************************************************)
(* What the run queue promises its callers: a bounded first-in first-out   *)
(* list of coroutines.  A push at capacity stops the process (the          *)
(* assertion of q_push); a pop of the empty list answers NULL.             *)
(***************************************************************************)
EXTENDS Integers, Sequences

CONSTANTS Items,     \* the coroutines that may be enqueued
          NULL,        \* the null pointer
          Capacity     \* the most coroutines the list may hold

VARIABLES contents,  \* the enqueued coroutines, oldest first
          ret,       \* the answer of the latest pop
          aborted    \* a push found the list full

Init ==
    /\ contents = << >>
    /\ ret = NULL
    /\ aborted = FALSE

Push(co) ==
    /\ ~aborted
    /\ Len(contents) < Capacity
    /\ contents' = Append(contents, co)
    /\ UNCHANGED <<ret, aborted>>

PushFull ==
    /\ ~aborted
    /\ Len(contents) >= Capacity
    /\ aborted' = TRUE
    /\ UNCHANGED <<contents, ret>>

PopOldest ==
    /\ ~aborted
    /\ contents # << >>
    /\ ret' = Head(contents)
    /\ contents' = Tail(contents)
    /\ UNCHANGED aborted

PopEmpty ==
    /\ ~aborted
    /\ contents = << >>
    /\ ret' = NULL
    /\ UNCHANGED <<contents, aborted>>

Next ==
    \/ \E co \in Items : Push(co)
    \/ PushFull
    \/ PopOldest
    \/ PopEmpty

Spec == Init /\ [][Next]_<<contents, ret, aborted>>
=============================================================================
