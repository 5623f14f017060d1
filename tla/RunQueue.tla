------------------------------ MODULE RunQueue ------------------------------
(***************************************************************************)
(* The scheduler's run queue as the code stores it: a circular buffer of   *)
(* QUEUE_CAP slots with a head index, a tail index and a size.  The module *)
(* states what the three indices must satisfy and that the buffer, read    *)
(* from q_head for q_size slots, behaves as the first-in first-out list of *)
(* module Fifo.                                                            *)
(***************************************************************************)
EXTENDS Integers, Sequences

CONSTANTS Items,      \* the coroutines that may be enqueued
          NULL,       \* the null pointer
          QUEUE_CAP   \* the number of slots of the buffer

ASSUME QueueAssumption ==
    /\ QUEUE_CAP \in Nat \ {0}
    /\ NULL \notin Items

VARIABLES queue,   \* S.queue
          q_head,  \* S.q_head
          q_tail,  \* S.q_tail
          q_size,  \* S.q_size
          ret,     \* what the latest q_pop returned
          aborted  \* the assertion of q_push has failed

queue_vars == <<queue, q_head, q_tail, q_size, ret, aborted>>

Slots == 0 .. QUEUE_CAP - 1

QueueTypeOK ==
    /\ queue \in [Slots -> Items \cup {NULL}]
    /\ q_head \in Slots
    /\ q_tail \in Slots
    /\ q_size \in 0 .. QUEUE_CAP
    /\ ret \in Items \cup {NULL}
    /\ aborted \in BOOLEAN

(* S has static storage: every field starts as zero. *)
QueueInit ==
    /\ queue = [i \in Slots |-> NULL]
    /\ q_head = 0
    /\ q_tail = 0
    /\ q_size = 0
    /\ ret = NULL
    /\ aborted = FALSE

(* Mutant: the index is not wrapped around. *)
NextSlotUnwrapped(i) == i + 1

(* The slot after i, around the end of the buffer. *)
NextSlot(i) == (i + 1) % QUEUE_CAP

q_push(co) ==
    /\ ~aborted
    /\ q_size < QUEUE_CAP
    /\ queue' = [queue EXCEPT ![q_tail] = co]
    /\ q_tail' = NextSlot(q_tail)
    /\ q_size' = q_size + 1
    /\ UNCHANGED <<q_head, ret, aborted>>

(* assert(S.q_size < QUEUE_CAP && "run-queue overflow") *)
q_push_overflow ==
    /\ ~aborted
    /\ ~(q_size < QUEUE_CAP)
    /\ aborted' = TRUE
    /\ UNCHANGED <<queue, q_head, q_tail, q_size, ret>>

(* Mutant: the head is read but not moved. *)
q_pop_keeps_head ==
    /\ ~aborted
    /\ q_size # 0
    /\ ret' = queue[q_head]
    /\ q_size' = q_size - 1
    /\ UNCHANGED <<queue, q_head, q_tail, aborted>>

(* Mutant: the newest element is taken from the tail (a stack). *)
q_pop_newest ==
    /\ ~aborted
    /\ q_size # 0
    /\ q_tail' = (q_head + q_size - 1) % QUEUE_CAP
    /\ ret' = queue[q_tail']
    /\ q_size' = q_size - 1
    /\ UNCHANGED <<queue, q_head, aborted>>

q_pop ==
    /\ ~aborted
    /\ q_size # 0
    /\ ret' = queue[q_head]
    /\ q_head' = NextSlot(q_head)
    /\ q_size' = q_size - 1
    /\ UNCHANGED <<queue, q_tail, aborted>>

q_pop_empty ==
    /\ ~aborted
    /\ q_size = 0
    /\ ret' = NULL
    /\ UNCHANGED <<queue, q_head, q_tail, q_size, aborted>>

QueueNext ==
    \/ \E co \in Items : q_push(co)
    \/ q_push_overflow
    \/ q_pop
    \/ q_pop_empty

QueueSpec == QueueInit /\ [][QueueNext]_queue_vars
-----------------------------------------------------------------------------
(* The slot that lies k places after the head. *)
SlotAt(k) == (q_head + k) % QUEUE_CAP

(* q_push moves only q_tail and q_pop only q_head, yet the three indices    *)
(* agree: the tail is q_size slots after the head, and the q_size slots     *)
(* from the head on hold coroutines, never the NULL of an unused slot.  So  *)
(* q_pop answers NULL only for an empty queue, and co_run, which stops on   *)
(* NULL, does not leave coroutines behind (lines 108-121, 235).             *)
IndicesAgree ==
    /\ q_tail = SlotAt(q_size)
    /\ \A k \in 0 .. q_size - 1 : queue[SlotAt(k)] \in Items

(* The list the buffer stands for. *)
Contents == [i \in 1 .. q_size |-> queue[SlotAt(i - 1)]]

Abstract == INSTANCE Fifo WITH contents <- Contents, Capacity <- QUEUE_CAP

(* Whatever the order of pushes and pops, and however often the indices     *)
(* wrap around, q_push and q_pop act on the buffer as Push and Pop do on a  *)
(* first-in first-out list of capacity QUEUE_CAP.                           *)
ImplementsFifo == Abstract!Spec
=============================================================================
