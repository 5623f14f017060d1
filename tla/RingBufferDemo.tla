--------------------------- MODULE RingBufferDemo ---------------------------
(***************************************************************************)
(* examples/ring_buffer_demo.c: one producer and one consumer that try,    *)
(* and yield when the buffer refuses.  scheduler_run is read as co_run.    *)
(***************************************************************************)
EXTENDS Client, Ring

CONSTANTS MaxCapacity,  \* bound on BUFFER_CAPACITY
          MaxCount      \* bound on ITEM_COUNT

Producer == 1
Consumer == 2

VARIABLES BUFFER_CAPACITY, ITEM_COUNT,  \* of this run
          rb,       \* the ring_buffer
          i,        \* the producer's next integer
          consumed  \* what the consumer has printed; its length is received

own == <<BUFFER_CAPACITY, ITEM_COUNT, rb, i, consumed>>
vars == <<lib, own>>

Init ==
    /\ \E order \in Lib!Orders({Producer, Consumer}) : Started(order)
    /\ BUFFER_CAPACITY \in 1 .. MaxCapacity
    /\ ITEM_COUNT \in 0 .. MaxCount
    /\ rb = EmptyRing(BUFFER_CAPACITY)
    /\ i = 0
    /\ consumed = << >>

CanPush == rb.size < BUFFER_CAPACITY

(* rb_push answers -1 and changes nothing when the buffer is full. *)
rb_push(value) == IF CanPush THEN Put(rb, BUFFER_CAPACITY, value) ELSE rb

CanPop == rb.size > 0

(* Mutant: the index of the oldest item does not move. *)
rb_pop_keeps_head == [rb EXCEPT !.size = IF CanPop THEN @ - 1 ELSE @]

(* rb_pop answers -1 and changes nothing when the buffer is empty. *)
rb_pop == IF CanPop THEN Drop(rb, BUFFER_CAPACITY) ELSE rb

producer ==
    /\ Leave(Producer, i = ITEM_COUNT)
    /\ rb' = IF i < ITEM_COUNT THEN rb_push(i) ELSE rb
    /\ i' = IF i < ITEM_COUNT /\ CanPush THEN i + 1 ELSE i
    /\ UNCHANGED <<BUFFER_CAPACITY, ITEM_COUNT, consumed>>

consumer ==
    /\ Leave(Consumer, Len(consumed) = ITEM_COUNT)
    /\ rb' = IF Len(consumed) < ITEM_COUNT THEN rb_pop ELSE rb
    /\ consumed' = IF Len(consumed) < ITEM_COUNT /\ CanPop
                   THEN Append(consumed, Oldest(rb)) ELSE consumed
    /\ UNCHANGED <<BUFFER_CAPACITY, ITEM_COUNT, i>>

Next == (Lib!Turn /\ UNCHANGED own) \/ producer \/ consumer

(* The loop of the scheduler and the bodies never block. *)
Spec == Init /\ [][Next]_vars /\ WF_vars(Next)
-----------------------------------------------------------------------------
(* What is consumed and what is in the buffer are the integers produced,   *)
(* from 0 on and in order, across every wrap of the two indices; all of    *)
(* them are consumed when the scheduler returns.                           *)
InOrder ==
    /\ consumed \o Contents(rb, BUFFER_CAPACITY) = [k \in 1 .. i |-> k - 1]
    /\ Returned => Len(consumed) = ITEM_COUNT
=============================================================================
