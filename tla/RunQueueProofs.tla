--------------------------- MODULE RunQueueProofs ---------------------------
(***************************************************************************)
(* The circular buffer of RunQueue implements the list of Fifo for every   *)
(* QUEUE_CAP and every set of coroutines.                                  *)
(***************************************************************************)
EXTENDS RunQueue, TLAPS, SequenceTheorems

(* The inductive invariant. *)
RingInv == QueueTypeOK /\ IndicesAgree

(* The slot k places after the head, without %. *)
LEMMA SlotValue ==
    ASSUME q_head \in Slots, NEW k \in 0 .. QUEUE_CAP
    PROVE  SlotAt(k) = IF q_head + k < QUEUE_CAP THEN q_head + k ELSE q_head + k - QUEUE_CAP
<1>1. PICK x \in 0 .. 2 * QUEUE_CAP - 1 : x = q_head + k
  BY QueueAssumption DEF Slots
<1>2. x % QUEUE_CAP = IF x < QUEUE_CAP THEN x ELSE x - QUEUE_CAP
  BY QueueAssumption
<1>3. SlotAt(k) = x % QUEUE_CAP
  BY <1>1 DEF SlotAt
<1> QED
  BY <1>1, <1>2, <1>3, QueueAssumption DEF Slots

(* The slot after another, without %. *)
LEMMA NextSlotValue ==
    ASSUME NEW i \in Slots
    PROVE  /\ NextSlot(i) = IF i + 1 = QUEUE_CAP THEN 0 ELSE i + 1
           /\ NextSlot(i) \in Slots
<1>1. PICK x \in 0 .. 2 * QUEUE_CAP - 1 : x = i + 1
  BY QueueAssumption DEF Slots
<1>2. x % QUEUE_CAP = IF x < QUEUE_CAP THEN x ELSE x - QUEUE_CAP
  BY QueueAssumption
<1>3. NextSlot(i) = x % QUEUE_CAP
  BY <1>1 DEF NextSlot
<1> QED
  BY <1>1, <1>2, <1>3, QueueAssumption DEF Slots

(* Distinct places of the queue are distinct slots, so a push does not      *)
(* overwrite an occupied one.                                               *)
LEMMA SlotsDistinct ==
    ASSUME q_head \in Slots, NEW k \in 0 .. QUEUE_CAP - 1, NEW l \in 0 .. k - 1
    PROVE  SlotAt(k) # SlotAt(l) /\ SlotAt(l) \in Slots /\ SlotAt(k) \in Slots
<1>1. k \in 0 .. QUEUE_CAP /\ l \in 0 .. QUEUE_CAP
  BY QueueAssumption
<1> QED
  BY <1>1, SlotValue, QueueAssumption DEF Slots

(* The occupied slots are the list Contents. *)
LEMMA ContentsIsList ==
    ASSUME RingInv
    PROVE  /\ Contents \in Seq(Items)
           /\ Len(Contents) = q_size
           /\ \A i \in 1 .. q_size : Contents[i] = queue[SlotAt(i - 1)]
<1>1. q_size \in Nat
  BY QueueAssumption DEF RingInv, QueueTypeOK
<1>2. ASSUME NEW i \in 1 .. q_size PROVE queue[SlotAt(i - 1)] \in Items
  BY <1>1 DEF RingInv, IndicesAgree
<1>3. Contents \in [1 .. q_size -> Items]
  BY <1>2 DEF Contents
<1>4. Contents \in Seq(Items)
  BY <1>1, <1>3, SeqDef
<1>5. Len(Contents) = q_size
  BY <1>1, <1>3, <1>4, LenProperties
<1> QED
  BY <1>4, <1>5 DEF Contents

(* The buffer starts empty and is the empty list. *)
LEMMA InitEstablishes == QueueInit => RingInv /\ Abstract!Init
<1> SUFFICES ASSUME QueueInit PROVE RingInv /\ Abstract!Init
  OBVIOUS
<1>1. QueueTypeOK
  <2>1. 0 \in Slots /\ 0 \in 0 .. QUEUE_CAP
    BY QueueAssumption DEF Slots
  <2> QED
    BY <2>1 DEF QueueInit, QueueTypeOK
<1>2. IndicesAgree
  BY <1>1, SlotValue, QueueAssumption DEF QueueInit, QueueTypeOK, IndicesAgree
<1>3. Contents = << >>
  BY DEF QueueInit, Contents
<1> QED
  BY <1>1, <1>2, <1>3 DEF QueueInit, Abstract!Init, RingInv

(* q_push fills the slot behind the occupied ones and appends to the list.  *)
LEMMA PushImplements ==
    ASSUME RingInv, NEW co \in Items, q_push(co)
    PROVE  RingInv' /\ Abstract!Push(co)
<1> USE QueueAssumption DEF RingInv
<1>5. q_size \in 0 .. QUEUE_CAP - 1 /\ q_size' = q_size + 1
  BY DEF QueueTypeOK, q_push
<1>1. QueueTypeOK'
  BY <1>5, NextSlotValue DEF QueueTypeOK, q_push
<1>2. \A k \in 0 .. QUEUE_CAP : SlotAt(k)' = SlotAt(k)
  BY DEF q_push, SlotAt
<1>3. ASSUME NEW k \in 0 .. q_size - 1
      PROVE  queue'[SlotAt(k)] = queue[SlotAt(k)]
  <2>1. SlotAt(q_size) # SlotAt(k) /\ SlotAt(k) \in Slots
    BY <1>5, SlotsDistinct DEF QueueTypeOK
  <2> QED
    BY <2>1 DEF q_push, IndicesAgree, QueueTypeOK
<1>4. queue'[SlotAt(q_size)] = co
  BY DEF q_push, IndicesAgree, QueueTypeOK
<1>6. IndicesAgree'
  <2>1. q_tail' = SlotAt(q_size + 1)
    <3>1. q_size + 1 \in 0 .. QUEUE_CAP /\ q_size \in 0 .. QUEUE_CAP
      BY <1>5
    <3>2. q_tail' = NextSlot(SlotAt(q_size)) /\ SlotAt(q_size) \in Slots
      BY DEF q_push, IndicesAgree, QueueTypeOK
    <3>3. /\ SlotAt(q_size) = IF q_head + q_size < QUEUE_CAP THEN q_head + q_size
                             ELSE q_head + q_size - QUEUE_CAP
          /\ SlotAt(q_size + 1) = IF q_head + (q_size + 1) < QUEUE_CAP THEN q_head + (q_size + 1)
                                 ELSE q_head + (q_size + 1) - QUEUE_CAP
      BY <3>1, SlotValue DEF QueueTypeOK
    <3>4. NextSlot(SlotAt(q_size)) = IF SlotAt(q_size) + 1 = QUEUE_CAP THEN 0
                                     ELSE SlotAt(q_size) + 1
      BY <3>2, NextSlotValue
    <3> QED
      BY <1>5, <3>2, <3>3, <3>4 DEF QueueTypeOK, Slots
  <2>2. ASSUME NEW k \in 0 .. q_size PROVE queue'[SlotAt(k)] \in Items
    <3>1. CASE k = q_size
      BY <1>4, <3>1
    <3>2. CASE k \in 0 .. q_size - 1
      BY <1>3, <3>2 DEF IndicesAgree
    <3> QED
      BY <1>5, <3>1, <3>2
  <2>3. \A k : SlotAt(k)' = SlotAt(k)
    BY DEF SlotAt, q_push
  <2>4. q_size' - 1 = q_size
    BY <1>5
  <2> QED
    BY <1>5, <2>1, <2>2, <2>3, <2>4 DEF IndicesAgree
<1>7. Contents' = Append(Contents, co)
  <2>1. /\ Contents \in Seq(Items) /\ Len(Contents) = q_size
        /\ \A i \in 1 .. q_size : Contents[i] = queue[SlotAt(i - 1)]
    BY ContentsIsList
  <2>2. /\ Contents' \in Seq(Items) /\ Len(Contents') = q_size + 1
        /\ \A i \in 1 .. q_size + 1 : Contents'[i] = queue'[SlotAt(i - 1)]
    <3>1. Contents' = [i \in 1 .. q_size + 1 |-> queue'[SlotAt(i - 1)]]
      BY <1>2, <1>5 DEF Contents
    <3>2. ASSUME NEW i \in 1 .. q_size + 1 PROVE queue'[SlotAt(i - 1)] \in Items
      <4>1. i - 1 \in 0 .. q_size' - 1 /\ i - 1 \in 0 .. QUEUE_CAP
        BY <1>5
      <4> QED
        BY <1>2, <1>6, <4>1 DEF IndicesAgree
    <3>3. Contents' \in [1 .. q_size + 1 -> Items]
      BY <3>1, <3>2
    <3>4. q_size + 1 \in Nat
      BY <1>5
    <3>5. Contents' \in Seq(Items)
      BY <3>3, <3>4, SeqDef
    <3>6. Len(Contents') = q_size + 1
      BY <3>3, <3>4, <3>5, LenProperties
    <3> QED
      BY <3>1, <3>5, <3>6
  <2>3. /\ Append(Contents, co) \in Seq(Items)
        /\ Len(Append(Contents, co)) = q_size + 1
        /\ \A i \in 1 .. q_size : Append(Contents, co)[i] = Contents[i]
        /\ Append(Contents, co)[q_size + 1] = co
    BY <2>1, AppendProperties
  <2>4. ASSUME NEW i \in 1 .. q_size + 1 PROVE (Contents')[i] = Append(Contents, co)[i]
    <3>1. CASE i = q_size + 1
      <4>1. i - 1 = q_size
        BY <1>5, <3>1
      <4> QED
        BY <1>4, <2>2, <2>3, <3>1, <4>1
    <3>2. CASE i \in 1 .. q_size
      <4>1. i - 1 \in 0 .. q_size - 1
        BY <1>5, <3>2
      <4> QED
        BY <1>3, <1>5, <2>1, <2>2, <2>3, <3>2, <4>1
    <3>3. i = q_size + 1 \/ i \in 1 .. q_size
      BY <1>5
    <3> QED
      BY <3>1, <3>2, <3>3
  <2> QED
    BY <2>2, <2>3, <2>4, SeqEqual
<1> QED
  BY <1>1, <1>5, <1>6, <1>7, ContentsIsList DEF Abstract!Push, q_push

(* q_pop answers the oldest element; the place k of the queue after it was  *)
(* the place k + 1 before.                                                  *)
LEMMA PopImplements ==
    ASSUME RingInv, q_pop
    PROVE  RingInv' /\ Abstract!PopOldest
<1> USE QueueAssumption DEF RingInv
<1>1. q_size \in 1 .. QUEUE_CAP /\ q_size' = q_size - 1 /\ queue' = queue
  BY DEF QueueTypeOK, q_pop
<1>2. q_head' = NextSlot(q_head) /\ q_head' \in Slots
  BY NextSlotValue DEF q_pop, QueueTypeOK
<1>3. QueueTypeOK'
  <2>1. q_head = SlotAt(0)
    BY SlotValue DEF QueueTypeOK, Slots
  <2>2. queue[q_head] \in Items
    BY <1>1, <2>1 DEF IndicesAgree
  <2> QED
    BY <1>1, <1>2, <2>2 DEF QueueTypeOK, q_pop
<1>4. ASSUME NEW k \in 0 .. QUEUE_CAP - 1 PROVE SlotAt(k)' = SlotAt(k + 1)
  <2>1. k \in 0 .. QUEUE_CAP /\ k + 1 \in 0 .. QUEUE_CAP
    OBVIOUS
  <2>2. SlotAt(k + 1) = IF q_head + (k + 1) < QUEUE_CAP THEN q_head + (k + 1)
                        ELSE q_head + (k + 1) - QUEUE_CAP
    BY <2>1, SlotValue DEF QueueTypeOK
  <2>3. PICK h \in Slots : h = q_head'
    BY <1>2
  <2>4. PICK x \in 0 .. 2 * QUEUE_CAP - 1 : x = h + k
    BY <2>1 DEF Slots
  <2>5. x % QUEUE_CAP = IF x < QUEUE_CAP THEN x ELSE x - QUEUE_CAP
    OBVIOUS
  <2>6. SlotAt(k)' = x % QUEUE_CAP
    BY <2>3, <2>4 DEF SlotAt
  <2>7. h = IF q_head + 1 = QUEUE_CAP THEN 0 ELSE q_head + 1
    BY <1>2, <2>3, NextSlotValue DEF QueueTypeOK
  <2> QED
    BY <2>2, <2>4, <2>5, <2>6, <2>7 DEF QueueTypeOK, Slots
<1>5. IndicesAgree'
  <2>1. PICK m \in 0 .. QUEUE_CAP - 1 : m = q_size - 1
    BY <1>1
  <2>2. q_size' = m /\ m + 1 = q_size
    BY <1>1, <2>1
  <2>3. q_tail' = SlotAt(m)'
    <3>1. SlotAt(m)' = SlotAt(m + 1)
      BY <1>4
    <3> QED
      BY <2>2, <3>1 DEF q_pop, IndicesAgree
  <2>4. ASSUME NEW k \in 0 .. m - 1 PROVE queue'[SlotAt(k)'] \in Items
    <3>1. k \in 0 .. QUEUE_CAP - 1 /\ k + 1 \in 0 .. q_size - 1
      BY <2>1, <2>2
    <3>2. SlotAt(k)' = SlotAt(k + 1)
      BY <1>4, <3>1
    <3> QED
      BY <1>1, <3>1, <3>2 DEF IndicesAgree
  <2> QED
    BY <2>2, <2>3, <2>4 DEF IndicesAgree, SlotAt
<1>6. /\ Contents \in Seq(Items) /\ Len(Contents) = q_size
      /\ \A i \in 1 .. q_size : Contents[i] = queue[SlotAt(i - 1)]
  BY ContentsIsList
<1>7. Contents # << >>
  BY <1>1, <1>6
<1>8. ret' = Head(Contents)
  <2>1. Head(Contents) = Contents[1] /\ 1 \in 1 .. q_size /\ 1 - 1 = 0
    BY <1>1, <1>6
  <2>2. q_head = SlotAt(0)
    BY SlotValue DEF QueueTypeOK, Slots
  <2> QED
    BY <1>6, <2>1, <2>2 DEF q_pop
<1>9. Contents' = Tail(Contents)
  <2>1. Contents' = [i \in 1 .. q_size - 1 |-> queue[SlotAt(i)]]
    <3>1. ASSUME NEW i \in 1 .. q_size - 1 PROVE SlotAt(i - 1)' = SlotAt(i)
      <4>1. i - 1 \in 0 .. QUEUE_CAP - 1 /\ (i - 1) + 1 = i
        BY <1>1
      <4> QED
        BY <1>4, <4>1
    <3> QED
      BY <1>1, <3>1 DEF Contents
  <2>2. ASSUME NEW i \in 1 .. q_size - 1 PROVE queue[SlotAt(i)] \in Items
    BY <1>1 DEF IndicesAgree
  <2>3. q_size - 1 \in Nat /\ Contents' \in [1 .. q_size - 1 -> Items]
    BY <1>1, <2>1, <2>2
  <2>4. Contents' \in Seq(Items)
    BY <2>3, SeqDef
  <2>5. Len(Contents') = q_size - 1
    BY <2>3, <2>4, LenProperties
  <2>6. /\ Tail(Contents) \in Seq(Items) /\ Len(Tail(Contents)) = q_size - 1
        /\ \A i \in 1 .. q_size - 1 : Tail(Contents)[i] = Contents[i + 1]
    BY <1>1, <1>6, <1>7, HeadTailProperties
  <2>7. ASSUME NEW i \in 1 .. q_size - 1 PROVE (Contents')[i] = Tail(Contents)[i]
    <3>1. i + 1 \in 1 .. q_size /\ (i + 1) - 1 = i
      BY <1>1
    <3> QED
      BY <1>6, <2>1, <2>6, <3>1
  <2> QED
    BY <2>4, <2>5, <2>6, <2>7, SeqEqual
<1> QED
  BY <1>3, <1>5, <1>7, <1>8, <1>9 DEF Abstract!PopOldest, q_pop

(* A pop of the empty buffer and a push into the full one leave it alone.   *)
LEMMA OthersImplement ==
    ASSUME RingInv, q_push_overflow \/ q_pop_empty \/ UNCHANGED queue_vars
    PROVE  /\ RingInv'
           /\ \/ Abstract!PushFull \/ Abstract!PopEmpty
              \/ UNCHANGED <<Contents, ret, aborted>>
<1>1. queue' = queue /\ q_head' = q_head /\ q_tail' = q_tail /\ q_size' = q_size
  BY DEF q_push_overflow, q_pop_empty, queue_vars
<1>2. \A k : SlotAt(k)' = SlotAt(k)
  BY <1>1 DEF SlotAt
<1>3. Contents' = Contents
  BY <1>1, <1>2 DEF Contents
<1>4. RingInv'
  BY <1>1, <1>2 DEF RingInv, QueueTypeOK, IndicesAgree, q_push_overflow, q_pop_empty, queue_vars
<1>5. q_size \in Nat /\ Len(Contents) = q_size /\ (q_size = 0 => Contents = << >>)
  BY ContentsIsList, QueueAssumption DEF RingInv, QueueTypeOK
<1> QED
  BY <1>3, <1>4, <1>5, QueueAssumption
     DEF Abstract!PushFull, Abstract!PopEmpty, q_push_overflow, q_pop_empty, queue_vars

(* Every step of the buffer preserves the invariant and is a step of the    *)
(* list or leaves the list as it is.                                        *)
LEMMA NextImplements ==
    RingInv /\ [QueueNext]_queue_vars =>
        RingInv' /\ [Abstract!Next]_<<Contents, ret, aborted>>
<1> SUFFICES ASSUME RingInv, [QueueNext]_queue_vars
             PROVE  RingInv' /\ [Abstract!Next]_<<Contents, ret, aborted>>
  OBVIOUS
<1>1. ASSUME NEW co \in Items, q_push(co)
      PROVE  RingInv' /\ [Abstract!Next]_<<Contents, ret, aborted>>
  BY <1>1, PushImplements DEF Abstract!Next
<1>2. CASE q_pop
  BY <1>2, PopImplements DEF Abstract!Next
<1>3. CASE q_push_overflow \/ q_pop_empty \/ UNCHANGED queue_vars
  BY <1>3, OthersImplement DEF Abstract!Next
<1> QED
  BY <1>1, <1>2, <1>3 DEF QueueNext

(* The indices of the run queue always agree (lines 108-121). *)
THEOREM RingCorrect == QueueSpec => [](QueueTypeOK /\ IndicesAgree)
<1>1. RingInv /\ [QueueNext]_queue_vars => RingInv'
  BY NextImplements
<1>2. RingInv => QueueTypeOK /\ IndicesAgree
  BY DEF RingInv
<1> QED
  BY <1>1, <1>2, InitEstablishes, PTL DEF QueueSpec

(* Every field of the queue keeps its type. *)
THEOREM RingTypeCorrect == QueueSpec => []QueueTypeOK
<1>1. QueueTypeOK /\ IndicesAgree => QueueTypeOK
  OBVIOUS
<1> QED
  BY <1>1, RingCorrect, PTL

(* The circular buffer implements a first-in first-out list for every       *)
(* QUEUE_CAP, however often its indices wrap around (lines 108-121).        *)
THEOREM RingImplementsFifo == QueueSpec => ImplementsFifo
<1>1. RingInv /\ [QueueNext]_queue_vars => RingInv' /\ [Abstract!Next]_<<Contents, ret, aborted>>
  BY NextImplements
<1> QED
  BY <1>1, InitEstablishes, PTL DEF QueueSpec, ImplementsFifo, Abstract!Spec
=============================================================================
