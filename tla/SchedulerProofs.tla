--------------------------- MODULE SchedulerProofs --------------------------
(***************************************************************************)
(* The invariants of Scheduler hold for every finite set of heap blocks    *)
(* and every MAX_COROUTINES.                                               *)
(*                                                                         *)
(* No one of them is inductive alone.  That the run queue holds the READY  *)
(* coroutines once each needs RunningIsCaller (co_yield enqueues           *)
(* S.running, which must not be queued yet); the overflow assertion needs  *)
(* that, and the ids, which bound the number of live coroutines by         *)
(* S.count; NoLostWakeup needs the queue to know that nobody else is       *)
(* running.  Their conjunction IInv is inductive.                          *)
(***************************************************************************)
EXTENDS Scheduler, TLAPS, FiniteSetTheorems, SequenceTheorems

USE DEF HasRoom, NextId, Finished, IsDone, RunningCleared

(* The inductive invariant. *)
IInv ==
    /\ TypeOK
    /\ NoForeignOwner
    /\ QueueIsReadySet
    /\ RunningIsCaller
    /\ NoLostWakeup
    /\ IdsFindCoroutines
    /\ InternalAssertionsHold

-----------------------------------------------------------------------------
(* A sequence without repetitions whose elements are live coroutines is no  *)
(* longer than S.count: their ids are distinct indices of S.all.            *)
LEMMA LiveSequenceBound ==
    ASSUME TypeOK, IdsFindCoroutines,
           NEW q \in Seq(Blocks), IsInjective(q), Range(q) \subseteq Live
    PROVE  Len(q) <= Len(all)
<1> DEFINE f == [k \in 1 .. Len(q) |-> id[q[k]]]
<1>1. /\ Len(q) \in Nat /\ Len(all) \in Nat
      /\ DOMAIN q = 1 .. Len(q)
      /\ q \in [1 .. Len(q) -> Blocks]
  BY LenProperties DEF TypeOK
<1>2. ASSUME NEW k \in 1 .. Len(q)
      PROVE  q[k] \in Live /\ id[q[k]] \in 1 .. Len(all) /\ all[id[q[k]]] = q[k]
  BY <1>1 DEF IdsFindCoroutines, Range
<1>3. f \in Injection(1 .. Len(q), 1 .. Len(all))
  <2>1. f \in [1 .. Len(q) -> 1 .. Len(all)]
    BY <1>2
  <2>2. ASSUME NEW i \in 1 .. Len(q), NEW j \in 1 .. Len(q), f[i] = f[j]
        PROVE  i = j
    BY <1>1, <1>2, <2>2 DEF IsInjective
  <2> QED
    BY <2>1, <2>2 DEF Injection, IsInjective
<1>4. \A n \in Nat : IsFiniteSet(1 .. n) /\ Cardinality(1 .. n) = n
  BY FS_Interval
<1>5. Cardinality(1 .. Len(q)) <= Cardinality(1 .. Len(all))
  BY <1>1, <1>3, <1>4, FS_Injection
<1> QED
  BY <1>1, <1>4, <1>5

(* Every order in which a scan meets the members of W lists each of them    *)
(* exactly once.                                                            *)
LEMMA ScanOrderListsOnce ==
    ASSUME NEW W \in SUBSET Blocks, NEW s \in ScanOrder(W)
    PROVE  s \in Seq(Blocks) /\ IsInjective(s) /\ Range(s) = W
<1>1. IsFiniteSet(W) /\ Cardinality(W) \in Nat
  BY FS_Subset, FS_CardinalityType, SchedulerAssumption
<1>2. s \in [1 .. Cardinality(W) -> W] /\ Range(s) = W
  BY DEF ScanOrder
<1>3. s \in Surjection(1 .. Cardinality(W), W)
  BY <1>2 DEF Surjection, Range
<1>4. IsFiniteSet(1 .. Cardinality(W)) /\ Cardinality(1 .. Cardinality(W)) = Cardinality(W)
  BY <1>1, FS_Interval
<1>5. s \in Injection(1 .. Cardinality(W), W)
  BY <1>1, <1>3, <1>4, FS_SurjSameCardinalityImpliesInj
<1>6. s \in [1 .. Cardinality(W) -> Blocks]
  BY <1>2
<1>7. s \in Seq(Blocks)
  BY <1>1, <1>6, SeqDef
<1> QED
  BY <1>2, <1>5, <1>7 DEF Injection

(* Two sequences without repetitions and without a common element can be    *)
(* concatenated to one without repetitions.                                 *)
LEMMA ConcatInjective ==
    ASSUME NEW s \in Seq(Blocks), NEW t \in Seq(Blocks),
           IsInjective(s), IsInjective(t), Range(s) \cap Range(t) = {}
    PROVE  /\ s \o t \in Seq(Blocks)
           /\ IsInjective(s \o t)
           /\ Range(s \o t) = Range(s) \cup Range(t)
<1>1. /\ Len(s) \in Nat /\ Len(t) \in Nat
      /\ DOMAIN s = 1 .. Len(s) /\ DOMAIN t = 1 .. Len(t)
  BY LenProperties
<1>2. /\ s \o t \in Seq(Blocks)
      /\ Len(s \o t) = Len(s) + Len(t)
      /\ \A i \in 1 .. Len(s) + Len(t) :
             (s \o t)[i] = IF i <= Len(s) THEN s[i] ELSE t[i - Len(s)]
  BY ConcatProperties
<1>3. DOMAIN (s \o t) = 1 .. Len(s) + Len(t)
  BY <1>2, LenProperties
<1>4. ASSUME NEW i \in 1 .. Len(s) + Len(t), NEW j \in 1 .. Len(s) + Len(t),
             (s \o t)[i] = (s \o t)[j]
      PROVE  i = j
  <2>1. CASE i <= Len(s) /\ j <= Len(s)
    BY <1>1, <1>2, <1>4, <2>1 DEF IsInjective
  <2>2. CASE i > Len(s) /\ j > Len(s)
    <3>1. i - Len(s) \in 1 .. Len(t) /\ j - Len(s) \in 1 .. Len(t)
      BY <1>1, <2>2
    <3>2. t[i - Len(s)] = t[j - Len(s)]
      BY <1>1, <1>2, <1>4, <2>2
    <3>3. i - Len(s) = j - Len(s)
      BY <1>1, <3>1, <3>2 DEF IsInjective
    <3> QED
      BY <1>1, <3>3
  <2>3. ASSUME NEW k \in 1 .. Len(s), NEW l \in 1 .. Len(t)
        PROVE  s[k] # t[l]
    BY <1>1 DEF Range
  <2>4. CASE i <= Len(s) /\ j > Len(s)
    BY <1>1, <1>2, <1>4, <2>3, <2>4
  <2>5. CASE i > Len(s) /\ j <= Len(s)
    BY <1>1, <1>2, <1>4, <2>3, <2>5
  <2> QED
    BY <1>1, <2>1, <2>2, <2>4, <2>5
<1> QED
  BY <1>2, <1>3, <1>4, RangeConcatenation DEF IsInjective

(* q_push of distinct live coroutines that are not queued yet succeeds.     *)
LEMMA PushSucceeds ==
    ASSUME IInv, NEW s \in Seq(Blocks), IsInjective(s),
           Range(s) \subseteq Live, Range(s) \cap Range(queue) = {},
           q_push(s)
    PROVE  /\ queue' = queue \o s /\ failed' = failed
           /\ queue' \in Seq(Blocks) /\ IsInjective(queue')
           /\ Range(queue') = Range(queue) \cup Range(s)
<1>1. queue \in Seq(Blocks) /\ IsInjective(queue) /\ Range(queue) \subseteq Live
  BY DEF IInv, TypeOK, QueueIsReadySet
<1>2. /\ queue \o s \in Seq(Blocks) /\ IsInjective(queue \o s)
      /\ Range(queue \o s) = Range(queue) \cup Range(s)
  BY <1>1, ConcatInjective
<1>3. Len(queue \o s) <= Len(all)
  BY <1>1, <1>2, LiveSequenceBound DEF IInv
<1>4. Len(queue) + Len(s) <= QUEUE_CAP
  <2>1. Len(queue \o s) = Len(queue) + Len(s)
    BY <1>1, ConcatProperties
  <2>2. Len(all) \in Nat /\ Len(all) <= MAX_COROUTINES /\ Len(queue) + Len(s) \in Nat
    BY <1>1, LenProperties DEF IInv, TypeOK
  <2> QED
    BY <1>3, <2>1, <2>2, SchedulerAssumption DEF QUEUE_CAP
<1> QED
  BY <1>2, <1>4 DEF q_push
-----------------------------------------------------------------------------
(* Initially nothing exists and nothing is queued. *)
LEMMA InitEstablishes == Init => IInv
<1> SUFFICES ASSUME Init PROVE IInv
  OBVIOUS
<1> USE SchedulerAssumption DEF Init
<1>1. << >> \in Seq(Blocks) /\ Len(<< >>) = 0 /\ Range(<< >>) = {} /\ IsInjective(<< >>)
  BY DEF Range, IsInjective
<1>2. Live = {}
  BY DEF Live
<1>3. TypeOK
  BY <1>1 DEF TypeOK, CoState, NoFailure
<1>4. QueueIsReadySet
  BY <1>1, <1>2 DEF QueueIsReadySet
<1>5. RunningIsCaller
  BY <1>2 DEF RunningIsCaller
<1> QED
  BY <1>2, <1>3, <1>4, <1>5
     DEF IInv, NoForeignOwner, NoLostWakeup, IdsFindCoroutines,
         InternalAssertionsHold, InternalAssertions, NoFailure

(* co_create: the new coroutine takes a block that is not live and so not   *)
(* queued, and an id that is not in use.                                    *)
LEMMA CreatePreserves ==
    ASSUME IInv, NEW b \in Blocks, co_create(b)
    PROVE  IInv'
<1> USE DEF IInv
<1>1. b \notin Live /\ Live' = Live \cup {b}
  BY DEF co_create, Live, TypeOK
<1>2. /\ all \in Seq(Blocks) /\ Len(all) \in Nat
      /\ all' \in Seq(Blocks) /\ Len(all') = Len(all) + 1
      /\ \A i \in 1 .. Len(all) : all'[i] = all[i]
      /\ all'[Len(all) + 1] = b
  BY AppendProperties, LenProperties DEF co_create, TypeOK
<1>3. /\ \A c \in Live' : c # b => id'[c] = id[c] /\ c \in Live
      /\ id'[b] = Len(all) + 1
      /\ \A c \in Live : state'[c] = state[c] /\ awaiting'[c] = awaiting[c]
      /\ state'[b] = "READY"
  BY <1>1 DEF co_create, TypeOK
<1>4. IdsFindCoroutines'
  BY <1>2, <1>3 DEF IdsFindCoroutines
<1>5. /\ <<b>> \in Seq(Blocks) /\ IsInjective(<<b>>) /\ Range(<<b>>) = {b}
      /\ Len(<<b>>) = 1
  BY DEF IsInjective, Range
<1>6. queue \in Seq(Blocks) /\ IsInjective(queue) /\ Range(queue) \subseteq Live
  BY DEF TypeOK, QueueIsReadySet
<1>7. /\ queue \o <<b>> \in Seq(Blocks) /\ IsInjective(queue \o <<b>>)
      /\ Range(queue \o <<b>>) = Range(queue) \cup {b}
  <2>1. Range(queue) \cap Range(<<b>>) = {}
    BY <1>1, <1>5, <1>6
  <2>2. Range(queue \o <<b>>) = Range(queue) \cup Range(<<b>>)
    BY <1>5, <1>6, <2>1, ConcatInjective
  <2>3. queue \o <<b>> \in Seq(Blocks) /\ IsInjective(queue \o <<b>>)
    BY <1>5, <1>6, <2>1, ConcatInjective
  <2> QED
    BY <1>5, <2>2, <2>3
<1>8. Len(queue) <= Len(all)
  BY <1>6, LiveSequenceBound
<1>9. queue' = queue \o <<b>> /\ failed' = failed
  <2>1. Len(queue) \in Nat
    BY <1>6, LenProperties
  <2>2. Len(queue) + Len(<<b>>) <= QUEUE_CAP
    BY <1>2, <1>5, <1>8, <2>1, SchedulerAssumption DEF QUEUE_CAP, co_create
  <2> QED
    BY <2>2 DEF co_create, q_push
<1>10. TypeOK'
  <2>1. Len(all') <= MAX_COROUTINES /\ Len(all) + 1 \in 0 .. MAX_COROUTINES
    BY <1>2, SchedulerAssumption DEF co_create
  <2> QED
    BY <1>2, <1>7, <1>9, <2>1 DEF TypeOK, co_create, CoState
<1>11. QueueIsReadySet'
  BY <1>1, <1>3, <1>7, <1>9 DEF QueueIsReadySet
<1>12. RunningIsCaller'
  BY <1>1, <1>3 DEF RunningIsCaller, co_create
<1>13. NoLostWakeup'
  BY <1>1, <1>3 DEF NoLostWakeup
<1>14. NoForeignOwner'
  BY DEF NoForeignOwner, co_create, TypeOK
<1> QED
  BY <1>4, <1>9, <1>10, <1>11, <1>12, <1>13, <1>14 DEF InternalAssertionsHold

(* co_free: the block of a DONE coroutine is neither queued nor awaited.    *)
LEMMA FreePreserves ==
    ASSUME IInv, NEW b \in Blocks, co_free(b)
    PROVE  IInv'
<1> USE DEF IInv
<1>1. Live' = Live \ {b} /\ state[b] = "DONE" /\ b \in Live
  BY DEF co_free, Live, TypeOK
<1>2. TypeOK'
  BY DEF co_free, TypeOK
<1>3. QueueIsReadySet'
  BY <1>1 DEF QueueIsReadySet, co_free
<1>4. RunningIsCaller'
  BY <1>1 DEF RunningIsCaller, co_free
<1>5. NoLostWakeup'
  BY <1>1 DEF NoLostWakeup, co_free
<1>6. IdsFindCoroutines'
  BY <1>1 DEF IdsFindCoroutines, co_free
<1>7. NoForeignOwner'
  BY DEF NoForeignOwner, co_free, TypeOK
<1> QED
  BY <1>2, <1>3, <1>4, <1>5, <1>6, <1>7 DEF InternalAssertionsHold, co_free

(* A failed caller assertion changes nothing but failed. *)
LEMMA CallerFailurePreserves ==
    ASSUME IInv, NEW a \in CallerAssertions, AssertionFails(a)
    PROVE  IInv'
<1> USE DEF IInv, AssertionFails
<1>1. TypeOK'
  BY DEF TypeOK
<1>2. InternalAssertionsHold'
  BY DEF InternalAssertionsHold, InternalAssertions, CallerAssertions
<1>3. QueueIsReadySet' /\ RunningIsCaller' /\ NoLostWakeup' /\ IdsFindCoroutines' /\ NoForeignOwner'
  BY DEF QueueIsReadySet, RunningIsCaller, NoLostWakeup, IdsFindCoroutines, NoForeignOwner, Live
<1> QED
  BY <1>1, <1>2, <1>3

(* co_yield: S.running is the caller, which is RUNNING and so not queued.   *)
LEMMA YieldPreserves ==
    ASSUME IInv, co_yield
    PROVE  IInv'
<1> USE DEF IInv
<1>1. /\ running = cpu /\ cpu \in Blocks /\ running \in Live
      /\ state[running] = "RUNNING"
  BY SchedulerAssumption DEF co_yield, InApplication, RunningIsCaller, TypeOK
<1>2. Live' = Live
  BY DEF co_yield, Live
<1>3. /\ <<running>> \in Seq(Blocks) /\ IsInjective(<<running>>)
      /\ Range(<<running>>) = {running}
  BY <1>1 DEF IsInjective, Range
<1>4. /\ state'[running] = "READY"
      /\ \A c \in Live : c # running => state'[c] = state[c]
  BY <1>1 DEF co_yield, TypeOK, Live
<1>5. Range(<<running>>) \cap Range(queue) = {} /\ Range(<<running>>) \subseteq Live
  BY <1>1, <1>3 DEF QueueIsReadySet
<1>6. /\ failed' = failed /\ queue' \in Seq(Blocks) /\ IsInjective(queue')
      /\ Range(queue') = Range(queue) \cup Range(<<running>>)
  BY <1>3, <1>5, PushSucceeds DEF co_yield
<1>7. TypeOK'
  BY <1>1, <1>6 DEF TypeOK, co_yield, CoState
<1>8. QueueIsReadySet'
  BY <1>1, <1>2, <1>3, <1>4, <1>6 DEF QueueIsReadySet
<1>9. RunningIsCaller'
  BY <1>1, <1>2, <1>4, SchedulerAssumption DEF RunningIsCaller, co_yield
<1>10. NoLostWakeup'
  BY <1>1, <1>2, <1>4 DEF NoLostWakeup, co_yield
<1>11. IdsFindCoroutines' /\ NoForeignOwner'
  BY <1>2 DEF IdsFindCoroutines, NoForeignOwner, co_yield
<1> QED
  BY <1>6, <1>7, <1>8, <1>9, <1>10, <1>11 DEF InternalAssertionsHold

(* co_await: the awaited coroutine is live and not DONE; it may be the      *)
(* caller itself.                                                           *)
LEMMA AwaitPreserves ==
    ASSUME IInv, NEW other \in Blocks, co_await(other)
    PROVE  IInv'
<1> USE DEF IInv
<1>1. /\ running = cpu /\ cpu \in Blocks /\ running \in Live
      /\ state[running] = "RUNNING"
  BY SchedulerAssumption DEF co_await, InApplication, RunningIsCaller, TypeOK
<1>2. Live' = Live /\ other \in Live /\ state[other] # "DONE"
  BY DEF co_await, Live
<1>3. /\ state'[running] = "WAITING" /\ awaiting'[running] = other
      /\ \A c \in Live : c # running => state'[c] = state[c] /\ awaiting'[c] = awaiting[c]
  BY <1>1 DEF co_await, TypeOK, Live
<1>4. TypeOK'
  BY <1>1 DEF TypeOK, co_await, CoState
<1>5. QueueIsReadySet'
  BY <1>1, <1>2, <1>3 DEF QueueIsReadySet, co_await
<1>6. RunningIsCaller'
  BY <1>1, <1>2, <1>3, SchedulerAssumption DEF RunningIsCaller, co_await
<1>7. NoLostWakeup'
  BY <1>1, <1>2, <1>3 DEF NoLostWakeup
<1>8. IdsFindCoroutines' /\ NoForeignOwner'
  BY <1>2 DEF IdsFindCoroutines, NoForeignOwner, co_await
<1> QED
  BY <1>4, <1>5, <1>6, <1>7, <1>8 DEF InternalAssertionsHold, co_await

(* co_entry: no stale entry matches, the waiters are WAITING and so not     *)
(* queued, and afterwards nobody waits for the finished coroutine.          *)
LEMMA EntryPreserves ==
    ASSUME IInv, NEW co \in Blocks, co_entry(co)
    PROVE  IInv'
<1> USE DEF IInv
<1> DEFINE W == Waiters(co)
<1>1. cpu = co /\ co \in Live /\ state[co] = "RUNNING" /\ Live' = Live
  BY DEF co_entry, RunningIsCaller, Live
<1>2. StaleEntries = {}
  <2>1. Range(all) \subseteq Blocks
    BY RangeOfSeq DEF TypeOK
  <2> QED
    BY <2>1 DEF StaleEntries, NoForeignOwner
<1>3. wakeup_waiters(co, W)
  BY <1>2 DEF co_entry
<1>4. W \subseteq Live /\ W \in SUBSET Blocks /\ co \notin W
  BY <1>1 DEF Waiters, Live
<1>5. PICK s \in ScanOrder(W) : q_push(s)
  BY <1>3 DEF wakeup_waiters
<1>6. s \in Seq(Blocks) /\ IsInjective(s) /\ Range(s) = W
  BY <1>4, ScanOrderListsOnce
<1>7. Range(s) \cap Range(queue) = {} /\ Range(s) \subseteq Live
  BY <1>4, <1>6 DEF QueueIsReadySet, Waiters
<1>8. /\ failed' = failed /\ queue' \in Seq(Blocks) /\ IsInjective(queue')
      /\ Range(queue') = Range(queue) \cup W
  BY <1>5, <1>6, <1>7, PushSucceeds
<1>9. /\ state'[co] = "DONE"
      /\ \A c \in W : state'[c] = "READY" /\ awaiting'[c] = NULL
      /\ \A c \in Live : c # co /\ c \notin W => state'[c] = state[c] /\ awaiting'[c] = awaiting[c]
  BY <1>1, <1>3, <1>4 DEF wakeup_waiters, Live
<1>10. TypeOK'
  <2>1. state' \in [Blocks -> CoState] /\ awaiting' \in [Blocks -> Blocks \cup {NULL}]
    BY <1>3 DEF wakeup_waiters, TypeOK, CoState
  <2> QED
    BY <1>8, <2>1 DEF TypeOK, co_entry
<1>11. QueueIsReadySet'
  BY <1>1, <1>4, <1>8, <1>9 DEF QueueIsReadySet
<1>12. RunningIsCaller'
  BY <1>1, <1>4, <1>9, SchedulerAssumption DEF RunningIsCaller, co_entry
<1>13. NoLostWakeup'
  <2> SUFFICES ASSUME NEW c \in Live, state'[c] = "WAITING"
               PROVE  awaiting'[c] \in Live /\ state'[awaiting'[c]] # "DONE"
    BY <1>1 DEF NoLostWakeup
  <2>1. c # co /\ c \notin W /\ state[c] = "WAITING" /\ awaiting'[c] = awaiting[c]
    BY <1>9
  <2>2. awaiting[c] \in Live /\ state[awaiting[c]] # "DONE" /\ awaiting[c] # co
    BY <2>1 DEF NoLostWakeup, Waiters
  <2> QED
    BY <1>9, <2>1, <2>2
<1>14. IdsFindCoroutines' /\ NoForeignOwner'
  BY <1>1 DEF IdsFindCoroutines, NoForeignOwner, co_entry
<1> QED
  BY <1>8, <1>10, <1>11, <1>12, <1>13, <1>14 DEF InternalAssertionsHold

(* The loop of co_run resumes the oldest coroutine of the queue, which is   *)
(* READY: the assertion holds, and no other coroutine is RUNNING.           *)
LEMMA ResumePreserves ==
    ASSUME IInv, resume
    PROVE  IInv'
<1> USE DEF IInv
<1> DEFINE h == Head(queue)
<1>1. /\ queue \in Seq(Blocks) /\ queue # << >> /\ cpu = Loop
      /\ DOMAIN queue = 1 .. Len(queue) /\ Len(queue) \in Nat \ {0}
  BY EmptySeq, LenProperties DEF resume, TypeOK
<1>2. /\ queue' = Tail(queue) /\ queue' \in Seq(Blocks) /\ Len(queue') = Len(queue) - 1
      /\ DOMAIN queue' = 1 .. Len(queue) - 1
      /\ \A i \in 1 .. Len(queue) - 1 : queue'[i] = queue[i + 1]
      /\ h = queue[1] /\ h \in Blocks
  <2>1. queue' = Tail(queue)
    BY DEF resume
  <2>2. /\ Tail(queue) \in Seq(Blocks) /\ Len(Tail(queue)) = Len(queue) - 1
        /\ \A i \in 1 .. Len(Tail(queue)) : Tail(queue)[i] = queue[i + 1]
    BY <1>1, HeadTailProperties
  <2>3. DOMAIN Tail(queue) = 1 .. Len(queue) - 1
    BY <2>2, LenProperties
  <2>4. h = queue[1] /\ h \in Blocks
    BY <1>1
  <2> QED
    BY <2>1, <2>2, <2>3, <2>4
<1>3. IsInjective(queue')
  <2> SUFFICES ASSUME NEW i \in 1 .. Len(queue) - 1, NEW j \in 1 .. Len(queue) - 1,
                      queue'[i] = queue'[j]
               PROVE  i = j
    BY <1>2 DEF IsInjective
  <2>1. i + 1 \in 1 .. Len(queue) /\ j + 1 \in 1 .. Len(queue) /\ queue[i + 1] = queue[j + 1]
    BY <1>1, <1>2
  <2>2. i + 1 = j + 1
    BY <1>1, <2>1 DEF QueueIsReadySet, IsInjective
  <2> QED
    BY <2>2
<1>4. Range(queue') = Range(queue) \ {h}
  <2>1. ASSUME NEW c \in Range(queue) \ {h} PROVE c \in Range(queue')
    <3>1. PICK i \in 1 .. Len(queue) : c = queue[i]
      BY <1>1, <2>1 DEF Range
    <3>2. i - 1 \in 1 .. Len(queue) - 1 /\ (i - 1) + 1 = i
      BY <1>1, <1>2, <2>1, <3>1
    <3> QED
      BY <1>2, <3>1, <3>2 DEF Range
  <2>2. ASSUME NEW c \in Range(queue') PROVE c \in Range(queue) \ {h}
    <3>1. PICK i \in 1 .. Len(queue) - 1 : c = queue'[i]
      BY <1>2, <2>2 DEF Range
    <3>2. i + 1 \in 1 .. Len(queue) /\ c = queue[i + 1] /\ i + 1 # 1
      BY <1>1, <1>2, <3>1
    <3> QED
      BY <1>1, <1>2, <3>2 DEF Range, QueueIsReadySet, IsInjective
  <2> QED
    BY <2>1, <2>2
<1>5. h \in Live /\ state[h] = "READY"
  BY <1>1, <1>2 DEF QueueIsReadySet, Range
<1>6. /\ state' = [state EXCEPT ![h] = "RUNNING"]
      /\ running' = h /\ cpu' = h /\ failed' = failed /\ Live' = Live
  BY <1>5 DEF resume, Live
<1>7. state'[h] = "RUNNING" /\ \A c \in Live : c # h => state'[c] = state[c]
  BY <1>2, <1>6 DEF TypeOK, Live
<1>8. TypeOK'
  BY <1>2, <1>6 DEF TypeOK, resume, CoState
<1>9. QueueIsReadySet'
  BY <1>3, <1>4, <1>5, <1>6, <1>7 DEF QueueIsReadySet
<1>10. RunningIsCaller'
  BY <1>1, <1>2, <1>5, <1>6, <1>7, SchedulerAssumption DEF RunningIsCaller
<1>11. NoLostWakeup'
  BY <1>5, <1>6, <1>7 DEF NoLostWakeup, resume
<1>12. IdsFindCoroutines' /\ NoForeignOwner'
  BY <1>6 DEF IdsFindCoroutines, NoForeignOwner, resume
<1> QED
  BY <1>6, <1>8, <1>9, <1>10, <1>11, <1>12 DEF InternalAssertionsHold

(* Calling co_run and returning from it only hand over the thread. *)
LEMMA RunPreserves ==
    ASSUME IInv, co_run \/ co_run_return
    PROVE  IInv'
<1> USE DEF IInv
<1>1. Live' = Live /\ state' = state /\ queue' = queue /\ failed' = failed
  BY DEF co_run, co_run_return, Live
<1>2. TypeOK'
  BY DEF TypeOK, co_run, co_run_return
<1>3. RunningIsCaller'
  BY <1>1, SchedulerAssumption DEF RunningIsCaller, co_run, co_run_return
<1>4. QueueIsReadySet' /\ NoLostWakeup' /\ IdsFindCoroutines' /\ NoForeignOwner'
  BY <1>1 DEF QueueIsReadySet, NoLostWakeup, IdsFindCoroutines, NoForeignOwner,
              co_run, co_run_return
<1> QED
  BY <1>1, <1>2, <1>3, <1>4 DEF InternalAssertionsHold

(* Every step of the library preserves the inductive invariant. *)
LEMMA NextPreserves == IInv /\ [Next]_vars => IInv'
<1> SUFFICES ASSUME IInv, [Next]_vars PROVE IInv'
  OBVIOUS
<1>1. CASE UNCHANGED vars
  BY <1>1 DEF vars, IInv, TypeOK, NoForeignOwner, QueueIsReadySet, RunningIsCaller,
              NoLostWakeup, IdsFindCoroutines, InternalAssertionsHold, Live
<1>2. ASSUME NEW b \in Blocks, co_create(b) PROVE IInv'
  BY <1>2, CreatePreserves
<1>3. ASSUME NEW b \in Blocks, co_free(b) PROVE IInv'
  BY <1>3, FreePreserves
<1>4. CASE co_yield
  BY <1>4, YieldPreserves
<1>5. ASSUME NEW other \in Blocks, co_await(other) PROVE IInv'
  BY <1>5, AwaitPreserves
<1>6. ASSUME NEW co \in Blocks, co_entry(co) PROVE IInv'
  BY <1>6, EntryPreserves
<1>7. CASE resume
  BY <1>7, ResumePreserves
<1>8. CASE co_run \/ co_run_return
  BY <1>8, RunPreserves
<1>9. ASSUME NEW b \in Blocks, co_free_unfinished(b) \/ co_await_outside(b)
      PROVE  IInv'
  <2>1. PICK a \in CallerAssertions : AssertionFails(a)
    BY <1>9 DEF co_free_unfinished, co_await_outside, CallerAssertions
  <2> QED
    BY <2>1, CallerFailurePreserves
<1>10. ASSUME co_create_too_many \/ null_argument \/ co_yield_outside
       PROVE  IInv'
  <2>1. PICK a \in CallerAssertions : AssertionFails(a)
    BY <1>10 DEF co_create_too_many, null_argument, co_yield_outside, CallerAssertions
  <2> QED
    BY <2>1, CallerFailurePreserves
<1>11. CASE co_create_no_memory
  BY <1>1, <1>11 DEF co_create_no_memory
<1>12. ASSUME NEW other \in Blocks, co_await_finished(other) PROVE IInv'
  BY <1>1, <1>12 DEF co_await_finished
<1> QED
  BY <1>1, <1>2, <1>3, <1>4, <1>5, <1>6, <1>7, <1>8, <1>9, <1>10, <1>11, <1>12 DEF Next

(* Whatever calls main and the coroutines make, in whatever order, the      *)
(* inductive invariant holds.                                               *)
THEOREM Invariance == Spec => []IInv
<1> QED
  BY InitEstablishes, NextPreserves, PTL DEF Spec

(* Type correctness of the library's state (lines 67-105). *)
THEOREM TypeCorrect == Spec => []TypeOK
<1>1. IInv => TypeOK
  BY DEF IInv
<1> QED
  BY <1>1, Invariance, PTL

(* The run queue always holds the READY coroutines, once each (lines        *)
(* 108-133, 207-208, 241-251).                                              *)
THEOREM QueueCorrect == Spec => []QueueIsReadySet
<1>1. IInv => QueueIsReadySet
  BY DEF IInv
<1> QED
  BY <1>1, Invariance, PTL

(* co_id, co_yield and co_await always act on the coroutine that calls them *)
(* (lines 220-231, 241-270).                                                *)
THEOREM CallerCorrect == Spec => []RunningIsCaller
<1>1. IInv => RunningIsCaller
  BY DEF IInv
<1> QED
  BY <1>1, Invariance, PTL

(* No coroutine ever waits for one that is finished or freed (lines 124-133,*)
(* 212-217, 253-266).                                                       *)
THEOREM NoWakeupIsLost == Spec => []NoLostWakeup
<1>1. IInv => NoLostWakeup
  BY DEF IInv
<1> QED
  BY <1>1, Invariance, PTL

(* The overflow assertion of q_push and the READY assertion of co_run never *)
(* fail, for any number of blocks and any MAX_COROUTINES (lines 109, 236).  *)
THEOREM AssertionsHold == Spec => []InternalAssertionsHold
<1>1. IInv => InternalAssertionsHold
  BY DEF IInv
<1> QED
  BY <1>1, Invariance, PTL

(* S.all finds every live coroutine under its id (lines 176, 207).          *)
THEOREM IdsCorrect == Spec => []IdsFindCoroutines
<1>1. IInv => IdsFindCoroutines
  BY DEF IInv
<1> QED
  BY <1>1, Invariance, PTL

(* A step leaves the queue alone, takes its head or extends it at its end.  *)
LEMMA QueueStep ==
    ASSUME IInv, [Next]_vars
    PROVE  \/ queue' = queue
           \/ queue # << >> /\ queue' = Tail(queue)
           \/ \E s \in Seq(Blocks) : queue' = queue \o s
<1>1. ASSUME NEW s \in Seq(Blocks), q_push(s)
      PROVE  queue' = queue \/ \E t \in Seq(Blocks) : queue' = queue \o t
  BY <1>1 DEF q_push
<1>2. \A b \in Blocks : <<b>> \in Seq(Blocks)
  OBVIOUS
<1>3. ASSUME NEW b \in Blocks, co_create(b) PROVE q_push(<<b>>)
  BY <1>3 DEF co_create
<1>4. ASSUME co_yield PROVE running \in Blocks /\ q_push(<<running>>)
  BY <1>4 DEF co_yield, IInv, TypeOK
<1>5. ASSUME NEW co \in Blocks, co_entry(co)
      PROVE  \E s \in Seq(Blocks) : q_push(s)
  <2>1. PICK stale \in SUBSET StaleEntries :
            wakeup_waiters(co, Waiters(co) \cup stale)
    BY <1>5 DEF co_entry
  <2> DEFINE W == Waiters(co) \cup stale
  <2>2. W \subseteq Blocks
    <3>1. Waiters(co) \subseteq Blocks
      BY DEF Waiters, Live
    <3>2. StaleEntries = {}
      BY RangeOfSeq DEF StaleEntries, IInv, NoForeignOwner, TypeOK
    <3> QED
      BY <3>1, <3>2
  <2>3. PICK s \in ScanOrder(W) : q_push(s)
    BY <2>1 DEF wakeup_waiters
  <2>4. IsFiniteSet(W) /\ Cardinality(W) \in Nat
    BY <2>2, SchedulerAssumption, FS_Subset, FS_CardinalityType
  <2>5. s \in [1 .. Cardinality(W) -> Blocks]
    BY <2>2 DEF ScanOrder
  <2>6. s \in Seq(Blocks)
    <3>1. PICK n \in Nat : n = Cardinality(W)
      BY <2>4
    <3>2. s \in [1 .. n -> Blocks]
      BY <2>5, <3>1
    <3> HIDE DEF W
    <3> QED
      BY <3>2, SeqDef
  <2> QED
    BY <2>3, <2>6
<1> QED
  BY <1>1, <1>2, <1>3, <1>4, <1>5
     DEF Next, vars, co_create_no_memory, co_create_too_many, co_free,
         co_free_unfinished, null_argument, AssertionFails, co_yield_outside,
         co_await, co_await_finished, co_await_outside, co_run, resume,
         co_run_return

(* The action of the property FirstComeFirstServed. *)
KeepsOrder ==
    /\ \A i, j \in DOMAIN queue :
           i < j /\ queue[i] \in Range(queue') => queue[j] \in Range(queue')
    /\ \A k, l \in DOMAIN queue' :
           k < l /\ queue'[l] \in Range(queue) =>
               \E i, j \in DOMAIN queue :
                   i < j /\ queue[i] = queue'[k] /\ queue[j] = queue'[l]

(* Whatever a step does to the run queue, it keeps the order: the queue     *)
(* holds nobody twice before the step nor after it.                         *)
LEMMA StepKeepsOrder ==
    ASSUME IInv, IInv', [Next]_vars
    PROVE  KeepsOrder
<1>1. /\ queue \in Seq(Blocks) /\ IsInjective(queue)
      /\ queue' \in Seq(Blocks) /\ IsInjective(queue')
  BY DEF IInv, TypeOK, QueueIsReadySet
<1>2. /\ DOMAIN queue = 1 .. Len(queue) /\ Len(queue) \in Nat
      /\ DOMAIN queue' = 1 .. Len(queue') /\ Len(queue') \in Nat
  BY <1>1, LenProperties
<1>3. CASE queue' = queue
  <2>1. ASSUME NEW i \in DOMAIN queue PROVE queue[i] \in Range(queue')
    BY <1>3 DEF Range
  <2> QED
    BY <1>3, <2>1 DEF KeepsOrder
<1>4. CASE \E s \in Seq(Blocks) : queue' = queue \o s
  <2>1. PICK s \in Seq(Blocks) : queue' = queue \o s
    BY <1>4
  <2>2. \A i \in DOMAIN queue : i \in DOMAIN queue' /\ queue'[i] = queue[i]
    BY <1>1, <2>1, ConcatProperties, LenProperties
  <2>3. ASSUME NEW i \in DOMAIN queue PROVE queue[i] \in Range(queue')
    BY <2>2 DEF Range
  <2>4. ASSUME NEW k \in DOMAIN queue', NEW l \in DOMAIN queue', k < l,
               queue'[l] \in Range(queue)
        PROVE  \E i, j \in DOMAIN queue :
                   i < j /\ queue[i] = queue'[k] /\ queue[j] = queue'[l]
    <3>1. PICK j \in DOMAIN queue : queue[j] = queue'[l]
      BY <2>4 DEF Range
    <3>2. j = l
      BY <1>1, <2>2, <3>1 DEF IsInjective
    <3>3. k \in DOMAIN queue
      BY <1>2, <2>4, <3>2
    <3> QED
      BY <2>2, <2>4, <3>1, <3>2, <3>3
  <2> QED
    BY <2>3, <2>4 DEF KeepsOrder
<1>5. CASE queue # << >> /\ queue' = Tail(queue)
  <2>1. /\ Len(queue') = Len(queue) - 1
        /\ \A i \in DOMAIN queue' : i + 1 \in DOMAIN queue /\ queue'[i] = queue[i + 1]
    BY <1>1, <1>2, <1>5, HeadTailProperties
  <2>2. ASSUME NEW i \in DOMAIN queue, NEW j \in DOMAIN queue, i < j
        PROVE  queue[j] \in Range(queue')
    <3>1. j - 1 \in DOMAIN queue' /\ (j - 1) + 1 = j
      BY <1>2, <2>1, <2>2
    <3>2. queue'[j - 1] = queue[j]
      BY <2>1, <3>1
    <3> QED
      BY <3>1, <3>2 DEF Range
  <2>3. ASSUME NEW k \in DOMAIN queue', NEW l \in DOMAIN queue', k < l
        PROVE  \E i, j \in DOMAIN queue :
                   i < j /\ queue[i] = queue'[k] /\ queue[j] = queue'[l]
    <3>1. k + 1 < l + 1
      BY <1>2, <2>3
    <3> QED
      BY <2>1, <3>1
  <2> QED
    BY <2>2, <2>3 DEF KeepsOrder
<1> QED
  BY <1>3, <1>4, <1>5, QueueStep

(* Turns are taken in the order in which they were given, for any number of *)
(* coroutines (lines 108-121, 128-130, 244-245).                            *)
THEOREM OrderKept == Spec => FirstComeFirstServed
<1>1. IInv /\ IInv' /\ [Next]_vars => KeepsOrder
  BY StepKeepsOrder
<1> QED
  BY <1>1, Invariance, PTL DEF Spec, FirstComeFirstServed, KeepsOrder
=============================================================================
