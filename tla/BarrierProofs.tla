--------------------------- MODULE BarrierProofs ----------------------------
(***************************************************************************)
(* The barrier of barrier.c for any number of workers and rounds.          *)
(***************************************************************************)
EXTENDS Barrier, TLAPS, FiniteSetTheorems, SequenceTheorems

(* Only the participants ever run, and none awaits. *)
OnlyParticipants ==
    /\ current \in Participants \cup {0}
    /\ turns \in Seq(Participants)
    /\ life \in [1 .. Limit -> {"unborn", "READY", "RUNNING", "DONE"}]

(* How far worker w can be in phase ph: outside the loop it has completed  *)
(* ph calls; inside it has made one more than it has completed, and waits  *)
(* for the present phase or for one that has just ended.                   *)
Lap(ph, mp, e, p) ==
    \/ mp = NotWaiting /\ e = ph /\ p = ph
    \/ mp = ph /\ e = ph + 1 /\ p = ph
    \/ mp = ph - 1 /\ mp \in Nat /\ e = ph /\ p = ph - 1

(* The inductive invariant. *)
GateInv ==
    /\ required \in Workers /\ arrived \in Nat /\ phase \in Nat
    /\ my_phase \in [Workers -> Int]
    /\ entered \in [Workers -> Nat] /\ passed \in [Workers -> Nat]
    /\ OnlyParticipants
    /\ ArrivalsCounted
    /\ \A w \in Participants : Lap(phase, my_phase[w], entered[w], passed[w])

(* Sets of participants are finite, and there are required of them. *)
LEMMA Finite ==
    ASSUME required \in Workers
    PROVE  /\ IsFiniteSet(Participants) /\ Cardinality(Participants) = required
           /\ \A S \in SUBSET Participants :
                 IsFiniteSet(S) /\ Cardinality(S) \in Nat /\ Cardinality(S) <= required
<1>1. required \in Nat /\ required >= 1
  BY BarrierAssumption DEF Workers
<1>2. IsFiniteSet(Participants) /\ Cardinality(Participants) = required
  BY <1>1, FS_Interval DEF Participants
<1> QED
  BY <1>2, FS_Subset, FS_CardinalityType

(* main sets it up. *)
LEMMA GateInit == BarrierInit => GateInv
<1> SUFFICES ASSUME BarrierInit PROVE GateInv
  OBVIOUS
<1>1. required \in Workers /\ required \in Nat /\ required >= 1
  BY BarrierAssumption DEF BarrierInit, cob_init, Workers
<1>2. turns \in Seq(Participants)
  <2>1. turns = [c \in 1 .. required |-> c]
    BY DEF BarrierInit, cob_init, Started, Upto
  <2>2. turns \in [1 .. required -> Participants]
    BY <2>1 DEF Participants
  <2> QED
    BY <1>1, <2>2, SeqDef
<1>3. current = 0 /\ life \in [1 .. Limit -> {"unborn", "READY", "RUNNING", "DONE"}]
  BY DEF BarrierInit, cob_init, Started, Lib!None
<1>4. \A w \in Participants : w \in Workers
  BY <1>1, BarrierAssumption DEF Participants, Workers
<1>5. Waiting = {}
  BY <1>4 DEF BarrierInit, cob_init, Waiting, NotWaiting
<1> QED
  BY <1>1, <1>2, <1>3, <1>4, <1>5, FS_EmptySet
     DEF BarrierInit, cob_init, GateInv, OnlyParticipants, ArrivalsCounted, Lap, NotWaiting

(* A turn is given to a participant. *)
LEMMA TurnStep ==
    ASSUME OnlyParticipants, Lib!Turn, UNCHANGED required, required \in Workers
    PROVE  OnlyParticipants'
<1>1. Participants' = Participants
  BY DEF Participants
<1>2. Head(turns) \in Participants /\ Tail(turns) \in Seq(Participants)
  BY HeadTailProperties DEF Lib!Turn, OnlyParticipants
<1>3. life' \in [1 .. Limit -> {"unborn", "READY", "RUNNING", "DONE"}]
  BY DEF Lib!Turn, OnlyParticipants
<1> QED
  BY <1>1, <1>2, <1>3 DEF Lib!Turn, OnlyParticipants

(* The participant that yields goes back to the queue. *)
LEMMA YieldStep ==
    ASSUME OnlyParticipants, NEW w \in Workers, Lib!Yield(w), UNCHANGED required
    PROVE  OnlyParticipants' /\ w \in Participants
<1>1. Participants' = Participants /\ w \in Participants
  BY DEF Participants, Lib!Yield, OnlyParticipants, Workers
<1>2. Append(turns, w) \in Seq(Participants)
  BY <1>1 DEF OnlyParticipants
<1>3. life' \in [1 .. Limit -> {"unborn", "READY", "RUNNING", "DONE"}]
  BY DEF Lib!Yield, OnlyParticipants
<1>4. current' = 0 /\ turns' = Append(turns, w)
  BY DEF Lib!Yield, Lib!None
<1> QED
  BY <1>1, <1>2, <1>3, <1>4 DEF OnlyParticipants

(* Nobody waits for the participant that returns. *)
LEMMA FinishStep ==
    ASSUME OnlyParticipants, NEW w \in Workers, Lib!Finish(w), UNCHANGED required
    PROVE  OnlyParticipants'
<1> DEFINE W == {d \in 1 .. Limit : life[d] = "WAITING" /\ target[d] = w}
<1>1. Participants' = Participants
  BY DEF Participants
<1>2. W = {}
  BY DEF OnlyParticipants
<1>3. PICK s \in Lib!Orders(W) : turns' = turns \o s
  BY DEF Lib!Finish, Lib!Coroutines
<1>4. s \in [1 .. 0 -> {}]
  <2>1. Lib!Cardinality(W) = Cardinality(W)
    BY DEF Lib!Cardinality, Cardinality, Lib!IsFiniteSet, IsFiniteSet
  <2> QED
    BY <1>2, <1>3, <2>1, FS_EmptySet DEF Lib!Orders
<1>5. s \in Seq(Participants)
  <2>1. s \in [1 .. 0 -> Participants]
    BY <1>4
  <2> QED
    BY <2>1, SeqDef
<1>6. turns' \in Seq(Participants)
  BY <1>3, <1>5, ConcatProperties DEF OnlyParticipants
<1>7. life' = [d \in 1 .. Limit |-> IF d = w THEN "DONE" ELSE IF d \in W THEN "READY" ELSE life[d]]
  BY DEF Lib!Finish, Lib!Coroutines
<1>8. life' \in [1 .. Limit -> {"unborn", "READY", "RUNNING", "DONE"}]
  BY <1>2, <1>7 DEF OnlyParticipants
<1>9. current' = 0
  BY DEF Lib!Finish, Lib!None
<1> QED
  BY <1>1, <1>6, <1>8, <1>9 DEF OnlyParticipants

(* The last arrival finds everybody else waiting for the present phase. *)
LEMMA LastMeansAll ==
    ASSUME GateInv, NEW w \in Participants, my_phase[w] = NotWaiting, IsLast
    PROVE  \A v \in Participants : v # w => my_phase[v] = phase
<1>1. required \in Nat /\ arrived \in Nat /\ phase \in Nat /\ arrived + 1 >= required
  BY BarrierAssumption DEF GateInv, Workers, IsLast
<1>2. w \notin Waiting /\ Waiting \in SUBSET Participants
  BY <1>1 DEF Waiting, NotWaiting
<1>3. IsFiniteSet(Waiting) /\ Cardinality(Waiting) = arrived
  BY <1>2, Finite DEF GateInv, ArrivalsCounted
<1>4. IsFiniteSet(Waiting \cup {w}) /\ Cardinality(Waiting \cup {w}) = arrived + 1
  BY <1>2, <1>3, FS_AddElement
<1>5. IsFiniteSet(Participants) /\ Cardinality(Participants) = required
  BY Finite DEF GateInv
<1>6. Waiting \cup {w} \subseteq Participants
  BY <1>2
<1>7. Cardinality(Waiting \cup {w}) = Cardinality(Participants)
  BY <1>1, <1>4, <1>5, <1>6, FS_Subset
<1>8. Waiting \cup {w} = Participants
  BY <1>5, <1>6, <1>7, FS_Subset
<1> QED
  BY <1>8 DEF Waiting

(* A call of cob_wait that opens the barrier. *)
LEMMA ReleaseStep ==
    ASSUME GateInv, NEW w \in Workers, cob_wait(w), IsLast
    PROVE  GateInv'
<1>1. /\ current = w /\ my_phase[w] = NotWaiting
      /\ arrived' = 0 /\ phase' = phase + 1
      /\ entered' = [entered EXCEPT ![w] = @ + 1]
      /\ passed' = [passed EXCEPT ![w] = @ + 1]
      /\ UNCHANGED <<my_phase, life, turns, current, required>>
  BY DEF cob_wait, Release, lib
<1>2. w \in Participants /\ required \in Nat /\ required >= 1 /\ phase \in Nat
  BY <1>1, BarrierAssumption DEF GateInv, OnlyParticipants, Workers
<1>3. \A v \in Participants : v # w => my_phase[v] = phase
  BY <1>1, <1>2, LastMeansAll
<1>4. Participants' = Participants /\ \A v \in Participants : v \in Workers
  BY <1>1, <1>2, BarrierAssumption DEF Participants, GateInv, Workers
<1>5. OnlyParticipants'
  BY <1>1, <1>4 DEF GateInv, OnlyParticipants
<1>6. ASSUME NEW v \in Participants
      PROVE  Lap(phase', my_phase'[v], entered'[v], passed'[v]) /\ my_phase'[v] # phase'
  <2>1. Lap(phase, my_phase[v], entered[v], passed[v])
    BY DEF GateInv
  <2>2. CASE v = w
    BY <1>1, <1>2, <2>1, <2>2 DEF Lap, GateInv, NotWaiting
  <2>3. CASE v # w
    <3>1. my_phase[v] = phase /\ entered'[v] = entered[v] /\ passed'[v] = passed[v]
      BY <1>1, <1>3, <1>4, <2>3 DEF GateInv
    <3> QED
      BY <1>1, <1>2, <2>1, <3>1 DEF Lap, NotWaiting
  <2> QED
    BY <2>2, <2>3
<1>7. Waiting' = {}
  BY <1>4, <1>6 DEF Waiting
<1>8. ArrivalsCounted'
  BY <1>1, <1>2, <1>7, FS_EmptySet DEF ArrivalsCounted
<1>9. entered' \in [Workers -> Nat] /\ passed' \in [Workers -> Nat]
  BY <1>1 DEF GateInv
<1> QED
  BY <1>1, <1>2, <1>4, <1>5, <1>6, <1>8, <1>9 DEF GateInv

(* A call of cob_wait that waits. *)
LEMMA ArriveStep ==
    ASSUME GateInv, NEW w \in Workers, cob_wait(w), ~IsLast
    PROVE  GateInv'
<1>1. /\ my_phase[w] = NotWaiting /\ arrived' = arrived + 1
      /\ my_phase' = [my_phase EXCEPT ![w] = phase]
      /\ entered' = [entered EXCEPT ![w] = @ + 1]
      /\ Lib!Yield(w)
      /\ UNCHANGED <<phase, passed, required>>
  BY DEF cob_wait
<1>2. w \in Participants /\ OnlyParticipants'
  BY <1>1, YieldStep DEF GateInv
<1>3. required \in Nat /\ arrived \in Nat /\ phase \in Nat /\ arrived + 1 < required
  BY BarrierAssumption DEF GateInv, Workers, IsLast
<1>4. Participants' = Participants /\ \A v \in Participants : v \in Workers
  BY <1>1, <1>3, BarrierAssumption DEF Participants, GateInv, Workers
<1>5. Waiting' = Waiting \cup {w} /\ w \notin Waiting
  BY <1>1, <1>2, <1>3, <1>4 DEF Waiting, GateInv, NotWaiting
<1>6. ArrivalsCounted'
  <2>1. Waiting \in SUBSET Participants /\ Cardinality(Waiting) = arrived
    BY DEF Waiting, GateInv, ArrivalsCounted
  <2>2. Cardinality(Waiting') = arrived + 1
    BY <1>5, <2>1, Finite, FS_AddElement DEF GateInv
  <2> QED
    BY <1>1, <1>3, <2>2 DEF ArrivalsCounted
<1>7. \A v \in Participants : Lap(phase', my_phase'[v], entered'[v], passed'[v])
  BY <1>1, <1>2, <1>3, <1>4 DEF GateInv, Lap, NotWaiting
<1>8. my_phase' \in [Workers -> Int] /\ entered' \in [Workers -> Nat]
  BY <1>1, <1>3 DEF GateInv
<1> QED
  BY <1>1, <1>2, <1>3, <1>4, <1>6, <1>7, <1>8 DEF GateInv

(* A turn in the loop of cob_wait. *)
LEMMA LoopStep ==
    ASSUME GateInv, NEW w \in Workers, cob_wait_loop(w)
    PROVE  GateInv'
<1>1. UNCHANGED <<required, arrived, phase, entered>> /\ current = w /\ my_phase[w] # NotWaiting
  BY DEF cob_wait_loop, gate
<1>2. w \in Participants /\ required \in Nat /\ phase \in Nat
  BY <1>1, BarrierAssumption DEF GateInv, OnlyParticipants, Workers
<1>3. Participants' = Participants /\ \A v \in Participants : v \in Workers
  BY <1>1, <1>2, BarrierAssumption DEF Participants, GateInv, Workers
<1>4. CASE phase = my_phase[w]
  <2>1. UNCHANGED <<my_phase, passed>> /\ Lib!Yield(w)
    BY <1>4 DEF cob_wait_loop
  <2>2. OnlyParticipants'
    BY <1>1, <2>1, YieldStep DEF GateInv
  <2>3. Waiting' = Waiting
    BY <1>1, <1>3, <2>1 DEF Waiting
  <2> QED
    BY <1>1, <1>3, <2>1, <2>2, <2>3 DEF GateInv, ArrivalsCounted
<1>5. CASE phase # my_phase[w]
  <2>1. /\ my_phase' = [my_phase EXCEPT ![w] = NotWaiting]
        /\ passed' = [passed EXCEPT ![w] = @ + 1]
        /\ UNCHANGED <<life, turns, current>>
    BY <1>5 DEF cob_wait_loop, lib
  <2>2. OnlyParticipants'
    BY <1>1, <1>3, <2>1 DEF GateInv, OnlyParticipants
  <2>3. Waiting' = Waiting
    BY <1>1, <1>2, <1>3, <1>5, <2>1 DEF Waiting, GateInv, NotWaiting
  <2>4. \A v \in Participants : Lap(phase', my_phase'[v], entered'[v], passed'[v])
    BY <1>1, <1>2, <1>3, <1>5, <2>1 DEF GateInv, Lap, NotWaiting
  <2>5. my_phase' \in [Workers -> Int] /\ passed' \in [Workers -> Nat]
    BY <2>1 DEF GateInv, NotWaiting
  <2> QED
    BY <1>1, <1>3, <2>2, <2>3, <2>4, <2>5 DEF GateInv, ArrivalsCounted
<1> QED
  BY <1>4, <1>5

(* Every step. *)
LEMMA GateStep == GateInv /\ [BarrierNext]_barrier_vars => GateInv'
<1> SUFFICES ASSUME GateInv, [BarrierNext]_barrier_vars PROVE GateInv'
  OBVIOUS
<1>1. ASSUME UNCHANGED <<gate, my_phase, entered, passed>>, OnlyParticipants' PROVE GateInv'
  <2>1. Waiting' = Waiting /\ Participants' = Participants
    BY <1>1 DEF gate, Waiting, Participants
  <2> QED
    BY <1>1, <2>1 DEF gate, GateInv, ArrivalsCounted
<1>2. CASE Lib!Turn /\ UNCHANGED barrier
  BY <1>1, <1>2, TurnStep DEF barrier, gate, GateInv
<1>3. ASSUME NEW w \in Workers, pause(w) PROVE GateInv'
  BY <1>1, <1>3, YieldStep DEF pause, gate, GateInv
<1>4. ASSUME NEW w \in Workers, worker_returns(w) PROVE GateInv'
  BY <1>1, <1>4, FinishStep DEF worker_returns, barrier, gate, GateInv
<1>5. CASE UNCHANGED barrier_vars
  <2>1. OnlyParticipants'
    BY <1>5 DEF barrier_vars, lib, barrier, gate, OnlyParticipants, Participants, GateInv
  <2> QED
    BY <1>1, <1>5, <2>1 DEF barrier_vars, barrier
<1> QED
  BY <1>2, <1>3, <1>4, <1>5, ReleaseStep, ArriveStep, LoopStep DEF BarrierNext

(* The counter of the barrier counts the coroutines that wait for the      *)
(* present phase.                                                          *)
THEOREM ArrivalsAreCounted == BarrierSpec => []ArrivalsCounted
<1>1. GateInv => ArrivalsCounted
  BY DEF GateInv
<1> QED
  BY <1>1, GateInit, GateStep, PTL DEF BarrierSpec

(* No cob_wait returns before all participants have made as many calls.    *)
THEOREM BarrierHolds == BarrierSpec => []NobodyPassesEarly
<1>1. ASSUME GateInv, NEW v \in Participants, NEW w \in Participants
      PROVE  passed[v] <= entered[w]
  <2>1. phase \in Nat /\ Lap(phase, my_phase[v], entered[v], passed[v])
        /\ Lap(phase, my_phase[w], entered[w], passed[w])
    BY <1>1 DEF GateInv
  <2> QED
    BY <2>1 DEF Lap
<1>2. GateInv => NobodyPassesEarly
  BY <1>1 DEF NobodyPassesEarly
<1> QED
  BY <1>2, GateInit, GateStep, PTL DEF BarrierSpec
=============================================================================
