------------------------------ MODULE Barrier -------------------------------
(***************************************************************************)
(* examples/barrier.c: coroutines that meet at a reusable barrier.  A body *)
(* calls cob_wait several times and may yield in between, as the bodies of *)
(* tests/test_barrier.c do; worker calls it once.                          *)
(***************************************************************************)
EXTENDS Client

CONSTANTS MaxWorkers,  \* bound on N
          MaxRounds,   \* bound on the calls of cob_wait a body makes
          MaxPauses    \* bound on the yields of all bodies outside cob_wait

(* main creates no more workers than the library allows. *)
ASSUME BarrierAssumption ==
    /\ Limit \in Nat /\ MaxWorkers \in Nat /\ MaxRounds \in Nat
    /\ MaxWorkers <= Limit

VARIABLES required, arrived, phase,  \* the fields of gate
          my_phase,  \* the local of cob_wait, NotWaiting outside its loop
          rounds,    \* how often each body calls cob_wait
          pauses,    \* how often bodies may still yield outside cob_wait
          entered,   \* how often each worker has called cob_wait
          passed     \* how often it has returned from it

gate == <<required, arrived, phase>>
barrier == <<gate, my_phase, rounds, pauses, entered, passed>>
barrier_vars == <<lib, barrier>>

Workers == 1 .. MaxWorkers
NotWaiting == -1

cob_init(n) == required = n /\ arrived = 0 /\ phase = 0

(* main creates as many workers as the barrier is for. *)
BarrierInit ==
    /\ \E n \in Workers : cob_init(n) /\ Started(Upto(n))
    /\ my_phase = [w \in Workers |-> NotWaiting]
    /\ rounds \in 1 .. MaxRounds
    /\ pauses = MaxPauses
    /\ entered = [w \in Workers |-> 0]
    /\ passed = [w \in Workers |-> 0]

(* Mutant: the arrivals are not reset for the next round. *)
ReleaseKeepsArrivals == arrived' = arrived + 1 /\ phase' = phase + 1

(* The last arrival opens the barrier and does not wait. *)
Release == arrived' = 0 /\ phase' = phase + 1

(* Mutant: the barrier opens one arrival early. *)
IsLastEarly == arrived + 2 >= required

IsLast == arrived + 1 >= required

(* A worker that is not in the loop of cob_wait calls it, unless it has    *)
(* made all its calls and returns.                                         *)
cob_wait(w) ==
    /\ current = w
    /\ my_phase[w] = NotWaiting
    /\ entered[w] < rounds
    /\ entered' = [entered EXCEPT ![w] = @ + 1]
    /\ IF IsLast
       THEN /\ Release
            /\ passed' = [passed EXCEPT ![w] = @ + 1]
            /\ UNCHANGED <<my_phase, lib>>
       ELSE /\ arrived' = arrived + 1
            /\ my_phase' = [my_phase EXCEPT ![w] = phase]
            /\ Lib!Yield(w)
            /\ UNCHANGED <<phase, passed>>
    /\ UNCHANGED <<required, rounds, pauses>>

(* A worker in the loop is given its turn. *)
cob_wait_loop(w) ==
    /\ current = w
    /\ my_phase[w] # NotWaiting
    /\ IF phase = my_phase[w]
       THEN Lib!Yield(w) /\ UNCHANGED <<my_phase, passed>>
       ELSE /\ my_phase' = [my_phase EXCEPT ![w] = NotWaiting]
            /\ passed' = [passed EXCEPT ![w] = @ + 1]
            /\ UNCHANGED lib
    /\ UNCHANGED <<gate, rounds, pauses, entered>>

(* The body yields on its own account. *)
pause(w) ==
    /\ my_phase[w] = NotWaiting
    /\ pauses > 0
    /\ pauses' = pauses - 1
    /\ Lib!Yield(w)
    /\ UNCHANGED <<gate, my_phase, rounds, entered, passed>>

worker_returns(w) ==
    /\ my_phase[w] = NotWaiting
    /\ entered[w] = rounds
    /\ Lib!Finish(w)
    /\ UNCHANGED barrier

BarrierNext ==
    \/ Lib!Turn /\ UNCHANGED barrier
    \/ \E w \in Workers : cob_wait(w) \/ cob_wait_loop(w) \/ pause(w) \/ worker_returns(w)

(* The loop of co_run and the bodies never block: the program goes on. *)
BarrierSpec == BarrierInit /\ [][BarrierNext]_barrier_vars /\ WF_barrier_vars(BarrierNext)
-----------------------------------------------------------------------------
Participants == 1 .. required

(* Who waits for the present phase to end. *)
Waiting == {w \in Participants : my_phase[w] = phase}

(* The counter is the number of coroutines that wait for the present       *)
(* phase, also while those released from the phase before have not left.   *)
ArrivalsCounted ==
    /\ arrived = Cardinality(Waiting)
    /\ arrived < required

(* Nobody returns from its k-th cob_wait before all have called it k times,*)
(* although a fast worker may call it again while others are still inside. *)
NobodyPassesEarly ==
    \A v, w \in Participants : passed[v] <= entered[w]
=============================================================================
