-------------------------- MODULE SchedulerService --------------------------
(***************************************************************************)
(* Scheduler keeps the promises of CoroutineService, although it reuses    *)
(* the memory of freed coroutines while S.all still points to it.  The     *)
(* i-th coroutine created is found through S.all[i - 1]; if the block is   *)
(* no longer that coroutine's, the coroutine has been freed and was DONE.  *)
(***************************************************************************)
EXTENDS Scheduler

(* The block of the i-th coroutine created is still its own. *)
Holds(i) ==
    /\ i \in DOMAIN all
    /\ owner[all[i]] = "coroutine"
    /\ id[all[i]] = i

Life ==
    [i \in 1 .. MAX_COROUTINES |->
        IF i \notin DOMAIN all THEN "unborn"
        ELSE IF Holds(i) THEN state[all[i]] ELSE "DONE"]

Target ==
    [i \in 1 .. MAX_COROUTINES |->
        IF Holds(i) /\ awaiting[all[i]] # NULL THEN id[awaiting[all[i]]] ELSE 0]

Turns == [k \in DOMAIN queue |-> id[queue[k]]]

Current == IF cpu \in Blocks THEN id[cpu] ELSE 0

Service == INSTANCE CoroutineService
           WITH Limit <- MAX_COROUTINES, life <- Life, target <- Target,
                turns <- Turns, current <- Current

(* Every step of the library is a step of CoroutineService on the coroutines*)
(* it stands for, or invisible there: DONE is final, no coroutine starts    *)
(* twice, turns are taken in order, an await ends exactly with the awaited  *)
(* coroutine, and co_free and the reuse of memory change none of it.        *)
ImplementsService == Service!Spec

(* The running coroutine gives the thread back by one of three calls. *)
GivesBack ==
    \/ co_yield
    \/ \E other \in Blocks : co_await(other)
    \/ \E co \in Blocks : co_entry(co)

(* co_run's loop never blocks; and coroutines cooperate: each one sooner or  *)
(* later yields, awaits or returns.  Nothing obliges main to call co_run.    *)
FairSpec == Spec /\ WF_vars(resume) /\ WF_vars(GivesBack)

(* No starvation: in co_run every READY coroutine gets its turn as long as  *)
(* coroutines cooperate, even if the others yield, create and wake more     *)
(* coroutines forever; unless a failed assertion stops the process.         *)
EveryReadyRuns ==
    \A b \in Blocks :
        (b \in Live /\ state[b] = "READY" /\ cpu # Main)
            ~> (cpu = b \/ failed # NoFailure)
=============================================================================
