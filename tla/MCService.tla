----------------------------- MODULE MCService ------------------------------
(***************************************************************************)
(* The two models that implement CoroutineService, in one specification: a *)
(* behaviour is one of Contexts or of SchedulerService, whose variables    *)
(* have a prefix here, and the other model stays at its initial state.     *)
(***************************************************************************)
EXTENDS Contexts

CONSTANTS Blocks, NoBlock, MainCode, LoopCode, MAX_COROUTINES

VARIABLES model,  \* the one that is executed
          s_owner, s_state, s_awaiting, s_id, s_all, s_queue, s_running, s_cpu, s_failed

Sched == INSTANCE SchedulerService
         WITH NULL <- NoBlock, Main <- MainCode, Loop <- LoopCode,
              owner <- s_owner, state <- s_state, awaiting <- s_awaiting, id <- s_id,
              all <- s_all, queue <- s_queue, running <- s_running, cpu <- s_cpu,
              failed <- s_failed

sched_vars == <<s_owner, s_state, s_awaiting, s_id, s_all, s_queue, s_running, s_cpu, s_failed>>

both == <<model, vars, sched_vars>>

BothInit == model \in {"contexts", "scheduler"} /\ Init /\ Sched!Init

BothNext ==
    /\ UNCHANGED model
    /\ \/ model = "contexts" /\ Next /\ UNCHANGED sched_vars
       \/ model = "scheduler" /\ Sched!Next /\ UNCHANGED vars

(* Fairness as in FairSpec; Contexts has none. *)
BothSpec ==
    /\ BothInit /\ [][BothNext]_both
    /\ WF_both(model = "scheduler" /\ Sched!resume /\ UNCHANGED <<model, vars>>)
    /\ WF_both(model = "scheduler" /\ Sched!GivesBack /\ UNCHANGED <<model, vars>>)
-----------------------------------------------------------------------------
(* Records in reusable memory, found through S.all, act as the coroutines  *)
(* of CoroutineService (ImplementsService of SchedulerService).            *)
SchedulerImplementsService == Sched!ImplementsService

(* In co_run every READY coroutine gets its turn as long as coroutines     *)
(* cooperate (EveryReadyRuns of SchedulerService).                         *)
EveryReadyRuns == Sched!EveryReadyRuns
=============================================================================
