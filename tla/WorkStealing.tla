---------------------------- MODULE WorkStealing ----------------------------
(***************************************************************************)
(* examples/work_stealing.c: a dispatcher pushes tasks into a bounded      *)
(* global queue; workers move them in batches to queues of their own.      *)
(***************************************************************************)
EXTENDS Client, Ring

CONSTANTS MaxTasks,   \* bound on TOTAL_TASKS
          MaxGlobal,  \* bound on GLOBAL_CAP
          MaxLocal,   \* bound on LOCAL_CAP
          MaxWorkers  \* bound on NUM_WORKERS

VARIABLES TOTAL_TASKS, GLOBAL_CAP, LOCAL_CAP, NUM_WORKERS,  \* of this run
          global_queue,
          pushed,           \* the dispatcher's i: task k is the k-th pushed
          local,            \* each worker's own tasks; the last is next
          finished,         \* the tasks each worker has executed
          tasks_completed

setting == <<TOTAL_TASKS, GLOBAL_CAP, LOCAL_CAP, NUM_WORKERS>>
own == <<setting, global_queue, pushed, local, finished, tasks_completed>>
vars == <<lib, own>>

Dispatcher == 1
Workers == 2 .. MaxWorkers + 1

Init ==
    /\ TOTAL_TASKS \in 0 .. MaxTasks
    /\ GLOBAL_CAP \in 1 .. MaxGlobal
    /\ LOCAL_CAP \in 1 .. MaxLocal
    /\ NUM_WORKERS \in 1 .. MaxWorkers
    /\ Started(Upto(1 + NUM_WORKERS))
    /\ global_queue = EmptyRing(GLOBAL_CAP)
    /\ pushed = 0
    /\ local = [w \in Workers |-> << >>]
    /\ finished = [w \in Workers |-> << >>]
    /\ tasks_completed = 0

tq_full == global_queue.size = GLOBAL_CAP

tq_push(t) == global_queue' = Put(global_queue, GLOBAL_CAP, t)

dispatcher_fn ==
    /\ Leave(Dispatcher, pushed = TOTAL_TASKS)
    /\ IF pushed < TOTAL_TASKS /\ ~tq_full
       THEN tq_push(pushed + 1) /\ pushed' = pushed + 1
       ELSE UNCHANGED <<global_queue, pushed>>
    /\ UNCHANGED <<setting, local, finished, tasks_completed>>

(* Mutant: the batch is copied and stays in the queue. *)
RestOf(n) == global_queue

(* The global queue after n pops. *)
tq_pop(n) ==
    [global_queue EXCEPT !.head = (@ + n) % GLOBAL_CAP, !.size = @ - n]

(* A worker with tasks of its own executes the last one. *)
Drain(w) ==
    /\ current = w
    /\ local[w] # << >>
    /\ finished' = [finished EXCEPT ![w] = Append(@, local[w][Len(local[w])])]
    /\ local' = [local EXCEPT ![w] = SubSeq(@, 1, Len(@) - 1)]
    /\ tasks_completed' = tasks_completed + 1
    /\ Lib!Yield(w)
    /\ UNCHANGED <<setting, global_queue, pushed>>

(* Without any, it takes up to LOCAL_CAP from the global queue. *)
Steal(w) ==
    LET n == IF global_queue.size < LOCAL_CAP THEN global_queue.size ELSE LOCAL_CAP
    IN  /\ current = w
        /\ local[w] = << >>
        /\ n > 0
        /\ local' = [local EXCEPT ![w] = SubSeq(Contents(global_queue, GLOBAL_CAP), 1, n)]
        /\ global_queue' = tq_pop(n)
        /\ Lib!Yield(w)
        /\ UNCHANGED <<setting, pushed, finished, tasks_completed>>

(* Mutant: a worker leaves when it finds nothing to do. *)
AllDoneAssumed == TRUE

(* Mutant: one completion too many is waited for. *)
AllDoneLate == tasks_completed > TOTAL_TASKS

AllDone == tasks_completed >= TOTAL_TASKS

(* If there is none either, it leaves when all tasks are completed. *)
Idle(w) ==
    /\ current = w
    /\ local[w] = << >>
    /\ global_queue.size = 0
    /\ Leave(w, AllDone)
    /\ UNCHANGED own

worker_fn(w) == Drain(w) \/ Steal(w) \/ Idle(w)

Next ==
    \/ Lib!Turn /\ UNCHANGED own
    \/ dispatcher_fn
    \/ \E w \in Workers : worker_fn(w)

(* The loop of co_run and the bodies never block: the program goes on. *)
Spec == Init /\ [][Next]_vars /\ WF_vars(Next)
-----------------------------------------------------------------------------
(* How often task t occurs in the sequence s. *)
Count(t, s) == Cardinality({k \in DOMAIN s : s[k] = t})

(* A task that was pushed is in the global queue, with one worker or       *)
(* finished, once; the counter is the number of finished ones, and no      *)
(* batch overflows the worker's array.                                     *)
EachTaskOnce ==
    /\ \A t \in 1 .. pushed :
           \E here \in {0} \cup Workers, done \in BOOLEAN :
               /\ Count(t, Contents(global_queue, GLOBAL_CAP)) = (IF here = 0 THEN 1 ELSE 0)
               /\ \A w \in Workers :
                      /\ Count(t, local[w]) = (IF here = w /\ ~done THEN 1 ELSE 0)
                      /\ Count(t, finished[w]) = (IF here = w /\ done THEN 1 ELSE 0)
    /\ tasks_completed = Cardinality({t \in 1 .. pushed :
                             \E w \in Workers : Count(t, finished[w]) = 1})
    /\ \A w \in Workers : Len(local[w]) <= LOCAL_CAP

(* No worker returns while a task is still to be pushed or executed, also  *)
(* when it finds the queue empty between two pushes.                       *)
NobodyLeavesEarly ==
    \A w \in Workers : life[w] = "DONE" => \A t \in 1 .. TOTAL_TASKS :
        \E v \in Workers : Count(t, finished[v]) = 1
=============================================================================
