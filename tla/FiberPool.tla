----------------------------- MODULE FiberPool ------------------------------
(***************************************************************************)
(* examples/fiber_pool.c: main fills a queue and resumes the fibers of a   *)
(* pool in turn until a whole round was idle.  coroutine_resume, which the *)
(* library does not offer, runs a fiber until it yields to its caller.     *)
(***************************************************************************)
EXTENDS Ring, FiniteSets

CONSTANTS QUEUE_CAP,
          MaxFibers  \* bound on num_fibers, 32 in the code

VARIABLES num_fibers, num_tasks,  \* the arguments of the program
          queue,
          handled,      \* the tasks each fiber has processed
          i,            \* the fiber that main resumes next
          idle_rounds,
          finished      \* main has left its loop

vars == <<num_fibers, num_tasks, queue, handled, i, idle_rounds, finished>>

Fibers == 1 .. MaxFibers

(* main up to its loop: the tasks 1 to num_tasks are in the queue. *)
Init ==
    /\ num_fibers \in 1 .. MaxFibers
    /\ num_tasks \in 1 .. QUEUE_CAP
    /\ queue = [buf |-> [k \in 0 .. QUEUE_CAP - 1 |-> IF k < num_tasks THEN k + 1 ELSE 0],
                head |-> 0, tail |-> num_tasks % QUEUE_CAP, size |-> num_tasks]
    /\ handled = [f \in Fibers |-> << >>]
    /\ i = 1
    /\ idle_rounds = 0
    /\ finished = FALSE

(* Mutant: the index of the next task stays. *)
queue_pop_keeps_head == queue' = [queue EXCEPT !.size = @ - 1]

queue_pop == queue' = Drop(queue, QUEUE_CAP)

(* One turn of a fiber, up to its co_yield. *)
worker_fn(f) ==
    IF queue.size = 0
    THEN UNCHANGED <<queue, handled>>
    ELSE /\ handled' = [handled EXCEPT ![f] = Append(@, Oldest(queue))]
         /\ queue_pop

Idle(f) == handled'[f] = handled[f] /\ queue'.size = 0

(* One iteration of main's inner loop, and the test of the outer one after *)
(* the last fiber of a round.                                              *)
main ==
    LET idle == idle_rounds + (IF Idle(i) THEN 1 ELSE 0)
    IN  /\ ~finished
        /\ worker_fn(i)
        /\ i' = (i % num_fibers) + 1
        /\ finished' = (i = num_fibers /\ idle >= num_fibers)
        /\ idle_rounds' = IF i = num_fibers /\ idle < num_fibers THEN 0 ELSE idle
        /\ UNCHANGED <<num_fibers, num_tasks>>

Next == main

(* main's loop does not block. *)
Spec == Init /\ [][Next]_vars /\ WF_vars(Next)
-----------------------------------------------------------------------------
(* When main leaves its loop every task has been processed by one fiber,   *)
(* so that main's exit code is 0; and the fibers' shares differ by at most *)
(* one, the first ones having the larger share.                            *)
AllProcessed ==
    finished =>
        /\ \A t \in 1 .. num_tasks :
               Cardinality({p \in Fibers \X (1 .. num_tasks) :
                   p[2] <= Len(handled[p[1]]) /\ handled[p[1]][p[2]] = t}) = 1
        /\ \A f \in 1 .. num_fibers :
               Len(handled[f]) = (num_tasks + num_fibers - f) \div num_fibers

(* main has left its loop. *)
Ended == finished
=============================================================================
