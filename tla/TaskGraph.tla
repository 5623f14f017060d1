----------------------------- MODULE TaskGraph ------------------------------
(***************************************************************************)
(* examples/task_graph.c: a task of an acyclic graph is executed by a      *)
(* coroutine of its own, which the last of its dependencies to finish      *)
(* creates.                                                                *)
(***************************************************************************)
EXTENDS Client

CONSTANT MaxYields  \* bound on the yields of a work function

Tasks == 1 .. Limit

VARIABLES deps,            \* dep_ids of each task, which main registers once
          work,            \* how often each work function has still to yield
          deps_remaining,
          task_of,         \* the tasks of coroutines 1, 2, ...
          i,               \* how many tasks each task has looked at to notify
          finished         \* the tasks whose work is done

own == <<deps, work, deps_remaining, task_of, i, finished>>
vars == <<lib, own>>

(* What task_register and task_add_dep can build: a dependency is          *)
(* registered before the tasks that depend on it, as in main.              *)
DAGs == {g \in [Tasks -> SUBSET Tasks] : \A t \in Tasks : g[t] \subseteq 1 .. t - 1}

task_graph_finalize == deps_remaining = [t \in Tasks |-> Cardinality(deps[t])]

(* main, with the tasks that have no dependencies in the scheduler. *)
Init ==
    /\ deps \in DAGs
    /\ work \in [Tasks -> 0 .. MaxYields]
    /\ task_graph_finalize
    /\ task_of = SelectSeq(Upto(Limit), LAMBDA t : deps[t] = {})
    /\ Started(Upto(Len(task_of)))
    /\ i = [t \in Tasks |-> 0]
    /\ finished = {}

(* A turn of a work function that ends in one of its yields. *)
work_yields(c) ==
    LET t == task_of[c]
    IN  /\ work[t] > 0
        /\ work' = [work EXCEPT ![t] = @ - 1]
        /\ Lib!Yield(c)
        /\ UNCHANGED <<deps, deps_remaining, task_of, i, finished>>

(* The work function returns. *)
work_returns(c) ==
    LET t == task_of[c]
    IN  /\ current = c
        /\ work[t] = 0
        /\ t \notin finished
        /\ finished' = finished \cup {t}
        /\ UNCHANGED <<lib, deps, work, deps_remaining, task_of, i>>

(* Mutant: the last dependency is not waited for. *)
SatisfiedEarly(remaining) == remaining <= 1

Satisfied(remaining) == remaining = 0

(* One iteration of the loop that notifies the other tasks. *)
notify(c) ==
    LET t == task_of[c]
        other == i[t] + 1
        remaining == deps_remaining[other] - 1
    IN  /\ current = c
        /\ t \in finished
        /\ i[t] < Limit
        /\ i' = [i EXCEPT ![t] = other]
        /\ deps_remaining' = IF t \in deps[other]
                             THEN [deps_remaining EXCEPT ![other] = remaining]
                             ELSE deps_remaining
        /\ IF t \in deps[other] /\ Satisfied(remaining)
           THEN /\ Lib!Create(Len(task_of) + 1)
                /\ task_of' = Append(task_of, other)
           ELSE UNCHANGED <<lib, task_of>>
        /\ UNCHANGED <<deps, work, finished>>

returns(c) ==
    /\ task_of[c] \in finished
    /\ i[task_of[c]] = Limit
    /\ Lib!Finish(c)
    /\ UNCHANGED own

(* task_coroutine; c is current, so it has a task. *)
task_coroutine(c) == work_yields(c) \/ work_returns(c) \/ notify(c) \/ returns(c)

Next ==
    \/ Lib!Turn /\ UNCHANGED own
    \/ \E c \in DOMAIN task_of : task_coroutine(c)

(* The loop of co_run and the bodies never block: the program goes on. *)
Spec == Init /\ [][Next]_vars /\ WF_vars(Next)
-----------------------------------------------------------------------------
(* A task has a coroutine exactly when all its dependencies are finished   *)
(* and the last one has notified it, and never two; all tasks are executed *)
(* when co_run returns.                                                    *)
RunsAfterDeps ==
    /\ \A j, k \in DOMAIN task_of : task_of[j] = task_of[k] => j = k
    /\ \A k \in DOMAIN task_of : deps[task_of[k]] \subseteq finished
    /\ \A t \in Tasks : (\A d \in deps[t] : i[d] >= t) => \E k \in DOMAIN task_of : task_of[k] = t
    /\ Returned => finished = Tasks
=============================================================================
