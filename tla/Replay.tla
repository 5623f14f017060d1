------------------------------- MODULE Replay -------------------------------
(***************************************************************************)
(* The same program run twice.  Both runs make the same calls on the same  *)
(* coroutines, in the same order; they differ only in the addresses calloc *)
(* returns.  In the first run (variables ending in 1) no block is used     *)
(* twice, in the second a block may be given out again once its coroutine  *)
(* has been freed.                                                         *)
(***************************************************************************)
EXTENDS Integers, Sequences

CONSTANTS Blocks, NULL, Main, Loop, MAX_COROUTINES

VARIABLES owner1, state1, awaiting1, id1, all1, queue1, running1, cpu1, failed1,
          owner2, state2, awaiting2, id2, all2, queue2, running2, cpu2, failed2

vars1 == <<owner1, state1, awaiting1, id1, all1, queue1, running1, cpu1, failed1>>
vars2 == <<owner2, state2, awaiting2, id2, all2, queue2, running2, cpu2, failed2>>
vars == <<vars1, vars2>>

First == INSTANCE SchedulerService
         WITH owner <- owner1, state <- state1, awaiting <- awaiting1, id <- id1,
              all <- all1, queue <- queue1, running <- running1, cpu <- cpu1,
              failed <- failed1

Second == INSTANCE SchedulerService
          WITH owner <- owner2, state <- state2, awaiting <- awaiting2, id <- id2,
               all <- all2, queue <- queue2, running <- running2, cpu <- cpu2,
               failed <- failed2

Init == First!Init /\ Second!Init

(* What the application sees of the order of execution: who has the thread   *)
(* and who is next, by the order of creation.                                *)
SameTurns == First!Turns = Second!Turns /\ First!Current = Second!Current

(* The call names the same coroutine in both runs. *)
Same(b, c) == First!Holds(id1[b]) /\ all1[id1[b]] = b
              /\ Second!Holds(id1[b]) /\ all2[id1[b]] = c

create ==
    \E b, c \in Blocks :
        /\ b \notin {all1[i] : i \in DOMAIN all1}
        /\ First!co_create(b)
        /\ Second!co_create(c)

free == \E b, c \in Blocks : Same(b, c) /\ First!co_free(b) /\ Second!co_free(c)

yield == First!co_yield /\ Second!co_yield

await == \E b, c \in Blocks : Same(b, c) /\ First!co_await(b) /\ Second!co_await(c)

return ==
    /\ \E b \in Blocks : First!co_entry(b)
    /\ \E c \in Blocks : Second!co_entry(c)

run == First!co_run /\ Second!co_run

loop ==
    \/ First!resume /\ Second!resume
    \/ First!co_run_return /\ Second!co_run_return

(* The two runs stay in step as long as they cannot be told apart. *)
Next == SameTurns /\ (create \/ free \/ yield \/ await \/ return \/ run \/ loop)

Spec == Init /\ [][Next]_vars

(* docs/INTERNALS.md:99: with FIFO and cooperative yielding "the order of    *)
(* execution is a deterministic function of the order of `co_create` and     *)
(* `co_yield` calls".  Equal calls lead to equal turns.                      *)
OrderIsDeterministic == SameTurns
=============================================================================
