----------------------------- MODULE Semaphore ------------------------------
(***************************************************************************)
(* examples/semaphore.c: a counting semaphore, a mutex made of it, and the *)
(* two demonstrations.  Its co_await takes a predicate, which the          *)
(* library's does not: a coroutine that waits is given its turn back when  *)
(* the predicate holds at that turn, and goes to the back of the queue     *)
(* otherwise.  coro_spawn is read as co_create.                            *)
(***************************************************************************)
EXTENDS Client

CONSTANT MaxSlots  \* bound on the initial count of the semaphore

ASSUME SemaphoreAssumption == Limit \in Nat /\ MaxSlots \in Nat

Coroutines == 1 .. Limit

VARIABLES demo,      \* "pool" (the workers) or "log" (the loggers)
          max,       \* the semaphore: its initial and its current count
          count,
          pc,        \* where each coroutine is
          before,    \* what each worker read from the counter
          g_shared_counter,
          g_log      \* the entries of the log

semaphore == <<demo, max, count, pc, before, g_shared_counter, g_log>>
semaphore_vars == <<lib, semaphore>>

sem_init(n) == max = n /\ count = n

mutex_init == sem_init(1)

(* main, up to the co_run of one of its demonstrations. *)
SemaphoreInit ==
    /\ demo \in {"pool", "log"}
    /\ IF demo = "pool" THEN \E n \in 1 .. MaxSlots : sem_init(n) ELSE mutex_init
    /\ \E n \in 1 .. Limit : Started(Upto(n))
    /\ pc = [c \in Coroutines |-> "start"]
    /\ before = [c \in Coroutines |-> 0]
    /\ g_shared_counter = 0
    /\ g_log = << >>

start(c) ==
    /\ pc[c] = "start"
    /\ pc' = [pc EXCEPT ![c] = "waiting"]
    /\ Lib!Yield(c)
    /\ UNCHANGED <<demo, max, count, before, g_shared_counter, g_log>>

(* Mutant: a count of zero is enough. *)
sem_ready_at_zero == count >= 0

sem_ready == count > 0

(* A turn in sem_wait: one that does not get the semaphore changes         *)
(* nothing, one that does goes on to the first yield behind it.            *)
sem_wait(c) ==
    /\ pc[c] = "waiting"
    /\ IF sem_ready
       THEN /\ count' = count - 1
            /\ pc' = [pc EXCEPT ![c] = IF demo = "pool" THEN "inside" ELSE "leaving"]
            /\ IF demo = "pool"
               THEN /\ before' = [before EXCEPT ![c] = g_shared_counter]
                    /\ UNCHANGED g_log
               ELSE /\ g_log' = Append(g_log, c)
                    /\ UNCHANGED before
       ELSE UNCHANGED <<count, pc, before, g_log>>
    /\ Lib!Yield(c)
    /\ UNCHANGED <<demo, max, g_shared_counter>>

(* A worker's write, a turn after its read. *)
increment(c) ==
    /\ pc[c] = "inside"
    /\ g_shared_counter' = before[c] + 1
    /\ pc' = [pc EXCEPT ![c] = "leaving"]
    /\ Lib!Yield(c)
    /\ UNCHANGED <<demo, max, count, before, g_log>>

(* Mutant: a count of zero is not incremented. *)
PostedLost == IF count > 0 /\ count < max THEN count + 1 ELSE count

Posted == IF count < max THEN count + 1 ELSE count

sem_post(c) ==
    /\ pc[c] = "leaving"
    /\ count' = Posted
    /\ pc' = [pc EXCEPT ![c] = "done"]
    /\ Lib!Finish(c)
    /\ UNCHANGED <<demo, max, before, g_shared_counter, g_log>>

SemaphoreNext ==
    \/ Lib!Turn /\ UNCHANGED semaphore
    \/ \E c \in Coroutines : start(c) \/ sem_wait(c) \/ increment(c) \/ sem_post(c)

(* The loop of co_run and the bodies never block: the program goes on. *)
SemaphoreSpec ==
    SemaphoreInit /\ [][SemaphoreNext]_semaphore_vars /\ WF_semaphore_vars(SemaphoreNext)
-----------------------------------------------------------------------------
(* The coroutines between sem_wait and sem_post. *)
Holders == {c \in Coroutines : pc[c] \in {"inside", "leaving"}}

(* Permits are neither lost nor invented: those held and those left are    *)
(* the initial ones, and the count is never negative; so the test against  *)
(* max in sem_post never withholds a permit.                               *)
PermitsConserved ==
    /\ count >= 0
    /\ count + Cardinality(Holders) = max

(* With one permit the read and the write of the counter, which have a     *)
(* turn of every other coroutine between them, are one step to the others: *)
(* no increment is lost.                                                   *)
CountsWithOnePermit ==
    demo = "pool" /\ max = 1 =>
        g_shared_counter = Cardinality({c \in Coroutines : pc[c] \in {"leaving", "done"}})

(* What main prints after co_run: "Final counter value: %d (expected %d)"  *)
(* with the number of workers as the expected value (semaphore.c:156).     *)
CounterAsExpected ==
    demo = "pool" /\ Returned =>
        g_shared_counter = Cardinality({c \in Coroutines : life[c] = "DONE"})
=============================================================================
