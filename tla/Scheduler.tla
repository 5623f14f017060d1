----------------------------- MODULE Scheduler ------------------------------
(***************************************************************************)
(* The coroutine library as its callers drive it: coroutine records in     *)
(* heap blocks, the table of every coroutine created, the run queue, and   *)
(* which code the single thread executes.  Application code (main outside  *)
(* co_run, or the body of a coroutine) may make any call of the API at any *)
(* time; between two calls nothing of the library's state changes, so one  *)
(* call, up to the switch of context it ends with, is one step.            *)
(*                                                                         *)
(* The run queue is the list that module RunQueue shows its circular       *)
(* buffer to be.  A failed assertion stops the process.                    *)
(***************************************************************************)
EXTENDS Integers, Sequences, FiniteSets, Functions

CONSTANTS Blocks,          \* heap blocks that can hold a struct Coroutine
          NULL,            \* the null pointer
          Main,            \* the thread runs main's code, outside co_run
          Loop,            \* the thread runs the loop of co_run
          MAX_COROUTINES   \* the length of S.all

ASSUME SchedulerAssumption ==
    /\ IsFiniteSet(Blocks)
    /\ NULL \notin Blocks
    /\ Main \notin Blocks
    /\ Loop \notin Blocks
    /\ Main # Loop
    /\ MAX_COROUTINES \in Nat \ {0}

QUEUE_CAP == 2 * MAX_COROUTINES

VARIABLES owner,     \* who a heap block is allocated to
          state,     \* co->state
          awaiting,  \* co->awaiting
          id,        \* co->id
          all,       \* S.all[0 .. S.count - 1]
          queue,     \* the coroutines in the run queue, oldest first
          running,   \* S.running
          cpu,       \* whose code the thread executes: Main, Loop or a coroutine
          failed     \* the assertion that stopped the process, if any

vars == <<owner, state, awaiting, id, all, queue, running, cpu, failed>>

CoState == {"READY", "RUNNING", "WAITING", "DONE"}

NoFailure == "none"

(* The assertions that a caller who keeps to the API can never see fail. *)
InternalAssertions == {"run-queue overflow", "co->state == CO_READY"}

(* The assertions on what the caller passes and when. *)
CallerAssertions ==
    {"NULL argument", "too many coroutines", "co_free on non-finished coroutine",
     "co_yield called outside a coroutine", "co_await called outside a coroutine"}

TypeOK ==
    /\ owner \in [Blocks -> {"nobody", "coroutine", "application"}]
    /\ state \in [Blocks -> CoState]
    /\ awaiting \in [Blocks -> Blocks \cup {NULL}]
    /\ id \in [Blocks -> 0 .. MAX_COROUTINES]
    /\ all \in Seq(Blocks) /\ Len(all) <= MAX_COROUTINES
    /\ queue \in Seq(Blocks)
    /\ running \in Blocks \cup {NULL}
    /\ cpu \in Blocks \cup {Main, Loop}
    /\ failed \in {NoFailure} \cup InternalAssertions \cup CallerAssertions

(* S starts zeroed and main runs.  What a block that belongs to no coroutine *)
(* holds is never used: state and awaiting start at an arbitrary value.      *)
Init ==
    /\ owner = [b \in Blocks |-> "nobody"]
    /\ state = [b \in Blocks |-> "DONE"]
    /\ awaiting = [b \in Blocks |-> NULL]
    /\ id = [b \in Blocks |-> 0]
    /\ all = << >>
    /\ queue = << >>
    /\ running = NULL
    /\ cpu = Main
    /\ failed = NoFailure
-----------------------------------------------------------------------------
(* The coroutines whose handle is valid: created and not freed. *)
Live == {b \in Blocks : owner[b] = "coroutine"}

(* Application code has the thread, in main or in a coroutine. *)
InApplication == failed = NoFailure /\ cpu # Loop

AssertionFails(assertion) ==
    /\ failed' = assertion
    /\ UNCHANGED <<owner, state, awaiting, id, all, queue, running, cpu>>

(* Mutant: the coroutines are put at the head of the queue. *)
q_push_front(s) ==
    IF Len(queue) + Len(s) <= QUEUE_CAP
    THEN queue' = s \o queue /\ UNCHANGED failed
    ELSE failed' = "run-queue overflow" /\ UNCHANGED queue

(* q_push for every element of s in turn, with its assertion. *)
q_push(s) ==
    IF Len(queue) + Len(s) <= QUEUE_CAP
    THEN queue' = queue \o s /\ UNCHANGED failed
    ELSE failed' = "run-queue overflow" /\ UNCHANGED queue

(* Mutant: one coroutine more than S.all has room for. *)
HasRoomForOneMore == Len(all) <= MAX_COROUTINES

HasRoom == Len(all) < MAX_COROUTINES

(* Mutant: ids count the coroutines that exist, not the ones created. *)
NextLiveId == Cardinality(Live) + 1

NextId == Len(all) + 1

(* calloc and malloc succeed; the allocator may hand out a block that an     *)
(* earlier co_free released, although S.all still points to it.              *)
co_create(b) ==
    /\ InApplication
    /\ HasRoom
    /\ owner[b] = "nobody"
    /\ owner' = [owner EXCEPT ![b] = "coroutine"]
    /\ id' = [id EXCEPT ![b] = NextId]
    /\ state' = [state EXCEPT ![b] = "READY"]
    /\ awaiting' = [awaiting EXCEPT ![b] = NULL]
    /\ all' = Append(all, b)
    /\ q_push(<<b>>)
    /\ UNCHANGED <<running, cpu>>

(* calloc or malloc fails: what was allocated is released, NULL is returned. *)
co_create_no_memory ==
    /\ InApplication
    /\ HasRoom
    /\ UNCHANGED vars

co_create_too_many ==
    /\ InApplication
    /\ ~HasRoom
    /\ AssertionFails("too many coroutines")

(* Mutant: the state is not looked at. *)
FinishedAssumed(b) == TRUE

Finished(b) == state[b] = "DONE"

(* The record and its stack are released; S.all and S.count stay as they are. *)
co_free(b) ==
    /\ InApplication
    /\ b \in Live
    /\ Finished(b)
    /\ owner' = [owner EXCEPT ![b] = "nobody"]
    /\ UNCHANGED <<state, awaiting, id, all, queue, running, cpu, failed>>

co_free_unfinished(b) ==
    /\ InApplication
    /\ b \in Live
    /\ ~Finished(b)
    /\ AssertionFails("co_free on non-finished coroutine")

(* A handle, or the fn of co_create, is NULL. *)
null_argument ==
    /\ InApplication
    /\ AssertionFails("NULL argument")
-----------------------------------------------------------------------------
(* The caller goes back to the run queue; control returns to co_run's loop. *)
co_yield ==
    /\ InApplication
    /\ running # NULL
    /\ state' = [state EXCEPT ![running] = "READY"]
    /\ q_push(<<running>>)
    /\ cpu' = Loop
    /\ UNCHANGED <<owner, awaiting, id, all, running>>

co_yield_outside ==
    /\ InApplication
    /\ running = NULL
    /\ AssertionFails("co_yield called outside a coroutine")

(* Mutant: no other coroutine counts as finished. *)
IsDoneNever(other) == FALSE

(* The test of co_await's early return. *)
IsDone(other) == state[other] = "DONE"

co_await(other) ==
    /\ InApplication
    /\ other \in Live
    /\ ~IsDone(other)
    /\ running # NULL
    /\ state' = [state EXCEPT ![running] = "WAITING"]
    /\ awaiting' = [awaiting EXCEPT ![running] = other]
    /\ cpu' = Loop
    /\ UNCHANGED <<owner, id, all, queue, running, failed>>

(* Awaiting a finished coroutine returns at once, even in main. *)
co_await_finished(other) ==
    /\ InApplication
    /\ other \in Live
    /\ IsDone(other)
    /\ UNCHANGED vars

co_await_outside(other) ==
    /\ InApplication
    /\ other \in Live
    /\ ~IsDone(other)
    /\ running = NULL
    /\ AssertionFails("co_await called outside a coroutine")
-----------------------------------------------------------------------------
(* Mutant: the scan starts at the second entry. *)
WaitersFromSecond(done) ==
    {b \in Live : state[b] = "WAITING" /\ awaiting[b] = done /\ id[b] > 1}

(* The coroutines the scan of S.all finds waiting for done.  A stale entry   *)
(* of S.all, whose block nobody owns, is read as well and never matches: the *)
(* record was DONE with awaiting = NULL when it was freed, and the allocator *)
(* overwrites only the first words of a free block (id, state, fn).          *)
Waiters(done) == {b \in Live : state[b] = "WAITING" /\ awaiting[b] = done}

(* A stale entry whose block the application has since been given reads as   *)
(* whatever the application stored there, so it may match as well.           *)
StaleEntries == {b \in Range(all) : owner[b] = "application"}

(* The place of the first entry of S.all that points to b. *)
FirstEntry(b) ==
    CHOOSE i \in DOMAIN all :
        /\ all[i] = b
        /\ \A j \in DOMAIN all : all[j] = b => i <= j

(* The order in which the scan of S.all meets the members of W.  A second    *)
(* entry for the same block finds it READY and passes it over.               *)
ScanOrder(W) ==
    {s \in [1 .. Cardinality(W) -> W] :
        /\ Range(s) = W
        /\ \A i, j \in 1 .. Cardinality(W) :
               i < j => FirstEntry(s[i]) < FirstEntry(s[j])}

(* Mutant: the waiters are enqueued but stay WAITING. *)
wakeup_waiters_keeps_state(done, W) ==
    /\ state' = [state EXCEPT ![done] = "DONE"]
    /\ awaiting' = [b \in Blocks |-> IF b \in W THEN NULL ELSE awaiting[b]]
    /\ \E s \in ScanOrder(W) : q_push(s)

wakeup_waiters(done, W) ==
    /\ state' = [b \in Blocks |-> IF b = done THEN "DONE"
                                  ELSE IF b \in W THEN "READY" ELSE state[b]]
    /\ awaiting' = [b \in Blocks |-> IF b \in W THEN NULL ELSE awaiting[b]]
    /\ \E s \in ScanOrder(W) : q_push(s)

(* The body of co returned: it is DONE, its waiters are READY, and control   *)
(* goes back to co_run's loop.                                               *)
co_entry(co) ==
    /\ failed = NoFailure
    /\ cpu = co
    /\ \E stale \in SUBSET StaleEntries :
           wakeup_waiters(co, Waiters(co) \cup stale)
    /\ cpu' = Loop
    /\ UNCHANGED <<owner, id, all, running>>
-----------------------------------------------------------------------------
(* main calls co_run. *)
co_run ==
    /\ failed = NoFailure
    /\ cpu = Main
    /\ cpu' = Loop
    /\ UNCHANGED <<owner, state, awaiting, id, all, queue, running, failed>>

(* Mutant: S.running is left set when a coroutine switches back. *)
RunningKept == running

(* What the last statement of resume assigns to S.running. *)
RunningCleared == NULL

(* One turn of the loop: resume's last statement for the coroutine that came *)
(* back, if any (S.running = NULL), then q_pop and resume of the oldest.     *)
resume ==
    /\ failed = NoFailure
    /\ cpu = Loop
    /\ queue # << >>
    /\ queue' = Tail(queue)
    /\ IF state[Head(queue)] = "READY"
       THEN /\ state' = [state EXCEPT ![Head(queue)] = "RUNNING"]
            /\ running' = Head(queue)
            /\ cpu' = Head(queue)
            /\ UNCHANGED failed
       ELSE /\ failed' = "co->state == CO_READY"
            /\ running' = RunningCleared
            /\ UNCHANGED <<state, cpu>>
    /\ UNCHANGED <<owner, awaiting, id, all>>

(* q_pop finds the queue empty: co_run returns to main. *)
co_run_return ==
    /\ failed = NoFailure
    /\ cpu = Loop
    /\ queue = << >>
    /\ running' = RunningCleared
    /\ cpu' = Main
    /\ UNCHANGED <<owner, state, awaiting, id, all, queue, failed>>

Next ==
    \/ \E b \in Blocks : co_create(b)
    \/ co_create_no_memory
    \/ co_create_too_many
    \/ \E b \in Blocks : co_free(b)
    \/ \E b \in Blocks : co_free_unfinished(b)
    \/ null_argument
    \/ co_yield
    \/ co_yield_outside
    \/ \E other \in Blocks : co_await(other)
    \/ \E other \in Blocks : co_await_finished(other)
    \/ \E other \in Blocks : co_await_outside(other)
    \/ \E co \in Blocks : co_entry(co)
    \/ co_run
    \/ resume
    \/ co_run_return

Spec == Init /\ [][Next]_vars
-----------------------------------------------------------------------------
(* The run queue holds the READY coroutines, each once, and nothing else,   *)
(* although co_create, co_yield and the scan of wakeup_waiters push to it   *)
(* on behalf of different callers and S.all may point twice to one block.   *)
QueueIsReadySet ==
    /\ IsInjective(queue)
    /\ Range(queue) = {b \in Live : state[b] = "READY"}

(* While a coroutine's code has the thread, S.running is that coroutine and *)
(* no other is RUNNING, so co_id, co_yield and co_await act on their caller;*)
(* in main S.running is NULL and nothing is RUNNING.                        *)
RunningIsCaller ==
    /\ cpu \in Blocks => running = cpu
    /\ cpu = Main => running = NULL
    /\ {b \in Live : state[b] = "RUNNING"} = {cpu} \cap Blocks

(* No wakeup is lost: what a WAITING coroutine waits for is still allocated *)
(* and has not finished, whatever was created, freed and finished since the *)
(* test of co_await.                                                        *)
NoLostWakeup ==
    \A b \in Live : state[b] = "WAITING" =>
        /\ awaiting[b] \in Live
        /\ state[awaiting[b]] # "DONE"

(* Neither the overflow assertion of q_push nor the READY assertion of      *)
(* co_run can fail, whatever the callers do: every coroutine is queued at   *)
(* most once and S.count never exceeds half of QUEUE_CAP.                   *)
InternalAssertionsHold == failed \notin InternalAssertions

(* Only coroutines are ever allocated blocks in this module; StaleTable adds *)
(* an application that is given blocks as well.                              *)
NoForeignOwner == \A b \in Blocks : owner[b] # "application"

(* S.all finds a live coroutine under its id, also after blocks have been   *)
(* freed and reused: ids are distinct and run from 1 to S.count.            *)
IdsFindCoroutines ==
    \A b \in Live : id[b] \in 1 .. Len(all) /\ all[id[b]] = b

(* The coroutines b waits for, directly or through others. *)
AwaitChain(b) ==
    LET step[n \in 0 .. Cardinality(Blocks)] ==
            IF n = 0 THEN {awaiting[b]}
            ELSE step[n - 1] \cup {awaiting[c] : c \in step[n - 1] \cap Blocks}
    IN  step[Cardinality(Blocks)] \ {NULL}

(* co_run returns only when there is nothing left it could run: a coroutine *)
(* that is not DONE at that point waits, and its chain of awaits ends in a  *)
(* cycle.  So when the awaits of the application form no cycle, every       *)
(* coroutine is DONE when co_run returns.                                   *)
ReturnsWhenDoneOrCyclic ==
    cpu = Main /\ queue = << >> =>
        \A b \in Live : state[b] # "DONE" =>
            \E c \in AwaitChain(b) : c \in AwaitChain(c)

(* What coroutine.h:80 says of co_run: it runs until every registered       *)
(* coroutine is in CO_DONE.                                                 *)
AllDoneAfterRun ==
    [][cpu = Loop /\ cpu' = Main => \A b \in Live : state[b] = "DONE"]_vars

(* Coroutines take their turns in the order in which they became READY: no  *)
(* step lets one leave the queue while another stays ahead of it, changes   *)
(* the order of two, or puts a newcomer ahead of one that was there.        *)
FirstComeFirstServed ==
    [][/\ \A i, j \in DOMAIN queue :
              i < j /\ queue[i] \in Range(queue') => queue[j] \in Range(queue')
       /\ \A k, l \in DOMAIN queue' :
              k < l /\ queue'[l] \in Range(queue) =>
                  \E i, j \in DOMAIN queue :
                      i < j /\ queue[i] = queue'[k] /\ queue[j] = queue'[l]]_vars
=============================================================================
