------------------------------ MODULE AsyncIO -------------------------------
(***************************************************************************)
(* examples/async_io.c: workers submit a request to a table of slots and   *)
(* yield until their slot is free again; main's event loop resumes each of *)
(* them once per round and then advances a clock.  co_resume and co_status *)
(* are not offered by the library: a resumed worker runs until it yields   *)
(* to main or returns.                                                     *)
(***************************************************************************)
EXTENDS Integers, FiniteSets, FiniteSetsExt

CONSTANTS MAX_OPS, NUM_WORKERS,
          MaxLatency,  \* bound on the latency of a request
          MaxTick      \* bound on the clock

Slots == 1 .. MAX_OPS
Workers == 1 .. NUM_WORKERS

None == 0  \* no slot (the code's -1) and no worker

VARIABLES latency,      \* of each worker's request
          io_queue,     \* per slot: active, ticks_left, worker_id
          global_tick,
          state,        \* of each worker: "new", "waiting" or "dead"
          slot,         \* the slot each worker waits for
          start_tick,   \* when each worker submitted its request
          elapsed,      \* the ticks a worker reports on completion, or -1
          i,            \* the worker main resumes next
          active,       \* main's count in this round
          finished      \* main has left its loop

vars == <<latency, io_queue, global_tick, state, slot, start_tick, elapsed,
          i, active, finished>>

Init ==
    /\ latency \in [Workers -> 0 .. MaxLatency]
    /\ io_queue = [s \in Slots |-> [active |-> FALSE, ticks_left |-> 0, worker_id |-> None]]
    /\ global_tick = 0
    /\ state = [w \in Workers |-> "new"]
    /\ slot = [w \in Workers |-> None]
    /\ start_tick = [w \in Workers |-> 0]
    /\ elapsed = [w \in Workers |-> -1]
    /\ i = 1
    /\ active = 0
    /\ finished = FALSE

(* The slot that io_submit finds: the first one that is not active. *)
FreeSlot ==
    LET free == {s \in Slots : ~io_queue[s].active}
    IN  IF free = {} THEN None ELSE Min(free)

io_submit(w) ==
    /\ slot' = [slot EXCEPT ![w] = FreeSlot]
    /\ io_queue' = IF FreeSlot = None THEN io_queue
                   ELSE [io_queue EXCEPT ![FreeSlot] =
                           [active |-> TRUE, ticks_left |-> latency[w], worker_id |-> w]]

(* Mutant: the last tick is not waited for. *)
io_done_early(s) == io_queue[s].ticks_left <= 1

io_done(s) == ~io_queue[s].active

(* One turn of a worker. *)
io_worker(w) ==
    \/ /\ state[w] = "new"
       /\ io_submit(w)
       /\ state' = [state EXCEPT ![w] = IF FreeSlot = None THEN "dead" ELSE "waiting"]
       /\ start_tick' = [start_tick EXCEPT ![w] = global_tick]
       /\ UNCHANGED elapsed
    \/ /\ state[w] = "waiting"
       /\ IF io_done(slot[w])
          THEN /\ state' = [state EXCEPT ![w] = "dead"]
               /\ elapsed' = [elapsed EXCEPT ![w] = global_tick - start_tick[w]]
          ELSE UNCHANGED <<state, elapsed>>
       /\ UNCHANGED <<slot, start_tick, io_queue>>
    \/ /\ state[w] = "dead"
       /\ UNCHANGED <<state, elapsed, slot, start_tick, io_queue>>

(* main's inner loop. *)
Resume ==
    /\ ~finished
    /\ i <= NUM_WORKERS
    /\ io_worker(i)
    /\ active' = active + (IF state'[i] = "dead" THEN 0 ELSE 1)
    /\ i' = i + 1
    /\ UNCHANGED <<latency, global_tick, finished>>

(* An active request one tick later. *)
Advanced(r) == [r EXCEPT !.ticks_left = @ - 1, !.active = r.ticks_left - 1 > 0]

io_tick ==
    /\ io_queue' = [s \in Slots |-> IF io_queue[s].active
                                    THEN Advanced(io_queue[s]) ELSE io_queue[s]]
    /\ global_tick' = global_tick + 1

(* The end of a round. *)
Round ==
    /\ ~finished
    /\ i > NUM_WORKERS
    /\ global_tick < MaxTick
    /\ finished' = (active = 0)
    /\ IF active = 0 THEN UNCHANGED <<io_queue, global_tick>> ELSE io_tick
    /\ i' = 1
    /\ active' = 0
    /\ UNCHANGED <<latency, state, slot, start_tick, elapsed>>

Next == Resume \/ Round

(* The event loop and the workers do not block. *)
Spec == Init /\ [][Next]_vars /\ WF_vars(Next)
-----------------------------------------------------------------------------
(* The ticks a request can take: a latency of 0 is as long as one of 1. *)
Ticks(w) == IF latency[w] = 0 THEN 1 ELSE latency[w]

(* The requests overlap: each worker reports its own latency, whatever the *)
(* others wait for, and the total is the longest one ("total ticks: 3" in  *)
(* the header); when the table is full the later workers report nothing.   *)
Overlapped ==
    finished =>
        /\ \A w \in Workers : elapsed[w] = IF w <= MAX_OPS THEN Ticks(w) ELSE -1
        /\ global_tick = Max({Ticks(w) : w \in Workers \cap Slots})

(* The event loop has ended. *)
Ended == finished
=============================================================================
