----------------------------- MODULE MCPrograms -----------------------------
(***************************************************************************)
(* The other programs of examples/ in one specification: a behaviour is a  *)
(* run of one of them.  The variables of a program are mapped to m1, m2,   *)
(* ... in the order in which its module declares them; the last ones stay  *)
(* 0 where it has fewer.  The numbers are the bounds of each module.       *)
(***************************************************************************)
EXTENDS Client

VARIABLES program,  \* the one that is executed
          m1, m2, m3, m4, m5, m6, m7, m8, m9, m10

vars == <<program, lib, m1, m2, m3, m4, m5, m6, m7, m8, m9, m10>>

Generator == INSTANCE Generator WITH MaxCount <- 12,
    fib_count <- m1, ch <- m2, gen <- m3, printed <- m4, sum <- m5

Pipeline == INSTANCE Pipeline WITH MaxItems <- 10,
    order <- m1, n <- m2, src_to_xfm <- m3, xfm_to_snk <- m4, i <- m5,
    held <- m6, received <- m7, total <- m8

ProducerConsumer == INSTANCE ProducerConsumer WITH MaxBuf <- 3, MaxItems <- 3,
    BUF_SIZE <- m1, N_ITEMS <- m2, ring <- m3, pushed <- m4, total <- m5,
    popped <- m6

RingBufferDemo == INSTANCE RingBufferDemo WITH MaxCapacity <- 4, MaxCount <- 6,
    BUFFER_CAPACITY <- m1, ITEM_COUNT <- m2, rb <- m3, i <- m4, consumed <- m5

WorkStealing == INSTANCE WorkStealing WITH
    MaxTasks <- 6, MaxGlobal <- 3, MaxLocal <- 3, MaxWorkers <- 3,
    TOTAL_TASKS <- m1, GLOBAL_CAP <- m2, LOCAL_CAP <- m3, NUM_WORKERS <- m4,
    global_queue <- m5, pushed <- m6, local <- m7, finished <- m8,
    tasks_completed <- m9

Channel == INSTANCE Channel WITH MaxCap <- 3, MaxItems <- 6,
    CHAN_CAP <- m1, N_ITEMS <- m2, parks <- m3, chan <- m4, sender <- m5,
    receiver <- m6, closed <- m7, sent <- m8, got <- m9

TaskGraph == INSTANCE TaskGraph WITH MaxYields <- 2,
    deps <- m1, work <- m2, deps_remaining <- m3, task_of <- m4, i <- m5,
    finished <- m6

PingPong == INSTANCE PingPong WITH MaxLimit <- 12,
    st <- m1, looping <- m2, log <- m3

EchoServer == INSTANCE EchoServer WITH MaxMessages <- 3,
    MAX_MESSAGES <- m1, order <- m2, seq <- m3, reading <- m4, echoed <- m5

TimerCoroutine == INSTANCE TimerCoroutine WITH Limit <- 3, MaxTicks <- 2, MaxElapsed <- 7,
    ticks <- m1, period <- m2, remaining <- m3, elapsed <- m4, fired <- m5

FiberPool == INSTANCE FiberPool WITH QUEUE_CAP <- 9, MaxFibers <- 4,
    num_fibers <- m1, num_tasks <- m2, queue <- m3, handled <- m4, i <- m5,
    idle_rounds <- m6, finished <- m7

AsyncIO == INSTANCE AsyncIO WITH MAX_OPS <- 3, NUM_WORKERS <- 4, MaxLatency <- 3, MaxTick <- 5,
    latency <- m1, io_queue <- m2, global_tick <- m3, state <- m4, slot <- m5,
    start_tick <- m6, elapsed <- m7, i <- m8, active <- m9, finished <- m10

StateMachine == INSTANCE StateMachine WITH
    script <- m1, g_queue <- m2, chain <- m3, pc <- m4, g_bytes_transferred <- m5

RecursiveFib == INSTANCE RecursiveFib WITH MAX_COROUTINES <- 512, MaxN <- 9,
    limit <- m1, gen <- m2, done <- m3, printed <- m4, calls <- m5, stack <- m6,
    results <- m7, created <- m8, aborted <- m9

(* The variables after the k-th, which a program with k of them does not   *)
(* use: how a behaviour starts, and that a step leaves them alone.         *)
Unused(k) ==
    /\ IF k < 4 THEN m4 = 0 ELSE TRUE
    /\ IF k < 5 THEN m5 = 0 ELSE TRUE
    /\ IF k < 6 THEN m6 = 0 ELSE TRUE
    /\ IF k < 7 THEN m7 = 0 ELSE TRUE
    /\ IF k < 8 THEN m8 = 0 ELSE TRUE
    /\ IF k < 9 THEN m9 = 0 ELSE TRUE
    /\ IF k < 10 THEN m10 = 0 ELSE TRUE

Kept(k) ==
    /\ IF k < 4 THEN UNCHANGED m4 ELSE TRUE
    /\ IF k < 5 THEN UNCHANGED m5 ELSE TRUE
    /\ IF k < 6 THEN UNCHANGED m6 ELSE TRUE
    /\ IF k < 7 THEN UNCHANGED m7 ELSE TRUE
    /\ IF k < 8 THEN UNCHANGED m8 ELSE TRUE
    /\ IF k < 9 THEN UNCHANGED m9 ELSE TRUE
    /\ IF k < 10 THEN UNCHANGED m10 ELSE TRUE

Init ==
    \/ program = "generator" /\ Generator!Init /\ Unused(5)
    \/ program = "pipeline" /\ Pipeline!Init /\ Unused(8)
    \/ program = "producer_consumer" /\ ProducerConsumer!Init /\ Unused(6)
    \/ program = "ring_buffer_demo" /\ RingBufferDemo!Init /\ Unused(5)
    \/ program = "work_stealing" /\ WorkStealing!Init /\ Unused(9)
    \/ program = "channel" /\ Channel!Init /\ Unused(9)
    \/ program = "task_graph" /\ TaskGraph!Init /\ Unused(6)
    \/ program = "ping_pong" /\ PingPong!Init /\ Unused(3)
    \/ program = "echo_server" /\ EchoServer!Init /\ Unused(5)
    \/ program = "timer_coroutine" /\ TimerCoroutine!Init /\ Unused(5)
    \/ program = "fiber_pool" /\ FiberPool!Init /\ Unused(7) /\ Started(<< >>)
    \/ program = "async_io" /\ AsyncIO!Init /\ Started(<< >>)
    \/ program = "state_machine" /\ StateMachine!Init /\ Unused(5) /\ Started(<< >>)
    \/ program = "recursive_fib" /\ RecursiveFib!Init /\ Unused(9) /\ Started(<< >>)

Next ==
    /\ UNCHANGED program
    /\ \/ program = "generator" /\ Generator!Next /\ Kept(5)
       \/ program = "pipeline" /\ Pipeline!Next /\ Kept(8)
       \/ program = "producer_consumer" /\ ProducerConsumer!Next /\ Kept(6)
       \/ program = "ring_buffer_demo" /\ RingBufferDemo!Next /\ Kept(5)
       \/ program = "work_stealing" /\ WorkStealing!Next /\ Kept(9)
       \/ program = "channel" /\ Channel!Next /\ Kept(9)
       \/ program = "task_graph" /\ TaskGraph!Next /\ Kept(6)
       \/ program = "ping_pong" /\ PingPong!Next /\ Kept(3)
       \/ program = "echo_server" /\ EchoServer!Next /\ Kept(5)
       \/ program = "timer_coroutine" /\ TimerCoroutine!Next /\ Kept(5)
       \/ program = "fiber_pool" /\ FiberPool!Next /\ Kept(7) /\ UNCHANGED lib
       \/ program = "async_io" /\ AsyncIO!Next /\ UNCHANGED lib
       \/ program = "state_machine" /\ StateMachine!Next /\ Kept(5) /\ UNCHANGED lib
       \/ program = "recursive_fib" /\ RecursiveFib!Next /\ Kept(9) /\ UNCHANGED lib

(* No program ever blocks outside its coroutines, so it goes on. *)
Spec == Init /\ [][Next]_vars /\ WF_vars(Next)
-----------------------------------------------------------------------------
(* generator.c and recursive_fib.c: the numbers printed are the Fibonacci  *)
(* numbers, none twice and none left out; a call of the recursion that is  *)
(* answered gives its number and creates no coroutine for nothing.         *)
FibonacciNumbers ==
    /\ program = "generator" =>
           Generator!PrintsTheSequence
    /\ program = "recursive_fib" =>
           RecursiveFib!ResultsCorrect /\ RecursiveFib!CreatedOnce

(* pipeline.c, producer_consumer.c and ring_buffer_demo.c, in every order  *)
(* of creation: what has come out and what is under way is what was put    *)
(* in, each item once and in the order of its producer, across every wrap  *)
(* of the buffers; at the end all has come out. pipeline.c in main's       *)
(* order: one item at a time.                                              *)
StreamsLoseNothing ==
    /\ program = "pipeline" =>
           Pipeline!NothingLost /\ Pipeline!OneAtATime /\ Pipeline!SumIsComplete
    /\ program = "producer_consumer" =>
           ProducerConsumer!NothingLost /\ ProducerConsumer!TakenInOrder
    /\ program = "ring_buffer_demo" =>
           RingBufferDemo!InOrder

(* work_stealing.c and fiber_pool.c: a task is queued, with one worker or  *)
(* finished, once, and the counters agree; when main of fiber_pool.c       *)
(* leaves its loop all tasks are processed, in even shares.                *)
EachTaskOnce ==
    /\ program = "work_stealing" =>
           WorkStealing!EachTaskOnce
    /\ program = "fiber_pool" =>
           FiberPool!AllProcessed

(* work_stealing.c: no worker returns while a task is still to be pushed   *)
(* or executed.                                                            *)
NobodyLeavesEarly == program = "work_stealing" => WorkStealing!NobodyLeavesEarly

(* channel.c: what was received, followed by what is buffered, is what was *)
(* sent, also across chan_close.                                           *)
ChannelInOrder == program = "channel" => Channel!InOrder

(* channel.c: a parked end is registered and has to wait, and whoever is   *)
(* registered is in its waiting loop, so that no end is parked for good.   *)
ChannelLosesNoWakeup == program = "channel" => Channel!NoLostWakeup

(* task_graph.c: a task gets its one coroutine from the last of its        *)
(* dependencies, when all of them are finished; all tasks are executed     *)
(* when co_run returns.                                                    *)
RunsAfterDeps == program = "task_graph" => TaskGraph!RunsAfterDeps

(* ping_pong.c: the counter stops at the limit whoever increments it last. *)
StopsAtLimit == program = "ping_pong" => PingPong!StopsAtLimit

(* echo_server.c: no connection is more than one turn ahead of another,    *)
(* and each has had all its own messages echoed, in order, when it is      *)
(* closed.                                                                 *)
ConnectionsInStep == program = "echo_server" => EchoServer!InStep /\ EchoServer!AllEchoed

(* timer_coroutine.c: timers fire after their ticks and then every period, *)
(* and those that go on stay within a turn of each other.                  *)
TimersOnSchedule == program = "timer_coroutine" => TimerCoroutine!OnSchedule

(* async_io.c: each worker reports its own latency, and the total is the   *)
(* longest one.                                                            *)
RequestsOverlap == program = "async_io" => AsyncIO!Overlapped

(* The programs that the library executes end when co_run returns (what    *)
(* they have then achieved is among the invariants above); the others say  *)
(* themselves when they have ended.                                        *)
Over ==
    CASE program = "timer_coroutine" -> TimerCoroutine!OneShotsFinished
      [] program = "fiber_pool"      -> FiberPool!Ended
      [] program = "async_io"        -> AsyncIO!Ended
      [] program = "state_machine"   -> StateMachine!Ended
      [] program = "recursive_fib"   -> RecursiveFib!Ended
      [] OTHER                       -> Returned

(* Every program ends, whatever its coroutines wait for from one another:  *)
(* a slot, an item, a sentinel, the counter of the completed tasks.  Of    *)
(* timer_coroutine.c, whose periodic timers never return, the one-shot     *)
(* timers do: they are not starved.                                        *)
ProgramsEnd == <>Over
=============================================================================
