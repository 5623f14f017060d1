# A TLA+ specification of c-coroutine

c-coroutine is a stackful coroutine library in C with a cooperative,
single-threaded, first-in first-out scheduler. This directory holds TLA+ modules
that model it, TLC configurations that check them on small instances, and proofs
that TLAPS checks for every instance. Line numbers are those of
`src/coroutine.c` unless another file is named.

## The system

| Part | Where | What it does |
| --- | --- | --- |
| run queue | 88-121 | a circular buffer of `QUEUE_CAP = 2 * MAX_COROUTINES` pointers |
| life cycle | 67-85, 164-217 | `co_create` allocates a record and a stack, enters the record in `S.all` and enqueues it; `co_free` releases both once the coroutine is `CO_DONE` and leaves `S.all` alone |
| turns | 220-251 | `co_run` pops and resumes until the queue is empty; `co_yield` puts its caller at the end of the queue |
| awaits | 124-133, 253-266 | `co_await` parks its caller; `wakeup_waiters`, run when a coroutine ends, scans `S.all` for those parked on it |
| entry | 137-159 | runs the body, marks the coroutine done, wakes its waiters, switches to the scheduler for good |
| context switch | `src/asm_ctx.S`, 186-205 | saves and restores the callee-saved registers; builds the first frame of a coroutine. `ucontext` serves other architectures |
| programs | `examples/` | generators, channels, barriers, timers and pools built from yield and await |
| tests, measurements | `tests/`, `benchmarks/` | callers of the above |

There is one thread. Application code runs in `main` or in a coroutine, calls the
library, and the library changes state only inside such a call or in the loop of
`co_run`. All concurrency is the interleaving that `co_yield`, `co_await` and the
end of a body allow.

## The modules

| Module | Models |
| --- | --- |
| `Fifo` | a bounded first-in first-out list: what the run queue promises |
| `RunQueue` | `q_push` and `q_pop` on the buffer, with their three indices |
| `RunQueueProofs` | proofs that the indices agree and that `RunQueue` implements `Fifo` |
| `Scheduler` | the API and the scheduler loop over records in reusable heap blocks |
| `CoroutineService` | what the library promises, by creation number, without memory |
| `SchedulerService` | the refinement mapping from `Scheduler` to it; fairness; liveness |
| `SchedulerProofs` | the inductive invariant of `Scheduler` and the theorems |
| `StaleTable` | `Scheduler` in a process that allocates memory of its own |
| `Replay` | the same calls made twice, with two allocators |
| `Contexts` | the scheduler over saved stack pointers, return addresses and registers |
| `ContextsSwitchProofs`, `ContextsProofs` | the inductive invariant of `Contexts`; the theorems and the refinement |
| `FirstFrame`, `FirstFrameProofs` | the bytes of a new stack, from `co_create` to `co_entry` |
| `Client` | `CoroutineService` as `main` and the bodies of a program use it |
| `Ring` | the circular buffer that several examples carry |
| `Barrier`, `Semaphore`, `TimerWheel`, each with its `...Proofs` | the examples of these names |
| `Generator`, `Pipeline`, `ProducerConsumer`, `RingBufferDemo`, `WorkStealing`, `Channel`, `TaskGraph`, `PingPong`, `EchoServer`, `TimerCoroutine` | the examples of these names, over `Client` |
| `FiberPool`, `AsyncIO`, `StateMachine`, `RecursiveFib` | the examples that schedule their coroutines themselves |
| `MCService` | `Contexts` and `SchedulerService` in one specification |
| `MCPrimitives` | `RunQueue`, `FirstFrame`, `Barrier`, `Semaphore`, `TimerWheel` in one specification |
| `MCPrograms` | the other examples in one specification |
| `MCExpectedOutputs` | four examples with the parameters of their `main`, one after the other |
| `MCScheduler`, `MCReplay` | symmetry sets for these modules |

Operators named `..._unchecked`, `..._front` and the like, each commented as a
mutant, are plausible bugs. They are not used by the specifications: each shows
that some property would notice the bug.

### RunQueue

`queue`, `q_head`, `q_tail`, `q_size` are the fields of `S`. `ret` is what the
latest `q_pop` returned and `aborted` says that the assertion of `q_push` failed.
The refinement mapping reads `q_size` slots from `q_head` on. The queue does not look at
what it holds, so its entries are `Items`.

### Scheduler

| Variable | Code |
| --- | --- |
| `owner` | which heap blocks are allocated, and to whom |
| `state`, `awaiting`, `id` | the fields of `struct Coroutine`, by block |
| `all` | `S.all[0 .. S.count - 1]`; the length is `S.count` |
| `queue` | the run queue, as the list `RunQueue` shows it to be |
| `running` | `S.running` |
| `cpu` | whose code executes: `Main`, `Loop` (the body of `co_run`) or a coroutine |
| `failed` | the assertion that stopped the process, if any |

One call of the API, up to the switch of context it ends with, is one step. This
is exact: there is no preemption, and between two calls application code does not
touch the library's state. `resume` takes the step from the loop to a coroutine and
includes the assignment `S.running = NULL` (230) of the turn before. Each assertion
is a step of its own that sets `failed`, after which nothing happens. The
assertions that could fail only through a fault of the library (overflow, popping a
coroutine that is not `READY`) are outcomes inside `q_push` and `resume`, so that
a property can say they never occur.

A block is an address: `co_create` takes any block that nobody owns, also one that
`S.all` still points to because an earlier coroutine was freed there. The scan of
`wakeup_waiters` is the sequence of waiters ordered by their first entry in `S.all`
(a second entry for the same block finds it `READY`). A freed block that nobody
has been given since is read by the scan and never matches, because its
`awaiting` was `NULL`.

What application code may do is not restricted, except that handles are valid:
created and not freed. `co_run` is called by `main` only; see `Contexts`.

### CoroutineService

Coroutine `i` is the `i`-th one created; its life goes from unborn over `READY`,
`RUNNING` and `WAITING` to `DONE` and never back. There are no blocks, no table and
no `co_free`. `SchedulerService` finds coroutine `i` through `S.all[i - 1]`; if that
block is no longer its own, it was freed and therefore done.

### Contexts

Here nothing but stored data says where execution goes on. `mem` holds the words of
every stack, `rsp` the stack in use and how many of its words are live, `ctx` the saved
contexts (`S.main_ctx` under `Main`), `regs` the callee-saved registers. `co_ctx_switch`
pushes its return address, saves, loads, and pops an address from the stack it has
switched to; `Lands` says what code that address belongs to. `co_create` writes the two
words of the first frame. Words above the top of a stack keep their contents, so a
context that is used after its frames were left reads what is there. `kept` records, for
the property about registers only, what they held when a stack was left.

A stack needs at most three words (`Depth`): the frame of `co_entry`, one for a call of
`co_run` in the body, one for the `resume` it makes. Coroutines are their creation
numbers, blocks are not reused and error returns are left out: `Scheduler` covers them.
`Spec` lets only `main` call `co_run`; `NestedSpec` lets coroutines do so too.

### Replay

Two instances of `Scheduler` take the same call in each step, on coroutines with the same
creation number. The first never uses a block twice, the second may.

### FirstFrame

`Contexts` counts words; `FirstFrame` counts bytes. `Top` is the end of the stack rounded
down to 16 (186-188), the two words of the frame lie below it, and `rsp` is followed
through the `ret` of the first switch and the `pop` of `co_trampoline` to the entry of
`co_entry`. That `malloc` aligns to 16 is assumed. That the stack has at least 16 bytes is
assumed too: nothing in `co_create` asks for it.

### The examples

`Client` gives a program the turns of `CoroutineService`, which `Scheduler` and `Contexts`
are shown to implement. `main` has created its coroutines (`Started`); `Lib!Turn` gives the
thread to the next one; the body then takes one step, from there to its next `co_yield` or
its end (`Leave`, `Lib!Yield`, `Lib!Finish`). A body that calls several operations in one
turn takes one step for each and keeps the thread in between. A module has one variable for
each variable of the program that lives across a turn, and an action per body or operation.

Parameters that the sources fix with `#define` or in `main` (numbers of items, capacities,
periods, graphs, latencies) are chosen in `Init`, as are the orders in which coroutines are
created where the properties do not depend on `main`'s. So are the bodies in `Barrier`,
which call `cob_wait` several times and yield between the calls as those of
`tests/test_barrier.c` do, and the events in `StateMachine`.

Several examples call functions the library does not have. They are modelled from how the
examples use them, and marked external where they are definitions of their own:

* `co_spawn`, `coro_spawn`, `scheduler_run`, `co_run_all`, `co_destroy`: the functions of the
  library that they must stand for;
* `co_resume`, `coroutine_resume` (`FiberPool`, `AsyncIO`, `StateMachine`, `RecursiveFib`): runs
  a coroutine until it yields to its caller or returns; one that has returned is not run;
* a `co_await` with a predicate (`Semaphore`): a waiting coroutine has its turn again when the
  predicate holds at that turn;
* `co_self`, `co_wake` (`Channel`): both readings of `co_yield` are modelled, one in which a
  waiting end is parked until it is woken and one in which it polls.

### TimerWheel

`g_wheel`, `g_current_tick` and the fields `active` and `remaining_laps` (`laps`) are those of
`timer_wheel.c`; a slot is a set, because the order of its list only says which of several
callbacks of one tick comes first. `wheel_tick` is the whole function: the timers of the slot
that have laps left lose one, and for each of the others `co_create` is called. It may start
the callback, which then runs to its end inside the tick; it may find no memory, and then the
timer goes back to the pool without its callback (110-117); or its assertion on the number of
coroutines (`coroutine.c:166`) stops the process in the middle of the slot (`halted`). `ran`,
`refused`, `added` and `delay` are not in the code. They record, for the properties, at which
tick a callback really ran, which one was refused, and what `add_timer` was asked for.

### Several models in one specification

`MCService`, `MCPrimitives` and `MCPrograms` each put several models into one specification. A
variable chosen in the initial state says which one a behaviour executes; the others stay where
they are. `MCPrimitives` extends its five modules, and `MCService` extends `Contexts`, so that the
properties TLC checks are the definitions the theorems are about. `MCPrograms` instantiates its
modules with their variables mapped to `m1`, `m2`, ...; a property of a program is asked of its
own behaviours only.

## What TLC checks

| Run | Module, configuration | Properties | Result |
| --- | --- | --- | --- |
| `scheduler` | `MCScheduler` | `TypeOK`, `QueueIsReadySet`, `RunningIsCaller`, `NoLostWakeup`, `InternalAssertionsHold`, `IdsFindCoroutines`, `ReturnsWhenDoneOrCyclic`, `FirstComeFirstServed` | hold |
| `service` | `MCService` | `TypeOK`, `ReturnContextIsLive`, `RegistersPreserved`, `ImplementsService`, `SchedulerImplementsService`, `EveryReadyRuns` | hold |
| `primitives` | `MCPrimitives` | `QueueTypeOK`, `IndicesAgree`, `ImplementsFifo`, `FrameInStack`, `ArrivalsCounted`, `NobodyPassesEarly`, `PermitsConserved`, `CountsWithOnePermit`, `NoneOverdue`, `FiresWhenDue`, `Ends` | hold |
| `programs` | `MCPrograms` | 11 invariants and `ProgramsEnd`, listed below | hold |
| `co_run_leaves_waiters` | `MCScheduler`, `MCSchedulerAllDone.cfg` | `AllDoneAfterRun` | violated |
| `freed_records_are_read` | `StaleTable` | `OnlyCoroutinesQueued` | violated |
| `co_run_in_a_coroutine` | `Contexts`, `ContextsNested.cfg` | `OutsideMeansMain` | violated |
| `order_depends_on_memory` | `MCReplay` | `OrderIsDeterministic` | violated |
| `first_frame_abi` | `FirstFrame`, `FirstFrameABI.cfg` | `SystemVEntry` | violated |
| `semaphore_counter` | `Semaphore`, `SemaphoreCounter.cfg` | `CounterAsExpected` | violated |
| `timer_wheel_delay` | `TimerWheel`, `TimerWheelDelay.cfg` | `AfterDelay` | violated |
| `expected_outputs` | `MCExpectedOutputs` | `SomeOutputAsExpected` | violated |

**scheduler.** Four blocks and five creations: one creation more than blocks, so
that a block is reused while the coroutines in the three others yield, await each
other and finish; three can wait for the fourth, and the table can be exhausted.
Blocks are interchangeable, so symmetry is used (no liveness is checked here).
Deadlock checking is off because a failed assertion stops the process.

* `QueueIsReadySet`: the queue holds the `READY` coroutines, each once.
* `RunningIsCaller`: `S.running` is the caller of the library.
* `NoLostWakeup`: nobody waits for a coroutine that has finished or been freed.
* `InternalAssertionsHold`: lines 109 and 236 cannot fail.
* `IdsFindCoroutines`: ids are places in `S.all`, also after reuse.
* `ReturnsWhenDoneOrCyclic`: when `co_run` returns, what is not done waits in, or
  for, a cycle of awaits.
* `FirstComeFirstServed`: turns are taken in the order they were given.

**service.** The two implementations of `CoroutineService`, without symmetry. `SchedulerService`
has three blocks and four creations, with fairness
`WF(resume)` and `WF(GivesBack)`. The loop of `co_run` never blocks, which gives the
first. The second says that a coroutine that has the thread sooner or later yields,
awaits or returns: the library is cooperative and the documentation makes it the
duty of the application (`docs/design.md:98`). Nothing obliges `main` to call
`co_run`, so `EveryReadyRuns` speaks of the time inside `co_run`. `Contexts` has three
coroutines and one register with two values: enough for each of two coroutines to compute
while the third is suspended, for one to await another and for chains of wakeups. One
register stands for six, which the code treats alike.

* `SchedulerImplementsService`: records in memory that is reused under stale entries of `S.all`
  act as coroutines that are never confused with each other.
* `EveryReadyRuns`: nobody starves, also when others yield and create for ever.
* `ReturnContextIsLive`: a running body is on its own stack, is `S.running`, and will
  switch to a call of `resume` that is still in progress on another stack.
* `RegistersPreserved`: a stack that is entered again finds its registers.
* `ImplementsService`: the switches reach the coroutine whose turn it is.

**primitives.** A run queue of four slots and three items, enough for the indices to wrap
around at every fill level and for overflow, and for neighbours to be told apart; up to four
workers that meet up to three times, with four yields in between, so that a fast worker is back
at the barrier while all others are still inside; up to five coroutines on up to three permits;
a wheel of four slots with two timers, delays of up to nine ticks (more than two laps), twelve
ticks and two creations, so that the third callback stops the process; stacks of every
remainder that matters modulo 16.

* `IndicesAgree`, `ImplementsFifo`: head, tail and size agree, and the buffer is a first-in
  first-out list.
* `ArrivalsCounted`, `NobodyPassesEarly`: the barrier is reusable. Its counter counts those
  who wait for the present phase, and nobody returns from a `k`-th wait before all have
  called it.
* `PermitsConserved`: permits out and permits left are the initial ones, so the test in
  `sem_post` never drops one. `CountsWithOnePermit`: a mutex makes the read and the write of the
  counter one step, although its holder yields in between.
* `NoneOverdue`: the lists of the wheel hold exactly the timers in use, each in the slot of the
  tick it was asked for, and that tick lies ahead. `FiresWhenDue`: its callback runs exactly at
  that tick; leaving the pool does not count as running, and a timer leaves it without its
  callback only if `co_create` had no memory. Both leave out the tick of delays of whole laps,
  for which `timer_wheel_delay` shows that it is another one.
* `FrameInStack`: the frame lies in the stack, the pops find its words, the stored stack
  pointer is aligned.
* `Ends`: everybody gets through the barrier and the semaphore.

**programs.** The bounds stand in `MCPrograms`; they let every buffer be full and empty and
wrap several times, queues be shorter than what goes through them, workers be more than
slots, and cover every acyclic graph of four tasks.

| Property | Program | What it says |
| --- | --- | --- |
| `FibonacciNumbers` | generator, recursive_fib | the values, none lost at the end of the generator; every result the recursion delivers is the number it was asked for, one coroutine per call |
| `StreamsLoseNothing` | pipeline, producer_consumer, ring_buffer_demo | items out and under way are the items in, once and in order |
| `EachTaskOnce` | work_stealing, fiber_pool | a task is in one place and executed once |
| `NobodyLeavesEarly` | work_stealing | an idle worker stays while tasks are to come |
| `ChannelInOrder`, `ChannelLosesNoWakeup` | channel | order across the close; nobody is parked for good |
| `RunsAfterDeps` | task_graph | a task is started once, by the last of its dependencies |
| `StopsAtLimit` | ping_pong | the limit is not passed by the one who tested before its yield |
| `ConnectionsInStep` | echo_server | connections are at most a turn apart; all is echoed |
| `TimersOnSchedule` | timer_coroutine | firing after the ticks and every period; timers stay within a turn of each other |
| `RequestsOverlap` | async_io | latencies overlap |
| `ProgramsEnd` | all | `co_run`, or `main`'s own loop, comes to its end; one-shot timers return |

Fairness is weak fairness of the whole next-state relation: a program is one thread that
never blocks, and each body is code that reaches its next yield. Which coroutine has the
next turn is not assumed but follows from the queue. `TimerWheel` and `FirstFrame` have no
fairness: nothing obliges an application to tick. Deadlock checking is off because the
programs end.

**co_run_leaves_waiters.** `include/coroutine.h:80` says that `co_run` "Runs until
every registered coroutine is in CO_DONE". A coroutine that awaits itself, or any
cycle of awaits, empties the queue and `co_run` returns; `ReturnsWhenDoneOrCyclic` is
what the code does guarantee.

**freed_records_are_read.** `co_free` leaves the pointer in `S.all`, and the scan of
line 126 reads through it. If the application has been given the block in the
meantime, its data may look like a waiting coroutine, is overwritten and enqueued.

**co_run_in_a_coroutine.** `resume` overwrites `S.main_ctx` with a context on the stack of
the coroutine that called `co_run`, and clears `S.running` when it comes back. The
coroutine can then neither yield nor await: the assertion "co_yield called outside a
coroutine" (243) fails inside one. If it ends instead, it switches to the frame of the
inner `resume`, which is gone. The header does not forbid the call
(`include/coroutine.h:81`: "Typically called once from main()").

**order_depends_on_memory.** `docs/INTERNALS.md:99` says that "the order of execution is a
deterministic function of the order of `co_create` and `co_yield` calls". Four creations
suffice: the first coroutine is freed, a later one gets its block in one run and a new
block in the other, and both it and an earlier one await the same coroutine. The scan
meets the reused block at the place of its first user.

**first_frame_abi.** `asm_ctx.S:2` calls the switch one of the "x86-64 System V ABI". That ABI
has `rsp` 8 below a multiple of 16 at the entry of a function, as it is after a call.
`co_trampoline` jumps, and both words of the frame have been taken by then, so `rsp` is a
multiple of 16 at `co_entry`, for every stack (theorem `EntryIsOffByEight`). Compiled code that
stores aligned vectors on the stack relies on the rule.

**semaphore_counter.** `semaphore.c:156` prints the counter with the number of workers as the
expected value. A worker yields between reading and writing it, and two permits let two
workers read the same value. `CountsWithOnePermit` is what holds.

**timer_wheel_delay.** `timer_wheel.c:68` says of `add_timer` that it will "schedule a one-shot
callback after `delay` ticks". The slot of the due tick is visited first when less than a lap has
passed, or after a whole lap if the delay is a multiple of the number of slots. The laps to wait
are `delay / WHEEL_SLOTS` (76) in both cases, which is one too many in the second: with four slots
a delay of 4 takes 8 ticks. (A delay of 0 takes 4. `AfterDelay` does not ask about it, since no tick
is left at which it could run in time.)

**expected_outputs.** Four programs say in a comment what they will print or do. Each is executed
with the parameters of its `main`, one after the other as four processes, under weak fairness of
the whole. `SomeOutputAsExpected` says that at least one of the four comments comes true; as it is
a disjunction, the one behaviour TLC finds refutes all of them:

* `generator.c:9` has "Sum: 286"; the first twelve numbers add up to 232;
* `ping_pong.c:18-21` has ping and pong in turn, with "[pong] 2"; pong yields before it increments,
  so ping prints 1 and 2, pong 3 and ping 4;
* `recursive_fib.c:170-172` checks `fib` of 0, 1, 5, 15 and 20 after 10; `fib(15)` takes 1973
  coroutines and the library creates 512 in its lifetime, so the process stops after four results;
* `timer_coroutine.c:90` runs the scheduler "until all coroutines finish" and line 94 prints "All
  timers finished"; the periodic timers never finish, and the behaviour goes round for ever.

`FibonacciNumbers`, `StopsAtLimit` and `TimersOnSchedule` are what these programs do keep.

### Other differences from comments

These came up in the modelling; no property is about them.

* `channel.c:13-18` shows sends and receives in turn; the producer only gives up its turn when
  the buffer is full, so four sends come first.
* `state_machine.c:10` goes to ESTABLISHED on a SYN_ACK; the pump resumes that state while the
  SYN_ACK is still queued.

## What is proved

The assumptions are named and stand in the modules that declare the constants.
`SchedulerAssumption`: the blocks are finitely many and are none of the other constants;
`MAX_COROUTINES` is positive. `QueueAssumption`: `QUEUE_CAP` is positive and `NULL` is no
item. `ContextsAssumption`: the coroutines are finitely many and a register can hold 0.
`StackAssumption`: blocks are aligned to 16 and have at least 16 bytes. `WheelAssumption`: the
wheel has a slot. `BarrierAssumption`,
`SemaphoreAssumption` and `BoundsAssumption`: the bounds are natural numbers, and the workers no
more than the coroutines. None of them limits how large an instance is.

**RunQueueProofs.** `RingInv` (types, and `IndicesAgree`) is inductive. The facts about
`%` it rests on are `SlotValue`, `NextSlotValue` and `SlotsDistinct`. With it every step
of the buffer is a step of the list: a push appends (`PushImplements`), a pop takes the
head and shifts every place by one (`PopImplements`). `RingCorrect` and
`RingImplementsFifo` follow for every `QUEUE_CAP`.

**SchedulerProofs.** The inductive invariant `IInv` is the conjunction of `TypeOK`,
`QueueIsReadySet`, `RunningIsCaller`, `NoLostWakeup`, `InternalAssertionsHold`,
`IdsFindCoroutines` and the fact that no block belongs to the application. None of
the safety properties is inductive alone:

* that the queue cannot overflow needs the queue to be injective and its members to
  be live, and live coroutines to be no more than `MAX_COROUTINES`, which follows
  because ids are distinct places of `S.all` (`LiveSequenceBound`);
* that `co_yield` does not enqueue twice needs that its caller is `RUNNING` and hence
  not in the queue, which is `RunningIsCaller`;
* that the waiters a scan finds are not in the queue yet needs `QueueIsReadySet`, and
  that the scan lists each once is `ScanOrderListsOnce`;
* that `co_free` does not free what is awaited needs `NoLostWakeup`.

There is one lemma per operation and `NextPreserves` puts them together. The order
of turns, `OrderKept`, follows because a step only takes the head of the queue or
extends its end (`QueueStep`).

**ContextsSwitchProofs, ContextsProofs.** The inductive invariant `CInv` says where execution is
by what is stored: `InMain`, `InLoop` and `InBody` give the words of the scheduler's stack and the
contexts for each place `rip` can be, and `Suspended(c)` says that the stack of a coroutine that
can have a turn holds the return address into its body, or its untouched first frame. None of the
properties is inductive without it, since a switch goes where the words say. `SwitchToLoop` and
`SwitchToBody` are the two directions of `co_ctx_switch`; there is one lemma per action. With
`CInv` every step is a step of `CoroutineService` (`StepImplements`), so that
`ContextsImplementService` holds for any number of coroutines and registers.

**FirstFrameProofs.** `FrameInv` gives every address as a distance from `Top`; `TopIsNear` is the
arithmetic of the rounding.

**TimerWheelProofs.** `Tried(t)` is the tick at which the code tries a timer's callback: the one
asked for, and a lap later for delays of whole laps. `WheelInv` says that the slots hold the timers
in use by `Tried`, that `Tried` is `laps` whole turns after the next visit of the slot (`Ahead`),
and what has become of every timer (`Outcome`): still to run, run at `Tried`, or refused. Neither
property is inductive without the relation to the laps. `Placed` shows that `add_timer`
establishes it and `Visited` that a visit keeps it or finds the timer due; both rest on a few
facts about `\div` and `%` for a divisor that is a constant. `SlotOfDue` leads from `Tried` back to
the tick that was asked for.

**SemaphoreProofs.** `SemInv` adds to the two properties that a worker inside has read the
present value of the counter if there is one permit; `OneHolder` is why nobody else writes.

**BarrierProofs.** `GateInv` relates the phase, what each worker remembers of it and its two
counts (`Lap`): a worker outside has passed as often as the phase says, one inside has entered
once more, or is still to notice that the phase has changed. `LastMeansAll` is the step from the
counter to the workers: when the last one arrives, all others are waiting.

**Only model-checked:** `ReturnsWhenDoneOrCyclic` (a transitive closure, an induction),
`SchedulerImplementsService` (its mapping follows the whole history of `S.all`), all
liveness properties (fairness is out of the prover's reach), and the invariants of `MCPrograms`,
most of which say what sequences hold and would need induction over them.

## What is not modelled

* **The `ucontext` path.** `getcontext`, `makecontext` and `swapcontext` do the work in the C
  library; the control around them is that of the assembly path.
* **`tests/` and `benchmarks/`.** They call what is modelled and add assertions and a clock. What
  the tests do beyond the examples (a barrier used several times) is among the inputs.
* **Stack overflow, threads, signals.** The documentation rules them out; nothing in
  the code handles them. Stacks of less than 16 bytes are excluded by `StackAssumption`.
* **Builds with `NDEBUG`.** Assertions are taken to be active, as in the Makefile.
* **Invalid handles.** Using a handle after `co_free` is a fault of the caller.
* **Output.** What the examples print is modelled only as the sequence of values; failing
  allocations in their `main` end them before anything happens.
