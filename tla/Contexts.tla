------------------------------ MODULE Contexts ------------------------------
(***************************************************************************)
(* The scheduler with its switches of context as the x86-64 code makes     *)
(* them.  A context is a stack pointer and the callee-saved registers; the *)
(* place where execution goes on is the return address found on the stack, *)
(* so a switch goes right only if the stack still holds the frames it held *)
(* when the context was saved.  Nothing here says whose turn it is except  *)
(* what the code itself stores.                                            *)
(*                                                                         *)
(* A stack is modelled by its return addresses.  The frames of co_run and  *)
(* of the function that calls co_ctx_switch for it, or of co_yield and     *)
(* co_await, are one address each.  Words above the top keep their old     *)
(* contents, as memory does.                                               *)
(***************************************************************************)
EXTENDS Integers, Sequences, FiniteSets, Functions

CONSTANTS N,            \* how many coroutines may be created
          CalleeSaved,  \* the registers a function must preserve, but for rsp
          Values        \* what a register can hold, 0 among them

ASSUME ContextsAssumption == N \in Nat /\ 0 \in Values

Coroutines == 1 .. N  \* by the order of creation, as in S.all

Main == 0  \* main's stack, and the place of S.main_ctx

NULL == 0  \* no coroutine

Stacks == Coroutines \cup {Main}

Depth == 3  \* no stack ever holds more addresses

VARIABLES state,     \* co->state
          awaiting,  \* co->awaiting
          queue,     \* the run queue
          running,   \* S.running
          ctx,       \* co->ctx, and S.main_ctx under Main
          mem,       \* the words of each stack
          rsp,       \* the stack in use and how many of its words are live
          regs,      \* the callee-saved registers
          rip,       \* the code that executes
          kept,      \* what the registers held when each stack was last left
          failed     \* an assertion has stopped the process

vars == <<state, awaiting, queue, running, ctx, mem, rsp, regs, rip, kept, failed>>

Labels == {"nothing", "main", "body", "resume", "co_trampoline", "co_entry", "abort"}

Words == [ret : Labels, co : Coroutines \cup {NULL}]

Address(label) == [ret |-> label, co |-> NULL]

Zero == [r \in CalleeSaved |-> 0]

TypeOK ==
    /\ state \in [Coroutines -> {"unborn", "READY", "RUNNING", "WAITING", "DONE"}]
    /\ awaiting \in [Coroutines -> Coroutines \cup {NULL}]
    /\ queue \in Seq(Coroutines)
    /\ running \in Coroutines \cup {NULL}
    /\ ctx \in [Stacks -> [stack : Stacks, top : 0 .. Depth, regs : [CalleeSaved -> Values]]]
    /\ mem \in [Stacks -> [1 .. Depth -> Words]]
    /\ rsp \in [stack : Stacks, top : 0 .. Depth]
    /\ regs \in [CalleeSaved -> Values]
    /\ rip \in {"main", "body", "loop", "abort"}
    /\ kept \in [Stacks -> [CalleeSaved -> Values]]
    /\ failed \in BOOLEAN

Init ==
    /\ state = [c \in Coroutines |-> "unborn"]
    /\ awaiting = [c \in Coroutines |-> NULL]
    /\ queue = << >>
    /\ running = NULL
    /\ ctx = [s \in Stacks |-> [stack |-> Main, top |-> 0, regs |-> Zero]]
    /\ mem = [s \in Stacks |-> [i \in 1 .. Depth |-> Address("nothing")]]
    /\ rsp = [stack |-> Main, top |-> 0]
    /\ regs = Zero
    /\ rip = "main"
    /\ kept = [s \in Stacks |-> Zero]
    /\ failed = FALSE
-----------------------------------------------------------------------------
InApplication == ~failed /\ rip \in {"main", "body"}

(* Where a ret leads that pops the address of a call.  The trampoline jumps  *)
(* to co_entry, which calls the body.                                        *)
Lands(label) ==
    CASE label = "main" -> "main"
      [] label = "resume" -> "loop"
      [] label \in {"body", "co_trampoline"} -> "body"
      [] OTHER -> "abort"

(* Mutant: the context to be restored is loaded without its registers. *)
NotLoaded(to) == regs

Loaded(to) == ctx[to].regs

(* The call of co_ctx_switch(from, to), whose return address is label, made  *)
(* at stack pointer sp with S.running = run: the registers are saved in      *)
(* *from and loaded from *to, and ret pops the address on the new stack.     *)
(* There, resume goes on with S.running = NULL; and co_trampoline pops the   *)
(* coroutine that co_create pushed and enters co_entry with it, which calls  *)
(* the body and so leaves its own frame at the same place.                   *)
co_ctx_switch(from, to, label, sp, run) ==
    LET saved  == [stack |-> sp.stack, top |-> sp.top + 1, regs |-> regs]
        called == [mem EXCEPT ![sp.stack][sp.top + 1] = Address(label)]
        at     == [stack |-> ctx[to].stack, top |-> ctx[to].top - 1]
        popped == called[at.stack][at.top + 1].ret
    IN  /\ ctx' = [ctx EXCEPT ![from] = saved]
        /\ kept' = [kept EXCEPT ![sp.stack] = regs]
        /\ regs' = Loaded(to)
        /\ rsp' = at
        /\ rip' = Lands(popped)
        /\ running' = IF popped = "resume" THEN NULL ELSE run
        /\ mem' = IF popped = "co_trampoline"
                  THEN [called EXCEPT ![at.stack][at.top].ret = "co_entry"]
                  ELSE called
-----------------------------------------------------------------------------
(* Application code uses a register, as a compiler may let it. *)
compute(r, v) ==
    /\ InApplication
    /\ regs' = [regs EXCEPT ![r] = v]
    /\ UNCHANGED <<state, awaiting, queue, running, ctx, mem, rsp, rip, kept, failed>>

(* Mutant: the two words of the first frame are pushed in the other order. *)
FirstFrameSwapped(c) == <<Address("co_trampoline"), [ret |-> "nothing", co |-> c]>>

(* The coroutine, and above it the address of co_trampoline. *)
FirstFrame(c) == <<[ret |-> "nothing", co |-> c], Address("co_trampoline")>>

co_create(c) ==
    /\ InApplication
    /\ state[c] = "unborn"
    /\ \A d \in 1 .. c - 1 : state[d] # "unborn"
    /\ state' = [state EXCEPT ![c] = "READY"]
    /\ mem' = [mem EXCEPT ![c][1] = FirstFrame(c)[1], ![c][2] = FirstFrame(c)[2]]
    /\ ctx' = [ctx EXCEPT ![c] = [stack |-> c, top |-> 2, regs |-> Zero]]
    /\ queue' = Append(queue, c)
    /\ UNCHANGED <<awaiting, running, rsp, regs, rip, kept, failed>>

co_yield ==
    /\ InApplication
    /\ running # NULL
    /\ state' = [state EXCEPT ![running] = "READY"]
    /\ queue' = Append(queue, running)
    /\ co_ctx_switch(running, Main, rip, rsp, running)
    /\ UNCHANGED <<awaiting, failed>>

co_await(other) ==
    /\ InApplication
    /\ state[other] \notin {"unborn", "DONE"}
    /\ running # NULL
    /\ state' = [state EXCEPT ![running] = "WAITING"]
    /\ awaiting' = [awaiting EXCEPT ![running] = other]
    /\ co_ctx_switch(running, Main, rip, rsp, running)
    /\ UNCHANGED <<queue, failed>>

(* assert(co) in co_yield; co_await has the same one. *)
co_yield_outside ==
    /\ InApplication
    /\ running = NULL
    /\ failed' = TRUE
    /\ UNCHANGED <<state, awaiting, queue, running, ctx, mem, rsp, regs, rip, kept>>

Waiters(done) == {c \in Coroutines : state[c] = "WAITING" /\ awaiting[c] = done}

(* The members of W in the order of S.all. *)
ScanOrder(W) ==
    {s \in [1 .. Cardinality(W) -> W] :
        \A i, j \in 1 .. Cardinality(W) : i < j => s[i] < s[j]}

(* The body returns to co_entry, whose co is DONE, wakes its waiters and     *)
(* switches for good; if the switch ever returned, abort() would follow.     *)
co_entry(co) ==
    LET W == Waiters(co)
    IN  /\ InApplication
        /\ rip = "body"
        /\ mem[rsp.stack][rsp.top] = [ret |-> "co_entry", co |-> co]
        /\ state' = [c \in Coroutines |-> IF c = co THEN "DONE"
                                          ELSE IF c \in W THEN "READY" ELSE state[c]]
        /\ awaiting' = [c \in Coroutines |-> IF c \in W THEN NULL ELSE awaiting[c]]
        /\ \E s \in ScanOrder(W) : queue' = queue \o s
        /\ co_ctx_switch(co, Main, "abort", [rsp EXCEPT !.top = @ - 1], running)
        /\ UNCHANGED failed

(* co_run is called by the code at label. *)
co_run(label) ==
    /\ InApplication
    /\ rip = label
    /\ mem' = [mem EXCEPT ![rsp.stack][rsp.top + 1] = Address(label)]
    /\ rsp' = [rsp EXCEPT !.top = @ + 1]
    /\ rip' = "loop"
    /\ UNCHANGED <<state, awaiting, queue, running, ctx, regs, kept, failed>>

(* Mutant: S.running is not set. *)
RunningUnset(co) == running

(* The value of S.running during the switch to co. *)
RunningDuring(co) == co

(* The loop of co_run pops a coroutine and resume switches to it. *)
resume ==
    /\ ~failed
    /\ rip = "loop"
    /\ queue # << >>
    /\ queue' = Tail(queue)
    /\ state' = [state EXCEPT ![Head(queue)] = "RUNNING"]
    /\ co_ctx_switch(Main, Head(queue), "resume", rsp, RunningDuring(Head(queue)))
    /\ UNCHANGED <<awaiting, failed>>

(* Mutant: the frame of co_run stays on the stack. *)
FrameKept == rsp

(* ret pops the frame of co_run. *)
FramePopped == [rsp EXCEPT !.top = @ - 1]

(* The queue is empty: co_run returns to its caller. *)
co_run_return ==
    /\ ~failed
    /\ rip = "loop"
    /\ queue = << >>
    /\ rip' = Lands(mem[rsp.stack][rsp.top].ret)
    /\ rsp' = FramePopped
    /\ UNCHANGED <<state, awaiting, queue, running, ctx, mem, regs, kept, failed>>

Next ==
    \/ \E r \in CalleeSaved, v \in Values : compute(r, v)
    \/ \E c \in Coroutines : co_create(c)
    \/ co_yield
    \/ co_yield_outside
    \/ \E other \in Coroutines : co_await(other)
    \/ \E co \in Coroutines : co_entry(co)
    \/ co_run("main")
    \/ resume
    \/ co_run_return

(* co_run is called by main only. *)
Spec == Init /\ [][Next]_vars

(* Coroutines call co_run as well, which nothing in the code or the header   *)
(* forbids.                                                                  *)
NestedSpec == Init /\ [][Next \/ co_run("body")]_vars
-----------------------------------------------------------------------------
(* The coroutine whose body executes, as its co_entry was told. *)
Executing == IF rip = "body" THEN mem[rsp.stack][1].co ELSE NULL

(* While the body of a coroutine executes, it does so on its own stack, it  *)
(* is S.running, and the context it will switch to next is a call of        *)
(* resume that is still in progress on another stack.                       *)
ReturnContextIsLive ==
    rip = "body" =>
        /\ rsp = [stack |-> Executing, top |-> 1]
        /\ running = Executing
        /\ ctx[Main].stack # rsp.stack
        /\ mem[ctx[Main].stack][ctx[Main].top] = Address("resume")

(* Calls of co_yield, co_await and co_run preserve the callee-saved         *)
(* registers: a stack that is entered again finds in them what its code     *)
(* held there when it left, whatever the others have computed since.        *)
RegistersPreserved ==
    [][rsp'.stack # rsp.stack => regs' = kept[rsp'.stack]]_vars

Service == INSTANCE CoroutineService
           WITH Limit <- N, life <- state, target <- awaiting,
                turns <- queue, current <- Executing

(* The stack pointers and return addresses lead to the coroutine whose turn *)
(* it is, at the point where it stopped, and back to the loop of co_run.    *)
ImplementsService == Service!Spec

(* What the assertion of line 243 says when it fails, "co_yield called      *)
(* outside a coroutine", is so: main's code made the call.                  *)
OutsideMeansMain == failed => rip = "main"
=============================================================================
