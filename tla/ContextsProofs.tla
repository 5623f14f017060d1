--------------------------- MODULE ContextsProofs ---------------------------
(***************************************************************************)
(* The switches of context go right for any number of coroutines and any   *)
(* register contents, as long as only main calls co_run.  The invariant    *)
(* and the steps of coroutines are in ContextsSwitchProofs.                *)
(***************************************************************************)
EXTENDS ContextsSwitchProofs

(* The head of the queue and what is left behind it. *)
LEMMA QueuePop ==
    ASSUME CInv, queue # << >>
    PROVE  /\ Head(queue) \in Coroutines /\ state[Head(queue)] = "READY" /\ Suspended(Head(queue))
           /\ Tail(queue) \in Seq(Coroutines)
           /\ \A i \in 1 .. Len(Tail(queue)) :
                 /\ Tail(queue)[i] \in Coroutines /\ Tail(queue)[i] # Head(queue)
                 /\ state[Tail(queue)[i]] = "READY"
           /\ \A i, j \in 1 .. Len(Tail(queue)) : i < j => Tail(queue)[i] # Tail(queue)[j]
<1>1. /\ queue \in Seq(Coroutines) /\ Len(queue) \in Nat /\ Len(queue) >= 1
      /\ Head(queue) = queue[1] /\ Head(queue) \in Coroutines
      /\ Tail(queue) \in Seq(Coroutines) /\ Len(Tail(queue)) = Len(queue) - 1
      /\ \A i \in 1 .. Len(Tail(queue)) : Tail(queue)[i] = queue[i + 1]
  BY HeadTailProperties, LenProperties, EmptySeq DEF CInv, QueueReady
<1>2. \A i \in 1 .. Len(Tail(queue)) : i + 1 \in 1 .. Len(queue) /\ 1 < i + 1 /\ 1 \in 1 .. Len(queue)
  BY <1>1
<1>3. \A i, j \in 1 .. Len(Tail(queue)) : i < j => i + 1 < j + 1
  BY <1>1
<1>4. \A i \in 1 .. Len(queue) : queue[i] \in Coroutines /\ state[queue[i]] = "READY"
  BY <1>1, ElementOfSeq DEF CInv, QueueReady
<1>5. \A i, j \in 1 .. Len(queue) : i < j => queue[i] # queue[j]
  BY DEF CInv, QueueReady
<1>6. 1 \in 1 .. Len(queue)
  BY <1>1
<1>7. state[Head(queue)] = "READY" /\ Suspended(Head(queue))
  BY <1>1, <1>4, <1>6 DEF CInv
<1> QED
  BY <1>1, <1>2, <1>3, <1>4, <1>5, <1>7

(* resume. *)
LEMMA ResumePreserves == ASSUME CInv, resume PROVE CInv' /\ regs' = kept[rsp'.stack]
<1>1. PICK c \in Coroutines : c = Head(queue) /\ state[c] = "READY" /\ Suspended(c)
  BY QueuePop DEF resume
<1>2. rip = "loop" /\ queue' = Tail(queue) /\ state' = [state EXCEPT ![c] = "RUNNING"]
      /\ co_ctx_switch(Main, c, "resume", rsp, c) /\ UNCHANGED <<awaiting, failed>>
  BY <1>1 DEF resume, RunningDuring
<1>3. /\ running' = c /\ rip' = "body" /\ rsp' = [stack |-> c, top |-> 1]
      /\ regs' = kept[c] /\ kept' = [kept EXCEPT ![Main] = regs]
      /\ ctx' = [ctx EXCEPT ![Main] = [stack |-> Main, top |-> 2, regs |-> regs]]
      /\ mem' \in [Stacks -> [1 .. Depth -> Words]]
      /\ mem'[c][1] = Bottom("co_entry", c)
      /\ mem'[Main][1] = Address("main") /\ mem'[Main][2] = Address("resume")
      /\ \A d \in Coroutines : d # c => mem'[d] = mem[d]
  BY <1>1, <1>2, SwitchToBody
<1>4. TypeOK
  BY DEF CInv
<1>5. state' \in [Coroutines -> States] /\ state'[c] = "RUNNING"
      /\ \A d \in Coroutines : d # c => state'[d] = state[d]
  BY <1>2, <1>4 DEF TypeOK, States
<1>6. /\ ctx' \in [Stacks -> [stack : Stacks, top : 0 .. Depth, regs : [CalleeSaved -> Values]]]
      /\ ctx'[Main] = [stack |-> Main, top |-> 2, regs |-> regs]
      /\ \A d \in Coroutines : ctx'[d] = ctx[d]
  <2>1. PICK v : v = [stack |-> Main, top |-> 2, regs |-> regs]
    BY Zenon
  <2>2. v \in [stack : Stacks, top : 0 .. Depth, regs : [CalleeSaved -> Values]]
    BY <1>4, <2>1, Distinct DEF TypeOK
  <2>3. ctx' = [ctx EXCEPT ![Main] = v]
    BY <1>3, <2>1
  <2>4. ctx'[Main] = v
    BY <1>4, <2>3, Distinct DEF TypeOK
  <2> QED
    BY <1>4, <2>1, <2>2, <2>3, <2>4, Distinct DEF TypeOK
<1>7. /\ kept' \in [Stacks -> [CalleeSaved -> Values]] /\ regs' \in [CalleeSaved -> Values]
      /\ kept'[Main] = regs /\ \A d \in Coroutines : kept'[d] = kept[d]
  BY <1>3, <1>4, Distinct DEF TypeOK
<1>8. QueueReady'
  <2>1. PICK q : q = Tail(queue)
    BY Zenon
  <2>2. /\ q \in Seq(Coroutines)
        /\ \A i \in 1 .. Len(q) : q[i] \in Coroutines /\ q[i] # c /\ state[q[i]] = "READY"
        /\ \A i, j \in 1 .. Len(q) : i < j => q[i] # q[j]
    BY <1>1, <2>1, QueuePop DEF resume
  <2>3. queue' = q
    BY <1>2, <2>1
  <2> QED
    BY <1>5, <2>2, <2>3 DEF QueueReady
<1>9. TypeOK'
  <2>1. rsp' \in [stack : Stacks, top : 0 .. Depth]
    BY <1>3, Distinct
  <2> QED
    BY <1>2, <1>3, <1>4, <1>5, <1>6, <1>7, <1>8, <2>1 DEF TypeOK, QueueReady, States
<1>10. InBody'
  BY <1>3, <1>6, <1>7 DEF InBody
<1>11. ASSUME NEW d \in Coroutines
       PROVE  /\ state'[d] = "RUNNING" <=> running' = d
              /\ state'[d] = "unborn" => kept'[d] = Zero
              /\ state'[d] \in {"READY", "WAITING"} => Suspended(d)'
  <2>1. CASE d = c
    BY <1>3, <1>5, <2>1
  <2>2. CASE d # c
    <3>1. state'[d] = state[d] /\ kept'[d] = kept[d] /\ ctx'[d] = ctx[d] /\ mem'[d] = mem[d]
      BY <1>3, <1>5, <1>6, <1>7, <2>2
    <3>2. state[d] # "RUNNING"
      BY <1>2 DEF CInv
    <3>3. Suspended(d) => Suspended(d)'
      BY <3>1 DEF Suspended
    <3> QED
      BY <1>3, <2>2, <3>1, <3>2, <3>3 DEF CInv
  <2> QED
    BY <2>1, <2>2
<1>12. CInv'
  BY <1>3, <1>8, <1>9, <1>10, <1>11 DEF CInv
<1>13. rsp'.stack = c
  BY <1>3
<1> QED
  BY <1>3, <1>12, <1>13

(* co_create. *)
LEMMA CreatePreserves == ASSUME CInv, NEW c \in Coroutines, co_create(c) PROVE CInv'
<1>1. /\ state[c] = "unborn" /\ state' = [state EXCEPT ![c] = "READY"]
      /\ queue' = Append(queue, c) /\ UNCHANGED <<awaiting, running, rsp, regs, rip, kept, failed>>
  BY DEF co_create
<1>2. TypeOK /\ kept[c] = Zero
  BY <1>1 DEF CInv
<1>3. PICK v : v = [stack |-> c, top |-> 2, regs |-> kept[c]]
  BY Zenon
<1>4. v \in [stack : Stacks, top : 0 .. Depth, regs : [CalleeSaved -> Values]]
  BY <1>2, <1>3, Distinct DEF TypeOK
<1>5. ctx' = [ctx EXCEPT ![c] = v]
  BY <1>2, <1>3 DEF co_create
<1>6. /\ ctx' \in [Stacks -> [stack : Stacks, top : 0 .. Depth, regs : [CalleeSaved -> Values]]]
      /\ ctx'[c] = v /\ \A d \in Stacks : d # c => ctx'[d] = ctx[d]
  BY <1>2, <1>4, <1>5, Distinct DEF TypeOK
<1>7. /\ mem' \in [Stacks -> [1 .. Depth -> Words]]
      /\ mem'[c][1] = Bottom("nothing", c) /\ mem'[c][2] = Address("co_trampoline")
      /\ \A d \in Stacks : d # c => mem'[d] = mem[d]
  <2>1. PICK a, b : a = Bottom("nothing", c) /\ b = Address("co_trampoline")
    OBVIOUS
  <2>2. a \in Words /\ b \in Words
    BY <2>1 DEF Bottom, Address, Words, Labels
  <2>3. FirstFrame(c)[1] = a /\ FirstFrame(c)[2] = b
    BY <2>1 DEF FirstFrame, Bottom
  <2>4. mem' = [mem EXCEPT ![c][1] = a, ![c][2] = b]
    BY <2>3 DEF co_create
  <2>5. mem \in [Stacks -> [1 .. Depth -> Words]] /\ c \in Stacks /\ 1 \in 1 .. Depth /\ 2 \in 1 .. Depth
    BY <1>2, Distinct DEF TypeOK
  <2>6. mem'[c] = [mem[c] EXCEPT ![1] = a, ![2] = b] /\ \A d \in Stacks : d # c => mem'[d] = mem[d]
    BY <2>4, <2>5
  <2>7. mem'[c] \in [1 .. Depth -> Words] /\ mem'[c][1] = a /\ mem'[c][2] = b
    <3>1. PICK m \in [1 .. Depth -> Words] : m = mem[c]
      BY <2>5
    <3>2. PICK f : f = [m EXCEPT ![1] = a]
      BY Zenon
    <3>3. f \in [1 .. Depth -> Words] /\ f[1] = a
      BY <2>2, <2>5, <3>2
    <3>4. mem'[c] = [f EXCEPT ![2] = b]
      BY <2>6, <3>1, <3>2
    <3> QED
      BY <2>2, <2>5, <3>3, <3>4
  <2>8. mem' = [d \in Stacks |-> mem'[d]]
    BY <2>4, <2>5, Zenon
  <2>9. \A d \in Stacks : mem'[d] \in [1 .. Depth -> Words]
    BY <2>5, <2>6, <2>7, Zenon
  <2> QED
    BY <2>1, <2>6, <2>7, <2>8, <2>9
<1>8. state' \in [Coroutines -> States] /\ state'[c] = "READY"
      /\ \A d \in Coroutines : d # c => state'[d] = state[d]
  BY <1>1, <1>2 DEF TypeOK, States
<1>9. QueueReady'
  <2>1. queue \in Seq(Coroutines) /\ \A i \in 1 .. Len(queue) : queue[i] \in Coroutines
    BY ElementOfSeq DEF CInv, QueueReady
  <2>2. \A i \in 1 .. Len(queue) : state'[queue[i]] = "READY" /\ queue[i] # c
    BY <1>1, <1>8, <2>1 DEF CInv, QueueReady
  <2>3. \A i, j \in 1 .. Len(queue) : i < j => queue[i] # queue[j]
    BY DEF CInv, QueueReady
  <2> QED
    BY <1>1, <1>8, <2>1, <2>2, <2>3, AppendReady DEF QueueReady
<1>10. TypeOK'
  BY <1>1, <1>2, <1>6, <1>7, <1>8, <1>9 DEF TypeOK, QueueReady, States
<1>11. (rip' = "main" => InMain') /\ (rip' = "loop" => InLoop') /\ (rip' = "body" => InBody')
  <2>1. rip = "body" => running # c /\ running \in Stacks
    BY <1>1, Distinct DEF CInv, InBody
  <2>2. Main # c /\ Main \in Stacks
    BY Distinct
  <2> QED
    BY <1>1, <1>6, <1>7, <2>1, <2>2 DEF CInv, InMain, InLoop, InBody
<1>12. ASSUME NEW d \in Coroutines
       PROVE  /\ state'[d] = "RUNNING" <=> rip' = "body" /\ running' = d
              /\ state'[d] = "unborn" => kept'[d] = Zero
              /\ state'[d] \in {"READY", "WAITING"} => Suspended(d)'
  <2>1. CASE d = c
    <3>1. Suspended(c)'
      BY <1>1, <1>3, <1>6, <1>7 DEF Suspended
    <3>2. ~(rip' = "body" /\ running' = c)
      BY <1>1 DEF CInv
    <3> QED
      BY <1>8, <2>1, <3>1, <3>2
  <2>2. CASE d # c
    <3>1. ctx'[d] = ctx[d] /\ mem'[d] = mem[d] /\ kept'[d] = kept[d] /\ state'[d] = state[d]
      BY <1>1, <1>6, <1>7, <1>8, <2>2, Distinct
    <3>2. Suspended(d) => Suspended(d)'
      BY <3>1 DEF Suspended
    <3> QED
      BY <1>1, <3>1, <3>2 DEF CInv
  <2> QED
    BY <2>1, <2>2
<1> QED
  BY <1>1, <1>9, <1>10, <1>11, <1>12 DEF CInv

(* main calls co_run. *)
LEMMA RunPreserves == ASSUME CInv, co_run("main") PROVE CInv' /\ rsp'.stack = rsp.stack
<1>1. /\ rip = "main" /\ rip' = "loop" /\ TypeOK /\ running = NULL
      /\ rsp = [stack |-> Main, top |-> 0]
      /\ UNCHANGED <<state, awaiting, queue, running, ctx, regs, kept, failed>>
  BY DEF co_run, CInv, InMain
<1>2. rsp.stack = Main /\ rsp.top + 1 = 1 /\ rsp' = [stack |-> Main, top |-> 1] /\ rsp'.stack = Main
  BY <1>1 DEF co_run
<1>3. PICK a : a = Address("main")
  OBVIOUS
<1>4. a \in Words
  BY <1>3 DEF Address, Words, Labels
<1>5. mem' = [mem EXCEPT ![Main][1] = a]
  BY <1>2, <1>3, Zenon DEF co_run
<1>6. mem' \in [Stacks -> [1 .. Depth -> Words]] /\ mem'[Main][1] = a
      /\ \A d \in Coroutines : mem'[d] = mem[d]
  BY <1>1, <1>4, <1>5, Distinct DEF TypeOK
<1>7. TypeOK'
  <2>1. rsp' \in [stack : Stacks, top : 0 .. Depth]
    BY <1>2, Distinct
  <2> QED
    BY <1>1, <1>6, <2>1 DEF TypeOK
<1>8. InLoop' /\ QueueReady'
  BY <1>1, <1>2, <1>3, <1>6 DEF CInv, InLoop, QueueReady
<1>9. \A d \in Coroutines : Suspended(d) => Suspended(d)'
  BY <1>1, <1>6 DEF Suspended
<1> QED
  BY <1>1, <1>2, <1>7, <1>8, <1>9 DEF CInv

(* co_run returns. *)
LEMMA ReturnPreserves == ASSUME CInv, co_run_return PROVE CInv' /\ rsp'.stack = rsp.stack
<1>1. /\ rip = "loop" /\ TypeOK /\ running = NULL
      /\ rsp = [stack |-> Main, top |-> 1] /\ mem[Main][1] = Address("main")
      /\ UNCHANGED <<state, awaiting, queue, running, ctx, mem, regs, kept, failed>>
  BY DEF co_run_return, CInv, InLoop
<1>2. rsp.stack = Main /\ rsp.top = 1 /\ rsp' = [stack |-> Main, top |-> 0] /\ rsp'.stack = Main
  BY <1>1 DEF co_run_return, FramePopped
<1>3. rip' = "main"
  <2>1. Address("main").ret = "main" /\ Lands("main") = "main"
    BY DEF Address, Lands
  <2> QED
    BY <1>1, <1>2, <2>1 DEF co_run_return
<1>4. TypeOK'
  <2>1. rsp' \in [stack : Stacks, top : 0 .. Depth]
    BY <1>2, Distinct
  <2> QED
    BY <1>1, <1>3, <2>1 DEF TypeOK
<1>5. \A d \in Coroutines : Suspended(d) => Suspended(d)'
  BY <1>1 DEF Suspended
<1> QED
  BY <1>1, <1>2, <1>3, <1>4, <1>5 DEF CInv, InMain, QueueReady

(* Every step keeps the invariant and, where it changes stacks, loads the  *)
(* registers the new stack was left with.                                  *)
LEMMA CStep ==
    CInv /\ [Next]_vars => CInv' /\ (rsp'.stack # rsp.stack => regs' = kept[rsp'.stack])
<1> SUFFICES ASSUME CInv, [Next]_vars
             PROVE  CInv' /\ (rsp'.stack # rsp.stack => regs' = kept[rsp'.stack])
  BY Zenon
<1>1. CASE UNCHANGED <<state, awaiting, queue, running, ctx, mem, rsp, rip, kept>>
           /\ regs' \in [CalleeSaved -> Values] /\ failed' \in BOOLEAN
  <2>1. \A d \in Coroutines : Suspended(d) => Suspended(d)'
    BY <1>1 DEF Suspended
  <2>2. TypeOK'
    BY <1>1 DEF CInv, TypeOK
  <2> QED
    BY <1>1, <2>1, <2>2 DEF CInv, QueueReady, InMain, InLoop, InBody
<1>2. ASSUME NEW r \in CalleeSaved, NEW v \in Values, compute(r, v)
      PROVE  CInv' /\ (rsp'.stack # rsp.stack => regs' = kept[rsp'.stack])
  BY <1>1, <1>2 DEF compute, CInv, TypeOK
<1>3. CASE co_yield_outside
  BY <1>1, <1>3 DEF co_yield_outside, CInv, TypeOK
<1>4. CASE UNCHANGED vars
  BY <1>1, <1>4 DEF vars, CInv, TypeOK
<1>5. ASSUME NEW c \in Coroutines, co_create(c) PROVE CInv' /\ rsp' = rsp
  BY <1>5, CreatePreserves, Zenon DEF co_create
<1>6. ASSUME NEW label \in Labels, NEW n \in 0 .. 1, rip = "body",
             co_ctx_switch(running, Main, label, [stack |-> running, top |-> n], running)
      PROVE  regs' = kept[rsp'.stack]
  BY <1>6, SwitchToLoop
<1>7. CASE co_yield
  <2>1. rip = "body" /\ co_ctx_switch(running, Main, "body", [stack |-> running, top |-> 1], running)
        /\ "body" \in Labels /\ 1 \in 0 .. 1
    BY <1>7, Caller DEF co_yield, Labels
  <2> QED
    BY <1>6, <1>7, <2>1, YieldPreserves
<1>8. ASSUME NEW other \in Coroutines, co_await(other) PROVE CInv' /\ regs' = kept[rsp'.stack]
  <2>1. rip = "body" /\ co_ctx_switch(running, Main, "body", [stack |-> running, top |-> 1], running)
        /\ "body" \in Labels /\ 1 \in 0 .. 1
    BY <1>8, Caller DEF co_await, Labels
  <2> QED
    BY <1>6, <1>8, <2>1, AwaitPreserves
<1>9. ASSUME NEW co \in Coroutines, co_entry(co) PROVE CInv' /\ regs' = kept[rsp'.stack]
  <2>1. rip = "body" /\ co_ctx_switch(running, Main, "abort", [stack |-> running, top |-> 0], running)
        /\ "abort" \in Labels /\ 0 \in 0 .. 1
    BY <1>9, EntryIsRunning DEF Labels
  <2> QED
    BY <1>6, <1>9, <2>1, EntryPreserves
<1> QED
  BY <1>2, <1>3, <1>4, <1>5, <1>7, <1>8, <1>9, RunPreserves, ReturnPreserves, ResumePreserves DEF Next

(* Contexts, stacks and registers keep their types. *)
THEOREM ContextsTypeCorrect == Spec => []TypeOK
<1>1. CInv => TypeOK
  BY DEF CInv
<1>2. CInv /\ [Next]_vars => CInv'
  BY CStep
<1> QED
  BY <1>1, <1>2, CInit, PTL DEF Spec

(* A body executes on its own stack as S.running, and what it will switch  *)
(* to is a call of resume that is still in progress.                       *)
THEOREM ReturnContextLives == Spec => []ReturnContextIsLive
<1>1. ASSUME CInv, rip = "body" PROVE ReturnContextIsLive
  <2>1. InBody
    BY <1>1 DEF CInv
  <2>2. rsp.stack = running /\ Executing = running
    BY <1>1, <2>1 DEF InBody, Executing, Bottom
  <2>3. ctx[Main].stack = Main /\ ctx[Main].top = 2
    BY <2>1 DEF InBody
  <2> QED
    BY <2>1, <2>2, <2>3, Distinct DEF ReturnContextIsLive, InBody
<1>2. CInv => ReturnContextIsLive
  BY <1>1 DEF ReturnContextIsLive
<1>3. CInv /\ [Next]_vars => CInv'
  BY CStep
<1> QED
  BY <1>2, <1>3, CInit, PTL DEF Spec

(* co_yield, co_await and co_run preserve the callee-saved registers.      *)
THEOREM RegistersArePreserved == Spec => RegistersPreserved
<1>1. CInv /\ [Next]_vars => CInv'
  BY CStep
<1>2. CInv /\ [Next]_vars => [rsp'.stack # rsp.stack => regs' = kept[rsp'.stack]]_vars
  BY CStep
<1> QED
  BY <1>1, <1>2, CInit, PTL DEF Spec, RegistersPreserved
-----------------------------------------------------------------------------
Agree == Executing = running

(* Whom the stacks say to be executing is S.running. *)
LEMMA ExecutingIsRunning == CInv => Agree
<1>1. ASSUME CInv, rip = "body" PROVE Executing = running
  <2>1. InBody /\ rsp.stack = running
    BY <1>1 DEF CInv, InBody
  <2> QED
    BY <1>1, <2>1 DEF InBody, Executing, Bottom
<1>2. ASSUME CInv, rip # "body" PROVE Executing = running
  BY <1>2 DEF CInv, InMain, InLoop, Executing
<1> QED
  BY <1>1, <1>2 DEF Agree

(* Every step is a step of the service, or none. *)
LEMMA StepImplements == CInv /\ [Next]_vars => [Service!Next]_Service!vars
<1> SUFFICES ASSUME CInv, [Next]_vars PROVE [Service!Next]_Service!vars
  OBVIOUS
<1>1. Executing = running /\ Executing' = running'
  <2>1. CInv'
    BY CStep
  <2>2. Agree /\ Agree'
    BY <2>1, ExecutingIsRunning, PTL
  <2> QED
    BY <2>2 DEF Agree
<1>2. Service!None = NULL /\ Service!Coroutines = Coroutines
  BY DEF Service!None, NULL, Service!Coroutines, Coroutines
<1>3. ASSUME UNCHANGED <<state, awaiting, queue, running>> PROVE [Service!Next]_Service!vars
  BY <1>1, <1>3 DEF Service!vars
<1>4. ASSUME NEW c \in Coroutines, co_create(c) PROVE Service!Next
  <2>1. Service!Create(c)
    BY <1>1, <1>4 DEF co_create, Service!Create
  <2> QED
    BY <1>2, <2>1 DEF Service!Next
<1>5. ASSUME NEW label \in Labels, NEW n \in 0 .. 1, rip = "body",
             co_ctx_switch(running, Main, label, [stack |-> running, top |-> n], running)
      PROVE  running' = NULL
  BY <1>5, SwitchToLoop
<1>6. CASE co_yield
  <2>1. rip = "body" /\ co_ctx_switch(running, Main, "body", [stack |-> running, top |-> 1], running)
        /\ "body" \in Labels /\ 1 \in 0 .. 1 /\ running \in Coroutines
    BY <1>6, Caller DEF co_yield, Labels
  <2>2. running' = NULL
    BY <1>5, <2>1
  <2>3. Service!Yield(running)
    BY <1>1, <1>2, <1>6, <2>2 DEF co_yield, Service!Yield
  <2> QED
    BY <1>2, <2>1, <2>3 DEF Service!Next
<1>7. ASSUME NEW other \in Coroutines, co_await(other) PROVE Service!Next
  <2>1. rip = "body" /\ co_ctx_switch(running, Main, "body", [stack |-> running, top |-> 1], running)
        /\ "body" \in Labels /\ 1 \in 0 .. 1 /\ running \in Coroutines
    BY <1>7, Caller DEF co_await, Labels
  <2>2. running' = NULL
    BY <1>5, <2>1
  <2>3. state[other] \in {"READY", "RUNNING", "WAITING"}
    BY <1>7 DEF co_await, CInv, TypeOK
  <2>4. Service!Await(running, other)
    BY <1>1, <1>2, <1>7, <2>2, <2>3 DEF co_await, Service!Await
  <2> QED
    BY <1>2, <2>1, <2>4 DEF Service!Next
<1>8. ASSUME NEW co \in Coroutines, co_entry(co) PROVE Service!Next
  <2> DEFINE W == {d \in Coroutines : state[d] = "WAITING" /\ awaiting[d] = co}
  <2>1. co = running /\ rip = "body" /\ "abort" \in Labels /\ 0 \in 0 .. 1
        /\ co_ctx_switch(running, Main, "abort", [stack |-> running, top |-> 0], running)
    BY <1>8, EntryIsRunning DEF Labels
  <2>2. running' = NULL
    BY <1>5, <2>1
  <2>3. W = Waiters(co) /\ W \in SUBSET Coroutines
    BY DEF Waiters
  <2>4. PICK s \in ScanOrder(W) : queue' = queue \o s
    BY <1>8, <2>3, Zenon DEF co_entry
  <2>5. s \in Service!Orders(W)
    <3>1. s \in [1 .. Cardinality(W) -> W] /\ Range(s) = W
      BY <2>3, ScanLists, Zenon
    <3>2. Service!Cardinality(W) = Cardinality(W)
      BY DEF Service!Cardinality, Cardinality, Service!IsFiniteSet, IsFiniteSet
    <3>3. Service!Range(s) = Range(s)
      BY DEF Service!Range, Range
    <3> HIDE DEF W
    <3> QED
      BY <3>1, <3>2, <3>3 DEF Service!Orders
  <2>6. /\ state' = [d \in Coroutines |-> IF d = co THEN "DONE"
                                           ELSE IF d \in W THEN "READY" ELSE state[d]]
        /\ awaiting' = [d \in Coroutines |-> IF d \in W THEN Service!None ELSE awaiting[d]]
    BY <1>2, <1>8, <2>3 DEF co_entry
  <2>7. Executing = co /\ Executing' = Service!None
    BY <1>1, <1>2, <2>1, <2>2
  <2>8. Service!Finish(co)
    BY <1>2, <2>4, <2>5, <2>6, <2>7, Zenon DEF Service!Finish
  <2> QED
    BY <1>2, <2>8 DEF Service!Next
<1>9. CASE resume
  <2>1. Head(queue) \in Coroutines /\ Suspended(Head(queue)) /\ rip = "loop" /\ running = NULL
        /\ co_ctx_switch(Main, Head(queue), "resume", rsp, Head(queue))
    BY <1>9, QueuePop DEF resume, RunningDuring, CInv, InLoop
  <2>2. running' = Head(queue)
    BY <2>1, SwitchToBody
  <2>3. Service!Turn
    BY <1>1, <1>2, <1>9, <2>1, <2>2 DEF resume, Service!Turn
  <2> QED
    BY <2>3 DEF Service!Next
<1> QED
  BY <1>3, <1>4, <1>6, <1>7, <1>8, <1>9
     DEF Next, vars, compute, co_yield_outside, co_run, co_run_return

(* The switches of context, driven by nothing but stack pointers and       *)
(* return addresses, give every coroutine its turn as the service says.    *)
THEOREM ContextsImplementService == Spec => ImplementsService
<1>1. Init => Service!Init
  BY DEF Init, Service!Init, Service!None, NULL, Service!Coroutines, Coroutines, Executing
<1>2. CInv /\ [Next]_vars => CInv'
  BY CStep
<1> QED
  BY <1>1, <1>2, StepImplements, CInit, PTL DEF Spec, ImplementsService, Service!Spec
=============================================================================
