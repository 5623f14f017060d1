------------------------ MODULE ContextsSwitchProofs ------------------------
(***************************************************************************)
(* The inductive invariant of Contexts, what a switch of context does when *)
(* it holds, and that a coroutine that leaves its turn keeps it.           *)
(*                                                                         *)
(* What a switch reaches depends on words written by an earlier switch on  *)
(* another stack, so the invariant says for every coroutine that is not    *)
(* executing what its stack and its context hold.                          *)
(***************************************************************************)
EXTENDS Contexts, TLAPS, FiniteSetTheorems, SequenceTheorems

States == {"unborn", "READY", "RUNNING", "WAITING", "DONE"}

(* The first word co_entry finds on the stack of c. *)
Bottom(label, c) == [ret |-> label, co |-> c]

(* Coroutine c can be switched to: it has not started, or it stopped in a  *)
(* call that its body made.                                                *)
Suspended(c) ==
    /\ ctx[c] = [stack |-> c, top |-> 2, regs |-> kept[c]]
    /\ \/ mem[c][1] = Bottom("nothing", c) /\ mem[c][2] = Address("co_trampoline")
       \/ mem[c][1] = Bottom("co_entry", c) /\ mem[c][2] = Address("body")

(* Where the thread is. *)
InMain == rsp = [stack |-> Main, top |-> 0] /\ running = NULL

InLoop ==
    /\ rsp = [stack |-> Main, top |-> 1] /\ running = NULL
    /\ mem[Main][1] = Address("main")

InBody ==
    /\ running \in Coroutines
    /\ rsp = [stack |-> running, top |-> 1]
    /\ mem[running][1] = Bottom("co_entry", running)
    /\ ctx[Main] = [stack |-> Main, top |-> 2, regs |-> kept[Main]]
    /\ mem[Main][1] = Address("main") /\ mem[Main][2] = Address("resume")

(* The queue holds READY coroutines, each once. *)
QueueReady ==
    /\ queue \in Seq(Coroutines)
    /\ \A i \in 1 .. Len(queue) : state[queue[i]] = "READY"
    /\ \A i, j \in 1 .. Len(queue) : i < j => queue[i] # queue[j]

(* The inductive invariant. *)
CInv ==
    /\ TypeOK
    /\ QueueReady
    /\ rip \in {"main", "loop", "body"}
    /\ rip = "main" => InMain
    /\ rip = "loop" => InLoop
    /\ rip = "body" => InBody
    /\ \A c \in Coroutines :
          /\ state[c] = "RUNNING" <=> rip = "body" /\ running = c
          /\ state[c] = "unborn" => kept[c] = Zero
          /\ state[c] \in {"READY", "WAITING"} => Suspended(c)

(* Main is no coroutine, and every label is one. *)
LEMMA Distinct ==
    /\ Main \notin Coroutines /\ NULL \notin Coroutines
    /\ Main \in Stacks /\ \A c \in Coroutines : c \in Stacks
    /\ Depth = 3 /\ 1 .. Depth = {1, 2, 3}
BY ContextsAssumption DEF Main, NULL, Coroutines, Stacks, Depth

(* Appending a READY coroutine that is not queued yet. *)
LEMMA AppendReady ==
    ASSUME NEW q \in Seq(Coroutines), NEW c \in Coroutines,
           NEW st \in [Coroutines -> States],
           \A i \in 1 .. Len(q) : st[q[i]] = "READY" /\ q[i] # c,
           \A i, j \in 1 .. Len(q) : i < j => q[i] # q[j],
           st[c] = "READY"
    PROVE  /\ Append(q, c) \in Seq(Coroutines)
           /\ \A i \in 1 .. Len(Append(q, c)) : st[Append(q, c)[i]] = "READY"
           /\ \A i, j \in 1 .. Len(Append(q, c)) : i < j => Append(q, c)[i] # Append(q, c)[j]
<1>1. /\ Append(q, c) \in Seq(Coroutines) /\ Len(q) \in Nat
      /\ Len(Append(q, c)) = Len(q) + 1
      /\ Append(q, c)[Len(q) + 1] = c
      /\ \A i \in 1 .. Len(q) : Append(q, c)[i] = q[i]
  BY AppendProperties, LenProperties
<1>2. \A i \in 1 .. Len(q) + 1 : i \in 1 .. Len(q) \/ i = Len(q) + 1
  BY <1>1
<1>3. \A i, j \in 1 .. Len(q) + 1 : i < j => i \in 1 .. Len(q)
  BY <1>1
<1> QED
  BY <1>1, <1>2, <1>3

(* Initially there is only main. *)
LEMMA CInit == Init => CInv
<1> SUFFICES ASSUME Init PROVE CInv
  OBVIOUS
<1>1. Zero \in [CalleeSaved -> Values]
  BY ContextsAssumption DEF Zero
<1>2. Address("nothing") \in Words
  BY DEF Address, Words, Labels, NULL
<1>3. << >> \in Seq(Coroutines) /\ Len(<< >>) = 0
  OBVIOUS
<1>4. TypeOK
  <2>1. ctx \in [Stacks -> [stack : Stacks, top : 0 .. Depth, regs : [CalleeSaved -> Values]]]
    <3>1. [stack |-> Main, top |-> 0, regs |-> Zero] \in
              [stack : Stacks, top : 0 .. Depth, regs : [CalleeSaved -> Values]]
      BY <1>1, Distinct
    <3> QED
      BY <3>1 DEF Init
  <2>2. mem \in [Stacks -> [1 .. Depth -> Words]] /\ kept \in [Stacks -> [CalleeSaved -> Values]]
    BY <1>1, <1>2 DEF Init
  <2>3. rsp \in [stack : Stacks, top : 0 .. Depth]
    BY Distinct DEF Init
  <2> QED
    BY <1>1, <1>3, <2>1, <2>2, <2>3, Zenon DEF Init, TypeOK
<1>5. QueueReady
  BY <1>3 DEF Init, QueueReady
<1> QED
  BY <1>4, <1>5, Distinct DEF Init, CInv, InMain, Stacks

(* A coroutine that executes gives the thread to the loop of co_run: the   *)
(* switch lands after the call in resume, with main's registers.           *)
LEMMA SwitchToLoop ==
    ASSUME CInv, rip = "body", NEW label \in Labels, NEW n \in 0 .. 1,
           co_ctx_switch(running, Main, label, [stack |-> running, top |-> n], running)
    PROVE  /\ running' = NULL /\ rip' = "loop" /\ rsp' = [stack |-> Main, top |-> 1]
           /\ regs' = kept[Main]
           /\ kept' = [kept EXCEPT ![running] = regs]
           /\ ctx' = [ctx EXCEPT ![running] = [stack |-> running, top |-> n + 1, regs |-> regs]]
           /\ mem' = [mem EXCEPT ![running][n + 1] = Address(label)]
<1> DEFINE sp == [stack |-> running, top |-> n]
           at == [stack |-> ctx[Main].stack, top |-> ctx[Main].top - 1]
           called == [mem EXCEPT ![sp.stack][sp.top + 1] = Address(label)]
           popped == called[at.stack][at.top + 1].ret
<1>1. /\ ctx' = [ctx EXCEPT ![running] = [stack |-> sp.stack, top |-> sp.top + 1, regs |-> regs]]
      /\ kept' = [kept EXCEPT ![sp.stack] = regs]
      /\ regs' = ctx[Main].regs /\ rsp' = at
      /\ rip' = Lands(popped)
      /\ running' = IF popped = "resume" THEN NULL ELSE running
      /\ mem' = IF popped = "co_trampoline"
                THEN [called EXCEPT ![at.stack][at.top].ret = "co_entry"] ELSE called
  BY Zenon DEF co_ctx_switch, Loaded
<1>2. running \in Coroutines /\ ctx[Main] = [stack |-> Main, top |-> 2, regs |-> kept[Main]]
      /\ mem[Main][2] = Address("resume") /\ mem \in [Stacks -> [1 .. Depth -> Words]]
  BY DEF CInv, InBody, TypeOK
<1>3. sp.stack = running /\ sp.top = n
  OBVIOUS
<1>4. at = [stack |-> Main, top |-> 1] /\ at.stack = Main /\ at.top = 1 /\ ctx[Main].regs = kept[Main]
  BY <1>2
<1>5. called = [mem EXCEPT ![running][n + 1] = Address(label)]
  BY <1>3, Zenon
<1>6. popped = "resume"
  <2>1. called[Main] = mem[Main]
    BY <1>2, <1>5, Distinct
  <2> HIDE DEF called, at
  <2>2. at.top + 1 = 2
    BY <1>4
  <2> QED
    BY <1>2, <1>4, <2>1, <2>2 DEF Address
<1> HIDE DEF sp, at, called, popped
<1>7. running' = NULL /\ rip' = "loop" /\ mem' = called /\ regs' = kept[Main]
  BY <1>1, <1>4, <1>6 DEF Lands
<1>8. /\ kept' = [kept EXCEPT ![running] = regs]
      /\ ctx' = [ctx EXCEPT ![running] = [stack |-> running, top |-> n + 1, regs |-> regs]]
  BY <1>1, <1>3
<1> QED
  BY <1>1, <1>4, <1>5, <1>7, <1>8, Zenon

(* The loop of co_run gives the thread to a suspended coroutine: the       *)
(* switch lands in its body, with its registers.                           *)
LEMMA SwitchToBody ==
    ASSUME CInv, rip = "loop", NEW c \in Coroutines, Suspended(c),
           co_ctx_switch(Main, c, "resume", rsp, c)
    PROVE  /\ running' = c /\ rip' = "body" /\ rsp' = [stack |-> c, top |-> 1]
           /\ regs' = kept[c]
           /\ kept' = [kept EXCEPT ![Main] = regs]
           /\ ctx' = [ctx EXCEPT ![Main] = [stack |-> Main, top |-> 2, regs |-> regs]]
           /\ mem' \in [Stacks -> [1 .. Depth -> Words]]
           /\ mem'[c][1] = Bottom("co_entry", c)
           /\ mem'[Main][1] = Address("main") /\ mem'[Main][2] = Address("resume")
           /\ \A d \in Coroutines : d # c => mem'[d] = mem[d]
<1> DEFINE at == [stack |-> ctx[c].stack, top |-> ctx[c].top - 1]
           called == [mem EXCEPT ![rsp.stack][rsp.top + 1] = Address("resume")]
           popped == called[at.stack][at.top + 1].ret
<1>1. /\ ctx' = [ctx EXCEPT ![Main] = [stack |-> rsp.stack, top |-> rsp.top + 1, regs |-> regs]]
      /\ kept' = [kept EXCEPT ![rsp.stack] = regs]
      /\ regs' = ctx[c].regs /\ rsp' = at
      /\ rip' = Lands(popped)
      /\ running' = IF popped = "resume" THEN NULL ELSE c
      /\ mem' = IF popped = "co_trampoline"
                THEN [called EXCEPT ![at.stack][at.top].ret = "co_entry"] ELSE called
  BY Zenon DEF co_ctx_switch, Loaded
<1>2. /\ rsp.stack = Main /\ rsp.top + 1 = 2
      /\ mem[Main][1] = Address("main") /\ mem \in [Stacks -> [1 .. Depth -> Words]]
  BY DEF CInv, InLoop, TypeOK
<1>3. /\ called \in [Stacks -> [1 .. Depth -> Words]]
      /\ called[Main][1] = Address("main") /\ called[Main][2] = Address("resume")
      /\ \A d \in Coroutines : called[d] = mem[d]
  <2>1. Address("resume") \in Words
    BY DEF Address, Words, Labels
  <2>2. called = [mem EXCEPT ![Main][2] = Address("resume")]
    BY <1>2, Zenon
  <2> HIDE DEF called
  <2> QED
    BY <1>2, <2>1, <2>2, Distinct
<1>4. at = [stack |-> c, top |-> 1] /\ at.stack = c /\ at.top = 1 /\ at.top + 1 = 2
      /\ ctx[c].regs = kept[c]
  BY DEF Suspended
<1> HIDE DEF called, at
<1>5. /\ rsp' = [stack |-> c, top |-> 1] /\ regs' = kept[c]
      /\ kept' = [kept EXCEPT ![Main] = regs]
      /\ ctx' = [ctx EXCEPT ![Main] = [stack |-> Main, top |-> 2, regs |-> regs]]
      /\ rip' = Lands(mem[c][2].ret)
      /\ running' = IF mem[c][2].ret = "resume" THEN NULL ELSE c
      /\ mem' = IF mem[c][2].ret = "co_trampoline"
                THEN [called EXCEPT ![c][1].ret = "co_entry"] ELSE called
  <2>1. popped = mem[c][2].ret
    BY <1>3, <1>4
  <2> HIDE DEF popped
  <2>2. kept' = [kept EXCEPT ![Main] = regs]
        /\ ctx' = [ctx EXCEPT ![Main] = [stack |-> Main, top |-> 2, regs |-> regs]]
    BY <1>1, <1>2, Zenon
  <2>3. rip' = Lands(mem[c][2].ret)
        /\ running' = IF mem[c][2].ret = "resume" THEN NULL ELSE c
    BY <1>1, <2>1
  <2>4. mem' = IF mem[c][2].ret = "co_trampoline"
               THEN [called EXCEPT ![c][1].ret = "co_entry"] ELSE called
    BY <1>1, <1>4, <2>1, Zenon
  <2> QED
    BY <1>1, <1>4, <2>2, <2>3, <2>4, Zenon
<1>6. CASE mem[c][1] = Bottom("nothing", c) /\ mem[c][2] = Address("co_trampoline")
  <2>1. mem[c][2].ret = "co_trampoline" /\ Lands("co_trampoline") = "body"
    BY <1>6 DEF Address, Lands
  <2>2. called[c][1] = Bottom("nothing", c) /\ Bottom("co_entry", c) \in Words
    BY <1>3, <1>6 DEF Bottom, Words, Labels
  <2>3. [called[c][1] EXCEPT !.ret = "co_entry"] = Bottom("co_entry", c)
    BY <2>2 DEF Bottom
  <2>4. mem' = [called EXCEPT ![c] = [called[c] EXCEPT ![1] = Bottom("co_entry", c)]]
    BY <1>5, <2>1, <2>3, Zenon
  <2>5. called[c] \in [1 .. Depth -> Words] /\ 1 \in 1 .. Depth
    BY <1>3, Distinct
  <2>6. mem'[c] = [called[c] EXCEPT ![1] = Bottom("co_entry", c)] /\ mem'[Main] = called[Main]
        /\ (\A d \in Coroutines : d # c => mem'[d] = called[d])
        /\ mem' \in [Stacks -> [1 .. Depth -> Words]]
    BY <1>3, <2>2, <2>4, <2>5, Distinct
  <2>7. mem'[c][1] = Bottom("co_entry", c) /\ mem'[Main][1] = called[Main][1]
        /\ mem'[Main][2] = called[Main][2]
    BY <2>5, <2>6, Zenon
  <2>8. running' = c /\ rip' = "body"
    BY <1>5, <2>1
  <2> QED
    BY <1>3, <1>5, <2>6, <2>7, <2>8
<1>7. CASE mem[c][1] = Bottom("co_entry", c) /\ mem[c][2] = Address("body")
  <2>1. mem[c][2].ret = "body" /\ Lands("body") = "body"
    BY <1>7 DEF Address, Lands
  <2> QED
    BY <1>3, <1>5, <1>7, <2>1
<1> QED
  BY <1>6, <1>7 DEF Suspended

(* What the executing coroutine leaves behind when it switches: whatever   *)
(* the call did to the states and the queue, nobody's stack is disturbed.  *)
LEMMA LeaveStep ==
    ASSUME CInv, rip = "body", NEW label \in Labels, NEW n \in 0 .. 1,
           co_ctx_switch(running, Main, label, [stack |-> running, top |-> n], running),
           state' \in [Coroutines -> States], state'[running] \notin {"RUNNING", "unborn"},
           n = 0 => state'[running] = "DONE", n = 1 => label = "body",
           \A d \in Coroutines : d # running =>
               /\ state'[d] \in {"READY", "WAITING"} => state[d] \in {"READY", "WAITING"}
               /\ state'[d] = "unborn" => state[d] = "unborn"
               /\ state'[d] = "RUNNING" => state[d] = "RUNNING",
           awaiting' \in [Coroutines -> Coroutines \cup {NULL}],
           QueueReady', UNCHANGED failed
    PROVE  CInv'
<1> DEFINE c == running
           saved == [stack |-> c, top |-> n + 1, regs |-> regs]
<1>1. /\ running' = NULL /\ rip' = "loop" /\ rsp' = [stack |-> Main, top |-> 1]
      /\ regs' = kept[Main] /\ kept' = [kept EXCEPT ![c] = regs]
      /\ ctx' = [ctx EXCEPT ![c] = saved]
      /\ mem' = [mem EXCEPT ![c][n + 1] = Address(label)]
  BY SwitchToLoop
<1>2. c \in Coroutines /\ InBody /\ TypeOK
  BY DEF CInv, InBody
<1>3. n + 1 \in 1 .. Depth /\ n + 1 \in 0 .. Depth /\ Address(label) \in Words
  BY DEF Address, Words, Depth
<1>4. /\ mem' \in [Stacks -> [1 .. Depth -> Words]]
      /\ \A d \in Stacks : d # c => mem'[d] = mem[d]
      /\ mem'[c] = [mem[c] EXCEPT ![n + 1] = Address(label)]
  BY <1>1, <1>2, <1>3, Distinct, Zenon DEF TypeOK
<1>5. /\ ctx' \in [Stacks -> [stack : Stacks, top : 0 .. Depth, regs : [CalleeSaved -> Values]]]
      /\ \A d \in Stacks : d # c => ctx'[d] = ctx[d]
      /\ ctx'[c] = saved
  <2>1. saved \in [stack : Stacks, top : 0 .. Depth, regs : [CalleeSaved -> Values]]
    BY <1>2, <1>3, Distinct DEF TypeOK
  <2> HIDE DEF saved
  <2> QED
    BY <1>1, <1>2, <2>1, Distinct DEF TypeOK
<1>6. /\ kept' \in [Stacks -> [CalleeSaved -> Values]] /\ regs' \in [CalleeSaved -> Values]
      /\ \A d \in Stacks : d # c => kept'[d] = kept[d]
      /\ kept'[c] = regs
  BY <1>1, <1>2, Distinct DEF TypeOK
<1>7. rsp' \in [stack : Stacks, top : 0 .. Depth]
  BY <1>1, Distinct
<1>8. TypeOK'
  BY <1>1, <1>2, <1>4, <1>5, <1>6, <1>7 DEF TypeOK, QueueReady, States
<1>9. InLoop'
  BY <1>1, <1>2, <1>4, Distinct DEF InLoop, InBody
<1>10. ASSUME NEW d \in Coroutines, state'[d] \in {"READY", "WAITING"} PROVE Suspended(d)'
  <2>1. CASE d # c
    <3>1. ctx'[d] = ctx[d] /\ mem'[d] = mem[d] /\ kept'[d] = kept[d]
      BY <1>4, <1>5, <1>6, <2>1, Distinct
    <3>2. Suspended(d)
      BY <1>10, <2>1 DEF CInv
    <3> QED
      BY <3>1, <3>2 DEF Suspended
  <2>2. CASE d = c
    <3>1. n = 1 /\ label = "body"
      BY <1>10, <2>2
    <3>2. saved = [stack |-> c, top |-> 2, regs |-> regs]
      BY <3>1
    <3>3. mem'[c][2] = Address("body") /\ mem'[c][1] = Bottom("co_entry", c)
      BY <1>2, <1>4, <3>1, Distinct DEF TypeOK, InBody
    <3> QED
      BY <1>5, <1>6, <2>2, <3>2, <3>3 DEF Suspended
  <2> QED
    BY <2>1, <2>2
<1>11. ASSUME NEW d \in Coroutines
       PROVE  state'[d] # "RUNNING" /\ (state'[d] = "unborn" => kept'[d] = Zero)
  <2>1. CASE d = c
    BY <2>1
  <2>2. CASE d # c
    BY <1>6, <2>2, Distinct DEF CInv
  <2> QED
    BY <2>1, <2>2
<1> QED
  BY <1>1, <1>8, <1>9, <1>10, <1>11 DEF CInv

(* While a body executes, rsp is the literal of InBody. *)
LEMMA Caller ==
    ASSUME CInv, InApplication, running # NULL
    PROVE  rip = "body" /\ InBody /\ rsp = [stack |-> running, top |-> 1]
           /\ state[running] = "RUNNING" /\ running \in Coroutines
BY DEF CInv, InApplication, InMain, InBody

(* co_yield. *)
LEMMA YieldPreserves == ASSUME CInv, co_yield PROVE CInv'
<1>1. rip = "body" /\ rsp = [stack |-> running, top |-> 1] /\ state[running] = "RUNNING"
      /\ running \in Coroutines
  BY Caller DEF co_yield
<1>2. co_ctx_switch(running, Main, "body", [stack |-> running, top |-> 1], running)
  BY <1>1 DEF co_yield
<1>3. state \in [Coroutines -> States] /\ state' = [state EXCEPT ![running] = "READY"]
      /\ awaiting' \in [Coroutines -> Coroutines \cup {NULL}] /\ UNCHANGED failed
  BY DEF co_yield, CInv, TypeOK, States
<1>4. state' \in [Coroutines -> States] /\ state'[running] = "READY"
      /\ \A d \in Coroutines : d # running => state'[d] = state[d]
  BY <1>1, <1>3 DEF States
<1>5. QueueReady'
  <2>1. queue \in Seq(Coroutines) /\ Len(queue) \in Nat
        /\ \A i \in 1 .. Len(queue) : queue[i] \in Coroutines
    BY LenProperties, ElementOfSeq DEF CInv, QueueReady
  <2>2. \A i \in 1 .. Len(queue) : state'[queue[i]] = "READY" /\ queue[i] # running
    BY <1>1, <1>4, <2>1 DEF CInv, QueueReady
  <2>3. \A i, j \in 1 .. Len(queue) : i < j => queue[i] # queue[j]
    BY DEF CInv, QueueReady
  <2>4. queue' = Append(queue, running)
    BY DEF co_yield
  <2> QED
    BY <1>1, <1>4, <2>1, <2>2, <2>3, <2>4, AppendReady DEF QueueReady
<1>6. "body" \in Labels /\ 1 \in 0 .. 1
  BY DEF Labels
<1> QED
  BY <1>1, <1>2, <1>3, <1>4, <1>5, <1>6, LeaveStep

(* co_await of a coroutine that is not DONE. *)
LEMMA AwaitPreserves == ASSUME CInv, NEW other \in Coroutines, co_await(other) PROVE CInv'
<1>1. rip = "body" /\ rsp = [stack |-> running, top |-> 1] /\ state[running] = "RUNNING"
      /\ running \in Coroutines
  BY Caller DEF co_await
<1>2. co_ctx_switch(running, Main, "body", [stack |-> running, top |-> 1], running)
  BY <1>1 DEF co_await
<1>3. state \in [Coroutines -> States] /\ state' = [state EXCEPT ![running] = "WAITING"]
      /\ awaiting' \in [Coroutines -> Coroutines \cup {NULL}] /\ UNCHANGED failed
  BY DEF co_await, CInv, TypeOK, States
<1>4. state' \in [Coroutines -> States] /\ state'[running] = "WAITING"
      /\ \A d \in Coroutines : d # running => state'[d] = state[d]
  BY <1>1, <1>3 DEF States
<1>5. QueueReady'
  <2>1. \A i \in 1 .. Len(queue) : queue[i] \in Coroutines /\ queue[i] # running
    BY <1>1, ElementOfSeq DEF CInv, QueueReady
  <2> QED
    BY <1>4, <2>1 DEF co_await, CInv, QueueReady
<1>6. "body" \in Labels /\ 1 \in 0 .. 1
  BY DEF Labels
<1> QED
  BY <1>1, <1>2, <1>3, <1>4, <1>5, <1>6, LeaveStep

(* The scan of S.all lists each member of W once. *)
LEMMA ScanLists ==
    ASSUME NEW W \in SUBSET Coroutines, NEW s \in ScanOrder(W)
    PROVE  /\ s \in Seq(Coroutines) /\ s \in [1 .. Cardinality(W) -> W]
           /\ Cardinality(W) \in Nat /\ Len(s) = Cardinality(W)
           /\ \A i \in 1 .. Len(s) : s[i] \in W
           /\ \A i, j \in 1 .. Len(s) : i < j => s[i] # s[j]
           /\ Range(s) = W
<1>1. IsFiniteSet(Coroutines) /\ Coroutines \subseteq Nat
  BY ContextsAssumption, FS_Interval DEF Coroutines
<1>2. IsFiniteSet(W) /\ Cardinality(W) \in Nat
  BY <1>1, FS_Subset, FS_CardinalityType, Zenon
<1>3. s \in [1 .. Cardinality(W) -> W]
      /\ \A i, j \in 1 .. Cardinality(W) : i < j => s[i] < s[j]
  BY DEF ScanOrder
<1>4. s \in Seq(Coroutines) /\ Len(s) = Cardinality(W)
  <2>1. s \in [1 .. Cardinality(W) -> Coroutines]
    BY <1>3
  <2>2. s \in Seq(Coroutines)
    BY <1>2, <2>1, SeqDef
  <2> QED
    BY <1>2, <1>3, <2>2, LenProperties
<1>5. \A i, j \in 1 .. Cardinality(W) : i < j => s[i] # s[j]
  <2>1. \A i \in 1 .. Cardinality(W) : s[i] \in Nat
    BY <1>1, <1>3, Zenon
  <2>2. \A x \in Nat : ~(x < x)
    OBVIOUS
  <2> QED
    BY <1>3, <2>1, <2>2
<1>6. s \in Injection(1 .. Cardinality(W), W)
  <2>1. \A i, j \in 1 .. Cardinality(W) : s[i] = s[j] => i = j
    BY <1>2, <1>5
  <2> QED
    BY <1>3, <2>1 DEF Injection, IsInjective
<1>7. IsFiniteSet(1 .. Cardinality(W)) /\ Cardinality(1 .. Cardinality(W)) = Cardinality(W)
  BY <1>2, FS_Interval
<1>8. s \in Surjection(1 .. Cardinality(W), W)
  BY <1>2, <1>6, <1>7, FS_Injection
<1>9. Range(s) = W
  BY <1>3, <1>8 DEF Surjection, Range
<1> QED
  BY <1>2, <1>3, <1>4, <1>5, <1>9

(* Two lists without repetitions that share no element can be joined. *)
LEMMA ConcatReady ==
    ASSUME NEW q \in Seq(Coroutines), NEW s \in Seq(Coroutines),
           \A i, j \in 1 .. Len(q) : i < j => q[i] # q[j],
           \A i, j \in 1 .. Len(s) : i < j => s[i] # s[j],
           \A i \in 1 .. Len(q), j \in 1 .. Len(s) : q[i] # s[j],
           NEW st \in [Coroutines -> States],
           \A i \in 1 .. Len(q) : st[q[i]] = "READY",
           \A i \in 1 .. Len(s) : st[s[i]] = "READY"
    PROVE  /\ q \o s \in Seq(Coroutines)
           /\ \A i \in 1 .. Len(q \o s) : st[(q \o s)[i]] = "READY"
           /\ \A i, j \in 1 .. Len(q \o s) : i < j => (q \o s)[i] # (q \o s)[j]
<1>1. /\ q \o s \in Seq(Coroutines) /\ Len(q) \in Nat /\ Len(s) \in Nat
      /\ Len(q \o s) = Len(q) + Len(s)
      /\ \A i \in 1 .. Len(q) + Len(s) : (q \o s)[i] = IF i <= Len(q) THEN q[i] ELSE s[i - Len(q)]
  BY ConcatProperties, LenProperties
<1>2. \A i \in 1 .. Len(q) + Len(s) : i <= Len(q) => i \in 1 .. Len(q)
  BY <1>1
<1>3. \A i \in 1 .. Len(q) + Len(s) : ~(i <= Len(q)) => i - Len(q) \in 1 .. Len(s)
  BY <1>1
<1>4. \A i \in 1 .. Len(q) + Len(s) : st[(q \o s)[i]] = "READY"
  BY <1>1, <1>2, <1>3
<1>5. ASSUME NEW i \in 1 .. Len(q) + Len(s), NEW j \in 1 .. Len(q) + Len(s), i < j
      PROVE  (q \o s)[i] # (q \o s)[j]
  <2>1. CASE j <= Len(q)
    BY <1>1, <1>2, <1>5, <2>1
  <2>2. CASE ~(j <= Len(q)) /\ i <= Len(q)
    BY <1>1, <1>2, <1>3, <1>5, <2>2
  <2>3. CASE ~(i <= Len(q))
    <3>1. i - Len(q) \in 1 .. Len(s) /\ j - Len(q) \in 1 .. Len(s) /\ i - Len(q) < j - Len(q)
          /\ ~(j <= Len(q))
      BY <1>1, <1>5, <2>3
    <3> QED
      BY <1>1, <2>3, <3>1, ZenonT(60)
  <2> QED
    BY <2>1, <2>2, <2>3
<1> QED
  BY <1>1, <1>4, <1>5

(* The body of co returned: its co_entry is that of S.running. *)
LEMMA EntryIsRunning ==
    ASSUME CInv, NEW co \in Coroutines, co_entry(co)
    PROVE  /\ co = running /\ rip = "body" /\ state[co] = "RUNNING"
           /\ co_ctx_switch(running, Main, "abort", [stack |-> running, top |-> 0], running)
<1>1. rip = "body" /\ InBody /\ rsp.stack = running /\ rsp.top = 1
  BY DEF co_entry, CInv, InBody
<1>2. mem[running][1] = [ret |-> "co_entry", co |-> co]
  BY <1>1 DEF co_entry
<1>3. co = running
  BY <1>1, <1>2 DEF InBody, Bottom
<1>4. [rsp EXCEPT !.top = @ - 1] = [stack |-> running, top |-> 0]
  BY <1>1 DEF InBody
<1> QED
  BY <1>1, <1>3, <1>4 DEF co_entry, CInv

(* co_entry after the body. *)
LEMMA EntryPreserves == ASSUME CInv, NEW co \in Coroutines, co_entry(co) PROVE CInv'
<1> DEFINE W == Waiters(co)
<1>1. co = running /\ rip = "body" /\ state[co] = "RUNNING"
      /\ co_ctx_switch(running, Main, "abort", [stack |-> running, top |-> 0], running)
  BY EntryIsRunning
<1>2. W \in SUBSET Coroutines /\ co \notin W /\ \A d \in W : state[d] = "WAITING"
  BY <1>1 DEF Waiters
<1>3. PICK s \in ScanOrder(W) : queue' = queue \o s
  BY Zenon DEF co_entry
<1>4. state' = [c \in Coroutines |-> IF c = co THEN "DONE" ELSE IF c \in W THEN "READY" ELSE state[c]]
      /\ awaiting' = [c \in Coroutines |-> IF c \in W THEN NULL ELSE awaiting[c]] /\ UNCHANGED failed
  BY DEF co_entry
<1> HIDE DEF W
<1>5. state \in [Coroutines -> States] /\ awaiting \in [Coroutines -> Coroutines \cup {NULL}]
  BY DEF CInv, TypeOK, States
<1>6. state' \in [Coroutines -> States] /\ awaiting' \in [Coroutines -> Coroutines \cup {NULL}]
  BY <1>4, <1>5 DEF States
<1>7. QueueReady'
  <2>1. queue \in Seq(Coroutines) /\ \A i \in 1 .. Len(queue) : queue[i] \in Coroutines
    BY ElementOfSeq DEF CInv, QueueReady
  <2>2. \A i \in 1 .. Len(queue) : state[queue[i]] = "READY"
    BY DEF CInv, QueueReady
  <2>3. \A i \in 1 .. Len(queue) : queue[i] \notin W /\ queue[i] # co
    BY <1>1, <1>2, <2>2
  <2>4. \A i \in 1 .. Len(queue) : state'[queue[i]] = "READY"
    BY <1>4, <2>1, <2>2, <2>3
  <2>5. s \in Seq(Coroutines) /\ (\A i \in 1 .. Len(s) : s[i] \in W)
        /\ \A i, j \in 1 .. Len(s) : i < j => s[i] # s[j]
    BY <1>2, ScanLists
  <2>6. \A i \in 1 .. Len(s) : state'[s[i]] = "READY"
    BY <1>2, <1>4, <2>5
  <2>7. \A i \in 1 .. Len(queue), j \in 1 .. Len(s) : queue[i] # s[j]
    BY <2>3, <2>5
  <2>8. \A i, j \in 1 .. Len(queue) : i < j => queue[i] # queue[j]
    BY DEF CInv, QueueReady
  <2>9. PICK q : q = queue \o s
    BY Zenon
  <2>10. /\ q \in Seq(Coroutines)
         /\ \A i \in 1 .. Len(q) : state'[q[i]] = "READY"
         /\ \A i, j \in 1 .. Len(q) : i < j => q[i] # q[j]
    BY <1>6, <2>1, <2>4, <2>5, <2>6, <2>7, <2>8, <2>9, ConcatReady, ZenonT(60)
  <2>11. queue' = q
    BY <1>3, <2>9
  <2> QED
    BY <2>10, <2>11 DEF QueueReady
<1>8. "abort" \in Labels /\ 0 \in 0 .. 1 /\ ~(0 = 1)
  BY DEF Labels
<1>9. state'[running] = "DONE"
      /\ \A d \in Coroutines : d # running =>
            /\ state'[d] \in {"READY", "WAITING"} => state[d] \in {"READY", "WAITING"}
            /\ state'[d] = "unborn" => state[d] = "unborn"
            /\ state'[d] = "RUNNING" => state[d] = "RUNNING"
  BY <1>1, <1>2, <1>4
<1> QED
  BY <1>1, <1>4, <1>6, <1>7, <1>8, <1>9, LeaveStep
=============================================================================
