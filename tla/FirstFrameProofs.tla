-------------------------- MODULE FirstFrameProofs --------------------------
(***************************************************************************)
(* The first frame lies within its stack and is aligned, for every stack   *)
(* that malloc can return and every size of at least 16 bytes.             *)
(***************************************************************************)
EXTENDS FirstFrame, TLAPS

(* The end of the stack loses less than 16 bytes to the rounding. *)
LEMMA TopIsNear ==
    ASSUME stack \in Stacks, stack_size \in Sizes
    PROVE  /\ Top \in Int /\ Top % 16 = 0 /\ (Top - 16) % 16 = 0
           /\ stack + 16 <= Top
           /\ Top <= stack + stack_size
           /\ stack + stack_size < Top + 16
<1>1. stack \in Nat /\ stack % 16 = 0 /\ stack_size \in Nat /\ stack_size >= 16
  BY StackAssumption
<1>2. PICK x \in Nat : x = stack + stack_size
  BY <1>1
<1>3. x \div 16 \in Int /\ 16 * (x \div 16) <= x /\ x < 16 * (x \div 16) + 16
  BY <1>2, SMT
<1>4. Top = (x \div 16) * 16
  BY <1>2 DEF Top
<1>5. PICK k \in Int : k = x \div 16
  BY <1>3
<1>6. PICK j \in Nat : stack = 16 * j
  BY <1>1, SMT
<1>7. (k * 16) % 16 = 0 /\ (k * 16 - 16) % 16 = 0
  BY <1>5, SMT
<1> QED
  BY <1>1, <1>2, <1>3, <1>4, <1>5, <1>6, <1>7

(* The frame as it is at every stage. *)
FrameInv ==
    /\ stack \in Stacks
    /\ stack_size \in Sizes
    /\ rip \in {"co_create", "co_ctx_switch", "co_trampoline", "co_entry"}
    /\ rip # "co_create" => ret_word = Top - 16 /\ co_word = Top - 8
    /\ rip = "co_ctx_switch" => rsp = Top - 16
    /\ rip = "co_trampoline" => rsp = Top - 8
    /\ rip = "co_entry" => rsp = Top

(* FrameInv is an invariant. *)
THEOREM FrameInvariant == FrameSpec => []FrameInv
<1>1. FrameInit => FrameInv
  BY DEF FrameInit, FrameInv
<1>2. FrameInv /\ [FrameNext]_frame_vars => FrameInv'
  <2> SUFFICES ASSUME FrameInv, [FrameNext]_frame_vars PROVE FrameInv'
    OBVIOUS
  <2>1. Top \in Int
    BY TopIsNear DEF FrameInv
  <2>2. CASE co_create
    BY <2>1, <2>2 DEF FrameInv, co_create, Top
  <2>3. CASE co_ctx_switch
    <3>1. Top' = Top
      BY <2>3 DEF co_ctx_switch, Top
    <3> QED
      BY <2>1, <2>3, <3>1 DEF FrameInv, co_ctx_switch
  <2>4. CASE co_trampoline
    <3>1. Top' = Top
      BY <2>4 DEF co_trampoline, Top
    <3> QED
      BY <2>1, <2>4, <3>1 DEF FrameInv, co_trampoline
  <2>5. CASE UNCHANGED frame_vars
    BY <2>5 DEF FrameInv, Top, frame_vars
  <2> QED
    BY <2>2, <2>3, <2>4, <2>5 DEF FrameNext
<1> QED
  BY <1>1, <1>2, PTL DEF FrameSpec

(* The frame is within the stack, the stored stack pointer is aligned, and *)
(* co_entry starts with an empty stack, of which less than 16 bytes are    *)
(* lost.                                                                   *)
THEOREM FrameIsInStack == FrameSpec => []FrameInStack
<1>1. FrameInv => FrameInStack
  BY TopIsNear, StackAssumption DEF FrameInv, FrameInStack
<1> QED
  BY <1>1, FrameInvariant, PTL

(* At co_entry the stack pointer is a multiple of 16 as well, so it never  *)
(* has the value that the System V ABI asks for: SystemVEntry fails for    *)
(* every stack and every size.                                             *)
THEOREM EntryIsOffByEight == FrameSpec => [](rip = "co_entry" => ~((rsp + 8) % 16 = 0))
<1>1. ASSUME FrameInv, rip = "co_entry" PROVE ~((rsp + 8) % 16 = 0)
  <2>1. rsp \in Int /\ rsp % 16 = 0
    BY <1>1, TopIsNear DEF FrameInv
  <2> QED
    BY <2>1, SMT
<1>2. FrameInv => (rip = "co_entry" => ~((rsp + 8) % 16 = 0))
  BY <1>1
<1> QED
  BY <1>2, FrameInvariant, PTL
=============================================================================
