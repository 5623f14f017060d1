----------------------------- MODULE FirstFrame -----------------------------
(***************************************************************************)
(* The bytes of a new coroutine's stack: where co_create puts the first    *)
(* frame, and the stack pointer from the first switch to co_entry.         *)
(* Addresses are numbers; a word has eight bytes.                          *)
(***************************************************************************)
EXTENDS Integers

CONSTANTS Stacks,  \* the addresses malloc may return for the stack
          Sizes    \* the sizes asked for

(* malloc's results are aligned for every type; and the first frame takes  *)
(* 16 bytes, which nothing in co_create asks of the size.                  *)
ASSUME StackAssumption ==
    /\ Stacks \subseteq {n \in Nat : n % 16 = 0}
    /\ Sizes \subseteq {n \in Nat : n >= 16}

VARIABLES stack, stack_size,  \* of the new coroutine
          co_word, ret_word,  \* the addresses of the two words of the frame
          rsp,
          rip

frame_vars == <<stack, stack_size, co_word, ret_word, rsp, rip>>

FrameInit ==
    /\ stack \in Stacks
    /\ stack_size \in Sizes
    /\ co_word = 0
    /\ ret_word = 0
    /\ rsp = 0
    /\ rip = "co_create"

(* Mutant: the end of the stack is rounded up. *)
TopRoundedUp == ((stack + stack_size + 15) \div 16) * 16

(* The end of the stack, rounded down to a multiple of 16. *)
Top == ((stack + stack_size) \div 16) * 16

(* The coroutine's address is pushed, then that of co_trampoline; ctx.rsp  *)
(* is where the latter is.                                                 *)
co_create ==
    /\ rip = "co_create"
    /\ co_word' = Top - 8
    /\ ret_word' = Top - 16
    /\ rsp' = Top - 16
    /\ rip' = "co_ctx_switch"
    /\ UNCHANGED <<stack, stack_size>>

(* The ret of the first switch takes the address of co_trampoline. *)
co_ctx_switch ==
    /\ rip = "co_ctx_switch"
    /\ rsp' = rsp + 8
    /\ rip' = "co_trampoline"
    /\ UNCHANGED <<stack, stack_size, co_word, ret_word>>

(* The pop takes the coroutine; the jump pushes nothing. *)
co_trampoline ==
    /\ rip = "co_trampoline"
    /\ rsp' = rsp + 8
    /\ rip' = "co_entry"
    /\ UNCHANGED <<stack, stack_size, co_word, ret_word>>

FrameNext == co_create \/ co_ctx_switch \/ co_trampoline

FrameSpec == FrameInit /\ [][FrameNext]_frame_vars
-----------------------------------------------------------------------------
(* The frame is within the stack; the rsp that co_create stores is "the    *)
(* stack base, aligned to 16 bytes" (docs/memory-model-amd64.md:17); the   *)
(* two pops before co_entry find the words of the frame in turn; and       *)
(* co_entry starts with an empty stack, of which it loses less than 16     *)
(* bytes to the rounding.                                                  *)
FrameInStack ==
    rip # "co_create" =>
        /\ stack <= ret_word /\ ret_word + 8 = co_word /\ co_word + 8 <= stack + stack_size
        /\ rip = "co_ctx_switch" => rsp = ret_word /\ rsp % 16 = 0
        /\ rip = "co_trampoline" => rsp = co_word
        /\ rip = "co_entry" => rsp <= stack + stack_size /\ rsp > stack + stack_size - 16

(* "x86-64 System V ABI context switch" (asm_ctx.S:2): that ABI wants rsp  *)
(* to be 8 below a multiple of 16 when a function is entered, as it is     *)
(* after a call; co_entry is entered by a jump.                            *)
SystemVEntry == rip = "co_entry" => (rsp + 8) % 16 = 0
=============================================================================
