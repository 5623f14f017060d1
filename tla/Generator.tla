----------------------------- MODULE Generator ------------------------------
(***************************************************************************)
(* examples/generator.c: a coroutine hands Fibonacci numbers to another    *)
(* through a channel of one slot.                                          *)
(***************************************************************************)
EXTENDS Client, SequencesExt

CONSTANT MaxCount  \* bound on FIB_COUNT

Gen == 1
Consumer == 2

VARIABLES fib_count,  \* FIB_COUNT of this run
          ch,         \* the channel
          gen,        \* the generator's i, a and b
          printed,    \* what the consumer has printed
          sum

own == <<fib_count, ch, gen, printed, sum>>
vars == <<lib, own>>

Chan == [value : Nat, ready : BOOLEAN]

Init ==
    /\ Started(Upto(2))
    /\ fib_count \in 0 .. MaxCount
    /\ ch = [value |-> 0, ready |-> FALSE]
    /\ gen = [i |-> 0, a |-> 0, b |-> 1]
    /\ printed = << >>
    /\ sum = 0

(* Mutant: a is overwritten before the sum is formed. *)
AdvanceWithoutTmp(g) == [i |-> g.i + 1, a |-> g.b, b |-> g.b + g.b]

Advance(g) == [i |-> g.i + 1, a |-> g.b, b |-> g.a + g.b]

fib_gen ==
    /\ Leave(Gen, gen.i = fib_count)
    /\ IF gen.i < fib_count /\ ~ch.ready
       THEN /\ ch' = [value |-> gen.a, ready |-> TRUE]
            /\ gen' = Advance(gen)
       ELSE UNCHANGED <<ch, gen>>
    /\ UNCHANGED <<fib_count, printed, sum>>

(* Asked when the slot is empty, or has just been emptied. *)
NoMoreValues == life[Gen] = "DONE"

fib_consumer ==
    /\ Leave(Consumer, NoMoreValues)
    /\ IF ch.ready
       THEN /\ printed' = Append(printed, ch.value)
            /\ sum' = sum + ch.value
            /\ ch' = [ch EXCEPT !.ready = FALSE]
       ELSE UNCHANGED <<printed, sum, ch>>
    /\ UNCHANGED <<fib_count, gen>>

Next == (Lib!Turn /\ UNCHANGED own) \/ fib_gen \/ fib_consumer

(* The loop of co_run and the two bodies never block: the program goes on. *)
Spec == Init /\ [][Next]_vars /\ WF_vars(Next)
-----------------------------------------------------------------------------
Fib[n \in Nat] == IF n < 2 THEN n ELSE Fib[n - 1] + Fib[n - 2]

(* The consumer prints the Fibonacci numbers from F(0) on, none twice and  *)
(* none left out, also when the generator returns right after the last     *)
(* one.                                                                    *)
PrintsTheSequence ==
    /\ ch \in Chan
    /\ IsPrefix(printed, [k \in 1 .. fib_count |-> Fib[k - 1]])
    /\ Returned => Len(printed) = fib_count

(* "Sum: 286" is what the program comes to print (generator.c:9). *)
SumPrinted == Returned /\ sum = 286
=============================================================================
