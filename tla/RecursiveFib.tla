---------------------------- MODULE RecursiveFib ----------------------------
(***************************************************************************)
(* examples/recursive_fib.c: a generator that main resumes for each of its *)
(* numbers, and a recursion in which every call is a coroutine.  co_resume *)
(* and co_destroy are not offered by the library; a resumed coroutine runs *)
(* until it yields to its caller or returns.  co_create is the library's,  *)
(* which counts every coroutine ever created.                              *)
(***************************************************************************)
EXTENDS Integers, Sequences

CONSTANTS MAX_COROUTINES,
          MaxN  \* bound on the arguments tried besides main's

Main == [limit |-> 16, calls |-> <<10, 0, 1, 5, 15, 20>>]

NotReady == -1  \* of a Future

VARIABLES limit,    \* how many numbers the generator is to yield
          gen,      \* the generator's a, b and i, and whether it has started
          done,
          printed,  \* the numbers main has printed
          calls,    \* the arguments of run_recursive
          stack,    \* the coroutines that have resumed one another, root
                    \* first: n, the two futures, the children are created
          results,  \* what the calls have returned
          created,  \* S.count
          aborted   \* the assertion of co_create has stopped the process

vars == <<limit, gen, done, printed, calls, stack, results, created, aborted>>

(* main's arguments, or one call for a smaller one.  The generator is the  *)
(* first coroutine.                                                        *)
Init ==
    /\ \E args \in {Main} \cup {[limit |-> n, calls |-> <<n>>] : n \in 0 .. MaxN} :
           limit = args.limit /\ calls = args.calls
    /\ gen = [started |-> FALSE, a |-> 0, b |-> 1, i |-> 0]
    /\ done = FALSE
    /\ printed = << >>
    /\ stack = << >>
    /\ results = << >>
    /\ created = 1
    /\ aborted = FALSE

(* From one co_yield of fib_gen to the next. *)
fib_gen(g) ==
    IF g.started
    THEN [g EXCEPT !.a = g.b, !.b = g.a + g.b, !.i = @ + 1]
    ELSE [g EXCEPT !.started = TRUE]

(* One iteration of run_generator's loop. *)
run_generator ==
    LET g == fib_gen(gen)
    IN  /\ ~done
        /\ gen' = g
        /\ done' = (g.i >= limit)
        /\ printed' = IF g.i < limit THEN Append(printed, g.a) ELSE printed
        /\ UNCHANGED <<limit, calls, stack, results, created, aborted>>

Frame(n) == [n |-> n, f1 |-> NotReady, f2 |-> NotReady, children |-> FALSE]

Running == done /\ ~aborted /\ stack # << >>

Top == stack[Len(stack)]

(* co_create for k coroutines in a row. *)
co_create(k) ==
    /\ aborted' = (created + k > MAX_COROUTINES)
    /\ created' = IF created + k > MAX_COROUTINES THEN MAX_COROUTINES ELSE created + k

(* The next call of run_recursive creates the root and resumes it. *)
run_recursive ==
    /\ done /\ ~aborted
    /\ stack = << >>
    /\ Len(results) < Len(calls)
    /\ co_create(1)
    /\ stack' = <<Frame(calls[Len(results) + 1])>>
    /\ UNCHANGED <<limit, gen, done, printed, calls, results>>

(* Mutant: fib(2) is not split. *)
IsLeafEarly(n) == n <= 2

IsLeaf(n) == n <= 1

create_children ==
    /\ Running
    /\ ~IsLeaf(Top.n)
    /\ ~Top.children
    /\ co_create(2)
    /\ stack' = [stack EXCEPT ![Len(stack)].children = TRUE]
    /\ UNCHANGED <<limit, gen, done, printed, calls, results>>

Ready(f) == f.f1 # NotReady /\ f.f2 # NotReady

(* A child that is not ready is resumed, the first one first.  It comes    *)
(* back with its result: only a coroutine whose child has come back        *)
(* without one reaches the co_yield of the loop.                           *)
resume_child ==
    /\ Running
    /\ Top.children
    /\ ~Ready(Top)
    /\ stack' = Append(stack, Frame(Top.n - (IF Top.f1 = NotReady THEN 1 ELSE 2)))
    /\ UNCHANGED <<limit, gen, done, printed, calls, results, created, aborted>>

(* Mutant: the first future is added twice. *)
ValueOfFirst(f) == IF IsLeaf(f.n) THEN f.n ELSE f.f1 + f.f1

Value(f) == IF IsLeaf(f.n) THEN f.n ELSE f.f1 + f.f2

(* The parent's frame when its child has posted v. *)
Posted(f, v) == IF f.f1 = NotReady THEN [f EXCEPT !.f1 = v] ELSE [f EXCEPT !.f2 = v]

(* A coroutine posts its result and returns to the one that resumed it. *)
fib_coro_returns ==
    LET rest == SubSeq(stack, 1, Len(stack) - 1)
    IN  /\ Running
        /\ IsLeaf(Top.n) \/ Ready(Top)
        /\ IF rest = << >>
           THEN /\ stack' = << >>
                /\ results' = Append(results, Value(Top))
           ELSE /\ stack' = [rest EXCEPT ![Len(rest)] = Posted(@, Value(Top))]
                /\ UNCHANGED results
        /\ UNCHANGED <<limit, gen, done, printed, calls, created, aborted>>

Next ==
    \/ run_generator
    \/ run_recursive
    \/ create_children
    \/ resume_child
    \/ fib_coro_returns

(* The coroutines never block. *)
Spec == Init /\ [][Next]_vars /\ WF_vars(Next)
-----------------------------------------------------------------------------
(* The Fibonacci numbers, by their definition. *)
Fib[n \in Nat] == IF n <= 1 THEN n ELSE Fib[n - 1] + Fib[n - 2]

(* The first Fibonacci numbers, as a table. *)
FibTable == [n \in 0 .. 16 |-> Fib[n]]

(* The generator prints the sequence, and every call that is answered has  *)
(* the value of the recursion.                                             *)
ResultsCorrect ==
    /\ \A k \in DOMAIN printed : printed[k] = FibTable[k - 1]
    /\ \A k \in DOMAIN results : results[k] = FibTable[calls[k]]

(* main's fib(10) and its "few more values", 0, 1, 5, 610 and 6765, are    *)
(* all computed (recursive_fib.c:170-172).                                 *)
ChecksPrinted == results = <<55, 0, 1, 5, 610, 6765>>

(* No coroutine is created for nothing: fib(n) takes one for each call of  *)
(* the recursion, which is twice the next Fibonacci number less one.       *)
CreatedOnce ==
    Len(calls) = 1 /\ Len(results) = 1 =>
        created = 1 + 2 * FibTable[calls[1] + 1] - 1

(* Every call of main is answered, or the library's limit has stopped the  *)
(* process.                                                                *)
Ended == aborted \/ Len(results) = Len(calls)
=============================================================================
