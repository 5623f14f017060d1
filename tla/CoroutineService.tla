-------------------------- MODULE CoroutineService --------------------------
(***************************************************************************)
(* What the library promises its callers, in terms of coroutines and not   *)
(* of memory: coroutine i is the i-th one created.  It lives from READY to *)
(* DONE and never comes back; the coroutines that are READY take turns in  *)
(* the order in which they became so; an await lasts until the awaited     *)
(* coroutine is DONE.  Where a record is stored, whether it has been freed *)
(* and whether its memory serves another coroutine cannot be seen here.    *)
(***************************************************************************)
EXTENDS Integers, Sequences, FiniteSets, Functions

CONSTANT Limit  \* how many coroutines a process may create

Coroutines == 1 .. Limit

None == 0  \* no coroutine

VARIABLES life,    \* the state of each coroutine
          target,  \* whom a WAITING coroutine waits for
          turns,   \* the READY coroutines, in the order of their turns
          current  \* the coroutine that executes, None in main and scheduler

vars == <<life, target, turns, current>>

Init ==
    /\ life = [c \in Coroutines |-> "unborn"]
    /\ target = [c \in Coroutines |-> None]
    /\ turns = << >>
    /\ current = None

(* Main or the current coroutine creates the next one. *)
Create(c) ==
    /\ life[c] = "unborn"
    /\ \A d \in 1 .. c - 1 : life[d] # "unborn"
    /\ life' = [life EXCEPT ![c] = "READY"]
    /\ turns' = Append(turns, c)
    /\ UNCHANGED <<target, current>>

Turn ==
    /\ current = None
    /\ turns # << >>
    /\ current' = Head(turns)
    /\ turns' = Tail(turns)
    /\ life' = [life EXCEPT ![Head(turns)] = "RUNNING"]
    /\ UNCHANGED target

Yield(c) ==
    /\ current = c
    /\ life' = [life EXCEPT ![c] = "READY"]
    /\ turns' = Append(turns, c)
    /\ current' = None
    /\ UNCHANGED target

Await(c, t) ==
    /\ current = c
    /\ life[t] \in {"READY", "RUNNING", "WAITING"}
    /\ life' = [life EXCEPT ![c] = "WAITING"]
    /\ target' = [target EXCEPT ![c] = t]
    /\ current' = None
    /\ UNCHANGED turns

(* The orders in which the members of W can be given their turns. *)
Orders(W) == {s \in [1 .. Cardinality(W) -> W] : Range(s) = W}

(* Every coroutine that waits for c becomes READY in the step that ends c. *)
Finish(c) ==
    LET W == {d \in Coroutines : life[d] = "WAITING" /\ target[d] = c}
    IN  /\ current = c
        /\ life' = [d \in Coroutines |-> IF d = c THEN "DONE"
                                         ELSE IF d \in W THEN "READY" ELSE life[d]]
        /\ target' = [d \in Coroutines |-> IF d \in W THEN None ELSE target[d]]
        /\ \E s \in Orders(W) : turns' = turns \o s
        /\ current' = None

Next ==
    \/ Turn
    \/ \E c \in Coroutines : Create(c) \/ Yield(c) \/ Finish(c)
    \/ \E c, t \in Coroutines : Await(c, t)

Spec == Init /\ [][Next]_vars
=============================================================================
