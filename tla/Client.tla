------------------------------- MODULE Client -------------------------------
(***************************************************************************)
(* The library as the programs of examples/ use it: CoroutineService, with *)
(* coroutines that main has created before it calls co_run.  A client says *)
(* what a coroutine does with its own data from the moment it is given the *)
(* thread until it yields or returns.                                      *)
(***************************************************************************)
EXTENDS Integers, Sequences, FiniteSets

CONSTANT Limit  \* how many coroutines the program may create

VARIABLES life, target, turns, current

Lib == INSTANCE CoroutineService

lib == <<life, target, turns, current>>

(* main has created the coroutines of the sequence order, in this order,   *)
(* and calls co_run.                                                       *)
Started(order) ==
    /\ life = [c \in 1 .. Limit |-> IF \E k \in DOMAIN order : order[k] = c
                                   THEN "READY" ELSE "unborn"]
    /\ target = [c \in 1 .. Limit |-> Lib!None]
    /\ turns = order
    /\ current = Lib!None

(* The coroutines 1 to n, as main creates them. *)
Upto(n) == [c \in 1 .. n |-> c]

(* Coroutine c gives the thread back: it returns if it is done and yields  *)
(* otherwise.                                                              *)
Leave(c, done) == IF done THEN Lib!Finish(c) ELSE Lib!Yield(c)

(* co_run has returned. *)
Returned == current = Lib!None /\ turns = << >>

(* The program ends: no coroutine that main has created yields for ever,   *)
(* so that co_run returns.                                                 *)
Ends == <>Returned
=============================================================================
