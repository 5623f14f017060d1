------------------------------ MODULE PingPong ------------------------------
(***************************************************************************)
(* examples/ping_pong.c: two coroutines increment a shared counter until   *)
(* it reaches a limit.                                                     *)
(***************************************************************************)
EXTENDS Client

CONSTANT MaxLimit  \* bound on the limit, 1000000 in parse_limit

Ping == 1
Pong == 2

VARIABLES st,      \* pp_state: counter, limit, done
          looping, \* pong has been in its co_yield
          log      \* who printed 1, 2, ...

own == <<st, looping, log>>
vars == <<lib, own>>

(* main; parse_limit gives a limit between 1 and its maximum. *)
Init ==
    /\ \E limit \in 1 .. MaxLimit : st = [counter |-> 0, limit |-> limit, done |-> FALSE]
    /\ Started(Upto(2))
    /\ looping = FALSE
    /\ log = << >>

Below == st.counter < st.limit

(* Coroutine c increments the counter and prints it. *)
Bump(c) ==
    /\ st' = [st EXCEPT !.counter = @ + 1]
    /\ log' = Append(log, c)

AtLimit == ~Below

ping ==
    /\ Leave(Ping, AtLimit)
    /\ IF Below THEN Bump(Ping) ELSE st' = [st EXCEPT !.done = TRUE] /\ UNCHANGED log
    /\ UNCHANGED looping

(* Mutant: after its yield pong does not look at the counter again. *)
GoesOnUnchecked == looping

(* pong increments: it has yielded since it last looked at the counter. *)
GoesOn == looping /\ Below

(* A turn of pong ends in its co_yield if the condition of its loop holds. *)
pong ==
    /\ IF GoesOn THEN Bump(Pong) ELSE UNCHANGED <<st, log>>
    /\ Leave(Pong, ~(st'.counter < st'.limit /\ ~st'.done))
    /\ looping' = TRUE

Next ==
    \/ Lib!Turn /\ UNCHANGED own
    \/ ping
    \/ pong

(* The loop of co_run and the bodies never block: the program goes on. *)
Spec == Init /\ [][Next]_vars /\ WF_vars(Next)
-----------------------------------------------------------------------------
(* The counter never passes the limit, whoever increments it last, and it  *)
(* has reached it when co_run returns: main prints "done after" the limit. *)
StopsAtLimit ==
    /\ st.counter <= st.limit
    /\ Returned => st.counter = st.limit

(* With a limit of 4 the program comes to print "[ping] 1", "[pong] 2",    *)
(* "[ping] 3" and "[pong] 4" (ping_pong.c:17-21).                          *)
ExchangesPrinted == Returned /\ log = <<Ping, Pong, Ping, Pong>>
=============================================================================
