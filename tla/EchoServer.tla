----------------------------- MODULE EchoServer -----------------------------
(***************************************************************************)
(* examples/echo_server.c: every connection is a coroutine that yields     *)
(* before it reads a message and after it has echoed it.                   *)
(***************************************************************************)
EXTENDS Client

CONSTANT MaxMessages  \* bound on MAX_MESSAGES

Conns == 1 .. Limit

VARIABLES MAX_MESSAGES,  \* of this run
          order,         \* the order in which main creates the connections
          seq,           \* of each connection
          reading,       \* the connections that have yielded before sim_read
          echoed         \* the messages written to each connection

own == <<MAX_MESSAGES, order, seq, reading, echoed>>
vars == <<lib, own>>

Init ==
    /\ MAX_MESSAGES \in 0 .. MaxMessages
    /\ \E n \in 1 .. Limit : order \in Lib!Orders(1 .. n)
    /\ Started(order)
    /\ seq = [c \in Conns |-> 0]
    /\ reading = {}
    /\ echoed = [c \in Conns |-> << >>]

(* What sim_read finds in the receive buffer: the name of the connection   *)
(* and the number of the message.                                          *)
sim_read(c) == <<c, seq[c]>>

sim_write(c, data) == echoed' = [echoed EXCEPT ![c] = Append(@, data)]

(* Mutant: the last message is left out. *)
MoreEarly(n) == n < MAX_MESSAGES

More(n) == n <= MAX_MESSAGES

(* A turn that begins a message, or ends the loop and the coroutine. *)
next_message(c) ==
    /\ c \notin reading
    /\ seq' = [seq EXCEPT ![c] = @ + 1]
    /\ Leave(c, ~More(seq[c] + 1))
    /\ reading' = IF More(seq[c] + 1) THEN reading \cup {c} ELSE reading
    /\ UNCHANGED <<MAX_MESSAGES, order, echoed>>

(* Mutant: a connection goes on to its next message. *)
FlushAtOnce(c) == current = c /\ UNCHANGED lib

(* The yield while the output is flushed. *)
Flush(c) == Lib!Yield(c)

(* A turn that reads the message and echoes it. *)
echo(c) ==
    /\ c \in reading
    /\ sim_write(c, sim_read(c))
    /\ reading' = reading \ {c}
    /\ Flush(c)
    /\ UNCHANGED <<MAX_MESSAGES, order, seq>>

handle_connection(c) == next_message(c) \/ echo(c)

Next ==
    \/ Lib!Turn /\ UNCHANGED own
    \/ \E c \in Conns : handle_connection(c)

(* The loop of co_run and the bodies never block: the program goes on. *)
Spec == Init /\ [][Next]_vars /\ WF_vars(Next)
-----------------------------------------------------------------------------
(* How many turns of handle_connection c has had. *)
Progress(c) == 2 * seq[c] - (IF c \in reading \/ life[c] = "DONE" THEN 1 ELSE 0)

(* "[Y]ields so other connections can make progress" (echo_server.c:7-8):  *)
(* no connection is more than one turn ahead of another.                   *)
InStep ==
    \A c, d \in {e \in Conns : life[e] # "unborn"} :
        Progress(c) <= Progress(d) + 1

(* Every connection has had all its messages echoed, its own ones and in   *)
(* order, when it is closed.                                               *)
AllEchoed ==
    \A c \in Conns : life[c] = "DONE" => echoed[c] = [k \in 1 .. MAX_MESSAGES |-> <<c, k>>]
=============================================================================
