---------------------------- MODULE StateMachine ----------------------------
(***************************************************************************)
(* examples/state_machine.c: the states of a connection are coroutines     *)
(* that resume one another.  co_resume, which the library does not offer,  *)
(* runs a coroutine until it yields to its caller or returns; resuming one *)
(* that has returned does nothing.  The queue is a sequence: at most four  *)
(* events are in its 16 slots.                                             *)
(***************************************************************************)
EXTENDS Integers, Sequences, TLC

Events == {"SYN", "SYN_ACK", "FIN", "RESET", "DATA"}

States == {"syn_sent", "established", "closing"}

VARIABLES script,   \* what the pump pushes before it resumes syn_sent: SYN and
                    \* SYN_ACK in the code, any two events here
          g_queue,
          chain,    \* the coroutines that have resumed one another, last
                    \* the one that executes
          pc,       \* of each coroutine
          g_bytes_transferred

vars == <<script, g_queue, chain, pc, g_bytes_transferred>>

Init ==
    /\ script \in [1 .. 2 -> Events]
    /\ g_queue = << >>
    /\ chain = <<"pump">>
    /\ pc = [c \in States |-> "fresh"] @@ [c \in {"pump"} |-> 1]
    /\ g_bytes_transferred = 0

Running(c) == chain # << >> /\ chain[Len(chain)] = c

GiveBack == chain' = SubSeq(chain, 1, Len(chain) - 1)

co_resume(c) == chain' = IF pc[c] = "returned" THEN chain ELSE Append(chain, c)

(* queue_pop, EVT_NONE on an empty queue, and the queue it leaves. *)
Popped == IF g_queue = << >> THEN "NONE" ELSE Head(g_queue)
Rest == IF g_queue = << >> THEN << >> ELSE Tail(g_queue)

At(c, p) == Running(c) /\ pc[c] = p
Goto(c, p) == pc' = [pc EXCEPT ![c] = p]

(* The first turn of every state coroutine ends in its first co_yield. *)
enter(c) ==
    /\ At(c, "fresh")
    /\ Goto(c, "waiting")
    /\ GiveBack
    /\ UNCHANGED <<script, g_queue, g_bytes_transferred>>

(* A coroutine that has resumed its successor returns after it. *)
returns(c) ==
    /\ At(c, "returning")
    /\ Goto(c, "returned")
    /\ GiveBack
    /\ UNCHANGED <<script, g_queue, g_bytes_transferred>>

(* Round the loop to the next co_yield. *)
Stay == GiveBack /\ UNCHANGED pc

Successor(c) == IF c = "syn_sent" THEN "established" ELSE "closing"

HandOver(c) == co_resume(Successor(c)) /\ Goto(c, "returning")

state_syn_sent ==
    /\ At("syn_sent", "waiting")
    /\ g_queue' = IF Popped = "SYN_ACK" THEN Append(Rest, "DATA") ELSE Rest
    /\ CASE Popped = "SYN_ACK" -> HandOver("syn_sent")
         [] Popped = "RESET"   -> Goto("syn_sent", "returned") /\ GiveBack
         [] OTHER              -> Stay
    /\ UNCHANGED <<script, g_bytes_transferred>>

state_established ==
    LET bytes == g_bytes_transferred + (IF Popped = "DATA" THEN 512 ELSE 0)
        complete == Popped = "DATA" /\ bytes >= 1024
    IN  /\ At("established", "waiting")
        /\ g_bytes_transferred' = bytes
        /\ g_queue' = IF complete THEN Append(Rest, "FIN")
                      ELSE IF Popped = "DATA" THEN Append(Rest, "DATA") ELSE Rest
        /\ CASE complete \/ Popped = "FIN" -> HandOver("established")
             [] Popped = "RESET"           -> Goto("established", "returned") /\ GiveBack
             [] OTHER                      -> Stay
        /\ UNCHANGED script

state_closing ==
    /\ At("closing", "waiting")
    /\ Goto("closing", "returned")
    /\ GiveBack
    /\ UNCHANGED <<script, g_queue, g_bytes_transferred>>

(* The pump resumes syn_sent after each of its two events, and then the    *)
(* two other states.                                                       *)
event_pump ==
    LET k == pc["pump"]
    IN  /\ Running("pump")
        /\ g_queue' = IF k <= 2 THEN Append(g_queue, script[k]) ELSE g_queue
        /\ Goto("pump", k + 1)
        /\ IF k = 5 THEN GiveBack
           ELSE co_resume(<<"syn_sent", "syn_sent", "established", "closing">>[k])
        /\ UNCHANGED <<script, g_bytes_transferred>>

Next ==
    \/ event_pump
    \/ \E c \in States : enter(c) \/ returns(c)
    \/ state_syn_sent
    \/ state_established
    \/ state_closing

(* The coroutines never block. *)
Spec == Init /\ [][Next]_vars /\ WF_vars(Next)
-----------------------------------------------------------------------------
(* The pump has returned; no state keeps the thread. *)
Ended == chain = << >>
=============================================================================
