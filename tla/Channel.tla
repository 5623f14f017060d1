------------------------------ MODULE Channel -------------------------------
(***************************************************************************)
(* examples/channel.c: a bounded channel whose two ends block.  The        *)
(* program calls co_self and co_wake, which the library does not offer;    *)
(* what co_yield then means is not settled by the code.  Both readings are *)
(* modelled: a coroutine that yields takes its next turn as in the library *)
(* (co_wake has nothing to do), or it is parked until somebody wakes it.   *)
(***************************************************************************)
EXTENDS Client, Ring

CONSTANTS MaxCap,   \* bound on CHAN_CAP
          MaxItems  \* bound on N_ITEMS

Producer == 1
Consumer == 2

VARIABLES CHAN_CAP, N_ITEMS,  \* of this run
          parks,     \* the reading of co_yield
          chan,      \* the ring buffer of the channel
          sender, receiver,  \* the parked coroutines, or None
          closed,
          sent,      \* the producer's i
          got        \* the values the consumer has received

cfg == <<CHAN_CAP, N_ITEMS, parks>>
own == <<cfg, chan, sender, receiver, closed, sent, got>>
vars == <<lib, own>>

(* main creates the producer first; the other order is checked as well. *)
Init ==
    /\ CHAN_CAP \in 1 .. MaxCap
    /\ N_ITEMS \in 0 .. MaxItems
    /\ parks \in BOOLEAN
    /\ \E order \in Lib!Orders({Producer, Consumer}) : Started(order)
    /\ chan = EmptyRing(CHAN_CAP)
    /\ sender = Lib!None
    /\ receiver = Lib!None
    /\ closed = FALSE
    /\ sent = 0
    /\ got = << >>

(* co_yield in a loop that waits for the other end. *)
Block(c) ==
    IF parks
    THEN /\ current = c
         /\ life' = [life EXCEPT ![c] = "WAITING"]
         /\ current' = Lib!None
         /\ UNCHANGED <<target, turns>>
    ELSE Lib!Yield(c)

(* co_wake(w), if there is a w; the caller goes on. *)
co_wake(w) ==
    /\ IF w # Lib!None /\ life[w] = "WAITING"
       THEN /\ life' = [life EXCEPT ![w] = "READY"]
            /\ turns' = Append(turns, w)
       ELSE UNCHANGED <<life, turns>>
    /\ UNCHANGED <<target, current>>

(* Mutant: the channel takes one item more than it has room for. *)
MustWaitLate == chan.size = CHAN_CAP + 1 /\ ~closed

(* The sender's condition to wait. *)
MustWait == chan.size = CHAN_CAP /\ ~closed

(* One call of chan_send by the producer; nobody else closes the channel,  *)
(* so its abort is not reached.                                            *)
chan_send ==
    /\ current = Producer
    /\ sent < N_ITEMS
    /\ IF MustWait
       THEN /\ sender' = Producer
            /\ Block(Producer)
            /\ UNCHANGED <<chan, receiver, sent>>
       ELSE /\ chan' = Put(chan, CHAN_CAP, sent)
            /\ receiver' = Lib!None
            /\ co_wake(receiver)
            /\ sent' = sent + 1
            /\ UNCHANGED sender
    /\ UNCHANGED <<cfg, closed, got>>

Drained == chan.size = 0 /\ closed

(* One call of chan_recv by the consumer, which returns at the end. *)
chan_recv ==
    /\ current = Consumer
    /\ IF Drained
       THEN Lib!Finish(Consumer) /\ UNCHANGED <<chan, sender, receiver, got>>
       ELSE IF chan.size = 0
       THEN /\ receiver' = Consumer
            /\ Block(Consumer)
            /\ UNCHANGED <<chan, sender, got>>
       ELSE /\ got' = Append(got, Oldest(chan))
            /\ chan' = Drop(chan, CHAN_CAP)
            /\ sender' = Lib!None
            /\ co_wake(sender)
            /\ UNCHANGED receiver
    /\ UNCHANGED <<cfg, closed, sent>>

(* Mutant: closing wakes nobody. *)
WokenByCloseNobody == Lib!None

WokenByClose == receiver

chan_close ==
    /\ current = Producer
    /\ sent = N_ITEMS
    /\ ~closed
    /\ closed' = TRUE
    /\ receiver' = Lib!None
    /\ co_wake(WokenByClose)
    /\ UNCHANGED <<cfg, chan, sender, sent, got>>

producer_returns ==
    /\ closed
    /\ Lib!Finish(Producer)
    /\ UNCHANGED own

Next ==
    \/ Lib!Turn /\ UNCHANGED own
    \/ chan_send
    \/ chan_recv
    \/ chan_close
    \/ producer_returns

(* The loop of co_run goes on while a coroutine is READY. *)
Spec == Init /\ [][Next]_vars /\ WF_vars(Next)
-----------------------------------------------------------------------------
(* What was received, followed by what is buffered, is what was sent, in   *)
(* order, also across the close; the buffer never overflows.               *)
InOrder ==
    /\ got \o Contents(chan, CHAN_CAP) = [k \in 1 .. sent |-> k - 1]
    /\ chan.size <= CHAN_CAP
    /\ life[Consumer] = "DONE" => Len(got) = N_ITEMS

(* No wake-up is lost and none is stale: a parked end is registered and    *)
(* has to wait, and whoever is registered is in its waiting loop.  So      *)
(* co_run does not run out of turns while an end is parked.                *)
NoLostWakeup ==
    /\ life[Producer] = "WAITING" => sender = Producer /\ chan.size = CHAN_CAP
    /\ life[Consumer] = "WAITING" => receiver = Consumer /\ chan.size = 0 /\ ~closed
    /\ sender # Lib!None => sent < N_ITEMS /\ current # Producer
    /\ receiver # Lib!None => ~closed
    /\ Returned => life[Producer] = "DONE" /\ life[Consumer] = "DONE"
=============================================================================
