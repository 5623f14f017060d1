-------------------------- MODULE ProducerConsumer --------------------------
(***************************************************************************)
(* examples/producer_consumer.c: two producers fill a circular buffer that *)
(* two consumers drain, each a number of items fixed beforehand.  co_spawn *)
(* is read as what puts a coroutine in the queue, co_destroy as co_free.   *)
(***************************************************************************)
EXTENDS Client, Ring

CONSTANTS MaxBuf,   \* bound on BUF_SIZE
          MaxItems  \* bound on N_ITEMS

VARIABLES BUF_SIZE, N_ITEMS,  \* of this run
          ring,    \* buf, head, tail and count
          pushed,  \* each producer's i
          total,   \* how many items each consumer is to take
          popped   \* what each consumer has taken

own == <<BUF_SIZE, N_ITEMS, ring, pushed, total, popped>>
vars == <<lib, own>>

Producers == {1, 3}
Consumers == {2, 4}

(* The consumers' totals add up to what is produced; main halves it. *)
Init ==
    /\ \E order \in Lib!Orders(1 .. 4) : Started(order)
    /\ BUF_SIZE \in 1 .. MaxBuf
    /\ N_ITEMS \in 0 .. MaxItems
    /\ ring = EmptyRing(BUF_SIZE)
    /\ pushed = [p \in Producers |-> 0]
    /\ total \in {t \in [Consumers -> 0 .. 2 * N_ITEMS] : t[2] + t[4] = 2 * N_ITEMS}
    /\ popped = [c \in Consumers |-> << >>]

(* Mutant: one slot too many is taken for free. *)
buf_full_late == ring.size = BUF_SIZE + 1

buf_full == ring.size = BUF_SIZE

buf_empty == ring.size = 0

buf_push(val) == ring' = Put(ring, BUF_SIZE, val)

(* Mutant: the index of the oldest item does not move. *)
buf_pop_keeps_head == [ring EXCEPT !.size = @ - 1]

buf_pop == Drop(ring, BUF_SIZE)

producer(p) ==
    /\ Leave(p, pushed[p] = N_ITEMS)
    /\ IF pushed[p] < N_ITEMS /\ ~buf_full
       THEN /\ buf_push(<<p, pushed[p]>>)
            /\ pushed' = [pushed EXCEPT ![p] = @ + 1]
       ELSE UNCHANGED <<ring, pushed>>
    /\ UNCHANGED <<BUF_SIZE, N_ITEMS, total, popped>>

Satisfied(c) == Len(popped[c]) >= total[c]

consumer(c) ==
    /\ Leave(c, Satisfied(c))
    /\ IF ~Satisfied(c) /\ ~buf_empty
       THEN /\ popped' = [popped EXCEPT ![c] = Append(@, Oldest(ring))]
            /\ ring' = buf_pop
       ELSE UNCHANGED <<popped, ring>>
    /\ UNCHANGED <<BUF_SIZE, N_ITEMS, pushed, total>>

Next ==
    \/ Lib!Turn /\ UNCHANGED own
    \/ \E p \in Producers : producer(p)
    \/ \E c \in Consumers : consumer(c)

(* The loop of co_run and the bodies never block: the program goes on. *)
Spec == Init /\ [][Next]_vars /\ WF_vars(Next)
-----------------------------------------------------------------------------
(* The items of producer p in the sequence s, by their number. *)
From(p, s) ==
    LET mine == SelectSeq(s, LAMBDA item : item[1] = p)
    IN  [k \in DOMAIN mine |-> mine[k][2]]

(* Every item pushed is in the buffer or with one consumer, once, and the  *)
(* buffer holds the latest of each producer in the order it pushed them.   *)
NothingLost ==
    \A p \in Producers :
        LET buffered == From(p, Contents(ring, BUF_SIZE))
            taken(c) == From(p, popped[c])
        IN  /\ buffered = [k \in 1 .. Len(buffered) |-> pushed[p] - Len(buffered) + k - 1]
            /\ \A k \in 0 .. pushed[p] - Len(buffered) - 1 :
                   Cardinality({<<c, j>> \in Consumers \X (1 .. 2 * N_ITEMS) :
                                    j <= Len(taken(c)) /\ taken(c)[j] = k}) = 1

(* A consumer meets the items of a producer in the order of production,    *)
(* whatever the other consumer takes in between.                           *)
TakenInOrder ==
    \A c \in Consumers, p \in Producers :
        \A j, k \in DOMAIN From(p, popped[c]) :
            j < k => From(p, popped[c])[j] < From(p, popped[c])[k]
=============================================================================
