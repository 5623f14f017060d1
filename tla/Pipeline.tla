------------------------------ MODULE Pipeline ------------------------------
(***************************************************************************)
(* examples/pipeline.c: source, transform and sink, connected by channels  *)
(* of one slot; -1 marks the end of the stream.  co_spawn is read as       *)
(* co_create.                                                              *)
(***************************************************************************)
EXTENDS Client

CONSTANT MaxItems  \* bound on the number of integers the source emits

Source == 1
Transform == 2
Sink == 3

EOF == -1

VARIABLES order,       \* the order in which the stages are created
          n,           \* the length of the stream
          src_to_xfm,  \* the two channels
          xfm_to_snk,
          i,           \* the source's next integer
          held,        \* what the transform has taken in and not passed on
          received,    \* what the sink has taken, without the sentinel
          total

own == <<order, n, src_to_xfm, xfm_to_snk, i, held, received, total>>
vars == <<lib, own>>

Channel == [value : Int, ready : BOOLEAN]

Init ==
    /\ order \in Lib!Orders(1 .. 3)
    /\ Started(order)
    /\ n \in 0 .. MaxItems
    /\ src_to_xfm = [value |-> 0, ready |-> FALSE]
    /\ xfm_to_snk = [value |-> 0, ready |-> FALSE]
    /\ i = 0
    /\ held = << >>
    /\ received = << >>
    /\ total = 0

Full(v) == [value |-> v, ready |-> TRUE]

(* Mutant: the slot is read and not released. *)
TakenKept(c) == c

Taken(c) == [c EXCEPT !.ready = FALSE]

(* What can be read from channel c. *)
Offered(c) == IF c.ready THEN <<c.value>> ELSE << >>

(* Mutant: the last integer is not emitted. *)
AtEndEarly == i + 1 >= n

AtEnd == i >= n

source_fn ==
    /\ Leave(Source, AtEnd /\ ~src_to_xfm.ready)
    /\ IF src_to_xfm.ready
       THEN UNCHANGED <<src_to_xfm, i>>
       ELSE /\ src_to_xfm' = Full(IF AtEnd THEN EOF ELSE i)
            /\ i' = IF AtEnd THEN i ELSE i + 1
    /\ UNCHANGED <<order, n, xfm_to_snk, held, received, total>>

Twice(v) == IF v < 0 THEN EOF ELSE v * 2

(* Mutant: the transform yields between reading and writing. *)
OutputFreeLate == ~xfm_to_snk.ready /\ held # << >>

OutputFree == ~xfm_to_snk.ready

transform_fn ==
    LET item == IF held = << >> THEN Offered(src_to_xfm) ELSE held
        passes == item # << >> /\ OutputFree
    IN  /\ Leave(Transform, passes /\ item = <<EOF>>)
        /\ src_to_xfm' = IF held = << >> THEN Taken(src_to_xfm) ELSE src_to_xfm
        /\ xfm_to_snk' = IF passes THEN Full(Twice(item[1])) ELSE xfm_to_snk
        /\ held' = IF passes THEN << >> ELSE item
        /\ UNCHANGED <<order, n, i, received, total>>

IsEOF(item) == item # << >> /\ item[1] < 0

sink_fn ==
    LET item == Offered(xfm_to_snk)
    IN  /\ Leave(Sink, IsEOF(item))
        /\ xfm_to_snk' = Taken(xfm_to_snk)
        /\ IF item = << >> \/ IsEOF(item)
           THEN UNCHANGED <<received, total>>
           ELSE /\ received' = received \o item
                /\ total' = total + item[1]
        /\ UNCHANGED <<order, n, src_to_xfm, i, held>>

Next ==
    \/ Lib!Turn /\ UNCHANGED own
    \/ source_fn
    \/ transform_fn
    \/ sink_fn

(* The loop of co_run and the bodies never block: the program goes on. *)
Spec == Init /\ [][Next]_vars /\ WF_vars(Next)
-----------------------------------------------------------------------------
(* The integers on their way, oldest first, as the sink will see them. *)
InFlight ==
    LET behind == held \o Offered(src_to_xfm)
    IN  Offered(xfm_to_snk) \o [k \in DOMAIN behind |-> Twice(behind[k])]

(* At every moment the integers received and those in the channels and in  *)
(* the transform's hands are the first ones emitted, doubled, in order:    *)
(* none is overwritten in a slot or read twice.                            *)
NothingLost ==
    /\ src_to_xfm \in Channel /\ xfm_to_snk \in Channel
    /\ received \o SelectSeq(InFlight, LAMBDA v : v >= 0) = [k \in 1 .. i |-> 2 * (k - 1)]

(* The expected output in the header of the example: an integer is emitted *)
(* only when the sink has received the one before.  It takes the order of  *)
(* creation of main; the other properties hold for every order.            *)
OneAtATime == order = Upto(3) => i <= Len(received) + 1

(* When co_run returns, the sum main prints is complete: n (n - 1), which  *)
(* is the 90 of the header for ten integers.                               *)
SumIsComplete == Returned => total = n * (n - 1)
=============================================================================
