-------------------------------- MODULE Ring --------------------------------
(***************************************************************************)
(* The circular buffer that six of the examples carry, each in its own     *)
(* words: an array, the index to read next, the index to write next and    *)
(* the number of items.                                                    *)
(***************************************************************************)
EXTENDS Integers, Sequences

(* An empty buffer of cap slots. *)
EmptyRing(cap) ==
    [buf |-> [k \in 0 .. cap - 1 |-> 0], head |-> 0, tail |-> 0, size |-> 0]

Put(r, cap, v) ==
    [buf |-> [r.buf EXCEPT ![r.tail] = v], head |-> r.head,
     tail |-> (r.tail + 1) % cap, size |-> r.size + 1]

Oldest(r) == r.buf[r.head]

Drop(r, cap) ==
    [buf |-> r.buf, head |-> (r.head + 1) % cap, tail |-> r.tail, size |-> r.size - 1]

(* The items in the buffer, oldest first. *)
Contents(r, cap) == [k \in 1 .. r.size |-> r.buf[(r.head + k - 1) % cap]]
=============================================================================
