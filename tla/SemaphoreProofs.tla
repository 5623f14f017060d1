-------------------------- MODULE SemaphoreProofs ---------------------------
(***************************************************************************)
(* The semaphore of semaphore.c for any number of coroutines and permits.  *)
(***************************************************************************)
EXTENDS Semaphore, TLAPS, FiniteSetTheorems

Places == {"start", "waiting", "inside", "leaving", "done"}

(* The workers that have written the counter. *)
Counted == {c \in Coroutines : pc[c] \in {"leaving", "done"}}

(* The inductive invariant.  With one permit the worker between its read   *)
(* and its write has read the counter as it still is.                      *)
SemInv ==
    /\ max \in Nat /\ count \in Nat /\ g_shared_counter \in Nat
    /\ pc \in [Coroutines -> Places]
    /\ before \in [Coroutines -> Nat]
    /\ count + Cardinality(Holders) = max
    /\ demo # "pool" => \A c \in Coroutines : pc[c] # "inside"
    /\ demo = "pool" /\ max = 1 =>
          /\ g_shared_counter = Cardinality(Counted)
          /\ \A c \in Coroutines : pc[c] = "inside" => before[c] = g_shared_counter

(* Sets of coroutines are finite. *)
LEMMA Finite ==
    ASSUME NEW S \in SUBSET Coroutines
    PROVE  IsFiniteSet(S) /\ Cardinality(S) \in Nat
<1>1. IsFiniteSet(Coroutines)
  BY SemaphoreAssumption, FS_Interval DEF Coroutines
<1> QED
  BY <1>1, FS_Subset, FS_CardinalityType

(* One coroutine more. *)
LEMMA OneMore ==
    ASSUME NEW S \in SUBSET Coroutines, NEW c \in Coroutines, c \notin S
    PROVE  Cardinality(S \cup {c}) = Cardinality(S) + 1
BY Finite, FS_AddElement

(* One coroutine less. *)
LEMMA OneLess ==
    ASSUME NEW S \in SUBSET Coroutines, NEW c \in S
    PROVE  Cardinality(S \ {c}) = Cardinality(S) - 1
BY Finite, FS_RemoveElement

(* Where one coroutine moves, the sets of Holders and Counted change by it *)
(* alone.                                                                  *)
LEMMA Moves ==
    ASSUME pc \in [Coroutines -> Places], NEW c \in Coroutines, NEW p \in Places,
           pc' = [pc EXCEPT ![c] = p]
    PROVE  /\ pc' \in [Coroutines -> Places]
           /\ Holders' = IF p \in {"inside", "leaving"} THEN Holders \cup {c} ELSE Holders \ {c}
           /\ Counted' = IF p \in {"leaving", "done"} THEN Counted \cup {c} ELSE Counted \ {c}
BY DEF Holders, Counted, Places

(* Holders and Counted are sets of coroutines. *)
LEMMA Subsets == Holders \in SUBSET Coroutines /\ Counted \in SUBSET Coroutines
BY DEF Holders, Counted

(* main sets it up. *)
LEMMA SemInit == SemaphoreInit => SemInv
<1> SUFFICES ASSUME SemaphoreInit PROVE SemInv
  OBVIOUS
<1>1. Holders = {} /\ Counted = {}
  BY DEF SemaphoreInit, sem_init, mutex_init, Holders, Counted
<1>2. max \in Nat /\ count \in Nat /\ count = max
  BY SemaphoreAssumption DEF SemaphoreInit, sem_init, mutex_init
<1> QED
  BY <1>1, <1>2, FS_EmptySet DEF SemaphoreInit, sem_init, mutex_init, SemInv, Places

(* A turn that gets the semaphore. *)
LEMMA WaitStep ==
    ASSUME SemInv, NEW c \in Coroutines, sem_wait(c)
    PROVE  SemInv'
<1>1. CASE ~sem_ready
  BY <1>1 DEF SemInv, sem_wait, Holders, Counted
<1>2. CASE sem_ready
  <2> DEFINE p == IF demo = "pool" THEN "inside" ELSE "leaving"
  <2>1. /\ count' = count - 1 /\ pc' = [pc EXCEPT ![c] = p]
        /\ max' = max /\ demo' = demo /\ g_shared_counter' = g_shared_counter
        /\ pc[c] = "waiting" /\ count > 0 /\ p \in {"inside", "leaving"} /\ p \in Places
    BY <1>2 DEF sem_wait, sem_ready, Places
  <2>2. pc' \in [Coroutines -> Places] /\ Holders' = Holders \cup {c}
    BY <2>1, Moves DEF SemInv
  <2>3. c \notin Holders /\ c \notin Counted
    BY <2>1 DEF Holders, Counted
  <2>4. Cardinality(Holders') = Cardinality(Holders) + 1
    BY <2>2, <2>3, OneMore, Subsets
  <2>5. count' \in Nat /\ count' + Cardinality(Holders') = max'
    BY <2>1, <2>4, Finite, Subsets DEF SemInv
  <2>6. before' \in [Coroutines -> Nat]
    BY <1>2 DEF SemInv, sem_wait
  <2>7. CASE demo = "pool"
    <3>1. Counted' = Counted
      <4>1. p \notin {"leaving", "done"} /\ pc \in [Coroutines -> Places]
        BY <2>7 DEF SemInv
      <4>2. Counted' = Counted \ {c}
        BY <2>1, <4>1, Moves
      <4> QED
        BY <2>3, <4>2
    <3>2. before' = [before EXCEPT ![c] = g_shared_counter]
      BY <1>2, <2>7 DEF sem_wait
    <3>3. max = 1 => \A d \in Coroutines : pc'[d] = "inside" => before'[d] = g_shared_counter
      BY <2>1, <2>7, <3>2 DEF SemInv
    <3> QED
      BY <2>1, <2>2, <2>5, <2>6, <2>7, <3>1, <3>3 DEF SemInv
  <2>8. CASE demo # "pool"
    BY <2>1, <2>2, <2>5, <2>6, <2>8 DEF SemInv
  <2> QED
    BY <2>7, <2>8
<1> QED
  BY <1>1, <1>2

(* With one permit no two coroutines hold it. *)
LEMMA OneHolder ==
    ASSUME SemInv, max = 1, NEW c \in Holders, NEW d \in Holders
    PROVE  c = d
<1>1. Cardinality(Holders) \in Nat /\ Cardinality(Holders) <= 1
  BY Finite, Subsets DEF SemInv
<1>2. Cardinality(Holders \ {c}) = Cardinality(Holders) - 1
  BY OneLess, Subsets
<1>3. c \in Coroutines /\ Holders \ {c} \in SUBSET Coroutines
  BY DEF Holders
<1>4. Cardinality(Holders \ {c}) = 0
  BY <1>1, <1>2, <1>3, Finite
<1> QED
  BY <1>3, <1>4, Finite, FS_EmptySet

(* The write of the counter. *)
LEMMA IncrementStep ==
    ASSUME SemInv, NEW c \in Coroutines, increment(c)
    PROVE  SemInv'
<1>1. /\ pc[c] = "inside" /\ pc' = [pc EXCEPT ![c] = "leaving"]
      /\ g_shared_counter' = before[c] + 1
      /\ UNCHANGED <<demo, max, count, before>>
      /\ demo = "pool"
  BY DEF SemInv, increment
<1>2. pc' \in [Coroutines -> Places] /\ Holders' = Holders \cup {c} /\ Counted' = Counted \cup {c}
  BY <1>1, Moves DEF SemInv, Places
<1>3. c \in Holders /\ c \notin Counted
  BY <1>1 DEF Holders, Counted
<1>4. Holders' = Holders
  BY <1>2, <1>3
<1>5. Cardinality(Counted') = Cardinality(Counted) + 1
  BY <1>2, <1>3, OneMore, Subsets
<1>6. ASSUME max = 1 PROVE /\ g_shared_counter' = Cardinality(Counted')
                           /\ \A d \in Coroutines : pc'[d] # "inside"
  <2>1. g_shared_counter' = Cardinality(Counted')
    BY <1>1, <1>5, <1>6 DEF SemInv
  <2>2. \A d \in Coroutines : pc[d] = "inside" => d \in Holders
    BY DEF Holders
  <2>3. \A d \in Coroutines : pc[d] = "inside" => d = c
    BY <1>3, <1>6, <2>2, OneHolder
  <2> QED
    BY <1>1, <2>1, <2>3 DEF SemInv
<1>7. g_shared_counter' \in Nat
  BY <1>1 DEF SemInv
<1> QED
  BY <1>1, <1>2, <1>4, <1>6, <1>7 DEF SemInv

(* The permit is given back: the count is below max then. *)
LEMMA PostStep ==
    ASSUME SemInv, NEW c \in Coroutines, sem_post(c)
    PROVE  SemInv'
<1>1. /\ pc[c] = "leaving" /\ pc' = [pc EXCEPT ![c] = "done"] /\ count' = Posted
      /\ UNCHANGED <<demo, max, before, g_shared_counter>>
  BY DEF sem_post
<1>2. pc' \in [Coroutines -> Places] /\ Holders' = Holders \ {c} /\ Counted' = Counted \cup {c}
  BY <1>1, Moves DEF SemInv, Places
<1>3. c \in Holders /\ c \in Counted
  BY <1>1 DEF Holders, Counted
<1>4. Counted' = Counted
  BY <1>2, <1>3
<1>5. Cardinality(Holders') = Cardinality(Holders) - 1 /\ Cardinality(Holders') \in Nat
  BY <1>2, <1>3, OneLess, Subsets, Finite
<1>6. count' = count + 1
  BY <1>1, <1>5, Finite, Subsets DEF SemInv, Posted
<1>7. count' \in Nat /\ count' + Cardinality(Holders') = max
  BY <1>5, <1>6, Finite, Subsets DEF SemInv
<1>8. \A d \in Coroutines : pc'[d] = "inside" => pc[d] = "inside"
  BY <1>1 DEF SemInv
<1> QED
  BY <1>1, <1>2, <1>4, <1>7, <1>8 DEF SemInv

(* Every step. *)
LEMMA SemStep == SemInv /\ [SemaphoreNext]_semaphore_vars => SemInv'
<1> SUFFICES ASSUME SemInv, [SemaphoreNext]_semaphore_vars PROVE SemInv'
  OBVIOUS
<1>1. CASE UNCHANGED semaphore
  BY <1>1 DEF semaphore, SemInv, Holders, Counted
<1>2. ASSUME NEW c \in Coroutines, start(c) PROVE SemInv'
  <2>1. pc[c] = "start" /\ pc' = [pc EXCEPT ![c] = "waiting"]
        /\ UNCHANGED <<demo, max, count, before, g_shared_counter>>
    BY <1>2 DEF start
  <2>2. pc' \in [Coroutines -> Places] /\ Holders' = Holders /\ Counted' = Counted
    BY <2>1 DEF SemInv, Holders, Counted, Places
  <2> QED
    BY <2>1, <2>2 DEF SemInv
<1> QED
  BY <1>1, <1>2, WaitStep, IncrementStep, PostStep DEF SemaphoreNext, semaphore_vars

(* Permits are neither lost nor invented by sem_wait and sem_post.         *)
THEOREM PermitsAreConserved == SemaphoreSpec => []PermitsConserved
<1>1. SemInv => PermitsConserved
  BY DEF SemInv, PermitsConserved
<1> QED
  BY <1>1, SemInit, SemStep, PTL DEF SemaphoreSpec

(* A semaphore of one permit protects the read and the write of the        *)
(* workers from each other.                                                *)
THEOREM OnePermitExcludes == SemaphoreSpec => []CountsWithOnePermit
<1>1. SemInv => CountsWithOnePermit
  BY DEF SemInv, CountsWithOnePermit, Counted
<1> QED
  BY <1>1, SemInit, SemStep, PTL DEF SemaphoreSpec
=============================================================================
