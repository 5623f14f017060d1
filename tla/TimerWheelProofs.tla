-------------------------- MODULE TimerWheelProofs --------------------------
(***************************************************************************)
(* When the callbacks of timers run, for every number of slots, of timers, *)
(* of ticks and of coroutines and every delay.                             *)
(***************************************************************************)
EXTENDS TimerWheel, TLAPS

(* The quotient and the remainder by WHEEL_SLOTS. *)
LEMMA DivMod ==
    ASSUME NEW x \in Nat
    PROVE  /\ x \div WHEEL_SLOTS \in Nat
           /\ x % WHEEL_SLOTS \in 0 .. WHEEL_SLOTS - 1
           /\ x = WHEEL_SLOTS * (x \div WHEEL_SLOTS) + (x % WHEEL_SLOTS)
BY WheelAssumption, SMT

(* Multiples of WHEEL_SLOTS less than WHEEL_SLOTS apart are equal. *)
LEMMA Cancel ==
    ASSUME NEW k \in Int, NEW l \in Int, NEW r \in Int,
           -WHEEL_SLOTS < r, r < WHEEL_SLOTS,
           k * WHEEL_SLOTS = l * WHEEL_SLOTS + r
    PROVE  k = l /\ r = 0
<1> DEFINE S == WHEEL_SLOTS
<1>1. S \in Nat /\ S >= 1
  BY WheelAssumption
<1>2. CASE k >= l + 1
  <2>1. k * S >= (l + 1) * S
    BY <1>1, <1>2, SMT
  <2> QED
    BY <2>1, <1>1, SMT
<1>3. CASE k <= l - 1
  <2>1. k * S <= (l - 1) * S
    BY <1>1, <1>3, SMT
  <2> QED
    BY <2>1, <1>1, SMT
<1> QED
  BY <1>1, <1>2, <1>3, SMT

(* Numbers a multiple of WHEEL_SLOTS apart share a slot. *)
LEMMA SlotOfSum ==
    ASSUME NEW n \in Nat, NEW l \in Nat
    PROVE  Slot(n + l * WHEEL_SLOTS) = Slot(n)
<1> DEFINE S == WHEEL_SLOTS
<1>0. S \in Nat /\ S >= 1
  BY WheelAssumption
<1>1. PICK m \in Nat : m = n + l * S
  BY <1>0, SMT
<1>2. PICK q \in Nat : q = n \div S
  BY DivMod
<1>3. PICK p \in Nat : p = m \div S
  BY DivMod
<1>4. n = S * q + (n % S) /\ n % S \in 0 .. S - 1
  BY <1>2, DivMod
<1>5. m = S * p + (m % S) /\ m % S \in 0 .. S - 1
  BY <1>3, DivMod
<1>6. PICK a \in 0 .. S - 1 : a = n % S
  BY <1>4
<1>7. PICK b \in 0 .. S - 1 : b = m % S
  BY <1>5
<1>8. p * S = (q + l) * S + (a - b)
  BY <1>0, <1>1, <1>4, <1>5, <1>6, <1>7, SMT
<1>9. a - b \in Int /\ -S < a - b /\ a - b < S
  BY <1>0
<1>10. a - b = 0
  BY <1>8, <1>9, Cancel
<1> QED
  BY <1>1, <1>6, <1>7, <1>10 DEF Slot

(* Numbers that share a slot are a multiple of WHEEL_SLOTS apart. *)
LEMMA SameSlot ==
    ASSUME NEW n \in Nat, NEW m \in Nat, Slot(n) = Slot(m)
    PROVE  \E k \in Int : m = n + k * WHEEL_SLOTS
<1> DEFINE S == WHEEL_SLOTS
<1>0. S \in Nat /\ S >= 1
  BY WheelAssumption
<1>1. PICK q \in Nat : q = n \div S
  BY DivMod
<1>2. PICK p \in Nat : p = m \div S
  BY DivMod
<1>3. PICK a \in 0 .. S - 1 : a = n % S
  BY DivMod
<1>4. n = S * q + a
  BY <1>1, <1>3, DivMod
<1>5. m = S * p + a
  BY <1>2, <1>3, DivMod DEF Slot
<1>6. m = n + (p - q) * S
  BY <1>0, <1>4, <1>5, SMT
<1> QED
  BY <1>6

(* How far ahead a timer with l laps left is due when the wheel is at n. *)
Ahead(n, l, due) == l * WHEEL_SLOTS < due - n /\ due - n <= l * WHEEL_SLOTS + WHEEL_SLOTS

(* A new timer is put in the slot of its due tick, with the laps that it   *)
(* takes to get there.                                                     *)
LEMMA Placed ==
    ASSUME NEW n \in Nat, NEW d \in Nat, NEW due \in Nat,
           due = n + d + (IF Slot(d) = 0 THEN WHEEL_SLOTS ELSE 0)
    PROVE  Slot(due) = Slot(n + d) /\ Laps(d) \in Nat /\ Ahead(n, Laps(d), due)
<1> DEFINE S == WHEEL_SLOTS
<1>0. S \in Nat /\ S >= 1
  BY WheelAssumption
<1>1. PICK q \in Nat : q = d \div S
  BY DivMod
<1>2. PICK a \in 0 .. S - 1 : a = d % S /\ d = S * q + a
  BY <1>1, DivMod
<1>3. Slot(due) = Slot(n + d)
  <2>1. CASE a = 0
    <3>1. PICK m \in Nat : m = n + d
      OBVIOUS
    <3>2. Slot(m + 1 * S) = Slot(m)
      BY SlotOfSum
    <3>3. due = m + 1 * S
      BY <1>0, <1>2, <2>1, <3>1 DEF Slot
    <3> QED
      BY <3>1, <3>2, <3>3
  <2>2. CASE a # 0
    BY <1>2, <2>2 DEF Slot
  <2> QED
    BY <2>1, <2>2
<1>4. due - n = q * S + (IF a = 0 THEN S ELSE a)
  BY <1>0, <1>2, SMT DEF Slot
<1> QED
  BY <1>0, <1>1, <1>3, <1>4 DEF Laps, Ahead

(* When the wheel comes to the timer's slot it is due, or has whole laps   *)
(* to go; when it comes to another, the timer stays as far ahead.          *)
LEMMA Visited ==
    ASSUME NEW n \in Nat, NEW l \in Nat, NEW due \in Nat, Ahead(n, l, due)
    PROVE  /\ Slot(due) = Slot(n + 1) => due = n + 1 + l * WHEEL_SLOTS
           /\ Slot(due) # Slot(n + 1) => Ahead(n + 1, l, due)
<1> DEFINE S == WHEEL_SLOTS
<1>0. S \in Nat /\ S >= 1
  BY WheelAssumption
<1>1. ASSUME Slot(due) = Slot(n + 1) PROVE due = n + 1 + l * S
  <2>1. PICK k \in Int : due = n + 1 + k * S
    BY <1>1, SameSlot
  <2>2. PICK r \in Int : r = k * S - l * S
    BY <1>0, SMT
  <2>3. -S < r /\ r < S
    BY <1>0, <2>1, <2>2, SMT DEF Ahead
  <2>4. k * S = l * S + r
    BY <1>0, <2>2, SMT
  <2>5. k = l
    BY <2>3, <2>4, Cancel
  <2> QED
    BY <2>1, <2>5
<1>2. ASSUME Slot(due) # Slot(n + 1) PROVE Ahead(n + 1, l, due)
  <2>1. Slot(n + 1 + l * S) = Slot(n + 1)
    BY SlotOfSum
  <2>2. due # n + 1 + l * S
    BY <1>2, <2>1
  <2>3. PICK x \in Int : x = l * S
    BY <1>0, SMT
  <2> QED
    BY <1>0, <2>2, <2>3 DEF Ahead
<1> QED
  BY <1>1, <1>2

(* The tick at which the wheel tries the timer's callback: the one that was *)
(* asked for, or a lap later if the delay is of whole laps, because the     *)
(* slot is first visited after a whole turn and the laps count from there.  *)
Tried(t) == added[t] + delay[t] + (IF Slot(delay[t]) = 0 THEN WHEEL_SLOTS ELSE 0)

(* The callback of a timer in use has not run; that of another one has run  *)
(* at its tick, or was refused, or the timer was never added (delay 0).     *)
Outcome(t) ==
    /\ t \in active => ran[t] = Never
    /\ t \notin active => \/ ran[t] = Tried(t)
                          \/ ran[t] = Never /\ (t \in refused \/ WholeLaps(t))

(* The inductive invariant: until the process is stopped, a timer in use    *)
(* hangs in the slot of its tick, which is as many turns of the wheel ahead *)
(* as it has laps left.                                                     *)
WheelInv ==
    /\ g_current_tick \in Nat
    /\ active \subseteq Timers
    /\ laps \in [Timers -> Int]
    /\ added \in [Timers -> Nat]
    /\ delay \in [Timers -> Nat]
    /\ ran \in [Timers -> Nat \cup {Never}]
    /\ halted \in BOOLEAN
    /\ \A t \in Timers : Outcome(t)
    /\ ~halted =>
          /\ g_wheel = [s \in 0 .. WHEEL_SLOTS - 1 |-> {t \in active : Slot(Tried(t)) = s}]
          /\ \A t \in active : laps[t] \in Nat /\ Ahead(g_current_tick, laps[t], Tried(t))

(* The ticks at which callbacks are tried are natural numbers. *)
LEMMA TriedType ==
    ASSUME WheelInv, NEW t \in Timers
    PROVE  Tried(t) \in Nat
BY WheelAssumption DEF WheelInv, Tried

(* Every tick has a slot of the wheel. *)
LEMMA SlotRange == \A x \in Nat : Slot(x) \in 0 .. WHEEL_SLOTS - 1
BY WheelAssumption DEF Slot

(* A tick keeps WheelInv. *)
LEMMA TickStep ==
    ASSUME WheelInv, wheel_tick
    PROVE  WheelInv'
<1> DEFINE s == Slot(g_current_tick + 1)
           n == g_current_tick
           hung == {t \in active : Slot(Tried(t)) = s}
<1>1. PICK run \in SUBSET Expired(s), no \in SUBSET Expired(s) :
          /\ ~halted
          /\ run \cap no = {}
          /\ halted' = (run \cup no # Expired(s))
          /\ n' = n + 1
          /\ g_wheel' = [g_wheel EXCEPT ![s] = @ \ (run \cup no)]
          /\ active' = active \ (run \cup no)
          /\ laps' = [t \in Timers |-> IF t \in g_wheel[s] \ Expired(s)
                                       THEN laps[t] - 1 ELSE laps[t]]
          /\ ran' = [t \in Timers |-> IF t \in run THEN n + 1 ELSE ran[t]]
          /\ refused' = refused \cup no
          /\ UNCHANGED <<added, delay>>
  BY Zenon DEF wheel_tick
<1>2. n \in Nat /\ n' \in Nat /\ s \in 0 .. WHEEL_SLOTS - 1
  <2>1. n \in Nat /\ n + 1 \in Nat
    BY DEF WheelInv
  <2> QED
    BY <1>1, <2>1, SlotRange
<1>3. g_wheel = [r \in 0 .. WHEEL_SLOTS - 1 |-> {t \in active : Slot(Tried(t)) = r}]
  BY <1>1 DEF WheelInv
<1>4. g_wheel[s] = hung /\ Expired(s) = {t \in hung : laps[t] = 0}
  BY <1>2, <1>3 DEF Expired
<1>5. \A t : Tried(t)' = Tried(t) /\ WholeLaps(t)' = WholeLaps(t)
  BY <1>1 DEF Tried, WholeLaps, Slot
<1>6. ASSUME NEW t \in active
      PROVE  /\ t \in Timers /\ laps[t] \in Nat /\ Tried(t) \in Nat
             /\ Slot(Tried(t)) = s => Tried(t) = n + 1 + laps[t] * WHEEL_SLOTS
             /\ Slot(Tried(t)) # s => Ahead(n + 1, laps[t], Tried(t))
  <2>1. t \in Timers /\ Tried(t) \in Nat /\ laps[t] \in Nat /\ Ahead(n, laps[t], Tried(t))
    BY <1>1, TriedType DEF WheelInv
  <2> QED
    BY <1>2, <2>1, Visited
<1>7. ASSUME NEW t \in Expired(s) PROVE Tried(t) = n + 1 /\ t \in active /\ t \in Timers
  <2>1. t \in active /\ Slot(Tried(t)) = s /\ laps[t] = 0
    BY <1>4
  <2>2. Tried(t) = n + 1 + 0 * WHEEL_SLOTS
    BY <1>6, <2>1
  <2> QED
    BY <1>2, <1>6, <2>1, <2>2, WheelAssumption
<1>8. ASSUME NEW t \in Timers PROVE Outcome(t)'
  <2>1. Outcome(t)
    BY DEF WheelInv
  <2>2. CASE t \in run
    <3>1. t \notin active' /\ ran'[t] = Tried(t)'
      BY <1>1, <1>5, <1>7, <2>2
    <3>2. ran'[t] # Never
      BY <1>1, <1>2, <2>2 DEF Never
    <3> QED
      BY <3>1, <3>2 DEF Outcome
  <2>3. CASE t \in no
    <3>1. t \in active /\ t \notin run /\ t \notin active' /\ t \in refused'
      BY <1>1, <1>7, <2>3
    <3>2. ran'[t] = Never
      BY <1>1, <2>1, <3>1 DEF Outcome
    <3> QED
      BY <3>1, <3>2 DEF Outcome, Never
  <2>4. CASE t \notin run \cup no
    <3>1. ran'[t] = ran[t] /\ (t \in active' <=> t \in active) /\ (t \in refused => t \in refused')
      BY <1>1, <2>4
    <3> QED
      BY <1>5, <2>1, <3>1 DEF Outcome, Never
  <2> QED
    BY <2>2, <2>3, <2>4
<1>9. ASSUME ~halted'
      PROVE  g_wheel' = [r \in 0 .. WHEEL_SLOTS - 1 |-> {t \in active' : Slot(Tried(t))' = r}]
  <2>1. run \cup no = Expired(s)
    BY <1>1, <1>9, Zenon
  <2>2. ASSUME NEW r \in 0 .. WHEEL_SLOTS - 1
        PROVE  g_wheel'[r] = {t \in active' : Slot(Tried(t))' = r}
    <3>1. \A t \in active' : Slot(Tried(t))' = Slot(Tried(t))
      BY <1>5 DEF Slot
    <3>2. g_wheel[r] = {t \in active : Slot(Tried(t)) = r}
      BY <1>3
    <3>3. g_wheel'[r] = IF r = s THEN g_wheel[r] \ Expired(s) ELSE g_wheel[r]
      BY <1>1, <1>3, <2>1, Zenon
    <3>4. Expired(s) = {t \in active : Slot(Tried(t)) = s /\ laps[t] = 0}
      BY <1>4
    <3>5. active' = active \ Expired(s)
      BY <1>1, <2>1
    <3> QED
      BY <3>1, <3>2, <3>3, <3>4, <3>5
  <2>3. g_wheel' = [r \in 0 .. WHEEL_SLOTS - 1 |-> g_wheel'[r]]
    BY <1>1, <1>3, Zenon
  <2> QED
    BY <2>2, <2>3
<1>10. ASSUME ~halted', NEW t \in active'
       PROVE  laps'[t] \in Nat /\ Ahead(n', laps'[t], Tried(t)')
  <2>1. t \in Timers /\ t \in active /\ t \notin Expired(s) /\ Tried(t)' = Tried(t)
    BY <1>1, <1>5, <1>6, <1>10, Zenon
  <2>2. CASE Slot(Tried(t)) = s
    <3>1. laps[t] # 0 /\ laps'[t] = laps[t] - 1
      BY <1>1, <1>4, <2>1, <2>2
    <3>2. PICK l \in Nat : l = laps[t] - 1
      BY <1>6, <2>1, <3>1
    <3>3. Tried(t) = n + 1 + (l + 1) * WHEEL_SLOTS
      BY <1>6, <2>1, <2>2, <3>2
    <3>4. PICK x \in Int : x = l * WHEEL_SLOTS /\ (l + 1) * WHEEL_SLOTS = x + WHEEL_SLOTS
      BY WheelAssumption, SMT
    <3>5. Ahead(n + 1, l, Tried(t))
      BY <1>2, <3>3, <3>4, WheelAssumption DEF Ahead
    <3> QED
      BY <1>1, <2>1, <3>1, <3>2, <3>5
  <2>3. CASE Slot(Tried(t)) # s
    <3>1. laps'[t] = laps[t]
      BY <1>1, <1>4, <2>1, <2>3
    <3> QED
      BY <1>1, <1>6, <2>1, <2>3, <3>1
  <2> QED
    BY <2>2, <2>3
<1>11. /\ active' \subseteq Timers
       /\ added' \in [Timers -> Nat] /\ delay' \in [Timers -> Nat]
       /\ ran' \in [Timers -> Nat \cup {Never}]
  BY <1>1, <1>2 DEF WheelInv
<1>12. laps' \in [Timers -> Int] /\ halted' \in BOOLEAN
  BY <1>1 DEF WheelInv
<1> QED
  BY <1>2, <1>8, <1>9, <1>10, <1>11, <1>12 DEF WheelInv

(* Adding a timer keeps WheelInv. *)
LEMMA AddStep ==
    ASSUME WheelInv, NEW d \in Nat, add_timer(d)
    PROVE  WheelInv'
<1> DEFINE n == g_current_tick
           s == Slot(n + d)
<1>1. PICK t \in Timers : /\ ~halted
                         /\ t \notin active
                         /\ active' = active \cup {t}
                         /\ g_wheel' = [g_wheel EXCEPT ![s] = @ \cup {t}]
                         /\ laps' = [laps EXCEPT ![t] = Laps(d)]
                         /\ added' = [added EXCEPT ![t] = n]
                         /\ delay' = [delay EXCEPT ![t] = d]
                         /\ ran' = [ran EXCEPT ![t] = Never]
                         /\ refused' = refused \ {t}
                         /\ n' = n /\ halted' = halted
  BY Zenon DEF add_timer, timer_alloc
<1>2. n \in Nat /\ n + d \in Nat /\ s \in 0 .. WHEEL_SLOTS - 1
  <2>1. n \in Nat /\ n + d \in Nat
    BY DEF WheelInv
  <2> QED
    BY <2>1, SlotRange
<1>3. \A u \in Timers : u # t => /\ Tried(u)' = Tried(u) /\ laps'[u] = laps[u]
                                 /\ WholeLaps(u)' = WholeLaps(u) /\ ran'[u] = ran[u]
                                 /\ (u \in active' <=> u \in active)
                                 /\ (u \in refused' <=> u \in refused)
  BY <1>1 DEF WheelInv, Tried, WholeLaps, Slot
<1>4. Tried(t)' = n + d + (IF Slot(d) = 0 THEN WHEEL_SLOTS ELSE 0)
  BY <1>1 DEF WheelInv, Tried, Slot
<1>5. Tried(t)' \in Nat
  BY <1>2, <1>4, WheelAssumption
<1>6. Slot(Tried(t)') = s /\ Laps(d) \in Nat /\ Ahead(n, Laps(d), Tried(t)')
  BY <1>2, <1>4, <1>5, Placed
<1>7. /\ laps' \in [Timers -> Int] /\ laps'[t] = Laps(d)
      /\ added' \in [Timers -> Nat] /\ delay' \in [Timers -> Nat]
      /\ ran' \in [Timers -> Nat \cup {Never}] /\ ran'[t] = Never
  BY <1>1, <1>2, <1>6 DEF WheelInv
<1>8. ASSUME NEW u \in Timers PROVE Outcome(u)'
  <2>1. CASE u = t
    BY <1>1, <1>7, <2>1 DEF Outcome, Never
  <2>2. CASE u # t
    BY <1>3, <2>2 DEF WheelInv, Outcome, Never
  <2> QED
    BY <2>1, <2>2
<1>9. g_wheel' = [r \in 0 .. WHEEL_SLOTS - 1 |-> {u \in active' : Slot(Tried(u))' = r}]
  <2>1. ASSUME NEW r \in 0 .. WHEEL_SLOTS - 1
        PROVE  g_wheel'[r] = {u \in active' : Slot(Tried(u))' = r}
    <3>1. g_wheel[r] = {u \in active : Slot(Tried(u)) = r}
      BY <1>1 DEF WheelInv
    <3>2. g_wheel'[r] = IF r = s THEN g_wheel[r] \cup {t} ELSE g_wheel[r]
      BY <1>1, Zenon DEF WheelInv
    <3>3. \A u \in active : u \in Timers /\ u # t
      BY <1>1 DEF WheelInv
    <3>4. \A u \in active : Slot(Tried(u))' = Slot(Tried(u))
      BY <1>3, <3>3 DEF Slot
    <3>5. Slot(Tried(t))' = s
      BY <1>6 DEF Slot
    <3> QED
      BY <1>1, <3>1, <3>2, <3>4, <3>5
  <2>2. g_wheel' = [r \in 0 .. WHEEL_SLOTS - 1 |-> g_wheel'[r]]
    BY <1>1, Zenon DEF WheelInv
  <2> QED
    BY <2>1, <2>2
<1>10. \A u \in active' : laps'[u] \in Nat /\ Ahead(n', laps'[u], Tried(u)')
  <2>1. \A u \in active : u \in Timers /\ u # t /\ laps[u] \in Nat /\ Ahead(n, laps[u], Tried(u))
    BY <1>1 DEF WheelInv
  <2> QED
    BY <1>1, <1>3, <1>6, <1>7, <2>1
<1>11. active' \subseteq Timers /\ halted' \in BOOLEAN /\ n' \in Nat
  BY <1>1, <1>2 DEF WheelInv
<1> QED
  BY <1>7, <1>8, <1>9, <1>10, <1>11 DEF WheelInv

(* Every step keeps WheelInv. *)
LEMMA WheelStep == WheelInv /\ [WheelNext]_wheel_vars => WheelInv'
<1> SUFFICES ASSUME WheelInv, [WheelNext]_wheel_vars
             PROVE  WheelInv'
  OBVIOUS
<1>1. CASE wheel_tick
  BY <1>1, TickStep
<1>2. CASE \E d \in 0 .. MaxDelay : add_timer(d)
  BY <1>2, AddStep, BoundsAssumption
<1>3. CASE UNCHANGED wheel_vars
  <2>1. \A t : Tried(t)' = Tried(t)
    BY <1>3 DEF wheel_vars, Tried, Slot
  <2>2. \A t : Outcome(t)' = Outcome(t)
    BY <1>3, <2>1 DEF wheel_vars, Outcome, WholeLaps, Slot, Never
  <2> QED
    BY <1>3, <2>1, <2>2 DEF wheel_vars, WheelInv, Ahead, Slot, Never
<1> QED
  BY <1>1, <1>2, <1>3 DEF WheelNext

(* The empty wheel satisfies WheelInv. *)
LEMMA WheelStarts == WheelInit => WheelInv
<1> SUFFICES ASSUME WheelInit PROVE WheelInv
  OBVIOUS
<1>1. ASSUME NEW t \in Timers PROVE Outcome(t)
  <2>1. WholeLaps(t)
    BY WheelAssumption DEF WheelInit, WholeLaps, Slot
  <2> QED
    BY <2>1 DEF WheelInit, Outcome
<1>2. g_wheel = [s \in 0 .. WHEEL_SLOTS - 1 |-> {t \in active : Slot(Tried(t)) = s}]
  BY DEF WheelInit
<1>3. /\ g_current_tick \in Nat /\ active \subseteq Timers /\ active = {}
      /\ laps \in [Timers -> Int] /\ added \in [Timers -> Nat] /\ delay \in [Timers -> Nat]
  BY DEF WheelInit
<1>4. halted \in BOOLEAN /\ ran \in [Timers -> Nat \cup {Never}]
  BY Zenon DEF WheelInit
<1> QED
  BY <1>1, <1>2, <1>3, <1>4 DEF WheelInv

(* A timer hangs in the slot of the tick that was asked for, whether or not *)
(* it is tried then or a lap later.                                         *)
LEMMA SlotOfDue ==
    ASSUME WheelInv, NEW t \in Timers
    PROVE  /\ Due(t) \in Nat /\ Slot(Tried(t)) = Slot(Due(t))
           /\ ~WholeLaps(t) => Tried(t) = Due(t)
<1>1. Due(t) \in Nat
  BY DEF WheelInv, Due
<1>2. CASE WholeLaps(t)
  <2>1. PICK m \in Nat : m = Due(t)
    BY <1>1
  <2>2. Slot(m + 1 * WHEEL_SLOTS) = Slot(m)
    BY SlotOfSum
  <2>3. Tried(t) = m + 1 * WHEEL_SLOTS
    BY <1>2, <2>1, WheelAssumption DEF WheelInv, Tried, Due, WholeLaps
  <2> QED
    BY <1>1, <1>2, <2>1, <2>2, <2>3
<1>3. CASE ~WholeLaps(t)
  <2>1. Tried(t) = Due(t)
    BY <1>1, <1>3 DEF WheelInv, Tried, Due, WholeLaps
  <2> QED
    BY <1>1, <2>1
<1> QED
  BY <1>2, <1>3

(* The lists of the wheel hold the timers in use, each where it is due, and *)
(* none whose delay is not of whole laps is overdue.                        *)
THEOREM NoneIsOverdue == WheelSpec => []NoneOverdue
<1>1. ASSUME WheelInv, ~halted PROVE NoneOverdue
  <2>1. ASSUME NEW t \in active PROVE WholeLaps(t) \/ g_current_tick < Due(t)
    <3>1. /\ t \in Timers /\ laps[t] \in Nat /\ g_current_tick \in Nat
          /\ Ahead(g_current_tick, laps[t], Tried(t))
      BY <1>1 DEF WheelInv
    <3>2. Tried(t) \in Nat /\ (~WholeLaps(t) => Tried(t) = Due(t))
      BY <1>1, <3>1, TriedType, SlotOfDue
    <3>3. PICK x \in Nat : x = laps[t] * WHEEL_SLOTS
      BY <3>1, WheelAssumption, SMT
    <3>4. g_current_tick < Tried(t)
      BY <3>1, <3>2, <3>3 DEF Ahead
    <3> QED
      BY <3>2, <3>4
  <2>2. ASSUME NEW s \in 0 .. WHEEL_SLOTS - 1
        PROVE  g_wheel[s] = {t \in active : Slot(Due(t)) = s}
    <3>1. g_wheel[s] = {t \in active : Slot(Tried(t)) = s}
      BY <1>1 DEF WheelInv
    <3>2. \A t \in active : Slot(Tried(t)) = Slot(Due(t))
      BY <1>1, SlotOfDue DEF WheelInv
    <3> QED
      BY <3>1, <3>2
  <2> QED
    BY <2>1, <2>2 DEF NoneOverdue
<1>2. WheelInv => NoneOverdue
  BY <1>1 DEF NoneOverdue
<1>3. WheelInv /\ [WheelNext]_wheel_vars => WheelInv'
  BY WheelStep
<1> QED
  BY <1>2, <1>3, WheelStarts, PTL DEF WheelSpec

(* A callback whose delay is not of whole laps runs when it is due and at   *)
(* no other tick, unless co_create has no memory for it.                    *)
THEOREM TimersFireWhenDue == WheelSpec => []FiresWhenDue
<1>1. ASSUME WheelInv PROVE FiresWhenDue
  <2>1. ASSUME NEW t \in Timers, ~WholeLaps(t)
        PROVE  /\ t \in active => ran[t] = Never
               /\ t \notin active => ran[t] = Due(t) \/ (ran[t] = Never /\ t \in refused)
    <3>1. Outcome(t) /\ Tried(t) = Due(t)
      BY <1>1, <2>1, SlotOfDue DEF WheelInv
    <3> QED
      BY <2>1, <3>1 DEF Outcome
  <2> QED
    BY <2>1 DEF FiresWhenDue
<1>2. WheelInv => FiresWhenDue
  BY <1>1
<1>3. WheelInv /\ [WheelNext]_wheel_vars => WheelInv'
  BY WheelStep
<1> QED
  BY <1>2, <1>3, WheelStarts, PTL DEF WheelSpec
=============================================================================
