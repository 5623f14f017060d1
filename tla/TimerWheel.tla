----------------------------- MODULE TimerWheel -----------------------------
(***************************************************************************)
(* examples/timer_wheel.c: timers from a fixed pool hang in the slots of a *)
(* wheel; a tick visits one slot, fires the timers whose laps are used up  *)
(* and takes a lap off the others.  The order of a slot's list only says   *)
(* which of several callbacks of one tick is tried first, so a slot is a   *)
(* set here.  A callback that is started runs to its end within the tick   *)
(* (co_run) and adds no timer.  The mask of the code is the remainder:     *)
(* WHEEL_SLOTS is a power of two.                                          *)
(***************************************************************************)
EXTENDS Integers, FiniteSets

CONSTANTS WHEEL_SLOTS, MAX_TIMERS,
          MAX_COROUTINES,  \* how many coroutines the library ever creates
          MaxDelay,        \* bound on the delay of a timer
          MaxTick          \* bound on the number of ticks

ASSUME WheelAssumption == WHEEL_SLOTS \in Nat \ {0}

ASSUME BoundsAssumption == MaxDelay \in Nat /\ MAX_TIMERS \in Nat

Timers == 1 .. MAX_TIMERS

Never == -1  \* the callback has not run

VARIABLES g_current_tick,
          g_wheel,  \* the timers in each slot
          active,   \* the timers of the pool that are in use
          laps,     \* remaining_laps of each timer
          created,  \* the library's S.count
          halted,   \* the assertion of co_create has stopped the process
          added,    \* not in the code, for the properties: when each timer
          delay,    \* was added last and with which delay, the tick at which
          ran,      \* its callback ran, and the timers for which co_create
          refused   \* answered NULL

wheel_vars == <<g_current_tick, g_wheel, active, laps, created, halted,
                added, delay, ran, refused>>

WheelInit ==
    /\ g_current_tick = 0
    /\ g_wheel = [s \in 0 .. WHEEL_SLOTS - 1 |-> {}]
    /\ active = {}
    /\ laps = [t \in Timers |-> 0]
    /\ created = 0
    /\ halted = FALSE
    /\ added = [t \in Timers |-> 0]
    /\ delay = [t \in Timers |-> 0]
    /\ ran = [t \in Timers |-> Never]
    /\ refused = {}

Slot(tick) == tick % WHEEL_SLOTS

(* The first entry of the pool that is not in use. *)
timer_alloc(t) ==
    /\ t \in Timers \ active
    /\ \A u \in Timers \ active : t <= u

(* Mutant: a started lap counts as a whole one. *)
LapsRoundedUp(d) == (d + WHEEL_SLOTS - 1) \div WHEEL_SLOTS

Laps(d) == d \div WHEEL_SLOTS

(* With an exhausted pool the call fails and changes nothing. *)
add_timer(d) ==
    \E t \in Timers :
        /\ ~halted
        /\ timer_alloc(t)
        /\ active' = active \cup {t}
        /\ g_wheel' = [g_wheel EXCEPT ![Slot(g_current_tick + d)] = @ \cup {t}]
        /\ laps' = [laps EXCEPT ![t] = Laps(d)]
        /\ added' = [added EXCEPT ![t] = g_current_tick]
        /\ delay' = [delay EXCEPT ![t] = d]
        /\ ran' = [ran EXCEPT ![t] = Never]
        /\ refused' = refused \ {t}
        /\ UNCHANGED <<g_current_tick, created, halted>>

(* Mutant: a timer on its last lap fires. *)
ExpiredEarly(s) == {t \in g_wheel[s] : laps[t] <= 1}

(* The timers of the slot whose callbacks are tried when it is visited. *)
Expired(s) == {t \in g_wheel[s] : laps[t] = 0}

(* The callbacks of run are started and run to their end.  For the timers  *)
(* of no co_create finds no memory: they leave the wheel and the pool all  *)
(* the same.  The loop gets through the expired timers, or is stopped by   *)
(* the assertion of co_create in the middle of them.                       *)
wheel_tick ==
    LET s == Slot(g_current_tick + 1)
    IN  \E run \in SUBSET Expired(s), no \in SUBSET Expired(s) :
            /\ ~halted
            /\ run \cap no = {}
            /\ g_current_tick < MaxTick
            /\ created + Cardinality(run) <= MAX_COROUTINES
            /\ halted' = (run \cup no # Expired(s))
            /\ halted' => created + Cardinality(run) = MAX_COROUTINES
            /\ created' = created + Cardinality(run)
            /\ g_current_tick' = g_current_tick + 1
            /\ g_wheel' = [g_wheel EXCEPT ![s] = @ \ (run \cup no)]
            /\ active' = active \ (run \cup no)
            /\ laps' = [t \in Timers |-> IF t \in g_wheel[s] \ Expired(s)
                                         THEN laps[t] - 1 ELSE laps[t]]
            /\ ran' = [t \in Timers |-> IF t \in run THEN g_current_tick + 1 ELSE ran[t]]
            /\ refused' = refused \cup no
            /\ UNCHANGED <<added, delay>>

WheelNext ==
    \/ \E d \in 0 .. MaxDelay : add_timer(d)
    \/ wheel_tick

WheelSpec == WheelInit /\ [][WheelNext]_wheel_vars
-----------------------------------------------------------------------------
(* The tick for which add_timer was asked. *)
Due(t) == added[t] + delay[t]

(* The delay is zero or some laps of the wheel. *)
WholeLaps(t) == Slot(delay[t]) = 0

(* The entries of a slot's list are the timers in use that are due there,   *)
(* so that none is lost by add_timer and wheel_tick and none hangs there    *)
(* after it was given back to the pool; and the wheel is not past the tick  *)
(* of any of them, unless its delay was of whole laps (AfterDelay).         *)
NoneOverdue ==
    ~halted =>
        /\ \A s \in 0 .. WHEEL_SLOTS - 1 : g_wheel[s] = {t \in active : Slot(Due(t)) = s}
        /\ \A t \in active : WholeLaps(t) \/ g_current_tick < Due(t)

(* The callback of a timer whose delay is not of whole laps runs when       *)
(* `delay` ticks have passed and at no other time, and the timer leaves the *)
(* pool only by that, or because co_create had no memory for the callback,  *)
(* which is then dropped without a word (lines 110-117).                    *)
FiresWhenDue ==
    \A t \in Timers : WholeLaps(t) \/
        /\ t \in active => ran[t] = Never
        /\ t \notin active => ran[t] = Due(t) \/ (ran[t] = Never /\ t \in refused)

(* "schedule a one-shot callback after `delay` ticks" (timer_wheel.c:68),   *)
(* asked of positive delays only.                                           *)
AfterDelay == \A t \in Timers : ran[t] # Never /\ delay[t] > 0 => ran[t] = Due(t)
=============================================================================
