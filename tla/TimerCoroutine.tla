--------------------------- MODULE TimerCoroutine ---------------------------
(***************************************************************************)
(* examples/timer_coroutine.c: timers that count their turns.              *)
(* co_run_all is read as co_run.                                           *)
(***************************************************************************)
EXTENDS Client

CONSTANTS MaxTicks,   \* bound on the ticks and the period of a timer
          MaxElapsed  \* bound on the turns that are recorded

Timers == 1 .. Limit

VARIABLES ticks, period,  \* timer_cfg_t of each timer
          remaining,
          elapsed,        \* the turns each timer has had to tick, and the
          fired           \* ones at which it fired, up to MaxElapsed

own == <<ticks, period, remaining, elapsed, fired>>
vars == <<lib, own>>

Init ==
    /\ ticks \in [Timers -> 0 .. MaxTicks]
    /\ period \in [Timers -> 0 .. MaxTicks]
    /\ Started(Upto(Limit))
    /\ remaining = ticks
    /\ elapsed = [t \in Timers |-> 0]
    /\ fired = [t \in Timers |-> {}]

(* Mutant: a one-shot timer is reloaded too. *)
ReloadedAlways(t) == IF remaining[t] = 0 THEN ticks[t] ELSE remaining[t]

(* The count after the timer has fired, if it had to: a periodic one is    *)
(* reloaded.                                                               *)
Reloaded(t) == IF remaining[t] = 0 THEN period[t] ELSE remaining[t]

(* Mutant: the turn in which a timer fires is not a tick of the next one. *)
LeftLate(t) == IF remaining[t] = 0 THEN period[t] ELSE remaining[t] - 1

(* What remains after the tick of this turn. *)
Left(t) == Reloaded(t) - 1

(* A turn of timer t, up to its co_yield or its end: a timer whose count   *)
(* is used up fires and, if it is periodic, starts the next count at once. *)
timer_coroutine(t) ==
    /\ fired' = [fired EXCEPT ![t] = IF remaining[t] = 0 THEN @ \cup {elapsed[t]} ELSE @]
    /\ Leave(t, Reloaded(t) = 0)
    /\ IF Reloaded(t) = 0
       THEN UNCHANGED <<remaining, elapsed>>
       ELSE /\ remaining' = [remaining EXCEPT ![t] = Left(t)]
            /\ elapsed' = [elapsed EXCEPT ![t] = IF @ < MaxElapsed THEN @ + 1 ELSE @]
    /\ UNCHANGED <<ticks, period>>

Next ==
    \/ Lib!Turn /\ UNCHANGED own
    \/ \E t \in Timers : timer_coroutine(t)

(* The loop of co_run and the bodies never block: the program goes on. *)
Spec == Init /\ [][Next]_vars /\ WF_vars(Next)
-----------------------------------------------------------------------------
(* The moments up to e at which timer t should have fired: after its ticks *)
(* and then every period.                                                  *)
Schedule(t, e) ==
    {m \in 0 .. e : m = ticks[t] \/ (period[t] > 0 /\ m > ticks[t]
                                     /\ (m - ticks[t]) % period[t] = 0)}

(* A timer fires on schedule, and the timers keep time: a timer that goes  *)
(* on is at most one turn ahead of any other that does.                    *)
OnSchedule ==
    /\ \A t \in Timers : elapsed[t] \in 1 .. MaxElapsed - 1 =>
           fired[t] \ {elapsed[t]} = Schedule(t, elapsed[t] - 1)
    /\ \A t, u \in Timers : life[t] # "DONE" /\ life[u] # "DONE" =>
           elapsed[t] <= elapsed[u] + 1

(* "Run the scheduler until all coroutines finish" and "All timers         *)
(* finished" (timer_coroutine.c:90, 94): main's call returns.              *)
TimersFinished == Returned

(* Every timer that is not periodic has returned. *)
OneShotsFinished == \A t \in Timers : period[t] = 0 => life[t] = "DONE"
=============================================================================
