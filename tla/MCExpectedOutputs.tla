------------------------- MODULE MCExpectedOutputs --------------------------
(***************************************************************************)
(* Four programs of examples/ with the parameters of their main, executed  *)
(* one after the other, each a process of its own, and what their comments *)
(* expect of them.  The last one does not end.                             *)
(***************************************************************************)
EXTENDS Integers, Sequences

VARIABLES g_life, g_target, g_turns, g_current, fib_count, ch, g_gen, g_printed, sum,
          p_life, p_target, p_turns, p_current, st, looping, log,
          limit, f_gen, done, f_printed, calls, stack, results, created, aborted,
          t_life, t_target, t_turns, t_current, ticks, period, remaining, elapsed, fired

generator_vars == <<g_life, g_target, g_turns, g_current, fib_count, ch, g_gen, g_printed, sum>>
ping_pong_vars == <<p_life, p_target, p_turns, p_current, st, looping, log>>
fib_vars == <<limit, f_gen, done, f_printed, calls, stack, results, created, aborted>>
timer_vars == <<t_life, t_target, t_turns, t_current, ticks, period, remaining, elapsed, fired>>

vars == <<generator_vars, ping_pong_vars, fib_vars, timer_vars>>

Generator == INSTANCE Generator WITH Limit <- 2, MaxCount <- 12,
    life <- g_life, target <- g_target, turns <- g_turns, current <- g_current,
    gen <- g_gen, printed <- g_printed

PingPong == INSTANCE PingPong WITH Limit <- 2, MaxLimit <- 4,
    life <- p_life, target <- p_target, turns <- p_turns, current <- p_current

RecursiveFib == INSTANCE RecursiveFib WITH MAX_COROUTINES <- 512, MaxN <- 0,
    gen <- f_gen, printed <- f_printed

TimerCoroutine == INSTANCE TimerCoroutine WITH Limit <- 3, MaxTicks <- 5, MaxElapsed <- 7,
    life <- t_life, target <- t_target, turns <- t_turns, current <- t_current

(* FIB_COUNT is 12; ./ping_pong 4; main's arguments; Fast, Slow and Pulse. *)
Init ==
    /\ fib_count = 12 /\ Generator!Init
    /\ PingPong!Init /\ st.limit = 4
    /\ RecursiveFib!Init /\ calls = RecursiveFib!Main.calls
    /\ ticks = <<2, 5, 3>> /\ period = <<2, 0, 3>> /\ TimerCoroutine!Init

Next ==
    \/ Generator!Next /\ UNCHANGED <<ping_pong_vars, fib_vars, timer_vars>>
    \/ /\ Generator!Returned
       /\ PingPong!Next
       /\ UNCHANGED <<generator_vars, fib_vars, timer_vars>>
    \/ /\ Generator!Returned /\ PingPong!Returned
       /\ RecursiveFib!Next
       /\ UNCHANGED <<generator_vars, ping_pong_vars, timer_vars>>
    \/ /\ Generator!Returned /\ PingPong!Returned /\ RecursiveFib!Ended
       /\ TimerCoroutine!Next
       /\ UNCHANGED <<generator_vars, ping_pong_vars, fib_vars>>

(* No program ever blocks outside its coroutines, so it goes on. *)
Spec == Init /\ [][Next]_vars /\ WF_vars(Next)
-----------------------------------------------------------------------------
(* At least one of the four comments describes its program: the generator  *)
(* prints "Sum: 286" (generator.c:9), ping and pong print in turn          *)
(* (ping_pong.c:17-21), recursive_fib.c computes all of its checks (lines  *)
(* 170-172), and the scheduler of timer_coroutine.c runs until all timers  *)
(* have finished (lines 90, 94).                                           *)
SomeOutputAsExpected ==
    <>(\/ Generator!SumPrinted
       \/ PingPong!ExchangesPrinted
       \/ RecursiveFib!ChecksPrinted
       \/ TimerCoroutine!TimersFinished)
=============================================================================
