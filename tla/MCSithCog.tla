------------------------------- MODULE MCSithCog -------------------------------
(* Small levels for SithCog: two cogs, one of which always has a handler that sleeps. *)
EXTENDS SithCog, TLC

CONSTANTS path

Work1 == [op |-> "work"]
Ret1 == [op |-> "ret"]
SleepFor(n) == [op |-> "sleep", ms |-> n]
PulseEvery(n) == [op |-> "pulse", ms |-> n]
TimerIn(n) == [op |-> "timer", ms |-> n]
Tell(c, m) == [op |-> "send", cog |-> c, msg |-> m]

\* A pulse interrupts a sleep; the timer sets itself again; cog 2 answers cog 1.
Level1 == <<
    [code |-> <<PulseEvery(2), SleepFor(2), Tell(2, "m"), Ret1, Work1, Ret1>>,
     trig |-> ("m" :> 1 @@ "pulse" :> 5), here |-> TRUE],
    [code |-> <<TimerIn(1), SleepFor(0), Ret1, TimerIn(2), Ret1>>,
     trig |-> ("m" :> 1 @@ "timer" :> 4), here |-> TRUE] >>

\* A subroutine that sleeps, interrupted by a handler that waits for a thing.
Level2 == <<
    [code |-> <<[op |-> "call", to |-> 3], Ret1, SleepFor(1), Ret1,
                [op |-> "wait", thing |-> path], Work1, Ret1>>,
     trig |-> ("m" :> 1 @@ "timer" :> 5), here |-> TRUE],
    [code |-> <<Tell(1, "timer"), TimerIn(1), Ret1, [op |-> "branch", to |-> 1], TimerIn(0)>>,
     trig |-> ("m" :> 1 @@ "timer" :> 4), here |-> TRUE] >>

\* Two cogs that call each other: the message comes back to a handler in its verb, which
\* goes on sleeping when the answer is over (lost), or at once.
Level3 == <<
    [code |-> <<Tell(2, "m"), Work1, Ret1, [op |-> "branch", to |-> 6], SleepFor(1), Ret1>>,
     trig |-> ("m" :> 1 @@ "timer" :> 4), here |-> TRUE],
    [code |-> <<Tell(1, "timer"), Tell(2, "timer"), Ret1, [op |-> "reset"], Ret1>>,
     trig |-> ("m" :> 1 @@ "timer" :> 4), here |-> TRUE] >>

\* A pulse as frequent as its handler is slow, and a subroutine that calls itself until no
\* frame is left; and a cog that runs on another machine.
Level4 == <<
    [code |-> <<PulseEvery(1), Ret1, SleepFor(1), Work1, Ret1,
                [op |-> "call", to |-> 6], Work1, Ret1>>,
     trig |-> ("m" :> 1 @@ "pulse" :> 3 @@ "timer" :> 6), here |-> TRUE],
    [code |-> <<Work1, Ret1>>, trig |-> ("m" :> 1), here |-> FALSE] >>

MCPrograms == {Level1, Level2, Level3, Level4}
MCRoutes == {<<1>>, <<2>>, <<1, 2>>, <<2, 1, 1>>}
================================================================================
