------------------------------ MODULE TimerQueue ------------------------------
(***************************************************************************)
(* What Gameplay/sithEvent.c promises to the COG scripts that arm timers:  *)
(* a timer that is armed fires once, after its time and not before, the    *)
(* earliest first and those of the same time in the order they were armed, *)
(* unless its cog kills it or the level goes away first.  A saved game     *)
(* brings back the timers that waited when it was saved, all of them, with *)
(* the time they had left and in their order.                              *)
(***************************************************************************)
EXTENDS Integers

CONSTANTS Cogs, TimerIds

VARIABLES running,  \* whether a level is open
          waiting,  \* the armed timers: [seq, cog, timer, endMs]
          now,      \* sithTime_curMs
          shelf     \* the saved game: [now, waiting]

vars == <<running, waiting, now, shelf>>

Init == running = FALSE /\ waiting = {} /\ now \in Nat /\ shelf = [now |-> 0, waiting |-> {}]

\* seq grows with every timer that is armed
Arm(t) ==
    /\ running /\ t.endMs >= now
    /\ \A u \in waiting : u.seq < t.seq
    /\ waiting' = waiting \cup {t}
    /\ UNCHANGED <<running, now, shelf>>

Kill(cog, timer) ==
    /\ running
    /\ waiting' = {t \in waiting : t.cog # cog \/ t.timer # timer}
    /\ UNCHANGED <<running, now, shelf>>

Before(t, u) == t.endMs < u.endMs \/ (t.endMs = u.endMs /\ t.seq < u.seq)

Fire(t) ==
    /\ running /\ t.endMs < now
    /\ \A u \in waiting \ {t} : Before(t, u)
    /\ waiting' = waiting \ {t}
    /\ UNCHANGED <<running, now, shelf>>

\* Time passes only when nothing is overdue.
Pass ==
    /\ running /\ \A t \in waiting : t.endMs >= now
    /\ now' > now
    /\ UNCHANGED <<running, waiting, shelf>>

Save ==
    /\ running /\ \A t \in waiting : t.endMs >= now
    /\ shelf' = [now |-> now, waiting |-> waiting]
    /\ UNCHANGED <<running, waiting, now>>

Load ==
    /\ running' /\ waiting' = shelf.waiting /\ now' = shelf.now
    /\ UNCHANGED shelf

\* The clock starts again for a level, at the latest when it has been opened; a
\* timer that was armed before that keeps its endMs, however far off that is then.
Restarts == now' \in {now, 0} /\ UNCHANGED <<waiting, shelf>>
Open == ~running /\ running' /\ Restarts
Opened == running /\ running' /\ Restarts
Close == running /\ ~running' /\ waiting' = {} /\ UNCHANGED <<now, shelf>>

Next == \/ \E t \in waiting' \ waiting : Arm(t)
        \/ \E cog \in Cogs, timer \in TimerIds : Kill(cog, timer)
        \/ \E t \in waiting : Fire(t)
        \/ Pass \/ Save \/ Load \/ Open \/ Opened \/ Close

Spec == Init /\ [][Next]_vars
=============================================================================
