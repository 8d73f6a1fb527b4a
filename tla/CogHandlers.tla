------------------------------ MODULE CogHandlers ------------------------------
(***************************************************************************)
(* What the interpreter of the COG scripts promises to the author of a     *)
(* script, without program counters, frames or C loops.  The handlers of   *)
(* a cog form a stack: a message that is accepted begins a handler on top, *)
(* a handler that sleeps or waits for a thing stays where it is, one that  *)
(* it is interrupted by leaves it exactly as it was, and only the newest   *)
(* handler goes on, when what it waits for is over, or ends.               *)
(*                                                                         *)
(* The promise has limits, and they are part of it: a cog may be "lost",   *)
(* when one of its handlers was forgotten, and nothing is said of a cog    *)
(* until it is found at rest again.  SithCog says when it becomes lost.    *)
(***************************************************************************)
EXTENDS Integers, Sequences, SequencesExt

CONSTANTS
    Cogs,       \* the cogs of the level
    Messages,   \* the messages they may receive
    NoMessage,  \* the message of a handler that came out of a saved game
    Paths,      \* the things that move along paths
    MaxSleep    \* the longest sleep, in frames

VARIABLES
    pending,    \* for each cog, the handlers that have begun and not ended
    lost,       \* the cogs one of whose handlers was forgotten
    moving      \* the things on their way

vars == <<pending, lost, moving>>

Runs == <<"runs">>
Sleeps == {<<"sleeps", n>> : n \in -1..MaxSleep}
Waits == {<<"waits", t>> : t \in Paths}

Handlers == [msg : Messages \cup {NoMessage}, on : {Runs} \cup Sleeps \cup Waits]

\* What a handler waits for is over: its time has passed, or the thing stopped.
Over(on) == on = <<"sleeps", -1>> \/ \E t \in Paths \ moving : on = <<"waits", t>>

Top(c) == Last(pending[c])
Busy(c) == pending[c] # <<>>

Init ==
    /\ pending = [c \in Cogs |-> <<>>]
    /\ lost = {}
    /\ moving \in SUBSET Paths

Begin(c, m) ==
    /\ c \notin lost
    /\ pending' = [pending EXCEPT ![c] = Append(@, [msg |-> m, on |-> Runs])]
    /\ UNCHANGED <<lost, moving>>

SetTop(c, on) ==
    pending' = [pending EXCEPT ![c] = Append(Front(@), [Top(c) EXCEPT !.on = on])]

Suspend(c, on) ==
    /\ Busy(c) /\ Top(c).on = Runs
    /\ SetTop(c, on)
    /\ UNCHANGED <<lost, moving>>

Resume(c) ==
    /\ Busy(c) /\ Over(Top(c).on)
    /\ SetTop(c, Runs)
    /\ UNCHANGED <<lost, moving>>

End(c) ==
    /\ Busy(c) /\ Top(c).on = Runs
    /\ pending' = [pending EXCEPT ![c] = Front(@)]
    /\ UNCHANGED <<lost, moving>>

\* Time passes for every handler that sleeps, the interrupted ones too.
Shortened(on) == IF on \in Sleeps /\ on[2] >= 0 THEN <<"sleeps", on[2] - 1>> ELSE on
Frame ==
    /\ pending' = [c \in Cogs |->
          [i \in DOMAIN pending[c] |-> [pending[c][i] EXCEPT !.on = Shortened(@)]]]
    /\ UNCHANGED <<lost, moving>>

Move ==
    /\ moving' \in SUBSET Paths
    /\ UNCHANGED <<pending, lost>>

Lose(c) ==
    /\ lost' = lost \cup {c}
    /\ pending' = [pending EXCEPT ![c] = <<>>]
    /\ UNCHANGED moving

\* A lost cog whose script has come to an end is like a new one.
Found(c) ==
    /\ c \in lost /\ lost' = lost \ {c}
    /\ UNCHANGED <<pending, moving>>

\* A saved game has room for one handler of each cog, without its message.
Reload ==
    /\ lost \subseteq lost'
    /\ \A c \in Cogs : Len(pending[c]) > 1 => c \in lost'
    /\ pending' = [c \in Cogs |->
          IF c \in lost' \/ ~Busy(c) THEN <<>>
          ELSE <<[Top(c) EXCEPT !.msg = NoMessage]>>]
    /\ UNCHANGED moving

Next ==
    \/ \E c \in Cogs :
          \/ \E m \in Messages : Begin(c, m)
          \/ \E on \in Sleeps \cup Waits : Suspend(c, on)
          \/ Resume(c) \/ End(c) \/ Lose(c) \/ Found(c)
    \/ Frame \/ Move \/ Reload

Spec == Init /\ [][Next]_vars
================================================================================
