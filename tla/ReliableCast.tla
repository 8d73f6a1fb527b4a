----------------------------- MODULE ReliableCast -----------------------------
(***************************************************************************)
(* What the reliable path of Devices/sithComm.c promises to the handlers   *)
(* above it.  A message is cast to an audience; it may be lost; a process  *)
(* handles only messages it belongs to the audience of, and does not       *)
(* handle one again that is among the last Window messages it handled.     *)
(* Nothing is said of acknowledgements, ids, retries or time.              *)
(***************************************************************************)
EXTENDS Naturals, Sequences

CONSTANTS Procs,   \* the processes
          Window   \* how many handled messages a process remembers

VARIABLES audience,  \* audience[p][n]: who may handle message n of process p
          handled    \* the messages a process has handled, in order

Init ==
    /\ audience = [p \in Procs |-> <<>>]
    /\ handled = [p \in Procs |-> <<>>]

Cast(p, to) ==
    /\ audience' = [audience EXCEPT ![p] = Append(@, to)]
    /\ UNCHANGED handled

\* q takes over the place of a player that has left: the messages of p that
\* were still waiting for that player may now be handled by q.
TakeOver(p, q) ==
    /\ \E waiting \in SUBSET DOMAIN audience[p] :
          audience' = [audience EXCEPT ![p] = [n \in DOMAIN @ |->
                         IF n \in waiting THEN @[n] \cup {q} ELSE @[n]]]
    /\ UNCHANGED handled

Recent(q) == {handled[q][i] : i \in {j \in DOMAIN handled[q] :
                                        j + Window > Len(handled[q])}}

Handle(q, p, n) ==
    /\ q \in audience[p][n]
    /\ <<p, n>> \notin Recent(q)
    /\ handled' = [handled EXCEPT ![q] = Append(@, <<p, n>>)]
    /\ UNCHANGED audience

Next == \/ \E p \in Procs, to \in SUBSET Procs : Cast(p, to)
        \/ \E p, q \in Procs : TakeOver(p, q)
        \/ \E q, p \in Procs : \E n \in DOMAIN audience[p] : Handle(q, p, n)

Spec == Init /\ [][Next]_<<audience, handled>>
=============================================================================
