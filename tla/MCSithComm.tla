------------------------------ MODULE MCSithComm ------------------------------
(***************************************************************************)
(* Small instances of SithComm.  DPID 1 is the host in slot 0, DPID 2 and  *)
(* 3 are clients in slots 1 and 2.                                         *)
(***************************************************************************)
EXTENDS SithComm

\* Everybody is in everybody's list.
MCHome == [p \in Procs |-> p - 1]
MCPlayers == [p \in Procs |-> [i \in Slots |->
    IF i + 1 \in Procs THEN [id |-> i + 1, joined |-> TRUE]
    ELSE [id |-> ALLPLAYERS, joined |-> FALSE]]]

\* DPID 3 is on its way in: only its own list knows it.
MCThreeJoins == [p \in Procs |-> [i \in Slots |->
    IF i < 2 THEN [id |-> i + 1, joined |-> TRUE]
    ELSE [id |-> ALLPLAYERS, joined |-> FALSE]]]

\* who sends: the host, or the host and the process that is on its way in
MCHostSends2   == [p \in Procs |-> IF p = Host THEN 2 ELSE 0]
MCHostSends3   == [p \in Procs |-> IF p = Host THEN 3 ELSE 0]
MCHostAndNewSend == [p \in Procs |-> IF p = 2 THEN 0 ELSE 1]

\* the clock of a process that sends nothing stands still
MCHorizon == [p \in Procs |->
    IF SendsOf[p] = 0 THEN 0 ELSE LastSendMs + MaxRetry * ResendMs + 1]
\* only the host's clock runs
MCHostClock == [p \in Procs |-> IF p = Host THEN LastSendMs + MaxRetry * ResendMs + 1 ELSE 0]

\* the player list: fixed, or the host sees one player leave and one join
MCStable    == [p \in Procs |-> 0]
MCHostSwaps == [p \in Procs |-> IF p = Host THEN 2 ELSE 0]

\* broadcasts only, or broadcasts and messages to one player
MCBroadcast == {INVALID}
MCToTwo     == {2, INVALID}
=============================================================================
