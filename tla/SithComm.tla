------------------------------- MODULE SithComm -------------------------------
(***************************************************************************)
(* The reliable-message layer of Devices/sithComm.c together with the      *)
(* routing of Win95/stdComm.c: every process numbers its reliable          *)
(* messages, keeps them in MsgTmpBuf until every addressed player has      *)
(* acknowledged them (DSS_RESET), retransmits them after 1700 ms, gives up *)
(* after six attempts, and drops the (sender, id) pairs it finds in        *)
(* aMsgPairs.  One process stands for one running game.                    *)
(*                                                                         *)
(* DirectPlay is external.  It is a set of directed channels that lose     *)
(* packets and, if the constants say so, reorder or duplicate them.        *)
(***************************************************************************)
EXTENDS Integers, Sequences, FiniteSets

CONSTANTS
    Procs,        \* the running games, named by their (positive) DPID
    Host,         \* the one with sithNet_isServer
    Home,         \* playerThingIdx of each process: for a client, the slot it is welcomed in
    MaxPlayers,   \* jkPlayer_maxPlayers
    InitPlayers,  \* jkPlayer_playerInfos of each process when the model starts
    NumBuf,       \* slots of sithComm_MsgTmpBuf (32)
    NumPairs,     \* entries of sithComm_aMsgPairs (128)
    IdSpan,       \* 2^16: net_msg.msgId is a uint16_t
    ResendMs,     \* the 1700 ms of sithComm_SyncWithPlayers, in frames
    MaxRetry,     \* the limit 6 on field_18
    Dests,        \* the sendto ids the callers pass
    Kinds,        \* the message types the callers send
    Modes,        \* the values of a4 the callers pass: TRUE is a reliable message
    Reorder,      \* may a channel overtake?
    Duplicate,    \* may a channel deliver a packet twice?
    \* bounds of the model, not of the code
    SendsOf,      \* how many messages each process sends
    LastSendMs,   \* no message is sent after this time
    Horizon,      \* where the clock of each process stops
    NetCap,       \* packets in flight on one channel; more are lost
    RosterChangesOf  \* how often the player list of each process changes

ALLPLAYERS == 0      \* DPID_ALLPLAYERS, also the net_id of an empty slot
INVALID    == -1     \* INVALID_DPID: broadcast
Slots      == 0 .. MaxPlayers - 1
BufIdx     == 0 .. NumBuf - 1
PairIdx    == 0 .. NumPairs - 1
Ids        == 0 .. IdSpan - 1
AckKind    == "RESET"
QuitKind   == "QUIT"
\* the types sithComm_Sync takes from a sender it does not know
OpenKinds  == {"WELCOME", "JOINREQUEST", AckKind, "LEAVEJOIN"}

ASSUME ProcsAssumption ==
    /\ Procs \subseteq Nat \ {0}
    /\ Host \in Procs
    /\ Home \in [Procs -> Slots]
    /\ Dests \subseteq Procs \cup {ALLPLAYERS, INVALID}
    /\ AckKind \notin Kinds
    /\ Modes \subseteq BOOLEAN
ASSUME SizesAssumption ==
    /\ MaxPlayers \in Nat \ {0}
    /\ NumBuf \in Nat /\ NumBuf >= 2
    /\ NumPairs \in Nat \ {0}
    /\ IdSpan \in Nat /\ IdSpan >= 2
    /\ ResendMs \in Nat \ {0}
    /\ MaxRetry \in Nat \ {0}
ASSUME RosterAssumption ==
    InitPlayers \in [Procs -> [Slots -> [id : Procs \cup {ALLPLAYERS}, joined : BOOLEAN]]]
ASSUME BoundsAssumption ==
    /\ SendsOf \in [Procs -> Nat]
    /\ LastSendMs \in Nat
    /\ Horizon \in [Procs -> Nat]
    /\ NetCap \in Nat
    /\ RosterChangesOf \in [Procs -> Nat]

VARIABLES
    buf,         \* sithComm_MsgTmpBuf of each process
    pending,     \* sithComm_idk2
    msgId,       \* sithComm_msgId, its low 16 bits
    pairs,       \* sithComm_aMsgPairs
    cursor,      \* sithComm_dword_847E84
    players,     \* jkPlayer_playerInfos: net_id and SITH_PLAYER_JOINEDGAME
    joining,     \* g_submodeFlags & SITH_SUBMODE_JOINING
    needsSync,   \* sithComm_needsSync
    curMs,       \* sithTime_curMs, in frames
    chan,        \* the packets in flight from one process to another
    log,         \* history: the reliable messages of each process, in order
    dispatched,  \* history: the reliable messages each process handed to a handler
    changes      \* how often the player list of each process has changed

vars == <<buf, pending, msgId, pairs, cursor, players, joining, needsSync,
          curMs, chan, log, dispatched, changes>>

\* a slot after memset(.., 0, ..)
NoMsg  == [id |-> 0, kind |-> "NONE", seq |-> 0, mask |-> {},
           timeMs |-> 0, timeMs2 |-> 0, retry |-> 0]
NoPair == [from |-> ALLPLAYERS, id |-> 0]

\* what travels: field_14, field_18 and the times stay at home
Packet(m)        == [kind |-> m.kind, id |-> m.id, seq |-> m.seq, ack |-> 0]
Unreliable(kind) == [kind |-> kind, id |-> 0, seq |-> 0, ack |-> 0]
AckPacket(id)    == [kind |-> AckKind, id |-> 0, seq |-> 0, ack |-> id]

-----------------------------------------------------------------------------
(* The player list and the transport. *)

\* sithPlayer_ThingIdxToPlayerIdx, as the set of slots it can return: empty for -1
SlotOf(p, dpid) ==
    {i \in Slots : /\ dpid # 0
                   /\ players[p][i].id = dpid
                   /\ \A j \in Slots : j < i => players[p][j].id # dpid}

\* stdComm_SendToPlayer: the DPIDs one call hands to DirectPlay_Send.  Slot 0
\* always takes part in a broadcast ("for dedicated servers' fake player").
Targets(p, a2) ==
    IF a2 # INVALID
    THEN {a2}
    ELSE {players[p][i].id : i \in {j \in Slots :
             j = 0 \/ (players[p][j].joined /\ players[p][j].id # p)}}

\* DirectPlay_Send: out[d] is queued for d; what does not fit is lost, and
\* so is what a process sends to itself or to nobody.
Put(ch, p, out) ==
    [ch EXCEPT ![p] = [d \in Procs |->
        IF d = p THEN @[d]
        ELSE LET all == @[d] \o out[d]
             IN  SubSeq(all, 1, IF Len(all) < NetCap THEN Len(all) ELSE NetCap)]]

\* one packet for every process in dests
Each(pkt, dests) == [d \in Procs |-> IF d \in dests THEN <<pkt>> ELSE <<>>]

-----------------------------------------------------------------------------
(* sithComm_SendMsgToPlayer *)

\* field_14: the slots that must acknowledge.  Slot 0 is always one of them
\* on another machine ("Dedicated server hax").
AckMask(p, a2) ==
    {i \in Slots : /\ i # Home[p]
                   /\ \/ players[p][i].id = a2
                      \/ a2 \in {INVALID, ALLPLAYERS} /\ players[p][i].joined
                      \/ i = 0}

\* the first free slot, NumBuf if there is none
FreeSlot(b) ==
    CHOOSE i \in 0 .. NumBuf : /\ i = NumBuf \/ b[i].id = 0
                               /\ \A j \in 0 .. i - 1 : b[j].id # 0

\* idx_: among the slots scanned before the free one, the first with the
\* smallest timeMs below now; slot 0 if none is older than now
OldestSlot(b, now) ==
    LET older == {i \in 0 .. FreeSlot(b) - 1 : b[i].timeMs < now}
    IN  IF older = {} THEN 0
        ELSE CHOOSE i \in older : \A j \in older :
                \/ b[i].timeMs < b[j].timeMs
                \/ b[i].timeMs = b[j].timeMs /\ i <= j

\* bug (or repair): the message goes to the free slot the scan found
StoreAtFreeSlot(b, now) == IF FreeSlot(b) = NumBuf THEN OldestSlot(b, now) ELSE FreeSlot(b)

\* the slot that takes the message: idx_, whether or not a free slot was found
StoreSlot(b, now) == OldestSlot(b, now)

\* whom a reliable message is for: everybody who must acknowledge it and
\* everybody it is sent to, in the player list or not
Addressees(p, a2) ==
    {players[p][i].id : i \in AckMask(p, a2)} \cup (Targets(p, a2) \ {p})

\* bug: the attempt is not counted
RetransmittedUncounted(p, m) ==
    [id |-> m.id, kind |-> m.kind, seq |-> m.seq, timeMs |-> m.timeMs,
     mask |-> {i \in m.mask : players[p][i].id # ALLPLAYERS},
     timeMs2 |-> curMs[p], retry |-> m.retry]

\* one retransmission: count it, and forget the players that have left
Retransmitted(p, m) ==
    [id |-> m.id, kind |-> m.kind, seq |-> m.seq, timeMs |-> m.timeMs,
     mask |-> {i \in m.mask : players[p][i].id # ALLPLAYERS},
     timeMs2 |-> curMs[p],
     retry |-> m.retry + 1]
\* bug: retransmitted to everybody, whatever the mask says
ResendToAll(p, m) == {players[p][i].id : i \in Slots} \ {ALLPLAYERS}
ResendDests(p, m) == {players[p][i].id : i \in m.mask} \ {ALLPLAYERS}
GivesUp(m) == m.mask = {} \/ m.retry >= MaxRetry

\* bug: ++idk2 is lost
PendingNotCounted(p) == pending[p]

\* --idk2 for the slot reused when the buffer is full, once more when its
\* message is dropped, and ++idk2 for the new one
PendingAfterStore(p) ==
    LET b == buf[p]
        evicted == Retransmitted(p, b[OldestSlot(b, curMs[p])])
    IN  IF FreeSlot(b) # NumBuf THEN pending[p] + 1
        ELSE IF GivesUp(evicted) THEN pending[p] - 1
        ELSE pending[p]

\* what leaves the process: the evicted message first when the buffer is full
SendOutput(p, pkt, a2) ==
    LET b == buf[p]
        old == b[OldestSlot(b, curMs[p])]
        resend == IF FreeSlot(b) = NumBuf
                  THEN Each(Packet(old), ResendDests(p, old)) ELSE Each(pkt, {})
        send == Each(pkt, Targets(p, a2))
    IN  [d \in Procs |-> resend[d] \o send[d]]

\* The body of the reliable path; kind and a2 come from the caller.  The
\* counter skips 0, the mark of an unreliable message and of a free slot.
SendReliable(p, kind, a2, ch) ==
    LET v9 == IF msgId[p] = 0 THEN 1 ELSE msgId[p]
        mask == AckMask(p, a2)
        seq == Len(log[p]) + 1
        m == [id |-> v9, kind |-> kind, seq |-> seq, mask |-> mask,
              timeMs |-> curMs[p], timeMs2 |-> curMs[p], retry |-> 0]
    IN  /\ msgId' = [msgId EXCEPT ![p] = (v9 + 1) % IdSpan]
        /\ IF mask = {}
           THEN /\ chan' = Put(ch, p, Each(Unreliable(kind), Targets(p, a2)))
                /\ UNCHANGED <<buf, pending, log>>
           ELSE /\ buf' = [buf EXCEPT ![p][StoreSlot(buf[p], curMs[p])] = m]
                /\ pending' = [pending EXCEPT ![p] = PendingAfterStore(p)]
                /\ chan' = Put(ch, p, SendOutput(p, Packet(m), a2))
                /\ log' = [log EXCEPT ![p] = Append(@,
                        [id |-> v9, to |-> Addressees(p, a2)])]

SendUnreliable(p, kind, a2) ==
    /\ chan' = Put(chan, p, Each(Unreliable(kind), Targets(p, a2)))
    /\ UNCHANGED <<buf, pending, msgId, log>>

SendMsgToPlayer(p, kind, a2, reliable) ==
    /\ Len(log[p]) < SendsOf[p] /\ curMs[p] <= LastSendMs
    /\ IF reliable THEN SendReliable(p, kind, a2, chan) ELSE SendUnreliable(p, kind, a2)
    /\ UNCHANGED <<pairs, cursor, players, joining, needsSync, curMs,
                   dispatched, changes>>

-----------------------------------------------------------------------------
(* sithComm_Sync, one message at a time *)

\* NETMSG_POPS16: the acknowledged id comes back as a signed 16-bit number
PopS16(id) == IF 2 * id >= IdSpan THEN id - IdSpan ELSE id

\* bug: the first occupied slot is taken for the acknowledged one
AckedAnySlot(b, v1) ==
    {i \in BufIdx : b[i].id # 0 /\ \A j \in 0 .. i - 1 : b[j].id = 0}

\* sithComm_cogMsg_Reset: the first slot with that id loses the bit of the
\* sender; when no bit is left the slot is cleared.  For a sender that is not
\* in the player list the shift is by -1 and no player's bit changes.
AckedSlot(b, v1) ==
    {i \in BufIdx : b[i].id = v1 /\ \A j \in 0 .. i - 1 : b[j].id # v1}

ProcessAck(q, from, pkt) ==
    LET found == AckedSlot(buf[q], PopS16(pkt.ack))
    IN  IF found = {}
        THEN UNCHANGED <<buf, pending>>
        ELSE \E i \in found :
               LET left == buf[q][i].mask \ SlotOf(q, from)
               IN  IF left = {}
                   THEN /\ buf' = [buf EXCEPT ![q][i] = NoMsg]
                        /\ pending' = [pending EXCEPT ![q] = @ - 1]
                   ELSE /\ buf' = [buf EXCEPT ![q][i].mask = left]
                        /\ UNCHANGED pending

\* sithMulti_ProcessJoinLeave, the answer to our own join: it puts us into our
\* own list and ends the joining mode and the loop of sithComm_Sync.  What a
\* process in the game does about the welcome of another one is a RosterChange.
ProcessWelcome(q) ==
    IF joining[q]
    THEN /\ joining' = [joining EXCEPT ![q] = FALSE]
         /\ players' = [players EXCEPT ![q][Home[q]] = [id |-> q, joined |-> TRUE]]
         /\ needsSync' = [needsSync EXCEPT ![q] = TRUE]
    ELSE UNCHANGED <<joining, players, needsSync>>

\* sithComm_msgFuncs[cogMsgId](msg)
Dispatch(q, from, pkt) ==
    /\ IF pkt.kind = AckKind THEN ProcessAck(q, from, pkt)
                             ELSE UNCHANGED <<buf, pending>>
    /\ IF pkt.kind = "WELCOME" THEN ProcessWelcome(q)
                               ELSE UNCHANGED <<joining, players, needsSync>>
    /\ dispatched' = IF pkt.id # 0
                     THEN [dispatched EXCEPT ![q] = Append(@, <<from, pkt.seq>>)]
                     ELSE dispatched

\* bug: the scan stops one entry early
SeenShort(q, from, id) == \E i \in 0 .. NumPairs - 2 : pairs[q][i] = [from |-> from, id |-> id]

\* the (dpId, msgId) lookup in sithComm_aMsgPairs
Seen(q, from, id) == \E i \in PairIdx : pairs[q][i] = [from |-> from, id |-> id]

\* bug: the cursor runs over the end of the ring
RememberOverrun(q, from, id) ==
    /\ pairs' = [pairs EXCEPT ![q][cursor[q]] = [from |-> from, id |-> id]]
    /\ cursor' = [cursor EXCEPT ![q] = IF @ + 1 > NumPairs THEN 0 ELSE @ + 1]

Remember(q, from, id) ==
    /\ pairs' = [pairs EXCEPT ![q][cursor[q]] = [from |-> from, id |-> id]]
    /\ cursor' = [cursor EXCEPT ![q] = IF @ + 1 >= NumPairs THEN 0 ELSE @ + 1]

\* A reliable message is acknowledged before anything else is decided about it.
Accept(q, from, pkt, ch) ==
    IF pkt.id = 0
    THEN /\ Dispatch(q, from, pkt)
         /\ chan' = ch
         /\ UNCHANGED <<pairs, cursor, msgId, log>>
    ELSE /\ chan' = Put(ch, q, Each(AckPacket(pkt.id), {from}))
         /\ UNCHANGED <<msgId, log>>
         /\ IF Seen(q, from, pkt.id)
            THEN UNCHANGED <<buf, pending, players, joining, needsSync, dispatched, pairs,
                             cursor>>
            ELSE Remember(q, from, pkt.id) /\ Dispatch(q, from, pkt)

\* A stranger: the server answers with sithMulti_SendQuit, anyone else ignores it.
Refuse(q, from, ch) ==
    /\ IF q = Host THEN SendReliable(q, QuitKind, from, ch)
       ELSE chan' = ch /\ UNCHANGED <<buf, pending, msgId, log>>
    /\ UNCHANGED <<pairs, cursor, players, joining, needsSync, dispatched>>

\* One turn of the loop: DirectPlay hands over a packet of some channel, the
\* oldest one unless the transport reorders, and may keep a copy.
Receive(q, p, n, keep) ==
    LET pkt == chan[p][q][n]
        rest == IF keep THEN chan ELSE
                [chan EXCEPT ![p][q] =
                    SubSeq(@, 1, n - 1) \o SubSeq(@, n + 1, Len(@))]
    IN  /\ ~needsSync[q]
        /\ IF \/ SlotOf(q, p) # {} \/ pkt.kind \in OpenKinds \/ joining[q]
           THEN Accept(q, p, pkt, rest)
           ELSE Refuse(q, p, rest)
        /\ UNCHANGED <<curMs, changes>>

\* external: the network loses a packet
Lose(p, q, n) ==
    /\ chan' = [chan EXCEPT ![p][q] = SubSeq(@, 1, n - 1) \o SubSeq(@, n + 1, Len(@))]
    /\ UNCHANGED <<buf, pending, msgId, pairs, cursor, players, joining, needsSync,
                   curMs, log, dispatched, changes>>

-----------------------------------------------------------------------------
(* The end of sithComm_Sync and the frame: sithComm_SyncWithPlayers, then   *)
(* sithTime_Tick of the next frame.                                         *)

Due(p, i) == buf[p][i].id # 0 /\ buf[p][i].timeMs2 + ResendMs <= curMs[p]

Nth(S, k) == CHOOSE i \in S : Cardinality({j \in S : j <= i}) = k

\* what each process gets of it, in the order of the slots
DueFor(p, d)  == {i \in BufIdx : Due(p, i) /\ d \in ResendDests(p, buf[p][i])}
DueOutput(p) ==
    [d \in Procs |-> [k \in 1 .. Cardinality(DueFor(p, d)) |->
                        Packet(buf[p][Nth(DueFor(p, d), k)])]]

SyncedSlot(p, i) ==
    IF ~Due(p, i) THEN buf[p][i]
    ELSE LET m == Retransmitted(p, buf[p][i])
         IN  IF GivesUp(m) THEN NoMsg ELSE m

SyncWithPlayers(p) ==
    IF pending[p] = 0
    THEN UNCHANGED <<buf, pending, chan>>
    ELSE LET synced == [i \in BufIdx |-> SyncedSlot(p, i)]
             cleared == {i \in BufIdx : buf[p][i].id # 0 /\ synced[i].id = 0}
         IN  /\ buf' = [buf EXCEPT ![p] = synced]
             /\ pending' = [pending EXCEPT ![p] = @ - Cardinality(cleared)]
             /\ chan' = Put(chan, p, DueOutput(p))

EndFrame(p) ==
    /\ SyncWithPlayers(p)
    /\ needsSync' = [needsSync EXCEPT ![p] = FALSE]
    /\ curMs' = [curMs EXCEPT ![p] = IF @ < Horizon[p] THEN @ + 1 ELSE @]
    /\ UNCHANGED <<msgId, pairs, cursor, players, joining, log, dispatched, changes>>

-----------------------------------------------------------------------------
(* The player list, as the session layer changes it. *)

\* sithPlayer_Startup: a player has left
PlayerLeaves(p, i) ==
    /\ i # Home[p] /\ players[p][i].id # ALLPLAYERS
    /\ players' = [players EXCEPT ![p][i] = [id |-> ALLPLAYERS, joined |-> FALSE]]
    /\ UNCHANGED log

\* sithPlayer_sub_4C87C0: a player takes a free slot.  The bits of a stored
\* message name slots, so the newcomer inherits what its slot still waits for.
PlayerJoins(p, i, q) ==
    /\ players[p][i].id = ALLPLAYERS /\ SlotOf(p, q) = {}
    /\ players' = [players EXCEPT ![p][i] = [id |-> q, joined |-> TRUE]]
    /\ log' = [log EXCEPT ![p] = [n \in DOMAIN @ |->
                  IF \E s \in BufIdx : /\ buf[p][s].id # 0 /\ buf[p][s].seq = n
                                       /\ i \in buf[p][s].mask
                  THEN [id |-> @[n].id, to |-> @[n].to \cup {q}] ELSE @[n]]]

RosterChange(p, i) ==
    /\ changes[p] < RosterChangesOf[p]
    /\ changes' = [changes EXCEPT ![p] = @ + 1]
    /\ PlayerLeaves(p, i) \/ \E q \in Procs \ {p} : PlayerJoins(p, i, q)
    /\ UNCHANGED <<buf, pending, msgId, pairs, cursor, joining, needsSync, curMs,
                   chan, dispatched>>

-----------------------------------------------------------------------------
Init ==
    /\ buf = [p \in Procs |-> [i \in BufIdx |-> NoMsg]]
    /\ pending = [p \in Procs |-> 0]
    /\ msgId = [p \in Procs |-> 1]
    /\ pairs = [p \in Procs |-> [i \in PairIdx |-> NoPair]]
    /\ cursor = [p \in Procs |-> 0]
    /\ players = InitPlayers
    /\ joining \in [Procs -> BOOLEAN]
    /\ \A p \in Procs : joining[p] => (p # Host /\ SlotOf(p, p) = {})
    /\ needsSync = [p \in Procs |-> FALSE]
    /\ curMs = [p \in Procs |-> 0]
    /\ chan = [p \in Procs |-> [q \in Procs |-> <<>>]]
    /\ log = [p \in Procs |-> <<>>]
    /\ dispatched = [p \in Procs |-> <<>>]
    /\ changes = [p \in Procs |-> 0]

\* the packets of a channel that can come out next
Ready(p, q) == IF Reorder THEN 1 .. Len(chan[p][q])
               ELSE {n \in {1} : Len(chan[p][q]) > 0}

Send(p) == \E kind \in Kinds, a2 \in Dests \ {p}, reliable \in Modes :
              SendMsgToPlayer(p, kind, a2, reliable)
Recv(q) == \E p \in Procs : \E n \in Ready(p, q) : \E keep \in {FALSE, Duplicate} :
              Receive(q, p, n, keep)
Loss    == \E p, q \in Procs : \E n \in Ready(p, q) : Lose(p, q, n)
Roster  == \E p \in Procs : \E i \in Slots : RosterChange(p, i)

Next == \/ \E p \in Procs : Send(p) \/ Recv(p) \/ EndFrame(p)
        \/ Loss
        \/ Roster

\* Every running game keeps running frames: sithMain_Tick ends each of them
\* with sithComm_Sync.  Nothing is assumed of the network.
Fairness == \A p \in Procs : WF_vars(EndFrame(p))
Spec     == Init /\ [][Next]_vars
FairSpec == Spec /\ Fairness

-----------------------------------------------------------------------------
Occupied(p, i) == buf[p][i].id # 0

Message == [id : Ids, kind : Kinds \cup {"NONE", QuitKind}, seq : Nat,
            mask : SUBSET Slots, timeMs : Nat, timeMs2 : Nat, retry : Nat]
Player  == [id : Procs \cup {ALLPLAYERS}, joined : BOOLEAN]
Entry   == [id : Ids, to : SUBSET (Procs \cup {ALLPLAYERS})]
\* an acknowledgement names a message, and nothing else does
Wire    == {w \in [kind : Kinds \cup {"NONE", AckKind, QuitKind}, id : Ids,
                   seq : Nat, ack : Ids] : w.kind = AckKind <=> w.ack # 0}

\* Every variable keeps its type, and no acknowledgement of id 0 is ever sent
\* (it would match the first free slot of the buffer).
TypeOK ==
    /\ buf \in [Procs -> [BufIdx -> Message]]
    /\ pending \in [Procs -> Int]
    /\ msgId \in [Procs -> Ids]
    /\ pairs \in [Procs -> [PairIdx -> [from : Procs \cup {ALLPLAYERS}, id : Ids]]]
    /\ cursor \in [Procs -> PairIdx]
    /\ players \in [Procs -> [Slots -> Player]]
    /\ joining \in [Procs -> BOOLEAN] /\ needsSync \in [Procs -> BOOLEAN]
    /\ curMs \in [Procs -> Nat]
    /\ chan \in [Procs -> [Procs -> Seq(Wire)]]
    /\ log \in [Procs -> Seq(Entry)]
    /\ dispatched \in [Procs -> Seq(Procs \X Nat)]
    /\ changes \in [Procs -> Nat]

\* The message that SendMsgToPlayer stores goes to idx_ and never to the free
\* slot the scan found, so a process remembers one unacknowledged message: all
\* of MsgTmpBuf but its first slot stays clear, whatever is sent and received.
OnlyFirstSlot == \A p \in Procs : \A i \in BufIdx \ {0} : buf[p][i] = NoMsg

\* sithComm_SyncWithPlayers looks at the buffer only while sithComm_idk2 is
\* not zero.  The counter drifts (an overwritten message is never counted
\* down), but never so that a stored message is left without retransmission.
PendingCounted == \A p \in Procs : \A i \in BufIdx : Occupied(p, i) => pending[p] > 0

\* A stored message still waits for someone and has tries left: nothing with an
\* empty mask or an exhausted count stays in the buffer.
StoredIsLive == \A p \in Procs : \A i \in BufIdx :
    Occupied(p, i) => buf[p][i].mask # {} /\ buf[p][i].retry < MaxRetry

\* However often a reliable message is retransmitted by its sender or repeated
\* by the network, a process hands it to its handler again only after it has
\* handled more than NumPairs others: aMsgPairs forgets nothing earlier.
AtMostOncePerWindow == \A q \in Procs : \A i, j \in DOMAIN dispatched[q] :
    (i < j /\ dispatched[q][i] = dispatched[q][j]) => j - i > NumPairs

WasDispatched(q, p, seq) == \E i \in DOMAIN dispatched[q] : dispatched[q][i] = <<p, seq>>

\* A player whose bit is gone from a stored message has really handled it: an
\* acknowledgement is never taken for another message or another player's.
AckedWasDispatched == \A p \in Procs : \A i \in BufIdx : Occupied(p, i) =>
    LET m == buf[p][i]
    IN  \A q \in log[p][m.seq].to \cap Procs :
          (\E j \in Slots \ m.mask : players[p][j].id = q) => WasDispatched(q, p, m.seq)

\* The whole layer does what ReliableCast promises: a process handles only
\* reliable messages that were addressed to it (or to a player that left and
\* whose slot it took while the message was waiting), and each of them once
\* within the window of aMsgPairs.
Audience == [p \in Procs |-> [n \in DOMAIN log[p] |-> log[p][n].to \cap Procs]]
Abstract == INSTANCE ReliableCast WITH
    Window <- NumPairs, audience <- Audience, handled <- dispatched
ImplementsCast == Abstract!Spec

\* Over a transport that does not overtake, the reliable messages of one sender
\* are handled in the order they were sent, with gaps: a message is never
\* retransmitted behind a newer one of the same sender. What is handled again
\* (after more than NumPairs others) is handled before anything newer.
InOrder == \A q \in Procs : \A i, j \in DOMAIN dispatched[q] :
    LET e == dispatched[q][i]
        f == dispatched[q][j]
    IN  i < j /\ e[1] = f[1] => e[2] < f[2] \/ (e[2] = f[2] /\ j - i > NumPairs)

\* The buffer drains: acknowledged, given up or overwritten, no message is
\* kept and retransmitted for ever, even if the network loses everything.
BufferDrains == \A p \in Procs : \A i \in BufIdx : Occupied(p, i) ~> ~Occupied(p, i)

=============================================================================
