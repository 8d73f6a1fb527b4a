------------------------------- MODULE SithMulti ------------------------------
(***************************************************************************)
(* A multiplayer session: Dss/sithMulti.c on the host and on the players,  *)
(* over the transport of Platform/Networking/GNS/stdComm_GNS.cpp.          *)
(*                                                                         *)
(* A player connects, is given an id, and asks to join until the host has  *)
(* sent it the state of the world, in four stages of which every frame     *)
(* does some steps, and welcomes it to a player slot.  The host confirms   *)
(* the slot when the player announces itself.  Players vanish, are dropped *)
(* or ejected; levels end; the host leaves; ids are given out again.       *)
(***************************************************************************)
EXTENDS Integers, Sequences, FiniteSets

CONSTANTS
    Clients,     \* the machines of the players
    NumSlots,    \* jkPlayer_maxPlayers - 1: slot 0 is the host's own
    NumIds,      \* 64: availableIds of the transport; id 1 is the host
    NumSurfaces, NumSectors,  \* of the level
    Surfaces,    \* the surfaces that are SITH_SURFACE_CHANGED
    Sectors,     \* the sectors that are SITH_SECTOR_SYNC or have their adjoins set
    Things,      \* the things that sithThing_ShouldSync
    ListSize,    \* 0x100: how many destroyed things sithMulti_arr_832218 holds
    FrameSteps,  \* SITHTIME_MAXDELTA / MULTI_BIG_UPDATE_INTERVAL_MS: the longest frame
    \* bounds of the model, not of the code
    MaxUp, MaxDown, \* no player, and no clock, sends more while this much is under way
    MaxConnects, \* how many connections are made in all
    MaxDestroyed, \* how many things are destroyed
    MaxDrops,    \* how often the host drops a silent player
    MaxLevels,   \* how many levels are played
    HostMayLeave

Slots == 1 .. NumSlots
Ids == 2 .. NumIds
NoId == 0        \* DPID_ALLPLAYERS, and the net_id of a free slot

ASSUME MultiAssumption ==
    /\ NumSlots \in Nat \ {0} /\ NumIds \in Nat \ {0} /\ NoId \notin Ids
    /\ NumSurfaces \in Nat /\ NumSectors \in Nat
    /\ Surfaces \subseteq 0 .. NumSurfaces - 1 /\ Sectors \subseteq 0 .. NumSectors - 1
    /\ ListSize \in Nat /\ FrameSteps \in Nat
    /\ MaxUp \in Nat /\ MaxDown \in Nat /\ MaxConnects \in Nat /\ MaxDestroyed \in Nat
    /\ MaxDrops \in Nat /\ MaxLevels \in Nat \ {0} /\ HostMayLeave \in BOOLEAN

VARIABLES
    (* the host *)
    slot,       \* jkPlayer_playerInfos: net_id, and JOINEDGAME of flags
    join,       \* the join in progress: bNeedsFullThingSyncForLeaveJoin, sendto_id,
                \* requestConnectIdx, currentBigSyncStage and the cursor dword_832208
    frame,      \* the steps that sithMulti_HandleTimeLimit has left in this frame
    ending,     \* sithMulti_leaveJoinType is 1
    syncScores, \* sithNet_bSyncScores
    destroyed,  \* sithMulti_dword_83265C, the length of the list of destroyed things
    mode,       \* "game"; "lobby" between two levels; "gone" when the host has left
    level,      \* which level it plays
    (* the transport *)
    conn,       \* the id of a player's connection, NoId for none (m_mapClients)
    up, down,   \* what is on the way to the host and to a player, in order
    gone,       \* m_DisconnectedPeers
    (* the players *)
    client,     \* see Out
    left        \* bounds: the connections, drops and destroyed things that are left;
                \* history: given, the ids above it have not been given out yet, and
                \* odd, what has happened after which the list of players may be wrong:
                \* "late" a player took up the welcome to a level that is over,
                \* "over" a frame of the transfer went on to a second last stage

host == <<slot, join, frame, ending, syncScores, destroyed, mode, level>>
vars == <<host, conn, up, down, gone, client, left>>

Free == [net |-> NoId, joined |-> FALSE]
NoJoin == [active |-> FALSE, to |-> NoId, idx |-> 1, stage |-> 2, cursor |-> 0]

\* status: "joining" is SITH_SUBMODE_JOINING; leave: sithMulti_leaveJoinType; knows:
\* sithNet_serverNetId is set; slot: playerThingIdx; first, got and owed are history:
\* nobody had its id before; what it has of the host's world; and what that was when
\* the host first took up its request
Out == [status |-> "out", level |-> 0, leave |-> 0, knows |-> FALSE, slot |-> 0,
        first |-> TRUE, got |-> {}, owed |-> {}]

Request(l) == [kind |-> "joinrequest", level |-> l]
Announce(i) == [kind |-> "announce", slot |-> i]
Pos == [kind |-> "pos"]
Joining(code) == [kind |-> "joining", code |-> code]
Snap(items) == [kind |-> "snap", items |-> items]
Welcome(i) == [kind |-> "welcome", slot |-> i]
LeaveJoin == [kind |-> "leavejoin"]
Quit == [kind |-> "quit"]
EndLevel == [kind |-> "endlevel"]

Destroyed(n) == <<"destroyed", n>>
World == {<<"surface", n>> : n \in Surfaces} \cup {<<"sector", n>> : n \in Sectors}
         \cup {<<"thing", n>> : n \in Things}
WorldNow == World \cup {Destroyed(n) : n \in 1 .. destroyed}

-----------------------------------------------------------------------------
(* The transport: GNSServer.  It keeps the order of a connection and loses  *)
(* nothing while the connection lasts.                                      *)

\* Send, to whoever has the id; nobody has NoId
Sent(d, id, msgs) == [c \in Clients |-> IF conn[c] = id /\ id # NoId THEN d[c] \o msgs ELSE d[c]]
SentToJoined(d, msgs) == [c \in Clients |->
    IF \E i \in Slots : slot[i].joined /\ slot[i].net = conn[c] /\ conn[c] # NoId
    THEN d[c] \o msgs ELSE d[c]]

HoldsId(i, id) == slot[i].net = id
SlotOf(id) == CHOOSE i \in Slots : HoldsId(i, id) /\ \A j \in 1 .. i - 1 : ~HoldsId(j, id)
InList(id) == \E i \in Slots : HoldsId(i, id)

FreeIds == Ids \ {conn[c] : c \in Clients}
FirstFreeId == CHOOSE id \in FreeIds : \A o \in FreeIds : id <= o

\* the first free id of availableIds, also if somebody had it before
Connect(c) ==
    /\ mode # "gone" /\ client[c].status = "out" /\ left.connects > 0 /\ FreeIds # {}
    /\ conn' = [conn EXCEPT ![c] = FirstFreeId]
    /\ client' = [client EXCEPT ![c] = [Out EXCEPT !.status = "joining", !.level = level,
                                                    !.first = FirstFreeId > left.given]]
    /\ left' = [left EXCEPT !.connects = @ - 1,
                             !.given = IF FirstFreeId > @ THEN FirstFreeId ELSE @]
    /\ UNCHANGED <<host, up, down, gone>>

\* bug: the connection's id is forgotten before it is reported
ClosedIdFirst(c) ==
    /\ conn' = [conn EXCEPT ![c] = NoId]
    /\ gone' = IF InList(conn'[c]) THEN Append(gone, conn'[c]) ELSE gone
    /\ up' = [up EXCEPT ![c] = <<>>]
    /\ down' = [down EXCEPT ![c] = <<>>]
    /\ client' = [client EXCEPT ![c] = Out]
    /\ UNCHANGED <<host, left>>

\* ClosedByPeer or ProblemDetectedLocally: sithMulti hears of it only if the id is in a slot
Closed(c) ==
    /\ conn' = [conn EXCEPT ![c] = NoId]
    /\ gone' = IF conn[c] # NoId /\ InList(conn[c]) THEN Append(gone, conn[c]) ELSE gone
    /\ up' = [up EXCEPT ![c] = <<>>]
    /\ down' = [down EXCEPT ![c] = <<>>]
    /\ client' = [client EXCEPT ![c] = Out]
    /\ UNCHANGED <<host, left>>

\* the player is refused, ejected or tired
Leave(c) == client[c].status = "leaving" /\ Closed(c)
\* the machine, or its connection, breaks down
Vanish(c) == client[c].status \in {"joining", "playing"} /\ Closed(c)

-----------------------------------------------------------------------------
(* The host between two frames *)

HostRuns == mode = "game" /\ frame = 0

\* bug: the join is over but still counts as in progress
NoSyncButActive == [join EXCEPT !.to = NoId, !.stage = 2, !.cursor = 0]
NoSync == [join EXCEPT !.active = FALSE, !.to = NoId, !.stage = 2, !.cursor = 0]

\* JOINING 3 to the player that was joining, at four places of sithMulti.c
GivesUpJoin(d) == IF join.active THEN Sent(d, join.to, <<Joining(3)>>) ELSE d

FreeSlots == {i \in Slots : slot[i].net = NoId}
FirstFree == CHOOSE i \in FreeSlots : \A j \in FreeSlots : i <= j

\* bug: who is in the list is welcomed to the slot of the last request
RefusalToRequested(id, l) ==
    CASE l # level -> <<Joining(6)>>
      [] l = level /\ InList(id) -> <<Welcome(join.idx)>>
      [] l = level /\ ~InList(id) /\ ~ending /\ join.active -> <<Joining(1)>>
      [] OTHER -> <<Joining(3)>>

\* sithMulti_ProcessJoinRequest: the answer when the request is not taken up
Refusal(id, l) ==
    CASE l # level -> <<Joining(6)>>
      [] l = level /\ InList(id) -> <<Welcome(SlotOf(id))>>
      [] l = level /\ ~InList(id) /\ ending -> <<Joining(3)>>
      [] l = level /\ ~InList(id) /\ ~ending /\ join.active ->
            IF join.to = id THEN <<Joining(0)>> ELSE <<Joining(1)>>
      [] OTHER -> <<Joining(5)>>

\* bug: a player that is welcome already gets another slot
TakesUpAgain(id, l) == l = level /\ ~ending /\ ~join.active /\ FreeSlots # {}

TakesUp(id, l) ==
    l = level /\ ~InList(id) /\ ~ending /\ ~join.active /\ FreeSlots # {}

\* up to here the slot is not reserved: its net_id stays free until the last stage
ProcessJoinRequest(id, l) ==
    IF TakesUp(id, l)
    THEN /\ slot' = [slot EXCEPT ![FirstFree] = Free]
         /\ join' = [active |-> TRUE, to |-> id, idx |-> FirstFree, stage |-> 2, cursor |-> 0]
         /\ down' = Sent(down, id, <<Joining(0), LeaveJoin>>)
         /\ UNCHANGED syncScores
    ELSE /\ down' = Sent(down, id, Refusal(id, l))
         /\ UNCHANGED <<slot, join, syncScores>>

\* sithMulti_ProcessJoinLeave and sithPlayer_sub_4C87C0
Announced(i, id) ==
    IF slot[i].joined
    THEN UNCHANGED <<slot, syncScores>>
    ELSE slot' = [slot EXCEPT ![i] = [net |-> id, joined |-> TRUE]] /\ syncScores' = TRUE

\* sithComm_Sync: sithMulti_SendQuit to a sender that is in no slot
EjectStranger(d, id) == IF InList(id) THEN d ELSE Sent(d, id, <<Quit>>)

\* bug: a message may be taken before the players that are gone
HostReceivesEarly == HostRuns
\* GNSServer::Receive: first the ids that are gone, then the messages
HostReceives == HostRuns /\ gone = <<>>

Handle(c, m) ==
    /\ up' = [up EXCEPT ![c] = Tail(@)]
    /\ UNCHANGED <<frame, ending, destroyed, mode, level, conn, gone, left>>
    /\ \/ /\ m.kind = "joinrequest"
          /\ ProcessJoinRequest(conn[c], m.level)
          /\ client' = IF TakesUp(conn[c], m.level) /\ client[c].owed = {}
                       THEN [client EXCEPT ![c].owed = WorldNow] ELSE client
       \/ /\ m.kind = "announce"
          /\ Announced(m.slot, conn[c])
          /\ UNCHANGED <<join, down, client>>
       \/ /\ m.kind = "pos"
          /\ down' = EjectStranger(down, conn[c])
          /\ UNCHANGED <<slot, join, syncScores, client>>

HostReceive(c) == HostReceives /\ up[c] # <<>> /\ Handle(c, Head(up[c]))

\* sithMulti_sub_4CA470: an id is gone
PlayerGone ==
    /\ HostRuns /\ gone # <<>>
    /\ gone' = Tail(gone)
    /\ LET id == Head(gone)
           his == join.active /\ join.to = id
       IN  /\ join' = IF his THEN NoSync ELSE join
           /\ down' = IF his THEN GivesUpJoin(down) ELSE down
           /\ slot' = IF InList(id) THEN [slot EXCEPT ![SlotOf(id)] = Free] ELSE slot
    /\ UNCHANGED <<frame, ending, syncScores, destroyed, mode, level, conn, up, client, left>>

\* sithMulti_ServerLeft: nothing was heard of a joined player for MULTI_TIMEOUT_MS
DropSilent(i) ==
    /\ HostRuns /\ slot[i].joined /\ left.drops > 0
    /\ \A c \in Clients : conn[c] = slot[i].net => up[c] = <<>>
    /\ down' = Sent(down, slot[i].net, <<Quit>>)
    /\ slot' = [slot EXCEPT ![i] = Free]
    /\ left' = [left EXCEPT !.drops = @ - 1]
    /\ UNCHANGED <<join, frame, ending, syncScores, destroyed, mode, level, conn, up, gone,
                   client>>

\* sithMulti_FreeThing: the joined players are told by another message
FreeThing ==
    /\ HostRuns /\ left.destroyed > 0
    /\ destroyed' = IF destroyed < ListSize THEN destroyed + 1 ELSE destroyed
    /\ left' = [left EXCEPT !.destroyed = @ - 1]
    /\ UNCHANGED <<slot, join, frame, ending, syncScores, mode, level, conn, up, down, gone,
                   client>>

-----------------------------------------------------------------------------
(* sithMulti_HandleTimeLimit, at the end of every frame of the host *)

\* sithMulti_ServerLeft: every MULTI_SCORE_UPDATE_INTERVAL_MS
ScoresDue ==
    /\ HostRuns /\ ~syncScores /\ \A c \in Clients : Len(down[c]) < MaxDown
    /\ syncScores' = TRUE
    /\ UNCHANGED <<slot, join, frame, ending, destroyed, mode, level, conn, up, down, gone,
                   client, left>>

SendScores ==
    /\ HostRuns /\ syncScores
    /\ syncScores' = FALSE
    /\ down' = SentToJoined(down, <<LeaveJoin>>)
    /\ UNCHANGED <<slot, join, frame, ending, destroyed, mode, level, conn, up, gone, client,
                   left>>

BeginSteps(k) ==
    /\ HostRuns /\ join.active /\ ~ending
    /\ frame' = k
    /\ UNCHANGED <<slot, join, ending, syncScores, destroyed, mode, level, conn, up, down,
                   gone, client, left>>

\* bug: the sweep looks behind the cursor only
Beyond(S, cursor) == {x \in S : x > cursor}
\* what the sweep of a stage has not come to
Ahead(S, cursor) == {x \in S : x >= cursor}

\* the stages 2 and 1: on to the next element that has changed, or to the end
SweepStep(stage, S, n, kind, nextStage) ==
    LET ahead == Ahead(S, join.cursor)
        x == CHOOSE y \in ahead : \A z \in ahead : y <= z
        cursor == IF ahead = {} THEN n ELSE x + 1
    IN  /\ join.stage = stage
        /\ down' = IF ahead = {} THEN down ELSE Sent(down, join.to, <<Snap({<<kind, x>>})>>)
        /\ join' = IF cursor >= n THEN [join EXCEPT !.stage = nextStage, !.cursor = 0]
                   ELSE [join EXCEPT !.cursor = cursor]
        /\ UNCHANGED <<slot, syncScores, left>>

\* stage 3: all things in one step
ThingStep ==
    /\ join.stage = 3
    /\ down' = Sent(down, join.to, <<Snap({<<"thing", n>> : n \in Things})>>)
    /\ join' = [join EXCEPT !.stage = 4, !.cursor = 0]
    /\ UNCHANGED <<slot, syncScores, left>>

\* stage 4: one destroyed thing in a step; with the last the player gets its slot.
\* The loop over the frame's steps goes on with stage 2, for nobody.
LastStep ==
    LET more == join.cursor < destroyed
        cursor == IF more THEN join.cursor + 1 ELSE join.cursor
        snap == IF more THEN <<Snap({Destroyed(cursor)})>> ELSE <<>>
    IN  /\ join.stage = 4
        /\ IF cursor >= destroyed
           THEN /\ slot' = [slot EXCEPT ![join.idx].net = join.to]
                /\ down' = Sent(down, join.to, snap \o <<LeaveJoin, Welcome(join.idx)>>)
                /\ join' = NoSync
                /\ syncScores' = TRUE
                /\ left' = IF join.active THEN left ELSE [left EXCEPT !.odd = @ \cup {"over"}]
           ELSE /\ down' = Sent(down, join.to, snap)
                /\ join' = [join EXCEPT !.cursor = cursor]
                /\ UNCHANGED <<slot, syncScores, left>>

SyncStep ==
    /\ mode = "game" /\ frame > 0
    /\ frame' = frame - 1
    /\ \/ SweepStep(2, Surfaces, NumSurfaces, "surface", 1)
       \/ SweepStep(1, Sectors, NumSectors, "sector", 3)
       \/ ThingStep
       \/ LastStep
    /\ UNCHANGED <<ending, destroyed, mode, level, conn, up, gone, client>>

\* jkDSS_SendEndLevel: a limit is met
EndsLevel ==
    /\ HostRuns /\ ~ending /\ level < MaxLevels
    /\ ending' = TRUE
    /\ down' = SentToJoined(down, <<EndLevel>>)
    /\ UNCHANGED <<slot, join, frame, syncScores, destroyed, mode, level, conn, up, gone,
                   client, left>>

\* HandleTimeLimit sees that the level ends
AbortJoin ==
    /\ HostRuns /\ ending /\ join.active
    /\ down' = GivesUpJoin(down)
    /\ join' = NoSync
    /\ UNCHANGED <<slot, frame, ending, syncScores, destroyed, mode, level, conn, up, gone,
                   client, left>>

\* the time is up: sithMulti_LobbyMessage drains the transport, events and all
LevelOver ==
    /\ HostRuns /\ ending
    /\ ending' = FALSE /\ mode' = "lobby"
    /\ down' = GivesUpJoin(down)
    /\ join' = IF join.active THEN NoSync ELSE join
    /\ up' = [c \in Clients |-> <<>>] /\ gone' = <<>>
    /\ UNCHANGED <<slot, frame, syncScores, destroyed, level, conn, client, left>>

\* sithMulti_Startup
OpenLevel ==
    /\ mode = "lobby"
    /\ mode' = "game" /\ level' = level + 1
    /\ slot' = [i \in Slots |-> Free]
    /\ join' = [join EXCEPT !.active = FALSE]
    /\ destroyed' = 0
    /\ up' = [c \in Clients |-> <<>>] /\ gone' = <<>>
    /\ UNCHANGED <<frame, ending, syncScores, conn, down, client, left>>

HostLeaves ==
    /\ HostMayLeave /\ mode # "gone"
    /\ mode' = "gone"
    /\ UNCHANGED <<slot, join, frame, ending, syncScores, destroyed, level, conn, up, down,
                   gone, client, left>>

-----------------------------------------------------------------------------
(* A player *)

CanSend(c) == Len(up[c]) < MaxUp /\ Len(down[c]) < MaxDown /\ mode # "gone"

\* jkGuiMultiplayer_idk: every two seconds while it joins
AskToJoin(c) ==
    /\ client[c].status = "joining" /\ CanSend(c)
    /\ up' = [up EXCEPT ![c] = Append(@, Request(client[c].level))]
    /\ UNCHANGED <<host, conn, down, gone, client, left>>

\* sithDSSThing_SendPos and everything else it sends while it plays
Play(c) ==
    /\ client[c].status = "playing" /\ CanSend(c)
    /\ up' = [up EXCEPT ![c] = Append(@, Pos)]
    /\ UNCHANGED <<host, conn, down, gone, client, left>>

\* sithMulti_ProcessJoinLeave, then sithMain_AutoSave announces the player twice
WelcomedTo(c, i) ==
    IF client[c].status = "joining"
    THEN /\ client' = [client EXCEPT ![c].status = "playing", ![c].slot = i]
         /\ up' = [up EXCEPT ![c] = @ \o <<Announce(i), Announce(i)>>]
         /\ left' = IF client[c].level = level THEN left
                    ELSE [left EXCEPT !.odd = @ \cup {"late"}]
    ELSE UNCHANGED <<client, up, left>>

\* bug: the player goes on playing
NotEjected(s) == s
\* sithMulti_ProcessQuit: from the host it knows
Ejected(s) == IF s.knows /\ s.leave # 2 THEN [s EXCEPT !.leave = 2] ELSE s

\* jkDSS_ProcessEndLevel: an ejection that was due is forgotten
LevelEnds(s) == IF s.knows THEN [s EXCEPT !.leave = 1] ELSE s

\* jkGuiMultiplayer_CogMsgHandleJoining
Answered(s, code) ==
    IF s.status = "joining" /\ code \in {3, 5, 6} THEN [s EXCEPT !.status = "leaving"] ELSE s

ClientReceive(c) ==
    LET m == Head(down[c])
        Becomes(s) == client' = [client EXCEPT ![c] = s] /\ UNCHANGED <<up, left>>
    IN  /\ mode # "gone" /\ client[c].status \in {"joining", "playing"} /\ down[c] # <<>>
        /\ down' = [down EXCEPT ![c] = Tail(@)]
        /\ UNCHANGED <<host, conn, gone>>
        /\ \/ m.kind = "welcome" /\ WelcomedTo(c, m.slot)
           \/ m.kind = "joining" /\ Becomes(Answered(client[c], m.code))
           \/ m.kind = "snap" /\ Becomes([client[c] EXCEPT !.got = @ \cup m.items])
           \/ m.kind = "leavejoin" /\ Becomes([client[c] EXCEPT !.knows = TRUE])
           \/ m.kind = "quit" /\ Becomes(Ejected(client[c]))
           \/ m.kind = "endlevel" /\ Becomes(LevelEnds(client[c]))

\* HandleTimeLimit of a player: leaveJoinType 2 is due
GoesAway(c) ==
    /\ client[c].status = "playing" /\ client[c].leave = 2
    /\ client' = [client EXCEPT ![c].status = "leaving"]
    /\ UNCHANGED <<host, conn, up, down, gone, left>>

\* leaveJoinType 1 is due: the next level is loaded, and the player joins it.  The
\* host began to wait before, and for as long.
NextLevel(c) ==
    /\ client[c].status = "playing" /\ client[c].leave = 1
    /\ level > client[c].level \/ mode # "game"
    /\ client' = [client EXCEPT ![c] =
           [Out EXCEPT !.status = "joining", !.level = client[c].level + 1,
                       !.knows = client[c].knows, !.first = client[c].first]]
    /\ down' = [down EXCEPT ![c] = <<>>]
    /\ UNCHANGED <<host, conn, up, gone, left>>

\* the connection to the host is closed, or it was silent for MULTI_TIMEOUT_MS
HostIsGone(c) ==
    /\ mode = "gone" /\ client[c].status \in {"joining", "playing"}
    /\ client' = [client EXCEPT ![c].status = "leaving"]
    /\ UNCHANGED <<host, conn, up, down, gone, left>>

-----------------------------------------------------------------------------
Init ==
    /\ slot = [i \in Slots |-> Free]
    /\ join = NoJoin /\ frame = 0 /\ ending = FALSE /\ syncScores = FALSE
    /\ destroyed = 0 /\ mode = "game" /\ level = 1
    /\ conn = [c \in Clients |-> NoId]
    /\ up = [c \in Clients |-> <<>>] /\ down = [c \in Clients |-> <<>>]
    /\ gone = <<>>
    /\ client = [c \in Clients |-> Out]
    /\ left = [connects |-> MaxConnects, drops |-> MaxDrops, destroyed |-> MaxDestroyed,
                given |-> 1, odd |-> {}]

Transport == \E c \in Clients : Connect(c) \/ Leave(c) \/ Vanish(c)
Host ==
    \/ \E c \in Clients : HostReceive(c)
    \/ \E i \in Slots : DropSilent(i)
    \/ \E k \in 1 .. FrameSteps : BeginSteps(k)
    \/ PlayerGone \/ FreeThing \/ ScoresDue \/ SendScores \/ SyncStep
    \/ EndsLevel \/ AbortJoin \/ LevelOver \/ OpenLevel \/ HostLeaves
Player == \E c \in Clients :
    \/ AskToJoin(c) \/ Play(c) \/ ClientReceive(c)
    \/ GoesAway(c) \/ NextLevel(c) \/ HostIsGone(c)
Next == Transport \/ Host \/ Player

Spec == Init /\ [][Next]_vars

\* Frames keep coming on the host and on every player; the transport delivers.
\* Nobody has to vanish, to be dropped, or to end a level.
HostFairness ==
    /\ WF_vars(SyncStep) /\ WF_vars(\E k \in 1 .. FrameSteps : BeginSteps(k))
    /\ WF_vars(PlayerGone) /\ WF_vars(SendScores)
    /\ WF_vars(AbortJoin) /\ WF_vars(LevelOver) /\ WF_vars(OpenLevel)
    /\ \A c \in Clients : SF_vars(HostReceive(c))
PlayerFairness == \A c \in Clients :
    /\ WF_vars(AskToJoin(c)) /\ WF_vars(Play(c)) /\ WF_vars(ClientReceive(c))
    /\ WF_vars(GoesAway(c)) /\ WF_vars(NextLevel(c)) /\ WF_vars(HostIsGone(c))
    /\ WF_vars(Leave(c))
FairSpec == Spec /\ HostFairness /\ PlayerFairness

-----------------------------------------------------------------------------
(* Properties *)

UpMsg == {Request(l) : l \in 1 .. MaxLevels + 1} \cup {Announce(i) : i \in Slots} \cup {Pos}
DownMsg(m) ==
    \/ m \in {Joining(code) : code \in {0, 1, 3, 5, 6}} \cup {Welcome(i) : i \in Slots}
             \cup {LeaveJoin, Quit, EndLevel}
    \/ m.kind = "snap" /\ m.items \subseteq World \cup {Destroyed(n) : n \in 1 .. ListSize}

\* Types: the cursor and the slot of a join stay in range through every stage, and
\* the list of destroyed things within its array.
TypeOK ==
    /\ slot \in [Slots -> [net : Ids \cup {NoId}, joined : BOOLEAN]]
    /\ join \in [active : BOOLEAN, to : Ids \cup {NoId}, idx : Slots, stage : 1 .. 4, cursor : Nat]
    /\ frame \in 0 .. FrameSteps /\ ending \in BOOLEAN /\ syncScores \in BOOLEAN
    /\ destroyed \in 0 .. ListSize /\ mode \in {"game", "lobby", "gone"}
    /\ level \in 1 .. MaxLevels
    /\ conn \in [Clients -> Ids \cup {NoId}]
    /\ \A c \in Clients : \A k \in DOMAIN up[c] : up[c][k] \in UpMsg
    /\ \A c \in Clients : \A k \in DOMAIN down[c] : DownMsg(down[c][k])
    /\ gone \in Seq(Ids) /\ left.odd \subseteq {"late", "over"}
    /\ \A c \in Clients : client[c].status \in {"out", "joining", "playing", "leaving"}
                          /\ client[c].leave \in 0 .. 2 /\ client[c].slot \in Slots \cup {0}

Playing(c) == client[c].status = "playing"

\* Neither a welcome taken up in the next level nor a frame that went on to a second
\* last stage has upset the list of players.
InOrder == left.odd = {}

\* A player that plays has the whole snapshot: all of the host's world as it was when
\* the host first took up its request, through every abort, destruction and change of level.
\* It is a property of the first owner of an id; what the next ones get is
\* SynchronizedFirst's.
SnapshotComplete == InOrder => \A c \in Clients :
    Playing(c) /\ client[c].first => World \cup client[c].owed \subseteq client[c].got

\* Ids are given out again: a player that is gone frees its slot before the id's
\* next owner can be in one.
GoneBeforeReuse == InOrder =>
    \A c \in Clients, k \in DOMAIN gone : conn[c] = gone[k] => ~Playing(c)

\* No player is in two slots.
OneSlotEach == InOrder =>
    \A i, j \in Slots : slot[i].net = slot[j].net /\ slot[i].net # NoId => i = j

\* The host and a player that it lists agree on which slot is the player's.
HasSlot(c) == conn[c] # NoId /\ InList(conn[c])
SlotAgreed == InOrder => \A c \in Clients :
    Playing(c) /\ HasSlot(c) => client[c].slot = SlotOf(conn[c])

\* Who plays without a slot does not do so for ever: the host ejects it, or takes it in.
Stranger(c) == Playing(c) /\ client[c].knows /\ ~HasSlot(c)
StrangersGo == \A c \in Clients : Stranger(c) ~> ~Stranger(c)

\* Who asks to join is answered: it plays, or is refused.
JoinResolved == \A c \in Clients : client[c].status = "joining" ~> client[c].status # "joining"

\* types_enums.h: while SITH_SUBMODE_JOINING is set a player is synchronizing the
\* game state from the host; so when it plays, it has that state.
SynchronizedFirst == \A c \in Clients : Playing(c) => World \subseteq client[c].got
=============================================================================
