---------------------------- MODULE SithTrackThing ----------------------------
(***************************************************************************)
(* A thing that moves along a path of frames (World/sithTrackThing.c), the *)
(* COG verbs that drive it (Cog/sithCogFunctionThing.c) and the message    *)
(* DSS_PATHMOVE that makes its copy on a client follow.                    *)
(*                                                                         *)
(* Scripts run on the host.  The ARRIVED and BLOCKED messages are calls:   *)
(* their handlers run inside the verb or the tick that sends them and may  *)
(* use the verbs again, so what such a call has still to do when they      *)
(* return is part of the state.  On the client the things are marked       *)
(* SITH_TF_INVULN and send no messages.                                    *)
(*                                                                         *)
(* The path lies on a line, a tick moves the thing by one unit, and an     *)
(* orientation is one of those of the frames, or Odd.                      *)
(***************************************************************************)
EXTENDS Integers, Sequences, SequencesExt

CONSTANTS
    Frames,      \* aFrames: a place and an orientation each; the first is frame 0
    MaxPlace,    \* the places are 0 .. MaxPlace
    Odd,         \* any orientation that is not a frame's
    SpinTicks,   \* how many ticks a revolution, or a turn about a pivot, takes
    Budgets      \* bounds: games, each with its transport and with how many verbs its
                 \* scripts may call, of those that are synchronized and of the others

HOST == "host"
CLIENT == "client"
Machines == {HOST, CLIENT}
\* A game of one player sends nothing; the transport of the others keeps the order of its
\* messages or, as what is sent again may come late, does not.
ALONE == "alone"
IN_ORDER == "in order"
ANY_ORDER == "any order"
Links == {ALONE, IN_ORDER, ANY_ORDER}
FrameNums == 0 .. Len(Frames) - 1
At(i) == Frames[i + 1]
Places == 0 .. MaxPlace
Faces == {At(i).face : i \in FrameNums} \cup {Odd}

ASSUME TrackAssumption ==
    /\ MaxPlace \in Nat /\ SpinTicks \in Nat \ {0}
    /\ Budgets \subseteq [link : Links, commands : Nat, others : Nat]
    /\ Frames \in Seq([place : Places, face : {At(i).face : i \in FrameNums}])
    /\ Frames # <<>> /\ \A i \in FrameNums : At(i).face # Odd

\* The bits of trackParams.flags: 1, 2, 4, 0x10, 0x40 and 0x80
Bits == {"moving", "turning", "toFrame", "pivot", "spin", "paused"}
UnderWay == {"moving", "turning"}    \* what sithCogScript_Tick and IsMoving ask for

VARIABLES
    thing,    \* on each machine: the thing with its trackParams
    calls,    \* the verbs and the tick of the host that wait for a handler, innermost last
    net,      \* the DSS_PATHMOVE messages on their way
    link,     \* the transport
    frame,    \* jkPlayer_currentTickIdx of the host, counting the frames that send something
    sent,     \* whether the frame has sent something
    ticked,   \* whether the frame has come by the thing, on the host
    seen,     \* field_260 of the client: the frame of its last message
    verbs     \* how many verbs may still be called

\* What the code does not record; only the properties read them.
VARIABLES
    owed,     \* a command was given and ARRIVED not sent since
    said,     \* how often ARRIVED was sent since the last command
    odd       \* what has happened that the properties except, see below

ghosts == <<owed, said, odd>>
vars == <<thing, calls, net, link, frame, sent, ticked, seen, verbs, ghosts>>

\* cur, goal, next: curframe, goalframe, field_258; dir, left: vel, field_1C; hits:
\* field_250; turn: what is left of field_24C; aim: trackParams.orientation.  reached
\* is history: the frame that a MoveToFrame has brought the thing to, -1 if none.
Resting == [flags |-> {}, cur |-> 0, goal |-> 0, next |-> 0, dir |-> 0, left |-> 0, hits |-> 0,
            turn |-> 0, aim |-> At(0).face, place |-> At(0).place, face |-> At(0).face,
            reached |-> -1]

-------------------------------------------------------------------------------
(* sithTrackThing.c.  A function gives the thing as it leaves it, and whether it *)
(* sends ARRIVED, which is always the last it does.                              *)

Still(t) == [thing |-> t, arrived |-> FALSE]

Sign(n) == IF n > 0 THEN 1 ELSE IF n < 0 THEN -1 ELSE 0
Distance(a, b) == IF a > b THEN a - b ELSE b - a

\* bug: the thing is not stopped
StopKeepsMoving(t) ==
    [thing |-> [t EXCEPT !.flags = @ \ {"turning", "toFrame", "pivot"},
                         !.goal = 0, !.next = 0, !.hits = 0],
     arrived |-> TRUE]

\* sithTrackThing_Stop
Stop(t) ==
    [thing |-> [t EXCEPT !.flags = @ \ {"moving", "turning", "toFrame", "pivot"},
                         !.goal = 0, !.next = 0, !.hits = 0],
     arrived |-> TRUE]

\* vel and field_1C for a frame; where the thing is there already, only vel changes.
HeadFor(t, i) ==
    LET way == At(i).place - t.place IN
    IF way = 0 THEN [t EXCEPT !.dir = 0]
    ELSE [t EXCEPT !.dir = Sign(way), !.left = Distance(At(i).place, t.place),
                   !.hits = 0, !.flags = @ \cup {"moving"}]

\* sithTrackThing_PrepareForOrient; thinga is at least 1.
PrepareForOrient(t, i) ==
    IF At(i).face = t.face THEN t
    ELSE [t EXCEPT !.aim = At(i).face, !.turn = IF t.left > 1 THEN t.left ELSE 1,
                   !.flags = (@ \ {"pivot"}) \cup {"turning"}]

\* sithTrackThing_Arrivedidk: on to the next frame towards the goal.
Arrivedidk(t) ==
    IF t.cur = t.goal
    THEN LET u == HeadFor(t, t.goal) IN
         IF u.left = 0 THEN Stop(u) ELSE Still(PrepareForOrient(u, t.goal))
    ELSE LET i == IF t.cur >= 0 THEN t.cur + Sign(t.goal - t.cur) ELSE t.goal
         IN Still(PrepareForOrient(HeadFor([t EXCEPT !.next = i], i), i))

\* sithTrackThing_MoveToFrame, SkipToFrame
MoveToFrame(t, i) ==
    Arrivedidk([t EXCEPT !.flags = @ \cup {"toFrame"}, !.goal = i, !.reached = -1])
SkipToFrame(t, i) ==
    Still(HeadFor([t EXCEPT !.flags = @ \ {"toFrame"}, !.goal = i, !.reached = -1], i))

\* sithTrackThing_RotatePivot, Rotate
RotatePivot(t) == [t EXCEPT !.flags = @ \cup {"turning", "pivot"}, !.cur = -1,
                            !.turn = SpinTicks, !.hits = 0, !.reached = -1]
Rotate(t) == [t EXCEPT !.flags = @ \cup {"turning", "spin"}, !.cur = -1,
                       !.turn = SpinTicks, !.hits = 0, !.reached = -1]

\* bug: the first frame on the way is the end
StoppedMovingEarly(t) ==
    LET u == [t EXCEPT !.cur = t.next] IN
    [Stop(u) EXCEPT !.thing.reached = IF "toFrame" \in t.flags THEN u.goal ELSE -1]

\* sithTrackThing_StoppedMoving
StoppedMoving(t) ==
    LET u == [t EXCEPT !.cur = t.next] IN
    IF "toFrame" \in t.flags /\ u.cur # u.goal THEN Arrivedidk(u)
    ELSE [Stop(u) EXCEPT !.thing.reached = IF "toFrame" \in t.flags THEN u.goal ELSE -1]

-------------------------------------------------------------------------------
(* sithTrackThing_Tick *)

\* The rotation.  A turn about a pivot moves the thing, and may be obstructed; its end
\* leaves the orientation where it is, that of any other one sets it.
Turned(t, free, place) ==
    IF "turning" \notin t.flags THEN t
    ELSE IF "pivot" \in t.flags /\ ~free THEN [t EXCEPT !.face = Odd]
    ELSE LET over == t.turn <= 1
             u == [t EXCEPT !.turn = IF over THEN 0 ELSE @ - 1, !.face = Odd,
                            !.place = IF "pivot" \in t.flags THEN place ELSE @]
         IN IF ~over THEN u
            ELSE [u EXCEPT !.flags = @ \ {"turning", "pivot"},
                           !.face = IF "pivot" \in t.flags THEN Odd ELSE t.aim]

\* The translation, a whole step or none.
Onward(t) == IF t.place + t.dir \in Places THEN t.place + t.dir ELSE t.place
\* bug: one step too many
MovedFurther(t, free) ==
    IF "moving" \notin t.flags THEN t
    ELSE IF ~free THEN [t EXCEPT !.hits = IF @ < 3 THEN @ + 1 ELSE @]
    ELSE [t EXCEPT !.place = Onward(t), !.left = @ - 1,
                   !.flags = IF t.left = 0 THEN @ \ {"moving"} ELSE @]

Moved(t, free) ==
    IF "moving" \notin t.flags THEN t
    ELSE IF ~free THEN [t EXCEPT !.hits = IF @ < 3 THEN @ + 1 ELSE @]
    ELSE [t EXCEPT !.place = Onward(t), !.left = @ - 1,
                   !.flags = IF t.left = 1 THEN @ \ {"moving"} ELSE @]

Ticks(t) == t.flags # {} /\ "paused" \notin t.flags
Blocked(t) == "moving" \in t.flags /\ t.hits > 2

\* bug: a thing with a frame still to reach is under way
TickEndIdle(t) == IF t.flags = {} THEN StoppedMoving(t) ELSE Still(t)

\* What comes after the BLOCKED message.
TickEnd(t) == IF t.flags \cap UnderWay = {} THEN StoppedMoving(t) ELSE Still(t)

-------------------------------------------------------------------------------
(* The host *)

TickCall == [fn |-> "Tick"]
SendCall(op, i) == [fn |-> "Send", op |-> op, frame |-> i]

\* sithDSSThing_SendPathMove: with the place of the thing as it is now
SendPathMove(op, i, t) ==
    IF link = ALONE THEN UNCHANGED <<frame, sent, net>>
    ELSE /\ frame' = IF sent THEN frame ELSE frame + 1
         /\ sent' = TRUE
         /\ net' = Append(net, [op |-> op, frame |-> i, place |-> t.place, face |-> t.face,
                                stamp |-> frame'])

\* A tick that ends with ARRIVED has nothing left to do when the handler returns.
Heard(r) ==
    /\ owed' = (owed /\ ~r.arrived)
    /\ said' = IF r.arrived /\ said < 2 THEN said + 1 ELSE said

\* What sithCollision makes of a tick: is the turn free, is the way free, and where
\* does a turn about a pivot take the thing.
Ways(t) == {w \in [turn : BOOLEAN, go : BOOLEAN, place : Places] :
    /\ "pivot" \notin t.flags => w.turn /\ w.place = t.place
    /\ "moving" \notin t.flags => w.go}

FreeWay(t) == {[turn |-> TRUE, go |-> TRUE, place |-> t.place]}

\* A frame comes by the thing once, in sithThing_TickAll.  Timers and messages have been
\* handled before it and other things and scripts are after it, in the same frame.
TickHost(ways) == \E u \in {Moved(Turned(thing[HOST], w.turn, w.place), w.go) : w \in ways} :
    /\ calls = <<>> /\ ~ticked /\ Ticks(thing[HOST])
    /\ IF Blocked(u)
       THEN /\ thing' = [thing EXCEPT ![HOST] = u]
            /\ calls' = <<TickCall>>
            /\ UNCHANGED <<owed, said>>
       ELSE /\ thing' = [thing EXCEPT ![HOST] = TickEnd(u).thing]
            /\ Heard(TickEnd(u))
            /\ UNCHANGED calls
    /\ ticked' = TRUE
    /\ UNCHANGED <<net, link, frame, sent, seen, verbs, odd>>

\* The thing is at rest or paused: the tick returns at once.
TickIdle ==
    /\ calls = <<>> /\ ~ticked /\ ~Ticks(thing[HOST])
    /\ ticked' = TRUE
    /\ UNCHANGED <<thing, calls, net, link, frame, sent, seen, verbs, ghosts>>

\* sithMain_Tick begins the next frame: what is sent from now on has another stamp.
FramePasses ==
    /\ calls = <<>> /\ ticked
    /\ ticked' = FALSE /\ sent' = FALSE
    /\ UNCHANGED <<thing, calls, net, link, frame, seen, verbs, ghosts>>

\* The handler of BLOCKED, or of an ARRIVED that a verb has sent, returns.
Return ==
    /\ calls # <<>> /\ calls' = Front(calls)
    /\ LET call == Last(calls)
           r == TickEnd(thing[HOST])
       IN IF call.fn = "Tick"
          THEN /\ thing' = [thing EXCEPT ![HOST] = r.thing]
               /\ Heard(r)
               /\ UNCHANGED <<net, frame, sent, odd>>
          ELSE /\ SendPathMove(call.op, call.frame, thing[HOST])
               /\ odd' = IF sent THEN odd \cup {"crossed"} ELSE odd \ {"crossed"}
               /\ UNCHANGED <<thing, owed, said>>
    /\ UNCHANGED <<link, ticked, seen, verbs>>

\* Whether a command finds the thing still about to turn.
AboutToTurn(t) == "turning" \in t.flags /\ t.face # Odd
Hasty(m) == IF m = HOST THEN "hasty" ELSE "hasty copy"
Hastily(m, t) == IF AboutToTurn(t) THEN {Hasty(m)} ELSE {}
After(t) ==
    (odd \ {Hasty(HOST), "astray", "again"})
    \cup Hastily(HOST, t)
    \cup (IF {"pivot", "spin"} \cap t.flags # {} THEN {"astray"} ELSE {})
    \cup (IF \E i \in DOMAIN calls : calls[i] = TickCall THEN {"again"} ELSE {})

\* sithCogFunctionThing_MoveToFrame, SkipToFrame, StopThing: they are synchronized.
Command(op, i) ==
    LET t == thing[HOST]
        r == CASE op = "move" -> MoveToFrame(t, i)
               [] op = "skip" -> SkipToFrame(t, i)
               [] op = "stop" -> Stop([t EXCEPT !.reached = -1])
    IN /\ verbs.commands > 0 /\ verbs' = [verbs EXCEPT !.commands = @ - 1]
       /\ thing' = [thing EXCEPT ![HOST] = r.thing]
       /\ owed' = (~r.arrived /\ (op = "move" \/ UnderWay \cap r.thing.flags # {}))
       /\ said' = IF r.arrived THEN 1 ELSE 0
       /\ IF r.arrived
          THEN calls' = Append(calls, SendCall(op, i)) /\ odd' = After(t)
               /\ UNCHANGED <<net, frame, sent>>
          ELSE /\ SendPathMove(op, i, r.thing)
               /\ odd' = IF sent /\ link = ANY_ORDER THEN After(t) \cup {"crossed"}
                         ELSE After(t) \ {"crossed"}
               /\ UNCHANGED calls
       /\ UNCHANGED <<link, ticked, seen>>

\* What is not synchronized: RotatePivot, Rotate, JumpToFrame.
Jump(t, i) == [t EXCEPT !.place = At(i).place, !.face = At(i).face, !.reached = -1]
Unsynced ==
    /\ verbs.others > 0 /\ verbs' = [verbs EXCEPT !.others = @ - 1]
    /\ \/ thing' = [thing EXCEPT ![HOST] = RotatePivot(@)] /\ owed' = TRUE /\ said' = 0
       \/ thing' = [thing EXCEPT ![HOST] = Rotate(@)] /\ owed' = TRUE /\ said' = 0
       \/ /\ \E i \in FrameNums : thing' = [thing EXCEPT ![HOST] = Jump(@, i)]
          /\ UNCHANGED <<owed, said>>
    /\ odd' = odd \cup {"astray"}
    /\ UNCHANGED <<calls, net, link, frame, sent, ticked, seen>>

\* sithTrackThing_PathMovePause, PathMoveResume
PathMovePause ==
    /\ verbs.others > 0 /\ verbs' = [verbs EXCEPT !.others = @ - 1]
    /\ UnderWay \cap thing[HOST].flags # {}
    /\ thing' = [thing EXCEPT ![HOST].flags = @ \cup {"paused"}]
    /\ UNCHANGED <<calls, net, link, frame, sent, ticked, seen, ghosts>>

PathMoveResume ==
    /\ "paused" \in thing[HOST].flags
    /\ thing' = [thing EXCEPT ![HOST].flags = @ \ {"paused"}]
    /\ UNCHANGED <<calls, net, link, frame, sent, ticked, seen, verbs, ghosts>>

-------------------------------------------------------------------------------
(* The client *)

TickClient(freeMove) ==
    LET t == thing[CLIENT] IN
    /\ Ticks(t) /\ ("moving" \notin t.flags => freeMove)
    /\ thing' = [thing EXCEPT ![CLIENT] =
          [TickEnd([Moved(Turned(t, TRUE, t.place), freeMove) EXCEPT !.hits = 0]).thing
           EXCEPT !.hits = 0]]
    /\ UNCHANGED <<calls, net, link, frame, sent, ticked, seen, verbs, ghosts>>

Follow(t, m) ==
    LET u == [t EXCEPT !.place = m.place, !.face = m.face] IN
    CASE m.op = "move" -> MoveToFrame(u, m.frame).thing
      [] m.op = "skip" -> SkipToFrame(u, m.frame).thing
      [] m.op = "stop" -> Stop([u EXCEPT !.reached = -1]).thing

\* bug: the last to arrive wins
ProcessAnyPathMove(k) ==
    /\ k \in DOMAIN net /\ (link = IN_ORDER => k = 1)
    /\ net' = RemoveAt(net, k)
    /\ seen' = IF seen <= net[k].stamp THEN net[k].stamp ELSE seen
    /\ thing' = [thing EXCEPT ![CLIENT] = Follow(@, net[k])]
    /\ UNCHANGED <<calls, link, frame, sent, ticked, verbs, ghosts>>

\* sithDSSThing_ProcessPathMove: what is older than the last message is dropped.
ProcessPathMove(k) ==
    /\ k \in DOMAIN net /\ (link = IN_ORDER => k = 1)
    /\ net' = RemoveAt(net, k)
    /\ LET m == net[k] IN
       IF seen <= m.stamp
       THEN /\ seen' = m.stamp
            /\ thing' = [thing EXCEPT ![CLIENT] = Follow(@, m)]
            /\ odd' = (odd \ {Hasty(CLIENT)})
                      \cup Hastily(CLIENT, [thing[CLIENT] EXCEPT !.face = m.face])
       ELSE UNCHANGED <<seen, thing, odd>>
    /\ UNCHANGED <<calls, link, frame, sent, ticked, verbs, owed, said>>

-------------------------------------------------------------------------------

Init ==
    /\ thing = [m \in Machines |-> Resting]
    /\ calls = <<>> /\ net = <<>>
    /\ frame = 0 /\ sent = FALSE /\ ticked = FALSE /\ seen = 0
    /\ \E b \in Budgets :
          link = b.link /\ verbs = [commands |-> b.commands, others |-> b.others]
    /\ owed = FALSE /\ said = 0 /\ odd = {}

Next ==
    \/ TickHost(Ways(thing[HOST]))
    \/ TickIdle \/ FramePasses \/ Return
    \/ \E i \in FrameNums : Command("move", i) \/ Command("skip", i)
    \/ Command("stop", 0)
    \/ Unsynced \/ PathMovePause \/ PathMoveResume
    \/ TickClient(TRUE) \/ TickClient(FALSE)
    \/ \E k \in DOMAIN net : ProcessPathMove(k)

Spec == Init /\ [][Next]_vars

\* Frames keep coming and handlers return; who stands in the way goes away in the end.
Fairness ==
    /\ WF_vars(Return) /\ WF_vars(TickIdle) /\ WF_vars(FramePasses)
    /\ SF_vars(TickHost(FreeWay(thing[HOST])))
FairSpec == Spec /\ Fairness

-------------------------------------------------------------------------------
(* Properties *)

Things == [flags : SUBSET Bits, cur : FrameNums \cup {-1}, goal : FrameNums, next : FrameNums,
           dir : -1..1, left : 0..MaxPlace, hits : 0..3, turn : 0..(MaxPlace + SpinTicks),
           aim : Faces, place : Places, face : Faces, reached : FrameNums \cup {-1}]

\* Types: every index into aFrames is one, through all changes of mind.
TypeOK ==
    /\ thing \in [Machines -> Things]
    /\ \A i \in DOMAIN calls : calls[i].fn \in {"Tick", "Send"}
    /\ \A k \in DOMAIN net : net[k].stamp \in 1..frame /\ net[k].place \in Places
    /\ link \in Links /\ frame \in Nat /\ sent \in BOOLEAN /\ ticked \in BOOLEAN /\ seen \in 0..frame
    /\ verbs \in [commands : Nat, others : Nat]
    /\ owed \in BOOLEAN /\ said \in 0..2
    /\ odd \subseteq {Hasty(HOST), Hasty(CLIENT), "astray", "again", "crossed"}

\* A thing that says it has arrived after a MoveToFrame stands at its goal, and knows it,
\* wherever it came from and whatever was ordered before.  It also looks as it should
\* there, but for a last command that comes before the first tick of a turn:
\* PrepareForOrient finds nothing to turn and leaves the old turn going.
ArrivedThere == \A m \in Machines :
    LET t == thing[m] IN
    t.reached # -1 /\ "astray" \notin odd =>
        /\ t.cur = t.reached /\ t.place = At(t.reached).place
        /\ t.face = At(t.reached).face \/ Hasty(m) \in odd

\* No command is answered by more than one ARRIVED.  The exceptions: after Rotate the spin
\* bit is never cleared and every tick says it again; and a handler of BLOCKED that stops
\* the thing is followed by the end of the tick, which stops it once more.
AnsweredOnce == said <= 1 \/ "spin" \in thing[HOST].flags \/ "again" \in odd

\* When everything is delivered and both copies are at rest, they are at the same place.
\* The exceptions: verbs that are not synchronized, and two verbs in one frame whose
\* messages change places, on the network or because the first had an ARRIVED handler.
AtRest(t) == ({"toFrame"} \cup UnderWay) \cap t.flags = {}
Agree ==
    link # ALONE /\ net = <<>> /\ calls = <<>> /\ {"astray", "crossed"} \cap odd = {}
        /\ (\A m \in Machines : AtRest(thing[m]))
    => thing[HOST].place = thing[CLIENT].place

\* What was ordered to move stops again and says so with an ARRIVED, unless it is paused:
\* scripts that wait for it go on.
MoveEnds == []<>(\/ ~owed /\ UnderWay \cap thing[HOST].flags = {}
                 \/ "paused" \in thing[HOST].flags)
===============================================================================
