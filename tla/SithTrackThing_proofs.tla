------------------------- MODULE SithTrackThing_proofs -------------------------
(***************************************************************************)
(* Where a thing on a path ends, how often it says so, and that its copy   *)
(* ends there too: for every path, however many verbs the scripts call.    *)
(***************************************************************************)
EXTENDS SithTrackThing, TLAPS

-------------------------------------------------------------------------------
(* The invariant *)

Ops == {"move", "skip", "stop"}
Calls == {TickCall} \cup [fn : {"Send"}, op : Ops, frame : FrameNums]
Messages == [op : Ops, frame : FrameNums, place : Places, face : Faces, stamp : Nat]

\* Where the thing is when its translation is over, and when its whole walk is.
Target(t) == IF "moving" \notin t.flags THEN t.place
             ELSE IF t.dir = 1 THEN t.place + t.left
             ELSE IF t.dir = -1 THEN t.place - t.left ELSE t.place
Final(t) == IF "toFrame" \in t.flags THEN At(t.goal).place ELSE Target(t)

\* The orientation when its turn is over.
Looks(t, i) == /\ "turning" \in t.flags => t.aim = At(i).face
               /\ "turning" \notin t.flags => t.face = At(i).face

\* A thing that moves has some way left, so that the way is never negative.
Thing(t) == t \in Things /\ ("moving" \in t.flags => t.left >= 1)

\* A walk is towards the next frame or, where the next one is left from an earlier walk,
\* towards the goal itself; h is not empty if the last command was hasty.
Sound(t, h) ==
    /\ {"pivot", "spin"} \cap t.flags = {}
    /\ Target(t) \in Places
    /\ "toFrame" \in t.flags =>
          \E i \in {t.next, t.goal} : Target(t) = At(i).place /\ (h # {} \/ Looks(t, i))
    /\ t.reached # -1 =>
          /\ UnderWay \cap t.flags = {} /\ "toFrame" \notin t.flags
          /\ t.cur = t.reached /\ t.place = At(t.reached).place
          /\ h # {} \/ t.face = At(t.reached).face

\* The types, with what the messages and the calls are.
Typed ==
    /\ thing \in [Machines -> Things] /\ \A m \in Machines : Thing(thing[m])
    /\ calls \in Seq(Calls) /\ \A i \in DOMAIN calls : calls[i] = TickCall => i = 1
    /\ net \in Seq(Messages) /\ \A k \in DOMAIN net : net[k].stamp \in 1 .. frame
    /\ link \in Links /\ frame \in Nat /\ sent \in BOOLEAN /\ seen \in 0 .. frame
    /\ ticked \in BOOLEAN
    /\ sent => frame >= 1
    /\ verbs \in [commands : Nat, others : Nat]
    /\ owed \in BOOLEAN /\ said \in 0 .. 2
    /\ odd \subseteq {Hasty(HOST), Hasty(CLIENT), "astray", "again", "crossed"}

Late(m) == odd \cap {Hasty(m)}

\* Each of the two copies walks soundly; the host's, once a verb has let it go astray, not
\* before the next command.
Walks ==
    /\ Sound(thing[CLIENT], Late(CLIENT))
    /\ "astray" \notin odd => Sound(thing[HOST], Late(HOST))

\* Who has said ARRIVED has nothing under way and no tick to end.
HasTick == \E i \in DOMAIN calls : calls[i] = TickCall
Answered ==
    "spin" \notin thing[HOST].flags /\ "again" \notin odd =>
        /\ said <= 1
        /\ said = 1 => ~HasTick /\ thing[HOST].flags \subseteq {"paused"}

\* Where a message takes the copy.
Dest(m) == IF m.op = "stop" THEN m.place ELSE At(m.frame).place
NoSends == \A i \in DOMAIN calls : calls[i] = TickCall

\* What a transport that keeps the order shows of the stamps.
Stamped ==
    link = IN_ORDER =>
        /\ \A j, k \in DOMAIN net : j <= k => net[j].stamp <= net[k].stamp
        /\ \A k \in DOMAIN net : seen <= net[k].stamp

\* The newest message takes the copy to where the thing goes, or has brought it on its way.
Newest ==
    \/ /\ \A k \in DOMAIN net : net[k].stamp < frame
       /\ seen = frame /\ Final(thing[CLIENT]) = Final(thing[HOST])
    \/ \E k \in DOMAIN net :
          /\ net[k].stamp = frame /\ Dest(net[k]) = Final(thing[HOST])
          /\ \A j \in DOMAIN net : j # k => net[j].stamp < frame
Following ==
    /\ link = IN_ORDER =>
          IF net = <<>> THEN Final(thing[CLIENT]) = Final(thing[HOST])
          ELSE Dest(net[Len(net)]) = Final(thing[HOST])
    /\ link = ANY_ORDER => Newest

\* A verb whose ARRIVED is being handled sends the place where the thing still stands.
ToSend ==
    calls # <<>> /\ calls[Len(calls)] # TickCall /\ ~sent /\ "astray" \notin odd =>
        /\ AtRest(thing[HOST])
        /\ calls[Len(calls)].op # "stop" =>
              thing[HOST].place = At(calls[Len(calls)].frame).place

Sync ==
    link # ALONE =>
        /\ Stamped /\ ToSend
        /\ {"astray", "crossed"} \cap odd = {} /\ NoSends => Following

Inv == Typed /\ Walks /\ Answered /\ Sync

-------------------------------------------------------------------------------
(* The path *)

LEMMA FramesOk ==
    /\ 0 \in FrameNums /\ FrameNums \subseteq Nat /\ MaxPlace \in Nat
    /\ SpinTicks \in Nat \ {0} /\ Places = 0 .. MaxPlace
    /\ \A i \in FrameNums : At(i).place \in Places /\ At(i).face \in Faces /\ At(i).face # Odd
    /\ Odd \in Faces
  <1> USE TrackAssumption DEF FrameNums, At
  <1>1. Len(Frames) \in Nat \ {0}
    OBVIOUS
  <1>2. ASSUME NEW i \in FrameNums
        PROVE  At(i).place \in Places /\ At(i).face \in Faces /\ At(i).face # Odd
    <2> DEFINE F == {At(j).face : j \in FrameNums}
               S == [place : Places, face : F]
    <2>1. Frames \in Seq(S) /\ i + 1 \in 1 .. Len(Frames)
      BY <1>1
    <2>2. Frames[i + 1] \in S
      <3> HIDE DEF S
      <3> QED
        BY <2>1, <1>1
    <2>3. At(i).face \in F
      OBVIOUS
    <2>4. At(i).face # Odd
      OBVIOUS
    <2> QED
      BY <2>2, <2>3, <2>4 DEF Faces
  <1>3. Odd \in Faces
    BY DEF Faces
  <1> QED
    BY <1>1, <1>2, <1>3 DEF Places

LEMMA BetweenFrames ==
    ASSUME NEW a \in FrameNums, NEW b \in FrameNums, a # b
    PROVE  a + Sign(b - a) \in FrameNums
  BY TrackAssumption DEF FrameNums, Sign

-------------------------------------------------------------------------------
(* The operators on one thing *)

\* Bits of trackParams.flags other than those of B are left alone.
SameBits(u, t, B) == \A b \in Bits \ B : b \in u.flags <=> b \in t.flags
\* So is everything that the translation does not need.
SameWalk(u, t) ==
    /\ u.cur = t.cur /\ u.goal = t.goal /\ u.next = t.next /\ u.reached = t.reached
    /\ u.place = t.place /\ u.face = t.face

\* Types of what the functions assign.
LEMMA HeadedOk ==
    ASSUME NEW t \in Things, NEW f \in SUBSET Bits, NEW d \in -1 .. 1, NEW n \in 0 .. MaxPlace,
           NEW h \in 0 .. 3
    PROVE  [t EXCEPT !.dir = d, !.left = n, !.hits = h, !.flags = f] \in Things
  BY DEF Things

LEMMA StoppedOk ==
    ASSUME NEW t \in Things, NEW f \in SUBSET Bits, NEW g \in FrameNums, NEW n \in FrameNums,
           NEW h \in 0 .. 3
    PROVE  [t EXCEPT !.flags = f, !.goal = g, !.next = n, !.hits = h] \in Things
  BY DEF Things

LEMMA SpunOk ==
    ASSUME NEW t \in Things, NEW f \in SUBSET Bits, NEW c \in FrameNums \cup {-1},
           NEW r \in FrameNums \cup {-1}, NEW n \in 0 .. (MaxPlace + SpinTicks), NEW h \in 0 .. 3
    PROVE  [t EXCEPT !.flags = f, !.cur = c, !.turn = n, !.hits = h, !.reached = r] \in Things
  BY DEF Things

LEMMA HeadForOk ==
    ASSUME NEW t, Thing(t), NEW i \in FrameNums, NEW u, u = HeadFor(t, i)
    PROVE  /\ Thing(u) /\ Target(u) = At(i).place
           /\ SameBits(u, t, {"moving"}) /\ SameWalk(u, t)
           /\ u.turn = t.turn /\ u.aim = t.aim
           /\ u.left = 0 => t.place = At(i).place
  <1> DEFINE way == At(i).place - t.place
  <1>1. /\ t \in Things /\ t.place \in 0 .. MaxPlace /\ At(i).place \in 0 .. MaxPlace
        /\ MaxPlace \in Nat
    BY FramesOk DEF Thing, Things
  <1>2. CASE way = 0
    <2>1. u = [t EXCEPT !.dir = 0]
      BY <1>2 DEF HeadFor
    <2>2. u \in Things
      BY <1>1, <2>1 DEF Things
    <2>3. /\ u.flags = t.flags /\ u.dir = 0 /\ u.left = t.left
          /\ SameWalk(u, t) /\ u.turn = t.turn /\ u.aim = t.aim
      BY <1>1, <2>1 DEF Things, SameWalk
    <2>4. t.place = At(i).place
      BY <1>1, <1>2
    <2> QED
      BY <1>1, <2>2, <2>3, <2>4 DEF Thing, Target, SameBits, SameWalk
  <1>3. CASE way # 0
    <2>1. u = [t EXCEPT !.dir = Sign(way), !.left = Distance(At(i).place, t.place),
                        !.hits = 0, !.flags = @ \cup {"moving"}]
      BY <1>3 DEF HeadFor
    <2>2. /\ Sign(way) \in -1 .. 1 /\ Distance(At(i).place, t.place) \in 1 .. MaxPlace
          /\ Sign(way) = 1 => t.place + Distance(At(i).place, t.place) = At(i).place
          /\ Sign(way) = -1 => t.place - Distance(At(i).place, t.place) = At(i).place
          /\ Sign(way) # 0
      BY <1>1, <1>3 DEF Sign, Distance
    <2>3. u \in Things
      <3> DEFINE d == Sign(way)
                 n == Distance(At(i).place, t.place)
      <3>1. d \in -1 .. 1 /\ n \in 0 .. MaxPlace
        BY <1>1, <2>2
      <3> DEFINE f == t.flags \cup {"moving"}
      <3>2. u = [t EXCEPT !.dir = d, !.left = n, !.hits = 0, !.flags = f]
        BY <2>1
      <3>3. f \in SUBSET Bits
        BY <1>1 DEF Things, Bits
      <3> HIDE DEF d, n, f
      <3> DEFINE z == 0
      <3>4. z \in 0 .. 3 /\ u = [t EXCEPT !.dir = d, !.left = n, !.hits = z, !.flags = f]
        BY <3>2
      <3> HIDE DEF z
      <3> QED
        <4>1. [t EXCEPT !.dir = d, !.left = n, !.hits = z, !.flags = f] \in Things
          BY <1>1, <3>1, <3>3, <3>4, HeadedOk
        <4> QED
          BY <3>4, <4>1
    <2>4. /\ u.flags = t.flags \cup {"moving"} /\ u.dir = Sign(way)
          /\ u.left = Distance(At(i).place, t.place)
          /\ SameWalk(u, t) /\ u.turn = t.turn /\ u.aim = t.aim
      BY <1>1, <2>1 DEF Things, SameWalk
    <2>5. Target(u) = At(i).place
      <3>1. u.dir \in {1, -1} /\ "moving" \in u.flags /\ u.place = t.place
        BY <2>2, <2>4 DEF SameWalk
      <3> QED
        BY <2>2, <2>4, <3>1 DEF Target
    <2> QED
      BY <2>2, <2>3, <2>4, <2>5 DEF Thing, SameBits
  <1> QED
    BY <1>2, <1>3

LEMMA PrepareForOrientOk ==
    ASSUME NEW t, Thing(t), NEW i \in FrameNums, NEW u, u = PrepareForOrient(t, i)
    PROVE  /\ Thing(u) /\ Target(u) = Target(t)
           /\ SameBits(u, t, {"turning", "pivot"}) /\ SameWalk(u, t)
           /\ "pivot" \notin t.flags => "pivot" \notin u.flags
           /\ ("turning" \in t.flags => t.face = Odd) => Looks(u, i)
  <1>1. t \in Things /\ At(i).face \in Faces /\ At(i).face # Odd /\ MaxPlace \in Nat
        /\ SpinTicks \in Nat \ {0}
    BY FramesOk DEF Thing
  <1>2. CASE At(i).face = t.face
    <2>1. u = t
      BY <1>2 DEF PrepareForOrient
    <2> QED
      BY <1>1, <1>2, <2>1 DEF SameBits, SameWalk, Looks
  <1>3. CASE At(i).face # t.face
    <2> DEFINE n == IF t.left > 1 THEN t.left ELSE 1
    <2>1. u = [t EXCEPT !.aim = At(i).face, !.turn = n,
                        !.flags = (@ \ {"pivot"}) \cup {"turning"}]
      BY <1>3 DEF PrepareForOrient
    <2>2. n \in 0 .. (MaxPlace + SpinTicks)
      <3>1. t.left \in 0 .. MaxPlace
        BY <1>1 DEF Things
      <3> QED
        BY <1>1, <3>1
    <2> HIDE DEF n
    <2>3. u \in Things
      <3> DEFINE a == At(i).face
                 f == (t.flags \ {"pivot"}) \cup {"turning"}
      <3>1. t.flags \in SUBSET Bits
        BY <1>1 DEF Things
      <3>2. f \in SUBSET Bits
        BY <3>1 DEF Bits
      <3>3. a \in Faces /\ u = [t EXCEPT !.aim = a, !.turn = n, !.flags = f]
        BY <1>1, <2>1
      <3> HIDE DEF a, f
      <3> QED
        BY <1>1, <2>2, <3>2, <3>3 DEF Things
    <2>4. /\ u.flags = (t.flags \ {"pivot"}) \cup {"turning"} /\ u.aim = At(i).face
          /\ u.dir = t.dir /\ u.left = t.left /\ SameWalk(u, t)
      BY <1>1, <2>1 DEF Things, SameWalk
    <2>5. "moving" \in u.flags <=> "moving" \in t.flags
      BY <2>4
    <2>6. Target(u) = Target(t) /\ u.left = t.left /\ u.place = t.place
      BY <2>4, <2>5 DEF Target, SameWalk
    <2>7. Thing(u)
      BY <2>3, <2>5, <2>6 DEF Thing
    <2>8. SameBits(u, t, {"turning", "pivot"}) /\ "pivot" \notin u.flags /\ Looks(u, i)
      BY <2>4 DEF SameBits, Looks
    <2> QED
      BY <2>4, <2>6, <2>7, <2>8
  <1> QED
    BY <1>2, <1>3

LEMMA StopOk ==
    ASSUME NEW t, Thing(t), NEW u, u = Stop(t).thing
    PROVE  /\ Thing(u) /\ AtRest(u) /\ Target(u) = t.place /\ Stop(t).arrived = TRUE
           /\ u.flags = t.flags \ {"moving", "turning", "toFrame", "pivot"}
           /\ u.cur = t.cur /\ u.reached = t.reached /\ u.place = t.place /\ u.face = t.face
  <1> DEFINE f == t.flags \ {"moving", "turning", "toFrame", "pivot"}
             z == 0
  <1>1. t \in Things /\ f \in SUBSET Bits /\ z \in FrameNums /\ z \in 0 .. 3
    BY FramesOk DEF Thing, Things
  <1>2. u = [t EXCEPT !.flags = f, !.goal = z, !.next = z, !.hits = z] /\ Stop(t).arrived = TRUE
    BY DEF Stop
  <1> HIDE DEF z
  <1>3. u \in Things
    <2> HIDE DEF f
    <2>1. [t EXCEPT !.flags = f, !.goal = z, !.next = z, !.hits = z] \in Things
      BY <1>1, StoppedOk
    <2> QED
      BY <1>2, <2>1
  <1>4. u.flags = f /\ u.cur = t.cur /\ u.reached = t.reached /\ u.place = t.place /\ u.face = t.face
    BY <1>1, <1>2 DEF Things
  <1> QED
    BY <1>2, <1>3, <1>4 DEF Thing, Target, AtRest, UnderWay

\* On from a frame: towards the next one, or already there.
LEMMA ArrivedidkOk ==
    ASSUME NEW t, Thing(t), "toFrame" \in t.flags, NEW r, r = Arrivedidk(t)
    PROVE  /\ Thing(r.thing) /\ r.arrived \in BOOLEAN
           /\ r.thing.place = t.place /\ r.thing.face = t.face /\ r.thing.reached = t.reached
           /\ SameBits(r.thing, t, {"moving", "turning", "pivot", "toFrame"})
           /\ "pivot" \notin t.flags => "pivot" \notin r.thing.flags
           /\ r.arrived => /\ t.cur = t.goal /\ t.place = At(t.goal).place
                            /\ AtRest(r.thing) /\ "pivot" \notin r.thing.flags
           /\ ~r.arrived => /\ "toFrame" \in r.thing.flags /\ r.thing.goal = t.goal
                             /\ \E i \in {r.thing.next, r.thing.goal} :
                                   /\ Target(r.thing) = At(i).place
                                   /\ ("turning" \in t.flags => t.face = Odd) => Looks(r.thing, i)
  <1>1. t \in Things /\ t.goal \in FrameNums /\ t.cur \in FrameNums \cup {-1}
    BY DEF Thing, Things
  <1>2. CASE t.cur = t.goal
    <2> DEFINE u == HeadFor(t, t.goal)
               v == PrepareForOrient(u, t.goal)
    <2>1. /\ Thing(u) /\ Target(u) = At(t.goal).place
          /\ SameBits(u, t, {"moving"}) /\ SameWalk(u, t)
          /\ u.left = 0 => t.place = At(t.goal).place
      BY <1>1, HeadForOk
    <2>2. CASE u.left = 0
      <3>1. r = Stop(u)
        BY <1>2, <2>2 DEF Arrivedidk
      <3> HIDE DEF u
      <3>2. /\ Thing(r.thing) /\ AtRest(r.thing) /\ r.arrived = TRUE
            /\ r.thing.flags = u.flags \ {"moving", "turning", "toFrame", "pivot"}
            /\ r.thing.reached = u.reached /\ r.thing.place = u.place /\ r.thing.face = u.face
        BY <2>1, <3>1, StopOk
      <3> QED
        BY <1>2, <2>1, <2>2, <3>2 DEF SameBits, SameWalk
    <2>3. CASE u.left # 0
      <3>1. r = [thing |-> v, arrived |-> FALSE]
        BY <1>2, <2>3 DEF Arrivedidk, Still
      <3> HIDE DEF u
      <3>2. /\ Thing(v) /\ Target(v) = Target(u)
            /\ SameBits(v, u, {"turning", "pivot"}) /\ SameWalk(v, u)
            /\ "pivot" \notin u.flags => "pivot" \notin v.flags
            /\ ("turning" \in u.flags => u.face = Odd) => Looks(v, t.goal)
        BY <1>1, <2>1, PrepareForOrientOk
      <3> HIDE DEF v
      <3>3. v.goal = t.goal /\ Target(v) = At(t.goal).place
        BY <2>1, <3>2 DEF SameWalk
      <3>4. ("turning" \in t.flags => t.face = Odd) => Looks(v, t.goal)
        BY <2>1, <3>2 DEF SameBits, SameWalk, Bits
      <3> QED
        BY <2>1, <3>1, <3>2, <3>3, <3>4 DEF SameBits, SameWalk, Bits
    <2> QED
      BY <2>2, <2>3
  <1>3. CASE t.cur # t.goal
    <2> DEFINE i == IF t.cur >= 0 THEN t.cur + Sign(t.goal - t.cur) ELSE t.goal
               s == [t EXCEPT !.next = i]
               u == HeadFor(s, i)
               v == PrepareForOrient(u, i)
    <2>1. i \in FrameNums
      <3>1. t.cur >= 0 => t.cur \in FrameNums
        BY <1>1, FramesOk
      <3> QED
        BY <1>1, <1>3, <3>1, BetweenFrames
    <2>2. r = [thing |-> v, arrived |-> FALSE]
      BY <1>3 DEF Arrivedidk, Still
    <2> HIDE DEF i
    <2>3. /\ s \in Things /\ s.next = i /\ s.flags = t.flags /\ s.left = t.left
          /\ s.goal = t.goal /\ s.place = t.place /\ s.face = t.face /\ s.reached = t.reached
      BY <1>1, <2>1 DEF Things
    <2> HIDE DEF s
    <2>4. Thing(s)
      BY <2>3 DEF Thing
    <2>5. Thing(u) /\ Target(u) = At(i).place /\ SameBits(u, s, {"moving"}) /\ SameWalk(u, s)
      BY <2>1, <2>4, HeadForOk
    <2> HIDE DEF u
    <2>6. /\ Thing(v) /\ Target(v) = Target(u)
          /\ SameBits(v, u, {"turning", "pivot"}) /\ SameWalk(v, u)
          /\ "pivot" \notin u.flags => "pivot" \notin v.flags
          /\ ("turning" \in u.flags => u.face = Odd) => Looks(v, i)
      BY <2>1, <2>5, PrepareForOrientOk
    <2> HIDE DEF v
    <2>7. v.next = i /\ v.goal = t.goal /\ Target(v) = At(i).place
      BY <2>3, <2>5, <2>6 DEF SameWalk
    <2>8. ("turning" \in t.flags => t.face = Odd) => Looks(v, i)
      BY <2>3, <2>5, <2>6 DEF SameBits, SameWalk, Bits
    <2> QED
      BY <2>2, <2>3, <2>5, <2>6, <2>7, <2>8 DEF SameBits, SameWalk, Bits
  <1> QED
    BY <1>2, <1>3

\* What a tick keeps, whether it moves the thing, turns it or ends its walk.
Kept(u, t) ==
    /\ Thing(u)
    /\ "spin" \in u.flags <=> "spin" \in t.flags
    /\ \A h : Sound(t, h) => Sound(u, h) /\ Final(u) = Final(t)

LEMMA MovedOk ==
    ASSUME NEW t, Thing(t), NEW free \in BOOLEAN, NEW u, u = Moved(t, free)
    PROVE  Kept(u, t)
  <1>1. t \in Things /\ Places = 0 .. MaxPlace /\ MaxPlace \in Nat
    BY FramesOk DEF Thing
  <1>2. CASE "moving" \notin t.flags
    BY <1>2 DEF Moved, Kept
  <1>3. CASE "moving" \in t.flags /\ ~free
    <2> DEFINE n == IF t.hits < 3 THEN t.hits + 1 ELSE t.hits
    <2>1. u = [t EXCEPT !.hits = n] /\ n \in 0 .. 3
      BY <1>1, <1>3 DEF Moved, Things
    <2> HIDE DEF n
    <2>2. /\ u \in Things /\ u.flags = t.flags /\ u.left = t.left /\ u.dir = t.dir
          /\ u.aim = t.aim /\ SameWalk(u, t)
      BY <1>1, <2>1 DEF Things, SameWalk
    <2>3. Target(u) = Target(t) /\ Final(u) = Final(t)
      BY <2>2 DEF Target, Final, SameWalk
    <2>4. \A i : Looks(u, i) <=> Looks(t, i)
      BY <2>2 DEF Looks, SameWalk
    <2> QED
      BY <1>1, <2>2, <2>3, <2>4 DEF Kept, Thing, Sound, SameWalk
  <1>4. CASE "moving" \in t.flags /\ free
    <2> DEFINE p == Onward(t)
               f == IF t.left = 1 THEN t.flags \ {"moving"} ELSE t.flags
               n == t.left - 1
    <2>1. u = [t EXCEPT !.place = p, !.left = n, !.flags = f]
      BY <1>4 DEF Moved
    <2>2. /\ p \in Places /\ f \in SUBSET Bits /\ n \in 0 .. MaxPlace
          /\ t.place \in 0 .. MaxPlace /\ t.left \in 1 .. MaxPlace /\ t.dir \in -1 .. 1
      BY <1>1, <1>4 DEF Thing, Things, Onward
    <2>3. /\ \A b \in Bits \ {"moving"} : b \in f <=> b \in t.flags
          /\ "moving" \in f <=> n # 0
      BY <1>4, <2>2
    <2>4. Target(t) \in Places =>
             /\ t.dir = 1 => Target(t) = p + n
             /\ t.dir = -1 => Target(t) = p - n
             /\ t.dir = 0 => Target(t) = p
      <3>1. CASE t.dir = 1
        <4>1. Target(t) = t.place + t.left /\ p = IF t.place + 1 \in Places THEN t.place + 1 ELSE t.place
          BY <1>4, <3>1 DEF Target, Onward
        <4> HIDE DEF p
        <4>2. CASE t.place + 1 \in Places
          BY <2>2, <3>1, <4>1, <4>2
        <4>3. CASE t.place + 1 \notin Places
          <5>1. t.place = MaxPlace
            BY <1>1, <2>2, <4>3
          <5> QED
            BY <1>1, <2>2, <3>1, <4>1, <5>1
        <4> QED
          BY <4>2, <4>3
      <3>2. CASE t.dir = -1
        <4>1. Target(t) = t.place - t.left /\ p = IF t.place - 1 \in Places THEN t.place - 1 ELSE t.place
          <5>1. t.dir # 1 /\ t.place + t.dir = t.place - 1
            BY <2>2, <3>2
          <5> QED
            BY <1>4, <3>2, <5>1 DEF Target, Onward
        <4> HIDE DEF p
        <4>2. CASE t.place - 1 \in Places
          BY <2>2, <3>2, <4>1, <4>2
        <4>3. CASE t.place - 1 \notin Places
          <5>1. t.place = 0
            BY <1>1, <2>2, <4>3
          <5> QED
            BY <1>1, <2>2, <3>2, <4>1, <5>1
        <4> QED
          BY <4>2, <4>3
      <3>3. CASE t.dir = 0
        BY <1>4, <2>2, <3>3 DEF Target, Onward
      <3> QED
        BY <2>2, <3>1, <3>2, <3>3
    <2>5. n \in Nat /\ p \in Int
      BY <1>1, <2>2
    <2> HIDE DEF p, f, n
    <2>6. u \in Things
      BY <1>1, <2>1, <2>2 DEF Things
    <2>7. /\ u.flags = f /\ u.left = n /\ u.place = p /\ u.dir = t.dir /\ u.aim = t.aim
          /\ u.face = t.face /\ u.next = t.next /\ u.goal = t.goal /\ u.cur = t.cur
          /\ u.reached = t.reached
      BY <1>1, <2>1 DEF Things
    <2>8. Target(t) \in Places => Target(u) = Target(t)
      BY <2>2, <2>3, <2>4, <2>5, <2>7 DEF Target
    <2>9. \A i : Looks(u, i) <=> Looks(t, i)
      BY <2>3, <2>7 DEF Looks, Bits
    <2>10. SameBits(u, t, {"moving"})
      BY <2>3, <2>7 DEF SameBits
    <2>11. Thing(u)
      BY <2>3, <2>5, <2>6, <2>7 DEF Thing
    <2>12. ASSUME NEW h, Sound(t, h)
           PROVE  Sound(u, h) /\ Final(u) = Final(t)
      <3>1. Target(u) = Target(t) /\ Target(u) \in Places /\ t.reached = -1
        BY <1>4, <2>8, <2>12 DEF Sound, UnderWay
      <3>2. "toFrame" \in u.flags <=> "toFrame" \in t.flags
        BY <2>10 DEF SameBits, Bits
      <3>3. {"pivot", "spin"} \cap u.flags = {}
        BY <2>10, <2>12 DEF SameBits, Bits, Sound
      <3> QED
        BY <2>7, <2>9, <2>12, <3>1, <3>2, <3>3 DEF Sound, Final
    <2> QED
      BY <2>10, <2>11, <2>12 DEF Kept, SameBits, Bits
  <1> QED
    BY <1>2, <1>3, <1>4

LEMMA TurnedOk ==
    ASSUME NEW t, Thing(t), NEW free \in BOOLEAN, NEW p \in Places, NEW u, u = Turned(t, free, p)
    PROVE  Kept(u, t)
  <1>1. t \in Things /\ Odd \in Faces /\ MaxPlace \in Nat /\ SpinTicks \in Nat \ {0}
    BY FramesOk DEF Thing
  <1>2. CASE "turning" \notin t.flags
    BY <1>2 DEF Turned, Kept
  <1>3. CASE "turning" \in t.flags /\ "pivot" \in t.flags /\ ~free
    <2>1. u = [t EXCEPT !.face = Odd]
      BY <1>3 DEF Turned
    <2>2. u \in Things /\ u.flags = t.flags /\ u.left = t.left
      BY <1>1, <2>1 DEF Things
    <2> QED
      BY <1>3, <2>2 DEF Kept, Thing, Sound
  <1>4. CASE "turning" \in t.flags /\ ("pivot" \in t.flags => free)
    <2> DEFINE over == t.turn <= 1
               n == IF over THEN 0 ELSE t.turn - 1
               q == IF "pivot" \in t.flags THEN p ELSE t.place
               f == IF over THEN t.flags \ {"turning", "pivot"} ELSE t.flags
               e == IF ~over \/ "pivot" \in t.flags THEN Odd ELSE t.aim
               v == [t EXCEPT !.turn = n, !.face = Odd, !.place = q]
    <2>1. n \in 0 .. (MaxPlace + SpinTicks)
      <3>1. t.turn \in 0 .. (MaxPlace + SpinTicks)
        BY <1>1 DEF Things
      <3> QED
        BY <1>1, <3>1
    <2>2. q \in Places /\ f \in SUBSET Bits /\ e \in Faces
      BY <1>1 DEF Things
    <2>3. u = IF ~over THEN v ELSE [v EXCEPT !.flags = @ \ {"turning", "pivot"},
                                             !.face = IF "pivot" \in t.flags THEN Odd ELSE t.aim]
      BY <1>4, Zenon DEF Turned
    <2>4. v.flags = t.flags
      BY <1>1 DEF Things
    <2>5. u = [t EXCEPT !.turn = n, !.face = e, !.place = q, !.flags = f]
      <3> HIDE DEF n, q
      <3> QED
        BY <1>1, <2>3, <2>4 DEF Things
    <2>6. /\ SameBits([flags |-> f], t, {"turning", "pivot"})
          /\ "turning" \in f <=> ~over
          /\ "pivot" \notin t.flags => /\ "pivot" \notin f /\ q = t.place
                                       /\ over => e = t.aim
      BY <1>4 DEF SameBits
    <2> HIDE DEF over, n, q, f, e, v
    <2>7. u \in Things
      BY <1>1, <2>1, <2>2, <2>5 DEF Things
    <2>8. /\ u.flags = f /\ u.face = e /\ u.place = q /\ u.left = t.left /\ u.dir = t.dir
          /\ u.aim = t.aim /\ u.next = t.next /\ u.goal = t.goal /\ u.cur = t.cur
          /\ u.reached = t.reached
      BY <1>1, <2>5 DEF Things
    <2>9. SameBits(u, t, {"turning", "pivot"})
      BY <2>6, <2>8 DEF SameBits
    <2>10. Thing(u)
      BY <2>7, <2>8, <2>9 DEF Thing, SameBits, Bits
    <2>11. ASSUME NEW h, Sound(t, h)
           PROVE  Sound(u, h) /\ Final(u) = Final(t)
      <3>1. "pivot" \notin t.flags /\ "spin" \notin t.flags /\ t.reached = -1
        BY <1>4, <2>11 DEF Sound, UnderWay
      <3>2. "pivot" \notin u.flags /\ "spin" \notin u.flags
            /\ ("moving" \in u.flags <=> "moving" \in t.flags)
            /\ ("toFrame" \in u.flags <=> "toFrame" \in t.flags)
        BY <2>6, <2>8, <2>9, <3>1 DEF SameBits, Bits
      <3>3. u.place = t.place
        BY <2>6, <2>8, <3>1
      <3>4. Target(u) = Target(t)
        BY <2>8, <3>2, <3>3 DEF Target
      <3>5. \A i : Looks(t, i) => Looks(u, i)
        BY <1>4, <2>6, <2>8, <3>1 DEF Looks
      <3> QED
        BY <2>8, <2>11, <3>1, <3>2, <3>4, <3>5 DEF Sound, Final
    <2> QED
      BY <2>9, <2>10, <2>11 DEF Kept, SameBits, Bits
  <1> QED
    BY <1>2, <1>3, <1>4

\* The end of a step that leaves nothing under way.
LEMMA StoppedMovingOk ==
    ASSUME NEW t, Thing(t), UnderWay \cap t.flags = {}, NEW r, r = StoppedMoving(t)
    PROVE  /\ Kept(r.thing, t) /\ r.arrived \in BOOLEAN
           /\ r.arrived => AtRest(r.thing) /\ "pivot" \notin r.thing.flags
  <1> DEFINE u == [t EXCEPT !.cur = t.next]
  <1>1. t \in Things /\ t.goal \in FrameNums /\ t.next \in FrameNums
    BY DEF Thing, Things
  <1>2. /\ u \in Things /\ u.cur = t.next /\ u.goal = t.goal /\ u.next = t.next
        /\ u.flags = t.flags /\ u.left = t.left /\ u.place = t.place /\ u.face = t.face
        /\ u.reached = t.reached
    BY <1>1 DEF Things
  <1>3. "moving" \notin t.flags /\ "turning" \notin t.flags
    BY DEF UnderWay
  <1>4. Thing(u) /\ Target(t) = t.place
    BY <1>2, <1>3 DEF Thing, Target
  <1>5. CASE "toFrame" \in t.flags /\ u.cur # u.goal
    <2>1. r = Arrivedidk(u)
      BY <1>5 DEF StoppedMoving
    <2> HIDE DEF u
    <2>2. /\ Thing(r.thing) /\ r.arrived = FALSE
          /\ r.thing.reached = t.reached
          /\ SameBits(r.thing, u, {"moving", "turning", "pivot", "toFrame"})
          /\ "pivot" \notin u.flags => "pivot" \notin r.thing.flags
          /\ "toFrame" \in r.thing.flags /\ r.thing.goal = u.goal
          /\ \E i \in {r.thing.next, r.thing.goal} :
                Target(r.thing) = At(i).place /\ Looks(r.thing, i)
      BY <1>2, <1>3, <1>4, <1>5, <2>1, ArrivedidkOk
    <2>3. Target(r.thing) \in Places
      <3>1. r.thing.next \in FrameNums /\ r.thing.goal \in FrameNums
        BY <2>2 DEF Thing, Things
      <3> QED
        BY <2>2, <3>1, FramesOk
    <2>4. "spin" \in r.thing.flags <=> "spin" \in t.flags
      BY <1>2, <2>2 DEF SameBits, Bits
    <2>5. Final(r.thing) = Final(t)
      BY <1>2, <1>5, <2>2 DEF Final
    <2>6. ASSUME NEW h, Sound(t, h)
          PROVE  Sound(r.thing, h)
      <3>1. t.reached = -1
        BY <1>5, <2>6 DEF Sound
      <3>2. {"pivot", "spin"} \cap r.thing.flags = {}
        BY <1>2, <2>2, <2>4, <2>6 DEF Sound
      <3> QED
        BY <2>2, <2>3, <3>1, <3>2 DEF Sound
    <2> QED
      BY <2>2, <2>4, <2>5, <2>6 DEF Kept
  <1>6. CASE ~("toFrame" \in t.flags /\ u.cur # u.goal)
    <2> DEFINE s == Stop(u)
               i == IF "toFrame" \in t.flags THEN u.goal ELSE -1
    <2>1. r = [s EXCEPT !.thing.reached = i]
      BY <1>6 DEF StoppedMoving
    <2> HIDE DEF u
    <2>2. /\ Thing(s.thing) /\ AtRest(s.thing) /\ s.arrived = TRUE
          /\ s.thing.flags = u.flags \ {"moving", "turning", "toFrame", "pivot"}
          /\ s.thing.cur = u.cur /\ s.thing.place = u.place /\ s.thing.face = u.face
      BY <1>4, StopOk
    <2>3. i \in FrameNums \cup {-1}
      BY <1>1, <1>2
    <2>4. s = [thing |-> s.thing, arrived |-> s.arrived]
      BY DEF Stop
    <2> HIDE DEF i, s
    <2>5. r.thing = [s.thing EXCEPT !.reached = i] /\ r.arrived = TRUE
      BY <2>1, <2>2, <2>4
    <2>6. r.thing \in Things
      BY <2>2, <2>3, <2>5 DEF Thing, Things
    <2>7. /\ r.thing.flags = t.flags \ {"moving", "turning", "toFrame", "pivot"}
          /\ r.thing.cur = t.next /\ r.thing.place = t.place /\ r.thing.face = t.face
          /\ r.thing.reached = i
      BY <1>2, <2>2, <2>5 DEF Thing, Things
    <2>8. Thing(r.thing) /\ AtRest(r.thing) /\ Target(r.thing) = t.place
      BY <2>6, <2>7 DEF Thing, AtRest, Target, UnderWay
    <2>9. ASSUME NEW h, Sound(t, h)
          PROVE  Sound(r.thing, h) /\ Final(r.thing) = Final(t)
      <3>1. CASE "toFrame" \in t.flags
        <4>1. i = t.goal /\ t.next = t.goal
          BY <1>2, <1>6, <3>1 DEF i
        <4>2. t.place = At(t.goal).place /\ (h # {} \/ t.face = At(t.goal).face)
          BY <1>3, <1>4, <2>9, <3>1, <4>1 DEF Sound, Looks
        <4>3. Final(r.thing) = Final(t)
          BY <2>7, <2>8, <3>1, <4>2 DEF Final
        <4> QED
          BY <2>7, <2>8, <2>9, <1>4, <4>1, <4>2, <4>3 DEF Sound, UnderWay
      <3>2. CASE "toFrame" \notin t.flags
        <4>1. i = -1
          BY <3>2 DEF i
        <4>2. Final(r.thing) = Final(t)
          BY <1>4, <2>7, <2>8, <3>2 DEF Final
        <4> QED
          BY <2>7, <2>8, <2>9, <1>4, <4>1, <4>2 DEF Sound, UnderWay
      <3> QED
        BY <3>1, <3>2
    <2> QED
      BY <2>5, <2>7, <2>8, <2>9 DEF Kept
  <1> QED
    BY <1>5, <1>6

LEMMA TickEndOk ==
    ASSUME NEW t, Thing(t), NEW r, r = TickEnd(t)
    PROVE  /\ Kept(r.thing, t) /\ r.arrived \in BOOLEAN
           /\ r.arrived => r.thing.flags \subseteq {"spin", "paused"}
  <1>1. CASE t.flags \cap UnderWay = {}
    <2>1. /\ Kept(r.thing, t) /\ r.arrived \in BOOLEAN
          /\ r.arrived => AtRest(r.thing) /\ "pivot" \notin r.thing.flags
      BY <1>1, StoppedMovingOk DEF TickEnd
    <2>2. r.thing.flags \subseteq Bits
      BY <2>1 DEF Kept, Thing, Things
    <2> QED
      BY <2>1, <2>2 DEF AtRest, UnderWay, Bits
  <1>2. CASE t.flags \cap UnderWay # {}
    BY <1>2 DEF TickEnd, Still, Kept
  <1> QED
    BY <1>1, <1>2

LEMMA KeptTransitive ==
    ASSUME NEW a, NEW b, NEW c, Kept(b, a), Kept(c, b)
    PROVE  Kept(c, a)
  BY DEF Kept

-------------------------------------------------------------------------------
(* The verbs on one thing *)

\* What a command makes of a thing whose turn is no spin and no turn about a pivot: it
\* walks soundly from here, to the place that the command names.
Obeys(r, t, op, i) ==
    /\ Thing(r.thing) /\ r.arrived \in BOOLEAN
    /\ "spin" \in r.thing.flags <=> "spin" \in t.flags
    /\ r.arrived => /\ AtRest(r.thing) /\ r.thing.flags \subseteq {"spin", "paused"}
                    /\ op # "stop" => r.thing.place = At(i).place
    /\ {"pivot", "spin"} \cap t.flags = {} =>
          \A h : (h # {} \/ ~AboutToTurn(t)) =>
             /\ Sound(r.thing, h)
             /\ Final(r.thing) = Dest([op |-> op, frame |-> i, place |-> t.place])

LEMMA MoveToFrameOk ==
    ASSUME NEW t, Thing(t), NEW i \in FrameNums, NEW r, r = MoveToFrame(t, i)
    PROVE  Obeys(r, t, "move", i)
  <1> DEFINE u == [t EXCEPT !.flags = @ \cup {"toFrame"}, !.goal = i, !.reached = -1]
  <1>1. r = Arrivedidk(u)
    BY DEF MoveToFrame
  <1>2. /\ u \in Things /\ u.flags = t.flags \cup {"toFrame"} /\ u.goal = i /\ u.reached = -1
        /\ u.left = t.left /\ u.place = t.place /\ u.face = t.face
    BY DEF Thing, Things, Bits
  <1> HIDE DEF u
  <1>3. Thing(u) /\ "toFrame" \in u.flags
    BY <1>2 DEF Thing
  <1>4. /\ Thing(r.thing) /\ r.arrived \in BOOLEAN
        /\ r.thing.place = u.place /\ r.thing.reached = u.reached
        /\ SameBits(r.thing, u, {"moving", "turning", "pivot", "toFrame"})
        /\ "pivot" \notin u.flags => "pivot" \notin r.thing.flags
        /\ r.arrived => /\ u.place = At(u.goal).place
                        /\ AtRest(r.thing) /\ "pivot" \notin r.thing.flags
        /\ ~r.arrived => /\ "toFrame" \in r.thing.flags /\ r.thing.goal = u.goal
                         /\ \E j \in {r.thing.next, r.thing.goal} :
                               /\ Target(r.thing) = At(j).place
                               /\ ("turning" \in u.flags => u.face = Odd) => Looks(r.thing, j)
    BY <1>1, <1>3, ArrivedidkOk
  <1>5. "spin" \in r.thing.flags <=> "spin" \in t.flags
    BY <1>2, <1>4 DEF SameBits, Bits
  <1>6. r.arrived => /\ r.thing.flags \subseteq {"spin", "paused"} /\ r.thing.place = At(i).place
                     /\ Target(r.thing) = At(i).place
    <2>1. r.thing.flags \subseteq Bits
      BY <1>4 DEF Thing, Things
    <2> QED
      BY <1>2, <1>4, <2>1 DEF AtRest, UnderWay, Bits, Target
  <1>7. Target(r.thing) \in Places
    <2>1. r.thing.next \in FrameNums /\ r.thing.goal \in FrameNums
      BY <1>4 DEF Thing, Things
    <2>2. CASE r.arrived
      BY <1>6, <2>2, FramesOk
    <2>3. CASE ~r.arrived
      BY <1>4, <2>1, <2>3, FramesOk
    <2> QED
      BY <2>2, <2>3
  <1>8. ASSUME {"pivot", "spin"} \cap t.flags = {}, NEW h, h # {} \/ ~AboutToTurn(t)
        PROVE  /\ Sound(r.thing, h)
               /\ Final(r.thing) = Dest([op |-> "move", frame |-> i, place |-> t.place])
    <2>1. {"pivot", "spin"} \cap r.thing.flags = {}
      BY <1>2, <1>4, <1>5, <1>8
    <2>2. h # {} \/ ("turning" \in u.flags => u.face = Odd)
      BY <1>2, <1>8 DEF AboutToTurn
    <2>3. Final(r.thing) = At(i).place
      <3>1. CASE r.arrived
        BY <1>4, <1>6, <3>1 DEF Final, AtRest
      <3>2. CASE ~r.arrived
        BY <1>2, <1>4, <3>2 DEF Final
      <3> QED
        BY <3>1, <3>2
    <2>4. "toFrame" \in r.thing.flags =>
             \E j \in {r.thing.next, r.thing.goal} :
                 Target(r.thing) = At(j).place /\ (h # {} \/ Looks(r.thing, j))
      BY <1>4, <2>2 DEF AtRest
    <2>5. Dest([op |-> "move", frame |-> i, place |-> t.place]) = At(i).place
      BY DEF Dest
    <2> QED
      BY <1>2, <1>4, <1>7, <2>1, <2>3, <2>4, <2>5 DEF Sound
  <1> QED
    BY <1>4, <1>5, <1>6, <1>8 DEF Obeys

LEMMA SkipToFrameOk ==
    ASSUME NEW t, Thing(t), NEW i \in FrameNums, NEW r, r = SkipToFrame(t, i)
    PROVE  Obeys(r, t, "skip", i)
  <1> DEFINE u == [t EXCEPT !.flags = @ \ {"toFrame"}, !.goal = i, !.reached = -1]
             v == HeadFor(u, i)
  <1>1. r = [thing |-> v, arrived |-> FALSE]
    BY DEF SkipToFrame, Still
  <1>2. /\ u \in Things /\ u.flags = t.flags \ {"toFrame"} /\ u.reached = -1 /\ u.left = t.left
    BY DEF Thing, Things
  <1> HIDE DEF u
  <1>3. Thing(u)
    BY <1>2 DEF Thing
  <1>4. Thing(v) /\ Target(v) = At(i).place /\ SameBits(v, u, {"moving"}) /\ SameWalk(v, u)
    BY <1>3, HeadForOk
  <1> HIDE DEF v
  <1>5. /\ "spin" \in v.flags <=> "spin" \in t.flags
        /\ "pivot" \in v.flags <=> "pivot" \in t.flags
        /\ "toFrame" \notin v.flags /\ v.reached = -1
    BY <1>2, <1>4 DEF SameBits, SameWalk, Bits
  <1>6. Dest([op |-> "skip", frame |-> i, place |-> t.place]) = At(i).place
    BY DEF Dest
  <1>7. Final(v) = At(i).place /\ At(i).place \in Places
    BY <1>4, <1>5, FramesOk DEF Final
  <1>8. r.thing = v /\ r.arrived = FALSE
    BY <1>1
  <1>9. ASSUME {"pivot", "spin"} \cap t.flags = {}, NEW h
        PROVE  Sound(v, h)
    BY <1>4, <1>5, <1>7, <1>9 DEF Sound
  <1> QED
    BY <1>4, <1>5, <1>6, <1>7, <1>8, <1>9 DEF Obeys

LEMMA StopThingOk ==
    ASSUME NEW t, Thing(t), NEW i \in FrameNums, NEW r, r = Stop([t EXCEPT !.reached = -1])
    PROVE  Obeys(r, t, "stop", i) /\ r.arrived = TRUE
  <1> DEFINE u == [t EXCEPT !.reached = -1]
  <1>1. u \in Things /\ u.flags = t.flags /\ u.reached = -1 /\ u.left = t.left /\ u.place = t.place
    BY DEF Thing, Things
  <1> HIDE DEF u
  <1>2. Thing(u) /\ r = Stop(u)
    BY <1>1 DEF Thing, u
  <1>3. /\ Thing(r.thing) /\ AtRest(r.thing) /\ Target(r.thing) = t.place /\ r.arrived = TRUE
        /\ r.thing.flags = t.flags \ {"moving", "turning", "toFrame", "pivot"}
        /\ r.thing.reached = -1
    <2> DEFINE w == Stop(u).thing
    <2>1. /\ Thing(w) /\ AtRest(w) /\ Target(w) = u.place /\ Stop(u).arrived = TRUE
          /\ w.flags = u.flags \ {"moving", "turning", "toFrame", "pivot"}
          /\ w.reached = u.reached
      BY <1>2, StopOk
    <2> QED
      BY <1>1, <1>2, <2>1
  <1>4. r.thing.flags \subseteq Bits
    BY <1>3 DEF Thing, Things
  <1>5. r.thing.flags \subseteq {"spin", "paused"}
    BY <1>3, <1>4 DEF Bits
  <1>6. Dest([op |-> "stop", frame |-> i, place |-> t.place]) = t.place
    BY DEF Dest
  <1>7. Final(r.thing) = t.place /\ t.place \in Places
    BY <1>3 DEF Final, Thing, Things
  <1>8. ASSUME {"pivot", "spin"} \cap t.flags = {}, NEW h
        PROVE  Sound(r.thing, h)
    BY <1>3, <1>5, <1>7, <1>8 DEF Sound
  <1> QED
    BY <1>3, <1>5, <1>6, <1>7, <1>8 DEF Obeys

\* What is not synchronized keeps the types, and Rotate is for good.
LEMMA UnsyncedOk ==
    ASSUME NEW t, Thing(t), NEW i \in FrameNums
    PROVE  /\ Thing(RotatePivot(t)) /\ ("spin" \in RotatePivot(t).flags <=> "spin" \in t.flags)
           /\ Thing(Rotate(t)) /\ "spin" \in Rotate(t).flags
           /\ Thing(Jump(t, i)) /\ Jump(t, i).flags = t.flags
  <1> DEFINE n == SpinTicks
             z == 0
             m == -1
             f == t.flags \cup {"turning", "pivot"}
             g == t.flags \cup {"turning", "spin"}
             a == RotatePivot(t)
             b == Rotate(t)
             c == Jump(t, i)
             p == At(i).place
             e == At(i).face
  <1>1. /\ t \in Things /\ ("moving" \in t.flags => t.left >= 1)
        /\ n \in 0 .. (MaxPlace + SpinTicks) /\ z \in 0 .. 3 /\ m \in FrameNums \cup {-1}
        /\ p \in Places /\ e \in Faces
    BY FramesOk DEF Thing
  <1>2. f \in SUBSET Bits /\ g \in SUBSET Bits
    BY <1>1 DEF Things, Bits
  <1>3. /\ a = [t EXCEPT !.flags = f, !.cur = m, !.turn = n, !.hits = z, !.reached = m]
        /\ b = [t EXCEPT !.flags = g, !.cur = m, !.turn = n, !.hits = z, !.reached = m]
        /\ c = [t EXCEPT !.place = p, !.face = e, !.reached = m]
    BY DEF RotatePivot, Rotate, Jump
  <1> HIDE DEF n, z, m, p, e, a, b, c
  <1>4. /\ [t EXCEPT !.flags = f, !.cur = m, !.turn = n, !.hits = z, !.reached = m] \in Things
        /\ [t EXCEPT !.flags = g, !.cur = m, !.turn = n, !.hits = z, !.reached = m] \in Things
    <2> HIDE DEF f, g
    <2>1. [t EXCEPT !.flags = f, !.cur = m, !.turn = n, !.hits = z, !.reached = m] \in Things
      BY <1>1, <1>2, SpunOk
    <2>2. [t EXCEPT !.flags = g, !.cur = m, !.turn = n, !.hits = z, !.reached = m] \in Things
      BY <1>1, <1>2, SpunOk
    <2> QED
      BY <2>1, <2>2
  <1>5. [t EXCEPT !.place = p, !.face = e, !.reached = m] \in Things
    BY <1>1 DEF Things
  <1>6. /\ a.flags = f /\ b.flags = g /\ c.flags = t.flags
        /\ a.left = t.left /\ b.left = t.left /\ c.left = t.left
    BY <1>1, <1>3 DEF Things
  <1>7. a \in Things /\ b \in Things /\ c \in Things
    BY <1>3, <1>4, <1>5
  <1>8. Thing(a) /\ Thing(b) /\ Thing(c)
    BY <1>1, <1>6, <1>7 DEF Thing
  <1> QED
    BY <1>6, <1>8 DEF a, b, c

\* Whether it is paused is of no account for where it goes.
LEMMA PausedOk ==
    ASSUME NEW t, Thing(t), NEW u,
           u = [t EXCEPT !.flags = @ \cup {"paused"}] \/ u = [t EXCEPT !.flags = @ \ {"paused"}]
    PROVE  Kept(u, t) /\ SameBits(u, t, {"paused"}) /\ u.place = t.place
  <1>1. t \in Things
    BY DEF Thing
  <1>2. /\ u \in Things /\ SameBits(u, t, {"paused"}) /\ SameWalk(u, t)
        /\ u.left = t.left /\ u.dir = t.dir /\ u.aim = t.aim
    BY <1>1 DEF Things, SameBits, SameWalk, Bits
  <1>3. /\ "moving" \in u.flags <=> "moving" \in t.flags
        /\ "turning" \in u.flags <=> "turning" \in t.flags
        /\ "toFrame" \in u.flags <=> "toFrame" \in t.flags
        /\ "pivot" \in u.flags <=> "pivot" \in t.flags
        /\ "spin" \in u.flags <=> "spin" \in t.flags
    BY <1>2 DEF SameBits, Bits
  <1>4. Thing(u) /\ Target(u) = Target(t) /\ Final(u) = Final(t)
    BY <1>2, <1>3 DEF Thing, Target, Final, SameWalk
  <1>5. \A i : Looks(u, i) <=> Looks(t, i)
    BY <1>2, <1>3 DEF Looks, SameWalk
  <1> QED
    BY <1>2, <1>3, <1>4, <1>5 DEF Kept, Sound, SameWalk, UnderWay

LEMMA HitsOk ==
    ASSUME NEW t, Thing(t)
    PROVE  Kept([t EXCEPT !.hits = 0], t)
  <1> DEFINE z == 0
             u == [t EXCEPT !.hits = z]
  <1>1. t \in Things /\ z \in 0 .. 3
    BY DEF Thing
  <1> HIDE DEF z
  <1>2. /\ u \in Things /\ u.flags = t.flags /\ u.left = t.left /\ u.dir = t.dir
        /\ u.aim = t.aim /\ SameWalk(u, t)
    BY <1>1 DEF Things, SameWalk
  <1> HIDE DEF u
  <1>3. Thing(u) /\ Target(u) = Target(t) /\ Final(u) = Final(t)
    BY <1>2 DEF Thing, Target, Final, SameWalk
  <1>4. \A i : Looks(u, i) <=> Looks(t, i)
    BY <1>2 DEF Looks, SameWalk
  <1>5. Kept(u, t)
    BY <1>2, <1>3, <1>4 DEF Kept, Sound, SameWalk
  <1> QED
    BY <1>5 DEF u, z

-------------------------------------------------------------------------------
(* Sequences *)

LEMMA Popped ==
    ASSUME NEW S, NEW s \in Seq(S), s # <<>>
    PROVE  /\ Front(s) \in Seq(S) /\ Len(Front(s)) = Len(s) - 1
           /\ \A i \in 1 .. Len(s) - 1 : Front(s)[i] = s[i]
           /\ Last(s) = s[Len(s)] /\ Last(s) \in S /\ Len(s) \in DOMAIN s /\ Len(s) \in Nat \ {0}
  <1>1. Len(s) \in Nat \ {0} /\ DOMAIN s = 1 .. Len(s)
    OBVIOUS
  <1> DEFINE n == Len(s) - 1
  <1>2. Front(s) = SubSeq(s, 1, n)
    BY Zenon DEF Front
  <1>3. n = Len(s) - 1 /\ n \in Nat /\ n <= Len(s)
    BY <1>1
  <1> HIDE DEF n
  <1>4. SubSeq(s, 1, n) \in Seq(S) /\ Len(SubSeq(s, 1, n)) = n
    BY <1>3
  <1>5. \A i \in 1 .. n : SubSeq(s, 1, n)[i] = s[i]
    BY <1>3
  <1>6. Front(s) \in Seq(S) /\ Len(Front(s)) = n /\ \A i \in 1 .. n : Front(s)[i] = s[i]
    BY <1>2, <1>4, <1>5, Zenon
  <1>7. Last(s) = s[Len(s)] /\ s[Len(s)] \in S
    BY <1>1 DEF Last
  <1> QED
    BY <1>1, <1>3, <1>6, <1>7

LEMMA Appended ==
    ASSUME NEW S, NEW s \in Seq(S), NEW e \in S, NEW r, r = Append(s, e)
    PROVE  /\ r \in Seq(S) /\ Len(r) = Len(s) + 1 /\ Len(s) \in Nat /\ r[Len(r)] = e
           /\ \A i \in 1 .. Len(s) : r[i] = s[i]
           /\ DOMAIN r = 1 .. Len(s) + 1 /\ DOMAIN s = 1 .. Len(s)
  OBVIOUS

LEMMA RemovedAt ==
    ASSUME NEW S, NEW s \in Seq(S), NEW k \in DOMAIN s, NEW r, r = RemoveAt(s, k)
    PROVE  /\ r \in Seq(S) /\ Len(r) = Len(s) - 1 /\ Len(s) \in Nat \ {0}
           /\ \A j \in 1 .. Len(s) - 1 : r[j] = IF j < k THEN s[j] ELSE s[j + 1]
  <1> DEFINE a == SubSeq(s, 1, k - 1)
             b == SubSeq(s, k + 1, Len(s))
  <1>1. Len(s) \in Nat \ {0} /\ k \in 1 .. Len(s)
    OBVIOUS
  <1>2. r = a \o b
    BY DEF RemoveAt
  <1>3. a \in Seq(S) /\ Len(a) = k - 1 /\ \A j \in 1 .. k - 1 : a[j] = s[j]
    BY <1>1
  <1>4. b \in Seq(S) /\ Len(b) = Len(s) - k /\ \A j \in 1 .. Len(s) - k : b[j] = s[j + k]
    BY <1>1
  <1> HIDE DEF a, b
  <1>5. r \in Seq(S) /\ Len(r) = Len(s) - 1
    BY <1>1, <1>2, <1>3, <1>4
  <1>6. ASSUME NEW j \in 1 .. Len(s) - 1
        PROVE  r[j] = IF j < k THEN s[j] ELSE s[j + 1]
    <2>1. CASE j < k
      BY <1>1, <1>2, <1>3, <1>4, <2>1
    <2>2. CASE j >= k
      <3>1. r[j] = b[j - (k - 1)]
        <4>1. /\ a \in Seq(S) /\ b \in Seq(S) /\ j \in Nat
              /\ j > Len(a) /\ j <= Len(a) + Len(b) /\ Len(a) = k - 1
          <5>1. a \in Seq(S) /\ b \in Seq(S) /\ Len(a) = k - 1 /\ Len(b) = Len(s) - k
            BY <1>3, <1>4, Zenon
          <5>2. j \in Nat /\ j >= k /\ j <= Len(s) - 1 /\ k \in Nat /\ Len(s) \in Nat
            BY <1>1, <2>2
          <5> QED
            BY <5>1, <5>2
        <4>2. (a \o b)[j] = b[j - Len(a)]
          BY <4>1
        <4> QED
          BY <1>2, <4>1, <4>2
      <3> DEFINE l == j - (k - 1)
      <3>2. l \in 1 .. Len(s) - k /\ l + k = j + 1
        BY <1>1, <2>2
      <3>3. b[l] = s[l + k]
        <4> HIDE DEF l
        <4> QED
          BY <1>4, <3>2
      <3>4. ~(j < k)
        BY <1>1, <2>2
      <3> QED
        BY <3>1, <3>2, <3>3, <3>4
    <2> QED
      BY <1>1, <2>1, <2>2
  <1> QED
    BY <1>1, <1>5, <1>6

-------------------------------------------------------------------------------
(* What steps leave of the invariant *)

LEMMA MachinesOk ==
    /\ HOST \in Machines /\ CLIENT \in Machines /\ HOST # CLIENT
    /\ Hasty(HOST) # Hasty(CLIENT)
    /\ \A m \in Machines : Hasty(m) \notin {"astray", "again", "crossed"}
  BY DEF HOST, CLIENT, Machines, Hasty

LEMMA CallsOk ==
    /\ TickCall \in Calls /\ TickCall.fn = "Tick"
    /\ \A c \in Calls : c # TickCall => c.fn = "Send" /\ c.op \in Ops /\ c.frame \in FrameNums
    /\ \A op \in Ops, i \in FrameNums :
          /\ SendCall(op, i) \in Calls /\ SendCall(op, i) # TickCall
          /\ SendCall(op, i).op = op /\ SendCall(op, i).frame = i
  <1>1. \A op \in Ops, i \in FrameNums :
           /\ SendCall(op, i) \in [fn : {"Send"}, op : Ops, frame : FrameNums]
           /\ SendCall(op, i).fn = "Send" /\ SendCall(op, i).op = op /\ SendCall(op, i).frame = i
    BY DEF SendCall
  <1>2. TickCall.fn = "Tick"
    BY DEF TickCall
  <1> QED
    BY <1>1, <1>2 DEF Calls

\* A thing of one machine is replaced, the other's is as it was.
LEMMA ReplacedOk ==
    ASSUME Typed, NEW m \in Machines, NEW u, Thing(u), thing' = [thing EXCEPT ![m] = u]
    PROVE  /\ thing' \in [Machines -> Things] /\ \A n \in Machines : Thing(thing'[n])
           /\ thing'[m] = u /\ \A n \in Machines \ {m} : thing'[n] = thing[n]
  BY DEF Typed, Thing

LEMMA HeardOk ==
    ASSUME NEW r, Heard(r), said \in 0 .. 2
    PROVE  /\ owed' \in BOOLEAN /\ said' \in 0 .. 2
           /\ said' = said \/ (r.arrived /\ said' <= said + 1)
  <1>1. owed' \in BOOLEAN
    BY DEF Heard
  <1>2. said' = IF r.arrived /\ said < 2 THEN said + 1 ELSE said
    BY DEF Heard
  <1>3. CASE r.arrived /\ said < 2
    <2>1. said' = said + 1
      BY <1>2, <1>3, Zenon
    <2> QED
      BY <1>1, <1>3, <2>1
  <1>4. CASE ~(r.arrived /\ said < 2)
    <2>1. said' = said
      BY <1>2, <1>4, Zenon
    <2> QED
      BY <1>1, <2>1, Zenon
  <1> QED
    BY <1>3, <1>4

LEMMA FollowingKept ==
    ASSUME Following, UNCHANGED <<net, link, frame, seen>>,
           Final(thing'[CLIENT]) = Final(thing[CLIENT]), Final(thing'[HOST]) = Final(thing[HOST])
    PROVE  Following'
  BY DEF Following, Newest

LEMMA StampedKept ==
    ASSUME Stamped, UNCHANGED <<net, link, seen>>
    PROVE  Stamped'
  BY DEF Stamped

\* What is sent is the newest.
LEMMA SentOk ==
    ASSUME Typed, NEW op \in Ops, NEW i \in FrameNums, NEW t \in Things, SendPathMove(op, i, t)
    PROVE  /\ net' \in Seq(Messages) /\ frame' \in Nat /\ frame' >= frame /\ sent' \in BOOLEAN
           /\ sent' => frame' >= 1
           /\ \A k \in DOMAIN net' : net'[k].stamp \in 1 .. frame'
           /\ link # ALONE =>
                 /\ sent' = TRUE /\ Len(net') = Len(net) + 1 /\ Len(net) \in Nat
                 /\ \A k \in 1 .. Len(net) : net'[k] = net[k]
                 /\ net'[Len(net')] = [op |-> op, frame |-> i, place |-> t.place, face |-> t.face,
                                      stamp |-> frame']
                 /\ ~sent => frame' = frame + 1
  <1>1. /\ net \in Seq(Messages) /\ frame \in Nat /\ sent \in BOOLEAN /\ (sent => frame >= 1)
        /\ \A k \in DOMAIN net : net[k].stamp \in 1 .. frame
    BY DEF Typed
  <1>2. CASE link = ALONE
    BY <1>1, <1>2 DEF SendPathMove, Typed
  <1>3. CASE link # ALONE
    <2> DEFINE m == [op |-> op, frame |-> i, place |-> t.place, face |-> t.face, stamp |-> frame']
    <2>1. frame' = (IF sent THEN frame ELSE frame + 1) /\ sent' = TRUE /\ net' = Append(net, m)
      BY <1>3 DEF SendPathMove
    <2>2. /\ sent \in BOOLEAN /\ (sent => frame >= 1)
          /\ frame \in Nat /\ \A k \in DOMAIN net : net[k].stamp \in 1 .. frame
      BY DEF Typed
    <2>3. frame' \in Nat /\ frame' >= 1 /\ frame' >= frame /\ (~sent => frame' = frame + 1)
      <3>1. CASE sent
        BY <2>1, <2>2, <3>1 DEF Typed
      <3>2. CASE ~sent
        BY <2>1, <2>2, <3>2
      <3> QED
        BY <3>1, <3>2
    <2>4. m \in Messages /\ m.stamp = frame'
      BY <2>3 DEF Messages, Things
    <2> HIDE DEF m
    <2>5. /\ net' \in Seq(Messages) /\ Len(net') = Len(net) + 1 /\ Len(net) \in Nat
          /\ net'[Len(net')] = m /\ \A k \in 1 .. Len(net) : net'[k] = net[k]
          /\ DOMAIN net' = 1 .. Len(net) + 1 /\ DOMAIN net = 1 .. Len(net)
      <3>1. net \in Seq(Messages) /\ net' = Append(net, m)
        BY <1>1, <2>1
      <3> QED
        BY <2>4, <3>1, Appended
    <2>6. ASSUME NEW k \in DOMAIN net'
          PROVE  net'[k].stamp \in 1 .. frame'
      <3>1. CASE k = Len(net')
        BY <2>3, <2>4, <2>5, <3>1
      <3>2. CASE k # Len(net')
        <4>1. k \in DOMAIN net /\ net'[k] = net[k]
          BY <2>5, <3>2
        <4>2. net[k].stamp \in 1 .. frame
          BY <2>2, <4>1
        <4> QED
          BY <2>2, <2>3, <4>1, <4>2
      <3> QED
        BY <3>1, <3>2
    <2> QED
      BY <2>1, <2>3, <2>5, <2>6 DEF m
  <1> QED
    BY <1>2, <1>3

LEMMA SentStamped ==
    ASSUME Typed, Stamped, NEW op \in Ops, NEW i \in FrameNums, NEW t \in Things,
           SendPathMove(op, i, t), UNCHANGED <<link, seen>>
    PROVE  Stamped'
  <1> SUFFICES ASSUME link = IN_ORDER
               PROVE  /\ \A j, k \in DOMAIN net' : j <= k => net'[j].stamp <= net'[k].stamp
                      /\ \A k \in DOMAIN net' : seen <= net'[k].stamp
    BY DEF Stamped
  <1> DEFINE n == Len(net')
  <1>1. /\ net' \in Seq(Messages) /\ frame' \in Nat /\ frame' >= frame
        /\ \A k \in DOMAIN net' : net'[k].stamp \in 1 .. frame'
        /\ n = Len(net) + 1 /\ Len(net) \in Nat
        /\ \A k \in 1 .. Len(net) : net'[k] = net[k]
    BY SentOk DEF IN_ORDER, ALONE
  <1>2. net'[n].stamp = frame' /\ DOMAIN net' = 1 .. n /\ DOMAIN net = 1 .. Len(net)
    <2>1. net'[n] = [op |-> op, frame |-> i, place |-> t.place, face |-> t.face, stamp |-> frame']
      BY SentOk DEF IN_ORDER, ALONE
    <2> QED
      BY <1>1, <2>1 DEF Typed
  <1>3. /\ \A j, k \in DOMAIN net : j <= k => net[j].stamp <= net[k].stamp
        /\ \A k \in DOMAIN net : seen <= net[k].stamp
    BY DEF Stamped
  <1>4. seen <= frame' /\ seen \in Nat /\ frame \in Nat
    BY <1>1 DEF Typed
  <1> HIDE DEF n
  <1>5. \A k \in DOMAIN net' : k = n \/ (k \in DOMAIN net /\ net'[k] = net[k])
    BY <1>1, <1>2
  <1>6. \A k \in DOMAIN net' : net'[k].stamp <= frame'
    BY <1>1
  <1>7. ASSUME NEW j \in DOMAIN net', NEW k \in DOMAIN net', j <= k
        PROVE  net'[j].stamp <= net'[k].stamp
    <2>1. CASE k = n
      BY <1>2, <1>6, <2>1
    <2>2. CASE k # n
      <3>1. j \in DOMAIN net /\ k \in DOMAIN net
        BY <1>1, <1>2, <1>7, <2>2
      <3> QED
        BY <1>1, <1>2, <1>3, <1>7, <3>1
    <2> QED
      BY <2>1, <2>2
  <1>8. \A k \in DOMAIN net' : seen <= net'[k].stamp
    BY <1>2, <1>3, <1>4, <1>5
  <1> QED
    BY <1>7, <1>8

LEMMA SentFollowing ==
    ASSUME Typed, link # ALONE, NEW op \in Ops, NEW i \in FrameNums, NEW t \in Things,
           SendPathMove(op, i, t), UNCHANGED link, link = ANY_ORDER => ~sent,
           Dest([op |-> op, frame |-> i, place |-> t.place]) = Final(thing'[HOST])
    PROVE  Following'
  <1> DEFINE n == Len(net')
             m == [op |-> op, frame |-> i, place |-> t.place, face |-> t.face, stamp |-> frame']
  <1>1. /\ net' \in Seq(Messages) /\ n = Len(net) + 1 /\ Len(net) \in Nat
        /\ \A k \in 1 .. Len(net) : net'[k] = net[k]
        /\ net'[n] = m /\ (~sent => frame' = frame + 1) /\ frame' \in Nat
    BY SentOk
  <1>2. Dest(m) = Final(thing'[HOST]) /\ m.stamp = frame'
    BY DEF Dest
  <1>3. net \in Seq(Messages) /\ frame \in Nat /\ \A k \in DOMAIN net : net[k].stamp \in 1 .. frame
    BY DEF Typed
  <1> HIDE DEF m
  <1>4. net' # <<>> /\ DOMAIN net' = 1 .. n /\ n \in 1 .. n
    BY <1>1
  <1> HIDE DEF n
  <1>5. ASSUME ~sent
        PROVE  Newest'
    <2>1. \A j \in DOMAIN net' : j # n => net'[j].stamp < frame'
      <3> SUFFICES ASSUME NEW j \in DOMAIN net', j # n
                   PROVE  net'[j].stamp < frame'
        OBVIOUS
      <3>1. j \in DOMAIN net /\ net'[j] = net[j]
        BY <1>1, <1>3, <1>4
      <3>2. net[j].stamp \in 1 .. frame
        BY <1>3, <3>1
      <3> QED
        BY <1>1, <1>3, <1>5, <3>1, <3>2
    <2> QED
      BY <1>1, <1>2, <1>4, <2>1 DEF Newest
  <1>6. link' = IN_ORDER => Dest(net'[Len(net')]) = Final(thing'[HOST])
    BY <1>1, <1>2 DEF n
  <1> QED
    BY <1>4, <1>5, <1>6 DEF Following

-------------------------------------------------------------------------------
(* Every action keeps the invariant *)

LEMMA InitOk == Init => Inv
  <1> SUFFICES ASSUME Init
               PROVE  Inv
    OBVIOUS
  <1>1. /\ thing[HOST] = Resting /\ thing[CLIENT] = Resting
        /\ thing = [m \in Machines |-> Resting]
    BY MachinesOk DEF Init
  <1>2. Resting \in Things
    <2> DEFINE z == 0
               m == -1
               p == At(0).place
               e == At(0).face
               f == {}
    <2>1. /\ z \in FrameNums /\ z \in 0 .. 3 /\ z \in -1 .. 1 /\ z \in 0 .. MaxPlace
          /\ z \in 0 .. (MaxPlace + SpinTicks) /\ m \in FrameNums \cup {-1}
          /\ p \in Places /\ e \in Faces /\ f \in SUBSET Bits
      BY FramesOk
    <2>2. Resting = [flags |-> f, cur |-> z, goal |-> z, next |-> z, dir |-> z, left |-> z,
                     hits |-> z, turn |-> z, aim |-> e, place |-> p, face |-> e, reached |-> m]
      BY DEF Resting
    <2> HIDE DEF z, m, p, e, f
    <2> QED
      BY <2>1, <2>2 DEF Things
  <1>3. Thing(Resting) /\ \A h : Sound(Resting, h)
    <2>1. Resting.flags = {} /\ Resting.reached = -1 /\ Resting.place \in Places
      BY FramesOk DEF Resting
    <2> QED
      BY <1>2, <2>1 DEF Thing, Sound, Target
  <1>4. \E b \in Budgets : link = b.link /\ verbs = [commands |-> b.commands, others |-> b.others]
    BY DEF Init
  <1>5. link \in Links /\ verbs \in [commands : Nat, others : Nat]
    BY <1>4, TrackAssumption
  <1>6. /\ calls = <<>> /\ net = <<>> /\ frame = 0 /\ sent = FALSE /\ ticked = FALSE /\ seen = 0
        /\ owed = FALSE /\ said = 0 /\ odd = {}
    BY DEF Init
  <1>7. Typed
    <2>1. thing \in [Machines -> Things] /\ \A m \in Machines : Thing(thing[m])
      BY <1>1, <1>2, <1>3
    <2>2. calls \in Seq(Calls) /\ net \in Seq(Messages) /\ DOMAIN calls = {} /\ DOMAIN net = {}
      BY <1>6
    <2>3. sent \in BOOLEAN /\ ticked \in BOOLEAN /\ owed \in BOOLEAN /\ ~sent
      BY <1>6, Zenon
    <2>4. frame \in Nat /\ seen \in 0 .. frame /\ said \in 0 .. 2 /\ odd = {}
      <3>1. frame = 0 /\ seen = 0 /\ said = 0 /\ odd = {}
        BY <1>6, Zenon
      <3> QED
        BY <3>1
    <2> QED
      BY <1>5, <2>1, <2>2, <2>3, <2>4 DEF Typed
  <1>8. Walks
    BY <1>1, <1>3, <1>6, MachinesOk DEF Walks
  <1>9. Answered
    BY <1>6 DEF Answered, HasTick
  <1>10. Following
    BY <1>1, <1>6 DEF Following, Newest
  <1>11. Stamped /\ ToSend
    BY <1>6 DEF Stamped, ToSend
  <1> QED
    BY <1>7, <1>8, <1>9, <1>10, <1>11 DEF Inv, Sync

LEMMA TickHostOk == Inv /\ TickHost(Ways(thing[HOST])) => Inv'
  <1> SUFFICES ASSUME Inv, TickHost(Ways(thing[HOST]))
               PROVE  Inv'
    OBVIOUS
  <1> USE MachinesOk
  <1> DEFINE t == thing[HOST]
  <1>1. Typed /\ Walks /\ Answered /\ Sync
    BY DEF Inv
  <1>2. /\ calls = <<>> /\ Ticks(t) /\ ticked' = TRUE
        /\ UNCHANGED <<net, link, frame, sent, seen, verbs, odd>>
    BY DEF TickHost
  <1>3. PICK w \in Ways(t) :
           LET u == Moved(Turned(t, w.turn, w.place), w.go) IN
           IF Blocked(u)
           THEN /\ thing' = [thing EXCEPT ![HOST] = u]
                /\ calls' = <<TickCall>>
                /\ UNCHANGED <<owed, said>>
           ELSE /\ thing' = [thing EXCEPT ![HOST] = TickEnd(u).thing]
                /\ Heard(TickEnd(u))
                /\ UNCHANGED calls
    BY DEF TickHost
  <1> DEFINE v == Turned(t, w.turn, w.place)
             u == Moved(v, w.go)
             r == TickEnd(u)
  <1>4. w.turn \in BOOLEAN /\ w.go \in BOOLEAN /\ w.place \in Places /\ Thing(t)
    BY <1>1 DEF Ways, Typed
  <1> HIDE DEF t
  <1>5. Kept(v, t)
    BY <1>4, TurnedOk
  <1> HIDE DEF v
  <1>6. Kept(u, v)
    <2>1. Thing(v)
      BY <1>5 DEF Kept
    <2> QED
      BY <1>4, <2>1, MovedOk
  <1> HIDE DEF u
  <1>7. Kept(u, t)
    BY <1>5, <1>6, KeptTransitive
  <1>8. /\ Kept(r.thing, u) /\ r.arrived \in BOOLEAN
        /\ r.arrived => r.thing.flags \subseteq {"spin", "paused"}
    <2>1. Thing(u)
      BY <1>7 DEF Kept
    <2> QED
      BY <2>1, TickEndOk
  <1> HIDE DEF r
  <1>9. Kept(r.thing, t)
    BY <1>7, <1>8, KeptTransitive
  <1> DEFINE Step(x) ==
         IF Blocked(u)
         THEN x = u /\ calls' = <<TickCall>> /\ UNCHANGED <<owed, said>>
         ELSE x = r.thing /\ Heard(r) /\ UNCHANGED calls
  <1>10. PICK x : Step(x) /\ thing' = [thing EXCEPT ![HOST] = x] /\ Kept(x, t)
    <2>1. CASE Blocked(u)
      BY <1>3, <1>7, <2>1 DEF u, v, t
    <2>2. CASE ~Blocked(u)
      BY <1>3, <1>9, <2>2 DEF r, u, v, t
    <2> QED
      BY <2>1, <2>2
  <1>11. /\ thing' \in [Machines -> Things] /\ \A n \in Machines : Thing(thing'[n])
         /\ thing'[HOST] = x /\ thing'[CLIENT] = thing[CLIENT]
    BY <1>1, <1>10, ReplacedOk DEF Kept
  <1>12. calls' \in Seq(Calls) /\ (\A i \in DOMAIN calls' : i = 1 /\ calls'[i] = TickCall)
    <2>1. calls' = <<>> \/ calls' = <<TickCall>>
      BY <1>2, <1>10
    <2>2. CASE calls' = <<>>
      <3>1. DOMAIN calls' = {} /\ calls' \in Seq(Calls)
        BY <2>2
      <3> QED
        BY <3>1
    <2>3. CASE calls' = <<TickCall>>
      <3>1. TickCall \in Calls
        BY CallsOk
      <3>2. calls' \in Seq(Calls) /\ DOMAIN calls' = {1} /\ calls'[1] = TickCall
        BY <2>3, <3>1
      <3> QED
        BY <3>2
    <2> QED
      BY <2>1, <2>2, <2>3
  <1>17. /\ owed' \in BOOLEAN /\ said' \in 0 .. 2
         /\ Blocked(u) => said' = said
         /\ ~Blocked(u) => calls' = <<>> /\ (said' = said \/ (r.arrived /\ said' <= said + 1))
         /\ ~Blocked(u) => x = r.thing
    <2>1. owed \in BOOLEAN /\ said \in 0 .. 2
      BY <1>1 DEF Typed
    <2>2. CASE Blocked(u)
      <3>1. owed' = owed /\ said' = said
        BY <1>10, <2>2, Zenon
      <3> QED
        BY <2>1, <2>2, <3>1, Zenon
    <2>3. CASE ~Blocked(u)
      <3>1. x = r.thing /\ Heard(r) /\ calls' = <<>>
        BY <1>2, <1>10, <2>3, Zenon
      <3> QED
        BY <2>1, <2>3, <3>1, HeardOk, Zenon
    <2> QED
      BY <2>2, <2>3, Zenon
  <1> HIDE DEF Step
  <1>13. Typed'
    BY <1>1, <1>2, <1>11, <1>12, <1>17 DEF Typed
  <1>14. Walks'
    BY <1>1, <1>2, <1>10, <1>11 DEF Walks, Kept, Late, t
  <1>15. Answered'
    <2> SUFFICES ASSUME "spin" \notin x.flags, "again" \notin odd
                 PROVE  said' <= 1 /\ (said' = 1 => ~HasTick' /\ x.flags \subseteq {"paused"})
      BY <1>2, <1>11 DEF Answered
    <2>1. said = 0
      <3>1. "spin" \notin t.flags
        BY <1>10 DEF Kept, t
      <3>2. ~(t.flags \subseteq {"paused"})
        BY <1>2 DEF Ticks
      <3>3. said <= 1 /\ said # 1 /\ said \in 0 .. 2
        BY <1>1, <3>1, <3>2 DEF Answered, Typed, t
      <3> QED
        BY <3>3
    <2>2. CASE Blocked(u)
      BY <1>17, <2>1, <2>2
    <2>3. CASE ~Blocked(u)
      <3>1. calls' = <<>> /\ x = r.thing
        BY <1>17, <2>3
      <3>2. said' <= 1 /\ (said' = 1 => r.arrived)
        BY <1>17, <2>1, <2>3
      <3> QED
        BY <1>8, <3>1, <3>2 DEF HasTick
    <2> QED
      BY <2>2, <2>3
  <1>16. Sync'
    <2> SUFFICES ASSUME link # ALONE
                 PROVE  /\ Stamped' /\ ToSend'
                        /\ {"astray", "crossed"} \cap odd' = {} /\ NoSends' => Following'
      BY <1>2 DEF Sync
    <2>1. Stamped' /\ ToSend'
      <3>1. ToSend'
        BY <1>12 DEF ToSend
      <3> QED
        BY <1>1, <1>2, <3>1, StampedKept DEF Sync
    <2>2. ASSUME {"astray", "crossed"} \cap odd = {}
          PROVE  Following'
      <3>1. Following
        BY <1>1, <1>2, <2>2 DEF Sync, NoSends
      <3>2. Final(x) = Final(t)
        BY <1>1, <1>10, <2>2 DEF Walks, Kept, t
      <3> QED
        BY <1>2, <1>11, <3>1, <3>2, FollowingKept DEF t
    <2> QED
      BY <1>2, <2>1, <2>2
  <1> QED
    BY <1>13, <1>14, <1>15, <1>16 DEF Inv

\* The thing has nothing to do, or the next frame begins: only the stamp changes.
LEMMA FrameOk == Inv /\ (TickIdle \/ FramePasses) => Inv'
  <1> SUFFICES ASSUME Inv, TickIdle \/ FramePasses
               PROVE  Inv'
    OBVIOUS
  <1>1. /\ calls = <<>> /\ ticked' \in BOOLEAN /\ (sent' = sent \/ sent' = FALSE)
        /\ UNCHANGED <<thing, calls, net, link, frame, seen, verbs, owed, said, odd>>
    <2>1. CASE TickIdle
      <3>1. ticked' \in BOOLEAN /\ sent' = sent
        BY <2>1, Zenon DEF TickIdle
      <3> QED
        BY <2>1, <3>1, Zenon DEF TickIdle, ghosts
    <2>2. CASE FramePasses
      <3>1. ticked' \in BOOLEAN /\ sent' = FALSE
        BY <2>2, Zenon DEF FramePasses
      <3> QED
        BY <2>2, <3>1, Zenon DEF FramePasses, ghosts
    <2> QED
      BY <2>1, <2>2
  <1>2. Typed'
    <2>1. sent \in BOOLEAN
      BY Zenon DEF Inv, Typed
    <2>2. sent' \in BOOLEAN /\ (sent' => sent)
      <3>1. CASE sent' = sent
        BY <2>1, <3>1, Zenon
      <3>2. CASE sent' = FALSE
        BY <3>2, Zenon
      <3> QED
        BY <1>1, <3>1, <3>2
    <2> QED
      BY <1>1, <2>2 DEF Inv, Typed
  <1>3. Walks' /\ Answered'
    BY <1>1 DEF Inv, Walks, Late, Answered, HasTick
  <1>4. Sync'
    <2>1. Sync
      BY DEF Inv
    <2>2. Stamped' <=> Stamped
      BY <1>1 DEF Stamped
    <2>3. ToSend'
      BY <1>1 DEF ToSend
    <2>4. Following' <=> Following
      BY <1>1 DEF Following, Newest
    <2> QED
      BY <1>1, <2>1, <2>2, <2>3, <2>4 DEF Sync, NoSends
  <1> QED
    BY <1>2, <1>3, <1>4 DEF Inv

LEMMA ReturnOk == Inv /\ Return => Inv'
  <1> SUFFICES ASSUME Inv, Return
               PROVE  Inv'
    OBVIOUS
  <1> USE MachinesOk
  <1> DEFINE t == thing[HOST]
             call == Last(calls)
             n == Len(calls)
             r == TickEnd(t)
  <1>1. Typed /\ Walks /\ Answered /\ Sync
    BY DEF Inv
  <1>2. calls # <<>> /\ calls' = Front(calls) /\ UNCHANGED <<link, ticked, seen, verbs>>
    BY DEF Return
  <1>3. /\ calls \in Seq(Calls) /\ Thing(t) /\ owed \in BOOLEAN /\ said \in 0 .. 2
        /\ \A i \in DOMAIN calls : calls[i] = TickCall => i = 1
    BY <1>1 DEF Typed
  <1>4. /\ calls' \in Seq(Calls) /\ Len(calls') = n - 1 /\ n \in Nat \ {0} /\ n \in DOMAIN calls
        /\ \A i \in 1 .. n - 1 : calls'[i] = calls[i]
        /\ call = calls[n] /\ call \in Calls
    BY <1>2, <1>3, Popped
  <1>5. /\ DOMAIN calls' = 1 .. n - 1 /\ DOMAIN calls = 1 .. n
    BY <1>3, <1>4
  <1> HIDE DEF call, n, t, r
  <1>6. \A i \in DOMAIN calls' : i \in DOMAIN calls /\ calls'[i] = calls[i]
    BY <1>4, <1>5
  <1>7. CASE call = TickCall
    <2>1. /\ thing' = [thing EXCEPT ![HOST] = r.thing] /\ Heard(r)
          /\ UNCHANGED <<net, frame, sent, odd>>
      BY <1>7, CallsOk DEF Return, call, r, t
    <2>2. n = 1
      BY <1>3, <1>4, <1>7
    <2>3. DOMAIN calls' = {} /\ DOMAIN calls = {1} /\ calls[1] = TickCall
      <3>1. DOMAIN calls' = 1 .. 0 /\ DOMAIN calls = 1 .. 1
        BY <1>5, <2>2
      <3>2. 1 .. 0 = {} /\ 1 .. 1 = {1}
        OBVIOUS
      <3> QED
        BY <1>4, <1>7, <2>2, <3>1, <3>2, Zenon
    <2>4. /\ Kept(r.thing, t) /\ r.arrived \in BOOLEAN
          /\ r.arrived => r.thing.flags \subseteq {"spin", "paused"}
      BY <1>3, TickEndOk DEF r
    <2>5. /\ thing' \in [Machines -> Things] /\ \A m \in Machines : Thing(thing'[m])
          /\ thing'[HOST] = r.thing /\ thing'[CLIENT] = thing[CLIENT]
      BY <1>1, <2>1, <2>4, ReplacedOk DEF Kept
    <2>6. /\ owed' \in BOOLEAN /\ said' \in 0 .. 2
          /\ said' = said \/ (r.arrived /\ said' <= said + 1)
      BY <1>3, <2>1, HeardOk
    <2>7. Typed'
      BY <1>1, <1>2, <1>4, <2>1, <2>3, <2>5, <2>6 DEF Typed
    <2>8. Walks'
      BY <1>1, <2>1, <2>4, <2>5 DEF Walks, Kept, Late, t
    <2>9. Answered'
      <3> SUFFICES ASSUME "spin" \notin r.thing.flags, "again" \notin odd
                   PROVE  said' <= 1 /\ (said' = 1 => ~HasTick' /\ r.thing.flags \subseteq {"paused"})
        BY <2>1, <2>5 DEF Answered
      <3>1. "spin" \notin t.flags /\ HasTick
        BY <2>3, <2>4 DEF Kept, HasTick
      <3>2. said <= 1 /\ said # 1
        BY <1>1, <3>1 DEF Answered, t
      <3>3. said = 0
        BY <1>3, <3>2
      <3>4. said' <= 1 /\ (said' = 1 => r.arrived)
        BY <2>6, <3>3
      <3> QED
        BY <2>3, <2>4, <3>4 DEF HasTick
    <2>10. Sync'
      <3> SUFFICES ASSUME link # ALONE
                   PROVE  /\ Stamped' /\ ToSend'
                          /\ {"astray", "crossed"} \cap odd' = {} /\ NoSends' => Following'
        BY <1>2 DEF Sync
      <3>1. Stamped' /\ ToSend'
        <4>1. calls' = <<>>
          BY <1>4, <2>2
        <4>2. ToSend'
          BY <4>1 DEF ToSend
        <4> QED
          BY <1>1, <1>2, <2>1, <4>2, StampedKept DEF Sync
      <3>2. ASSUME {"astray", "crossed"} \cap odd = {}
            PROVE  Following'
        <4>1. Following
          BY <1>1, <2>3, <3>2 DEF Sync, NoSends
        <4>2. Final(r.thing) = Final(t)
          BY <1>1, <2>4, <3>2 DEF Walks, Kept, t
        <4> QED
          BY <1>2, <2>1, <2>5, <4>1, <4>2, FollowingKept DEF t
      <3> QED
        BY <2>1, <3>1, <3>2
    <2> QED
      BY <2>7, <2>8, <2>9, <2>10 DEF Inv
  <1>8. CASE call # TickCall
    <2>1. call.fn = "Send" /\ call.op \in Ops /\ call.frame \in FrameNums
      BY <1>4, <1>8, CallsOk
    <2>2. /\ SendPathMove(call.op, call.frame, t)
          /\ odd' = IF sent THEN odd \cup {"crossed"} ELSE odd \ {"crossed"}
          /\ UNCHANGED <<thing, owed, said>>
      BY <2>1 DEF Return, call, t
    <2>3. t \in Things
      BY <1>3 DEF Thing
    <2>4. /\ net' \in Seq(Messages) /\ frame' \in Nat /\ frame' >= frame /\ sent' \in BOOLEAN
          /\ sent' => frame' >= 1
          /\ \A k \in DOMAIN net' : net'[k].stamp \in 1 .. frame'
          /\ link # ALONE => sent' = TRUE
      BY <1>1, <2>1, <2>2, <2>3, SentOk
    <2>5. \A i \in DOMAIN calls' : calls'[i] = TickCall => i = 1
      BY <1>3, <1>6
    <2>6. /\ \A o \in {"astray", "again"} : o \in odd' <=> o \in odd
          /\ \A m \in Machines : Late(m)' = Late(m)
          /\ odd' \subseteq {Hasty(HOST), Hasty(CLIENT), "astray", "again", "crossed"}
          /\ sent => "crossed" \in odd'
      <3>1. odd \subseteq {Hasty(HOST), Hasty(CLIENT), "astray", "again", "crossed"}
        BY <1>1 DEF Typed
      <3>2. CASE sent
        BY <2>2, <3>1, <3>2 DEF Late
      <3>3. CASE ~sent
        BY <2>2, <3>1, <3>3 DEF Late
      <3> QED
        BY <3>2, <3>3
    <2>7. Typed'
      <3>1. frame \in Nat /\ seen \in 0 .. frame
        BY <1>1 DEF Typed
      <3>2. seen' \in 0 .. frame'
        BY <1>2, <2>4, <3>1
      <3> QED
        BY <1>1, <1>2, <1>4, <2>2, <2>4, <2>5, <2>6, <3>2 DEF Typed
    <2>8. Walks'
      BY <1>1, <2>2, <2>6 DEF Walks
    <2>9. Answered'
      <3>1. HasTick' => HasTick
        BY <1>6 DEF HasTick
      <3> QED
        BY <1>1, <2>2, <2>6, <3>1 DEF Answered
    <2>10. Sync'
      <3> SUFFICES ASSUME link # ALONE
                   PROVE  /\ Stamped' /\ ToSend'
                          /\ {"astray", "crossed"} \cap odd' = {} /\ NoSends' => Following'
        BY <1>2 DEF Sync
      <3>1. Stamped'
        BY <1>1, <1>2, <2>1, <2>2, <2>3, SentStamped DEF Sync
      <3>2. ToSend'
        BY <2>4 DEF ToSend
      <3>3. ASSUME {"astray", "crossed"} \cap odd' = {}
            PROVE  Following'
        <4>1. ~sent /\ "astray" \notin odd
          BY <2>6, <3>3
        <4>2. /\ AtRest(t) /\ (call.op # "stop" => t.place = At(call.frame).place)
          BY <1>1, <1>2, <1>4, <1>8, <4>1 DEF Sync, ToSend, t, n
        <4>3. Final(t) = t.place
          BY <4>2 DEF Final, Target, AtRest, UnderWay
        <4>4. Dest([op |-> call.op, frame |-> call.frame, place |-> t.place]) = Final(thing'[HOST])
          BY <2>2, <4>2, <4>3 DEF Dest, t
        <4> QED
          BY <1>1, <1>2, <2>1, <2>2, <2>3, <4>1, <4>4, SentFollowing
      <3> QED
        BY <3>1, <3>2, <3>3
    <2> QED
      BY <2>7, <2>8, <2>9, <2>10 DEF Inv
  <1> QED
    BY <1>7, <1>8

\* What the host notes of a command that it gives to a thing.
LEMMA AfterOk ==
    ASSUME Typed, NEW t, NEW o, o = After(t)
    PROVE  /\ o \subseteq {Hasty(HOST), Hasty(CLIENT), "astray", "again", "crossed"}
           /\ "astray" \in o <=> {"pivot", "spin"} \cap t.flags # {}
           /\ "again" \in o <=> HasTick
           /\ o \cap {Hasty(HOST)} # {} <=> AboutToTurn(t)
           /\ o \cap {Hasty(CLIENT)} = Late(CLIENT)
  <1> USE MachinesOk
  <1>1. odd \subseteq {Hasty(HOST), Hasty(CLIENT), "astray", "again", "crossed"}
    BY DEF Typed
  <1>2. \A e : e \in o <=>
           \/ e \in odd /\ e \notin {Hasty(HOST), "astray", "again"}
           \/ e = Hasty(HOST) /\ AboutToTurn(t)
           \/ e = "astray" /\ {"pivot", "spin"} \cap t.flags # {}
           \/ e = "again" /\ HasTick
    BY DEF After, Hastily, HasTick
  <1>3. /\ Hasty(HOST) \notin {"astray", "again"} /\ Hasty(CLIENT) \notin {"astray", "again"}
        /\ Hasty(CLIENT) # Hasty(HOST)
    OBVIOUS
  <1>4. /\ "astray" \in o <=> {"pivot", "spin"} \cap t.flags # {}
        /\ "again" \in o <=> HasTick
        /\ Hasty(HOST) \in o <=> AboutToTurn(t)
        /\ Hasty(CLIENT) \in o <=> Hasty(CLIENT) \in odd
    BY <1>2, <1>3
  <1>5. o \subseteq {Hasty(HOST), Hasty(CLIENT), "astray", "again", "crossed"}
    BY <1>1, <1>2
  <1>6. o \cap {Hasty(CLIENT)} = Late(CLIENT)
    BY <1>4 DEF Late
  <1>7. o \cap {Hasty(HOST)} # {} <=> AboutToTurn(t)
    BY <1>4
  <1> QED
    BY <1>4, <1>5, <1>6, <1>7

LEMMA CommandOk ==
    ASSUME Inv, NEW op \in Ops, NEW i \in FrameNums, Command(op, i)
    PROVE  Inv'
  <1> USE MachinesOk
  <1> DEFINE t == thing[HOST]
             r == CASE op = "move" -> MoveToFrame(t, i)
                    [] op = "skip" -> SkipToFrame(t, i)
                    [] op = "stop" -> Stop([t EXCEPT !.reached = -1])
             o == After(t)
  <1>1. Typed /\ Walks /\ Answered /\ Sync
    BY DEF Inv
  <1>2. Thing(t)
    BY <1>1 DEF Typed
  <1>3. /\ verbs.commands > 0 /\ verbs' = [verbs EXCEPT !.commands = @ - 1]
        /\ thing' = [thing EXCEPT ![HOST] = r.thing]
        /\ owed' = (~r.arrived /\ (op = "move" \/ UnderWay \cap r.thing.flags # {}))
        /\ said' = IF r.arrived THEN 1 ELSE 0
        /\ IF r.arrived
           THEN calls' = Append(calls, SendCall(op, i)) /\ odd' = o
                /\ UNCHANGED <<net, frame, sent>>
           ELSE /\ SendPathMove(op, i, r.thing)
                /\ odd' = IF sent /\ link = ANY_ORDER THEN o \cup {"crossed"} ELSE o \ {"crossed"}
                /\ UNCHANGED calls
        /\ UNCHANGED <<link, ticked, seen>>
    BY DEF Command
  <1> HIDE DEF t
  <1>4. Obeys(r, t, op, i) /\ (op = "stop" => r.arrived)
    <2>1. CASE op = "move"
      BY <1>2, <2>1, MoveToFrameOk
    <2>2. CASE op = "skip"
      BY <1>2, <2>2, SkipToFrameOk
    <2>3. CASE op = "stop"
      BY <1>2, <2>3, StopThingOk
    <2> QED
      BY <2>1, <2>2, <2>3 DEF Ops
  <1> HIDE DEF r
  <1>5. /\ o \subseteq {Hasty(HOST), Hasty(CLIENT), "astray", "again", "crossed"}
        /\ "astray" \in o <=> {"pivot", "spin"} \cap t.flags # {}
        /\ "again" \in o <=> HasTick
        /\ o \cap {Hasty(HOST)} # {} <=> AboutToTurn(t)
        /\ o \cap {Hasty(CLIENT)} = Late(CLIENT)
    BY <1>1, AfterOk
  <1> HIDE DEF o
  <1>6. /\ Thing(r.thing) /\ r.arrived \in BOOLEAN
        /\ r.arrived => /\ AtRest(r.thing) /\ r.thing.flags \subseteq {"spin", "paused"}
                        /\ op # "stop" => r.thing.place = At(i).place
        /\ {"pivot", "spin"} \cap t.flags = {} =>
              \A h : (h # {} \/ ~AboutToTurn(t)) =>
                 /\ Sound(r.thing, h)
                 /\ Final(r.thing) = Dest([op |-> op, frame |-> i, place |-> t.place])
    BY <1>4 DEF Obeys
  <1>7. /\ thing' \in [Machines -> Things] /\ \A m \in Machines : Thing(thing'[m])
        /\ thing'[HOST] = r.thing /\ thing'[CLIENT] = thing[CLIENT]
    BY <1>1, <1>3, <1>6, ReplacedOk
  <1>8. /\ odd' \subseteq {Hasty(HOST), Hasty(CLIENT), "astray", "again", "crossed"}
        /\ \A e : e # "crossed" => (e \in odd' <=> e \in o)
        /\ "crossed" \notin odd' /\ ~r.arrived => ~(sent /\ link = ANY_ORDER)
    <2>1. CASE r.arrived
      BY <1>3, <1>5, <2>1
    <2>2. CASE ~r.arrived /\ sent /\ link = ANY_ORDER
      BY <1>3, <1>5, <2>2
    <2>3. CASE ~r.arrived /\ ~(sent /\ link = ANY_ORDER)
      <3>1. odd' = o \ {"crossed"}
        BY <1>3, <2>3, Zenon
      <3> QED
        BY <1>5, <2>3, <3>1
    <2> QED
      BY <1>6, <2>1, <2>2, <2>3
  <1>9. \A m \in Machines : Late(m)' = o \cap {Hasty(m)}
    BY <1>8 DEF Late
  <1>10. owed' \in BOOLEAN /\ said' \in 0 .. 2 /\ said' <= 1 /\ (said' = 1 => r.arrived)
    <2>1. owed' \in BOOLEAN
      BY <1>3
    <2>2. (said' = 1 /\ r.arrived) \/ said' = 0
      BY <1>3, Zenon
    <2> QED
      BY <2>1, <2>2
  <1>11. verbs' \in [commands : Nat, others : Nat]
    <2>1. verbs \in [commands : Nat, others : Nat] /\ verbs.commands > 0
      BY <1>1, <1>3 DEF Typed
    <2> QED
      BY <1>3, <2>1
  <1>12. Walks'
    <2>1. "astray" \notin odd' => Sound(r.thing, Late(HOST)')
      <3> SUFFICES ASSUME "astray" \notin odd'
                   PROVE  Sound(r.thing, Late(HOST)')
        OBVIOUS
      <3>1. {"pivot", "spin"} \cap t.flags = {}
        BY <1>5, <1>8
      <3>2. Late(HOST)' # {} \/ ~AboutToTurn(t)
        BY <1>5, <1>9
      <3> QED
        BY <1>6, <3>1, <3>2
    <2>2. Late(CLIENT)' = Late(CLIENT)
      BY <1>5, <1>9
    <2> QED
      BY <1>1, <1>7, <2>1, <2>2 DEF Walks
  <1>13. CASE r.arrived
    <2> DEFINE n == Len(calls')
               c == SendCall(op, i)
    <2>1. calls' = Append(calls, c) /\ UNCHANGED <<net, frame, sent, link, ticked, seen>>
      BY <1>3, <1>13
    <2>2. c \in Calls /\ c # TickCall /\ c.op = op /\ c.frame = i
      BY CallsOk
    <2>3. calls \in Seq(Calls) /\ \A j \in DOMAIN calls : calls[j] = TickCall => j = 1
      BY <1>1 DEF Typed
    <2> HIDE DEF c
    <2>4. /\ calls' \in Seq(Calls) /\ n = Len(calls) + 1 /\ Len(calls) \in Nat /\ calls'[n] = c
          /\ \A j \in 1 .. Len(calls) : calls'[j] = calls[j]
          /\ DOMAIN calls' = 1 .. Len(calls) + 1 /\ DOMAIN calls = 1 .. Len(calls)
      BY <2>1, <2>2, <2>3, Appended
    <2> HIDE DEF n
    <2>5. /\ \A j \in DOMAIN calls' : calls'[j] = TickCall => j \in DOMAIN calls /\ calls[j] = TickCall
          /\ n \in DOMAIN calls'
      BY <2>2, <2>4
    <2>6. Typed'
      BY <1>1, <1>7, <1>8, <1>10, <1>11, <2>1, <2>3, <2>4, <2>5 DEF Typed
    <2>7. Answered'
      <3>1. HasTick' => HasTick
        BY <2>5 DEF HasTick
      <3>2. "again" \in odd' <=> HasTick
        BY <1>5, <1>8
      <3> QED
        BY <1>6, <1>7, <1>10, <1>13, <3>1, <3>2 DEF Answered
    <2>8. Sync'
      <3>1. ~NoSends'
        BY <2>2, <2>4, <2>5 DEF NoSends
      <3>2. ToSend'
        BY <1>6, <1>7, <1>13, <2>2, <2>4 DEF ToSend, n
      <3>3. Stamped => Stamped'
        BY <2>1, StampedKept
      <3> QED
        BY <1>1, <2>1, <3>1, <3>2, <3>3 DEF Sync
    <2> QED
      BY <1>12, <2>6, <2>7, <2>8 DEF Inv
  <1>14. CASE ~r.arrived
    <2>1. SendPathMove(op, i, r.thing) /\ UNCHANGED <<calls, link, ticked, seen>>
      BY <1>3, <1>14
    <2>2. r.thing \in Things
      BY <1>6 DEF Thing
    <2>3. /\ net' \in Seq(Messages) /\ frame' \in Nat /\ frame' >= frame /\ sent' \in BOOLEAN
          /\ sent' => frame' >= 1
          /\ \A k \in DOMAIN net' : net'[k].stamp \in 1 .. frame'
          /\ link # ALONE => sent' = TRUE
      BY <1>1, <2>1, <2>2, SentOk
    <2>4. Typed'
      <3>1. frame \in Nat /\ seen \in 0 .. frame
        BY <1>1 DEF Typed
      <3>2. seen' \in 0 .. frame'
        BY <2>1, <2>3, <3>1
      <3> QED
        BY <1>1, <1>7, <1>8, <1>10, <1>11, <2>1, <2>3, <3>2 DEF Typed
    <2>5. Answered'
      <3>1. HasTick' <=> HasTick
        BY <2>1 DEF HasTick
      <3> QED
        BY <1>10, <1>14 DEF Answered
    <2>6. Sync'
      <3> SUFFICES ASSUME link # ALONE
                   PROVE  /\ Stamped' /\ ToSend'
                          /\ {"astray", "crossed"} \cap odd' = {} /\ NoSends' => Following'
        BY <2>1 DEF Sync
      <3>1. Stamped'
        BY <1>1, <2>1, <2>2, SentStamped DEF Sync
      <3>2. ToSend'
        BY <2>3 DEF ToSend
      <3>3. ASSUME {"astray", "crossed"} \cap odd' = {}
            PROVE  Following'
        <4>1. (link = ANY_ORDER => ~sent) /\ {"pivot", "spin"} \cap t.flags = {}
          BY <1>5, <1>8, <1>14, <3>3
        <4>2. op # "stop" /\ Final(r.thing) = Dest([op |-> op, frame |-> i, place |-> t.place])
          BY <1>4, <1>6, <1>14, <4>1
        <4>3. Dest([op |-> op, frame |-> i, place |-> r.thing.place]) = Final(thing'[HOST])
          BY <1>7, <4>2 DEF Dest
        <4> QED
          BY <1>1, <2>1, <2>2, <4>1, <4>3, SentFollowing
      <3> QED
        BY <3>1, <3>2, <3>3
    <2> QED
      BY <1>12, <2>4, <2>5, <2>6 DEF Inv
  <1> QED
    BY <1>6, <1>13, <1>14

LEMMA UnsyncedStepOk == Inv /\ Unsynced => Inv'
  <1> SUFFICES ASSUME Inv, Unsynced
               PROVE  Inv'
    OBVIOUS
  <1> USE MachinesOk
  <1> DEFINE t == thing[HOST]
  <1>1. Typed /\ Walks /\ Answered /\ Sync
    BY DEF Inv
  <1>2. Thing(t)
    BY <1>1 DEF Typed
  <1>3. /\ verbs.others > 0 /\ verbs' = [verbs EXCEPT !.others = @ - 1]
        /\ odd' = odd \cup {"astray"}
        /\ UNCHANGED <<calls, net, link, frame, sent, ticked, seen>>
    BY DEF Unsynced
  <1>4. PICK x : /\ thing' = [thing EXCEPT ![HOST] = x] /\ Thing(x) /\ owed' \in BOOLEAN
                 /\ "spin" \notin x.flags => "spin" \notin t.flags
                 /\ said' = 0 \/ (said' = said /\ x.flags = t.flags)
    <2>1. CASE thing' = [thing EXCEPT ![HOST] = RotatePivot(@)] /\ owed' = TRUE /\ said' = 0
      <3>1. 0 \in FrameNums
        BY FramesOk
      <3>2. Thing(RotatePivot(t)) /\ ("spin" \in RotatePivot(t).flags <=> "spin" \in t.flags)
        BY <1>2, <3>1, UnsyncedOk
      <3> QED
        BY <2>1, <3>2, Zenon
    <2>2. CASE thing' = [thing EXCEPT ![HOST] = Rotate(@)] /\ owed' = TRUE /\ said' = 0
      <3>1. 0 \in FrameNums
        BY FramesOk
      <3>2. Thing(Rotate(t)) /\ "spin" \in Rotate(t).flags
        BY <1>2, <3>1, UnsyncedOk
      <3> QED
        BY <2>2, <3>2, Zenon
    <2>3. CASE /\ \E i \in FrameNums : thing' = [thing EXCEPT ![HOST] = Jump(@, i)]
               /\ UNCHANGED <<owed, said>>
      <3>1. PICK i \in FrameNums : thing' = [thing EXCEPT ![HOST] = Jump(t, i)]
        BY <2>3
      <3>2. Thing(Jump(t, i)) /\ Jump(t, i).flags = t.flags
        BY <1>2, UnsyncedOk
      <3>3. owed' \in BOOLEAN /\ said' = said
        BY <1>1, <2>3 DEF Typed
      <3> QED
        BY <3>1, <3>2, <3>3, Zenon
    <2> QED
      BY <2>1, <2>2, <2>3 DEF Unsynced
  <1>5. /\ thing' \in [Machines -> Things] /\ \A m \in Machines : Thing(thing'[m])
        /\ thing'[HOST] = x /\ thing'[CLIENT] = thing[CLIENT]
    BY <1>1, <1>4, ReplacedOk
  <1>6. /\ odd' \subseteq {Hasty(HOST), Hasty(CLIENT), "astray", "again", "crossed"}
        /\ "astray" \in odd' /\ ("again" \in odd' <=> "again" \in odd)
        /\ Late(CLIENT)' = Late(CLIENT)
    BY <1>1, <1>3 DEF Typed, Late
  <1>7. verbs' \in [commands : Nat, others : Nat] /\ said' \in 0 .. 2
    <2>1. verbs \in [commands : Nat, others : Nat]
      BY <1>1 DEF Typed
    <2>2. verbs.others - 1 \in Nat
      BY <1>3, <2>1
    <2> DEFINE n == verbs.others - 1
    <2>3. verbs' = [verbs EXCEPT !.others = n]
      BY <1>3
    <2> HIDE DEF n
    <2>4. verbs' \in [commands : Nat, others : Nat]
      <3>1. n \in Nat
        BY <2>2 DEF n
      <3> QED
        BY <2>1, <2>3, <3>1
    <2>5. said \in 0 .. 2
      BY <1>1 DEF Typed
    <2>6. said' = 0 \/ said' = said
      BY <1>4, Zenon
    <2>7. said' \in 0 .. 2
      BY <2>5, <2>6
    <2> QED
      BY <2>4, <2>7
  <1>8. Typed'
    BY <1>1, <1>3, <1>4, <1>5, <1>6, <1>7 DEF Typed
  <1>9. Walks'
    BY <1>1, <1>5, <1>6 DEF Walks
  <1>10. Answered'
    <2>1. HasTick' <=> HasTick
      BY <1>3 DEF HasTick
    <2> SUFFICES ASSUME "spin" \notin x.flags, "again" \notin odd
                 PROVE  said' <= 1 /\ (said' = 1 => ~HasTick /\ x.flags \subseteq {"paused"})
      BY <1>5, <1>6, <2>1 DEF Answered
    <2>2. said <= 1 /\ (said = 1 => ~HasTick /\ t.flags \subseteq {"paused"})
      BY <1>1, <1>4 DEF Answered
    <2>3. CASE said' = 0
      BY <2>3
    <2>4. CASE said' = said /\ x.flags = t.flags
      BY <2>2, <2>4
    <2> QED
      BY <1>4, <2>3, <2>4
  <1>11. Sync'
    <2>1. Stamped => Stamped'
      BY <1>3, StampedKept
    <2>2. ToSend'
      BY <1>6 DEF ToSend
    <2> QED
      BY <1>1, <1>3, <1>6, <2>1, <2>2 DEF Sync
  <1> QED
    BY <1>8, <1>9, <1>10, <1>11 DEF Inv

\* The two verbs that pause a thing and let it go on.
LEMMA PauseOk ==
    ASSUME Inv, PathMovePause \/ PathMoveResume
    PROVE  Inv'
  <1> USE MachinesOk
  <1> DEFINE t == thing[HOST]
  <1>1. Typed /\ Walks /\ Answered /\ Sync
    BY DEF Inv
  <1>2. Thing(t)
    BY <1>1 DEF Typed
  <1>3. PICK x : /\ thing' = [thing EXCEPT ![HOST] = x]
                 /\ \/ x = [t EXCEPT !.flags = @ \cup {"paused"}] /\ UnderWay \cap t.flags # {}
                    \/ x = [t EXCEPT !.flags = @ \ {"paused"}]
    BY DEF PathMovePause, PathMoveResume
  <1>4. UNCHANGED <<calls, net, link, frame, sent, ticked, seen, owed, said, odd>>
    BY DEF PathMovePause, PathMoveResume, ghosts
  <1>5. verbs' \in [commands : Nat, others : Nat]
    <2>1. verbs \in [commands : Nat, others : Nat]
      BY <1>1 DEF Typed
    <2>2. \/ verbs' = verbs
          \/ verbs.others > 0 /\ verbs' = [verbs EXCEPT !.others = @ - 1]
      BY DEF PathMovePause, PathMoveResume
    <2> QED
      BY <2>1, <2>2
  <1> HIDE DEF t
  <1>6. Kept(x, t) /\ SameBits(x, t, {"paused"}) /\ x.place = t.place
    BY <1>2, <1>3, PausedOk
  <1>7. /\ thing' \in [Machines -> Things] /\ \A m \in Machines : Thing(thing'[m])
        /\ thing'[HOST] = x /\ thing'[CLIENT] = thing[CLIENT]
    BY <1>1, <1>3, <1>6, ReplacedOk DEF Kept
  <1>8. Typed'
    BY <1>1, <1>4, <1>5, <1>7 DEF Typed
  <1>9. Walks'
    BY <1>1, <1>4, <1>6, <1>7 DEF Walks, Kept, Late, t
  <1>10. Answered'
    <2>1. HasTick' <=> HasTick
      BY <1>4 DEF HasTick
    <2> SUFFICES ASSUME "spin" \notin x.flags, "again" \notin odd
                 PROVE  said <= 1 /\ (said = 1 => ~HasTick /\ x.flags \subseteq {"paused"})
      BY <1>4, <1>7, <2>1 DEF Answered
    <2>2. said <= 1 /\ (said = 1 => ~HasTick /\ t.flags \subseteq {"paused"})
      BY <1>1, <1>6 DEF Answered, Kept, t
    <2>3. ASSUME t.flags \subseteq {"paused"}
          PROVE  x.flags \subseteq {"paused"}
      <3>1. x.flags \subseteq Bits
        BY <1>6 DEF Kept, Thing, Things
      <3> QED
        BY <1>6, <2>3, <3>1 DEF SameBits
    <2> QED
      BY <2>2, <2>3
  <1>11. Sync'
    <2>1. Stamped => Stamped'
      BY <1>4, StampedKept
    <2>2. ToSend => ToSend'
      <3>1. AtRest(t) => AtRest(x)
        BY <1>6 DEF AtRest, UnderWay, SameBits, Bits
      <3> QED
        BY <1>4, <1>6, <1>7, <3>1 DEF ToSend, t
    <2>3. ASSUME Following, "astray" \notin odd
          PROVE  Following'
      <3>1. Final(x) = Final(t)
        BY <1>1, <1>6, <2>3 DEF Walks, Kept, t
      <3> QED
        BY <1>4, <1>7, <2>3, <3>1, FollowingKept DEF t
    <2>4. NoSends' <=> NoSends
      BY <1>4 DEF NoSends
    <2> QED
      BY <1>1, <1>4, <2>1, <2>2, <2>3, <2>4 DEF Sync
  <1> QED
    BY <1>8, <1>9, <1>10, <1>11 DEF Inv

LEMMA TickClientOk ==
    ASSUME Inv, NEW free \in BOOLEAN, TickClient(free)
    PROVE  Inv'
  <1> USE MachinesOk
  <1> DEFINE t == thing[CLIENT]
             v == Turned(t, TRUE, t.place)
             u == Moved(v, free)
             w == [u EXCEPT !.hits = 0]
             r == TickEnd(w).thing
             x == [r EXCEPT !.hits = 0]
  <1>1. Typed /\ Walks /\ Answered /\ Sync
    BY DEF Inv
  <1>2. Thing(t) /\ t.place \in Places
    BY <1>1 DEF Typed, Thing, Things
  <1>3. /\ thing' = [thing EXCEPT ![CLIENT] = x]
        /\ UNCHANGED <<calls, net, link, frame, sent, ticked, seen, verbs, owed, said, odd>>
    BY DEF TickClient, ghosts
  <1> HIDE DEF t
  <1>4. Kept(v, t)
    BY <1>2, TurnedOk
  <1> HIDE DEF v
  <1>5. Kept(u, v)
    BY <1>4, MovedOk DEF Kept
  <1> HIDE DEF u
  <1>6. Kept(w, u)
    <2>1. Thing(u)
      BY <1>5 DEF Kept
    <2> QED
      BY <2>1, HitsOk
  <1> HIDE DEF w
  <1>7. Kept(r, w)
    <2>1. Thing(w)
      BY <1>6 DEF Kept
    <2> QED
      BY <2>1, TickEndOk
  <1> HIDE DEF r
  <1>8. Kept(x, r)
    <2>1. Thing(r)
      BY <1>7 DEF Kept
    <2> QED
      BY <2>1, HitsOk
  <1> HIDE DEF x
  <1>9. Kept(x, t)
    <2>1. Kept(u, t)
      BY <1>4, <1>5, KeptTransitive
    <2>2. Kept(w, t)
      BY <1>6, <2>1, KeptTransitive
    <2>3. Kept(r, t)
      BY <1>7, <2>2, KeptTransitive
    <2> QED
      BY <1>8, <2>3, KeptTransitive
  <1>10. /\ thing' \in [Machines -> Things] /\ \A m \in Machines : Thing(thing'[m])
         /\ thing'[CLIENT] = x /\ thing'[HOST] = thing[HOST]
    BY <1>1, <1>3, <1>9, ReplacedOk DEF Kept
  <1>11. Typed'
    BY <1>1, <1>3, <1>10 DEF Typed
  <1>12. Walks' /\ Final(x) = Final(t)
    BY <1>1, <1>3, <1>9, <1>10 DEF Walks, Kept, Late, t
  <1>13. Answered'
    BY <1>1, <1>3, <1>10 DEF Answered, HasTick
  <1>14. Sync'
    <2>1. Stamped => Stamped'
      BY <1>3, StampedKept
    <2>2. ToSend => ToSend'
      BY <1>3, <1>10 DEF ToSend
    <2>3. Following => Following'
      BY <1>3, <1>10, <1>12, FollowingKept DEF t
    <2>4. NoSends' <=> NoSends
      BY <1>3 DEF NoSends
    <2> QED
      BY <1>1, <1>3, <2>1, <2>2, <2>3, <2>4 DEF Sync
  <1> QED
    BY <1>11, <1>12, <1>13, <1>14 DEF Inv

\* What the client makes of a message.
LEMMA FollowOk ==
    ASSUME NEW t, Thing(t), NEW m \in Messages, NEW u, u = [t EXCEPT !.place = m.place, !.face = m.face]
    PROVE  /\ Thing(Follow(t, m))
           /\ {"pivot", "spin"} \cap t.flags = {} =>
                 /\ Final(Follow(t, m)) = Dest(m)
                 /\ \A h : (h # {} \/ ~AboutToTurn(u)) => Sound(Follow(t, m), h)
  <1> DEFINE x == Follow(t, m)
             i == m.frame
  <1>1. m.op \in Ops /\ i \in FrameNums /\ m.place \in Places /\ m.face \in Faces
    BY DEF Messages
  <1>2. Thing(u) /\ u.flags = t.flags /\ u.place = m.place /\ u.face = m.face
    <2>1. t \in Things
      BY DEF Thing
    <2>2. u \in Things /\ u.flags = t.flags /\ u.left = t.left
          /\ u.place = m.place /\ u.face = m.face
      BY <1>1, <2>1 DEF Things
    <2> QED
      BY <2>2 DEF Thing
  <1>3. /\ m.op = "move" => x = MoveToFrame(u, i).thing
        /\ m.op = "skip" => x = SkipToFrame(u, i).thing
        /\ m.op = "stop" => x = Stop([u EXCEPT !.reached = -1]).thing
    BY DEF Follow
  <1> HIDE DEF x, i
  <1>4. PICK r : x = r.thing /\ Obeys(r, u, m.op, i)
    <2>1. CASE m.op = "move"
      <3>1. Obeys(MoveToFrame(u, i), u, "move", i)
        BY <1>1, <1>2, MoveToFrameOk
      <3> QED
        BY <1>3, <2>1, <3>1
    <2>2. CASE m.op = "skip"
      <3>1. Obeys(SkipToFrame(u, i), u, "skip", i)
        BY <1>1, <1>2, SkipToFrameOk
      <3> QED
        BY <1>3, <2>2, <3>1
    <2>3. CASE m.op = "stop"
      <3>1. Obeys(Stop([u EXCEPT !.reached = -1]), u, "stop", i)
        BY <1>1, <1>2, StopThingOk
      <3> QED
        BY <1>3, <2>3, <3>1
    <2> QED
      BY <1>1, <2>1, <2>2, <2>3 DEF Ops
  <1>5. Dest([op |-> m.op, frame |-> i, place |-> u.place]) = Dest(m)
    BY <1>2 DEF Dest, i
  <1>6. Thing(x)
    BY <1>4 DEF Obeys
  <1>7. ASSUME {"pivot", "spin"} \cap t.flags = {}
        PROVE  /\ Final(x) = Dest(m)
               /\ \A h : (h # {} \/ ~AboutToTurn(u)) => Sound(x, h)
    <2>1. \A h : (h # {} \/ ~AboutToTurn(u)) => Sound(x, h) /\ Final(x) = Dest(m)
      BY <1>2, <1>4, <1>5, <1>7 DEF Obeys
    <2>2. Final(x) = Dest(m)
      <3>1. {0} # {}
        OBVIOUS
      <3> QED
        BY <2>1, <3>1
    <2> QED
      BY <2>1, <2>2
  <1> QED
    BY <1>6, <1>7 DEF x

LEMMA ProcessPathMoveOk ==
    ASSUME Inv, NEW k \in DOMAIN net, ProcessPathMove(k)
    PROVE  Inv'
  <1> USE MachinesOk
  <1> DEFINE t == thing[CLIENT]
             m == net[k]
             n == Len(net)
             u == [t EXCEPT !.place = m.place, !.face = m.face]
             x == Follow(t, m)
  <1>1. Typed /\ Walks /\ Answered /\ Sync
    BY DEF Inv
  <1>2. /\ net \in Seq(Messages) /\ frame \in Nat /\ seen \in 0 .. frame /\ Thing(t)
        /\ \A j \in DOMAIN net : net[j].stamp \in 1 .. frame
        /\ odd \subseteq {Hasty(HOST), Hasty(CLIENT), "astray", "again", "crossed"}
    BY <1>1 DEF Typed
  <1>3. /\ net' = RemoveAt(net, k) /\ (link = IN_ORDER => k = 1)
        /\ UNCHANGED <<calls, link, frame, sent, ticked, verbs, owed, said>>
    BY DEF ProcessPathMove
  <1>4. IF seen <= m.stamp
        THEN /\ seen' = m.stamp /\ thing' = [thing EXCEPT ![CLIENT] = x]
             /\ odd' = (odd \ {Hasty(CLIENT)}) \cup Hastily(CLIENT, [t EXCEPT !.face = m.face])
        ELSE UNCHANGED <<seen, thing, odd>>
    BY DEF ProcessPathMove
  <1>5. /\ net' \in Seq(Messages) /\ Len(net') = n - 1 /\ n \in Nat \ {0}
        /\ \A j \in 1 .. n - 1 : net'[j] = IF j < k THEN net[j] ELSE net[j + 1]
    <2>1. net \in Seq(Messages) /\ net' = RemoveAt(net, k)
      BY <1>2, <1>3
    <2> QED
      BY <2>1, RemovedAt
  <1>6. /\ DOMAIN net' = 1 .. n - 1 /\ DOMAIN net = 1 .. n /\ k \in 1 .. n /\ m \in Messages
    BY <1>2, <1>5
  <1> HIDE DEF m, n, t, u, x
  <1>7. \A j \in DOMAIN net' : \E i \in DOMAIN net : i # k /\ i >= j /\ net'[j] = net[i]
    <2> SUFFICES ASSUME NEW j \in DOMAIN net'
                 PROVE  \E i \in DOMAIN net : i # k /\ i >= j /\ net'[j] = net[i]
      OBVIOUS
    <2>1. CASE j < k
      BY <1>5, <1>6, <2>1
    <2>2. CASE j >= k
      <3>1. j + 1 \in DOMAIN net /\ j + 1 # k /\ j + 1 >= j /\ net'[j] = net[j + 1]
        BY <1>5, <1>6, <2>2
      <3> QED
        BY <3>1
    <2> QED
      BY <1>6, <2>1, <2>2
  <1>8. /\ Thing(x)
        /\ {"pivot", "spin"} \cap t.flags = {} =>
              /\ Final(x) = Dest(m)
              /\ \A h : (h # {} \/ ~AboutToTurn(u)) => Sound(x, h)
    BY <1>2, <1>6, FollowOk DEF u, x
  <1>9. Sound(t, Late(CLIENT)) /\ {"pivot", "spin"} \cap t.flags = {}
    BY <1>1 DEF Walks, Sound, t
  <1>10. AboutToTurn(u) <=> AboutToTurn([t EXCEPT !.face = m.face])
    BY <1>2 DEF AboutToTurn, u, Thing, Things
  <1>11. /\ thing' \in [Machines -> Things] /\ \A i \in Machines : Thing(thing'[i])
         /\ thing'[HOST] = thing[HOST]
         /\ seen' \in 0 .. frame
         /\ odd' \subseteq {Hasty(HOST), Hasty(CLIENT), "astray", "again", "crossed"}
         /\ \A o \in {"astray", "again", "crossed", Hasty(HOST)} : o \in odd' <=> o \in odd
         /\ Sound(thing'[CLIENT], Late(CLIENT)')
         /\ seen <= m.stamp => seen' = m.stamp /\ Final(thing'[CLIENT]) = Dest(m)
         /\ ~(seen <= m.stamp) => seen' = seen /\ thing' = thing
    <2>1. CASE seen <= m.stamp
      <3>1. /\ thing' \in [Machines -> Things] /\ \A i \in Machines : Thing(thing'[i])
            /\ thing'[HOST] = thing[HOST] /\ thing'[CLIENT] = x
        BY <1>1, <1>4, <1>8, <2>1, ReplacedOk
      <3>2. seen' = m.stamp /\ m.stamp \in 1 .. frame
        BY <1>2, <1>4, <2>1 DEF m
      <3>3. odd' = (odd \ {Hasty(CLIENT)}) \cup (IF AboutToTurn(u) THEN {Hasty(CLIENT)} ELSE {})
        BY <1>4, <1>10, <2>1 DEF Hastily
      <3>4. /\ odd' \subseteq {Hasty(HOST), Hasty(CLIENT), "astray", "again", "crossed"}
            /\ \A o \in {"astray", "again", "crossed", Hasty(HOST)} : o \in odd' <=> o \in odd
            /\ Late(CLIENT)' # {} \/ ~AboutToTurn(u)
        BY <1>2, <3>3 DEF Late
      <3> QED
        BY <1>2, <1>8, <1>9, <2>1, <3>1, <3>2, <3>4
    <2>2. CASE ~(seen <= m.stamp)
      <3>1. UNCHANGED <<seen, thing, odd>>
        BY <1>4, <2>2
      <3> QED
        BY <1>1, <1>2, <1>9, <2>2, <3>1 DEF Typed, Late, t
    <2> QED
      BY <2>1, <2>2
  <1>12. Typed'
    <2>1. \A j \in DOMAIN net' : net'[j].stamp \in 1 .. frame'
      BY <1>2, <1>3, <1>7
    <2> QED
      BY <1>1, <1>3, <1>5, <1>11, <2>1 DEF Typed
  <1>13. Walks'
    <2>1. Late(HOST)' = Late(HOST)
      BY <1>11 DEF Late
    <2> QED
      BY <1>1, <1>11, <2>1 DEF Walks
  <1>14. Answered'
    BY <1>1, <1>3, <1>11 DEF Answered, HasTick
  <1>15. Sync'
    <2> SUFFICES ASSUME link # ALONE
                 PROVE  /\ Stamped' /\ ToSend'
                        /\ {"astray", "crossed"} \cap odd' = {} /\ NoSends' => Following'
      BY <1>3 DEF Sync
    <2>1. Stamped /\ ToSend /\ ({"astray", "crossed"} \cap odd = {} /\ NoSends => Following)
      BY <1>1 DEF Sync
    <2>2. ToSend'
      BY <1>3, <1>11, <2>1 DEF ToSend
    <2>3. Stamped'
      <3> SUFFICES ASSUME link = IN_ORDER
                   PROVE  /\ \A j, i \in DOMAIN net' : j <= i => net'[j].stamp <= net'[i].stamp
                          /\ \A j \in DOMAIN net' : seen' <= net'[j].stamp
        BY <1>3 DEF Stamped
      <3>1. /\ \A j, i \in DOMAIN net : j <= i => net[j].stamp <= net[i].stamp
            /\ \A j \in DOMAIN net : seen <= net[j].stamp
        BY <2>1 DEF Stamped
      <3>2. k = 1 /\ seen' = net[1].stamp
        BY <1>3, <1>6, <1>11, <3>1 DEF m
      <3>3. \A j \in DOMAIN net' : j + 1 \in DOMAIN net /\ net'[j] = net[j + 1]
        BY <1>5, <1>6, <3>2
      <3>4. \A j \in DOMAIN net' : 1 \in DOMAIN net /\ 1 <= j + 1 /\ j \in Nat
        BY <1>5, <1>6
      <3>5. \A j \in DOMAIN net' : net[1].stamp <= net[j + 1].stamp
        BY <3>1, <3>3, <3>4
      <3>6. \A j, i \in DOMAIN net' : j <= i => j + 1 <= i + 1
        BY <3>4
      <3> QED
        BY <3>1, <3>2, <3>3, <3>5, <3>6
    <2>4. ASSUME Following
          PROVE  Following'
      <3>1. CASE link = IN_ORDER
        <4>1. k = 1 /\ seen <= m.stamp
          BY <1>3, <1>6, <2>1, <3>1 DEF Stamped, m
        <4>2. net # <<>> /\ Dest(net[n]) = Final(thing[HOST])
          BY <1>6, <2>4, <3>1 DEF Following, n
        <4>3. CASE n = 1
          <5>1. net' = <<>> /\ m = net[n]
            BY <1>5, <4>1, <4>3 DEF m
          <5> QED
            BY <1>3, <1>11, <3>1, <4>1, <4>2, <5>1 DEF Following, IN_ORDER, ANY_ORDER
        <4>4. CASE n # 1
          <5>1. n - 1 \in 1 .. n - 1 /\ ~(n - 1 < k) /\ (n - 1) + 1 = n
            BY <1>5, <4>1, <4>4
          <5>2. net'[n - 1] = net[n] /\ net' # <<>> /\ Len(net') = n - 1
            BY <1>5, <5>1
          <5> QED
            BY <1>3, <1>11, <3>1, <4>2, <5>2 DEF Following, IN_ORDER, ANY_ORDER
        <4> QED
          BY <4>3, <4>4
      <3>2. CASE link = ANY_ORDER
        <4>1. Newest
          BY <2>4, <3>2 DEF Following
        <4>2. CASE /\ \A j \in DOMAIN net : net[j].stamp < frame
                   /\ seen = frame /\ Final(thing[CLIENT]) = Final(thing[HOST])
          <5>1. ~(seen <= m.stamp)
            BY <1>2, <4>2 DEF m
          <5>2. \A j \in DOMAIN net' : net'[j].stamp < frame
            BY <1>7, <4>2
          <5> QED
            BY <1>3, <1>11, <3>2, <4>2, <5>1, <5>2 DEF Following, Newest, IN_ORDER, ANY_ORDER
        <4>3. ASSUME NEW i \in DOMAIN net,
                     net[i].stamp = frame, Dest(net[i]) = Final(thing[HOST]),
                     \A j \in DOMAIN net : j # i => net[j].stamp < frame
              PROVE  Following'
          <5>1. CASE i = k
            <6>1. seen <= m.stamp /\ m.stamp = frame
              BY <1>2, <4>3, <5>1 DEF m
            <6>2. \A j \in DOMAIN net' : net'[j].stamp < frame
              BY <1>7, <4>3, <5>1
            <6>3. Final(thing'[CLIENT]) = Final(thing'[HOST]) /\ seen' = frame
              BY <1>11, <4>3, <5>1, <6>1 DEF m
            <6> QED
              BY <1>3, <3>2, <6>2, <6>3 DEF Following, Newest, IN_ORDER, ANY_ORDER
          <5>2. CASE i # k
            <6> DEFINE j == IF i < k THEN i ELSE i - 1
            <6>1. j \in DOMAIN net' /\ net'[j] = net[i]
              <7>1. i \in 1 .. n /\ k \in 1 .. n /\ n \in Nat
                BY <1>5, <1>6
              <7>2. CASE i < k
                BY <1>5, <1>6, <7>1, <7>2
              <7>3. CASE i > k
                <8>1. i - 1 \in 1 .. n - 1 /\ ~(i - 1 < k) /\ (i - 1) + 1 = i
                  BY <7>1, <7>3
                <8>2. net'[i - 1] = net[i]
                  BY <1>5, <8>1
                <8> QED
                  BY <1>6, <7>1, <7>3, <8>1, <8>2
              <7> QED
                BY <5>2, <7>1, <7>2, <7>3
            <6>2. \A l \in DOMAIN net' : l # j => net'[l].stamp < frame
              <7> SUFFICES ASSUME NEW l \in DOMAIN net', l # j
                           PROVE  net'[l].stamp < frame
                OBVIOUS
              <7>1. \E z \in DOMAIN net : z # i /\ net'[l] = net[z]
                <8>1. /\ i \in 1 .. n /\ k \in 1 .. n /\ n \in Nat /\ l \in 1 .. n - 1
                      /\ net'[l] = IF l < k THEN net[l] ELSE net[l + 1]
                  BY <1>5, <1>6
                <8>2. CASE l < k
                  <9>1. l # i /\ l \in DOMAIN net /\ net'[l] = net[l]
                    BY <1>6, <8>1, <8>2
                  <9> QED
                    BY <9>1
                <8>3. CASE ~(l < k)
                  <9>1. l + 1 # i /\ l + 1 \in DOMAIN net /\ net'[l] = net[l + 1]
                    BY <1>6, <5>2, <8>1, <8>3
                  <9> QED
                    BY <9>1
                <8> QED
                  BY <8>2, <8>3
              <7> QED
                BY <4>3, <7>1
            <6> HIDE DEF j
            <6>3. Newest'
              BY <1>3, <1>11, <4>3, <6>1, <6>2 DEF Newest
            <6> QED
              BY <1>3, <3>2, <6>3 DEF Following, IN_ORDER, ANY_ORDER
          <5> QED
            BY <5>1, <5>2
        <4> QED
          BY <4>1, <4>2, <4>3 DEF Newest
      <3>3. CASE link # IN_ORDER /\ link # ANY_ORDER
        BY <1>3, <3>3 DEF Following
      <3> QED
        BY <3>1, <3>2, <3>3
    <2>5. {"astray", "crossed"} \cap odd' = {} => {"astray", "crossed"} \cap odd = {}
      BY <1>11
    <2>6. NoSends' <=> NoSends
      BY <1>3 DEF NoSends
    <2> QED
      BY <2>1, <2>2, <2>3, <2>4, <2>5, <2>6
  <1> QED
    BY <1>12, <1>13, <1>14, <1>15 DEF Inv

LEMMA NextOk == Inv /\ [Next]_vars => Inv'
  <1> SUFFICES ASSUME Inv, [Next]_vars
               PROVE  Inv'
    OBVIOUS
  <1>1. CASE TickHost(Ways(thing[HOST]))
    BY <1>1, TickHostOk
  <1>2. CASE TickIdle \/ FramePasses
    BY <1>2, FrameOk
  <1>3. CASE Return
    BY <1>3, ReturnOk
  <1>4. CASE \E i \in FrameNums : Command("move", i) \/ Command("skip", i)
    <2>1. "move" \in Ops /\ "skip" \in Ops
      BY DEF Ops
    <2> QED
      BY <1>4, <2>1, CommandOk
  <1>5. CASE Command("stop", 0)
    <2>1. "stop" \in Ops /\ 0 \in FrameNums
      BY FramesOk DEF Ops
    <2> QED
      BY <1>5, <2>1, CommandOk
  <1>6. CASE Unsynced
    BY <1>6, UnsyncedStepOk
  <1>7. CASE PathMovePause \/ PathMoveResume
    BY <1>7, PauseOk
  <1>8. CASE TickClient(TRUE) \/ TickClient(FALSE)
    BY <1>8, TickClientOk, Zenon
  <1>9. CASE \E k \in DOMAIN net : ProcessPathMove(k)
    BY <1>9, ProcessPathMoveOk
  <1>10. CASE UNCHANGED vars
    <2>1. UNCHANGED <<thing, calls, net, link, frame, sent, ticked, seen, verbs, owed, said, odd>>
      BY <1>10 DEF vars, ghosts
    <2> QED
      BY <2>1 DEF Inv, Typed, Walks, Late, Answered, HasTick, Sync, Stamped, ToSend, NoSends,
                  Following, Newest
  <1> QED
    BY <1>1, <1>2, <1>3, <1>4, <1>5, <1>6, <1>7, <1>8, <1>9, <1>10 DEF Next

-------------------------------------------------------------------------------
(* Theorems *)

\* The invariant holds of every path and however many verbs scripts call.
THEOREM InvariantHolds == Spec => []Inv
  <1>1. Init => Inv
    BY InitOk
  <1>2. Inv /\ [Next]_vars => Inv'
    BY NextOk
  <1> QED
    BY <1>1, <1>2, PTL DEF Spec

\* Every index into aFrames is that of a frame, whatever scripts order and when: curframe,
\* goalframe and field_258 stay inside the path (sithTrackThing.c).
THEOREM TracksTyped == Spec => []TypeOK
  <1>1. Inv => TypeOK
    <2> SUFFICES ASSUME Inv
                 PROVE  TypeOK
      OBVIOUS
    <2>1. Typed
      BY DEF Inv
    <2>2. \A i \in DOMAIN calls : calls[i].fn \in {"Tick", "Send"}
      <3>1. \A i \in DOMAIN calls : calls[i] \in Calls
        BY <2>1 DEF Typed
      <3> QED
        BY <3>1, CallsOk
    <2>3. \A k \in DOMAIN net : net[k].stamp \in 1 .. frame /\ net[k].place \in Places
      <3>1. \A k \in DOMAIN net : net[k] \in Messages
        BY <2>1 DEF Typed
      <3> QED
        BY <2>1, <3>1 DEF Typed, Messages
    <2> QED
      BY <2>1, <2>2, <2>3 DEF Typed, TypeOK
  <1> QED
    BY <1>1, InvariantHolds, PTL

\* Who says it has arrived stands at its goal and knows it, on the host and on the client,
\* wherever it came from (sithTrackThing_StoppedMoving).
THEOREM StandsAtItsGoal == Spec => []ArrivedThere
  <1>1. Inv => ArrivedThere
    <2> SUFFICES ASSUME Inv, NEW m \in Machines, thing[m].reached # -1, "astray" \notin odd
                 PROVE  /\ thing[m].cur = thing[m].reached
                        /\ thing[m].place = At(thing[m].reached).place
                        /\ thing[m].face = At(thing[m].reached).face \/ Hasty(m) \in odd
      BY DEF ArrivedThere
    <2>1. Sound(thing[m], Late(m))
      <3>1. m = HOST \/ m = CLIENT
        BY DEF Machines
      <3> QED
        BY <3>1 DEF Inv, Walks
    <2>2. Late(m) # {} => Hasty(m) \in odd
      BY DEF Late
    <2> QED
      BY <2>1, <2>2 DEF Sound
  <1> QED
    BY <1>1, InvariantHolds, PTL

\* No command is answered twice, but after Rotate and by a handler of BLOCKED that commands.
THEOREM OneAnswer == Spec => []AnsweredOnce
  <1>1. Inv => AnsweredOnce
    BY DEF Inv, Answered, AnsweredOnce
  <1> QED
    BY <1>1, InvariantHolds, PTL

\* The copy on a client ends where the thing on the host does: every message takes it to
\* where the host's then goes, and the newest is the last that it obeys, in whatever order
\* they arrive (sithDSSThing_ProcessPathMove).
THEOREM CopiesAgree == Spec => []Agree
  <1>1. Inv => Agree
    <2> SUFFICES ASSUME Inv, link # ALONE, net = <<>>, calls = <<>>,
                        {"astray", "crossed"} \cap odd = {},
                        \A m \in Machines : AtRest(thing[m])
                 PROVE  thing[HOST].place = thing[CLIENT].place
      BY DEF Agree
    <2>1. Following
      BY DEF Inv, Sync, NoSends
    <2>2. link \in {IN_ORDER, ANY_ORDER}
      BY DEF Inv, Typed, Links
    <2>3. Final(thing[CLIENT]) = Final(thing[HOST])
      <3>1. CASE link = IN_ORDER
        BY <2>1, <3>1 DEF Following
      <3>2. CASE link = ANY_ORDER
        <4>1. DOMAIN net = {}
          OBVIOUS
        <4> QED
          BY <2>1, <3>2, <4>1 DEF Following, Newest
      <3> QED
        BY <2>2, <3>1, <3>2
    <2>4. \A m \in Machines : Final(thing[m]) = thing[m].place
      BY DEF Final, Target, AtRest, UnderWay
    <2> QED
      BY <2>3, <2>4, MachinesOk
  <1> QED
    BY <1>1, InvariantHolds, PTL
===============================================================================
