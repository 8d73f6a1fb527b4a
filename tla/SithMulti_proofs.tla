--------------------------- MODULE SithMulti_proofs ----------------------------
(***************************************************************************)
(* Proofs about SithMulti, for any number of players, slots, ids and       *)
(* levels, and for frames of any length: its inductive invariant, and that *)
(* the list of players is right and who plays has the world, as long as no *)
(* player takes up the welcome to a level that is over and no frame goes   *)
(* on to a second last stage.                                              *)
(***************************************************************************)
EXTENDS SithMulti, TLAPS, NaturalsInduction, SequenceTheorems, WellFoundedInduction

-----------------------------------------------------------------------------
(* What the proofs look at in a queue of messages.                           *)

Slotted(q, kind) == {q[k].slot : k \in {n \in DOMAIN q : q[n].kind = kind}}
\* the slots that a player is told of, and those that it announces
Welcomes(q) == Slotted(q, "welcome")
Announces(q) == Slotted(q, "announce")
\* the levels that are asked for
Asked(q) == {q[k].level : k \in {n \in DOMAIN q : q[n].kind = "joinrequest"}}
\* behind every request there is an announcement
Backed(q) == \A k \in DOMAIN q : q[k].kind = "joinrequest" =>
    \E n \in DOMAIN q : n > k /\ q[n].kind = "announce"
\* what the first messages carry of the world, and what all of them do
ItemsTo(q, n) == UNION {q[k].items : k \in {j \in 1 .. n : q[j].kind = "snap"}}
Items(q) == ItemsTo(q, Len(q))
\* who reads a welcome has read all of S before
Founded(q, got, S) == \A k \in DOMAIN q : q[k].kind = "welcome" => S \subseteq got \cup ItemsTo(q, k - 1)

-----------------------------------------------------------------------------
(* The inductive invariant                                                   *)

\* whatever a message may carry of the world
Pieces == World \cup {Destroyed(n) : n \in 1 .. ListSize}

Messages == {Joining(code) : code \in {0, 1, 3, 5, 6}} \cup {Welcome(i) : i \in Slots}
            \cup {LeaveJoin, Quit, EndLevel}
            \cup {Snap(items) : items \in SUBSET Pieces}

JoinStates ==
    [active : BOOLEAN, to : Ids \cup {NoId}, idx : Slots, stage : 1 .. 4, cursor : Nat]

PlayerStates == [status : {"out", "joining", "playing", "leaving"}, level : 0 .. MaxLevels + 1,
                 leave : 0 .. 2, knows : BOOLEAN, slot : Slots \cup {0}, first : BOOLEAN,
                 got : SUBSET Pieces, owed : SUBSET Pieces]

Lefts == [connects : Int, drops : Int, destroyed : Int, given : Nat, odd : SUBSET {"late", "over"}]

Types ==
    /\ slot \in [Slots -> [net : Ids \cup {NoId}, joined : BOOLEAN]]
    /\ join \in JoinStates
    /\ frame \in 0 .. FrameSteps /\ ending \in BOOLEAN /\ syncScores \in BOOLEAN
    /\ destroyed \in 0 .. ListSize /\ mode \in {"game", "lobby", "gone"}
    /\ level \in 1 .. MaxLevels /\ (ending => level < MaxLevels)
    /\ mode = "lobby" => level < MaxLevels /\ ~ending /\ ~join.active
    /\ conn \in [Clients -> Ids \cup {NoId}]
    /\ up \in [Clients -> Seq(UpMsg)] /\ down \in [Clients -> Seq(Messages)]
    /\ gone \in Seq(Ids)
    /\ client \in [Clients -> PlayerStates]
    /\ left \in Lefts

\* A connection has one owner, and who has none has nothing under way.
ConnInv ==
    /\ \A c, d \in Clients : conn[c] = conn[d] /\ conn[c] # NoId => c = d
    /\ \A c \in Clients : conn[c] = NoId <=> client[c].status = "out"
    /\ \A c \in Clients : conn[c] = NoId => up[c] = <<>> /\ down[c] = <<>>

\* A player is in the level of the host, in an older one, or waits for the next.
LevelInv == \A c \in Clients :
    /\ IF client[c].status = "out" THEN client[c].level = 0
       ELSE client[c].level \in 1 .. level + 1
    /\ client[c].level > level => /\ mode # "game" /\ ~Playing(c) /\ Welcomes(down[c]) = {}
                                  /\ client[c].owed = {}
    /\ client[c].level >= level => client[c].owed \subseteq WorldNow
    /\ \A l \in Asked(up[c]) : l <= client[c].level
    /\ Playing(c) => Backed(up[c])

\* An id that was not given out yet is nowhere.
GivenInv ==
    /\ \A c \in Clients : conn[c] <= left.given
    /\ \A i \in Slots : slot[i].net <= left.given
    /\ join.to <= left.given
    /\ \A k \in DOMAIN gone : gone[k] <= left.given

InGone(id) == \E k \in DOMAIN gone : gone[k] = id

ListInv ==
    /\ \A i, j \in Slots : slot[i].net = slot[j].net /\ slot[i].net # NoId => i = j
    /\ \A i \in Slots : slot[i].joined => slot[i].net # NoId

JoinInv == join.active =>
    /\ join.to # NoId /\ ~InList(join.to) /\ slot[join.idx].net = NoId /\ ~InGone(join.to)
    /\ \A c \in Clients : conn[c] = join.to => client[c].level = level /\ ~Playing(c)

WelcomeInv == \A c \in Clients : \A i \in Welcomes(down[c]) :
    /\ ~InGone(conn[c])
    /\ client[c].status = "joining" /\ client[c].level = level => slot[i].net = conn[c]

InLevel(c) == client[c].status \in {"playing", "leaving"} /\ client[c].level = level

AnnounceInv == mode = "game" => \A c \in Clients : \A i \in Announces(up[c]) :
    slot[i].net = conn[c] /\ InLevel(c) /\ ~InGone(conn[c])

JoinedInv == mode = "game" => \A i \in Slots :
    slot[i].joined => InGone(slot[i].net) \/ \E c \in Clients : conn[c] = slot[i].net /\ InLevel(c)

PlayInv == \A c \in Clients :
    /\ Playing(c) => ~InGone(conn[c])
    /\ \A i \in Slots : slot[i].net = conn[c] /\ conn[c] # NoId =>
          client[c].level >= level /\ (Playing(c) => client[c].slot = i)

Listed == ListInv /\ JoinInv /\ WelcomeInv /\ AnnounceInv /\ JoinedInv /\ PlayInv
SlotInv == InOrder => Listed

InHand(c) == client[c].got \cup Items(down[c])
Due(c) == World \cup client[c].owed
\* what the stages have sent
Swept(stage, cursor) ==
    {<<"surface", n>> : n \in {m \in Surfaces : stage # 2 \/ m < cursor}}
    \cup {<<"sector", n>> : n \in {m \in Sectors : stage \in {3, 4} \/ (stage = 1 /\ m < cursor)}}
    \cup {<<"thing", n>> : n \in {m \in Things : stage = 4}}
    \cup {Destroyed(n) : n \in {m \in 1 .. cursor : stage = 4}}

TransferInv == join.active => \A c \in Clients :
    client[c].first /\ conn[c] = join.to => Swept(join.stage, join.cursor) \subseteq InHand(c)

\* a player has what it is due when it is listed, before it reads of its welcome, and
\* when it plays
HoldOf(c) ==
    /\ \A i \in Slots : slot[i].net = conn[c] /\ conn[c] # NoId /\ client[c].level = level =>
          Due(c) \subseteq InHand(c)
    /\ client[c].status = "joining" => Founded(down[c], client[c].got, Due(c))
    /\ Playing(c) => Due(c) \subseteq client[c].got
HoldInv == \A c \in Clients : client[c].first => HoldOf(c)

WorldInv == InOrder => TransferInv /\ HoldInv

IInv == Types /\ ConnInv /\ LevelInv /\ GivenInv /\ SlotInv /\ WorldInv

-----------------------------------------------------------------------------
(* Queues                                                                    *)

LEMMA SlottedConcat ==
    ASSUME NEW M, NEW q \in Seq(M), NEW r \in Seq(M), NEW kind
    PROVE  Slotted(q \o r, kind) = Slotted(q, kind) \cup Slotted(r, kind)
<1> DEFINE s == q \o r
<1>1. /\ Len(s) = Len(q) + Len(r) /\ Len(q) \in Nat /\ Len(r) \in Nat
      /\ \A k \in 1 .. Len(q) : s[k] = q[k]
      /\ \A k \in 1 .. Len(r) : s[Len(q) + k] = r[k]
      /\ DOMAIN s = 1 .. Len(s) /\ DOMAIN q = 1 .. Len(q) /\ DOMAIN r = 1 .. Len(r)
  OBVIOUS
<1> HIDE DEF s
<1>2. ASSUME NEW x \in Slotted(s, kind)
      PROVE  x \in Slotted(q, kind) \cup Slotted(r, kind)
  <2>1. PICK k \in DOMAIN s : s[k].kind = kind /\ x = s[k].slot
    BY <1>2 DEF Slotted
  <2>2. CASE k <= Len(q)
    BY <1>1, <2>1, <2>2 DEF Slotted
  <2>3. CASE k > Len(q)
    <3>1. k - Len(q) \in 1 .. Len(r) /\ Len(q) + (k - Len(q)) = k
      BY <1>1, <2>1, <2>3
    <3>2. s[k] = r[k - Len(q)]
      BY <1>1, <3>1
    <3> QED
      BY <1>1, <2>1, <3>1, <3>2 DEF Slotted
  <2> QED
    BY <1>1, <2>1, <2>2, <2>3
<1>3. ASSUME NEW x \in Slotted(q, kind)
      PROVE  x \in Slotted(s, kind)
  <2>1. PICK k \in DOMAIN q : q[k].kind = kind /\ x = q[k].slot
    BY <1>3 DEF Slotted
  <2>2. k \in DOMAIN s /\ s[k] = q[k]
    BY <1>1, <2>1
  <2> QED
    BY <2>1, <2>2 DEF Slotted
<1>4. ASSUME NEW x \in Slotted(r, kind)
      PROVE  x \in Slotted(s, kind)
  <2>1. PICK k \in DOMAIN r : r[k].kind = kind /\ x = r[k].slot
    BY <1>4 DEF Slotted
  <2>2. Len(q) + k \in DOMAIN s /\ s[Len(q) + k] = r[k]
    BY <1>1, <2>1
  <2> QED
    BY <2>1, <2>2 DEF Slotted
<1> QED
  BY <1>2, <1>3, <1>4 DEF s

LEMMA SlottedOne ==
    ASSUME NEW m, NEW kind
    PROVE  Slotted(<<m>>, kind) = IF m.kind = kind THEN {m.slot} ELSE {}
<1>1. DOMAIN <<m>> = {1} /\ <<m>>[1] = m
  OBVIOUS
<1> QED
  BY <1>1 DEF Slotted

LEMMA SlottedNone == \A kind : Slotted(<<>>, kind) = {}
BY DEF Slotted

LEMMA SlottedTail ==
    ASSUME NEW M, NEW q \in Seq(M), q # <<>>, NEW kind
    PROVE  /\ Slotted(Tail(q), kind) \subseteq Slotted(q, kind)
           /\ Head(q).kind = kind => Head(q).slot \in Slotted(q, kind)
<1> DEFINE t == Tail(q)
<1>1. /\ Len(q) \in Nat \ {0} /\ Len(t) = Len(q) - 1 /\ Head(q) = q[1]
      /\ \A k \in 1 .. Len(t) : t[k] = q[k + 1]
      /\ DOMAIN t = 1 .. Len(t) /\ DOMAIN q = 1 .. Len(q)
  OBVIOUS
<1> HIDE DEF t
<1>2. ASSUME NEW x \in Slotted(t, kind)
      PROVE  x \in Slotted(q, kind)
  <2>1. PICK k \in DOMAIN t : t[k].kind = kind /\ x = t[k].slot
    BY <1>2 DEF Slotted
  <2>2. k + 1 \in DOMAIN q /\ q[k + 1] = t[k]
    BY <1>1, <2>1
  <2> QED
    BY <2>1, <2>2 DEF Slotted
<1>3. 1 \in DOMAIN q
  BY <1>1
<1>4. Head(q).kind = kind => Head(q).slot \in Slotted(q, kind)
  BY <1>1, <1>3 DEF Slotted
<1> QED
  BY <1>2, <1>4 DEF t

LEMMA AskedConcat ==
    ASSUME NEW M, NEW q \in Seq(M), NEW r \in Seq(M), NEW l \in Asked(q \o r)
    PROVE  l \in Asked(q) \/ l \in Asked(r)
<1> DEFINE s == q \o r
<1>1. /\ Len(s) = Len(q) + Len(r) /\ Len(q) \in Nat /\ Len(r) \in Nat
      /\ \A k \in 1 .. Len(q) : s[k] = q[k]
      /\ \A k \in 1 .. Len(r) : s[Len(q) + k] = r[k]
      /\ DOMAIN s = 1 .. Len(s) /\ DOMAIN q = 1 .. Len(q) /\ DOMAIN r = 1 .. Len(r)
  OBVIOUS
<1>0. l \in Asked(s)
  OBVIOUS
<1> HIDE DEF s
<1>2. PICK k \in DOMAIN s : s[k].kind = "joinrequest" /\ l = s[k].level
  BY <1>0 DEF Asked
<1>3. CASE k <= Len(q)
  BY <1>1, <1>2, <1>3 DEF Asked
<1>4. CASE k > Len(q)
  <2>1. k - Len(q) \in 1 .. Len(r) /\ Len(q) + (k - Len(q)) = k
    BY <1>1, <1>2, <1>4
  <2>2. s[k] = r[k - Len(q)]
    BY <1>1, <2>1
  <2> QED
    BY <1>1, <1>2, <2>1, <2>2 DEF Asked
<1> QED
  BY <1>1, <1>2, <1>3, <1>4

LEMMA AskedOne ==
    ASSUME NEW m, NEW l \in Asked(<<m>>)
    PROVE  m.kind = "joinrequest" /\ l = m.level
<1>1. DOMAIN <<m>> = {1} /\ <<m>>[1] = m
  OBVIOUS
<1> QED
  BY <1>1 DEF Asked

LEMMA AskedAppend ==
    ASSUME NEW M, NEW q \in Seq(M), NEW m \in M
    PROVE  /\ \A l \in Asked(Append(q, m)) : l \in Asked(q) \/ (m.kind = "joinrequest" /\ l = m.level)
           /\ \A l \in Asked(q \o <<m, m>>) : l \in Asked(q) \/ (m.kind = "joinrequest" /\ l = m.level)
<1>1. <<m>> \in Seq(M)
  OBVIOUS
<1>2. ASSUME NEW r \in Seq(M), NEW l \in Asked(r \o <<m>>)
      PROVE  l \in Asked(r) \/ (m.kind = "joinrequest" /\ l = m.level)
  <2>1. l \in Asked(r) \/ l \in Asked(<<m>>)
    BY <1>1, <1>2, AskedConcat
  <2> QED
    BY <2>1, AskedOne
<1>3. /\ Append(q, m) = q \o <<m>> /\ q \o <<m>> \in Seq(M)
      /\ q \o <<m, m>> = (q \o <<m>>) \o <<m>>
  OBVIOUS
<1>4. \A l \in Asked(q \o <<m>>) : l \in Asked(q) \/ (m.kind = "joinrequest" /\ l = m.level)
  BY <1>2
<1>5. \A l \in Asked((q \o <<m>>) \o <<m>>) :
          l \in Asked(q \o <<m>>) \/ (m.kind = "joinrequest" /\ l = m.level)
  BY <1>2, <1>3
<1> QED
  BY <1>3, <1>4, <1>5

LEMMA AskedNone == Asked(<<>>) = {}
BY DEF Asked

LEMMA AskedTail ==
    ASSUME NEW M, NEW q \in Seq(M), q # <<>>
    PROVE  /\ Asked(Tail(q)) \subseteq Asked(q)
           /\ Head(q).kind = "joinrequest" => Head(q).level \in Asked(q)
<1> DEFINE t == Tail(q)
<1>1. /\ Len(q) \in Nat \ {0} /\ Len(t) = Len(q) - 1 /\ Head(q) = q[1]
      /\ \A k \in 1 .. Len(t) : t[k] = q[k + 1]
      /\ DOMAIN t = 1 .. Len(t) /\ DOMAIN q = 1 .. Len(q)
  OBVIOUS
<1> HIDE DEF t
<1>2. ASSUME NEW x \in Asked(t)
      PROVE  x \in Asked(q)
  <2>1. PICK k \in DOMAIN t : t[k].kind = "joinrequest" /\ x = t[k].level
    BY <1>2 DEF Asked
  <2>2. k + 1 \in DOMAIN q /\ q[k + 1] = t[k]
    BY <1>1, <2>1
  <2> QED
    BY <2>1, <2>2 DEF Asked
<1>3. 1 \in DOMAIN q
  BY <1>1
<1>4. Head(q).kind = "joinrequest" => Head(q).level \in Asked(q)
  BY <1>1, <1>3 DEF Asked
<1> QED
  BY <1>2, <1>4 DEF t

LEMMA BackedNone == Backed(<<>>)
BY DEF Backed

LEMMA BackedTail ==
    ASSUME NEW M, NEW q \in Seq(M), q # <<>>, Backed(q)
    PROVE  /\ Backed(Tail(q))
           /\ Head(q).kind = "joinrequest" => Announces(q) # {}
<1> DEFINE t == Tail(q)
<1>1. /\ Len(q) \in Nat \ {0} /\ Len(t) = Len(q) - 1 /\ Head(q) = q[1]
      /\ \A k \in 1 .. Len(t) : t[k] = q[k + 1]
      /\ DOMAIN t = 1 .. Len(t) /\ DOMAIN q = 1 .. Len(q)
  OBVIOUS
<1> HIDE DEF t
<1>2. ASSUME NEW k \in DOMAIN t, t[k].kind = "joinrequest"
      PROVE  \E n \in DOMAIN t : n > k /\ t[n].kind = "announce"
  <2>1. k + 1 \in DOMAIN q /\ q[k + 1] = t[k]
    BY <1>1
  <2>2. PICK n \in DOMAIN q : n > k + 1 /\ q[n].kind = "announce"
    BY <1>2, <2>1 DEF Backed
  <2>3. n - 1 \in DOMAIN t /\ n - 1 > k /\ t[n - 1] = q[(n - 1) + 1] /\ (n - 1) + 1 = n
    BY <1>1, <2>2
  <2> QED
    BY <2>2, <2>3
<1>3. ASSUME Head(q).kind = "joinrequest"
      PROVE  Announces(q) # {}
  <2>1. 1 \in DOMAIN q
    BY <1>1
  <2>2. PICK n \in DOMAIN q : n > 1 /\ q[n].kind = "announce"
    BY <1>1, <1>3, <2>1 DEF Backed
  <2> QED
    BY <2>2 DEF Announces, Slotted
<1>4. Backed(t)
  BY <1>2 DEF Backed
<1> QED
  BY <1>3, <1>4 DEF t

LEMMA BackedAppend ==
    ASSUME NEW M, NEW q \in Seq(M), NEW m \in M, m.kind # "joinrequest", Backed(q)
    PROVE  Backed(Append(q, m))
<1> DEFINE s == Append(q, m)
<1>1. /\ Len(s) = Len(q) + 1 /\ Len(q) \in Nat
      /\ \A k \in 1 .. Len(q) : s[k] = q[k]
      /\ s[Len(q) + 1] = m
      /\ DOMAIN s = 1 .. Len(s) /\ DOMAIN q = 1 .. Len(q)
  OBVIOUS
<1> HIDE DEF s
<1>2. ASSUME NEW k \in DOMAIN s, s[k].kind = "joinrequest"
      PROVE  \E n \in DOMAIN s : n > k /\ s[n].kind = "announce"
  <2>1. k # Len(q) + 1
    BY <1>1, <1>2
  <2>2. k \in DOMAIN q /\ q[k] = s[k]
    BY <1>1, <2>1
  <2>3. PICK n \in DOMAIN q : n > k /\ q[n].kind = "announce"
    BY <1>2, <2>2 DEF Backed
  <2>4. n \in DOMAIN s /\ s[n] = q[n]
    BY <1>1, <2>3
  <2> QED
    BY <2>3, <2>4
<1> QED
  BY <1>2 DEF Backed, s

LEMMA BackedAnnounced ==
    ASSUME NEW M, NEW q \in Seq(M), NEW m \in M, m.kind = "announce"
    PROVE  Backed(q \o <<m, m>>)
<1> DEFINE s == q \o <<m, m>>
<1>1. /\ Len(s) = Len(q) + 2 /\ Len(q) \in Nat
      /\ s[Len(q) + 2] = m /\ DOMAIN s = 1 .. Len(s)
  OBVIOUS
<1> HIDE DEF s
<1>2. ASSUME NEW k \in DOMAIN s, s[k].kind = "joinrequest"
      PROVE  \E n \in DOMAIN s : n > k /\ s[n].kind = "announce"
  <2>1. k # Len(q) + 2
    BY <1>1, <1>2
  <2>2. Len(q) + 2 \in DOMAIN s /\ Len(q) + 2 > k
    BY <1>1, <2>1
  <2> QED
    BY <1>1, <2>2
<1> QED
  BY <1>2 DEF Backed, s

LEMMA ItemsConcat ==
    ASSUME NEW M, NEW q \in Seq(M), NEW r \in Seq(M)
    PROVE  /\ \A n \in 0 .. Len(q) : ItemsTo(q \o r, n) = ItemsTo(q, n)
           /\ \A n \in Len(q) .. Len(q) + Len(r) : Items(q) \subseteq ItemsTo(q \o r, n)
           /\ Items(r) \subseteq Items(q \o r)
<1> DEFINE s == q \o r
<1>1. /\ Len(s) = Len(q) + Len(r) /\ Len(q) \in Nat /\ Len(r) \in Nat
      /\ \A k \in 1 .. Len(q) : s[k] = q[k]
      /\ \A k \in 1 .. Len(r) : s[Len(q) + k] = r[k]
  OBVIOUS
<1> HIDE DEF s
<1>2. ASSUME NEW n \in 0 .. Len(q)
      PROVE  ItemsTo(s, n) = ItemsTo(q, n)
  <2>1. \A k \in 1 .. n : s[k] = q[k]
    BY <1>1
  <2>2. {k \in 1 .. n : s[k].kind = "snap"} = {k \in 1 .. n : q[k].kind = "snap"}
    BY <2>1
  <2> QED
    BY <2>1, <2>2 DEF ItemsTo
<1>3. ASSUME NEW n \in Len(q) .. Len(q) + Len(r), NEW x \in Items(q)
      PROVE  x \in ItemsTo(s, n)
  <2>1. PICK k \in 1 .. Len(q) : q[k].kind = "snap" /\ x \in q[k].items
    BY <1>3 DEF Items, ItemsTo
  <2>2. k \in 1 .. n /\ s[k] = q[k]
    BY <1>1, <2>1
  <2> QED
    BY <2>1, <2>2 DEF ItemsTo
<1>4. ASSUME NEW x \in Items(r)
      PROVE  x \in Items(s)
  <2>1. PICK k \in 1 .. Len(r) : r[k].kind = "snap" /\ x \in r[k].items
    BY <1>4 DEF Items, ItemsTo
  <2>2. Len(q) + k \in 1 .. Len(s) /\ s[Len(q) + k] = r[k]
    BY <1>1, <2>1
  <2> QED
    BY <2>1, <2>2 DEF Items, ItemsTo
<1> QED
  BY <1>2, <1>3, <1>4 DEF s

\* What a message carries of the world.
Carries(m) == IF m.kind = "snap" THEN m.items ELSE {}

LEMMA ItemsOne == ASSUME NEW m PROVE Items(<<m>>) = Carries(m)
<1>1. Len(<<m>>) = 1 /\ <<m>>[1] = m /\ 1 .. 1 = {1}
  OBVIOUS
<1> QED
  BY <1>1 DEF Items, ItemsTo, Carries

LEMMA ItemsNone == Items(<<>>) = {} /\ \A q : ItemsTo(q, 0) = {}
BY DEF Items, ItemsTo

LEMMA ItemsTail ==
    ASSUME NEW M, NEW q \in Seq(M), q # <<>>, NEW n \in 0 .. Len(q) - 1
    PROVE  ItemsTo(q, n + 1) \subseteq Carries(Head(q)) \cup ItemsTo(Tail(q), n)
<1> DEFINE t == Tail(q)
<1>1. /\ Len(q) \in Nat \ {0} /\ Len(t) = Len(q) - 1 /\ Head(q) = q[1]
      /\ \A k \in 1 .. Len(t) : t[k] = q[k + 1]
  OBVIOUS
<1> HIDE DEF t
<1>2. ASSUME NEW x \in ItemsTo(q, n + 1)
      PROVE  x \in Carries(Head(q)) \cup ItemsTo(t, n)
  <2>1. PICK k \in 1 .. n + 1 : q[k].kind = "snap" /\ x \in q[k].items
    BY <1>2 DEF ItemsTo
  <2>2. CASE k = 1
    BY <1>1, <2>1, <2>2 DEF Carries
  <2>3. CASE k # 1
    <3>1. k - 1 \in 1 .. n /\ k - 1 \in 1 .. Len(t) /\ (k - 1) + 1 = k
      BY <1>1, <2>3
    <3>2. t[k - 1] = q[k]
      BY <1>1, <3>1
    <3> QED
      BY <2>1, <3>1, <3>2 DEF ItemsTo
  <2> QED
    BY <2>2, <2>3
<1> QED
  BY <1>2 DEF t

LEMMA FoundedNone == \A got, S : Founded(<<>>, got, S)
BY DEF Founded

LEMMA FoundedConcat ==
    ASSUME NEW M, NEW q \in Seq(M), NEW r \in Seq(M), NEW got, NEW S, Founded(q, got, S),
           Welcomes(r) = {} \/ S \subseteq got \cup Items(q)
    PROVE  Founded(q \o r, got, S)
<1> DEFINE s == q \o r
<1>1. /\ Len(s) = Len(q) + Len(r) /\ Len(q) \in Nat /\ Len(r) \in Nat
      /\ \A k \in 1 .. Len(q) : s[k] = q[k]
      /\ \A k \in 1 .. Len(r) : s[Len(q) + k] = r[k]
      /\ DOMAIN s = 1 .. Len(s) /\ DOMAIN q = 1 .. Len(q) /\ DOMAIN r = 1 .. Len(r)
  OBVIOUS
<1>0. /\ \A n \in 0 .. Len(q) : ItemsTo(s, n) = ItemsTo(q, n)
      /\ \A n \in Len(q) .. Len(q) + Len(r) : Items(q) \subseteq ItemsTo(s, n)
  BY ItemsConcat
<1> HIDE DEF s
<1>2. ASSUME NEW k \in DOMAIN s, s[k].kind = "welcome"
      PROVE  S \subseteq got \cup ItemsTo(s, k - 1)
  <2>1. CASE k <= Len(q)
    <3>1. k \in DOMAIN q /\ s[k] = q[k] /\ k - 1 \in 0 .. Len(q)
      BY <1>1, <2>1
    <3> QED
      BY <1>0, <1>2, <3>1 DEF Founded
  <2>2. CASE k > Len(q)
    <3>1. /\ k - Len(q) \in 1 .. Len(r) /\ Len(q) + (k - Len(q)) = k
          /\ k - 1 \in Len(q) .. Len(q) + Len(r)
      BY <1>1, <2>2
    <3>2. s[k] = r[k - Len(q)] /\ k - Len(q) \in DOMAIN r
      BY <1>1, <3>1
    <3>3. Welcomes(r) # {}
      BY <1>2, <3>2 DEF Welcomes, Slotted
    <3> QED
      BY <1>0, <3>1, <3>3
  <2> QED
    BY <1>1, <2>1, <2>2
<1> QED
  BY <1>2 DEF Founded, s

LEMMA FoundedTail ==
    ASSUME NEW M, NEW q \in Seq(M), q # <<>>, NEW got, NEW S, Founded(q, got, S)
    PROVE  /\ Founded(Tail(q), got \cup Carries(Head(q)), S)
           /\ Head(q).kind = "welcome" => S \subseteq got
<1> DEFINE t == Tail(q)
<1>1. /\ Len(q) \in Nat \ {0} /\ Len(t) = Len(q) - 1 /\ Head(q) = q[1]
      /\ \A k \in 1 .. Len(t) : t[k] = q[k + 1]
      /\ DOMAIN t = 1 .. Len(t) /\ DOMAIN q = 1 .. Len(q)
  OBVIOUS
<1>0. \A n \in 0 .. Len(q) - 1 : ItemsTo(q, n + 1) \subseteq Carries(Head(q)) \cup ItemsTo(t, n)
  BY ItemsTail
<1> HIDE DEF t
<1>2. ASSUME NEW k \in DOMAIN t, t[k].kind = "welcome"
      PROVE  S \subseteq (got \cup Carries(Head(q))) \cup ItemsTo(t, k - 1)
  <2>1. /\ k + 1 \in DOMAIN q /\ q[k + 1] = t[k] /\ k - 1 \in 0 .. Len(q) - 1
        /\ (k + 1) - 1 = (k - 1) + 1
    BY <1>1
  <2>2. S \subseteq got \cup ItemsTo(q, (k + 1) - 1)
    BY <1>2, <2>1 DEF Founded
  <2>3. ItemsTo(q, (k - 1) + 1) \subseteq Carries(Head(q)) \cup ItemsTo(t, k - 1)
    BY <1>0, <2>1
  <2>4. S \subseteq got \cup ItemsTo(q, (k - 1) + 1)
    BY <2>1, <2>2
  <2> HIDE DEF Carries, ItemsTo
  <2> QED
    BY ONLY <2>3, <2>4
<1>3. ASSUME Head(q).kind = "welcome"
      PROVE  S \subseteq got
  <2>1. 1 \in DOMAIN q /\ q[1].kind = "welcome"
    BY <1>1, <1>3
  <2>2. S \subseteq got \cup ItemsTo(q, 1 - 1)
    BY <2>1 DEF Founded
  <2>3. ItemsTo(q, 1 - 1) = {}
    BY DEF ItemsTo
  <2> QED
    BY <2>2, <2>3
<1>4. Founded(t, got \cup Carries(Head(q)), S)
  BY <1>2 DEF Founded
<1> QED
  BY <1>3, <1>4 DEF t

LEMMA ItemsAll ==
    ASSUME NEW M, NEW q \in Seq(M), q # <<>>
    PROVE  Items(q) \subseteq Carries(Head(q)) \cup Items(Tail(q))
<1>1. Len(q) - 1 \in 0 .. Len(q) - 1 /\ (Len(q) - 1) + 1 = Len(q) /\ Len(Tail(q)) = Len(q) - 1
  OBVIOUS
<1>2. ItemsTo(q, (Len(q) - 1) + 1) \subseteq Carries(Head(q)) \cup ItemsTo(Tail(q), Len(q) - 1)
  BY <1>1, ItemsTail
<1> QED
  BY <1>1, <1>2 DEF Items

-----------------------------------------------------------------------------
(* What is chosen                                                            *)

LEMMA Smallest ==
    ASSUME NEW K \in SUBSET Nat, K # {}
    PROVE  \E k \in K : \A j \in K : k <= j
<1>1. PICK k \in K : \A j \in K : ~(<<j, k>> \in OpToRel(<, Nat))
  BY WFMin, NatLessThanWellFounded
<1>2. \A j \in K : j \in Nat /\ k \in Nat /\ ~(j < k)
  BY <1>1 DEF OpToRel
<1> QED
  BY <1>2

LEMMA FirstFreeIsFree ==
    ASSUME FreeSlots # {}
    PROVE  FirstFree \in Slots /\ slot[FirstFree].net = NoId
<1>1. FreeSlots \in SUBSET Nat
  BY MultiAssumption DEF FreeSlots, Slots
<1>2. \E i \in FreeSlots : \A j \in FreeSlots : i <= j
  BY <1>1, Smallest
<1>3. FirstFree \in FreeSlots
  BY <1>2 DEF FirstFree
<1> QED
  BY <1>3 DEF FreeSlots

LEMMA SlotOfHolds ==
    ASSUME NEW id, InList(id)
    PROVE  SlotOf(id) \in Slots /\ slot[SlotOf(id)].net = id
<1> DEFINE K == {i \in Slots : HoldsId(i, id)}
<1>1. K \in SUBSET Nat /\ K # {}
  BY MultiAssumption DEF Slots, InList
<1>2. PICK i \in K : \A j \in K : i <= j
  BY <1>1, Smallest
<1>3. i \in Slots /\ i \in Nat /\ HoldsId(i, id) /\ \A j \in 1 .. i - 1 : ~HoldsId(j, id)
  <2>1. i \in Slots /\ i \in 1 .. NumSlots /\ NumSlots \in Nat
    BY MultiAssumption DEF Slots
  <2>2. \A j \in 1 .. i - 1 : j \in Slots /\ ~(i <= j)
    BY <2>1 DEF Slots
  <2> QED
    BY <1>2, <2>1, <2>2
<1>4. SlotOf(id) \in Slots /\ HoldsId(SlotOf(id), id)
  BY <1>3 DEF SlotOf
<1> QED
  BY <1>4 DEF HoldsId

LEMMA FirstFreeIdIsFree ==
    ASSUME FreeIds # {}
    PROVE  FirstFreeId \in Ids /\ \A c \in Clients : conn[c] # FirstFreeId
<1>1. FreeIds \in SUBSET Nat
  BY MultiAssumption DEF FreeIds, Ids
<1>2. \E i \in FreeIds : \A j \in FreeIds : i <= j
  BY <1>1, Smallest
<1>3. FirstFreeId \in FreeIds
  BY <1>2 DEF FirstFreeId
<1> QED
  BY <1>3 DEF FreeIds

LEMMA NextAhead ==
    ASSUME NEW S \in SUBSET Nat, NEW cursor \in Nat, Ahead(S, cursor) # {},
           NEW x, x = CHOOSE y \in Ahead(S, cursor) : \A z \in Ahead(S, cursor) : y <= z
    PROVE  x \in S /\ x >= cursor /\ \A z \in S : z >= cursor => x <= z
<1>1. Ahead(S, cursor) \in SUBSET Nat
  BY DEF Ahead
<1>2. \E y \in Ahead(S, cursor) : \A z \in Ahead(S, cursor) : y <= z
  BY <1>1, Smallest
<1>3. x \in Ahead(S, cursor) /\ \A z \in Ahead(S, cursor) : x <= z
  BY <1>2
<1> QED
  BY <1>3 DEF Ahead

-----------------------------------------------------------------------------
(* What is sent to the players                                               *)

LEMMA MessageKinds ==
    ASSUME NEW m \in Messages
    PROVE  /\ m.kind \in {"joining", "welcome", "leavejoin", "quit", "endlevel", "snap"}
           /\ m.kind = "welcome" => m.slot \in Slots
           /\ m.kind = "joining" => m.code \in {0, 1, 3, 5, 6}
           /\ m.kind = "snap" => m.items \subseteq Pieces
           /\ Carries(m) \subseteq Pieces
<1>1. CASE m \in {Joining(code) : code \in {0, 1, 3, 5, 6}}
  BY <1>1 DEF Joining, Carries
<1>2. CASE m \in {Welcome(i) : i \in Slots}
  BY <1>2 DEF Welcome, Carries
<1>3. CASE m \in {LeaveJoin, Quit, EndLevel}
  BY <1>3 DEF LeaveJoin, Quit, EndLevel, Carries
<1>4. CASE m \in {Snap(items) : items \in SUBSET Pieces}
  BY <1>4 DEF Snap, Carries
<1> QED
  BY <1>1, <1>2, <1>3, <1>4 DEF Messages

LEMMA MessagesMade ==
    /\ \A code \in {0, 1, 3, 5, 6} : Joining(code) \in Messages /\ Joining(code).kind = "joining"
    /\ \A i \in Slots : Welcome(i) \in Messages /\ Welcome(i).kind = "welcome" /\ Welcome(i).slot = i
    /\ LeaveJoin \in Messages /\ LeaveJoin.kind = "leavejoin"
    /\ Quit \in Messages /\ Quit.kind = "quit"
    /\ EndLevel \in Messages /\ EndLevel.kind = "endlevel"
    /\ \A items : /\ items \subseteq Pieces => Snap(items) \in Messages
                  /\ Snap(items).kind = "snap" /\ Carries(Snap(items)) = items
<1>1. \A code \in {0, 1, 3, 5, 6} : Joining(code) \in Messages /\ Joining(code).kind = "joining"
  BY DEF Joining, Messages
<1>2. \A i \in Slots : Welcome(i) \in Messages /\ Welcome(i).kind = "welcome" /\ Welcome(i).slot = i
  BY DEF Welcome, Messages
<1>3. LeaveJoin \in Messages /\ Quit \in Messages /\ EndLevel \in Messages
  BY DEF Messages
<1>4. LeaveJoin.kind = "leavejoin" /\ Quit.kind = "quit" /\ EndLevel.kind = "endlevel"
  BY DEF LeaveJoin, Quit, EndLevel
<1>5. \A items : /\ items \subseteq Pieces => Snap(items) \in Messages
                 /\ Snap(items).kind = "snap" /\ Carries(Snap(items)) = items
  <2>1. \A items : items \subseteq Pieces => Snap(items) \in Messages
    BY DEF Messages
  <2>2. \A items : Snap(items).kind = "snap" /\ Carries(Snap(items)) = items
    BY DEF Snap, Carries
  <2> QED
    BY <2>1, <2>2
<1> QED
  BY <1>1, <1>2, <1>3, <1>4, <1>5

LEMMA UpKinds ==
    ASSUME NEW m \in UpMsg
    PROVE  /\ m.kind \in {"joinrequest", "announce", "pos"}
           /\ m.kind = "joinrequest" => m.level \in 1 .. MaxLevels + 1
           /\ m.kind = "announce" => m.slot \in Slots
<1>1. CASE m \in {Request(l) : l \in 1 .. MaxLevels + 1}
  BY <1>1 DEF Request
<1>2. CASE m \in {Announce(i) : i \in Slots}
  BY <1>2 DEF Announce
<1>3. CASE m = Pos
  BY <1>3 DEF Pos
<1> QED
  BY <1>1, <1>2, <1>3 DEF UpMsg

LEMMA UpMade ==
    /\ \A l \in 1 .. MaxLevels + 1 :
          Request(l) \in UpMsg /\ Request(l).kind = "joinrequest" /\ Request(l).level = l
    /\ \A i \in Slots : Announce(i) \in UpMsg /\ Announce(i).kind = "announce" /\ Announce(i).slot = i
    /\ Pos \in UpMsg /\ Pos.kind = "pos"
BY DEF UpMsg, Request, Announce, Pos

\* Everybody is told something, but nobody is welcomed.
Told(d, e) ==
    /\ e \in [Clients -> Seq(Messages)]
    /\ \A c \in Clients : \E s \in Seq(Messages) :
          e[c] = d[c] \o s /\ Welcomes(s) = {} /\ (conn[c] = NoId => s = <<>>)

LEMMA WelcomesOne == ASSUME NEW m PROVE Welcomes(<<m>>) = IF m.kind = "welcome" THEN {m.slot} ELSE {}
BY SlottedOne DEF Welcomes

LEMMA SingleSeq == ASSUME NEW M, NEW m \in M PROVE <<m>> \in Seq(M)
OBVIOUS

LEMMA ToldSame ==
    ASSUME down \in [Clients -> Seq(Messages)]
    PROVE  Told(down, down)
<1>1. <<>> \in Seq(Messages) /\ Welcomes(<<>>) = {}
  BY SlottedNone DEF Welcomes
<1>2. \A c \in Clients : down[c] = down[c] \o <<>>
  OBVIOUS
<1> QED
  BY <1>1, <1>2 DEF Told

LEMMA ToldSent ==
    ASSUME NEW d \in [Clients -> Seq(Messages)], NEW id, NEW msgs \in Seq(Messages),
           Welcomes(msgs) = {}
    PROVE  Told(d, Sent(d, id, msgs))
<1>1. <<>> \in Seq(Messages) /\ Welcomes(<<>>) = {}
  BY SlottedNone DEF Welcomes
<1> DEFINE e == Sent(d, id, msgs)
<1>2. e \in [Clients -> Seq(Messages)]
  BY DEF Sent
<1>3. ASSUME NEW c \in Clients
      PROVE  \E s \in Seq(Messages) :
                e[c] = d[c] \o s /\ Welcomes(s) = {} /\ (conn[c] = NoId => s = <<>>)
  <2>1. CASE conn[c] = id /\ id # NoId
    <3>1. e[c] = d[c] \o msgs
      BY <2>1 DEF Sent
    <3> HIDE DEF e
    <3> QED
      BY <2>1, <3>1
  <2>2. CASE ~(conn[c] = id /\ id # NoId)
    <3>1. e[c] = d[c] /\ d[c] = d[c] \o <<>>
      BY <2>2 DEF Sent
    <3> HIDE DEF e
    <3> QED
      BY <1>1, <3>1
  <2> QED
    BY <2>1, <2>2
<1> QED
  BY <1>2, <1>3 DEF Told

LEMMA ToldJoined ==
    ASSUME NEW d \in [Clients -> Seq(Messages)], NEW msgs \in Seq(Messages), Welcomes(msgs) = {}
    PROVE  Told(d, SentToJoined(d, msgs))
<1>1. <<>> \in Seq(Messages) /\ Welcomes(<<>>) = {}
  BY SlottedNone DEF Welcomes
<1> DEFINE e == SentToJoined(d, msgs)
<1>2. e \in [Clients -> Seq(Messages)]
  BY DEF SentToJoined
<1>3. ASSUME NEW c \in Clients
      PROVE  \E s \in Seq(Messages) :
                e[c] = d[c] \o s /\ Welcomes(s) = {} /\ (conn[c] = NoId => s = <<>>)
  <2> DEFINE his == \E i \in Slots : slot[i].joined /\ slot[i].net = conn[c] /\ conn[c] # NoId
  <2>1. CASE his
    <3>1. e[c] = d[c] \o msgs /\ conn[c] # NoId
      BY <2>1 DEF SentToJoined
    <3> HIDE DEF e
    <3> QED
      BY <3>1
  <2>2. CASE ~his
    <3>1. e[c] = d[c] /\ d[c] = d[c] \o <<>>
      BY <2>2 DEF SentToJoined
    <3> HIDE DEF e
    <3> QED
      BY <1>1, <3>1
  <2> QED
    BY <2>1, <2>2
<1> QED
  BY <1>2, <1>3 DEF Told

LEMMA ToldGivesUp ==
    ASSUME down \in [Clients -> Seq(Messages)]
    PROVE  Told(down, GivesUpJoin(down))
<1>1. <<Joining(3)>> \in Seq(Messages) /\ Welcomes(<<Joining(3)>>) = {}
  BY MessagesMade, SingleSeq, WelcomesOne
<1>2. Told(down, Sent(down, join.to, <<Joining(3)>>))
  BY <1>1, ToldSent
<1> QED
  BY <1>2, ToldSame DEF GivesUpJoin

\* What being told leaves as it was.
LEMMA ToldKeeps ==
    ASSUME NEW d \in [Clients -> Seq(Messages)], NEW e, Told(d, e), NEW c \in Clients
    PROVE  /\ e[c] \in Seq(Messages)
           /\ Welcomes(e[c]) = Welcomes(d[c])
           /\ Items(d[c]) \subseteq Items(e[c])
           /\ \A got, S : Founded(d[c], got, S) => Founded(e[c], got, S)
           /\ conn[c] = NoId /\ d[c] = <<>> => e[c] = <<>>
<1>1. PICK s \in Seq(Messages) :
          e[c] = d[c] \o s /\ Welcomes(s) = {} /\ (conn[c] = NoId => s = <<>>)
  BY DEF Told
<1>2. d[c] \in Seq(Messages) /\ e[c] \in Seq(Messages)
  BY DEF Told
<1>3. Welcomes(e[c]) = Welcomes(d[c])
  <2>1. Slotted(d[c] \o s, "welcome") = Slotted(d[c], "welcome") \cup Slotted(s, "welcome")
    BY <1>2, SlottedConcat
  <2> QED
    BY <1>1, <2>1 DEF Welcomes
<1>4. Items(d[c]) \subseteq Items(e[c])
  <2>1. \A n \in Len(d[c]) .. Len(d[c]) + Len(s) : Items(d[c]) \subseteq ItemsTo(d[c] \o s, n)
    BY <1>2, ItemsConcat
  <2>2. Len(d[c] \o s) \in Len(d[c]) .. Len(d[c]) + Len(s)
    BY <1>2
  <2> QED
    BY <1>1, <2>1, <2>2 DEF Items
<1>5. ASSUME NEW got, NEW S, Founded(d[c], got, S)
      PROVE  Founded(e[c], got, S)
  BY <1>1, <1>2, <1>5, FoundedConcat
<1>6. conn[c] = NoId /\ d[c] = <<>> => e[c] = <<>>
  BY <1>1
<1> QED
  BY <1>2, <1>3, <1>4, <1>5, <1>6

-----------------------------------------------------------------------------
(* Types                                                                     *)

LEMMA PlayerMade ==
    ASSUME NEW s \in PlayerStates
    PROVE  /\ \A x \in {"out", "joining", "playing", "leaving"} : [s EXCEPT !.status = x] \in PlayerStates
           /\ \A x \in 0 .. 2 : [s EXCEPT !.leave = x] \in PlayerStates
           /\ \A x \in BOOLEAN : [s EXCEPT !.knows = x] \in PlayerStates
           /\ \A x \in Slots \cup {0} : [s EXCEPT !.slot = x] \in PlayerStates
           /\ \A x \in SUBSET Pieces : [s EXCEPT !.got = x] \in PlayerStates
           /\ \A x \in SUBSET Pieces : [s EXCEPT !.owed = x] \in PlayerStates
           /\ \A x \in 0 .. MaxLevels + 1 : [s EXCEPT !.level = x] \in PlayerStates
           /\ \A x \in BOOLEAN : [s EXCEPT !.first = x] \in PlayerStates
           /\ Out \in PlayerStates
<1>1. s = [status |-> s.status, level |-> s.level, leave |-> s.leave, knows |-> s.knows,
           slot |-> s.slot, first |-> s.first, got |-> s.got, owed |-> s.owed]
  BY DEF PlayerStates
<1>2. MaxLevels \in Nat
  BY MultiAssumption
<1> HIDE DEF Pieces
<1>3. \A x \in {"out", "joining", "playing", "leaving"} : [s EXCEPT !.status = x] \in PlayerStates
  BY DEF PlayerStates
<1>4. \A x \in 0 .. 2 : [s EXCEPT !.leave = x] \in PlayerStates
  BY DEF PlayerStates
<1>5. \A x \in BOOLEAN : [s EXCEPT !.knows = x] \in PlayerStates
  BY DEF PlayerStates
<1>6. \A x \in Slots \cup {0} : [s EXCEPT !.slot = x] \in PlayerStates
  BY DEF PlayerStates
<1>7. \A x \in SUBSET Pieces : [s EXCEPT !.got = x] \in PlayerStates
  BY DEF PlayerStates
<1>8. \A x \in SUBSET Pieces : [s EXCEPT !.owed = x] \in PlayerStates
  BY DEF PlayerStates
<1>12. \A x \in 0 .. MaxLevels + 1 : [s EXCEPT !.level = x] \in PlayerStates
  BY DEF PlayerStates
<1>13. \A x \in BOOLEAN : [s EXCEPT !.first = x] \in PlayerStates
  BY DEF PlayerStates
<1>11. Out \in PlayerStates
  BY <1>2 DEF PlayerStates, Out
<1> QED
  BY <1>3, <1>4, <1>5, <1>6, <1>7, <1>8, <1>11, <1>12, <1>13

LEMMA Beginners ==
    ASSUME NEW l \in 0 .. MaxLevels + 1, NEW x \in BOOLEAN, NEW y \in BOOLEAN
    PROVE  /\ [Out EXCEPT !.status = "joining", !.level = l, !.first = y] \in PlayerStates
           /\ [Out EXCEPT !.status = "joining", !.level = l, !.knows = x, !.first = y] \in PlayerStates
<1> DEFINE a == [Out EXCEPT !.status = "joining"]
           b == [a EXCEPT !.level = l]
           d == [b EXCEPT !.knows = x]
           e == [b EXCEPT !.first = y]
           f == [d EXCEPT !.first = y]
<1>1. Out \in PlayerStates
  <2>1. {Out} # {}
    OBVIOUS
  <2> QED
    BY MultiAssumption DEF PlayerStates, Out
<1>2. a \in PlayerStates
  BY <1>1, PlayerMade
<1>3. b \in PlayerStates
  <2> HIDE DEF a
  <2> QED
    BY <1>2, PlayerMade
<1>4. d \in PlayerStates /\ e \in PlayerStates
  <2> HIDE DEF b
  <2> QED
    BY <1>3, PlayerMade
<1>5. f \in PlayerStates
  <2> HIDE DEF d
  <2> QED
    BY <1>4, PlayerMade
<1>6. /\ [Out EXCEPT !.status = "joining", !.level = l, !.first = y] = e
      /\ [Out EXCEPT !.status = "joining", !.level = l, !.knows = x, !.first = y] = f
  OBVIOUS
<1> QED
  BY <1>4, <1>5, <1>6

LEMMA HeadIn == ASSUME NEW M, NEW q \in Seq(M), q # <<>> PROVE Head(q) \in M /\ Tail(q) \in Seq(M)
OBVIOUS

LEMMA AppendIn == ASSUME NEW M, NEW q \in Seq(M), NEW m \in M
                  PROVE Append(q, m) \in Seq(M) /\ Append(q, m) = q \o <<m>> /\ q \o <<m, m>> \in Seq(M)
OBVIOUS

LEMMA NoIdIsNone == NoId = 0 /\ NoId \notin Ids /\ Ids \subseteq Nat
BY MultiAssumption DEF NoId, Ids

LEMMA PairSeq ==
    ASSUME NEW M, NEW a \in M, NEW b \in M
    PROVE  /\ <<a, b>> \in Seq(M)
           /\ \A kind : Slotted(<<a, b>>, kind) = Slotted(<<a>>, kind) \cup Slotted(<<b>>, kind)
<1>1. <<a, b>> \in Seq(M)
  OBVIOUS
<1>2. DOMAIN <<a, b>> = {1, 2} /\ <<a, b>>[1] = a /\ <<a, b>>[2] = b
  OBVIOUS
<1>3. ASSUME NEW kind
      PROVE  Slotted(<<a, b>>, kind) = Slotted(<<a>>, kind) \cup Slotted(<<b>>, kind)
  <2> DEFINE s == <<a, b>>
  <2>1. DOMAIN s = {1, 2} /\ s[1] = a /\ s[2] = b
    BY <1>2
  <2> HIDE DEF s
  <2>2. Slotted(s, kind) = (IF a.kind = kind THEN {a.slot} ELSE {})
                           \cup (IF b.kind = kind THEN {b.slot} ELSE {})
    BY <2>1 DEF Slotted
  <2>3. /\ Slotted(<<a>>, kind) = IF a.kind = kind THEN {a.slot} ELSE {}
        /\ Slotted(<<b>>, kind) = IF b.kind = kind THEN {b.slot} ELSE {}
    BY SlottedOne
  <2> QED
    BY <2>2, <2>3 DEF s
<1> QED
  BY <1>1, <1>3

\* The answers of the host that nobody is welcomed with.
LEMMA Answers ==
    /\ \A code \in {0, 1, 3, 5, 6} :
          <<Joining(code)>> \in Seq(Messages) /\ Welcomes(<<Joining(code)>>) = {}
    /\ <<Joining(0), LeaveJoin>> \in Seq(Messages) /\ Welcomes(<<Joining(0), LeaveJoin>>) = {}
    /\ <<Quit>> \in Seq(Messages) /\ Welcomes(<<Quit>>) = {}
    /\ <<LeaveJoin>> \in Seq(Messages) /\ Welcomes(<<LeaveJoin>>) = {}
    /\ <<EndLevel>> \in Seq(Messages) /\ Welcomes(<<EndLevel>>) = {}
    /\ \A items : items \subseteq Pieces =>
          <<Snap(items)>> \in Seq(Messages) /\ Welcomes(<<Snap(items)>>) = {}
    /\ \A i \in Slots : <<Welcome(i)>> \in Seq(Messages) /\ Welcomes(<<Welcome(i)>>) = {i}
    /\ \A i \in Slots : <<LeaveJoin, Welcome(i)>> \in Seq(Messages)
                        /\ Welcomes(<<LeaveJoin, Welcome(i)>>) = {i}
<1>1. \A code \in {0, 1, 3, 5, 6} :
          <<Joining(code)>> \in Seq(Messages) /\ Welcomes(<<Joining(code)>>) = {}
  BY MessagesMade, SingleSeq, WelcomesOne
<1>2. /\ <<Quit>> \in Seq(Messages) /\ Welcomes(<<Quit>>) = {}
      /\ <<LeaveJoin>> \in Seq(Messages) /\ Welcomes(<<LeaveJoin>>) = {}
      /\ <<EndLevel>> \in Seq(Messages) /\ Welcomes(<<EndLevel>>) = {}
  BY MessagesMade, SingleSeq, WelcomesOne
<1>3. \A items : items \subseteq Pieces =>
          <<Snap(items)>> \in Seq(Messages) /\ Welcomes(<<Snap(items)>>) = {}
  BY MessagesMade, SingleSeq, WelcomesOne
<1>4. \A i \in Slots : <<Welcome(i)>> \in Seq(Messages) /\ Welcomes(<<Welcome(i)>>) = {i}
  BY MessagesMade, SingleSeq, WelcomesOne
<1>5. ASSUME NEW a \in Messages, NEW b \in Messages
      PROVE  /\ <<a, b>> \in Seq(Messages)
             /\ Welcomes(<<a, b>>) = Welcomes(<<a>>) \cup Welcomes(<<b>>)
  <2>1. <<a, b>> \in Seq(Messages)
    BY PairSeq
  <2>2. Slotted(<<a, b>>, "welcome") = Slotted(<<a>>, "welcome") \cup Slotted(<<b>>, "welcome")
    BY PairSeq
  <2> QED
    BY <2>1, <2>2 DEF Welcomes
<1>6. <<Joining(0), LeaveJoin>> \in Seq(Messages) /\ Welcomes(<<Joining(0), LeaveJoin>>) = {}
  BY <1>1, <1>2, <1>5, MessagesMade
<1>7. ASSUME NEW i \in Slots
      PROVE  <<LeaveJoin, Welcome(i)>> \in Seq(Messages) /\ Welcomes(<<LeaveJoin, Welcome(i)>>) = {i}
  <2>1. LeaveJoin \in Messages /\ Welcome(i) \in Messages
    BY MessagesMade
  <2>2. /\ <<LeaveJoin, Welcome(i)>> \in Seq(Messages)
        /\ Welcomes(<<LeaveJoin, Welcome(i)>>) = Welcomes(<<LeaveJoin>>) \cup Welcomes(<<Welcome(i)>>)
    BY <1>5, <2>1
  <2>3. Welcomes(<<LeaveJoin>>) = {} /\ Welcomes(<<Welcome(i)>>) = {i}
    BY <1>2, <1>4
  <2> QED
    BY <2>2, <2>3
<1> QED
  BY <1>1, <1>2, <1>3, <1>4, <1>6, <1>7

LEMMA SentTyped ==
    ASSUME NEW d \in [Clients -> Seq(Messages)], NEW id, NEW msgs \in Seq(Messages)
    PROVE  Sent(d, id, msgs) \in [Clients -> Seq(Messages)]
BY DEF Sent

LEMMA PieceKinds ==
    /\ \A n \in Surfaces : {<<"surface", n>>} \subseteq Pieces
    /\ \A n \in Sectors : {<<"sector", n>>} \subseteq Pieces
    /\ {<<"thing", n>> : n \in Things} \subseteq Pieces
    /\ \A n \in 1 .. ListSize : {Destroyed(n)} \subseteq Pieces
    /\ World \subseteq Pieces
BY DEF Pieces, World

LEMMA WorldNowIsPieces == ASSUME destroyed \in 0 .. ListSize PROVE WorldNow \subseteq Pieces
<1>1. \A n \in 1 .. destroyed : n \in 1 .. ListSize
  BY MultiAssumption
<1> QED
  BY <1>1 DEF WorldNow, Pieces

LEMMA JoinMade ==
    ASSUME NEW s \in JoinStates
    PROVE  /\ \A x \in BOOLEAN : [s EXCEPT !.active = x] \in JoinStates
           /\ \A x \in Ids \cup {NoId} : [s EXCEPT !.to = x] \in JoinStates
           /\ \A x \in 1 .. 4 : [s EXCEPT !.stage = x] \in JoinStates
           /\ \A x \in Nat : [s EXCEPT !.cursor = x] \in JoinStates
           /\ \A x \in 1 .. 4, y \in Nat : [s EXCEPT !.stage = x, !.cursor = y] \in JoinStates
<1>1. \A x \in BOOLEAN : [s EXCEPT !.active = x] \in JoinStates
  BY DEF JoinStates
<1>2. \A x \in Ids \cup {NoId} : [s EXCEPT !.to = x] \in JoinStates
  BY DEF JoinStates
<1>3. \A x \in 1 .. 4 : [s EXCEPT !.stage = x] \in JoinStates
  BY DEF JoinStates
<1>4. \A x \in Nat : [s EXCEPT !.cursor = x] \in JoinStates
  BY DEF JoinStates
<1>5. \A x \in 1 .. 4, y \in Nat : [s EXCEPT !.stage = x, !.cursor = y] \in JoinStates
  BY DEF JoinStates
<1> QED
  BY <1>1, <1>2, <1>3, <1>4, <1>5

LEMMA NoSyncTyped ==
    ASSUME join \in JoinStates
    PROVE  /\ NoSync \in JoinStates /\ ~NoSync.active /\ NoSync.to = NoId
           /\ NoSync.idx = join.idx /\ NoSync.stage = 2 /\ NoSync.cursor = 0
<1> DEFINE a == [join EXCEPT !.active = FALSE]
           b == [a EXCEPT !.to = NoId]
           d == [b EXCEPT !.stage = 2, !.cursor = 0]
<1>1. a \in JoinStates
  BY JoinMade
<1>2. b \in JoinStates
  <2> HIDE DEF a
  <2> QED
    BY <1>1, JoinMade
<1>3. d \in JoinStates
  <2> HIDE DEF b
  <2>1. 2 \in 1 .. 4 /\ 0 \in Nat
    OBVIOUS
  <2> QED
    BY <1>2, <2>1, JoinMade
<1>4. NoSync = d
  BY DEF NoSync
<1>5. ~NoSync.active
  BY DEF NoSync, JoinStates
<1>6. NoSync.to = NoId /\ NoSync.idx = join.idx /\ NoSync.stage = 2 /\ NoSync.cursor = 0
  BY DEF NoSync, JoinStates
<1> QED
  BY <1>3, <1>4, <1>5, <1>6

LEMMA LeftMade ==
    ASSUME NEW s \in Lefts
    PROVE  /\ \A x \in Int, y \in Nat : [s EXCEPT !.connects = x, !.given = y] \in Lefts
           /\ \A x \in Int : [s EXCEPT !.drops = x] \in Lefts /\ [s EXCEPT !.destroyed = x] \in Lefts
           /\ \A x \in SUBSET {"late", "over"} : [s EXCEPT !.odd = x] \in Lefts
BY DEF Lefts

LEMMA ConnectTyped ==
    ASSUME Types, NEW c \in Clients, Connect(c)
    PROVE  Types'
<1>1. FirstFreeId \in Ids
  BY FirstFreeIdIsFree DEF Connect
<1>2. level \in 0 .. MaxLevels + 1 /\ (FirstFreeId > left.given) \in BOOLEAN /\ FALSE \in BOOLEAN
  BY MultiAssumption DEF Types
<1> DEFINE s == [Out EXCEPT !.status = "joining", !.level = level, !.first = FirstFreeId > left.given]
<1>3. s \in PlayerStates
  BY <1>2, Beginners
<1>4. client' = [client EXCEPT ![c] = s]
  BY DEF Connect
<1> HIDE DEF s
<1>5. client' \in [Clients -> PlayerStates]
  BY <1>3, <1>4 DEF Types
<1>6. conn' \in [Clients -> Ids \cup {NoId}]
  BY <1>1 DEF Types, Connect
<1>7. left' \in Lefts
  <2>1. FirstFreeId \in Nat /\ left \in Lefts /\ left.connects - 1 \in Int
    BY <1>1, NoIdIsNone DEF Types, Lefts
  <2>2. (IF FirstFreeId > left.given THEN FirstFreeId ELSE left.given) \in Nat
    BY <2>1 DEF Lefts
  <2>3. left' = [left EXCEPT !.connects = left.connects - 1,
                             !.given = IF FirstFreeId > left.given THEN FirstFreeId ELSE left.given]
    BY DEF Connect
  <2> QED
    BY <2>1, <2>2, <2>3, LeftMade
<1>8. UNCHANGED <<host, up, down, gone>>
  BY DEF Connect
<1> QED
  BY <1>5, <1>6, <1>7, <1>8 DEF Types, host

LEMMA ClosedTyped ==
    ASSUME Types, NEW c \in Clients, Closed(c)
    PROVE  Types'
<1>1. Out \in PlayerStates
  BY Beginners, PlayerMade DEF Types
<1>2. client' \in [Clients -> PlayerStates]
  BY <1>1 DEF Types, Closed
<1>3. conn' \in [Clients -> Ids \cup {NoId}]
  BY DEF Types, Closed
<1>4. gone' \in Seq(Ids)
  BY DEF Types, Closed
<1>5. up' \in [Clients -> Seq(UpMsg)]
  <2>1. <<>> \in Seq(UpMsg)
    OBVIOUS
  <2> QED
    BY <2>1 DEF Types, Closed
<1>6. down' \in [Clients -> Seq(Messages)]
  <2>1. <<>> \in Seq(Messages)
    OBVIOUS
  <2> QED
    BY <2>1 DEF Types, Closed
<1>7. UNCHANGED <<host, left>>
  BY DEF Closed
<1> QED
  BY <1>2, <1>3, <1>4, <1>5, <1>6, <1>7 DEF Types, host

LEMMA SlotsTyped ==
    ASSUME slot \in [Slots -> [net : Ids \cup {NoId}, joined : BOOLEAN]], NEW i \in Slots
    PROVE  /\ [slot EXCEPT ![i] = Free] \in [Slots -> [net : Ids \cup {NoId}, joined : BOOLEAN]]
           /\ \A id \in Ids \cup {NoId} :
                 /\ [slot EXCEPT ![i] = [net |-> id, joined |-> TRUE]]
                       \in [Slots -> [net : Ids \cup {NoId}, joined : BOOLEAN]]
                 /\ [slot EXCEPT ![i].net = id]
                       \in [Slots -> [net : Ids \cup {NoId}, joined : BOOLEAN]]
<1> DEFINE E == [net : Ids \cup {NoId}, joined : BOOLEAN]
<1>1. Free \in E /\ \A id \in Ids \cup {NoId} : [net |-> id, joined |-> TRUE] \in E
  BY DEF Free
<1>2. \A id \in Ids \cup {NoId} : [slot[i] EXCEPT !.net = id] \in E
  <2>1. slot[i] \in E
    OBVIOUS
  <2> QED
    BY <2>1
<1> HIDE DEF E
<1>3. slot \in [Slots -> E]
  BY DEF E
<1>4. \A x \in E : [slot EXCEPT ![i] = x] \in [Slots -> E]
  BY <1>3
<1>5. \A id : [slot EXCEPT ![i].net = id] = [slot EXCEPT ![i] = [slot[i] EXCEPT !.net = id]]
  OBVIOUS
<1> QED
  BY <1>1, <1>2, <1>4, <1>5 DEF E

LEMMA RequestTyped ==
    ASSUME Types, NEW c \in Clients, conn[c] # NoId, NEW l, ProcessJoinRequest(conn[c], l)
    PROVE  /\ slot' \in [Slots -> [net : Ids \cup {NoId}, joined : BOOLEAN]]
           /\ join' \in JoinStates /\ syncScores' \in BOOLEAN
           /\ down' \in [Clients -> Seq(Messages)]
<1>1. conn[c] \in Ids
  BY DEF Types
<1>2. CASE TakesUp(conn[c], l)
  <2>1. FirstFree \in Slots
    BY <1>2, FirstFreeIsFree DEF TakesUp
  <2>2. slot' \in [Slots -> [net : Ids \cup {NoId}, joined : BOOLEAN]]
    <3>1. slot' = [slot EXCEPT ![FirstFree] = Free]
      BY <1>2 DEF ProcessJoinRequest
    <3> QED
      BY <2>1, <3>1, SlotsTyped DEF Types
  <2>3. join' = [active |-> TRUE, to |-> conn[c], idx |-> FirstFree, stage |-> 2, cursor |-> 0]
    BY <1>2 DEF ProcessJoinRequest
  <2>4. join' \in JoinStates
    <3>1. 2 \in 1 .. 4 /\ 0 \in Nat
      OBVIOUS
    <3> QED
      BY <1>1, <2>1, <2>3, <3>1 DEF JoinStates
  <2>5. down' = Sent(down, conn[c], <<Joining(0), LeaveJoin>>) /\ UNCHANGED syncScores
    BY <1>2 DEF ProcessJoinRequest
  <2>6. down' \in [Clients -> Seq(Messages)]
    BY <2>5, Answers, SentTyped DEF Types
  <2> QED
    BY <2>2, <2>4, <2>5, <2>6 DEF Types
<1>3. CASE ~TakesUp(conn[c], l)
  <2>1. down' = Sent(down, conn[c], Refusal(conn[c], l)) /\ UNCHANGED <<slot, join, syncScores>>
    BY <1>3 DEF ProcessJoinRequest
  <2>2. Refusal(conn[c], l) \in Seq(Messages)
    <3>1. InList(conn[c]) => SlotOf(conn[c]) \in Slots
      BY SlotOfHolds
    <3>2. Refusal(conn[c], l) \in {<<Joining(code)>> : code \in {0, 1, 3, 5, 6}}
          \/ (InList(conn[c]) /\ Refusal(conn[c], l) = <<Welcome(SlotOf(conn[c]))>>)
      BY DEF Refusal
    <3>3. \A code \in {0, 1, 3, 5, 6} : <<Joining(code)>> \in Seq(Messages)
      BY Answers
    <3>4. InList(conn[c]) => <<Welcome(SlotOf(conn[c]))>> \in Seq(Messages)
      BY <3>1, Answers
    <3> QED
      BY <3>2, <3>3, <3>4
  <2>3. down' \in [Clients -> Seq(Messages)]
    BY <2>1, <2>2, SentTyped DEF Types
  <2> QED
    BY <2>1, <2>3 DEF Types
<1> QED
  BY <1>2, <1>3

LEMMA HostReceiveTyped ==
    ASSUME Types, ConnInv, NEW c \in Clients, HostReceive(c)
    PROVE  Types'
<1> DEFINE m == Head(up[c])
<1>1. up[c] \in Seq(UpMsg) /\ up[c] # <<>> /\ m \in UpMsg /\ Tail(up[c]) \in Seq(UpMsg)
  BY HeadIn DEF Types, HostReceive
<1>2. conn[c] # NoId /\ conn[c] \in Ids
  BY <1>1 DEF ConnInv, Types
<1>3. /\ up' = [up EXCEPT ![c] = Tail(@)] /\ mode = "game"
      /\ UNCHANGED <<frame, ending, destroyed, mode, level, conn, gone, left>>
  BY DEF HostReceive, Handle, HostReceives, HostRuns
<1>4. up' \in [Clients -> Seq(UpMsg)]
  BY <1>1, <1>3 DEF Types
<1>5. /\ slot' \in [Slots -> [net : Ids \cup {NoId}, joined : BOOLEAN]]
      /\ join' \in JoinStates /\ syncScores' \in BOOLEAN
      /\ down' \in [Clients -> Seq(Messages)]
      /\ client' \in [Clients -> PlayerStates]
  <2>1. CASE m.kind = "joinrequest"
    <3>1. /\ ProcessJoinRequest(conn[c], m.level)
          /\ client' = IF TakesUp(conn[c], m.level) /\ client[c].owed = {}
                       THEN [client EXCEPT ![c].owed = WorldNow] ELSE client
      BY <2>1 DEF HostReceive, Handle
    <3>2. client' \in [Clients -> PlayerStates]
      <4>1. WorldNow \in SUBSET Pieces
        BY WorldNowIsPieces DEF Types
      <4>2. client[c] \in PlayerStates
        BY DEF Types
      <4>3. [client[c] EXCEPT !.owed = WorldNow] \in PlayerStates
        BY <4>1, <4>2, PlayerMade
      <4> QED
        BY <3>1, <4>3 DEF Types
    <3> QED
      BY <1>2, <3>1, <3>2, RequestTyped
  <2>2. CASE m.kind = "announce"
    <3>1. Announced(m.slot, conn[c]) /\ UNCHANGED <<join, down, client>>
      BY <2>2 DEF HostReceive, Handle
    <3>2. m.slot \in Slots
      BY <1>1, <2>2, UpKinds
    <3>3. slot' \in [Slots -> [net : Ids \cup {NoId}, joined : BOOLEAN]] /\ syncScores' \in BOOLEAN
      <4>1. CASE slot[m.slot].joined
        BY <3>1, <4>1 DEF Announced, Types
      <4>2. CASE ~slot[m.slot].joined
        <5>1. slot' = [slot EXCEPT ![m.slot] = [net |-> conn[c], joined |-> TRUE]] /\ syncScores' = TRUE
          BY <3>1, <4>2 DEF Announced
        <5> QED
          BY <1>2, <3>2, <5>1, SlotsTyped DEF Types
      <4> QED
        BY <4>1, <4>2
    <3> QED
      BY <3>1, <3>3 DEF Types
  <2>3. CASE m.kind = "pos"
    <3>1. down' = EjectStranger(down, conn[c]) /\ UNCHANGED <<slot, join, syncScores, client>>
      BY <2>3 DEF HostReceive, Handle
    <3>2. down' \in [Clients -> Seq(Messages)]
      BY <3>1, Answers, SentTyped DEF Types, EjectStranger
    <3> QED
      BY <3>1, <3>2 DEF Types
  <2> QED
    BY <1>1, <2>1, <2>2, <2>3, UpKinds
<1> HIDE DEF m
<1> QED
  BY <1>3, <1>4, <1>5 DEF Types

LEMMA ToldTyped == ASSUME NEW d, NEW e, Told(d, e) PROVE e \in [Clients -> Seq(Messages)]
BY DEF Told

LEMMA HostEventTyped ==
    ASSUME Types,
           \/ PlayerGone \/ FreeThing \/ ScoresDue \/ SendScores \/ EndsLevel \/ AbortJoin
           \/ LevelOver \/ OpenLevel \/ HostLeaves
           \/ (\E i \in Slots : DropSilent(i)) \/ (\E k \in 1 .. FrameSteps : BeginSteps(k))
    PROVE  Types'
<1> DEFINE Infos == [Slots -> [net : Ids \cup {NoId}, joined : BOOLEAN]]
           Queues == [Clients -> Seq(Messages)]
<1>1. slot \in Infos /\ join \in JoinStates /\ down \in Queues /\ left \in Lefts
  BY DEF Types
<1>2. NoSync \in JoinStates
  BY <1>1, NoSyncTyped
<1>3. GivesUpJoin(down) \in Queues
  BY <1>1, ToldGivesUp, ToldTyped
<1>4. ASSUME PlayerGone
      PROVE  Types'
  <2> DEFINE id == Head(gone)
             his == join.active /\ join.to = id
  <2>1. /\ gone' = Tail(gone) /\ gone # <<>>
        /\ join' = IF his THEN NoSync ELSE join
        /\ down' = IF his THEN GivesUpJoin(down) ELSE down
        /\ slot' = IF InList(id) THEN [slot EXCEPT ![SlotOf(id)] = Free] ELSE slot
        /\ UNCHANGED <<frame, ending, syncScores, destroyed, mode, level, conn, up, client, left>>
    BY <1>4 DEF PlayerGone
  <2>2. gone' \in Seq(Ids)
    BY <2>1, HeadIn DEF Types
  <2>3. slot' \in Infos
    BY <1>1, <2>1, SlotOfHolds, SlotsTyped
  <2>4. join' \in JoinStates /\ down' \in Queues
    BY <1>1, <1>2, <1>3, <2>1
  <2> QED
    BY <2>1, <2>2, <2>3, <2>4 DEF Types
<1>5. ASSUME NEW i \in Slots, DropSilent(i)
      PROVE  Types'
  <2>1. /\ down' = Sent(down, slot[i].net, <<Quit>>)
        /\ slot' = [slot EXCEPT ![i] = Free]
        /\ left' = [left EXCEPT !.drops = left.drops - 1]
        /\ UNCHANGED <<join, frame, ending, syncScores, destroyed, mode, level, conn, up, gone, client>>
    BY <1>5 DEF DropSilent
  <2>2. down' \in Queues
    BY <1>1, <2>1, Answers, SentTyped
  <2>3. slot' \in Infos
    BY <1>1, <2>1, SlotsTyped
  <2>4. left' \in Lefts
    <3>1. left.drops - 1 \in Int
      BY <1>1 DEF Lefts
    <3> QED
      BY <1>1, <2>1, <3>1, LeftMade
  <2> QED
    BY <2>1, <2>2, <2>3, <2>4 DEF Types
<1>6. ASSUME FreeThing
      PROVE  Types'
  <2>1. /\ destroyed' = IF destroyed < ListSize THEN destroyed + 1 ELSE destroyed
        /\ left' = [left EXCEPT !.destroyed = left.destroyed - 1]
        /\ UNCHANGED <<slot, join, frame, ending, syncScores, mode, level, conn, up, down, gone, client>>
    BY <1>6 DEF FreeThing
  <2>2. destroyed' \in 0 .. ListSize
    <3>1. destroyed \in 0 .. ListSize /\ ListSize \in Nat
      BY MultiAssumption DEF Types
    <3> QED
      BY <2>1, <3>1
  <2>3. left' \in Lefts
    <3>1. left.destroyed - 1 \in Int
      BY <1>1 DEF Lefts
    <3> QED
      BY <1>1, <2>1, <3>1, LeftMade
  <2> QED
    BY <2>1, <2>2, <2>3 DEF Types
<1>7. ASSUME ScoresDue
      PROVE  Types'
  BY <1>7 DEF ScoresDue, Types
<1>8. ASSUME SendScores
      PROVE  Types'
  <2>1. SentToJoined(down, <<LeaveJoin>>) \in Queues
    BY <1>1, Answers, ToldJoined, ToldTyped
  <2> QED
    BY <1>8, <2>1 DEF SendScores, Types
<1>9. ASSUME NEW k \in 1 .. FrameSteps, BeginSteps(k)
      PROVE  Types'
  <2>1. k \in 0 .. FrameSteps
    BY MultiAssumption
  <2> QED
    BY <1>9, <2>1 DEF BeginSteps, Types
<1>10. ASSUME EndsLevel
       PROVE  Types'
  <2>1. SentToJoined(down, <<EndLevel>>) \in Queues
    BY <1>1, Answers, ToldJoined, ToldTyped
  <2> QED
    BY <1>10, <2>1 DEF EndsLevel, Types, HostRuns
<1>11. ASSUME AbortJoin
       PROVE  Types'
  BY <1>2, <1>3, <1>11 DEF AbortJoin, Types
<1>12. ASSUME LevelOver
       PROVE  Types'
  <2>1. <<>> \in Seq(UpMsg) /\ <<>> \in Seq(Ids)
    OBVIOUS
  <2>2. /\ ending' = FALSE /\ mode' = "lobby" /\ ending
        /\ down' = GivesUpJoin(down)
        /\ join' = IF join.active THEN NoSync ELSE join
        /\ up' = [c \in Clients |-> <<>>] /\ gone' = <<>>
        /\ UNCHANGED <<slot, frame, syncScores, destroyed, level, conn, client, left>>
    BY <1>12 DEF LevelOver
  <2>3. join' \in JoinStates
    BY <1>1, <1>2, <2>2
  <2>4. up' \in [Clients -> Seq(UpMsg)]
    BY <2>1, <2>2
  <2>5. ~join'.active /\ level < MaxLevels
    BY <1>1, <2>2, NoSyncTyped DEF Types
  <2> QED
    BY <1>3, <2>1, <2>2, <2>3, <2>4, <2>5 DEF Types
<1>13. ASSUME OpenLevel
       PROVE  Types'
  <2>1. <<>> \in Seq(UpMsg) /\ <<>> \in Seq(Ids)
    OBVIOUS
  <2>2. /\ mode = "lobby" /\ mode' = "game" /\ level' = level + 1
        /\ slot' = [i \in Slots |-> Free]
        /\ join' = [join EXCEPT !.active = FALSE]
        /\ destroyed' = 0
        /\ up' = [c \in Clients |-> <<>>] /\ gone' = <<>>
        /\ UNCHANGED <<frame, ending, syncScores, conn, down, client, left>>
    BY <1>13 DEF OpenLevel
  <2>3. join' \in JoinStates
    BY <1>1, <2>2, JoinMade
  <2>4. up' \in [Clients -> Seq(UpMsg)]
    BY <2>1, <2>2
  <2>5. slot' \in Infos
    BY <2>2 DEF Free
  <2>6. level' \in 1 .. MaxLevels
    <3>1. level \in 1 .. MaxLevels /\ level < MaxLevels /\ MaxLevels \in Nat
      BY <2>2, MultiAssumption DEF Types
    <3>2. level + 1 \in 1 .. MaxLevels
      BY <3>1
    <3> QED
      BY <2>2, <3>2
  <2>7. destroyed' \in 0 .. ListSize
    BY <2>2, MultiAssumption
  <2>8. ~ending'
    BY <2>2 DEF Types
  <2> QED
    BY <2>1, <2>2, <2>3, <2>4, <2>5, <2>6, <2>7, <2>8 DEF Types
<1>14. ASSUME HostLeaves
       PROVE  Types'
  BY <1>14 DEF HostLeaves, Types
<1> QED
  BY <1>4, <1>5, <1>6, <1>7, <1>8, <1>9, <1>10, <1>11, <1>12, <1>13, <1>14

\* What a step of the stages 2 and 1 does: it is over, or sends one element.
SweepEnds(S, next) ==
    /\ Ahead(S, join.cursor) = {} /\ down' = down
    /\ join' = [join EXCEPT !.stage = next, !.cursor = 0]
SweepSends(S, n, kind, next, x) ==
    /\ x >= join.cursor /\ \A z \in S : z >= join.cursor => x <= z
    /\ down' = Sent(down, join.to, <<Snap({<<kind, x>>})>>)
    /\ \/ x + 1 >= n /\ join' = [join EXCEPT !.stage = next, !.cursor = 0]
       \/ join' = [join EXCEPT !.cursor = x + 1]
Sweeps(S, n, stage, kind, next) ==
    /\ join.stage = stage /\ UNCHANGED <<slot, syncScores, left>>
    /\ SweepEnds(S, next) \/ \E x \in S : SweepSends(S, n, kind, next, x)

LEMMA SweepEffect ==
    ASSUME join \in JoinStates, NEW S \in SUBSET Nat, NEW n \in Nat, NEW stage, NEW kind, NEW next,
           SweepStep(stage, S, n, kind, next)
    PROVE  Sweeps(S, n, stage, kind, next)
<1> DEFINE ahead == Ahead(S, join.cursor)
           x == CHOOSE y \in ahead : \A z \in ahead : y <= z
<1>1. join.cursor \in Nat
  BY DEF JoinStates
<1>2. join.stage = stage /\ UNCHANGED <<slot, syncScores, left>>
  BY DEF SweepStep
<1> DEFINE cur == IF ahead = {} THEN n ELSE x + 1
<1>5. /\ down' = IF ahead = {} THEN down ELSE Sent(down, join.to, <<Snap({<<kind, x>>})>>)
      /\ join' = IF cur >= n THEN [join EXCEPT !.stage = next, !.cursor = 0]
                 ELSE [join EXCEPT !.cursor = cur]
  BY DEF SweepStep
<1>6. Ahead(S, join.cursor) = ahead
  OBVIOUS
<1>7. ahead # {} => x \in S /\ x >= join.cursor /\ \A z \in S : z >= join.cursor => x <= z
  <2>1. ahead # {} => Ahead(S, join.cursor) # {}
    OBVIOUS
  <2>2. x = CHOOSE y \in Ahead(S, join.cursor) : \A z \in Ahead(S, join.cursor) : y <= z
    OBVIOUS
  <2> HIDE DEF x, ahead
  <2> QED
    BY <1>1, <2>1, <2>2, NextAhead
<1> HIDE DEF x, ahead
<1>3. CASE ahead = {}
  <2>1. down' = down /\ join' = [join EXCEPT !.stage = next, !.cursor = 0]
    BY <1>3, <1>5
  <2> QED
    BY <1>2, <1>3, <1>6, <2>1 DEF Sweeps, SweepEnds
<1>4. CASE ahead # {}
  <2>1. /\ down' = Sent(down, join.to, <<Snap({<<kind, x>>})>>)
        /\ \/ x + 1 >= n /\ join' = [join EXCEPT !.stage = next, !.cursor = 0]
           \/ join' = [join EXCEPT !.cursor = x + 1]
    BY <1>4, <1>5
  <2>2. SweepSends(S, n, kind, next, x)
    BY <1>4, <1>7, <2>1 DEF SweepSends
  <2> QED
    BY <1>2, <1>4, <1>7, <2>2 DEF Sweeps
<1> QED
  BY <1>3, <1>4

\* What the last stage does.
LEMMA LastEffect ==
    ASSUME LastStep, join \in JoinStates, destroyed \in 0 .. ListSize
    PROVE  /\ join.stage = 4
           /\ \E snap \in Seq(Messages), cursor \in Nat :
                 /\ Welcomes(snap) = {} /\ cursor \in {join.cursor, join.cursor + 1}
                 /\ \A n \in 1 .. cursor : n <= join.cursor \/ Destroyed(n) \in Items(snap)
                 /\ \/ /\ cursor >= destroyed
                       /\ slot' = [slot EXCEPT ![join.idx].net = join.to]
                       /\ down' = Sent(down, join.to, snap \o <<LeaveJoin, Welcome(join.idx)>>)
                       /\ join' = NoSync /\ syncScores' = TRUE
                       /\ left' = IF join.active THEN left
                                  ELSE [left EXCEPT !.odd = left.odd \cup {"over"}]
                    \/ /\ down' = Sent(down, join.to, snap)
                       /\ join' = [join EXCEPT !.cursor = cursor]
                       /\ UNCHANGED <<slot, syncScores, left>>
<1> DEFINE more == join.cursor < destroyed
           cursor == IF more THEN join.cursor + 1 ELSE join.cursor
           snap == IF more THEN <<Snap({Destroyed(cursor)})>> ELSE <<>>
<1>1. join.cursor \in Nat /\ destroyed \in Nat /\ destroyed <= ListSize /\ ListSize \in Nat
  BY MultiAssumption DEF JoinStates
<1>2. cursor \in Nat /\ cursor \in {join.cursor, join.cursor + 1}
  BY <1>1
<1>3. snap \in Seq(Messages) /\ Welcomes(snap) = {} /\ (more => Items(snap) = {Destroyed(cursor)})
  <2>1. CASE more
    <3>1. cursor \in 1 .. ListSize
      BY <1>1, <2>1
    <3>2. snap = <<Snap({Destroyed(cursor)})>>
      BY <2>1
    <3> HIDE DEF cursor, snap
    <3>3. {Destroyed(cursor)} \subseteq Pieces
      BY <3>1, PieceKinds
    <3>4. Carries(Snap({Destroyed(cursor)})) = {Destroyed(cursor)}
      BY MessagesMade
    <3>5. Items(snap) = {Destroyed(cursor)}
      BY <3>2, <3>4, ItemsOne
    <3> QED
      BY <3>2, <3>3, <3>5, Answers
  <2>2. CASE ~more
    BY <2>2, SlottedNone DEF Welcomes
  <2> QED
    BY <2>1, <2>2
<1>4. \A n \in 1 .. cursor : n <= join.cursor \/ Destroyed(n) \in Items(snap)
  <2>1. ASSUME NEW n \in 1 .. cursor, ~(n <= join.cursor)
        PROVE  Destroyed(n) \in Items(snap)
    <3>1. more /\ n = cursor
      BY <1>1, <2>1
    <3> HIDE DEF snap, cursor, more
    <3> QED
      BY <1>3, <3>1
  <2> QED
    BY <2>1
<1>5. CASE cursor >= destroyed
  <2>1. /\ slot' = [slot EXCEPT ![join.idx].net = join.to]
        /\ down' = Sent(down, join.to, snap \o <<LeaveJoin, Welcome(join.idx)>>)
        /\ join' = NoSync /\ syncScores' = TRUE
        /\ left' = IF join.active THEN left ELSE [left EXCEPT !.odd = left.odd \cup {"over"}]
        /\ join.stage = 4
    BY <1>5 DEF LastStep
  <2> HIDE DEF more, cursor, snap
  <2> QED
    BY <1>2, <1>3, <1>4, <1>5, <2>1
<1>6. CASE ~(cursor >= destroyed)
  <2>1. /\ down' = Sent(down, join.to, snap) /\ join' = [join EXCEPT !.cursor = cursor]
        /\ UNCHANGED <<slot, syncScores, left>> /\ join.stage = 4
    BY <1>6 DEF LastStep
  <2> HIDE DEF more, cursor, snap
  <2> QED
    BY <1>2, <1>3, <1>4, <2>1
<1> QED
  BY <1>5, <1>6

LEMMA SyncStepTyped ==
    ASSUME Types, SyncStep
    PROVE  Types'
<1> DEFINE Infos == [Slots -> [net : Ids \cup {NoId}, joined : BOOLEAN]]
           Queues == [Clients -> Seq(Messages)]
<1>1. /\ slot \in Infos /\ join \in JoinStates /\ down \in Queues /\ left \in Lefts
      /\ syncScores \in BOOLEAN /\ frame \in 0 .. FrameSteps /\ destroyed \in 0 .. ListSize
  BY DEF Types
<1>2. /\ mode = "game" /\ frame > 0 /\ frame' = frame - 1
      /\ UNCHANGED <<ending, destroyed, mode, level, conn, up, gone, client>>
  BY DEF SyncStep
<1>3. frame' \in 0 .. FrameSteps
  BY <1>1, <1>2, MultiAssumption
<1>4. Surfaces \in SUBSET Nat /\ Sectors \in SUBSET Nat /\ NumSurfaces \in Nat /\ NumSectors \in Nat
  BY MultiAssumption
<1> DEFINE StaysTyped == /\ slot' \in Infos /\ join' \in JoinStates /\ down' \in Queues
                         /\ left' \in Lefts /\ syncScores' \in BOOLEAN
<1>5. StaysTyped
  <2>1. ASSUME NEW S \in SUBSET Nat, NEW n \in Nat, NEW stage, NEW kind, NEW next \in 1 .. 4,
               \A x \in S : {<<kind, x>>} \subseteq Pieces,
               SweepStep(stage, S, n, kind, next)
        PROVE  StaysTyped
    <3>1. Sweeps(S, n, stage, kind, next)
      BY <1>1, <2>1, SweepEffect
    <3>2. UNCHANGED <<slot, syncScores, left>>
      BY <3>1 DEF Sweeps
    <3>3. [join EXCEPT !.stage = next, !.cursor = 0] \in JoinStates
      <4>1. 0 \in Nat
        OBVIOUS
      <4> QED
        BY <1>1, <2>1, <4>1, JoinMade
    <3>4. CASE SweepEnds(S, next)
      BY <1>1, <3>2, <3>3, <3>4 DEF SweepEnds
    <3>5. ASSUME NEW x \in S, SweepSends(S, n, kind, next, x)
          PROVE  StaysTyped
      <4>1. <<Snap({<<kind, x>>})>> \in Seq(Messages)
        BY <2>1, Answers
      <4>2. down' \in Queues
        BY <1>1, <3>5, <4>1, SentTyped DEF SweepSends
      <4>3. x + 1 \in Nat
        OBVIOUS
      <4>4. [join EXCEPT !.cursor = x + 1] \in JoinStates
        BY <1>1, <4>3, JoinMade
      <4>5. join' \in JoinStates
        BY <3>3, <3>5, <4>4 DEF SweepSends
      <4> QED
        BY <1>1, <3>2, <4>2, <4>5
    <3> QED
      BY <3>1, <3>4, <3>5 DEF Sweeps
  <2>2. CASE SweepStep(2, Surfaces, NumSurfaces, "surface", 1)
    <3> HIDE DEF StaysTyped
    <3>1. 1 \in 1 .. 4 /\ \A x \in Surfaces : {<<"surface", x>>} \subseteq Pieces
      BY PieceKinds
    <3> QED
      BY <1>4, <2>1, <2>2, <3>1
  <2>3. CASE SweepStep(1, Sectors, NumSectors, "sector", 3)
    <3> HIDE DEF StaysTyped
    <3>1. 3 \in 1 .. 4 /\ \A x \in Sectors : {<<"sector", x>>} \subseteq Pieces
      BY PieceKinds
    <3> QED
      BY <1>4, <2>1, <2>3, <3>1
  <2>4. CASE ThingStep
    <3>1. /\ down' = Sent(down, join.to, <<Snap({<<"thing", n>> : n \in Things})>>)
          /\ join' = [join EXCEPT !.stage = 4, !.cursor = 0]
          /\ UNCHANGED <<slot, syncScores, left>>
      BY <2>4 DEF ThingStep
    <3>2. <<Snap({<<"thing", n>> : n \in Things})>> \in Seq(Messages)
      BY Answers, PieceKinds
    <3>3. down' \in Queues
      BY <1>1, <3>1, <3>2, SentTyped
    <3>4. join' \in JoinStates
      <4>1. 4 \in 1 .. 4 /\ 0 \in Nat
        OBVIOUS
      <4> QED
        BY <1>1, <3>1, <4>1, JoinMade
    <3> QED
      BY <1>1, <3>1, <3>3, <3>4
  <2>5. CASE LastStep
    <3>1. PICK snap \in Seq(Messages), cursor \in Nat :
             \/ /\ slot' = [slot EXCEPT ![join.idx].net = join.to]
                /\ down' = Sent(down, join.to, snap \o <<LeaveJoin, Welcome(join.idx)>>)
                /\ join' = NoSync /\ syncScores' = TRUE
                /\ left' = IF join.active THEN left
                           ELSE [left EXCEPT !.odd = left.odd \cup {"over"}]
             \/ /\ down' = Sent(down, join.to, snap)
                /\ join' = [join EXCEPT !.cursor = cursor]
                /\ UNCHANGED <<slot, syncScores, left>>
      BY <1>1, <2>5, LastEffect
    <3>2. join.idx \in Slots /\ join.to \in Ids \cup {NoId}
      BY <1>1 DEF JoinStates
    <3>3. [slot EXCEPT ![join.idx].net = join.to] \in Infos
      BY <1>1, <3>2, SlotsTyped
    <3>4. Sent(down, join.to, snap) \in Queues
      BY <1>1, SentTyped
    <3>5. Sent(down, join.to, snap \o <<LeaveJoin, Welcome(join.idx)>>) \in Queues
      <4>1. <<LeaveJoin, Welcome(join.idx)>> \in Seq(Messages)
        BY <3>2, Answers
      <4>2. snap \o <<LeaveJoin, Welcome(join.idx)>> \in Seq(Messages)
        BY <4>1
      <4> QED
        BY <1>1, <4>2, SentTyped
    <3>6. NoSync \in JoinStates /\ [join EXCEPT !.cursor = cursor] \in JoinStates
      BY <1>1, JoinMade, NoSyncTyped
    <3>7. [left EXCEPT !.odd = left.odd \cup {"over"}] \in Lefts
      <4>1. left.odd \cup {"over"} \in SUBSET {"late", "over"}
        BY <1>1 DEF Lefts
      <4> QED
        BY <1>1, <4>1, LeftMade
    <3> QED
      BY <1>1, <3>1, <3>3, <3>4, <3>5, <3>6, <3>7
  <2> QED
    BY <1>2, <2>2, <2>3, <2>4, <2>5 DEF SyncStep
<1> QED
  BY <1>2, <1>3, <1>5 DEF Types

\* What a player becomes that reads a message, a welcome excepted.
Reads(s, m) ==
    CASE m.kind = "joining" -> Answered(s, m.code)
      [] m.kind = "snap" -> [s EXCEPT !.got = @ \cup m.items]
      [] m.kind = "leavejoin" -> [s EXCEPT !.knows = TRUE]
      [] m.kind = "quit" -> Ejected(s)
      [] m.kind = "endlevel" -> LevelEnds(s)
      [] OTHER -> s

LEMMA ReadsEffect ==
    ASSUME NEW s \in PlayerStates, NEW m \in Messages
    PROVE  /\ Reads(s, m) \in PlayerStates
           /\ Reads(s, m).level = s.level /\ Reads(s, m).slot = s.slot
           /\ Reads(s, m).first = s.first /\ Reads(s, m).owed = s.owed
           /\ \/ Reads(s, m).status = s.status
              \/ s.status = "joining" /\ Reads(s, m).status = "leaving"
           /\ Reads(s, m).got = s.got \cup Carries(m)
<1> DEFINE r == Reads(s, m)
<1>1. CASE m.kind = "joining"
  <2>1. r = s \/ (s.status = "joining" /\ r = [s EXCEPT !.status = "leaving"])
    BY <1>1 DEF Reads, Answered
  <2>2. [s EXCEPT !.status = "leaving"] \in PlayerStates
    BY PlayerMade
  <2>3. Carries(m) = {}
    BY <1>1 DEF Carries
  <2> HIDE DEF r
  <2> QED
    BY <2>1, <2>2, <2>3 DEF r, PlayerStates
<1>2. CASE m.kind = "snap"
  <2>1. r = [s EXCEPT !.got = s.got \cup m.items] /\ Carries(m) = m.items
    BY <1>2 DEF Reads, Carries
  <2>2. s.got \cup m.items \in SUBSET Pieces
    BY <1>2, MessageKinds DEF PlayerStates
  <2>3. r \in PlayerStates
    BY <2>1, <2>2, PlayerMade
  <2> HIDE DEF r
  <2> QED
    BY <2>1, <2>2, <2>3 DEF r, PlayerStates
<1>3. CASE m.kind = "leavejoin"
  <2>1. r = [s EXCEPT !.knows = TRUE] /\ Carries(m) = {}
    BY <1>3 DEF Reads, Carries
  <2>2. r \in PlayerStates
    BY <2>1, PlayerMade
  <2> HIDE DEF r
  <2> QED
    BY <2>1, <2>2 DEF r, PlayerStates
<1>4. CASE m.kind \in {"quit", "endlevel"}
  <2>1. (r = s \/ \E x \in 0 .. 2 : r = [s EXCEPT !.leave = x]) /\ Carries(m) = {}
    <3>1. 1 \in 0 .. 2 /\ 2 \in 0 .. 2
      OBVIOUS
    <3>2. r = s \/ r = [s EXCEPT !.leave = 2] \/ r = [s EXCEPT !.leave = 1]
      BY <1>4 DEF Reads, Ejected, LevelEnds
    <3>3. Carries(m) = {}
      BY <1>4 DEF Carries
    <3> QED
      BY <3>1, <3>2, <3>3
  <2> HIDE DEF r
  <2>2. CASE r = s
    BY <2>1, <2>2 DEF r, PlayerStates
  <2>3. ASSUME NEW x \in 0 .. 2, r = [s EXCEPT !.leave = x]
        PROVE  r \in PlayerStates /\ r.level = s.level /\ r.slot = s.slot /\ r.first = s.first
               /\ r.owed = s.owed /\ r.status = s.status /\ r.got = s.got
    <3>1. r \in PlayerStates
      BY <2>3, PlayerMade
    <3> QED
      BY <2>3, <3>1 DEF PlayerStates
  <2> QED
    BY <2>1, <2>2, <2>3 DEF r
<1>5. CASE m.kind = "welcome"
  BY <1>5 DEF Reads, Carries, PlayerStates
<1> QED
  BY <1>1, <1>2, <1>3, <1>4, <1>5, MessageKinds

\* What a player does with a message: it takes up a welcome, or reads.
TakesUpWelcome(c, i) ==
    /\ client[c].status = "joining"
    /\ client' = [client EXCEPT ![c].status = "playing", ![c].slot = i]
    /\ up' = [up EXCEPT ![c] = @ \o <<Announce(i), Announce(i)>>]
    /\ left' = IF client[c].level = level THEN left
               ELSE [left EXCEPT !.odd = left.odd \cup {"late"}]

LEMMA ReceiveEffect ==
    ASSUME Types, NEW c \in Clients, ClientReceive(c)
    PROVE  /\ down[c] # <<>> /\ down' = [down EXCEPT ![c] = Tail(@)] /\ mode # "gone"
           /\ client[c].status \in {"joining", "playing"}
           /\ UNCHANGED <<host, conn, gone>>
           /\ Head(down[c]) \in Messages
           /\ \/ Head(down[c]).kind = "welcome" /\ TakesUpWelcome(c, Head(down[c]).slot)
              \/ /\ Head(down[c]).kind = "welcome" => client[c].status # "joining"
                 /\ client' = [client EXCEPT ![c] = Reads(client[c], Head(down[c]))]
                 /\ UNCHANGED <<up, left>>
<1> DEFINE m == Head(down[c])
<1>1. /\ down[c] # <<>> /\ down' = [down EXCEPT ![c] = Tail(@)] /\ mode # "gone"
      /\ client[c].status \in {"joining", "playing"}
      /\ UNCHANGED <<host, conn, gone>>
  BY DEF ClientReceive
<1>2. m \in Messages
  BY <1>1, HeadIn DEF Types
<1>3. client = [client EXCEPT ![c] = client[c]]
  BY DEF Types
<1>4. CASE m.kind = "welcome"
  <2>1. WelcomedTo(c, m.slot)
    BY <1>4 DEF ClientReceive
  <2>2. CASE client[c].status = "joining"
    BY <1>1, <1>2, <1>4, <2>1, <2>2 DEF WelcomedTo, TakesUpWelcome
  <2>3. CASE client[c].status # "joining"
    <3>1. UNCHANGED <<client, up, left>>
      BY <2>1, <2>3 DEF WelcomedTo
    <3>2. Reads(client[c], m) = client[c]
      BY <1>4 DEF Reads
    <3> QED
      BY <1>1, <1>2, <1>3, <2>3, <3>1, <3>2
  <2> QED
    BY <2>2, <2>3
<1>5. CASE m.kind # "welcome"
  <2>1. client' = [client EXCEPT ![c] = Reads(client[c], m)] /\ UNCHANGED <<up, left>>
    BY <1>5 DEF ClientReceive, Reads
  <2> QED
    BY <1>1, <1>2, <1>5, <2>1
<1> QED
  BY <1>4, <1>5

LEMMA ReceiveTyped ==
    ASSUME Types, NEW c \in Clients, ClientReceive(c)
    PROVE  Types'
<1> DEFINE m == Head(down[c])
<1>1. /\ client \in [Clients -> PlayerStates] /\ client[c] \in PlayerStates
      /\ up \in [Clients -> Seq(UpMsg)] /\ down \in [Clients -> Seq(Messages)] /\ left \in Lefts
  BY DEF Types
<1>2. /\ down[c] # <<>> /\ down' = [down EXCEPT ![c] = Tail(@)]
      /\ UNCHANGED <<host, conn, gone>> /\ m \in Messages
  BY ReceiveEffect
<1>3. down' \in [Clients -> Seq(Messages)]
  BY <1>1, <1>2, HeadIn
<1> DEFINE Kept == client' \in [Clients -> PlayerStates] /\ up' \in [Clients -> Seq(UpMsg)]
                   /\ left' \in Lefts
<1>4. Kept
  <2>1. ASSUME m.kind = "welcome", TakesUpWelcome(c, m.slot)
        PROVE  Kept
    <3>1. m.slot \in Slots
      BY <1>2, <2>1, MessageKinds
    <3> DEFINE i == m.slot
               s == [client[c] EXCEPT !.status = "playing"]
    <3>2. s \in PlayerStates
      BY <1>1, PlayerMade
    <3>3. [s EXCEPT !.slot = i] \in PlayerStates
      <4> HIDE DEF s
      <4> QED
        BY <3>1, <3>2, PlayerMade
    <3>4. client' = [client EXCEPT ![c] = [s EXCEPT !.slot = i]]
      BY <2>1 DEF TakesUpWelcome
    <3>5. client' \in [Clients -> PlayerStates]
      BY <1>1, <3>3, <3>4
    <3>6. up[c] \o <<Announce(i), Announce(i)>> \in Seq(UpMsg)
      BY <1>1, <3>1, UpMade, AppendIn
    <3>7. up' \in [Clients -> Seq(UpMsg)]
      BY <1>1, <2>1, <3>6 DEF TakesUpWelcome
    <3>8. left' \in Lefts
      <4>1. left.odd \cup {"late"} \in SUBSET {"late", "over"}
        BY <1>1 DEF Lefts
      <4> QED
        BY <1>1, <2>1, <4>1, LeftMade DEF TakesUpWelcome
    <3> QED
      BY <3>5, <3>7, <3>8
  <2>2. ASSUME client' = [client EXCEPT ![c] = Reads(client[c], m)], UNCHANGED <<up, left>>
        PROVE  Kept
    <3>1. Reads(client[c], m) \in PlayerStates
      BY <1>1, <1>2, ReadsEffect
    <3> QED
      BY <1>1, <2>2, <3>1
  <2> QED
    BY <2>1, <2>2, ReceiveEffect
<1> QED
  BY <1>2, <1>3, <1>4 DEF Types, host

LEMMA PlayerTyped ==
    ASSUME Types, LevelInv, NEW c \in Clients,
           AskToJoin(c) \/ Play(c) \/ GoesAway(c) \/ NextLevel(c) \/ HostIsGone(c)
    PROVE  Types'
<1>1. /\ client \in [Clients -> PlayerStates] /\ client[c] \in PlayerStates
      /\ up \in [Clients -> Seq(UpMsg)] /\ down \in [Clients -> Seq(Messages)]
      /\ level \in 1 .. MaxLevels /\ MaxLevels \in Nat
  BY MultiAssumption DEF Types
<1>2. CASE AskToJoin(c)
  <2>1. client[c].level \in 1 .. MaxLevels + 1
    <3>1. client[c].level \in 1 .. level + 1
      BY <1>2 DEF AskToJoin, LevelInv
    <3> QED
      BY <1>1, <3>1
  <2>2. Append(up[c], Request(client[c].level)) \in Seq(UpMsg)
    BY <1>1, <2>1, UpMade, AppendIn
  <2>3. up' \in [Clients -> Seq(UpMsg)]
    BY <1>1, <1>2, <2>2 DEF AskToJoin
  <2> QED
    BY <1>2, <2>3 DEF AskToJoin, Types, host
<1>3. CASE Play(c)
  <2>1. Append(up[c], Pos) \in Seq(UpMsg)
    BY <1>1, UpMade, AppendIn
  <2>2. up' \in [Clients -> Seq(UpMsg)]
    BY <1>1, <1>3, <2>1 DEF Play
  <2> QED
    BY <1>3, <2>2 DEF Play, Types, host
<1>4. CASE GoesAway(c) \/ HostIsGone(c)
  <2>1. [client[c] EXCEPT !.status = "leaving"] \in PlayerStates
    BY <1>1, PlayerMade
  <2>2. client' = [client EXCEPT ![c] = [client[c] EXCEPT !.status = "leaving"]]
    BY <1>4 DEF GoesAway, HostIsGone
  <2>3. client' \in [Clients -> PlayerStates]
    BY <1>1, <2>1, <2>2
  <2>4. UNCHANGED <<host, conn, up, down, gone, left>>
    BY <1>4 DEF GoesAway, HostIsGone
  <2> QED
    BY <2>3, <2>4 DEF Types, host
<1>5. CASE NextLevel(c)
  <2> DEFINE s == [Out EXCEPT !.status = "joining", !.level = client[c].level + 1,
                              !.knows = client[c].knows, !.first = client[c].first]
  <2>1. client[c].level + 1 \in 0 .. MaxLevels + 1
    <3>1. client[c].status = "playing"
      BY <1>5 DEF NextLevel
    <3>2. client[c].level \in 1 .. level + 1 /\ ~(client[c].level > level)
      BY <3>1 DEF LevelInv, Playing
    <3> QED
      BY <1>1, <3>2
  <2>2. client[c].knows \in BOOLEAN /\ client[c].first \in BOOLEAN
    BY <1>1 DEF PlayerStates
  <2>3. s \in PlayerStates
    BY <2>1, <2>2, Beginners
  <2>4. client' = [client EXCEPT ![c] = s]
    BY <1>5 DEF NextLevel
  <2> HIDE DEF s
  <2>5. client' \in [Clients -> PlayerStates]
    BY <1>1, <2>3, <2>4
  <2>6. down' \in [Clients -> Seq(Messages)]
    <3>1. <<>> \in Seq(Messages)
      OBVIOUS
    <3> QED
      BY <1>1, <1>5, <3>1 DEF NextLevel
  <2>7. UNCHANGED <<host, conn, up, gone, left>>
    BY <1>5 DEF NextLevel
  <2> QED
    BY <2>5, <2>6, <2>7 DEF Types, host
<1> QED
  BY <1>2, <1>3, <1>4, <1>5

LEMMA TypesKept ==
    ASSUME Types, ConnInv, LevelInv, [Next]_vars
    PROVE  Types'
<1>1. CASE UNCHANGED vars
  BY <1>1 DEF Types, vars, host
<1>2. ASSUME NEW c \in Clients, Connect(c)
      PROVE  Types'
  BY <1>2, ConnectTyped
<1>3. ASSUME NEW c \in Clients, Leave(c) \/ Vanish(c)
      PROVE  Types'
  BY <1>3, ClosedTyped DEF Leave, Vanish
<1>4. ASSUME NEW c \in Clients, HostReceive(c)
      PROVE  Types'
  BY <1>4, HostReceiveTyped
<1>5. CASE SyncStep
  BY <1>5, SyncStepTyped
<1>6. ASSUME NEW c \in Clients, ClientReceive(c)
      PROVE  Types'
  BY <1>6, ReceiveTyped
<1>7. ASSUME NEW c \in Clients,
             AskToJoin(c) \/ Play(c) \/ GoesAway(c) \/ NextLevel(c) \/ HostIsGone(c)
      PROVE  Types'
  BY <1>7, PlayerTyped
<1> QED
  BY <1>1, <1>2, <1>3, <1>4, <1>5, <1>6, <1>7, HostEventTyped DEF Next, Transport, Host, Player

-----------------------------------------------------------------------------
(* What the steps do, as far as the invariants can tell                      *)

\* A message of a player is read by the host.
ReadsUp(c) ==
    /\ mode = "game" /\ gone = <<>> /\ up[c] # <<>>
    /\ up' = [up EXCEPT ![c] = Tail(@)]
    /\ UNCHANGED <<frame, ending, destroyed, mode, level, conn, gone, left>>
TookUp(c) ==
    /\ ReadsUp(c) /\ Head(up[c]).kind = "joinrequest"
    /\ TakesUp(conn[c], Head(up[c]).level)
    /\ slot' = [slot EXCEPT ![FirstFree] = Free]
    /\ join' = [active |-> TRUE, to |-> conn[c], idx |-> FirstFree, stage |-> 2, cursor |-> 0]
    /\ Told(down, down')
    /\ client' = IF client[c].owed = {} THEN [client EXCEPT ![c].owed = WorldNow] ELSE client
Rewelcomed(c) ==
    /\ ReadsUp(c) /\ Head(up[c]).kind = "joinrequest"
    /\ Head(up[c]).level = level /\ InList(conn[c])
    /\ down' = Sent(down, conn[c], <<Welcome(SlotOf(conn[c]))>>)
    /\ UNCHANGED <<slot, join, client>>
HeardOf(c, i) ==
    /\ ReadsUp(c) /\ Head(up[c]).kind = "announce" /\ Head(up[c]).slot = i /\ i \in Slots
    /\ slot' = IF slot[i].joined THEN slot ELSE [slot EXCEPT ![i] = [net |-> conn[c], joined |-> TRUE]]
    /\ UNCHANGED <<join, down, client>>
Refused(c) == ReadsUp(c) /\ Told(down, down') /\ UNCHANGED <<slot, join, client>>

LEMMA HostReceiveEffect ==
    ASSUME Types, ConnInv, NEW c \in Clients, HostReceive(c)
    PROVE  TookUp(c) \/ Rewelcomed(c) \/ (\E i \in Slots : HeardOf(c, i)) \/ Refused(c)
<1> DEFINE m == Head(up[c])
           id == conn[c]
<1>1. up[c] # <<>> /\ m \in UpMsg /\ down \in [Clients -> Seq(Messages)]
  BY HeadIn DEF Types, HostReceive
<1>2. ReadsUp(c)
  BY DEF ReadsUp, HostReceive, HostReceives, HostRuns, Handle
<1>3. CASE m.kind = "joinrequest"
  <2>1. /\ ProcessJoinRequest(id, m.level)
        /\ client' = IF TakesUp(id, m.level) /\ client[c].owed = {}
                     THEN [client EXCEPT ![c].owed = WorldNow] ELSE client
    BY <1>3 DEF HostReceive, Handle
  <2>2. CASE TakesUp(id, m.level)
    <3>1. /\ slot' = [slot EXCEPT ![FirstFree] = Free]
          /\ join' = [active |-> TRUE, to |-> id, idx |-> FirstFree, stage |-> 2, cursor |-> 0]
          /\ down' = Sent(down, id, <<Joining(0), LeaveJoin>>)
      BY <2>1, <2>2 DEF ProcessJoinRequest
    <3>2. Told(down, Sent(down, id, <<Joining(0), LeaveJoin>>))
      BY <1>1, Answers, ToldSent
    <3> QED
      BY <1>2, <1>3, <2>1, <2>2, <3>1, <3>2 DEF TookUp
  <2>3. CASE ~TakesUp(id, m.level)
    <3>1. /\ down' = Sent(down, id, Refusal(id, m.level))
          /\ UNCHANGED <<slot, join, client>>
      BY <2>1, <2>3 DEF ProcessJoinRequest
    <3>2. CASE m.level = level /\ InList(id)
      <4>1. Refusal(id, m.level) = <<Welcome(SlotOf(id))>>
        BY <3>2 DEF Refusal
      <4> QED
        BY <1>2, <1>3, <3>1, <3>2, <4>1 DEF Rewelcomed
    <3>3. CASE ~(m.level = level /\ InList(id))
      <4>1. \E code \in {0, 1, 3, 5, 6} : Refusal(id, m.level) = <<Joining(code)>>
        BY <3>3 DEF Refusal
      <4>2. Told(down, down')
        BY <1>1, <3>1, <4>1, Answers, ToldSent
      <4> QED
        BY <1>2, <3>1, <4>2 DEF Refused
    <3> QED
      BY <3>2, <3>3
  <2> QED
    BY <2>2, <2>3
<1>4. CASE m.kind = "announce"
  <2>1. Announced(m.slot, id) /\ UNCHANGED <<join, down, client>>
    BY <1>4 DEF HostReceive, Handle
  <2>2. m.slot \in Slots
    BY <1>1, <1>4, UpKinds
  <2>3. HeardOf(c, m.slot)
    BY <1>2, <1>4, <2>1, <2>2 DEF HeardOf, Announced
  <2> QED
    BY <2>2, <2>3
<1>5. CASE m.kind = "pos"
  <2>1. down' = EjectStranger(down, id) /\ UNCHANGED <<slot, join, syncScores, client>>
    BY <1>5 DEF HostReceive, Handle
  <2>2. Told(down, down')
    BY <1>1, <2>1, Answers, ToldSent, ToldSame DEF EjectStranger
  <2> QED
    BY <1>2, <2>1, <2>2 DEF Refused
<1> QED
  BY <1>1, <1>3, <1>4, <1>5, UpKinds

\* The steps of the host that leave the list of players and the players alone, and
\* welcome nobody.
Quiet ==
    /\ UNCHANGED <<slot, conn, client, level>>
    /\ Told(down, down')
    /\ destroyed' >= destroyed
    /\ left'.odd = left.odd /\ left'.given = left.given
    /\ join'.active => join.active /\ join'.to = join.to /\ join'.idx = join.idx
    /\ join'.to \in {join.to, NoId}
    /\ gone' = gone \/ gone' = <<>>
    /\ mode' = "game" => mode = "game" /\ gone' = gone
    /\ \A c \in Clients : up'[c] = up[c] \/ up'[c] = <<>>
                          \/ (up[c] # <<>> /\ up'[c] = Tail(up[c]))

LEMMA QuietEvents ==
    ASSUME Types,
           \/ FreeThing \/ ScoresDue \/ SendScores \/ EndsLevel \/ AbortJoin
           \/ LevelOver \/ HostLeaves
           \/ (\E k \in 1 .. FrameSteps : BeginSteps(k))
           \/ (\E c \in Clients : Refused(c))
    PROVE  Quiet /\ (join'.active => join' = join)
<1>1. /\ down \in [Clients -> Seq(Messages)] /\ join \in JoinStates
      /\ left \in Lefts /\ destroyed \in Nat /\ up \in [Clients -> Seq(UpMsg)]
  BY MultiAssumption DEF Types
<1>2. Told(down, down) /\ Told(down, GivesUpJoin(down))
      /\ Told(down, SentToJoined(down, <<LeaveJoin>>)) /\ Told(down, SentToJoined(down, <<EndLevel>>))
  BY <1>1, Answers, ToldSame, ToldGivesUp, ToldJoined
<1>3. ~NoSync.active /\ NoSync.to = NoId
  BY <1>1, NoSyncTyped
<1>4. CASE FreeThing
  BY <1>1, <1>2, <1>4 DEF FreeThing, Quiet, Lefts
<1>5. CASE ScoresDue \/ HostLeaves \/ \E k \in 1 .. FrameSteps : BeginSteps(k)
  BY <1>1, <1>2, <1>5 DEF ScoresDue, HostLeaves, BeginSteps, Quiet
<1>6. CASE SendScores
  BY <1>1, <1>2, <1>6 DEF SendScores, Quiet
<1>7. CASE EndsLevel
  BY <1>1, <1>2, <1>7 DEF EndsLevel, Quiet
<1>8. CASE AbortJoin
  BY <1>1, <1>2, <1>3, <1>8 DEF AbortJoin, Quiet
<1>9. CASE LevelOver
  BY <1>1, <1>2, <1>3, <1>9 DEF LevelOver, Quiet
<1>10. ASSUME NEW c \in Clients, Refused(c)
       PROVE  Quiet /\ (join'.active => join' = join)
  BY <1>1, <1>10 DEF Refused, ReadsUp, Quiet
<1> QED
  BY <1>4, <1>5, <1>6, <1>7, <1>8, <1>9, <1>10

\* The last step of a transfer that is one.
Gives ==
    /\ mode = "game" /\ join.stage = 4 /\ join.active
    /\ UNCHANGED <<destroyed, mode, level, conn, up, gone, client, left>>
    /\ slot' = [slot EXCEPT ![join.idx].net = join.to]
    /\ join' = NoSync
    /\ \E snap \in Seq(Messages), cursor \in Nat :
          /\ Welcomes(snap) = {} /\ cursor >= destroyed
          /\ \A n \in 1 .. cursor : n <= join.cursor \/ Destroyed(n) \in Items(snap)
          /\ down' = Sent(down, join.to, snap \o <<LeaveJoin, Welcome(join.idx)>>)

\* A step of a transfer that is not the last: what it sends, and how far it is then.
Goes(items) ==
    /\ mode = "game" /\ UNCHANGED <<destroyed, mode, level, conn, up, gone, client, left, slot>>
    /\ \E snap \in Seq(Messages) : /\ Welcomes(snap) = {} /\ items \subseteq Items(snap)
                                   /\ down' = Sent(down, join.to, snap)
    /\ join'.active = join.active /\ join'.to = join.to /\ join'.idx = join.idx
    /\ Swept(join'.stage, join'.cursor) \subseteq Swept(join.stage, join.cursor) \cup items

\* The loop of a frame goes on to a second last stage, for nobody.
Overruns ==
    /\ mode = "game" /\ ~join.active
    /\ UNCHANGED <<destroyed, mode, level, conn, up, gone, client>>
    /\ slot' = [slot EXCEPT ![join.idx].net = join.to]
    /\ join' = NoSync
    /\ left' = [left EXCEPT !.odd = left.odd \cup {"over"}]
    /\ \E s \in Seq(Messages) : down' = Sent(down, join.to, s)

LEMMA SweptSurfaces ==
    ASSUME NEW cursor \in Nat
    PROVE  /\ Ahead(Surfaces, cursor) = {} => Swept(1, 0) \subseteq Swept(2, cursor)
           /\ \A x \in Surfaces : (\A z \in Surfaces : z >= cursor => x <= z) =>
                 /\ Swept(2, x + 1) \subseteq Swept(2, cursor) \cup {<<"surface", x>>}
                 /\ x + 1 >= NumSurfaces => Swept(1, 0) \subseteq Swept(2, cursor) \cup {<<"surface", x>>}
<1>1. Surfaces \subseteq Nat /\ \A z \in Surfaces : z < NumSurfaces
  BY MultiAssumption
<1>2. /\ Swept(1, 0) = {<<"surface", n>> : n \in Surfaces}
      /\ \A k : Swept(2, k) = {<<"surface", n>> : n \in {m \in Surfaces : m < k}}
  <2>1. 1 .. 0 = {} /\ \A m \in Sectors : ~(m < 0)
    BY MultiAssumption
  <2> QED
    BY <2>1 DEF Swept
<1>3. Ahead(Surfaces, cursor) = {} => Swept(1, 0) \subseteq Swept(2, cursor)
  BY <1>1, <1>2 DEF Ahead
<1>4. ASSUME NEW x \in Surfaces, \A z \in Surfaces : z >= cursor => x <= z
      PROVE  /\ Swept(2, x + 1) \subseteq Swept(2, cursor) \cup {<<"surface", x>>}
             /\ x + 1 >= NumSurfaces => Swept(1, 0) \subseteq Swept(2, cursor) \cup {<<"surface", x>>}
  <2>1. \A z \in Surfaces : z < x + 1 => z < cursor \/ z = x
    BY <1>1, <1>4
  <2>2. x + 1 >= NumSurfaces => \A z \in Surfaces : z < x + 1
    BY <1>1, MultiAssumption
  <2> QED
    BY <1>2, <2>1, <2>2
<1> QED
  BY <1>3, <1>4

LEMMA SweptSectors ==
    ASSUME NEW cursor \in Nat
    PROVE  /\ Ahead(Sectors, cursor) = {} => Swept(3, 0) \subseteq Swept(1, cursor)
           /\ \A x \in Sectors : (\A z \in Sectors : z >= cursor => x <= z) =>
                 /\ Swept(1, x + 1) \subseteq Swept(1, cursor) \cup {<<"sector", x>>}
                 /\ x + 1 >= NumSectors => Swept(3, 0) \subseteq Swept(1, cursor) \cup {<<"sector", x>>}
<1>1. Sectors \subseteq Nat /\ \A z \in Sectors : z < NumSectors
  BY MultiAssumption
<1> DEFINE before == {<<"surface", n>> : n \in Surfaces}
<1>2. /\ Swept(3, 0) = before \cup {<<"sector", n>> : n \in Sectors}
      /\ \A k : Swept(1, k) = before \cup {<<"sector", n>> : n \in {m \in Sectors : m < k}}
  <2>1. 1 .. 0 = {}
    OBVIOUS
  <2> QED
    BY <2>1 DEF Swept
<1> HIDE DEF before
<1>3. Ahead(Sectors, cursor) = {} => Swept(3, 0) \subseteq Swept(1, cursor)
  BY <1>1, <1>2 DEF Ahead
<1>4. ASSUME NEW x \in Sectors, \A z \in Sectors : z >= cursor => x <= z
      PROVE  /\ Swept(1, x + 1) \subseteq Swept(1, cursor) \cup {<<"sector", x>>}
             /\ x + 1 >= NumSectors => Swept(3, 0) \subseteq Swept(1, cursor) \cup {<<"sector", x>>}
  <2>1. \A z \in Sectors : z < x + 1 => z < cursor \/ z = x
    BY <1>1, <1>4
  <2>2. x + 1 >= NumSectors => \A z \in Sectors : z < x + 1
    BY <1>1, MultiAssumption
  <2> QED
    BY <1>2, <2>1, <2>2
<1> QED
  BY <1>3, <1>4

LEMMA SweptThings ==
    /\ Swept(4, 0) \subseteq Swept(3, 0) \cup {<<"thing", n>> : n \in Things}
    /\ \A k : Swept(3, k) = Swept(3, 0)
    /\ \A k \in Nat :
          Swept(4, k) = World \cup {Destroyed(n) : n \in 1 .. k}
<1>1. 1 .. 0 = {}
  OBVIOUS
<1> QED
  BY <1>1 DEF Swept, World

LEMMA SyncEffect ==
    ASSUME Types, SyncStep
    PROVE  (\E items : Goes(items)) \/ Gives \/ Overruns
<1>1. /\ join \in JoinStates /\ join.cursor \in Nat /\ destroyed \in 0 .. ListSize
      /\ join.stage \in 1 .. 4
  BY DEF Types, JoinStates
<1>2. mode = "game" /\ UNCHANGED <<ending, destroyed, mode, level, conn, up, gone, client>>
  BY DEF SyncStep
<1>3. Surfaces \in SUBSET Nat /\ Sectors \in SUBSET Nat /\ NumSurfaces \in Nat /\ NumSectors \in Nat
  BY MultiAssumption
<1>4. \A x \in 1 .. 4, y \in Nat :
          /\ [join EXCEPT !.stage = x, !.cursor = y].active = join.active
          /\ [join EXCEPT !.stage = x, !.cursor = y].to = join.to
          /\ [join EXCEPT !.stage = x, !.cursor = y].idx = join.idx
          /\ [join EXCEPT !.stage = x, !.cursor = y].stage = x
          /\ [join EXCEPT !.stage = x, !.cursor = y].cursor = y
          /\ [join EXCEPT !.cursor = y].active = join.active
          /\ [join EXCEPT !.cursor = y].to = join.to
          /\ [join EXCEPT !.cursor = y].idx = join.idx
          /\ [join EXCEPT !.cursor = y].stage = join.stage
          /\ [join EXCEPT !.cursor = y].cursor = y
  BY <1>1 DEF JoinStates
<1>5. 1 \in 1 .. 4 /\ 3 \in 1 .. 4 /\ 4 \in 1 .. 4 /\ 0 \in Nat
  OBVIOUS
<1>6. ASSUME NEW items \in SUBSET Pieces, NEW x \in 1 .. 4, NEW y \in Nat,
             UNCHANGED <<slot, left>>,
             down' = Sent(down, join.to, <<Snap(items)>>)
             \/ (down' = down /\ items = {}),
             \/ join' = [join EXCEPT !.stage = x, !.cursor = y]
             \/ join.stage = x /\ join' = [join EXCEPT !.cursor = y],
             Swept(x, y) \subseteq Swept(join.stage, join.cursor) \cup items
      PROVE  Goes(items)
  <2>1. /\ join'.active = join.active /\ join'.to = join.to /\ join'.idx = join.idx
        /\ join'.stage = x /\ join'.cursor = y
    <3>1. CASE join' = [join EXCEPT !.stage = x, !.cursor = y]
      BY <1>4, <3>1
    <3>2. CASE join.stage = x /\ join' = [join EXCEPT !.cursor = y]
      BY <1>4, <3>2
    <3> QED
      BY <1>6, <3>1, <3>2
  <2>2. \E snap \in Seq(Messages) : /\ Welcomes(snap) = {} /\ items \subseteq Items(snap)
                                    /\ down' = Sent(down, join.to, snap)
    <3>1. CASE down' = Sent(down, join.to, <<Snap(items)>>)
      <4>1. <<Snap(items)>> \in Seq(Messages) /\ Welcomes(<<Snap(items)>>) = {}
        BY Answers
      <4>2. Items(<<Snap(items)>>) = items
        BY ItemsOne, MessagesMade
      <4> QED
        BY <3>1, <4>1, <4>2
    <3>2. CASE down' = down /\ items = {}
      <4>1. <<>> \in Seq(Messages) /\ Welcomes(<<>>) = {}
        BY SlottedNone DEF Welcomes
      <4>2. Sent(down, join.to, <<>>) = down
        BY DEF Sent, Types
      <4> QED
        BY <3>2, <4>1, <4>2
    <3> QED
      BY <1>6, <3>1, <3>2
  <2> QED
    BY <1>2, <1>6, <2>1, <2>2 DEF Goes
<1>7. CASE SweepStep(2, Surfaces, NumSurfaces, "surface", 1)
  <2>1. Sweeps(Surfaces, NumSurfaces, 2, "surface", 1)
    BY <1>1, <1>3, <1>7, SweepEffect
  <2>2. join.stage = 2 /\ UNCHANGED <<slot, left>>
    BY <2>1 DEF Sweeps
  <2>3. CASE SweepEnds(Surfaces, 1)
    <3>1. /\ Ahead(Surfaces, join.cursor) = {} /\ down' = down
          /\ join' = [join EXCEPT !.stage = 1, !.cursor = 0]
      BY <2>3 DEF SweepEnds
    <3>2. Swept(1, 0) \subseteq Swept(2, join.cursor) \cup {}
      BY <1>1, <3>1, SweptSurfaces
    <3>3. Goes({})
      BY <1>5, <1>6, <2>2, <3>1, <3>2
    <3> QED
      BY <3>3
  <2>4. ASSUME NEW x \in Surfaces, SweepSends(Surfaces, NumSurfaces, "surface", 1, x)
        PROVE  Goes({<<"surface", x>>})
    <3>1. /\ \A z \in Surfaces : z >= join.cursor => x <= z
          /\ down' = Sent(down, join.to, <<Snap({<<"surface", x>>})>>)
          /\ \/ x + 1 >= NumSurfaces /\ join' = [join EXCEPT !.stage = 1, !.cursor = 0]
             \/ join' = [join EXCEPT !.cursor = x + 1]
      BY <2>4 DEF SweepSends
    <3>2. /\ Swept(2, x + 1) \subseteq Swept(2, join.cursor) \cup {<<"surface", x>>}
          /\ x + 1 >= NumSurfaces => Swept(1, 0) \subseteq Swept(2, join.cursor) \cup {<<"surface", x>>}
      BY <1>1, <3>1, SweptSurfaces
    <3>3. x + 1 \in Nat /\ 2 \in 1 .. 4 /\ {<<"surface", x>>} \in SUBSET Pieces
      BY <1>3, PieceKinds
    <3> QED
      BY <1>5, <1>6, <2>2, <3>1, <3>2, <3>3
  <2> QED
    BY <2>1, <2>3, <2>4, PieceKinds DEF Sweeps
<1>8. CASE SweepStep(1, Sectors, NumSectors, "sector", 3)
  <2>1. Sweeps(Sectors, NumSectors, 1, "sector", 3)
    BY <1>1, <1>3, <1>8, SweepEffect
  <2>2. join.stage = 1 /\ UNCHANGED <<slot, left>>
    BY <2>1 DEF Sweeps
  <2>3. CASE SweepEnds(Sectors, 3)
    <3>1. /\ Ahead(Sectors, join.cursor) = {} /\ down' = down
          /\ join' = [join EXCEPT !.stage = 3, !.cursor = 0]
      BY <2>3 DEF SweepEnds
    <3>2. Swept(3, 0) \subseteq Swept(1, join.cursor) \cup {}
      BY <1>1, <3>1, SweptSectors
    <3>3. Goes({})
      BY <1>5, <1>6, <2>2, <3>1, <3>2
    <3> QED
      BY <3>3
  <2>4. ASSUME NEW x \in Sectors, SweepSends(Sectors, NumSectors, "sector", 3, x)
        PROVE  Goes({<<"sector", x>>})
    <3>1. /\ \A z \in Sectors : z >= join.cursor => x <= z
          /\ down' = Sent(down, join.to, <<Snap({<<"sector", x>>})>>)
          /\ \/ x + 1 >= NumSectors /\ join' = [join EXCEPT !.stage = 3, !.cursor = 0]
             \/ join' = [join EXCEPT !.cursor = x + 1]
      BY <2>4 DEF SweepSends
    <3>2. /\ Swept(1, x + 1) \subseteq Swept(1, join.cursor) \cup {<<"sector", x>>}
          /\ x + 1 >= NumSectors => Swept(3, 0) \subseteq Swept(1, join.cursor) \cup {<<"sector", x>>}
      BY <1>1, <3>1, SweptSectors
    <3>3. x + 1 \in Nat /\ {<<"sector", x>>} \in SUBSET Pieces
      BY <1>3, PieceKinds
    <3> QED
      BY <1>5, <1>6, <2>2, <3>1, <3>2, <3>3
  <2> QED
    BY <2>1, <2>3, <2>4, PieceKinds DEF Sweeps
<1>9. CASE ThingStep
  <2> DEFINE things == {<<"thing", n>> : n \in Things}
  <2>1. /\ join.stage = 3 /\ UNCHANGED <<slot, left>>
        /\ down' = Sent(down, join.to, <<Snap(things)>>)
        /\ join' = [join EXCEPT !.stage = 4, !.cursor = 0]
    BY <1>9 DEF ThingStep
  <2>2. Swept(4, 0) \subseteq Swept(join.stage, join.cursor) \cup things
    BY <1>1, <2>1, SweptThings
  <2>3. things \in SUBSET Pieces
    BY PieceKinds
  <2> HIDE DEF things
  <2> QED
    BY <1>5, <1>6, <2>1, <2>2, <2>3
<1>10. CASE LastStep
  <2>1. join.stage = 4
    BY <1>1, <1>10, LastEffect
  <2>2. PICK snap \in Seq(Messages), cursor \in Nat :
                 /\ Welcomes(snap) = {} /\ cursor \in {join.cursor, join.cursor + 1}
                 /\ \A n \in 1 .. cursor : n <= join.cursor \/ Destroyed(n) \in Items(snap)
                 /\ \/ /\ cursor >= destroyed
                       /\ slot' = [slot EXCEPT ![join.idx].net = join.to]
                       /\ down' = Sent(down, join.to, snap \o <<LeaveJoin, Welcome(join.idx)>>)
                       /\ join' = NoSync /\ syncScores' = TRUE
                       /\ left' = IF join.active THEN left
                                  ELSE [left EXCEPT !.odd = left.odd \cup {"over"}]
                    \/ /\ down' = Sent(down, join.to, snap)
                       /\ join' = [join EXCEPT !.cursor = cursor]
                       /\ UNCHANGED <<slot, syncScores, left>>
    BY <1>1, <1>10, LastEffect
  <2>3. CASE /\ cursor >= destroyed
             /\ slot' = [slot EXCEPT ![join.idx].net = join.to]
             /\ down' = Sent(down, join.to, snap \o <<LeaveJoin, Welcome(join.idx)>>)
             /\ join' = NoSync
             /\ left' = IF join.active THEN left
                        ELSE [left EXCEPT !.odd = left.odd \cup {"over"}]
    <3>1. CASE join.active
      BY <1>2, <2>1, <2>2, <2>3, <3>1 DEF Gives
    <3>2. CASE ~join.active
      <4>1. <<LeaveJoin, Welcome(join.idx)>> \in Seq(Messages)
        BY <1>1, Answers DEF JoinStates
      <4>2. snap \o <<LeaveJoin, Welcome(join.idx)>> \in Seq(Messages)
        BY <4>1
      <4> QED
        BY <1>2, <2>3, <3>2, <4>2 DEF Overruns
    <3> QED
      BY <3>1, <3>2
  <2>4. CASE /\ down' = Sent(down, join.to, snap)
             /\ join' = [join EXCEPT !.cursor = cursor]
             /\ UNCHANGED <<slot, left>>
    <3>1. join'.active = join.active /\ join'.to = join.to /\ join'.idx = join.idx
          /\ join'.stage = 4 /\ join'.cursor = cursor
      BY <1>4, <2>1, <2>4
    <3>2. Swept(4, cursor) \subseteq Swept(4, join.cursor) \cup Items(snap)
      <4>1. \A n \in 1 .. cursor : n \in 1 .. join.cursor \/ Destroyed(n) \in Items(snap)
        BY <1>1, <2>2
      <4>2. /\ Swept(4, cursor) = World \cup {Destroyed(n) : n \in 1 .. cursor}
            /\ Swept(4, join.cursor) = World \cup {Destroyed(n) : n \in 1 .. join.cursor}
        BY <1>1, SweptThings
      <4> QED
        BY <4>1, <4>2
    <3>3. Goes(Items(snap))
      BY <1>2, <2>1, <2>2, <2>4, <3>1, <3>2 DEF Goes
    <3> QED
      BY <3>3
  <2> QED
    BY <2>2, <2>3, <2>4
<1> QED
  BY <1>7, <1>8, <1>9, <1>10 DEF SyncStep

-----------------------------------------------------------------------------
(* Connections, levels and ids                                               *)

Known(id) ==
    \/ id = NoId
    \/ \E c \in Clients : conn[c] = id
    \/ \E i \in Slots : slot[i].net = id
    \/ join.to = id
    \/ InGone(id)

\* A player stays connected and in its level, and asks for no other.
Calm(c) ==
    /\ client'[c].level = client[c].level
    /\ client'[c].status = "out" <=> client[c].status = "out"
    /\ \/ client'[c].owed = client[c].owed
       \/ mode = "game" /\ client[c].level = level /\ client'[c].owed = WorldNow
    /\ mode = "game" \/ Welcomes(down'[c]) \subseteq Welcomes(down[c])
    /\ \A l \in Asked(up'[c]) : l \in Asked(up[c]) \/ l = client[c].level
    /\ client'[c].status = "playing" =>
          (Playing(c) \/ Welcomes(down[c]) # {}) /\ Backed(up'[c])
    /\ conn[c] = NoId => up'[c] = <<>> /\ down'[c] = <<>>

\* Every player does, and so does the host.
Steady ==
    /\ UNCHANGED <<conn, level>> /\ destroyed' >= destroyed
    /\ mode' = "game" => mode = "game"
    /\ left'.given = left.given
    /\ \A i \in Slots : Known(slot'[i].net)
    /\ Known(join'.to)
    /\ \A k \in DOMAIN gone' : InGone(gone'[k])
    /\ \A c \in Clients : Calm(c)

LEMMA KnownIsGiven ==
    ASSUME Types, GivenInv, NEW id, Known(id)
    PROVE  id <= left.given
<1>1. left.given \in Nat
  BY DEF Types, Lefts
<1>2. CASE id = NoId
  BY <1>1, <1>2 DEF NoId
<1>3. CASE \E k \in DOMAIN gone : gone[k] = id
  BY <1>3 DEF GivenInv
<1> QED
  BY <1>2, <1>3 DEF Known, GivenInv, InGone

LEMMA WorldGrows ==
    ASSUME Types, Types', destroyed' >= destroyed
    PROVE  WorldNow \subseteq WorldNow'
<1>1. destroyed \in Nat /\ destroyed' \in Nat
  BY MultiAssumption DEF Types
<1>2. 1 .. destroyed \subseteq 1 .. destroyed'
  BY <1>1
<1> QED
  BY <1>2 DEF WorldNow

LEMMA SteadyKeeps ==
    ASSUME Types, Types', ConnInv, LevelInv, GivenInv, Steady
    PROVE  ConnInv' /\ LevelInv' /\ GivenInv'
<1>1. ConnInv'
  BY DEF ConnInv, Steady, Calm
<1>2. GivenInv'
  <2>1. conn' = conn /\ left'.given = left.given
    BY DEF Steady
  <2>2. \A c \in Clients : conn[c] <= left.given
    BY DEF GivenInv
  <2>3. \A i \in Slots : slot'[i].net <= left.given
    BY KnownIsGiven DEF Steady
  <2>4. join'.to <= left.given
    BY KnownIsGiven DEF Steady
  <2>5. \A k \in DOMAIN gone' : gone'[k] <= left.given
    BY DEF Steady, InGone, GivenInv
  <2> QED
    BY <2>1, <2>2, <2>3, <2>4, <2>5 DEF GivenInv
<1>3. WorldNow \subseteq WorldNow'
  BY WorldGrows DEF Steady
<1>4. ASSUME NEW c \in Clients
      PROVE  /\ IF client'[c].status = "out" THEN client'[c].level = 0
                ELSE client'[c].level \in 1 .. level' + 1
             /\ client'[c].level > level' => /\ mode' # "game" /\ ~Playing(c)'
                                             /\ Welcomes(down'[c]) = {} /\ client'[c].owed = {}
             /\ client'[c].level >= level' => client'[c].owed \subseteq WorldNow'
             /\ \A l \in Asked(up'[c]) : l <= client'[c].level
             /\ Playing(c)' => Backed(up'[c])
  <2>1. Calm(c) /\ level' = level /\ (mode' = "game" => mode = "game")
    BY DEF Steady
  <2>2. client[c].level \in Nat /\ level \in Nat
    BY MultiAssumption DEF Types, PlayerStates
  <2>3. /\ client'[c].level = client[c].level
        /\ IF client'[c].status = "out" THEN client'[c].level = 0
           ELSE client'[c].level \in 1 .. level' + 1
    BY <2>1 DEF Calm, LevelInv
  <2>4. ASSUME client[c].level > level
        PROVE  mode' # "game" /\ ~Playing(c)' /\ Welcomes(down'[c]) = {} /\ client'[c].owed = {}
    <3>1. mode # "game" /\ ~Playing(c) /\ Welcomes(down[c]) = {} /\ client[c].owed = {}
      BY <2>4 DEF LevelInv
    <3> QED
      BY <2>1, <3>1 DEF Calm, Playing
  <2>5. client[c].level >= level => client'[c].owed \subseteq WorldNow'
    BY <1>3, <2>1 DEF Calm, LevelInv
  <2>6. \A l \in Asked(up'[c]) : l <= client'[c].level
    BY <2>1, <2>2 DEF Calm, LevelInv
  <2>7. Playing(c)' => Backed(up'[c])
    BY <2>1 DEF Calm, Playing
  <2> QED
    BY <2>1, <2>3, <2>4, <2>5, <2>6, <2>7
<1>5. LevelInv'
  BY <1>4 DEF LevelInv
<1> QED
  BY <1>1, <1>2, <1>5

\* The host reads a message, or all of them are lost.
Shrinks(c) == up'[c] = up[c] \/ up'[c] = <<>> \/ (up[c] # <<>> /\ up'[c] = Tail(up[c]))

LEMMA ShrinksKeeps ==
    ASSUME Types, ConnInv, LevelInv, NEW c \in Clients, Shrinks(c)
    PROVE  /\ Asked(up'[c]) \subseteq Asked(up[c])
           /\ Announces(up'[c]) \subseteq Announces(up[c])
           /\ Playing(c) => Backed(up'[c])
           /\ conn[c] = NoId => up'[c] = <<>>
<1>1. up[c] \in Seq(UpMsg) /\ (Playing(c) => Backed(up[c]))
  BY DEF Types, LevelInv
<1>2. CASE up'[c] = up[c]
  BY <1>1, <1>2 DEF ConnInv
<1>3. CASE up'[c] = <<>>
  BY <1>3, AskedNone, SlottedNone, BackedNone DEF Announces
<1>4. CASE up[c] # <<>> /\ up'[c] = Tail(up[c])
  <2>1. Asked(Tail(up[c])) \subseteq Asked(up[c])
    BY <1>1, <1>4, AskedTail
  <2>2. Slotted(Tail(up[c]), "announce") \subseteq Slotted(up[c], "announce")
    BY <1>1, <1>4, SlottedTail
  <2>3. Playing(c) => Backed(Tail(up[c]))
    BY <1>1, <1>4, BackedTail
  <2>4. conn[c] # NoId
    BY <1>4 DEF ConnInv
  <2> QED
    BY <1>4, <2>1, <2>2, <2>3, <2>4 DEF Announces
<1> QED
  BY <1>2, <1>3, <1>4 DEF Shrinks

\* A player that goes on as it did is calm.
LEMMA CalmPlayer ==
    ASSUME Types, ConnInv, LevelInv, NEW c \in Clients, Shrinks(c),
           client'[c] = client[c], mode = "game" \/ Welcomes(down'[c]) \subseteq Welcomes(down[c]),
           conn[c] = NoId => down'[c] = <<>>
    PROVE  Calm(c)
BY ShrinksKeeps DEF Calm, Playing

LEMMA ToldConnected ==
    ASSUME Types, ConnInv, Told(down, down'), NEW c \in Clients
    PROVE  Welcomes(down'[c]) = Welcomes(down[c]) /\ (conn[c] = NoId => down'[c] = <<>>)
<1>1. down \in [Clients -> Seq(Messages)]
  BY DEF Types
<1> QED
  BY <1>1, ToldKeeps DEF ConnInv

LEMMA SentTo ==
    ASSUME Types, NEW id, NEW msgs \in Seq(Messages), down' = Sent(down, id, msgs), NEW c \in Clients
    PROVE  /\ conn[c] = id /\ id # NoId => down'[c] = down[c] \o msgs
           /\ ~(conn[c] = id /\ id # NoId) => down'[c] = down[c]
BY DEF Sent

LEMMA QuietIsSteady ==
    ASSUME Types, ConnInv, LevelInv, Quiet
    PROVE  Steady
<1>1. ASSUME NEW c \in Clients
      PROVE  Calm(c)
  <2>1. Shrinks(c) /\ client' = client /\ Told(down, down')
    BY DEF Quiet, Shrinks
  <2> QED
    BY <2>1, CalmPlayer, ToldConnected
<1>2. \A i \in Slots : Known(slot'[i].net)
  BY DEF Quiet, Known
<1>3. Known(join'.to)
  BY DEF Quiet, Known
<1>4. \A k \in DOMAIN gone' : InGone(gone'[k])
  BY DEF Quiet, InGone
<1> QED
  BY <1>1, <1>2, <1>3, <1>4 DEF Quiet, Steady

\* What a step of a transfer sends reaches a connected player in a level.
LEMMA SyncIsSteady ==
    ASSUME Types, ConnInv, LevelInv, Gives \/ Overruns \/ \E items : Goes(items)
    PROVE  Steady
<1>1. /\ mode = "game" /\ UNCHANGED <<destroyed, mode, level, conn, up, gone, client>>
      /\ left'.given = left.given
  BY DEF Gives, Overruns, Goes, Types, Lefts
<1>2. \E s \in Seq(Messages) : down' = Sent(down, join.to, s)
  <2>1. CASE Gives
    <3>1. PICK snap \in Seq(Messages) : down' = Sent(down, join.to, snap \o <<LeaveJoin, Welcome(join.idx)>>)
      BY <2>1 DEF Gives
    <3>2. <<LeaveJoin, Welcome(join.idx)>> \in Seq(Messages)
      BY Answers DEF Types, JoinStates
    <3>3. snap \o <<LeaveJoin, Welcome(join.idx)>> \in Seq(Messages)
      BY <3>2
    <3> QED
      BY <3>1, <3>3
  <2>2. CASE Overruns \/ \E items : Goes(items)
    BY <2>2 DEF Overruns, Goes
  <2> QED
    BY <2>1, <2>2
<1>3. ASSUME NEW c \in Clients
      PROVE  Calm(c)
  <2>1. conn[c] = NoId => down'[c] = <<>>
    BY <1>2, SentTo DEF ConnInv
  <2>2. Shrinks(c) /\ client'[c] = client[c]
    BY <1>1 DEF Shrinks
  <2> QED
    BY <1>1, <2>1, <2>2, CalmPlayer
<1>4. slot' = slot \/ slot' = [slot EXCEPT ![join.idx].net = join.to]
  BY DEF Gives, Overruns, Goes
<1>5. \A i \in Slots : slot'[i].net = slot[i].net \/ slot'[i].net = join.to
  BY <1>4 DEF Types
<1>6. join'.to = join.to \/ join'.to = NoId
  BY NoSyncTyped DEF Gives, Overruns, Goes, Types
<1>7. destroyed' >= destroyed
  BY <1>1, MultiAssumption DEF Types
<1> QED
  BY <1>1, <1>3, <1>5, <1>6, <1>7 DEF Steady, Known, InGone

LEMMA RequestsLevel ==
    ASSUME Types, LevelInv, NEW c \in Clients, mode = "game", up[c] # <<>>,
           Head(up[c]).kind = "joinrequest", Head(up[c]).level = level
    PROVE  client[c].level = level /\ (Playing(c) => Announces(up[c]) # {})
<1>1. up[c] \in Seq(UpMsg) /\ client[c].level \in Nat /\ level \in Nat
  BY MultiAssumption DEF Types, PlayerStates
<1>2. level \in Asked(up[c])
  BY <1>1, AskedTail
<1>3. level <= client[c].level /\ ~(client[c].level > level)
  BY <1>2 DEF LevelInv
<1>4. Playing(c) => Announces(up[c]) # {}
  BY <1>1, BackedTail DEF LevelInv
<1> QED
  BY <1>1, <1>3, <1>4

\* The host reads the message of a player that is connected.
LEMMA ReadsUpIsSteady ==
    ASSUME Types, ConnInv, LevelInv, NEW c \in Clients,
           TookUp(c) \/ Rewelcomed(c) \/ \E i \in Slots : HeardOf(c, i)
    PROVE  Steady
<1>1. ReadsUp(c)
  BY DEF TookUp, Rewelcomed, HeardOf
<1>2. /\ mode = "game" /\ conn' = conn /\ level' = level /\ mode' = mode /\ left' = left
      /\ gone' = gone /\ destroyed' >= destroyed /\ conn[c] # NoId /\ conn[c] \in Ids
  BY <1>1, MultiAssumption DEF ReadsUp, ConnInv, Types
<1>3. ASSUME NEW d \in Clients
      PROVE  Shrinks(d) /\ (conn[d] = NoId => down'[d] = <<>>)
  <2>1. Shrinks(d)
    BY <1>1 DEF ReadsUp, Shrinks, Types
  <2>2. CASE TookUp(c)
    BY <2>1, <2>2, ToldConnected DEF TookUp
  <2>3. CASE Rewelcomed(c)
    <3>1. SlotOf(conn[c]) \in Slots
      BY <2>3, SlotOfHolds DEF Rewelcomed
    <3>2. <<Welcome(SlotOf(conn[c]))>> \in Seq(Messages)
      BY <3>1, Answers
    <3> QED
      BY <2>1, <2>3, <3>2, SentTo DEF Rewelcomed, ConnInv
  <2>4. CASE \E i \in Slots : HeardOf(c, i)
    BY <2>1, <2>4 DEF HeardOf, ConnInv
  <2> QED
    BY <2>2, <2>3, <2>4
<1>4. ASSUME NEW d \in Clients
      PROVE  Calm(d)
  <2>1. CASE client'[d] = client[d]
    BY <1>2, <1>3, <2>1, CalmPlayer
  <2>2. CASE client'[d] # client[d]
    <3>1. TookUp(c) /\ d = c /\ client' = [client EXCEPT ![c].owed = WorldNow]
      BY <2>2 DEF TookUp, Rewelcomed, HeardOf, Types
    <3>2. /\ client'[d].level = client[d].level /\ client'[d].status = client[d].status
          /\ client'[d].owed = WorldNow
      BY <3>1 DEF Types, PlayerStates
    <3>3. client[d].level = level
      BY <3>1, <1>2, RequestsLevel DEF TookUp, TakesUp, ReadsUp
    <3> QED
      BY <1>2, <1>3, <3>2, <3>3, ShrinksKeeps DEF Calm, Playing
  <2> QED
    BY <2>1, <2>2
<1>5. \A i \in Slots : slot'[i].net \in {slot[i].net, conn[c], NoId}
  <2>0. slot \in [Slots -> [net : Ids \cup {NoId}, joined : BOOLEAN]]
    BY DEF Types
  <2>1. CASE TookUp(c)
    BY <2>0, <2>1 DEF TookUp, Free
  <2>2. CASE Rewelcomed(c)
    BY <2>2 DEF Rewelcomed
  <2>3. ASSUME NEW i \in Slots, HeardOf(c, i), NEW j \in Slots
        PROVE  slot'[j].net \in {slot[j].net, conn[c], NoId}
    <3>1. slot' = slot \/ slot' = [slot EXCEPT ![i] = [net |-> conn[c], joined |-> TRUE]]
      BY <2>3 DEF HeardOf
    <3> QED
      BY <2>0, <3>1
  <2> QED
    BY <2>1, <2>2, <2>3
<1>6. join'.to \in {join.to, conn[c]}
  BY DEF TookUp, Rewelcomed, HeardOf
<1>7. \A i \in Slots : Known(slot'[i].net)
  BY <1>5 DEF Known
<1>8. Known(join'.to)
  BY <1>6 DEF Known
<1>9. \A k \in DOMAIN gone' : InGone(gone'[k])
  BY <1>2 DEF InGone
<1> QED
  BY <1>2, <1>4, <1>7, <1>8, <1>9 DEF Steady

LEMMA DropsAreSteady ==
    ASSUME Types, ConnInv, LevelInv, PlayerGone \/ \E i \in Slots : DropSilent(i)
    PROVE  Steady /\ Told(down, down')
<1>1. /\ UNCHANGED <<destroyed, mode, level, conn, up, client>>
      /\ left'.given = left.given /\ left'.odd = left.odd
  BY DEF PlayerGone, DropSilent, Types, Lefts
<1>2. Told(down, down')
  <2>1. down \in [Clients -> Seq(Messages)]
    BY DEF Types
  <2>2. CASE PlayerGone
    <3>1. down' = GivesUpJoin(down) \/ down' = down
      BY <2>2 DEF PlayerGone
    <3> QED
      BY <2>1, <3>1, ToldGivesUp, ToldSame
  <2>3. CASE \E i \in Slots : DropSilent(i)
    <3>1. PICK i \in Slots : down' = Sent(down, slot[i].net, <<Quit>>)
      BY <2>3 DEF DropSilent
    <3>2. Told(down, Sent(down, slot[i].net, <<Quit>>))
      BY <2>1, Answers, ToldSent
    <3> QED
      BY <3>1, <3>2
  <2> QED
    BY <2>2, <2>3
<1>3. ASSUME NEW c \in Clients
      PROVE  Calm(c)
  <2>1. Shrinks(c) /\ client'[c] = client[c]
    BY <1>1 DEF Shrinks
  <2> QED
    BY <1>2, <2>1, CalmPlayer, ToldConnected
<1>4. \A i \in Slots : slot'[i].net \in {slot[i].net, NoId}
  BY SlotOfHolds DEF PlayerGone, DropSilent, Types, Free
<1>5. join'.to \in {join.to, NoId}
  BY NoSyncTyped DEF PlayerGone, DropSilent, Types
<1>6. \A k \in DOMAIN gone' : InGone(gone'[k])
  <2>1. CASE gone' = gone
    BY <2>1 DEF InGone
  <2>2. CASE gone # <<>> /\ gone' = Tail(gone)
    <3>1. gone \in Seq(Ids)
      BY DEF Types
    <3>2. \A k \in DOMAIN Tail(gone) : k + 1 \in DOMAIN gone /\ gone[k + 1] = Tail(gone)[k]
      BY <2>2, <3>1
    <3> QED
      BY <2>2, <3>2 DEF InGone
  <2> QED
    BY <2>1, <2>2 DEF PlayerGone, DropSilent
<1>7. destroyed' >= destroyed
  BY <1>1, MultiAssumption DEF Types
<1>8. \A i \in Slots : Known(slot'[i].net)
  BY <1>4 DEF Known
<1>9. Known(join'.to)
  BY <1>5 DEF Known
<1> QED
  BY <1>1, <1>2, <1>3, <1>6, <1>7, <1>8, <1>9 DEF Steady

LEMMA PlayerIsSteady ==
    ASSUME Types, ConnInv, LevelInv, NEW c \in Clients,
           AskToJoin(c) \/ Play(c) \/ ClientReceive(c) \/ GoesAway(c) \/ HostIsGone(c)
    PROVE  Steady
<1>1. /\ client \in [Clients -> PlayerStates] /\ client[c] \in PlayerStates
      /\ up \in [Clients -> Seq(UpMsg)] /\ down \in [Clients -> Seq(Messages)]
      /\ destroyed \in Nat /\ left \in Lefts /\ MaxLevels \in Nat /\ level \in 1 .. MaxLevels
  BY MultiAssumption DEF Types
<1>2. UNCHANGED <<host, conn, gone>> /\ left'.given = left.given /\ client[c].status # "out"
  BY <1>1 DEF AskToJoin, Play, ClientReceive, GoesAway, HostIsGone, WelcomedTo, Lefts
<1>3. \A d \in Clients \ {c} : client'[d] = client[d] /\ up'[d] = up[d] /\ down'[d] = down[d]
  BY <1>1 DEF AskToJoin, Play, ClientReceive, GoesAway, HostIsGone, WelcomedTo
<1>4. ASSUME NEW d \in Clients \ {c}
      PROVE  Calm(d)
  BY <1>3, CalmPlayer DEF Shrinks, ConnInv
<1>5. conn[c] # NoId
  BY <1>2 DEF ConnInv
<1>6. ASSUME AskToJoin(c)
      PROVE  Calm(c)
  <2>1. client' = client /\ down' = down /\ client[c].status = "joining"
        /\ up'[c] = Append(up[c], Request(client[c].level))
    BY <1>1, <1>6 DEF AskToJoin
  <2>2. client[c].level \in 1 .. MaxLevels + 1
    BY <1>1, <2>1 DEF LevelInv
  <2> DEFINE m == Request(client[c].level)
  <2>3. m \in UpMsg /\ m.level = client[c].level
    BY <2>2, UpMade
  <2>4. up'[c] = Append(up[c], m)
    BY <2>1
  <2> HIDE DEF m
  <2>5. \A l \in Asked(Append(up[c], m)) : l \in Asked(up[c]) \/ (m.kind = "joinrequest" /\ l = m.level)
    <3>1. \A q \in Seq(UpMsg), x \in UpMsg :
              \A l \in Asked(Append(q, x)) : l \in Asked(q) \/ (x.kind = "joinrequest" /\ l = x.level)
      BY AskedAppend
    <3> QED
      BY <1>1, <2>3, <3>1
  <2> QED
    BY <1>5, <2>1, <2>3, <2>4, <2>5 DEF Calm
<1>7. ASSUME Play(c)
      PROVE  Calm(c)
  <2>1. client' = client /\ down' = down /\ client[c].status = "playing"
        /\ up'[c] = Append(up[c], Pos)
    BY <1>1, <1>7 DEF Play
  <2>2. Pos \in UpMsg /\ Pos.kind = "pos"
    BY UpMade
  <2>4. \A l \in Asked(up'[c]) : l \in Asked(up[c])
    BY <1>1, <2>1, <2>2, AskedAppend
  <2>5. Backed(up'[c])
    <3>1. Backed(up[c])
      BY <2>1 DEF LevelInv, Playing
    <3> QED
      BY <1>1, <2>1, <2>2, <3>1, BackedAppend
  <2> QED
    BY <1>5, <2>1, <2>4, <2>5 DEF Calm, Playing
<1>8. ASSUME GoesAway(c) \/ HostIsGone(c)
      PROVE  Calm(c)
  <2>1. client' = [client EXCEPT ![c].status = "leaving"] /\ up' = up /\ down' = down
    BY <1>8 DEF GoesAway, HostIsGone
  <2>2. /\ client'[c].status = "leaving" /\ client'[c].level = client[c].level
        /\ client'[c].owed = client[c].owed
    BY <1>1, <2>1 DEF PlayerStates
  <2> QED
    BY <1>2, <1>5, <2>1, <2>2 DEF Calm
<1>9. ASSUME ClientReceive(c)
      PROVE  Calm(c)
  <2> DEFINE m == Head(down[c])
  <2>1. /\ down[c] # <<>> /\ down'[c] = Tail(down[c]) /\ m \in Messages
        /\ client[c].status \in {"joining", "playing"}
    BY <1>1, <1>9, ReceiveEffect
  <2>2. /\ Welcomes(down'[c]) \subseteq Welcomes(down[c])
        /\ m.kind = "welcome" => m.slot \in Welcomes(down[c])
    BY <1>1, <2>1, SlottedTail DEF Welcomes
  <2>3. ASSUME m.kind = "welcome", TakesUpWelcome(c, m.slot)
        PROVE  Calm(c)
    <3>1. m.slot \in Slots
      BY <2>1, <2>3, MessageKinds
    <3> DEFINE a == Announce(m.slot)
    <3>2. a \in UpMsg /\ a.kind = "announce"
      BY <3>1, UpMade
    <3>3. up'[c] = up[c] \o <<a, a>> /\ client' = [client EXCEPT ![c].status = "playing", ![c].slot = m.slot]
      BY <1>1, <2>3 DEF TakesUpWelcome
    <3>4. /\ client'[c].status = "playing" /\ client'[c].level = client[c].level
          /\ client'[c].owed = client[c].owed
      BY <1>1, <3>3 DEF PlayerStates
    <3> HIDE DEF a
    <3>5. Backed(up'[c])
      BY <1>1, <3>2, <3>3, BackedAnnounced
    <3>6. \A l \in Asked(up'[c]) : l \in Asked(up[c])
      BY <1>1, <3>2, <3>3, AskedAppend
    <3> QED
      BY <1>2, <1>5, <2>2, <2>3, <3>4, <3>5, <3>6 DEF Calm
  <2>4. ASSUME client' = [client EXCEPT ![c] = Reads(client[c], m)], UNCHANGED <<up, left>>
        PROVE  Calm(c)
    <3>1. client'[c] = Reads(client[c], m)
      BY <1>1, <2>4
    <3>2. /\ client'[c].level = client[c].level /\ client'[c].owed = client[c].owed
          /\ \/ client'[c].status = client[c].status
             \/ client[c].status = "joining" /\ client'[c].status = "leaving"
      BY <1>1, <2>1, <3>1, ReadsEffect
    <3>3. Playing(c) => Backed(up[c])
      BY DEF LevelInv
    <3> QED
      BY <1>5, <2>1, <2>2, <2>4, <3>2, <3>3 DEF Calm, Playing
  <2> QED
    BY <1>9, <2>3, <2>4, ReceiveEffect
<1>10. Calm(c)
  BY <1>6, <1>7, <1>8, <1>9
<1> QED
  BY <1>1, <1>2, <1>4, <1>10 DEF Steady, Known, InGone, host

LEMMA LevelsAreNumbers ==
    ASSUME Types
    PROVE  level \in Nat /\ \A c \in Clients : client[c].level \in Nat
BY MultiAssumption DEF Types, PlayerStates

LEMMA ConnectBecomes ==
    ASSUME Types, NEW c \in Clients, Connect(c)
    PROVE  /\ conn' = [conn EXCEPT ![c] = FirstFreeId] /\ FirstFreeId \in Ids
           /\ conn[c] # FirstFreeId /\ \A d \in Clients : conn[d] # FirstFreeId
           /\ client[c].status = "out" /\ mode # "gone"
           /\ \A d \in Clients \ {c} : client'[d] = client[d] /\ conn'[d] = conn[d]
           /\ conn'[c] = FirstFreeId
           /\ client'[c].status = "joining" /\ client'[c].level = level
           /\ client'[c].got = {} /\ client'[c].owed = {}
           /\ client'[c].first => ~(FirstFreeId <= left.given)
           /\ left'.odd = left.odd /\ left.given <= left'.given /\ FirstFreeId <= left'.given
           /\ UNCHANGED <<slot, join, destroyed, mode, level, up, down, gone>>
<1>1. /\ FirstFreeId \in Ids /\ \A d \in Clients : conn[d] # FirstFreeId
  BY FirstFreeIdIsFree DEF Connect
<1>2. client \in [Clients -> PlayerStates] /\ conn \in [Clients -> Ids \cup {NoId}]
      /\ left \in Lefts /\ left.given \in Nat /\ FirstFreeId \in Nat
  BY <1>1, NoIdIsNone DEF Types, Lefts
<1> DEFINE id == FirstFreeId
           s == [Out EXCEPT !.status = "joining", !.level = level, !.first = id > left.given]
<1> HIDE DEF id
<1>3. /\ conn' = [conn EXCEPT ![c] = id] /\ client' = [client EXCEPT ![c] = s]
      /\ client[c].status = "out" /\ mode # "gone"
      /\ UNCHANGED <<host, up, down, gone>>
      /\ left' = [left EXCEPT !.connects = left.connects - 1,
                              !.given = IF id > left.given THEN id ELSE left.given]
  BY DEF Connect, id
<1>4. /\ s.status = "joining" /\ s.level = level /\ s.got = {} /\ s.owed = {}
      /\ s.first = (id > left.given)
  BY DEF Out
<1> HIDE DEF s
<1>5. client'[c] = s /\ conn'[c] = id
  BY <1>2, <1>3
<1>6. id > left.given => ~(id <= left.given)
  BY <1>2 DEF id
<1>7. left'.odd = left.odd /\ left.given <= left'.given /\ id <= left'.given
  BY <1>2, <1>3 DEF Lefts, id
<1>8. client'[c].first => ~(id <= left.given)
  BY <1>4, <1>5, <1>6
<1> QED
  BY <1>1, <1>2, <1>3, <1>4, <1>5, <1>7, <1>8 DEF id, host

LEMMA ConnectKeeps ==
    ASSUME Types, Types', ConnInv, LevelInv, GivenInv, NEW c \in Clients, Connect(c)
    PROVE  ConnInv' /\ LevelInv' /\ GivenInv'
<1>1. ConnInv'
  BY ConnectBecomes, NoIdIsNone DEF ConnInv
<1>2. LevelInv'
  <2>1. up[c] = <<>> /\ level \in 1 .. level + 1 /\ ~(level > level)
    BY ConnectBecomes, MultiAssumption DEF ConnInv, Types
  <2>2. WorldNow' = WorldNow
    BY ConnectBecomes DEF WorldNow
  <2> QED
    BY <2>1, <2>2, ConnectBecomes, AskedNone DEF LevelInv, Playing
<1>3. GivenInv'
  <2>1. left.given \in Nat /\ left'.given \in Nat
    BY DEF Types, Lefts
  <2>2. \A x \in Nat : x <= left.given => x <= left'.given
    BY <2>1, ConnectBecomes
  <2>3. /\ \A d \in Clients : conn[d] \in Nat
        /\ \A i \in Slots : slot[i].net \in Nat
        /\ join.to \in Nat /\ \A k \in DOMAIN gone : gone[k] \in Nat
    <3>1. Ids \cup {NoId} \subseteq Nat
      BY NoIdIsNone
    <3>2. \A k \in DOMAIN gone : gone[k] \in Ids
      BY DEF Types
    <3> QED
      BY <3>1, <3>2 DEF Types, JoinStates
  <2> QED
    BY <2>2, <2>3, ConnectBecomes DEF GivenInv
<1> QED
  BY <1>1, <1>2, <1>3

LEMMA ClosedBecomes ==
    ASSUME Types, ConnInv, NEW c \in Clients, Leave(c) \/ Vanish(c)
    PROVE  /\ conn[c] \in Ids /\ conn'[c] = NoId /\ client'[c] = Out
           /\ up'[c] = <<>> /\ down'[c] = <<>>
           /\ \A d \in Clients \ {c} : /\ client'[d] = client[d] /\ conn'[d] = conn[d]
                                       /\ up'[d] = up[d] /\ down'[d] = down[d]
                                       /\ conn[d] # conn[c]
           /\ \A id : InGone(id)' <=> InGone(id) \/ (id = conn[c] /\ InList(id))
           /\ UNCHANGED <<host, left>>
<1>1. Closed(c) /\ client[c].status # "out"
  BY DEF Leave, Vanish
<1>2. /\ client \in [Clients -> PlayerStates] /\ conn \in [Clients -> Ids \cup {NoId}]
      /\ up \in [Clients -> Seq(UpMsg)] /\ down \in [Clients -> Seq(Messages)] /\ gone \in Seq(Ids)
  BY DEF Types
<1>3. conn[c] # NoId /\ conn[c] \in Ids
  BY <1>1, <1>2 DEF ConnInv
<1>4. /\ conn' = [conn EXCEPT ![c] = NoId] /\ client' = [client EXCEPT ![c] = Out]
      /\ up' = [up EXCEPT ![c] = <<>>] /\ down' = [down EXCEPT ![c] = <<>>]
      /\ UNCHANGED <<host, left>>
      /\ gone' = IF InList(conn[c]) THEN Append(gone, conn[c]) ELSE gone
  BY <1>1, <1>3 DEF Closed
<1>5. \A id : InGone(id)' <=> InGone(id) \/ (id = conn[c] /\ InList(id))
  <2>1. CASE InList(conn[c])
    <3> DEFINE g == Append(gone, conn[c])
    <3>1. /\ DOMAIN g = 1 .. Len(gone) + 1 /\ DOMAIN gone = 1 .. Len(gone) /\ Len(gone) \in Nat
          /\ g[Len(gone) + 1] = conn[c] /\ \A k \in 1 .. Len(gone) : g[k] = gone[k]
      BY <1>2, <1>3
    <3> HIDE DEF g
    <3>2. \A k \in DOMAIN g : k = Len(gone) + 1 \/ k \in DOMAIN gone
      BY <3>1
    <3>3. Len(gone) + 1 \in DOMAIN g /\ \A k \in DOMAIN gone : k \in DOMAIN g
      BY <3>1
    <3>4. gone' = g
      BY <1>4, <2>1 DEF g
    <3> QED
      BY <2>1, <3>1, <3>2, <3>3, <3>4 DEF InGone
  <2>2. CASE ~InList(conn[c])
    BY <1>4, <2>2 DEF InGone
  <2> QED
    BY <2>1, <2>2
<1>6. \A d \in Clients \ {c} : conn[d] # conn[c]
  BY <1>3 DEF ConnInv
<1> QED
  BY <1>2, <1>3, <1>4, <1>5, <1>6

LEMMA ClosedKeeps ==
    ASSUME Types, Types', ConnInv, LevelInv, GivenInv, NEW c \in Clients, Leave(c) \/ Vanish(c)
    PROVE  ConnInv' /\ LevelInv' /\ GivenInv'
<1>1. Out.status = "out" /\ Out.level = 0 /\ Out.owed = {}
  BY DEF Out
<1>2. UNCHANGED <<slot, join, destroyed, mode, level, left>>
  BY ClosedBecomes DEF host
<1>3. ConnInv'
  BY <1>1, ClosedBecomes DEF ConnInv
<1>4. LevelInv'
  <2>1. ~(0 > level) /\ WorldNow' = WorldNow
    BY <1>2, MultiAssumption DEF Types, WorldNow
  <2> QED
    BY <1>1, <1>2, <2>1, ClosedBecomes, AskedNone DEF LevelInv, Playing
<1>5. GivenInv'
  <2>1. \A d \in Clients : conn'[d] <= left'.given
    <3>1. NoId <= left.given
      BY NoIdIsNone DEF Types, Lefts
    <3> QED
      BY <1>2, <3>1, ClosedBecomes DEF GivenInv
  <2>2. \A k \in DOMAIN gone' : gone'[k] <= left'.given
    <3>1. ASSUME NEW k \in DOMAIN gone'
          PROVE  gone'[k] <= left.given
      <4>1. ASSUME NEW id, \E n \in DOMAIN gone' : gone'[n] = id
            PROVE  id <= left.given
        <5>1. InGone(id)'
          BY <4>1 DEF InGone
        <5>2. InGone(id) \/ id = conn[c]
          BY <5>1, ClosedBecomes
        <5> QED
          BY <5>2 DEF InGone, GivenInv
      <4> QED
        BY <4>1
    <3> QED
      BY <1>2, <3>1
  <2> QED
    BY <1>2, <2>1, <2>2 DEF GivenInv
<1> QED
  BY <1>3, <1>4, <1>5

LEMMA NextLevelBecomes ==
    ASSUME Types, LevelInv, NEW c \in Clients, NextLevel(c)
    PROVE  /\ client[c].status = "playing" /\ (client[c].level < level \/ mode # "game")
           /\ client'[c].status = "joining" /\ client'[c].level = client[c].level + 1
           /\ client[c].level \in 1 .. level
           /\ client'[c].got = {} /\ client'[c].owed = {} /\ down'[c] = <<>>
           /\ \A d \in Clients \ {c} : client'[d] = client[d] /\ down'[d] = down[d]
           /\ UNCHANGED <<host, conn, up, gone, left>>
<1> DEFINE s == [Out EXCEPT !.status = "joining", !.level = client[c].level + 1,
                            !.knows = client[c].knows, !.first = client[c].first]
<1>1. /\ client \in [Clients -> PlayerStates] /\ down \in [Clients -> Seq(Messages)]
      /\ client[c].level \in Nat /\ level \in Nat
  BY MultiAssumption DEF Types, PlayerStates
<1>2. /\ client' = [client EXCEPT ![c] = s] /\ down' = [down EXCEPT ![c] = <<>>]
      /\ client[c].status = "playing" /\ (level > client[c].level \/ mode # "game")
      /\ UNCHANGED <<host, conn, up, gone, left>>
  BY DEF NextLevel
<1>3. /\ s.status = "joining" /\ s.level = client[c].level + 1 /\ s.got = {} /\ s.owed = {}
  BY DEF Out
<1> HIDE DEF s
<1>4. client[c].level \in 1 .. level
  <2>1. client[c].level \in 1 .. level + 1 /\ ~(client[c].level > level)
    BY <1>2 DEF LevelInv, Playing
  <2> QED
    BY <1>1, <2>1
<1> QED
  BY <1>1, <1>2, <1>3, <1>4

LEMMA OpensBecomes ==
    ASSUME Types, OpenLevel
    PROVE  /\ mode = "lobby" /\ mode' = "game" /\ level' = level + 1 /\ destroyed' = 0
           /\ \A i \in Slots : slot'[i].net = NoId /\ ~slot'[i].joined
           /\ ~join'.active /\ join'.to = join.to
           /\ \A c \in Clients : up'[c] = <<>>
           /\ \A id : ~InGone(id)'
           /\ UNCHANGED <<conn, down, client, left>>
<1>1. ~[join EXCEPT !.active = FALSE].active /\ [join EXCEPT !.active = FALSE].to = join.to
  BY DEF Types, JoinStates
<1>2. \A i \in Slots : slot'[i].net = NoId /\ ~slot'[i].joined
  BY DEF OpenLevel, Free
<1>3. \A c \in Clients : up'[c] = <<>>
  BY DEF OpenLevel
<1>4. \A id : ~InGone(id)'
  BY DEF OpenLevel, InGone
<1> QED
  BY <1>1, <1>2, <1>3, <1>4 DEF OpenLevel

LEMMA NextLevelKeeps ==
    ASSUME Types, Types', ConnInv, LevelInv, GivenInv, NEW c \in Clients, NextLevel(c)
    PROVE  ConnInv' /\ LevelInv' /\ GivenInv'
<1>1. UNCHANGED <<slot, join, destroyed, mode, level, conn, up, gone, left>>
  BY NextLevelBecomes DEF host
<1>2. ConnInv'
  BY <1>1, NextLevelBecomes DEF ConnInv
<1>3. GivenInv'
  BY <1>1 DEF GivenInv
<1>4. LevelInv'
  <2>1. ASSUME NEW d \in Clients \ {c}
        PROVE  client'[d] = client[d] /\ down'[d] = down[d] /\ up'[d] = up[d]
    BY <1>1, NextLevelBecomes
  <2>2. WorldNow' = WorldNow
    BY <1>1 DEF WorldNow
  <2>3. /\ client'[c].status = "joining" /\ client'[c].level \in 1 .. level + 1
        /\ client'[c].owed = {} /\ Welcomes(down'[c]) = {} /\ up'[c] = up[c]
    <3>1. /\ client'[c].status = "joining" /\ client'[c].level = client[c].level + 1
          /\ client[c].level \in 1 .. level /\ client'[c].owed = {} /\ down'[c] = <<>>
      BY NextLevelBecomes
    <3>2. client'[c].level \in 1 .. level + 1
      BY <3>1, LevelsAreNumbers
    <3> QED
      BY <1>1, <3>1, <3>2, SlottedNone DEF Welcomes
  <2>4. client'[c].level > level => mode # "game"
    BY NextLevelBecomes, LevelsAreNumbers
  <2>5. \A l \in Asked(up[c]) : l <= client'[c].level
    <3>1. Asked(up[c]) \subseteq Int
      <4>1. up[c] \in Seq(UpMsg)
        BY DEF Types
      <4>2. \A k \in DOMAIN up[c] : up[c][k] \in UpMsg
        BY <4>1
      <4> QED
        BY <4>2, UpKinds, MultiAssumption DEF Asked
    <3>2. \A l \in Asked(up[c]) : l <= client[c].level
      BY DEF LevelInv
    <3> QED
      BY <3>1, <3>2, NextLevelBecomes
  <2> QED
    BY <1>1, <2>1, <2>2, <2>3, <2>4, <2>5 DEF LevelInv, Playing
<1> QED
  BY <1>2, <1>3, <1>4

LEMMA OpensKeeps ==
    ASSUME Types, Types', ConnInv, LevelInv, GivenInv, OpenLevel
    PROVE  ConnInv' /\ LevelInv' /\ GivenInv'
<1>1. ConnInv'
  BY OpensBecomes DEF ConnInv
<1>2. GivenInv'
  <2>1. NoId <= left.given
    BY NoIdIsNone DEF Types, Lefts
  <2>2. DOMAIN gone' = {}
    BY DEF OpenLevel
  <2> QED
    BY <2>1, <2>2, OpensBecomes DEF GivenInv
<1>3. LevelInv'
  <2>1. ASSUME NEW c \in Clients
        PROVE  /\ IF client[c].status = "out" THEN client[c].level = 0
                  ELSE client[c].level \in 1 .. level' + 1
               /\ ~(client[c].level > level')
               /\ client[c].level >= level' => client[c].owed = {}
    <3>1. level' = level + 1 /\ level \in Nat /\ client[c].level \in Nat
      BY OpensBecomes, LevelsAreNumbers
    <3>2. IF client[c].status = "out" THEN client[c].level = 0
          ELSE client[c].level \in 1 .. level + 1
      BY DEF LevelInv
    <3>3. client[c].level > level => client[c].owed = {}
      BY DEF LevelInv
    <3> QED
      BY <3>1, <3>2, <3>3
  <2>2. client' = client
    BY OpensBecomes
  <2>3. \A c \in Clients : Asked(up'[c]) = {} /\ Backed(up'[c])
    BY OpensBecomes, AskedNone, BackedNone
  <2> QED
    BY <2>1, <2>2, <2>3 DEF LevelInv
<1> QED
  BY <1>1, <1>2, <1>3

LEMMA WelcomesConcat ==
    \A q, r \in Seq(Messages) : Welcomes(q \o r) = Welcomes(q) \cup Welcomes(r)
BY SlottedConcat DEF Welcomes

LEMMA AnnouncesConcat ==
    \A q, r \in Seq(UpMsg) : Announces(q \o r) = Announces(q) \cup Announces(r)
BY SlottedConcat DEF Announces

LEMMA WelcomesAreSlots == ASSUME NEW q \in Seq(Messages) PROVE Welcomes(q) \subseteq Slots
<1>1. \A k \in DOMAIN q : q[k] \in Messages
  OBVIOUS
<1> QED
  BY <1>1, MessageKinds DEF Welcomes, Slotted

LEMMA AnnouncesAreSlots == ASSUME NEW q \in Seq(UpMsg) PROVE Announces(q) \subseteq Slots
<1>1. \A k \in DOMAIN q : q[k] \in UpMsg
  OBVIOUS
<1> QED
  BY <1>1, UpKinds DEF Announces, Slotted

-----------------------------------------------------------------------------
(* The list of players                                                       *)

\* The list stays as it is, and who is in it, except that a player may leave.
Stays ==
    /\ UNCHANGED <<conn, level>>
    /\ \A i \in Slots :
          /\ slot'[i].net = slot[i].net
          /\ slot'[i].joined => \/ slot[i].joined
                                \/ \E c \in Clients : /\ conn[c] = slot[i].net /\ conn[c] # NoId
                                                      /\ InLevel(c)
    /\ \A c \in Clients :
          /\ client'[c].level = client[c].level /\ client'[c].slot = client[c].slot
          /\ \/ client'[c].status = client[c].status
             \/ client[c].status \in {"joining", "playing"} /\ client'[c].status = "leaving"
          /\ \A i \in Welcomes(down'[c]) :
                i \in Welcomes(down[c]) \/ (slot[i].net = conn[c] /\ ~InGone(conn[c]))
          /\ Announces(up'[c]) \subseteq Announces(up[c])
    /\ \A id : InGone(id)' => InGone(id)
    /\ mode' = "game" => mode = "game" /\ gone' = gone

\* The transfer stays the same, or is over.
JoinStays == join'.active => join.active /\ join'.to = join.to /\ join'.idx = join.idx

LEMMA StaysListed ==
    ASSUME Types, Types', Listed, Stays, JoinStays \/ JoinInv'
    PROVE  Listed'
<1>1. /\ conn' = conn /\ level' = level /\ \A i \in Slots : slot'[i].net = slot[i].net
      /\ \A id : InList(id)' <=> InList(id)
  BY DEF Stays, InList, HoldsId
<1>2. \A c \in Clients : /\ Playing(c)' => Playing(c)
                         /\ InLevel(c) => InLevel(c)'
                         /\ client'[c].status = "joining" => client[c].status = "joining"
                         /\ client'[c].level = client[c].level /\ client'[c].slot = client[c].slot
  BY <1>1 DEF Stays, Playing, InLevel
<1>3. ListInv'
  BY <1>1 DEF Stays, ListInv, Listed
<1>4. JoinInv'
  <2>1. CASE JoinStays
    <3>1. join'.idx \in Slots /\ \A id : InGone(id)' => InGone(id)
      BY DEF Types, JoinStates, Stays
    <3>2. ASSUME join'.active
          PROVE  /\ join'.to # NoId /\ ~InList(join.to)' /\ slot'[join'.idx].net = NoId
                 /\ ~InGone(join.to)' /\ join'.to = join.to
                 /\ \A c \in Clients : conn'[c] = join'.to => client'[c].level = level' /\ ~Playing(c)'
      BY <1>1, <1>2, <2>1, <3>1, <3>2 DEF JoinStays, Listed, JoinInv
    <3> QED
      BY <3>2 DEF JoinInv, InList, HoldsId, InGone
  <2> QED
    BY <2>1
<1>5. WelcomeInv'
  <2>1. ASSUME NEW c \in Clients, NEW i \in Welcomes(down'[c])
        PROVE  /\ ~InGone(conn[c])'
               /\ client'[c].status = "joining" /\ client'[c].level = level' => slot'[i].net = conn'[c]
    <3>1. i \in Slots
      <4>1. down'[c] \in Seq(Messages)
        BY DEF Types
      <4> QED
        BY <4>1, WelcomesAreSlots
    <3>2. i \in Welcomes(down[c]) \/ (slot[i].net = conn[c] /\ ~InGone(conn[c]))
      BY DEF Stays
    <3>3. ~InGone(conn[c]) /\ (client[c].status = "joining" /\ client[c].level = level => slot[i].net = conn[c])
      BY <3>2 DEF Listed, WelcomeInv
    <3>4. ~InGone(conn[c])'
      BY <1>1, <3>3 DEF Stays
    <3> QED
      BY <1>1, <1>2, <3>1, <3>3, <3>4
  <2> QED
    BY <2>1 DEF WelcomeInv
<1>6. AnnounceInv'
  <2>1. ASSUME mode' = "game", NEW c \in Clients, NEW i \in Announces(up'[c])
        PROVE  slot'[i].net = conn'[c] /\ InLevel(c)' /\ ~InGone(conn[c])'
    <3>1. i \in Announces(up[c]) /\ mode = "game"
      BY <2>1 DEF Stays
    <3>2. slot[i].net = conn[c] /\ InLevel(c) /\ ~InGone(conn[c])
      BY <3>1 DEF Listed, AnnounceInv
    <3>3. i \in Slots
      <4>1. up[c] \in Seq(UpMsg)
        BY DEF Types
      <4> QED
        BY <3>1, <4>1, AnnouncesAreSlots
    <3> QED
      BY <1>1, <1>2, <3>2, <3>3 DEF Stays
  <2> QED
    BY <1>1, <2>1 DEF AnnounceInv, InGone
<1>7. JoinedInv'
  <2>1. ASSUME mode' = "game", NEW i \in Slots, slot'[i].joined
        PROVE  InGone(slot[i].net)' \/ \E c \in Clients : conn'[c] = slot'[i].net /\ InLevel(c)'
    <3>1. mode = "game" /\ gone' = gone
      BY <2>1 DEF Stays
    <3>2. slot[i].joined \/ \E c \in Clients : conn[c] = slot[i].net /\ InLevel(c)
      BY <2>1 DEF Stays
    <3>3. InGone(slot[i].net) \/ \E c \in Clients : conn[c] = slot[i].net /\ InLevel(c)
      BY <3>1, <3>2 DEF Listed, JoinedInv
    <3> QED
      BY <1>1, <1>2, <3>1, <3>3 DEF InGone
  <2> QED
    BY <1>1, <2>1 DEF JoinedInv, InGone
<1>8. PlayInv'
  <2>1. ASSUME NEW c \in Clients
        PROVE  /\ Playing(c)' => ~InGone(conn[c])'
               /\ \A i \in Slots : slot'[i].net = conn'[c] /\ conn'[c] # NoId =>
                     client'[c].level >= level' /\ (Playing(c)' => client'[c].slot = i)
    <3>1. \A id : InGone(id)' => InGone(id)
      BY DEF Stays
    <3> QED
      BY <1>1, <1>2, <3>1 DEF Listed, PlayInv
  <2> QED
    BY <1>1, <2>1 DEF PlayInv, InGone
<1> QED
  BY <1>3, <1>4, <1>5, <1>6, <1>7, <1>8 DEF Listed

LEMMA QuietStays ==
    ASSUME Types, ConnInv, LevelInv, Quiet
    PROVE  Stays /\ JoinStays
<1>1. ASSUME NEW c \in Clients
      PROVE  Welcomes(down'[c]) = Welcomes(down[c]) /\ Announces(up'[c]) \subseteq Announces(up[c])
  <2>1. Shrinks(c) /\ Told(down, down')
    BY DEF Quiet, Shrinks
  <2> QED
    BY <2>1, ShrinksKeeps, ToldConnected
<1>2. \A id : InGone(id)' => InGone(id)
  BY DEF Quiet, InGone
<1> QED
  BY <1>1, <1>2 DEF Quiet, Stays, JoinStays

LEMMA GoesStays ==
    ASSUME Types, NEW items, Goes(items)
    PROVE  Stays /\ JoinStays
<1>1. PICK snap \in Seq(Messages) : Welcomes(snap) = {} /\ down' = Sent(down, join.to, snap)
  BY DEF Goes
<1>2. ASSUME NEW c \in Clients
      PROVE  Welcomes(down'[c]) \subseteq Welcomes(down[c])
  <2>1. down[c] \in Seq(Messages)
    BY DEF Types
  <2>2. Welcomes(down[c] \o snap) = Welcomes(down[c]) \cup Welcomes(snap)
    BY <2>1, WelcomesConcat
  <2> QED
    BY <1>1, <2>2, SentTo
<1> QED
  BY <1>2 DEF Goes, Stays, JoinStays, InGone

LEMMA RewelcomedStays ==
    ASSUME Types, ConnInv, LevelInv, Listed, NEW c \in Clients, Rewelcomed(c)
    PROVE  Stays /\ JoinStays
<1> DEFINE i == SlotOf(conn[c])
<1>1. /\ ReadsUp(c) /\ InList(conn[c]) /\ UNCHANGED <<slot, join, client>>
      /\ down' = Sent(down, conn[c], <<Welcome(i)>>)
  BY DEF Rewelcomed
<1>2. i \in Slots /\ slot[i].net = conn[c]
  BY <1>1, SlotOfHolds
<1> HIDE DEF i
<1>3. /\ mode' = mode /\ gone' = gone /\ UNCHANGED <<conn, level>>
      /\ \A id : ~InGone(id)
  BY <1>1 DEF ReadsUp, InGone
<1>4. ASSUME NEW d \in Clients
      PROVE  Announces(up'[d]) \subseteq Announces(up[d])
  <2>1. Shrinks(d)
    BY <1>1 DEF ReadsUp, Shrinks, Types
  <2> QED
    BY <2>1, ShrinksKeeps
<1>5. ASSUME NEW d \in Clients, NEW j \in Welcomes(down'[d])
      PROVE  j \in Welcomes(down[d]) \/ slot[j].net = conn[d]
  <2>1. <<Welcome(i)>> \in Seq(Messages) /\ Welcomes(<<Welcome(i)>>) = {i} /\ down[d] \in Seq(Messages)
    BY <1>2, Answers DEF Types
  <2>2. CASE down'[d] = down[d]
    BY <2>2, <1>5
  <2>3. CASE conn[d] = conn[c] /\ down'[d] = down[d] \o <<Welcome(i)>>
    <3> DEFINE r == <<Welcome(i)>>
    <3>1. r \in Seq(Messages) /\ Welcomes(r) = {i} /\ down'[d] = down[d] \o r
      BY <2>1, <2>3
    <3> HIDE DEF r
    <3>2. Welcomes(down[d] \o r) = Welcomes(down[d]) \cup Welcomes(r)
      BY <2>1, <3>1, WelcomesConcat
    <3> QED
      BY <1>2, <1>5, <2>3, <3>1, <3>2
  <2> QED
    BY <1>1, <2>1, <2>2, <2>3, SentTo
<1>6. \A id : InGone(id)' => InGone(id)
  BY <1>3 DEF InGone
<1> QED
  BY <1>1, <1>3, <1>4, <1>5, <1>6 DEF Stays, JoinStays

LEMMA HeardOfStays ==
    ASSUME Types, ConnInv, LevelInv, Listed, NEW c \in Clients, NEW i \in Slots, HeardOf(c, i)
    PROVE  Stays /\ JoinStays
<1>1. /\ ReadsUp(c) /\ Head(up[c]).kind = "announce" /\ Head(up[c]).slot = i
      /\ slot' = IF slot[i].joined THEN slot ELSE [slot EXCEPT ![i] = [net |-> conn[c], joined |-> TRUE]]
      /\ UNCHANGED <<join, down, client>>
  BY DEF HeardOf
<1>2. /\ mode = "game" /\ mode' = mode /\ gone' = gone /\ UNCHANGED <<conn, level>> /\ up[c] # <<>>
  BY <1>1 DEF ReadsUp
<1>3. slot[i].net = conn[c] /\ InLevel(c) /\ conn[c] # NoId
  <2>1. up[c] \in Seq(UpMsg)
    BY DEF Types
  <2>2. i \in Announces(up[c])
    BY <1>1, <1>2, <2>1, SlottedTail DEF Announces
  <2> QED
    BY <1>2, <2>2 DEF Listed, AnnounceInv, ConnInv
<1>4. ASSUME NEW d \in Clients
      PROVE  Announces(up'[d]) \subseteq Announces(up[d])
  <2>1. Shrinks(d)
    BY <1>1 DEF ReadsUp, Shrinks, Types
  <2> QED
    BY <2>1, ShrinksKeeps
<1>5. ASSUME NEW j \in Slots
      PROVE  slot'[j].net = slot[j].net /\ (slot'[j].joined => slot[j].joined \/ j = i)
  <2>1. slot \in [Slots -> [net : Ids \cup {NoId}, joined : BOOLEAN]]
    BY DEF Types
  <2>2. CASE j = i
    <3>1. slot'[i] = slot[i] \/ slot'[i] = [net |-> conn[c], joined |-> TRUE]
      BY <1>1, <2>1
    <3> QED
      BY <1>3, <2>2, <3>1
  <2>3. CASE j # i
    <3>1. slot'[j] = slot[j]
      BY <1>1, <2>1, <2>3
    <3> QED
      BY <3>1
  <2> QED
    BY <2>2, <2>3
<1>6. \A id : InGone(id)' => InGone(id)
  BY <1>2 DEF InGone
<1> QED
  BY <1>1, <1>2, <1>3, <1>4, <1>5, <1>6 DEF Stays, JoinStays

LEMMA TookUpStays ==
    ASSUME Types, ConnInv, LevelInv, Listed, NEW c \in Clients, TookUp(c)
    PROVE  Stays /\ JoinInv' /\ ~Playing(c) /\ client[c].level = level /\ ~InList(conn[c])
<1>1. /\ ReadsUp(c) /\ Head(up[c]).kind = "joinrequest"
      /\ Head(up[c]).level = level /\ ~InList(conn[c]) /\ FreeSlots # {}
      /\ slot' = [slot EXCEPT ![FirstFree] = Free]
      /\ join' = [active |-> TRUE, to |-> conn[c], idx |-> FirstFree, stage |-> 2, cursor |-> 0]
      /\ Told(down, down')
      /\ client' = IF client[c].owed = {} THEN [client EXCEPT ![c].owed = WorldNow] ELSE client
  BY DEF TookUp, TakesUp
<1>2. /\ mode = "game" /\ mode' = mode /\ gone = <<>> /\ gone' = gone /\ UNCHANGED <<conn, level>>
      /\ up[c] # <<>> /\ up[c] \in Seq(UpMsg)
  BY <1>1 DEF ReadsUp, Types
<1>3. client[c].level = level /\ (Playing(c) => Announces(up[c]) # {})
  BY <1>1, <1>2, RequestsLevel
<1>4. ~Playing(c)
  <2>1. ASSUME NEW i \in Announces(up[c])
        PROVE  FALSE
    <3>1. slot[i].net = conn[c] /\ i \in Slots
      BY <1>2, AnnouncesAreSlots DEF Listed, AnnounceInv
    <3> QED
      BY <1>1, <3>1 DEF InList, HoldsId
  <2> QED
    BY <1>3, <2>1
<1>5. FirstFree \in Slots /\ slot[FirstFree].net = NoId
  BY <1>1, FirstFreeIsFree
<1>6. ASSUME NEW j \in Slots
      PROVE  slot'[j].net = slot[j].net /\ (slot'[j].joined => slot[j].joined)
  <2>1. slot \in [Slots -> [net : Ids \cup {NoId}, joined : BOOLEAN]]
    BY DEF Types
  <2> QED
    BY <1>1, <1>5, <2>1 DEF Free
<1>7. ASSUME NEW d \in Clients
      PROVE  /\ client'[d].level = client[d].level /\ client'[d].slot = client[d].slot
             /\ client'[d].status = client[d].status
             /\ Welcomes(down'[d]) = Welcomes(down[d])
             /\ Announces(up'[d]) \subseteq Announces(up[d])
  <2>1. Shrinks(d)
    BY <1>1 DEF ReadsUp, Shrinks, Types
  <2>2. client \in [Clients -> PlayerStates]
    BY DEF Types
  <2>3. /\ client'[d].level = client[d].level /\ client'[d].slot = client[d].slot
        /\ client'[d].status = client[d].status
    <3>1. CASE client' = client
      BY <3>1
    <3>2. CASE client' = [client EXCEPT ![c].owed = WorldNow]
      BY <2>2, <3>2 DEF PlayerStates
    <3> QED
      BY <1>1, <3>1, <3>2
  <2> QED
    BY <1>1, <2>1, <2>3, ShrinksKeeps, ToldConnected
<1>8. JoinInv'
  <2>1. join'.to = conn[c] /\ join'.idx = FirstFree
    BY <1>1
  <2>2. conn[c] # NoId
    BY <1>2 DEF ConnInv
  <2>3. ~InList(conn[c])' /\ ~InGone(conn[c])'
    BY <1>1, <1>2, <1>6 DEF InList, HoldsId, InGone
  <2>4. \A d \in Clients : conn'[d] = conn[c] => client'[d].level = level' /\ ~Playing(d)'
    BY <1>2, <1>3, <1>4, <1>7, <2>2 DEF ConnInv, Playing
  <2> QED
    BY <1>2, <1>5, <1>6, <2>1, <2>2, <2>3, <2>4 DEF JoinInv, InList, HoldsId, InGone
<1>9. \A id : InGone(id)' => InGone(id)
  BY <1>2 DEF InGone
<1> QED
  BY <1>1, <1>2, <1>3, <1>4, <1>6, <1>7, <1>8, <1>9 DEF Stays

LEMMA GoesOnStays ==
    ASSUME Types, ConnInv, LevelInv, NEW c \in Clients,
           \/ AskToJoin(c) \/ Play(c) \/ GoesAway(c) \/ HostIsGone(c)
           \/ /\ down[c] # <<>> /\ down' = [down EXCEPT ![c] = Tail(@)]
              /\ client[c].status \in {"joining", "playing"} /\ Head(down[c]) \in Messages
              /\ client' = [client EXCEPT ![c] = Reads(client[c], Head(down[c]))]
              /\ UNCHANGED <<host, conn, gone, up, left>>
    PROVE  Stays /\ JoinStays
<1>1. UNCHANGED <<host, conn, gone, left>>
  BY DEF AskToJoin, Play, GoesAway, HostIsGone
<1>2. /\ client \in [Clients -> PlayerStates] /\ client[c] \in PlayerStates
      /\ up \in [Clients -> Seq(UpMsg)] /\ down \in [Clients -> Seq(Messages)]
      /\ MaxLevels \in Nat
  BY MultiAssumption DEF Types
<1>3. ASSUME NEW d \in Clients
      PROVE  Welcomes(down'[d]) \subseteq Welcomes(down[d])
  <2>1. CASE down' = down
    BY <2>1
  <2>2. CASE down[c] # <<>> /\ down' = [down EXCEPT ![c] = Tail(@)]
    <3>1. Welcomes(Tail(down[c])) \subseteq Welcomes(down[c])
      BY <1>2, <2>2, SlottedTail DEF Welcomes
    <3> QED
      BY <1>2, <2>2, <3>1
  <2> QED
    BY <2>1, <2>2 DEF AskToJoin, Play, GoesAway, HostIsGone
<1>4. ASSUME NEW d \in Clients
      PROVE  Announces(up'[d]) \subseteq Announces(up[d])
  <2>1. CASE up' = up
    BY <2>1
  <2>2. ASSUME NEW m \in UpMsg, m.kind # "announce", up' = [up EXCEPT ![c] = Append(@, m)]
        PROVE  Announces(up'[d]) \subseteq Announces(up[d])
    <3>1. Append(up[c], m) = up[c] \o <<m>> /\ <<m>> \in Seq(UpMsg)
      BY <1>2
    <3>2. Announces(up[c] \o <<m>>) = Announces(up[c]) \cup Announces(<<m>>)
      BY <1>2, <3>1, AnnouncesConcat
    <3>3. Announces(<<m>>) = {}
      BY <2>2, SlottedOne DEF Announces
    <3> QED
      BY <1>2, <2>2, <3>1, <3>2, <3>3
  <2>3. CASE AskToJoin(c)
    <3>1. client[c].level \in 1 .. MaxLevels + 1
      <4>1. client[c].level \in 1 .. level + 1 /\ level \in 1 .. MaxLevels
        BY <2>3 DEF AskToJoin, LevelInv, Types
      <4> QED
        BY <1>2, <4>1
    <3>2. Request(client[c].level) \in UpMsg /\ Request(client[c].level).kind # "announce"
      BY <3>1, UpMade
    <3> QED
      BY <2>2, <2>3, <3>2 DEF AskToJoin
  <2>4. CASE Play(c)
    BY <2>2, <2>4, UpMade DEF Play
  <2> QED
    BY <2>1, <2>3, <2>4 DEF GoesAway, HostIsGone
<1>5. ASSUME NEW d \in Clients
      PROVE  /\ client'[d].level = client[d].level /\ client'[d].slot = client[d].slot
             /\ \/ client'[d].status = client[d].status
                \/ client[d].status \in {"joining", "playing"} /\ client'[d].status = "leaving"
  <2>1. CASE client' = client
    BY <2>1
  <2>2. CASE client[c].status \in {"joining", "playing"} /\ client' = [client EXCEPT ![c].status = "leaving"]
    BY <1>2, <2>2 DEF PlayerStates
  <2>3. CASE /\ client[c].status \in {"joining", "playing"} /\ Head(down[c]) \in Messages
             /\ client' = [client EXCEPT ![c] = Reads(client[c], Head(down[c]))]
    <3> DEFINE s == Reads(client[c], Head(down[c]))
    <3>1. /\ s.level = client[c].level /\ s.slot = client[c].slot
          /\ \/ s.status = client[c].status
             \/ client[c].status = "joining" /\ s.status = "leaving"
      BY <1>2, <2>3, ReadsEffect
    <3>2. client' = [client EXCEPT ![c] = s]
      BY <2>3
    <3> HIDE DEF s
    <3> QED
      BY <1>2, <3>1, <3>2
  <2> QED
    BY <2>1, <2>2, <2>3 DEF AskToJoin, Play, GoesAway, HostIsGone
<1> QED
  BY <1>1, <1>3, <1>4, <1>5 DEF Stays, JoinStays, host, InGone

\* Slots are freed of an id that is gone, or of a player that is silent.
LEMMA GoneListed ==
    ASSUME Types, Types', ConnInv, Listed, PlayerGone
    PROVE  Listed' /\ (join'.active => join' = join)
           /\ \A i \in Slots : slot'[i].net \in {slot[i].net, NoId}
<1> DEFINE id == Head(gone)
           s == SlotOf(id)
<1>1. /\ gone # <<>> /\ gone' = Tail(gone) /\ gone \in Seq(Ids)
      /\ UNCHANGED <<destroyed, mode, level, conn, up, client, left>>
      /\ join' = IF join.active /\ join.to = id THEN NoSync ELSE join
      /\ slot' = IF InList(id) THEN [slot EXCEPT ![s] = Free] ELSE slot
      /\ mode = "game"
  BY DEF PlayerGone, HostRuns, Types
<1>2. Told(down, down')
  <2>1. down' = GivesUpJoin(down) \/ down' = down
    BY DEF PlayerGone
  <2> QED
    BY <2>1, ToldGivesUp, ToldSame DEF Types
<1>3. InList(id) => s \in Slots /\ slot[s].net = id
  BY SlotOfHolds
<1>4. id \in Ids /\ id # NoId /\ InGone(id)
  <2>1. 1 \in DOMAIN gone /\ gone[1] = id /\ id \in Ids
    BY <1>1
  <2> QED
    BY <2>1, NoIdIsNone DEF InGone
<1>5. \A x : InGone(x)' => InGone(x)
  <2>1. \A k \in DOMAIN Tail(gone) : k + 1 \in DOMAIN gone /\ gone[k + 1] = Tail(gone)[k]
    BY <1>1
  <2> QED
    BY <1>1, <2>1 DEF InGone
<1>6. \A x : InGone(x) => InGone(x)' \/ x = id
  <2>1. ASSUME NEW k \in DOMAIN gone
        PROVE  gone[k] = id \/ \E n \in DOMAIN Tail(gone) : Tail(gone)[n] = gone[k]
    <3>1. CASE k = 1
      BY <1>1, <3>1
    <3>2. CASE k # 1
      <4>1. k - 1 \in DOMAIN Tail(gone) /\ Tail(gone)[k - 1] = gone[k]
        BY <1>1, <3>2
      <4> QED
        BY <4>1
    <3> QED
      BY <3>1, <3>2
  <2> QED
    BY <1>1, <2>1 DEF InGone
<1> HIDE DEF id, s
<1>7. ASSUME NEW i \in Slots
      PROVE  /\ slot'[i] = slot[i] \/ (slot'[i] = Free /\ slot[i].net = id)
             /\ slot[i].net = id => slot'[i] = Free
  <2>1. slot \in [Slots -> [net : Ids \cup {NoId}, joined : BOOLEAN]]
    BY DEF Types
  <2>2. CASE InList(id)
    <3>1. slot[i].net = id => i = s
      BY <1>3, <1>4, <2>2 DEF Listed, ListInv
    <3> QED
      BY <1>1, <1>3, <2>1, <2>2, <3>1
  <2>3. CASE ~InList(id)
    BY <1>1, <2>3 DEF InList, HoldsId
  <2> QED
    BY <2>2, <2>3
<1>8. Free.net = NoId /\ ~Free.joined
  BY DEF Free
<1>9. \A i \in Slots : /\ slot'[i].net \in {slot[i].net, NoId}
                       /\ slot'[i].joined => slot'[i] = slot[i] /\ slot[i].net # id
                       /\ slot'[i].net # NoId => slot'[i] = slot[i]
                       /\ slot[i].net # id => slot'[i] = slot[i]
  BY <1>4, <1>7, <1>8
<1>10. ListInv'
  BY <1>9 DEF Listed, ListInv
<1>11. join'.active => join' = join
  BY <1>1, NoSyncTyped DEF Types
<1>12. JoinInv'
  <2>1. ASSUME join'.active
        PROVE  /\ join' = join /\ join.to # NoId /\ ~InList(join.to)' /\ slot'[join.idx].net = NoId
               /\ ~InGone(join.to)'
               /\ \A c \in Clients : conn[c] = join.to => client[c].level = level /\ ~Playing(c)
    <3>1. join' = join /\ join.idx \in Slots
      BY <1>11, <2>1 DEF Types, JoinStates
    <3>2. ~InList(join.to) /\ join.to # NoId /\ slot[join.idx].net = NoId /\ ~InGone(join.to)
      BY <2>1, <3>1 DEF Listed, JoinInv
    <3>3. ~InList(join.to)'
      BY <1>9, <3>1, <3>2 DEF InList, HoldsId
    <3>4. ~InGone(join.to)'
      BY <1>5, <3>1, <3>2 DEF InGone
    <3> QED
      BY <1>9, <2>1, <3>1, <3>2, <3>3, <3>4 DEF Listed, JoinInv
  <2> QED
    BY <1>1, <2>1 DEF JoinInv, InList, HoldsId, InGone, Playing
<1>13. WelcomeInv'
  <2>1. ASSUME NEW c \in Clients, NEW i \in Welcomes(down'[c])
        PROVE  /\ ~InGone(conn[c])'
               /\ client[c].status = "joining" /\ client[c].level = level => slot'[i].net = conn[c]
    <3>1. i \in Welcomes(down[c]) /\ i \in Slots
      <4>1. Welcomes(down'[c]) = Welcomes(down[c]) /\ down[c] \in Seq(Messages)
        BY <1>2, ToldConnected DEF Types
      <4> QED
        BY <4>1, WelcomesAreSlots
    <3>2. /\ ~InGone(conn[c])
          /\ client[c].status = "joining" /\ client[c].level = level => slot[i].net = conn[c]
      BY <3>1 DEF Listed, WelcomeInv
    <3>3. conn[c] # id
      BY <1>4, <3>2
    <3>4. ~InGone(conn[c])'
      BY <1>1, <1>5, <3>2 DEF InGone
    <3> QED
      BY <1>9, <3>1, <3>2, <3>3, <3>4
  <2> QED
    BY <1>1, <2>1 DEF WelcomeInv, InGone
<1>14. AnnounceInv'
  <2>1. ASSUME NEW c \in Clients, NEW i \in Announces(up[c])
        PROVE  slot'[i].net = conn[c] /\ InLevel(c) /\ ~InGone(conn[c])'
    <3>1. slot[i].net = conn[c] /\ InLevel(c) /\ ~InGone(conn[c])
      BY <1>1 DEF Listed, AnnounceInv
    <3>2. i \in Slots /\ conn[c] # id
      BY <1>4, <3>1, AnnouncesAreSlots DEF Types
    <3>3. ~InGone(conn[c])'
      BY <1>1, <1>5, <3>1 DEF InGone
    <3> QED
      BY <1>9, <3>1, <3>2, <3>3
  <2> QED
    BY <1>1, <2>1 DEF AnnounceInv, InGone, InLevel
<1>15. JoinedInv'
  <2>1. ASSUME NEW i \in Slots, slot'[i].joined
        PROVE  /\ slot'[i].net = slot[i].net
               /\ InGone(slot[i].net)' \/ \E c \in Clients : conn[c] = slot[i].net /\ InLevel(c)
    <3>1. slot[i].joined /\ slot'[i] = slot[i] /\ slot[i].net # id
      BY <1>9, <2>1
    <3>2. InGone(slot[i].net) \/ \E c \in Clients : conn[c] = slot[i].net /\ InLevel(c)
      BY <1>1, <3>1 DEF Listed, JoinedInv
    <3>3. InGone(slot[i].net) => \E k \in DOMAIN gone' : gone'[k] = slot[i].net
      BY <1>6, <3>1 DEF InGone
    <3> QED
      BY <3>1, <3>2, <3>3 DEF InGone
  <2> QED
    BY <1>1, <2>1 DEF JoinedInv, InGone, InLevel
<1>16. PlayInv'
  <2>1. ASSUME NEW c \in Clients
        PROVE  Playing(c) => ~InGone(conn[c])'
    BY <1>1, <1>5 DEF Listed, PlayInv, InGone
  <2>2. ASSUME NEW c \in Clients, NEW i \in Slots, slot'[i].net = conn[c], conn[c] # NoId
        PROVE  client[c].level >= level /\ (Playing(c) => client[c].slot = i)
    <3>1. slot[i].net = conn[c]
      BY <1>9, <2>2
    <3> QED
      BY <2>2, <3>1 DEF Listed, PlayInv
  <2> QED
    BY <1>1, <2>1, <2>2 DEF PlayInv, InGone, Playing
<1> QED
  BY <1>9, <1>10, <1>11, <1>12, <1>13, <1>14, <1>15, <1>16 DEF Listed

LEMMA DropListed ==
    ASSUME Types, Types', ConnInv, Listed, NEW k \in Slots, DropSilent(k)
    PROVE  Listed' /\ join' = join /\ \A i \in Slots : slot'[i].net \in {slot[i].net, NoId}
<1>1. /\ slot[k].joined /\ mode = "game" /\ slot' = [slot EXCEPT ![k] = Free]
      /\ \A c \in Clients : conn[c] = slot[k].net => up[c] = <<>>
      /\ UNCHANGED <<join, destroyed, mode, level, conn, up, gone, client>>
  BY DEF DropSilent, HostRuns
<1>2. \A c \in Clients : Welcomes(down'[c]) = Welcomes(down[c]) /\ down[c] \in Seq(Messages)
  <2>1. Told(down, Sent(down, slot[k].net, <<Quit>>))
    BY Answers, ToldSent DEF Types
  <2>2. down' = Sent(down, slot[k].net, <<Quit>>)
    BY DEF DropSilent
  <2> QED
    BY <2>1, <2>2, ToldConnected DEF Types
<1>3. slot'[k] = Free /\ \A i \in Slots \ {k} : slot'[i] = slot[i]
  BY <1>1 DEF Types
<1>4. Free.net = NoId /\ ~Free.joined
  BY DEF Free
<1>5. \A i \in Slots : /\ slot'[i].net \in {slot[i].net, NoId}
                       /\ slot'[i].joined => slot'[i] = slot[i]
                       /\ slot'[i].net # NoId => slot'[i] = slot[i]
  BY <1>3, <1>4
<1>6. slot[k].net # NoId
  BY <1>1 DEF Listed, ListInv
<1>7. \A id : id # NoId /\ ~InList(id) => ~InList(id)'
  BY <1>5 DEF InList, HoldsId
<1>8. \A id : InGone(id)' <=> InGone(id)
  BY <1>1 DEF InGone
<1>9. ListInv'
  BY <1>5 DEF Listed, ListInv
<1>10. JoinInv'
  <2>1. ASSUME join.active
        PROVE  join.to # NoId /\ ~InList(join.to)' /\ slot'[join.idx].net = NoId /\ ~InGone(join.to)'
    <3>1. /\ join.idx \in Slots /\ join.to # NoId /\ ~InList(join.to) /\ slot[join.idx].net = NoId
          /\ ~InGone(join.to)
      BY <2>1 DEF Types, JoinStates, Listed, JoinInv
    <3>2. ~InList(join.to)' /\ ~InGone(join.to)'
      BY <1>1, <1>7, <1>8, <3>1
    <3> QED
      BY <1>5, <3>1, <3>2
  <2> QED
    BY <1>1, <2>1 DEF Listed, JoinInv, InList, HoldsId, InGone, Playing
<1>11. WelcomeInv'
  <2>1. ASSUME NEW c \in Clients, NEW i \in Welcomes(down'[c])
        PROVE  /\ ~InGone(conn[c])
               /\ client[c].status = "joining" /\ client[c].level = level => slot'[i].net = conn[c]
    <3>1. i \in Welcomes(down[c]) /\ i \in Slots
      BY <1>2, WelcomesAreSlots
    <3>2. /\ ~InGone(conn[c])
          /\ client[c].status = "joining" /\ client[c].level = level => slot[i].net = conn[c]
      BY <3>1 DEF Listed, WelcomeInv
    <3>3. CASE i # k
      BY <1>3, <3>1, <3>2, <3>3
    <3>4. ASSUME i = k, client[c].status = "joining", client[c].level = level
          PROVE  FALSE
      <4>1. conn[c] = slot[k].net
        BY <3>2, <3>4
      <4>2. InGone(slot[k].net) \/ \E d \in Clients : conn[d] = slot[k].net /\ InLevel(d)
        BY <1>1 DEF Listed, JoinedInv
      <4>3. PICK d \in Clients : conn[d] = slot[k].net /\ InLevel(d)
        BY <3>2, <4>1, <4>2
      <4>4. d = c
        BY <1>6, <4>1, <4>3 DEF ConnInv
      <4> QED
        BY <3>4, <4>3, <4>4 DEF InLevel
    <3> QED
      BY <3>2, <3>3, <3>4
  <2> QED
    BY <1>1, <2>1 DEF WelcomeInv, InGone
<1>12. AnnounceInv'
  <2>1. ASSUME NEW c \in Clients, NEW i \in Announces(up[c])
        PROVE  slot'[i].net = conn[c] /\ InLevel(c) /\ ~InGone(conn[c])
    <3>1. slot[i].net = conn[c] /\ InLevel(c) /\ ~InGone(conn[c])
      BY <1>1 DEF Listed, AnnounceInv
    <3>2. i \in Slots
      BY AnnouncesAreSlots DEF Types
    <3>3. i # k
      BY <1>1, <3>1, SlottedNone DEF Announces
    <3> QED
      BY <1>3, <3>1, <3>2, <3>3
  <2> QED
    BY <1>1, <2>1 DEF AnnounceInv, InGone, InLevel
<1>13. JoinedInv'
  <2>1. \A i \in Slots : slot'[i].joined => slot[i].joined /\ slot'[i].net = slot[i].net
    BY <1>5
  <2> QED
    BY <1>1, <2>1 DEF Listed, JoinedInv, InGone, InLevel
<1>14. PlayInv'
  <2>1. \A c \in Clients, i \in Slots :
            slot'[i].net = conn[c] /\ conn[c] # NoId => slot[i].net = conn[c]
    BY <1>5
  <2> QED
    BY <1>1, <2>1 DEF Listed, PlayInv, InGone, Playing
<1> QED
  BY <1>1, <1>5, <1>9, <1>10, <1>11, <1>12, <1>13, <1>14 DEF Listed

\* The player that was joining gets the slot that was free all the time.
LEMMA GivesListed ==
    ASSUME Types, Types', ConnInv, Listed, Gives
    PROVE  Listed'
<1> DEFINE k == join.idx
           id == join.to
<1>1. /\ mode = "game" /\ join.active
      /\ UNCHANGED <<destroyed, mode, level, conn, up, gone, client, left>>
      /\ slot' = [slot EXCEPT ![k].net = id] /\ join' = NoSync
  BY DEF Gives
<1>2. k \in Slots /\ id # NoId /\ ~InList(id) /\ slot[k].net = NoId /\ ~InGone(id)
      /\ \A c \in Clients : conn[c] = id => client[c].level = level /\ ~Playing(c)
  BY <1>1 DEF Listed, JoinInv, Types, JoinStates
<1>3. slot'[k].net = id /\ slot'[k].joined = slot[k].joined /\ \A i \in Slots \ {k} : slot'[i] = slot[i]
  BY <1>1, <1>2 DEF Types
<1>4. ASSUME NEW c \in Clients, NEW i \in Welcomes(down'[c])
      PROVE  i \in Welcomes(down[c]) \/ (i = k /\ conn[c] = id)
  <2>1. PICK snap \in Seq(Messages) : /\ Welcomes(snap) = {}
                                      /\ down' = Sent(down, id, snap \o <<LeaveJoin, Welcome(k)>>)
    BY DEF Gives
  <2> DEFINE r == <<LeaveJoin, Welcome(k)>>
  <2>2. r \in Seq(Messages) /\ Welcomes(r) = {k} /\ down[c] \in Seq(Messages)
    BY <1>2, Answers DEF Types
  <2>3. down' = Sent(down, id, snap \o r)
    BY <2>1
  <2> HIDE DEF r
  <2>4. snap \o r \in Seq(Messages) /\ Welcomes(snap \o r) = {k}
    BY <2>1, <2>2, WelcomesConcat
  <2> DEFINE all == snap \o r
  <2>5. all \in Seq(Messages) /\ Welcomes(all) = {k} /\ down' = Sent(down, id, all)
    BY <2>3, <2>4
  <2> HIDE DEF all
  <2>6. Welcomes(down[c] \o all) = Welcomes(down[c]) \cup Welcomes(all)
    BY <2>2, <2>5, WelcomesConcat
  <2>7. down'[c] = down[c] \/ (conn[c] = id /\ down'[c] = down[c] \o all)
    BY <2>5, SentTo
  <2>8. CASE down'[c] = down[c]
    BY <1>4, <2>8
  <2>9. CASE conn[c] = id /\ down'[c] = down[c] \o all
    BY <1>4, <2>5, <2>6, <2>9
  <2> QED
    BY <2>7, <2>8, <2>9
<1> HIDE DEF k, id
<1>5. /\ \A i \in Slots : slot[i].net # NoId => i # k /\ slot[i].net # id
      /\ \A i \in Slots : slot'[i].joined => i # k /\ slot'[i] = slot[i] /\ slot[i].net # NoId
  BY <1>2, <1>3 DEF InList, HoldsId, Listed, ListInv
<1>6. ListInv'
  BY <1>2, <1>3, <1>5 DEF Listed, ListInv
<1>7. JoinInv'
  BY <1>1, NoSyncTyped DEF JoinInv, Types
<1>8. WelcomeInv'
  <2>1. ASSUME NEW c \in Clients, NEW i \in Welcomes(down'[c])
        PROVE  /\ ~InGone(conn[c])
               /\ client[c].status = "joining" /\ client[c].level = level => slot'[i].net = conn[c]
    <3>1. CASE i = k /\ conn[c] = id
      BY <1>2, <1>3, <3>1
    <3>2. CASE i \in Welcomes(down[c])
      <4>1. /\ ~InGone(conn[c])
            /\ client[c].status = "joining" /\ client[c].level = level => slot[i].net = conn[c]
        BY <3>2 DEF Listed, WelcomeInv
      <4>2. i \in Slots /\ (client[c].status = "joining" => conn[c] # NoId)
        BY <3>2, WelcomesAreSlots DEF Types, ConnInv
      <4> QED
        BY <1>3, <1>5, <4>1, <4>2
    <3> QED
      BY <1>4, <3>1, <3>2
  <2> QED
    BY <1>1, <2>1 DEF WelcomeInv, InGone
<1>9. AnnounceInv'
  <2>1. ASSUME NEW c \in Clients, NEW i \in Announces(up[c])
        PROVE  slot'[i].net = conn[c] /\ InLevel(c) /\ ~InGone(conn[c])
    <3>1. slot[i].net = conn[c] /\ InLevel(c) /\ ~InGone(conn[c])
      BY <1>1 DEF Listed, AnnounceInv
    <3>2. i \in Slots /\ conn[c] # NoId
      BY <3>1, AnnouncesAreSlots DEF Types, ConnInv, InLevel
    <3> QED
      BY <1>3, <1>5, <3>1, <3>2
  <2> QED
    BY <1>1, <2>1 DEF AnnounceInv, InGone, InLevel
<1>10. JoinedInv'
  <2>1. \A i \in Slots : slot'[i].joined => slot[i].joined /\ slot'[i].net = slot[i].net
    BY <1>5
  <2> QED
    BY <1>1, <2>1 DEF Listed, JoinedInv, InGone, InLevel
<1>11. PlayInv'
  <2>1. ASSUME NEW c \in Clients, NEW i \in Slots, slot'[i].net = conn[c], conn[c] # NoId
        PROVE  client[c].level >= level /\ (Playing(c) => client[c].slot = i)
    <3>1. CASE i = k
      <4>1. client[c].level = level /\ ~Playing(c)
        BY <1>2, <1>3, <2>1, <3>1
      <4> QED
        BY <4>1, LevelsAreNumbers
    <3>2. CASE i # k
      <4>1. slot[i].net = conn[c]
        BY <1>3, <2>1, <3>2
      <4> QED
        BY <2>1, <4>1 DEF Listed, PlayInv
    <3> QED
      BY <3>1, <3>2
  <2> QED
    BY <1>1, <2>1 DEF Listed, PlayInv, InGone, Playing
<1> QED
  BY <1>6, <1>7, <1>8, <1>9, <1>10, <1>11 DEF Listed

\* A player that joins takes up its welcome, in the level it is for.
LEMMA TakesUpBecomes ==
    ASSUME Types, NEW c \in Clients, NEW i \in Slots, TakesUpWelcome(c, i),
           down[c] # <<>>, down' = [down EXCEPT ![c] = Tail(@)], UNCHANGED <<host, conn, gone>>
    PROVE  /\ client[c].status = "joining" /\ client'[c].status = "playing"
           /\ client'[c].slot = i /\ client'[c].level = client[c].level
           /\ client'[c].first = client[c].first /\ client'[c].got = client[c].got
           /\ client'[c].owed = client[c].owed
           /\ \A d \in Clients \ {c} : /\ client'[d] = client[d]
                                       /\ up'[d] = up[d] /\ down'[d] = down[d]
           /\ down'[c] = Tail(down[c]) /\ Announces(up'[c]) = Announces(up[c]) \cup {i}
           /\ InOrder' => InOrder /\ client[c].level = level
<1>1. /\ client \in [Clients -> PlayerStates] /\ client[c] \in PlayerStates
      /\ up \in [Clients -> Seq(UpMsg)] /\ down \in [Clients -> Seq(Messages)] /\ left \in Lefts
  BY DEF Types
<1>2. /\ client[c].status = "joining"
      /\ client' = [client EXCEPT ![c].status = "playing", ![c].slot = i]
      /\ up' = [up EXCEPT ![c] = up[c] \o <<Announce(i), Announce(i)>>]
      /\ left' = IF client[c].level = level THEN left
                 ELSE [left EXCEPT !.odd = left.odd \cup {"late"}]
  BY DEF TakesUpWelcome
<1>3. /\ client'[c].status = "playing"
      /\ client'[c].slot = i /\ client'[c].level = client[c].level
      /\ client'[c].first = client[c].first /\ client'[c].got = client[c].got
      /\ client'[c].owed = client[c].owed
  BY <1>1, <1>2 DEF PlayerStates
<1>4. \A d \in Clients \ {c} : client'[d] = client[d] /\ up'[d] = up[d] /\ down'[d] = down[d]
  BY <1>1, <1>2
<1>5. Announces(up'[c]) = Announces(up[c]) \cup {i}
  <2> DEFINE r == <<Announce(i), Announce(i)>>
  <2>1. Announce(i) \in UpMsg /\ Announce(i).kind = "announce" /\ Announce(i).slot = i
    BY UpMade
  <2>2. r \in Seq(UpMsg) /\ Announces(r) = {i}
    <3>1. \A kind : Slotted(r, kind) = Slotted(<<Announce(i)>>, kind) \cup Slotted(<<Announce(i)>>, kind)
      BY <2>1, PairSeq
    <3>2. Slotted(<<Announce(i)>>, "announce") = {i}
      BY <2>1, SlottedOne
    <3> QED
      BY <2>1, <3>1, <3>2, PairSeq DEF Announces
  <2>3. up'[c] = up[c] \o r
    BY <1>1, <1>2
  <2> HIDE DEF r
  <2>4. Announces(up[c] \o r) = Announces(up[c]) \cup Announces(r)
    BY <1>1, <2>2, AnnouncesConcat
  <2> QED
    BY <2>2, <2>3, <2>4
<1>6. InOrder' => InOrder /\ client[c].level = level
  BY <1>1, <1>2 DEF InOrder, Lefts
<1> QED
  BY <1>1, <1>2, <1>3, <1>4, <1>5, <1>6

LEMMA TakesUpListed ==
    ASSUME Types, Types', ConnInv, LevelInv, Listed,
           NEW c \in Clients, NEW i \in Slots, TakesUpWelcome(c, i), i \in Welcomes(down[c]),
           down[c] # <<>>, down' = [down EXCEPT ![c] = Tail(@)], UNCHANGED <<host, conn, gone>>,
           client[c].level = level
    PROVE  Listed'
<1>1. /\ client[c].status = "joining" /\ client'[c].status = "playing"
      /\ client'[c].slot = i /\ client'[c].level = level
      /\ \A d \in Clients \ {c} : /\ client'[d] = client[d]
                                  /\ up'[d] = up[d] /\ down'[d] = down[d]
      /\ down'[c] = Tail(down[c]) /\ Announces(up'[c]) = Announces(up[c]) \cup {i}
  BY TakesUpBecomes
<1>2. UNCHANGED <<slot, join, mode, level, conn, gone>>
  BY DEF host
<1>3. slot[i].net = conn[c] /\ ~InGone(conn[c]) /\ conn[c] # NoId
  BY <1>1 DEF Listed, WelcomeInv, ConnInv
<1>4. InList(conn[c])
  BY <1>3 DEF InList, HoldsId
<1>5. ListInv'
  BY <1>2 DEF Listed, ListInv
<1>6. JoinInv'
  <2>1. ASSUME join.active, NEW d \in Clients, conn[d] = join.to
        PROVE  client'[d].level = level /\ ~Playing(d)'
    <3>1. d # c
      BY <1>4, <2>1 DEF Listed, JoinInv
    <3> QED
      BY <1>1, <2>1, <3>1 DEF Listed, JoinInv, Playing
  <2> QED
    BY <1>2, <2>1 DEF Listed, JoinInv, InList, HoldsId, InGone
<1>7. WelcomeInv'
  <2>1. Welcomes(Tail(down[c])) \subseteq Welcomes(down[c])
    <3>1. down[c] \in Seq(Messages)
      BY DEF Types
    <3> QED
      BY <3>1, SlottedTail DEF Welcomes
  <2> QED
    BY <1>1, <1>2, <1>3, <2>1 DEF Listed, WelcomeInv, InGone
<1>8. AnnounceInv'
  <2>1. ASSUME mode = "game", NEW d \in Clients, NEW j \in Announces(up'[d])
        PROVE  slot[j].net = conn[d] /\ InLevel(d)' /\ ~InGone(conn[d])
    <3>1. CASE d = c
      <4>1. InLevel(c)'
        BY <1>1, <1>2 DEF InLevel
      <4>2. j = i \/ j \in Announces(up[c])
        BY <1>1, <2>1, <3>1
      <4> QED
        BY <1>3, <2>1, <3>1, <4>1, <4>2 DEF Listed, AnnounceInv
    <3>2. CASE d # c
      BY <1>1, <1>2, <2>1, <3>2 DEF Listed, AnnounceInv, InLevel
    <3> QED
      BY <3>1, <3>2
  <2> QED
    BY <1>2, <2>1 DEF AnnounceInv, InGone
<1>9. JoinedInv'
  <2>1. \A d \in Clients : InLevel(d) => InLevel(d)'
    BY <1>1, <1>2 DEF InLevel
  <2> QED
    BY <1>2, <2>1 DEF Listed, JoinedInv, InGone
<1>10. PlayInv'
  <2>1. ASSUME NEW d \in Clients
        PROVE  /\ Playing(d)' => ~InGone(conn[d])
               /\ \A j \in Slots : slot[j].net = conn[d] /\ conn[d] # NoId =>
                     client'[d].level >= level /\ (Playing(d)' => client'[d].slot = j)
    <3>1. CASE d = c
      <4>1. \A j \in Slots : slot[j].net = conn[c] => j = i
        BY <1>3 DEF Listed, ListInv
      <4> QED
        BY <1>1, <1>3, <3>1, <4>1, LevelsAreNumbers
    <3>2. CASE d # c
      BY <1>1, <3>2 DEF Listed, PlayInv, Playing
    <3> QED
      BY <3>1, <3>2
  <2> QED
    BY <1>2, <2>1 DEF PlayInv, InGone
<1> QED
  BY <1>5, <1>6, <1>7, <1>8, <1>9, <1>10 DEF Listed

LEMMA ConnectListed ==
    ASSUME Types, Types', ConnInv, Listed, NEW c \in Clients, Connect(c)
    PROVE  Listed'
<1>1. /\ \A d \in Clients \ {c} : client'[d] = client[d] /\ conn'[d] = conn[d]
      /\ client'[c].status = "joining" /\ client'[c].level = level /\ client[c].status = "out"
      /\ UNCHANGED <<slot, join, mode, level, up, down, gone>>
  BY ConnectBecomes
<1>2. up[c] = <<>> /\ down[c] = <<>> /\ conn[c] = NoId
  BY <1>1 DEF ConnInv
<1>3. Welcomes(down[c]) = {} /\ Announces(up[c]) = {}
  BY <1>2, SlottedNone DEF Welcomes, Announces
<1>4. level >= level
  BY LevelsAreNumbers
<1>5. ListInv'
  BY <1>1 DEF Listed, ListInv
<1>6. JoinInv'
  BY <1>1 DEF Listed, JoinInv, InList, HoldsId, InGone, Playing
<1>7. WelcomeInv'
  BY <1>1, <1>3 DEF Listed, WelcomeInv, InGone
<1>8. AnnounceInv'
  <2>1. ASSUME mode = "game", NEW d \in Clients, NEW i \in Announces(up[d])
        PROVE  slot[i].net = conn'[d] /\ InLevel(d)' /\ ~InGone(conn[d]) /\ conn'[d] = conn[d]
    <3>1. d # c
      BY <1>3, <2>1
    <3> QED
      BY <1>1, <2>1, <3>1 DEF Listed, AnnounceInv, InLevel
  <2> QED
    BY <1>1, <2>1 DEF AnnounceInv, InGone
<1>9. JoinedInv'
  <2>1. \A d \in Clients : InLevel(d) => d # c /\ InLevel(d)' /\ conn'[d] = conn[d]
    BY <1>1 DEF InLevel
  <2> QED
    BY <1>1, <2>1 DEF Listed, JoinedInv, InGone
<1>10. PlayInv'
  BY <1>1, <1>4 DEF Listed, PlayInv, InGone, Playing
<1> QED
  BY <1>5, <1>6, <1>7, <1>8, <1>9, <1>10 DEF Listed

LEMMA ClosedListed ==
    ASSUME Types, Types', ConnInv, Listed, NEW c \in Clients, Leave(c) \/ Vanish(c)
    PROVE  Listed'
<1>1. /\ conn[c] \in Ids /\ conn'[c] = NoId /\ client'[c].status = "out"
      /\ up'[c] = <<>> /\ down'[c] = <<>>
      /\ \A d \in Clients \ {c} : /\ client'[d] = client[d] /\ conn'[d] = conn[d]
                                  /\ up'[d] = up[d] /\ down'[d] = down[d]
                                  /\ conn[d] # conn[c]
      /\ UNCHANGED <<slot, join, mode, level>>
  BY ClosedBecomes DEF host, Out
<1>2. \A id : InGone(id)' <=> InGone(id) \/ (id = conn[c] /\ InList(id))
  BY ClosedBecomes
<1>3. \A id : (\E k \in DOMAIN gone' : gone'[k] = id) <=> InGone(id) \/ (id = conn[c] /\ InList(id))
  BY <1>2 DEF InGone
<1>4. conn[c] # NoId
  BY <1>1, NoIdIsNone
<1>5. Welcomes(<<>>) = {} /\ Announces(<<>>) = {}
  BY SlottedNone DEF Welcomes, Announces
<1>6. ListInv'
  BY <1>1 DEF Listed, ListInv
<1>7. JoinInv'
  <2>1. ASSUME join.active
        PROVE  ~(\E k \in DOMAIN gone' : gone'[k] = join.to)
    BY <1>3, <2>1 DEF Listed, JoinInv
  <2>2. ASSUME join.active, NEW d \in Clients, conn'[d] = join.to
        PROVE  client'[d].level = level /\ ~Playing(d)'
    <3>1. join.to # NoId
      BY <2>2 DEF Listed, JoinInv
    <3>2. d # c
      BY <1>1, <2>2, <3>1
    <3> QED
      BY <1>1, <2>2, <3>2 DEF Listed, JoinInv, Playing
  <2> QED
    BY <1>1, <2>1, <2>2 DEF Listed, JoinInv, InList, HoldsId, InGone
<1>8. WelcomeInv'
  <2>1. ASSUME NEW d \in Clients, NEW i \in Welcomes(down'[d])
        PROVE  /\ d # c /\ i \in Welcomes(down[d])
               /\ ~(\E k \in DOMAIN gone' : gone'[k] = conn[d])
    <3>1. d # c
      BY <1>1, <1>5, <2>1
    <3> QED
      BY <1>1, <1>3, <2>1, <3>1 DEF Listed, WelcomeInv
  <2> QED
    BY <1>1, <2>1 DEF Listed, WelcomeInv, InGone
<1>9. AnnounceInv'
  <2>1. ASSUME mode = "game", NEW d \in Clients, NEW i \in Announces(up'[d])
        PROVE  /\ d # c /\ slot[i].net = conn[d] /\ InLevel(d)'
               /\ ~(\E k \in DOMAIN gone' : gone'[k] = conn[d])
    <3>1. d # c
      BY <1>1, <1>5, <2>1
    <3> QED
      BY <1>1, <1>3, <2>1, <3>1 DEF Listed, AnnounceInv, InLevel
  <2> QED
    BY <1>1, <2>1 DEF AnnounceInv, InGone
<1>10. JoinedInv'
  <2>1. ASSUME mode = "game", NEW i \in Slots, slot[i].joined
        PROVE  \/ \E k \in DOMAIN gone' : gone'[k] = slot[i].net
               \/ \E d \in Clients : conn'[d] = slot[i].net /\ InLevel(d)'
    <3>1. CASE InGone(slot[i].net)
      BY <1>3, <3>1
    <3>2. ASSUME NEW d \in Clients, conn[d] = slot[i].net, InLevel(d)
          PROVE  \/ \E k \in DOMAIN gone' : gone'[k] = slot[i].net
                 \/ \E e \in Clients : conn'[e] = slot[i].net /\ InLevel(e)'
      <4>1. CASE d = c
        <5>1. InList(slot[i].net) /\ slot[i].net = conn[c]
          BY <3>2, <4>1 DEF InList, HoldsId
        <5> QED
          BY <1>3, <5>1
      <4>2. CASE d # c
        BY <1>1, <3>2, <4>2 DEF InLevel
      <4> QED
        BY <4>1, <4>2
    <3> QED
      BY <2>1, <3>1, <3>2 DEF Listed, JoinedInv
  <2> QED
    BY <1>1, <2>1 DEF JoinedInv, InGone
<1>11. PlayInv'
  <2>1. ASSUME NEW d \in Clients, d # c
        PROVE  /\ Playing(d)' => ~(\E k \in DOMAIN gone' : gone'[k] = conn'[d])
               /\ \A i \in Slots : slot[i].net = conn'[d] /\ conn'[d] # NoId =>
                     client'[d].level >= level /\ (Playing(d)' => client'[d].slot = i)
    BY <1>1, <1>3, <2>1 DEF Listed, PlayInv, Playing
  <2>2. ~Playing(c)'
    BY <1>1 DEF Playing
  <2> QED
    BY <1>1, <2>1, <2>2 DEF PlayInv, InGone
<1> QED
  BY <1>6, <1>7, <1>8, <1>9, <1>10, <1>11 DEF Listed

LEMMA NextLevelListed ==
    ASSUME Types, Types', ConnInv, LevelInv, Listed, NEW c \in Clients, NextLevel(c)
    PROVE  Listed'
<1>1. /\ client[c].status = "playing" /\ (client[c].level < level \/ mode # "game")
      /\ client'[c].status = "joining" /\ client'[c].level = client[c].level + 1
      /\ client[c].level \in 1 .. level
      /\ down'[c] = <<>>
      /\ \A d \in Clients \ {c} : client'[d] = client[d] /\ down'[d] = down[d]
      /\ UNCHANGED <<slot, join, mode, level, conn, up, gone>>
  BY NextLevelBecomes DEF host
<1>2. level \in Nat /\ client[c].level \in Nat
  BY LevelsAreNumbers
<1>3. mode = "game" => ~InLevel(c)
  BY <1>1, <1>2 DEF InLevel
<1>4. ListInv'
  BY <1>1 DEF Listed, ListInv
<1>5. JoinInv'
  <2>1. join.active => conn[c] # join.to
    BY <1>1 DEF Listed, JoinInv, Playing
  <2> QED
    BY <1>1, <2>1 DEF Listed, JoinInv, InList, HoldsId, InGone, Playing
<1>6. WelcomeInv'
  <2>1. Welcomes(down'[c]) = {}
    BY <1>1, SlottedNone DEF Welcomes
  <2> QED
    BY <1>1, <2>1 DEF Listed, WelcomeInv, InGone
<1>7. AnnounceInv'
  <2>1. ASSUME mode = "game", NEW d \in Clients, NEW i \in Announces(up[d])
        PROVE  slot[i].net = conn[d] /\ InLevel(d)' /\ ~InGone(conn[d])
    <3>1. slot[i].net = conn[d] /\ InLevel(d) /\ ~InGone(conn[d])
      BY <2>1 DEF Listed, AnnounceInv
    <3> QED
      BY <1>1, <1>3, <2>1, <3>1 DEF InLevel
  <2> QED
    BY <1>1, <2>1 DEF AnnounceInv, InGone
<1>8. JoinedInv'
  <2>1. mode = "game" => \A d \in Clients : InLevel(d) => InLevel(d)'
    BY <1>1, <1>3 DEF InLevel
  <2> QED
    BY <1>1, <2>1 DEF Listed, JoinedInv, InGone
<1>9. PlayInv'
  <2>1. ASSUME NEW i \in Slots, slot[i].net = conn[c], conn[c] # NoId
        PROVE  client'[c].level >= level
    <3>1. client[c].level >= level
      BY <2>1 DEF Listed, PlayInv
    <3> QED
      BY <1>1, <1>2, <3>1
  <2> QED
    BY <1>1, <2>1 DEF Listed, PlayInv, InGone, Playing
<1> QED
  BY <1>4, <1>5, <1>6, <1>7, <1>8, <1>9 DEF Listed

LEMMA OpensListed ==
    ASSUME Types, Types', ConnInv, LevelInv, OpenLevel
    PROVE  Listed'
<1>1. /\ mode = "lobby" /\ mode' = "game" /\ level' = level + 1
      /\ \A i \in Slots : slot'[i].net = NoId /\ ~slot'[i].joined
      /\ ~join'.active /\ \A c \in Clients : up'[c] = <<>>
      /\ UNCHANGED <<conn, down, client>>
  BY OpensBecomes
<1>2. \A id : ~(\E k \in DOMAIN gone' : gone'[k] = id)
  BY OpensBecomes DEF InGone
<1>3. \A c \in Clients : Announces(up'[c]) = {}
  BY <1>1, SlottedNone DEF Announces
<1>4. ListInv' /\ JoinInv' /\ AnnounceInv' /\ JoinedInv'
  BY <1>1, <1>3 DEF ListInv, JoinInv, AnnounceInv, JoinedInv
<1>5. WelcomeInv'
  <2>1. ASSUME NEW c \in Clients, client[c].level = level'
        PROVE  Welcomes(down[c]) = {}
    <3>1. client[c].level > level
      BY <1>1, <2>1, LevelsAreNumbers
    <3> QED
      BY <3>1 DEF LevelInv
  <2> QED
    BY <1>1, <1>2, <2>1 DEF WelcomeInv, InGone
<1>6. PlayInv'
  BY <1>1, <1>2 DEF PlayInv, InGone
<1> QED
  BY <1>4, <1>5, <1>6 DEF Listed

-----------------------------------------------------------------------------
(* The world                                                                 *)

LEMMA ItemsBoth ==
    \A q, r \in Seq(Messages) : Items(q) \subseteq Items(q \o r) /\ Items(r) \subseteq Items(q \o r)
<1>1. ASSUME NEW q \in Seq(Messages), NEW r \in Seq(Messages)
      PROVE  Items(q) \subseteq Items(q \o r) /\ Items(r) \subseteq Items(q \o r)
  <2>1. Len(q \o r) \in Len(q) .. Len(q) + Len(r)
    OBVIOUS
  <2>2. /\ \A n \in Len(q) .. Len(q) + Len(r) : Items(q) \subseteq ItemsTo(q \o r, n)
        /\ Items(r) \subseteq Items(q \o r)
    BY ItemsConcat
  <2>3. Items(q \o r) = ItemsTo(q \o r, Len(q \o r))
    BY DEF Items
  <2> QED
    BY <2>1, <2>2, <2>3
<1> QED
  BY <1>1

\* A player loses nothing of what it has, or is about to read.
KeepsWorld(c) ==
    /\ client'[c].first = client[c].first /\ client'[c].level = client[c].level
    /\ client'[c].owed = client[c].owed
    /\ client[c].got \subseteq client'[c].got
    /\ InHand(c) \subseteq InHand(c)'
    /\ Playing(c)' => Playing(c)
    /\ client'[c].status = "joining" =>
          /\ client[c].status = "joining"
          /\ client[c].first /\ Founded(down[c], client[c].got, Due(c)) =>
                Founded(down'[c], client'[c].got, Due(c))
    /\ \A i \in Slots : slot'[i].net = conn[c] /\ conn[c] # NoId => \E j \in Slots : slot[j].net = conn[c]

LEMMA HoldKept ==
    ASSUME HoldInv, NEW c \in Clients, KeepsWorld(c), conn'[c] = conn[c], level' = level,
           client'[c].first
    PROVE  HoldOf(c)'
<1>1. HoldOf(c) /\ Due(c)' = Due(c)
  BY DEF HoldInv, KeepsWorld, Due
<1>2. ASSUME NEW i \in Slots, slot'[i].net = conn[c], conn[c] # NoId, client[c].level = level
      PROVE  Due(c) \subseteq InHand(c)'
  <2>1. PICK j \in Slots : slot[j].net = conn[c]
    BY <1>2 DEF KeepsWorld
  <2>2. Due(c) \subseteq InHand(c)
    BY <1>1, <1>2, <2>1 DEF HoldOf
  <2> QED
    BY <2>2 DEF KeepsWorld
<1>3. client'[c].status = "joining" => Founded(down'[c], client'[c].got, Due(c))
  BY <1>1 DEF HoldOf, KeepsWorld
<1>4. Playing(c)' => Due(c) \subseteq client'[c].got
  BY <1>1 DEF HoldOf, KeepsWorld
<1> QED
  BY <1>1, <1>2, <1>3, <1>4 DEF HoldOf, KeepsWorld

LEMMA WorldKept ==
    ASSUME TransferInv, HoldInv, UNCHANGED <<conn, level>>,
           \A c \in Clients : KeepsWorld(c),
           join'.active => /\ join.active /\ join'.to = join.to
                           /\ Swept(join'.stage, join'.cursor) \subseteq Swept(join.stage, join.cursor)
    PROVE  TransferInv' /\ HoldInv'
<1>1. HoldInv'
  BY HoldKept DEF HoldInv
<1>2. ASSUME join'.active, NEW c \in Clients, client'[c].first, conn'[c] = join'.to
      PROVE  Swept(join'.stage, join'.cursor) \subseteq InHand(c)'
  <2>1. Swept(join.stage, join.cursor) \subseteq InHand(c)
    BY <1>2 DEF TransferInv, KeepsWorld
  <2> QED
    BY <1>2, <2>1 DEF KeepsWorld
<1>3. TransferInv'
  BY <1>2 DEF TransferInv, Swept
<1> QED
  BY <1>1, <1>3

LEMMA ToldKeepsWorld ==
    ASSUME Types, NEW c \in Clients, client'[c] = client[c], Told(down, down'),
           \A i \in Slots : slot'[i].net = conn[c] /\ conn[c] # NoId =>
               \E j \in Slots : slot[j].net = conn[c]
    PROVE  KeepsWorld(c)
<1>1. down \in [Clients -> Seq(Messages)]
  BY DEF Types
<1>2. /\ Items(down[c]) \subseteq Items(down'[c])
      /\ \A got, S : Founded(down[c], got, S) => Founded(down'[c], got, S)
  BY <1>1, ToldKeeps
<1> QED
  BY <1>2 DEF KeepsWorld, InHand, Playing

LEMMA QuietWorld ==
    ASSUME Types, TransferInv, HoldInv, Quiet, join'.active => join' = join
    PROVE  TransferInv' /\ HoldInv'
<1>1. ASSUME NEW c \in Clients
      PROVE  KeepsWorld(c)
  BY ToldKeepsWorld DEF Quiet
<1> QED
  BY <1>1, WorldKept DEF Quiet

\* A list that only got shorter, or stays.
LEMMA ShorterWorld ==
    ASSUME Types, TransferInv, HoldInv, UNCHANGED <<conn, level, client>>, Told(down, down'),
           \A i \in Slots : slot'[i].net \in {slot[i].net, NoId}, join'.active => join' = join
    PROVE  TransferInv' /\ HoldInv'
<1>1. ASSUME NEW c \in Clients
      PROVE  KeepsWorld(c)
  BY ToldKeepsWorld
<1> QED
  BY <1>1, WorldKept

LEMMA GoesWorld ==
    ASSUME Types, Listed, TransferInv, HoldInv, NEW items, Goes(items)
    PROVE  TransferInv' /\ HoldInv'
<1>1. PICK snap \in Seq(Messages) : /\ Welcomes(snap) = {} /\ items \subseteq Items(snap)
                                    /\ down' = Sent(down, join.to, snap)
  BY DEF Goes
<1>2. Told(down, down')
  <2>1. Told(down, Sent(down, join.to, snap))
    BY <1>1, ToldSent DEF Types
  <2> QED
    BY <1>1, <2>1
<1>3. ASSUME NEW c \in Clients
      PROVE  KeepsWorld(c)
  BY <1>2, ToldKeepsWorld DEF Goes
<1>4. HoldInv'
  BY <1>3, HoldKept DEF HoldInv, Goes
<1>5. ASSUME join'.active, NEW c \in Clients, client'[c].first, conn'[c] = join'.to
      PROVE  Swept(join'.stage, join'.cursor) \subseteq InHand(c)'
  <2>1. join.active /\ conn[c] = join.to /\ join.to # NoId /\ client[c].first
    BY <1>5 DEF Goes, Listed, JoinInv
  <2>2. Swept(join.stage, join.cursor) \subseteq InHand(c)
    BY <2>1 DEF TransferInv
  <2>3. down'[c] = down[c] \o snap /\ down[c] \in Seq(Messages)
    BY <1>1, <2>1, SentTo DEF Types
  <2>4. Items(snap) \subseteq Items(down'[c])
    BY <2>3, ItemsBoth
  <2> QED
    BY <1>1, <1>3, <2>2, <2>4 DEF Goes, KeepsWorld, InHand
<1>6. TransferInv'
  BY <1>5 DEF TransferInv, Swept
<1> QED
  BY <1>4, <1>6

LEMMA HeardOfWorld ==
    ASSUME Types, TransferInv, HoldInv, Stays, NEW c \in Clients, NEW i \in Slots, HeardOf(c, i)
    PROVE  TransferInv' /\ HoldInv'
<1>1. UNCHANGED <<conn, level, client, down, join>> /\ \A j \in Slots : slot'[j].net = slot[j].net
  BY DEF HeardOf, ReadsUp, Stays
<1>2. Told(down, down')
  BY <1>1, ToldSame DEF Types
<1> QED
  BY <1>1, <1>2, ShorterWorld

LEMMA RewelcomedWorld ==
    ASSUME Types, ConnInv, LevelInv, TransferInv, HoldInv, NEW c \in Clients, Rewelcomed(c)
    PROVE  TransferInv' /\ HoldInv'
<1> DEFINE i == SlotOf(conn[c])
           r == <<Welcome(i)>>
<1>1. /\ ReadsUp(c) /\ InList(conn[c]) /\ UNCHANGED <<slot, join, client>>
      /\ Head(up[c]).kind = "joinrequest" /\ Head(up[c]).level = level
      /\ down' = Sent(down, conn[c], r)
  BY DEF Rewelcomed
<1>2. mode = "game" /\ UNCHANGED <<conn, level>> /\ up[c] # <<>> /\ conn[c] # NoId
  BY <1>1 DEF ReadsUp, ConnInv
<1>3. i \in Slots /\ slot[i].net = conn[c]
  BY <1>1, SlotOfHolds
<1>4. r \in Seq(Messages)
  BY <1>3, Answers
<1> HIDE DEF i, r
<1>5. client[c].level = level
  BY <1>1, <1>2, RequestsLevel
<1>6. client[c].first => Due(c) \subseteq InHand(c)
  BY <1>2, <1>3, <1>5 DEF HoldInv, HoldOf
<1>7. ASSUME NEW d \in Clients
      PROVE  KeepsWorld(d)
  <2>1. down[d] \in Seq(Messages)
    BY DEF Types
  <2>2. CASE down'[d] = down[d]
    BY <1>1, <2>2 DEF KeepsWorld, InHand, Playing
  <2>3. CASE d = c /\ down'[c] = down[c] \o r
    <3>1. Items(down[c]) \subseteq Items(down'[c])
      BY <1>4, <2>1, <2>3, ItemsBoth
    <3>2. ASSUME client[c].first, Founded(down[c], client[c].got, Due(c))
          PROVE  Founded(down'[c], client[c].got, Due(c))
      <4>1. Due(c) \subseteq client[c].got \cup Items(down[c])
        BY <1>6, <3>2 DEF InHand
      <4> QED
        BY <1>4, <2>1, <2>3, <3>2, <4>1, FoundedConcat
    <3> QED
      BY <1>1, <2>3, <3>1, <3>2 DEF KeepsWorld, InHand, Playing
  <2> QED
    BY <1>1, <1>2, <1>4, <2>2, <2>3, SentTo DEF ConnInv
<1> QED
  BY <1>1, <1>2, <1>7, WorldKept

LEMMA FoundedUnwelcome ==
    ASSUME NEW q, Welcomes(q) = {}
    PROVE  \A got, S : Founded(q, got, S)
BY DEF Welcomes, Slotted, Founded

LEMMA TookUpWorld ==
    ASSUME Types, ConnInv, LevelInv, Listed, TransferInv, HoldInv, Stays, NEW c \in Clients, TookUp(c),
           ~Playing(c), client[c].level = level, ~InList(conn[c])
    PROVE  TransferInv' /\ HoldInv'
<1>1. /\ ReadsUp(c) /\ Told(down, down')
      /\ join' = [active |-> TRUE, to |-> conn[c], idx |-> FirstFree, stage |-> 2, cursor |-> 0]
      /\ client' = IF client[c].owed = {} THEN [client EXCEPT ![c].owed = WorldNow] ELSE client
  BY DEF TookUp
<1>2. /\ UNCHANGED <<conn, level>> /\ client \in [Clients -> PlayerStates]
      /\ \A j \in Slots : slot'[j].net = slot[j].net
  BY <1>1 DEF ReadsUp, Types, Stays
<1>3. ASSUME NEW d \in Clients, d # c
      PROVE  client'[d].first => HoldOf(d)'
  <2>1. client'[d] = client[d]
    BY <1>1, <1>2, <1>3
  <2>2. KeepsWorld(d)
    BY <1>1, <1>2, <2>1, ToldKeepsWorld
  <2> QED
    BY <1>2, <2>2, HoldKept
<1>4. HoldOf(c)'
  <2>1. client'[c].status = client[c].status /\ client'[c].got = client[c].got
    <3>1. CASE client' = client
      BY <3>1
    <3>2. CASE client' = [client EXCEPT ![c].owed = WorldNow]
      BY <1>2, <3>2 DEF PlayerStates
    <3> QED
      BY <1>1, <3>1, <3>2
  <2>2. \A i \in Slots : slot'[i].net # conn'[c]
    BY <1>2 DEF InList, HoldsId
  <2>3. client[c].status = "joining" => Welcomes(down'[c]) = {}
    <3>1. ASSUME client[c].status = "joining", NEW i \in Welcomes(down[c])
          PROVE  FALSE
      <4>1. i \in Slots /\ slot[i].net = conn[c]
        BY <3>1, WelcomesAreSlots DEF Listed, WelcomeInv, Types
      <4> QED
        BY <4>1 DEF InList, HoldsId
    <3>2. Welcomes(down'[c]) = Welcomes(down[c])
      BY <1>1, ToldConnected
    <3> QED
      BY <3>1, <3>2
  <2>4. client'[c].status = "joining" => Founded(down'[c], client'[c].got, Due(c)')
    BY <2>1, <2>3, FoundedUnwelcome
  <2>5. ~Playing(c)'
    BY <2>1 DEF Playing
  <2> QED
    BY <2>2, <2>4, <2>5 DEF HoldOf
<1>5. HoldInv'
  BY <1>3, <1>4 DEF HoldInv
<1>6. TransferInv'
  <2>1. join'.stage = 2 /\ join'.cursor = 0
    BY <1>1
  <2>2. Swept(2, 0) = {}
    <3>1. 1 .. 0 = {} /\ \A m \in Surfaces : ~(m < 0)
      BY MultiAssumption
    <3> QED
      BY <3>1 DEF Swept
  <2> QED
    BY <2>1, <2>2 DEF TransferInv, Swept
<1> QED
  BY <1>5, <1>6

\* Concatenation of messages is associative.
LEMMA ConcatAgain ==
    \A q, s, t \in Seq(Messages) : (q \o s) \o t = q \o (s \o t)
BY ConcatAssociative

\* With the last step of the transfer the player has, or is about to read, all of it.
LEMMA GivesWorld ==
    ASSUME Types, ConnInv, LevelInv, Listed, TransferInv, HoldInv, Gives
    PROVE  TransferInv' /\ HoldInv'
<1> DEFINE k == join.idx
           id == join.to
<1>1. /\ join.active /\ join.stage = 4 /\ join' = NoSync
      /\ UNCHANGED <<destroyed, mode, level, conn, up, gone, client, left>>
      /\ slot' = [slot EXCEPT ![k].net = id]
  BY DEF Gives
<1>2. PICK snap \in Seq(Messages), cursor \in Nat :
          /\ Welcomes(snap) = {} /\ cursor >= destroyed
          /\ \A n \in 1 .. cursor : n <= join.cursor \/ Destroyed(n) \in Items(snap)
          /\ down' = Sent(down, id, snap \o <<LeaveJoin, Welcome(k)>>)
  BY DEF Gives
<1>3. k \in Slots /\ id # NoId /\ join.cursor \in Nat /\ destroyed \in Nat
      /\ \A c \in Clients : conn[c] = id => client[c].level = level
  BY <1>1, MultiAssumption DEF Listed, JoinInv, Types, JoinStates
<1> DEFINE r == <<LeaveJoin, Welcome(k)>>
<1>4. r \in Seq(Messages) /\ down' = Sent(down, id, snap \o r)
  BY <1>2, <1>3, Answers
<1>5. slot'[k].net = id /\ \A i \in Slots \ {k} : slot'[i] = slot[i]
  BY <1>1, <1>3 DEF Types
<1> HIDE DEF r
<1>6. snap \o r \in Seq(Messages)
  BY <1>4
<1>7. ASSUME NEW c \in Clients, conn[c] # id
      PROVE  client'[c].first => HoldOf(c)'
  <2>1. down'[c] = down[c]
    BY <1>4, <1>6, <1>7, SentTo
  <2>2. KeepsWorld(c)
    BY <1>1, <1>5, <1>7, <2>1 DEF KeepsWorld, InHand, Playing
  <2> QED
    BY <1>1, <2>2, HoldKept
<1>8. ASSUME NEW c \in Clients, conn[c] = id, client[c].first
      PROVE  HoldOf(c)'
  <2> DEFINE q == down[c] \o snap
  <2>1. down[c] \in Seq(Messages) /\ q \in Seq(Messages)
    BY DEF Types
  <2>2. down'[c] = q \o r
    <3>1. down'[c] = down[c] \o (snap \o r)
      BY <1>3, <1>4, <1>6, <1>8, SentTo
    <3>2. \A p \in Seq(Messages) : (p \o snap) \o r = p \o (snap \o r)
      BY <1>4, ConcatAgain
    <3>3. (down[c] \o snap) \o r = down[c] \o (snap \o r)
      BY <2>1, <3>2
    <3> QED
      BY <3>1, <3>3
  <2>3. Items(down[c]) \subseteq Items(q) /\ Items(snap) \subseteq Items(q)
    BY <2>1, ItemsBoth
  <2> HIDE DEF q
  <2>4. Items(q) \subseteq Items(down'[c])
    BY <1>4, <2>1, <2>2, ItemsBoth
  <2>5. Swept(4, join.cursor) \subseteq client[c].got \cup Items(q)
    BY <1>1, <1>8, <2>3 DEF TransferInv, InHand
  <2>6. Due(c) \subseteq client[c].got \cup Items(q)
    <3>1. Swept(4, join.cursor) = World \cup {Destroyed(n) : n \in 1 .. join.cursor}
      BY <1>3, SweptThings
    <3>2. \A n \in 1 .. destroyed : n \in 1 .. join.cursor \/ Destroyed(n) \in Items(snap)
      BY <1>2, <1>3
    <3>3. WorldNow \subseteq client[c].got \cup Items(q)
      BY <2>3, <2>5, <3>1, <3>2 DEF WorldNow
    <3>4. client[c].owed \subseteq WorldNow
      <4>1. client[c].level >= level
        BY <1>3, <1>8, LevelsAreNumbers
      <4> QED
        BY <4>1 DEF LevelInv
    <3> QED
      BY <3>3, <3>4 DEF Due, WorldNow
  <2>7. Due(c)' = Due(c) /\ client' = client
    BY <1>1 DEF Due
  <2>8. Due(c) \subseteq InHand(c)'
    BY <2>4, <2>6, <2>7 DEF InHand
  <2>9. client[c].status = "joining" => Founded(down'[c], client[c].got, Due(c))
    <3>1. ASSUME client[c].status = "joining"
          PROVE  Founded(q, client[c].got, Due(c))
      <4>1. Founded(down[c], client[c].got, Due(c))
        BY <1>8, <3>1 DEF HoldInv, HoldOf
      <4> QED
        BY <1>2, <2>1, <4>1, FoundedConcat DEF q
    <3> QED
      BY <1>4, <2>1, <2>2, <2>6, <3>1, FoundedConcat
  <2>10. Playing(c)' => Due(c) \subseteq client[c].got
    BY <1>1, <1>8 DEF HoldInv, HoldOf, Playing
  <2> QED
    BY <2>7, <2>8, <2>9, <2>10 DEF HoldOf
<1>9. HoldInv'
  BY <1>1, <1>7, <1>8 DEF HoldInv
<1>10. TransferInv'
  BY <1>1, NoSyncTyped DEF TransferInv, Types
<1> QED
  BY <1>9, <1>10

LEMMA GoesOnWorld ==
    ASSUME Types, ConnInv, TransferInv, HoldInv, NEW c \in Clients,
           \/ AskToJoin(c) \/ Play(c) \/ GoesAway(c) \/ HostIsGone(c)
           \/ /\ down[c] # <<>> /\ down' = [down EXCEPT ![c] = Tail(@)]
              /\ client[c].status \in {"joining", "playing"} /\ Head(down[c]) \in Messages
              /\ client' = [client EXCEPT ![c] = Reads(client[c], Head(down[c]))]
              /\ UNCHANGED <<host, conn, gone, up, left>>
    PROVE  TransferInv' /\ HoldInv'
<1>1. UNCHANGED <<slot, join, level, conn>>
  BY DEF AskToJoin, Play, GoesAway, HostIsGone, host
<1>2. /\ client \in [Clients -> PlayerStates] /\ client[c] \in PlayerStates
      /\ down \in [Clients -> Seq(Messages)]
  BY DEF Types
<1>3. ASSUME NEW d \in Clients, client'[d] = client[d], down'[d] = down[d]
      PROVE  KeepsWorld(d)
  BY <1>1, <1>3 DEF KeepsWorld, InHand, Playing
<1>4. CASE AskToJoin(c) \/ Play(c)
  <2>1. client' = client /\ down' = down
    BY <1>4 DEF AskToJoin, Play
  <2>2. \A d \in Clients : KeepsWorld(d)
    BY <1>3, <2>1
  <2> QED
    BY <1>1, <2>2, WorldKept
<1>5. CASE GoesAway(c) \/ HostIsGone(c)
  <2>1. client' = [client EXCEPT ![c].status = "leaving"] /\ down' = down
    BY <1>5 DEF GoesAway, HostIsGone
  <2>2. /\ client'[c].status = "leaving" /\ client'[c].level = client[c].level
        /\ client'[c].first = client[c].first /\ client'[c].got = client[c].got
        /\ client'[c].owed = client[c].owed
    BY <1>2, <2>1 DEF PlayerStates
  <2>3. KeepsWorld(c)
    BY <1>1, <2>1, <2>2 DEF KeepsWorld, InHand, Playing
  <2>4. \A d \in Clients \ {c} : KeepsWorld(d)
    BY <1>2, <1>3, <2>1
  <2> QED
    BY <1>1, <2>3, <2>4, WorldKept
<1>6. CASE /\ down[c] # <<>> /\ down' = [down EXCEPT ![c] = Tail(@)]
           /\ client[c].status \in {"joining", "playing"} /\ Head(down[c]) \in Messages
           /\ client' = [client EXCEPT ![c] = Reads(client[c], Head(down[c]))]
  <2> DEFINE m == Head(down[c])
             s == Reads(client[c], m)
  <2>1. /\ s.level = client[c].level /\ s.first = client[c].first /\ s.owed = client[c].owed
        /\ s.got = client[c].got \cup Carries(m)
        /\ \/ s.status = client[c].status
           \/ client[c].status = "joining" /\ s.status = "leaving"
    BY <1>2, <1>6, ReadsEffect
  <2>2. client'[c] = s /\ down'[c] = Tail(down[c])
    BY <1>2, <1>6
  <2>3. down[c] \in Seq(Messages) /\ down[c] # <<>>
    BY <1>2, <1>6
  <2>4. Items(down[c]) \subseteq Carries(m) \cup Items(Tail(down[c]))
    BY <2>3, ItemsAll
  <2>5. ASSUME Founded(down[c], client[c].got, Due(c))
        PROVE  Founded(Tail(down[c]), client[c].got \cup Carries(m), Due(c))
    BY <2>3, <2>5, FoundedTail
  <2> HIDE DEF s, m
  <2>6. KeepsWorld(c)
    BY <1>1, <2>1, <2>2, <2>4, <2>5 DEF KeepsWorld, InHand, Playing
  <2>7. \A d \in Clients \ {c} : KeepsWorld(d)
    BY <1>2, <1>3, <1>6
  <2> QED
    BY <1>1, <2>6, <2>7, WorldKept
<1> QED
  BY <1>4, <1>5, <1>6

LEMMA TakesUpWorld ==
    ASSUME Types, TransferInv, HoldInv,
           NEW c \in Clients, NEW i \in Slots, TakesUpWelcome(c, i),
           down[c] # <<>>, down' = [down EXCEPT ![c] = Tail(@)], UNCHANGED <<host, conn, gone>>,
           Head(down[c]).kind = "welcome"
    PROVE  TransferInv' /\ HoldInv'
<1>1. /\ client[c].status = "joining" /\ client'[c].status = "playing"
      /\ client'[c].level = client[c].level
      /\ client'[c].first = client[c].first /\ client'[c].got = client[c].got
      /\ client'[c].owed = client[c].owed
      /\ \A d \in Clients \ {c} : client'[d] = client[d] /\ down'[d] = down[d]
      /\ down'[c] = Tail(down[c])
  BY TakesUpBecomes
<1>2. UNCHANGED <<slot, join, level, conn>>
  BY DEF host
<1>3. down[c] \in Seq(Messages)
  BY DEF Types
<1>4. InHand(c) \subseteq InHand(c)'
  <2>1. Items(down[c]) \subseteq Carries(Head(down[c])) \cup Items(Tail(down[c]))
    BY <1>3, ItemsAll
  <2>2. Carries(Head(down[c])) = {}
    BY DEF Carries
  <2> QED
    BY <1>1, <2>1, <2>2 DEF InHand
<1>5. ASSUME NEW d \in Clients, d # c
      PROVE  KeepsWorld(d)
  BY <1>1, <1>2, <1>5 DEF KeepsWorld, InHand, Playing
<1>6. client[c].first => HoldOf(c)'
  <2>1. ASSUME client[c].first
        PROVE  /\ Due(c) \subseteq client[c].got
               /\ \A j \in Slots : slot[j].net = conn[c] /\ conn[c] # NoId /\ client[c].level = level =>
                     Due(c) \subseteq InHand(c)
    <3>1. Founded(down[c], client[c].got, Due(c))
      BY <1>1, <2>1 DEF HoldInv, HoldOf
    <3>2. Due(c) \subseteq client[c].got
      BY <1>3, <3>1, FoundedTail
    <3> QED
      BY <2>1, <3>2 DEF HoldInv, HoldOf
  <2>2. Due(c)' = Due(c)
    BY <1>1 DEF Due
  <2>3. client'[c].status # "joining"
    BY <1>1
  <2> QED
    BY <1>1, <1>2, <1>4, <2>1, <2>2, <2>3 DEF HoldOf
<1>7. HoldInv'
  <2>1. ASSUME NEW d \in Clients, client'[d].first
        PROVE  HoldOf(d)'
    <3>1. CASE d = c
      BY <1>1, <1>6, <2>1, <3>1
    <3>2. CASE d # c
      BY <1>2, <1>5, <2>1, <3>2, HoldKept
    <3> QED
      BY <3>1, <3>2
  <2> QED
    BY <2>1 DEF HoldInv
<1>8. TransferInv'
  <2>1. \A d \in Clients : client'[d].first = client[d].first /\ InHand(d) \subseteq InHand(d)'
    BY <1>1, <1>4, <1>5 DEF KeepsWorld
  <2> QED
    BY <1>2, <2>1 DEF TransferInv, Swept
<1> QED
  BY <1>7, <1>8

LEMMA ConnectWorld ==
    ASSUME Types, ConnInv, GivenInv, TransferInv, HoldInv, NEW c \in Clients, Connect(c)
    PROVE  TransferInv' /\ HoldInv'
<1>1. /\ client[c].status = "out"
      /\ \A d \in Clients \ {c} : client'[d] = client[d] /\ conn'[d] = conn[d]
      /\ conn'[c] = FirstFreeId
      /\ client'[c].status = "joining"
      /\ client'[c].first => ~(FirstFreeId <= left.given)
      /\ UNCHANGED <<slot, join, destroyed, mode, level, up, down, gone>>
  BY ConnectBecomes
<1>2. ASSUME client'[c].first
      PROVE  (\A i \in Slots : slot[i].net # conn'[c]) /\ join.to # conn'[c]
  BY <1>1, <1>2 DEF GivenInv
<1>3. down[c] = <<>>
  BY <1>1 DEF ConnInv
<1>4. client'[c].first => HoldOf(c)'
  <2>1. ASSUME client'[c].first
        PROVE  HoldOf(c)'
    <3>1. client'[c].status = "joining" => Founded(down'[c], client'[c].got, Due(c)')
      BY <1>1, <1>3, FoundedNone
    <3>2. ~Playing(c)'
      BY <1>1 DEF Playing
    <3>3. \A i \in Slots : slot'[i].net # conn'[c]
      BY <1>1, <1>2, <2>1
    <3> QED
      BY <3>1, <3>2, <3>3 DEF HoldOf
  <2> QED
    BY <2>1
<1>5. ASSUME NEW d \in Clients \ {c}
      PROVE  KeepsWorld(d)
  BY <1>1, <1>5 DEF KeepsWorld, InHand, Playing
<1>6. HoldInv'
  <2>1. \A d \in Clients \ {c} : client'[d].first => HoldOf(d)'
    BY <1>1, <1>5, HoldKept
  <2> QED
    BY <1>4, <2>1 DEF HoldInv
<1>7. TransferInv'
  <2>1. ASSUME join'.active, NEW d \in Clients, client'[d].first, conn'[d] = join'.to
        PROVE  Swept(join'.stage, join'.cursor) \subseteq InHand(d)'
    <3>1. d # c
      BY <1>1, <1>2, <2>1
    <3>2. Swept(join.stage, join.cursor) \subseteq InHand(d)
      BY <1>1, <2>1, <3>1 DEF TransferInv
    <3> QED
      BY <1>1, <1>5, <3>1, <3>2 DEF KeepsWorld
  <2> QED
    BY <2>1 DEF TransferInv, Swept
<1> QED
  BY <1>6, <1>7

LEMMA ClosedWorld ==
    ASSUME Types, ConnInv, Listed, TransferInv, HoldInv, NEW c \in Clients, Leave(c) \/ Vanish(c)
    PROVE  TransferInv' /\ HoldInv'
<1>1. /\ conn'[c] = NoId /\ client'[c] = Out
      /\ \A d \in Clients \ {c} : /\ client'[d] = client[d] /\ conn'[d] = conn[d]
                                  /\ down'[d] = down[d]
      /\ UNCHANGED <<slot, join, level>>
  BY ClosedBecomes DEF host
<1>2. HoldOf(c)'
  <2>1. client'[c].status = "out"
    BY <1>1 DEF Out
  <2> QED
    BY <1>1, <2>1 DEF HoldOf, Playing
<1>3. ASSUME NEW d \in Clients \ {c}
      PROVE  KeepsWorld(d)
  BY <1>1, <1>3 DEF KeepsWorld, InHand, Playing
<1>4. HoldInv'
  <2>1. \A d \in Clients \ {c} : client'[d].first => HoldOf(d)'
    BY <1>1, <1>3, HoldKept
  <2> QED
    BY <1>2, <2>1 DEF HoldInv
<1>5. TransferInv'
  <2>1. ASSUME join'.active, NEW d \in Clients, client'[d].first, conn'[d] = join'.to
        PROVE  Swept(join'.stage, join'.cursor) \subseteq InHand(d)'
    <3>1. d # c
      BY <1>1, <2>1 DEF Listed, JoinInv
    <3>2. Swept(join.stage, join.cursor) \subseteq InHand(d)
      BY <1>1, <2>1, <3>1 DEF TransferInv
    <3> QED
      BY <1>1, <1>3, <3>1, <3>2 DEF KeepsWorld
  <2> QED
    BY <2>1 DEF TransferInv, Swept
<1> QED
  BY <1>4, <1>5

LEMMA NextLevelWorld ==
    ASSUME Types, ConnInv, LevelInv, Listed, TransferInv, HoldInv, NEW c \in Clients, NextLevel(c)
    PROVE  TransferInv' /\ HoldInv'
<1>1. /\ client[c].status = "playing"
      /\ client'[c].status = "joining" /\ client'[c].level = client[c].level + 1
      /\ down'[c] = <<>>
      /\ \A d \in Clients \ {c} : client'[d] = client[d] /\ down'[d] = down[d]
      /\ UNCHANGED <<slot, join, level, conn>>
  BY NextLevelBecomes DEF host
<1>2. HoldOf(c)'
  <2>1. \A i \in Slots : ~(slot[i].net = conn[c] /\ conn[c] # NoId /\ client'[c].level = level)
    <3>1. \A i \in Slots : slot[i].net = conn[c] /\ conn[c] # NoId => client[c].level >= level
      BY DEF Listed, PlayInv
    <3> QED
      BY <1>1, <3>1, LevelsAreNumbers
  <2>2. client'[c].status = "joining" => Founded(down'[c], client'[c].got, Due(c)')
    BY <1>1, FoundedNone
  <2>3. ~Playing(c)'
    BY <1>1 DEF Playing
  <2> QED
    BY <1>1, <2>1, <2>2, <2>3 DEF HoldOf
<1>3. ASSUME NEW d \in Clients \ {c}
      PROVE  KeepsWorld(d)
  BY <1>1, <1>3 DEF KeepsWorld, InHand, Playing
<1>4. HoldInv'
  <2>1. \A d \in Clients \ {c} : client'[d].first => HoldOf(d)'
    BY <1>1, <1>3, HoldKept
  <2> QED
    BY <1>2, <2>1 DEF HoldInv
<1>5. TransferInv'
  <2>1. ASSUME join'.active, NEW d \in Clients, client'[d].first, conn'[d] = join'.to
        PROVE  Swept(join'.stage, join'.cursor) \subseteq InHand(d)'
    <3>1. d # c
      BY <1>1, <2>1 DEF Listed, JoinInv, Playing
    <3>2. Swept(join.stage, join.cursor) \subseteq InHand(d)
      BY <1>1, <2>1, <3>1 DEF TransferInv
    <3> QED
      BY <1>1, <1>3, <3>1, <3>2 DEF KeepsWorld
  <2> QED
    BY <2>1 DEF TransferInv, Swept
<1> QED
  BY <1>4, <1>5

LEMMA OpensWorld ==
    ASSUME Types, HoldInv, OpenLevel
    PROVE  TransferInv' /\ HoldInv'
<1>1. /\ \A i \in Slots : slot'[i].net = NoId
      /\ ~join'.active
      /\ UNCHANGED <<conn, down, client>>
  BY OpensBecomes
<1>2. ASSUME NEW c \in Clients, client'[c].first
      PROVE  HoldOf(c)'
  <2>1. HoldOf(c) /\ Due(c)' = Due(c)
    BY <1>1, <1>2 DEF HoldInv, Due
  <2> QED
    BY <1>1, <2>1 DEF HoldOf, Playing
<1> QED
  BY <1>1, <1>2 DEF HoldInv, TransferInv

-----------------------------------------------------------------------------
(* Every step keeps the invariant                                            *)

LEMMA Together ==
    ASSUME IInv, Types', ConnInv' /\ LevelInv' /\ GivenInv', InOrder' => InOrder,
           InOrder' /\ Listed /\ TransferInv /\ HoldInv => Listed' /\ TransferInv' /\ HoldInv'
    PROVE  IInv'
<1>1. SlotInv' /\ WorldInv'
  BY DEF IInv, SlotInv, WorldInv
<1> QED
  BY <1>1 DEF IInv

LEMMA QuietKeeps ==
    ASSUME IInv, Types', Quiet, join'.active => join' = join
    PROVE  IInv'
<1>1. Types /\ ConnInv /\ LevelInv /\ GivenInv
  BY DEF IInv
<1>2. Steady
  BY <1>1, QuietIsSteady
<1>3. ConnInv' /\ LevelInv' /\ GivenInv'
  BY <1>1, <1>2, SteadyKeeps
<1>4. InOrder' => InOrder
  BY DEF Quiet, InOrder
<1>5. ASSUME Listed, TransferInv, HoldInv
      PROVE  Listed' /\ TransferInv' /\ HoldInv'
  <2>1. Listed'
    BY <1>1, <1>5, QuietStays, StaysListed
  <2> QED
    BY <1>1, <1>5, <2>1, QuietWorld
<1> QED
  BY <1>3, <1>4, <1>5, Together

LEMMA HostReadsKeeps ==
    ASSUME IInv, Types', NEW c \in Clients, HostReceive(c)
    PROVE  IInv'
<1>1. Types /\ ConnInv /\ LevelInv /\ GivenInv
  BY DEF IInv
<1>2. CASE Refused(c)
  <2>1. Quiet /\ (join'.active => join' = join)
    BY <1>1, <1>2, QuietEvents
  <2> QED
    BY <2>1, QuietKeeps
<1>3. CASE TookUp(c) \/ Rewelcomed(c) \/ \E i \in Slots : HeardOf(c, i)
  <2>1. Steady
    BY <1>1, <1>3, ReadsUpIsSteady
  <2>2. ConnInv' /\ LevelInv' /\ GivenInv'
    BY <1>1, <2>1, SteadyKeeps
  <2>3. InOrder' => InOrder
    BY <1>3 DEF TookUp, Rewelcomed, HeardOf, ReadsUp, InOrder
  <2>4. ASSUME Listed, TransferInv, HoldInv, TookUp(c)
        PROVE  Listed' /\ TransferInv' /\ HoldInv'
    <3>1. Stays /\ JoinInv' /\ ~Playing(c) /\ client[c].level = level /\ ~InList(conn[c])
      BY <1>1, <2>4, TookUpStays
    <3>2. Listed'
      BY <1>1, <2>4, <3>1, StaysListed
    <3>3. TransferInv' /\ HoldInv'
      BY <1>1, <2>4, <3>1, TookUpWorld
    <3> QED
      BY <3>2, <3>3
  <2>5. ASSUME Listed, TransferInv, HoldInv, Rewelcomed(c)
        PROVE  Listed' /\ TransferInv' /\ HoldInv'
    <3>1. Listed'
      BY <1>1, <2>5, RewelcomedStays, StaysListed
    <3>2. TransferInv' /\ HoldInv'
      BY <1>1, <2>5, RewelcomedWorld
    <3> QED
      BY <3>1, <3>2
  <2>6. ASSUME Listed, TransferInv, HoldInv, NEW i \in Slots, HeardOf(c, i)
        PROVE  Listed' /\ TransferInv' /\ HoldInv'
    <3>1. Stays /\ JoinStays
      BY <1>1, <2>6, HeardOfStays
    <3>2. Listed'
      BY <1>1, <2>6, <3>1, StaysListed
    <3>3. TransferInv' /\ HoldInv'
      BY <1>1, <2>6, <3>1, HeardOfWorld
    <3> QED
      BY <3>2, <3>3
  <2> QED
    BY <1>3, <2>2, <2>3, <2>4, <2>5, <2>6, Together
<1> QED
  BY <1>1, <1>2, <1>3, HostReceiveEffect

LEMMA DropsKeep ==
    ASSUME IInv, Types', PlayerGone \/ \E i \in Slots : DropSilent(i)
    PROVE  IInv'
<1>1. Types /\ ConnInv /\ LevelInv /\ GivenInv
  BY DEF IInv
<1>2. Steady /\ Told(down, down')
  BY <1>1, DropsAreSteady
<1>3. ConnInv' /\ LevelInv' /\ GivenInv'
  BY <1>1, <1>2, SteadyKeeps
<1>4. UNCHANGED <<conn, level, client>> /\ left'.odd = left.odd
  BY <1>1 DEF PlayerGone, DropSilent, Types, Lefts
<1>5. ASSUME Listed, TransferInv, HoldInv
      PROVE  Listed' /\ TransferInv' /\ HoldInv'
  <2>1. /\ Listed' /\ (join'.active => join' = join)
        /\ \A i \in Slots : slot'[i].net \in {slot[i].net, NoId}
    BY <1>1, <1>5, GoneListed, DropListed
  <2> QED
    BY <1>1, <1>2, <1>4, <1>5, <2>1, ShorterWorld
<1> QED
  BY <1>3, <1>4, <1>5, Together DEF InOrder

LEMMA SyncKeeps ==
    ASSUME IInv, Types', SyncStep
    PROVE  IInv'
<1>1. Types /\ ConnInv /\ LevelInv /\ GivenInv
  BY DEF IInv
<1>2. (\E items : Goes(items)) \/ Gives \/ Overruns
  BY <1>1, SyncEffect
<1>3. ConnInv' /\ LevelInv' /\ GivenInv'
  BY <1>1, <1>2, SyncIsSteady, SteadyKeeps
<1>4. CASE Overruns
  <2>1. left' = [left EXCEPT !.odd = left.odd \cup {"over"}] /\ left \in Lefts
    BY <1>1, <1>4 DEF Overruns, Types
  <2>2. ~InOrder'
    BY <2>1 DEF InOrder, Lefts
  <2> QED
    BY <1>3, <2>2, Together
<1>5. CASE Gives
  <2>1. InOrder' => InOrder
    BY <1>5 DEF Gives, InOrder
  <2>2. ASSUME Listed, TransferInv, HoldInv
        PROVE  Listed' /\ TransferInv' /\ HoldInv'
    BY <1>1, <1>5, <2>2, GivesListed, GivesWorld
  <2> QED
    BY <1>3, <2>1, <2>2, Together
<1>6. ASSUME NEW items, Goes(items)
      PROVE  IInv'
  <2>1. InOrder' => InOrder
    BY <1>6 DEF Goes, InOrder
  <2>2. ASSUME Listed, TransferInv, HoldInv
        PROVE  Listed' /\ TransferInv' /\ HoldInv'
    <3>1. Stays /\ JoinStays
      BY <1>1, <1>6, GoesStays
    <3>2. Listed'
      BY <1>1, <2>2, <3>1, StaysListed
    <3>3. TransferInv' /\ HoldInv'
      BY <1>1, <1>6, <2>2, GoesWorld
    <3> QED
      BY <3>2, <3>3
  <2> QED
    BY <1>3, <2>1, <2>2, Together
<1> QED
  BY <1>2, <1>4, <1>5, <1>6

LEMMA PlayerKeeps ==
    ASSUME IInv, Types', NEW c \in Clients,
           AskToJoin(c) \/ Play(c) \/ ClientReceive(c) \/ GoesAway(c) \/ HostIsGone(c)
    PROVE  IInv'
<1>1. Types /\ ConnInv /\ LevelInv /\ GivenInv
  BY DEF IInv
<1>2. ConnInv' /\ LevelInv' /\ GivenInv'
  BY <1>1, PlayerIsSteady, SteadyKeeps
<1> DEFINE JustReads ==
             /\ down[c] # <<>> /\ down' = [down EXCEPT ![c] = Tail(@)]
             /\ client[c].status \in {"joining", "playing"} /\ Head(down[c]) \in Messages
             /\ client' = [client EXCEPT ![c] = Reads(client[c], Head(down[c]))]
             /\ UNCHANGED <<host, conn, gone, up, left>>
<1>3. \/ AskToJoin(c) \/ Play(c) \/ GoesAway(c) \/ HostIsGone(c) \/ JustReads
      \/ /\ down[c] # <<>> /\ down' = [down EXCEPT ![c] = Tail(@)]
         /\ UNCHANGED <<host, conn, gone>> /\ Head(down[c]) \in Messages
         /\ Head(down[c]).kind = "welcome" /\ TakesUpWelcome(c, Head(down[c]).slot)
  BY <1>1, ReceiveEffect
<1>4. CASE AskToJoin(c) \/ Play(c) \/ GoesAway(c) \/ HostIsGone(c) \/ JustReads
  <2>1. InOrder' => InOrder
    BY <1>4 DEF AskToJoin, Play, GoesAway, HostIsGone, InOrder
  <2>2. ASSUME Listed, TransferInv, HoldInv
        PROVE  Listed' /\ TransferInv' /\ HoldInv'
    <3>1. Stays /\ JoinStays
      BY <1>1, <1>4, GoesOnStays
    <3>2. Listed'
      BY <1>1, <2>2, <3>1, StaysListed
    <3>3. TransferInv' /\ HoldInv'
      BY <1>1, <1>4, <2>2, GoesOnWorld
    <3> QED
      BY <3>2, <3>3
  <2> QED
    BY <1>2, <2>1, <2>2, Together
<1>5. CASE /\ down[c] # <<>> /\ down' = [down EXCEPT ![c] = Tail(@)]
           /\ UNCHANGED <<host, conn, gone>> /\ Head(down[c]) \in Messages
           /\ Head(down[c]).kind = "welcome" /\ TakesUpWelcome(c, Head(down[c]).slot)
  <2> DEFINE i == Head(down[c]).slot
  <2>1. down[c] \in Seq(Messages) /\ down[c] # <<>>
    BY <1>1, <1>5 DEF Types
  <2>2. i \in Welcomes(down[c])
    BY <1>5, <2>1, SlottedTail DEF Welcomes
  <2>3. i \in Slots
    BY <2>1, <2>2, WelcomesAreSlots
  <2> HIDE DEF i
  <2>4. TakesUpWelcome(c, i)
    BY <1>5 DEF i
  <2>5. InOrder' => InOrder /\ client[c].level = level
    BY <1>1, <1>5, <2>3, <2>4, TakesUpBecomes
  <2>6. ASSUME Listed, TransferInv, HoldInv, client[c].level = level
        PROVE  Listed' /\ TransferInv' /\ HoldInv'
    <3>1. Listed'
      BY <1>1, <1>5, <2>2, <2>3, <2>4, <2>6, TakesUpListed
    <3>2. TransferInv' /\ HoldInv'
      BY <1>1, <1>5, <2>3, <2>4, <2>6, TakesUpWorld
    <3> QED
      BY <3>1, <3>2
  <2> QED
    BY <1>2, <2>5, <2>6, Together
<1> QED
  BY <1>3, <1>4, <1>5

LEMMA ChangesKeep ==
    ASSUME IInv, Types',
           OpenLevel \/ \E c \in Clients : Connect(c) \/ Leave(c) \/ Vanish(c) \/ NextLevel(c)
    PROVE  IInv'
<1>1. Types /\ ConnInv /\ LevelInv /\ GivenInv
  BY DEF IInv
<1>2. ASSUME NEW c \in Clients, Connect(c)
      PROVE  IInv'
  <2>1. ConnInv' /\ LevelInv' /\ GivenInv'
    BY <1>1, <1>2, ConnectKeeps
  <2>2. InOrder' => InOrder
    BY <1>1, <1>2, ConnectBecomes DEF InOrder
  <2>3. ASSUME Listed, TransferInv, HoldInv
        PROVE  Listed' /\ TransferInv' /\ HoldInv'
    BY <1>1, <1>2, <2>3, ConnectListed, ConnectWorld
  <2> QED
    BY <2>1, <2>2, <2>3, Together
<1>3. ASSUME NEW c \in Clients, Leave(c) \/ Vanish(c)
      PROVE  IInv'
  <2>1. ConnInv' /\ LevelInv' /\ GivenInv'
    BY <1>1, <1>3, ClosedKeeps
  <2>2. InOrder' => InOrder
    BY <1>1, <1>3, ClosedBecomes DEF InOrder
  <2>3. ASSUME Listed, TransferInv, HoldInv
        PROVE  Listed' /\ TransferInv' /\ HoldInv'
    BY <1>1, <1>3, <2>3, ClosedListed, ClosedWorld
  <2> QED
    BY <2>1, <2>2, <2>3, Together
<1>4. ASSUME NEW c \in Clients, NextLevel(c)
      PROVE  IInv'
  <2>1. ConnInv' /\ LevelInv' /\ GivenInv'
    BY <1>1, <1>4, NextLevelKeeps
  <2>2. InOrder' => InOrder
    BY <1>4 DEF NextLevel, InOrder
  <2>3. ASSUME Listed, TransferInv, HoldInv
        PROVE  Listed' /\ TransferInv' /\ HoldInv'
    BY <1>1, <1>4, <2>3, NextLevelListed, NextLevelWorld
  <2> QED
    BY <2>1, <2>2, <2>3, Together
<1>5. CASE OpenLevel
  <2>1. ConnInv' /\ LevelInv' /\ GivenInv'
    BY <1>1, <1>5, OpensKeeps
  <2>2. InOrder' => InOrder
    BY <1>5 DEF OpenLevel, InOrder
  <2>3. ASSUME Listed, TransferInv, HoldInv
        PROVE  Listed' /\ TransferInv' /\ HoldInv'
    BY <1>1, <1>5, <2>3, OpensListed, OpensWorld
  <2> QED
    BY <2>1, <2>2, <2>3, Together
<1> QED
  BY <1>2, <1>3, <1>4, <1>5

LEMMA NextKeeps == IInv /\ [Next]_vars => IInv'
<1> SUFFICES ASSUME IInv, [Next]_vars
             PROVE  IInv'
  OBVIOUS
<1>1. Types /\ ConnInv /\ LevelInv /\ Types'
  BY TypesKept DEF IInv
<1>2. CASE UNCHANGED vars
  <2>1. /\ UNCHANGED <<slot, join, conn, client, level, down, destroyed, left, gone, mode, up>>
        /\ down \in [Clients -> Seq(Messages)] /\ destroyed \in Nat
    BY <1>1, <1>2, MultiAssumption DEF vars, host, Types
  <2>2. Told(down, down')
    BY <2>1, ToldSame
  <2>3. Quiet
    BY <2>1, <2>2 DEF Quiet
  <2> QED
    BY <1>1, <2>1, <2>3, QuietKeeps
<1>3. ASSUME \/ FreeThing \/ ScoresDue \/ SendScores \/ EndsLevel \/ AbortJoin
             \/ LevelOver \/ HostLeaves
             \/ \E k \in 1 .. FrameSteps : BeginSteps(k)
      PROVE  IInv'
  <2>1. Quiet /\ (join'.active => join' = join)
    BY <1>1, <1>3, QuietEvents
  <2> QED
    BY <1>1, <2>1, QuietKeeps
<1>4. CASE Next
  BY <1>1, <1>3, <1>4, ChangesKeep, HostReadsKeeps, DropsKeep, SyncKeeps, PlayerKeeps
     DEF Next, Transport, Host, Player
<1> QED
  BY <1>2, <1>4

LEMMA InitKeeps == Init => IInv
<1> SUFFICES ASSUME Init
             PROVE  IInv
  OBVIOUS
<1>1. /\ 1 \in Nat /\ 1 \in 1 .. MaxLevels /\ 0 \in 0 .. FrameSteps /\ 0 \in 0 .. ListSize
      /\ 1 \in Slots
  BY MultiAssumption DEF Slots
<1>2. Out \in PlayerStates
  BY MultiAssumption DEF Out, PlayerStates
<1>3. NoJoin \in JoinStates /\ ~NoJoin.active /\ NoJoin.to = NoId
  BY <1>1 DEF NoJoin, JoinStates
<1>4. Types
  <2>1. <<>> \in Seq(UpMsg) /\ <<>> \in Seq(Messages) /\ <<>> \in Seq(Ids)
    OBVIOUS
  <2>2. left \in Lefts
    BY MultiAssumption DEF Init, Lefts
  <2>3. slot \in [Slots -> [net : Ids \cup {NoId}, joined : BOOLEAN]]
    BY DEF Init, Free
  <2> QED
    BY <1>1, <1>2, <1>3, <2>1, <2>2, <2>3 DEF Init, Types
<1>5. \A c \in Clients : /\ conn[c] = NoId /\ up[c] = <<>> /\ down[c] = <<>> /\ client[c] = Out
  BY DEF Init
<1>6. Out.status = "out" /\ Out.level = 0 /\ Out.owed = {}
  BY DEF Out
<1>7. /\ Welcomes(<<>>) = {} /\ Announces(<<>>) = {} /\ Asked(<<>>) = {}
  BY SlottedNone DEF Welcomes, Announces, Asked
<1>8. /\ level = 1 /\ mode = "game" /\ gone = <<>> /\ left.given = 1
      /\ \A i \in Slots : slot[i].net = NoId /\ ~slot[i].joined
      /\ ~join.active /\ join.to = NoId
  BY <1>3 DEF Init, Free
<1>9. ConnInv
  BY <1>5, <1>6 DEF ConnInv
<1>10. LevelInv
  BY <1>5, <1>6, <1>7, <1>8 DEF LevelInv, Playing
<1>11. GivenInv
  BY <1>5, <1>8 DEF GivenInv, NoId
<1>12. Listed
  <2>1. ListInv /\ JoinInv /\ JoinedInv
    BY <1>8 DEF ListInv, JoinInv, JoinedInv
  <2>2. WelcomeInv /\ AnnounceInv
    BY <1>5, <1>7 DEF WelcomeInv, AnnounceInv
  <2>3. PlayInv
    BY <1>5, <1>6 DEF PlayInv, Playing
  <2> QED
    BY <2>1, <2>2, <2>3 DEF Listed
<1>13. TransferInv
  BY <1>8 DEF TransferInv
<1>14. HoldInv
  BY <1>5, <1>6 DEF HoldInv, HoldOf, Playing
<1> QED
  BY <1>4, <1>9, <1>10, <1>11, <1>12, <1>13, <1>14 DEF IInv, SlotInv, WorldInv

-----------------------------------------------------------------------------
(* The theorems                                                              *)

\* The invariant that the other theorems rest on: the types, who has which connection,
\* who is in which level, which ids are in use, whom the host lists, and what of the
\* world every player has been sent.
THEOREM InvariantHolds == Spec => []IInv
<1>1. Init => IInv
  BY InitKeeps
<1>2. IInv /\ [Next]_vars => IInv'
  BY NextKeeps
<1> QED
  BY <1>1, <1>2, PTL DEF Spec

\* Types: the slot and the cursor of a transfer stay in range through every stage, the
\* list of destroyed things within its array, and every message is one the reader knows.
THEOREM SessionTyped == Spec => []TypeOK
<1>1. IInv => TypeOK
  <2> SUFFICES ASSUME Types
               PROVE  TypeOK
    BY DEF IInv
  <2>1. ASSUME NEW c \in Clients, NEW k \in DOMAIN up[c]
        PROVE  up[c][k] \in UpMsg
    BY <2>1 DEF Types
  <2>2. ASSUME NEW c \in Clients, NEW k \in DOMAIN down[c]
        PROVE  DownMsg(down[c][k])
    <3>1. down[c][k] \in Messages
      BY <2>2 DEF Types
    <3> DEFINE m == down[c][k]
    <3>2. CASE m \in {Snap(items) : items \in SUBSET Pieces}
      BY <3>2 DEF DownMsg, Snap, Pieces
    <3>3. CASE m \notin {Snap(items) : items \in SUBSET Pieces}
      BY <3>1, <3>3 DEF Messages, DownMsg
    <3> QED
      BY <3>2, <3>3
  <2>3. \A c \in Clients : client[c] \in PlayerStates
    BY DEF Types
  <2> QED
    BY <2>1, <2>2, <2>3 DEF Types, TypeOK, JoinStates, PlayerStates, Lefts
<1> QED
  BY <1>1, InvariantHolds, PTL

\* No player is in two slots: the host gives a slot only to who is in none, and who asks
\* again is welcomed to the slot that it has.
THEOREM OneSlotForEach == Spec => []OneSlotEach
<1>1. IInv => OneSlotEach
  BY DEF IInv, SlotInv, Listed, ListInv, OneSlotEach
<1> QED
  BY <1>1, InvariantHolds, PTL

\* The host and a player that it lists agree on which slot is the player's, however
\* often the player asked, was welcomed and announced itself.
THEOREM SlotsAgreed == Spec => []SlotAgreed
<1>1. IInv => SlotAgreed
  <2> SUFFICES ASSUME IInv, InOrder, NEW c \in Clients, Playing(c), HasSlot(c)
               PROVE  client[c].slot = SlotOf(conn[c])
    BY DEF SlotAgreed
  <2>1. SlotOf(conn[c]) \in Slots /\ slot[SlotOf(conn[c])].net = conn[c] /\ conn[c] # NoId
    BY SlotOfHolds DEF HasSlot
  <2> QED
    BY <2>1 DEF IInv, SlotInv, Listed, PlayInv
<1> QED
  BY <1>1, InvariantHolds, PTL

\* An id that is given out again: its last owner has left the list before the next one
\* plays, because the host takes up no request before it has heard of who is gone.
THEOREM GoneFirst == Spec => []GoneBeforeReuse
<1>1. IInv => GoneBeforeReuse
  BY DEF IInv, SlotInv, Listed, PlayInv, InGone, GoneBeforeReuse
<1> QED
  BY <1>1, InvariantHolds, PTL

\* Who plays has the world: the first owner of an id has all that the host's world was
\* made of when it first took up the request, whatever was aborted, destroyed or asked
\* again on the way.
THEOREM WhoPlaysHasTheWorld == Spec => []SnapshotComplete
<1>1. IInv => SnapshotComplete
  BY DEF IInv, WorldInv, HoldInv, HoldOf, Due, SnapshotComplete
<1> QED
  BY <1>1, InvariantHolds, PTL

-----------------------------------------------------------------------------
(* What upsets the list: nothing, in one level of short frames               *)

\* how many steps of a frame the stage is away from the end of a transfer
Done(stage) == CASE stage = 2 -> 0 [] stage = 1 -> 1 [] stage = 3 -> 2 [] OTHER -> 3

\* Steps that a frame still has when the transfer is over began after it.
IdleInv == join.active \/ frame = 0 \/ frame + Done(join.stage) < FrameSteps
NeverOver == IdleInv /\ "over" \notin left.odd

LEMMA SyncIdle ==
    ASSUME Types, NeverOver, FrameSteps < 5, SyncStep
    PROVE  NeverOver'
<1>1. /\ join \in JoinStates /\ left \in Lefts /\ frame \in Nat /\ FrameSteps \in Nat
      /\ frame <= FrameSteps /\ frame > 0 /\ frame' = frame - 1
  BY MultiAssumption DEF Types, SyncStep
<1>2. join.stage \in 1 .. 4
  BY <1>1 DEF JoinStates
<1>3. ASSUME NEW s \in 1 .. 4, join'.active = join.active, join'.stage = s, left' = left,
             Done(s) <= Done(join.stage) + 1
      PROVE  NeverOver'
  <2>1. Done(s) \in Nat /\ Done(join.stage) \in Nat
    BY <1>2 DEF Done
  <2> QED
    BY <1>1, <1>3, <2>1 DEF NeverOver, IdleInv
<1>4. ASSUME NEW S, NEW n, NEW kind, NEW from \in 1 .. 4, NEW to \in 1 .. 4,
             SweepStep(from, S, n, kind, to), Done(to) <= Done(from) + 1
      PROVE  NeverOver'
  <2>1. join.stage = from /\ left' = left
    BY <1>4 DEF SweepStep
  <2>2. join' = [join EXCEPT !.stage = to, !.cursor = 0] \/ \E x : join' = [join EXCEPT !.cursor = x]
    BY <1>4 DEF SweepStep
  <2>3. join'.active = join.active /\ join'.stage \in {from, to}
    BY <1>1, <2>1, <2>2 DEF JoinStates
  <2>4. Done(from) \in Nat
    BY DEF Done
  <2> QED
    BY <1>3, <1>4, <2>1, <2>3, <2>4
<1>5. CASE SweepStep(2, Surfaces, NumSurfaces, "surface", 1)
  BY <1>4, <1>5 DEF Done
<1>6. CASE SweepStep(1, Sectors, NumSectors, "sector", 3)
  BY <1>4, <1>6 DEF Done
<1>7. CASE ThingStep
  <2>1. join.stage = 3 /\ join' = [join EXCEPT !.stage = 4, !.cursor = 0] /\ left' = left
    BY <1>7 DEF ThingStep
  <2>2. join'.active = join.active /\ join'.stage = 4
    BY <1>1, <2>1 DEF JoinStates
  <2> QED
    BY <1>3, <2>1, <2>2 DEF Done
<1>8. CASE LastStep
  <2>1. join.stage = 4 /\ Done(4) = 3 /\ Done(2) = 0
    BY <1>8 DEF LastStep, Done
  <2>2. join.active
    BY <1>1, <2>1 DEF NeverOver, IdleInv
  <2>3. \/ join' = NoSync /\ left' = left
        \/ (\E x : join' = [join EXCEPT !.cursor = x]) /\ left' = left
    BY <1>8, <2>2 DEF LastStep
  <2>4. CASE join' = NoSync /\ left' = left
    <3>1. join'.stage = 2
      BY <1>1, <2>4, NoSyncTyped
    <3> QED
      BY <1>1, <2>1, <2>4, <3>1 DEF NeverOver, IdleInv
  <2>5. CASE (\E x : join' = [join EXCEPT !.cursor = x]) /\ left' = left
    <3>1. join'.active = join.active
      BY <1>1, <2>5 DEF JoinStates
    <3> QED
      BY <2>2, <2>5, <3>1 DEF NeverOver, IdleInv
  <2> QED
    BY <2>3, <2>4, <2>5
<1> QED
  BY <1>5, <1>6, <1>7, <1>8 DEF SyncStep

\* The steps that are not of a transfer: they are between two frames, or leave it alone.
LEMMA OthersIdle ==
    ASSUME Types, NeverOver, [Next]_vars, ~SyncStep
    PROVE  NeverOver'
<1>1. join \in JoinStates /\ left \in Lefts
  BY DEF Types
<1>2. /\ UNCHANGED <<frame, join>> \/ frame' = 0 \/ join'.active
         \/ (frame' = frame /\ ~join.active /\ join'.stage = join.stage)
      /\ left'.odd \subseteq left.odd \cup {"late"}
  <2>1. CASE UNCHANGED vars
    BY <2>1 DEF vars, host
  <2>2. CASE Transport
    BY <1>1, <2>2 DEF Transport, Connect, Leave, Vanish, Closed, host, Lefts
  <2>3. CASE Player
    <3>1. ASSUME NEW c \in Clients, ClientReceive(c)
          PROVE  UNCHANGED <<frame, join>> /\ left'.odd \subseteq left.odd \cup {"late"}
      <4>1. UNCHANGED host /\ (left' = left \/ TakesUpWelcome(c, Head(down[c]).slot))
        BY <3>1, ReceiveEffect
      <4> QED
        BY <1>1, <4>1 DEF host, TakesUpWelcome, Lefts
    <3>2. ASSUME NEW c \in Clients,
                 AskToJoin(c) \/ Play(c) \/ GoesAway(c) \/ NextLevel(c) \/ HostIsGone(c)
          PROVE  UNCHANGED <<frame, join>> /\ left' = left
      BY <3>2 DEF AskToJoin, Play, GoesAway, NextLevel, HostIsGone, host
    <3> QED
      BY <2>3, <3>1, <3>2 DEF Player
  <2>4. ASSUME NEW c \in Clients, HostReceive(c)
        PROVE  frame' = 0 /\ left' = left
    BY <2>4 DEF HostReceive, HostReceives, HostRuns, Handle
  <2>5. ASSUME NEW i \in Slots, DropSilent(i)
        PROVE  UNCHANGED <<frame, join>> /\ left'.odd = left.odd
    BY <1>1, <2>5 DEF DropSilent, Lefts
  <2>6. CASE \E k \in 1 .. FrameSteps : BeginSteps(k)
    BY <2>6 DEF BeginSteps
  <2>7. CASE PlayerGone
    BY <2>7 DEF PlayerGone, HostRuns
  <2>8. CASE FreeThing \/ ScoresDue \/ SendScores \/ EndsLevel \/ HostLeaves
    BY <1>1, <2>8 DEF FreeThing, ScoresDue, SendScores, EndsLevel, HostLeaves, Lefts
  <2>9. CASE AbortJoin \/ LevelOver
    BY <2>9 DEF AbortJoin, LevelOver, HostRuns
  <2>10. CASE OpenLevel
    BY <1>1, <2>10 DEF OpenLevel, Types, JoinStates
  <2> QED
    BY <2>1, <2>2, <2>3, <2>4, <2>5, <2>6, <2>7, <2>8, <2>9, <2>10 DEF Next, Host
<1> QED
  BY <1>2 DEF NeverOver, IdleInv

\* A frame that is shorter than a transfer of four stages and the step that ended the one
\* before never goes on to a second last stage.
THEOREM ShortFramesEnd == ASSUME FrameSteps < 5 PROVE Spec => []("over" \notin left.odd)
<1>1. Init => NeverOver
  BY DEF Init, NeverOver, IdleInv
<1>2. IInv /\ NeverOver /\ [Next]_vars => NeverOver'
  BY SyncIdle, OthersIdle DEF IInv
<1>3. NeverOver => "over" \notin left.odd
  BY DEF NeverOver
<1> QED
  BY <1>1, <1>2, <1>3, InvariantHolds, PTL DEF Spec

\* In a single level nobody takes up the welcome to another.
LEMMA OneLevelOnTime ==
    ASSUME IInv, MaxLevels = 1, "late" \notin left.odd, [Next]_vars
    PROVE  "late" \notin left'.odd
<1>1. Types /\ LevelInv /\ left \in Lefts
  BY DEF IInv, Types
<1>2. level = 1
  BY <1>1, MultiAssumption DEF Types
<1>3. ASSUME NEW c \in Clients, ClientReceive(c)
      PROVE  "late" \notin left'.odd
  <2>1. CASE left' = left
    BY <2>1
  <2>2. CASE Head(down[c]).kind = "welcome" /\ TakesUpWelcome(c, Head(down[c]).slot)
    <3>1. down[c] \in Seq(Messages) /\ down[c] # <<>>
      BY <1>1, <1>3, ReceiveEffect DEF Types
    <3>2. Welcomes(down[c]) # {}
      BY <2>2, <3>1, SlottedTail DEF Welcomes
    <3>3. client[c].level \in 1 .. level + 1 /\ ~(client[c].level > level)
      BY <1>1, <2>2, <3>2 DEF LevelInv, TakesUpWelcome
    <3>4. client[c].level = level
      BY <1>2, <3>3
    <3> QED
      BY <2>2, <3>4 DEF TakesUpWelcome
  <2> QED
    BY <1>1, <1>3, <2>1, <2>2, ReceiveEffect
<1>4. ASSUME NEW c \in Clients, Connect(c) \/ Leave(c) \/ Vanish(c)
      PROVE  left'.odd = left.odd
  BY <1>1, <1>4 DEF Connect, Leave, Vanish, Closed, Lefts
<1>5. ASSUME NEW c \in Clients,
             AskToJoin(c) \/ Play(c) \/ GoesAway(c) \/ NextLevel(c) \/ HostIsGone(c)
      PROVE  left' = left
  BY <1>5 DEF AskToJoin, Play, GoesAway, NextLevel, HostIsGone
<1>6. ASSUME NEW c \in Clients, HostReceive(c)
      PROVE  left' = left
  BY <1>6 DEF HostReceive, Handle
<1>7. ASSUME NEW i \in Slots, DropSilent(i)
      PROVE  left'.odd = left.odd
  BY <1>1, <1>7 DEF DropSilent, Lefts
<1>8. CASE SyncStep
  BY <1>1, <1>8, SyncEffect DEF Goes, Gives, Overruns, Lefts
<1>9. CASE \/ FreeThing \/ ScoresDue \/ SendScores \/ EndsLevel \/ HostLeaves
           \/ AbortJoin \/ LevelOver \/ OpenLevel \/ PlayerGone
           \/ \E k \in 1 .. FrameSteps : BeginSteps(k)
  BY <1>1, <1>9 DEF FreeThing, ScoresDue, SendScores, EndsLevel, HostLeaves, AbortJoin,
                    LevelOver, OpenLevel, PlayerGone, BeginSteps, Lefts
<1>10. CASE UNCHANGED vars
  BY <1>10 DEF vars
<1> QED
  BY <1>3, <1>4, <1>5, <1>6, <1>7, <1>8, <1>9, <1>10 DEF Next, Transport, Host, Player

\* The list of players is never upset in one level of short frames: what the theorems
\* above say under InOrder then holds without it.
THEOREM ShortLevelInOrder ==
    ASSUME FrameSteps < 5, MaxLevels = 1
    PROVE  Spec => []InOrder
<1>1. Init => "late" \notin left.odd
  BY DEF Init
<1>2. IInv /\ "late" \notin left.odd /\ [Next]_vars => ("late" \notin left.odd)'
  BY OneLevelOnTime
<1>3. IInv /\ "late" \notin left.odd /\ "over" \notin left.odd => InOrder
  BY DEF IInv, Types, Lefts, InOrder
<1> QED
  BY <1>1, <1>2, <1>3, InvariantHolds, ShortFramesEnd, PTL DEF Spec
================================================================================
