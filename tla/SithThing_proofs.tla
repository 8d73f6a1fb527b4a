--------------------------- MODULE SithThing_proofs ---------------------------
(***************************************************************************)
(* What sithThing.c keeps true of the slots of a level, for every number   *)
(* of slots and things and however deep handlers interrupt each other.     *)
(***************************************************************************)
EXTENDS SithThing, WellFoundedInduction, TLAPS

-------------------------------------------------------------------------------
(* Stacks *)

LEMMA FrontOf ==
    ASSUME NEW S, NEW s \in Seq(S), s # <<>>
    PROVE  /\ Front(s) \in Seq(S) /\ Len(Front(s)) = Len(s) - 1
           /\ \A i \in 1 .. Len(s) - 1 : Front(s)[i] = s[i]
           /\ Last(s) = s[Len(s)] /\ Last(s) \in S /\ Len(s) \in Nat \ {0}
  <1>1. Len(s) \in Nat \ {0}
    OBVIOUS
  <1> DEFINE n == Len(s) - 1
  <1>4. Front(s) = SubSeq(s, 1, n)
    BY Zenon DEF Front
  <1>5. n = Len(s) - 1 /\ n \in Nat /\ n <= Len(s)
    BY <1>1
  <1> HIDE DEF n
  <1>2. SubSeq(s, 1, n) \in Seq(S) /\ Len(SubSeq(s, 1, n)) = n
    BY <1>5
  <1>3. \A i \in 1 .. n : SubSeq(s, 1, n)[i] = s[i]
    BY <1>5
  <1>6. Front(s) \in Seq(S) /\ Len(Front(s)) = n /\ \A i \in 1 .. n : Front(s)[i] = s[i]
    BY <1>2, <1>3, <1>4, Zenon
  <1>7. Last(s) = s[Len(s)] /\ s[Len(s)] \in S
    BY <1>1 DEF Last
  <1> QED
    BY <1>1, <1>5, <1>6, <1>7

LEMMA LastOf ==
    ASSUME NEW S, NEW s \in Seq(S), s # <<>>
    PROVE  Len(s) \in 1 .. Len(s) /\ Len(s) \in DOMAIN s /\ Last(s) = s[Len(s)]
  <1>1. Len(s) \in Nat \ {0} /\ DOMAIN s = 1 .. Len(s)
    OBVIOUS
  <1> QED
    BY <1>1 DEF Last

LEMMA Pushed ==
    ASSUME NEW S, NEW s \in Seq(S), NEW e \in S, NEW t, t = Append(s, e)
    PROVE  /\ t \in Seq(S) /\ Len(t) = Len(s) + 1 /\ t[Len(t)] = e
           /\ \A i \in 1 .. Len(s) : t[i] = s[i]
  OBVIOUS

-------------------------------------------------------------------------------
(* The operators on things *)

\* The lists are all that differs between two sets of things.
SameLives(a, b) == \A s \in Slots :
    /\ a[s].type = b[s].type /\ a[s].removed = b[s].removed
    /\ a[s].sig = b[s].sig /\ a[s].inSector = b[s].inSector

LEMMA NewThingType ==
    ASSUME NEW kind \in Kinds \cup {FREE}, NEW sig \in Nat
    PROVE  NewThing(kind, sig) \in Things
  BY DEF NewThing, Things, SlotOrNone, NONE

\* Writing a link of a thing changes nothing else.
LEMMA FieldOk ==
    ASSUME NEW t \in Things, NEW v \in SlotOrNone
    PROVE  \A u \in {[t EXCEPT !.on = v], [t EXCEPT !.first = v],
                      [t EXCEPT !.next = v], [t EXCEPT !.prev = v]} :
              /\ u \in Things /\ u.type = t.type /\ u.removed = t.removed
              /\ u.sig = t.sig /\ u.inSector = t.inSector
  BY DEF Things

LEMMA EntryOk ==
    ASSUME NEW a \in [Slots -> Things], NEW s \in Slots, NEW v \in SlotOrNone
    PROVE  \A b \in {[a EXCEPT ![s].on = v], [a EXCEPT ![s].first = v],
                      [a EXCEPT ![s].next = v], [a EXCEPT ![s].prev = v]} :
              b \in [Slots -> Things] /\ SameLives(a, b)
  <1>1. ASSUME NEW u \in Things, u.type = a[s].type, u.removed = a[s].removed,
               u.sig = a[s].sig, u.inSector = a[s].inSector
        PROVE  [a EXCEPT ![s] = u] \in [Slots -> Things] /\ SameLives(a, [a EXCEPT ![s] = u])
    BY <1>1 DEF SameLives
  <1> DEFINE u1 == [a[s] EXCEPT !.on = v]
             u2 == [a[s] EXCEPT !.first = v]
             u3 == [a[s] EXCEPT !.next = v]
             u4 == [a[s] EXCEPT !.prev = v]
  <1>2. a[s] \in Things
    OBVIOUS
  <1>3. \A u \in {u1, u2, u3, u4} :
           /\ u \in Things /\ u.type = a[s].type /\ u.removed = a[s].removed
           /\ u.sig = a[s].sig /\ u.inSector = a[s].inSector
    BY <1>2, FieldOk, Zenon
  <1>4. /\ [a EXCEPT ![s].on = v] = [a EXCEPT ![s] = u1]
        /\ [a EXCEPT ![s].first = v] = [a EXCEPT ![s] = u2]
        /\ [a EXCEPT ![s].next = v] = [a EXCEPT ![s] = u3]
        /\ [a EXCEPT ![s].prev = v] = [a EXCEPT ![s] = u4]
    OBVIOUS
  <1> HIDE DEF u1, u2, u3, u4
  <1>5. \A u \in {u1, u2, u3, u4} :
           [a EXCEPT ![s] = u] \in [Slots -> Things] /\ SameLives(a, [a EXCEPT ![s] = u])
    BY <1>1, <1>3
  <1> QED
    BY <1>4, <1>5, Zenon

LEMMA SameLivesTransitive ==
    ASSUME NEW a, NEW b, NEW c, SameLives(a, b), SameLives(b, c)
    PROVE  SameLives(a, c)
  BY DEF SameLives

LEMMA LinkOk ==
    ASSUME NEW a \in [Slots -> Things], NEW r \in Slots, NEW c \in Slots
    PROVE  Link(a, r, c) \in [Slots -> Things] /\ SameLives(a, Link(a, r, c))
  <1> DEFINE head == a[c].first
             a0 == [a EXCEPT ![r].on = c]
             a1 == [a0 EXCEPT ![r].next = head]
             a2 == IF head = NONE THEN a1 ELSE [a1 EXCEPT ![head].prev = r]
             a3 == [a2 EXCEPT ![r].prev = NONE]
             a4 == [a3 EXCEPT ![c].first = r]
  <1>0. Link(a, r, c) = a4
    BY DEF Link
  <1>1. head \in SlotOrNone /\ r \in SlotOrNone /\ c \in SlotOrNone /\ NONE \in SlotOrNone
    BY DEF Things, SlotOrNone
  <1>2. a0 \in [Slots -> Things] /\ SameLives(a, a0)
    BY <1>1, EntryOk
  <1> HIDE DEF a0
  <1>3. a1 \in [Slots -> Things] /\ SameLives(a, a1)
    BY <1>1, <1>2, EntryOk, SameLivesTransitive
  <1> HIDE DEF a1
  <1>4. a2 \in [Slots -> Things] /\ SameLives(a, a2)
    <2>1. CASE head = NONE
      BY <1>3, <2>1
    <2>2. CASE head # NONE
      <3>1. head \in Slots /\ a2 = [a1 EXCEPT ![head].prev = r]
        BY <1>1, <2>2 DEF SlotOrNone
      <3> QED
        BY <1>1, <1>3, <3>1, EntryOk, SameLivesTransitive
    <2> QED
      BY <2>1, <2>2
  <1> HIDE DEF a2
  <1>5. a3 \in [Slots -> Things] /\ SameLives(a, a3)
    BY <1>1, <1>4, EntryOk, SameLivesTransitive
  <1> HIDE DEF a3
  <1>6. a4 \in [Slots -> Things] /\ SameLives(a, a4)
    BY <1>1, <1>5, EntryOk, SameLivesTransitive
  <1> QED
    BY <1>0, <1>6

LEMMA UnlinkOk ==
    ASSUME NEW a \in [Slots -> Things], NEW r \in Slots, NEW c \in Slots
    PROVE  Unlink(a, r, c) \in [Slots -> Things] /\ SameLives(a, Unlink(a, r, c))
  <1> DEFINE p == a[r].prev
             n == a[r].next
             a1 == IF p = NONE THEN [a EXCEPT ![c].first = n] ELSE [a EXCEPT ![p].next = n]
             a2 == IF n = NONE THEN a1 ELSE [a1 EXCEPT ![n].prev = p]
             a3 == [a2 EXCEPT ![r].on = NONE]
             a4 == [a3 EXCEPT ![r].next = NONE]
             a5 == [a4 EXCEPT ![r].prev = NONE]
  <1>0. Unlink(a, r, c) = a5
    BY DEF Unlink
  <1>1. p \in SlotOrNone /\ n \in SlotOrNone /\ NONE \in SlotOrNone
    BY DEF Things, SlotOrNone
  <1>2. a1 \in [Slots -> Things] /\ SameLives(a, a1)
    <2>1. CASE p = NONE
      BY <1>1, <2>1, EntryOk
    <2>2. CASE p # NONE
      <3>1. p \in Slots /\ a1 = [a EXCEPT ![p].next = n]
        BY <1>1, <2>2 DEF SlotOrNone
      <3> QED
        BY <1>1, <3>1, EntryOk
    <2> QED
      BY <2>1, <2>2
  <1> HIDE DEF a1
  <1>3. a2 \in [Slots -> Things] /\ SameLives(a, a2)
    <2>1. CASE n = NONE
      BY <1>2, <2>1
    <2>2. CASE n # NONE
      <3>1. n \in Slots /\ a2 = [a1 EXCEPT ![n].prev = p]
        BY <1>1, <2>2 DEF SlotOrNone
      <3> QED
        BY <1>1, <1>2, <3>1, EntryOk, SameLivesTransitive
    <2> QED
      BY <2>1, <2>2
  <1> HIDE DEF a2
  <1>4. a3 \in [Slots -> Things] /\ SameLives(a, a3)
    BY <1>1, <1>3, EntryOk, SameLivesTransitive
  <1> HIDE DEF a3
  <1>5. a4 \in [Slots -> Things] /\ SameLives(a, a4)
    BY <1>1, <1>4, EntryOk, SameLivesTransitive
  <1> HIDE DEF a4
  <1>6. a5 \in [Slots -> Things] /\ SameLives(a, a5)
    BY <1>1, <1>5, EntryOk, SameLivesTransitive
  <1> QED
    BY <1>0, <1>6

\* There is a highest slot in use below s, if there is one at all.
LEMMA HighestBelowOk ==
    ASSUME NEW s \in Slots, NumThingsLoaded \in Nat
    PROVE  /\ HighestBelow(s) \in SlotOrNone /\ HighestBelow(s) < s
           /\ HighestBelow(s) # NONE => Used(HighestBelow(s))
           /\ \A u \in Slots : u < s /\ Used(u) => u <= HighestBelow(s)
  <1> DEFINE used == {u \in Slots : u < s /\ Used(u)}
             gaps == {s - u : u \in used}
  <1>1. CASE used = {}
    BY <1>1 DEF HighestBelow, SlotOrNone, NONE, Slots
  <1>2. CASE used # {}
    <2>1. gaps \subseteq Nat /\ gaps # {}
      BY <1>2 DEF Slots
    <2>2. PICK g \in gaps : \A h \in gaps : ~(<<h, g>> \in OpToRel(<, Nat))
      BY <2>1, WFMin, NatLessThanWellFounded
    <2>3. PICK m \in used : g = s - m
      OBVIOUS
    <2>4. \A v \in used : v <= m
      <3> TAKE v \in used
      <3>1. ~(<<s - v, g>> \in OpToRel(<, Nat))
        BY <2>2
      <3>2. s - v \in Nat /\ g \in Nat
        BY <2>1
      <3>3. ~(s - v < g)
        BY <3>1, <3>2 DEF OpToRel
      <3> QED
        BY <3>3, <2>3 DEF Slots
    <2>5. HighestBelow(s) \in used /\ \A v \in used : v <= HighestBelow(s)
      BY <1>2, <2>4 DEF HighestBelow
    <2> QED
      BY <2>5 DEF SlotOrNone, NONE, Slots
  <1> QED
    BY <1>1, <1>2

-------------------------------------------------------------------------------
(* Types *)

\* What the functions that wait hold, and what they are made of.
LEMMA CallTypes ==
    /\ \A c \in Calls :
          /\ c.fn = "Detach" => c.thing \in Slots /\ c.from \in Slots
          /\ c.fn = "Leave" => c.thing \in Slots
          /\ c.fn = "Free" => c.thing \in Slots /\ c.pc \in {"detach", "leave", "free"}
          /\ c.fn = "Attach" => c.thing \in Slots /\ c.to \in Slots
          /\ c.fn = "Shed" => c.next \in SlotOrNone
          /\ c.fn = "Scan" => c.next \in Nat
    /\ \A r, c \in Slots : thing[r].on = c => DetachCall(r) \in Calls
    /\ \A s \in Slots : LeaveCall(s) \in Calls
    /\ \A s \in Slots : \A pc \in {"detach", "leave", "free"} : FreeCall(s, pc) \in Calls
    /\ \A r, c \in Slots : AttachCall(r, c) \in Calls
    /\ \A r \in SlotOrNone : ShedCall(r) \in Calls
    /\ \A i \in Nat : ScanCall(i) \in Calls
  <1>1. \A r, c \in Slots : thing[r].on = c => DetachCall(r) \in Calls
    BY DEF Calls, DetachCall
  <1>2. \A s \in Slots : LeaveCall(s) \in Calls
    BY DEF Calls, LeaveCall
  <1>3. \A s \in Slots : \A pc \in {"detach", "leave", "free"} : FreeCall(s, pc) \in Calls
    BY DEF Calls, FreeCall
  <1>4. \A r, c \in Slots : AttachCall(r, c) \in Calls
    BY DEF Calls, AttachCall
  <1>5. \A r \in SlotOrNone : ShedCall(r) \in Calls
    BY DEF Calls, ShedCall
  <1>6. \A i \in Nat : ScanCall(i) \in Calls
    BY DEF Calls, ScanCall
  <1>7. \A c \in Calls :
          /\ c.fn = "Detach" => c.thing \in Slots /\ c.from \in Slots
          /\ c.fn = "Leave" => c.thing \in Slots
          /\ c.fn = "Free" => c.thing \in Slots /\ c.pc \in {"detach", "leave", "free"}
          /\ c.fn = "Attach" => c.thing \in Slots /\ c.to \in Slots
          /\ c.fn = "Shed" => c.next \in SlotOrNone
          /\ c.fn = "Scan" => c.next \in Nat
    BY DEF Calls
  <1> QED
    BY <1>1, <1>2, <1>3, <1>4, <1>5, <1>6, <1>7, Zenon

\* A thing that is made room for, or made, has a slot.
LEMMA TakenType ==
    ASSUME TypeOK, pool # <<>>, NEW kind \in Kinds, Taken(kind)
    PROVE  /\ thing' \in [Slots -> Things] /\ numThings' \in SlotOrNone
           /\ pool' \in Seq(Slots) /\ signature' \in Nat
  <1>1. Front(pool) \in Seq(Slots) /\ Last(pool) \in Slots
    BY FrontOf DEF TypeOK
  <1>2. NewThing(kind, signature) \in Things
    BY NewThingType DEF TypeOK
  <1> QED
    BY <1>1, <1>2 DEF Taken, TypeOK, SlotOrNone

\* What a function that waits does to the stack when it goes on.
LEMMA StackTypes ==
    ASSUME calls \in Seq(Calls), calls # <<>>, NEW e \in Calls, NEW f \in Calls
    PROVE  /\ Continue(e) => calls' \in Seq(Calls)
           /\ CallFrom(e, f) => calls' \in Seq(Calls)
           /\ End => calls' \in Seq(Calls)
           /\ Last(calls) \in Calls
  BY FrontOf, SMTT(60) DEF Continue, CallFrom, End

LEMMA InitType == Init => TypeOK
  <1> SUFFICES ASSUME Init PROVE TypeOK
    OBVIOUS
  <1> USE ThingAssumption
  <1>1. thing \in [Slots -> Things]
    <2>1. \A s \in Slots : s + 1 \in Nat
      BY DEF Slots
    <2>2. \A s \in Slots : NewThing(LASTING, s + 1) \in Things
      BY <2>1, NewThingType DEF Kinds
    <2>3. Unused \in Things
      BY DEF Unused, NewThing, Things, SlotOrNone
    <2> QED
      BY <2>2, <2>3, Zenon DEF Init
  <1>2. pool \in Seq(Slots)
    <2> DEFINE n == NumThingsLoaded - LevelThings
    <2>1. n \in Nat /\ \A i \in 1 .. n : NumThingsLoaded - i \in Slots
      BY DEF Slots
    <2>2. pool = [i \in 1 .. n |-> NumThingsLoaded - i]
      BY DEF Init
    <2> HIDE DEF n
    <2> QED
      BY <2>1, <2>2
  <1>3. numThings \in SlotOrNone /\ at \in SlotOrNone
    BY DEF Init, SlotOrNone, NONE, Slots
  <1>4. calls \in Seq(Calls)
    BY DEF Init
  <1>5. signature \in Nat /\ verbs \in 0 .. MaxVerbs
    BY DEF Init
  <1>6. twice \in BOOLEAN /\ crossed \in BOOLEAN /\ orphaned \subseteq Slots
    BY Zenon DEF Init
  <1> QED
    BY <1>1, <1>2, <1>3, <1>4, <1>5, <1>6, Zenon DEF TypeOK

\* TypeOK is inductive.
LEMMA NextType == TypeOK /\ [Next]_vars => TypeOK'
  <1> SUFFICES ASSUME TypeOK, [Next]_vars PROVE TypeOK'
    OBVIOUS
  <1> USE ThingAssumption
  <1>1. CASE UNCHANGED vars
    BY <1>1 DEF vars, ghosts, TypeOK
  <1>2. ASSUME NEW kind \in Kinds, Create(kind) PROVE TypeOK'
    <2>1. CASE pool # <<>>
      BY <1>2, <2>1, TakenType DEF Create, Verb, ghosts, TypeOK
    <2>2. CASE pool = <<>>
      <3>1. calls' = Append(calls, ScanCall(0)) /\ ScanCall(0) \in Calls
        BY <1>2, <2>2, CallTypes DEF Create
      <3> QED
        BY <1>2, <2>2, <3>1 DEF Create, Verb, ghosts, TypeOK
    <2> QED
      BY <2>1, <2>2
  <1>3. ASSUME NEW s \in Slots, Destroy(s) PROVE TypeOK'
    <2>1. thing' \in [Slots -> Things]
      BY <1>3, ZenonT(60) DEF Destroy, TypeOK, Things
    <2> QED
      BY <1>3, <2>1 DEF Destroy, Verb, ghosts, TypeOK
  <1>4. ASSUME NEW r \in Slots, NEW c \in Slots, Attach(r, c) PROVE TypeOK'
    <2>1. CASE thing[r].on = NONE
      BY <1>4, <2>1, LinkOk DEF Attach, Verb, TypeOK
    <2>2. CASE thing[r].on # NONE
      <3>1. AttachCall(r, c) \in Calls /\ thing[r].on \in Slots
        BY <2>2, CallTypes DEF TypeOK, Things, SlotOrNone
      <3>2. DetachCall(r) \in Calls
        BY <3>1, CallTypes
      <3>3. calls' = Append(Append(calls, AttachCall(r, c)), DetachCall(r))
        BY <1>4, <2>2 DEF Attach
      <3>4. calls' \in Seq(Calls)
        BY <3>1, <3>2, <3>3 DEF TypeOK
      <3> QED
        BY <1>4, <2>2, <3>4 DEF Attach, Verb, TypeOK
    <2> QED
      BY <2>1, <2>2
  <1>5. ASSUME NEW r \in Slots, Detach(r) PROVE TypeOK'
    <2>1. thing[r].on \in Slots
      BY <1>5 DEF Detach, TypeOK, Things, SlotOrNone
    <2>2. calls' \in Seq(Calls)
      BY <1>5, <2>1, CallTypes DEF Detach, TypeOK
    <2> QED
      BY <1>5, <2>2 DEF Detach, Verb, TypeOK
  <1>6. ASSUME NEW c \in Slots, Shed(c) PROVE TypeOK'
    <2>1. thing[c].first \in SlotOrNone
      BY DEF TypeOK, Things
    <2>2. calls' \in Seq(Calls)
      BY <1>6, <2>1, CallTypes DEF Shed, TypeOK
    <2> QED
      BY <1>6, <2>2 DEF Shed, Verb, ghosts, TypeOK
  <1>7. CASE Return
    <2> DEFINE call == Last(calls)
    <2>1. call \in Calls /\ calls' \in Seq(Calls)
      BY <1>7, StackTypes DEF Return, InHandler, TypeOK
    <2>2. thing' \in [Slots -> Things]
      <3>1. CASE call.fn = "Detach"
        <4>1. call.thing \in Slots /\ call.from \in Slots
          BY <2>1, <3>1, CallTypes
        <4> QED
          BY <1>7, <3>1, <4>1, UnlinkOk DEF Return, TypeOK
      <3>2. CASE call.fn = "Leave"
        <4>1. thing' = [thing EXCEPT ![call.thing].inSector = FALSE]
          BY <1>7, <3>2 DEF Return
        <4>2. call.thing \in Slots
          BY <2>1, <3>2, CallTypes
        <4> DEFINE s == call.thing
                   t == [thing[s] EXCEPT !.inSector = FALSE]
        <4>3. thing[s] \in Things
          BY <4>2 DEF TypeOK
        <4>4. t \in Things
          BY <4>3 DEF Things
        <4>5. thing' = [thing EXCEPT ![s] = t]
          BY <4>1
        <4>6. thing \in [Slots -> Things] /\ s \in Slots
          BY <4>2 DEF TypeOK
        <4> HIDE DEF t, s, call
        <4> QED
          BY <4>4, <4>5, <4>6
      <3> QED
        BY <1>7, <3>1, <3>2 DEF Return, InHandler
    <2> QED
      BY <1>7, <2>1, <2>2 DEF Return, ghosts, TypeOK
  <1>8. CASE GoFree
    <2> DEFINE s == Last(calls).thing
    <2>1. Last(calls) \in Calls /\ s \in Slots /\ calls # <<>>
      BY <1>8, StackTypes, CallTypes DEF GoFree, TypeOK
    <2>2. FreeCall(s, "leave") \in Calls /\ FreeCall(s, "free") \in Calls /\ LeaveCall(s) \in Calls
      BY <2>1, CallTypes
    <2>3. CASE FreeLeaves(s)
      <3>1. thing[s].on # NONE => DetachCall(s) \in Calls
        BY <2>1, CallTypes DEF TypeOK, Things, SlotOrNone
      <3>2. calls' \in Seq(Calls)
        BY <2>1, <2>2, <2>3, <3>1, StackTypes DEF FreeLeaves, TypeOK
      <3> QED
        BY <1>8, <2>3, <3>2 DEF GoFree, FreeLeaves, TypeOK
    <2>4. CASE FreeExits(s)
      <3>1. calls' \in Seq(Calls)
        BY <2>1, <2>2, <2>4, StackTypes DEF FreeExits, TypeOK
      <3> QED
        BY <1>8, <2>4, <3>1 DEF GoFree, FreeExits, TypeOK
    <2>5. CASE FreeEnds(s)
      <3>1. calls' \in Seq(Calls)
        BY <2>1, <2>2, <2>5, StackTypes DEF FreeEnds, TypeOK
      <3>2. thing' \in [Slots -> Things]
        <4> DEFINE t == [thing[s] EXCEPT !.type = FREE, !.sig = 0]
        <4>1. thing \in [Slots -> Things] /\ thing[s] \in Things
          BY <2>1 DEF TypeOK
        <4>2. t \in Things
          BY <4>1 DEF Things
        <4>3. thing' = [thing EXCEPT ![s] = t]
          BY <2>1, <2>5, <4>1 DEF FreeEnds
        <4> HIDE DEF t
        <4> QED
          BY <2>1, <4>1, <4>2, <4>3
      <3>3. numThings' \in SlotOrNone
        BY <2>1, <2>5, HighestBelowOk DEF FreeEnds, TypeOK
      <3>4. pool' \in Seq(Slots) /\ orphaned' \subseteq Slots
        BY <2>1, <2>5 DEF FreeEnds, TypeOK
      <3> QED
        BY <1>8, <2>5, <3>1, <3>2, <3>3, <3>4 DEF GoFree, FreeEnds, TypeOK
    <2> QED
      BY <1>8, <2>3, <2>4, <2>5 DEF GoFree
  <1>9. CASE GoAttach
    <2> DEFINE call == Last(calls)
    <2>1. call \in Calls /\ call.thing \in Slots /\ call.to \in Slots /\ calls' \in Seq(Calls)
      BY <1>9, StackTypes, CallTypes DEF GoAttach, TypeOK
    <2>2. thing' \in [Slots -> Things]
      BY <1>9, <2>1, LinkOk DEF GoAttach, TypeOK
    <2> QED
      BY <1>9, <2>1, <2>2 DEF GoAttach, ghosts, TypeOK
  <1>10. CASE GoShed
    <2> DEFINE r == Last(calls).next
    <2>1. Last(calls) \in Calls /\ r \in SlotOrNone /\ calls # <<>>
      BY <1>10, StackTypes, CallTypes DEF GoShed, TypeOK
    <2>2. CASE r = NONE
      BY <1>10, <2>1, <2>2, StackTypes DEF GoShed, TypeOK
    <2>3. CASE r # NONE
      <3>1. r \in Slots
        BY <2>1, <2>3 DEF SlotOrNone
      <3>2. thing[r].next \in SlotOrNone /\ thing[r].on \in SlotOrNone
        BY <3>1 DEF TypeOK, Things
      <3>3. /\ ShedCall(thing[r].next) \in Calls
            /\ thing[r].on # NONE => DetachCall(r) \in Calls
        BY <3>1, <3>2, CallTypes DEF SlotOrNone
      <3>4. calls' \in Seq(Calls) /\ crossed' \in BOOLEAN
        BY <1>10, <2>1, <2>3, <3>3, StackTypes DEF GoShed, Busy, Among, TypeOK
      <3> QED
        BY <1>10, <3>4 DEF GoShed, TypeOK
    <2> QED
      BY <2>2, <2>3
  <1>11. CASE GoScan
    <2> DEFINE i == Last(calls).next
    <2>1. Last(calls) \in Calls /\ i \in Nat /\ calls # <<>>
      BY <1>11, StackTypes, CallTypes DEF GoScan, TypeOK
    <2>2. CASE i \notin Slots \/ i >= ScanLength
      <3>1. calls' \in Seq(Calls) /\ twice' = twice
        BY <1>11, <2>1, <2>2, StackTypes DEF GoScan, TypeOK
      <3>2. CASE pool = <<>>
        BY <1>11, <2>2, <3>1, <3>2 DEF GoScan, TypeOK
      <3>3. CASE pool # <<>>
        <4>1. Taken(LASTING) /\ LASTING \in Kinds
          BY <1>11, <2>2, <3>3 DEF GoScan, Kinds
        <4> QED
          BY <1>11, <3>1, <3>3, <4>1, TakenType DEF GoScan, TypeOK
      <3> QED
        BY <3>2, <3>3
    <2>3. CASE i \in Slots /\ ~(i >= ScanLength)
      <3>1. ScanCall(i + 1) \in Calls /\ FreeCall(i, "detach") \in Calls
        BY <2>1, <2>3, CallTypes
      <3>2. calls' \in Seq(Calls) /\ twice' \in BOOLEAN
        BY <1>11, <2>1, <2>3, <3>1, StackTypes DEF GoScan, Among, TypeOK
      <3> QED
        BY <1>11, <2>3, <3>2 DEF GoScan, TypeOK
    <2> QED
      BY <2>2, <2>3
  <1>12. CASE TickAll
    <2>1. at' \in SlotOrNone
      BY <1>12 DEF TickAll, TypeOK, SlotOrNone, NONE, Slots
    <2>2. calls' \in Seq(Calls)
      <3>1. at' # NONE => FreeCall(at', "detach") \in Calls
        BY <2>1, CallTypes DEF SlotOrNone
      <3> QED
        BY <1>12, <3>1 DEF TickAll
    <2> QED
      BY <1>12, <2>1, <2>2 DEF TickAll, ghosts, TypeOK
  <1> QED
    BY <1>1, <1>2, <1>3, <1>4, <1>5, <1>6, <1>7, <1>8, <1>9, <1>10, <1>11, <1>12 DEF Next

\* Every variable of the slots and of the functions that wait for a handler keeps its type:
\* sithThing.c never looks into a slot that is none, and every function that was interrupted
\* finds what it needs to go on.
THEOREM TypeCorrect == Spec => []TypeOK
  BY InitType, NextType, PTL DEF Spec

-------------------------------------------------------------------------------
(* Three kinds of steps *)

\* No slot is taken or freed.
NobodyMoves ==
    /\ numThings' = numThings
    /\ pool' = pool
    /\ \A s \in Slots :
          /\ thing'[s].type = thing[s].type
          /\ thing'[s].sig = thing[s].sig
          /\ thing[s].removed => thing'[s].removed
SomeoneMovesIn == pool # <<>> /\ \E kind \in Kinds : Taken(kind)
SomeoneMovesOut ==
    /\ calls # <<>> /\ Last(calls).fn = "Free" /\ Last(calls).thing \in Slots
    /\ FreeEnds(Last(calls).thing)

\* What a handler of EXITED was asked about is detached, or out of its sector.
LEMMA ReturnMovesNobody ==
    ASSUME TypeOK, Return
    PROVE  NobodyMoves
  <1> DEFINE call == Last(calls)
  <1>1. call \in Calls /\ numThings' = numThings /\ pool' = pool
    BY StackTypes DEF Return, InHandler, TypeOK
  <1>2. CASE call.fn = "Detach"
    <2>1. call.thing \in Slots /\ call.from \in Slots
      BY <1>1, <1>2, CallTypes
    <2>2. thing' = Unlink(thing, call.thing, call.from)
      BY <1>2 DEF Return
    <2> QED
      BY <1>1, <2>1, <2>2, UnlinkOk DEF TypeOK, NobodyMoves, SameLives
  <1>3. CASE call.fn = "Leave"
    <2> DEFINE s == call.thing
               t == [thing[s] EXCEPT !.inSector = FALSE]
    <2>1. thing \in [Slots -> Things] /\ s \in Slots /\ thing[s] \in Things
      BY <1>1, <1>3, CallTypes DEF TypeOK
    <2>2. t.type = thing[s].type /\ t.sig = thing[s].sig /\ t.removed = thing[s].removed
      BY <2>1 DEF Things
    <2>3. thing' = [thing EXCEPT ![s] = t]
      BY <1>3 DEF Return
    <2> HIDE DEF s, t, call
    <2> QED
      BY <1>1, <2>1, <2>2, <2>3 DEF NobodyMoves
  <1> QED
    BY <1>2, <1>3 DEF Return, InHandler

LEMMA KindsOfSteps ==
    TypeOK /\ [Next]_vars => NobodyMoves \/ SomeoneMovesIn \/ SomeoneMovesOut
  <1> SUFFICES ASSUME TypeOK, [Next]_vars
               PROVE  NobodyMoves \/ SomeoneMovesIn \/ SomeoneMovesOut
    OBVIOUS
  <1>a. ASSUME numThings' = numThings, pool' = pool, thing' = thing PROVE NobodyMoves
    BY <1>a DEF NobodyMoves
  <1>b. ASSUME numThings' = numThings, pool' = pool, SameLives(thing, thing')
        PROVE  NobodyMoves
    BY <1>b DEF NobodyMoves, SameLives
  <1>1. CASE UNCHANGED vars
    BY <1>1, <1>a DEF vars
  <1>2. ASSUME NEW kind \in Kinds, Create(kind) PROVE NobodyMoves \/ SomeoneMovesIn
    BY <1>2, <1>a DEF Create, SomeoneMovesIn
  <1>3. ASSUME NEW s \in Slots, Destroy(s) PROVE NobodyMoves
    <2>1. thing' = [thing EXCEPT ![s] = [thing[s] EXCEPT !.removed = TRUE]]
      BY <1>3 DEF Destroy
    <2>2. thing \in [Slots -> Things] /\ thing[s] \in Things
      BY DEF TypeOK
    <2> DEFINE t == [thing[s] EXCEPT !.removed = TRUE]
    <2>3. t.type = thing[s].type /\ t.sig = thing[s].sig /\ t.removed
      BY <2>2 DEF Things
    <2> HIDE DEF t
    <2>4. thing' = [thing EXCEPT ![s] = t]
      BY <2>1 DEF t
    <2> QED
      BY <1>3, <2>2, <2>3, <2>4 DEF NobodyMoves, Destroy
  <1>4. ASSUME NEW r \in Slots, NEW c \in Slots, Attach(r, c) PROVE NobodyMoves
    BY <1>4, <1>a, <1>b, LinkOk DEF Attach, TypeOK
  <1>5. ASSUME NEW r \in Slots, Detach(r) PROVE NobodyMoves
    BY <1>5, <1>a DEF Detach
  <1>6. ASSUME NEW c \in Slots, Shed(c) PROVE NobodyMoves
    BY <1>6, <1>a DEF Shed
  <1>7. CASE Return
    BY <1>7, ReturnMovesNobody
  <1>8. CASE GoFree
    <2>1. Last(calls) \in Calls /\ Last(calls).thing \in Slots /\ calls # <<>>
      BY <1>8, StackTypes, CallTypes DEF GoFree, TypeOK
    <2> QED
      BY <1>8, <2>1, <1>a DEF GoFree, FreeLeaves, FreeExits, SomeoneMovesOut
  <1>9. CASE GoAttach
    <2>1. Last(calls).thing \in Slots /\ Last(calls).to \in Slots
      BY <1>9, StackTypes, CallTypes DEF GoAttach, TypeOK
    <2> QED
      BY <1>9, <2>1, <1>b, LinkOk DEF GoAttach, TypeOK
  <1>10. CASE GoShed
    BY <1>10, <1>a DEF GoShed
  <1>11. CASE GoScan
    BY <1>11, <1>a DEF GoScan, SomeoneMovesIn, Kinds
  <1>12. CASE TickAll
    BY <1>12, <1>a DEF TickAll
  <1> QED
    BY <1>1, <1>2, <1>3, <1>4, <1>5, <1>6, <1>7, <1>8, <1>9, <1>10, <1>11, <1>12 DEF Next

\* Who moves in takes the slot on top of the stack, and nobody else's changes.
LEMMA MovesIn ==
    ASSUME TypeOK, NEW kind \in Kinds, pool # <<>>, Taken(kind), NEW s, s = Last(pool)
    PROVE  /\ s \in Slots /\ pool' = Front(pool)
           /\ thing'[s].type = kind /\ kind # FREE
           /\ \A u \in Slots : u # s => thing'[u] = thing[u]
           /\ numThings' = IF numThings < s THEN s ELSE numThings
  <1>1. s \in Slots
    BY FrontOf DEF TypeOK
  <1>2. thing' = [thing EXCEPT ![s] = NewThing(kind, signature)]
    BY DEF Taken
  <1>3. NewThing(kind, signature).type = kind
    BY DEF NewThing
  <1>4. kind # FREE
    BY DEF Kinds, LASTING, BRIEF, FREE
  <1> QED
    BY <1>1, <1>2, <1>3, <1>4 DEF Taken, TypeOK

\* Who moves out leaves its slot on the stack.
LEMMA MovesOut ==
    ASSUME TypeOK, NEW s \in Slots, FreeEnds(s)
    PROVE  /\ thing'[s].type = FREE /\ thing'[s].sig = 0
           /\ \A u \in Slots : u # s => thing'[u] = thing[u]
           /\ pool' = Append(pool, s) /\ calls' = Front(calls)
           /\ numThings' = IF s = numThings THEN HighestBelow(s) ELSE numThings
  <1> DEFINE t == [thing[s] EXCEPT !.type = FREE, !.sig = 0]
  <1>1. thing \in [Slots -> Things] /\ thing[s] \in Things
    BY DEF TypeOK
  <1>2. t.type = FREE /\ t.sig = 0
    BY <1>1 DEF Things
  <1>3. thing' = [thing EXCEPT ![s] = t]
    BY <1>1 DEF FreeEnds
  <1> HIDE DEF t
  <1> QED
    BY <1>1, <1>2, <1>3 DEF FreeEnds, End

-------------------------------------------------------------------------------
(* The highest slot in use *)

LEMMA InitHighWater == Init => HighWater
  BY ThingAssumption DEF Init, HighWater, Used, NewThing, Unused, FREE, LASTING, NONE, Slots

LEMMA NextHighWater == TypeOK /\ HighWater /\ [Next]_vars => HighWater'
  <1> SUFFICES ASSUME TypeOK, HighWater, [Next]_vars PROVE HighWater'
    OBVIOUS
  <1>0. \A u \in Slots : u \in Nat
    BY DEF Slots
  <1>1. CASE NobodyMoves
    <2>0. numThings' = numThings
      BY <1>1 DEF NobodyMoves
    <2>1. ASSUME NEW s \in Slots PROVE thing'[s].type = thing[s].type
      BY <1>1, Zenon DEF NobodyMoves
    <2>2. numThings \in SlotOrNone
      BY DEF TypeOK
    <2> QED
      BY <2>0, <2>1, <2>2 DEF HighWater, Used, SlotOrNone
  <1>2. CASE SomeoneMovesIn
    <2>1. PICK kind \in Kinds : pool # <<>> /\ Taken(kind)
      BY <1>2 DEF SomeoneMovesIn
    <2> DEFINE s == Last(pool)
    <2>2. /\ s \in Slots /\ thing'[s].type # FREE
          /\ \A u \in Slots : u # s => thing'[u] = thing[u]
          /\ numThings' = IF numThings < s THEN s ELSE numThings
      BY <2>1, MovesIn
    <2>3. numThings \in SlotOrNone
      BY DEF TypeOK
    <2> HIDE DEF s
    <2> QED
      BY <1>0, <2>2, <2>3 DEF HighWater, Used, SlotOrNone, NONE
  <1>3. CASE SomeoneMovesOut
    <2> DEFINE s == Last(calls).thing
    <2>1. s \in Slots /\ FreeEnds(s)
      BY <1>3 DEF SomeoneMovesOut
    <2> HIDE DEF s
    <2>2. /\ thing'[s].type = FREE
          /\ \A u \in Slots : u # s => thing'[u] = thing[u]
          /\ numThings' = IF s = numThings THEN HighestBelow(s) ELSE numThings
      BY <2>1, MovesOut
    <2>3. /\ HighestBelow(s) \in SlotOrNone /\ HighestBelow(s) < s
          /\ HighestBelow(s) # NONE => Used(HighestBelow(s))
          /\ \A u \in Slots : u < s /\ Used(u) => u <= HighestBelow(s)
      BY <2>1, HighestBelowOk, ThingAssumption
    <2>4. numThings \in SlotOrNone
      BY DEF TypeOK
    <2> QED
      BY <1>0, <2>1, <2>2, <2>3, <2>4 DEF HighWater, Used, SlotOrNone, NONE
  <1> QED
    BY <1>1, <1>2, <1>3, KindsOfSteps

\* numThings is the highest slot in use at every moment, also between the steps of a
\* function that a handler interrupts: sithThing_TickAll and sithThing_GetById reach
\* every thing of the level.
THEOREM ReachesEveryThing == Spec => []HighWater
  <1>1. Init => TypeOK /\ HighWater
    BY InitType, InitHighWater
  <1>2. TypeOK /\ HighWater /\ [Next]_vars => (TypeOK /\ HighWater)'
    BY NextType, NextHighWater
  <1> QED
    BY <1>1, <1>2, PTL DEF Spec

-------------------------------------------------------------------------------
(* The functions that wait *)

Frees(cs, i) == cs[i].fn = "Free"
Scans(cs, i) == cs[i].fn = "Scan"

\* Of the things that are being freed: they live, may be removed, and are different ones.
FreesSound(things, cs) ==
    /\ \A i \in 1 .. Len(cs) : Frees(cs, i) =>
          things[cs[i].thing].type # FREE /\ Removable(things[cs[i].thing])
    /\ \A i, j \in 1 .. Len(cs) :
          i < j /\ Frees(cs, i) /\ Frees(cs, j) => cs[i].thing # cs[j].thing

\* A scan frees the thing before its next one; every slot from the next one on is in use;
\* and a scan within the freeing of a thing of another scan stays below that thing.
ScansSound(things, cs) ==
    /\ \A i \in 1 .. Len(cs) : Scans(cs, i) =>
          \A s \in Slots : s >= cs[i].next => things[s].type # FREE
    /\ \A i \in 1 .. Len(cs) - 1 : Scans(cs, i) =>
          Frees(cs, i + 1) /\ cs[i + 1].thing = cs[i].next - 1
    /\ \A i, j \in 1 .. Len(cs) :
          i < j /\ Scans(cs, i) /\ Scans(cs, j) => cs[j].next < cs[i].next
    /\ \A i, j \in 1 .. Len(cs) :
          i < j /\ Scans(cs, i) /\ Frees(cs, j) => cs[j].thing < cs[i].next

FramesSound(things, cs) == FreesSound(things, cs) /\ ScansSound(things, cs)

\* Things that come, and links that change, disturb nobody.
LEMMA SoundWhenThingsCome ==
    ASSUME NEW a, NEW b, NEW cs \in Seq(Calls), FramesSound(a, cs),
           \A s \in Slots : a[s].type # FREE =>
              b[s].type = a[s].type /\ (a[s].removed => b[s].removed)
    PROVE  FramesSound(b, cs)
  <1>1. \A i \in 1 .. Len(cs) : Frees(cs, i) => cs[i].thing \in Slots
    <2> TAKE i \in 1 .. Len(cs)
    <2>1. cs[i] \in Calls
      OBVIOUS
    <2> QED
      BY <2>1, CallTypes DEF Frees
  <1>2. FreesSound(b, cs)
    BY <1>1 DEF FramesSound, FreesSound, Removable
  <1>3. ScansSound(b, cs)
    BY DEF FramesSound, ScansSound
  <1> QED
    BY <1>2, <1>3 DEF FramesSound

\* A stack with the same scans and freeings in the same places, or with fewer.
SameFrees(cs, ds) ==
    /\ \A i \in 1 .. Len(ds) : Frees(ds, i) \/ Scans(ds, i) =>
          /\ i <= Len(cs) /\ ds[i].fn = cs[i].fn
          /\ Frees(ds, i) => ds[i].thing = cs[i].thing
          /\ Scans(ds, i) => ds[i].next = cs[i].next
    /\ \A i \in 1 .. Len(ds) - 1 : Scans(ds, i) =>
          i + 1 <= Len(cs) /\ ds[i + 1].fn = cs[i + 1].fn /\ ds[i + 1].thing = cs[i + 1].thing

LEMMA SoundWhenSameFrees ==
    ASSUME NEW a, NEW cs \in Seq(Calls), NEW ds \in Seq(Calls),
           FramesSound(a, cs), SameFrees(cs, ds)
    PROVE  FramesSound(a, ds)
  <1>0. Len(cs) \in Nat /\ Len(ds) \in Nat
    OBVIOUS
  <1>1. \A i \in 1 .. Len(ds) : Frees(ds, i) =>
           i \in 1 .. Len(cs) /\ Frees(cs, i) /\ ds[i].thing = cs[i].thing
    BY <1>0 DEF SameFrees, Frees
  <1>2. \A i \in 1 .. Len(ds) : Scans(ds, i) =>
           i \in 1 .. Len(cs) /\ Scans(cs, i) /\ ds[i].next = cs[i].next
    BY <1>0 DEF SameFrees, Scans
  <1>3. \A i \in 1 .. Len(ds) - 1 : Scans(ds, i) =>
           /\ i \in 1 .. Len(cs) - 1
           /\ ds[i + 1].fn = cs[i + 1].fn /\ ds[i + 1].thing = cs[i + 1].thing
    BY <1>0 DEF SameFrees
  <1>4. FreesSound(a, ds)
    BY <1>0, <1>1 DEF FramesSound, FreesSound
  <1>5. \A i \in 1 .. Len(ds) - 1 : Scans(ds, i) =>
           Frees(ds, i + 1) /\ ds[i + 1].thing = ds[i].next - 1
    <2> TAKE i \in 1 .. Len(ds) - 1
    <2> HAVE Scans(ds, i)
    <2>1. i \in 1 .. Len(cs) - 1 /\ Scans(cs, i) /\ ds[i].next = cs[i].next
      BY <1>0, <1>2, <1>3
    <2>2. Frees(cs, i + 1) /\ cs[i + 1].thing = cs[i].next - 1
      BY <2>1 DEF FramesSound, ScansSound
    <2> QED
      BY <1>3, <2>1, <2>2 DEF Frees
  <1>6. ScansSound(a, ds)
    BY <1>0, <1>1, <1>2, <1>5 DEF FramesSound, ScansSound
  <1> QED
    BY <1>4, <1>6 DEF FramesSound

\* A handler returns.
LEMMA SoundWhenPopped ==
    ASSUME NEW a, NEW cs \in Seq(Calls), cs # <<>>, FramesSound(a, cs)
    PROVE  FramesSound(a, Front(cs))
  <1> DEFINE ds == Front(cs)
  <1>1. /\ ds \in Seq(Calls) /\ Len(ds) = Len(cs) - 1 /\ Len(cs) \in Nat \ {0}
        /\ \A i \in 1 .. Len(cs) - 1 : ds[i] = cs[i]
    BY FrontOf
  <1> HIDE DEF ds
  <1>2. SameFrees(cs, ds)
    BY <1>1 DEF SameFrees, Frees, Scans
  <1>3. FramesSound(a, ds)
    BY <1>1, <1>2, SoundWhenSameFrees
  <1> QED
    BY <1>3 DEF ds

\* A function is called that neither frees nor scans.
LEMMA SoundWhenPushed ==
    ASSUME NEW a, NEW cs \in Seq(Calls), NEW e \in Calls, NEW ds, ds = Append(cs, e),
           cs = <<>> \/ Last(cs).fn # "Scan", e.fn \notin {"Free", "Scan"},
           FramesSound(a, cs)
    PROVE  FramesSound(a, ds) /\ ds \in Seq(Calls) /\ ds # <<>> /\ Last(ds) = e
  <1>1. /\ ds \in Seq(Calls) /\ Len(ds) = Len(cs) + 1 /\ ds[Len(ds)] = e
        /\ \A i \in 1 .. Len(cs) : ds[i] = cs[i]
    BY Pushed
  <1>2. Len(cs) \in Nat /\ (Len(cs) = 0 => cs = <<>>) /\ Last(cs) = cs[Len(cs)]
    BY DEF Last
  <1>3. SameFrees(cs, ds)
    BY <1>1, <1>2 DEF SameFrees, Frees, Scans
  <1>4. FramesSound(a, ds)
    BY <1>1, <1>3, SoundWhenSameFrees
  <1> QED
    BY <1>1, <1>2, <1>4 DEF Last

\* A function that does not scan goes on with the same thing.
LEMMA SoundWhenContinued ==
    ASSUME NEW a, NEW cs \in Seq(Calls), cs # <<>>, NEW e \in Calls,
           NEW ds, ds = Append(Front(cs), e),
           e.fn = Last(cs).fn, e.fn # "Scan", e.fn = "Free" => e.thing = Last(cs).thing,
           FramesSound(a, cs)
    PROVE  FramesSound(a, ds) /\ ds \in Seq(Calls) /\ ds # <<>> /\ Last(ds) = e
  <1>0. /\ Front(cs) \in Seq(Calls) /\ Len(Front(cs)) = Len(cs) - 1
        /\ \A i \in 1 .. Len(cs) - 1 : Front(cs)[i] = cs[i]
    BY FrontOf
  <1>2. Len(cs) \in Nat \ {0} /\ Last(cs) = cs[Len(cs)]
    BY FrontOf
  <1>1. /\ ds \in Seq(Calls) /\ Len(ds) = Len(cs) /\ ds[Len(ds)] = e
        /\ \A i \in 1 .. Len(ds) - 1 : ds[i] = cs[i]
    <2> DEFINE fs == Front(cs)
    <2>1. fs \in Seq(Calls) /\ Len(fs) = Len(cs) - 1 /\ \A i \in 1 .. Len(cs) - 1 : fs[i] = cs[i]
      BY <1>0
    <2> HIDE DEF fs
    <2>2. ds = Append(fs, e)
      BY DEF fs
    <2> QED
      BY <1>2, <2>1, <2>2
  <1>3. SameFrees(cs, ds)
    <2>1. ASSUME NEW i \in 1 .. Len(ds) - 1, Scans(ds, i)
          PROVE  ds[i + 1].fn = cs[i + 1].fn /\ ds[i + 1].thing = cs[i + 1].thing
      <3>1. i \in 1 .. Len(cs) - 1 /\ Scans(cs, i)
        BY <1>1, <2>1 DEF Scans
      <3>2. CASE i + 1 = Len(cs)
        <4>1. cs[i + 1].fn = "Free"
          BY <3>1 DEF FramesSound, ScansSound, Frees
        <4> QED
          BY <1>1, <1>2, <3>2, <4>1
      <3>3. CASE i + 1 # Len(cs)
        BY <1>1, <1>2, <3>1, <3>3, SMTT(60)
      <3> QED
        BY <3>2, <3>3
    <2> QED
      BY <1>1, <1>2, <2>1, SMTT(60) DEF SameFrees, Frees, Scans
  <1>4. FramesSound(a, ds)
    BY <1>1, <1>3, SoundWhenSameFrees
  <1> QED
    BY <1>1, <1>2, <1>4 DEF Last

\* A scan starts, when no slot is free, within the handler of what other scans free.
LEMMA SoundWhenScanStarts ==
    ASSUME NEW a, NEW cs \in Seq(Calls), NEW ds, ds = Append(cs, ScanCall(0)),
           cs = <<>> \/ Last(cs).fn # "Scan",
           \A s \in Slots : a[s].type # FREE,
           FramesSound(a, cs)
    PROVE  FramesSound(a, ds)
  <1> DEFINE e == ScanCall(0)
  <1>0. e \in Calls /\ e.fn = "Scan" /\ e.next = 0
    BY CallTypes DEF ScanCall
  <1>1. /\ ds \in Seq(Calls) /\ Len(ds) = Len(cs) + 1 /\ ds[Len(ds)] = e
        /\ \A i \in 1 .. Len(cs) : ds[i] = cs[i]
    BY <1>0, Pushed
  <1> HIDE DEF e
  <1>2. Len(cs) \in Nat /\ (Len(cs) = 0 => cs = <<>>) /\ Last(cs) = cs[Len(cs)]
    BY DEF Last
  <1>3. \A i \in 1 .. Len(ds) : Frees(ds, i) => i \in 1 .. Len(cs) /\ Frees(cs, i) /\ ds[i] = cs[i]
    BY <1>0, <1>1, <1>2 DEF Frees
  <1>4. FreesSound(a, ds)
    BY <1>1, <1>2, <1>3 DEF FramesSound, FreesSound
  <1>5. \A i \in 1 .. Len(cs) : Scans(cs, i) =>
           i \in 1 .. Len(cs) - 1 /\ cs[i].next > 0 /\ cs[i].next \in Nat
    <2> TAKE i \in 1 .. Len(cs)
    <2> HAVE Scans(cs, i)
    <2>1. i \in 1 .. Len(cs) - 1
      BY <1>2 DEF Scans
    <2>2. Frees(cs, i + 1) /\ cs[i + 1].thing = cs[i].next - 1
      BY <2>1 DEF FramesSound, ScansSound
    <2>3. cs[i] \in Calls /\ cs[i + 1] \in Calls
      BY <2>1
    <2>4. cs[i].next \in Nat /\ cs[i + 1].thing \in Slots
      BY <2>2, <2>3, CallTypes DEF Frees, Scans
    <2> QED
      BY <2>1, <2>2, <2>4 DEF Slots
  <1>6. \A i \in 1 .. Len(ds) - 1 : Scans(ds, i) =>
           Frees(ds, i + 1) /\ ds[i + 1].thing = ds[i].next - 1
    BY <1>1, <1>2, <1>5 DEF FramesSound, ScansSound, Frees, Scans
  <1>7. \A i \in 1 .. Len(ds) : Scans(ds, i) => i = Len(ds) \/ (i \in 1 .. Len(cs) /\ Scans(cs, i) /\ ds[i] = cs[i])
    BY <1>1, <1>2 DEF Scans
  <1>8. ScansSound(a, ds)
    <2>1. \A i, j \in 1 .. Len(ds) : i < j /\ Scans(ds, i) /\ Scans(ds, j) => ds[j].next < ds[i].next
      BY <1>0, <1>1, <1>2, <1>5, <1>7 DEF FramesSound, ScansSound
    <2>2. \A i, j \in 1 .. Len(ds) : i < j /\ Scans(ds, i) /\ Frees(ds, j) => ds[j].thing < ds[i].next
      BY <1>1, <1>2, <1>3, <1>7 DEF FramesSound, ScansSound
    <2> QED
      BY <1>6, <2>1, <2>2 DEF ScansSound
  <1> QED
    BY <1>4, <1>8 DEF FramesSound

\* A scan looks at a thing that stays, or calls the freeing of one that nobody frees yet.
LEMMA SoundWhenScanned ==
    ASSUME NEW a, NEW cs \in Seq(Calls), cs # <<>>, Last(cs).fn = "Scan",
           NEW i \in Slots, i = Last(cs).next,
           Removable(a[i]) => ~Among({"Free"}, i, cs),
           FramesSound(a, cs),
           NEW ds, ds = Append(Front(cs), ScanCall(i + 1))
    PROVE  /\ FramesSound(a, ds)
           /\ Removable(a[i]) => FramesSound(a, Append(ds, FreeCall(i, "detach")))
  <1> DEFINE n == Len(cs)
             e == ScanCall(i + 1)
             f == FreeCall(i, "detach")
             es == Append(ds, f)
  <1>0. i \in Nat
    BY DEF Slots
  <1>1. /\ Front(cs) \in Seq(Calls) /\ Len(Front(cs)) = n - 1 /\ n \in Nat \ {0}
        /\ \A k \in 1 .. n - 1 : Front(cs)[k] = cs[k]
        /\ Last(cs) = cs[n]
    BY FrontOf
  <1>2. e \in Calls /\ e.fn = "Scan" /\ e.next = i + 1
    BY <1>0, CallTypes DEF ScanCall
  <1>3. f \in Calls /\ f.fn = "Free" /\ f.thing = i
    BY CallTypes DEF FreeCall
  <1> HIDE DEF n, e, f
  <1>4. /\ ds \in Seq(Calls) /\ Len(ds) = n /\ ds[n] = e
        /\ \A k \in 1 .. n - 1 : ds[k] = cs[k]
    <2> DEFINE fs == Front(cs)
    <2>1. fs \in Seq(Calls) /\ Len(fs) = n - 1 /\ \A k \in 1 .. n - 1 : fs[k] = cs[k]
      BY <1>1
    <2>2. ds = Append(fs, e)
      BY DEF e
    <2> HIDE DEF fs
    <2> QED
      BY <1>1, <1>2, <2>1, <2>2
  <1>5. /\ es \in Seq(Calls) /\ Len(es) = n + 1 /\ es[n] = e /\ es[n + 1] = f
        /\ \A k \in 1 .. n - 1 : es[k] = cs[k]
    BY <1>1, <1>3, <1>4
  <1> HIDE DEF es
  <1>6. n = Len(cs) /\ Scans(cs, n) /\ cs[n].next = i
    BY <1>1 DEF n, Scans
  <1>7. \A k \in 1 .. n - 1 : Scans(cs, k) => i + 1 < cs[k].next /\ k + 1 \in 1 .. n - 1
    <2> TAKE k \in 1 .. n - 1
    <2> HAVE Scans(cs, k)
    <2>1. Frees(cs, k + 1) /\ cs[k + 1].thing = cs[k].next - 1 /\ i < cs[k].next
      BY <1>1, <1>6 DEF FramesSound, ScansSound
    <2>2. k + 1 # n
      BY <1>6, <2>1 DEF Frees, Scans
    <2>3. Removable(a[cs[k + 1].thing]) /\ k + 1 \in 1 .. n - 1
      BY <1>1, <1>6, <2>1, <2>2 DEF FramesSound, FreesSound
    <2>4. cs[k + 1].thing # i
      <3> SUFFICES ASSUME cs[k + 1].thing = i PROVE FALSE
        OBVIOUS
      <3>1. k + 1 \in DOMAIN cs
        BY <1>6, <2>3
      <3>2. Among({"Free"}, i, cs)
        BY <2>1, <3>1 DEF Among, Frees
      <3> QED
        BY <2>3, <3>2
    <2>5. cs[k] \in Calls
      BY <1>1, <1>6
    <2>6. cs[k].next \in Nat
      BY <2>5, CallTypes DEF Scans
    <2>7. \A x \in Nat : i < x /\ i # x - 1 => i + 1 < x
      BY <1>0
    <2>8. i # cs[k].next - 1
      BY <2>1, <2>4
    <2>9. i + 1 < cs[k].next
      BY <2>1, <2>6, <2>7, <2>8, Zenon
    <2> QED
      BY <2>3, <2>9
  <1>8. \A k \in 1 .. n - 1 : Frees(cs, k) /\ Removable(a[i]) => cs[k].thing # i
    <2> TAKE k \in 1 .. n - 1
    <2> HAVE Frees(cs, k) /\ Removable(a[i])
    <2>1. k \in DOMAIN cs
      BY <1>1, <1>6
    <2> QED
      BY <2>1 DEF Among, Frees
  <1>9. \A s \in Slots : s >= i => a[s].type # FREE
    BY <1>1, <1>6 DEF FramesSound, ScansSound
  <1>10. \A k \in 1 .. n - 1 : k \in 1 .. Len(cs) /\ (k < n - 1 => k \in 1 .. Len(cs) - 1)
    BY <1>1, <1>6
  <1>11. FramesSound(a, ds)
    <2>1. FreesSound(a, ds)
      <3>1. \A k \in 1 .. n : Frees(ds, k) => k \in 1 .. Len(cs) /\ Frees(cs, k) /\ ds[k] = cs[k]
        BY <1>1, <1>2, <1>4, <1>10 DEF Frees
      <3>2. \A k \in 1 .. n : Frees(ds, k) => a[ds[k].thing].type # FREE /\ Removable(a[ds[k].thing])
        BY <3>1 DEF FramesSound, FreesSound
      <3>3. \A k, l \in 1 .. n : k < l /\ Frees(ds, k) /\ Frees(ds, l) => ds[k].thing # ds[l].thing
        <4> TAKE k \in 1 .. n, l \in 1 .. n
        <4> HAVE k < l /\ Frees(ds, k) /\ Frees(ds, l)
        <4>1. k \in 1 .. Len(cs) /\ Frees(cs, k) /\ ds[k] = cs[k]
          BY <3>1
        <4>2. l \in 1 .. Len(cs) /\ Frees(cs, l) /\ ds[l] = cs[l]
          BY <3>1
        <4>3. cs[k].thing # cs[l].thing
          BY <4>1, <4>2 DEF FramesSound, FreesSound
        <4> QED
          BY <4>1, <4>2, <4>3
      <3> QED
        BY <1>4, <3>2, <3>3, Zenon DEF FreesSound
    <2>2. \A k \in 1 .. n : Scans(ds, k) => \A s \in Slots : s >= ds[k].next => a[s].type # FREE
      BY <1>0, <1>1, <1>2, <1>4, <1>9, <1>10 DEF FramesSound, ScansSound, Scans, Slots
    <2>3. \A k \in 1 .. n - 1 : Scans(ds, k) =>
             Frees(ds, k + 1) /\ ds[k + 1].thing = ds[k].next - 1
      BY <1>1, <1>4, <1>6, <1>7 DEF FramesSound, ScansSound, Scans, Frees
    <2>4. \A k, l \in 1 .. n : k < l /\ Scans(ds, k) /\ Scans(ds, l) => ds[l].next < ds[k].next
      BY <1>1, <1>2, <1>4, <1>7, <1>10, SMTT(60) DEF FramesSound, ScansSound, Scans
    <2>5. \A k, l \in 1 .. n : k < l /\ Scans(ds, k) /\ Frees(ds, l) => ds[l].thing < ds[k].next
      BY <1>1, <1>2, <1>4, <1>10 DEF FramesSound, ScansSound, Scans, Frees
    <2> QED
      BY <1>4, <2>1, <2>2, <2>3, <2>4, <2>5 DEF FramesSound, ScansSound
  <1>12. ASSUME Removable(a[i]) PROVE FramesSound(a, es)
    <2>1. a[i].type # FREE
      BY <1>0, <1>9
    <2>2. FreesSound(a, es)
      <3>1. \A k \in 1 .. n + 1 : Frees(es, k) => k = n + 1 \/ (k \in 1 .. n - 1 /\ Frees(cs, k) /\ es[k] = cs[k])
        BY <1>1, <1>2, <1>5 DEF Frees
      <3>2. \A k \in 1 .. n + 1 : Frees(es, k) => a[es[k].thing].type # FREE /\ Removable(a[es[k].thing])
        BY <1>3, <1>5, <1>10, <1>12, <2>1, <3>1 DEF FramesSound, FreesSound
      <3>3. \A k, l \in 1 .. n + 1 : k < l /\ Frees(es, k) /\ Frees(es, l) => es[k].thing # es[l].thing
        <4> TAKE k \in 1 .. n + 1, l \in 1 .. n + 1
        <4> HAVE k < l /\ Frees(es, k) /\ Frees(es, l)
        <4>1. k \in 1 .. n - 1 /\ Frees(cs, k) /\ es[k] = cs[k]
          BY <1>1, <3>1
        <4>2. CASE l = n + 1
          BY <1>3, <1>5, <1>8, <1>12, <4>1, <4>2
        <4>3. CASE l # n + 1
          <5>1. l \in 1 .. n - 1 /\ Frees(cs, l) /\ es[l] = cs[l]
            BY <3>1, <4>3
          <5>2. k \in 1 .. Len(cs) /\ l \in 1 .. Len(cs)
            BY <1>10, <4>1, <5>1
          <5>3. cs[k].thing # cs[l].thing
            BY <4>1, <5>1, <5>2 DEF FramesSound, FreesSound
          <5> QED
            BY <4>1, <5>1, <5>3
        <4> QED
          BY <4>2, <4>3
      <3> QED
        BY <1>5, <3>2, <3>3 DEF FreesSound
    <2>3. \A k \in 1 .. n + 1 : Scans(es, k) =>
             k = n \/ (k \in 1 .. n - 1 /\ Scans(cs, k) /\ es[k] = cs[k])
      BY <1>1, <1>3, <1>5 DEF Scans
    <2>4. \A k \in 1 .. n + 1 : Scans(es, k) => \A s \in Slots : s >= es[k].next => a[s].type # FREE
      BY <1>0, <1>2, <1>5, <1>9, <1>10, <2>3 DEF FramesSound, ScansSound, Slots
    <2>5. \A k \in 1 .. n : Scans(es, k) => Frees(es, k + 1) /\ es[k + 1].thing = es[k].next - 1
      <3>1. Frees(es, n + 1) /\ es[n + 1].thing = es[n].next - 1
        BY <1>0, <1>2, <1>3, <1>5 DEF Frees
      <3>2. \A k \in 1 .. n - 1 : Scans(cs, k) => Frees(es, k + 1) /\ es[k + 1].thing = es[k].next - 1
        BY <1>1, <1>5, <1>6, <1>7 DEF FramesSound, ScansSound, Frees
      <3> QED
        BY <1>1, <2>3, <3>1, <3>2
    <2>6. \A k, l \in 1 .. n + 1 : k < l /\ Scans(es, k) /\ Scans(es, l) => es[l].next < es[k].next
      <3> TAKE k \in 1 .. n + 1, l \in 1 .. n + 1
      <3> HAVE k < l /\ Scans(es, k) /\ Scans(es, l)
      <3>1. k \in 1 .. n - 1 /\ Scans(cs, k) /\ es[k] = cs[k]
        BY <1>1, <2>3
      <3>2. CASE l = n
        BY <1>2, <1>5, <1>7, <3>1, <3>2
      <3>3. CASE l # n
        BY <1>10, <2>3, <3>1, <3>3 DEF FramesSound, ScansSound
      <3> QED
        BY <3>2, <3>3
    <2>7. \A k, l \in 1 .. n + 1 : k < l /\ Scans(es, k) /\ Frees(es, l) => es[l].thing < es[k].next
      <3> TAKE k \in 1 .. n + 1, l \in 1 .. n + 1
      <3> HAVE k < l /\ Scans(es, k) /\ Frees(es, l)
      <3>1. CASE l = n + 1
        <4>1. CASE k = n
          BY <1>0, <1>2, <1>3, <1>5, <3>1, <4>1
        <4>2. CASE k # n
          <5>1. k \in 1 .. n - 1 /\ Scans(cs, k) /\ es[k] = cs[k]
            BY <2>3, <4>2
          <5>2. i + 1 < cs[k].next /\ cs[k] \in Calls
            BY <1>7, <1>10, <5>1
          <5>3. cs[k].next \in Nat
            BY <5>1, <5>2, CallTypes DEF Scans
          <5> QED
            BY <1>0, <1>3, <1>5, <3>1, <5>1, <5>2, <5>3
        <4> QED
          BY <4>1, <4>2
      <3>2. CASE l # n + 1
        <4>1. l \in 1 .. n - 1 /\ Frees(cs, l) /\ es[l] = cs[l]
          BY <1>1, <1>2, <1>5, <3>2 DEF Frees
        <4>2. k \in 1 .. n - 1 /\ Scans(cs, k) /\ es[k] = cs[k]
          BY <1>1, <2>3, <4>1
        <4> QED
          BY <1>10, <4>1, <4>2 DEF FramesSound, ScansSound
      <3> QED
        BY <3>1, <3>2
    <2>8. Len(es) = n + 1 /\ Len(es) - 1 = n
      BY <1>1, <1>5
    <2>9. ScansSound(a, es)
      BY <2>4, <2>5, <2>6, <2>7, <2>8 DEF ScansSound
    <2> QED
      BY <2>2, <2>9 DEF FramesSound
  <1> QED
    BY <1>11, <1>12 DEF es, f

\* A thing is gone, and its freeing ends.
LEMMA SoundWhenFreed ==
    ASSUME NEW a, NEW b, NEW cs \in Seq(Calls), cs # <<>>, Last(cs).fn = "Free",
           FramesSound(a, cs),
           NEW s \in Slots, s = Last(cs).thing, \A u \in Slots : u # s => b[u] = a[u]
    PROVE  FramesSound(b, Front(cs))
  <1> DEFINE ds == Front(cs)
             n == Len(cs)
  <1>1. /\ ds \in Seq(Calls) /\ Len(ds) = n - 1 /\ n \in Nat \ {0} /\ Last(cs) = cs[n]
        /\ \A i \in 1 .. n - 1 : ds[i] = cs[i]
    BY FrontOf
  <1>2. FramesSound(a, ds)
    BY SoundWhenPopped
  <1> HIDE DEF ds
  <1>3. Frees(cs, n) /\ cs[n].thing = s
    BY <1>1 DEF Frees
  <1>4. \A i \in 1 .. n - 1 :
           /\ Frees(ds, i) => Frees(cs, i) /\ ds[i].thing # s /\ ds[i].thing \in Slots
           /\ Scans(ds, i) => s < ds[i].next /\ ds[i].next \in Nat
    <2> TAKE i \in 1 .. n - 1
    <2>1. cs[i] \in Calls /\ ds[i] = cs[i] /\ i < n /\ i \in 1 .. n /\ n \in 1 .. n
      BY <1>1
    <2>2. Frees(cs, i) => cs[i].thing # s
      BY <1>3, <2>1 DEF FramesSound, FreesSound
    <2>3. Scans(cs, i) => s < cs[i].next
      BY <1>3, <2>1 DEF FramesSound, ScansSound
    <2> QED
      BY <2>1, <2>2, <2>3, CallTypes DEF Frees, Scans
  <1>5. FreesSound(b, ds)
    BY <1>1, <1>2, <1>4 DEF FramesSound, FreesSound
  <1>6. \A i \in 1 .. n - 1 : Scans(ds, i) => \A u \in Slots : u >= ds[i].next => b[u].type # FREE
    <2> TAKE i \in 1 .. n - 1
    <2> HAVE Scans(ds, i)
    <2> TAKE u \in Slots
    <2> HAVE u >= ds[i].next
    <2>1. u # s
      BY <1>4 DEF Slots
    <2>2. a[u].type # FREE
      BY <1>1, <1>2 DEF FramesSound, ScansSound
    <2> QED
      BY <2>1, <2>2
  <1>7. ScansSound(b, ds)
    BY <1>1, <1>2, <1>6 DEF FramesSound, ScansSound
  <1> QED
    BY <1>5, <1>7 DEF FramesSound, ds

-------------------------------------------------------------------------------
(* The stack of free slots *)

FramesInv == ~twice => FramesSound(thing, calls)

\* The inductive invariant.  PoolExact alone is not inductive: that the slot that
\* sithThing_FreeEverythingNet puts on the stack was in use, after all that handlers did in
\* between, needs that no two functions free the same thing and that no scan comes upon
\* a thing that is being freed.
IInv == TypeOK /\ PoolExact /\ FramesInv

LEMMA TwiceStays == TypeOK /\ [Next]_vars /\ ~twice' => ~twice
  BY DEF Next, vars, ghosts, TypeOK, Create, Destroy, Attach, Detach, Shed, Return, GoFree,
         GoAttach, GoShed, GoScan, TickAll

\* The slot of a freeing that ends is in use.
LEMMA FreedWasUsed ==
    ASSUME TypeOK, FramesInv, ~twice, SomeoneMovesOut
    PROVE  Used(Last(calls).thing) /\ Removable(thing[Last(calls).thing])
  <1>0. calls \in Seq(Calls) /\ calls # <<>>
    BY Zenon DEF SomeoneMovesOut, TypeOK
  <1>1. Len(calls) \in 1 .. Len(calls) /\ Last(calls) = calls[Len(calls)]
    BY <1>0, LastOf
  <1>2. Frees(calls, Len(calls))
    BY <1>1 DEF SomeoneMovesOut, Frees
  <1> QED
    BY <1>1, <1>2 DEF FramesInv, FramesSound, FreesSound, Used

LEMMA NextPool == IInv /\ [Next]_vars => PoolExact'
  <1> SUFFICES ASSUME TypeOK, PoolExact, FramesInv, [Next]_vars, ~twice' PROVE PoolExact'
    BY DEF IInv, PoolExact
  <1>0. ~twice
    BY TwiceStays
  <1>1. CASE NobodyMoves
    <2>1. pool' = pool
      BY <1>1 DEF NobodyMoves
    <2>2. \A s \in Slots : Used(s)' <=> Used(s)
      BY <1>1 DEF NobodyMoves, Used
    <2> QED
      BY <1>0, <2>1, <2>2 DEF PoolExact, IsInjective
  <1>2. CASE SomeoneMovesIn
    <2>1. PICK kind \in Kinds : pool # <<>> /\ Taken(kind)
      BY <1>2 DEF SomeoneMovesIn
    <2> DEFINE s == Last(pool)
               n == Len(pool)
    <2>2. /\ s \in Slots /\ pool' = Front(pool) /\ thing'[s].type # FREE
          /\ \A u \in Slots : u # s => thing'[u] = thing[u]
      BY <2>1, MovesIn
    <2>3. /\ pool' \in Seq(Slots) /\ Len(pool') = n - 1 /\ n \in Nat \ {0}
          /\ \A i \in 1 .. n - 1 : pool'[i] = pool[i]
          /\ s = pool[n]
      BY <2>1, <2>2, FrontOf DEF TypeOK
    <2>4. DOMAIN pool = 1 .. n /\ DOMAIN pool' = 1 .. n - 1
      BY <2>3 DEF TypeOK
    <2>5. \A i, j \in 1 .. n : pool[i] = pool[j] => i = j
      BY <1>0, <2>4 DEF PoolExact, IsInjective
    <2>6. \A u \in Slots : (\E i \in 1 .. n : pool[i] = u) <=> ~Used(u)
      BY <1>0, <2>4 DEF PoolExact
    <2> HIDE DEF s, n
    <2>7. \A u \in Slots : (\E i \in 1 .. n - 1 : pool'[i] = u) <=> ~Used(u)'
      <3> TAKE u \in Slots
      <3>1. CASE u = s
        <4>1. Used(u)'
          BY <2>2, <3>1 DEF Used
        <4>2. \A i \in 1 .. n - 1 : pool'[i] # u
          BY <2>3, <2>5, <3>1
        <4> QED
          BY <4>1, <4>2
      <3>2. CASE u # s
        <4>1. Used(u)' <=> Used(u)
          BY <2>2, <3>2 DEF Used
        <4>2. (\E i \in 1 .. n - 1 : pool'[i] = u) <=> (\E i \in 1 .. n : pool[i] = u)
          BY <2>3, <3>2
        <4> QED
          BY <2>6, <4>1, <4>2
      <3> QED
        BY <3>1, <3>2
    <2>8. \A i, j \in 1 .. n - 1 : pool'[i] = pool'[j] => i = j
      BY <2>3, <2>5
    <2> QED
      BY <2>4, <2>7, <2>8 DEF PoolExact, IsInjective
  <1>3. CASE SomeoneMovesOut
    <2> DEFINE s == Last(calls).thing
               n == Len(pool)
    <2>1. s \in Slots /\ FreeEnds(s) /\ Used(s)
      BY <1>0, <1>3, FreedWasUsed DEF SomeoneMovesOut
    <2> HIDE DEF s
    <2>2. /\ thing'[s].type = FREE /\ pool' = Append(pool, s)
          /\ \A u \in Slots : u # s => thing'[u] = thing[u]
      BY <2>1, MovesOut
    <2>3. /\ n \in Nat /\ DOMAIN pool = 1 .. n /\ DOMAIN pool' = 1 .. n + 1
          /\ pool'[n + 1] = s /\ \A i \in 1 .. n : pool'[i] = pool[i]
      BY <2>1, <2>2 DEF TypeOK
    <2>4. \A i, j \in 1 .. n : pool[i] = pool[j] => i = j
      BY <1>0, <2>3 DEF PoolExact, IsInjective
    <2>5. \A u \in Slots : (\E i \in 1 .. n : pool[i] = u) <=> ~Used(u)
      BY <1>0, <2>3 DEF PoolExact
    <2> HIDE DEF n
    <2>6. \A u \in Slots : (\E i \in 1 .. n + 1 : pool'[i] = u) <=> ~Used(u)'
      <3> TAKE u \in Slots
      <3>1. CASE u = s
        <4>1. ~Used(u)'
          BY <2>2, <3>1 DEF Used
        <4> QED
          BY <2>3, <3>1, <4>1
      <3>2. CASE u # s
        <4>1. Used(u)' <=> Used(u)
          BY <2>2, <3>2 DEF Used
        <4>2. (\E i \in 1 .. n + 1 : pool'[i] = u) <=> (\E i \in 1 .. n : pool[i] = u)
          BY <2>3, <3>2
        <4> QED
          BY <2>5, <4>1, <4>2
      <3> QED
        BY <3>1, <3>2
    <2>7. \A i, j \in 1 .. n + 1 : pool'[i] = pool'[j] => i = j
      <3>1. \A i \in 1 .. n : pool[i] # s
        BY <2>1, <2>5
      <3> QED
        BY <2>3, <2>4, <3>1
    <2> QED
      BY <2>3, <2>6, <2>7 DEF PoolExact, IsInjective
  <1> QED
    BY <1>1, <1>2, <1>3, KindsOfSteps

\* As long as no slot is freed, things only come.
LEMMA ThingsCome ==
    ASSUME TypeOK, PoolExact, FramesInv, ~twice, NobodyMoves \/ SomeoneMovesIn
    PROVE  FramesSound(thing', calls)
  <1>1. CASE NobodyMoves
    BY <1>1, SoundWhenThingsCome DEF NobodyMoves, TypeOK, FramesInv
  <1>2. CASE SomeoneMovesIn
    <2>1. PICK kind \in Kinds : pool # <<>> /\ Taken(kind)
      BY <1>2 DEF SomeoneMovesIn
    <2> DEFINE s == Last(pool)
    <2>2. s \in Slots /\ \A u \in Slots : u # s => thing'[u] = thing[u]
      BY <2>1, MovesIn
    <2>3. Len(pool) \in DOMAIN pool /\ s = pool[Len(pool)]
      <3>1. pool \in Seq(Slots) /\ pool # <<>>
        BY <2>1, Zenon DEF TypeOK
      <3> QED
        BY <3>1, LastOf
    <2>4. thing[s].type = FREE
      BY <2>2, <2>3 DEF PoolExact, Used
    <2> HIDE DEF s
    <2> QED
      BY <2>2, <2>4, SoundWhenThingsCome DEF TypeOK, FramesInv
  <1> QED
    BY <1>1, <1>2

LEMMA NextFrames == IInv /\ [Next]_vars => FramesInv'
  <1> SUFFICES ASSUME TypeOK, PoolExact, FramesInv, [Next]_vars, ~twice'
               PROVE  FramesSound(thing', calls')
    BY DEF IInv, FramesInv
  <1>0. ~twice /\ FramesSound(thing, calls) /\ calls \in Seq(Calls)
    BY TwiceStays DEF FramesInv, TypeOK
  <1>a. ASSUME NobodyMoves \/ SomeoneMovesIn PROVE FramesSound(thing', calls)
    BY <1>0, <1>a, ThingsCome
  <1>b. ASSUME thing' = thing PROVE FramesSound(thing', calls)
    BY <1>0, <1>b
  <1>c. ASSUME SameLives(thing, thing') PROVE FramesSound(thing', calls)
    BY <1>0, <1>c, SoundWhenThingsCome DEF SameLives
  <1>d. ASSUME Verb PROVE calls = <<>> \/ Last(calls).fn # "Scan"
    BY <1>d DEF Verb, InHandler
  <1>1. CASE UNCHANGED vars
    BY <1>1, <1>b DEF vars
  <1>2. ASSUME NEW kind \in Kinds, Create(kind) PROVE FramesSound(thing', calls')
    <2>1. CASE pool # <<>>
      <3>1. SomeoneMovesIn /\ calls' = calls
        BY <1>2, <2>1 DEF Create, SomeoneMovesIn
      <3> QED
        BY <3>1, <1>a
    <2>2. CASE pool = <<>>
      <3>1. thing' = thing /\ calls' = Append(calls, ScanCall(0)) /\ Verb
        BY <1>2, <2>2 DEF Create
      <3>2. \A s \in Slots : thing[s].type # FREE
        BY <1>0, <2>2 DEF PoolExact, Used
      <3> QED
        BY <1>0, <1>d, <3>1, <3>2, SoundWhenScanStarts
    <2> QED
      BY <2>1, <2>2
  <1>3. ASSUME NEW s \in Slots, Destroy(s) PROVE FramesSound(thing', calls')
    <2>1. thing[s] \in Things /\ thing' = [thing EXCEPT ![s] = [thing[s] EXCEPT !.removed = TRUE]]
      BY <1>3 DEF Destroy, TypeOK
    <2> DEFINE t == [thing[s] EXCEPT !.removed = TRUE]
    <2>2. t.type = thing[s].type /\ t.removed
      BY <2>1 DEF Things
    <2> HIDE DEF t
    <2>3. thing' = [thing EXCEPT ![s] = t]
      BY <2>1 DEF t
    <2>4. \A u \in Slots : thing'[u].type = thing[u].type /\ (thing[u].removed => thing'[u].removed)
      BY <2>2, <2>3 DEF TypeOK
    <2>5. FramesSound(thing', calls)
      BY <1>0, <2>4, SoundWhenThingsCome
    <2> QED
      BY <1>3, <2>5 DEF Destroy
  <1>4. ASSUME NEW r \in Slots, NEW c \in Slots, Attach(r, c) PROVE FramesSound(thing', calls')
    <2>1. CASE thing[r].on = NONE
      <3>1. thing' = Link(thing, r, c) /\ calls' = calls
        BY <1>4, <2>1 DEF Attach
      <3> QED
        BY <3>1, <1>c, LinkOk DEF TypeOK
    <2>2. CASE thing[r].on # NONE
      <3> DEFINE e == AttachCall(r, c)
                 f == DetachCall(r)
                 ds == Append(calls, e)
      <3>1. e \in Calls /\ e.fn = "Attach"
        BY CallTypes DEF AttachCall
      <3>2. f \in Calls /\ f.fn = "Detach"
        <4>1. thing[r].on \in Slots
          BY <2>2 DEF TypeOK, Things, SlotOrNone
        <4> QED
          BY <4>1, CallTypes DEF DetachCall
      <3>3. thing' = thing /\ calls' = Append(ds, f) /\ Verb
        BY <1>4, <2>2 DEF Attach
      <3> HIDE DEF e, f
      <3>4. FramesSound(thing, ds) /\ ds \in Seq(Calls) /\ ds # <<>> /\ Last(ds) = e
        BY <1>0, <1>d, <3>1, <3>3, SoundWhenPushed
      <3> HIDE DEF ds
      <3>5. FramesSound(thing, Append(ds, f))
        BY <3>1, <3>2, <3>4, SoundWhenPushed
      <3> QED
        BY <3>3, <3>5
    <2> QED
      BY <2>1, <2>2
  <1>5. ASSUME NEW r \in Slots, Detach(r) PROVE FramesSound(thing', calls')
    <2> DEFINE f == DetachCall(r)
    <2>1. f \in Calls /\ f.fn = "Detach"
      <3>1. thing[r].on \in Slots
        BY <1>5 DEF Detach, TypeOK, Things, SlotOrNone
      <3> QED
        BY <3>1, CallTypes DEF DetachCall
    <2>2. thing' = thing /\ calls' = Append(calls, f) /\ Verb
      BY <1>5 DEF Detach
    <2> HIDE DEF f
    <2>3. FramesSound(thing, Append(calls, f))
      BY <1>0, <1>d, <2>1, <2>2, SoundWhenPushed
    <2> QED
      BY <2>2, <2>3
  <1>6. ASSUME NEW c \in Slots, Shed(c) PROVE FramesSound(thing', calls')
    <2> DEFINE f == ShedCall(thing[c].first)
    <2>1. f \in Calls /\ f.fn = "Shed"
      <3>1. thing[c].first \in SlotOrNone
        BY DEF TypeOK, Things
      <3> QED
        BY <3>1, CallTypes DEF ShedCall
    <2>2. thing' = thing /\ calls' = Append(calls, f) /\ Verb
      BY <1>6 DEF Shed
    <2> HIDE DEF f
    <2>3. FramesSound(thing, Append(calls, f))
      BY <1>0, <1>d, <2>1, <2>2, SoundWhenPushed
    <2> QED
      BY <2>2, <2>3
  <1>7. CASE Return
    <2>1. calls # <<>> /\ calls' = Front(calls)
      BY <1>7 DEF Return, InHandler, End
    <2>2. NobodyMoves
      BY <1>7, KindsOfSteps, ReturnMovesNobody
    <2> QED
      BY <1>0, <1>a, <2>1, <2>2, SoundWhenPopped
  <1>8. CASE GoFree
    <2> DEFINE s == Last(calls).thing
    <2>1. Last(calls) \in Calls /\ s \in Slots /\ calls # <<>> /\ Last(calls).fn = "Free"
      BY <1>8, StackTypes, CallTypes DEF GoFree, TypeOK
    <2>2. CASE FreeLeaves(s)
      <3> DEFINE e == FreeCall(s, "leave")
                 f == DetachCall(s)
                 ds == Append(Front(calls), e)
      <3>1. e \in Calls /\ e.fn = "Free" /\ e.thing = s
        BY <2>1, CallTypes DEF FreeCall
      <3>2. thing[s].on # NONE => f \in Calls
        BY <2>1, CallTypes DEF TypeOK, Things, SlotOrNone
      <3>3. f.fn = "Detach"
        BY DEF DetachCall
      <3>4. thing' = thing /\ (calls' = ds \/ (thing[s].on # NONE /\ calls' = Append(ds, f)))
        BY <2>2 DEF FreeLeaves, Continue, CallFrom
      <3> HIDE DEF e, f
      <3>5. FramesSound(thing, ds) /\ ds \in Seq(Calls) /\ ds # <<>> /\ Last(ds) = e
        BY <1>0, <2>1, <3>1, SoundWhenContinued
      <3> HIDE DEF ds
      <3>6. thing[s].on # NONE => FramesSound(thing, Append(ds, f))
        BY <3>1, <3>2, <3>3, <3>5, SoundWhenPushed
      <3> QED
        BY <3>4, <3>5, <3>6
    <2>3. CASE FreeExits(s)
      <3> DEFINE e == FreeCall(s, "free")
                 f == LeaveCall(s)
                 ds == Append(Front(calls), e)
      <3>1. e \in Calls /\ e.fn = "Free" /\ e.thing = s
        BY <2>1, CallTypes DEF FreeCall
      <3>2. f \in Calls /\ f.fn = "Leave"
        BY <2>1, CallTypes DEF LeaveCall
      <3>3. thing' = thing /\ (calls' = ds \/ calls' = Append(ds, f))
        BY <2>3 DEF FreeExits, Continue, CallFrom
      <3> HIDE DEF e, f
      <3>4. FramesSound(thing, ds) /\ ds \in Seq(Calls) /\ ds # <<>> /\ Last(ds) = e
        BY <1>0, <2>1, <3>1, SoundWhenContinued
      <3> HIDE DEF ds
      <3>5. FramesSound(thing, Append(ds, f))
        BY <3>1, <3>2, <3>4, SoundWhenPushed
      <3> QED
        BY <3>3, <3>4, <3>5
    <2>4. CASE FreeEnds(s)
      <3>1. calls' = Front(calls) /\ \A u \in Slots : u # s => thing'[u] = thing[u]
        BY <2>1, <2>4, MovesOut
      <3> QED
        BY <1>0, <2>1, <3>1, SoundWhenFreed
    <2> QED
      BY <1>8, <2>2, <2>3, <2>4 DEF GoFree
  <1>9. CASE GoAttach
    <2>1. /\ Last(calls).thing \in Slots /\ Last(calls).to \in Slots
          /\ calls # <<>> /\ calls' = Front(calls)
      BY <1>9, StackTypes, CallTypes DEF GoAttach, TypeOK, End
    <2>2. FramesSound(thing', calls)
      BY <1>9, <2>1, <1>c, LinkOk DEF GoAttach, TypeOK
    <2> QED
      BY <1>0, <2>1, <2>2, SoundWhenPopped
  <1>10. CASE GoShed
    <2> DEFINE r == Last(calls).next
    <2>1. /\ Last(calls) \in Calls /\ r \in SlotOrNone /\ calls # <<>> /\ Last(calls).fn = "Shed"
          /\ thing' = thing
      BY <1>10, StackTypes, CallTypes DEF GoShed, TypeOK
    <2>2. CASE r = NONE
      <3>1. calls' = Front(calls)
        BY <1>10, <2>2 DEF GoShed, End
      <3> QED
        BY <1>0, <2>1, <3>1, SoundWhenPopped
    <2>3. CASE r # NONE
      <3> DEFINE e == ShedCall(thing[r].next)
                 f == DetachCall(r)
                 ds == Append(Front(calls), e)
      <3>1. r \in Slots
        BY <2>1, <2>3 DEF SlotOrNone
      <3>2. e \in Calls /\ e.fn = "Shed"
        <4>1. thing[r].next \in SlotOrNone
          BY <3>1 DEF TypeOK, Things
        <4> QED
          BY <4>1, CallTypes DEF ShedCall
      <3>3. thing[r].on # NONE => f \in Calls
        BY <3>1, CallTypes DEF TypeOK, Things, SlotOrNone
      <3>4. f.fn = "Detach"
        BY DEF DetachCall
      <3>5. calls' = ds \/ (thing[r].on # NONE /\ calls' = Append(ds, f))
        BY <1>10, <2>3 DEF GoShed, Continue, CallFrom
      <3> HIDE DEF e, f
      <3>6. FramesSound(thing, ds) /\ ds \in Seq(Calls) /\ ds # <<>> /\ Last(ds) = e
        BY <1>0, <2>1, <3>2, SoundWhenContinued
      <3> HIDE DEF ds
      <3>7. thing[r].on # NONE => FramesSound(thing, Append(ds, f))
        BY <3>2, <3>3, <3>4, <3>6, SoundWhenPushed
      <3> QED
        BY <2>1, <3>5, <3>6, <3>7
    <2> QED
      BY <2>2, <2>3
  <1>11. CASE GoScan
    <2> DEFINE i == Last(calls).next
    <2>1. calls # <<>> /\ Last(calls).fn = "Scan"
      BY <1>11 DEF GoScan
    <2>2. CASE i \notin Slots \/ i >= ScanLength
      <3>1. calls' = Front(calls)
        BY <1>11, <2>2 DEF GoScan, End
      <3>2. thing' = thing \/ SomeoneMovesIn
        BY <1>11, <2>2 DEF GoScan, SomeoneMovesIn, Kinds
      <3> QED
        BY <1>0, <1>a, <1>b, <2>1, <3>1, <3>2, SoundWhenPopped
    <2>3. CASE i \in Slots /\ ~(i >= ScanLength)
      <3> DEFINE ds == Append(Front(calls), ScanCall(i + 1))
      <3>1. /\ thing' = thing
            /\ Removable(thing[i]) => /\ calls' = Append(ds, FreeCall(i, "detach"))
                                      /\ twice' = (twice \/ Among({"Free"}, i, calls))
            /\ ~Removable(thing[i]) => calls' = ds
        BY <1>11, <2>3 DEF GoScan, Continue, CallFrom
      <3>2. Removable(thing[i]) => ~Among({"Free"}, i, calls)
        BY <3>1
      <3>3. /\ FramesSound(thing, ds)
            /\ Removable(thing[i]) => FramesSound(thing, Append(ds, FreeCall(i, "detach")))
        BY <1>0, <2>1, <2>3, <3>2, SoundWhenScanned
      <3> QED
        BY <3>1, <3>3
    <2> QED
      BY <2>2, <2>3
  <1>12. CASE TickAll
    <2>1. thing' = thing /\ at' \in SlotOrNone
      BY <1>12, NextType DEF TickAll, TypeOK
    <2>2. CASE calls' = <<>>
      BY <2>2 DEF FramesSound, FreesSound, ScansSound
    <2>3. CASE calls' # <<>>
      <3> DEFINE f == FreeCall(at', "detach")
      <3>1. calls' = <<f>> /\ at' # NONE /\ Used(at') /\ thing[at'].removed
        BY <1>12, <2>1, <2>3 DEF TickAll, Used
      <3>2. f.fn = "Free" /\ f.thing = at'
        BY DEF FreeCall
      <3> HIDE DEF f
      <3>3. Len(calls') = 1 /\ calls'[1] = f
        BY <3>1
      <3> QED
        BY <2>1, <3>1, <3>2, <3>3
           DEF FramesSound, FreesSound, ScansSound, Frees, Scans, Removable, Used
    <2> QED
      BY <2>2, <2>3
  <1> QED
    BY <1>1, <1>2, <1>3, <1>4, <1>5, <1>6, <1>7, <1>8, <1>9, <1>10, <1>11, <1>12 DEF Next

LEMMA InitSound == Init => IInv
  <1> SUFFICES ASSUME Init PROVE PoolExact /\ FramesInv
    BY InitType DEF IInv
  <1> USE ThingAssumption
  <1>1. FramesInv
    BY DEF Init, FramesInv, FramesSound, FreesSound, ScansSound
  <1>2. \A s \in Slots : Used(s) <=> s < LevelThings
    BY DEF Init, Used, NewThing, Unused, FREE, LASTING
  <1>3. /\ DOMAIN pool = 1 .. NumThingsLoaded - LevelThings
        /\ \A i \in DOMAIN pool : pool[i] = NumThingsLoaded - i
    BY DEF Init
  <1>4. \A s \in Slots : (\E i \in DOMAIN pool : pool[i] = s) <=> ~Used(s)
    <2> TAKE s \in Slots
    <2>1. CASE Used(s)
      BY <1>2, <1>3, <2>1 DEF Slots
    <2>2. CASE ~Used(s)
      <3>1. NumThingsLoaded - s \in DOMAIN pool /\ pool[NumThingsLoaded - s] = s
        BY <1>2, <1>3, <2>2 DEF Slots
      <3> QED
        BY <2>2, <3>1
    <2> QED
      BY <2>1, <2>2
  <1>5. IsInjective(pool)
    BY <1>3 DEF IsInjective
  <1> QED
    BY <1>1, <1>4, <1>5 DEF PoolExact

LEMMA NextSound == IInv /\ [Next]_vars => IInv'
  BY NextType, NextPool, NextFrames DEF IInv

\* Every free slot is on the stack of sithThing.c once, and no slot in use is, whatever the
\* handlers do that interrupt the freeing of things, as long as none of them makes room by
\* freeing the very thing that is being freed.
THEOREM StackHoldsFreeSlots == Spec => []PoolExact
  <1>1. IInv => PoolExact
    BY DEF IInv
  <1> QED
    BY <1>1, InitSound, NextSound, PTL DEF Spec

\* Under the same condition a thing that nobody removed and that is not brief keeps its
\* slot and its signature.
THEOREM NobodyIsEvicted == Spec => LivingStays
  <1> DEFINE Stays == twice' \/ \A s \in Slots :
        Used(s) /\ thing'[s].sig # thing[s].sig => thing[s].removed \/ thing[s].type = BRIEF
  <1>1. ASSUME IInv, [Next]_vars PROVE Stays
    <2> SUFFICES ASSUME ~twice', NEW s \in Slots, Used(s), thing'[s].sig # thing[s].sig
                 PROVE  thing[s].removed \/ thing[s].type = BRIEF
      OBVIOUS
    <2>0. TypeOK /\ PoolExact /\ FramesInv /\ ~twice
      BY <1>1, TwiceStays DEF IInv
    <2>1. CASE NobodyMoves
      BY <2>1 DEF NobodyMoves
    <2>2. CASE SomeoneMovesIn
      <3>1. PICK kind \in Kinds : pool # <<>> /\ Taken(kind)
        BY <2>2 DEF SomeoneMovesIn
      <3>2. \A u \in Slots : u # Last(pool) => thing'[u] = thing[u]
        BY <2>0, <3>1, MovesIn
      <3>3. pool \in Seq(Slots) /\ pool # <<>>
        BY <2>0, <3>1, Zenon DEF TypeOK
      <3>4. Len(pool) \in DOMAIN pool /\ Last(pool) = pool[Len(pool)] /\ Last(pool) \in Slots
        BY <3>3, FrontOf
      <3>5. ~Used(Last(pool))
        BY <2>0, <3>4 DEF PoolExact
      <3> QED
        BY <3>2, <3>5
    <2>3. CASE SomeoneMovesOut
      <3> DEFINE v == Last(calls).thing
      <3>1. v \in Slots /\ FreeEnds(v) /\ Removable(thing[v])
        BY <2>0, <2>3, FreedWasUsed DEF SomeoneMovesOut
      <3> HIDE DEF v
      <3>2. \A u \in Slots : u # v => thing'[u] = thing[u]
        BY <2>0, <3>1, MovesOut
      <3> QED
        BY <3>1, <3>2 DEF Removable
    <2> QED
      BY <1>1, <2>0, <2>1, <2>2, <2>3, KindsOfSteps
  <1>2. Spec => []IInv
    BY InitSound, NextSound, PTL DEF Spec
  <1>3. IInv /\ [Next]_vars => [Stays]_vars
    BY <1>1
  <1> QED
    BY <1>2, <1>3, PTL DEF Spec, LivingStays

-------------------------------------------------------------------------------
(* The lists.  Only a list that is intact from its first thing on can be taken apart: *)
(* besides what the neighbours say of each other, a rank that grows along it is needed *)
(* (Ranked), or things could hold on to each other in a circle that no list reaches.   *)

Chained(a) == \A r \in Slots : a[r].on # NONE =>
    /\ a[r].next # NONE => a[a[r].next].on = a[r].on /\ a[a[r].next].prev = r
    /\ a[r].prev # NONE => a[a[r].prev].on = a[r].on /\ a[a[r].prev].next = r
Headed(a) == \A c \in Slots : a[c].first # NONE =>
    a[a[c].first].on = c /\ a[a[c].first].prev = NONE
OneHead(a, o) == \A c \in Slots \ o : \A r \in Slots :
    a[r].on = c /\ a[r].prev = NONE => a[c].first = r
FreeIsBare(a, o) == \A s \in Slots : a[s].type = FREE =>
    a[s].on = NONE /\ (s \notin o => a[s].first = NONE)
RanksOf(a, g) == \A r \in Slots : a[r].on # NONE /\ a[r].prev # NONE => g[a[r].prev] < g[r]
Ranked(a) == \E g \in [Slots -> Nat] : RanksOf(a, g)
Lists(a, o) == Chained(a) /\ Headed(a) /\ OneHead(a, o) /\ FreeIsBare(a, o) /\ Ranked(a)

LEMMA NoneOk == NONE \notin Slots /\ SlotOrNone = Slots \cup {NONE}
  BY DEF NONE, Slots, SlotOrNone

LEMMA LinkTypes ==
    ASSUME NEW a \in [Slots -> Things], NEW s \in Slots
    PROVE  /\ a[s].on \in SlotOrNone /\ a[s].first \in SlotOrNone
           /\ a[s].next \in SlotOrNone /\ a[s].prev \in SlotOrNone
  BY DEF Things

\* One link is written, and nothing else.
SameBut(x, y, fields) ==
    /\ y.type = x.type /\ \A f \in {"on", "first", "next", "prev"} \ fields : y[f] = x[f]
LEMMA OneField ==
    ASSUME NEW t \in Things, NEW v \in SlotOrNone
    PROVE  /\ [t EXCEPT !.on = v].on = v /\ SameBut(t, [t EXCEPT !.on = v], {"on"})
           /\ [t EXCEPT !.first = v].first = v /\ SameBut(t, [t EXCEPT !.first = v], {"first"})
           /\ [t EXCEPT !.next = v].next = v /\ SameBut(t, [t EXCEPT !.next = v], {"next"})
           /\ [t EXCEPT !.prev = v].prev = v /\ SameBut(t, [t EXCEPT !.prev = v], {"prev"})
  BY DEF Things, SameBut

LEMMA OnWritten ==
    ASSUME NEW a \in [Slots -> Things], NEW s \in Slots, NEW v \in SlotOrNone,
           NEW x \in Slots
    PROVE  LET b == [a EXCEPT ![s].on = v] IN
           /\ b \in [Slots -> Things] /\ b[x].on = (IF x = s THEN v ELSE a[x].on)
           /\ b[x].first = a[x].first /\ b[x].next = a[x].next /\ b[x].prev = a[x].prev
           /\ b[x].type = a[x].type
  <1> DEFINE u == [a[s] EXCEPT !.on = v]
             b == [a EXCEPT ![s].on = v]
  <1>1. u.on = v /\ SameBut(a[s], u, {"on"})
    BY OneField
  <1>2. b = [a EXCEPT ![s] = u]
    OBVIOUS
  <1>3. b \in [Slots -> Things]
    BY EntryOk
  <1> HIDE DEF u, b
  <1>4. b[x] = IF x = s THEN u ELSE a[x]
    BY <1>2
  <1>5. /\ b \in [Slots -> Things] /\ b[x].on = (IF x = s THEN v ELSE a[x].on)
        /\ b[x].first = a[x].first /\ b[x].next = a[x].next /\ b[x].prev = a[x].prev
        /\ b[x].type = a[x].type
    BY <1>1, <1>3, <1>4 DEF SameBut
  <1> QED
    BY <1>5 DEF b

LEMMA FirstWritten ==
    ASSUME NEW a \in [Slots -> Things], NEW s \in Slots, NEW v \in SlotOrNone,
           NEW x \in Slots
    PROVE  LET b == [a EXCEPT ![s].first = v] IN
           /\ b \in [Slots -> Things] /\ b[x].first = (IF x = s THEN v ELSE a[x].first)
           /\ b[x].on = a[x].on /\ b[x].next = a[x].next /\ b[x].prev = a[x].prev
           /\ b[x].type = a[x].type
  <1> DEFINE u == [a[s] EXCEPT !.first = v]
             b == [a EXCEPT ![s].first = v]
  <1>1. u.first = v /\ SameBut(a[s], u, {"first"})
    BY OneField
  <1>2. b = [a EXCEPT ![s] = u]
    OBVIOUS
  <1>3. b \in [Slots -> Things]
    BY EntryOk
  <1> HIDE DEF u, b
  <1>4. b[x] = IF x = s THEN u ELSE a[x]
    BY <1>2
  <1>5. /\ b \in [Slots -> Things] /\ b[x].first = (IF x = s THEN v ELSE a[x].first)
        /\ b[x].on = a[x].on /\ b[x].next = a[x].next /\ b[x].prev = a[x].prev
        /\ b[x].type = a[x].type
    BY <1>1, <1>3, <1>4 DEF SameBut
  <1> QED
    BY <1>5 DEF b

LEMMA NextWritten ==
    ASSUME NEW a \in [Slots -> Things], NEW s \in Slots, NEW v \in SlotOrNone,
           NEW x \in Slots
    PROVE  LET b == [a EXCEPT ![s].next = v] IN
           /\ b \in [Slots -> Things] /\ b[x].next = (IF x = s THEN v ELSE a[x].next)
           /\ b[x].on = a[x].on /\ b[x].first = a[x].first /\ b[x].prev = a[x].prev
           /\ b[x].type = a[x].type
  <1> DEFINE u == [a[s] EXCEPT !.next = v]
             b == [a EXCEPT ![s].next = v]
  <1>1. u.next = v /\ SameBut(a[s], u, {"next"})
    BY OneField
  <1>2. b = [a EXCEPT ![s] = u]
    OBVIOUS
  <1>3. b \in [Slots -> Things]
    BY EntryOk
  <1> HIDE DEF u, b
  <1>4. b[x] = IF x = s THEN u ELSE a[x]
    BY <1>2
  <1>5. /\ b \in [Slots -> Things] /\ b[x].next = (IF x = s THEN v ELSE a[x].next)
        /\ b[x].on = a[x].on /\ b[x].first = a[x].first /\ b[x].prev = a[x].prev
        /\ b[x].type = a[x].type
    BY <1>1, <1>3, <1>4 DEF SameBut
  <1> QED
    BY <1>5 DEF b

LEMMA PrevWritten ==
    ASSUME NEW a \in [Slots -> Things], NEW s \in Slots, NEW v \in SlotOrNone,
           NEW x \in Slots
    PROVE  LET b == [a EXCEPT ![s].prev = v] IN
           /\ b \in [Slots -> Things] /\ b[x].prev = (IF x = s THEN v ELSE a[x].prev)
           /\ b[x].on = a[x].on /\ b[x].first = a[x].first /\ b[x].next = a[x].next
           /\ b[x].type = a[x].type
  <1> DEFINE u == [a[s] EXCEPT !.prev = v]
             b == [a EXCEPT ![s].prev = v]
  <1>1. u.prev = v /\ SameBut(a[s], u, {"prev"})
    BY OneField
  <1>2. b = [a EXCEPT ![s] = u]
    OBVIOUS
  <1>3. b \in [Slots -> Things]
    BY EntryOk
  <1> HIDE DEF u, b
  <1>4. b[x] = IF x = s THEN u ELSE a[x]
    BY <1>2
  <1>5. /\ b \in [Slots -> Things] /\ b[x].prev = (IF x = s THEN v ELSE a[x].prev)
        /\ b[x].on = a[x].on /\ b[x].first = a[x].first /\ b[x].next = a[x].next
        /\ b[x].type = a[x].type
    BY <1>1, <1>3, <1>4 DEF SameBut
  <1> QED
    BY <1>5 DEF b

\* The links that Link and Unlink write, one by one.
LEMMA LinkFields ==
    ASSUME NEW a \in [Slots -> Things], NEW r \in Slots, NEW c \in Slots,
           NEW b, b = Link(a, r, c), NEW h, h = a[c].first, h # r
    PROVE  \A x \in Slots :
           /\ b[x].on = IF x = r THEN c ELSE a[x].on
           /\ b[x].first = IF x = c THEN r ELSE a[x].first
           /\ b[x].next = IF x = r THEN h ELSE a[x].next
           /\ b[x].prev = IF x = r THEN NONE ELSE IF x = h THEN r ELSE a[x].prev
           /\ b[x].type = a[x].type
  <1> DEFINE a0 == [a EXCEPT ![r].on = c]
             a1 == [a0 EXCEPT ![r].next = h]
             a2 == IF h = NONE THEN a1 ELSE [a1 EXCEPT ![h].prev = r]
             a3 == [a2 EXCEPT ![r].prev = NONE]
             a4 == [a3 EXCEPT ![c].first = r]
  <1>0. b = a4
    BY DEF Link
  <1>1. /\ h \in SlotOrNone /\ r \in SlotOrNone /\ c \in SlotOrNone /\ NONE \in SlotOrNone
        /\ NONE \notin Slots
    BY LinkTypes, NoneOk
  <1> SUFFICES ASSUME NEW x \in Slots
               PROVE  /\ b[x].on = IF x = r THEN c ELSE a[x].on
                      /\ b[x].first = IF x = c THEN r ELSE a[x].first
                      /\ b[x].next = IF x = r THEN h ELSE a[x].next
                      /\ b[x].prev = IF x = r THEN NONE ELSE IF x = h THEN r ELSE a[x].prev
                      /\ b[x].type = a[x].type
    OBVIOUS
  <1>2. a0 \in [Slots -> Things] /\ a0[x].on = (IF x = r THEN c ELSE a[x].on)
        /\ a0[x].first = a[x].first /\ a0[x].next = a[x].next /\ a0[x].prev = a[x].prev
        /\ a0[x].type = a[x].type
    BY <1>1, OnWritten
  <1> HIDE DEF a0
  <1>3. a1 \in [Slots -> Things] /\ a1[x].next = (IF x = r THEN h ELSE a0[x].next)
        /\ a1[x].first = a0[x].first /\ a1[x].on = a0[x].on /\ a1[x].prev = a0[x].prev
        /\ a1[x].type = a0[x].type
    BY <1>1, <1>2, NextWritten
  <1> HIDE DEF a1
  <1>4. a2 \in [Slots -> Things] /\ a2[x].prev = (IF x = h THEN r ELSE a1[x].prev)
        /\ a2[x].first = a1[x].first /\ a2[x].on = a1[x].on /\ a2[x].next = a1[x].next
        /\ a2[x].type = a1[x].type
    <2>1. CASE h = NONE
      BY <1>1, <1>3, <2>1
    <2>2. CASE h # NONE
      <3>1. h \in Slots /\ a2 = [a1 EXCEPT ![h].prev = r]
        BY <1>1, <2>2, NoneOk
      <3> QED
        BY <1>1, <1>3, <3>1, PrevWritten
    <2> QED
      BY <2>1, <2>2
  <1> HIDE DEF a2
  <1>5. a3 \in [Slots -> Things] /\ a3[x].prev = (IF x = r THEN NONE ELSE a2[x].prev)
        /\ a3[x].first = a2[x].first /\ a3[x].on = a2[x].on /\ a3[x].next = a2[x].next
        /\ a3[x].type = a2[x].type
    BY <1>1, <1>4, PrevWritten
  <1> HIDE DEF a3
  <1>6. a4 \in [Slots -> Things] /\ a4[x].first = (IF x = c THEN r ELSE a3[x].first)
        /\ a4[x].prev = a3[x].prev /\ a4[x].on = a3[x].on /\ a4[x].next = a3[x].next
        /\ a4[x].type = a3[x].type
    BY <1>1, <1>5, FirstWritten
  <1> HIDE DEF a4
  <1> QED
    BY <1>0, <1>2, <1>3, <1>4, <1>5, <1>6, Zenon

LEMMA UnlinkFields ==
    ASSUME NEW a \in [Slots -> Things], NEW r \in Slots, NEW c \in Slots,
           NEW b, b = Unlink(a, r, c), NEW p, p = a[r].prev, NEW n, n = a[r].next
    PROVE  \A x \in Slots :
           /\ b[x].on = IF x = r THEN NONE ELSE a[x].on
           /\ b[x].first = IF p = NONE /\ x = c THEN n ELSE a[x].first
           /\ b[x].next = IF x = r THEN NONE ELSE IF x = p THEN n ELSE a[x].next
           /\ b[x].prev = IF x = r THEN NONE ELSE IF x = n THEN p ELSE a[x].prev
           /\ b[x].type = a[x].type
  <1> DEFINE a1 == IF p = NONE THEN [a EXCEPT ![c].first = n] ELSE [a EXCEPT ![p].next = n]
             a2 == IF n = NONE THEN a1 ELSE [a1 EXCEPT ![n].prev = p]
             a3 == [a2 EXCEPT ![r].on = NONE]
             a4 == [a3 EXCEPT ![r].next = NONE]
             a5 == [a4 EXCEPT ![r].prev = NONE]
  <1>0. b = a5
    BY DEF Unlink
  <1>1. p \in SlotOrNone /\ n \in SlotOrNone /\ NONE \in SlotOrNone /\ NONE \notin Slots
    BY LinkTypes, NoneOk
  <1> SUFFICES ASSUME NEW x \in Slots
               PROVE  /\ b[x].on = IF x = r THEN NONE ELSE a[x].on
                      /\ b[x].first = IF p = NONE /\ x = c THEN n ELSE a[x].first
                      /\ b[x].next = IF x = r THEN NONE ELSE IF x = p THEN n ELSE a[x].next
                      /\ b[x].prev = IF x = r THEN NONE ELSE IF x = n THEN p ELSE a[x].prev
                      /\ b[x].type = a[x].type
    OBVIOUS
  <1>2. a1 \in [Slots -> Things]
        /\ a1[x].first = (IF p = NONE /\ x = c THEN n ELSE a[x].first)
        /\ a1[x].next = (IF x = p THEN n ELSE a[x].next)
        /\ a1[x].on = a[x].on /\ a1[x].prev = a[x].prev /\ a1[x].type = a[x].type
    <2>1. CASE p = NONE
      BY <1>1, <2>1, FirstWritten
    <2>2. CASE p # NONE
      <3>1. p \in Slots /\ a1 = [a EXCEPT ![p].next = n]
        BY <1>1, <2>2, NoneOk
      <3> QED
        BY <1>1, <2>2, <3>1, NextWritten
    <2> QED
      BY <2>1, <2>2
  <1> HIDE DEF a1
  <1>3. a2 \in [Slots -> Things] /\ a2[x].prev = (IF x = n THEN p ELSE a1[x].prev)
        /\ a2[x].first = a1[x].first /\ a2[x].on = a1[x].on /\ a2[x].next = a1[x].next
        /\ a2[x].type = a1[x].type
    <2>1. CASE n = NONE
      BY <1>1, <1>2, <2>1
    <2>2. CASE n # NONE
      <3>1. n \in Slots /\ a2 = [a1 EXCEPT ![n].prev = p]
        BY <1>1, <2>2, NoneOk
      <3> QED
        BY <1>1, <1>2, <3>1, PrevWritten
    <2> QED
      BY <2>1, <2>2
  <1> HIDE DEF a2
  <1>4. a3 \in [Slots -> Things] /\ a3[x].on = (IF x = r THEN NONE ELSE a2[x].on)
        /\ a3[x].first = a2[x].first /\ a3[x].prev = a2[x].prev /\ a3[x].next = a2[x].next
        /\ a3[x].type = a2[x].type
    BY <1>1, <1>3, OnWritten
  <1> HIDE DEF a3
  <1>5. a4 \in [Slots -> Things] /\ a4[x].next = (IF x = r THEN NONE ELSE a3[x].next)
        /\ a4[x].first = a3[x].first /\ a4[x].prev = a3[x].prev /\ a4[x].on = a3[x].on
        /\ a4[x].type = a3[x].type
    BY <1>1, <1>4, NextWritten
  <1> HIDE DEF a4
  <1>6. a5 \in [Slots -> Things] /\ a5[x].prev = (IF x = r THEN NONE ELSE a4[x].prev)
        /\ a5[x].first = a4[x].first /\ a5[x].next = a4[x].next /\ a5[x].on = a4[x].on
        /\ a5[x].type = a4[x].type
    BY <1>1, <1>5, PrevWritten
  <1> HIDE DEF a5
  <1> QED
    BY <1>0, <1>2, <1>3, <1>4, <1>5, <1>6, Zenon

\* The same links, and the same slots in use, or one less.
LEMMA ListsKept ==
    ASSUME NEW a \in [Slots -> Things], NEW b, NEW o \in SUBSET Slots, NEW q \in SUBSET Slots,
           o \subseteq q, Lists(a, o),
           \A x \in Slots :
              /\ b[x].on = a[x].on /\ b[x].first = a[x].first /\ b[x].next = a[x].next
              /\ b[x].prev = a[x].prev
              /\ b[x].type = FREE => \/ a[x].type = FREE
                                     \/ a[x].on = NONE /\ (x \notin q => a[x].first = NONE)
    PROVE  Lists(b, q)
  <1>0. /\ NONE \notin Slots
        /\ \A x \in Slots : /\ a[x].next # NONE => a[x].next \in Slots
                            /\ a[x].prev # NONE => a[x].prev \in Slots
                            /\ a[x].first # NONE => a[x].first \in Slots
    BY LinkTypes, NoneOk
  <1>1. Chained(b)
    BY <1>0 DEF Lists, Chained
  <1>2. Headed(b)
    BY <1>0 DEF Lists, Headed
  <1>3. OneHead(b, q)
    BY DEF Lists, OneHead
  <1>4. FreeIsBare(b, q)
    BY DEF Lists, FreeIsBare
  <1>5. Ranked(b)
    BY DEF Lists, Ranked, RanksOf
  <1> QED
    BY <1>1, <1>2, <1>3, <1>4, <1>5 DEF Lists

\* A thing that moves in is on nothing, and nothing is on it.
LEMMA ListsWhenTaken ==
    ASSUME NEW a \in [Slots -> Things], NEW o \in SUBSET Slots, Lists(a, o), NEW s \in Slots,
           a[s].type = FREE, NEW b, NEW t, b = [a EXCEPT ![s] = t], t.type # FREE,
           t.on = NONE, t.first = NONE
    PROVE  Lists(b, o)
  <1>0. NONE \notin Slots
    BY NoneOk
  <1>1. a[s].on = NONE /\ (s \notin o => a[s].first = NONE)
    BY DEF Lists, FreeIsBare
  <1>2. b[s] = t /\ \A x \in Slots : x # s => b[x] = a[x]
    OBVIOUS
  <1>3. \A x \in Slots : /\ a[x].next # NONE => a[x].next \in Slots
                         /\ a[x].prev # NONE => a[x].prev \in Slots
                         /\ a[x].first # NONE => a[x].first \in Slots
    BY LinkTypes, NoneOk
  <1>4. Chained(b)
    BY <1>1, <1>2, <1>3 DEF Lists, Chained
  <1>5. Headed(b)
    <2> SUFFICES ASSUME NEW d \in Slots, b[d].first # NONE
                 PROVE  b[b[d].first].on = d /\ b[b[d].first].prev = NONE
      BY DEF Headed
    <2>1. d # s /\ b[d] = a[d]
      BY <1>2
    <2> DEFINE f == a[d].first
    <2>2. f \in Slots /\ a[f].on = d /\ a[f].prev = NONE
      BY <1>3, <2>1 DEF Lists, Headed
    <2>3. f # s
      BY <1>0, <1>1, <2>2
    <2> QED
      BY <1>2, <2>1, <2>2, <2>3
  <1>6. OneHead(b, o)
    <2> SUFFICES ASSUME NEW d \in Slots \ o, NEW x \in Slots, b[x].on = d, b[x].prev = NONE
                 PROVE  b[d].first = x
      BY DEF OneHead
    <2>1. x # s /\ b[x] = a[x]
      BY <1>0, <1>2
    <2>2. a[d].first = x
      BY <2>1 DEF Lists, OneHead
    <2>3. d # s
      BY <1>0, <1>1, <2>2
    <2> QED
      BY <1>2, <2>2, <2>3
  <1>7. FreeIsBare(b, o)
    BY <1>2 DEF Lists, FreeIsBare
  <1>8. Ranked(b)
    BY <1>2 DEF Lists, Ranked, RanksOf
  <1> QED
    BY <1>4, <1>5, <1>6, <1>7, <1>8 DEF Lists

\* A thing that is on nothing goes to the head of a list.
LEMMA ListsWhenLinked ==
    ASSUME NEW a \in [Slots -> Things], NEW o \in SUBSET Slots, Lists(a, o), NEW r \in Slots,
           NEW c \in Slots, a[r].on = NONE, a[r].type # FREE, a[c].type # FREE \/ c \in o,
           NEW b, b = Link(a, r, c)
    PROVE  /\ Lists(b, o)
           /\ \A x \in Slots : b[x].type = a[x].type /\ b[x].on = IF x = r THEN c ELSE a[x].on
  <1> DEFINE h == a[c].first
  <1>0. NONE \notin Slots /\ r # NONE /\ c # NONE
    BY NoneOk
  <1>1. h # NONE => h \in Slots /\ a[h].on = c /\ a[h].prev = NONE
    BY LinkTypes, NoneOk DEF Lists, Headed
  <1>2. h # r
    BY <1>0, <1>1
  <1>3. \A x \in Slots : /\ a[x].next # NONE => a[x].next \in Slots
                         /\ a[x].prev # NONE => a[x].prev \in Slots
                         /\ a[x].first # NONE => a[x].first \in Slots
    BY LinkTypes, NoneOk
  <1> HIDE DEF h
  <1>4. \A x \in Slots :
           /\ b[x].on = IF x = r THEN c ELSE a[x].on
           /\ b[x].first = IF x = c THEN r ELSE a[x].first
           /\ b[x].next = IF x = r THEN h ELSE a[x].next
           /\ b[x].prev = IF x = r THEN NONE ELSE IF x = h THEN r ELSE a[x].prev
           /\ b[x].type = a[x].type
    BY <1>2, LinkFields DEF h
  <1>5. \A x \in Slots : a[x].on # NONE => a[x].next # r /\ a[x].prev # r
    BY <1>0 DEF Lists, Chained
  <1>6. Chained(b)
    <2> SUFFICES ASSUME NEW x \in Slots, b[x].on # NONE
                 PROVE  /\ b[x].next # NONE =>
                              b[b[x].next].on = b[x].on /\ b[b[x].next].prev = x
                        /\ b[x].prev # NONE =>
                              b[b[x].prev].on = b[x].on /\ b[b[x].prev].next = x
      BY DEF Chained
    <2>1. CASE x = r
      BY <1>0, <1>1, <1>2, <1>4, <2>1
    <2>2. CASE x # r
      <3>1. /\ a[x].on # NONE /\ b[x].on = a[x].on /\ b[x].next = a[x].next
            /\ a[x].next # NONE => a[a[x].next].on = a[x].on /\ a[a[x].next].prev = x
            /\ a[x].prev # NONE => a[a[x].prev].on = a[x].on /\ a[a[x].prev].next = x
        BY <1>4, <2>2 DEF Lists, Chained
      <3>2. b[x].next # NONE => b[b[x].next].on = b[x].on /\ b[b[x].next].prev = x
        <4> DEFINE y == a[x].next
        <4> SUFFICES ASSUME y # NONE PROVE b[y].on = b[x].on /\ b[y].prev = x
          BY <3>1
        <4>1. y \in Slots /\ y # r /\ y # h
          BY <1>0, <1>1, <1>3, <1>5, <3>1
        <4> QED
          BY <1>4, <3>1, <4>1
      <3>3. b[x].prev # NONE => b[b[x].prev].on = b[x].on /\ b[b[x].prev].next = x
        <4>1. CASE x = h
          BY <1>0, <1>1, <1>4, <2>2, <4>1
        <4>2. CASE x # h
          <5>1. b[x].prev = a[x].prev
            BY <1>4, <2>2, <4>2
          <5> QED
            BY <1>3, <1>4, <1>5, <3>1, <5>1
        <4> QED
          BY <4>1, <4>2
      <3> QED
        BY <3>2, <3>3
    <2> QED
      BY <2>1, <2>2
  <1>7. Headed(b)
    <2> SUFFICES ASSUME NEW d \in Slots, b[d].first # NONE
                 PROVE  b[b[d].first].on = d /\ b[b[d].first].prev = NONE
      BY DEF Headed
    <2>1. CASE d = c
      BY <1>4, <2>1
    <2>2. CASE d # c
      <3> DEFINE f == a[d].first
      <3>1. b[d].first = f /\ f \in Slots /\ a[f].on = d /\ a[f].prev = NONE
        BY <1>3, <1>4, <2>2 DEF Lists, Headed
      <3>2. f # r /\ f # h
        BY <1>0, <1>1, <2>2, <3>1
      <3> QED
        BY <1>4, <3>1, <3>2
    <2> QED
      BY <2>1, <2>2
  <1>8. OneHead(b, o)
    <2> SUFFICES ASSUME NEW d \in Slots \ o, NEW x \in Slots, b[x].on = d, b[x].prev = NONE
                 PROVE  b[d].first = x
      BY DEF OneHead
    <2>1. CASE x = r
      BY <1>4, <2>1
    <2>2. CASE x # r
      <3>1. x # h /\ a[x].on = d /\ a[x].prev = NONE
        BY <1>0, <1>4, <2>2
      <3>2. a[d].first = x
        BY <3>1 DEF Lists, OneHead
      <3>3. d # c
        BY <3>1, <3>2 DEF h
      <3> QED
        BY <1>4, <3>2, <3>3
    <2> QED
      BY <2>1, <2>2
  <1>9. FreeIsBare(b, o)
    <2> SUFFICES ASSUME NEW s \in Slots, b[s].type = FREE
                 PROVE  b[s].on = NONE /\ (s \notin o => b[s].first = NONE)
      BY DEF FreeIsBare
    <2>1. a[s].type = FREE /\ s # r /\ (s = c => s \in o)
      BY <1>4
    <2>2. a[s].on = NONE /\ (s \notin o => a[s].first = NONE)
      BY <2>1 DEF Lists, FreeIsBare
    <2> QED
      BY <1>4, <2>1, <2>2
  <1>10. Ranked(b)
    <2>1. PICK g \in [Slots -> Nat] : RanksOf(a, g)
      BY DEF Lists, Ranked
    <2> DEFINE k == [x \in Slots |-> IF x = r THEN 0 ELSE g[x] + 1]
    <2>2. k \in [Slots -> Nat]
      OBVIOUS
    <2>3. RanksOf(b, k)
      <3> SUFFICES ASSUME NEW x \in Slots, b[x].on # NONE, b[x].prev # NONE
                   PROVE  k[b[x].prev] < k[x]
        BY DEF RanksOf
      <3>1. x # r
        BY <1>4
      <3>2. CASE x = h
        BY <1>4, <3>1, <3>2
      <3>3. CASE x # h
        <4>1. /\ b[x].prev = a[x].prev /\ a[x].prev \in Slots /\ a[x].prev # r
              /\ g[a[x].prev] < g[x]
          BY <1>3, <1>4, <1>5, <2>1, <3>1, <3>3 DEF RanksOf
        <4> QED
          BY <3>1, <4>1
      <3> QED
        BY <3>2, <3>3
    <2> QED
      BY <2>2, <2>3 DEF Ranked
  <1> QED
    BY <1>4, <1>6, <1>7, <1>8, <1>9, <1>10 DEF Lists

\* A thing is taken out of its list.
LEMMA ListsWhenUnlinked ==
    ASSUME NEW a \in [Slots -> Things], NEW o \in SUBSET Slots, Lists(a, o), NEW r \in Slots,
           NEW c \in Slots, a[r].on = c, NEW b, b = Unlink(a, r, c)
    PROVE  /\ Lists(b, o)
           /\ \A x \in Slots : b[x].type = a[x].type /\ b[x].on = IF x = r THEN NONE ELSE a[x].on
  <1> DEFINE p == a[r].prev
             n == a[r].next
  <1>0. NONE \notin Slots /\ r # NONE /\ c # NONE
    BY NoneOk
  <1>1. /\ p # NONE => p \in Slots /\ a[p].on = c /\ a[p].next = r
        /\ n # NONE => n \in Slots /\ a[n].on = c /\ a[n].prev = r
    BY <1>0, LinkTypes, NoneOk DEF Lists, Chained
  <1>2. PICK g \in [Slots -> Nat] : RanksOf(a, g)
    BY DEF Lists, Ranked
  <1>3. /\ p # NONE => g[p] < g[r] /\ p # r
        /\ n # NONE => g[r] < g[n] /\ n # r
    <2>1. p # NONE => g[p] < g[r]
      BY <1>0, <1>2 DEF RanksOf
    <2>2. n # NONE => g[r] < g[n]
      BY <1>0, <1>1, <1>2 DEF RanksOf
    <2>3. g[r] \in Nat
      OBVIOUS
    <2> QED
      BY <2>1, <2>2, <2>3
  <1>4. \A x \in Slots :
           /\ b[x].on = IF x = r THEN NONE ELSE a[x].on
           /\ b[x].first = IF p = NONE /\ x = c THEN n ELSE a[x].first
           /\ b[x].next = IF x = r THEN NONE ELSE IF x = p THEN n ELSE a[x].next
           /\ b[x].prev = IF x = r THEN NONE ELSE IF x = n THEN p ELSE a[x].prev
           /\ b[x].type = a[x].type
    BY UnlinkFields
  <1>5. \A x \in Slots : /\ a[x].next # NONE => a[x].next \in Slots
                         /\ a[x].prev # NONE => a[x].prev \in Slots
                         /\ a[x].first # NONE => a[x].first \in Slots
    BY LinkTypes, NoneOk
  <1>6. Chained(b)
    <2> SUFFICES ASSUME NEW x \in Slots, b[x].on # NONE
                 PROVE  /\ b[x].next # NONE =>
                              b[b[x].next].on = b[x].on /\ b[b[x].next].prev = x
                        /\ b[x].prev # NONE =>
                              b[b[x].prev].on = b[x].on /\ b[b[x].prev].next = x
      BY DEF Chained
    <2>1. /\ x # r /\ a[x].on # NONE /\ b[x].on = a[x].on
          /\ a[x].next # NONE => a[a[x].next].on = a[x].on /\ a[a[x].next].prev = x
          /\ a[x].prev # NONE => a[a[x].prev].on = a[x].on /\ a[a[x].prev].next = x
      BY <1>4 DEF Lists, Chained
    <2>2. b[x].next # NONE => b[b[x].next].on = b[x].on /\ b[b[x].next].prev = x
      <3>1. CASE x = p
        <4>1. b[x].next = n
          BY <1>4, <2>1, <3>1
        <4> QED
          BY <1>0, <1>1, <1>3, <1>4, <2>1, <3>1, <4>1
      <3>2. CASE x # p
        <4> DEFINE y == a[x].next
        <4>0. b[x].next = y
          BY <1>4, <2>1, <3>2
        <4> SUFFICES ASSUME y # NONE PROVE b[y].on = b[x].on /\ b[y].prev = x
          BY <4>0
        <4>1. y \in Slots /\ a[y].on = a[x].on /\ a[y].prev = x
          BY <1>5, <2>1
        <4>2. y # r /\ y # n
          BY <1>0, <1>1, <2>1, <3>2, <4>1
        <4> QED
          BY <1>4, <2>1, <4>1, <4>2
      <3> QED
        BY <3>1, <3>2
    <2>3. b[x].prev # NONE => b[b[x].prev].on = b[x].on /\ b[b[x].prev].next = x
      <3>1. CASE x = n
        <4>1. b[x].prev = p
          BY <1>4, <2>1, <3>1
        <4> QED
          BY <1>0, <1>1, <1>3, <1>4, <2>1, <3>1, <4>1
      <3>2. CASE x # n
        <4> DEFINE y == a[x].prev
        <4>0. b[x].prev = y
          BY <1>4, <2>1, <3>2
        <4> SUFFICES ASSUME y # NONE PROVE b[y].on = b[x].on /\ b[y].next = x
          BY <4>0
        <4>1. y \in Slots /\ a[y].on = a[x].on /\ a[y].next = x
          BY <1>5, <2>1
        <4>2. y # r /\ y # p
          BY <1>0, <1>1, <2>1, <3>2, <4>1
        <4> QED
          BY <1>4, <2>1, <4>1, <4>2
      <3> QED
        BY <3>1, <3>2
    <2> QED
      BY <2>2, <2>3
  <1>7. Headed(b)
    <2> SUFFICES ASSUME NEW d \in Slots, b[d].first # NONE
                 PROVE  b[b[d].first].on = d /\ b[b[d].first].prev = NONE
      BY DEF Headed
    <2>1. CASE p = NONE /\ d = c
      <3>1. b[d].first = n
        BY <1>4, <2>1
      <3> QED
        BY <1>1, <1>3, <1>4, <2>1, <3>1
    <2>2. CASE ~(p = NONE /\ d = c)
      <3> DEFINE f == a[d].first
      <3>1. b[d].first = f /\ f \in Slots /\ a[f].on = d /\ a[f].prev = NONE
        BY <1>4, <1>5, <2>2 DEF Lists, Headed
      <3>2. f # r /\ f # n
        BY <1>0, <1>1, <2>2, <3>1
      <3> QED
        BY <1>4, <3>1, <3>2
    <2> QED
      BY <2>1, <2>2
  <1>8. OneHead(b, o)
    <2> SUFFICES ASSUME NEW d \in Slots \ o, NEW x \in Slots, b[x].on = d, b[x].prev = NONE
                 PROVE  b[d].first = x
      BY DEF OneHead
    <2>1. x # r /\ a[x].on = d
      BY <1>0, <1>4
    <2>2. CASE x = n
      BY <1>0, <1>1, <1>4, <2>1, <2>2
    <2>3. CASE x # n
      <3>1. a[x].prev = NONE
        BY <1>4, <2>1, <2>3
      <3>2. a[d].first = x
        BY <2>1, <3>1 DEF Lists, OneHead
      <3>3. ~(p = NONE /\ d = c)
        BY <2>1, <3>2 DEF Lists, OneHead
      <3> QED
        BY <1>4, <3>2, <3>3
    <2> QED
      BY <2>2, <2>3
  <1>9. FreeIsBare(b, o)
    <2> SUFFICES ASSUME NEW s \in Slots, b[s].type = FREE
                 PROVE  b[s].on = NONE /\ (s \notin o => b[s].first = NONE)
      BY DEF FreeIsBare
    <2>1. a[s].on = NONE /\ (s \notin o => a[s].first = NONE)
      BY <1>4 DEF Lists, FreeIsBare
    <2>2. s \notin o => ~(p = NONE /\ s = c)
      BY <1>0, <2>1 DEF Lists, OneHead
    <2> QED
      BY <1>4, <2>1, <2>2
  <1>10. RanksOf(b, g)
    <2> SUFFICES ASSUME NEW x \in Slots, b[x].on # NONE, b[x].prev # NONE
                 PROVE  g[b[x].prev] < g[x]
      BY DEF RanksOf
    <2>1. x # r /\ a[x].on # NONE
      BY <1>4
    <2>2. CASE x = n
      <3>1. b[x].prev = p /\ p \in Slots /\ x \in Slots
        BY <1>1, <1>4, <2>1, <2>2
      <3>2. g[p] \in Nat /\ g[r] \in Nat /\ g[x] \in Nat
        BY <3>1
      <3>3. g[p] < g[r] /\ g[r] < g[x]
        BY <1>0, <1>3, <2>2, <3>1
      <3> QED
        BY <3>1, <3>2, <3>3
    <2>3. CASE x # n
      <3>1. b[x].prev = a[x].prev
        BY <1>4, <2>1, <2>3
      <3> QED
        BY <1>2, <2>1, <3>1 DEF RanksOf
    <2> QED
      BY <2>2, <2>3
  <1> QED
    BY <1>2, <1>4, <1>6, <1>7, <1>8, <1>9, <1>10 DEF Lists, Ranked

\* A list has a first thing, if it has any: the one with the lowest rank has none before it.
LEMMA ListHasFirst ==
    ASSUME NEW a \in [Slots -> Things], NEW o \in SUBSET Slots, Lists(a, o), NEW c \in Slots \ o,
           NEW r \in Slots, a[r].on = c
    PROVE  a[c].first \in Slots
  <1>1. PICK g \in [Slots -> Nat] : RanksOf(a, g)
    BY DEF Lists, Ranked
  <1> DEFINE R == {x \in Slots : a[x].on = c}
             G == {g[x] : x \in R}
  <1>2. G \subseteq Nat /\ G # {}
    OBVIOUS
  <1>3. PICK m \in G : \A h \in G : ~(<<h, m>> \in OpToRel(<, Nat))
    BY <1>2, WFMin, NatLessThanWellFounded
  <1>4. PICK x \in R : m = g[x]
    OBVIOUS
  <1>5. a[x].prev = NONE
    <2> SUFFICES ASSUME a[x].prev # NONE PROVE FALSE
      OBVIOUS
    <2> DEFINE y == a[x].prev
    <2>1. x \in Slots /\ a[x].on = c /\ c # NONE
      BY NoneOk
    <2>2. y \in Slots
      BY <2>1, LinkTypes, NoneOk
    <2>3. a[y].on = c /\ g[y] < g[x]
      BY <1>1, <2>1 DEF Lists, Chained, RanksOf
    <2>4. ~(<<g[y], m>> \in OpToRel(<, Nat))
      BY <1>3, <2>2, <2>3
    <2>5. g[y] \in Nat /\ m \in Nat
      BY <1>2, <2>2
    <2>6. ~(g[y] < m)
      BY <2>4, <2>5 DEF OpToRel
    <2> QED
      BY <1>4, <2>3, <2>6
  <1> QED
    BY <1>4, <1>5 DEF Lists, OneHead

\* What the functions that wait have read still holds when they go on: a detaching finds
\* its thing where it was, a freeing or an attaching has its thing on nothing in the end.
Detaching(cs, i, s) == i \in DOMAIN cs /\ cs[i].fn = "Detach" /\ cs[i].thing = s
Left(cs, i, s, a) == Detaching(cs, i + 1, s) \/ (i = Len(cs) /\ a[s].on = NONE)
WaitsFor(cs, i, a, o) ==
    /\ cs[i].fn = "Detach" => a[cs[i].thing].on = cs[i].from
    /\ cs[i].fn = "Attach" =>
          /\ a[cs[i].thing].type # FREE
          /\ a[cs[i].to].type # FREE \/ cs[i].to \in o
          /\ Left(cs, i, cs[i].thing, a)
    /\ cs[i].fn = "Free" =>
          /\ cs[i].pc = "detach" => i = Len(cs)
          /\ cs[i].pc = "leave" => Left(cs, i, cs[i].thing, a)
          /\ cs[i].pc = "free" =>
                (a[cs[i].thing].on = NONE /\ (i = Len(cs) \/ cs[i + 1].fn = "Leave"))
Differ(cs) == \A i, j \in DOMAIN cs : cs[i].fn \in {"Detach", "Free"} /\ cs[i].thing = cs[j].thing =>
    /\ cs[i].fn = "Detach" /\ cs[j].fn = "Detach" => i = j
    /\ cs[i].fn = "Free" /\ cs[j].fn = "Attach" => j < i
Waits(cs, a, o) == (\A i \in DOMAIN cs : WaitsFor(cs, i, a, o)) /\ Differ(cs)

\* The function on top is one that nothing interrupts before it calls another.
Open(cs) == cs # <<>> => Last(cs).fn \notin {"Attach", "Free"}

LEMMA AppendedCall ==
    ASSUME NEW cs \in Seq(Calls), NEW e, NEW ds, ds = Append(cs, e)
    PROVE  /\ DOMAIN cs = 1 .. Len(cs) /\ DOMAIN ds = 1 .. Len(cs) + 1 /\ Len(ds) = Len(cs) + 1
           /\ Len(cs) \in Nat /\ ds[Len(cs) + 1] = e /\ \A i \in 1 .. Len(cs) : ds[i] = cs[i]
           /\ e \in Calls => ds \in Seq(Calls)
  OBVIOUS

LEMMA FrontCalls ==
    ASSUME NEW cs \in Seq(Calls), cs # <<>>, NEW ds, ds = Front(cs)
    PROVE  /\ ds \in Seq(Calls) /\ Len(ds) = Len(cs) - 1 /\ Len(cs) \in Nat \ {0}
           /\ DOMAIN cs = 1 .. Len(cs) /\ DOMAIN ds = 1 .. Len(cs) - 1
           /\ \A i \in DOMAIN ds : ds[i] = cs[i]
           /\ Last(cs) = cs[Len(cs)] /\ Last(cs) \in Calls
  <1>1. /\ ds \in Seq(Calls) /\ Len(ds) = Len(cs) - 1
        /\ \A i \in 1 .. Len(cs) - 1 : ds[i] = cs[i]
        /\ Last(cs) = cs[Len(cs)] /\ Last(cs) \in Calls /\ Len(cs) \in Nat \ {0}
    BY FrontOf
  <1>2. DOMAIN cs = 1 .. Len(cs) /\ DOMAIN ds = 1 .. Len(cs) - 1
    BY <1>1
  <1> QED
    BY <1>1, <1>2

\* A call goes on top of one that may be interrupted.
LEMMA WaitsWhenPushed ==
    ASSUME NEW cs \in Seq(Calls), NEW a, NEW o, Waits(cs, a, o), Open(cs), NEW e \in Calls,
           e.fn = "Detach" => a[e.thing].on = e.from /\ \A i \in DOMAIN cs : ~Detaching(cs, i, e.thing),
           e.fn = "Free" => e.pc = "detach" \/ a[e.thing].on = NONE,
           e.fn # "Attach", NEW ds, ds = Append(cs, e)
    PROVE  Waits(ds, a, o)
  <1> DEFINE n == Len(cs) + 1
  <1>1. /\ DOMAIN cs = 1 .. Len(cs) /\ DOMAIN ds = 1 .. n /\ Len(ds) = n
        /\ Len(cs) \in Nat /\ ds[n] = e /\ \A i \in 1 .. Len(cs) : ds[i] = cs[i]
    BY AppendedCall
  <1>2. n \in Nat \ {0} /\ n = Len(cs) + 1
    BY <1>1
  <1> HIDE DEF n
  <1>3. ASSUME NEW i \in 1 .. Len(cs) PROVE WaitsFor(ds, i, a, o)
    <2>1. ds[i] = cs[i] /\ WaitsFor(cs, i, a, o) /\ i \in Nat
      BY <1>1 DEF Waits
    <2>2. CASE i = Len(cs)
      <3>1. cs[i].fn \notin {"Attach", "Free"}
        BY <1>1, <2>2 DEF Open, Last
      <3> QED
        BY <2>1, <3>1 DEF WaitsFor
    <2>3. CASE i < Len(cs)
      <3>1. i + 1 \in 1 .. Len(cs) /\ i + 1 \in 1 .. n /\ ds[i + 1] = cs[i + 1] /\ i # Len(cs)
        BY <1>1, <1>2, <2>1, <2>3
      <3>2. \A s : Left(cs, i, s, a) => Left(ds, i, s, a)
        BY <1>1, <3>1 DEF Left, Detaching
      <3> QED
        BY <2>1, <3>1, <3>2 DEF WaitsFor
    <2>4. i = Len(cs) \/ i < Len(cs)
      <3> DEFINE k == Len(cs)
      <3>1. k \in Nat /\ i \in 1 .. k
        BY <1>1
      <3> HIDE DEF k
      <3>2. i = k \/ i < k
        BY <3>1
      <3> QED
        BY <3>2 DEF k
    <2> QED
      BY <2>2, <2>3, <2>4
  <1>4. WaitsFor(ds, n, a, o)
    BY <1>1 DEF WaitsFor, Left
  <1>5. Differ(ds)
    <2> SUFFICES ASSUME NEW i \in 1 .. n, NEW j \in 1 .. n, ds[i].fn \in {"Detach", "Free"},
                        ds[i].thing = ds[j].thing
                 PROVE  /\ ds[i].fn = "Detach" /\ ds[j].fn = "Detach" => i = j
                        /\ ds[i].fn = "Free" /\ ds[j].fn = "Attach" => j < i
      BY <1>1 DEF Differ
    <2>1. CASE i # n /\ j # n
      <3>1. i \in 1 .. Len(cs) /\ j \in 1 .. Len(cs)
        BY <1>1, <1>2, <2>1
      <3> QED
        BY <1>1, <3>1 DEF Waits, Differ
    <2>2. CASE i = n /\ j # n
      <3>1. j \in 1 .. Len(cs) /\ j < i
        BY <1>1, <1>2, <2>2
      <3> QED
        BY <1>1, <2>2, <3>1 DEF Detaching
    <2>3. CASE j = n /\ i # n
      <3>1. i \in 1 .. Len(cs)
        BY <1>1, <1>2, <2>3
      <3> QED
        BY <1>1, <2>3, <3>1 DEF Detaching
    <2>4. CASE i = n /\ j = n
      BY <1>1, <2>4
    <2> QED
      BY <2>1, <2>2, <2>3, <2>4
  <1>6. \A i \in 1 .. n : i \in 1 .. Len(cs) \/ i = n
    BY <1>1, <1>2
  <1> QED
    BY <1>1, <1>3, <1>4, <1>5, <1>6 DEF Waits

\* A freeing or an attaching waits for its thing to be detached.
LEMMA WaitsWhenCalled ==
    ASSUME NEW cs \in Seq(Calls), NEW a, NEW o, Waits(cs, a, o), Open(cs), NEW e \in Calls,
           NEW d \in Calls, d.thing = e.thing,
           d.fn = "Detach" => /\ a[d.thing].on = d.from
                              /\ \A i \in DOMAIN cs : ~Detaching(cs, i, d.thing),
           \/ e.fn = "Free" /\ e.pc = "free" /\ a[e.thing].on = NONE /\ d.fn = "Leave"
           \/ e.fn = "Free" /\ e.pc = "leave" /\ d.fn = "Detach"
           \/ /\ e.fn = "Attach" /\ a[e.thing].type # FREE /\ a[e.to].type # FREE
              /\ \A i \in DOMAIN cs : ~(cs[i].fn = "Free" /\ cs[i].thing = e.thing)
              /\ d.fn = "Detach",
           NEW ds, ds = Append(Append(cs, e), d)
    PROVE  Waits(ds, a, o)
  <1> DEFINE n == Len(cs) + 1
             m == Len(cs) + 2
             es == Append(cs, e)
  <1>1. /\ DOMAIN cs = 1 .. Len(cs) /\ Len(es) = n
        /\ Len(cs) \in Nat /\ es[n] = e /\ \A i \in 1 .. Len(cs) : es[i] = cs[i]
        /\ es \in Seq(Calls)
    BY AppendedCall
  <1>2. n \in Nat \ {0} /\ n = Len(cs) + 1 /\ m = n + 1 /\ m \in Nat
    BY <1>1
  <1> HIDE DEF n, m
  <1>3. /\ DOMAIN ds = 1 .. m /\ Len(ds) = m /\ ds[m] = d /\ ds[n] = e
        /\ \A i \in 1 .. Len(cs) : ds[i] = cs[i]
    <2>1. /\ DOMAIN ds = 1 .. n + 1 /\ Len(ds) = n + 1 /\ ds[n + 1] = d
          /\ \A i \in 1 .. n : ds[i] = es[i]
      <3> HIDE DEF es
      <3> QED
        BY <1>1, AppendedCall DEF es
    <2>2. \A i \in 1 .. Len(cs) : i \in 1 .. n
      BY <1>1, <1>2
    <2> QED
      BY <1>1, <1>2, <2>1, <2>2
  <1> HIDE DEF es
  <1>4. ASSUME NEW i \in 1 .. Len(cs) PROVE WaitsFor(ds, i, a, o)
    <2>1. ds[i] = cs[i] /\ WaitsFor(cs, i, a, o) /\ i \in Nat
      BY <1>1, <1>3 DEF Waits
    <2>2. CASE i = Len(cs)
      <3>1. cs[i].fn \notin {"Attach", "Free"}
        BY <1>1, <2>2 DEF Open, Last
      <3> QED
        BY <2>1, <3>1 DEF WaitsFor
    <2>3. CASE i < Len(cs)
      <3>1. i + 1 \in 1 .. Len(cs) /\ i + 1 \in 1 .. m /\ i # Len(cs)
        <4> DEFINE k == Len(cs)
        <4>1. k \in Nat /\ i \in Nat /\ 1 <= i /\ i < k /\ m = k + 2
          BY <1>1, <1>2, <2>1, <2>3
        <4> HIDE DEF k
        <4>2. i + 1 \in 1 .. k /\ i + 1 \in 1 .. m /\ i # k
          BY <4>1
        <4> QED
          BY <4>2 DEF k
      <3>2. \A s : Left(cs, i, s, a) => Left(ds, i, s, a)
        BY <1>1, <1>3, <3>1 DEF Left, Detaching
      <3> QED
        BY <2>1, <3>1, <3>2 DEF WaitsFor
    <2>4. i = Len(cs) \/ i < Len(cs)
      <3> DEFINE k == Len(cs)
      <3>1. k \in Nat /\ i \in 1 .. k
        BY <1>1
      <3> HIDE DEF k
      <3>2. i = k \/ i < k
        BY <3>1
      <3> QED
        BY <3>2 DEF k
    <2> QED
      BY <2>2, <2>3, <2>4
  <1>5. WaitsFor(ds, n, a, o)
    <2>1. ds[n + 1] = d /\ n + 1 \in DOMAIN ds
      BY <1>2, <1>3
    <2>2. d.fn = "Detach" => Left(ds, n, e.thing, a)
      BY <2>1 DEF Detaching, Left
    <2> QED
      BY <1>3, <2>1, <2>2 DEF WaitsFor
  <1>6. WaitsFor(ds, m, a, o)
    BY <1>3 DEF WaitsFor
  <1>7. \A i \in 1 .. m : i \in 1 .. Len(cs) \/ i = n \/ i = m
    BY <1>1, <1>2
  <1>8. Differ(ds)
    <2> SUFFICES ASSUME NEW i \in 1 .. m, NEW j \in 1 .. m, ds[i].fn \in {"Detach", "Free"},
                        ds[i].thing = ds[j].thing
                 PROVE  /\ ds[i].fn = "Detach" /\ ds[j].fn = "Detach" => i = j
                        /\ ds[i].fn = "Free" /\ ds[j].fn = "Attach" => j < i
      BY <1>3 DEF Differ
    <2>1. CASE i \in 1 .. Len(cs) /\ j \in 1 .. Len(cs)
      <3>1. ds[i] = cs[i] /\ ds[j] = cs[j] /\ i \in DOMAIN cs /\ j \in DOMAIN cs
        BY <1>1, <1>3, <2>1
      <3> QED
        BY <3>1 DEF Waits, Differ
    <2>2. CASE i \in 1 .. Len(cs) /\ j = n
      <3>1. ds[i] = cs[i] /\ ds[j] = e /\ i \in DOMAIN cs
        BY <1>1, <1>3, <2>2
      <3> QED
        BY <3>1
    <2>3. CASE i \in 1 .. Len(cs) /\ j = m
      BY <1>1, <1>3, <2>3 DEF Detaching
    <2>4. CASE i = n /\ j \in 1 .. Len(cs)
      <3>1. j < i
        BY <1>1, <1>2, <2>4
      <3> QED
        BY <1>3, <2>4, <3>1
    <2>5. CASE i = m /\ j \in 1 .. Len(cs)
      BY <1>1, <1>3, <2>5 DEF Detaching
    <2>6. CASE i \in {n, m} /\ j \in {n, m}
      BY <1>2, <1>3, <2>6
    <2> QED
      BY <1>7, <2>1, <2>2, <2>3, <2>4, <2>5, <2>6
  <1> QED
    BY <1>3, <1>4, <1>5, <1>6, <1>7, <1>8 DEF Waits

\* A function returns that detached nothing.
LEMMA WaitsWhenPopped ==
    ASSUME NEW cs \in Seq(Calls), NEW a, NEW o, Waits(cs, a, o), cs # <<>>,
           Last(cs).fn # "Detach", NEW ds, ds = Front(cs)
    PROVE  /\ Waits(ds, a, o) /\ ds \in Seq(Calls)
           /\ Last(cs).fn # "Leave" => Open(ds)
  <1> DEFINE n == Len(cs)
  <1>1. /\ ds \in Seq(Calls) /\ Len(ds) = n - 1 /\ n \in Nat \ {0}
        /\ DOMAIN cs = 1 .. n /\ DOMAIN ds = 1 .. n - 1
        /\ \A i \in DOMAIN ds : ds[i] = cs[i]
        /\ Last(cs) = cs[n]
    BY FrontCalls
  <1> HIDE DEF n
  <1>2. n = Len(cs)
    BY DEF n
  <1>3. ASSUME NEW i \in 1 .. n - 1 PROVE WaitsFor(ds, i, a, o)
    <2>1. ds[i] = cs[i] /\ WaitsFor(cs, i, a, o) /\ i \in 1 .. n /\ i # n
      BY <1>1 DEF Waits
    <2>2. ~Left(cs, n - 1, cs[n - 1].thing, a)
      <3>1. (n - 1) + 1 = n /\ n - 1 # n
        BY <1>1
      <3> QED
        BY <1>1, <1>2, <3>1 DEF Left, Detaching
    <2>3. CASE i = n - 1
      <3>1. i = Len(ds) /\ i # Len(cs) /\ ~Left(cs, i, cs[i].thing, a)
        BY <1>1, <1>2, <2>1, <2>2, <2>3
      <3>2. ds[i].fn # "Attach"
        BY <2>1, <3>1 DEF WaitsFor
      <3>3. ds[i].fn = "Free" => ds[i].pc # "leave"
        BY <2>1, <3>1 DEF WaitsFor
      <3>4. ds[i].fn = "Free" /\ ds[i].pc = "free" => a[ds[i].thing].on = NONE
        BY <2>1 DEF WaitsFor
      <3>5. ds[i].fn = "Detach" => a[ds[i].thing].on = ds[i].from
        BY <2>1 DEF WaitsFor
      <3> QED
        BY <3>1, <3>2, <3>3, <3>4, <3>5 DEF WaitsFor
    <2>4. CASE i # n - 1
      <3>1. i + 1 \in 1 .. n - 1 /\ i + 1 \in 1 .. n /\ i # n
        BY <1>1, <2>4
      <3>2. \A s : Left(cs, i, s, a) => Left(ds, i, s, a)
        BY <1>1, <1>2, <3>1 DEF Left, Detaching
      <3>3. ~(cs[i].fn = "Free" /\ cs[i].pc = "detach")
        BY <1>2, <2>1, <3>1 DEF WaitsFor
      <3>4. ds[i + 1] = cs[i + 1] /\ i # Len(cs)
        BY <1>1, <1>2, <3>1
      <3> QED
        BY <2>1, <3>2, <3>3, <3>4 DEF WaitsFor
    <2> QED
      BY <2>3, <2>4
  <1>4. Differ(ds)
    <2> SUFFICES ASSUME NEW i \in 1 .. n - 1, NEW j \in 1 .. n - 1, ds[i].fn \in {"Detach", "Free"},
                        ds[i].thing = ds[j].thing
                 PROVE  /\ ds[i].fn = "Detach" /\ ds[j].fn = "Detach" => i = j
                        /\ ds[i].fn = "Free" /\ ds[j].fn = "Attach" => j < i
      BY <1>1 DEF Differ
    <2>1. i \in 1 .. n /\ j \in 1 .. n /\ ds[i] = cs[i] /\ ds[j] = cs[j]
      BY <1>1
    <2> QED
      BY <1>1, <2>1 DEF Waits, Differ
  <1>5. Last(cs).fn # "Leave" => Open(ds)
    <2> SUFFICES ASSUME Last(cs).fn # "Leave", ds # <<>> PROVE Last(ds).fn \notin {"Attach", "Free"}
      BY DEF Open
    <2>1. n - 1 \in 1 .. n - 1 /\ n - 1 \in 1 .. n /\ n - 1 # n /\ (n - 1) + 1 = n
      <3>1. Len(ds) \in Nat \ {0}
        BY <1>1
      <3> QED
        BY <1>1, <3>1
    <2>2. Last(ds) = cs[n - 1]
      BY <1>1, <2>1 DEF Last
    <2>3. WaitsFor(cs, n - 1, a, o)
      BY <1>1, <2>1 DEF Waits
    <2>4. ~Left(cs, n - 1, cs[n - 1].thing, a)
      BY <1>1, <1>2, <2>1 DEF Left, Detaching
    <2>5. cs[n - 1].fn # "Attach"
      BY <2>3, <2>4 DEF WaitsFor
    <2>6. cs[n - 1].fn # "Free"
      <3> SUFFICES ASSUME cs[n - 1].fn = "Free" PROVE FALSE
        OBVIOUS
      <3>1. cs[n - 1].pc \in {"detach", "leave", "free"}
        <4>1. cs[n - 1] \in Calls
          BY <1>1, <2>1
        <4> QED
          BY <4>1, CallTypes
      <3>2. cs[n].fn # "Leave" /\ n - 1 # Len(cs)
        BY <1>1, <1>2, <2>1
      <3>3. cs[(n - 1) + 1].fn # "Leave"
        BY <2>1, <3>2
      <3> QED
        BY <2>3, <2>4, <3>1, <3>2, <3>3 DEF WaitsFor
    <2> QED
      BY <2>2, <2>5, <2>6
  <1> QED
    BY <1>1, <1>3, <1>4, <1>5 DEF Waits

\* What was to be detached is on nothing now: so is what the function below waits for.
LEMMA WaitsWhenDetached ==
    ASSUME NEW cs \in Seq(Calls), NEW a, NEW b, NEW o, Waits(cs, a, o), cs # <<>>,
           NEW r \in Slots, Last(cs).fn = "Detach", Last(cs).thing = r,
           \A x \in Slots : b[x].type = a[x].type /\ b[x].on = IF x = r THEN NONE ELSE a[x].on,
           NEW ds, ds = Front(cs)
    PROVE  Waits(ds, b, o)
  <1> DEFINE n == Len(cs)
  <1>1. /\ ds \in Seq(Calls) /\ Len(ds) = n - 1 /\ n \in Nat \ {0}
        /\ DOMAIN cs = 1 .. n /\ DOMAIN ds = 1 .. n - 1
        /\ \A i \in DOMAIN ds : ds[i] = cs[i]
        /\ Last(cs) = cs[n]
    BY FrontCalls
  <1> HIDE DEF n
  <1>2. n = Len(cs)
    BY DEF n
  <1>3. ASSUME NEW i \in 1 .. n - 1 PROVE WaitsFor(ds, i, b, o)
    <2>1. ds[i] = cs[i] /\ WaitsFor(cs, i, a, o) /\ i \in 1 .. n /\ i # n
      BY <1>1 DEF Waits
    <2>2. cs[i] \in Calls
      BY <1>1, <2>1
    <2>3. /\ cs[i].fn \in {"Detach", "Attach", "Free"} => cs[i].thing \in Slots
          /\ cs[i].fn = "Attach" => cs[i].to \in Slots
      BY <2>2, CallTypes
    <2>4. cs[i].fn = "Detach" => cs[i].thing # r
      <3>1. n \in 1 .. n
        BY <1>1
      <3> QED
        BY <1>1, <2>1, <3>1 DEF Waits, Differ
    <2>5. \A s \in Slots : Left(cs, i, s, a) => Left(ds, i, s, b)
      <3> SUFFICES ASSUME NEW s \in Slots, Left(cs, i, s, a) PROVE Left(ds, i, s, b)
        OBVIOUS
      <3>1. Detaching(cs, i + 1, s)
        BY <1>2, <2>1 DEF Left
      <3>2. CASE i = n - 1
        <4>1. i + 1 = n /\ i = Len(ds)
          BY <1>1, <3>2
        <4>2. s = r
          BY <1>1, <3>1, <4>1 DEF Detaching
        <4> QED
          BY <4>1, <4>2 DEF Left
      <3>3. CASE i # n - 1
        <4>1. i + 1 \in 1 .. n - 1
          BY <1>1, <3>3
        <4> QED
          BY <1>1, <3>1, <4>1 DEF Left, Detaching
      <3> QED
        BY <3>2, <3>3
    <2>6. \A s \in Slots : a[s].on = NONE => b[s].on = NONE
      OBVIOUS
    <2>7. i = Len(ds) \/ ds[i + 1] = cs[i + 1]
      <3>1. i = n - 1 \/ i + 1 \in 1 .. n - 1
        BY <1>1
      <3> QED
        BY <1>1, <3>1
    <2>8. ds[i].fn = "Detach" => b[ds[i].thing].on = ds[i].from
      BY <2>1, <2>3, <2>4 DEF WaitsFor
    <2>9. ds[i].fn = "Attach" =>
             /\ b[ds[i].thing].type # FREE
             /\ b[ds[i].to].type # FREE \/ ds[i].to \in o
             /\ Left(ds, i, ds[i].thing, b)
      BY <2>1, <2>3, <2>5 DEF WaitsFor
    <2>10. ds[i].fn = "Free" =>
              /\ ds[i].pc # "detach"
              /\ ds[i].pc = "leave" => Left(ds, i, ds[i].thing, b)
      BY <1>2, <2>1, <2>3, <2>5 DEF WaitsFor
    <2>11. ds[i].fn = "Free" /\ ds[i].pc = "free" =>
              b[ds[i].thing].on = NONE /\ (i = Len(ds) \/ ds[i + 1].fn = "Leave")
      <3>1. ds[i].fn = "Free" /\ ds[i].pc = "free" =>
               a[ds[i].thing].on = NONE /\ cs[i + 1].fn = "Leave"
        BY <1>2, <2>1 DEF WaitsFor
      <3> QED
        BY <2>1, <2>3, <2>6, <2>7, <3>1
    <2> QED
      BY <2>8, <2>9, <2>10, <2>11 DEF WaitsFor
  <1>4. Differ(ds)
    <2>1. \A i \in 1 .. n - 1 : i \in 1 .. n
      BY <1>1
    <2> QED
      BY <1>1, <2>1 DEF Waits, Differ
  <1> QED
    BY <1>1, <1>3, <1>4 DEF Waits

\* The functions that wait do not mind what happens to other things.
LEMMA WaitsWhenThingsChange ==
    ASSUME NEW cs, NEW a, NEW b, NEW o, NEW q, Waits(cs, a, o), o \subseteq q,
           \A i \in DOMAIN cs :
              /\ cs[i].fn \in {"Detach", "Attach", "Free"} =>
                    b[cs[i].thing].on = a[cs[i].thing].on
              /\ cs[i].fn = "Attach" =>
                    /\ a[cs[i].thing].type # FREE => b[cs[i].thing].type # FREE
                    /\ a[cs[i].to].type # FREE => b[cs[i].to].type # FREE \/ cs[i].to \in q
    PROVE  Waits(cs, b, q)
  <1>1. ASSUME NEW i \in DOMAIN cs PROVE WaitsFor(cs, i, b, q)
    <2>1. WaitsFor(cs, i, a, o)
      BY DEF Waits
    <2>2. cs[i].fn \in {"Detach", "Attach", "Free"} => b[cs[i].thing].on = a[cs[i].thing].on
      OBVIOUS
    <2>3. cs[i].fn \in {"Detach", "Attach", "Free"} =>
             (Left(cs, i, cs[i].thing, a) => Left(cs, i, cs[i].thing, b))
      BY <2>2 DEF Left
    <2> QED
      BY <2>1, <2>2, <2>3 DEF WaitsFor
  <1> QED
    BY <1>1 DEF Waits

LEMMA NotBusy ==
    ASSUME NEW cs, NEW r, ~Busy(r, cs)
    PROVE  \A i \in DOMAIN cs : /\ ~Detaching(cs, i, r)
                                /\ cs[i].fn \in {"Detach", "Attach", "Free"} => cs[i].thing # r
  BY DEF Busy, Among, Detaching

\* A function on top waits for nothing any more; what it moves nobody else is about to move.
LEMMA OnTop ==
    ASSUME NEW cs \in Seq(Calls), NEW a, NEW o, Waits(cs, a, o), cs # <<>>,
           NEW s \in Slots, Last(cs).thing = s,
           Last(cs).fn = "Attach" \/ (Last(cs).fn = "Free" /\ Last(cs).pc # "detach"),
           NEW ds, ds = Front(cs)
    PROVE  /\ a[s].on = NONE
           /\ \A i \in DOMAIN ds : ds[i].fn \in {"Detach", "Attach"} => ds[i].thing # s
           /\ Last(cs).fn = "Attach" => ~Busy(s, ds)
  <1> DEFINE n == Len(cs)
  <1>1. /\ n \in Nat \ {0} /\ DOMAIN cs = 1 .. n /\ DOMAIN ds = 1 .. n - 1
        /\ \A i \in DOMAIN ds : ds[i] = cs[i]
        /\ Last(cs) = cs[n] /\ Last(cs) \in Calls
    BY FrontCalls
  <1> HIDE DEF n
  <1>2. n = Len(cs) /\ n \in 1 .. n /\ n + 1 \notin 1 .. n
    BY <1>1 DEF n
  <1>3. WaitsFor(cs, n, a, o)
    BY <1>1, <1>2 DEF Waits
  <1>4. a[s].on = NONE
    <2>1. Left(cs, n, s, a) => a[s].on = NONE
      BY <1>1, <1>2 DEF Left, Detaching
    <2>2. Last(cs).fn = "Free" => Last(cs).pc \in {"detach", "leave", "free"}
      BY <1>1, CallTypes
    <2> QED
      BY <1>1, <1>3, <2>1, <2>2 DEF WaitsFor
  <1>5. \A i \in DOMAIN cs : ~Detaching(cs, i, s)
    <2> SUFFICES ASSUME NEW i \in DOMAIN cs, Detaching(cs, i, s) PROVE FALSE
      OBVIOUS
    <2>1. cs[i] \in Calls /\ cs[i].fn = "Detach" /\ cs[i].thing = s
      BY <1>1 DEF Detaching
    <2>2. cs[i].from \in Slots /\ WaitsFor(cs, i, a, o)
      BY <2>1, CallTypes DEF Waits
    <2>3. a[s].on = cs[i].from
      BY <2>1, <2>2 DEF WaitsFor
    <2> QED
      BY <1>4, <2>2, <2>3, NoneOk
  <1>6. ASSUME NEW i \in DOMAIN ds, ds[i].fn \in {"Detach", "Attach"} PROVE ds[i].thing # s
    <2>1. i \in DOMAIN cs /\ ds[i] = cs[i] /\ i # n
      BY <1>1
    <2>2. CASE cs[i].fn = "Detach"
      BY <1>5, <2>1, <2>2 DEF Detaching
    <2>3. CASE cs[i].fn = "Attach"
      <3>1. Detaching(cs, i + 1, cs[i].thing)
        BY <1>2, <2>1, <2>3 DEF Waits, WaitsFor, Left
      <3>2. i + 1 \in DOMAIN cs
        BY <3>1 DEF Detaching
      <3> QED
        BY <1>5, <2>1, <3>1, <3>2
    <2> QED
      BY <1>6, <2>1, <2>2, <2>3
  <1>7. ASSUME Last(cs).fn = "Attach" PROVE ~Busy(s, ds)
    <2> SUFFICES ASSUME NEW i \in DOMAIN ds, ds[i].fn = "Free", ds[i].thing = s PROVE FALSE
      BY <1>6 DEF Busy, Among
    <2>1. i \in DOMAIN cs /\ cs[i].fn = "Free" /\ cs[i].thing = cs[n].thing /\ i <= n
      BY <1>1
    <2>2. n < i
      BY <1>1, <1>2, <1>7, <2>1 DEF Waits, Differ
    <2> QED
      BY <1>1, <2>1, <2>2
  <1> QED
    BY <1>4, <1>6, <1>7

\* The invariant of the lists, until a handler moves the very thing it hears about.
LInv == ~twice /\ ~crossed => Lists(thing, orphaned) /\ Waits(calls, thing, orphaned)

LEMMA CrossedStays == TypeOK /\ [Next]_vars /\ ~crossed' => ~crossed
  <1> SUFFICES ASSUME TypeOK, [Next]_vars, crossed PROVE crossed'
    BY DEF TypeOK
  <1> QED
    BY DEF Next, vars, ghosts, Create, Destroy, Attach, Detach, Shed, Return, GoFree,
           FreeLeaves, FreeExits, FreeEnds, GoAttach, GoShed, GoScan, TickAll

\* Nothing is said of a list but which things are on which, and in what order.
LEMMA ListsMove ==
    ASSUME TypeOK, Lists(thing, orphaned), Waits(calls, thing, orphaned), orphaned' = orphaned,
           \A x \in Slots :
              /\ thing'[x].on = thing[x].on /\ thing'[x].first = thing[x].first
              /\ thing'[x].next = thing[x].next /\ thing'[x].prev = thing[x].prev
              /\ thing'[x].type = thing[x].type
    PROVE  Lists(thing', orphaned') /\ Waits(calls, thing', orphaned')
  <1>1. Lists(thing', orphaned')
    <2>1. thing \in [Slots -> Things] /\ orphaned \in SUBSET Slots /\ orphaned \subseteq orphaned
      BY DEF TypeOK
    <2>2. Lists(thing', orphaned)
      BY <2>1, ListsKept
    <2> QED
      BY <2>2
  <1>2. \A i \in DOMAIN calls :
           /\ calls[i].fn \in {"Detach", "Attach", "Free"} => calls[i].thing \in Slots
           /\ calls[i].fn = "Attach" => calls[i].to \in Slots
    <2>1. \A i \in DOMAIN calls : calls[i] \in Calls
      BY DEF TypeOK
    <2> QED
      BY <2>1, CallTypes
  <1>3. Waits(calls, thing', orphaned)
    BY <1>2, WaitsWhenThingsChange
  <1> QED
    BY <1>1, <1>3

\* A thing that moves in was on nothing, and the functions that wait move others.
LEMMA ListsMoveIn ==
    ASSUME TypeOK, PoolExact, ~twice, Lists(thing, orphaned), NEW kind \in Kinds, Taken(kind),
           pool # <<>>, orphaned' = orphaned, NEW cs \in Seq(Calls), Waits(cs, thing, orphaned)
    PROVE  Lists(thing', orphaned') /\ Waits(cs, thing', orphaned')
  <1> DEFINE s == Last(pool)
             t == NewThing(kind, signature)
  <1>1. Len(pool) \in DOMAIN pool /\ s = pool[Len(pool)] /\ s \in Slots
    <2>1. pool \in Seq(Slots) /\ pool # <<>>
      BY Zenon DEF TypeOK
    <2> QED
      BY <2>1, FrontOf
  <1>2. thing[s].type = FREE
    BY <1>1 DEF PoolExact, Used
  <1>3. thing \in [Slots -> Things] /\ orphaned \in SUBSET Slots
    BY DEF TypeOK
  <1>4. thing' = [thing EXCEPT ![s] = t]
    BY DEF Taken
  <1>5. t.type # FREE /\ t.on = NONE /\ t.first = NONE
    BY DEF NewThing, Kinds, FREE, LASTING, BRIEF
  <1> HIDE DEF s, t
  <1>6. Lists(thing', orphaned)
    BY <1>1, <1>2, <1>3, <1>4, <1>5, ListsWhenTaken
  <1>7. \A x \in Slots : thing'[x].on = thing[x].on /\ (x = s => thing'[x].type # FREE)
                         /\ (x # s => thing'[x].type = thing[x].type)
    <2>1. thing[s].on = NONE
      BY <1>1, <1>2 DEF Lists, FreeIsBare
    <2> QED
      BY <1>1, <1>3, <1>4, <1>5, <2>1
  <1>8. \A i \in DOMAIN cs :
           /\ cs[i].fn \in {"Detach", "Attach", "Free"} => cs[i].thing \in Slots
           /\ cs[i].fn = "Attach" => cs[i].to \in Slots
    <2>1. \A i \in DOMAIN cs : cs[i] \in Calls
      OBVIOUS
    <2> QED
      BY <2>1, CallTypes
  <1>9. Waits(cs, thing', orphaned)
    BY <1>7, <1>8, WaitsWhenThingsChange
  <1> QED
    BY <1>6, <1>9

\* What a thing is linked to is none of the business of functions that move other things.
LEMMA ListsMoveOn ==
    ASSUME TypeOK, Lists(thing, orphaned), NEW r \in Slots, NEW c \in Slots,
           thing[r].on = NONE, thing[r].type # FREE, thing[c].type # FREE \/ c \in orphaned,
           thing' = Link(thing, r, c), orphaned' = orphaned,
           NEW cs \in Seq(Calls), Waits(cs, thing, orphaned), ~Busy(r, cs)
    PROVE  Lists(thing', orphaned') /\ Waits(cs, thing', orphaned')
  <1>1. thing \in [Slots -> Things] /\ orphaned \in SUBSET Slots
    BY DEF TypeOK
  <1>2. /\ Lists(thing', orphaned)
        /\ \A x \in Slots : /\ thing'[x].type = thing[x].type
                            /\ thing'[x].on = IF x = r THEN c ELSE thing[x].on
    BY <1>1, ListsWhenLinked
  <1>3. \A i \in DOMAIN cs :
           /\ cs[i].fn \in {"Detach", "Attach", "Free"} => cs[i].thing \in Slots /\ cs[i].thing # r
           /\ cs[i].fn = "Attach" => cs[i].to \in Slots
    <2>1. \A i \in DOMAIN cs : cs[i] \in Calls
      OBVIOUS
    <2> QED
      BY <2>1, CallTypes, NotBusy
  <1>4. Waits(cs, thing', orphaned)
    BY <1>2, <1>3, WaitsWhenThingsChange
  <1> QED
    BY <1>2, <1>4

\* A freed thing is on nothing; what was on it, or is about to be, makes it an orphan's.
LEMMA ListsMoveOut ==
    ASSUME TypeOK, Lists(thing, orphaned), Waits(calls, thing, orphaned), NEW s \in Slots,
           calls # <<>>, Last(calls).fn = "Free", Last(calls).pc = "free",
           Last(calls).thing = s, FreeEnds(s)
    PROVE  Lists(thing', orphaned') /\ Waits(calls', thing', orphaned')
  <1> DEFINE ds == Front(calls)
  <1>0. thing \in [Slots -> Things] /\ orphaned \in SUBSET Slots /\ calls \in Seq(Calls)
    BY DEF TypeOK
  <1>1. calls' = ds /\ thing' = [thing EXCEPT ![s].type = FREE, ![s].sig = 0]
    BY DEF FreeEnds, End
  <1>2. /\ ds \in Seq(Calls) /\ Waits(ds, thing, orphaned)
        /\ \A i \in DOMAIN ds : i \in DOMAIN calls /\ ds[i] = calls[i] /\ ds[i] \in Calls
    <2>1. Waits(ds, thing, orphaned) /\ ds \in Seq(Calls)
      BY <1>0, WaitsWhenPopped
    <2>2. \A i \in DOMAIN ds : i \in DOMAIN calls /\ ds[i] = calls[i]
      BY <1>0, FrontCalls
    <2> QED
      BY <2>1, <2>2
  <1>3. /\ thing[s].on = NONE
        /\ \A i \in DOMAIN ds : ds[i].fn \in {"Detach", "Attach"} => ds[i].thing # s
    BY <1>0, OnTop
  <1> HIDE DEF ds
  <1>4. \A x \in Slots :
           /\ thing'[x].on = thing[x].on /\ thing'[x].first = thing[x].first
           /\ thing'[x].next = thing[x].next /\ thing'[x].prev = thing[x].prev
           /\ x # s => thing'[x].type = thing[x].type
    <2> DEFINE t == [thing[s] EXCEPT !.type = FREE, !.sig = 0]
    <2>1. thing[s] \in Things
      BY <1>0
    <2>2. /\ t.on = thing[s].on /\ t.first = thing[s].first
          /\ t.next = thing[s].next /\ t.prev = thing[s].prev
      BY <2>1 DEF Things
    <2>3. thing' = [thing EXCEPT ![s] = t]
      BY <1>1
    <2> HIDE DEF t
    <2> QED
      BY <1>0, <2>2, <2>3
  <1>5. /\ orphaned' \in SUBSET Slots /\ orphaned \subseteq orphaned'
        /\ s \notin orphaned' => thing[s].first = NONE
        /\ \A i \in DOMAIN calls : calls[i].fn = "Attach" /\ calls[i].to = s => s \in orphaned'
    BY <1>0 DEF FreeEnds
  <1>6. Lists(thing', orphaned')
    <2>1. \A x \in Slots : thing'[x].type = FREE =>
             \/ thing[x].type = FREE
             \/ thing[x].on = NONE /\ (x \notin orphaned' => thing[x].first = NONE)
      BY <1>3, <1>4, <1>5
    <2> QED
      BY <1>0, <1>4, <1>5, <2>1, ListsKept
  <1>7. \A i \in DOMAIN ds :
           /\ ds[i].fn \in {"Detach", "Attach", "Free"} =>
                 thing'[ds[i].thing].on = thing[ds[i].thing].on
           /\ ds[i].fn = "Attach" =>
                 /\ thing[ds[i].thing].type # FREE => thing'[ds[i].thing].type # FREE
                 /\ thing[ds[i].to].type # FREE =>
                       thing'[ds[i].to].type # FREE \/ ds[i].to \in orphaned'
    <2> TAKE i \in DOMAIN ds
    <2>1. /\ ds[i].fn \in {"Detach", "Attach", "Free"} => ds[i].thing \in Slots
          /\ ds[i].fn = "Attach" => ds[i].to \in Slots
      BY <1>2, CallTypes
    <2>2. ds[i].fn = "Attach" => ds[i].thing # s /\ (ds[i].to = s => s \in orphaned')
      BY <1>2, <1>3, <1>5
    <2> QED
      BY <1>4, <2>1, <2>2
  <1>8. Waits(ds, thing', orphaned')
    BY <1>2, <1>5, <1>7, WaitsWhenThingsChange
  <1> QED
    BY <1>1, <1>6, <1>8

LEMMA NextLists == IInv /\ LInv /\ [Next]_vars => LInv'
  <1> SUFFICES ASSUME TypeOK, PoolExact, LInv, [Next]_vars, ~twice', ~crossed'
               PROVE  Lists(thing', orphaned') /\ Waits(calls', thing', orphaned')
    BY DEF IInv, LInv
  <1>0. ~twice /\ ~crossed
    BY TwiceStays, CrossedStays
  <1>00. /\ Lists(thing, orphaned) /\ Waits(calls, thing, orphaned)
         /\ thing \in [Slots -> Things] /\ orphaned \in SUBSET Slots /\ calls \in Seq(Calls)
    BY <1>0 DEF LInv, TypeOK
  <1>a. ASSUME Verb PROVE Open(calls)
    BY <1>a DEF Verb, InHandler, Open
  <1>b. ASSUME calls # <<>>, Last(calls).fn \notin {"Detach", "Leave"}
        PROVE  /\ Front(calls) \in Seq(Calls) /\ Waits(Front(calls), thing, orphaned)
               /\ Open(Front(calls))
    BY <1>b, <1>00, WaitsWhenPopped
  <1>c. ASSUME NEW r \in Slots, thing[r].on # NONE
        PROVE  /\ DetachCall(r) \in Calls /\ DetachCall(r).fn = "Detach"
               /\ DetachCall(r).thing = r /\ DetachCall(r).from = thing[r].on
    <2>1. thing[r].on \in Slots
      BY <1>c, <1>00, LinkTypes, NoneOk
    <2> QED
      BY <2>1, CallTypes DEF DetachCall
  <1>d. ASSUME thing' = thing, orphaned' = orphaned, Waits(calls', thing, orphaned)
        PROVE  Lists(thing', orphaned') /\ Waits(calls', thing', orphaned')
    BY <1>00, <1>d
  <1>1. CASE UNCHANGED vars
    BY <1>00, <1>1 DEF vars, ghosts
  <1>2. ASSUME NEW kind \in Kinds, Create(kind)
        PROVE  Lists(thing', orphaned') /\ Waits(calls', thing', orphaned')
    <2>1. CASE pool # <<>>
      <3>1. Taken(kind) /\ calls' = calls /\ orphaned' = orphaned
        BY <1>2, <2>1 DEF Create, ghosts
      <3> QED
        BY <1>0, <1>00, <2>1, <3>1, ListsMoveIn
    <2>2. CASE pool = <<>>
      <3> DEFINE e == ScanCall(0)
      <3>1. thing' = thing /\ orphaned' = orphaned /\ calls' = Append(calls, e) /\ Verb
        BY <1>2, <2>2 DEF Create, ghosts
      <3>2. e \in Calls /\ e.fn = "Scan"
        BY CallTypes DEF ScanCall
      <3> HIDE DEF e
      <3>3. Waits(calls', thing, orphaned)
        BY <1>00, <1>a, <3>1, <3>2, WaitsWhenPushed
      <3> QED
        BY <1>d, <3>1, <3>3
    <2> QED
      BY <2>1, <2>2
  <1>3. ASSUME NEW s \in Slots, Destroy(s)
        PROVE  Lists(thing', orphaned') /\ Waits(calls', thing', orphaned')
    <2> DEFINE t == [thing[s] EXCEPT !.removed = TRUE]
    <2>1. thing[s] \in Things /\ thing' = [thing EXCEPT ![s] = t]
      BY <1>00, <1>3 DEF Destroy
    <2>2. /\ t.on = thing[s].on /\ t.first = thing[s].first /\ t.next = thing[s].next
          /\ t.prev = thing[s].prev /\ t.type = thing[s].type
      BY <2>1 DEF Things
    <2> HIDE DEF t
    <2>3. \A x \in Slots :
             /\ thing'[x].on = thing[x].on /\ thing'[x].first = thing[x].first
             /\ thing'[x].next = thing[x].next /\ thing'[x].prev = thing[x].prev
             /\ thing'[x].type = thing[x].type
      BY <1>00, <2>1, <2>2
    <2>4. calls' = calls /\ orphaned' = orphaned
      BY <1>3 DEF Destroy, ghosts
    <2> QED
      BY <1>00, <2>3, <2>4, ListsMove
  <1>4. ASSUME NEW r \in Slots, NEW c \in Slots, Attach(r, c)
        PROVE  Lists(thing', orphaned') /\ Waits(calls', thing', orphaned')
    <2>1. /\ ~Busy(r, calls) /\ orphaned' = orphaned /\ Verb
          /\ thing[r].type # FREE /\ thing[c].type # FREE
      BY <1>4 DEF Attach, Used
    <2>2. CASE thing[r].on = NONE
      <3>1. thing' = Link(thing, r, c) /\ calls' = calls
        BY <1>4, <2>2 DEF Attach
      <3> QED
        BY <1>00, <2>1, <2>2, <3>1, ListsMoveOn
    <2>3. CASE thing[r].on # NONE
      <3> DEFINE e == AttachCall(r, c)
                 d == DetachCall(r)
      <3>1. thing' = thing /\ calls' = Append(Append(calls, e), d)
        BY <1>4, <2>3 DEF Attach
      <3>2. e \in Calls /\ e.fn = "Attach" /\ e.thing = r /\ e.to = c
        BY CallTypes DEF AttachCall
      <3>3. d \in Calls /\ d.fn = "Detach" /\ d.thing = r /\ d.from = thing[r].on
        BY <1>c, <2>3
      <3> HIDE DEF e, d
      <3>4. /\ \A i \in DOMAIN calls : ~Detaching(calls, i, r)
            /\ \A i \in DOMAIN calls : ~(calls[i].fn = "Free" /\ calls[i].thing = r)
        BY <2>1, NotBusy
      <3>5. Waits(calls', thing, orphaned)
        BY <1>00, <1>a, <2>1, <3>1, <3>2, <3>3, <3>4, WaitsWhenCalled
      <3> QED
        BY <1>d, <2>1, <3>1, <3>5
    <2> QED
      BY <2>2, <2>3
  <1>5. ASSUME NEW r \in Slots, Detach(r)
        PROVE  Lists(thing', orphaned') /\ Waits(calls', thing', orphaned')
    <2> DEFINE d == DetachCall(r)
    <2>1. /\ ~Busy(r, calls) /\ orphaned' = orphaned /\ Verb /\ thing' = thing
          /\ calls' = Append(calls, d) /\ thing[r].on # NONE
      BY <1>5 DEF Detach
    <2>2. d \in Calls /\ d.fn = "Detach" /\ d.thing = r /\ d.from = thing[r].on
      BY <1>c, <2>1
    <2> HIDE DEF d
    <2>3. \A i \in DOMAIN calls : ~Detaching(calls, i, r)
      BY <2>1, NotBusy
    <2>4. Waits(calls', thing, orphaned)
      BY <1>00, <1>a, <2>1, <2>2, <2>3, WaitsWhenPushed
    <2> QED
      BY <1>d, <2>1, <2>4
  <1>6. ASSUME NEW c \in Slots, Shed(c)
        PROVE  Lists(thing', orphaned') /\ Waits(calls', thing', orphaned')
    <2> DEFINE e == ShedCall(thing[c].first)
    <2>1. thing' = thing /\ orphaned' = orphaned /\ calls' = Append(calls, e) /\ Verb
      BY <1>6 DEF Shed, ghosts
    <2>2. e \in Calls /\ e.fn = "Shed"
      BY <1>00, LinkTypes, CallTypes DEF ShedCall
    <2> HIDE DEF e
    <2>3. Waits(calls', thing, orphaned)
      BY <1>00, <1>a, <2>1, <2>2, WaitsWhenPushed
    <2> QED
      BY <1>d, <2>1, <2>3
  <1>7. CASE Return
    <2> DEFINE call == Last(calls)
    <2>1. /\ calls # <<>> /\ call \in Calls /\ calls' = Front(calls) /\ orphaned' = orphaned
          /\ call.fn \in {"Detach", "Leave"}
      BY <1>7, StackTypes DEF Return, InHandler, End, ghosts, TypeOK
    <2>2. CASE call.fn = "Detach"
      <3> DEFINE r == call.thing
                 c == call.from
      <3>1. r \in Slots /\ c \in Slots /\ thing' = Unlink(thing, r, c)
        BY <1>7, <2>1, <2>2, CallTypes DEF Return
      <3>2. thing[r].on = c
        <4>1. Len(calls) \in DOMAIN calls /\ call = calls[Len(calls)]
          BY <1>00, <2>1, LastOf
        <4> QED
          BY <1>00, <2>2, <4>1 DEF Waits, WaitsFor
      <3>3. call.thing = r
        OBVIOUS
      <3> HIDE DEF r, c
      <3>4. /\ Lists(thing', orphaned)
            /\ \A x \in Slots : /\ thing'[x].type = thing[x].type
                                /\ thing'[x].on = IF x = r THEN NONE ELSE thing[x].on
        BY <1>00, <3>1, <3>2, ListsWhenUnlinked
      <3>5. Waits(calls', thing', orphaned)
        BY <1>00, <2>1, <2>2, <3>1, <3>3, <3>4, WaitsWhenDetached
      <3> QED
        BY <2>1, <3>4, <3>5
    <2>3. CASE call.fn = "Leave"
      <3> DEFINE s == call.thing
                 t == [thing[s] EXCEPT !.inSector = FALSE]
      <3>1. s \in Slots /\ thing[s] \in Things
        BY <1>00, <2>1, <2>3, CallTypes
      <3>2. thing' = [thing EXCEPT ![s] = t]
        BY <1>7, <2>3 DEF Return
      <3>3. /\ t.on = thing[s].on /\ t.first = thing[s].first /\ t.next = thing[s].next
            /\ t.prev = thing[s].prev /\ t.type = thing[s].type
        BY <3>1 DEF Things
      <3> HIDE DEF s, t
      <3>4. \A x \in Slots :
               /\ thing'[x].on = thing[x].on /\ thing'[x].first = thing[x].first
               /\ thing'[x].next = thing[x].next /\ thing'[x].prev = thing[x].prev
               /\ thing'[x].type = thing[x].type
        BY <1>00, <3>1, <3>2, <3>3
      <3>5. Lists(thing', orphaned') /\ Waits(calls, thing', orphaned')
        BY <1>00, <2>1, <3>4, ListsMove
      <3>6. Waits(calls', thing', orphaned')
        BY <1>00, <2>1, <2>3, <3>5, WaitsWhenPopped
      <3> QED
        BY <3>5, <3>6
    <2> QED
      BY <2>1, <2>2, <2>3
  <1>8. CASE GoFree
    <2> DEFINE s == Last(calls).thing
               ds == Front(calls)
    <2>1. /\ Last(calls) \in Calls /\ s \in Slots /\ calls # <<>> /\ Last(calls).fn = "Free"
          /\ Last(calls).thing = s
      BY <1>8, StackTypes, CallTypes DEF GoFree, TypeOK
    <2>2. ds \in Seq(Calls) /\ Waits(ds, thing, orphaned) /\ Open(ds)
      BY <1>b, <2>1
    <2>3. CASE FreeLeaves(s)
      <3> DEFINE e == FreeCall(s, "leave")
                 d == DetachCall(s)
      <3>1. e \in Calls /\ e.fn = "Free" /\ e.thing = s /\ e.pc = "leave"
        BY <2>1, CallTypes DEF FreeCall
      <3>2. thing' = thing /\ orphaned' = orphaned
        BY <2>3 DEF FreeLeaves
      <3>3. CASE thing[s].on = NONE
        <4>1. calls' = Append(ds, e)
          BY <2>3, <3>3 DEF FreeLeaves, Continue
        <4> HIDE DEF e, ds, s
        <4>2. Waits(calls', thing, orphaned)
          BY <2>2, <3>1, <3>3, <4>1, WaitsWhenPushed
        <4> QED
          BY <1>d, <3>2, <4>2
      <3>4. CASE thing[s].on # NONE
        <4>1. calls' = Append(Append(ds, e), d) /\ ~Busy(s, ds)
          BY <2>3, <3>4 DEF FreeLeaves, CallFrom
        <4>2. d \in Calls /\ d.fn = "Detach" /\ d.thing = s /\ d.from = thing[s].on
          BY <1>c, <2>1, <3>4
        <4> HIDE DEF e, d, ds, s
        <4>3. \A i \in DOMAIN ds : ~Detaching(ds, i, s)
          BY <4>1, NotBusy
        <4>4. Waits(calls', thing, orphaned)
          BY <2>2, <3>1, <4>1, <4>2, <4>3, WaitsWhenCalled
        <4> QED
          BY <1>d, <3>2, <4>4
      <3> QED
        BY <3>3, <3>4
    <2>4. CASE Last(calls).pc = "leave" /\ FreeExits(s)
      <3> DEFINE e == FreeCall(s, "free")
                 d == LeaveCall(s)
      <3>1. e \in Calls /\ e.fn = "Free" /\ e.thing = s /\ e.pc = "free"
        BY <2>1, CallTypes DEF FreeCall
      <3>2. d \in Calls /\ d.fn = "Leave" /\ d.thing = s
        BY <2>1, CallTypes DEF LeaveCall
      <3>3. thing' = thing /\ orphaned' = orphaned
        BY <2>4 DEF FreeExits
      <3>4. thing[s].on = NONE
        BY <1>00, <2>1, <2>4, OnTop
      <3>5. calls' = Append(ds, e) \/ calls' = Append(Append(ds, e), d)
        BY <2>4 DEF FreeExits, Continue, CallFrom
      <3> HIDE DEF e, d, ds, s
      <3>6. calls' = Append(ds, e) => Waits(calls', thing, orphaned)
        BY <2>2, <3>1, <3>4, WaitsWhenPushed
      <3>7. calls' = Append(Append(ds, e), d) => Waits(calls', thing, orphaned)
        BY <2>2, <3>1, <3>2, <3>4, WaitsWhenCalled
      <3> QED
        BY <1>d, <3>3, <3>5, <3>6, <3>7
    <2>5. CASE Last(calls).pc = "free" /\ FreeEnds(s)
      <3> HIDE DEF s
      <3> QED
        BY <1>00, <2>1, <2>5, ListsMoveOut
    <2> QED
      BY <1>8, <2>3, <2>4, <2>5 DEF GoFree
  <1>9. CASE GoAttach
    <2> DEFINE r == Last(calls).thing
               c == Last(calls).to
               ds == Front(calls)
    <2>1. /\ calls # <<>> /\ Last(calls).fn = "Attach" /\ Last(calls).thing = r
          /\ r \in Slots /\ c \in Slots
          /\ thing' = Link(thing, r, c) /\ calls' = ds /\ orphaned' = orphaned
      BY <1>9, StackTypes, CallTypes DEF GoAttach, End, ghosts, TypeOK
    <2>2. ds \in Seq(Calls) /\ Waits(ds, thing, orphaned)
      BY <1>b, <2>1
    <2>3. thing[r].on = NONE /\ ~Busy(r, ds)
      <3> HIDE DEF r
      <3> QED
        BY <1>00, <2>1, OnTop
    <2>4. thing[r].type # FREE /\ (thing[c].type # FREE \/ c \in orphaned)
      <3>1. Len(calls) \in DOMAIN calls /\ Last(calls) = calls[Len(calls)]
        BY <1>00, <2>1, LastOf
      <3> QED
        BY <1>00, <2>1, <3>1 DEF Waits, WaitsFor
    <2> HIDE DEF r, c, ds
    <2> QED
      BY <1>00, <2>1, <2>2, <2>3, <2>4, ListsMoveOn
  <1>10. CASE GoShed
    <2> DEFINE r == Last(calls).next
               ds == Front(calls)
    <2>1. /\ Last(calls) \in Calls /\ r \in SlotOrNone /\ calls # <<>> /\ Last(calls).fn = "Shed"
          /\ thing' = thing /\ orphaned' = orphaned
      BY <1>10, StackTypes, CallTypes DEF GoShed, TypeOK
    <2>2. ds \in Seq(Calls) /\ Waits(ds, thing, orphaned) /\ Open(ds)
      BY <1>b, <2>1
    <2>3. CASE r = NONE
      <3>1. calls' = ds
        BY <1>10, <2>3 DEF GoShed, End
      <3> QED
        BY <1>d, <2>1, <2>2, <3>1
    <2>4. CASE r # NONE
      <3> DEFINE e == ShedCall(thing[r].next)
                 d == DetachCall(r)
                 es == Append(ds, e)
      <3>1. r \in Slots
        BY <2>1, <2>4, NoneOk
      <3>2. e \in Calls /\ e.fn = "Shed"
        BY <1>00, <3>1, LinkTypes, CallTypes DEF ShedCall
      <3>3. CASE thing[r].on = NONE
        <4>1. calls' = es
          BY <1>10, <2>4, <3>3 DEF GoShed, Continue
        <4> HIDE DEF e, ds
        <4>2. Waits(calls', thing, orphaned)
          BY <2>2, <3>2, <4>1, WaitsWhenPushed
        <4> QED
          BY <1>d, <2>1, <4>2
      <3>4. CASE thing[r].on # NONE
        <4>1. calls' = Append(es, d) /\ ~Busy(r, calls)
          BY <1>10, <2>4, <3>4 DEF GoShed, CallFrom
        <4>2. d \in Calls /\ d.fn = "Detach" /\ d.thing = r /\ d.from = thing[r].on
          BY <1>c, <3>1, <3>4
        <4>3. \A i \in DOMAIN ds : i \in DOMAIN calls /\ ds[i] = calls[i]
          BY <1>00, <2>1, FrontCalls
        <4> HIDE DEF e, d, ds, r
        <4>4. /\ DOMAIN ds = 1 .. Len(ds) /\ DOMAIN es = 1 .. Len(ds) + 1 /\ es[Len(ds) + 1] = e
              /\ \A i \in 1 .. Len(ds) : es[i] = ds[i]
              /\ es \in Seq(Calls) /\ Len(es) = Len(ds) + 1 /\ Len(ds) \in Nat
          BY <2>2, <3>2, AppendedCall
        <4>5. Waits(es, thing, orphaned)
          BY <2>2, <3>2, WaitsWhenPushed
        <4>6. Open(es)
          BY <3>2, <4>4 DEF Open, Last
        <4>7. \A i \in DOMAIN es : ~Detaching(es, i, r)
          <5> SUFFICES ASSUME NEW i \in DOMAIN es, es[i].fn = "Detach", es[i].thing = r PROVE FALSE
            BY DEF Detaching
          <5>1. i \in 1 .. Len(ds)
            <6>1. i # Len(ds) + 1
              BY <3>2, <4>4
            <6> QED
              BY <4>4, <6>1
          <5>2. Detaching(calls, i, r)
            BY <4>3, <4>4, <5>1 DEF Detaching
          <5> QED
            BY <4>1, <5>2, NotBusy DEF Detaching
        <4> HIDE DEF es
        <4>8. Waits(calls', thing, orphaned)
          BY <4>1, <4>2, <4>4, <4>5, <4>6, <4>7, WaitsWhenPushed
        <4> QED
          BY <1>d, <2>1, <4>8
      <3> QED
        BY <3>3, <3>4
    <2> QED
      BY <2>3, <2>4
  <1>11. CASE GoScan
    <2> DEFINE i == Last(calls).next
               ds == Front(calls)
    <2>1. /\ Last(calls) \in Calls /\ i \in Nat /\ calls # <<>> /\ Last(calls).fn = "Scan"
          /\ orphaned' = orphaned
      BY <1>11, StackTypes, CallTypes DEF GoScan, TypeOK
    <2>2. ds \in Seq(Calls) /\ Waits(ds, thing, orphaned) /\ Open(ds)
      BY <1>b, <2>1
    <2>3. CASE i \notin Slots \/ i >= ScanLength
      <3>1. calls' = ds
        BY <1>11, <2>3 DEF GoScan, End
      <3>2. thing' = thing \/ (pool # <<>> /\ Taken(LASTING))
        BY <1>11, <2>3 DEF GoScan
      <3>3. LASTING \in Kinds
        BY DEF Kinds
      <3> HIDE DEF ds
      <3> QED
        BY <1>0, <1>00, <1>d, <2>1, <2>2, <3>1, <3>2, <3>3, ListsMoveIn
    <2>4. CASE i \in Slots /\ ~(i >= ScanLength)
      <3> DEFINE e == ScanCall(i + 1)
                 f == FreeCall(i, "detach")
                 es == Append(ds, e)
      <3>1. thing' = thing /\ (calls' = es \/ calls' = Append(es, f))
        BY <1>11, <2>4 DEF GoScan, Continue, CallFrom
      <3>2. e \in Calls /\ e.fn = "Scan"
        BY <2>1, CallTypes DEF ScanCall
      <3>3. f \in Calls /\ f.fn = "Free" /\ f.pc = "detach"
        BY <2>4, CallTypes DEF FreeCall
      <3> HIDE DEF e, f, ds
      <3>4. Waits(es, thing, orphaned)
        BY <2>2, <3>2, WaitsWhenPushed
      <3>5. es \in Seq(Calls) /\ Open(es)
        BY <2>2, <3>2, AppendedCall DEF Open, Last
      <3> HIDE DEF es
      <3>6. Waits(Append(es, f), thing, orphaned)
        BY <3>3, <3>4, <3>5, WaitsWhenPushed
      <3> QED
        BY <1>d, <2>1, <3>1, <3>4, <3>6
    <2> QED
      BY <2>3, <2>4
  <1>12. CASE TickAll
    <2> DEFINE f == FreeCall(at', "detach")
    <2>1. /\ thing' = thing /\ orphaned' = orphaned /\ calls = <<>>
          /\ calls' = <<>> \/ (at' # NONE /\ calls' = <<f>>)
      BY <1>12 DEF TickAll, ghosts
    <2>2. CASE calls' = <<>>
      BY <1>00, <1>d, <2>1, <2>2
    <2>3. CASE at' # NONE /\ calls' = <<f>>
      <3>1. at' \in Slots
        <4>1. at' \in SlotOrNone
          BY NextType DEF TypeOK
        <4> QED
          BY <2>3, <4>1, NoneOk
      <3>2. f \in Calls /\ f.fn = "Free" /\ f.pc = "detach"
        BY <3>1, CallTypes DEF FreeCall
      <3> HIDE DEF f
      <3>3. calls' = Append(calls, f)
        BY <2>1, <2>3
      <3>4. Waits(calls', thing, orphaned)
        BY <1>00, <2>1, <3>2, <3>3, WaitsWhenPushed DEF Open
      <3> QED
        BY <1>d, <2>1, <3>4
    <2> QED
      BY <2>1, <2>2, <2>3
  <1> QED
    BY <1>1, <1>2, <1>3, <1>4, <1>5, <1>6, <1>7, <1>8, <1>9, <1>10, <1>11, <1>12 DEF Next

\* No list is empty that something is on, and neighbours agree: the lists of sithThing.c
\* that sithThing_AttachThing and sithThing_DetachThing keep hold what rides on a thing and
\* nothing else, whatever handlers interrupt them, as long as none of them moves the very
\* thing it hears about; but for things that were freed with others on them.
THEOREM ListsAreSound == Spec => []ListsSound
  <1>1. Init => LInv
    <2> SUFFICES ASSUME Init PROVE Lists(thing, orphaned) /\ Waits(calls, thing, orphaned)
      BY DEF LInv
    <2>1. \A s \in Slots : /\ thing[s].on = NONE /\ thing[s].first = NONE
                           /\ thing[s].next = NONE /\ thing[s].prev = NONE
      BY DEF Init, NewThing, Unused
    <2>2. Ranked(thing)
      <3>1. [s \in Slots |-> 0] \in [Slots -> Nat]
        OBVIOUS
      <3> QED
        BY <2>1, <3>1 DEF Ranked, RanksOf
    <2>3. Lists(thing, orphaned)
      BY <2>1, <2>2, NoneOk DEF Lists, Chained, Headed, OneHead, FreeIsBare
    <2>4. calls = <<>>
      BY DEF Init
    <2>5. Waits(calls, thing, orphaned)
      BY <2>4 DEF Waits, Differ
    <2> QED
      BY <2>3, <2>5
  <1>2. IInv /\ LInv => ListsSound
    <2> SUFFICES ASSUME IInv, LInv, ~twice, ~crossed, NEW c \in Slots \ orphaned
                 PROVE  /\ thing[c].first = NONE <=> Riders(c) = {}
                        /\ \A r \in Riders(c) :
                              /\ r = thing[c].first <=> thing[r].prev = NONE
                              /\ thing[r].prev # NONE =>
                                    thing[r].prev \in Riders(c) /\ thing[thing[r].prev].next = r
                              /\ thing[r].next # NONE =>
                                    thing[r].next \in Riders(c) /\ thing[thing[r].next].prev = r
      BY DEF ListsSound
    <2>1. /\ Lists(thing, orphaned) /\ thing \in [Slots -> Things]
          /\ orphaned \in SUBSET Slots /\ c \in Slots /\ c # NONE
      BY NoneOk DEF LInv, IInv, TypeOK
    <2>2. \A r \in Slots : r \in Riders(c) <=> thing[r].on = c
      BY <2>1 DEF Riders, Used, Lists, FreeIsBare
    <2>3. Riders(c) \subseteq Slots
      BY DEF Riders
    <2>4. thing[c].first # NONE => /\ thing[c].first \in Riders(c)
                                   /\ thing[thing[c].first].prev = NONE
      <3>1. thing[c].first # NONE => thing[c].first \in Slots
        BY <2>1, LinkTypes, NoneOk
      <3> QED
        BY <2>1, <2>2, <3>1 DEF Lists, Headed
    <2>5. Riders(c) # {} => thing[c].first # NONE
      <3>1. ASSUME NEW r \in Slots, thing[r].on = c PROVE thing[c].first \in Slots
        BY <2>1, <3>1, ListHasFirst
      <3> QED
        BY <2>2, <2>3, <3>1, NoneOk
    <2>6. ASSUME NEW r \in Riders(c)
          PROVE  /\ r = thing[c].first <=> thing[r].prev = NONE
                 /\ thing[r].prev # NONE =>
                       thing[r].prev \in Riders(c) /\ thing[thing[r].prev].next = r
                 /\ thing[r].next # NONE =>
                       thing[r].next \in Riders(c) /\ thing[thing[r].next].prev = r
      <3>1. r \in Slots /\ thing[r].on = c
        BY <2>2, <2>3
      <3>2. /\ thing[r].prev # NONE => thing[r].prev \in Slots
            /\ thing[r].next # NONE => thing[r].next \in Slots
        BY <2>1, <3>1, LinkTypes, NoneOk
      <3>3. /\ thing[r].prev # NONE => /\ thing[thing[r].prev].on = c
                                       /\ thing[thing[r].prev].next = r
            /\ thing[r].next # NONE => /\ thing[thing[r].next].on = c
                                       /\ thing[thing[r].next].prev = r
        BY <2>1, <3>1 DEF Lists, Chained
      <3>4. thing[r].prev = NONE => r = thing[c].first
        BY <2>1, <3>1 DEF Lists, OneHead
      <3>5. r = thing[c].first => thing[r].prev = NONE
        BY <2>4, <3>1, NoneOk
      <3> QED
        BY <2>2, <3>2, <3>3, <3>4, <3>5
    <2> QED
      BY <2>4, <2>5, <2>6
  <1> QED
    BY <1>1, <1>2, InitSound, NextSound, NextLists, PTL DEF Spec

===============================================================================
