------------------------- MODULE SithCommDedup_proofs -------------------------
(***************************************************************************)
(* Why sithComm_Sync hands a reliable message to its handler once: whoever *)
(* sends, loses, repeats or reorders what, the ring sithComm_aMsgPairs     *)
(* holds the (sender, id) pairs of the last NumPairs messages handled, and *)
(* an id on the wire names the message it was given to.  Over a transport  *)
(* that keeps the order they are handled in the order they were sent.      *)
(*                                                                         *)
(* Who handles a message is somebody it is for, so that the layer          *)
(* implements ReliableCast; and who acknowledges it has handled it, as     *)
(* long as the ids and the slots keep meaning the same.                    *)
(***************************************************************************)
EXTENDS SithComm_proofs

\* message n of p exists in the history lg and carries this id
Known(lg, p, n, id) == n \in DOMAIN lg[p] /\ lg[p][n].id = id

\* nothing is removed from a history, and no message changes its id
Extends(lg1, lg2) == \A p \in Procs : \A n \in DOMAIN lg1[p] :
    n \in DOMAIN lg2[p] /\ lg2[p][n].id = lg1[p][n].id

WireKnown(ch, lg) == \A p, q \in Procs : \A k \in DOMAIN ch[p][q] :
    ch[p][q][k].id # 0 => Known(lg, p, ch[p][q][k].seq, ch[p][q][k].id)
StoredKnown == \A p \in Procs : \A i \in BufIdx :
    Occupied(p, i) => Known(log, p, buf[p][i].seq, buf[p][i].id)
HandledKnown == \A q \in Procs : \A i \in DOMAIN dispatched[q] :
    dispatched[q][i][2] \in DOMAIN log[dispatched[q][i][1]]

\* where the ring of size NumPairs with the given cursor keeps the entry that
\* was written age entries ago
Place(c, age) == IF age < c THEN c - 1 - age ELSE c - 1 - age + NumPairs
PairOf(e) == [from |-> e[1], id |-> log[e[1]][e[2]].id]
RingHolds == \A q \in Procs : \A i \in DOMAIN dispatched[q] :
    LET age == Len(dispatched[q]) - i
    IN  age < NumPairs => pairs[q][Place(cursor[q], age)] = PairOf(dispatched[q][i])

\* The inductive invariant behind AtMostOncePerWindow.
DedupInv ==
    /\ WireKnown(chan, log) /\ StoredKnown /\ HandledKnown /\ RingHolds
    /\ AtMostOncePerWindow

LEMMA KnownExtends ==
    ASSUME NEW lg1, NEW lg2, Extends(lg1, lg2), NEW p \in Procs, NEW n, NEW id,
           Known(lg1, p, n, id)
    PROVE  Known(lg2, p, n, id)
  BY DEF Extends, Known

LEMMA WireExtends ==
    ASSUME NEW ch, NEW lg1, NEW lg2, Extends(lg1, lg2), WireKnown(ch, lg1)
    PROVE  WireKnown(ch, lg2)
  BY KnownExtends DEF WireKnown

LEMMA ConcatElement ==
    ASSUME NEW S, NEW s \in Seq(S), NEW t \in Seq(S), NEW k \in 1 .. Len(s \o t)
    PROVE  \/ k \in DOMAIN s /\ (s \o t)[k] = s[k]
           \/ k - Len(s) \in DOMAIN t /\ (s \o t)[k] = t[k - Len(s)]
  <1>1. CASE k <= Len(s)
    BY <1>1
  <1>2. CASE k > Len(s)
    BY <1>2
  <1> QED  BY <1>1, <1>2

\* What a channel holds after a send was there before, at the same place, or has
\* just been sent and comes behind it.
LEMMA PutPlaces ==
    ASSUME NEW ch \in ChanType, NEW p \in Procs, NEW out \in OutType,
           NEW a \in Procs, NEW b \in Procs, NEW k \in DOMAIN Put(ch, p, out)[a][b]
    PROVE  \/ k \in DOMAIN ch[a][b] /\ Put(ch, p, out)[a][b][k] = ch[a][b][k]
           \/ /\ a = p /\ b # p /\ k - Len(ch[a][b]) \in DOMAIN out[b]
              /\ Put(ch, p, out)[a][b][k] = out[b][k - Len(ch[a][b])]
  <1>1. ch[a][b] \in Seq(Wire) /\ out[b] \in Seq(Wire)
    BY DEF ChanType, OutType
  <1>2. CASE a # p \/ b = p
    <2>1. Put(ch, p, out)[a][b] = ch[a][b]
      BY <1>2 DEF Put, ChanType
    <2> QED  BY <2>1
  <1>3. CASE a = p /\ b # p
    <2> DEFINE all == ch[p][b] \o out[b]
               cut == IF Len(all) < NetCap THEN Len(all) ELSE NetCap
    <2>1. Put(ch, p, out)[a][b] = SubSeq(all, 1, cut)
      BY <1>3 DEF Put, ChanType
    <2>2. all \in Seq(Wire)
      BY <1>1, <1>3
    <2> HIDE DEF all
    <2>3. cut \in Nat /\ cut <= Len(all)
      BY <2>2, BoundsAssumption
    <2> HIDE DEF cut
    <2>4. k \in 1 .. Len(all) /\ Put(ch, p, out)[a][b][k] = all[k]
      BY <2>1, <2>2, <2>3
    <2>5. \/ k \in DOMAIN ch[p][b] /\ all[k] = ch[p][b][k]
          \/ k - Len(ch[p][b]) \in DOMAIN out[b] /\ all[k] = out[b][k - Len(ch[p][b])]
      <3>1. ch[p][b] \in Seq(Wire) /\ out[b] \in Seq(Wire)  BY <1>1, <1>3
      <3> QED  BY <2>4, <3>1, ConcatElement DEF all
    <2> QED  BY <1>3, <2>4, <2>5
  <1> QED  BY <1>2, <1>3

LEMMA PutElements ==
    ASSUME NEW ch \in ChanType, NEW p \in Procs, NEW out \in OutType,
           NEW a \in Procs, NEW b \in Procs, NEW k \in DOMAIN Put(ch, p, out)[a][b]
    PROVE  \/ \E j \in DOMAIN ch[a][b] : Put(ch, p, out)[a][b][k] = ch[a][b][j]
           \/ a = p /\ b # p /\ \E j \in DOMAIN out[b] : Put(ch, p, out)[a][b][k] = out[b][j]
  <1> DEFINE w == Put(ch, p, out)[a][b][k]
             l == k - Len(ch[a][b])
  <1>1. \/ k \in DOMAIN ch[a][b] /\ w = ch[a][b][k]
        \/ a = p /\ b # p /\ l \in DOMAIN out[b] /\ w = out[b][l]
    BY PutPlaces
  <1> HIDE DEF w, l
  <1>2. \/ \E j \in DOMAIN ch[a][b] : w = ch[a][b][j]
        \/ a = p /\ b # p /\ \E j \in DOMAIN out[b] : w = out[b][j]
    BY <1>1
  <1> QED  BY <1>2 DEF w

LEMMA PutKnown ==
    ASSUME NEW ch \in ChanType, NEW p \in Procs, NEW out \in OutType, NEW lg,
           WireKnown(ch, lg),
           \A b \in Procs : \A j \in DOMAIN out[b] :
              out[b][j].id # 0 => Known(lg, p, out[b][j].seq, out[b][j].id)
    PROVE  WireKnown(Put(ch, p, out), lg)
  BY PutElements DEF WireKnown

LEMMA EachKnown ==
    ASSUME NEW pkt, NEW dests, NEW p \in Procs, NEW lg,
           pkt.id # 0 => Known(lg, p, pkt.seq, pkt.id)
    PROVE  \A b \in Procs : \A j \in DOMAIN Each(pkt, dests)[b] :
              Each(pkt, dests)[b][j].id # 0 =>
                 Known(lg, p, Each(pkt, dests)[b][j].seq, Each(pkt, dests)[b][j].id)
  BY DEF Each

LEMMA HandledType ==
    ASSUME TypeOK, NEW q \in Procs, NEW i \in DOMAIN dispatched[q]
    PROVE  dispatched[q][i][1] \in Procs /\ dispatched[q][i][2] \in Nat
  <1>1. dispatched[q] \in Seq(Procs \X Nat)  BY DEF TypeOK
  <1>2. dispatched[q][i] \in Procs \X Nat  BY <1>1
  <1> QED  BY <1>2

\* The invariant survives every step that only extends the history, sends what
\* the history knows and handles nothing.
LEMMA QuietStep ==
    ASSUME DedupInv, IInv, Extends(log, log'), WireKnown(chan', log'), StoredKnown',
           UNCHANGED <<pairs, cursor, dispatched>>
    PROVE  DedupInv'
  <1>1. \A q \in Procs : \A i \in DOMAIN dispatched[q] : dispatched[q][i][1] \in Procs
    BY HandledType DEF IInv
  <1>2. \A q \in Procs : \A i \in DOMAIN dispatched[q] :
          LET e == dispatched[q][i] IN
            e[2] \in DOMAIN log'[e[1]] /\ log'[e[1]][e[2]].id = log[e[1]][e[2]].id
    BY <1>1 DEF DedupInv, HandledKnown, Extends
  <1>3. HandledKnown'
    BY <1>2 DEF HandledKnown
  <1>4. RingHolds'
    BY <1>2, ZenonT(60) DEF DedupInv, RingHolds, PairOf
  <1>5. AtMostOncePerWindow'
    BY DEF DedupInv, AtMostOncePerWindow
  <1> QED  BY <1>3, <1>4, <1>5 DEF DedupInv

LEMMA SendReliableKnown ==
    ASSUME DedupInv, IInv, NEW p \in Procs, NEW kind \in Kinds \cup {QuitKind}, NEW a2,
           NEW ch \in ChanType, WireKnown(ch, log), SendReliable(p, kind, a2, ch)
    PROVE  Extends(log, log') /\ WireKnown(chan', log') /\ StoredKnown'
  <1> DEFINE v9 == IF msgId[p] = 0 THEN 1 ELSE msgId[p]
             mask == AckMask(p, a2)
             seq == Len(log[p]) + 1
             m == [id |-> v9, kind |-> kind, seq |-> seq, mask |-> mask,
                   timeMs |-> curMs[p], timeMs2 |-> curMs[p], retry |-> 0]
             e == [id |-> v9, to |-> Addressees(p, a2)]
  <1>1. v9 \in Ids /\ 0 \in Ids
    BY SizesAssumption DEF IInv, TypeOK, Ids
  <1>2. log \in [Procs -> Seq(Entry)] /\ seq \in Nat
    BY DEF IInv, TypeOK
  <1>3. CASE mask = {}
    <2>1. chan' = Put(ch, p, Each(Unreliable(kind), Targets(p, a2)))
          /\ UNCHANGED <<buf, pending, log>>
      BY <1>3 DEF SendReliable
    <2>2. Unreliable(kind) \in Wire /\ Unreliable(kind).id = 0
      BY <1>1, PacketType DEF Unreliable
    <2>3. WireKnown(chan', log)
      BY <2>1, <2>2, EachType, EachKnown, PutKnown
    <2> QED  BY <2>1, <2>3 DEF Extends, DedupInv, StoredKnown, Occupied
  <1>4. CASE mask # {}
    <2>1. /\ FreeSlot(buf[p]) # NumBuf
          /\ StoreSlot(buf[p], curMs[p]) = 0
      BY StoreSlotIsFirst DEF IInv, BufferInv
    <2>2. 0 \in BufIdx  BY SizesAssumption DEF BufIdx
    <2>3. buf' = [buf EXCEPT ![p][0] = m] /\ log' = [log EXCEPT ![p] = Append(@, e)]
      BY <1>4, <2>1 DEF SendReliable
    <2>4. chan' = Put(ch, p, SendOutput(p, Packet(m), a2))
      BY <1>4 DEF SendReliable
    <2>5. Extends(log, log') /\ Known(log', p, seq, v9)
      BY <1>2, <2>3 DEF Extends, Known
    <2>6. Packet(m) \in Wire /\ Packet(m).id = v9 /\ Packet(m).seq = seq
      BY <1>1, <1>2, PacketType DEF Packet
    <2>7. SendOutput(p, Packet(m), a2) = [d \in Procs |->
              Each(Packet(m), {})[d] \o Each(Packet(m), Targets(p, a2))[d]]
      BY <2>1 DEF SendOutput
    <2> HIDE DEF m, e, v9, seq
    <2> DEFINE pkt == Packet(m)
               out == SendOutput(p, pkt, a2)
    <2> HIDE DEF pkt
    <2>8. \A d \in Procs : \/ out[d] = <<>>
                           \/ out[d] = <<pkt>>
      BY <2>7 DEF Each, pkt
    <2>9. out \in OutType
      <3>1. pkt \in Wire  BY <2>6 DEF pkt
      <3>2. <<>> \in Seq(Wire) /\ <<pkt>> \in Seq(Wire)  BY <3>1
      <3>3. out = [d \in Procs |-> out[d]]  BY <2>7 DEF pkt
      <3> HIDE DEF out
      <3> QED  BY <2>8, <3>2, <3>3 DEF OutType
    <2>10. \A b \in Procs : \A j \in DOMAIN out[b] : out[b][j] = pkt
      BY <2>8
    <2> HIDE DEF out
    <2>11. WireKnown(ch, log')
      BY <2>5, WireExtends
    <2>12. WireKnown(chan', log')
      BY <2>4, <2>5, <2>6, <2>9, <2>10, <2>11, PutKnown DEF pkt, out
    <2>13. StoredKnown'
      <3>1. /\ \A q \in Procs \ {p} : buf'[q] = buf[q]
            /\ \A i \in BufIdx \ {0} : buf'[p][i] = buf[p][i]
            /\ buf'[p][0] = m
        BY <2>2, <2>3 DEF IInv, TypeOK
      <3>2. m.id = v9 /\ m.seq = seq
        BY DEF m
      <3> QED  BY <2>5, <3>1, <3>2, KnownExtends DEF DedupInv, StoredKnown, Occupied
    <2> QED  BY <2>5, <2>12, <2>13
  <1> QED  BY <1>3, <1>4

LEMMA SendDedup ==
    ASSUME DedupInv, IInv, NEW p \in Procs, NEW kind \in Kinds, NEW a2, NEW reliable,
           SendMsgToPlayer(p, kind, a2, reliable)
    PROVE  DedupInv'
  <1>1. chan \in ChanType /\ WireKnown(chan, log)
    BY DEF IInv, TypeOK, ChanType, DedupInv
  <1>2. UNCHANGED <<pairs, cursor, dispatched>>
    BY DEF SendMsgToPlayer
  <1>3. CASE reliable
    <2>1. SendReliable(p, kind, a2, chan)
      BY <1>3 DEF SendMsgToPlayer
    <2> QED  BY <1>1, <1>2, <2>1, SendReliableKnown, QuietStep
  <1>4. CASE ~reliable
    <2>1. /\ chan' = Put(chan, p, Each(Unreliable(kind), Targets(p, a2)))
          /\ UNCHANGED <<buf, pending, msgId, log>>
      BY <1>4 DEF SendMsgToPlayer, SendUnreliable
    <2>2. Unreliable(kind) \in Wire /\ Unreliable(kind).id = 0
      BY SizesAssumption, PacketType DEF Unreliable, Ids
    <2>3. WireKnown(chan', log')
      BY <1>1, <2>1, <2>2, EachType, EachKnown, PutKnown
    <2>4. Extends(log, log') /\ StoredKnown'
      BY <2>1 DEF Extends, DedupInv, StoredKnown, Occupied
    <2> QED  BY <1>2, <2>3, <2>4, QuietStep
  <1> QED  BY <1>3, <1>4

\* An acknowledgement changes masks and clears slots, never ids.
LEMMA DispatchKnown ==
    ASSUME DedupInv, IInv, NEW q \in Procs, NEW from \in Procs, NEW pkt \in Wire,
           Dispatch(q, from, pkt), UNCHANGED log
    PROVE  StoredKnown'
  <1>1. CASE UNCHANGED buf
    BY <1>1 DEF DedupInv, StoredKnown, Occupied
  <1>2. CASE ~ UNCHANGED buf
    <2>1. ProcessAck(q, from, pkt)
      BY <1>2 DEF Dispatch
    <2>2. PICK i \in BufIdx :
            \/ buf' = [buf EXCEPT ![q][i] = NoMsg]
            \/ buf' = [buf EXCEPT ![q][i].mask = buf[q][i].mask \ SlotOf(q, from)]
      BY <1>2, <2>1 DEF ProcessAck, AckedSlot
    <2>3. buf \in [Procs -> [BufIdx -> Message]]
      BY DEF IInv, TypeOK
    <2>4. \A p \in Procs : \A j \in BufIdx :
            \/ buf'[p][j] = NoMsg
            \/ buf'[p][j].id = buf[p][j].id /\ buf'[p][j].seq = buf[p][j].seq
      <3>1. buf[q][i] \in Message  BY <2>3
      <3> DEFINE left == [buf[q][i] EXCEPT !.mask = buf[q][i].mask \ SlotOf(q, from)]
      <3>2. left.id = buf[q][i].id /\ left.seq = buf[q][i].seq
        BY <3>1 DEF Message
      <3>3. \/ buf' = [buf EXCEPT ![q][i] = NoMsg]
            \/ buf' = [buf EXCEPT ![q][i] = left]
        BY <2>2
      <3> HIDE DEF left
      <3> QED  BY <2>3, <3>2, <3>3
    <2> QED  BY <2>4, NoMsgType DEF DedupInv, StoredKnown, Occupied
  <1> QED  BY <1>1, <1>2

\* Ages 0 .. NumPairs - 1 have places in the ring, a write moves every entry but
\* the oldest one age up without moving it, and lands on the oldest one's place.
LEMMA Places ==
    ASSUME NEW c \in PairIdx
    PROVE  LET next == IF c + 1 >= NumPairs THEN 0 ELSE c + 1
           IN  /\ Place(next, 0) = c
               /\ \A a \in Nat : a < NumPairs => Place(c, a) \in PairIdx
               /\ \A a \in Nat : a + 1 < NumPairs =>
                     Place(next, a + 1) = Place(c, a) /\ Place(c, a) # c
  BY SizesAssumption DEF Place, PairIdx

\* The step the ring is for: a message that is not in it is written to it and
\* handled.
LEMMA RememberStep ==
    ASSUME DedupInv, IInv, NEW q \in Procs, NEW from \in Procs, NEW pkt \in Wire,
           pkt.id # 0, Known(log, from, pkt.seq, pkt.id), ~Seen(q, from, pkt.id),
           Remember(q, from, pkt.id), UNCHANGED log,
           dispatched' = [dispatched EXCEPT ![q] = Append(@, <<from, pkt.seq>>)]
    PROVE  HandledKnown' /\ RingHolds' /\ AtMostOncePerWindow'
  <1> DEFINE e == <<from, pkt.seq>>
             d == dispatched[q]
             c == cursor[q]
             next == IF c + 1 >= NumPairs THEN 0 ELSE c + 1
             new == [from |-> from, id |-> pkt.id]
  <1>1. /\ d \in Seq(Procs \X Nat) /\ c \in PairIdx /\ e \in Procs \X Nat
        /\ pkt.seq \in DOMAIN log[from] /\ log[from][pkt.seq].id = pkt.id
    BY DEF IInv, TypeOK, Wire, Known
  <1>2. /\ dispatched'[q] = Append(d, e)
        /\ \A r \in Procs \ {q} : /\ dispatched'[r] = dispatched[r]
                                  /\ pairs'[r] = pairs[r] /\ cursor'[r] = cursor[r]
        /\ cursor'[q] = next
        /\ pairs'[q] = [pairs[q] EXCEPT ![c] = new]
    BY DEF IInv, TypeOK, Remember
  <1>3. /\ Len(dispatched'[q]) = Len(d) + 1
        /\ \A i \in DOMAIN d : i \in 1 .. Len(d) /\ dispatched'[q][i] = d[i]
        /\ dispatched'[q][Len(d) + 1] = e
        /\ DOMAIN dispatched'[q] = DOMAIN d \cup {Len(d) + 1}
        /\ DOMAIN d = 1 .. Len(d) /\ Len(d) \in Nat
    BY <1>1, <1>2
  <1>4. PairOf(e) = new /\ (PairOf(e))' = new
    BY <1>1 DEF PairOf
  <1>5. /\ pairs'[q][c] = new
        /\ \A k \in PairIdx \ {c} : pairs'[q][k] = pairs[q][k]
    BY <1>1, <1>2 DEF IInv, TypeOK
  <1>6. HandledKnown'
    BY <1>1, <1>2, <1>3 DEF DedupInv, HandledKnown
  <1>7. \A x : (PairOf(x))' = PairOf(x)
    BY DEF PairOf
  <1>p. /\ Place(next, 0) = c
        /\ \A a \in Nat : a < NumPairs => Place(c, a) \in PairIdx
        /\ \A a \in Nat : a + 1 < NumPairs =>
              Place(next, a + 1) = Place(c, a) /\ Place(c, a) # c
    BY <1>1, Places
  <1>r. \A i \in DOMAIN d : Len(d) - i < NumPairs =>
          pairs[q][Place(c, Len(d) - i)] = PairOf(d[i])
    BY DEF DedupInv, RingHolds
  <1>w. \A i, j \in DOMAIN d : i < j /\ d[i] = d[j] => j - i > NumPairs
    BY DEF DedupInv, AtMostOncePerWindow
  <1>s. \A k \in PairIdx : pairs[q][k] # new
    BY DEF Seen
  <1> HIDE DEF e, new, d, c, next
  <1>8. ASSUME NEW i \in DOMAIN d, Len(d) - i < NumPairs
        PROVE  /\ Place(c, Len(d) - i) \in PairIdx
               /\ pairs[q][Place(c, Len(d) - i)] = PairOf(d[i])
    <2>1. Len(d) - i \in Nat
      BY <1>3, <1>8
    <2> QED  BY <1>8, <1>p, <1>r, <2>1
  <1>9. ASSUME NEW i \in DOMAIN dispatched'[q], Len(d) + 1 - i < NumPairs
        PROVE  pairs'[q][Place(next, Len(d) + 1 - i)] = PairOf(dispatched'[q][i])
    <2>2. CASE i = Len(d) + 1
      <3>1. Len(d) + 1 - i = 0
        BY <1>3, <2>2
      <3> QED  BY <1>3, <1>4, <1>5, <1>p, <2>2, <3>1
    <2>3. CASE i \in DOMAIN d
      <3> DEFINE a == Len(d) - i
      <3>1. a \in Nat /\ a + 1 < NumPairs /\ Len(d) + 1 - i = a + 1 /\ a < NumPairs
        BY <1>3, <1>9, <2>3, SizesAssumption
      <3>2. Place(next, a + 1) = Place(c, a) /\ Place(c, a) # c
        BY <1>p, <3>1
      <3>3. Place(c, a) \in PairIdx /\ pairs[q][Place(c, a)] = PairOf(d[i])
        BY <1>8, <2>3, <3>1
      <3> HIDE DEF a
      <3> QED  BY <1>3, <1>5, <2>3, <3>1, <3>2, <3>3
    <2> QED  BY <1>3, <2>2, <2>3
  <1>10. RingHolds'
    <2>1. ASSUME NEW i \in DOMAIN dispatched'[q], Len(dispatched'[q]) - i < NumPairs
          PROVE  pairs'[q][Place(cursor'[q], Len(dispatched'[q]) - i)]
                    = PairOf(dispatched'[q][i])
      BY <1>2, <1>3, <1>9, <2>1, SMTT(60)
    <2>2. ASSUME NEW r \in Procs \ {q}, NEW i \in DOMAIN dispatched'[r],
                 Len(dispatched'[r]) - i < NumPairs
          PROVE  pairs'[r][Place(cursor'[r], Len(dispatched'[r]) - i)]
                    = PairOf(dispatched'[r][i])
      BY <1>2, <2>2 DEF DedupInv, RingHolds
    <2> QED  BY <1>7, <2>1, <2>2 DEF RingHolds, Place
  <1>11. ASSUME NEW i \in DOMAIN d, d[i] = e
         PROVE  Len(d) + 1 - i > NumPairs
    <2>1. i \in 1 .. Len(d) /\ NumPairs \in Nat
      BY <1>3, SizesAssumption
    <2>2. ~(Len(d) - i < NumPairs)
      BY <1>4, <1>8, <1>11, <1>s
    <2> QED  BY <1>3, <2>1, <2>2
  <1>12. AtMostOncePerWindow'
    <2>1. ASSUME NEW i \in DOMAIN dispatched'[q], NEW j \in DOMAIN dispatched'[q], i < j,
                 dispatched'[q][i] = dispatched'[q][j]
          PROVE  j - i > NumPairs
      <3>1. CASE j = Len(d) + 1
        <4>1. i \in DOMAIN d  BY <1>3, <2>1, <3>1
        <4>2. d[i] = e  BY <1>3, <2>1, <3>1, <4>1
        <4> QED  BY <1>11, <3>1, <4>1, <4>2
      <3>2. CASE j \in DOMAIN d
        <4>1. i \in DOMAIN d  BY <1>3, <2>1, <3>2
        <4> QED  BY <1>3, <1>w, <2>1, <3>2, <4>1
      <3> QED  BY <1>3, <3>1, <3>2
    <2>2. \A r \in Procs \ {q} : dispatched'[r] = dispatched[r]
      BY <1>2
    <2> QED  BY <2>1, <2>2 DEF DedupInv, AtMostOncePerWindow
  <1> QED  BY <1>6, <1>10, <1>12

LEMMA AcceptDedup ==
    ASSUME DedupInv, IInv, NEW q \in Procs, NEW from \in Procs, NEW pkt \in Wire,
           pkt.id # 0 => Known(log, from, pkt.seq, pkt.id),
           NEW ch \in ChanType, WireKnown(ch, log), Accept(q, from, pkt, ch)
    PROVE  DedupInv'
  <1>1. UNCHANGED log /\ Extends(log, log')
    BY DEF Accept, Extends
  <1>2. CASE pkt.id = 0
    <2>1. Dispatch(q, from, pkt) /\ chan' = ch /\ UNCHANGED <<pairs, cursor>>
      BY <1>2 DEF Accept
    <2>2. UNCHANGED dispatched
      BY <1>2, <2>1 DEF Dispatch
    <2> QED  BY <1>1, <2>1, <2>2, DispatchKnown, QuietStep
  <1>3. CASE pkt.id # 0
    <2>1. chan' = Put(ch, q, Each(AckPacket(pkt.id), {from}))
      BY <1>3 DEF Accept
    <2>2. pkt.id \in Ids /\ AckPacket(pkt.id).id = 0  BY DEF Wire, AckPacket
    <2>3. WireKnown(chan', log')
      <3>1. AckPacket(pkt.id) \in Wire  BY <1>3, <2>2, AckType
      <3> DEFINE out == Each(AckPacket(pkt.id), {from})
      <3>2. out \in OutType
        BY <3>1, EachType
      <3>3. \A b \in Procs : \A j \in DOMAIN out[b] : out[b][j].id = 0
        BY <2>2 DEF Each
      <3> HIDE DEF out
      <3>4. WireKnown(Put(ch, q, out), log)
        BY <3>2, <3>3, PutKnown
      <3> QED  BY <1>1, <2>1, <3>4 DEF out
    <2>4. CASE Seen(q, from, pkt.id)
      <3>1. UNCHANGED <<buf, pairs, cursor, dispatched>>
        BY <1>3, <2>4 DEF Accept
      <3>2. StoredKnown'
        BY <1>1, <3>1 DEF DedupInv, StoredKnown, Occupied
      <3>3. UNCHANGED <<pairs, cursor, dispatched>>
        BY <3>1
      <3> QED  BY <1>1, <2>3, <3>2, <3>3, QuietStep
    <2>5. CASE ~Seen(q, from, pkt.id)
      <3>1. Remember(q, from, pkt.id) /\ Dispatch(q, from, pkt)
        BY <1>3, <2>5 DEF Accept
      <3>2. dispatched' = [dispatched EXCEPT ![q] = Append(@, <<from, pkt.seq>>)]
        BY <1>3, <3>1 DEF Dispatch
      <3>3. HandledKnown' /\ RingHolds' /\ AtMostOncePerWindow'
        BY <1>1, <1>3, <2>5, <3>1, <3>2, RememberStep
      <3> QED  BY <1>1, <2>3, <3>1, <3>3, DispatchKnown DEF DedupInv
    <2> QED  BY <2>4, <2>5
  <1> QED  BY <1>2, <1>3

\* what is left of a sequence behind its n-th element
LEMMA Behind ==
    ASSUME NEW S, NEW s \in Seq(S), NEW n \in 1 .. Len(s)
    PROVE  LET b == SubSeq(s, n + 1, Len(s))
           IN  /\ b \in Seq(S) /\ Len(b) = Len(s) - n
               /\ \A j \in 1 .. Len(s) - n : b[j] = s[n + j]
  <1> DEFINE b == SubSeq(s, n + 1, Len(s))
  <1>1. b \in Seq(S) /\ Len(b) = Len(s) - n
    OBVIOUS
  <1>2. \A j \in 1 .. Len(s) - n : b[j] = s[n + j]
    OBVIOUS
  <1> QED  BY <1>1, <1>2

LEMMA CutElement ==
    ASSUME NEW S, NEW s \in Seq(S), NEW n \in 1 .. Len(s),
           NEW k \in DOMAIN (SubSeq(s, 1, n - 1) \o SubSeq(s, n + 1, Len(s)))
    PROVE  \E j \in DOMAIN s :
              (SubSeq(s, 1, n - 1) \o SubSeq(s, n + 1, Len(s)))[k] = s[j]
  <1> DEFINE a == SubSeq(s, 1, n - 1)
             b == SubSeq(s, n + 1, Len(s))
  <1>1. /\ a \in Seq(S) /\ Len(a) = n - 1 /\ \A j \in 1 .. n - 1 : a[j] = s[j]
        /\ b \in Seq(S) /\ Len(b) = Len(s) - n
        /\ \A j \in 1 .. Len(s) - n : b[j] = s[n + j]
    <2>1. a \in Seq(S) /\ Len(a) = n - 1
      OBVIOUS
    <2>2. \A j \in 1 .. n - 1 : a[j] = s[j]
      OBVIOUS
    <2>3. b \in Seq(S) /\ Len(b) = Len(s) - n
      OBVIOUS
    <2>4. \A j \in 1 .. Len(s) - n : b[j] = s[n + j]
      OBVIOUS
    <2> QED  BY <2>1, <2>2, <2>3, <2>4
  <1>2. k \in 1 .. Len(a \o b)
    <2>1. k \in DOMAIN (a \o b)
      OBVIOUS
    <2> HIDE DEF a, b
    <2> QED  BY <1>1, <2>1
  <1> HIDE DEF a, b
  <1>3. \/ k \in DOMAIN a /\ (a \o b)[k] = a[k]
        \/ k - Len(a) \in DOMAIN b /\ (a \o b)[k] = b[k - Len(a)]
    BY <1>1, <1>2, ConcatElement
  <1> DEFINE w == (a \o b)[k]
  <1>4. CASE k \in DOMAIN a /\ w = a[k]
    <2>1. k \in DOMAIN s /\ w = s[k]
      BY <1>1, <1>4
    <2> HIDE DEF w
    <2>2. \E j \in DOMAIN s : w = s[j]
      BY <2>1
    <2> QED  BY <2>2 DEF w, a, b
  <1>5. CASE k - Len(a) \in DOMAIN b /\ w = b[k - Len(a)]
    <2> DEFINE j == k - Len(a)
    <2>1. n + j \in DOMAIN s /\ b[j] = s[n + j]
      BY <1>1, <1>5, SMTT(60)
    <2>2. w = s[n + j]
      BY <1>5, <2>1
    <2> HIDE DEF w, j
    <2>3. \E i \in DOMAIN s : w = s[i]
      BY <2>1, <2>2
    <2> QED  BY <2>3 DEF w, a, b
  <1> QED  BY <1>3, <1>4, <1>5

\* every packet on the channels of ch1 is on the same channel of ch2
Among(ch1, ch2) == \A a, b \in Procs : \A k \in DOMAIN ch1[a][b] :
    \E j \in DOMAIN ch2[a][b] : ch1[a][b][k] = ch2[a][b][j]

\* What is on the channels when one packet has been taken off was there before.
LEMMA CutAmong ==
    ASSUME NEW p \in Procs, NEW q \in Procs, chan \in ChanType,
           NEW n \in 1 .. Len(chan[p][q])
    PROVE  Among([chan EXCEPT ![p][q] =
                    SubSeq(@, 1, n - 1) \o SubSeq(@, n + 1, Len(@))], chan)
  <1> DEFINE s == chan[p][q]
             t == SubSeq(s, 1, n - 1) \o SubSeq(s, n + 1, Len(s))
             cut == [chan EXCEPT ![p][q] = t]
  <1>1. s \in Seq(Wire)  BY DEF ChanType
  <1>2. \A k \in DOMAIN t : \E j \in DOMAIN s : t[k] = s[j]
    <2> SUFFICES ASSUME NEW k \in DOMAIN t PROVE \E j \in DOMAIN s : t[k] = s[j]
      OBVIOUS
    <2>1. n \in 1 .. Len(s)  OBVIOUS
    <2> HIDE DEF s
    <2> QED  BY <1>1, <2>1, CutElement
  <1>3. \A a, b \in Procs : cut[a][b] = IF a = p /\ b = q THEN t ELSE chan[a][b]
    <2> HIDE DEF t
    <2> QED  BY DEF ChanType
  <1> HIDE DEF t, cut
  <1>4. Among(cut, chan)
    <2> SUFFICES ASSUME NEW a \in Procs, NEW b \in Procs, NEW k \in DOMAIN cut[a][b]
                 PROVE  \E j \in DOMAIN chan[a][b] : cut[a][b][k] = chan[a][b][j]
      BY DEF Among
    <2>1. CASE a = p /\ b = q
      <3>1. cut[a][b] = t  BY <1>3, <2>1
      <3> QED  BY <1>2, <2>1, <3>1
    <2>2. CASE ~(a = p /\ b = q)
      <3>1. cut[a][b] = chan[a][b]  BY <1>3, <2>2
      <3> QED  BY <3>1
    <2> QED  BY <2>1, <2>2
  <1> QED  BY <1>4 DEF cut, t

LEMMA CutKnown ==
    ASSUME NEW p \in Procs, NEW q \in Procs, chan \in ChanType, WireKnown(chan, log),
           NEW n \in 1 .. Len(chan[p][q])
    PROVE  WireKnown([chan EXCEPT ![p][q] =
                        SubSeq(@, 1, n - 1) \o SubSeq(@, n + 1, Len(@))], log)
  <1>1. \A ch : Among(ch, chan) => WireKnown(ch, log)
    BY DEF Among, WireKnown
  <1> QED  BY <1>1, CutAmong

LEMMA ReceiveDedup ==
    ASSUME DedupInv, IInv, NEW p \in Procs, NEW q \in Procs,
           NEW n \in 1 .. Len(chan[p][q]), NEW keep, Receive(q, p, n, keep)
    PROVE  DedupInv'
  <1> DEFINE pkt == chan[p][q][n]
             cut == [chan EXCEPT ![p][q] =
                       SubSeq(@, 1, n - 1) \o SubSeq(@, n + 1, Len(@))]
             rest == IF keep THEN chan ELSE cut
  <1>1. chan \in ChanType /\ WireKnown(chan, log)
    BY DEF IInv, TypeOK, ChanType, DedupInv
  <1>2. pkt \in Wire
    BY <1>1 DEF ChanType
  <1>3. rest \in ChanType /\ WireKnown(rest, log)
    BY <1>1, CutChanType, CutKnown
  <1>4. pkt.id # 0 => Known(log, p, pkt.seq, pkt.id)
    BY <1>1 DEF WireKnown, ChanType
  <1>5. Accept(q, p, pkt, rest) \/ Refuse(q, p, rest)
    BY DEF Receive
  <1> HIDE DEF pkt, rest
  <1>6. CASE Accept(q, p, pkt, rest)
    BY <1>2, <1>3, <1>4, <1>6, AcceptDedup
  <1>7. CASE Refuse(q, p, rest)
    <2>1. UNCHANGED <<pairs, cursor, dispatched>>
      BY <1>7 DEF Refuse
    <2>2. CASE q = Host
      <3>1. SendReliable(q, QuitKind, p, rest)
        BY <1>7, <2>2 DEF Refuse
      <3> QED  BY <1>3, <2>1, <3>1, SendReliableKnown, QuietStep
    <2>3. CASE q # Host
      <3>1. chan' = rest /\ UNCHANGED <<buf, log>>
        BY <1>7, <2>3 DEF Refuse
      <3>2. Extends(log, log') /\ StoredKnown' /\ WireKnown(chan', log')
        BY <1>3, <3>1 DEF Extends, DedupInv, StoredKnown, Occupied
      <3> QED  BY <2>1, <3>2, QuietStep
    <2> QED  BY <2>2, <2>3
  <1> QED  BY <1>5, <1>6, <1>7

LEMMA LoseDedup ==
    ASSUME DedupInv, IInv, NEW p \in Procs, NEW q \in Procs,
           NEW n \in 1 .. Len(chan[p][q]), Lose(p, q, n)
    PROVE  DedupInv'
  <1>1. WireKnown(chan', log')
    BY CutKnown DEF IInv, TypeOK, ChanType, DedupInv, Lose
  <1>2. Extends(log, log') /\ StoredKnown' /\ UNCHANGED <<pairs, cursor, dispatched>>
    BY DEF Lose, Extends, DedupInv, StoredKnown, Occupied
  <1> QED  BY <1>1, <1>2, QuietStep

\* A retransmission sends what is stored, under the id it was stored with.
LEMMA EndFrameDedup ==
    ASSUME DedupInv, IInv, NEW p \in Procs, EndFrame(p)
    PROVE  DedupInv'
  <1>1. UNCHANGED <<pairs, cursor, dispatched, log>> /\ Extends(log, log')
    BY DEF EndFrame, Extends
  <1>2. chan \in ChanType /\ WireKnown(chan, log)
    BY DEF IInv, TypeOK, ChanType, DedupInv
  <1>3. CASE pending[p] = 0
    <2>1. UNCHANGED <<buf, chan>>
      BY <1>3 DEF EndFrame, SyncWithPlayers
    <2>2. StoredKnown' /\ WireKnown(chan', log')
      BY <1>1, <1>2, <2>1 DEF DedupInv, StoredKnown, Occupied
    <2> QED  BY <1>1, <2>2, QuietStep
  <1>4. CASE pending[p] # 0
    <2> DEFINE synced == [i \in BufIdx |-> SyncedSlot(p, i)]
    <2>1. buf' = [buf EXCEPT ![p] = synced] /\ chan' = Put(chan, p, DueOutput(p))
      BY <1>4 DEF EndFrame, SyncWithPlayers
    <2>2. ASSUME NEW i \in BufIdx, synced[i].id # 0
          PROVE  synced[i].id = buf[p][i].id /\ synced[i].seq = buf[p][i].seq
      BY <2>2, NoMsgType DEF SyncedSlot, Retransmitted
    <2>3. StoredKnown'
      <3>1. \A q \in Procs : buf'[q] = IF q = p THEN synced ELSE buf[q]
        BY <2>1 DEF IInv, TypeOK
      <3> HIDE DEF synced
      <3> QED  BY <1>1, <2>2, <3>1 DEF DedupInv, StoredKnown, Occupied
    <2>4. ASSUME NEW d \in Procs, NEW k \in DOMAIN DueOutput(p)[d]
          PROVE  DueOutput(p)[d][k].id # 0 =>
                    Known(log, p, DueOutput(p)[d][k].seq, DueOutput(p)[d][k].id)
      <3> DEFINE due == DueFor(p, d)
                 i == Nth(due, k)
      <3>1. due \subseteq {0}
        BY DueIsFirst DEF DueFor, IInv, BufferInv
      <3>2. k \in 1 .. Cardinality(due) /\ DueOutput(p)[d][k] = Packet(buf[p][i])
        BY <2>4 DEF DueOutput
      <3>3. due = {0} /\ k = 1
        BY <3>1, <3>2, AtMostFirstSlot
      <3>4. i = 0 /\ 0 \in BufIdx
        <4>1. {j \in due : j <= 0} = {0}  BY <3>3
        <4>2. Cardinality({j \in due : j <= 0}) = 1  BY <4>1, FS_Singleton
        <4> QED  BY <3>3, <4>2, SizesAssumption DEF Nth, BufIdx
      <3> HIDE DEF i
      <3> QED  BY <3>2, <3>4 DEF Packet, DedupInv, StoredKnown, Occupied
    <2>5. WireKnown(chan', log')
      <3>1. DueOutput(p) \in OutType
        BY DueOutputType DEF IInv, BufferInv
      <3> QED  BY <1>1, <1>2, <2>1, <2>4, <3>1, PutKnown
    <2> QED  BY <1>1, <2>3, <2>5, QuietStep
  <1> QED  BY <1>3, <1>4

LEMMA RosterDedup ==
    ASSUME DedupInv, IInv, NEW p \in Procs, NEW i \in Slots, RosterChange(p, i)
    PROVE  DedupInv'
  <1>1. UNCHANGED <<buf, chan, pairs, cursor, dispatched>>
    BY DEF RosterChange
  <1>2. Extends(log, log')
    <2>1. CASE UNCHANGED log
      BY <2>1 DEF Extends
    <2>2. ASSUME NEW q \in Procs, PlayerJoins(p, i, q)
          PROVE  Extends(log, log')
      <3>1. log \in [Procs -> Seq(Entry)]  BY DEF IInv, TypeOK
      <3>2. \A r \in Procs \ {p} : log'[r] = log[r]
        BY <2>2, <3>1 DEF PlayerJoins
      <3>3. \A n \in DOMAIN log[p] : n \in DOMAIN log'[p] /\ log'[p][n].id = log[p][n].id
        BY <2>2, <3>1 DEF PlayerJoins
      <3> QED  BY <3>2, <3>3 DEF Extends
    <2> QED  BY <2>1, <2>2 DEF RosterChange, PlayerLeaves
  <1>3. StoredKnown' /\ WireKnown(chan', log')
    BY <1>1, <1>2, WireExtends, KnownExtends DEF DedupInv, StoredKnown, Occupied
  <1> QED  BY <1>1, <1>2, <1>3, QuietStep

LEMMA InitDedup == Init => DedupInv
  BY NoMsgType DEF Init, DedupInv, WireKnown, StoredKnown, Occupied, HandledKnown,
     RingHolds, AtMostOncePerWindow

LEMMA NextDedup == IInv /\ DedupInv /\ [Next]_vars => DedupInv'
  <1> SUFFICES ASSUME IInv, DedupInv, [Next]_vars PROVE DedupInv'
    OBVIOUS
  <1>1. \A p, q \in Procs : \A n \in Ready(p, q) : n \in 1 .. Len(chan[p][q])
    BY DEF Ready, IInv, TypeOK
  <1>2. CASE \E p \in Procs : Send(p)
    BY <1>2, SendDedup DEF Send
  <1>3. CASE \E q \in Procs : Recv(q)
    BY <1>1, <1>3, ReceiveDedup DEF Recv
  <1>4. CASE \E p \in Procs : EndFrame(p)
    BY <1>4, EndFrameDedup
  <1>5. CASE Loss
    BY <1>1, <1>5, LoseDedup DEF Loss
  <1>6. CASE Roster
    BY <1>6, RosterDedup DEF Roster
  <1>7. CASE UNCHANGED vars
    <2>1. Extends(log, log') /\ StoredKnown' /\ WireKnown(chan', log')
          /\ UNCHANGED <<pairs, cursor, dispatched>>
      BY <1>7 DEF vars, Extends, DedupInv, StoredKnown, Occupied
    <2> QED  BY <2>1, QuietStep
  <1> QED  BY <1>2, <1>3, <1>4, <1>5, <1>6, <1>7 DEF Next

\* sithComm_Sync handles no reliable message twice unless it has handled more
\* than NumPairs others in between, for every transport, every pattern of
\* retransmission and also when the 16-bit ids wrap around.
THEOREM HandledOncePerWindow == Spec => []AtMostOncePerWindow
  <1>1. Init => DedupInv  BY InitDedup
  <1>2. IInv /\ DedupInv /\ [Next]_vars => DedupInv'  BY NextDedup
  <1>3. DedupInv => AtMostOncePerWindow  BY DEF DedupInv
  <1> QED  BY <1>1, <1>2, <1>3, Invariance, PTL DEF Spec

-----------------------------------------------------------------------------
(* The order of handling, over a transport that does not overtake. *)

\* reliable packets of a channel carry numbers that never fall
Ordered(ch) == \A p, q \in Procs : \A i, j \in DOMAIN ch[p][q] :
    i < j /\ ch[p][q][i].id # 0 /\ ch[p][q][j].id # 0
        => ch[p][q][i].seq <= ch[p][q][j].seq

\* what q has handled of p is not newer than what is still on its way from p
HandledBefore(ch, d) == \A p, q \in Procs : \A k \in DOMAIN d[q], n \in DOMAIN ch[p][q] :
    d[q][k][1] = p /\ ch[p][q][n].id # 0 => d[q][k][2] <= ch[p][q][n].seq

\* the stored message is the newest of its sender
StoredIsNewest == \A p \in Procs : Occupied(p, 0) => buf[p][0].seq = Len(log[p])

\* The inductive invariant behind InOrder, with IInv and DedupInv.
OrderInv == Ordered(chan) /\ HandledBefore(chan, dispatched) /\ StoredIsNewest /\ InOrder

\* A send keeps the order if it sends at most one packet to everyone, and a
\* reliable one only if it is as new as what was sent and handled before.
LEMMA PutOrder ==
    ASSUME NEW ch \in ChanType, NEW p \in Procs, NEW out \in OutType, NEW d,
           Ordered(ch), HandledBefore(ch, d),
           \A b \in Procs : Len(out[b]) <= 1,
           \A b \in Procs : \A j \in DOMAIN out[b] : out[b][j].id # 0 =>
              /\ \A k \in DOMAIN ch[p][b] : ch[p][b][k].id # 0 =>
                    ch[p][b][k].seq <= out[b][j].seq
              /\ \A k \in DOMAIN d[b] : d[b][k][1] = p => d[b][k][2] <= out[b][j].seq
    PROVE  Ordered(Put(ch, p, out)) /\ HandledBefore(Put(ch, p, out), d)
  <1> DEFINE new == Put(ch, p, out)
  <1>1. ASSUME NEW a \in Procs, NEW b \in Procs, NEW k \in DOMAIN new[a][b]
        PROVE  \/ k \in DOMAIN ch[a][b] /\ new[a][b][k] = ch[a][b][k]
               \/ /\ a = p /\ k - Len(ch[a][b]) = 1 /\ 1 \in DOMAIN out[b]
                  /\ new[a][b][k] = out[b][1]
    <2>1. \/ k \in DOMAIN ch[a][b] /\ new[a][b][k] = ch[a][b][k]
          \/ /\ a = p /\ k - Len(ch[a][b]) \in DOMAIN out[b]
             /\ new[a][b][k] = out[b][k - Len(ch[a][b])]
      BY PutPlaces
    <2>2. \A l \in DOMAIN out[b] : l = 1
      <3>1. out[b] \in Seq(Wire) /\ Len(out[b]) <= 1  BY DEF OutType
      <3> QED  BY <3>1
    <2> HIDE DEF new
    <2> QED  BY <2>1, <2>2
  <1>2. new \in ChanType  BY PutType
  <1> HIDE DEF new
  <1>3. Ordered(new)
    <2> SUFFICES ASSUME NEW a \in Procs, NEW b \in Procs,
                        NEW i \in DOMAIN new[a][b], NEW j \in DOMAIN new[a][b], i < j,
                        new[a][b][i].id # 0, new[a][b][j].id # 0
                 PROVE  new[a][b][i].seq <= new[a][b][j].seq
      BY DEF Ordered
    <2>1. DOMAIN ch[a][b] = 1 .. Len(ch[a][b]) /\ Len(ch[a][b]) \in Nat
          /\ DOMAIN new[a][b] \subseteq Nat
      <3>1. ch[a][b] \in Seq(Wire) /\ new[a][b] \in Seq(Wire)  BY <1>2 DEF ChanType
      <3> QED  BY <3>1
    <2>2. CASE j \in DOMAIN ch[a][b] /\ new[a][b][j] = ch[a][b][j]
      <3>1. i \in DOMAIN ch[a][b] /\ new[a][b][i] = ch[a][b][i]
        BY <1>1, <2>1, <2>2
      <3> QED  BY <2>2, <3>1 DEF Ordered
    <2>3. CASE /\ a = p /\ j - Len(ch[a][b]) = 1 /\ 1 \in DOMAIN out[b]
               /\ new[a][b][j] = out[b][1]
      <3>1. i \in DOMAIN ch[a][b] /\ new[a][b][i] = ch[a][b][i]
        BY <1>1, <2>1, <2>3
      <3> QED  BY <2>3, <3>1
    <2> QED  BY <1>1, <2>2, <2>3
  <1>4. HandledBefore(new, d)
    <2> SUFFICES ASSUME NEW a \in Procs, NEW b \in Procs, NEW k \in DOMAIN d[b],
                        NEW n \in DOMAIN new[a][b], d[b][k][1] = a, new[a][b][n].id # 0
                 PROVE  d[b][k][2] <= new[a][b][n].seq
      BY DEF HandledBefore
    <2> QED  BY <1>1 DEF HandledBefore
  <1> QED  BY <1>3, <1>4 DEF new

\* What a process sends unreliably never comes into the question.
LEMMA EachUnreliable ==
    ASSUME NEW ch \in ChanType, NEW p \in Procs, NEW pkt \in Wire, pkt.id = 0, NEW dests,
           NEW d, Ordered(ch), HandledBefore(ch, d)
    PROVE  LET new == Put(ch, p, Each(pkt, dests))
           IN  Ordered(new) /\ HandledBefore(new, d)
  <1> DEFINE out == Each(pkt, dests)
  <1>1. out \in OutType  BY EachType
  <1>2. \A b \in Procs : /\ Len(out[b]) <= 1
                         /\ \A j \in DOMAIN out[b] : out[b][j].id = 0
    BY DEF Each
  <1> HIDE DEF out
  <1>3. Ordered(Put(ch, p, out)) /\ HandledBefore(Put(ch, p, out), d)
    BY <1>1, <1>2, PutOrder
  <1> QED  BY <1>3 DEF out

\* Everything on the way and everything handled is at most as new as the
\* newest message of its sender.
LEMMA NewestBounds ==
    ASSUME IInv, DedupInv, NEW ch \in ChanType, WireKnown(ch, log), NEW p \in Procs,
           NEW b \in Procs
    PROVE  /\ \A k \in DOMAIN ch[p][b] : ch[p][b][k].id # 0 =>
                  ch[p][b][k].seq \in Nat /\ ch[p][b][k].seq <= Len(log[p])
           /\ \A k \in DOMAIN dispatched[b] : dispatched[b][k][1] = p =>
                  dispatched[b][k][2] \in Nat /\ dispatched[b][k][2] <= Len(log[p])
  <1>1. log[p] \in Seq(Entry)
    BY DEF IInv, TypeOK
  <1>2. \A k \in DOMAIN ch[p][b] : ch[p][b][k].id # 0 => ch[p][b][k].seq \in DOMAIN log[p]
    BY DEF WireKnown, Known
  <1>3. \A k \in DOMAIN dispatched[b] : dispatched[b][k][1] = p =>
                  dispatched[b][k][2] \in DOMAIN log[p]
    BY DEF DedupInv, HandledKnown
  <1> QED  BY <1>1, <1>2, <1>3

\* Storing and sending a reliable message.
LEMMA SendReliableOrder ==
    ASSUME IInv, DedupInv, StoredIsNewest, NEW p \in Procs, NEW kind \in Kinds \cup {QuitKind},
           NEW a2, NEW ch \in ChanType, WireKnown(ch, log), Ordered(ch),
           HandledBefore(ch, dispatched), SendReliable(p, kind, a2, ch)
    PROVE  Ordered(chan') /\ HandledBefore(chan', dispatched) /\ StoredIsNewest'
  <1> DEFINE v9 == IF msgId[p] = 0 THEN 1 ELSE msgId[p]
             mask == AckMask(p, a2)
             seq == Len(log[p]) + 1
             m == [id |-> v9, kind |-> kind, seq |-> seq, mask |-> mask,
                   timeMs |-> curMs[p], timeMs2 |-> curMs[p], retry |-> 0]
             e == [id |-> v9, to |-> Addressees(p, a2)]
  <1>1. v9 \in Ids /\ 0 \in Ids
    BY SizesAssumption DEF IInv, TypeOK, Ids
  <1>2. log \in [Procs -> Seq(Entry)] /\ seq \in Nat
    BY DEF IInv, TypeOK
  <1>3. CASE mask = {}
    <2>1. chan' = Put(ch, p, Each(Unreliable(kind), Targets(p, a2)))
          /\ UNCHANGED <<buf, pending, log>>
      BY <1>3 DEF SendReliable
    <2>2. Unreliable(kind) \in Wire /\ Unreliable(kind).id = 0
      BY <1>1, PacketType DEF Unreliable
    <2>3. Ordered(chan') /\ HandledBefore(chan', dispatched)
      BY <2>1, <2>2, EachUnreliable
    <2> QED  BY <2>1, <2>3 DEF StoredIsNewest, Occupied
  <1>4. CASE mask # {}
    <2>1. /\ FreeSlot(buf[p]) # NumBuf
          /\ StoreSlot(buf[p], curMs[p]) = 0
      BY StoreSlotIsFirst DEF IInv, BufferInv
    <2>2. 0 \in BufIdx  BY SizesAssumption DEF BufIdx
    <2>3. buf' = [buf EXCEPT ![p][0] = m] /\ log' = [log EXCEPT ![p] = Append(@, e)]
      BY <1>4, <2>1 DEF SendReliable
    <2>4. chan' = Put(ch, p, SendOutput(p, Packet(m), a2))
      BY <1>4 DEF SendReliable
    <2>5. \A q \in Procs : Len(log'[q]) = IF q = p THEN seq ELSE Len(log[q])
      BY <1>2, <2>3
    <2>6. Packet(m) \in Wire /\ Packet(m).seq = seq
      BY <1>1, <1>2, PacketType DEF Packet
    <2>7. SendOutput(p, Packet(m), a2) = [d \in Procs |->
              Each(Packet(m), {})[d] \o Each(Packet(m), Targets(p, a2))[d]]
      BY <2>1 DEF SendOutput
    <2>8. StoredIsNewest'
      <3>1. /\ \A q \in Procs \ {p} : buf'[q] = buf[q]
            /\ buf'[p][0] = m
        BY <2>2, <2>3 DEF IInv, TypeOK
      <3>2. m.seq = seq
        BY DEF m
      <3> HIDE DEF m, e, v9, seq
      <3> QED  BY <2>5, <3>1, <3>2 DEF StoredIsNewest, Occupied
    <2> HIDE DEF m, e, v9
    <2> DEFINE pkt == Packet(m)
               out == SendOutput(p, pkt, a2)
    <2> HIDE DEF pkt
    <2>9. \A d \in Procs : out[d] = <<>> \/ out[d] = <<pkt>>
      BY <2>7 DEF Each, pkt
    <2>10. out \in OutType
      <3>1. pkt \in Wire  BY <2>6 DEF pkt
      <3>2. <<>> \in Seq(Wire) /\ <<pkt>> \in Seq(Wire)  BY <3>1
      <3>3. out = [d \in Procs |-> out[d]]  BY <2>7 DEF pkt
      <3> HIDE DEF out
      <3> QED  BY <2>9, <3>2, <3>3 DEF OutType
    <2>11. \A b \in Procs : Len(out[b]) <= 1 /\ \A j \in DOMAIN out[b] : out[b][j].seq = seq
      <3>1. pkt.seq = seq  BY <2>6 DEF pkt
      <3> HIDE DEF out, seq
      <3> SUFFICES ASSUME NEW b \in Procs
                   PROVE  Len(out[b]) <= 1 /\ \A j \in DOMAIN out[b] : out[b][j].seq = seq
        OBVIOUS
      <3>2. CASE out[b] = <<>>  BY <3>2
      <3>3. CASE out[b] = <<pkt>>  BY <3>1, <3>3
      <3> QED  BY <2>9, <3>2, <3>3
    <2> HIDE DEF out
    <2>12. ASSUME NEW b \in Procs
           PROVE  /\ \A k \in DOMAIN ch[p][b] : ch[p][b][k].id # 0 => ch[p][b][k].seq <= seq
                  /\ \A k \in DOMAIN dispatched[b] :
                        dispatched[b][k][1] = p => dispatched[b][k][2] <= seq
      <3>1. /\ \A k \in DOMAIN ch[p][b] : ch[p][b][k].id # 0 =>
                  ch[p][b][k].seq \in Nat /\ ch[p][b][k].seq <= Len(log[p])
            /\ \A k \in DOMAIN dispatched[b] : dispatched[b][k][1] = p =>
                  dispatched[b][k][2] \in Nat /\ dispatched[b][k][2] <= Len(log[p])
        BY NewestBounds
      <3>2. Len(log[p]) \in Nat  BY <1>2
      <3> QED  BY <3>1, <3>2
    <2> HIDE DEF seq
    <2>13. Ordered(Put(ch, p, out)) /\ HandledBefore(Put(ch, p, out), dispatched)
      BY <2>10, <2>11, <2>12, PutOrder
    <2> QED  BY <2>4, <2>8, <2>13 DEF out, pkt
  <1> QED  BY <1>3, <1>4

\* The invariant survives every step that keeps the order and handles nothing.
LEMMA SilentOrder ==
    ASSUME OrderInv, Ordered(chan'), HandledBefore(chan', dispatched), StoredIsNewest',
           UNCHANGED dispatched
    PROVE  OrderInv'
  BY DEF OrderInv, InOrder

LEMMA SendOrder ==
    ASSUME IInv, DedupInv, OrderInv, NEW p \in Procs, NEW kind \in Kinds, NEW a2,
           NEW reliable, SendMsgToPlayer(p, kind, a2, reliable)
    PROVE  OrderInv'
  <1>1. /\ chan \in ChanType /\ WireKnown(chan, log)
        /\ Ordered(chan) /\ HandledBefore(chan, dispatched) /\ StoredIsNewest
    BY DEF IInv, TypeOK, ChanType, DedupInv, OrderInv
  <1>2. UNCHANGED dispatched
    BY DEF SendMsgToPlayer
  <1>3. CASE reliable
    <2>1. SendReliable(p, kind, a2, chan)
      BY <1>3 DEF SendMsgToPlayer
    <2>2. Ordered(chan') /\ HandledBefore(chan', dispatched) /\ StoredIsNewest'
      BY <1>1, <2>1, SendReliableOrder
    <2> QED  BY <1>2, <2>2, SilentOrder
  <1>4. CASE ~reliable
    <2>1. /\ chan' = Put(chan, p, Each(Unreliable(kind), Targets(p, a2)))
          /\ UNCHANGED <<buf, pending, msgId, log>>
      BY <1>4 DEF SendMsgToPlayer, SendUnreliable
    <2>2. Unreliable(kind) \in Wire /\ Unreliable(kind).id = 0
      BY SizesAssumption, PacketType DEF Unreliable, Ids
    <2>3. Ordered(chan') /\ HandledBefore(chan', dispatched)
      BY <1>1, <2>1, <2>2, EachUnreliable
    <2>4. StoredIsNewest'
      BY <1>1, <2>1 DEF StoredIsNewest, Occupied
    <2> QED  BY <1>2, <2>3, <2>4, SilentOrder
  <1> QED  BY <1>3, <1>4

\* Whatever is taken off the front leaves the order of the rest.
LEMMA CutOrder ==
    ASSUME chan \in ChanType, NEW p \in Procs, NEW q \in Procs, 1 \in 1 .. Len(chan[p][q]),
           NEW d, Ordered(chan), HandledBefore(chan, d)
    PROVE  LET cut == [chan EXCEPT ![p][q] =
                         SubSeq(@, 1, 1 - 1) \o SubSeq(@, 1 + 1, Len(@))]
           IN  /\ Ordered(cut) /\ HandledBefore(cut, d)
               /\ \A k \in DOMAIN cut[p][q] :
                     k + 1 \in DOMAIN chan[p][q] /\ cut[p][q][k] = chan[p][q][k + 1]
  <1> DEFINE s == chan[p][q]
             t == SubSeq(s, 1, 1 - 1) \o SubSeq(s, 1 + 1, Len(s))
             cut == [chan EXCEPT ![p][q] = t]
  <1>1. s \in Seq(Wire) /\ Len(s) >= 1
    <2>1. s \in Seq(Wire)  BY DEF ChanType
    <2> QED  BY <2>1
  <1>2. \A k \in DOMAIN t : k \in Nat /\ k + 1 \in DOMAIN s /\ t[k] = s[k + 1]
    <2> DEFINE b == SubSeq(s, 1 + 1, Len(s))
               a == SubSeq(s, 1, 1 - 1)
    <2> HIDE DEF s
    <2>1. /\ b \in Seq(Wire) /\ Len(b) = Len(s) - 1
          /\ \A j \in 1 .. Len(s) - 1 : b[j] = s[j + 1]
      <3>1. 1 \in 1 .. Len(s)  BY <1>1
      <3>2. /\ b \in Seq(Wire) /\ Len(b) = Len(s) - 1
            /\ \A j \in 1 .. Len(s) - 1 : b[j] = s[1 + j]
        BY <1>1, <3>1, Behind
      <3> HIDE DEF b
      <3> QED  BY <3>2
    <2>2. a = <<>>  BY <1>1
    <2> HIDE DEF a, b
    <2>3. a \o b = b  BY <2>1, <2>2
    <2>4. \A k \in DOMAIN b : k \in Nat /\ k + 1 \in DOMAIN s /\ b[k] = s[k + 1]
      BY <1>1, <2>1
    <2> QED  BY <2>3, <2>4 DEF a, b
  <1>3. \A a, b \in Procs : cut[a][b] = IF a = p /\ b = q THEN t ELSE chan[a][b]
    <2> HIDE DEF t
    <2> QED  BY DEF ChanType
  <1> HIDE DEF t, cut
  <1>4. Ordered(cut)
    <2> SUFFICES ASSUME NEW a \in Procs, NEW b \in Procs, NEW i \in DOMAIN cut[a][b],
                        NEW j \in DOMAIN cut[a][b], i < j, cut[a][b][i].id # 0,
                        cut[a][b][j].id # 0
                 PROVE  cut[a][b][i].seq <= cut[a][b][j].seq
      BY DEF Ordered
    <2>1. CASE a = p /\ b = q
      <3>1. /\ i + 1 \in DOMAIN s /\ cut[a][b][i] = s[i + 1] /\ i \in Nat
            /\ j + 1 \in DOMAIN s /\ cut[a][b][j] = s[j + 1] /\ j \in Nat
        BY <1>2, <1>3, <2>1
      <3>2. i + 1 < j + 1  BY <3>1
      <3> QED  BY <3>1, <3>2 DEF Ordered
    <2>2. CASE ~(a = p /\ b = q)
      BY <1>3, <2>2 DEF Ordered
    <2> QED  BY <2>1, <2>2
  <1>5. HandledBefore(cut, d)
    <2> SUFFICES ASSUME NEW a \in Procs, NEW b \in Procs, NEW k \in DOMAIN d[b],
                        NEW n \in DOMAIN cut[a][b], d[b][k][1] = a, cut[a][b][n].id # 0
                 PROVE  d[b][k][2] <= cut[a][b][n].seq
      BY DEF HandledBefore
    <2>1. CASE a = p /\ b = q
      <3>1. n + 1 \in DOMAIN s /\ cut[a][b][n] = s[n + 1]
        BY <1>2, <1>3, <2>1
      <3> QED  BY <2>1, <3>1 DEF HandledBefore
    <2>2. CASE ~(a = p /\ b = q)
      <3>1. cut[a][b] = chan[a][b]  BY <1>3, <2>2
      <3> QED  BY <3>1 DEF HandledBefore
    <2> QED  BY <2>1, <2>2
  <1> HIDE DEF s
  <1>6. \A k \in DOMAIN cut[p][q] : k + 1 \in DOMAIN s /\ cut[p][q][k] = s[k + 1]
    BY <1>2, <1>3
  <1> QED  BY <1>4, <1>5, <1>6 DEF s, t, cut

\* Handling a message changes nothing stored but by clearing it.
LEMMA DispatchNewest ==
    ASSUME IInv, StoredIsNewest, NEW q \in Procs, NEW from \in Procs, NEW pkt \in Wire,
           Dispatch(q, from, pkt), UNCHANGED log
    PROVE  StoredIsNewest'
  <1>1. CASE UNCHANGED buf
    BY <1>1 DEF StoredIsNewest, Occupied
  <1>2. CASE ~ UNCHANGED buf
    <2>1. ProcessAck(q, from, pkt)
      BY <1>2 DEF Dispatch
    <2>2. PICK i \in BufIdx :
            \/ buf' = [buf EXCEPT ![q][i] = NoMsg]
            \/ buf' = [buf EXCEPT ![q][i].mask = buf[q][i].mask \ SlotOf(q, from)]
      BY <1>2, <2>1 DEF ProcessAck, AckedSlot
    <2>3. buf \in [Procs -> [BufIdx -> Message]] /\ 0 \in BufIdx
      BY SizesAssumption DEF IInv, TypeOK, BufIdx
    <2>4. \A p \in Procs : \/ buf'[p][0] = NoMsg
                           \/ buf'[p][0].id = buf[p][0].id /\ buf'[p][0].seq = buf[p][0].seq
      <3>1. buf[q][i] \in Message  BY <2>3
      <3> DEFINE left == [buf[q][i] EXCEPT !.mask = buf[q][i].mask \ SlotOf(q, from)]
      <3>2. left.id = buf[q][i].id /\ left.seq = buf[q][i].seq
        BY <3>1 DEF Message
      <3>3. \/ buf' = [buf EXCEPT ![q][i] = NoMsg]
            \/ buf' = [buf EXCEPT ![q][i] = left]
        BY <2>2
      <3> HIDE DEF left
      <3> QED  BY <2>3, <3>2, <3>3
    <2> QED  BY <2>4, NoMsgType DEF StoredIsNewest, Occupied
  <1> QED  BY <1>1, <1>2

\* The oldest packet of a channel is received; it may stay there.
LEMMA ReceiveOrder ==
    ASSUME IInv, DedupInv, AtMostOncePerWindow', OrderInv, NEW p \in Procs, NEW q \in Procs,
           1 \in 1 .. Len(chan[p][q]), NEW keep, Receive(q, p, 1, keep)
    PROVE  OrderInv'
  <1> DEFINE pkt == chan[p][q][1]
             cut == [chan EXCEPT ![p][q] =
                       SubSeq(@, 1, 1 - 1) \o SubSeq(@, 1 + 1, Len(@))]
             rest == IF keep THEN chan ELSE cut
  <1>1. /\ chan \in ChanType /\ WireKnown(chan, log)
        /\ Ordered(chan) /\ HandledBefore(chan, dispatched) /\ StoredIsNewest
    BY DEF IInv, TypeOK, ChanType, DedupInv, OrderInv
  <1>2. pkt \in Wire
    BY <1>1 DEF ChanType
  <1>3. rest \in ChanType /\ WireKnown(rest, log)
    BY <1>1, CutChanType, CutKnown
  <1>4. /\ Ordered(cut) /\ HandledBefore(cut, dispatched)
        /\ \A k \in DOMAIN cut[p][q] :
              k + 1 \in DOMAIN chan[p][q] /\ cut[p][q][k] = chan[p][q][k + 1]
    BY <1>1, CutOrder
  <1>5. chan[p][q] \in Seq(Wire) /\ DOMAIN cut[p][q] \subseteq Nat
    <2>1. cut \in ChanType  BY <1>1, CutChanType
    <2> HIDE DEF cut
    <2> QED  BY <1>1, <2>1 DEF ChanType
  <1>9. Accept(q, p, pkt, rest) \/ Refuse(q, p, rest)
    BY DEF Receive
  <1> HIDE DEF cut
  <1>6. Ordered(rest) /\ HandledBefore(rest, dispatched)
    BY <1>1, <1>4
  <1>7. \A k \in DOMAIN rest[p][q] : pkt.id # 0 /\ rest[p][q][k].id # 0 =>
           pkt.seq <= rest[p][q][k].seq
    <2>1. \A k \in DOMAIN chan[p][q] : pkt.id # 0 /\ chan[p][q][k].id # 0 =>
             pkt.seq <= chan[p][q][k].seq
      <3> SUFFICES ASSUME NEW k \in DOMAIN chan[p][q], pkt.id # 0, chan[p][q][k].id # 0
                   PROVE  pkt.seq <= chan[p][q][k].seq
        OBVIOUS
      <3>1. CASE k = 1
        <4>1. pkt.seq \in Nat  BY <1>2 DEF Wire
        <4> QED  BY <3>1, <4>1
      <3>2. CASE k # 1
        <4>1. 1 < k /\ 1 \in DOMAIN chan[p][q]  BY <1>5, <3>2
        <4> QED  BY <1>1, <4>1 DEF Ordered
      <3> QED  BY <3>1, <3>2
    <2> HIDE DEF pkt
    <2>2. CASE keep  BY <2>1, <2>2
    <2>3. CASE ~keep  BY <1>4, <2>1, <2>3
    <2> QED  BY <2>2, <2>3
  <1>8. \A k \in DOMAIN dispatched[q] :
           dispatched[q][k][1] = p /\ pkt.id # 0 => dispatched[q][k][2] <= pkt.seq
    <2>1. 1 \in DOMAIN chan[p][q]  BY <1>5
    <2> QED  BY <1>1, <2>1 DEF HandledBefore
  <1> HIDE DEF pkt, rest
  <1>10. CASE Refuse(q, p, rest)
    <2>1. UNCHANGED dispatched
      BY <1>10 DEF Refuse
    <2>2. CASE q = Host
      <3>1. SendReliable(q, QuitKind, p, rest)
        BY <1>10, <2>2 DEF Refuse
      <3>2. Ordered(chan') /\ HandledBefore(chan', dispatched) /\ StoredIsNewest'
        BY <1>1, <1>3, <1>6, <3>1, SendReliableOrder
      <3> QED  BY <2>1, <3>2, SilentOrder
    <2>3. CASE q # Host
      <3>1. chan' = rest /\ UNCHANGED <<buf, log>>
        BY <1>10, <2>3 DEF Refuse
      <3>2. StoredIsNewest'
        BY <1>1, <3>1 DEF StoredIsNewest, Occupied
      <3> QED  BY <1>6, <2>1, <3>1, <3>2, SilentOrder
    <2> QED  BY <2>2, <2>3
  <1>11. CASE Accept(q, p, pkt, rest) /\ pkt.id = 0
    <2>1. Dispatch(q, p, pkt) /\ chan' = rest /\ UNCHANGED log
      BY <1>11 DEF Accept
    <2>2. UNCHANGED dispatched
      BY <1>11, <2>1 DEF Dispatch
    <2>3. StoredIsNewest'
      BY <1>1, <1>2, <2>1, DispatchNewest
    <2> QED  BY <1>6, <2>1, <2>2, <2>3, SilentOrder
  <1>12. CASE Accept(q, p, pkt, rest) /\ pkt.id # 0
    <2>1. chan' = Put(rest, q, Each(AckPacket(pkt.id), {p})) /\ UNCHANGED log
      BY <1>12 DEF Accept
    <2>2. AckPacket(pkt.id) \in Wire /\ AckPacket(pkt.id).id = 0
      <3>1. pkt.id \in Ids  BY <1>2 DEF Wire
      <3> QED  BY <1>12, <3>1, AckType DEF AckPacket
    <2>3. CASE Seen(q, p, pkt.id)
      <3>1. UNCHANGED <<buf, dispatched>>
        BY <1>12, <2>3 DEF Accept
      <3>2. Ordered(chan') /\ HandledBefore(chan', dispatched)
        BY <1>3, <1>6, <2>1, <2>2, EachUnreliable
      <3>3. StoredIsNewest'
        BY <1>1, <2>1, <3>1 DEF StoredIsNewest, Occupied
      <3> QED  BY <3>1, <3>2, <3>3, SilentOrder
    <2>4. CASE ~Seen(q, p, pkt.id)
      <3> DEFINE e == <<p, pkt.seq>>
                 d == dispatched[q]
      <3>1. Dispatch(q, p, pkt)
        BY <1>12, <2>4 DEF Accept
      <3>2. dispatched' = [dispatched EXCEPT ![q] = Append(@, e)]
        BY <1>12, <3>1 DEF Dispatch
      <3>3. /\ dispatched'[q] = Append(d, e) /\ d \in Seq(Procs \X Nat) /\ pkt.seq \in Nat
            /\ \A r \in Procs \ {q} : dispatched'[r] = dispatched[r]
        BY <1>2, <3>2 DEF IInv, TypeOK, Wire
      <3>4. /\ DOMAIN dispatched'[q] = DOMAIN d \cup {Len(d) + 1}
            /\ \A k \in DOMAIN d : dispatched'[q][k] = d[k]
            /\ dispatched'[q][Len(d) + 1] = e
            /\ DOMAIN d = 1 .. Len(d) /\ Len(d) \in Nat
        <4> HIDE DEF e, d
        <4>1. e \in Procs \X Nat  BY <3>3 DEF e
        <4> QED  BY <3>3, <4>1
      <3>5. HandledBefore(rest, dispatched')
        <4> SUFFICES ASSUME NEW a \in Procs, NEW b \in Procs,
                            NEW k \in DOMAIN dispatched'[b], NEW n \in DOMAIN rest[a][b],
                            dispatched'[b][k][1] = a, rest[a][b][n].id # 0
                     PROVE  dispatched'[b][k][2] <= rest[a][b][n].seq
          BY DEF HandledBefore
        <4>1. CASE b = q /\ k = Len(d) + 1
          <5>1. a = p /\ dispatched'[b][k][2] = pkt.seq  BY <3>4, <4>1
          <5> QED  BY <1>7, <1>12, <4>1, <5>1
        <4>2. CASE ~(b = q /\ k = Len(d) + 1)
          <5>1. k \in DOMAIN dispatched[b] /\ dispatched'[b][k] = dispatched[b][k]
            BY <3>3, <3>4, <4>2
          <5> QED  BY <1>6, <5>1 DEF HandledBefore
        <4> QED  BY <4>1, <4>2
      <3>6. Ordered(chan') /\ HandledBefore(chan', dispatched')
        <4>1. \A x : HandledBefore(rest, x) => HandledBefore(chan', x)
          BY <1>3, <1>6, <2>1, <2>2, EachUnreliable
        <4>2. Ordered(chan')
          BY <1>3, <1>6, <2>1, <2>2, EachUnreliable
        <4> QED  BY <3>5, <4>1, <4>2
      <3>7. StoredIsNewest'
        BY <1>1, <1>2, <2>1, <3>1, DispatchNewest
      <3>8. \A k \in DOMAIN d : d[k][1] = p => d[k][2] \in Nat /\ d[k][2] <= pkt.seq
        <4>1. \A k \in DOMAIN d : d[k][2] \in Nat  BY HandledType DEF IInv
        <4> QED  BY <1>8, <1>12, <4>1
      <3>9. InOrder'
        <4>1. ASSUME NEW i \in DOMAIN dispatched'[q], NEW j \in DOMAIN dispatched'[q], i < j,
                     dispatched'[q][i][1] = dispatched'[q][j][1]
              PROVE  \/ dispatched'[q][i][2] < dispatched'[q][j][2]
                     \/ /\ dispatched'[q][i][2] = dispatched'[q][j][2]
                        /\ j - i > NumPairs
          <5>1. CASE j = Len(d) + 1
            <6>1. i \in DOMAIN d /\ dispatched'[q][i] = d[i] /\ dispatched'[q][j] = e
              BY <3>4, <4>1, <5>1
            <6>2. d[i][1] = p  BY <4>1, <6>1
            <6>3. d[i][2] \in Nat /\ d[i][2] <= pkt.seq  BY <3>8, <6>1, <6>2
            <6>4. CASE d[i][2] < pkt.seq
              BY <6>1, <6>4
            <6>5. CASE d[i][2] = pkt.seq
              <7>1. d[i] \in Procs \X Nat  BY <3>3, <6>1
              <7>2. d[i] = e  BY <6>2, <6>5, <7>1
              <7>3. j - i > NumPairs
                BY <4>1, <6>1, <7>2 DEF AtMostOncePerWindow
              <7>4. dispatched'[q][i] = dispatched'[q][j]  BY <6>1, <7>2
              <7> QED  BY <7>3, <7>4
            <6>6. d[i][2] < pkt.seq \/ d[i][2] = pkt.seq
              <7> HIDE DEF d
              <7> QED  BY <3>3, <6>3
            <6> QED  BY <6>4, <6>5, <6>6
          <5>2. CASE j # Len(d) + 1
            <6>1. i \in DOMAIN d /\ j \in DOMAIN d /\ dispatched'[q][i] = d[i]
                  /\ dispatched'[q][j] = d[j]
              BY <3>4, <4>1, <5>2
            <6> QED  BY <4>1, <6>1 DEF OrderInv, InOrder
          <5> QED  BY <5>1, <5>2
        <4>2. \A r \in Procs \ {q} : dispatched'[r] = dispatched[r]
          BY <3>3
        <4> QED  BY <4>1, <4>2 DEF OrderInv, InOrder
      <3> QED  BY <3>6, <3>7, <3>9 DEF OrderInv
    <2> QED  BY <2>3, <2>4
  <1> QED  BY <1>9, <1>10, <1>11, <1>12

LEMMA LoseOrder ==
    ASSUME IInv, DedupInv, OrderInv, NEW p \in Procs, NEW q \in Procs,
           1 \in 1 .. Len(chan[p][q]), Lose(p, q, 1)
    PROVE  OrderInv'
  <1>1. chan \in ChanType /\ Ordered(chan) /\ HandledBefore(chan, dispatched)
    BY DEF IInv, TypeOK, ChanType, OrderInv
  <1>2. Ordered(chan') /\ HandledBefore(chan', dispatched)
    BY <1>1, CutOrder DEF Lose
  <1>3. StoredIsNewest' /\ UNCHANGED dispatched
    BY DEF Lose, OrderInv, StoredIsNewest, Occupied
  <1> QED  BY <1>2, <1>3, SilentOrder

\* What is retransmitted is the newest message of the process.
LEMMA EndFrameOrder ==
    ASSUME IInv, DedupInv, OrderInv, NEW p \in Procs, EndFrame(p)
    PROVE  OrderInv'
  <1>1. UNCHANGED <<dispatched, log>>
    BY DEF EndFrame
  <1>2. /\ chan \in ChanType /\ WireKnown(chan, log)
        /\ Ordered(chan) /\ HandledBefore(chan, dispatched)
    BY DEF IInv, TypeOK, ChanType, DedupInv, OrderInv
  <1>3. CASE pending[p] = 0
    <2>1. UNCHANGED <<buf, chan>>
      BY <1>3 DEF EndFrame, SyncWithPlayers
    <2>2. StoredIsNewest'
      BY <1>1, <2>1 DEF OrderInv, StoredIsNewest, Occupied
    <2>3. Ordered(chan') /\ HandledBefore(chan', dispatched)
      BY <1>2, <2>1
    <2> QED  BY <1>1, <2>2, <2>3, SilentOrder
  <1>4. CASE pending[p] # 0
    <2> DEFINE synced == [i \in BufIdx |-> SyncedSlot(p, i)]
               out == DueOutput(p)
    <2>1. buf' = [buf EXCEPT ![p] = synced] /\ chan' = Put(chan, p, out)
      BY <1>4 DEF EndFrame, SyncWithPlayers
    <2>2. synced[0].id # 0 => synced[0].id = buf[p][0].id /\ synced[0].seq = buf[p][0].seq
      <3>1. 0 \in BufIdx  BY SizesAssumption DEF BufIdx
      <3> QED  BY <3>1, NoMsgType DEF SyncedSlot, Retransmitted
    <2>3. StoredIsNewest'
      <3>1. \A q \in Procs : buf'[q] = IF q = p THEN synced ELSE buf[q]
        BY <2>1 DEF IInv, TypeOK
      <3> HIDE DEF synced, out
      <3> QED  BY <1>1, <2>2, <3>1 DEF OrderInv, StoredIsNewest, Occupied
    <2>4. ASSUME NEW d \in Procs
          PROVE  /\ Len(out[d]) <= 1
                 /\ \A j \in DOMAIN out[d] : out[d][j].id # 0 => out[d][j].seq = Len(log[p])
      <3> DEFINE due == DueFor(p, d)
      <3>1. due \subseteq {0}
        BY DueIsFirst DEF DueFor, IInv, BufferInv
      <3>2. /\ out[d] = [k \in 1 .. Cardinality(due) |-> Packet(buf[p][Nth(due, k)])]
            /\ Cardinality(due) \in {0, 1}
        BY <3>1, AtMostFirstSlot DEF DueOutput
      <3>3. Len(out[d]) = Cardinality(due)
        <4>1. out[d] \in Seq(Wire)
          BY DueOutputType DEF IInv, BufferInv, OutType
        <4>2. DOMAIN out[d] = 1 .. Cardinality(due)  BY <3>2
        <4> HIDE DEF out, due
        <4> QED  BY <3>2, <4>1, <4>2
      <3>4. ASSUME NEW j \in DOMAIN out[d], out[d][j].id # 0
            PROVE  out[d][j].seq = Len(log[p])
        <4>1. j \in 1 .. Cardinality(due) /\ out[d][j] = Packet(buf[p][Nth(due, j)])
          BY <3>2
        <4>2. due = {0} /\ j = 1
          BY <3>1, <4>1, AtMostFirstSlot
        <4>3. Nth(due, j) = 0
          <5>1. {i \in due : i <= 0} = {0}  BY <4>2
          <5>2. Cardinality({i \in due : i <= 0}) = 1  BY <5>1, FS_Singleton
          <5> QED  BY <4>2, <5>2 DEF Nth
        <4>4. out[d][j].id = buf[p][0].id /\ out[d][j].seq = buf[p][0].seq
          BY <4>1, <4>3 DEF Packet
        <4> HIDE DEF out, due
        <4> QED  BY <3>4, <4>4 DEF OrderInv, StoredIsNewest, Occupied
      <3> HIDE DEF out, due
      <3> QED  BY <3>2, <3>3, <3>4
    <2>5. out \in OutType
      BY DueOutputType DEF IInv, BufferInv
    <2> HIDE DEF out
    <2>6. ASSUME NEW b \in Procs
          PROVE  /\ \A k \in DOMAIN chan[p][b] : chan[p][b][k].id # 0 =>
                       chan[p][b][k].seq <= Len(log[p])
                 /\ \A k \in DOMAIN dispatched[b] : dispatched[b][k][1] = p =>
                       dispatched[b][k][2] <= Len(log[p])
      BY <1>2, NewestBounds
    <2>7. Ordered(chan') /\ HandledBefore(chan', dispatched)
      <3>1. Ordered(Put(chan, p, out)) /\ HandledBefore(Put(chan, p, out), dispatched)
        BY <1>2, <2>4, <2>5, <2>6, PutOrder
      <3> QED  BY <2>1, <3>1
    <2> QED  BY <1>1, <2>3, <2>7, SilentOrder
  <1> QED  BY <1>3, <1>4

LEMMA RosterOrder ==
    ASSUME IInv, DedupInv, OrderInv, NEW p \in Procs, NEW i \in Slots, RosterChange(p, i)
    PROVE  OrderInv'
  <1>1. UNCHANGED <<buf, chan, dispatched>>
    BY DEF RosterChange
  <1>2. \A r \in Procs : Len(log'[r]) = Len(log[r])
    <2>1. CASE UNCHANGED log
      BY <2>1
    <2>2. ASSUME NEW q \in Procs, PlayerJoins(p, i, q)
          PROVE  \A r \in Procs : Len(log'[r]) = Len(log[r])
      <3>1. log \in [Procs -> Seq(Entry)]  BY DEF IInv, TypeOK
      <3> DEFINE entry(n) == IF \E s \in BufIdx : /\ buf[p][s].id # 0 /\ buf[p][s].seq = n
                                                  /\ i \in buf[p][s].mask
                             THEN [id |-> log[p][n].id, to |-> log[p][n].to \cup {q}]
                             ELSE log[p][n]
                 entries == [n \in DOMAIN log[p] |-> entry(n)]
      <3>2. log' = [log EXCEPT ![p] = entries]
        BY <2>2 DEF PlayerJoins
      <3> HIDE DEF entry
      <3>3. Len(entries) = Len(log[p])
        <4>1. log[p] \in Seq(Entry)  BY <3>1
        <4>2. DOMAIN log[p] = 1 .. Len(log[p]) /\ Len(log[p]) \in Nat  BY <4>1
        <4> QED  BY <4>2
      <3> HIDE DEF entries
      <3> QED  BY <3>1, <3>2, <3>3
    <2> QED  BY <2>1, <2>2 DEF RosterChange, PlayerLeaves
  <1>3. StoredIsNewest'
    BY <1>1, <1>2 DEF OrderInv, StoredIsNewest, Occupied
  <1>4. Ordered(chan') /\ HandledBefore(chan', dispatched)
    BY <1>1 DEF OrderInv
  <1> QED  BY <1>1, <1>3, <1>4, SilentOrder

LEMMA InitOrder == Init => OrderInv
  <1> SUFFICES ASSUME Init PROVE OrderInv
    OBVIOUS
  <1>1. 0 \in BufIdx  BY SizesAssumption DEF BufIdx
  <1> QED
    BY <1>1, NoMsgType
    DEF Init, OrderInv, Ordered, HandledBefore, StoredIsNewest, Occupied, InOrder

LEMMA NextOrder ==
    ASSUME ~Reorder, IInv, DedupInv, DedupInv', OrderInv, [Next]_vars
    PROVE  OrderInv'
  <1>1. \A p, q \in Procs : \A n \in Ready(p, q) : n = 1 /\ 1 \in 1 .. Len(chan[p][q])
    <2> SUFFICES ASSUME NEW p \in Procs, NEW q \in Procs, NEW n \in Ready(p, q)
                 PROVE  n = 1 /\ 1 \in 1 .. Len(chan[p][q])
      OBVIOUS
    <2>1. chan[p][q] \in Seq(Wire)  BY DEF IInv, TypeOK
    <2>2. n = 1 /\ Len(chan[p][q]) > 0  BY DEF Ready
    <2> QED  BY <2>1, <2>2
  <1>2. CASE \E p \in Procs : Send(p)
    BY <1>2, SendOrder DEF Send
  <1>3. CASE \E q \in Procs : Recv(q)
    BY <1>1, <1>3, ReceiveOrder DEF Recv, DedupInv
  <1>4. CASE \E p \in Procs : EndFrame(p)
    BY <1>4, EndFrameOrder
  <1>5. CASE Loss
    BY <1>1, <1>5, LoseOrder DEF Loss
  <1>6. CASE Roster
    BY <1>6, RosterOrder DEF Roster
  <1>7. CASE UNCHANGED vars
    BY <1>7 DEF vars, OrderInv, Ordered, HandledBefore, StoredIsNewest, Occupied, InOrder
  <1> QED  BY <1>2, <1>3, <1>4, <1>5, <1>6, <1>7 DEF Next

\* Over a transport that loses and repeats packets but does not overtake, the
\* reliable messages of a sender are handled in the order they were sent, also
\* while some are retransmitted and others given up, and when ids wrap around.
THEOREM HandledInOrder == ASSUME ~Reorder PROVE Spec => []InOrder
  <1>1. Init => DedupInv /\ OrderInv  BY InitDedup, InitOrder
  <1>2. IInv /\ DedupInv /\ OrderInv /\ [Next]_vars => DedupInv' /\ OrderInv'
    BY NextDedup, NextOrder
  <1>3. OrderInv => InOrder  BY DEF OrderInv
  <1> QED  BY <1>1, <1>2, <1>3, Invariance, PTL DEF Spec

-----------------------------------------------------------------------------
(* Who handles a message: the layer implements ReliableCast. *)

\* message n of p is for q
For(lg, p, n, q) == n \in DOMAIN lg[p] /\ q \in lg[p][n].to

\* nothing is removed from a history, and no message loses an addressee
Widens(lg1, lg2) == \A p \in Procs : \A n \in DOMAIN lg1[p] :
    n \in DOMAIN lg2[p] /\ lg1[p][n].to \subseteq lg2[p][n].to

\* A reliable packet travels only to a process its message is for.
WireFor(ch, lg) == \A p, q \in Procs : \A k \in DOMAIN ch[p][q] :
    ch[p][q][k].id # 0 => For(lg, p, ch[p][q][k].seq, q)

\* So will its retransmissions: whoever sits in a slot a stored message waits
\* for, the message is for him, also when he took the slot over.
MaskFor(m, p, pl, lg) == \A j \in m.mask :
    pl[p][j].id \in {ALLPLAYERS, p} \/ For(lg, p, m.seq, pl[p][j].id)
StoredFor == \A p \in Procs : \A i \in BufIdx :
    Occupied(p, i) => MaskFor(buf[p][i], p, players, log)

\* The inductive invariant behind ImplementsCast, with IInv and DedupInv.
CastInv == WireFor(chan, log) /\ StoredFor

LEMMA WidensWire ==
    ASSUME NEW ch, NEW lg1, NEW lg2, Widens(lg1, lg2), WireFor(ch, lg1)
    PROVE  WireFor(ch, lg2)
  BY DEF WireFor, Widens, For

LEMMA WidensMask ==
    ASSUME NEW lg1, NEW lg2, Widens(lg1, lg2), NEW p \in Procs, NEW pl, NEW m,
           MaskFor(m, p, pl, lg1)
    PROVE  MaskFor(m, p, pl, lg2)
  BY DEF MaskFor, Widens, For

LEMMA PutFor ==
    ASSUME NEW ch \in ChanType, NEW p \in Procs, NEW out \in OutType, NEW lg,
           WireFor(ch, lg),
           \A b \in Procs \ {p} : \A j \in DOMAIN out[b] :
              out[b][j].id # 0 => For(lg, p, out[b][j].seq, b)
    PROVE  WireFor(Put(ch, p, out), lg)
  BY PutElements DEF WireFor

LEMMA PutUnreliable ==
    ASSUME NEW ch \in ChanType, NEW p \in Procs, NEW pkt \in Wire, pkt.id = 0, NEW dests,
           NEW lg, WireFor(ch, lg)
    PROVE  WireFor(Put(ch, p, Each(pkt, dests)), lg)
  <1> DEFINE out == Each(pkt, dests)
  <1>1. out \in OutType  BY EachType
  <1>2. \A b \in Procs : \A j \in DOMAIN out[b] : out[b][j].id = 0
    BY DEF Each
  <1> HIDE DEF out
  <1>3. WireFor(Put(ch, p, out), lg)
    BY <1>1, <1>2, PutFor
  <1> QED  BY <1>3 DEF out

\* A step that keeps the buffer and the player list keeps what is stored for
\* whom; the history may grow.
LEMMA StoredForFrame ==
    ASSUME StoredFor, Widens(log, log'), UNCHANGED <<buf, players>>
    PROVE  StoredFor'
  BY WidensMask DEF StoredFor, Occupied

LEMMA SendReliableFor ==
    ASSUME CastInv, IInv, NEW p \in Procs, NEW kind \in Kinds \cup {QuitKind}, NEW a2,
           NEW ch \in ChanType, WireFor(ch, log), SendReliable(p, kind, a2, ch),
           UNCHANGED players
    PROVE  CastInv'
  <1> DEFINE v9 == IF msgId[p] = 0 THEN 1 ELSE msgId[p]
             mask == AckMask(p, a2)
             seq == Len(log[p]) + 1
             m == [id |-> v9, kind |-> kind, seq |-> seq, mask |-> mask,
                   timeMs |-> curMs[p], timeMs2 |-> curMs[p], retry |-> 0]
             e == [id |-> v9, to |-> Addressees(p, a2)]
  <1>1. v9 \in Ids /\ 0 \in Ids
    BY SizesAssumption DEF IInv, TypeOK, Ids
  <1>2. log \in [Procs -> Seq(Entry)] /\ seq \in Nat
    BY DEF IInv, TypeOK
  <1>3. CASE mask = {}
    <2>1. chan' = Put(ch, p, Each(Unreliable(kind), Targets(p, a2)))
          /\ UNCHANGED <<buf, pending, log>>
      BY <1>3 DEF SendReliable
    <2>2. Unreliable(kind) \in Wire /\ Unreliable(kind).id = 0
      BY <1>1, PacketType DEF Unreliable
    <2>3. WireFor(chan', log')
      BY <2>1, <2>2, PutUnreliable
    <2>4. StoredFor'
      BY <2>1 DEF CastInv, StoredFor, Occupied
    <2> QED  BY <2>3, <2>4 DEF CastInv
  <1>4. CASE mask # {}
    <2>1. /\ FreeSlot(buf[p]) # NumBuf
          /\ StoreSlot(buf[p], curMs[p]) = 0
      BY StoreSlotIsFirst DEF IInv, BufferInv
    <2>2. 0 \in BufIdx  BY SizesAssumption DEF BufIdx
    <2>3. buf' = [buf EXCEPT ![p][0] = m] /\ log' = [log EXCEPT ![p] = Append(@, e)]
      BY <1>4, <2>1 DEF SendReliable
    <2>4. chan' = Put(ch, p, SendOutput(p, Packet(m), a2))
      BY <1>4 DEF SendReliable
    <2>5. Packet(m) \in Wire /\ Packet(m).seq = seq
      BY <1>1, <1>2, PacketType DEF Packet
    <2>6. SendOutput(p, Packet(m), a2) = [d \in Procs |->
              Each(Packet(m), {})[d] \o Each(Packet(m), Targets(p, a2))[d]]
      BY <2>1 DEF SendOutput
    <2>7. m.seq = seq /\ m.mask = mask /\ e.to = Addressees(p, a2)
      OBVIOUS
    <2> HIDE DEF m, e, v9, seq
    <2>8. Widens(log, log') /\ seq \in DOMAIN log'[p] /\ log'[p][seq] = e
      <3>1. \A r \in Procs : log'[r] = IF r = p THEN Append(log[p], e) ELSE log[r]
        BY <1>2, <2>3
      <3>2. /\ \A n \in DOMAIN log[p] : n \in DOMAIN Append(log[p], e)
                                        /\ Append(log[p], e)[n] = log[p][n]
            /\ seq \in DOMAIN Append(log[p], e) /\ Append(log[p], e)[seq] = e
        BY <1>2 DEF seq
      <3> QED  BY <3>1, <3>2 DEF Widens
    <2> DEFINE pkt == Packet(m)
               out == SendOutput(p, pkt, a2)
    <2> HIDE DEF pkt
    <2>9. \A d \in Procs : out[d] = <<>> \/ (out[d] = <<pkt>> /\ d \in Targets(p, a2))
      BY <2>6 DEF Each, pkt
    <2>10. out \in OutType
      <3>1. pkt \in Wire  BY <2>5 DEF pkt
      <3>2. <<>> \in Seq(Wire) /\ <<pkt>> \in Seq(Wire)  BY <3>1
      <3>3. out = [d \in Procs |-> out[d]]  BY <2>6 DEF pkt
      <3> HIDE DEF out
      <3> QED  BY <2>9, <3>2, <3>3 DEF OutType
    <2>11. \A b \in Procs \ {p} : \A j \in DOMAIN out[b] : For(log', p, out[b][j].seq, b)
      <3> HIDE DEF out
      <3> SUFFICES ASSUME NEW b \in Procs \ {p}, NEW j \in DOMAIN out[b]
                   PROVE  For(log', p, out[b][j].seq, b)
        OBVIOUS
      <3>1. out[b][j] = pkt /\ b \in Targets(p, a2)
        BY <2>9
      <3>2. pkt.seq = seq  BY <2>5 DEF pkt
      <3>3. b \in e.to  BY <2>7, <3>1 DEF Addressees
      <3> QED  BY <2>8, <3>1, <3>2, <3>3 DEF For
    <2> HIDE DEF out
    <2>12. WireFor(chan', log')
      <3>1. WireFor(ch, log')  BY <2>8, WidensWire
      <3>2. WireFor(Put(ch, p, out), log')  BY <2>10, <2>11, <3>1, PutFor
      <3> QED  BY <2>4, <3>2 DEF out, pkt
    <2>13. MaskFor(m, p, players', log')
      <3> SUFFICES ASSUME NEW j \in m.mask PROVE For(log', p, m.seq, players'[p][j].id)
        BY DEF MaskFor
      <3>1. players'[p][j].id \in e.to  BY <2>7 DEF Addressees
      <3> QED  BY <2>7, <2>8, <3>1 DEF For
    <2>14. StoredFor'
      <3>1. /\ \A q \in Procs \ {p} : buf'[q] = buf[q]
            /\ \A i \in BufIdx \ {0} : buf'[p][i] = buf[p][i]
            /\ buf'[p][0] = m
        BY <2>2, <2>3 DEF IInv, TypeOK
      <3>2. \A q \in Procs : \A i \in BufIdx :
               Occupied(q, i) => MaskFor(buf[q][i], q, players', log')
        BY <2>8, WidensMask DEF CastInv, StoredFor
      <3> QED  BY <2>13, <3>1, <3>2 DEF StoredFor, Occupied
    <2> QED  BY <2>12, <2>14 DEF CastInv
  <1> QED  BY <1>3, <1>4

\* Handling a message only takes bits away from what is stored, and the welcome
\* only puts a process into its own list.
LEMMA DispatchFor ==
    ASSUME StoredFor, IInv, NEW q \in Procs, NEW from \in Procs, NEW pkt \in Wire,
           Dispatch(q, from, pkt), UNCHANGED log
    PROVE  StoredFor'
  <1>1. \A p \in Procs : \A j \in BufIdx :
          \/ buf'[p][j] = NoMsg
          \/ /\ buf'[p][j].id = buf[p][j].id /\ buf'[p][j].seq = buf[p][j].seq
             /\ buf'[p][j].mask \subseteq buf[p][j].mask
    <2>1. CASE UNCHANGED buf
      BY <2>1
    <2>2. CASE ~ UNCHANGED buf
      <3>1. ProcessAck(q, from, pkt)
        BY <2>2 DEF Dispatch
      <3>2. PICK i \in BufIdx :
              \/ buf' = [buf EXCEPT ![q][i] = NoMsg]
              \/ buf' = [buf EXCEPT ![q][i].mask = buf[q][i].mask \ SlotOf(q, from)]
        BY <2>2, <3>1 DEF ProcessAck, AckedSlot
      <3>3. buf \in [Procs -> [BufIdx -> Message]]
        BY DEF IInv, TypeOK
      <3>4. buf[q][i] \in Message  BY <3>3
      <3> DEFINE left == [buf[q][i] EXCEPT !.mask = buf[q][i].mask \ SlotOf(q, from)]
      <3>5. left.id = buf[q][i].id /\ left.seq = buf[q][i].seq
            /\ left.mask \subseteq buf[q][i].mask
        BY <3>4 DEF Message
      <3>6. \/ buf' = [buf EXCEPT ![q][i] = NoMsg]
            \/ buf' = [buf EXCEPT ![q][i] = left]
        BY <3>2
      <3> HIDE DEF left
      <3> QED  BY <3>3, <3>5, <3>6
    <2> QED  BY <2>1, <2>2
  <1>2. \A p \in Procs : \A j \in Slots : players'[p][j].id \in {players[p][j].id, p}
    <2>1. \/ UNCHANGED players
          \/ players' = [players EXCEPT ![q][Home[q]] = [id |-> q, joined |-> TRUE]]
      BY DEF Dispatch, ProcessWelcome
    <2>2. players \in [Procs -> [Slots -> Player]] /\ Home[q] \in Slots
      BY ProcsAssumption DEF IInv, TypeOK
    <2> DEFINE x == [id |-> q, joined |-> TRUE]
    <2>3. x.id = q  OBVIOUS
    <2>4. UNCHANGED players \/ players' = [players EXCEPT ![q][Home[q]] = x]
      BY <2>1
    <2> HIDE DEF x
    <2> QED  BY <2>2, <2>3, <2>4
  <1> SUFFICES ASSUME NEW p \in Procs, NEW i \in BufIdx, buf'[p][i].id # 0
               PROVE  MaskFor(buf'[p][i], p, players', log')
    BY DEF StoredFor, Occupied
  <1>3. /\ buf'[p][i].id = buf[p][i].id /\ buf'[p][i].seq = buf[p][i].seq
        /\ buf'[p][i].mask \subseteq buf[p][i].mask
    BY <1>1, NoMsgType
  <1>4. buf[p][i].mask \subseteq Slots
    <2>1. buf[p][i] \in Message  BY DEF IInv, TypeOK
    <2> QED  BY <2>1 DEF Message
  <1>5. MaskFor(buf[p][i], p, players, log)
    BY <1>3 DEF StoredFor, Occupied
  <1> SUFFICES ASSUME NEW j \in buf'[p][i].mask
               PROVE  \/ players'[p][j].id \in {ALLPLAYERS, p}
                      \/ For(log', p, buf'[p][i].seq, players'[p][j].id)
    BY DEF MaskFor
  <1>6. players'[p][j].id = p \/ players'[p][j].id = players[p][j].id
    BY <1>2, <1>3, <1>4
  <1>7. players[p][j].id \in {ALLPLAYERS, p} \/ For(log, p, buf[p][i].seq, players[p][j].id)
    BY <1>3, <1>5 DEF MaskFor
  <1> QED  BY <1>3, <1>6, <1>7

LEMMA AcceptFor ==
    ASSUME CastInv, IInv, NEW q \in Procs, NEW from \in Procs, NEW pkt \in Wire,
           NEW ch \in ChanType, WireFor(ch, log), Accept(q, from, pkt, ch)
    PROVE  CastInv'
  <1>1. UNCHANGED log
    BY DEF Accept
  <1>2. CASE pkt.id = 0
    <2>1. Dispatch(q, from, pkt) /\ chan' = ch
      BY <1>2 DEF Accept
    <2> QED  BY <1>1, <2>1, DispatchFor DEF CastInv
  <1>3. CASE pkt.id # 0
    <2>1. chan' = Put(ch, q, Each(AckPacket(pkt.id), {from}))
      BY <1>3 DEF Accept
    <2>2. AckPacket(pkt.id) \in Wire /\ AckPacket(pkt.id).id = 0
      <3>1. pkt.id \in Ids  BY DEF Wire
      <3> QED  BY <1>3, <3>1, AckType DEF AckPacket
    <2>3. WireFor(chan', log')
      BY <1>1, <2>1, <2>2, PutUnreliable
    <2>4. CASE Seen(q, from, pkt.id)
      <3>1. UNCHANGED <<buf, players>>
        BY <1>3, <2>4 DEF Accept
      <3>2. StoredFor'
        BY <1>1, <3>1 DEF CastInv, StoredFor, Occupied
      <3> QED  BY <2>3, <3>2 DEF CastInv
    <2>5. CASE ~Seen(q, from, pkt.id)
      <3>1. Dispatch(q, from, pkt)
        BY <1>3, <2>5 DEF Accept
      <3> QED  BY <1>1, <2>3, <3>1, DispatchFor DEF CastInv
    <2> QED  BY <2>4, <2>5
  <1> QED  BY <1>2, <1>3

\* Taking a packet off a channel addresses nothing anew.
LEMMA CutFor ==
    ASSUME NEW p \in Procs, NEW q \in Procs, chan \in ChanType, WireFor(chan, log),
           NEW n \in 1 .. Len(chan[p][q])
    PROVE  WireFor([chan EXCEPT ![p][q] =
                      SubSeq(@, 1, n - 1) \o SubSeq(@, n + 1, Len(@))], log)
  <1>1. \A ch : Among(ch, chan) => WireFor(ch, log)
    BY DEF Among, WireFor
  <1> QED  BY <1>1, CutAmong

LEMMA SendFor ==
    ASSUME CastInv, IInv, NEW p \in Procs, NEW kind \in Kinds, NEW a2, NEW reliable,
           SendMsgToPlayer(p, kind, a2, reliable)
    PROVE  CastInv'
  <1>1. chan \in ChanType /\ WireFor(chan, log)
    BY DEF IInv, TypeOK, ChanType, CastInv
  <1>2. UNCHANGED players
    BY DEF SendMsgToPlayer
  <1>3. CASE reliable
    <2>1. SendReliable(p, kind, a2, chan)
      BY <1>3 DEF SendMsgToPlayer
    <2> QED  BY <1>1, <1>2, <2>1, SendReliableFor
  <1>4. CASE ~reliable
    <2>1. /\ chan' = Put(chan, p, Each(Unreliable(kind), Targets(p, a2)))
          /\ UNCHANGED <<buf, log>>
      BY <1>4 DEF SendMsgToPlayer, SendUnreliable
    <2>2. Unreliable(kind) \in Wire /\ Unreliable(kind).id = 0
      BY SizesAssumption, PacketType DEF Unreliable, Ids
    <2>3. WireFor(chan', log')
      BY <1>1, <2>1, <2>2, PutUnreliable
    <2>4. StoredFor'
      BY <1>2, <2>1 DEF CastInv, StoredFor, Occupied
    <2> QED  BY <2>3, <2>4 DEF CastInv
  <1> QED  BY <1>3, <1>4

LEMMA ReceiveFor ==
    ASSUME CastInv, IInv, NEW p \in Procs, NEW q \in Procs,
           NEW n \in 1 .. Len(chan[p][q]), NEW keep, Receive(q, p, n, keep)
    PROVE  CastInv'
  <1> DEFINE pkt == chan[p][q][n]
             cut == [chan EXCEPT ![p][q] =
                       SubSeq(@, 1, n - 1) \o SubSeq(@, n + 1, Len(@))]
             rest == IF keep THEN chan ELSE cut
  <1>1. chan \in ChanType /\ WireFor(chan, log)
    BY DEF IInv, TypeOK, ChanType, CastInv
  <1>2. pkt \in Wire
    BY <1>1 DEF ChanType
  <1>3. rest \in ChanType /\ WireFor(rest, log)
    BY <1>1, CutChanType, CutFor
  <1>4. Accept(q, p, pkt, rest) \/ Refuse(q, p, rest)
    BY DEF Receive
  <1> HIDE DEF pkt, rest
  <1>5. CASE Accept(q, p, pkt, rest)
    BY <1>2, <1>3, <1>5, AcceptFor
  <1>6. CASE Refuse(q, p, rest)
    <2>1. UNCHANGED players
      BY <1>6 DEF Refuse
    <2>2. CASE q = Host
      <3>1. SendReliable(q, QuitKind, p, rest)
        BY <1>6, <2>2 DEF Refuse
      <3> QED  BY <1>3, <2>1, <3>1, SendReliableFor
    <2>3. CASE q # Host
      <3>1. chan' = rest /\ UNCHANGED <<buf, log>>
        BY <1>6, <2>3 DEF Refuse
      <3>2. StoredFor'
        BY <2>1, <3>1 DEF CastInv, StoredFor, Occupied
      <3> QED  BY <1>3, <3>1, <3>2 DEF CastInv
    <2> QED  BY <2>2, <2>3
  <1> QED  BY <1>4, <1>5, <1>6

LEMMA LoseFor ==
    ASSUME CastInv, IInv, NEW p \in Procs, NEW q \in Procs,
           NEW n \in 1 .. Len(chan[p][q]), Lose(p, q, n)
    PROVE  CastInv'
  <1>1. WireFor(chan', log')
    BY CutFor DEF IInv, TypeOK, ChanType, CastInv, Lose
  <1>2. StoredFor'
    BY DEF Lose, CastInv, StoredFor, Occupied
  <1> QED  BY <1>1, <1>2 DEF CastInv

\* A retransmission goes to the players the stored message still waits for.
LEMMA EndFrameFor ==
    ASSUME CastInv, IInv, NEW p \in Procs, EndFrame(p)
    PROVE  CastInv'
  <1>1. UNCHANGED <<players, log>>
    BY DEF EndFrame
  <1>2. chan \in ChanType /\ WireFor(chan, log)
    BY DEF IInv, TypeOK, ChanType, CastInv
  <1>3. CASE pending[p] = 0
    <2>1. UNCHANGED <<buf, chan>>
      BY <1>3 DEF EndFrame, SyncWithPlayers
    <2>2. StoredFor'
      BY <1>1, <2>1 DEF CastInv, StoredFor, Occupied
    <2> QED  BY <1>1, <1>2, <2>1, <2>2 DEF CastInv
  <1>4. CASE pending[p] # 0
    <2> DEFINE synced == [i \in BufIdx |-> SyncedSlot(p, i)]
    <2>1. buf' = [buf EXCEPT ![p] = synced] /\ chan' = Put(chan, p, DueOutput(p))
      BY <1>4 DEF EndFrame, SyncWithPlayers
    <2>2. ASSUME NEW i \in BufIdx, synced[i].id # 0
          PROVE  /\ synced[i].id = buf[p][i].id /\ synced[i].seq = buf[p][i].seq
                 /\ synced[i].mask \subseteq buf[p][i].mask
      BY <2>2, NoMsgType DEF SyncedSlot, Retransmitted
    <2>3. StoredFor'
      <3>1. \A q \in Procs : buf'[q] = IF q = p THEN synced ELSE buf[q]
        BY <2>1 DEF IInv, TypeOK
      <3> HIDE DEF synced
      <3>2. ASSUME NEW i \in BufIdx, synced[i].id # 0
            PROVE  MaskFor(synced[i], p, players', log')
        <4>1. MaskFor(buf[p][i], p, players, log)
          BY <2>2, <3>2 DEF CastInv, StoredFor, Occupied
        <4> QED  BY <1>1, <2>2, <3>2, <4>1 DEF MaskFor
      <3> QED  BY <1>1, <3>1, <3>2 DEF CastInv, StoredFor, Occupied
    <2>4. ASSUME NEW d \in Procs \ {p}, NEW k \in DOMAIN DueOutput(p)[d]
          PROVE  For(log, p, DueOutput(p)[d][k].seq, d)
      <3> DEFINE due == DueFor(p, d)
                 i == Nth(due, k)
      <3>1. due \subseteq {0}
        BY DueIsFirst DEF DueFor, IInv, BufferInv
      <3>2. k \in 1 .. Cardinality(due) /\ DueOutput(p)[d][k] = Packet(buf[p][i])
        BY <2>4 DEF DueOutput
      <3>3. due = {0} /\ k = 1
        BY <3>1, <3>2, AtMostFirstSlot
      <3>4. i = 0 /\ 0 \in BufIdx
        <4>1. {j \in due : j <= 0} = {0}  BY <3>3
        <4>2. Cardinality({j \in due : j <= 0}) = 1  BY <4>1, FS_Singleton
        <4> QED  BY <3>3, <4>2, SizesAssumption DEF Nth, BufIdx
      <3>5. Occupied(p, 0) /\ d \in ResendDests(p, buf[p][0])
        BY <3>3 DEF DueFor, Due, Occupied
      <3>6. PICK j \in buf[p][0].mask : d = players[p][j].id /\ d # ALLPLAYERS
        BY <3>5 DEF ResendDests
      <3>7. For(log, p, buf[p][0].seq, d)
        BY <3>4, <3>5, <3>6 DEF CastInv, StoredFor, MaskFor
      <3>8. DueOutput(p)[d][k].seq = buf[p][0].seq
        BY <3>2, <3>4 DEF Packet
      <3> QED  BY <3>7, <3>8
    <2>5. WireFor(chan', log')
      <3>1. DueOutput(p) \in OutType
        BY DueOutputType DEF IInv, BufferInv
      <3> QED  BY <1>1, <1>2, <2>1, <2>4, <3>1, PutFor
    <2> QED  BY <2>3, <2>5 DEF CastInv
  <1> QED  BY <1>3, <1>4

\* A newcomer inherits what his slot still waits for.
LEMMA RosterFor ==
    ASSUME CastInv, DedupInv, IInv, NEW p \in Procs, NEW i \in Slots, RosterChange(p, i)
    PROVE  CastInv'
  <1>1. UNCHANGED <<buf, chan>>
    BY DEF RosterChange
  <1>2. /\ players \in [Procs -> [Slots -> Player]] /\ log \in [Procs -> Seq(Entry)]
        /\ \A r \in Procs : \A s \in BufIdx : buf[r][s].mask \subseteq Slots
    BY DEF IInv, TypeOK, Message
  <1>3. CASE PlayerLeaves(p, i)
    <2> DEFINE x == [id |-> ALLPLAYERS, joined |-> FALSE]
    <2>1. UNCHANGED log /\ players' = [players EXCEPT ![p][i] = x]
      BY <1>3 DEF PlayerLeaves
    <2>2. x.id = ALLPLAYERS  OBVIOUS
    <2> HIDE DEF x
    <2>3. \A r \in Procs : \A j \in Slots : players'[r][j].id \in {players[r][j].id, ALLPLAYERS}
      BY <1>2, <2>1, <2>2
    <2>4. ASSUME NEW r \in Procs, NEW s \in BufIdx, Occupied(r, s)
          PROVE  MaskFor(buf[r][s], r, players', log)
      <3>1. MaskFor(buf[r][s], r, players, log)
        BY <2>4 DEF CastInv, StoredFor
      <3> QED  BY <1>2, <2>3, <3>1 DEF MaskFor
    <2>5. StoredFor'
      BY <1>1, <2>1, <2>4 DEF StoredFor, Occupied
    <2> QED  BY <1>1, <2>1, <2>5 DEF CastInv
  <1>4. ASSUME NEW q \in Procs, PlayerJoins(p, i, q)
        PROVE  CastInv'
    <2> DEFINE x == [id |-> q, joined |-> TRUE]
               Waits(n) == \E s \in BufIdx : /\ buf[p][s].id # 0 /\ buf[p][s].seq = n
                                             /\ i \in buf[p][s].mask
               entry(n) == IF Waits(n) THEN [id |-> log[p][n].id, to |-> log[p][n].to \cup {q}]
                           ELSE log[p][n]
               entries == [n \in DOMAIN log[p] |-> entry(n)]
    <2>1. players' = [players EXCEPT ![p][i] = x] /\ log' = [log EXCEPT ![p] = entries]
      BY <1>4 DEF PlayerJoins
    <2>2. x.id = q  OBVIOUS
    <2>3. \A n : /\ log[p][n].to \subseteq entry(n).to
                 /\ Waits(n) => q \in entry(n).to
      <3> HIDE DEF Waits
      <3> QED  OBVIOUS
    <2>4. \A s \in BufIdx : Occupied(p, s) /\ i \in buf[p][s].mask => Waits(buf[p][s].seq)
      BY DEF Occupied
    <2> HIDE DEF x, Waits, entry
    <2>5. \A r \in Procs : log'[r] = IF r = p THEN entries ELSE log[r]
      <3> HIDE DEF entries
      <3> QED  BY <1>2, <2>1
    <2>6. Widens(log, log')
      BY <2>3, <2>5 DEF Widens
    <2>7. \A r \in Procs : \A j \in Slots :
             players'[r][j] = IF r = p /\ j = i THEN x ELSE players[r][j]
      <3> HIDE DEF entries
      <3> QED  BY <1>2, <2>1
    <2>8. ASSUME NEW r \in Procs, NEW s \in BufIdx, Occupied(r, s)
          PROVE  MaskFor(buf[r][s], r, players', log')
      <3>1. MaskFor(buf[r][s], r, players, log')
        BY <2>6, <2>8, WidensMask DEF CastInv, StoredFor
      <3>2. buf[r][s].seq \in DOMAIN log[r]
        BY <2>8 DEF DedupInv, StoredKnown, Known
      <3> SUFFICES ASSUME NEW j \in buf[r][s].mask
                   PROVE  \/ players'[r][j].id \in {ALLPLAYERS, r}
                          \/ For(log', r, buf[r][s].seq, players'[r][j].id)
        BY DEF MaskFor
      <3>3. CASE r = p /\ j = i
        <4>1. players'[r][j].id = q  BY <1>2, <2>2, <2>7, <3>3
        <4>2. Waits(buf[r][s].seq)  BY <2>4, <2>8, <3>3
        <4>3. log'[r][buf[r][s].seq] = entry(buf[r][s].seq) /\ buf[r][s].seq \in DOMAIN log'[r]
          BY <2>5, <3>2, <3>3
        <4>4. q \in entry(buf[r][s].seq).to  BY <2>3, <4>2
        <4>5. For(log', r, buf[r][s].seq, q)
          BY <4>3, <4>4 DEF For
        <4> QED  BY <4>1, <4>5
      <3>4. CASE ~(r = p /\ j = i)
        <4>1. players'[r][j] = players[r][j]  BY <1>2, <2>7, <3>4
        <4> QED  BY <3>1, <4>1 DEF MaskFor
      <3> QED  BY <3>3, <3>4
    <2>9. StoredFor'
      BY <1>1, <2>8 DEF StoredFor, Occupied
    <2>10. WireFor(chan', log')
      BY <1>1, <2>6, WidensWire DEF CastInv
    <2> QED  BY <2>9, <2>10 DEF CastInv
  <1> QED  BY <1>3, <1>4 DEF RosterChange

LEMMA InitFor == Init => CastInv
  BY NoMsgType DEF Init, CastInv, WireFor, StoredFor, Occupied

LEMMA NextFor == IInv /\ DedupInv /\ CastInv /\ [Next]_vars => CastInv'
  <1> SUFFICES ASSUME IInv, DedupInv, CastInv, [Next]_vars PROVE CastInv'
    OBVIOUS
  <1>1. \A p, q \in Procs : \A n \in Ready(p, q) : n \in 1 .. Len(chan[p][q])
    BY DEF Ready, IInv, TypeOK
  <1>2. CASE \E p \in Procs : Send(p)
    BY <1>2, SendFor DEF Send
  <1>3. CASE \E q \in Procs : Recv(q)
    BY <1>1, <1>3, ReceiveFor DEF Recv
  <1>4. CASE \E p \in Procs : EndFrame(p)
    BY <1>4, EndFrameFor
  <1>5. CASE Loss
    BY <1>1, <1>5, LoseFor DEF Loss
  <1>6. CASE Roster
    BY <1>6, RosterFor DEF Roster
  <1>7. CASE UNCHANGED vars
    BY <1>7 DEF vars, CastInv, WireFor, StoredFor, Occupied
  <1> QED  BY <1>2, <1>3, <1>4, <1>5, <1>6, <1>7 DEF Next

\* A new entry of the history is a new audience.
LEMMA NewAudience ==
    ASSUME NEW s \in Seq(Entry), NEW e \in Entry
    PROVE  [n \in DOMAIN Append(s, e) |-> Append(s, e)[n].to \cap Procs]
              = Append([n \in DOMAIN s |-> s[n].to \cap Procs], e.to \cap Procs)
  <1> DEFINE t == [n \in 1 .. Len(s) |-> s[n].to \cap Procs]
             x == e.to \cap Procs
  <1>1. DOMAIN s = 1 .. Len(s) /\ Len(s) \in Nat
    OBVIOUS
  <1>2. t \in Seq(SUBSET Procs) /\ Len(t) = Len(s) /\ x \in SUBSET Procs
    BY <1>1
  <1>3. /\ DOMAIN Append(s, e) = 1 .. Len(s) + 1
        /\ \A n \in 1 .. Len(s) : Append(s, e)[n] = s[n]
        /\ Append(s, e)[Len(s) + 1] = e
    OBVIOUS
  <1>4. \A n \in 1 .. Len(s) : t[n] = s[n].to \cap Procs
    OBVIOUS
  <1> HIDE DEF t, x
  <1>5. Append(t, x) = [n \in 1 .. Len(s) + 1 |-> IF n = Len(s) + 1 THEN x ELSE t[n]]
    <2> DEFINE f == Append(t, x)
    <2>1. /\ f \in Seq(SUBSET Procs) /\ Len(f) = Len(s) + 1
          /\ \A n \in 1 .. Len(s) + 1 : f[n] = IF n = Len(s) + 1 THEN x ELSE t[n]
      BY <1>1, <1>2
    <2> HIDE DEF f
    <2>2. f = [n \in 1 .. Len(s) + 1 |-> f[n]]
      BY <2>1
    <2>3. f = [n \in 1 .. Len(s) + 1 |-> IF n = Len(s) + 1 THEN x ELSE t[n]]
      BY <2>1, <2>2
    <2> QED  BY <2>3 DEF f
  <1>6. ASSUME NEW n \in 1 .. Len(s) + 1
        PROVE  Append(s, e)[n].to \cap Procs = IF n = Len(s) + 1 THEN x ELSE t[n]
    <2>1. CASE n = Len(s) + 1  BY <1>3, <2>1 DEF x
    <2>2. CASE n # Len(s) + 1
      <3>1. n \in 1 .. Len(s)  BY <1>1, <2>2
      <3> QED  BY <1>3, <1>4, <2>2, <3>1
    <2> QED  BY <2>1, <2>2
  <1> QED  BY <1>1, <1>3, <1>5, <1>6 DEF t, x

\* A reliable message is cast to its addressees; one that waits for nobody is
\* sent unreliably and casts nothing.
LEMMA SendCasts ==
    ASSUME IInv, NEW p \in Procs, NEW kind \in Kinds \cup {QuitKind}, NEW a2 \in DestType,
           NEW ch, SendReliable(p, kind, a2, ch), UNCHANGED dispatched
    PROVE  [Abstract!Next]_<<Audience, dispatched>>
  <1> DEFINE v9 == IF msgId[p] = 0 THEN 1 ELSE msgId[p]
             e == [id |-> v9, to |-> Addressees(p, a2)]
             x == Addressees(p, a2) \cap Procs
  <1>1. CASE AckMask(p, a2) = {}
    <2>1. UNCHANGED log
      BY <1>1 DEF SendReliable
    <2> QED  BY <2>1 DEF Audience
  <1>2. CASE AckMask(p, a2) # {}
    <2>1. log' = [log EXCEPT ![p] = Append(@, e)]
      BY <1>2 DEF SendReliable
    <2>2. log \in [Procs -> Seq(Entry)]
      BY DEF IInv, TypeOK
    <2>3. e \in Entry /\ e.to = Addressees(p, a2)
      <3>1. v9 \in Ids
        BY SizesAssumption DEF IInv, TypeOK, Ids
      <3>2. Addressees(p, a2) \subseteq Procs \cup {ALLPLAYERS}
        BY AddresseesType DEF IInv
      <3> HIDE DEF v9
      <3> QED  BY <3>1, <3>2 DEF Entry
    <2> HIDE DEF e
    <2>4. \A r \in Procs : log'[r] = IF r = p THEN Append(log[p], e) ELSE log[r]
      BY <2>1, <2>2
    <2>5. Audience'[p] = Append(Audience[p], x)
      <3>1. [n \in DOMAIN Append(log[p], e) |-> Append(log[p], e)[n].to \cap Procs]
              = Append([n \in DOMAIN log[p] |-> log[p][n].to \cap Procs], e.to \cap Procs)
        BY <2>2, <2>3, NewAudience
      <3> QED  BY <2>3, <2>4, <3>1 DEF Audience
    <2>6. \A r \in Procs \ {p} : Audience'[r] = Audience[r]
      BY <2>4 DEF Audience
    <2>7. Audience' = [Audience EXCEPT ![p] = Append(@, x)]
      <3>1. Audience = [r \in Procs |-> Audience[r]] /\ Audience' = [r \in Procs |-> Audience'[r]]
        BY DEF Audience
      <3> HIDE DEF x
      <3> QED  BY <2>5, <2>6, <3>1
    <2>8. Abstract!Cast(p, x)
      BY <2>7 DEF Abstract!Cast
    <2>9. x \in SUBSET Procs
      OBVIOUS
    <2> QED  BY <2>8, <2>9 DEF Abstract!Next
  <1> QED  BY <1>1, <1>2

\* What the ring does not hold is not among the last NumPairs messages handled.
LEMMA UnseenIsNotRecent ==
    ASSUME DedupInv, IInv, NEW q \in Procs, NEW from \in Procs, NEW n, NEW id,
           Known(log, from, n, id), ~Seen(q, from, id)
    PROVE  <<from, n>> \notin Abstract!Recent(q)
  <1> DEFINE d == dispatched[q]
             c == cursor[q]
  <1> SUFFICES ASSUME NEW i \in DOMAIN d, i + NumPairs > Len(d), d[i] = <<from, n>>
               PROVE  FALSE
    BY DEF Abstract!Recent
  <1> DEFINE age == Len(d) - i
  <1>1. d \in Seq(Procs \X Nat) /\ c \in PairIdx
    BY DEF IInv, TypeOK
  <1>2. age \in Nat /\ age < NumPairs
    <2> HIDE DEF d
    <2>1. i \in 1 .. Len(d) /\ Len(d) \in Nat  BY <1>1
    <2> QED  BY <2>1, SizesAssumption
  <1>3. pairs[q][Place(c, age)] = PairOf(d[i])
    BY <1>2 DEF DedupInv, RingHolds
  <1>4. PairOf(d[i]) = [from |-> from, id |-> id]
    BY DEF PairOf, Known
  <1>5. Place(c, age) \in PairIdx
    <2> HIDE DEF age, c
    <2> QED  BY <1>1, <1>2, Places
  <1> HIDE DEF age, c, d
  <1> DEFINE k == Place(c, age)
  <1>6. k \in PairIdx /\ pairs[q][k] = [from |-> from, id |-> id]
    BY <1>3, <1>4, <1>5
  <1> HIDE DEF k
  <1> QED  BY <1>6 DEF Seen

\* Handling: of a message that came to the process it is for, and that is not
\* in the ring.
LEMMA AcceptHandles ==
    ASSUME DedupInv, IInv, NEW q \in Procs, NEW from \in Procs, NEW pkt \in Wire,
           pkt.id # 0 => /\ Known(log, from, pkt.seq, pkt.id)
                         /\ For(log, from, pkt.seq, q),
           NEW ch, Accept(q, from, pkt, ch)
    PROVE  [Abstract!Next]_<<Audience, dispatched>>
  <1>1. UNCHANGED log /\ Audience' = Audience
    BY DEF Accept, Audience
  <1>2. CASE pkt.id = 0
    <2>1. UNCHANGED dispatched
      BY <1>2 DEF Accept, Dispatch
    <2> QED  BY <1>1, <2>1
  <1>3. CASE pkt.id # 0 /\ Seen(q, from, pkt.id)
    <2>1. UNCHANGED dispatched
      BY <1>3 DEF Accept
    <2> QED  BY <1>1, <2>1
  <1>4. CASE pkt.id # 0 /\ ~Seen(q, from, pkt.id)
    <2> DEFINE n == pkt.seq
    <2>1. dispatched' = [dispatched EXCEPT ![q] = Append(@, <<from, n>>)]
      BY <1>4 DEF Accept, Dispatch
    <2>2. n \in DOMAIN Audience[from] /\ q \in Audience[from][n]
      BY <1>4 DEF Audience, For
    <2>3. <<from, n>> \notin Abstract!Recent(q)
      BY <1>4, UnseenIsNotRecent
    <2> HIDE DEF n
    <2>4. Abstract!Handle(q, from, n)
      BY <1>1, <2>1, <2>2, <2>3 DEF Abstract!Handle
    <2> QED  BY <2>2, <2>4 DEF Abstract!Next
  <1> QED  BY <1>2, <1>3, <1>4

LEMMA ReceiveHandles ==
    ASSUME CastInv, DedupInv, IInv, NEW p \in Procs, NEW q \in Procs,
           NEW n \in 1 .. Len(chan[p][q]), NEW keep, Receive(q, p, n, keep)
    PROVE  [Abstract!Next]_<<Audience, dispatched>>
  <1> DEFINE pkt == chan[p][q][n]
             rest == IF keep THEN chan ELSE
                     [chan EXCEPT ![p][q] =
                        SubSeq(@, 1, n - 1) \o SubSeq(@, n + 1, Len(@))]
  <1>1. chan \in ChanType
    BY DEF IInv, TypeOK, ChanType
  <1>2. pkt \in Wire /\ n \in DOMAIN chan[p][q]
    BY <1>1 DEF ChanType
  <1>3. pkt.id # 0 => Known(log, p, pkt.seq, pkt.id) /\ For(log, p, pkt.seq, q)
    BY <1>2 DEF DedupInv, WireKnown, CastInv, WireFor
  <1>4. Accept(q, p, pkt, rest) \/ Refuse(q, p, rest)
    BY DEF Receive
  <1> HIDE DEF pkt, rest
  <1>5. CASE Accept(q, p, pkt, rest)
    BY <1>2, <1>3, <1>5, AcceptHandles
  <1>6. CASE Refuse(q, p, rest)
    <2>1. UNCHANGED dispatched
      BY <1>6 DEF Refuse
    <2>2. CASE q = Host
      <3>1. SendReliable(q, QuitKind, p, rest) /\ p \in DestType
        BY <1>6, <2>2 DEF Refuse, DestType
      <3> QED  BY <2>1, <3>1, SendCasts
    <2>3. CASE q # Host
      <3>1. UNCHANGED log
        BY <1>6, <2>3 DEF Refuse
      <3> QED  BY <2>1, <3>1 DEF Audience
    <2> QED  BY <2>2, <2>3
  <1> QED  BY <1>4, <1>5, <1>6

\* A newcomer takes over what is waiting for his slot; nobody loses anything
\* when a player leaves.
LEMMA RosterTakesOver ==
    ASSUME IInv, NEW p \in Procs, NEW i \in Slots, RosterChange(p, i)
    PROVE  [Abstract!Next]_<<Audience, dispatched>>
  <1>1. UNCHANGED dispatched
    BY DEF RosterChange
  <1>2. CASE PlayerLeaves(p, i)
    <2>1. UNCHANGED log
      BY <1>2 DEF PlayerLeaves
    <2> QED  BY <1>1, <2>1 DEF Audience
  <1>3. ASSUME NEW q \in Procs, PlayerJoins(p, i, q)
        PROVE  [Abstract!Next]_<<Audience, dispatched>>
    <2> DEFINE Waits(n) == \E s \in BufIdx : /\ buf[p][s].id # 0 /\ buf[p][s].seq = n
                                             /\ i \in buf[p][s].mask
               entry(n) == IF Waits(n) THEN [id |-> log[p][n].id, to |-> log[p][n].to \cup {q}]
                           ELSE log[p][n]
               entries == [n \in DOMAIN log[p] |-> entry(n)]
               waiting == {n \in DOMAIN log[p] : Waits(n)}
               taken == [n \in DOMAIN Audience[p] |->
                           IF n \in waiting THEN Audience[p][n] \cup {q} ELSE Audience[p][n]]
    <2>1. log' = [log EXCEPT ![p] = entries]
      BY <1>3 DEF PlayerJoins
    <2>2. \A n : entry(n).to = IF Waits(n) THEN log[p][n].to \cup {q} ELSE log[p][n].to
      <3> HIDE DEF Waits
      <3> QED  OBVIOUS
    <2> HIDE DEF Waits, entry
    <2>3. \A r \in Procs : log'[r] = IF r = p THEN entries ELSE log[r]
      <3> HIDE DEF entries
      <3> QED  BY <2>1 DEF IInv, TypeOK
    <2>4. Audience[p] = [n \in DOMAIN log[p] |-> log[p][n].to \cap Procs]
      BY DEF Audience
    <2>5. Audience'[p] = taken
      <3>1. Audience'[p] = [n \in DOMAIN log[p] |-> entry(n).to \cap Procs]
        BY <2>3 DEF Audience
      <3>2. ASSUME NEW n \in DOMAIN log[p]
            PROVE  entry(n).to \cap Procs
                     = IF n \in waiting THEN Audience[p][n] \cup {q} ELSE Audience[p][n]
        BY <2>2, <2>4
      <3> HIDE DEF waiting
      <3> QED  BY <2>4, <3>1, <3>2
    <2>6. \A r \in Procs \ {p} : Audience'[r] = Audience[r]
      BY <2>3 DEF Audience
    <2>7. waiting \subseteq DOMAIN Audience[p]
      BY <2>4
    <2> HIDE DEF waiting
    <2>8. Audience' = [Audience EXCEPT ![p] = taken]
      <3>1. Audience = [r \in Procs |-> Audience[r]] /\ Audience' = [r \in Procs |-> Audience'[r]]
        BY DEF Audience
      <3> HIDE DEF taken
      <3> QED  BY <2>5, <2>6, <3>1
    <2>9. Abstract!TakeOver(p, q)
      BY <1>1, <2>7, <2>8 DEF Abstract!TakeOver
    <2> QED  BY <2>9 DEF Abstract!Next
  <1> QED  BY <1>2, <1>3 DEF RosterChange

LEMMA InitCasts == Init => Abstract!Init
  <1> SUFFICES ASSUME Init PROVE Abstract!Init
    OBVIOUS
  <1>1. \A p \in Procs : log[p] = <<>>
    BY DEF Init
  <1>2. \A p \in Procs : [n \in DOMAIN log[p] |-> log[p][n].to \cap Procs] = <<>>
    BY <1>1
  <1> QED  BY <1>2 DEF Init, Audience, Abstract!Init

\* Every step of sithComm is a step of the cast, or one the handlers cannot see.
LEMMA StepCasts ==
    IInv /\ DedupInv /\ CastInv /\ [Next]_vars => [Abstract!Next]_<<Audience, dispatched>>
  <1> SUFFICES ASSUME IInv, DedupInv, CastInv, [Next]_vars
               PROVE  [Abstract!Next]_<<Audience, dispatched>>
    OBVIOUS
  <1>1. \A p, q \in Procs : \A n \in Ready(p, q) : n \in 1 .. Len(chan[p][q])
    BY DEF Ready, IInv, TypeOK
  <1>2. ASSUME UNCHANGED <<log, dispatched>>
        PROVE  UNCHANGED <<Audience, dispatched>>
    BY <1>2 DEF Audience
  <1>3. ASSUME NEW p \in Procs, NEW kind \in Kinds, NEW a2 \in Dests \ {p}, NEW reliable,
               SendMsgToPlayer(p, kind, a2, reliable)
        PROVE  [Abstract!Next]_<<Audience, dispatched>>
    <2>1. UNCHANGED dispatched
      BY <1>3 DEF SendMsgToPlayer
    <2>2. CASE reliable
      <3>1. SendReliable(p, kind, a2, chan)
        BY <1>3, <2>2 DEF SendMsgToPlayer
      <3>2. a2 \in DestType  BY ProcsAssumption DEF DestType
      <3> QED  BY <2>1, <3>1, <3>2, SendCasts
    <2>3. CASE ~reliable
      <3>1. UNCHANGED log
        BY <1>3, <2>3 DEF SendMsgToPlayer, SendUnreliable
      <3> QED  BY <1>2, <2>1, <3>1
    <2> QED  BY <2>2, <2>3
  <1>4. CASE \E p \in Procs : Send(p)
    BY <1>3, <1>4 DEF Send
  <1>5. CASE \E q \in Procs : Recv(q)
    BY <1>1, <1>5, ReceiveHandles DEF Recv
  <1>6. CASE \E p \in Procs : EndFrame(p)
    BY <1>2, <1>6 DEF EndFrame
  <1>7. CASE Loss
    BY <1>2, <1>7 DEF Loss, Lose
  <1>8. CASE Roster
    BY <1>8, RosterTakesOver DEF Roster
  <1>9. CASE UNCHANGED vars
    BY <1>2, <1>9 DEF vars
  <1> QED  BY <1>4, <1>5, <1>6, <1>7, <1>8, <1>9 DEF Next

\* sithComm keeps the promise of ReliableCast: with the ids, the ring, the
\* acknowledgements, the retransmissions and a transport that loses, repeats and
\* reorders, while players come and go, a process handles only reliable messages
\* that are for it, or were waiting for the player whose slot it took, and none
\* of them again within the window of aMsgPairs.
THEOREM CommImplementsCast == Spec => ImplementsCast
  <1>1. Init => DedupInv /\ CastInv  BY InitDedup, InitFor
  <1>2. IInv /\ DedupInv /\ CastInv /\ [Next]_vars => DedupInv' /\ CastInv'
    BY NextDedup, NextFor
  <1> QED
    BY <1>1, <1>2, InitCasts, StepCasts, Invariance, PTL DEF Spec, ImplementsCast, Abstract!Spec

-----------------------------------------------------------------------------
(* What an acknowledgement says: the player whose bit it takes has handled    *)
(* the message.                                                               *)

\* No id is given to a second message: a process has sent fewer than IdSpan - 1
\* reliable ones.
NoIdComesBack == \A p \in Procs : \A n, k \in DOMAIN log[p] :
    log[p][n].id = log[p][k].id => n = k

\* Nobody sits twice in a player list, a process only in its own slot, and
\* nobody else there.
Seated(pl) == \A p \in Procs :
    /\ \A i, j \in Slots : pl[p][i].id = pl[p][j].id => i = j \/ pl[p][i].id = ALLPLAYERS
    /\ \A i \in Slots : pl[p][i].id = p => i = Home[p]
    /\ pl[p][Home[p]].id \in {p, ALLPLAYERS}

\* While a message for him is stored, a player does not come back to a slot that
\* it does not wait for, and nobody is put into the slot of the process itself.
NobodyReturns == \A p \in Procs : \A i \in Slots :
    players'[p][i].id \notin {players[p][i].id, ALLPLAYERS, p} =>
       /\ i # Home[p]
       /\ \A s \in BufIdx : Occupied(p, s) /\ i \notin buf[p][s].mask =>
             players'[p][i].id \notin log[p][buf[p][s].seq].to

\* q has handled message n of p, or some message of p with this id
HandledBy(d, q, p, n) == \E i \in DOMAIN d[q] : d[q][i] = <<p, n>>
HandledId(lg, d, q, p, id) ==
    \E n \in DOMAIN lg[p] : lg[p][n].id = id /\ HandledBy(d, q, p, n)

\* Whoever lost his bit in the stored message m of p has handled it.
Served(m, p, pl, lg, d) == \A j \in Slots \ m.mask :
    pl[p][j].id \in lg[p][m.seq].to \cap Procs => HandledBy(d, pl[p][j].id, p, m.seq)
StoredServed == \A p \in Procs : \A i \in BufIdx :
    Occupied(p, i) => Served(buf[p][i], p, players, log, dispatched)

\* An acknowledgement on its way names an id its sender has handled, and so does
\* every entry of the ring.
AcksTrue(ch, lg, d) == \A p, q \in Procs : \A k \in DOMAIN ch[p][q] :
    ch[p][q][k].ack # 0 => HandledId(lg, d, p, q, ch[p][q][k].ack)
PairsTrue(pr, lg, d) == \A q \in Procs : \A i \in PairIdx :
    pr[q][i].id # 0 => pr[q][i].from \in Procs /\ HandledId(lg, d, q, pr[q][i].from, pr[q][i].id)
NotToSelf(lg) == \A p \in Procs : \A n \in DOMAIN lg[p] : p \notin lg[p][n].to

\* The inductive invariant behind AckedWasDispatched, with IInv and DedupInv.
AckInv ==
    /\ StoredServed /\ AcksTrue(chan, log, dispatched) /\ PairsTrue(pairs, log, dispatched)
    /\ NotToSelf(log) /\ Seated(players)

\* Histories only grow.
Grows(d1, d2) == \A p, q \in Procs : \A n : HandledBy(d1, q, p, n) => HandledBy(d2, q, p, n)

LEMMA GrowsId ==
    ASSUME NEW lg1, NEW lg2, Extends(lg1, lg2), NEW d1, NEW d2, Grows(d1, d2),
           NEW p \in Procs, NEW q \in Procs, NEW id, HandledId(lg1, d1, q, p, id)
    PROVE  HandledId(lg2, d2, q, p, id)
  <1>1. PICK n \in DOMAIN lg1[p] : lg1[p][n].id = id /\ HandledBy(d1, q, p, n)
    BY DEF HandledId
  <1>2. n \in DOMAIN lg2[p] /\ lg2[p][n].id = id /\ HandledBy(d2, q, p, n)
    BY <1>1 DEF Extends, Grows
  <1> QED  BY <1>2 DEF HandledId

LEMMA GrowsAcks ==
    ASSUME NEW lg1, NEW lg2, Extends(lg1, lg2), NEW d1, NEW d2, Grows(d1, d2)
    PROVE  /\ \A ch : AcksTrue(ch, lg1, d1) => AcksTrue(ch, lg2, d2)
           /\ \A pr : PairsTrue(pr, lg1, d1) => PairsTrue(pr, lg2, d2)
  <1>1. \A p, q \in Procs : \A id : HandledId(lg1, d1, q, p, id) => HandledId(lg2, d2, q, p, id)
    BY GrowsId
  <1> QED  BY <1>1 DEF AcksTrue, PairsTrue

LEMMA PutAcks ==
    ASSUME NEW ch \in ChanType, NEW p \in Procs, NEW out \in OutType, NEW lg, NEW d,
           AcksTrue(ch, lg, d),
           \A b \in Procs : \A j \in DOMAIN out[b] :
              out[b][j].ack # 0 => HandledId(lg, d, p, b, out[b][j].ack)
    PROVE  AcksTrue(Put(ch, p, out), lg, d)
  BY PutElements DEF AcksTrue

LEMMA PutNoAck ==
    ASSUME NEW ch \in ChanType, NEW p \in Procs, NEW pkt \in Wire, pkt.ack = 0, NEW dests,
           NEW lg, NEW d, AcksTrue(ch, lg, d)
    PROVE  AcksTrue(Put(ch, p, Each(pkt, dests)), lg, d)
  <1> DEFINE out == Each(pkt, dests)
  <1>1. out \in OutType  BY EachType
  <1>2. \A b \in Procs : \A j \in DOMAIN out[b] : out[b][j].ack = 0
    BY DEF Each
  <1> HIDE DEF out
  <1>3. AcksTrue(Put(ch, p, out), lg, d)
    BY <1>1, <1>2, PutAcks
  <1> QED  BY <1>3 DEF out

\* Nobody a new message is for is already missing in its mask, and a process
\* sends no reliable message to itself.
LEMMA MaskCovers ==
    ASSUME IInv, Seated(players), NEW p \in Procs, NEW a2 \in DestType
    PROVE  /\ p \notin Addressees(p, a2)
           /\ \A j \in Slots \ AckMask(p, a2) : players[p][j].id \notin Addressees(p, a2) \cap Procs
  <1>1. ALLPLAYERS \notin Procs /\ ALLPLAYERS # INVALID
    BY ProcsAssumption DEF ALLPLAYERS, INVALID
  <1>2. \A i \in AckMask(p, a2) : i \in Slots /\ i # Home[p]
    BY DEF AckMask
  <1>3. p \notin Addressees(p, a2)
    BY <1>2 DEF Addressees, Seated
  <1>4. ASSUME NEW j \in Slots \ AckMask(p, a2), players[p][j].id \in Procs,
               players[p][j].id \in Addressees(p, a2)
        PROVE  FALSE
    <2> DEFINE q == players[p][j].id
    <2>1. q # ALLPLAYERS /\ q # p
      BY <1>1, <1>3, <1>4
    <2>2. j # Home[p]
      BY <2>1 DEF Seated
    <2>3. \A i \in Slots : players[p][i].id = q => i = j
      BY <2>1 DEF Seated
    <2>4. q \notin {players[p][i].id : i \in AckMask(p, a2)}
      BY <1>2, <1>4, <2>3
    <2>5. q \in Targets(p, a2)
      BY <1>4, <2>4 DEF Addressees
    <2>6. CASE a2 # INVALID
      <3>1. q = a2  BY <2>5, <2>6 DEF Targets
      <3> QED  BY <1>4, <2>2, <3>1 DEF AckMask
    <2>7. CASE a2 = INVALID
      <3>1. PICK k \in Slots : /\ k = 0 \/ players[p][k].joined
                               /\ players[p][k].id = q
        BY <2>5, <2>7 DEF Targets
      <3>2. k = j  BY <2>3, <3>1
      <3> QED  BY <1>4, <2>2, <2>7, <3>1, <3>2 DEF AckMask
    <2> QED  BY <2>6, <2>7
  <1> QED  BY <1>3, <1>4

\* What every step keeps that changes neither the buffer nor the player list.
LEMMA ServedFrame ==
    ASSUME StoredServed, StoredKnown, NotToSelf(log), Seated(players),
           Grows(dispatched, dispatched'), UNCHANGED <<buf, players, log>>
    PROVE  StoredServed' /\ NotToSelf(log') /\ Seated(players')
  <1>1. ASSUME NEW p \in Procs, NEW i \in BufIdx, Occupied(p, i)
        PROVE  Served(buf[p][i], p, players, log, dispatched')
    BY <1>1 DEF StoredServed, Served, Grows
  <1> QED  BY <1>1 DEF StoredServed, Occupied

LEMMA SendReliableAck ==
    ASSUME AckInv, DedupInv, IInv, NEW p \in Procs, NEW kind \in Kinds \cup {QuitKind},
           NEW a2 \in DestType, NEW ch \in ChanType, AcksTrue(ch, log, dispatched),
           SendReliable(p, kind, a2, ch), UNCHANGED <<players, pairs, dispatched>>
    PROVE  AckInv'
  <1> DEFINE v9 == IF msgId[p] = 0 THEN 1 ELSE msgId[p]
             mask == AckMask(p, a2)
             seq == Len(log[p]) + 1
             m == [id |-> v9, kind |-> kind, seq |-> seq, mask |-> mask,
                   timeMs |-> curMs[p], timeMs2 |-> curMs[p], retry |-> 0]
             e == [id |-> v9, to |-> Addressees(p, a2)]
  <1>1. v9 \in Ids /\ 0 \in Ids
    BY SizesAssumption DEF IInv, TypeOK, Ids
  <1>2. log \in [Procs -> Seq(Entry)] /\ seq \in Nat
    BY DEF IInv, TypeOK
  <1>g. Grows(dispatched, dispatched')
    BY DEF Grows
  <1>3. CASE mask = {}
    <2>1. chan' = Put(ch, p, Each(Unreliable(kind), Targets(p, a2)))
          /\ UNCHANGED <<buf, pending, log>>
      BY <1>3 DEF SendReliable
    <2>2. Unreliable(kind) \in Wire /\ Unreliable(kind).ack = 0
      BY <1>1, PacketType DEF Unreliable
    <2>3. AcksTrue(chan', log, dispatched)
      BY <2>1, <2>2, PutNoAck
    <2>4. StoredServed' /\ NotToSelf(log') /\ Seated(players')
      BY <1>g, <2>1, ServedFrame DEF AckInv, DedupInv
    <2> QED  BY <2>1, <2>3, <2>4 DEF AckInv
  <1>4. CASE mask # {}
    <2>1. /\ FreeSlot(buf[p]) # NumBuf
          /\ StoreSlot(buf[p], curMs[p]) = 0
      BY StoreSlotIsFirst DEF IInv, BufferInv
    <2>2. 0 \in BufIdx  BY SizesAssumption DEF BufIdx
    <2>3. buf' = [buf EXCEPT ![p][0] = m] /\ log' = [log EXCEPT ![p] = Append(@, e)]
      BY <1>4, <2>1 DEF SendReliable
    <2>4. chan' = Put(ch, p, SendOutput(p, Packet(m), a2))
      BY <1>4 DEF SendReliable
    <2>5. Packet(m) \in Wire /\ Packet(m).ack = 0
      BY <1>1, <1>2, PacketType DEF Packet
    <2>6. SendOutput(p, Packet(m), a2) = [d \in Procs |->
              Each(Packet(m), {})[d] \o Each(Packet(m), Targets(p, a2))[d]]
      BY <2>1 DEF SendOutput
    <2>7. m.seq = seq /\ m.mask = mask /\ e.to = Addressees(p, a2)
      OBVIOUS
    <2> HIDE DEF m, e, v9, seq
    <2>8. /\ \A r \in Procs : log'[r] = IF r = p THEN Append(log[p], e) ELSE log[r]
          /\ \A n \in DOMAIN log[p] : n \in DOMAIN Append(log[p], e)
                                      /\ Append(log[p], e)[n] = log[p][n]
          /\ DOMAIN Append(log[p], e) = DOMAIN log[p] \cup {seq}
          /\ Append(log[p], e)[seq] = e
      <3>1. \A r \in Procs : log'[r] = IF r = p THEN Append(log[p], e) ELSE log[r]
        BY <1>2, <2>3
      <3>2. log[p] \in Seq(Entry)  BY <1>2
      <3> QED  BY <3>1, <3>2 DEF seq
    <2>9. Extends(log, log') /\ \A r \in Procs : \A n \in DOMAIN log[r] : log'[r][n] = log[r][n]
      <3> SUFFICES ASSUME NEW r \in Procs, NEW n \in DOMAIN log[r]
                   PROVE  n \in DOMAIN log'[r] /\ log'[r][n] = log[r][n]
        BY DEF Extends
      <3>1. CASE r = p
        <4>1. log'[r] = Append(log[p], e)  BY <2>8, <3>1
        <4> QED  BY <2>8, <3>1, <4>1
      <3>2. CASE r # p
        BY <2>8, <3>2
      <3> QED  BY <3>1, <3>2
    <2> DEFINE pkt == Packet(m)
               out == SendOutput(p, pkt, a2)
    <2> HIDE DEF pkt
    <2>10. \A d \in Procs : out[d] = <<>> \/ out[d] = <<pkt>>
      BY <2>6 DEF Each, pkt
    <2>11. out \in OutType
      <3>1. pkt \in Wire  BY <2>5 DEF pkt
      <3>2. <<>> \in Seq(Wire) /\ <<pkt>> \in Seq(Wire)  BY <3>1
      <3>3. out = [d \in Procs |-> out[d]]  BY <2>6 DEF pkt
      <3> HIDE DEF out
      <3> QED  BY <2>10, <3>2, <3>3 DEF OutType
    <2>12. \A b \in Procs : \A j \in DOMAIN out[b] : out[b][j].ack = 0
      <3>1. pkt.ack = 0  BY <2>5 DEF pkt
      <3> HIDE DEF out
      <3> QED  BY <2>10, <3>1
    <2> HIDE DEF out
    <2>13. AcksTrue(chan', log', dispatched') /\ PairsTrue(pairs', log', dispatched')
      <3>1. AcksTrue(ch, log', dispatched') /\ PairsTrue(pairs, log', dispatched')
        BY <1>g, <2>9, GrowsAcks DEF AckInv
      <3>2. AcksTrue(Put(ch, p, out), log', dispatched')
        BY <2>11, <2>12, <3>1, PutAcks
      <3> QED  BY <2>4, <3>1, <3>2 DEF out, pkt
    <2>14. /\ p \notin e.to
           /\ \A j \in Slots \ mask : players[p][j].id \notin e.to \cap Procs
      BY <2>7, MaskCovers DEF AckInv
    <2>15. NotToSelf(log')
      BY <2>8, <2>14 DEF AckInv, NotToSelf
    <2>16. StoredServed'
      <3>1. /\ \A q \in Procs \ {p} : buf'[q] = buf[q]
            /\ \A i \in BufIdx \ {0} : buf'[p][i] = buf[p][i]
            /\ buf'[p][0] = m
        BY <2>2, <2>3 DEF IInv, TypeOK
      <3>2. Served(m, p, players, log', dispatched)
        <4>1. log'[p][m.seq] = e  BY <2>7, <2>8
        <4> QED  BY <2>7, <2>14, <4>1 DEF Served
      <3>3. ASSUME NEW q \in Procs, NEW i \in BufIdx, Occupied(q, i)
            PROVE  Served(buf[q][i], q, players, log', dispatched)
        <4>1. buf[q][i].seq \in DOMAIN log[q]
          BY <3>3 DEF DedupInv, StoredKnown, Known
        <4>2. log'[q][buf[q][i].seq] = log[q][buf[q][i].seq]
          BY <2>9, <4>1
        <4>3. Served(buf[q][i], q, players, log, dispatched)
          BY <3>3 DEF AckInv, StoredServed
        <4> QED  BY <4>2, <4>3 DEF Served
      <3> QED  BY <3>1, <3>2, <3>3 DEF StoredServed, Occupied
    <2>17. Seated(players')
      BY DEF AckInv
    <2> QED  BY <2>13, <2>15, <2>16, <2>17 DEF AckInv
  <1> QED  BY <1>3, <1>4

\* A signed 16-bit reading that finds a stored message is the id itself.
LEMMA AckNamesStored ==
    ASSUME IInv, NEW q \in Procs, NEW ack \in Ids, NEW i \in AckedSlot(buf[q], PopS16(ack))
    PROVE  i \in BufIdx /\ buf[q][i].id = ack
  <1>1. i \in BufIdx /\ buf[q][i].id = PopS16(ack)
    BY DEF AckedSlot
  <1>2. buf[q][i].id \in Ids
    <2>1. buf[q][i] \in Message  BY <1>1 DEF IInv, TypeOK
    <2> QED  BY <2>1 DEF Message
  <1>3. PopS16(ack) \in Int /\ (PopS16(ack) >= 0 => PopS16(ack) = ack)
    BY SizesAssumption DEF PopS16, Ids
  <1>4. PopS16(ack) >= 0
    BY <1>1, <1>2, <1>3 DEF Ids
  <1> QED  BY <1>1, <1>3, <1>4

\* An acknowledgement takes the bit of its sender, who has handled the message,
\* and the welcome puts a process into its own slot, which no mask is about.
LEMMA DispatchAck ==
    ASSUME AckInv, DedupInv, IInv, NoIdComesBack, NEW q \in Procs, NEW from \in Procs,
           NEW pkt \in Wire, pkt.ack # 0 => HandledId(log, dispatched, from, q, pkt.ack),
           Dispatch(q, from, pkt), Grows(dispatched, dispatched'), UNCHANGED log
    PROVE  StoredServed' /\ Seated(players')
  <1>1. buf \in [Procs -> [BufIdx -> Message]] /\ players \in [Procs -> [Slots -> Player]]
    BY DEF IInv, TypeOK
  <1>2. /\ \A p \in Procs : \A j \in Slots :
              players'[p][j].id = players[p][j].id \/ (players'[p][j].id = p /\ j = Home[p])
        /\ Seated(players')
    <2> DEFINE x == [id |-> q, joined |-> TRUE]
    <2>1. UNCHANGED players \/ players' = [players EXCEPT ![q][Home[q]] = x]
      BY DEF Dispatch, ProcessWelcome
    <2>2. x.id = q /\ Home[q] \in Slots
      BY ProcsAssumption
    <2> HIDE DEF x
    <2>3. CASE UNCHANGED players
      BY <2>3 DEF AckInv
    <2>4. CASE players' = [players EXCEPT ![q][Home[q]] = x]
      <3>1. \A p \in Procs : \A j \in Slots :
               players'[p][j] = IF p = q /\ j = Home[q] THEN x ELSE players[p][j]
        BY <1>1, <2>2, <2>4
      <3>2. Home \in [Procs -> Slots]
        BY ProcsAssumption
      <3>3. Seated(players')
        BY <2>2, <3>1, <3>2 DEF AckInv, Seated
      <3> QED  BY <2>2, <3>1, <3>3
    <2> QED  BY <2>1, <2>3, <2>4
  <1>3. ASSUME NEW p \in Procs, NEW i \in BufIdx, buf'[p][i].id # 0
        PROVE  /\ buf'[p][i].id = buf[p][i].id /\ buf'[p][i].seq = buf[p][i].seq
               /\ \A j \in Slots \ buf'[p][i].mask :
                     \/ j \notin buf[p][i].mask
                     \/ players[p][j].id = from /\ HandledBy(dispatched, from, p, buf[p][i].seq)
    <2>1. CASE buf'[p][i] = buf[p][i]
      BY <2>1
    <2>2. CASE buf'[p][i] # buf[p][i]
      <3>1. pkt.kind = AckKind /\ ProcessAck(q, from, pkt)
        BY <2>2 DEF Dispatch
      <3>2. pkt.ack \in Ids /\ pkt.ack # 0
        BY <3>1 DEF Wire
      <3>3. PICK k \in AckedSlot(buf[q], PopS16(pkt.ack)) :
              \/ buf' = [buf EXCEPT ![q][k] = NoMsg]
              \/ buf' = [buf EXCEPT ![q][k].mask = buf[q][k].mask \ SlotOf(q, from)]
        BY <2>2, <3>1 DEF ProcessAck
      <3>4. k \in BufIdx /\ buf[q][k].id = pkt.ack
        BY <3>2, AckNamesStored
      <3>5. HandledBy(dispatched, from, q, buf[q][k].seq)
        <4>1. Known(log, q, buf[q][k].seq, pkt.ack)
          BY <3>2, <3>4 DEF DedupInv, StoredKnown, Occupied
        <4>2. PICK n \in DOMAIN log[q] : log[q][n].id = pkt.ack /\ HandledBy(dispatched, from, q, n)
          BY <3>2 DEF HandledId
        <4>3. n = buf[q][k].seq
          BY <4>1, <4>2 DEF NoIdComesBack, Known
        <4> QED  BY <4>2, <4>3
      <3> DEFINE left == [buf[q][k] EXCEPT !.mask = buf[q][k].mask \ SlotOf(q, from)]
      <3>6. /\ left.id = buf[q][k].id /\ left.seq = buf[q][k].seq
            /\ left.mask = buf[q][k].mask \ SlotOf(q, from)
        <4>1. buf[q][k] \in Message  BY <1>1, <3>4
        <4> QED  BY <4>1 DEF Message
      <3>7. \/ buf' = [buf EXCEPT ![q][k] = NoMsg]
            \/ buf' = [buf EXCEPT ![q][k] = left]
        BY <3>3
      <3> HIDE DEF left
      <3>8. p = q /\ i = k /\ buf'[p][i] \in {NoMsg, left}
        BY <1>1, <2>2, <3>4, <3>7
      <3>9. buf'[p][i] = left
        BY <1>3, <3>8, NoMsgType
      <3>10. \A j \in SlotOf(q, from) : players[q][j].id = from
        BY DEF SlotOf
      <3> QED  BY <3>5, <3>6, <3>8, <3>9, <3>10
    <2> QED  BY <2>1, <2>2
  <1>4. ASSUME NEW p \in Procs, NEW i \in BufIdx, buf'[p][i].id # 0
        PROVE  Served(buf'[p][i], p, players', log', dispatched')
    <2> DEFINE n == buf[p][i].seq
    <2>1. /\ buf'[p][i].seq = n /\ buf[p][i].id # 0
          /\ \A j \in Slots \ buf'[p][i].mask :
                \/ j \notin buf[p][i].mask
                \/ players[p][j].id = from /\ HandledBy(dispatched, from, p, n)
      BY <1>3, <1>4
    <2>2. Served(buf[p][i], p, players, log, dispatched) /\ n \in DOMAIN log[p]
      BY <2>1 DEF AckInv, StoredServed, Occupied, DedupInv, StoredKnown, Known
    <2>3. p \notin log[p][n].to
      BY <2>2 DEF AckInv, NotToSelf
    <2> SUFFICES ASSUME NEW j \in Slots \ buf'[p][i].mask,
                        players'[p][j].id \in log[p][n].to \cap Procs
                 PROVE  HandledBy(dispatched', players'[p][j].id, p, n)
      BY <2>1 DEF Served
    <2>4. players'[p][j].id = players[p][j].id
      BY <1>2, <2>3
    <2>5. HandledBy(dispatched, players[p][j].id, p, n)
      BY <2>1, <2>2, <2>4 DEF Served
    <2> HIDE DEF n
    <2> QED  BY <2>4, <2>5 DEF Grows
  <1> QED  BY <1>2, <1>4 DEF StoredServed, Occupied

LEMMA AcceptAck ==
    ASSUME AckInv, DedupInv, IInv, NoIdComesBack, NEW q \in Procs, NEW from \in Procs,
           NEW pkt \in Wire, pkt.ack # 0 => HandledId(log, dispatched, from, q, pkt.ack),
           pkt.id # 0 => Known(log, from, pkt.seq, pkt.id),
           NEW ch \in ChanType, AcksTrue(ch, log, dispatched), Accept(q, from, pkt, ch)
    PROVE  AckInv'
  <1>1. UNCHANGED log /\ Extends(log, log')
    BY DEF Accept, Extends
  <1>2. NotToSelf(log')
    BY <1>1 DEF AckInv
  <1>3. CASE pkt.id = 0
    <2>1. Dispatch(q, from, pkt) /\ chan' = ch /\ UNCHANGED <<pairs, cursor>>
      BY <1>3 DEF Accept
    <2>2. UNCHANGED dispatched /\ Grows(dispatched, dispatched')
      BY <1>3, <2>1 DEF Dispatch, Grows
    <2>3. StoredServed' /\ Seated(players')
      BY <1>1, <2>1, <2>2, DispatchAck
    <2> QED  BY <1>1, <1>2, <2>1, <2>2, <2>3 DEF AckInv
  <1>4. CASE pkt.id # 0
    <2>1. chan' = Put(ch, q, Each(AckPacket(pkt.id), {from}))
      BY <1>4 DEF Accept
    <2>2. pkt.id \in Ids /\ AckPacket(pkt.id) \in Wire /\ AckPacket(pkt.id).ack = pkt.id
      <3>1. pkt.id \in Ids  BY DEF Wire
      <3> QED  BY <1>4, <3>1, AckType DEF AckPacket
    <2>3. ASSUME HandledId(log, dispatched', q, from, pkt.id), Grows(dispatched, dispatched')
          PROVE  AcksTrue(chan', log', dispatched')
      <3> DEFINE out == Each(AckPacket(pkt.id), {from})
      <3>1. out \in OutType
        BY <2>2, EachType
      <3>2. \A b \in Procs : \A j \in DOMAIN out[b] : b = from /\ out[b][j].ack = pkt.id
        BY <2>2 DEF Each
      <3> HIDE DEF out
      <3>3. AcksTrue(ch, log, dispatched')
        BY <1>1, <2>3, GrowsAcks
      <3>4. AcksTrue(Put(ch, q, out), log, dispatched')
        BY <2>3, <3>1, <3>2, <3>3, PutAcks
      <3> QED  BY <1>1, <2>1, <3>4 DEF out
    <2>4. CASE Seen(q, from, pkt.id)
      <3>1. UNCHANGED <<buf, players, dispatched, pairs, cursor>>
        BY <1>4, <2>4 DEF Accept
      <3>2. HandledId(log, dispatched, q, from, pkt.id)
        <4>1. PICK i \in PairIdx : pairs[q][i] = [from |-> from, id |-> pkt.id]
          BY <2>4 DEF Seen
        <4>2. pairs[q][i].from = from /\ pairs[q][i].id = pkt.id
          BY <4>1
        <4> QED  BY <1>4, <4>2 DEF AckInv, PairsTrue
      <3>3. Grows(dispatched, dispatched')
        BY <3>1 DEF Grows
      <3>4. AcksTrue(chan', log', dispatched')
        BY <2>3, <3>1, <3>2, <3>3
      <3>5. StoredServed' /\ NotToSelf(log') /\ Seated(players')
        BY <1>1, <3>1, <3>3, ServedFrame DEF AckInv, DedupInv
      <3> QED  BY <1>1, <3>1, <3>4, <3>5 DEF AckInv
    <2>5. CASE ~Seen(q, from, pkt.id)
      <3> DEFINE e == <<from, pkt.seq>>
                 d == dispatched[q]
                 new == [from |-> from, id |-> pkt.id]
      <3>1. Remember(q, from, pkt.id) /\ Dispatch(q, from, pkt)
        BY <1>4, <2>5 DEF Accept
      <3>2. /\ dispatched'[q] = Append(d, e) /\ d \in Seq(Procs \X Nat) /\ e \in Procs \X Nat
            /\ \A r \in Procs \ {q} : dispatched'[r] = dispatched[r]
        BY <1>4, <3>1 DEF Dispatch, IInv, TypeOK, Wire
      <3> HIDE DEF d, e
      <3>3. /\ \A i \in DOMAIN d : i \in DOMAIN Append(d, e) /\ Append(d, e)[i] = d[i]
            /\ \E i \in DOMAIN Append(d, e) : Append(d, e)[i] = e
        <4>1. \A i \in DOMAIN d : i \in DOMAIN Append(d, e) /\ Append(d, e)[i] = d[i]
          BY <3>2
        <4>2. Len(d) + 1 \in DOMAIN Append(d, e) /\ Append(d, e)[Len(d) + 1] = e
          BY <3>2
        <4> QED  BY <4>1, <4>2
      <3>4. Grows(dispatched, dispatched')
        BY <3>2, <3>3 DEF Grows, HandledBy, d
      <3>5. HandledId(log, dispatched', q, from, pkt.id)
        <4>1. HandledBy(dispatched', q, from, pkt.seq)
          BY <3>2, <3>3 DEF HandledBy, e
        <4> QED  BY <1>4, <4>1 DEF HandledId, Known
      <3>6. StoredServed' /\ Seated(players')
        BY <1>1, <3>1, <3>4, DispatchAck
      <3>7. PairsTrue(pairs', log', dispatched')
        <4>1. pairs' = [pairs EXCEPT ![q][cursor[q]] = new]
          BY <3>1 DEF Remember
        <4>2. new.from = from /\ new.id = pkt.id
          OBVIOUS
        <4> HIDE DEF new
        <4>3. \A r \in Procs : \A i \in PairIdx :
                 pairs'[r][i] = pairs[r][i] \/ (r = q /\ pairs'[r][i] = new)
          BY <4>1 DEF IInv, TypeOK
        <4>4. PairsTrue(pairs, log, dispatched')
          BY <1>1, <3>4, GrowsAcks DEF AckInv
        <4> QED  BY <1>1, <3>5, <4>2, <4>3, <4>4 DEF PairsTrue
      <3>8. AcksTrue(chan', log', dispatched')
        BY <2>3, <3>4, <3>5
      <3> QED  BY <1>2, <3>6, <3>7, <3>8 DEF AckInv
    <2> QED  BY <2>4, <2>5
  <1> QED  BY <1>3, <1>4

\* Taking a packet off a channel acknowledges nothing.
LEMMA CutAcks ==
    ASSUME NEW p \in Procs, NEW q \in Procs, chan \in ChanType, AcksTrue(chan, log, dispatched),
           NEW n \in 1 .. Len(chan[p][q])
    PROVE  AcksTrue([chan EXCEPT ![p][q] =
                       SubSeq(@, 1, n - 1) \o SubSeq(@, n + 1, Len(@))], log, dispatched)
  <1>1. \A ch : Among(ch, chan) => AcksTrue(ch, log, dispatched)
    BY DEF Among, AcksTrue
  <1> QED  BY <1>1, CutAmong

LEMMA SendAck ==
    ASSUME AckInv, DedupInv, IInv, NEW p \in Procs, NEW kind \in Kinds, NEW a2 \in DestType,
           NEW reliable, SendMsgToPlayer(p, kind, a2, reliable)
    PROVE  AckInv'
  <1>1. chan \in ChanType /\ AcksTrue(chan, log, dispatched)
    BY DEF IInv, TypeOK, ChanType, AckInv
  <1>2. UNCHANGED <<players, pairs, dispatched>>
    BY DEF SendMsgToPlayer
  <1>3. CASE reliable
    <2>1. SendReliable(p, kind, a2, chan)
      BY <1>3 DEF SendMsgToPlayer
    <2> QED  BY <1>1, <1>2, <2>1, SendReliableAck
  <1>4. CASE ~reliable
    <2>1. /\ chan' = Put(chan, p, Each(Unreliable(kind), Targets(p, a2)))
          /\ UNCHANGED <<buf, log>>
      BY <1>4 DEF SendMsgToPlayer, SendUnreliable
    <2>2. Unreliable(kind) \in Wire /\ Unreliable(kind).ack = 0
      BY SizesAssumption, PacketType DEF Unreliable, Ids
    <2>3. AcksTrue(chan', log, dispatched)
      BY <1>1, <2>1, <2>2, PutNoAck
    <2>4. StoredServed' /\ NotToSelf(log') /\ Seated(players')
      BY <1>2, <2>1, ServedFrame DEF AckInv, DedupInv, Grows
    <2> QED  BY <1>2, <2>1, <2>3, <2>4 DEF AckInv
  <1> QED  BY <1>3, <1>4

LEMMA ReceiveAck ==
    ASSUME AckInv, DedupInv, IInv, NoIdComesBack, NEW p \in Procs, NEW q \in Procs,
           NEW n \in 1 .. Len(chan[p][q]), NEW keep, Receive(q, p, n, keep)
    PROVE  AckInv'
  <1> DEFINE pkt == chan[p][q][n]
             cut == [chan EXCEPT ![p][q] =
                       SubSeq(@, 1, n - 1) \o SubSeq(@, n + 1, Len(@))]
             rest == IF keep THEN chan ELSE cut
  <1>1. chan \in ChanType /\ AcksTrue(chan, log, dispatched)
    BY DEF IInv, TypeOK, ChanType, AckInv
  <1>2. pkt \in Wire /\ n \in DOMAIN chan[p][q]
    BY <1>1 DEF ChanType
  <1>3. rest \in ChanType /\ AcksTrue(rest, log, dispatched)
    BY <1>1, CutChanType, CutAcks
  <1>4. /\ pkt.id # 0 => Known(log, p, pkt.seq, pkt.id)
        /\ pkt.ack # 0 => HandledId(log, dispatched, p, q, pkt.ack)
    BY <1>1, <1>2 DEF DedupInv, WireKnown, AcksTrue
  <1>5. Accept(q, p, pkt, rest) \/ Refuse(q, p, rest)
    BY DEF Receive
  <1> HIDE DEF pkt, rest
  <1>6. CASE Accept(q, p, pkt, rest)
    BY <1>2, <1>3, <1>4, <1>6, AcceptAck
  <1>7. CASE Refuse(q, p, rest)
    <2>1. UNCHANGED <<players, pairs, dispatched>>
      BY <1>7 DEF Refuse
    <2>2. CASE q = Host
      <3>1. SendReliable(q, QuitKind, p, rest) /\ p \in DestType
        BY <1>7, <2>2 DEF Refuse, DestType
      <3> QED  BY <1>3, <2>1, <3>1, SendReliableAck
    <2>3. CASE q # Host
      <3>1. chan' = rest /\ UNCHANGED <<buf, log>>
        BY <1>7, <2>3 DEF Refuse
      <3>2. StoredServed' /\ NotToSelf(log') /\ Seated(players')
        BY <2>1, <3>1, ServedFrame DEF AckInv, DedupInv, Grows
      <3> QED  BY <1>3, <2>1, <3>1, <3>2 DEF AckInv
    <2> QED  BY <2>2, <2>3
  <1> QED  BY <1>5, <1>6, <1>7

LEMMA LoseAck ==
    ASSUME AckInv, DedupInv, IInv, NEW p \in Procs, NEW q \in Procs,
           NEW n \in 1 .. Len(chan[p][q]), Lose(p, q, n)
    PROVE  AckInv'
  <1>1. UNCHANGED <<buf, players, log, pairs, dispatched>>
    BY DEF Lose
  <1>2. AcksTrue(chan', log, dispatched)
    BY CutAcks DEF IInv, TypeOK, ChanType, AckInv, Lose
  <1>3. StoredServed' /\ NotToSelf(log') /\ Seated(players')
    BY <1>1, ServedFrame DEF AckInv, DedupInv, Grows
  <1> QED  BY <1>1, <1>2, <1>3 DEF AckInv

\* A retransmission takes only the bits of slots that are empty, and carries no
\* acknowledgement.
LEMMA EndFrameAck ==
    ASSUME AckInv, DedupInv, IInv, NEW p \in Procs, EndFrame(p)
    PROVE  AckInv'
  <1>1. UNCHANGED <<players, log, pairs, dispatched>>
    BY DEF EndFrame
  <1>2. chan \in ChanType /\ AcksTrue(chan, log, dispatched)
    BY DEF IInv, TypeOK, ChanType, AckInv
  <1>3. CASE pending[p] = 0
    <2>1. UNCHANGED <<buf, chan>>
      BY <1>3 DEF EndFrame, SyncWithPlayers
    <2>2. StoredServed' /\ NotToSelf(log') /\ Seated(players')
      BY <1>1, <2>1, ServedFrame DEF AckInv, DedupInv, Grows
    <2> QED  BY <1>1, <1>2, <2>1, <2>2 DEF AckInv
  <1>4. CASE pending[p] # 0
    <2> DEFINE synced == [i \in BufIdx |-> SyncedSlot(p, i)]
               out == DueOutput(p)
    <2>1. buf' = [buf EXCEPT ![p] = synced] /\ chan' = Put(chan, p, out)
      BY <1>4 DEF EndFrame, SyncWithPlayers
    <2>2. ASSUME NEW i \in BufIdx, synced[i].id # 0
          PROVE  /\ synced[i].id = buf[p][i].id /\ synced[i].seq = buf[p][i].seq
                 /\ \A j \in Slots \ synced[i].mask :
                       j \notin buf[p][i].mask \/ players[p][j].id = ALLPLAYERS
      BY <2>2, NoMsgType DEF SyncedSlot, Retransmitted
    <2>3. StoredServed'
      <3>1. \A q \in Procs : buf'[q] = IF q = p THEN synced ELSE buf[q]
        BY <2>1 DEF IInv, TypeOK
      <3>2. ALLPLAYERS \notin Procs
        BY ProcsAssumption DEF ALLPLAYERS
      <3> HIDE DEF synced, out
      <3>3. ASSUME NEW i \in BufIdx, synced[i].id # 0
            PROVE  Served(synced[i], p, players', log', dispatched')
        <4>1. Served(buf[p][i], p, players, log, dispatched)
          BY <2>2, <3>3 DEF AckInv, StoredServed, Occupied
        <4> QED  BY <1>1, <2>2, <3>2, <3>3, <4>1 DEF Served
      <3> QED  BY <1>1, <3>1, <3>3 DEF AckInv, StoredServed, Occupied
    <2>4. ASSUME NEW d \in Procs, NEW k \in DOMAIN out[d]
          PROVE  out[d][k].ack = 0
      BY <2>4 DEF DueOutput, Packet
    <2>5. out \in OutType
      BY DueOutputType DEF IInv, BufferInv
    <2> HIDE DEF out
    <2>6. AcksTrue(chan', log, dispatched)
      BY <1>2, <2>1, <2>4, <2>5, PutAcks
    <2> QED  BY <1>1, <2>3, <2>6 DEF AckInv
  <1> QED  BY <1>3, <1>4

\* The player list changes: a player who leaves owes no acknowledgement, and one
\* who comes in owes those of his slot.
LEMMA RosterAck ==
    ASSUME AckInv, DedupInv, IInv, NobodyReturns, NEW p \in Procs, NEW i \in Slots,
           RosterChange(p, i)
    PROVE  AckInv'
  <1>1. UNCHANGED <<buf, chan, pairs, dispatched>> /\ Grows(dispatched, dispatched')
    BY DEF RosterChange, Grows
  <1>2. players \in [Procs -> [Slots -> Player]] /\ log \in [Procs -> Seq(Entry)]
    BY DEF IInv, TypeOK
  <1>3. ALLPLAYERS \notin Procs
    BY ProcsAssumption DEF ALLPLAYERS
  <1>4. CASE PlayerLeaves(p, i)
    <2> DEFINE x == [id |-> ALLPLAYERS, joined |-> FALSE]
    <2>1. UNCHANGED log /\ players' = [players EXCEPT ![p][i] = x]
      BY <1>4 DEF PlayerLeaves
    <2>2. x.id = ALLPLAYERS  OBVIOUS
    <2> HIDE DEF x
    <2>3. \A r \in Procs : \A j \in Slots :
             players'[r][j] = players[r][j] \/ players'[r][j].id = ALLPLAYERS
      BY <1>2, <2>1, <2>2
    <2>4. ASSUME NEW r \in Procs, NEW s \in BufIdx, Occupied(r, s)
          PROVE  Served(buf[r][s], r, players', log', dispatched')
      <3>1. Served(buf[r][s], r, players, log, dispatched)
        BY <2>4 DEF AckInv, StoredServed
      <3> QED  BY <1>1, <1>3, <2>1, <2>3, <3>1 DEF Served
    <2>5. Seated(players')
      <3>1. \A r \in Procs : Home[r] \in Slots
        BY ProcsAssumption
      <3> QED  BY <1>3, <2>3, <3>1 DEF AckInv, Seated
    <2>6. StoredServed'
      BY <1>1, <2>4 DEF StoredServed, Occupied
    <2> QED  BY <1>1, <2>1, <2>5, <2>6 DEF AckInv
  <1>5. ASSUME NEW q \in Procs \ {p}, PlayerJoins(p, i, q)
        PROVE  AckInv'
    <2> DEFINE x == [id |-> q, joined |-> TRUE]
               Waits(n) == \E s \in BufIdx : /\ buf[p][s].id # 0 /\ buf[p][s].seq = n
                                             /\ i \in buf[p][s].mask
               entry(n) == IF Waits(n) THEN [id |-> log[p][n].id, to |-> log[p][n].to \cup {q}]
                           ELSE log[p][n]
               entries == [n \in DOMAIN log[p] |-> entry(n)]
    <2>1. players' = [players EXCEPT ![p][i] = x] /\ log' = [log EXCEPT ![p] = entries]
      BY <1>5 DEF PlayerJoins
    <2>2. x.id = q /\ players[p][i].id = ALLPLAYERS
      BY <1>5 DEF PlayerJoins
    <2>3. \A k \in Slots : players[p][k].id # q
      <3> SUFFICES ASSUME NEW k \in Slots, players[p][k].id = q PROVE FALSE
        OBVIOUS
      <3>1. \A j \in Slots : j < k => players[p][j].id # q
        <4>1. \A j \in Slots : players[p][j].id = q => j = k
          BY <1>3 DEF AckInv, Seated
        <4>2. ~(k < k)  BY DEF Slots
        <4> QED  BY <4>1, <4>2
      <3>2. q # 0  BY ProcsAssumption
      <3>3. k \in SlotOf(p, q)  BY <3>1, <3>2 DEF SlotOf
      <3> QED  BY <1>5, <3>3 DEF PlayerJoins
    <2>4. \A n : /\ entry(n).id = log[p][n].id
                 /\ entry(n).to \subseteq log[p][n].to \cup {q}
                 /\ ~Waits(n) => entry(n) = log[p][n]
      <3> HIDE DEF Waits
      <3> QED  OBVIOUS
    <2>5. \A s \in BufIdx : Occupied(p, s) /\ Waits(buf[p][s].seq) => i \in buf[p][s].mask
      <3>1. \A s \in BufIdx : Occupied(p, s) => s = 0
        BY NoMsgType DEF IInv, BufferInv, OnlyFirstSlot, Occupied
      <3> QED  BY <3>1 DEF Occupied
    <2> HIDE DEF x, Waits, entry
    <2>6. \A r \in Procs : log'[r] = IF r = p THEN entries ELSE log[r]
      <3> HIDE DEF entries
      <3> QED  BY <1>2, <2>1
    <2>7. \A r \in Procs : \A j \in Slots :
             players'[r][j] = IF r = p /\ j = i THEN x ELSE players[r][j]
      <3> HIDE DEF entries
      <3> QED  BY <1>2, <2>1
    <2>8. /\ i # Home[p]
          /\ \A s \in BufIdx : Occupied(p, s) /\ i \notin buf[p][s].mask =>
                q \notin log[p][buf[p][s].seq].to
      <3>1. players'[p][i].id = q  BY <2>2, <2>7
      <3>2. q \notin {players[p][i].id, ALLPLAYERS, p}  BY <1>3, <2>2
      <3> QED  BY <3>1, <3>2 DEF NobodyReturns
    <2>9. Extends(log, log')
      BY <2>4, <2>6 DEF Extends
    <2>10. AcksTrue(chan', log', dispatched') /\ PairsTrue(pairs', log', dispatched')
      BY <1>1, <2>9, GrowsAcks DEF AckInv
    <2>11. NotToSelf(log')
      <3> SUFFICES ASSUME NEW r \in Procs, NEW n \in DOMAIN log'[r] PROVE r \notin log'[r][n].to
        BY DEF NotToSelf
      <3>1. CASE r = p
        <4>1. n \in DOMAIN log[p] /\ log'[r][n] = entry(n)
          BY <2>6, <3>1
        <4> QED  BY <2>4, <3>1, <4>1 DEF AckInv, NotToSelf
      <3>2. CASE r # p
        BY <2>6, <3>2 DEF AckInv, NotToSelf
      <3> QED  BY <3>1, <3>2
    <2>12. Seated(players')
      <3>1. Home \in [Procs -> Slots]
        BY ProcsAssumption
      <3> HIDE DEF entries
      <3> QED  BY <1>3, <2>2, <2>3, <2>7, <2>8, <3>1 DEF AckInv, Seated
    <2>13. ASSUME NEW r \in Procs, NEW s \in BufIdx, Occupied(r, s)
           PROVE  Served(buf[r][s], r, players', log', dispatched')
      <3> DEFINE n == buf[r][s].seq
      <3>1. Served(buf[r][s], r, players, log, dispatched) /\ n \in DOMAIN log[r]
        BY <2>13 DEF AckInv, StoredServed, DedupInv, StoredKnown, Known
      <3> SUFFICES ASSUME NEW j \in Slots \ buf[r][s].mask,
                          players'[r][j].id \in log'[r][n].to \cap Procs
                   PROVE  HandledBy(dispatched', players'[r][j].id, r, n)
        BY DEF Served
      <3>2. CASE r # p
        <4>1. players'[r][j] = players[r][j] /\ log'[r] = log[r]
          BY <2>6, <2>7, <3>2
        <4> QED  BY <1>1, <3>1, <4>1 DEF Served
      <3>3. CASE r = p /\ j = i
        <4>1. players'[r][j].id = q  BY <2>2, <2>7, <3>3
        <4>2. ~Waits(n)
          BY <2>5, <2>13, <3>3
        <4>3. log'[r][n] = entry(n)
          <5> HIDE DEF n
          <5> QED  BY <2>6, <3>1, <3>3
        <4>4. log'[r][n] = log[r][n]
          BY <2>4, <3>3, <4>2, <4>3
        <4> QED  BY <2>8, <2>13, <3>3, <4>1, <4>4
      <3>4. CASE r = p /\ j # i
        <4>1. players'[r][j] = players[r][j] /\ players[r][j].id # q
          BY <2>3, <2>7, <3>4
        <4>2. log'[r][n] = entry(n)  BY <2>6, <3>1, <3>4
        <4>3. players[r][j].id \in log[r][n].to \cap Procs
          BY <2>4, <3>4, <4>1, <4>2
        <4> QED  BY <1>1, <3>1, <4>1, <4>3 DEF Served
      <3> QED  BY <3>2, <3>3, <3>4
    <2>14. StoredServed'
      BY <1>1, <2>13 DEF StoredServed, Occupied
    <2> QED  BY <2>10, <2>11, <2>12, <2>14 DEF AckInv
  <1> QED  BY <1>4, <1>5 DEF RosterChange

LEMMA InitAck == ASSUME Seated(InitPlayers) PROVE Init => AckInv
  BY NoMsgType
  DEF Init, AckInv, StoredServed, Occupied, AcksTrue, PairsTrue, NoPair, NotToSelf

LEMMA NextAck ==
    IInv /\ DedupInv /\ AckInv /\ NoIdComesBack /\ [Next]_vars /\ [NobodyReturns]_vars => AckInv'
  <1> SUFFICES ASSUME IInv, DedupInv, AckInv, NoIdComesBack, [Next]_vars, [NobodyReturns]_vars
               PROVE  AckInv'
    OBVIOUS
  <1>1. \A p, q \in Procs : \A n \in Ready(p, q) : n \in 1 .. Len(chan[p][q])
    BY DEF Ready, IInv, TypeOK
  <1>2. CASE \E p \in Procs : Send(p)
    <2>1. Dests \subseteq DestType  BY ProcsAssumption DEF DestType
    <2> QED  BY <1>2, <2>1, SendAck DEF Send
  <1>3. CASE \E q \in Procs : Recv(q)
    BY <1>1, <1>3, ReceiveAck DEF Recv
  <1>4. CASE \E p \in Procs : EndFrame(p)
    BY <1>4, EndFrameAck
  <1>5. CASE Loss
    BY <1>1, <1>5, LoseAck DEF Loss
  <1>6. CASE UNCHANGED vars
    BY <1>6
    DEF vars, AckInv, StoredServed, Occupied, AcksTrue, PairsTrue, NotToSelf, Seated
  <1>7. CASE Roster /\ ~UNCHANGED vars
    <2>1. NobodyReturns  BY <1>7
    <2> QED  BY <1>7, <2>1, RosterAck DEF Roster
  <1> QED  BY <1>2, <1>3, <1>4, <1>5, <1>6, <1>7 DEF Next

\* sithComm_cogMsg_Reset clears a player's bit only for a message he has handled,
\* over every transport and with every retransmission, as long as no message id
\* comes back and no player returns to a slot that a message for him, still
\* waiting for others, does not wait for.
THEOREM AcksTellTheTruth ==
    ASSUME Seated(InitPlayers)
    PROVE  Spec /\ []NoIdComesBack /\ [][NobodyReturns]_vars => []AckedWasDispatched
  <1>1. Init => DedupInv /\ AckInv
    BY InitDedup, InitAck
  <1>2. IInv /\ DedupInv /\ AckInv /\ NoIdComesBack /\ [Next]_vars /\ [NobodyReturns]_vars
           => DedupInv' /\ AckInv'
    BY NextDedup, NextAck
  <1>3. AckInv => AckedWasDispatched
    <2> SUFFICES ASSUME AckInv, NEW p \in Procs, NEW i \in BufIdx, Occupied(p, i),
                        NEW q \in log[p][buf[p][i].seq].to \cap Procs,
                        NEW j \in Slots \ buf[p][i].mask, players[p][j].id = q
                 PROVE  WasDispatched(q, p, buf[p][i].seq)
      BY DEF AckedWasDispatched
    <2> QED  BY DEF AckInv, StoredServed, Served, HandledBy, WasDispatched
  <1> QED  BY <1>1, <1>2, <1>3, Invariance, PTL DEF Spec

===============================================================================
