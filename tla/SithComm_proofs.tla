---------------------------- MODULE SithComm_proofs ----------------------------
(***************************************************************************)
(* What sithComm.c keeps true of its retransmission buffer, for every      *)
(* number of processes, players, slots and messages, and for a transport   *)
(* that loses, repeats and reorders packets as it likes.                   *)
(***************************************************************************)
EXTENDS SithComm, FiniteSetTheorems, TLAPS

ChanType == [Procs -> [Procs -> Seq(Wire)]]
OutType  == [Procs -> Seq(Wire)]
\* what a caller may pass for sendto_id
DestType == Procs \cup {ALLPLAYERS, INVALID}

\* The number of stored messages never exceeds the counter, which never goes
\* below zero.
PendingNatural == \A p \in Procs : pending[p] >= 0

\* The inductive invariant.  PendingCounted alone is not inductive: an
\* acknowledgement counts down, so the proof must know that the only slot it
\* can clear is the first one and that the counter covered it.
BufferInv == OnlyFirstSlot /\ PendingNatural /\ PendingCounted /\ StoredIsLive
IInv == TypeOK /\ BufferInv

LEMMA SubSeqType ==
    ASSUME NEW S, NEW s \in Seq(S), NEW n \in Nat, n <= Len(s)
    PROVE  SubSeq(s, 1, n) \in Seq(S)
  OBVIOUS

\* Cutting one element out of a sequence keeps its type.
LEMMA CutType ==
    ASSUME NEW S, NEW s \in Seq(S), NEW n \in 1 .. Len(s)
    PROVE  SubSeq(s, 1, n - 1) \o SubSeq(s, n + 1, Len(s)) \in Seq(S)
  OBVIOUS

\* What a process puts on its channels keeps the type of the channels.
LEMMA PutType ==
    ASSUME NEW ch \in ChanType, NEW p \in Procs, NEW out \in OutType
    PROVE  Put(ch, p, out) \in ChanType
  <1> DEFINE all(d) == ch[p][d] \o out[d]
             cut(d) == IF Len(all(d)) < NetCap THEN Len(all(d)) ELSE NetCap
             row == [d \in Procs |-> IF d = p THEN ch[p][d] ELSE SubSeq(all(d), 1, cut(d))]
  <1>1. ASSUME NEW d \in Procs PROVE SubSeq(all(d), 1, cut(d)) \in Seq(Wire)
    <2>1. all(d) \in Seq(Wire)  BY DEF ChanType, OutType
    <2> HIDE DEF all
    <2>2. cut(d) \in Nat /\ cut(d) <= Len(all(d))  BY <2>1, BoundsAssumption
    <2> HIDE DEF cut
    <2> QED  BY <2>1, <2>2, SubSeqType
  <1>2. row \in [Procs -> Seq(Wire)]
    <2> HIDE DEF all, cut
    <2> QED  BY <1>1 DEF ChanType
  <1>3. Put(ch, p, out) = [ch EXCEPT ![p] = row]
    BY DEF Put, ChanType
  <1> HIDE DEF row
  <1> QED  BY <1>2, <1>3 DEF ChanType

\* Everybody a message is for, and everybody it is sent to, has a DPID.
LEMMA AddresseesType ==
    ASSUME TypeOK, NEW p \in Procs, NEW a2 \in DestType
    PROVE  /\ Targets(p, a2) \subseteq Procs \cup {ALLPLAYERS}
           /\ Addressees(p, a2) \subseteq Procs \cup {ALLPLAYERS}
  <1>1. \A i \in Slots : players[p][i].id \in Procs \cup {ALLPLAYERS}
    BY DEF TypeOK, Player
  <1>2. Targets(p, a2) \subseteq Procs \cup {ALLPLAYERS}
    BY <1>1 DEF Targets, DestType
  <1> QED  BY <1>1, <1>2 DEF Addressees, AckMask

LEMMA EachType ==
    ASSUME NEW pkt \in Wire, NEW dests
    PROVE  Each(pkt, dests) \in OutType
  BY DEF Each, OutType

LEMMA PacketType ==
    ASSUME NEW kind \in Kinds \cup {"NONE", QuitKind}, NEW i \in Ids, NEW n \in Nat
    PROVE  [kind |-> kind, id |-> i, seq |-> n, ack |-> 0] \in Wire
  <1> DEFINE w == [kind |-> kind, id |-> i, seq |-> n, ack |-> 0]
  <1>1. 0 \in Ids  BY SizesAssumption DEF Ids
  <1>2. kind # AckKind  BY ProcsAssumption DEF AckKind, QuitKind
  <1>3. w \in [kind : Kinds \cup {"NONE", AckKind, QuitKind}, id : Ids,
               seq : Nat, ack : Ids]
    BY <1>1
  <1> QED  BY <1>2, <1>3 DEF Wire

LEMMA AckType == ASSUME NEW i \in Ids, i # 0 PROVE AckPacket(i) \in Wire
  BY SizesAssumption DEF AckPacket, Wire, Ids

\* The scan of SendMsgToPlayer always stops at slot 0 or 1, and whatever it
\* finds, the message is stored in slot 0.
LEMMA StoreSlotIsFirst ==
    ASSUME TypeOK, OnlyFirstSlot, NEW p \in Procs
    PROVE  /\ FreeSlot(buf[p]) \in {0, 1}
           /\ FreeSlot(buf[p]) # NumBuf
           /\ StoreSlot(buf[p], curMs[p]) = 0
           /\ OldestSlot(buf[p], curMs[p]) = 0
  <1> DEFINE b == buf[p]
             Stop(i) == /\ i = NumBuf \/ b[i].id = 0
                        /\ \A j \in 0 .. i - 1 : b[j].id # 0
  <1>1. 0 \in BufIdx /\ 1 \in BufIdx /\ NumBuf \in Nat /\ NumBuf >= 2
    BY SizesAssumption DEF BufIdx
  <1>2. b[1].id = 0
    BY <1>1 DEF OnlyFirstSlot, NoMsg
  <1>3. \E i \in 0 .. NumBuf : Stop(i)
    <2>1. CASE b[0].id = 0
      BY <1>1, <2>1
    <2>2. CASE b[0].id # 0
      <3>1. Stop(1)  BY <1>1, <1>2, <2>2
      <3> QED  BY <1>1, <3>1
    <2> QED  BY <2>1, <2>2
  <1>4. FreeSlot(b) \in 0 .. NumBuf /\ Stop(FreeSlot(b))
    BY <1>3 DEF FreeSlot
  <1>5. FreeSlot(b) \in {0, 1}
    <2> SUFFICES ASSUME FreeSlot(b) > 1 PROVE FALSE
      BY <1>1, <1>4
    <2> QED  BY <1>1, <1>2, <1>4
  <1> DEFINE older == {i \in 0 .. FreeSlot(b) - 1 : b[i].timeMs < curMs[p]}
  <1>6. older \subseteq {0}
    BY <1>5
  <1>7. OldestSlot(b, curMs[p]) = 0
    <2>1. CASE older = {}
      BY <2>1 DEF OldestSlot
    <2>2. CASE older # {}
      <3>1. older = {0}  BY <1>6, <2>2
      <3>2. \E i \in older : \A j \in older :
                \/ b[i].timeMs < b[j].timeMs
                \/ b[i].timeMs = b[j].timeMs /\ i <= j
        BY <3>1
      <3> QED  BY <3>1, <3>2 DEF OldestSlot
    <2> QED  BY <2>1, <2>2
  <1> QED  BY <1>1, <1>5, <1>7 DEF StoreSlot

LEMMA RetransmittedType ==
    ASSUME TypeOK, NEW p \in Procs, NEW m \in Message
    PROVE  /\ Retransmitted(p, m) \in Message
           /\ Retransmitted(p, m).id = m.id
  <1>1. curMs[p] \in Nat  BY DEF TypeOK
  <1> QED  BY <1>1 DEF Retransmitted, Message

LEMMA NoMsgType == NoMsg \in Message /\ NoMsg.id = 0
  BY SizesAssumption DEF NoMsg, Message, Ids

\* Storing a reliable message and sending it: the heart of SendMsgToPlayer.
LEMMA SendReliableStep ==
    ASSUME IInv, NEW p \in Procs, NEW kind \in Kinds \cup {QuitKind},
           NEW a2 \in DestType,
           NEW ch \in ChanType, SendReliable(p, kind, a2, ch)
    PROVE  /\ buf' \in [Procs -> [BufIdx -> Message]]
           /\ pending' \in [Procs -> Int]
           /\ msgId' \in [Procs -> Ids]
           /\ chan' \in ChanType
           /\ log' \in [Procs -> Seq(Entry)]
           /\ BufferInv'
  <1> DEFINE v9 == IF msgId[p] = 0 THEN 1 ELSE msgId[p]
             mask == AckMask(p, a2)
             seq == Len(log[p]) + 1
             m == [id |-> v9, kind |-> kind, seq |-> seq, mask |-> mask,
                   timeMs |-> curMs[p], timeMs2 |-> curMs[p], retry |-> 0]
             e == [id |-> v9, to |-> Addressees(p, a2)]
  <1> USE DEF IInv
  <1>1. v9 \in Ids /\ v9 # 0 /\ (v9 + 1) % IdSpan \in Ids /\ 0 \in Ids
    BY SizesAssumption, SMTT(60) DEF TypeOK, Ids
  <1>2. seq \in Nat /\ log[p] \in Seq(Entry) /\ curMs[p] \in Nat
    BY DEF TypeOK
  <1>3. mask \in SUBSET Slots
    BY DEF AckMask
  <1>4. m \in Message
    BY <1>1, <1>2, <1>3 DEF Message
  <1>5. e \in Entry
    BY <1>1, AddresseesType DEF Entry
  <1>6. msgId' \in [Procs -> Ids]
    BY <1>1 DEF SendReliable, TypeOK
  <1>7. CASE mask = {}
    <2>1. chan' = Put(ch, p, Each(Unreliable(kind), Targets(p, a2)))
          /\ UNCHANGED <<buf, pending, log>>
      BY <1>7 DEF SendReliable
    <2>2. Unreliable(kind) \in Wire
      BY <1>1, PacketType DEF Unreliable
    <2>3. chan' \in ChanType
      BY <2>1, <2>2, EachType, PutType
    <2> QED
      BY <1>6, <2>1, <2>3 DEF TypeOK, BufferInv, OnlyFirstSlot, PendingNatural,
         PendingCounted, StoredIsLive, Occupied
  <1>8. CASE mask # {}
    <2>1. /\ FreeSlot(buf[p]) # NumBuf
          /\ StoreSlot(buf[p], curMs[p]) = 0
      BY StoreSlotIsFirst DEF BufferInv
    <2>2. 0 \in BufIdx  BY SizesAssumption DEF BufIdx
    <2>3. buf' = [buf EXCEPT ![p][0] = m]
      BY <1>8, <2>1 DEF SendReliable
    <2>4. pending' = [pending EXCEPT ![p] = pending[p] + 1]
      BY <1>8, <2>1 DEF SendReliable, PendingAfterStore
    <2>5. log' = [log EXCEPT ![p] = Append(@, e)]
      BY <1>8 DEF SendReliable
    <2>6. chan' = Put(ch, p, SendOutput(p, Packet(m), a2))
      BY <1>8 DEF SendReliable
    <2>7. SendOutput(p, Packet(m), a2) \in OutType
      <3>1. Packet(m) \in Wire
        BY <1>1, <1>2, PacketType DEF Packet
      <3>2. Each(Packet(m), {}) \in OutType /\ Each(Packet(m), Targets(p, a2)) \in OutType
        BY <3>1, EachType
      <3>3. SendOutput(p, Packet(m), a2)
              = [d \in Procs |-> Each(Packet(m), {})[d] \o Each(Packet(m), Targets(p, a2))[d]]
        BY <2>1 DEF SendOutput
      <3> HIDE DEF m
      <3> QED  BY <3>2, <3>3 DEF OutType
    <2>8. chan' \in ChanType
      BY <2>6, <2>7, PutType
    <2> HIDE DEF m, e
    <2>9. buf' \in [Procs -> [BufIdx -> Message]] /\ pending' \in [Procs -> Int]
          /\ log' \in [Procs -> Seq(Entry)]
      BY <1>4, <1>5, <2>2, <2>3, <2>4, <2>5 DEF TypeOK
    <2>10. /\ \A q \in Procs \ {p} : buf'[q] = buf[q] /\ pending'[q] = pending[q]
           /\ \A i \in BufIdx \ {0} : buf'[p][i] = buf[p][i]
           /\ buf'[p][0] = m
           /\ pending'[p] = pending[p] + 1
      BY <2>2, <2>3, <2>4 DEF TypeOK
    <2>11. m.mask # {} /\ m.retry < MaxRetry
      BY <1>8, SizesAssumption DEF m
    <2>12. pending \in [Procs -> Int] /\ \A q \in Procs : pending[q] >= 0
      BY DEF TypeOK, BufferInv, PendingNatural
    <2>13. OnlyFirstSlot'
      BY <2>10 DEF BufferInv, OnlyFirstSlot
    <2>14. PendingNatural' /\ PendingCounted'
      BY <2>10, <2>12 DEF BufferInv, PendingNatural, PendingCounted, Occupied
    <2>15. StoredIsLive'
      BY <2>10, <2>11, <2>2 DEF BufferInv, StoredIsLive, Occupied
    <2> QED  BY <1>6, <2>8, <2>9, <2>13, <2>14, <2>15 DEF BufferInv
  <1> QED  BY <1>7, <1>8

\* An acknowledgement can only find the first slot: every other one is clear,
\* and a signed 16-bit reading of an id other than 0 is never 0.
LEMMA AckFindsFirstSlot ==
    ASSUME TypeOK, OnlyFirstSlot, NEW q \in Procs, NEW ack \in Ids, ack # 0
    PROVE  AckedSlot(buf[q], PopS16(ack)) \subseteq {0}
  <1>1. PopS16(ack) # 0
    BY SizesAssumption DEF PopS16, Ids
  <1>2. \A i \in BufIdx \ {0} : buf[q][i].id = 0
    BY DEF OnlyFirstSlot, NoMsg
  <1> QED  BY <1>1, <1>2 DEF AckedSlot

LEMMA ProcessAckStep ==
    ASSUME IInv, NEW q \in Procs, NEW from, NEW pkt \in Wire, pkt.kind = AckKind,
           ProcessAck(q, from, pkt)
    PROVE  /\ buf' \in [Procs -> [BufIdx -> Message]]
           /\ pending' \in [Procs -> Int]
           /\ BufferInv'
  <1> USE DEF IInv
  <1> DEFINE v1 == PopS16(pkt.ack)
             found == AckedSlot(buf[q], v1)
  <1>1. pkt.ack \in Ids /\ pkt.ack # 0
    BY DEF Wire
  <1>2. found \subseteq {0}
    BY <1>1, AckFindsFirstSlot DEF BufferInv
  <1>3. v1 # 0
    BY <1>1, SizesAssumption DEF PopS16, Ids
  <1>4. CASE found = {}
    <2>1. UNCHANGED <<buf, pending>>
      BY <1>4 DEF ProcessAck
    <2> QED
      BY <2>1 DEF TypeOK, BufferInv, OnlyFirstSlot, PendingNatural, PendingCounted,
         StoredIsLive, Occupied
  <1>5. CASE found # {}
    <2> DEFINE left == buf[q][0].mask \ SlotOf(q, from)
    <2>1. found = {0}  BY <1>2, <1>5
    <2>2. 0 \in BufIdx /\ buf[q][0].id = v1
      BY <2>1 DEF AckedSlot
    <2>3. Occupied(q, 0)
      BY <1>3, <2>2 DEF Occupied
    <2>4. pending[q] > 0 /\ buf[q][0].retry < MaxRetry
      BY <2>2, <2>3 DEF BufferInv, PendingCounted, StoredIsLive
    <2>5. pending \in [Procs -> Int] /\ buf \in [Procs -> [BufIdx -> Message]]
      BY DEF TypeOK
    <2>6. CASE left = {}
      <3>1. buf' = [buf EXCEPT ![q][0] = NoMsg]
            /\ pending' = [pending EXCEPT ![q] = @ - 1]
        BY <1>5, <2>1, <2>6 DEF ProcessAck
      <3>2. /\ \A r \in Procs \ {q} : buf'[r] = buf[r] /\ pending'[r] = pending[r]
            /\ \A i \in BufIdx \ {0} : buf'[q][i] = buf[q][i]
            /\ buf'[q][0] = NoMsg
            /\ pending'[q] = pending[q] - 1
        BY <2>2, <2>5, <3>1
      <3>3. buf' \in [Procs -> [BufIdx -> Message]] /\ pending' \in [Procs -> Int]
        BY <2>2, <2>5, <3>1, NoMsgType
      <3>4. OnlyFirstSlot'
        BY <3>2 DEF BufferInv, OnlyFirstSlot
      <3>5. PendingNatural'
        BY <2>4, <2>5, <3>2 DEF BufferInv, PendingNatural
      <3>6. PendingCounted' /\ StoredIsLive'
        BY <3>2, <3>4, NoMsgType
        DEF BufferInv, OnlyFirstSlot, PendingCounted, StoredIsLive, Occupied
      <3> QED  BY <3>3, <3>4, <3>5, <3>6 DEF BufferInv
    <2>7. CASE left # {}
      <3>1. buf' = [buf EXCEPT ![q][0].mask = left] /\ pending' = pending
        BY <1>5, <2>1, <2>7 DEF ProcessAck
      <3>2. buf[q][0] \in Message
        BY <2>2, <2>5
      <3>3. /\ [buf[q][0] EXCEPT !.mask = left] \in Message
            /\ [buf[q][0] EXCEPT !.mask = left].id = buf[q][0].id
            /\ [buf[q][0] EXCEPT !.mask = left].mask = left
            /\ [buf[q][0] EXCEPT !.mask = left].retry = buf[q][0].retry
        BY <3>2 DEF Message
      <3>4. /\ \A r \in Procs \ {q} : buf'[r] = buf[r]
            /\ \A i \in BufIdx \ {0} : buf'[q][i] = buf[q][i]
            /\ buf'[q][0] = [buf[q][0] EXCEPT !.mask = left]
        BY <2>2, <2>5, <3>1
      <3>5. buf' \in [Procs -> [BufIdx -> Message]]
        BY <2>2, <2>5, <3>1, <3>3
      <3>6. OnlyFirstSlot' /\ PendingNatural'
        BY <3>1, <3>4 DEF BufferInv, OnlyFirstSlot, PendingNatural
      <3>7. PendingCounted' /\ StoredIsLive'
        BY <2>2, <2>4, <2>7, <3>1, <3>3, <3>4
        DEF BufferInv, PendingCounted, StoredIsLive, Occupied
      <3> QED  BY <2>5, <3>1, <3>5, <3>6, <3>7 DEF BufferInv
    <2> QED  BY <2>6, <2>7
  <1> QED  BY <1>4, <1>5

LEMMA DispatchStep ==
    ASSUME IInv, NEW q \in Procs, NEW from \in Procs, NEW pkt \in Wire,
           Dispatch(q, from, pkt)
    PROVE  /\ buf' \in [Procs -> [BufIdx -> Message]]
           /\ pending' \in [Procs -> Int]
           /\ players' \in [Procs -> [Slots -> Player]]
           /\ joining' \in [Procs -> BOOLEAN]
           /\ needsSync' \in [Procs -> BOOLEAN]
           /\ dispatched' \in [Procs -> Seq(Procs \X Nat)]
           /\ BufferInv'
  <1> USE DEF IInv
  <1>1. /\ joining' \in [Procs -> BOOLEAN] /\ needsSync' \in [Procs -> BOOLEAN]
        /\ players' \in [Procs -> [Slots -> Player]]
    <2> DEFINE x == [id |-> q, joined |-> TRUE]
    <2>1. players \in [Procs -> [Slots -> Player]] /\ Home[q] \in Slots /\ x \in Player
      BY ProcsAssumption DEF TypeOK, Player
    <2>2. \/ UNCHANGED <<joining, players, needsSync>>
          \/ /\ joining' = [joining EXCEPT ![q] = FALSE]
             /\ players' = [players EXCEPT ![q][Home[q]] = x]
             /\ needsSync' = [needsSync EXCEPT ![q] = TRUE]
      BY DEF Dispatch, ProcessWelcome
    <2> HIDE DEF x
    <2>3. players' \in [Procs -> [Slots -> Player]]
      BY <2>1, <2>2
    <2>4. joining' \in [Procs -> BOOLEAN] /\ needsSync' \in [Procs -> BOOLEAN]
      BY <2>2 DEF TypeOK
    <2> QED  BY <2>3, <2>4
  <1>2. dispatched' \in [Procs -> Seq(Procs \X Nat)]
    <2>1. pkt.seq \in Nat  BY DEF Wire
    <2>2. dispatched \in [Procs -> Seq(Procs \X Nat)]  BY DEF TypeOK
    <2>3. <<from, pkt.seq>> \in Procs \X Nat  BY <2>1
    <2>4. Append(dispatched[q], <<from, pkt.seq>>) \in Seq(Procs \X Nat)
      BY <2>2, <2>3
    <2> QED  BY <2>2, <2>4 DEF Dispatch
  <1>3. CASE pkt.kind = AckKind
    BY <1>1, <1>2, <1>3, ProcessAckStep DEF Dispatch
  <1>4. CASE pkt.kind # AckKind
    <2>1. UNCHANGED <<buf, pending>>
      BY <1>4 DEF Dispatch
    <2> QED
      BY <1>1, <1>2, <2>1 DEF TypeOK, BufferInv, OnlyFirstSlot, PendingNatural,
         PendingCounted, StoredIsLive, Occupied
  <1> QED  BY <1>3, <1>4

\* A step that leaves the buffer alone leaves BufferInv alone.
LEMMA BufferFrame ==
    ASSUME BufferInv, UNCHANGED <<buf, pending>>
    PROVE  BufferInv'
  BY DEF BufferInv, OnlyFirstSlot, PendingNatural, PendingCounted, StoredIsLive, Occupied

LEMMA SendStep ==
    ASSUME IInv, NEW p \in Procs, NEW kind \in Kinds, NEW a2 \in DestType,
           NEW reliable,
           SendMsgToPlayer(p, kind, a2, reliable)
    PROVE  IInv'
  <1> USE DEF IInv
  <1>1. /\ pairs' \in [Procs -> [PairIdx -> [from : Procs \cup {ALLPLAYERS}, id : Ids]]]
        /\ cursor' \in [Procs -> PairIdx]
        /\ players' \in [Procs -> [Slots -> Player]]
        /\ joining' \in [Procs -> BOOLEAN] /\ needsSync' \in [Procs -> BOOLEAN]
        /\ curMs' \in [Procs -> Nat]
        /\ dispatched' \in [Procs -> Seq(Procs \X Nat)]
        /\ changes' \in [Procs -> Nat]
    BY DEF SendMsgToPlayer, TypeOK
  <1>2. chan \in ChanType
    BY DEF TypeOK, ChanType
  <1>3. CASE reliable
    <2>1. SendReliable(p, kind, a2, chan)
      BY <1>3 DEF SendMsgToPlayer
    <2> QED  BY <1>1, <1>2, <2>1, SendReliableStep DEF TypeOK, ChanType
  <1>4. CASE ~reliable
    <2>1. /\ chan' = Put(chan, p, Each(Unreliable(kind), Targets(p, a2)))
          /\ UNCHANGED <<buf, pending, msgId, log>>
      BY <1>4 DEF SendMsgToPlayer, SendUnreliable
    <2>2. Unreliable(kind) \in Wire
      BY SizesAssumption, PacketType DEF Unreliable, Ids
    <2>3. chan' \in ChanType
      BY <1>2, <2>1, <2>2, EachType, PutType
    <2> QED  BY <1>1, <2>1, <2>3, BufferFrame DEF TypeOK, ChanType
  <1> QED  BY <1>3, <1>4

LEMMA AcceptStep ==
    ASSUME IInv, NEW q \in Procs, NEW from \in Procs, NEW pkt \in Wire,
           NEW ch \in ChanType, Accept(q, from, pkt, ch),
           UNCHANGED <<curMs, changes>>
    PROVE  IInv'
  <1> USE DEF IInv
  <1>1. curMs' \in [Procs -> Nat] /\ changes' \in [Procs -> Nat]
    BY DEF TypeOK
  <1>2. CASE pkt.id = 0
    <2>1. Dispatch(q, from, pkt) /\ chan' = ch /\ UNCHANGED <<pairs, cursor, msgId, log>>
      BY <1>2 DEF Accept
    <2> QED  BY <1>1, <2>1, DispatchStep DEF TypeOK, ChanType
  <1>3. CASE pkt.id # 0
    <2>1. chan' = Put(ch, q, Each(AckPacket(pkt.id), {from})) /\ UNCHANGED <<msgId, log>>
      BY <1>3 DEF Accept
    <2>2. pkt.id \in Ids  BY DEF Wire
    <2>3. chan' \in ChanType
      BY <1>3, <2>1, <2>2, AckType, EachType, PutType
    <2>4. CASE Seen(q, from, pkt.id)
      <3>1. UNCHANGED <<buf, pending, players, joining, needsSync, dispatched, pairs, cursor>>
        BY <1>3, <2>4 DEF Accept
      <3> QED  BY <1>1, <2>1, <2>3, <3>1, BufferFrame DEF TypeOK, ChanType
    <2>5. CASE ~Seen(q, from, pkt.id)
      <3>1. Remember(q, from, pkt.id) /\ Dispatch(q, from, pkt)
        BY <1>3, <2>5 DEF Accept
      <3>2. pairs' \in [Procs -> [PairIdx -> [from : Procs \cup {ALLPLAYERS}, id : Ids]]]
            /\ cursor' \in [Procs -> PairIdx]
        <4> DEFINE Pair == [from : Procs \cup {ALLPLAYERS}, id : Ids]
                   next == IF cursor[q] + 1 >= NumPairs THEN 0 ELSE cursor[q] + 1
        <4>1. cursor[q] \in PairIdx /\ pairs[q] \in [PairIdx -> Pair]
          BY DEF TypeOK
        <4>2. [from |-> from, id |-> pkt.id] \in Pair
          BY <2>2
        <4>3. next \in PairIdx
          BY <4>1, SizesAssumption DEF PairIdx
        <4>4. pairs' = [pairs EXCEPT ![q][cursor[q]] = [from |-> from, id |-> pkt.id]]
              /\ cursor' = [cursor EXCEPT ![q] = next]
          BY <3>1 DEF Remember
        <4> HIDE DEF Pair, next
        <4>5. pairs \in [Procs -> [PairIdx -> Pair]] /\ cursor \in [Procs -> PairIdx]
          BY DEF TypeOK, Pair
        <4>6. pairs' \in [Procs -> [PairIdx -> Pair]] /\ cursor' \in [Procs -> PairIdx]
          BY <4>1, <4>2, <4>3, <4>4, <4>5
        <4> QED  BY <4>6 DEF Pair
      <3> QED  BY <1>1, <2>1, <2>3, <3>1, <3>2, DispatchStep DEF TypeOK, ChanType
    <2> QED  BY <2>4, <2>5
  <1> QED  BY <1>2, <1>3

LEMMA RefuseStep ==
    ASSUME IInv, NEW q \in Procs, NEW from \in Procs, NEW ch \in ChanType,
           Refuse(q, from, ch), UNCHANGED <<curMs, changes>>
    PROVE  IInv'
  <1> USE DEF IInv
  <1>1. /\ players' \in [Procs -> [Slots -> Player]]
        /\ curMs' \in [Procs -> Nat] /\ changes' \in [Procs -> Nat]
        /\ pairs' \in [Procs -> [PairIdx -> [from : Procs \cup {ALLPLAYERS}, id : Ids]]]
        /\ cursor' \in [Procs -> PairIdx]
        /\ joining' \in [Procs -> BOOLEAN] /\ needsSync' \in [Procs -> BOOLEAN]
        /\ dispatched' \in [Procs -> Seq(Procs \X Nat)]
    BY DEF Refuse, TypeOK
  <1>2. CASE q = Host
    <2>1. SendReliable(q, QuitKind, from, ch) /\ from \in DestType
      BY <1>2 DEF Refuse, DestType
    <2> QED  BY <1>1, <2>1, SendReliableStep DEF TypeOK, ChanType
  <1>3. CASE q # Host
    <2>1. chan' = ch /\ UNCHANGED <<buf, pending, msgId, log>>
      BY <1>3 DEF Refuse
    <2> QED  BY <1>1, <2>1, BufferFrame DEF TypeOK, ChanType
  <1> QED  BY <1>2, <1>3

\* Taking one packet off a channel keeps the type of the channels.
LEMMA CutChanType ==
    ASSUME NEW p \in Procs, NEW q \in Procs, chan \in ChanType,
           NEW n \in 1 .. Len(chan[p][q])
    PROVE  [chan EXCEPT ![p][q] = SubSeq(@, 1, n - 1) \o SubSeq(@, n + 1, Len(@))]
              \in ChanType
  <1>1. SubSeq(chan[p][q], 1, n - 1) \o SubSeq(chan[p][q], n + 1, Len(chan[p][q]))
          \in Seq(Wire)
    BY CutType DEF ChanType
  <1> QED  BY <1>1 DEF ChanType

LEMMA ReceiveStep ==
    ASSUME IInv, NEW p \in Procs, NEW q \in Procs, NEW n \in 1 .. Len(chan[p][q]),
           NEW keep, Receive(q, p, n, keep)
    PROVE  IInv'
  <1> DEFINE pkt == chan[p][q][n]
             cut == [chan EXCEPT ![p][q] =
                       SubSeq(@, 1, n - 1) \o SubSeq(@, n + 1, Len(@))]
             rest == IF keep THEN chan ELSE cut
  <1>1. chan \in ChanType
    BY DEF IInv, TypeOK, ChanType
  <1>2. pkt \in Wire
    BY <1>1 DEF ChanType
  <1>3. rest \in ChanType
    BY <1>1, CutChanType
  <1>4. /\ Accept(q, p, pkt, rest) \/ Refuse(q, p, rest)
        /\ UNCHANGED <<curMs, changes>>
    BY DEF Receive
  <1> HIDE DEF pkt, rest
  <1> QED  BY <1>2, <1>3, <1>4, AcceptStep, RefuseStep

LEMMA LoseStep ==
    ASSUME IInv, NEW p \in Procs, NEW q \in Procs, NEW n \in 1 .. Len(chan[p][q]),
           Lose(p, q, n)
    PROVE  IInv'
  <1>1. chan' \in ChanType
    BY CutChanType DEF IInv, TypeOK, ChanType, Lose
  <1> QED  BY <1>1, BufferFrame DEF IInv, TypeOK, ChanType, Lose

LEMMA RosterStep ==
    ASSUME IInv, NEW p \in Procs, NEW i \in Slots, RosterChange(p, i)
    PROVE  IInv'
  <1>1. PICK x \in Player : players' = [players EXCEPT ![p][i] = x]
    <2>1. [id |-> ALLPLAYERS, joined |-> FALSE] \in Player
      BY DEF Player
    <2>2. \A r \in Procs : [id |-> r, joined |-> TRUE] \in Player
      BY DEF Player
    <2> QED  BY <2>1, <2>2 DEF RosterChange, PlayerLeaves, PlayerJoins
  <1>2. players' \in [Procs -> [Slots -> Player]]
    BY <1>1 DEF IInv, TypeOK
  <1>3. changes' \in [Procs -> Nat]
    <2>1. changes' = [changes EXCEPT ![p] = changes[p] + 1]  BY DEF RosterChange
    <2> QED  BY <2>1 DEF IInv, TypeOK
  <1>4. log' \in [Procs -> Seq(Entry)]
    <2>1. CASE UNCHANGED log
      BY <2>1 DEF IInv, TypeOK
    <2>2. ASSUME NEW q \in Procs, PlayerJoins(p, i, q)
          PROVE  log' \in [Procs -> Seq(Entry)]
      <3> DEFINE Inherits(n) == \E s \in BufIdx : /\ buf[p][s].id # 0
                                                  /\ buf[p][s].seq = n
                                                  /\ i \in buf[p][s].mask
                 e(n) == IF Inherits(n)
                         THEN [id |-> log[p][n].id, to |-> log[p][n].to \cup {q}]
                         ELSE log[p][n]
                 entries == [n \in DOMAIN log[p] |-> e(n)]
      <3>1. log' = [log EXCEPT ![p] = entries]
        BY <2>2 DEF PlayerJoins
      <3>2. log \in [Procs -> Seq(Entry)]  BY DEF IInv, TypeOK
      <3>3. ASSUME NEW n \in 1 .. Len(log[p]) PROVE e(n) \in Entry
        <4>1. log[p][n] \in Entry  BY <3>2, <3>3
        <4>2. [id |-> log[p][n].id, to |-> log[p][n].to \cup {q}] \in Entry
          BY <4>1 DEF Entry
        <4> QED  BY <4>1, <4>2
      <3> HIDE DEF Inherits, e
      <3>4. entries \in Seq(Entry)
        BY <3>2, <3>3
      <3> QED  BY <3>1, <3>2, <3>4
    <2> QED  BY <2>1, <2>2 DEF RosterChange, PlayerLeaves
  <1> QED  BY <1>2, <1>3, <1>4, BufferFrame DEF IInv, TypeOK, RosterChange

\* sithComm_SyncWithPlayers: only the first slot can be due, so the counter
\* goes down at most once, and only for a message it covered.
LEMMA SyncedSlotType ==
    ASSUME TypeOK, NEW p \in Procs, NEW i \in BufIdx
    PROVE  /\ SyncedSlot(p, i) \in Message
           /\ buf[p][i] = NoMsg => SyncedSlot(p, i) = NoMsg
           /\ SyncedSlot(p, i).id # 0 => SyncedSlot(p, i).id = buf[p][i].id
  <1>1. buf[p][i] \in Message
    BY DEF TypeOK
  <1>2. Retransmitted(p, buf[p][i]) \in Message
        /\ Retransmitted(p, buf[p][i]).id = buf[p][i].id
    BY <1>1, RetransmittedType
  <1>3. buf[p][i] = NoMsg => ~Due(p, i)
    BY NoMsgType DEF Due
  <1> QED  BY <1>1, <1>2, <1>3, NoMsgType DEF SyncedSlot

LEMMA SyncedSlotLive ==
    ASSUME IInv, NEW p \in Procs, NEW i \in BufIdx, SyncedSlot(p, i).id # 0
    PROVE  SyncedSlot(p, i).mask # {} /\ SyncedSlot(p, i).retry < MaxRetry
  <1>1. buf[p][i] \in Message
    BY DEF IInv, TypeOK
  <1>2. CASE ~Due(p, i)
    BY <1>2 DEF SyncedSlot, IInv, BufferInv, StoredIsLive, Occupied
  <1>3. CASE Due(p, i)
    <2> DEFINE m == Retransmitted(p, buf[p][i])
    <2>1. m \in Message  BY <1>1, RetransmittedType DEF IInv
    <2>2. ~GivesUp(m) /\ SyncedSlot(p, i) = m
      BY <1>3, NoMsgType DEF SyncedSlot
    <2>3. m.retry \in Nat  BY <2>1 DEF Message
    <2> HIDE DEF m
    <2> QED  BY <2>2, <2>3, SizesAssumption DEF GivesUp
  <1> QED  BY <1>2, <1>3

\* A set of slots that holds at most the first one is empty or a singleton.
LEMMA AtMostFirstSlot ==
    ASSUME NEW S, S \subseteq {0}
    PROVE  \/ S = {} /\ Cardinality(S) = 0
           \/ S = {0} /\ Cardinality(S) = 1
  <1>1. S = {} \/ S = {0}
    OBVIOUS
  <1> QED  BY <1>1, FS_EmptySet, FS_Singleton

LEMMA DueIsFirst ==
    ASSUME OnlyFirstSlot, NEW p \in Procs, NEW i \in BufIdx, Due(p, i)
    PROVE  i = 0
  BY NoMsgType DEF Due, OnlyFirstSlot

LEMMA DueOutputType ==
    ASSUME TypeOK, OnlyFirstSlot, NEW p \in Procs
    PROVE  DueOutput(p) \in OutType
  <1>1. ASSUME NEW d \in Procs
        PROVE  [k \in 1 .. Cardinality(DueFor(p, d)) |->
                  Packet(buf[p][Nth(DueFor(p, d), k)])] \in Seq(Wire)
    <2> DEFINE due == DueFor(p, d)
    <2>1. due \subseteq {0}
      BY DueIsFirst DEF DueFor
    <2>2. CASE due = {} /\ Cardinality(due) = 0
      <3> DEFINE f == [k \in 1 .. 0 |-> Packet(buf[p][Nth(due, k)])]
      <3>1. f \in Seq(Wire)
        <4> HIDE DEF due
        <4> QED  OBVIOUS
      <3> QED  BY <2>2, <3>1
    <2>3. CASE due = {0} /\ Cardinality(due) = 1
      <3>1. Nth(due, 1) = 0
        <4>1. {j \in due : j <= 0} = {0}  BY <2>3
        <4>2. Cardinality({j \in due : j <= 0}) = 1  BY <4>1, FS_Singleton
        <4> QED  BY <2>3, <4>2 DEF Nth
      <3>2. 0 \in BufIdx  BY SizesAssumption DEF BufIdx
      <3> DEFINE m == buf[p][0]
      <3>3. m \in Message  BY <3>2 DEF TypeOK
      <3> HIDE DEF m
      <3>4. m.kind \in Kinds \cup {"NONE", QuitKind} /\ m.id \in Ids /\ m.seq \in Nat
        BY <3>3 DEF Message
      <3>5. Packet(m) \in Wire
        BY <3>4, PacketType DEF Packet
      <3>6. \A k \in 1 .. 1 : Packet(buf[p][Nth(due, k)]) \in Wire
        BY <3>1, <3>5 DEF m
      <3> DEFINE g(k) == Packet(buf[p][Nth(due, k)])
                 f == [k \in 1 .. 1 |-> g(k)]
      <3>7. f \in Seq(Wire)
        <4> HIDE DEF g
        <4>1. \A k \in 1 .. 1 : g(k) \in Wire  BY <3>6 DEF g
        <4> QED  BY <4>1
      <3> QED  BY <2>3, <3>7
    <2> QED  BY <2>1, <2>2, <2>3, AtMostFirstSlot
  <1> QED  BY <1>1 DEF DueOutput, OutType

LEMMA EndFrameStep ==
    ASSUME IInv, NEW p \in Procs, EndFrame(p)
    PROVE  IInv'
  <1> USE DEF IInv
  <1>1. /\ pairs' \in [Procs -> [PairIdx -> [from : Procs \cup {ALLPLAYERS}, id : Ids]]]
        /\ cursor' \in [Procs -> PairIdx]
        /\ players' \in [Procs -> [Slots -> Player]]
        /\ joining' \in [Procs -> BOOLEAN] /\ needsSync' \in [Procs -> BOOLEAN]
        /\ dispatched' \in [Procs -> Seq(Procs \X Nat)]
        /\ msgId' \in [Procs -> Ids] /\ log' \in [Procs -> Seq(Entry)]
        /\ changes' \in [Procs -> Nat]
    BY DEF EndFrame, TypeOK
  <1>2. curMs' \in [Procs -> Nat]
    <2> DEFINE t == IF curMs[p] < Horizon[p] THEN curMs[p] + 1 ELSE curMs[p]
    <2>1. t \in Nat /\ curMs \in [Procs -> Nat]  BY DEF TypeOK
    <2>2. curMs' = [curMs EXCEPT ![p] = t]  BY DEF EndFrame
    <2> QED  BY <2>1, <2>2
  <1>3. CASE pending[p] = 0
    <2>1. UNCHANGED <<buf, pending, chan>>
      BY <1>3 DEF EndFrame, SyncWithPlayers
    <2> QED  BY <1>1, <1>2, <2>1, BufferFrame DEF TypeOK
  <1>4. CASE pending[p] # 0
    <2> DEFINE synced == [i \in BufIdx |-> SyncedSlot(p, i)]
               cleared == {i \in BufIdx : buf[p][i].id # 0 /\ synced[i].id = 0}
    <2>1. /\ buf' = [buf EXCEPT ![p] = synced]
          /\ pending' = [pending EXCEPT ![p] = @ - Cardinality(cleared)]
          /\ chan' = Put(chan, p, DueOutput(p))
      BY <1>4 DEF EndFrame, SyncWithPlayers
    <2>2. chan' \in ChanType
      <3>1. chan \in ChanType  BY DEF TypeOK, ChanType
      <3> QED  BY <2>1, <3>1, DueOutputType, PutType DEF BufferInv
    <2>3. synced \in [BufIdx -> Message]
      BY SyncedSlotType
    <2>4. 0 \in BufIdx  BY SizesAssumption DEF BufIdx
    <2>5. \A i \in BufIdx \ {0} : buf[p][i] = NoMsg /\ synced[i] = NoMsg
      BY SyncedSlotType DEF BufferInv, OnlyFirstSlot
    <2>6. cleared \subseteq {0}
      BY <2>5, NoMsgType
    <2>7. /\ Cardinality(cleared) \in {0, 1}
          /\ Cardinality(cleared) = 1 => Occupied(p, 0) /\ synced[0].id = 0
      <3>1. \/ cleared = {} /\ Cardinality(cleared) = 0
            \/ cleared = {0} /\ Cardinality(cleared) = 1
        BY <2>6, AtMostFirstSlot
      <3> QED  BY <3>1 DEF Occupied
    <2>8. synced[0].id # 0 =>
            /\ Occupied(p, 0) /\ Cardinality(cleared) = 0
            /\ synced[0].mask # {} /\ synced[0].retry < MaxRetry
      <3>1. synced[0].id # 0 => Occupied(p, 0)
        BY <2>4, SyncedSlotType DEF Occupied
      <3> QED  BY <2>4, <2>7, <3>1, SyncedSlotLive
    <2> DEFINE gone == Cardinality(cleared)
    <2> HIDE DEF synced, cleared, gone
    <2>9. pending \in [Procs -> Int] /\ buf \in [Procs -> [BufIdx -> Message]]
      BY DEF TypeOK
    <2>10. gone \in {0, 1}  BY <2>7 DEF gone
    <2>11. pending' = [pending EXCEPT ![p] = @ - gone]  BY <2>1 DEF gone
    <2>12. pending' \in [Procs -> Int] /\ buf' \in [Procs -> [BufIdx -> Message]]
      BY <2>1, <2>3, <2>9, <2>10, <2>11
    <2>13. /\ \A q \in Procs \ {p} : buf'[q] = buf[q] /\ pending'[q] = pending[q]
           /\ buf'[p] = synced /\ pending'[p] = pending[p] - gone
      BY <2>1, <2>9, <2>11
    <2>14. gone = 1 => pending[p] > 0
      BY <2>4, <2>7 DEF BufferInv, PendingCounted, gone
    <2>15. OnlyFirstSlot'
      BY <2>5, <2>13 DEF BufferInv, OnlyFirstSlot
    <2>16. PendingNatural'
      BY <2>9, <2>10, <2>13, <2>14 DEF BufferInv, PendingNatural
    <2>17. synced[0].id # 0 => pending[p] - gone > 0
      BY <2>4, <2>8, <2>9, <2>13 DEF BufferInv, PendingCounted, gone
    <2>18. \A i \in BufIdx : synced[i].id # 0 => i = 0
      BY <2>5, NoMsgType
    <2>19. PendingCounted'
      BY <2>13, <2>17, <2>18 DEF BufferInv, PendingCounted, Occupied
    <2>20. StoredIsLive'
      BY <2>8, <2>13, <2>18 DEF BufferInv, StoredIsLive, Occupied
    <2> QED
      BY <1>1, <1>2, <2>2, <2>12, <2>15, <2>16, <2>19, <2>20
      DEF TypeOK, ChanType, BufferInv
  <1> QED  BY <1>3, <1>4

LEMMA InitStep == Init => IInv
  <1> SUFFICES ASSUME Init PROVE IInv
    OBVIOUS
  <1>1. 0 \in Ids /\ 1 \in Ids /\ 0 \in PairIdx
    BY SizesAssumption DEF Ids, PairIdx
  <1>2. buf \in [Procs -> [BufIdx -> Message]] /\ pending \in [Procs -> Int]
    BY NoMsgType DEF Init
  <1>3. NoPair \in [from : Procs \cup {ALLPLAYERS}, id : Ids]
    BY <1>1 DEF NoPair
  <1>4. /\ msgId \in [Procs -> Ids] /\ cursor \in [Procs -> PairIdx]
        /\ pairs \in [Procs -> [PairIdx -> [from : Procs \cup {ALLPLAYERS}, id : Ids]]]
    BY <1>1, <1>3 DEF Init
  <1>5. players \in [Procs -> [Slots -> Player]]
    BY RosterAssumption DEF Init, Player
  <1>6. /\ joining \in [Procs -> BOOLEAN] /\ needsSync \in [Procs -> BOOLEAN]
        /\ curMs \in [Procs -> Nat] /\ changes \in [Procs -> Nat]
    BY DEF Init
  <1>7. /\ chan \in [Procs -> [Procs -> Seq(Wire)]]
        /\ log \in [Procs -> Seq(Entry)] /\ dispatched \in [Procs -> Seq(Procs \X Nat)]
    BY DEF Init
  <1>8. \A p \in Procs : \A i \in BufIdx : buf[p][i] = NoMsg
    BY DEF Init
  <1>9. BufferInv
    BY <1>8, NoMsgType
    DEF Init, BufferInv, OnlyFirstSlot, PendingNatural, PendingCounted, StoredIsLive, Occupied
  <1> QED  BY <1>2, <1>4, <1>5, <1>6, <1>7, <1>9 DEF IInv, TypeOK

LEMMA NextStep == IInv /\ [Next]_vars => IInv'
  <1> SUFFICES ASSUME IInv, [Next]_vars PROVE IInv'
    OBVIOUS
  <1>1. \A p, q \in Procs : \A n \in Ready(p, q) : n \in 1 .. Len(chan[p][q])
    BY DEF Ready, IInv, TypeOK
  <1>2. CASE \E p \in Procs : Send(p)
    <2>1. Dests \subseteq DestType  BY ProcsAssumption DEF DestType
    <2> QED  BY <1>2, <2>1, SendStep DEF Send
  <1>3. CASE \E q \in Procs : Recv(q)
    BY <1>1, <1>3, ReceiveStep DEF Recv
  <1>4. CASE \E p \in Procs : EndFrame(p)
    BY <1>4, EndFrameStep
  <1>5. CASE Loss
    BY <1>1, <1>5, LoseStep DEF Loss
  <1>6. CASE Roster
    BY <1>6, RosterStep DEF Roster
  <1>7. CASE UNCHANGED vars
    <2>1. UNCHANGED <<buf, pending>>  BY <1>7 DEF vars
    <2> QED  BY <1>7, <2>1, BufferFrame DEF IInv, TypeOK, vars
  <1> QED  BY <1>2, <1>3, <1>4, <1>5, <1>6, <1>7 DEF Next

\* The inductive invariant holds of every state of every run.
THEOREM Invariance == Spec => []IInv
  <1>1. Init => IInv  BY InitStep
  <1>2. IInv /\ [Next]_vars => IInv'  BY NextStep
  <1> QED  BY <1>1, <1>2, PTL DEF Spec

\* Type correctness, and with it that no acknowledgement of id 0 is ever sent.
THEOREM TypeCorrect == Spec => []TypeOK
  <1>1. IInv => TypeOK  BY DEF IInv
  <1> QED  BY <1>1, Invariance, PTL

\* sithComm_MsgTmpBuf is used as a buffer of one message, whatever its size.
THEOREM OneSlotBuffer == Spec => []OnlyFirstSlot
  <1>1. IInv => OnlyFirstSlot  BY DEF IInv, BufferInv
  <1> QED  BY <1>1, Invariance, PTL

\* sithComm_idk2 never reads zero while a message waits, so the early return
\* of sithComm_SyncWithPlayers never skips a retransmission.
THEOREM CounterCoversBuffer == Spec => []PendingCounted
  <1>1. IInv => PendingCounted  BY DEF IInv, BufferInv
  <1> QED  BY <1>1, Invariance, PTL

\* Nothing stays in the buffer that waits for nobody or has no tries left.
THEOREM BufferIsLive == Spec => []StoredIsLive
  <1>1. IInv => StoredIsLive  BY DEF IInv, BufferInv
  <1> QED  BY <1>1, Invariance, PTL

===============================================================================
