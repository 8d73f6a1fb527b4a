---------------------------- MODULE SithEvent_proofs ----------------------------
(***************************************************************************)
(* Proofs about SithEvent: the pool of timers, the order of the list, what *)
(* sithEvent_Advance calls and when, and that all of it together keeps the *)
(* promise of TimerQueue.                                                  *)
(***************************************************************************)
EXTENDS SithEvent, FiniteSetTheorems, SequenceTheorems, WellFoundedInduction, TLAPS

-----------------------------------------------------------------------------
(* Numbers and sets of numbers *)

LEMMA Modulo ==
    ASSUME NEW a \in Int, NEW m \in Nat
    PROVE  /\ 0 <= a /\ a < m => a % m = a
           /\ m > 0 => a % m \in 0 .. m - 1
           /\ a < 0 /\ a >= -m => a % m = a + m
  OBVIOUS

\* A set of numbers that is not empty has a smallest one.
LEMMA Smallest ==
    ASSUME NEW K \in SUBSET Nat, K # {}
    PROVE  \E k \in K : \A j \in K : k <= j
  <1>1. PICK k \in K : \A j \in K : ~(<<j, k>> \in OpToRel(<, Nat))
    BY WFMin, NatLessThanWellFounded
  <1>2. \A j \in K : j \in Nat /\ k \in Nat /\ ~(j < k)
    BY <1>1 DEF OpToRel
  <1> QED
    BY <1>2

\* A part of a finite set that is not empty.
LEMMA SizeOfPart ==
    ASSUME NEW S, IsFiniteSet(S), NEW T \in SUBSET S, T # {}
    PROVE  IsFiniteSet(T) /\ Cardinality(T) \in 1 .. Cardinality(S)
  <1>1. IsFiniteSet(T) /\ Cardinality(T) <= Cardinality(S)
    BY FS_Subset
  <1>2. Cardinality(T) \in Nat /\ Cardinality(S) \in Nat
    BY <1>1, FS_CardinalityType
  <1>3. Cardinality(T) # 0
    BY <1>1, FS_EmptySet
  <1> QED
    BY <1>1, <1>2, <1>3

\* The rank of the numbers of a set: r counts those up to a number of the set.
LEMMA RankIsOnto ==
    ASSUME NEW S \in SUBSET Nat, IsFiniteSet(S),
           NEW r, r = [i \in S |-> Cardinality({j \in S : j <= i})]
    PROVE  /\ Cardinality(S) \in Nat
           /\ \A i \in S : r[i] \in 1 .. Cardinality(S)
           /\ \A i, j \in S : i < j => r[i] < r[j]
           /\ \A k \in 1 .. Cardinality(S) : \E i \in S : r[i] = k
  <1> DEFINE n == Cardinality(S)
             upTo(i) == {j \in S : j <= i}
  <1>1. n \in Nat
    BY FS_CardinalityType
  <1>2. ASSUME NEW i \in S
        PROVE  IsFiniteSet(upTo(i)) /\ Cardinality(upTo(i)) \in 1 .. n
    <2>1. upTo(i) \in SUBSET S /\ upTo(i) # {}
      OBVIOUS
    <2> QED
      BY <2>1, SizeOfPart
  <1>3. ASSUME NEW i \in S, NEW j \in S, i < j
        PROVE  Cardinality(upTo(i)) < Cardinality(upTo(j))
    <2>0. \A k \in S : k \in Nat
      OBVIOUS
    <2>a. \A k \in S : k <= i => k <= j
      BY <1>3, <2>0
    <2>b. j \in upTo(j) /\ j \notin upTo(i)
      BY <1>3, <2>0
    <2>1. upTo(i) \in SUBSET upTo(j) /\ upTo(i) # upTo(j)
      BY <2>a, <2>b
    <2>2. Cardinality(upTo(i)) <= Cardinality(upTo(j)) /\ Cardinality(upTo(i)) # Cardinality(upTo(j))
      BY <1>2, <2>1, FS_Subset
    <2>3. Cardinality(upTo(i)) \in Nat /\ Cardinality(upTo(j)) \in Nat
      BY <1>2, FS_CardinalityType
    <2> HIDE DEF upTo
    <2> QED
      BY <2>2, <2>3
  <1>4. \A i \in S : r[i] = Cardinality(upTo(i))
    OBVIOUS
  <1> HIDE DEF upTo
  <1>5. \A i \in S : r[i] \in 1 .. n
    BY <1>2, <1>4
  <1>6. \A i, j \in S : i < j => r[i] < r[j]
    BY <1>3, <1>4
  <1>7. \A i, j \in S : i # j => r[i] # r[j]
    BY <1>1, <1>5, <1>6
  <1>8. r \in Injection(S, 1 .. n)
    <2>1. r \in [S -> 1 .. n]
      BY <1>5
    <2> QED
      BY <1>7, <2>1 DEF Injection, IsInjective
  <1>9. IsFiniteSet(1 .. n) /\ Cardinality(1 .. n) = n
    BY <1>1, FS_Interval
  <1>10. r \in Surjection(S, 1 .. n)
    BY <1>8, <1>9, FS_Injection
  <1> QED
    BY <1>1, <1>5, <1>6, <1>10 DEF Surjection

-----------------------------------------------------------------------------
(* The operators on the list *)

\* At picks the elements at the positions in S, each once and in their order.
LEMMA AtPicks ==
    ASSUME NEW T, NEW l \in Seq(T), NEW S \in SUBSET DOMAIN l
    PROVE  /\ At(l, S) \in Seq(T)
           /\ \A k \in DOMAIN At(l, S) : Nth(S, k) \in S /\ At(l, S)[k] = l[Nth(S, k)]
           /\ \A j, k \in DOMAIN At(l, S) : j < k => Nth(S, j) < Nth(S, k)
           /\ \A i \in S : \E k \in DOMAIN At(l, S) : Nth(S, k) = i
  <1> DEFINE n == Cardinality(S)
             r == [i \in S |-> Cardinality({j \in S : j <= i})]
  <1>1. S \in SUBSET Nat /\ IsFiniteSet(S)
    <2>1. DOMAIN l = 1 .. Len(l) /\ Len(l) \in Nat
      OBVIOUS
    <2>2. IsFiniteSet(1 .. Len(l))
      BY <2>1, FS_Interval
    <2> QED
      BY <2>1, <2>2, FS_Subset
  <1>2. /\ n \in Nat
        /\ \A i \in S : r[i] \in 1 .. n
        /\ \A i, j \in S : i < j => r[i] < r[j]
        /\ \A k \in 1 .. n : \E i \in S : r[i] = k
    BY <1>1, RankIsOnto
  <1>3. \A k : Nth(S, k) = CHOOSE i \in S : r[i] = k
    BY DEF Nth
  <1> HIDE DEF r
  <1>4. \A k \in 1 .. n : Nth(S, k) \in S /\ r[Nth(S, k)] = k
    BY <1>2, <1>3
  <1>5. \A j, k \in 1 .. n : j < k => Nth(S, j) < Nth(S, k)
    <2> TAKE j, k \in 1 .. n
    <2> HAVE j < k
    <2> DEFINE p == Nth(S, j)
               q == Nth(S, k)
    <2>1. p \in S /\ q \in S /\ r[p] = j /\ r[q] = k
      BY <1>4
    <2> HIDE DEF p, q
    <2>2. p \in Nat /\ q \in Nat /\ p # q /\ ~(q < p)
      BY <1>1, <1>2, <2>1
    <2>3. p < q
      BY <2>2
    <2> QED
      BY <2>3 DEF p, q
  <1>6. \A i \in S : \E k \in 1 .. n : Nth(S, k) = i
    <2> TAKE i \in S
    <2>1. r[i] \in 1 .. n
      BY <1>2
    <2>2. Nth(S, r[i]) \in S /\ r[Nth(S, r[i])] = r[i]
      BY <1>4, <2>1
    <2>3. \A p, q \in S : r[p] = r[q] => p = q
      BY <1>1, <1>2
    <2> QED
      BY <2>1, <2>2, <2>3
  <1>7. At(l, S) = [k \in 1 .. n |-> l[Nth(S, k)]]
    BY DEF At
  <1>8. \A k \in 1 .. n : l[Nth(S, k)] \in T
    BY <1>4
  <1>9. At(l, S) \in Seq(T) /\ DOMAIN At(l, S) = 1 .. n
    BY <1>2, <1>7, <1>8
  <1> QED
    BY <1>4, <1>5, <1>6, <1>7, <1>9

\* InsertAt is the place behind everything that ends before or with the new timer.
LEMMA InsertPlace ==
    ASSUME NEW ends \in Seq(Int), NEW e \in Int
    PROVE  LET k == InsertAt(ends, e) IN
           /\ k \in 1 .. Len(ends) + 1
           /\ k = Len(ends) + 1 \/ ends[k] > e
           /\ \A j \in 1 .. k - 1 : ends[j] <= e
  <1> DEFINE K == {k \in 1 .. Len(ends) + 1 : k = Len(ends) + 1 \/ ends[k] > e}
  <1>1. Len(ends) \in Nat
    OBVIOUS
  <1>2. K \in SUBSET Nat /\ K # {}
    BY <1>1
  <1>3. PICK k \in K : \A j \in K : k <= j
    BY <1>2, Smallest
  <1>4. \A j \in 1 .. k - 1 : ends[j] <= e
    <2> TAKE j \in 1 .. k - 1
    <2>1. j \in 1 .. Len(ends) /\ j \notin K
      BY <1>1, <1>3
    <2>2. ends[j] \in Int
      BY <2>1
    <2> QED
      BY <1>1, <2>1, <2>2
  <1>5. k \in 1 .. Len(ends) + 1 /\ (k = Len(ends) + 1 \/ ends[k] > e)
    OBVIOUS
  <1> QED
    BY <1>4, <1>5 DEF InsertAt

\* One element is put into a sequence.
Splice(l, k, x) == SubSeq(l, 1, k - 1) \o <<x>> \o SubSeq(l, k, Len(l))

LEMMA Spliced ==
    ASSUME NEW T, NEW l \in Seq(T), NEW k \in 1 .. Len(l) + 1, NEW x \in T
    PROVE  LET m == Splice(l, k, x) IN
           /\ m \in Seq(T) /\ Len(m) = Len(l) + 1
           /\ \A i \in 1 .. k - 1 : m[i] = l[i]
           /\ m[k] = x
           /\ \A i \in k + 1 .. Len(l) + 1 : m[i] = l[i - 1]
  <1> DEFINE n == Len(l)
             a == SubSeq(l, 1, k - 1)
             b == SubSeq(l, k, n)
             c == a \o <<x>>
             m == c \o b
  <1>1. n \in Nat /\ k \in Int
    OBVIOUS
  <1>2. /\ a \in Seq(T) /\ Len(a) = k - 1
        /\ \A i \in 1 .. k - 1 : a[i] = l[i]
    BY <1>1
  <1>3. /\ b \in Seq(T) /\ Len(b) = n - k + 1
        /\ \A i \in 1 .. n - k + 1 : b[i] = l[k + i - 1]
    <2>1. \A i \in k .. n : l[i] \in T
      BY <1>1
    <2>2. /\ b \in Seq(T) /\ Len(b) = IF k <= n THEN n - k + 1 ELSE 0
          /\ \A i \in 1 .. n - k + 1 : b[i] = l[k + i - 1]
      BY <1>1, <2>1, SubSeqProperties
    <2> HIDE DEF b
    <2> QED
      BY <1>1, <2>2
  <1> HIDE DEF a, b
  <1>4. /\ c \in Seq(T) /\ Len(c) = k /\ c[k] = x
        /\ \A i \in 1 .. k - 1 : c[i] = l[i]
    BY <1>1, <1>2
  <1> HIDE DEF c
  <1>6. /\ m \in Seq(T) /\ Len(m) = n + 1
        /\ \A i \in 1 .. k : m[i] = c[i]
        /\ \A i \in k + 1 .. n + 1 : m[i] = b[i - k]
    <2>1. /\ c \o b \in Seq(T) /\ Len(c \o b) = Len(c) + Len(b)
          /\ \A i \in 1 .. Len(c) + Len(b) :
                (c \o b)[i] = IF i <= Len(c) THEN c[i] ELSE b[i - Len(c)]
      BY <1>3, <1>4, ConcatProperties
    <2>2. Len(c) + Len(b) = n + 1
      BY <1>1, <1>3, <1>4
    <2> HIDE DEF m
    <2>3. m \in Seq(T) /\ Len(m) = n + 1
      BY <2>1, <2>2 DEF m
    <2>4. \A i \in 1 .. n + 1 : m[i] = IF i <= k THEN c[i] ELSE b[i - k]
      BY <1>4, <2>1, <2>2 DEF m
    <2> QED
      BY <1>1, <2>3, <2>4
  <1> HIDE DEF m
  <1>7. \A i \in k + 1 .. n + 1 : m[i] = l[i - 1]
    <2> TAKE i \in k + 1 .. n + 1
    <2>1. i - k \in 1 .. n - k + 1 /\ k + (i - k) - 1 = i - 1
      BY <1>1
    <2> QED
      BY <1>3, <1>6, <2>1
  <1>8. /\ m \in Seq(T) /\ Len(m) = n + 1
        /\ \A i \in 1 .. k - 1 : m[i] = l[i]
        /\ m[k] = x
        /\ \A i \in k + 1 .. n + 1 : m[i] = l[i - 1]
    BY <1>1, <1>4, <1>6, <1>7
  <1> QED
    BY <1>8 DEF Splice, m, c, b, a

-----------------------------------------------------------------------------
(* The inductive invariant *)

\* The order of the list: by time, and by age among those of the same time.
Precedes(e, f) == e.endMs < f.endMs \/ (e.endMs = f.endMs /\ e.seq < f.seq)
InOrder(l, e) == \A j, k \in DOMAIN l : j < k => Precedes(e[l[j]], e[l[k]])
ListInOrder == InOrder(list, event)

\* What is on the list has been armed by somebody.
ListArmed == \A k \in DOMAIN list :
    LET e == event[list[k]] IN e.cog \in Cogs /\ e.timer \in TimerIds /\ e.seq \in 1 .. arms

\* Between two calls of Advance nothing is overdue; during one, only what was armed before.
NothingMissed == \A k \in DOMAIN list :
    LET e == event[list[k]] IN
    e.endMs < curMs => phase # "frame" /\ e.seq <= armedBefore

\* A saved game holds what waited, in its order, none of it overdue.
SavedInOrder ==
    /\ \A k \in DOMAIN saved.timers :
          saved.ms + saved.timers[k].left < TimeSpan /\ saved.timers[k].seq <= arms
    /\ \A j, k \in DOMAIN saved.timers : j < k =>
          \/ saved.timers[j].left < saved.timers[k].left
          \/ /\ saved.timers[j].left = saved.timers[k].left
             /\ saved.timers[j].seq < saved.timers[k].seq

\* Advance runs only while a level is open.
ClosedBetween == ~open => phase = "frame"

TaskKept(k) == tasks[k].periodic =>
    tasks[k].creationMs <= curMs /\ curMs <= tasks[k].creationMs + tasks[k].rate
\* The tasks that Advance has passed have had their turn.
TasksSoFar ==
    /\ phase \in {"tasks", "taskHandler"} => \A k \in Tasks : k < idx => TaskKept(k)
    /\ phase = "taskHandler" => idx \in Tasks

Types ==
    /\ list \in Seq(Slots) /\ event \in [Slots -> EventType] /\ free \in Seq(Slots)
    /\ tasks \in [Tasks -> TaskType]
    /\ open \in BOOLEAN
    /\ curMs \in 0 .. Horizon
    /\ phase \in Phases /\ idx \in 1 .. NumTasks + 1
    /\ current \in Slots \cup {NoSlot}
    /\ saved.ms \in 0 .. Horizon /\ saved.made \in BOOLEAN
    /\ saved.timers \in Seq(TimerType) /\ Len(saved.timers) <= NumEvents
    /\ arms \in 0 .. MaxArms /\ armedBefore \in 0 .. arms
    /\ budget \in [registers : 0 .. MaxRegisters, saves : 0 .. MaxSaves, loads : 0 .. MaxLoads,
                   levels : 0 .. MaxLevels]

PoolInv == SlotsPartition /\ ListInOrder /\ ListArmed
TimeInv == NothingMissed /\ ArmedDuringAdvanceWaits /\ SavedInOrder /\ ClosedBetween
TaskInv == TasksSoFar /\ TasksKept
IInv == Types /\ PoolInv /\ TimeInv /\ TaskInv

-----------------------------------------------------------------------------
(* The pool *)

\* A sequence of different slots is not longer than the pool.
LEMMA FitsPool ==
    ASSUME NEW l \in Seq(Slots), NoRepeats(l)
    PROVE  Len(l) <= NumEvents
  <1> USE EventAssumption
  <1>1. Len(l) \in Nat /\ DOMAIN l = 1 .. Len(l) /\ l \in [1 .. Len(l) -> Slots]
    BY LenProperties
  <1>2. l \in Injection(1 .. Len(l), Slots)
    BY <1>1 DEF NoRepeats, Injection, IsInjective
  <1>3. IsFiniteSet(Slots) /\ Cardinality(Slots) = NumEvents
    BY FS_Interval DEF Slots
  <1>4. \A n \in Nat : Cardinality(1 .. n) = n
    BY FS_Interval
  <1>5. Cardinality(1 .. Len(l)) <= Cardinality(Slots)
    BY <1>2, <1>3, FS_Injection
  <1> QED
    BY <1>1, <1>3, <1>4, <1>5

LEMMA TypesSuffice == Types /\ SlotsPartition => TypeOK
  BY FitsPool DEF Types, SlotsPartition, TypeOK

\* After sithEvent_Reset every slot is on the stack of free ones, and so it is of those that
\* sithGamesave has not taken for the timers it restores.
LEMMA FreeAfterReset ==
    ASSUME NEW n \in 0 .. NumEvents
    PROVE  LET l == SubSeq(ResetFree, 1, NumEvents - n) IN
           /\ l \in Seq(Slots) /\ NoRepeats(l)
           /\ SlotsOf(l) = {s \in Slots : s >= n}
  <1> USE EventAssumption
  <1> DEFINE l == SubSeq(ResetFree, 1, NumEvents - n)
             m == NumEvents - n
  <1>1. m \in 0 .. NumEvents
    OBVIOUS
  <1>2. \A i \in 1 .. m : ResetFree[i] = NumEvents - i /\ NumEvents - i \in Slots
    BY DEF ResetFree, Slots
  <1>3. /\ l \in Seq(Slots) /\ Len(l) = IF 1 <= m THEN m - 1 + 1 ELSE 0
        /\ \A i \in 1 .. m - 1 + 1 : l[i] = ResetFree[1 + i - 1]
    BY <1>1, <1>2, SubSeqProperties
  <1> HIDE DEF l
  <1>4. DOMAIN l = 1 .. m /\ \A i \in 1 .. m : l[i] = NumEvents - i
    BY <1>1, <1>2, <1>3
  <1>5. NoRepeats(l)
    BY <1>1, <1>4 DEF NoRepeats
  <1>6. SlotsOf(l) = {s \in Slots : s >= n}
    <2>1. ASSUME NEW s \in SlotsOf(l) PROVE s \in Slots /\ s >= n
      BY <1>1, <1>4 DEF SlotsOf, Slots
    <2>2. ASSUME NEW s \in Slots, s >= n PROVE s \in SlotsOf(l)
      <3>1. NumEvents - s \in 1 .. m /\ NumEvents - (NumEvents - s) = s
        BY <1>1, <2>2 DEF Slots
      <3> QED
        BY <1>4, <3>1 DEF SlotsOf
    <2> QED
      BY <2>1, <2>2
  <1> QED
    BY <1>3, <1>5, <1>6 DEF l

\* The slots of a list that was put together or taken apart.
LEMMA SlotsOfJoined ==
    ASSUME NEW a \in Seq(Slots), NEW b \in Seq(Slots), NoRepeats(a), NoRepeats(b),
           SlotsOf(a) \cap SlotsOf(b) = {}
    PROVE  /\ a \o b \in Seq(Slots) /\ NoRepeats(a \o b)
           /\ SlotsOf(a \o b) = SlotsOf(a) \cup SlotsOf(b)
  <1> DEFINE c == a \o b
             n == Len(a)
             m == Len(b)
  <1>1. n \in Nat /\ m \in Nat /\ DOMAIN a = 1 .. n /\ DOMAIN b = 1 .. m
    BY LenProperties
  <1>2. /\ c \in Seq(Slots) /\ Len(c) = n + m
        /\ \A i \in 1 .. n + m : c[i] = IF i <= n THEN a[i] ELSE b[i - n]
    BY ConcatProperties
  <1> HIDE DEF c, n, m
  <1>3. DOMAIN c = 1 .. n + m
    BY <1>1, <1>2
  <1>4. \A i \in 1 .. n : i \in DOMAIN c /\ c[i] = a[i]
    BY <1>1, <1>2, <1>3
  <1>5. \A i \in 1 .. m : n + i \in DOMAIN c /\ c[n + i] = b[i]
    <2> TAKE i \in 1 .. m
    <2>1. n + i \in 1 .. n + m /\ ~(n + i <= n) /\ (n + i) - n = i
      BY <1>1
    <2> QED
      BY <1>2, <1>3, <2>1
  <1>6. \A i \in DOMAIN c : i \in 1 .. n \/ i - n \in 1 .. m
    BY <1>1, <1>3
  <1>7. SlotsOf(c) = SlotsOf(a) \cup SlotsOf(b)
    <2>1. ASSUME NEW s \in SlotsOf(c) PROVE s \in SlotsOf(a) \cup SlotsOf(b)
      <3>1. PICK i \in DOMAIN c : c[i] = s
        BY DEF SlotsOf
      <3>2. CASE i \in 1 .. n
        BY <1>1, <1>4, <3>1, <3>2 DEF SlotsOf
      <3>3. CASE i \notin 1 .. n
        <4>1. i - n \in 1 .. m /\ c[i] = b[i - n]
          BY <1>1, <1>2, <1>3, <1>6, <3>3
        <4> QED
          BY <1>1, <3>1, <4>1 DEF SlotsOf
      <3> QED
        BY <3>2, <3>3
    <2>2. ASSUME NEW s \in SlotsOf(a) PROVE s \in SlotsOf(c)
      BY <1>1, <1>4 DEF SlotsOf
    <2>3. ASSUME NEW s \in SlotsOf(b) PROVE s \in SlotsOf(c)
      BY <1>1, <1>5 DEF SlotsOf
    <2> QED
      BY <2>1, <2>2, <2>3
  <1>8. NoRepeats(c)
    <2> SUFFICES ASSUME NEW i \in DOMAIN c, NEW j \in DOMAIN c, i < j, c[i] = c[j] PROVE FALSE
      BY <1>1, <1>3 DEF NoRepeats
    <2>0. i \in 1 .. n + m /\ j \in 1 .. n + m
      BY <1>3
    <2>1. CASE j <= n
      BY <1>1, <1>2, <2>0, <2>1 DEF NoRepeats
    <2>2. CASE i > n
      <3>1. i - n \in DOMAIN b /\ j - n \in DOMAIN b /\ i - n # j - n
        BY <1>1, <2>0, <2>2
      <3>2. b[i - n] = b[j - n]
        BY <1>1, <1>2, <2>0, <2>2
      <3> QED
        BY <3>1, <3>2 DEF NoRepeats
    <2>3. CASE i <= n /\ j > n
      <3>1. i \in DOMAIN a /\ j - n \in DOMAIN b
        BY <1>1, <2>0, <2>3
      <3>2. a[i] = b[j - n]
        BY <1>1, <1>2, <2>0, <2>3
      <3> QED
        BY <3>1, <3>2 DEF SlotsOf
    <2> QED
      BY <1>1, <2>0, <2>1, <2>2, <2>3
  <1> QED
    BY <1>2, <1>7, <1>8 DEF c

\* Some of the elements, picked by At, and the rest of them.
LEMMA PickedSlots ==
    ASSUME NEW l \in Seq(Slots), NoRepeats(l), NEW S \in SUBSET DOMAIN l
    PROVE  /\ At(l, S) \in Seq(Slots) /\ NoRepeats(At(l, S))
           /\ SlotsOf(At(l, S)) = {l[k] : k \in S}
  <1> DEFINE a == At(l, S)
  <1>1. /\ a \in Seq(Slots)
        /\ \A k \in DOMAIN a : Nth(S, k) \in S /\ a[k] = l[Nth(S, k)]
        /\ \A j, k \in DOMAIN a : j < k => Nth(S, j) < Nth(S, k)
        /\ \A i \in S : \E k \in DOMAIN a : Nth(S, k) = i
    BY AtPicks
  <1> HIDE DEF a
  <1>2. DOMAIN a \in SUBSET Nat /\ DOMAIN l \in SUBSET Nat
    BY <1>1, LenProperties
  <1>3. NoRepeats(a)
    <2> SUFFICES ASSUME NEW j \in DOMAIN a, NEW k \in DOMAIN a, j < k, a[j] = a[k] PROVE FALSE
      BY <1>2 DEF NoRepeats
    <2>1. Nth(S, j) < Nth(S, k) /\ Nth(S, j) \in DOMAIN l /\ Nth(S, k) \in DOMAIN l
      BY <1>1
    <2>2. Nth(S, j) # Nth(S, k)
      BY <1>2, <2>1
    <2> QED
      BY <1>1, <2>1, <2>2 DEF NoRepeats
  <1>4. SlotsOf(a) = {l[k] : k \in S}
    <2>1. ASSUME NEW s \in SlotsOf(a) PROVE \E k \in S : l[k] = s
      BY <1>1 DEF SlotsOf
    <2>2. ASSUME NEW k \in S PROVE l[k] \in SlotsOf(a)
      BY <1>1 DEF SlotsOf
    <2> QED
      BY <2>1, <2>2
  <1> QED
    BY <1>1, <1>3, <1>4 DEF a

LEMMA ResetSlots ==
    ResetFree \in Seq(Slots) /\ NoRepeats(ResetFree) /\ SlotsOf(ResetFree) = Slots
  <1> USE EventAssumption
  <1>1. 0 \in 0 .. NumEvents /\ NumEvents - 0 = NumEvents /\ \A s \in Slots : s >= 0
    BY DEF Slots
  <1>2. SubSeq(ResetFree, 1, NumEvents) = ResetFree
    <2>1. \A i \in 1 .. NumEvents : NumEvents - i \in Slots
      BY DEF Slots
    <2>2. ResetFree \in Seq(Slots) /\ Len(ResetFree) = NumEvents
      BY <2>1 DEF ResetFree
    <2> QED
      BY <2>2, SubSeqFull
  <1> QED
    BY <1>1, <1>2, FreeAfterReset

\* The last of the stack of free slots is taken, or the first of the list.
LEMMA LastTaken ==
    ASSUME NEW l \in Seq(Slots), l # <<>>, NoRepeats(l)
    PROVE  LET m == SubSeq(l, 1, Len(l) - 1) IN
           /\ m \in Seq(Slots) /\ NoRepeats(m) /\ l[Len(l)] \in Slots
           /\ l[Len(l)] \in SlotsOf(l) /\ SlotsOf(m) = SlotsOf(l) \ {l[Len(l)]}
  <1> DEFINE n == Len(l)
             m == SubSeq(l, 1, n - 1)
  <1>1. n \in Nat /\ n > 0 /\ DOMAIN l = 1 .. n
    BY EmptySeq
  <1>2. m \in Seq(Slots) /\ Len(m) = n - 1 /\ \A i \in 1 .. n - 1 : m[i] = l[i]
    BY <1>1
  <1> HIDE DEF m
  <1>3. DOMAIN m = 1 .. n - 1
    BY <1>1, <1>2
  <1>4. l[n] \in Slots
    BY <1>1
  <1> HIDE DEF n
  <1>5. NoRepeats(m)
    BY <1>1, <1>2, <1>3 DEF NoRepeats
  <1>6. l[n] \in SlotsOf(l)
    BY <1>1 DEF SlotsOf
  <1>7. SlotsOf(m) = SlotsOf(l) \ {l[n]}
    <2>1. ASSUME NEW t \in SlotsOf(m) PROVE t \in SlotsOf(l) /\ t # l[n]
      BY <1>1, <1>2, <1>3 DEF SlotsOf, NoRepeats
    <2>2. ASSUME NEW t \in SlotsOf(l), t # l[n] PROVE t \in SlotsOf(m)
      BY <1>1, <1>2, <1>3, <2>2 DEF SlotsOf
    <2> QED
      BY <2>1, <2>2
  <1> QED
    BY <1>2, <1>4, <1>5, <1>6, <1>7 DEF m, n

LEMMA FirstTaken ==
    ASSUME NEW l \in Seq(Slots), l # <<>>, NoRepeats(l)
    PROVE  /\ Tail(l) \in Seq(Slots) /\ NoRepeats(Tail(l)) /\ l[1] \in Slots
           /\ l[1] \in SlotsOf(l) /\ SlotsOf(Tail(l)) = SlotsOf(l) \ {l[1]}
           /\ 1 \in DOMAIN l
           /\ \A i \in DOMAIN Tail(l) : i + 1 \in DOMAIN l /\ Tail(l)[i] = l[i + 1] /\ i + 1 > 1
           /\ \A i \in DOMAIN l : i = 1 \/ 1 < i
  <1> DEFINE n == Len(l)
             m == Tail(l)
  <1>1. n \in Nat /\ n > 0 /\ DOMAIN l = 1 .. n
    BY EmptySeq
  <1>2. m \in Seq(Slots) /\ Len(m) = n - 1 /\ \A i \in 1 .. n - 1 : m[i] = l[i + 1]
    BY <1>1
  <1> HIDE DEF m
  <1>3. DOMAIN m = 1 .. n - 1
    BY <1>1, <1>2
  <1>4. l[1] \in Slots
    BY <1>1
  <1> HIDE DEF n
  <1>5. NoRepeats(m)
    <2> SUFFICES ASSUME NEW i \in 1 .. n - 1, NEW j \in 1 .. n - 1, m[i] = m[j] PROVE i = j
      BY <1>3 DEF NoRepeats
    <2>1. i + 1 \in 1 .. n /\ j + 1 \in 1 .. n /\ l[i + 1] = l[j + 1]
      BY <1>1, <1>2
    <2>2. i + 1 = j + 1
      BY <1>1, <2>1 DEF NoRepeats
    <2> QED
      BY <2>2
  <1>6. l[1] \in SlotsOf(l)
    BY <1>1 DEF SlotsOf
  <1>7. SlotsOf(m) = SlotsOf(l) \ {l[1]}
    <2>1. ASSUME NEW t \in SlotsOf(m) PROVE t \in SlotsOf(l) /\ t # l[1]
      <3>1. PICK i \in 1 .. n - 1 : m[i] = t
        BY <1>3 DEF SlotsOf
      <3>2. i + 1 \in 1 .. n /\ 1 \in 1 .. n /\ i + 1 # 1 /\ l[i + 1] = t
        BY <1>1, <1>2, <3>1
      <3> QED
        BY <1>1, <3>2 DEF SlotsOf, NoRepeats
    <2>2. ASSUME NEW t \in SlotsOf(l), t # l[1] PROVE t \in SlotsOf(m)
      <3>1. PICK i \in 1 .. n : l[i] = t
        BY <1>1 DEF SlotsOf
      <3>2. i - 1 \in 1 .. n - 1 /\ (i - 1) + 1 = i
        BY <1>1, <2>2, <3>1
      <3> QED
        BY <1>2, <1>3, <3>1, <3>2 DEF SlotsOf
    <2> QED
      BY <2>1, <2>2
  <1>8. \A i \in DOMAIN m : i + 1 \in DOMAIN l /\ m[i] = l[i + 1] /\ i + 1 > 1
    BY <1>1, <1>2, <1>3
  <1>9. 1 \in DOMAIN l /\ \A i \in DOMAIN l : i = 1 \/ 1 < i
    BY <1>1
  <1> QED
    BY <1>2, <1>4, <1>5, <1>6, <1>7, <1>8, <1>9 DEF m

\* A list into which a slot is put that it did not hold.
LEMMA InsertedSlots ==
    ASSUME NEW l \in Seq(Slots), NEW e \in [Slots -> EventType], NEW s \in Slots, NEW ms \in Nat,
           NoRepeats(l), s \notin SlotsOf(l)
    PROVE  /\ Inserted(l, e, s, ms) \in Seq(Slots) /\ NoRepeats(Inserted(l, e, s, ms))
           /\ SlotsOf(Inserted(l, e, s, ms)) = SlotsOf(l) \cup {s}
           /\ \A f \in [Slots -> EventType] :
                 /\ InOrder(l, e)
                 /\ \A t \in SlotsOf(l) : f[t] = e[t] /\ f[t].seq < f[s].seq
                 /\ f[s].endMs = ms
                 => InOrder(Inserted(l, e, s, ms), f)
  <1> DEFINE n == Len(l)
             ends == Ends(l, e)
             k == InsertAt(ends, ms)
             m == Splice(l, k, s)
  <1>1. n \in Nat /\ DOMAIN l = 1 .. n /\ \A i \in 1 .. n : l[i] \in Slots
    OBVIOUS
  <1>2. \A t \in Slots : e[t].endMs \in Int
    BY DEF EventType
  <1>3. ends \in Seq(Int) /\ Len(ends) = n /\ \A i \in 1 .. n : ends[i] = e[l[i]].endMs
    BY <1>1, <1>2 DEF Ends
  <1> HIDE DEF ends
  <1>4. /\ k \in 1 .. n + 1
        /\ k = n + 1 \/ ends[k] > ms
        /\ \A j \in 1 .. k - 1 : ends[j] <= ms
    <2>1. ms \in Int /\ ends \in Seq(Int)
      BY <1>3
    <2>2. /\ k \in 1 .. Len(ends) + 1
          /\ k = Len(ends) + 1 \/ ends[k] > ms
          /\ \A j \in 1 .. k - 1 : ends[j] <= ms
      BY <2>1, InsertPlace
    <2> HIDE DEF k, n
    <2> QED
      BY <1>3, <2>2
  <1> HIDE DEF k
  <1>5. /\ m \in Seq(Slots) /\ Len(m) = n + 1
        /\ \A i \in 1 .. k - 1 : m[i] = l[i]
        /\ m[k] = s
        /\ \A i \in k + 1 .. n + 1 : m[i] = l[i - 1]
    <2>1. k \in 1 .. Len(l) + 1
      BY <1>4
    <2> QED
      BY <2>1, Spliced
  <1>6. m = Inserted(l, e, s, ms)
    BY DEF Inserted, Splice, k, ends
  <1> HIDE DEF m, n
  <1>7. DOMAIN m = 1 .. n + 1
    BY <1>1, <1>5
  <1>8. \A i \in 1 .. n : l[i] \in SlotsOf(l) /\ l[i] # s
    BY <1>1 DEF SlotsOf
  \* the place in l of what is at i in m
  <1> DEFINE from(i) == IF i < k THEN i ELSE i - 1
  <1>9. \A i \in 1 .. n + 1 : i = k \/ (from(i) \in 1 .. n /\ m[i] = l[from(i)])
    BY <1>1, <1>4, <1>5
  <1>10. \A i, j \in 1 .. n + 1 : i # k /\ j # k /\ i < j => from(i) < from(j)
    BY <1>1, <1>4
  <1>11. NoRepeats(m)
    <2> SUFFICES ASSUME NEW i \in 1 .. n + 1, NEW j \in 1 .. n + 1, i < j, m[i] = m[j] PROVE FALSE
      BY <1>1, <1>7 DEF NoRepeats
    <2>1. i # k /\ j # k
      BY <1>1, <1>5, <1>8, <1>9
    <2>2. from(i) \in 1 .. n /\ from(j) \in 1 .. n /\ l[from(i)] = l[from(j)] /\ from(i) < from(j)
      BY <1>9, <1>10, <2>1
    <2> HIDE DEF from
    <2> QED
      BY <1>1, <2>2 DEF NoRepeats
  <1>12. SlotsOf(m) = SlotsOf(l) \cup {s}
    <2>1. ASSUME NEW t \in SlotsOf(m) PROVE t \in SlotsOf(l) \cup {s}
      BY <1>1, <1>5, <1>7, <1>8, <1>9 DEF SlotsOf
    <2>2. ASSUME NEW t \in SlotsOf(l) PROVE t \in SlotsOf(m)
      <3>1. PICK i \in 1 .. n : l[i] = t
        BY <1>1 DEF SlotsOf
      <3>2. CASE i < k
        BY <1>1, <1>4, <1>5, <1>7, <3>1, <3>2 DEF SlotsOf
      <3>3. CASE i >= k
        <4>1. i + 1 \in k + 1 .. n + 1 /\ i + 1 \in 1 .. n + 1 /\ (i + 1) - 1 = i
          BY <1>1, <1>4, <3>3
        <4>2. m[i + 1] = t
          BY <1>5, <3>1, <4>1
        <4> QED
          BY <1>7, <4>1, <4>2 DEF SlotsOf
      <3> QED
        BY <1>1, <1>4, <3>2, <3>3
    <2>3. s \in SlotsOf(m)
      BY <1>1, <1>4, <1>5, <1>7 DEF SlotsOf
    <2> QED
      BY <2>1, <2>2, <2>3
  <1>13. ASSUME NEW f \in [Slots -> EventType], InOrder(l, e),
                \A t \in SlotsOf(l) : f[t] = e[t] /\ f[t].seq < f[s].seq, f[s].endMs = ms
         PROVE  InOrder(m, f)
    <2>1. \A i \in 1 .. n : f[l[i]] = e[l[i]] /\ f[l[i]].seq < f[s].seq /\ f[l[i]].endMs = ends[i]
      BY <1>3, <1>8, <1>13
    <2>2. \A i \in 1 .. n : ends[i] \in Int /\ f[l[i]].seq \in Int /\ f[s].seq \in Int
      BY <1>1, <1>2, <1>3 DEF EventType
    <2>3. \A i, j \in 1 .. n : i < j => Precedes(f[l[i]], f[l[j]])
      BY <1>1, <1>13, <2>1 DEF InOrder
    <2>4. ASSUME NEW i \in 1 .. n, i >= k PROVE Precedes(f[s], f[l[i]])
      <3>1. ends[k] > ms /\ k \in 1 .. n
        BY <1>1, <1>4, <2>4
      <3>2. k = i \/ ends[k] <= ends[i]
        BY <2>1, <2>2, <2>3, <2>4, <3>1 DEF Precedes
      <3> QED
        BY <1>13, <2>1, <2>2, <3>1, <3>2 DEF Precedes
    <2>5. ASSUME NEW i \in 1 .. n, i < k PROVE Precedes(f[l[i]], f[s])
      <3>1. ends[i] <= ms
        BY <1>1, <1>4, <2>5
      <3> QED
        BY <1>13, <2>1, <2>2, <3>1 DEF Precedes
    <2> SUFFICES ASSUME NEW i \in 1 .. n + 1, NEW j \in 1 .. n + 1, i < j
                 PROVE  Precedes(f[m[i]], f[m[j]])
      BY <1>7 DEF InOrder
    <2>6. CASE i = k
      <3>1. from(j) \in 1 .. n /\ m[j] = l[from(j)] /\ from(j) >= k /\ m[i] = s
        BY <1>1, <1>4, <1>5, <1>9, <2>6
      <3> HIDE DEF from
      <3> QED
        BY <2>4, <3>1
    <2>7. CASE j = k
      <3>1. from(i) \in 1 .. n /\ m[i] = l[from(i)] /\ from(i) < k /\ m[j] = s
        BY <1>1, <1>4, <1>5, <1>9, <2>7
      <3> HIDE DEF from
      <3> QED
        BY <2>5, <3>1
    <2>8. CASE i # k /\ j # k
      <3>1. from(i) \in 1 .. n /\ from(j) \in 1 .. n /\ from(i) < from(j)
            /\ m[i] = l[from(i)] /\ m[j] = l[from(j)]
        BY <1>9, <1>10, <2>8
      <3> HIDE DEF from
      <3> QED
        BY <2>3, <3>1
    <2> QED
      BY <2>6, <2>7, <2>8
  <1> QED
    BY <1>5, <1>6, <1>11, <1>12, <1>13

\* Timers that are picked keep their order, and so do those that stay.
LEMMA PickedInOrder ==
    ASSUME NEW l \in Seq(Slots), NEW S \in SUBSET DOMAIN l, NEW e, NEW f, InOrder(l, e),
           \A k \in S : f[l[k]] = e[l[k]]
    PROVE  InOrder(At(l, S), f)
  <1> DEFINE a == At(l, S)
  <1>1. /\ \A k \in DOMAIN a : Nth(S, k) \in S /\ a[k] = l[Nth(S, k)]
        /\ \A j, k \in DOMAIN a : j < k => Nth(S, j) < Nth(S, k)
    BY AtPicks
  <1> HIDE DEF a
  <1> SUFFICES ASSUME NEW j \in DOMAIN a, NEW k \in DOMAIN a, j < k
               PROVE  Precedes(f[a[j]], f[a[k]])
    BY DEF a, InOrder
  <1>2. Nth(S, j) \in S /\ Nth(S, k) \in S /\ Nth(S, j) < Nth(S, k)
    BY <1>1
  <1>3. Precedes(e[l[Nth(S, j)]], e[l[Nth(S, k)]])
    BY <1>2 DEF InOrder
  <1> QED
    BY <1>1, <1>2, <1>3

-----------------------------------------------------------------------------
(* The invariant holds at the start and every step keeps it. *)

LEMMA ClearIsEvent == Clear \in EventType
  <1>1. 0 \in 0 .. TimeSpan - 1 /\ 0 \in 0 .. MaxArms
    <2>1. TimeSpan \in Nat /\ Horizon \in Nat /\ AiRate \in Nat /\ MaxArms \in Nat
      BY EventAssumption
    <2>2. Horizon + AiRate < TimeSpan
      BY EventAssumption
    <2> QED
      BY ONLY <2>1, <2>2
  <1> QED
    BY <1>1 DEF Clear, EventType

\* Init: nothing is armed, every slot is free.
LEMMA InitSound == Init => IInv
  <1> USE EventAssumption
  <1> SUFFICES ASSUME Init PROVE IInv
    OBVIOUS
  <1> USE DEF Init
  <1>1. Types
    <2>1. Clear \in EventType
      BY ClearIsEvent
    <2>2. ResetFree \in Seq(Slots)
      BY ResetSlots
    <2>3. tasks \in [Tasks -> TaskType]
      BY DEF TaskType
    <2>4. saved.ms = 0 /\ saved.made = FALSE /\ saved.timers = <<>>
      BY DEF NoSave
    <2>5. budget \in [registers : 0 .. MaxRegisters, saves : 0 .. MaxSaves,
                      loads : 0 .. MaxLoads, levels : 0 .. MaxLevels]
      OBVIOUS
    <2>6. saved.timers \in Seq(TimerType) /\ Len(saved.timers) = 0
      BY <2>4, EmptySeq
    <2>7. list \in Seq(Slots) /\ event \in [Slots -> EventType]
      BY <2>1, EmptySeq
    <2>8. /\ curMs \in 0 .. Horizon /\ arms \in 0 .. MaxArms /\ armedBefore \in 0 .. arms
          /\ idx \in 1 .. NumTasks + 1
      OBVIOUS
    <2>9. phase \in Phases /\ open \in BOOLEAN /\ current \in Slots \cup {NoSlot} /\ free \in Seq(Slots)
      BY <2>2 DEF Phases
    <2> HIDE DEF Init
    <2>10. saved.made \in BOOLEAN
      BY <2>4, Zenon
    <2>11. saved.ms \in 0 .. Horizon /\ Len(saved.timers) <= NumEvents
      BY <2>4, <2>6
    <2> QED
      BY <2>3, <2>5, <2>6, <2>7, <2>8, <2>9, <2>10, <2>11 DEF Types
  <1>2. SlotsPartition
    <2>1. NoRepeats(list) /\ SlotsOf(list) = {}
      BY DEF NoRepeats, SlotsOf
    <2>2. NoSlot \notin Slots
      BY DEF NoSlot, Slots
    <2> QED
      BY <2>1, <2>2, ResetSlots DEF SlotsPartition
  <1>3. PoolInv
    BY <1>2 DEF PoolInv, ListInOrder, InOrder, ListArmed
  <1>4. TimeInv
    BY DEF TimeInv, NothingMissed, ArmedDuringAdvanceWaits, SavedInOrder, ClosedBetween, NoSave
  <1>5. TaskInv
    BY DEF TaskInv, TasksSoFar, TasksKept
  <1> QED
    BY <1>1, <1>3, <1>4, <1>5 DEF IInv

\* What a step that leaves the tasks and the frame alone keeps.
LEMMA TasksUntouched ==
    ASSUME TaskInv, UNCHANGED <<tasks, curMs, phase, idx>>
    PROVE  TaskInv'
  BY DEF TaskInv, TasksSoFar, TasksKept, TaskKept

\* More timers may have been armed than when the game was saved.
LEMMA SavedUntouched ==
    ASSUME SavedInOrder, saved.timers \in Seq(TimerType), UNCHANGED saved,
           arms \in Int, arms' \in Int, arms <= arms'
    PROVE  SavedInOrder'
  <1>1. \A k \in DOMAIN saved.timers : saved.timers[k] \in TimerType
    OBVIOUS
  <1>2. \A t \in TimerType : t.seq \in Int
    BY EventAssumption DEF TimerType
  <1> QED
    BY <1>1, <1>2 DEF SavedInOrder

\* SetTimerEx: a slot goes from the stack to the list.  No time is beyond the range of the
\* clock, so the sum does not wrap and the new timer is not overdue.
LEMMA SetSound ==
    ASSUME IInv, NEW cog \in Cogs, NEW timer \in TimerIds, NEW when \in Delays,
           SetTimerEx(cog, timer, when)
    PROVE  /\ IInv'
           /\ \/ UNCHANGED <<list, event>>
              \/ \E slot \in Slots :
                    /\ slot \notin SlotsOf(list) /\ SlotsOf(list') = SlotsOf(list) \cup {slot}
                    /\ event'[slot] = [endMs |-> curMs + when, cog |-> cog, timer |-> timer,
                                       seq |-> arms + 1]
                    /\ \A s \in SlotsOf(list) : event'[s] = event[s]
  <1> USE DEF IInv
  <1>1. UNCHANGED <<tasks, open, curMs, phase, idx, current, saved, armedBefore, budget>>
    BY DEF SetTimerEx
  <1>2. TaskInv'
    BY <1>1, TasksUntouched
  <1>3. CASE free = <<>>
    <2>1. UNCHANGED <<list, event, free, arms>>
      BY <1>3 DEF SetTimerEx, Set
    <2>2. Types'
      BY <1>1, <2>1 DEF Types
    <2>3. PoolInv'
      BY <1>1, <2>1 DEF PoolInv, SlotsPartition, ListInOrder, ListArmed
    <2>4. TimeInv'
      BY <1>1, <2>1 DEF TimeInv, NothingMissed, ArmedDuringAdvanceWaits, SavedInOrder, ClosedBetween
    <2> QED
      BY <1>2, <2>1, <2>2, <2>3, <2>4
  <1>4. CASE free # <<>>
    <2> DEFINE slot == free[Len(free)]
               endMs == curMs + when
               new == [endMs |-> endMs, cog |-> cog, timer |-> timer, seq |-> arms + 1]
    <2>1. /\ curMs \in 0 .. Horizon /\ arms \in 0 .. MaxArms /\ arms < MaxArms /\ when \in Nat
          /\ endMs \in 0 .. TimeSpan - 1 /\ endMs % TimeSpan = endMs
      <3>1. curMs \in 0 .. Horizon /\ arms \in 0 .. MaxArms /\ arms < MaxArms
        BY DEF Types, SetTimerEx
      <3>2. when \in Nat /\ Horizon + when < TimeSpan /\ TimeSpan \in Nat /\ Horizon \in Nat
        BY EventAssumption
      <3>3. endMs \in 0 .. TimeSpan - 1
        BY <3>1, <3>2
      <3> HIDE DEF endMs
      <3>4. endMs \in Int /\ 0 <= endMs /\ endMs < TimeSpan
        BY <3>2, <3>3
      <3>5. endMs % TimeSpan = endMs
        BY <3>2, <3>4, Modulo
      <3> QED
        BY <3>1, <3>2, <3>3, <3>5
    <2>2. /\ free' = SubSeq(free, 1, Len(free) - 1)
          /\ list' = Inserted(list, event, slot, endMs)
          /\ event' = [event EXCEPT ![slot] = new]
          /\ arms' = arms + 1
      BY <1>4, <2>1 DEF SetTimerEx, Set
    <2>3. /\ free' \in Seq(Slots) /\ NoRepeats(free') /\ slot \in Slots
          /\ slot \in SlotsOf(free) /\ SlotsOf(free') = SlotsOf(free) \ {slot}
      BY <1>4, <2>2, LastTaken DEF Types, PoolInv, SlotsPartition
    <2> HIDE DEF slot
    <2>4. new \in EventType
      <3>1. arms + 1 \in 0 .. MaxArms
        BY <2>1, EventAssumption
      <3> HIDE DEF endMs
      <3> QED
        BY <2>1, <3>1 DEF EventType
    <2>5. /\ event' \in [Slots -> EventType] /\ event'[slot] = new
          /\ \A s \in Slots : s # slot => event'[s] = event[s]
      BY <2>2, <2>3, <2>4 DEF Types
    <2>6. slot \notin SlotsOf(list) /\ slot # current
      BY <2>3 DEF PoolInv, SlotsPartition
    <2>7. \A s \in SlotsOf(list) : s \in Slots /\ s # slot /\ event[s].seq \in 1 .. arms
      BY <2>6 DEF Types, SlotsOf, PoolInv, ListArmed
    <2>8. \A s \in SlotsOf(list) : event'[s] = event[s] /\ event'[s].seq < event'[slot].seq
      BY <2>1, <2>5, <2>7
    <2>9. event'[slot].endMs = endMs /\ endMs \in Nat
      BY <2>1, <2>5
    <2> HIDE DEF endMs, new
    <2>10. /\ list' \in Seq(Slots) /\ NoRepeats(list') /\ SlotsOf(list') = SlotsOf(list) \cup {slot}
           /\ InOrder(list', event')
      <3>1. list \in Seq(Slots) /\ event \in [Slots -> EventType] /\ NoRepeats(list) /\ InOrder(list, event)
        BY DEF Types, PoolInv, SlotsPartition, ListInOrder
      <3> QED
        BY <2>2, <2>3, <2>5, <2>6, <2>8, <2>9, <3>1, InsertedSlots
    <2>11. Types'
      <3>1. arms' \in 0 .. MaxArms /\ armedBefore' \in 0 .. arms'
        BY <1>1, <2>1, <2>2, EventAssumption DEF Types
      <3> QED
        BY <1>1, <2>3, <2>5, <2>10, <3>1 DEF Types
    <2>12. SlotsPartition'
      BY <1>1, <2>3, <2>6, <2>10 DEF PoolInv, SlotsPartition
    <2>13. \A k \in DOMAIN list' : list'[k] = slot \/ \E j \in DOMAIN list : list[j] = list'[k]
      BY <2>10 DEF SlotsOf
    <2>14. ListArmed'
      <3> SUFFICES ASSUME NEW k \in DOMAIN list'
                   PROVE  LET e == event'[list'[k]] IN
                          e.cog \in Cogs /\ e.timer \in TimerIds /\ e.seq \in 1 .. arms'
        BY DEF ListArmed
      <3>1. CASE list'[k] = slot
        BY <2>1, <2>2, <2>5, <3>1 DEF new
      <3>2. CASE list'[k] # slot
        <4>1. PICK j \in DOMAIN list : list[j] = list'[k]
          BY <2>13, <3>2
        <4>2. event'[list'[k]] = event[list[j]]
          BY <2>8, <4>1 DEF SlotsOf
        <4> QED
          BY <2>1, <2>2, <4>2 DEF PoolInv, ListArmed
      <3> QED
        BY <3>1, <3>2
    <2>15. NothingMissed'
      <3> SUFFICES ASSUME NEW k \in DOMAIN list', event'[list'[k]].endMs < curMs'
                   PROVE  phase' # "frame" /\ event'[list'[k]].seq <= armedBefore'
        BY DEF NothingMissed
      <3>1. list'[k] # slot
        BY <1>1, <2>1, <2>9 DEF endMs
      <3>2. PICK j \in DOMAIN list : list[j] = list'[k]
        BY <2>13, <3>1
      <3>3. event'[list'[k]] = event[list[j]]
        BY <2>8, <3>2 DEF SlotsOf
      <3> QED
        BY <1>1, <3>3 DEF TimeInv, NothingMissed
    <2>16. ArmedDuringAdvanceWaits'
      <3> SUFFICES ASSUME phase = "handler" PROVE event'[current].seq <= armedBefore
        BY <1>1 DEF ArmedDuringAdvanceWaits
      <3>1. current \in Slots
        BY DEF Types, PoolInv, SlotsPartition
      <3>2. event'[current] = event[current]
        BY <2>5, <2>6, <3>1
      <3> QED
        BY <3>2 DEF TimeInv, ArmedDuringAdvanceWaits
    <2>17. SavedInOrder'
      <3>1. arms' \in Int /\ arms <= arms' /\ arms \in Int
        BY <2>1, <2>2
      <3> QED
        BY <1>1, <3>1, SavedUntouched DEF Types, TimeInv
    <2>18. ClosedBetween'
      BY <1>1 DEF TimeInv, ClosedBetween
    <2>19. IInv'
      BY <1>2, <2>10, <2>11, <2>12, <2>14, <2>15, <2>16, <2>17, <2>18 DEF PoolInv, TimeInv, ListInOrder
    <2> QED
      BY <2>3, <2>5, <2>6, <2>8, <2>10, <2>19 DEF new, endMs
  <1> QED
    BY <1>3, <1>4

\* KillTimerEx: the timers of one cog that have one id leave the list, the others stay.
LEMMA KillSound ==
    ASSUME IInv, NEW cog \in Cogs, NEW timer \in TimerIds, KillTimerEx(cog, timer)
    PROVE  /\ IInv'
           /\ SlotsOf(list') = {s \in SlotsOf(list) : event[s].cog # cog \/ event[s].timer # timer}
           /\ \A s \in SlotsOf(list') : event'[s] = event[s]
  <1> USE DEF IInv
  <1> DEFINE hit == {k \in DOMAIN list : event[list[k]].cog = cog /\ event[list[k]].timer = timer}
             rest == DOMAIN list \ hit
             gone == At(list, hit)
  <1>1. UNCHANGED <<tasks, open, curMs, phase, idx, current, saved, arms, armedBefore, budget>>
    BY DEF KillTimerEx
  <1>2. /\ list' = At(list, rest) /\ free' = free \o gone
        /\ event' = [s \in Slots |-> IF \E k \in DOMAIN gone : gone[k] = s THEN Clear ELSE event[s]]
    BY DEF KillTimerEx, KillAll
  <1>3. list \in Seq(Slots) /\ NoRepeats(list) /\ free \in Seq(Slots) /\ NoRepeats(free)
    BY DEF Types, PoolInv, SlotsPartition
  <1>4. hit \in SUBSET DOMAIN list /\ rest \in SUBSET DOMAIN list /\ DOMAIN list = hit \cup rest
        /\ hit \cap rest = {}
    OBVIOUS
  <1>5. \A k \in DOMAIN list : k \in hit <=> event[list[k]].cog = cog /\ event[list[k]].timer = timer
    OBVIOUS
  <1> HIDE DEF hit, rest
  <1>6. gone \in Seq(Slots) /\ NoRepeats(gone) /\ SlotsOf(gone) = {list[k] : k \in hit}
    BY <1>3, <1>4, PickedSlots
  <1>7. list' \in Seq(Slots) /\ NoRepeats(list') /\ SlotsOf(list') = {list[k] : k \in rest}
    BY <1>2, <1>3, <1>4, PickedSlots
  <1> HIDE DEF gone
  <1>8. SlotsOf(list) = SlotsOf(list') \cup SlotsOf(gone)
    BY <1>4, <1>6, <1>7 DEF SlotsOf
  <1>9. SlotsOf(list') \cap SlotsOf(gone) = {}
    BY <1>3, <1>4, <1>6, <1>7 DEF NoRepeats
  <1>10. free' \in Seq(Slots) /\ NoRepeats(free') /\ SlotsOf(free') = SlotsOf(free) \cup SlotsOf(gone)
    <2>1. SlotsOf(free) \cap SlotsOf(gone) = {}
      BY <1>8 DEF PoolInv, SlotsPartition
    <2> QED
      BY <1>2, <1>3, <1>6, <2>1, SlotsOfJoined
  <1>11. event' = [s \in Slots |-> IF s \in SlotsOf(gone) THEN Clear ELSE event[s]]
    BY <1>2 DEF SlotsOf
  <1>12. event' \in [Slots -> EventType]
    <2>1. Clear \in EventType
      BY ClearIsEvent
    <2> QED
      BY <1>11, <2>1 DEF Types
  <1>13. \A s \in Slots : s \notin SlotsOf(gone) => event'[s] = event[s]
    BY <1>11
  <1>14. \A k \in rest : event'[list[k]] = event[list[k]]
    <2> TAKE k \in rest
    <2>1. list[k] \in SlotsOf(list')
      BY <1>7
    <2>2. \A j \in DOMAIN list : list[j] \in Slots
      BY ONLY <1>3
    <2>3. list[k] \in Slots
      BY <1>4, <2>2
    <2> QED
      BY <1>9, <1>13, <2>1, <2>3
  <1>15. \A k \in DOMAIN list' : \E j \in DOMAIN list : list'[k] = list[j] /\ event'[list'[k]] = event[list[j]]
    <2> TAKE k \in DOMAIN list'
    <2>1. list'[k] \in SlotsOf(list')
      BY DEF SlotsOf
    <2>2. PICK j \in rest : list'[k] = list[j]
      BY <1>7, <2>1
    <2> QED
      BY <1>4, <1>14, <2>2
  <1>16. Types'
    BY <1>1, <1>7, <1>10, <1>12 DEF Types
  <1>17. SlotsPartition'
    BY <1>1, <1>7, <1>8, <1>9, <1>10 DEF PoolInv, SlotsPartition
  <1>18. ListInOrder'
    <2>1. list \in Seq(Slots) /\ rest \in SUBSET DOMAIN list /\ InOrder(list, event)
      BY <1>3, <1>4 DEF PoolInv, ListInOrder
    <2>2. \A f : (\A k \in rest : f[list[k]] = event[list[k]]) => InOrder(At(list, rest), f)
      BY ONLY <2>1, PickedInOrder
    <2>3. InOrder(At(list, rest), event')
      BY ONLY <1>14, <2>2
    <2> QED
      BY <1>2, <2>3 DEF ListInOrder
  <1>19. ListArmed'
    BY <1>1, <1>15 DEF PoolInv, ListArmed
  <1>20. NothingMissed'
    BY <1>1, <1>15 DEF TimeInv, NothingMissed
  <1>21. ArmedDuringAdvanceWaits'
    <2> SUFFICES ASSUME phase = "handler" PROVE event'[current].seq <= armedBefore
      BY <1>1 DEF ArmedDuringAdvanceWaits
    <2>1. current \in Slots /\ current \notin SlotsOf(gone)
      BY <1>8 DEF Types, PoolInv, SlotsPartition
    <2>2. event'[current] = event[current]
      BY <1>13, <2>1
    <2> QED
      BY <2>2 DEF TimeInv, ArmedDuringAdvanceWaits
  <1>22. SavedInOrder' /\ ClosedBetween'
    BY <1>1 DEF TimeInv, SavedInOrder, ClosedBetween
  <1>23. TaskInv'
    BY <1>1, TasksUntouched
  <1>24. SlotsOf(list') = {s \in SlotsOf(list) : event[s].cog # cog \/ event[s].timer # timer}
    BY <1>4, <1>5, <1>7 DEF SlotsOf
  <1>25. \A s \in SlotsOf(list') : event'[s] = event[s]
    BY <1>7, <1>14
  <1> QED
    BY <1>16, <1>17, <1>18, <1>19, <1>20, <1>21, <1>22, <1>23, <1>24, <1>25 DEF PoolInv, TimeInv

-----------------------------------------------------------------------------
(* The frame *)

\* The steps that touch neither the list nor the pool.
LEMMA PoolUntouched ==
    ASSUME PoolInv, UNCHANGED <<list, event, free, current, arms>>,
           (phase' = "handler") <=> (phase = "handler")
    PROVE  PoolInv'
  BY DEF PoolInv, SlotsPartition, ListInOrder, ListArmed

LEMMA TypeOfTask ==
    ASSUME tasks \in [Tasks -> TaskType], curMs \in 0 .. Horizon,
           NEW k \in Tasks, NEW periodic \in BOOLEAN, NEW rate \in NetRates \cup {AiRate, 0}
    PROVE  Registered(tasks, k, periodic, rate) \in [Tasks -> TaskType]
  BY DEF Registered, TaskType

\* RegisterFunc, between two calls of Advance.
LEMMA RegisterSound ==
    ASSUME IInv, NEW periodic \in BOOLEAN, NEW rate \in NetRates \cup {0},
           RegisterFunc(periodic, rate)
    PROVE  IInv'
  <1> USE DEF IInv
  <1>1. /\ UNCHANGED <<list, event, free, open, curMs, phase, idx, current, saved, arms, armedBefore>>
        /\ phase = "frame"
    BY DEF RegisterFunc
  <1>2. tasks' \in [Tasks -> TaskType]
    BY EventAssumption, TypeOfTask DEF RegisterFunc, Types
  <1>3. budget' \in [registers : 0 .. MaxRegisters, saves : 0 .. MaxSaves, loads : 0 .. MaxLoads,
                     levels : 0 .. MaxLevels]
    <2>1. /\ budget \in [registers : 0 .. MaxRegisters, saves : 0 .. MaxSaves, loads : 0 .. MaxLoads,
                         levels : 0 .. MaxLevels]
          /\ budget.registers > 0 /\ budget' = [budget EXCEPT !.registers = @ - 1]
          /\ MaxRegisters \in Nat
      BY EventAssumption DEF RegisterFunc, Types
    <2> QED
      BY ONLY <2>1
  <1>4. Types'
    BY <1>1, <1>2, <1>3 DEF Types
  <1>5. PoolInv'
    BY <1>1, PoolUntouched
  <1>6. TimeInv'
    BY <1>1 DEF TimeInv, NothingMissed, ArmedDuringAdvanceWaits, SavedInOrder, ClosedBetween
  <1>7. TaskInv'
    BY <1>1 DEF TaskInv, TasksSoFar, TasksKept
  <1> QED
    BY <1>4, <1>5, <1>6, <1>7

\* Tick: what becomes overdue has been armed before Advance begins.
LEMMA TickSound ==
    ASSUME IInv, NEW delta \in 1 .. MaxDelta, Tick(delta)
    PROVE  IInv'
  <1> USE DEF IInv
  <1>1. /\ UNCHANGED <<list, event, free, tasks, open, current, saved, arms, budget>>
        /\ open /\ phase = "frame" /\ phase' = "tasks" /\ idx' = 1 /\ armedBefore' = arms
        /\ curMs' = curMs + delta /\ curMs' <= Horizon
    BY DEF Tick
  <1>2. Types'
    <2>1. curMs' \in 0 .. Horizon /\ armedBefore' \in 0 .. arms' /\ idx' \in 1 .. NumTasks + 1
      BY <1>1, EventAssumption DEF Types
    <2>2. phase' \in Phases
      BY <1>1 DEF Phases
    <2> QED
      BY <1>1, <2>1, <2>2 DEF Types
  <1>3. PoolInv'
    BY <1>1, PoolUntouched
  <1>4. NothingMissed'
    <2>1. \A k \in DOMAIN list : event[list[k]].seq <= arms
      BY DEF PoolInv, ListArmed
    <2> QED
      BY <1>1, <2>1 DEF NothingMissed
  <1>5. TimeInv'
    BY <1>1, <1>4 DEF TimeInv, ArmedDuringAdvanceWaits, SavedInOrder, ClosedBetween
  <1>6. TaskInv'
    BY <1>1 DEF TaskInv, TasksSoFar, TasksKept, Tasks
  <1> QED
    BY <1>2, <1>3, <1>5, <1>6

\* AdvanceTasks: a periodic task that is not due is not more than its rate behind.  A task whose
\* time lies ahead of the clock, as it may after a game is loaded, looks very old and is due.
LEMMA NotDueIsKept ==
    ASSUME Types, NEW k \in Tasks, ~TaskDue(k)
    PROVE  TaskKept(k)
  <1> SUFFICES ASSUME tasks[k].periodic
               PROVE  tasks[k].creationMs <= curMs /\ curMs <= tasks[k].creationMs + tasks[k].rate
    BY DEF TaskKept
  <1> DEFINE c == tasks[k].creationMs
             r == tasks[k].rate
             a == curMs - c
  <1>1. tasks[k] \in TaskType
    BY DEF Types
  <1>2. c \in 0 .. Horizon /\ r \in NetRates \cup {AiRate, 0}
    BY <1>1 DEF TaskType
  <1>3. curMs \in 0 .. Horizon /\ Horizon \in Nat /\ TimeSpan \in Nat /\ NetRates \subseteq Nat /\ AiRate \in Nat
    BY EventAssumption DEF Types
  <1> HIDE DEF c, r, a
  <1>4. r \in Nat
    BY <1>2, <1>3
  <1>5. Horizon + r < TimeSpan
    <2>1. Horizon + AiRate < TimeSpan
      BY EventAssumption
    <2>2. r \in NetRates => Horizon + r < TimeSpan
      BY EventAssumption
    <2> QED
      BY <1>2, <1>3, <2>1, <2>2
  <1>6. ~(a % TimeSpan > r)
    BY DEF TaskDue, Age, a, c, r
  <1>7. a \in Int /\ a <= Horizon /\ -Horizon <= a
    BY <1>2, <1>3 DEF a
  <1>8. a % TimeSpan <= r
    <2>1. TimeSpan > 0
      BY <1>3, <1>4, <1>5
    <2>2. a % TimeSpan \in 0 .. TimeSpan - 1
      BY <1>3, <1>7, <2>1, Modulo
    <2> QED
      BY <1>3, <1>4, <1>6, <2>2
  <1>9. a >= 0
    <2> SUFFICES ASSUME a < 0 PROVE FALSE
      BY <1>7
    <2>1. a >= -TimeSpan
      BY <1>3, <1>4, <1>5, <1>7
    <2>2. a % TimeSpan = a + TimeSpan
      BY <1>3, <1>7, <2>1, Modulo
    <2> QED
      BY <1>3, <1>4, <1>5, <1>7, <1>8, <2>2
  <1>10. a % TimeSpan = a
    <2>1. a < TimeSpan
      BY <1>3, <1>4, <1>5, <1>7
    <2> QED
      BY <1>3, <1>7, <1>9, <2>1, Modulo
  <1>11. a <= r
    BY <1>8, <1>10
  <1>12. c <= curMs /\ curMs <= c + r
    BY <1>2, <1>3, <1>4, <1>9, <1>11 DEF a
  <1> QED
    BY <1>12 DEF c, r

\* The loop goes to the first task that is due; those before it are not.
LEMMA AdvanceTasksSound ==
    ASSUME IInv, AdvanceTasks
    PROVE  IInv'
  <1> USE DEF IInv
  <1> DEFINE due == {k \in Tasks : k >= idx /\ TaskDue(k)}
  <1>1. /\ UNCHANGED <<list, event, free, tasks, open, curMs, current, saved, arms, armedBefore, budget>>
        /\ phase = "tasks" /\ phase' \in {"taskHandler", "events"}
        /\ phase' = "taskHandler" => idx' \in due /\ \A k \in due : idx' <= k
        /\ phase' = "events" => due = {} /\ idx' = 1
    BY DEF AdvanceTasks
  <1>2. NumTasks \in Nat /\ idx \in 1 .. NumTasks + 1 /\ \A k \in Tasks : k \in 1 .. NumTasks
    BY EventAssumption DEF Types, Tasks
  <1>3. \A k \in Tasks : k < idx => TaskKept(k)
    BY <1>1 DEF TaskInv, TasksSoFar
  <1>4. \A k \in Tasks : k >= idx /\ k \notin due => TaskKept(k)
    BY NotDueIsKept
  <1>5. due \subseteq Tasks
    OBVIOUS
  <1> HIDE DEF due
  <1>6. Types'
    <2>1. phase' \in Phases
      BY <1>1 DEF Phases
    <2>2. idx' \in 1 .. NumTasks + 1
      BY <1>1, <1>2, <1>5
    <2> QED
      BY <1>1, <2>1, <2>2 DEF Types
  <1>7. PoolInv'
    BY <1>1, PoolUntouched
  <1>8. TimeInv'
    <2>1. open
      BY <1>1 DEF TimeInv, ClosedBetween
    <2> QED
      BY <1>1, <2>1 DEF TimeInv, NothingMissed, ArmedDuringAdvanceWaits, SavedInOrder, ClosedBetween
  <1>9. \A k \in Tasks : TaskKept(k)' = TaskKept(k)
    BY <1>1 DEF TaskKept
  <1>10. CASE phase' = "taskHandler"
    <2>1. idx' \in Tasks
      BY <1>1, <1>5, <1>10
    <2>2. \A k \in Tasks : k < idx' => k \notin due
      BY <1>1, <1>2, <1>10, <2>1
    <2>3. \A k \in Tasks : k < idx' => TaskKept(k)
      BY <1>2, <1>3, <1>4, <2>2
    <2> QED
      BY <1>6, <1>7, <1>8, <1>9, <1>10, <2>1, <2>3 DEF TaskInv, TasksSoFar, TasksKept
  <1>11. CASE phase' = "events"
    <2>1. \A k \in Tasks : TaskKept(k)
      BY <1>1, <1>2, <1>3, <1>4, <1>11
    <2>2. TasksKept'
      BY <1>9, <2>1 DEF TasksKept, TaskKept
    <2> QED
      BY <1>6, <1>7, <1>8, <1>11, <2>2 DEF TaskInv, TasksSoFar
  <1> QED
    BY <1>1, <1>10, <1>11

\* TaskReturns: the task has just been called.
LEMMA TaskReturnsSound ==
    ASSUME IInv, TaskReturns
    PROVE  IInv'
  <1> USE DEF IInv
  <1>1. /\ UNCHANGED <<list, event, free, open, curMs, current, saved, arms, armedBefore, budget>>
        /\ phase = "taskHandler" /\ phase' = "tasks" /\ idx' = idx + 1
        /\ tasks' = [tasks EXCEPT ![idx].creationMs = curMs]
    BY DEF TaskReturns
  <1>2. /\ idx \in Tasks /\ idx \in 1 .. NumTasks /\ NumTasks \in Nat /\ \A k \in Tasks : k \in 1 .. NumTasks
        /\ \A k \in Tasks : k < idx => TaskKept(k)
    BY <1>1, EventAssumption DEF TaskInv, TasksSoFar, Tasks
  <1>3. tasks \in [Tasks -> TaskType] /\ curMs \in 0 .. Horizon /\ Horizon \in Nat
    BY EventAssumption DEF Types
  <1>4. /\ tasks' \in [Tasks -> TaskType]
        /\ tasks'[idx] = [tasks[idx] EXCEPT !.creationMs = curMs]
        /\ \A k \in Tasks : k # idx => tasks'[k] = tasks[k]
    BY <1>1, <1>2, <1>3 DEF TaskType
  <1>5. Types'
    <2>1. phase' \in Phases /\ idx' \in 1 .. NumTasks + 1
      BY <1>1, <1>2 DEF Phases
    <2> QED
      BY <1>1, <1>4, <2>1 DEF Types
  <1>6. PoolInv'
    BY <1>1, PoolUntouched
  <1>7. TimeInv'
    <2>1. open
      BY <1>1 DEF TimeInv, ClosedBetween
    <2> QED
      BY <1>1, <2>1 DEF TimeInv, NothingMissed, ArmedDuringAdvanceWaits, SavedInOrder, ClosedBetween
  <1>8. \A k \in Tasks : k = idx => TaskKept(k)'
    <2>1. tasks[idx] \in TaskType
      BY <1>2, <1>3
    <2>2. \A t \in TaskType : t.rate \in Nat
      <3>1. NetRates \cup {AiRate, 0} \subseteq Nat
        BY EventAssumption
      <3> QED
        BY <3>1 DEF TaskType
    <2>3. tasks'[idx].creationMs = curMs /\ tasks'[idx].rate \in Nat
      BY <1>4, <2>1, <2>2 DEF TaskType
    <2> QED
      BY <1>1, <1>3, <2>3 DEF TaskKept
  <1>9. \A k \in Tasks : k < idx + 1 => TaskKept(k)'
    <2> SUFFICES ASSUME NEW k \in Tasks, k < idx + 1, k # idx PROVE TaskKept(k)'
      BY <1>8
    <2>1. k < idx
      BY <1>2
    <2> QED
      BY <1>1, <1>2, <1>4, <2>1 DEF TaskKept
  <1>10. TaskInv'
    BY <1>1, <1>9 DEF TaskInv, TasksSoFar, TasksKept
  <1> QED
    BY <1>5, <1>6, <1>7, <1>10

LEMMA ListEnds ==
    ASSUME Types
    PROVE  \A k \in DOMAIN list : list[k] \in Slots /\ event[list[k]].endMs \in Int
  <1>1. \A k \in DOMAIN list : list[k] \in Slots
    BY DEF Types
  <1>2. \A e \in EventType : e.endMs \in Int
    BY EventAssumption DEF EventType
  <1> QED
    BY <1>1, <1>2 DEF Types

\* AdvanceEvent: the first timer of the list is taken if it is overdue; if it is not, none is.
LEMMA AdvanceEventSound ==
    ASSUME IInv, AdvanceEvent
    PROVE  /\ IInv'
           /\ \/ UNCHANGED list
              \/ /\ list # <<>> /\ event[list[1]].endMs < curMs
                 /\ SlotsOf(list') = SlotsOf(list) \ {list[1]} /\ list[1] \in SlotsOf(list)
                 /\ \A s \in SlotsOf(list) : s = list[1] \/ Precedes(event[list[1]], event[s])
  <1> USE DEF IInv
  <1>1. /\ UNCHANGED <<event, free, tasks, open, curMs, idx, saved, arms, armedBefore, budget>>
        /\ phase = "events"
    BY DEF AdvanceEvent, TakeNext
  <1>2. open /\ current = NoSlot
    BY <1>1 DEF TimeInv, ClosedBetween, PoolInv, SlotsPartition
  <1>3. list \in Seq(Slots) /\ NoRepeats(list) /\ InOrder(list, event)
    BY DEF Types, PoolInv, SlotsPartition, ListInOrder
  <1>4. CASE NextIsDue
    <2>1. /\ list # <<>> /\ event[list[1]].endMs < curMs /\ list' = Tail(list) /\ current' = list[1]
          /\ phase' = "handler"
      BY <1>1, <1>4 DEF AdvanceEvent, TakeNext, NextIsDue
    <2>2. /\ list' \in Seq(Slots) /\ NoRepeats(list') /\ list[1] \in Slots /\ 1 \in DOMAIN list
          /\ list[1] \in SlotsOf(list) /\ SlotsOf(list') = SlotsOf(list) \ {list[1]}
          /\ \A i \in DOMAIN list' : i + 1 \in DOMAIN list /\ list'[i] = list[i + 1] /\ i + 1 > 1
          /\ \A i \in DOMAIN list : i = 1 \/ 1 < i
      BY <1>3, <2>1, FirstTaken
    <2>3. Types'
      <3>1. phase' \in Phases
        BY <2>1 DEF Phases
      <3> QED
        BY <1>1, <2>1, <2>2, <3>1 DEF Types
    <2>4. SlotsPartition'
      <3>1. NoSlot \notin Slots
        BY EventAssumption DEF NoSlot, Slots
      <3> QED
        BY <1>1, <1>2, <2>1, <2>2, <3>1 DEF PoolInv, SlotsPartition
    <2>5. ListInOrder'
      <3>1. \A i, j \in DOMAIN list' : i < j => i + 1 < j + 1
        BY <2>2, LenProperties
      <3> QED
        BY <1>1, <1>3, <2>2, <3>1 DEF ListInOrder, InOrder
    <2>6. ListArmed'
      BY <1>1, <2>2 DEF PoolInv, ListArmed
    <2>7. NothingMissed'
      BY <1>1, <2>1, <2>2 DEF TimeInv, NothingMissed
    <2>8. ArmedDuringAdvanceWaits'
      BY <1>1, <2>1, <2>2 DEF TimeInv, NothingMissed, ArmedDuringAdvanceWaits
    <2>9. SavedInOrder' /\ ClosedBetween'
      BY <1>1, <1>2 DEF TimeInv, SavedInOrder, ClosedBetween
    <2>10. TaskInv'
      BY <1>1, <2>1 DEF TaskInv, TasksSoFar, TasksKept
    <2>11. \A s \in SlotsOf(list) : s = list[1] \/ Precedes(event[list[1]], event[s])
      BY <1>3, <2>2 DEF SlotsOf, InOrder
    <2> QED
      BY <2>1, <2>2, <2>3, <2>4, <2>5, <2>6, <2>7, <2>8, <2>9, <2>10, <2>11 DEF PoolInv, TimeInv
  <1>5. CASE ~NextIsDue
    <2>1. UNCHANGED <<list, current>> /\ phase' = "frame"
      BY <1>5 DEF AdvanceEvent
    <2>2. Types'
      <3>1. phase' \in Phases
        BY <2>1 DEF Phases
      <3> QED
        BY <1>1, <2>1, <3>1 DEF Types
    <2>3. PoolInv'
      BY <1>1, <2>1, PoolUntouched
    <2>4. \A k \in DOMAIN list : event[list[k]].endMs >= curMs
      <3>1. \A k \in DOMAIN list : event[list[k]].endMs \in Int
        BY ListEnds
      <3>2. list # <<>> => ~(event[list[1]].endMs < curMs)
        BY <1>5 DEF NextIsDue
      <3>3. ASSUME NEW k \in DOMAIN list
            PROVE  list # <<>> /\ 1 \in DOMAIN list /\ (k = 1 \/ 1 < k)
        BY <1>3, FirstTaken
      <3>4. \A k \in DOMAIN list : k = 1 \/ event[list[1]].endMs <= event[list[k]].endMs
        BY <1>3, <3>1, <3>3 DEF InOrder, Precedes
      <3>5. curMs \in Int
        BY EventAssumption DEF Types
      <3> QED
        BY <3>1, <3>2, <3>3, <3>4, <3>5
    <2>5. NothingMissed'
      <3>1. curMs \in Int
        BY EventAssumption DEF Types
      <3>2. \A k \in DOMAIN list : event[list[k]].endMs \in Int
        BY ListEnds
      <3> QED
        BY <1>1, <2>1, <2>4, <3>1, <3>2 DEF NothingMissed
    <2>6. TimeInv'
      BY <1>1, <2>1, <2>5 DEF TimeInv, ArmedDuringAdvanceWaits, SavedInOrder, ClosedBetween
    <2>7. TaskInv'
      BY <1>1, <2>1 DEF TaskInv, TasksSoFar, TasksKept
    <2> QED
      BY <2>1, <2>2, <2>3, <2>6, <2>7
  <1> QED
    BY <1>4, <1>5

\* HandlerReturns: sithEvent_Advance frees the slot whose handler has run.
LEMMA HandlerReturnsSound ==
    ASSUME IInv, HandlerReturns
    PROVE  IInv' /\ \A s \in SlotsOf(list) : event'[s] = event[s]
  <1> USE DEF IInv
  <1>1. /\ UNCHANGED <<list, tasks, open, curMs, idx, saved, arms, armedBefore, budget>>
        /\ phase = "handler" /\ phase' = "events" /\ current' = NoSlot
        /\ free' = free \o <<current>>
        /\ event' = [s \in Slots |-> IF s = current THEN Clear ELSE event[s]]
    BY DEF HandlerReturns, KillAll
  <1>2. /\ current \in Slots /\ current \notin SlotsOf(list) \cup SlotsOf(free)
        /\ SlotsOf(list) \cap SlotsOf(free) = {}
    BY <1>1 DEF Types, PoolInv, SlotsPartition
  <1>3. list \in Seq(Slots) /\ free \in Seq(Slots) /\ NoRepeats(list) /\ NoRepeats(free)
    BY DEF Types, PoolInv, SlotsPartition
  <1>4. free' \in Seq(Slots) /\ NoRepeats(free') /\ SlotsOf(free') = SlotsOf(free) \cup {current}
    <2> DEFINE l == <<current>>
    <2>1. l \in Seq(Slots) /\ NoRepeats(l) /\ SlotsOf(l) = {current}
      BY <1>2 DEF NoRepeats, SlotsOf
    <2> HIDE DEF l
    <2>2. SlotsOf(free) \cap SlotsOf(l) = {}
      BY <1>2, <2>1
    <2>3. free \o l \in Seq(Slots) /\ NoRepeats(free \o l) /\ SlotsOf(free \o l) = SlotsOf(free) \cup SlotsOf(l)
      BY <1>3, <2>1, <2>2, SlotsOfJoined
    <2> QED
      BY <1>1, <2>1, <2>3 DEF l
  <1>5. event' \in [Slots -> EventType]
    <2>1. Clear \in EventType
      BY ClearIsEvent
    <2> QED
      BY <1>1, <2>1 DEF Types
  <1>6. \A s \in SlotsOf(list) : event'[s] = event[s]
    BY <1>1, <1>2, <1>3 DEF SlotsOf
  <1>7. \A k \in DOMAIN list : event'[list[k]] = event[list[k]]
    BY <1>6 DEF SlotsOf
  <1>8. Types'
    <2>1. phase' \in Phases
      BY <1>1 DEF Phases
    <2> QED
      BY <1>1, <1>4, <1>5, <2>1 DEF Types
  <1>9. SlotsPartition'
    <2>1. NoSlot \notin Slots
      BY EventAssumption DEF NoSlot, Slots
    <2>2. SlotsOf(list) \cup SlotsOf(free) \cup {current} = Slots
      BY <1>2 DEF PoolInv, SlotsPartition
    <2>3. SlotsOf(list') = SlotsOf(list) /\ SlotsOf(list') \cup SlotsOf(free') = Slots
      BY <1>1, <1>4, <2>2
    <2> QED
      BY <1>1, <1>2, <1>3, <1>4, <2>1, <2>3 DEF SlotsPartition
  <1>10. ListInOrder'
    <2>1. \A j, k \in DOMAIN list : j < k => Precedes(event[list[j]], event[list[k]])
      BY DEF PoolInv, ListInOrder, InOrder
    <2>2. \A j, k \in DOMAIN list : j < k => Precedes(event'[list[j]], event'[list[k]])
      BY <1>7, <2>1
    <2> QED
      BY <1>1, <2>2 DEF ListInOrder, InOrder
  <1>11. ListArmed'
    BY <1>1, <1>7 DEF PoolInv, ListArmed
  <1>12. NothingMissed'
    <2>1. \A k \in DOMAIN list : event[list[k]].endMs < curMs => event[list[k]].seq <= armedBefore
      BY DEF TimeInv, NothingMissed
    <2>2. \A k \in DOMAIN list : event'[list[k]].endMs < curMs => event'[list[k]].seq <= armedBefore
      BY <1>7, <2>1
    <2> QED
      BY <1>1, <2>2 DEF NothingMissed
  <1>13. ArmedDuringAdvanceWaits' /\ SavedInOrder' /\ ClosedBetween'
    BY <1>1 DEF TimeInv, ArmedDuringAdvanceWaits, SavedInOrder, ClosedBetween
  <1>14. TaskInv'
    BY <1>1 DEF TaskInv, TasksSoFar, TasksKept
  <1> QED
    BY <1>6, <1>8, <1>9, <1>10, <1>11, <1>12, <1>13, <1>14 DEF PoolInv, TimeInv

-----------------------------------------------------------------------------
(* Saved games and levels *)

\* Save: nothing is overdue between two frames, so what is left is the time that is left, and
\* the timers are saved in the order in which they will fire.
LEMMA SaveSound ==
    ASSUME IInv, Save
    PROVE  /\ IInv'
           /\ saved'.ms = curMs /\ DOMAIN saved'.timers = DOMAIN list
           /\ \A k \in DOMAIN list :
                 LET t == saved'.timers[k] IN
                 /\ (curMs + t.left) % TimeSpan = event[list[k]].endMs
                 /\ t.cog = event[list[k]].cog /\ t.timer = event[list[k]].timer
                 /\ t.seq = event[list[k]].seq
  <1> USE DEF IInv
  <1> DEFINE timers == saved'.timers
  <1>1. /\ UNCHANGED <<list, event, free, tasks, open, curMs, phase, idx, current, arms, armedBefore>>
        /\ open /\ phase = "frame" /\ saved'.ms = curMs /\ timers = Remaining /\ saved'.made = TRUE
    BY DEF Save
  <1>2. curMs \in 0 .. Horizon /\ Horizon \in Nat /\ TimeSpan \in Nat /\ MaxArms \in Nat /\ arms \in 0 .. MaxArms
    BY EventAssumption DEF Types
  <1>3. list \in Seq(Slots) /\ NoRepeats(list)
    BY DEF Types, PoolInv, SlotsPartition
  <1>4. ASSUME NEW k \in DOMAIN list
        PROVE  LET e == event[list[k]] IN
               /\ e.endMs \in 0 .. TimeSpan - 1 /\ e.endMs >= curMs
               /\ e.cog \in Cogs /\ e.timer \in TimerIds /\ e.seq \in 1 .. arms
    <2>1. event[list[k]] \in EventType
      BY <1>3 DEF Types
    <2>2. event[list[k]].endMs \in 0 .. TimeSpan - 1
      BY <2>1 DEF EventType
    <2>3. ~(event[list[k]].endMs < curMs)
      BY <1>1 DEF TimeInv, NothingMissed
    <2> QED
      BY <1>2, <2>2, <2>3 DEF PoolInv, ListArmed
  <1>5. DOMAIN timers = DOMAIN list
    BY <1>1 DEF Remaining
  <1>6. ASSUME NEW k \in DOMAIN list
        PROVE  LET e == event[list[k]] IN
               /\ timers[k].left = e.endMs - curMs /\ timers[k].seq = e.seq
               /\ timers[k].cog = e.cog /\ timers[k].timer = e.timer
               /\ timers[k] \in TimerType
               /\ (curMs + timers[k].left) % TimeSpan = e.endMs
               /\ saved'.ms + timers[k].left < TimeSpan
    <2> DEFINE e == event[list[k]]
               left == e.endMs - curMs
    <2>1. /\ e.endMs \in 0 .. TimeSpan - 1 /\ e.endMs >= curMs
          /\ e.cog \in Cogs /\ e.timer \in TimerIds /\ e.seq \in 1 .. arms
      BY <1>4
    <2>2. timers[k] = [left |-> left % TimeSpan, cog |-> e.cog, timer |-> e.timer, seq |-> e.seq]
      BY <1>1 DEF Remaining
    <2> HIDE DEF e
    <2>3. left \in 0 .. TimeSpan - 1 /\ curMs + left = e.endMs
      BY <1>2, <2>1
    <2> HIDE DEF left
    <2>4. left \in Int /\ 0 <= left /\ left < TimeSpan
      BY <1>2, <2>3
    <2>5. left % TimeSpan = left
      BY <1>2, <2>4, Modulo
    <2>6. e.endMs \in Int /\ 0 <= e.endMs /\ e.endMs < TimeSpan
      BY <1>2, <2>1
    <2>7. e.endMs % TimeSpan = e.endMs
      BY <1>2, <2>6, Modulo
    <2>8. e.seq \in 1 .. MaxArms
      BY <1>2, <2>1
    <2>9. timers[k] = [left |-> left, cog |-> e.cog, timer |-> e.timer, seq |-> e.seq]
      BY <2>2, <2>5
    <2>10. timers[k] \in TimerType
      BY <2>1, <2>3, <2>8, <2>9 DEF TimerType
    <2>11. /\ timers[k].left = left /\ timers[k].seq = e.seq
           /\ timers[k].cog = e.cog /\ timers[k].timer = e.timer
      BY <2>9
    <2>12. (curMs + timers[k].left) % TimeSpan = e.endMs /\ saved'.ms + timers[k].left < TimeSpan
      BY <1>1, <2>3, <2>6, <2>7, <2>11
    <2> QED
      BY <2>10, <2>11, <2>12 DEF e, left
  <1> HIDE DEF timers
  <1>7. timers \in Seq(TimerType) /\ Len(timers) <= NumEvents
    <2>1. timers = [k \in 1 .. Len(list) |-> timers[k]] /\ DOMAIN list = 1 .. Len(list) /\ Len(list) \in Nat
      <3>1. timers = Remaining /\ DOMAIN list = 1 .. Len(list) /\ Len(list) \in Nat
        BY <1>1, <1>3, LenProperties DEF timers
      <3> QED
        BY <3>1 DEF Remaining
    <2>2. timers \in Seq(TimerType) /\ Len(timers) = Len(list)
      BY <1>6, <2>1
    <2> QED
      BY <1>3, <2>2, FitsPool
  <1>8. budget' \in [registers : 0 .. MaxRegisters, saves : 0 .. MaxSaves, loads : 0 .. MaxLoads,
                     levels : 0 .. MaxLevels]
    <2>1. /\ budget \in [registers : 0 .. MaxRegisters, saves : 0 .. MaxSaves, loads : 0 .. MaxLoads,
                         levels : 0 .. MaxLevels]
          /\ budget.saves > 0 /\ budget' = [budget EXCEPT !.saves = @ - 1]
          /\ MaxSaves \in Nat
      BY EventAssumption DEF Save, Types
    <2> QED
      BY ONLY <2>1
  <1>9. Types'
    <2>1. saved'.made \in BOOLEAN
      BY <1>1, Zenon
    <2> QED
      BY <1>1, <1>7, <1>8, <2>1 DEF Types, timers
  <1>10. PoolInv'
    BY <1>1, PoolUntouched
  <1>11. SavedInOrder'
    <2>1. \A k \in DOMAIN timers : saved'.ms + timers[k].left < TimeSpan /\ timers[k].seq <= arms
      <3> TAKE k \in DOMAIN timers
      <3>1. k \in DOMAIN list
        BY <1>5 DEF timers
      <3>2. timers[k].seq = event[list[k]].seq
        BY <1>6, <3>1
      <3> QED
        BY <1>2, <1>4, <1>6, <3>1, <3>2
    <2>2. \A j, k \in DOMAIN timers : j < k =>
             \/ timers[j].left < timers[k].left
             \/ timers[j].left = timers[k].left /\ timers[j].seq < timers[k].seq
      <3> SUFFICES ASSUME NEW j \in DOMAIN list, NEW k \in DOMAIN list, j < k
                   PROVE  \/ timers[j].left < timers[k].left
                          \/ timers[j].left = timers[k].left /\ timers[j].seq < timers[k].seq
        BY <1>5 DEF timers
      <3>1. Precedes(event[list[j]], event[list[k]])
        BY DEF PoolInv, ListInOrder, InOrder
      <3>2. /\ timers[j].left = event[list[j]].endMs - curMs /\ timers[j].seq = event[list[j]].seq
            /\ timers[k].left = event[list[k]].endMs - curMs /\ timers[k].seq = event[list[k]].seq
        BY <1>6
      <3>3. event[list[j]].endMs \in Int /\ event[list[k]].endMs \in Int
        BY <1>4
      <3> QED
        BY <1>2, <3>1, <3>2, <3>3 DEF Precedes
    <2> QED
      BY <1>1, <2>1, <2>2 DEF SavedInOrder, timers
  <1>12. TimeInv'
    BY <1>1, <1>11 DEF TimeInv, NothingMissed, ArmedDuringAdvanceWaits, ClosedBetween
  <1>13. TaskInv'
    BY <1>1, TasksUntouched
  <1>14. \A k \in DOMAIN list :
            LET t == timers[k] IN
            /\ (curMs + t.left) % TimeSpan = event[list[k]].endMs
            /\ t.cog = event[list[k]].cog /\ t.timer = event[list[k]].timer /\ t.seq = event[list[k]].seq
    BY <1>6
  <1> QED
    BY <1>1, <1>5, <1>9, <1>10, <1>12, <1>13, <1>14 DEF timers

\* The saved timers are in order, so each goes behind all that were restored before it.
LEMMA RestoredInPlace ==
    ASSUME Types, SavedInOrder
    PROVE  \A k \in 1 .. Len(saved.timers) :
              /\ LoadedEnd(k) = saved.ms + saved.timers[k].left
              /\ LoadedEnd(k) \in saved.ms .. TimeSpan - 1
              /\ LoadedPlace(k) = k
  <1> DEFINE n == Len(saved.timers)
             left(k) == saved.timers[k].left
  <1>1. n \in Nat /\ DOMAIN saved.timers = 1 .. n /\ TimeSpan \in Nat /\ saved.ms \in Nat
    <2>1. saved.timers \in Seq(TimerType) /\ saved.ms \in 0 .. Horizon
      BY DEF Types
    <2>2. Horizon \in Nat /\ TimeSpan \in Nat
      BY EventAssumption
    <2> QED
      BY ONLY <2>1, <2>2
  <1>2. \A k \in 1 .. n : left(k) \in Nat
    <2>1. \A t \in TimerType : t.left \in Nat
      BY <1>1 DEF TimerType
    <2> QED
      BY <2>1 DEF Types
  <1>3. \A k \in 1 .. n : saved.ms + left(k) < TimeSpan
    BY <1>1 DEF SavedInOrder
  <1>4. \A j, k \in 1 .. n : j < k => left(j) <= left(k)
    <2> TAKE j, k \in 1 .. n
    <2> HAVE j < k
    <2>1. left(j) < left(k) \/ left(j) = left(k)
      BY <1>1 DEF SavedInOrder
    <2> QED
      BY <1>2, <2>1
  <1>5. \A k \in 1 .. n : LoadedEnd(k) = (saved.ms + left(k)) % TimeSpan
    BY DEF LoadedEnd
  <1> HIDE DEF n, left
  <1>6. \A k \in 1 .. n : LoadedEnd(k) = saved.ms + left(k)
    <2> TAKE k \in 1 .. n
    <2> DEFINE e == saved.ms + left(k)
    <2>1. e \in Int /\ 0 <= e /\ e < TimeSpan
      BY <1>1, <1>2, <1>3
    <2>2. LoadedEnd(k) = e % TimeSpan
      BY <1>5
    <2> HIDE DEF e
    <2>3. e % TimeSpan = e
      BY <1>1, <2>1, Modulo
    <2> QED
      BY <2>2, <2>3 DEF e
  <1>7. \A k \in 1 .. n : LoadedEnd(k) \in saved.ms .. TimeSpan - 1
    BY <1>1, <1>2, <1>3, <1>6
  <1>8. ASSUME NEW k \in 1 .. n
        PROVE  LoadedPlace(k) = k
    <2> DEFINE P(j) == LoadedEnd(j) < LoadedEnd(k) \/ (LoadedEnd(j) = LoadedEnd(k) /\ j <= k)
    <2>1. ASSUME NEW j \in 1 .. n
          PROVE  P(j) <=> j <= k
      <3>1. LoadedEnd(j) = saved.ms + left(j) /\ LoadedEnd(k) = saved.ms + left(k)
        BY <1>6
      <3>2. left(j) \in Nat /\ left(k) \in Nat
        BY <1>2
      <3>3. j < k => left(j) <= left(k)
        BY <1>4
      <3>4. k < j => left(k) <= left(j)
        BY <1>4
      <3> QED
        BY <1>1, <3>1, <3>2, <3>3, <3>4
    <2>2. LoadedPlace(k) = Cardinality({j \in 1 .. n : P(j)})
      BY <1>1 DEF LoadedPlace
    <2> HIDE DEF P
    <2>3. {j \in 1 .. n : P(j)} = 1 .. k
      <3>1. \A j \in 1 .. n : j \in 1 .. k <=> j <= k
        OBVIOUS
      <3>2. 1 .. k \subseteq 1 .. n
        BY <1>1
      <3> QED
        BY <2>1, <3>1, <3>2
    <2>4. Cardinality(1 .. k) = k
      <3>1. \A m \in Nat : Cardinality(1 .. m) = m
        BY FS_Interval
      <3> QED
        BY <1>1, <3>1
    <2> QED
      BY <2>2, <2>3, <2>4
  <1> QED
    BY <1>6, <1>7, <1>8 DEF n, left

\* Load: the timers of the saved game take the first slots, in their order, and the others are free.
LEMMA LoadSound ==
    ASSUME IInv, NEW reopens \in BOOLEAN, Load(reopens)
    PROVE  /\ IInv'
           /\ open' /\ UNCHANGED saved /\ curMs' = saved.ms
           /\ SlotsOf(list') = {k - 1 : k \in DOMAIN saved.timers}
           /\ \A k \in DOMAIN saved.timers :
                 event'[k - 1] = [endMs |-> LoadedEnd(k), cog |-> saved.timers[k].cog,
                                  timer |-> saved.timers[k].timer, seq |-> saved.timers[k].seq]
  <1> USE DEF IInv
  <1> DEFINE n == Len(saved.timers)
             restored(k) == [endMs |-> LoadedEnd(k), cog |-> saved.timers[k].cog,
                             timer |-> saved.timers[k].timer, seq |-> saved.timers[k].seq]
  <1>1. /\ UNCHANGED <<phase, idx, current, saved, arms, armedBefore>>
        /\ phase = "frame" /\ curMs' = saved.ms /\ open' = TRUE
        /\ event' = [s \in Slots |-> IF s >= n THEN Clear ELSE restored(s + 1)]
        /\ free' = SubSeq(ResetFree, 1, NumEvents - n)
        /\ list' = [p \in 1 .. n |-> (CHOOSE k \in 1 .. n : LoadedPlace(k) = p) - 1]
        /\ tasks' = IF reopens THEN Registered(tasks, AiTask, TRUE, AiRate) ELSE tasks
        /\ budget.loads > 0 /\ budget' = [budget EXCEPT !.loads = @ - 1]
    BY DEF Load
  <1>2. /\ n \in 0 .. NumEvents /\ DOMAIN saved.timers = 1 .. n /\ NumEvents \in Nat
        /\ saved.ms \in 0 .. Horizon /\ TimeSpan \in Nat /\ MaxArms \in Nat /\ arms \in 0 .. MaxArms
    <2>1. /\ saved.timers \in Seq(TimerType) /\ Len(saved.timers) <= NumEvents
          /\ saved.ms \in 0 .. Horizon /\ arms \in 0 .. MaxArms
      BY DEF Types
    <2>2. NumEvents \in Nat /\ TimeSpan \in Nat /\ MaxArms \in Nat
      BY EventAssumption
    <2> QED
      BY ONLY <2>1, <2>2
  <1>3. \A k \in 1 .. n : /\ LoadedEnd(k) = saved.ms + saved.timers[k].left
                          /\ LoadedEnd(k) \in saved.ms .. TimeSpan - 1
                          /\ LoadedPlace(k) = k
    BY RestoredInPlace DEF TimeInv
  <1>4. \A k \in 1 .. n : /\ saved.timers[k].cog \in Cogs /\ saved.timers[k].timer \in TimerIds
                          /\ saved.timers[k].seq \in 1 .. arms
                          /\ saved.timers[k].left \in Int
    <2>1. \A k \in 1 .. n : saved.timers[k] \in TimerType
      BY DEF Types
    <2>2. \A t \in TimerType : /\ t.cog \in Cogs /\ t.timer \in TimerIds /\ t.seq \in 1 .. MaxArms
                               /\ t.left \in Int
      BY <1>2 DEF TimerType
    <2>3. \A k \in 1 .. n : saved.timers[k].seq <= arms
      BY <1>2 DEF TimeInv, SavedInOrder
    <2> QED
      BY <1>2, <2>1, <2>2, <2>3
  <1>5. \A k \in 1 .. n : restored(k).endMs = LoadedEnd(k) /\ restored(k).seq = saved.timers[k].seq
                          /\ restored(k).cog = saved.timers[k].cog /\ restored(k).timer = saved.timers[k].timer
    OBVIOUS
  <1>6. \A k \in 1 .. n : restored(k) \in EventType
    <2> TAKE k \in 1 .. n
    <2>1. LoadedEnd(k) \in saved.ms .. TimeSpan - 1 /\ saved.ms \in Nat /\ TimeSpan \in Nat
      BY <1>2, <1>3
    <2>2. LoadedEnd(k) \in 0 .. TimeSpan - 1
      BY ONLY <2>1
    <2>3. saved.timers[k].seq \in 0 .. MaxArms
      BY <1>2, <1>4
    <2> QED
      BY <1>4, <2>2, <2>3 DEF EventType
  <1>7. \A j, k \in 1 .. n : j < k => Precedes(restored(j), restored(k))
    <2> TAKE j, k \in 1 .. n
    <2> HAVE j < k
    <2>1. \/ saved.timers[j].left < saved.timers[k].left
          \/ saved.timers[j].left = saved.timers[k].left /\ saved.timers[j].seq < saved.timers[k].seq
      BY <1>2 DEF TimeInv, SavedInOrder
    <2>2. /\ LoadedEnd(j) = saved.ms + saved.timers[j].left /\ saved.timers[j].left \in Int
          /\ LoadedEnd(k) = saved.ms + saved.timers[k].left /\ saved.timers[k].left \in Int
          /\ saved.ms \in Int
      BY <1>2, <1>3, <1>4
    <2>3. LoadedEnd(j) < LoadedEnd(k) \/ (LoadedEnd(j) = LoadedEnd(k)
                                          /\ saved.timers[j].seq < saved.timers[k].seq)
      BY ONLY <2>1, <2>2
    <2> QED
      BY <1>5, <2>3 DEF Precedes
  <1> HIDE DEF n, restored
  <1>8. \A p \in 1 .. n : (CHOOSE k \in 1 .. n : LoadedPlace(k) = p) = p
    BY <1>3
  <1>9. list' = [p \in 1 .. n |-> p - 1]
    BY <1>1, <1>8
  <1>10. \A p \in 1 .. n : p - 1 \in Slots
    BY <1>2 DEF Slots
  <1>11. list' \in Seq(Slots) /\ DOMAIN list' = 1 .. n /\ \A p \in 1 .. n : list'[p] = p - 1
    BY <1>2, <1>9, <1>10
  <1>12. NoRepeats(list') /\ SlotsOf(list') = {s \in Slots : s < n}
    <2>1. NoRepeats(list')
      BY <1>2, <1>11 DEF NoRepeats
    <2>2. ASSUME NEW s \in Slots, s < n PROVE s \in SlotsOf(list')
      <3>1. s + 1 \in 1 .. n /\ (s + 1) - 1 = s
        BY <1>2, <2>2 DEF Slots
      <3> QED
        BY <1>11, <3>1 DEF SlotsOf
    <2>3. ASSUME NEW s \in SlotsOf(list') PROVE s \in Slots /\ s < n
      BY <1>2, <1>10, <1>11 DEF SlotsOf
    <2> QED
      BY <2>1, <2>2, <2>3
  <1>13. free' \in Seq(Slots) /\ NoRepeats(free') /\ SlotsOf(free') = {s \in Slots : s >= n}
    BY <1>1, <1>2, FreeAfterReset
  <1>14. event' \in [Slots -> EventType]
    <2>1. Clear \in EventType
      BY ClearIsEvent
    <2>2. \A s \in Slots : s >= n \/ s + 1 \in 1 .. n
      BY <1>2 DEF Slots
    <2> QED
      BY <1>1, <1>6, <2>1, <2>2
  <1>15. \A k \in 1 .. n : event'[k - 1] = restored(k)
    <2> TAKE k \in 1 .. n
    <2>1. k - 1 \in Slots /\ ~(k - 1 >= n) /\ (k - 1) + 1 = k
      BY <1>2, <1>10
    <2> QED
      BY <1>1, <2>1
  <1>16. Types'
    <2>1. tasks' \in [Tasks -> TaskType]
      <3>1. AiTask \in Tasks /\ AiRate \in NetRates \cup {AiRate, 0}
        BY EventAssumption
      <3> QED
        BY <1>1, <3>1, TypeOfTask DEF Types
    <2>2. budget' \in [registers : 0 .. MaxRegisters, saves : 0 .. MaxSaves, loads : 0 .. MaxLoads,
                       levels : 0 .. MaxLevels]
      <3>1. budget \in [registers : 0 .. MaxRegisters, saves : 0 .. MaxSaves, loads : 0 .. MaxLoads,
                        levels : 0 .. MaxLevels]
            /\ MaxLoads \in Nat
        BY EventAssumption DEF Types
      <3>2. budget.loads > 0 /\ budget' = [budget EXCEPT !.loads = @ - 1]
        BY <1>1
      <3> QED
        BY ONLY <3>1, <3>2
    <2>3. curMs' \in 0 .. Horizon
      BY <1>1, <1>2
    <2> QED
      BY <1>1, <1>11, <1>13, <1>14, <2>1, <2>2, <2>3 DEF Types
  <1>17. SlotsPartition'
    <2>1. current' = NoSlot /\ NoSlot \notin Slots
      BY <1>1, EventAssumption DEF NoSlot, Slots, PoolInv, SlotsPartition
    <2>2. \A s \in Slots : (s < n) <=> ~(s >= n)
      BY <1>2 DEF Slots
    <2> QED
      BY <1>1, <1>12, <1>13, <2>1, <2>2 DEF SlotsPartition
  <1>18. ListInOrder'
    <2>1. \A j, k \in 1 .. n : j < k => Precedes(event'[list'[j]], event'[list'[k]])
      BY <1>7, <1>11, <1>15
    <2> QED
      BY <1>11, <2>1 DEF ListInOrder, InOrder
  <1>19. ListArmed'
    <2>1. \A k \in 1 .. n : /\ event'[list'[k]].cog \in Cogs /\ event'[list'[k]].timer \in TimerIds
                            /\ event'[list'[k]].seq \in 1 .. arms
      BY <1>4, <1>5, <1>11, <1>15
    <2> QED
      BY <1>1, <1>11, <2>1 DEF ListArmed
  <1>20. NothingMissed'
    <2>1. \A k \in 1 .. n : ~(event'[list'[k]].endMs < curMs')
      <3> TAKE k \in 1 .. n
      <3>1. event'[list'[k]].endMs = LoadedEnd(k)
        BY <1>5, <1>11, <1>15
      <3>2. LoadedEnd(k) \in saved.ms .. TimeSpan - 1 /\ saved.ms \in Int
        BY <1>2, <1>3
      <3> QED
        BY <1>1, <1>2, <3>1, <3>2
    <2> QED
      BY <1>11, <2>1 DEF NothingMissed
  <1>21. TimeInv'
    BY <1>1, <1>20 DEF TimeInv, ArmedDuringAdvanceWaits, SavedInOrder, ClosedBetween
  <1>22. TaskInv'
    BY <1>1 DEF TaskInv, TasksSoFar, TasksKept
  <1>23. SlotsOf(list') = {k - 1 : k \in 1 .. n}
    BY <1>11 DEF SlotsOf
  <1> QED
    BY <1>1, <1>2, <1>15, <1>16, <1>17, <1>18, <1>19, <1>21, <1>22, <1>23 DEF PoolInv, restored

\* A clock that goes back, or stays, makes no timer overdue.
LEMMA NothingMissedEarlier ==
    ASSUME IInv, UNCHANGED <<list, event>>, curMs' = 0 \/ (curMs' = curMs /\ phase = "frame")
    PROVE  NothingMissed'
  <1>1. \A k \in DOMAIN list : ~(event[list[k]].endMs < curMs')
    <2> TAKE k \in DOMAIN list
    <2>1. event[list[k]] \in EventType
      BY DEF IInv, Types
    <2>2. event[list[k]].endMs \in Nat
      BY <2>1, EventAssumption DEF EventType
    <2>3. CASE curMs' = 0
      BY <2>2, <2>3
    <2>4. CASE curMs' = curMs /\ phase = "frame"
      BY <2>4 DEF IInv, TimeInv, NothingMissed
    <2> QED
      BY <2>3, <2>4
  <1> QED
    BY <1>1 DEF NothingMissed

\* OpenLevel: the clock stays or goes back to 0.
LEMMA OpenSound ==
    ASSUME IInv, NEW online \in BOOLEAN, OpenLevel(online)
    PROVE  IInv'
  <1> USE DEF IInv
  <1>1. /\ UNCHANGED <<list, event, free, tasks, idx, current, saved, arms, armedBefore>>
        /\ ~open /\ open' = TRUE /\ phase' = "loading" /\ curMs' \in {0, curMs}
        /\ budget.levels > 0 /\ budget' = [budget EXCEPT !.levels = @ - 1]
    BY DEF OpenLevel
  <1>2. phase = "frame"
    BY <1>1 DEF TimeInv, ClosedBetween
  <1>3. curMs' \in 0 .. Horizon /\ phase' \in Phases
    <2>1. curMs \in 0 .. Horizon /\ Horizon \in Nat
      BY EventAssumption DEF Types
    <2>2. phase' \in Phases
      BY <1>1 DEF Phases
    <2>3. curMs' \in 0 .. Horizon
      BY <1>1, <2>1
    <2> QED
      BY <2>2, <2>3
  <1>4. budget' \in [registers : 0 .. MaxRegisters, saves : 0 .. MaxSaves, loads : 0 .. MaxLoads,
                     levels : 0 .. MaxLevels]
    <2>1. budget \in [registers : 0 .. MaxRegisters, saves : 0 .. MaxSaves, loads : 0 .. MaxLoads,
                      levels : 0 .. MaxLevels]
          /\ MaxLevels \in Nat
      BY EventAssumption DEF Types
    <2>2. budget.levels > 0 /\ budget' = [budget EXCEPT !.levels = @ - 1]
      BY <1>1
    <2> QED
      BY ONLY <2>1, <2>2
  <1>5. Types'
    <2>1. /\ list \in Seq(Slots) /\ event \in [Slots -> EventType] /\ free \in Seq(Slots)
          /\ tasks \in [Tasks -> TaskType] /\ idx \in 1 .. NumTasks + 1
          /\ current \in Slots \cup {NoSlot}
          /\ saved.ms \in 0 .. Horizon /\ saved.made \in BOOLEAN
          /\ saved.timers \in Seq(TimerType) /\ Len(saved.timers) <= NumEvents
          /\ arms \in 0 .. MaxArms /\ armedBefore \in 0 .. arms
      BY DEF Types
    <2> QED
      BY <1>1, <1>3, <1>4, <2>1 DEF Types
  <1>6. PoolInv'
    BY <1>1, <1>2, PoolUntouched
  <1>7. NothingMissed'
    BY <1>1, <1>2, NothingMissedEarlier
  <1>8. TimeInv'
    BY <1>1, <1>7 DEF TimeInv, ArmedDuringAdvanceWaits, SavedInOrder, ClosedBetween
  <1>9. TaskInv'
    BY <1>1 DEF TaskInv, TasksSoFar, TasksKept
  <1> QED
    BY <1>5, <1>6, <1>8, <1>9

\* LevelOpened: the clock is 0.
LEMMA LevelOpenedSound ==
    ASSUME IInv, LevelOpened
    PROVE  IInv'
  <1> USE DEF IInv
  <1>1. /\ UNCHANGED <<list, event, free, open, idx, current, saved, arms, armedBefore, budget>>
        /\ phase = "loading" /\ phase' = "frame" /\ curMs' = 0
        /\ tasks' = Registered(tasks, AiTask, TRUE, AiRate)
    BY DEF LevelOpened
  <1>2. tasks' \in [Tasks -> TaskType]
    <2>1. AiTask \in Tasks /\ AiRate \in NetRates \cup {AiRate, 0}
      BY EventAssumption
    <2> QED
      BY <1>1, <2>1, TypeOfTask DEF Types
  <1>3. Types'
    <2>1. curMs' \in 0 .. Horizon /\ phase' \in Phases
      BY <1>1, EventAssumption DEF Phases
    <2> QED
      BY <1>1, <1>2, <2>1 DEF Types
  <1>4. PoolInv'
    BY <1>1, PoolUntouched
  <1>5. NothingMissed'
    BY <1>1, NothingMissedEarlier
  <1>6. TimeInv'
    BY <1>1, <1>5 DEF TimeInv, ArmedDuringAdvanceWaits, SavedInOrder, ClosedBetween
  <1>7. TaskInv'
    BY <1>1 DEF TaskInv, TasksSoFar, TasksKept
  <1> QED
    BY <1>3, <1>4, <1>6, <1>7

\* CloseLevel: sithEvent_Reset throws the timers away and frees every slot.
LEMMA CloseSound ==
    ASSUME IInv, CloseLevel
    PROVE  IInv'
  <1> USE DEF IInv
  <1>1. /\ UNCHANGED <<curMs, phase, idx, current, saved, arms, armedBefore, budget>>
        /\ phase = "frame" /\ open' = FALSE /\ tasks' = Registered(tasks, AiTask, FALSE, 0)
        /\ event' = [s \in Slots |-> Clear] /\ free' = ResetFree /\ list' = <<>>
    BY DEF CloseLevel, Reset
  <1>2. tasks' \in [Tasks -> TaskType]
    <2>1. AiTask \in Tasks /\ 0 \in NetRates \cup {AiRate, 0}
      BY EventAssumption
    <2> QED
      BY <1>1, <2>1, TypeOfTask DEF Types
  <1>3. Types'
    <2>1. event' \in [Slots -> EventType]
      <3>1. Clear \in EventType
        BY ClearIsEvent
      <3> QED
        BY <1>1, <3>1
    <2>2. list' \in Seq(Slots) /\ free' \in Seq(Slots)
      BY <1>1, EmptySeq, ResetSlots
    <2> QED
      BY <1>1, <1>2, <2>1, <2>2 DEF Types
  <1>4. SlotsPartition'
    <2>1. current' = NoSlot /\ NoSlot \notin Slots
      BY <1>1, EventAssumption DEF NoSlot, Slots, PoolInv, SlotsPartition
    <2>2. NoRepeats(list') /\ SlotsOf(list') = {}
      BY <1>1 DEF NoRepeats, SlotsOf
    <2>3. NoRepeats(free') /\ SlotsOf(free') = Slots
      BY <1>1, ResetSlots
    <2> QED
      BY <1>1, <2>1, <2>2, <2>3 DEF SlotsPartition
  <1>5. PoolInv'
    BY <1>1, <1>4 DEF PoolInv, ListInOrder, InOrder, ListArmed
  <1>6. TimeInv'
    BY <1>1 DEF TimeInv, NothingMissed, ArmedDuringAdvanceWaits, SavedInOrder, ClosedBetween
  <1>7. TaskInv'
    BY <1>1 DEF TaskInv, TasksSoFar, TasksKept
  <1> QED
    BY <1>3, <1>5, <1>6, <1>7

LEMMA StutterSound == IInv /\ UNCHANGED vars => IInv'
  <1> SUFFICES ASSUME IInv, UNCHANGED vars PROVE IInv'
    OBVIOUS
  <1> USE DEF IInv, vars
  <1>1. Types'
    BY DEF Types
  <1>2. PoolInv'
    BY PoolUntouched
  <1>3. TimeInv'
    BY DEF TimeInv, NothingMissed, ArmedDuringAdvanceWaits, SavedInOrder, ClosedBetween
  <1>4. TaskInv'
    BY TasksUntouched
  <1> QED
    BY <1>1, <1>2, <1>3, <1>4

\* Every step keeps the invariant.
LEMMA StepSound == IInv /\ [Next]_vars => IInv'
  <1> SUFFICES ASSUME IInv, [Next]_vars PROVE IInv'
    OBVIOUS
  <1>1. CASE UNCHANGED vars
    BY <1>1, StutterSound
  <1>2. ASSUME NEW cog \in Cogs, NEW timer \in TimerIds, NEW when \in Delays, SetTimerEx(cog, timer, when)
        PROVE  IInv'
    BY <1>2, SetSound
  <1>3. ASSUME NEW cog \in Cogs, NEW timer \in TimerIds, KillTimerEx(cog, timer)
        PROVE  IInv'
    BY <1>3, KillSound
  <1>4. ASSUME NEW rate \in NetRates, RegisterFunc(TRUE, rate)
        PROVE  IInv'
    BY <1>4, RegisterSound
  <1>5. CASE RegisterFunc(FALSE, 0)
    BY <1>5, RegisterSound
  <1>6. ASSUME NEW delta \in 1 .. MaxDelta, Tick(delta)
        PROVE  IInv'
    BY <1>6, TickSound
  <1>7. CASE Advance
    BY <1>7, AdvanceTasksSound, TaskReturnsSound, AdvanceEventSound, HandlerReturnsSound DEF Advance
  <1>8. CASE Save
    BY <1>8, SaveSound
  <1>9. ASSUME NEW reopens \in BOOLEAN, Load(reopens)
        PROVE  IInv'
    BY <1>9, LoadSound
  <1>10. ASSUME NEW online \in BOOLEAN, OpenLevel(online)
         PROVE  IInv'
    BY <1>10, OpenSound
  <1>11. CASE LevelOpened
    BY <1>11, LevelOpenedSound
  <1>12. CASE CloseLevel
    BY <1>12, CloseSound
  <1> QED
    BY <1>1, <1>2, <1>3, <1>4, <1>5, <1>6, <1>7, <1>8, <1>9, <1>10, <1>11, <1>12 DEF Next

-----------------------------------------------------------------------------
(* The theorems *)

\* Every behaviour of the timers keeps the inductive invariant.
THEOREM InvariantHolds == Spec => []IInv
  BY InitSound, StepSound, PTL DEF Spec

\* Whatever scripts, frames, saved games and levels do, the list and the stack of free slots stay
\* within the pool and every slot, time and index in its range, for a pool of any size.
THEOREM EventsTyped == Spec => []TypeOK
  <1>1. IInv => TypeOK
    BY TypesSuffice DEF IInv, PoolInv
  <1> QED
    BY <1>1, InvariantHolds, PTL

\* No slot leaks and none is given out twice: each is on the list, on the stack of free slots or
\* in the hands of sithEvent_Advance.
THEOREM PoolIsPartitioned == Spec => []SlotsPartition
  <1>1. IInv => SlotsPartition
    BY DEF IInv, PoolInv
  <1> QED
    BY <1>1, InvariantHolds, PTL

\* sithEvent_Advance calls only handlers of timers that were armed before it began, so a script
\* that arms its timer again and again cannot hold the frame.
THEOREM AdvanceIsFinite == Spec => []ArmedDuringAdvanceWaits
  <1>1. IInv => ArmedDuringAdvanceWaits
    BY DEF IInv, TimeInv
  <1> QED
    BY <1>1, InvariantHolds, PTL

\* When sithEvent_Advance goes on from the tasks to the timers, no periodic task is more than its
\* rate behind or has been called later than now.
THEOREM TasksAreKept == Spec => []TasksKept
  <1>1. IInv => TasksKept
    BY DEF IInv, TaskInv
  <1> QED
    BY <1>1, InvariantHolds, PTL

-----------------------------------------------------------------------------
(* The timers keep the promise of TimerQueue. *)

Timer(s) == [seq |-> event[s].seq, cog |-> event[s].cog, timer |-> event[s].timer,
             endMs |-> event[s].endMs]

LEMMA WaitingIsList == Waiting = {Timer(s) : s \in SlotsOf(list)}
  BY DEF Waiting, Timer

\* What is on the list has been armed, and every time of it is a number.
LEMMA WaitingArmed ==
    ASSUME IInv
    PROVE  \A s \in SlotsOf(list) : /\ s \in Slots /\ event[s].endMs \in Int /\ event[s].seq \in 1 .. arms
                                    /\ phase = "frame" => event[s].endMs >= curMs
  <1> USE DEF IInv
  <1>1. \A k \in DOMAIN list : list[k] \in Slots /\ event[list[k]].endMs \in Int
    BY ListEnds
  <1>2. \A k \in DOMAIN list : event[list[k]].seq \in 1 .. arms
    BY DEF PoolInv, ListArmed
  <1>3. \A k \in DOMAIN list : phase = "frame" => ~(event[list[k]].endMs < curMs)
    BY DEF TimeInv, NothingMissed
  <1>4. curMs \in Int
    BY EventAssumption DEF Types
  <1> QED
    BY <1>1, <1>2, <1>3, <1>4 DEF SlotsOf

\* The steps a script cannot see.
LEMMA Unseen ==
    ASSUME UNCHANGED <<open, curMs, saved, list>>, \A s \in SlotsOf(list) : event'[s] = event[s]
    PROVE  UNCHANGED Abstract!vars
  <1>1. SlotsOf(list') = SlotsOf(list)
    OBVIOUS
  <1>2. Waiting' = Waiting
    BY <1>1 DEF Waiting
  <1>3. Shelf' = Shelf
    BY DEF Shelf
  <1> QED
    BY <1>2, <1>3 DEF Abstract!vars

\* SetTimerEx arms a timer, unless the pool is empty.
LEMMA SetRefines ==
    ASSUME IInv, NEW cog \in Cogs, NEW timer \in TimerIds, NEW when \in Delays,
           SetTimerEx(cog, timer, when)
    PROVE  [Abstract!Next]_(Abstract!vars)
  <1>1. UNCHANGED <<open, curMs, saved>> /\ open
    BY DEF SetTimerEx, ScriptsRun
  <1>2. CASE UNCHANGED <<list, event>>
    BY <1>1, <1>2, Unseen
  <1>3. ASSUME NEW slot \in Slots,
               slot \notin SlotsOf(list) /\ SlotsOf(list') = SlotsOf(list) \cup {slot},
               event'[slot] = [endMs |-> curMs + when, cog |-> cog, timer |-> timer, seq |-> arms + 1],
               \A s \in SlotsOf(list) : event'[s] = event[s]
        PROVE  [Abstract!Next]_(Abstract!vars)
    <2> DEFINE t == [seq |-> arms + 1, cog |-> cog, timer |-> timer, endMs |-> curMs + when]
    <2>1. Waiting' = Waiting \cup {t}
      BY <1>3 DEF Waiting
    <2>2. \A u \in Waiting : u.seq < t.seq
      <3>1. arms \in Int
        BY EventAssumption DEF IInv, Types
      <3>2. \A s \in SlotsOf(list) : Timer(s).seq < arms + 1
        BY <3>1, WaitingArmed DEF Timer
      <3> QED
        BY <3>2, WaitingIsList
    <2>3. t \notin Waiting
      <3>1. t.seq = arms + 1 /\ arms \in Int
        BY EventAssumption DEF IInv, Types
      <3> QED
        BY <2>2, <3>1
    <2>4. t.endMs >= curMs
      BY EventAssumption DEF IInv, Types
    <2>5. Shelf' = Shelf
      BY <1>1 DEF Shelf
    <2> HIDE DEF t
    <2>6. Abstract!Arm(t)
      BY <1>1, <2>1, <2>2, <2>4, <2>5 DEF Abstract!Arm
    <2>7. t \in Waiting' \ Waiting
      BY <2>1, <2>3
    <2> QED
      BY <2>6, <2>7 DEF Abstract!Next
  <1> QED
    BY <1>2, <1>3, SetSound

\* KillTimerEx kills the timers of the cog that have the id.
LEMMA KillRefines ==
    ASSUME IInv, NEW cog \in Cogs, NEW timer \in TimerIds, KillTimerEx(cog, timer)
    PROVE  Abstract!Next
  <1>1. UNCHANGED <<open, curMs, saved>> /\ open
    BY DEF KillTimerEx, ScriptsRun
  <1>2. /\ SlotsOf(list') = {s \in SlotsOf(list) : event[s].cog # cog \/ event[s].timer # timer}
        /\ \A s \in SlotsOf(list') : event'[s] = event[s]
    BY KillSound
  <1>3. Waiting' = {Timer(s) : s \in SlotsOf(list')}
    BY <1>2 DEF Waiting, Timer
  <1>4. \A s : Timer(s).cog = event[s].cog /\ Timer(s).timer = event[s].timer
    BY DEF Timer
  <1>5. Waiting' = {t \in Waiting : t.cog # cog \/ t.timer # timer}
    BY <1>2, <1>3, <1>4, WaitingIsList
  <1>6. Shelf' = Shelf
    BY <1>1 DEF Shelf
  <1>7. Abstract!Kill(cog, timer)
    BY <1>1, <1>5, <1>6 DEF Abstract!Kill
  <1> QED
    BY <1>7 DEF Abstract!Next

\* AdvanceEvent fires the earliest timer when it is overdue.
LEMMA AdvanceEventRefines ==
    ASSUME IInv, AdvanceEvent
    PROVE  [Abstract!Next]_(Abstract!vars)
  <1>1. UNCHANGED <<open, curMs, saved, event>> /\ phase = "events"
    BY DEF AdvanceEvent, TakeNext
  <1>2. CASE UNCHANGED list
    BY <1>1, <1>2, Unseen
  <1>3. CASE /\ list # <<>> /\ event[list[1]].endMs < curMs
             /\ SlotsOf(list') = SlotsOf(list) \ {list[1]} /\ list[1] \in SlotsOf(list)
             /\ \A s \in SlotsOf(list) : s = list[1] \/ Precedes(event[list[1]], event[s])
    <2> DEFINE f == list[1]
               t == Timer(f)
    <2>1. \A s : Timer(s).seq = event[s].seq /\ Timer(s).endMs = event[s].endMs
      BY DEF Timer
    <2>2. Waiting' = {Timer(s) : s \in SlotsOf(list')}
      BY <1>1 DEF Waiting, Timer
    <2>3. \A s \in SlotsOf(list) : s # f => Abstract!Before(Timer(f), Timer(s))
      BY <1>3, <2>1 DEF Precedes, Abstract!Before
    <2>4. \A s \in SlotsOf(list) : s # f => Timer(s) # Timer(f)
      <3>1. \A s \in SlotsOf(list) : event[s].endMs \in Int /\ event[s].seq \in Int
        BY WaitingArmed
      <3> SUFFICES ASSUME NEW s \in SlotsOf(list), s # f, Timer(s) = Timer(f) PROVE FALSE
        OBVIOUS
      <3>2. event[s].seq = event[f].seq /\ event[s].endMs = event[f].endMs
        BY <2>1
      <3> QED
        BY <1>3, <3>1, <3>2 DEF Precedes
    <2> HIDE DEF f
    <2>5. f \in SlotsOf(list) /\ SlotsOf(list') = SlotsOf(list) \ {f}
      BY <1>3 DEF f
    <2>6. t \in Waiting /\ Waiting' = Waiting \ {t}
      BY <2>2, <2>4, <2>5, WaitingIsList
    <2>7. \A u \in Waiting \ {t} : Abstract!Before(t, u)
      BY <2>3, <2>4, <2>5, WaitingIsList
    <2>8. t.endMs < curMs
      BY <1>3, <2>1 DEF f
    <2>9. open /\ Shelf' = Shelf
      BY <1>1 DEF IInv, TimeInv, ClosedBetween, Shelf
    <2>10. Abstract!Fire(t)
      BY <1>1, <2>6, <2>7, <2>8, <2>9 DEF Abstract!Fire
    <2> QED
      BY <2>6, <2>10 DEF Abstract!Next
  <1> QED
    BY <1>2, <1>3, AdvanceEventSound

\* Tick: time passes when no timer is overdue.
LEMMA TickRefines ==
    ASSUME IInv, NEW delta \in 1 .. MaxDelta, Tick(delta)
    PROVE  Abstract!Next
  <1>1. /\ UNCHANGED <<open, list, event, saved>> /\ open /\ phase = "frame" /\ curMs' = curMs + delta
    BY DEF Tick
  <1>2. \A t \in Waiting : t.endMs >= curMs
    <2>1. \A s \in SlotsOf(list) : Timer(s).endMs >= curMs
      BY <1>1, WaitingArmed DEF Timer
    <2> QED
      BY <2>1, WaitingIsList
  <1>3. curMs' > curMs
    BY <1>1, EventAssumption DEF IInv, Types
  <1>4. Waiting' = Waiting /\ Shelf' = Shelf
    BY <1>1 DEF Waiting, Shelf
  <1>5. Abstract!Pass
    BY <1>1, <1>2, <1>3, <1>4 DEF Abstract!Pass
  <1> QED
    BY <1>5 DEF Abstract!Next

\* Save puts every timer that waits on the shelf.
LEMMA SaveRefines ==
    ASSUME IInv, Save
    PROVE  Abstract!Next
  <1>1. /\ UNCHANGED <<open, list, event, curMs>> /\ open /\ phase = "frame"
    BY DEF Save
  <1>2. \A t \in Waiting : t.endMs >= curMs
    <2>1. \A s \in SlotsOf(list) : Timer(s).endMs >= curMs
      BY <1>1, WaitingArmed DEF Timer
    <2> QED
      BY <2>1, WaitingIsList
  <1> DEFINE item(t) == [seq |-> t.seq, cog |-> t.cog, timer |-> t.timer,
                         endMs |-> (saved'.ms + t.left) % TimeSpan]
  <1>3. \A k \in DOMAIN list : item(saved'.timers[k]) = Timer(list[k])
    BY SaveSound DEF Timer
  <1>4. DOMAIN saved'.timers = DOMAIN list /\ saved'.ms = curMs
    BY SaveSound
  <1>5. Shelf' = [now |-> curMs, waiting |-> {item(t) : t \in SlotsOf(saved'.timers)}]
    BY <1>4 DEF Shelf
  <1> HIDE DEF item
  <1>6. {item(t) : t \in SlotsOf(saved'.timers)} = {Timer(s) : s \in SlotsOf(list)}
    BY <1>3, <1>4 DEF SlotsOf
  <1>7. Shelf' = [now |-> curMs, waiting |-> Waiting]
    BY <1>5, <1>6, WaitingIsList
  <1>8. Waiting' = Waiting
    BY <1>1 DEF Waiting
  <1>9. Abstract!Save
    BY <1>1, <1>2, <1>7, <1>8 DEF Abstract!Save
  <1> QED
    BY <1>9 DEF Abstract!Next

\* Load takes what is on the shelf, with the clock that goes with it.
LEMMA LoadRefines ==
    ASSUME IInv, NEW reopens \in BOOLEAN, Load(reopens)
    PROVE  Abstract!Next
  <1>1. /\ open' /\ UNCHANGED saved /\ curMs' = saved.ms
        /\ SlotsOf(list') = {k - 1 : k \in DOMAIN saved.timers}
        /\ \A k \in DOMAIN saved.timers :
              event'[k - 1] = [endMs |-> LoadedEnd(k), cog |-> saved.timers[k].cog,
                               timer |-> saved.timers[k].timer, seq |-> saved.timers[k].seq]
    BY LoadSound
  <1> DEFINE item(t) == [seq |-> t.seq, cog |-> t.cog, timer |-> t.timer,
                         endMs |-> (saved.ms + t.left) % TimeSpan]
             loaded(s) == [seq |-> event'[s].seq, cog |-> event'[s].cog,
                           timer |-> event'[s].timer, endMs |-> event'[s].endMs]
  <1>2. \A k \in DOMAIN saved.timers : loaded(k - 1) = item(saved.timers[k])
    BY <1>1 DEF LoadedEnd
  <1>3. Waiting' = {loaded(s) : s \in SlotsOf(list')}
    BY DEF Waiting
  <1>4. Shelf.waiting = {item(t) : t \in SlotsOf(saved.timers)} /\ Shelf.now = saved.ms
    BY DEF Shelf
  <1> HIDE DEF item, loaded
  <1>5. Waiting' = Shelf.waiting
    <2> DEFINE D == DOMAIN saved.timers
    <2>1. SlotsOf(list') = {k - 1 : k \in D} /\ SlotsOf(saved.timers) = {saved.timers[k] : k \in D}
      BY <1>1 DEF SlotsOf
    <2> HIDE DEF D
    <2>2. Waiting' = {loaded(k - 1) : k \in D}
      BY ONLY <1>3, <2>1, Zenon
    <2>3. Shelf.waiting = {item(saved.timers[k]) : k \in D}
      BY ONLY <1>4, <2>1, Zenon
    <2> QED
      BY <1>2, <2>2, <2>3 DEF D
  <1>6. Shelf' = Shelf
    BY <1>1 DEF Shelf
  <1>7. Abstract!Load
    BY <1>1, <1>4, <1>5, <1>6 DEF Abstract!Load
  <1> QED
    BY <1>7 DEF Abstract!Next

\* Every step of the timers is a step of the queue, or one a script cannot see.
LEMMA StepRefines == IInv /\ [Next]_vars => [Abstract!Next]_(Abstract!vars)
  <1> SUFFICES ASSUME IInv, [Next]_vars PROVE [Abstract!Next]_(Abstract!vars)
    OBVIOUS
  <1>1. CASE UNCHANGED vars
    BY <1>1, Unseen DEF vars
  <1>2. ASSUME NEW cog \in Cogs, NEW timer \in TimerIds, NEW when \in Delays, SetTimerEx(cog, timer, when)
        PROVE  [Abstract!Next]_(Abstract!vars)
    BY <1>2, SetRefines
  <1>3. ASSUME NEW cog \in Cogs, NEW timer \in TimerIds, KillTimerEx(cog, timer)
        PROVE  [Abstract!Next]_(Abstract!vars)
    BY <1>3, KillRefines
  <1>4. ASSUME NEW rate, NEW periodic, RegisterFunc(periodic, rate)
        PROVE  [Abstract!Next]_(Abstract!vars)
    BY <1>4, Unseen DEF RegisterFunc
  <1>5. ASSUME NEW delta \in 1 .. MaxDelta, Tick(delta)
        PROVE  [Abstract!Next]_(Abstract!vars)
    BY <1>5, TickRefines
  <1>6. CASE AdvanceTasks
    BY <1>6, Unseen DEF AdvanceTasks
  <1>7. CASE TaskReturns
    BY <1>7, Unseen DEF TaskReturns
  <1>8. CASE AdvanceEvent
    BY <1>8, AdvanceEventRefines
  <1>9. CASE HandlerReturns
    <2>1. UNCHANGED <<open, curMs, saved, list>> /\ \A s \in SlotsOf(list) : event'[s] = event[s]
      BY <1>9, HandlerReturnsSound DEF HandlerReturns
    <2> QED
      BY <2>1, Unseen
  <1>10. CASE Save
    BY <1>10, SaveRefines
  <1>11. ASSUME NEW reopens \in BOOLEAN, Load(reopens)
         PROVE  [Abstract!Next]_(Abstract!vars)
    BY <1>11, LoadRefines
  <1>12. ASSUME NEW online \in BOOLEAN, OpenLevel(online)
         PROVE  [Abstract!Next]_(Abstract!vars)
    <2>1. ~open /\ open' /\ curMs' \in {curMs, 0} /\ UNCHANGED <<list, event, saved>>
      BY <1>12 DEF OpenLevel
    <2>2. Waiting' = Waiting /\ Shelf' = Shelf
      BY <2>1 DEF Waiting, Shelf
    <2> QED
      BY <2>1, <2>2 DEF Abstract!Open, Abstract!Restarts, Abstract!Next
  <1>13. CASE LevelOpened
    <2>1. open /\ open' /\ curMs' = 0 /\ UNCHANGED <<list, event, saved>>
      BY <1>13 DEF LevelOpened, IInv, TimeInv, ClosedBetween
    <2>2. Waiting' = Waiting /\ Shelf' = Shelf
      BY <2>1 DEF Waiting, Shelf
    <2> QED
      BY <2>1, <2>2 DEF Abstract!Opened, Abstract!Restarts, Abstract!Next
  <1>14. CASE CloseLevel
    <2>1. open /\ ~open' /\ list' = <<>> /\ UNCHANGED <<curMs, saved>>
      BY <1>14 DEF CloseLevel, Reset
    <2>2. Waiting' = {} /\ Shelf' = Shelf
      BY <2>1 DEF Waiting, Shelf, SlotsOf
    <2> QED
      BY <2>1, <2>2 DEF Abstract!Close, Abstract!Next
  <1> QED
    BY <1>1, <1>2, <1>3, <1>4, <1>5, <1>6, <1>7, <1>8, <1>9, <1>10, <1>11, <1>12, <1>13, <1>14
       DEF Next, Advance

\* sithEvent keeps the promise of TimerQueue: with the pool, the sorted list, the loop of
\* sithEvent_Advance, the saves and the loads, every timer that was armed fires once, in its turn and
\* not before its time, unless its cog kills it or the level goes away.
THEOREM EventsImplementQueue == Spec => ImplementsQueue
  <1>1. Init => Abstract!Init
    <2> SUFFICES ASSUME Init PROVE Abstract!Init
      OBVIOUS
    <2>1. Waiting = {}
      BY DEF Init, Waiting, SlotsOf
    <2>2. Shelf = [now |-> 0, waiting |-> {}]
      <3>1. saved.ms = 0 /\ SlotsOf(saved.timers) = {}
        BY DEF Init, NoSave, SlotsOf
      <3> QED
        BY <3>1 DEF Shelf
    <2>3. curMs \in Nat
      BY EventAssumption DEF Init
    <2> QED
      BY <2>1, <2>2, <2>3 DEF Init, Abstract!Init
  <1> QED
    BY <1>1, StepRefines, InvariantHolds, PTL DEF Spec, ImplementsQueue, Abstract!Spec
=============================================================================
