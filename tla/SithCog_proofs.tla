---------------------------- MODULE SithCog_proofs ----------------------------
(***************************************************************************)
(* What sithCogExec.c keeps true of the cogs' machines, for every level,   *)
(* however many cogs there are and however deep their handlers interrupt   *)
(* each other: no cog uses more frames than it has, and a cog that claims  *)
(* to be running has a loop on the C stack that runs it.                   *)
(***************************************************************************)
EXTENDS SithCog, FiniteSetTheorems, WellFoundedInduction, TLAPS

-------------------------------------------------------------------------------
(* Stacks *)

LEMMA FrontOf ==
    ASSUME NEW S, NEW s \in Seq(S), s # <<>>
    PROVE  /\ Front(s) \in Seq(S) /\ Len(Front(s)) = Len(s) - 1
           /\ \A i \in 1 .. Len(s) - 1 : Front(s)[i] = s[i]
           /\ Last(s) = s[Len(s)] /\ Last(s) \in S /\ Len(s) \in Nat \ {0}
           /\ s = Append(Front(s), Last(s))
  <1>1. Len(s) \in Nat \ {0}
    OBVIOUS
  <1> DEFINE n == Len(s) - 1
  <1>4. Front(s) = SubSeq(s, 1, n)
    BY Zenon DEF Front
  <1>5. n = Len(s) - 1 /\ n \in Nat /\ n <= Len(s)
    BY <1>1
  <1> HIDE DEF n
  <1>2. SubSeq(s, 1, n) \in Seq(S) /\ Len(SubSeq(s, 1, n)) = n
    BY <1>5
  <1>3. \A i \in 1 .. n : SubSeq(s, 1, n)[i] = s[i]
    BY <1>5
  <1>6. Front(s) \in Seq(S) /\ Len(Front(s)) = n /\ \A i \in 1 .. n : Front(s)[i] = s[i]
    BY <1>2, <1>3, <1>4, Zenon
  <1>7. Last(s) = s[Len(s)] /\ s[Len(s)] \in S
    BY <1>1 DEF Last
  <1> DEFINE f == Front(s)
             t == Append(f, s[Len(s)])
  <1>8. f \in Seq(S) /\ Len(f) = Len(s) - 1 /\ \A i \in 1 .. Len(s) - 1 : f[i] = s[i]
    BY <1>5, <1>6
  <1> HIDE DEF f
  <1>9. t \in Seq(S) /\ Len(t) = Len(s) /\ \A i \in 1 .. Len(s) : t[i] = s[i]
    BY <1>1, <1>7, <1>8
  <1>10. t = s
    BY <1>9
  <1> QED
    BY <1>1, <1>5, <1>6, <1>7, <1>10 DEF f

LEMMA Pushed ==
    ASSUME NEW S, NEW s \in Seq(S), NEW e \in S
    PROVE  /\ Append(s, e) \in Seq(S) /\ Len(Append(s, e)) = Len(s) + 1
           /\ DOMAIN Append(s, e) = DOMAIN s \cup {Len(s) + 1} /\ Len(s) + 1 \notin DOMAIN s
           /\ Append(s, e)[Len(s) + 1] = e
           /\ \A i \in DOMAIN s : Append(s, e)[i] = s[i]
           /\ DOMAIN s = 1 .. Len(s) /\ Len(s) \in Nat
           /\ Append(s, e) # <<>>
  OBVIOUS

LEMMA PushedLast ==
    ASSUME NEW S, NEW s \in Seq(S), NEW e \in S
    PROVE  Append(s, e) # <<>> /\ Last(Append(s, e)) = e
  <1>1. Append(s, e) \in Seq(S) /\ Append(s, e) # <<>> /\ Len(Append(s, e)) = Len(s) + 1
        /\ Append(s, e)[Len(s) + 1] = e
    OBVIOUS
  <1> QED
    BY <1>1, FrontOf

-------------------------------------------------------------------------------
(* The C stack: which of its frames run a cog *)

LoopsIn(stack, c) == {i \in DOMAIN stack : stack[i].fn = "Exec" /\ stack[i].cog = c}
ByTick(stack, c) == \E i \in DOMAIN stack : stack[i] = Loop(c, "Tick")
TopLoop(stack, c) == stack # <<>> /\ Last(stack).fn = "Exec" /\ Last(stack).cog = c
CountLoops(stack, c) == Cardinality(LoopsIn(stack, c))

\* A tick and a message from outside are the first C call.
OnlyLoopsAbove(stack) == \A i \in DOMAIN stack : i # 1 => stack[i].fn = "Exec"

LEMMA LoopsFinite ==
    ASSUME NEW S, NEW st \in Seq(S), NEW c
    PROVE  IsFiniteSet(LoopsIn(st, c)) /\ CountLoops(st, c) \in Nat
  <1>1. DOMAIN st = 1 .. Len(st) /\ 1 \in Int /\ Len(st) \in Int
    OBVIOUS
  <1>2. IsFiniteSet(DOMAIN st)
    BY <1>1, FS_Interval, Zenon
  <1>3. LoopsIn(st, c) \in SUBSET DOMAIN st
    BY DEF LoopsIn
  <1> QED
    BY <1>2, <1>3, FS_Subset, FS_CardinalityType, Zenon DEF CountLoops

\* Two stacks with the same loops; and a stack t with one loop more than s, of cog c.
SameLoops(s, t) == \A d : CountLoops(t, d) = CountLoops(s, d) /\ (ByTick(t, d) <=> ByTick(s, d))
OneLoopMore(s, t, c, by) ==
    /\ CountLoops(t, c) = CountLoops(s, c) + 1
    /\ \A d : d # c => CountLoops(t, d) = CountLoops(s, d)
    /\ \A d : ByTick(t, d) <=> ByTick(s, d) \/ (d = c /\ by = "Tick")

\* A frame that is no loop changes no count.
LEMMA PushOther ==
    ASSUME NEW st \in Seq(Calls), NEW f \in Calls, f.fn # "Exec"
    PROVE  /\ SameLoops(st, Append(st, f))
           /\ \A c : ~TopLoop(Append(st, f), c)
  <1> DEFINE t == Append(st, f)
             n == Len(st) + 1
  <1>1. /\ DOMAIN t = DOMAIN st \cup {n} /\ n \notin DOMAIN st
        /\ t[n] = f /\ \A i \in DOMAIN st : t[i] = st[i]
    BY Pushed
  <1>2. t # <<>> /\ Last(t) = f
    BY PushedLast
  <1> HIDE DEF t, n
  <1>3. ASSUME NEW c PROVE CountLoops(t, c) = CountLoops(st, c)
    <2>1. LoopsIn(t, c) = LoopsIn(st, c)
      BY <1>1 DEF LoopsIn
    <2> QED
      BY <2>1 DEF CountLoops
  <1>4. ASSUME NEW c PROVE f # Loop(c, "Tick")
    BY DEF Loop
  <1>5. ASSUME NEW c PROVE ByTick(t, c) <=> ByTick(st, c)
    BY <1>1, <1>4 DEF ByTick
  <1>6. ASSUME NEW c PROVE ~TopLoop(t, c)
    BY <1>2 DEF TopLoop
  <1> QED
    BY <1>3, <1>5, <1>6, Zenon DEF t, SameLoops

LEMMA PushLoop ==
    ASSUME NEW st \in Seq(Calls), NEW c, NEW by, Loop(c, by) \in Calls
    PROVE  /\ Append(st, Loop(c, by)) \in Seq(Calls)
           /\ OneLoopMore(st, Append(st, Loop(c, by)), c, by)
           /\ \A d : TopLoop(Append(st, Loop(c, by)), d) <=> d = c
           /\ OnlyLoopsAbove(st) => OnlyLoopsAbove(Append(st, Loop(c, by)))
  <1> DEFINE n == Len(st) + 1
             f == Loop(c, by)
             t == Append(st, f)
  <1>0. f \in Calls /\ f.fn = "Exec" /\ f.cog = c /\ f.by = by
    BY DEF Loop
  <1>6. \A d : f = Loop(d, "Tick") <=> d = c /\ by = "Tick"
    BY DEF Loop
  <1> HIDE DEF f
  <1>1. /\ t \in Seq(Calls) /\ t # <<>> /\ Last(t) = f
        /\ DOMAIN t = DOMAIN st \cup {n} /\ n \notin DOMAIN st
        /\ t[n] = f /\ \A i \in DOMAIN st : t[i] = st[i]
    BY <1>0, Pushed, PushedLast DEF f
  <1>2. IsFiniteSet(LoopsIn(st, c)) /\ CountLoops(st, c) \in Nat
    BY LoopsFinite
  <1> HIDE DEF n, t
  <1>3. LoopsIn(t, c) = LoopsIn(st, c) \cup {n} /\ n \notin LoopsIn(st, c)
    BY <1>0, <1>1 DEF LoopsIn
  <1>4. CountLoops(t, c) = CountLoops(st, c) + 1
    BY <1>2, <1>3, FS_AddElement, Zenon DEF CountLoops
  <1>5. ASSUME NEW d, d # c PROVE CountLoops(t, d) = CountLoops(st, d)
    <2>1. LoopsIn(t, d) = LoopsIn(st, d)
      BY <1>0, <1>1, <1>5 DEF LoopsIn
    <2> QED
      BY <2>1 DEF CountLoops
  <1>7. ASSUME NEW d PROVE ByTick(t, d) <=> ByTick(st, d) \/ (d = c /\ by = "Tick")
    BY <1>1, <1>6 DEF ByTick
  <1>8. ASSUME NEW d PROVE TopLoop(t, d) <=> d = c
    BY <1>0, <1>1 DEF TopLoop
  <1>9. OnlyLoopsAbove(st) => OnlyLoopsAbove(t)
    BY <1>0, <1>1 DEF OnlyLoopsAbove
  <1>10. OneLoopMore(st, t, c, by)
    BY <1>4, <1>5, <1>7, Zenon DEF OneLoopMore
  <1> QED
    BY <1>1, <1>8, <1>9, <1>10, Zenon DEF f, t

\* The same two facts, read from the stack with the frame to the one without it.
LEMMA PopOther ==
    ASSUME NEW st \in Seq(Calls), st # <<>>, Last(st).fn # "Exec"
    PROVE  /\ Front(st) \in Seq(Calls)
           /\ SameLoops(Front(st), st)
           /\ \A c : ~TopLoop(st, c)
           /\ OnlyLoopsAbove(st) => Front(st) = <<>>
  <1> DEFINE f == Front(st)
  <1>1. f \in Seq(Calls) /\ Last(st) \in Calls /\ st = Append(f, Last(st))
        /\ Len(f) = Len(st) - 1 /\ Last(st) = st[Len(st)] /\ Len(st) \in Nat \ {0}
    BY FrontOf
  <1> HIDE DEF f
  <1>2. SameLoops(f, Append(f, Last(st))) /\ \A c : ~TopLoop(Append(f, Last(st)), c)
    BY <1>1, PushOther, Zenon
  <1>3. ASSUME OnlyLoopsAbove(st) PROVE f = <<>>
    <2>1. Len(st) \in DOMAIN st
      BY <1>1
    <2>2. Len(st) = 1
      BY <1>1, <1>3, <2>1 DEF OnlyLoopsAbove
    <2> QED
      BY <1>1, <2>2
  <1> QED
    BY <1>1, <1>2, <1>3, Zenon DEF f

LEMMA PopLoop ==
    ASSUME NEW st \in Seq(Calls), NEW c \in Cogs, TopLoop(st, c)
    PROVE  /\ Front(st) \in Seq(Calls)
           /\ OneLoopMore(Front(st), st, c, Last(st).by)
           /\ \A d : TopLoop(st, d) <=> d = c
           /\ OnlyLoopsAbove(st) => OnlyLoopsAbove(Front(st))
           /\ st # <<>> /\ Last(st).by \in {"ExecCog", "Tick"}
  <1> DEFINE t == Front(st)
  <1>1. st # <<>> /\ Last(st).fn = "Exec" /\ Last(st).cog = c
    BY DEF TopLoop
  <1>2. /\ t \in Seq(Calls) /\ Last(st) \in Calls /\ st = Append(t, Last(st))
        /\ Len(t) = Len(st) - 1 /\ Len(st) \in Nat \ {0}
        /\ \A i \in 1 .. Len(st) - 1 : t[i] = st[i]
    BY <1>1, FrontOf
  <1> HIDE DEF t
  <1> DEFINE how == Last(st).by
  <1>3. how \in {"ExecCog", "Tick"} /\ Last(st) = Loop(c, how)
    BY <1>1, <1>2 DEF Calls, Loop
  <1> HIDE DEF how
  <1>4. OneLoopMore(t, Append(t, Loop(c, how)), c, how)
        /\ \A d : TopLoop(Append(t, Loop(c, how)), d) <=> d = c
    <2>1. t \in Seq(Calls) /\ Loop(c, how) \in Calls
      BY <1>2, <1>3
    <2> QED
      BY ONLY <2>1, PushLoop, Zenon
  <1>5. Append(t, Loop(c, how)) = st
    BY ONLY <1>2, <1>3, Zenon
  <1>6. OnlyLoopsAbove(st) => OnlyLoopsAbove(t)
    BY <1>2 DEF OnlyLoopsAbove
  <1> QED
    BY <1>1, <1>2, <1>3, <1>4, <1>5, <1>6, Zenon DEF how, t

-------------------------------------------------------------------------------
(* The call stack of a cog: how many interrupted loops its frames stand for *)

\* The innermost frames that hold 1 or 4: those with a 4 each need a loop of their own.
Interrupts(calls) ==
    {i \in DOMAIN calls : /\ calls[i].running = NESTED
                          /\ \A j \in i .. Len(calls) : calls[j].running \in {RUNNING, NESTED}}
Depth(calls) == Cardinality(Interrupts(calls))

LEMMA DepthFinite ==
    ASSUME NEW calls \in Seq(Frame)
    PROVE  IsFiniteSet(Interrupts(calls)) /\ Depth(calls) \in Nat
  <1>1. DOMAIN calls = 1 .. Len(calls) /\ 1 \in Int /\ Len(calls) \in Int
    OBVIOUS
  <1>2. IsFiniteSet(DOMAIN calls)
    BY <1>1, FS_Interval, Zenon
  <1>3. Interrupts(calls) \in SUBSET DOMAIN calls
    BY DEF Interrupts
  <1> QED
    BY <1>2, <1>3, FS_Subset, FS_CardinalityType, Zenon DEF Depth

LEMMA DepthOfNone == Depth(<<>>) = 0
  <1>1. Interrupts(<<>>) = {}
    BY DEF Interrupts
  <1> QED
    BY <1>1, FS_EmptySet, Zenon DEF Depth

LEMMA DepthPushed ==
    ASSUME NEW calls \in Seq(Frame), NEW f \in Frame
    PROVE  /\ f.running = NESTED => Depth(Append(calls, f)) = Depth(calls) + 1
           /\ f.running = RUNNING => Depth(Append(calls, f)) = Depth(calls)
           /\ f.running \notin {RUNNING, NESTED} => Depth(Append(calls, f)) = 0
  <1> DEFINE t == Append(calls, f)
             n == Len(calls) + 1
  <1>1. /\ DOMAIN t = DOMAIN calls \cup {n} /\ n \notin DOMAIN calls /\ Len(t) = n
        /\ t[n] = f /\ (\A i \in DOMAIN calls : t[i] = calls[i])
        /\ DOMAIN calls = 1 .. Len(calls) /\ Len(calls) \in Nat /\ n = Len(calls) + 1
    BY Pushed
  <1> HIDE DEF t, n
  <1>2. \A i \in DOMAIN calls : i .. n = (i .. Len(calls)) \cup {n}
    BY <1>1
  <1>3. \A i \in DOMAIN calls : \A j \in i .. Len(calls) : j \in DOMAIN calls
    BY <1>1
  <1>4. n .. n = {n}
    BY <1>1
  <1>5. ASSUME f.running \in {RUNNING, NESTED}, NEW i \in DOMAIN calls
        PROVE  i \in Interrupts(t) <=> i \in Interrupts(calls)
    <2>1. t[i] = calls[i] /\ i \in DOMAIN t
      BY <1>1
    <2>2. (\A j \in i .. Len(t) : t[j].running \in {RUNNING, NESTED})
          <=> \A j \in i .. Len(calls) : calls[j].running \in {RUNNING, NESTED}
      BY <1>1, <1>2, <1>3, <1>5
    <2> QED
      BY <2>1, <2>2, Zenon DEF Interrupts
  <1>6. n \in Interrupts(t) <=> f.running = NESTED
    <2>1. n \in DOMAIN t /\ n .. Len(t) = {n}
      BY <1>1, <1>4
    <2> QED
      BY <2>1, <1>1 DEF Interrupts
  <1>7. Interrupts(t) \subseteq DOMAIN calls \cup {n} /\ Interrupts(calls) \subseteq DOMAIN calls
    BY <1>1 DEF Interrupts
  <1>8. IsFiniteSet(Interrupts(calls)) /\ Depth(calls) \in Nat
    BY DepthFinite
  <1>9. ASSUME f.running = NESTED PROVE Depth(t) = Depth(calls) + 1
    <2>1. Interrupts(t) = Interrupts(calls) \cup {n} /\ n \notin Interrupts(calls)
      BY <1>1, <1>5, <1>6, <1>7, <1>9
    <2> QED
      BY <1>8, <2>1, FS_AddElement, Zenon DEF Depth
  <1>10. ASSUME f.running = RUNNING PROVE Depth(t) = Depth(calls)
    <2>0. RUNNING # NESTED
      BY DEF RUNNING, NESTED
    <2>1. Interrupts(t) = Interrupts(calls)
      BY <1>1, <1>5, <1>6, <1>7, <1>10, <2>0
    <2> QED
      BY <2>1, Zenon DEF Depth
  <1>11. ASSUME f.running \notin {RUNNING, NESTED} PROVE Depth(t) = 0
    <2>1. \A i \in DOMAIN t : n \in i .. Len(t)
      BY <1>1
    <2>2. Interrupts(t) = {}
      BY <1>1, <1>11, <2>1 DEF Interrupts
    <2> QED
      BY <2>2, FS_EmptySet, Zenon DEF Depth
  <1> QED
    BY <1>9, <1>10, <1>11, Zenon DEF t

-------------------------------------------------------------------------------
(* One machine, with the C calls in progress *)

\* What a machine or a frame that waits is waiting for.
WakeOK(f) ==
    /\ f.running = SLEEPING => f.wake \in Times
    /\ f.running = WAITING => f.wake \in Paths

\* The type of a machine, and what every machine keeps.
MachineOK(v) ==
    /\ v \in Machines /\ Len(v.calls) <= MaxFrames
    /\ WakeOK(v)
    /\ \A i \in DOMAIN v.calls : WakeOK(v.calls[i])
    /\ v.running = IDLE => v.calls = <<>>

\* Enough loops for what the machine and its frames say, or one that Tick began, which
\* runs whatever is left.
Room(stack, c, n) == ByTick(stack, c) \/ n < CountLoops(stack, c)
Held(v, stack, c) ==
    /\ v.running = RUNNING => Room(stack, c, Depth(v.calls))
    /\ v.running = NESTED => TopLoop(stack, c) /\ Room(stack, c, Depth(v.calls) + 1)

LEMMA HeldSame ==
    ASSUME NEW v, NEW s, NEW t, NEW c, Held(v, s, c), v.running # NESTED,
           CountLoops(t, c) = CountLoops(s, c), ByTick(s, c) => ByTick(t, c)
    PROVE  Held(v, t, c)
  BY DEF Held, Room

\* Only the place in the code and the message have changed.
LEMMA Moved ==
    ASSUME NEW v, MachineOK(v), NEW w, w.running = v.running, w.wake = v.wake,
           w.calls = v.calls, w \in Machines
    PROVE  /\ MachineOK(w)
           /\ \A stack, c : Held(v, stack, c) => Held(w, stack, c)
  BY Zenon DEF MachineOK, WakeOK, Held

FrameOf(v) == [pc |-> v.pc, running |-> v.running, wake |-> v.wake, trig |-> v.trig]

LEMMA FrameOfOk ==
    ASSUME NEW v \in Machines, v.running # IDLE
    PROVE  FrameOf(v) \in Frame
  BY DEF FrameOf, Frame, Machines

LEMMA MachineFields ==
    ASSUME NEW v \in Machines
    PROVE  /\ v.running \in {IDLE, RUNNING, SLEEPING, WAITING, NESTED} /\ v.pc \in Nat
           /\ v.wake \in Times \cup Paths /\ v.trig \in Messages \cup {NoMessage}
           /\ v.calls \in Seq(Frame)
           /\ v = [running |-> v.running, pc |-> v.pc, wake |-> v.wake, trig |-> v.trig,
                   calls |-> v.calls]
  BY DEF Machines

LEMMA CalledOk ==
    ASSUME NEW v, MachineOK(v), v.running # IDLE, ~Full(v)
    PROVE  /\ MachineOK(Called(v)) /\ Called(v).running = v.running
           /\ Called(v).calls = Append(v.calls, FrameOf(v))
  <1>1. v \in Machines /\ v.calls \in Seq(Frame) /\ Len(v.calls) <= MaxFrames
        /\ WakeOK(v)
        /\ \A i \in DOMAIN v.calls : WakeOK(v.calls[i])
    BY MachineFields DEF MachineOK
  <1> DEFINE f == FrameOf(v)
             calls == Append(v.calls, f)
             w == [v EXCEPT !.calls = calls]
  <1>2. f \in Frame /\ f.running = v.running /\ f.wake = v.wake
    BY <1>1, FrameOfOk DEF FrameOf
  <1>3. Called(v) = w
    BY DEF Called, FrameOf
  <1> HIDE DEF f
  <1>4. calls \in Seq(Frame) /\ Len(calls) = Len(v.calls) + 1
        /\ DOMAIN calls = DOMAIN v.calls \cup {Len(v.calls) + 1}
        /\ calls[Len(v.calls) + 1] = f /\ \A i \in DOMAIN v.calls : calls[i] = v.calls[i]
    BY ONLY <1>1, <1>2, Pushed
  <1> HIDE DEF calls
  <1>5. w \in Machines /\ w.running = v.running /\ w.wake = v.wake /\ w.calls = calls
    BY ONLY <1>1, <1>4 DEF Machines
  <1> HIDE DEF w
  <1>6. Len(calls) <= MaxFrames
    BY <1>1, <1>4, SithCogAssumption DEF Full
  <1>7. \A i \in DOMAIN calls : WakeOK(calls[i])
    BY <1>1, <1>2, <1>4 DEF WakeOK
  <1> QED
    BY <1>3, <1>5, <1>1, <1>6, <1>7 DEF MachineOK, WakeOK, f, calls

\* The handler that a message begins, from the machine that it interrupts.
LEMMA EnteredOk ==
    ASSUME NEW c \in Cogs, NEW v, MachineOK(v), NEW m \in Messages, script[c].trig[m] \in Nat
    PROVE  /\ MachineOK(Entered(c, v, m)) /\ Entered(c, v, m).running = RUNNING
           /\ v.running = IDLE => Depth(Entered(c, v, m).calls) = 0
           /\ v.running = RUNNING /\ ~Full(v) =>
                 Depth(Entered(c, v, m).calls) = Depth(v.calls) + 1
           /\ v.running \in {SLEEPING, WAITING} /\ ~Full(v) =>
                 Depth(Entered(c, v, m).calls) = 0
  <1> DEFINE u == IF v.running = RUNNING THEN [v EXCEPT !.running = NESTED] ELSE v
             i == Interrupted(v)
             e == Entered(c, v, m)
  <1>1. v \in Machines /\ v.calls \in Seq(Frame) /\ Len(v.calls) <= MaxFrames
        /\ v.running \in {IDLE, RUNNING, SLEEPING, WAITING, NESTED}
        /\ WakeOK(v)
        /\ (\A j \in DOMAIN v.calls : WakeOK(v.calls[j]))
        /\ (v.running = IDLE => v.calls = <<>>)
    BY MachineFields DEF MachineOK
  <1>2. u \in Machines /\ u.calls = v.calls /\ u.wake = v.wake
        /\ u.running = IF v.running = RUNNING THEN NESTED ELSE v.running
    BY ONLY <1>1 DEF Machines
  <1>3. i = IF v.running = IDLE THEN v ELSE Called(u)
    BY DEF Interrupted
  <1>4. Full(u) <=> Full(v)
    BY <1>2 DEF Full
  <1> HIDE DEF u
  <1>5. /\ e = Running([i EXCEPT !.pc = script[c].trig[m], !.trig = m])
    BY DEF Entered
  <1> HIDE DEF i, e
  <1>6. MachineOK(u)
    BY <1>1, <1>2 DEF MachineOK, WakeOK, SLEEPING, NESTED, RUNNING, IDLE, WAITING
  <1>7. MachineOK(i)
    <2>1. CASE v.running = IDLE
      BY <2>1, <1>3
    <2>2. CASE v.running # IDLE /\ Full(v)
      BY <2>2, <1>3, <1>4, <1>6 DEF Called
    <2>3. CASE v.running # IDLE /\ ~Full(v)
      <3>1. u.running # IDLE
        BY <2>3, <1>2 DEF IDLE, NESTED, RUNNING
      <3> QED
        BY <2>3, <3>1, <1>3, <1>4, <1>6, CalledOk
    <2> QED
      BY <2>1, <2>2, <2>3
  <1>8. e \in Machines /\ e.running = RUNNING /\ e.wake = -1 /\ e.calls = i.calls
    <2>1. i \in Machines
      BY <1>7 DEF MachineOK
    <2>2. -1 \in Times
      BY SithCogAssumption DEF Times
    <2> DEFINE pc == script[c].trig[m]
    <2>4. pc \in Nat
      OBVIOUS
    <2> HIDE DEF pc
    <2>3. [i EXCEPT !.pc = pc, !.trig = m] \in Machines
      BY ONLY <2>1, <2>4, m \in Messages DEF Machines
    <2> QED
      BY ONLY <1>5, <2>1, <2>2, <2>3 DEF Machines, Running, pc
  <1>9. MachineOK(e)
    BY <1>7, <1>8 DEF MachineOK, WakeOK, RUNNING, IDLE, SLEEPING, WAITING
  <1>10. ASSUME v.running = IDLE PROVE Depth(e.calls) = 0
    BY <1>1, <1>3, <1>8, <1>10, DepthOfNone
  <1>11. ASSUME v.running # IDLE, ~Full(v)
         PROVE  e.calls = Append(v.calls, FrameOf(u)) /\ FrameOf(u) \in Frame
                /\ FrameOf(u).running = u.running
    <2>1. u.running # IDLE
      BY <1>11, <1>2 DEF IDLE, NESTED, RUNNING
    <2> QED
      BY <2>1, <1>11, <1>2, <1>3, <1>4, <1>6, <1>8, CalledOk, FrameOfOk DEF FrameOf
  <1>12. ASSUME v.running = RUNNING, ~Full(v) PROVE Depth(e.calls) = Depth(v.calls) + 1
    <2>1. v.running # IDLE /\ u.running = NESTED
      BY <1>12, <1>2 DEF IDLE, RUNNING
    <2> QED
      BY <2>1, <1>1, <1>11, <1>12, DepthPushed
  <1>13. ASSUME v.running \in {SLEEPING, WAITING}, ~Full(v) PROVE Depth(e.calls) = 0
    <2>1. v.running # IDLE /\ u.running \notin {RUNNING, NESTED}
      BY <1>13, <1>2 DEF IDLE, RUNNING, SLEEPING, WAITING, NESTED
    <2> QED
      BY <2>1, <1>1, <1>11, <1>13, DepthPushed
  <1> QED
    BY <1>8, <1>9, <1>10, <1>12, <1>13 DEF e

\* A return to a frame, or to rest.
LEMMA ReturnedOk ==
    ASSUME NEW v, MachineOK(v), v.running = RUNNING
    PROVE  /\ MachineOK(Returned(v))
           /\ \A stack, c : Held(v, stack, c) /\ TopLoop(stack, c) => Held(Returned(v), stack, c)
  <1>1. v \in Machines /\ v.calls \in Seq(Frame) /\ Len(v.calls) <= MaxFrames
        /\ (\A j \in DOMAIN v.calls : WakeOK(v.calls[j]))
    BY MachineFields DEF MachineOK
  <1>2. CASE v.calls = <<>>
    <2> DEFINE w == [v EXCEPT !.running = IDLE]
    <2>1. Returned(v) = w
      BY <1>2 DEF Returned
    <2>2. w \in Machines /\ w.running = IDLE /\ w.calls = v.calls
      BY ONLY <1>1 DEF Machines
    <2> HIDE DEF w
    <2>3. MachineOK(w)
      BY <1>1, <1>2, <2>2 DEF MachineOK, WakeOK, IDLE, SLEEPING, WAITING
    <2>4. ASSUME NEW stack, NEW c PROVE Held(w, stack, c)
      BY <2>2 DEF Held, IDLE, RUNNING, NESTED
    <2> QED
      BY <2>1, <2>3, <2>4
  <1>3. CASE v.calls # <<>>
    <2> DEFINE f == Last(v.calls)
               calls == Front(v.calls)
               w == [running |-> f.running, pc |-> f.pc, wake |-> f.wake, trig |-> f.trig,
                     calls |-> calls]
    <2>1. Returned(v) = w
      BY <1>3 DEF Returned
    <2>2. /\ calls \in Seq(Frame) /\ Len(calls) = Len(v.calls) - 1
          /\ (\A i \in 1 .. Len(v.calls) - 1 : calls[i] = v.calls[i])
          /\ f = v.calls[Len(v.calls)] /\ f \in Frame /\ Len(v.calls) \in Nat \ {0}
          /\ v.calls = Append(calls, f)
      BY <1>1, <1>3, FrontOf
    <2> HIDE DEF f, calls
    <2>3. /\ f.running \in {RUNNING, SLEEPING, WAITING, NESTED} /\ f.pc \in Nat
          /\ f.wake \in Times \cup Paths /\ f.trig \in Messages \cup {NoMessage}
      BY ONLY <2>2 DEF Frame
    <2>4. w \in Machines /\ w.running = f.running /\ w.wake = f.wake /\ w.calls = calls
      BY ONLY <2>2, <2>3 DEF Machines
    <2> HIDE DEF w
    <2>5. WakeOK(f)
      BY <1>1, <2>2
    <2>6. \A i \in DOMAIN calls : WakeOK(calls[i])
      BY <1>1, <2>2
    <2>7. w.running # IDLE
      BY <2>3, <2>4 DEF IDLE, RUNNING, SLEEPING, WAITING, NESTED
    <2>8. Len(calls) <= MaxFrames
      BY <1>1, <2>2, SithCogAssumption
    <2>9. MachineOK(w)
      BY <2>4, <2>5, <2>6, <2>7, <2>8 DEF MachineOK, WakeOK
    <2>10. /\ f.running = NESTED => Depth(v.calls) = Depth(calls) + 1
           /\ f.running = RUNNING => Depth(v.calls) = Depth(calls)
      BY ONLY <2>2, DepthPushed
    <2>11. ASSUME NEW stack, NEW c, Held(v, stack, c), TopLoop(stack, c)
           PROVE  Held(w, stack, c)
      BY <2>4, <2>10, <2>11 DEF Held
    <2> QED
      BY <2>1, <2>9, <2>11
  <1> QED
    BY <1>2, <1>3

-------------------------------------------------------------------------------
(* All machines, with the C calls in progress: the inductive invariant *)

Sound(machines, stack, gone) ==
    /\ machines \in [Cogs -> Machines] /\ \A c \in Cogs : MachineOK(machines[c])
    /\ stack \in Seq(Calls) /\ OnlyLoopsAbove(stack)
    /\ \A c \in Cogs \ gone : Held(machines[c], stack, c)

Others ==
    /\ script \in Programs /\ alarm \in [Cogs -> Alarms]
    /\ disabled \subseteq Cogs /\ moving \subseteq Paths /\ budget \in 0..MaxMessages
    /\ lost \subseteq Cogs

IInv == Others /\ Sound(vm, cstack, lost)

LEMMA MachinesOfInv ==
    ASSUME IInv
    PROVE  /\ vm \in [Cogs -> Machines] /\ \A d \in Cogs : MachineOK(vm[d])
           /\ script \in Programs /\ alarm \in [Cogs -> Alarms] /\ lost \subseteq Cogs
           /\ cstack \in Seq(Calls)
  BY DEF IInv, Sound, Others

LEMMA ScriptFields ==
    ASSUME script \in Programs, NEW c \in Cogs
    PROVE  /\ script[c].code \in Seq(Ops) /\ DOMAIN script[c].trig \subseteq Messages
           /\ \A m \in DOMAIN script[c].trig : script[c].trig[m] \in Nat
  <1>1. /\ script[c].code \in Seq(Ops) /\ DOMAIN script[c].trig \subseteq Messages
        /\ \A m \in DOMAIN script[c].trig : script[c].trig[m] \in DOMAIN script[c].code
    BY SithCogAssumption
  <1> DEFINE code == script[c].code
  <1>2. \A i \in DOMAIN code : i \in Nat
    <2>1. code \in Seq(Ops)
      BY <1>1
    <2> HIDE DEF code
    <2> QED
      BY <2>1
  <1> QED
    BY <1>1, <1>2

\* A message finds no cog whose loop is waiting to go on, only running ones: its receiver
\* keeps what it was doing in a frame, or is lost.
LEMMA DeliverOk ==
    ASSUME script \in Programs, lost \subseteq Cogs, NEW machines, NEW stack,
           Sound(machines, stack, lost), \A d \in Cogs \ lost : machines[d].running # NESTED,
           NEW c \in Cogs, NEW m, Deliver(c, m, machines, stack)
    PROVE  Sound(vm', cstack', lost') /\ lost' \subseteq Cogs
  <1>1. /\ machines \in [Cogs -> Machines] /\ (\A d \in Cogs : MachineOK(machines[d]))
        /\ stack \in Seq(Calls) /\ OnlyLoopsAbove(stack)
        /\ \A d \in Cogs \ lost : Held(machines[d], stack, d)
    BY DEF Sound
  <1>2. CASE ~Accepts(c, m)
    BY <1>2, Zenon DEF Deliver
  <1>3. CASE Accepts(c, m)
    <2> DEFINE e == Entered(c, machines[c], m)
               t == Append(stack, Loop(c, "ExecCog"))
    <2>1. /\ vm' = [machines EXCEPT ![c] = e] /\ cstack' = t
          /\ lost' = IF machines[c].running # IDLE /\ Full(machines[c])
                     THEN lost \cup {c} ELSE lost
      BY <1>3, <1>1 DEF Deliver
    <2>2. m \in Messages /\ script[c].trig[m] \in Nat
      BY <1>3, ScriptFields DEF Accepts
    <2>3. /\ MachineOK(e) /\ e.running = RUNNING
          /\ machines[c].running = IDLE => Depth(e.calls) = 0
          /\ machines[c].running = RUNNING /\ ~Full(machines[c]) =>
                Depth(e.calls) = Depth(machines[c].calls) + 1
          /\ machines[c].running \in {SLEEPING, WAITING} /\ ~Full(machines[c]) =>
                Depth(e.calls) = 0
      BY <1>1, <2>2, EnteredOk
    <2>4. Loop(c, "ExecCog") \in Calls
      BY DEF Loop, Calls
    <2>5. t \in Seq(Calls) /\ OnlyLoopsAbove(t) /\ OneLoopMore(stack, t, c, "ExecCog")
      BY <1>1, <2>4, PushLoop, Zenon
    <2>6. CountLoops(stack, c) \in Nat
      BY <1>1, LoopsFinite
    <2> HIDE DEF e, t
    <2>7. e \in Machines
      BY <2>3 DEF MachineOK
    <2>8. vm' \in [Cogs -> Machines] /\ \A d \in Cogs : MachineOK(vm'[d])
      BY <1>1, <2>1, <2>3, <2>7
    <2>9. ASSUME NEW d \in Cogs \ lost' PROVE Held(vm'[d], t, d)
      <3>1. CASE d # c
        <4>1. Held(machines[d], stack, d) /\ machines[d].running # NESTED
          BY <1>1, <2>1
        <4>2. CountLoops(t, d) = CountLoops(stack, d) /\ (ByTick(stack, d) => ByTick(t, d))
          BY <2>5, <3>1 DEF OneLoopMore
        <4>3. vm'[d] = machines[d]
          BY <1>1, <2>1, <3>1
        <4> QED
          BY <4>1, <4>2, <4>3, HeldSame
      <3>2. CASE d = c
        <4>1. /\ machines[c].running = IDLE \/ ~Full(machines[c])
              /\ Held(machines[c], stack, c) /\ machines[c].running # NESTED
          BY <1>1, <2>1, <3>2
        <4>2. machines[c].running \in {IDLE, RUNNING, SLEEPING, WAITING, NESTED}
          BY <1>1, MachineFields DEF MachineOK
        <4>3. CountLoops(t, c) = CountLoops(stack, c) + 1 /\ (ByTick(stack, c) => ByTick(t, c))
          BY <2>5, Zenon DEF OneLoopMore
        <4>4. Room(t, c, Depth(e.calls))
          <5>1. CASE machines[c].running = RUNNING
            <6>1. Room(stack, c, Depth(machines[c].calls))
              BY <4>1, <5>1 DEF Held
            <6>2. Depth(machines[c].calls) \in Nat
              <7>1. machines[c].calls \in Seq(Frame)
                BY <1>1, MachineFields DEF MachineOK
              <7> QED
                BY <7>1, DepthFinite
            <6>3. Depth(e.calls) = Depth(machines[c].calls) + 1
              BY <2>3, <4>1, <5>1 DEF IDLE, RUNNING
            <6> QED
              BY <2>6, <4>3, <6>1, <6>2, <6>3 DEF Room
          <5>2. CASE machines[c].running # RUNNING
            <6>1. Depth(e.calls) = 0
              BY <2>3, <4>1, <4>2, <5>2
            <6> QED
              BY <2>6, <4>3, <6>1 DEF Room
          <5> QED
            BY <5>1, <5>2
        <4>5. vm'[c] = e
          BY <1>1, <2>1
        <4> QED
          BY <2>3, <3>2, <4>4, <4>5 DEF Held, RUNNING, NESTED
      <3> QED
        BY <3>1, <3>2
    <2>10. lost' \subseteq Cogs
      BY <2>1
    <2> QED
      BY <2>1, <2>5, <2>8, <2>9, <2>10 DEF Sound
  <1> QED
    BY <1>2, <1>3

-------------------------------------------------------------------------------
(* Opcodes *)

LEMMA OpFields ==
    ASSUME script \in Programs, NEW c \in Cogs
    PROVE  /\ OpAt(c).op \in {"sleep", "pulse", "timer"} => OpAt(c).ms \in 0..MaxSleep
           /\ OpAt(c).op = "wait" => OpAt(c).thing \in Paths
           /\ OpAt(c).op = "send" => OpAt(c).cog \in Cogs
           /\ OpAt(c).op \in {"call", "branch"} => OpAt(c).to \in Nat
  <1>1. OpAt(c) \in Ops \/ OpAt(c) = [op |-> "ret"]
    <2> DEFINE code == script[c].code
               pc == vm[c].pc
    <2>1. code \in Seq(Ops)
      BY ScriptFields
    <2> HIDE DEF code, pc
    <2>2. pc \in DOMAIN code => code[pc] \in Ops
      BY <2>1
    <2> QED
      BY <2>2 DEF OpAt, code, pc
  <1> DEFINE o == OpAt(c)
  <1> HIDE DEF o
  <1>2. ASSUME o = [op |-> "ret"] PROVE o.op = "ret"
    BY <1>2
  <1>3. ASSUME o \in Ops
        PROVE  /\ o.op \in {"sleep", "pulse", "timer"} => o.ms \in 0..MaxSleep
               /\ o.op = "wait" => o.thing \in Paths
               /\ o.op = "send" => o.cog \in Cogs
               /\ o.op \in {"call", "branch"} => o.to \in Nat
    BY <1>3 DEF Ops
  <1> QED
    BY <1>1, <1>2, <1>3 DEF o

\* What every opcode finds.
LEMMA Fetched ==
    ASSUME IInv, NEW c \in Cogs, NEW o, Fetch(c, o)
    PROVE  /\ TopLoop(cstack, c) /\ cstack \in Seq(Calls) /\ vm \in [Cogs -> Machines]
           /\ vm[c].running = RUNNING /\ OpAt(c).op = o
           /\ MachineOK(vm[c]) /\ vm[c] \in Machines
           /\ MachineOK(Past(c)) /\ Past(c) \in Machines /\ Past(c).running = RUNNING
           /\ Past(c).calls = vm[c].calls /\ Past(c).wake = vm[c].wake
           /\ \A stack, d : Held(vm[c], stack, d) => Held(Past(c), stack, d)
  <1>1. TopLoop(cstack, c) /\ vm[c].running = RUNNING /\ OpAt(c).op = o
        /\ cstack \in Seq(Calls) /\ vm \in [Cogs -> Machines] /\ MachineOK(vm[c])
    BY Zenon DEF Fetch, InLoop, TopLoop, IInv, Sound
  <1>2. vm[c] \in Machines
    BY <1>1
  <1>3. Past(c) \in Machines /\ Past(c).running = vm[c].running
        /\ Past(c).calls = vm[c].calls /\ Past(c).wake = vm[c].wake
    <2> DEFINE v == vm[c]
    <2>1. v \in Machines /\ v.pc \in Nat
      BY <1>2, MachineFields
    <2>2. Past(c) = [v EXCEPT !.pc = @ + 1]
      BY DEF Past
    <2> HIDE DEF v
    <2>3. Past(c) \in Machines /\ Past(c).running = v.running
          /\ Past(c).calls = v.calls /\ Past(c).wake = v.wake
      BY ONLY <2>1, <2>2 DEF Machines
    <2> QED
      BY <2>3 DEF v
  <1> HIDE DEF Past
  <1>4. MachineOK(Past(c)) /\ \A stack, d : Held(vm[c], stack, d) => Held(Past(c), stack, d)
    BY <1>1, <1>3, Moved, Zenon
  <1> QED
    BY <1>1, <1>2, <1>3, <1>4, Zenon

\* The machine of the running cog changes and the C calls do not.
LEMMA BecomeOk ==
    ASSUME IInv, NEW c \in Cogs, NEW v, MachineOK(v), NEW gone, lost \subseteq gone,
           Held(vm[c], cstack, c) => (c \in gone \/ Held(v, cstack, c)),
           vm' = [vm EXCEPT ![c] = v], cstack' = cstack, lost' = gone
    PROVE  Sound(vm', cstack', lost')
  <1>1. /\ vm \in [Cogs -> Machines] /\ \A d \in Cogs : MachineOK(vm[d])
        /\ cstack \in Seq(Calls) /\ OnlyLoopsAbove(cstack)
        /\ \A d \in Cogs \ lost : Held(vm[d], cstack, d)
    BY Zenon DEF IInv, Sound
  <1>2. v \in Machines
    BY DEF MachineOK
  <1>3. vm' \in [Cogs -> Machines] /\ vm'[c] = v /\ \A d \in Cogs : d # c => vm'[d] = vm[d]
    BY <1>1, <1>2
  <1>4. \A d \in Cogs : MachineOK(vm'[d])
    BY <1>1, <1>3
  <1>5. ASSUME NEW d \in Cogs \ lost' PROVE Held(vm'[d], cstack, d)
    BY <1>1, <1>3, <1>5
  <1> QED
    BY <1>1, <1>3, <1>4, <1>5 DEF Sound

LEMMA OpDone ==
    ASSUME IInv, NEW c \in Cogs, NEW v, MachineOK(v),
           Held(vm[c], cstack, c) => Held(v, cstack, c),
           Become(c, v), alarm' \in [Cogs -> Alarms]
    PROVE  IInv'
  <1>1. /\ vm' = [vm EXCEPT ![c] = v] /\ cstack' = cstack /\ lost' = lost
        /\ UNCHANGED <<script, disabled, moving, budget>>
    BY DEF Become
  <1>2. Sound(vm', cstack', lost')
    BY <1>1, BecomeOk, Zenon
  <1>3. Others'
    BY <1>1 DEF IInv, Others
  <1> QED
    BY <1>2, <1>3 DEF IInv

LEMMA AlarmSame ==
    ASSUME IInv, UNCHANGED alarm
    PROVE  alarm' \in [Cogs -> Alarms]
  BY DEF IInv, Others

LEMMA NextWork == ASSUME IInv, NEW c \in Cogs, Work(c) PROVE IInv'
  <1>1. Fetch(c, "work") /\ Become(c, Past(c)) /\ UNCHANGED alarm
    BY DEF Work
  <1>2. MachineOK(Past(c)) /\ (Held(vm[c], cstack, c) => Held(Past(c), cstack, c))
    BY <1>1, Fetched, Zenon
  <1> QED
    BY <1>1, <1>2, OpDone, AlarmSame, Zenon

LEMMA NextBranch == ASSUME IInv, NEW c \in Cogs, Branch(c) PROVE IInv'
  <1>1. PICK o \in {"branch", "call"} : Fetch(c, o) /\ UNCHANGED alarm
    BY DEF Branch, Misread
  <1>2. PICK pc \in Jumps(c) : Become(c, [vm[c] EXCEPT !.pc = pc])
    BY DEF Branch
  <1>3. OpAt(c).op = o /\ vm[c] \in Machines /\ script \in Programs /\ MachineOK(vm[c])
    BY <1>1, Fetched, Zenon DEF IInv, Others
  <1>4. pc \in Nat
    <2>1. OpAt(c).to \in Nat /\ vm[c].pc \in Nat
      BY <1>3, OpFields, MachineFields
    <2> QED
      BY <1>2, <2>1 DEF Jumps
  <1> DEFINE v == vm[c]
             w == [v EXCEPT !.pc = pc]
  <1>6. Become(c, w)
    BY <1>2
  <1>7. v \in Machines /\ v.pc \in Nat /\ pc \in Nat /\ MachineOK(v)
    BY <1>2, <1>3, <1>4, MachineFields
  <1> HIDE DEF v
  <1>8. w \in Machines /\ w.running = v.running /\ w.wake = v.wake /\ w.calls = v.calls
    BY ONLY <1>7 DEF Machines
  <1> HIDE DEF w
  <1>9. MachineOK(w) /\ (Held(v, cstack, c) => Held(w, cstack, c))
    BY <1>7, <1>8, Moved, Zenon
  <1> QED
    BY <1>1, <1>6, <1>9, OpDone, AlarmSame, Zenon DEF v

LEMMA NextCallSub == ASSUME IInv, NEW c \in Cogs, CallSub(c) PROVE IInv'
  <1> DEFINE p == Past(c)
             w == [Called(p) EXCEPT !.pc = OpAt(c).to]
  <1>1. Fetch(c, "call") /\ UNCHANGED alarm /\ ~Full(vm[c]) /\ Become(c, w)
    BY DEF CallSub
  <1>2. /\ OpAt(c).op = "call" /\ MachineOK(p) /\ p \in Machines /\ p.running = RUNNING
        /\ p.calls = vm[c].calls /\ (Held(vm[c], cstack, c) => Held(p, cstack, c))
    BY <1>1, Fetched, Zenon
  <1>3. OpAt(c).to \in Nat
    BY <1>2, OpFields DEF IInv, Others
  <1> HIDE DEF p
  <1>4. ~Full(p) /\ p.running # IDLE
    BY <1>1, <1>2 DEF Full, RUNNING, IDLE
  <1> DEFINE u == Called(p)
  <1>5. /\ MachineOK(u) /\ u.running = RUNNING
        /\ u.calls = Append(p.calls, FrameOf(p))
    BY <1>2, <1>4, CalledOk, Zenon
  <1>6. w = [u EXCEPT !.pc = OpAt(c).to]
    OBVIOUS
  <1>7. u \in Machines
    BY <1>5 DEF MachineOK
  <1> HIDE DEF u, w
  <1>8. w \in Machines /\ w.running = u.running /\ w.wake = u.wake /\ w.calls = u.calls
    <2> DEFINE to == OpAt(c).to
    <2>1. to \in Nat
      BY <1>3
    <2> HIDE DEF to
    <2> QED
      BY ONLY <1>6, <1>7, <2>1 DEF Machines, to
  <1>9. MachineOK(w)
    BY <1>5, <1>8, Moved, Zenon
  <1>10. Depth(u.calls) = Depth(p.calls)
    <2>1. FrameOf(p) \in Frame /\ FrameOf(p).running = RUNNING /\ p.calls \in Seq(Frame)
      BY <1>2, <1>4, FrameOfOk, MachineFields DEF FrameOf
    <2> QED
      BY <1>5, <2>1, DepthPushed
  <1>11. Held(p, cstack, c) => Held(w, cstack, c)
    BY <1>2, <1>5, <1>8, <1>10 DEF Held, RUNNING, NESTED
  <1> QED
    BY <1>1, <1>2, <1>9, <1>11, OpDone, AlarmSame

LEMMA NextRet == ASSUME IInv, NEW c \in Cogs, Ret(c) PROVE IInv'
  <1>1. PICK o \in {"ret", "call"} :
            Fetch(c, o) /\ Become(c, Returned(Past(c))) /\ UNCHANGED alarm
    BY DEF Ret, Misread
  <1>2. /\ MachineOK(Past(c)) /\ Past(c).running = RUNNING /\ TopLoop(cstack, c)
        /\ (Held(vm[c], cstack, c) => Held(Past(c), cstack, c))
    BY <1>1, Fetched, Zenon
  <1>3. MachineOK(Returned(Past(c)))
        /\ (Held(Past(c), cstack, c) => Held(Returned(Past(c)), cstack, c))
    BY <1>2, ReturnedOk, Zenon
  <1> QED
    BY <1>1, <1>2, <1>3, OpDone, AlarmSame, Zenon

\* A machine that stops running needs no loop.
LEMMA StopsOk ==
    ASSUME NEW v, MachineOK(v), v.running = RUNNING, NEW w, w \in Machines,
           w.calls = v.calls, w.running \in {SLEEPING, WAITING},
           WakeOK(w)
    PROVE  MachineOK(w) /\ \A stack, c : Held(w, stack, c)
  BY DEF MachineOK, WakeOK, Held, IDLE, RUNNING, SLEEPING, WAITING, NESTED

LEMMA NextSleep == ASSUME IInv, NEW c \in Cogs, Sleep(c) PROVE IInv'
  <1> DEFINE p == Past(c)
             ms == OpAt(c).ms
             w == [p EXCEPT !.running = SLEEPING, !.wake = ms]
  <1>1. Fetch(c, "sleep") /\ UNCHANGED alarm /\ Become(c, w)
    BY DEF Sleep
  <1>2. OpAt(c).op = "sleep" /\ MachineOK(p) /\ p \in Machines /\ p.running = RUNNING
    BY <1>1, Fetched, Zenon
  <1>3. ms \in Times
    <2>1. ms \in 0..MaxSleep
      BY <1>2, OpFields DEF IInv, Others
    <2> QED
      BY <2>1, SithCogAssumption DEF Times
  <1> HIDE DEF p, ms
  <1>4. w \in Machines /\ w.running = SLEEPING /\ w.wake = ms /\ w.calls = p.calls
    BY ONLY <1>2, <1>3 DEF Machines
  <1> HIDE DEF w
  <1>5. MachineOK(w) /\ Held(w, cstack, c)
    BY <1>2, <1>3, <1>4, StopsOk DEF WakeOK, SLEEPING, WAITING
  <1> QED
    BY <1>1, <1>5, OpDone, AlarmSame, Zenon

LEMMA NextWaitForStop == ASSUME IInv, NEW c \in Cogs, WaitForStop(c) PROVE IInv'
  <1> DEFINE p == Past(c)
             t == OpAt(c).thing
             w == [p EXCEPT !.running = WAITING, !.wake = t]
  <1>1. Fetch(c, "wait") /\ UNCHANGED alarm /\ Become(c, IF t \in moving THEN w ELSE p)
    BY DEF WaitForStop
  <1>2. OpAt(c).op = "wait" /\ MachineOK(p) /\ p \in Machines /\ p.running = RUNNING
        /\ (Held(vm[c], cstack, c) => Held(p, cstack, c))
    BY <1>1, Fetched, Zenon
  <1>3. t \in Paths
    BY <1>2, OpFields DEF IInv, Others
  <1> HIDE DEF p, t
  <1>4. w \in Machines /\ w.running = WAITING /\ w.wake = t /\ w.calls = p.calls
    BY ONLY <1>2, <1>3 DEF Machines
  <1> HIDE DEF w
  <1>5. MachineOK(w) /\ Held(w, cstack, c)
    BY <1>2, <1>3, <1>4, StopsOk DEF WakeOK, SLEEPING, WAITING
  <1> QED
    BY <1>1, <1>2, <1>5, OpDone, AlarmSame

LEMMA AlarmFields ==
    ASSUME alarm \in [Cogs -> Alarms], NEW c \in Cogs
    PROVE  alarm[c] \in Alarms /\ alarm[c].period \in 0..MaxSleep
  BY DEF Alarms

LEMMA NextSetPulse == ASSUME IInv, NEW c \in Cogs, SetPulse(c) PROVE IInv'
  <1> DEFINE ms == OpAt(c).ms
             a == alarm[c]
             b == IF ms = 0 THEN [a EXCEPT !.pulse = FALSE]
                  ELSE [a EXCEPT !.pulse = TRUE, !.period = ms, !.next = ms]
  <1>1. Fetch(c, "pulse") /\ Become(c, Past(c))
    BY DEF SetPulse
  <1>2. OpAt(c).op = "pulse" /\ MachineOK(Past(c))
        /\ (Held(vm[c], cstack, c) => Held(Past(c), cstack, c))
    BY <1>1, Fetched, Zenon
  <1>3. ms \in 0..MaxSleep /\ alarm \in [Cogs -> Alarms]
    BY <1>2, OpFields DEF IInv, Others
  <1>4. a \in Alarms
    BY <1>3
  <1>5. alarm' = [alarm EXCEPT ![c] = b]
    BY <1>3 DEF SetPulse
  <1> HIDE DEF ms, a
  <1>6. b \in Alarms
    BY ONLY <1>3, <1>4 DEF Alarms
  <1> HIDE DEF b
  <1>7. alarm' \in [Cogs -> Alarms]
    BY <1>3, <1>5, <1>6
  <1> QED
    BY <1>1, <1>2, <1>7, OpDone, Zenon

LEMMA NextSetTimer == ASSUME IInv, NEW c \in Cogs, SetTimer(c) PROVE IInv'
  <1> DEFINE ms == OpAt(c).ms
             a == alarm[c]
             b == IF ms = 0 THEN [a EXCEPT !.timer = FALSE]
                  ELSE [a EXCEPT !.timer = TRUE, !.due = ms]
  <1>1. Fetch(c, "timer") /\ Become(c, Past(c))
    BY DEF SetTimer
  <1>2. OpAt(c).op = "timer" /\ MachineOK(Past(c))
        /\ (Held(vm[c], cstack, c) => Held(Past(c), cstack, c))
    BY <1>1, Fetched, Zenon
  <1>3. ms \in 0..MaxSleep /\ alarm \in [Cogs -> Alarms]
    BY <1>2, OpFields DEF IInv, Others
  <1>4. a \in Alarms
    BY <1>3
  <1>5. alarm' = [alarm EXCEPT ![c] = b]
    BY <1>3 DEF SetTimer
  <1> HIDE DEF ms, a
  <1>6. b \in Alarms
    BY ONLY <1>3, <1>4 DEF Alarms
  <1> HIDE DEF b
  <1>7. alarm' \in [Cogs -> Alarms]
    BY <1>3, <1>5, <1>6
  <1> QED
    BY <1>1, <1>2, <1>7, OpDone, Zenon

LEMMA NextReset == ASSUME IInv, NEW c \in Cogs, Reset(c) PROVE IInv'
  <1> DEFINE p == Past(c)
             w == [p EXCEPT !.calls = <<>>]
             gone == IF vm[c].calls = <<>> THEN lost ELSE lost \cup {c}
  <1>1. /\ Fetch(c, "reset") /\ vm' = [vm EXCEPT ![c] = w] /\ lost' = gone
        /\ UNCHANGED <<script, alarm, disabled, moving, cstack, budget>>
    BY DEF Reset
  <1>2. /\ MachineOK(p) /\ p \in Machines /\ p.running = RUNNING /\ p.calls = vm[c].calls
        /\ (Held(vm[c], cstack, c) => Held(p, cstack, c))
    BY <1>1, Fetched, Zenon
  <1> HIDE DEF p
  <1>3. w \in Machines /\ w.running = RUNNING /\ w.wake = p.wake /\ w.calls = <<>>
    <2> DEFINE none == <<>>
    <2>1. none \in Seq(Frame)
      OBVIOUS
    <2>2. w = [p EXCEPT !.calls = none]
      OBVIOUS
    <2> HIDE DEF none, w
    <2>3. w \in Machines /\ w.running = RUNNING /\ w.wake = p.wake /\ w.calls = none
      BY ONLY <1>2, <2>1, <2>2 DEF Machines
    <2> QED
      BY <2>3 DEF none
  <1> HIDE DEF w
  <1>4. MachineOK(w)
    BY <1>3, SithCogAssumption DEF MachineOK, WakeOK, RUNNING, IDLE, SLEEPING, WAITING
  <1>5. Held(vm[c], cstack, c) => (c \in gone \/ Held(w, cstack, c))
    BY <1>2, <1>3 DEF Held, RUNNING, NESTED
  <1>6. lost \subseteq gone /\ lost \subseteq Cogs /\ gone \subseteq Cogs
    BY DEF IInv, Others
  <1> HIDE DEF gone
  <1>7. Sound(vm', cstack', lost')
    BY <1>1, <1>4, <1>5, <1>6, BecomeOk
  <1> QED
    BY <1>1, <1>6, <1>7 DEF IInv, Others

\* Only the cog whose loop is on top of the C stack can be told 4.
LEMMA NobodyNested ==
    ASSUME IInv
    PROVE  \A d \in Cogs \ lost : vm[d].running = NESTED => TopLoop(cstack, d)
  BY Zenon DEF IInv, Sound, Held

\* A cog in the middle of its verb is as sound as it was before.
LEMMA SendReady ==
    ASSUME IInv, NEW c \in Cogs, Send(c)
    PROVE  /\ Fetch(c, "send") /\ OpAt(c).cog \in Cogs
           /\ Deliver(OpAt(c).cog, OpAt(c).msg, [vm EXCEPT ![c] = Past(c)], cstack)
           /\ Sound([vm EXCEPT ![c] = Past(c)], cstack, lost)
           /\ \A d \in Cogs \ lost : [vm EXCEPT ![c] = Past(c)][d].running # NESTED
           /\ UNCHANGED <<script, alarm, disabled, moving, budget>>
  <1> DEFINE p == Past(c)
             machines == [vm EXCEPT ![c] = p]
             to == OpAt(c).cog
  <1>1. /\ Fetch(c, "send") /\ Deliver(to, OpAt(c).msg, machines, cstack)
        /\ UNCHANGED <<script, alarm, disabled, moving, budget>>
    BY DEF Send
  <1>2. /\ OpAt(c).op = "send" /\ MachineOK(p) /\ p.running = RUNNING
        /\ (Held(vm[c], cstack, c) => Held(p, cstack, c))
        /\ TopLoop(cstack, c) /\ vm \in [Cogs -> Machines] /\ p \in Machines
        /\ cstack \in Seq(Calls)
    BY <1>1, Fetched, Zenon
  <1>3. to \in Cogs /\ script \in Programs /\ lost \subseteq Cogs
    BY <1>2, OpFields DEF IInv, Others
  <1> HIDE DEF p, to
  <1>4. machines \in [Cogs -> Machines] /\ machines[c] = p
        /\ \A d \in Cogs : d # c => machines[d] = vm[d]
    BY <1>2
  <1> HIDE DEF machines
  <1>5. Sound(machines, cstack, lost)
    <2>1. \A d \in Cogs : MachineOK(machines[d])
      BY <1>2, <1>4 DEF IInv, Sound
    <2>2. \A d \in Cogs \ lost : Held(machines[d], cstack, d)
      BY <1>2, <1>4 DEF IInv, Sound
    <2> QED
      BY <1>4, <2>1, <2>2 DEF IInv, Sound
  <1>6. \A d \in Cogs \ lost : machines[d].running # NESTED
    <2>1. \A d : TopLoop(cstack, d) => d = c
      BY <1>2, PopLoop, Zenon
    <2> QED
      BY <1>2, <1>4, <2>1, NobodyNested DEF RUNNING, NESTED
  <1> QED
    BY <1>1, <1>3, <1>5, <1>6 DEF machines, p, to

LEMMA NextSend == ASSUME IInv, NEW c \in Cogs, Send(c) PROVE IInv'
  <1> DEFINE machines == [vm EXCEPT ![c] = Past(c)]
             to == OpAt(c).cog
  <1>1. /\ to \in Cogs /\ Deliver(to, OpAt(c).msg, machines, cstack)
        /\ Sound(machines, cstack, lost) /\ (\A d \in Cogs \ lost : machines[d].running # NESTED)
        /\ UNCHANGED <<script, alarm, disabled, moving, budget>>
    BY SendReady
  <1>2. script \in Programs /\ lost \subseteq Cogs
    BY MachinesOfInv
  <1> HIDE DEF machines, to
  <1>3. Sound(vm', cstack', lost') /\ lost' \subseteq Cogs
    BY <1>1, <1>2, DeliverOk
  <1> QED
    BY <1>1, <1>3 DEF IInv, Others

\* The loop of a cog that does not run any more comes off the C stack: nobody else notices.
LEMMA NextLoopEnds == ASSUME IInv, NEW c \in Cogs, LoopEnds(c) PROVE IInv'
  <1> DEFINE nested == vm[c].running = NESTED
             byTick == Last(cstack).by = "Tick"
             t == Front(cstack)
             w == [vm[c] EXCEPT !.running = RUNNING]
  <1>1. /\ TopLoop(cstack, c) /\ vm[c].running # RUNNING /\ cstack' = t
        /\ UNCHANGED <<script, alarm, disabled, moving, budget>>
    BY DEF LoopEnds, InLoop, TopLoop
  <1>2. /\ vm \in [Cogs -> Machines] /\ \A d \in Cogs : MachineOK(vm[d])
        /\ cstack \in Seq(Calls) /\ OnlyLoopsAbove(cstack) /\ lost \subseteq Cogs
        /\ \A d \in Cogs \ lost : Held(vm[d], cstack, d)
    BY DEF IInv, Sound, Others
  <1>3. /\ vm' = IF nested /\ ~byTick THEN [vm EXCEPT ![c] = w] ELSE vm
        /\ lost' = IF vm[c].running = IDLE THEN lost \ {c}
                   ELSE IF nested /\ byTick THEN lost \cup {c} ELSE lost
    BY <1>2 DEF LoopEnds
  <1>4. /\ t \in Seq(Calls) /\ OnlyLoopsAbove(t) /\ OneLoopMore(t, cstack, c, Last(cstack).by)
        /\ \A d : TopLoop(cstack, d) <=> d = c
    BY <1>1, <1>2, PopLoop, Zenon
  <1>5. CountLoops(t, c) \in Nat
    BY <1>4, LoopsFinite
  <1>6. MachineOK(vm[c]) /\ vm[c] \in Machines
    BY <1>2
  <1>7. w \in Machines /\ w.running = RUNNING /\ w.wake = vm[c].wake /\ w.calls = vm[c].calls
    BY ONLY <1>6 DEF Machines
  <1> HIDE DEF t, w
  <1>8. nested => MachineOK(w)
    BY <1>6, <1>7 DEF MachineOK, WakeOK, RUNNING, IDLE, SLEEPING, WAITING
  <1>9. vm' \in [Cogs -> Machines] /\ (\A d \in Cogs : MachineOK(vm'[d]))
        /\ (\A d \in Cogs : d # c => vm'[d] = vm[d])
        /\ vm'[c] = IF nested /\ ~byTick THEN w ELSE vm[c]
    BY <1>2, <1>3, <1>7, <1>8
  <1>10. ASSUME NEW d \in Cogs \ lost' PROVE Held(vm'[d], t, d)
    <2>1. CASE d # c
      <3>1. Held(vm[d], cstack, d) /\ vm[d].running # NESTED
        BY <1>2, <1>3, <1>4, <2>1, NobodyNested
      <3>2. CountLoops(t, d) = CountLoops(cstack, d) /\ (ByTick(cstack, d) => ByTick(t, d))
        BY <1>4, <2>1 DEF OneLoopMore
      <3> QED
        BY <1>9, <2>1, <3>1, <3>2, HeldSame
    <2>2. CASE d = c /\ ~nested
      BY <1>1, <1>9, <2>2 DEF Held
    <2>3. CASE d = c /\ nested
      <3>1. ~byTick /\ c \notin lost
        BY <1>3, <2>3 DEF NESTED, IDLE
      <3>2. Room(cstack, c, Depth(vm[c].calls) + 1)
        BY <1>2, <2>3, <3>1 DEF Held
      <3>3. CountLoops(cstack, c) = CountLoops(t, c) + 1 /\ (ByTick(cstack, c) => ByTick(t, c))
        BY <1>4, <3>1, Zenon DEF OneLoopMore
      <3>4. Depth(vm[c].calls) \in Nat
        BY <1>6, MachineFields, DepthFinite
      <3>5. Room(t, c, Depth(vm[c].calls))
        BY <1>5, <3>2, <3>3, <3>4 DEF Room
      <3>6. vm'[d] = w
        BY <1>9, <2>3, <3>1
      <3> QED
        BY <1>7, <2>3, <3>5, <3>6 DEF Held, RUNNING, NESTED
    <2> QED
      BY <2>1, <2>2, <2>3
  <1>11. Sound(vm', cstack', lost')
    BY <1>1, <1>4, <1>9, <1>10 DEF Sound
  <1>12. lost' \subseteq Cogs
    BY <1>2, <1>3
  <1> QED
    BY <1>1, <1>11, <1>12 DEF IInv, Others

LEMMA NextExec == ASSUME IInv, NEW c \in Cogs, Exec(c) PROVE IInv'
  BY NextWork, NextBranch, NextCallSub, NextRet, NextSleep, NextWaitForStop, NextReset,
     NextSetPulse, NextSetTimer, NextSend, NextLoopEnds, Zenon DEF Exec

-------------------------------------------------------------------------------
(* Ticks, messages for several cogs, and what happens between two ticks *)

\* When no loop is on top of the C stack there is none at all, and nobody runs.
LEMMA Quiet ==
    ASSUME IInv, cstack = <<>> \/ Last(cstack).fn # "Exec"
    PROVE  /\ \A d \in Cogs \ lost : vm[d].running \notin {RUNNING, NESTED}
           /\ cstack # <<>> => Front(cstack) = <<>> /\ Last(cstack) \in Calls
  <1>1. /\ cstack \in Seq(Calls) /\ OnlyLoopsAbove(cstack) /\ vm \in [Cogs -> Machines]
        /\ \A d \in Cogs : MachineOK(vm[d])
        /\ \A d \in Cogs \ lost : Held(vm[d], cstack, d)
    BY DEF IInv, Sound
  <1>2. ASSUME NEW d PROVE CountLoops(<<>>, d) = 0 /\ ~ByTick(<<>>, d)
    <2>1. LoopsIn(<<>>, d) = {}
      BY DEF LoopsIn
    <2>2. ~ByTick(<<>>, d)
      BY DEF ByTick
    <2> QED
      BY <2>1, <2>2, FS_EmptySet, Zenon DEF CountLoops
  <1>3. ASSUME cstack # <<>>
        PROVE  SameLoops(<<>>, cstack) /\ Front(cstack) = <<>> /\ Last(cstack) \in Calls
               /\ \A d : ~TopLoop(cstack, d)
    <2>1. Last(cstack).fn # "Exec"
      BY <1>3
    <2>2. Last(cstack) \in Calls
      BY <1>1, <1>3, FrontOf, Zenon
    <2> QED
      BY <1>1, <1>3, <2>1, <2>2, PopOther, Zenon
  <1>4. ASSUME NEW d PROVE CountLoops(cstack, d) = 0 /\ ~ByTick(cstack, d) /\ ~TopLoop(cstack, d)
    <2>1. CASE cstack = <<>>
      BY <1>2, <2>1, Zenon DEF TopLoop
    <2>2. CASE cstack # <<>>
      BY <1>2, <1>3, <2>2, Zenon DEF SameLoops
    <2> QED
      BY <2>1, <2>2
  <1>5. ASSUME NEW d \in Cogs \ lost PROVE vm[d].running \notin {RUNNING, NESTED}
    <2>1. Depth(vm[d].calls) \in Nat
      <3>1. vm[d].calls \in Seq(Frame)
        BY <1>1, <1>5, MachineFields DEF MachineOK
      <3> QED
        BY <3>1, DepthFinite
    <2>2. Held(vm[d], cstack, d)
      BY <1>1
    <2> QED
      BY <1>4, <2>1, <2>2 DEF Held, Room
  <1> QED
    BY <1>3, <1>5

\* Where nobody runs, the C stack may be any.
LEMMA AnyStack ==
    ASSUME NEW machines, machines \in [Cogs -> Machines],
           \A d \in Cogs : MachineOK(machines[d]), NEW gone,
           \A d \in Cogs \ gone : machines[d].running \notin {RUNNING, NESTED},
           NEW st \in Seq(Calls), OnlyLoopsAbove(st)
    PROVE  Sound(machines, st, gone)
  BY DEF Sound, Held

LEMMA StackOfOne ==
    ASSUME NEW f \in Calls
    PROVE  /\ <<f>> \in Seq(Calls) /\ OnlyLoopsAbove(<<f>>) /\ Append(<<>>, f) = <<f>>
           /\ <<>> \in Seq(Calls) /\ OnlyLoopsAbove(<<>>)
  BY DEF OnlyLoopsAbove

\* Before the next receiver of a message nobody runs.
LEMMA SendNextReady ==
    ASSUME IInv, SendNext
    PROVE  \E c \in Cogs, m \in Messages : \E rest :
              /\ Deliver(c, m, vm, rest) /\ Sound(vm, rest, lost)
              /\ \A d \in Cogs \ lost : vm[d].running # NESTED
              /\ UNCHANGED <<script, alarm, disabled, moving, budget>>
  <1> DEFINE s == Last(cstack)
             more == Sending(s.msg, Tail(s.to))
             rest == IF Len(s.to) = 1 THEN Front(cstack) ELSE Append(Front(cstack), more)
  <1>1. /\ cstack # <<>> /\ s.fn = "Send" /\ Deliver(Head(s.to), s.msg, vm, rest)
        /\ UNCHANGED <<script, alarm, disabled, moving, budget>>
    BY DEF SendNext
  <1>2. /\ \A d \in Cogs \ lost : vm[d].running \notin {RUNNING, NESTED}
        /\ Front(cstack) = <<>> /\ s \in Calls
    BY <1>1, Quiet
  <1>3. s.msg \in Messages /\ s.to \in Seq(Cogs) /\ s.to # <<>>
    BY <1>1, <1>2 DEF Calls
  <1> HIDE DEF s
  <1>4. Head(s.to) \in Cogs /\ (Len(s.to) # 1 => Tail(s.to) \in Seq(Cogs) \ {<<>>})
    <2> DEFINE to == s.to
    <2>1. to \in Seq(Cogs) /\ to # <<>>
      BY <1>3
    <2> HIDE DEF to
    <2>2. Head(to) \in Cogs /\ Tail(to) \in Seq(Cogs) /\ Len(Tail(to)) = Len(to) - 1
          /\ Len(to) \in Nat \ {0}
      BY <2>1
    <2>3. Len(to) # 1 => Tail(to) # <<>>
      <3>1. ASSUME Tail(to) = <<>> PROVE Len(Tail(to)) = 0
        BY <3>1, Len(<<>>) = 0, Zenon
      <3> QED
        BY ONLY <2>2, <3>1
    <2> QED
      BY <2>2, <2>3 DEF to
  <1>5. Len(s.to) # 1 => more \in Calls
    <2> DEFINE tail == Tail(s.to)
               msg == s.msg
    <2>1. Len(s.to) # 1 => tail \in Seq(Cogs) \ {<<>>}
      BY <1>4
    <2>2. msg \in Messages
      BY <1>3
    <2> HIDE DEF tail, msg
    <2>3. tail \in Seq(Cogs) \ {<<>>} => Sending(msg, tail) \in Calls
      BY ONLY <2>2 DEF Sending, Calls
    <2> QED
      BY <2>1, <2>3 DEF tail, msg
  <1> HIDE DEF more
  <1>6. rest \in Seq(Calls) /\ OnlyLoopsAbove(rest)
    <2>1. CASE Len(s.to) = 1
      BY <1>2, <2>1 DEF OnlyLoopsAbove
    <2>2. CASE Len(s.to) # 1
      <3>1. rest = Append(<<>>, more)
        BY <1>2, <2>2
      <3> QED
        BY <1>5, <2>2, <3>1, StackOfOne
    <2> QED
      BY <2>1, <2>2
  <1> HIDE DEF rest
  <1>7. Sound(vm, rest, lost)
    BY <1>2, <1>6, MachinesOfInv, AnyStack
  <1>8. \A d \in Cogs \ lost : vm[d].running # NESTED
    BY <1>2
  <1> QED
    BY <1>1, <1>3, <1>4, <1>7, <1>8

LEMMA NextSendNext == ASSUME IInv, SendNext PROVE IInv'
  <1>0. PICK c \in Cogs, m \in Messages : \E rest :
              /\ Deliver(c, m, vm, rest) /\ Sound(vm, rest, lost)
              /\ \A d \in Cogs \ lost : vm[d].running # NESTED
              /\ UNCHANGED <<script, alarm, disabled, moving, budget>>
    BY SendNextReady, Zenon
  <1>1. PICK rest :
              /\ Deliver(c, m, vm, rest) /\ Sound(vm, rest, lost)
              /\ \A d \in Cogs \ lost : vm[d].running # NESTED
              /\ UNCHANGED <<script, alarm, disabled, moving, budget>>
    BY <1>0
  <1>2. Sound(vm', cstack', lost') /\ lost' \subseteq Cogs
    BY <1>1, MachinesOfInv, DeliverOk
  <1> QED
    BY <1>1, <1>2 DEF IInv, Others

LEMMA NextTickAll == ASSUME IInv, TickAll PROVE IInv'
  <1> DEFINE f == Ticking(1, "pulse")
  <1>1. cstack = <<>> /\ cstack' = <<f>>
        /\ UNCHANGED <<script, vm, alarm, disabled, moving, budget, lost>>
    BY DEF TickAll
  <1>2. f \in Calls
    BY SithCogAssumption DEF Ticking, Calls, Cogs
  <1> HIDE DEF f
  <1>3. <<f>> \in Seq(Calls) /\ OnlyLoopsAbove(<<f>>)
    BY <1>2, StackOfOne
  <1>4. Sound(vm, <<f>>, lost)
    BY <1>1, <1>3, Quiet, MachinesOfInv, AnyStack
  <1> QED
    BY <1>1, <1>4 DEF IInv, Others

\* What a stage of the tick of cog c finds.
LEMMA AtTickOk ==
    ASSUME IInv, NEW c \in Cogs, NEW at, AtTick(c, at)
    PROVE  /\ \A d \in Cogs \ lost : vm[d].running \notin {RUNNING, NESTED}
           /\ \A f : Stage(f) = <<f>>
  <1>1. cstack # <<>> /\ Last(cstack).fn # "Exec"
    BY DEF AtTick, Ticking
  <1>2. Front(cstack) = <<>>
    BY <1>1, Quiet
  <1> QED
    BY <1>1, <1>2, Quiet DEF Stage

LEMMA TickingType ==
    ASSUME NEW c \in Cogs, NEW at \in {"pulse", "timer", "wake", "done"}
    PROVE  /\ <<Ticking(c, at)>> \in Seq(Calls) /\ OnlyLoopsAbove(<<Ticking(c, at)>>)
  <1> DEFINE f == Ticking(c, at)
  <1>1. f \in Calls
    BY DEF Ticking, Calls
  <1> HIDE DEF f
  <1>2. <<f>> \in Seq(Calls) /\ OnlyLoopsAbove(<<f>>)
    BY <1>1, StackOfOne
  <1> QED
    BY <1>2 DEF f

LEMMA SoonerType ==
    ASSUME NEW t \in Times
    PROVE  Sooner(t) \in Times
  BY SithCogAssumption DEF Sooner, Times

\* What time does to whoever sleeps.
Later(f, g) ==
    /\ g.running = f.running /\ g.trig = f.trig
    /\ g.wake = IF f.running = SLEEPING THEN Sooner(f.wake) ELSE f.wake

LEMMA EarlierVmOk ==
    ASSUME NEW v, MachineOK(v)
    PROVE  /\ MachineOK(EarlierVm(v)) /\ EarlierVm(v).running = v.running
           /\ Later(v, EarlierVm(v)) /\ Len(EarlierVm(v).calls) = Len(v.calls)
           /\ DOMAIN EarlierVm(v).calls = DOMAIN v.calls
           /\ \A i \in DOMAIN v.calls : Later(v.calls[i], EarlierVm(v).calls[i])
  <1> DEFINE calls == [i \in DOMAIN v.calls |-> EarlierFrame(v.calls[i])]
             wake == IF v.running = SLEEPING THEN Sooner(v.wake) ELSE v.wake
             w == [v EXCEPT !.wake = wake, !.calls = calls]
  <1>1. /\ v \in Machines /\ v.calls \in Seq(Frame) /\ Len(v.calls) <= MaxFrames
        /\ v.wake \in Times \cup Paths
        /\ WakeOK(v)
        /\ (\A i \in DOMAIN v.calls : WakeOK(v.calls[i]))
        /\ (v.running = IDLE => v.calls = <<>>)
    BY MachineFields DEF MachineOK
  <1>2. EarlierVm(v) = w
    BY DEF EarlierVm
  <1>3. /\ wake \in Times \cup Paths
        /\ v.running = SLEEPING => wake \in Times
        /\ v.running = WAITING => wake \in Paths
    BY <1>1, SoonerType DEF WakeOK, SLEEPING, WAITING
  <1>4. ASSUME NEW i \in DOMAIN v.calls
        PROVE  /\ EarlierFrame(v.calls[i]) \in Frame
               /\ EarlierFrame(v.calls[i]).running = v.calls[i].running
               /\ WakeOK(EarlierFrame(v.calls[i]))
               /\ Later(v.calls[i], EarlierFrame(v.calls[i]))
    <2> DEFINE f == v.calls[i]
               t == Sooner(f.wake)
    <2>1. f \in Frame /\ WakeOK(f)
      BY <1>1
    <2> HIDE DEF f
    <2>2. f.running = SLEEPING => t \in Times
      BY <2>1, SoonerType DEF WakeOK
    <2>3. EarlierFrame(f) = IF f.running = SLEEPING THEN [f EXCEPT !.wake = t] ELSE f
      BY DEF EarlierFrame
    <2> HIDE DEF t
    <2>4. /\ EarlierFrame(f) \in Frame /\ EarlierFrame(f).running = f.running
          /\ EarlierFrame(f).wake = IF f.running = SLEEPING THEN t ELSE f.wake
          /\ EarlierFrame(f).trig = f.trig
      BY ONLY <2>1, <2>2, <2>3 DEF Frame
    <2>5. WakeOK(EarlierFrame(f))
      BY <2>1, <2>2, <2>4 DEF WakeOK, SLEEPING, WAITING
    <2>6. Later(f, EarlierFrame(f))
      BY <2>4 DEF Later, t
    <2> QED
      BY <2>4, <2>5, <2>6 DEF f
  <1>5. /\ calls \in Seq(Frame) /\ Len(calls) = Len(v.calls) /\ DOMAIN calls = DOMAIN v.calls
        /\ \A i \in DOMAIN v.calls : calls[i] = EarlierFrame(v.calls[i])
    <2> DEFINE old == v.calls
               E(i) == EarlierFrame(v.calls[i])
    <2>1. old \in Seq(Frame) /\ \A i \in DOMAIN old : E(i) \in Frame
      BY <1>1, <1>4
    <2>2. calls = [i \in DOMAIN old |-> E(i)]
      OBVIOUS
    <2> HIDE DEF old, E, calls
    <2>3. /\ calls \in Seq(Frame) /\ Len(calls) = Len(old) /\ DOMAIN calls = DOMAIN old
          /\ \A i \in DOMAIN old : calls[i] = E(i)
      <3>1. DOMAIN old = 1 .. Len(old) /\ Len(old) \in Nat
        BY <2>1
      <3>2. calls \in [1 .. Len(old) -> Frame]
        BY <2>1, <2>2, <3>1
      <3> QED
        BY <2>2, <3>1, <3>2
    <2> QED
      BY <2>3 DEF old, E
  <1> HIDE DEF calls, wake
  <1>6. w \in Machines /\ w.running = v.running /\ w.wake = wake /\ w.calls = calls
        /\ w.trig = v.trig
    BY ONLY <1>1, <1>3, <1>5 DEF Machines
  <1> HIDE DEF w
  <1>7. v.running = IDLE => calls = <<>>
    BY <1>1, <1>5
  <1>8. \A i \in DOMAIN calls : WakeOK(calls[i])
    BY <1>4, <1>5
  <1>9. MachineOK(w)
    BY <1>1, <1>3, <1>5, <1>6, <1>7, <1>8 DEF MachineOK, WakeOK
  <1>10. Later(v, w)
    BY <1>6 DEF Later, wake
  <1> QED
    BY <1>2, <1>4, <1>5, <1>6, <1>9, <1>10

LEMMA EarlierAlarmOk ==
    ASSUME NEW a \in Alarms
    PROVE  EarlierAlarm(a) \in Alarms
  <1>1. a.next \in 0..MaxSleep /\ a.due \in 0..MaxSleep
    BY DEF Alarms
  <1> DEFINE next == Floor(a.next)
             due == Floor(a.due)
  <1>2. next \in 0..MaxSleep /\ due \in 0..MaxSleep
    BY <1>1, SithCogAssumption DEF Floor
  <1>3. EarlierAlarm(a) = [a EXCEPT !.next = next, !.due = due]
    BY DEF EarlierAlarm
  <1> HIDE DEF next, due
  <1> QED
    BY ONLY <1>2, <1>3, a \in Alarms DEF Alarms

LEMMA NextNextCog ==
    ASSUME IInv, NEW c \in Cogs, NextCog(c),
           \A d \in Cogs \ lost : vm[d].running \notin {RUNNING, NESTED},
           \A f : Stage(f) = <<f>>
    PROVE  IInv'
  <1>1. UNCHANGED <<script, disabled, moving, budget, lost>>
    BY DEF NextCog
  <1>2. /\ vm \in [Cogs -> Machines] /\ (\A d \in Cogs : MachineOK(vm[d]))
        /\ alarm \in [Cogs -> Alarms]
    BY MachinesOfInv
  <1>3. CASE c < NumCogs
    <2> DEFINE st == <<Ticking(c + 1, "pulse")>>
    <2>1. UNCHANGED <<vm, alarm>> /\ cstack' = st
      BY <1>3 DEF NextCog
    <2>2. c + 1 \in Cogs
      BY <1>3, SithCogAssumption DEF Cogs
    <2>3. st \in Seq(Calls) /\ OnlyLoopsAbove(st)
      BY <2>2, TickingType
    <2> HIDE DEF st
    <2>4. Sound(vm, st, lost)
      BY <1>2, <2>3, AnyStack
    <2> QED
      BY <1>1, <2>1, <2>4 DEF IInv, Others
  <1>4. CASE ~(c < NumCogs)
    <2> DEFINE machines == [d \in Cogs |-> EarlierVm(vm[d])]
               alarms == [d \in Cogs |-> EarlierAlarm(alarm[d])]
    <2>1. cstack' = <<>> /\ vm' = machines /\ alarm' = alarms
      BY <1>4 DEF NextCog
    <2>2. \A d \in Cogs : MachineOK(machines[d]) /\ machines[d].running = vm[d].running
      BY <1>2, EarlierVmOk
    <2>3. machines \in [Cogs -> Machines]
      BY <1>2, EarlierVmOk DEF MachineOK
    <2>4. alarms \in [Cogs -> Alarms]
      BY <1>2, EarlierAlarmOk
    <2> HIDE DEF machines, alarms
    <2>5. <<>> \in Seq(Calls) /\ OnlyLoopsAbove(<<>>)
      BY DEF OnlyLoopsAbove
    <2>6. Sound(machines, <<>>, lost)
      BY <2>2, <2>3, <2>5, AnyStack
    <2> QED
      BY <1>1, <2>1, <2>4, <2>6 DEF IInv, Others
  <1> QED
    BY <1>3, <1>4

LEMMA NextTickDisabled == ASSUME IInv, NEW c \in Cogs, TickDisabled(c) PROVE IInv'
  BY AtTickOk, NextNextCog, Zenon DEF TickDisabled

LEMMA NextTickNext == ASSUME IInv, NEW c \in Cogs, TickNext(c) PROVE IInv'
  BY AtTickOk, NextNextCog, Zenon DEF TickNext

\* A stage of the tick that may send its cog a message.
LEMMA TickSends ==
    ASSUME IInv, NEW c \in Cogs, NEW m, NEW at \in {"timer", "wake"},
           \A d \in Cogs \ lost : vm[d].running \notin {RUNNING, NESTED},
           \/ Deliver(c, m, vm, <<Ticking(c, at)>>)
           \/ cstack' = <<Ticking(c, at)>> /\ UNCHANGED <<vm, lost>>
    PROVE  Sound(vm', cstack', lost') /\ lost' \subseteq Cogs
  <1> DEFINE st == <<Ticking(c, at)>>
  <1>1. st \in Seq(Calls) /\ OnlyLoopsAbove(st)
    BY TickingType
  <1>2. Deliver(c, m, vm, st) \/ (cstack' = st /\ UNCHANGED <<vm, lost>>)
    OBVIOUS
  <1> HIDE DEF st
  <1>3. Sound(vm, st, lost)
    BY <1>1, MachinesOfInv, AnyStack
  <1>4. CASE Deliver(c, m, vm, st)
    <2>1. \A d \in Cogs \ lost : vm[d].running # NESTED
      OBVIOUS
    <2> QED
      BY <1>3, <1>4, <2>1, MachinesOfInv, DeliverOk
  <1>5. CASE cstack' = st /\ UNCHANGED <<vm, lost>>
    BY <1>3, <1>5, MachinesOfInv
  <1> QED
    BY <1>2, <1>4, <1>5

LEMMA NextTickPulse == ASSUME IInv, NEW c \in Cogs, TickPulse(c) PROVE IInv'
  <1> DEFINE period == alarm[c].period
             a == [alarm[c] EXCEPT !.next = period]
  <1>1. AtTick(c, "pulse") /\ UNCHANGED <<script, disabled, moving, budget>>
    BY DEF TickPulse
  <1>2. /\ \A d \in Cogs \ lost : vm[d].running \notin {RUNNING, NESTED}
        /\ Stage(Ticking(c, "timer")) = <<Ticking(c, "timer")>>
    BY <1>1, AtTickOk
  <1>3. alarm \in [Cogs -> Alarms] /\ alarm[c] \in Alarms
    BY MachinesOfInv
  <1>4. /\ alarm' = [alarm EXCEPT ![c] = a] \/ alarm' = alarm
        /\ \/ Deliver(c, "pulse", vm, <<Ticking(c, "timer")>>)
           \/ cstack' = <<Ticking(c, "timer")>> /\ UNCHANGED <<vm, lost>>
    BY <1>2, <1>3 DEF TickPulse
  <1>5. period \in 0..MaxSleep
    BY <1>3 DEF Alarms
  <1> HIDE DEF period
  <1>6. a \in Alarms
    BY ONLY <1>3, <1>5 DEF Alarms
  <1> HIDE DEF a
  <1>7. alarm' \in [Cogs -> Alarms]
    BY <1>3, <1>4, <1>6
  <1>8. Sound(vm', cstack', lost') /\ lost' \subseteq Cogs
    BY <1>2, <1>4, TickSends
  <1> QED
    BY <1>1, <1>7, <1>8 DEF IInv, Others

LEMMA NextTickTimer == ASSUME IInv, NEW c \in Cogs, TickTimer(c) PROVE IInv'
  <1> DEFINE a == [alarm[c] EXCEPT !.timer = FALSE]
  <1>1. AtTick(c, "timer") /\ UNCHANGED <<script, disabled, moving, budget>>
    BY DEF TickTimer
  <1>2. /\ \A d \in Cogs \ lost : vm[d].running \notin {RUNNING, NESTED}
        /\ Stage(Ticking(c, "wake")) = <<Ticking(c, "wake")>>
    BY <1>1, AtTickOk
  <1>3. alarm \in [Cogs -> Alarms] /\ alarm[c] \in Alarms
    BY MachinesOfInv
  <1>4. /\ alarm' = [alarm EXCEPT ![c] = a] \/ alarm' = alarm
        /\ \/ Deliver(c, "timer", vm, <<Ticking(c, "wake")>>)
           \/ cstack' = <<Ticking(c, "wake")>> /\ UNCHANGED <<vm, lost>>
    BY <1>2, <1>3 DEF TickTimer
  <1>6. a \in Alarms
    BY ONLY <1>3 DEF Alarms
  <1> HIDE DEF a
  <1>7. alarm' \in [Cogs -> Alarms]
    BY <1>3, <1>4, <1>6
  <1>8. Sound(vm', cstack', lost') /\ lost' \subseteq Cogs
    BY <1>2, <1>4, TickSends
  <1> QED
    BY <1>1, <1>7, <1>8 DEF IInv, Others

\* A handler whose sleep is over goes on in a loop that Tick began.
LEMMA NextTickWake == ASSUME IInv, NEW c \in Cogs, TickWake(c) PROVE IInv'
  <1> DEFINE v == vm[c]
             w == Running(v)
             st == <<Ticking(c, "done")>>
             t == Append(st, Loop(c, "Tick"))
  <1>1. /\ AtTick(c, "wake") /\ vm' = [vm EXCEPT ![c] = w] /\ Due(v)
        /\ cstack' = Append(Stage(Ticking(c, "done")), Loop(c, "Tick"))
        /\ UNCHANGED <<script, alarm, disabled, moving, budget, lost>>
    BY MachinesOfInv DEF TickWake
  <1>2. /\ \A d \in Cogs \ lost : vm[d].running \notin {RUNNING, NESTED}
        /\ cstack' = t
    BY <1>1, AtTickOk
  <1>3. st \in Seq(Calls) /\ OnlyLoopsAbove(st)
    BY TickingType
  <1>4. Loop(c, "Tick") \in Calls
    BY DEF Loop, Calls
  <1> HIDE DEF st
  <1>5. t \in Seq(Calls) /\ OnlyLoopsAbove(t) /\ OneLoopMore(st, t, c, "Tick")
    BY <1>3, <1>4, PushLoop, Zenon
  <1> HIDE DEF t
  <1>6. v \in Machines /\ MachineOK(v) /\ vm \in [Cogs -> Machines]
        /\ \A d \in Cogs : MachineOK(vm[d])
    BY MachinesOfInv
  <1> HIDE DEF v
  <1>7. w \in Machines /\ w.running = RUNNING /\ w.calls = v.calls
    <2>1. -1 \in Times
      BY SithCogAssumption DEF Times
    <2> QED
      BY ONLY <1>6, <2>1 DEF Machines, Running
  <1>8. MachineOK(w)
    BY <1>6, <1>7 DEF MachineOK, WakeOK, RUNNING, IDLE, SLEEPING, WAITING
  <1> HIDE DEF w
  <1>9. vm' \in [Cogs -> Machines] /\ vm'[c] = w /\ \A d \in Cogs : d # c => vm'[d] = vm[d]
    BY <1>1, <1>6, <1>7
  <1>10. \A d \in Cogs : MachineOK(vm'[d])
    BY <1>6, <1>8, <1>9
  <1>11. Held(w, t, c)
    BY <1>5, <1>7 DEF Held, Room, OneLoopMore, RUNNING, NESTED
  <1>12. ASSUME NEW d \in Cogs \ lost PROVE Held(vm'[d], t, d)
    BY <1>2, <1>9, <1>11 DEF Held
  <1>13. Sound(vm', cstack', lost')
    BY <1>1, <1>2, <1>5, <1>9, <1>10, <1>12 DEF Sound
  <1> QED
    BY <1>1, <1>13 DEF IInv, Others

LEMMA NextTick == ASSUME IInv, NEW c \in Cogs, Tick(c) PROVE IInv'
  BY NextTickDisabled, NextTickPulse, NextTickTimer, NextTickWake, NextTickNext, Zenon DEF Tick

LEMMA NextOutside == ASSUME IInv, Outside PROVE budget' \in 0..MaxMessages
  BY SithCogAssumption DEF IInv, Others, Outside

LEMMA NextNotify == ASSUME IInv, Notify PROVE IInv'
  <1>1. Outside /\ UNCHANGED <<script, vm, alarm, disabled, moving, lost>>
    BY DEF Notify
  <1>2. PICK m \in Messages \ {"pulse"}, to \in Routes : cstack' = <<Sending(m, to)>>
    BY DEF Notify
  <1> DEFINE f == Sending(m, to)
  <1>3. f \in Calls
    BY SithCogAssumption DEF Sending, Calls
  <1> HIDE DEF f
  <1>4. <<f>> \in Seq(Calls) /\ OnlyLoopsAbove(<<f>>)
    BY <1>3, StackOfOne
  <1>5. \A d \in Cogs \ lost : vm[d].running \notin {RUNNING, NESTED}
    BY <1>1, Quiet DEF Outside
  <1>6. Sound(vm, <<f>>, lost)
    BY <1>4, <1>5, MachinesOfInv, AnyStack
  <1>7. Sound(vm', cstack', lost')
    BY <1>1, <1>2, <1>6 DEF f
  <1> QED
    BY <1>1, <1>7, NextOutside DEF IInv, Others

LEMMA NextCmdCogPause == ASSUME IInv, CmdCogPause PROVE IInv'
  <1>1. Outside /\ UNCHANGED <<script, vm, alarm, moving, cstack, lost>>
    BY DEF CmdCogPause
  <1>2. disabled' \subseteq Cogs
    BY DEF CmdCogPause, IInv, Others
  <1> QED
    BY <1>1, <1>2, NextOutside DEF IInv, Others

LEMMA SyncedVmOk ==
    ASSUME NEW v, MachineOK(v)
    PROVE  MachineOK(SyncedVm(v)) /\ SyncedVm(v).running = v.running
  <1> DEFINE none == <<>>
             w == SyncedVm(v)
  <1>1. none \in Seq(Frame) /\ none = <<>>
    OBVIOUS
  <1>2. v \in Machines /\ WakeOK(v)
    BY DEF MachineOK
  <1>3. w = IF v.running = IDLE THEN [running |-> IDLE, pc |-> 0, wake |-> -1,
                                      trig |-> NoMessage, calls |-> none]
            ELSE [v EXCEPT !.trig = NoMessage, !.calls = none]
    BY DEF SyncedVm, Idle
  <1>4. -1 \in Times
    BY SithCogAssumption DEF Times
  <1> HIDE DEF none, w
  <1>5. w \in Machines /\ w.calls = none /\ w.running = v.running
        /\ (w.running # IDLE => w.wake = v.wake)
    BY ONLY <1>1, <1>2, <1>3, <1>4 DEF Machines
  <1>6. MachineOK(w)
    BY <1>1, <1>2, <1>5, SithCogAssumption DEF MachineOK, WakeOK, IDLE, SLEEPING, WAITING
  <1> QED
    BY <1>5, <1>6 DEF w

LEMMA NextSaveAndLoad == ASSUME IInv, SaveAndLoad PROVE IInv'
  <1> DEFINE machines == [c \in Cogs |-> SyncedVm(vm[c])]
             gone == lost \cup {c \in Cogs : vm[c].calls # <<>>}
  <1>1. /\ Outside /\ vm' = machines /\ lost' = gone
        /\ UNCHANGED <<script, alarm, disabled, moving, cstack>>
    BY DEF SaveAndLoad
  <1>2. /\ \A d \in Cogs \ lost : vm[d].running \notin {RUNNING, NESTED}
        /\ cstack \in Seq(Calls) /\ OnlyLoopsAbove(cstack)
    BY <1>1, Quiet DEF IInv, Sound, Outside
  <1>3. \A d \in Cogs : MachineOK(machines[d]) /\ machines[d].running = vm[d].running
    BY SyncedVmOk, MachinesOfInv
  <1>4. machines \in [Cogs -> Machines]
    BY SyncedVmOk, MachinesOfInv DEF MachineOK
  <1>5. lost \subseteq gone /\ gone \subseteq Cogs
    BY MachinesOfInv
  <1> HIDE DEF machines, gone
  <1>6. Sound(machines, cstack, gone)
    BY <1>2, <1>3, <1>4, <1>5, AnyStack
  <1> QED
    BY <1>1, <1>5, <1>6, NextOutside DEF IInv, Others

LEMMA NextPath == ASSUME IInv, NEW t \in Paths, Arrive(t) \/ Depart(t) PROVE IInv'
  <1>1. /\ UNCHANGED <<script, vm, alarm, disabled, cstack, lost>>
        /\ moving' \subseteq Paths /\ budget' \in 0..MaxMessages
    BY NextOutside DEF Arrive, Depart, IInv, Others
  <1> QED
    BY <1>1 DEF IInv, Others

-------------------------------------------------------------------------------

LEMMA InitSound == Init => IInv
  <1> SUFFICES ASSUME Init PROVE IInv
    OBVIOUS
  <1> DEFINE none == <<>>
  <1>1. none \in Seq(Frame) /\ none = <<>> /\ none \in Seq(Calls) /\ OnlyLoopsAbove(none)
    BY DEF OnlyLoopsAbove
  <1>2. Idle = [running |-> IDLE, pc |-> 0, wake |-> -1, trig |-> NoMessage, calls |-> none]
    BY DEF Idle
  <1>3. -1 \in Times
    BY SithCogAssumption DEF Times
  <1> HIDE DEF none
  <1>4. Idle \in Machines /\ Idle.running = IDLE /\ Idle.calls = none
    BY ONLY <1>1, <1>2, <1>3 DEF Machines
  <1>5. MachineOK(Idle)
    BY <1>1, <1>4, SithCogAssumption DEF MachineOK, WakeOK, IDLE, SLEEPING, WAITING
  <1>6. vm \in [Cogs -> Machines] /\ \A c \in Cogs : vm[c] = Idle
    BY <1>4 DEF Init
  <1>7. Sound(vm, none, lost)
    <2>1. \A c \in Cogs \ lost : vm[c].running \notin {RUNNING, NESTED}
      BY <1>4, <1>6 DEF IDLE, RUNNING, NESTED
    <2>2. \A c \in Cogs : MachineOK(vm[c])
      BY <1>5, <1>6, Zenon
    <2> QED
      BY ONLY <1>1, <1>6, <2>1, <2>2, AnyStack
  <1>8. Silent \in Alarms
    BY SithCogAssumption DEF Silent, Alarms
  <1>9. Others
    BY <1>8, SithCogAssumption DEF Init, Others
  <1> QED
    BY <1>1, <1>7, <1>9 DEF Init, IInv

LEMMA NextSound == IInv /\ [Next]_vars => IInv'
  <1> SUFFICES ASSUME IInv, [Next]_vars PROVE IInv'
    OBVIOUS
  <1>1. CASE UNCHANGED vars
    BY <1>1 DEF vars, IInv, Others
  <1>2. CASE Inside
    BY <1>2, NextSendNext, NextExec, NextTick, Zenon DEF Inside
  <1>3. CASE TickAll \/ Notify \/ CmdCogPause \/ SaveAndLoad
    BY <1>3, NextTickAll, NextNotify, NextCmdCogPause, NextSaveAndLoad, Zenon
  <1>4. CASE \E t \in Paths : Arrive(t) \/ Depart(t)
    BY <1>4, NextPath, Zenon
  <1> QED
    BY <1>1, <1>2, <1>3, <1>4 DEF Next

\* The invariant that the theorems about the interpreter rest on holds for every level,
\* every number of cogs and every sequence of messages.
THEOREM InvariantHolds == Spec => []IInv
  BY InitSound, NextSound, PTL DEF Spec

\* Every variable keeps its type, and no cog ever uses more frames than it has: the fifth
\* call is refused (sithCogExec_Call).
THEOREM CogsTyped == Spec => []TypeOK
  <1>1. IInv => TypeOK
    <2> SUFFICES ASSUME IInv PROVE TypeOK
      OBVIOUS
    <2>1. \A c \in Cogs : Len(vm[c].calls) <= MaxFrames
      BY MachinesOfInv DEF MachineOK
    <2> QED
      BY <2>1, MachinesOfInv DEF IInv, Others, TypeOK
  <1> QED
    BY <1>1, InvariantHolds, PTL

\* A cog that claims to be running, or to be interrupted in a verb, has a loop of
\* sithCogExec_Exec on the C stack that will go on with it, unless it was lost.
THEOREM RunnersHaveLoops == Spec => []RunningHasLoop
  <1>1. IInv => RunningHasLoop
    <2> SUFFICES ASSUME IInv, NEW c \in Cogs \ lost, vm[c].running \in {RUNNING, NESTED}
                 PROVE  Loops(c) # {}
      BY DEF RunningHasLoop
    <2>1. cstack \in Seq(Calls) /\ Loops(c) = LoopsIn(cstack, c)
      BY MachinesOfInv DEF Loops, LoopsIn
    <2>2. CountLoops(cstack, c) \in Nat
      BY <2>1, LoopsFinite
    <2>3. CASE ByTick(cstack, c)
      BY <2>1, <2>3 DEF ByTick, LoopsIn, Loop
    <2>4. CASE ~ByTick(cstack, c)
      <3>1. Depth(vm[c].calls) \in Nat
        <4>1. vm[c].calls \in Seq(Frame)
          BY MachinesOfInv, MachineFields DEF MachineOK
        <4> QED
          BY <4>1, DepthFinite
      <3>2. CountLoops(cstack, c) > 0
        BY <2>2, <2>4, <3>1 DEF IInv, Sound, Held, Room
      <3> QED
        BY <2>1, <3>2, FS_EmptySet DEF CountLoops
    <2> QED
      BY <2>3, <2>4
  <1> QED
    BY <1>1, InvariantHolds, PTL

-------------------------------------------------------------------------------
(* The n-th element of a set of numbers *)

Upto(S, i) == {j \in S : j <= i}

LEMMA Smallest ==
    ASSUME NEW K \in SUBSET Nat, K # {}
    PROVE  \E k \in K : \A j \in K : k <= j
  <1>1. PICK k \in K : \A j \in K : ~(<<j, k>> \in OpToRel(<, Nat))
    BY WFMin, NatLessThanWellFounded
  <1>2. \A j \in K : j \in Nat /\ k \in Nat /\ ~(j < k)
    BY <1>1 DEF OpToRel
  <1> QED
    BY <1>2

LEMMA PartFinite ==
    ASSUME NEW m \in Nat, NEW S \in SUBSET (1..m)
    PROVE  IsFiniteSet(S) /\ Cardinality(S) \in Nat /\ \A j \in S : j \in 1..m /\ j \in Nat
  <1>1. IsFiniteSet(1..m)
    <2>1. 1 \in Int /\ m \in Int
      OBVIOUS
    <2> QED
      BY <2>1, FS_Interval, Zenon
  <1>2. IsFiniteSet(S) /\ Cardinality(S) \in Nat
    BY <1>1, FS_Subset, FS_CardinalityType, Zenon
  <1>3. \A j \in 1..m : j \in Nat
    OBVIOUS
  <1> QED
    BY <1>2, <1>3, Zenon

LEMMA UptoFinite ==
    ASSUME NEW m \in Nat, NEW S \in SUBSET (1..m), NEW i
    PROVE  /\ IsFiniteSet(Upto(S, i)) /\ Cardinality(Upto(S, i)) \in Nat
           /\ Cardinality(Upto(S, i)) <= Cardinality(S)
  <1>1. Upto(S, i) \in SUBSET S
    BY DEF Upto
  <1> QED
    BY <1>1, PartFinite, FS_Subset, FS_CardinalityType

\* Every number up to the size of S is the rank of an element.
LEMMA NthExists ==
    ASSUME NEW m \in Nat, NEW S \in SUBSET (1..m), NEW n \in 1..Cardinality(S)
    PROVE  \E i \in S : Cardinality(Upto(S, i)) = n
  <1>0. Cardinality(S) \in Nat /\ n \in Nat \ {0} /\ IsFiniteSet(S)
    BY PartFinite
  <1>11. \A j \in S : j \in Nat /\ 1 <= j /\ j <= m
    BY PartFinite
  <1> DEFINE T == {i \in 1..m : Cardinality(Upto(S, i)) >= n}
  <1>1. m \in T
    <2>1. Upto(S, m) = S
      BY <1>11 DEF Upto
    <2>2. m # 0
      <3>1. ASSUME m = 0 PROVE S = {}
        BY <1>11, <3>1
      <3>2. Cardinality(S) # 0
        BY <1>0
      <3> QED
        BY <1>0, <3>1, <3>2, FS_EmptySet
    <2>3. m \in 1..m
      BY <2>2
    <2> QED
      BY <1>0, <2>1, <2>3
  <1>2. PICK t \in T : \A j \in T : t <= j
    <2>1. T \in SUBSET Nat /\ T # {}
      BY <1>1
    <2> HIDE DEF T
    <2> QED
      BY <2>1, Smallest
  <1>3. t \in 1..m /\ Cardinality(Upto(S, t)) >= n
    OBVIOUS
  <1>4. Cardinality(Upto(S, t - 1)) < n
    <2>1. CASE t = 1
      <3>1. Upto(S, t - 1) = {}
        <4>1. \A j \in S : ~(j <= t - 1)
          BY <1>11, <2>1
        <4> QED
          BY <4>1, Zenon DEF Upto
      <3>2. Cardinality(Upto(S, t - 1)) = 0
        BY <3>1, FS_EmptySet, Zenon
      <3> QED
        BY <1>0, <3>2
    <2>2. CASE t # 1
      <3>1. t - 1 \in 1..m /\ t - 1 \notin T
        BY <1>2, <1>3, <2>2
      <3>2. Cardinality(Upto(S, t - 1)) \in Nat
        BY UptoFinite
      <3> QED
        BY <1>0, <3>1, <3>2
    <2> QED
      BY <2>1, <2>2
  <1> HIDE DEF T
  <1>5. IsFiniteSet(Upto(S, t - 1)) /\ Cardinality(Upto(S, t - 1)) \in Nat
        /\ Cardinality(Upto(S, t)) \in Nat
    BY UptoFinite
  <1>6. t \notin Upto(S, t - 1)
    BY <1>3 DEF Upto
  <1>7. t \in S
    <2>1. ASSUME t \notin S PROVE Upto(S, t) = Upto(S, t - 1)
      <3>1. \A j \in S : j <= t <=> j <= t - 1
        BY <1>3, <1>11, <2>1
      <3> QED
        BY <3>1, Zenon DEF Upto
    <2> QED
      BY <1>0, <1>3, <1>4, <1>5, <2>1
  <1>8. Upto(S, t) = Upto(S, t - 1) \cup {t}
    <2>1. \A j \in S : j <= t <=> (j <= t - 1 \/ j = t)
      BY <1>3, <1>11
    <2> QED
      BY <2>1, <1>7, Zenon DEF Upto
  <1>9. Cardinality(Upto(S, t)) = Cardinality(Upto(S, t - 1)) + 1
    BY <1>5, <1>6, <1>8, FS_AddElement, Zenon
  <1>10. Cardinality(Upto(S, t)) = n
    BY <1>0, <1>3, <1>4, <1>5, <1>9
  <1> QED
    BY <1>7, <1>10

\* And of one only.
LEMMA NthUnique ==
    ASSUME NEW m \in Nat, NEW S \in SUBSET (1..m), NEW i \in S, NEW j \in S,
           Cardinality(Upto(S, i)) = Cardinality(Upto(S, j))
    PROVE  i = j
  <1>0. \A k \in S : k \in Nat
    BY PartFinite
  <1>1. ASSUME NEW a \in S, NEW b \in S, a < b
        PROVE  Cardinality(Upto(S, a)) # Cardinality(Upto(S, b))
    <2>1. Upto(S, a) \in SUBSET Upto(S, b) /\ b \in Upto(S, b) /\ b \notin Upto(S, a)
      <3>1. (\A k \in S : k <= a => k <= b) /\ b <= b /\ ~(b <= a)
        BY <1>0, <1>1
      <3> QED
        BY <3>1, Zenon DEF Upto
    <2>2. IsFiniteSet(Upto(S, b))
      BY UptoFinite
    <2> QED
      BY <2>1, <2>2, FS_Subset
  <1> QED
    BY <1>0, <1>1

LEMMA NthOk ==
    ASSUME NEW m \in Nat, NEW S \in SUBSET (1..m), NEW n \in 1..Cardinality(S)
    PROVE  Nth(S, n) \in S /\ Cardinality(Upto(S, Nth(S, n))) = n
  <1>1. \E i \in S : Cardinality(Upto(S, i)) = n
    BY NthExists
  <1>2. Nth(S, n) = CHOOSE i \in S : Cardinality(Upto(S, i)) = n
    BY Zenon DEF Nth, Upto
  <1> QED
    BY <1>1, <1>2, Zenon

\* A new largest element is the last one, and the others keep their places.
LEMMA NthGrown ==
    ASSUME NEW m \in Nat, NEW S \in SUBSET (1..m), NEW T, T = S \cup {m + 1}
    PROVE  /\ Cardinality(T) = Cardinality(S) + 1 /\ Cardinality(S) \in Nat
           /\ \A n \in 1..Cardinality(S) : Nth(T, n) = Nth(S, n) /\ Nth(S, n) \in S
           /\ Nth(T, Cardinality(S) + 1) = m + 1
  <1>0. \A j \in S : j \in Nat /\ 1 <= j /\ j <= m
    BY PartFinite
  <1>1. m + 1 \notin S /\ T \in SUBSET (1 .. m + 1) /\ m + 1 \in Nat
    BY <1>0
  <1>2. IsFiniteSet(S) /\ Cardinality(S) \in Nat
    BY PartFinite
  <1>3. Cardinality(T) = Cardinality(S) + 1
    BY <1>1, <1>2, FS_AddElement
  <1>4. ASSUME NEW i \in S PROVE Upto(T, i) = Upto(S, i)
    <2>1. ~(m + 1 <= i)
      BY <1>0
    <2> QED
      BY <2>1, Zenon DEF Upto
  <1>5. Upto(T, m + 1) = T
    <2>1. \A j \in T : j <= m + 1
      BY <1>0
    <2> QED
      BY <2>1, Zenon DEF Upto
  <1>6. ASSUME NEW n \in 1..Cardinality(S)
        PROVE  Nth(T, n) = Nth(S, n) /\ Nth(S, n) \in S
    <2>1. n \in 1..Cardinality(T) /\ n # Cardinality(T)
      BY <1>2, <1>3
    <2>2. Nth(T, n) \in T /\ Cardinality(Upto(T, Nth(T, n))) = n
      BY <1>1, <2>1, NthOk
    <2>3. Nth(S, n) \in S /\ Cardinality(Upto(S, Nth(S, n))) = n
      BY NthOk
    <2>4. Nth(T, n) # m + 1
      BY <1>5, <2>1, <2>2
    <2>5. Nth(T, n) \in S
      BY <2>2, <2>4
    <2> QED
      BY <1>4, <2>2, <2>3, <2>5, NthUnique
  <1>7. Nth(T, Cardinality(S) + 1) = m + 1
    <2> DEFINE n == Cardinality(S) + 1
    <2>1. n \in 1..Cardinality(T)
      BY <1>2, <1>3
    <2>2. Nth(T, n) \in T /\ Cardinality(Upto(T, Nth(T, n))) = n
      BY <1>1, <2>1, NthOk
    <2>3. ASSUME Nth(T, n) \in S PROVE FALSE
      <3>1. Upto(T, Nth(T, n)) = Upto(S, Nth(T, n))
        BY <1>4, <2>3
      <3>2. Cardinality(Upto(S, Nth(T, n))) <= Cardinality(S)
            /\ Cardinality(Upto(S, Nth(T, n))) \in Nat
        BY UptoFinite
      <3> QED
        BY <1>2, <2>2, <3>1, <3>2
    <2> QED
      BY <2>2, <2>3
  <1> QED
    BY <1>2, <1>3, <1>6, <1>7

-------------------------------------------------------------------------------
(* The handlers that a machine and its frames stand for *)

\* Whatever handlers are made of.
Kinds == {HandlerIn(f) : f \in Frame \cup Machines}

LEMMA BegunOk ==
    ASSUME NEW calls \in Seq(Frame)
    PROVE  Begun(calls) \in SUBSET (1 .. Len(calls)) /\ Len(calls) \in Nat
           /\ DOMAIN calls = 1 .. Len(calls)
  BY DEF Begun

LEMMA KeptOk ==
    ASSUME NEW calls \in Seq(Frame)
    PROVE  /\ Kept(calls) \in Seq(Kinds) /\ Len(Kept(calls)) = Cardinality(Begun(calls))
           /\ DOMAIN Kept(calls) = 1 .. Cardinality(Begun(calls))
           /\ \A n \in 1 .. Cardinality(Begun(calls)) :
                 /\ Nth(Begun(calls), n) \in DOMAIN calls
                 /\ Kept(calls)[n] = HandlerIn(calls[Nth(Begun(calls), n)])
  <1> DEFINE S == Begun(calls)
             k == Cardinality(S)
             h(n) == HandlerIn(calls[Nth(S, n)])
  <1>1. S \in SUBSET (1 .. Len(calls)) /\ Len(calls) \in Nat /\ DOMAIN calls = 1 .. Len(calls)
    BY BegunOk
  <1>2. k \in Nat
    BY <1>1, PartFinite
  <1>3. ASSUME NEW n \in 1 .. k PROVE Nth(S, n) \in DOMAIN calls /\ h(n) \in Kinds
    <2>1. Nth(S, n) \in S
      BY <1>1, NthOk
    <2>2. calls[Nth(S, n)] \in Frame
      BY <1>1, <2>1
    <2> QED
      BY <1>1, <2>1, <2>2 DEF Kinds
  <1>4. Kept(calls) = [n \in 1 .. k |-> h(n)]
    BY DEF Kept
  <1> HIDE DEF k, h
  <1>5. Kept(calls) \in [1 .. k -> Kinds]
    BY <1>3, <1>4
  <1>6. Kept(calls) \in Seq(Kinds) /\ Len(Kept(calls)) = k /\ DOMAIN Kept(calls) = 1 .. k
    BY <1>2, <1>5
  <1>7. \A n \in 1 .. k : Kept(calls)[n] = h(n)
    BY <1>4
  <1> QED
    BY <1>3, <1>6, <1>7 DEF k, h, S

LEMMA SeqEqual ==
    ASSUME NEW S, NEW a \in Seq(S), NEW b \in Seq(S), Len(a) = Len(b),
           \A i \in 1 .. Len(a) : a[i] = b[i]
    PROVE  a = b
  OBVIOUS

\* A frame that a message pushed is one handler more, one of a CALL is none.
LEMMA KeptPushed ==
    ASSUME NEW calls \in Seq(Frame), NEW f \in Frame
    PROVE  Kept(Append(calls, f)) =
           IF f.running = RUNNING THEN Kept(calls) ELSE Append(Kept(calls), HandlerIn(f))
  <1> DEFINE t == Append(calls, f)
             m == Len(calls)
             S == Begun(calls)
             T == Begun(t)
             k == Cardinality(S)
  <1>1. /\ t \in Seq(Frame) /\ DOMAIN t = DOMAIN calls \cup {m + 1} /\ m + 1 \notin DOMAIN calls
        /\ t[m + 1] = f /\ (\A i \in DOMAIN calls : t[i] = calls[i])
        /\ DOMAIN calls = 1 .. m /\ m \in Nat
    BY Pushed
  <1>2. S \in SUBSET (1 .. m)
    BY BegunOk
  <1> HIDE DEF t, m
  <1>3. CASE f.running = RUNNING
    <2>1. T = S
      BY <1>1, <1>3 DEF Begun
    <2>2. \A n \in 1 .. k : Nth(S, n) \in DOMAIN calls
      BY KeptOk
    <2>3. \A n \in 1 .. k : HandlerIn(t[Nth(S, n)]) = HandlerIn(calls[Nth(S, n)])
      BY <1>1, <2>2
    <2>4. Kept(t) = [n \in 1 .. k |-> HandlerIn(t[Nth(S, n)])]
      BY <2>1 DEF Kept
    <2>5. Kept(calls) = [n \in 1 .. k |-> HandlerIn(calls[Nth(S, n)])]
      BY DEF Kept
    <2> HIDE DEF S, T, k
    <2>6. Kept(t) = Kept(calls)
      BY <2>3, <2>4, <2>5
    <2> QED
      BY <1>3, <2>6 DEF t
  <1>4. CASE f.running # RUNNING
    <2>1. T = S \cup {m + 1}
      BY <1>1, <1>4 DEF Begun
    <2>2. /\ Cardinality(T) = k + 1 /\ k \in Nat
          /\ \A n \in 1 .. k : Nth(T, n) = Nth(S, n) /\ Nth(S, n) \in S
          /\ Nth(T, k + 1) = m + 1
      BY <1>1, <1>2, <2>1, NthGrown
    <2>3. /\ Kept(t) \in Seq(Kinds) /\ Len(Kept(t)) = k + 1
          /\ \A n \in 1 .. k + 1 : Kept(t)[n] = HandlerIn(t[Nth(T, n)])
      BY <1>1, <2>2, KeptOk
    <2>4. /\ Kept(calls) \in Seq(Kinds) /\ Len(Kept(calls)) = k
          /\ \A n \in 1 .. k : Kept(calls)[n] = HandlerIn(calls[Nth(S, n)])
      BY KeptOk
    <2>5. \A n \in 1 .. k : Kept(t)[n] = Kept(calls)[n]
      <3> TAKE n \in 1 .. k
      <3>1. n \in 1 .. k + 1 /\ Nth(T, n) = Nth(S, n) /\ Nth(S, n) \in DOMAIN calls
        BY <1>1, <1>2, <2>2
      <3> QED
        BY <1>1, <2>3, <2>4, <3>1
    <2>6. k + 1 \in 1 .. k + 1
      BY <2>2
    <2>7. Kept(t)[k + 1] = HandlerIn(f)
      BY <1>1, <2>2, <2>3, <2>6
    <2>8. HandlerIn(f) \in Kinds
      BY DEF Kinds
    <2> DEFINE a == Kept(t)
               b == Kept(calls)
               x == HandlerIn(f)
    <2>9. /\ a \in Seq(Kinds) /\ Len(a) = k + 1 /\ b \in Seq(Kinds) /\ Len(b) = k /\ x \in Kinds
          /\ (\A n \in 1 .. k : a[n] = b[n]) /\ a[k + 1] = x /\ k \in Nat
      BY <2>2, <2>3, <2>4, <2>5, <2>7, <2>8
    <2> HIDE DEF a, b, x, k
    <2>10. a = Append(b, x)
      BY <2>9
    <2> QED
      BY <1>4, <2>10, Zenon DEF a, b, x, t
  <1> QED
    BY <1>3, <1>4

LEMMA KeptNone == Kept(<<>>) = <<>>
  <1>1. <<>> \in Seq(Frame) /\ Begun(<<>>) = {}
    BY DEF Begun
  <1>2. Cardinality(Begun(<<>>)) = 0
    BY <1>1, FS_EmptySet
  <1>3. Kept(<<>>) \in Seq(Kinds) /\ Len(Kept(<<>>)) = 0
    BY <1>1, <1>2, KeptOk
  <1> QED
    BY <1>3

LEMMA HandlersShape ==
    ASSUME NEW v \in Machines
    PROVE  /\ HandlersOf(v) \in Seq(Kinds) /\ HandlerIn(v) \in Kinds
           /\ v.running = IDLE => HandlersOf(v) = <<>>
           /\ v.running # IDLE => HandlersOf(v) = Append(Kept(v.calls), HandlerIn(v))
           /\ Kept(v.calls) \in Seq(Kinds)
  <1>1. Kept(v.calls) \in Seq(Kinds) /\ HandlerIn(v) \in Kinds
    BY MachineFields, KeptOk DEF Kinds
  <1> DEFINE b == Kept(v.calls)
             x == HandlerIn(v)
  <1>2. HandlersOf(v) = IF v.running = IDLE THEN <<>> ELSE Append(b, x)
    BY DEF HandlersOf
  <1> HIDE DEF b, x
  <1>3. b \in Seq(Kinds) /\ x \in Kinds
    BY <1>1 DEF b, x
  <1>4. HandlersOf(v) \in Seq(Kinds)
    BY <1>2, <1>3
  <1> QED
    BY <1>1, <1>2, <1>4 DEF b, x

\* A stack of handlers, without its top.
LEMMA TopOf ==
    ASSUME NEW S, NEW s \in Seq(S), NEW x \in S
    PROVE  /\ Front(Append(s, x)) = s /\ Last(Append(s, x)) = x /\ Append(s, x) # <<>>
           /\ Append(s, x) \in Seq(S) /\ Len(Append(s, x)) = Len(s) + 1 /\ Len(s) \in Nat
  <1> DEFINE t == Append(s, x)
  <1>1. /\ t \in Seq(S) /\ t # <<>> /\ Len(t) = Len(s) + 1 /\ Len(s) \in Nat
        /\ t[Len(s) + 1] = x /\ \A i \in 1 .. Len(s) : t[i] = s[i]
    OBVIOUS
  <1> HIDE DEF t
  <1>2. /\ Front(t) \in Seq(S) /\ Len(Front(t)) = Len(t) - 1
        /\ (\A i \in 1 .. Len(t) - 1 : Front(t)[i] = t[i]) /\ Last(t) = t[Len(t)]
    BY <1>1, FrontOf
  <1>3. Len(Front(t)) = Len(s) /\ \A i \in 1 .. Len(Front(t)) : Front(t)[i] = s[i]
    BY <1>1, <1>2
  <1>4. Front(t) = s
    BY <1>2, <1>3, SeqEqual
  <1>5. Last(t) = x
    BY <1>1, <1>2
  <1> QED
    BY <1>1, <1>4, <1>5 DEF t

\* A frame of a CALL belongs to the handler of the frame above it, or of the machine.
TrigAbove(v, i) == IF i = Len(v.calls) THEN v.trig ELSE v.calls[i + 1].trig
Chained(v) ==
    \A i \in DOMAIN v.calls : v.calls[i].running = RUNNING => v.calls[i].trig = TrigAbove(v, i)
ChainInv == \A c \in Cogs \ lost : Chained(vm[c])

LEMMA ChainSame ==
    ASSUME NEW v, Chained(v), NEW w, w.calls = v.calls, w.trig = v.trig
    PROVE  Chained(w)
  BY DEF Chained, TrigAbove

LEMMA ChainNone ==
    ASSUME NEW w, w.calls = <<>>
    PROVE  Chained(w)
  BY DEF Chained

LEMMA ChainPushed ==
    ASSUME NEW v, v.calls \in Seq(Frame), Chained(v), NEW f \in Frame, f.trig = v.trig,
           NEW w, w.calls = Append(v.calls, f), f.running = RUNNING => w.trig = v.trig
    PROVE  Chained(w)
  <1> DEFINE calls == v.calls
             m == Len(calls)
             t == Append(calls, f)
  <1>1. /\ DOMAIN t = DOMAIN calls \cup {m + 1} /\ m + 1 \notin DOMAIN calls
        /\ t[m + 1] = f /\ (\A i \in DOMAIN calls : t[i] = calls[i])
        /\ DOMAIN calls = 1 .. m /\ m \in Nat /\ Len(t) = m + 1
    BY Pushed
  <1>2. w.calls = t
    OBVIOUS
  <1> HIDE DEF t
  <1>3. ASSUME NEW i \in DOMAIN calls, calls[i].running = RUNNING
        PROVE  t[i].trig = TrigAbove(w, i)
    <2>1. calls[i].trig = IF i = m THEN v.trig ELSE calls[i + 1].trig
      BY <1>3 DEF Chained, TrigAbove
    <2>2. i # m => i + 1 \in DOMAIN calls
      BY <1>1
    <2>3. TrigAbove(w, i) = t[i + 1].trig
      BY <1>1, <1>2 DEF TrigAbove
    <2>4. CASE i = m
      BY <1>1, <2>1, <2>3, <2>4
    <2>5. CASE i # m
      BY <1>1, <2>1, <2>2, <2>3, <2>5
    <2> QED
      BY <2>4, <2>5
  <1>4. ASSUME f.running = RUNNING PROVE t[m + 1].trig = TrigAbove(w, m + 1)
    BY <1>1, <1>2, <1>4 DEF TrigAbove
  <1> QED
    BY <1>1, <1>2, <1>3, <1>4 DEF Chained

LEMMA ChainPopped ==
    ASSUME NEW v, NEW calls \in Seq(Frame), NEW f \in Frame, v.calls = Append(calls, f),
           Chained(v), NEW w, w.calls = calls, w.trig = f.trig
    PROVE  Chained(w) /\ (f.running = RUNNING => f.trig = v.trig)
  <1> DEFINE m == Len(calls)
             t == Append(calls, f)
  <1>1. /\ DOMAIN t = DOMAIN calls \cup {m + 1} /\ m + 1 \notin DOMAIN calls
        /\ t[m + 1] = f /\ (\A i \in DOMAIN calls : t[i] = calls[i])
        /\ DOMAIN calls = 1 .. m /\ m \in Nat /\ Len(t) = m + 1
    BY Pushed
  <1>2. v.calls = t
    OBVIOUS
  <1> HIDE DEF t
  <1>3. ASSUME NEW i \in DOMAIN calls, calls[i].running = RUNNING
        PROVE  calls[i].trig = TrigAbove(w, i)
    <2>1. t[i].trig = t[i + 1].trig
      BY <1>1, <1>2, <1>3 DEF Chained, TrigAbove
    <2>2. i # m => i + 1 \in DOMAIN calls
      BY <1>1
    <2>3. CASE i = m
      BY <1>1, <2>1, <2>3 DEF TrigAbove
    <2>4. CASE i # m
      BY <1>1, <2>1, <2>2, <2>4 DEF TrigAbove
    <2> QED
      BY <2>3, <2>4
  <1>4. ASSUME f.running = RUNNING PROVE f.trig = v.trig
    BY <1>1, <1>2, <1>4 DEF Chained, TrigAbove
  <1> QED
    BY <1>3, <1>4 DEF Chained

-------------------------------------------------------------------------------
(* What the operations on one machine do to its handlers *)

LEMMA HandlersSame ==
    ASSUME NEW v, NEW w, w.calls = v.calls, w.trig = v.trig,
           v.running # IDLE, w.running # IDLE,
           Doing(w.running, w.wake) = Doing(v.running, v.wake)
    PROVE  HandlersOf(w) = HandlersOf(v)
  BY DEF HandlersOf, HandlerIn

\* Only the top changes when a handler stops or goes on.
LEMMA HandlersTop ==
    ASSUME NEW v \in Machines, NEW w \in Machines, w.calls = v.calls, w.trig = v.trig,
           v.running # IDLE, w.running # IDLE
    PROVE  /\ HandlersOf(v) # <<>> /\ Last(HandlersOf(v)).on = Doing(v.running, v.wake)
           /\ HandlersOf(w) = Append(Front(HandlersOf(v)),
                 [Last(HandlersOf(v)) EXCEPT !.on = Doing(w.running, w.wake)])
  <1> DEFINE kept == Kept(v.calls)
             x == HandlerIn(v)
             y == HandlerIn(w)
  <1>1. HandlersOf(v) = Append(kept, x) /\ HandlersOf(w) = Append(kept, y)
        /\ kept \in Seq(Kinds) /\ x \in Kinds
    BY HandlersShape
  <1>2. x.on = Doing(v.running, v.wake) /\ y = [x EXCEPT !.on = Doing(w.running, w.wake)]
    BY DEF HandlerIn
  <1> HIDE DEF kept, x, y
  <1>3. Front(Append(kept, x)) = kept /\ Last(Append(kept, x)) = x /\ Append(kept, x) # <<>>
    BY <1>1, TopOf
  <1> QED
    BY <1>1, <1>2, <1>3, Zenon

\* A message puts a handler on top and leaves the others as they were.
LEMMA HandlersEntered ==
    ASSUME NEW c \in Cogs, NEW v, MachineOK(v), Chained(v), NEW m \in Messages,
           script[c].trig[m] \in Nat, v.running = IDLE \/ ~Full(v), v.running # NESTED
    PROVE  /\ Chained(Entered(c, v, m))
           /\ HandlersOf(Entered(c, v, m)) =
                 Append(HandlersOf(v), [msg |-> m, on |-> Promised!Runs])
  <1> DEFINE u == IF v.running = RUNNING THEN [v EXCEPT !.running = NESTED] ELSE v
             i == Interrupted(v)
             e == Entered(c, v, m)
  <1>1. v \in Machines /\ v.calls \in Seq(Frame)
        /\ v.running \in {IDLE, RUNNING, SLEEPING, WAITING, NESTED}
        /\ (v.running = IDLE => v.calls = <<>>)
    BY MachineFields DEF MachineOK
  <1>2. u \in Machines /\ u.calls = v.calls /\ u.wake = v.wake /\ u.trig = v.trig
        /\ u.running = IF v.running = RUNNING THEN NESTED ELSE v.running
    BY ONLY <1>1 DEF Machines
  <1>3. i = IF v.running = IDLE THEN v ELSE Called(u)
    BY DEF Interrupted
  <1>4. Full(u) <=> Full(v)
    BY <1>2 DEF Full
  <1> HIDE DEF u
  <1>5. e = Running([i EXCEPT !.pc = script[c].trig[m], !.trig = m])
    BY DEF Entered
  <1>6. MachineOK(e) /\ e.running = RUNNING
    BY EnteredOk
  <1>7. i \in Machines /\ (v.running # IDLE => i.calls = Append(v.calls, FrameOf(u)))
    <2>1. CASE v.running = IDLE
      BY <2>1, <1>1, <1>3
    <2>2. CASE v.running # IDLE
      <3>1. u.running # IDLE /\ MachineOK(u)
        BY <2>2, <1>1, <1>2
           DEF IDLE, NESTED, RUNNING, MachineOK, WakeOK, SLEEPING, WAITING
      <3>2. MachineOK(i) /\ i.calls = Append(v.calls, FrameOf(u))
        BY <2>2, <3>1, <1>2, <1>3, <1>4, CalledOk
      <3> QED
        BY <3>2 DEF MachineOK
    <2> QED
      BY <2>1, <2>2
  <1> HIDE DEF i, e
  <1>8. e.trig = m /\ e.calls = i.calls /\ e \in Machines
    <2> DEFINE pc == script[c].trig[m]
               j == [i EXCEPT !.pc = pc, !.trig = m]
    <2>1. j.trig = m /\ j.calls = i.calls
      BY ONLY <1>7 DEF Machines
    <2>2. e = [j EXCEPT !.running = RUNNING, !.wake = -1]
      BY <1>5 DEF Running
    <2>5. pc \in Nat /\ m \in Messages
      OBVIOUS
    <2> HIDE DEF pc
    <2>3. j \in Machines
      BY ONLY <1>7, <2>5 DEF Machines
    <2> HIDE DEF j
    <2>4. e.trig = m /\ e.calls = i.calls
      BY ONLY <2>1, <2>2, <2>3 DEF Machines
    <2> QED
      BY <1>6, <2>4 DEF MachineOK
  <1>9. HandlerIn(e) = [msg |-> m, on |-> Promised!Runs]
    <2>1. Doing(RUNNING, e.wake) = <<"runs">>
      BY DEF Doing, RUNNING, SLEEPING, WAITING
    <2> QED
      BY <1>6, <1>8, <2>1 DEF HandlerIn, Promised!Runs
  <1>10. HandlersOf(e) = Append(Kept(e.calls), HandlerIn(e))
    BY <1>6, <1>8, HandlersShape DEF IDLE, RUNNING
  <1>11. CASE v.running = IDLE
    <2>1. e.calls = <<>>
      BY <1>1, <1>3, <1>8, <1>11
    <2>2. Chained(e)
      BY <2>1, ChainNone
    <2>3. HandlersOf(v) = <<>>
      BY <1>11 DEF HandlersOf
    <2>4. Kept(e.calls) = <<>>
      BY <2>1, KeptNone
    <2> QED
      BY <1>9, <1>10, <2>2, <2>3, <2>4 DEF e
  <1>12. CASE v.running # IDLE
    <2> DEFINE f == FrameOf(u)
    <2>1. u.running # IDLE
      BY <1>2, <1>12 DEF IDLE, NESTED
    <2>2. f \in Frame /\ f.running = u.running /\ f.trig = v.trig /\ HandlerIn(f) = HandlerIn(u)
      BY <1>2, <2>1, FrameOfOk DEF FrameOf, HandlerIn
    <2>3. f.running # RUNNING
      BY <1>2, <2>2 DEF RUNNING, NESTED
    <2> HIDE DEF f
    <2>4. e.calls = Append(v.calls, f)
      BY <1>7, <1>8, <1>12 DEF f
    <2>5. Chained(e)
      BY <1>1, <2>2, <2>3, <2>4, ChainPushed
    <2>6. Kept(e.calls) = Append(Kept(v.calls), HandlerIn(f))
      BY <1>1, <2>2, <2>3, <2>4, KeptPushed
    <2>7. HandlerIn(u) = HandlerIn(v)
      <3>1. Doing(u.running, u.wake) = Doing(v.running, v.wake)
        BY <1>1, <1>2 DEF Doing, RUNNING, SLEEPING, WAITING, NESTED
      <3> QED
        BY <1>2, <3>1 DEF HandlerIn
    <2>8. HandlersOf(v) = Append(Kept(v.calls), HandlerIn(v))
      BY <1>1, <1>12, HandlersShape
    <2> QED
      BY <1>9, <1>10, <2>2, <2>5, <2>6, <2>7, <2>8, Zenon DEF e
  <1> QED
    BY <1>11, <1>12

\* CALL is no matter of the handlers.
LEMMA HandlersCalled ==
    ASSUME NEW v, MachineOK(v), Chained(v), v.running = RUNNING, ~Full(v), NEW w \in Machines,
           w.running = RUNNING, w.trig = v.trig, w.calls = Append(v.calls, FrameOf(v))
    PROVE  Chained(w) /\ HandlersOf(w) = HandlersOf(v)
  <1> DEFINE f == FrameOf(v)
  <1>1. v \in Machines /\ v.calls \in Seq(Frame) /\ v.running # IDLE /\ w.running # IDLE
    BY MachineFields DEF MachineOK, RUNNING, IDLE
  <1>2. f \in Frame /\ f.running = RUNNING /\ f.trig = v.trig
    BY <1>1, FrameOfOk DEF FrameOf
  <1> HIDE DEF f
  <1>3. w.calls = Append(v.calls, f)
    BY DEF f
  <1>4. Chained(w)
    BY <1>1, <1>2, <1>3, ChainPushed
  <1>5. Kept(w.calls) = Kept(v.calls)
    BY <1>1, <1>2, <1>3, KeptPushed
  <1>6. HandlerIn(w) = HandlerIn(v)
    BY DEF HandlerIn, Doing, RUNNING, SLEEPING, WAITING
  <1> QED
    BY <1>1, <1>4, <1>5, <1>6, HandlersShape, Zenon

\* RET ends the handler on top, or only a subroutine of it.
LEMMA HandlersReturned ==
    ASSUME NEW v, MachineOK(v), Chained(v), v.running = RUNNING
    PROVE  /\ Chained(Returned(v))
           /\ HandlersOf(v) # <<>> /\ Last(HandlersOf(v)).on = Promised!Runs
           /\ \/ HandlersOf(Returned(v)) = HandlersOf(v)
              \/ HandlersOf(Returned(v)) = Front(HandlersOf(v))
  <1> DEFINE kept == Kept(v.calls)
             x == HandlerIn(v)
  <1>1. v \in Machines /\ v.calls \in Seq(Frame) /\ v.running # IDLE
        /\ MachineOK(Returned(v)) /\ Returned(v) \in Machines
    BY MachineFields, ReturnedOk DEF MachineOK, RUNNING, IDLE
  <1>2. HandlersOf(v) = Append(kept, x) /\ kept \in Seq(Kinds) /\ x \in Kinds
        /\ x.on = Promised!Runs
    <2>1. x.on = <<"runs">>
      BY DEF HandlerIn, Doing, RUNNING, SLEEPING, WAITING
    <2> QED
      BY <1>1, <2>1, HandlersShape, Zenon DEF Promised!Runs
  <1>3. Front(HandlersOf(v)) = kept /\ Last(HandlersOf(v)) = x /\ HandlersOf(v) # <<>>
    <2> HIDE DEF kept, x
    <2> QED
      BY <1>2, TopOf
  <1>4. CASE v.calls = <<>>
    <2> DEFINE w == Returned(v)
    <2>1. w = [v EXCEPT !.running = IDLE]
      BY <1>4 DEF Returned
    <2>2. w.running = IDLE /\ w.calls = v.calls
      BY ONLY <1>1, <2>1 DEF Machines
    <2> HIDE DEF w
    <2>3. HandlersOf(w) = <<>>
      BY <2>2 DEF HandlersOf
    <2>4. kept = <<>>
      BY <1>4, KeptNone
    <2>5. Chained(w)
      BY <1>4, <2>2, ChainNone
    <2> QED
      BY <1>2, <1>3, <2>3, <2>4, <2>5 DEF w
  <1>5. CASE v.calls # <<>>
    <2> DEFINE f == Last(v.calls)
               calls == Front(v.calls)
               w == Returned(v)
    <2>1. w = [running |-> f.running, pc |-> f.pc, wake |-> f.wake, trig |-> f.trig,
               calls |-> calls]
      BY <1>5 DEF Returned
    <2>2. calls \in Seq(Frame) /\ f \in Frame /\ v.calls = Append(calls, f)
      BY <1>1, <1>5, FrontOf
    <2> HIDE DEF f, calls, w
    <2>3. w.running = f.running /\ w.wake = f.wake /\ w.trig = f.trig /\ w.calls = calls
      BY <2>1
    <2>4. Chained(w) /\ (f.running = RUNNING => f.trig = v.trig)
      BY <2>2, <2>3, ChainPopped
    <2>5. w.running # IDLE
      BY <2>2, <2>3 DEF Frame, IDLE, RUNNING, SLEEPING, WAITING, NESTED
    <2>6. HandlersOf(w) = Append(Kept(calls), HandlerIn(w))
      BY <1>1, <2>3, <2>5, HandlersShape DEF w
    <2>7. kept = IF f.running = RUNNING THEN Kept(calls) ELSE Append(Kept(calls), HandlerIn(f))
      BY <2>2, KeptPushed
    <2>8. HandlerIn(w) = HandlerIn(f)
      BY <2>3 DEF HandlerIn
    <2>9. CASE f.running = RUNNING
      <3>1. HandlerIn(w) = x
        BY <2>3, <2>4, <2>9 DEF HandlerIn, Doing, RUNNING, SLEEPING, WAITING
      <3> QED
        BY <1>2, <1>3, <2>4, <2>6, <2>7, <2>9, <3>1, Zenon DEF w
    <2>10. CASE f.running # RUNNING
      BY <1>2, <1>3, <2>4, <2>6, <2>7, <2>8, <2>10, Zenon DEF w
    <2> QED
      BY <2>9, <2>10
  <1> QED
    BY <1>4, <1>5

\* Time passes for every handler that sleeps.
LEMMA EarlierHandler ==
    ASSUME NEW f, NEW g, WakeOK(f), Later(f, g)
    PROVE  HandlerIn(g) = [HandlerIn(f) EXCEPT !.on = Promised!Shortened(@)]
  <1> DEFINE on == Doing(f.running, f.wake)
  <1>1. HandlerIn(g) = [HandlerIn(f) EXCEPT !.on = Doing(g.running, g.wake)]
        /\ HandlerIn(f).on = on
    BY DEF HandlerIn, Later
  <1>2. Doing(g.running, g.wake) = Promised!Shortened(on)
    <2>1. CASE f.running = SLEEPING
      <3>1. f.wake \in Times /\ on = <<"sleeps", f.wake>> /\ f.wake \in Int
        BY <2>1, SithCogAssumption DEF WakeOK, Doing, Times, SLEEPING, WAITING
      <3>2. on \in Promised!Sleeps /\ on[2] = f.wake
        BY <3>1 DEF Promised!Sleeps, Times
      <3>3. Doing(g.running, g.wake) = <<"sleeps", Sooner(f.wake)>>
        BY <2>1 DEF Doing, Later, SLEEPING, WAITING
      <3>4. Sooner(f.wake) = IF f.wake >= 0 THEN f.wake - 1 ELSE f.wake
        BY <3>1 DEF Sooner
      <3>5. Promised!Shortened(on) =
               IF f.wake >= 0 THEN <<"sleeps", f.wake - 1>> ELSE <<"sleeps", f.wake>>
        BY <3>1, <3>2, Zenon DEF Promised!Shortened
      <3> QED
        BY <3>3, <3>4, <3>5
    <2>2. CASE f.running # SLEEPING
      <3>1. Doing(g.running, g.wake) = on
        BY <2>2 DEF Doing, Later
      <3>2. on \notin Promised!Sleeps
        <4>1. on = <<"waits", f.wake>> \/ on = <<"runs">>
          BY <2>2 DEF Doing
        <4>2. \A n : <<"sleeps", n>> # <<"waits", f.wake>> /\ <<"sleeps", n>> # <<"runs">>
          OBVIOUS
        <4> QED
          BY <4>1, <4>2 DEF Promised!Sleeps
      <3> QED
        BY <3>1, <3>2 DEF Promised!Shortened
    <2> QED
      BY <2>1, <2>2
  <1> QED
    BY <1>1, <1>2, Zenon

-------------------------------------------------------------------------------
(* CogHandlers, seen from here *)

\* What CogHandlers calls pending.
Pending == [c \in Cogs |-> IF c \in lost THEN <<>> ELSE HandlersOf(vm[c])]
Keeps == [Promised!Next]_(Promised!vars)

LEMMA PendingSeqs ==
    ASSUME vm \in [Cogs -> Machines], NEW c \in Cogs
    PROVE  /\ Pending[c] \in Seq(Kinds)
           /\ Pending[c] = IF c \in lost THEN <<>> ELSE HandlersOf(vm[c])
  <1>1. vm[c] \in Machines
    OBVIOUS
  <1>2. HandlersOf(vm[c]) \in Seq(Kinds)
    BY <1>1, HandlersShape
  <1>3. Pending[c] = IF c \in lost THEN <<>> ELSE HandlersOf(vm[c])
    BY DEF Pending
  <1>4. <<>> \in Seq(Kinds)
    OBVIOUS
  <1> QED
    BY <1>2, <1>3, <1>4, Zenon

LEMMA PendingSame ==
    ASSUME lost' = lost, \A c \in Cogs \ lost : HandlersOf(vm'[c]) = HandlersOf(vm[c])
    PROVE  Pending' = Pending
  BY DEF Pending

\* Only the handlers of cog c change.
LEMMA PendingOne ==
    ASSUME NEW c \in Cogs,
           \A d \in Cogs \ lost : d # c => HandlersOf(vm'[d]) = HandlersOf(vm[d]),
           \A d \in Cogs : d # c => (d \in lost' <=> d \in lost)
    PROVE  Pending' = [Pending EXCEPT ![c] = IF c \in lost' THEN <<>> ELSE HandlersOf(vm'[c])]
  <1> DEFINE P == [Pending EXCEPT ![c] = IF c \in lost' THEN <<>> ELSE HandlersOf(vm'[c])]
  <1>1. DOMAIN P = Cogs /\ DOMAIN Pending' = Cogs
    BY DEF Pending
  <1>2. ASSUME NEW d \in Cogs PROVE P[d] = Pending'[d]
    BY DEF Pending
  <1> QED
    BY <1>1, <1>2 DEF Pending

LEMMA Unseen ==
    ASSUME Pending' = Pending, UNCHANGED <<lost, moving>>
    PROVE  Keeps
  BY DEF Keeps, Pending, Promised!vars

LEMMA Begins ==
    ASSUME NEW c \in Cogs, c \notin lost, NEW m \in Messages, UNCHANGED <<lost, moving>>,
           Pending' = [Pending EXCEPT ![c] = Append(@, [msg |-> m, on |-> Promised!Runs])]
    PROVE  Keeps
  <1>1. Promised!Begin(c, m)
    BY Zenon DEF Pending, Promised!Begin, Promised!Runs
  <1> QED
    BY <1>1, Zenon DEF Keeps, Promised!Next

LEMMA SeenAs ==
    ASSUME NEW c \in Cogs
    PROVE  /\ Promised!Busy(c) <=> Pending[c] # <<>>
           /\ Promised!Top(c) = Last(Pending[c])
           /\ \A on : Promised!SetTop(c, on) <=>
                 Pending' = [Pending EXCEPT ![c] =
                                Append(Front(Pending[c]), [Last(Pending[c]) EXCEPT !.on = on])]
  <1>1. Promised!Busy(c) <=> Pending[c] # <<>>
    BY Zenon DEF Pending, Promised!Busy
  <1>2. Promised!Top(c) = Last(Pending[c])
    BY Zenon DEF Pending, Promised!Top, Last, Promised!Last
  <1>3. ASSUME NEW on
        PROVE  Promised!SetTop(c, on) <=>
                 Pending' = [Pending EXCEPT ![c] =
                                Append(Front(Pending[c]), [Last(Pending[c]) EXCEPT !.on = on])]
    BY <1>2, Zenon DEF Pending, Promised!SetTop, Front, Promised!Front
  <1> QED
    BY <1>1, <1>2, <1>3, Zenon

LEMMA Suspends ==
    ASSUME NEW c \in Cogs, NEW on \in Promised!Sleeps \cup Promised!Waits,
           Pending[c] # <<>>, Last(Pending[c]).on = Promised!Runs, UNCHANGED <<lost, moving>>,
           Pending' = [Pending EXCEPT ![c] =
                          Append(Front(Pending[c]), [Last(Pending[c]) EXCEPT !.on = on])]
    PROVE  Keeps
  <1>1. Promised!Busy(c) /\ Promised!Top(c).on = Promised!Runs
    BY SeenAs, Zenon
  <1>2. Promised!SetTop(c, on)
    BY SeenAs, Zenon
  <1>3. Promised!Suspend(c, on)
    BY <1>1, <1>2 DEF Promised!Suspend
  <1> QED
    BY <1>3, Zenon DEF Keeps, Promised!Next

LEMMA Resumes ==
    ASSUME NEW c \in Cogs, Pending[c] # <<>>, Promised!Over(Last(Pending[c]).on),
           UNCHANGED <<lost, moving>>,
           Pending' = [Pending EXCEPT ![c] = Append(Front(Pending[c]),
                          [Last(Pending[c]) EXCEPT !.on = Promised!Runs])]
    PROVE  Keeps
  <1>1. Promised!Busy(c) /\ Promised!Over(Promised!Top(c).on)
    BY SeenAs, Zenon
  <1>2. Promised!SetTop(c, Promised!Runs)
    BY SeenAs, Zenon
  <1>3. Promised!Resume(c)
    BY <1>1, <1>2 DEF Promised!Resume
  <1> QED
    BY <1>3, Zenon DEF Keeps, Promised!Next

LEMMA Ends ==
    ASSUME NEW c \in Cogs, Pending[c] # <<>>, Last(Pending[c]).on = Promised!Runs,
           UNCHANGED <<lost, moving>>, Pending' = [Pending EXCEPT ![c] = Front(Pending[c])]
    PROVE  Keeps
  <1>1. Promised!Busy(c) /\ Promised!Top(c).on = Promised!Runs
    BY SeenAs, Zenon
  <1>2. Promised!End(c)
    BY <1>1, Zenon DEF Pending, Promised!End, Front, Promised!Front
  <1> QED
    BY <1>2, Zenon DEF Keeps, Promised!Next

LEMMA Loses ==
    ASSUME NEW c \in Cogs, lost' = lost \cup {c}, UNCHANGED moving,
           Pending' = [Pending EXCEPT ![c] = <<>>]
    PROVE  Keeps
  <1>1. Promised!Lose(c)
    BY DEF Pending, Promised!Lose
  <1> QED
    BY <1>1, Zenon DEF Keeps, Promised!Next

LEMMA Finds ==
    ASSUME NEW c \in Cogs, c \in lost, lost' = lost \ {c}, UNCHANGED moving, Pending' = Pending
    PROVE  Keeps
  <1>1. Promised!Found(c)
    BY DEF Pending, Promised!Found
  <1> QED
    BY <1>1, Zenon DEF Keeps, Promised!Next

\* The running cog's machine becomes another, with the same handlers.
LEMMA OpUnseen ==
    ASSUME IInv, ChainInv, NEW c \in Cogs, NEW v, Become(c, v), c \notin lost => Chained(v),
           c \notin lost => HandlersOf(v) = HandlersOf(vm[c])
    PROVE  Keeps /\ ChainInv'
  <1>1. /\ vm' = [vm EXCEPT ![c] = v] /\ UNCHANGED <<lost, moving>>
        /\ vm \in [Cogs -> Machines]
    BY MachinesOfInv DEF Become
  <1>2. vm'[c] = v /\ \A d \in Cogs : d # c => vm'[d] = vm[d]
    BY <1>1
  <1>3. Pending' = Pending
    BY <1>1, <1>2, PendingSame
  <1>4. ChainInv'
    BY <1>1, <1>2 DEF ChainInv
  <1> QED
    BY <1>1, <1>3, <1>4, Unseen

\* Whatever only goes on in the code.
LEMMA PastHandlers ==
    ASSUME NEW c \in Cogs, vm[c] \in Machines, vm[c].running = RUNNING
    PROVE  /\ HandlersOf(Past(c)) = HandlersOf(vm[c]) /\ Past(c).trig = vm[c].trig
           /\ Past(c).calls = vm[c].calls /\ (Chained(vm[c]) => Chained(Past(c)))
  <1> DEFINE v == vm[c]
             w == Past(c)
  <1>1. v \in Machines /\ v.pc \in Nat /\ v.running = RUNNING
    BY MachineFields
  <1>2. w = [v EXCEPT !.pc = @ + 1]
    BY DEF Past
  <1> HIDE DEF v, w
  <1>3. w.running = v.running /\ w.calls = v.calls /\ w.trig = v.trig /\ w.wake = v.wake
    BY ONLY <1>1, <1>2 DEF Machines
  <1>4. Chained(v) => Chained(w)
    BY <1>3, ChainSame
  <1>5. HandlersOf(w) = HandlersOf(v)
    BY <1>1, <1>3, HandlersSame DEF RUNNING, IDLE
  <1> QED
    BY <1>3, <1>4, <1>5 DEF v, w

\* The handlers of the running cog change, and those of no other.
LEMMA OpShown ==
    ASSUME IInv, ChainInv, NEW c \in Cogs, c \notin lost, NEW v, Become(c, v), Chained(v)
    PROVE  /\ Pending' = [Pending EXCEPT ![c] = HandlersOf(v)] /\ Pending[c] = HandlersOf(vm[c])
           /\ ChainInv' /\ UNCHANGED <<lost, moving>>
  <1>1. /\ vm' = [vm EXCEPT ![c] = v] /\ UNCHANGED <<lost, moving>>
        /\ vm \in [Cogs -> Machines]
    BY MachinesOfInv DEF Become
  <1>2. vm'[c] = v /\ \A d \in Cogs : d # c => vm'[d] = vm[d]
    BY <1>1
  <1>3. Pending' = [Pending EXCEPT ![c] = IF c \in lost' THEN <<>> ELSE HandlersOf(vm'[c])]
    BY <1>1, <1>2, PendingOne
  <1>4. Pending' = [Pending EXCEPT ![c] = HandlersOf(v)]
    BY <1>1, <1>2, <1>3
  <1>5. ChainInv'
    BY <1>1, <1>2 DEF ChainInv
  <1>6. Pending[c] = HandlersOf(vm[c])
    BY <1>1, PendingSeqs
  <1> QED
    BY <1>1, <1>4, <1>5, <1>6

\* A message begins a handler, or it finds all frames in use and its receiver is lost.
LEMMA DeliverShown ==
    ASSUME script \in Programs, lost \subseteq Cogs, NEW machines, NEW stack,
           Sound(machines, stack, lost),
           \A d \in Cogs \ lost : machines[d].running # NESTED /\ Chained(machines[d]),
           \A d \in Cogs \ lost : HandlersOf(machines[d]) = HandlersOf(vm[d]),
           vm \in [Cogs -> Machines], UNCHANGED moving,
           NEW c \in Cogs, NEW m, Deliver(c, m, machines, stack)
    PROVE  Keeps /\ ChainInv'
  <1> DEFINE e == Entered(c, machines[c], m)
             full == machines[c].running # IDLE /\ Full(machines[c])
  <1>1. machines \in [Cogs -> Machines] /\ \A d \in Cogs : MachineOK(machines[d])
    BY DEF Sound
  <1>2. CASE ~Accepts(c, m)
    <2>1. vm' = machines /\ UNCHANGED lost
      BY <1>2 DEF Deliver
    <2>2. Pending' = Pending
      BY <2>1, PendingSame
    <2> QED
      BY <2>1, <2>2, Unseen DEF ChainInv
  <1>3. CASE Accepts(c, m)
    <2>1. vm' = [machines EXCEPT ![c] = e] /\ lost' = IF full THEN lost \cup {c} ELSE lost
      BY <1>1, <1>3 DEF Deliver
    <2>2. vm'[c] = e /\ \A d \in Cogs : d # c => vm'[d] = machines[d]
      BY <1>1, <2>1
    <2>3. m \in Messages /\ script[c].trig[m] \in Nat
      BY <1>3, ScriptFields DEF Accepts
    <2> HIDE DEF e, full
    <2>4. CASE c \in lost
      <3>1. lost' = lost
        BY <2>1, <2>4
      <3>2. Pending' = Pending
        BY <2>2, <2>4, <3>1, PendingSame
      <3> QED
        BY <2>2, <2>4, <3>1, <3>2, Unseen DEF ChainInv
    <2>5. CASE c \notin lost /\ full
      <3>1. lost' = lost \cup {c}
        BY <2>1, <2>5
      <3>2. Pending' = [Pending EXCEPT ![c] = IF c \in lost' THEN <<>> ELSE HandlersOf(vm'[c])]
        BY <2>2, <3>1, PendingOne
      <3>3. Pending' = [Pending EXCEPT ![c] = <<>>]
        BY <3>1, <3>2
      <3>4. ChainInv'
        BY <2>2, <3>1 DEF ChainInv
      <3> QED
        BY <3>1, <3>3, <3>4, Loses
    <2>6. CASE c \notin lost /\ ~full
      <3> DEFINE v == machines[c]
                 h == [msg |-> m, on |-> Promised!Runs]
      <3>1. lost' = lost
        BY <2>1, <2>6
      <3>2. MachineOK(v) /\ Chained(v) /\ v.running # NESTED /\ (v.running = IDLE \/ ~Full(v))
        BY <1>1, <2>6 DEF full
      <3>3. Chained(Entered(c, v, m))
            /\ HandlersOf(Entered(c, v, m)) = Append(HandlersOf(v), h)
        BY <2>3, <3>2, HandlersEntered
      <3>4. Chained(e) /\ HandlersOf(e) = Append(HandlersOf(vm[c]), h)
        BY <2>6, <3>3 DEF e
      <3> HIDE DEF h
      <3>5. Pending' = [Pending EXCEPT ![c] = IF c \in lost' THEN <<>> ELSE HandlersOf(vm'[c])]
        BY <2>2, <3>1, PendingOne
      <3>6. Pending[c] = HandlersOf(vm[c])
        BY <2>6, PendingSeqs
      <3>7. Pending' = [Pending EXCEPT ![c] = Append(@, h)]
        BY <2>2, <2>6, <3>1, <3>4, <3>5, <3>6
      <3>8. ChainInv'
        BY <2>2, <3>1, <3>4 DEF ChainInv
      <3> QED
        BY <2>3, <2>6, <3>1, <3>7, <3>8, Begins DEF h
    <2> QED
      BY <2>4, <2>5, <2>6
  <1> QED
    BY <1>2, <1>3

-------------------------------------------------------------------------------
(* Every step keeps the promise: the opcodes *)

\* What the handler of the running cog does when it goes on, to whichever machine w.
LEMMA FetchedChain ==
    ASSUME IInv, ChainInv, NEW c \in Cogs, NEW o, Fetch(c, o)
    PROVE  /\ HandlersOf(Past(c)) = HandlersOf(vm[c]) /\ Past(c).trig = vm[c].trig
           /\ c \notin lost => Chained(vm[c]) /\ Chained(Past(c))
  <1>1. vm[c] \in Machines /\ vm[c].running = RUNNING
    BY Fetched, Zenon
  <1> QED
    BY <1>1, PastHandlers DEF ChainInv

LEMMA WorkKeeps ==
    ASSUME IInv, ChainInv, NEW c \in Cogs, NEW o, Fetch(c, o), Become(c, Past(c))
    PROVE  Keeps /\ ChainInv'
  BY FetchedChain, OpUnseen, Zenon

LEMMA BranchKeeps ==
    ASSUME IInv, ChainInv, NEW c \in Cogs, Branch(c)
    PROVE  Keeps /\ ChainInv'
  <1>1. PICK o \in {"branch", "call"} : Fetch(c, o)
    BY DEF Branch, Misread
  <1>2. PICK pc \in Jumps(c) : Become(c, [vm[c] EXCEPT !.pc = pc])
    BY DEF Branch
  <1> DEFINE v == vm[c]
             w == [v EXCEPT !.pc = pc]
  <1>3. v \in Machines /\ v.running = RUNNING /\ (c \notin lost => Chained(v)) /\ Become(c, w)
    BY <1>1, <1>2, Fetched, FetchedChain
  <1> HIDE DEF v
  <1>4. w.running = v.running /\ w.wake = v.wake /\ w.calls = v.calls /\ w.trig = v.trig
    BY ONLY <1>3 DEF Machines
  <1> HIDE DEF w
  <1>5. c \notin lost => Chained(w)
    BY <1>3, <1>4, ChainSame
  <1>6. HandlersOf(w) = HandlersOf(v)
    BY <1>3, <1>4, HandlersSame DEF RUNNING, IDLE
  <1> QED
    BY <1>3, <1>5, <1>6, OpUnseen DEF v

LEMMA CallSubKeeps ==
    ASSUME IInv, ChainInv, NEW c \in Cogs, CallSub(c)
    PROVE  Keeps /\ ChainInv'
  <1> DEFINE p == Past(c)
             w == [Called(p) EXCEPT !.pc = OpAt(c).to]
  <1>1. Fetch(c, "call") /\ ~Full(vm[c]) /\ Become(c, w)
    BY DEF CallSub
  <1>2. /\ OpAt(c).op = "call" /\ MachineOK(p) /\ p \in Machines /\ p.running = RUNNING
        /\ p.calls = vm[c].calls
    BY <1>1, Fetched, Zenon
  <1>3. HandlersOf(p) = HandlersOf(vm[c]) /\ (c \notin lost => Chained(p))
    BY <1>1, FetchedChain, Zenon
  <1>4. OpAt(c).to \in Nat
    BY <1>2, OpFields DEF IInv, Others
  <1> HIDE DEF p
  <1>5. ~Full(p) /\ p.running # IDLE
    BY <1>1, <1>2 DEF Full, RUNNING, IDLE
  <1> DEFINE u == Called(p)
             to == OpAt(c).to
  <1>6. /\ MachineOK(u) /\ u.running = RUNNING /\ u.calls = Append(p.calls, FrameOf(p))
    BY <1>2, <1>5, CalledOk, Zenon
  <1>7. u \in Machines /\ to \in Nat /\ w = [u EXCEPT !.pc = to]
    BY <1>4, <1>6 DEF MachineOK
  <1>8. u.trig = p.trig
    BY ONLY <1>2, <1>5 DEF Called, Machines
  <1> HIDE DEF u, w, to
  <1>9. w \in Machines /\ w.running = u.running /\ w.trig = u.trig /\ w.calls = u.calls
    BY ONLY <1>7 DEF Machines
  <1>10. c \notin lost => Chained(w) /\ HandlersOf(w) = HandlersOf(p)
    BY <1>2, <1>3, <1>5, <1>6, <1>8, <1>9, HandlersCalled
  <1> QED
    BY <1>1, <1>3, <1>10, OpUnseen

LEMMA RetKeeps ==
    ASSUME IInv, ChainInv, NEW c \in Cogs, Ret(c)
    PROVE  Keeps /\ ChainInv'
  <1> DEFINE p == Past(c)
             w == Returned(p)
  <1>1. PICK o \in {"ret", "call"} : Fetch(c, o) /\ Become(c, w)
    BY DEF Ret, Misread
  <1>2. MachineOK(p) /\ p.running = RUNNING
    BY <1>1, Fetched, Zenon
  <1>3. HandlersOf(p) = HandlersOf(vm[c]) /\ (c \notin lost => Chained(p))
    BY <1>1, FetchedChain, Zenon
  <1> HIDE DEF p
  <1>4. CASE c \in lost
    BY <1>1, <1>4, OpUnseen
  <1>5. CASE c \notin lost
    <2>1. /\ Chained(w) /\ HandlersOf(p) # <<>> /\ Last(HandlersOf(p)).on = Promised!Runs
          /\ HandlersOf(w) = HandlersOf(p) \/ HandlersOf(w) = Front(HandlersOf(p))
      BY <1>2, <1>3, <1>5, HandlersReturned
    <2> HIDE DEF w
    <2>2. CASE HandlersOf(w) = HandlersOf(p)
      BY <1>1, <1>3, <2>1, <2>2, OpUnseen
    <2>3. CASE HandlersOf(w) = Front(HandlersOf(p))
      <3>1. Pending' = [Pending EXCEPT ![c] = HandlersOf(w)] /\ Pending[c] = HandlersOf(p)
            /\ ChainInv' /\ UNCHANGED <<lost, moving>>
        BY <1>1, <1>3, <1>5, <2>1, OpShown
      <3>2. Pending' = [Pending EXCEPT ![c] = Front(Pending[c])]
        BY <2>3, <3>1
      <3> QED
        BY <2>1, <3>1, <3>2, Ends
    <2> QED
      BY <2>1, <2>2, <2>3
  <1> QED
    BY <1>4, <1>5

\* The handler on top stops until something is over.
LEMMA StopKeeps ==
    ASSUME IInv, ChainInv, NEW c \in Cogs, NEW o, Fetch(c, o), NEW w \in Machines, Become(c, w),
           w.calls = Past(c).calls, w.trig = Past(c).trig, w.running # IDLE,
           Doing(w.running, w.wake) \in Promised!Sleeps \cup Promised!Waits
    PROVE  Keeps /\ ChainInv'
  <1> DEFINE p == Past(c)
             on == Doing(w.running, w.wake)
  <1>1. p \in Machines /\ p.running = RUNNING
    BY Fetched, Zenon
  <1>2. HandlersOf(p) = HandlersOf(vm[c]) /\ (c \notin lost => Chained(p))
    BY FetchedChain, Zenon
  <1>3. CASE c \in lost
    BY <1>3, OpUnseen
  <1>4. CASE c \notin lost
    <2>1. w.calls = p.calls /\ w.trig = p.trig
      OBVIOUS
    <2> HIDE DEF p
    <2>2. /\ HandlersOf(p) # <<>> /\ Last(HandlersOf(p)).on = Doing(p.running, p.wake)
          /\ HandlersOf(w) = Append(Front(HandlersOf(p)),
                                    [Last(HandlersOf(p)) EXCEPT !.on = on])
      BY <1>1, <2>1, HandlersTop DEF RUNNING, IDLE
    <2>3. Doing(p.running, p.wake) = Promised!Runs
      BY <1>1 DEF Doing, RUNNING, SLEEPING, WAITING, Promised!Runs
    <2>4. Chained(w)
      BY <1>2, <1>4, <2>1, ChainSame
    <2> HIDE DEF on
    <2>5. Pending' = [Pending EXCEPT ![c] = HandlersOf(w)] /\ Pending[c] = HandlersOf(p)
          /\ ChainInv' /\ UNCHANGED <<lost, moving>>
      BY <1>2, <1>4, <2>4, OpShown
    <2>6. Pending' = [Pending EXCEPT ![c] = Append(Front(Pending[c]),
                                                   [Last(Pending[c]) EXCEPT !.on = on])]
      BY <2>2, <2>5, Zenon
    <2>7. on \in Promised!Sleeps \cup Promised!Waits
      BY DEF on
    <2> QED
      BY <2>2, <2>3, <2>5, <2>6, <2>7, Suspends
  <1> QED
    BY <1>3, <1>4

LEMMA SleepKeeps ==
    ASSUME IInv, ChainInv, NEW c \in Cogs, Sleep(c)
    PROVE  Keeps /\ ChainInv'
  <1> DEFINE p == Past(c)
             ms == OpAt(c).ms
             w == [p EXCEPT !.running = SLEEPING, !.wake = ms]
  <1>1. Fetch(c, "sleep") /\ Become(c, w)
    BY DEF Sleep
  <1>2. OpAt(c).op = "sleep" /\ p \in Machines
    BY <1>1, Fetched, Zenon
  <1>3. ms \in 0..MaxSleep
    BY <1>2, OpFields DEF IInv, Others
  <1>4. ms \in Times /\ <<"sleeps", ms>> \in Promised!Sleeps
    BY <1>3, SithCogAssumption DEF Times, Promised!Sleeps
  <1> HIDE DEF p, ms
  <1>5. w \in Machines /\ w.running = SLEEPING /\ w.wake = ms /\ w.calls = p.calls
        /\ w.trig = p.trig
    BY ONLY <1>2, <1>4 DEF Machines
  <1> HIDE DEF w
  <1>6. w.running # IDLE /\ Doing(w.running, w.wake) = <<"sleeps", ms>>
    BY <1>5 DEF Doing, SLEEPING, WAITING, IDLE
  <1> QED
    BY <1>1, <1>4, <1>5, <1>6, StopKeeps DEF p

LEMMA WaitForStopKeeps ==
    ASSUME IInv, ChainInv, NEW c \in Cogs, WaitForStop(c)
    PROVE  Keeps /\ ChainInv'
  <1> DEFINE p == Past(c)
             t == OpAt(c).thing
             w == [p EXCEPT !.running = WAITING, !.wake = t]
  <1>1. Fetch(c, "wait") /\ Become(c, IF t \in moving THEN w ELSE p)
    BY DEF WaitForStop
  <1>2. OpAt(c).op = "wait" /\ p \in Machines
    BY <1>1, Fetched, Zenon
  <1>3. t \in Paths
    BY <1>2, OpFields DEF IInv, Others
  <1>4. <<"waits", t>> \in Promised!Waits
    BY <1>3 DEF Promised!Waits
  <1> HIDE DEF p, t
  <1>5. w \in Machines /\ w.running = WAITING /\ w.wake = t /\ w.calls = p.calls
        /\ w.trig = p.trig
    BY ONLY <1>2, <1>3 DEF Machines
  <1> HIDE DEF w
  <1>6. w.running # IDLE /\ Doing(w.running, w.wake) = <<"waits", t>>
    BY <1>5 DEF Doing, SLEEPING, WAITING, IDLE
  <1>7. CASE t \in moving
    BY <1>1, <1>4, <1>5, <1>6, <1>7, StopKeeps DEF p
  <1>8. CASE t \notin moving
    BY <1>1, <1>8, WorkKeeps DEF p
  <1> QED
    BY <1>7, <1>8

\* Reset forgets the handlers below, if there are any.
LEMMA ResetKeeps ==
    ASSUME IInv, ChainInv, NEW c \in Cogs, Reset(c)
    PROVE  Keeps /\ ChainInv'
  <1> DEFINE p == Past(c)
             none == <<>>
             w == [p EXCEPT !.calls = none]
  <1>1. /\ Fetch(c, "reset") /\ vm' = [vm EXCEPT ![c] = w]
        /\ lost' = IF vm[c].calls = <<>> THEN lost ELSE lost \cup {c}
        /\ UNCHANGED <<script, disabled, moving, cstack, budget>>
    BY DEF Reset
  <1>2. p \in Machines /\ p.running = RUNNING /\ p.calls = vm[c].calls
        /\ vm \in [Cogs -> Machines]
    BY <1>1, Fetched, Zenon
  <1>3. HandlersOf(p) = HandlersOf(vm[c]) /\ (c \notin lost => Chained(p))
    BY <1>1, FetchedChain, Zenon
  <1>4. none \in Seq(Frame) /\ none = <<>>
    OBVIOUS
  <1> HIDE DEF p, none
  <1>5. w.running = RUNNING /\ w.wake = p.wake /\ w.trig = p.trig /\ w.calls = none
    BY ONLY <1>2, <1>4 DEF Machines
  <1> HIDE DEF w
  <1>6. Chained(w)
    BY <1>4, <1>5, ChainNone
  <1>7. CASE vm[c].calls = <<>>
    <2>1. w.calls = p.calls /\ p.running # IDLE /\ w.running # IDLE
      BY <1>2, <1>4, <1>5, <1>7 DEF RUNNING, IDLE
    <2>2. HandlersOf(w) = HandlersOf(p)
      BY <1>2, <1>5, <2>1, HandlersSame
    <2>3. Become(c, w)
      BY <1>1, <1>7 DEF Become
    <2> QED
      BY <1>3, <1>6, <2>2, <2>3, OpUnseen
  <1>8. CASE vm[c].calls # <<>>
    <2>1. lost' = lost \cup {c} /\ vm'[c] = w /\ \A d \in Cogs : d # c => vm'[d] = vm[d]
      BY <1>1, <1>2, <1>8
    <2>2. Pending' = [Pending EXCEPT ![c] = IF c \in lost' THEN <<>> ELSE HandlersOf(vm'[c])]
      BY <2>1, PendingOne
    <2>3. Pending' = [Pending EXCEPT ![c] = <<>>]
      BY <2>1, <2>2
    <2>4. ChainInv'
      BY <2>1 DEF ChainInv
    <2> QED
      BY <1>1, <2>1, <2>3, <2>4, Loses
  <1> QED
    BY <1>7, <1>8

LEMMA SendKeeps ==
    ASSUME IInv, ChainInv, NEW c \in Cogs, Send(c)
    PROVE  Keeps /\ ChainInv'
  <1> DEFINE p == Past(c)
             machines == [vm EXCEPT ![c] = p]
             to == OpAt(c).cog
  <1>1. /\ Fetch(c, "send") /\ to \in Cogs /\ Deliver(to, OpAt(c).msg, machines, cstack)
        /\ Sound(machines, cstack, lost) /\ (\A d \in Cogs \ lost : machines[d].running # NESTED)
        /\ UNCHANGED <<script, alarm, disabled, moving, budget>>
    BY SendReady
  <1>2. script \in Programs /\ lost \subseteq Cogs /\ vm \in [Cogs -> Machines]
    BY MachinesOfInv
  <1>3. HandlersOf(p) = HandlersOf(vm[c]) /\ (c \notin lost => Chained(p))
    BY <1>1, FetchedChain, Zenon
  <1> HIDE DEF p, to
  <1>4. machines[c] = p /\ \A d \in Cogs : d # c => machines[d] = vm[d]
    BY <1>2
  <1> HIDE DEF machines
  <1>5. \A d \in Cogs \ lost : /\ machines[d].running # NESTED /\ Chained(machines[d])
                               /\ HandlersOf(machines[d]) = HandlersOf(vm[d])
    BY <1>1, <1>3, <1>4 DEF ChainInv
  <1> QED
    BY <1>1, <1>2, <1>5, DeliverShown

\* A loop ends: the interrupted one goes on, or nobody does.
LEMMA LoopEndsKeeps ==
    ASSUME IInv, ChainInv, NEW c \in Cogs, LoopEnds(c)
    PROVE  Keeps /\ ChainInv'
  <1> DEFINE v == vm[c]
             nested == v.running = NESTED
             byTick == Last(cstack).by = "Tick"
             w == [v EXCEPT !.running = RUNNING]
  <1>1. /\ v \in Machines /\ MachineOK(v) /\ vm \in [Cogs -> Machines] /\ lost \subseteq Cogs
        /\ (c \notin lost => Chained(v))
    BY MachinesOfInv DEF ChainInv
  <1>2. /\ vm' = IF nested /\ ~byTick THEN [vm EXCEPT ![c] = w] ELSE vm
        /\ lost' = IF v.running = IDLE THEN lost \ {c}
                   ELSE IF nested /\ byTick THEN lost \cup {c} ELSE lost
        /\ UNCHANGED moving
    BY <1>1 DEF LoopEnds
  <1> HIDE DEF byTick
  <1>3. CASE v.running = IDLE
    <2>1. vm' = vm /\ lost' = lost \ {c} /\ v.calls = <<>> /\ HandlersOf(v) = <<>>
      BY <1>1, <1>2, <1>3 DEF IDLE, NESTED, MachineOK, HandlersOf
    <2>2. Chained(v)
      BY <2>1, ChainNone
    <2>3. ChainInv'
      BY <2>1, <2>2 DEF ChainInv
    <2>4. Pending' = Pending
      BY <2>1 DEF Pending
    <2>5. CASE c \in lost
      BY <1>2, <2>1, <2>3, <2>4, <2>5, Finds
    <2>6. CASE c \notin lost
      BY <1>2, <2>1, <2>3, <2>4, <2>6, Unseen
    <2> QED
      BY <2>5, <2>6
  <1>4. CASE nested /\ byTick
    <2>1. vm' = vm /\ lost' = lost \cup {c}
      BY <1>2, <1>4 DEF NESTED, IDLE
    <2>2. Pending' = [Pending EXCEPT ![c] = IF c \in lost' THEN <<>> ELSE HandlersOf(vm'[c])]
      BY <2>1, PendingOne
    <2>3. Pending' = [Pending EXCEPT ![c] = <<>>]
      BY <2>1, <2>2
    <2>4. ChainInv'
      BY <2>1 DEF ChainInv
    <2> QED
      BY <1>2, <2>1, <2>3, <2>4, Loses
  <1>5. CASE nested /\ ~byTick
    <2>1. vm' = [vm EXCEPT ![c] = w] /\ lost' = lost
      BY <1>2, <1>5 DEF NESTED, IDLE
    <2>2. w.running = RUNNING /\ w.calls = v.calls /\ w.trig = v.trig
      BY ONLY <1>1 DEF Machines
    <2> HIDE DEF w
    <2>3. Doing(w.running, w.wake) = Doing(v.running, v.wake) /\ w.running # IDLE
          /\ v.running # IDLE
      BY <1>5, <2>2 DEF Doing, RUNNING, SLEEPING, WAITING, NESTED, IDLE
    <2>4. HandlersOf(w) = HandlersOf(v)
      BY <2>2, <2>3, HandlersSame
    <2>5. vm'[c] = w /\ \A d \in Cogs : d # c => vm'[d] = vm[d]
      BY <1>1, <2>1
    <2>6. Pending' = Pending
      BY <2>1, <2>4, <2>5, PendingSame
    <2>7. c \notin lost => Chained(w)
      BY <1>1, <2>2, ChainSame
    <2>8. ChainInv'
      BY <2>1, <2>5, <2>7 DEF ChainInv
    <2> QED
      BY <1>2, <2>1, <2>6, <2>8, Unseen
  <1>6. CASE v.running # IDLE /\ ~nested
    <2>1. vm' = vm /\ lost' = lost
      BY <1>2, <1>6
    <2>2. Pending' = Pending
      BY <2>1, PendingSame
    <2> QED
      BY <1>2, <2>1, <2>2, Unseen DEF ChainInv
  <1> QED
    BY <1>3, <1>4, <1>5, <1>6

LEMMA ExecKeeps ==
    ASSUME IInv, ChainInv, NEW c \in Cogs, Exec(c)
    PROVE  Keeps /\ ChainInv'
  <1>1. CASE Work(c) \/ SetPulse(c) \/ SetTimer(c)
    <2>1. \E o : Fetch(c, o) /\ Become(c, Past(c))
      BY <1>1 DEF Work, SetPulse, SetTimer
    <2> QED
      BY <2>1, WorkKeeps
  <1> QED
    BY <1>1, BranchKeeps, CallSubKeeps, RetKeeps, SleepKeeps, WaitForStopKeeps, ResetKeeps,
       SendKeeps, LoopEndsKeeps, Zenon DEF Exec

-------------------------------------------------------------------------------
(* Every step keeps the promise: ticks, and what happens between them *)

\* Nothing of the handlers changes.
LEMMA NothingShown ==
    ASSUME ChainInv, UNCHANGED <<vm, lost, moving>>
    PROVE  Keeps /\ ChainInv'
  <1>1. Pending' = Pending
    BY PendingSame
  <1> QED
    BY <1>1, Unseen DEF ChainInv

LEMMA SendNextKeeps ==
    ASSUME IInv, ChainInv, SendNext
    PROVE  Keeps /\ ChainInv'
  <1>0. PICK c \in Cogs, m \in Messages : \E rest :
              /\ Deliver(c, m, vm, rest) /\ Sound(vm, rest, lost)
              /\ \A d \in Cogs \ lost : vm[d].running # NESTED
              /\ UNCHANGED <<script, alarm, disabled, moving, budget>>
    BY SendNextReady, Zenon
  <1>1. PICK rest :
              /\ Deliver(c, m, vm, rest) /\ Sound(vm, rest, lost)
              /\ \A d \in Cogs \ lost : vm[d].running # NESTED
              /\ UNCHANGED <<script, alarm, disabled, moving, budget>>
    BY <1>0
  <1>2. script \in Programs /\ lost \subseteq Cogs /\ vm \in [Cogs -> Machines]
    BY MachinesOfInv
  <1>3. \A d \in Cogs \ lost : vm[d].running # NESTED /\ Chained(vm[d])
    BY <1>1 DEF ChainInv
  <1> QED
    BY <1>1, <1>2, <1>3, DeliverShown

\* A stage of the tick of cog c that may send it a message.
LEMMA TickSendsKeeps ==
    ASSUME IInv, ChainInv, NEW c \in Cogs, NEW m, NEW at \in {"timer", "wake"}, UNCHANGED moving,
           \A d \in Cogs \ lost : vm[d].running \notin {RUNNING, NESTED},
           \/ Deliver(c, m, vm, <<Ticking(c, at)>>)
           \/ UNCHANGED <<vm, lost>>
    PROVE  Keeps /\ ChainInv'
  <1> DEFINE st == <<Ticking(c, at)>>
  <1>1. st \in Seq(Calls) /\ OnlyLoopsAbove(st)
    BY TickingType
  <1>2. Deliver(c, m, vm, st) \/ UNCHANGED <<vm, lost>>
    OBVIOUS
  <1> HIDE DEF st
  <1>3. Sound(vm, st, lost)
    BY <1>1, MachinesOfInv, AnyStack
  <1>4. CASE Deliver(c, m, vm, st)
    <2>1. script \in Programs /\ lost \subseteq Cogs /\ vm \in [Cogs -> Machines]
      BY MachinesOfInv
    <2>2. \A d \in Cogs \ lost : vm[d].running # NESTED /\ Chained(vm[d])
      BY DEF ChainInv
    <2> QED
      BY <1>3, <1>4, <2>1, <2>2, DeliverShown
  <1>5. CASE UNCHANGED <<vm, lost>>
    BY <1>5, NothingShown
  <1> QED
    BY <1>2, <1>4, <1>5

LEMMA TickPulseKeeps ==
    ASSUME IInv, ChainInv, NEW c \in Cogs, TickPulse(c)
    PROVE  Keeps /\ ChainInv'
  <1>1. AtTick(c, "pulse") /\ UNCHANGED moving
    BY DEF TickPulse
  <1>2. /\ \A d \in Cogs \ lost : vm[d].running \notin {RUNNING, NESTED}
        /\ Stage(Ticking(c, "timer")) = <<Ticking(c, "timer")>>
    BY <1>1, AtTickOk
  <1>3. Deliver(c, "pulse", vm, <<Ticking(c, "timer")>>) \/ UNCHANGED <<vm, lost>>
    BY <1>2 DEF TickPulse
  <1> QED
    BY <1>1, <1>2, <1>3, TickSendsKeeps

LEMMA TickTimerKeeps ==
    ASSUME IInv, ChainInv, NEW c \in Cogs, TickTimer(c)
    PROVE  Keeps /\ ChainInv'
  <1>1. AtTick(c, "timer") /\ UNCHANGED moving
    BY DEF TickTimer
  <1>2. /\ \A d \in Cogs \ lost : vm[d].running \notin {RUNNING, NESTED}
        /\ Stage(Ticking(c, "wake")) = <<Ticking(c, "wake")>>
    BY <1>1, AtTickOk
  <1>3. Deliver(c, "timer", vm, <<Ticking(c, "wake")>>) \/ UNCHANGED <<vm, lost>>
    BY <1>2 DEF TickTimer
  <1> QED
    BY <1>1, <1>2, <1>3, TickSendsKeeps

\* The clock, or the thing, wakes only a handler whose time is over.
LEMMA TickWakeKeeps ==
    ASSUME IInv, ChainInv, NEW c \in Cogs, TickWake(c)
    PROVE  Keeps /\ ChainInv'
  <1> DEFINE v == vm[c]
             w == Running(v)
             on == Doing(v.running, v.wake)
  <1>1. /\ v \in Machines /\ WakeOK(v) /\ vm \in [Cogs -> Machines]
        /\ (c \notin lost => Chained(v))
    BY MachinesOfInv DEF ChainInv, MachineOK
  <1>2. Due(v) /\ vm' = [vm EXCEPT ![c] = w] /\ UNCHANGED <<lost, moving>>
    BY <1>1 DEF TickWake
  <1>3. vm'[c] = w /\ \A d \in Cogs : d # c => vm'[d] = vm[d]
    BY <1>1, <1>2
  <1>4. -1 \in Times
    BY SithCogAssumption DEF Times
  <1>5. w \in Machines /\ w.running = RUNNING /\ w.calls = v.calls /\ w.trig = v.trig
    <2> HIDE DEF v
    <2> QED
      BY ONLY <1>1, <1>4 DEF Machines, Running
  <1>6. v.running # IDLE /\ w.running # IDLE /\ Doing(w.running, w.wake) = Promised!Runs
    BY <1>2, <1>5 DEF Due, Doing, Promised!Runs, IDLE, RUNNING, SLEEPING, WAITING
  <1>7. Promised!Over(on)
    <2>1. CASE v.running = SLEEPING
      <3>1. v.wake = -1
        BY <1>1, <1>2, <2>1 DEF Due, WakeOK, Times, SLEEPING, WAITING
      <3>2. on = <<"sleeps", -1>>
        BY <2>1, <3>1 DEF Doing, SLEEPING, WAITING
      <3> QED
        BY <3>2 DEF Promised!Over
    <2>2. CASE v.running # SLEEPING
      <3>1. v.running = WAITING /\ v.wake \in Paths \ moving
        BY <1>1, <1>2, <2>2 DEF Due, WakeOK
      <3>2. on = <<"waits", v.wake>>
        BY <3>1 DEF Doing, SLEEPING, WAITING
      <3> QED
        BY <3>1, <3>2 DEF Promised!Over
    <2> QED
      BY <2>1, <2>2
  <1> HIDE DEF v, w
  <1>8. CASE c \in lost
    <2>1. Pending' = Pending
      BY <1>2, <1>3, <1>8, PendingSame
    <2> QED
      BY <1>2, <1>3, <1>8, <2>1, Unseen DEF ChainInv
  <1>9. CASE c \notin lost
    <2>1. /\ HandlersOf(v) # <<>> /\ Last(HandlersOf(v)).on = on
          /\ HandlersOf(w) = Append(Front(HandlersOf(v)),
                                    [Last(HandlersOf(v)) EXCEPT !.on = Promised!Runs])
      BY <1>1, <1>5, <1>6, HandlersTop
    <2> HIDE DEF on
    <2>2. Pending' = [Pending EXCEPT ![c] = IF c \in lost' THEN <<>> ELSE HandlersOf(vm'[c])]
      BY <1>2, <1>3, PendingOne
    <2>3. Pending[c] = HandlersOf(v)
      BY <1>1, <1>9, PendingSeqs DEF v
    <2>4. Pending' = [Pending EXCEPT ![c] = HandlersOf(w)]
      BY <1>2, <1>3, <1>9, <2>2
    <2>5. Pending' = [Pending EXCEPT ![c] = Append(Front(Pending[c]),
                                        [Last(Pending[c]) EXCEPT !.on = Promised!Runs])]
      BY <2>1, <2>3, <2>4, Zenon
    <2>6. Chained(w)
      BY <1>1, <1>5, <1>9, ChainSame
    <2>7. ChainInv'
      BY <1>2, <1>3, <2>6 DEF ChainInv
    <2> QED
      BY <1>2, <1>7, <2>1, <2>3, <2>5, <2>7, Resumes
  <1> QED
    BY <1>8, <1>9

\* Time passes for all the handlers of a machine, and for nothing else.
LEMMA HandlersEarlier ==
    ASSUME NEW v, MachineOK(v)
    PROVE  /\ Chained(v) => Chained(EarlierVm(v))
           /\ HandlersOf(EarlierVm(v)) =
                 [i \in DOMAIN HandlersOf(v) |->
                     [HandlersOf(v)[i] EXCEPT !.on = Promised!Shortened(@)]]
  <1> DEFINE w == EarlierVm(v)
             old == v.calls
             new == w.calls
             S == Begun(old)
             k == Cardinality(S)
             E(h) == [h EXCEPT !.on = Promised!Shortened(@)]
  <1>1. /\ MachineOK(w) /\ w.running = v.running /\ Later(v, w) /\ Len(new) = Len(old)
        /\ DOMAIN new = DOMAIN old /\ \A i \in DOMAIN old : Later(old[i], new[i])
    BY EarlierVmOk
  <1>2. /\ v \in Machines /\ w \in Machines /\ old \in Seq(Frame) /\ new \in Seq(Frame)
        /\ WakeOK(v) /\ \A i \in DOMAIN old : WakeOK(old[i])
    BY <1>1, MachineFields DEF MachineOK
  <1> HIDE DEF w
  <1>3. Chained(v) => Chained(w)
    <2> SUFFICES ASSUME Chained(v), NEW i \in DOMAIN new, new[i].running = RUNNING
                 PROVE  new[i].trig = TrigAbove(w, i)
      BY DEF Chained
    <2>1. old[i].running = RUNNING /\ old[i].trig = new[i].trig /\ w.trig = v.trig
      BY <1>1 DEF Later
    <2>2. old[i].trig = TrigAbove(v, i)
      BY <1>1, <2>1 DEF Chained
    <2>3. i # Len(old) => i + 1 \in DOMAIN old
      BY <1>1, <1>2
    <2>4. i # Len(old) => old[i + 1].trig = new[i + 1].trig
      BY <1>1, <2>3 DEF Later
    <2> QED
      BY <1>1, <2>1, <2>2, <2>4 DEF TrigAbove
  <1>4. Begun(new) = S
    BY <1>1 DEF Begun, Later
  <1>5. /\ Kept(old) \in Seq(Kinds) /\ Len(Kept(old)) = k /\ DOMAIN Kept(old) = 1 .. k
        /\ \A n \in 1 .. k : Nth(S, n) \in DOMAIN old /\ Kept(old)[n] = HandlerIn(old[Nth(S, n)])
    BY <1>2, KeptOk
  <1>6. /\ Kept(new) \in Seq(Kinds) /\ Len(Kept(new)) = k /\ DOMAIN Kept(new) = 1 .. k
        /\ \A n \in 1 .. k : Kept(new)[n] = HandlerIn(new[Nth(S, n)])
    BY <1>2, <1>4, KeptOk
  <1>7. \A n \in 1 .. k : Kept(new)[n] = E(Kept(old)[n])
    BY <1>1, <1>2, <1>5, <1>6, EarlierHandler
  <1>8. HandlerIn(w) = E(HandlerIn(v))
    BY <1>1, <1>2, EarlierHandler
  <1>9. CASE v.running = IDLE
    <2>1. HandlersOf(v) = <<>> /\ HandlersOf(w) = <<>>
      BY <1>1, <1>2, <1>9, HandlersShape
    <2>2. [i \in DOMAIN <<>> |-> E(<<>>[i])] = <<>>
      OBVIOUS
    <2> QED
      BY <1>3, <2>1, <2>2 DEF w
  <1>10. CASE v.running # IDLE
    <2> DEFINE a == Kept(old)
               b == Kept(new)
               x == HandlerIn(v)
               y == HandlerIn(w)
               s == HandlersOf(v)
               t == HandlersOf(w)
    <2>1. /\ s = Append(a, x) /\ t = Append(b, y) /\ x \in Kinds /\ y \in Kinds
          /\ a \in Seq(Kinds) /\ b \in Seq(Kinds) /\ Len(a) = k /\ Len(b) = k
      BY <1>1, <1>2, <1>5, <1>6, <1>10, HandlersShape
    <2>2. y = E(x) /\ \A n \in 1 .. k : b[n] = E(a[n])
      BY <1>7, <1>8
    <2> HIDE DEF a, b, x, y, s, t, k, E
    <2>3. /\ DOMAIN s = 1 .. k + 1 /\ DOMAIN t = 1 .. k + 1 /\ k \in Nat
          /\ s[k + 1] = x /\ t[k + 1] = y
          /\ \A n \in 1 .. k : s[n] = a[n] /\ t[n] = b[n]
          /\ t \in Seq(Kinds)
      BY <2>1
    <2>4. \A n \in 1 .. k + 1 : t[n] = E(s[n])
      <3>1. \A n \in 1 .. k + 1 : n = k + 1 \/ n \in 1 .. k
        BY <2>3
      <3> QED
        BY <2>2, <2>3, <3>1
    <2>5. t = [i \in DOMAIN s |-> E(s[i])]
      <3>1. t = [i \in DOMAIN t |-> t[i]]
        BY <2>3
      <3> QED
        BY <2>3, <2>4, <3>1
    <2> QED
      BY <1>3, <2>5 DEF s, t, E, w
  <1> QED
    BY <1>9, <1>10

LEMMA NextCogKeeps ==
    ASSUME IInv, ChainInv, NEW c \in Cogs, NextCog(c)
    PROVE  Keeps /\ ChainInv'
  <1>1. UNCHANGED <<lost, moving>>
    BY DEF NextCog
  <1>2. CASE c < NumCogs
    <2>1. UNCHANGED vm
      BY <1>2 DEF NextCog
    <2> QED
      BY <1>1, <2>1, NothingShown
  <1>3. CASE ~(c < NumCogs)
    <2> DEFINE Short(s) == [i \in DOMAIN s |-> [s[i] EXCEPT !.on = Promised!Shortened(@)]]
    <2>1. vm' = [d \in Cogs |-> EarlierVm(vm[d])]
      BY <1>3 DEF NextCog
    <2>2. \A d \in Cogs : MachineOK(vm[d])
      BY MachinesOfInv
    <2>3. ChainInv'
      BY <1>1, <2>1, <2>2, HandlersEarlier DEF ChainInv
    <2>4. ASSUME NEW d \in Cogs PROVE Pending'[d] = Short(Pending[d])
      <3>1. CASE d \in lost
        <4>1. Pending[d] = <<>> /\ Pending'[d] = <<>>
          BY <1>1, <3>1 DEF Pending
        <4>2. Short(<<>>) = <<>>
          OBVIOUS
        <4> QED
          BY <4>1, <4>2
      <3>2. CASE d \notin lost
        <4>1. Pending[d] = HandlersOf(vm[d]) /\ Pending'[d] = HandlersOf(EarlierVm(vm[d]))
          BY <1>1, <2>1, <3>2 DEF Pending
        <4>2. HandlersOf(EarlierVm(vm[d])) = Short(HandlersOf(vm[d]))
          BY <2>2, HandlersEarlier
        <4> QED
          BY <4>1, <4>2
      <3> QED
        BY <3>1, <3>2
    <2>5. Pending' = [d \in Cogs |-> Short(Pending[d])]
      <3>1. Pending' = [d \in Cogs |-> Pending'[d]]
        BY DEF Pending
      <3> HIDE DEF Short
      <3> QED
        BY <2>4, <3>1
    <2>6. Promised!Frame
      BY <1>1, <2>5, Zenon DEF Pending, Promised!Frame
    <2> QED
      BY <2>3, <2>6, Zenon DEF Keeps, Promised!Next
  <1> QED
    BY <1>2, <1>3

LEMMA TickKeeps ==
    ASSUME IInv, ChainInv, NEW c \in Cogs, Tick(c)
    PROVE  Keeps /\ ChainInv'
  BY NextCogKeeps, TickPulseKeeps, TickTimerKeeps, TickWakeKeeps, Zenon
     DEF Tick, TickDisabled, TickNext

\* A saved game keeps one handler of a cog, without its message, and forgets the others.
LEMMA SaveAndLoadKeeps ==
    ASSUME IInv, ChainInv, SaveAndLoad
    PROVE  Keeps /\ ChainInv'
  <1> DEFINE Saved(c) == IF c \in lost' \/ Pending[c] = <<>> THEN <<>>
                         ELSE <<[Last(Pending[c]) EXCEPT !.msg = NoMessage]>>
  <1>1. /\ vm' = [c \in Cogs |-> SyncedVm(vm[c])] /\ UNCHANGED moving
        /\ lost' = lost \cup {c \in Cogs : vm[c].calls # <<>>}
    BY DEF SaveAndLoad
  <1>2. \A c \in Cogs : MachineOK(vm[c]) /\ vm[c] \in Machines
    BY MachinesOfInv
  <1>3. ASSUME NEW c \in Cogs \ lost'
        PROVE  /\ Chained(vm'[c]) /\ Len(Pending[c]) <= 1
               /\ HandlersOf(vm'[c]) = Saved(c)
    <2> DEFINE v == vm[c]
               w == SyncedVm(v)
               none == <<>>
               x == HandlerIn(v)
    <2>1. /\ c \notin lost /\ v.calls = none /\ v \in Machines /\ MachineOK(v) /\ vm'[c] = w
          /\ none \in Seq(Frame) /\ none = <<>>
      BY <1>1, <1>2, <1>3
    <2>2. Pending[c] = HandlersOf(v)
      BY <2>1 DEF Pending
    <2>3. CASE v.running = IDLE
      <3>1. w = Idle
        BY <2>3 DEF SyncedVm
      <3>2. Chained(w) /\ HandlersOf(w) = <<>>
        BY <3>1, ChainNone DEF Idle, HandlersOf
      <3>3. HandlersOf(v) = <<>>
        BY <2>3 DEF HandlersOf
      <3> QED
        BY <2>1, <2>2, <3>2, <3>3
    <2>4. CASE v.running # IDLE
      <3>1. w = [v EXCEPT !.trig = NoMessage, !.calls = none]
        BY <2>4 DEF SyncedVm
      <3> HIDE DEF v, w, none
      <3>2. w.trig = NoMessage /\ w.calls = none /\ w.running = v.running /\ w.wake = v.wake
        BY ONLY <2>1, <3>1 DEF Machines
      <3>3. Chained(w)
        BY <2>1, <3>2, ChainNone
      <3>4. HandlerIn(w) = [x EXCEPT !.msg = NoMessage]
        BY <3>2 DEF HandlerIn
      <3>5. HandlersOf(v) = Append(<<>>, x) /\ HandlersOf(w) = Append(<<>>, HandlerIn(w))
        BY <2>1, <2>4, <3>2, KeptNone DEF HandlersOf
      <3> HIDE DEF x
      <3>6. HandlersOf(v) = <<x>> /\ HandlersOf(w) = <<HandlerIn(w)>>
        BY <3>5
      <3>7. <<x>> # <<>> /\ Len(<<x>>) = 1 /\ Last(<<x>>) = x
        BY DEF Last
      <3>8. Saved(c) = <<[x EXCEPT !.msg = NoMessage]>>
        BY <1>3, <2>2, <3>6, <3>7
      <3> HIDE DEF Saved
      <3> QED
        BY <2>1, <2>2, <3>3, <3>4, <3>6, <3>7, <3>8
    <2> QED
      BY <2>3, <2>4
  <1>4. ChainInv'
    BY <1>3 DEF ChainInv
  <1>5. \A c \in Cogs : Len(Pending[c]) > 1 => c \in lost'
    <2> SUFFICES ASSUME NEW c \in Cogs, Len(Pending[c]) > 1, c \notin lost' PROVE FALSE
      OBVIOUS
    <2>1. Len(Pending[c]) <= 1 /\ Len(Pending[c]) \in Nat
      <3>1. Pending[c] \in Seq(Kinds)
        BY MachinesOfInv, PendingSeqs
      <3> DEFINE s == Pending[c]
      <3>2. Len(s) <= 1
        BY <1>3, Zenon
      <3> HIDE DEF s
      <3>3. Len(s) \in Nat
        BY <3>1 DEF s
      <3> QED
        BY <3>2, <3>3 DEF s
    <2> QED
      BY <2>1
  <1>6. ASSUME NEW c \in Cogs PROVE Pending'[c] = Saved(c)
    BY <1>3 DEF Pending
  <1>7. Pending' = [c \in Cogs |-> Saved(c)]
    <2>1. Pending' = [c \in Cogs |-> Pending'[c]]
      BY DEF Pending
    <2> HIDE DEF Saved
    <2> QED
      BY <1>6, <2>1
  <1>8. \A c \in Cogs : /\ Promised!Busy(c) <=> Pending[c] # <<>>
                        /\ Promised!Top(c) = Last(Pending[c])
    BY SeenAs, Zenon
  <1>9. Pending' = [c \in Cogs |->
             IF c \in lost' \/ ~Promised!Busy(c) THEN <<>>
             ELSE <<[Promised!Top(c) EXCEPT !.msg = NoMessage]>>]
    BY <1>7, <1>8
  <1>10. lost \subseteq lost'
    BY <1>1
  <1>11. Promised!Reload
    BY <1>1, <1>5, <1>9, <1>10, Zenon DEF Pending, Promised!Reload
  <1> QED
    BY <1>4, <1>11, Zenon DEF Keeps, Promised!Next

LEMMA PathKeeps ==
    ASSUME IInv, ChainInv, NEW t \in Paths, Arrive(t) \/ Depart(t)
    PROVE  Keeps /\ ChainInv'
  <1>1. UNCHANGED <<vm, lost>> /\ moving' \in SUBSET Paths
    BY DEF Arrive, Depart, IInv, Others
  <1>2. Pending' = Pending
    BY <1>1, PendingSame
  <1>3. Promised!Move
    BY <1>1, <1>2, Zenon DEF Pending, Promised!Move
  <1> QED
    BY <1>1, <1>3, Zenon DEF Keeps, Promised!Next, ChainInv

LEMMA NextKeeps == IInv /\ ChainInv /\ [Next]_vars => Keeps /\ ChainInv'
  <1> SUFFICES ASSUME IInv, ChainInv, [Next]_vars PROVE Keeps /\ ChainInv'
    OBVIOUS
  <1>1. CASE UNCHANGED vars \/ TickAll \/ Notify \/ CmdCogPause
    BY <1>1, NothingShown DEF vars, TickAll, Notify, CmdCogPause
  <1>2. CASE Inside
    BY <1>2, SendNextKeeps, ExecKeeps, TickKeeps, Zenon DEF Inside
  <1>3. CASE SaveAndLoad
    BY <1>3, SaveAndLoadKeeps
  <1>4. CASE \E t \in Paths : Arrive(t) \/ Depart(t)
    BY <1>4, PathKeeps, Zenon
  <1> QED
    BY <1>1, <1>2, <1>3, <1>4 DEF Next

LEMMA InitKeeps == Init => Promised!Init /\ ChainInv
  <1> SUFFICES ASSUME Init PROVE Promised!Init /\ ChainInv
    OBVIOUS
  <1>1. vm = [c \in Cogs |-> Idle] /\ lost = {} /\ moving = {}
    BY DEF Init
  <1>2. Idle.calls = <<>> /\ Idle.running = IDLE
    BY DEF Idle
  <1>3. ChainInv
    BY <1>1, <1>2, ChainNone DEF ChainInv
  <1>4. \A c \in Cogs : Pending[c] = <<>>
    BY <1>1, <1>2 DEF Pending, HandlersOf
  <1>5. Pending = [c \in Cogs |-> <<>>]
    BY <1>4 DEF Pending
  <1>6. moving \in SUBSET Paths
    BY <1>1
  <1> QED
    BY <1>1, <1>3, <1>5, <1>6, Zenon DEF Pending, Promised!Init

\* The handlers of every cog that was not lost are a stack: a message begins one on top, the
\* one on top stops, goes on when what it waits for is over, and ends, and those below wait
\* unchanged with their message and their sleep (sithCogExec_Call, sithCogExec_Ret,
\* sithCogExec_ExecCog, sithCogScript_Tick).
THEOREM HandlersAreAStack == Spec => HandlersNest
  <1>1. Init => Promised!Init /\ ChainInv
    BY InitKeeps
  <1>2. IInv /\ ChainInv /\ [Next]_vars => [Promised!Next]_(Promised!vars) /\ ChainInv'
    BY NextKeeps DEF Keeps
  <1>3. Spec => []IInv
    BY InvariantHolds
  <1> QED
    BY <1>1, <1>2, <1>3, PTL DEF Spec, HandlersNest, Promised!Spec

================================================================================
