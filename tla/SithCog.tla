-------------------------------- MODULE SithCog --------------------------------
(***************************************************************************)
(* COG scripts at run time (Cog/sithCog.c, Cog/sithCogExec.c and the verbs *)
(* of Cog/sithCogFunction*.c that change how a script runs).               *)
(*                                                                         *)
(* Each cog of the level owns a small machine: script_running, execPos,    *)
(* wakeTimeMs, trigId and a call stack of MaxFrames frames, used both by   *)
(* the CALL opcode and by messages that arrive while a handler sleeps or   *)
(* is itself in the middle of a verb.  The machines are driven by nested C *)
(* calls (a handler sends a message, its receiver runs at once), so the    *)
(* other half of the state is the C stack: the loops of sithCogExec_Exec,  *)
(* the cog that sithCogScript_TickAll has reached and the receivers that a *)
(* message has still to be given to.                                       *)
(*                                                                         *)
(* One step is one opcode, one test of the loop or one stage of a tick.    *)
(* Values and operands are left out, a conditional jump goes either way.   *)
(* A frame of the game is one unit of time; times are kept relative to     *)
(* sithTime_curMs, so -1 is "in the past".                                 *)
(***************************************************************************)
EXTENDS Integers, Sequences, FiniteSets, SequencesExt

CONSTANTS
    NumCogs,        \* the cogs of the level are 1..NumCogs, in the order of world->cogs
    Paths,          \* the things that move along a path
    Messages,       \* the messages in use, "pulse" and "timer" among them
    NoMessage,      \* trigId of a cog that no message has reached
    Programs,       \* the levels: for each a script for every cog (see Script)
    Routes,         \* the receivers of one message: class cog, capture cog, links; or all cogs
    MaxFrames,      \* size of sithCog.callstack
    MaxSleep,       \* bound on the sleeps and periods of the scripts
    MaxMessages     \* bound on the messages, commands and saved games from outside

Cogs == 1..NumCogs

\* script_running
IDLE == 0      \* no handler
RUNNING == 1   \* in the loop of sithCogExec_Exec
SLEEPING == 2  \* until wakeTimeMs
WAITING == 3   \* for the thing wakeTimeMs to stop
NESTED == 4    \* was running when a message reached the cog

Ops ==
    {[op |-> o] : o \in {"work", "ret", "reset"}}
    \cup [op : {"sleep", "pulse", "timer"}, ms : 0..MaxSleep]
    \cup [op : {"wait"}, thing : Paths]
    \cup [op : {"send"}, cog : Cogs, msg : Messages]
    \cup [op : {"call", "branch"}, to : Nat]

ASSUME SithCogAssumption ==
    /\ NumCogs \in Nat \ {0}
    /\ MaxFrames \in Nat \ {0}
    /\ MaxSleep \in Nat /\ MaxMessages \in Nat
    /\ {"pulse", "timer"} \subseteq Messages /\ NoMessage \notin Messages
    /\ Routes \subseteq Seq(Cogs) \ {<<>>}
    /\ \A p \in Programs :
          /\ DOMAIN p = Cogs
          /\ \A c \in Cogs :
                /\ p[c].code \in Seq(Ops)
                /\ DOMAIN p[c].trig \subseteq Messages
                /\ \A m \in DOMAIN p[c].trig : p[c].trig[m] \in DOMAIN p[c].code
                /\ p[c].here \in BOOLEAN

VARIABLES
    script,     \* the program of the level, chosen at the start: for each cog its
                \* code, the pc of each message it handles, and whether it runs on
                \* this machine (host, single player or SITH_COG_LOCAL)
    vm,         \* for each cog: running, pc, wake, trig and calls
    alarm,      \* for each cog: SITH_COG_PULSE_SET, SITH_COG_TIMER_SET and their times
    disabled,   \* the cogs with SITH_COG_DISABLED
    moving,     \* the things with trackParams.flags & 3
    cstack,     \* the C calls in progress, the innermost last
    budget      \* how many messages and commands may still come from outside

\* What the code does not record; only the properties read it.
VARIABLES
    lost        \* the cogs one of whose handlers was forgotten

vars == <<script, vm, alarm, disabled, moving, cstack, budget, lost>>

Times == -1..MaxSleep
Frame == [pc : Nat, running : {RUNNING, SLEEPING, WAITING, NESTED},
          wake : Times \cup Paths, trig : Messages \cup {NoMessage}]
Idle == [running |-> IDLE, pc |-> 0, wake |-> -1, trig |-> NoMessage, calls |-> <<>>]
Silent == [pulse |-> FALSE, period |-> 0, next |-> 0, timer |-> FALSE, due |-> 0]

Loop(c, by) == [fn |-> "Exec", cog |-> c, by |-> by]
Ticking(c, at) == [fn |-> "Tick", cog |-> c, at |-> at]
Sending(m, to) == [fn |-> "Send", msg |-> m, to |-> to]

-------------------------------------------------------------------------------
(* sithCogExec.c: the call stack of a cog *)

Full(v) == Len(v.calls) = MaxFrames

\* bug: the fifth frame is written behind the end of callstack
CalledUnbounded(v) ==
    [v EXCEPT !.calls = Append(@,
         [pc |-> v.pc, running |-> v.running, wake |-> v.wake, trig |-> v.trig])]

\* sithCogExec_Call: a fifth frame is not kept.
Called(v) ==
    IF Full(v) THEN v
    ELSE [v EXCEPT !.calls = Append(@,
             [pc |-> v.pc, running |-> v.running, wake |-> v.wake, trig |-> v.trig])]

\* bug: the time or the thing that the handler waits for is not restored
ReturnedUnwoken(v) ==
    IF v.calls = <<>> THEN [v EXCEPT !.running = IDLE]
    ELSE LET f == Last(v.calls)
         IN [running |-> f.running, pc |-> f.pc, wake |-> v.wake, trig |-> f.trig,
             calls |-> Front(v.calls)]

\* sithCogExec_Ret
Returned(v) ==
    IF v.calls = <<>> THEN [v EXCEPT !.running = IDLE]
    ELSE LET f == Last(v.calls)
         IN [running |-> f.running, pc |-> f.pc, wake |-> f.wake, trig |-> f.trig,
             calls |-> Front(v.calls)]

\* The first assignment of sithCogExec_Exec.  wakeTimeMs is not read again.
Running(v) == [v EXCEPT !.running = RUNNING, !.wake = -1]

\* sithCogExec_ExecCog up to its call of sithCogExec_Exec.
Interrupted(v) ==
    IF v.running = IDLE THEN v
    ELSE Called(IF v.running = RUNNING THEN [v EXCEPT !.running = NESTED] ELSE v)

Entered(c, v, m) ==
    Running([Interrupted(v) EXCEPT !.pc = script[c].trig[m], !.trig = m])

-------------------------------------------------------------------------------
(* sithCog.c: messages *)

\* sithCog_SendMessage and SendMessageEx: whether the message begins a handler here.
\* A cog of another machine gets it over the network, but for pulses and timers.
Accepts(c, m) ==
    /\ c \notin disabled
    /\ m \in DOMAIN script[c].trig
    /\ script[c].here \/ m \in {"startup", "shutdown"}

\* A message reaches cog c in state machines, with the C calls stack in progress.
Deliver(c, m, machines, stack) ==
    IF Accepts(c, m)
    THEN /\ vm' = [machines EXCEPT ![c] = Entered(c, @, m)]
         /\ cstack' = Append(stack, Loop(c, "ExecCog"))
         /\ lost' = IF machines[c].running # IDLE /\ Full(machines[c]) THEN lost \cup {c} ELSE lost
    ELSE vm' = machines /\ cstack' = stack /\ UNCHANGED lost

\* A message for a list of cogs is given to one after the other: SendMessageFromThingEx
\* (class cog, capture cog, links), FromSurfaceEx, FromSectorEx and SendMessageToAll.
SendNext ==
    /\ cstack # <<>> /\ Last(cstack).fn = "Send"
    /\ LET s == Last(cstack)
           rest == IF Len(s.to) = 1 THEN Front(cstack)
                   ELSE Append(Front(cstack), Sending(s.msg, Tail(s.to)))
       IN Deliver(Head(s.to), s.msg, vm, rest)
    /\ UNCHANGED <<script, alarm, disabled, moving, budget>>

-------------------------------------------------------------------------------
(* sithCogExec_Exec *)

InLoop(c) == cstack # <<>> /\ Last(cstack).fn = "Exec" /\ Last(cstack).cog = c

\* Past the end of the code sithCogExec_PopProgramVal says RET.
OpAt(c) == IF vm[c].pc \in DOMAIN script[c].code THEN script[c].code[vm[c].pc] ELSE [op |-> "ret"]

\* The opcode at execPos, when the loop goes round.
Fetch(c, o) == InLoop(c) /\ vm[c].running = RUNNING /\ OpAt(c).op = o

Past(c) == [vm[c] EXCEPT !.pc = @ + 1]
Become(c, v) ==
    /\ vm' = [vm EXCEPT ![c] = v]
    /\ UNCHANGED <<script, disabled, moving, cstack, budget, lost>>

\* Any opcode that only computes or changes the world.
Work(c) ==
    /\ Fetch(c, "work")
    /\ Become(c, Past(c))
    /\ UNCHANGED alarm

\* CALL with all frames in use does not read its operand, and the loop takes it, an
\* address, for the next opcode.  Most addresses are none and are passed over; a small
\* one may be the number of RET, of a push that takes the next words with it, or of a
\* jump.
Misread(c) == Fetch(c, "call") /\ Full(vm[c])

\* Where an address that is misread leads: on.  (To go back it would have to be that of
\* a jump, followed by a word that is an earlier address.)
Jumps(c) ==
    IF Misread(c) THEN vm[c].pc + 1 .. Len(script[c].code) + 1
    ELSE {vm[c].pc + 1, OpAt(c).to}

\* GO, GOTRUE, GOFALSE
Branch(c) ==
    /\ Fetch(c, "branch") \/ Misread(c)
    /\ \E pc \in Jumps(c) : Become(c, [vm[c] EXCEPT !.pc = pc])
    /\ UNCHANGED alarm

CallSub(c) ==
    /\ Fetch(c, "call") /\ ~Full(vm[c])
    /\ Become(c, [Called(Past(c)) EXCEPT !.pc = OpAt(c).to])
    /\ UNCHANGED alarm

Ret(c) ==
    /\ Fetch(c, "ret") \/ Misread(c)
    /\ Become(c, Returned(Past(c)))
    /\ UNCHANGED alarm

\* sithCogFunction_Sleep; PlaySoundLocal-and-wait does the same with the sound's length.
Sleep(c) ==
    /\ Fetch(c, "sleep")
    /\ Become(c, [Past(c) EXCEPT !.running = SLEEPING, !.wake = OpAt(c).ms])
    /\ UNCHANGED alarm

\* sithCogFunctionThing_WaitForStop
WaitForStop(c) ==
    /\ Fetch(c, "wait")
    /\ Become(c, IF OpAt(c).thing \in moving
                 THEN [Past(c) EXCEPT !.running = WAITING, !.wake = OpAt(c).thing]
                 ELSE Past(c))
    /\ UNCHANGED alarm

\* sithCogFunction_SetPulse; no period cancels it.
SetPulse(c) ==
    /\ Fetch(c, "pulse")
    /\ Become(c, Past(c))
    /\ LET ms == OpAt(c).ms IN
       alarm' = [alarm EXCEPT ![c] = IF ms = 0 THEN [@ EXCEPT !.pulse = FALSE]
                                     ELSE [@ EXCEPT !.pulse = TRUE, !.period = ms, !.next = ms]]

\* sithCogFunction_SetTimer
SetTimer(c) ==
    /\ Fetch(c, "timer")
    /\ Become(c, Past(c))
    /\ LET ms == OpAt(c).ms IN
       alarm' = [alarm EXCEPT ![c] = IF ms = 0 THEN [@ EXCEPT !.timer = FALSE]
                                     ELSE [@ EXCEPT !.timer = TRUE, !.due = ms]]

\* sithCogFunction_Reset
Reset(c) ==
    /\ Fetch(c, "reset")
    /\ vm' = [vm EXCEPT ![c] = [Past(c) EXCEPT !.calls = <<>>]]
    /\ lost' = IF vm[c].calls = <<>> THEN lost ELSE lost \cup {c}
    /\ UNCHANGED <<script, alarm, disabled, moving, cstack, budget>>

\* sithCogFunction_SendMessage, SendMessageEx: the receiver's handler runs inside the verb.
Send(c) ==
    /\ Fetch(c, "send")
    /\ Deliver(OpAt(c).cog, OpAt(c).msg, [vm EXCEPT ![c] = Past(c)], cstack)
    /\ UNCHANGED <<script, alarm, disabled, moving, budget>>

\* bug: nobody gives the interrupted loop its 1 back
LoopEndsNested(c) ==
    /\ InLoop(c) /\ vm[c].running # RUNNING
    /\ lost' = IF vm[c].running = IDLE THEN lost \ {c} ELSE lost
    /\ cstack' = Front(cstack)
    /\ UNCHANGED <<script, vm, alarm, disabled, moving, budget>>

\* The loop stops when script_running is not 1 any more.  ExecCog then gives the
\* interrupted loop of the same cog its 1 back; a loop begun by Tick does not.
LoopEnds(c) ==
    /\ InLoop(c) /\ vm[c].running # RUNNING
    /\ LET nested == vm[c].running = NESTED
           byTick == Last(cstack).by = "Tick"
       IN /\ vm' = IF nested /\ ~byTick THEN [vm EXCEPT ![c].running = RUNNING] ELSE vm
          /\ lost' = IF vm[c].running = IDLE THEN lost \ {c}
                     ELSE IF nested /\ byTick THEN lost \cup {c} ELSE lost
    /\ cstack' = Front(cstack)
    /\ UNCHANGED <<script, alarm, disabled, moving, budget>>

Exec(c) ==
    \/ Work(c) \/ Branch(c) \/ CallSub(c) \/ Ret(c)
    \/ Sleep(c) \/ WaitForStop(c) \/ Reset(c)
    \/ SetPulse(c) \/ SetTimer(c) \/ Send(c)
    \/ LoopEnds(c)

-------------------------------------------------------------------------------
(* sithCogScript_TickAll and Tick: once a frame, every cog in turn *)

TickAll ==
    /\ cstack = <<>>
    /\ cstack' = <<Ticking(1, "pulse")>>
    /\ UNCHANGED <<script, vm, alarm, disabled, moving, budget, lost>>

AtTick(c, at) == cstack # <<>> /\ Last(cstack) = Ticking(c, at)
Stage(frame) == Append(Front(cstack), frame)

\* The next cog, or the end of the frame: sithTime_Tick moves the clock on.
Sooner(t) == IF t \in Nat THEN t - 1 ELSE t
EarlierFrame(f) == IF f.running = SLEEPING THEN [f EXCEPT !.wake = Sooner(@)] ELSE f
EarlierVm(v) ==
    [v EXCEPT !.wake = IF v.running = SLEEPING THEN Sooner(@) ELSE @,
              !.calls = [i \in DOMAIN @ |-> EarlierFrame(@[i])]]
Floor(t) == IF t = 0 THEN 0 ELSE t - 1
EarlierAlarm(a) == [a EXCEPT !.next = Floor(@), !.due = Floor(@)]

NextCog(c) ==
    /\ IF c < NumCogs
       THEN cstack' = Stage(Ticking(c + 1, "pulse")) /\ UNCHANGED <<vm, alarm>>
       ELSE /\ cstack' = <<>>
            /\ vm' = [d \in Cogs |-> EarlierVm(vm[d])]
            /\ alarm' = [d \in Cogs |-> EarlierAlarm(alarm[d])]
    /\ UNCHANGED <<script, disabled, moving, budget, lost>>

TickDisabled(c) == AtTick(c, "pulse") /\ c \in disabled /\ NextCog(c)

TickPulse(c) ==
    /\ AtTick(c, "pulse") /\ c \notin disabled
    /\ IF alarm[c].pulse /\ alarm[c].next = 0
       THEN /\ alarm' = [alarm EXCEPT ![c].next = alarm[c].period]
            /\ Deliver(c, "pulse", vm, Stage(Ticking(c, "timer")))
       ELSE cstack' = Stage(Ticking(c, "timer")) /\ UNCHANGED <<alarm, vm, lost>>
    /\ UNCHANGED <<script, disabled, moving, budget>>

TickTimer(c) ==
    /\ AtTick(c, "timer")
    /\ IF alarm[c].timer /\ alarm[c].due = 0
       THEN /\ alarm' = [alarm EXCEPT ![c].timer = FALSE]
            /\ Deliver(c, "timer", vm, Stage(Ticking(c, "wake")))
       ELSE cstack' = Stage(Ticking(c, "wake")) /\ UNCHANGED <<alarm, vm, lost>>
    /\ UNCHANGED <<script, disabled, moving, budget>>

\* bug: nobody looks whether the thing has stopped
DueBySleep(v) == v.running = SLEEPING /\ v.wake < 0

\* A sleep is over when its time lies in the past, a wait when the thing has stopped.
Due(v) ==
    \/ v.running = SLEEPING /\ v.wake < 0
    \/ v.running = WAITING /\ v.wake \notin moving

TickWake(c) ==
    /\ AtTick(c, "wake") /\ Due(vm[c])
    /\ vm' = [vm EXCEPT ![c] = Running(@)]
    /\ cstack' = Append(Stage(Ticking(c, "done")), Loop(c, "Tick"))
    /\ UNCHANGED <<script, alarm, disabled, moving, budget, lost>>

TickNext(c) ==
    /\ AtTick(c, "done") \/ (AtTick(c, "wake") /\ ~Due(vm[c]))
    /\ NextCog(c)

Tick(c) ==
    \/ TickDisabled(c) \/ TickPulse(c) \/ TickTimer(c) \/ TickWake(c) \/ TickNext(c)

-------------------------------------------------------------------------------
(* What happens to the cogs from outside, between two ticks *)

Outside == cstack = <<>> /\ budget > 0 /\ budget' = budget - 1

\* Things, surfaces, sectors, timers of sithEvent, other machines and the level itself
\* send messages.
Notify ==
    /\ Outside
    /\ \E m \in Messages \ {"pulse"}, to \in Routes : cstack' = <<Sending(m, to)>>
    /\ UNCHANGED <<script, vm, alarm, disabled, moving, lost>>

\* The console command that pauses a cog.
CmdCogPause ==
    /\ Outside
    /\ \E c \in Cogs : disabled' = IF c \in disabled THEN disabled \ {c} ELSE disabled \cup {c}
    /\ UNCHANGED <<script, vm, alarm, moving, cstack, lost>>

\* A game is saved and loaded again: a cog is written with script_running, wakeTimeMs and
\* execPos, but neither its frames nor trigId (sithDSSCog_SendSyncCog, ProcessSyncCog).
SyncedVm(v) == IF v.running = IDLE THEN Idle ELSE [v EXCEPT !.trig = NoMessage, !.calls = <<>>]
SaveAndLoad ==
    /\ Outside
    /\ vm' = [c \in Cogs |-> SyncedVm(vm[c])]
    /\ lost' = lost \cup {c \in Cogs : vm[c].calls # <<>>}
    /\ UNCHANGED <<script, alarm, disabled, moving, cstack>>

\* A thing arrives, or sets out on its path.
Arrive(t) ==
    /\ cstack = <<>> /\ t \in moving
    /\ moving' = moving \ {t}
    /\ UNCHANGED <<script, vm, alarm, disabled, cstack, budget, lost>>

Depart(t) ==
    /\ Outside /\ t \notin moving
    /\ moving' = moving \cup {t}
    /\ UNCHANGED <<script, vm, alarm, disabled, cstack, lost>>

-------------------------------------------------------------------------------

Init ==
    /\ script \in Programs
    /\ vm = [c \in Cogs |-> Idle]
    /\ alarm = [c \in Cogs |-> Silent]
    /\ disabled = {} /\ moving = {} /\ cstack = <<>>
    /\ budget = MaxMessages
    /\ lost = {}

Inside == SendNext \/ \E c \in Cogs : Exec(c) \/ Tick(c)
Next ==
    \/ Inside \/ TickAll
    \/ Notify \/ CmdCogPause \/ SaveAndLoad
    \/ \E t \in Paths : Arrive(t) \/ Depart(t)

Spec == Init /\ [][Next]_vars

\* sithMain_Tick comes round for ever, C calls return, and a path has an end.
Fairness == WF_vars(Inside) /\ WF_vars(TickAll) /\ \A t \in Paths : SF_vars(Arrive(t))
FairSpec == Spec /\ Fairness

-------------------------------------------------------------------------------

Machines ==
    [running : {IDLE, RUNNING, SLEEPING, WAITING, NESTED}, pc : Nat, wake : Times \cup Paths,
     trig : Messages \cup {NoMessage}, calls : Seq(Frame)]
Alarms == [pulse : BOOLEAN, period : 0..MaxSleep, next : 0..MaxSleep,
           timer : BOOLEAN, due : 0..MaxSleep]
Calls ==
    [fn : {"Exec"}, cog : Cogs, by : {"ExecCog", "Tick"}]
    \cup [fn : {"Tick"}, cog : Cogs, at : {"pulse", "timer", "wake", "done"}]
    \cup [fn : {"Send"}, msg : Messages, to : Seq(Cogs) \ {<<>>}]

\* Every variable has its type, and no cog uses more frames than it has.
TypeOK ==
    /\ script \in Programs
    /\ vm \in [Cogs -> Machines] /\ \A c \in Cogs : Len(vm[c].calls) <= MaxFrames
    /\ alarm \in [Cogs -> Alarms]
    /\ disabled \subseteq Cogs /\ moving \subseteq Paths /\ budget \in 0..MaxMessages
    /\ cstack \in Seq(Calls)
    /\ lost \subseteq Cogs

Loops(c) == {i \in DOMAIN cstack : cstack[i].fn = "Exec" /\ cstack[i].cog = c}

\* script_running says what the C stack says: between two ticks no cog claims to be
\* running, and a cog that does has a loop to run it (code: the 1 -> 4 -> 1 of
\* sithCogExec_ExecCog around nested calls).  It fails for a lost cog only.
RunningHasLoop ==
    \A c \in Cogs \ lost :
        vm[c].running \in {RUNNING, NESTED} => Loops(c) # {}

\* What a machine is doing, and the handlers that its frames stand for: a frame that a
\* message pushed holds 2, 3 or 4, one of a CALL holds 1.
Doing(running, wake) ==
    CASE running = SLEEPING -> <<"sleeps", wake>>
      [] running = WAITING -> <<"waits", wake>>
      [] OTHER -> <<"runs">>

HandlerIn(f) == [msg |-> f.trig, on |-> Doing(f.running, f.wake)]

Begun(calls) == {i \in DOMAIN calls : calls[i].running # RUNNING}
Nth(S, n) == CHOOSE i \in S : Cardinality({j \in S : j <= i}) = n
Kept(calls) ==
    [n \in 1 .. Cardinality(Begun(calls)) |-> HandlerIn(calls[Nth(Begun(calls), n)])]

HandlersOf(v) == IF v.running = IDLE THEN <<>> ELSE Append(Kept(v.calls), HandlerIn(v))

Promised == INSTANCE CogHandlers WITH
    pending <- [c \in Cogs |-> IF c \in lost THEN <<>> ELSE HandlersOf(vm[c])]

\* The handlers of a cog are a stack, and whoever is interrupted goes on as it was, with
\* the message, the sleep and the thing it had (code: frames of sithCogExec_Call and _Ret).
HandlersNest == Promised!Spec

\* A cog whose handlers do not sleep for ever comes to rest again and again, unless it was
\* disabled or lost: no handler hangs (code: Tick, ExecCog).
ComesToRest ==
    \A c \in Cogs : []<>(vm[c].running = IDLE \/ c \in disabled \cup lost)

================================================================================
