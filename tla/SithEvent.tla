------------------------------- MODULE SithEvent ------------------------------
(***************************************************************************)
(* The timers of the game: Gameplay/sithEvent.c (a list of one-shot timers *)
(* in a fixed pool, and five tasks of which some are periodic), the COG    *)
(* verbs SetTimerEx and KillTimerEx that feed it, and the way a saved game *)
(* carries it over.  One thread runs everything; what interleaves is the   *)
(* handlers that sithEvent_Advance calls, which arm and kill timers while  *)
(* Advance walks the list.                                                 *)
(***************************************************************************)
EXTENDS Integers, Sequences, FiniteSets

CONSTANTS
    NumEvents,   \* 256: the pool sithEvent_aEvents
    NumTasks,    \* sithEvent_Advance looks at the tasks 1 .. 4
    NetTask,     \* 2: the task sithMulti and sithCommand register and disable
    NetRates,    \* the rates they ask for
    AiTask,      \* 3: the task of sithAIAwareness, on while a level is open
    AiRate,      \* 1000
    TimeSpan,    \* 2^32: times are uint32_t
    MaxDelta,    \* SITHTIME_MAXDELTA: the longest frame
    Cogs,        \* the scripts that use timers
    TimerIds,    \* the ids they give them; an id that is not positive cannot be killed
    Delays,      \* the delays they ask for
    \* bounds of the model, not of the code
    MaxArms,     \* how many timers are armed in all
    MaxRegisters, \* how often NetTask is registered or disabled
    MaxSaves,    \* how often the game is saved
    MaxLoads,    \* how often a saved game is loaded
    MaxLevels,   \* how often a level is opened
    Horizon      \* where the clock stops

Slots == 0 .. NumEvents - 1
Tasks == 1 .. NumTasks
NoSlot == NumEvents
NoSave == [ms |-> 0, timers |-> <<>>, made |-> FALSE]

ASSUME EventAssumption ==
    /\ NumEvents \in Nat \ {0} /\ NumTasks \in Nat \ {0}
    /\ MaxDelta \in Nat \ {0} /\ Horizon \in Nat
    /\ NetTask \in Tasks /\ AiTask \in Tasks \ {NetTask}
    /\ TimerIds \subseteq Int /\ Delays \subseteq Nat
    /\ NetRates \subseteq Nat /\ AiRate \in Nat
    /\ TimeSpan \in Nat
    /\ \A d \in Delays \cup NetRates \cup {AiRate} : Horizon + d < TimeSpan
    /\ MaxArms \in Nat /\ MaxRegisters \in Nat /\ MaxSaves \in Nat /\ MaxLoads \in Nat /\ MaxLevels \in Nat

VARIABLES
    list,     \* sithEvent_list, as the sequence of the slots it links
    event,    \* sithEvent_aEvents: endMs and timerInfo; seq is history
    free,     \* sithEvent_arrLut[0 .. numFreeEventBuffers - 1]
    tasks,    \* sithEvent_aTasks: startMode (periodic or not), rate, creationMs
    open,     \* sithEvent_bOpen
    curMs,    \* sithTime_curMs
    phase,    \* between two calls of Advance, inside one, or inside sithMain_Open
    idx,      \* the task Advance is at
    current,  \* the event whose handler runs, already off the list
    saved,    \* the saved game: sithTime_curMs and the DSS_SYNCEVENTS messages
    arms,     \* history: how many timers have been armed
    armedBefore, \* history: arms when Advance began
    budget    \* how many registrations, saves, loads and levels are left

vars == <<list, event, free, tasks, open, curMs, phase, idx, current, saved,
          arms, armedBefore, budget>>

Clear == [endMs |-> 0, cog |-> "none", timer |-> 0, seq |-> 0]

-----------------------------------------------------------------------------
(* sithEvent_Reset, Set and Kill *)

\* bug: counted down from 256 after the use, not before
ResetFreeFromTop == [i \in 1 .. NumEvents |-> NumEvents - i + 1]

\* arrLut[i] = 255 - i: slot 0 is on top of the stack
ResetFree == [i \in 1 .. NumEvents |-> NumEvents - i]

Reset ==
    /\ event' = [s \in Slots |-> Clear]
    /\ free' = ResetFree
    /\ list' = <<>>

\* the new timer goes before the first one that ends later
InsertAt(ends, endMs) ==
    CHOOSE k \in 1 .. Len(ends) + 1 :
        /\ k = Len(ends) + 1 \/ ends[k] > endMs
        /\ \A j \in 1 .. k - 1 : ends[j] <= endMs

Ends(l, e) == [k \in DOMAIN l |-> e[l[k]].endMs]

Inserted(l, e, slot, endMs) ==
    LET k == InsertAt(Ends(l, e), endMs)
    IN  SubSeq(l, 1, k - 1) \o <<slot>> \o SubSeq(l, k, Len(l))

\* With the pool empty Set returns 0, and no caller looks at that.
Set(cog, timer, when) ==
    IF free = <<>>
    THEN UNCHANGED <<list, event, free, arms>>
    ELSE LET slot == free[Len(free)]
             endMs == (curMs + when) % TimeSpan
         IN  /\ free' = SubSeq(free, 1, Len(free) - 1)
             /\ list' = Inserted(list, event, slot, endMs)
             /\ event' = [event EXCEPT ![slot] =
                    [endMs |-> endMs, cog |-> cog, timer |-> timer, seq |-> arms + 1]]
             /\ arms' = arms + 1

\* sithEvent_Kill, for the slots of the sequence l one after another
KillAll(l) ==
    /\ event' = [s \in Slots |-> IF \E k \in DOMAIN l : l[k] = s THEN Clear ELSE event[s]]
    /\ free' = free \o l

-----------------------------------------------------------------------------
(* sithCogFunction_SetTimerEx and KillTimerEx: called by scripts, in the    *)
(* frame, in the handlers that Advance calls and while a level opens.       *)

ScriptsRun == open /\ phase \in {"loading", "frame", "taskHandler", "handler"}

SetTimerEx(cog, timer, when) ==
    /\ ScriptsRun /\ arms < MaxArms
    /\ Set(cog, timer, when)
    /\ UNCHANGED <<tasks, open, curMs, phase, idx, current, saved, armedBefore, budget>>

Nth(S, k) == CHOOSE i \in S : Cardinality({j \in S : j <= i}) = k
\* the elements of l at the positions in S, in their order
At(l, S) == [k \in 1 .. Cardinality(S) |-> l[Nth(S, k)]]

KillTimerEx(cog, timer) ==
    LET hit == {k \in DOMAIN list : event[list[k]].cog = cog /\ event[list[k]].timer = timer}
    IN  /\ ScriptsRun
        /\ timer > 0 /\ hit # {}
        /\ list' = At(list, DOMAIN list \ hit)
        /\ KillAll(At(list, hit))
        /\ UNCHANGED <<tasks, open, curMs, phase, idx, current, saved, arms,
                       armedBefore, budget>>

\* sithEvent_RegisterFunc
Registered(t, k, periodic, rate) ==
    [t EXCEPT ![k] = [periodic |-> periodic, rate |-> rate, creationMs |-> curMs]]

\* sithMulti and sithCommand, between two calls of Advance
RegisterFunc(periodic, rate) ==
    /\ phase = "frame" /\ budget.registers > 0
    /\ tasks' = Registered(tasks, NetTask, periodic, rate)
    /\ budget' = [budget EXCEPT !.registers = @ - 1]
    /\ UNCHANGED <<list, event, free, open, curMs, phase, idx, current, saved, arms,
                   armedBefore>>

-----------------------------------------------------------------------------
(* The frame: sithTime_Tick, then sithEvent_Advance. *)

Tick(delta) ==
    /\ open /\ phase = "frame"
    /\ curMs + delta <= Horizon
    /\ curMs' = curMs + delta
    /\ phase' = "tasks" /\ idx' = 1
    /\ armedBefore' = arms
    /\ UNCHANGED <<list, event, free, tasks, open, current, saved, arms, budget>>

\* bug: signed
AgeSigned(k) == curMs - tasks[k].creationMs

\* unsigned: a task created later than now is very old
Age(k) == (curMs - tasks[k].creationMs) % TimeSpan
TaskDue(k) == tasks[k].periodic /\ Age(k) > tasks[k].rate

\* the loop over the tasks, up to the next handler it calls
AdvanceTasks ==
    LET due == {k \in Tasks : k >= idx /\ TaskDue(k)}
    IN  /\ phase = "tasks"
        /\ \/ /\ due # {}
              /\ idx' \in due /\ \A k \in due : idx' <= k
              /\ phase' = "taskHandler"
           \/ /\ due = {}
              /\ phase' = "events" /\ idx' = 1
        /\ UNCHANGED <<list, event, free, tasks, open, curMs, current, saved, arms,
                       armedBefore, budget>>

\* sithAIAwareness_Tick and sithMulti_ServerLeft return 1, always
TaskReturns ==
    /\ phase = "taskHandler"
    /\ tasks' = [tasks EXCEPT ![idx].creationMs = curMs]
    /\ phase' = "tasks" /\ idx' = idx + 1
    /\ UNCHANGED <<list, event, free, open, curMs, current, saved, arms, armedBefore,
                   budget>>

\* bugs: a timer that is due now fires; one that was due earlier is missed
NextIsDueNow == list # <<>> /\ event[list[1]].endMs <= curMs
NextWasJustDue == list # <<>> /\ event[list[1]].endMs = curMs - 1

NextIsDue == list # <<>> /\ event[list[1]].endMs < curMs

\* bug: the slot is freed before the handler has run
TakeNextFreed == list' = Tail(list) /\ current' = list[1] /\ KillAll(<<list[1]>>)

TakeNext == list' = Tail(list) /\ current' = list[1] /\ UNCHANGED <<event, free>>

\* Every event has taskNum 4, whose handler is set as long as a level runs.
AdvanceEvent ==
    /\ phase = "events"
    /\ \/ NextIsDue /\ TakeNext /\ phase' = "handler"
       \/ ~NextIsDue /\ phase' = "frame" /\ UNCHANGED <<list, event, free, current>>
    /\ UNCHANGED <<tasks, open, curMs, idx, saved, arms, armedBefore, budget>>

HandlerReturns ==
    /\ phase = "handler"
    /\ KillAll(<<current>>)
    /\ current' = NoSlot
    /\ phase' = "events"
    /\ UNCHANGED <<list, tasks, open, curMs, idx, saved, arms, armedBefore, budget>>

-----------------------------------------------------------------------------
(* Saved games and levels, between two frames. *)

\* bug: the time itself is saved
RemainingAbsolute == [k \in DOMAIN list |->
    LET e == event[list[k]]
    IN  [left |-> e.endMs, cog |-> e.cog, timer |-> e.timer, seq |-> e.seq]]

\* sithGamesave_SerializeAllThings: one DSS_SYNCEVENTS message per timer, in
\* the order of the list, with the time that is left
Remaining == [k \in DOMAIN list |->
    LET e == event[list[k]]
    IN  [left |-> (e.endMs - curMs) % TimeSpan, cog |-> e.cog, timer |-> e.timer,
         seq |-> e.seq]]

Save ==
    /\ open /\ phase = "frame" /\ budget.saves > 0
    /\ saved' = [ms |-> curMs, timers |-> Remaining, made |-> TRUE]
    /\ budget' = [budget EXCEPT !.saves = @ - 1]
    /\ UNCHANGED <<list, event, free, tasks, open, curMs, phase, idx, current, arms,
                   armedBefore>>

\* sithGamesave_LoadEntry, in the same level or after closing it and opening
\* another: Reset, sithTime_SetMs, then sithDSS_ProcessSyncEvents calls Set for
\* every message.  The timers take the slots 0, 1, 2, ... and each goes behind
\* those that end before it or with it.
LoadedEnd(k) == (saved.ms + saved.timers[k].left) % TimeSpan
LoadedPlace(k) == Cardinality({j \in DOMAIN saved.timers :
    LoadedEnd(j) < LoadedEnd(k) \/ (LoadedEnd(j) = LoadedEnd(k) /\ j <= k)})

Load(reopens) ==
    LET n == Len(saved.timers)
    IN  /\ phase = "frame" /\ saved.made /\ budget.loads > 0
        /\ open \/ reopens
        /\ curMs' = saved.ms
        /\ event' = [s \in Slots |-> IF s >= n THEN Clear
              ELSE [endMs |-> LoadedEnd(s + 1), cog |-> saved.timers[s + 1].cog,
                    timer |-> saved.timers[s + 1].timer, seq |-> saved.timers[s + 1].seq]]
        /\ free' = SubSeq(ResetFree, 1, NumEvents - n)
        /\ list' = [p \in 1 .. n |-> (CHOOSE k \in 1 .. n : LoadedPlace(k) = p) - 1]
        /\ open' = TRUE
        /\ tasks' = IF reopens THEN Registered(tasks, AiTask, TRUE, AiRate) ELSE tasks
        /\ budget' = [budget EXCEPT !.loads = @ - 1]
        /\ UNCHANGED <<phase, idx, current, saved, arms, armedBefore>>

\* sithMain_Mode1Init and, in a network game, Mode1Init_3, up to the point where
\* sithMain_Open has the scripts handle LOADING.  Only the first sets the clock
\* to 0 before that.
OpenLevel(online) ==
    /\ ~open /\ budget.levels > 0
    /\ open' = TRUE
    /\ curMs' = IF online THEN curMs ELSE 0
    /\ phase' = "loading"
    /\ budget' = [budget EXCEPT !.levels = @ - 1]
    /\ UNCHANGED <<list, event, free, tasks, idx, current, saved, arms, armedBefore>>

\* The rest of sithMain_Open, and the sithTime_Startup after it.
LevelOpened ==
    /\ phase = "loading"
    /\ tasks' = Registered(tasks, AiTask, TRUE, AiRate)
    /\ curMs' = 0
    /\ phase' = "frame"
    /\ UNCHANGED <<list, event, free, open, idx, current, saved, arms, armedBefore, budget>>

\* sithMain_Close
CloseLevel ==
    /\ open /\ phase = "frame"
    /\ open' = FALSE
    /\ Reset
    /\ tasks' = Registered(tasks, AiTask, FALSE, 0)
    /\ UNCHANGED <<curMs, phase, idx, current, saved, arms, armedBefore, budget>>

-----------------------------------------------------------------------------
\* Before the first level, or between two with nothing saved: the clock, 0 when
\* the program starts, is where the level before left it.
Init ==
    /\ list = <<>> /\ event = [s \in Slots |-> Clear] /\ free = ResetFree
    /\ tasks = [k \in Tasks |-> [periodic |-> FALSE, rate |-> 0, creationMs |-> 0]]
    /\ open = FALSE
    /\ curMs \in 0 .. Horizon
    /\ phase = "frame" /\ idx = 1 /\ current = NoSlot
    /\ saved = NoSave
    /\ arms = 0 /\ armedBefore = 0
    /\ budget = [registers |-> MaxRegisters, saves |-> MaxSaves, loads |-> MaxLoads, levels |-> MaxLevels]

Advance == AdvanceTasks \/ TaskReturns \/ AdvanceEvent \/ HandlerReturns
Next == \/ \E cog \in Cogs, timer \in TimerIds, when \in Delays : SetTimerEx(cog, timer, when)
        \/ \E cog \in Cogs, timer \in TimerIds : KillTimerEx(cog, timer)
        \/ \E rate \in NetRates : RegisterFunc(TRUE, rate)
        \/ RegisterFunc(FALSE, 0)
        \/ \E delta \in 1 .. MaxDelta : Tick(delta)
        \/ Advance
        \/ Save
        \/ \E reopens \in BOOLEAN : Load(reopens)
        \/ \E online \in BOOLEAN : OpenLevel(online)
        \/ LevelOpened
        \/ CloseLevel

\* sithMain_Tick is called as long as the level is open, and the handlers are
\* C functions that return.
Fairness == WF_vars(Advance) /\ WF_vars(LevelOpened)
            /\ WF_vars(\E delta \in 1 .. MaxDelta : Tick(delta))
Spec     == Init /\ [][Next]_vars
FairSpec == Spec /\ Fairness

-----------------------------------------------------------------------------
(* Properties *)

EventType == [endMs : 0 .. TimeSpan - 1, cog : Cogs \cup {Clear.cog},
              timer : TimerIds \cup {Clear.timer}, seq : 0 .. MaxArms]
TaskType == [periodic : BOOLEAN, rate : NetRates \cup {AiRate, 0}, creationMs : 0 .. Horizon]
TimerType == [left : 0 .. TimeSpan - 1, cog : Cogs, timer : TimerIds, seq : 1 .. MaxArms]
Phases == {"loading", "frame", "tasks", "taskHandler", "events", "handler"}

\* Types: no more than 256 slots are ever on the list or on the free stack, and
\* every link and index stays inside the pool.
TypeOK ==
    /\ list \in Seq(Slots) /\ Len(list) <= NumEvents
    /\ event \in [Slots -> EventType]
    /\ free \in Seq(Slots) /\ Len(free) <= NumEvents
    /\ tasks \in [Tasks -> TaskType]
    /\ open \in BOOLEAN
    /\ curMs \in 0 .. Horizon
    /\ phase \in Phases /\ idx \in 1 .. NumTasks + 1
    /\ current \in Slots \cup {NoSlot}
    /\ saved.ms \in 0 .. Horizon /\ saved.made \in BOOLEAN
    /\ saved.timers \in Seq(TimerType) /\ Len(saved.timers) <= NumEvents
    /\ arms \in 0 .. MaxArms /\ armedBefore \in 0 .. arms
    /\ budget \in [registers : 0 .. MaxRegisters, saves : 0 .. MaxSaves, loads : 0 .. MaxLoads,
                   levels : 0 .. MaxLevels]

NoRepeats(l) == \A j, k \in DOMAIN l : l[j] = l[k] => j = k
SlotsOf(l) == {l[k] : k \in DOMAIN l}

\* Whatever the handlers arm and kill while sithEvent_Advance walks the list,
\* every slot of the pool is in one place: on the list, on the free stack, or in
\* the hands of Advance while its handler runs.  Nothing leaks, and no slot is
\* given out while it is in use.
SlotsPartition ==
    /\ NoRepeats(list) /\ NoRepeats(free)
    /\ SlotsOf(list) \cap SlotsOf(free) = {}
    /\ current \notin SlotsOf(list) \cup SlotsOf(free)
    /\ SlotsOf(list) \cup SlotsOf(free) \cup {current} = Slots \cup {current}
    /\ (current # NoSlot) <=> phase = "handler"

\* Advance ends: a timer that a handler arms, even with no delay, waits for a
\* later frame, so a script that arms its own timer again cannot hold the frame.
ArmedDuringAdvanceWaits == phase = "handler" => event[current].seq <= armedBefore

\* When Advance goes on to the timers, every periodic task has had its turn:
\* none is more than its rate behind, and none was last called later than now,
\* which a saved game makes possible by setting the clock back.
TasksKept == phase \in {"events", "handler"} =>
    \A k \in Tasks : tasks[k].periodic =>
        tasks[k].creationMs <= curMs /\ curMs <= tasks[k].creationMs + tasks[k].rate

\* The pool, the sorted list and the loop of Advance together keep the promise
\* made to the scripts: see TimerQueue.
Waiting == {[seq |-> event[s].seq, cog |-> event[s].cog, timer |-> event[s].timer,
             endMs |-> event[s].endMs] : s \in SlotsOf(list)}
Shelf == [now |-> saved.ms, waiting |->
    {[seq |-> t.seq, cog |-> t.cog, timer |-> t.timer,
      endMs |-> (saved.ms + t.left) % TimeSpan] : t \in SlotsOf(saved.timers)}]
Abstract == INSTANCE TimerQueue
    WITH running <- open, waiting <- Waiting, now <- curMs, shelf <- Shelf
ImplementsQueue == Abstract!Spec

\* As long as frames come, every timer leaves the list: it fires, its cog kills
\* it, or the level goes away.
Armed(n) == \E s \in SlotsOf(list) : event[s].seq = n /\ event[s].endMs < Horizon
EventuallyGone == \A n \in 1 .. MaxArms : Armed(n) ~> ~Armed(n)
=============================================================================
