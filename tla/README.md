# TLA+ models of OpenJKDF2

OpenJKDF2 is a C reimplementation of the engine of *Jedi Knight: Dark Forces II*.
This directory models the parts of it whose correctness depends on the order of
events: the network session, the timers, the scripts and the things that they order
about, and the way from one mode of the game to the next. Paths below are relative to the
engine's source directory `src/` of the repository.

How to run: `tlc -config comm_fifo.cfg MCSithComm.tla` (one `.cfg` per run, the run's name is
the file's), `tlapm SithComm_proofs.tla` (likewise the other modules that end in
`_proofs`).

## 1. Inventory

One process is one thread. `sithMain_Tick` runs a frame: `sithTime_Tick` moves the
clock, `sithEvent_Advance` calls the periodic tasks and the timers that are due,
`sithComm_Sync` handles every message that has arrived and retransmits, then come
AI, things and COG scripts; at the end of the frame a pending save or load
happens. Concurrency is between processes (the host and up to 31 clients), and
inside a process between a loop and the handlers it calls, which change what the
loop walks over.

| component | state | operations | hard behaviour | what makes it correct |
|---|---|---|---|---|
| `Devices/sithComm.c` reliable messages | `MsgTmpBuf[32]`, `idk2` (count), `msgId`, `aMsgPairs[128]` ring, `needsSync` | `SendMsgToPlayer`, `Sync`, `SyncWithPlayers`, `cogMsg_Reset` | loss, reordering, duplicates, wrap of ids, retries, players that change while a message waits | a message is handled only by its audience, not twice within the ring; stored messages are retransmitted and then leave; an acknowledgement counts for one player and one message |
| `Win95/stdComm.c` and the transports | session, DPIDs, incoming queue | send, receive, system messages | loss, late system messages | a broadcast reaches the players of the list |
| `Dss/sithMulti.c` session | join stage, joining slot, player infos, scores, level timers | join request, staged world transfer, welcome, ping, timeout, quit, leave, end of level | interleaved joins, timeouts, host loss, long frames | one player per slot, a joined player has got the whole world, host and clients agree on the list |
| `Gameplay/sithPlayer.c` player list | `net_id`, flags per slot | join, leave, lookup | stale slots | a DPID is in one slot |
| `Gameplay/sithEvent.c` timers | pool of 256, free stack, sorted list, five tasks | `Set`, `Kill`, `Advance`, `RegisterFunc`, `Reset` | handlers that re-enter, pool exhaustion, clock set back | fires once, in order, not early, not lost; no slot in two places |
| `Dss/sithGamesave.c`, `Dss/*` saved games | a stream of messages | save, load | order of restore | what was waiting waits again |
| `Cog/sithCog.c`, `sithCogExec.c` scripts | per-cog call stack, sleep/wait state | messages, tick, sleep, wait for stop | re-entrance, wake-up conditions | who is interrupted goes on as it was; the call stack is bounded; no handler hangs |
| `World/sithTrackThing.c` paths | `trackParams` of a thing, its copy on the clients | verbs of COG, tick, DSS_PATHMOVE | ARRIVED and BLOCKED handlers that give new orders, messages out of order | it ends where it was sent and says so once; the copy ends there too |
| `World/sithThing.c` things | slots, signatures, stack of free slots, lists of riders | create, destroy, attach, detach, tick | handlers that interrupt a removal | a slot is free once; nobody loses its slot; the lists agree with the riders |
| `Gameplay/sithInventory.c` | bins, selection, cooldowns | change, select next | long legal call sequences | amounts stay in bounds; not modelled yet |
| `Main/jkMain.c`, `jkEpisode.c`, `jkSmack.c` modes | current and next mode, place in the episode, open level | show, tick, leave; requests of the menus, scripts, saved games and the session | several requests in one turn, pending changes | a level is open when it is played; nothing is passed over; every way leads on |
| containers, palette effects, sound mixer | tables, pools | insert, remove, evict | full tables | agree with a reference; not modelled yet |
| AI, puppets, physics, collision, rendering, GUI, parser, files | | | mostly floating point, drawing and text | not modelled |

`PROJECT.json` lists every component with its status, and under `hazards` each
place where this code is hard to test, with the properties that watch it.

## 2. Modules

| module | what it is |
|---|---|
| `SithComm` | detailed model of the reliable-message layer of all processes and the network between them |
| `ReliableCast` | what that layer promises to the message handlers |
| `MCSithComm` | small instances: who is in whose player list, who sends |
| `SithComm_proofs` | the inductive invariant of `SithComm` and its first safety theorems |
| `SithCommDedup_proofs` | the theorems about repeated handling, about order, about who handles a message and about acknowledgements |
| `SithEvent` | detailed model of the timers, the verbs that arm and kill them, saved games |
| `TimerQueue` | what the timers promise to the scripts |
| `MCSithEvent` | small instances of the timers |
| `SithEvent_proofs` | the inductive invariant of `SithEvent`, its theorems, and that it implements `TimerQueue` |
| `SithMulti` | a multiplayer session: the host, the players and the GNS transport between them |
| `MCSithMulti` | small instances of a session |
| `SithMulti_proofs` | the inductive invariant of `SithMulti`: the list of players, the transfer of the world |
| `SithCog` | the machines of the scripts: messages, nested calls, sleep, wait, pulses and timers |
| `CogHandlers` | what the interpreter promises to a script: the handlers of a cog are a stack |
| `MCSithCog` | four small levels of two cogs |
| `SithCog_proofs` | the inductive invariant of `SithCog`, and that it implements `CogHandlers` |
| `SithTrackThing` | a thing on a path, the verbs that order it about, its copy on a client |
| `MCSithTrackThing` | a path of three frames |
| `SithTrackThing_proofs` | the inductive invariant of `SithTrackThing` and its theorems |
| `SithThing` | slots, removal and attachment of things, with handlers in the middle |
| `MCSithThing` | gives no definitions of its own; the instance of the run |
| `SithThing_proofs` | the inductive invariant of `SithThing` and its theorems |
| `JkMain` | the modes of the game, the way through an episode, saved games that lead back |
| `MCJkMain` | three small episodes |
| `JkMain_proofs` | the inductive invariant of `JkMain` and its theorems |

`SithComm` and `SithMulti` meet at the player list: `SithMulti` decides when a slot is
given and taken (`RosterChange` of `SithComm`), `SithComm` carries its messages. They are
not composed. `SithMulti` stands on the GNS transport, which keeps the order of a
connection and loses nothing while it lasts, so that its reliable messages arrive once
and in order without `sithComm`'s help; messages of the join go out before the player is
in the list, and `sithComm` does not keep those in any case.

The modules of one machine meet at assumptions. `SithCog` takes from `SithTrackThing` that
what moves on a path stops again (`MoveEnds` there, strong fairness of `Arrive` here);
`SithEvent`, `SithTrackThing` and `SithThing` call scripts and let them call any of their own
operations in a handler, which is more than the nested calls of `SithCog` make.

### SithComm

State: `buf`, `pending`, `msgId`, `pairs`, `cursor`, `needsSync` are the statics of
`sithComm.c` (`MsgTmpBuf`, `idk2`, `msgId`, `aMsgPairs`, `dword_847E84`,
`needsSync`), one per process; `players` is `jkPlayer_playerInfos`, `joining` the
JOINING flag, `curMs` the clock counted in frames; `chan` the packets under way;
`log`, `dispatched` and `changes` are history or bounds. `field_14` is the set
`mask`, `field_18` is `retry`.

Actions: `SendMsgToPlayer` (whole function, including the eviction when the buffer
is full), `Receive` (one turn of the loop of `sithComm_Sync`: acknowledge, look
in the ring, dispatch, or refuse a stranger), `EndFrame` (`SyncWithPlayers` and the
next tick), `Lose` (external), `RosterChange` (`sithPlayer_Startup`,
`sithPlayer_sub_4C87C0`, called by the session layer).

Abstractions. Payloads are kinds. Handlers other than those for DSS_RESET and for
our own DSS_WELCOME change nothing of this layer except by sending messages and by
changing the player list; the model lets a process do either at any time, so also
right after a message. The mask is a set, 32 slots wide in the code. Reordering
and duplication are constants: the original DirectPlay may do both, the transports
in the repository keep the order. A full channel loses packets.

What the code does that one would not expect, and the model has:
- a new message is stored at `idx_`, not at the free slot `idx`; `idx_` is 0 unless
  slot 0 holds an older message and a slot behind it is occupied, which never
  happens. So the buffer holds one message, and a newer one overwrites it
  (`OnlyFirstSlot`, theorem `OneSlotBuffer`);
- `sithComm_cogMsg_Reset` reads the id signed: ids of the upper half are never
  acknowledged, and a message that carries one is given up after its retries;
- slot 0 is always in the mask and in a broadcast (dedicated servers), and an
  acknowledgement by somebody who is not in the list shifts by -1, which is bit 31
  and no player's.

### SithEvent

State: `list`, `event`, `free` are the list, the pool and `arrLut`; `tasks` is
`aTasks`; `phase`, `idx`, `current` are the program counter and locals of
`sithEvent_Advance`; `saved` is the saved game. `seq`, `arms`, `armedBefore` are
history.

Actions: `SetTimerEx` and `KillTimerEx` (scripts, in a frame or in a handler),
`RegisterFunc`, `Tick`, `AdvanceTasks`/`TaskReturns` and
`AdvanceEvent`/`HandlerReturns` (the two loops, split where a handler runs),
`Save`, `Load`, `OpenLevel` and `LevelOpened`, `CloseLevel`. Scripts run inside the handlers,
so every script action interleaves with `Advance`; saving, loading and closing happen
between two frames, as `sithMain_Tick` does them. A level opens in two steps, because the
scripts handle LOADING in the middle of `sithMain_Open` and may arm timers there. The clock
is 0 from `LevelOpened` on, but in a network game (`sithMain_Mode1Init_3`) it still shows
the time of the level before while they do: such a timer keeps that time and fires late.
`sithMain_AutoSave` sets the clock to 0 again before the first frame, which changes nothing.

Abstractions. Two parameters of a timer are left out, and so is the timer of a
COG that has no id (`SetTimer`, a field of the cog, not of this component). The
clock moves at least 1 in a frame: slow motion, a debug mode, can stop it. The frame
of the build without fixed timesteps is modelled; in the joining mode of a client
the clock moves without `Advance`, which is not modelled. `EventAssumption` keeps
the clock, with the longest delay or rate added to it, away from the wrap of 32 bits.
`Init` is the state before the first level or between two, so that one opened level is
enough to see a clock that is not 0.

### SithMulti

State of the host: `slot` is `jkPlayer_playerInfos` from 1 on (slot 0 is the host's own,
and `NumSlots` is `jkPlayer_maxPlayers - 1`), `join` the variables of the join in progress
(`bNeedsFullThingSyncForLeaveJoin`, `sendto_id`, `requestConnectIdx`,
`currentBigSyncStage`, `dword_832208`), `frame` the steps that the loop of
`sithMulti_HandleTimeLimit` still has to make in this frame, `ending` that
`leaveJoinType` is 1. Transport: `conn` the id of each player's connection, `up` and
`down` the messages under way, `gone` is `m_DisconnectedPeers`. A player: `client`.
`first`, `got`, `owed`, `left.given` and `left.odd` are history.

Actions: `Connect`, `Leave`, `Vanish` (the callback of the transport), `HostReceive`
(one message: JOINREQUEST, the player's WELCOME about itself, or anything it sends while
it plays), `PlayerGone`, `DropSilent`, `FreeThing`, `ScoresDue`, `SendScores`,
`BeginSteps` and `SyncStep` (the transfer, one step of the loop at a time, with its four
stages), `EndsLevel`, `AbortJoin`, `LevelOver`, `OpenLevel`, `HostLeaves`; of a player
`AskToJoin`, `Play`, `ClientReceive`, `GoesAway`, `NextLevel`, `HostIsGone`.

Abstractions. The world is a set of elements to be transferred; it does not change during
the transfer, except that things are destroyed. A map name is a level's number. A frame
may have any number of steps up to `FrameSteps`; the code derives it from the frame's
length. Silence of a player is that it has nothing under way; the time before it is
dropped, before a level ends or an ejected player leaves is any time. A player's own list
of the others, chat, scores, teams and bans are left out. The level a player goes to next
is opened by its host first, or at least left.

What the code does that one would not expect, and the model has:
- a disconnection is reported only for an id that is in a slot, and a slot gets its id in
  the last stage: who vanishes during the transfer is transferred to until the end and
  then welcomed. Ids are given out again at once, lowest first, so the next player inherits
  the welcome (`session_reuse`);
- in a frame of five steps and more (150 ms) the loop starts over after the last stage and
  can reach the last stage again, for DPID 0: it clears the id of the slot just given. The
  player gets it back when it announces itself, unless its repeated request arrives first
  and is taken up as a new one. `odd` remembers it ("over"), and the four properties of the list
  and of the snapshot say nothing from then on. `FrameSteps` stays below five in the runs
  (theorem `ShortFramesEnd`: then it never happens); `session_slots` also passes with
  `FrameSteps = 5`, without surfaces and things, 2 connections and no drop (3.2M states);
- the player list of the level that ends is still open for an announcement: a player that
  reads its WELCOME after the host has opened the next level takes a slot there, which may be
  another's. `odd` remembers it ("late"), with the same effect. `session_snapshot` has two
  levels, `session_slots` one;
- QUIT is ignored by a player that has not had LEAVEJOIN yet, and forgotten by one that
  hears of the end of the level before it has left.

### SithCog

State: `vm` is what a `sithCog` needs to run (`script_running`, `execPos`, `wakeTimeMs`,
`trigId`, `callstack`), `alarm` its pulse and timer, `disabled` and `moving` are flags of cogs
and of things on paths. `cstack` is the C stack: the loops of `sithCogExec_Exec`, the cog that
`sithCogScript_TickAll` has reached, the receivers a message has still to be given to.
`script` is the level, chosen at the start; `budget` bounds what comes from outside; `lost` is
history.

Actions: `Exec` (one opcode, or one test of the loop), `SendNext` (one receiver of a message),
`Tick` (one stage of `sithCogScript_Tick`: pulse, timer, wake), `TickAll`; from outside
`Notify`, `CmdCogPause`, `SaveAndLoad`, `Arrive`, `Depart`. A handler that sends a message runs
its receiver at once, inside its own opcode. Values and operands are left out, a conditional
jump goes either way, time is counted in frames relative to `sithTime_curMs`.

`SithCog` implements `CogHandlers` (`HandlersNest`): a cog's frames stand for handlers that have
begun and not ended, only the newest goes on, and the others keep their message, sleep or thing.

What the code does that one would not expect, and the model has. In each case the cog is
`lost` and the promise is off until its script is found at rest:
- with four frames in use a further call or message is not kept: the handler it interrupts
  is forgotten (and a fifth is never written behind the array);
- a handler that `sithCogScript_Tick` wakes runs in `sithCogExec_Exec`, not `ExecCog`; a
  cog that was running (state 4) and slept in between stays in state 4 with no loop to run it;
- a saved game has no call stack and no `trigId`: only the newest handler goes on;
- `reset` empties the call stack, the frames of the handlers below included.

A CALL that finds four frames in use does not read its operand, so that the address is taken for
the next opcode (`Misread`). The handler goes on behind it, or returns if the address is 29. Two
meanings of an address below 32 are left out: the call of a verb whose symbol an expression left
on the stack, and a jump back. `Accepts` leaves out the flag `SITH_COG_PAUSED` and what co-op
adds (objectives are passed on to everyone, KILLED is not handled by a client).

### SithTrackThing

State: `thing` is a thing with its `trackParams`, on the host and on a client; `calls` the
verbs and the tick that wait for a handler of ARRIVED or BLOCKED; `net` the DSS_PATHMOVE
messages on their way, `link` how they travel; `frame`, `sent`, `seen` the stamps by which a
client tells an old message from a new one. `owed`, `said`, `odd` are history.

Actions: `Command` (MoveToFrame, SkipToFrame, PathMoveStop: the verb, what it sends and the
message), `Unsynced` (Rotate, RotatePivot, JumpToFrame: not told to the clients),
`PathMovePause`, `PathMoveResume`, `TickHost` or `TickIdle` (`sithThing_TickAll` comes by the
thing, once a frame: `ticked`), `Return` (of a handler), `FramePasses` (`sithMain_Tick` begins
the next frame and with it the next stamp), `TickClient`, `ProcessPathMove`. Orders given before
and after the thing's tick in one frame have one stamp, whoever gives them. The path lies on a line, a tick is one unit, a thing in the way
stops a tick. On the client things send no messages to scripts.

What the code does that one would not expect (`odd` records the first four):
- a command before the first tick of a turn finds nothing to turn: the old turn goes on, and
  the thing ends with the wrong orientation (`Hasty`, one mark for the host's copy and one for
  the client's: a message may come before the first tick there too);
- Rotate, RotatePivot and JumpToFrame leave the copies behind ("astray");
- a handler of BLOCKED that stops the thing is followed by the end of the tick, which stops it
  once more: two ARRIVED ("again");
- an order given by the handler of ARRIVED leaves before the message of the verb that called
  the handler, so the copy obeys them in the wrong order ("crossed"; likewise two orders of
  one frame on a transport that reorders);
- the spin bit of Rotate is never cleared: a thing that has spun says ARRIVED every tick.

### SithThing

State: `thing` is `sithWorld_pCurrentWorld->things` (type, signature, what it rides on, the
list of its riders), `numThings` the highest slot in use, `pool` the stack `sithNet_things`,
`signature` the next signature, `at` where `sithThing_TickAll` is, `calls` the functions that
wait for a handler of EXITED. `twice`, `crossed`, `orphaned` are history.

Actions: `Create` (with the scan for a slot when none is free), `Destroy`, `Attach`, `Detach`,
`Shed` (detach all riders), `TickAll`, and `GoFree`, `GoAttach`, `GoShed`, `GoScan`, `Return`,
which go on where a handler has returned. EXITED is sent before anything has changed; the
handler may use every operation on every thing, the one in question included. Of the types
only "makes room for others" is kept; positions, sectors' lists and networking are left out.

What the code does that one would not expect, and the model has:
- a handler of EXITED, called while a thing is freed, may create one when no slot is free: the
  scan for room takes the slot that is being freed, frees it a second time, and the slot is on
  the stack twice (`twice`): two things will share it;
- a handler that attaches or detaches the thing being detached leaves the lists wrong
  (`crossed`);
- nobody detaches the riders of a thing that is freed (`orphaned`);
- when no slot is free, only the first twelve are looked at for one that may be taken.

### JkMain

State: `gui` is `jkSmack_currentGuiState`, `nextGuiState`, `stopTick`; `run` is the function of
`jkMain_GuiAdvance` that runs and its argument; `ep` and `plan` say where in the episode one is
and what is to be opened; `lvl` is the open level and the flags about it; `disk` the saved games
and the request that waits for the end of the frame; `net` the role in a session. `slipped` is
history.

Actions: `GuiAdvance`, `Leave`, `Enter`, and for each mode its Show and Tick; `StartNext`
(`jkMain_StartNextLevelInEpisode` and what it calls); what the menus ask for (`PlayEpisode`,
`PlayLevel`, `PlayMulti`, `LoadOther`, `LoadSame`, `SaveInMenu`, `DeclineRestart`, `Return`);
what happens in a frame (`CogEndLevel`, `Save`, `Die`, `ProcessEndLevel`, `FrameEnds`), and
`EscKey`. The last request for a mode wins, as in the code.

What the code does that one would not expect, and the model has. After these the properties
`NothingSkipped`, `EndedIsOver` and `GoesOn` say nothing of the game until another is begun
(`slipped`):
- a game saved between the end of a level and the next one has a place in the episode
  and a level that need not belong together;
- a load requested in the frame that ends the level is carried out before the next mode is
  entered;
- in multiplayer the level may end while the escape menu is open; Return then goes back to a
  level that is over;
- "restart" that is chosen and then declined leaves `stopTick` set without a mode;
- a client is told the number of the level that ends and looks it up in the episode, where the
  cutscene before the level has the same number.

Others need no exception: a cutscene after a choice hits the default of the switch in
`jkMain_StartNextLevelInEpisode`, and so does the second of two cutscenes in a row after the
tally: GAMEPLAY is entered with the name of a video and goes to the main menu;
`jkMain_PlayLevel` leaves `bLoadingSomething` as it was.

Abstractions: dying loads any saved game (the code: the last one saved, or the autosave); the
behaviours of a client include those of a server. Not modelled: a lost focus, the video at the
start, a video or display that cannot be opened, damaged saved games, a disc that is asked for,
`SetMap` and cheats of the console, the modes of Mysteries of the Sith.

## 3. Runs

| run | question | instance | states |
|---|---|---|---|
| `comm_faults` | what does the buffer hold, is a message handled again, what counts as served | 3 processes, the host sends 2 reliable messages, loss, reordering, duplicates; NumBuf 2, NumPairs 2, MaxRetry 2 | 243k |
| `comm_fifo` | order, wrap of ids, draining | 2 processes, 3 messages, IdSpan 3, no reordering | 5.4k |
| `comm_roster` | refinement of `ReliableCast` while players join and leave | 3 processes, 1 broadcast each of the host and of who joins, 2 changes of the list | 353k |
| `events` | pool, list, tasks, Advance with handlers, refinement of `TimerQueue`, does every timer go | pool of 2, 3 timers, 1 script, 2 ids, 1 task registered, 1 save, 1 load, 1 new level after any clock | 854k |
| `session_snapshot` | does who plays have the world | 2 players, 1 slot, 2 connections, 2 levels, 1 destroyed thing, an element for each stage | 2.3M |
| `session_slots` | who is in which slot | 2 players, 2 slots, 2 ids, 3 connections, 1 drop | 1.3M |
| `session_live` | is everybody answered, do strangers go | 2 players, 1 slot, 2 connections, 1 drop, a host that may leave | 132k |
| `session_reuse` | does who leaves the joining mode have the world, whatever id it has | 2 players, 1 slot, 2 connections | violated |
| `cogs` | is the stack of handlers kept, do handlers end; refinement of `CogHandlers` | 4 levels of 2 cogs, MaxFrames 4, MaxSleep 2, 3 events from outside | 118k |
| `paths` | where does the thing end, how often does it say so, does the copy follow | a path of 3 frames, SpinTicks 2; alone 3 commands and 1 other verb, with a client 2 commands or 1 and 1 | 283k |
| `things` | which slots are free, who is evicted, do the lists agree, does what is removed go | 3 slots, 2 filled by the level, ScanLength 2, 6 operations, 6 calls deep | 845k |
| `modes` | is a level open when it is played, is anything passed over, does every way lead on | 3 episodes of 5 or 6 entries, single, server and client, 1 saved game | 384k |

Bounds and why they suffice. `NumBuf` 2: a second message exists, and a second slot
that it could have taken. `NumPairs` 2 with three messages: the ring forgets one.
`MaxRetry` 2: one retransmission and the one that gives up. `IdSpan` 3: the counter
reaches the upper half and wraps past 0. `SendsOf`, `LastSendMs`, `Horizon`, `NetCap`
and `RosterChangesOf` bound the environment: how much is sent and until when, where
the clock stops (after the last retry), how many packets are under way, how often the
list changes. For the timers: a pool smaller than the number of timers armed, so that
`Set` fails; delays 0 and 2 with frames of 1 and 2, so that timers are due together,
exactly now, and overdue by more than one; `MaxArms`, `MaxRegisters`, `MaxSaves`,
`MaxLoads`, `MaxLevels` and `Horizon` bound the environment. `TimeSpan` 16 is the
width of the clock: ages wrap, times do not. The session runs that check
invariants only use the symmetry of the players, which only have names.

For the session: fewer slots than players in `session_snapshot` and `session_live`, so that
a player is told that the game is full or busy; more connections than ids in
`session_slots`, so that ids are given out again while the old owner's disconnection, slot
or join is still there; two players, since every hazard of the list is between a player and
the one that comes after it or asks at the same time. `MaxUp` and `MaxDown` stop the clocks
(requests, positions, scores), never an answer. `FrameSteps` is 16 in the code (500 ms of
30 ms each) and 1 or 2 in the runs: a frame ends in any stage or goes on into the next.

For the scripts: four frames as in the code, filled by two cogs that message each other and by
calls; levels with a pulse that overtakes its handler, a subroutine that sleeps, one that calls
itself until no frame is left, a message that comes back to its sender, a cog of another
machine. For the paths: three frames are a turn, a move forward and one back over the frame between; `Budgets` bounds the verbs, so
that alone a command interrupts a command in a handler of a command, and with a client two
orders change places. For the things: `ScanLength` 2 of 3 slots (12 of some hundred in the
code), so that a slot behind the scan cannot be taken; six operations are enough for a removal
within a removal within a removal, the exceptions `twice`, `crossed` and `orphaned` all come
up. For the modes: the episodes have cutscenes before, between and after levels, with and
without their files and several in a row, a choice of which one way is a missing level; one
saved game, which
any later one may replace (the properties also held with `MaxSaves` 2).

`session_reuse` is expected to fail. `types_enums.h:1631` says of `SITH_SUBMODE_JOINING`
"synchronizing the game state from the host". A player connects, asks, vanishes; the host
goes on with the transfer; another player connects, is given the same id, and reads the
WELCOME of the first one. It plays without the world. `SnapshotComplete` is what is left:
a player whose id nobody had before has all of it.

The session runs do not check for deadlock: players are gone for good when the connections of
the model are used up, and after the host has left. The timer runs do not check for deadlock:
when the level is closed for good, or the clock of the model has stopped, nothing happens any
more. In the other runs frames go on for ever.

Fairness. `SithComm!FairSpec` assumes that every process goes on ending frames; it
assumes nothing of the network, not even that one packet arrives. `SithEvent!FairSpec`
assumes that frames come while a level is open, that handlers return and that
`sithMain_Open` ends, as the main loop and the handlers do. `SithMulti!FairSpec` assumes that frames come on the host and on
every player and that a message under way is read: weak fairness of each of their steps,
and strong fairness of the host's reading, which the steps of the transfer interrupt.
Nobody has to vanish, to be dropped, to destroy a thing or to end a level.
`SithCog!FairSpec` assumes that C calls return, that frames come, and that what is on a path
arrives (strongly, since a script may send it off again). `SithTrackThing!FairSpec` assumes
that handlers return, that frames come and tick the thing, and that ticks with a free way come
again and again: what stands in the way goes away in the end. `SithThing!FairSpec` assumes that handlers and functions return and
frames come. `JkMain!FairSpec` assumes of the program that it runs, of a video that it ends
and of a frame's handlers that they return; of the player it assumes nothing.

## 4. Proofs

`SithComm_proofs` proves, for every number of processes, players, slots, ids and
messages and for a transport that loses, reorders and duplicates, the inductive
invariant `IInv`: `TypeOK` with `BufferInv`. The safety properties are not inductive
by themselves. That the counter covers the buffer needs that only slot 0 is in use
(otherwise two messages could leave on one count) and that the counter is not
negative; that the buffer is live needs the types of masks and counts; that only slot
0 is in use needs that the scan for an older message ends at slot 1. Each action has a
lemma; `SendReliableStep` and `SyncStep` carry the work. Theorems: `TypeCorrect`,
`OneSlotBuffer`, `CounterCoversBuffer`, `BufferIsLive`.

`SithCommDedup_proofs` proves `AtMostOncePerWindow` (`HandledOncePerWindow`). The
strengthening `DedupInv` says that every packet, every stored message and every handled
message carries the id its sender's log has for it (`WireKnown`, `StoredKnown`,
`HandledKnown`), and that the ring holds exactly the last `NumPairs` pairs handled, at
the places the cursor passed (`RingHolds`). A packet that is handled is not in the ring,
so its pair is not among the last `NumPairs`. The same module proves `InOrder`
(`HandledInOrder`) for transports that do not overtake, which is its only further hypothesis
and what the GNS transport and the local one do. `OrderInv` adds that the packets of a channel
are in the order in which they were sent (`Ordered`), that nothing newer than what is under way
has been handled (`HandledBefore`), and that the stored message is its sender's newest
(`StoredIsNewest`, from `OneSlotBuffer`): so a retransmission never goes out behind something
newer.

`CommImplementsCast`, of the same module, is the refinement of `ReliableCast`, step by step: a
send that has somebody to wait for appends to the history what `Cast` appends, a packet that is
neither in the ring nor an acknowledgement is a `Handle`, a player who joins in a slot that
messages are waiting for is a `TakeOver`, all else stutters. A packet does not carry who
it is for, hence `CastInv`: each packet with an id, on whatever channel, is for the process at
its end (`WireFor`), and each bit of a stored message stands for a player it is for
(`StoredFor`), which is why a retransmission goes to nobody else. It is the place where the
player list and the buffer meet: a slot that is given to somebody else makes him an addressee of
what still waits for that slot, and of nothing else.

`AcksTellTheTruth` proves `AckedWasDispatched`, by `AckInv`: who lost his bit in the stored
message has handled it (`StoredServed`); an acknowledgement on its way, however old, names an id
its sender has handled (`AcksTrue`), and so does each entry of the ring, from which a repeated
packet is acknowledged again (`PairsTrue`); nobody sends to himself (`NotToSelf`) and nobody sits
in two slots (`Seated`, asked of `InitPlayers`, the player list to begin with). It has two hypotheses, and the code breaks the
property without either of them, as TLC shows on small instances. `NoIdComesBack`: once the 16-bit
ids have gone round, an acknowledgement that is as old as that takes the bit of a newer message
(with `IdSpan` 3, in six states). `NobodyReturns`: the bit of a player belongs
to his slot, so that a player who left while a message waited for others and comes back in a
slot that the message does not wait for looks as if he had acknowledged it, though he never had
it (six states too, with the list of `comm_roster`). `comm_faults`, the run of the property, is within both.

`SithEvent_proofs` proves, for a pool of any size, any number of tasks and handlers that arm
and kill timers as they like, `IInv == Types /\ PoolInv /\ TimeInv /\ TaskInv`. `PoolInv` is
`SlotsPartition` with the order of the list and that what is on it was armed. `TimeInv` says
that between two calls of `Advance` nothing is overdue and during one only what was armed
before it began; this is what makes `ArmedDuringAdvanceWaits` inductive, and it needs that no
time on the list is beyond the clock's range (`EventAssumption`). It also says of a saved game
that its timers are in order and not overdue: otherwise `Load`, which puts one timer after the
other into the first slots, would not restore the order. `TaskInv` says which tasks the loop has
passed. Theorems: `EventsTyped`, `PoolIsPartitioned`, `AdvanceIsFinite`, `TasksAreKept`.
`EventsImplementQueue` is the refinement of `TimerQueue`, step by step: `SetTimerEx` arms or,
with an empty pool, stutters; `KillTimerEx` kills; `AdvanceEvent` fires the first of the list,
which is the earliest by `ListInOrder`; `Tick` lets time pass only when nothing is overdue, by
`TimeInv`; `Save`, `Load` and `CloseLevel` keep, bring back and throw away; `OpenLevel` and
`LevelOpened` start the clock again; all else stutters.
The lemmas about sequences (insertion into a sorted one, picking by positions) are proved from
ranks of finite sets of numbers.

`SithCog_proofs` proves, for every level, any number of cogs and frames, `IInv == Others /\
Sound(vm, cstack, lost)`. `RunningHasLoop` is not inductive: a loop that ends must not leave a
cog behind that runs. `Sound` counts: a running cog has more loops on the C stack than its
call stack has interrupted frames (`Depth`, `Room`), or one begun by a tick, which goes on with
whatever is left; a cog in a verb has one more, and its own loop is on top (`Held`); a tick or a
message from outside is the first C call (`OnlyLoopsAbove`); and an idle machine has no frames
(`MachineOK`). Theorems: `CogsTyped`, `RunnersHaveLoops`. `HandlersAreAStack` is the refinement
of `CogHandlers`; it needs besides that a frame of the CALL opcode belongs to the handler above
it (`ChainInv`), so that the handlers of a cog are the frames that a message has interrupted and
the machine itself.

`SithMulti_proofs` proves, for any number of players, slots, ids, levels and elements of the
world and frames of any length, `IInv == Types /\ ConnInv /\ LevelInv /\ GivenInv /\ SlotInv /\
WorldInv`. `ConnInv`, `LevelInv` and `GivenInv` hold always: a connection has one owner; a player
is in the host's level, an older one, or waits for the next, and asks for no other; an id that
was not given out is nowhere, not in a slot, not in the join in progress. `SlotInv` and
`WorldInv` hold as long as nothing has upset the list (`InOrder`). `SlotInv` follows a slot from
the request to the announcement: the join in progress is for somebody who is in no slot, in this
level and not playing, and its slot is free (`JoinInv`, since the slot is not reserved before the
last stage); a WELCOME or an announcement on its way is for the slot that the list has
(`WelcomeInv`, `AnnounceInv`); who is confirmed is there or is reported as gone (`JoinedInv`);
who plays is not (`PlayInv`, which is where `GoneBeforeReuse` comes from: the host reads no
message before it has heard of who is gone). `WorldInv` says that the player which is being
transferred to has, or is about to read, what the stages have swept (`TransferInv`), and that the
first owner of an id has all that it is due when it is listed, has read it before any WELCOME
that is on its way (`Founded`), and so has it when it plays (`HoldInv`). The steps are reduced to
a few effects first (`Quiet`, `Goes`, `Gives`, `Overruns`, `TookUp`, `HeardOf`, ...), and what
these keep is stated once (`Steady` of connections and levels, `Stays` of the list, `KeepsWorld`
of the world). Theorems: `SessionTyped`, `OneSlotForEach`, `SlotsAgreed`, `GoneFirst`,
`WhoPlaysHasTheWorld`. What upsets the list is itself bounded: `ShortFramesEnd` and
`ShortLevelInOrder` say that in one level of frames of less than five steps it never is, so that
there the other theorems hold without `InOrder`.

`SithThing_proofs` proves, for any number of slots, any scan length and handlers nested to any
depth, `IInv == TypeOK /\ PoolExact /\ FramesInv`. That the stack holds exactly the free slots
is not inductive: while a removal waits for its handler, the handler may create, free and
detach things, so that the removal goes on with a slot whose state it read before. `FramesInv`
says of the functions that wait, as long as no slot was freed twice: the things being freed are
in use, may be removed and are all different; a scan waits for the freeing of the thing just
before its next one, and finds every slot from there on in use; a scan within the freeing of
another scan's thing stays below that thing. Theorems: `TypeCorrect`, `StackHoldsFreeSlots`,
`NobodyIsEvicted` (an action property), and `ReachesEveryThing`, for which the highest slot in
use is found again after each free; that a nonempty set of slots has a highest one is a lemma
by well-founded minimality.

The lists have an invariant of their own, `LInv`, which holds as long as no handler moved the
very thing it hears about. `ListsSound` relates neighbours only; that who rides on a thing can
be found from its first one is not inductive, since things that hold on to each other in a
circle satisfy all that is said of neighbours. `Lists` therefore asks for a rank that grows
along `next` (`Ranked`), which linking at the front and unlinking keep, and from which it
follows, again by minimality, that whatever has riders has a first one. `Waits` says what the
functions that wait have read and still rely on: a detaching finds its thing on what it read
before the handler ran; an attaching or a freeing has the detaching of its thing just above it,
or is on top with the thing on nothing (`Left`); no two detachings wait with the same thing
(`Differ`). Theorem: `ListsAreSound`.

`SithTrackThing_proofs` proves, for a path of any length and any number of verbs in any order,
`Inv == Typed /\ Walks /\ Answered /\ Sync`. That who arrives stands at the goal is not
inductive, since arriving only compares the frame; `Walks` says of a thing under way that the
place at which its translation will end (`Target`) is that of the frame it heads for, or of the
goal where the frame is left over from an earlier walk, and that its turn ends as that frame has
it. `Final`, the place where the whole walk will end, is what no tick changes, blocked or not;
`Sync` says that the last message of the host, or the newest stamp where the transport reorders,
takes the copy to the host's `Final` (`Following`), and of a verb whose handler of ARRIVED still
runs that the place it is going to send is right (`ToSend`). `Answered` says that whoever has
said ARRIVED has nothing under way and no tick left on the stack that could say it again.
Theorems: `TracksTyped`, `StandsAtItsGoal`, `OneAnswer`, `CopiesAgree`. The proof found an error
of the model's history that the small instance does not reach: the mark of a hasty command was
one for both copies, so that a command to the host took it from a client that still had the
wrong orientation.

`JkMain_proofs` proves, for all episodes that `EpisodeAssumption` allows and any number of saved
games, `Inv == TypeOK /\ Control /\ Worlds /\ Started /\ Games /\ Story`. `WorldHeld` speaks of a
mode that is settled; `Worlds` says of the steps between, of a mode that is left and of the one
that is entered, whether the level is still open, which depends on the two modes (to the escape
menu and back it stays). It needs to know which function may run in which mode, who called
`jkMain_StartNextLevelInEpisode` and where that returns to, and which mode may be due
(`Control`). `NothingSkipped` holds only as long as the game has not slipped, and so does `Story`,
which it follows from: the entry that is due is the current one (`Current`); in a level the current
entry is the level's and presented, and once the level has ended the next mode is due or is being
looked for (`InGame`, from which `EndedIsOver` follows); what is going to be entered is what the
current entry names (`Due`), and a video that plays is the current entry (`Watched`). `Games` says
of a saved game that was in time that its entry is its level's, so that loading it restores `InGame`.
The step of `StartNext` first settles where the path goes on (`AdvanceIs`): there the assumption
that a level has a number of its own is needed, since the code compares numbers to tell whether
the next entry is still the level that was played. Theorems: `ModesTyped`, `WorldIsHeld`,
`NoEntrySkipped`, `EndedStaysOver`. The proof found two errors of the model that two small
episodes did not reach: a saved game was opened though a video had been named in its place, and
an entry that leads to itself was allowed,
which the code passes over when scripts end the level twice.

Assumptions: those of the modules (`ProcsAssumption`, `SizesAssumption`,
`RosterAssumption`, `BoundsAssumption` of `SithComm`, `ThingAssumption` of `SithThing`,
`EventAssumption`, `SithCogAssumption`, `MultiAssumption`, `TrackAssumption`, and
`EpisodeAssumption`, `NoneAssumption`, `SavesAssumption` of `JkMain`), all checked by TLC on every run.

Every safety invariant, every action property and both refinements that the runs check are
theorems now. Only model-checked are the liveness properties (`BufferDrains`,
`EventuallyGone`, `JoinResolved`, `StrangersGo`, `ComesToRest`, `MoveEnds`, `RemovedGoes`,
`GoesOn`), which need fairness and `ENABLED` and are out of the prover's reach.

## 5. Plan and limits

Done: the message layer, the timers, the session, the scripts, the paths, the things and the
modes, with their runs; proofs of `SithComm`, `SithThing`, `SithEvent`, `SithCog`, `SithMulti`,
`SithTrackThing` and `JkMain`.

To be modelled next: an abstract session (a slot is free, promised, joined) that
`SithMulti` implements; a world that changes during the transfer; a player's own list of the
others; the inventory's selection and cooldowns; the sound mixer's pool and palette effects;
hash table and linked list as operators checked against a reference.

What can go wrong in this code and no property says yet: ids of a quiet
sender that go once round while their pair is in the ring; a game restarted under the same
DPID; the wrap of the 32-bit clock; a level closed by a handler of `Advance`; stages of the
transfer run again in a frame of 150 ms; QUIT before LEAVEJOIN; a WELCOME of the last level; a
list of destroyed things that holds 256; changes behind the cursor of the transfer. In the
modules of the session the bounds keep these out or the properties except them.

Not modelled and why: geometry, physics, collision, rendering, animation and AI decisions are
floating-point programs without interesting interleavings; weapons, items and actors are
tables of such decisions; the GUI, the console, parsers, files and strings are input and
output; the transports other than GNS are libraries, represented by what they may do to a
packet; `std3D`, the allocator and the platform code are drivers. These are the larger part
of the repository's lines, so that the modules cover a small part of them.
