------------------------------- MODULE JkMain -------------------------------
(* The modes of the game (jkMain.c, jkSmack.c), the way through an episode     *)
(* (jkEpisode.c) and the saved games that lead back (sithGamesave.c, jkDSS.c). *)
(* A mode has a function that enters it (Show), one for every turn (Tick) and  *)
(* one that leaves it; jkMain_GuiAdvance calls them. Whoever wants another     *)
(* mode sets jkSmack_stopTick and jkSmack_nextGuiState; the last one wins.     *)
EXTENDS Integers, Sequences, FiniteSets

CONSTANTS
    Episodes,   \* the episodes one may play: sequences of jkEpisodeEntry
    Roles,      \* what a game that is started may be: "single", "server", "client"
    MaxSaves,   \* the bound on the saved games that are kept: a new one replaces another
    NONE        \* no entry: gotoA or gotoB is -1, or a pointer is NULL

\* An entry: its level number, its type, whether its video or level can be opened, and
\* the entries it leads to, by the light path or the dark one.
Entry == [level : Nat, type : {"level", "cut", "choice"}, there : BOOLEAN,
          gotoA : Nat \cup {NONE}, gotoB : Nat \cup {NONE}]

\* A level has a number of its own, no entry leads to itself, and who decides goes on to a
\* level: nothing in the code asks for it, the episodes it was written for are made so.
EpisodeAssumption ==
    \A e \in Episodes :
        /\ e \in Seq(Entry) /\ Len(e) > 0
        /\ \A i, j \in DOMAIN e :
               e[i].type = "level" /\ e[j].type \in {"level", "choice"}
               /\ e[i].level = e[j].level => i = j
        /\ \A i \in DOMAIN e, g \in {"gotoA", "gotoB"} :
               e[i][g] # NONE => /\ e[i][g] \in DOMAIN e /\ e[i][g] # i
                                 /\ e[i].type = "choice" => e[e[i][g]].type = "level"
ASSUME EpisodeAssumption
ASSUME NoneAssumption == NONE \notin Nat
ASSUME SavesAssumption == MaxSaves \in Nat \ {0}

VARIABLES
    episode,    \* jkEpisode_mLoad.paEntries
    net,        \* sithNet_isMulti, sithNet_isServer, MULTIMODEFLAG_SINGLE_LEVEL
    gui,        \* jkSmack_currentGuiState, nextGuiState, stopTick
    run,        \* the function that runs, where it returns to, a call's arguments
    ep,         \* currentEpisodeEntryIdx, jkMain_pEpisodeEnt, Ent2, bLoadingSomething;
                \* shown: the current entry has been presented
    plan,       \* jkSmack_gameMode and what jkMain_aLevelJklFname names
    lvl,        \* pCurrentWorld, jkMain_bInit, thing_eight, jkGame_isDDraw, g_sithMode = 5,
                \* sithMain_bEndLevel; over: jkMain_EndLevel was called in this world
    disk,       \* the saved games there are, and the request that waits
    slipped     \* something the code does not guard against happened in this game: see Slip

vars == <<episode, net, gui, run, ep, plan, lvl, disk, slipped>>

TITLE == "title"          MAIN == "main"          GAMEPLAY == "gameplay"
ESCAPE == "escape"        CD_SWITCH == "cdSwitch" ENDLEVEL == "endLevel"
CHOICE == "choice"        CREDITS == "credits"    UNK == "unk"
CUTSCENE == "cutscene"    VIDEO2 == "video2"      VIDEO3 == "video3"
VIDEO4 == "video4"

Modes == {TITLE, MAIN, GAMEPLAY, ESCAPE, CD_SWITCH, ENDLEVEL, CHOICE, CREDITS, UNK,
          CUTSCENE, VIDEO2, VIDEO3, VIDEO4}
Phases == {"advance", "leave", "enter", "show", "tick", "menu", "startNext", "frame",
           "after"}
Multi == net.role # "single"
Single == [role |-> "single", one |-> FALSE]
At(phase) == [at |-> phase, back |-> "advance", fresh |-> FALSE, lightPath |-> TRUE,
              again |-> FALSE]
NoLevel == [world |-> NONE, init |-> FALSE, eight |-> FALSE, ddraw |-> FALSE,
            five |-> FALSE, ending |-> FALSE, over |-> FALSE]

Numbers == UNION {DOMAIN e : e \in Episodes}
\* A saved game: the entry it goes on from, the level it is of; late: see Slip.
SavedGame == [idx : Numbers, file : Numbers, late : BOOLEAN]

TypeOK ==
    /\ episode \in Episodes
    /\ net \in [role : Roles \cup {"single"}, one : BOOLEAN]
    /\ gui \in [cur : Modes, next : Modes, stop : BOOLEAN]
    /\ run \in [at : Phases, back : Phases, fresh : BOOLEAN, lightPath : BOOLEAN,
               again : BOOLEAN]
    /\ ep \in [idx : DOMAIN episode, ent : DOMAIN episode \cup {NONE},
               ent2 : DOMAIN episode \cup {NONE}, loading : BOOLEAN, shown : BOOLEAN]
    /\ plan \in [gameMode : {0, 1, 2}, file : Numbers \cup {NONE},
                 game : SavedGame \cup {NONE}]
    /\ lvl \in [world : DOMAIN episode \cup {NONE}, init : BOOLEAN, eight : BOOLEAN,
                ddraw : BOOLEAN, five : BOOLEAN, ending : BOOLEAN, over : BOOLEAN]
    /\ disk.saves \subseteq SavedGame
    /\ disk.op \in {"none", "save", "load"}
    /\ disk.op = "load" => disk.game \in disk.saves
    /\ slipped \in BOOLEAN
    \* who asks for the next level has an entry to go on from
    /\ run.at = "startNext" /\ ~run.fresh /\ ~ep.loading => ep.ent # NONE

Init ==
    /\ episode \in Episodes
    /\ net = Single
    /\ gui = [cur |-> TITLE, next |-> TITLE, stop |-> FALSE]
    /\ run = At("show")
    /\ ep = [idx |-> 1, ent |-> NONE, ent2 |-> NONE, loading |-> FALSE, shown |-> FALSE]
    /\ plan = [gameMode |-> 0, file |-> NONE, game |-> NONE]
    /\ lvl = NoLevel
    /\ disk = [saves |-> {}, op |-> "none", game |-> NONE]
    /\ slipped = FALSE

-----------------------------------------------------------------------------
(* Asking for a mode, and for the next entry. *)

\* jkSmack_stopTick = 1; jkSmack_nextGuiState = mode. (thing_four closes no menu.)
Ask(mode) == gui' = [gui EXCEPT !.stop = TRUE, !.next = mode]

Goto(phase) == run' = At(phase)

\* jkMain_StartNextLevelInEpisode is called and returns to a phase.
CallNext(fresh, lightPath, back) ==
    run' = [At("startNext") EXCEPT !.back = back, !.fresh = fresh, !.lightPath = lightPath]

\* What the code does not guard against, and the properties except, until another game
\* is begun. A game saved between the end of a level and the next one, or in a game that
\* has slipped, is loaded; a game is loaded in the frame in which the level ends; the
\* level ends while the escape menu of a multiplayer game is open; "restart" is chosen in
\* the escape menu and then declined; a client takes the number of the level that ends
\* for the cutscene before it.
Slip(happens) == slipped' = (slipped \/ happens)

\* jkEpisode_GetNextEntryInDecisionPath, without the assignment
NextEntry(i, lightPath) == IF lightPath THEN episode[i].gotoA ELSE episode[i].gotoB

\* bug: bLoadingSomething stays set, and the next call takes another step.
AdvancedStillLoading(e, lightPath) ==
    IF ~e.loading THEN e
    ELSE LET n == NextEntry(e.idx, lightPath)
         IN [e EXCEPT !.ent = e.idx, !.ent2 = n,
                      !.idx = IF n = NONE THEN @ ELSE n, !.shown = (n = NONE) /\ @]

\* The entries StartNextLevelInEpisode goes by: one step on, if the current one is loaded.
Advanced(e, lightPath) ==
    IF ~e.loading THEN e
    ELSE LET n == NextEntry(e.idx, lightPath)
         IN [e EXCEPT !.ent = e.idx, !.ent2 = n, !.loading = FALSE,
                      !.idx = IF n = NONE THEN @ ELSE n, !.shown = (n = NONE) /\ @]

Begun == IF run.fresh
         THEN [ep EXCEPT !.ent = ep.idx, !.ent2 = ep.idx, !.loading = FALSE] ELSE ep

\* jkMain_cd_swap_reverify of an entry; ep has bLoadingSomething set by now.
Reverify(e) ==
    LET i == e.ent2 IN
    \/ /\ episode[i].type = "level"
       /\ plan' = [plan EXCEPT !.gameMode = IF Multi THEN 2 ELSE 0, !.file = i]
       /\ Ask(GAMEPLAY) /\ Goto(run.back) /\ ep' = e
    \/ /\ episode[i].type = "choice"
       /\ Ask(CHOICE) /\ Goto(run.back) /\ ep' = e /\ UNCHANGED plan
    \/ /\ episode[i].type = "cut" /\ ~episode[i].there
       /\ ep' = [e EXCEPT !.shown = TRUE]
       /\ CallNext(FALSE, TRUE, run.back) /\ UNCHANGED <<gui, plan>>
    \/ /\ episode[i].type = "cut" /\ episode[i].there
       /\ plan' = [plan EXCEPT !.file = i]
       /\ \/ gui.cur \in {MAIN, ENDLEVEL} /\ Ask(VIDEO4)
          \/ gui.cur \in {GAMEPLAY, CD_SWITCH, VIDEO3} /\ Ask(VIDEO3)
          \/ /\ gui.cur \notin {MAIN, ENDLEVEL, GAMEPLAY, CD_SWITCH, VIDEO3}
             /\ UNCHANGED gui
       /\ Goto(run.back) /\ ep' = e

SameLevel(e) == episode[e.ent].level = episode[e.ent2].level \/ gui.cur = ENDLEVEL

\* jkMain_StartNextLevelInEpisode; from a level to its cutscene by way of CD_SWITCH.
StartNext ==
    /\ run.at = "startNext"
    /\ LET e == Advanced(Begun, run.lightPath) IN
       \/ /\ e.ent2 = NONE
          /\ Ask(IF episode[e.ent].gotoA = NONE THEN CREDITS ELSE MAIN)
          /\ ep' = e /\ Goto(run.back) /\ UNCHANGED plan
       \/ /\ e.ent2 # NONE /\ Multi /\ net.one
          /\ Ask(MAIN) /\ ep' = e /\ Goto(run.back) /\ UNCHANGED plan
       \/ /\ e.ent2 # NONE /\ ~(Multi /\ net.one) /\ SameLevel(e)
          /\ \/ /\ episode[e.ent2].type = "cut" /\ gui.cur = GAMEPLAY
                /\ Ask(CD_SWITCH) /\ ep' = e /\ Goto(run.back) /\ UNCHANGED plan
             \/ /\ ~(episode[e.ent2].type = "cut" /\ gui.cur = GAMEPLAY)
                /\ Reverify([e EXCEPT !.loading = TRUE])
       \/ /\ e.ent2 # NONE /\ ~(Multi /\ net.one) /\ ~SameLevel(e)
          /\ Ask(ENDLEVEL) /\ ep' = e /\ Goto(run.back) /\ UNCHANGED plan
    /\ UNCHANGED <<episode, net, lvl, disk, slipped>>
-----------------------------------------------------------------------------
(* jkMain_GuiAdvance: leave, enter and show, tick. *)

\* Window_MessageLoop calls it without end.
GuiAdvance ==
    /\ run.at = "advance"
    /\ Goto(IF gui.stop THEN "leave" ELSE "tick")
    /\ UNCHANGED <<episode, net, gui, ep, plan, lvl, disk, slipped>>

Enter ==
    /\ run.at = "enter"
    /\ gui' = [cur |-> gui.next, next |-> gui.next, stop |-> FALSE]
    /\ run' = [At("show") EXCEPT !.again = (gui.cur = ESCAPE /\ gui.next = GAMEPLAY)]
    /\ UNCHANGED <<episode, net, ep, plan, lvl, disk, slipped>>

\* bug: a game that is left from its menu stays open.
ClosedWithDisplay == IF lvl.init /\ lvl.ddraw THEN [NoLevel EXCEPT !.ending = lvl.ending]
                     ELSE [lvl EXCEPT !.ddraw = FALSE]

\* jkPlayer_Shutdown, sithMain_Close
Closed == IF lvl.init THEN [NoLevel EXCEPT !.ending = lvl.ending]
          ELSE [lvl EXCEPT !.ddraw = FALSE]

\* jkMain_GameplayLeave, EscapeMenuLeave: not for a look at the menu or back from it. In
\* a multiplayer game the tally is shown, and whoever aborts it leaves the session.
LeaveGame ==
    /\ run.at = "leave" /\ gui.cur \in {GAMEPLAY, ESCAPE}
    /\ Goto("enter")
    /\ \/ /\ gui.cur = ESCAPE /\ gui.next = GAMEPLAY
          /\ UNCHANGED <<net, gui, lvl>>
       \/ /\ gui.cur = GAMEPLAY /\ gui.next = ESCAPE
          /\ lvl' = [lvl EXCEPT !.ddraw = FALSE] /\ UNCHANGED <<net, gui>>
       \/ /\ gui.next # ESCAPE /\ ~(gui.cur = ESCAPE /\ gui.next = GAMEPLAY)
          /\ IF Multi
             THEN /\ lvl' = [Closed EXCEPT !.eight = FALSE]
                  /\ \/ /\ net' = IF gui.next = MAIN THEN Single ELSE net
                        /\ UNCHANGED gui
                     \/ net' = Single /\ Ask(MAIN)
             ELSE lvl' = Closed /\ UNCHANGED <<net, gui>>
    /\ UNCHANGED <<episode, ep, plan, disk, slipped>>

\* jkMain_VideoLeave; the other modes have nothing to do.
LeaveOther ==
    /\ run.at = "leave" /\ gui.cur \notin {GAMEPLAY, ESCAPE}
    /\ IF gui.cur \in {VIDEO3, VIDEO4} THEN CallNext(FALSE, TRUE, "enter") ELSE Goto("enter")
    /\ UNCHANGED <<episode, net, gui, ep, plan, lvl, disk, slipped>>

\* jkMain_TitleTick, UnkTick (which loads the episode anew)
TickOnce ==
    /\ run.at = "tick" /\ ~gui.stop
    /\ \/ gui.cur = TITLE /\ Ask(MAIN) /\ UNCHANGED <<ep, plan>>
       \/ /\ gui.cur = UNK
          /\ ep' = [ep EXCEPT !.idx = 1, !.ent = NONE, !.ent2 = NONE, !.shown = FALSE]
          /\ plan' = [plan EXCEPT !.gameMode = 1]
          /\ Ask(GAMEPLAY)
    /\ Goto("advance")
    /\ UNCHANGED <<episode, net, lvl, disk, slipped>>

\* jkMain_VideoTick, CreditsTick, when the video or the credits are over
PlayedOut ==
    /\ run.at = "tick" /\ ~gui.stop
    /\ \/ gui.cur = VIDEO2 /\ Ask(CUTSCENE)
       \/ gui.cur = VIDEO3 /\ Ask(ENDLEVEL)
       \/ gui.cur = VIDEO4 /\ Ask(GAMEPLAY)
       \/ gui.cur = CREDITS /\ Ask(MAIN)
    /\ Goto("advance")
    /\ UNCHANGED <<episode, net, ep, plan, lvl, disk, slipped>>

\* jkMain_GameplayTick up to sithMain_Tick; the game is ticked once it has been shown.
TickGameplay ==
    /\ run.at = "tick" /\ ~gui.stop /\ gui.cur = GAMEPLAY
    /\ Goto(IF lvl.eight THEN "frame" ELSE "advance")
    /\ UNCHANGED <<episode, net, gui, ep, plan, lvl, disk, slipped>>

\* Nothing is done in this turn: a mode is asked for, plays on, or has no tick of its own.
TickIdle ==
    /\ run.at = "tick"
    /\ gui.stop \/ gui.cur \notin {TITLE, UNK, GAMEPLAY}
    /\ Goto("advance")
    /\ UNCHANGED <<episode, net, gui, ep, plan, lvl, disk, slipped>>
-----------------------------------------------------------------------------
(* Entering a mode. What the tally and the choice show is answered within.      *)

ShowIs(mode) == run.at = "show" /\ gui.cur = mode

\* jkMain_TitleShow, UnkShow, CutsceneShow, MainShow and EscapeMenuShow: the last three
\* open a menu. jkMain_VideoShow, CreditsShow (which may fail).
ShowOther ==
    /\ run.at = "show" /\ gui.cur \notin {GAMEPLAY, CD_SWITCH, ENDLEVEL, CHOICE}
    /\ Goto(IF gui.cur \in {MAIN, ESCAPE, CUTSCENE} THEN "menu" ELSE "tick")
    /\ ep' = [ep EXCEPT !.shown = @ \/ (gui.cur \in {VIDEO3, VIDEO4} /\ plan.file = ep.idx)]
    /\ \/ UNCHANGED gui
       \/ gui.cur = CREDITS /\ Ask(MAIN)
    /\ UNCHANGED <<episode, net, plan, lvl, disk, slipped>>

\* bug: the disc is there, but nobody goes on.
ShowCdSwitchWaits ==
    /\ ShowIs(CD_SWITCH)
    /\ Goto("tick")
    /\ UNCHANGED <<episode, net, gui, ep, plan, lvl, disk, slipped>>

\* jkMain_CdSwitchShow
ShowCdSwitch ==
    /\ ShowIs(CD_SWITCH)
    /\ CallNext(FALSE, TRUE, "tick")
    /\ UNCHANGED <<episode, net, gui, ep, plan, lvl, disk, slipped>>

\* jkMain_EndLevelScreenShow: the tally may be aborted, where it is shown.
ShowEndLevel ==
    /\ ShowIs(ENDLEVEL)
    /\ \/ CallNext(FALSE, TRUE, "tick") /\ UNCHANGED gui
       \/ plan.gameMode # 2 /\ Ask(MAIN) /\ Goto("tick")
    /\ UNCHANGED <<episode, net, ep, plan, lvl, disk, slipped>>

\* jkMain_ChoiceShow
ShowChoice ==
    /\ ShowIs(CHOICE)
    /\ ep' = [ep EXCEPT !.shown = TRUE]
    /\ \/ \E light \in BOOLEAN : CallNext(FALSE, light, "tick") /\ UNCHANGED gui
       \/ Ask(MAIN) /\ Goto("tick")
    /\ UNCHANGED <<episode, net, plan, lvl, disk, slipped>>

\* sithGamesave_LoadEntry, the episode: an index of 0 is looked up by the level's name.
Restored(s) ==
    LET i == IF s.idx = 1 THEN s.file ELSE s.idx
    IN [ep EXCEPT !.idx = i, !.ent = i, !.ent2 = i, !.shown = (s.file = i)]

Opens(i) == i \in DOMAIN episode /\ episode[i].type = "level" /\ episode[i].there

\* sithMain_Mode1Init, Mode1Init_3, OpenNormal
OpenLevel(i) ==
    [lvl EXCEPT !.world = i, !.init = TRUE, !.eight = TRUE, !.ddraw = TRUE,
                !.five = FALSE, !.over = FALSE]

\* sithGamesave_Write and Load only note what sithGamesave_Flush is to do.
Request(op, game) == disk' = [disk EXCEPT !.op = op, !.game = game]

\* jkMain_GameplayShow, back from the menu. With a display that is open already,
\* jkMain_SetVideoMode would fail; jkGame_isDDraw is cleared before.
ShowGameAgain ==
    /\ ShowIs(GAMEPLAY) /\ run.again
    /\ lvl' = [lvl EXCEPT !.ddraw = TRUE, !.eight = TRUE]
    /\ Goto("tick")
    /\ UNCHANGED <<episode, net, gui, ep, plan, disk, slipped>>

\* jkMain_GameplayShow, a level from its start; sithMain_AutoSave. After a video that
\* followed another, the mode is a saved game's and the name a video's: none is opened.
ShowLevel ==
    LET opens == plan.gameMode # 1 /\ Opens(plan.file) IN
    /\ ShowIs(GAMEPLAY) /\ ~run.again /\ (plan.gameMode = 1 => plan.game = NONE)
    /\ Goto("tick")
    /\ \/ /\ opens
          /\ lvl' = OpenLevel(plan.file)
          /\ ep' = [ep EXCEPT !.shown = @ \/ plan.file = ep.idx]
          /\ IF Multi THEN UNCHANGED disk ELSE Request("save", NONE)
          /\ UNCHANGED <<net, gui>>
       \/ \* no such file, or a player that could not be synchronized
          /\ opens => net.role = "client"
          /\ Ask(MAIN)
          /\ net' = IF opens THEN Single ELSE net
          /\ lvl' = [NoLevel EXCEPT !.ending = lvl.ending, !.eight = lvl.eight]
          /\ UNCHANGED <<ep, disk>>
    /\ UNCHANGED <<episode, plan, slipped>>

\* The ghost: a game is loaded that was saved too late, or too late itself.
LoadSlip(s) == Slip(s.late \/ lvl.over)

\* jkMain_GameplayShow, a saved game of a level that is not open
ShowSavedGame ==
    /\ ShowIs(GAMEPLAY) /\ ~run.again /\ plan.gameMode = 1 /\ plan.game # NONE
    /\ ep' = Restored(plan.game)
    /\ lvl' = OpenLevel(plan.game.file)
    /\ LoadSlip(plan.game)
    /\ plan' = [plan EXCEPT !.game = NONE]
    /\ Goto("tick")
    /\ UNCHANGED <<episode, net, gui, disk>>

-----------------------------------------------------------------------------
(* The menus. *)

InMenu(mode) == run.at = "menu" /\ gui.cur = mode

NewGame == slipped' = FALSE

\* jkMain_LoadFile: an episode from its start
PlayEpisode ==
    /\ InMenu(MAIN)
    /\ ep' = [ep EXCEPT !.idx = 1, !.ent = NONE, !.ent2 = NONE, !.shown = FALSE]
    /\ CallNext(TRUE, TRUE, "tick") /\ NewGame
    /\ UNCHANGED <<episode, net, gui, plan, lvl, disk>>

\* bug: the level is not looked up among the entries.
PlayLevelNoEntry ==
    /\ InMenu(MAIN)
    /\ \E i \in DOMAIN episode :
          /\ episode[i].type = "level"
          /\ ep' = [ep EXCEPT !.idx = i, !.shown = FALSE]
          /\ plan' = [plan EXCEPT !.gameMode = 0, !.file = i]
    /\ Ask(GAMEPLAY) /\ Goto("tick") /\ NewGame
    /\ UNCHANGED <<episode, net, lvl, disk>>

\* jkMain_sub_403470 and what jkGUISingleplayer does with it: a level by its name.
PlayLevel ==
    /\ InMenu(MAIN)
    /\ \E i \in DOMAIN episode :
          /\ episode[i].type = "level"
          /\ ep' = [ep EXCEPT !.idx = i, !.ent = i, !.ent2 = i, !.shown = FALSE]
          /\ plan' = [plan EXCEPT !.gameMode = 0, !.file = i]
    /\ Ask(GAMEPLAY) /\ Goto("tick") /\ NewGame
    /\ UNCHANGED <<episode, net, lvl, disk>>

\* jkMain_loadFile2: a multiplayer game, which one hosts or joins
PlayMulti ==
    /\ InMenu(MAIN)
    /\ \E i \in DOMAIN episode, one \in BOOLEAN, role \in Roles \ {"single"} :
          /\ episode[i].type = "level"
          /\ net' = [role |-> role, one |-> one]
          /\ ep' = [idx |-> i, ent |-> NONE, ent2 |-> NONE, loading |-> TRUE, shown |-> FALSE]
          /\ plan' = [plan EXCEPT !.gameMode = 2, !.file = i]
    /\ Ask(GAMEPLAY) /\ Goto("tick") /\ NewGame
    /\ UNCHANGED <<episode, lvl, disk>>

\* jkMain_sub_4034D0: a saved game, from the main menu or of another level
LoadOther ==
    /\ InMenu(MAIN) \/ (InMenu(ESCAPE) /\ ~Multi)
    /\ \E s \in disk.saves : s.file # lvl.world /\ plan' = [plan EXCEPT !.game = s]
    /\ ep' = [ep EXCEPT !.loading = TRUE]
    /\ Ask(UNK) /\ Goto("tick") /\ NewGame
    /\ UNCHANGED <<episode, net, lvl, disk>>

\* jkMain_SwitchTo4, SwitchTo12, SwitchTo13, and back with jkMain_MenuReturn
OtherMenus ==
    /\ \/ InMenu(MAIN) /\ \E m \in {CUTSCENE, CREDITS} : Ask(m)
       \/ InMenu(CUTSCENE) /\ \E m \in {VIDEO2, MAIN} : Ask(m)
       \/ InMenu(ESCAPE) /\ Ask(MAIN)
    /\ Goto("tick")
    /\ UNCHANGED <<episode, net, ep, plan, lvl, disk, slipped>>

\* The game that is written, with jkDSS_Write: the entry there is now, not the level's.
Written == [idx |-> ep.idx, file |-> lvl.world, late |-> lvl.over \/ slipped]

\* The saved games that a new one may leave, the most there is room for.
Kept == {k \in SUBSET disk.saves :
             Cardinality(k) < MaxSaves /\ Cardinality(disk.saves) - Cardinality(k) <= 1}

\* jkGuiEsc_Show: back to the game, jkMain_MissionReload. The save menu writes at once.
Return ==
    /\ InMenu(ESCAPE)
    /\ Ask(GAMEPLAY) /\ Goto("tick")
    /\ UNCHANGED <<episode, net, ep, plan, lvl, disk, slipped>>

\* jkPlayer_LoadSave of this level, jkPlayer_LoadAutosave, then jkMain_MissionReload.
LoadSame ==
    /\ InMenu(ESCAPE) /\ ~Multi
    /\ \E s \in disk.saves : s.file = lvl.world /\ Request("load", s)
    /\ ep' = [ep EXCEPT !.loading = TRUE]
    /\ Ask(GAMEPLAY) /\ Goto("tick")
    /\ UNCHANGED <<episode, net, plan, lvl, slipped>>

\* jkGuiSaveLoad_Show(1): written at once, and back to the game.
SaveInMenu ==
    /\ InMenu(ESCAPE) /\ ~Multi
    /\ \E kept \in Kept :
          disk' = [saves |-> kept \cup {Written}, op |-> "none", game |-> NONE]
    /\ Ask(GAMEPLAY) /\ Goto("tick")
    /\ UNCHANGED <<episode, net, ep, plan, lvl, slipped>>

\* "Restart" and then not: jkGuiEsc_Show returns, and nobody has asked for a mode.
DeclineRestart ==
    /\ InMenu(ESCAPE) /\ ~Multi
    /\ Goto("tick") /\ Slip(TRUE)
    /\ UNCHANGED <<episode, net, gui, ep, plan, lvl, disk>>

-----------------------------------------------------------------------------
(* A frame of the game: what scripts, the player and the network do in it.      *)

\* bug: the key is taken even if another mode is due.
EscKeyAlways ==
    /\ run.at = "advance" /\ lvl.ddraw
    /\ Ask(ESCAPE)
    /\ UNCHANGED <<episode, net, run, ep, plan, lvl, disk, slipped>>

\* Windows_GdiHandler, jkMain_do_guistate6: not if another mode is due.
EscKey ==
    /\ run.at = "advance" /\ lvl.ddraw /\ ~gui.stop
    /\ Ask(ESCAPE)
    /\ UNCHANGED <<episode, net, run, ep, plan, lvl, disk, slipped>>

\* jkMain_EscapeMenuTick, while the menu is open: a multiplayer game goes on.
TickInMenu ==
    /\ InMenu(ESCAPE) /\ Multi /\ lvl.eight /\ ~gui.stop
    /\ Goto("frame")
    /\ UNCHANGED <<episode, net, gui, ep, plan, lvl, disk, slipped>>

\* jkMain_EndLevel
EndLevel(lightPath, back) ==
    /\ CallNext(FALSE, lightPath, back)
    /\ lvl' = [lvl EXCEPT !.over = TRUE, !.ending = FALSE]
    /\ Slip(gui.cur = ESCAPE)

\* jkCog_EndLevel of a script, any number of times
CogEndLevel ==
    /\ run.at = "frame" /\ ~Multi
    /\ \E light \in BOOLEAN :
          /\ CallNext(FALSE, light, "frame")
          /\ lvl' = [lvl EXCEPT !.over = TRUE]
    /\ UNCHANGED <<episode, net, gui, ep, plan, disk, slipped>>

\* Quick save (jkControl), sithCogFunction_AutoSaveGame
Save ==
    /\ run.at = "frame" /\ ~Multi
    /\ Request("save", NONE)
    /\ UNCHANGED <<episode, net, gui, run, ep, plan, lvl, slipped>>

\* sithPlayer_debug_loadauto, when the player dies: the game saved last, or the
\* autosave; here any saved game.
Die ==
    /\ run.at = "frame" /\ ~Multi
    /\ \E s \in disk.saves : Request("load", s)
    /\ UNCHANGED <<episode, net, gui, run, ep, plan, lvl, slipped>>

\* jkDSS_ProcessEndLevel: the host says what level ends; jkEpisode_EndLevel
ProcessEndLevel ==
    /\ run.at = "frame" /\ net.role = "client"
    /\ LET i == CHOOSE j \in DOMAIN episode :
                   /\ episode[j].level = episode[lvl.world].level
                   /\ \A k \in 1 .. j - 1 : episode[k].level # episode[j].level
       IN /\ ep' = [ep EXCEPT !.idx = i, !.shown = @ /\ i = ep.idx]
          /\ Slip(i # ep.idx)
    /\ UNCHANGED <<episode, net, gui, run, plan, lvl, disk>>

\* sithGamesave_Flush, at the end of sithMain_Tick; in a multiplayer game what
\* sithMulti_HandleTimeLimit finds due before: the end of the level, or of the session.
FrameEnds ==
    /\ run.at = "frame"
    /\ \/ /\ disk.op = "none"
          /\ \/ UNCHANGED lvl
             \/ Multi /\ \E what \in {"ending", "five"} : lvl' = [lvl EXCEPT ![what] = TRUE]
          /\ UNCHANGED <<ep, disk, slipped>>
       \/ /\ disk.op = "save"
          /\ \E kept \in Kept :
                disk' = [disk EXCEPT !.saves = kept \cup {Written}, !.op = "none"]
          /\ UNCHANGED <<ep, lvl, slipped>>
       \/ /\ disk.op = "load"
          /\ disk' = [disk EXCEPT !.op = "none", !.game = NONE]
          /\ ep' = Restored(disk.game)
          /\ lvl' = [lvl EXCEPT !.world = disk.game.file, !.over = FALSE]
          /\ LoadSlip(disk.game)
    /\ Goto("after")
    /\ UNCHANGED <<episode, net, gui, plan>>

\* The rest of jkMain_GameplayTick and EscapeMenuTick
After ==
    /\ run.at = "after"
    /\ LET back == IF gui.cur = ESCAPE THEN "menu" ELSE "advance" IN
       \/ lvl.five /\ Ask(MAIN) /\ Goto(back) /\ UNCHANGED <<lvl, slipped>>
       \/ ~lvl.five /\ lvl.ending /\ EndLevel(TRUE, back) /\ UNCHANGED gui
       \/ ~lvl.five /\ ~lvl.ending /\ Goto(back) /\ UNCHANGED <<gui, lvl, slipped>>
    /\ UNCHANGED <<episode, net, ep, plan, disk>>

-----------------------------------------------------------------------------
Frame == CogEndLevel \/ Save \/ Die \/ ProcessEndLevel \/ FrameEnds
Menu == PlayEpisode \/ PlayLevel \/ PlayMulti \/ LoadOther \/ OtherMenus \/ Return
        \/ SaveInMenu \/ LoadSame \/ DeclineRestart
Leave == LeaveGame \/ LeaveOther
Show == ShowOther \/ ShowCdSwitch \/ ShowEndLevel \/ ShowChoice \/ ShowGameAgain
        \/ ShowLevel \/ ShowSavedGame
Tick == TickOnce \/ TickGameplay \/ TickIdle \/ TickInMenu

Next == GuiAdvance \/ Leave \/ Enter \/ Show \/ Tick \/ PlayedOut \/ StartNext \/ Menu
        \/ EscKey \/ Frame \/ After

Spec == Init /\ [][Next]_vars

\* The program runs (what is in brackets has no choice but to go on), a video and the
\* credits come to their end, and so do the handlers of a frame.
Fairness ==
    /\ WF_vars(GuiAdvance \/ Leave \/ Enter \/ Show \/ TickOnce \/ TickGameplay \/ TickIdle
               \/ StartNext \/ After)
    /\ SF_vars(PlayedOut) /\ SF_vars(FrameEnds)

FairSpec == Spec /\ Fairness

-----------------------------------------------------------------------------
(* Properties. *)

\* When the program has settled in a mode, a level is open exactly in the game and in
\* its menu, with the display of the game or without: whatever way led there, through a
\* level that could not be opened, a session that was left or a saved game.
WorldHeld ==
    run.at \in {"tick", "menu"} /\ ~gui.stop =>
        /\ (lvl.world # NONE) <=> gui.cur \in {GAMEPLAY, ESCAPE}
        /\ lvl.init <=> lvl.world # NONE
        /\ lvl.ddraw <=> gui.cur = GAMEPLAY
        /\ lvl.world # NONE => lvl.eight

\* The episode goes on from an entry only if that entry was there to play, to see or to
\* choose, or its video is missing: no level and no cutscene is passed over, however
\* often scripts end the level and whatever is saved and loaded on the way.
NothingSkipped ==
    run.at = "startNext" /\ ~run.fresh /\ ep.loading /\ ~slipped => ep.shown

\* No frame is played of a level that has ended: the next mode comes first.
EndedIsOver ==
    [][run.at \in {"tick", "menu"} /\ run'.at = "frame"
       => ~lvl.over \/ slipped]_vars

\* A level that has ended, a video, a screen between two levels or a saved game that is
\* being opened leads to a level that is played or to the main menu.
GoesOn ==
    (lvl.over \/ gui.cur \notin {MAIN, GAMEPLAY, ESCAPE, CUTSCENE})
        ~> \/ gui.cur \in {MAIN, CUTSCENE} \/ slipped
           \/ gui.cur = GAMEPLAY /\ ~lvl.over
=============================================================================
