----------------------------- MODULE JkMain_proofs -----------------------------
(***************************************************************************)
(* The modes of the game: a level is open exactly where it is played, no   *)
(* entry of an episode is passed over, and a level that has ended is not   *)
(* played on; for all episodes, and for any number of saved games.         *)
(***************************************************************************)
EXTENDS JkMain, WellFoundedInduction, TLAPS

\* The names of the modes are known everywhere: they only tell the modes apart.
USE DEF TITLE, MAIN, GAMEPLAY, ESCAPE, CD_SWITCH, ENDLEVEL, CHOICE, CREDITS, UNK,
        CUTSCENE, VIDEO2, VIDEO3, VIDEO4

-------------------------------------------------------------------------------
(* The invariant *)

Inside  == gui.cur \in {GAMEPLAY, ESCAPE}
Between == gui.cur \in {CD_SWITCH, ENDLEVEL, CHOICE}
Video   == gui.cur \in {VIDEO3, VIDEO4}

\* What TypeOK says of the saved games, with the fields of the record.
Disk == disk \in [saves : SUBSET SavedGame, op : {"none", "save", "load"},
                  game : SavedGame \cup {NONE}]

\* Which function runs in which mode, and when another mode is due.
Requests ==
    /\ ~gui.stop => gui.next = gui.cur
    /\ run.at \in {"leave", "enter"} => gui.stop
    /\ run.at = "show" => ~gui.stop
    /\ run.at = "menu" => gui.cur = ESCAPE \/ (gui.cur \in {MAIN, CUTSCENE} /\ ~gui.stop)
    /\ run.at \in {"frame", "after"} => Inside
    /\ run.at \in {"frame", "after", "startNext"} /\ gui.cur = ESCAPE => Multi
    /\ gui.cur = VIDEO4 /\ gui.stop /\ run.at # "enter" => gui.next = GAMEPLAY

\* Who asks for the next entry, and where that returns to.
Callers ==
    run.at = "startNext" =>
        /\ Inside \/ Between \/ Video \/ gui.cur = MAIN
        /\ Inside => run.back \in {"frame", "menu", "advance"} /\ ~run.fresh
        /\ run.back = "menu" => gui.cur = ESCAPE
        /\ gui.cur = MAIN \/ Between => run.back = "tick" /\ ~gui.stop
        /\ Video => run.back = "enter" /\ gui.stop
        /\ run.fresh => gui.cur = MAIN

\* UNK, the way to a saved game, is asked for in a menu only.
Loads ==
    /\ gui.next = UNK =>
          /\ gui.cur \in {MAIN, ESCAPE, UNK} /\ (gui.cur = ESCAPE => ~Multi)
          /\ run.at \in {"show", "tick", "advance", "leave", "enter"}
          /\ ep.loading
    /\ gui.cur = UNK /\ ~gui.stop => run.at \in {"show", "tick", "advance"}

\* The level that is open, where one is: also while a mode is left and the next entered.
Worlds ==
    /\ lvl.init <=> lvl.world # NONE
    /\ lvl.world # NONE => lvl.eight /\ episode[lvl.world].type = "level"
    /\ lvl.over => lvl.world # NONE
    /\ ~Inside => lvl.world = NONE /\ ~lvl.ddraw /\ gui.next # ESCAPE
    /\ Inside /\ run.at = "show" =>
          ~lvl.ddraw /\ (lvl.world # NONE <=> run.again \/ gui.cur = ESCAPE)
    /\ Inside /\ run.at = "enter" =>
          /\ ~lvl.ddraw
          /\ lvl.world # NONE <=> \/ gui.cur = ESCAPE /\ gui.next = GAMEPLAY
                                  \/ gui.cur = GAMEPLAY /\ gui.next = ESCAPE
    /\ gui.cur = ESCAPE /\ gui.stop => gui.next # ESCAPE
    /\ gui.cur = ESCAPE /\ run.at \notin {"show", "enter"} =>
          lvl.world # NONE /\ ~lvl.ddraw
    /\ gui.cur = GAMEPLAY /\ run.at \notin {"show", "enter"} =>
          \/ lvl.world # NONE /\ lvl.ddraw
          \/ /\ lvl.world = NONE /\ ~lvl.ddraw /\ gui.stop /\ gui.next = MAIN
             /\ run.at \in {"tick", "advance", "leave"}

\* In the modes of a game the place in the episode is known.
Playing == {GAMEPLAY, ESCAPE, VIDEO3, VIDEO4, CD_SWITCH, ENDLEVEL, CHOICE}
Started ==
    gui.cur \in Playing \/ gui.next \in Playing \/ (run.at = "startNext" /\ ~run.fresh) =>
        ep.loading \/ ep.ent # NONE

\* A saved game goes on from an entry of this episode: its level's, if it was in time.
GameOK(s) == /\ s.idx \in DOMAIN episode /\ s.file \in DOMAIN episode
             /\ episode[s.file].type = "level" /\ (~s.late => s.idx = s.file)
Games == (\A s \in disk.saves : GameOK(s)) /\ (plan.game # NONE => GameOK(plan.game))

\* The entry that is due is the current one.
Current == gui.next # UNK /\ ep.ent2 # NONE => ep.ent2 = ep.idx

\* In a level the current entry is the level's, until the level has ended.
InGame ==
    lvl.world # NONE /\ gui.next # UNK =>
        /\ ep.loading => ep.shown
        /\ ~lvl.over => lvl.world = ep.idx /\ ep.shown
        /\ IF ep.loading THEN episode[ep.idx].type = "level"
           ELSE ep.ent # NONE /\ episode[ep.ent].type = "level"
        /\ ~ep.loading /\ ep.ent = ep.ent2 => ep.shown
        /\ lvl.over => /\ gui.cur = GAMEPLAY
                       /\ run.at = "startNext" \/ (gui.stop /\ gui.next # ESCAPE)
        /\ run.at = "startNext" \/ (run.at = "frame" /\ gui.stop) => lvl.over

\* The mode that is asked for fits the current entry.
IsCut == plan.file = ep.idx /\ episode[ep.idx].type = "cut"
Due ==
    run.at # "startNext" /\ (gui.stop \/ run.at = "show") =>
        /\ gui.next \in {VIDEO3, VIDEO4} => IsCut
        /\ gui.next \in {ENDLEVEL, CD_SWITCH} => (ep.loading => ep.shown)
        /\ gui.next = GAMEPLAY /\ gui.cur # ESCAPE /\ ~(run.at = "show" /\ run.again) =>
              (plan.gameMode # 1 /\ Opens(plan.file) =>
                 plan.file = ep.idx /\ (~ep.loading => ep.ent = ep.idx))

\* A video that is played is the current entry.
Watched == Video /\ run.at \in {"tick", "advance", "leave"} => IsCut /\ ep.shown

\* Whoever asks for the next entry has shown this one.
Called == run.at = "startNext" /\ ~run.fresh /\ ep.loading => ep.shown

Story == ~slipped => Current /\ InGame /\ Due /\ Watched /\ Called

Control == Disk /\ Requests /\ Callers /\ Loads
Inv == TypeOK /\ Control /\ Worlds /\ Started /\ Games /\ Story

-------------------------------------------------------------------------------
(* The episode and the operators *)

\* The entries of an episode that can be played, as EpisodeAssumption has them.
LEMMA EntriesOk ==
    ASSUME episode \in Episodes
    PROVE  /\ 1 \in DOMAIN episode /\ DOMAIN episode \subseteq Numbers
           /\ NONE \notin DOMAIN episode /\ NONE \notin Numbers
           /\ \A i \in DOMAIN episode :
                 /\ episode[i].type \in {"level", "cut", "choice"}
                 /\ episode[i].there \in BOOLEAN /\ episode[i].level \in Nat
           /\ \A i, j \in DOMAIN episode :
                 episode[i].type = "level" /\ episode[j].type \in {"level", "choice"}
                 /\ episode[i].level = episode[j].level => i = j
           /\ \A i \in DOMAIN episode, light \in BOOLEAN :
                 /\ NextEntry(i, light) \in DOMAIN episode \cup {NONE}
                 /\ NextEntry(i, light) # i
                 /\ episode[i].type = "choice" /\ NextEntry(i, light) # NONE =>
                       episode[NextEntry(i, light)].type = "level"
  <1>1. ASSUME NEW e \in Episodes
        PROVE  e \in Seq(Entry) /\ DOMAIN e = 1 .. Len(e) /\ Len(e) \in Nat /\ Len(e) > 0
    BY EpisodeAssumption DEF EpisodeAssumption
  <1>2. 1 \in DOMAIN episode /\ DOMAIN episode \subseteq Numbers
    BY <1>1 DEF Numbers
  <1>3. NONE \notin Numbers
    BY <1>1, NoneAssumption DEF Numbers
  <1>4. \A i \in DOMAIN episode : episode[i] \in Entry
    BY <1>1
  <1>5. \A i \in DOMAIN episode :
           /\ episode[i].type \in {"level", "cut", "choice"}
           /\ episode[i].there \in BOOLEAN /\ episode[i].level \in Nat
    BY <1>4 DEF Entry
  <1>6. \A i, j \in DOMAIN episode :
           episode[i].type = "level" /\ episode[j].type \in {"level", "choice"}
           /\ episode[i].level = episode[j].level => i = j
    BY EpisodeAssumption DEF EpisodeAssumption
  <1>7. ASSUME NEW i \in DOMAIN episode, NEW light \in BOOLEAN
        PROVE  /\ NextEntry(i, light) \in DOMAIN episode \cup {NONE}
               /\ NextEntry(i, light) # i
               /\ episode[i].type = "choice" /\ NextEntry(i, light) # NONE =>
                     episode[NextEntry(i, light)].type = "level"
    <2> DEFINE Good(n) == n # NONE => /\ n \in DOMAIN episode /\ n # i
                                      /\ episode[i].type = "choice" => episode[n].type = "level"
    <2>1. Good(episode[i].gotoA) /\ Good(episode[i].gotoB)
      <3>1. \A g \in {"gotoA", "gotoB"} : Good(episode[i][g])
        BY EpisodeAssumption DEF EpisodeAssumption
      <3>2. episode[i]["gotoA"] = episode[i].gotoA /\ episode[i]["gotoB"] = episode[i].gotoB
        OBVIOUS
      <3> QED
        BY <3>1, <3>2
    <2>2. NextEntry(i, light) \in {episode[i].gotoA, episode[i].gotoB}
      BY DEF NextEntry
    <2>3. NONE # i
      BY <1>2, <1>3
    <2> QED
      BY <2>1, <2>2, <2>3
  <1> QED
    BY <1>2, <1>3, <1>5, <1>6, <1>7

\* TypeOK, a record at a time.
GuiType  == gui \in [cur : Modes, next : Modes, stop : BOOLEAN]
RunType  == run \in [at : Phases, back : Phases, fresh : BOOLEAN, lightPath : BOOLEAN,
                     again : BOOLEAN]
EpType   == ep \in [idx : DOMAIN episode, ent : DOMAIN episode \cup {NONE},
                    ent2 : DOMAIN episode \cup {NONE}, loading : BOOLEAN, shown : BOOLEAN]
PlanType == plan \in [gameMode : {0, 1, 2}, file : Numbers \cup {NONE},
                      game : SavedGame \cup {NONE}]
LvlType  == lvl \in [world : DOMAIN episode \cup {NONE}, init : BOOLEAN, eight : BOOLEAN,
                     ddraw : BOOLEAN, five : BOOLEAN, ending : BOOLEAN, over : BOOLEAN]
RestType == /\ episode \in Episodes /\ slipped \in BOOLEAN
            /\ net \in [role : Roles \cup {"single"}, one : BOOLEAN]
DiskType == /\ disk.saves \subseteq SavedGame /\ disk.op \in {"none", "save", "load"}
            /\ disk.op = "load" => disk.game \in disk.saves
NextType == run.at = "startNext" /\ ~run.fresh /\ ~ep.loading => ep.ent # NONE

LEMMA TypesOk ==
    /\ TypeOK <=> /\ GuiType /\ RunType /\ EpType /\ PlanType /\ LvlType /\ RestType
                  /\ DiskType /\ NextType
    /\ TypeOK' <=> /\ GuiType' /\ RunType' /\ EpType' /\ PlanType' /\ LvlType' /\ RestType'
                   /\ DiskType' /\ NextType'
  BY Zenon DEF TypeOK, GuiType, RunType, EpType, PlanType, LvlType, RestType, DiskType, NextType

\* What a request, a call and a step to another function come to, field by field.
Asked(mode) == gui'.cur = gui.cur /\ gui'.next = mode /\ gui'.stop = TRUE
Went(phase) == run'.at = phase /\ run'.fresh = FALSE /\ run'.again = FALSE
Calls(fresh, back) == run'.at = "startNext" /\ run'.fresh = fresh /\ run'.back = back
SameEntries == /\ ep'.idx = ep.idx /\ ep'.ent = ep.ent /\ ep'.ent2 = ep.ent2
               /\ ep'.loading = ep.loading

LEMMA AskOk ==
    ASSUME GuiType, NEW mode \in Modes, Ask(mode)
    PROVE  GuiType' /\ Asked(mode)
  BY DEF GuiType, Ask, Asked

LEMMA GotoOk ==
    ASSUME NEW phase \in Phases, Goto(phase)
    PROVE  RunType' /\ Went(phase)
  BY DEF RunType, Goto, At, Went, Phases

LEMMA CallNextOk ==
    ASSUME NEW fresh \in BOOLEAN, NEW light \in BOOLEAN, NEW back \in Phases,
           CallNext(fresh, light, back)
    PROVE  RunType' /\ Calls(fresh, back) /\ run'.lightPath = light
  BY DEF RunType, CallNext, At, Calls, Phases

-------------------------------------------------------------------------------
(* The turn: jkMain_GuiAdvance *)

\* A step to another function, where nothing else is changed.
LEMMA GuiAdvanceKeeps == ASSUME Inv, GuiAdvance PROVE Inv'
  <1> USE TypesOk DEF Inv
  <1>1. RunType' /\ Went(run'.at) /\ run'.at = (IF gui.stop THEN "leave" ELSE "tick")
    BY GotoOk DEF GuiAdvance, Phases, Went
  <1>2. UNCHANGED <<episode, net, gui, ep, plan, lvl, disk, slipped>> /\ run.at = "advance"
    BY DEF GuiAdvance
  <1>3. TypeOK'
    BY <1>1, <1>2 DEF Went, GuiType, EpType, PlanType, LvlType, RestType, DiskType, NextType
  <1>4. Control'
    BY <1>1, <1>2 DEF Went, Control, Disk, Requests, Callers, Loads, Inside, Between, Video,
                      Multi, GuiType
  <1>5. Worlds'
    BY <1>1, <1>2 DEF Went, Worlds, Inside
  <1>6. Started' /\ Games'
    BY <1>1, <1>2 DEF Went, Started, Playing, Games, GameOK
  <1>7. Story'
    BY <1>1, <1>2 DEF Went, Story, Current, InGame, Due, Watched, Called, Video, IsCut, Opens,
                      Control, Requests
  <1> QED
    BY <1>3, <1>4, <1>5, <1>6, <1>7

\* The mode that was asked for is the mode there is.
LEMMA EnterKeeps == ASSUME Inv, Enter PROVE Inv'
  <1> USE TypesOk DEF Inv
  <1>1. GuiType' /\ gui'.cur = gui.next /\ gui'.next = gui.next /\ gui'.stop = FALSE
    BY DEF Enter, GuiType
  <1>2. RunType' /\ run'.at = "show" /\ run'.fresh = FALSE
        /\ (run'.again <=> gui.cur = ESCAPE /\ gui.next = GAMEPLAY)
    BY DEF Enter, RunType, At, Phases
  <1>3. UNCHANGED <<episode, net, ep, plan, lvl, disk, slipped>> /\ run.at = "enter"
    BY DEF Enter
  <1>4. TypeOK'
    BY <1>1, <1>2, <1>3 DEF EpType, PlanType, LvlType, RestType, DiskType, NextType
  <1>5. Control'
    BY <1>1, <1>2, <1>3 DEF Control, Disk, Requests, Callers, Loads, Inside, Between, Video,
                            Multi
  <1>6. Worlds'
    BY <1>1, <1>2, <1>3 DEF Worlds, Inside, Control, Requests
  <1>7. Started' /\ Games'
    BY <1>1, <1>2, <1>3 DEF Started, Playing, Games, GameOK
  <1>8. Story'
    BY <1>1, <1>2, <1>3 DEF Story, Current, InGame, Due, Watched, Called, Video, IsCut, Opens,
                            Control, Requests, Worlds, Inside
  <1> QED
    BY <1>4, <1>5, <1>6, <1>7, <1>8

\* A video that is left goes on to the next entry; from the others nothing is to do.
LEMMA LeaveOtherKeeps == ASSUME Inv, LeaveOther PROVE Inv'
  <1> USE TypesOk DEF Inv
  <1>1. UNCHANGED <<episode, net, gui, ep, plan, lvl, disk, slipped>>
        /\ run.at = "leave" /\ ~Inside
    BY DEF LeaveOther, Inside
  <1>2. /\ RunType' /\ run'.fresh = FALSE
        /\ IF Video THEN run'.at = "startNext" /\ run'.back = "enter" ELSE run'.at = "enter"
    <2>1. CASE Video
      BY <2>1, CallNextOk DEF LeaveOther, Phases, Video, Calls
    <2>2. CASE ~Video
      BY <2>2, GotoOk DEF LeaveOther, Phases, Video, Went
    <2> QED
      BY <2>1, <2>2
  <1>3. Started'
    BY <1>1, <1>2 DEF Started, Playing, Video
  <1>4. TypeOK'
    BY <1>1, <1>2, <1>3 DEF GuiType, EpType, PlanType, LvlType, RestType, DiskType, NextType,
                            Started
  <1>5. Control'
    BY <1>1, <1>2 DEF Control, Disk, Requests, Callers, Loads, Inside, Between, Video, Multi,
                      GuiType
  <1>6. Worlds'
    BY <1>1, <1>2 DEF Worlds, Inside
  <1>7. Games'
    BY <1>1 DEF Games, GameOK
  <1>8. Story'
    BY <1>1, <1>2 DEF Story, Current, InGame, Due, Watched, Called, Video, IsCut, Opens,
                      Control, Requests, Worlds, Inside
  <1> QED
    BY <1>3, <1>4, <1>5, <1>6, <1>7, <1>8

\* To the menu or back from it, or out of the level, which is closed.
LEMMA LeaveGameKeeps == ASSUME Inv, LeaveGame PROVE Inv'
  <1> USE TypesOk DEF Inv
  <1>1. UNCHANGED <<episode, ep, plan, disk, slipped>> /\ run.at = "leave" /\ Inside
    BY DEF LeaveGame, Inside
  <1>2. RunType' /\ Went("enter")
    BY GotoOk DEF LeaveGame, Phases
  <1>3. /\ GuiType' /\ gui'.cur = gui.cur /\ gui'.stop = TRUE /\ RestType' /\ LvlType'
        /\ \/ /\ gui'.next = gui.next /\ net' = net
              /\ gui.cur = ESCAPE /\ gui.next = GAMEPLAY /\ lvl' = lvl
           \/ /\ gui'.next = gui.next /\ net' = net
              /\ gui.cur = GAMEPLAY /\ gui.next = ESCAPE /\ lvl'.world = lvl.world
              /\ lvl'.init = lvl.init /\ lvl'.eight = lvl.eight /\ lvl'.ddraw = FALSE
              /\ lvl'.over = lvl.over
           \/ /\ gui'.next \in {gui.next, MAIN}
              /\ ~Multi => net' = net /\ gui'.next = gui.next
              /\ gui.next # ESCAPE /\ ~(gui.cur = ESCAPE /\ gui.next = GAMEPLAY)
              /\ lvl'.world = NONE /\ lvl'.init = FALSE /\ lvl'.ddraw = FALSE
              /\ lvl'.over = FALSE
    <2>1. gui.stop = TRUE
      BY <1>1 DEF Control, Requests, GuiType
    <2>2. CASE /\ gui.cur = ESCAPE /\ gui.next = GAMEPLAY
               /\ UNCHANGED <<net, gui, lvl>>
      BY <1>1, <2>1, <2>2 DEF GuiType, RestType, LvlType
    <2>3. CASE /\ gui.cur = GAMEPLAY /\ gui.next = ESCAPE
               /\ lvl' = [lvl EXCEPT !.ddraw = FALSE] /\ UNCHANGED <<net, gui>>
      <3>1. LvlType' /\ lvl'.world = lvl.world /\ lvl'.init = lvl.init
            /\ lvl'.eight = lvl.eight /\ lvl'.ddraw = FALSE /\ lvl'.over = lvl.over
        BY <1>1, <2>3 DEF LvlType
      <3> QED
        BY <1>1, <2>1, <2>3, <3>1 DEF GuiType, RestType
    <2>4. CASE /\ gui.next # ESCAPE /\ ~(gui.cur = ESCAPE /\ gui.next = GAMEPLAY)
               /\ IF Multi
                  THEN /\ lvl' = [Closed EXCEPT !.eight = FALSE]
                       /\ \/ /\ net' = IF gui.next = MAIN THEN Single ELSE net
                             /\ UNCHANGED gui
                          \/ net' = Single /\ Ask(MAIN)
                  ELSE lvl' = Closed /\ UNCHANGED <<net, gui>>
      <3>1. /\ Closed \in [world : DOMAIN episode \cup {NONE}, init : BOOLEAN, eight : BOOLEAN,
                           ddraw : BOOLEAN, five : BOOLEAN, ending : BOOLEAN, over : BOOLEAN]
            /\ Closed.world = NONE /\ Closed.init = FALSE /\ Closed.ddraw = FALSE
            /\ Closed.over = FALSE
        <4>1. CASE lvl.init
          BY <4>1 DEF Closed, NoLevel, LvlType
        <4>2. CASE ~lvl.init
          <5>1. lvl.init = FALSE /\ lvl.world = NONE /\ lvl.over = FALSE
            BY <4>2 DEF Worlds, LvlType
          <5> QED
            BY <4>2, <5>1 DEF Closed, LvlType
        <4> QED
          BY <4>1, <4>2
      <3>2. lvl' \in {Closed, [Closed EXCEPT !.eight = FALSE]}
        BY <2>4
      <3>3. LvlType' /\ lvl'.world = NONE /\ lvl'.init = FALSE /\ lvl'.ddraw = FALSE
            /\ lvl'.over = FALSE
        <4> DEFINE c == Closed
        <4> HIDE DEF c
        <4>1. /\ c \in [world : DOMAIN episode \cup {NONE}, init : BOOLEAN, eight : BOOLEAN,
                        ddraw : BOOLEAN, five : BOOLEAN, ending : BOOLEAN, over : BOOLEAN]
              /\ c.world = NONE /\ c.init = FALSE /\ c.ddraw = FALSE /\ c.over = FALSE
              /\ lvl' \in {c, [c EXCEPT !.eight = FALSE]}
          BY <3>1, <3>2 DEF c
        <4> QED
          BY <1>1, <4>1 DEF LvlType
      <3>4. GuiType' /\ gui'.cur = gui.cur /\ gui'.stop = TRUE /\ gui'.next \in {gui.next, MAIN}
        <4>1. CASE UNCHANGED gui
          BY <4>1, <2>1 DEF GuiType
        <4>2. CASE Ask(MAIN)
          BY <4>2, AskOk DEF Modes, Asked
        <4> QED
          BY <2>4, <4>1, <4>2
      <3>5. net' \in {net, Single} /\ (~Multi => net' = net /\ gui'.next = gui.next)
        BY <2>4, <3>4
      <3>6. net' \in [role : Roles \cup {"single"}, one : BOOLEAN]
        <4>1. CASE net' = net
          BY <4>1 DEF RestType
        <4>2. CASE net' = Single
          BY <4>2 DEF Single
        <4> QED
          BY <3>5, <4>1, <4>2
      <3>7. RestType'
        BY <1>1, <3>6 DEF RestType
      <3> QED
        BY <2>4, <3>3, <3>4, <3>5, <3>7
    <2> QED
      BY <2>2, <2>3, <2>4 DEF LeaveGame
  <1>4. TypeOK'
    BY <1>1, <1>2, <1>3 DEF Went, EpType, PlanType, DiskType, NextType
  <1>5. Control'
    BY <1>1, <1>2, <1>3 DEF Went, Control, Disk, Requests, Callers, Loads, Inside, Between,
                            Video, Multi
  <1>6. Worlds'
    BY <1>1, <1>2, <1>3 DEF Went, Worlds, Inside
  <1>7. Started' /\ Games'
    BY <1>1, <1>2, <1>3 DEF Went, Started, Playing, Games, GameOK
  <1>8. Story'
    BY <1>1, <1>2, <1>3 DEF Went, Story, Current, InGame, Due, Watched, Called, Video, IsCut,
                            Opens, Control, Requests, Worlds, Inside, Loads
  <1> QED
    BY <1>4, <1>5, <1>6, <1>7, <1>8

\* The titles are followed by the main menu, UNK by the saved game.
LEMMA TickOnceKeeps == ASSUME Inv, TickOnce PROVE Inv'
  <1> USE TypesOk DEF Inv
  <1>1. RunType' /\ Went("advance")
    BY GotoOk DEF TickOnce, Phases
  <1>2. UNCHANGED <<episode, net, lvl, disk, slipped>> /\ run.at = "tick" /\ ~gui.stop
    BY DEF TickOnce
  <1>3. /\ GuiType' /\ EpType' /\ PlanType' /\ plan'.game = plan.game
        /\ gui'.cur = gui.cur /\ gui'.stop = TRUE
        /\ \/ gui.cur = TITLE /\ gui'.next = MAIN /\ ep' = ep
           \/ /\ gui.cur = UNK /\ gui'.next = GAMEPLAY
              /\ ep'.loading = ep.loading /\ ep'.ent2 = NONE /\ plan'.gameMode = 1
    <2>1. CASE gui.cur = TITLE /\ Ask(MAIN) /\ UNCHANGED <<ep, plan>>
      BY <1>2, <2>1, AskOk DEF Modes, EpType, PlanType, Asked
    <2>2. CASE /\ gui.cur = UNK /\ plan' = [plan EXCEPT !.gameMode = 1] /\ Ask(GAMEPLAY)
               /\ ep' = [ep EXCEPT !.idx = 1, !.ent = NONE, !.ent2 = NONE, !.shown = FALSE]
      <3>1. GuiType' /\ Asked(GAMEPLAY)
        BY <2>2, AskOk DEF Modes
      <3>2. PlanType' /\ plan'.gameMode = 1 /\ plan'.game = plan.game
        BY <1>2, <2>2 DEF PlanType
      <3>3. EpType' /\ ep'.loading = ep.loading /\ ep'.ent2 = NONE
        BY <1>2, <2>2, EntriesOk DEF EpType, RestType
      <3> QED
        BY <2>2, <3>1, <3>2, <3>3 DEF Asked
    <2> QED
      BY <2>1, <2>2 DEF TickOnce
  <1>4. TypeOK'
    BY <1>1, <1>2, <1>3 DEF Went, LvlType, RestType, DiskType, NextType
  <1>5. Control'
    BY <1>1, <1>2, <1>3 DEF Went, Control, Disk, Requests, Callers, Loads, Inside, Between,
                            Video
  <1>6. Worlds'
    BY <1>1, <1>2, <1>3 DEF Went, Worlds, Inside
  <1>7. Started'
    BY <1>1, <1>2, <1>3 DEF Went, Started, Playing, Control, Requests, Loads
  <1>8. Games'
    BY <1>2, <1>3 DEF Games, GameOK
  <1>9. Story'
    BY <1>1, <1>2, <1>3 DEF Went, Story, Current, InGame, Due, Watched, Called, Video, Worlds,
                            Inside, Control, Requests
  <1> QED
    BY <1>4, <1>5, <1>6, <1>7, <1>8, <1>9

LEMMA TickGameplayKeeps == ASSUME Inv, TickGameplay PROVE Inv'
  <1> USE TypesOk DEF Inv
  <1>1. RunType' /\ Went(run'.at) /\ run'.at = (IF lvl.eight THEN "frame" ELSE "advance")
    BY GotoOk DEF TickGameplay, Phases, Went
  <1>2. UNCHANGED <<episode, net, gui, ep, plan, lvl, disk, slipped>>
        /\ run.at = "tick" /\ ~gui.stop /\ gui.cur = GAMEPLAY
    BY DEF TickGameplay
  <1>3. TypeOK'
    BY <1>1, <1>2 DEF Went, GuiType, EpType, PlanType, LvlType, RestType, DiskType, NextType
  <1>4. Control'
    BY <1>1, <1>2 DEF Went, Control, Disk, Requests, Callers, Loads, Inside, Between, Video,
                      Multi, GuiType
  <1>5. Worlds'
    BY <1>1, <1>2 DEF Went, Worlds, Inside
  <1>6. Started' /\ Games'
    BY <1>1, <1>2 DEF Went, Started, Playing, Games, GameOK
  <1>7. Story'
    BY <1>1, <1>2 DEF Went, Story, Current, InGame, Due, Watched, Called, Video, IsCut, Opens,
                      Control, Requests
  <1> QED
    BY <1>3, <1>4, <1>5, <1>6, <1>7

LEMMA TickIdleKeeps == ASSUME Inv, TickIdle PROVE Inv'
  <1> USE TypesOk DEF Inv
  <1>1. RunType' /\ Went("advance")
    BY GotoOk DEF TickIdle, Phases
  <1>2. UNCHANGED <<episode, net, gui, ep, plan, lvl, disk, slipped>> /\ run.at = "tick"
    BY DEF TickIdle
  <1>3. TypeOK'
    BY <1>1, <1>2 DEF Went, GuiType, EpType, PlanType, LvlType, RestType, DiskType, NextType
  <1>4. Control'
    BY <1>1, <1>2 DEF Went, Control, Disk, Requests, Callers, Loads, Inside, Between, Video,
                      Multi, GuiType
  <1>5. Worlds'
    BY <1>1, <1>2 DEF Went, Worlds, Inside
  <1>6. Started' /\ Games'
    BY <1>1, <1>2 DEF Went, Started, Playing, Games, GameOK
  <1>7. Story'
    BY <1>1, <1>2 DEF Went, Story, Current, InGame, Due, Watched, Called, Video, IsCut, Opens,
                      Control, Requests
  <1> QED
    BY <1>3, <1>4, <1>5, <1>6, <1>7

\* The end of a video or of the credits.
LEMMA PlayedOutKeeps == ASSUME Inv, PlayedOut PROVE Inv'
  <1> USE TypesOk DEF Inv
  <1>1. RunType' /\ Went("advance")
    BY GotoOk DEF PlayedOut, Phases
  <1>2. GuiType' /\ Asked(gui'.next)
    BY AskOk DEF PlayedOut, Modes, Asked
  <1>3. \/ gui.cur = VIDEO2 /\ gui'.next = CUTSCENE
        \/ gui.cur = VIDEO3 /\ gui'.next = ENDLEVEL
        \/ gui.cur = VIDEO4 /\ gui'.next = GAMEPLAY
        \/ gui.cur = CREDITS /\ gui'.next = MAIN
    BY AskOk DEF PlayedOut, Modes, Asked
  <1>4. TypeOK'
    BY <1>1, <1>2 DEF PlayedOut, Went, EpType, PlanType, LvlType, RestType, DiskType, NextType
  <1>5. Control'
    BY <1>1, <1>2, <1>3 DEF Asked, Went, PlayedOut, Control, Disk, Requests, Callers, Loads,
                            Inside, Between, Video, Multi
  <1>6. Worlds'
    BY <1>1, <1>2, <1>3 DEF Asked, Went, PlayedOut, Worlds, Inside
  <1>7. Started'
    BY <1>1, <1>2, <1>3 DEF Asked, Went, PlayedOut, Started, Playing
  <1>8. Games'
    BY DEF PlayedOut, Games, GameOK
  <1>9. Story'
    BY <1>1, <1>2, <1>3 DEF Asked, Went, PlayedOut, Story, Current, InGame, Due, Watched, Called,
                            Video, IsCut, Opens, Control, Requests, Worlds, Inside, Loads
  <1> QED
    BY <1>4, <1>5, <1>6, <1>7, <1>8, <1>9

\* A menu is opened, a video begins or fails.
LEMMA ShowOtherKeeps == ASSUME Inv, ShowOther PROVE Inv'
  <1> USE TypesOk DEF Inv
  <1>1. RunType' /\ Went(run'.at)
        /\ run'.at = (IF gui.cur \in {MAIN, ESCAPE, CUTSCENE} THEN "menu" ELSE "tick")
    BY GotoOk DEF ShowOther, Phases, Went
  <1>2. EpType' /\ SameEntries
    BY DEF ShowOther, EpType, SameEntries
  <1>3. ep'.shown <=> ep.shown \/ (Video /\ plan.file = ep.idx)
    BY DEF ShowOther, EpType, Video
  <1>4. GuiType' /\ (gui' = gui \/ (gui.cur = CREDITS /\ Asked(MAIN)))
    <2>1. CASE UNCHANGED gui
      BY <2>1 DEF GuiType
    <2>2. CASE gui.cur = CREDITS /\ Ask(MAIN)
      BY <2>2, AskOk DEF Modes
    <2> QED
      BY <2>1, <2>2 DEF ShowOther
  <1>5. UNCHANGED <<episode, net, plan, lvl, disk, slipped>>
        /\ run.at = "show" /\ gui.cur \notin {GAMEPLAY, CD_SWITCH, ENDLEVEL, CHOICE}
    BY DEF ShowOther
  <1>6. TypeOK'
    BY <1>1, <1>2, <1>4, <1>5 DEF PlanType, LvlType, RestType, DiskType, NextType, Went
  <1>7. Control'
    BY <1>1, <1>2, <1>4, <1>5 DEF Asked, Went, SameEntries, Control, Disk, Requests, Callers,
                                  Loads, Inside, Between, Video, Multi
  <1>8. Worlds'
    BY <1>1, <1>4, <1>5 DEF Asked, Went, Worlds, Inside, Control, Requests
  <1>9. Started'
    BY <1>1, <1>2, <1>4, <1>5 DEF Asked, Went, SameEntries, Started, Playing
  <1>10. Games'
    BY <1>5 DEF Games, GameOK
  <1>11. Story'
    BY <1>1, <1>2, <1>3, <1>4, <1>5 DEF Asked, Went, SameEntries, Story, Current, InGame, Due,
       Watched, Called, Video, IsCut, Opens, Control, Requests, Worlds, Inside, Loads
  <1> QED
    BY <1>6, <1>7, <1>8, <1>9, <1>10, <1>11

\* The disc is there: the next entry at once.
LEMMA ShowCdSwitchKeeps == ASSUME Inv, ShowCdSwitch PROVE Inv'
  <1> USE TypesOk DEF Inv
  <1>1. RunType' /\ Calls(FALSE, "tick")
    BY CallNextOk DEF ShowCdSwitch, Phases
  <1>2. UNCHANGED <<episode, net, gui, ep, plan, lvl, disk, slipped>>
        /\ run.at = "show" /\ gui.cur = CD_SWITCH
    BY DEF ShowCdSwitch, ShowIs
  <1>3. Control'
    BY <1>1, <1>2 DEF Calls, Control, Disk, Requests, Callers, Loads, Inside, Between, Video,
                      Multi, GuiType
  <1>4. Worlds'
    BY <1>1, <1>2 DEF Calls, Worlds, Inside
  <1>5. Started'
    BY <1>1, <1>2 DEF Calls, Started, Playing
  <1>6. TypeOK'
    BY <1>1, <1>2, <1>5 DEF Calls, GuiType, EpType, PlanType, LvlType, RestType, DiskType,
                            NextType, Started
  <1>7. Games'
    BY <1>2 DEF Games, GameOK
  <1>8. Story'
    BY <1>1, <1>2 DEF Calls, Story, Current, InGame, Due, Watched, Called, Video, IsCut, Opens,
                      Control, Requests, Worlds, Inside, Loads
  <1> QED
    BY <1>3, <1>4, <1>5, <1>6, <1>7, <1>8

\* The tally is shown or aborted.
LEMMA ShowEndLevelKeeps == ASSUME Inv, ShowEndLevel PROVE Inv'
  <1> USE TypesOk DEF Inv
  <1>1. RunType' /\ GuiType' /\ \/ Calls(FALSE, "tick") /\ gui' = gui
                                \/ Went("tick") /\ Asked(MAIN)
    <2>1. CASE CallNext(FALSE, TRUE, "tick") /\ UNCHANGED gui
      BY <2>1, CallNextOk DEF GuiType, Phases
    <2>2. CASE Ask(MAIN) /\ Goto("tick")
      <3>1. RunType' /\ Went("tick")
        BY <2>2, GotoOk DEF Phases
      <3>2. GuiType' /\ Asked(MAIN)
        BY <2>2, AskOk DEF Modes
      <3> QED
        BY <3>1, <3>2 DEF Asked, Went
    <2> QED
      BY <2>1, <2>2 DEF ShowEndLevel
  <1>2. UNCHANGED <<episode, net, ep, plan, lvl, disk, slipped>>
        /\ run.at = "show" /\ gui.cur = ENDLEVEL
    BY DEF ShowEndLevel, ShowIs
  <1>3. Control'
    BY <1>1, <1>2 DEF Asked, Went, Calls, Control, Disk, Requests, Callers, Loads, Inside,
                      Between, Video, Multi
  <1>4. Worlds'
    BY <1>1, <1>2 DEF Asked, Went, Calls, Worlds, Inside
  <1>5. Started'
    BY <1>1, <1>2 DEF Asked, Went, Calls, Started, Playing
  <1>6. TypeOK'
    BY <1>1, <1>2, <1>5 DEF Went, Calls, EpType, PlanType, LvlType, RestType, DiskType,
                            NextType, Started
  <1>7. Games'
    BY <1>2 DEF Games, GameOK
  <1>8. Story'
    BY <1>1, <1>2 DEF Asked, Went, Calls, Story, Current, InGame, Due, Watched, Called, Video,
                      IsCut, Opens, Control, Requests, Worlds, Inside, Loads
  <1> QED
    BY <1>3, <1>4, <1>5, <1>6, <1>7, <1>8

\* A way is chosen, or the choice is aborted.
LEMMA ShowChoiceKeeps == ASSUME Inv, ShowChoice PROVE Inv'
  <1> USE TypesOk DEF Inv
  <1>1. RunType' /\ GuiType' /\ \/ Calls(FALSE, "tick") /\ gui' = gui
                                \/ Went("tick") /\ Asked(MAIN)
    <2>1. CASE (\E light \in BOOLEAN : CallNext(FALSE, light, "tick")) /\ UNCHANGED gui
      BY <2>1, CallNextOk DEF GuiType, Phases
    <2>2. CASE Ask(MAIN) /\ Goto("tick")
      <3>1. RunType' /\ Went("tick")
        BY <2>2, GotoOk DEF Phases
      <3>2. GuiType' /\ Asked(MAIN)
        BY <2>2, AskOk DEF Modes
      <3> QED
        BY <3>1, <3>2 DEF Asked, Went
    <2> QED
      BY <2>1, <2>2 DEF ShowChoice
  <1>2. EpType' /\ SameEntries /\ ep'.shown = TRUE
    BY DEF ShowChoice, EpType, SameEntries
  <1>3. UNCHANGED <<episode, net, plan, lvl, disk, slipped>>
        /\ run.at = "show" /\ gui.cur = CHOICE
    BY DEF ShowChoice, ShowIs
  <1>4. Control'
    BY <1>1, <1>2, <1>3 DEF Asked, Went, Calls, SameEntries, Control, Disk, Requests, Callers,
                            Loads, Inside, Between, Video, Multi
  <1>5. Worlds'
    BY <1>1, <1>3 DEF Asked, Went, Calls, Worlds, Inside
  <1>6. Started'
    BY <1>1, <1>2, <1>3 DEF Asked, Went, Calls, SameEntries, Started, Playing
  <1>7. TypeOK'
    BY <1>1, <1>2, <1>3, <1>6 DEF Went, Calls, PlanType, LvlType, RestType, DiskType, NextType,
                                  Started
  <1>8. Games'
    BY <1>3 DEF Games, GameOK
  <1>9. Story'
    BY <1>1, <1>2, <1>3 DEF Asked, Went, Calls, SameEntries, Story, Current, InGame, Due, Watched,
       Called, Video, IsCut, Opens, Control, Requests, Worlds, Inside, Loads
  <1> QED
    BY <1>4, <1>5, <1>6, <1>7, <1>8, <1>9

\* Back from the escape menu: the display is opened.
LEMMA ShowGameAgainKeeps == ASSUME Inv, ShowGameAgain PROVE Inv'
  <1> USE TypesOk DEF Inv
  <1>1. RunType' /\ Went("tick")
    BY GotoOk DEF ShowGameAgain, Phases
  <1>2. LvlType' /\ lvl'.world = lvl.world /\ lvl'.init = lvl.init /\ lvl'.over = lvl.over
        /\ lvl'.ddraw = TRUE /\ lvl'.eight = TRUE
    BY DEF ShowGameAgain, LvlType
  <1>3. UNCHANGED <<episode, net, gui, ep, plan, disk, slipped>>
        /\ run.at = "show" /\ run.again /\ gui.cur = GAMEPLAY
    BY DEF ShowGameAgain, ShowIs
  <1>4. TypeOK'
    BY <1>1, <1>2, <1>3 DEF Went, GuiType, EpType, PlanType, RestType, DiskType, NextType
  <1>5. Control'
    BY <1>1, <1>3 DEF Went, Control, Disk, Requests, Callers, Loads, Inside, Between, Video,
                      Multi, GuiType
  <1>6. Worlds'
    BY <1>1, <1>2, <1>3 DEF Went, Worlds, Inside
  <1>7. Started'
    BY <1>1, <1>3 DEF Went, Started, Playing
  <1>8. Games'
    BY <1>3 DEF Games, GameOK
  <1>9. Story'
    BY <1>1, <1>2, <1>3 DEF Went, Story, Current, InGame, Due, Watched, Called, Video, IsCut,
                            Opens, Control, Requests, Worlds, Inside, Loads
  <1> QED
    BY <1>4, <1>5, <1>6, <1>7, <1>8, <1>9

\* What it means for the level of entry i to be open.
Opened(i) ==
    /\ lvl'.world = i /\ lvl'.init = TRUE /\ lvl'.eight = TRUE /\ lvl'.ddraw = TRUE
    /\ lvl'.over = FALSE

LEMMA OpenLevelOk ==
    ASSUME LvlType, NEW i \in DOMAIN episode, episode' = episode, lvl' = OpenLevel(i)
    PROVE  LvlType' /\ Opened(i)
  BY DEF LvlType, OpenLevel, Opened

\* A request notes what the next flush of a saved game is to do.
LEMMA RequestOk ==
    ASSUME Disk, NEW op \in {"none", "save", "load"}, NEW s \in SavedGame \cup {NONE},
           Request(op, s)
    PROVE  Disk' /\ disk'.saves = disk.saves /\ disk'.op = op /\ disk'.game = s
  BY DEF Disk, Request

\* The level of the entry that is due is opened.
LEMMA LevelOpens ==
    ASSUME Inv, ShowLevel, plan.gameMode # 1, Opens(plan.file), lvl' = OpenLevel(plan.file),
           ep' = [ep EXCEPT !.shown = @ \/ plan.file = ep.idx],
           IF Multi THEN UNCHANGED disk ELSE Request("save", NONE), UNCHANGED <<net, gui>>
    PROVE  Inv'
  <1> USE TypesOk DEF Inv
  <1>1. RunType' /\ Went("tick")
    BY GotoOk DEF ShowLevel, Phases
  <1>2. /\ UNCHANGED <<episode, plan, slipped, net, gui>>
        /\ run.at = "show" /\ gui.cur = GAMEPLAY /\ ~run.again
    BY DEF ShowLevel, ShowIs
  <1>3. plan.file \in DOMAIN episode /\ episode[plan.file].type = "level"
    BY DEF Opens
  <1>4. LvlType' /\ Opened(plan.file)
    BY <1>2, <1>3, OpenLevelOk
  <1>5. EpType' /\ SameEntries /\ (ep'.shown <=> ep.shown \/ plan.file = ep.idx)
    BY <1>2 DEF EpType, SameEntries
  <1>6. Disk' /\ disk'.saves = disk.saves /\ (disk' = disk \/ disk'.op = "save")
    BY RequestOk DEF Control, Disk
  <1>7. DiskType'
    BY <1>6 DEF DiskType, Disk
  <1>8. TypeOK'
    BY <1>1, <1>2, <1>4, <1>5, <1>7 DEF Went, GuiType, PlanType, RestType, NextType
  <1>9. Control'
    BY <1>1, <1>2, <1>5, <1>6 DEF Went, Control, Requests, Callers, Loads, Inside, Between,
                                  Video, Multi, GuiType, SameEntries
  <1>10. Worlds'
    BY <1>1, <1>2, <1>3, <1>4, EntriesOk DEF Went, Opened, Worlds, Inside, Control, Requests,
                                             RestType
  <1>11. Started'
    BY <1>1, <1>2, <1>5 DEF Went, Started, Playing, SameEntries
  <1>12. Games'
    BY <1>2, <1>6 DEF Games, GameOK
  <1>13. Story'
    BY <1>1, <1>2, <1>3, <1>4, <1>5 DEF Went, SameEntries, Opened, Story, Current, InGame, Due,
       Watched, Called, Video, IsCut, Started, Playing, Control, Requests, Worlds, Inside, Loads
  <1> QED
    BY <1>8, <1>9, <1>10, <1>11, <1>12, <1>13

\* It cannot be opened: to the main menu.
LEMMA LevelFails ==
    ASSUME Inv, ShowLevel, Ask(MAIN), UNCHANGED <<ep, disk>>,
           net' \in {net, Single},
           lvl' = [NoLevel EXCEPT !.ending = lvl.ending, !.eight = lvl.eight]
    PROVE  Inv'
  <1> USE TypesOk DEF Inv
  <1>1. RunType' /\ Went("tick")
    BY GotoOk DEF ShowLevel, Phases
  <1>2. /\ UNCHANGED <<episode, plan, slipped, ep, disk>>
        /\ run.at = "show" /\ gui.cur = GAMEPLAY /\ ~run.again
    BY DEF ShowLevel, ShowIs
  <1>3. GuiType' /\ Asked(MAIN)
    BY AskOk DEF Modes
  <1>4. LvlType' /\ lvl'.world = NONE /\ lvl'.init = FALSE /\ lvl'.ddraw = FALSE
        /\ lvl'.over = FALSE
    BY <1>2 DEF LvlType, NoLevel
  <1>5. RestType'
    <2>1. net' \in [role : Roles \cup {"single"}, one : BOOLEAN]
      <3>1. CASE net' = net
        BY <3>1 DEF RestType
      <3>2. CASE net' = Single
        BY <3>2 DEF Single
      <3> QED
        BY <3>1, <3>2
    <2> QED
      BY <1>2, <2>1 DEF RestType
  <1>6. TypeOK'
    BY <1>1, <1>2, <1>3, <1>4, <1>5 DEF Went, EpType, PlanType, DiskType, NextType
  <1>7. Control'
    BY <1>1, <1>2, <1>3 DEF Went, Asked, Control, Disk, Requests, Callers, Loads, Inside,
                            Between, Video
  <1>8. Worlds'
    BY <1>1, <1>2, <1>3, <1>4 DEF Went, Asked, Worlds, Inside
  <1>9. Started'
    BY <1>1, <1>2, <1>3 DEF Went, Asked, Started, Playing
  <1>10. Games'
    BY <1>2 DEF Games, GameOK
  <1>11. Story'
    BY <1>1, <1>2, <1>3, <1>4 DEF Went, Asked, Story, Current, InGame, Due, Watched, Called,
                                  Video, IsCut, Loads, Control, Requests
  <1> QED
    BY <1>6, <1>7, <1>8, <1>9, <1>10, <1>11

LEMMA ShowLevelKeeps == ASSUME Inv, ShowLevel PROVE Inv'
  <1>1. CASE /\ plan.gameMode # 1 /\ Opens(plan.file) /\ lvl' = OpenLevel(plan.file)
             /\ ep' = [ep EXCEPT !.shown = @ \/ plan.file = ep.idx]
             /\ IF Multi THEN UNCHANGED disk ELSE Request("save", NONE)
             /\ UNCHANGED <<net, gui>>
    BY <1>1, LevelOpens
  <1>2. CASE /\ Ask(MAIN) /\ UNCHANGED <<ep, disk>> /\ net' \in {net, Single}
             /\ lvl' = [NoLevel EXCEPT !.ending = lvl.ending, !.eight = lvl.eight]
    BY <1>2, LevelFails
  <1> QED
    BY <1>1, <1>2 DEF ShowLevel

\* A saved game goes on from its entry, where it was in time at its level.
LEMMA RestoredOk ==
    ASSUME EpType, episode' = episode, NEW s, GameOK(s), ep' = Restored(s)
    PROVE  /\ EpType' /\ ep'.loading = ep.loading /\ ep'.ent = ep'.idx /\ ep'.ent2 = ep'.idx
           /\ ep'.shown <=> s.file = ep'.idx
           /\ ~s.late => ep'.idx = s.file
  <1> DEFINE i == IF s.idx = 1 THEN s.file ELSE s.idx
  <1>1. i \in DOMAIN episode /\ (~s.late => i = s.file)
    BY DEF GameOK
  <1>2. ep' = [ep EXCEPT !.idx = i, !.ent = i, !.ent2 = i, !.shown = (s.file = i)]
    BY DEF Restored
  <1> HIDE DEF i
  <1> QED
    BY <1>1, <1>2 DEF EpType

LEMMA ShowSavedGameKeeps == ASSUME Inv, ShowSavedGame PROVE Inv'
  <1> USE TypesOk DEF Inv
  <1> DEFINE s == plan.game
  <1>1. RunType' /\ Went("tick")
    BY GotoOk DEF ShowSavedGame, Phases
  <1>2. /\ UNCHANGED <<episode, net, gui, disk>>
        /\ run.at = "show" /\ gui.cur = GAMEPLAY /\ ~run.again
    BY DEF ShowSavedGame, ShowIs
  <1>3. GameOK(s) /\ s.late \in BOOLEAN /\ s.file \in DOMAIN episode
        /\ episode[s.file].type = "level"
    BY DEF ShowSavedGame, Games, GameOK, PlanType, SavedGame
  <1>4. LvlType' /\ Opened(s.file)
    BY <1>2, <1>3, OpenLevelOk DEF ShowSavedGame
  <1>5. /\ EpType' /\ ep'.loading = ep.loading /\ ep'.ent = ep'.idx /\ ep'.ent2 = ep'.idx
        /\ ep'.shown <=> s.file = ep'.idx
        /\ ~s.late => ep'.idx = s.file
    BY <1>2, <1>3, RestoredOk DEF ShowSavedGame
  <1>6. PlanType' /\ plan'.game = NONE
    BY <1>2 DEF ShowSavedGame, PlanType
  <1>7. slipped' \in BOOLEAN /\ (~slipped' => ~slipped /\ ~s.late)
    BY DEF ShowSavedGame, LoadSlip, Slip
  <1>8. TypeOK'
    BY <1>1, <1>2, <1>4, <1>5, <1>6, <1>7 DEF Went, GuiType, RestType, DiskType, NextType
  <1>9. Control'
    BY <1>1, <1>2, <1>5 DEF Went, Control, Disk, Requests, Callers, Loads, Inside, Between,
                            Video, Multi, GuiType
  <1>10. ep'.ent # NONE
    BY <1>2, <1>5, EntriesOk DEF EpType, RestType
  <1>11. Worlds'
    BY <1>1, <1>2, <1>3, <1>4, EntriesOk DEF Went, Opened, Worlds, Inside, Control, Requests,
                                             RestType
  <1>12. Started'
    BY <1>10 DEF Started
  <1>13. Games'
    BY <1>2, <1>6 DEF Games, GameOK
  <1>14. Story'
    BY <1>1, <1>2, <1>3, <1>4, <1>5, <1>7, <1>10 DEF Went, Opened, Story, Current, InGame, Due,
       Watched, Called, Video, IsCut, Control, Requests
  <1> QED
    BY <1>8, <1>9, <1>11, <1>12, <1>13, <1>14

-------------------------------------------------------------------------------
(* The menus *)

\* An episode from its start.
LEMMA PlayEpisodeKeeps == ASSUME Inv, PlayEpisode PROVE Inv'
  <1> USE TypesOk DEF Inv
  <1>1. RunType' /\ Calls(TRUE, "tick")
    BY CallNextOk DEF PlayEpisode, Phases
  <1>2. /\ UNCHANGED <<episode, net, gui, plan, lvl, disk>> /\ slipped' = FALSE
        /\ run.at = "menu" /\ gui.cur = MAIN
    BY DEF PlayEpisode, InMenu, NewGame
  <1>3. EpType' /\ ep'.loading = ep.loading /\ ep'.ent2 = NONE
    BY <1>2, EntriesOk DEF PlayEpisode, EpType, RestType
  <1>4. TypeOK'
    <2>1. RestType' /\ DiskType'
      BY <1>2 DEF RestType, DiskType
    <2> QED
      BY <1>1, <1>2, <1>3, <2>1 DEF Calls, GuiType, PlanType, LvlType, NextType
  <1>5. Control'
    BY <1>1, <1>2, <1>3 DEF Calls, Control, Disk, Requests, Callers, Loads, Inside, Between,
                            Video, Multi, GuiType
  <1>6. Worlds'
    BY <1>1, <1>2 DEF Calls, Worlds, Inside
  <1>7. Started'
    BY <1>1, <1>2 DEF Calls, Started, Playing, Control, Requests
  <1>8. Games'
    BY <1>2 DEF Games, GameOK
  <1>9. Story'
    BY <1>1, <1>2, <1>3 DEF Calls, Story, Current, InGame, Due, Watched, Called, Video, Worlds,
                            Inside
  <1> QED
    BY <1>4, <1>5, <1>6, <1>7, <1>8, <1>9

\* A level by its name, or a session that is hosted or joined.
LEMMA LevelChosen ==
    ASSUME Inv, InMenu(MAIN), Ask(GAMEPLAY), Goto("tick"), NewGame,
           NEW i \in DOMAIN episode, episode[i].type = "level",
           EpType', PlanType', RestType',
           ep'.idx = i, ep'.loading \/ (ep'.ent = i /\ ep'.ent2 = i), ep'.ent2 \in {i, NONE},
           plan'.file = i, plan'.game = plan.game, UNCHANGED <<episode, lvl, disk>>
    PROVE  Inv'
  <1> USE TypesOk DEF Inv
  <1>1. RunType' /\ Went("tick")
    BY GotoOk DEF Phases
  <1>2. GuiType' /\ Asked(GAMEPLAY)
    BY AskOk DEF Modes
  <1>3. run.at = "menu" /\ gui.cur = MAIN /\ slipped' = FALSE
    BY DEF InMenu, NewGame
  <1>4. TypeOK'
    BY <1>1, <1>2 DEF Went, LvlType, DiskType, NextType
  <1>5. Control'
    BY <1>1, <1>2, <1>3 DEF Went, Asked, Control, Disk, Requests, Callers, Loads, Inside,
                            Between, Video
  <1>6. Worlds'
    BY <1>1, <1>2, <1>3 DEF Went, Asked, Worlds, Inside
  <1>7. i # NONE
    BY EntriesOk DEF RestType
  <1>8. Started'
    BY <1>7 DEF Started
  <1>9. Games'
    BY DEF Games, GameOK
  <1>10. Story'
    BY <1>1, <1>2, <1>3, <1>7 DEF Went, Asked, Story, Current, InGame, Due, Watched, Called,
                                  Video, Worlds, Inside
  <1> QED
    BY <1>4, <1>5, <1>6, <1>8, <1>9, <1>10

LEMMA PlayLevelKeeps == ASSUME Inv, PlayLevel PROVE Inv'
  <1> USE TypesOk DEF Inv
  <1>1. PICK i \in DOMAIN episode :
           /\ episode[i].type = "level"
           /\ ep' = [ep EXCEPT !.idx = i, !.ent = i, !.ent2 = i, !.shown = FALSE]
           /\ plan' = [plan EXCEPT !.gameMode = 0, !.file = i]
    BY Zenon DEF PlayLevel
  <1>2. /\ UNCHANGED <<episode, net, lvl, disk>> /\ slipped' = FALSE
        /\ InMenu(MAIN) /\ Ask(GAMEPLAY) /\ Goto("tick") /\ NewGame
    BY DEF PlayLevel, NewGame
  <1>3. EpType' /\ ep'.idx = i /\ ep'.ent = i /\ ep'.ent2 = i
    BY <1>1, <1>2 DEF EpType
  <1>4. PlanType' /\ plan'.file = i /\ plan'.game = plan.game
    BY <1>1, <1>2, EntriesOk DEF PlanType, RestType
  <1>5. RestType'
    BY <1>2 DEF RestType
  <1> QED
    BY <1>1, <1>2, <1>3, <1>4, <1>5, LevelChosen

LEMMA PlayMultiKeeps == ASSUME Inv, PlayMulti PROVE Inv'
  <1> USE TypesOk DEF Inv
  <1>1. PICK i \in DOMAIN episode, one \in BOOLEAN, role \in Roles \ {"single"} :
           /\ episode[i].type = "level"
           /\ net' = [role |-> role, one |-> one]
           /\ ep' = [idx |-> i, ent |-> NONE, ent2 |-> NONE, loading |-> TRUE, shown |-> FALSE]
           /\ plan' = [plan EXCEPT !.gameMode = 2, !.file = i]
    BY Zenon DEF PlayMulti
  <1>2. /\ UNCHANGED <<episode, lvl, disk>> /\ slipped' = FALSE
        /\ InMenu(MAIN) /\ Ask(GAMEPLAY) /\ Goto("tick") /\ NewGame
    BY DEF PlayMulti, NewGame
  <1>3. EpType' /\ ep'.idx = i /\ ep'.loading = TRUE /\ ep'.ent2 = NONE
    BY <1>1, <1>2 DEF EpType
  <1>4. PlanType' /\ plan'.file = i /\ plan'.game = plan.game
    BY <1>1, <1>2, EntriesOk DEF PlanType, RestType
  <1>5. RestType'
    BY <1>1, <1>2 DEF RestType
  <1> QED
    BY <1>1, <1>2, <1>3, <1>4, <1>5, LevelChosen

\* A saved game of another level is asked for.
LEMMA LoadOtherKeeps == ASSUME Inv, LoadOther PROVE Inv'
  <1> USE TypesOk DEF Inv
  <1>1. PICK s \in disk.saves : s.file # lvl.world /\ plan' = [plan EXCEPT !.game = s]
    BY DEF LoadOther
  <1>2. /\ UNCHANGED <<episode, net, lvl, disk>> /\ slipped' = FALSE /\ run.at = "menu"
        /\ gui.cur = MAIN \/ (gui.cur = ESCAPE /\ ~Multi)
    BY DEF LoadOther, InMenu, NewGame
  <1>3. RunType' /\ Went("tick")
    BY GotoOk DEF LoadOther, Phases
  <1>4. GuiType' /\ Asked(UNK)
    BY AskOk DEF LoadOther, Modes
  <1>5. EpType' /\ ep'.idx = ep.idx /\ ep'.loading = TRUE
    BY <1>2 DEF LoadOther, EpType
  <1>6. PlanType' /\ plan'.game = s
    BY <1>1, <1>2 DEF PlanType, DiskType
  <1>7. TypeOK'
    BY <1>2, <1>3, <1>4, <1>5, <1>6 DEF Went, LvlType, RestType, DiskType, NextType
  <1>8. Control'
    BY <1>2, <1>3, <1>4, <1>5 DEF Went, Asked, Control, Disk, Requests, Callers, Loads, Inside,
                                  Between, Video, Multi
  <1>9. Worlds'
    BY <1>2, <1>3, <1>4 DEF Went, Asked, Worlds, Inside
  <1>10. Started'
    BY <1>5 DEF Started
  <1>11. Games'
    BY <1>1, <1>2, <1>6 DEF Games, GameOK
  <1>12. Story'
    BY <1>2, <1>3, <1>4 DEF Went, Asked, Story, Current, InGame, Due, Watched, Called, Video
  <1> QED
    BY <1>7, <1>8, <1>9, <1>10, <1>11, <1>12

\* A mode without a game: the credits, a cutscene by its name, or the main menu.
LEMMA OtherMenusKeeps == ASSUME Inv, OtherMenus PROVE Inv'
  <1> USE TypesOk DEF Inv
  <1>1. PICK m \in {CUTSCENE, CREDITS, VIDEO2, MAIN} : Ask(m)
    BY DEF OtherMenus
  <1>2. /\ UNCHANGED <<episode, net, ep, plan, lvl, disk, slipped>>
        /\ run.at = "menu" /\ gui.cur \in {MAIN, CUTSCENE, ESCAPE}
    BY DEF OtherMenus, InMenu
  <1>3. RunType' /\ Went("tick")
    BY GotoOk DEF OtherMenus, Phases
  <1>4. GuiType' /\ Asked(m)
    BY <1>1, AskOk DEF Modes
  <1>5. TypeOK'
    BY <1>2, <1>3, <1>4 DEF Went, EpType, PlanType, LvlType, RestType, DiskType, NextType
  <1>6. Control'
    BY <1>2, <1>3, <1>4 DEF Went, Asked, Control, Disk, Requests, Callers, Loads, Inside,
                            Between, Video
  <1>7. Worlds'
    BY <1>2, <1>3, <1>4 DEF Went, Asked, Worlds, Inside
  <1>8. Started'
    BY <1>2, <1>3, <1>4 DEF Went, Asked, Started, Playing
  <1>9. Games'
    BY <1>2 DEF Games, GameOK
  <1>10. Story'
    BY <1>2, <1>3, <1>4 DEF Went, Asked, Story, Current, InGame, Due, Watched, Called, Video,
                            Loads, Control, Worlds, Inside
  <1> QED
    BY <1>5, <1>6, <1>7, <1>8, <1>9, <1>10

\* The saved game that is written in a level, or in its menu, may be loaded.
LEMMA WrittenOk ==
    ASSUME Inv, lvl.world # NONE, gui.next # UNK
    PROVE  Written \in SavedGame /\ GameOK(Written)
  <1> USE TypesOk DEF Inv
  <1>1. ep.idx \in DOMAIN episode /\ lvl.world \in DOMAIN episode /\ DOMAIN episode \subseteq Numbers
    BY EntriesOk DEF EpType, LvlType, RestType
  <1>2. lvl.over \/ slipped \in BOOLEAN
    BY DEF LvlType, RestType
  <1>3. Written.idx = ep.idx /\ Written.file = lvl.world /\ (Written.late <=> lvl.over \/ slipped)
    BY DEF Written
  <1>4. episode[lvl.world].type = "level" /\ (~slipped /\ ~lvl.over => lvl.world = ep.idx)
    BY DEF Worlds, Story, InGame
  <1>5. Written \in SavedGame
    BY <1>1 DEF Written, SavedGame
  <1> QED
    BY <1>1, <1>3, <1>4, <1>5 DEF GameOK

LEMMA KeptOk ==
    ASSUME Inv, lvl.world # NONE, gui.next # UNK, NEW kept \in Kept
    PROVE  kept \cup {Written} \subseteq SavedGame /\ \A s \in kept \cup {Written} : GameOK(s)
  <1>1. kept \subseteq disk.saves
    BY DEF Kept
  <1> QED
    BY <1>1, WrittenOk, TypesOk DEF Inv, DiskType, Games

\* From the escape menu back to the game, with a request for a saved game or without.
LEMMA BackToGame ==
    ASSUME Inv, InMenu(ESCAPE), Ask(GAMEPLAY), Goto("tick"),
           UNCHANGED <<episode, net, plan, lvl, slipped>>, EpType',
           ep'.idx = ep.idx, ep'.ent = ep.ent, ep'.ent2 = ep.ent2, ep'.shown = ep.shown,
           ep'.loading = ep.loading \/ ep'.loading = TRUE,
           Disk', DiskType', \A s \in disk'.saves : GameOK(s)
    PROVE  Inv'
  <1> USE TypesOk DEF Inv
  <1>1. RunType' /\ Went("tick")
    BY GotoOk DEF Phases
  <1>2. GuiType' /\ Asked(GAMEPLAY)
    BY AskOk DEF Modes
  <1>3. run.at = "menu" /\ gui.cur = ESCAPE
    BY DEF InMenu
  <1>4. TypeOK'
    BY <1>1, <1>2 DEF Went, PlanType, LvlType, RestType, NextType
  <1>5. Control'
    BY <1>1, <1>2, <1>3 DEF Went, Asked, Control, Requests, Callers, Loads, Inside, Between,
                            Video
  <1>6. Worlds'
    BY <1>1, <1>2, <1>3 DEF Went, Asked, Worlds, Inside
  <1>7. Started'
    BY <1>1, <1>3 DEF Started, Playing
  <1>8. Games'
    BY DEF Games, GameOK
  <1>9. Story'
    BY <1>1, <1>2, <1>3 DEF Went, Asked, Story, Current, InGame, Due, Watched, Called, Video,
                            Loads, Control, Worlds
  <1> QED
    BY <1>4, <1>5, <1>6, <1>7, <1>8, <1>9

LEMMA ReturnKeeps == ASSUME Inv, Return PROVE Inv'
  <1> USE TypesOk DEF Inv
  <1>1. /\ InMenu(ESCAPE) /\ Ask(GAMEPLAY) /\ Goto("tick")
        /\ UNCHANGED <<episode, net, ep, plan, lvl, disk, slipped>>
    BY DEF Return
  <1>2. EpType' /\ Disk' /\ DiskType' /\ \A s \in disk'.saves : GameOK(s)
    BY <1>1 DEF EpType, DiskType, Control, Disk, Games
  <1> QED
    BY <1>1, <1>2, BackToGame

LEMMA LoadSameKeeps == ASSUME Inv, LoadSame PROVE Inv'
  <1> USE TypesOk DEF Inv
  <1>1. /\ InMenu(ESCAPE) /\ Ask(GAMEPLAY) /\ Goto("tick")
        /\ UNCHANGED <<episode, net, plan, lvl, slipped>>
        /\ ep' = [ep EXCEPT !.loading = TRUE]
    BY DEF LoadSame
  <1>2. PICK s \in disk.saves : Request("load", s)
    BY DEF LoadSame
  <1>3. Disk' /\ disk'.saves = disk.saves /\ disk'.op = "load" /\ disk'.game = s
    BY <1>2, RequestOk DEF Control, DiskType
  <1>4. DiskType' /\ \A t \in disk'.saves : GameOK(t)
    BY <1>3 DEF DiskType, Games
  <1>5. /\ EpType' /\ ep'.idx = ep.idx /\ ep'.ent = ep.ent /\ ep'.ent2 = ep.ent2
        /\ ep'.shown = ep.shown /\ ep'.loading = TRUE
    BY <1>1 DEF EpType
  <1> QED
    BY <1>1, <1>3, <1>4, <1>5, BackToGame

LEMMA SaveInMenuKeeps == ASSUME Inv, SaveInMenu PROVE Inv'
  <1> USE TypesOk DEF Inv
  <1>1. /\ InMenu(ESCAPE) /\ Ask(GAMEPLAY) /\ Goto("tick")
        /\ UNCHANGED <<episode, net, ep, plan, lvl, slipped>>
    BY DEF SaveInMenu
  <1>2. PICK kept \in Kept : disk' = [saves |-> kept \cup {Written}, op |-> "none", game |-> NONE]
    BY DEF SaveInMenu
  <1>3. lvl.world # NONE /\ gui.next # UNK
    BY <1>1 DEF InMenu, Worlds, Control, Loads
  <1>4. kept \cup {Written} \subseteq SavedGame /\ \A s \in kept \cup {Written} : GameOK(s)
    BY <1>3, KeptOk
  <1>5. Disk' /\ DiskType' /\ \A s \in disk'.saves : GameOK(s)
    BY <1>2, <1>4 DEF Disk, DiskType
  <1>6. EpType'
    BY <1>1 DEF EpType
  <1> QED
    BY <1>1, <1>5, <1>6, BackToGame

LEMMA DeclineRestartKeeps == ASSUME Inv, DeclineRestart PROVE Inv'
  <1> USE TypesOk DEF Inv
  <1>1. RunType' /\ Went("tick")
    BY GotoOk DEF DeclineRestart, Phases
  <1>2. /\ UNCHANGED <<episode, net, gui, ep, plan, lvl, disk>> /\ slipped' = TRUE
        /\ run.at = "menu" /\ gui.cur = ESCAPE
    BY DEF DeclineRestart, InMenu, Slip
  <1>3. TypeOK'
    <2>1. RestType' /\ DiskType'
      BY <1>2 DEF RestType, DiskType
    <2> QED
      BY <1>1, <1>2, <2>1 DEF Went, GuiType, EpType, PlanType, LvlType, NextType
  <1>4. Control'
    BY <1>1, <1>2 DEF Went, Control, Disk, Requests, Callers, Loads, Inside, Between, Video,
                      Multi, GuiType
  <1>5. Worlds'
    BY <1>1, <1>2 DEF Went, Worlds, Inside
  <1>6. Started' /\ Games' /\ Story'
    BY <1>1, <1>2 DEF Went, Started, Playing, Games, GameOK, Story
  <1> QED
    BY <1>3, <1>4, <1>5, <1>6

-------------------------------------------------------------------------------
(* The frame *)

\* The escape key, in a level that has not ended.
LEMMA EscKeyKeeps == ASSUME Inv, EscKey PROVE Inv'
  <1> USE TypesOk DEF Inv
  <1>1. GuiType' /\ Asked(ESCAPE)
    BY AskOk DEF EscKey, Modes
  <1>2. /\ UNCHANGED <<episode, net, run, ep, plan, lvl, disk, slipped>>
        /\ run.at = "advance" /\ lvl.ddraw = TRUE /\ ~gui.stop
    BY DEF EscKey, LvlType
  <1>3. gui.cur = GAMEPLAY /\ lvl.world # NONE
    BY <1>2 DEF Worlds, Inside
  <1>4. TypeOK'
    BY <1>1, <1>2 DEF RunType, EpType, PlanType, LvlType, RestType, DiskType, NextType
  <1>5. Control'
    BY <1>1, <1>2, <1>3 DEF Asked, Control, Disk, Requests, Callers, Loads, Inside, Between,
                            Video
  <1>6. Worlds'
    BY <1>1, <1>2, <1>3 DEF Asked, Worlds, Inside
  <1>7. Started'
    BY <1>1, <1>2, <1>3 DEF Asked, Started, Playing
  <1>8. Games'
    BY <1>2 DEF Games, GameOK
  <1>9. Story'
    BY <1>1, <1>2, <1>3 DEF Asked, Story, Current, InGame, Due, Watched, Called, Video,
                            Control, Requests
  <1> QED
    BY <1>4, <1>5, <1>6, <1>7, <1>8, <1>9

LEMMA TickInMenuKeeps == ASSUME Inv, TickInMenu PROVE Inv'
  <1> USE TypesOk DEF Inv
  <1>1. RunType' /\ Went("frame")
    BY GotoOk DEF TickInMenu, Phases
  <1>2. /\ UNCHANGED <<episode, net, gui, ep, plan, lvl, disk, slipped>>
        /\ run.at = "menu" /\ gui.cur = ESCAPE /\ Multi /\ ~gui.stop
    BY DEF TickInMenu, InMenu
  <1>3. TypeOK'
    BY <1>1, <1>2 DEF Went, GuiType, EpType, PlanType, LvlType, RestType, DiskType, NextType
  <1>4. Control'
    BY <1>1, <1>2 DEF Went, Control, Disk, Requests, Callers, Loads, Inside, Between, Video,
                      Multi, GuiType
  <1>5. Worlds'
    BY <1>1, <1>2 DEF Went, Worlds, Inside
  <1>6. Started' /\ Games'
    BY <1>1, <1>2 DEF Went, Started, Playing, Games, GameOK
  <1>7. Story'
    BY <1>1, <1>2 DEF Went, Story, Current, InGame, Due, Watched, Called, Video
  <1> QED
    BY <1>3, <1>4, <1>5, <1>6, <1>7

\* A frame has a level, and a mode that is due then is due because the level has ended.
LEMMA FrameOk ==
    ASSUME Inv, run.at \in {"frame", "after"}
    PROVE  /\ Inside /\ lvl.world # NONE /\ gui.next # UNK
           /\ gui.cur = ESCAPE => Multi
  BY TypesOk DEF Inv, Control, Requests, Loads, Worlds, Inside

\* A script ends the level, however often.
LEMMA CogEndLevelKeeps == ASSUME Inv, CogEndLevel PROVE Inv'
  <1> USE TypesOk DEF Inv
  <1>1. PICK light \in BOOLEAN :
           CallNext(FALSE, light, "frame") /\ lvl' = [lvl EXCEPT !.over = TRUE]
    BY Zenon DEF CogEndLevel
  <1>2. RunType' /\ Calls(FALSE, "frame")
    BY <1>1, CallNextOk DEF Phases
  <1>3. UNCHANGED <<episode, net, gui, ep, plan, disk, slipped>> /\ run.at = "frame" /\ ~Multi
    BY DEF CogEndLevel
  <1>4. LvlType' /\ lvl'.world = lvl.world /\ lvl'.init = lvl.init /\ lvl'.eight = lvl.eight
        /\ lvl'.ddraw = lvl.ddraw /\ lvl'.over = TRUE
    BY <1>1, <1>3 DEF LvlType
  <1>5. gui.cur = GAMEPLAY /\ lvl.world # NONE /\ gui.next # UNK
    BY <1>3, FrameOk DEF Inside
  <1>6. Started'
    BY <1>3, <1>5 DEF Started, Playing
  <1>7. TypeOK'
    BY <1>2, <1>3, <1>4, <1>6 DEF Calls, GuiType, EpType, PlanType, RestType, DiskType, NextType,
                                  Started
  <1>8. Control'
    BY <1>2, <1>3, <1>5 DEF Calls, Control, Disk, Requests, Callers, Loads, Inside, Between,
                            Video, Multi, GuiType
  <1>9. Worlds'
    BY <1>2, <1>3, <1>4, <1>5 DEF Calls, Worlds, Inside
  <1>10. Games'
    BY <1>3 DEF Games, GameOK
  <1>11. Story'
    BY <1>2, <1>3, <1>4, <1>5 DEF Calls, Story, Current, InGame, Due, Watched, Called, Video
  <1> QED
    BY <1>6, <1>7, <1>8, <1>9, <1>10, <1>11

\* A request for a saved game changes nothing else.
LEMMA RequestKeeps ==
    ASSUME Inv, UNCHANGED <<episode, net, gui, run, ep, plan, lvl, slipped>>, Disk', DiskType',
           \A s \in disk'.saves : GameOK(s)
    PROVE  Inv'
  <1> USE TypesOk DEF Inv
  <1>1. TypeOK'
    BY DEF GuiType, RunType, EpType, PlanType, LvlType, RestType, NextType
  <1>2. Control' /\ Worlds' /\ Started'
    BY DEF Control, Requests, Callers, Loads, Inside, Between, Video, Multi, Worlds, Started,
           Playing
  <1>3. Games' /\ Story'
    BY DEF Games, GameOK, Story, Current, InGame, Due, Watched, Called, Video, IsCut, Opens
  <1> QED
    BY <1>1, <1>2, <1>3

LEMMA SaveKeeps == ASSUME Inv, Save PROVE Inv'
  <1> USE TypesOk DEF Inv
  <1>1. UNCHANGED <<episode, net, gui, run, ep, plan, lvl, slipped>> /\ Request("save", NONE)
    BY DEF Save
  <1>2. Disk' /\ disk'.saves = disk.saves /\ disk'.op = "save"
    BY <1>1, RequestOk DEF Control
  <1>3. DiskType' /\ \A s \in disk'.saves : GameOK(s)
    BY <1>2 DEF DiskType, Games
  <1> QED
    BY <1>1, <1>2, <1>3, RequestKeeps

LEMMA DieKeeps == ASSUME Inv, Die PROVE Inv'
  <1> USE TypesOk DEF Inv
  <1>1. UNCHANGED <<episode, net, gui, run, ep, plan, lvl, slipped>>
    BY DEF Die
  <1>2. PICK s \in disk.saves : Request("load", s)
    BY DEF Die
  <1>3. Disk' /\ disk'.saves = disk.saves /\ disk'.op = "load" /\ disk'.game = s
    BY <1>2, RequestOk DEF Control, DiskType
  <1>4. DiskType' /\ \A t \in disk'.saves : GameOK(t)
    BY <1>3 DEF DiskType, Games
  <1> QED
    BY <1>1, <1>3, <1>4, RequestKeeps

\* A set of numbers has a least one.
LEMMA LeastOk ==
    ASSUME NEW T, T \subseteq Nat, T # {}
    PROVE  \E x \in T : \A y \in T : ~(y < x)
  <1>1. \E x \in T : \A y \in T : ~(<<y, x>> \in OpToRel(<, Nat))
    BY Zenon, WFMin, NatLessThanWellFounded
  <1> QED
    BY <1>1 DEF OpToRel

\* The first entry of the level that is open: there is one.
LEMMA FirstOfLevel ==
    ASSUME episode \in Episodes, lvl.world \in DOMAIN episode
    PROVE  (CHOOSE j \in DOMAIN episode :
               /\ episode[j].level = episode[lvl.world].level
               /\ \A k \in 1 .. j - 1 : episode[k].level # episode[j].level) \in DOMAIN episode
  <1> DEFINE same == {j \in DOMAIN episode : episode[j].level = episode[lvl.world].level}
  <1>1. DOMAIN episode = 1 .. Len(episode) /\ Len(episode) \in Nat
    BY EpisodeAssumption DEF EpisodeAssumption
  <1>2. same \subseteq Nat /\ same # {}
    BY <1>1
  <1>3. PICK j \in same : \A k \in same : ~(k < j)
    BY <1>2, LeastOk
  <1>4. \A k \in 1 .. j - 1 : episode[k].level # episode[j].level
    <2> TAKE k \in 1 .. j - 1
    <2>1. k \in DOMAIN episode /\ k \in Nat /\ j \in Nat /\ k < j
      BY <1>1
    <2>2. k \notin same
      BY <1>3, <2>1
    <2> QED
      BY <2>1, <2>2
  <1>5. j \in DOMAIN episode /\ episode[j].level = episode[lvl.world].level
    OBVIOUS
  <1> HIDE DEF same
  <1> QED
    BY <1>4, <1>5

LEMMA ProcessEndLevelKeeps == ASSUME Inv, ProcessEndLevel PROVE Inv'
  <1> USE TypesOk DEF Inv
  <1> DEFINE i == CHOOSE j \in DOMAIN episode :
                     /\ episode[j].level = episode[lvl.world].level
                     /\ \A k \in 1 .. j - 1 : episode[k].level # episode[j].level
  <1>1. /\ UNCHANGED <<episode, net, gui, run, plan, lvl, disk>> /\ run.at = "frame"
        /\ ep' = [ep EXCEPT !.idx = i, !.shown = @ /\ i = ep.idx]
        /\ Slip(i # ep.idx)
    BY DEF ProcessEndLevel
  <1>2. lvl.world \in DOMAIN episode /\ episode \in Episodes
    BY <1>1, FrameOk DEF LvlType, RestType
  <1>3. i \in DOMAIN episode
    BY <1>2, FirstOfLevel
  <1> HIDE DEF i
  <1>4. /\ EpType' /\ ep'.idx = i /\ ep'.ent = ep.ent /\ ep'.ent2 = ep.ent2
        /\ ep'.loading = ep.loading /\ (ep'.shown <=> ep.shown /\ i = ep.idx)
    BY <1>1, <1>3 DEF EpType
  <1>5. RestType' /\ (~slipped' => ~slipped /\ i = ep.idx)
    BY <1>1 DEF RestType, Slip
  <1>6. TypeOK'
    BY <1>1, <1>4, <1>5 DEF GuiType, RunType, PlanType, LvlType, DiskType, NextType
  <1>7. Control' /\ Worlds' /\ Started' /\ Games'
    BY <1>1, <1>4 DEF Control, Disk, Requests, Callers, Loads, Inside, Between, Video, Multi,
                      Worlds, Started, Playing, Games, GameOK
  <1>8. Story'
    BY <1>1, <1>4, <1>5 DEF Story, Current, InGame, Due, Watched, Called, Video, IsCut, Opens
  <1> QED
    BY <1>6, <1>7, <1>8

\* The flush, or a time limit, at the end of a frame.
LEMMA FrameEndsKeeps == ASSUME Inv, FrameEnds PROVE Inv'
  <1> USE TypesOk DEF Inv
  <1>1. UNCHANGED <<episode, net, gui, plan>> /\ run.at = "frame"
    BY Zenon DEF FrameEnds
  <1>2. RunType' /\ Went("after")
    <2>1. Goto("after")
      BY Zenon DEF FrameEnds
    <2> QED
      BY <2>1, GotoOk DEF Phases
  <1>3. Inside /\ lvl.world # NONE /\ gui.next # UNK /\ (gui.cur = ESCAPE => Multi)
    BY <1>1, FrameOk
  <1>4. ASSUME LvlType', EpType', Disk', DiskType', RestType', \A s \in disk'.saves : GameOK(s),
               lvl'.init = lvl.init, lvl'.eight = lvl.eight, lvl'.ddraw = lvl.ddraw,
               lvl'.world # NONE, episode[lvl'.world].type = "level", Story',
               ep'.loading = ep.loading, ep'.ent = ep.ent \/ ep'.ent # NONE
        PROVE  Inv'
    <2>1. TypeOK'
      BY <1>1, <1>2, <1>4 DEF Went, GuiType, PlanType, NextType
    <2>2. Control'
      BY <1>1, <1>2, <1>3, <1>4 DEF Went, Control, Requests, Callers, Loads, Inside, Between,
                                    Video, Multi, GuiType
    <2>3. Worlds'
      BY <1>1, <1>2, <1>3, <1>4 DEF Went, Worlds, Inside
    <2>4. Started'
      BY <1>1, <1>2, <1>3, <1>4 DEF Went, Started, Playing, Inside
    <2>5. Games'
      BY <1>1, <1>4 DEF Games, GameOK
    <2> QED
      BY <1>4, <2>1, <2>2, <2>3, <2>4, <2>5
  <1>5. CASE /\ disk.op = "none" /\ UNCHANGED <<ep, disk, slipped>>
             /\ \/ UNCHANGED lvl
                \/ Multi /\ \E what \in {"ending", "five"} : lvl' = [lvl EXCEPT ![what] = TRUE]
    <2>1. /\ LvlType' /\ lvl'.init = lvl.init /\ lvl'.eight = lvl.eight
          /\ lvl'.ddraw = lvl.ddraw /\ lvl'.world = lvl.world /\ lvl'.over = lvl.over
      <3>1. CASE UNCHANGED lvl
        BY <1>1, <3>1 DEF LvlType
      <3>2. CASE lvl' = [lvl EXCEPT !["ending"] = TRUE]
        BY <1>1, <3>2 DEF LvlType
      <3>3. CASE lvl' = [lvl EXCEPT !["five"] = TRUE]
        BY <1>1, <3>3 DEF LvlType
      <3> QED
        BY <1>5, <3>1, <3>2, <3>3
    <2>2. Story'
      BY <1>1, <1>2, <1>3, <1>5, <2>1 DEF Went, Story, Current, InGame, Due, Watched, Called,
                                          Video, IsCut, Opens, Inside
    <2>3. EpType' /\ Disk' /\ DiskType' /\ RestType' /\ \A s \in disk'.saves : GameOK(s)
      BY <1>1, <1>5 DEF EpType, DiskType, RestType, Control, Disk, Games
    <2> QED
      BY <1>3, <1>4, <1>5, <2>1, <2>2, <2>3 DEF Worlds
  <1>6. CASE /\ disk.op = "save" /\ UNCHANGED <<ep, lvl, slipped>>
             /\ \E kept \in Kept :
                   disk' = [disk EXCEPT !.saves = kept \cup {Written}, !.op = "none"]
    <2>1. PICK kept \in Kept : disk' = [disk EXCEPT !.saves = kept \cup {Written}, !.op = "none"]
      BY <1>6, Zenon
    <2>2. kept \cup {Written} \subseteq SavedGame /\ \A s \in kept \cup {Written} : GameOK(s)
      BY <1>3, KeptOk
    <2>3. Disk' /\ DiskType' /\ \A s \in disk'.saves : GameOK(s)
      <3> DEFINE all == kept \cup {Written}
      <3>1. all \subseteq SavedGame /\ (\A s \in all : GameOK(s))
            /\ disk' = [disk EXCEPT !.saves = all, !.op = "none"]
        BY <2>1, <2>2
      <3> HIDE DEF all
      <3> QED
        BY <3>1 DEF Control, Disk, DiskType
    <2>4. Story'
      BY <1>1, <1>2, <1>3, <1>6 DEF Went, Story, Current, InGame, Due, Watched, Called, Video,
                                    IsCut, Opens, Inside
    <2>5. EpType' /\ LvlType' /\ RestType'
      BY <1>1, <1>6 DEF EpType, LvlType, RestType
    <2> QED
      BY <1>3, <1>4, <1>6, <2>3, <2>4, <2>5 DEF Worlds
  <1>7. CASE /\ disk.op = "load" /\ disk' = [disk EXCEPT !.op = "none", !.game = NONE]
             /\ ep' = Restored(disk.game) /\ LoadSlip(disk.game)
             /\ lvl' = [lvl EXCEPT !.world = disk.game.file, !.over = FALSE]
    <2> DEFINE s == disk.game
    <2>1. GameOK(s) /\ s.file \in DOMAIN episode /\ episode[s.file].type = "level"
      BY <1>7 DEF DiskType, Games, GameOK
    <2>2. s.file # NONE
      BY <2>1, EntriesOk DEF RestType
    <2>3. /\ LvlType' /\ lvl'.init = lvl.init /\ lvl'.eight = lvl.eight
          /\ lvl'.ddraw = lvl.ddraw /\ lvl'.world = s.file /\ lvl'.over = FALSE
      BY <1>1, <1>7, <2>1 DEF LvlType
    <2>4. /\ EpType' /\ ep'.loading = ep.loading /\ ep'.ent = ep'.idx /\ ep'.ent2 = ep'.idx
          /\ ep'.shown <=> s.file = ep'.idx
          /\ ~s.late => ep'.idx = s.file
      BY <1>1, <1>7, <2>1, RestoredOk
    <2>5. ~slipped' => ~slipped /\ ~s.late /\ ~lvl.over
      BY <1>7 DEF LoadSlip, Slip
    <2>6. slipped' \in BOOLEAN
      BY <1>7 DEF LoadSlip, Slip
    <2>7. Disk' /\ DiskType' /\ RestType' /\ \A t \in disk'.saves : GameOK(t)
      <3>1. disk'.saves = disk.saves /\ disk'.op = "none" /\ Disk'
        BY <1>7 DEF Control, Disk
      <3> QED
        BY <1>1, <2>6, <3>1 DEF DiskType, RestType, Games
    <2>8. ep'.ent # NONE
      BY <1>1, <2>4, EntriesOk DEF EpType, RestType
    <2>9. Story'
      BY <1>1, <1>2, <1>3, <2>1, <2>2, <2>3, <2>4, <2>5, <2>8 DEF Went, Story, Current, InGame,
         Due, Watched, Called, Video, Inside
    <2> QED
      BY <1>4, <2>1, <2>2, <2>3, <2>4, <2>7, <2>8, <2>9
  <1> QED
    BY <1>5, <1>6, <1>7, Zenon DEF FrameEnds

\* After the frame: the session or the level may be over.
LEMMA AfterKeeps == ASSUME Inv, After PROVE Inv'
  <1> USE TypesOk DEF Inv
  <1> DEFINE back == IF gui.cur = ESCAPE THEN "menu" ELSE "advance"
  <1>1. UNCHANGED <<episode, net, ep, plan, disk>> /\ run.at = "after"
    BY DEF After
  <1>2. Inside /\ lvl.world # NONE /\ gui.next # UNK /\ (gui.cur = ESCAPE => Multi)
    BY <1>1, FrameOk
  <1>3. CASE Ask(MAIN) /\ Goto(back) /\ UNCHANGED <<lvl, slipped>>
    <2>1. GuiType' /\ Asked(MAIN)
      BY <1>3, AskOk DEF Modes
    <2>2. RunType' /\ Went(back)
      BY <1>3, GotoOk DEF Phases
    <2>3. TypeOK'
      BY <1>1, <1>3, <2>1, <2>2 DEF Went, EpType, PlanType, LvlType, RestType, DiskType, NextType
    <2>4. Control'
      BY <1>1, <1>2, <2>1, <2>2 DEF Asked, Went, Control, Disk, Requests, Callers, Loads, Inside,
                                    Between, Video
    <2>5. Worlds'
      BY <1>1, <1>2, <1>3, <2>1, <2>2 DEF Asked, Went, Worlds, Inside
    <2>6. Started' /\ Games'
      BY <1>1, <1>2, <2>1, <2>2 DEF Asked, Went, Started, Playing, Inside, Games, GameOK
    <2>7. Story'
      BY <1>1, <1>2, <1>3, <2>1, <2>2 DEF Asked, Went, Story, Current, InGame, Due, Watched,
                                          Called, Video, Inside
    <2> QED
      BY <2>3, <2>4, <2>5, <2>6, <2>7
  <1>4. CASE EndLevel(TRUE, back) /\ UNCHANGED gui
    <2>1. RunType' /\ Calls(FALSE, back)
      BY <1>4, CallNextOk DEF EndLevel, Phases
    <2>2. LvlType' /\ lvl'.world = lvl.world /\ lvl'.init = lvl.init /\ lvl'.eight = lvl.eight
          /\ lvl'.ddraw = lvl.ddraw /\ lvl'.over = TRUE
      BY <1>1, <1>4 DEF EndLevel, LvlType
    <2>3. slipped' \in BOOLEAN /\ (~slipped' => ~slipped /\ gui.cur = GAMEPLAY)
      BY <1>2, <1>4 DEF EndLevel, Slip, Inside
    <2>4. Started'
      BY <1>1, <1>2, <1>4 DEF Started, Playing, Inside
    <2>5. TypeOK'
      BY <1>1, <1>2, <1>4, <2>1, <2>2, <2>3, <2>4 DEF Calls, GuiType, EpType, PlanType, RestType,
         DiskType, NextType, Started
    <2>6. Control'
      BY <1>1, <1>2, <1>4, <2>1 DEF Calls, Control, Disk, Requests, Callers, Loads, Inside,
                                    Between, Video, Multi, GuiType
    <2>7. Worlds'
      BY <1>1, <1>2, <1>4, <2>1, <2>2 DEF Calls, Worlds, Inside
    <2>8. Games'
      BY <1>1 DEF Games, GameOK
    <2>9. Story'
      BY <1>1, <1>2, <1>4, <2>1, <2>2, <2>3 DEF Calls, Story, Current, InGame, Due, Watched,
                                                Called, Video
    <2> QED
      BY <2>4, <2>5, <2>6, <2>7, <2>8, <2>9
  <1>5. CASE Goto(back) /\ UNCHANGED <<gui, lvl, slipped>>
    <2>1. RunType' /\ Went(back)
      BY <1>5, GotoOk DEF Phases
    <2>2. TypeOK'
      BY <1>1, <1>5, <2>1 DEF Went, GuiType, EpType, PlanType, LvlType, RestType, DiskType,
                              NextType
    <2>3. Control'
      BY <1>1, <1>2, <1>5, <2>1 DEF Went, Control, Disk, Requests, Callers, Loads, Inside,
                                    Between, Video, Multi, GuiType
    <2>4. Worlds'
      BY <1>1, <1>2, <1>5, <2>1 DEF Went, Worlds, Inside
    <2>5. Started' /\ Games'
      BY <1>1, <1>5, <2>1 DEF Went, Started, Playing, Games, GameOK
    <2>6. Story'
      BY <1>1, <1>2, <1>5, <2>1 DEF Went, Story, Current, InGame, Due, Watched, Called, Video,
                                    IsCut, Opens, Inside
    <2> QED
      BY <2>2, <2>3, <2>4, <2>5, <2>6
  <1> QED
    BY <1>3, <1>4, <1>5 DEF After

-------------------------------------------------------------------------------
(* The next entry: jkMain_StartNextLevelInEpisode *)

Advance == Advanced(Begun, run.lightPath)
Place == [idx : DOMAIN episode, ent : DOMAIN episode \cup {NONE},
          ent2 : DOMAIN episode \cup {NONE}, loading : BOOLEAN, shown : BOOLEAN]

\* What a step along the path comes to: one begins, moves on, or stays where it is.
LEMMA AdvanceIs ==
    ASSUME Inv, run.at = "startNext"
    PROVE  /\ Advance \in Place /\ Advance.loading = FALSE /\ Advance.ent # NONE
           /\ \/ run.fresh /\ Advance.ent2 = Advance.idx
              \/ /\ ~run.fresh /\ ep.loading /\ Advance.ent = ep.idx /\ Advance.ent2 # ep.idx
                 /\ Advance.ent2 # NONE => Advance.ent2 = Advance.idx
              \/ ~run.fresh /\ ~ep.loading /\ Advance = ep
  <1> USE TypesOk DEF Inv
  <1>1. ep \in Place /\ ep.idx # NONE
    BY EntriesOk DEF EpType, Place, RestType
  <1>2. CASE run.fresh
    <2>1. Begun = [ep EXCEPT !.ent = ep.idx, !.ent2 = ep.idx, !.loading = FALSE]
      BY <1>2 DEF Begun
    <2>2. Begun \in Place /\ Begun.loading = FALSE /\ Begun.ent = ep.idx /\ Begun.ent2 = ep.idx
          /\ Begun.idx = ep.idx
      BY <1>1, <2>1 DEF Place
    <2>3. Advance = Begun
      BY <2>2 DEF Advance, Advanced
    <2> QED
      BY <1>1, <1>2, <2>2, <2>3
  <1>3. CASE ~run.fresh /\ ep.loading
    <2> DEFINE n == NextEntry(ep.idx, run.lightPath)
    <2>1. n \in DOMAIN episode \cup {NONE} /\ n # ep.idx
      BY EntriesOk DEF RestType, EpType, RunType
    <2>2. Advance = [ep EXCEPT !.ent = ep.idx, !.ent2 = n, !.loading = FALSE,
                               !.idx = IF n = NONE THEN @ ELSE n, !.shown = (n = NONE) /\ @]
      BY <1>3 DEF Advance, Advanced, Begun
    <2> HIDE DEF n
    <2>3. /\ Advance \in Place /\ Advance.loading = FALSE /\ Advance.ent = ep.idx
          /\ Advance.ent2 = n /\ Advance.idx = (IF n = NONE THEN ep.idx ELSE n)
      BY <1>1, <2>1, <2>2 DEF Place
    <2> QED
      BY <1>1, <1>3, <2>1, <2>3
  <1>4. CASE ~run.fresh /\ ~ep.loading
    <2>1. Advance = ep
      BY <1>4 DEF Advance, Advanced, Begun
    <2> QED
      BY <1>1, <1>4, <2>1 DEF NextType, Place
  <1> QED
    BY <1>2, <1>3, <1>4

\* In a game that has not slipped the entry that is due is the current one; one that is
\* stayed at has been presented.
LEMMA AdvanceOk ==
    ASSUME Inv, run.at = "startNext", ~slipped
    PROVE  /\ Advance.ent2 # NONE => Advance.ent2 = Advance.idx
           /\ lvl.world # NONE =>
                 /\ gui.cur = GAMEPLAY /\ lvl.over /\ episode[Advance.ent].type = "level"
                 /\ Advance.ent = Advance.ent2 => Advance.shown
  <1> USE DEF Inv
  <1>1. gui.next # UNK
    BY DEF Control, Loads
  <1>2. lvl.world # NONE => ~run.fresh
    BY DEF Control, Callers, Worlds
  <1> QED
    BY <1>1, <1>2, AdvanceIs DEF Story, Current, InGame

\* The function returns, and a mode is asked for.
LEMMA NextAsked ==
    ASSUME Inv, run.at = "startNext", Goto(run.back), EpType', ep'.ent # NONE,
           PlanType', plan'.game = plan.game, UNCHANGED <<episode, net, lvl, disk, slipped>>,
           NEW mode \in Modes \ {UNK, ESCAPE}, Ask(mode), Story'
    PROVE  Inv'
  <1> USE TypesOk DEF Inv
  <1>1. RunType' /\ Went(run.back)
    BY GotoOk DEF RunType
  <1>2. GuiType' /\ Asked(mode)
    BY AskOk
  <1>3. TypeOK'
    BY <1>1, <1>2 DEF LvlType, RestType, DiskType, NextType
  <1>4. Control'
    BY <1>1, <1>2 DEF Asked, Went, Control, Disk, Requests, Callers, Loads, Inside, Between,
                      Video, Multi
  <1>5. Worlds'
    BY <1>1, <1>2 DEF Asked, Went, Worlds, Inside, Control, Callers
  <1>6. Started'
    BY DEF Started
  <1>7. Games'
    BY DEF Games, GameOK
  <1> QED
    BY <1>3, <1>4, <1>5, <1>6, <1>7

\* What the properties of a game need when the next mode is asked for.
LEMMA AskedStory ==
    ASSUME Inv, run.at = "startNext", Goto(run.back), UNCHANGED <<episode, net, lvl, slipped>>,
           NEW mode \in Modes \ {UNK, ESCAPE}, Ask(mode), ~slipped,
           ep'.ent2 # NONE => ep'.ent2 = ep'.idx,
           lvl.world # NONE =>
              /\ ep'.loading => ep'.shown /\ episode[ep'.idx].type = "level"
              /\ ~ep'.loading => /\ ep'.ent # NONE /\ episode[ep'.ent].type = "level"
                                 /\ ep'.ent = ep'.ent2 => ep'.shown,
           mode \in {VIDEO3, VIDEO4} => IsCut',
           mode \in {ENDLEVEL, CD_SWITCH} => ~ep'.loading,
           mode = GAMEPLAY => plan'.file = ep'.idx /\ ep'.loading
    PROVE  Current' /\ InGame' /\ Due' /\ Watched' /\ Called'
  <1> USE TypesOk DEF Inv
  <1>1. RunType' /\ Went(run.back)
    BY GotoOk DEF RunType
  <1>2. Asked(mode)
    BY AskOk
  <1>3. lvl.world # NONE => lvl.over /\ gui.cur = GAMEPLAY
    BY AdvanceOk
  <1>4. Current' /\ InGame'
    BY <1>1, <1>2, <1>3 DEF Asked, Went, Current, InGame, Control, Callers, Inside
  <1>5. Due'
    BY <1>1, <1>2 DEF Asked, Went, Due, Control, Callers, Inside, Between, Video
  <1>6. Watched' /\ Called'
    BY <1>1, <1>2 DEF Asked, Went, Watched, Called, Video, Control, Callers
  <1> QED
    BY <1>4, <1>5, <1>6

\* The function returns with the current entry as it is: to the credits, to the main menu,
\* to the tally, or to the cutscene that follows the level.
LEMMA AskedAsItIs ==
    ASSUME Inv, run.at = "startNext", ep' = Advance, Goto(run.back),
           UNCHANGED <<episode, net, lvl, disk, slipped, plan>>,
           NEW mode \in {CREDITS, MAIN, ENDLEVEL, CD_SWITCH}, Ask(mode)
    PROVE  Inv'
  <1>1. EpType' /\ PlanType' /\ ep'.ent # NONE /\ ep'.loading = FALSE
    BY AdvanceIs, TypesOk DEF Inv, EpType, PlanType, Place
  <1>2. mode \in Modes \ {UNK, ESCAPE}
    BY DEF Modes
  <1>3. ASSUME ~slipped
        PROVE  /\ Advance.ent2 # NONE => Advance.ent2 = Advance.idx
               /\ lvl.world # NONE => /\ episode[Advance.ent].type = "level"
                                      /\ Advance.ent = Advance.ent2 => Advance.shown
    BY <1>3, AdvanceOk
  <1>4. ASSUME ~slipped PROVE Current' /\ InGame' /\ Due' /\ Watched' /\ Called'
    BY <1>1, <1>2, <1>3, <1>4, AskedStory
  <1>5. Story'
    BY <1>4 DEF Story
  <1> QED
    BY <1>1, <1>2, <1>5, NextAsked

\* The entry that is presented: jkMain_cd_swap_reverify.
LEMMA ReverifyKeeps ==
    ASSUME Inv, run.at = "startNext", Advance.ent2 # NONE, SameLevel(Advance),
           ~(episode[Advance.ent2].type = "cut" /\ gui.cur = GAMEPLAY),
           Reverify([Advance EXCEPT !.loading = TRUE]),
           UNCHANGED <<episode, net, lvl, disk, slipped>>
    PROVE  Inv'
  <1> USE TypesOk DEF Inv
  <1> DEFINE e == [Advance EXCEPT !.loading = TRUE]
             i == Advance.ent2
  <1>1. /\ e \in Place /\ e.idx = Advance.idx /\ e.ent = Advance.ent /\ e.ent2 = i
        /\ e.loading = TRUE /\ e.shown = Advance.shown
    BY AdvanceIs DEF Place
  <1>2. i \in DOMAIN episode /\ i \in Numbers /\ e.ent \in DOMAIN episode
    BY AdvanceIs, EntriesOk DEF RestType, Place
  <1>3. ASSUME ~slipped
        PROVE  /\ e.ent2 = e.idx
               /\ lvl.world # NONE => /\ gui.cur = GAMEPLAY /\ lvl.over
                                      /\ episode[i].type = "level" /\ e.shown
    <2>1. /\ Advance.idx = i
          /\ lvl.world # NONE => /\ gui.cur = GAMEPLAY /\ lvl.over
                                 /\ episode[Advance.ent].type = "level"
                                 /\ Advance.ent = i => Advance.shown
      BY <1>3, AdvanceOk
    <2>2. lvl.world # NONE => episode[Advance.ent].level = episode[i].level
                              /\ episode[i].type \in {"level", "choice"}
      BY <1>2, <2>1, EntriesOk DEF SameLevel, RestType
    <2>3. lvl.world # NONE => Advance.ent = i
      BY <1>1, <1>2, <2>1, <2>2, EntriesOk DEF RestType
    <2> QED
      BY <1>1, <2>1, <2>3
  <1> HIDE DEF e, i
  <1>4. \/ /\ episode[i].type = "level"
           /\ plan' = [plan EXCEPT !.gameMode = IF Multi THEN 2 ELSE 0, !.file = i]
           /\ Ask(GAMEPLAY) /\ Goto(run.back) /\ ep' = e
        \/ episode[i].type = "choice" /\ Ask(CHOICE) /\ Goto(run.back) /\ ep' = e /\ plan' = plan
        \/ /\ episode[i].type = "cut" /\ ep' = [e EXCEPT !.shown = TRUE]
           /\ CallNext(FALSE, TRUE, run.back) /\ UNCHANGED <<gui, plan>>
        \/ /\ episode[i].type = "cut" /\ plan' = [plan EXCEPT !.file = i]
           /\ Goto(run.back) /\ ep' = e
           /\ \/ Ask(VIDEO4)
              \/ Ask(VIDEO3)
              \/ gui.cur \notin {MAIN, ENDLEVEL, GAMEPLAY, CD_SWITCH, VIDEO3} /\ UNCHANGED gui
    BY <1>1 DEF Reverify, e, i
  <1>5. ASSUME ep' = e PROVE EpType' /\ ep'.ent # NONE
    BY <1>1, <1>2, <1>5, EntriesOk DEF EpType, Place, RestType
  <1>6. CASE /\ episode[i].type = "level"
             /\ plan' = [plan EXCEPT !.gameMode = IF Multi THEN 2 ELSE 0, !.file = i]
             /\ Ask(GAMEPLAY) /\ Goto(run.back) /\ ep' = e
    <2>1. PlanType' /\ plan'.file = i /\ plan'.game = plan.game
      BY <1>2, <1>6 DEF PlanType
    <2>2. GAMEPLAY \in Modes \ {UNK, ESCAPE}
      BY DEF Modes
    <2>3. ASSUME ~slipped PROVE Current' /\ InGame' /\ Due' /\ Watched' /\ Called'
      BY <1>1, <1>3, <1>6, <2>1, <2>2, <2>3, AskedStory
    <2>4. Story'
      BY <2>3 DEF Story
    <2> QED
      BY <1>5, <1>6, <2>1, <2>2, <2>4, NextAsked
  <1>7. CASE episode[i].type = "choice" /\ Ask(CHOICE) /\ Goto(run.back) /\ ep' = e /\ plan' = plan
    <2>1. PlanType' /\ plan'.game = plan.game
      BY <1>7 DEF PlanType
    <2>2. CHOICE \in Modes \ {UNK, ESCAPE}
      BY DEF Modes
    <2>3. ASSUME ~slipped PROVE Current' /\ InGame' /\ Due' /\ Watched' /\ Called'
      BY <1>1, <1>3, <1>7, <2>2, <2>3, AskedStory
    <2>4. Story'
      BY <2>3 DEF Story
    <2> QED
      BY <1>5, <1>7, <2>1, <2>2, <2>4, NextAsked
  <1>8. CASE /\ episode[i].type = "cut" /\ ep' = [e EXCEPT !.shown = TRUE]
             /\ CallNext(FALSE, TRUE, run.back) /\ UNCHANGED <<gui, plan>>
    <2>1. RunType' /\ Calls(FALSE, run.back)
      BY <1>8, CallNextOk DEF RunType
    <2>2. EpType' /\ ep'.ent2 = i /\ ep'.idx = e.idx /\ ep'.shown = TRUE /\ ep'.loading = TRUE
      BY <1>1, <1>2, <1>8 DEF EpType, Place
    <2>3. TypeOK'
      BY <1>8, <2>1, <2>2 DEF Calls, GuiType, PlanType, LvlType, RestType, DiskType, NextType
    <2>4. Control'
      BY <1>8, <2>1, <2>2 DEF Calls, Control, Disk, Requests, Callers, Loads, Inside, Between,
                              Video, Multi
    <2>5. Worlds'
      BY <1>8, <2>1 DEF Calls, Worlds, Inside
    <2>6. Started' /\ Games'
      BY <1>8, <2>2 DEF Started, Games, GameOK
    <2>7. Story'
      BY <1>1, <1>3, <1>8, <2>1, <2>2 DEF Calls, Story, Current, InGame, Due, Watched, Called
    <2> QED
      BY <2>3, <2>4, <2>5, <2>6, <2>7
  <1>9. CASE /\ episode[i].type = "cut" /\ plan' = [plan EXCEPT !.file = i]
             /\ Goto(run.back) /\ ep' = e /\ (Ask(VIDEO4) \/ Ask(VIDEO3))
    <2>1. PlanType' /\ plan'.file = i /\ plan'.game = plan.game
      BY <1>2, <1>9 DEF PlanType
    <2>2. PICK mode \in {VIDEO3, VIDEO4} : Ask(mode)
      BY <1>9
    <2>3. mode \in Modes \ {UNK, ESCAPE}
      BY DEF Modes
    <2>4. ASSUME ~slipped PROVE Current' /\ InGame' /\ Due' /\ Watched' /\ Called'
      <3>1. IsCut'
        BY <1>1, <1>3, <1>9, <2>1, <2>4 DEF IsCut
      <3>2. lvl.world = NONE
        BY <1>3, <1>9, <2>4
      <3> QED
        BY <1>1, <1>3, <1>9, <2>2, <2>3, <2>4, <3>1, <3>2, AskedStory
    <2>5. Story'
      BY <2>4 DEF Story
    <2> QED
      BY <1>5, <1>9, <2>1, <2>2, <2>3, <2>5, NextAsked
  \* Nobody asks for the video: one is on already, or a choice led to it.
  <1>10. CASE /\ episode[i].type = "cut" /\ plan' = [plan EXCEPT !.file = i]
              /\ Goto(run.back) /\ ep' = e /\ UNCHANGED gui
              /\ gui.cur \notin {MAIN, ENDLEVEL, GAMEPLAY, CD_SWITCH, VIDEO3}
    <2>1. PlanType' /\ plan'.file = i /\ plan'.game = plan.game
      BY <1>2, <1>10 DEF PlanType
    <2>2. RunType' /\ Went(run.back)
      BY <1>10, GotoOk DEF RunType
    <2>3. TypeOK'
      BY <1>5, <1>10, <2>1, <2>2 DEF GuiType, LvlType, RestType, DiskType, NextType
    <2>4. Control'
      BY <1>10, <2>2 DEF Went, Control, Disk, Requests, Callers, Loads, Inside, Between, Video,
                         Multi, GuiType
    <2>5. Worlds'
      BY <1>10, <2>2 DEF Went, Worlds, Inside, Control, Callers
    <2>6. Started' /\ Games'
      BY <1>5, <1>10, <2>1 DEF Started, Games, GameOK
    <2>7. Story'
      <3>1. ASSUME ~slipped PROVE lvl.world = NONE /\ e.ent2 = e.idx
        BY <1>3, <1>10, <3>1
      <3>2. ~slipped => Current' /\ InGame' /\ Watched' /\ Called'
        BY <1>1, <1>10, <2>2, <3>1 DEF Went, Current, InGame, Watched, Called, Video, Control,
                                       Callers
      <3>3. ~slipped => Due'
        BY <1>1, <1>10, <2>1, <2>2, <3>1 DEF Went, Due, IsCut, Opens, Control, Callers, Requests,
                                             Inside, Between, Video, Worlds
      <3> QED
        BY <3>2, <3>3 DEF Story
    <2> QED
      BY <2>3, <2>4, <2>5, <2>6, <2>7
  <1> QED
    BY <1>4, <1>6, <1>7, <1>8, <1>9, <1>10

LEMMA StartNextKeeps == ASSUME Inv, StartNext PROVE Inv'
  <1>1. UNCHANGED <<episode, net, lvl, disk, slipped>> /\ run.at = "startNext"
    BY DEF StartNext
  <1>2. \/ /\ Ask(IF episode[Advance.ent].gotoA = NONE THEN CREDITS ELSE MAIN)
           /\ ep' = Advance /\ Goto(run.back) /\ UNCHANGED plan
        \/ \E mode \in {MAIN, CD_SWITCH, ENDLEVEL} :
              Ask(mode) /\ ep' = Advance /\ Goto(run.back) /\ UNCHANGED plan
        \/ /\ Advance.ent2 # NONE /\ SameLevel(Advance)
           /\ ~(episode[Advance.ent2].type = "cut" /\ gui.cur = GAMEPLAY)
           /\ Reverify([Advance EXCEPT !.loading = TRUE])
    BY DEF StartNext, Advance
  <1>3. CASE \E mode \in {CREDITS, MAIN, CD_SWITCH, ENDLEVEL} :
                Ask(mode) /\ ep' = Advance /\ Goto(run.back) /\ UNCHANGED plan
    BY <1>1, <1>3, AskedAsItIs
  <1> QED
    BY <1>1, <1>2, <1>3, ReverifyKeeps

-------------------------------------------------------------------------------
(* The theorems *)

\* The titles are shown, no level is open, and no game is saved.
LEMMA InvInit == Init => Inv
  <1> SUFFICES ASSUME Init PROVE Inv
    OBVIOUS
  <1> USE TypesOk DEF Init
  <1>1. 1 \in DOMAIN episode
    BY EntriesOk
  <1>2. TypeOK
    <2>1. GuiType /\ RunType
      BY DEF GuiType, RunType, At, Modes, Phases
    <2>2. EpType /\ PlanType
      BY <1>1 DEF EpType, PlanType
    <2>3. LvlType /\ RestType
      BY DEF LvlType, NoLevel, RestType, Single
    <2>4. DiskType /\ NextType
      BY DEF DiskType, NextType, At
    <2> QED
      BY <2>1, <2>2, <2>3, <2>4
  <1>3. Disk
    BY DEF Disk
  <1>4. Requests /\ Callers /\ Loads
    BY DEF Requests, Callers, Loads, Inside, At
  <1>5. Worlds /\ Started
    BY DEF Worlds, Started, Playing, Inside, At, NoLevel
  <1>6. Games
    BY DEF Games
  <1>7. Story
    BY DEF Story, Current, InGame, Due, Watched, Called, Video, At, NoLevel
  <1> QED
    BY <1>2, <1>3, <1>4, <1>5, <1>6, <1>7 DEF Inv, Control

\* Every action keeps it: one lemma above for each.
LEMMA InvNext == Inv /\ [Next]_vars => Inv'
  <1> SUFFICES ASSUME Inv, [Next]_vars PROVE Inv'
    OBVIOUS
  <1>1. CASE GuiAdvance
    BY <1>1, GuiAdvanceKeeps
  <1>2. CASE Leave
    BY <1>2, LeaveGameKeeps, LeaveOtherKeeps DEF Leave
  <1>3. CASE Enter
    BY <1>3, EnterKeeps
  <1>4. CASE Show
    BY <1>4, ShowOtherKeeps, ShowCdSwitchKeeps, ShowEndLevelKeeps, ShowChoiceKeeps,
       ShowGameAgainKeeps, ShowLevelKeeps, ShowSavedGameKeeps DEF Show
  <1>5. CASE Tick
    BY <1>5, TickOnceKeeps, TickGameplayKeeps, TickIdleKeeps, TickInMenuKeeps DEF Tick
  <1>6. CASE PlayedOut
    BY <1>6, PlayedOutKeeps
  <1>7. CASE StartNext
    BY <1>7, StartNextKeeps
  <1>8. CASE Menu
    BY <1>8, PlayEpisodeKeeps, PlayLevelKeeps, PlayMultiKeeps, LoadOtherKeeps, OtherMenusKeeps,
       ReturnKeeps, SaveInMenuKeeps, LoadSameKeeps, DeclineRestartKeeps DEF Menu
  <1>9. CASE EscKey
    BY <1>9, EscKeyKeeps
  <1>10. CASE Frame
    BY <1>10, CogEndLevelKeeps, SaveKeeps, DieKeeps, ProcessEndLevelKeeps, FrameEndsKeeps
       DEF Frame
  <1>11. CASE After
    BY <1>11, AfterKeeps
  <1>12. CASE UNCHANGED vars
    <2>1. UNCHANGED <<episode, net, gui, run, ep, plan, lvl, slipped>> /\ disk' = disk
      BY <1>12 DEF vars
    <2>2. Disk' /\ DiskType' /\ \A s \in disk'.saves : GameOK(s)
      BY <2>1, TypesOk DEF Inv, Control, Disk, DiskType, Games
    <2> QED
      BY <2>1, <2>2, RequestKeeps
  <1> QED
    BY <1>1, <1>2, <1>3, <1>4, <1>5, <1>6, <1>7, <1>8, <1>9, <1>10, <1>11, <1>12 DEF Next

\* The invariant, of every state of every run: the theorems that follow are parts of it.
THEOREM InvHolds == Spec => []Inv
  BY InvInit, InvNext, PTL DEF Spec

\* The state of the modes is of its type, and who asks for the next entry has one to go on
\* from: jkMain_StartNextLevelInEpisode never follows a pointer that is not set.
THEOREM ModesTyped == Spec => []TypeOK
  <1>1. Inv => TypeOK
    BY DEF Inv
  <1> QED
    BY <1>1, InvHolds, PTL

\* A level is open exactly in the game and in its menu, whatever way led there
\* (jkMain_GameplayShow, jkMain_GameplayLeave, jkMain_EscapeMenuLeave).
THEOREM WorldIsHeld == Spec => []WorldHeld
  <1>1. Inv => WorldHeld
    <2> SUFFICES ASSUME Inv, run.at \in {"tick", "menu"}, ~gui.stop
                 PROVE  /\ (lvl.world # NONE) <=> gui.cur \in {GAMEPLAY, ESCAPE}
                        /\ lvl.init <=> lvl.world # NONE
                        /\ lvl.ddraw <=> gui.cur = GAMEPLAY
                        /\ lvl.world # NONE => lvl.eight
      BY DEF WorldHeld
    <2> QED
      BY DEF Inv, Worlds, Inside
  <1> QED
    BY <1>1, InvHolds, PTL

\* No entry of an episode is passed over: jkMain_StartNextLevelInEpisode goes on only from
\* one that was presented.
THEOREM NoEntrySkipped == Spec => []NothingSkipped
  <1>1. Inv => NothingSkipped
    BY DEF Inv, Story, Called, NothingSkipped
  <1> QED
    BY <1>1, InvHolds, PTL

\* A level that has ended is played no frame longer (jkMain_EndLevel, jkCog_EndLevel).
THEOREM EndedStaysOver == Spec => EndedIsOver
  <1>1. Inv /\ [Next]_vars => [run.at \in {"tick", "menu"} /\ run'.at = "frame"
                               => ~lvl.over \/ slipped]_vars
    <2> SUFFICES ASSUME Inv, Next, run.at \in {"tick", "menu"}, run'.at = "frame"
                 PROVE  ~lvl.over \/ slipped
      BY Zenon
    <2>1. ASSUME ~gui.stop PROVE ~lvl.over \/ slipped
      BY <2>1 DEF Inv, Story, InGame, Worlds, Control, Loads, Requests, Inside
    <2>2. CASE Tick
      <3>1. CASE TickGameplay \/ TickInMenu
        BY <2>1, <3>1 DEF TickGameplay, TickInMenu
      <3>2. CASE TickOnce \/ TickIdle
        BY <3>2, GotoOk DEF TickOnce, TickIdle, Went, Phases
      <3> QED
        BY <2>2, <3>1, <3>2 DEF Tick
    <2>3. CASE PlayedOut
      BY <2>3, GotoOk DEF PlayedOut, Went, Phases
    <2>4. CASE Menu
      <3>1. CASE PlayEpisode
        BY <3>1, CallNextOk DEF PlayEpisode, Calls, Phases
      <3>2. CASE Goto("tick")
        BY <3>2, GotoOk DEF Went, Phases
      <3> QED
        BY <2>4, <3>1, <3>2, Zenon DEF Menu, PlayLevel, PlayMulti, LoadOther, OtherMenus,
           Return, SaveInMenu, LoadSame, DeclineRestart
    <2>5. CASE EscKey
      BY <2>5 DEF EscKey
    <2>6. CASE GuiAdvance \/ Leave \/ Enter \/ Show \/ StartNext \/ Frame \/ After
      BY <2>6, Zenon DEF GuiAdvance, Leave, LeaveGame, LeaveOther, Enter, Show, ShowOther,
         ShowCdSwitch, ShowEndLevel, ShowChoice, ShowGameAgain, ShowLevel, ShowSavedGame, ShowIs,
         StartNext, Frame, CogEndLevel, Save, Die, ProcessEndLevel, FrameEnds, After
    <2> QED
      BY <2>2, <2>3, <2>4, <2>5, <2>6 DEF Next
  <1> QED
    BY <1>1, InvHolds, PTL DEF Spec, EndedIsOver

==============================================================================
