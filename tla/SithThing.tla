------------------------------- MODULE SithThing ------------------------------
(***************************************************************************)
(* The things of a level (World/sithThing.c): the slots they live in, the  *)
(* stack of free slots, removal that waits for the next tick, and the      *)
(* lists of things that ride on other things.                              *)
(*                                                                         *)
(* Freeing a thing, or detaching it, sends EXITED to the script of what it *)
(* leaves, before anything has changed.  The handler may create, remove,   *)
(* attach and detach things again, so what the interrupted functions have  *)
(* still to do when it returns is part of the state.  Other messages       *)
(* (REMOVED, ENTERED, CREATED) are the last thing a function does, and     *)
(* what their handlers do is a step of its own.                            *)
(***************************************************************************)
EXTENDS Integers, Sequences, SequencesExt

CONSTANTS
    NumThingsLoaded, \* how many slots the level has
    LevelThings,     \* how many of them its file fills
    ScanLength,      \* 12: how many slots are looked at when none is free
    MaxVerbs,        \* bound on the operations that scripts and the game call
    MaxCalls         \* bound on how deep handlers interrupt each other

Slots == 0 .. NumThingsLoaded - 1
NONE == -1

ASSUME ThingAssumption ==
    /\ NumThingsLoaded \in Nat \ {0} /\ LevelThings \in 0 .. NumThingsLoaded
    /\ ScanLength \in Nat /\ MaxVerbs \in Nat /\ MaxCalls \in Nat

FREE == "free"     \* SITH_THING_FREE
LASTING == "lasting"
BRIEF == "brief"   \* DEBRIS and PARTICLE: they have lifeLeftMs and make room for others
Kinds == {LASTING, BRIEF}

VARIABLES
    thing,     \* sithWorld_pCurrentWorld->things
    numThings, \* the highest slot in use, -1 if there is none
    pool,      \* sithNet_things: the free slots, a stack
    signature, \* sithThing_bInitted2, the signature of the next thing
    at,        \* where sithThing_TickAll is, NONE between two frames
    calls,     \* the functions that wait for a handler, innermost last
    verbs      \* how many operations may still be called

\* What the code does not record; only the properties read them.
VARIABLES
    twice,     \* a slot was freed by a handler of its own freeing
    crossed,   \* a handler attached or detached the very thing that was being detached
    orphaned   \* slots that were freed with things on them

ghosts == <<twice, crossed, orphaned>>
vars == <<thing, numThings, pool, signature, at, calls, verbs, ghosts>>

\* removed: SITH_TF_WILLBEREMOVED; on: attachedThing; first: attachedParentMaybe, the last
\* thing that was attached to this one; next, prev: childThing, parentThing
NewThing(kind, sig) == [type |-> kind, removed |-> FALSE, sig |-> sig, inSector |-> TRUE,
                        on |-> NONE, first |-> NONE, next |-> NONE, prev |-> NONE]
Unused == [NewThing(FREE, 0) EXCEPT !.inSector = FALSE]

Used(s) == thing[s].type # FREE

-------------------------------------------------------------------------------
(* The lists *)

\* sithThing_LandThing, AttachThing
Link(things, r, c) ==
    LET head == things[c].first
        a == [things EXCEPT ![r].on = c, ![r].next = head]
        b == IF head = NONE THEN a ELSE [a EXCEPT ![head].prev = r]
    IN [b EXCEPT ![r].prev = NONE, ![c].first = r]

\* bug: the list keeps its way back
UnlinkOneWay(things, r, c) ==
    LET p == things[r].prev
        n == things[r].next
        a == IF p = NONE THEN [things EXCEPT ![c].first = n] ELSE [things EXCEPT ![p].next = n]
    IN [a EXCEPT ![r].on = NONE, ![r].next = NONE, ![r].prev = NONE]

\* The end of sithThing_DetachThing: c is what r was on before the handler ran.
Unlink(things, r, c) ==
    LET p == things[r].prev
        n == things[r].next
        a == IF p = NONE THEN [things EXCEPT ![c].first = n] ELSE [things EXCEPT ![p].next = n]
        b == IF n = NONE THEN a ELSE [a EXCEPT ![n].prev = p]
    IN [b EXCEPT ![r].on = NONE, ![r].next = NONE, ![r].prev = NONE]

-------------------------------------------------------------------------------
(* The functions that wait *)

DetachCall(r) == [fn |-> "Detach", thing |-> r, from |-> thing[r].on]
LeaveCall(s) == [fn |-> "Leave", thing |-> s]
FreeCall(s, pc) == [fn |-> "Free", thing |-> s, pc |-> pc]
AttachCall(r, c) == [fn |-> "Attach", thing |-> r, to |-> c]
ShedCall(r) == [fn |-> "Shed", next |-> r]
ScanCall(i) == [fn |-> "Scan", next |-> i]

\* EXITED is being handled.
InHandler == calls # <<>> /\ Last(calls).fn \in {"Detach", "Leave"}

Among(fns, r, cs) == \E i \in DOMAIN cs : cs[i].fn \in fns /\ cs[i].thing = r
Busy(r, cs) == Among({"Detach", "Attach", "Free"}, r, cs)

Continue(call) == calls' = Append(Front(calls), call)
CallFrom(call, callee) == calls' = Append(Append(Front(calls), call), callee)
End == calls' = Front(calls)

\* bug: the slot stays on the stack
TakenNotPopped(kind) ==
    LET s == Last(pool) IN
    /\ numThings' = IF numThings < s THEN s ELSE numThings
    /\ thing' = [thing EXCEPT ![s] = NewThing(kind, signature)]
    /\ signature' = signature + 1
    /\ UNCHANGED pool

\* sithThing_CreateThingOfType: the slot is the one on top, which it leaves.
Taken(kind) ==
    LET s == Last(pool) IN
    /\ pool' = Front(pool)
    /\ numThings' = IF numThings < s THEN s ELSE numThings
    /\ thing' = [thing EXCEPT ![s] = NewThing(kind, signature)]
    /\ signature' = signature + 1

-------------------------------------------------------------------------------
(* Operations, called by scripts, by the things that are ticked and by messages *)

Verb ==
    /\ calls = <<>> \/ InHandler
    /\ verbs > 0 /\ verbs' = verbs - 1

Create(kind) ==
    /\ Verb
    /\ IF pool # <<>>
       THEN Taken(kind) /\ UNCHANGED calls
       ELSE /\ kind = LASTING /\ Len(calls) < MaxCalls
            /\ calls' = Append(calls, ScanCall(0))
            /\ UNCHANGED <<thing, numThings, pool, signature>>
    /\ UNCHANGED <<at, ghosts>>

\* sithThing_Destroy, sithThing_Remove
Destroy(s) ==
    /\ Verb
    /\ Used(s) /\ ~thing[s].removed
    /\ thing' = [thing EXCEPT ![s].removed = TRUE]
    /\ UNCHANGED <<numThings, pool, signature, at, calls, ghosts>>

Attach(r, c) ==
    /\ Verb
    /\ r # c /\ Used(r) /\ Used(c) /\ thing[r].on # c
    /\ IF thing[r].on = NONE
       THEN thing' = Link(thing, r, c) /\ UNCHANGED calls
       ELSE /\ Len(calls) < MaxCalls
            /\ calls' = Append(Append(calls, AttachCall(r, c)), DetachCall(r))
            /\ UNCHANGED thing
    /\ crossed' = (crossed \/ Busy(r, calls))
    /\ UNCHANGED <<numThings, pool, signature, at, twice, orphaned>>

Detach(r) ==
    /\ Verb
    /\ Used(r) /\ thing[r].on # NONE /\ Len(calls) < MaxCalls
    /\ calls' = Append(calls, DetachCall(r))
    /\ crossed' = (crossed \/ Busy(r, calls))
    /\ UNCHANGED <<thing, numThings, pool, signature, at, twice, orphaned>>

\* sithThing_detachallchildren
Shed(c) ==
    /\ Verb
    /\ Used(c) /\ thing[c].first # NONE /\ Len(calls) < MaxCalls
    /\ calls' = Append(calls, ShedCall(thing[c].first))
    /\ UNCHANGED <<thing, numThings, pool, signature, at, ghosts>>

-------------------------------------------------------------------------------
(* What the functions do when their handlers have returned *)

\* The end of sithThing_DetachThing and sithThing_LeaveSector
Return ==
    /\ InHandler
    /\ LET call == Last(calls) IN
       thing' = IF call.fn = "Detach" THEN Unlink(thing, call.thing, call.from)
                ELSE [thing EXCEPT ![call.thing].inSector = FALSE]
    /\ End
    /\ UNCHANGED <<numThings, pool, signature, at, verbs, ghosts>>

\* sithThing_FreeEverything
FreeLeaves(s) ==
    /\ IF thing[s].on # NONE
       THEN /\ CallFrom(FreeCall(s, "leave"), DetachCall(s))
            /\ crossed' = (crossed \/ Busy(s, Front(calls)))
       ELSE Continue(FreeCall(s, "leave")) /\ UNCHANGED crossed
    /\ UNCHANGED <<thing, numThings, pool, orphaned>>

FreeExits(s) ==
    /\ IF thing[s].inSector THEN CallFrom(FreeCall(s, "free"), LeaveCall(s))
       ELSE Continue(FreeCall(s, "free"))
    /\ UNCHANGED <<thing, numThings, pool, crossed, orphaned>>

\* bug: the slot below, whether it is in use or not
JustBelow(s) == s - 1

\* the end of sithThing_FreeEverythingNet
HighestBelow(s) ==
    LET used == {u \in Slots : u < s /\ Used(u)} IN
    IF used = {} THEN NONE ELSE CHOOSE u \in used : \A v \in used : v <= u
\* bug: the wrong one of two numbers goes on the stack
FreeEndsHighest(s) ==
    /\ thing' = [thing EXCEPT ![s].type = FREE, ![s].sig = 0]
    /\ numThings' = IF s = numThings THEN HighestBelow(s) ELSE numThings
    /\ pool' = Append(pool, numThings')
    /\ End
    /\ UNCHANGED <<crossed, orphaned>>

FreeEnds(s) ==
    /\ thing' = [thing EXCEPT ![s].type = FREE, ![s].sig = 0]
    /\ numThings' = IF s = numThings THEN HighestBelow(s) ELSE numThings
    /\ pool' = Append(pool, s)
    /\ End
    /\ orphaned' = IF \/ thing[s].first # NONE
                      \/ \E i \in DOMAIN calls : calls[i].fn = "Attach" /\ calls[i].to = s
                   THEN orphaned \cup {s} ELSE orphaned
    /\ UNCHANGED crossed

GoFree ==
    /\ calls # <<>> /\ Last(calls).fn = "Free"
    /\ LET s == Last(calls).thing
           pc == Last(calls).pc
       IN \/ pc = "detach" /\ FreeLeaves(s)
          \/ pc = "leave" /\ FreeExits(s)
          \/ pc = "free" /\ FreeEnds(s)
    /\ UNCHANGED <<signature, at, verbs, twice>>

GoAttach ==
    /\ calls # <<>> /\ Last(calls).fn = "Attach"
    /\ thing' = Link(thing, Last(calls).thing, Last(calls).to)
    /\ End
    /\ UNCHANGED <<numThings, pool, signature, at, verbs, ghosts>>

\* sithThing_detachallchildren: the next one is read before the detaching.
GoShed ==
    /\ calls # <<>> /\ Last(calls).fn = "Shed"
    /\ LET r == Last(calls).next IN
       IF r = NONE THEN End /\ UNCHANGED crossed
       ELSE IF thing[r].on = NONE THEN Continue(ShedCall(thing[r].next)) /\ UNCHANGED crossed
       ELSE CallFrom(ShedCall(thing[r].next), DetachCall(r))
            /\ crossed' = (crossed \/ Busy(r, calls))
    /\ UNCHANGED <<thing, numThings, pool, signature, at, verbs, twice, orphaned>>

\* bug: the test is inverted
RemovableInverted(t) == t.removed \/ t.type # BRIEF

\* sithThing_CreateThingOfType when no slot is free
Removable(t) == t.removed \/ t.type = BRIEF
GoScan ==
    /\ calls # <<>> /\ Last(calls).fn = "Scan"
    /\ LET i == Last(calls).next IN
       IF i \notin Slots \/ i >= ScanLength
       THEN /\ End /\ UNCHANGED twice
            /\ IF pool = <<>> THEN UNCHANGED <<thing, numThings, pool, signature>>
               ELSE Taken(LASTING)
       ELSE /\ IF Removable(thing[i])
               THEN /\ CallFrom(ScanCall(i + 1), FreeCall(i, "detach"))
                    /\ twice' = (twice \/ Among({"Free"}, i, calls))
               ELSE Continue(ScanCall(i + 1)) /\ UNCHANGED twice
            /\ UNCHANGED <<thing, numThings, pool, signature>>
    /\ UNCHANGED <<at, verbs, crossed, orphaned>>

\* bug: the last thing is passed over
TickAllShort ==
    /\ calls = <<>>
    /\ at' = IF at < numThings - 1 THEN at + 1 ELSE NONE
    /\ calls' = IF at' # NONE /\ Used(at') /\ thing[at'].removed
                THEN <<FreeCall(at', "detach")>> ELSE <<>>
    /\ UNCHANGED <<thing, numThings, pool, signature, verbs, ghosts>>

\* sithThing_TickAll.  What a thing does when it is ticked are operations.
TickAll ==
    /\ calls = <<>>
    /\ at' = IF at < numThings THEN at + 1 ELSE NONE
    /\ calls' = IF at' # NONE /\ Used(at') /\ thing[at'].removed
                THEN <<FreeCall(at', "detach")>> ELSE <<>>
    /\ UNCHANGED <<thing, numThings, pool, signature, verbs, ghosts>>

-------------------------------------------------------------------------------

\* sithThing_Load, sithThing_sub_4CCE60
Init ==
    /\ thing = [s \in Slots |-> IF s < LevelThings THEN NewThing(LASTING, s + 1) ELSE Unused]
    /\ numThings = LevelThings - 1
    /\ pool = [i \in 1 .. NumThingsLoaded - LevelThings |-> NumThingsLoaded - i]
    /\ signature = LevelThings + 1
    /\ at = NONE /\ calls = <<>> /\ verbs = MaxVerbs
    /\ twice = FALSE /\ crossed = FALSE /\ orphaned = {}

Next ==
    \/ \E kind \in Kinds : Create(kind)
    \/ \E s \in Slots : Destroy(s) \/ Detach(s) \/ Shed(s) \/ \E c \in Slots : Attach(s, c)
    \/ Return \/ GoFree \/ GoAttach \/ GoShed \/ GoScan
    \/ TickAll

Spec == Init /\ [][Next]_vars

\* Frames keep coming, and handlers return.
Fairness ==
    /\ WF_vars(Return) /\ WF_vars(GoFree \/ GoAttach \/ GoShed \/ GoScan)
    /\ WF_vars(TickAll)
FairSpec == Spec /\ Fairness

-------------------------------------------------------------------------------
(* Properties *)

SlotOrNone == Slots \cup {NONE}
Things == [type : Kinds \cup {FREE}, removed : BOOLEAN, sig : Nat,
           inSector : BOOLEAN, on : SlotOrNone, first : SlotOrNone, next : SlotOrNone,
           prev : SlotOrNone]

Calls == [fn : {"Detach"}, thing : Slots, from : Slots]
    \cup [fn : {"Leave"}, thing : Slots]
    \cup [fn : {"Free"}, thing : Slots, pc : {"detach", "leave", "free"}]
    \cup [fn : {"Attach"}, thing : Slots, to : Slots]
    \cup [fn : {"Shed"}, next : SlotOrNone]
    \cup [fn : {"Scan"}, next : Nat]

\* Types: also that a function that waits has something to go on with.
TypeOK ==
    /\ thing \in [Slots -> Things]
    /\ numThings \in SlotOrNone /\ at \in SlotOrNone
    /\ pool \in Seq(Slots)
    /\ signature \in Nat /\ verbs \in 0 .. MaxVerbs
    /\ calls \in Seq(Calls)
    /\ twice \in BOOLEAN /\ crossed \in BOOLEAN /\ orphaned \subseteq Slots

\* Every free slot is on the stack, once, and no slot in use is, also while handlers
\* interrupt each other; but for a slot that is freed in a handler of its own freeing.
PoolExact == ~twice =>
    /\ \A s \in Slots : (\E i \in DOMAIN pool : pool[i] = s) <=> ~Used(s)
    /\ IsInjective(pool)

\* numThings is the highest slot in use: TickAll and GetById pass over no thing.
HighWater ==
    /\ \A s \in Slots : Used(s) => s <= numThings
    /\ numThings # NONE => Used(numThings)

\* A thing that nobody removed keeps its slot: only what is to be removed, or is brief,
\* makes room, whoever asks for it and whatever handlers do.
LivingStays == [][twice' \/ \A s \in Slots :
    Used(s) /\ thing'[s].sig # thing[s].sig => thing[s].removed \/ thing[s].type = BRIEF]_vars

\* What rides on a thing is in the list of that thing, and the list holds nothing else;
\* but for a handler of EXITED that attaches or detaches the very thing it hears about,
\* and for a thing that is freed with others on it, which nobody detaches.
Riders(c) == {r \in Slots : Used(r) /\ thing[r].on = c}
ListsSound == ~twice /\ ~crossed => \A c \in Slots \ orphaned :
    /\ thing[c].first = NONE <=> Riders(c) = {}
    /\ \A r \in Riders(c) :
          /\ r = thing[c].first <=> thing[r].prev = NONE
          /\ thing[r].prev # NONE => thing[r].prev \in Riders(c) /\ thing[thing[r].prev].next = r
          /\ thing[r].next # NONE => thing[r].next \in Riders(c) /\ thing[thing[r].next].prev = r

\* What is to be removed is gone in the end.
RemovedGoes == \A s \in Slots : []<>~(Used(s) /\ thing[s].removed)
===============================================================================
