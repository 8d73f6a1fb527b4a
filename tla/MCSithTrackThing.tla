--------------------------- MODULE MCSithTrackThing ---------------------------
(* A path of three frames that turns, and comes back half of the way. *)
EXTENDS SithTrackThing

MCFrames == <<[place |-> 0, face |-> "north"], [place |-> 2, face |-> "east"],
              [place |-> 1, face |-> "east"]>>

\* Alone, what is not synchronized comes before, between and after three commands; with
\* a client there are two commands, or one and something else.
MCBudgets ==
    {[link |-> ALONE, commands |-> 3, others |-> 1]} \cup
    [link : {IN_ORDER, ANY_ORDER}, commands : {2}, others : {0}] \cup
    [link : {IN_ORDER, ANY_ORDER}, commands : {1}, others : {1}]
===============================================================================
