------------------------------ MODULE MCSithThing -----------------------------
(* Three slots, of which the file of the level fills two. *)
EXTENDS SithThing
===============================================================================
