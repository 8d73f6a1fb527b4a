----------------------------- MODULE MCSithMulti ------------------------------
(***************************************************************************)
(* Small instances of SithMulti: two or three players, one or two slots,   *)
(* fewer ids than connections, so that ids are given out again; a world of *)
(* one element for each stage.                                             *)
(***************************************************************************)
EXTENDS SithMulti, TLC

\* Players differ by name only.
MCSymmetry == Permutations(Clients)
=============================================================================
