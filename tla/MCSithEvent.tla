----------------------------- MODULE MCSithEvent ------------------------------
(***************************************************************************)
(* Small instances of SithEvent: a pool smaller than the number of timers, *)
(* so that it runs empty; delays that make timers due together; a clock    *)
(* that one frame may move past several of them.                           *)
(***************************************************************************)
EXTENDS SithEvent
=============================================================================
