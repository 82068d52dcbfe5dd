------------------------- MODULE MC_DisplaySession -------------------------
(* DisplaySession for TLC: the constants are in the configurations. *)
EXTENDS DisplaySession
=============================================================================
