--------------------------- MODULE MC_ApplyGuard ---------------------------
(* Small instances of ApplyGuard; the configuration chooses the bounds. *)
EXTENDS ApplyGuard
=============================================================================
