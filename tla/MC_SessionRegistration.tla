----------------------- MODULE MC_SessionRegistration -----------------------
(* Small instances of SessionRegistration; the configuration chooses the bounds. *)
EXTENDS SessionRegistration, TLC
=============================================================================
