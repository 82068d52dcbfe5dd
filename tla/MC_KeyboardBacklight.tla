------------------------ MODULE MC_KeyboardBacklight ------------------------
(* Small instances of KeyboardBacklight; the configurations choose the bounds. *)
EXTENDS KeyboardBacklight
=============================================================================
