--------------------------- MODULE DurableSetting ---------------------------
(***************************************************************************)
(* What a setting promises that is changed in memory at once and written   *)
(* to a file a little later: the file takes the values in the order in     *)
(* which they were chosen, so a crash goes back to a value that was        *)
(* current once, and never to one older than a value it had reached.       *)
(* Storage that may fail keeps the old value, or loses it for a default.   *)
(***************************************************************************)
EXTENDS Sequences

CONSTANTS
    Values,
    Default,    \* what a file without the value stands for
    MayFail     \* whether the storage may fail

VARIABLES
    value,      \* the value in memory
    saved,      \* the value in the file
    pending     \* the values on their way to the file, oldest first

settingVars == <<value, saved, pending>>

Init ==
    /\ value \in Values
    /\ saved = value
    /\ pending = <<>>

Choose(v) ==
    /\ v # value
    /\ value' = v
    /\ pending' = Append(pending, v)
    /\ UNCHANGED saved

Save ==
    /\ pending # <<>>
    /\ saved' = Head(pending)
    /\ pending' = Tail(pending)
    /\ UNCHANGED value

(* The value does not get to the file; later ones may. *)
SaveFails ==
    /\ MayFail /\ pending # <<>>
    /\ pending' = Tail(pending)
    /\ UNCHANGED <<value, saved>>

(* The file loses the value. *)
Forget ==
    /\ MayFail
    /\ saved' = Default
    /\ UNCHANGED <<value, pending>>

Crash ==
    /\ value' = saved
    /\ pending' = <<>>
    /\ UNCHANGED saved

(* The file cannot be read after a crash, or loses the value meanwhile. *)
CrashAndForget ==
    /\ MayFail
    /\ value' \in {saved, Default} /\ saved' \in {saved, Default}
    /\ pending' = <<>>

Next ==
    \/ \E v \in Values : Choose(v)
    \/ Save \/ SaveFails \/ Forget \/ Crash \/ CrashAndForget

Spec == Init /\ [][Next]_settingVars
=============================================================================
