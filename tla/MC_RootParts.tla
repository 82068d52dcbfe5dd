---------------------------- MODULE MC_RootParts ----------------------------
(* Small instances of three parts of the root daemon that share no variable: *)
(* the keyboard as a whole, the saved settings and the configuration.  Each  *)
(* is explored by itself: `chosen' names it from the start, the others rest  *)
(* in one of their initial states.                                           *)
EXTENDS KeyboardLink, StateFile, ConfigFile

VARIABLE chosen

rootVars == <<keyboardVars, fileVars, configVars, chosen>>

RootInit ==
    /\ LinkInit /\ FileInit /\ ConfigInit
    /\ chosen \in {"keyboard", "settings", "config"}
    /\ chosen # "keyboard" => plugged = NoDevice /\ ~docked /\ present = {}
    /\ chosen # "settings" => file = NoContents
    /\ chosen # "config" => options = AsShipped

(* Bounds of the keyboard: a resume is looked at with the first device, and *)
(* no battery sample is under way; MC_Parts has both without a bound.       *)
KeyboardBound ==
    /\ plugs' <= 1 \/ resume' = NoResume
    /\ ~usbAsked' /\ ~radioAsked'

RootNext ==
    \/ chosen = "keyboard" /\ LinkNext /\ KeyboardBound
       /\ UNCHANGED <<fileVars, configVars, chosen>>
    \/ chosen = "settings" /\ FileNext
       /\ UNCHANGED <<keyboardVars, configVars, chosen>>
    \/ chosen = "config" /\ ConfigNext
       /\ UNCHANGED <<keyboardVars, fileVars, chosen>>

RootSpec == RootInit /\ [][RootNext]_rootVars

(* Every part's state is what its code can make of it, and what the USB and *)
(* the Bluetooth side have told the connection state is what it holds.      *)
RootTypeOK == LinkTypeOK /\ FileTypeOK /\ ConfigTypeOK
=============================================================================
