---------------------------- MODULE ResultTokens ----------------------------
(***************************************************************************)
(* How the session client learns that the display task has received an     *)
(* update, before it acknowledges the update to the root daemon.           *)
(*                                                                         *)
(* The client sends the value on a broadcast channel and waits, for some   *)
(* seconds at most, for a token on an mpsc channel.  The display task      *)
(* sends one token for each value it takes; it takes none while it         *)
(* reconciles.  A wait that has timed out leaves its token to come: nobody *)
(* takes it back, and it answers a later wait.                             *)
(*                                                                         *)
(* The keyboard's dock has one wait at a time, because the client awaits   *)
(* it; the desired state of the second panel is acknowledged at once and   *)
(* spawns a task for each wait, so that there may be several.              *)
(***************************************************************************)
EXTENDS Integers

CONSTANTS
    ValueCap,       \* slots of the broadcast channel (8 in session/mod.rs)
    TokenCap,       \* slots of the mpsc channel (8 in session/mod.rs)
    MaxWaits,       \* bound: waits under way for the second panel
    MaxUpdates      \* bound: updates in a behaviour

ASSUME TokensAssumption ==
    /\ ValueCap \in Nat \ {0} /\ TokenCap \in Nat \ {0}
    /\ MaxWaits \in Nat /\ MaxUpdates \in Nat

VARIABLES
    use,            \* which of the two it is: "dock" or "panel"
    sent,           \* updates sent to the display task, which numbers them
    inbox,          \* values it has not taken, which are the newest ones
    overrun,        \* values that were overwritten before it took them
    tokens,         \* tokens in the channel
    display,        \* the display task
    waits,          \* waits under way
    timeouts,       \* waits that have timed out
    acked           \* the newest update that was answered by a token

tokenVars == <<use, sent, inbox, overrun, tokens, display, waits, timeouts, acked>>

(* The client awaits the wait for the dock itself. *)
Limit == IF use = "dock" THEN 1 ELSE MaxWaits

TokenTypeOK ==
    /\ use \in {"dock", "panel"}
    /\ sent \in 0 .. MaxUpdates /\ inbox \in 0 .. ValueCap
    /\ overrun \in Nat /\ tokens \in 0 .. TokenCap
    /\ display \in {"free", "busy", "sending"}
    /\ waits \in 0 .. Limit /\ timeouts \in Nat
    /\ acked \in 0 .. sent

TokenInit ==
    /\ use \in {"dock", "panel"}
    /\ sent = 0 /\ inbox = 0 /\ overrun = 0 /\ tokens = 0
    /\ display = "free"
    /\ waits = 0 /\ timeouts = 0 /\ acked = 0

-----------------------------------------------------------------------------
(* apply_keyboard_pogo_update, apply_desired_secondary_update: the value is *)
(* sent and a wait begins. *)
SendUpdate ==
    /\ sent < MaxUpdates /\ waits < Limit
    /\ sent' = sent + 1
    /\ waits' = waits + 1
    /\ IF inbox < ValueCap
       THEN inbox' = inbox + 1 /\ UNCHANGED overrun
       ELSE overrun' = overrun + 1 /\ UNCHANGED inbox
    /\ UNCHANGED <<use, tokens, display, timeouts, acked>>

(* wait_for_internal_ack: a token, whoever it was meant for. *)
WaitEnds ==
    /\ waits > 0 /\ tokens > 0
    /\ tokens' = tokens - 1
    /\ waits' = waits - 1
    /\ acked' = sent
    /\ UNCHANGED <<use, sent, inbox, overrun, display, timeouts>>

WaitTimesOut ==
    /\ waits > 0 /\ tokens = 0
    /\ waits' = waits - 1
    /\ timeouts' = timeouts + 1
    /\ UNCHANGED <<use, sent, inbox, overrun, tokens, display, acked>>

-----------------------------------------------------------------------------
(* Fault: the token is sent when the reconcile that the value asks for      *)
(* begins, and the one that was running has sent it already.                *)
Reconciles_SendsToken ==
    /\ \/ display = "free" /\ display' = "busy" /\ UNCHANGED tokens
       \/ /\ display = "busy" /\ display' = "free"
          /\ tokens' = IF tokens < TokenCap THEN tokens + 1 ELSE tokens
    /\ UNCHANGED <<use, sent, inbox, overrun, waits, timeouts, acked>>

(* The display task is in the middle of a reconcile, and takes no value. *)
Reconciles ==
    /\ \/ display = "free" /\ display' = "busy"
       \/ display = "busy" /\ display' = "free"
    /\ UNCHANGED <<use, sent, inbox, overrun, tokens, waits, timeouts, acked>>

(* A branch of the select loop of display::run: the value is stored, and    *)
(* the token is sent, which waits while the channel is full.                *)
TakeValue ==
    /\ display = "free" /\ inbox > 0
    /\ inbox' = inbox - 1
    /\ IF tokens < TokenCap
       THEN tokens' = tokens + 1 /\ UNCHANGED display
       ELSE display' = "sending" /\ UNCHANGED tokens
    /\ UNCHANGED <<use, sent, overrun, waits, timeouts, acked>>

TokenIsSent ==
    /\ display = "sending" /\ tokens < TokenCap
    /\ tokens' = tokens + 1
    /\ display' = "free"
    /\ UNCHANGED <<use, sent, inbox, overrun, waits, timeouts, acked>>

TokenNext ==
    \/ SendUpdate \/ WaitEnds \/ WaitTimesOut
    \/ Reconciles \/ TakeValue \/ TokenIsSent

TokenSpec == TokenInit /\ [][TokenNext]_tokenVars

-----------------------------------------------------------------------------
Stuck == IF display = "sending" THEN 1 ELSE 0

(* Only waits that timed out leave tokens behind, one each at most.  So the *)
(* display task can hang on a full channel only after as many timeouts as   *)
(* the channel has slots; it then hangs until the next update.              *)
TokensAreTimeouts ==
    /\ tokens + inbox + Stuck <= timeouts + waits
    /\ display = "sending" /\ tokens = TokenCap => timeouts + waits > TokenCap

(* Until a wait times out, the root daemon is told of an update only when   *)
(* the display task has taken it.                                           *)
AcksAreEarned ==
    use = "dock" /\ timeouts = 0 => acked <= sent - inbox
=============================================================================
