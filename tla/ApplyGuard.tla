----------------------------- MODULE ApplyGuard -----------------------------
(***************************************************************************)
(* The root daemon's budget for display applies (DisplayApplyGuard).       *)
(*                                                                         *)
(* Every attempt raises a counter.  An admitted attempt also starts a 5 s  *)
(* timer that lowers it again; the attempt that exceeds the maximum is     *)
(* refused, starts no timer and pauses the guard until an administrator    *)
(* resumes it.  Resuming clears the counter, while the timers of the       *)
(* attempts admitted before keep running.                                  *)
(*                                                                         *)
(* All timers have the same length, so they fire in the order they were    *)
(* started: those started before the last resume fire first.               *)
(***************************************************************************)
EXTENDS Integers

CONSTANTS
    MaxAttempts,    \* DISPLAY_APPLY_GUARD_MAX_ATTEMPTS (15)
    MaxDecays       \* bound: timers running at once

ASSUME GuardAssumption == MaxAttempts \in Nat /\ MaxDecays \in Nat

VARIABLES
    attempts,       \* DisplayApplyGuard.attempts
    paused,         \* DisplayApplyGuard.paused
    decays,         \* timers running: attempts admitted in the last 5 s
    stale           \* of these, the ones started before the last resume

guardVars == <<attempts, paused, decays, stale>>

GuardTypeOK ==
    /\ attempts \in Nat /\ paused \in BOOLEAN
    /\ decays \in Nat /\ stale \in 0..decays

GuardInit == attempts = 0 /\ paused = FALSE /\ decays = 0 /\ stale = 0

(* Fault: the counter is raised without a look at the maximum. *)
Admit_NoMax ==
    /\ ~paused
    /\ decays < MaxDecays
    /\ attempts' = attempts + 1
    /\ decays' = decays + 1
    /\ UNCHANGED <<paused, stale>>

(* register_display_apply_attempt of the registered session: the answer *)
(* is `true' for Admit and `false' for the other two. *)
Admit ==
    /\ ~paused /\ attempts < MaxAttempts
    /\ decays < MaxDecays
    /\ attempts' = attempts + 1
    /\ decays' = decays + 1
    /\ UNCHANGED <<paused, stale>>

Exceed ==
    /\ ~paused /\ attempts >= MaxAttempts
    /\ attempts' = attempts + 1
    /\ paused' = TRUE
    /\ UNCHANGED <<decays, stale>>

RefusePaused == paused /\ UNCHANGED guardVars

(* Fault: pausing alone is undone. *)
Resume_KeepsAttempts ==
    /\ paused' = FALSE
    /\ stale' = decays
    /\ UNCHANGED <<attempts, decays>>

(* resume_display_applies *)
Resume ==
    /\ attempts' = 0 /\ paused' = FALSE
    /\ stale' = decays
    /\ UNCHANGED decays

(* Fault: the subtraction does not saturate. *)
Decay_NotSaturating ==
    /\ decays > 0
    /\ decays' = decays - 1
    /\ stale' = IF stale > 0 THEN stale - 1 ELSE 0
    /\ attempts' = attempts - 1
    /\ UNCHANGED paused

(* A timer's 5 s are over: saturating_sub(1), whatever it counted for. *)
Decay ==
    /\ decays > 0
    /\ decays' = decays - 1
    /\ stale' = IF stale > 0 THEN stale - 1 ELSE 0
    /\ attempts' = IF attempts > 0 THEN attempts - 1 ELSE 0
    /\ UNCHANGED paused

(* The root daemon starts again. *)
GuardRestart ==
    /\ attempts' = 0 /\ paused' = FALSE /\ decays' = 0 /\ stale' = 0

GuardNext ==
    Admit \/ Exceed \/ RefusePaused \/ Resume \/ Decay \/ GuardRestart

GuardSpec == GuardInit /\ [][GuardNext]_guardVars

-----------------------------------------------------------------------------
(* The budget does not leak: an attempt that still counts has a timer that *)
(* will take it off, except the one that paused the guard, which only a    *)
(* resume takes off.  So an idle guard that is not paused is back at zero, *)
(* whatever resumes and refusals went before.                              *)
BudgetNotLeaked == attempts <= decays + (IF paused THEN 1 ELSE 0)

(* The counter never runs away: a guard that is not paused is within the   *)
(* maximum.                                                                *)
WithinMaximum == attempts <= MaxAttempts + (IF paused THEN 1 ELSE 0)

(* dbus_state.rs:24: "Budget for apply attempts in a rolling window": the  *)
(* attempts admitted in the last 5 s, counting from the last resume, are   *)
(* at most the maximum.                                                    *)
BudgetInWindow == decays - stale <= MaxAttempts
=============================================================================
