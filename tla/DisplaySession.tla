--------------------------- MODULE DisplaySession ---------------------------
(***************************************************************************)
(* The display task of the session daemon (session/display.rs).            *)
(*                                                                         *)
(* Its select loop turns signals about the inputs of the layout into one   *)
(* debounced reconcile, which asks the root for a permit and applies the   *)
(* layout through Mutter.  While a reconcile runs the loop takes nothing   *)
(* else: signals wait in their channels.  A reconcile that fails leaves a  *)
(* recovery campaign behind, a task of its own that tries again every      *)
(* second; the next reconcile aborts it.  The mutex apply_serial keeps     *)
(* the two apart, and the flag apply_busy tells the watcher of Mutter's    *)
(* MonitorsChanged that a layout it sees is not one the user chose.        *)
(*                                                                         *)
(* The executor has one thread: an action is what runs between two awaits. *)
(* An aborted task is dropped when the executor polls it next, not at the  *)
(* call of abort.  desired_primary is handled as desired_secondary is, and *)
(* `want' stands for both.  Layouts with external monitors, the heal of a  *)
(* wedged Mutter and the first phase of a primary change are left out.     *)
(***************************************************************************)
EXTENDS Integers, Sequences

CONSTANTS
    Turns,          \* orientations of the machine
    Cap,            \* slots of each broadcast channel (8 in the code)
    MaxDeep,        \* changed reconciles in a row before the quiet minute (20)
    MaxAttempts,    \* attempts of a recovery campaign (20)
    MaxDisturbances \* bound on what the environment does to the task

ASSUME BoundsAssumption ==
    /\ Turns # {}
    /\ Cap \in Nat \ {0} /\ MaxDeep \in Nat \ {0} /\ MaxAttempts \in Nat \ {0}
    /\ MaxDisturbances \in Nat

VARIABLES
    want, kb,       \* desired_secondary, keyboard_pogo_docked (both shared)
    kbKnown,        \* keyboard_state_initialized
    turn,           \* the orientation sensor
    mode,           \* the display mode the root keeps
    wants, docks,   \* values in desired_secondary_rx and kb_rx
    turned,         \* orient_rx: how many it holds, and whether it lost some
    nudges,         \* how many availability_rx holds
    deadline,       \* debounce_deadline is set
    deep,           \* delayed_reconciles_deepness
    followup,       \* changed_apply_waiting_followup
    quiet,          \* quiet_until: none, in the future, in the past
    job,            \* the reconcile and the recovery campaign
    busy, serial,   \* apply_busy, the holder of apply_serial
    available,      \* the second panel is powered: Mutter has modes for it
    layout,         \* Mutter's layout
    changed,        \* a MonitorsChanged has not been received
    watcher,        \* subscribe_monitors_changed
    disturbances,
    verdict,        \* history: how the last apply ended
    missed,         \* history: a signal was dropped, or the sensor did not
                    \* answer, since the inputs were last read
    streak,         \* history: reconciles in a row that changed the layout
    lagged          \* history: one of these was scheduled without being counted

inputs == <<want, kb, kbKnown, turn, mode>>
channels == <<wants, docks, turned, nudges>>
loop == <<deadline, deep, followup, quiet>>
apply == <<job, busy, serial>>
mutter == <<available, layout, changed>>
history == <<verdict, missed, streak, lagged>>
vars == <<inputs, channels, loop, apply, mutter, watcher, disturbances, history>>

Modes == {"joined", "mirror"}
Jobs == {"reconcile", "recovery"}
Goals == [kb : BOOLEAN, want : BOOLEAN, turn : Turns, mode : Modes, there : BOOLEAN]
Layouts == {l \in [panel : BOOLEAN, mirrored : BOOLEAN, turn : Turns] :
               l.mirrored => l.panel}
LayoutsWith(there) == {l \in Layouts : l.panel => there}

AnyTurn == CHOOSE t \in Turns : TRUE
NoGoal == [kb |-> FALSE, want |-> FALSE, turn |-> AnyTurn, mode |-> "joined",
           there |-> FALSE]
Job(pc) == [pc |-> pc, attempt |-> 0, pass |-> 0, goal |-> NoGoal]
NoJob == Job("none")
NotWatching == [pc |-> "wait", seen |-> "joined"]

TypeOK ==
    /\ want \in BOOLEAN /\ kb \in BOOLEAN /\ kbKnown \in BOOLEAN
    /\ turn \in Turns /\ mode \in Modes
    /\ wants \in Seq(BOOLEAN) /\ Len(wants) <= Cap
    /\ docks \in Seq(BOOLEAN) /\ Len(docks) <= Cap
    /\ turned \in [held : 0..Cap, lost : BOOLEAN] /\ nudges \in 0..Cap
    /\ deadline \in BOOLEAN /\ deep \in 0..MaxDeep /\ followup \in BOOLEAN
    /\ quiet \in {"none", "on", "over"}
    /\ job \in [Jobs -> [pc : {"none", "spawned", "lock", "read", "turn", "apply",
                               "verify", "sleep", "aborted"},
                         attempt : 0..MaxAttempts, pass : {0, 1}, goal : Goals]]
    /\ busy \in BOOLEAN /\ serial \in Jobs \cup {"free"}
    /\ available \in BOOLEAN /\ layout \in LayoutsWith(available) /\ changed \in BOOLEAN
    /\ watcher \in [pc : {"wait", "settle", "report", "nudge"}, seen : Modes]
    /\ disturbances \in 0..MaxDisturbances
    /\ verdict \in {"none", "asked", "fallback", "other"} /\ missed \in BOOLEAN
    /\ streak \in Nat /\ lagged \in BOOLEAN

(* The root's values arrive over D-Bus; until they do, any may be there. *)
Init ==
    /\ want \in BOOLEAN /\ kb = FALSE /\ kbKnown = FALSE
    /\ turn \in Turns /\ mode \in Modes
    /\ wants = <<>> /\ docks = <<>>
    /\ turned = [held |-> 0, lost |-> FALSE] /\ nudges = 0
    /\ deadline = FALSE /\ deep = 0 /\ followup = FALSE /\ quiet = "none"
    /\ job = [p \in Jobs |-> NoJob] /\ busy = FALSE /\ serial = "free"
    /\ available \in BOOLEAN /\ layout \in LayoutsWith(available)
    /\ changed = FALSE /\ watcher = NotWatching
    /\ disturbances = 0
    /\ verdict = "none" /\ missed = FALSE /\ streak = 0 /\ lagged = FALSE

-----------------------------------------------------------------------------
(* The layout that apply_desired_display_state builds from its inputs: it  *)
(* does without the second panel when Mutter has no mode for it.           *)
LayoutFor(g) ==
    LET panel == g.there /\ g.want /\ ~g.kb
    IN  [panel |-> panel, mirrored |-> panel /\ g.mode = "mirror", turn |-> g.turn]

(* classify_layout *)
Classify(l) == IF l.mirrored THEN "mirror" ELSE "joined"

(* The second pass falls back to the joined layout. *)
GoalOf(j) == IF j.pass = 0 THEN j.goal ELSE [j.goal EXCEPT !.mode = "joined"]
MayFallBack(j) == j.pass = 0 /\ j.goal.mode # "joined"

(* Each pass reads first which monitors there are. *)
Looks(j) == [j EXCEPT !.goal.there = available]

(* Fault: a lagging receiver loses nothing. *)
Push_Unbounded(q, v) == Append(q, v)

Push(q, v) == Append(IF Len(q) < Cap THEN q ELSE Tail(q), v)

Least(a, b) == IF a < b THEN a ELSE b

Disturb ==
    /\ disturbances < MaxDisturbances
    /\ disturbances' = disturbances + 1

-----------------------------------------------------------------------------
(* Signals.  The loop takes them only between reconciles. *)
LoopIsFree == job["reconcile"].pc = "none"

(* Fault: off by one. *)
TooDeep_Late(d) == d > MaxDeep

TooDeep(d) == d >= MaxDeep

Counted ==
    (IF quiet = "over" THEN 0 ELSE deep) + (IF followup /\ quiet = "none" THEN 1 ELSE 0)

(* What every signal does once its value is stored: it is dropped in the  *)
(* quiet minute; otherwise it is counted when it follows an apply that    *)
(* changed the layout, and moves the deadline; the count may start the    *)
(* quiet minute, which forgets the deadline.                              *)
Heed ==
    \/ /\ quiet = "on"
       /\ missed' = TRUE
       /\ UNCHANGED <<loop, streak, lagged>>
    \/ /\ quiet # "on" /\ TooDeep(Counted)
       /\ quiet' = "on" /\ deadline' = FALSE /\ deep' = 0 /\ followup' = FALSE
       /\ missed' = TRUE /\ streak' = 0 /\ lagged' = FALSE
    \/ /\ quiet # "on" /\ ~TooDeep(Counted)
       /\ quiet' = "none" /\ deadline' = TRUE /\ deep' = Counted /\ followup' = FALSE
       /\ UNCHANGED <<missed, streak, lagged>>

(* Fault: a value that is already stored is taken for a duplicate. *)
SecondarySignal_SkipsKnown ==
    /\ LoopIsFree /\ wants # <<>>
    /\ want' = Head(wants) /\ wants' = Tail(wants)
    /\ IF want' = want THEN UNCHANGED <<loop, missed, streak, lagged>> ELSE Heed
    /\ UNCHANGED <<kb, kbKnown, turn, mode, docks, turned, nudges, apply, mutter,
                   watcher, disturbances, verdict>>

(* The sender has stored the value too, maybe a newer one since. *)
SecondarySignal ==
    /\ LoopIsFree /\ wants # <<>>
    /\ want' = Head(wants) /\ wants' = Tail(wants)
    /\ Heed
    /\ UNCHANGED <<kb, kbKnown, turn, mode, docks, turned, nudges, apply, mutter,
                   watcher, disturbances, verdict>>

KeyboardSignal ==
    /\ LoopIsFree /\ docks # <<>>
    /\ kb' = Head(docks) /\ docks' = Tail(docks)
    /\ kbKnown' = TRUE
    /\ IF (kbKnown /\ kb' = kb) \/ (~kbKnown /\ ~kb')
       THEN UNCHANGED <<loop, missed, streak, lagged>>
       ELSE Heed
    /\ UNCHANGED <<want, turn, mode, wants, turned, nudges, apply, mutter, watcher,
                   disturbances, verdict>>

OrientationSignal ==
    /\ LoopIsFree /\ ~turned.lost /\ turned.held > 0
    /\ turned' = [turned EXCEPT !.held = @ - 1]
    /\ Heed
    /\ UNCHANGED <<inputs, wants, docks, nudges, apply, mutter, watcher, disturbances,
                   verdict>>

(* A receiver that lagged is told so first; this schedules a reconcile     *)
(* even in the quiet minute.                                               *)
OrientationLag ==
    /\ LoopIsFree /\ turned.lost
    /\ turned' = [turned EXCEPT !.lost = FALSE]
    /\ deadline' = TRUE /\ lagged' = TRUE
    /\ UNCHANGED <<inputs, wants, docks, nudges, deep, followup, quiet, apply, mutter,
                   watcher, disturbances, verdict, missed, streak>>

AvailabilitySignal ==
    /\ LoopIsFree /\ nudges > 0
    /\ nudges' = nudges - 1
    /\ Heed
    /\ UNCHANGED <<inputs, wants, docks, turned, apply, mutter, watcher, disturbances,
                   verdict>>

QuietEnds ==
    /\ quiet = "on" /\ quiet' = "over"
    /\ UNCHANGED <<inputs, channels, deadline, deep, followup, apply, mutter, watcher,
                   disturbances, history>>

-----------------------------------------------------------------------------
(* The debounce branch: cancel the recovery, and begin to reconcile.  An   *)
(* aborted campaign is dropped later; one that never ran has nothing to    *)
(* give back.                                                              *)
Cancelled(j) == IF j.pc \in {"none", "spawned"} THEN NoJob ELSE Job("aborted")

Debounce ==
    /\ LoopIsFree /\ deadline
    /\ deadline' = FALSE
    /\ IF quiet = "on"
       THEN missed' = TRUE /\ UNCHANGED <<deep, quiet, job, busy>>
       ELSE /\ quiet' = "none"
            /\ deep' = IF quiet = "over" THEN 0 ELSE deep
            /\ job' = [job EXCEPT !["reconcile"] = Job("lock"), !["recovery"] = Cancelled(@)]
            /\ busy' = TRUE
            /\ UNCHANGED missed
    /\ UNCHANGED <<inputs, channels, followup, serial, mutter, watcher, disturbances,
                   verdict, streak, lagged>>

(* Fault: the lock stays with the campaign. *)
AbortedIsDropped_KeepsSerial ==
    /\ job["recovery"].pc = "aborted"
    /\ job' = [job EXCEPT !["recovery"] = NoJob]
    /\ busy' = FALSE
    /\ UNCHANGED <<inputs, channels, loop, serial, mutter, watcher, disturbances, history>>

(* Dropping the campaign's future runs its destructors. *)
AbortedIsDropped ==
    /\ job["recovery"].pc = "aborted"
    /\ job' = [job EXCEPT !["recovery"] = NoJob]
    /\ serial' = "free"
    /\ busy' = FALSE
    /\ UNCHANGED <<inputs, channels, loop, mutter, watcher, disturbances, history>>

-----------------------------------------------------------------------------
(* One attempt, of the reconcile or of the campaign.  It reads what the    *)
(* session knows, then asks the root and the sensor.                       *)
Snapshot(p) ==
    /\ job' = [job EXCEPT ![p] = [pc |-> "read", attempt |-> @.attempt + 1, pass |-> 0,
                                  goal |-> [NoGoal EXCEPT !.kb = kb, !.want = want]]]
    /\ missed' = FALSE

TakeSerial ==
    /\ job["reconcile"].pc = "lock" /\ serial = "free"
    /\ serial' = "reconcile"
    /\ Snapshot("reconcile")
    /\ UNCHANGED <<inputs, channels, loop, busy, mutter, watcher, disturbances, verdict,
                   streak, lagged>>

(* Fault: only the reconcile marks its apply. *)
CampaignStarts_Unmarked ==
    /\ job["recovery"].pc = "spawned"
    /\ serial = "free" /\ serial' = "recovery"
    /\ Snapshot("recovery")
    /\ UNCHANGED <<inputs, channels, loop, busy, mutter, watcher, disturbances, verdict,
                   streak, lagged>>

(* The campaign's first poll.  The lock is free: the reconcile that failed *)
(* has released it, and the next one would have cancelled the campaign.    *)
CampaignStarts ==
    /\ job["recovery"].pc = "spawned"
    /\ busy' = TRUE
    /\ serial = "free" /\ serial' = "recovery"
    /\ Snapshot("recovery")
    /\ UNCHANGED <<inputs, channels, loop, mutter, watcher, disturbances, verdict, streak,
                   lagged>>

TryAgain ==
    /\ job["recovery"].pc = "sleep"
    /\ Snapshot("recovery")
    /\ UNCHANGED <<inputs, channels, loop, busy, serial, mutter, watcher, disturbances,
                   verdict, streak, lagged>>

(* How an apply ends: it changed the layout, found it right, could not ask *)
(* the root because the session is not registered, was refused by the      *)
(* guard, or failed.                                                       *)
Outcomes == {"changed", "same", "unregistered", "blocked", "failed"}
Settled(result, j) ==
    IF result \notin {"changed", "same"} THEN "other"
    ELSE IF j.pass = 0 THEN "asked" ELSE "fallback"

(* What follows a success (power-off notice, tablet mapping, saved layout) *)
(* changes nothing here. *)
ReconcileEnds(result) ==
    /\ busy' = FALSE /\ serial' = "free"
    /\ job' = [job EXCEPT !["reconcile"] = NoJob,
                          !["recovery"] = IF result = "failed" /\ @ = NoJob
                                          THEN Job("spawned") ELSE @]
    /\ CASE result = "changed" ->
              /\ followup' = TRUE /\ deep' = deep
              /\ streak' = Least(streak + 1, MaxDeep + 1) /\ lagged' = lagged
         [] result = "failed" -> UNCHANGED <<followup, deep, streak, lagged>>
         [] OTHER -> followup' = FALSE /\ deep' = 0 /\ streak' = 0 /\ lagged' = FALSE
    /\ verdict' = Settled(result, job["reconcile"])
    /\ UNCHANGED <<deadline, quiet>>

CampaignEnds(v) ==
    /\ busy' = FALSE /\ serial' = "free"
    /\ job' = [job EXCEPT !["recovery"] = NoJob]
    /\ verdict' = v

(* A success does not count if the session's inputs have changed since the *)
(* attempt read them. *)
AttemptEnds(result) ==
    LET j == job["recovery"]
        ok == result \in {"changed", "same"} /\ j.goal.kb = kb /\ j.goal.want = want
    IN  /\ IF ok \/ result = "blocked" \/ j.attempt = MaxAttempts
           THEN CampaignEnds(IF ok THEN Settled(result, j) ELSE "other")
           ELSE /\ job' = [job EXCEPT !["recovery"] = [Job("sleep") EXCEPT !.attempt = j.attempt]]
                /\ verdict' = "other"
                /\ UNCHANGED <<busy, serial>>
        /\ UNCHANGED <<loop, streak, lagged>>

Ends(p, result) ==
    IF p = "reconcile" THEN ReconcileEnds(result)
    ELSE AttemptEnds(IF result = "unregistered" THEN "failed" ELSE result)

(* Another pass, or the end with a failure. *)
PassFails(p) ==
    IF MayFallBack(job[p])
    THEN /\ job' = [job EXCEPT ![p] = [@ EXCEPT !.pass = 1, !.pc = "apply"]]
         /\ UNCHANGED <<loop, busy, serial, verdict, streak, lagged>>
    ELSE Ends(p, "failed")

(* read_persisted_display_mode_from_root *)
ReadMode(p) ==
    /\ job[p].pc = "read"
    /\ job' = [job EXCEPT ![p] = [@ EXCEPT !.pc = "turn", !.goal.mode = mode]]
    /\ UNCHANGED <<inputs, channels, loop, busy, serial, mutter, watcher, disturbances,
                   history>>

TurnedTo(j, t) == [j EXCEPT !.pc = "apply", !.goal.turn = t]

(* current_desired_transform: a sensor that does not answer leaves the     *)
(* layout turned as it is, and the attempt goes on.                        *)
ReadTurn(p) ==
    /\ job[p].pc = "turn"
    /\ \/ /\ job' = [job EXCEPT ![p] = TurnedTo(@, turn)]
          /\ UNCHANGED <<disturbances, missed>>
       \/ /\ Disturb
          /\ job' = [job EXCEPT ![p] = TurnedTo(@, layout.turn)]
          /\ missed' = TRUE
    /\ UNCHANGED <<inputs, channels, loop, busy, serial, mutter, watcher, verdict, streak,
                   lagged>>

RootUnavailable(p) ==
    /\ job[p].pc = "read"
    /\ Disturb
    /\ \E result \in {"unregistered", "failed"} : Ends(p, result)
    /\ UNCHANGED <<inputs, channels, mutter, watcher, missed>>

AlreadyRight(p) ==
    /\ job[p].pc = "apply" /\ layout = LayoutFor(GoalOf(Looks(job[p])))
    /\ Ends(p, "same")
    /\ UNCHANGED <<inputs, channels, mutter, watcher, disturbances, missed>>

NeedsApply(p) == job[p].pc = "apply" /\ layout # LayoutFor(GoalOf(Looks(job[p])))

(* Permitted by the root, and accepted by Mutter. *)
Apply(p) ==
    /\ NeedsApply(p)
    /\ layout' = LayoutFor(GoalOf(Looks(job[p]))) /\ changed' = TRUE
    /\ job' = [job EXCEPT ![p] = [Looks(@) EXCEPT !.pc = "verify"]]
    /\ UNCHANGED <<inputs, channels, loop, busy, serial, available, watcher, disturbances,
                   history>>

GuardRefuses(p) ==
    /\ NeedsApply(p)
    /\ Disturb
    /\ Ends(p, "blocked")
    /\ UNCHANGED <<inputs, channels, mutter, watcher, missed>>

MutterRejects(p) ==
    /\ NeedsApply(p)
    /\ Disturb
    /\ PassFails(p)
    /\ UNCHANGED <<inputs, channels, mutter, watcher, missed>>

Verify(p) ==
    /\ job[p].pc = "verify"
    /\ IF layout = LayoutFor(GoalOf(job[p])) THEN Ends(p, "changed") ELSE PassFails(p)
    /\ UNCHANGED <<inputs, channels, mutter, watcher, disturbances, missed>>

(* GetCurrentState fails (which also stands in for the sensor), or the     *)
(* call itself: no second pass.                                            *)
MutterFails(p) ==
    /\ job[p].pc \in {"turn", "apply", "verify"}
    /\ Disturb
    /\ Ends(p, "failed")
    /\ UNCHANGED <<inputs, channels, mutter, watcher, missed>>

-----------------------------------------------------------------------------
(* subscribe_monitors_changed: it gives up whenever an apply is under way.  *)
(* This drops the news of a panel that came or went after the apply looked.*)
OutOfDate(p) == job[p].pc = "verify" /\ job[p].goal.there # available

WatchChange ==
    /\ watcher.pc = "wait" /\ changed
    /\ changed' = FALSE
    /\ watcher' = IF busy THEN watcher ELSE [watcher EXCEPT !.pc = "settle"]
    /\ missed' = (missed \/ (busy /\ \E p \in Jobs : OutOfDate(p)))
    /\ UNCHANGED <<inputs, channels, loop, apply, available, layout, disturbances, verdict,
                   streak, lagged>>

(* A layout that keeps changing is left to the next MonitorsChanged; one   *)
(* that cannot be read is not asked for again.                             *)
WatchRead ==
    /\ watcher.pc = "settle"
    /\ \/ /\ ~busy
          /\ watcher' = [pc |-> "report", seen |-> Classify(layout)]
          /\ UNCHANGED <<disturbances, missed>>
       \/ /\ busy \/ changed
          /\ watcher' = NotWatching
          /\ UNCHANGED <<disturbances, missed>>
       \/ /\ ~busy
          /\ Disturb
          /\ watcher' = NotWatching
          /\ missed' = TRUE
    /\ UNCHANGED <<inputs, channels, loop, apply, mutter, verdict, streak, lagged>>

(* report_observed_display_mode at the root, unless the call fails *)
WatchReport ==
    /\ watcher.pc = "report"
    /\ mode' \in {mode, watcher.seen}
    /\ watcher' = [watcher EXCEPT !.pc = "nudge"]
    /\ UNCHANGED <<want, kb, kbKnown, turn, channels, loop, apply, mutter, disturbances,
                   history>>

WatchNudge ==
    /\ watcher.pc = "nudge"
    /\ watcher' = NotWatching
    /\ IF busy
       THEN missed' = TRUE /\ UNCHANGED nudges
       ELSE nudges' = Least(nudges + 1, Cap) /\ UNCHANGED missed
    /\ UNCHANGED <<inputs, wants, docks, turned, loop, apply, mutter, disturbances,
                   verdict, streak, lagged>>

-----------------------------------------------------------------------------
(* The environment: the root's properties, the sensor, the user and Mutter. *)
SecondaryUpdate ==
    /\ Disturb
    /\ want' \in BOOLEAN /\ wants' = Push(wants, want')
    /\ UNCHANGED <<kb, kbKnown, turn, mode, docks, turned, nudges, loop, apply, mutter,
                   watcher, history>>

KeyboardUpdate ==
    /\ Disturb
    /\ \E v \in BOOLEAN : docks' = Push(docks, v)
    /\ UNCHANGED <<inputs, wants, turned, nudges, loop, apply, mutter, watcher, history>>

MachineTurns ==
    /\ Disturb
    /\ turn' \in Turns \ {turn}
    /\ turned' = [held |-> Least(turned.held + 1, Cap),
                  lost |-> turned.lost \/ turned.held = Cap]
    /\ UNCHANGED <<want, kb, kbKnown, mode, wants, docks, nudges, loop, apply, mutter,
                   watcher, history>>

(* The user rearranges the screens, or the root's power gate takes the     *)
(* panel away or brings it back and Mutter picks a layout.                 *)
LayoutChanges ==
    /\ Disturb
    /\ available' \in BOOLEAN /\ layout' \in LayoutsWith(available') /\ changed' = TRUE
    /\ UNCHANGED <<inputs, channels, loop, apply, watcher, history>>

-----------------------------------------------------------------------------
SignalStep ==
    \/ SecondarySignal \/ KeyboardSignal \/ OrientationSignal \/ OrientationLag
    \/ AvailabilitySignal
TaskStep == TakeSerial \/ AbortedIsDropped \/ CampaignStarts \/ TryAgain
JobStep(p) == ReadMode(p) \/ ReadTurn(p) \/ AlreadyRight(p) \/ Apply(p) \/ Verify(p)
JobFault(p) == RootUnavailable(p) \/ GuardRefuses(p) \/ MutterRejects(p) \/ MutterFails(p)
WatcherStep == WatchChange \/ WatchRead \/ WatchReport \/ WatchNudge
EnvironmentStep ==
    \/ SecondaryUpdate \/ KeyboardUpdate \/ MachineTurns \/ LayoutChanges

Next ==
    \/ SignalStep \/ QuietEnds \/ Debounce \/ TaskStep
    \/ \E p \in Jobs : JobStep(p) \/ JobFault(p)
    \/ WatcherStep \/ EnvironmentStep

Spec == Init /\ [][Next]_vars

(* The executor polls every ready task, timers fire, D-Bus calls return. *)
Fairness ==
    /\ WF_vars(SignalStep) /\ WF_vars(Debounce)
    /\ WF_vars(TaskStep) /\ WF_vars(WatcherStep)
    /\ \A p \in Jobs : WF_vars(JobStep(p))

FairSpec == Spec /\ Fairness

-----------------------------------------------------------------------------
(* The comment at display.rs:1682: `apply_busy' is "set for an entire      *)
(* reconcile ... and for an entire recovery campaign", so that the watcher *)
(* persists no mode it sees during these.                                  *)
Applying(p) == job[p].pc \in {"read", "turn", "apply", "verify", "sleep"}
BusyCoversApplies == \A p \in Jobs : Applying(p) => busy

(* What is left of it: a recovery campaign, its delays included, is marked *)
(* by `apply_busy', holds the lock, and never works on the layout at the   *)
(* same time as a reconcile (the one that cancelled it, or the next).      *)
CampaignIsAlone ==
    Applying("recovery") => busy /\ serial = "recovery" /\ ~Applying("reconcile")

(* When the task has nothing left to do and its last apply succeeded, the  *)
(* layout is the one the present inputs ask for (or its fallback), however *)
(* values were overtaken, signals merged and recoveries cancelled; unless  *)
(* a signal was dropped since the inputs were last read.                   *)
Idle ==
    /\ wants = <<>> /\ docks = <<>> /\ turned.held = 0 /\ ~turned.lost /\ nudges = 0
    /\ ~deadline /\ \A p \in Jobs : job[p] = NoJob
    /\ ~changed /\ watcher = NotWatching
Inputs == [kb |-> kb, want |-> want, turn |-> turn, mode |-> mode, there |-> available]
SettledIsTarget ==
    Idle /\ ~missed =>
        /\ verdict = "asked" => layout = LayoutFor(Inputs)
        /\ verdict = "fallback" => layout = LayoutFor([Inputs EXCEPT !.mode = "joined"])

(* Reconciles that change the layout again and again are stopped after     *)
(* MaxDeep in a row, unless one of them came from a lagging receiver.      *)
LoopIsThrottled == ~lagged => streak <= MaxDeep

(* Left alone, the task comes to rest: no signal, watcher and reconcile    *)
(* keep each other going, and no cancelled recovery keeps the lock.        *)
Undisturbed == disturbances' = disturbances
ComesToRest == <>[][Undisturbed]_vars => <>[]Idle
=============================================================================
