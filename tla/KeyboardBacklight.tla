------------------------- MODULE KeyboardBacklight -------------------------
(***************************************************************************)
(* The backlight of the detachable keyboard.                               *)
(*                                                                         *)
(* The root daemon keeps the level the user requested; what the keyboard   *)
(* should show is the `effective' level, which suspend and idleness force  *)
(* to off and a dark room lifts to low.  Each of suspend_start/_end,       *)
(* idle_start/_end and the ambient setters changes the state and sends     *)
(* Event::Backlight without an await in between.  Setting or toggling the  *)
(* level does not: it captures the effective level, awaits the write of    *)
(* the state file, and then sends what it captured.                        *)
(*                                                                         *)
(* The receiver is the control task of the connected keyboard (USB or      *)
(* Bluetooth).  It is subscribed first, restores the level, and then       *)
(* follows the events.  They come over one channel that carries every kind *)
(* of event: a control task that lags behind skips what was overwritten.   *)
(* `light' is the level last sent to the keyboard; a transfer that fails   *)
(* is logged and not repeated, which is not modelled.                      *)
(***************************************************************************)
EXTENDS Integers, Sequences

CONSTANTS
    Callers,    \* set/toggle calls that may run at the same time
    Top,        \* the brightest level (High = 3 in state.rs)
    EventCap    \* slots of the channel (64 in main.rs)

ASSUME TopAssumption == Top \in Nat \ {0}
ASSUME EventCapAssumption == EventCap \in Nat \ {0}

VARIABLES
    requested,      \* InnerState.backlight
    suspended,      \* InnerState.is_suspended
    idle,           \* InnerState.is_idle, and is_idle of idle_state_task
    lowLight,       \* low_light_active
    disk,           \* the backlight state file
    call,           \* set_keyboard_backlight / toggle_keyboard_backlight
    lights,         \* Event::Backlight values the control task has not received
    link,           \* the keyboard's control task
    light,          \* the level last sent to the keyboard, 0 without one
    late,           \* history: the newest event was out of date when it was sent
    lost,           \* history: the newest event was overwritten unreceived
    timeoutOn,      \* the configured idle timeout is not 0
    timeoutArmed,   \* the same, as idle_state_task last read it at its loop top
    timeoutNews,    \* its watch channel holds a change it has not awaited
    activity        \* an activity notification is waiting

policyVars == <<requested, suspended, idle, lowLight>>
idleVars == <<timeoutOn, timeoutArmed, timeoutNews, activity>>
eventVars == <<lights, late, lost>>
keyboardVars == <<link, light>>
vars == <<requested, suspended, idle, lowLight, disk, call, lights, link, light,
          late, lost, timeoutOn, timeoutArmed, timeoutNews, activity>>

Level == 0..Top
NoCall == [pc |-> "idle", level |-> 0, effective |-> 0, send |-> FALSE]

TypeOK ==
    /\ requested \in Level /\ disk \in Level /\ light \in Level
    /\ suspended \in BOOLEAN /\ idle \in BOOLEAN /\ lowLight \in BOOLEAN
    /\ call \in [Callers -> [pc : {"idle", "persist", "send"}, level : Level,
                             effective : Level, send : BOOLEAN]]
    /\ lights \in Seq(Level)
    /\ link \in {"off", "setup", "on"}
    /\ late \in BOOLEAN /\ lost \in BOOLEAN
    /\ timeoutOn \in BOOLEAN /\ timeoutArmed \in BOOLEAN /\ timeoutNews \in BOOLEAN
    /\ activity \in BOOLEAN

-----------------------------------------------------------------------------
(* effective_keyboard_backlight: Off when suspended or idle, and at least *)
(* Low in a dark room. *)
EffectiveOf(req, susp, idl, low) ==
    IF susp \/ idl THEN 0 ELSE IF low /\ req = 0 THEN 1 ELSE req

Effective == EffectiveOf(requested, suspended, idle, lowLight)

(* Fault: the brightest level has a successor. *)
NextLevel_NoWrap(l) == l + 1

(* KeyboardBacklightState::next *)
NextLevel(l) == IF l = Top THEN 0 ELSE l + 1

Push(q, v) == Append(IF Len(q) < EventCap THEN q ELSE Tail(q), v)

(* A broadcast send reaches the control task if there is one. *)
Send(v) ==
    /\ lights' = IF link = "off" THEN lights ELSE Push(lights, v)
    /\ lost' = FALSE

(* Fault: only the levels that are lit are sent. *)
EmitIfChanged_NotOff ==
    IF Effective' # Effective /\ Effective' # 0
    THEN Send(Effective') /\ late' = FALSE
    ELSE UNCHANGED eventVars

(* The setters that send within the same step, if the level changed. *)
EmitIfChanged ==
    IF Effective' # Effective
    THEN Send(Effective') /\ late' = FALSE
    ELSE UNCHANGED eventVars

Init ==
    /\ requested \in Level /\ disk = requested
    /\ suspended = FALSE /\ idle = FALSE /\ lowLight = FALSE
    /\ call = [c \in Callers |-> NoCall]
    /\ lights = <<>> /\ late = FALSE /\ lost = FALSE
    /\ link = "off" /\ light = 0
    /\ timeoutOn \in BOOLEAN /\ timeoutArmed = timeoutOn /\ timeoutNews = FALSE
    /\ activity = FALSE

(* load_backlight_disk of a file that is missing, unreadable or truncated. *)
Low == 1

(* SIGTERM, crash or upgrade: the level comes back from the file, which a  *)
(* write that was under way may have left truncated. *)
Restart ==
    /\ disk' \in {disk} \cup (IF \E c \in Callers : call[c].pc = "persist" THEN {Low} ELSE {})
    /\ requested' \in {disk', Low}
    /\ suspended' = FALSE /\ idle' = FALSE /\ lowLight' = FALSE
    /\ call' = [c \in Callers |-> NoCall]
    /\ lights' = <<>> /\ late' = FALSE /\ lost' = FALSE
    /\ link' = "off" /\ light' = 0
    /\ timeoutArmed' = timeoutOn /\ timeoutNews' = FALSE /\ activity' = FALSE
    /\ UNCHANGED timeoutOn

-----------------------------------------------------------------------------
(* set_keyboard_backlight and toggle_keyboard_backlight, up to the await.  *)
(* The event they will send is decided here.                               *)
SetLevel(c, new) ==
    /\ call[c].pc = "idle"
    /\ requested' = new
    /\ UNCHANGED <<suspended, idle, lowLight>>
    /\ call' = [call EXCEPT ![c] =
                   [pc |-> "persist", level |-> new, effective |-> Effective',
                    send |-> new # requested \/ Effective' # Effective]]
    /\ UNCHANGED <<disk, eventVars, keyboardVars, idleVars>>

ToggleLevel(c) == SetLevel(c, NextLevel(requested))

(* persist_backlight_disk; an open or a write that fails goes unnoticed. *)
PersistLevel(c) ==
    /\ call[c].pc = "persist"
    /\ disk' \in {call[c].level, disk, Low}
    /\ call' = [call EXCEPT ![c].pc = "send"]
    /\ UNCHANGED <<policyVars, eventVars, keyboardVars, idleVars>>

SendLevel(c) ==
    /\ call[c].pc = "send"
    /\ call' = [call EXCEPT ![c] = NoCall]
    /\ UNCHANGED <<policyVars, disk, keyboardVars, idleVars>>
    /\ IF call[c].send
       THEN Send(call[c].effective) /\ late' = (call[c].effective # Effective)
       ELSE UNCHANGED eventVars

-----------------------------------------------------------------------------
(* logind's PrepareForSleep. *)
SuspendStart ==
    /\ suspended' = TRUE
    /\ UNCHANGED <<requested, idle, lowLight>>
    /\ EmitIfChanged
    /\ UNCHANGED <<disk, call, keyboardVars, idleVars>>

(* A resume also counts as activity. *)
SuspendEnd ==
    /\ suspended' = FALSE
    /\ UNCHANGED <<requested, idle, lowLight>>
    /\ EmitIfChanged
    /\ activity' = TRUE
    /\ UNCHANGED <<disk, call, keyboardVars, timeoutOn, timeoutArmed,
                   timeoutNews>>

(* set_ambient_keyboard_backlight_enabled, _sensor_available, _light_lux: *)
(* one of the three inputs of low_light_active changes its value. *)
AmbientChanges ==
    /\ lowLight' = ~lowLight
    /\ UNCHANGED <<requested, suspended, idle>>
    /\ EmitIfChanged
    /\ UNCHANGED <<disk, call, keyboardVars, idleVars>>

-----------------------------------------------------------------------------
(* idle_state_task: one turn of its select loop. *)

IdleBecomes(b) ==
    /\ idle' = b
    /\ UNCHANGED <<requested, suspended, lowLight>>
    /\ EmitIfChanged

Activity ==
    /\ activity' = TRUE
    /\ UNCHANGED <<policyVars, disk, call, eventVars, keyboardVars, timeoutOn,
                   timeoutArmed, timeoutNews>>

SetIdleTimeout(on) ==
    /\ timeoutOn' = on
    /\ timeoutNews' = TRUE
    /\ UNCHANGED <<policyVars, disk, call, eventVars, keyboardVars, timeoutArmed,
                   activity>>

(* The next turn of the loop arms the sleep with the latest timeout. *)
NextTurn ==
    /\ timeoutArmed' = timeoutOn
    /\ UNCHANGED <<timeoutOn, disk, call, keyboardVars>>

IdleActivity ==
    /\ activity
    /\ activity' = FALSE
    /\ IdleBecomes(FALSE)
    /\ NextTurn
    /\ UNCHANGED timeoutNews

(* Fault: switching the timeout off only stops the timer. *)
IdleTimeoutChanged_KeepsIdle ==
    /\ timeoutNews
    /\ timeoutNews' = FALSE
    /\ NextTurn
    /\ UNCHANGED <<policyVars, eventVars, activity>>

(* Only a timeout of 0 matters here; a new length shifts the deadline. *)
IdleTimeoutChanged ==
    /\ timeoutNews
    /\ timeoutNews' = FALSE
    /\ IdleBecomes(idle /\ timeoutOn)
    /\ NextTurn
    /\ UNCHANGED activity

(* The sleep branch: the timeout it was armed with may be out of date. *)
IdleElapses ==
    /\ timeoutArmed /\ ~idle
    /\ IdleBecomes(TRUE)
    /\ NextTurn
    /\ UNCHANGED <<timeoutNews, activity>>

-----------------------------------------------------------------------------
(* start_usb_keyboard_task and the GATT control task. *)

(* The receiver exists from here on; the keyboard shows anything. *)
KeyboardConnects ==
    /\ link = "off"
    /\ link' = "setup"
    /\ light' \in Level
    /\ lights' = <<>> /\ late' = FALSE /\ lost' = FALSE
    /\ activity' = TRUE
    /\ UNCHANGED <<policyVars, disk, call, timeoutOn, timeoutArmed,
                   timeoutNews>>

RestoreLight ==
    /\ link = "setup"
    /\ link' = "on"
    /\ light' = Effective
    /\ lost' = FALSE
    /\ UNCHANGED <<policyVars, disk, call, lights, late, idleVars>>

FollowEvent ==
    /\ link = "on" /\ lights # <<>>
    /\ light' = Head(lights)
    /\ lights' = Tail(lights)
    /\ UNCHANGED <<policyVars, disk, call, late, lost, link, idleVars>>

(* Events of other kinds (the mute LED, the docks, the panel) share the     *)
(* channel: a burst of them overwrites the oldest level that the control   *)
(* task has not received.  It skips the gap, and nothing is sent again.    *)
OtherTraffic ==
    /\ lights # <<>>
    /\ lights' = Tail(lights)
    /\ lost' = (Tail(lights) = <<>>)
    /\ UNCHANGED <<policyVars, disk, call, late, keyboardVars, idleVars>>

KeyboardLeaves ==
    /\ link # "off"
    /\ link' = "off" /\ light' = 0
    /\ lights' = <<>> /\ late' = FALSE /\ lost' = FALSE
    /\ UNCHANGED <<policyVars, disk, call, idleVars>>

-----------------------------------------------------------------------------
SetterStep(c) == PersistLevel(c) \/ SendLevel(c)
IdleTaskStep == IdleActivity \/ IdleTimeoutChanged \/ IdleElapses
ControlTaskStep == RestoreLight \/ FollowEvent

(* The user, logind, the light sensor and the keyboard. *)
EnvironmentStep ==
    \/ \E c \in Callers : ToggleLevel(c) \/ \E new \in Level : SetLevel(c, new)
    \/ SuspendStart \/ SuspendEnd \/ AmbientChanges
    \/ Activity \/ \E on \in BOOLEAN : SetIdleTimeout(on)
    \/ KeyboardConnects \/ KeyboardLeaves \/ OtherTraffic \/ Restart

Next ==
    \/ \E c \in Callers : SetterStep(c)
    \/ IdleTaskStep \/ ControlTaskStep \/ EnvironmentStep

Spec == Init /\ [][Next]_vars

(* The executor polls every ready task.  Between the branches of its select *)
(* the idle task chooses at random, so a branch that stays ready is taken; *)
(* the sleep branch is not among them, it is only ready after a quiet time. *)
Fairness ==
    /\ \A c \in Callers : WF_vars(SetterStep(c))
    /\ WF_vars(IdleActivity) /\ WF_vars(IdleTimeoutChanged)
    /\ WF_vars(ControlTaskStep)

FairSpec == Spec /\ Fairness

-----------------------------------------------------------------------------
(* What the keyboard shows once it has received everything sent so far. *)
Newest == IF lights = <<>> THEN light ELSE lights[Len(lights)]
InFlight(c) == call[c].pc # "idle" /\ call[c].send

(* A keyboard that has caught up shows the effective level, whatever       *)
(* suspends, idles, room light, reconnections and requests went before.    *)
(* The exceptions are a set/toggle that has not sent its event yet, or     *)
(* whose event was already out of date when it was sent, and a newest      *)
(* event that the control task skipped (Lagged); an older one it may skip. *)
LightIsEffective ==
    link = "on" /\ lights = <<>> /\ ~late /\ ~lost /\ (\A c \in Callers : ~InFlight(c))
        => light = Effective

(* Turning idle detection off never strands a keyboard that is idle: the   *)
(* timeout that is pending in a sleep already armed cannot win for good.   *)
DisabledEndsIdle == <>[]~timeoutOn => <>[]~idle

(* state.rs:252: "when suspended, both backlight and mic mute led are      *)
(* disabled": a suspended machine whose keyboard has been told everything, *)
(* the newest level not lost to other events, is dark.                     *)
SuspendedIsDark ==
    suspended /\ link = "on" /\ lights = <<>> /\ ~lost /\ (\A c \in Callers : ~InFlight(c))
        => light = 0
=============================================================================
