-------------------------- MODULE ConnectionState --------------------------
(***************************************************************************)
(* What the root daemon says of the keyboard: how it is connected, and     *)
(* whose battery sample it shows.                                          *)
(*                                                                         *)
(* The hotplug monitor and the readers of Bluetooth nodes (UsbSessions and *)
(* BluetoothSessions) call the setters of state.rs.  A keyboard that is    *)
(* gone counts as connected for a second of grace, so that moving it from  *)
(* USB to Bluetooth shows no gap: the kind that is shown then changes      *)
(* without any call, and a timer has to publish it.  Publishing is left to *)
(* spawned tasks, which read the state when they run.                      *)
(*                                                                         *)
(* A level is the source of the sample that is shown.  A sample is asked   *)
(* for and set later, when its source may be gone.                         *)
(***************************************************************************)
EXTENDS Integers

CONSTANT MaxSessions    \* bound: keyboards on Bluetooth at a time

ASSUME MaxSessionsAssumption == MaxSessions \in Nat

VARIABLES
    wired,          \* is_usb_connected
    onPogo,         \* is_pogo_docked
    radio,          \* bt_connected_count
    lastKind,       \* keyboard_last_connection_kind
    gone,           \* keyboard_disconnected_at: none, or how its grace stands
    notice,         \* a spawned notify_keyboard_connection_changed is ready
    timer,          \* the refresh of the newest grace period sleeps
    oldTimer,       \* the refresh of an earlier one sleeps
    told,           \* the kind that was published last
    level,          \* the source of keyboard_battery_pct
    usbAsked,       \* a poll or report of the USB keyboard is under way
    radioAsked      \* a read of BlueZ's Battery1 is under way

linkState == <<wired, onPogo, radio>>
kind == <<lastKind, gone>>
publishing == <<notice, timer, oldTimer, told>>
battery == <<level, usbAsked, radioAsked>>
connVars == <<linkState, kind, publishing, battery>>

Kinds == {"Detached", "Usb", "Pogo", "Bluetooth"}

ConnTypeOK ==
    /\ wired \in BOOLEAN /\ onPogo \in BOOLEAN /\ (onPogo => wired)
    /\ radio \in 0 .. MaxSessions
    /\ lastKind \in Kinds
    /\ gone \in {"no", "fresh", "expired"}
    /\ notice \in BOOLEAN /\ timer \in BOOLEAN /\ oldTimer \in BOOLEAN
    /\ told \in Kinds
    /\ level \in {"none", "usb", "radio"}
    /\ usbAsked \in BOOLEAN /\ radioAsked \in BOOLEAN

(* raw_keyboard_connection_kind *)
RawOf(u, p, b) ==
    CASE p           -> "Pogo"
      [] ~p /\ u     -> "Usb"
      [] ~p /\ ~u /\ b > 0 -> "Bluetooth"
      [] OTHER       -> "Detached"
Raw == RawOf(wired, onPogo, radio)

(* effective_keyboard_connection_kind *)
Effective ==
    IF Raw # "Detached" THEN Raw
    ELSE IF gone = "fresh" THEN lastKind
    ELSE "Detached"

(* KeyboardStateManager::new *)
ConnInit ==
    /\ wired \in BOOLEAN /\ onPogo \in BOOLEAN /\ (onPogo => wired)
    /\ radio = 0
    /\ lastKind = RawOf(wired, onPogo, 0) /\ gone = "no"
    /\ notice = FALSE /\ timer = FALSE /\ oldTimer = FALSE
    /\ told = lastKind
    /\ level = "none" /\ usbAsked = FALSE /\ radioAsked = FALSE

-----------------------------------------------------------------------------
GraceStarts(u, p, b) ==
    /\ RawOf(u, p, b) = "Detached"
    /\ lastKind # "Detached" /\ gone = "no"

(* update_keyboard_connection_tracking *)
Track(u, p, b) ==
    IF RawOf(u, p, b) # "Detached"
    THEN lastKind' = RawOf(u, p, b) /\ gone' = "no"
    ELSE /\ lastKind' = lastKind
         /\ gone' = IF GraceStarts(u, p, b) THEN "fresh" ELSE gone

(* Fault: a refresh that sleeps already is taken for the one of this grace. *)
ScheduleRefresh_Once(starts) ==
    /\ timer' = IF starts THEN ~timer /\ ~oldTimer ELSE timer
    /\ oldTimer' = (oldTimer \/ (starts /\ timer))

(* schedule_keyboard_connection_refresh_async *)
ScheduleRefresh(starts) ==
    /\ timer' = (timer \/ starts)
    /\ oldTimer' = (oldTimer \/ (starts /\ timer))

(* set_usb_keyboard_connection *)
SetUsbKeyboardConnection(u, p) ==
    /\ wired' = u /\ onPogo' = p
    /\ Track(u, p, radio)
    /\ ScheduleRefresh(GraceStarts(u, p, radio))
    /\ notice' = (notice \/ u # wired \/ p # onPogo)
    /\ level' = IF u THEN level ELSE "none"
    /\ UNCHANGED <<radio, told, usbAsked, radioAsked>>

(* Fault: the kind is tracked for USB alone. *)
BluetoothConnectionStarted_Untracked ==
    /\ radio < MaxSessions
    /\ radio' = radio + 1
    /\ notice' = (notice \/ radio = 0)
    /\ UNCHANGED <<wired, onPogo, kind, timer, oldTimer, told, battery>>

(* bluetooth_connection_started *)
BluetoothConnectionStarted ==
    /\ radio < MaxSessions
    /\ radio' = radio + 1
    /\ Track(wired, onPogo, radio + 1)
    /\ notice' = (notice \/ radio = 0)
    /\ UNCHANGED <<wired, onPogo, timer, oldTimer, told, battery>>

(* Fault: the end of the grace is left to the next call. *)
BluetoothConnectionStopped_NoRefresh ==
    /\ radio > 0
    /\ radio' = radio - 1
    /\ Track(wired, onPogo, radio - 1)
    /\ notice' = (notice \/ radio = 1)
    /\ level' = IF radio = 1 /\ ~wired THEN "none" ELSE level
    /\ UNCHANGED <<wired, onPogo, timer, oldTimer, told, usbAsked, radioAsked>>

(* bluetooth_connection_stopped *)
BluetoothConnectionStopped ==
    /\ radio > 0
    /\ radio' = radio - 1
    /\ Track(wired, onPogo, radio - 1)
    /\ ScheduleRefresh(GraceStarts(wired, onPogo, radio - 1))
    /\ notice' = (notice \/ radio = 1)
    /\ level' = IF radio = 1 /\ ~wired THEN "none" ELSE level
    /\ UNCHANGED <<wired, onPogo, told, usbAsked, radioAsked>>

-----------------------------------------------------------------------------
(* KEYBOARD_CONNECTION_GRACE has passed. *)
GraceElapses ==
    /\ gone = "fresh"
    /\ gone' = "expired"
    /\ UNCHANGED <<linkState, lastKind, publishing, battery>>

(* notify_keyboard_connection_changed: the value is read as it is sent. *)
Publish == told' = Effective

NoticeRuns ==
    /\ notice
    /\ Publish
    /\ notice' = FALSE
    /\ UNCHANGED <<linkState, kind, timer, oldTimer, battery>>

(* The newest refresh sleeps as long as the grace it was started for; that *)
(* grace may have been cut short by a keyboard that came back.             *)
RefreshFires ==
    /\ timer /\ gone # "fresh"
    /\ Publish
    /\ timer' = FALSE
    /\ UNCHANGED <<linkState, kind, notice, oldTimer, battery>>

OldRefreshFires ==
    /\ oldTimer
    /\ Publish
    /\ oldTimer' \in BOOLEAN
    /\ UNCHANGED <<linkState, kind, notice, timer, battery>>

-----------------------------------------------------------------------------
(* A report on the interrupt endpoint, or run_usb_battery_get_poll. *)
UsbAsks ==
    /\ wired
    /\ usbAsked' = TRUE
    /\ UNCHANGED <<linkState, kind, publishing, level, radioAsked>>

(* set_keyboard_battery_usb *)
UsbAnswers ==
    /\ usbAsked
    /\ usbAsked' = FALSE
    /\ level' = IF wired THEN "usb" ELSE level
    /\ UNCHANGED <<linkState, kind, publishing, radioAsked>>

(* monitor_bt_battery_once, or the refresh that an unplug or a first      *)
(* Bluetooth session spawns: all of them look first whether USB is there. *)
RadioAsks ==
    /\ ~wired
    /\ radioAsked' = TRUE
    /\ UNCHANGED <<linkState, kind, publishing, level, usbAsked>>

(* Fault: whether the keyboard is wired is looked at only before asking. *)
RadioAnswers_Unchecked ==
    /\ radioAsked
    /\ radioAsked' = FALSE
    /\ level' = "radio"
    /\ UNCHANGED <<linkState, kind, publishing, usbAsked>>

(* set_keyboard_battery_bluetooth *)
RadioAnswers ==
    /\ radioAsked
    /\ radioAsked' = FALSE
    /\ level' = IF wired THEN level ELSE "radio"
    /\ UNCHANGED <<linkState, kind, publishing, usbAsked>>

(* clear_keyboard_battery_if_no_source: BlueZ says it is not connected. *)
ClearIfNoSource ==
    /\ ~wired /\ radio = 0
    /\ level' = "none"
    /\ UNCHANGED <<linkState, kind, publishing, usbAsked, radioAsked>>

-----------------------------------------------------------------------------
Calls ==
    \/ \E u, p \in BOOLEAN : (p => u) /\ SetUsbKeyboardConnection(u, p)
    \/ BluetoothConnectionStarted
    \/ BluetoothConnectionStopped

Samples == UsbAsks \/ UsbAnswers \/ RadioAsks \/ RadioAnswers \/ ClearIfNoSource

ConnNext ==
    \/ Calls
    \/ GraceElapses
    \/ NoticeRuns \/ RefreshFires \/ OldRefreshFires
    \/ Samples

ConnSpec == ConnInit /\ [][ConnNext]_connVars

-----------------------------------------------------------------------------
(* With nothing on its way, what was published is what a reader of the      *)
(* property would be told: also after a kind that changed by itself when    *)
(* the grace ended, and whatever was unplugged and plugged in meanwhile.    *)
ObserversKnow ==
    ~notice /\ ~(timer /\ gone = "expired") => told = Effective

(* A keyboard is shown as detached only at the end of its grace: never on   *)
(* the way from one connection to the other. *)
DetachedOnlyAfterGrace ==
    [][Effective # "Detached" /\ Effective' = "Detached" =>
          Raw = "Detached" /\ gone = "fresh" /\ gone' = "expired"]_connVars

(* A level of the USB keyboard is shown only while it is wired, however     *)
(* late its answer comes, and no Bluetooth level replaces it while it is.   *)
SamplesMatchLink ==
    [][/\ level' = "usb" => wired'
       /\ level' = "radio" /\ level # "radio" => ~wired']_connVars

(* A keyboard that stays away is published as detached. *)
LossIsTold == (Raw = "Detached") ~> (Raw # "Detached" \/ told = "Detached")
=============================================================================
