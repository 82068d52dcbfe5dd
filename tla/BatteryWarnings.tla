-------------------------- MODULE BatteryWarnings --------------------------
(***************************************************************************)
(* The session daemon's warnings about the battery of the keyboard.        *)
(*                                                                         *)
(* One task watches the root daemon's properties, in one of two loops: on  *)
(* USB it tells of milestones of a charge, on Bluetooth of tiers of a      *)
(* discharge.  It changes loops whenever it finds the keyboard connected   *)
(* the other way, and starts over after an error; what was told already    *)
(* lives in latches that outlast both, because a loop that starts knows    *)
(* nothing of the level before.                                            *)
(*                                                                         *)
(* Everything it reads may have changed at every await, so that each read  *)
(* may give any value.  A step tells the user a set of things, `toasts'.   *)
(***************************************************************************)
EXTENDS Integers

CONSTANTS
    MaxLevel,                       \* 100 %
    Critical, Severe, Warning,      \* tiers of a discharge, from BatteryUiConfig
    Half, High,                     \* milestones of a charge, likewise
    FullAt                          \* BATTERY_FULL_PCT_THRESHOLD

(* BatteryUiConfig::validate *)
ASSUME LevelsAssumption ==
    /\ {MaxLevel, Critical, Severe, Warning, Half, High, FullAt} \subseteq Nat
    /\ Critical < Severe /\ Severe < Warning /\ Warning <= MaxLevel
    /\ Half < High /\ High <= MaxLevel
    /\ FullAt <= MaxLevel

VARIABLES
    watch,          \* the loop: "usb", "bluetooth", or "none" before and between
    lastPct,        \* its last_pct
    belowFull,      \* its was_below_full
    shown,          \* KeyboardBatteryWarn: tiers told of
    shownCharge,    \* KeyboardBatteryChargeWarn: milestones told of
    toasts,         \* what the last step told the user
    dip,            \* history: tiers told of in this dip, by name or by a worse one
    charge,         \* history: the rank of the highest milestone told of in this charge
    seen            \* history: the Bluetooth loop has handled lastPct

latches == <<shown, shownCharge>>
warnVars == <<watch, lastPct, belowFull, latches, toasts, dip, charge, seen>>

Level == 0 .. MaxLevel
Tiers == {"warning", "severe", "critical"}
Threshold == [critical |-> Critical, severe |-> Severe, warning |-> Warning]
Milestones == {"half", "high", "full"}
Rank == [half |-> 1, high |-> 2, full |-> 3]

WarnTypeOK ==
    /\ watch \in {"none", "usb", "bluetooth"}
    /\ lastPct \in Level /\ belowFull \in BOOLEAN
    /\ shown \subseteq Tiers /\ shownCharge \subseteq Milestones
    /\ toasts \subseteq Tiers \cup Milestones \cup {"charged", "disconnected"}
    /\ dip \subseteq Tiers /\ charge \in 0 .. 3
    /\ seen \in BOOLEAN

WarnInit ==
    /\ watch = "none"
    /\ lastPct = 0 /\ belowFull = FALSE
    /\ shown = {} /\ shownCharge = {}
    /\ toasts = {}
    /\ dip = {} /\ charge = 0 /\ seen = FALSE

-----------------------------------------------------------------------------
(* is_keyboard_battery_full *)
Full(pct, firmwareFull) == firmwareFull \/ pct >= FullAt

Reached(pct) == {t \in Tiers : pct <= Threshold[t]}
Worst(tiers) == {t \in tiers : \A u \in tiers : Threshold[t] <= Threshold[u]}

(* These tiers and every lesser one. *)
AndLesser(tiers) == {t \in Tiers : \E u \in tiers : Threshold[u] <= Threshold[t]}

Due(pct) == Worst(Reached(pct) \ shown)

(* Fault: a tier latches only itself. *)
WarnDetached_Singly(pct) == shown' = (shown \cap Reached(pct)) \cup Due(pct)

(* clear_recovered and maybe_emit_battery_warning_detached_bt: the worst    *)
(* tier that is due is told of, and latches the lesser ones too.            *)
WarnDetached(pct) ==
    shown' = (shown \cap Reached(pct)) \cup AndLesser(Due(pct))

Remember(pct) ==
    dip' = (dip \cap Reached(pct)) \cup AndLesser(toasts' \cap Tiers)

(* monitor_bluetooth_keyboard_battery, before its loop. *)
EnterBluetooth ==
    /\ watch = "none" /\ watch' = "bluetooth"
    /\ \/ \E pct \in Level, firmwareFull \in BOOLEAN :
             /\ WarnDetached(pct)
             /\ toasts' = Due(pct)
             /\ Remember(pct)
             /\ lastPct' = pct /\ belowFull' = ~Full(pct, firmwareFull)
             /\ seen' = TRUE
       \/ /\ lastPct' = 0 /\ belowFull' = FALSE
          /\ toasts' = {} /\ seen' = FALSE
          /\ UNCHANGED <<shown, dip>>
    /\ UNCHANGED <<shownCharge, charge>>

(* The loop: a level that has not changed is not looked at, else            *)
(* on_battery_pct_update.                                                   *)
BluetoothLevel(pct, firmwareFull) ==
    /\ watch = "bluetooth"
    /\ IF pct = lastPct
       THEN toasts' = {} /\ UNCHANGED <<shown, dip, seen>>
       ELSE /\ WarnDetached(pct)
            /\ toasts' = Due(pct) \cup
                  (IF pct >= FullAt /\ belowFull THEN {"charged"} ELSE {})
            /\ Remember(pct)
            /\ seen' = TRUE
    /\ lastPct' = pct /\ belowFull' = ~Full(pct, firmwareFull)
    /\ UNCHANGED <<watch, shownCharge, charge>>

(* The user is told, and the task starts over after 15 s. *)
BluetoothGone ==
    /\ watch = "bluetooth" /\ watch' = "none"
    /\ toasts' = {"disconnected"} /\ seen' = FALSE
    /\ UNCHANGED <<lastPct, belowFull, latches, dip, charge>>

(* The keyboard is found connected the other way, or a read of the bus that *)
(* is not defaulted fails. *)
LoopEnds ==
    /\ watch # "none" /\ watch' = "none"
    /\ toasts' = {} /\ seen' = FALSE
    /\ UNCHANGED <<lastPct, belowFull, latches, dip, charge>>

-----------------------------------------------------------------------------
(* maybe_emit_battery_charging_milestones: more than one may be due. *)
ChargeDue(pct, charging, latched) ==
    {m \in {"half", "high"} \ latched :
        charging /\ pct >= (IF m = "half" THEN Half ELSE High)}

(* Fault: full latches itself, but not the lesser milestones. *)
ChargeLatch_Singly(latched, told) == latched \cup told

(* maybe_emit_battery_full_charged latches all of them. *)
ChargeLatch(latched, told) ==
    IF "full" \in told THEN Milestones ELSE latched \cup told

(* on_usb_battery_update *)
UsbUpdate(pct, charging, firmwareFull, latched, below) ==
    LET lesser == ChargeDue(pct, charging, latched)
        full == Full(pct, firmwareFull)
        told == lesser \cup (IF full /\ below /\ "full" \notin latched
                             THEN {"full"} ELSE {})
    IN  /\ toasts' = told
        /\ shownCharge' = ChargeLatch(latched, told)
        /\ belowFull' = ~full

RememberCharge(before) ==
    LET ranks == {before} \cup {Rank[m] : m \in toasts'}
    IN  charge' = CHOOSE r \in ranks : \A q \in ranks : q <= r

(* monitor_usb_keyboard_battery, before its loop: a level below half means  *)
(* that a new charge begins. *)
EnterUsb ==
    /\ watch = "none" /\ watch' = "usb"
    /\ \/ \E pct \in Level, charging, firmwareFull \in BOOLEAN :
             LET latched == IF pct < Half THEN {} ELSE shownCharge
             IN  /\ lastPct' = pct
                 /\ IF firmwareFull
                    THEN UsbUpdate(pct, charging, TRUE, latched, FALSE)
                    ELSE /\ toasts' = {} /\ shownCharge' = latched
                         /\ belowFull' = ~Full(pct, FALSE)
                 /\ RememberCharge(IF pct < Half THEN 0 ELSE charge)
       \/ /\ lastPct' = 0 /\ belowFull' = TRUE
          /\ toasts' = {} /\ shownCharge' = {} /\ charge' = 0
    /\ UNCHANGED <<shown, dip, seen>>

UsbLevel(pct, charging, firmwareFull) ==
    /\ watch = "usb"
    /\ IF pct = lastPct /\ ~firmwareFull
       THEN toasts' = {} /\ UNCHANGED <<shownCharge, belowFull>>
       ELSE UsbUpdate(pct, charging, firmwareFull, shownCharge, belowFull)
    /\ lastPct' = pct
    /\ RememberCharge(charge)
    /\ UNCHANGED <<watch, shown, dip, seen>>

-----------------------------------------------------------------------------
WarnNext ==
    \/ EnterBluetooth \/ BluetoothGone \/ EnterUsb \/ LoopEnds
    \/ \E pct \in Level, firmwareFull \in BOOLEAN :
          \/ BluetoothLevel(pct, firmwareFull)
          \/ \E charging \in BOOLEAN : UsbLevel(pct, charging, firmwareFull)

WarnSpec == WarnInit /\ [][WarnNext]_warnVars

-----------------------------------------------------------------------------
(* One dip of the level warns of each tier once, however often the keyboard *)
(* changes to USB and back or the task starts over: no tier is told of      *)
(* after itself or a worse one, unless the level was seen above it since.   *)
(* And no tier is left out: a level that was handled has been warned of.    *)
WarnedOncePerDip ==
    [][/\ toasts' \cap dip = {}
       /\ seen' /\ watch' = "bluetooth" => Reached(lastPct') \subseteq dip']_warnVars

(* In one charge the milestones only rise: none is told of after itself or  *)
(* a higher one, also when the plug is pulled and put back above half.      *)
MilestonesRise ==
    [][\A m \in toasts' \cap Milestones : Rank[m] > charge]_warnVars
=============================================================================
