---------------------------- MODULE AmbientLight ----------------------------
(***************************************************************************)
(* The root daemon's view of the light sensor, which decides whether the   *)
(* keyboard is lit in the dark (KeyboardBacklight).                        *)
(*                                                                         *)
(* Readings that drift from the known level open a window of 20 s; its     *)
(* average becomes the known level if it drifts, too.  A reading that      *)
(* crosses the threshold into the dark is taken at once.  The monitor ends *)
(* at any error and is started again; without a sensor it waits for good.  *)
(*                                                                         *)
(* A level is kept as the sum and the number of its readings, so that the  *)
(* averages are exact.  The clock is abstracted: a window may end whenever *)
(* it is open.                                                             *)
(***************************************************************************)
EXTENDS Integers

CONSTANTS
    Lux,            \* the levels of light
    DarkLux,        \* LOW_LIGHT_KEYBOARD_BACKLIGHT_LUX_THRESHOLD
    MaxSamples      \* bound: readings in a window before its end

ASSUME LightAssumption ==
    /\ Lux \subseteq Nat
    /\ DarkLux \in Nat
    /\ MaxSamples \in Nat \ {0}

VARIABLES
    lux,            \* the light
    monitor,        \* how far the monitor has come
    stable,         \* AmbientLightSmoother: the level it goes by
    samples,        \* and the readings in its window
    known           \* ambient_light_lux of InnerState, empty for None

lightVars == <<lux, monitor, stable, samples, known>>

Reading(l) == [sum |-> l, count |-> 1]
NoSamples == [sum |-> 0, count |-> 0]
With(level, l) == [sum |-> level.sum + l, count |-> level.count + 1]

IsLevel(level) == level.sum \in Nat /\ level.count \in Nat \ {0}

LightTypeOK ==
    /\ lux \in Lux
    /\ monitor \in {"down", "absent", "claimed", "running"}
    /\ IsLevel(stable)
    /\ samples = NoSamples \/ (IsLevel(samples) /\ samples.count <= MaxSamples)
    /\ monitor = "running" => known = {stable}
    /\ monitor # "running" => known = {}

LightInit ==
    /\ lux \in Lux
    /\ monitor = "down"
    /\ stable = Reading(DarkLux)
    /\ samples = NoSamples
    /\ known = {}

-----------------------------------------------------------------------------
Distance(i, j) == IF i < j THEN j - i ELSE i - j

(* required_drift_lux: a tenth of the level gone by and at least 1 lux; all  *)
(* is multiplied by ten and both counts. *)
Drifts(level, from) ==
    10 * Distance(level.sum * from.count, from.sum * level.count)
        >= level.count * (IF from.sum > 10 * from.count THEN from.sum
                          ELSE 10 * from.count)

IsDark(level) == level.sum <= DarkLux * level.count

(* Fault: darkness waits for the window, too. *)
PromotesDark_Never(l) == FALSE

PromotesDark(l) == ~IsDark(stable) /\ IsDark(Reading(l))

(* What is reported goes to InnerState. *)
GoesBy(level) == stable' = level /\ known' = {level}

(* observe_level, at a change and at the refresh. *)
Observe ==
    /\ monitor = "running"
    /\ \/ /\ PromotesDark(lux)
          /\ GoesBy(Reading(lux))
          /\ samples' = NoSamples
       \/ /\ ~PromotesDark(lux)
          /\ IF samples # NoSamples \/ Drifts(Reading(lux), stable)
             THEN samples.count < MaxSamples /\ samples' = With(samples, lux)
             ELSE UNCHANGED samples
          /\ UNCHANGED <<stable, known>>
    /\ UNCHANGED <<lux, monitor>>

(* finish_window, at the deadline. *)
WindowEnds ==
    /\ monitor = "running" /\ samples # NoSamples
    /\ LET average == With(samples, lux)
       IN  IF Drifts(average, stable) THEN GoesBy(average)
           ELSE UNCHANGED <<stable, known>>
    /\ samples' = NoSamples
    /\ UNCHANGED <<lux, monitor>>

(* run: has_ambient_light; a claim that fails is no error. *)
SensorMonitorStarts ==
    /\ monitor = "down"
    /\ monitor' \in {"claimed", "absent"}
    /\ UNCHANGED <<lux, stable, samples, known>>

(* The first reading; the smoother is new. *)
FirstReading ==
    /\ monitor = "claimed"
    /\ monitor' = "running"
    /\ GoesBy(Reading(lux))
    /\ samples' = NoSamples
    /\ UNCHANGED lux

(* A call fails or the stream of changes ends; main clears what is known and *)
(* tries again in 5 s. *)
MonitorFails ==
    /\ monitor \in {"claimed", "running"}
    /\ monitor' = "down"
    /\ known' = {}
    /\ samples' = NoSamples
    /\ UNCHANGED <<lux, stable>>

LightChanges == \E l \in Lux : l # lux /\ lux' = l /\ UNCHANGED <<monitor, stable, samples, known>>

LightNext ==
    \/ LightChanges
    \/ Observe \/ WindowEnds
    \/ SensorMonitorStarts \/ FirstReading \/ MonitorFails

LightSpec ==
    /\ LightInit /\ [][LightNext]_lightVars
    /\ WF_lightVars(SensorMonitorStarts) /\ WF_lightVars(FirstReading)
    /\ WF_lightVars(Observe) /\ WF_lightVars(WindowEnds)

-----------------------------------------------------------------------------
(* Once the light stays as it is and the sensor works, the known level ends  *)
(* within the required drift of it, whatever the averages of earlier windows *)
(* were, and a dark room ends known as dark. *)
KnownFollowsLight ==
    \A l \in Lux :
        <>[](lux = l /\ monitor \in {"claimed", "running"}) =>
            <>[](\E level \in known :
                    /\ ~Drifts(Reading(l), level)
                    /\ l <= DarkLux => IsDark(level))
=============================================================================
