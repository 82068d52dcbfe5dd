------------------------------ MODULE MC_Parts ------------------------------
(* Small instances of eight parts of the two daemons that share no variable   *)
(* here.  Each is explored by itself: `part' is chosen at the start, the    *)
(* others rest in one of their initial states.                              *)
EXTENDS UsbSessions, BluetoothSessions, ConnectionState, BatteryWarnings,
        ResultTokens, AmbientReports, MicMuteLed, AmbientLight

VARIABLE part

PartNames == {"usb", "bluetooth", "state", "warnings", "tokens", "ambient",
              "led", "light"}

keyboardParts == <<usbVars, btVars, connVars>>
sessionParts == <<warnVars, tokenVars, ambientVars>>
rootParts == <<vars, lightVars>>
partsVars == <<keyboardParts, sessionParts, rootParts, part>>

PartsInit ==
    /\ UsbInit /\ BtInit /\ ConnInit /\ WarnInit /\ TokenInit /\ AmbientInit
    /\ Init /\ LightInit
    /\ part \in PartNames
    /\ part # "usb" => plugged = NoDevice /\ ~docked
    /\ part # "bluetooth" => present = {}
    /\ part # "state" => ~wired
    /\ part # "tokens" => use = "dock"
    /\ part # "ambient" => ~setting /\ ~rootAmbient
    /\ part # "led" => ~source
    /\ part # "light" => lux = DarkLux

(* The display task may hang on a full channel until the next update: the   *)
(* bound on updates is no deadlock. *)
NoMoreUpdates == sent = MaxUpdates /\ UNCHANGED tokenVars

KeyboardPart ==
    \/ part = "usb" /\ UsbNext /\ UNCHANGED <<btVars, connVars>>
    \/ part = "bluetooth" /\ BtNext /\ UNCHANGED <<usbVars, connVars>>
    \/ part = "state" /\ ConnNext /\ UNCHANGED <<usbVars, btVars>>

SessionPart ==
    \/ part = "warnings" /\ WarnNext /\ UNCHANGED <<tokenVars, ambientVars>>
    \/ /\ part = "tokens" /\ (TokenNext \/ NoMoreUpdates)
       /\ UNCHANGED <<warnVars, ambientVars>>
    \/ part = "ambient" /\ AmbientNext /\ UNCHANGED <<warnVars, tokenVars>>

RootPart ==
    \/ part = "led" /\ Next /\ UNCHANGED lightVars
    \/ part = "light" /\ LightNext /\ UNCHANGED vars

PartsNext ==
    \/ KeyboardPart /\ UNCHANGED <<sessionParts, rootParts, part>>
    \/ SessionPart /\ UNCHANGED <<keyboardParts, rootParts, part>>
    \/ RootPart /\ UNCHANGED <<keyboardParts, sessionParts, part>>

(* The executor polls the tasks that are ready, threads go on and timers     *)
(* fire; users, kernel, PulseAudio, the light, crashes and resumes get no    *)
(* fairness. *)
PartsFairness ==
    /\ WF_usbVars(part = "usb" /\ Monitor)
    /\ \A s \in Devices : WF_usbVars(part = "usb" /\ ReceiverStops(s))
    /\ WF_usbVars(part = "usb" /\ ResumeCorrects)
    /\ WF_btVars(part = "bluetooth" /\ BtMonitor)
    /\ \A l \in Links : WF_btVars(part = "bluetooth" /\ ReaderEnds(l))
    /\ WF_connVars(part = "state" /\ GraceElapses)
    /\ WF_connVars(part = "state" /\ NoticeRuns)
    /\ WF_connVars(part = "state" /\ RefreshFires)
    /\ \A t \in Threads : WF_vars(part = "led" /\ ThreadStep(t))
    /\ WF_vars(part = "led" /\ MainFinishes)
    /\ SF_vars(part = "led" /\ ControlTaskStep)
    /\ WF_lightVars(part = "light" /\ SensorMonitorStarts)
    /\ WF_lightVars(part = "light" /\ FirstReading)
    /\ WF_lightVars(part = "light" /\ Observe)
    /\ WF_lightVars(part = "light" /\ WindowEnds)

PartsSpec == PartsInit /\ [][PartsNext]_partsVars /\ PartsFairness

(* Every part's state is what its code can make of it: in particular a dock *)
(* without USB is never recorded, neither by the monitor and the receive    *)
(* tasks nor by the setters of state.rs. *)
PartsTypeOK ==
    /\ UsbTypeOK /\ BtTypeOK /\ ConnTypeOK
    /\ WarnTypeOK /\ TokenTypeOK /\ AmbientTypeOK
    /\ TypeOK /\ LightTypeOK
=============================================================================
