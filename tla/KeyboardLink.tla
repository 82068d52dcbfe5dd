---------------------------- MODULE KeyboardLink ----------------------------
(***************************************************************************)
(* The keyboard as the root daemon sees it: the USB sessions, the Bluetooth *)
(* sessions and the connection state of state.rs in one process.           *)
(*                                                                         *)
(* The hotplug monitor, the receive tasks and the resume handler on one    *)
(* side and the readers of input nodes on the other call the setters of    *)
(* state.rs, in whichever order the executor runs them.  Each call is one  *)
(* step with the step that makes it.  When the process ends, all three     *)
(* begin anew, with the keyboard and the nodes as they are.                *)
(***************************************************************************)
EXTENDS UsbSessions, BluetoothSessions, ConnectionState

(* The bound of ConnectionState is no less than BluetoothSessions can reach. *)
ASSUME SessionsFit == Cardinality(Keys) <= MaxSessions

keyboardVars == <<usbVars, btVars, connVars>>

(* What UsbSessions and BluetoothSessions say of the state is what the      *)
(* state has. *)
StateIsShared == wired = usb /\ onPogo = pogo /\ radio = btCount

LinkInit == UsbInit /\ BtInit /\ ConnInit /\ StateIsShared

(* run_daemon has got to its tasks. *)
Up == step = "idle" \/ watching

-----------------------------------------------------------------------------
(* KeyboardStateManager::new *)
StateBegins(u, p) ==
    /\ wired' = u /\ onPogo' = p /\ radio' = 0
    /\ lastKind' = RawOf(u, p, 0) /\ gone' = "no"
    /\ notice' = FALSE /\ timer' = FALSE /\ oldTimer' = FALSE
    /\ told' = RawOf(u, p, 0)
    /\ level' = "none" /\ usbAsked' = FALSE /\ radioAsked' = FALSE

(* The process ends, by a panic or for any other reason, and is started     *)
(* again. *)
ProcessBegins ==
    /\ Panic
    /\ created' = present /\ scanned' = FALSE
    /\ probe' = Idle /\ claims' = {} /\ readers' = {} /\ lost' = {}
    /\ btCount' = 0
    /\ UNCHANGED present
    /\ StateBegins(FALSE, FALSE)

-----------------------------------------------------------------------------
(* Steps of the USB side that leave the state alone. *)
UsbWorks ==
    /\ \/ PlugIn \/ Unplug
       \/ BootFind \/ Watch \/ Connected \/ Settled \/ Disconnected
       \/ (Open \/ Claim) /\ step' # "find"
       \/ ClaimRefused \/ Restore \/ ResumeFinds
    /\ UNCHANGED <<btVars, connVars>>

(* Fault: the state is made before the port is looked at. *)
StateBeginsWired_BeforeDetection ==
    BootState /\ StateBegins(TRUE, FALSE) /\ UNCHANGED btVars

(* run_daemon with a keyboard that was found. *)
StateBeginsWired == BootState /\ StateBegins(TRUE, pogo') /\ UNCHANGED btVars

(* A call is made, except that a resume keeps what is right already and a   *)
(* receive task that was superseded says nothing. *)
UsbCalls ==
    /\ \/ /\ Detect \/ \E s \in Devices : s = latest /\ ReceiverStops(s)
          /\ SetUsbKeyboardConnection(usb', pogo')
       \/ /\ \E s \in Devices : s # latest /\ ReceiverStops(s)
          /\ UNCHANGED connVars
       \/ /\ ResumeCorrects
          /\ IF usb' = usb /\ pogo' = pogo
             THEN UNCHANGED connVars
             ELSE SetUsbKeyboardConnection(usb', pogo')
    /\ UNCHANGED btVars

(* Steps of the Bluetooth side; the scan lists what appeared before it. *)
RadioWorks ==
    /\ \/ \E node \in Nodes : Appear(node) /\ (Up \/ node \in created')
       \/ \E node \in Nodes : Vanish(node)
       \/ Up /\ (ScanEnds \/ Reopen \/ GiveUp \/ \E node \in Nodes : Take(node))
    /\ UNCHANGED <<usbVars, connVars>>

(* Fault: the state is told only by the first node, and of every end. *)
RadioCalls_NotStopped ==
    /\ \/ Register /\ (IF btCount' = btCount THEN UNCHANGED connVars
                       ELSE BluetoothConnectionStarted)
       \/ /\ \E l \in Links : ReaderEnds(l)
          /\ UNCHANGED connVars
    /\ UNCHANGED usbVars

RadioCalls ==
    /\ \/ Register /\ (IF btCount' = btCount THEN UNCHANGED connVars
                       ELSE BluetoothConnectionStarted)
       \/ /\ \E l \in Links : ReaderEnds(l)
          /\ IF btCount' = btCount THEN UNCHANGED connVars
             ELSE BluetoothConnectionStopped
    /\ UNCHANGED usbVars

StateWorks ==
    /\ GraceElapses \/ NoticeRuns \/ RefreshFires \/ OldRefreshFires
       \/ (Up /\ Samples)
    /\ UNCHANGED <<usbVars, btVars>>

LinkNext ==
    \/ ProcessBegins
    \/ UsbWorks \/ StateBeginsWired \/ UsbCalls
    \/ RadioWorks \/ RadioCalls
    \/ StateWorks

LinkSpec == LinkInit /\ [][LinkNext]_keyboardVars

-----------------------------------------------------------------------------
(* The three components' states, and the two of them agree with the third.  *)
LinkTypeOK == UsbTypeOK /\ BtTypeOK /\ ConnTypeOK /\ StateIsShared

(* Nothing is on its way: neither an event nor a shutdown, neither a reader *)
(* whose node is gone nor a publication, and no grace. *)
Calm ==
    /\ AtRest /\ ~astray
    /\ lost = {}
    /\ ~notice /\ gone # "fresh" /\ ~(timer /\ gone = "expired")

(* From the plug to the property: whatever was plugged, moved, paired, lost *)
(* and crashed in which order, the kind that observers were told in the end *)
(* is how a keyboard is connected, and USB goes before Bluetooth.           *)
KeyboardIsShown ==
    Calm => /\ told \in {"Usb", "Pogo"} <=> plugged # NoDevice
            /\ told = "Pogo" => docked
            /\ told = "Bluetooth" => present # {}
            /\ told = "Detached" => Sessions = {}
=============================================================================
