------------------------- MODULE KeyboardLink_proofs -------------------------
(***************************************************************************)
(* Proofs about the compositions, for all values of the constants: the     *)
(* keyboard in one process (KeyboardLink), and the parts that are explored *)
(* side by side (MC_RootParts, MC_Parts).                                  *)
(*                                                                         *)
(* The inductive invariant of KeyboardLink is that of its three components *)
(* and that they agree.  Between two ends of the process each of its steps *)
(* is a step of each component (SidesStep), so that what was proved of a   *)
(* component is not proved again.                                          *)
(***************************************************************************)
EXTENDS MC_RootParts, MC_Parts, UsbSessions_proofs, Parts_proofs, RootParts_proofs

(* Before its tasks are started, a process has no reader: only so may the   *)
(* state begin with no keyboard on Bluetooth. *)
QuietUntilUp == ~Up => probe = Idle /\ claims = {} /\ readers = {} /\ btCount = 0

LinkInv ==
    /\ IInv
    /\ BtInv /\ ReadersHaveNodes
    /\ ConnInv
    /\ StateIsShared /\ QuietUntilUp

-----------------------------------------------------------------------------
(* A new process. *)
LEMMA StateBegun ==
    ASSUME NEW u \in BOOLEAN, NEW p \in BOOLEAN, p => u, StateBegins(u, p)
    PROVE  ConnInv'
<1>1. /\ notice' \in BOOLEAN /\ timer' \in BOOLEAN /\ oldTimer' \in BOOLEAN
      /\ usbAsked' \in BOOLEAN /\ radioAsked' \in BOOLEAN
    BY Zenon DEF StateBegins
<1>2. ConnTypeOK'
    BY <1>1, MaxSessionsAssumption DEF StateBegins, ConnTypeOK, Kinds, RawOf
<1> QED
    BY <1>2
    DEF StateBegins, ConnInv, ConnTypeOK, ObserversKnow, Effective, Raw, RawOf, Kinds

LEMMA LinkInitially == LinkInit => LinkInv
    BY Starts, BtInitially, NodesInitially, ConnInitially
    DEF LinkInit, LinkInv, QuietUntilUp, BtInit

LEMMA ProcessBeginsKeeps == LinkInv /\ ProcessBegins => LinkInv'
<1> SUFFICES ASSUME LinkInv, ProcessBegins PROVE LinkInv'
    OBVIOUS
<1>1. IInv'
    BY PanicKeeps DEF LinkInv, ProcessBegins
<1>2. Sessions' = {}
    BY DEF ProcessBegins, Sessions, Of
<1>3. scanned' \in BOOLEAN
    BY Zenon DEF ProcessBegins
<1>4. BtInv'
    BY <1>2, <1>3, FS_EmptySet
    DEF LinkInv, ProcessBegins, BtInv, BtTypeOK, SessionsAreCounted, Probes
<1>5. ReadersHaveNodes'
    BY DEF ProcessBegins, ReadersHaveNodes, Idle
<1>6. ConnInv'
    BY StateBegun DEF ProcessBegins
<1>7. StateIsShared'
    BY Zenon DEF ProcessBegins, Panic, StateBegins, StateIsShared
<1>8. QuietUntilUp'
    BY DEF ProcessBegins, QuietUntilUp
<1> QED
    BY <1>1, <1>4, <1>5, <1>6, <1>7, <1>8 DEF LinkInv

-----------------------------------------------------------------------------
(* Every other step is one of each side; the state may also begin. *)
Sides ==
    /\ [UsbNext]_usbVars
    /\ [BtNext]_btVars
    /\ [ConnNext]_connVars \/ StateBeginsWired

(* A step of the USB side that tells nothing leaves the belief alone. *)
LEMMA UsbWorksSides ==
    ASSUME LinkInv, UsbWorks PROVE Sides /\ StateIsShared'
<1>1. [UsbNext]_usbVars
    BY Zenon DEF UsbWorks, UsbNext, Monitor
<1>2. (Open \/ Claim) /\ step' # "find" => UNCHANGED state
    BY DEF Open, Claim, Panic
<1>3. UNCHANGED state
    BY <1>2, Zenon
    DEF UsbWorks, PlugIn, Unplug, BootFind, Watch, Connected, Settled, Disconnected,
        ClaimRefused, Restore, ResumeFinds
<1>4. UNCHANGED <<btVars, connVars>>
    BY Zenon DEF UsbWorks
<1> QED
    BY <1>1, <1>3, <1>4
    DEF LinkInv, Sides, StateIsShared, state, btVars, connVars, linkState

LEMMA StateBeginsWiredSides ==
    ASSUME LinkInv, StateBeginsWired PROVE Sides /\ StateIsShared' /\ ConnInv'
<1>1. [UsbNext]_usbVars
    BY Zenon DEF StateBeginsWired, UsbNext, Monitor
<1>2. IInv'
    BY BootStateKeeps DEF LinkInv, StateBeginsWired
<1>3. usb' = TRUE /\ pogo' \in BOOLEAN
    BY <1>2, Zenon DEF StateBeginsWired, BootState, SetUsb, IInv, UsbTypeOK
<1>4. ConnInv'
    BY <1>3, StateBegun DEF StateBeginsWired
<1>5. btCount = 0
    BY DEF StateBeginsWired, BootState, LinkInv, IInv, Booting, QuietUntilUp, Up
<1> QED
    BY <1>1, <1>3, <1>4, <1>5
    DEF LinkInv, Sides, StateIsShared, StateBeginsWired, StateBegins, btVars

(* What the monitor, a receive task or a resume tells the state is a USB    *)
(* keyboard that may be docked, or none. *)
LEMMA UsbCallsSides ==
    ASSUME LinkInv, UsbCalls PROVE Sides /\ StateIsShared'
<1>1. [UsbNext]_usbVars
    BY Zenon DEF UsbCalls, UsbNext, Monitor
<1>2. usb' \in BOOLEAN /\ pogo' \in BOOLEAN /\ (pogo' => usb')
    BY <1>1, UsbStep DEF LinkInv, IInv, UsbTypeOK
<1>3. CASE SetUsbKeyboardConnection(usb', pogo')
  <2>1. Calls
      BY <1>2, <1>3 DEF Calls
  <2> QED
      BY <1>1, <1>3, <2>1
      DEF LinkInv, Sides, StateIsShared, UsbCalls, ConnNext, SetUsbKeyboardConnection, btVars
<1>4. CASE UNCHANGED connVars /\ UNCHANGED state
    BY <1>1, <1>4
    DEF LinkInv, Sides, StateIsShared, UsbCalls, btVars, connVars, linkState, state
<1>5. ASSUME NEW s \in Devices, s # latest, ReceiverStops(s) PROVE UNCHANGED state
    BY <1>5 DEF ReceiverStops
<1> QED
    BY <1>3, <1>4, <1>5, Zenon DEF UsbCalls, state

LEMMA RadioWorksSides ==
    ASSUME LinkInv, RadioWorks PROVE Sides /\ StateIsShared'
<1>1. [BtNext]_btVars
    BY Zenon DEF RadioWorks, BtNext, BtMonitor
<1>2. UNCHANGED btCount
    BY DEF RadioWorks, Appear, Vanish, ScanEnds, Reopen, GiveUp, Take
<1> QED
    BY <1>1, <1>2
    DEF LinkInv, Sides, StateIsShared, RadioWorks, usbVars, state, connVars, linkState

(* A session that is added was not among all keys, and one that is removed  *)
(* is counted: neither bound of the count is met. *)
LEMMA RoomForSession ==
    ASSUME BtInv, NEW l \in Links, Of(claims, l[2]) = {} PROVE btCount < MaxSessions
<1>1. IsFiniteSet(Keys) /\ Sessions \subseteq Keys
    BY BluetoothAssumption, FS_Union DEF Keys, Sessions
<1>2. l[2] \in Keys /\ l[2] \notin Sessions
    BY DEF Links, Sessions
<1>3. Cardinality(Sessions) < Cardinality(Keys)
  <2>1. Sessions # Keys
      BY <1>2
  <2> QED
      BY <1>1, <2>1, FS_Subset, FS_CardinalityType
<1> QED
    BY <1>1, <1>3, SessionsFit, SessionsAreFinite, FS_CardinalityType, MaxSessionsAssumption
    DEF BtInv, SessionsAreCounted

LEMMA EndIsCounted == BtInv /\ lost # {} => btCount > 0
<1> SUFFICES ASSUME BtInv, NEW l \in lost PROVE btCount > 0
    OBVIOUS
<1>1. l \in claims /\ l[2] \in Keys
    BY DEF BtInv, BtTypeOK, SessionsAreCounted, Links
<1>2. l[2] \in Sessions
    BY <1>1 DEF Sessions, Of
<1> QED
    BY <1>2, SessionsAreFinite, FS_EmptySet DEF BtInv, SessionsAreCounted

LEMMA RadioCallsSides ==
    ASSUME LinkInv, RadioCalls PROVE Sides /\ StateIsShared'
<1>1. [BtNext]_btVars
    BY Zenon DEF RadioCalls, BtNext, BtMonitor
<1>2. CASE UNCHANGED connVars /\ btCount' = btCount
    BY <1>1, <1>2
    DEF LinkInv, Sides, StateIsShared, RadioCalls, usbVars, state, connVars, linkState
<1>3. btCount \in Nat
    BY DEF LinkInv, BtInv, BtTypeOK
<1>4. CASE Register /\ BluetoothConnectionStarted /\ btCount' # btCount
    BY <1>1, <1>3, <1>4
    DEF LinkInv, Sides, StateIsShared, RadioCalls, usbVars, state, ConnNext, Calls,
        Register, BluetoothConnectionStarted
<1>5. ASSUME NEW l \in Links, ReaderEnds(l), BluetoothConnectionStopped, btCount' # btCount
      PROVE  Sides /\ StateIsShared'
  <2>1. btCount' = btCount - 1
      BY <1>3, <1>5 DEF ReaderEnds
  <2> QED
      BY <1>1, <1>5, <2>1
      DEF LinkInv, Sides, StateIsShared, RadioCalls, usbVars, state, ConnNext, Calls,
          BluetoothConnectionStopped
<1> QED
    BY <1>2, <1>4, <1>5, Zenon DEF RadioCalls

LEMMA StateWorksSides ==
    ASSUME LinkInv, StateWorks PROVE Sides /\ StateIsShared'
<1>1. [ConnNext]_connVars
    BY Zenon DEF StateWorks, ConnNext
<1>2. UNCHANGED linkState
    BY DEF StateWorks, GraceElapses, NoticeRuns, RefreshFires, OldRefreshFires, Samples,
        UsbAsks, UsbAnswers, RadioAsks, RadioAnswers, ClearIfNoSource
<1> QED
    BY <1>1, <1>2
    DEF LinkInv, Sides, StateIsShared, StateWorks, usbVars, btVars, state, linkState

-----------------------------------------------------------------------------
(* The tasks run until the process ends. *)
LEMMA UpStays ==
    ASSUME Up, LinkNext, ~ProcessBegins PROVE Up'
<1> USE DEF Up
<1>1. CASE UNCHANGED usbVars
    BY <1>1 DEF usbVars, monitorVars
<1>2. CASE UsbWorks
  <2>1. CASE (Open \/ Claim) /\ step' # "find"
      BY <2>1 DEF Open, Claim, Panic
  <2>2. CASE PlugIn \/ Unplug \/ BootFind \/ Watch \/ ResumeFinds
      BY <2>2 DEF PlugIn, Unplug, BootFind, Watch, ResumeFinds, monitorVars
  <2>3. CASE Connected \/ Settled \/ Disconnected \/ ClaimRefused \/ Restore
      BY <2>3 DEF Connected, Settled, Disconnected, ClaimRefused, Restore, NextEvent
  <2> QED
      BY <1>2, <2>1, <2>2, <2>3, Zenon DEF UsbWorks
<1>3. CASE StateBeginsWired \/ UsbCalls
    BY <1>3
    DEF StateBeginsWired, BootState, UsbCalls, Detect, ReceiverStops, ResumeCorrects,
        monitorVars
<1> QED
    BY <1>1, <1>2, <1>3 DEF LinkNext, RadioWorks, RadioCalls, StateWorks

LEMMA SidesStep ==
    LinkInv /\ LinkNext => ProcessBegins \/ (Sides /\ StateIsShared' /\ ConnInv')
<1> SUFFICES ASSUME LinkInv, LinkNext PROVE ProcessBegins \/ (Sides /\ StateIsShared' /\ ConnInv')
    OBVIOUS
<1>1. CASE StateBeginsWired
    BY <1>1, StateBeginsWiredSides
<1>2. ASSUME Sides, ~StateBeginsWired PROVE ConnInv'
    BY <1>2, ConnStep DEF Sides, LinkInv
<1> QED
    BY <1>1, <1>2, UsbWorksSides, UsbCallsSides, RadioWorksSides, RadioCallsSides,
       StateWorksSides
    DEF LinkNext

LEMMA QuietKeeps ==
    ASSUME LinkInv, LinkNext, ~ProcessBegins PROVE QuietUntilUp'
<1> SUFFICES ASSUME ~Up' PROVE (probe = Idle /\ claims = {} /\ readers = {} /\ btCount = 0)'
    BY DEF QuietUntilUp
<1>1. ~Up
    BY UpStays
<1>2. probe = Idle /\ claims = {} /\ readers = {} /\ btCount = 0 /\ lost = {}
    BY <1>1 DEF LinkInv, QuietUntilUp, BtInv, BtTypeOK
<1>3. CASE UNCHANGED btVars
    BY <1>2, <1>3 DEF btVars
<1>4. CASE RadioWorks
    BY <1>1, <1>2, <1>4 DEF RadioWorks, Appear, Vanish, Idle
<1>5. ~RadioCalls
    BY <1>2 DEF RadioCalls, Register, ReaderEnds, Idle
<1> QED
    BY <1>3, <1>4, <1>5
    DEF LinkNext, UsbWorks, StateBeginsWired, UsbCalls, StateWorks

LEMMA LinkStep == LinkInv /\ [LinkNext]_keyboardVars => LinkInv'
<1> SUFFICES ASSUME LinkInv, LinkNext \/ UNCHANGED keyboardVars PROVE LinkInv'
    OBVIOUS
<1>1. CASE ProcessBegins
    BY <1>1, ProcessBeginsKeeps
<1>2. CASE LinkNext /\ ~ProcessBegins
    BY <1>2, SidesStep, QuietKeeps, UsbStep, BtStep, NodesStep DEF LinkInv, Sides
<1>3. CASE UNCHANGED keyboardVars
  <2>1. UNCHANGED <<usbVars, btVars, connVars>>
      BY <1>3 DEF keyboardVars
  <2>2. IInv' /\ BtInv' /\ ReadersHaveNodes' /\ ConnInv'
      BY <2>1, UsbStep, BtStep, NodesStep, ConnStep DEF LinkInv
  <2>3. StateIsShared' /\ QuietUntilUp'
      BY <2>1
      DEF LinkInv, StateIsShared, QuietUntilUp, Up, usbVars, monitorVars, state, btVars,
          connVars, linkState
  <2> QED
      BY <2>2, <2>3 DEF LinkInv
<1> QED
    BY <1>1, <1>2, <1>3

LEMMA LinkInductive == LinkSpec => []LinkInv
    BY LinkInitially, LinkStep, PTL DEF LinkSpec

(* The composition runs its components: until the process ends, each of its *)
(* steps is a step of the USB side or leaves it alone, and so for the       *)
(* Bluetooth side and the state, which may begin once more at start-up.     *)
THEOREM ProcessRunsItsComponents ==
    LinkSpec => /\ UsbInit /\ BtInit /\ ConnInit
                /\ [][ProcessBegins \/ Sides]_keyboardVars
<1>1. LinkInit => UsbInit /\ BtInit /\ ConnInit
    BY DEF LinkInit
<1>2. LinkInv /\ [LinkNext]_keyboardVars => [ProcessBegins \/ Sides]_keyboardVars
    BY SidesStep
<1> QED
    BY <1>1, <1>2, LinkInductive, PTL DEF LinkSpec

(* The keyboard's three components are well typed in one process, whatever  *)
(* ends it, and what USB and Bluetooth have told the state is what it has:  *)
(* for any number of plug-ins, keyboards and nodes.                         *)
THEOREM LinkTypeCorrect == LinkSpec => []LinkTypeOK
<1>1. LinkInv => LinkTypeOK
    BY DEF LinkInv, LinkTypeOK, IInv, BtInv, ConnInv
<1> QED
    BY <1>1, LinkInductive, PTL

(* Each component keeps in the composition what it promised alone. *)
THEOREM ComponentsKeepPromises ==
    LinkSpec => [](UsbSettles /\ SessionsAreCounted /\ GoneIsForgotten /\ ObserversKnow)
<1>1. LinkInv => UsbSettles /\ SessionsAreCounted /\ GoneIsForgotten /\ ObserversKnow
    BY Holds, ForgottenHolds DEF LinkInv, BtInv, ConnInv
<1> QED
    BY <1>1, LinkInductive, PTL

(* The counter of Bluetooth keyboards neither wraps nor saturates: a start  *)
(* finds room, and a stop something to take off.  So the guards on `radio'  *)
(* in the model hold up no step of the code. *)
CallsFindRoom ==
    /\ probe.pc = "opened" /\ Of(claims, probe.link[2]) = {} => radio < MaxSessions
    /\ lost # {} => radio > 0

THEOREM CountNeverSaturates == LinkSpec => []CallsFindRoom
<1>1. LinkInv => CallsFindRoom
  <2> SUFFICES ASSUME LinkInv PROVE CallsFindRoom
      OBVIOUS
  <2>1. probe.pc = "opened" => probe.link \in Links
      BY DEF LinkInv, BtInv, BtTypeOK, Probes, Idle
  <2> QED
      BY <2>1, RoomForSession, EndIsCounted DEF LinkInv, StateIsShared, CallsFindRoom
<1> QED
    BY <1>1, LinkInductive, PTL

(* From the plug to the property, for any number of plug-ins, keyboards and *)
(* nodes, any order of the two sides and any end of the process: what       *)
(* observers were told in the end is how a keyboard is connected.           *)
THEOREM TheKeyboardIsShown == LinkSpec => []KeyboardIsShown
<1>1. LinkInv => KeyboardIsShown
  <2> SUFFICES ASSUME LinkInv, Calm PROVE
          /\ told \in {"Usb", "Pogo"} <=> plugged # NoDevice
          /\ told = "Pogo" => docked
          /\ told = "Bluetooth" => present # {}
          /\ told = "Detached" => Sessions = {}
      BY DEF KeyboardIsShown
  <2>1. usb = (plugged # NoDevice) /\ (pogo => docked)
      BY Holds DEF LinkInv, Calm, UsbSettles
  <2>2. told = Raw
      BY DEF LinkInv, ConnInv, ObserversKnow, Effective, Calm, ConnTypeOK
  <2>3. Raw = RawOf(usb, pogo, btCount)
      BY DEF Raw, LinkInv, StateIsShared
  <2>4. usb \in BOOLEAN /\ pogo \in BOOLEAN /\ (pogo => usb) /\ btCount \in Nat
      BY DEF LinkInv, IInv, UsbTypeOK, BtInv, BtTypeOK
  <2>5. told \in {"Usb", "Pogo"} <=> usb
      BY <2>2, <2>3, <2>4 DEF RawOf
  <2>6. told = "Pogo" => pogo
      BY <2>2, <2>3, <2>4 DEF RawOf
  <2>7. told = "Bluetooth" => present # {}
    <3>1. told = "Bluetooth" => btCount # 0
        BY <2>2, <2>3, <2>4 DEF RawOf
    <3> QED
        BY <3>1, ForgottenHolds DEF LinkInv, GoneIsForgotten, Calm
  <2>8. told = "Detached" => Sessions = {}
    <3>1. told = "Detached" => btCount = 0
        BY <2>2, <2>3, <2>4 DEF RawOf
    <3> QED
        BY <3>1, SessionsAreFinite, FS_EmptySet DEF LinkInv, BtInv, SessionsAreCounted
  <2> QED
      BY <2>1, <2>5, <2>6, <2>7, <2>8
<1> QED
    BY <1>1, LinkInductive, PTL

(* Until the process ends, the grace is kept and samples are of the link in *)
(* the composition, too. *)
THEOREM ProcessKeepsGrace ==
    LinkSpec => [][ProcessBegins \/ (GraceKept /\ SampleFits)]_connVars
<1>1. ASSUME LinkInv, [LinkNext]_keyboardVars
      PROVE  [ProcessBegins \/ (GraceKept /\ SampleFits)]_connVars
  <2> SUFFICES ASSUME LinkNext, ~ProcessBegins PROVE GraceKept /\ SampleFits
      BY <1>1 DEF keyboardVars
  <2>1. CASE StateBeginsWired
    <3>1. usb' \in BOOLEAN /\ usb' = TRUE /\ pogo' \in BOOLEAN
        BY <1>1, <2>1, BootStateKeeps, Zenon
        DEF LinkInv, StateBeginsWired, BootState, SetUsb, IInv, UsbTypeOK
    <3>2. Effective' # "Detached" /\ level' = "none"
        BY <2>1, <3>1 DEF StateBeginsWired, StateBegins, Effective, Raw, RawOf
    <3> QED
        BY <3>2 DEF GraceKept, SampleFits
  <2>2. CASE [ConnNext]_connVars
      BY <1>1, <2>2, SidesStep, GraceStep, SampleStep DEF LinkInv
  <2> QED
      BY <1>1, <2>1, <2>2, SidesStep DEF Sides
<1> QED
    BY <1>1, LinkInductive, PTL DEF LinkSpec

-----------------------------------------------------------------------------
(* The three parts of MC_RootParts share no variable: each keeps its own    *)
(* invariant whatever the others do. *)
RootInv == LinkInv /\ FileInv /\ ConfigInv

LEMMA RootInitially == RootInit => RootInv
    BY LinkInitially, FileInitially, ConfigInitially DEF RootInit, RootInv

LEMMA RootStep == RootInv /\ [RootNext]_rootVars => RootInv'
<1> SUFFICES ASSUME RootInv, [RootNext]_rootVars PROVE RootInv'
    OBVIOUS
<1>1. [LinkNext]_keyboardVars /\ [FileNext]_fileVars /\ [ConfigNext]_configVars
    BY Zenon DEF RootNext, rootVars
<1> QED
    BY <1>1, LinkStep, FileStep, ConfigStep DEF RootInv

(* The keyboard, the settings file and the configuration side by side, as   *)
(* they are explored, are well typed for all values of their constants.     *)
THEOREM RootTypeCorrect == RootSpec => []RootTypeOK
<1>1. RootInv => RootTypeOK
    BY DEF RootInv, RootTypeOK, LinkTypeOK, LinkInv, IInv, BtInv, ConnInv, FileInv,
       ConfigInv
<1> QED
    BY <1>1, RootInitially, RootStep, PTL DEF RootSpec

-----------------------------------------------------------------------------
(* So do the eight parts of MC_Parts. *)
PartsInv ==
    /\ IInv /\ BtInv /\ ConnInv
    /\ WarnInv /\ TokenInv /\ AmbientInv
    /\ TypeOK /\ LightTypeOK

LEMMA PartsInitially == PartsInit => PartsInv
    BY Starts, BtInitially, ConnInitially, WarnInitially, TokenInitially,
       AmbientInitially, TypeInitially, LightInitially
    DEF PartsInit, PartsInv

LEMMA PartsStep == PartsInv /\ [PartsNext]_partsVars => PartsInv'
<1> SUFFICES ASSUME PartsInv, [PartsNext]_partsVars PROVE PartsInv'
    OBVIOUS
<1>1. [UsbNext]_usbVars /\ [BtNext]_btVars /\ [ConnNext]_connVars
    BY Zenon DEF PartsNext, KeyboardPart, keyboardParts, partsVars
<1>2. [WarnNext]_warnVars /\ [TokenNext]_tokenVars /\ [AmbientNext]_ambientVars
    BY Zenon DEF PartsNext, SessionPart, NoMoreUpdates, sessionParts, partsVars
<1>3. [Next]_vars /\ [LightNext]_lightVars
    BY Zenon DEF PartsNext, RootPart, rootParts, partsVars
<1>4. IInv' /\ BtInv' /\ ConnInv'
    BY <1>1, UsbStep, BtStep, ConnStep DEF PartsInv
<1>5. WarnInv' /\ TokenInv' /\ AmbientInv'
    BY <1>2, WarnSteps, TokenStep, AmbientStep DEF PartsInv
<1>6. TypeOK' /\ LightTypeOK'
    BY <1>3, TypeStep, LightStep DEF PartsInv
<1> QED
    BY <1>4, <1>5, <1>6 DEF PartsInv

(* The eight parts side by side, as they are explored, are well typed for   *)
(* all values of their constants.                                           *)
THEOREM PartsTypeCorrect == PartsSpec => []PartsTypeOK
<1>1. PartsInv => PartsTypeOK
    BY DEF PartsInv, PartsTypeOK, IInv, BtInv, ConnInv, WarnInv, TokenInv, AmbientInv
<1> QED
    BY <1>1, PartsInitially, PartsStep, PTL DEF PartsSpec
=============================================================================
