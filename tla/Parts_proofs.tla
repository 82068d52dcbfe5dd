---------------------------- MODULE Parts_proofs ----------------------------
(***************************************************************************)
(* Proofs about five parts that share no variable, for all values of their *)
(* constants: Bluetooth sessions, connection and battery, warnings, result *)
(* tokens and ambient reports.  Each has its inductive invariant, a lemma  *)
(* that every step keeps it, and its theorems.                             *)
(***************************************************************************)
EXTENDS BluetoothSessions, ConnectionState, BatteryWarnings, ResultTokens,
        AmbientReports, FiniteSetTheorems, TLAPS

-----------------------------------------------------------------------------
(* Bluetooth sessions: a claim is a reader, and a session one or more. *)
BtInv == BtTypeOK /\ SessionsAreCounted

LEMMA SessionsAreFinite ==
    IsFiniteSet(Sessions) /\ Cardinality(Sessions) \in Nat
<1>1. IsFiniteSet(Keys)
    BY BluetoothAssumption, FS_Union DEF Keys
<1>2. Sessions \subseteq Keys
    BY DEF Sessions
<1> QED
    BY <1>1, <1>2, FS_Subset, FS_CardinalityType

LEMMA BtInitially == BtInit => BtInv
<1> SUFFICES ASSUME BtInit PROVE BtInv
    OBVIOUS
<1>1. Sessions = {}
    BY DEF BtInit, Sessions, Of
<1>2. scanned \in BOOLEAN
    BY Zenon DEF BtInit
<1> QED
    BY <1>1, <1>2, FS_EmptySet DEF BtInit, BtInv, BtTypeOK, SessionsAreCounted, Probes

LEMMA AppearKeeps == ASSUME BtInv, NEW node \in Nodes, Appear(node) PROVE BtInv'
    BY DEF BtInv, BtTypeOK, SessionsAreCounted, Sessions, Of, Appear

LEMMA VanishKeeps == ASSUME BtInv, NEW node \in Nodes, Vanish(node) PROVE BtInv'
<1>1. SessionsAreCounted'
    BY DEF BtInv, SessionsAreCounted, Sessions, Of, Vanish
<1>2. probe' \in Probes
    BY DEF BtInv, BtTypeOK, Vanish, Probes, Idle
<1> QED
    BY <1>1, <1>2 DEF BtInv, BtTypeOK, Vanish

LEMMA ScanEndsKeeps == BtInv /\ ScanEnds => BtInv'
    BY DEF BtInv, BtTypeOK, SessionsAreCounted, Sessions, Of, ScanEnds

LEMMA TakeKeeps == ASSUME BtInv, NEW node \in Nodes, Take(node) PROVE BtInv'
    BY DEF BtInv, BtTypeOK, SessionsAreCounted, Sessions, Of, Take, Probes

LEMMA ReopenKeeps == BtInv /\ Reopen => BtInv'
<1> SUFFICES ASSUME BtInv, Reopen PROVE BtInv'
    OBVIOUS
<1>1. probe.node \in Nodes
    BY DEF BtInv, BtTypeOK, Reopen, Probes, Idle
<1>2. ASSUME NEW key \in KeysOf(probe.node)
      PROVE  [pc |-> "opened", link |-> <<probe.node, key>>, lost |-> FALSE] \in Probes
  <2>1. <<probe.node, key>> \in Links
      BY <1>1 DEF Links, Keys, KeysOf
  <2> QED
      BY <2>1 DEF Probes
<1>3. probe' \in Probes
    BY <1>2 DEF Reopen, Probes
<1> QED
    BY <1>3 DEF BtInv, BtTypeOK, SessionsAreCounted, Sessions, Of, Reopen

LEMMA GiveUpKeeps == BtInv /\ GiveUp => BtInv'
    BY DEF BtInv, BtTypeOK, SessionsAreCounted, Sessions, Of, GiveUp, Probes

(* The first node of a key adds a session, another one does not. *)
LEMMA RegisterKeeps == BtInv /\ Register => BtInv'
<1> SUFFICES ASSUME BtInv, Register PROVE BtInv'
    OBVIOUS
<1> DEFINE l == probe.link
           key == l[2]
<1>1. l \in Links /\ key \in Keys
    BY DEF BtInv, BtTypeOK, Register, Probes, Idle, Links
<1>2. BtTypeOK'
    BY <1>1, SessionsAreFinite DEF BtInv, BtTypeOK, Register, Probes
<1>3. Sessions' = Sessions \cup {key}
    BY <1>1 DEF Sessions, Of, Register
<1>4. key \in Sessions <=> Of(claims, key) # {}
    BY <1>1 DEF Sessions
<1>5. Cardinality(Sessions') = btCount'
    BY <1>3, <1>4, SessionsAreFinite, FS_AddElement
    DEF BtInv, SessionsAreCounted, Register
<1> QED
    BY <1>2, <1>5 DEF BtInv, SessionsAreCounted, Register

(* The reader that ends has a claim, and its session goes with it. *)
LEMMA ReaderEndsKeeps == ASSUME BtInv, NEW l \in Links, ReaderEnds(l) PROVE BtInv'
<1> DEFINE key == l[2]
<1>1. l \in claims /\ l \in readers /\ key \in Keys /\ l \in Of(claims, key)
    BY DEF BtInv, BtTypeOK, SessionsAreCounted, ReaderEnds, Links, Of
<1>2. key \in Sessions
    BY <1>1 DEF Sessions
<1>3. /\ claims' = claims \ Of(claims, key)
      /\ readers' = readers \ Of(claims, key)
      /\ lost' = lost \ Of(claims, key)
      /\ btCount' = IF btCount = 0 THEN 0 ELSE btCount - 1
      /\ UNCHANGED <<present, scanned, created, probe>>
    BY <1>1 DEF ReaderEnds
<1>4. Sessions' = Sessions \ {key}
    BY <1>3 DEF Sessions, Of
<1>5. Cardinality(Sessions') = Cardinality(Sessions) - 1
    BY <1>2, <1>4, SessionsAreFinite, FS_RemoveElement
<1>6. Cardinality(Sessions) # 0
    BY <1>2, SessionsAreFinite, FS_EmptySet
<1>7. SessionsAreCounted'
    BY <1>3, <1>5, <1>6, SessionsAreFinite DEF BtInv, SessionsAreCounted
<1>8. BtTypeOK'
    BY <1>3, SessionsAreFinite DEF BtInv, BtTypeOK, SessionsAreCounted
<1> QED
    BY <1>7, <1>8 DEF BtInv

LEMMA BtStep == BtInv /\ [BtNext]_btVars => BtInv'
<1> SUFFICES ASSUME BtInv, BtNext \/ UNCHANGED btVars PROVE BtInv'
    OBVIOUS
<1>1. CASE UNCHANGED btVars
    BY <1>1 DEF BtInv, BtTypeOK, SessionsAreCounted, Sessions, Of, btVars
<1>2. CASE BtMonitor
    BY <1>2, ScanEndsKeeps, ReopenKeeps, RegisterKeeps, GiveUpKeeps, TakeKeeps
    DEF BtMonitor
<1>3. CASE \E node \in Nodes : Appear(node) \/ Vanish(node)
    BY <1>3, AppearKeeps, VanishKeeps
<1>4. CASE \E l \in Links : ReaderEnds(l)
    BY <1>4, ReaderEndsKeeps
<1> QED
    BY <1>1, <1>2, <1>3, <1>4 DEF BtNext

LEMMA BtInductive == BtSpec => []BtInv
    BY BtStep, BtInitially, PTL DEF BtSpec

(* Readers, claims and the count of connected keyboards are what they can   *)
(* be, for any keyboards and input nodes.                                   *)
THEOREM BtTypeCorrect == BtSpec => []BtTypeOK
<1>1. BtInv => BtTypeOK
    BY DEF BtInv
<1> QED
    BY <1>1, BtInductive, PTL

(* A keyboard counts once for all its nodes and every claim has its reader, *)
(* in every order of registrations, vanishing nodes, late ENODEVs and       *)
(* aborts. *)
THEOREM KeyboardsCountOnce == BtSpec => []SessionsAreCounted
<1>1. BtInv => SessionsAreCounted
    BY DEF BtInv
<1> QED
    BY <1>1, BtInductive, PTL

(* A reader whose node is gone is lost: it has yet to see ENODEV.  This is  *)
(* what GoneIsCountedOff rests on: only a step of a lost reader is awaited. *)
ReadersHaveNodes ==
    /\ \A l \in readers \ lost : l[1] \in present
    /\ probe.pc = "opened" /\ ~probe.lost => probe.link[1] \in present

LEMMA NodesInitially == BtInit => ReadersHaveNodes
    BY DEF BtInit, ReadersHaveNodes, Idle

LEMMA NodesStep == BtInv /\ ReadersHaveNodes /\ [BtNext]_btVars => ReadersHaveNodes'
<1> SUFFICES ASSUME BtInv, ReadersHaveNodes, BtNext \/ UNCHANGED btVars
             PROVE  ReadersHaveNodes'
    OBVIOUS
<1>1. CASE UNCHANGED btVars \/ ScanEnds \/ GiveUp \/ Reopen
    BY <1>1 DEF ReadersHaveNodes, btVars, ScanEnds, GiveUp, Reopen, Idle
<1>2. CASE Register
    BY <1>2 DEF ReadersHaveNodes, Register, Idle
<1>3. ASSUME NEW node \in Nodes, Take(node) PROVE ReadersHaveNodes'
    BY <1>3 DEF ReadersHaveNodes, Take, Idle
<1>4. ASSUME NEW node \in Nodes, Appear(node) PROVE ReadersHaveNodes'
    BY <1>4 DEF ReadersHaveNodes, Appear
<1>5. ASSUME NEW node \in Nodes, Vanish(node) PROVE ReadersHaveNodes'
    BY <1>5 DEF ReadersHaveNodes, Vanish, BtInv, BtTypeOK, Probes, Idle
<1>6. ASSUME NEW l \in Links, ReaderEnds(l) PROVE ReadersHaveNodes'
    BY <1>6 DEF ReadersHaveNodes, ReaderEnds
<1> QED
    BY <1>1, <1>2, <1>3, <1>4, <1>5, <1>6 DEF BtNext, BtMonitor

LEMMA NodesInductive == BtSpec => []ReadersHaveNodes
    BY NodesInitially, NodesStep, BtInductive, PTL DEF BtSpec

(* With no node left and every ENODEV seen, no keyboard counts: no reader   *)
(* is left behind by registrations, aborts and teardowns in any order.      *)
GoneIsForgotten == present = {} /\ lost = {} => btCount = 0 /\ claims = {}

LEMMA ForgottenHolds == BtInv /\ ReadersHaveNodes => GoneIsForgotten
<1> SUFFICES ASSUME BtInv, ReadersHaveNodes, present = {}, lost = {}
             PROVE  btCount = 0 /\ claims = {}
    BY DEF GoneIsForgotten
<1>1. claims = {}
    BY DEF BtInv, SessionsAreCounted, ReadersHaveNodes
<1>2. Sessions = {}
    BY <1>1 DEF Sessions, Of
<1> QED
    BY <1>1, <1>2, FS_EmptySet DEF BtInv, SessionsAreCounted

THEOREM GoneKeyboardsAreForgotten == BtSpec => []GoneIsForgotten
    BY ForgottenHolds, BtInductive, NodesInductive, PTL

-----------------------------------------------------------------------------
(* Connection and battery: a grace that runs has its timer, and the kind    *)
(* that is remembered is the raw one or waits for its grace to end. *)
ConnInv ==
    /\ ConnTypeOK
    /\ Raw # "Detached" => lastKind = Raw /\ gone = "no"
    /\ Raw = "Detached" /\ lastKind # "Detached" => gone # "no"
    /\ gone = "fresh" => timer /\ lastKind # "Detached"
    /\ level = "usb" => wired
    /\ ObserversKnow

(* What the three setters do, in the new state's terms. *)
LEMMA RawKinds == ConnTypeOK => Raw \in Kinds
    BY DEF ConnTypeOK, Raw, RawOf, Kinds

LEMMA ConnInitially == ConnInit => ConnInv
<1> SUFFICES ASSUME ConnInit PROVE ConnInv
    OBVIOUS
<1>1. /\ notice \in BOOLEAN /\ timer \in BOOLEAN /\ oldTimer \in BOOLEAN
      /\ usbAsked \in BOOLEAN /\ radioAsked \in BOOLEAN
    BY Zenon DEF ConnInit
<1>2. ConnTypeOK
    BY <1>1, MaxSessionsAssumption DEF ConnInit, ConnTypeOK, Kinds, RawOf
<1> QED
    BY <1>2 DEF ConnInit, ConnInv, ConnTypeOK, ObserversKnow, Effective, Raw, RawOf, Kinds

LEMMA SetUsbKeeps ==
    ASSUME ConnInv, NEW u \in BOOLEAN, NEW p \in BOOLEAN, p => u,
           SetUsbKeyboardConnection(u, p)
    PROVE  ConnInv'
<1>1. notice' \in BOOLEAN /\ timer' \in BOOLEAN /\ oldTimer' \in BOOLEAN
    BY Zenon DEF ConnInv, ConnTypeOK, SetUsbKeyboardConnection, ScheduleRefresh
<1> QED
    BY <1>1, RawKinds
    DEF ConnInv, ConnTypeOK, ObserversKnow, Effective, Raw, RawOf, Kinds,
        SetUsbKeyboardConnection, Track, ScheduleRefresh, GraceStarts

LEMMA StartedKeeps == ConnInv /\ BluetoothConnectionStarted => ConnInv'
<1> SUFFICES ASSUME ConnInv, BluetoothConnectionStarted PROVE ConnInv'
    OBVIOUS
<1>1. notice' \in BOOLEAN
    BY Zenon DEF ConnInv, ConnTypeOK, BluetoothConnectionStarted
<1>2. /\ radio \in Nat /\ radio' = radio + 1 /\ radio' \in 0 .. MaxSessions
      /\ notice' = (notice \/ radio = 0)
      /\ UNCHANGED <<wired, onPogo, timer, oldTimer, told, battery>>
    BY MaxSessionsAssumption DEF ConnInv, ConnTypeOK, BluetoothConnectionStarted
<1>3. Raw' # "Detached" /\ lastKind' = Raw' /\ gone' = "no"
    BY <1>2 DEF ConnInv, ConnTypeOK, Raw, RawOf, BluetoothConnectionStarted, Track
<1>4. ConnTypeOK'
    BY <1>1, <1>2, <1>3 DEF ConnInv, ConnTypeOK, Raw, RawOf, Kinds, battery
<1>5. Raw' = Raw \/ notice'
    BY <1>2 DEF Raw, RawOf
<1>6. ObserversKnow'
    BY <1>2, <1>3, <1>5 DEF ConnInv, ObserversKnow, Effective
<1> QED
    BY <1>2, <1>3, <1>4, <1>6 DEF ConnInv, battery

LEMMA StoppedKeeps == ConnInv /\ BluetoothConnectionStopped => ConnInv'
<1> SUFFICES ASSUME ConnInv, BluetoothConnectionStopped PROVE ConnInv'
    OBVIOUS
<1>1. notice' \in BOOLEAN /\ timer' \in BOOLEAN /\ oldTimer' \in BOOLEAN
    BY Zenon DEF ConnInv, ConnTypeOK, BluetoothConnectionStopped, ScheduleRefresh
<1>2. /\ radio \in Nat /\ radio' = radio - 1 /\ radio > 0
      /\ radio' \in 0 .. MaxSessions
      /\ notice' = (notice \/ radio = 1)
      /\ UNCHANGED <<wired, onPogo, told, usbAsked, radioAsked>>
      /\ level' = level \/ (level' = "none" /\ ~wired)
    BY MaxSessionsAssumption DEF ConnInv, ConnTypeOK, BluetoothConnectionStopped
<1>3. CASE Raw' # "Detached"
  <2>1. lastKind' = Raw' /\ gone' = "no" /\ timer' = timer
      BY <1>1, <1>3
      DEF ConnInv, ConnTypeOK, BluetoothConnectionStopped, Track, Raw, ScheduleRefresh,
          GraceStarts
  <2>2. Raw' = Raw
      BY <1>2, <1>3 DEF Raw, RawOf
  <2>3. ConnTypeOK'
      BY <1>1, <1>2, <2>1, <2>2, RawKinds DEF ConnInv, ConnTypeOK
  <2>4. ObserversKnow'
      BY <1>2, <1>3, <2>1, <2>2 DEF ConnInv, ObserversKnow, Effective
  <2> QED
      BY <1>2, <1>3, <2>1, <2>3, <2>4 DEF ConnInv
<1>4. CASE Raw' = "Detached"
  <2>1. Raw = "Bluetooth" /\ lastKind = "Bluetooth" /\ gone = "no" /\ notice'
    <3>1. ~wired /\ ~onPogo /\ radio = 1
        BY <1>2, <1>4 DEF Raw, RawOf
    <3>2. notice'
        BY <1>2, <3>1, Zenon
    <3>3. Raw = "Bluetooth"
        BY <3>1 DEF Raw, RawOf
    <3> QED
        BY <3>2, <3>3 DEF ConnInv
  <2>2. GraceStarts(wired, onPogo, radio - 1)
      BY <1>2, <1>4, <2>1 DEF GraceStarts, Raw
  <2>3. lastKind' = lastKind /\ gone' = "fresh" /\ timer'
      BY <1>2, <1>4, <2>2
      DEF BluetoothConnectionStopped, Track, Raw, ScheduleRefresh
  <2>4. ConnTypeOK'
      BY <1>1, <1>2, <2>3 DEF ConnInv, ConnTypeOK
  <2> QED
      BY <1>2, <1>4, <2>1, <2>3, <2>4 DEF ConnInv, ObserversKnow
<1> QED
    BY <1>3, <1>4

LEMMA PublishingKeeps ==
    ASSUME ConnInv, GraceElapses \/ NoticeRuns \/ RefreshFires \/ OldRefreshFires
    PROVE  ConnInv'
<1>1. notice' \in BOOLEAN /\ timer' \in BOOLEAN /\ oldTimer' \in BOOLEAN
    BY Zenon
    DEF ConnInv, ConnTypeOK, GraceElapses, NoticeRuns, RefreshFires, OldRefreshFires,
        publishing
<1> QED
    BY <1>1
    DEF ConnInv, ConnTypeOK, ObserversKnow, Effective, Raw, RawOf, Kinds,
        GraceElapses, NoticeRuns, RefreshFires, OldRefreshFires, Publish, linkState, kind,
        publishing, battery

LEMMA SamplesKeep == ConnInv /\ Samples => ConnInv'
<1> SUFFICES ASSUME ConnInv, Samples PROVE ConnInv'
    OBVIOUS
<1>1. usbAsked' \in BOOLEAN /\ radioAsked' \in BOOLEAN
    BY Zenon
    DEF ConnInv, ConnTypeOK, Samples, UsbAsks, UsbAnswers, RadioAsks, RadioAnswers,
        ClearIfNoSource
<1> QED
    BY <1>1
    DEF ConnInv, ConnTypeOK, ObserversKnow, Effective, Raw, RawOf, Samples, UsbAsks,
        UsbAnswers, RadioAsks, RadioAnswers, ClearIfNoSource, linkState, kind, publishing

LEMMA ConnStep == ConnInv /\ [ConnNext]_connVars => ConnInv'
<1> SUFFICES ASSUME ConnInv, ConnNext \/ UNCHANGED connVars PROVE ConnInv'
    OBVIOUS
<1>1. CASE UNCHANGED connVars
    BY <1>1
    DEF ConnInv, ConnTypeOK, ObserversKnow, Effective, Raw, RawOf, connVars, linkState,
        kind, publishing, battery
<1>2. CASE Calls
    BY <1>2, SetUsbKeeps, StartedKeeps, StoppedKeeps DEF Calls
<1>3. CASE GraceElapses \/ NoticeRuns \/ RefreshFires \/ OldRefreshFires
    BY <1>3, PublishingKeeps
<1>4. CASE Samples
    BY <1>4, SamplesKeep
<1> QED
    BY <1>1, <1>2, <1>3, <1>4 DEF ConnNext

LEMMA ConnInductive == ConnSpec => []ConnInv
    BY ConnStep, ConnInitially, PTL DEF ConnSpec

(* The connection state is well typed for any number of keyboards: no dock  *)
(* without USB. *)
THEOREM ConnTypeCorrect == ConnSpec => []ConnTypeOK
<1>1. ConnInv => ConnTypeOK
    BY DEF ConnInv
<1> QED
    BY <1>1, ConnInductive, PTL

(* What was published last is what a reader is told, whenever no            *)
(* notification and no due refresh is on its way. *)
THEOREM PublishedIsTrue == ConnSpec => []ObserversKnow
<1>1. ConnInv => ObserversKnow
    BY DEF ConnInv
<1> QED
    BY <1>1, ConnInductive, PTL

(* What a step may not do, as DetachedOnlyAfterGrace and SamplesMatchLink  *)
(* have it. *)
GraceKept ==
    Effective # "Detached" /\ Effective' = "Detached" =>
        Raw = "Detached" /\ gone = "fresh" /\ gone' = "expired"

SampleFits ==
    /\ level' = "usb" => wired'
    /\ level' = "radio" /\ level # "radio" => ~wired'

LEMMA GraceStep ==
    ASSUME ConnInv, [ConnNext]_connVars PROVE GraceKept
<1> USE DEF GraceKept
<1>1. CASE UNCHANGED <<linkState, kind>>
    BY <1>1 DEF Effective, Raw, RawOf, linkState, kind
<1>2. CASE GraceElapses
    BY <1>2 DEF ConnInv, Effective, Raw, RawOf, GraceElapses, linkState
<1>3. CASE Calls
  <2>1. \E u, p \in BOOLEAN, b \in Int :
            Track(u, p, b) /\ Raw' = RawOf(u, p, b)
      BY <1>3, MaxSessionsAssumption
      DEF ConnInv, ConnTypeOK, Calls, SetUsbKeyboardConnection,
          BluetoothConnectionStarted, BluetoothConnectionStopped, Raw
  <2> QED
      BY <2>1 DEF ConnInv, Effective, Track, GraceStarts
<1> QED
    BY <1>1, <1>2, <1>3
    DEF ConnNext, connVars, NoticeRuns, RefreshFires, OldRefreshFires, Samples,
        UsbAsks, UsbAnswers, RadioAsks, RadioAnswers, ClearIfNoSource

LEMMA SampleStep ==
    ASSUME ConnInv, ConnInv', [ConnNext]_connVars PROVE SampleFits
<1>1. CASE level' = level
    BY <1>1 DEF ConnInv, SampleFits
<1>2. CASE level' # level
  <2>1. level' = "radio" => RadioAnswers /\ ~wired
      BY <1>2
      DEF ConnNext, connVars, Calls, SetUsbKeyboardConnection,
          BluetoothConnectionStarted, BluetoothConnectionStopped, GraceElapses,
          NoticeRuns, RefreshFires, OldRefreshFires, Samples, UsbAsks, UsbAnswers,
          RadioAsks, RadioAnswers, ClearIfNoSource, battery
  <2> QED
      BY <2>1 DEF ConnInv, RadioAnswers, linkState, SampleFits
<1> QED
    BY <1>1, <1>2

(* No step shows the keyboard as detached but the end of its grace. *)
THEOREM GraceIsKept == ConnSpec => DetachedOnlyAfterGrace
    BY GraceStep, ConnInductive, PTL DEF ConnSpec, DetachedOnlyAfterGrace, GraceKept

(* However late a sample comes, a USB level is shown only on USB and a      *)
(* Bluetooth level is set only off it. *)
THEOREM SamplesAreOfTheLink == ConnSpec => SamplesMatchLink
    BY SampleStep, ConnInductive, PTL DEF ConnSpec, SamplesMatchLink, SampleFits

-----------------------------------------------------------------------------
(* Warnings: the latches are what was told of. *)
LEMMA WorstReaches ==
    ASSUME NEW T \in SUBSET Tiers, NEW t \in T
    PROVE  \E u \in Worst(T) : Threshold[u] <= Threshold[t]
<1>1. /\ Threshold["critical"] < Threshold["severe"]
      /\ Threshold["severe"] < Threshold["warning"]
      /\ \A u \in Tiers : Threshold[u] \in Int
    BY LevelsAssumption DEF Threshold, Tiers
<1> HIDE DEF Threshold
<1>2. CASE "critical" \in T
    BY <1>1, <1>2 DEF Worst, Tiers
<1>3. CASE "critical" \notin T /\ "severe" \in T
    BY <1>1, <1>3 DEF Worst, Tiers
<1>4. CASE "critical" \notin T /\ "severe" \notin T
    BY <1>1, <1>4 DEF Worst, Tiers
<1> QED
    BY <1>2, <1>3, <1>4

(* Half and high are latched with every milestone above them. *)
ChargeIsLatched == \A m \in Milestones : Rank[m] <= charge => m \in shownCharge

WarnInv ==
    /\ WarnTypeOK
    /\ shown = dip
    /\ seen /\ watch = "bluetooth" => Reached(lastPct) \subseteq dip
    /\ ChargeIsLatched

LEMMA WarnInitially == WarnInit => WarnInv
<1> SUFFICES ASSUME WarnInit PROVE WarnInv
    OBVIOUS
<1>1. belowFull \in BOOLEAN /\ seen \in BOOLEAN
    BY Zenon DEF WarnInit
<1> QED
    BY <1>1, LevelsAssumption
    DEF WarnInit, WarnInv, WarnTypeOK, ChargeIsLatched, Milestones, Rank, Level

(* A level that is handled: what is due has not been told of in this dip,   *)
(* and all that is reached has been afterwards. *)
LEMMA DetachedWarns ==
    ASSUME WarnInv, NEW pct \in Level, WarnDetached(pct), Remember(pct),
           toasts' \cap Tiers = Due(pct)
    PROVE  /\ shown' = dip' /\ dip' \subseteq Tiers
           /\ Due(pct) \cap dip = {}
           /\ Reached(pct) \subseteq dip'
<1>1. shown' = dip' /\ dip' = (dip \cap Reached(pct)) \cup AndLesser(Due(pct))
    BY DEF WarnInv, WarnDetached, Remember
<1>2. Due(pct) \subseteq Reached(pct) \ shown /\ Reached(pct) \subseteq Tiers
    BY DEF Due, Worst, Reached
<1>3. ASSUME NEW t \in Reached(pct) \ shown PROVE t \in AndLesser(Due(pct))
    BY <1>2, WorstReaches DEF Due, AndLesser
<1> QED
    BY <1>1, <1>2, <1>3 DEF WarnInv, WarnTypeOK, AndLesser

(* What every step does. *)
WarnStep ==
    /\ WarnInv'
    /\ toasts' \cap dip = {}
    /\ \A m \in toasts' \cap Milestones : Rank[m] > charge

LEMMA EnterBluetoothWarns == WarnInv /\ EnterBluetooth => WarnStep
<1> SUFFICES ASSUME WarnInv, EnterBluetooth PROVE WarnStep
    OBVIOUS
<1>1. /\ watch' = "bluetooth" /\ shownCharge' = shownCharge /\ charge' = charge
      /\ belowFull' \in BOOLEAN /\ seen' \in BOOLEAN
    BY Zenon DEF EnterBluetooth, Full
<1>2. ChargeIsLatched'
    BY <1>1 DEF WarnInv, ChargeIsLatched
<1>3. CASE \E pct \in Level : /\ WarnDetached(pct) /\ toasts' = Due(pct)
                             /\ Remember(pct) /\ lastPct' = pct
  <2>1. PICK pct \in Level : /\ WarnDetached(pct) /\ toasts' = Due(pct)
                             /\ Remember(pct) /\ lastPct' = pct
      BY <1>3
  <2>2. Due(pct) \subseteq Tiers
      BY DEF Due, Worst, Reached
  <2>3. toasts' \cap Tiers = Due(pct)
      BY <2>1, <2>2
  <2>4. /\ shown' = dip' /\ dip' \subseteq Tiers
        /\ Due(pct) \cap dip = {} /\ Reached(pct) \subseteq dip'
      BY <2>1, <2>3, DetachedWarns
  <2>5. WarnTypeOK'
      BY <1>1, <2>1, <2>2, <2>4 DEF WarnInv, WarnTypeOK
  <2>6. toasts' \cap Milestones = {}
      BY <2>1, <2>2 DEF Tiers, Milestones
  <2> QED
      BY <1>2, <2>1, <2>4, <2>5, <2>6 DEF WarnStep, WarnInv
<1>4. CASE lastPct' = 0 /\ toasts' = {} /\ ~seen' /\ shown' = shown /\ dip' = dip
    BY <1>1, <1>2, <1>4, LevelsAssumption DEF WarnStep, WarnInv, WarnTypeOK, Level
<1> QED
    BY <1>3, <1>4 DEF EnterBluetooth

LEMMA BluetoothLevelWarns ==
    ASSUME WarnInv, NEW pct \in Level, NEW firmwareFull \in BOOLEAN,
           BluetoothLevel(pct, firmwareFull)
    PROVE  WarnStep
<1>1. /\ watch = "bluetooth" /\ watch' = watch /\ lastPct' = pct
      /\ shownCharge' = shownCharge /\ charge' = charge
      /\ belowFull' \in BOOLEAN
    BY Zenon DEF BluetoothLevel, Full
<1>2. ChargeIsLatched'
    BY <1>1 DEF WarnInv, ChargeIsLatched
<1>3. CASE pct = lastPct
    BY <1>1, <1>2, <1>3 DEF WarnStep, WarnInv, WarnTypeOK, BluetoothLevel
<1>4. CASE pct # lastPct
  <2>1. /\ WarnDetached(pct) /\ Remember(pct)
        /\ toasts' \in {Due(pct), Due(pct) \cup {"charged"}}
      BY <1>4 DEF BluetoothLevel
  <2>2. Due(pct) \subseteq Tiers
      BY DEF Due, Worst, Reached
  <2>3. toasts' \cap Tiers = Due(pct) /\ toasts' \cap Milestones = {}
      BY <2>1, <2>2 DEF Tiers, Milestones
  <2>4. /\ shown' = dip' /\ dip' \subseteq Tiers
        /\ Due(pct) \cap dip = {} /\ Reached(pct) \subseteq dip'
      BY <2>1, <2>3, DetachedWarns
  <2>5. seen' \in BOOLEAN
      BY <1>4, Zenon DEF BluetoothLevel
  <2>6. WarnTypeOK'
      BY <1>1, <2>1, <2>2, <2>4, <2>5 DEF WarnInv, WarnTypeOK
  <2>7. toasts' \cap dip = {}
      BY <2>3, <2>4 DEF WarnInv, WarnTypeOK
  <2> QED
      BY <1>1, <1>2, <2>3, <2>4, <2>6, <2>7 DEF WarnStep, WarnInv
<1> QED
    BY <1>3, <1>4

LEMMA EndsWarn == WarnInv /\ (BluetoothGone \/ LoopEnds) => WarnStep
<1> SUFFICES ASSUME WarnInv, BluetoothGone \/ LoopEnds PROVE WarnStep
    OBVIOUS
<1>1. seen' \in BOOLEAN
    BY Zenon DEF BluetoothGone, LoopEnds
<1> QED
    BY <1>1
    DEF WarnStep, WarnInv, WarnTypeOK, ChargeIsLatched, BluetoothGone, LoopEnds,
        latches, Tiers, Milestones

(* On USB.  What is told is not latched, and the latches stay closed below. *)
LEMMA ChargeRanks ==
    ASSUME NEW T \in SUBSET Milestones, NEW before \in 0 .. 3,
           toasts' = T, RememberCharge(before)
    PROVE  /\ charge' \in 0 .. 3
           /\ charge' = before \/ \E m \in T : charge' = Rank[m]
<1> DEFINE ranks == {before} \cup {Rank[m] : m \in T}
<1>1. \A m \in Milestones : Rank[m] \in 1 .. 3
    BY DEF Milestones, Rank
<1>2. ranks \subseteq 0 .. 3 /\ before \in ranks
    BY <1>1
<1>3. \E r \in ranks : \A q \in ranks : q <= r
  <2>1. CASE 3 \in ranks
      BY <1>2, <2>1
  <2>2. CASE 3 \notin ranks /\ 2 \in ranks
      BY <1>2, <2>2
  <2>3. CASE 3 \notin ranks /\ 2 \notin ranks /\ 1 \in ranks
      BY <1>2, <2>3
  <2>4. CASE 3 \notin ranks /\ 2 \notin ranks /\ 1 \notin ranks
      BY <1>2, <2>4
  <2> QED
      BY <2>1, <2>2, <2>3, <2>4
<1>4. charge' = CHOOSE r \in ranks : \A q \in ranks : q <= r
    BY DEF RememberCharge
<1>5. charge' \in ranks
    BY <1>3, <1>4
<1> QED
    BY <1>2, <1>5

LEMMA UsbTells ==
    ASSUME NEW pct \in Level, NEW charging \in BOOLEAN, NEW firmwareFull \in BOOLEAN,
           NEW latched \in SUBSET Milestones, NEW below \in BOOLEAN,
           NEW before \in 0 .. 3,
           \A m \in Milestones : Rank[m] <= before => m \in latched,
           UsbUpdate(pct, charging, firmwareFull, latched, below),
           RememberCharge(before)
    PROVE  /\ toasts' \subseteq Milestones \ latched
           /\ shownCharge' \subseteq Milestones /\ charge' \in 0 .. 3
           /\ belowFull' \in BOOLEAN
           /\ ChargeIsLatched'
<1> DEFINE lesser == ChargeDue(pct, charging, latched)
           full == Full(pct, firmwareFull) /\ below /\ "full" \notin latched
<1>1. /\ toasts' = lesser \cup (IF full THEN {"full"} ELSE {})
      /\ shownCharge' = ChargeLatch(latched, toasts')
    BY DEF UsbUpdate
<1>2. belowFull' \in BOOLEAN
    BY Zenon DEF UsbUpdate, Full
<1>3. lesser \subseteq {"half", "high"} \ latched
    BY DEF ChargeDue
<1>4. toasts' \subseteq Milestones \ latched
    BY <1>1, <1>3 DEF Milestones
<1>5. /\ charge' \in 0 .. 3
      /\ charge' = before \/ \E m \in toasts' : charge' = Rank[m]
    BY <1>4, ChargeRanks
<1>6. "high" \in lesser => "half" \in lesser \cup latched
    BY LevelsAssumption DEF ChargeDue, Level
<1>7. /\ shownCharge' \subseteq Milestones
      /\ latched \cup toasts' \subseteq shownCharge'
      /\ "full" \in toasts' => shownCharge' = Milestones
    BY <1>1, <1>4 DEF ChargeLatch
<1>8. ChargeIsLatched'
  <2> SUFFICES ASSUME NEW m \in Milestones, Rank[m] <= charge'
               PROVE  m \in shownCharge'
      BY DEF ChargeIsLatched
  <2>1. CASE charge' = before
      BY <1>7, <2>1
  <2>2. CASE "full" \in toasts'
      BY <1>7, <2>2
  <2>3. CASE "full" \notin toasts' /\ charge' # before
    <3>1. /\ "half" \in toasts' \/ "high" \in toasts'
          /\ charge' = Rank["half"] \/ (charge' = Rank["high"] /\ "high" \in toasts')
          /\ charge' = Rank["half"] => "half" \in toasts'
        BY <1>4, <1>5, <2>3 DEF Milestones, Rank
    <3>2. m # "full"
        BY <3>1 DEF Rank
    <3>3. "high" \in toasts' => "half" \in toasts' \cup latched
        BY <1>1, <1>6
    <3> QED
        BY <1>7, <3>1, <3>2, <3>3 DEF Milestones, Rank
  <2> QED
      BY <2>1, <2>2, <2>3
<1> QED
    BY <1>2, <1>4, <1>5, <1>7, <1>8

(* A step of the USB loop leaves the tiers alone and only raises the rank. *)
LEMMA UsbWarns ==
    ASSUME WarnInv, watch' = "usb", lastPct' \in Level,
           UNCHANGED <<shown, dip, seen>>,
           toasts' \subseteq Milestones,
           shownCharge' \subseteq Milestones, charge' \in 0 .. 3,
           belowFull' \in BOOLEAN, ChargeIsLatched',
           \A m \in toasts' : Rank[m] > charge
    PROVE  WarnStep
<1>1. WarnTypeOK'
    BY DEF WarnInv, WarnTypeOK
<1>2. toasts' \cap dip = {}
    BY DEF WarnInv, WarnTypeOK, Milestones, Tiers
<1> QED
    BY <1>1, <1>2 DEF WarnStep, WarnInv

LEMMA Unlatched ==
    ASSUME WarnInv, NEW m \in Milestones \ shownCharge
    PROVE  Rank[m] > charge
<1>1. Rank[m] \in Int /\ charge \in Int
    BY DEF WarnInv, WarnTypeOK, Rank, Milestones
<1> QED
    BY <1>1 DEF WarnInv, ChargeIsLatched

LEMMA UsbLevelWarns ==
    ASSUME WarnInv, NEW pct \in Level, NEW charging \in BOOLEAN,
           NEW firmwareFull \in BOOLEAN, UsbLevel(pct, charging, firmwareFull)
    PROVE  WarnStep
<1>1. /\ watch' = "usb" /\ lastPct' = pct /\ UNCHANGED <<shown, dip, seen>>
      /\ RememberCharge(charge)
    BY DEF UsbLevel
<1>2. /\ shownCharge \in SUBSET Milestones /\ charge \in 0 .. 3
      /\ belowFull \in BOOLEAN
      /\ \A m \in Milestones : Rank[m] <= charge => m \in shownCharge
    BY DEF WarnInv, WarnTypeOK, ChargeIsLatched
<1>3. CASE pct = lastPct /\ ~firmwareFull
  <2>1. toasts' = {} /\ shownCharge' = shownCharge /\ belowFull' = belowFull
      BY <1>3 DEF UsbLevel
  <2>2. charge' = charge
      BY <1>1, <1>2, <2>1, ChargeRanks
  <2> QED
      BY <1>1, <1>2, <2>1, <2>2, UsbWarns DEF ChargeIsLatched
<1>4. CASE ~(pct = lastPct /\ ~firmwareFull)
  <2>1. UsbUpdate(pct, charging, firmwareFull, shownCharge, belowFull)
      BY <1>4 DEF UsbLevel
  <2>2. /\ toasts' \subseteq Milestones \ shownCharge
        /\ shownCharge' \subseteq Milestones /\ charge' \in 0 .. 3
        /\ belowFull' \in BOOLEAN
        /\ ChargeIsLatched'
      BY <1>1, <1>2, <2>1, UsbTells
  <2> QED
      BY <1>1, <2>2, Unlatched, UsbWarns
<1> QED
    BY <1>3, <1>4

(* A level below half opens the latches, and nothing is told then. *)
LEMMA EnterUsbWarns == WarnInv /\ EnterUsb => WarnStep
<1> SUFFICES ASSUME WarnInv, EnterUsb PROVE WarnStep
    OBVIOUS
<1>1. watch' = "usb" /\ UNCHANGED <<shown, dip, seen>>
    BY DEF EnterUsb
<1>2. shownCharge \in SUBSET Milestones /\ charge \in 0 .. 3
    BY DEF WarnInv, WarnTypeOK
<1>3. CASE /\ lastPct' = 0 /\ belowFull' = TRUE
           /\ toasts' = {} /\ shownCharge' = {} /\ charge' = 0
  <2>1. ChargeIsLatched'
      BY <1>3 DEF ChargeIsLatched, Milestones, Rank
  <2>2. lastPct' \in Level
      BY <1>3, LevelsAssumption DEF Level
  <2> QED
      BY <1>1, <1>3, <2>1, <2>2, UsbWarns
<1>4. ASSUME NEW pct \in Level, NEW charging \in BOOLEAN, NEW firmwareFull \in BOOLEAN,
             NEW latched, latched = IF pct < Half THEN {} ELSE shownCharge,
             lastPct' = pct,
             IF firmwareFull
             THEN UsbUpdate(pct, charging, TRUE, latched, FALSE)
             ELSE /\ toasts' = {} /\ shownCharge' = latched
                  /\ belowFull' = ~Full(pct, FALSE),
             RememberCharge(IF pct < Half THEN 0 ELSE charge)
      PROVE  WarnStep
  <2> DEFINE before == IF pct < Half THEN 0 ELSE charge
  <2>1. /\ latched \in SUBSET Milestones /\ before \in 0 .. 3
        /\ \A m \in Milestones : Rank[m] <= before => m \in latched
    <3>1. CASE pct < Half
        BY <1>4, <3>1 DEF Milestones, Rank
    <3>2. CASE ~(pct < Half)
        BY <1>4, <1>2, <3>2 DEF WarnInv, ChargeIsLatched
    <3> QED
        BY <3>1, <3>2
  <2>2. /\ toasts' \subseteq Milestones \ latched
        /\ shownCharge' \subseteq Milestones /\ charge' \in 0 .. 3
        /\ belowFull' \in BOOLEAN
        /\ ChargeIsLatched'
    <3>1. CASE firmwareFull
      <4>1. UsbUpdate(pct, charging, TRUE, latched, FALSE)
          BY <1>4, <3>1
      <4>2. RememberCharge(before)
          BY <1>4
      <4> HIDE DEF before
      <4> QED
          BY <2>1, <4>1, <4>2, UsbTells
    <3>2. CASE ~firmwareFull
      <4>1. toasts' = {} /\ shownCharge' = latched
          BY <1>4, <3>2
      <4>2. belowFull' \in BOOLEAN
          BY <1>4, <3>2, Zenon
      <4>3. charge' = before
          BY <1>4, <2>1, <4>1, ChargeRanks
      <4> QED
          BY <2>1, <4>1, <4>2, <4>3 DEF ChargeIsLatched
    <3> QED
        BY <3>1, <3>2
  <2>3. pct < Half => toasts' = {}
    <3>1. CASE firmwareFull /\ pct < Half
        BY <1>4, <3>1, LevelsAssumption DEF UsbUpdate, ChargeDue, Level
    <3>2. CASE ~firmwareFull
        BY <1>4, <3>2
    <3> QED
        BY <3>1, <3>2
  <2>4. \A m \in toasts' : Rank[m] > charge
      BY <1>4, <2>2, <2>3, Unlatched
  <2> QED
      BY <1>1, <1>4, <2>2, <2>4, UsbWarns
<1> QED
    BY <1>3, <1>4 DEF EnterUsb

LEMMA WarnSteps == WarnInv /\ [WarnNext]_warnVars => WarnInv' /\ (WarnStep \/ UNCHANGED warnVars)
<1> SUFFICES ASSUME WarnInv, WarnNext \/ UNCHANGED warnVars
             PROVE  WarnInv' /\ (WarnStep \/ UNCHANGED warnVars)
    OBVIOUS
<1>1. CASE UNCHANGED warnVars
    BY <1>1
    DEF WarnInv, WarnTypeOK, ChargeIsLatched, warnVars, latches, Reached
<1>2. CASE WarnNext
  <2>1. WarnStep
      BY <1>2, EnterBluetoothWarns, BluetoothLevelWarns, EndsWarn, EnterUsbWarns,
         UsbLevelWarns
      DEF WarnNext
  <2> QED
      BY <2>1 DEF WarnStep
<1> QED
    BY <1>1, <1>2

LEMMA WarnInductive == WarnSpec => []WarnInv
    BY WarnInitially, WarnSteps, PTL DEF WarnSpec

(* The latches and what is told are what they can be, for any thresholds    *)
(* that the configuration accepts. *)
THEOREM WarnTypeCorrect == WarnSpec => []WarnTypeOK
<1>1. WarnInv => WarnTypeOK
    BY DEF WarnInv
<1> QED
    BY <1>1, WarnInductive, PTL

(* One dip warns of each tier once and leaves none out, for any thresholds  *)
(* and any levels, however often the loops change and start over.           *)
THEOREM DipsWarnOnce == WarnSpec => WarnedOncePerDip
<1> DEFINE A == /\ toasts' \cap dip = {}
                /\ seen' /\ watch' = "bluetooth" => Reached(lastPct') \subseteq dip'
<1>1. ASSUME WarnInv, [WarnNext]_warnVars PROVE A \/ UNCHANGED warnVars
    BY <1>1, WarnSteps DEF WarnStep, WarnInv
<1> QED
    BY <1>1, WarnInductive, PTL DEF WarnSpec, WarnedOncePerDip

(* One charge tells of no milestone after a higher one, for any milestones  *)
(* that the configuration accepts. *)
THEOREM ChargesRise == WarnSpec => MilestonesRise
<1> DEFINE A == \A m \in toasts' \cap Milestones : Rank[m] > charge
<1>1. ASSUME WarnInv, [WarnNext]_warnVars PROVE A \/ UNCHANGED warnVars
    BY <1>1, WarnSteps DEF WarnStep
<1> QED
    BY <1>1, WarnInductive, PTL DEF WarnSpec, MilestonesRise

-----------------------------------------------------------------------------
(* Result tokens: what is on its way belongs to waits, of now or timed out. *)
TokenInv == TokenTypeOK /\ TokensAreTimeouts /\ AcksAreEarned

LEMMA LimitIsNat == Limit \in Nat /\ (use = "dock" => Limit = 1)
    BY TokensAssumption DEF Limit

LEMMA TokenInitially == TokenInit => TokenInv
    BY TokensAssumption, LimitIsNat
    DEF TokenInit, TokenInv, TokenTypeOK, TokensAreTimeouts, AcksAreEarned, Stuck

LEMMA TokenTypeKept == TokenTypeOK /\ TokenNext => TokenTypeOK' /\ Limit' = Limit
<1> SUFFICES ASSUME TokenTypeOK, TokenNext PROVE TokenTypeOK' /\ Limit' = Limit
    OBVIOUS
<1>1. use' = use /\ Limit' = Limit
    BY DEF TokenNext, SendUpdate, WaitEnds, WaitTimesOut, Reconciles, TakeValue,
           TokenIsSent, Limit
<1> QED
    BY <1>1, TokensAssumption, LimitIsNat
    DEF TokenTypeOK, TokenNext, SendUpdate, WaitEnds, WaitTimesOut, Reconciles,
        TakeValue, TokenIsSent

LEMMA TokenKeeps == TokenInv /\ TokenNext => TokenInv'
<1> SUFFICES ASSUME TokenInv, TokenNext PROVE TokenInv'
    OBVIOUS
<1>1. TokenTypeOK'
    BY TokenTypeKept DEF TokenInv
<1>2. TokensAreTimeouts'
  <2>1. tokens' + inbox' + Stuck' <= timeouts' + waits'
      BY TokensAssumption, LimitIsNat
      DEF TokenInv, TokenTypeOK, TokensAreTimeouts, Stuck, TokenNext, SendUpdate,
          WaitEnds, WaitTimesOut, Reconciles, TakeValue, TokenIsSent
  <2> QED
    <3>1. /\ tokens' \in Nat /\ inbox' \in Nat /\ timeouts' \in Nat /\ waits' \in Nat
          /\ TokenCap \in Nat
        BY <1>1, TokenTypeKept, LimitIsNat, TokensAssumption DEF TokenInv, TokenTypeOK
    <3>2. display' = "sending" => tokens' + inbox' + 1 <= timeouts' + waits'
        BY <2>1 DEF Stuck
    <3>3. ASSUME NEW a \in Nat, NEW b \in Nat, NEW c \in Nat, NEW d \in Nat,
                 a + b + 1 <= c + d
          PROVE  c + d > a
        BY <3>3
    <3>4. display' = "sending" /\ tokens' = TokenCap => timeouts' + waits' > TokenCap
        BY <3>1, <3>2, <3>3
    <3> QED
        BY <2>1, <3>4 DEF TokensAreTimeouts
<1>3. AcksAreEarned'
  <2>1. CASE WaitEnds
    <3>1. use = "dock" /\ timeouts = 0 => inbox = 0
        BY <2>1, LimitIsNat, TokensAssumption
        DEF TokenInv, TokenTypeOK, TokensAreTimeouts, Stuck, WaitEnds
    <3> QED
        BY <2>1, <3>1 DEF WaitEnds, AcksAreEarned, TokenInv, TokenTypeOK
  <2>2. CASE ~WaitEnds
      BY <2>2, TokensAssumption
      DEF TokenInv, TokenTypeOK, AcksAreEarned, TokenNext, SendUpdate, WaitTimesOut,
          Reconciles, TakeValue, TokenIsSent
  <2> QED
      BY <2>1, <2>2
<1> QED
    BY <1>1, <1>2, <1>3 DEF TokenInv

LEMMA TokenStep == TokenInv /\ [TokenNext]_tokenVars => TokenInv'
    BY TokenKeeps
    DEF TokenInv, TokenTypeOK, TokensAreTimeouts, AcksAreEarned, Stuck, Limit, tokenVars

LEMMA TokenInductive == TokenSpec => []TokenInv
    BY TokenStep, TokenInitially, PTL DEF TokenSpec

(* Channels, waits and counts are what they can be, for any capacities. *)
THEOREM TokenTypeCorrect == TokenSpec => []TokenTypeOK
<1>1. TokenInv => TokenTypeOK
    BY DEF TokenInv
<1> QED
    BY <1>1, TokenInductive, PTL

(* The display task hangs on a full channel only after as many timeouts as  *)
(* the channel has slots, for any capacities and number of waits. *)
THEOREM HangsNeedTimeouts == TokenSpec => []TokensAreTimeouts
<1>1. TokenInv => TokensAreTimeouts
    BY DEF TokenInv
<1> QED
    BY <1>1, TokenInductive, PTL

(* Until a wait times out, no dock update is acknowledged before the        *)
(* display task has taken it. *)
THEOREM DockAcksAreEarned == TokenSpec => []AcksAreEarned
<1>1. TokenInv => AcksAreEarned
    BY DEF TokenInv
<1> QED
    BY <1>1, TokenInductive, PTL

-----------------------------------------------------------------------------
(* Ambient reports: the newest value on the way is the setting, and what a  *)
(* client that serves has told last is what the root daemon has. *)
Newest ==
    IF Len(lines) > 0 THEN {lines[Len(lines)]}
    ELSE IF Len(reports) > 0 THEN {reports[Len(reports)]}
    ELSE latestAmbient

AmbientInv ==
    /\ AmbientTypeOK
    /\ reader # "follow" => Len(lines) = 0
    /\ reader # "read" /\ ~missed => Newest = {setting}
    /\ client \in {"subscribe", "serve"} /\ ~ownerGone /\ ~unaware =>
           latestAmbient \in {None, {rootAmbient}}

LEMMA TakenValue ==
    ASSUME NEW q \in Seq(BOOLEAN), Len(q) > 0
    PROVE  /\ Len(q) \in Nat /\ Head(q) = q[1] /\ q[1] \in BOOLEAN /\ q[Len(q)] \in BOOLEAN
           /\ Tail(q) \in Seq(BOOLEAN) /\ Len(Tail(q)) = Len(q) - 1
           /\ Len(q) > 1 => Tail(q)[Len(q) - 1] = q[Len(q)]
    OBVIOUS

LEMMA AddedValue ==
    ASSUME NEW q \in Seq(BOOLEAN), NEW v \in BOOLEAN
    PROVE  /\ Len(q) \in Nat
           /\ Append(q, v) \in Seq(BOOLEAN) /\ Len(Append(q, v)) = Len(q) + 1
           /\ Append(q, v)[Len(q) + 1] = v
    OBVIOUS

LEMMA RootHolds == AmbientInv => RootHasSetting
<1> SUFFICES ASSUME AmbientInv,
                    client = "serve", registered, ~ownerGone,
                    reader # "read", lines = <<>>, reports = <<>>,
                    ~missed, ~unaware
             PROVE  rootAmbient = setting
    BY DEF RootHasSetting
<1>1. Len(lines) = 0 /\ Len(reports) = 0
    OBVIOUS
<1>2. latestAmbient = {setting}
    BY <1>1 DEF AmbientInv, Newest
<1> QED
    BY <1>2 DEF AmbientInv, None

LEMMA AmbientInitially == AmbientInit => AmbientInv
<1> SUFFICES ASSUME AmbientInit PROVE AmbientInv
    OBVIOUS
<1>1. /\ registered \in BOOLEAN /\ ownerGone \in BOOLEAN
      /\ missed \in BOOLEAN /\ unaware \in BOOLEAN
    BY Zenon DEF AmbientInit
<1>2. lines = <<>> /\ reports = <<>> /\ Len(lines) = 0 /\ Len(reports) = 0
    BY DEF AmbientInit
<1> QED
    BY <1>1, <1>2, AmbientAssumption DEF AmbientInit, AmbientInv, AmbientTypeOK, None

(* What stays in the steps that touch neither the values on their way nor   *)
(* what the root daemon has. *)
LEMMA SettingChangesKeeps == AmbientInv /\ SettingChanges => AmbientInv'
<1> SUFFICES ASSUME AmbientInv, SettingChanges PROVE AmbientInv'
    OBVIOUS
<1>1. setting' \in BOOLEAN /\ missed' \in BOOLEAN /\ setting' = ~setting
    BY Zenon DEF SettingChanges
<1>2. lines \in Seq(BOOLEAN)
    BY DEF AmbientInv, AmbientTypeOK
<1>3. CASE reader = "follow"
  <2>1. /\ lines' \in Seq(BOOLEAN) /\ Len(lines') = Len(lines) + 1
        /\ lines'[Len(lines')] = setting'
      BY <1>1, <1>2, <1>3, AddedValue DEF SettingChanges
  <2>2. Len(lines') > 0
      BY <1>2, <2>1
  <2> QED
      BY <1>1, <1>3, <2>1, <2>2
      DEF AmbientInv, AmbientTypeOK, Newest, SettingChanges
<1>4. CASE reader # "follow"
    BY <1>1, <1>4 DEF AmbientInv, AmbientTypeOK, SettingChanges
<1> QED
    BY <1>3, <1>4

LEMMA ReadSettingKeeps == AmbientInv /\ ReadSetting => AmbientInv'
<1> SUFFICES ASSUME AmbientInv, ReadSetting PROVE AmbientInv'
    OBVIOUS
<1>1. missed' \in BOOLEAN
    BY Zenon DEF AmbientInv, AmbientTypeOK, ReadSetting
<1>2. /\ reader' = "start" /\ Len(lines') = 0 /\ lines' = lines
      /\ UNCHANGED <<setting, latestAmbient, client, registered, ownerGone,
                     rootAmbient, unaware>>
    BY DEF AmbientInv, ReadSetting
<1>3. reports \in Seq(BOOLEAN) /\ setting \in BOOLEAN
    BY DEF AmbientInv, AmbientTypeOK
<1>4. CASE Len(reports) < ReportCap /\ reports' = Append(reports, setting)
  <2>1. /\ reports' \in Seq(BOOLEAN) /\ Len(reports') = Len(reports) + 1
        /\ reports'[Len(reports')] = setting' /\ Len(reports) \in Nat
      BY <1>2, <1>3, <1>4, AddedValue
  <2>2. Len(reports') > 0 /\ Len(reports') <= ReportCap
      BY <1>4, <2>1, AmbientAssumption
  <2>3. Newest' = {setting'}
      BY <1>2, <2>1, <2>2 DEF Newest
  <2>4. AmbientTypeOK'
      BY <1>1, <1>2, <2>1, <2>2 DEF AmbientInv, AmbientTypeOK
  <2> QED
      BY <1>2, <2>3, <2>4 DEF AmbientInv
<1>5. CASE missed' = TRUE /\ reports' = reports
    BY <1>1, <1>2, <1>5 DEF AmbientInv, AmbientTypeOK
<1> QED
    BY <1>4, <1>5 DEF ReadSetting

LEMMA MonitorKeeps == AmbientInv /\ (MonitorStarts \/ MonitorEnds) => AmbientInv'
<1> SUFFICES ASSUME AmbientInv, MonitorStarts \/ MonitorEnds PROVE AmbientInv'
    OBVIOUS
<1>1. missed' \in BOOLEAN
    BY Zenon DEF AmbientInv, AmbientTypeOK, MonitorStarts, MonitorEnds
<1>2. CASE MonitorStarts
    BY <1>1, <1>2 DEF AmbientInv, AmbientTypeOK, Newest, MonitorStarts
<1>3. CASE MonitorEnds
  <2>1. lines' = <<>> /\ Len(lines') = 0 /\ lines' \in Seq(BOOLEAN)
      BY <1>3 DEF MonitorEnds
  <2>2. ~missed' => ~missed /\ Len(lines) = 0
      BY <1>3 DEF MonitorEnds
  <2> QED
      BY <1>1, <1>3, <2>1, <2>2 DEF AmbientInv, AmbientTypeOK, Newest, MonitorEnds
<1> QED
    BY <1>2, <1>3

LEMMA ReadLineKeeps == AmbientInv /\ ReadLine => AmbientInv'
<1> SUFFICES ASSUME AmbientInv, ReadLine PROVE AmbientInv'
    OBVIOUS
<1>1. /\ lines \in Seq(BOOLEAN) /\ reports \in Seq(BOOLEAN)
      /\ Len(lines) > 0 /\ Len(lines) \in Nat /\ Len(reports) \in Nat
    BY TakenValue DEF AmbientInv, AmbientTypeOK, ReadLine
<1>2. /\ lines' = Tail(lines) /\ reports' = Append(reports, lines[1])
      /\ reader = "follow" /\ Len(reports) < ReportCap
      /\ UNCHANGED <<setting, reader, latestAmbient, client, registered, ownerGone,
                     rootAmbient, missed, unaware>>
    BY <1>1, TakenValue DEF ReadLine
<1>3. /\ lines' \in Seq(BOOLEAN) /\ Len(lines') = Len(lines) - 1
      /\ Len(lines) > 1 => lines'[Len(lines) - 1] = lines[Len(lines)]
    BY <1>1, <1>2, TakenValue
<1>4. /\ reports' \in Seq(BOOLEAN) /\ Len(reports') = Len(reports) + 1
      /\ reports'[Len(reports) + 1] = lines[1]
    BY <1>1, <1>2, TakenValue, AddedValue
<1>5. Newest' = Newest
  <2>1. CASE Len(lines) = 1
      BY <1>1, <1>3, <1>4, <2>1 DEF Newest
  <2>2. CASE Len(lines) > 1
      BY <1>1, <1>3, <2>2 DEF Newest
  <2> QED
      BY <1>1, <2>1, <2>2
<1>6. AmbientTypeOK'
  <2>1. Len(reports') <= ReportCap
      BY <1>1, <1>2, <1>4, AmbientAssumption
  <2> QED
      BY <1>2, <1>3, <1>4, <2>1 DEF AmbientInv, AmbientTypeOK
<1> QED
    BY <1>2, <1>5, <1>6 DEF AmbientInv

LEMMA RegistersKeeps == AmbientInv /\ Registers => AmbientInv'
<1> SUFFICES ASSUME AmbientInv, Registers PROVE AmbientInv'
    OBVIOUS
<1>1. registered' \in BOOLEAN /\ ownerGone' \in BOOLEAN /\ unaware' \in BOOLEAN
    BY Zenon DEF Registers
<1>2. /\ client' = "replay" /\ reports' = <<>> /\ Len(reports') = 0
      /\ UNCHANGED <<setting, reader, lines, rootAmbient, missed>>
      /\ reports \in Seq(BOOLEAN)
    BY DEF Registers, AmbientInv, AmbientTypeOK
<1>3. latestAmbient' = IF Len(reports) > 0 THEN {reports[Len(reports)]} ELSE latestAmbient
    BY <1>2 DEF Registers, Coalesced, Some
<1>4. latestAmbient' \in {None, {TRUE}, {FALSE}}
    BY <1>2, <1>3, TakenValue DEF AmbientInv, AmbientTypeOK
<1>5. Newest' = Newest
    BY <1>2, <1>3 DEF Newest
<1>6. AmbientTypeOK'
  <2>1. reports' \in Seq(BOOLEAN) /\ Len(reports') <= ReportCap
      BY <1>2, AmbientAssumption
  <2> QED
      BY <1>1, <1>2, <1>4, <2>1 DEF AmbientInv, AmbientTypeOK
<1> QED
    BY <1>2, <1>5, <1>6 DEF AmbientInv

(* A report that succeeds leaves its value with the root daemon. *)
LEMMA ReplayKeeps == AmbientInv /\ Replay => AmbientInv'
<1> SUFFICES ASSUME AmbientInv, Replay PROVE AmbientInv'
    OBVIOUS
<1>1. UNCHANGED <<setting, reader, lines, reports, latestAmbient, registered,
                  ownerGone, missed, unaware>>
    BY DEF Replay
<1>2. CASE latestAmbient = None /\ client' = "subscribe" /\ rootAmbient' = rootAmbient
    BY <1>1, <1>2 DEF AmbientInv, AmbientTypeOK, Newest
<1>3. ASSUME NEW v \in latestAmbient, NEW ok \in BOOLEAN, Tell(v, ok),
             client' = IF ok THEN "subscribe" ELSE "away"
      PROVE  AmbientInv'
  <2>1. v \in BOOLEAN /\ latestAmbient = {v}
    <3>1. latestAmbient = {TRUE} \/ latestAmbient = {FALSE}
        BY <1>3 DEF AmbientInv, AmbientTypeOK, None
    <3>2. ASSUME NEW b \in BOOLEAN, latestAmbient = {b}
          PROVE  v \in BOOLEAN /\ latestAmbient = {v}
      <4>1. v = b
          BY <1>3, <3>2
      <4> QED
          BY <3>2, <4>1, Zenon
    <3> QED
        BY <3>1, <3>2
  <2>2. rootAmbient' \in BOOLEAN /\ (ok => rootAmbient' = v)
      BY <1>3, <2>1, Zenon DEF Tell, AmbientInv, AmbientTypeOK
  <2>3. client' \in {"subscribe", "away"} /\ (client' = "subscribe" => ok)
      BY <1>3
  <2> QED
      BY <1>1, <2>1, <2>2, <2>3 DEF AmbientInv, AmbientTypeOK, Newest
<1> QED
    BY <1>2, <1>3 DEF Replay

LEMMA ForwardKeeps == AmbientInv /\ Forward => AmbientInv'
<1> SUFFICES ASSUME AmbientInv, Forward PROVE AmbientInv'
    OBVIOUS
<1>1. /\ reports \in Seq(BOOLEAN) /\ Len(reports) > 0 /\ Len(reports) \in Nat
      /\ Head(reports) = reports[1]
    BY TakenValue DEF AmbientInv, AmbientTypeOK, Forward
<1>2. /\ reports' = Tail(reports) /\ latestAmbient' = {reports[1]}
      /\ UNCHANGED <<setting, reader, lines, registered, ownerGone, missed, unaware>>
    BY <1>1 DEF Forward, Some
<1>3. /\ reports' \in Seq(BOOLEAN) /\ Len(reports') = Len(reports) - 1
      /\ Len(reports) > 1 => reports'[Len(reports) - 1] = reports[Len(reports)]
      /\ reports[1] \in BOOLEAN
    BY <1>1, <1>2, TakenValue
<1>4. Newest' = Newest
  <2>1. CASE Len(reports) = 1
      BY <1>1, <1>2, <1>3, <2>1 DEF Newest
  <2>2. CASE Len(reports) > 1
    <3>1. Len(reports') > 0 /\ reports'[Len(reports')] = reports[Len(reports)]
        BY <1>1, <1>3, <2>2
    <3> QED
        BY <1>1, <1>2, <3>1 DEF Newest
  <2> QED
      BY <1>1, <2>1, <2>2
<1>5. PICK ok \in BOOLEAN : Tell(reports[1], ok) /\ client' = IF ok THEN "serve" ELSE "away"
    BY <1>1, Zenon DEF Forward
<1>6. rootAmbient' \in BOOLEAN /\ (ok => rootAmbient' = reports[1])
    BY <1>3, <1>5, Zenon DEF Tell, AmbientInv, AmbientTypeOK
<1>7. client' \in {"serve", "away"} /\ (client' = "serve" => ok)
    BY <1>5
<1>8. AmbientTypeOK'
  <2>1. Len(reports') <= ReportCap
      BY <1>1, <1>3, AmbientAssumption DEF AmbientInv, AmbientTypeOK
  <2>2. latestAmbient' \in {None, {TRUE}, {FALSE}}
      BY <1>2, <1>3
  <2> QED
      BY <1>2, <1>3, <1>6, <1>7, <2>1, <2>2 DEF AmbientInv, AmbientTypeOK
<1> QED
    BY <1>2, <1>4, <1>6, <1>7, <1>8 DEF AmbientInv

LEMMA ClientKeeps ==
    AmbientInv /\ (Subscribes \/ Reconnects \/ DisplayRegisters) => AmbientInv'
<1> SUFFICES ASSUME AmbientInv, Subscribes \/ Reconnects \/ DisplayRegisters
             PROVE  AmbientInv'
    OBVIOUS
<1>1. registered' \in BOOLEAN
    BY Zenon DEF AmbientInv, AmbientTypeOK, Subscribes, Reconnects, DisplayRegisters
<1> QED
    BY <1>1
    DEF AmbientInv, AmbientTypeOK, Newest, Subscribes, Reconnects, DisplayRegisters

LEMMA RootRestartsKeeps == AmbientInv /\ RootRestarts => AmbientInv'
<1> SUFFICES ASSUME AmbientInv, RootRestarts PROVE AmbientInv'
    OBVIOUS
<1>1. registered' \in BOOLEAN /\ ownerGone' \in BOOLEAN /\ unaware' \in BOOLEAN
    BY Zenon DEF RootRestarts
<1>2. (client = "serve" => ownerGone') /\ (client = "subscribe" => unaware')
    BY Zenon DEF RootRestarts
<1> QED
    BY <1>1, <1>2 DEF AmbientInv, AmbientTypeOK, Newest, RootRestarts

LEMMA AmbientStep == AmbientInv /\ [AmbientNext]_ambientVars => AmbientInv'
<1> SUFFICES ASSUME AmbientInv, AmbientNext \/ UNCHANGED ambientVars PROVE AmbientInv'
    OBVIOUS
<1>1. CASE UNCHANGED ambientVars
    BY <1>1 DEF AmbientInv, AmbientTypeOK, Newest, ambientVars
<1>2. CASE AmbientNext
    BY <1>2, SettingChangesKeeps, ReadSettingKeeps, MonitorKeeps, ReadLineKeeps,
       RegistersKeeps, ReplayKeeps, ForwardKeeps, ClientKeeps, RootRestartsKeeps
    DEF AmbientNext
<1> QED
    BY <1>1, <1>2

LEMMA AmbientInductive == AmbientSpec => []AmbientInv
    BY AmbientStep, AmbientInitially, PTL DEF AmbientSpec

(* Values on their way and the client's state are what they can be, for any *)
(* capacity of the channel. *)
THEOREM AmbientTypeCorrect == AmbientSpec => []AmbientTypeOK
<1>1. AmbientInv => AmbientTypeOK
    BY DEF AmbientInv
<1> QED
    BY <1>1, AmbientInductive, PTL

(* With nothing on its way the root daemon has GNOME's setting, for any     *)
(* capacity of the channel and any number of lines. *)
THEOREM RootGetsSetting == AmbientSpec => []RootHasSetting
    BY RootHolds, AmbientInductive, PTL
=============================================================================
