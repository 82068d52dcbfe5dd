------------------------- MODULE UsbSessions_proofs -------------------------
(***************************************************************************)
(* Proofs about UsbSessions, for any number of plug-ins.                   *)
(*                                                                         *)
(* UsbSettles is about a monitor at rest.  That it holds there follows     *)
(* from what the monitor knows on the way: the events in its queue lead    *)
(* from the device it knows of to the one that is plugged in (Alternates,  *)
(* LastIsFact, FirstIsNews), each device is new to the sessions before it  *)
(* (NewDevices, Starting), the current session is the one whose receive    *)
(* task will hear the unplug (CurrentIsHeard), and so the belief is right  *)
(* for the device that is known (Believed, Forgotten).                     *)
(***************************************************************************)
EXTENDS UsbSessions, TLAPS

Bounded == \A i \in 1 .. Len(hotplug) : hotplug[i].dev <= plugs

(* A device that was reported is reported gone next, and then another. *)
Alternates ==
    \A i \in 1 .. Len(hotplug) - 1 :
        IF hotplug[i].kind = "connected"
        THEN /\ hotplug[i + 1].kind = "disconnected"
             /\ hotplug[i + 1].dev = hotplug[i].dev
        ELSE hotplug[i + 1].kind = "connected"

LastIsFact ==
    Len(hotplug) > 0 =>
        plugged = IF hotplug[Len(hotplug)].kind = "connected"
                  THEN hotplug[Len(hotplug)].dev
                  ELSE NoDevice

(* The device the monitor has, or is starting. *)
Known == IF step \in {"idle", "find"} THEN current ELSE dev

FirstIsNews ==
    step # "find" /\ ~astray =>
        Known = IF Len(hotplug) = 0 THEN plugged
                ELSE IF hotplug[1].kind = "connected" THEN NoDevice
                ELSE hotplug[1].dev

NewDevices ==
    \A i \in 1 .. Len(hotplug) : hotplug[i].kind = "connected" =>
        /\ hotplug[i].dev > latest
        /\ step \notin {"idle", "find"} => hotplug[i].dev > dev
        /\ \A j \in 1 .. i - 1 : hotplug[j].kind = "connected" =>
               hotplug[j].dev < hotplug[i].dev

Starting ==
    /\ step \notin {"idle", "find"} => dev \in Devices /\ current = NoDevice
    /\ step \in {"boot", "settle", "open"} => dev > latest
    /\ step \in {"detect", "claim", "restore"} =>
           dev = latest /\ dev \notin receivers /\ dev \notin shut
    /\ current <= latest

Booting ==
    /\ ~watching => /\ Len(hotplug) = 0
                    /\ step \notin {"settle", "detect"}
                    /\ step # "idle" => resume.pc = "none"
    /\ step \in {"find", "boot"} => ~watching
    /\ step = "find" => current = NoDevice /\ ~usb /\ ~pogo /\ ~astray
    /\ step \in {"find", "boot"} \/ (step = "open" /\ ~watching) => latest = 0

(* The session that is current has its receive task, has not been told to  *)
(* stop, and is the latest: only so will the unplug be noticed.            *)
CurrentIsHeard ==
    current # NoDevice /\ ~astray =>
        /\ current \in receivers /\ current \notin shut
        /\ current = latest

(* With no news, a device that is started or running is believed in. *)
Believed ==
    /\ Len(hotplug) = 0 /\ ~astray
    /\ \/ step \in {"claim", "restore"}
       \/ step = "open" /\ ~watching
       \/ step = "idle" /\ current # NoDevice
    => usb /\ (pogo => docked)

(* With no news, a device that is gone is not, or not for long. *)
Forgotten ==
    Len(hotplug) = 0 /\ ~astray /\ step = "idle" /\ current = NoDevice =>
        ~usb \/ (latest \in receivers /\ latest \in shut)

IInv ==
    /\ UsbTypeOK /\ Bounded
    /\ Alternates /\ LastIsFact /\ FirstIsNews
    /\ NewDevices /\ Starting /\ Booting
    /\ CurrentIsHeard /\ Believed /\ Forgotten


-----------------------------------------------------------------------------
(* Indices of a queue after one event has been taken or reported. *)
LEMMA TakenQueue ==
    ASSUME NEW q \in Seq(Event), Len(q) > 0
    PROVE  /\ Head(q) = q[1]
           /\ Tail(q) \in Seq(Event)
           /\ Len(Tail(q)) = Len(q) - 1
           /\ \A i \in 1 .. Len(q) - 1 : Tail(q)[i] = q[i + 1]
    OBVIOUS

LEMMA ReportedQueue ==
    ASSUME NEW q \in Seq(Event), NEW e \in Event
    PROVE  /\ Append(q, e) \in Seq(Event)
           /\ Len(Append(q, e)) = Len(q) + 1
           /\ \A i \in 1 .. Len(q) : Append(q, e)[i] = q[i]
           /\ Append(q, e)[Len(q) + 1] = e
    OBVIOUS

LEMMA Holds == IInv => UsbSettles
    BY MaxPlugsAssumption
    DEF IInv, UsbTypeOK, FirstIsNews, Known, Starting, Booting, CurrentIsHeard,
        Believed, Forgotten, UsbSettles, AtRest, NoDevice, Devices, Event, Steps

(* The provers are given the flags apart: what is in BOOLEAN. *)
Markers ==
    /\ watching \in BOOLEAN /\ docked \in BOOLEAN
    /\ usb \in BOOLEAN /\ pogo \in BOOLEAN /\ astray \in BOOLEAN

LEMMA Starts == UsbInit => IInv
<1> SUFFICES ASSUME UsbInit PROVE IInv
    OBVIOUS
<1> USE DEF UsbInit, Fresh, NoDevice, NoResume
<1>1. UsbTypeOK
  <2>1. Markers
      BY Zenon DEF Markers
  <2> QED
      BY <2>1, MaxPlugsAssumption
      DEF Markers, UsbTypeOK, Devices, Event, Steps
<1>2. Len(hotplug) = 0
    OBVIOUS
<1>3. Bounded /\ Alternates /\ LastIsFact /\ NewDevices
    BY <1>2 DEF Bounded, Alternates, LastIsFact, NewDevices
<1>4. FirstIsNews /\ Starting /\ Booting /\ CurrentIsHeard /\ Believed /\ Forgotten
    BY <1>1, <1>2
    DEF UsbTypeOK, FirstIsNews, Known, Starting, Booting, CurrentIsHeard,
        Believed, Forgotten
<1> QED
    BY <1>1, <1>3, <1>4 DEF IInv

-----------------------------------------------------------------------------
(* The start-up and the steps of a start: the queue is not touched. *)
LEMMA DetectedIsFact ==
    ASSUME NEW p \in Detected
    PROVE  p = FALSE \/ (plugged # NoDevice /\ p = docked)
    BY DEF Detected

LEMMA PanicKeeps == IInv /\ Panic => IInv'
<1> SUFFICES ASSUME IInv, Panic PROVE IInv'
    OBVIOUS
<1>1. Markers'
    BY Zenon DEF Markers, IInv, UsbTypeOK, Panic, world
<1>2. Len(hotplug') = 0 /\ hotplug' \in Seq(Event)
    BY DEF Panic
<1> HIDE DEF Event
<1>3. UsbTypeOK'
    BY <1>1, <1>2
    DEF IInv, UsbTypeOK, Panic, Markers, NoDevice, NoResume, Steps, world
<1>4. (Bounded /\ Alternates /\ LastIsFact /\ NewDevices)'
    BY <1>2 DEF Bounded, Alternates, LastIsFact, NewDevices
<1>5. (FirstIsNews /\ Starting /\ Booting)'
  <2>1. FirstIsNews' /\ Starting'
      BY <1>2 DEF Panic, FirstIsNews, Known, Starting, NoDevice
  <2>2. ~watching' /\ ~usb' /\ ~pogo' /\ ~astray'
      BY Zenon DEF Panic
  <2>3. Booting'
      BY <1>2, <2>2 DEF Panic, Booting, NoResume, NoDevice
  <2> QED
      BY <2>1, <2>3
<1>6. (CurrentIsHeard /\ Believed /\ Forgotten)'
    BY DEF Panic, CurrentIsHeard, Believed, Forgotten, NoDevice
<1> QED
    BY <1>3, <1>4, <1>5, <1>6 DEF IInv

LEMMA BootFindKeeps == IInv /\ BootFind => IInv'
    BY MaxPlugsAssumption
    DEF IInv, UsbTypeOK, Bounded, Alternates, LastIsFact, FirstIsNews, Known,
        NewDevices, Starting, Booting, CurrentIsHeard, Believed, Forgotten,
        NoDevice, Devices, Event, Steps, world, monitorVars, state, SetUsb, BootFind

LEMMA BootStateKeeps == IInv /\ BootState => IInv'
<1> SUFFICES ASSUME IInv, BootState PROVE IInv'
    OBVIOUS
<1>1. Markers'
    BY Zenon DEF Markers, IInv, UsbTypeOK, world, monitorVars, state, SetUsb, BootState, Detected
<1>0. usb' /\ (pogo' => docked)
  <2>1. PICK p \in Detected : usb' = TRUE /\ pogo' = p
      BY Zenon DEF BootState, SetUsb
  <2> QED
      BY <2>1, DetectedIsFact, Zenon
<1>2. UsbTypeOK'
    BY <1>1, MaxPlugsAssumption
    DEF IInv, UsbTypeOK, Markers, Starting, NoDevice, Devices, Event, Steps, world,
        monitorVars, state, BootState, SetUsb, Detected
<1>3. (Bounded /\ Alternates /\ LastIsFact)'
    BY <1>1 DEF IInv, Bounded, Alternates, LastIsFact, world, NoDevice, BootState, SetUsb, Detected
<1>4. NewDevices'
    BY <1>1 DEF IInv, UsbTypeOK, NewDevices, Starting, world, monitorVars, Steps, BootState, SetUsb, Detected
<1>5. (FirstIsNews /\ Starting /\ Booting)'
    BY <1>1, MaxPlugsAssumption
    DEF IInv, UsbTypeOK, FirstIsNews, Known, Starting, Booting, NoDevice, Devices,
        Steps, world, monitorVars, state, BootState, SetUsb, Detected
<1>6. (CurrentIsHeard /\ Believed /\ Forgotten)'
    BY <1>0, <1>1, MaxPlugsAssumption
    DEF IInv, UsbTypeOK, Markers, FirstIsNews, Known, Starting, Booting, CurrentIsHeard,
        Believed, Forgotten, NoDevice, Devices, Steps, world, monitorVars, state, BootState
<1> QED
    BY <1>2, <1>3, <1>4, <1>5, <1>6 DEF IInv

LEMMA WatchKeeps == IInv /\ Watch => IInv'
    BY MaxPlugsAssumption
    DEF IInv, UsbTypeOK, Bounded, Alternates, LastIsFact, FirstIsNews, Known,
        NewDevices, Starting, Booting, CurrentIsHeard, Believed, Forgotten,
        NoDevice, Devices, Event, Steps, world, monitorVars, state, SetUsb, Watch

LEMMA SettledKeeps == IInv /\ Settled => IInv'
    BY MaxPlugsAssumption
    DEF IInv, UsbTypeOK, Bounded, Alternates, LastIsFact, FirstIsNews, Known,
        NewDevices, Starting, Booting, CurrentIsHeard, Believed, Forgotten,
        NoDevice, Devices, Event, Steps, world, monitorVars, state, SetUsb, Settled

LEMMA OpenKeeps == IInv /\ Open => IInv'
<1>0. CASE plugged # dev
    BY <1>0, PanicKeeps DEF Open
<1>1. CASE plugged = dev
  <2> SUFFICES ASSUME IInv, Open PROVE IInv'
      BY <1>1
  <2>1. /\ step = "open" /\ latest' = dev
        /\ step' = IF watching THEN "detect" ELSE "claim"
        /\ UNCHANGED <<plugged, docked, plugs, watching, dev, current, hotplug,
                        receivers, shut, resume, usb, pogo, astray>>
      BY <1>1 DEF Open, world, state
  <2>2. UsbTypeOK'
      BY <1>1, <2>1, MaxPlugsAssumption
      DEF IInv, UsbTypeOK, Markers, Starting, NoDevice, Devices, Event, Steps
  <2>3. (Bounded /\ Alternates /\ LastIsFact)'
      BY <1>1, <2>1 DEF IInv, Bounded, Alternates, LastIsFact, NoDevice
  <2>4. NewDevices'
      BY <1>1, <2>1 DEF IInv, UsbTypeOK, NewDevices, Starting, Steps
  <2>5. (FirstIsNews /\ Starting /\ Booting)'
      BY <1>1, <2>1, MaxPlugsAssumption
      DEF IInv, UsbTypeOK, FirstIsNews, Known, Starting, Booting, NoDevice, Devices,
          Steps
  <2>6. (CurrentIsHeard /\ Believed /\ Forgotten)'
      BY <1>1, <2>1, MaxPlugsAssumption
      DEF IInv, UsbTypeOK, Markers, FirstIsNews, Known, Starting, Booting, CurrentIsHeard,
          Believed, Forgotten, NoDevice, Devices, Steps
  <2> QED
      BY <2>2, <2>3, <2>4, <2>5, <2>6 DEF IInv
<1> QED
    BY <1>0, <1>1

LEMMA ClaimKeeps == IInv /\ Claim => IInv'
<1>0. CASE plugged # dev
    BY <1>0, PanicKeeps DEF Claim
<1>1. CASE plugged = dev
  <2> SUFFICES ASSUME IInv, Claim PROVE IInv'
      BY <1>1
  <2>1. /\ step = "claim" /\ step' = "restore"
        /\ UNCHANGED <<plugged, docked, plugs, watching, dev, current, latest,
                        hotplug, receivers, shut, resume, usb, pogo, astray>>
      BY <1>1 DEF Claim, world, state
  <2>2. UsbTypeOK'
      BY <1>1, <2>1, MaxPlugsAssumption
      DEF IInv, UsbTypeOK, Markers, Starting, NoDevice, Devices, Event, Steps
  <2>3. (Bounded /\ Alternates /\ LastIsFact)'
      BY <1>1, <2>1 DEF IInv, Bounded, Alternates, LastIsFact, NoDevice
  <2>4. NewDevices'
      BY <1>1, <2>1 DEF IInv, UsbTypeOK, NewDevices, Starting, Steps
  <2>5. (FirstIsNews /\ Starting /\ Booting)'
      BY <1>1, <2>1, MaxPlugsAssumption
      DEF IInv, UsbTypeOK, FirstIsNews, Known, Starting, Booting, NoDevice, Devices,
          Steps
  <2>6. (CurrentIsHeard /\ Believed /\ Forgotten)'
      BY <1>1, <2>1, MaxPlugsAssumption
      DEF IInv, UsbTypeOK, Markers, FirstIsNews, Known, Starting, Booting, CurrentIsHeard,
          Believed, Forgotten, NoDevice, Devices, Steps
  <2> QED
      BY <2>2, <2>3, <2>4, <2>5, <2>6 DEF IInv
<1> QED
    BY <1>0, <1>1

LEMMA DetectKeeps == IInv /\ Detect => IInv'
<1> SUFFICES ASSUME IInv, Detect PROVE IInv'
    OBVIOUS
<1>1. Markers'
    BY Zenon DEF Markers, IInv, UsbTypeOK, world, monitorVars, state, SetUsb, Detect, Detected
<1>0. usb' /\ (pogo' => docked)
  <2>1. PICK p \in Detected : usb' = TRUE /\ pogo' = p
      BY Zenon DEF Detect, SetUsb
  <2> QED
      BY <2>1, DetectedIsFact, Zenon
<1>2. UsbTypeOK'
    BY <1>1, MaxPlugsAssumption
    DEF IInv, UsbTypeOK, Markers, Starting, NoDevice, Devices, Event, Steps, world,
        monitorVars, state, Detect, SetUsb, Detected
<1>3. (Bounded /\ Alternates /\ LastIsFact)'
    BY <1>1 DEF IInv, Bounded, Alternates, LastIsFact, world, NoDevice, Detect, SetUsb, Detected
<1>4. NewDevices'
    BY <1>1 DEF IInv, UsbTypeOK, NewDevices, Starting, world, monitorVars, Steps, Detect, SetUsb, Detected
<1>5. (FirstIsNews /\ Starting /\ Booting)'
    BY <1>1, MaxPlugsAssumption
    DEF IInv, UsbTypeOK, FirstIsNews, Known, Starting, Booting, NoDevice, Devices,
        Steps, world, monitorVars, state, Detect, SetUsb, Detected
<1>6. (CurrentIsHeard /\ Believed /\ Forgotten)'
    BY <1>0, <1>1, MaxPlugsAssumption
    DEF IInv, UsbTypeOK, Markers, FirstIsNews, Known, Starting, Booting, CurrentIsHeard,
        Believed, Forgotten, NoDevice, Devices, Steps, world, monitorVars, state, Detect
<1> QED
    BY <1>2, <1>3, <1>4, <1>5, <1>6 DEF IInv

LEMMA ClaimRefusedKeeps == IInv /\ ClaimRefused => IInv'
<1> SUFFICES ASSUME IInv, ClaimRefused PROVE IInv'
    OBVIOUS
<1>1. Markers'
    BY Zenon DEF Markers, IInv, UsbTypeOK, world, monitorVars, state, SetUsb, ClaimRefused
<1>2. UsbTypeOK'
    BY <1>1, MaxPlugsAssumption
    DEF IInv, UsbTypeOK, Markers, Starting, NoDevice, Devices, Event, Steps, world,
        monitorVars, state, ClaimRefused, SetUsb
<1>3. (Bounded /\ Alternates /\ LastIsFact)'
    BY <1>1 DEF IInv, Bounded, Alternates, LastIsFact, world, NoDevice, ClaimRefused, SetUsb
<1>4. NewDevices'
    BY <1>1 DEF IInv, UsbTypeOK, NewDevices, Starting, world, monitorVars, Steps, ClaimRefused, SetUsb
<1>5. (FirstIsNews /\ Starting /\ Booting)'
    BY <1>1, MaxPlugsAssumption
    DEF IInv, UsbTypeOK, FirstIsNews, Known, Starting, Booting, NoDevice, Devices,
        Steps, world, monitorVars, state, ClaimRefused, SetUsb
<1>6. (CurrentIsHeard /\ Believed /\ Forgotten)'
    BY <1>1, MaxPlugsAssumption
    DEF IInv, UsbTypeOK, Markers, FirstIsNews, Known, Starting, Booting, CurrentIsHeard,
        Believed, Forgotten, NoDevice, Devices, Steps, world, monitorVars, state, ClaimRefused, SetUsb
<1> QED
    BY <1>2, <1>3, <1>4, <1>5, <1>6 DEF IInv

LEMMA RestoreKeeps == IInv /\ Restore => IInv'
    BY MaxPlugsAssumption
    DEF IInv, UsbTypeOK, Bounded, Alternates, LastIsFact, FirstIsNews, Known,
        NewDevices, Starting, Booting, CurrentIsHeard, Believed, Forgotten,
        NoDevice, Devices, Event, Steps, world, monitorVars, state, SetUsb, Restore

LEMMA ResumeFindsKeeps == IInv /\ ResumeFinds => IInv'
    BY MaxPlugsAssumption
    DEF IInv, UsbTypeOK, Bounded, Alternates, LastIsFact, FirstIsNews, Known,
        NewDevices, Starting, Booting, CurrentIsHeard, Believed, Forgotten,
        NoDevice, Devices, Event, Steps, world, monitorVars, state, SetUsb, ResumeFinds

LEMMA ResumeCorrectsKeeps == IInv /\ ResumeCorrects => IInv'
<1> SUFFICES ASSUME IInv, ResumeCorrects PROVE IInv'
    OBVIOUS
<1>1. Markers'
    BY Zenon
    DEF Markers, IInv, UsbTypeOK, world, monitorVars, state, SetUsb, ResumeCorrects,
        ResumeSets, Detected
<1>2. /\ resume.pc = "found" /\ resume' = NoResume
      /\ UNCHANGED <<plugged, docked, plugs, watching, step, dev, current, latest,
                     hotplug, receivers, shut>>
    BY DEF ResumeCorrects, world, monitorVars
<1>3. \/ UNCHANGED <<usb, pogo, astray>>
      \/ /\ resume.dev = NoDevice /\ ~usb' /\ ~pogo'
         /\ ~astray' => ~astray /\ plugged = NoDevice
      \/ /\ resume.dev # NoDevice /\ usb' /\ (pogo' => docked)
         /\ ~astray' => ~astray /\ plugged # NoDevice
  <2>1. CASE resume.dev = NoDevice
      BY <2>1, Zenon DEF state, SetUsb, ResumeCorrects, ResumeSets
  <2>2. CASE resume.dev # NoDevice
    <3>1. PICK p \in Detected :
              \/ UNCHANGED <<usb, pogo, astray>>
              \/ /\ usb' = TRUE /\ pogo' = p
                 /\ astray' = (astray \/ resume.dev # plugged)
        BY <2>2, Zenon DEF state, SetUsb, ResumeCorrects, ResumeSets
    <3> QED
        BY <2>2, <3>1, DetectedIsFact, Zenon
  <2> QED
      BY <2>1, <2>2
<1>4. UsbTypeOK'
    BY <1>1, <1>2, <1>3, MaxPlugsAssumption
    DEF IInv, UsbTypeOK, Markers, NoResume, NoDevice, Steps
<1>5. (Bounded /\ Alternates /\ LastIsFact /\ NewDevices)'
    BY <1>2 DEF IInv, Bounded, Alternates, LastIsFact, NewDevices
<1>6. (FirstIsNews /\ Starting /\ Booting)'
    BY <1>1, <1>2, <1>3
    DEF IInv, UsbTypeOK, Markers, FirstIsNews, Known, Starting, Booting, NoResume,
        NoDevice, Devices, Steps
<1>7. (CurrentIsHeard /\ Believed /\ Forgotten)'
    BY <1>1, <1>2, <1>3, MaxPlugsAssumption
    DEF IInv, UsbTypeOK, Markers, FirstIsNews, Known, Starting, Booting,
        CurrentIsHeard, Believed, Forgotten, NoDevice, Devices, Steps
<1> QED
    BY <1>4, <1>5, <1>6, <1>7 DEF IInv

LEMMA ReceiverStopsKeeps ==
    ASSUME IInv, NEW s \in Devices, ReceiverStops(s)
    PROVE  IInv'
<1>1. Markers'
    BY Zenon DEF Markers, IInv, UsbTypeOK, world, monitorVars, state, SetUsb, ReceiverStops
<1>2. UsbTypeOK'
    BY <1>1, MaxPlugsAssumption
    DEF IInv, UsbTypeOK, Markers, Starting, NoDevice, Devices, Event, Steps, world,
        monitorVars, state, ReceiverStops, SetUsb
<1>3. (Bounded /\ Alternates /\ LastIsFact)'
    BY <1>1 DEF IInv, Bounded, Alternates, LastIsFact, world, NoDevice, ReceiverStops, SetUsb
<1>4. NewDevices'
    BY <1>1 DEF IInv, UsbTypeOK, NewDevices, Starting, world, monitorVars, Steps, ReceiverStops, SetUsb
<1>5. (FirstIsNews /\ Starting /\ Booting)'
    BY <1>1, MaxPlugsAssumption
    DEF IInv, UsbTypeOK, FirstIsNews, Known, Starting, Booting, NoDevice, Devices,
        Steps, world, monitorVars, state, ReceiverStops, SetUsb
<1>6. (CurrentIsHeard /\ Believed /\ Forgotten)'
    BY <1>1, MaxPlugsAssumption
    DEF IInv, UsbTypeOK, Markers, FirstIsNews, Known, Starting, Booting, CurrentIsHeard,
        Believed, Forgotten, NoDevice, Devices, Steps, world, monitorVars, state, ReceiverStops, SetUsb
<1> QED
    BY <1>2, <1>3, <1>4, <1>5, <1>6 DEF IInv

-----------------------------------------------------------------------------
(* The user and the kernel: one event more, or one that is not reported. *)
LEMMA PlugInKeeps == IInv /\ PlugIn => IInv'
<1> SUFFICES ASSUME IInv, PlugIn PROVE IInv'
    OBVIOUS
<1> DEFINE e == [kind |-> "connected", dev |-> plugs + 1]
<1>1. Markers'
    BY Zenon DEF Markers, IInv, UsbTypeOK, PlugIn, Report, monitorVars, state
<1>2. /\ plugged = NoDevice /\ plugs < MaxPlugs
      /\ plugs' = plugs + 1 /\ plugged' = plugs + 1
      /\ UNCHANGED <<watching, step, dev, current, latest, receivers, shut,
                     resume, usb, pogo>>
    BY DEF PlugIn, monitorVars, state
<1>3. plugs \in Nat /\ e \in Event /\ hotplug \in Seq(Event) /\ Len(hotplug) \in Nat
    BY <1>2, MaxPlugsAssumption DEF IInv, UsbTypeOK, Event, Devices
<1>4. UsbTypeOK' /\ (Starting /\ Booting /\ CurrentIsHeard)'
  <2>1. hotplug' \in Seq(Event)
      BY <1>3, ReportedQueue DEF PlugIn, Report
  <2>2. (~astray' => ~astray) /\ (step = "find" => ~astray') /\ (~watching => hotplug' = hotplug)
      BY DEF PlugIn, Report, IInv, Booting
  <2> HIDE DEF Event
  <2>3. UsbTypeOK'
      BY <1>1, <1>2, <2>1, MaxPlugsAssumption DEF IInv, UsbTypeOK, Markers, NoDevice
  <2>4. Starting' /\ CurrentIsHeard'
      BY <1>2, <2>2 DEF IInv, Starting, CurrentIsHeard
  <2>5. Booting'
      BY <1>2, <2>2 DEF IInv, Booting
  <2> QED
      BY <2>3, <2>4, <2>5
<1>5. CASE ~watching
  <2>1. hotplug' = hotplug /\ Len(hotplug) = 0 /\ (step = "find" \/ astray')
      BY <1>5 DEF PlugIn, Report, IInv, Booting
  <2> QED
      BY <1>2, <1>4, <2>1
      DEF IInv, Bounded, Alternates, LastIsFact, FirstIsNews, NewDevices, Believed,
          Forgotten
<1>6. CASE watching
  <2>1. hotplug' = Append(hotplug, e) /\ step # "find" /\ astray' = astray
      BY <1>6, Zenon DEF PlugIn, Report, IInv, Booting, UsbTypeOK
  <2>2. /\ Len(hotplug') = Len(hotplug) + 1
        /\ \A i \in 1 .. Len(hotplug) : hotplug'[i] = hotplug[i]
        /\ hotplug'[Len(hotplug) + 1] = e
      BY <1>3, <2>1, ReportedQueue
  <2>3. \A i \in 1 .. Len(hotplug) : hotplug[i] \in Event
      BY <1>3
  <2>4. (Bounded /\ Alternates /\ LastIsFact)'
    <3>1. Bounded'
      <4>1. \A i \in 1 .. Len(hotplug) : hotplug[i].dev \in Int
          BY <2>3 DEF Event, Devices
      <4> QED
          BY <4>1, <1>2, <1>3, <2>2 DEF IInv, Bounded
    <3>2. LastIsFact'
        BY <1>2, <1>3, <2>2 DEF LastIsFact
    <3>3. Len(hotplug) > 0 => /\ hotplug[Len(hotplug)].kind = "disconnected"
        BY <1>2, <1>3, <2>3 DEF IInv, LastIsFact, Event, Devices, NoDevice
    <3>4. ASSUME NEW i \in 1 .. Len(hotplug)
          PROVE  IF hotplug'[i].kind = "connected"
                 THEN /\ hotplug'[i + 1].kind = "disconnected"
                      /\ hotplug'[i + 1].dev = hotplug'[i].dev
                 ELSE hotplug'[i + 1].kind = "connected"
      <4>1. CASE i < Len(hotplug)
          BY <4>1, <1>3, <2>2 DEF IInv, Alternates
      <4>2. CASE i = Len(hotplug)
          BY <4>2, <1>3, <2>2, <3>3
      <4> QED
          BY <4>1, <4>2, <1>3
    <3> QED
        BY <3>1, <3>2, <3>4, <1>3, <2>2 DEF Alternates
  <2>5. NewDevices'
    <3>1. /\ plugs \in Int /\ latest \in Int /\ dev \in Int
          /\ latest <= plugs /\ dev <= plugs
        BY MaxPlugsAssumption DEF IInv, UsbTypeOK
    <3>2. \A i \in 1 .. Len(hotplug) : hotplug[i].dev \in Int /\ hotplug[i].dev <= plugs
        BY <2>3 DEF IInv, Bounded, Event, Devices
    <3>3. e.dev = plugs + 1
        OBVIOUS
    <3>4. ASSUME NEW i \in 1 .. Len(hotplug'), hotplug'[i].kind = "connected"
          PROVE  /\ hotplug'[i].dev > latest
                 /\ step \notin {"idle", "find"} => hotplug'[i].dev > dev
                 /\ \A j \in 1 .. i - 1 : hotplug'[j].kind = "connected" =>
                        hotplug'[j].dev < hotplug'[i].dev
      <4>1. CASE i \in 1 .. Len(hotplug)
        <5>1. \A j \in 1 .. i - 1 : hotplug'[j] = hotplug[j]
            BY <1>3, <2>2, <4>1
        <5> QED
            BY <2>2, <3>4, <4>1, <5>1 DEF IInv, NewDevices
      <4>2. CASE i = Len(hotplug) + 1
        <5>1. hotplug'[i].dev = plugs + 1
            BY <2>2, <3>3, <4>2
        <5>2. \A j \in 1 .. i - 1 : hotplug'[j].dev \in Int /\ hotplug'[j].dev <= plugs
            BY <1>3, <2>2, <3>2, <4>2
        <5> QED
            BY <3>1, <5>1, <5>2
      <4> QED
          BY <1>3, <2>2, <4>1, <4>2
    <3> QED
        BY <1>2, <3>4 DEF NewDevices
  <2>6. (FirstIsNews /\ Believed /\ Forgotten)'
      BY <1>2, <1>3, <2>1, <2>2, <2>3
      DEF IInv, UsbTypeOK, FirstIsNews, Known, Believed, Forgotten, NoDevice
  <2> QED
      BY <1>4, <2>4, <2>5, <2>6 DEF IInv
<1> QED
    BY <1>5, <1>6

LEMMA UnplugKeeps == IInv /\ Unplug => IInv'
<1> SUFFICES ASSUME IInv, Unplug PROVE IInv'
    OBVIOUS
<1> DEFINE e == [kind |-> "disconnected", dev |-> plugged]
<1>1. Markers'
    BY Zenon DEF Markers, IInv, UsbTypeOK, Unplug, Report, monitorVars, state
<1>2. /\ plugged # NoDevice /\ plugged' = NoDevice
      /\ UNCHANGED <<docked, plugs, watching, step, dev, current, latest, receivers,
                     shut, resume, usb, pogo>>
    BY DEF Unplug, monitorVars, state
<1>3. /\ plugged = plugs /\ plugs \in Nat /\ e \in Event
      /\ hotplug \in Seq(Event) /\ Len(hotplug) \in Nat
    BY <1>2, MaxPlugsAssumption DEF IInv, UsbTypeOK, Event, Devices, NoDevice
<1>4. UsbTypeOK' /\ (Starting /\ Booting /\ CurrentIsHeard)'
  <2>1. hotplug' \in Seq(Event)
      BY <1>3, ReportedQueue DEF Unplug, Report
  <2>2. (~astray' => ~astray) /\ (step = "find" => ~astray') /\ (~watching => hotplug' = hotplug)
      BY DEF Unplug, Report, IInv, Booting
  <2> HIDE DEF Event
  <2>3. UsbTypeOK'
      BY <1>1, <1>2, <2>1, MaxPlugsAssumption DEF IInv, UsbTypeOK, Markers, NoDevice
  <2>4. Starting' /\ CurrentIsHeard'
      BY <1>2, <2>2 DEF IInv, Starting, CurrentIsHeard
  <2>5. Booting'
      BY <1>2, <2>2 DEF IInv, Booting
  <2> QED
      BY <2>3, <2>4, <2>5
<1>5. CASE ~watching
  <2>1. hotplug' = hotplug /\ Len(hotplug) = 0 /\ (step = "find" \/ astray')
      BY <1>5 DEF Unplug, Report, IInv, Booting
  <2> QED
      BY <1>2, <1>4, <2>1
      DEF IInv, Bounded, Alternates, LastIsFact, FirstIsNews, NewDevices, Believed,
          Forgotten
<1>6. CASE watching
  <2>1. hotplug' = Append(hotplug, e) /\ step # "find" /\ astray' = astray
      BY <1>6, Zenon DEF Unplug, Report, IInv, Booting, UsbTypeOK
  <2>2. /\ Len(hotplug') = Len(hotplug) + 1
        /\ \A i \in 1 .. Len(hotplug) : hotplug'[i] = hotplug[i]
        /\ hotplug'[Len(hotplug) + 1] = e
      BY <1>3, <2>1, ReportedQueue
  <2>3. \A i \in 1 .. Len(hotplug) : hotplug[i] \in Event
      BY <1>3
  <2>4. (Bounded /\ Alternates /\ LastIsFact)'
    <3>1. Bounded'
        BY <1>2, <1>3, <2>2 DEF IInv, Bounded
    <3>2. LastIsFact'
        BY <1>2, <1>3, <2>2 DEF LastIsFact
    <3>3. Len(hotplug) > 0 => /\ hotplug[Len(hotplug)].kind = "connected"
                               /\ hotplug[Len(hotplug)].dev = plugged
        BY <1>2, <1>3, <2>3 DEF IInv, LastIsFact, Event, Devices, NoDevice
    <3>4. ASSUME NEW i \in 1 .. Len(hotplug)
          PROVE  IF hotplug'[i].kind = "connected"
                 THEN /\ hotplug'[i + 1].kind = "disconnected"
                      /\ hotplug'[i + 1].dev = hotplug'[i].dev
                 ELSE hotplug'[i + 1].kind = "connected"
      <4>1. CASE i < Len(hotplug)
          BY <4>1, <1>3, <2>2 DEF IInv, Alternates
      <4>2. CASE i = Len(hotplug)
          BY <4>2, <1>3, <2>2, <3>3
      <4> QED
          BY <4>1, <4>2, <1>3
    <3> QED
        BY <3>1, <3>2, <3>4, <1>3, <2>2 DEF Alternates
  <2>5. NewDevices'
    <3>1. ASSUME NEW i \in 1 .. Len(hotplug'), hotplug'[i].kind = "connected"
          PROVE  i \in 1 .. Len(hotplug)
        BY <3>1, <1>3, <2>2
    <3> QED
        BY <3>1, <1>2, <1>3, <2>2 DEF IInv, NewDevices
  <2>6. (FirstIsNews /\ Believed /\ Forgotten)'
      BY <1>2, <1>3, <2>1, <2>2, <2>3
      DEF IInv, UsbTypeOK, FirstIsNews, Known, Believed, Forgotten, NoDevice
  <2> QED
      BY <1>4, <2>4, <2>5, <2>6 DEF IInv
<1> QED
    BY <1>5, <1>6

-----------------------------------------------------------------------------
(* The monitor takes an event: the next one is the news now. *)
LEMMA ConnectedKeeps == IInv /\ Connected => IInv'
<1> SUFFICES ASSUME IInv, Connected PROVE IInv'
    OBVIOUS
<1> DEFINE d == hotplug[1].dev
<1>1. /\ step = "idle" /\ watching /\ Len(hotplug) > 0 /\ hotplug \in Seq(Event)
      /\ hotplug[1].kind = "connected" /\ hotplug[1] \in Event
    BY DEF Connected, NextEvent, IInv, UsbTypeOK
<1>2. /\ hotplug' = Tail(hotplug) /\ dev' = d /\ current' = NoDevice
      /\ step' \in {"open", "settle"} /\ ~astray'
      /\ UNCHANGED <<plugged, docked, plugs, watching, latest, receivers, resume,
                     usb, pogo>>
      /\ shut' = shut \cup ({current} \ {NoDevice})
    BY <1>1 DEF Connected, NextEvent, world, state
<1>3. Markers'
    BY Zenon DEF Markers, IInv, UsbTypeOK, Connected, world, state
<1>4. /\ hotplug' \in Seq(Event)
      /\ Len(hotplug') = Len(hotplug) - 1
      /\ \A i \in 1 .. Len(hotplug) - 1 : hotplug'[i] = hotplug[i + 1]
    BY <1>1, <1>2, TakenQueue
<1>5. d \in Devices /\ d <= plugs /\ d > latest
    BY <1>1 DEF IInv, Bounded, NewDevices, Event
<1>6. UsbTypeOK'
  <2> HIDE DEF Event
  <2> QED
    BY <1>2, <1>3, <1>4, <1>5, MaxPlugsAssumption
    DEF IInv, UsbTypeOK, Markers, Starting, NoDevice, Devices, Steps
<1>7. (Bounded /\ Alternates /\ LastIsFact)'
    BY <1>1, <1>2, <1>4 DEF IInv, Bounded, Alternates, LastIsFact
<1>8. NewDevices'
    BY <1>1, <1>2, <1>4, <1>5 DEF IInv, NewDevices, UsbTypeOK, Devices
<1>9. (Starting /\ Booting)'
    BY <1>1, <1>2, <1>5, <1>6 DEF IInv, UsbTypeOK, Starting, Booting, NoDevice
<1>10. (FirstIsNews /\ CurrentIsHeard /\ Believed /\ Forgotten)'
    BY <1>1, <1>2, <1>4, <1>5
    DEF IInv, Alternates, LastIsFact, FirstIsNews, Known, CurrentIsHeard, Believed,
        Forgotten
<1> QED
    BY <1>6, <1>7, <1>8, <1>9, <1>10 DEF IInv

LEMMA DisconnectedKeeps == IInv /\ Disconnected => IInv'
<1> SUFFICES ASSUME IInv, Disconnected PROVE IInv'
    OBVIOUS
<1> DEFINE d == hotplug[1].dev
<1>1. /\ step = "idle" /\ watching /\ Len(hotplug) > 0 /\ hotplug \in Seq(Event)
      /\ hotplug[1].kind = "disconnected" /\ hotplug[1] \in Event
    BY DEF Disconnected, NextEvent, IInv, UsbTypeOK
<1>2. /\ hotplug' = Tail(hotplug)
      /\ IF current = d THEN shut' = shut \cup {current} /\ current' = NoDevice
                        ELSE UNCHANGED <<shut, current>>
      /\ UNCHANGED <<plugged, docked, plugs, watching, step, dev, latest, receivers,
                     resume, usb, pogo, astray>>
    BY <1>1 DEF Disconnected, NextEvent, world, state
<1>3. d \in Devices
    BY <1>1 DEF Event
<1>4. /\ hotplug' \in Seq(Event)
      /\ Len(hotplug') = Len(hotplug) - 1
      /\ \A i \in 1 .. Len(hotplug) - 1 : hotplug'[i] = hotplug[i + 1]
    BY <1>1, <1>2, TakenQueue
<1>5. ~astray => current = d
    BY <1>1 DEF IInv, FirstIsNews, Known
<1>6. UsbTypeOK'
  <2>1. shut' \subseteq 1 .. latest /\ current' \in 0 .. plugs
    <3>1. /\ shut \subseteq 1 .. latest /\ latest \in Nat /\ plugs \in Nat
          /\ current \in 0 .. plugs /\ current <= latest
        BY MaxPlugsAssumption DEF IInv, UsbTypeOK, Starting
    <3>2. CASE current = d
      <4>1. current \in 1 .. latest
          BY <1>3, <3>1, <3>2 DEF Devices
      <4>2. shut' = shut \cup {current} /\ current' = NoDevice
          BY <1>2, <3>2
      <4> QED
          BY <3>1, <4>1, <4>2 DEF NoDevice
    <3>3. CASE current # d
        BY <1>2, <3>1, <3>3
    <3> QED
        BY <3>2, <3>3
  <2> HIDE DEF Event
  <2> QED
      BY <1>2, <1>4, <2>1 DEF IInv, UsbTypeOK
<1>7. (Bounded /\ Alternates /\ LastIsFact)'
    BY <1>1, <1>2, <1>4 DEF IInv, Bounded, Alternates, LastIsFact
<1>8. NewDevices'
    BY <1>1, <1>2, <1>4 DEF IInv, NewDevices, UsbTypeOK
<1>9. (Starting /\ Booting)'
    BY <1>1, <1>2, <1>6 DEF IInv, UsbTypeOK, Starting, Booting, NoDevice
<1>10. (FirstIsNews /\ CurrentIsHeard /\ Believed /\ Forgotten)'
    BY <1>1, <1>2, <1>3, <1>4, <1>5
    DEF IInv, Alternates, LastIsFact, FirstIsNews, Known, CurrentIsHeard, Believed,
        Forgotten, NoDevice, Devices
<1> QED
    BY <1>6, <1>7, <1>8, <1>9, <1>10 DEF IInv

-----------------------------------------------------------------------------
LEMMA Stutters == IInv /\ UNCHANGED usbVars => IInv'
    BY DEF IInv, UsbTypeOK, Bounded, Alternates, LastIsFact, FirstIsNews, Known,
        NewDevices, Starting, Booting, CurrentIsHeard, Believed, Forgotten,
        usbVars, world, monitorVars, state

LEMMA UsbStep == IInv /\ [UsbNext]_usbVars => IInv'
<1> SUFFICES ASSUME IInv, UsbNext \/ UNCHANGED usbVars PROVE IInv'
    OBVIOUS
<1>1. CASE PlugIn \/ Unplug
    BY <1>1, PlugInKeeps, UnplugKeeps
<1>2. CASE Monitor
    BY <1>2, BootFindKeeps, BootStateKeeps, WatchKeeps, ConnectedKeeps,
       SettledKeeps, DisconnectedKeeps, OpenKeeps, DetectKeeps,
       ClaimRefusedKeeps, ClaimKeeps, RestoreKeeps
    DEF Monitor
<1>3. CASE \E s \in Devices : ReceiverStops(s)
    BY <1>3, ReceiverStopsKeeps
<1>4. CASE ResumeFinds \/ ResumeCorrects
    BY <1>4, ResumeFindsKeeps, ResumeCorrectsKeeps
<1>5. CASE UNCHANGED usbVars
    BY <1>5, Stutters
<1> QED
    BY <1>1, <1>2, <1>3, <1>4, <1>5 DEF UsbNext

LEMMA Inductive == UsbSpec => []IInv
    BY UsbStep, Starts, PTL DEF UsbSpec

(* Every reachable state of the USB sessions is well typed: the sessions    *)
(* that receive or were told to stop are among those begun, and no dock is  *)
(* recorded without USB, for any number of plug-ins.                        *)
THEOREM UsbTypeCorrect == UsbSpec => []UsbTypeOK
<1>1. IInv => UsbTypeOK
    BY DEF IInv
<1> QED
    BY <1>1, Inductive, PTL

(* Whenever the monitor is at rest, what the daemon believes of the wired   *)
(* keyboard is true, for any number and order of plug-ins and unplugs,      *)
(* late receive tasks and resumes. *)
THEOREM UsbAlwaysSettles == UsbSpec => []UsbSettles
    BY Holds, Inductive, PTL
=============================================================================
