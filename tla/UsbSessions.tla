---------------------------- MODULE UsbSessions ----------------------------
(***************************************************************************)
(* The keyboard on USB: the start-up of the root daemon, the hotplug       *)
(* monitor, the tasks it starts for a keyboard, and the look for a         *)
(* keyboard after a resume.                                                *)
(*                                                                         *)
(* The monitor awaits in the middle of a start: meanwhile the keyboard may *)
(* be unplugged, moved to another port and plugged in again, which it      *)
(* learns from its queue later, and the receive task of the keyboard       *)
(* before may still have to stop.  Whoever comes last decides what the     *)
(* daemon believes: `usb' and `pogo'.                                      *)
(*                                                                         *)
(* Every plug-in has a device number of its own.  A process starts each at *)
(* most once, so the number of its latest session stands for               *)
(* USB_KEYBOARD_SESSION.  A panic ends the process (the hook of main.rs)   *)
(* and systemd starts a new one.                                           *)
(***************************************************************************)
EXTENDS Integers, Sequences

CONSTANT MaxPlugs   \* bound: how often a keyboard is plugged in

ASSUME MaxPlugsAssumption == MaxPlugs \in Nat

VARIABLES
    plugged,        \* the device plugged in, or NoDevice
    docked,         \* it sits on a pogo port
    plugs,          \* devices so far
    watching,       \* watch_devices has been called
    hotplug,        \* events the monitor has not taken
    step,           \* where the start-up or the monitor is
    dev,            \* the device it is starting
    current,        \* current_keyboard, or NoDevice
    latest,         \* USB_KEYBOARD_SESSION
    receivers,      \* sessions whose receive task runs
    shut,           \* sessions that were sent a shutdown
    resume,         \* what the resume handler has found, and not yet acted on
    usb,            \* is_usb_connected
    pogo,           \* is_pogo_docked
    astray          \* history: see UsbSettles

world == <<plugged, docked, plugs>>
monitorVars == <<watching, step, dev, current, latest>>
state == <<usb, pogo>>
usbVars == <<world, monitorVars, hotplug, receivers, shut, resume, state, astray>>

NoDevice == 0
Devices == 1 .. MaxPlugs
Event == [kind : {"connected", "disconnected"}, dev : Devices]
Steps == {"find", "boot", "settle", "open", "detect", "claim", "restore", "idle"}

UsbTypeOK ==
    /\ plugs \in 0 .. MaxPlugs
    /\ plugged \in {NoDevice, plugs} /\ docked \in BOOLEAN
    /\ watching \in BOOLEAN
    /\ hotplug \in Seq(Event)
    /\ step \in Steps
    /\ dev \in 0 .. plugs /\ current \in 0 .. plugs /\ latest \in 0 .. plugs
    /\ receivers \subseteq 1 .. latest /\ shut \subseteq 1 .. latest
    /\ resume \in [pc : {"none", "found"}, dev : 0 .. plugs]
    /\ usb \in BOOLEAN /\ pogo \in BOOLEAN /\ (pogo => usb)
    /\ astray \in BOOLEAN

NoResume == [pc |-> "none", dev |-> NoDevice]

(* A process that has just been started. *)
Fresh ==
    /\ watching = FALSE /\ hotplug = <<>>
    /\ step = "find" /\ dev = NoDevice
    /\ current = NoDevice /\ latest = NoDevice
    /\ receivers = {} /\ shut = {}
    /\ resume = NoResume
    /\ usb = FALSE /\ pogo = FALSE
    /\ astray = FALSE

UsbInit ==
    /\ plugged \in {NoDevice, 1} /\ plugged <= MaxPlugs /\ plugs = plugged
    /\ docked \in BOOLEAN
    /\ Fresh

-----------------------------------------------------------------------------
(* The user and the kernel. *)

(* What happens before the watch begins is never reported: what the *)
(* start-up has found may be out of date. *)
Report(kind, d) ==
    /\ hotplug' = IF watching
                  THEN Append(hotplug, [kind |-> kind, dev |-> d])
                  ELSE hotplug
    /\ astray' = (astray \/ (~watching /\ step # "find"))

PlugIn ==
    /\ plugged = NoDevice /\ plugs < MaxPlugs
    /\ plugs' = plugs + 1 /\ plugged' = plugs + 1
    /\ docked' \in BOOLEAN
    /\ Report("connected", plugs + 1)
    /\ UNCHANGED <<monitorVars, receivers, shut, resume, state>>

Unplug ==
    /\ plugged # NoDevice
    /\ plugged' = NoDevice
    /\ Report("disconnected", plugged)
    /\ UNCHANGED <<docked, plugs, monitorVars, receivers, shut, resume, state>>

-----------------------------------------------------------------------------
(* set_usb_keyboard_connection, of which ConnectionState has the rest. *)
SetUsb(u, p) == usb' = u /\ pogo' = p

(* keyboard_on_pogo_dock_async: a device that is gone cannot be read, or is *)
(* taken for the one that replaced it on the bus. *)
Detected == {FALSE} \cup (IF plugged = NoDevice THEN {} ELSE {docked})

(* unwrap on a device that is gone: the process is replaced. *)
Panic ==
    /\ watching' = FALSE /\ hotplug' = <<>>
    /\ step' = "find" /\ dev' = NoDevice
    /\ current' = NoDevice /\ latest' = NoDevice
    /\ receivers' = {} /\ shut' = {}
    /\ resume' = NoResume
    /\ usb' = FALSE /\ pogo' = FALSE
    /\ astray' = FALSE
    /\ UNCHANGED world

(* run_daemon: find_wired_keyboard, keyboard_on_pogo_dock_async and *)
(* KeyboardStateManager::new. *)
BootFind ==
    /\ step = "find"
    /\ dev' = plugged
    /\ step' = IF plugged = NoDevice THEN "idle" ELSE "boot"
    /\ UNCHANGED <<world, watching, current, latest, hotplug, receivers, shut,
                   resume, state, astray>>

BootState ==
    /\ step = "boot"
    /\ \E p \in Detected : SetUsb(TRUE, p)
    /\ step' = "open"
    /\ UNCHANGED <<world, watching, dev, current, latest, hotplug, receivers,
                   shut, resume, astray>>

(* start_usb_keyboard_monitor_task, after the root service is up. *)
Watch ==
    /\ step = "idle" /\ ~watching
    /\ watching' = TRUE
    /\ UNCHANGED <<world, step, dev, current, latest, hotplug, receivers, shut,
                   resume, state, astray>>

-----------------------------------------------------------------------------
(* The hotplug monitor. *)
NextEvent(kind) ==
    /\ step = "idle" /\ watching
    /\ hotplug # <<>> /\ Head(hotplug).kind = kind
    /\ hotplug' = Tail(hotplug)

(* HotplugEvent::Connected: a session that is still current is told to stop *)
(* and is given 120 ms for it. *)
Connected ==
    /\ NextEvent("connected")
    /\ dev' = Head(hotplug).dev
    /\ shut' = shut \cup ({current} \ {NoDevice})
    /\ current' = NoDevice
    /\ step' = IF current = NoDevice THEN "open" ELSE "settle"
    /\ astray' = FALSE
    /\ UNCHANGED <<world, watching, latest, receivers, resume, state>>

Settled ==
    /\ step = "settle"
    /\ step' = "open"
    /\ UNCHANGED <<world, watching, dev, current, latest, hotplug, receivers,
                   shut, resume, state, astray>>

(* Fault: the session is forgotten without telling its tasks. *)
Disconnected_Silent ==
    /\ NextEvent("disconnected")
    /\ current' = IF current = Head(hotplug).dev THEN NoDevice ELSE current
    /\ UNCHANGED <<world, watching, step, dev, latest, receivers, shut, resume,
                   state, astray>>

(* HotplugEvent::Disconnected: only of the current keyboard. *)
Disconnected ==
    /\ NextEvent("disconnected")
    /\ IF current = Head(hotplug).dev
       THEN shut' = shut \cup {current} /\ current' = NoDevice
       ELSE UNCHANGED <<shut, current>>
    /\ UNCHANGED <<world, watching, step, dev, latest, receivers, resume,
                   state, astray>>

-----------------------------------------------------------------------------
(* start_usb_keyboard_task. *)

(* begin_usb_keyboard_session, then open().unwrap().  At start-up the port *)
(* is known and the state already has it. *)
Open ==
    /\ step = "open"
    /\ \/ /\ plugged = dev
          /\ latest' = dev
          /\ step' = IF watching THEN "detect" ELSE "claim"
          /\ UNCHANGED <<world, watching, dev, current, hotplug, receivers,
                         shut, resume, state, astray>>
       \/ plugged # dev /\ Panic

(* keyboard_on_pogo_dock_async and set_usb_keyboard_connection. *)
Detect ==
    /\ step = "detect"
    /\ \E p \in Detected : SetUsb(TRUE, p)
    /\ step' = "claim"
    /\ UNCHANGED <<world, watching, dev, current, latest, hotplug, receivers,
                   shut, resume, astray>>

(* The vendor interface or its endpoint is refused: no task is started, but *)
(* the session is current.  Nobody will hear its shutdown. *)
ClaimRefused ==
    /\ step = "claim"
    /\ current' = dev
    /\ step' = "idle"
    /\ astray' = TRUE
    /\ UNCHANGED <<world, watching, dev, latest, hotplug, receivers, shut,
                   resume, state>>

(* The interface is claimed; the transfer that enables the Fn keys is *)
(* unwrapped. *)
Claim ==
    /\ step = "claim"
    /\ \/ /\ plugged = dev
          /\ step' = "restore"
          /\ UNCHANGED <<world, watching, dev, current, latest, hotplug,
                         receivers, shut, resume, state, astray>>
       \/ plugged # dev /\ Panic

(* The light and the LED are restored and the tasks are spawned. *)
Restore ==
    /\ step = "restore"
    /\ receivers' = receivers \cup {dev}
    /\ current' = dev
    /\ step' = "idle"
    /\ UNCHANGED <<world, watching, dev, latest, hotplug, shut, resume, state,
                   astray>>

-----------------------------------------------------------------------------
(* Fault: the receive task does not ask whether it was superseded. *)
ReceiverStops_Always(s) ==
    /\ s \in receivers \cap shut
    /\ SetUsb(FALSE, FALSE)
    /\ receivers' = receivers \ {s}
    /\ UNCHANGED <<world, monitorVars, hotplug, shut, resume, astray>>

(* Fault: the dock is forgotten. *)
ReceiverStops_KeepsDock(s) ==
    /\ s \in receivers \cap shut
    /\ IF s = latest THEN SetUsb(FALSE, pogo) ELSE UNCHANGED state
    /\ receivers' = receivers \ {s}
    /\ UNCHANGED <<world, monitorVars, hotplug, shut, resume, astray>>

(* The receive task hears the shutdown. *)
ReceiverStops(s) ==
    /\ s \in receivers \cap shut
    /\ IF s = latest THEN SetUsb(FALSE, FALSE) ELSE UNCHANGED state
    /\ receivers' = receivers \ {s}
    /\ UNCHANGED <<world, monitorVars, hotplug, shut, resume, astray>>

(* watch_prepare_for_sleep, which runs once the root service is up: *)
(* find_wired_keyboard, and later, for a keyboard that was found, its port. *)
ResumeFinds ==
    /\ resume.pc = "none"
    /\ step = "idle" \/ watching
    /\ resume' = [pc |-> "found", dev |-> plugged]
    /\ UNCHANGED <<world, monitorVars, hotplug, receivers, shut, state, astray>>

(* The state is set to what was found, which may have changed since. *)
ResumeSets(u, p) ==
    /\ SetUsb(u, p)
    /\ astray' = (astray \/ resume.dev # plugged)

ResumeCorrects ==
    /\ resume.pc = "found"
    /\ \/ /\ resume.dev = NoDevice
          /\ IF usb \/ pogo
             THEN ResumeSets(FALSE, FALSE)
             ELSE UNCHANGED <<state, astray>>
       \/ /\ resume.dev # NoDevice
          /\ \E p \in Detected :
                IF ~usb \/ pogo # p
                THEN ResumeSets(TRUE, p)
                ELSE UNCHANGED <<state, astray>>
    /\ resume' = NoResume
    /\ UNCHANGED <<world, monitorVars, hotplug, receivers, shut>>

-----------------------------------------------------------------------------
Monitor ==
    \/ BootFind \/ BootState \/ Watch
    \/ Connected \/ Settled \/ Disconnected
    \/ Open \/ Detect \/ ClaimRefused \/ Claim \/ Restore

UsbNext ==
    \/ PlugIn \/ Unplug
    \/ Monitor
    \/ \E s \in Devices : ReceiverStops(s)
    \/ ResumeFinds \/ ResumeCorrects

UsbSpec == UsbInit /\ [][UsbNext]_usbVars

-----------------------------------------------------------------------------
(* `astray' is set by the three things the code does not repair by itself: *)
(* a keyboard plugged in or out between its search at start-up and the     *)
(* watch, a session that was refused the vendor interface, and a resume    *)
(* that set what was no longer true.  The next plug-in repairs each.       *)
AtRest ==
    /\ watching /\ step = "idle" /\ hotplug = <<>>
    /\ receivers \cap shut = {}

(* However plug-ins, unplugs, late shutdowns and resumes were interleaved: *)
(* once the events are handled, the daemon believes a keyboard is on USB   *)
(* exactly when one is, and docked only if it is.                          *)
UsbSettles ==
    AtRest /\ ~astray => /\ usb = (plugged # NoDevice)
                         /\ pogo => docked

(* When the user stops plugging, belief and fact agree for good: no panic  *)
(* loop, no receive task that never stops.                                 *)
UsbComesToAgree == <>[](astray \/ usb = (plugged # NoDevice))
=============================================================================
