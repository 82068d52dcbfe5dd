-------------------------- MODULE SecondaryDisplay --------------------------
(***************************************************************************)
(* The root daemon's control of the secondary panel (eDP-2).               *)
(*                                                                         *)
(* The daemon keeps, in memory, whether the user wants the panel           *)
(* (`desired'), whether the keyboard is docked on top of it (`pogo') and   *)
(* the resulting `enabled'.  The platform power gate of the panel is a     *)
(* sysfs file, here the variable `powered'.  Several tokio tasks of one    *)
(* thread read and write that file: the event task, the enforcer, the      *)
(* dock loop, the coordinator of each operator request and the handler of  *)
(* the session daemon's "layout is stable" call (Moment B).  Every file    *)
(* access and every D-Bus emission is an await, so each action below is    *)
(* the code a task runs between two awaits.                                *)
(*                                                                         *)
(* Time is abstracted: a bounded wait may end at any moment, answered or   *)
(* not, and the enforcer's 8 s cooldown is a flag that some step clears.   *)
(***************************************************************************)
EXTENDS Integers, Sequences

CONSTANTS
    Ops,            \* coordinator calls that may run at the same time
    EventCap,       \* slots of the broadcast channel (64 in main.rs)
    MaxDelayed,     \* bound: delayed sysfs-off tasks alive at once
    MaxSpawned,     \* bound: spawned dock notifications alive at once
    WritesMayFail,  \* whether a sysfs write may fail (logged, not retried)
    FileMayFail     \* whether an access to display-state.json may (unnoticed)

ASSUME EventCapAssumption == EventCap \in Nat \ {0}
ASSUME BoundAssumption == MaxDelayed \in Nat /\ MaxSpawned \in Nat
ASSUME FailAssumption == WritesMayFail \in BOOLEAN /\ FileMayFail \in BOOLEAN

VARIABLES
    desired, enabled, pogo,     \* InnerState of state.rs
    disk,                       \* desired_secondary_enabled in display-state.json
    parted,                     \* history: the last access to the entry failed
    diskQueue,                  \* FIFO waiters of display_state_mutex
    registered,                 \* AtomicBool `registered' of dbus_state.rs
    powered,                    \* the sysfs status file reads on / connected
    force,                      \* FORCE_SYSFS_FALLBACK_ONCE
    cooldown,                   \* less than 8 s since SECONDARY_LAST_SYSFS_CHANGE
    events,                     \* Event::SecondaryDisplay values not yet received
    lost,                       \* the event of an armed fallback was overwritten
    evTask,                     \* the sysfs event task
    enforcer,                   \* the 500 ms enforcer task
    momentB,                    \* acknowledge_secondary_sysfs_poweroff_ready
    op,                         \* coordinate_secondary_display_to_state calls
    delayed,                    \* spawned 600 ms sysfs-off tasks
    dockEvents,                 \* Event::KeyboardPogoDocked values not yet received
    dockLoop,                   \* the dock loop of run_daemon
    spawned,                    \* notifications spawned by set_usb_keyboard_connection
    regTask,                    \* register_session
    sessDesired, sessPogo       \* what the registered session was last told

memory == <<desired, enabled, pogo>>
diskVars == <<disk, parted, diskQueue>>
queueVars == <<force, events, lost>>
sessVars == <<sessDesired, sessPogo>>
vars == <<desired, enabled, pogo, diskVars, registered, powered, force, cooldown,
          events, lost, evTask, enforcer, momentB, op, delayed,
          dockEvents, dockLoop, spawned, regTask, sessDesired, sessPogo>>

(* A task is a program counter and the value it carries across awaits. *)
Task(pcs) == [pc : pcs, val : BOOLEAN]
Idle == [pc |-> "idle", val |-> FALSE]

TypeOK ==
    /\ desired \in BOOLEAN /\ enabled \in BOOLEAN /\ pogo \in BOOLEAN
    /\ disk \in BOOLEAN /\ parted \in BOOLEAN /\ diskQueue \in Seq(Ops)
    /\ registered \in BOOLEAN /\ powered \in BOOLEAN
    /\ force \in BOOLEAN /\ cooldown \in BOOLEAN
    /\ events \in Seq(BOOLEAN) /\ lost \in BOOLEAN
    /\ evTask \in Task({"idle", "read", "write"})
    /\ enforcer \in Task({"idle", "compare", "read", "write"})
    /\ momentB \in {"idle", "called", "read", "write"}
    /\ op \in [Ops -> Task({"idle", "persist", "tracked", "notify", "ack"})]
    /\ delayed \in Nat
    /\ dockEvents \in Seq(BOOLEAN)
    /\ dockLoop \in {"idle", "read", "write", "emit", "wait"}
    /\ spawned \in Nat
    /\ regTask \in {"idle", "store"}
    /\ sessDesired \in BOOLEAN /\ sessPogo \in BOOLEAN

-----------------------------------------------------------------------------
(* The docked keyboard covers the panel, so it is enabled only undocked. *)
EnabledFor(want, docked) == want /\ ~docked

(* tokio's broadcast channel: a send into a full one overwrites the oldest. *)
Push(q, v) == Append(IF Len(q) < EventCap THEN q ELSE Tail(q), v)

(* arm_sysfs_fallback_once, then emit_secondary_display_state: no await *)
(* separates the two, so they are one step wherever the code pairs them. *)
ArmAndEmit ==
    /\ force' = TRUE
    /\ events' = Push(events, enabled)
    /\ lost' = lost

(* A sysfs write that has started lands, or fails. *)
SysfsWrite(v) == powered' = v \/ (WritesMayFail /\ powered' = powered)

(* What a file stands for that has no entry for the panel, or that cannot  *)
(* be read or parsed: unwrap_or(true). *)
DesiredByDefault == TRUE

(* The daemon has started from a file it could read and the keyboard it    *)
(* found: no task is under way, no session is known, the startup write has *)
(* been made. *)
Init ==
    /\ disk \in BOOLEAN
    /\ pogo \in BOOLEAN
    /\ desired = disk /\ parted = FALSE
    /\ enabled = EnabledFor(disk, pogo)
    /\ diskQueue = <<>>
    /\ registered = FALSE
    /\ powered \in (IF WritesMayFail THEN BOOLEAN ELSE {enabled})
    /\ force = FALSE /\ cooldown \in BOOLEAN
    /\ events = <<>> /\ lost = FALSE
    /\ evTask = Idle
    /\ enforcer = Idle
    /\ momentB = "idle"
    /\ op = [o \in Ops |-> Idle]
    /\ delayed = 0
    /\ dockEvents = <<>>
    /\ dockLoop = "idle"
    /\ spawned = 0
    /\ regTask = "idle"
    /\ sessDesired = disk /\ sessPogo = pogo

(* KeyboardStateManager::new reads the file; when the ambient setting is   *)
(* missing it saves that, by a read of its own.  Either may fail.          *)
LoadDesired ==
    \/ desired' = disk /\ disk' = disk /\ parted' = FALSE
    \/ /\ FileMayFail
       /\ desired' \in {disk, DesiredByDefault}
       /\ disk' \in {disk, DesiredByDefault}
       /\ parted' = TRUE

(* A crash or an upgrade: systemd starts the daemon again, and all that is *)
(* left of the requests under way is what reached the file. *)
Restart ==
    /\ LoadDesired
    /\ UNCHANGED pogo
    /\ enabled' = EnabledFor(desired', pogo')
    /\ diskQueue' = <<>>
    /\ registered' = FALSE
    /\ powered' \in (IF WritesMayFail THEN BOOLEAN ELSE {enabled'})
    /\ force' = FALSE /\ cooldown' \in BOOLEAN
    /\ events' = <<>> /\ lost' = FALSE
    /\ evTask' = Idle
    /\ enforcer' = Idle
    /\ momentB' = "idle"
    /\ op' = [o \in Ops |-> Idle]
    /\ delayed' = 0
    /\ dockEvents' = <<>>
    /\ dockLoop' = "idle"
    /\ spawned' = 0
    /\ regTask' = "idle"
    /\ sessDesired' = FALSE /\ sessPogo' = FALSE

-----------------------------------------------------------------------------
(* coordinate_secondary_display_to_state.  A call that would not change    *)
(* the desired value returns at once; ToggleSecondaryDisplay always        *)
(* changes it.                                                             *)

GoTo(o, pc) == op' = [op EXCEPT ![o].pc = pc]
Return(o) == op' = [op EXCEPT ![o] = Idle]

(* Fault: a panel that is covered is enabled. *)
Coordinate_Covered(o, new) ==
    /\ op[o].pc = "idle"
    /\ desired # new
    /\ desired' = new
    /\ enabled' = new
    /\ op' = [op EXCEPT ![o] = [pc |-> "persist", val |-> new]]
    /\ diskQueue' = Append(diskQueue, o)
    /\ UNCHANGED <<pogo, disk, parted, registered, powered, queueVars, cooldown,
                   evTask, enforcer, momentB, delayed, dockEvents, dockLoop, spawned,
                   regTask, sessVars>>

(* set_secondary_display_tracked: memory first, then the file, behind a *)
(* fair mutex that the caller queues for without suspending in between. *)
Coordinate(o, new) ==
    /\ op[o].pc = "idle"
    /\ desired # new
    /\ desired' = new
    /\ enabled' = EnabledFor(new, pogo)
    /\ op' = [op EXCEPT ![o] = [pc |-> "persist", val |-> new]]
    /\ diskQueue' = Append(diskQueue, o)
    /\ UNCHANGED <<pogo, disk, parted, registered, powered, queueVars, cooldown,
                   evTask, enforcer, momentB, delayed, dockEvents, dockLoop, spawned,
                   regTask, sessVars>>

(* What is left of a save once it has written; the calls go on either way. *)
SavedBy(o) ==
    /\ GoTo(o, "tracked")
    /\ UNCHANGED <<memory, registered, powered, queueVars, cooldown, evTask,
                   enforcer, momentB, delayed, dockEvents, dockLoop, spawned,
                   regTask, sessVars>>

(* write_display_state_file_atomically, which is left out when the file has *)
(* the value: it has it then, or the write or the rename fails and the old  *)
(* file stays.  A read that fails before loses entries, but not this one.   *)
WriteEntry(v) ==
    \/ disk' = v /\ parted' = FALSE
    \/ FileMayFail /\ disk' = disk /\ parted' = TRUE

(* Fault: the file gets the value of the moment. *)
PersistDesired_Current(o) ==
    /\ diskQueue # <<>> /\ Head(diskQueue) = o
    /\ WriteEntry(desired)
    /\ diskQueue' = Tail(diskQueue)
    /\ SavedBy(o)

(* Fault: the waiters of the mutex write in any order. *)
PersistDesired_AnyOrder(o) ==
    /\ op[o].pc = "persist"
    /\ WriteEntry(op[o].val)
    /\ diskQueue' = SelectSeq(diskQueue, LAMBDA p : p # o)
    /\ SavedBy(o)

(* with_display_state: read, change, write and rename under the mutex. *)
PersistDesired(o) ==
    /\ diskQueue # <<>> /\ Head(diskQueue) = o
    /\ WriteEntry(op[o].val)
    /\ diskQueue' = Tail(diskQueue)
    /\ SavedBy(o)

(* The setter of another entry (primary panel, brightness, ...) could not  *)
(* read the file under the mutex, and writes one with its own entry only.  *)
OtherSetterDrops ==
    /\ FileMayFail
    /\ disk' = DesiredByDefault /\ parted' = TRUE
    /\ UNCHANGED <<memory, diskQueue, registered, powered, queueVars, cooldown,
                   evTask, enforcer, momentB, op, delayed, dockEvents, dockLoop,
                   spawned, regTask, sessVars>>

(* Enabling asks for power before the session hears of it.  The wait that *)
(* follows ends with the panel seen on or after 8 s, and the call goes on  *)
(* either way: a wait changes nothing and is the time until the next step. *)
PublishTracked(o) ==
    /\ op[o].pc = "tracked"
    /\ IF op[o].val /\ enabled THEN ArmAndEmit ELSE UNCHANGED queueVars
    /\ GoTo(o, "notify")
    /\ UNCHANGED <<memory, diskVars, registered, powered, cooldown, evTask,
                   enforcer, momentB, delayed, dockEvents, dockLoop, spawned,
                   regTask, sessVars>>

(* emit_desired_secondary_changed publishes the value of the moment, not *)
(* the value of the call. *)
NotifyEnable(o) ==
    /\ op[o].pc = "notify" /\ op[o].val
    /\ \/ /\ registered
          /\ sessDesired' = desired
          /\ GoTo(o, "ack")
          /\ UNCHANGED queueVars
       \/ /\ ~registered
          /\ ArmAndEmit
          /\ Return(o)
          /\ UNCHANGED sessDesired
    /\ UNCHANGED <<memory, diskVars, registered, powered, cooldown, evTask,
                   enforcer, momentB, delayed, dockEvents, dockLoop, spawned,
                   regTask, sessPogo>>

NotifyDisable(o) ==
    /\ op[o].pc = "notify" /\ ~op[o].val
    /\ \/ /\ registered
          /\ sessDesired' = desired
          /\ UNCHANGED delayed
       \/ /\ ~registered
          /\ delayed < MaxDelayed
          /\ delayed' = delayed + 1
          /\ UNCHANGED sessDesired
    /\ Return(o)
    /\ UNCHANGED <<memory, diskVars, registered, powered, queueVars, cooldown,
                   evTask, enforcer, momentB, dockEvents, dockLoop, spawned,
                   regTask, sessPogo>>

(* DesiredSecondaryApplied(true) arrives while the coordinator waits. *)
EnableAcked(o) ==
    /\ op[o].pc = "ack" /\ registered
    /\ Return(o)
    /\ UNCHANGED <<memory, diskVars, registered, powered, queueVars, cooldown,
                   evTask, enforcer, momentB, delayed, dockEvents, dockLoop,
                   spawned, regTask, sessVars>>

EnableNotAcked(o) ==
    /\ op[o].pc = "ack"
    /\ ArmAndEmit
    /\ Return(o)
    /\ UNCHANGED <<memory, diskVars, registered, powered, cooldown, evTask,
                   enforcer, momentB, delayed, dockEvents, dockLoop, spawned,
                   regTask, sessVars>>

(* Fault: the task does not end with its one event. *)
DelayedOff_Again ==
    /\ delayed' = delayed - 1
    /\ IF desired THEN UNCHANGED queueVars ELSE ArmAndEmit
    /\ UNCHANGED <<memory, diskVars, registered, powered, cooldown, evTask,
                   enforcer, momentB, op, dockEvents, dockLoop, spawned,
                   regTask, sessVars>>

(* The task spawned by a disable that found no session, 600 ms later. *)
DelayedOff ==
    /\ delayed > 0
    /\ delayed' = delayed - 1
    /\ IF desired THEN UNCHANGED queueVars ELSE ArmAndEmit
    /\ UNCHANGED <<memory, diskVars, registered, powered, cooldown, evTask,
                   enforcer, momentB, op, dockEvents, dockLoop, spawned,
                   regTask, sessVars>>

-----------------------------------------------------------------------------
(* The keyboard is put on or taken off: set_usb_keyboard_connection. *)
PogoChanges ==
    /\ spawned < MaxSpawned
    /\ pogo' = ~pogo
    /\ enabled' = EnabledFor(desired, pogo')
    /\ dockEvents' = Push(dockEvents, pogo')
    /\ spawned' = spawned + 1
    /\ IF enabled' # enabled
       THEN events' = Push(events, enabled')
       ELSE UNCHANGED events
    /\ UNCHANGED <<desired, diskVars, registered, powered, force, lost, cooldown,
                   evTask, enforcer, momentB, op, delayed, dockLoop, regTask,
                   sessVars>>

(* The notification set_usb_keyboard_connection spawns by itself. *)
SpawnedNotify ==
    /\ spawned > 0
    /\ spawned' = spawned - 1
    /\ sessPogo' = IF registered THEN pogo ELSE sessPogo
    /\ UNCHANGED <<memory, diskVars, registered, powered, queueVars, cooldown,
                   evTask, enforcer, momentB, op, delayed, dockEvents, dockLoop,
                   regTask, sessDesired>>

(* The dock loop of run_daemon: on undock it first runs *)
(* ensure_secondary_display_on. *)
DockReceive ==
    /\ dockLoop = "idle" /\ dockEvents # <<>>
    /\ dockEvents' = Tail(dockEvents)
    /\ dockLoop' = IF Head(dockEvents) THEN "emit" ELSE "read"
    /\ UNCHANGED <<memory, diskVars, registered, powered, queueVars, cooldown,
                   evTask, enforcer, momentB, op, delayed, spawned, regTask,
                   sessVars>>

EnsureOnRead ==
    /\ dockLoop = "read"
    /\ dockLoop' = IF powered THEN "emit" ELSE "write"
    /\ UNCHANGED <<memory, diskVars, registered, powered, queueVars, cooldown,
                   evTask, enforcer, momentB, op, delayed, dockEvents, spawned,
                   regTask, sessVars>>

EnsureOnWrite ==
    /\ dockLoop = "write"
    /\ SysfsWrite(TRUE)
    /\ dockLoop' = "emit"
    /\ UNCHANGED <<memory, diskVars, registered, queueVars, cooldown, evTask,
                   enforcer, momentB, op, delayed, dockEvents, spawned, regTask,
                   sessVars>>

(* notify_keyboard_pogo_docked_changed_wait publishes the dock state of *)
(* the moment and waits for an acknowledgement of the event's value. *)
DockEmit ==
    /\ dockLoop = "emit"
    /\ \/ /\ registered
          /\ sessPogo' = pogo
          /\ dockLoop' = "wait"
          /\ UNCHANGED queueVars
       \/ /\ ~registered
          /\ ArmAndEmit
          /\ dockLoop' = "idle"
          /\ UNCHANGED sessPogo
    /\ UNCHANGED <<memory, diskVars, registered, powered, cooldown, evTask,
                   enforcer, momentB, op, delayed, dockEvents, spawned, regTask,
                   sessDesired>>

DockAcked ==
    /\ dockLoop = "wait" /\ registered
    /\ dockLoop' = "idle"
    /\ UNCHANGED <<memory, diskVars, registered, powered, queueVars, cooldown,
                   evTask, enforcer, momentB, op, delayed, dockEvents, spawned,
                   regTask, sessVars>>

DockNotAcked ==
    /\ dockLoop = "wait"
    /\ ArmAndEmit
    /\ dockLoop' = "idle"
    /\ UNCHANGED <<memory, diskVars, registered, powered, cooldown, evTask,
                   enforcer, momentB, op, delayed, dockEvents, spawned, regTask,
                   sessVars>>

-----------------------------------------------------------------------------
(* The event task of start_secondary_display_task, and the              *)
(* control_secondary_display it awaits: read, compare, write.           *)

(* Fault: an `on' event leaves the fallback armed. *)
EventReceive_KeepsForce ==
    /\ evTask.pc = "idle" /\ events # <<>>
    /\ events' = Tail(events)
    /\ force' = (force /\ Head(events))
    /\ lost' = FALSE
    /\ evTask' = IF ~Head(events) /\ registered /\ ~force
                 THEN Idle
                 ELSE [pc |-> "read", val |-> Head(events)]
    /\ UNCHANGED <<memory, diskVars, registered, powered, cooldown, enforcer,
                   momentB, op, delayed, dockEvents, dockLoop, spawned,
                   regTask, sessVars>>

(* An `off' is left to Moment B when a session is registered, unless the *)
(* fallback was armed; any received event disarms it. *)
EventReceive ==
    /\ evTask.pc = "idle" /\ events # <<>>
    /\ events' = Tail(events)
    /\ force' = FALSE
    /\ lost' = FALSE
    /\ evTask' = IF ~Head(events) /\ registered /\ ~force
                 THEN Idle
                 ELSE [pc |-> "read", val |-> Head(events)]
    /\ UNCHANGED <<memory, diskVars, registered, powered, cooldown, enforcer,
                   momentB, op, delayed, dockEvents, dockLoop, spawned,
                   regTask, sessVars>>

(* The clock that the cooldown reads is set before the write starts. *)
EventRead ==
    /\ evTask.pc = "read"
    /\ IF powered = evTask.val
       THEN /\ evTask' = Idle
            /\ UNCHANGED cooldown
       ELSE /\ evTask' = [evTask EXCEPT !.pc = "write"]
            /\ cooldown' = TRUE
    /\ UNCHANGED <<memory, diskVars, registered, powered, queueVars, enforcer,
                   momentB, op, delayed, dockEvents, dockLoop, spawned, regTask,
                   sessVars>>

EventWrite ==
    /\ evTask.pc = "write"
    /\ SysfsWrite(evTask.val)
    /\ evTask' = Idle
    /\ UNCHANGED <<memory, diskVars, registered, queueVars, cooldown, enforcer,
                   momentB, op, delayed, dockEvents, dockLoop, spawned, regTask,
                   sessVars>>

(* Other kinds of events share the channel: a burst of them overwrites *)
(* the oldest value the event task has not received yet (Lagged). *)
OtherTraffic ==
    /\ events # <<>>
    /\ events' = Tail(events)
    /\ lost' = (lost \/ force)
    /\ UNCHANGED <<memory, diskVars, registered, powered, force, cooldown, evTask,
                   enforcer, momentB, op, delayed, dockEvents, dockLoop, spawned,
                   regTask, sessVars>>

-----------------------------------------------------------------------------
(* The enforcer: every 500 ms, with no session and outside the cooldown. *)

EnforcerStep(from, next) ==
    /\ enforcer.pc = from
    /\ enforcer' = next
    /\ UNCHANGED <<memory, diskVars, registered, queueVars, evTask, momentB, op,
                   delayed, dockEvents, dockLoop, spawned, regTask, sessVars>>

(* The tick and the file read it starts.  val is first the value seen. *)
EnforcerTick ==
    /\ ~registered /\ ~cooldown
    /\ EnforcerStep("idle", [pc |-> "compare", val |-> powered])
    /\ UNCHANGED <<powered, cooldown>>

(* Fault: the enforcer goes by what the user wants, docked or not. *)
EnforcerCompare_Desired ==
    /\ EnforcerStep("compare", IF enforcer.val # desired
                               THEN [pc |-> "read", val |-> desired] ELSE Idle)
    /\ UNCHANGED <<powered, cooldown>>

(* val becomes the value wanted: the state is read after the file. *)
EnforcerCompare ==
    /\ EnforcerStep("compare", IF enforcer.val # enabled
                               THEN [pc |-> "read", val |-> enabled] ELSE Idle)
    /\ UNCHANGED <<powered, cooldown>>

EnforcerRead ==
    /\ EnforcerStep("read", IF powered # enforcer.val
                            THEN [enforcer EXCEPT !.pc = "write"] ELSE Idle)
    /\ cooldown' = (cooldown \/ powered # enforcer.val)
    /\ UNCHANGED powered

EnforcerWrite ==
    /\ EnforcerStep("write", Idle)
    /\ SysfsWrite(enforcer.val)
    /\ UNCHANGED cooldown

(* ENFORCER_COOLDOWN_SECS have passed. *)
CooldownElapses ==
    /\ cooldown
    /\ cooldown' = FALSE
    /\ UNCHANGED <<memory, diskVars, registered, powered, queueVars, evTask,
                   enforcer, momentB, op, delayed, dockEvents, dockLoop, spawned,
                   regTask, sessVars>>

-----------------------------------------------------------------------------
(* Moment B: the session's acknowledge_secondary_sysfs_poweroff_ready, and *)
(* root's apply_secondary_sysfs_poweroff_when_desired_off.                 *)

MomentBStep(from, to) ==
    /\ momentB = from
    /\ momentB' = to
    /\ UNCHANGED <<memory, diskVars, registered, queueVars, evTask, enforcer, op,
                   delayed, dockEvents, dockLoop, spawned, regTask, sessVars>>

(* The session calls after a successful reconcile to a layout without *)
(* the secondary, as far as it knows the desired state. *)
MomentBCall ==
    /\ registered
    /\ ~sessDesired \/ sessPogo
    /\ MomentBStep("idle", "called")
    /\ UNCHANGED <<powered, cooldown>>

MomentBCheck ==
    /\ MomentBStep("called", IF ~registered \/ (desired /\ ~pogo) THEN "idle" ELSE "read")
    /\ UNCHANGED <<powered, cooldown>>

MomentBRead ==
    /\ MomentBStep("read", IF powered THEN "write" ELSE "idle")
    /\ cooldown' = (cooldown \/ powered)
    /\ UNCHANGED powered

MomentBWrite ==
    /\ MomentBStep("write", "idle")
    /\ SysfsWrite(FALSE)
    /\ UNCHANGED cooldown

-----------------------------------------------------------------------------
(* register_session of an authorised caller.  A first registration asks   *)
(* for power for an enabled panel, and waits up to 8 s for it, before the  *)
(* session counts as registered.                                           *)
RegisterBegin ==
    /\ regTask = "idle"
    /\ regTask' = "store"
    /\ IF enabled /\ ~registered THEN ArmAndEmit ELSE UNCHANGED queueVars
    /\ UNCHANGED <<memory, diskVars, registered, powered, cooldown, evTask,
                   enforcer, momentB, op, delayed, dockEvents, dockLoop, spawned,
                   sessVars>>

(* The session reads the root's properties as soon as it is registered. *)
RegisterStore ==
    /\ regTask = "store"
    /\ regTask' = "idle"
    /\ registered' = TRUE
    /\ sessDesired' = desired /\ sessPogo' = pogo
    /\ UNCHANGED <<memory, diskVars, powered, queueVars, cooldown, evTask,
                   enforcer, momentB, op, delayed, dockEvents, dockLoop, spawned>>

(* clear_registration_for_owner, on NameOwnerChanged. *)
SessionGone ==
    /\ registered
    /\ registered' = FALSE
    /\ sessDesired' = FALSE /\ sessPogo' = FALSE
    /\ UNCHANGED <<memory, diskVars, powered, queueVars, cooldown, evTask,
                   enforcer, momentB, op, delayed, dockEvents, dockLoop, spawned,
                   regTask>>

(* "For some reason the secondary display always gets enabled when *)
(* resuming from suspend." *)
KernelPowersOn ==
    /\ ~powered
    /\ powered' = TRUE
    /\ UNCHANGED <<memory, diskVars, registered, queueVars, cooldown, evTask,
                   enforcer, momentB, op, delayed, dockEvents, dockLoop, spawned,
                   regTask, sessVars>>

-----------------------------------------------------------------------------
CoordinatorStep(o) ==
    \/ PersistDesired(o) \/ PublishTracked(o)
    \/ NotifyEnable(o) \/ NotifyDisable(o) \/ EnableAcked(o) \/ EnableNotAcked(o)

DockLoopStep ==
    \/ DockReceive \/ EnsureOnRead \/ EnsureOnWrite
    \/ DockEmit \/ DockAcked \/ DockNotAcked

EventTaskStep == EventReceive \/ EventRead \/ EventWrite

EnforcerTaskStep ==
    EnforcerTick \/ EnforcerCompare \/ EnforcerRead \/ EnforcerWrite

MomentBHandlerStep == MomentBCheck \/ MomentBRead \/ MomentBWrite

(* What users, the session daemon, the keyboard and the kernel do. *)
EnvironmentStep ==
    \/ \E o \in Ops, new \in BOOLEAN : Coordinate(o, new)
    \/ PogoChanges \/ MomentBCall \/ RegisterBegin \/ SessionGone
    \/ KernelPowersOn \/ OtherTraffic \/ OtherSetterDrops \/ Restart

Next ==
    \/ \E o \in Ops : CoordinatorStep(o)
    \/ DelayedOff \/ SpawnedNotify \/ DockLoopStep \/ EventTaskStep
    \/ EnforcerTaskStep \/ CooldownElapses \/ MomentBHandlerStep
    \/ RegisterStore \/ EnvironmentStep

Spec == Init /\ [][Next]_vars

(* The executor polls every ready task and timers fire: the event task and *)
(* the enforcer make progress.  Nothing is assumed of the other tasks, which *)
(* may wait as long as they like, nor of the environment.                  *)
Fairness ==
    WF_vars(EventTaskStep) /\ WF_vars(EnforcerTaskStep) /\ WF_vars(CooldownElapses)

FairSpec == Spec /\ Fairness

-----------------------------------------------------------------------------
(* The panel is enabled exactly when it is wanted and not covered, after   *)
(* whichever of the two writers (coordinator, hotplug) ran last.           *)
EnabledIsWantedUndocked == enabled <=> (desired /\ ~pogo)

(* An armed fallback is always followed by an event that will disarm it:   *)
(* arm_sysfs_fallback_once never outlives its event to force an unrelated  *)
(* power-off much later, unless the channel overflowed.                    *)
ForceHasEvent == force => (events # <<>> \/ lost)

(* The last writer still queued for display_state_mutex has the last       *)
(* request, and once none is queued a restart would load that request,     *)
(* unless the last access to the entry failed: requests that overlap never *)
(* leave an older one in display-state.json, and the next save that can    *)
(* write repairs what a failure left (state.rs:41, 46-80).                 *)
FileEndsAtDesired ==
    IF diskQueue = <<>> THEN disk = desired \/ (FileMayFail /\ parted)
                        ELSE op[diskQueue[Len(diskQueue)]].val = desired

(* The desired state is a durable setting: requests reach the file in the  *)
(* order in which they changed the memory, however they overlap, and a     *)
(* restart goes back to what the file holds; a failing access to the file  *)
(* leaves the old value or the default, and no other.                      *)
Setting == INSTANCE DurableSetting WITH
    Values <- BOOLEAN, Default <- DesiredByDefault, MayFail <- FileMayFail,
    value <- desired, saved <- disk,
    pending <- [i \in 1..Len(diskQueue) |-> op[diskQueue[i]].val]
DesiredIsDurable == Setting!Spec

(* The file mutex is waited for by exactly the calls that have not written. *)
QueueIsThePersisting ==
    /\ \A o \in Ops : op[o].pc = "persist" <=> \E i \in 1..Len(diskQueue) : diskQueue[i] = o
    /\ \A i, j \in 1..Len(diskQueue) : diskQueue[i] = diskQueue[j] => i = j

(* With no session, and once users, keyboard and kernel leave it alone,    *)
(* the power gate settles on `enabled', whatever tasks were in flight.     *)
CalmStep == desired' = desired /\ pogo' = pogo /\ ~KernelPowersOn
SettlesWithoutSession ==
    (<>[]~registered /\ <>[][CalmStep]_vars) => <>[](powered = enabled)

(* secondary_display.rs:62, of Moment B: "policy: do not cut platform power *)
(* while undocked with secondary still wanted".                            *)
MomentBKeepsWantedPanel == [][momentB = "write" /\ desired /\ ~pogo => powered' = powered]_vars

(* main.rs:413: "On undock, write sysfs `on` BEFORE telling the session    *)
(* daemon": a registered session that held the keyboard for docked hears   *)
(* of the undock only with the panel powered.                              *)
UndockTellsAfterPower ==
    [][registered /\ registered' /\ regTask' = regTask /\ sessPogo /\ ~sessPogo' => powered]_vars
=============================================================================
