# Verification of zenbook-duo-daemon

TLA+ models of the daemon that drives an ASUS Zenbook Duo's second panel
(eDP-2), its detachable keyboard and the display layout, the TLC runs that check
them on small instances, and TLAPS proofs of the properties that matter most for
every value of the constants. Paths below are relative to `src/src/`.

## The system

Two programs of one binary talk over the system D-Bus.

The **root daemon** (`main.rs::run_daemon`) runs on a single-threaded tokio
executor, so its tasks interleave at awaits only; two std threads
(`mute_state.rs`) run beside it. It owns the hardware: sysfs files, the keyboard's
USB and Bluetooth channels, logind signals, and the state in `InnerState`
(`state.rs`), part of which is kept in files. Tasks hear of changes through one
`broadcast` channel of 64 `Event`s.

The **session daemon** (`session/mod.rs`) runs in the user's GNOME session. It
registers with the root daemon, follows its properties, and applies display
layouts through Mutter, asking the root for a permit before every apply.

### Inventory

| component | state | operations | what makes it correct |
|---|---|---|---|
| secondary panel power (`secondary_display.rs`, `secondary_coordinator.rs`, dock loop of `main.rs`) | desired, enabled, pogo; desired in `display-state.json`; power gate in sysfs; one-shot fallback flag; cooldown | request/toggle, dock/undock, event task, enforcer, Moment B, registration sync, startup | enabled is desired and undocked; file follows the requests in order; the fallback flag does not outlive its event; the gate settles on enabled without a session; a wanted panel is not cut; power before the session hears of an undock |
| keyboard backlight and idleness (`state.rs`, `idle_detection.rs`) | requested level (and file), suspended, idle, room light; idle timer | set, toggle, suspend, resume, ambient setters, idle task, keyboard restore/follow | a keyboard that has caught up shows the effective level; no idle darkness once detection is off |
| microphone LED (`state.rs`, `mute_state.rs`) | mute flag, suspended | poll thread, listener thread, mute key, suspend, resume | dark while suspended; ends up showing the source |
| display apply guard (`dbus_state.rs`) | attempts, paused, decay timers | attempt, resume, decay | no leak, no runaway, at most the maximum in the window |
| registration (`dbus_state.rs`) | registered owner, handlers under way | register, forget, heartbeat, re-register | a daemon left alone ends up registered; the reports of connections that are gone clear them |
| display reconcile (`session/display.rs`) | desired inputs, debounce deadline, recovery task, `apply_busy`, serial lock, quiet period | signals, reconcile, recovery, monitor subscriber | one apply at a time; busy covers every apply; layout converges when calm |
| USB keyboard sessions (`keyboard_usb.rs`, `main.rs`) | current keyboard, session counter, receive tasks | start-up, hotplug events, start of a session, shutdown, resume | the daemon believes what is plugged in once it is at rest |
| Bluetooth keyboard sessions (`keyboard_bt.rs`) | sessions by address, readers, connection count | scan, inotify, settle, register, ENODEV | one count per keyboard; a reader never takes down a later session |
| connection and battery sample (`state.rs`, `keyboard_battery*.rs`) | USB, dock, Bluetooth count, grace, level | setters, grace and refresh timers, polls | what was published is what holds; detached only after the grace; a late sample does not replace the wired one |
| saved settings (`state.rs`) | memory, `display-state.json`, file mutex | setters of brightness, primary, tablet mapping, ambient light; start | no entry is clobbered; memory and file agree |
| configuration (`config.rs`, `dbus_state.rs`) | options, `config.toml` | `persist_*`, start, migrate-config | an option that was set is the one of the file |
| room light (`ambient_light.rs`) | smoother, known level | readings, window, restart of the monitor | the known level follows the light |
| battery warnings (`session/notifications.rs`) | latches, last level | Bluetooth loop, USB loop | each tier once per dip, each milestone once per charge |
| result tokens (`dbus_state.rs`, `session/display.rs`) | two channels, waits | update, take, wait, timeout | only timed-out waits leave tokens behind; an acknowledged update was taken |
| ambient setting (`session/ambient.rs`, `dbus_state.rs`) | latest value, registration | monitor, forward, replay, reconnect | the root has the setting of GNOME |
| brightness mirroring, tablet mapping, orientation sensor, operator D-Bus methods, polkit, virtual keyboard (various) | small | thin | see Not modelled |

Hard behaviours are concentrated where a value is read before an await and used
after it (Moment B, `set_keyboard_backlight`, `register_session`), where two tasks
repair the same thing (coordinator, enforcer and dock loop; display reconcile and
recovery), and where a bounded wait meets a late answer. `PROJECT.json` lists
these as hazards, each at its line.

## Modules

### SecondaryDisplay (with DurableSetting)

One variable per piece of shared state, and one program counter per task with the
value that task carries across its awaits. An action is the code between two awaits.

| code | actions |
|---|---|
| `coordinate_secondary_display_to_state` | `Coordinate`, `PersistDesired`, `PublishTracked`, `NotifyEnable`, `NotifyDisable`, `EnableAcked`, `EnableNotAcked`; the spawned task is `DelayedOff` |
| `set_usb_keyboard_connection` | `PogoChanges`, its spawned notification `SpawnedNotify` |
| dock loop of `run_daemon` | `DockReceive`, `EnsureOnRead`, `EnsureOnWrite`, `DockEmit`, `DockAcked`, `DockNotAcked` |
| event task and `control_secondary_display` | `EventReceive`, `EventRead`, `EventWrite`; `OtherTraffic` is a lagging receiver |
| enforcer | `EnforcerTick`, `EnforcerCompare`, `EnforcerRead`, `EnforcerWrite`, `CooldownElapses` |
| Moment B | `MomentBCall`, `MomentBCheck`, `MomentBRead`, `MomentBWrite` |
| `register_session`, `clear_registration_for_owner` | `RegisterBegin`, `RegisterStore`, `SessionGone` |
| crash, upgrade | `Restart` |

Abstractions: waits are untimed (a bounded wait may end, answered or not, at any
moment, which includes every timing), a wait that changes nothing is part of the
time before the next step, and one registration is handled at a time. Each kind of
event has its own queue; traffic of the other kinds is `OtherTraffic`, which drops
the oldest value not yet received. A session is what it was last told, and calls
Moment B whenever that allows it.

The state file fails without a word: a write or a rename leaves the old entry
(`WriteEntry`), a setter of another entry that cannot read the file writes one
without this entry (`OtherSetterDrops`), and a start may read the default, or lose
the entry to the setter it calls itself (`LoadDesired`). `FileMayFail` allows all of
these; the history `parted` says that the last access to the entry was one of them.

`DurableSetting` is the abstract promise about a setting that changes in memory at
once and is saved a little later: the file takes values in the order they were
chosen and a crash goes back to the file. Storage that may fail (`MayFail`) skips a
value or forgets it for the default, and does nothing else: it never brings back an
older value. `SecondaryDisplay` implements it with the queue of `display_state_mutex`
as the values on their way (`DesiredIsDurable`).

### KeyboardBacklight

`EffectiveOf` is `effective_keyboard_backlight`; each setter of `state.rs` is an
action, with set and toggle split at their await (`SetLevel`, `PersistLevel`,
`SendLevel`). `idle_state_task` has one action per branch of its select, with the
timeout it last read at the top of its loop (`timeoutArmed`) apart from the
configured one, so that an armed sleep can win against a change. The control task
(USB and Bluetooth alike) subscribes, restores and then follows. `late` is a
history variable: the newest event was out of date when it was sent. `lights` has the
levels the control task has not received out of a channel that all kinds of events
share: `OtherTraffic` overwrites the oldest of them, and the task skips the gap. `lost`
is the history that the newest one went this way. `PersistLevel` may fail or leave a
truncated file, which a start reads as `Low`. Transfers to the keyboard that fail are
logged and not repeated by the code; they are left out.

### MicMuteLed

Threads ask PulseAudio (`AskSource`) and set the LED later (`TellState`), the
executor's thread does the same for the mute key, and a resume reads and sends in
two steps because only `set_mic_mute_led` sends under the lock.

### ApplyGuard and SessionRegistration

`ApplyGuard` is the counter with its decay timers. `stale` counts the timers
started before the last resume, a history that only `BudgetInWindow` looks at.
`SessionRegistration` extends it with the callers: session daemons with their
connections, the calls of `register_session` the root is handling, the display
task's permit loop with its single re-registration, and the bus's reports of
connections that are gone. Deadlines of `register_session` and heartbeats are
untimed. Unique names are never reused by the bus; the model reuses one only after
every trace of it is gone.

### DisplaySession

The display task of the session daemon. Every branch of its select loop is an
action; what all signal branches do after they have stored their value is `Heed`,
with the check for the quiet minute at the end of the loop. The loop takes nothing
while a reconcile runs (`LoopIsFree`).

| code | actions |
|---|---|
| select loop of `run` | `SecondarySignal`, `KeyboardSignal`, `OrientationSignal`, `OrientationLag`, `AvailabilitySignal`, `Debounce`, `QuietEnds` |
| `reconcile_display_state` | `TakeSerial`, then `ReadMode` or `RootUnavailable`, then `ReadTurn`; `ReconcileEnds` is what the loop does with the result |
| `ensure_display_recovery_task`, `attempt_display_recovery` | `CampaignStarts`, `TryAgain`, `AttemptEnds` |
| `cancel_display_recovery_task`, `ApplyBusyClear::drop` | `Cancelled` inside `Debounce`, `AbortedIsDropped` |
| `apply_desired_display_state` | `AlreadyRight`, `Apply`, `Verify`, `GuardRefuses`, `MutterRejects`, `MutterFails`, `PassFails` |
| `subscribe_monitors_changed` | `WatchChange`, `WatchRead`, `WatchReport`, `WatchNudge` |
| update handlers, sensor, Mutter | `SecondaryUpdate`, `KeyboardUpdate`, `MachineTurns`, `LayoutChanges` |

The reconcile and the recovery campaign are two jobs that run the same attempt,
so the actions of an attempt have the job as parameter. `tokio::task::abort` only
marks a task; its destructors (clear `apply_busy`, release `apply_serial`) run when
the executor polls it next, which is what `AbortedIsDropped` is for.
`desired_primary` is handled line for line as `desired_secondary`, and `want`
stands for both. A layout is what the properties tell apart: whether the second
panel is on, mirrored, and how it is turned. `available` says whether Mutter has modes
for the panel, which it has only while the power gate is on. Each pass of an attempt
asks it anew (`Looks`), settles without a panel that is not there, and hears of its
return by `MonitorsChanged` only. `ReadMode` asks the root and `ReadTurn` the sensor;
when the sensor does not answer the layout stays turned as it is and the attempt goes
on. A watcher that cannot read the layout drops the signal (`WatchRead`).

Left out: external monitors, the heal of a wedged Mutter and phase 1 of a primary
change (applies inside a pass whose failure ends like that of the pass), the result
tokens, and the exit of the process when the bus is dead. Four history variables serve
the properties: how the last apply ended (`verdict`), whether a signal was dropped or
the sensor silent since inputs were last read (`missed`), the number of changed
reconciles in a row (`streak`), and whether a lagging receiver scheduled one of them
(`lagged`). A signal that the watcher skips during an apply counts as missed only if
it is about the panel and the apply had looked before (`OutOfDate`): `SettledIsTarget`
shows that every other skipped signal is made up for.

### UsbSessions

The start-up of the root daemon and the hotplug monitor are one task, with a step
for every await in which the keyboard may be moved.

| code | actions |
|---|---|
| `run_daemon` | `BootFind`, `BootState`, then the start of a session, then `Watch` |
| `start_usb_keyboard_monitor_task` | `Connected`, `Settled`, `Disconnected` |
| `start_usb_keyboard_task` | `Open`, `Detect`, `ClaimRefused`, `Claim`, `Restore` |
| receive task of a session | `ReceiverStops` |
| resume branch of `watch_prepare_for_sleep` | `ResumeFinds`, `ResumeCorrects` (`ResumeSets`) |
| panic hook and systemd | `Panic` |
| user, kernel | `PlugIn`, `Unplug` |

An `unwrap` on a device that is gone is a panic and a new process. The same `unwrap`
of an open or a control transfer that fails with the device still there is not
modelled. `astray` is a
history variable with the three things the code does not repair before the next
plug-in: a change between the search at start-up and the watch, a session that was
refused the vendor interface, and a resume that set what was no longer true.

### BluetoothSessions

`Take`, `Reopen`, `Register` and `GiveUp` are `try_start_bt_keyboard_task` for one
node at a time, `ScanEnds` the end of the first scan, and `ReaderEnds` a reader that
gets ENODEV: it removes the session of the address and aborts the other readers.
Nodes `Appear` and `Vanish` at any moment; the path of a node may be given to
another keyboard.

### ConnectionState

The setters of `state.rs` that the two modules above call, and what they start:
`SetUsbKeyboardConnection`, `BluetoothConnectionStarted`,
`BluetoothConnectionStopped`; the second of grace (`GraceElapses`); the spawned
notification (`NoticeRuns`) and refresh timers (`RefreshFires`, `OldRefreshFires`),
which read the state when they run. `UsbAsks`/`UsbAnswers` and
`RadioAsks`/`RadioAnswers` are battery samples, asked for and set later,
`ClearIfNoSource` what the Bluetooth poll does when there is no keyboard. A level
is the source it came from.

### KeyboardLink

The three modules above in one process. A step of the USB or the Bluetooth side that
calls a setter of `state.rs` is one step with the action of `ConnectionState` for that
setter, as there is no await between them that lets another task see one without the
other. `wired`, `onPogo` and `radio` of `ConnectionState` are then what `usb`, `pogo`
and `btCount` say (`StateIsShared`).

| code | actions |
|---|---|
| panic hook, crash or stop, and systemd | `ProcessBegins` |
| `KeyboardStateManager::new` in `run_daemon` | `StateBegins`: without a keyboard in `ProcessBegins`, with one in `StateBeginsWired` |
| calls of `set_usb_keyboard_connection` (detection, receive task, resume) | `UsbCalls` |
| calls of `bluetooth_connection_started`/`_stopped` | `RadioCalls` |
| steps of one side that call nothing | `UsbWorks`, `RadioWorks`, `StateWorks` |

The Bluetooth monitor and the battery polls run only once the tasks are started
(`Up`). The two searches at start-up may end in a panic; that is `ProcessBegins`, so
that the other two components begin anew, too.

### BatteryWarnings

One task in one of two loops. `EnterBluetooth`, `BluetoothLevel` and `BluetoothGone`
are `monitor_bluetooth_keyboard_battery`; `EnterUsb` and `UsbLevel` are
`monitor_usb_keyboard_battery`; `LoopEnds` is the way out of both. The latches
(`shown`, `shownCharge`) are those of the code. `dip`, `charge` and `seen` are
histories that say what the user has been told since the level was last above a
tier, or since the charge began; the properties compare the toasts with these and
never with the latches.

### ResultTokens

The two channels between the session client and the display task, for the dock
(`use = "dock"`, the client awaits each wait) and for the second panel
(`use = "panel"`, a task per wait). `SendUpdate` is `apply_keyboard_pogo_update` or
`apply_desired_secondary_update`, `WaitEnds` and `WaitTimesOut` are
`wait_for_internal_ack`, `TakeValue` and `TokenIsSent` the branch of the select loop,
`Reconciles` the time in which it takes nothing.

### AmbientReports

`ReadSetting`, `MonitorStarts`, `MonitorEnds` and `ReadLine` are the task of
`session/ambient.rs`; `Registers`, `Replay`, `Subscribes`, `Forward` and `Reconnects`
are `run_session_client` as far as it concerns this value; `RootRestarts` and
`DisplayRegisters` come from outside. `missed` (a change nobody was there to print)
and `unaware` (a restart before the client subscribed to the owner of the name) are
histories of the two gaps.

### StateFile

`with_display_state` for the settings that share `display-state.json`: `CallSetter`
up to the lock, `ReadFile`, `SaveEnds`, and `StartAgain` for a crash. Some setters
change memory before the call, others after it (`ChangesMemory`); failed reads and
writes are silent, and `parted` has the settings they touched. The display mode is
saved like the primary panel. The desired state of the second panel is in the same
file; its path is in SecondaryDisplay.

### ConfigFile

A call of `persist_*` and the setter after it: `PersistReads`, `PersistTruncates`,
`PersistWrites`, `PersistApplies`, in tasks that no lock keeps apart. `fs::write`
empties the file before it writes. `DaemonEnds`, `DaemonStarts` and `MigrateConfig`
are what happens around it. `doubtful` has the options whose last call overlapped
another or failed.

### AmbientLight

The smoother and its monitor: `Observe` is `observe_level`, `WindowEnds` is
`finish_window`, `MonitorStarts`, `FirstReading` and `MonitorFails` the loop of
`main.rs` around `run`. A level is the sum and the count of its readings, so that the
code's averages and drifts are compared exactly, without its rounding. A window may
end whenever it is open, which includes the 20 s of the code.

`MC_*` modules extend these for TLC; the bounds are in the `.cfg` files. `MC_Parts`
puts together eight parts that share no variable there, `MC_RootParts` the whole
keyboard (KeyboardLink), the settings file and the configuration. A variable (`part`,
`chosen`) says which of them moves in a behaviour, so that TLC explores the parts one
after the other and not their product. `NoMoreUpdates` in `MC_Parts` stutters where
the bound on updates ends a behaviour.

## Runs

| run | shows | bounds and why they are enough |
|---|---|---|
| Toggle | `enabled` with two writers; file order, durability, fallback flag | two overlapping requests (symmetric) and docking, so that both writers of `enabled` meet; two event slots, so that an event may be overwritten; failing sysfs writes and a failing state file; `ThreeUnderWay`: beside the calls one task is busy at a time, and with the calls under way and the events not yet received there are three at most, since the checked properties are not about the gate: 0.66 million states |
| Dock | the gate settles without a session | no requests (they change `desired`, which starts with either value), but docking and registration free and all writers of the gate concurrent; the state file does not fail |
| Backlight | what the keyboard shows; idle detection off | three levels (off, low, above low), one caller against every other writer, two event slots, either of which other traffic may take |
| Parts | USB belief; Bluetooth counts; the published kind and samples; warnings; tokens; ambient setting; microphone LED; known light | four plug-ins, since a replacement with a late shutdown and one more plug-in take three; two keyboards with two nodes (a node of each, or both of one); two Bluetooth sessions; levels 0..7 with every tier and milestone at a level of its own; channels of two slots, six updates; two ambient reports and two unread lines; both threads, mute key, two event slots, a failing listener; levels of light well below, on, just above and well above the threshold (neither of the middle two drifts from their average), windows of at most three readings |
| RootParts | what is published of the keyboard in the end; saved settings; `config.toml` | two plug-ins and one Bluetooth node, which come and go in every order with each other and with any end of the process: 1.5 million states; resumes with the first plug-in only and no battery samples (`KeyboardBound`), which Parts explores in full; two values and two setters that overlap; two options with two values and two calls that overlap |
| Registration | guard invariants in the system; a lone daemon ends up registered | two daemons and three connections: an old, a new and a stranger's; one attempt allowed, two timers |
| Session | recovery beside reconcile; the settled layout; the throttle; coming to rest | channels of two slots, so that an older value may wait behind a newer one and a third overwrites it or makes the receiver lag; quiet minute after one changed reconcile; two attempts a campaign; two orientations; three disturbances (a signal, a refusal, a failure, a silent sensor, a panel that comes or goes, or a change by the user), enough for a failure, the signal that cancels its recovery and one more change in the middle: 0.3 million states |
| MomentB, Undock, SuspendDark, Budget, ApplyBusy | five statements of the repository that the code does not meet | see Findings |

Every property of a passing run has a mutant (a definition with a plausible bug,
marked `Fault:` in the module, placed before the definition it would replace) that
makes TLC report it.

Fairness: the executor polls every ready task, timers fire and handlers return
(weak fairness). Nothing is assumed of users, keyboards, sessions or the kernel.
In `MC_Parts` (`PartsFairness`) the hotplug monitor, the receive tasks, the correction
after a resume, the Bluetooth monitor, its readers, the grace, notification and refresh
timers, the threads of the microphone LED and the steps of the light monitor are
weakly fair. Users, the kernel, resumes, the light, crashes and `MonitorFails` get
none, so that `KnownFollowsLight` and `UsbComesToAgree` say what happens when these
stop. `MC_RootParts` has safety properties only and states no fairness.
`MicMuteLed` assumes strong fairness of the control task, which takes milliseconds
for each event while the threads call a few times a second. In `KeyboardBacklight`
the sleep branch gets no fairness: it becomes ready only after a quiet time.

In `DisplaySession` signals, the debounce, the watcher, the ready tasks and each
job's attempt are weakly fair; the select of tokio picks among ready branches at
random, so that the signal branches share one condition. Faults and the
environment get none and are bounded by `MaxDisturbances`; `ComesToRest` says what
happens when they stop. The quiet minute may last for ever in the model: neither
property needs its end.

`LoneSessionIsRegistered` assumes that the daemon's display task stops asking for
applies. Without that TLC finds a daemon that displaces itself for ever: each
reconnect is followed by a permit request that still holds the previous
connection and registers that one again.

## Findings

- **MomentB**: `apply_secondary_sysfs_poweroff_when_desired_off` decides before
  two awaits. An enable in between is powered off, against the policy its own log
  line states.
- **Undock**: `set_usb_keyboard_connection` spawns a notification that tells the
  session of the undock before the dock loop has written the power gate.
- **SuspendDark**: `set_keyboard_backlight` and `toggle_keyboard_backlight` send
  after an await the level they computed before it.
- **Budget**: resuming clears the counter but not the decay timers, which then
  lower the counter of later attempts.
- **ApplyBusy**: `reconcile_display_state` sets `apply_busy` before it waits for
  `apply_serial`. The recovery it has just cancelled is dropped during that wait and
  clears the flag, so the whole reconcile runs with `apply_busy` false, against the
  comment at `session/display.rs:1682`; `MonitorsChanged` may then report a layout
  in the middle of an apply to the root as the user's choice. `CampaignIsAlone` is
  what does hold: a campaign is marked for as long as it lasts, and the lock keeps
  it apart from every reconcile.

The run SuspendDark leaves out a dark level that was lost to other events (`lost`),
which would leave the keyboard lit, too: its counterexample needs no full channel.

### Observations

Behaviour the models show that contradicts no statement of the repository. The
properties are stated so that they hold beside it, and name it.

- A level that 64 other events push out of the channel before the control task has
  received it is not sent again until the effective level changes: the keyboard shows
  the level before it (`lost`). An overwritten event of the panel is repaired by the
  enforcer, one of the microphone LED by the next poll.
- A failed access to `display-state.json` is silent. After a failed read the next save
  of any entry drops all others, `desired_secondary_enabled` among them, and a restart
  enables the panel (`parted`).
- A panel that comes back while an apply is under way that has already looked for it
  stays off until the next signal, since its `MonitorsChanged` is skipped; so does the
  layout of a signal whose reading fails. A sensor that does not answer leaves the
  layout turned as it is, and the attempt is a success (`missed`).
- A keyboard whose vendor interface is refused is still current and its session has
  no receive task: its unplug leaves the daemon believing in it (`astray`).
- A resume acts on a search it made before an await, and may set what is no longer
  true.
- The display task waits on a full token channel after as many timed-out waits as it
  has slots, until the next update of that kind takes a token.
- A level of 0 % that follows a failed first read is not looked at, because
  `last_pct` starts at 0. A full charge is not told of again when the plug is put back
  above half. "Keyboard disconnected" may be repeated each time the task starts over.
- A Bluetooth sample asked for before a disconnect may be set after it.
- `register_session` stores its caller without looking whether it is still there. A
  session daemon that dies while its call is handled stays registered until the next
  one registers.
- `keyboard_bt`'s ENODEV removes every path of the address, not one.
- A change of GNOME's setting while its monitor is being restarted is not reported
  until the next one; a root restart just before the client subscribes is not seen.
- Overlapping configuration calls may lose each other's option; a daemon that dies
  between the truncation and the write of `config.toml` does not start again until
  the installer migrates the file.
- The average of a window may be above the dark threshold though its last reading
  was dark; the next refresh repairs it. A claim that fails is no error.

## Proofs

TLAPS proves, for every value of the constants allowed by the named assumptions
(channel sizes and the number of levels are positive, bounds are natural numbers):

- `SecondaryDisplay_proofs`: type correctness; `EnabledIsWantedUndocked`, which is
  inductive by itself; `ForceHasEvent`, likewise; `FileEndsAtDesired`, which needs
  that the queue holds exactly the requests at their file write, once each
  (`QueueIsThePersisting`), and says what a failed access leaves (`parted`); and the
  refinement of `DurableSetting` step by step, with each failure of the file a failure
  of the storage.
- `KeyboardBacklight_proofs`: type correctness and `LightIsEffective`. The
  inductive invariant `NewestIsTold` says that the newest level sent, or the
  light when nothing is queued, is the effective one, or a set/toggle is in flight,
  or the newest event was late or lost; `LightIsEffective` alone is not inductive, because
  it says nothing of the events still queued. `UndisturbedCallsKeepDark`: the statement
  that the run SuspendDark refutes holds if nothing else changes the effective level
  during a set or toggle; a level lost to other traffic is set aside by the statement
  itself. `IdleIsNeverStranded`, the safety half of `DisabledEndsIdle`:
  a keyboard that is idle with detection off has the wake-up still to come.
- `RootParts_proofs`: for `MicMuteLed`, type correctness and `SuspendedLedIsDark`,
  from the invariant that during a suspension the last queued event is dark
  (`DarkSuspension`). For `StateFile`, `EntriesAreKept` and `MemoryIsSaved`, from
  `FileInv`: only the head of the queue has read, and what it has read is the
  file unless an access failed (`HeadHasRead`), and the last setter of a setting that changes memory first has the
  value of the memory (`LastIsInMemory`). For `ConfigFile`, `ConfigIsKept`, from
  `ConfigInv`: what the file holds while one call has it to itself (`AloneIsAlone`), and
  that file, memory and the copies of all calls agree on the options that are not in
  doubt (`CopiesAgree`). For
  `AmbientLight`, type correctness.
- `UsbSessions_proofs`: type correctness and `UsbSettles`, for any number of plug-ins.
  The property says nothing of an event still queued or a session still starting, so
  the inductive invariant adds what the queue is (`Bounded`, `Alternates`, its last
  event is the fact, its first is news), that devices are new, what holds at start-up,
  that the current session is heard, and that the belief is right given what is still
  to be handled (`Believed`, `Forgotten`).
- `Parts_proofs`: type correctness of the five other components of `MC_Parts` and their safety properties:
  `SessionsAreCounted` (from `BtInv`), `ObserversKnow`, `DetachedOnlyAfterGrace` and
  `SamplesMatchLink` (`ConnInv`: when nothing is on its way the published kind is the
  effective one), `WarnedOncePerDip` and `MilestonesRise` (`WarnInv`,
  `ChargeIsLatched`: the latches hold what the user was told), `TokensAreTimeouts` and
  `AcksAreEarned` (`TokenInv`: together with the types they are inductive),
  `RootHasSetting` (`AmbientInv`: unless a change was missed the newest of unread line,
  report and kept value is the setting, and a client that has replayed has told what
  it keeps). `GoneKeyboardsAreForgotten`, the safety half of `GoneIsCountedOff`: with no
  node left and every ENODEV seen, no keyboard counts. It needs that each reader and
  each node under way still has its node or is known to have lost it
  (`ReadersHaveNodes`).
- `KeyboardLink_proofs`, for the composition and any number of plug-ins, keyboards,
  nodes and ends of the process. `LinkInv` is the invariants of the three components,
  `StateIsShared`, and `QuietUntilUp`: before its tasks are started a process has no
  Bluetooth reader, without which the state could not begin with a count of 0. Until
  the process ends each step of the composition is one of each side
  (`ProcessRunsItsComponents`), so that every component keeps what was proved of it
  alone (`ComponentsKeepPromises`, `ProcessKeepsGrace`), the saturating counter of
  Bluetooth keyboards never saturates (`CountNeverSaturates`), and what observers were
  told, once all is calm, is how a keyboard is connected (`TheKeyboardIsShown`, by
  chaining `UsbSettles`, `StateIsShared`, `ObserversKnow`, `SessionsAreCounted` and
  `ReadersHaveNodes`). The same module has the type invariants of `MC_RootParts` and
  `MC_Parts`.
- `SessionRegistration_proofs`: `BudgetNotLeaked` and `WithinMaximum` of the guard
  alone; `PatientResumesKeepBudget`, that the budget which the run Budget refutes is
  kept if nobody resumes while a decay timer runs; that every behaviour of the system
  is one of the guard (each step is a guard step or leaves its variables alone), so
  that the results about the guard carry over; and type correctness, which needs that
  the connection of a task at work is a real one (`ConnInv`).
  `LivingCallersAreForgotten`: if `register_session` stored only callers that are still
  there, a registered connection would be open or its report still to come.
- `DisplaySession_proofs`: type correctness, and three results that need one
  invariant each. `CampaignIsAlone` follows from `Locking`: which job holds the
  lock and has the flag set at each point, and that a cancelled campaign which is
  not dropped yet has a reconcile waiting for its lock. `LoopIsThrottled` follows
  from `Throttle`: unless a receiver lagged, the count plus the pending follow-up
  is the number of changed reconciles in a row, and no reconcile begins before its
  follow-up was counted. `SettledIsTarget` follows from `Converging`: a running
  attempt aims at the present inputs as far as it has read them (`AimsRight`), a panel
  that came or went after it looked is still to be told to the loop (`NewsPending`),
  and a finished one has left the layout for the inputs, or something is still to come
  (`InputsPending`, `LayoutPending`). The property alone is not inductive, because it
  says nothing of a task at work.
  `UncancelledAppliesAreMarked`: the statement that the run ApplyBusy refutes holds if
  no reconcile begins while a recovery is at work.

Four theorems have a hypothesis about the steps taken (`[][...]_vars`), which many
behaviours satisfy and the code does not enforce. Three say of the findings
SuspendDark, Budget and ApplyBusy that a change which rules out the cause named there
is enough for the statement the run refutes; SuspendDark's leaves out levels lost to
other events, which are a cause of their own. The fourth says so of a dead
registration (see Observations). MomentB needs no such theorem, as its property names
the race itself; for Undock there is none, because the gate has other writers, and
ordering the spawned notification alone would not do.

Only model-checked is everything under fairness (`SettlesWithoutSession`,
`DisabledEndsIdle`, `LedShowsSource`, `LoneSessionIsRegistered`, `ComesToRest`,
`UsbComesToAgree`, `GoneIsCountedOff`, `LossIsTold`, `KnownFollowsLight`), since
liveness and ENABLED are out of the prover's reach, as is induction over data. Every
invariant and every action property of the passing runs is a theorem. No module that is
proved about declares a recursive operator.

## Not modelled

- **Brightness mirroring** (`secondary_display.rs`): one task copies a value from one
  sysfs file to another while the panel is wanted, with a division and a pause after
  an enable. The next inotify event replaces all it knows, so that a model of it had
  no property that a plausible bug breaks.
- **Tablet mapping, orientation sensor, on-screen keyboard**: they hand a value to
  `gsettings` or a channel. What the display task does with an orientation is in
  DisplaySession, the saved mapping in StateFile.
- **Virtual keyboard and key parsing**, USB and HID byte formats, uinput: tables and
  pure I/O.
- **Operator D-Bus methods, polkit**: forwarders with a check in front; what they call
  is modelled where it keeps state.
- **The rest of the notifications**: a toast for each change of a property, without
  state.
- **In BluetoothSessions** the GATT task, which follows its session; **in
  ConnectionState** the last known battery on disk; **in DisplaySession** external
  monitors, the heal of a wedged Mutter and phase 1 of a primary change; **of
  `run_session_client`** the reads of properties on connecting and the streams other
  than the updates of ResultTokens and the value of AmbientReports.
- The PulseAudio protocol, the GNOME extension, install scripts: outside the daemon's
  state.
