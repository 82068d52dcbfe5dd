--------------------------- MODULE AmbientReports ---------------------------
(***************************************************************************)
(* How GNOME's setting "ambient-enabled" gets to the root daemon.          *)
(*                                                                         *)
(* A task of the session daemon reads the setting once and then follows    *)
(* `gsettings monitor', which it starts again when it ends.  It hands each *)
(* value to the session client by a bounded channel.  The client keeps the *)
(* latest value, also while it has no root daemon to tell; it tells it     *)
(* again after each registration, because a root daemon that was restarted *)
(* knows the value of its file at best.                                    *)
(***************************************************************************)
EXTENDS Integers, Sequences

CONSTANTS
    ReportCap,      \* slots of the mpsc channel (8 in session/mod.rs)
    MaxLines        \* bound: lines of the monitor not read yet

ASSUME AmbientAssumption == ReportCap \in Nat \ {0} /\ MaxLines \in Nat

VARIABLES
    setting,        \* GNOME's setting
    reader,         \* the task that follows it: "read", "start" or "follow"
    lines,          \* what the monitor has printed and the task has not read
    reports,        \* ambient_report_rx
    latestAmbient,  \* the client's latest_ambient_value: a value or none
    client,         \* run_session_client: "away", "replay", "subscribe" or "serve"
    registered,     \* the root daemon knows the client's connection
    ownerGone,      \* NameOwnerChanged is on its way to the client
    rootAmbient,    \* ambient_light_enabled of the root daemon
    missed,         \* history: the task was not told of the present setting
    unaware         \* history: the root was restarted just before the client
                    \* subscribed to changes of its owner

ambientVars == <<setting, reader, lines, reports, latestAmbient, client,
                 registered, ownerGone, rootAmbient, missed, unaware>>

None == {}
Some(v) == {v}

AmbientTypeOK ==
    /\ setting \in BOOLEAN
    /\ reader \in {"read", "start", "follow"}
    /\ lines \in Seq(BOOLEAN)
    /\ reports \in Seq(BOOLEAN) /\ Len(reports) <= ReportCap
    /\ latestAmbient \in {None, {TRUE}, {FALSE}}
    /\ client \in {"away", "replay", "subscribe", "serve"}
    /\ registered \in BOOLEAN /\ ownerGone \in BOOLEAN
    /\ rootAmbient \in BOOLEAN
    /\ missed \in BOOLEAN /\ unaware \in BOOLEAN

AmbientInit ==
    /\ setting \in BOOLEAN /\ rootAmbient \in BOOLEAN
    /\ reader = "read" /\ lines = <<>> /\ reports = <<>>
    /\ latestAmbient = None
    /\ client = "away" /\ registered = FALSE /\ ownerGone = FALSE
    /\ missed = FALSE /\ unaware = FALSE

-----------------------------------------------------------------------------
(* The user, and the task of session/ambient.rs. *)
SettingChanges ==
    /\ Len(lines) < MaxLines
    /\ setting' = ~setting
    /\ lines' = IF reader = "follow" THEN Append(lines, ~setting) ELSE lines
    /\ missed' = (reader = "start")
    /\ UNCHANGED <<reader, reports, latestAmbient, client, registered,
                   ownerGone, rootAmbient, unaware>>

(* read_ambient_enabled, which may fail; nothing is reported then. *)
ReadSetting ==
    /\ reader = "read"
    /\ reader' = "start"
    /\ \/ /\ Len(reports) < ReportCap
          /\ reports' = Append(reports, setting)
          /\ UNCHANGED missed
       \/ missed' = TRUE /\ UNCHANGED reports
    /\ UNCHANGED <<setting, lines, latestAmbient, client, registered,
                   ownerGone, rootAmbient, unaware>>

MonitorStarts ==
    /\ reader = "start"
    /\ reader' = "follow"
    /\ UNCHANGED <<setting, lines, reports, latestAmbient, client, registered,
                   ownerGone, rootAmbient, missed, unaware>>

(* The monitor ends, or its output cannot be read. *)
MonitorEnds ==
    /\ reader = "follow"
    /\ reader' = "start"
    /\ lines' = <<>>
    /\ missed' = (missed \/ lines # <<>>)
    /\ UNCHANGED <<setting, reports, latestAmbient, client, registered,
                   ownerGone, rootAmbient, unaware>>

(* The send waits while the channel is full. *)
ReadLine ==
    /\ reader = "follow"
    /\ lines # <<>> /\ Len(reports) < ReportCap
    /\ lines' = Tail(lines)
    /\ reports' = Append(reports, Head(lines))
    /\ UNCHANGED <<setting, reader, latestAmbient, client, registered,
                   ownerGone, rootAmbient, missed, unaware>>

-----------------------------------------------------------------------------
(* run_session_client. *)

(* coalesce_latest_ambient_value *)
Coalesced(kept, queue) ==
    IF queue = <<>> THEN kept ELSE Some(queue[Len(queue)])

(* It connects and registers, and publishes the connection. *)
Registers ==
    /\ client = "away"
    /\ client' = "replay"
    /\ registered' = TRUE /\ ownerGone' = FALSE
    /\ latestAmbient' = Coalesced(latestAmbient, reports)
    /\ reports' = <<>>
    /\ unaware' = FALSE
    /\ UNCHANGED <<setting, reader, lines, rootAmbient, missed>>

(* The root daemon takes the report of a registered owner only.  The answer *)
(* may be lost after it has.                                                *)
Tell(v, ok) ==
    /\ rootAmbient' \in {rootAmbient} \cup (IF registered THEN {v} ELSE {})
    /\ ok => registered /\ rootAmbient' = v

(* The value is told again. *)
Replay ==
    /\ client = "replay"
    /\ \/ /\ latestAmbient = None
          /\ client' = "subscribe"
          /\ UNCHANGED rootAmbient
       \/ \E v \in latestAmbient, ok \in BOOLEAN :
             /\ Tell(v, ok)
             /\ client' = IF ok THEN "subscribe" ELSE "away"
    /\ UNCHANGED <<setting, reader, lines, reports, latestAmbient, registered,
                   ownerGone, missed, unaware>>

(* receive_name_owner_changed_with_args, and the loop begins. *)
Subscribes ==
    /\ client = "subscribe"
    /\ client' \in {"serve", "away"}
    /\ UNCHANGED <<setting, reader, lines, reports, latestAmbient, registered,
                   ownerGone, rootAmbient, missed, unaware>>

(* Fault: the value is kept only when the root daemon has taken it. *)
Forward_KeepsTaken ==
    /\ client = "serve" /\ reports # <<>>
    /\ reports' = Tail(reports)
    /\ \E ok \in BOOLEAN :
          /\ Tell(Head(reports), ok)
          /\ latestAmbient' = IF ok THEN Some(Head(reports)) ELSE latestAmbient
          /\ client' = IF ok THEN "serve" ELSE "away"
    /\ UNCHANGED <<setting, reader, lines, registered, ownerGone, missed, unaware>>

(* The loop receives a value: it is kept first, and then told. *)
Forward ==
    /\ client = "serve" /\ reports # <<>>
    /\ reports' = Tail(reports)
    /\ latestAmbient' = Some(Head(reports))
    /\ \E ok \in BOOLEAN :
          /\ Tell(Head(reports), ok)
          /\ client' = IF ok THEN "serve" ELSE "away"
    /\ UNCHANGED <<setting, reader, lines, registered, ownerGone, missed, unaware>>

(* The owner of the root's name is gone, a heartbeat or a stream fails. *)
Reconnects ==
    /\ client = "serve"
    /\ client' = "away"
    /\ UNCHANGED <<setting, reader, lines, reports, latestAmbient, registered,
                   ownerGone, rootAmbient, missed, unaware>>

(* The root daemon is restarted with the value of its file, which a save    *)
(* under way may or may not have reached.                                   *)
RootRestarts ==
    /\ registered' = FALSE /\ ownerGone' = (client = "serve")
    /\ rootAmbient' \in BOOLEAN
    /\ unaware' = (unaware \/ client = "subscribe")
    /\ UNCHANGED <<setting, reader, lines, reports, latestAmbient, client,
                   missed>>

(* The display task registers the connection again, to get a permit. *)
DisplayRegisters ==
    /\ client # "away" /\ ~registered
    /\ registered' = TRUE
    /\ UNCHANGED <<setting, reader, lines, reports, latestAmbient, client,
                   ownerGone, rootAmbient, missed, unaware>>

AmbientNext ==
    \/ SettingChanges \/ ReadSetting \/ MonitorStarts \/ MonitorEnds \/ ReadLine
    \/ Registers \/ Replay \/ Subscribes \/ Forward \/ Reconnects
    \/ RootRestarts \/ DisplayRegisters

AmbientSpec == AmbientInit /\ [][AmbientNext]_ambientVars

-----------------------------------------------------------------------------
(* With nothing on its way, the root daemon has GNOME's setting: across     *)
(* restarts of the root, failed reports, reconnects and registrations by    *)
(* the display task.  Excepted is a change that no monitor was there to     *)
(* print (missed), until the next change, and a restart of the root that    *)
(* the client could not see because it had not subscribed yet (unaware);    *)
(* its heartbeats succeed once the display task has registered again.       *)
RootHasSetting ==
    /\ client = "serve" /\ registered /\ ~ownerGone
    /\ reader # "read" /\ lines = <<>> /\ reports = <<>>
    /\ ~missed /\ ~unaware
    => rootAmbient = setting
=============================================================================
