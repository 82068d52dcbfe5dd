------------------------- MODULE BluetoothSessions -------------------------
(***************************************************************************)
(* The keyboards on Bluetooth.                                             *)
(*                                                                         *)
(* A keyboard shows up as several input nodes, and every one gets a reader *)
(* of its own, because the Fn keys may arrive on any of them.  The readers *)
(* of one keyboard share a session under its address: the first node to be *)
(* registered counts it as connected, and the first reader that finds its  *)
(* node gone takes the whole session down and aborts the others.  Nodes    *)
(* come and go while the monitor waits for one to settle, and a reader     *)
(* notices late that its node is gone.                                     *)
(*                                                                         *)
(* Left out: the GATT task, which follows its session, and reads that fail *)
(* for another reason, which are repeated.                                 *)
(***************************************************************************)
EXTENDS Integers, FiniteSets

CONSTANTS
    Keyboards,      \* Bluetooth addresses
    Nodes           \* paths of input nodes

ASSUME BluetoothAssumption == IsFiniteSet(Keyboards) /\ IsFiniteSet(Nodes)

VARIABLES
    present,        \* nodes in /dev/input
    scanned,        \* the first scan is over and inotify watches
    created,        \* nodes listed or reported, and not taken yet
    probe,          \* what try_start_bt_keyboard_task is at
    claims,         \* BtVendorHotkeyReaders.paths, by session
    readers,        \* the readers that run, by session
    lost,           \* readers whose node is gone
    btCount         \* bt_connected_count

btVars == <<present, scanned, created, probe, claims, readers, lost, btCount>>

(* dedupe_key: the address, or the path when sysfs does not give it.  The   *)
(* kernel may give the path of a node that is gone to another keyboard.     *)
Keys == Keyboards \cup Nodes
KeysOf(node) == Keyboards \cup {node}
Links == {l \in Nodes \X Keys : l[2] \in KeysOf(l[1])}

Of(links, key) == {l \in links : l[2] = key}
Sessions == {key \in Keys : Of(claims, key) # {}}

Idle == [pc |-> "idle"]
Probes == {Idle}
    \cup [pc : {"settle"}, node : Nodes]
    \cup [pc : {"opened"}, link : Links, lost : BOOLEAN]

BtTypeOK ==
    /\ present \subseteq Nodes /\ created \subseteq Nodes
    /\ scanned \in BOOLEAN
    /\ probe \in Probes
    /\ claims \subseteq Links /\ readers \subseteq Links /\ lost \subseteq readers
    /\ btCount \in Nat

BtInit ==
    /\ present \in SUBSET Nodes
    /\ created = present
    /\ scanned = FALSE
    /\ probe = Idle
    /\ claims = {} /\ readers = {} /\ lost = {}
    /\ btCount = 0

-----------------------------------------------------------------------------
(* The kernel.  The scan may or may not list a node that appears meanwhile. *)
Appear(node) ==
    /\ node \notin present
    /\ present' = present \cup {node}
    /\ \/ created' = created \cup {node}
       \/ ~scanned /\ UNCHANGED created
    /\ UNCHANGED <<scanned, probe, claims, readers, lost, btCount>>

Vanish(node) ==
    /\ node \in present
    /\ present' = present \ {node}
    /\ lost' = lost \cup {l \in readers : l[1] = node}
    /\ probe' = IF probe.pc = "opened" /\ probe.link[1] = node
                THEN [probe EXCEPT !.lost = TRUE]
                ELSE probe
    /\ UNCHANGED <<scanned, created, claims, readers, btCount>>

-----------------------------------------------------------------------------
(* The monitor: one node at a time, in an order of the kernel's choosing.  *)
ScanEnds ==
    /\ ~scanned /\ probe.pc = "idle" /\ created = {}
    /\ scanned' = TRUE
    /\ UNCHANGED <<present, created, probe, claims, readers, lost, btCount>>

(* try_start_bt_keyboard_task: the node is opened, looked at, closed, and *)
(* given 280 ms; one that is gone or is no vendor channel is skipped.     *)
Take(node) ==
    /\ probe.pc = "idle" /\ node \in created
    /\ created' = created \ {node}
    /\ probe' \in {Idle} \cup (IF node \in present
                               THEN {[pc |-> "settle", node |-> node]}
                               ELSE {})
    /\ UNCHANGED <<present, scanned, claims, readers, lost, btCount>>

(* It is opened again and its key is looked up. *)
Reopen ==
    /\ probe.pc = "settle"
    /\ \/ probe' = Idle
       \/ /\ probe.node \in present
          /\ \E key \in KeysOf(probe.node) :
                probe' = [pc |-> "opened", link |-> <<probe.node, key>>,
                          lost |-> FALSE]
    /\ UNCHANGED <<present, scanned, created, claims, readers, lost, btCount>>

(* Fault: every node counts as a connection. *)
Register_EachNode ==
    /\ probe.pc = "opened" /\ probe.link \notin claims
    /\ claims' = claims \cup {probe.link}
    /\ readers' = readers \cup {probe.link}
    /\ lost' = IF probe.lost THEN lost \cup {probe.link} ELSE lost
    /\ btCount' = btCount + 1
    /\ probe' = Idle
    /\ UNCHANGED <<present, scanned, created>>

(* The path enters its session and its reader is spawned, under the lock of *)
(* the map; bluetooth_connection_started follows without an await.          *)
Register ==
    /\ probe.pc = "opened" /\ probe.link \notin claims
    /\ claims' = claims \cup {probe.link}
    /\ readers' = readers \cup {probe.link}
    /\ lost' = IF probe.lost THEN lost \cup {probe.link} ELSE lost
    /\ btCount' = IF Of(claims, probe.link[2]) = {} THEN btCount + 1 ELSE btCount
    /\ probe' = Idle
    /\ UNCHANGED <<present, scanned, created>>

(* The path is still listed after eight tries. *)
GiveUp ==
    /\ probe.pc = "opened" /\ probe.link \in claims
    /\ probe' = Idle
    /\ UNCHANGED <<present, scanned, created, claims, readers, lost, btCount>>

(* Fault: only the path of this reader leaves; nothing is counted off. *)
ReaderEnds_KeepsSession(link) ==
    /\ link \in lost
    /\ readers' = readers \ {link} /\ lost' = lost \ {link}
    /\ claims' = claims \ {link}
    /\ UNCHANGED <<present, scanned, created, probe, btCount>>

(* ENODEV: the session is removed and its other readers are aborted;        *)
(* bluetooth_connection_stopped, only if there was one.                     *)
ReaderEnds(link) ==
    /\ link \in lost
    /\ IF Of(claims, link[2]) = {}
       THEN /\ readers' = readers \ {link} /\ lost' = lost \ {link}
            /\ UNCHANGED <<claims, btCount>>
       ELSE /\ claims' = claims \ Of(claims, link[2])
            /\ readers' = readers \ (Of(claims, link[2]) \cup {link})
            /\ lost' = lost \ (Of(claims, link[2]) \cup {link})
            /\ btCount' = IF btCount = 0 THEN 0 ELSE btCount - 1
    /\ UNCHANGED <<present, scanned, created, probe>>

-----------------------------------------------------------------------------
BtMonitor ==
    \/ ScanEnds \/ Reopen \/ Register \/ GiveUp
    \/ \E node \in Nodes : Take(node)

BtNext ==
    \/ \E node \in Nodes : Appear(node) \/ Vanish(node)
    \/ BtMonitor
    \/ \E link \in Links : ReaderEnds(link)

BtSpec == BtInit /\ [][BtNext]_btVars

-----------------------------------------------------------------------------
(* However registrations, late ENODEVs and aborts were interleaved: a       *)
(* keyboard counts once for all its nodes, and the claims are exactly the   *)
(* readers that run, so that no reader takes down a later session and none  *)
(* is left without one. *)
SessionsAreCounted ==
    /\ btCount = Cardinality(Sessions)
    /\ claims = readers

(* A keyboard that is gone for good is counted off.                         *)
GoneIsCountedOff == (present = {}) ~> (present # {} \/ btCount = 0)
=============================================================================
