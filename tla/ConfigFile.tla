----------------------------- MODULE ConfigFile -----------------------------
(***************************************************************************)
(* The options of config.toml that can be changed while the root daemon    *)
(* runs: the idle timeout, the backlight floor in the dark and the battery *)
(* thresholds.                                                             *)
(*                                                                         *)
(* Every call runs in a task of its own: it reads the file, puts its       *)
(* option in, writes the whole file and then changes the memory.  No lock  *)
(* keeps the calls apart and the file is written in place, so that calls   *)
(* may overlap, a write may fail halfway and the daemon may die in it.     *)
(* A text that cannot be parsed ends the daemon that reads it, and keeps   *)
(* it from starting until it is installed again.                           *)
(***************************************************************************)
EXTENDS Integers

CONSTANTS
    Options,        \* the options
    Choices,        \* the values of an option
    Shipped,        \* the one in the default configuration
    Persists        \* bound: the calls that may be in progress together

ASSUME ConfigAssumption == Shipped \in Choices

VARIABLES
    running,        \* the root daemon is up
    config,         \* the file: the set of its contents, empty if it cannot be parsed
    options,        \* the options in the daemon's memory
    persist,        \* the calls
    doubtful        \* history: options whose last call overlapped another or failed

configVars == <<running, config, options, persist, doubtful>>

Texts == [Options -> Choices]
AsShipped == [o \in Options |-> Shipped]
Free == [step |-> "free"]

(* A call: its option and value, what it has read, how far it has come and, *)
(* for the history, whether no other has been in progress with it.          *)
Call == [option : Options, choice : Choices, copy : Texts, alone : BOOLEAN,
         step : {"read", "truncated", "written"}]

Busy == {p \in Persists : persist[p] # Free}
At(p, step) == persist[p].step = step

ConfigTypeOK ==
    /\ running \in BOOLEAN
    /\ config \in SUBSET Texts
    /\ options \in Texts
    /\ persist \in [Persists -> Call \cup {Free}]
    /\ doubtful \subseteq Options

ConfigInit ==
    /\ running = TRUE
    /\ options \in Texts
    /\ config = {options}
    /\ persist = [p \in Persists |-> Free]
    /\ doubtful = {}

-----------------------------------------------------------------------------
(* A call begins: Config::read. *)
PersistReads(p, o, v) ==
    /\ running /\ persist[p] = Free
    /\ \E text \in config :
          persist' = [q \in Persists |->
              IF q = p
              THEN [option |-> o, choice |-> v, copy |-> text,
                    alone |-> Busy = {}, step |-> "read"]
              ELSE IF q \in Busy THEN [persist[q] EXCEPT !.alone = FALSE]
              ELSE Free]
    /\ UNCHANGED <<running, config, options, doubtful>>

(* fs::write opens the file, which empties it.  If it cannot, the call      *)
(* fails and nothing has changed.                                           *)
PersistTruncates(p) ==
    /\ At(p, "read")
    /\ \/ config' = {} /\ persist' = [persist EXCEPT ![p].step = "truncated"]
       \/ UNCHANGED config /\ persist' = [persist EXCEPT ![p] = Free]
    /\ UNCHANGED <<running, options, doubtful>>

(* The file that was read, with the option put in. *)
NewText(call) == [call.copy EXCEPT ![call.option] = call.choice]

(* Fault: the write is taken for granted. *)
PersistWrites_Unchecked(p) ==
    /\ At(p, "truncated")
    /\ \/ config' = {NewText(persist[p])}
       \/ config' = {}
    /\ persist' = [persist EXCEPT ![p].step = "written"]
    /\ UNCHANGED <<running, options, doubtful>>

(* The rest of fs::write.  A text put over another that was written         *)
(* meanwhile may leave the end of that one; a failure leaves a part, and    *)
(* the memory as it was.                                                    *)
PersistWrites(p) ==
    /\ At(p, "truncated")
    /\ \/ /\ config' = {NewText(persist[p])}
          /\ persist' = [persist EXCEPT ![p].step = "written"]
          /\ UNCHANGED doubtful
       \/ /\ config # {} /\ config' = {}
          /\ persist' = [persist EXCEPT ![p].step = "written"]
          /\ doubtful' = Options
       \/ /\ config' = {}
          /\ persist' = [persist EXCEPT ![p] = Free]
          /\ doubtful' = Options
    /\ UNCHANGED <<running, options>>

(* The memory takes the option. *)
PersistApplies(p) ==
    /\ At(p, "written")
    /\ options' = [options EXCEPT ![persist[p].option] = persist[p].choice]
    /\ persist' = [persist EXCEPT ![p] = Free]
    /\ doubtful' = IF persist[p].alone THEN doubtful \ {persist[p].option}
                   ELSE doubtful \cup {persist[p].option}
    /\ UNCHANGED <<running, config>>

(* The daemon ends: at a call that cannot read the file or parse it, by the *)
(* panic hook; or for any other reason at any moment.  Its memory is gone.  *)
DaemonEnds ==
    /\ running
    /\ running' = FALSE
    /\ persist' = [p \in Persists |-> Free]
    /\ options' = AsShipped
    /\ doubtful' = {}
    /\ UNCHANGED config

(* run_daemon: only with a file that it can parse. *)
DaemonStarts ==
    /\ ~running
    /\ \E text \in config : options' = text
    /\ running' = TRUE
    /\ UNCHANGED <<config, persist, doubtful>>

(* The installer stops the daemon and has it migrate the file. *)
MigrateConfig ==
    /\ ~running /\ config = {}
    /\ config' = {AsShipped}
    /\ UNCHANGED <<running, options, persist, doubtful>>

ConfigNext ==
    \/ \E p \in Persists :
          \/ \E o \in Options, v \in Choices : PersistReads(p, o, v)
          \/ PersistTruncates(p) \/ PersistWrites(p) \/ PersistApplies(p)
    \/ DaemonEnds \/ DaemonStarts \/ MigrateConfig

ConfigSpec == ConfigInit /\ [][ConfigNext]_configVars

-----------------------------------------------------------------------------
(* An option that no call is changing has one value in the daemon and in    *)
(* the file, and will have it after a restart, unless its last call         *)
(* overlapped another or some write failed; and the file can be parsed but  *)
(* for the moment in which a call has emptied it. *)
ConfigIsKept ==
    running =>
        \/ \E p \in Persists : At(p, "truncated")
        \/ \A o \in Options \ doubtful :
              (\A p \in Busy : persist[p].option # o) =>
                  \E text \in config : text[o] = options[o]
=============================================================================
