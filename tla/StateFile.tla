----------------------------- MODULE StateFile -----------------------------
(***************************************************************************)
(* The settings that the root daemon keeps in display-state.json.          *)
(*                                                                         *)
(* They share one file.  A setter saves its own by reading the file,       *)
(* changing one entry and writing all of it back, with awaits in between;  *)
(* a mutex keeps the setters apart.  Some change the memory first and then *)
(* save, others save first.  A read or a write that fails goes unnoticed,  *)
(* and the daemon may die at any moment and starts again from the file.    *)
(*                                                                         *)
(* The display mode is saved like the primary panel.  The desired state of *)
(* the second panel is an entry of the same file, saved like the ambient   *)
(* setting; its whole path is in SecondaryDisplay.                         *)
(***************************************************************************)
EXTENDS Integers, Sequences

CONSTANTS
    Values,         \* of a setting
    Default,        \* what an entry that the file does not have stands for
    MaxSaving       \* bound: setters in with_display_state at a time

ASSUME SettingsAssumption == Default \in Values /\ MaxSaving \in Nat

VARIABLES
    memory,         \* the settings in InnerState
    file,           \* the settings in display-state.json
    saving,         \* setters in with_display_state, in the order they came
    parted          \* history: settings whose file and memory a fault may have parted

fileVars == <<memory, file, saving, parted>>

Settings == {"primary", "brightness", "ambient", "tablet"}

(* Memory is changed before the file; for the others it is after. *)
MemoryFirst == {"ambient", "tablet"}

Contents == [Settings -> Values]
NoContents == [s \in Settings |-> Default]

(* A setter with what it has read, if it has. *)
Setter == [setting : Settings, value : Values, read : SUBSET Contents]

FileTypeOK ==
    /\ memory \in Contents /\ file \in Contents
    /\ saving \in Seq(Setter)
    /\ parted \subseteq Settings

FileInit ==
    /\ file \in Contents
    /\ memory = file
    /\ saving = <<>>
    /\ parted = {}

-----------------------------------------------------------------------------
(* A setter is called: with_display_state, up to the lock.  The setters of  *)
(* the tablet mapping return early when the memory has the value.           *)
CallSetter(s, v) ==
    /\ Len(saving) < MaxSaving
    /\ s = "tablet" => memory[s] # v
    /\ memory' = IF s \in MemoryFirst THEN [memory EXCEPT ![s] = v] ELSE memory
    /\ saving' = Append(saving, [setting |-> s, value |-> v, read |-> {}])
    /\ UNCHANGED <<file, parted>>

(* Fault: the lock is not taken. *)
HasLock_Ignored(i) == i \in 1 .. Len(saving)

(* The mutex is fair. *)
HasLock(i) == i = 1

(* read_display_state_file_inner: a file that cannot be read is taken for   *)
(* one without entries. *)
ReadFile(i) ==
    /\ HasLock(i) /\ saving[i].read = {}
    /\ \/ saving' = [saving EXCEPT ![i].read = {file}] /\ UNCHANGED parted
       \/ saving' = [saving EXCEPT ![i].read = {NoContents}] /\ parted' = Settings
    /\ UNCHANGED <<memory, file>>

Remaining(i) == SubSeq(saving, 1, i - 1) \o SubSeq(saving, i + 1, Len(saving))

(* Fault: what the file had is not looked at. *)
ChangesMemory_Never(setter, before) == FALSE

(* After the file: set_display_brightness_value only if the file changed. *)
ChangesMemory(setter, before) ==
    /\ setter.setting \notin MemoryFirst
    /\ setter.setting = "brightness" => before["brightness"] # setter.value

(* write_display_state_file_atomically, unless nothing changed; the lock is *)
(* dropped and the setter goes on without another await.  The temporary     *)
(* file is renamed, so that a crash leaves the old file or the new one.     *)
SaveEnds(i) ==
    /\ HasLock(i)
    /\ \E before \in saving[i].read, written \in BOOLEAN :
          LET setter == saving[i]
              after == [before EXCEPT ![setter.setting] = setter.value]
          IN  /\ written => after # before
              /\ file' = IF written THEN after ELSE file
              /\ memory' = IF ChangesMemory(setter, before)
                           THEN [memory EXCEPT ![setter.setting] = setter.value]
                           ELSE memory
              /\ parted' = IF written THEN parted \ {setter.setting}
                           ELSE IF after # before THEN parted \cup {setter.setting}
                           ELSE parted
    /\ saving' = Remaining(i)

(* KeyboardStateManager::new, after a crash or a stop.  It writes the       *)
(* ambient setting that the file does not have, by a read of its own, and   *)
(* either read may have failed.                                             *)
StartAgain ==
    /\ saving' = <<>>
    /\ \/ memory' = file /\ file' = file /\ parted' = {}
       \/ /\ memory' \in {file, NoContents}
          /\ file' \in {file, [file EXCEPT !["ambient"] = Default], NoContents}
          /\ memory' = file /\ file["ambient"] # Default => file' = file
          /\ parted' = Settings

FileNext ==
    \/ \E s \in Settings, v \in Values : CallSetter(s, v)
    \/ \E i \in 1 .. Len(saving) : ReadFile(i) \/ SaveEnds(i)
    \/ StartAgain

FileSpec == FileInit /\ [][FileNext]_fileVars

-----------------------------------------------------------------------------
(* "Concurrent tasks cannot clobber fields" (state.rs:41): an entry of the  *)
(* file changes only to the value of the setter that has the lock, whichever *)
(* others have been called; one that could not read the file loses theirs.  *)
EntriesAreKept ==
    [][\A s \in Settings \ parted' : file'[s] # file[s] =>
          saving[1].setting = s /\ file'[s] = saving[1].value]_fileVars

(* However the setters overlap, in whichever order they change memory and   *)
(* file: a setting that no setter is saving has one value in both, unless   *)
(* an access to the file failed. *)
MemoryIsSaved ==
    \A s \in Settings \ parted :
        (\A i \in 1 .. Len(saving) : saving[i].setting # s) => memory[s] = file[s]
=============================================================================
