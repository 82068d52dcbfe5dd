----------------------------- MODULE MicMuteLed -----------------------------
(***************************************************************************)
(* The microphone-mute LED of the keyboard.                                *)
(*                                                                         *)
(* Two threads of their own, beside the thread of the tokio executor,      *)
(* watch whether PulseAudio's default source is muted: one polls it every  *)
(* 250 ms, the other listens for changes.  Each asks PulseAudio first and  *)
(* calls set_mic_mute_led with the answer later, so their calls may come   *)
(* in any order.  The mute key does the same from the executor's thread.   *)
(* set_mic_mute_led sends Event::MicMuteLed under the lock of the state;   *)
(* suspend_end does not: it reads the LED's state, releases the lock, and  *)
(* only then sends what it read.                                           *)
(*                                                                         *)
(* The receiver is the control task of the connected keyboard, as in       *)
(* KeyboardBacklight.  `led' is the state last sent to the keyboard.       *)
(***************************************************************************)
EXTENDS Integers, Sequences

CONSTANTS
    EventCap,       \* slots of the channel (64 in main.rs)
    SocketLost      \* whether PulseAudio's socket may fail the listener

ASSUME EventCapAssumption == EventCap \in Nat \ {0}
ASSUME SocketAssumption == SocketLost \in BOOLEAN

VARIABLES
    source,         \* PulseAudio: the default source is muted
    mute,           \* InnerState.mic_mute_led
    suspended,      \* InnerState.is_suspended
    heard,          \* what each watching thread was answered, and has not set
    main,           \* what the executor's thread is in the middle of
    leds,           \* Event::MicMuteLed values the control task has not received
    link,           \* the keyboard's control task
    led             \* the state last sent to the keyboard

vars == <<source, mute, suspended, heard, main, leds, link, led>>
linkVars == <<link, led>>

Threads == {"poll", "listen"}
Nothing == [pc |-> "free", val |-> FALSE]
Answer(v) == [pc |-> "set", val |-> v]

TypeOK ==
    /\ source \in BOOLEAN /\ mute \in BOOLEAN /\ suspended \in BOOLEAN
    /\ heard \in [Threads -> [pc : {"free", "set"}, val : BOOLEAN]]
    /\ main \in [pc : {"free", "set", "read", "send"}, val : BOOLEAN]
    /\ leds \in Seq(BOOLEAN) /\ Len(leds) <= EventCap
    /\ link \in {"off", "setup", "on"}
    /\ led \in BOOLEAN

Init ==
    /\ source \in BOOLEAN
    /\ mute = FALSE /\ suspended = FALSE
    /\ heard = [t \in Threads |-> Nothing]
    /\ main = Nothing
    /\ leds = <<>>
    /\ link = "off" /\ led = FALSE

-----------------------------------------------------------------------------
(* Fault: nothing is overwritten. *)
Push_Unbounded(q, v) == Append(q, v)

Push(q, v) == Append(IF Len(q) < EventCap THEN q ELSE Tail(q), v)
Send(v) == leds' = IF link = "off" THEN leds ELSE Push(leds, v)

(* get_mic_mute_led *)
Shown == mute /\ ~suspended

(* Fault: the LED is told only of changes. *)
SetMicMuteLed_OnChange(v) ==
    /\ mute' = v
    /\ IF suspended \/ mute = v THEN UNCHANGED leds ELSE Send(v)

(* Fault: the state of suspension is not consulted. *)
SetMicMuteLed_Always(v) == mute' = v /\ Send(v)

(* set_mic_mute_led: the send is inside the lock. *)
SetMicMuteLed(v) ==
    /\ mute' = v
    /\ IF suspended THEN UNCHANGED leds ELSE Send(v)

-----------------------------------------------------------------------------
(* The two threads of mute_state.rs. *)
AskSource(t) ==
    /\ heard[t].pc = "free"
    /\ heard' = [heard EXCEPT ![t] = Answer(source)]
    /\ UNCHANGED <<source, mute, suspended, main, leds, linkVars>>

TellState(t) ==
    /\ heard[t].pc = "set"
    /\ SetMicMuteLed(heard[t].val)
    /\ heard' = [heard EXCEPT ![t] = Nothing]
    /\ UNCHANGED <<source, suspended, main, linkVars>>

(* listen_mute_state returned: the listener reports "not muted". *)
ListenerFails ==
    /\ SocketLost
    /\ SetMicMuteLed(FALSE)
    /\ heard' = [heard EXCEPT !["listen"] = Nothing]
    /\ UNCHANGED <<source, suspended, main, linkVars>>

-----------------------------------------------------------------------------
(* The thread of the executor: each of these runs without an await, but    *)
(* the two threads above run beside it.                                    *)

(* The mute key: toggle_default_source_mute, then set_mic_mute_led. *)
MuteKey ==
    /\ main.pc = "free"
    /\ source' = ~source
    /\ main' = Answer(~source)
    /\ UNCHANGED <<mute, suspended, heard, leds, linkVars>>

MuteKeySets ==
    /\ main.pc = "set"
    /\ SetMicMuteLed(main.val)
    /\ main' = Nothing
    /\ UNCHANGED <<source, suspended, heard, linkVars>>

(* While it is suspended nobody else sends, so the event may as well be *)
(* sent in the step that sets the flag. *)
SuspendStart ==
    /\ main.pc = "free"
    /\ suspended' = TRUE
    /\ Send(FALSE)
    /\ UNCHANGED <<source, mute, heard, main, linkVars>>

SuspendEnd ==
    /\ main.pc = "free"
    /\ suspended' = FALSE
    /\ main' = [pc |-> "read", val |-> FALSE]
    /\ UNCHANGED <<source, mute, heard, leds, linkVars>>

ResumeReads ==
    /\ main.pc = "read"
    /\ main' = [pc |-> "send", val |-> Shown]
    /\ UNCHANGED <<source, mute, suspended, heard, leds, linkVars>>

ResumeSends ==
    /\ main.pc = "send"
    /\ Send(main.val)
    /\ main' = Nothing
    /\ UNCHANGED <<source, mute, suspended, heard, linkVars>>

-----------------------------------------------------------------------------
(* start_usb_keyboard_task and the GATT control task.  The receiver exists *)
(* before the state is read, so nothing set in between is missed.          *)
KeyboardConnects ==
    /\ main.pc = "free" /\ link = "off"
    /\ link' = "setup"
    /\ led' \in BOOLEAN
    /\ UNCHANGED <<source, mute, suspended, heard, main, leds>>

RestoreLed ==
    /\ main.pc = "free" /\ link = "setup"
    /\ link' = "on"
    /\ led' = Shown
    /\ UNCHANGED <<source, mute, suspended, heard, main, leds>>

FollowEvent ==
    /\ main.pc = "free" /\ link = "on" /\ leds # <<>>
    /\ led' = Head(leds)
    /\ leds' = Tail(leds)
    /\ UNCHANGED <<source, mute, suspended, heard, main, link>>

KeyboardLeaves ==
    /\ main.pc = "free" /\ link # "off"
    /\ link' = "off" /\ led' = FALSE
    /\ leds' = <<>>
    /\ UNCHANGED <<source, mute, suspended, heard, main>>

(* The user mutes the source elsewhere. *)
SourceChanges ==
    /\ source' = ~source
    /\ UNCHANGED <<mute, suspended, heard, main, leds, linkVars>>

-----------------------------------------------------------------------------
ThreadStep(t) == AskSource(t) \/ TellState(t)
MainFinishes == MuteKeySets \/ ResumeReads \/ ResumeSends
ControlTaskStep == RestoreLed \/ FollowEvent
EnvironmentStep ==
    \/ MuteKey \/ SuspendStart \/ SuspendEnd \/ KeyboardConnects
    \/ KeyboardLeaves \/ SourceChanges \/ ListenerFails

Next ==
    \/ \E t \in Threads : ThreadStep(t)
    \/ MainFinishes \/ ControlTaskStep \/ EnvironmentStep

Spec == Init /\ [][Next]_vars

(* Threads are scheduled and the executor polls the control task.  The     *)
(* control task takes a few milliseconds per event and the threads call    *)
(* a few times a second, so it also catches up with them again and again.  *)
Fairness ==
    /\ \A t \in Threads : WF_vars(ThreadStep(t))
    /\ WF_vars(MainFinishes) /\ SF_vars(ControlTaskStep)

FairSpec == Spec /\ Fairness

-----------------------------------------------------------------------------
(* state.rs:252: "when suspended, both backlight and mic mute led are      *)
(* disabled": no answer a thread was holding, and no event sent by the     *)
(* resume before, lights the LED of a suspended machine that has caught    *)
(* up.                                                                     *)
SuspendedLedIsDark == suspended /\ link = "on" /\ leds = <<>> => ~led

(* A resume that reads the LED's state before a thread changes it and      *)
(* sends it after does no lasting harm: once the source, the suspensions   *)
(* and the keyboard are left alone, the LED shows the source.              *)
CalmStep ==
    /\ source' = source /\ suspended' = suspended /\ link' = link
    /\ ~ListenerFails
LedShowsSource ==
    <>[][CalmStep]_vars /\ <>[](link = "on") /\ <>[]~suspended
        => <>[](led = source)
=============================================================================
