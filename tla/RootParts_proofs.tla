-------------------------- MODULE RootParts_proofs --------------------------
(***************************************************************************)
(* Proofs about four parts of the root daemon that share no variable, for  *)
(* all values of their constants: the microphone-mute LED, the settings    *)
(* file, the configuration file and the ambient light.                     *)
(***************************************************************************)
EXTENDS MicMuteLed, StateFile, ConfigFile, AmbientLight,
        SequenceTheorems, TLAPS

USE EventCapAssumption

LEMMA PushProperties ==
  ASSUME NEW q \in Seq(BOOLEAN), Len(q) <= EventCap, NEW v \in BOOLEAN
  PROVE  /\ Push(q, v) \in Seq(BOOLEAN) /\ Len(Push(q, v)) <= EventCap
         /\ Push(q, v) # <<>> /\ Push(q, v)[Len(Push(q, v))] = v
<1>1. CASE Len(q) < EventCap
  <2>1. Push(q, v) = Append(q, v) /\ Len(q) + 1 <= EventCap /\ Len(q) \in Nat
    BY <1>1 DEF Push
  <2> QED
    BY <2>1, AppendProperties, EmptySeq
<1>2. CASE ~(Len(q) < EventCap)
  <2>1. /\ Tail(q) \in Seq(BOOLEAN) /\ Len(Tail(q)) = Len(q) - 1
        /\ Len(q) = EventCap
    BY <1>2, EmptySeq, HeadTailProperties
  <2>2. Push(q, v) = Append(Tail(q), v)
    BY <1>2 DEF Push
  <2> QED
    BY <2>1, <2>2, AppendProperties, EmptySeq
<1> QED
  BY <1>1, <1>2

LEMMA TailProperties ==
  ASSUME NEW q \in Seq(BOOLEAN), q # <<>>
  PROVE  /\ Head(q) \in BOOLEAN /\ Head(q) = q[1]
         /\ Tail(q) \in Seq(BOOLEAN) /\ Len(Tail(q)) = Len(q) - 1
         /\ Tail(q) = <<>> => Len(q) = 1
         /\ Tail(q) # <<>> => Tail(q)[Len(Tail(q))] = q[Len(q)]
<1>1. /\ Head(q) \in BOOLEAN /\ Tail(q) \in Seq(BOOLEAN)
      /\ Len(Tail(q)) = Len(q) - 1 /\ Len(q) \in Nat \ {0}
      /\ \A i \in 1..Len(Tail(q)) : Tail(q)[i] = q[i+1]
  BY HeadTailProperties, EmptySeq
<1>2. Head(q) = q[1]
  OBVIOUS
<1>3. Tail(q) = <<>> => Len(q) = 1
  BY <1>1, EmptySeq
<1>4. ASSUME Tail(q) # <<>>
      PROVE  Tail(q)[Len(Tail(q))] = q[Len(q)]
  <2>1. Len(Tail(q)) \in 1..Len(Tail(q))
    BY <1>1, <1>4, EmptySeq
  <2> QED
    BY <1>1, <2>1
<1> QED
  BY <1>1, <1>2, <1>3, <1>4

-----------------------------------------------------------------------------
(* The type invariant in three parts, by the kind of value. *)
Flags ==
    source \in BOOLEAN /\ mute \in BOOLEAN /\ suspended \in BOOLEAN /\ led \in BOOLEAN
Queue == leds \in Seq(BOOLEAN) /\ Len(leds) <= EventCap
Tasks ==
    /\ heard \in [Threads -> [pc : {"free", "set"}, val : BOOLEAN]]
    /\ main \in [pc : {"free", "set", "read", "send"}, val : BOOLEAN]
    /\ link \in {"off", "setup", "on"}

LEMMA SendTyped ==
  ASSUME Queue, NEW v \in BOOLEAN, Send(v)
  PROVE  Queue'
  BY PushProperties DEF Queue, Send

LEMMA SetTyped ==
  ASSUME Queue, NEW v \in BOOLEAN, SetMicMuteLed(v)
  PROVE  Queue' /\ mute' \in BOOLEAN
<1>1. mute' \in BOOLEAN
  BY DEF SetMicMuteLed
<1>2. Queue'
  BY SendTyped DEF SetMicMuteLed, Queue
<1> QED
  BY <1>1, <1>2

LEMMA TypeStep == TypeOK /\ [Next]_vars => TypeOK'
<1> SUFFICES ASSUME TypeOK, [Next]_vars PROVE Flags' /\ Queue' /\ Tasks'
  BY DEF TypeOK, Flags, Queue, Tasks
<1> USE DEF linkVars
<1>0. Flags /\ Queue /\ Tasks
  BY DEF TypeOK, Flags, Queue, Tasks
<1>1. ASSUME NEW t \in Threads, AskSource(t)
      PROVE  Flags' /\ Queue' /\ Tasks'
  BY <1>0, <1>1 DEF AskSource, Flags, Queue, Tasks, Answer
<1>2. ASSUME NEW t \in Threads, TellState(t)
      PROVE  Flags' /\ Queue' /\ Tasks'
  <2>1. heard[t].val \in BOOLEAN
    BY <1>0 DEF Tasks
  <2>2. Queue' /\ mute' \in BOOLEAN
    BY <1>0, <1>2, <2>1, SetTyped DEF TellState
  <2>3. Nothing \in [pc : {"free", "set"}, val : BOOLEAN]
    BY DEF Nothing
  <2>4. Tasks'
    BY <1>0, <1>2, <2>3 DEF TellState, Tasks
  <2> QED
    BY <1>0, <1>2, <2>2, <2>4 DEF TellState, Flags
<1>3. CASE MainFinishes
  <2>1. main.val \in BOOLEAN /\ Shown \in BOOLEAN
    BY <1>0 DEF Tasks, Shown
  <2>2. Queue' /\ mute' \in BOOLEAN
    BY <1>0, <1>3, <2>1, SetTyped, SendTyped DEF MainFinishes, MuteKeySets,
       ResumeReads, ResumeSends, Flags, Queue
  <2>3. main' \in {Nothing, [pc |-> "send", val |-> Shown]} /\ UNCHANGED <<heard, link>>
    BY <1>3 DEF MainFinishes, MuteKeySets, ResumeReads, ResumeSends
  <2>4. Tasks'
    <3>1. Nothing \in [pc : {"free", "set", "read", "send"}, val : BOOLEAN]
      BY DEF Nothing
    <3>2. [pc |-> "send", val |-> Shown]
             \in [pc : {"free", "set", "read", "send"}, val : BOOLEAN]
      BY <2>1
    <3> QED
      BY <1>0, <2>3, <3>1, <3>2 DEF Tasks
  <2> QED
    BY <1>0, <1>3, <2>2, <2>4 DEF MainFinishes, MuteKeySets, ResumeReads,
       ResumeSends, Flags
<1>4. CASE ControlTaskStep
  <2>1. Shown \in BOOLEAN
    BY <1>0 DEF Shown
  <2>2. Queue' /\ led' \in BOOLEAN
    <3>1. CASE RestoreLed
      BY <1>0, <2>1, <3>1 DEF RestoreLed, Queue
    <3>2. CASE FollowEvent
      <4>1. leds # <<>> /\ leds' = Tail(leds) /\ led' = Head(leds)
        BY <3>2 DEF FollowEvent
      <4>2. /\ Head(leds) \in BOOLEAN /\ Tail(leds) \in Seq(BOOLEAN)
            /\ Len(Tail(leds)) = Len(leds) - 1 /\ Len(leds) \in Nat
        BY <1>0, <4>1, TailProperties DEF Queue
      <4> QED
        BY <1>0, <4>1, <4>2 DEF Queue
    <3> QED
      BY <1>4, <3>1, <3>2 DEF ControlTaskStep
  <2> QED
    BY <1>0, <1>4, <2>2 DEF ControlTaskStep, RestoreLed, FollowEvent, Flags, Tasks
<1>5. CASE MuteKey \/ SuspendStart \/ SuspendEnd \/ SourceChanges
  <2>1. Flags'
    BY <1>0, <1>5 DEF MuteKey, SuspendStart, SuspendEnd, SourceChanges, Flags
  <2>2. Queue'
    BY <1>0, <1>5, SendTyped DEF MuteKey, SuspendStart, SuspendEnd,
       SourceChanges, Queue
  <2>3. Tasks'
    <3>1. /\ main' \in {main, Answer(~source), [pc |-> "read", val |-> FALSE]}
          /\ UNCHANGED <<heard, link>>
      BY <1>5 DEF MuteKey, SuspendStart, SuspendEnd, SourceChanges
    <3>2. Answer(~source) \in [pc : {"free", "set", "read", "send"}, val : BOOLEAN]
      BY DEF Answer
    <3>3. [pc |-> "read", val |-> FALSE]
             \in [pc : {"free", "set", "read", "send"}, val : BOOLEAN]
      OBVIOUS
    <3> QED
      BY <1>0, <3>1, <3>2, <3>3 DEF Tasks
  <2> QED
    BY <2>1, <2>2, <2>3
<1>6. CASE KeyboardConnects \/ KeyboardLeaves
  <2>1. Queue'
    <3>1. leds' \in {leds, <<>>}
      BY <1>6 DEF KeyboardConnects, KeyboardLeaves
    <3>2. CASE leds' = leds
      BY <1>0, <3>2 DEF Queue
    <3>3. CASE leds' = <<>>
      BY <3>3, EmptySeq DEF Queue
    <3> QED
      BY <3>1, <3>2, <3>3
  <2> QED
    BY <1>0, <1>6, <2>1 DEF KeyboardConnects, KeyboardLeaves, Flags, Tasks
<1>7. CASE ListenerFails
  <2>1. Queue' /\ mute' \in BOOLEAN
    BY <1>0, <1>7, SetTyped DEF ListenerFails
  <2>2. Tasks'
    BY <1>0, <1>7 DEF ListenerFails, Tasks, Nothing, Threads
  <2> QED
    BY <1>0, <1>7, <2>1, <2>2 DEF ListenerFails, Flags
<1>8. CASE UNCHANGED vars
  BY <1>0, <1>8 DEF vars, Flags, Queue, Tasks
<1> QED
  BY <1>1, <1>2, <1>3, <1>4, <1>5, <1>6, <1>7, <1>8
     DEF Next, ThreadStep, EnvironmentStep

LEMMA TypeInitially == Init => TypeOK
<1> SUFFICES ASSUME Init PROVE Flags /\ Queue /\ Tasks
  BY DEF TypeOK, Flags, Queue, Tasks
<1>1. Flags
  BY DEF Init, Flags
<1>2. Queue
  BY EmptySeq DEF Init, Queue
<1>3. Tasks
  BY DEF Init, Tasks, Nothing
<1> QED
  BY <1>1, <1>2, <1>3

(* The state is well formed, and the channel never holds more than its     *)
(* capacity.                                                               *)
THEOREM TypeCorrect == Spec => []TypeOK
  BY TypeInitially, TypeStep, PTL DEF Spec

-----------------------------------------------------------------------------
(* A suspended machine: the newest thing the keyboard was told, or will be *)
(* once it is set up, is dark, nobody is about to send what it read before *)
(* the suspension, and no event outlives the keyboard it was sent to.      *)
DarkSuspension ==
    /\ suspended => main.pc \notin {"read", "send"}
    /\ link = "off" => leds = <<>>
    /\ suspended /\ leds # <<>> => leds[Len(leds)] = FALSE
    /\ suspended /\ link = "on" /\ leds = <<>> => led = FALSE

LEMMA DarkSuspensionImplies == DarkSuspension => SuspendedLedIsDark
  BY DEF DarkSuspension, SuspendedLedIsDark

LEMMA DarkStep == TypeOK /\ DarkSuspension /\ [Next]_vars => DarkSuspension'
<1> SUFFICES ASSUME TypeOK, DarkSuspension, [Next]_vars PROVE DarkSuspension'
  OBVIOUS
<1> USE DEF linkVars
<1>1. ASSUME NEW t \in Threads, AskSource(t)
      PROVE  DarkSuspension'
  BY <1>1 DEF AskSource, DarkSuspension
<1>2. ASSUME NEW v \in BOOLEAN, SetMicMuteLed(v),
             UNCHANGED <<suspended, linkVars>>,
             main' = main \/ main' = Nothing
      PROVE  DarkSuspension'
  <2>1. CASE suspended
    BY <1>2, <2>1 DEF SetMicMuteLed, DarkSuspension, Nothing
  <2>2. CASE ~suspended
    BY <1>2, <2>2 DEF SetMicMuteLed, Send, DarkSuspension
  <2> QED
    BY <2>1, <2>2
<1>3. ASSUME NEW t \in Threads, TellState(t)
      PROVE  DarkSuspension'
  <2>1. heard[t].val \in BOOLEAN
    BY DEF TypeOK
  <2> QED
    BY <1>2, <1>3, <2>1 DEF TellState
<1>4. CASE MuteKeySets \/ ListenerFails
  <2>1. main.val \in BOOLEAN
    BY DEF TypeOK
  <2> QED
    BY <1>2, <1>4, <2>1 DEF MuteKeySets, ListenerFails
<1>5. CASE ResumeReads \/ ResumeSends
  <2>1. ~suspended
    BY <1>5 DEF ResumeReads, ResumeSends, DarkSuspension
  <2> QED
    BY <1>5, <2>1 DEF ResumeReads, ResumeSends, Send, DarkSuspension
<1>6. CASE RestoreLed
  <2>1. suspended => Shown = FALSE
    BY DEF Shown
  <2> QED
    BY <1>6, <2>1 DEF RestoreLed, DarkSuspension
<1>7. CASE FollowEvent
  <2>1. /\ Tail(leds) = <<>> => Len(leds) = 1 /\ Head(leds) = leds[1]
        /\ Tail(leds) # <<>> => Tail(leds)[Len(Tail(leds))] = leds[Len(leds)]
    BY <1>7, TailProperties DEF FollowEvent, TypeOK
  <2> QED
    BY <1>7, <2>1 DEF FollowEvent, DarkSuspension
<1>8. CASE SuspendStart
  <2>1. link # "off" => leds' # <<>> /\ leds'[Len(leds')] = FALSE
    BY <1>8, PushProperties DEF SuspendStart, Send, TypeOK
  <2>2. link = "off" => leds' = leds
    BY <1>8 DEF SuspendStart, Send
  <2> QED
    BY <1>8, <2>1, <2>2 DEF SuspendStart, DarkSuspension
<1>9. CASE MuteKey \/ SuspendEnd \/ SourceChanges
  BY <1>9 DEF MuteKey, SuspendEnd, SourceChanges, Answer, DarkSuspension
<1>10. CASE KeyboardConnects \/ KeyboardLeaves
  BY <1>10 DEF KeyboardConnects, KeyboardLeaves, DarkSuspension
<1>11. CASE UNCHANGED vars
  BY <1>11 DEF vars, DarkSuspension
<1> QED
  BY <1>1, <1>3, <1>4, <1>5, <1>6, <1>7, <1>8, <1>9, <1>10, <1>11
     DEF Next, ThreadStep, MainFinishes, ControlTaskStep, EnvironmentStep

(* Whatever the two threads, the mute key and the resumes were about to    *)
(* send: the LED of a suspended machine that has caught up is dark.        *)
THEOREM SuspendedLedStaysDark == Spec => []SuspendedLedIsDark
<1>1. Init => DarkSuspension
  BY DEF Init, Nothing, DarkSuspension
<1> QED
  BY <1>1, TypeCorrect, DarkStep, DarkSuspensionImplies, PTL DEF Spec

-----------------------------------------------------------------------------
(* The configuration file.  A call that has been alone is the only one, and *)
(* nobody else has touched the file since it read it. *)
AloneIsAlone ==
    \A p \in Busy : persist[p].alone =>
        /\ Busy = {p}
        /\ At(p, "read") => config = {persist[p].copy}
        /\ At(p, "truncated") => config = {}
        /\ At(p, "written") => config = {NewText(persist[p])}

(* Without doubt the memory, the file and what every call has read agree,   *)
(* unless a call has written and not applied. *)
CopiesAgree ==
    \A o \in Options \ doubtful :
        (\A p \in Busy : persist[p].option = o => ~At(p, "written")) =>
            /\ \A text \in config : text[o] = options[o]
            /\ \A p \in Busy : persist[p].copy[o] = options[o]

ConfigInv ==
    /\ ConfigTypeOK
    /\ \A text1, text2 \in config : text1 = text2
    /\ ~running => Busy = {}
    /\ running /\ config = {} =>
          (\E p \in Persists : At(p, "truncated")) \/ doubtful = Options
    /\ AloneIsAlone
    /\ running => CopiesAgree

LEMMA ConfigInitially == ConfigInit => ConfigInv
<1> SUFFICES ASSUME ConfigInit PROVE ConfigInv
    OBVIOUS
<1>1. Busy = {}
    BY DEF ConfigInit, Busy
<1>2. running \in BOOLEAN
    BY Zenon DEF ConfigInit
<1> QED
    BY <1>1, <1>2 DEF ConfigInit, ConfigInv, ConfigTypeOK, AloneIsAlone, CopiesAgree

(* What a call that has come to a step is. *)
LEMMA CallAtStep ==
    ASSUME ConfigTypeOK, NEW p \in Persists, NEW step \in {"read", "truncated", "written"},
           At(p, step)
    PROVE  p \in Busy /\ persist[p] \in Call /\ persist[p].step = step
BY DEF ConfigTypeOK, At, Busy, Free, Call

LEMMA BusyIsCall ==
    ASSUME ConfigTypeOK, NEW p \in Busy
    PROVE  p \in Persists /\ persist[p] \in Call
BY DEF ConfigTypeOK, Busy

LEMMA PersistReadsKeeps ==
    ASSUME ConfigInv, NEW p \in Persists, NEW o \in Options, NEW v \in Choices,
           PersistReads(p, o, v)
    PROVE  ConfigInv'
<1>1. PICK text \in config :
          persist' = [q \in Persists |->
              IF q = p
              THEN [option |-> o, choice |-> v, copy |-> text,
                    alone |-> Busy = {}, step |-> "read"]
              ELSE IF q \in Busy THEN [persist[q] EXCEPT !.alone = FALSE]
              ELSE Free]
    BY DEF PersistReads
<1>2. /\ ConfigTypeOK /\ text \in Texts /\ (Busy = {}) \in BOOLEAN /\ p \notin Busy
      /\ UNCHANGED <<running, config, options, doubtful>> /\ running
    BY DEF ConfigInv, ConfigTypeOK, PersistReads, Busy
<1>3. \A q \in Busy : persist[q] \in Call /\ q \in Persists
    BY <1>2, BusyIsCall
<1>4. persist'[p] = [option |-> o, choice |-> v, copy |-> text,
                     alone |-> Busy = {}, step |-> "read"]
    BY <1>1
<1>5. \A q \in Busy : persist'[q] = [persist[q] EXCEPT !.alone = FALSE]
    BY <1>1, <1>2, <1>3
<1>6. Busy' = Busy \cup {p}
  <2>1. persist'[p] # Free
      BY <1>4 DEF Free
  <2>2. \A q \in Busy : persist'[q] # Free
      BY <1>3, <1>5 DEF Call, Free
  <2>3. \A q \in Persists : q # p /\ q \notin Busy => persist'[q] = Free
      BY <1>1
  <2> QED
      BY <2>1, <2>2, <2>3, <1>3 DEF Busy
<1>7. \A q \in Busy : /\ persist'[q] \in Call /\ persist'[q].alone = FALSE
                      /\ persist'[q].step = persist[q].step
                      /\ persist'[q].option = persist[q].option
                      /\ persist'[q].copy = persist[q].copy
    BY <1>3, <1>5 DEF Call
<1>8. persist'[p] \in Call
    BY <1>2, <1>4 DEF Call
<1>9. ConfigTypeOK'
  <2>1. \A q \in Persists : persist'[q] \in Call \cup {Free}
    <3> SUFFICES ASSUME NEW q \in Persists PROVE persist'[q] \in Call \cup {Free}
        OBVIOUS
    <3>1. CASE q = p
        BY <3>1, <1>8
    <3>2. CASE q \in Busy
        BY <3>2, <1>7
    <3>3. CASE q # p /\ q \notin Busy
        BY <3>3, <1>1
    <3> QED
        BY <3>1, <3>2, <3>3
  <2>2. persist' \in [Persists -> Call \cup {Free}]
      BY <1>1, <2>1
  <2> QED
      BY <1>2, <2>2 DEF ConfigTypeOK
<1>10. config' # {}
    BY <1>2
<1>11. AloneIsAlone'
  <2> SUFFICES ASSUME NEW q \in Busy', persist'[q].alone
               PROVE  /\ Busy' = {q}
                      /\ At(q, "read")' => config' = {persist'[q].copy}
                      /\ ~At(q, "truncated")' /\ ~At(q, "written")'
      BY DEF AloneIsAlone
  <2>1. q = p
      BY <1>6, <1>7
  <2>2. Busy = {}
    <3>1. persist'[p].alone
        BY <2>1
    <3>2. persist'[p].alone = (Busy = {})
        BY <1>4
    <3> QED
        BY <3>1, <3>2, Zenon
  <2>3. config = {text}
      BY <1>1 DEF ConfigInv
  <2> QED
      BY <2>1, <2>2, <2>3, <1>2, <1>4, <1>6 DEF At
<1>12. CopiesAgree'
  <2> SUFFICES ASSUME NEW o2 \in Options \ doubtful,
                      \A q \in Busy' : persist'[q].option = o2 => ~At(q, "written")'
               PROVE  /\ \A t \in config : t[o2] = options[o2]
                      /\ \A q \in Busy' : persist'[q].copy[o2] = options[o2]
      BY <1>2 DEF CopiesAgree
  <2>1. \A q \in Busy : persist[q].option = o2 => ~At(q, "written")
      BY <1>6, <1>7 DEF At
  <2>2. /\ \A t \in config : t[o2] = options[o2]
        /\ \A q \in Busy : persist[q].copy[o2] = options[o2]
      BY <1>2, <2>1 DEF ConfigInv, CopiesAgree
  <2> QED
      BY <2>2, <1>1, <1>4, <1>6, <1>7
<1> QED
    BY <1>2, <1>9, <1>10, <1>11, <1>12 DEF ConfigInv

(* A call goes on, or ends: the others stay as they are. *)
LEMMA OneCallSteps ==
    ASSUME ConfigTypeOK, NEW p \in Busy, NEW step \in {"truncated", "written"},
           persist' = [persist EXCEPT ![p].step = step]
    PROVE  /\ Busy' = Busy
           /\ persist' \in [Persists -> Call \cup {Free}]
           /\ persist'[p].step = step
           /\ \A q \in Persists : q # p => persist'[q] = persist[q]
           /\ \A q \in Busy : /\ persist'[q].alone = persist[q].alone
                              /\ persist'[q].option = persist[q].option
                              /\ persist'[q].copy = persist[q].copy
                              /\ persist'[q].choice = persist[q].choice
<1>1. p \in Persists /\ persist[p] \in Call
    BY BusyIsCall
<1>2. /\ persist'[p] = [persist[p] EXCEPT !.step = step]
      /\ \A q \in Persists : q # p => persist'[q] = persist[q]
    BY <1>1 DEF ConfigTypeOK
<1>3. /\ persist'[p] \in Call /\ persist'[p] # Free /\ persist'[p].step = step
      /\ persist'[p].alone = persist[p].alone /\ persist'[p].option = persist[p].option
      /\ persist'[p].copy = persist[p].copy /\ persist'[p].choice = persist[p].choice
    BY <1>1, <1>2 DEF Call, Free
<1>4. persist' \in [Persists -> Call \cup {Free}]
    BY <1>2, <1>3 DEF ConfigTypeOK
<1>5. Busy' = Busy
    BY <1>2, <1>3 DEF Busy
<1>6. \A q \in Busy : q \in Persists
    BY DEF Busy
<1> QED
    BY <1>2, <1>3, <1>4, <1>5, <1>6

LEMMA OneCallEnds ==
    ASSUME ConfigTypeOK, NEW p \in Busy, persist' = [persist EXCEPT ![p] = Free]
    PROVE  /\ Busy' = Busy \ {p}
           /\ persist' \in [Persists -> Call \cup {Free}]
           /\ \A q \in Persists : q # p => persist'[q] = persist[q]
<1>1. p \in Persists
    BY DEF Busy
<1>2. persist'[p] = Free /\ \A q \in Persists : q # p => persist'[q] = persist[q]
    BY <1>1 DEF ConfigTypeOK
<1>3. Busy' = Busy \ {p}
    BY <1>2 DEF Busy
<1> QED
    BY <1>2, <1>3 DEF ConfigTypeOK

LEMMA PersistTruncatesKeeps ==
    ASSUME ConfigInv, NEW p \in Persists, PersistTruncates(p)
    PROVE  ConfigInv'
<1>1. /\ ConfigTypeOK /\ p \in Busy /\ persist[p] \in Call /\ At(p, "read")
      /\ persist[p].step = "read" /\ UNCHANGED <<running, options, doubtful>>
    BY CallAtStep DEF ConfigInv, PersistTruncates
<1>2. running
    BY <1>1 DEF ConfigInv
<1>3. CASE config' = {} /\ persist' = [persist EXCEPT ![p].step = "truncated"]
  <2>1. /\ Busy' = Busy
        /\ persist' \in [Persists -> Call \cup {Free}]
        /\ persist'[p].step = "truncated"
        /\ \A q \in Persists : q # p => persist'[q] = persist[q]
        /\ \A q \in Busy : /\ persist'[q].alone = persist[q].alone
                           /\ persist'[q].option = persist[q].option
                           /\ persist'[q].copy = persist[q].copy
                           /\ persist'[q].choice = persist[q].choice
      BY <1>1, <1>3, OneCallSteps
  <2>2. ConfigTypeOK'
      BY <1>1, <1>3, <2>1 DEF ConfigTypeOK
  <2>3. At(p, "truncated")'
      BY <2>1 DEF At
  <2>4. AloneIsAlone'
    <3> SUFFICES ASSUME NEW q \in Busy, persist[q].alone
                 PROVE  /\ Busy = {q}
                        /\ ~At(q, "read")' /\ ~At(q, "written")'
        BY <1>3, <2>1 DEF AloneIsAlone
    <3>1. Busy = {q}
        BY DEF ConfigInv, AloneIsAlone
    <3> QED
        BY <3>1, <1>1, <2>1 DEF At
  <2>5. CopiesAgree'
    <3> SUFFICES ASSUME NEW o \in Options \ doubtful,
                        \A q \in Busy : persist'[q].option = o => ~At(q, "written")'
                 PROVE  \A q \in Busy : persist'[q].copy[o] = options[o]
        BY <1>1, <1>3, <2>1 DEF CopiesAgree
    <3>1. \A q \in Busy : persist[q].option = o => ~At(q, "written")
        BY <1>1, <2>1 DEF At, Busy
    <3> QED
        BY <1>2, <3>1, <2>1 DEF ConfigInv, CopiesAgree
  <2> QED
      BY <1>1, <1>2, <1>3, <2>2, <2>3, <2>4, <2>5 DEF ConfigInv
<1>4. CASE UNCHANGED config /\ persist' = [persist EXCEPT ![p] = Free]
  <2>1. /\ Busy' = Busy \ {p}
        /\ persist' \in [Persists -> Call \cup {Free}]
        /\ \A q \in Persists : q # p => persist'[q] = persist[q]
      BY <1>1, <1>4, OneCallEnds
  <2>2. ConfigTypeOK'
      BY <1>1, <1>4, <2>1 DEF ConfigTypeOK
  <2>3. \A q \in Busy' : q \in Busy /\ q \in Persists /\ persist'[q] = persist[q]
      BY <2>1 DEF Busy
  <2>4. AloneIsAlone'
    <3>1. \A q \in Busy' : ~persist[q].alone
        BY <1>1, <2>1, <2>3 DEF ConfigInv, AloneIsAlone
    <3> QED
        BY <3>1, <2>3 DEF AloneIsAlone
  <2>5. CopiesAgree'
    <3> SUFFICES ASSUME NEW o \in Options \ doubtful,
                        \A q \in Busy' : persist'[q].option = o => ~At(q, "written")'
                 PROVE  /\ \A text \in config : text[o] = options[o]
                        /\ \A q \in Busy' : persist'[q].copy[o] = options[o]
        BY <1>1, <1>4 DEF CopiesAgree
    <3>1. \A q \in Busy : persist[q].option = o => ~At(q, "written")
        BY <1>1, <2>1, <2>3 DEF At
    <3> QED
        BY <1>2, <3>1, <2>3 DEF ConfigInv, CopiesAgree
  <2>6. \A q \in Persists : At(q, "truncated") => At(q, "truncated")'
      BY <1>1, <2>1 DEF At
  <2> QED
      BY <1>1, <1>2, <1>4, <2>2, <2>4, <2>5, <2>6 DEF ConfigInv
<1> QED
    BY <1>3, <1>4 DEF PersistTruncates

LEMMA PersistWritesKeeps ==
    ASSUME ConfigInv, NEW p \in Persists, PersistWrites(p)
    PROVE  ConfigInv'
<1>1. /\ ConfigTypeOK /\ p \in Busy /\ persist[p] \in Call /\ At(p, "truncated")
      /\ persist[p].step = "truncated" /\ UNCHANGED <<running, options>>
    BY CallAtStep DEF ConfigInv, PersistWrites
<1>2. running
    BY <1>1 DEF ConfigInv
<1>3. NewText(persist[p]) \in Texts
    BY <1>1 DEF NewText, Call, Texts
<1>4. CASE /\ config' = {NewText(persist[p])}
           /\ persist' = [persist EXCEPT ![p].step = "written"]
           /\ UNCHANGED doubtful
  <2>1. /\ Busy' = Busy
        /\ persist' \in [Persists -> Call \cup {Free}]
        /\ persist'[p].step = "written"
        /\ \A q \in Persists : q # p => persist'[q] = persist[q]
        /\ \A q \in Busy : /\ persist'[q].alone = persist[q].alone
                           /\ persist'[q].option = persist[q].option
                           /\ persist'[q].copy = persist[q].copy
                           /\ persist'[q].choice = persist[q].choice
      BY <1>1, <1>4, OneCallSteps
  <2>2. ConfigTypeOK'
      BY <1>1, <1>3, <1>4, <2>1 DEF ConfigTypeOK
  <2>3. At(p, "written")'
      BY <2>1 DEF At
  <2>4. AloneIsAlone'
    <3> SUFFICES ASSUME NEW q \in Busy, persist[q].alone
                 PROVE  /\ Busy = {q}
                        /\ ~At(q, "read")' /\ ~At(q, "truncated")'
                        /\ config' = {NewText(persist'[q])}
        BY <2>1 DEF AloneIsAlone
    <3>1. Busy = {q} /\ q = p
        BY <1>1 DEF ConfigInv, AloneIsAlone
    <3> QED
        BY <3>1, <1>1, <1>4, <2>1 DEF At, NewText
  <2>5. CopiesAgree'
    <3> SUFFICES ASSUME NEW o \in Options \ doubtful,
                        \A q \in Busy : persist'[q].option = o => ~At(q, "written")'
                 PROVE  /\ NewText(persist[p])[o] = options[o]
                        /\ \A q \in Busy : persist'[q].copy[o] = options[o]
        BY <1>1, <1>4, <2>1 DEF CopiesAgree
    <3>1. \A q \in Busy : persist[q].option = o => ~At(q, "written")
        BY <1>1, <2>1 DEF At, Busy
    <3>2. \A q \in Busy : persist[q].copy[o] = options[o]
        BY <1>2, <3>1 DEF ConfigInv, CopiesAgree
    <3>3. persist[p].option # o
        BY <1>1, <2>1, <2>3
    <3> QED
        BY <3>2, <3>3, <1>1, <2>1 DEF NewText, Call, Texts
  <2> QED
      BY <1>1, <1>2, <1>4, <2>2, <2>4, <2>5 DEF ConfigInv
<1>5. ASSUME config' = {}, doubtful' = Options,
             \/ persist' = [persist EXCEPT ![p].step = "written"] /\ config # {}
             \/ persist' = [persist EXCEPT ![p] = Free]
      PROVE  ConfigInv'
  <2>1. CopiesAgree'
      BY <1>5 DEF CopiesAgree
  <2>2. ConfigTypeOK' /\ AloneIsAlone'
    <3>1. CASE persist' = [persist EXCEPT ![p].step = "written"] /\ config # {}
      <4>1. /\ Busy' = Busy
            /\ persist' \in [Persists -> Call \cup {Free}]
            /\ \A q \in Busy : persist'[q].alone = persist[q].alone
          BY <1>1, <3>1, OneCallSteps
      <4>2. \A q \in Busy : ~persist[q].alone
          BY <1>1, <3>1 DEF ConfigInv, AloneIsAlone
      <4> QED
          BY <1>1, <1>5, <4>1, <4>2 DEF ConfigTypeOK, AloneIsAlone
    <3>2. CASE persist' = [persist EXCEPT ![p] = Free]
      <4>1. /\ Busy' = Busy \ {p}
            /\ persist' \in [Persists -> Call \cup {Free}]
            /\ \A q \in Persists : q # p => persist'[q] = persist[q]
          BY <1>1, <3>2, OneCallEnds
      <4>2. \A q \in Busy' : ~persist'[q].alone
          BY <1>1, <4>1 DEF ConfigInv, AloneIsAlone, Busy
      <4> QED
          BY <1>1, <1>5, <4>1, <4>2 DEF ConfigTypeOK, AloneIsAlone
    <3> QED
        BY <1>5, <3>1, <3>2
  <2> QED
      BY <1>1, <1>2, <1>5, <2>1, <2>2 DEF ConfigInv
<1> QED
    BY <1>4, <1>5 DEF PersistWrites

LEMMA PersistAppliesKeeps ==
    ASSUME ConfigInv, NEW p \in Persists, PersistApplies(p)
    PROVE  ConfigInv'
<1> DEFINE o == persist[p].option
<1>1. /\ ConfigTypeOK /\ p \in Busy /\ persist[p] \in Call /\ At(p, "written")
      /\ persist[p].step = "written" /\ UNCHANGED <<running, config>>
      /\ options' = [options EXCEPT ![o] = persist[p].choice]
      /\ doubtful' = IF persist[p].alone THEN doubtful \ {o} ELSE doubtful \cup {o}
    BY CallAtStep DEF ConfigInv, PersistApplies
<1>2. running
    BY <1>1 DEF ConfigInv
<1>3. /\ o \in Options /\ persist[p].choice \in Choices /\ options \in Texts
      /\ persist[p].copy \in Texts
    BY <1>1 DEF Call, ConfigTypeOK
<1>4. /\ options' \in Texts /\ options'[o] = persist[p].choice
      /\ \A o2 \in Options : o2 # o => options'[o2] = options[o2]
    BY <1>1, <1>3 DEF Texts
<1>5. /\ Busy' = Busy \ {p}
      /\ persist' \in [Persists -> Call \cup {Free}]
      /\ \A q \in Persists : q # p => persist'[q] = persist[q]
    BY <1>1, OneCallEnds DEF PersistApplies
<1>6. \A q \in Busy' : q \in Busy /\ q \in Persists /\ persist'[q] = persist[q]
    BY <1>5 DEF Busy
<1>7. ConfigTypeOK'
    BY <1>1, <1>3, <1>4, <1>5 DEF ConfigTypeOK
<1>8. persist[p].alone => Busy = {p} /\ config = {NewText(persist[p])}
    BY <1>1 DEF ConfigInv, AloneIsAlone
<1>9. AloneIsAlone'
    BY <1>1, <1>5, <1>6 DEF ConfigInv, AloneIsAlone
<1>10. CopiesAgree'
  <2> SUFFICES ASSUME NEW o2 \in Options \ doubtful',
                      \A q \in Busy' : persist'[q].option = o2 => ~At(q, "written")'
               PROVE  /\ \A text \in config : text[o2] = options'[o2]
                      /\ \A q \in Busy' : persist'[q].copy[o2] = options'[o2]
      BY <1>1 DEF CopiesAgree
  <2>1. CASE o2 = o
    <3>1. persist[p].alone
        BY <1>1, <2>1
    <3>2. Busy' = {} /\ config = {NewText(persist[p])}
        BY <3>1, <1>5, <1>8
    <3>3. NewText(persist[p])[o] = persist[p].choice
        BY <1>3 DEF NewText, Texts
    <3> QED
        BY <2>1, <3>2, <3>3, <1>4
  <2>2. CASE o2 # o
    <3>1. o2 \notin doubtful
        BY <1>1, <2>2
    <3>2. \A q \in Busy : persist[q].option = o2 => ~At(q, "written")
        BY <1>5, <1>6, <2>2 DEF At
    <3> QED
        BY <1>2, <3>1, <3>2, <1>4, <1>6, <2>2 DEF ConfigInv, CopiesAgree
  <2> QED
      BY <2>1, <2>2
<1>11. config = {} => (\E q \in Persists : At(q, "truncated")') \/ doubtful' = Options
  <2> SUFFICES ASSUME config = {}
               PROVE  (\E q \in Persists : At(q, "truncated")') \/ doubtful' = Options
      OBVIOUS
  <2>1. ~persist[p].alone
      BY <1>8
  <2>2. ASSUME NEW q \in Persists, At(q, "truncated") PROVE At(q, "truncated")'
      BY <1>1, <1>5, <2>2 DEF At
  <2>3. doubtful = Options => doubtful' = Options
      BY <2>1, <1>1, <1>3
  <2> QED
      BY <1>2, <2>2, <2>3 DEF ConfigInv
<1> QED
    BY <1>1, <1>2, <1>7, <1>9, <1>10, <1>11 DEF ConfigInv

LEMMA RestartKeeps ==
    ASSUME ConfigInv, DaemonEnds \/ DaemonStarts \/ MigrateConfig
    PROVE  ConfigInv'
<1>1. AsShipped \in Texts
    BY ConfigAssumption DEF AsShipped, Texts
<1>2. CASE DaemonEnds
  <2>1. Busy' = {}
      BY <1>2 DEF DaemonEnds, Busy
  <2>2. running' = FALSE /\ running' \in BOOLEAN
      BY <1>2, Zenon DEF DaemonEnds
  <2> QED
      BY <1>1, <1>2, <2>1, <2>2
         DEF DaemonEnds, ConfigInv, ConfigTypeOK, AloneIsAlone
<1>3. CASE DaemonStarts
  <2>1. Busy' = {}
      BY <1>3 DEF DaemonStarts, ConfigInv, Busy
  <2>2. running' = TRUE /\ running' \in BOOLEAN
      BY <1>3, Zenon DEF DaemonStarts
  <2>3. config # {} /\ config' = config /\ options' \in config
      BY <1>3 DEF DaemonStarts
  <2> QED
      BY <1>3, <2>1, <2>2, <2>3
         DEF DaemonStarts, ConfigInv, ConfigTypeOK, AloneIsAlone, CopiesAgree
<1>4. CASE MigrateConfig
  <2>1. Busy' = {} /\ ~running
      BY <1>4 DEF MigrateConfig, ConfigInv, Busy
  <2> QED
      BY <1>1, <1>4, <2>1 DEF MigrateConfig, ConfigInv, ConfigTypeOK, AloneIsAlone
<1> QED
    BY <1>2, <1>3, <1>4

LEMMA ConfigStep == ConfigInv /\ [ConfigNext]_configVars => ConfigInv'
<1>1. ASSUME ConfigInv, UNCHANGED configVars PROVE ConfigInv'
    BY <1>1 DEF ConfigInv, ConfigTypeOK, AloneIsAlone, CopiesAgree, Busy, At,
                NewText, configVars
<1> QED
    BY <1>1, PersistReadsKeeps, PersistTruncatesKeeps, PersistWritesKeeps,
       PersistAppliesKeeps, RestartKeeps DEF ConfigNext

LEMMA ConfigInvImplies == ConfigInv => ConfigIsKept
<1> SUFFICES ASSUME ConfigInv, running, \A p \in Persists : ~At(p, "truncated"),
                    NEW o \in Options \ doubtful, \A p \in Busy : persist[p].option # o
             PROVE  \E text \in config : text[o] = options[o]
    BY DEF ConfigIsKept
<1>1. config # {}
    BY DEF ConfigInv
<1>2. \A text \in config : text[o] = options[o]
    BY DEF ConfigInv, CopiesAgree
<1> QED
    BY <1>1, <1>2

LEMMA ConfigInvariant == ConfigSpec => []ConfigInv
BY ConfigInitially, ConfigStep, PTL DEF ConfigSpec

(* Every reachable state of the configuration file is well typed, for any   *)
(* number of calls. *)
THEOREM ConfigTypeCorrect == ConfigSpec => []ConfigTypeOK
<1>1. ConfigInv => ConfigTypeOK
    BY DEF ConfigInv
<1> QED
    BY <1>1, ConfigInvariant, PTL

(* Whatever fails and however many calls overlap: an option whose last call *)
(* ran alone has one value in the daemon and in the file. *)
THEOREM OptionsAreKept == ConfigSpec => []ConfigIsKept
BY ConfigInvariant, ConfigInvImplies, PTL

-----------------------------------------------------------------------------
(* The ambient light. *)
LEMMA WithIsLevel ==
    ASSUME NEW level, level = NoSamples \/ IsLevel(level), NEW l \in Lux
    PROVE  IsLevel(With(level, l)) /\ With(level, l).count = level.count + 1
           /\ level.count \in Nat
BY LightAssumption DEF NoSamples, IsLevel, With

LEMMA LightInitially == LightInit => LightTypeOK
BY LightAssumption DEF LightInit, LightTypeOK, IsLevel, Reading, NoSamples

LEMMA LightStep == LightTypeOK /\ [LightNext]_lightVars => LightTypeOK'
<1> SUFFICES ASSUME LightTypeOK, [LightNext]_lightVars PROVE LightTypeOK'
    OBVIOUS
<1>1. IsLevel(Reading(lux)) /\ IsLevel(With(samples, lux))
    BY WithIsLevel, LightAssumption DEF LightTypeOK, IsLevel, Reading
<1>2. CASE Observe
  <2>1. CASE PromotesDark(lux) /\ GoesBy(Reading(lux)) /\ samples' = NoSamples
      BY <1>1, <1>2, <2>1 DEF Observe, GoesBy, LightTypeOK
  <2>2. CASE samples.count < MaxSamples /\ samples' = With(samples, lux)
             /\ UNCHANGED <<stable, known>>
    <3>1. samples'.count = samples.count + 1 /\ samples.count \in Nat
        BY <2>2, WithIsLevel DEF LightTypeOK
    <3> QED
        BY <1>1, <1>2, <2>2, <3>1, LightAssumption DEF Observe, LightTypeOK
  <2>3. CASE UNCHANGED <<samples, stable, known>>
      BY <1>2, <2>3 DEF Observe, LightTypeOK
  <2> QED
      BY <1>2, <2>1, <2>2, <2>3 DEF Observe
<1>3. CASE WindowEnds
    BY <1>1, <1>3 DEF WindowEnds, GoesBy, LightTypeOK
<1>4. CASE SensorMonitorStarts \/ FirstReading \/ MonitorFails
    BY <1>1, <1>4 DEF SensorMonitorStarts, FirstReading, MonitorFails, GoesBy, LightTypeOK
<1>5. CASE LightChanges \/ UNCHANGED lightVars
    BY <1>5 DEF LightChanges, lightVars, LightTypeOK
<1> QED
    BY <1>2, <1>3, <1>4, <1>5 DEF LightNext

(* Whatever the sensor reads: the level known outside is always the one the *)
(* monitor goes by, and none when it does not run. *)
THEOREM LightTypeCorrect == LightSpec => []LightTypeOK
BY LightInitially, LightStep, PTL DEF LightSpec

-----------------------------------------------------------------------------
(* The settings file.  Only the setter that has the lock has read; it read  *)
(* what the file still has, or nothing. *)
HeadHasRead ==
    /\ \A i \in 2 .. Len(saving) : saving[i].read = {}
    /\ saving # <<>> => \A before \in saving[1].read : before = file \/ parted = Settings

(* The last setter that waits for a setting changed in memory first has the *)
(* value in memory; the others change both at once. *)
LastIsInMemory ==
    /\ \A s \in MemoryFirst : \A i \in 1 .. Len(saving) :
          saving[i].setting = s /\ (\A j \in (i + 1) .. Len(saving) : saving[j].setting # s)
              => saving[i].value = memory[s]
    /\ \A s \in Settings \ (MemoryFirst \cup parted) : memory[s] = file[s]

FileInv == FileTypeOK /\ HeadHasRead /\ LastIsInMemory /\ MemoryIsSaved

LEMMA FileInitially == FileInit => FileInv
BY DEF FileInit, FileInv, FileTypeOK, HeadHasRead, LastIsInMemory, MemoryIsSaved

LEMMA CallSetterKeeps ==
    ASSUME FileInv, NEW s \in Settings, NEW v \in Values, CallSetter(s, v)
    PROVE  FileInv'
<1> DEFINE new == [setting |-> s, value |-> v, read |-> {}]
           n == Len(saving)
<1>1. /\ saving \in Seq(Setter) /\ memory \in Contents /\ UNCHANGED <<file, parted>>
      /\ saving' = Append(saving, new)
      /\ memory' = IF s \in MemoryFirst THEN [memory EXCEPT ![s] = v] ELSE memory
    BY DEF FileInv, FileTypeOK, CallSetter
<1>2. new \in Setter
    BY DEF Setter
<1>3. /\ saving' \in Seq(Setter) /\ Len(saving') = n + 1 /\ n \in Nat
      /\ saving'[n + 1] = new
      /\ \A i \in 1 .. n : saving'[i] = saving[i]
    BY <1>1, <1>2, AppendProperties, LenProperties
<1>4. /\ memory' \in Contents
      /\ \A r \in Settings : r # s \/ r \notin MemoryFirst => memory'[r] = memory[r]
      /\ s \in MemoryFirst => memory'[s] = v
    BY <1>1 DEF Contents
<1>5. FileTypeOK'
    BY <1>1, <1>3, <1>4 DEF FileInv, FileTypeOK
<1>6. HeadHasRead'
  <2>1. \A i \in 2 .. Len(saving') : saving'[i].read = {}
    <3> SUFFICES ASSUME NEW i \in 2 .. Len(saving') PROVE saving'[i].read = {}
        OBVIOUS
    <3>1. CASE i = n + 1
        BY <3>1, <1>3
    <3>2. CASE i # n + 1
        BY <3>2, <1>3 DEF FileInv, HeadHasRead
    <3> QED
        BY <3>1, <3>2
  <2>2. \A before \in saving'[1].read : before = file \/ parted = Settings
    <3>1. CASE n = 0
        BY <3>1, <1>3
    <3>2. CASE n # 0
      <4>1. saving'[1] = saving[1] /\ saving # <<>>
          BY <3>2, <1>3
      <4> QED
          BY <4>1 DEF FileInv, HeadHasRead
    <3> QED
        BY <3>1, <3>2
  <2> QED
      BY <2>1, <2>2, <1>1 DEF HeadHasRead
<1>7. LastIsInMemory'
  <2>1. ASSUME NEW r \in MemoryFirst, NEW i \in 1 .. Len(saving'), saving'[i].setting = r,
               \A j \in (i + 1) .. Len(saving') : saving'[j].setting # r
        PROVE  saving'[i].value = memory'[r]
    <3>1. CASE i = n + 1
        BY <2>1, <3>1, <1>3, <1>4
    <3>2. CASE i # n + 1
      <4>1. r # s
          BY <2>1, <3>2, <1>3
      <4>2. saving[i].value = memory[r]
          BY <2>1, <3>2, <1>3 DEF FileInv, LastIsInMemory
      <4> QED
          BY <2>1, <3>2, <4>1, <4>2, <1>3, <1>4 DEF MemoryFirst, Settings
    <3> QED
        BY <3>1, <3>2
  <2>2. \A r \in Settings \ (MemoryFirst \cup parted) : memory'[r] = file[r]
      BY <1>4 DEF FileInv, LastIsInMemory
  <2> QED
      BY <2>1, <2>2, <1>1 DEF LastIsInMemory
<1>8. MemoryIsSaved'
  <2> SUFFICES ASSUME NEW r \in Settings \ parted,
                      \A i \in 1 .. Len(saving') : saving'[i].setting # r
               PROVE  memory'[r] = file[r]
      BY <1>1 DEF MemoryIsSaved
  <2>1. r # s /\ \A i \in 1 .. n : saving[i].setting # r
      BY <1>3
  <2> QED
      BY <2>1, <1>4 DEF FileInv, MemoryIsSaved
<1> QED
    BY <1>5, <1>6, <1>7, <1>8 DEF FileInv

LEMMA ReadFileKeeps ==
    ASSUME FileInv, NEW i \in 1 .. Len(saving), ReadFile(i)
    PROVE  FileInv'
<1>1. /\ i = 1 /\ saving \in Seq(Setter) /\ UNCHANGED <<memory, file>>
      /\ file \in Contents /\ parted \subseteq Settings /\ Len(saving) \in Nat
    BY LenProperties DEF FileInv, FileTypeOK, ReadFile, HasLock
<1>2. NoContents \in Contents
    BY SettingsAssumption DEF NoContents, Contents
<1>3. PICK read : /\ saving' = [saving EXCEPT ![1].read = {read}]
                  /\ \/ read = file /\ parted' = parted
                     \/ read = NoContents /\ parted' = Settings
    BY <1>1 DEF ReadFile
<1>4. read \in Contents /\ saving[1] \in Setter
    BY <1>1, <1>2, <1>3
<1>5. [saving[1] EXCEPT !.read = {read}] \in Setter
    BY <1>4 DEF Setter
<1>6. /\ saving' \in Seq(Setter) /\ Len(saving') = Len(saving)
      /\ saving'[1] = [saving[1] EXCEPT !.read = {read}]
      /\ \A j \in 2 .. Len(saving) : saving'[j] = saving[j]
  <2> DEFINE e == [saving[1] EXCEPT !.read = {read}]
  <2>1. saving' = [saving EXCEPT ![1] = e]
      BY <1>3
  <2>2. 1 \in 1 .. Len(saving) /\ e \in Setter /\ saving \in Seq(Setter)
      BY <1>1, <1>5
  <2> HIDE DEF e
  <2>3. /\ saving' \in Seq(Setter) /\ Len(saving') = Len(saving)
        /\ \A j \in 1 .. Len(saving) : saving'[j] = IF j = 1 THEN e ELSE saving[j]
      BY <2>1, <2>2, ExceptSeq
  <2>4. saving'[1] = e /\ \A j \in 2 .. Len(saving) : saving'[j] = saving[j]
      BY <1>1, <2>2, <2>3
  <2> QED
      BY <2>3, <2>4 DEF e
<1>7. \A j \in 1 .. Len(saving) : /\ saving'[j].setting = saving[j].setting
                                  /\ saving'[j].value = saving[j].value
    BY <1>4, <1>6 DEF Setter
<1>8. saving'[1].read = {read}
    BY <1>4, <1>6 DEF Setter
<1>9. parted \subseteq parted' /\ parted' \subseteq Settings
    BY <1>1, <1>3
<1>10. FileTypeOK'
    BY <1>1, <1>6, <1>9 DEF FileInv, FileTypeOK
<1>11. HeadHasRead'
    BY <1>1, <1>3, <1>6, <1>8 DEF FileInv, HeadHasRead
<1>12. LastIsInMemory'
  <2>1. ASSUME NEW s \in MemoryFirst, NEW j \in 1 .. Len(saving), saving'[j].setting = s,
               \A k \in (j + 1) .. Len(saving) : saving'[k].setting # s
        PROVE  saving'[j].value = memory[s]
    <3>1. \A k \in (j + 1) .. Len(saving) : k \in 1 .. Len(saving)
        BY <1>1
    <3>2. /\ saving[j].setting = s
          /\ \A k \in (j + 1) .. Len(saving) : saving[k].setting # s
        BY <2>1, <3>1, <1>7
    <3>3. saving[j].value = memory[s]
        BY <3>2 DEF FileInv, LastIsInMemory
    <3> QED
        BY <3>3, <1>7
  <2>2. \A s \in Settings \ (MemoryFirst \cup parted') : memory[s] = file[s]
      BY <1>9 DEF FileInv, LastIsInMemory
  <2> QED
      BY <2>1, <2>2, <1>1, <1>6 DEF LastIsInMemory
<1>13. MemoryIsSaved'
    BY <1>1, <1>6, <1>7, <1>9 DEF FileInv, MemoryIsSaved
<1> QED
    BY <1>10, <1>11, <1>12, <1>13 DEF FileInv

(* Without the first setter, the others move up by one. *)
LEMMA RemainingIsTail ==
    ASSUME saving \in Seq(Setter), saving # <<>>
    PROVE  /\ Remaining(1) \in Seq(Setter)
           /\ Len(saving) \in Nat \ {0}
           /\ Len(Remaining(1)) = Len(saving) - 1
           /\ \A j \in 1 .. Len(saving) - 1 : Remaining(1)[j] = saving[j + 1]
<1>1. Len(saving) \in Nat \ {0}
    BY EmptySeq, LenProperties
<1>2. SubSeq(saving, 1, 0) = <<>>
    BY <1>1
<1>3. /\ SubSeq(saving, 2, Len(saving)) \in Seq(Setter)
      /\ Len(SubSeq(saving, 2, Len(saving))) = Len(saving) - 1
      /\ \A j \in 1 .. Len(saving) - 1 : SubSeq(saving, 2, Len(saving))[j] = saving[j + 1]
    BY <1>1, TailIsSubSeq, HeadTailProperties
<1>4. Remaining(1) = SubSeq(saving, 2, Len(saving))
    BY <1>2, <1>3, ConcatEmptySeq DEF Remaining
<1> QED
    BY <1>1, <1>3, <1>4

LEMMA SaveEndsKeeps ==
    ASSUME FileInv, NEW i \in 1 .. Len(saving), SaveEnds(i)
    PROVE  FileInv'
<1> DEFINE setter == saving[1]
           s == setter.setting
           v == setter.value
<1>1. /\ i = 1 /\ saving # <<>> /\ saving \in Seq(Setter) /\ memory \in Contents
      /\ file \in Contents /\ parted \subseteq Settings /\ saving' = Remaining(1)
    BY EmptySeq DEF FileInv, FileTypeOK, SaveEnds, HasLock
<1>2. /\ Remaining(1) \in Seq(Setter) /\ Len(saving) \in Nat \ {0}
      /\ Len(saving') = Len(saving) - 1
      /\ \A j \in 1 .. Len(saving) - 1 : saving'[j] = saving[j + 1]
    BY <1>1, RemainingIsTail
<1>3. setter \in Setter
    BY <1>1, <1>2
<1>4. s \in Settings /\ v \in Values /\ setter.read \subseteq Contents
    BY <1>3 DEF Setter
<1>5. PICK before \in setter.read, written \in BOOLEAN :
          /\ written => [before EXCEPT ![s] = v] # before
          /\ file' = IF written THEN [before EXCEPT ![s] = v] ELSE file
          /\ memory' = IF ChangesMemory(setter, before)
                       THEN [memory EXCEPT ![s] = v] ELSE memory
          /\ parted' = IF written THEN parted \ {s}
                       ELSE IF [before EXCEPT ![s] = v] # before THEN parted \cup {s}
                       ELSE parted
    BY <1>1 DEF SaveEnds
<1>6. before \in Contents /\ (before = file \/ parted = Settings)
    BY <1>1, <1>4 DEF FileInv, HeadHasRead
<1>7. /\ [before EXCEPT ![s] = v] \in Contents
      /\ [before EXCEPT ![s] = v][s] = v
      /\ \A r \in Settings : r # s => [before EXCEPT ![s] = v][r] = before[r]
      /\ [before EXCEPT ![s] = v] = before <=> before[s] = v
    BY <1>4, <1>6 DEF Contents
<1>8. /\ memory' \in Contents
      /\ \A r \in Settings : r # s => memory'[r] = memory[r]
      /\ memory'[s] = IF ChangesMemory(setter, before) THEN v ELSE memory[s]
    BY <1>1, <1>4, <1>5 DEF Contents
<1>9. FileTypeOK'
    BY <1>1, <1>2, <1>4, <1>5, <1>7, <1>8 DEF FileTypeOK
<1>10. \A r \in Settings \ parted' : r # s => file'[r] = file[r] /\ r \notin parted
    BY <1>5, <1>6, <1>7
<1>11. s \notin parted' => file'[s] = v
    BY <1>4, <1>5, <1>6, <1>7
<1>12. s \notin MemoryFirst /\ s \notin parted' => memory'[s] = v
  <2> SUFFICES ASSUME s \notin MemoryFirst, s \notin parted' PROVE memory'[s] = v
      OBVIOUS
  <2>1. CASE ChangesMemory(setter, before)
      BY <2>1, <1>8
  <2>2. CASE ~ChangesMemory(setter, before)
    <3>1. s = "brightness" /\ before[s] = v
        BY <2>2 DEF ChangesMemory
    <3>2. ~written /\ parted' = parted
        BY <3>1, <1>5, <1>7
    <3>3. before = file /\ memory[s] = file[s]
        BY <3>2, <1>4, <1>6 DEF FileInv, LastIsInMemory
    <3> QED
        BY <2>2, <3>1, <3>3, <1>8
  <2> QED
      BY <2>1, <2>2
<1>13. s \in MemoryFirst => memory'[s] = memory[s]
    BY <1>8 DEF ChangesMemory
<1>14. HeadHasRead'
  <2>1. \A j \in 1 .. Len(saving') : saving'[j].read = {}
    <3> SUFFICES ASSUME NEW j \in 1 .. Len(saving') PROVE saving'[j].read = {}
        OBVIOUS
    <3>1. j + 1 \in 2 .. Len(saving) /\ saving'[j] = saving[j + 1]
        BY <1>2
    <3> QED
        BY <3>1 DEF FileInv, HeadHasRead
  <2>2. saving' # <<>> => 1 \in 1 .. Len(saving')
      BY <1>1, <1>2, EmptySeq
  <2>3. \A j \in 2 .. Len(saving') : j \in 1 .. Len(saving')
      BY <1>1, <1>2
  <2> QED
      BY <2>1, <2>2, <2>3 DEF HeadHasRead
<1>15. LastIsInMemory'
  <2>1. ASSUME NEW r \in MemoryFirst, NEW j \in 1 .. Len(saving'), saving'[j].setting = r,
               \A k \in (j + 1) .. Len(saving') : saving'[k].setting # r
        PROVE  saving'[j].value = memory'[r]
    <3>1. j + 1 \in 1 .. Len(saving) /\ saving'[j] = saving[j + 1]
        BY <1>2
    <3>2. \A k \in (j + 2) .. Len(saving) : saving[k].setting # r
      <4> SUFFICES ASSUME NEW k \in (j + 2) .. Len(saving) PROVE saving[k].setting # r
          OBVIOUS
      <4>1. k - 1 \in (j + 1) .. Len(saving') /\ saving'[k - 1] = saving[k]
          BY <1>2
      <4> QED
          BY <2>1, <4>1
    <3>3. saving[j + 1].value = memory[r]
      <4>1. (j + 1) + 1 = j + 2
          BY <3>1
      <4> QED
          BY <2>1, <3>1, <3>2, <4>1 DEF FileInv, LastIsInMemory
    <3>4. memory'[r] = memory[r]
        BY <1>8, <1>13 DEF MemoryFirst, Settings
    <3> QED
        BY <3>1, <3>3, <3>4
  <2>2. ASSUME NEW r \in Settings \ (MemoryFirst \cup parted')
        PROVE  memory'[r] = file'[r]
    <3>1. CASE r = s
        BY <3>1, <1>11, <1>12
    <3>2. CASE r # s
        BY <3>2, <1>8, <1>10 DEF FileInv, LastIsInMemory
    <3> QED
        BY <3>1, <3>2
  <2> QED
      BY <2>1, <2>2 DEF LastIsInMemory
<1>16. MemoryIsSaved'
  <2> SUFFICES ASSUME NEW r \in Settings \ parted',
                      \A j \in 1 .. Len(saving') : saving'[j].setting # r
               PROVE  memory'[r] = file'[r]
      BY DEF MemoryIsSaved
  <2>1. \A k \in 2 .. Len(saving) : saving[k].setting # r
    <3> SUFFICES ASSUME NEW k \in 2 .. Len(saving) PROVE saving[k].setting # r
        OBVIOUS
    <3>1. k - 1 \in 1 .. Len(saving') /\ saving'[k - 1] = saving[k]
        BY <1>2
    <3> QED
        BY <3>1
  <2>2. CASE r = s /\ r \in MemoryFirst
    <3>1. v = memory[s]
      <4>1. 1 \in 1 .. Len(saving) /\ 1 + 1 = 2
          BY <1>2
      <4> QED
          BY <2>1, <2>2, <4>1 DEF FileInv, LastIsInMemory
    <3> QED
        BY <2>2, <3>1, <1>11, <1>13
  <2>3. CASE r = s /\ r \notin MemoryFirst
      BY <2>3, <1>11, <1>12
  <2>4. CASE r # s
    <3>1. \A k \in 1 .. Len(saving) : saving[k].setting # r
        BY <2>1, <2>4, <1>2
    <3> QED
        BY <2>4, <3>1, <1>8, <1>10 DEF FileInv, MemoryIsSaved
  <2> QED
      BY <2>2, <2>3, <2>4
<1> QED
    BY <1>9, <1>14, <1>15, <1>16 DEF FileInv

LEMMA StartAgainKeeps == FileInv /\ StartAgain => FileInv'
<1> SUFFICES ASSUME FileInv, StartAgain PROVE FileInv'
    OBVIOUS
<1>1. NoContents \in Contents /\ [file EXCEPT !["ambient"] = Default] \in Contents
    BY SettingsAssumption DEF FileInv, FileTypeOK, NoContents, Contents
<1>2. saving' = <<>>
    BY DEF StartAgain
<1>3. memory' \in Contents /\ file' \in Contents /\ parted' \subseteq Settings
    BY <1>1 DEF StartAgain, FileInv, FileTypeOK
<1>4. parted' = Settings \/ memory' = file'
    BY DEF StartAgain
<1> QED
    BY <1>2, <1>3, <1>4 DEF FileInv, FileTypeOK, HeadHasRead, LastIsInMemory, MemoryIsSaved

LEMMA FileStep == FileInv /\ [FileNext]_fileVars => FileInv'
<1>1. ASSUME FileInv, UNCHANGED fileVars PROVE FileInv'
    BY <1>1 DEF FileInv, FileTypeOK, HeadHasRead, LastIsInMemory, MemoryIsSaved, fileVars
<1> QED
    BY <1>1, CallSetterKeeps, ReadFileKeeps, SaveEndsKeeps, StartAgainKeeps DEF FileNext

LEMMA FileInvariant == FileSpec => []FileInv
BY FileInitially, FileStep, PTL DEF FileSpec

(* Every reachable state of the settings file is well typed, for any number *)
(* of setters. *)
THEOREM FileTypeCorrect == FileSpec => []FileTypeOK
<1>1. FileInv => FileTypeOK
    BY DEF FileInv
<1> QED
    BY <1>1, FileInvariant, PTL

(* However many setters wait: a setting that none of them saves has one     *)
(* value in memory and file, unless an access to the file failed. *)
THEOREM SettingsAreSaved == FileSpec => []MemoryIsSaved
<1>1. FileInv => MemoryIsSaved
    BY DEF FileInv
<1> QED
    BY <1>1, FileInvariant, PTL

(* However many setters wait: no setter changes the entry of another in the *)
(* file, unless it could not read the file. *)
THEOREM NoEntryIsClobbered == FileSpec => EntriesAreKept
<1> DEFINE Kept == \A s \in Settings \ parted' : file'[s] # file[s] =>
                      saving[1].setting = s /\ file'[s] = saving[1].value
<1>1. ASSUME FileInv, FileNext PROVE Kept
  <2> SUFFICES ASSUME NEW s \in Settings \ parted', file'[s] # file[s]
               PROVE  saving[1].setting = s /\ file'[s] = saving[1].value
      OBVIOUS
  <2>1. PICK i \in 1 .. Len(saving) : SaveEnds(i)
      BY <1>1 DEF FileNext, CallSetter, ReadFile, StartAgain
  <2>2. i = 1 /\ saving # <<>>
      BY <1>1, <2>1, EmptySeq DEF SaveEnds, HasLock
  <2>3. saving[1] \in Setter
      BY <1>1, <2>1, <2>2, ElementOfSeq DEF FileInv, FileTypeOK
  <2>4. PICK before \in saving[1].read :
            /\ file' = [before EXCEPT ![saving[1].setting] = saving[1].value]
            /\ parted' = parted \ {saving[1].setting}
      BY <2>1, <2>2 DEF SaveEnds
  <2>5. /\ before \in Contents /\ saving[1].setting \in Settings
        /\ before = file \/ parted = Settings
      BY <1>1, <2>2, <2>3, <2>4 DEF FileInv, HeadHasRead, Setter
  <2> QED
      BY <2>4, <2>5 DEF Contents
<1>2. FileInv /\ [FileNext]_fileVars => [Kept]_fileVars
    BY <1>1
<1> QED
    BY <1>2, FileInvariant, PTL DEF FileSpec, EntriesAreKept
=============================================================================
