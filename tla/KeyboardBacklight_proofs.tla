----------------------- MODULE KeyboardBacklight_proofs -----------------------
(* Proofs about the keyboard backlight, for any number of concurrent calls, *)
(* any number of levels and any capacity of the event channel.              *)
EXTENDS KeyboardBacklight, SequenceTheorems, TLAPS

USE TopAssumption, EventCapAssumption

-----------------------------------------------------------------------------
(* The level shown is one the keyboard has. *)
LEMMA EffectiveIsLevel ==
  ASSUME NEW req \in Level, NEW susp, NEW idl, NEW low
  PROVE  EffectiveOf(req, susp, idl, low) \in Level
  BY DEF EffectiveOf, Level

LEMMA NextIsLevel == ASSUME NEW l \in Level PROVE NextLevel(l) \in Level
  BY DEF NextLevel, Level

LEMMA LowIsLevel == Low \in Level
  BY DEF Low, Level

(* A push into the channel may cost the oldest event, never the newest. *)
LEMMA PushKeepsNewest ==
  ASSUME NEW q \in Seq(Level), NEW v \in Level
  PROVE  /\ Push(q, v) \in Seq(Level)
         /\ Push(q, v) # <<>>
         /\ Push(q, v)[Len(Push(q, v))] = v
<1>1. CASE Len(q) < EventCap
  BY <1>1 DEF Push
<1>2. CASE ~(Len(q) < EventCap)
  <2>1. q # <<>> /\ Tail(q) \in Seq(Level)
    BY <1>2
  <2>2. Push(q, v) = Append(Tail(q), v)
    BY <1>2 DEF Push
  <2> HIDE DEF Push
  <2> QED
    BY <2>1, <2>2, AppendProperties
<1> QED
  BY <1>1, <1>2

LEMMA TailKeepsNewest ==
  ASSUME NEW q \in Seq(Level), q # <<>>
  PROVE  /\ Tail(q) \in Seq(Level) /\ Head(q) \in Level
         /\ Tail(q) = <<>> => q[Len(q)] = Head(q)
         /\ Tail(q) # <<>> => Tail(q)[Len(Tail(q))] = q[Len(q)]
<1>1. /\ Tail(q) \in Seq(Level) /\ Head(q) = q[1] /\ Len(q) \in Nat \ {0}
      /\ Len(Tail(q)) = Len(q) - 1
      /\ \A i \in 1..Len(Tail(q)) : Tail(q)[i] = q[i+1]
  BY HeadTailProperties
<1>2. Tail(q) = <<>> <=> Len(q) = 1
  BY <1>1, EmptySeq
<1> QED
  BY <1>1, <1>2, ElementOfSeq

-----------------------------------------------------------------------------
LEMMA SendTyped ==
  ASSUME TypeOK, NEW v \in Level, Send(v)
  PROVE  lights' \in Seq(Level) /\ lost' = FALSE
  BY PushKeepsNewest DEF Send, TypeOK

LEMMA EmitTyped ==
  ASSUME TypeOK, requested' \in Level, EmitIfChanged
  PROVE  lights' \in Seq(Level) /\ late' \in BOOLEAN /\ lost' \in BOOLEAN
<1>1. Effective' \in Level
  BY EffectiveIsLevel DEF Effective
<1>2. CASE Effective' # Effective
  BY <1>1, <1>2, SendTyped DEF EmitIfChanged
<1>3. CASE ~(Effective' # Effective)
  BY <1>3 DEF EmitIfChanged, eventVars, TypeOK
<1> QED
  BY <1>2, <1>3

(* The parts of the state that no step but a few touch. *)
Scalars ==
    /\ requested \in Level /\ disk \in Level /\ light \in Level
    /\ lights \in Seq(Level)
    /\ link \in {"off", "setup", "on"}
Flags ==
    /\ suspended \in BOOLEAN /\ idle \in BOOLEAN /\ lowLight \in BOOLEAN
    /\ late \in BOOLEAN /\ lost \in BOOLEAN
    /\ timeoutOn \in BOOLEAN /\ timeoutArmed \in BOOLEAN /\ timeoutNews \in BOOLEAN
    /\ activity \in BOOLEAN
Calls ==
    call \in [Callers -> [pc : {"idle", "persist", "send"}, level : Level,
                          effective : Level, send : BOOLEAN]]

LEMMA TypeStep == TypeOK /\ [Next]_vars => TypeOK'
<1> SUFFICES ASSUME TypeOK, [Next]_vars PROVE Scalars' /\ Flags' /\ Calls'
  BY DEF TypeOK, Scalars, Flags, Calls
<1> USE DEF policyVars, idleVars, eventVars, keyboardVars
<1>1. ASSUME NEW c \in Callers, NEW new \in Level, SetLevel(c, new)
      PROVE  Scalars' /\ Flags' /\ Calls'
  <2>1. Scalars'
    BY <1>1 DEF SetLevel, TypeOK, Scalars
  <2>2. Flags'
    BY <1>1 DEF SetLevel, TypeOK, Flags
  <2>3. Effective' \in Level
    BY <1>1, EffectiveIsLevel DEF SetLevel, Effective
  <2>4. Calls'
    BY <1>1, <2>3 DEF SetLevel, TypeOK, Calls
  <2> QED
    BY <2>1, <2>2, <2>4
<1>2. ASSUME NEW c \in Callers, PersistLevel(c)
      PROVE  Scalars' /\ Flags' /\ Calls'
  BY <1>2, LowIsLevel DEF PersistLevel, TypeOK, Scalars, Flags, Calls
<1>3. ASSUME NEW c \in Callers, SendLevel(c)
      PROVE  Scalars' /\ Flags' /\ Calls'
  <2>1. CASE call[c].send
    <3>1. call[c].effective \in Level
      BY DEF TypeOK
    <3>2. lights' \in Seq(Level) /\ lost' = FALSE
      BY <1>3, <2>1, <3>1, SendTyped DEF SendLevel
    <3>3. Scalars' /\ Calls'
      BY <1>3, <2>1, <3>2 DEF SendLevel, TypeOK, Scalars, Calls, NoCall, Level
    <3>4. late' \in BOOLEAN
      BY <1>3, <2>1 DEF SendLevel
    <3>5. Flags'
      BY <1>3, <3>2, <3>4 DEF SendLevel, TypeOK, Flags
    <3> QED
      BY <3>3, <3>5
  <2>2. CASE ~call[c].send
    BY <1>3, <2>2 DEF SendLevel, TypeOK, Scalars, Flags, Calls, NoCall, Level
  <2> QED
    BY <2>1, <2>2
<1>4. CASE SuspendStart
  BY <1>4, EmitTyped DEF SuspendStart, TypeOK, Scalars, Flags, Calls
<1>5. CASE SuspendEnd
  BY <1>5, EmitTyped DEF SuspendEnd, TypeOK, Scalars, Flags, Calls
<1>6. CASE AmbientChanges
  BY <1>6, EmitTyped DEF AmbientChanges, TypeOK, Scalars, Flags, Calls
<1>7. CASE IdleActivity
  BY <1>7, EmitTyped DEF IdleActivity, IdleBecomes, NextTurn, TypeOK, Scalars, Flags, Calls
<1>8. CASE IdleTimeoutChanged
  BY <1>8, EmitTyped DEF IdleTimeoutChanged, IdleBecomes, NextTurn, TypeOK, Scalars, Flags, Calls
<1>9. CASE IdleElapses
  BY <1>9, EmitTyped DEF IdleElapses, IdleBecomes, NextTurn, TypeOK, Scalars, Flags, Calls
<1>10. CASE Activity
  BY <1>10 DEF Activity, TypeOK, Scalars, Flags, Calls
<1>11. ASSUME NEW on \in BOOLEAN, SetIdleTimeout(on)
       PROVE  Scalars' /\ Flags' /\ Calls'
  BY <1>11 DEF SetIdleTimeout, TypeOK, Scalars, Flags, Calls
<1>12. CASE KeyboardConnects
  <2>1. Scalars'
    BY <1>12, EmptySeq DEF KeyboardConnects, TypeOK, Scalars
  <2>2. Flags'
    BY <1>12 DEF KeyboardConnects, TypeOK, Flags
  <2>3. Calls'
    BY <1>12 DEF KeyboardConnects, TypeOK, Calls
  <2> QED
    BY <2>1, <2>2, <2>3
<1>13. CASE RestoreLight
  BY <1>13, EffectiveIsLevel DEF RestoreLight, Effective, TypeOK, Scalars, Flags, Calls
<1>14. CASE FollowEvent
  BY <1>14, TailKeepsNewest DEF FollowEvent, TypeOK, Scalars, Flags, Calls
<1>15. CASE KeyboardLeaves
  <2>1. Scalars'
    BY <1>15, EmptySeq DEF KeyboardLeaves, TypeOK, Scalars, Level
  <2>2. Flags'
    BY <1>15 DEF KeyboardLeaves, TypeOK, Flags
  <2>3. Calls'
    BY <1>15 DEF KeyboardLeaves, TypeOK, Calls
  <2> QED
    BY <2>1, <2>2, <2>3
<1>16. CASE Restart
  <2>1. Scalars'
    BY <1>16, EmptySeq, LowIsLevel DEF Restart, TypeOK, Scalars, Level
  <2>2. Flags'
    BY <1>16 DEF Restart, TypeOK, Flags
  <2>3. Calls'
    BY <1>16 DEF Restart, TypeOK, Calls, NoCall, Level
  <2> QED
    BY <2>1, <2>2, <2>3
<1>17. CASE OtherTraffic
  BY <1>17, TailKeepsNewest DEF OtherTraffic, TypeOK, Scalars, Flags, Calls
<1>18. CASE UNCHANGED vars
  BY <1>18 DEF vars, TypeOK, Scalars, Flags, Calls
<1> QED
  BY <1>1, <1>2, <1>3, <1>4, <1>5, <1>6, <1>7, <1>8, <1>9, <1>10, <1>11,
     <1>12, <1>13, <1>14, <1>15, <1>16, <1>17, <1>18, NextIsLevel
     DEF Next, SetterStep, IdleTaskStep, ControlTaskStep, EnvironmentStep,
         ToggleLevel, TypeOK

(* Every level that is stored, sent or shown is one the keyboard has, and  *)
(* every task is at a place of its program.                                *)
THEOREM TypeCorrect == Spec => []TypeOK
<1>1. Init => TypeOK
  <2> SUFFICES ASSUME Init PROVE Scalars /\ Flags /\ Calls
    BY DEF TypeOK, Scalars, Flags, Calls
  <2>1. Scalars
    BY EmptySeq DEF Init, Scalars, Level
  <2>2. Flags
    BY DEF Init, Flags
  <2>3. Calls
    BY DEF Init, Calls, NoCall, Level
  <2> QED
    BY <2>1, <2>2, <2>3
<1> QED
  BY <1>1, TypeStep, PTL DEF Spec

-----------------------------------------------------------------------------
(* LightIsEffective is not inductive: it says nothing of a keyboard that   *)
(* has events to receive, nor of one that is being set up.  The invariant  *)
(* below follows the newest event from the moment it is sent, until it is  *)
(* received or overwritten.                                                *)
Told == Newest = Effective \/ late \/ lost \/ \E c \in Callers : InFlight(c)

NewestIsTold ==
    /\ link = "on" => Told
    /\ link = "setup" /\ lights # <<>> => Told

(* While a level is still to be received, no newer one has been lost. *)
LostLeavesNone == lost => lights = <<>>

LEMMA NewestIsToldImplies == NewestIsTold => LightIsEffective
  BY DEF NewestIsTold, Told, LightIsEffective, Newest

LEMMA SendTells ==
  ASSUME TypeOK, NEW v \in Level, Send(v), link # "off"
  PROVE  Newest' = v
<1>1. lights' = Push(lights, v)
  BY DEF Send
<1> QED
  BY <1>1, PushKeepsNewest DEF Newest, TypeOK

(* A setter that changes the effective level sends it in the same step. *)
LEMMA EmitTells ==
  ASSUME TypeOK, NewestIsTold, requested' \in Level, EmitIfChanged,
         UNCHANGED <<call, keyboardVars>>
  PROVE  NewestIsTold'
<1> USE DEF keyboardVars
<1>1. CASE link = "off"
  BY <1>1 DEF NewestIsTold
<1>2. CASE link # "off" /\ Effective' # Effective
  <2>1. Effective' \in Level
    BY EffectiveIsLevel DEF Effective
  <2>2. Newest' = Effective'
    BY <1>2, <2>1, SendTells DEF EmitIfChanged
  <2> QED
    BY <2>2 DEF NewestIsTold, Told
<1>3. CASE link # "off" /\ ~(Effective' # Effective)
  <2>1. Newest' = Newest /\ late' = late /\ lost' = lost /\ lights' = lights
    BY <1>3 DEF EmitIfChanged, eventVars, Newest
  <2>2. \A c \in Callers : InFlight(c)' = InFlight(c)
    BY DEF InFlight
  <2>3. Told => Told'
    BY <1>3, <2>1, <2>2 DEF Told
  <2> QED
    BY <2>1, <2>3 DEF NewestIsTold
<1> QED
  BY <1>1, <1>2, <1>3

(* A step that leaves alone what Told is about. *)
LEMMA OtherStepTells ==
  ASSUME NewestIsTold, UNCHANGED <<policyVars, call, eventVars, keyboardVars>>
  PROVE  NewestIsTold'
  BY DEF NewestIsTold, Told, Newest, Effective, InFlight, policyVars, eventVars,
         keyboardVars

(* The calls: until it sends, a call is in flight; when it sends, either   *)
(* its event is the effective level or `late' says that it is not.         *)
LEMMA CallTells ==
  ASSUME TypeOK, NewestIsTold, NEW c \in Callers
  PROVE  /\ \A new \in Level : SetLevel(c, new) => NewestIsTold'
         /\ PersistLevel(c) => NewestIsTold'
         /\ SendLevel(c) => NewestIsTold'
<1> USE DEF policyVars, eventVars, keyboardVars
<1>1. ASSUME NEW new \in Level, SetLevel(c, new)
      PROVE  NewestIsTold'
  <2>1. /\ call' = [call EXCEPT ![c] =
                       [pc |-> "persist", level |-> new, effective |-> Effective',
                        send |-> new # requested \/ Effective' # Effective]]
        /\ call[c].pc = "idle"
        /\ UNCHANGED <<lights, late, lost, link, light>>
    BY <1>1 DEF SetLevel
  <2>2. call \in [Callers -> [pc : {"idle", "persist", "send"}, level : Level,
                              effective : Level, send : BOOLEAN]]
    BY DEF TypeOK
  <2>3. \A d \in Callers \ {c} : InFlight(d)' = InFlight(d)
    BY <2>1, <2>2 DEF InFlight
  <2>4. ~InFlight(c)
    BY <2>1 DEF InFlight
  <2>5. Newest' = Newest
    BY <2>1 DEF Newest
  <2>6. CASE Effective' # Effective
    <3>1. InFlight(c)'
      BY <2>1, <2>2, <2>6 DEF InFlight
    <3> QED
      BY <3>1 DEF NewestIsTold, Told
  <2>7. CASE Effective' = Effective
    <3>1. Told => Told'
      BY <2>1, <2>3, <2>4, <2>5, <2>7 DEF Told
    <3> QED
      BY <2>1, <3>1 DEF NewestIsTold
  <2> QED
    BY <2>6, <2>7
<1>2. ASSUME PersistLevel(c)
      PROVE  NewestIsTold'
  <2>1. \A d \in Callers : InFlight(d)' = InFlight(d)
    BY <1>2 DEF PersistLevel, InFlight, TypeOK
  <2>2. UNCHANGED <<requested, suspended, idle, lowLight, lights, late, lost, link, light>>
    BY <1>2 DEF PersistLevel
  <2>3. Told' = Told
    BY <2>1, <2>2 DEF Told, Newest, Effective
  <2> QED
    BY <2>2, <2>3 DEF NewestIsTold
<1>3. ASSUME SendLevel(c)
      PROVE  NewestIsTold'
  <2>1. UNCHANGED <<requested, suspended, idle, lowLight, link, light>>
    BY <1>3 DEF SendLevel
  <2>2. Effective' = Effective
    BY <2>1 DEF Effective
  <2>3. CASE link = "off"
    BY <2>1, <2>3 DEF NewestIsTold
  <2>4. CASE link # "off" /\ call[c].send
    <3>1. call[c].effective \in Level
      BY DEF TypeOK
    <3>2. Newest' = call[c].effective
      BY <1>3, <2>4, <3>1, SendTells DEF SendLevel
    <3>3. late' = (call[c].effective # Effective)
      BY <1>3, <2>4 DEF SendLevel
    <3>4. Newest' = Effective' \/ late'
      BY <2>2, <3>2, <3>3
    <3> QED
      BY <3>4 DEF NewestIsTold, Told
  <2>5. CASE link # "off" /\ ~call[c].send
    <3>1. UNCHANGED <<lights, late, lost>>
      BY <1>3, <2>5 DEF SendLevel
    <3>2. ~InFlight(c) /\ \A d \in Callers \ {c} : InFlight(d)' = InFlight(d)
      BY <1>3, <2>5 DEF SendLevel, InFlight, TypeOK
    <3>3. Newest' = Newest
      BY <2>1, <3>1 DEF Newest
    <3>4. Told => Told'
      BY <2>2, <3>1, <3>2, <3>3 DEF Told
    <3> QED
      BY <2>1, <3>1, <3>4 DEF NewestIsTold
  <2> QED
    BY <2>3, <2>4, <2>5
<1> QED
  BY <1>1, <1>2, <1>3

LEMMA LostStep == TypeOK /\ LostLeavesNone /\ [Next]_vars => LostLeavesNone'
<1> SUFFICES ASSUME TypeOK, LostLeavesNone, [Next]_vars PROVE LostLeavesNone'
  OBVIOUS
<1> USE DEF LostLeavesNone, policyVars, idleVars, eventVars, keyboardVars
<1>1. CASE UNCHANGED vars
  BY <1>1 DEF vars
<1>2. CASE IdleTaskStep
  BY <1>2 DEF IdleTaskStep, IdleActivity, IdleTimeoutChanged, IdleElapses, IdleBecomes,
     EmitIfChanged, Send
<1>3. CASE ControlTaskStep
  BY <1>3, TailKeepsNewest, EmptySeq DEF ControlTaskStep, RestoreLight, FollowEvent, TypeOK
<1>4. CASE \E c \in Callers : SetterStep(c)
  BY <1>4 DEF SetterStep, PersistLevel, SendLevel, Send
<1>5. CASE EnvironmentStep
  BY <1>5 DEF EnvironmentStep, ToggleLevel, SetLevel, SuspendStart, SuspendEnd,
     AmbientChanges, EmitIfChanged, Send, Activity, SetIdleTimeout, KeyboardConnects,
     KeyboardLeaves, OtherTraffic, Restart
<1> QED
  BY <1>1, <1>2, <1>3, <1>4, <1>5 DEF Next

LEMMA NewestStep ==
  TypeOK /\ LostLeavesNone /\ NewestIsTold /\ [Next]_vars => NewestIsTold'
<1> SUFFICES ASSUME TypeOK, LostLeavesNone, NewestIsTold, [Next]_vars
             PROVE  NewestIsTold'
  OBVIOUS
<1> USE DEF policyVars, idleVars, eventVars, keyboardVars
<1>1. ASSUME NEW c \in Callers, SetterStep(c)
      PROVE  NewestIsTold'
  BY <1>1, CallTells DEF SetterStep
<1>2. CASE IdleTaskStep
  BY <1>2, EmitTells DEF IdleTaskStep, IdleActivity, IdleTimeoutChanged,
     IdleElapses, IdleBecomes, NextTurn, TypeOK
<1>3. CASE RestoreLight
  BY <1>3 DEF RestoreLight, NewestIsTold, LostLeavesNone, Told, Newest, Effective, InFlight
<1>4. CASE FollowEvent
  <2>1. Newest' = Newest
    BY <1>4, TailKeepsNewest DEF FollowEvent, Newest, TypeOK
  <2>2. Told => Told'
    BY <1>4, <2>1 DEF FollowEvent, Told, Effective, InFlight
  <2> QED
    BY <1>4, <2>2 DEF FollowEvent, NewestIsTold
<1>5. ASSUME NEW c \in Callers, NEW new \in Level, SetLevel(c, new)
      PROVE  NewestIsTold'
  BY <1>5, CallTells
<1>6. CASE SuspendStart \/ SuspendEnd \/ AmbientChanges
  BY <1>6, EmitTells DEF SuspendStart, SuspendEnd, AmbientChanges, TypeOK
<1>7. CASE Activity \/ \E on \in BOOLEAN : SetIdleTimeout(on)
  BY <1>7, OtherStepTells DEF Activity, SetIdleTimeout
<1>8. CASE KeyboardConnects \/ KeyboardLeaves \/ Restart
  BY <1>8 DEF KeyboardConnects, KeyboardLeaves, Restart, NewestIsTold
<1>9. CASE OtherTraffic
  <2>1. lights' # <<>> => Newest' = Newest /\ lost' = FALSE
    BY <1>9, TailKeepsNewest DEF OtherTraffic, Newest, TypeOK
  <2>2. lights' = <<>> => lost'
    BY <1>9 DEF OtherTraffic
  <2>3. Told => Told'
    BY <1>9, <2>1, <2>2 DEF OtherTraffic, LostLeavesNone, Told, Effective, InFlight
  <2> QED
    BY <1>9, <2>3 DEF OtherTraffic, NewestIsTold
<1>10. CASE UNCHANGED vars
  BY <1>10, OtherStepTells DEF vars
<1> QED
  BY <1>1, <1>2, <1>3, <1>4, <1>5, <1>6, <1>7, <1>8, <1>9, <1>10, NextIsLevel
     DEF Next, ControlTaskStep, EnvironmentStep, ToggleLevel, TypeOK

(* Whatever suspends, idles, reconnects, restarts or overlapping requests  *)
(* happened: a keyboard that has caught up shows the effective level,      *)
(* unless the newest event was out of date when it was sent, or was        *)
(* overwritten by other events before the keyboard's task received it.     *)
THEOREM CaughtUpLightIsEffective == Spec => []LightIsEffective
<1>1. Init => NewestIsTold /\ LostLeavesNone
  BY DEF Init, NewestIsTold, LostLeavesNone
<1> QED
  BY <1>1, TypeCorrect, LostStep, NewestStep, NewestIsToldImplies, PTL DEF Spec

-----------------------------------------------------------------------------
(* Two things break the comment `when suspended, both backlight and mic     *)
(* mute led are disabled': an event for the keyboard that other events      *)
(* overwrite, which SuspendedIsDark sets aside, and the await of set and    *)
(* toggle, the finding of SuspendDark.  There is no third: no event is out  *)
(* of date when it is sent if the effective level stays what it is while a  *)
(* call that will send is under way. *)
Undisturbed ==
    \A c \in Callers : InFlight(c) /\ call'[c] = call[c] => Effective' = Effective

CallsAreFresh ==
    /\ ~late
    /\ \A c \in Callers : InFlight(c) => call[c].effective = Effective

(* A step of no call: the level is what every call under way captured. *)
LEMMA OthersKeepFresh ==
  ASSUME CallsAreFresh, Undisturbed, UNCHANGED call, late' \in {late, FALSE}
  PROVE  CallsAreFresh'
<1>1. ~late'
  BY Zenon DEF CallsAreFresh
<1>2. \A c \in Callers : InFlight(c)' => call'[c].effective = Effective'
  BY DEF CallsAreFresh, Undisturbed, InFlight
<1> QED
  BY <1>1, <1>2 DEF CallsAreFresh

LEMMA CallsKeepFresh ==
  ASSUME TypeOK, CallsAreFresh, Undisturbed, NEW c \in Callers
  PROVE  /\ \A new \in Level : SetLevel(c, new) => CallsAreFresh'
         /\ PersistLevel(c) => CallsAreFresh'
         /\ SendLevel(c) => CallsAreFresh'
<1> USE DEF policyVars, eventVars
<1>1. call \in [Callers -> [pc : {"idle", "persist", "send"}, level : Level,
                            effective : Level, send : BOOLEAN]]
  BY DEF TypeOK
<1>2. ASSUME \A d \in Callers \ {c} : call'[d] = call[d]
      PROVE  \A d \in Callers \ {c} : InFlight(d)' => call'[d].effective = Effective'
  BY <1>2 DEF CallsAreFresh, Undisturbed, InFlight
<1>3. ASSUME NEW new \in Level, SetLevel(c, new)
      PROVE  CallsAreFresh'
  <2> DEFINE k == [pc |-> "persist", level |-> new, effective |-> Effective',
                   send |-> new # requested \/ Effective' # Effective]
  <2>1. call' = [call EXCEPT ![c] = k] /\ late' = late
    BY <1>3 DEF SetLevel
  <2>2. k.effective = Effective'
    OBVIOUS
  <2> HIDE DEF k
  <2>3. call'[c].effective = Effective' /\ \A d \in Callers \ {c} : call'[d] = call[d]
    BY <1>1, <2>1, <2>2
  <2> QED
    BY <1>2, <2>1, <2>3 DEF CallsAreFresh
<1>4. ASSUME PersistLevel(c) \/ SendLevel(c)
      PROVE  Effective' = Effective /\ \A d \in Callers \ {c} : call'[d] = call[d]
  BY <1>1, <1>4 DEF PersistLevel, SendLevel, Effective
<1>5. ASSUME PersistLevel(c)
      PROVE  CallsAreFresh'
  <2>1. InFlight(c)' = InFlight(c) /\ call'[c].effective = call[c].effective /\ late' = late
    BY <1>1, <1>5 DEF PersistLevel, InFlight
  <2> QED
    BY <1>2, <1>4, <1>5, <2>1 DEF CallsAreFresh
<1>6. ASSUME SendLevel(c)
      PROVE  CallsAreFresh'
  <2>1. ~InFlight(c)'
    BY <1>1, <1>6 DEF SendLevel, InFlight, NoCall
  <2>2. call[c].send => call[c].effective = Effective
    BY <1>6 DEF SendLevel, CallsAreFresh, InFlight
  <2>3. ~late'
    BY <1>6, <2>2 DEF SendLevel, CallsAreFresh
  <2> QED
    BY <1>2, <1>4, <1>6, <2>1, <2>3 DEF CallsAreFresh
<1> QED
  BY <1>3, <1>5, <1>6

LEMMA FreshStep ==
  TypeOK /\ CallsAreFresh /\ [Next]_vars /\ [Undisturbed]_vars => CallsAreFresh'
<1> SUFFICES ASSUME TypeOK, CallsAreFresh, [Next]_vars, [Undisturbed]_vars
             PROVE  CallsAreFresh'
  OBVIOUS
<1>1. CASE UNCHANGED vars
  BY <1>1 DEF vars, CallsAreFresh, InFlight, Effective
<1> SUFFICES ASSUME Next, Undisturbed PROVE CallsAreFresh'
  BY <1>1
<1> USE DEF policyVars, idleVars, eventVars, keyboardVars
<1>2. ASSUME NEW c \in Callers,
             SetterStep(c) \/ ToggleLevel(c) \/ \E new \in Level : SetLevel(c, new)
      PROVE  CallsAreFresh'
  BY <1>2, CallsKeepFresh, NextIsLevel DEF SetterStep, ToggleLevel, TypeOK
<1>3. CASE IdleTaskStep
  BY <1>3, OthersKeepFresh DEF IdleTaskStep, IdleActivity, IdleTimeoutChanged,
     IdleElapses, IdleBecomes, NextTurn, EmitIfChanged
<1>4. CASE ControlTaskStep
  BY <1>4, OthersKeepFresh DEF ControlTaskStep, RestoreLight, FollowEvent
<1>5. CASE SuspendStart \/ SuspendEnd \/ AmbientChanges
  BY <1>5, OthersKeepFresh DEF SuspendStart, SuspendEnd, AmbientChanges, EmitIfChanged
<1>6. CASE Activity \/ \E on \in BOOLEAN : SetIdleTimeout(on)
  BY <1>6, OthersKeepFresh DEF Activity, SetIdleTimeout
<1>7. CASE KeyboardConnects \/ KeyboardLeaves \/ OtherTraffic
  BY <1>7, OthersKeepFresh DEF KeyboardConnects, KeyboardLeaves, OtherTraffic
<1>8. CASE Restart
  BY <1>8 DEF Restart, CallsAreFresh, InFlight, NoCall
<1> QED
  BY <1>2, <1>3, <1>4, <1>5, <1>6, <1>7, <1>8 DEF Next, EnvironmentStep

(* If nothing else changes the effective level while a set or a toggle      *)
(* awaits the state file, a suspended machine whose keyboard has received   *)
(* everything, the newest level not lost to other events, is dark.          *)
THEOREM UndisturbedCallsKeepDark ==
  Spec /\ [][Undisturbed]_vars => []SuspendedIsDark
<1>1. Init => CallsAreFresh
  BY DEF Init, CallsAreFresh, InFlight, NoCall
<1>2. CallsAreFresh /\ LightIsEffective => SuspendedIsDark
  BY DEF CallsAreFresh, LightIsEffective, SuspendedIsDark, Effective, EffectiveOf
<1> QED
  BY <1>1, <1>2, TypeCorrect, CaughtUpLightIsEffective, FreshStep, PTL DEF Spec

-----------------------------------------------------------------------------
(* The safety half of DisabledEndsIdle.  A sleep that was armed before the  *)
(* timeout was switched off may still win and make the keyboard dark; the   *)
(* change that ends this is then still in the watch channel.                *)
IdleWillEnd == idle /\ ~timeoutOn => timeoutNews
SleepIsKnown == timeoutArmed /\ ~timeoutOn => timeoutNews

(* Whenever the keyboard is idle with detection off, the idle task has the  *)
(* change still to come that will wake it.                                  *)
THEOREM IdleIsNeverStranded == Spec => []IdleWillEnd
<1>1. Init => IdleWillEnd /\ SleepIsKnown
  BY DEF Init, IdleWillEnd, SleepIsKnown
<1>2. ASSUME TypeOK, IdleWillEnd, SleepIsKnown, [Next]_vars
      PROVE  IdleWillEnd' /\ SleepIsKnown'
  <2> USE DEF IdleWillEnd, SleepIsKnown, policyVars, idleVars
  <2>1. CASE UNCHANGED vars
    BY <1>2, <2>1 DEF vars
  <2>2. CASE IdleTaskStep
    BY <1>2, <2>2 DEF IdleTaskStep, IdleActivity, IdleTimeoutChanged, IdleElapses,
       IdleBecomes, NextTurn, TypeOK
  <2>3. CASE ControlTaskStep \/ \E c \in Callers : SetterStep(c)
    BY <1>2, <2>3 DEF ControlTaskStep, RestoreLight, FollowEvent, SetterStep,
       PersistLevel, SendLevel
  <2>4. CASE EnvironmentStep
    BY <1>2, <2>4 DEF EnvironmentStep, ToggleLevel, SetLevel, SuspendStart, SuspendEnd,
       AmbientChanges, Activity, SetIdleTimeout, KeyboardConnects, KeyboardLeaves,
       OtherTraffic, Restart
  <2> QED
    BY <1>2, <2>1, <2>2, <2>3, <2>4 DEF Next
<1> QED
  BY <1>1, <1>2, TypeCorrect, PTL DEF Spec
=============================================================================
