---------------------- MODULE SessionRegistration_proofs ----------------------
(***************************************************************************)
(* Proofs about the apply guard, for any maximum and any number of timers, *)
(* and about the registration of session daemons and their use of the      *)
(* guard, for any number of daemons and connections.                       *)
(***************************************************************************)
EXTENDS SessionRegistration, SequenceTheorems, TLAPS

(* The guard's state is well formed: the counter never goes below zero     *)
(* (saturating_sub), and the timers started before a resume are some of    *)
(* the timers running.                                                     *)
THEOREM GuardTypeCorrect == GuardSpec => []GuardTypeOK
<1> DEFINE Counters == attempts \in Nat /\ decays \in Nat /\ stale \in 0..decays
<1>1. GuardInit => GuardTypeOK
  <2>1. GuardInit => Counters
    BY DEF GuardInit
  <2>2. GuardInit => paused \in BOOLEAN
    BY DEF GuardInit
  <2> QED
    BY <2>1, <2>2 DEF GuardTypeOK
<1>2. GuardTypeOK /\ [GuardNext]_guardVars => GuardTypeOK'
  <2> SUFFICES ASSUME GuardTypeOK, [GuardNext]_guardVars PROVE GuardTypeOK'
    OBVIOUS
  <2>1. Counters'
    <3>1. CASE Admit
      BY <3>1 DEF Admit, GuardTypeOK
    <3>2. CASE Exceed
      BY <3>2 DEF Exceed, GuardTypeOK
    <3>3. CASE RefusePaused \/ UNCHANGED guardVars
      BY <3>3 DEF RefusePaused, guardVars, GuardTypeOK
    <3>4. CASE Resume
      BY <3>4 DEF Resume, GuardTypeOK
    <3>5. CASE Decay
      BY <3>5 DEF Decay, GuardTypeOK
    <3>6. CASE GuardRestart
      BY <3>6 DEF GuardRestart, GuardTypeOK
    <3> QED
      BY <3>1, <3>2, <3>3, <3>4, <3>5, <3>6 DEF GuardNext
  <2>2. (paused \in BOOLEAN)'
    BY DEF GuardTypeOK, GuardNext, Admit, Exceed, RefusePaused, Resume, Decay,
           GuardRestart, guardVars
  <2> QED
    BY <2>1, <2>2 DEF GuardTypeOK
<1> QED
  BY <1>1, <1>2, PTL DEF GuardSpec

(* Resumes, refusals, timers and restarts in any order leave no attempt    *)
(* counted without a timer that takes it off.                              *)
THEOREM BudgetNeverLeaks == GuardSpec => []BudgetNotLeaked
<1>1. GuardInit => BudgetNotLeaked
  BY DEF GuardInit, BudgetNotLeaked
<1>2. GuardTypeOK /\ BudgetNotLeaked /\ [GuardNext]_guardVars => BudgetNotLeaked'
  <2> SUFFICES ASSUME GuardTypeOK, BudgetNotLeaked, [GuardNext]_guardVars
               PROVE  BudgetNotLeaked'
    OBVIOUS
  <2> USE DEF GuardTypeOK, BudgetNotLeaked
  <2>1. CASE Admit
    BY <2>1 DEF Admit
  <2>2. CASE Exceed
    BY <2>2 DEF Exceed
  <2>3. CASE RefusePaused \/ UNCHANGED guardVars
    BY <2>3 DEF RefusePaused, guardVars
  <2>4. CASE Resume \/ GuardRestart
    BY <2>4 DEF Resume, GuardRestart
  <2>5. CASE Decay
    BY <2>5 DEF Decay
  <2> QED
    BY <2>1, <2>2, <2>3, <2>4, <2>5 DEF GuardNext
<1> QED
  BY <1>1, <1>2, GuardTypeCorrect, PTL DEF GuardSpec

(* A guard that is not paused is within the maximum, and the attempt that  *)
(* pauses it is the only one above.                                        *)
THEOREM CounterWithinMaximum == GuardSpec => []WithinMaximum
<1>1. GuardInit => WithinMaximum
  BY GuardAssumption DEF GuardInit, WithinMaximum
<1>2. GuardTypeOK /\ WithinMaximum /\ [GuardNext]_guardVars => WithinMaximum'
  <2> SUFFICES ASSUME GuardTypeOK, WithinMaximum, [GuardNext]_guardVars
               PROVE  WithinMaximum'
    OBVIOUS
  <2> USE GuardAssumption DEF GuardTypeOK, WithinMaximum
  <2>1. CASE Admit
    BY <2>1 DEF Admit
  <2>2. CASE Exceed
    BY <2>2 DEF Exceed
  <2>3. CASE RefusePaused \/ UNCHANGED guardVars
    BY <2>3 DEF RefusePaused, guardVars
  <2>4. CASE Resume \/ GuardRestart
    BY <2>4 DEF Resume, GuardRestart
  <2>5. CASE Decay
    BY <2>5 DEF Decay
  <2> QED
    BY <2>1, <2>2, <2>3, <2>4, <2>5 DEF GuardNext
<1> QED
  BY <1>1, <1>2, GuardTypeCorrect, PTL DEF GuardSpec

(* The documented budget: what breaks it is a resume while timers run.  If  *)
(* every resume comes when none does, five seconds after the last attempt   *)
(* that was admitted, then at most the maximum pass in any window.          *)
THEOREM PatientResumesKeepBudget ==
    GuardSpec /\ [][Resume => decays = 0]_guardVars => []BudgetInWindow
<1> DEFINE Counted == stale = 0 /\ attempts = decays + (IF paused THEN 1 ELSE 0)
<1>1. GuardInit => Counted
  BY DEF GuardInit
<1>2. /\ GuardTypeOK /\ WithinMaximum /\ Counted
      /\ [GuardNext]_guardVars /\ [Resume => decays = 0]_guardVars
      => Counted'
  <2> SUFFICES ASSUME GuardTypeOK, Counted, GuardNext, Resume => decays = 0
               PROVE  Counted'
    BY DEF guardVars
  <2> USE DEF GuardTypeOK
  <2>1. CASE Admit
    BY <2>1 DEF Admit
  <2>2. CASE Exceed
    BY <2>2 DEF Exceed
  <2>3. CASE RefusePaused
    BY <2>3 DEF RefusePaused, guardVars
  <2>4. CASE Resume \/ GuardRestart
    BY <2>4 DEF Resume, GuardRestart
  <2>5. CASE Decay
    BY <2>5 DEF Decay
  <2> QED
    BY <2>1, <2>2, <2>3, <2>4, <2>5 DEF GuardNext
<1>3. GuardTypeOK /\ WithinMaximum /\ Counted => BudgetInWindow
  BY GuardAssumption DEF GuardTypeOK, WithinMaximum, BudgetInWindow
<1> QED
  BY <1>1, <1>2, <1>3, GuardTypeCorrect, CounterWithinMaximum, PTL DEF GuardSpec

-----------------------------------------------------------------------------
USE ConnAssumption

-----------------------------------------------------------------------------
(* Whatever daemons register, displace one another, stop and ask: what     *)
(* happens to the guard is what ApplyGuard says.                           *)
LEMMA GuardStep == [Next]_vars => [GuardNext]_guardVars
<1> SUFFICES ASSUME [Next]_vars PROVE GuardNext \/ UNCHANGED guardVars
  OBVIOUS
<1>1. ASSUME NEW s \in Sessions, ClientStep(s) \/ AskPermit(s) \/ SessionStarts(s) \/ SessionStops(s)
      PROVE  UNCHANGED guardVars
  BY <1>1 DEF ClientStep, Connect, Reconnect, AskPermit, SessionStarts, SessionStops
<1>2. ASSUME NEW s \in Sessions, DisplayStep(s)
      PROVE  GuardNext \/ UNCHANGED guardVars
  BY <1>2 DEF DisplayStep, Permitted, Refused, Mismatch, Denied, Apply, GuardNext
<1>3. ASSUME NEW c \in Conns, Store(c) \/ Deny(c)
      PROVE  UNCHANGED guardVars
  BY <1>3 DEF Store, Deny
<1>4. CASE ForgetGone
  BY <1>4 DEF ForgetGone
<1>5. CASE DecayFires \/ AdministratorResumes \/ RootRestarts
  BY <1>5 DEF DecayFires, AdministratorResumes, RootRestarts, GuardNext
<1>6. CASE UNCHANGED vars
  BY <1>6 DEF vars, guardVars
<1> QED
  BY <1>1, <1>2, <1>3, <1>4, <1>5, <1>6 DEF Next

THEOREM RegistrationKeepsToTheGuard == Spec => GuardSpec
<1>1. Init => GuardInit
  BY DEF Init
<1> QED
  BY <1>1, GuardStep, PTL DEF Spec, GuardSpec

(* So the budget does not leak in the whole system, either, ...            *)
THEOREM SystemBudgetNeverLeaks == Spec => []BudgetNotLeaked
  BY RegistrationKeepsToTheGuard, BudgetNeverLeaks, PTL

(* ... and stays within the maximum.                                       *)
THEOREM SystemWithinMaximum == Spec => []WithinMaximum
  BY RegistrationKeepsToTheGuard, CounterWithinMaximum, PTL

-----------------------------------------------------------------------------
(* TypeOK is not inductive: that only bus names are reported as gone needs *)
(* that a task which drops its connection has one.                         *)
ConnTypeOK ==
    /\ registration \in MaybeConn
    /\ handler \subseteq Conns
    /\ gone \in Seq(Conns)
    /\ client \in [Sessions -> [pc : {"stopped", "down", "register", "ready"}, conn : MaybeConn]]
    /\ display \in [Sessions -> [pc : {"idle", "ask", "reregister", "retry", "apply"},
                                 conn : MaybeConn]]
HoldersHaveConn ==
    \A s \in Sessions : /\ client[s].pc \in {"register", "ready"} => client[s].conn \in Conns
                        /\ display[s].pc # "idle" => display[s].conn \in Conns

ConnInv == ConnTypeOK /\ HoldersHaveConn

LEMMA GoneTyped ==
  ASSUME ConnTypeOK, NEW c \in Conns, ReportsGone(c)
  PROVE  gone' \in Seq(Conns)
  BY AppendProperties DEF ReportsGone, ConnTypeOK

LEMMA EmptyHands ==
  /\ Free \in [pc : {"stopped", "down", "register", "ready"}, conn : MaybeConn]
  /\ Stopped \in [pc : {"stopped", "down", "register", "ready"}, conn : MaybeConn]
  /\ NoApply \in [pc : {"idle", "ask", "reregister", "retry", "apply"}, conn : MaybeConn]
  /\ Free.pc = "down" /\ Stopped.pc = "stopped" /\ NoApply.pc = "idle"
  BY DEF Free, Stopped, NoApply, MaybeConn

LEMMA GiveUpStep ==
  ASSUME ConnInv, NEW s \in Sessions, display[s].pc # "idle", GiveUp(s)
  PROVE  ConnInv'
<1>1. gone' \in Seq(Conns)
  BY GoneTyped DEF GiveUp, ConnInv, HoldersHaveConn
<1> QED
  BY <1>1, EmptyHands DEF GiveUp, ConnInv, ConnTypeOK, HoldersHaveConn

LEMMA ConnStep == ConnInv /\ [Next]_vars => ConnInv'
<1> SUFFICES ASSUME ConnInv, [Next]_vars PROVE ConnInv'
  OBVIOUS
<1> USE DEF rootVars
<1>1. ASSUME NEW s \in Sessions, Connect(s) PROVE ConnInv'
  <2>1. PICK c \in Conns : /\ client' = [client EXCEPT ![s] = [pc |-> "register", conn |-> c]]
                           /\ handler' = handler \cup {c}
    BY <1>1 DEF Connect
  <2>2. UNCHANGED <<registration, gone, display>>
    BY <1>1 DEF Connect
  <2> QED
    BY <2>1, <2>2 DEF ConnInv, ConnTypeOK, HoldersHaveConn, MaybeConn
<1>2. ASSUME NEW s \in Sessions, Reconnect(s) PROVE ConnInv'
  <2>1. gone' \in Seq(Conns)
    BY <1>2, GoneTyped DEF Reconnect, ConnInv, HoldersHaveConn
  <2> QED
    BY <1>2, <2>1, EmptyHands DEF Reconnect, ConnInv, ConnTypeOK, HoldersHaveConn
<1>3. ASSUME NEW s \in Sessions, AskPermit(s) PROVE ConnInv'
  BY <1>3 DEF AskPermit, ConnInv, ConnTypeOK, HoldersHaveConn
<1>4. ASSUME NEW s \in Sessions, SessionStarts(s) PROVE ConnInv'
  BY <1>4, EmptyHands DEF SessionStarts, ConnInv, ConnTypeOK, HoldersHaveConn
<1>5. ASSUME NEW s \in Sessions, SessionStops(s) PROVE ConnInv'
  <2>1. gone' \in Seq(Conns)
    <3> DEFINE c == client[s].conn
               d == display[s].conn
               C == IF c = NoConn THEN <<>> ELSE <<c>>
               D == IF d \in {c, NoConn} THEN <<>> ELSE <<d>>
    <3>1. c \in MaybeConn /\ d \in MaybeConn /\ gone \in Seq(Conns)
      BY DEF ConnInv, ConnTypeOK
    <3>2. C \in Seq(Conns) /\ D \in Seq(Conns)
      BY <3>1, EmptySeq DEF MaybeConn
    <3>3. gone' = gone \o C \o D
      BY <1>5 DEF SessionStops
    <3> HIDE DEF C, D
    <3> QED
      BY <3>1, <3>2, <3>3, ConcatProperties
  <2> QED
    BY <1>5, <2>1, EmptyHands DEF SessionStops, ConnInv, ConnTypeOK, HoldersHaveConn
<1>6. ASSUME NEW s \in Sessions, Permitted(s) PROVE ConnInv'
  BY <1>6 DEF Permitted, Asking, ConnInv, ConnTypeOK, HoldersHaveConn
<1>7. ASSUME NEW s \in Sessions, Refused(s) \/ Denied(s) \/ Apply(s) PROVE ConnInv'
  BY <1>7, GiveUpStep DEF Refused, Denied, Apply, Asking
<1>8. ASSUME NEW s \in Sessions, Mismatch(s) PROVE ConnInv'
  BY <1>8 DEF Mismatch, ConnInv, ConnTypeOK, HoldersHaveConn
<1>9. ASSUME NEW c \in Conns, Store(c) PROVE ConnInv'
  BY <1>9 DEF Store, ConnInv, ConnTypeOK, HoldersHaveConn, MaybeConn
<1>10. ASSUME NEW c \in Conns, Deny(c) PROVE ConnInv'
  <2>1. gone' \in Seq(Conns)
    BY <1>10, GoneTyped DEF Deny, ConnInv, ConnTypeOK
  <2> QED
    BY <1>10, <2>1, EmptyHands DEF Deny, ConnInv, ConnTypeOK, HoldersHaveConn
<1>11. CASE ForgetGone
  BY <1>11, HeadTailProperties DEF ForgetGone, ConnInv, ConnTypeOK, HoldersHaveConn, MaybeConn
<1>12. CASE DecayFires \/ AdministratorResumes
  BY <1>12 DEF DecayFires, AdministratorResumes, ConnInv, ConnTypeOK, HoldersHaveConn
<1>13. CASE RootRestarts
  BY <1>13, EmptySeq, EmptyHands DEF RootRestarts, ConnInv, ConnTypeOK, HoldersHaveConn, MaybeConn
<1>14. CASE UNCHANGED vars
  BY <1>14 DEF vars, ConnInv, ConnTypeOK, HoldersHaveConn
<1> QED
  BY <1>1, <1>2, <1>3, <1>4, <1>5, <1>6, <1>7, <1>8, <1>9, <1>10, <1>11, <1>12, <1>13, <1>14
     DEF Next, ClientStep, DisplayStep

(* Only connections are registered, handled or reported as gone, and a     *)
(* task that uses a connection has one.                                    *)
THEOREM TypeCorrect == Spec => []TypeOK
<1>1. Init => ConnInv
  BY EmptySeq, EmptyHands DEF Init, ConnInv, ConnTypeOK, HoldersHaveConn, MaybeConn
<1>2. GuardTypeOK /\ ConnInv => TypeOK
  BY DEF TypeOK, ConnInv, ConnTypeOK
<1>3. Spec => []GuardTypeOK
  BY RegistrationKeepsToTheGuard, GuardTypeCorrect, PTL
<1> QED
  BY <1>1, <1>2, <1>3, ConnStep, PTL DEF Spec

-----------------------------------------------------------------------------
(* register_session stores its caller without looking whether it is still  *)
(* there.  If it is, no dead connection stays registered: the report that  *)
(* it is gone is still to come.                                            *)
LivingCallers == \A c \in Conns : Store(c) => Open(c)

Occurs(c, q) == \E i \in 1..Len(q) : q[i] = c
Reported(c) == Occurs(c, gone)
DeadAreReported ==
    registration # NoConn => Open(registration) \/ Reported(registration)

(* The state says that a task has no connection exactly when it needs none. *)
EmptyHanded ==
    \A s \in Sessions : /\ client[s].pc \in {"stopped", "down"} => client[s].conn = NoConn
                        /\ display[s].pc = "idle" => display[s].conn = NoConn

(* A report is added at the end, and the others stay. *)
LEMMA ConcatOccurs ==
  ASSUME NEW q \in Seq(Conns), NEW r \in Seq(Conns)
  PROVE  /\ q \o r \in Seq(Conns)
         /\ \A c : Occurs(c, q) \/ Occurs(c, r) => Occurs(c, q \o r)
<1> DEFINE both == q \o r
<1>1. /\ both \in Seq(Conns) /\ Len(both) = Len(q) + Len(r) /\ Len(q) \in Nat /\ Len(r) \in Nat
      /\ \A i \in 1..Len(q) : both[i] = q[i]
      /\ \A i \in 1..Len(r) : both[Len(q) + i] = r[i]
  BY ConcatProperties, LenProperties
<1> HIDE DEF both
<1>2. ASSUME NEW i \in 1..Len(q) PROVE Occurs(q[i], both)
  BY <1>1 DEF Occurs
<1>3. ASSUME NEW i \in 1..Len(r) PROVE Occurs(r[i], both)
  <2>1. Len(q) + i \in 1..Len(both)
    BY <1>1
  <2> QED
    BY <1>1, <2>1 DEF Occurs
<1>4. \A c : Occurs(c, q) \/ Occurs(c, r) => Occurs(c, both)
  BY <1>2, <1>3 DEF Occurs
<1> QED
  BY <1>1, <1>4 DEF both

LEMMA OccursAlone == \A c : Occurs(c, <<c>>)
<1> TAKE c
<1>1. Len(<<c>>) = 1 /\ <<c>>[1] = c
  OBVIOUS
<1> QED
  BY <1>1 DEF Occurs

(* Tasks that let go of no more than c. *)
LetsGo(c) ==
    \A s \in Sessions : /\ client[s].conn = c \/ client'[s].conn = client[s].conn
                        /\ display[s].conn = c \/ display'[s].conn = display[s].conn

LEMMA DropIsReported ==
  ASSUME ConnTypeOK, DeadAreReported, UNCHANGED registration,
         NEW c \in Conns, LetsGo(c), ReportsGone(c)
  PROVE  DeadAreReported'
<1>1. CASE UNCHANGED gone /\ Open(c)'
  BY <1>1 DEF DeadAreReported, Open, Holds, Reported, LetsGo
<1>2. CASE gone' = Append(gone, c)
  <2>1. <<c>> \in Seq(Conns) /\ gone \in Seq(Conns)
    BY DEF ConnTypeOK
  <2>2. gone' = gone \o <<c>>
    BY <1>2, <2>1, AppendIsConcat
  <2>3. Reported(c)' /\ \A d : Reported(d) => Reported(d)'
    BY <2>1, <2>2, ConcatOccurs, OccursAlone DEF Reported
  <2> QED
    BY <2>3 DEF DeadAreReported, Open, Holds, LetsGo
<1> QED
  BY <1>1, <1>2 DEF ReportsGone, Open, Holds

(* Tasks that let go of nothing, and no report handled. *)
LEMMA HoldersStay ==
  ASSUME DeadAreReported, UNCHANGED <<registration, gone>>, LetsGo(NoConn)
  PROVE  DeadAreReported'
  BY DEF DeadAreReported, Open, Holds, Reported, LetsGo

LEMMA GiveUpReports ==
  ASSUME ConnInv, EmptyHanded, DeadAreReported,
         NEW s \in Sessions, display[s].pc # "idle", GiveUp(s)
  PROVE  EmptyHanded' /\ DeadAreReported'
<1>1. display[s].conn \in Conns
  BY DEF ConnInv, HoldersHaveConn
<1>2. LetsGo(display[s].conn)
  BY DEF GiveUp, LetsGo, ConnInv, ConnTypeOK
<1>3. EmptyHanded'
  BY DEF GiveUp, NoApply, EmptyHanded, ConnInv, ConnTypeOK
<1> QED
  BY <1>1, <1>2, <1>3, DropIsReported DEF GiveUp, ConnInv

LEMMA ClientReports ==
  ASSUME ConnInv, EmptyHanded, DeadAreReported, NEW s \in Sessions,
         ClientStep(s) \/ SessionStarts(s) \/ SessionStops(s)
  PROVE  EmptyHanded' /\ DeadAreReported'
<1> USE ConnAssumption DEF rootVars, ConnInv, ConnTypeOK
<1>1. CASE Connect(s)
  <2>1. PICK c \in Conns : client' = [client EXCEPT ![s] = [pc |-> "register", conn |-> c]]
    BY <1>1 DEF Connect
  <2>2. EmptyHanded'
    BY <1>1, <2>1 DEF Connect, EmptyHanded
  <2>3. LetsGo(NoConn)
    BY <1>1, <2>1 DEF Connect, EmptyHanded, LetsGo
  <2> QED
    BY <1>1, <2>2, <2>3, HoldersStay DEF Connect
<1>2. CASE Reconnect(s)
  <2>1. client[s].conn \in Conns /\ LetsGo(client[s].conn)
    BY <1>2 DEF Reconnect, HoldersHaveConn, LetsGo
  <2>2. EmptyHanded'
    BY <1>2 DEF Reconnect, EmptyHanded, Free
  <2> QED
    BY <1>2, <2>1, <2>2, DropIsReported DEF Reconnect
<1>3. CASE SessionStarts(s)
  <2>1. LetsGo(NoConn) /\ EmptyHanded'
    BY <1>3 DEF SessionStarts, EmptyHanded, LetsGo, Free
  <2> QED
    BY <1>3, <2>1, HoldersStay DEF SessionStarts
<1>4. CASE SessionStops(s)
  <2> DEFINE c == client[s].conn
             d == display[s].conn
             C == IF c = NoConn THEN <<>> ELSE <<c>>
             D == IF d \in {c, NoConn} THEN <<>> ELSE <<d>>
  <2>1. c \in MaybeConn /\ d \in MaybeConn /\ gone \in Seq(Conns)
    OBVIOUS
  <2>2. gone' = (gone \o C) \o D /\ UNCHANGED registration
    BY <1>4 DEF SessionStops
  <2>3. EmptyHanded'
    BY <1>4 DEF SessionStops, EmptyHanded, Stopped, NoApply
  <2>4. \A t \in Sessions \ {s} : client'[t] = client[t] /\ display'[t] = display[t]
    BY <1>4 DEF SessionStops
  <2>5. C \in Seq(Conns) /\ D \in Seq(Conns)
    BY <2>1, EmptySeq DEF MaybeConn
  <2>6. /\ c # NoConn => Occurs(c, C)
        /\ d \notin {c, NoConn} => Occurs(d, D)
    BY OccursAlone
  <2> HIDE DEF C, D
  <2>7. /\ gone \o C \in Seq(Conns)
        /\ \A e : Occurs(e, gone) \/ Occurs(e, C) \/ Occurs(e, D) => Occurs(e, gone')
    BY <2>1, <2>2, <2>5, ConcatOccurs
  <2>8. /\ \A e : Reported(e) => Reported(e)'
        /\ \A e \in {c, d} \ {NoConn} : Reported(e)'
    BY <2>6, <2>7 DEF Reported
  <2>9. ASSUME registration # NoConn, Open(registration)
        PROVE  Open(registration)' \/ registration \in {c, d} \ {NoConn}
    BY <2>2, <2>4, <2>9 DEF Open, Holds
  <2> QED
    BY <2>2, <2>3, <2>8, <2>9 DEF DeadAreReported
<1> QED
  BY <1>1, <1>2, <1>3, <1>4 DEF ClientStep

LEMMA CallReports ==
  ASSUME ConnInv, EmptyHanded, DeadAreReported, LivingCallers, NEW c \in Conns,
         Store(c) \/ Deny(c)
  PROVE  EmptyHanded' /\ DeadAreReported'
<1> USE ConnAssumption DEF ConnInv, ConnTypeOK
<1>1. CASE Store(c)
  <2>1. /\ \A s \in Sessions : /\ client'[s].conn = client[s].conn
                               /\ display'[s].conn = display[s].conn
        /\ registration' = c
    BY <1>1 DEF Store
  <2>2. EmptyHanded'
    BY <1>1 DEF Store, EmptyHanded
  <2>3. Open(c)'
    BY <1>1, <2>1 DEF LivingCallers, Open, Holds
  <2> QED
    BY <2>1, <2>2, <2>3 DEF DeadAreReported
<1>2. CASE Deny(c)
  <2>1. EmptyHanded'
    BY <1>2 DEF Deny, EmptyHanded, Free, NoApply
  <2>2. LetsGo(c) /\ UNCHANGED registration
    BY <1>2 DEF Deny, LetsGo
  <2>3. CASE Open(c)
    BY <1>2, <2>1, <2>2, <2>3, DropIsReported DEF Deny
  <2>4. CASE ~Open(c)
    <3>1. UNCHANGED gone /\ LetsGo(NoConn)
      BY <1>2, <2>2, <2>4 DEF Deny, Open, Holds, LetsGo
    <3> QED
      BY <2>1, <2>2, <3>1, HoldersStay
  <2> QED
    BY <2>3, <2>4
<1> QED
  BY <1>1, <1>2

LEMMA ForgetReports ==
  ASSUME ConnInv, DeadAreReported, ForgetGone
  PROVE  DeadAreReported'
<1>1. /\ gone # <<>> /\ gone \in Seq(Conns) /\ gone' = Tail(gone)
      /\ registration' = IF registration = Head(gone) THEN NoConn ELSE registration
      /\ UNCHANGED <<client, display>>
  BY DEF ForgetGone, ConnInv, ConnTypeOK
<1>2. /\ Head(gone) = gone[1] /\ Len(gone) \in Nat \ {0} /\ Len(gone') = Len(gone) - 1
      /\ \A i \in 1..Len(gone') : gone'[i] = gone[i + 1]
  BY <1>1, HeadTailProperties, EmptySeq
<1>3. ASSUME NEW c, c # Head(gone), Reported(c)
      PROVE  Reported(c)'
  <2>1. PICK i \in 1..Len(gone) : gone[i] = c
    BY <1>3 DEF Reported, Occurs
  <2>2. i - 1 \in 1..Len(gone') /\ gone'[i - 1] = gone[i]
    BY <1>2, <1>3, <2>1
  <2> QED
    BY <2>1, <2>2 DEF Reported, Occurs
<1> QED
  BY <1>1, <1>3 DEF DeadAreReported, Open, Holds

LEMMA ReportStep ==
  /\ ConnInv /\ EmptyHanded /\ DeadAreReported
  /\ [Next]_vars /\ [LivingCallers]_vars
  => EmptyHanded' /\ DeadAreReported'
<1> SUFFICES ASSUME ConnInv, EmptyHanded, DeadAreReported, [Next]_vars, [LivingCallers]_vars
             PROVE  EmptyHanded' /\ DeadAreReported'
  OBVIOUS
<1>1. CASE UNCHANGED vars
  BY <1>1 DEF vars, EmptyHanded, DeadAreReported, Open, Holds, Reported
<1> SUFFICES ASSUME Next, LivingCallers PROVE EmptyHanded' /\ DeadAreReported'
  BY <1>1
<1> USE ConnAssumption DEF rootVars
<1>2. ASSUME NEW s \in Sessions, AskPermit(s) \/ Permitted(s) \/ Mismatch(s)
      PROVE  EmptyHanded' /\ DeadAreReported'
  <2>1. UNCHANGED <<registration, gone, client>>
    BY <1>2 DEF AskPermit, Permitted, Mismatch
  <2>2. \A t \in Sessions \ {s} : display'[t] = display[t]
    BY <1>2 DEF AskPermit, Permitted, Mismatch, ConnInv, ConnTypeOK
  <2>3. display'[s].pc # "idle" /\ display[s].conn \in {display'[s].conn, NoConn}
    BY <1>2 DEF AskPermit, Permitted, Mismatch, EmptyHanded, ConnInv, ConnTypeOK
  <2>4. EmptyHanded' /\ LetsGo(NoConn)
    BY <2>1, <2>2, <2>3 DEF EmptyHanded, LetsGo
  <2> QED
    BY <2>1, <2>4, HoldersStay
<1>3. ASSUME NEW s \in Sessions, Refused(s) \/ Denied(s) \/ Apply(s)
      PROVE  EmptyHanded' /\ DeadAreReported'
  BY <1>3, GiveUpReports DEF Refused, Denied, Apply, Asking
<1>4. CASE ForgetGone
  BY <1>4, ForgetReports DEF ForgetGone, EmptyHanded
<1>5. CASE DecayFires \/ AdministratorResumes
  BY <1>5 DEF DecayFires, AdministratorResumes, EmptyHanded, DeadAreReported, Open, Holds,
     Reported
<1>6. CASE RootRestarts
  BY <1>6 DEF RootRestarts, EmptyHanded, DeadAreReported, Free, NoApply, ConnInv, ConnTypeOK
<1> QED
  BY <1>2, <1>3, <1>4, <1>5, <1>6, ClientReports, CallReports DEF Next, ClientStep, DisplayStep

(* If register_session only stored callers that are still there, the root  *)
(* would never go by a dead connection of which it is not told any more.   *)
THEOREM LivingCallersAreForgotten ==
  Spec /\ [][LivingCallers]_vars => []DeadAreReported
<1>1. Init => ConnInv /\ EmptyHanded /\ DeadAreReported
  BY EmptySeq, EmptyHands
  DEF Init, ConnInv, ConnTypeOK, HoldersHaveConn, MaybeConn, EmptyHanded, DeadAreReported,
      Stopped, NoApply
<1> QED
  BY <1>1, ConnStep, ReportStep, PTL DEF Spec
=============================================================================
