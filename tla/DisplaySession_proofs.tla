----------------------- MODULE DisplaySession_proofs -----------------------
(* Proofs about the display task, for any channel size, depth and number   *)
(* of attempts.                                                            *)
EXTENDS DisplaySession, SequenceTheorems, TLAPS

(* Who holds the lock and has set apply_busy. *)
Locking ==
    /\ job["reconcile"].pc \in {"none", "lock", "read", "turn", "apply", "verify"}
    /\ job["recovery"].pc \in {"none", "spawned", "read", "turn", "apply", "verify",
                               "sleep", "aborted"}
    /\ Applying("reconcile") => serial = "reconcile"
    /\ Applying("recovery") => serial = "recovery" /\ busy
    /\ job["recovery"].pc = "aborted"
          => serial = "recovery" /\ job["reconcile"].pc = "lock"
    /\ job["reconcile"].pc # "none" => job["recovery"].pc \in {"none", "aborted"}
    /\ busy => job["reconcile"].pc # "none" \/ job["recovery"].pc # "none"

(* The count of the loop, and the history it stands for. *)
Throttle ==
    /\ deep < MaxDeep
    /\ quiet # "none" => deep = 0 /\ ~followup /\ streak = 0
    /\ ~LoopIsFree => quiet = "none" /\ ~deadline
    /\ ~lagged => streak = deep + (IF followup THEN 1 ELSE 0)
    /\ ~lagged /\ (deadline \/ ~LoopIsFree) => ~followup

(* What is still to come when the session's inputs, or the layout, are not *)
(* those the last apply was for.                                           *)
InputsPending ==
    \/ missed \/ deadline \/ wants # <<>> \/ turned.held > 0 \/ turned.lost \/ nudges > 0
    \/ job["reconcile"].pc = "lock" \/ watcher.pc = "nudge"
LayoutPending == changed \/ watcher.pc # "wait"

(* News of a panel that came or went has still to reach the loop. *)
NewsPending ==
    changed \/ (watcher.pc = "settle" /\ ~busy) \/ watcher.pc = "report"

(* A running attempt aims at the present inputs, as far as it has read     *)
(* them, and at the panel there is.                                        *)
Knows(g) == g.kb = kb /\ g.want = want
AimsRight(p) ==
    LET j == job[p]
    IN  /\ j.pc \in {"read", "turn", "apply", "verify"} => Knows(j.goal) \/ InputsPending
        /\ j.pc \in {"turn", "apply", "verify"} => j.goal.mode = mode \/ InputsPending
        /\ j.pc \in {"apply", "verify"} => j.goal.turn = turn \/ InputsPending
        /\ OutOfDate(p) => NewsPending \/ InputsPending
NoJobs == \A p \in Jobs : job[p].pc = "none"
Joined == [Inputs EXCEPT !.mode = "joined"]
RestsRight ==
    NoJobs =>
        /\ verdict = "asked" => layout = LayoutFor(Inputs) \/ InputsPending \/ LayoutPending
        /\ verdict = "fallback" =>
              layout = LayoutFor(Joined) \/ InputsPending \/ LayoutPending
Converging ==
    /\ ~kbKnown => ~kb
    /\ \A p \in Jobs : AimsRight(p)
    /\ RestsRight

-----------------------------------------------------------------------------
(* Typing, with what a job needs for its next attempt to be counted. *)
JobType == [pc : {"none", "spawned", "lock", "read", "turn", "apply", "verify", "sleep",
                  "aborted"},
            attempt : 0..MaxAttempts, pass : {0, 1}, goal : Goals]
Attempts ==
    \A p \in Jobs : /\ job[p].pc \in {"lock", "spawned"} => job[p].attempt = 0
                    /\ job[p].pc = "sleep" => job[p].attempt < MaxAttempts
LoopTyped ==
    /\ deadline \in BOOLEAN /\ deep \in 0..MaxDeep /\ followup \in BOOLEAN
    /\ quiet \in {"none", "on", "over"}
CountsTyped == streak \in Nat /\ lagged \in BOOLEAN
ApplyTyped ==
    /\ job \in [Jobs -> JobType] /\ Attempts
    /\ busy \in BOOLEAN /\ serial \in Jobs \cup {"free"}
    /\ verdict \in {"none", "asked", "fallback", "other"}
InputsTyped ==
    /\ want \in BOOLEAN /\ kb \in BOOLEAN /\ kbKnown \in BOOLEAN
    /\ turn \in Turns /\ mode \in Modes
ChannelsTyped ==
    /\ wants \in Seq(BOOLEAN) /\ Len(wants) <= Cap
    /\ docks \in Seq(BOOLEAN) /\ Len(docks) <= Cap
    /\ turned \in [held : 0..Cap, lost : BOOLEAN] /\ nudges \in 0..Cap
OutsideTyped ==
    /\ available \in BOOLEAN /\ layout \in LayoutsWith(available) /\ changed \in BOOLEAN
    /\ watcher \in [pc : {"wait", "settle", "report", "nudge"}, seen : Modes]
    /\ disturbances \in 0..MaxDisturbances
    /\ missed \in BOOLEAN
Typed ==
    /\ LoopTyped /\ CountsTyped /\ ApplyTyped /\ InputsTyped /\ ChannelsTyped
    /\ OutsideTyped

LEMMA TypedIsTypeOK == Typed => TypeOK
  BY DEF Typed, LoopTyped, CountsTyped, ApplyTyped, InputsTyped, ChannelsTyped,
     OutsideTyped, TypeOK, JobType

LEMMA GoalTyped == NoGoal \in Goals
  BY BoundsAssumption DEF NoGoal, AnyTurn, Goals, Modes

LEMMA JobTyped ==
  ASSUME NEW pc \in {"none", "spawned", "lock", "sleep", "aborted"}
  PROVE  Job(pc) \in JobType /\ Job(pc).pc = pc /\ Job(pc).attempt = 0
  BY GoalTyped, BoundsAssumption DEF Job, JobType

LEMMA LayoutTyped ==
  ASSUME NEW g \in Goals
  PROVE  LayoutFor(g) \in LayoutsWith(g.there)
  BY DEF LayoutFor, Layouts, LayoutsWith, Goals

LEMMA GoalOfTyped ==
  ASSUME NEW j \in JobType
  PROVE  GoalOf(j) \in Goals /\ GoalOf(j).there = j.goal.there
  BY DEF GoalOf, JobType, Goals, Modes

LEMMA ClassifyTyped == \A l : Classify(l) \in Modes
  BY DEF Classify, Modes

LEMMA PushTyped ==
  ASSUME NEW q \in Seq(BOOLEAN), Len(q) <= Cap, NEW v \in BOOLEAN
  PROVE  Push(q, v) \in Seq(BOOLEAN) /\ Len(Push(q, v)) <= Cap /\ Push(q, v) # <<>>
<1>1. CASE Len(q) < Cap
  <2>1. Push(q, v) = Append(q, v) /\ Len(q) + 1 <= Cap /\ Len(q) \in Nat
    BY <1>1, BoundsAssumption DEF Push
  <2> QED
    BY <2>1, AppendProperties
<1>2. CASE ~(Len(q) < Cap)
  <2>1. /\ Tail(q) \in Seq(BOOLEAN) /\ Len(Tail(q)) = Len(q) - 1
        /\ Len(q) = Cap
    BY <1>2, BoundsAssumption, EmptySeq, HeadTailProperties
  <2>2. Push(q, v) = Append(Tail(q), v)
    BY <1>2 DEF Push
  <2> QED
    BY <2>1, <2>2, AppendProperties
<1> QED
  BY <1>1, <1>2

LEMMA PopTyped ==
  ASSUME NEW q \in Seq(BOOLEAN), Len(q) <= Cap, q # <<>>
  PROVE  /\ Head(q) \in BOOLEAN /\ Tail(q) \in Seq(BOOLEAN)
         /\ Len(Tail(q)) <= Cap
<1>1. /\ Head(q) \in BOOLEAN /\ Tail(q) \in Seq(BOOLEAN)
      /\ Len(Tail(q)) = Len(q) - 1 /\ Len(q) \in Nat
  BY HeadTailProperties, EmptySeq
<1> QED
  BY <1>1, BoundsAssumption

LEMMA CountedTyped ==
  ASSUME Typed
  PROVE  Counted \in Nat /\ (~TooDeep(Counted) => Counted < MaxDeep)
  BY BoundsAssumption DEF Typed, LoopTyped, Counted, TooDeep

LEMMA HeedTyped ==
  ASSUME Typed, Heed
  PROVE  LoopTyped' /\ CountsTyped' /\ missed' \in BOOLEAN
<1>1. CASE quiet = "on"
  BY <1>1 DEF Heed, TooDeep, Typed, LoopTyped, CountsTyped, OutsideTyped, loop
<1>2. CASE quiet # "on" /\ TooDeep(Counted)
  <2>1. /\ quiet' = "on" /\ deadline' = FALSE /\ deep' = 0 /\ followup' = FALSE
        /\ missed' = TRUE /\ streak' = 0 /\ lagged' = FALSE
    BY <1>2 DEF Heed
  <2>2. /\ deadline' \in BOOLEAN /\ followup' \in BOOLEAN /\ missed' \in BOOLEAN
        /\ lagged' \in BOOLEAN
    BY <2>1, Zenon
  <2>3. deep' \in 0..MaxDeep /\ streak' \in Nat
    BY <2>1, BoundsAssumption, SMT
  <2> QED
    BY <2>1, <2>2, <2>3 DEF LoopTyped, CountsTyped
<1>3. CASE quiet # "on" /\ ~TooDeep(Counted)
  <2>1. Counted \in 0..MaxDeep
    BY <1>3, CountedTyped, BoundsAssumption
  <2>2. /\ quiet' = "none" /\ deadline' = TRUE /\ deep' = Counted /\ followup' = FALSE
        /\ UNCHANGED <<missed, streak, lagged>>
    BY <1>3 DEF Heed
  <2>3. deadline' \in BOOLEAN /\ followup' \in BOOLEAN
    BY <2>2, Zenon
  <2>4. deep' \in 0..MaxDeep
    BY <2>1, <2>2
  <2> QED
    BY <2>2, <2>3, <2>4 DEF Typed, LoopTyped, CountsTyped, OutsideTyped
<1> QED
  BY <1>1, <1>2, <1>3

(* A group of variables that a step leaves alone keeps its type. *)
LEMMA FrameTyped ==
  ASSUME Typed
  PROVE  /\ UNCHANGED loop => LoopTyped'
         /\ UNCHANGED <<streak, lagged>> => CountsTyped'
         /\ UNCHANGED <<apply, verdict>> => ApplyTyped'
         /\ UNCHANGED inputs => InputsTyped'
         /\ UNCHANGED channels => ChannelsTyped'
<1>1. UNCHANGED loop => LoopTyped'
  BY DEF Typed, LoopTyped, loop
<1>2. UNCHANGED <<streak, lagged>> => CountsTyped'
  BY DEF Typed, CountsTyped
<1>3. UNCHANGED <<apply, verdict>> => ApplyTyped'
  BY DEF Typed, ApplyTyped, apply, Attempts
<1>4. UNCHANGED inputs => InputsTyped'
  BY DEF Typed, InputsTyped, inputs
<1>5. UNCHANGED channels => ChannelsTyped'
  BY DEF Typed, ChannelsTyped, channels
<1> QED
  BY <1>1, <1>2, <1>3, <1>4, <1>5

LEMMA OutsideUnchanged ==
  ASSUME Typed, UNCHANGED <<mutter, watcher>>, missed' \in BOOLEAN,
         UNCHANGED disturbances \/ Disturb
  PROVE  OutsideTyped'
<1>1. disturbances' \in 0..MaxDisturbances
  BY BoundsAssumption DEF Typed, OutsideTyped, Disturb
<1> QED
  BY <1>1 DEF Typed, OutsideTyped, mutter

LEMMA SignalTyped ==
  ASSUME Typed, SignalStep
  PROVE  Typed'
<1>1. CASE SecondarySignal
  <2>1. /\ Heed /\ UNCHANGED <<apply, verdict>> /\ UNCHANGED <<mutter, watcher>>
        /\ UNCHANGED disturbances
    BY <1>1 DEF SecondarySignal
  <2>2. InputsTyped' /\ ChannelsTyped'
    BY <1>1, PopTyped DEF SecondarySignal, Typed, InputsTyped, ChannelsTyped
  <2> QED
    BY <2>1, <2>2, HeedTyped, FrameTyped, OutsideUnchanged DEF Typed
<1>2. CASE KeyboardSignal
  <2>1. /\ UNCHANGED <<apply, verdict>> /\ UNCHANGED <<mutter, watcher>>
        /\ UNCHANGED disturbances
        /\ Heed \/ UNCHANGED <<loop, missed, streak, lagged>>
    BY <1>2 DEF KeyboardSignal
  <2>2. InputsTyped' /\ ChannelsTyped'
    <3>1. kb' = Head(docks) /\ docks' = Tail(docks) /\ docks # <<>>
          /\ kbKnown' = TRUE /\ UNCHANGED <<want, turn, mode, wants, turned, nudges>>
      BY <1>2 DEF KeyboardSignal
    <3>2. kbKnown' \in BOOLEAN
      BY <3>1, Zenon
    <3>3. kb' \in BOOLEAN /\ docks' \in Seq(BOOLEAN) /\ Len(docks') <= Cap
      BY <3>1, PopTyped DEF Typed, ChannelsTyped
    <3> QED
      BY <3>1, <3>2, <3>3 DEF Typed, InputsTyped, ChannelsTyped
  <2>3. LoopTyped' /\ CountsTyped' /\ missed' \in BOOLEAN
    <3>1. CASE Heed
      BY <3>1, HeedTyped
    <3>2. CASE UNCHANGED <<loop, missed, streak, lagged>>
      BY <3>2, FrameTyped DEF Typed, OutsideTyped
    <3> QED
      BY <2>1, <3>1, <3>2
  <2> QED
    BY <2>1, <2>2, <2>3, FrameTyped, OutsideUnchanged DEF Typed
<1>3. CASE OrientationSignal
  <2>1. /\ Heed /\ UNCHANGED <<apply, verdict>> /\ UNCHANGED <<mutter, watcher>>
        /\ UNCHANGED disturbances /\ UNCHANGED inputs
    BY <1>3 DEF OrientationSignal
  <2>2. ChannelsTyped'
    BY <1>3, BoundsAssumption DEF OrientationSignal, Typed, ChannelsTyped
  <2> QED
    BY <2>1, <2>2, HeedTyped, FrameTyped, OutsideUnchanged DEF Typed
<1>4. CASE OrientationLag
  <2>1. /\ UNCHANGED <<apply, verdict>> /\ UNCHANGED <<mutter, watcher>>
        /\ UNCHANGED disturbances /\ UNCHANGED inputs
        /\ UNCHANGED <<wants, docks, nudges, deep, followup, quiet, missed, streak>>
        /\ turned' = [turned EXCEPT !.lost = FALSE]
        /\ deadline' = TRUE /\ lagged' = TRUE
    BY <1>4 DEF OrientationLag
  <2>2. deadline' \in BOOLEAN /\ lagged' \in BOOLEAN
    BY <2>1, Zenon
  <2>3. ChannelsTyped'
    BY <2>1 DEF Typed, ChannelsTyped
  <2>4. LoopTyped' /\ CountsTyped' /\ missed' \in BOOLEAN
    BY <2>1, <2>2 DEF Typed, LoopTyped, CountsTyped, OutsideTyped
  <2> QED
    BY <2>1, <2>3, <2>4, FrameTyped, OutsideUnchanged DEF Typed
<1>5. CASE AvailabilitySignal
  <2>1. /\ Heed /\ UNCHANGED <<apply, verdict>> /\ UNCHANGED <<mutter, watcher>>
        /\ UNCHANGED disturbances /\ UNCHANGED inputs
    BY <1>5 DEF AvailabilitySignal
  <2>2. ChannelsTyped'
    BY <1>5, BoundsAssumption DEF AvailabilitySignal, Typed, ChannelsTyped
  <2> QED
    BY <2>1, <2>2, HeedTyped, FrameTyped, OutsideUnchanged DEF Typed
<1> QED
  BY <1>1, <1>2, <1>3, <1>4, <1>5 DEF SignalStep

LEMMA SnapshotTyped ==
  ASSUME Typed, NEW p \in Jobs, job[p].attempt < MaxAttempts, Snapshot(p)
  PROVE  job' \in [Jobs -> JobType] /\ Attempts' /\ missed' \in BOOLEAN
<1>1. missed' \in BOOLEAN
  BY Zenon DEF Snapshot
<1> DEFINE j == [pc |-> "read", attempt |-> job[p].attempt + 1, pass |-> 0,
                 goal |-> [NoGoal EXCEPT !.kb = kb, !.want = want]]
<1>2. j \in JobType
  <2>1. [NoGoal EXCEPT !.kb = kb, !.want = want] \in Goals
    BY GoalTyped DEF Typed, InputsTyped, Goals
  <2>2. job[p].attempt + 1 \in 0..MaxAttempts
    BY BoundsAssumption DEF Typed, ApplyTyped, JobType
  <2> QED
    BY <2>1, <2>2 DEF JobType
<1>3. job' = [job EXCEPT ![p] = j]
  BY DEF Snapshot
<1>4. j.pc = "read"
  OBVIOUS
<1> HIDE DEF j
<1> QED
  BY <1>1, <1>2, <1>3, <1>4 DEF Typed, ApplyTyped, Attempts

LEMMA SettledTyped ==
  \A result, j : Settled(result, j) \in {"none", "asked", "fallback", "other"}
  BY DEF Settled

LEMMA ReconcileEndsTyped ==
  ASSUME Typed, NEW result \in Outcomes, ReconcileEnds(result)
  PROVE  ApplyTyped' /\ LoopTyped' /\ CountsTyped'
<1>1. ApplyTyped'
  <2>1. PICK k \in JobType : /\ k \in {Job("spawned"), job["recovery"]}
                             /\ job' = [job EXCEPT !["reconcile"] = NoJob, !["recovery"] = k]
    <3>1. Job("spawned") \in JobType /\ job["recovery"] \in JobType
      BY JobTyped DEF Typed, ApplyTyped, Jobs
    <3> QED
      BY <3>1 DEF ReconcileEnds
  <2>2. NoJob \in JobType /\ NoJob.pc = "none"
    BY JobTyped DEF NoJob
  <2>3. /\ k.pc \in {"lock", "spawned"} => k.attempt = 0
        /\ k.pc = "sleep" => k.attempt < MaxAttempts
    BY <2>1, JobTyped DEF Typed, ApplyTyped, Attempts, Jobs
  <2>4. job' \in [Jobs -> JobType] /\ Attempts'
    BY <2>1, <2>2, <2>3 DEF Typed, ApplyTyped, Attempts, Jobs
  <2>5. busy' \in BOOLEAN
    BY Zenon DEF ReconcileEnds
  <2> QED
    BY <2>4, <2>5, SettledTyped DEF ReconcileEnds, ApplyTyped
<1>2. LoopTyped' /\ CountsTyped'
  <2>1. CASE result = "changed"
    <3>1. /\ followup' = TRUE /\ deep' = deep /\ lagged' = lagged
          /\ streak' = Least(streak + 1, MaxDeep + 1) /\ UNCHANGED <<deadline, quiet>>
      BY <2>1 DEF ReconcileEnds
    <3>2. followup' \in BOOLEAN
      BY <3>1, Zenon
    <3>3. streak' \in Nat
      BY <3>1, BoundsAssumption DEF Typed, CountsTyped, Least
    <3> QED
      BY <3>1, <3>2, <3>3 DEF Typed, LoopTyped, CountsTyped
  <2>2. CASE result = "failed"
    BY <2>2, FrameTyped DEF ReconcileEnds, loop
  <2>3. CASE result \notin {"changed", "failed"}
    <3>1. /\ followup' = FALSE /\ deep' = 0 /\ streak' = 0 /\ lagged' = FALSE
          /\ UNCHANGED <<deadline, quiet>>
      BY <2>3 DEF ReconcileEnds
    <3>2. followup' \in BOOLEAN /\ lagged' \in BOOLEAN
      BY <3>1, Zenon
    <3> QED
      BY <3>1, <3>2, BoundsAssumption DEF Typed, LoopTyped, CountsTyped
  <2> QED
    BY <2>1, <2>2, <2>3
<1> QED
  BY <1>1, <1>2

LEMMA AttemptEndsTyped ==
  ASSUME Typed, NEW result \in Outcomes, AttemptEnds(result)
  PROVE  ApplyTyped' /\ LoopTyped' /\ CountsTyped'
<1> DEFINE j == job["recovery"]
           ok == result \in {"changed", "same"} /\ j.goal.kb = kb /\ j.goal.want = want
<1>1. LoopTyped' /\ CountsTyped'
  BY FrameTyped DEF AttemptEnds
<1>2. j \in JobType
  BY DEF Typed, ApplyTyped, Jobs
<1>3. CASE ok \/ result = "blocked" \/ j.attempt = MaxAttempts
  <2>1. PICK v : CampaignEnds(v) /\ v \in {"none", "asked", "fallback", "other"}
    BY <1>3, SettledTyped DEF AttemptEnds
  <2>2. NoJob \in JobType /\ NoJob.pc = "none"
    BY JobTyped DEF NoJob
  <2>3. busy' \in BOOLEAN
    BY <2>1, Zenon DEF CampaignEnds
  <2> QED
    BY <1>1, <2>1, <2>2, <2>3 DEF CampaignEnds, Typed, ApplyTyped, Attempts, Jobs
<1>4. CASE ~(ok \/ result = "blocked" \/ j.attempt = MaxAttempts)
  <2> DEFINE k == [Job("sleep") EXCEPT !.attempt = j.attempt]
  <2>1. /\ job' = [job EXCEPT !["recovery"] = k] /\ verdict' = "other"
        /\ UNCHANGED <<busy, serial>>
    BY <1>4 DEF AttemptEnds
  <2>2. j.attempt < MaxAttempts /\ j.attempt \in 0..MaxAttempts
    BY <1>2, <1>4, BoundsAssumption DEF JobType
  <2>3. k \in JobType /\ k.pc = "sleep" /\ k.attempt < MaxAttempts
    BY <2>2, JobTyped DEF JobType
  <2> HIDE DEF k
  <2> QED
    BY <1>1, <2>1, <2>3 DEF Typed, ApplyTyped, Attempts, Jobs
<1> QED
  BY <1>3, <1>4

LEMMA EndsTyped ==
  ASSUME Typed, NEW p \in Jobs, NEW result \in Outcomes, Ends(p, result)
  PROVE  ApplyTyped' /\ LoopTyped' /\ CountsTyped'
<1>1. CASE p = "reconcile"
  BY <1>1, ReconcileEndsTyped DEF Ends
<1>2. CASE p # "reconcile"
  <2>1. PICK r \in Outcomes : AttemptEnds(r)
    BY <1>2 DEF Ends, Outcomes
  <2> QED
    BY <2>1, AttemptEndsTyped
<1> QED
  BY <1>1, <1>2

LEMMA JobUpdateTyped ==
  ASSUME Typed, NEW p \in Jobs, NEW k \in JobType, k.pc \notin {"lock", "spawned", "sleep"},
         job' = [job EXCEPT ![p] = k]
  PROVE  job' \in [Jobs -> JobType] /\ Attempts'
  BY DEF Typed, ApplyTyped, Attempts

LEMMA PassFailsTyped ==
  ASSUME Typed, NEW p \in Jobs, PassFails(p)
  PROVE  ApplyTyped' /\ LoopTyped' /\ CountsTyped'
<1>1. CASE MayFallBack(job[p])
  <2> DEFINE k == [job[p] EXCEPT !.pass = 1, !.pc = "apply"]
  <2>1. /\ job' = [job EXCEPT ![p] = k]
        /\ UNCHANGED <<loop, busy, serial, verdict, streak, lagged>>
    BY <1>1 DEF PassFails
  <2>2. job' \in [Jobs -> JobType] /\ Attempts'
    <3>1. k \in JobType /\ k.pc = "apply"
      BY DEF Typed, ApplyTyped, JobType
    <3> HIDE DEF k
    <3> QED
      BY <2>1, <3>1, JobUpdateTyped
  <2> QED
    BY <2>1, <2>2, FrameTyped DEF Typed, ApplyTyped
<1>2. CASE ~MayFallBack(job[p])
  <2>1. Ends(p, "failed") /\ "failed" \in Outcomes
    BY <1>2 DEF PassFails, Outcomes
  <2> QED
    BY <2>1, EndsTyped
<1> QED
  BY <1>1, <1>2

(* How an attempt that goes on moves its job. *)
LEMMA MovedTyped ==
  ASSUME NEW j \in JobType, NEW pc \in {"turn", "apply", "verify"}, NEW g \in Goals
  PROVE  LET k == [j EXCEPT !.pc = pc, !.goal = g]
         IN  k \in JobType /\ k.pc = pc /\ k.goal = g /\ k.pass = j.pass
  BY DEF JobType

LEMMA ModeIsRead ==
  ASSUME NEW j \in JobType, NEW m \in Modes
  PROVE  LET k == [j EXCEPT !.pc = "turn", !.goal.mode = m]
         IN  /\ k \in JobType /\ k.pc = "turn" /\ k.pass = j.pass
             /\ k.goal.kb = j.goal.kb /\ k.goal.want = j.goal.want /\ k.goal.mode = m
<1> DEFINE g == [j.goal EXCEPT !.mode = m]
<1>1. g \in Goals /\ g.kb = j.goal.kb /\ g.want = j.goal.want /\ g.mode = m
  BY DEF JobType, Goals
<1> DEFINE k == [j EXCEPT !.pc = "turn", !.goal = g]
<1>2. [j EXCEPT !.pc = "turn", !.goal.mode = m] = k
  BY DEF JobType
<1> HIDE DEF g
<1>3. k \in JobType /\ k.pc = "turn" /\ k.goal = g /\ k.pass = j.pass
  BY <1>1, MovedTyped
<1> HIDE DEF k
<1> QED
  BY <1>1, <1>2, <1>3

LEMMA TurnIsRead ==
  ASSUME NEW j \in JobType, NEW t \in Turns
  PROVE  /\ TurnedTo(j, t) \in JobType /\ TurnedTo(j, t).pc = "apply"
         /\ TurnedTo(j, t).pass = j.pass
         /\ TurnedTo(j, t).goal.kb = j.goal.kb /\ TurnedTo(j, t).goal.want = j.goal.want
         /\ TurnedTo(j, t).goal.mode = j.goal.mode /\ TurnedTo(j, t).goal.turn = t
<1> DEFINE g == [j.goal EXCEPT !.turn = t]
<1>1. /\ g \in Goals /\ g.kb = j.goal.kb /\ g.want = j.goal.want
      /\ g.mode = j.goal.mode /\ g.turn = t
  BY DEF JobType, Goals
<1> DEFINE k == [j EXCEPT !.pc = "apply", !.goal = g]
<1>2. TurnedTo(j, t) = k
  BY DEF TurnedTo, JobType
<1> HIDE DEF g
<1>3. k \in JobType /\ k.pc = "apply" /\ k.goal = g /\ k.pass = j.pass
  BY <1>1, MovedTyped
<1> HIDE DEF k
<1> QED
  BY <1>1, <1>2, <1>3

LEMMA PanelIsSeen ==
  ASSUME NEW j \in JobType, available \in BOOLEAN
  PROVE  LET k == [Looks(j) EXCEPT !.pc = "verify"]
         IN  /\ Looks(j) \in JobType /\ Looks(j).pass = j.pass
             /\ k \in JobType /\ k.pc = "verify" /\ k.pass = j.pass
             /\ k.goal = Looks(j).goal
             /\ k.goal.kb = j.goal.kb /\ k.goal.want = j.goal.want
             /\ k.goal.mode = j.goal.mode /\ k.goal.turn = j.goal.turn
             /\ k.goal.there = available
<1> DEFINE g == [j.goal EXCEPT !.there = available]
<1>1. /\ g \in Goals /\ g.kb = j.goal.kb /\ g.want = j.goal.want
      /\ g.mode = j.goal.mode /\ g.turn = j.goal.turn /\ g.there = available
  BY DEF JobType, Goals
<1> DEFINE k == [j EXCEPT !.pc = "verify", !.goal = g]
<1>2. Looks(j) = [j EXCEPT !.goal = g] /\ [Looks(j) EXCEPT !.pc = "verify"] = k
  BY DEF Looks, JobType
<1> HIDE DEF g
<1>3. Looks(j) \in JobType /\ Looks(j).pass = j.pass /\ Looks(j).goal = g
  BY <1>1, <1>2 DEF JobType
<1>4. k \in JobType /\ k.pc = "verify" /\ k.goal = g /\ k.pass = j.pass
  BY <1>1 DEF JobType
<1> HIDE DEF k
<1> QED
  BY <1>1, <1>2, <1>3, <1>4

Moving(p) == ReadMode(p) \/ ReadTurn(p) \/ Apply(p)

LEMMA JobMoves ==
  ASSUME Typed, NEW p \in Jobs, Moving(p)
  PROVE  /\ \E k \in JobType : /\ job' = [job EXCEPT ![p] = k]
                               /\ k.pc \in {"turn", "apply", "verify"}
         /\ Applying(p)
         /\ UNCHANGED inputs /\ UNCHANGED channels /\ UNCHANGED loop
         /\ UNCHANGED <<busy, serial, verdict>> /\ UNCHANGED <<streak, lagged>>
         /\ UNCHANGED watcher
<1>1. /\ job[p] \in JobType /\ mode \in Modes /\ turn \in Turns /\ layout.turn \in Turns
      /\ available \in BOOLEAN
  BY DEF Typed, ApplyTyped, InputsTyped, OutsideTyped, LayoutsWith, Layouts
<1>2. CASE ReadMode(p)
  <2> DEFINE k == [job[p] EXCEPT !.pc = "turn", !.goal.mode = mode]
  <2>1. k \in JobType /\ k.pc = "turn"
    BY <1>1, ModeIsRead
  <2>2. job' = [job EXCEPT ![p] = k] /\ job[p].pc = "read"
    BY <1>2 DEF ReadMode
  <2> HIDE DEF k
  <2> QED
    BY <1>2, <2>1, <2>2 DEF ReadMode, Applying, history
<1>3. CASE ReadTurn(p)
  BY <1>1, <1>3, TurnIsRead DEF ReadTurn, Applying
<1>4. CASE Apply(p)
  BY <1>1, <1>4, PanelIsSeen DEF Apply, NeedsApply, Applying, history
<1> QED
  BY <1>2, <1>3, <1>4 DEF Moving

LEMMA JobStepTyped ==
  ASSUME Typed, NEW p \in Jobs, JobStep(p)
  PROVE  Typed'
<1>0. missed \in BOOLEAN
  BY DEF Typed, OutsideTyped
<1>1. CASE Moving(p)
  <2>1. ApplyTyped'
    BY <1>1, JobMoves, JobUpdateTyped DEF Typed, ApplyTyped
  <2>2. OutsideTyped'
    <3>1. CASE ReadMode(p) \/ ReadTurn(p)
      <4>1. /\ UNCHANGED <<mutter, watcher>> /\ (UNCHANGED disturbances \/ Disturb)
            /\ missed' = missed \/ missed' = TRUE
        BY <3>1 DEF ReadMode, ReadTurn, history
      <4>2. missed' \in BOOLEAN
        BY <1>0, <4>1, Zenon
      <4> QED
        BY <4>1, <4>2, OutsideUnchanged
    <3>2. CASE Apply(p)
      <4>1. /\ layout' = LayoutFor(GoalOf(Looks(job[p]))) /\ changed' = TRUE
            /\ UNCHANGED <<available, watcher, disturbances, missed>>
        BY <3>2 DEF Apply, history
      <4>2. layout' \in LayoutsWith(available')
        <5>1. job[p] \in JobType /\ available \in BOOLEAN
          BY DEF Typed, ApplyTyped, OutsideTyped
        <5>2. Looks(job[p]) \in JobType /\ Looks(job[p]).goal.there = available
          BY <5>1, PanelIsSeen
        <5>3. /\ GoalOf(Looks(job[p])) \in Goals
              /\ GoalOf(Looks(job[p])).there = available
          BY <5>2, GoalOfTyped
        <5> QED
          BY <4>1, <5>3, LayoutTyped
      <4>3. changed' \in BOOLEAN
        BY <4>1, Zenon
      <4> QED
        BY <4>1, <4>2, <4>3 DEF Typed, OutsideTyped
    <3> QED
      BY <1>1, <3>1, <3>2 DEF Moving
  <2> QED
    BY <1>1, <2>1, <2>2, JobMoves, FrameTyped DEF Typed
<1>2. CASE AlreadyRight(p)
  <2>1. Ends(p, "same") /\ "same" \in Outcomes
    BY <1>2 DEF AlreadyRight, Outcomes
  <2>2. /\ UNCHANGED inputs /\ UNCHANGED channels /\ UNCHANGED <<mutter, watcher>>
        /\ UNCHANGED disturbances /\ missed' = missed
    BY <1>2 DEF AlreadyRight
  <2> QED
    BY <1>0, <2>1, <2>2, EndsTyped, FrameTyped, OutsideUnchanged DEF Typed
<1>3. CASE Verify(p)
  <2>1. /\ UNCHANGED inputs /\ UNCHANGED channels /\ UNCHANGED <<mutter, watcher>>
        /\ UNCHANGED disturbances /\ missed' = missed
        /\ Ends(p, "changed") \/ PassFails(p)
    BY <1>3 DEF Verify
  <2>2. "changed" \in Outcomes
    BY DEF Outcomes
  <2>3. ApplyTyped' /\ LoopTyped' /\ CountsTyped'
    BY <2>1, <2>2, EndsTyped, PassFailsTyped
  <2> QED
    BY <1>0, <2>1, <2>3, FrameTyped, OutsideUnchanged DEF Typed
<1> QED
  BY <1>1, <1>2, <1>3 DEF JobStep, Moving

LEMMA JobFaultTyped ==
  ASSUME Typed, NEW p \in Jobs, JobFault(p)
  PROVE  Typed'
<1>0. missed \in BOOLEAN
  BY DEF Typed, OutsideTyped
<1>1. /\ UNCHANGED inputs /\ UNCHANGED channels /\ UNCHANGED <<mutter, watcher>>
      /\ Disturb /\ missed' = missed
      /\ (\E result \in Outcomes : Ends(p, result)) \/ PassFails(p)
  BY DEF JobFault, RootUnavailable, GuardRefuses, MutterRejects, MutterFails, Outcomes
<1>2. ApplyTyped' /\ LoopTyped' /\ CountsTyped'
  BY <1>1, EndsTyped, PassFailsTyped
<1> QED
  BY <1>0, <1>1, <1>2, FrameTyped, OutsideUnchanged DEF Typed

LEMMA DebounceTyped ==
  ASSUME Typed, Debounce
  PROVE  Typed'
<1>1. /\ UNCHANGED inputs /\ UNCHANGED channels /\ UNCHANGED <<mutter, watcher>>
      /\ UNCHANGED disturbances /\ UNCHANGED <<streak, lagged>>
      /\ UNCHANGED <<followup, serial, verdict>> /\ deadline' = FALSE
  BY DEF Debounce
<1>2. deadline' \in BOOLEAN
  BY <1>1, Zenon
<1>3. CASE quiet = "on"
  <2>1. UNCHANGED <<deep, quiet, job, busy>> /\ missed' = TRUE
    BY <1>3 DEF Debounce
  <2>2. missed' \in BOOLEAN
    BY <2>1, Zenon
  <2>3. LoopTyped' /\ ApplyTyped'
    BY <1>1, <1>2, <2>1 DEF Typed, LoopTyped, ApplyTyped, Attempts
  <2> QED
    BY <1>1, <2>2, <2>3, FrameTyped, OutsideUnchanged DEF Typed
<1>4. CASE quiet # "on"
  <2>1. /\ quiet' = "none" /\ deep' = (IF quiet = "over" THEN 0 ELSE deep)
        /\ job' = [job EXCEPT !["reconcile"] = Job("lock"), !["recovery"] = Cancelled(@)]
        /\ busy' = TRUE /\ UNCHANGED missed
    BY <1>4 DEF Debounce
  <2>2. busy' \in BOOLEAN
    BY <2>1, Zenon
  <2>3. LoopTyped'
    BY <1>1, <1>2, <2>1, BoundsAssumption DEF Typed, LoopTyped
  <2>4. PICK k \in JobType : /\ k.pc \in {"none", "aborted"}
                             /\ job' = [job EXCEPT !["reconcile"] = Job("lock"),
                                                   !["recovery"] = k]
    BY <2>1, JobTyped DEF Cancelled, NoJob
  <2>5. Job("lock") \in JobType /\ Job("lock").pc = "lock" /\ Job("lock").attempt = 0
    BY BoundsAssumption, GoalTyped DEF Job, JobType
  <2>6. ApplyTyped'
    BY <1>1, <2>2, <2>4, <2>5 DEF Typed, ApplyTyped, Attempts, Jobs
  <2> QED
    BY <1>1, <2>1, <2>3, <2>6, FrameTyped, OutsideUnchanged DEF Typed, OutsideTyped
<1> QED
  BY <1>3, <1>4

LEMMA TaskStepTyped ==
  ASSUME Typed, TaskStep
  PROVE  Typed'
<1>1. /\ UNCHANGED inputs /\ UNCHANGED channels /\ UNCHANGED loop
      /\ UNCHANGED <<mutter, watcher>> /\ UNCHANGED disturbances
      /\ UNCHANGED <<streak, lagged>> /\ UNCHANGED verdict
  BY DEF TaskStep, TakeSerial, AbortedIsDropped, CampaignStarts, TryAgain, history
<1>2. ApplyTyped' /\ missed' \in BOOLEAN
  <2>1. CASE AbortedIsDropped
    <3>1. /\ job' = [job EXCEPT !["recovery"] = NoJob] /\ serial' = "free"
          /\ busy' = FALSE /\ missed' = missed
      BY <2>1 DEF AbortedIsDropped, history
    <3>2. busy' \in BOOLEAN
      BY <3>1, Zenon
    <3>3. NoJob \in JobType /\ NoJob.pc = "none"
      BY JobTyped DEF NoJob
    <3> QED
      BY <1>1, <3>1, <3>2, <3>3 DEF Typed, ApplyTyped, Attempts, Jobs, OutsideTyped
  <2>2. ASSUME NEW p \in Jobs, job[p].pc \in {"lock", "spawned", "sleep"}, Snapshot(p),
               serial' \in Jobs \cup {"free"}, busy' \in BOOLEAN
        PROVE  ApplyTyped' /\ missed' \in BOOLEAN
    <3>1. job[p].attempt < MaxAttempts
      BY <2>2, BoundsAssumption DEF Typed, ApplyTyped, Attempts
    <3> QED
      BY <1>1, <2>2, <3>1, SnapshotTyped DEF Typed, ApplyTyped
  <2>3. CASE TakeSerial
    BY <2>2, <2>3 DEF TakeSerial, Jobs, Typed, ApplyTyped
  <2>4. CASE CampaignStarts
    <3>1. busy' \in BOOLEAN
      BY <2>4, Zenon DEF CampaignStarts
    <3> QED
      BY <2>2, <2>4, <3>1 DEF CampaignStarts, Jobs
  <2>5. CASE TryAgain
    BY <2>2, <2>5 DEF TryAgain, Jobs, Typed, ApplyTyped
  <2> QED
    BY <2>1, <2>3, <2>4, <2>5 DEF TaskStep
<1> QED
  BY <1>1, <1>2, FrameTyped, OutsideUnchanged DEF Typed

LEMMA WatcherTyped ==
  ASSUME Typed, WatcherStep
  PROVE  Typed'
<1>1. /\ UNCHANGED loop /\ UNCHANGED <<apply, verdict>> /\ UNCHANGED <<streak, lagged>>
      /\ UNCHANGED <<available, layout>> /\ (UNCHANGED disturbances \/ Disturb)
  BY DEF WatcherStep, WatchChange, WatchRead, WatchReport, WatchNudge, mutter, history
<1>0. disturbances' \in 0..MaxDisturbances
  BY <1>1, BoundsAssumption DEF Typed, OutsideTyped, Disturb
<1>2. InputsTyped' /\ ChannelsTyped' /\ OutsideTyped'
  <2>1. CASE WatchChange
    <3>1. /\ changed' = FALSE /\ UNCHANGED inputs /\ UNCHANGED channels
          /\ missed' = (missed \/ (busy /\ \E p \in Jobs : OutOfDate(p)))
      BY <2>1 DEF WatchChange
    <3>2. changed' \in BOOLEAN /\ missed' \in BOOLEAN
      BY <3>1, Zenon
    <3>3. watcher' \in [pc : {"wait", "settle", "report", "nudge"}, seen : Modes]
      BY <2>1 DEF WatchChange, Typed, OutsideTyped
    <3> QED
      BY <1>0, <1>1, <3>1, <3>2, <3>3, FrameTyped DEF Typed, OutsideTyped
  <2>2. CASE WatchRead
    <3>1. /\ UNCHANGED inputs /\ UNCHANGED channels /\ changed' = changed
          /\ missed' = missed \/ missed' = TRUE
      BY <2>2 DEF WatchRead, mutter
    <3>3. missed' \in BOOLEAN
      BY <3>1, Zenon DEF Typed, OutsideTyped
    <3>2. watcher' \in [pc : {"wait", "settle", "report", "nudge"}, seen : Modes]
      BY <2>2, ClassifyTyped DEF WatchRead, NotWatching, Modes
    <3> QED
      BY <1>0, <1>1, <3>1, <3>2, <3>3, FrameTyped DEF Typed, OutsideTyped
  <2>3. CASE WatchReport
    <3>1. /\ mode' \in {mode, watcher.seen} /\ UNCHANGED <<want, kb, kbKnown, turn>>
          /\ UNCHANGED channels /\ missed' = missed /\ changed' = changed
          /\ watcher' = [watcher EXCEPT !.pc = "nudge"]
      BY <2>3 DEF WatchReport, mutter, history
    <3>2. InputsTyped'
      BY <3>1 DEF Typed, InputsTyped, OutsideTyped
    <3>3. OutsideTyped'
      BY <1>0, <1>1, <3>1 DEF Typed, OutsideTyped
    <3> QED
      BY <3>1, <3>2, <3>3, FrameTyped
  <2>4. CASE WatchNudge
    <3>1. /\ watcher' = NotWatching /\ UNCHANGED inputs /\ UNCHANGED <<wants, docks, turned>>
          /\ changed' = changed
      BY <2>4 DEF WatchNudge, mutter
    <3>2. nudges' \in 0..Cap
      BY <2>4, BoundsAssumption DEF WatchNudge, Least, Typed, ChannelsTyped
    <3>3. missed' \in BOOLEAN
      BY <2>4, Zenon DEF WatchNudge, Typed, OutsideTyped
    <3>4. NotWatching \in [pc : {"wait", "settle", "report", "nudge"}, seen : Modes]
      BY DEF NotWatching, Modes
    <3>5. ChannelsTyped'
      BY <3>1, <3>2 DEF Typed, ChannelsTyped
    <3> QED
      BY <1>0, <1>1, <3>1, <3>3, <3>4, <3>5, FrameTyped DEF Typed, OutsideTyped
  <2> QED
    BY <2>1, <2>2, <2>3, <2>4 DEF WatcherStep
<1> QED
  BY <1>1, <1>2, FrameTyped DEF Typed

LEMMA EnvironmentTyped ==
  ASSUME Typed, EnvironmentStep
  PROVE  Typed'
<1>1. /\ UNCHANGED loop /\ UNCHANGED <<apply, verdict>> /\ UNCHANGED <<streak, lagged>>
      /\ missed' = missed /\ UNCHANGED watcher /\ Disturb
  BY DEF EnvironmentStep, SecondaryUpdate, KeyboardUpdate, MachineTurns, LayoutChanges,
     history
<1>2. disturbances' \in 0..MaxDisturbances
  BY <1>1, BoundsAssumption DEF Disturb, Typed, OutsideTyped
<1>3. CASE SecondaryUpdate
  <2>1. /\ want' \in BOOLEAN /\ wants' = Push(wants, want') /\ UNCHANGED mutter
        /\ UNCHANGED <<kb, kbKnown, turn, mode, docks, turned, nudges>>
    BY <1>3 DEF SecondaryUpdate
  <2>2. InputsTyped' /\ ChannelsTyped'
    BY <2>1, PushTyped DEF Typed, InputsTyped, ChannelsTyped
  <2> QED
    BY <1>1, <1>2, <2>1, <2>2, FrameTyped DEF Typed, OutsideTyped, mutter
<1>4. CASE KeyboardUpdate
  <2>1. PICK v \in BOOLEAN : docks' = Push(docks, v)
    BY <1>4 DEF KeyboardUpdate
  <2>2. UNCHANGED inputs /\ UNCHANGED <<wants, turned, nudges>> /\ UNCHANGED mutter
    BY <1>4 DEF KeyboardUpdate
  <2>3. ChannelsTyped'
    BY <2>1, <2>2, PushTyped DEF Typed, ChannelsTyped
  <2> QED
    BY <1>1, <1>2, <2>2, <2>3, FrameTyped DEF Typed, OutsideTyped, mutter
<1>5. CASE MachineTurns
  <2>1. /\ turn' \in Turns /\ UNCHANGED mutter
        /\ UNCHANGED <<want, kb, kbKnown, mode, wants, docks, nudges>>
        /\ turned' = [held |-> Least(turned.held + 1, Cap),
                      lost |-> turned.lost \/ turned.held = Cap]
    BY <1>5 DEF MachineTurns
  <2>2. Least(turned.held + 1, Cap) \in 0..Cap
    BY BoundsAssumption DEF Least, Typed, ChannelsTyped
  <2>3. (turned.lost \/ turned.held = Cap) \in BOOLEAN
    OBVIOUS
  <2>4. turned' \in [held : 0..Cap, lost : BOOLEAN]
    BY <2>1, <2>2, <2>3
  <2>5. InputsTyped' /\ ChannelsTyped'
    BY <2>1, <2>4 DEF Typed, InputsTyped, ChannelsTyped
  <2> QED
    BY <1>1, <1>2, <2>1, <2>5, FrameTyped DEF Typed, OutsideTyped, mutter
<1>6. CASE LayoutChanges
  <2>1. /\ available' \in BOOLEAN /\ layout' \in LayoutsWith(available') /\ changed' = TRUE
        /\ UNCHANGED inputs /\ UNCHANGED channels
    BY <1>6 DEF LayoutChanges
  <2>2. changed' \in BOOLEAN
    BY <2>1, Zenon
  <2> QED
    BY <1>1, <1>2, <2>1, <2>2, FrameTyped DEF Typed, OutsideTyped
<1> QED
  BY <1>3, <1>4, <1>5, <1>6 DEF EnvironmentStep

LEMMA TypedInit == Init => Typed
<1> SUFFICES ASSUME Init PROVE Typed
  OBVIOUS
<1>1. NoJob \in JobType /\ NoJob.pc = "none"
  BY JobTyped DEF NoJob
<1>0. /\ kb \in BOOLEAN /\ kbKnown \in BOOLEAN /\ deadline \in BOOLEAN
      /\ followup \in BOOLEAN /\ lagged \in BOOLEAN /\ changed \in BOOLEAN
      /\ missed \in BOOLEAN /\ busy \in BOOLEAN
  BY Zenon DEF Init
<1>2. /\ LoopTyped /\ CountsTyped /\ InputsTyped
  <2>1. /\ quiet = "none" /\ deep = 0 /\ streak = 0 /\ want \in BOOLEAN /\ turn \in Turns
        /\ mode \in Modes
    BY DEF Init
  <2> QED
    BY <1>0, <2>1, BoundsAssumption DEF LoopTyped, CountsTyped, InputsTyped
<1>3. ApplyTyped
  <2>1. job = [p \in Jobs |-> NoJob] /\ serial = "free" /\ verdict = "none"
    BY DEF Init
  <2> QED
    BY <1>0, <1>1, <2>1 DEF ApplyTyped, Attempts
<1>4. ChannelsTyped
  BY EmptySeq, BoundsAssumption DEF Init, ChannelsTyped
<1>5. OutsideTyped
  <2>1. /\ available \in BOOLEAN /\ layout \in LayoutsWith(available)
        /\ watcher = NotWatching /\ disturbances = 0
    BY DEF Init
  <2> QED
    BY <1>0, <2>1, BoundsAssumption DEF OutsideTyped, NotWatching, Modes
<1> QED
  BY <1>2, <1>3, <1>4, <1>5 DEF Typed

LEMMA TypedStep == Typed /\ [Next]_vars => Typed'
<1> SUFFICES ASSUME Typed, [Next]_vars PROVE Typed'
  OBVIOUS
<1>0. missed \in BOOLEAN
  BY DEF Typed, OutsideTyped
<1>1. CASE QuietEnds
  <2>1. /\ UNCHANGED <<deadline, deep, followup>> /\ quiet' = "over"
        /\ UNCHANGED inputs /\ UNCHANGED channels /\ UNCHANGED <<apply, verdict>>
        /\ UNCHANGED <<mutter, watcher>> /\ UNCHANGED disturbances
        /\ UNCHANGED <<streak, lagged>> /\ missed' = missed
    BY <1>1 DEF QuietEnds, history
  <2>2. LoopTyped'
    BY <2>1 DEF Typed, LoopTyped
  <2> QED
    BY <1>0, <2>1, <2>2, FrameTyped, OutsideUnchanged DEF Typed
<1>2. CASE UNCHANGED vars
  BY <1>0, <1>2, FrameTyped, OutsideUnchanged DEF vars, history, Typed
<1> QED
  BY <1>1, <1>2, SignalTyped, DebounceTyped, TaskStepTyped, JobStepTyped, JobFaultTyped,
     WatcherTyped, EnvironmentTyped DEF Next

(* The display task's state always has its type: no channel exceeds its    *)
(* slots, no campaign its attempts, the loop's count never its maximum.    *)
THEOREM TypeCorrect == Spec => []TypeOK
<1>1. Init => Typed
  BY TypedInit
<1>2. Typed /\ [Next]_vars => Typed'
  BY TypedStep
<1>3. Typed => TypeOK
  BY TypedIsTypeOK
<1> QED
  BY <1>1, <1>2, <1>3, PTL DEF Spec

-----------------------------------------------------------------------------
(* Who holds the lock.  How an attempt ends, as far as the lock goes. *)
LEMMA EndsLocks ==
  ASSUME Typed, Locking, NEW p \in Jobs, NEW result \in Outcomes, Applying(p),
         Ends(p, result)
  PROVE  Locking'
<1> USE DEF Jobs
<1>0. NoJob.pc = "none" /\ Job("spawned").pc = "spawned" /\ job \in [Jobs -> JobType]
  BY JobTyped DEF NoJob, Typed, ApplyTyped
<1>1. CASE p = "reconcile"
  <2>1. ReconcileEnds(result)
    BY <1>1 DEF Ends
  <2>2. job["recovery"].pc = "none" /\ busy' = FALSE /\ job'["reconcile"].pc = "none"
    BY <1>0, <1>1, <2>1 DEF Locking, Applying, ReconcileEnds
  <2>3. job'["recovery"].pc \in {"none", "spawned"}
    BY <1>0, <2>1, <2>2 DEF ReconcileEnds
  <2> QED
    BY <2>2, <2>3 DEF Locking, Applying
<1>2. CASE p = "recovery"
  <2>0. job["reconcile"].pc = "none"
    BY <1>2 DEF Locking, Applying
  <2>1. PICK r \in Outcomes : AttemptEnds(r)
    BY <1>2 DEF Ends, Outcomes
  <2>2. CASE \E v : CampaignEnds(v)
    <3>1. /\ busy' = FALSE /\ job'["recovery"].pc = "none"
          /\ job'["reconcile"].pc = "none"
      BY <1>0, <2>0, <2>2 DEF CampaignEnds
    <3> QED
      BY <3>1 DEF Locking, Applying
  <2>3. CASE ~\E v : CampaignEnds(v)
    <3>1. /\ job' = [job EXCEPT !["recovery"]
                        = [Job("sleep") EXCEPT !.attempt = job["recovery"].attempt]]
          /\ UNCHANGED <<busy, serial>>
      BY <2>1, <2>3 DEF AttemptEnds
    <3>2. [Job("sleep") EXCEPT !.attempt = job["recovery"].attempt].pc = "sleep"
      BY DEF Job
    <3>3. job'["recovery"].pc = "sleep" /\ job'["reconcile"].pc = "none"
      BY <1>0, <2>0, <3>1, <3>2
    <3> QED
      BY <1>2, <3>1, <3>3 DEF Locking, Applying
  <2> QED
    BY <2>2, <2>3
<1> QED
  BY <1>1, <1>2

LEMMA JobMovesLocks ==
  ASSUME Typed, Locking, NEW p \in Jobs, Applying(p), UNCHANGED <<busy, serial>>,
         job'[p].pc \in {"read", "turn", "apply", "verify"},
         \A q \in Jobs \ {p} : job'[q] = job[q]
  PROVE  Locking'
  BY DEF Locking, Applying, Typed, ApplyTyped, Jobs

LEMMA PassFailsLocks ==
  ASSUME Typed, Locking, NEW p \in Jobs, Applying(p), PassFails(p)
  PROVE  Locking'
<1>1. CASE MayFallBack(job[p])
  <2> DEFINE k == [job[p] EXCEPT !.pass = 1, !.pc = "apply"]
  <2>1. job' = [job EXCEPT ![p] = k] /\ UNCHANGED <<busy, serial>>
    BY <1>1 DEF PassFails
  <2>2. k.pc = "apply" /\ job \in [Jobs -> JobType]
    BY DEF Typed, ApplyTyped, JobType
  <2> HIDE DEF k
  <2>3. job'[p].pc = "apply" /\ \A q \in Jobs \ {p} : job'[q] = job[q]
    BY <2>1, <2>2
  <2> QED
    BY <2>1, <2>3, JobMovesLocks
<1>2. CASE ~MayFallBack(job[p])
  BY <1>2, EndsLocks DEF PassFails, Outcomes
<1> QED
  BY <1>1, <1>2

LEMMA LockingStep == Typed /\ Locking /\ [Next]_vars => Locking'
<1> SUFFICES ASSUME Typed, Locking, [Next]_vars PROVE Locking'
  OBVIOUS
<1> USE DEF Jobs
<1>0. job \in [Jobs -> JobType]
  BY DEF Typed, ApplyTyped
<1>1. CASE UNCHANGED apply
  BY <1>1 DEF Locking, Applying, apply
<1>2. CASE Debounce
  <2>1. CASE quiet = "on"
    BY <2>1, <1>2 DEF Debounce, Locking, Applying
  <2>2. CASE quiet # "on"
    <3>1. /\ job' = [job EXCEPT !["reconcile"] = Job("lock"), !["recovery"] = Cancelled(@)]
          /\ busy' = TRUE /\ serial' = serial /\ job["reconcile"].pc = "none"
      BY <1>2, <2>2 DEF Debounce, LoopIsFree
    <3>2. Job("lock").pc = "lock" /\ NoJob.pc = "none" /\ Job("aborted").pc = "aborted"
      BY DEF NoJob, Job
    <3>3. /\ job'["reconcile"].pc = "lock"
          /\ job'["recovery"].pc = IF job["recovery"].pc \in {"none", "spawned"}
                                   THEN "none" ELSE "aborted"
      BY <1>0, <3>1, <3>2 DEF Cancelled
    <3> QED
      BY <3>1, <3>3 DEF Locking, Applying
  <2> QED
    BY <2>1, <2>2
<1>3. CASE TaskStep
  <2>1. ASSUME NEW p \in Jobs, Snapshot(p)
        PROVE  job'[p].pc = "read" /\ \A q \in Jobs \ {p} : job'[q] = job[q]
    BY <1>0, <2>1 DEF Snapshot
  <2>2. CASE TakeSerial
    <3>1. /\ job["reconcile"].pc = "lock" /\ serial = "free" /\ serial' = "reconcile"
          /\ busy' = busy /\ job'["reconcile"].pc = "read"
          /\ job'["recovery"] = job["recovery"]
      BY <2>1, <2>2 DEF TakeSerial
    <3> QED
      BY <3>1 DEF Locking, Applying
  <2>3. CASE AbortedIsDropped
    <3>1. /\ job["recovery"].pc = "aborted" /\ busy' = FALSE /\ serial' = "free"
          /\ job'["recovery"].pc = "none" /\ job'["reconcile"] = job["reconcile"]
      BY <1>0, <2>3 DEF AbortedIsDropped, NoJob, Job
    <3> QED
      BY <3>1 DEF Locking, Applying
  <2>4. CASE CampaignStarts
    <3>1. /\ job["recovery"].pc = "spawned" /\ busy' /\ serial' = "recovery"
          /\ job'["recovery"].pc = "read" /\ job'["reconcile"] = job["reconcile"]
      BY <2>1, <2>4 DEF CampaignStarts
    <3> QED
      BY <3>1 DEF Locking, Applying
  <2>5. CASE TryAgain
    <3>1. /\ job["recovery"].pc = "sleep" /\ busy' = busy /\ serial' = serial
          /\ job'["recovery"].pc = "read" /\ job'["reconcile"] = job["reconcile"]
      BY <2>1, <2>5 DEF TryAgain
    <3> QED
      BY <3>1 DEF Locking, Applying
  <2> QED
    BY <1>3, <2>2, <2>3, <2>4, <2>5 DEF TaskStep
<1>4. ASSUME NEW p \in Jobs, JobStep(p)
      PROVE  Locking'
  <2>1. CASE Moving(p)
    <3>1. Applying(p) /\ UNCHANGED <<busy, serial>>
      BY <2>1, JobMoves
    <3>2. /\ job'[p].pc \in {"turn", "apply", "verify"}
          /\ \A q \in Jobs \ {p} : job'[q] = job[q]
      BY <1>0, <2>1, JobMoves
    <3> QED
      BY <3>1, <3>2, JobMovesLocks
  <2>2. CASE AlreadyRight(p)
    BY <2>2, EndsLocks DEF AlreadyRight, Outcomes, Applying
  <2>3. CASE Verify(p)
    BY <2>3, EndsLocks, PassFailsLocks DEF Verify, Outcomes, Applying
  <2> QED
    BY <1>4, <2>1, <2>2, <2>3 DEF JobStep, Moving
<1>5. ASSUME NEW p \in Jobs, JobFault(p)
      PROVE  Locking'
  <2>1. Applying(p)
    BY <1>5 DEF JobFault, RootUnavailable, GuardRefuses, MutterRejects, MutterFails,
       NeedsApply, Applying
  <2>2. (\E result \in Outcomes : Ends(p, result)) \/ PassFails(p)
    BY <1>5 DEF JobFault, RootUnavailable, GuardRefuses, MutterRejects, MutterFails,
       Outcomes
  <2> QED
    BY <2>1, <2>2, EndsLocks, PassFailsLocks
<1>6. SignalStep \/ QuietEnds \/ WatcherStep \/ EnvironmentStep \/ UNCHANGED vars
         => UNCHANGED apply
  BY DEF SignalStep, SecondarySignal, KeyboardSignal, OrientationSignal, OrientationLag,
     AvailabilitySignal, QuietEnds, WatcherStep, WatchChange, WatchRead, WatchReport,
     WatchNudge, EnvironmentStep, SecondaryUpdate, KeyboardUpdate, MachineTurns,
     LayoutChanges, vars
<1> QED
  BY <1>1, <1>2, <1>3, <1>4, <1>5, <1>6 DEF Next

LEMMA LockingInit == Init => Locking
  BY DEF Init, Locking, Applying, NoJob, Job, Jobs

(* A recovery campaign is marked by apply_busy for as long as it lasts and *)
(* is never interleaved with a reconcile, whatever is cancelled when.      *)
THEOREM CampaignsAreAlone == Spec => []CampaignIsAlone
<1>1. Init => Typed /\ Locking
  BY TypedInit, LockingInit
<1>2. Typed /\ Locking /\ [Next]_vars => Typed' /\ Locking'
  BY TypedStep, LockingStep
<1>3. Typed /\ Locking => CampaignIsAlone
  BY DEF Locking, CampaignIsAlone, Applying
<1> QED
  BY <1>1, <1>2, <1>3, PTL DEF Spec

-----------------------------------------------------------------------------
(* What breaks the comment at display.rs:1682 (ApplyBusy) is only the       *)
(* cancelling of a recovery that is at work: its end, which the executor    *)
(* runs later, clears the flag of the reconcile that cancelled it.          *)
NoneIsCancelled == Debounce => ~Applying("recovery")

Marked ==
    /\ job["recovery"].pc # "aborted"
    /\ job["reconcile"].pc # "none" => busy

LEMMA EndsMarked ==
  ASSUME Typed, Locking, Marked, NEW p \in Jobs, NEW result \in Outcomes, Applying(p),
         Ends(p, result)
  PROVE  Marked'
<1> USE DEF Jobs
<1>0. /\ NoJob.pc = "none" /\ Job("spawned").pc = "spawned" /\ job \in [Jobs -> JobType]
      /\ [Job("sleep") EXCEPT !.attempt = job["recovery"].attempt].pc = "sleep"
  BY JobTyped DEF NoJob, Job, Typed, ApplyTyped
<1>1. CASE p = "reconcile"
  BY <1>0, <1>1 DEF Ends, ReconcileEnds, Marked, Locking, Applying
<1>2. CASE p = "recovery"
  <2>1. job["reconcile"].pc = "none"
    BY <1>2 DEF Locking, Applying
  <2>2. PICK r \in Outcomes : AttemptEnds(r)
    BY <1>2 DEF Ends, Outcomes
  <2>3. CASE \E v : CampaignEnds(v)
    BY <1>0, <2>1, <2>3 DEF CampaignEnds, Marked
  <2>4. CASE ~\E v : CampaignEnds(v)
    BY <1>0, <2>1, <2>2, <2>4 DEF AttemptEnds, Marked
  <2> QED
    BY <2>3, <2>4
<1> QED
  BY <1>1, <1>2

LEMMA JobMovesMarked ==
  ASSUME Typed, Marked, NEW p \in Jobs, Applying(p), UNCHANGED busy,
         \E k : job' = [job EXCEPT ![p] = k] /\ k.pc \in {"read", "turn", "apply", "verify"}
  PROVE  Marked'
  BY DEF Marked, Applying, Typed, ApplyTyped, Jobs

LEMMA PassFailsMarked ==
  ASSUME Typed, Locking, Marked, NEW p \in Jobs, Applying(p), PassFails(p)
  PROVE  Marked'
<1>1. CASE MayFallBack(job[p])
  <2>1. [job[p] EXCEPT !.pass = 1, !.pc = "apply"].pc = "apply"
    BY DEF Typed, ApplyTyped, JobType
  <2> QED
    BY <1>1, <2>1, JobMovesMarked DEF PassFails
<1>2. CASE ~MayFallBack(job[p])
  BY <1>2, EndsMarked DEF PassFails, Outcomes
<1> QED
  BY <1>1, <1>2

LEMMA MarkedStep ==
  Typed /\ Locking /\ Marked /\ [Next]_vars /\ [NoneIsCancelled]_vars => Marked'
<1> SUFFICES ASSUME Typed, Locking, Marked, [Next]_vars, [NoneIsCancelled]_vars
             PROVE  Marked'
  OBVIOUS
<1> USE DEF Jobs
<1>0. job \in [Jobs -> JobType]
  BY DEF Typed, ApplyTyped
<1>1. CASE UNCHANGED apply
  BY <1>1 DEF Marked, apply
<1> SUFFICES ASSUME Next, NoneIsCancelled, ~UNCHANGED apply PROVE Marked'
  BY <1>1 DEF vars, apply
<1>2. CASE Debounce
  <2>1. /\ job' = [job EXCEPT !["reconcile"] = Job("lock"), !["recovery"] = Cancelled(@)]
        /\ busy' = TRUE
    BY <1>2 DEF Debounce, apply
  <2>2. job["recovery"].pc \in {"none", "spawned"}
    BY <1>2 DEF NoneIsCancelled, Applying, Locking, Marked
  <2>3. Cancelled(job["recovery"]).pc = "none"
    BY <2>2 DEF Cancelled, NoJob, Job
  <2>4. job'["recovery"] = Cancelled(job["recovery"])
    BY <1>0, <2>1
  <2> QED
    BY <2>1, <2>3, <2>4 DEF Marked
<1>3. CASE TaskStep
  <2>1. ASSUME NEW p \in Jobs, Snapshot(p)
        PROVE  job'[p].pc = "read" /\ \A q \in Jobs \ {p} : job'[q] = job[q]
    BY <1>0, <2>1 DEF Snapshot
  <2>2. CASE TakeSerial \/ TryAgain
    BY <2>1, <2>2 DEF TakeSerial, TryAgain, Marked
  <2>3. CASE CampaignStarts
    BY <2>1, <2>3 DEF CampaignStarts, Marked
  <2>4. ~AbortedIsDropped
    BY DEF AbortedIsDropped, Marked
  <2> QED
    BY <1>3, <2>2, <2>3, <2>4 DEF TaskStep
<1>4. ASSUME NEW p \in Jobs, JobStep(p)
      PROVE  Marked'
  <2>1. CASE Moving(p)
    BY <2>1, JobMoves, JobMovesMarked
  <2>2. CASE AlreadyRight(p) \/ Verify(p)
    BY <2>2, EndsMarked, PassFailsMarked DEF AlreadyRight, Verify, Outcomes, Applying
  <2> QED
    BY <1>4, <2>1, <2>2 DEF JobStep, Moving
<1>5. ASSUME NEW p \in Jobs, JobFault(p)
      PROVE  Marked'
  <2>1. Applying(p)
    BY <1>5 DEF JobFault, RootUnavailable, GuardRefuses, MutterRejects, MutterFails,
       NeedsApply, Applying
  <2>2. (\E result \in Outcomes : Ends(p, result)) \/ PassFails(p)
    BY <1>5 DEF JobFault, RootUnavailable, GuardRefuses, MutterRejects, MutterFails,
       Outcomes
  <2> QED
    BY <2>1, <2>2, EndsMarked, PassFailsMarked
<1>6. ~(SignalStep \/ QuietEnds \/ WatcherStep \/ EnvironmentStep)
  BY DEF SignalStep, SecondarySignal, KeyboardSignal, OrientationSignal, OrientationLag,
     AvailabilitySignal, QuietEnds, WatcherStep, WatchChange, WatchRead, WatchReport,
     WatchNudge, EnvironmentStep, SecondaryUpdate, KeyboardUpdate, MachineTurns,
     LayoutChanges
<1> QED
  BY <1>2, <1>3, <1>4, <1>5, <1>6 DEF Next

(* If no reconcile begins while a recovery is at work, apply_busy covers    *)
(* every reconcile and every campaign, as the comment says.                 *)
THEOREM UncancelledAppliesAreMarked ==
  Spec /\ [][NoneIsCancelled]_vars => []BusyCoversApplies
<1>1. Init => Typed /\ Locking /\ Marked
  BY TypedInit, LockingInit DEF Init, Marked, NoJob, Job, Jobs
<1>2. Typed /\ Locking /\ Marked /\ [Next]_vars /\ [NoneIsCancelled]_vars
         => Typed' /\ Locking' /\ Marked'
  BY TypedStep, LockingStep, MarkedStep
<1>3. Locking /\ Marked => BusyCoversApplies
  BY DEF Locking, Marked, BusyCoversApplies, Applying, Jobs
<1> QED
  BY <1>1, <1>2, <1>3, PTL DEF Spec

-----------------------------------------------------------------------------
(* The loop's count.  A signal that is taken, and one more apply counted.  *)
LEMMA HeedCounts ==
  ASSUME Typed, Throttle, LoopIsFree, LoopIsFree', Heed
  PROVE  Throttle'
<1>0. /\ MaxDeep \in Nat \ {0} /\ deep \in Nat /\ streak \in Nat
      /\ quiet \in {"none", "on", "over"}
  BY BoundsAssumption DEF Typed, LoopTyped, CountsTyped
<1>1. CASE quiet = "on" /\ UNCHANGED <<loop, streak, lagged>>
  BY <1>1 DEF Throttle, loop
<1>2. CASE /\ quiet' = "on" /\ deadline' = FALSE /\ deep' = 0 /\ followup' = FALSE
           /\ streak' = 0 /\ lagged' = FALSE
  BY <1>0, <1>2 DEF Throttle
<1>3. CASE /\ quiet # "on" /\ ~TooDeep(Counted)
           /\ quiet' = "none" /\ deadline' = TRUE /\ deep' = Counted /\ followup' = FALSE
           /\ UNCHANGED <<streak, lagged>>
  <2>1. Counted = deep + (IF followup THEN 1 ELSE 0)
    BY <1>0, <1>3 DEF Throttle, Counted
  <2>2. Counted \in Nat /\ Counted < MaxDeep
    <3>1. Counted \in Nat
      BY <1>0, <2>1
    <3> QED
      BY <1>0, <1>3, <3>1 DEF TooDeep
  <2> HIDE DEF Counted
  <2> QED
    BY <1>0, <1>3, <2>1, <2>2 DEF Throttle
<1> QED
  BY <1>1, <1>2, <1>3 DEF Heed

LEMMA EndsCounts ==
  ASSUME Typed, Throttle, NEW p \in Jobs, NEW result \in Outcomes, Applying(p),
         Ends(p, result)
  PROVE  Throttle'
<1> USE DEF Jobs
<1>0. /\ MaxDeep \in Nat \ {0} /\ deep \in Nat /\ streak \in Nat
      /\ job \in [Jobs -> JobType] /\ NoJob.pc = "none"
  BY BoundsAssumption, JobTyped DEF Typed, LoopTyped, CountsTyped, ApplyTyped, NoJob
<1>1. CASE p = "reconcile"
  <2>1. ReconcileEnds(result) /\ ~LoopIsFree
    BY <1>1 DEF Ends, Applying, LoopIsFree
  <2>2. LoopIsFree' /\ UNCHANGED <<deadline, quiet>>
    BY <1>0, <2>1 DEF ReconcileEnds, LoopIsFree
  <2>3. CASE result = "changed"
    <3>1. /\ followup' = TRUE /\ deep' = deep /\ lagged' = lagged
          /\ streak' = Least(streak + 1, MaxDeep + 1)
      BY <2>1, <2>3 DEF ReconcileEnds
    <3> QED
      BY <1>0, <2>1, <2>2, <3>1 DEF Throttle, Least
  <2>4. CASE result = "failed"
    <3>1. UNCHANGED <<followup, deep, streak, lagged>>
      BY <2>1, <2>4 DEF ReconcileEnds
    <3> QED
      BY <1>0, <2>1, <2>2, <3>1 DEF Throttle
  <2>5. CASE result \notin {"changed", "failed"}
    <3>1. followup' = FALSE /\ deep' = 0 /\ streak' = 0 /\ lagged' = FALSE
      BY <2>1, <2>5 DEF ReconcileEnds
    <3> QED
      BY <1>0, <2>1, <2>2, <3>1 DEF Throttle
  <2> QED
    BY <2>3, <2>4, <2>5
<1>2. CASE p = "recovery"
  <2>1. PICK r : AttemptEnds(r)
    BY <1>2 DEF Ends
  <2>2. job'["reconcile"] = job["reconcile"] /\ UNCHANGED <<loop, streak, lagged>>
    BY <1>0, <2>1 DEF AttemptEnds, CampaignEnds
  <2> QED
    BY <2>2 DEF Throttle, LoopIsFree, loop
<1> QED
  BY <1>1, <1>2

LEMMA PassFailsCounts ==
  ASSUME Typed, Throttle, NEW p \in Jobs, Applying(p), PassFails(p)
  PROVE  Throttle'
<1>1. CASE MayFallBack(job[p])
  <2>1. /\ job' = [job EXCEPT ![p] = [@ EXCEPT !.pass = 1, !.pc = "apply"]]
        /\ UNCHANGED <<loop, streak, lagged>>
    BY <1>1 DEF PassFails
  <2>2. LoopIsFree' <=> LoopIsFree
    BY <2>1 DEF Typed, ApplyTyped, JobType, LoopIsFree, Applying, Jobs
  <2> QED
    BY <2>1, <2>2 DEF Throttle, loop
<1>2. CASE ~MayFallBack(job[p])
  BY <1>2, EndsCounts DEF PassFails, Outcomes
<1> QED
  BY <1>1, <1>2

LEMMA ThrottleStep == Typed /\ Throttle /\ [Next]_vars => Throttle'
<1> SUFFICES ASSUME Typed, Throttle, [Next]_vars PROVE Throttle'
  OBVIOUS
<1> USE DEF Jobs
<1>0. job \in [Jobs -> JobType]
  BY DEF Typed, ApplyTyped
<1>1. ASSUME UNCHANGED <<loop, streak, lagged>>, LoopIsFree' <=> LoopIsFree
      PROVE  Throttle'
  BY <1>1 DEF Throttle, loop
<1>2. CASE SignalStep
  <2>1. LoopIsFree /\ UNCHANGED job
    BY <1>2 DEF SignalStep, SecondarySignal, KeyboardSignal, OrientationSignal,
       OrientationLag, AvailabilitySignal, apply
  <2>2. LoopIsFree'
    BY <2>1 DEF LoopIsFree
  <2>3. Heed \/ UNCHANGED <<loop, missed, streak, lagged>> \/ OrientationLag
    BY <1>2 DEF SignalStep, SecondarySignal, KeyboardSignal, OrientationSignal,
       AvailabilitySignal
  <2>4. CASE OrientationLag
    <3>1. /\ deadline' = TRUE /\ lagged' = TRUE /\ UNCHANGED <<deep, followup, quiet, streak>>
      BY <2>4 DEF OrientationLag
    <3> QED
      BY <2>2, <3>1 DEF Throttle
  <2> QED
    BY <1>1, <2>1, <2>2, <2>3, <2>4, HeedCounts
<1>3. CASE QuietEnds
  <2>1. /\ quiet = "on" /\ quiet' = "over" /\ UNCHANGED <<deadline, deep, followup, job>>
        /\ UNCHANGED <<streak, lagged>>
    BY <1>3 DEF QuietEnds, apply, history
  <2> QED
    BY <2>1 DEF Throttle, LoopIsFree
<1>4. CASE Debounce
  <2>0. LoopIsFree /\ deadline /\ deadline' = FALSE /\ UNCHANGED <<followup, streak, lagged>>
    BY <1>4 DEF Debounce
  <2>1. CASE quiet = "on"
    <3>1. UNCHANGED <<deep, quiet, job>>
      BY <1>4, <2>1 DEF Debounce
    <3> QED
      BY <2>0, <3>1 DEF Throttle, LoopIsFree
  <2>2. CASE quiet # "on"
    <3>1. quiet' = "none" /\ deep' = IF quiet = "over" THEN 0 ELSE deep
      BY <1>4, <2>2 DEF Debounce
    <3>2. deep' = deep
      BY <3>1 DEF Throttle
    <3> QED
      BY <2>0, <3>1, <3>2 DEF Throttle
  <2> QED
    BY <2>1, <2>2
<1>5. CASE TaskStep
  <2>1. UNCHANGED <<loop, streak, lagged>>
    BY <1>5 DEF TaskStep, TakeSerial, AbortedIsDropped, CampaignStarts, TryAgain, history
  <2>2. ASSUME NEW p \in Jobs, Snapshot(p), job[p].pc # "none"
        PROVE  LoopIsFree' <=> LoopIsFree
    BY <1>0, <2>2 DEF Snapshot, LoopIsFree
  <2>3. LoopIsFree' <=> LoopIsFree
    <3>1. CASE AbortedIsDropped
      BY <1>0, <3>1 DEF AbortedIsDropped, LoopIsFree
    <3> QED
      BY <1>5, <2>2, <3>1 DEF TaskStep, TakeSerial, CampaignStarts, TryAgain
  <2> QED
    BY <1>1, <2>1, <2>3
<1>6. ASSUME NEW p \in Jobs, JobStep(p)
      PROVE  Throttle'
  <2>1. CASE Moving(p)
    <3>1. Applying(p) /\ UNCHANGED loop /\ UNCHANGED <<streak, lagged>>
      BY <2>1, JobMoves
    <3>2. LoopIsFree' <=> LoopIsFree
      BY <1>0, <2>1, JobMoves DEF LoopIsFree, Applying
    <3> QED
      BY <1>1, <3>1, <3>2
  <2>2. CASE AlreadyRight(p)
    BY <2>2, EndsCounts DEF AlreadyRight, Outcomes, Applying
  <2>3. CASE Verify(p)
    BY <2>3, EndsCounts, PassFailsCounts DEF Verify, Outcomes, Applying
  <2> QED
    BY <1>6, <2>1, <2>2, <2>3 DEF JobStep, Moving
<1>7. ASSUME NEW p \in Jobs, JobFault(p)
      PROVE  Throttle'
  <2>1. Applying(p)
    BY <1>7 DEF JobFault, RootUnavailable, GuardRefuses, MutterRejects, MutterFails,
       NeedsApply, Applying
  <2>2. (\E result \in Outcomes : Ends(p, result)) \/ PassFails(p)
    BY <1>7 DEF JobFault, RootUnavailable, GuardRefuses, MutterRejects, MutterFails,
       Outcomes
  <2> QED
    BY <2>1, <2>2, EndsCounts, PassFailsCounts
<1>8. WatcherStep \/ EnvironmentStep \/ UNCHANGED vars
         => UNCHANGED <<loop, streak, lagged>> /\ UNCHANGED job
  BY DEF WatcherStep, WatchChange, WatchRead, WatchReport, WatchNudge, EnvironmentStep,
     SecondaryUpdate, KeyboardUpdate, MachineTurns, LayoutChanges, vars, apply, history
<1>9. ASSUME UNCHANGED <<loop, streak, lagged>> /\ UNCHANGED job
      PROVE  Throttle'
  BY <1>1, <1>9 DEF LoopIsFree
<1> QED
  BY <1>2, <1>3, <1>4, <1>5, <1>6, <1>7, <1>8, <1>9 DEF Next

LEMMA ThrottleInit == Init => Throttle
  BY BoundsAssumption DEF Init, Throttle, LoopIsFree, NoJob, Job, Jobs

(* Reconciles that keep changing the layout are cut off after the maximum, *)
(* in every order of signals, reconciles and quiet minutes, as long as all *)
(* of them came from signals the loop counts.                              *)
THEOREM LoopStaysThrottled == Spec => []LoopIsThrottled
<1>1. Init => Typed /\ Throttle
  BY TypedInit, ThrottleInit
<1>2. Typed /\ Throttle /\ [Next]_vars => Typed' /\ Throttle'
  BY TypedStep, ThrottleStep
<1>3. Typed /\ Throttle => LoopIsThrottled
  BY BoundsAssumption DEF Typed, LoopTyped, CountsTyped, Throttle, LoopIsThrottled
<1> QED
  BY <1>1, <1>2, <1>3, PTL DEF Spec

-----------------------------------------------------------------------------
(* What the layout and the running attempt are for.  A step that leaves    *)
(* work pending needs no more; neither does one that keeps what is pending.*)
Aimless(p) == job[p].pc \notin {"read", "turn", "apply", "verify"}

LEMMA PendingSuffices ==
  ASSUME InputsPending', ~kbKnown' => ~kb'
  PROVE  Converging'
  BY DEF Converging, AimsRight, RestsRight

LEMMA PendingKept ==
  ASSUME UNCHANGED <<inputs, job, verdict>>, Converging,
         InputsPending => InputsPending',
         \/ LayoutPending'
         \/ UNCHANGED <<available, layout>> /\ (LayoutPending => ~NoJobs)
         \/ UNCHANGED <<available, layout>> /\ ~LayoutPending,
         \/ NewsPending' \/ InputsPending'
         \/ available' = available /\ ~NewsPending
         \/ ~\E p \in Jobs : OutOfDate(p)'
  PROVE  Converging'
<1>1. /\ kb' = kb /\ kbKnown' = kbKnown /\ want' = want /\ mode' = mode /\ turn' = turn
      /\ (NoJobs' <=> NoJobs)
      /\ \A p \in Jobs : available' = available => (OutOfDate(p)' <=> OutOfDate(p))
  BY DEF inputs, NoJobs, OutOfDate
<1>2. \A p \in Jobs : AimsRight(p)'
  BY <1>1 DEF Converging, AimsRight, Knows
<1>3. RestsRight'
  <2>1. UNCHANGED <<available, layout>> => UNCHANGED <<Inputs, Joined, layout>>
    BY <1>1 DEF Inputs, Joined
  <2> QED
    BY <1>1, <2>1 DEF Converging, RestsRight
<1> QED
  BY <1>1, <1>2, <1>3 DEF Converging

LEMMA PendingFrame ==
  ASSUME UNCHANGED <<channels, deadline, missed, watcher>>,
         job["reconcile"].pc = "lock" => job'["reconcile"].pc = "lock"
  PROVE  InputsPending => InputsPending'
  BY DEF InputsPending, channels

LEMMA HeedLeavesPending == Heed => missed' \/ deadline'
  BY DEF Heed

(* The two jobs never work at the same time. *)
LEMMA OtherIsAimless ==
  ASSUME Locking, NEW p \in Jobs, NEW q \in Jobs \ {p},
         job[p].pc \in {"lock", "spawned", "read", "turn", "apply", "verify",
                     "sleep"}
  PROVE  Aimless(q)
  BY DEF Locking, Jobs, Aimless, Applying

(* A step of job p: the others rest, and p aims at the inputs. *)
LEMMA JobConverges ==
  ASSUME Converging, Locking, NEW p \in Jobs, UNCHANGED inputs,
         job[p].pc \in {"lock", "spawned", "read", "turn", "apply", "verify",
                     "sleep"},
         \A q \in Jobs \ {p} : job'[q] = job[q], job'[p].pc # "none",
         AimsRight(p)'
  PROVE  Converging'
<1>1. ~NoJobs'
  BY DEF NoJobs
<1>2. ASSUME NEW q \in Jobs \ {p} PROVE AimsRight(q)'
  BY OtherIsAimless, <1>2 DEF Aimless, AimsRight, OutOfDate
<1>3. ~kbKnown' => ~kb'
  BY DEF inputs, Converging
<1> QED
  BY <1>1, <1>2, <1>3 DEF Converging, RestsRight

LEMMA SnapshotConverges ==
  ASSUME Typed, Converging, Locking, NEW p \in Jobs, UNCHANGED inputs, Snapshot(p),
         job[p].pc \in {"lock", "spawned", "sleep"}
  PROVE  Converging'
<1> DEFINE g == [NoGoal EXCEPT !.kb = kb, !.want = want]
           k == [pc |-> "read", attempt |-> job[p].attempt + 1, pass |-> 0, goal |-> g]
<1>1. g.kb = kb /\ g.want = want
  BY GoalTyped DEF Goals
<1> HIDE DEF g
<1>2. k.pc = "read" /\ k.goal = g
  OBVIOUS
<1>3. job' = [job EXCEPT ![p] = k]
  BY DEF Snapshot, g
<1> HIDE DEF k
<1>4. job'[p] = k /\ \A q \in Jobs \ {p} : job'[q] = job[q]
  BY <1>3 DEF Typed, ApplyTyped
<1>5. AimsRight(p)'
  BY <1>1, <1>2, <1>4 DEF AimsRight, Knows, OutOfDate, inputs
<1> QED
  BY <1>2, <1>4, <1>5, JobConverges

(* Where an attempt that succeeds leaves the layout. *)
LeavesRight(p) ==
    /\ job[p].pass = 0 => layout = LayoutFor(Inputs) \/ InputsPending \/ LayoutPending
    /\ job[p].pass # 0 => layout = LayoutFor(Joined) \/ InputsPending \/ LayoutPending

LEMMA TargetIsRight ==
  ASSUME NEW j \in JobType, layout = LayoutFor(GoalOf(j)),
         Knows(j.goal), j.goal.mode = mode, j.goal.turn = turn, j.goal.there = available
  PROVE  /\ j.pass = 0 => layout = LayoutFor(Inputs)
         /\ j.pass # 0 => layout = LayoutFor(Joined)
<1>1. CASE j.pass = 0
  BY <1>1 DEF GoalOf, LayoutFor, Inputs, Knows
<1>2. CASE j.pass # 0
  <2> DEFINE g == GoalOf(j)
  <2>1. /\ g.kb = kb /\ g.want = want /\ g.turn = turn /\ g.there = available
        /\ g.mode = "joined"
    BY <1>2 DEF GoalOf, JobType, Goals, Knows
  <2>2. /\ Joined.kb = kb /\ Joined.want = want /\ Joined.turn = turn
        /\ Joined.there = available /\ Joined.mode = "joined"
    BY DEF Joined, Inputs
  <2> HIDE DEF g
  <2>3. LayoutFor(g) = LayoutFor(Joined)
    BY <2>1, <2>2 DEF LayoutFor
  <2> QED
    BY <1>2, <2>3 DEF g
<1> QED
  BY <1>1, <1>2

LEMMA AlreadyLeavesRight ==
  ASSUME Typed, Converging, NEW p \in Jobs, AlreadyRight(p)
  PROVE  LeavesRight(p)
<1> DEFINE k == Looks(job[p])
<1>0. job[p] \in JobType /\ available \in BOOLEAN
  BY DEF Typed, ApplyTyped, OutsideTyped
<1>1. /\ k \in JobType /\ k.pass = job[p].pass /\ k.goal.there = available
      /\ k.goal.kb = job[p].goal.kb /\ k.goal.want = job[p].goal.want
      /\ k.goal.mode = job[p].goal.mode /\ k.goal.turn = job[p].goal.turn
  BY <1>0, PanelIsSeen
<1>2. layout = LayoutFor(GoalOf(k)) /\ job[p].pc = "apply"
  BY DEF AlreadyRight
<1> HIDE DEF k
<1>3. \/ InputsPending
      \/ Knows(k.goal) /\ k.goal.mode = mode /\ k.goal.turn = turn
  BY <1>1, <1>2 DEF Converging, AimsRight, Knows
<1> QED
  BY <1>1, <1>2, <1>3, TargetIsRight DEF LeavesRight

LEMMA VerifiedLeavesRight ==
  ASSUME Typed, Converging, NEW p \in Jobs, job[p].pc = "verify",
         layout = LayoutFor(GoalOf(job[p]))
  PROVE  LeavesRight(p)
<1>1. job[p] \in JobType
  BY DEF Typed, ApplyTyped
<1>2. NewsPending => LayoutPending
  BY DEF NewsPending, LayoutPending
<1>3. \/ InputsPending \/ LayoutPending
      \/ /\ Knows(job[p].goal) /\ job[p].goal.mode = mode /\ job[p].goal.turn = turn
         /\ job[p].goal.there = available
  BY <1>2 DEF Converging, AimsRight, OutOfDate
<1> QED
  BY <1>1, <1>3, TargetIsRight DEF LeavesRight

LEMMA EndsConverge ==
  ASSUME Typed, Converging, Locking, NEW p \in Jobs, NEW result \in Outcomes,
         Applying(p), Ends(p, result),
         UNCHANGED <<inputs, channels, mutter, watcher, missed>>,
         result \in {"changed", "same"} => LeavesRight(p)
  PROVE  Converging'
<1> USE DEF Jobs
<1>0. NoJob.pc = "none" /\ Job("spawned").pc = "spawned" /\ job \in [Jobs -> JobType]
  BY JobTyped DEF NoJob, Typed, ApplyTyped
<1>1. deadline' = deadline
  BY DEF Ends, ReconcileEnds, AttemptEnds, loop
<1>2. /\ Inputs' = Inputs /\ Joined' = Joined /\ (~kbKnown' => ~kb')
      /\ layout' = layout /\ (LayoutPending' <=> LayoutPending)
      /\ job["reconcile"].pc # "lock"
  BY DEF inputs, mutter, Inputs, Joined, LayoutPending, Converging, Applying, Locking
<1>3. InputsPending => InputsPending'
  BY <1>1, <1>2, PendingFrame
<1>4. ASSUME NEW r \in Outcomes, verdict' = Settled(r, job[p]) \/ verdict' = "other",
             r \in {"changed", "same"} => r = result
      PROVE  RestsRight'
  <2>1. CASE r \in {"changed", "same"} /\ verdict' = Settled(r, job[p])
    <3>1. /\ verdict' = "asked" => job[p].pass = 0
          /\ verdict' = "fallback" => job[p].pass # 0
      BY <2>1 DEF Settled
    <3>2. LeavesRight(p)
      BY <1>4, <2>1
    <3> QED
      BY <1>2, <1>3, <3>1, <3>2 DEF RestsRight, LeavesRight, LayoutFor
  <2>2. CASE verdict' = "other"
    BY <2>2 DEF RestsRight
  <2>3. CASE r \notin {"changed", "same"} /\ verdict' = Settled(r, job[p])
    BY <2>2, <2>3 DEF Settled
  <2> QED
    BY <1>4, <2>1, <2>2, <2>3
<1>5. CASE p = "reconcile"
  <2>1. ReconcileEnds(result)
    BY <1>5 DEF Ends
  <2>2. job'["reconcile"].pc = "none" /\ job'["recovery"].pc \notin {"read", "turn", "apply", "verify"}
    <3>1. job["recovery"].pc \in {"none", "aborted"}
      BY <1>5 DEF Locking, Applying
    <3> QED
      BY <1>0, <2>1, <3>1 DEF ReconcileEnds
  <2>3. RestsRight'
    BY <1>4, <1>5, <2>1 DEF ReconcileEnds
  <2> QED
    BY <1>2, <2>2, <2>3 DEF Converging, AimsRight, OutOfDate
<1>6. CASE p = "recovery"
  <2>0. job["reconcile"].pc = "none"
    BY <1>6 DEF Locking, Applying
  <2>1. PICK r \in Outcomes : AttemptEnds(r) /\ (r \in {"changed", "same"} => r = result)
    BY <1>6 DEF Ends, Outcomes
  <2>2. CASE \E v : CampaignEnds(v) /\ (v = Settled(r, job[p]) \/ v = "other")
    <3>1. job'["recovery"].pc = "none" /\ job'["reconcile"].pc = "none"
      BY <1>0, <2>0, <2>2 DEF CampaignEnds
    <3>2. RestsRight'
      BY <1>4, <2>1, <2>2 DEF CampaignEnds
    <3> QED
      BY <1>2, <3>1, <3>2 DEF Converging, AimsRight, OutOfDate
  <2>3. CASE job' = [job EXCEPT !["recovery"]
                        = [Job("sleep") EXCEPT !.attempt = job["recovery"].attempt]]
    <3>1. [Job("sleep") EXCEPT !.attempt = job["recovery"].attempt].pc = "sleep"
      BY DEF Job
    <3>2. job'["recovery"].pc = "sleep" /\ job'["reconcile"].pc = "none"
      BY <1>0, <2>0, <2>3, <3>1
    <3> QED
      BY <1>2, <3>2 DEF Converging, AimsRight, OutOfDate, RestsRight,
         NoJobs
  <2> QED
    BY <1>6, <2>1, <2>2, <2>3 DEF AttemptEnds
<1> QED
  BY <1>5, <1>6

LEMMA PassFailsConverges ==
  ASSUME Typed, Converging, Locking, NEW p \in Jobs, job[p].pc \in {"apply", "verify"},
         PassFails(p), UNCHANGED <<inputs, channels, mutter, watcher, missed>>
  PROVE  Converging'
<1>0. job \in [Jobs -> JobType]
  BY DEF Typed, ApplyTyped
<1>1. CASE MayFallBack(job[p])
  <2> DEFINE k == [job[p] EXCEPT !.pass = 1, !.pc = "apply"]
  <2>1. job' = [job EXCEPT ![p] = k] /\ UNCHANGED loop
    BY <1>1 DEF PassFails
  <2>2. k.pc = "apply" /\ k.goal = job[p].goal
    BY <1>0 DEF JobType
  <2> HIDE DEF k
  <2>3. job'[p] = k /\ \A q \in Jobs \ {p} : job'[q] = job[q]
    BY <1>0, <2>1
  <2>4. job["reconcile"].pc = "lock" => job'["reconcile"].pc = "lock"
    BY <2>3 DEF Jobs
  <2>5. AimsRight(p)'
    <3>1. InputsPending => InputsPending'
      BY <2>1, <2>4, PendingFrame DEF loop
    <3>2. job'[p].pc = "apply" /\ job'[p].goal = job[p].goal
      BY <2>2, <2>3
    <3> QED
      BY <3>1, <3>2 DEF Converging, AimsRight, Knows, OutOfDate, inputs
  <2> QED
    BY <2>2, <2>3, <2>5, JobConverges
<1>2. CASE ~MayFallBack(job[p])
  BY <1>2, EndsConverge DEF PassFails, Outcomes, Applying
<1> QED
  BY <1>1, <1>2

LEMMA SignalConverges == Typed /\ Converging /\ SignalStep => Converging'
<1> SUFFICES ASSUME Typed, Converging, SignalStep PROVE Converging'
  OBVIOUS
<1>0. ~kbKnown => ~kb
  BY DEF Converging
<1>1. ASSUME Heed, ~kbKnown' => ~kb'
      PROVE  Converging'
  BY <1>1, HeedLeavesPending, PendingSuffices DEF InputsPending
<1>2. CASE SecondarySignal
  <2>1. Heed /\ UNCHANGED <<kb, kbKnown>>
    BY <1>2 DEF SecondarySignal
  <2> QED
    BY <1>0, <1>1, <2>1
<1>3. CASE KeyboardSignal
  <2>1. kbKnown' = TRUE /\ docks # <<>> /\ kb' = Head(docks)
    BY <1>3 DEF KeyboardSignal
  <2>2. CASE Heed
    BY <1>1, <2>1, <2>2
  <2>3. CASE (kbKnown /\ kb' = kb) \/ (~kbKnown /\ ~kb')
    <3>1. kb' = kb
      <4>1. docks \in Seq(BOOLEAN) /\ kb \in BOOLEAN
        BY DEF Typed, ChannelsTyped, InputsTyped
      <4>2. Head(docks) \in BOOLEAN
        BY <2>1, <4>1, HeadTailProperties
      <4>3. kb' \in BOOLEAN
        BY <2>1, <4>2, Zenon
      <4> QED
        BY <1>0, <2>3, <4>1, <4>3
    <3>2. /\ UNCHANGED <<want, turn, mode, wants, turned, nudges, deadline, job, busy,
                         available, layout, watcher, changed, missed, verdict>>
      BY <1>3, <2>3 DEF KeyboardSignal, apply, mutter, loop
    <3>3. /\ Inputs' = Inputs /\ Joined' = Joined /\ (InputsPending' <=> InputsPending)
          /\ (LayoutPending' <=> LayoutPending) /\ (NoJobs' <=> NoJobs)
          /\ (NewsPending' <=> NewsPending)
      BY <3>1, <3>2 DEF Inputs, Joined, InputsPending, LayoutPending, NewsPending, NoJobs
    <3>4. \A p \in Jobs : AimsRight(p)'
      BY <3>1, <3>2, <3>3 DEF Converging, AimsRight, Knows, OutOfDate
    <3> QED
      BY <2>1, <3>1, <3>2, <3>3, <3>4 DEF Converging, RestsRight
  <2> QED
    BY <1>3, <2>2, <2>3 DEF KeyboardSignal
<1>4. CASE OrientationSignal \/ AvailabilitySignal
  <2>1. Heed /\ UNCHANGED <<kb, kbKnown>>
    BY <1>4 DEF OrientationSignal, AvailabilitySignal, inputs
  <2> QED
    BY <1>0, <1>1, <2>1
<1>5. CASE OrientationLag
  <2>1. deadline' /\ UNCHANGED <<kb, kbKnown>>
    BY <1>5 DEF OrientationLag, inputs
  <2> QED
    BY <1>0, <2>1, PendingSuffices DEF InputsPending
<1> QED
  BY <1>2, <1>3, <1>4, <1>5 DEF SignalStep

LEMMA DebounceConverges == Typed /\ Converging /\ Debounce => Converging'
<1> SUFFICES ASSUME Typed, Converging, Debounce PROVE Converging'
  OBVIOUS
<1>1. ~kbKnown' => ~kb'
  BY DEF Converging, Debounce, inputs
<1>2. CASE quiet = "on"
  BY <1>1, <1>2, PendingSuffices DEF Debounce, InputsPending
<1>3. CASE quiet # "on"
  <2>1. job' = [job EXCEPT !["reconcile"] = Job("lock"), !["recovery"] = Cancelled(@)]
    BY <1>3 DEF Debounce
  <2>2. job'["reconcile"].pc = "lock"
    BY <2>1, JobTyped DEF Typed, ApplyTyped, Jobs
  <2> QED
    BY <1>1, <2>2, PendingSuffices DEF InputsPending
<1> QED
  BY <1>2, <1>3

LEMMA TaskConverges == Typed /\ Converging /\ Locking /\ TaskStep => Converging'
<1> SUFFICES ASSUME Typed, Converging, Locking, TaskStep PROVE Converging'
  OBVIOUS
<1> USE DEF Jobs
<1>1. CASE TakeSerial \/ CampaignStarts \/ TryAgain
  BY <1>1, SnapshotConverges DEF TakeSerial, CampaignStarts, TryAgain
<1>2. CASE AbortedIsDropped
  <2>1. job["reconcile"].pc = "lock" /\ UNCHANGED inputs
    BY <1>2 DEF AbortedIsDropped, Locking
  <2>2. job'["reconcile"].pc = "lock"
    BY <1>2, <2>1 DEF AbortedIsDropped, Typed, ApplyTyped
  <2> QED
    BY <2>1, <2>2, PendingSuffices DEF InputsPending, Converging, inputs
<1> QED
  BY <1>1, <1>2 DEF TaskStep

LEMMA JobStepConverges ==
  ASSUME Typed, Converging, Locking, NEW p \in Jobs, JobStep(p)
  PROVE  Converging'
<1>0. /\ job \in [Jobs -> JobType] /\ job[p] \in JobType /\ mode \in Modes /\ turn \in Turns
      /\ available \in BOOLEAN
  BY DEF Typed, ApplyTyped, InputsTyped, OutsideTyped
<1>1. ASSUME NEW k \in JobType, job' = [job EXCEPT ![p] = k],
             k.pc \in {"turn", "apply", "verify"}, job[p].pc \in {"read", "turn", "apply"},
             UNCHANGED <<inputs, channels, loop, watcher, missed>>,
             InputsPending' \/ AimsRight(p)'
      PROVE  Converging'
  <2>1. job'[p] = k /\ \A q \in Jobs \ {p} : job'[q] = job[q]
    BY <1>0, <1>1
  <2>2. CASE InputsPending'
    BY <1>1, <2>2, PendingSuffices DEF Converging, inputs
  <2>3. CASE AimsRight(p)'
    BY <1>1, <2>1, <2>3, JobConverges
  <2> QED
    BY <1>1, <2>2, <2>3
<1>2. ASSUME NEW k, job' = [job EXCEPT ![p] = k], job[p].pc # "lock",
             UNCHANGED <<inputs, channels, loop, watcher, missed>>
      PROVE  job'[p] = k /\ (InputsPending => InputsPending')
  <2>1. job'[p] = k /\ \A q \in Jobs \ {p} : job'[q] = job[q]
    BY <1>0, <1>2
  <2>2. job["reconcile"].pc = "lock" => job'["reconcile"].pc = "lock"
    BY <1>2, <2>1 DEF Jobs
  <2> QED
    BY <1>2, <2>1, <2>2, PendingFrame DEF loop
<1>3. CASE ReadMode(p)
  <2> DEFINE k == [job[p] EXCEPT !.pc = "turn", !.goal.mode = mode]
  <2>1. /\ k \in JobType /\ k.pc = "turn" /\ k.goal.mode = mode
        /\ k.goal.kb = job[p].goal.kb /\ k.goal.want = job[p].goal.want
    BY <1>0, ModeIsRead
  <2>2. /\ job' = [job EXCEPT ![p] = k] /\ job[p].pc = "read"
        /\ UNCHANGED <<inputs, channels, loop, watcher, missed>>
    BY <1>3 DEF ReadMode, history
  <2> HIDE DEF k
  <2>3. job'[p] = k /\ (InputsPending => InputsPending')
    BY <1>2, <2>2
  <2>4. InputsPending' \/ AimsRight(p)'
    BY <2>1, <2>2, <2>3 DEF Converging, AimsRight, Knows, OutOfDate, inputs
  <2> QED
    BY <1>1, <2>1, <2>2, <2>4
<1>4. CASE ReadTurn(p)
  <2>1. CASE missed' = TRUE
    BY <1>4, <2>1, PendingSuffices DEF ReadTurn, InputsPending, Converging, inputs
  <2>2. CASE job' = [job EXCEPT ![p] = TurnedTo(job[p], turn)] /\ missed' = missed
    <3> DEFINE k == TurnedTo(job[p], turn)
    <3>1. /\ k \in JobType /\ k.pc = "apply" /\ k.goal.turn = turn
          /\ k.goal.kb = job[p].goal.kb /\ k.goal.want = job[p].goal.want
          /\ k.goal.mode = job[p].goal.mode
      BY <1>0, TurnIsRead
    <3>2. /\ job' = [job EXCEPT ![p] = k] /\ job[p].pc = "turn"
          /\ UNCHANGED <<inputs, channels, loop, watcher, missed>>
      BY <1>4, <2>2 DEF ReadTurn
    <3> HIDE DEF k
    <3>3. job'[p] = k /\ (InputsPending => InputsPending')
      BY <1>2, <3>2
    <3>4. InputsPending' \/ AimsRight(p)'
      BY <3>1, <3>2, <3>3 DEF Converging, AimsRight, Knows, OutOfDate, inputs
    <3> QED
      BY <1>1, <3>1, <3>2, <3>4
  <2> QED
    BY <1>4, <2>1, <2>2 DEF ReadTurn
<1>5. CASE AlreadyRight(p)
  BY <1>5, AlreadyLeavesRight, EndsConverge DEF AlreadyRight, Outcomes, Applying
<1>6. CASE Apply(p)
  <2> DEFINE k == [Looks(job[p]) EXCEPT !.pc = "verify"]
  <2>1. /\ k \in JobType /\ k.pc = "verify" /\ k.goal.there = available
        /\ k.goal.kb = job[p].goal.kb /\ k.goal.want = job[p].goal.want
        /\ k.goal.mode = job[p].goal.mode /\ k.goal.turn = job[p].goal.turn
    BY <1>0, PanelIsSeen
  <2>2. /\ job' = [job EXCEPT ![p] = k] /\ job[p].pc = "apply" /\ available' = available
        /\ UNCHANGED <<inputs, channels, loop, watcher, missed>>
    BY <1>6 DEF Apply, NeedsApply, history
  <2> HIDE DEF k
  <2>3. job'[p] = k /\ (InputsPending => InputsPending')
    BY <1>2, <2>2
  <2>4. InputsPending' \/ AimsRight(p)'
    BY <2>1, <2>2, <2>3 DEF Converging, AimsRight, Knows, OutOfDate, inputs
  <2> QED
    BY <1>1, <2>1, <2>2, <2>4
<1>7. CASE Verify(p)
  <2>1. /\ job[p].pc = "verify"
        /\ UNCHANGED <<inputs, channels, mutter, watcher, missed>>
    BY <1>7 DEF Verify
  <2>2. \/ layout = LayoutFor(GoalOf(job[p])) /\ Ends(p, "changed")
        \/ PassFails(p)
    BY <1>7 DEF Verify
  <2> QED
    BY <2>1, <2>2, VerifiedLeavesRight, EndsConverge, PassFailsConverges
    DEF Outcomes, Applying
<1> QED
  BY <1>3, <1>4, <1>5, <1>6, <1>7 DEF JobStep

LEMMA JobFaultConverges ==
  ASSUME Typed, Converging, Locking, NEW p \in Jobs, JobFault(p)
  PROVE  Converging'
<1>1. UNCHANGED <<inputs, channels, mutter, watcher, missed>>
  BY DEF JobFault, RootUnavailable, GuardRefuses, MutterRejects, MutterFails
<1>2. job[p].pc \in {"read", "turn", "apply", "verify"}
  BY DEF JobFault, RootUnavailable, GuardRefuses, MutterRejects, MutterFails, NeedsApply
<1>3. \/ \E result \in Outcomes \ {"changed", "same"} : Ends(p, result)
      \/ PassFails(p) /\ job[p].pc = "apply"
  BY DEF JobFault, RootUnavailable, GuardRefuses, MutterRejects, MutterFails, NeedsApply,
     Outcomes
<1> QED
  BY <1>1, <1>2, <1>3, EndsConverge, PassFailsConverges DEF Applying

LEMMA WatcherConverges ==
  ASSUME Typed, Converging, Locking, WatcherStep
  PROVE  Converging'
<1>0. /\ watcher \in [pc : {"wait", "settle", "report", "nudge"}, seen : Modes]
      /\ NotWatching.pc = "wait" /\ nudges \in Nat /\ Cap \in Nat \ {0}
  BY BoundsAssumption DEF Typed, OutsideTyped, ChannelsTyped, NotWatching
<1>1. busy => ~NoJobs
  BY DEF Locking, NoJobs, Jobs
<1>2. UNCHANGED channels /\ UNCHANGED <<deadline, missed, job>> /\ watcher.pc # "nudge"
         => (InputsPending => InputsPending')
  BY DEF InputsPending, channels
<1>3. CASE WatchChange
  <2>1. /\ watcher.pc = "wait" /\ changed
        /\ UNCHANGED inputs /\ UNCHANGED channels /\ UNCHANGED <<deadline, job, verdict>>
        /\ UNCHANGED <<available, layout, busy>>
        /\ missed' = (missed \/ (busy /\ \E p \in Jobs : OutOfDate(p)))
    BY <1>3 DEF WatchChange, loop, apply
  <2>2. busy \/ watcher'.pc = "settle"
    BY <1>0, <1>3 DEF WatchChange
  <2>3. InputsPending => InputsPending'
    BY <2>1 DEF InputsPending, channels
  <2>4. CASE busy /\ \E p \in Jobs : OutOfDate(p)
    BY <2>1, <2>4, PendingSuffices DEF InputsPending, Converging, inputs
  <2>5. CASE busy /\ ~\E p \in Jobs : OutOfDate(p)
    <3>1. ~\E p \in Jobs : OutOfDate(p)'
      BY <2>1, <2>5 DEF OutOfDate
    <3> QED
      BY <1>1, <2>1, <2>3, <2>5, <3>1, PendingKept
  <2>6. CASE ~busy
    BY <2>1, <2>2, <2>3, <2>6, PendingKept DEF LayoutPending, NewsPending
  <2> QED
    BY <2>4, <2>5, <2>6
<1>4. CASE WatchRead
  <2>1. /\ watcher.pc = "settle"
        /\ UNCHANGED inputs /\ UNCHANGED channels /\ UNCHANGED <<deadline, job, verdict>>
        /\ UNCHANGED <<available, layout, changed, busy>>
    BY <1>4 DEF WatchRead, loop, apply, mutter
  <2>2. CASE missed' = TRUE
    BY <2>1, <2>2, PendingSuffices DEF InputsPending, Converging, inputs
  <2>3. CASE watcher'.pc = "report" /\ missed' = missed
    BY <1>2, <2>1, <2>3, PendingKept DEF LayoutPending, NewsPending
  <2>4. CASE (busy \/ changed) /\ missed' = missed
    BY <1>1, <1>2, <2>1, <2>4, PendingKept DEF LayoutPending, NewsPending
  <2>5. \/ missed' = TRUE
        \/ watcher'.pc = "report" /\ missed' = missed
        \/ (busy \/ changed) /\ missed' = missed
    BY <1>4 DEF WatchRead
  <2> QED
    BY <2>2, <2>3, <2>4, <2>5
<1>5. CASE WatchReport
  <2>1. watcher'.pc = "nudge" /\ UNCHANGED <<kb, kbKnown>>
    BY <1>0, <1>5 DEF WatchReport
  <2> QED
    BY <2>1, PendingSuffices DEF InputsPending, Converging
<1>6. CASE WatchNudge
  <2>1. UNCHANGED <<kb, kbKnown>> /\ (missed' \/ nudges' = Least(nudges + 1, Cap))
    BY <1>6 DEF WatchNudge, inputs
  <2>2. missed' \/ nudges' > 0
    BY <1>0, <2>1 DEF Least
  <2> QED
    BY <2>1, <2>2, PendingSuffices DEF InputsPending, Converging
<1> QED
  BY <1>3, <1>4, <1>5, <1>6 DEF WatcherStep

LEMMA EnvironmentConverges ==
  ASSUME Typed, Converging, EnvironmentStep
  PROVE  Converging'
<1>1. CASE SecondaryUpdate
  <2>1. want' \in BOOLEAN /\ wants' = Push(wants, want') /\ UNCHANGED <<kb, kbKnown>>
    BY <1>1 DEF SecondaryUpdate
  <2>2. wants' # <<>>
    BY <2>1, PushTyped DEF Typed, ChannelsTyped
  <2> QED
    BY <2>1, <2>2, PendingSuffices DEF InputsPending, Converging
<1>2. CASE KeyboardUpdate
  <2>1. /\ UNCHANGED <<inputs, job, verdict>> /\ UNCHANGED <<available, layout, busy>>
        /\ UNCHANGED <<wants, turned, nudges, deadline, missed, watcher, changed>>
    BY <1>2 DEF KeyboardUpdate, loop, apply, mutter, history
  <2>2. /\ InputsPending => InputsPending'
        /\ LayoutPending => LayoutPending'
        /\ NewsPending => NewsPending'
    BY <2>1 DEF InputsPending, LayoutPending, NewsPending
  <2> QED
    BY <2>1, <2>2, PendingKept
<1>3. CASE MachineTurns
  <2>1. /\ turned' = [held |-> Least(turned.held + 1, Cap),
                      lost |-> turned.lost \/ turned.held = Cap]
        /\ UNCHANGED <<kb, kbKnown>>
    BY <1>3 DEF MachineTurns
  <2>2. turned'.held > 0
    BY <2>1, BoundsAssumption DEF Typed, ChannelsTyped, Least
  <2> QED
    BY <2>1, <2>2, PendingSuffices DEF InputsPending, Converging
<1>4. CASE LayoutChanges
  <2>1. /\ UNCHANGED <<inputs, job, verdict>> /\ changed' = TRUE
        /\ UNCHANGED channels /\ UNCHANGED <<deadline, missed, watcher>>
    BY <1>4 DEF LayoutChanges, loop, apply, history
  <2>2. InputsPending => InputsPending'
    BY <2>1 DEF InputsPending, channels
  <2> QED
    BY <2>1, <2>2, PendingKept DEF LayoutPending, NewsPending
<1> QED
  BY <1>1, <1>2, <1>3, <1>4 DEF EnvironmentStep

LEMMA ConvergingStep == Typed /\ Locking /\ Converging /\ [Next]_vars => Converging'
<1> SUFFICES ASSUME Typed, Locking, Converging, [Next]_vars PROVE Converging'
  OBVIOUS
<1>1. CASE QuietEnds \/ UNCHANGED vars
  <2>1. /\ UNCHANGED <<inputs, job, verdict>> /\ UNCHANGED channels
        /\ UNCHANGED <<deadline, missed, watcher, available, layout, changed, busy>>
    BY <1>1 DEF QuietEnds, vars, loop, apply, mutter, history
  <2>2. InputsPending => InputsPending'
    BY <2>1, PendingFrame
  <2>3. (LayoutPending' <=> LayoutPending) /\ (NewsPending' <=> NewsPending)
    BY <2>1 DEF LayoutPending, NewsPending
  <2> QED
    BY <2>1, <2>2, <2>3, PendingKept
<1> QED
  BY <1>1, SignalConverges, DebounceConverges, TaskConverges, JobStepConverges,
     JobFaultConverges, WatcherConverges, EnvironmentConverges DEF Next

LEMMA ConvergingInit == Init => Converging
<1> SUFFICES ASSUME Init PROVE Converging
  OBVIOUS
<1>1. job = [p \in Jobs |-> NoJob] /\ kb = FALSE /\ verdict = "none"
  BY DEF Init
<1>2. \A p \in Jobs : job[p].pc = "none"
  BY <1>1, JobTyped DEF NoJob
<1> QED
  BY <1>1, <1>2 DEF Converging, AimsRight, OutOfDate, RestsRight

(* Once all is taken and nothing runs, the layout a success has left is    *)
(* the one for the inputs as they then are: no order of signals, updates,  *)
(* cancelled recoveries and reports leaves it behind unseen.               *)
THEOREM SettledIsRight == Spec => []SettledIsTarget
<1>1. Init => Typed /\ Locking /\ Converging
  BY TypedInit, LockingInit, ConvergingInit
<1>2. Typed /\ Locking /\ Converging /\ [Next]_vars => Typed' /\ Locking' /\ Converging'
  BY TypedStep, LockingStep, ConvergingStep
<1>3. Typed /\ Locking /\ Converging => SettledIsTarget
  <2> SUFFICES ASSUME Typed, Converging, Idle, ~missed
               PROVE  /\ verdict = "asked" => layout = LayoutFor(Inputs)
                      /\ verdict = "fallback" => layout = LayoutFor(Joined)
    BY DEF SettledIsTarget, Joined
  <2>1. NoJobs
    BY JobTyped DEF Idle, NoJobs, NoJob
  <2>2. ~InputsPending
    BY <2>1 DEF Idle, InputsPending, NotWatching, NoJobs, Jobs, Typed, ChannelsTyped
  <2>3. ~LayoutPending
    BY DEF Idle, LayoutPending, NotWatching
  <2> QED
    BY <2>1, <2>2, <2>3 DEF Converging, RestsRight
<1> QED
  BY <1>1, <1>2, <1>3, PTL DEF Spec
=============================================================================
