----------------------- MODULE SecondaryDisplay_proofs -----------------------
(* Proofs about the secondary panel, for any number of overlapping requests *)
(* and any capacity of the event channel.                                   *)
EXTENDS SecondaryDisplay, SequenceTheorems, TLAPS

USE EventCapAssumption, BoundAssumption, FailAssumption

-----------------------------------------------------------------------------
(* The type invariant in four parts, by the kind of value. *)
Flags ==
    /\ desired \in BOOLEAN /\ enabled \in BOOLEAN /\ pogo \in BOOLEAN
    /\ disk \in BOOLEAN /\ parted \in BOOLEAN /\ registered \in BOOLEAN /\ powered \in BOOLEAN
    /\ force \in BOOLEAN /\ cooldown \in BOOLEAN /\ lost \in BOOLEAN
    /\ sessDesired \in BOOLEAN /\ sessPogo \in BOOLEAN
Queues ==
    /\ diskQueue \in Seq(Ops)
    /\ events \in Seq(BOOLEAN)
    /\ dockEvents \in Seq(BOOLEAN)
Tasks ==
    /\ evTask \in Task({"idle", "read", "write"})
    /\ enforcer \in Task({"idle", "compare", "read", "write"})
    /\ momentB \in {"idle", "called", "read", "write"}
    /\ op \in [Ops -> Task({"idle", "persist", "tracked", "notify", "ack"})]
    /\ dockLoop \in {"idle", "read", "write", "emit", "wait"}
    /\ regTask \in {"idle", "store"}
Counters == delayed \in Nat /\ spawned \in Nat

LEMMA PushBooleans ==
  ASSUME NEW q \in Seq(BOOLEAN), NEW v \in BOOLEAN
  PROVE  Push(q, v) \in Seq(BOOLEAN) /\ Push(q, v) # <<>>
<1>1. CASE Len(q) < EventCap
  BY <1>1, AppendProperties DEF Push
<1>2. CASE ~(Len(q) < EventCap)
  <2>1. Tail(q) \in Seq(BOOLEAN)
    BY <1>2, EmptySeq, HeadTailProperties
  <2>2. Push(q, v) = Append(Tail(q), v)
    BY <1>2 DEF Push
  <2> QED
    BY <2>1, <2>2, AppendProperties
<1> QED
  BY <1>1, <1>2

LEMMA TailBooleans ==
  ASSUME NEW q \in Seq(BOOLEAN), q # <<>>
  PROVE  Head(q) \in BOOLEAN /\ Tail(q) \in Seq(BOOLEAN)
  BY HeadTailProperties

LEMMA FlagsStep == TypeOK /\ [Next]_vars => Flags'
<1> SUFFICES ASSUME TypeOK, [Next]_vars PROVE Flags'
  OBVIOUS
<1> USE DEF memory, diskVars, queueVars, sessVars, ArmAndEmit, SysfsWrite, EnabledFor,
            DesiredByDefault
<1>0. Flags
  BY DEF TypeOK, Flags
<1>1. ASSUME NEW o \in Ops, CoordinatorStep(o) PROVE Flags'
  <2>1. op[o].val \in BOOLEAN
    BY DEF TypeOK, Task
  <2>2. CASE PersistDesired(o)
    BY <1>0, <2>1, <2>2 DEF Flags, PersistDesired, SavedBy, WriteEntry
  <2>3. CASE PublishTracked(o)
    BY <1>0, <2>1, <2>3 DEF Flags, PublishTracked
  <2>4. CASE NotifyEnable(o)
    BY <1>0, <2>1, <2>4 DEF Flags, NotifyEnable
  <2>5. CASE NotifyDisable(o)
    BY <1>0, <2>1, <2>5 DEF Flags, NotifyDisable
  <2>6. CASE EnableAcked(o)
    BY <1>0, <2>1, <2>6 DEF Flags, EnableAcked
  <2>7. CASE EnableNotAcked(o)
    BY <1>0, <2>1, <2>7 DEF Flags, EnableNotAcked
  <2> QED
    BY <1>1, <2>2, <2>3, <2>4, <2>5, <2>6, <2>7 DEF CoordinatorStep
<1>2. CASE DelayedOff \/ SpawnedNotify \/ CooldownElapses \/ RegisterStore
  <2>1. CASE DelayedOff
    BY <1>0, <2>1 DEF Flags, DelayedOff
  <2>2. CASE SpawnedNotify
    BY <1>0, <2>2 DEF Flags, SpawnedNotify
  <2>3. CASE CooldownElapses
    BY <1>0, <2>3 DEF Flags, CooldownElapses
  <2>4. CASE RegisterStore
    BY <1>0, <2>4 DEF Flags, RegisterStore
  <2> QED
    BY <1>2, <2>1, <2>2, <2>3, <2>4
<1>3. CASE DockLoopStep
  <2>1. CASE DockReceive
    BY <1>0, <2>1 DEF Flags, DockReceive
  <2>2. CASE EnsureOnRead
    BY <1>0, <2>2 DEF Flags, EnsureOnRead
  <2>3. CASE EnsureOnWrite
    BY <1>0, <2>3 DEF Flags, EnsureOnWrite
  <2>4. CASE DockEmit
    BY <1>0, <2>4 DEF Flags, DockEmit
  <2>5. CASE DockAcked
    BY <1>0, <2>5 DEF Flags, DockAcked
  <2>6. CASE DockNotAcked
    BY <1>0, <2>6 DEF Flags, DockNotAcked
  <2> QED
    BY <1>3, <2>1, <2>2, <2>3, <2>4, <2>5, <2>6 DEF DockLoopStep
<1>4. CASE EventTaskStep
  <2>1. evTask.val \in BOOLEAN
    BY DEF TypeOK, Task
  <2>2. CASE EventReceive
    BY <1>0, <2>1, <2>2 DEF Flags, EventReceive
  <2>3. CASE EventRead
    BY <1>0, <2>1, <2>3 DEF Flags, EventRead
  <2>4. CASE EventWrite
    BY <1>0, <2>1, <2>4 DEF Flags, EventWrite
  <2> QED
    BY <1>4, <2>2, <2>3, <2>4 DEF EventTaskStep
<1>5. CASE EnforcerTaskStep
  <2>1. enforcer.val \in BOOLEAN
    BY DEF TypeOK, Task
  <2>2. CASE EnforcerTick
    BY <1>0, <2>1, <2>2 DEF Flags, EnforcerTick, EnforcerStep
  <2>3. CASE EnforcerCompare
    BY <1>0, <2>1, <2>3 DEF Flags, EnforcerCompare, EnforcerStep
  <2>4. CASE EnforcerRead
    BY <1>0, <2>1, <2>4 DEF Flags, EnforcerRead, EnforcerStep
  <2>5. CASE EnforcerWrite
    BY <1>0, <2>1, <2>5 DEF Flags, EnforcerWrite, EnforcerStep
  <2> QED
    BY <1>5, <2>2, <2>3, <2>4, <2>5 DEF EnforcerTaskStep
<1>6. CASE MomentBHandlerStep
  <2>1. CASE MomentBCheck
    BY <1>0, <2>1 DEF Flags, MomentBCheck, MomentBStep
  <2>2. CASE MomentBRead
    BY <1>0, <2>2 DEF Flags, MomentBRead, MomentBStep
  <2>3. CASE MomentBWrite
    BY <1>0, <2>3 DEF Flags, MomentBWrite, MomentBStep
  <2> QED
    BY <1>6, <2>1, <2>2, <2>3 DEF MomentBHandlerStep
<1>7. ASSUME NEW o \in Ops, NEW new \in BOOLEAN, Coordinate(o, new) PROVE Flags'
  BY <1>0, <1>7 DEF Flags, Coordinate
<1>8. CASE PogoChanges \/ MomentBCall \/ RegisterBegin \/ SessionGone
           \/ KernelPowersOn \/ OtherTraffic \/ OtherSetterDrops
  <2>1. CASE PogoChanges
    BY <1>0, <2>1 DEF Flags, PogoChanges
  <2>2. CASE MomentBCall
    BY <1>0, <2>2 DEF Flags, MomentBCall, MomentBStep
  <2>3. CASE RegisterBegin
    BY <1>0, <2>3 DEF Flags, RegisterBegin
  <2>4. CASE SessionGone
    BY <1>0, <2>4 DEF Flags, SessionGone
  <2>5. CASE KernelPowersOn
    BY <1>0, <2>5 DEF Flags, KernelPowersOn
  <2>6. CASE OtherTraffic
    BY <1>0, <2>6 DEF Flags, OtherTraffic
  <2>7. CASE OtherSetterDrops
    BY <1>0, <2>7 DEF Flags, OtherSetterDrops
  <2> QED
    BY <1>8, <2>1, <2>2, <2>3, <2>4, <2>5, <2>6, <2>7
<1>9. CASE Restart
  BY <1>0, <1>9 DEF Flags, Restart, LoadDesired
<1>10. CASE UNCHANGED vars
  BY <1>0, <1>10 DEF Flags, vars
<1> QED
  BY <1>1, <1>2, <1>3, <1>4, <1>5, <1>6, <1>7, <1>8, <1>9, <1>10
     DEF Next, EnvironmentStep

LEMMA ArmTyped == TypeOK /\ ArmAndEmit => events' \in Seq(BOOLEAN)
  BY PushBooleans DEF ArmAndEmit, TypeOK

LEMMA QueuesStep == TypeOK /\ [Next]_vars => Queues'
<1> SUFFICES ASSUME TypeOK, [Next]_vars PROVE Queues'
  OBVIOUS
<1> USE DEF memory, diskVars, queueVars, sessVars
<1>0. Queues
  BY DEF TypeOK, Queues
<1>1. ASSUME NEW o \in Ops, CoordinatorStep(o) PROVE Queues'
  <2>1. CASE PersistDesired(o)
    BY <1>0, <2>1, HeadTailProperties DEF Queues, PersistDesired, SavedBy, WriteEntry
  <2>2. CASE PublishTracked(o) \/ NotifyEnable(o) \/ NotifyDisable(o)
             \/ EnableAcked(o) \/ EnableNotAcked(o)
    BY <1>0, <2>2, ArmTyped DEF Queues, PublishTracked, NotifyEnable, NotifyDisable,
       EnableAcked, EnableNotAcked
  <2> QED
    BY <1>1, <2>1, <2>2 DEF CoordinatorStep
<1>2. CASE DelayedOff \/ SpawnedNotify \/ CooldownElapses \/ RegisterStore
  BY <1>0, <1>2, ArmTyped DEF Queues, DelayedOff, SpawnedNotify, CooldownElapses,
     RegisterStore
<1>3. CASE DockLoopStep
  <2>1. CASE DockReceive
    BY <1>0, <2>1, TailBooleans DEF Queues, DockReceive
  <2>2. CASE EnsureOnRead \/ EnsureOnWrite \/ DockEmit \/ DockAcked \/ DockNotAcked
    BY <1>0, <2>2, ArmTyped DEF Queues, EnsureOnRead, EnsureOnWrite, DockEmit,
       DockAcked, DockNotAcked
  <2> QED
    BY <1>3, <2>1, <2>2 DEF DockLoopStep
<1>4. CASE EventTaskStep
  <2>1. CASE EventReceive
    BY <1>0, <2>1, TailBooleans DEF Queues, EventReceive
  <2>2. CASE EventRead \/ EventWrite
    BY <1>0, <2>2 DEF Queues, EventRead, EventWrite
  <2> QED
    BY <1>4, <2>1, <2>2 DEF EventTaskStep
<1>5. CASE EnforcerTaskStep
  BY <1>0, <1>5 DEF Queues, EnforcerTaskStep, EnforcerTick, EnforcerCompare,
     EnforcerRead, EnforcerWrite, EnforcerStep
<1>6. CASE MomentBHandlerStep \/ MomentBCall
  BY <1>0, <1>6 DEF Queues, MomentBHandlerStep, MomentBCheck, MomentBRead,
     MomentBWrite, MomentBStep, MomentBCall
<1>7. ASSUME NEW o \in Ops, NEW new \in BOOLEAN, Coordinate(o, new) PROVE Queues'
  BY <1>0, <1>7, AppendProperties DEF Queues, Coordinate
<1>8. CASE PogoChanges
  <2>1. pogo' \in BOOLEAN /\ enabled' \in BOOLEAN
    BY <1>8, FlagsStep DEF Flags
  <2> QED
    BY <1>0, <1>8, <2>1, PushBooleans DEF Queues, PogoChanges
<1>9. CASE RegisterBegin \/ SessionGone \/ KernelPowersOn \/ OtherTraffic \/ OtherSetterDrops
  <2>1. CASE OtherTraffic
    BY <1>0, <2>1, TailBooleans DEF Queues, OtherTraffic
  <2>2. CASE RegisterBegin \/ SessionGone \/ KernelPowersOn \/ OtherSetterDrops
    BY <1>0, <2>2, ArmTyped DEF Queues, RegisterBegin, SessionGone, KernelPowersOn,
       OtherSetterDrops
  <2> QED
    BY <1>9, <2>1, <2>2
<1>10. CASE Restart
  BY <1>10, EmptySeq DEF Queues, Restart, LoadDesired
<1>11. CASE UNCHANGED vars
  BY <1>0, <1>11 DEF Queues, vars
<1> QED
  BY <1>1, <1>2, <1>3, <1>4, <1>5, <1>6, <1>7, <1>8, <1>9, <1>10, <1>11
     DEF Next, EnvironmentStep

LEMMA TasksStep == TypeOK /\ [Next]_vars => Tasks'
<1> SUFFICES ASSUME TypeOK, [Next]_vars PROVE Tasks'
  OBVIOUS
<1> USE DEF memory, diskVars, queueVars, sessVars
<1>0. Tasks
  BY DEF TypeOK, Tasks
<1>1. ASSUME NEW o \in Ops, CoordinatorStep(o) PROVE Tasks'
  <2>1. \/ \E pc \in {"tracked", "notify", "ack"} : GoTo(o, pc)
        \/ Return(o)
    BY <1>1 DEF CoordinatorStep, PersistDesired, SavedBy, WriteEntry, PublishTracked, NotifyEnable,
       NotifyDisable, EnableAcked, EnableNotAcked
  <2>2. op' \in [Ops -> Task({"idle", "persist", "tracked", "notify", "ack"})]
    <3>1. ASSUME NEW pc \in {"tracked", "notify", "ack"}, GoTo(o, pc)
          PROVE  op' \in [Ops -> Task({"idle", "persist", "tracked", "notify", "ack"})]
      BY <1>0, <3>1 DEF Tasks, Task, GoTo
    <3>2. CASE Return(o)
      <4>1. Idle \in Task({"idle", "persist", "tracked", "notify", "ack"})
        BY DEF Task, Idle
      <4> QED
        BY <1>0, <3>2, <4>1 DEF Tasks, Return
    <3> QED
      BY <2>1, <3>1, <3>2
  <2>3. UNCHANGED <<evTask, enforcer, momentB, dockLoop, regTask>>
    BY <1>1 DEF CoordinatorStep, PersistDesired, SavedBy, WriteEntry, PublishTracked, NotifyEnable,
       NotifyDisable, EnableAcked, EnableNotAcked
  <2> QED
    BY <1>0, <2>2, <2>3 DEF Tasks
<1>2. CASE DelayedOff \/ SpawnedNotify \/ CooldownElapses \/ RegisterStore
  BY <1>0, <1>2 DEF Tasks, DelayedOff, SpawnedNotify, CooldownElapses, RegisterStore
<1>3. CASE DockLoopStep
  BY <1>0, <1>3 DEF Tasks, DockLoopStep, DockReceive, EnsureOnRead, EnsureOnWrite,
     DockEmit, DockAcked, DockNotAcked
<1>4. CASE EventTaskStep
  <2>1. events # <<>> => Head(events) \in BOOLEAN
    BY TailBooleans DEF TypeOK
  <2>2. CASE EventReceive
    BY <1>0, <2>1, <2>2 DEF Tasks, Task, Idle, EventReceive
  <2>3. CASE EventRead
    <3>1. /\ evTask' \in {Idle, [evTask EXCEPT !.pc = "write"]}
          /\ UNCHANGED <<enforcer, momentB, op, dockLoop, regTask>>
      BY <2>3 DEF EventRead
    <3>2. Idle \in Task({"idle", "read", "write"})
      BY DEF Task, Idle
    <3>3. [evTask EXCEPT !.pc = "write"] \in Task({"idle", "read", "write"})
      BY <1>0 DEF Tasks, Task
    <3> QED
      BY <1>0, <3>1, <3>2, <3>3 DEF Tasks
  <2>4. CASE EventWrite
    BY <1>0, <2>4 DEF Tasks, Task, Idle, EventWrite
  <2> QED
    BY <1>4, <2>2, <2>3, <2>4 DEF EventTaskStep
<1>5. CASE EnforcerTaskStep
  <2>1. CASE EnforcerTick
    BY <1>0, <2>1 DEF Tasks, Task, EnforcerTick, EnforcerStep, TypeOK
  <2>2. CASE EnforcerCompare
    BY <1>0, <2>2 DEF Tasks, Task, Idle, EnforcerCompare, EnforcerStep, TypeOK
  <2>3. CASE EnforcerRead
    BY <1>0, <2>3 DEF Tasks, Task, Idle, EnforcerRead, EnforcerStep
  <2>4. CASE EnforcerWrite
    BY <1>0, <2>4 DEF Tasks, Task, Idle, EnforcerWrite, EnforcerStep
  <2> QED
    BY <1>5, <2>1, <2>2, <2>3, <2>4 DEF EnforcerTaskStep
<1>6. CASE MomentBHandlerStep \/ MomentBCall
  BY <1>0, <1>6 DEF Tasks, MomentBHandlerStep, MomentBCheck, MomentBRead,
     MomentBWrite, MomentBStep, MomentBCall
<1>7. ASSUME NEW o \in Ops, NEW new \in BOOLEAN, Coordinate(o, new) PROVE Tasks'
  BY <1>0, <1>7 DEF Tasks, Task, Coordinate
<1>8. CASE PogoChanges \/ RegisterBegin \/ SessionGone \/ KernelPowersOn \/ OtherTraffic
           \/ OtherSetterDrops
  BY <1>0, <1>8 DEF Tasks, PogoChanges, RegisterBegin, SessionGone, KernelPowersOn,
     OtherTraffic, OtherSetterDrops
<1>9. CASE Restart
  BY <1>9 DEF Tasks, Task, Idle, Restart, LoadDesired
<1>10. CASE UNCHANGED vars
  BY <1>0, <1>10 DEF Tasks, vars
<1> QED
  BY <1>1, <1>2, <1>3, <1>4, <1>5, <1>6, <1>7, <1>8, <1>9, <1>10
     DEF Next, EnvironmentStep

LEMMA CountersStep == TypeOK /\ [Next]_vars => Counters'
<1> SUFFICES ASSUME TypeOK, [Next]_vars PROVE Counters'
  OBVIOUS
<1>0. Counters
  BY DEF TypeOK, Counters
<1>1. ASSUME NEW o \in Ops, CoordinatorStep(o) PROVE Counters'
  BY <1>0, <1>1 DEF Counters, CoordinatorStep, PersistDesired, SavedBy, WriteEntry, PublishTracked,
     NotifyEnable, NotifyDisable, EnableAcked, EnableNotAcked
<1>2. CASE DelayedOff \/ SpawnedNotify \/ CooldownElapses \/ RegisterStore
  BY <1>0, <1>2 DEF Counters, DelayedOff, SpawnedNotify, CooldownElapses, RegisterStore
<1>3. CASE DockLoopStep
  BY <1>0, <1>3 DEF Counters, DockLoopStep, DockReceive, EnsureOnRead, EnsureOnWrite,
     DockEmit, DockAcked, DockNotAcked
<1>4. CASE EventTaskStep
  BY <1>0, <1>4 DEF Counters, EventTaskStep, EventReceive, EventRead, EventWrite
<1>5. CASE EnforcerTaskStep
  BY <1>0, <1>5 DEF Counters, EnforcerTaskStep, EnforcerTick, EnforcerCompare,
     EnforcerRead, EnforcerWrite, EnforcerStep
<1>6. CASE MomentBHandlerStep \/ MomentBCall
  BY <1>0, <1>6 DEF Counters, MomentBHandlerStep, MomentBCheck, MomentBRead,
     MomentBWrite, MomentBStep, MomentBCall
<1>7. ASSUME NEW o \in Ops, NEW new \in BOOLEAN, Coordinate(o, new) PROVE Counters'
  BY <1>0, <1>7 DEF Counters, Coordinate
<1>8. CASE PogoChanges \/ RegisterBegin \/ SessionGone \/ KernelPowersOn \/ OtherTraffic
           \/ OtherSetterDrops
  BY <1>0, <1>8 DEF Counters, PogoChanges, RegisterBegin, SessionGone, KernelPowersOn,
     OtherTraffic, OtherSetterDrops
<1>9. CASE Restart
  BY <1>9 DEF Counters, Restart, LoadDesired
<1>10. CASE UNCHANGED vars
  BY <1>0, <1>10 DEF Counters, vars
<1> QED
  BY <1>1, <1>2, <1>3, <1>4, <1>5, <1>6, <1>7, <1>8, <1>9, <1>10
     DEF Next, EnvironmentStep

(* Every task is at a place of its program, and what it carries across an  *)
(* await is a value of the kind the code carries there.                    *)
THEOREM TypeCorrect == Spec => []TypeOK
<1>1. Init => TypeOK
  <2> SUFFICES ASSUME Init PROVE Flags /\ Queues /\ Tasks /\ Counters
    BY DEF TypeOK, Flags, Queues, Tasks, Counters
  <2>1. Flags
    BY DEF Init, Flags, EnabledFor
  <2>2. Queues
    BY EmptySeq DEF Init, Queues
  <2>3. Tasks
    BY DEF Init, Tasks, Task, Idle
  <2>4. Counters
    BY DEF Init, Counters
  <2> QED
    BY <2>1, <2>2, <2>3, <2>4
<1>2. TypeOK /\ [Next]_vars => TypeOK'
  BY FlagsStep, QueuesStep, TasksStep, CountersStep
     DEF TypeOK, Flags, Queues, Tasks, Counters
<1> QED
  BY <1>1, <1>2, PTL DEF Spec

-----------------------------------------------------------------------------
(* What the steps leave alone.  Each lemma names the few steps that change *)
(* some variables; the proofs below look at those only.                    *)

SomeRequest == \E o \in Ops, new \in BOOLEAN : Coordinate(o, new)

LEMMA MemoryFrame ==
  [Next]_vars => SomeRequest \/ PogoChanges \/ Restart \/ UNCHANGED memory
<1> SUFFICES ASSUME [Next]_vars, ~SomeRequest, ~PogoChanges, ~Restart
             PROVE  UNCHANGED memory
  OBVIOUS
<1> USE DEF memory
<1>1. ASSUME NEW o \in Ops, CoordinatorStep(o) PROVE UNCHANGED memory
  BY <1>1 DEF CoordinatorStep, PersistDesired, SavedBy, WriteEntry, PublishTracked, NotifyEnable,
     NotifyDisable, EnableAcked, EnableNotAcked
<1>2. CASE DelayedOff \/ SpawnedNotify \/ CooldownElapses \/ RegisterStore
  BY <1>2 DEF DelayedOff, SpawnedNotify, CooldownElapses, RegisterStore
<1>3. CASE DockLoopStep
  BY <1>3 DEF DockLoopStep, DockReceive, EnsureOnRead, EnsureOnWrite, DockEmit,
     DockAcked, DockNotAcked
<1>4. CASE EventTaskStep
  BY <1>4 DEF EventTaskStep, EventReceive, EventRead, EventWrite
<1>5. CASE EnforcerTaskStep
  BY <1>5 DEF EnforcerTaskStep, EnforcerTick, EnforcerCompare, EnforcerRead,
     EnforcerWrite, EnforcerStep
<1>6. CASE MomentBHandlerStep \/ MomentBCall
  BY <1>6 DEF MomentBHandlerStep, MomentBCheck, MomentBRead, MomentBWrite,
     MomentBStep, MomentBCall
<1>7. CASE RegisterBegin \/ SessionGone \/ KernelPowersOn \/ OtherTraffic \/ OtherSetterDrops
  BY <1>7 DEF RegisterBegin, SessionGone, KernelPowersOn, OtherTraffic, OtherSetterDrops
<1>8. CASE UNCHANGED vars
  BY <1>8 DEF vars
<1> QED
  BY <1>1, <1>2, <1>3, <1>4, <1>5, <1>6, <1>7, <1>8
     DEF Next, EnvironmentStep, SomeRequest

LEMMA QueueFrame ==
  [Next]_vars => \/ ArmAndEmit \/ PogoChanges \/ EventReceive \/ OtherTraffic
                 \/ Restart \/ UNCHANGED queueVars
<1> SUFFICES ASSUME [Next]_vars, ~ArmAndEmit, ~PogoChanges, ~EventReceive,
                    ~OtherTraffic, ~Restart
             PROVE  UNCHANGED queueVars
  OBVIOUS
<1> USE DEF queueVars
<1>1. ASSUME NEW o \in Ops, CoordinatorStep(o) PROVE UNCHANGED queueVars
  BY <1>1 DEF CoordinatorStep, PersistDesired, SavedBy, WriteEntry, PublishTracked, NotifyEnable,
     NotifyDisable, EnableAcked, EnableNotAcked
<1>2. CASE DelayedOff \/ SpawnedNotify \/ CooldownElapses \/ RegisterStore
  BY <1>2 DEF DelayedOff, SpawnedNotify, CooldownElapses, RegisterStore
<1>3. CASE DockLoopStep
  BY <1>3 DEF DockLoopStep, DockReceive, EnsureOnRead, EnsureOnWrite, DockEmit,
     DockAcked, DockNotAcked
<1>4. CASE EventTaskStep
  BY <1>4 DEF EventTaskStep, EventRead, EventWrite
<1>5. CASE EnforcerTaskStep
  BY <1>5 DEF EnforcerTaskStep, EnforcerTick, EnforcerCompare, EnforcerRead,
     EnforcerWrite, EnforcerStep
<1>6. CASE MomentBHandlerStep \/ MomentBCall
  BY <1>6 DEF MomentBHandlerStep, MomentBCheck, MomentBRead, MomentBWrite,
     MomentBStep, MomentBCall
<1>7. CASE RegisterBegin \/ SessionGone \/ KernelPowersOn \/ OtherSetterDrops
  BY <1>7 DEF RegisterBegin, SessionGone, KernelPowersOn, OtherSetterDrops
<1>8. ASSUME NEW o \in Ops, NEW new \in BOOLEAN, Coordinate(o, new)
      PROVE  UNCHANGED queueVars
  BY <1>8 DEF Coordinate
<1>9. CASE UNCHANGED vars
  BY <1>9 DEF vars
<1> QED
  BY <1>1, <1>2, <1>3, <1>4, <1>5, <1>6, <1>7, <1>8, <1>9
     DEF Next, EnvironmentStep

(* A call moves on, or returns, after it has written the file. *)
MovesOn(o) ==
    /\ op[o].pc # "persist"
    /\ (\E pc \in {"notify", "ack"} : GoTo(o, pc)) \/ Return(o)
    /\ UNCHANGED <<desired, diskVars>>

LEMMA RequestFrame ==
  [Next]_vars => \/ SomeRequest
                 \/ \E o \in Ops : PersistDesired(o) \/ MovesOn(o)
                 \/ OtherSetterDrops \/ Restart
                 \/ UNCHANGED <<desired, diskVars, op>>
<1> SUFFICES ASSUME [Next]_vars, ~SomeRequest, ~OtherSetterDrops, ~Restart,
                    \A o \in Ops : ~PersistDesired(o) /\ ~MovesOn(o)
             PROVE  UNCHANGED <<desired, diskVars, op>>
  OBVIOUS
<1> USE DEF memory, diskVars
<1>1. \A o \in Ops : ~CoordinatorStep(o)
  BY DEF CoordinatorStep, PublishTracked, NotifyEnable, NotifyDisable, EnableAcked,
     EnableNotAcked, MovesOn
<1>2. CASE DelayedOff \/ SpawnedNotify \/ CooldownElapses \/ RegisterStore
  BY <1>2 DEF DelayedOff, SpawnedNotify, CooldownElapses, RegisterStore
<1>3. CASE DockLoopStep
  BY <1>3 DEF DockLoopStep, DockReceive, EnsureOnRead, EnsureOnWrite, DockEmit,
     DockAcked, DockNotAcked
<1>4. CASE EventTaskStep
  BY <1>4 DEF EventTaskStep, EventReceive, EventRead, EventWrite
<1>5. CASE EnforcerTaskStep
  BY <1>5 DEF EnforcerTaskStep, EnforcerTick, EnforcerCompare, EnforcerRead,
     EnforcerWrite, EnforcerStep
<1>6. CASE MomentBHandlerStep \/ MomentBCall
  BY <1>6 DEF MomentBHandlerStep, MomentBCheck, MomentBRead, MomentBWrite,
     MomentBStep, MomentBCall
<1>7. CASE PogoChanges \/ RegisterBegin \/ SessionGone \/ KernelPowersOn \/ OtherTraffic
  BY <1>7 DEF PogoChanges, RegisterBegin, SessionGone, KernelPowersOn, OtherTraffic
<1>8. CASE UNCHANGED vars
  BY <1>8 DEF vars
<1> QED
  BY <1>1, <1>2, <1>3, <1>4, <1>5, <1>6, <1>7, <1>8
     DEF Next, EnvironmentStep, SomeRequest

-----------------------------------------------------------------------------
(* The panel is enabled exactly when it is wanted and not covered: the two *)
(* writers of `enabled' agree whatever interleaves.                        *)
THEOREM EnabledFollows == Spec => []EnabledIsWantedUndocked
<1>1. Init => EnabledIsWantedUndocked
  <2>1. Init => (desired <=> disk)
    BY DEF Init
  <2>2. Init => (enabled <=> (disk /\ ~pogo))
    BY DEF Init, EnabledFor
  <2> QED
    BY <2>1, <2>2 DEF EnabledIsWantedUndocked
<1>2. TypeOK /\ EnabledIsWantedUndocked /\ [Next]_vars => EnabledIsWantedUndocked'
  <2> SUFFICES ASSUME TypeOK, EnabledIsWantedUndocked, [Next]_vars
               PROVE  EnabledIsWantedUndocked'
    OBVIOUS
  <2> USE DEF EnabledIsWantedUndocked, EnabledFor
  <2>1. ASSUME NEW o \in Ops, NEW new \in BOOLEAN, Coordinate(o, new)
        PROVE  EnabledIsWantedUndocked'
    BY <2>1 DEF Coordinate
  <2>2. CASE PogoChanges
    BY <2>2 DEF PogoChanges
  <2>3. CASE Restart
    BY <2>3 DEF Restart, LoadDesired
  <2>4. CASE UNCHANGED memory
    BY <2>4 DEF memory
  <2> QED
    BY <2>1, <2>2, <2>3, <2>4, MemoryFrame DEF SomeRequest
<1> QED
  BY <1>1, <1>2, TypeCorrect, PTL DEF Spec

(* arm_sysfs_fallback_once never outlives the event it was armed for. *)
THEOREM FallbackHasItsEvent == Spec => []ForceHasEvent
<1>1. Init => ForceHasEvent
  BY DEF Init, ForceHasEvent
<1>2. TypeOK /\ ForceHasEvent /\ [Next]_vars => ForceHasEvent'
  <2> SUFFICES ASSUME TypeOK, ForceHasEvent, [Next]_vars PROVE ForceHasEvent'
    OBVIOUS
  <2>1. CASE ArmAndEmit
    BY <2>1, PushBooleans DEF ArmAndEmit, ForceHasEvent, TypeOK
  <2>2. CASE PogoChanges
    <3>1. enabled' \in BOOLEAN
      BY FlagsStep DEF Flags
    <3>2. events' # <<>> \/ events' = events
      BY <2>2, <3>1, PushBooleans DEF PogoChanges, TypeOK
    <3> QED
      BY <2>2, <3>2 DEF PogoChanges, ForceHasEvent
  <2>3. CASE EventReceive \/ Restart
    BY <2>3 DEF EventReceive, Restart, LoadDesired, ForceHasEvent
  <2>4. CASE OtherTraffic
    BY <2>4 DEF OtherTraffic, ForceHasEvent
  <2>5. CASE UNCHANGED queueVars
    BY <2>5 DEF queueVars, ForceHasEvent
  <2> QED
    BY <2>1, <2>2, <2>3, <2>4, <2>5, QueueFrame
<1> QED
  BY <1>1, <1>2, TypeCorrect, PTL DEF Spec

-----------------------------------------------------------------------------
(* FileEndsAtDesired needs to know who waits for the file: exactly the     *)
(* calls that have not written, each of them once.                         *)

Waits(o) == \E i \in 1..Len(diskQueue) : diskQueue[i] = o

(* A call that moves on is not waiting, so the values on their way to the  *)
(* file stay what they are.                                                *)
LEMMA MovesOnKeepsValues ==
  ASSUME TypeOK, QueueIsThePersisting, NEW o \in Ops, MovesOn(o)
  PROVE  /\ \A i \in 1..Len(diskQueue) : op'[diskQueue[i]] = op[diskQueue[i]]
         /\ op'[o].pc # "persist"
         /\ \A p \in Ops \ {o} : op'[p] = op[p]
<1>1. \A i \in 1..Len(diskQueue) : diskQueue[i] \in Ops /\ diskQueue[i] # o
  BY ElementOfSeq DEF TypeOK, QueueIsThePersisting, MovesOn
<1>2. op \in [Ops -> Task({"idle", "persist", "tracked", "notify", "ack"})]
  BY DEF TypeOK
<1>3. ASSUME NEW pc \in {"notify", "ack"}, GoTo(o, pc)
      PROVE  op'[o].pc # "persist" /\ \A p \in Ops \ {o} : op'[p] = op[p]
  BY <1>2, <1>3 DEF GoTo, Task
<1>4. ASSUME Return(o)
      PROVE  op'[o].pc # "persist" /\ \A p \in Ops \ {o} : op'[p] = op[p]
  BY <1>2, <1>4 DEF Return, Idle
<1>5. op'[o].pc # "persist" /\ \A p \in Ops \ {o} : op'[p] = op[p]
  BY <1>3, <1>4 DEF MovesOn
<1> QED
  BY <1>1, <1>5

LEMMA WaitersStep ==
  TypeOK /\ QueueIsThePersisting /\ [Next]_vars => QueueIsThePersisting'
<1> SUFFICES ASSUME TypeOK, QueueIsThePersisting, [Next]_vars
             PROVE  QueueIsThePersisting'
  OBVIOUS
<1>0. /\ diskQueue \in Seq(Ops)
      /\ op \in [Ops -> Task({"idle", "persist", "tracked", "notify", "ack"})]
  BY DEF TypeOK
<1>1. ASSUME NEW o \in Ops, NEW new \in BOOLEAN, Coordinate(o, new)
      PROVE  QueueIsThePersisting'
  <2>1. /\ diskQueue' = Append(diskQueue, o)
        /\ op[o].pc = "idle"
        /\ op'[o].pc = "persist"
        /\ \A p \in Ops \ {o} : op'[p] = op[p]
    BY <1>0, <1>1 DEF Coordinate
  <2>2. /\ Len(diskQueue') = Len(diskQueue) + 1
        /\ \A i \in 1..Len(diskQueue) : diskQueue'[i] = diskQueue[i]
        /\ diskQueue'[Len(diskQueue) + 1] = o
    BY <1>0, <2>1, AppendProperties
  <2>3. ~Waits(o)
    BY <2>1 DEF QueueIsThePersisting, Waits
  <2>4. Len(diskQueue) \in Nat
    BY <1>0
  <2>5. \A p \in Ops : op'[p].pc = "persist"
                           <=> \E i \in 1..Len(diskQueue') : diskQueue'[i] = p
    BY <2>1, <2>2, <2>4 DEF QueueIsThePersisting
  <2>6. \A i, j \in 1..Len(diskQueue') : diskQueue'[i] = diskQueue'[j] => i = j
    BY <2>2, <2>3, <2>4 DEF QueueIsThePersisting, Waits
  <2> QED
    BY <2>5, <2>6 DEF QueueIsThePersisting
<1>2. ASSUME NEW o \in Ops, PersistDesired(o)
      PROVE  QueueIsThePersisting'
  <2>1. /\ diskQueue # <<>> /\ diskQueue[1] = o
        /\ diskQueue' = Tail(diskQueue)
        /\ op'[o].pc = "tracked"
        /\ \A p \in Ops \ {o} : op'[p] = op[p]
    BY <1>0, <1>2 DEF PersistDesired, SavedBy, WriteEntry, GoTo, Task
  <2>2. /\ Len(diskQueue') = Len(diskQueue) - 1
        /\ Len(diskQueue) \in Nat \ {0}
        /\ \A i \in 1..Len(diskQueue') : diskQueue'[i] = diskQueue[i+1]
    BY <1>0, <2>1, HeadTailProperties, EmptySeq
  <2>3. \A i \in 1..Len(diskQueue') : diskQueue'[i] # o
    BY <2>1, <2>2 DEF QueueIsThePersisting
  <2>4. \A p \in Ops \ {o} : Waits(p) => \E i \in 1..Len(diskQueue') : diskQueue'[i] = p
    <3> SUFFICES ASSUME NEW p \in Ops \ {o}, NEW i \in 1..Len(diskQueue), diskQueue[i] = p
                 PROVE  \E j \in 1..Len(diskQueue') : diskQueue'[j] = p
      BY DEF Waits
    <3>1. i # 1
      BY <2>1
    <3>2. i - 1 \in 1..Len(diskQueue') /\ diskQueue'[i-1] = p
      BY <2>2, <3>1
    <3> QED
      BY <3>2
  <2>5. \A p \in Ops \ {o} : (\E i \in 1..Len(diskQueue') : diskQueue'[i] = p) => Waits(p)
    BY <2>2 DEF Waits
  <2>6. \A i, j \in 1..Len(diskQueue') : diskQueue'[i] = diskQueue'[j] => i = j
    BY <2>2 DEF QueueIsThePersisting
  <2> QED
    BY <2>1, <2>3, <2>4, <2>5, <2>6 DEF QueueIsThePersisting, Waits
<1>3. ASSUME NEW o \in Ops, MovesOn(o)
      PROVE  QueueIsThePersisting'
  <2>1. diskQueue' = diskQueue /\ op[o].pc # "persist"
    BY <1>3 DEF MovesOn, diskVars
  <2> QED
    BY <1>3, <2>1, MovesOnKeepsValues DEF QueueIsThePersisting
<1>4. CASE Restart
  BY <1>4, EmptySeq DEF Restart, LoadDesired, Idle, QueueIsThePersisting
<1>5. CASE OtherSetterDrops \/ UNCHANGED <<desired, diskVars, op>>
  BY <1>5 DEF QueueIsThePersisting, OtherSetterDrops, diskVars
<1> QED
  BY <1>1, <1>2, <1>3, <1>4, <1>5, RequestFrame DEF SomeRequest

LEMMA WaitersCorrect == Spec => []QueueIsThePersisting
<1>1. Init => QueueIsThePersisting
  BY EmptySeq DEF Init, Idle, QueueIsThePersisting
<1> QED
  BY <1>1, TypeCorrect, WaitersStep, PTL DEF Spec

-----------------------------------------------------------------------------
(* The refinement: the values on their way to the file are those of the    *)
(* waiting calls, in the order in which they wait.                         *)
Pending == [i \in 1..Len(diskQueue) |-> op[diskQueue[i]].val]

LEMMA PendingTyped == TypeOK => Pending \in Seq(BOOLEAN) /\ Len(Pending) = Len(diskQueue)
<1> SUFFICES ASSUME TypeOK
             PROVE  Pending \in Seq(BOOLEAN) /\ Len(Pending) = Len(diskQueue)
  OBVIOUS
<1>1. Len(diskQueue) \in Nat /\ \A i \in 1..Len(diskQueue) : diskQueue[i] \in Ops
  BY ElementOfSeq, LenProperties DEF TypeOK
<1>2. \A o \in Ops : op[o].val \in BOOLEAN
  BY DEF TypeOK, Task
<1>3. Pending \in [1..Len(diskQueue) -> BOOLEAN]
  BY <1>1, <1>2 DEF Pending
<1> QED
  BY <1>1, <1>3, SeqDef

LEMMA PendingOfRequest ==
  ASSUME TypeOK, QueueIsThePersisting, NEW o \in Ops, NEW new \in BOOLEAN,
         Coordinate(o, new)
  PROVE  Pending' = Append(Pending, new)
<1>1. /\ diskQueue \in Seq(Ops) /\ Len(diskQueue) \in Nat
      /\ op \in [Ops -> Task({"idle", "persist", "tracked", "notify", "ack"})]
      /\ Pending \in Seq(BOOLEAN) /\ Len(Pending) = Len(diskQueue)
  BY PendingTyped, LenProperties DEF TypeOK
<1>2. /\ diskQueue' = Append(diskQueue, o) /\ op[o].pc = "idle"
      /\ op'[o].val = new
      /\ \A p \in Ops \ {o} : op'[p] = op[p]
  BY <1>1 DEF Coordinate
<1>3. \A i \in 1..Len(diskQueue) : diskQueue[i] \in Ops /\ diskQueue[i] # o
  BY <1>1, <1>2, ElementOfSeq DEF QueueIsThePersisting
<1>4. /\ Len(diskQueue') = Len(diskQueue) + 1
      /\ \A i \in 1..Len(diskQueue) : diskQueue'[i] = diskQueue[i]
      /\ diskQueue'[Len(diskQueue) + 1] = o
  BY <1>1, <1>2, AppendProperties
<1>5. Pending' = [i \in 1..(Len(diskQueue) + 1) |-> IF i <= Len(diskQueue) THEN Pending[i] ELSE new]
  BY <1>1, <1>2, <1>3, <1>4 DEF Pending
<1>6. /\ Append(Pending, new) \in Seq(BOOLEAN)
      /\ Len(Append(Pending, new)) = Len(diskQueue) + 1
      /\ \A i \in 1..Len(diskQueue) : Append(Pending, new)[i] = Pending[i]
      /\ Append(Pending, new)[Len(diskQueue) + 1] = new
  BY <1>1, AppendProperties
<1>7. \A i \in 1..(Len(diskQueue) + 1) : Pending'[i] = Append(Pending, new)[i]
  BY <1>1, <1>5, <1>6
<1> QED
  BY <1>5, <1>6, <1>7, LenProperties

LEMMA PendingOfPersist ==
  ASSUME TypeOK, QueueIsThePersisting, NEW o \in Ops, PersistDesired(o)
  PROVE  /\ Pending # <<>> /\ Head(Pending) = op[o].val
         /\ Pending' = Tail(Pending)
<1>1. /\ diskQueue \in Seq(Ops)
      /\ op \in [Ops -> Task({"idle", "persist", "tracked", "notify", "ack"})]
      /\ Pending \in Seq(BOOLEAN) /\ Len(Pending) = Len(diskQueue)
  BY PendingTyped DEF TypeOK
<1>2. /\ diskQueue # <<>> /\ diskQueue[1] = o
      /\ diskQueue' = Tail(diskQueue)
      /\ \A p \in Ops \ {o} : op'[p] = op[p]
  BY <1>1 DEF PersistDesired, SavedBy, GoTo, Task
<1>3. /\ Len(diskQueue') = Len(diskQueue) - 1
      /\ Len(diskQueue) \in Nat \ {0}
      /\ \A i \in 1..Len(diskQueue') : diskQueue'[i] = diskQueue[i+1]
  BY <1>1, <1>2, HeadTailProperties, EmptySeq
<1>4. \A i \in 1..Len(diskQueue') : diskQueue[i+1] \in Ops /\ diskQueue[i+1] # o
  <2> TAKE i \in 1..Len(diskQueue')
  <2>1. i + 1 \in 1..Len(diskQueue) /\ i + 1 # 1 /\ 1 \in 1..Len(diskQueue)
    BY <1>3
  <2> QED
    BY <1>1, <1>2, <2>1, ElementOfSeq DEF QueueIsThePersisting
<1>5. Pending # <<>> /\ Head(Pending) = op[o].val
  <2>1. Pending[1] = op[o].val
    BY <1>2, <1>3 DEF Pending
  <2> QED
    BY <1>1, <1>3, <2>1, EmptySeq
<1>6. Pending' = [i \in 1..(Len(diskQueue) - 1) |-> Pending[i+1]]
  BY <1>2, <1>3, <1>4 DEF Pending
<1>7. /\ Tail(Pending) \in Seq(BOOLEAN) /\ Len(Tail(Pending)) = Len(diskQueue) - 1
      /\ \A i \in 1..(Len(diskQueue) - 1) : Tail(Pending)[i] = Pending[i+1]
  BY <1>1, <1>5, HeadTailProperties
<1> QED
  BY <1>5, <1>6, <1>7, LenProperties

LEMMA PendingOfMovesOn ==
  ASSUME TypeOK, QueueIsThePersisting, NEW o \in Ops, MovesOn(o)
  PROVE  Pending' = Pending
<1>1. diskQueue' = diskQueue
  BY DEF MovesOn, diskVars
<1> QED
  BY <1>1, MovesOnKeepsValues DEF Pending

(* A request becomes the last writer; every save leaves the last one what *)
(* it was. *)
LEMMA EndsStep ==
  TypeOK /\ QueueIsThePersisting /\ FileEndsAtDesired /\ [Next]_vars => FileEndsAtDesired'
<1> SUFFICES ASSUME TypeOK, QueueIsThePersisting, FileEndsAtDesired, [Next]_vars
             PROVE  FileEndsAtDesired'
  OBVIOUS
<1>0. /\ diskQueue \in Seq(Ops) /\ Len(diskQueue) \in Nat
      /\ op \in [Ops -> Task({"idle", "persist", "tracked", "notify", "ack"})]
  BY LenProperties DEF TypeOK
<1>1. ASSUME NEW o \in Ops, NEW new \in BOOLEAN, Coordinate(o, new)
      PROVE  FileEndsAtDesired'
  <2>1. desired' = new /\ diskQueue' = Append(diskQueue, o) /\ op'[o].val = new
    BY <1>0, <1>1 DEF Coordinate
  <2>2. /\ Len(diskQueue') = Len(diskQueue) + 1 /\ diskQueue' \in Seq(Ops)
        /\ diskQueue'[Len(diskQueue')] = o
    BY <1>0, <2>1, AppendProperties
  <2>3. diskQueue' # <<>>
    BY <1>0, <2>2, EmptySeq
  <2> QED
    BY <2>1, <2>2, <2>3 DEF FileEndsAtDesired
<1>2. ASSUME NEW o \in Ops, PersistDesired(o)
      PROVE  FileEndsAtDesired'
  <2>1. /\ diskQueue # <<>> /\ diskQueue[1] = o
        /\ diskQueue' = Tail(diskQueue)
        /\ desired' = desired /\ (disk' = op[o].val \/ (FileMayFail /\ parted'))
        /\ \A p \in Ops \ {o} : op'[p] = op[p]
    BY <1>0, <1>2 DEF PersistDesired, SavedBy, WriteEntry, GoTo, Task, memory
  <2>2. /\ Len(diskQueue') = Len(diskQueue) - 1 /\ diskQueue' \in Seq(Ops)
        /\ Len(diskQueue) \in Nat \ {0}
        /\ \A i \in 1..Len(diskQueue') : diskQueue'[i] = diskQueue[i+1]
    BY <1>0, <2>1, HeadTailProperties, EmptySeq
  <2>3. CASE diskQueue' = <<>>
    <3>1. Len(diskQueue) = 1
      BY <2>2, <2>3, EmptySeq
    <3> QED
      BY <2>1, <2>3, <3>1 DEF FileEndsAtDesired
  <2>4. CASE diskQueue' # <<>>
    <3>1. Len(diskQueue') \in Nat \ {0}
      BY <2>2, <2>4, EmptySeq
    <3>2. diskQueue'[Len(diskQueue')] = diskQueue[Len(diskQueue)]
      BY <2>2, <3>1
    <3>3. diskQueue[Len(diskQueue)] \in Ops \ {o}
      BY <1>0, <2>1, <2>2, <3>1, ElementOfSeq DEF QueueIsThePersisting
    <3> QED
      BY <2>1, <2>4, <3>2, <3>3 DEF FileEndsAtDesired
  <2> QED
    BY <2>3, <2>4
<1>3. ASSUME NEW o \in Ops, MovesOn(o)
      PROVE  FileEndsAtDesired'
  <2>1. UNCHANGED <<desired, disk, parted, diskQueue>>
    BY <1>3 DEF MovesOn, diskVars
  <2>2. diskQueue # <<>> => Len(diskQueue) \in 1..Len(diskQueue)
    BY <1>0, EmptySeq
  <2> QED
    BY <1>3, <2>1, <2>2, MovesOnKeepsValues DEF FileEndsAtDesired
<1>4. CASE Restart
  BY <1>4 DEF Restart, LoadDesired, FileEndsAtDesired
<1>5. CASE OtherSetterDrops
  <2>1. UNCHANGED <<desired, diskQueue, op>> /\ FileMayFail /\ parted'
    BY <1>5 DEF OtherSetterDrops, memory
  <2> QED
    BY <2>1 DEF FileEndsAtDesired
<1>6. CASE UNCHANGED <<desired, diskVars, op>>
  BY <1>6 DEF FileEndsAtDesired, diskVars
<1> QED
  BY <1>1, <1>2, <1>3, <1>4, <1>5, <1>6, RequestFrame DEF SomeRequest

(* Requests that overlap leave the last of them in display-state.json, or  *)
(* still on its way there as the last of the writers, unless the last      *)
(* access to the entry failed.                                             *)
THEOREM FileEndsAtTheLastRequest == Spec => []FileEndsAtDesired
<1>1. Init => FileEndsAtDesired
  BY DEF Init, FileEndsAtDesired
<1> QED
  BY <1>1, TypeCorrect, WaitersCorrect, EndsStep, PTL DEF Spec

(* The desired state of the secondary panel is a durable setting: the file *)
(* takes the requests in order, and a restart goes back to the file; when  *)
(* accesses may fail, the old value or the default is all that they leave. *)
THEOREM DesiredRefinesDurableSetting == Spec => DesiredIsDurable
<1>1. Init => Setting!Init
  <2> SUFFICES ASSUME Init PROVE Setting!Init
    OBVIOUS
  <2>1. diskQueue = <<>> /\ disk \in BOOLEAN /\ desired = disk
    BY DEF Init
  <2>2. Pending = <<>>
    BY <2>1 DEF Pending
  <2> QED
    BY <2>1, <2>2 DEF Setting!Init, Pending
<1>2. TypeOK /\ QueueIsThePersisting /\ [Next]_vars => [Setting!Next]_(Setting!settingVars)
  <2> SUFFICES ASSUME TypeOK, QueueIsThePersisting, [Next]_vars
               PROVE  [Setting!Next]_(Setting!settingVars)
    OBVIOUS
  <2>1. ASSUME NEW o \in Ops, NEW new \in BOOLEAN, Coordinate(o, new)
        PROVE  Setting!Next
    <3>1. new # desired /\ desired' = new /\ disk' = disk
      BY <2>1 DEF Coordinate
    <3>2. Setting!Choose(new)
      BY <2>1, <3>1, PendingOfRequest DEF Setting!Choose, Pending
    <3> QED
      BY <3>2 DEF Setting!Next
  <2>2. ASSUME NEW o \in Ops, PersistDesired(o)
        PROVE  Setting!Next
    <3>1. desired' = desired
      BY <2>2 DEF PersistDesired, SavedBy, WriteEntry, memory
    <3>2. WriteEntry(op[o].val)
      BY <2>2 DEF PersistDesired
    <3>3. CASE disk' = op[o].val
      <4>1. Setting!Save
        BY <2>2, <3>1, <3>3, PendingOfPersist DEF Setting!Save, Pending
      <4> QED
        BY <4>1 DEF Setting!Next
    <3>4. CASE FileMayFail /\ disk' = disk
      <4>1. Setting!SaveFails
        BY <2>2, <3>1, <3>4, PendingOfPersist DEF Setting!SaveFails, Pending
      <4> QED
        BY <4>1 DEF Setting!Next
    <3> QED
      BY <3>2, <3>3, <3>4 DEF WriteEntry
  <2>3. ASSUME NEW o \in Ops, MovesOn(o)
        PROVE  UNCHANGED Setting!settingVars
    BY <2>3, PendingOfMovesOn DEF MovesOn, diskVars, Setting!settingVars, Pending
  <2>4. CASE Restart
    <3>1. LoadDesired /\ diskQueue' = <<>>
      BY <2>4 DEF Restart
    <3>2. Pending' = <<>>
      BY <3>1 DEF Pending
    <3>3. CASE desired' = disk /\ disk' = disk
      <4>1. Setting!Crash
        BY <3>2, <3>3 DEF Setting!Crash, Pending
      <4> QED
        BY <4>1 DEF Setting!Next
    <3>4. CASE /\ FileMayFail
               /\ desired' \in {disk, DesiredByDefault}
               /\ disk' \in {disk, DesiredByDefault}
      <4>1. Setting!CrashAndForget
        BY <3>2, <3>4 DEF Setting!CrashAndForget, Pending
      <4> QED
        BY <4>1 DEF Setting!Next
    <3> QED
      BY <3>1, <3>3, <3>4 DEF LoadDesired
  <2>5. CASE OtherSetterDrops
    <3>1. /\ FileMayFail /\ disk' = DesiredByDefault
          /\ UNCHANGED <<desired, diskQueue, op>>
      BY <2>5 DEF OtherSetterDrops, memory
    <3>2. Setting!Forget
      BY <3>1 DEF Setting!Forget
    <3> QED
      BY <3>2 DEF Setting!Next
  <2>6. CASE UNCHANGED <<desired, diskVars, op>>
    BY <2>6 DEF Setting!settingVars, diskVars
  <2> QED
    BY <2>1, <2>2, <2>3, <2>4, <2>5, <2>6, RequestFrame DEF SomeRequest
<1> QED
  BY <1>1, <1>2, TypeCorrect, WaitersCorrect, PTL DEF Spec, DesiredIsDurable, Setting!Spec
=============================================================================
