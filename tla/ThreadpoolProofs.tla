--------------------------- MODULE ThreadpoolProofs ---------------------------
(* Threadpool for any set of threads and any limit: its hand-over of tasks     *)
(* implements RequestQueue, so that what is proved of the queue holds of the   *)
(* pool; and nothing of the pool is left when End has returned.                *)
EXTENDS Threadpool, SequenceTheorems, TLAPS

LEMMA EmptyTasks == <<>> \in Seq(Nat \ {0}) /\ Len(<<>>) = 0
  BY EmptySeq

\* The queue stays within its limit, and a thread does one thing at a time.
THEOREM TypeCorrect == Spec => []TypeOK
<1>1. Init => TypeOK
  <2> SUFFICES ASSUME Init PROVE TypeOK
    OBVIOUS
  <2>1. Len(tasks) <= TaskNum /\ tasks \in Seq(Nat \ {0}) /\ begun \in Seq(Nat \ {0})
    BY EmptyTasks, TaskNumAssumption DEF Init
  <2>2. pushed \in 0..MaxPushed /\ running \in [Threads -> Nat]
    BY PushedAssumption DEF Init
  <2> QED
    BY <2>1, <2>2 DEF Init, TypeOK
<1>2. TypeOK /\ [Next]_vars => TypeOK'
  <2> SUFFICES ASSUME TypeOK, [Next]_vars PROVE TypeOK'
    OBVIOUS
  <2> USE DEF TypeOK
  <2>1. CASE Constructed
    BY <2>1 DEF Constructed
  <2>2. CASE PushTask
    <3>1. pushed' \in 0..MaxPushed /\ pushed + 1 \in Nat \ {0}
      BY <2>2, PushedAssumption DEF PushTask
    <3>2. tasks' \in Seq(Nat \ {0}) /\ Len(tasks') <= TaskNum
      BY <2>2, <3>1, AppendProperties, LenProperties, TaskNumAssumption
         DEF PushTask, HasRoom
    <3> QED
      BY <2>2, <3>1, <3>2 DEF PushTask, Notify
  <2>3. CASE End
    BY <2>3 DEF End, NotifyAll
  <2>4. CASE Join
    BY <2>4 DEF Join
  <2>5. ASSUME NEW t \in Threads, CreateThread(t) PROVE TypeOK'
    BY <2>5 DEF CreateThread
  <2>6. ASSUME NEW t \in Threads, TakeRuns(t) PROVE TypeOK'
    <3>1. /\ tasks' \in Seq(Nat \ {0}) /\ Len(tasks') <= TaskNum
          /\ begun' \in Seq(Nat \ {0})
      BY <2>6, HeadTailProperties, LenProperties, AppendProperties, TaskNumAssumption
         DEF TakeRuns, Rest
    <3>2. running' \in [Threads -> Nat]
      BY <2>6, HeadTailProperties DEF TakeRuns
    <3> QED
      BY <2>6, <3>1, <3>2 DEF TakeRuns, AtTakeTask
  <2>7. ASSUME NEW t \in Threads, TakeWaits(t) PROVE TypeOK'
    BY <2>7 DEF TakeWaits, AtTakeTask
  <2>8. ASSUME NEW t \in Threads, TakeExits(t) PROVE TypeOK'
    BY <2>8 DEF TakeExits, AtTakeTask
  <2>9. ASSUME NEW t \in Threads, SpuriousWakeup(t) PROVE TypeOK'
    BY <2>9 DEF SpuriousWakeup
  <2>10. ASSUME NEW t \in Threads, TaskReturns(t) PROVE TypeOK'
    BY <2>10 DEF TaskReturns
  <2>11. CASE UNCHANGED vars
    BY <2>11 DEF vars
  <2> QED
    BY <2>1, <2>2, <2>3, <2>4, <2>5, <2>6, <2>7, <2>8, <2>9, <2>10, <2>11
       DEF Next, TakeStep, Terminated
<1> QED
  BY <1>1, <1>2, PTL DEF Spec

------------------------------------------------------------------------------
(* The end of the pool.                                                        *)

\* An exited thread runs nothing and was let go only with an empty queue, which
\* stays empty; a pool that is gone has waited for all its threads.
Ending ==
  /\ stage \in {"joining", "gone"} <=> isExit
  /\ stage \in {"up"} => created = Threads
  /\ \A t \in Threads : running[t] # 0 => t \in created
  /\ \A t \in exited : running[t] = 0
  /\ exited # {} => tasks = <<>> /\ isExit
  /\ created = {} => tasks = <<>>
  /\ stage = "gone" => exited = created

LEMMA EndingHolds == Spec => []Ending
<1>1. Init => Ending
  BY DEF Init, Ending
<1>2. TypeOK /\ Ending /\ [Next]_vars => Ending'
  <2> SUFFICES ASSUME TypeOK, Ending, [Next]_vars PROVE Ending'
    OBVIOUS
  <2> USE DEF TypeOK, Ending
  <2>1. CASE Constructed
    BY <2>1 DEF Constructed
  <2>2. CASE PushTask
    BY <2>2, ThreadsAssumption DEF PushTask
  <2>3. CASE End
    BY <2>3 DEF End
  <2>4. CASE Join
    BY <2>4 DEF Join, AllJoined
  <2>5. ASSUME NEW t \in Threads, CreateThread(t) PROVE Ending'
    BY <2>5 DEF CreateThread
  <2>6. ASSUME NEW t \in Threads, TakeRuns(t) PROVE Ending'
    BY <2>6 DEF TakeRuns, AtTakeTask, Rest
  <2>7. ASSUME NEW t \in Threads, TakeWaits(t) \/ SpuriousWakeup(t) PROVE Ending'
    BY <2>7 DEF TakeWaits, SpuriousWakeup
  <2>8. ASSUME NEW t \in Threads, TakeExits(t) PROVE Ending'
    BY <2>8 DEF TakeExits, AtTakeTask, MayExit
  <2>9. ASSUME NEW t \in Threads, TaskReturns(t) PROVE Ending'
    BY <2>9 DEF TaskReturns
  <2>10. CASE UNCHANGED vars
    BY <2>10 DEF vars
  <2> QED
    BY <2>1, <2>2, <2>3, <2>4, <2>5, <2>6, <2>7, <2>8, <2>9, <2>10
       DEF Next, TakeStep, Terminated
<1> QED
  BY <1>1, <1>2, TypeCorrect, PTL DEF Spec

\* After End nothing of the pool runs or waits to be run.
THEOREM EndIsQuiet == Spec => []QuietAfterEnd
<1>1. TypeOK /\ Ending => QuietAfterEnd
  BY DEF TypeOK, Ending, QuietAfterEnd
<1> QED
  BY <1>1, TypeCorrect, EndingHolds, PTL
------------------------------------------------------------------------------
(* The hand-over of tasks.                                                     *)

\* Who sleeps, who is on the way and who was sent away is as in RequestQueue,
\* whatever the rest of the pool does meanwhile: its steps are steps of a queue
\* or change nothing of it.
THEOREM HandoverImplementsQueue == Spec => TasksHandedOver
<1>1. Init => Handover!Init
  BY DEF Init, Handover!Init
<1>2. TypeOK /\ Ending /\ [Next]_vars => [Handover!Next]_Handover!vars
  <2> SUFFICES ASSUME TypeOK, Ending, [Next]_vars PROVE [Handover!Next]_Handover!vars
    OBVIOUS
  <2> USE DEF Handover!vars
  <2>1. CASE Constructed
    BY <2>1 DEF Constructed
  <2>2. CASE PushTask
    <3>1. Handover!Push
      BY <2>2 DEF PushTask, Notify, Handover!Push, Handover!Notify
    <3> QED
      BY <3>1 DEF Handover!Next
  <2>3. CASE End
    <3>1. ~isExit
      BY <2>3 DEF End, Ending
    <3> QED
      BY <2>3, <3>1 DEF End, NotifyAll, Handover!Next, Handover!Close, Handover!NotifyAll
  <2>4. CASE Join
    BY <2>4 DEF Join
  <2>5. ASSUME NEW t \in Threads, CreateThread(t) \/ TaskReturns(t)
        PROVE  [Handover!Next]_Handover!vars
    BY <2>5 DEF CreateThread, TaskReturns
  <2>6. ASSUME NEW t \in Threads, TakeStep(t) PROVE [Handover!Next]_Handover!vars
    <3>1. Handover!AtPop(t)
      BY <2>6 DEF TakeStep, TakeRuns, TakeWaits, TakeExits, AtTakeTask,
                  Handover!AtPop, TypeOK
    <3>2. Handover!PopStep(t)
      BY <2>6, <3>1 DEF TakeStep, TakeRuns, TakeWaits, TakeExits, Rest, MayExit,
           Handover!PopStep, Handover!PopTakes, Handover!TakeFront,
           Handover!PopWaits, Handover!PopRefuses, Handover!Exhausted
    <3> QED
      BY <3>2 DEF Handover!Next
  <2>7. ASSUME NEW t \in Threads, SpuriousWakeup(t)
        PROVE  [Handover!Next]_Handover!vars
    BY <2>7 DEF SpuriousWakeup, Handover!Next, Handover!SpuriousWakeup
  <2>8. CASE UNCHANGED vars
    BY <2>8 DEF vars
  <2> QED
    BY <2>1, <2>2, <2>3, <2>4, <2>5, <2>6, <2>7, <2>8 DEF Next, Terminated
<1> QED
  BY <1>1, <1>2, TypeCorrect, EndingHolds, PTL DEF Spec, TasksHandedOver, Handover!Spec

QueueFacts == INSTANCE RequestQueueProofs
                WITH Consumers <- Threads, queue <- tasks, closed <- isExit,
                     refused <- exited, popped <- begun

\* No thread of the pool sleeps past a task or past End.
THEOREM PoolWakeupsSuffice == Spec => []NoLostWakeup
<1>1. Handover!Init => QueueFacts!Init
  BY DEF Handover!Init, QueueFacts!Init
<1>2. [Handover!Next]_Handover!vars => [QueueFacts!Next]_QueueFacts!vars
  BY DEF Handover!Next, Handover!vars, Handover!Push, Handover!Notify,
         Handover!TryPop, Handover!TakeFront, Handover!Close, Handover!NotifyAll,
         Handover!PopStep, Handover!PopTakes, Handover!PopWaits, Handover!PopRefuses,
         Handover!AtPop, Handover!Exhausted, Handover!SpuriousWakeup, Handover!Terminated,
         QueueFacts!Next, QueueFacts!vars, QueueFacts!Push, QueueFacts!Notify,
         QueueFacts!TryPop, QueueFacts!TakeFront, QueueFacts!Close, QueueFacts!NotifyAll,
         QueueFacts!PopStep, QueueFacts!PopTakes, QueueFacts!PopWaits,
         QueueFacts!PopRefuses, QueueFacts!AtPop, QueueFacts!Exhausted,
         QueueFacts!SpuriousWakeup, QueueFacts!Terminated
<1>3. QueueFacts!NoLostWakeup => NoLostWakeup
  BY DEF QueueFacts!NoLostWakeup, NoLostWakeup, Handover!NoLostWakeup,
         QueueFacts!Cardinality, Handover!Cardinality
<1>4. QueueFacts!Spec => []QueueFacts!NoLostWakeup
  BY QueueFacts!WakeupsSuffice, ThreadsAssumption, PushedAssumption
     DEF IsFiniteSet, QueueFacts!IsFiniteSet
<1> QED
  BY <1>1, <1>2, <1>3, <1>4, HandoverImplementsQueue,
     PTL DEF TasksHandedOver, Handover!Spec, QueueFacts!Spec
==============
