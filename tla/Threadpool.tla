------------------------------ MODULE Threadpool ------------------------------
(* Threadpool (v3/logic/Threadpool.cpp): a bounded queue of tasks, threads     *)
(* that are created one by one in the constructor and run tasks until End, and *)
(* End, which lets them finish what is queued and joins them.  A critical      *)
(* section is one action.  The i-th task pushed is the number i.               *)
(*                                                                             *)
(* End(false), which would revoke an earlier End(true), and a second End are   *)
(* never called by this program and are left out.                              *)
EXTENDS Naturals, Sequences, FiniteSets

CONSTANTS
  Threads,    \* the threads the pool was asked for (_thread_num of them)
  TaskNum,    \* _task_num, what the queue holds at most
  MaxPushed   \* bound of a model: how many tasks are pushed at most

ASSUME ThreadsAssumption == IsFiniteSet(Threads) /\ Threads # {}
ASSUME TaskNumAssumption == TaskNum \in Nat \ {0}
ASSUME PushedAssumption  == MaxPushed \in Nat

VARIABLES
  stage,    \* of the pool object: "ctor", "up", "joining", "gone"
  created,  \* threads pthread_create has started: _threads
  tasks,    \* _tasks
  isExit,   \* _is_exit = end_ok
  waiting,  \* threads blocked on _cond
  woken,    \* threads signalled that do not hold the mutex again yet
  exited,   \* threads that have left worker()
  running,  \* the task each thread runs, 0 for none
  pushed,   \* history: how many tasks were accepted
  begun     \* history: the tasks taken, in the order they were

vars == <<stage, created, tasks, isExit, waiting, woken, exited, running,
          pushed, begun>>

\* Every variable stays in its domain, the queue within its limit, and a thread
\* does one thing at a time.
TypeOK ==
  /\ stage \in {"ctor", "up", "joining", "gone"}
  /\ created \in SUBSET Threads
  /\ tasks \in Seq(Nat \ {0}) /\ Len(tasks) <= TaskNum
  /\ isExit \in BOOLEAN
  /\ waiting \in SUBSET created
  /\ woken \in SUBSET created
  /\ exited \in SUBSET created
  /\ waiting \cap woken = {}
  /\ exited \cap (waiting \cup woken) = {}
  /\ running \in [Threads -> Nat]
  /\ pushed \in 0..MaxPushed
  /\ begun \in Seq(Nat \ {0})

Init ==
  /\ stage = "ctor" /\ created = {}
  /\ tasks = <<>> /\ isExit = FALSE
  /\ waiting = {} /\ woken = {} /\ exited = {}
  /\ running = [t \in Threads |-> 0]
  /\ pushed = 0 /\ begun = <<>>

------------------------------------------------------------------------------
\* Mutant: nobody is signalled.
NotifyForgotten == UNCHANGED <<waiting, woken>>

\* pthread_cond_signal and pthread_cond_broadcast.
Notify ==
  IF waiting = {} THEN UNCHANGED <<waiting, woken>>
  ELSE \E t \in waiting : /\ waiting' = waiting \ {t}
                          /\ woken' = woken \cup {t}

\* Mutant: the sleeping threads are not told.
NotifyAllForgotten == UNCHANGED <<waiting, woken>>

NotifyAll == waiting' = {} /\ woken' = woken \cup waiting

CreateThread(t) ==
  /\ stage = "ctor"
  /\ t \notin created
  /\ created' = created \cup {t}
  /\ UNCHANGED <<stage, tasks, isExit, waiting, woken, exited, running, pushed,
                 begun>>

Constructed ==
  /\ stage = "ctor"
  /\ created = Threads
  /\ stage' = "up"
  /\ UNCHANGED <<created, tasks, isExit, waiting, woken, exited, running, pushed,
                 begun>>

\* End(true) up to the joins: from the destructor, or from the constructor when
\* pthread_create fails before all threads exist.
End ==
  /\ stage = "up" \/ (stage = "ctor" /\ created # Threads)
  /\ stage' = "joining"
  /\ isExit' = TRUE
  /\ NotifyAll
  /\ UNCHANGED <<created, tasks, exited, running, pushed, begun>>

HasRoom == Len(tasks) < TaskNum

\* PushTask, when it does not return false.
PushTask ==
  /\ stage = "up"
  /\ pushed < MaxPushed
  /\ ~isExit
  /\ HasRoom
  /\ pushed' = pushed + 1
  /\ tasks' = Append(tasks, pushed + 1)
  /\ Notify
  /\ UNCHANGED <<stage, created, isExit, exited, running, begun>>

\* Thread t enters TakeTask, or goes on with it after a wakeup.
AtTakeTask(t) ==
  /\ t \in created \ (waiting \cup exited)
  /\ running[t] = 0

Rest(q) == Tail(q)

TakeRuns(t) ==
  /\ AtTakeTask(t)
  /\ tasks # <<>>
  /\ running' = [running EXCEPT ![t] = Head(tasks)]
  /\ begun' = Append(begun, Head(tasks))
  /\ tasks' = Rest(tasks)
  /\ woken' = woken \ {t}
  /\ UNCHANGED <<stage, created, isExit, waiting, exited, pushed>>

TakeWaits(t) ==
  /\ AtTakeTask(t)
  /\ tasks = <<>> /\ ~isExit
  /\ waiting' = waiting \cup {t}
  /\ woken' = woken \ {t}
  /\ UNCHANGED <<stage, created, tasks, isExit, exited, running, pushed, begun>>

\* Mutant: _is_exit alone ends a thread, whatever is queued.
MayExitAtOnce == isExit

MayExit == tasks = <<>> /\ isExit

TakeExits(t) ==
  /\ AtTakeTask(t)
  /\ MayExit
  /\ woken' = woken \ {t}
  /\ exited' = exited \cup {t}
  /\ UNCHANGED <<stage, created, tasks, isExit, waiting, running, pushed, begun>>

SpuriousWakeup(t) ==
  /\ t \in waiting
  /\ waiting' = waiting \ {t}
  /\ woken' = woken \cup {t}
  /\ UNCHANGED <<stage, created, tasks, isExit, exited, running, pushed, begun>>

\* The task's function returns.
TaskReturns(t) ==
  /\ running[t] # 0
  /\ running' = [running EXCEPT ![t] = 0]
  /\ UNCHANGED <<stage, created, tasks, isExit, waiting, woken, exited, pushed,
                 begun>>

AllJoined == stage = "joining" /\ created \subseteq exited

Join ==
  /\ AllJoined
  /\ stage' = "gone"
  /\ UNCHANGED <<created, tasks, isExit, waiting, woken, exited, running, pushed,
                 begun>>

TakeStep(t) == TakeRuns(t) \/ TakeWaits(t) \/ TakeExits(t)

Terminated == stage = "gone" /\ UNCHANGED vars

Next == \/ Constructed \/ PushTask \/ End \/ Join
        \/ \E t \in Threads : \/ CreateThread(t) \/ TakeStep(t)
                              \/ SpuriousWakeup(t) \/ TaskReturns(t)
        \/ Terminated

Spec == Init /\ [][Next]_vars

\* The threads are scheduled and the tasks return; nobody owes a task or an End.
FairSpec == /\ Spec
            /\ WF_vars(Join)
            /\ \A t \in Threads : WF_vars(TakeStep(t)) /\ WF_vars(TaskReturns(t))

------------------------------------------------------------------------------
\* Once End has returned no thread of the pool runs and no accepted task was
\* dropped: the owner may destroy what the tasks use.
QuietAfterEnd ==
  stage = "gone" => /\ exited = created
                    /\ \A t \in Threads : running[t] = 0
                    /\ tasks = <<>>

\* The hand-over of tasks is that of a RequestQueue: first in first out, without
\* a lost wakeup, and drained before threads are let go.
Handover == INSTANCE RequestQueue
              WITH Consumers <- Threads, queue <- tasks, closed <- isExit,
                   refused <- exited, popped <- begun
TasksHandedOver == Handover!Spec
NoLostWakeup == Handover!NoLostWakeup

\* End comes back: no thread sleeps through it.
EndReturns == stage = "joining" ~> stage = "gone"
==============================================================================
