----------------------------- MODULE RequestQueue -----------------------------
(* servercore::RequestQueue<T> (v3/logic/request_queue.h): an unbounded FIFO   *)
(* queue guarded by one mutex, with one condition variable for "not empty" and *)
(* a flag that closes it.  Each critical section is one action; a thread in    *)
(* pthread_cond_wait has left its critical section and needs another action to *)
(* come back, so that others may run between the signal and its return.        *)
(*                                                                             *)
(* The i-th value pushed is the number i.                                      *)
EXTENDS Naturals, Sequences, FiniteSets

CONSTANTS
  Consumers,  \* the threads that call Pop
  MaxPushed   \* bound of a model: how many values are pushed at most

VARIABLES
  queue,     \* _queue
  closed,    \* _closed
  waiting,   \* threads blocked on _not_empty
  woken,     \* threads signalled that do not hold the mutex again yet
  refused,   \* threads whose last Pop returned false
  pushed,    \* history: how many values were accepted
  popped     \* history: the values taken, in the order they were

vars == <<queue, closed, waiting, woken, refused, pushed, popped>>

\* Every variable stays in its domain; a thread is in one place at a time.
TypeOK ==
  /\ queue \in Seq(Nat)
  /\ closed \in BOOLEAN
  /\ waiting \in SUBSET Consumers
  /\ woken \in SUBSET Consumers
  /\ refused \in SUBSET Consumers
  /\ waiting \cap woken = {}
  /\ refused \cap (waiting \cup woken) = {}
  /\ pushed \in 0..MaxPushed
  /\ popped \in Seq(Nat)

Init ==
  /\ queue = <<>> /\ closed = FALSE
  /\ waiting = {} /\ woken = {} /\ refused = {}
  /\ pushed = 0 /\ popped = <<>>

------------------------------------------------------------------------------
\* Mutant: signals only when the queue was empty.
NotifyIfWasEmpty ==
  IF waiting = {} \/ queue # <<>> THEN UNCHANGED <<waiting, woken>>
  ELSE \E t \in waiting : /\ waiting' = waiting \ {t}
                          /\ woken' = woken \cup {t}

\* pthread_cond_signal: one waiting thread wakes up, if there is one.
Notify ==
  IF waiting = {} THEN UNCHANGED <<waiting, woken>>
  ELSE \E t \in waiting : /\ waiting' = waiting \ {t}
                          /\ woken' = woken \cup {t}

\* pthread_cond_broadcast.
NotifyAll == waiting' = {} /\ woken' = woken \cup waiting

Push ==
  /\ pushed < MaxPushed
  /\ ~closed
  /\ pushed' = pushed + 1
  /\ queue' = Append(queue, pushed + 1)
  /\ Notify
  /\ UNCHANGED <<closed, refused, popped>>

\* Thread t is about to enter, or to go on with, a call of Pop.
AtPop(t) == t \in Consumers \ (waiting \cup refused)

\* Mutant: a stack.
TakeBack ==
  /\ queue # <<>>
  /\ popped' = Append(popped, queue[Len(queue)])
  /\ queue' = SubSeq(queue, 1, Len(queue) - 1)

TakeFront ==
  /\ queue # <<>>
  /\ popped' = Append(popped, Head(queue))
  /\ queue' = Tail(queue)

PopTakes(t) ==
  /\ AtPop(t)
  /\ TakeFront
  /\ woken' = woken \ {t}
  /\ UNCHANGED <<closed, waiting, refused, pushed>>

PopWaits(t) ==
  /\ AtPop(t)
  /\ queue = <<>> /\ ~closed
  /\ waiting' = waiting \cup {t}
  /\ woken' = woken \ {t}
  /\ UNCHANGED <<queue, closed, refused, pushed, popped>>

\* Mutant: Pop gives up as soon as the queue is closed.
RefuseWhenClosed == closed

\* Pop returns false only with nothing left to take.
Exhausted == queue = <<>> /\ closed

PopRefuses(t) ==
  /\ AtPop(t)
  /\ Exhausted
  /\ woken' = woken \ {t}
  /\ refused' = refused \cup {t}
  /\ UNCHANGED <<queue, closed, waiting, pushed, popped>>

\* pthread_cond_wait may return without a signal.
SpuriousWakeup(t) ==
  /\ t \in waiting
  /\ waiting' = waiting \ {t}
  /\ woken' = woken \cup {t}
  /\ UNCHANGED <<queue, closed, refused, pushed, popped>>

\* A thread that never waits; with an empty queue TryPop changes nothing.
TryPop ==
  /\ TakeFront
  /\ UNCHANGED <<closed, waiting, woken, refused, pushed>>

Close ==
  /\ ~closed
  /\ closed' = TRUE
  /\ NotifyAll
  /\ UNCHANGED <<queue, refused, pushed, popped>>

PopStep(t) == PopTakes(t) \/ PopWaits(t) \/ PopRefuses(t)

\* Everyone has been told that the queue is closed.
Terminated == refused = Consumers /\ closed /\ UNCHANGED vars

Next == \/ Push \/ TryPop \/ Close
        \/ \E t \in Consumers : PopStep(t) \/ SpuriousWakeup(t)
        \/ Terminated

Spec == Init /\ [][Next]_vars

------------------------------------------------------------------------------
\* What was taken and what is still queued is what was pushed: nothing is
\* lost, duplicated or reordered by concurrent Pop, TryPop and Close.
FIFO == popped \o queue = [i \in 1..pushed |-> i]

\* While a thread sleeps, someone is on the way for every value in the queue,
\* whoever else takes values in between; and nobody sleeps on a closed queue.
NoLostWakeup ==
  /\ waiting = {} \/ Len(queue) <= Cardinality(woken)
  /\ closed => waiting = {}

\* Close does not lose values: a Pop that returns false leaves nothing behind.
NothingLeftBehind == refused # {} => closed /\ queue = <<>>
==============================================================================
