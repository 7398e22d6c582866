-------------------------- MODULE RequestQueueProofs --------------------------
(* RequestQueue for any set of threads and any number of values: the queue is *)
(* first in, first out, no wakeup is lost, and closing it loses nothing.      *)
EXTENDS RequestQueue, FiniteSetTheorems, SequenceTheorems, TLAPS

\* TypeOK is inductive.  (The domains of request_queue.h's members, and that a
\* thread is at one place of Pop.)
THEOREM TypeCorrect ==
  ASSUME MaxPushed \in Nat
  PROVE  Spec => []TypeOK
<1>0. <<>> \in Seq(Nat) /\ 0 \in 0..MaxPushed
  BY EmptySeq
<1>1. Init => TypeOK
  BY <1>0 DEF Init, TypeOK
<1>2. TypeOK /\ [Next]_vars => TypeOK'
  <2> SUFFICES ASSUME TypeOK, [Next]_vars PROVE TypeOK'
    OBVIOUS
  <2> USE DEF TypeOK
  <2>1. CASE Push
    BY <2>1 DEF Push, Notify
  <2>2. CASE TryPop
    BY <2>2 DEF TryPop, TakeFront
  <2>3. CASE Close
    BY <2>3 DEF Close, NotifyAll
  <2>4. ASSUME NEW t \in Consumers, PopTakes(t) PROVE TypeOK'
    BY <2>4 DEF PopTakes, TakeFront, AtPop
  <2>5. ASSUME NEW t \in Consumers, PopWaits(t) PROVE TypeOK'
    BY <2>5 DEF PopWaits, AtPop
  <2>6. ASSUME NEW t \in Consumers, PopRefuses(t) PROVE TypeOK'
    BY <2>6 DEF PopRefuses, AtPop
  <2>7. ASSUME NEW t \in Consumers, SpuriousWakeup(t) PROVE TypeOK'
    BY <2>7 DEF SpuriousWakeup
  <2>8. CASE UNCHANGED vars
    BY <2>8 DEF vars
  <2> QED
    BY <2>1, <2>2, <2>3, <2>4, <2>5, <2>6, <2>7, <2>8
       DEF Next, PopStep, Terminated
<1> QED
  BY <1>1, <1>2, PTL DEF Spec

------------------------------------------------------------------------------
(* The order of the values.                                                   *)

\* FIFO position by position: the form in which a step preserves it.
Numbered ==
  /\ Len(popped) + Len(queue) = pushed
  /\ \A i \in 1..Len(popped) : popped[i] = i
  /\ \A i \in 1..Len(queue) : queue[i] = Len(popped) + i

\* Taking the front moves the border between popped and queue by one.
LEMMA TakeFrontKeepsNumbering ==
  ASSUME TypeOK, TypeOK', Numbered, TakeFront, pushed' = pushed
  PROVE  Numbered'
<1> USE DEF TypeOK, Numbered, TakeFront
<1>1. Head(queue) = Len(popped) + 1 /\ Len(queue) \in Nat \ {0}
  BY EmptySeq
<1>2. /\ Len(queue') = Len(queue) - 1
      /\ \A i \in 1..Len(queue') : queue'[i] = queue[i + 1]
  BY HeadTailProperties
<1>3. /\ Len(popped') = Len(popped) + 1
      /\ \A i \in 1..Len(popped) : popped'[i] = popped[i]
      /\ popped'[Len(popped) + 1] = Head(queue)
  BY AppendProperties, HeadTailProperties
<1>4. \A i \in 1..Len(popped') : popped'[i] = i
  BY <1>1, <1>3, LenProperties
<1>5. \A i \in 1..Len(queue') : queue'[i] = Len(popped') + i
  BY <1>1, <1>2, <1>3, LenProperties
<1>6. Len(popped') + Len(queue') = pushed'
  <2>1. Len(popped) \in Nat /\ Len(queue) \in Nat
    BY LenProperties
  <2> HIDE DEF TypeOK, TakeFront
  <2> QED
    BY <2>1, <1>2, <1>3
<1> HIDE DEF TypeOK, TakeFront
<1> QED
  BY <1>4, <1>5, <1>6

LEMMA NumberedIsFIFO == TypeOK /\ Numbered => FIFO
<1> SUFFICES ASSUME TypeOK, Numbered PROVE FIFO
  OBVIOUS
<1> USE DEF TypeOK, Numbered
<1> DEFINE whole == popped \o queue
<1>1. /\ whole \in Seq(Nat)
      /\ Len(whole) = pushed
      /\ \A i \in 1..pushed : whole[i] = IF i <= Len(popped) THEN popped[i]
                                         ELSE queue[i - Len(popped)]
  BY ConcatProperties
<1>2. \A i \in 1..pushed : whole[i] = i
  BY <1>1, LenProperties
<1>3. whole \in [1..pushed -> Nat]
  BY <1>1, LenProperties
<1> HIDE DEF whole
<1>4. whole = [i \in 1..pushed |-> i]
  BY <1>2, <1>3
<1> QED
  BY <1>4 DEF FIFO, whole

LEMMA StepKeepsNumbering ==
  ASSUME TypeOK, TypeOK', Numbered, [Next]_vars
  PROVE  Numbered'
<1>1. CASE Push
  BY <1>1 DEF Push, TypeOK, Numbered
<1>2. CASE TryPop
  BY <1>2, TakeFrontKeepsNumbering DEF TryPop
<1>3. CASE Close
  BY <1>3 DEF Close, Numbered
<1>4. ASSUME NEW t \in Consumers, PopTakes(t) PROVE Numbered'
  BY <1>4, TakeFrontKeepsNumbering DEF PopTakes
<1>5. ASSUME NEW t \in Consumers, PopWaits(t) \/ PopRefuses(t) \/ SpuriousWakeup(t)
      PROVE  Numbered'
  BY <1>5 DEF PopWaits, PopRefuses, SpuriousWakeup, Numbered
<1>6. CASE UNCHANGED vars
  BY <1>6 DEF vars, Numbered
<1> QED
  BY <1>1, <1>2, <1>3, <1>4, <1>5, <1>6 DEF Next, PopStep, Terminated

LEMMA AlwaysNumbered ==
  ASSUME MaxPushed \in Nat
  PROVE  Spec => []Numbered
<1>1. Init => Numbered
  BY DEF Init, Numbered
<1>2. TypeOK /\ TypeOK' /\ Numbered /\ [Next]_vars => Numbered'
  BY StepKeepsNumbering
<1> QED
  BY <1>1, <1>2, TypeCorrect, PTL DEF Spec

\* Concurrent Push, Pop, TryPop and Close neither lose nor duplicate nor reorder
\* values.
THEOREM FirstInFirstOut ==
  ASSUME MaxPushed \in Nat
  PROVE  Spec => []FIFO
BY AlwaysNumbered, TypeCorrect, NumberedIsFIFO, PTL

------------------------------------------------------------------------------
(* Wakeups.                                                                   *)

LEMMA WokenIsFinite ==
  ASSUME TypeOK, IsFiniteSet(Consumers)
  PROVE  IsFiniteSet(woken) /\ Cardinality(woken) \in Nat
  BY FS_Subset, FS_CardinalityType DEF TypeOK

\* What a signal to thread t adds to the threads on their way.
LEMMA SignalledIsCounted ==
  ASSUME TypeOK, IsFiniteSet(Consumers), NEW t \in waiting, woken' = woken \cup {t}
  PROVE  Cardinality(woken') = Cardinality(woken) + 1
  BY WokenIsFinite, FS_AddElement DEF TypeOK

\* What thread t takes away from them when it is back in Pop.
LEMMA ReturnedIsCounted ==
  ASSUME TypeOK, IsFiniteSet(Consumers), NEW t, woken' = woken \ {t}
  PROVE  /\ Cardinality(woken') \in Nat
         /\ Cardinality(woken') >= Cardinality(woken) - 1
<1>1. IsFiniteSet(woken) /\ Cardinality(woken) \in Nat
  BY WokenIsFinite
<1>2. Cardinality(woken \ {t})
        = IF t \in woken THEN Cardinality(woken) - 1 ELSE Cardinality(woken)
  BY <1>1, FS_RemoveElement
<1>3. Cardinality(woken \ {t}) \in Nat
  BY <1>1, FS_RemoveElement, FS_CardinalityType
<1> QED
  BY <1>1, <1>2, <1>3

LEMMA TakeFrontShortens ==
  ASSUME TypeOK, TakeFront
  PROVE  Len(queue') = Len(queue) - 1 /\ Len(queue) \in Nat
  BY DEF TypeOK, TakeFront

\* Nobody sleeps past a value or past Close, whatever the order of the calls,
\* and with spurious wakeups.
THEOREM WakeupsSuffice ==
  ASSUME MaxPushed \in Nat, IsFiniteSet(Consumers)
  PROVE  Spec => []NoLostWakeup
<1>1. Init => NoLostWakeup
  BY DEF Init, NoLostWakeup
<1>2. TypeOK /\ NoLostWakeup /\ [Next]_vars => NoLostWakeup'
  <2> SUFFICES ASSUME TypeOK, NoLostWakeup, [Next]_vars PROVE NoLostWakeup'
    OBVIOUS
  <2>1. CASE Push
    <3>1. CASE waiting = {}
      BY <2>1, <3>1 DEF Push, Notify, NoLostWakeup
    <3>2. CASE waiting # {}
      <4>1. PICK t \in waiting : woken' = woken \cup {t} /\ waiting' = waiting \ {t}
        BY <2>1, <3>2 DEF Push, Notify
      <4>2. Cardinality(woken') = Cardinality(woken) + 1
        BY <4>1, SignalledIsCounted
      <4>3. Len(queue') = Len(queue) + 1
        BY <2>1 DEF Push, TypeOK
      <4>4. Len(queue) <= Cardinality(woken)
        BY <3>2 DEF NoLostWakeup
      <4>5. Len(queue') <= Cardinality(woken')
        BY <4>2, <4>3, <4>4, WokenIsFinite DEF TypeOK
      <4> QED
        BY <2>1, <4>5 DEF Push, NoLostWakeup
    <3> QED
      BY <3>1, <3>2
  <2>2. CASE TryPop
    BY <2>2, TakeFrontShortens, WokenIsFinite DEF TryPop, NoLostWakeup
  <2>3. CASE Close
    BY <2>3 DEF Close, NotifyAll, NoLostWakeup
  <2>4. ASSUME NEW t \in Consumers, PopTakes(t) PROVE NoLostWakeup'
    <3>1. Len(queue') = Len(queue) - 1 /\ Len(queue) \in Nat
      BY <2>4, TakeFrontShortens DEF PopTakes
    <3>2. woken' = woken \ {t}
      BY <2>4 DEF PopTakes
    <3>3. /\ Cardinality(woken) \in Nat /\ Cardinality(woken') \in Nat
          /\ Cardinality(woken') >= Cardinality(woken) - 1
      BY <3>2, ReturnedIsCounted, WokenIsFinite
    <3> QED
      BY <2>4, <3>1, <3>3 DEF PopTakes, NoLostWakeup
  <2>5. ASSUME NEW t \in Consumers, PopWaits(t) PROVE NoLostWakeup'
    <3>1. woken' = woken \ {t} /\ queue' = <<>> /\ ~closed'
      BY <2>5 DEF PopWaits
    <3>2. Cardinality(woken') \in Nat /\ Len(queue') = 0
      BY <3>1, ReturnedIsCounted, EmptySeq
    <3> QED
      BY <3>1, <3>2 DEF NoLostWakeup
  <2>6. ASSUME NEW t \in Consumers, PopRefuses(t) PROVE NoLostWakeup'
    BY <2>6 DEF PopRefuses, Exhausted, NoLostWakeup
  <2>7. ASSUME NEW t \in Consumers, SpuriousWakeup(t) PROVE NoLostWakeup'
    <3>1. t \in waiting /\ woken' = woken \cup {t} /\ queue' = queue
      BY <2>7 DEF SpuriousWakeup
    <3>2. Cardinality(woken') = Cardinality(woken) + 1
      BY <3>1, SignalledIsCounted
    <3>3. Len(queue) \in Nat /\ Len(queue) <= Cardinality(woken)
      BY <3>1, LenProperties DEF TypeOK, NoLostWakeup
    <3> QED
      BY <2>7, <3>1, <3>2, <3>3, WokenIsFinite DEF SpuriousWakeup, NoLostWakeup
  <2>8. CASE UNCHANGED vars
    BY <2>8 DEF vars, NoLostWakeup
  <2> QED
    BY <2>1, <2>2, <2>3, <2>4, <2>5, <2>6, <2>7, <2>8
       DEF Next, PopStep, Terminated
<1> QED
  BY <1>1, <1>2, TypeCorrect, PTL DEF Spec

------------------------------------------------------------------------------
\* A thread is told to stop only when all values are taken, and none come after.
THEOREM CloseLosesNothing == Spec => []NothingLeftBehind
<1>1. Init => NothingLeftBehind
  BY DEF Init, NothingLeftBehind
<1>2. NothingLeftBehind /\ [Next]_vars => NothingLeftBehind'
  BY DEF NothingLeftBehind, Next, vars, Push, TryPop, TakeFront, Close, PopStep,
         PopTakes, PopWaits, PopRefuses, Exhausted, SpuriousWakeup, Terminated
<1> QED
  BY <1>1, <1>2, PTL DEF Spec
==============================================================================
