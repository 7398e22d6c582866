-------------------------- MODULE ServerProcessProofs --------------------------
(* ServerProcess for any number of logic threads and requests.  The server runs *)
(* its logic layer as LogicLayer describes it, and the logic layer uses its      *)
(* request queue as RequestQueue describes it, so that what is proved of the     *)
(* queue holds in the server.                                                    *)
EXTENDS ServerProcess, FiniteSetTheorems, SequenceTheorems, TLAPS

\* Whatever main(), its signals and the rest of Server do around it.
THEOREM RunsLogicLayer == ServerSpec => Spec
<1>1. ServerInit => Init
  BY DEF ServerInit
<1>2. [ServerNext]_serverVars => [Next]_vars
  <2> SUFFICES ASSUME [ServerNext]_serverVars PROVE [Next]_vars
    OBVIOUS
  <2> USE DEF logicVars
  <2>1. CASE StartServer
    BY <2>1 DEF StartServer, Daemonize, BlockSignals, CreateSocket, ConstructLogic,
                Constructed, InitListen, InitSignalEvent, Serve, Next, Construct
  <2>2. CASE TakeRequest \/ GiveAnswer
    BY <2>2 DEF TakeRequest, GiveAnswer, Next
  <2>3. CASE StopServer
    BY <2>3 DEF StopServer, ReadSignal, LeaveRun, DestroyServer, Return, Next
  <2>4. ASSUME NEW t \in Threads, LogicThread(t) \/ WokenForNothing(t)
        PROVE  [Next]_vars
    BY <2>4 DEF LogicThread, WokenForNothing, Next
  <2>5. CASE SignalArrives
    BY <2>5 DEF SignalArrives
  <2>6. CASE UNCHANGED serverVars
    BY <2>6 DEF serverVars
  <2> QED
    BY <2>1, <2>2, <2>3, <2>4, <2>5, <2>6 DEF ServerNext
<1> QED
  BY <1>1, <1>2, PTL DEF ServerSpec, Spec

------------------------------------------------------------------------------
(* The request queue.                                                          *)

Queue == INSTANCE RequestQueueProofs
           WITH Consumers <- Threads, MaxPushed <- MaxRequests,
                queue <- requests, waiting <- reqWaiting, woken <- reqWoken,
                pushed <- submitted, popped <- taken

\* The queue that the logic layer has, and the one that the theorems are about.
LEMMA SameQueue ==
  /\ Requests!Init <=> Queue!Init
  /\ Requests!Push => Queue!Push
  /\ Requests!Close => Queue!Close
  /\ \A t : /\ Requests!PopStep(t) => Queue!PopStep(t)
            /\ Requests!SpuriousWakeup(t) => Queue!SpuriousWakeup(t)
  /\ Queue!TypeOK <=> Requests!TypeOK
  /\ Queue!FIFO <=> FIFO
  /\ Queue!NothingLeftBehind <=> NothingLeftBehind
<1>1. Requests!Init <=> Queue!Init
  BY DEF Requests!Init, Queue!Init
<1>2. Requests!Push => Queue!Push
  BY DEF Requests!Push, Queue!Push, Requests!Notify, Queue!Notify
<1>3. Requests!Close => Queue!Close
  BY DEF Requests!Close, Queue!Close, Requests!NotifyAll, Queue!NotifyAll
<1>4. ASSUME NEW t PROVE Requests!PopStep(t) => Queue!PopStep(t)
  BY DEF Requests!PopStep, Requests!PopTakes, Requests!PopWaits, Requests!PopRefuses,
         Requests!AtPop, Requests!TakeFront, Requests!Exhausted,
         Queue!PopStep, Queue!PopTakes, Queue!PopWaits, Queue!PopRefuses,
         Queue!AtPop, Queue!TakeFront, Queue!Exhausted
<1>5. ASSUME NEW t PROVE Requests!SpuriousWakeup(t) => Queue!SpuriousWakeup(t)
  BY DEF Requests!SpuriousWakeup, Queue!SpuriousWakeup
<1>6. /\ Queue!TypeOK <=> Requests!TypeOK
      /\ Queue!FIFO <=> FIFO
      /\ Queue!NothingLeftBehind <=> NothingLeftBehind
  BY DEF Queue!TypeOK, Requests!TypeOK, Queue!FIFO, FIFO, Requests!FIFO,
         Queue!NothingLeftBehind, NothingLeftBehind, Requests!NothingLeftBehind
<1> QED
  BY <1>1, <1>2, <1>3, <1>4, <1>5, <1>6

LEMMA UsesQueue == Spec => Queue!Spec
<1>1. Init => Queue!Init
  BY SameQueue DEF Init
<1>2. [Next]_vars => [Queue!Next]_(Queue!vars)
  <2> SUFFICES ASSUME [Next]_vars PROVE Queue!Next \/ UNCHANGED requestVars
    BY DEF requestVars, Queue!vars
  <2>1. CASE Construct
    BY <2>1 DEF Construct, ConstructPool, PushWorkerLoop, StartRun
  <2>2. CASE PushRequest
    BY <2>2, SameQueue DEF PushRequest, Queue!Next
  <2>3. CASE CollectResult \/ StopRun
    BY <2>3 DEF CollectResult, StopRun
  <2>4. CASE Destroy
    BY <2>4, SameQueue
       DEF Destroy, DestroyPages, CloseRequests, EndPool, JoinPool, Queue!Next
  <2>5. ASSUME NEW t \in Threads, ThreadStep(t) PROVE Queue!Next \/ UNCHANGED requestVars
    BY <2>5, SameQueue
       DEF ThreadStep, PoolStep, LoopTakes, LoopWaits, LoopAnswers, LoopEnds,
           Requests!PopStep, Queue!Next
  <2>6. ASSUME NEW t \in Threads, Spurious(t) PROVE Queue!Next \/ UNCHANGED requestVars
    BY <2>6, SameQueue DEF Spurious, Queue!Next
  <2>7. CASE UNCHANGED vars
    BY <2>7 DEF vars
  <2> QED
    BY <2>1, <2>2, <2>3, <2>4, <2>5, <2>6, <2>7 DEF Next, Terminated
<1> QED
  BY <1>1, <1>2, PTL DEF Spec, Queue!Spec

\* The logic threads take the requests in the order of DispatchConnection's pushes.
THEOREM RequestsStayInOrder == ServerSpec => []FIFO
<1>1. Queue!Spec => []Queue!FIFO
  BY Queue!FirstInFirstOut, LogicAssumption
<1>2. Queue!FIFO => FIFO
  BY SameQueue
<1> QED
  BY <1>1, <1>2, RunsLogicLayer, UsesQueue, PTL

\* No thread of the server sleeps past a request, or past the queue's end.
THEOREM ServerWakesUp == ServerSpec => []NoLostWakeup
<1>1. Queue!Spec => []Queue!NoLostWakeup
  BY Queue!WakeupsSuffice, LogicAssumption DEF IsFiniteSet, Queue!IsFiniteSet
<1>2. Queue!NoLostWakeup => NoLostWakeup
  BY DEF NoLostWakeup, Requests!NoLostWakeup, Queue!NoLostWakeup,
         Requests!Cardinality, Queue!Cardinality
<1> QED
  BY <1>1, <1>2, RunsLogicLayer, UsesQueue, PTL

\* No WorkerLoop ends while there are requests: a stop signal discards none of those
\* that were accepted.
THEOREM StopLeavesNothing == ServerSpec => []NothingLeftBehind
<1>1. Queue!Spec => []Queue!NothingLeftBehind
  BY Queue!CloseLosesNothing
<1>2. Queue!NothingLeftBehind => NothingLeftBehind
  BY SameQueue
<1> QED
  BY <1>1, <1>2, RunsLogicLayer, UsesQueue, PTL

------------------------------------------------------------------------------
(* Stop signals.                                                               *)

\* From where main() has blocked the signals on, unless it has returned, no thread can
\* be hit: neither main() nor any that it has created.
Shielded ==
  /\ place \notin {"start", "mask", "exited"} => blocked
  /\ exposed = {}
  /\ StopIsNotDeath

\* Once main() has blocked the stop signals none of them kills the server.
THEOREM SignalsDoNotKill == ServerSpec => []StopIsNotDeath
<1>1. ServerInit => Shielded
  BY DEF ServerInit, Shielded, StopIsNotDeath
<1>2. Shielded /\ [ServerNext]_serverVars => Shielded'
  <2> SUFFICES ASSUME Shielded, [ServerNext]_serverVars PROVE Shielded'
    OBVIOUS
  <2> USE DEF Shielded, StopIsNotDeath, signalVars
  <2>1. CASE StartServer
    BY <2>1 DEF StartServer, Daemonize, BlockSignals, Block, CreateSocket, ConstructLogic,
                Constructed, InitListen, InitSignalEvent, Serve, GoTo, At
  <2>2. CASE TakeRequest \/ GiveAnswer
    BY <2>2 DEF TakeRequest, GiveAnswer, processVars
  <2>3. CASE StopServer
    BY <2>3 DEF StopServer, ReadSignal, LeaveRun, DestroyServer, Return, GoTo, At,
                processVars
  <2>4. ASSUME NEW t \in Threads, LogicThread(t) \/ WokenForNothing(t)
        PROVE  Shielded'
    BY <2>4 DEF LogicThread, WokenForNothing, processVars
  <2>5. CASE SignalArrives
    BY <2>5 DEF SignalArrives
  <2>6. CASE UNCHANGED serverVars
    BY <2>6 DEF serverVars, processVars
  <2> QED
    BY <2>1, <2>2, <2>3, <2>4, <2>5, <2>6 DEF ServerNext
<1>3. Shielded => StopIsNotDeath
  BY DEF Shielded
<1> QED
  BY <1>1, <1>2, <1>3, PTL DEF ServerSpec

------------------------------------------------------------------------------
(* Where the requests are.                                                     *)

Distinct(q) == \A i, j \in DOMAIN q : q[i] = q[j] => i = j

LEMMA AppendAdds ==
  ASSUME NEW S, NEW q \in Seq(S), NEW e \in S
  PROVE  /\ Append(q, e) \in Seq(S) /\ Len(Append(q, e)) = Len(q) + 1
         /\ Elements(Append(q, e)) = Elements(q) \cup {e}
         /\ Distinct(q) /\ e \notin Elements(q) => Distinct(Append(q, e))
<1> DEFINE r == Append(q, e)
<1>1. /\ r \in Seq(S) /\ Len(r) = Len(q) + 1 /\ Len(q) \in Nat
      /\ \A i \in 1..Len(q) : r[i] = q[i]
      /\ r[Len(q) + 1] = e
  BY AppendProperties, LenProperties
<1>2. DOMAIN q = 1..Len(q) /\ DOMAIN r = 1..(Len(q) + 1)
  BY <1>1, LenProperties
<1> HIDE DEF r
<1>3. DOMAIN r = DOMAIN q \cup {Len(q) + 1} /\ Len(q) + 1 \notin DOMAIN q
  BY <1>1, <1>2
<1>4. Elements(r) = Elements(q) \cup {e}
  BY <1>1, <1>2, <1>3 DEF Elements
<1>5. Distinct(q) /\ e \notin Elements(q) => Distinct(r)
  BY <1>1, <1>2, <1>3 DEF Distinct, Elements
<1> QED
  BY <1>1, <1>4, <1>5 DEF r

LEMMA TailRemoves ==
  ASSUME NEW S, NEW q \in Seq(S), q # <<>>
  PROVE  /\ Head(q) \in S /\ Tail(q) \in Seq(S) /\ Len(Tail(q)) = Len(q) - 1
         /\ Elements(q) = Elements(Tail(q)) \cup {Head(q)}
         /\ Distinct(q) => Distinct(Tail(q)) /\ Head(q) \notin Elements(Tail(q))
<1> DEFINE r == Tail(q)
<1>1. /\ r \in Seq(S) /\ Len(r) = Len(q) - 1 /\ Len(q) \in Nat \ {0}
      /\ \A i \in 1..(Len(q) - 1) : r[i] = q[i + 1]
      /\ Head(q) \in S /\ Head(q) = q[1]
  BY HeadTailProperties, LenProperties, EmptySeq
<1>2. DOMAIN q = 1..Len(q) /\ DOMAIN r = 1..(Len(q) - 1)
  BY <1>1, LenProperties
<1> HIDE DEF r
<1>3. /\ 1 \in DOMAIN q
      /\ \A i \in DOMAIN r : i + 1 \in DOMAIN q /\ i + 1 # 1 /\ r[i] = q[i + 1]
      /\ \A i \in DOMAIN q : i # 1 => i - 1 \in DOMAIN r /\ r[i - 1] = q[i]
  BY <1>1, <1>2
<1>4. Elements(q) = Elements(r) \cup {Head(q)}
  <2>1. ASSUME NEW i \in DOMAIN q PROVE q[i] \in Elements(r) \cup {Head(q)}
    BY <1>1, <1>3, <2>1 DEF Elements
  <2>2. ASSUME NEW i \in DOMAIN r PROVE r[i] \in Elements(q)
    BY <1>3, <2>2 DEF Elements
  <2>3. Head(q) \in Elements(q)
    BY <1>1, <1>3 DEF Elements
  <2> QED
    BY <2>1, <2>2, <2>3 DEF Elements
<1>5. ASSUME Distinct(q) PROVE Distinct(r) /\ Head(q) \notin Elements(r)
  <2>1. \A i, j \in DOMAIN r : r[i] = r[j] => i = j
    BY <1>2, <1>3, <1>5 DEF Distinct
  <2>2. \A i \in DOMAIN r : r[i] # Head(q)
    BY <1>1, <1>2, <1>3, <1>5 DEF Distinct
  <2> QED
    BY <2>1, <2>2 DEF Distinct, Elements
<1> QED
  BY <1>1, <1>4, <1>5 DEF r

Handling == {t \in Threads : busy[t] # 0}

\* The requests that have been taken from the queue are each in one place: with a
\* thread, with the results, or collected.
Placed ==
  /\ busy \in [Threads -> Nat]
  /\ results \in Seq(Nat) /\ collected \in SUBSET Nat
  /\ Busy \cup Elements(results) \cup collected = 1..Len(taken)
  /\ \A t, u \in Handling : busy[t] = busy[u] => t = u
  /\ Busy \cap Elements(results) = {}
  /\ Busy \cap collected = {}
  /\ Elements(results) \cap collected = {}
  /\ Distinct(results)

\* As many as have been taken, too, which their being in one place each gives.
Counted ==
  /\ IsFiniteSet(collected)
  /\ Cardinality(Handling) + Len(results) + Cardinality(collected) = Len(taken)

LEMMA HandlingIsFinite ==
  IsFiniteSet(Handling) /\ Cardinality(Handling) \in Nat
  BY LogicAssumption, FS_Subset, FS_CardinalityType DEF Handling

LEMMA TakingPlaces ==
  ASSUME Queue!TypeOK, Queue!Numbered, Placed, Counted, NEW t \in Threads, LoopTakes(t)
  PROVE  Placed' /\ Counted'
<1> DEFINE r == Head(requests)
<1>1. /\ requests \in Seq(Nat) /\ taken \in Seq(Nat) /\ requests # <<>>
      /\ taken' = Append(taken, r) /\ requests' = Tail(requests)
      /\ busy[t] = 0 /\ busy' = [busy EXCEPT ![t] = r]
      /\ results' = results /\ collected' = collected
  BY DEF LoopTakes, InLoop, Requests!PopTakes, Requests!TakeFront, Queue!TypeOK
<1>2. Len(taken) \in Nat /\ Len(taken') = Len(taken) + 1 /\ r = Len(taken) + 1
  BY <1>1, AppendProperties, HeadTailProperties, LenProperties, EmptySeq
     DEF Queue!Numbered
<1> HIDE DEF r
<1>3. /\ busy'[t] = r /\ r \in Nat /\ r # 0
      /\ \A u \in Threads \ {t} : busy'[u] = busy[u]
      /\ busy' \in [Threads -> Nat]
  BY <1>1, <1>2 DEF Placed
<1>4. r \notin Busy \cup Elements(results) \cup collected
  BY <1>2 DEF Placed
<1>5. Handling' = Handling \cup {t} /\ t \notin Handling
  BY <1>1, <1>3 DEF Handling
<1>6. Busy' = Busy \cup {r}
  BY <1>1, <1>3 DEF Busy
<1>7. Placed'
  <2>1. (Busy \cup Elements(results) \cup collected) \cup {r} = 1..Len(taken')
    BY <1>2 DEF Placed
  <2>2. \A u \in Handling : busy[u] \in Busy
    BY DEF Handling, Busy
  <2>3. \A u, v \in Handling' : busy'[u] = busy'[v] => u = v
    BY <1>3, <1>4, <1>5, <2>2 DEF Placed, Handling
  <2>4. (Elements(results))' = Elements(results) /\ Distinct(results)'
    BY <1>1 DEF Placed, Elements, Distinct
  <2> QED
    BY <1>1, <1>3, <1>4, <1>6, <2>1, <2>3, <2>4 DEF Placed
<1>8. Cardinality(Handling') = Cardinality(Handling) + 1
  BY <1>5, HandlingIsFinite, FS_AddElement
<1>9. Counted'
  <2>1. Len(results) \in Nat /\ Cardinality(collected) \in Nat
    BY LenProperties, FS_CardinalityType DEF Placed, Counted
  <2>2. Cardinality(Handling) + Len(results) + Cardinality(collected) = Len(taken)
    BY DEF Counted
  <2>3. Cardinality(Handling) \in Nat /\ Len(taken) \in Nat
    BY <1>2, HandlingIsFinite
  <2>4. Cardinality(Handling') + Len(results) + Cardinality(collected) = Len(taken')
    BY <1>2, <1>8, <2>1, <2>2, <2>3
  <2> QED
    BY <1>1, <2>4 DEF Counted
<1> QED
  BY <1>7, <1>9

LEMMA AnsweringPlaces ==
  ASSUME Queue!TypeOK, Placed, Counted, NEW t \in Threads, LoopAnswers(t)
  PROVE  Placed' /\ Counted'
<1> DEFINE r == busy[t]
<1>1. /\ r # 0 /\ busy' = [busy EXCEPT ![t] = 0] /\ results' = Append(results, r)
      /\ collected' = collected /\ taken' = taken
  BY DEF LoopAnswers, WithResult, requestVars
<1>2. r \in Nat /\ r \in Busy /\ Len(results) \in Nat /\ Len(taken) \in Nat
  BY <1>1, LenProperties DEF Placed, Busy, Queue!TypeOK
<1>3. r \notin Elements(results) /\ r \notin collected
  BY <1>2 DEF Placed
<1>4. /\ results' \in Seq(Nat) /\ Len(results') = Len(results) + 1
      /\ Elements(results') = Elements(results) \cup {r}
      /\ Distinct(results')
  BY <1>1, <1>2, <1>3, AppendAdds DEF Placed
<1>5. /\ busy' \in [Threads -> Nat] /\ busy'[t] = 0
      /\ \A u \in Threads \ {t} : busy'[u] = busy[u]
  BY <1>1 DEF Placed
<1>6. t \in Handling /\ Handling' = Handling \ {t}
  BY <1>1, <1>5 DEF Handling
<1>7. \A u \in Handling : busy[u] = r => u = t
  BY <1>6 DEF Placed
<1>8. Busy' = Busy \ {r}
  <2>1. \A u \in Threads : busy[u] # 0 <=> u \in Handling
    BY DEF Handling
  <2> QED
    BY <1>1, <1>5, <1>7, <2>1 DEF Busy
<1> HIDE DEF r
<1>9. Placed'
  <2>1. \A u, v \in Handling' : busy'[u] = busy'[v] => u = v
    BY <1>5, <1>6 DEF Placed, Handling
  <2>2. (Busy \ {r}) \cup (Elements(results) \cup {r}) \cup collected = 1..Len(taken)
    BY <1>2 DEF Placed
  <2>3. (Elements(results))' = Elements(results') /\ Distinct(results)' = Distinct(results')
    BY DEF Elements, Distinct
  <2>4. /\ (Busy \ {r}) \cap (Elements(results) \cup {r}) = {}
        /\ (Busy \ {r}) \cap collected = {}
        /\ (Elements(results) \cup {r}) \cap collected = {}
    BY <1>3 DEF Placed
  <2> QED
    BY <1>1, <1>3, <1>4, <1>5, <1>8, <2>1, <2>2, <2>3, <2>4 DEF Placed
<1>10. Cardinality(Handling') = Cardinality(Handling) - 1
  BY <1>6, HandlingIsFinite, FS_RemoveElement
<1>11. Counted'
  <2>1. Cardinality(collected) \in Nat
    BY FS_CardinalityType DEF Counted
  <2> QED
    BY <1>1, <1>2, <1>4, <1>10, <2>1, HandlingIsFinite DEF Counted
<1> QED
  BY <1>9, <1>11

LEMMA CollectingPlaces ==
  ASSUME Queue!TypeOK, Placed, Counted, CollectResult
  PROVE  Placed' /\ Counted'
<1> DEFINE r == Head(results)
<1>1. /\ results # <<>> /\ results' = Tail(results) /\ collected' = collected \cup {r}
      /\ busy' = busy /\ taken' = taken
  BY DEF CollectResult, requestVars
<1>2. /\ r \in Nat /\ results' \in Seq(Nat) /\ Len(results') = Len(results) - 1
      /\ Elements(results) = Elements(results') \cup {r}
      /\ Distinct(results') /\ r \notin Elements(results')
  BY <1>1, TailRemoves DEF Placed
<1>3. Len(results) \in Nat /\ Len(taken) \in Nat
  BY LenProperties DEF Placed, Queue!TypeOK
<1> HIDE DEF r
<1>4. r \notin collected /\ r \notin Busy
  BY <1>2 DEF Placed
<1>5. Busy' = Busy /\ Handling' = Handling
  BY <1>1 DEF Busy, Handling
<1>6. Placed'
  <2>1. Busy \cup Elements(results') \cup (collected \cup {r}) = 1..Len(taken)
    BY <1>2 DEF Placed
  <2>2. /\ Busy \cap Elements(results') = {} /\ Busy \cap (collected \cup {r}) = {}
        /\ Elements(results') \cap (collected \cup {r}) = {}
    BY <1>2, <1>4 DEF Placed
  <2>3. \A t, u \in Handling' : busy'[t] = busy'[u] => t = u
    BY <1>1, <1>5 DEF Placed
  <2>4. collected' \in SUBSET Nat /\ busy' \in [Threads -> Nat]
    BY <1>1, <1>2 DEF Placed
  <2>5. (Elements(results))' = Elements(results') /\ Distinct(results)' = Distinct(results')
    BY DEF Elements, Distinct
  <2> QED
    BY <1>1, <1>2, <1>5, <2>1, <2>2, <2>3, <2>4, <2>5 DEF Placed
<1>7. IsFiniteSet(collected') /\ Cardinality(collected') = Cardinality(collected) + 1
  BY <1>1, <1>4, FS_AddElement DEF Counted
<1>8. Counted'
  <2>1. Cardinality(collected) \in Nat
    BY FS_CardinalityType DEF Counted
  <2> QED
    BY <1>1, <1>2, <1>3, <1>5, <1>7, <2>1, HandlingIsFinite DEF Counted
<1> QED
  BY <1>6, <1>8

LEMMA OthersPlace ==
  ASSUME Placed, Counted, UNCHANGED <<busy, results, collected, taken>>
  PROVE  Placed' /\ Counted'
BY DEF Placed, Counted, Busy, Handling, Elements, Distinct

LEMMA AlwaysPlaced == Spec => [](Placed /\ Counted)
<1>1. Init => Placed /\ Counted
  <2> SUFFICES ASSUME Init PROVE Placed /\ Counted
    OBVIOUS
  <2>1. /\ taken = <<>> /\ results = <<>> /\ collected = {}
        /\ busy = [t \in Threads |-> 0]
    BY DEF Init, Requests!Init
  <2>2. Busy = {} /\ Handling = {} /\ Elements(results) = {} /\ Distinct(results)
    BY <2>1, EmptySeq DEF Busy, Handling, Elements, Distinct
  <2>3. Len(taken) = 0 /\ Len(results) = 0 /\ results \in Seq(Nat)
    BY <2>1, EmptySeq
  <2> QED
    BY <2>1, <2>2, <2>3, FS_EmptySet DEF Placed, Counted
<1>2. /\ Queue!TypeOK /\ Queue!Numbered /\ Placed /\ Counted /\ [Next]_vars
      => Placed' /\ Counted'
  <2> SUFFICES ASSUME Queue!TypeOK, Queue!Numbered, Placed, Counted, [Next]_vars
               PROVE  Placed' /\ Counted'
    OBVIOUS
  <2>1. CASE Construct \/ PushRequest \/ StopRun \/ Destroy
    <3>1. UNCHANGED <<busy, results, collected, taken>>
      BY <2>1 DEF Construct, ConstructPool, PushWorkerLoop, StartRun, PushRequest,
           StopRun, Destroy, DestroyPages, CloseRequests, EndPool, JoinPool, requestVars,
           Requests!Push, Requests!Close
    <3> QED
      BY <3>1, OthersPlace
  <2>2. CASE CollectResult
    BY <2>2, CollectingPlaces
  <2>3. ASSUME NEW t \in Threads, PoolStep(t) \/ LoopWaits(t) \/ LoopEnds(t) \/ Spurious(t)
        PROVE  Placed' /\ Counted'
    <3>1. UNCHANGED <<busy, results, collected, taken>>
      BY <2>3 DEF PoolStep, LoopWaits, LoopEnds, Spurious, requestVars,
           Requests!PopWaits, Requests!PopRefuses, Requests!SpuriousWakeup
    <3> QED
      BY <3>1, OthersPlace
  <2>4. ASSUME NEW t \in Threads, LoopTakes(t) \/ LoopAnswers(t)
        PROVE  Placed' /\ Counted'
    BY <2>4, TakingPlaces, AnsweringPlaces
  <2>5. CASE UNCHANGED vars
    BY <2>5, OthersPlace DEF vars, requestVars
  <2> QED
    BY <2>1, <2>2, <2>3, <2>4, <2>5 DEF Next, ThreadStep, Terminated
<1>3. Queue!Spec => []Queue!TypeOK /\ []Queue!Numbered
  BY Queue!TypeCorrect, Queue!AlwaysNumbered, LogicAssumption
<1> QED
  BY <1>1, <1>2, <1>3, UsesQueue, PTL DEF Spec

LEMMA AlwaysConserved == Spec => []RequestsConserved
<1>1. Queue!TypeOK /\ Queue!Numbered /\ Placed /\ Counted => RequestsConserved
  <2> SUFFICES ASSUME Queue!TypeOK, Queue!Numbered, Placed, Counted
               PROVE  RequestsConserved
    OBVIOUS
  <2>1. /\ requests \in Seq(Nat) /\ Len(requests) \in Nat /\ Len(taken) \in Nat
        /\ submitted \in Nat /\ Len(taken) + Len(requests) = submitted
        /\ DOMAIN requests = 1..Len(requests)
        /\ \A i \in 1..Len(requests) : requests[i] = Len(taken) + i
    BY LenProperties DEF Queue!TypeOK, Queue!Numbered
  <2>2. Elements(requests) = (Len(taken) + 1)..submitted
    <3>1. ASSUME NEW n \in (Len(taken) + 1)..submitted PROVE n \in Elements(requests)
      <4>1. n - Len(taken) \in 1..Len(requests)
        BY <2>1
      <4>2. requests[n - Len(taken)] = n
        BY <2>1, <4>1
      <4> QED
        BY <2>1, <4>1, <4>2 DEF Elements
    <3>2. ASSUME NEW n \in Elements(requests) PROVE n \in (Len(taken) + 1)..submitted
      BY <2>1, <3>2 DEF Elements
    <3> QED
      BY <3>1, <3>2
  <2>3. 1..submitted = 1..Len(taken) \cup (Len(taken) + 1)..submitted
    BY <2>1
  <2>4. Len(results) \in Nat /\ Cardinality(collected) \in Nat
    BY LenProperties, FS_CardinalityType DEF Placed, Counted
  <2>5. Len(requests) + Cardinality(Handling) + Len(results) + Cardinality(collected)
          = submitted
    <3>1. Cardinality(Handling) + Len(results) + Cardinality(collected) = Len(taken)
      BY DEF Counted
    <3>2. /\ Cardinality(Handling) \in Nat /\ Len(taken) + Len(requests) = submitted
          /\ Len(requests) \in Nat
      BY <2>1, HandlingIsFinite
    <3> QED
      BY <2>4, <3>1, <3>2
  <2> QED
    BY <2>2, <2>3, <2>5 DEF Placed, RequestsConserved, Handling
<1>2. Queue!Spec => []Queue!TypeOK /\ []Queue!Numbered
  BY Queue!TypeCorrect, Queue!AlwaysNumbered, LogicAssumption
<1> QED
  BY <1>1, <1>2, UsesQueue, AlwaysPlaced, PTL

\* Every request is in exactly one place on its way through the logic threads and back
\* to the event loop: none is lost or answered twice, also while the server stops.
THEOREM RequestsAreConserved == ServerSpec => []RequestsConserved
  BY AlwaysConserved, RunsLogicLayer, PTL

------------------------------------------------------------------------------
(* What the event loop is promised.                                            *)

\* The pool at its end, and what its threads are doing in the meantime: a request is
\* handled inside a WorkerLoop, and once there are WorkerLoops one of them is queued,
\* or runs, or has come to its end, which it does only after Close.
Ending ==
  /\ closed <=> main \in {"destroyPool", "done"}
  /\ main # "construct" => asked = WorkerNum
  /\ isExit => main \in {"destroyPool", "done"}
  /\ main = "done" => created \subseteq exited
  /\ stage # "ctor" => created = Threads
  /\ stage = "ctor" => main = "construct" /\ asked = 0
  /\ exited # {} => tasks = <<>> /\ isExit
  /\ \A t \in exited : running[t] = 0

Loops ==
  /\ asked \in Nat /\ pushed \in Nat
  /\ tasks \in Seq(Nat \ {0})
  /\ DOMAIN running = Threads
  /\ \A t \in Threads : running[t] # 0 => t \in created
  /\ \A t \in Threads : busy[t] # 0 => running[t] # 0 /\ t \notin refused
  /\ asked > 0 => tasks # <<>> \/ (\E t \in Threads : running[t] # 0) \/ refused # {}

LEMMA SomeThread == WorkerNum \in Nat /\ WorkerNum > 0
<1>1. WorkerNum \in Nat
  BY LogicAssumption, FS_CardinalityType DEF WorkerNum
<1>2. WorkerNum # 0
  BY LogicAssumption, FS_EmptySet DEF WorkerNum
<1> QED
  BY <1>1, <1>2

LEMMA EndingHolds == Spec => [](Ending /\ Loops)
<1> USE LogicAssumption, SomeThread
<1>1. Init => Ending /\ Loops
  BY EmptySeq DEF Init, Pool!Init, Requests!Init, Ending, Loops
<1>2. Placed /\ Ending /\ Loops /\ [Next]_vars => Ending' /\ Loops'
  <2> SUFFICES ASSUME Placed, Ending, Loops, [Next]_vars PROVE Ending' /\ Loops'
    OBVIOUS
  <2> USE DEF Ending, Loops, WorkerNum
  <2>1. CASE ConstructPool
    BY <2>1 DEF ConstructPool, Pool!Constructed, Pool!CreateThread, requestVars
  <2>2. CASE PushWorkerLoop
    <3>1. tasks' \in Seq(Nat \ {0}) /\ tasks' # <<>> /\ pushed' \in Nat
      <4>1. CASE Pool!PushTask
        BY <4>1, AppendProperties, EmptySeq DEF Pool!PushTask
      <4>2. CASE ~Pool!HasRoom /\ UNCHANGED poolVars
        BY <4>2, EmptySeq DEF Pool!HasRoom, poolVars
      <4> QED
        BY <2>2, <4>1, <4>2 DEF PushWorkerLoop
    <3>2. UNCHANGED <<stage, created, isExit, exited, running, closed, refused, busy, main>>
      BY <2>2 DEF PushWorkerLoop, Pool!PushTask, poolVars, requestVars
    <3>3. exited = {}
      BY <2>2 DEF PushWorkerLoop
    <3> QED
      BY <2>2, <3>1, <3>2, <3>3 DEF PushWorkerLoop
  <2>3. CASE StartRun \/ StopRun \/ DestroyPages
    BY <2>3 DEF StartRun, StopRun, DestroyPages, Step, poolVars, requestVars
  <2>4. CASE PushRequest
    BY <2>4 DEF PushRequest, Requests!Push, poolVars
  <2>5. CASE CollectResult
    BY <2>5 DEF CollectResult, poolVars, requestVars
  <2>6. CASE CloseRequests
    BY <2>6 DEF CloseRequests, Step, Requests!Close, poolVars
  <2>7. CASE EndPool
    BY <2>7 DEF EndPool, Pool!End, requestVars
  <2>8. CASE JoinPool
    BY <2>8 DEF JoinPool, Step, Pool!Join, Pool!AllJoined, requestVars
  <2>9. ASSUME NEW t \in Threads, Pool!TakeRuns(t), PoolStep(t) PROVE Ending' /\ Loops'
    <3>1. Head(tasks) \in Nat \ {0} /\ tasks' \in Seq(Nat \ {0})
      BY <2>9, HeadTailProperties DEF Pool!TakeRuns, Pool!Rest
    <3>2. running'[t] # 0 /\ t \in created /\ t \notin exited
      BY <2>9, <3>1 DEF Pool!TakeRuns, Pool!AtTakeTask
    <3>3. \A u \in Threads : u # t => running'[u] = running[u]
      BY <2>9 DEF Pool!TakeRuns
    <3>4. exited = {}
      BY <2>9 DEF Pool!TakeRuns
    <3> QED
      BY <2>9, <3>1, <3>2, <3>3, <3>4 DEF PoolStep, Pool!TakeRuns, requestVars
  <2>10. ASSUME NEW t \in Threads, Pool!TakeWaits(t) \/ Pool!TakeExits(t), PoolStep(t)
         PROVE  Ending' /\ Loops'
    BY <2>10 DEF PoolStep, Pool!TakeWaits, Pool!TakeExits, Pool!AtTakeTask, Pool!MayExit,
                 requestVars
  <2>11. ASSUME NEW t \in Threads, LoopTakes(t) PROVE Ending' /\ Loops'
    BY <2>11 DEF LoopTakes, InLoop, Requests!PopTakes, Requests!TakeFront, Placed, poolVars
  <2>12. ASSUME NEW t \in Threads, LoopWaits(t) PROVE Ending' /\ Loops'
    BY <2>12 DEF LoopWaits, InLoop, Requests!PopWaits, Requests!PopRefuses, poolVars
  <2>13. ASSUME NEW t \in Threads, LoopAnswers(t) PROVE Ending' /\ Loops'
    BY <2>13 DEF LoopAnswers, Placed, poolVars, requestVars
  <2>14. ASSUME NEW t \in Threads, LoopEnds(t) PROVE Ending' /\ Loops'
    BY <2>14 DEF LoopEnds, Pool!TaskReturns, requestVars
  <2>15. ASSUME NEW t \in Threads, Spurious(t) PROVE Ending' /\ Loops'
    BY <2>15 DEF Spurious, Pool!SpuriousWakeup, Requests!SpuriousWakeup, poolVars, requestVars
  <2>16. CASE UNCHANGED vars
    BY <2>16 DEF vars, poolVars, requestVars
  <2> QED
    BY <2>1, <2>2, <2>3, <2>4, <2>5, <2>6, <2>7, <2>8, <2>9, <2>10, <2>11, <2>12, <2>13,
       <2>14, <2>15, <2>16
       DEF Next, Construct, Destroy, ThreadStep, PoolStep, Pool!TakeStep, Terminated
<1> QED
  BY <1>1, <1>2, AlwaysPlaced, PTL DEF Spec

Todo == Elements(requests) \cup Busy
Done == Elements(results) \cup collected
State == CASE main = "done" -> "ended"
           [] closed /\ main # "done" -> "stopping"
           [] OTHER -> "open"

\* What is pushed is new, what is taken stays to be done, what is answered is done,
\* and when all threads have left their loops nothing is left to do.
LEMMA LayerDoesJobs == Spec => Jobs!SafeSpec
<1> USE LogicAssumption
<1>1. Init => Jobs!Init
  <2> SUFFICES ASSUME Init PROVE Jobs!Init
    OBVIOUS
  <2>1. /\ requests = <<>> /\ results = <<>> /\ collected = {} /\ closed = FALSE
        /\ busy = [t \in Threads |-> 0] /\ main = "construct"
    BY DEF Init, Requests!Init
  <2>2. Elements(requests) = {} /\ Elements(results) = {} /\ Busy = {}
    BY <2>1, EmptySeq DEF Elements, Busy
  <2> QED
    BY <2>1, <2>2 DEF Jobs!Init
<1>2. /\ Queue!TypeOK /\ Queue!Numbered /\ NothingLeftBehind /\ RequestsConserved
      /\ Placed /\ Ending /\ Loops /\ [Next]_vars
      => [Jobs!Next]_Jobs!vars
  <2> SUFFICES ASSUME Queue!TypeOK, Queue!Numbered, NothingLeftBehind, RequestsConserved,
                      Placed, Ending, Loops, [Next]_vars
               PROVE  \/ Jobs!Next
                      \/ Todo' = Todo /\ Done' = Done /\ State' = State
    BY DEF Jobs!vars, Todo, Done, State
  <2>a. /\ requests \in Seq(Nat) /\ results \in Seq(Nat) /\ submitted \in 0..MaxRequests
        /\ DOMAIN requests = 1..Len(requests) /\ Len(requests) \in Nat
        /\ \A i \in 1..Len(requests) : requests[i] = Len(taken) + i
        /\ Len(taken) \in Nat /\ Len(taken) + Len(requests) = submitted
    BY LenProperties DEF Queue!TypeOK, Queue!Numbered, Placed
  <2>b. Todo \cup Done = 1..submitted
    BY DEF RequestsConserved, Todo, Done
  <2>c. State = "ended" <=> main = "done"
    BY DEF State
  <2>1. CASE PushRequest
    <3> DEFINE j == submitted + 1
    <3>1. /\ j \in 1..MaxRequests /\ j \notin Todo \cup Done /\ j \in Nat
      <4>1. submitted < MaxRequests
        BY <2>1 DEF PushRequest, Requests!Push
      <4>2. j \notin 1..submitted
        BY <2>a
      <4> QED
        BY <2>a, <2>b, <4>1, <4>2
    <3>2. /\ requests' = Append(requests, j)
          /\ UNCHANGED <<busy, results, collected, main, closed>>
          /\ main = "run" /\ ~closed
      BY <2>1 DEF PushRequest, Requests!Push
    <3>3. Elements(requests') = Elements(requests) \cup {j}
      BY <2>a, <3>1, <3>2, AppendAdds
    <3> HIDE DEF j
    <3>4. Todo' = Todo \cup {j} /\ Done' = Done
      BY <3>2, <3>3 DEF Todo, Done, Busy, Elements
    <3>5. State = "open" /\ State' = State
      BY <3>2 DEF State
    <3>6. Jobs!Submit(j)
      BY <3>1, <3>4, <3>5 DEF Jobs!Submit, Todo, Done, State
    <3> QED
      BY <3>1, <3>6 DEF Jobs!Next
  <2>2. CASE CollectResult
    <3>1. /\ Elements(results) = Elements(results') \cup {Head(results)}
          /\ collected' = collected \cup {Head(results)}
          /\ UNCHANGED <<requests, busy, main, closed>>
      BY <2>2, <2>a, TailRemoves DEF CollectResult, requestVars
    <3> QED
      BY <3>1 DEF Todo, Done, State, Busy, Elements
  <2>3. ASSUME NEW t \in Threads, LoopTakes(t)
        PROVE  Todo' = Todo /\ Done' = Done /\ State' = State
    <3>1. /\ requests # <<>> /\ requests' = Tail(requests) /\ busy[t] = 0
          /\ busy' = [busy EXCEPT ![t] = Head(requests)]
          /\ UNCHANGED <<results, collected, main, closed>>
      BY <2>3 DEF LoopTakes, InLoop, Requests!PopTakes, Requests!TakeFront
    <3>2. Elements(requests) = Elements(requests') \cup {Head(requests)}
      BY <2>a, <3>1, TailRemoves
    <3>3. Head(requests) # 0
      BY <2>a, <3>1, HeadTailProperties, EmptySeq
    <3>4. Busy' = Busy \cup {Head(requests)}
      BY <3>1, <3>3 DEF Busy, Placed
    <3> QED
      BY <3>1, <3>2, <3>4 DEF Todo, Done, State, Elements
  <2>4. ASSUME NEW t \in Threads, LoopAnswers(t) PROVE Jobs!Next
    <3> DEFINE j == busy[t]
    <3>1. /\ j # 0 /\ j \in Nat /\ j \in Busy /\ t \in Handling
          /\ results' = Append(results, j) /\ busy' = [busy EXCEPT ![t] = 0]
          /\ UNCHANGED <<requests, collected, main, closed>>
      BY <2>4 DEF LoopAnswers, WithResult, requestVars, Placed, Busy, Handling
    <3>2. Elements(results') = Elements(results) \cup {j}
      BY <2>a, <3>1, AppendAdds
    <3>3. \A u \in Handling : busy[u] = j => u = t
      BY <3>1 DEF Placed
    <3>4. Busy' = Busy \ {j}
      BY <3>1, <3>3 DEF Busy, Handling, Placed
    <3>5. j \notin Elements(requests) /\ j \in 1..MaxRequests
      <4>1. j \in 1..Len(taken)
        BY <3>1 DEF Placed
      <4> HIDE DEF j
      <4> QED
        BY <2>a, <4>1 DEF Elements
    <3>6. main # "done"
      BY <3>1 DEF Ending, Loops
    <3> HIDE DEF j
    <3>7. Todo' = Todo \ {j} /\ j \in Todo /\ Done' = Done \cup {j}
      BY <3>1, <3>2, <3>4, <3>5 DEF Todo, Done, Elements
    <3>8. State' = State /\ State # "ended"
      BY <3>1, <3>6 DEF State
    <3>9. Jobs!Do(j)
      BY <3>7, <3>8 DEF Jobs!Do, Todo, Done, State
    <3> QED
      BY <3>5, <3>9 DEF Jobs!Next
  <2>5. CASE CloseRequests
    <3>1. /\ ~closed /\ closed' /\ main = "close" /\ main' = "destroyPool"
          /\ UNCHANGED <<requests, busy, results, collected>>
      BY <2>5 DEF CloseRequests, Step, Requests!Close
    <3>2. Todo' = Todo /\ Done' = Done
      BY <3>1 DEF Todo, Done, Busy, Elements
    <3>3. State = "open" /\ State' = "stopping"
      BY <3>1 DEF State
    <3>4. Jobs!Stop
      BY <3>2, <3>3 DEF Jobs!Stop, Todo, Done, State
    <3> QED
      BY <3>4 DEF Jobs!Next
  <2>6. CASE JoinPool
    <3>1. /\ main = "destroyPool" /\ main' = "done" /\ closed
          /\ stage = "joining" /\ created \subseteq exited
          /\ UNCHANGED <<requests, closed, busy, results, collected>>
      BY <2>6 DEF JoinPool, Step, Pool!Join, Pool!AllJoined, requestVars, Ending
    <3>2. \A t \in Threads : t \in exited /\ running[t] = 0 /\ busy[t] = 0
      BY <3>1 DEF Ending, Loops
    <3>3. tasks = <<>> /\ asked > 0
      BY <3>1, <3>2, SomeThread DEF Ending
    <3>4. requests = <<>>
      BY <3>2, <3>3 DEF Loops, NothingLeftBehind, Requests!NothingLeftBehind
    <3>5. Todo = {}
      BY <3>2, <3>4, EmptySeq DEF Todo, Busy, Elements
    <3>6. Todo' = Todo /\ Done' = Done
      BY <3>1 DEF Todo, Done, Busy, Elements
    <3>7. State = "stopping" /\ State' = "ended"
      BY <3>1 DEF State
    <3>8. Jobs!End
      BY <3>5, <3>6, <3>7 DEF Jobs!End, Todo, Done, State
    <3> QED
      BY <3>8 DEF Jobs!Next
  <2>7. CASE ConstructPool \/ PushWorkerLoop \/ EndPool
    BY <2>7 DEF ConstructPool, PushWorkerLoop, EndPool, requestVars, Todo, Done, State,
                Busy, Elements
  <2>8. CASE StartRun \/ StopRun \/ DestroyPages
    BY <2>8 DEF StartRun, StopRun, DestroyPages, Step, requestVars, Todo, Done, State,
                Busy, Elements
  <2>9. ASSUME NEW t \in Threads, PoolStep(t) \/ LoopWaits(t) \/ LoopEnds(t) \/ Spurious(t)
        PROVE  Todo' = Todo /\ Done' = Done /\ State' = State
    <3>1. UNCHANGED <<requests, closed, busy, results, collected, main>>
      BY <2>9 DEF PoolStep, LoopWaits, LoopEnds, Spurious, requestVars,
           Requests!PopWaits, Requests!PopRefuses, Requests!SpuriousWakeup
    <3> QED
      BY <3>1 DEF Todo, Done, State, Busy, Elements
  <2>10. CASE UNCHANGED vars
    BY <2>10 DEF vars, requestVars, Todo, Done, State, Busy, Elements
  <2> QED
    BY <2>1, <2>2, <2>3, <2>4, <2>5, <2>6, <2>7, <2>8, <2>9, <2>10
       DEF Next, Construct, Destroy, ThreadStep, Terminated
<1>3. Queue!Spec => []Queue!TypeOK /\ []Queue!Numbered /\ []Queue!NothingLeftBehind
  BY Queue!TypeCorrect, Queue!AlwaysNumbered, Queue!CloseLosesNothing, LogicAssumption
<1>4. Queue!NothingLeftBehind => NothingLeftBehind
  BY SameQueue
<1> QED
  BY <1>1, <1>2, <1>3, <1>4, UsesQueue, AlwaysPlaced, EndingHolds, AlwaysConserved,
     PTL DEF Spec, Jobs!SafeSpec

\* Whatever the server does with requests is something that JobService may do: each is
\* done once, and the server ends only with all of them done.
THEOREM DoesJobs == ServerSpec => Jobs!SafeSpec
  BY LayerDoesJobs, RunsLogicLayer, PTL
===============================================================================
