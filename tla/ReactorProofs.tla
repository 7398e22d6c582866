---------------------------- MODULE ReactorProofs ----------------------------
(* Reactor for any numbers of clients, descriptors, logic threads and events   *)
(* in a batch: its types, that no connection is in the pipeline twice, whose   *)
(* the descriptor numbers are, and that it implements ConnectionLife.          *)
EXTENDS Reactor, SequenceTheorems, FiniteSetTheorems, TLAPS

------------------------------------------------------------------------------
(* Types of the helpers' results.                                              *)

ConnTable == [Conns -> ConnectionType]

\* A changed field of the right type leaves a table of Connection objects one.
LEMMA ConnFields ==
  ASSUME NEW cn \in ConnTable, NEW c \in Conns
  PROVE  /\ \A b \in BOOLEAN : /\ [cn EXCEPT ![c].processing = b] \in ConnTable
                               /\ [cn EXCEPT ![c].registered = b] \in ConnTable
                               /\ [cn EXCEPT ![c].due = b] \in ConnTable
         /\ \A n \in Nat : [cn EXCEPT ![c].left = n] \in ConnTable
         /\ \A n \in 0..MaxWriteRetry : [cn EXCEPT ![c].retries = n] \in ConnTable
         /\ \A n \in 0..BufferSize : [cn EXCEPT ![c].read = n] \in ConnTable
  BY DEF ConnTable, ConnectionType

\* ... and a changed field of a socket's record leaves a table of sockets one.
LEMMA SocketFields ==
  ASSUME NEW sk \in [Conns -> SocketType], NEW c \in Conns
  PROVE  /\ \A t \in {"none", "backlog", "open", "closed"} :
              [sk EXCEPT ![c].state = t] \in [Conns -> SocketType]
         /\ \A p \in {"up", "fin", "rst"} : [sk EXCEPT ![c].peer = p] \in [Conns -> SocketType]
         /\ \A n \in 0..BufferSize : [sk EXCEPT ![c].rx = n] \in [Conns -> SocketType]
         /\ \A n \in 0..SndBuf : [sk EXCEPT ![c].room = n] \in [Conns -> SocketType]
  BY DEF SocketType

LEMMA CloseFdTypes ==
  ASSUME TypeOK, NEW f \in Fds, CloseFd(f)
  PROVE  /\ sock' \in [Conns -> SocketType]
         /\ owner' \in [Fds -> Conns \cup Workers \cup {None}]
         /\ interest' \in [Fds -> {"none", "IN", "OUT"}]
         /\ rdy' \in SUBSET Fds
<1> USE DEF TypeOK, CloseFd
<1>1. ClosedSocket \in SocketType
  BY SizeAssumption DEF ClosedSocket, SocketType
<1>2. sock' \in [Conns -> SocketType]
  BY <1>1
<1> QED
  BY <1>2

LEMMA CloseConnectionTypes ==
  ASSUME TypeOK, NEW cn \in ConnTable, NEW f \in Fds, CloseConnection(cn, f)
  PROVE  /\ sock' \in [Conns -> SocketType]
         /\ owner' \in [Fds -> Conns \cup Workers \cup {None}]
         /\ interest' \in [Fds -> {"none", "IN", "OUT"}]
         /\ rdy' \in SUBSET Fds
         /\ conn' \in ConnTable
         /\ store' \in [Fds -> Conns \cup {None}]
<1>1. store' \in [Fds -> Conns \cup {None}]
  BY DEF TypeOK, CloseConnection
<1>2. CloseFd(f)
  BY DEF CloseConnection
<1>3. CASE store[f] = None
  BY <1>1, <1>2, <1>3, CloseFdTypes DEF CloseConnection
<1>4. CASE store[f] # None
  <2>1. store[f] \in Conns
    BY <1>4 DEF TypeOK
  <2>2. conn' = [cn EXCEPT ![store[f]].processing = FALSE,
                           ![store[f]].registered = FALSE]
    BY <1>4 DEF CloseConnection
  <2>3. conn' \in ConnTable
    BY <2>1, <2>2, ConnFields
  <2> QED
    BY <1>1, <1>2, <2>3, CloseFdTypes
<1> QED
  BY <1>3, <1>4

LEMMA UpdateTypes ==
  ASSUME TypeOK, NEW cn \in ConnTable, NEW c \in Conns, cn[c].fd \in Fds,
         NEW mask \in {"IN", "OUT"}, NEW r, UpdateConnectionEvents(cn, c, mask, r)
  PROVE  /\ sock' \in [Conns -> SocketType]
         /\ owner' \in [Fds -> Conns \cup Workers \cup {None}]
         /\ interest' \in [Fds -> {"none", "IN", "OUT"}]
         /\ rdy' \in SUBSET Fds
         /\ conn' \in ConnTable
         /\ store' \in [Fds -> Conns \cup {None}]
<1> DEFINE f == cn[c].fd
<1>1. CASE conn' = cn /\ UNCHANGED <<socketVars, store>>
  BY <1>1 DEF TypeOK, socketVars
<1>2. CASE /\ Control(f, mask)
           /\ conn' = [cn EXCEPT ![c].registered = TRUE]
           /\ UNCHANGED <<sock, owner, store>>
  <2>1. conn' \in ConnTable
    BY <1>2, ConnFields
  <2> QED
    BY <1>2, <2>1 DEF TypeOK, Control
<1> QED
  BY <1>1, <1>2 DEF UpdateConnectionEvents

------------------------------------------------------------------------------
(* Queues of connections.                                                      *)

\* What a push adds to a queue.
LEMMA PushedQueue ==
  ASSUME NEW q \in Seq(Conns), NEW c \in Conns
  PROVE  /\ Append(q, c) \in Seq(Conns)
         /\ Elements(Append(q, c)) = Elements(q) \cup {c}
         /\ NoRepeats(q) /\ c \notin Elements(q) => NoRepeats(Append(q, c))
<1> DEFINE r == Append(q, c)
<1>1. /\ r \in Seq(Conns)
      /\ Len(r) = Len(q) + 1
      /\ \A i \in 1..Len(q) : r[i] = q[i]
      /\ r[Len(q) + 1] = c
  BY AppendProperties
<1>2. Len(q) \in Nat /\ DOMAIN q = 1..Len(q) /\ DOMAIN r = 1..(Len(q) + 1)
  BY <1>1, LenProperties
<1> HIDE DEF r
<1>3. Elements(r) = Elements(q) \cup {c}
  BY <1>1, <1>2 DEF Elements
<1>4. NoRepeats(q) /\ c \notin Elements(q) => NoRepeats(r)
  BY <1>1, <1>2 DEF Elements, NoRepeats
<1> QED
  BY <1>1, <1>3, <1>4 DEF r

\* What a pop leaves in a queue.
LEMMA PoppedQueue ==
  ASSUME NEW q \in Seq(Conns), q # <<>>
  PROVE  /\ Head(q) \in Conns
         /\ Head(q) \in Elements(q)
         /\ Popped(q) \in Seq(Conns)
         /\ Elements(q) = Elements(Popped(q)) \cup {Head(q)}
         /\ NoRepeats(q) => NoRepeats(Popped(q)) /\ Head(q) \notin Elements(Popped(q))
<1> DEFINE r == Tail(q)
<1>1. /\ Head(q) \in Conns /\ r \in Seq(Conns)
      /\ Len(r) = Len(q) - 1
      /\ \A i \in 1..Len(r) : r[i] = q[i + 1]
  BY HeadTailProperties
<1>2. /\ Len(q) \in Nat \ {0} /\ DOMAIN q = 1..Len(q) /\ DOMAIN r = 1..(Len(q) - 1)
      /\ Head(q) = q[1]
  BY <1>1, EmptySeq, LenProperties
<1> HIDE DEF r
<1>3. \A i \in DOMAIN r : i + 1 \in DOMAIN q /\ r[i] = q[i + 1]
  BY <1>1, <1>2
<1>4. \A i \in DOMAIN q : i = 1 \/ (i - 1 \in DOMAIN r /\ q[i] = r[i - 1])
  BY <1>1, <1>2
<1>5. Elements(q) = Elements(r) \cup {Head(q)}
  BY <1>2, <1>3, <1>4 DEF Elements
<1>6. NoRepeats(q) => NoRepeats(r) /\ Head(q) \notin Elements(r)
  BY <1>2, <1>3 DEF Elements, NoRepeats
<1> QED
  BY <1>1, <1>5, <1>6 DEF r, Popped

------------------------------------------------------------------------------
(* Type correctness.                                                           *)

Accepted(c) == sock[c].state \in {"open", "closed"}

\* Whoever is about to use a connection's number finds one: connections in the
\* table, in the main thread's hands, in its snapshot and in the pipeline have
\* a number, which only accepted clients get.  A logic thread knows its connection and its database socket.
Located ==
  /\ \A c \in Conns : conn[c].fd \in Fds => Accepted(c)
  /\ \A f \in Fds : store[f] # None => conn[store[f]].fd = f
  /\ pc \in {"parse", "flush", "arm", "unarmed"} => cur \in Conns /\ conn[cur].fd \in Fds
  /\ \A c \in snapshot : conn[c].fd \in Fds
  /\ \A c \in Conns : AtLogic(c) => conn[c].fd \in Fds
  /\ \A w \in Workers : worker[w].phase = "db" => worker[w].fd \in Fds
  /\ \A w \in Workers : worker[w].phase = "idle" <=> worker[w].conn = None

\* A closed number's client stays accepted.
LEMMA CloseFdAccepted ==
  ASSUME TypeOK, NEW f \in Fds, CloseFd(f)
  PROVE  \A c \in Conns : Accepted(c) => Accepted(c)'
  BY DEF TypeOK, CloseFd, Accepted, ClosedSocket

\* The numbers of connections and the table after a CloseConnection.
LEMMA CloseConnectionEffect ==
  ASSUME TypeOK, NEW cn \in ConnTable, NEW f \in Fds, CloseConnection(cn, f)
  PROVE  /\ \A c \in Conns : conn'[c].fd = cn[c].fd
         /\ \A g \in Fds : store'[g] = IF g = f THEN None ELSE store[g]
         /\ \A c \in Conns : Accepted(c) => Accepted(c)'
<1>1. CloseFd(f)
  BY DEF CloseConnection
<1>2. \A c \in Conns : Accepted(c) => Accepted(c)'
  BY <1>1, CloseFdAccepted
<1> QED
  BY <1>2 DEF TypeOK, ConnTable, ConnectionType, CloseConnection

\* ... and after an UpdateConnectionEvents, and where the main thread goes then.
LEMMA UpdateEffect ==
  ASSUME TypeOK, NEW cn \in ConnTable, NEW c \in Conns,
         NEW mask, NEW r, UpdateConnectionEvents(cn, c, mask, r)
  PROVE  /\ \A d \in Conns : conn'[d].fd = cn[d].fd
         /\ UNCHANGED <<sock, store>>
         /\ \/ pc' = r /\ cur' = None /\ ret' = "events"
            \/ pc' = "unarmed" /\ cur' = c /\ ret' = r
<1>1. CASE conn' = cn
  BY <1>1 DEF UpdateConnectionEvents, GoOn, socketVars
<1>2. CASE conn' = [cn EXCEPT ![c].registered = TRUE]
  BY <1>2 DEF ConnTable, ConnectionType, UpdateConnectionEvents, GoOn, socketVars
<1> QED
  BY <1>1, <1>2 DEF UpdateConnectionEvents

\* A step that leaves the queues and threads alone, renumbers no connection and
\* at most empties places of the table keeps Located, if what it takes in hand
\* was located.
LEMMA LocatedKept ==
  ASSUME TypeOK, Located,
         \A c \in Conns : conn'[c].fd = conn[c].fd,
         \A f \in Fds : store'[f] \in {None, store[f]},
         \A c \in Conns : Accepted(c) => Accepted(c)',
         UNCHANGED queueVars,
         snapshot' \subseteq snapshot,
         pc' \in {"parse", "flush", "arm", "unarmed"} => cur' \in Conns /\ conn[cur'].fd \in Fds
  PROVE  Located'
  BY DEF TypeOK, Located, queueVars, AtLogic, AtWorker

\* The quiet steps: they move the main thread on, or change a field of a socket
\* or a timer, and leave connections, table, queues and threads as they are.
LEMMA QuietSteps ==
  ASSUME TypeOK, Located,
         \/ DrainDone \/ EpollWait \/ BatchDone \/ HandleSignalEvent \/ ListenEvent
         \/ AcceptDone \/ TimerDone \/ FlushBlocked \/ FlushNothing
         \/ TimerExpires \/ SignalArrives
         \/ \E f \in Fds : IgnoreEvent(f)
         \/ \E c \in Conns : ClientStep(c) \/ TimerSkip(c)
  PROVE  TypeOK' /\ Located'
<1> USE DEF kernelVars, socketVars, queueVars, loopVars, serverVars
<1> DEFINE Quiet == UNCHANGED <<store, conn, requests, results, worker>>
<1>1. CASE DrainDone \/ BatchDone \/ ListenEvent \/ AcceptDone \/ TimerDone
           \/ FlushBlocked \/ FlushNothing
  <2>1. TypeOK'
    BY <1>1 DEF DrainDone, BatchDone, ListenEvent, AcceptDone, TimerDone,
       FlushBlocked, FlushNothing, TakeEvent, TypeOK, Drained, Labels, Events
  <2>2. /\ UNCHANGED <<sock, store, conn, queueVars, cur, snapshot>>
        /\ pc' \in {"parse", "flush", "arm", "unarmed"} => pc \in {"parse", "flush", "arm", "unarmed"}
    BY <1>1 DEF DrainDone, BatchDone, ListenEvent, AcceptDone, TimerDone,
       FlushBlocked, FlushNothing, TakeEvent
  <2> QED
    BY <2>1, <2>2, LocatedKept DEF Located, Accepted
<1>2. CASE HandleSignalEvent \/ TimerExpires \/ SignalArrives
  BY <1>2, LocatedKept DEF HandleSignalEvent, TimerExpires, SignalArrives, TakeEvent,
     TypeOK, Events, Located, Accepted
<1>3. CASE \/ \E f \in Fds : IgnoreEvent(f)
           \/ \E c \in Conns : TimerSkip(c)
  <2>1. /\ TypeOK'
        /\ UNCHANGED <<sock, store, conn, queueVars, pc, cur>>
        /\ snapshot' \subseteq snapshot
    BY <1>3 DEF IgnoreEvent, TimerSkip, TakeEvent, TypeOK, Events
  <2> QED
    BY <2>1, LocatedKept DEF Located, Accepted
<1>4. CASE EpollWait
  <2>1. \A f \in Fds : Poll(f) \in Events
    BY DEF Poll, SocketEvent, Events
  <2>2. PICK S \in SUBSET ReadySources :
          batch' = [s \in Sources |-> IF s \notin S THEN "none"
                                      ELSE IF s \in Fds THEN Poll(s) ELSE "IN"]
    BY <1>4 DEF EpollWait
  <2>3. batch' \in [Sources -> Events]
    BY <2>1, <2>2 DEF Events
  <2>4. rdy' \in SUBSET Fds
    BY <1>4 DEF EpollWait, TypeOK
  <2>5. TypeOK'
    BY <1>4, <2>3, <2>4 DEF EpollWait, TypeOK, Labels, Drained
  <2> QED
    BY <1>4, <2>5, LocatedKept DEF EpollWait, Located, Accepted
<1>5. CASE \E c \in Conns : ClientStep(c)
  <2>1. PICK c \in Conns : ClientStep(c)
    BY <1>5
  <2>2. /\ sock \in [Conns -> SocketType]
        /\ sock[c].rx \in 0..BufferSize /\ sock[c].room \in 0..SndBuf
        /\ conn[c].read \in Nat
    <3>1. sock \in [Conns -> SocketType] /\ conn \in [Conns -> ConnectionType]
      BY DEF TypeOK
    <3>2. sock[c].rx \in 0..BufferSize /\ sock[c].room \in 0..SndBuf
      BY <3>1 DEF SocketType
    <3>3. conn[c].read \in Nat
      BY <3>1, SizeAssumption DEF ConnectionType
    <3> QED
      BY <3>1, <3>2, <3>3
  <2>3. sock' \in [Conns -> SocketType]
    <3>1. CASE Connect(c)
      BY <2>2, <3>1, SocketFields DEF Connect
    <3>2. CASE ClientHangup(c)
      <4>1. PICK p \in {"up", "fin", "rst"} : sock' = [sock EXCEPT ![c].peer = p]
        BY <3>2 DEF ClientHangup
      <4> QED
        BY <2>2, <4>1, SocketFields
    <3>3. CASE ClientSend(c)
      <4>1. sock[c].rx + 1 \in 0..BufferSize
        BY <2>2, <3>3, SizeAssumption DEF ClientSend
      <4> QED
        BY <2>2, <3>3, <4>1, SocketFields DEF ClientSend
    <3>4. CASE ClientReceive(c)
      <4>1. sock[c].room + 1 \in 0..SndBuf
        BY <2>2, <3>4, SizeAssumption DEF ClientReceive
      <4> QED
        BY <2>2, <3>4, <4>1, SocketFields DEF ClientReceive
    <3> QED
      BY <2>1, <3>1, <3>2, <3>3, <3>4 DEF ClientStep
  <2>4. rdy' \in SUBSET Fds
    BY <2>1 DEF ClientStep, Connect, ClientSend, ClientHangup, ClientReceive, Wakeup, TypeOK
  <2>5. UNCHANGED <<owner, interest, timerUp, sigUp, serverVars>>
    BY <2>1 DEF ClientStep, Connect, ClientSend, ClientHangup, ClientReceive
  <2>6. TypeOK'
    BY <2>3, <2>4, <2>5 DEF TypeOK
  <2>7. \A d \in Conns : Accepted(d) => Accepted(d)'
    BY <2>1, <2>2 DEF ClientStep, Connect, ClientSend, ClientHangup, ClientReceive, Accepted,
       SocketType
  <2> QED
    BY <2>5, <2>6, <2>7, LocatedKept DEF Located
<1> QED
  BY <1>1, <1>2, <1>3, <1>4, <1>5

\* Closing a connection by number.
LEMMA ClosingSteps ==
  ASSUME TypeOK, Located,
         \/ FlushFails \/ CloseUnarmed
         \/ \E f \in Fds : HangupEvent(f) \/ DispatchReadFails(f)
         \/ \E c \in Conns : TimerGiveUp(c)
  PROVE  TypeOK' /\ Located'
<1>1. PICK f \in Fds : CloseConnection(conn, f)
  BY DEF FlushFails, CloseUnarmed, HangupEvent, DispatchReadFails, TimerGiveUp, Located, TypeOK
<1>2. conn \in ConnTable
  BY DEF TypeOK, ConnTable
<1>3. /\ pc' \in Labels \ {"parse", "flush", "arm", "unarmed"}
      /\ ret' \in {ret, "events"} /\ cur' \in {cur, None} /\ running' = running
      /\ snapshot' \subseteq snapshot
      /\ batch' \in [Sources -> Events]
      /\ UNCHANGED <<timerUp, sigUp, queueVars, received>>
  BY DEF FlushFails, CloseUnarmed, GoOn, HangupEvent, DispatchReadFails, TimerGiveUp,
         TakeEvent, TypeOK, Labels, Drained, Events
<1>4. TypeOK'
  BY <1>1, <1>2, <1>3, CloseConnectionTypes DEF TypeOK, ConnTable, queueVars
<1>5. Located'
  BY <1>1, <1>2, <1>3, CloseConnectionEffect, LocatedKept
<1> QED
  BY <1>4, <1>5

\* Arming a connection in epoll.
LEMMA ArmingSteps ==
  ASSUME TypeOK, Located, ParseIncomplete \/ ArmConnection
  PROVE  TypeOK' /\ Located'
<1>1. cur \in Conns /\ conn[cur].fd \in Fds /\ conn \in ConnTable
  BY DEF ParseIncomplete, ArmConnection, Located, TypeOK, ConnTable
<1>2. PICK cn \in ConnTable, mask \in {"IN", "OUT"}, r \in Drained \cup {"events", "timer", "accept"} :
        /\ UpdateConnectionEvents(cn, cur, mask, r)
        /\ \A c \in Conns : cn[c].fd = conn[c].fd
  <2>1. CASE ParseIncomplete
    <3>1. Unmarked(cur) \in ConnTable
      BY <1>1, ConnFields DEF Unmarked
    <3>2. \A c \in Conns : Unmarked(cur)[c].fd = conn[c].fd
      BY <1>1 DEF Unmarked, ConnTable, ConnectionType
    <3> QED
      BY <2>1, <3>1, <3>2 DEF ParseIncomplete
  <2>2. CASE ArmConnection
    BY <1>1, <2>2 DEF ArmConnection, ArmMask, TypeOK
  <2> QED
    BY <2>1, <2>2
<1>3. UNCHANGED <<timerUp, sigUp, queueVars, snapshot, batch, running, received>>
  BY DEF ParseIncomplete, ArmConnection
<1>4. /\ \A d \in Conns : conn'[d].fd = cn[d].fd
      /\ UNCHANGED <<sock, store>>
      /\ \/ pc' = r /\ cur' = None /\ ret' = "events"
         \/ pc' = "unarmed" /\ cur' = cur /\ ret' = r
  BY <1>1, <1>2, UpdateEffect
<1>5. /\ sock' \in [Conns -> SocketType]
      /\ owner' \in [Fds -> Conns \cup Workers \cup {None}]
      /\ interest' \in [Fds -> {"none", "IN", "OUT"}]
      /\ rdy' \in SUBSET Fds
      /\ conn' \in ConnTable
      /\ store' \in [Fds -> Conns \cup {None}]
  BY <1>1, <1>2, UpdateTypes
<1>6. TypeOK'
  BY <1>1, <1>3, <1>4, <1>5 DEF TypeOK, ConnTable, queueVars, Labels, Drained
<1>7. Located'
  BY <1>1, <1>2, <1>3, <1>4, LocatedKept DEF Accepted, Drained
<1> QED
  BY <1>6, <1>7

\* A response set up on a connection.
LEMMA QueueResponseTypes ==
  ASSUME TypeOK, NEW c \in Conns, NEW r, QueueResponse(c, r)
  PROVE  /\ conn' \in ConnTable
         /\ \A d \in Conns : conn'[d].fd = conn[d].fd
<1>1. PICK n \in RespLens :
        conn' = [conn EXCEPT ![c].left = n, ![c].retries = 0, ![c].due = FALSE,
                             ![c].processing = FALSE]
  BY DEF QueueResponse
<1>2. n \in Nat /\ 0 \in 0..MaxWriteRetry
  BY SizeAssumption
<1>3. conn \in ConnTable /\ conn[c] \in ConnectionType
  BY DEF TypeOK, ConnTable
<1>4. [conn[c] EXCEPT !.left = n, !.retries = 0, !.due = FALSE, !.processing = FALSE]
        \in ConnectionType
  BY <1>2, <1>3 DEF ConnectionType
<1>5. conn' = [conn EXCEPT ![c] = [conn[c] EXCEPT !.left = n, !.retries = 0, !.due = FALSE,
                                                  !.processing = FALSE]]
  BY <1>1, <1>3 DEF ConnTable
<1>6. \A d \in Conns : conn'[d].fd = conn[d].fd
  BY <1>3, <1>5 DEF ConnTable, ConnectionType
<1> QED
  BY <1>3, <1>4, <1>5, <1>6 DEF ConnTable

\* Steps that lead to TryFlushPendingResponse.
LEMMA FlushingSteps ==
  ASSUME TypeOK, Located,
         \/ ParseBad \/ HandleLogicResult
         \/ \E f \in Fds : WritableEvent(f)
         \/ \E c \in Conns : TimerRetry(c)
  PROVE  TypeOK' /\ Located'
<1> USE DEF kernelVars, socketVars, queueVars
<1>1. CASE ParseBad
  <2>1. cur \in Conns /\ conn[cur].fd \in Fds /\ QueueResponse(cur, "events")
    BY <1>1 DEF ParseBad, Located
  <2>2. /\ cur' = cur /\ pc' = "flush" /\ ret' = "events"
        /\ UNCHANGED <<kernelVars, store, queueVars, snapshot, batch, running, received>>
    BY <1>1 DEF ParseBad, QueueResponse
  <2>3. TypeOK'
    BY <2>1, <2>2, QueueResponseTypes DEF TypeOK, ConnTable, Labels
  <2> QED
    BY <2>1, <2>2, <2>3, QueueResponseTypes, LocatedKept DEF Accepted
<1>2. CASE HandleLogicResult
  <2> DEFINE c == Head(results)
  <2>1. /\ c \in Conns
        /\ c \in Elements(results)
        /\ results' \in Seq(Conns)
        /\ Elements(results') \subseteq Elements(results)
    BY <1>2, PoppedQueue DEF HandleLogicResult, TypeOK
  <2>2. QueueResponse(c, pc) /\ pc \in Drained
    BY <1>2 DEF HandleLogicResult
  <2>3. /\ cur' = c /\ pc' = "flush" /\ ret' = pc
        /\ UNCHANGED <<kernelVars, store, requests, worker, snapshot, batch, running, received>>
    BY <1>2 DEF HandleLogicResult, QueueResponse
  <2>4. conn[c].fd \in Fds
    BY <2>1 DEF Located, AtLogic
  <2> HIDE DEF c
  <2>5. TypeOK'
    BY <2>1, <2>2, <2>3, QueueResponseTypes DEF TypeOK, ConnTable, Labels
  <2> QED
    BY <2>1, <2>2, <2>3, <2>4, <2>5, QueueResponseTypes
    DEF Located, AtLogic, AtWorker, TypeOK, Accepted
<1>3. CASE \E f \in Fds : WritableEvent(f)
  <2>1. PICK f \in Fds : WritableEvent(f)
    BY <1>3
  <2>2. TypeOK'
    BY <2>1 DEF WritableEvent, TakeEvent, FlushConnection, TypeOK, Events, Labels
  <2>3. pc' = "flush" => cur' \in Conns /\ conn[cur'].fd \in Fds
    BY <2>1 DEF WritableEvent, TakeEvent, FlushConnection, TypeOK, Located
  <2>4. pc' \in {"flush", "events"}
    BY <2>1 DEF WritableEvent, TakeEvent, FlushConnection
  <2> QED
    BY <2>1, <2>2, <2>3, <2>4, LocatedKept DEF WritableEvent, Accepted
<1>4. CASE \E c \in Conns : TimerRetry(c)
  <2>1. PICK c \in Conns : TimerRetry(c)
    BY <1>4
  <2>2. conn[c] \in ConnectionType /\ conn[c].fd \in Fds
    BY <2>1 DEF TimerRetry, Retried, TypeOK, Located
  <2>3. conn[c].retries + 1 \in 0..MaxWriteRetry
    BY <2>1, <2>2, SizeAssumption DEF TimerRetry, Retried, BudgetSpent, ConnectionType
  <2>4. conn' \in ConnTable /\ \A d \in Conns : conn'[d].fd = conn[d].fd
    BY <2>1, <2>2, <2>3 DEF TimerRetry, Retried, TypeOK, ConnTable, ConnectionType
  <2>5. /\ pc' \in {"flush", "timer"}
        /\ pc' = "flush" => cur' \in Conns /\ conn[cur'].fd \in Fds
        /\ cur' \in Conns \cup {None}
        /\ ret' \in {ret, "timer"}
    BY <2>1, <2>2 DEF TimerRetry, Retried, FlushConnection, TypeOK, Located
  <2>6. /\ snapshot' \subseteq snapshot
        /\ UNCHANGED <<kernelVars, store, queueVars, batch, running, received>>
    BY <2>1 DEF TimerRetry, Retried
  <2>7. TypeOK'
    BY <2>4, <2>5, <2>6 DEF TypeOK, ConnTable, Labels
  <2> QED
    BY <2>4, <2>5, <2>6, <2>7, LocatedKept DEF Accepted
<1> QED
  BY <1>1, <1>2, <1>3, <1>4

\* One send() on the pending response.
LEMMA SendStep ==
  ASSUME TypeOK, Located, FlushSend
  PROVE  TypeOK' /\ Located'
<1> DEFINE cn == [conn EXCEPT ![cur].left = 0, ![cur].retries = 0, ![cur].due = FALSE]
<1>1. /\ cur \in Conns /\ conn[cur].fd \in Fds /\ conn[cur] \in ConnectionType
      /\ conn \in ConnTable
      /\ Target \in Conns \cup Workers
      /\ Target \in Conns => sock[Target].room \in 0..SndBuf
      /\ sock \in [Conns -> SocketType]
  BY DEF FlushSend, Target, Located, TypeOK, ConnTable, SocketType
<1>0. 0 \in Nat /\ 0 \in 0..MaxWriteRetry /\ 0 \in 0..SndBuf
  BY SizeAssumption
<1>2. received' \in [Conns \cup Workers -> SUBSET Conns]
  BY <1>1 DEF FlushSend, GoOn, TypeOK
<1>3. CASE Target \in Conns => conn[cur].left <= sock[Target].room
  <2>1. CloseConnection(cn, conn[cur].fd) /\ pc' = ret
    BY <1>3 DEF FlushSend, GoOn
  <2>2. cn = [conn EXCEPT ![cur] = [conn[cur] EXCEPT !.left = 0, !.retries = 0, !.due = FALSE]]
    BY <1>1 DEF ConnTable
  <2>3. [conn[cur] EXCEPT !.left = 0, !.retries = 0, !.due = FALSE] \in ConnectionType
    BY <1>0, <1>1 DEF ConnectionType
  <2>4. cn \in ConnTable /\ \A d \in Conns : cn[d].fd = conn[d].fd
    BY <1>1, <2>2, <2>3 DEF ConnTable, ConnectionType
  <2> HIDE DEF cn
  <2>5. TypeOK'
    BY <1>1, <1>2, <2>1, <2>4, CloseConnectionTypes
    DEF FlushSend, GoOn, TypeOK, ConnTable, queueVars, Labels, Drained
  <2>6. pc' \notin {"parse", "flush", "arm", "unarmed"}
    BY <2>1 DEF TypeOK, Drained
  <2> QED
    BY <1>1, <2>1, <2>4, <2>5, <2>6, CloseConnectionEffect, LocatedKept DEF FlushSend, GoOn
<1>4. CASE ~(Target \in Conns => conn[cur].left <= sock[Target].room)
  <2> DEFINE n == conn[cur].left - sock[Target].room
  <2>1. n \in Nat
    BY <1>1, <1>4, SizeAssumption DEF ConnectionType
  <2>2. conn' = [conn EXCEPT ![cur] = [conn[cur] EXCEPT !.left = n, !.retries = 0,
                                                        !.due = FALSE]]
    BY <1>1, <1>4 DEF FlushSend, ConnTable
  <2>3. [conn[cur] EXCEPT !.left = n, !.retries = 0, !.due = FALSE] \in ConnectionType
    BY <1>0, <1>1, <2>1 DEF ConnectionType
  <2> HIDE DEF n
  <2>4. conn' \in ConnTable /\ \A d \in Conns : conn'[d].fd = conn[d].fd
    BY <1>1, <2>2, <2>3 DEF ConnTable, ConnectionType
  <2>5. sock' \in [Conns -> SocketType]
    <3>1. sock' = [sock EXCEPT ![Target].room = 0]
      BY <1>4 DEF FlushSend
    <3> QED
      BY <1>0, <1>1, <3>1, SocketFields
  <2>6. TypeOK'
    BY <1>2, <1>4, <2>4, <2>5 DEF FlushSend, GoOn, TypeOK, ConnTable, queueVars
  <2> QED
    <3>1. \A d \in Conns : Accepted(d) => Accepted(d)'
      BY <1>1, <1>4 DEF FlushSend, GoOn, Accepted, SocketType
    <3> QED
      BY <1>1, <1>4, <2>4, <2>6, <3>1, LocatedKept DEF FlushSend, GoOn
<1> QED
  BY <1>3, <1>4

\* Reading a connection and handing its request over; the timer's snapshot; the
\* passing of a deadline.
LEMMA ReadingSteps ==
  ASSUME TypeOK, Located,
         \/ ParseComplete \/ HandleTimerEvent
         \/ \E f \in Fds : DispatchRead(f)
         \/ \E c \in Conns : DeadlinePasses(c)
  PROVE  TypeOK' /\ Located'
<1> USE DEF kernelVars, socketVars, queueVars, loopVars
<1>1. CASE \E f \in Fds : DispatchRead(f)
  <2>1. PICK f \in Fds : DispatchRead(f)
    BY <1>1
  <2> DEFINE c == store[f]
  <2>0. PICK n \in Reads(f, conn[c].read) : conn' = Taken(c, n)
    BY <2>1 DEF DispatchRead
  <2>2. /\ c \in Conns /\ conn[c] \in ConnectionType /\ conn[c].fd = f
        /\ conn \in ConnTable
        /\ n \in 0..BufferSize
        /\ sock \in [Conns -> SocketType]
    BY <2>1 DEF DispatchRead, Reads, TypeOK, ConnTable, SocketType, Located
  <2>3. conn[c].read + n \in 0..BufferSize
    BY <2>2, SizeAssumption DEF Reads, ConnectionType
  <2>4. conn' = [conn EXCEPT ![c] = [conn[c] EXCEPT !.processing = TRUE, !.registered = FALSE,
                                                    !.read = @ + n]]
    BY <2>0, <2>2 DEF Taken, ConnTable
  <2>5. [conn[c] EXCEPT !.processing = TRUE, !.registered = FALSE, !.read = @ + n]
          \in ConnectionType
    BY <2>2, <2>3 DEF ConnectionType
  <2>6. conn' \in ConnTable /\ \A d \in Conns : conn'[d].fd = conn[d].fd
    BY <2>2, <2>4, <2>5 DEF ConnTable, ConnectionType
  <2>7. sock' \in [Conns -> SocketType]
    <3>1. CASE owner[f] \in Conns
      <4>1. sock' = [sock EXCEPT ![owner[f]].rx = 0]
        BY <2>1, <3>1 DEF DispatchRead
      <4>2. 0 \in 0..BufferSize
        BY SizeAssumption
      <4> QED
        BY <2>2, <3>1, <4>1, <4>2 DEF SocketType
    <3>2. CASE owner[f] \notin Conns
      BY <2>1, <2>2, <3>2 DEF DispatchRead
    <3> QED
      BY <3>1, <3>2
  <2>8. /\ cur' = c /\ pc' = "parse"
        /\ batch' \in [Sources -> Events]
        /\ interest' \in [Fds -> {"none", "IN", "OUT"}] /\ rdy' \in SUBSET Fds
        /\ UNCHANGED <<owner, timerUp, sigUp, store, queueVars, ret, snapshot, running,
                       received>>
    <3>1. batch' \in [Sources -> Events]
      BY <2>1 DEF DispatchRead, TakeEvent, TypeOK, Events
    <3>2. interest' \in [Fds -> {"none", "IN", "OUT"}] /\ rdy' \in SUBSET Fds
      BY <2>1 DEF DispatchRead, EpollDel, TypeOK
    <3> QED
      BY <2>1, <3>1, <3>2 DEF DispatchRead
  <2> HIDE DEF c
  <2>9. TypeOK'
    BY <2>2, <2>6, <2>7, <2>8 DEF TypeOK, ConnTable, Labels
  <2> QED
    <3>1. \A d \in Conns : Accepted(d) => Accepted(d)'
      BY <2>1 DEF DispatchRead, Accepted, TypeOK, SocketType
    <3> QED
      BY <2>2, <2>6, <2>8, <2>9, <3>1, LocatedKept
<1>2. CASE ParseComplete
  <2>1. cur \in Conns /\ conn[cur].fd \in Fds
    BY <1>2 DEF ParseComplete, Located
  <2>2. /\ requests' \in Seq(Conns)
        /\ Elements(requests') = Elements(requests) \cup {cur}
    BY <1>2, <2>1, PushedQueue DEF ParseComplete, GoOn, TypeOK
  <2>3. TypeOK'
    BY <1>2, <2>1, <2>2 DEF ParseComplete, GoOn, TypeOK, Labels
  <2> QED
    BY <1>2, <2>1, <2>2, <2>3 DEF ParseComplete, GoOn, Located, AtLogic, AtWorker, Accepted
<1>3. CASE HandleTimerEvent
  <2>1. snapshot' \in SUBSET Conns
    BY <1>3 DEF HandleTimerEvent, Stored, TypeOK
  <2>3. batch' \in [Sources -> Events]
    BY <1>3 DEF HandleTimerEvent, Stored, TakeEvent, TypeOK, Events
  <2>4. TypeOK'
    BY <1>3, <2>1, <2>3 DEF HandleTimerEvent, Stored, TypeOK, Labels
  <2>2. \A c \in snapshot' : conn[c].fd \in Fds
    BY <1>3 DEF HandleTimerEvent, Stored, TypeOK, Located
  <2> QED
    BY <1>3, <2>2, <2>4 DEF HandleTimerEvent, Stored, TakeEvent, Located, AtLogic, AtWorker, Accepted
<1>4. CASE \E c \in Conns : DeadlinePasses(c)
  <2>1. PICK c \in Conns : DeadlinePasses(c)
    BY <1>4
  <2>2. /\ conn' \in ConnTable
        /\ \A d \in Conns : conn'[d].fd = conn[d].fd
    <3>1. conn' = [conn EXCEPT ![c].due = TRUE] /\ conn \in ConnTable
      BY <2>1 DEF DeadlinePasses, TypeOK, ConnTable
    <3>2. conn' \in ConnTable
      BY <3>1, ConnFields
    <3> QED
      BY <3>1, <3>2 DEF ConnTable, ConnectionType
  <2>3. UNCHANGED <<kernelVars, store, queueVars, loopVars, received>>
    BY <2>1 DEF DeadlinePasses
  <2>4. TypeOK'
    BY <2>2, <2>3 DEF TypeOK, ConnTable
  <2> QED
    BY <2>2, <2>3, <2>4, LocatedKept DEF Located, Accepted
<1> QED
  BY <1>1, <1>2, <1>3, <1>4

\* A client is accepted.
LEMMA AcceptStep ==
  ASSUME TypeOK, Located, AcceptOne
  PROVE  TypeOK' /\ Located'
<1> USE DEF queueVars
<1>1. PICK c \in Backlog, f \in Fds :
        /\ sock' = [sock EXCEPT ![c].state = "open"]
        /\ owner' = [owner EXCEPT ![f] = c]
        /\ store' = [store EXCEPT ![f] = c]
        /\ conn' = [conn EXCEPT ![c] = NewConnection(f)]
        /\ cur' = c
  BY DEF AcceptOne
<1>2. c \in Conns /\ ~Accepted(c)
  BY DEF Backlog, Accepted
<1>3. NewConnection(f) \in ConnectionType
  BY SizeAssumption DEF NewConnection, ConnectionType
<1>4. conn' \in ConnTable
  BY <1>1, <1>2, <1>3 DEF TypeOK, ConnTable
<1>5. sock \in [Conns -> SocketType]
  BY DEF TypeOK
<1>6. sock' \in [Conns -> SocketType]
  BY <1>1, <1>2, <1>5, SocketFields
<1>7. TypeOK'
  BY <1>1, <1>2, <1>4, <1>6 DEF AcceptOne, TypeOK, ConnTable, Labels
<1>8. \A d \in Conns : (Accepted(d) => Accepted(d)') /\ Accepted(c)'
  BY <1>1, <1>2 DEF Accepted, TypeOK, SocketType
<1>9. \A d \in Conns : conn'[d].fd = IF d = c THEN f ELSE conn[d].fd
  BY <1>1, <1>2, NameAssumption DEF TypeOK, NewConnection
<1>10. \A g \in Fds : store'[g] = IF g = f THEN c ELSE store[g]
  BY <1>1 DEF TypeOK
<1>11. \A d \in Conns : conn[d].fd \in Fds => d # c
  BY <1>2 DEF Located
<1>12. \A g \in Fds : store[g] # None => store[g] # c /\ store[g] \in Conns
  BY <1>11 DEF Located, TypeOK
<1>13. Located'
  BY <1>1, <1>2, <1>8, <1>9, <1>10, <1>11, <1>12
  DEF AcceptOne, Located, AtLogic, AtWorker, TypeOK
<1> QED
  BY <1>7, <1>13

\* The logic threads.
LEMMA WorkerSteps ==
  ASSUME TypeOK, Located, NEW w \in Workers, WorkerStep(w)
  PROVE  TypeOK' /\ Located'
<1> USE DEF kernelVars, loopVars
<1>1. worker \in [Workers -> WorkerType] /\ worker[w] \in WorkerType
  BY DEF TypeOK
<1>2. CASE WorkerTake(w)
  <2> DEFINE c == Head(requests)
  <2>1. /\ c \in Conns /\ c \in Elements(requests)
        /\ requests' \in Seq(Conns) /\ Elements(requests') \subseteq Elements(requests)
    BY <1>2, PoppedQueue DEF WorkerTake, TypeOK
  <2>2. worker' = [worker EXCEPT ![w].phase = "resolve", ![w].conn = c]
    BY <1>2 DEF WorkerTake
  <2> HIDE DEF c
  <2>3. worker' \in [Workers -> WorkerType]
    BY <1>1, <2>1, <2>2 DEF WorkerType
  <2>4. TypeOK'
    BY <1>2, <2>1, <2>3 DEF WorkerTake, TypeOK
  <2>5. \A v \in Workers : worker'[v] = IF v = w THEN [worker[w] EXCEPT !.phase = "resolve",
                                                                         !.conn = c]
                                        ELSE worker[v]
    BY <1>1, <2>2
  <2>6. \A d \in Conns : AtLogic(d)' => AtLogic(d)
    BY <1>1, <1>2, <2>1, <2>5 DEF WorkerTake, WorkerType, AtLogic, AtWorker
  <2>7. \A v \in Workers : /\ worker'[v].phase = "db" => worker'[v].fd \in Fds
                           /\ worker'[v].phase = "idle" <=> worker'[v].conn = None
    <3>1. worker'[w].phase = "resolve" /\ worker'[w].conn = c /\ c # None
      BY <1>1, <2>1, <2>5, NameAssumption DEF WorkerType
    <3> QED
      BY <2>5, <3>1 DEF Located
  <2> QED
    BY <1>2, <2>4, <2>6, <2>7 DEF WorkerTake, Located, Accepted
<1>3. CASE WorkerOpenDatabase(w)
  <2>1. PICK f \in Fds : /\ owner' = [owner EXCEPT ![f] = w]
                         /\ worker' = [worker EXCEPT ![w].phase = "db", ![w].fd = f]
    BY <1>3 DEF WorkerOpenDatabase
  <2>2. worker' \in [Workers -> WorkerType]
    BY <1>1, <2>1 DEF WorkerType
  <2>3. TypeOK'
    BY <1>3, <2>1, <2>2 DEF WorkerOpenDatabase, TypeOK
  <2>4. \A v \in Workers : worker'[v] = IF v = w THEN [worker[w] EXCEPT !.phase = "db", !.fd = f]
                                        ELSE worker[v]
    BY <1>1, <2>1
  <2>5. \A v \in Workers : /\ worker'[v].conn = worker[v].conn
                           /\ worker'[v].phase = "db" => worker'[v].fd \in Fds
                           /\ worker'[v].phase = "idle" <=> worker'[v].conn = None
    BY <1>1, <1>3, <2>4 DEF WorkerType, Located, WorkerOpenDatabase
  <2> QED
    BY <1>3, <2>3, <2>5 DEF WorkerOpenDatabase, Located, AtLogic, AtWorker, Accepted
<1>4. CASE WorkerCloseDatabase(w)
  <2>1. worker[w].fd \in Fds /\ CloseFd(worker[w].fd)
    BY <1>4 DEF WorkerCloseDatabase, Located
  <2>2. worker' = [worker EXCEPT ![w].phase = "built", ![w].fd = None]
    BY <1>4 DEF WorkerCloseDatabase
  <2>3. worker' \in [Workers -> WorkerType]
    BY <1>1, <2>2 DEF WorkerType
  <2>4. TypeOK'
    BY <1>4, <2>1, <2>3, CloseFdTypes DEF WorkerCloseDatabase, TypeOK
  <2>5. \A v \in Workers : worker'[v] = IF v = w THEN [worker[w] EXCEPT !.phase = "built", !.fd = None]
                                        ELSE worker[v]
    BY <1>1, <2>2
  <2>6. \A v \in Workers : /\ worker'[v].conn = worker[v].conn
                           /\ worker'[v].phase = "db" => worker'[v].fd \in Fds
                           /\ worker'[v].phase = "idle" <=> worker'[v].conn = None
    BY <1>1, <1>4, <2>5 DEF WorkerType, Located, WorkerCloseDatabase
  <2>7. \A d \in Conns : Accepted(d) => Accepted(d)'
    BY <2>1, CloseFdAccepted
  <2> QED
    BY <1>4, <2>4, <2>6, <2>7 DEF WorkerCloseDatabase, Located, AtLogic, AtWorker
<1>5. CASE WorkerFinish(w)
  <2> DEFINE c == worker[w].conn
  <2>1. c \in Conns /\ AtWorker(c)
    BY <1>1, <1>5 DEF WorkerFinish, WorkerType, Located, AtWorker
  <2>2. /\ results' \in Seq(Conns)
        /\ Elements(results') = Elements(results) \cup {c}
    BY <1>5, <2>1, PushedQueue DEF WorkerFinish, TypeOK
  <2>3. worker' = [worker EXCEPT ![w].phase = "idle", ![w].conn = None]
    BY <1>5 DEF WorkerFinish
  <2>4. worker' \in [Workers -> WorkerType]
    BY <1>1, <2>3 DEF WorkerType
  <2>5. TypeOK'
    BY <1>5, <2>2, <2>4 DEF WorkerFinish, TypeOK
  <2>6. \A v \in Workers : worker'[v] = IF v = w THEN [worker[w] EXCEPT !.phase = "idle", !.conn = None]
                                        ELSE worker[v]
    BY <1>1, <2>3
  <2>7. \A v \in Workers : /\ worker'[v].conn \in {None, worker[v].conn}
                           /\ worker'[v].phase = "db" => worker'[v].fd \in Fds
                           /\ worker'[v].phase = "idle" <=> worker'[v].conn = None
    BY <1>1, <2>6 DEF WorkerType, Located
  <2>8. \A d \in Conns : AtLogic(d)' => AtLogic(d)
    BY <1>5, <2>1, <2>2, <2>7, NameAssumption DEF WorkerFinish, AtLogic, AtWorker
  <2> QED
    BY <1>5, <2>5, <2>7, <2>8 DEF WorkerFinish, Located, Accepted
<1> QED
  BY <1>2, <1>3, <1>4, <1>5 DEF WorkerStep

LEMMA InitTyped == Init => TypeOK /\ Located
<1> SUFFICES ASSUME Init PROVE TypeOK /\ Located
  OBVIOUS
<1>1. requests \in Seq(Conns) /\ results \in Seq(Conns) /\ Len(<<>>) = 0
  BY EmptySeq DEF Init
<1>2. Elements(requests) = {} /\ Elements(results) = {}
  BY DEF Init, Elements
<1>3. sock \in [Conns -> SocketType]
  BY SizeAssumption DEF Init, SocketType
<1>4. conn \in [Conns -> ConnectionType]
  BY SizeAssumption DEF Init, NewConnection, ConnectionType
<1>5. worker \in [Workers -> WorkerType]
  BY DEF Init, WorkerType
<1>6. TypeOK
  BY <1>1, <1>3, <1>4, <1>5 DEF Init, TypeOK, Labels, Drained, Events
<1>7. \A c \in Conns : conn[c].fd \notin Fds
  BY NameAssumption DEF Init, NewConnection
<1>8. \A w \in Workers : worker[w].phase = "idle" /\ worker[w].conn = None
  BY DEF Init
<1>9. \A c \in Conns : ~AtLogic(c)
  BY <1>2, <1>8, NameAssumption DEF AtLogic, AtWorker
<1> QED
  BY <1>6, <1>7, <1>8, <1>9 DEF Init, Located

LEMMA StepTyped == TypeOK /\ Located /\ [Next]_vars => TypeOK' /\ Located'
<1> SUFFICES ASSUME TypeOK, Located, [Next]_vars PROVE TypeOK' /\ Located'
  OBVIOUS
<1>1. CASE UNCHANGED vars
  BY <1>1 DEF vars, TypeOK, Located, AtLogic, AtWorker, Accepted
<1>2. CASE MainStep
  BY <1>2, QuietSteps, ClosingSteps, ArmingSteps, FlushingSteps, SendStep, ReadingSteps,
     AcceptStep DEF MainStep
<1>3. CASE \E w \in Workers : WorkerStep(w)
  BY <1>3, WorkerSteps
<1>4. CASE \/ \E c \in Conns : ClientStep(c) \/ DeadlinePasses(c)
           \/ TimerExpires \/ SignalArrives
  BY <1>4, QuietSteps, ReadingSteps
<1> QED
  BY <1>1, <1>2, <1>3, <1>4 DEF Next, Terminated

LEMMA AlwaysTyped == Spec => [](TypeOK /\ Located)
  BY InitTyped, StepTyped, PTL DEF Spec

\* Every variable of the server stays in its domain, for any number of clients,
\* descriptors and logic threads (Server::Run, all handlers).
THEOREM TypeCorrect == Spec => []TypeOK
  BY AlwaysTyped, PTL

------------------------------------------------------------------------------
(* One request in flight.                                                      *)

\* The flag that keeps a connection from being dispatched again: it is set while
\* the request is parsed, and on every stored connection that is in the queues
\* or with a thread.
Marked ==
  /\ pc = "parse" => conn[cur].processing
  /\ \A f \in Fds : store[f] # None /\ AtLogic(store[f]) => conn[store[f]].processing

\* Closing clears the flag only of a connection it also removes.
LEMMA CloseMarks ==
  ASSUME TypeOK, Located, NEW cn \in ConnTable, NEW f \in Fds, CloseConnection(cn, f)
  PROVE  \A g \in Fds : store'[g] # None
           => conn'[store'[g]].processing = cn[store'[g]].processing
<1>1. \A g \in Fds : store'[g] = IF g = f THEN None ELSE store[g]
  BY CloseConnectionEffect
<1>2. \A g \in Fds : store[g] # None /\ g # f => store[g] # store[f] /\ store[g] \in Conns
  BY DEF Located, TypeOK
<1>3. \A c \in Conns : c # store[f] => conn'[c].processing = cn[c].processing
  BY DEF CloseConnection, ConnTable, ConnectionType, TypeOK
<1> QED
  BY <1>1, <1>2, <1>3

LEMMA UpdateMarks ==
  ASSUME TypeOK, NEW cn \in ConnTable, NEW c \in Conns,
         NEW mask, NEW r, UpdateConnectionEvents(cn, c, mask, r)
  PROVE  \A d \in Conns : conn'[d].processing = cn[d].processing
  BY DEF UpdateConnectionEvents, ConnTable, ConnectionType

\* A step that moves nothing in the pipeline keeps it exclusive, if it clears the
\* flag of no connection that is with the logic threads and stays in the table.
LEMMA PipelineKept ==
  ASSUME TypeOK, Marked, OneRequestInFlight,
         UNCHANGED queueVars,
         \A f \in Fds : store'[f] \in {None, store[f]},
         \A f \in Fds : store'[f] # None /\ AtLogic(store'[f])
                          => (conn[store'[f]].processing => conn'[store'[f]].processing),
         pc' = "parse" => pc = "parse" /\ cur' = cur /\ conn'[cur].processing = conn[cur].processing
  PROVE  Marked' /\ OneRequestInFlight'
<1>1. OneRequestInFlight'
  BY DEF OneRequestInFlight, AtLogic, AtWorker, queueVars
<1>2. Marked'
  BY DEF Marked, AtLogic, AtWorker, queueVars
<1> QED
  BY <1>1, <1>2

\* Steps of the main thread that move nothing in the pipeline.
LEMMA OtherStepsExclusive ==
  ASSUME TypeOK, Located, Marked, OneRequestInFlight,
         \/ DrainDone \/ EpollWait \/ BatchDone \/ HandleSignalEvent \/ ListenEvent
         \/ AcceptDone \/ TimerDone \/ FlushBlocked \/ FlushNothing \/ HandleTimerEvent
         \/ TimerExpires \/ SignalArrives
         \/ FlushFails \/ CloseUnarmed \/ ArmConnection \/ ParseIncomplete \/ ParseBad
         \/ FlushSend
         \/ \E f \in Fds : IgnoreEvent(f) \/ HangupEvent(f) \/ DispatchReadFails(f)
                           \/ WritableEvent(f)
         \/ \E c \in Conns : ClientStep(c) \/ TimerSkip(c) \/ TimerGiveUp(c) \/ TimerRetry(c)
                             \/ DeadlinePasses(c)
  PROVE  Marked' /\ OneRequestInFlight'
<1> USE DEF kernelVars, socketVars, loopVars, serverVars
<1>0. conn \in ConnTable /\ \A f \in Fds : store[f] # None => store[f] \in Conns
  BY DEF TypeOK, ConnTable
<1>1. CASE \/ DrainDone \/ EpollWait \/ BatchDone \/ HandleSignalEvent \/ ListenEvent
           \/ AcceptDone \/ TimerDone \/ FlushBlocked \/ FlushNothing \/ HandleTimerEvent
           \/ TimerExpires \/ SignalArrives
  <2>1. UNCHANGED <<store, conn, queueVars>>
        /\ (pc' = "parse" => pc = "parse" /\ cur' = cur)
    BY <1>1 DEF DrainDone, EpollWait, BatchDone, HandleSignalEvent, ListenEvent, AcceptDone,
       TimerDone, FlushBlocked, FlushNothing, HandleTimerEvent, Stored, TimerExpires, SignalArrives
  <2> QED
    BY <2>1, PipelineKept
<1>2. CASE \/ \E f \in Fds : IgnoreEvent(f) \/ WritableEvent(f)
           \/ \E c \in Conns : ClientStep(c) \/ TimerSkip(c)
  <2>1. UNCHANGED <<store, conn, queueVars>>
        /\ (pc' = "parse" => pc = "parse" /\ cur' = cur)
    BY <1>2 DEF IgnoreEvent, WritableEvent, FlushConnection, TakeEvent, TimerSkip,
       ClientStep, Connect, ClientSend, ClientHangup, ClientReceive
  <2> QED
    BY <2>1, PipelineKept
<1>3. CASE \/ FlushFails \/ CloseUnarmed
           \/ \E f \in Fds : HangupEvent(f) \/ DispatchReadFails(f)
           \/ \E c \in Conns : TimerGiveUp(c)
  <2>1. PICK f \in Fds : CloseConnection(conn, f)
    BY <1>3 DEF FlushFails, CloseUnarmed, HangupEvent, DispatchReadFails, TimerGiveUp, Located,
       TypeOK
  <2>2. UNCHANGED queueVars /\ pc' # "parse"
    BY <1>3 DEF FlushFails, CloseUnarmed, GoOn, HangupEvent, DispatchReadFails, TimerGiveUp,
       TakeEvent, TypeOK, Drained
  <2> QED
    BY <1>0, <2>1, <2>2, CloseConnectionEffect, CloseMarks, PipelineKept
<1>4. CASE ArmConnection
  <2>1. cur \in Conns /\ UpdateConnectionEvents(conn, cur, ArmMask, ret)
    BY <1>4 DEF ArmConnection, Located
  <2>2. UNCHANGED queueVars /\ pc' # "parse" /\ UNCHANGED store
    BY <1>0, <1>4, <2>1, UpdateEffect DEF ArmConnection, TypeOK, Drained
  <2> QED
    BY <1>0, <2>1, <2>2, UpdateMarks, PipelineKept
<1>5. CASE ParseIncomplete
  <2> DEFINE cn == Unmarked(cur)
  <2>1. /\ cur \in Conns /\ ~AtLogic(cur)
        /\ UpdateConnectionEvents(cn, cur, "IN", "events")
        /\ UNCHANGED queueVars
    BY <1>5 DEF ParseIncomplete, Located, OneRequestInFlight
  <2>2. cn \in ConnTable
    BY <1>0, <2>1, ConnFields DEF Unmarked
  <2>3. \A c \in Conns : c # cur => cn[c].processing = conn[c].processing
    BY <1>0, <2>1 DEF Unmarked, ConnTable
  <2> HIDE DEF cn
  <2>4. UNCHANGED store /\ pc' # "parse"
    BY <2>1, <2>2, UpdateEffect
  <2>5. \A d \in Conns : conn'[d].processing = cn[d].processing
    BY <2>1, <2>2, UpdateMarks
  <2> QED
    BY <1>0, <2>1, <2>3, <2>4, <2>5, PipelineKept
<1>6. CASE ParseBad
  <2>1. /\ cur \in Conns /\ ~AtLogic(cur)
        /\ \A c \in Conns : c # cur => conn'[c] = conn[c]
        /\ UNCHANGED <<store, queueVars>> /\ pc' # "parse"
    BY <1>0, <1>6 DEF ParseBad, QueueResponse, Located, OneRequestInFlight, ConnTable
  <2> QED
    BY <1>0, <2>1, PipelineKept
<1>7. CASE \E c \in Conns : TimerRetry(c) \/ DeadlinePasses(c)
  <2>1. PICK c \in Conns : TimerRetry(c) \/ DeadlinePasses(c)
    BY <1>7
  <2>2. \A d \in Conns : conn'[d].processing = conn[d].processing
    BY <1>0, <2>1 DEF TimerRetry, Retried, DeadlinePasses, ConnTable, ConnectionType
  <2>3. /\ UNCHANGED <<store, queueVars>>
        /\ pc' = "parse" => pc = "parse" /\ cur' = cur
    BY <2>1 DEF TimerRetry, Retried, DeadlinePasses, FlushConnection
  <2>4. pc = "parse" => cur \in Conns
    BY DEF Located
  <2> QED
    BY <1>0, <2>2, <2>3, <2>4, PipelineKept
<1>8. CASE FlushSend
  <2> DEFINE cn == [conn EXCEPT ![cur].left = 0, ![cur].retries = 0, ![cur].due = FALSE]
  <2>1. /\ cur \in Conns /\ conn[cur].fd \in Fds /\ conn[cur] \in ConnectionType
        /\ UNCHANGED queueVars /\ pc' # "parse"
    BY <1>0, <1>8 DEF FlushSend, GoOn, Located, TypeOK, Drained, ConnTable
  <2>2. CASE CloseConnection(cn, conn[cur].fd)
    <3>1. cn = [conn EXCEPT ![cur] = [conn[cur] EXCEPT !.left = 0, !.retries = 0, !.due = FALSE]]
      BY <1>0, <2>1 DEF ConnTable
    <3>2. 0 \in 0..MaxWriteRetry
      BY SizeAssumption
    <3>3. [conn[cur] EXCEPT !.left = 0, !.retries = 0, !.due = FALSE] \in ConnectionType
      BY <2>1, <3>2 DEF ConnectionType
    <3>4. cn \in ConnTable /\ \A d \in Conns : cn[d].processing = conn[d].processing
      BY <1>0, <2>1, <3>1, <3>3 DEF ConnTable, ConnectionType
    <3> HIDE DEF cn
    <3>5. \A f \in Fds : store'[f] \in {None, store[f]}
      BY <2>1, <2>2, <3>4, CloseConnectionEffect
    <3>6. \A f \in Fds : store'[f] # None
            => conn'[store'[f]].processing = cn[store'[f]].processing
      BY <2>1, <2>2, <3>4, CloseMarks
    <3> QED
      BY <1>0, <2>1, <3>4, <3>5, <3>6, PipelineKept
  <2>3. CASE /\ conn' = [conn EXCEPT ![cur].left = @ - sock[Target].room,
                                     ![cur].retries = 0, ![cur].due = FALSE]
             /\ UNCHANGED store
    <3>1. \A d \in Conns : conn'[d].processing = conn[d].processing
      BY <1>0, <2>3 DEF ConnTable, ConnectionType
    <3> QED
      BY <1>0, <2>1, <2>3, <3>1, PipelineKept
  <2> QED
    BY <1>8, <2>2, <2>3 DEF FlushSend, GoOn
<1> QED
  BY <1>1, <1>2, <1>3, <1>4, <1>5, <1>6, <1>7, <1>8

\* A connection is read only when its flag is clear; it is not in the pipeline.
LEMMA ReadExclusive ==
  ASSUME TypeOK, Located, Marked, OneRequestInFlight,
         NEW f \in Fds, DispatchRead(f)
  PROVE  Marked' /\ OneRequestInFlight'
<1> DEFINE c == store[f]
<1>1. /\ c \in Conns /\ ~AtLogic(c) /\ conn \in ConnTable
  BY DEF DispatchRead, TypeOK, ConnTable, Marked
<1>2. /\ cur' = c /\ pc' = "parse"
      /\ UNCHANGED <<store, queueVars>>
  BY DEF DispatchRead
<1>3. conn'[c].processing /\ \A d \in Conns : d # c => conn'[d] = conn[d]
  BY <1>1 DEF DispatchRead, Taken, ConnTable, ConnectionType
<1> HIDE DEF c
<1>4. Marked'
  BY <1>1, <1>2, <1>3 DEF Marked, AtLogic, AtWorker, queueVars, TypeOK
<1>5. OneRequestInFlight'
  BY <1>1, <1>2 DEF OneRequestInFlight, AtLogic, AtWorker, queueVars
<1> QED
  BY <1>4, <1>5

\* A complete request enters the queue once.
LEMMA HandOverExclusive ==
  ASSUME TypeOK, Located, Marked, OneRequestInFlight, ParseComplete
  PROVE  Marked' /\ OneRequestInFlight'
<1>1. /\ cur \in Conns /\ ~AtLogic(cur) /\ requests' = Append(requests, cur)
      /\ UNCHANGED <<store, conn, results, worker>> /\ pc' = "events"
  BY DEF ParseComplete, GoOn, Located, OneRequestInFlight
<1>2. /\ Elements(requests') = Elements(requests) \cup {cur}
      /\ NoRepeats(requests')
  BY <1>1, PushedQueue DEF TypeOK, OneRequestInFlight, AtLogic
<1>3. OneRequestInFlight'
  BY <1>1, <1>2 DEF OneRequestInFlight, AtLogic, AtWorker
<1>4. Marked'
  BY <1>1, <1>2 DEF Marked, AtLogic, AtWorker, ParseComplete, GoOn
<1> QED
  BY <1>3, <1>4

\* A result leaves its queue with the only copy.
LEMMA ResultExclusive ==
  ASSUME TypeOK, Located, Marked, OneRequestInFlight, HandleLogicResult
  PROVE  Marked' /\ OneRequestInFlight'
<1>0. PICK c \in Conns : c = Head(results)
  BY PoppedQueue DEF HandleLogicResult, TypeOK
<1>1. /\ c \in Conns
      /\ Elements(results) = Elements(results') \cup {c}
      /\ NoRepeats(results') /\ c \notin Elements(results')
  BY <1>0, PoppedQueue DEF HandleLogicResult, TypeOK, OneRequestInFlight
<1>2. /\ UNCHANGED <<store, requests, worker>> /\ pc' = "flush"
      /\ QueueResponse(c, pc)
  BY <1>0 DEF HandleLogicResult, QueueResponse
<1>3. \A d \in Conns : d # c => conn'[d] = conn[d]
  BY <1>1, <1>2 DEF QueueResponse, TypeOK
<1>4. OneRequestInFlight'
  BY <1>1, <1>2 DEF OneRequestInFlight
<1>5. ~AtLogic(c)'
  BY <1>1, <1>2 DEF OneRequestInFlight, AtLogic, AtWorker
<1>6. \A d \in Conns : AtLogic(d)' => AtLogic(d)
  BY <1>1, <1>2 DEF AtLogic, AtWorker
<1>7. Marked'
  BY <1>2, <1>3, <1>5, <1>6 DEF Marked, TypeOK
<1> QED
  BY <1>4, <1>7

\* A new client takes a new object; whom it displaces from the table is no one
\* with a set flag to lose.
LEMMA AcceptExclusive ==
  ASSUME TypeOK, Located, Marked, OneRequestInFlight, AcceptOne
  PROVE  Marked' /\ OneRequestInFlight'
<1>1. PICK c \in Backlog, f \in Fds :
        /\ store' = [store EXCEPT ![f] = c]
        /\ conn' = [conn EXCEPT ![c] = NewConnection(f)]
  BY DEF AcceptOne
<1>2. /\ c \in Conns /\ ~Accepted(c)
      /\ UNCHANGED queueVars /\ pc' = "arm"
  BY DEF Backlog, Accepted, AcceptOne
<1>3. ~AtLogic(c) /\ conn[c].fd \notin Fds
  BY <1>2 DEF Located
<1>4. \A g \in Fds : store'[g] = IF g = f THEN c ELSE store[g]
  BY <1>1 DEF TypeOK
<1>5. \A d \in Conns : d # c => conn'[d] = conn[d]
  BY <1>1 DEF TypeOK
<1>6. Marked'
  <2>1. \A g \in Fds : store'[g] # None /\ AtLogic(store'[g]) => conn'[store'[g]].processing
    BY <1>3, <1>4, <1>5 DEF Marked, TypeOK
  <2> QED
    BY <1>2, <2>1 DEF Marked, AtLogic, AtWorker, queueVars
<1>7. OneRequestInFlight'
  BY <1>2 DEF OneRequestInFlight, queueVars
<1> QED
  BY <1>6, <1>7

\* The logic threads pass connections on, and let go of none.
LEMMA WorkersAtLogic ==
  ASSUME TypeOK, Located, NEW w \in Workers, WorkerStep(w)
  PROVE  \A d \in Conns : AtLogic(d)' <=> AtLogic(d)
<1>0. worker \in [Workers -> WorkerType] /\ worker[w] \in WorkerType
  BY DEF TypeOK
<1>1. CASE WorkerTake(w)
  <2>1. PICK c \in Conns : c = Head(requests) /\ Elements(requests) = Elements(requests') \cup {c}
    BY <1>1, PoppedQueue DEF WorkerTake, TypeOK
  <2>2. \A v \in Workers : worker'[v].conn = IF v = w THEN c ELSE worker[v].conn
    BY <1>0, <1>1, <2>1 DEF WorkerTake, WorkerType
  <2>3. worker[w].conn = None /\ results' = results
    BY <1>1 DEF WorkerTake, Located
  <2> QED
    BY <2>1, <2>2, <2>3, NameAssumption DEF AtLogic, AtWorker
<1>2. CASE WorkerOpenDatabase(w) \/ WorkerCloseDatabase(w)
  BY <1>0, <1>2 DEF WorkerOpenDatabase, WorkerCloseDatabase, WorkerType, AtLogic, AtWorker
<1>3. CASE WorkerFinish(w)
  <2>1. PICK c \in Conns : c = worker[w].conn
    BY <1>0, <1>3 DEF WorkerFinish, WorkerType, Located
  <2>2. Elements(results') = Elements(results) \cup {c} /\ requests' = requests
    BY <1>3, <2>1, PushedQueue DEF WorkerFinish, TypeOK
  <2>3. \A v \in Workers : worker'[v].conn = IF v = w THEN None ELSE worker[v].conn
    BY <1>0, <1>3 DEF WorkerFinish, WorkerType
  <2> QED
    BY <2>1, <2>2, <2>3, NameAssumption DEF AtLogic, AtWorker
<1> QED
  BY <1>1, <1>2, <1>3 DEF WorkerStep

\* A thread takes a request from the queue, and leaves its result in the other.
LEMMA WorkersExclusive ==
  ASSUME TypeOK, Located, Marked, OneRequestInFlight, NEW w \in Workers, WorkerStep(w)
  PROVE  Marked' /\ OneRequestInFlight'
<1> USE DEF loopVars
<1>0. worker \in [Workers -> WorkerType] /\ worker[w] \in WorkerType
  BY DEF TypeOK
<1>1. UNCHANGED <<store, conn, pc, cur>>
  BY DEF WorkerStep, WorkerTake, WorkerOpenDatabase, WorkerCloseDatabase, WorkerFinish
<1>5. \A d \in Conns : AtLogic(d)' <=> AtLogic(d)
  BY WorkersAtLogic
<1>2. CASE WorkerTake(w)
  <2> DEFINE c == Head(requests)
  <2>1. /\ c \in Conns
        /\ Elements(requests) = Elements(requests') \cup {c}
        /\ NoRepeats(requests') /\ c \notin Elements(requests')
        /\ results' = results
    BY <1>2, PoppedQueue DEF WorkerTake, TypeOK, OneRequestInFlight
  <2>2. \A v \in Workers : worker'[v].conn = IF v = w THEN c ELSE worker[v].conn
    BY <1>0, <1>2 DEF WorkerTake, WorkerType
  <2>3. c \in Elements(requests) /\ c # None
    BY <2>1, NameAssumption
  <2> HIDE DEF c
  <2>5. OneRequestInFlight'
    <3>1. \A v \in Workers : worker[v].conn # c
      BY <2>3 DEF OneRequestInFlight
    <3>2. pc' = "parse" => ~AtLogic(cur)'
      BY <1>1, <1>5 DEF OneRequestInFlight, Located
    <3>3. c \notin Elements(results)
      BY <2>3 DEF OneRequestInFlight
    <3>4. \A u, v \in Workers : worker'[u].conn = worker'[v].conn => u = v \/ worker'[u].conn = None
      BY <2>2, <3>1 DEF OneRequestInFlight
    <3>5. \A v \in Workers : worker'[v].conn \notin Elements(requests') \cup Elements(results')
      BY <2>1, <2>2, <3>3 DEF OneRequestInFlight
    <3> QED
      BY <2>1, <3>2, <3>4, <3>5 DEF OneRequestInFlight
  <2> QED
    BY <1>1, <1>5, <2>5 DEF Marked, TypeOK
<1>3. CASE WorkerOpenDatabase(w) \/ WorkerCloseDatabase(w)
  <2>1. /\ \A v \in Workers : worker'[v].conn = worker[v].conn
        /\ UNCHANGED <<requests, results>>
    BY <1>0, <1>3 DEF WorkerOpenDatabase, WorkerCloseDatabase, WorkerType
  <2>3. OneRequestInFlight'
    BY <1>1, <1>5, <2>1 DEF OneRequestInFlight, Located
  <2> QED
    BY <1>1, <1>5, <2>3 DEF Marked, TypeOK
<1>4. CASE WorkerFinish(w)
  <2> DEFINE c == worker[w].conn
  <2>1. c \in Conns /\ c # None
    BY <1>0, <1>4, NameAssumption DEF WorkerFinish, WorkerType, Located
  <2>2. c \notin Elements(requests) \cup Elements(results)
    BY DEF OneRequestInFlight
  <2>3. /\ Elements(results') = Elements(results) \cup {c}
        /\ NoRepeats(results')
        /\ requests' = requests
    BY <1>4, <2>1, <2>2, PushedQueue DEF WorkerFinish, TypeOK, OneRequestInFlight
  <2>4. \A v \in Workers : worker'[v].conn = IF v = w THEN None ELSE worker[v].conn
    BY <1>0, <1>4 DEF WorkerFinish, WorkerType
  <2>5. \A v \in Workers : v # w => worker[v].conn # c
    BY <2>1 DEF OneRequestInFlight
  <2>6. None \notin Elements(requests') \cup Elements(results')
    <3>1. Elements(requests) \subseteq Conns /\ Elements(results) \subseteq Conns
      BY ElementOfSeq DEF TypeOK, Elements
    <3> QED
      BY <2>1, <2>3, <3>1, NameAssumption
  <2> HIDE DEF c
  <2>8. OneRequestInFlight'
    <3>1. pc' = "parse" => ~AtLogic(cur)'
      BY <1>1, <1>5 DEF OneRequestInFlight, Located
    <3>2. \A v \in Workers : worker'[v].conn \notin Elements(requests') \cup Elements(results')
      BY <2>3, <2>4, <2>5, <2>6 DEF OneRequestInFlight
    <3>3. \A u, v \in Workers : worker'[u].conn = worker'[v].conn => u = v \/ worker'[u].conn = None
      BY <2>4 DEF OneRequestInFlight
    <3>4. Elements(requests') \cap Elements(results') = {}
      BY <2>2, <2>3 DEF OneRequestInFlight
    <3> QED
      BY <2>3, <3>1, <3>2, <3>3, <3>4 DEF OneRequestInFlight
  <2> QED
    BY <1>1, <1>5, <2>8 DEF Marked, TypeOK
<1> QED
  BY <1>2, <1>3, <1>4 DEF WorkerStep

LEMMA InitExclusive == Init => Marked /\ OneRequestInFlight
<1> SUFFICES ASSUME Init PROVE Marked /\ OneRequestInFlight
  OBVIOUS
<1>1. DOMAIN requests = {} /\ DOMAIN results = {}
  BY DEF Init
<1>2. \A w \in Workers : worker[w].conn = None
  BY DEF Init
<1> QED
  BY <1>1, <1>2 DEF Init, Marked, OneRequestInFlight, NoRepeats, Elements

LEMMA StepExclusive ==
  TypeOK /\ Located /\ Marked /\ OneRequestInFlight /\ [Next]_vars
    => Marked' /\ OneRequestInFlight'
<1> SUFFICES ASSUME TypeOK, Located, Marked, OneRequestInFlight, [Next]_vars
             PROVE  Marked' /\ OneRequestInFlight'
  OBVIOUS
<1>1. CASE UNCHANGED vars
  BY <1>1 DEF vars, Marked, OneRequestInFlight, AtLogic, AtWorker
<1>2. CASE MainStep
  BY <1>2, OtherStepsExclusive, ReadExclusive, HandOverExclusive, ResultExclusive,
     AcceptExclusive DEF MainStep
<1>3. CASE \E w \in Workers : WorkerStep(w)
  BY <1>3, WorkersExclusive
<1>4. CASE \/ \E c \in Conns : ClientStep(c) \/ DeadlinePasses(c)
           \/ TimerExpires \/ SignalArrives
  BY <1>4, OtherStepsExclusive
<1> QED
  BY <1>1, <1>2, <1>3, <1>4 DEF Next, Terminated

\* No connection is ever in two places of the pipeline (being parsed, queued, at
\* one logic thread, in the result queue), however late the events and whatever
\* numbers are reused: DispatchConnection's _processing flag suffices.
THEOREM RequestsExclusive == Spec => []OneRequestInFlight
  BY InitTyped, StepTyped, InitExclusive, StepExclusive, PTL DEF Spec

------------------------------------------------------------------------------
(* Descriptor numbers: whose they are, who watches them, that no readiness is    *)
(* lost and that answers reach the clients that asked.                           *)
(*                                                                               *)
(* One step of the code can break this: CloseConnection on a hangup event whose  *)
(* number has meanwhile become a logic thread's database socket.  TLC shows the  *)
(* code taking it (LogicKeepsItsDatabase); the theorems are about behaviours     *)
(* up to that step (DatabasesSpared), with batches of any size and all the       *)
(* other stale events in them.                                                   *)

(* The invariant.                                                              *)

\* Someone carries on with connection c: the logic threads or the main thread.
Busy(c) == AtLogic(c) \/ InHand(c)

\* The descriptor table and the connection table agree on number f; epoll knows
\* clients' sockets only.
Owned(f) ==
  /\ store[f] # None => owner[f] = store[f]
  /\ owner[f] \in Conns => store[f] = owner[f]
  /\ owner[f] \notin Conns => interest[f] = "none"

\* What epoll has of connection c, whose number is f, fits what c waits for.
Watched(c, f) ==
  /\ conn[c].registered <=> interest[f] # "none"
  /\ interest[f] = "none" => Busy(c)
  /\ interest[f] # "none" => /\ ~conn[c].processing
                             /\ interest[f] = IF conn[c].left > 0 THEN "OUT" ELSE "IN"

\* An event "IN" finds an idle connection.  An event "OUT" that finds nothing to
\* write is stale: what epoll has to say of the new connection is still to come.
Batched(f) ==
  /\ batch[f] = "IN" => /\ store[f] # None
                        /\ conn[store[f]].left = 0
                        /\ ~conn[store[f]].processing
  /\ batch[f] = "OUT" => \A c \in Conns :
       store[f] = c /\ conn[c].left = 0 => (Poll(f) # "none" => f \in rdy)

\* No readiness of number f is lost.
Edge(f) == Poll(f) # "none" => f \in rdy \/ batch[f] # "none" \/ InHand(owner[f])

Sound(f) ==
  /\ Owned(f)
  /\ \A c \in Conns : store[f] = c => Watched(c, f)
  /\ Batched(f)
  /\ Edge(f)

\* Connection c stays as it is while its request is on its way.
Pinned(c) ==
  /\ conn[c].fd \in Fds
  /\ store[conn[c].fd] = c
  /\ conn[c].processing
  /\ conn[c].left = 0
  /\ interest[conn[c].fd] = "none"
  /\ batch[conn[c].fd] = "none"

\* What the main thread knows of connection c with number f, on which it works.
Held(c, f) ==
  /\ pc = "parse" => Pinned(c)
  /\ pc \in {"flush", "arm", "unarmed"} => store[f] = c /\ ~AtLogic(c) /\ ~conn[c].processing
  /\ pc = "flush" => ret # "accept"
  /\ pc = "flush" /\ conn[c].left = 0
       => ret = "events" /\ interest[f] # "none" /\ (Poll(f) # "none" => f \in rdy)
  /\ pc = "arm" => /\ ret = "accept" <=> conn[c].left = 0
                   /\ batch[f] # "IN"
  /\ pc = "unarmed" => interest[f] = "none" /\ batch[f] # "IN"

\* The timer's snapshot is visited before anything else, and whoever is still to
\* be visited is still stored.
Visiting ==
  /\ \A c \in snapshot : store[conn[c].fd] = c
  /\ pc \in {"flush", "arm", "unarmed"} => cur \notin snapshot
  /\ snapshot # {} => \/ pc \in {"timer", "stuck"}
                      \/ pc \in {"flush", "arm", "unarmed"} /\ ret = "timer"

\* Between two batches no event is left.
Between == \/ pc \in Drained \cup {"wait"}
           \/ pc \in {"flush", "arm", "unarmed"} /\ ret \in Drained
Spent == Between => \A s \in Sources : batch[s] = "none"

Ownership ==
  /\ \A f \in Fds : Sound(f)
  /\ \A c \in Conns : AtLogic(c) => Pinned(c)
  /\ \A c \in Conns, f \in Fds : cur = c /\ conn[c].fd = f => Held(c, f)
  /\ Visiting
  /\ Spent
  /\ LogicKeepsItsDatabase
  /\ ResponseToOwnClient

\* What ReactorProofs has shown.
Based == TypeOK /\ Located /\ OneRequestInFlight

------------------------------------------------------------------------------
(* Frames: what a step does not touch stays as it was.                         *)

\* What is said of a connection does not change.
Kept(c) ==
  /\ conn'[c].fd = conn[c].fd
  /\ conn'[c].left = conn[c].left
  /\ conn'[c].processing = conn[c].processing
  /\ conn'[c].registered = conn[c].registered
  /\ AtLogic(c)' <=> AtLogic(c)

\* Nor of a number.
Same(f) ==
  /\ store'[f] = store[f]
  /\ owner'[f] = owner[f]
  /\ interest'[f] = interest[f]
  /\ batch'[f] = batch[f]

\* Poll depends on a number's owner, its mask and its owner's socket.
LEMMA PollKept ==
  ASSUME NEW f \in Fds, owner'[f] = owner[f], interest'[f] = interest[f],
         owner[f] \in Conns => sock'[owner[f]] = sock[owner[f]]
  PROVE  Poll(f)' = Poll(f)
  BY DEF Poll, SocketEvent

\* A number without a mask, or that is no client's, has nothing to report.
LEMMA Silent ==
  ASSUME NEW f \in Fds, interest[f] = "none" \/ owner[f] \notin Conns
  PROVE  Poll(f) = "none"
  BY DEF Poll, SocketEvent

LEMMA SoundKept ==
  ASSUME TypeOK, NEW f \in Fds, Sound(f), Same(f),
         f \in rdy => f \in rdy',
         \A c \in Conns : store[f] = c =>
            Kept(c) /\ sock'[c] = sock[c] /\ (InHand(c) => InHand(c)')
  PROVE  Sound(f)'
<1>1. store[f] \in Conns \cup {None} /\ owner[f] \in Conns \cup Workers \cup {None}
  BY DEF TypeOK
<1>2. owner[f] \in Conns => store[f] = owner[f] /\ sock'[owner[f]] = sock[owner[f]]
  BY DEF Sound, Owned
<1>3. Poll(f)' = Poll(f)
  BY <1>2, PollKept DEF Same
<1>4. Owned(f)'
  BY DEF Sound, Owned, Same
<1>5. ASSUME NEW c \in Conns, store'[f] = c PROVE Watched(c, f)'
  BY <1>5 DEF Sound, Watched, Same, Kept, Busy
<1>6. Batched(f)'
  BY <1>1, <1>3 DEF Sound, Batched, Same, Kept
<1>7. Edge(f)'
  <2>1. CASE owner[f] \in Conns
    <3>1. PICK c \in Conns : owner[f] = c
      BY <2>1
    <3>2. InHand(owner[f]) => InHand(owner[f])'
      BY <1>2, <3>1 DEF InHand, Same
    <3> QED
      BY <1>3, <3>2 DEF Sound, Edge, Same
  <2>2. CASE owner[f] \notin Conns
    BY <1>3, <2>2, Silent DEF Edge
  <2> QED
    BY <2>1, <2>2
<1> QED
  BY <1>4, <1>5, <1>6, <1>7 DEF Sound

LEMMA PinnedKept ==
  ASSUME NEW c \in Conns, Pinned(c), Kept(c), Same(conn[c].fd)
  PROVE  Pinned(c)'
  BY DEF Pinned, Kept, Same

\* Two numbers are not one connection's.
LEMMA OneNumber ==
  ASSUME TypeOK, Located
  PROVE  \A f, g \in Fds : store[f] # None /\ store[f] = store[g] => f = g
  BY DEF Located

\* A step that touches number f and the connection d at most, which no other
\* number belongs to.
Elsewhere(f, d) ==
  /\ store[f] \in {d, None}
  /\ \A g \in Fds : g # f => Same(g) /\ (g \in rdy => g \in rdy')
  /\ \A g \in Fds : g # f => store[g] = None \/ store[g] # d
  /\ \A c \in Conns : c # d => Kept(c) /\ sock'[c] = sock[c] /\ (InHand(c) => InHand(c)')

LEMMA ElsewhereKept ==
  ASSUME TypeOK, NEW f \in Fds, NEW d, Elsewhere(f, d),
         \A g \in Fds : Sound(g), \A c \in Conns : AtLogic(c) => Pinned(c)
  PROVE  /\ \A g \in Fds : g # f => Sound(g)'
         /\ \A c \in Conns : c # d /\ AtLogic(c)' => Pinned(c)'
<1>1. ASSUME NEW g \in Fds, g # f PROVE Sound(g)'
  BY <1>1, NameAssumption, SoundKept DEF Elsewhere
<1>2. ASSUME NEW c \in Conns, c # d, AtLogic(c)' PROVE Pinned(c)'
  <2>1. Kept(c) /\ Pinned(c)
    BY <1>2 DEF Elsewhere, Kept
  <2>2. conn[c].fd \in Fds /\ conn[c].fd # f
    BY <1>2, <2>1, NameAssumption DEF Pinned, Elsewhere
  <2> QED
    BY <2>1, <2>2, PinnedKept DEF Elsewhere
<1> QED
  BY <1>1, <1>2

------------------------------------------------------------------------------
(* Closing.                                                                    *)

\* CloseConnection field by field.
LEMMA CloseEffect ==
  ASSUME TypeOK, NEW cn \in ConnTable, NEW f \in Fds, CloseConnection(cn, f)
  PROVE  /\ store'[f] = None /\ owner'[f] = None /\ interest'[f] = "none"
         /\ \A g \in Fds : g # f => /\ store'[g] = store[g]
                                    /\ owner'[g] = owner[g]
                                    /\ interest'[g] = interest[g]
         /\ rdy' = rdy \ {f}
         /\ \A c \in Conns : c # owner[f] => sock'[c] = sock[c]
         /\ \A c \in Conns : c # store[f] => conn'[c] = cn[c]
         /\ \A c \in Conns : conn'[c].fd = cn[c].fd /\ conn'[c].left = cn[c].left
<1>1. CloseFd(f) /\ store' = [store EXCEPT ![f] = None]
  BY DEF CloseConnection
<1>2. \A c \in Conns : c # owner[f] => sock'[c] = sock[c]
  BY <1>1 DEF CloseFd, TypeOK
<1>3. /\ \A c \in Conns : c # store[f] => conn'[c] = cn[c]
      /\ \A c \in Conns : conn'[c].fd = cn[c].fd /\ conn'[c].left = cn[c].left
  <2>1. CASE store[f] = None
    BY <2>1 DEF CloseConnection
  <2>2. CASE store[f] # None
    <3>1. PICK d \in Conns : store[f] = d
      BY <2>2 DEF TypeOK
    <3>2. conn' = [cn EXCEPT ![d].processing = FALSE, ![d].registered = FALSE]
      BY <2>2, <3>1 DEF CloseConnection
    <3> QED
      BY <3>1, <3>2 DEF ConnTable, ConnectionType
  <2> QED
    BY <2>1, <2>2
<1> QED
  BY <1>1, <1>2, <1>3 DEF CloseFd, TypeOK

\* Closing number f, be it free or a client's, keeps the invariant, if its
\* connection is not with the logic threads, no event "IN" for it stays behind, and
\* the main thread has nothing else in hand.
LEMMA CloseKeeps ==
  ASSUME Based, Ownership, NEW f \in Fds, NEW cn \in ConnTable, CloseConnection(cn, f),
         owner[f] \notin Workers,
         store[f] # None => ~AtLogic(store[f]),
         \A c \in Conns : c # store[f] => cn[c] = conn[c],
         \A c \in Conns : cn[c].fd = conn[c].fd,
         \A g \in Fds : g # f => batch'[g] = batch[g],
         batch'[f] # "IN",
         UNCHANGED queueVars,
         \A c \in Conns : InHand(c) => c = store[f],
         pc' \notin {"parse", "flush", "arm", "unarmed"},
         snapshot' \subseteq snapshot,
         store[f] \notin snapshot',
         snapshot' # {} => pc' \in {"timer", "stuck"},
         Spent',
         ResponseToOwnClient'
  PROVE  Ownership'
<1>0. TypeOK /\ Located
  BY DEF Based
<1>1. /\ store'[f] = None /\ owner'[f] = None /\ interest'[f] = "none"
      /\ \A g \in Fds : g # f => /\ store'[g] = store[g]
                                 /\ owner'[g] = owner[g]
                                 /\ interest'[g] = interest[g]
      /\ rdy' = rdy \ {f}
      /\ \A c \in Conns : c # owner[f] => sock'[c] = sock[c]
      /\ \A c \in Conns : c # store[f] => conn'[c] = conn[c]
      /\ \A c \in Conns : conn'[c].fd = conn[c].fd
  BY <1>0, CloseEffect
<1>2. /\ \A g \in Fds : Sound(g)
      /\ \A c \in Conns : AtLogic(c) => Pinned(c)
  BY DEF Ownership
<1>3. \A c : AtLogic(c)' <=> AtLogic(c)
  BY DEF AtLogic, AtWorker, queueVars
<1>4. Elsewhere(f, store[f])
  <2>1. \A c \in Conns : c # store[f] => c # owner[f]
    BY <1>2 DEF Sound, Owned
  <2>2. \A g \in Fds : g # f => store[g] = None \/ store[g] # store[f]
    BY <1>0, OneNumber
  <2> QED
    BY <1>1, <1>3, <2>1, <2>2 DEF Elsewhere, Same, Kept
<1>5. /\ \A g \in Fds : g # f => Sound(g)'
      /\ \A c \in Conns : c # store[f] /\ AtLogic(c)' => Pinned(c)'
  BY <1>0, <1>2, <1>4, ElsewhereKept
<1>6. Sound(f)'
  <2>1. None \notin Conns
    BY NameAssumption
  <2>2. Poll(f)' = "none"
    BY <1>1, <2>1 DEF Poll
  <2> QED
    BY <1>1, <2>1, <2>2 DEF Sound, Owned, Batched, Edge
<1>7. \A c \in Conns : AtLogic(c)' => Pinned(c)'
  BY <1>3, <1>5, NameAssumption
<1>8. \A c \in Conns, g \in Fds : Held(c, g)'
  BY DEF Held
<1>9. Visiting'
  <2>1. \A c \in snapshot' : c \in Conns /\ conn[c].fd \in Fds /\ store[conn[c].fd] = c
    BY <1>0 DEF Ownership, Visiting, TypeOK, Located
  <2>2. \A c \in snapshot' : store'[conn'[c].fd] = c
    BY <1>1, <2>1
  <2> QED
    BY <2>2 DEF Visiting
<1>10. LogicKeepsItsDatabase'
  BY <1>0, <1>1 DEF Ownership, LogicKeepsItsDatabase, Located, queueVars
<1> QED
  BY <1>5, <1>6, <1>7, <1>8, <1>9, <1>10 DEF Ownership

\* The facts about the connection in hand, as the proofs use them.
LEMMA InHandFacts ==
  ASSUME Based, Ownership, pc \in {"parse", "flush", "arm", "unarmed"}
  PROVE  /\ cur \in Conns /\ conn[cur].fd \in Fds
         /\ store[conn[cur].fd] = cur
         /\ owner[conn[cur].fd] = cur
         /\ ~AtLogic(cur)
         /\ Held(cur, conn[cur].fd)
         /\ \A c \in Conns : InHand(c) => c = cur
<1>1. cur \in Conns /\ conn[cur].fd \in Fds
  BY DEF Based, Located
<1>2. Held(cur, conn[cur].fd)
  BY <1>1 DEF Ownership
<1>3. store[conn[cur].fd] = cur /\ ~AtLogic(cur)
  BY <1>2 DEF Held, Pinned, Based, OneRequestInFlight
<1>4. owner[conn[cur].fd] = cur
  BY <1>1, <1>3, NameAssumption DEF Ownership, Sound, Owned
<1> QED
  BY <1>1, <1>2, <1>3, <1>4 DEF InHand

\* A number that is not in the pipeline: a batch has an event for it, or its
\* connection is not marked, or it has something to write.
LEMMA NotAtLogic ==
  ASSUME Based, Ownership, NEW f \in Fds, NEW c \in Conns, store[f] = c,
         batch[f] # "none" \/ ~conn[c].processing \/ conn[c].left # 0
  PROVE  ~AtLogic(c)
<1>1. conn[c].fd = f
  BY NameAssumption DEF Based, Located
<1> QED
  BY <1>1 DEF Ownership, Pinned

\* Closing steps of the main thread, but for the end of a response.
LEMMA ClosingOwnership ==
  ASSUME Based, Ownership, DatabasesSpared,
         \/ FlushFails \/ CloseUnarmed
         \/ \E f \in Fds : HangupEvent(f) \/ DispatchReadFails(f)
         \/ \E c \in Conns : TimerGiveUp(c)
  PROVE  Ownership'
<1>0. /\ TypeOK /\ Located /\ conn \in ConnTable
      /\ \A f \in Fds : store[f] \in Conns \cup {None}
      /\ \A f \in Fds : Sound(f)
  BY DEF Based, TypeOK, ConnTable, Ownership
<1>1. ASSUME NEW f \in Fds, HangupEvent(f) \/ DispatchReadFails(f) PROVE Ownership'
  <2>1. /\ CloseConnection(conn, f)
        /\ pc = "events" /\ batch[f] # "none" /\ batch' = [batch EXCEPT ![f] = "none"]
        /\ UNCHANGED <<queueVars, pc, ret, cur, snapshot, received>>
    BY <1>1 DEF HangupEvent, DispatchReadFails, TakeEvent
  <2>2. owner[f] \notin Workers
    <3>1. CASE HangupEvent(f)
      BY <3>1 DEF HangupEvent, DatabasesSpared
    <3>2. CASE DispatchReadFails(f)
      BY <1>0, <3>2, NameAssumption DEF DispatchReadFails, Sound, Owned
    <3> QED
      BY <1>1, <3>1, <3>2
  <2>3. store[f] # None => ~AtLogic(store[f])
    BY <1>0, <2>1, NotAtLogic
  <2>4. /\ \A g \in Fds : g # f => batch'[g] = batch[g]
        /\ batch'[f] # "IN"
    BY <1>0, <2>1 DEF TypeOK, Sources
  <2>5. /\ \A c \in Conns : ~InHand(c)
        /\ snapshot' = {} /\ pc' \notin {"parse", "flush", "arm", "unarmed"}
    BY <2>1 DEF InHand, Ownership, Visiting
  <2>6. Spent' /\ ResponseToOwnClient'
    BY <2>1 DEF Spent, Between, Drained, Ownership, ResponseToOwnClient
  <2> QED
    BY <1>0, <2>1, <2>2, <2>3, <2>4, <2>5, <2>6, CloseKeeps
<1>2. ASSUME NEW c \in Conns, TimerGiveUp(c) PROVE Ownership'
  <2> DEFINE f == conn[c].fd
  <2>1. /\ CloseConnection(conn, f)
        /\ pc = "timer" /\ c \in snapshot /\ conn[c].left > 0
        /\ snapshot' = snapshot \ {c}
        /\ UNCHANGED <<queueVars, pc, ret, cur, batch, received>>
    BY <1>2 DEF TimerGiveUp
  <2>2. f \in Fds /\ store[f] = c
    BY <1>0, <2>1 DEF Located, Ownership, Visiting
  <2> HIDE DEF f
  <2>3. ~AtLogic(c) /\ batch[f] # "IN" /\ owner[f] = c
    <3>1. conn[c].left # 0
      BY <2>1
    <3>2. ~AtLogic(c)
      BY <1>0, <2>2, <3>1, NotAtLogic
    <3> QED
      BY <1>0, <2>2, <3>1, <3>2, NameAssumption DEF Sound, Owned, Batched
  <2>4. /\ \A d \in Conns : ~InHand(d)
        /\ pc' \notin {"parse", "flush", "arm", "unarmed"}
    BY <2>1 DEF InHand
  <2>5. Spent' /\ ResponseToOwnClient'
    BY <2>1 DEF Spent, Between, Drained, Ownership, ResponseToOwnClient
  <2> QED
    BY <1>0, <2>1, <2>2, <2>3, <2>4, <2>5, NameAssumption, CloseKeeps
<1>3. CASE FlushFails \/ CloseUnarmed
  <2> DEFINE f == conn[cur].fd
  <2>1. /\ CloseConnection(conn, f)
        /\ pc = "unarmed" \/ (pc = "flush" /\ conn[cur].left > 0)
        /\ pc' = ret /\ UNCHANGED <<queueVars, snapshot, batch, received>>
    BY <1>3 DEF FlushFails, CloseUnarmed, GoOn
  <2>2. /\ cur \in Conns /\ f \in Fds /\ store[f] = cur /\ owner[f] = cur
        /\ ~AtLogic(cur) /\ Held(cur, f) /\ \A c \in Conns : InHand(c) => c = cur
    BY <2>1, InHandFacts
  <2> HIDE DEF f
  <2>3. batch[f] # "IN"
    BY <1>0, <2>1, <2>2 DEF Sound, Batched, Held
  <2>4. /\ pc' \notin {"parse", "flush", "arm", "unarmed"} /\ cur \notin snapshot
        /\ snapshot # {} => pc' = "timer"
    BY <1>0, <2>1 DEF TypeOK, Drained, Ownership, Visiting
  <2>5. Spent' /\ ResponseToOwnClient'
    BY <1>0, <2>1 DEF Spent, Between, Ownership, ResponseToOwnClient, TypeOK
  <2> QED
    BY <1>0, <2>1, <2>2, <2>3, <2>4, <2>5, NameAssumption, CloseKeeps
<1> QED
  BY <1>1, <1>2, <1>3

------------------------------------------------------------------------------
(* Arming.                                                                     *)

\* UpdateConnectionEvents on the connection in hand, with the mask that fits what is
\* left to write, keeps the invariant, whether epoll_ctl succeeds or fails.
LEMMA UpdateKeeps ==
  ASSUME Based, Ownership, NEW c \in Conns, NEW f \in Fds, NEW cn \in ConnTable, NEW mask,
         NEW r \in Drained \cup {"events", "timer", "accept"},
         pc \in {"parse", "arm"}, cur = c, conn[c].fd = f,
         UpdateConnectionEvents(cn, c, mask, r),
         \A d \in Conns : d # c => cn[d] = conn[d],
         cn[c].fd = f, ~cn[c].processing,
         cn[c].left = conn[c].left, cn[c].registered = conn[c].registered,
         mask = IF conn[c].left > 0 THEN "OUT" ELSE "IN",
         batch[f] # "IN",
         UNCHANGED <<queueVars, batch, snapshot, received>>,
         snapshot # {} => r = "timer",
         r \in Drained => \A s \in Sources : batch[s] = "none"
  PROVE  Ownership'
<1>0. TypeOK /\ Located /\ conn \in ConnTable /\ None \notin Conns
  BY NameAssumption DEF Based, TypeOK, ConnTable
<1>1. /\ store[f] = c /\ owner[f] = c /\ ~AtLogic(c)
      /\ \A d \in Conns : InHand(d) => d = c
  BY InHandFacts
<1>2. ResponseToOwnClient'
  BY DEF Ownership, ResponseToOwnClient
<1>3. c \notin snapshot
  BY DEF Ownership, Visiting
<1>6. \A d : AtLogic(d)' <=> AtLogic(d)
  BY DEF AtLogic, AtWorker, queueVars
<1>7. /\ \A g \in Fds : Sound(g)
      /\ \A d \in Conns : AtLogic(d) => Pinned(d)
  BY DEF Ownership
<1>8. \A g \in Fds : g # f => store[g] = None \/ store[g] # c
  BY <1>0, <1>1, OneNumber
<1>9. \A d \in snapshot : d \in Conns /\ d # c /\ store[conn[d].fd] = d
  BY <1>0, <1>3 DEF Ownership, Visiting, TypeOK
<1>4. CASE /\ ~(cn[c].registered /\ interest[f] # "none")
           /\ conn' = cn
           /\ pc' = "unarmed" /\ cur' = c /\ ret' = r
           /\ UNCHANGED <<sock, owner, interest, rdy, store>>
  <2>1. Elsewhere(f, c)
    BY <1>1, <1>4, <1>6, <1>8 DEF Elsewhere, Same, Kept
  <2>2. /\ \A g \in Fds : g # f => Sound(g)'
        /\ \A d \in Conns : d # c /\ AtLogic(d)' => Pinned(d)'
    BY <1>0, <1>7, <2>1, ElsewhereKept
  <2>3. Owned(f) /\ Watched(c, f)
    BY <1>1, <1>7 DEF Sound
  <2>4. interest[f] = "none"
    BY <1>4, <2>3 DEF Watched
  <2>5. Poll(f)' = "none"
    BY <1>4, <2>4 DEF Poll, SocketEvent
  <2>6. InHand(c)'
    BY <1>4 DEF InHand
  <2>7. Sound(f)'
    <3>1. Owned(f)' /\ Edge(f)'
      BY <1>4, <2>3, <2>5 DEF Owned, Edge
    <3>2. Watched(c, f)'
      BY <1>4, <2>3, <2>4, <2>6 DEF Watched, Busy
    <3>3. Batched(f)'
      BY <2>5 DEF Batched
    <3> QED
      BY <1>1, <1>4, <3>1, <3>2, <3>3 DEF Sound
  <2>8. \A d \in Conns : AtLogic(d)' => Pinned(d)'
    BY <1>1, <1>6, <2>2
  <2>9. \A d \in Conns, g \in Fds : cur' = d /\ conn'[d].fd = g => Held(d, g)'
    BY <1>1, <1>4, <1>6, <2>4 DEF Held
  <2>10. Visiting'
    <3>1. \A d \in snapshot' : store'[conn'[d].fd] = d
      BY <1>4, <1>9
    <3> QED
      BY <1>3, <1>4, <3>1 DEF Visiting
  <2>11. LogicKeepsItsDatabase' /\ Spent'
    BY <1>4 DEF Ownership, LogicKeepsItsDatabase, queueVars, Spent, Between, Drained
  <2> QED
    BY <1>2, <2>2, <2>7, <2>8, <2>9, <2>10, <2>11 DEF Ownership
<1>5. CASE /\ Control(f, mask)
           /\ conn' = [cn EXCEPT ![c].registered = TRUE]
           /\ pc' = r /\ cur' = None
           /\ UNCHANGED <<sock, owner, store>>
  <2>1. /\ \A g \in Fds : g # f => interest'[g] = interest[g]
        /\ interest'[f] = mask
        /\ rdy \subseteq rdy'
        /\ SocketEvent(sock[c], mask) # "none" => f \in rdy'
    BY <1>0, <1>1, <1>5 DEF Control, TypeOK
  <2>2. /\ \A d \in Conns : d # c => conn'[d] = conn[d]
        /\ conn'[c].fd = f /\ ~conn'[c].processing /\ conn'[c].left = conn[c].left
        /\ conn'[c].registered
    BY <1>5 DEF ConnTable, ConnectionType
  <2>5. Elsewhere(f, c)
    BY <1>1, <1>5, <1>6, <1>8, <2>1, <2>2 DEF Elsewhere, Same, Kept
  <2>6. /\ \A g \in Fds : g # f => Sound(g)'
        /\ \A d \in Conns : d # c /\ AtLogic(d)' => Pinned(d)'
    BY <1>0, <1>7, <2>5, ElsewhereKept
  <2>7. Sound(f)'
    <3>1. /\ store'[f] = c /\ owner'[f] = c /\ interest'[f] = mask /\ mask # "none"
          /\ batch'[f] # "IN"
      BY <1>1, <1>5, <2>1
    <3>2. Poll(f)' # "none" => f \in rdy'
      BY <1>5, <2>1, <3>1 DEF Poll
    <3>3. Owned(f)' /\ Edge(f)'
      BY <3>1, <3>2 DEF Owned, Edge
    <3>4. Watched(c, f)'
      BY <2>2, <3>1 DEF Watched
    <3>5. Batched(f)'
      BY <3>1, <3>2 DEF Batched
    <3> QED
      BY <3>1, <3>3, <3>4, <3>5 DEF Sound
  <2>8. \A d \in Conns : AtLogic(d)' => Pinned(d)'
    BY <1>1, <1>6, <2>6
  <2>9. \A d \in Conns, g \in Fds : Held(d, g)'
    BY <1>5 DEF Held, Drained
  <2>10. Visiting'
    <3>1. \A d \in snapshot' : store'[conn'[d].fd] = d
      BY <1>5, <1>9, <2>2
    <3> QED
      BY <1>5, <3>1 DEF Visiting, Drained
  <2>11. LogicKeepsItsDatabase' /\ Spent'
    BY <1>5 DEF Ownership, LogicKeepsItsDatabase, queueVars, Spent, Between, Drained
  <2> QED
    BY <1>2, <2>6, <2>7, <2>8, <2>9, <2>10, <2>11 DEF Ownership
<1> QED
  BY <1>4, <1>5 DEF UpdateConnectionEvents, GoOn, socketVars

LEMMA ArmingOwnership ==
  ASSUME Based, Ownership, ParseIncomplete \/ ArmConnection
  PROVE  Ownership'
<1> DEFINE f == conn[cur].fd
<1>0. TypeOK /\ conn \in ConnTable
  BY DEF Based, TypeOK, ConnTable
<1>1. pc \in {"parse", "arm"} /\ UNCHANGED <<queueVars, batch, snapshot, received>>
  BY DEF ParseIncomplete, ArmConnection
<1>2. /\ cur \in Conns /\ f \in Fds /\ store[f] = cur /\ Held(cur, f)
      /\ conn[cur] \in ConnectionType
  BY <1>0, <1>1, InHandFacts DEF ConnTable
<1>3. CASE ParseIncomplete
  <2>1. pc = "parse" /\ UpdateConnectionEvents(Unmarked(cur), cur, "IN", "events")
    BY <1>3 DEF ParseIncomplete
  <2>2. Pinned(cur)
    BY <1>2, <2>1 DEF Held
  <2>3. Unmarked(cur) \in ConnTable
    BY <1>0, <1>2, ConnFields DEF Unmarked
  <2>4. /\ \A d \in Conns : d # cur => Unmarked(cur)[d] = conn[d]
        /\ Unmarked(cur)[cur].fd = f /\ ~Unmarked(cur)[cur].processing
        /\ Unmarked(cur)[cur].left = conn[cur].left
        /\ Unmarked(cur)[cur].registered = conn[cur].registered
    BY <1>0, <1>2 DEF Unmarked, ConnTable, ConnectionType
  <2>5. snapshot = {}
    BY <2>1 DEF Ownership, Visiting
  <2> QED
    BY <1>1, <1>2, <2>1, <2>2, <2>3, <2>4, <2>5, UpdateKeeps DEF Pinned, Drained
<1>4. CASE ArmConnection
  <2>1. pc = "arm" /\ UpdateConnectionEvents(conn, cur, ArmMask, ret)
    BY <1>4 DEF ArmConnection
  <2>2. /\ ~conn[cur].processing /\ batch[f] # "IN"
        /\ ret = "accept" <=> conn[cur].left = 0
    BY <1>2, <2>1 DEF Held
  <2>3. ArmMask = IF conn[cur].left > 0 THEN "OUT" ELSE "IN"
    <3>1. conn[cur].left \in Nat
      BY <1>2 DEF ConnectionType
    <3> QED
      BY <2>2, <3>1 DEF ArmMask
  <2>4. /\ ret \in Drained \cup {"events", "timer", "accept"}
        /\ snapshot # {} => ret = "timer"
    BY <1>0, <2>1 DEF TypeOK, Ownership, Visiting
  <2>5. ret \in Drained => \A s \in Sources : batch[s] = "none"
    BY <2>1 DEF Spent, Between, Ownership
  <2> QED
    BY <1>0, <1>1, <1>2, <2>1, <2>2, <2>3, <2>4, <2>5, UpdateKeeps
<1> QED
  BY <1>3, <1>4

------------------------------------------------------------------------------
(* Writing.                                                                    *)

\* Steps that leave sockets, masks, tables and pipeline alone, take no client's
\* event and let go of no connection.
LEMMA StillKeeps ==
  ASSUME Based, Ownership,
         UNCHANGED <<sock, owner, interest, rdy, store, worker>>,
         \A c \in Conns : Kept(c),
         \A f \in Fds : batch'[f] = batch[f],
         \A c \in Conns : InHand(c) => InHand(c)'
  PROVE  /\ \A f \in Fds : Sound(f)'
         /\ \A c \in Conns : AtLogic(c)' => Pinned(c)'
         /\ LogicKeepsItsDatabase'
<1>1. \A f \in Fds : Same(f)
  BY DEF Same
<1>2. \A f \in Fds : Sound(f)'
  BY <1>1, SoundKept DEF Ownership, Based
<1>3. \A c \in Conns : AtLogic(c)' => Pinned(c)'
  BY <1>1, PinnedKept DEF Ownership, Kept, Pinned
<1>4. LogicKeepsItsDatabase'
  BY DEF Ownership, LogicKeepsItsDatabase
<1> QED
  BY <1>2, <1>3, <1>4

\* send() on the response of the connection in hand.
LEMMA SendOwnership ==
  ASSUME Based, Ownership, FlushSend
  PROVE  Ownership'
<1>0. /\ TypeOK /\ Located /\ conn \in ConnTable /\ None \notin Conns
      /\ pc = "flush" /\ conn[cur].left > 0
      /\ UNCHANGED <<queueVars, batch, snapshot>>
  BY NameAssumption DEF Based, TypeOK, ConnTable, FlushSend
<1> PICK c \in Conns, f \in Fds : c = cur /\ f = conn[cur].fd
  BY <1>0, InHandFacts
<1> DEFINE cn == [conn EXCEPT ![c].left = 0, ![c].retries = 0, ![c].due = FALSE]
<1>1. /\ store[f] = c /\ owner[f] = c /\ ~AtLogic(c) /\ conn[c].left > 0
      /\ \A d \in Conns : InHand(d) => d = c
      /\ conn[c] \in ConnectionType
  BY <1>0, InHandFacts DEF ConnTable
<1>2. Held(c, f) /\ Sound(f)
  BY <1>1 DEF Ownership
<1>3. ResponseToOwnClient'
  <2>1. received' = [received EXCEPT ![c] = @ \cup {c}]
    BY <1>1 DEF FlushSend, Target
  <2>2. \A w \in Workers : w # c
    BY NameAssumption
  <2> QED
    BY <1>0, <1>1, <2>1, <2>2 DEF Ownership, ResponseToOwnClient, TypeOK
<1>4. batch[f] # "IN"
  BY <1>0, <1>1, <1>2 DEF Sound, Batched
<1>5. CASE CloseConnection(cn, f) /\ pc' = ret
  <2>1. cn = [conn EXCEPT ![c] = [conn[c] EXCEPT !.left = 0, !.retries = 0, !.due = FALSE]]
    BY <1>0, <1>1 DEF ConnTable
  <2>2. [conn[c] EXCEPT !.left = 0, !.retries = 0, !.due = FALSE] \in ConnectionType
    <3>1. 0 \in Nat /\ 0 \in 0..MaxWriteRetry
      BY SizeAssumption
    <3> QED
      BY <1>1, <3>1 DEF ConnectionType
  <2>3. /\ cn \in ConnTable
        /\ \A d \in Conns : cn[d].fd = conn[d].fd
        /\ \A d \in Conns : d # c => cn[d] = conn[d]
    BY <1>0, <1>1, <2>1, <2>2 DEF ConnTable, ConnectionType
  <2>4. /\ pc' \notin {"parse", "flush", "arm", "unarmed"} /\ c \notin snapshot
        /\ snapshot # {} => pc' = "timer"
    BY <1>0, <1>5 DEF TypeOK, Drained, Ownership, Visiting
  <2>5. Spent'
    BY <1>0, <1>2, <1>5 DEF Spent, Between, Ownership, TypeOK
  <2>6. owner[f] \notin Workers
    BY <1>1, NameAssumption
  <2> HIDE DEF cn
  <2> QED
    BY <1>0, <1>1, <1>3, <1>4, <1>5, <2>3, <2>4, <2>5, <2>6, CloseKeeps
<1>6. CASE /\ ~(conn[c].left <= sock[c].room)
           /\ conn' = [conn EXCEPT ![c].left = @ - sock[c].room,
                                   ![c].retries = 0, ![c].due = FALSE]
           /\ sock' = [sock EXCEPT ![c].room = 0]
           /\ UNCHANGED <<owner, interest, rdy, store, pc, ret, cur>>
  <2>1. /\ conn'[c].fd = f /\ conn'[c].left > 0
        /\ conn'[c].processing = conn[c].processing
        /\ conn'[c].registered = conn[c].registered
        /\ \A d \in Conns : d # c => conn'[d] = conn[d] /\ sock'[d] = sock[d]
    <3>1. conn[c].left \in Nat /\ sock[c].room \in Nat
      BY <1>0, <1>1, SizeAssumption DEF ConnectionType, TypeOK, SocketType
    <3> QED
      BY <1>0, <1>1, <1>6, <3>1 DEF ConnTable, ConnectionType, TypeOK
  <2>2. \A d : AtLogic(d)' <=> AtLogic(d)
    BY <1>0 DEF AtLogic, AtWorker, queueVars
  <2>3. Elsewhere(f, c)
    <3>1. \A g \in Fds : g # f => store[g] = None \/ store[g] # c
      BY <1>0, <1>1, OneNumber
    <3> QED
      BY <1>0, <1>1, <1>6, <2>1, <2>2, <3>1 DEF Elsewhere, Same, Kept, InHand
  <2>4. /\ \A g \in Fds : g # f => Sound(g)'
        /\ \A d \in Conns : d # c /\ AtLogic(d)' => Pinned(d)'
    BY <1>0, <1>1, <2>3, ElsewhereKept DEF Ownership
  <2>5. Sound(f)'
    <3>1. /\ store'[f] = c /\ owner'[f] = c /\ interest'[f] = interest[f]
          /\ batch'[f] = batch[f] /\ InHand(c)'
      BY <1>0, <1>1, <1>6 DEF InHand
    <3>2. Watched(c, f)'
      BY <1>0, <1>1, <1>2, <2>1, <3>1 DEF Sound, Watched, Busy
    <3>3. Edge(f)'
      BY <3>1 DEF Edge, InHand
    <3> QED
      BY <1>4, <2>1, <3>1, <3>2, <3>3, <1>1 DEF Sound, Owned, Batched
  <2>6. \A d \in Conns, g \in Fds : cur' = d /\ conn'[d].fd = g => Held(d, g)'
    <3>1. cur' = c /\ conn'[c].fd = f
      BY <1>6, <2>1
    <3>2. Held(c, f)'
      BY <1>0, <1>1, <1>2, <1>6, <2>1, <2>2 DEF Held
    <3> QED
      BY <3>1, <3>2
  <2>7. Visiting'
    <3>1. \A d \in snapshot : d \in Conns /\ d # c /\ store[conn[d].fd] = d
      BY <1>0 DEF Ownership, Visiting, TypeOK
    <3> QED
      BY <1>0, <1>6, <2>1, <3>1 DEF Visiting, Ownership
  <2>8. LogicKeepsItsDatabase' /\ Spent'
    BY <1>0, <1>6 DEF Ownership, LogicKeepsItsDatabase, Spent, Between, queueVars
  <2> QED
    BY <1>1, <1>3, <2>2, <2>4, <2>5, <2>6, <2>7, <2>8 DEF Ownership
<1> QED
  BY <1>1, <1>5, <1>6 DEF FlushSend, GoOn, Target

\* The send buffer is full, or there is nothing to send.
LEMMA FlushEndsOwnership ==
  ASSUME Based, Ownership, FlushBlocked \/ FlushNothing
  PROVE  Ownership'
<1> USE DEF kernelVars, queueVars
<1>0. /\ TypeOK /\ pc = "flush" /\ conn[cur].left \in Nat
      /\ UNCHANGED <<kernelVars, store, conn, queueVars, ret, cur, snapshot, batch, received>>
  <2>1. conn[cur].left \in Nat
    BY DEF FlushBlocked, FlushNothing, Based, Located, TypeOK, ConnectionType
  <2> QED
    BY <2>1 DEF FlushBlocked, FlushNothing, Based
<1> PICK c \in Conns, f \in Fds : c = cur /\ f = conn[cur].fd
  BY <1>0, InHandFacts
<1>1. /\ store[f] = c /\ owner[f] = c /\ ~AtLogic(c) /\ c # None
      /\ \A d \in Conns : InHand(d) => d = c
      /\ Held(c, f) /\ Sound(f)
  BY <1>0, InHandFacts, NameAssumption DEF Ownership
<1>2. /\ \A d : AtLogic(d)' <=> AtLogic(d)
      /\ \A d \in Conns : Kept(d)
  BY <1>0 DEF AtLogic, AtWorker, Kept
<1>3. Visiting' /\ ResponseToOwnClient'
  <2>1. pc' \in {"arm", "stuck"}
    BY DEF FlushBlocked, FlushNothing
  <2> QED
    BY <1>0, <2>1 DEF Ownership, Visiting, ResponseToOwnClient
<1>4. CASE FlushBlocked
  <2>1. pc' = "arm" /\ conn[c].left > 0
    BY <1>4 DEF FlushBlocked
  <2>2. \A d \in Conns : InHand(d) => InHand(d)'
    BY <1>0, <2>1 DEF InHand
  <2>3. /\ \A g \in Fds : Sound(g)'
        /\ \A d \in Conns : AtLogic(d)' => Pinned(d)'
        /\ LogicKeepsItsDatabase'
    BY <1>0, <1>2, <2>2, StillKeeps
  <2>4. batch[f] # "IN"
    BY <1>1, <2>1 DEF Sound, Batched
  <2>5. Held(c, f)'
    BY <1>0, <1>1, <1>2, <2>1, <2>4 DEF Held
  <2>6. Spent'
    BY <1>0, <2>1 DEF Ownership, Spent, Between, Drained
  <2> QED
    BY <1>0, <1>3, <2>3, <2>5, <2>6 DEF Ownership
<1>5. CASE FlushNothing
  <2>1. pc' = "stuck" /\ conn[c].left = 0
    BY <1>5 DEF FlushNothing
  <2>2. Elsewhere(f, c)
    <3>1. \A g \in Fds : g # f => store[g] = None \/ store[g] # c
      BY <1>0, <1>1, OneNumber DEF Based
    <3> QED
      BY <1>0, <1>1, <1>2, <3>1 DEF Elsewhere, Same
  <2>3. /\ \A g \in Fds : g # f => Sound(g)'
        /\ \A d \in Conns : d # c /\ AtLogic(d)' => Pinned(d)'
    BY <1>0, <2>2, ElsewhereKept DEF Ownership
  <2>4. interest[f] # "none" /\ (Poll(f) # "none" => f \in rdy) /\ Poll(f)' = Poll(f)
    BY <1>0, <1>1, <2>1, PollKept DEF Held
  <2>5. Sound(f)'
    <3>1. Watched(c, f)'
      BY <1>0, <1>1, <2>4 DEF Sound, Watched
    <3>2. Owned(f)' /\ Batched(f)' /\ Edge(f)'
      BY <1>0, <1>1, <2>4 DEF Sound, Owned, Batched, Edge
    <3> QED
      BY <1>0, <1>1, <3>1, <3>2 DEF Sound
  <2>6. \A d \in Conns, g \in Fds : Held(d, g)'
    BY <2>1 DEF Held
  <2>7. Spent' /\ LogicKeepsItsDatabase'
    BY <1>0, <2>1 DEF Spent, Between, Drained, Ownership, LogicKeepsItsDatabase
  <2> QED
    BY <1>1, <1>2, <1>3, <2>3, <2>5, <2>6, <2>7 DEF Ownership
<1> QED
  BY <1>4, <1>5

\* The connection an event "OUT" or the timer finds is taken in hand.
LEMMA TakenInHandOwnership ==
  ASSUME Based, Ownership,
         \/ \E f \in Fds : WritableEvent(f)
         \/ \E c \in Conns : TimerRetry(c)
  PROVE  Ownership'
<1> USE DEF kernelVars, queueVars
<1>0. TypeOK /\ Located /\ conn \in ConnTable /\ None \notin Conns
  BY NameAssumption DEF Based, TypeOK, ConnTable
<1>1. PICK f \in Fds, c \in Conns :
        /\ store[f] = c /\ conn[c].fd = f
        /\ \/ WritableEvent(f)
           \/ TimerRetry(c) /\ conn[c].left > 0 /\ c \in snapshot
  <2>1. ASSUME NEW f \in Fds, WritableEvent(f)
        PROVE  store[f] \in Conns /\ conn[store[f]].fd = f
    BY <1>0, <2>1 DEF WritableEvent, TypeOK, Located
  <2>2. ASSUME NEW c \in Conns, TimerRetry(c)
        PROVE  /\ conn[c].fd \in Fds /\ store[conn[c].fd] = c
               /\ conn[c].left > 0 /\ c \in snapshot
    BY <1>0, <2>2 DEF TimerRetry, Located, Ownership, Visiting
  <2> QED
    BY <2>1, <2>2
<1>2. /\ pc \in {"events", "timer"} /\ pc' = "flush" /\ cur' = c
      /\ UNCHANGED <<kernelVars, store, queueVars, received>>
      /\ batch' \in {batch, [batch EXCEPT ![f] = "none"]}
      /\ conn'[c].fd = conn[c].fd
  <2>1. CASE WritableEvent(f)
    BY <1>1, <2>1 DEF WritableEvent, TakeEvent, FlushConnection
  <2>2. CASE TimerRetry(c)
    BY <1>0, <1>1, <2>2 DEF TimerRetry, Retried, FlushConnection, ConnTable, ConnectionType
  <2> QED
    BY <1>1, <2>1, <2>2
<1>3. \A d \in Conns : Kept(d)
  <2>1. \A d : AtLogic(d)' <=> AtLogic(d)
    BY <1>2 DEF AtLogic, AtWorker
  <2>2. \/ conn' = conn
        \/ conn' = [conn EXCEPT ![c].retries = @ + 1, ![c].due = FALSE]
    BY <1>1 DEF WritableEvent, TimerRetry, Retried
  <2>3. \A d \in Conns : /\ conn'[d].fd = conn[d].fd
                         /\ conn'[d].left = conn[d].left
                         /\ conn'[d].processing = conn[d].processing
                         /\ conn'[d].registered = conn[d].registered
    BY <1>0, <2>2 DEF ConnTable, ConnectionType
  <2> QED
    BY <2>1, <2>3 DEF Kept
<1>4. \A d \in Conns : ~InHand(d)
  BY <1>2 DEF InHand
<1>5. /\ ~AtLogic(c) /\ ~conn[c].processing /\ interest[f] # "none"
      /\ conn[c].left = 0 => (Poll(f) # "none" => f \in rdy)
      /\ Sound(f)
  <2>1. batch[f] # "none" \/ conn[c].left # 0
    BY <1>1 DEF WritableEvent
  <2>2. ~AtLogic(c)
    BY <1>1, <2>1, NotAtLogic
  <2>3. Sound(f)
    BY DEF Ownership
  <2>4. ~conn[c].processing /\ interest[f] # "none"
    BY <1>1, <1>4, <2>2, <2>3 DEF Sound, Watched, Busy
  <2>5. conn[c].left = 0 => (Poll(f) # "none" => f \in rdy)
    BY <1>1, <2>3 DEF Sound, Batched, WritableEvent
  <2> QED
    BY <2>2, <2>3, <2>4, <2>5
<1>6. Elsewhere(f, c)
  <2>1. \A g \in Fds : g # f => store[g] = None \/ store[g] # c
    BY <1>0, <1>1, OneNumber
  <2>2. \A g \in Fds : g # f => batch'[g] = batch[g]
    BY <1>0, <1>2 DEF TypeOK, Sources
  <2> QED
    BY <1>1, <1>2, <1>3, <1>4, <2>1, <2>2 DEF Elsewhere, Same
<1>7. /\ \A g \in Fds : g # f => Sound(g)'
      /\ \A d \in Conns : d # c /\ AtLogic(d)' => Pinned(d)'
  BY <1>0, <1>6, ElsewhereKept DEF Ownership
<1>8. batch'[f] \in {batch[f], "none"} /\ Poll(f)' = Poll(f) /\ owner[f] = c
  BY <1>0, <1>1, <1>2, <1>5, PollKept DEF TypeOK, Sources, Sound, Owned
<1>9. Sound(f)'
  <2>1. Watched(c, f)'
    BY <1>1, <1>2, <1>3, <1>5 DEF Sound, Watched, Kept
  <2>2. Owned(f)' /\ Edge(f)'
    BY <1>2, <1>5, <1>8 DEF Sound, Owned, Edge, InHand
  <2>3. Batched(f)'
    BY <1>1, <1>2, <1>3, <1>5, <1>8 DEF Sound, Batched, Kept
  <2> QED
    BY <1>1, <1>2, <2>1, <2>2, <2>3 DEF Sound
<1>10. /\ ret' \in {"events", "timer"} /\ (snapshot' # {} => ret' = "timer")
       /\ c \notin snapshot' /\ snapshot' \subseteq snapshot
       /\ conn[c].left = 0 => ret' = "events"
  <2>1. CASE WritableEvent(f)
    BY <1>1, <2>1 DEF WritableEvent, TakeEvent, FlushConnection, Ownership, Visiting
  <2>2. CASE TimerRetry(c)
    BY <1>0, <1>1, <2>2 DEF TimerRetry, Retried, FlushConnection
  <2> QED
    BY <1>1, <2>1, <2>2
<1>11. Held(c, f)'
  BY <1>2, <1>3, <1>5, <1>8, <1>1, <1>10 DEF Held, Kept
<1>12. Visiting'
  <2>1. \A d \in snapshot' : d \in Conns /\ store'[conn'[d].fd] = d
    BY <1>0, <1>2, <1>3, <1>10 DEF Ownership, Visiting, TypeOK, Kept
  <2> QED
    BY <1>2, <1>10, <2>1 DEF Visiting
<1>13. Spent' /\ LogicKeepsItsDatabase' /\ ResponseToOwnClient'
  BY <1>2, <1>10 DEF Spent, Between, Drained, Ownership, LogicKeepsItsDatabase, ResponseToOwnClient
<1>14. AtLogic(c)' <=> AtLogic(c)
  BY <1>3 DEF Kept
<1>15. \A d \in Conns, g \in Fds : cur' = d /\ conn'[d].fd = g => Held(d, g)'
  BY <1>1, <1>2, <1>11
<1> QED
  BY <1>5, <1>7, <1>9, <1>12, <1>13, <1>14, <1>15 DEF Ownership

\* A bad request, or a result of the logic threads, takes its connection out of the
\* pipeline.
LEMMA WhoIsAnswered ==
  ASSUME Based, Ownership, ParseBad \/ HandleLogicResult
  PROVE  \E c \in Conns, r \in Drained \cup {"events"} :
           /\ Pinned(c) /\ QueueResponse(c, r)
           /\ \A d \in Conns : InHand(d) => d = c
           /\ r \in Drained => pc \in Drained
           /\ \/ Parsing(c) /\ ~AtLogic(c)
              \/ AtLogic(c) /\ pc # "parse"
           /\ ~AtLogic(c)'
           /\ \A d \in Conns : d # c => (AtLogic(d)' <=> AtLogic(d))
<1> USE DEF kernelVars
<1>0. TypeOK
  BY DEF Based
<1>1. CASE ParseBad
  <2>1. /\ cur \in Conns /\ Pinned(cur) /\ ~AtLogic(cur)
        /\ \A d \in Conns : InHand(d) => d = cur
    BY <1>1, InHandFacts DEF ParseBad, Held
  <2>2. \A d : AtLogic(d)' <=> AtLogic(d)
    BY <1>1 DEF ParseBad, AtLogic, AtWorker, queueVars
  <2> QED
    BY <1>1, <2>1, <2>2 DEF ParseBad, Drained, Parsing
<1>2. CASE HandleLogicResult
  <2>1. PICK c \in Conns : c = Head(results)
    BY <1>0, <1>2, PoppedQueue DEF HandleLogicResult, TypeOK
  <2>2. /\ Elements(results) = Elements(results') \cup {c}
        /\ c \notin Elements(results')
    BY <1>0, <1>2, <2>1, PoppedQueue DEF HandleLogicResult, TypeOK, Based, OneRequestInFlight
  <2>3. /\ UNCHANGED <<requests, worker>> /\ pc \in Drained /\ QueueResponse(c, pc)
    BY <1>2, <2>1 DEF HandleLogicResult
  <2>4. Pinned(c) /\ AtLogic(c)
    BY <2>2 DEF AtLogic, Ownership
  <2>5. ~AtLogic(c)'
    BY <2>2, <2>3 DEF AtLogic, AtWorker, Based, OneRequestInFlight
  <2>6. \A d \in Conns : d # c => (AtLogic(d)' <=> AtLogic(d))
    BY <2>2, <2>3 DEF AtLogic, AtWorker
  <2>7. (\A d \in Conns : ~InHand(d)) /\ pc # "parse"
    BY <2>3 DEF InHand, Drained
  <2> QED
    BY <2>3, <2>4, <2>5, <2>6, <2>7
<1> QED
  BY <1>1, <1>2

\* A response is set up on a pinned connection, which leaves the pipeline.
LEMMA ResponseOwnership ==
  ASSUME Based, Ownership, ParseBad \/ HandleLogicResult
  PROVE  Ownership'
<1> USE DEF kernelVars
<1>0. TypeOK /\ Located /\ conn \in ConnTable /\ None \notin Conns
  BY NameAssumption DEF Based, TypeOK, ConnTable
<1>1. PICK c \in Conns, r \in Drained \cup {"events"} :
        /\ Pinned(c) /\ QueueResponse(c, r)
        /\ \A d \in Conns : InHand(d) => d = c
        /\ r \in Drained => pc \in Drained
        /\ ~AtLogic(c)'
        /\ \A d \in Conns : d # c => (AtLogic(d)' <=> AtLogic(d))
  BY WhoIsAnswered
<1>2. /\ UNCHANGED <<sock, owner, interest, rdy, store, worker, batch, snapshot, received>>
      /\ pc' = "flush" /\ cur' = c /\ ret' = r /\ pc \in Drained \cup {"parse"}
  BY <1>1 DEF ParseBad, HandleLogicResult, QueueResponse, queueVars
<1> PICK f \in Fds : f = conn[c].fd
  BY <1>1 DEF Pinned
<1>3. /\ store[f] = c /\ interest[f] = "none" /\ batch[f] = "none" /\ Sound(f)
  BY <1>1 DEF Pinned, Ownership
<1>4. /\ conn'[c].fd = f /\ conn'[c].left > 0 /\ ~conn'[c].processing
      /\ conn'[c].registered = conn[c].registered
      /\ \A d \in Conns : d # c => conn'[d] = conn[d]
  <2>1. PICK n \in RespLens :
          conn' = [conn EXCEPT ![c].left = n, ![c].retries = 0, ![c].due = FALSE,
                               ![c].processing = FALSE]
    BY <1>1 DEF QueueResponse
  <2>2. n > 0
    BY SizeAssumption
  <2> QED
    BY <1>0, <2>1, <2>2 DEF ConnTable, ConnectionType
<1>5. Elsewhere(f, c)
  <2>1. \A g \in Fds : g # f => store[g] = None \/ store[g] # c
    BY <1>0, <1>3, OneNumber
  <2> QED
    BY <1>1, <1>2, <1>3, <1>4, <2>1 DEF Elsewhere, Same, Kept
<1>6. /\ \A g \in Fds : g # f => Sound(g)'
      /\ \A d \in Conns : d # c /\ AtLogic(d)' => Pinned(d)'
  BY <1>0, <1>3, <1>5, ElsewhereKept DEF Ownership
<1>7. Sound(f)'
  <2>1. owner'[f] = c /\ Poll(f)' = "none" /\ InHand(c)'
    BY <1>0, <1>2, <1>3 DEF Sound, Owned, Poll, SocketEvent, InHand
  <2>2. Watched(c, f)'
    BY <1>2, <1>3, <1>4, <2>1 DEF Sound, Watched, Busy
  <2> QED
    BY <1>2, <1>3, <2>1, <2>2 DEF Sound, Owned, Batched, Edge
<1>8. \A d \in Conns, g \in Fds : cur' = d /\ conn'[d].fd = g => Held(d, g)'
  <2>1. Held(c, f)'
    BY <1>1, <1>2, <1>3, <1>4 DEF Held, Drained
  <2> QED
    BY <1>2, <1>4, <2>1
<1>9. snapshot = {}
  BY <1>2 DEF Ownership, Visiting, Drained
<1>10. Visiting' /\ ResponseToOwnClient' /\ LogicKeepsItsDatabase'
  BY <1>2, <1>9 DEF Visiting, Ownership, ResponseToOwnClient, LogicKeepsItsDatabase
<1>11. Spent'
  BY <1>1, <1>2 DEF Spent, Between, Ownership, Drained
<1> QED
  BY <1>1, <1>6, <1>7, <1>8, <1>10, <1>11 DEF Ownership

------------------------------------------------------------------------------
(* Reading, handing over, accepting.                                           *)

\* What an event "IN" finds is idle; it is pinned from now on.
LEMMA ReadOwnership ==
  ASSUME Based, Ownership, NEW f \in Fds, DispatchRead(f)
  PROVE  Ownership'
<1>0. TypeOK /\ Located /\ conn \in ConnTable /\ None \notin Conns
  BY NameAssumption DEF Based, TypeOK, ConnTable
<1>1. PICK c \in Conns : store[f] = c
  BY <1>0 DEF DispatchRead, TypeOK
<1>2. /\ Sound(f) /\ owner[f] = c /\ conn[c].fd = f /\ conn[c].left = 0 /\ ~conn[c].processing
      /\ ~AtLogic(c) /\ pc = "events"
  <2>1. batch[f] = "IN" /\ ~conn[c].processing /\ pc = "events"
    BY <1>1 DEF DispatchRead, TakeEvent
  <2>2. Sound(f)
    BY DEF Ownership
  <2> QED
    BY <1>0, <1>1, <2>1, <2>2, NotAtLogic DEF Sound, Owned, Batched, Located
<1>3. /\ pc' = "parse" /\ cur' = c
      /\ UNCHANGED <<owner, store, queueVars, snapshot, received>>
      /\ batch'[f] = "none" /\ \A g \in Fds : g # f => batch'[g] = batch[g]
      /\ interest'[f] = "none" /\ \A g \in Fds : g # f => interest'[g] = interest[g]
      /\ rdy' = rdy \ {f}
  BY <1>0, <1>1 DEF DispatchRead, TakeEvent, EpollDel, TypeOK, Sources
<1>4. /\ conn'[c].fd = f /\ conn'[c].left = 0 /\ conn'[c].processing /\ ~conn'[c].registered
      /\ \A d \in Conns : d # c => conn'[d] = conn[d] /\ sock'[d] = sock[d]
  <2>1. \E n \in Reads(f, conn[c].read) : conn' = Taken(c, n)
    BY <1>1 DEF DispatchRead
  <2>2. sock' = [sock EXCEPT ![c].rx = 0]
    BY <1>2 DEF DispatchRead
  <2> QED
    BY <1>0, <1>2, <2>1, <2>2 DEF Taken, ConnTable, ConnectionType, TypeOK
<1>5. \A d : AtLogic(d)' <=> AtLogic(d)
  BY <1>3 DEF AtLogic, AtWorker, queueVars
<1>6. Elsewhere(f, c)
  <2>1. \A g \in Fds : g # f => store[g] = None \/ store[g] # c
    BY <1>0, <1>1, OneNumber
  <2> QED
    BY <1>1, <1>2, <1>3, <1>4, <1>5, <2>1 DEF Elsewhere, Same, Kept, InHand
<1>7. /\ \A g \in Fds : g # f => Sound(g)'
      /\ \A d \in Conns : d # c /\ AtLogic(d)' => Pinned(d)'
  BY <1>0, <1>6, ElsewhereKept DEF Ownership
<1>8. Sound(f)'
  <2>1. Poll(f)' = "none"
    BY <1>3 DEF Poll, SocketEvent
  <2>2. Watched(c, f)'
    BY <1>3, <1>4 DEF Watched, Busy, InHand
  <2> QED
    BY <1>1, <1>2, <1>3, <2>1, <2>2 DEF Sound, Owned, Batched, Edge
<1>9. Pinned(c)'
  BY <1>1, <1>3, <1>4 DEF Pinned
<1>10. \A d \in Conns, g \in Fds : cur' = d => Held(d, g)'
  BY <1>3, <1>9 DEF Held
<1>11. snapshot = {}
  BY <1>2 DEF Ownership, Visiting
<1>12. Visiting' /\ ResponseToOwnClient' /\ LogicKeepsItsDatabase' /\ Spent'
  BY <1>3, <1>11 DEF Visiting, Ownership, ResponseToOwnClient, LogicKeepsItsDatabase, queueVars,
     Spent, Between, Drained
<1> QED
  BY <1>7, <1>8, <1>9, <1>10, <1>12 DEF Ownership

\* A complete request goes from the main thread to the queue.
LEMMA HandOverOwnership ==
  ASSUME Based, Ownership, ParseComplete
  PROVE  Ownership'
<1>0. TypeOK /\ Located /\ None \notin Conns
  BY NameAssumption DEF Based
<1>1. /\ pc = "parse" /\ pc' = "events"
      /\ requests' = Append(requests, cur)
      /\ UNCHANGED <<sock, owner, interest, rdy, store, conn, results, worker, snapshot, batch,
                     received>>
  BY DEF ParseComplete, GoOn, kernelVars
<1> PICK c \in Conns, f \in Fds : c = cur /\ f = conn[cur].fd
  BY <1>1, InHandFacts
<1>2. /\ store[f] = c /\ owner[f] = c /\ Pinned(c) /\ Sound(f)
      /\ \A d \in Conns : InHand(d) => d = c
  BY <1>1, InHandFacts DEF Held, Ownership
<1>3. Elements(requests') = Elements(requests) \cup {c}
  BY <1>0, <1>1, PushedQueue DEF TypeOK
<1>4. /\ AtLogic(c)'
      /\ \A d \in Conns : d # c => (AtLogic(d)' <=> AtLogic(d))
  BY <1>1, <1>3 DEF AtLogic, AtWorker
<1>5. Elsewhere(f, c)
  <2>1. \A g \in Fds : g # f => store[g] = None \/ store[g] # c
    BY <1>0, <1>2, OneNumber
  <2> QED
    BY <1>1, <1>2, <1>4, <2>1 DEF Elsewhere, Same, Kept
<1>6. /\ \A g \in Fds : g # f => Sound(g)'
      /\ \A d \in Conns : d # c /\ AtLogic(d)' => Pinned(d)'
  BY <1>0, <1>5, ElsewhereKept DEF Ownership
<1>7. Pinned(c)'
  BY <1>1, <1>2 DEF Pinned
<1>8. Sound(f)'
  <2>1. Poll(f)' = "none"
    BY <1>1, <1>2 DEF Poll, SocketEvent, Pinned
  <2>2. Watched(c, f)'
    BY <1>1, <1>2, <1>4 DEF Sound, Watched, Busy, Pinned
  <2> QED
    BY <1>1, <1>2, <2>1, <2>2 DEF Sound, Owned, Batched, Edge, Pinned
<1>9. \A d \in Conns, g \in Fds : Held(d, g)'
  BY <1>1 DEF Held
<1>10. snapshot = {}
  BY <1>1 DEF Ownership, Visiting
<1>11. Visiting' /\ ResponseToOwnClient' /\ LogicKeepsItsDatabase' /\ Spent'
  BY <1>1, <1>10 DEF Visiting, Ownership, ResponseToOwnClient, LogicKeepsItsDatabase,
     Spent, Between, Drained
<1> QED
  BY <1>6, <1>7, <1>8, <1>9, <1>11 DEF Ownership

\* A new client gets a free number, which no connection had in the table.
LEMMA AcceptOwnership ==
  ASSUME Based, Ownership, AcceptOne
  PROVE  Ownership'
<1>0. TypeOK /\ Located /\ conn \in ConnTable /\ None \notin Conns /\ None \notin Workers
  BY NameAssumption DEF Based, TypeOK, ConnTable
<1>1. PICK c \in Backlog, f \in Fds :
        /\ LowestFree(f)
        /\ sock' = [sock EXCEPT ![c].state = "open"]
        /\ owner' = [owner EXCEPT ![f] = c]
        /\ store' = [store EXCEPT ![f] = c]
        /\ conn' = [conn EXCEPT ![c] = NewConnection(f)]
        /\ cur' = c
  BY DEF AcceptOne
<1>2. /\ pc = "accept" /\ pc' = "arm" /\ ret' = "accept"
      /\ UNCHANGED <<interest, rdy, queueVars, snapshot, batch, received>>
  BY DEF AcceptOne
<1>3. /\ c \in Conns /\ conn[c].fd \notin Fds /\ ~AtLogic(c)
      /\ \A g \in Fds : store[g] # c
  BY <1>0 DEF Backlog, Located, Accepted
<1>4. /\ owner[f] = None /\ store[f] = None /\ interest[f] = "none" /\ batch[f] # "IN"
      /\ Sound(f)
  <2>1. owner[f] = None
    BY <1>1 DEF LowestFree, IsFree
  <2>2. Sound(f)
    BY DEF Ownership
  <2> QED
    BY <1>0, <2>1, <2>2 DEF Sound, Owned, Batched
<1>5. /\ store'[f] = c /\ owner'[f] = c /\ interest'[f] = "none"
      /\ \A g \in Fds : g # f => store'[g] = store[g] /\ owner'[g] = owner[g]
      /\ conn'[c] = NewConnection(f)
      /\ \A d \in Conns : d # c => conn'[d] = conn[d] /\ sock'[d] = sock[d]
  BY <1>0, <1>1, <1>2, <1>3, <1>4 DEF TypeOK
<1>6. \A d : AtLogic(d)' <=> AtLogic(d)
  BY <1>2 DEF AtLogic, AtWorker, queueVars
<1>7. Elsewhere(f, c)
  BY <1>2, <1>3, <1>4, <1>5, <1>6 DEF Elsewhere, Same, Kept, InHand
<1>8. /\ \A g \in Fds : g # f => Sound(g)'
      /\ \A d \in Conns : d # c /\ AtLogic(d)' => Pinned(d)'
  BY <1>0, <1>7, ElsewhereKept DEF Ownership
<1>9. Sound(f)'
  <2>1. Poll(f)' = "none"
    BY <1>5 DEF Poll, SocketEvent
  <2>2. Watched(c, f)'
    BY <1>1, <1>2, <1>5 DEF Watched, Busy, InHand, NewConnection
  <2> QED
    BY <1>0, <1>2, <1>3, <1>4, <1>5, <2>1, <2>2 DEF Sound, Owned, Batched, Edge
<1>10. \A d \in Conns, g \in Fds : cur' = d /\ conn'[d].fd = g => Held(d, g)'
  <2>1. Held(c, f)'
    BY <1>2, <1>3, <1>4, <1>5, <1>6 DEF Held, NewConnection
  <2> QED
    BY <1>1, <1>5, <2>1 DEF NewConnection
<1>11. snapshot = {}
  BY <1>2 DEF Ownership, Visiting
<1>12. Visiting' /\ ResponseToOwnClient' /\ Spent'
  BY <1>2, <1>11 DEF Visiting, Ownership, ResponseToOwnClient, Spent, Between, Drained
<1>13. LogicKeepsItsDatabase'
  BY <1>0, <1>2, <1>4, <1>5 DEF Ownership, LogicKeepsItsDatabase, Located, queueVars
<1> QED
  BY <1>3, <1>6, <1>8, <1>9, <1>10, <1>12, <1>13 DEF Ownership

------------------------------------------------------------------------------
(* epoll_wait, and the steps between events.                                   *)

\* Only epoll_wait fills the batch, with what is true when it does.
LEMMA WaitOwnership ==
  ASSUME Based, Ownership, EpollWait
  PROVE  Ownership'
<1>0. TypeOK /\ None \notin Conns
  BY NameAssumption DEF Based
<1>1. PICK S \in SUBSET ReadySources :
        /\ batch' = [s \in Sources |-> IF s \notin S THEN "none"
                                       ELSE IF s \in Fds THEN Poll(s) ELSE "IN"]
        /\ rdy' = {f \in rdy : Poll(f) # "none"} \ S
  BY DEF EpollWait
<1>2. /\ pc = "wait" /\ pc' = "events"
      /\ UNCHANGED <<sock, owner, interest, store, conn, queueVars, ret, cur, snapshot, received>>
  BY DEF EpollWait
<1>3. \A f \in Fds : batch[f] = "none"
  BY <1>2 DEF Ownership, Spent, Between, Sources
<1>4. \A f \in Fds : /\ f \in S => batch'[f] = Poll(f)
                     /\ f \notin S => batch'[f] = "none" /\ (f \in rdy /\ Poll(f) # "none" => f \in rdy')
  BY <1>1 DEF Sources
<1>5. \A c : (AtLogic(c)' <=> AtLogic(c)) /\ ~InHand(c)
  BY <1>2 DEF AtLogic, AtWorker, queueVars, InHand
<1>6. ASSUME NEW f \in Fds PROVE Sound(f)'
  <2>1. Sound(f)
    BY DEF Ownership
  <2>2. Poll(f)' = Poll(f)
    BY <1>2, PollKept
  <2>3. Poll(f) \in {"IN", "OUT"} => store[f] = owner[f] /\ owner[f] \in Conns
                                     /\ interest[f] = Poll(f)
    BY <2>1 DEF Poll, SocketEvent, Sound, Owned
  <2>4. Owned(f)'
    BY <1>2, <2>1 DEF Sound, Owned
  <2>5. ASSUME NEW c \in Conns, store[f] = c PROVE Watched(c, f)'
    BY <1>2, <1>5, <2>1, <2>5 DEF Sound, Watched, Busy
  <2>6. \A c \in Conns : store[f] = c =>
          /\ Poll(f) = "IN" => conn[c].left = 0 /\ ~conn[c].processing
          /\ Poll(f) = "OUT" => conn[c].left # 0
    <3>1. \A c \in Conns : conn[c].left \in Nat
      BY <1>0 DEF TypeOK, ConnectionType
    <3> QED
      BY <2>1, <2>3, <3>1 DEF Sound, Watched
  <2>7. batch'[f] \in {Poll(f), "none"}
    BY <1>4
  <2>8. Batched(f)'
    BY <1>0, <1>2, <2>3, <2>6, <2>7 DEF Batched
  <2>9. Edge(f)'
    BY <1>3, <1>4, <1>5, <1>2, <2>1, <2>2 DEF Sound, Edge
  <2> QED
    BY <1>2, <2>4, <2>5, <2>8, <2>9 DEF Sound
<1>7. ASSUME NEW c \in Conns, AtLogic(c)' PROVE Pinned(c)'
  <2>1. Pinned(c)
    BY <1>5, <1>7 DEF Ownership
  <2>2. Poll(conn[c].fd) = "none"
    BY <2>1, Silent DEF Pinned
  <2> QED
    BY <1>2, <1>4, <2>1, <2>2 DEF Pinned
<1>8. \A c \in Conns, f \in Fds : Held(c, f)'
  BY <1>2 DEF Held
<1>9. snapshot = {}
  BY <1>2 DEF Ownership, Visiting
<1>10. Visiting' /\ ResponseToOwnClient' /\ LogicKeepsItsDatabase' /\ Spent'
  BY <1>2, <1>9 DEF Visiting, Ownership, ResponseToOwnClient, LogicKeepsItsDatabase, queueVars,
     Spent, Between, Drained
<1> QED
  BY <1>6, <1>7, <1>8, <1>10 DEF Ownership

\* The steps that only move the main thread on, with no connection in hand.
LEMMA LoopOwnership ==
  ASSUME Based, Ownership,
         \/ DrainDone \/ BatchDone \/ HandleSignalEvent \/ ListenEvent \/ HandleTimerEvent
         \/ AcceptDone \/ TimerDone
         \/ \E f \in Fds : IgnoreEvent(f)
         \/ \E c \in Conns : TimerSkip(c)
  PROVE  Ownership'
<1> USE DEF kernelVars, socketVars
<1>0. TypeOK /\ Located /\ None \notin Conns
  BY NameAssumption DEF Based
<1>1. /\ pc \in Drained \cup {"events", "accept", "timer"}
      /\ pc' \in Drained \cup {"wait", "stopped", "events", "accept", "timer"}
      /\ UNCHANGED <<sock, owner, interest, rdy, store, conn, queueVars, received>>
  BY DEF DrainDone, BatchDone, HandleSignalEvent, ListenEvent, HandleTimerEvent, AcceptDone,
     TimerDone, IgnoreEvent, TimerSkip, TakeEvent, Drained
<1>2. \A c \in Conns : Kept(c) /\ ~InHand(c)
  BY <1>1 DEF Kept, AtLogic, AtWorker, queueVars, InHand, Drained
<1>3. \A c \in Conns, f \in Fds : Held(c, f)'
  BY <1>1 DEF Held, Drained
<1>4. ResponseToOwnClient' /\ LogicKeepsItsDatabase'
  BY <1>1 DEF Ownership, ResponseToOwnClient, LogicKeepsItsDatabase, queueVars
<1>5. Visiting'
  <2>1. \A c \in snapshot' : store[conn[c].fd] = c
    <3>1. CASE HandleTimerEvent
      BY <1>0, <3>1 DEF HandleTimerEvent, Stored, Located
    <3>2. CASE ~HandleTimerEvent
      <4>1. snapshot' \subseteq snapshot
        BY <3>2 DEF DrainDone, BatchDone, HandleSignalEvent, ListenEvent, AcceptDone, TimerDone,
           IgnoreEvent, TimerSkip
      <4> QED
        BY <4>1 DEF Ownership, Visiting
    <3> QED
      BY <3>1, <3>2
  <2>2. snapshot' # {} => pc' = "timer"
    BY <1>1 DEF Ownership, Visiting, DrainDone, BatchDone, HandleSignalEvent, ListenEvent,
       HandleTimerEvent, AcceptDone, TimerDone, IgnoreEvent, TimerSkip, TakeEvent, Drained
  <2> QED
    BY <1>1, <2>1, <2>2 DEF Visiting, Drained
<1>6. Spent'
  <2>1. CASE DrainDone \/ BatchDone
    BY <2>1 DEF DrainDone, BatchDone, Ownership, Spent, Between, Drained
  <2>2. CASE ~(DrainDone \/ BatchDone)
    <3>1. pc' \in {"events", "accept", "timer"}
      BY <2>2 DEF HandleSignalEvent, ListenEvent, HandleTimerEvent, AcceptDone, TimerDone,
         IgnoreEvent, TimerSkip, TakeEvent
    <3> QED
      BY <3>1 DEF Spent, Between, Drained
  <2> QED
    BY <2>1, <2>2
<1>7. ASSUME \A f \in Fds : batch'[f] = batch[f] PROVE Ownership'
  BY <1>1, <1>2, <1>3, <1>4, <1>5, <1>6, <1>7, StillKeeps DEF Ownership, queueVars
<1>8. ASSUME NEW f \in Fds, IgnoreEvent(f) PROVE Ownership'
  <2>1. /\ batch'[f] = "none" /\ \A g \in Fds : g # f => batch'[g] = batch[g]
    BY <1>0, <1>8 DEF IgnoreEvent, TakeEvent, TypeOK, Sources
  <2>2. Sound(f)
    BY DEF Ownership
  <2>3. store[f] = None
    BY <1>8, <2>2 DEF IgnoreEvent, PassedOver, Sound, Batched
  <2>4. Elsewhere(f, None)
    BY <1>1, <1>2, <2>1, <2>3 DEF Elsewhere, Same
  <2>5. /\ \A g \in Fds : g # f => Sound(g)'
        /\ \A d \in Conns : AtLogic(d)' => Pinned(d)'
    BY <1>0, <2>4, ElsewhereKept DEF Ownership
  <2>6. Sound(f)'
    <3>1. owner[f] \notin Conns
      BY <1>0, <2>2, <2>3 DEF Sound, Owned
    <3>2. Poll(f)' = "none"
      BY <1>1, <3>1 DEF Poll
    <3> QED
      BY <1>0, <1>1, <2>1, <2>2, <2>3, <3>2 DEF Sound, Owned, Batched, Edge
  <2> QED
    BY <1>3, <1>4, <1>5, <1>6, <2>5, <2>6 DEF Ownership
<1>9. CASE ~\E f \in Fds : IgnoreEvent(f)
  <2>1. \A s \in Specials : s \notin Fds
    BY FdAssumption
  <2>2. \A f \in Fds : batch'[f] = batch[f]
    BY <1>0, <1>9, <2>1 DEF TypeOK, Sources, Specials, DrainDone, BatchDone, HandleSignalEvent,
       ListenEvent, HandleTimerEvent, AcceptDone, TimerDone, TimerSkip, TakeEvent
  <2> QED
    BY <1>7, <2>2
<1> QED
  BY <1>8, <1>9

------------------------------------------------------------------------------
(* The logic threads, the clients and the clock, at any point of the main        *)
(* thread's work.                                                              *)

\* A number whose readiness is on the list, if there is any.
LEMMA SoundWoken ==
  ASSUME TypeOK, NEW f \in Fds, Sound(f), Same(f),
         Poll(f)' # "none" => f \in rdy',
         \A c \in Conns : store[f] = c => Kept(c) /\ (InHand(c) => InHand(c)')
  PROVE  Sound(f)'
<1>1. store[f] \in Conns \cup {None}
  BY DEF TypeOK
<1>2. Owned(f)' /\ Edge(f)'
  BY DEF Sound, Owned, Same, Edge
<1>3. ASSUME NEW c \in Conns, store'[f] = c PROVE Watched(c, f)'
  BY <1>3 DEF Sound, Watched, Same, Kept, Busy
<1>4. Batched(f)'
  BY <1>1 DEF Sound, Batched, Same, Kept
<1> QED
  BY <1>2, <1>3, <1>4 DEF Sound

\* A step beside the main thread keeps the invariant if it keeps every number
\* sound, and those of connections as they are but for what epoll has to report.
LEMMA BesideKeeps ==
  ASSUME Based, Ownership,
         UNCHANGED <<store, batch, pc, ret, cur, snapshot, received>>,
         \A c \in Conns : Kept(c),
         \A f \in Fds : Sound(f)',
         \A f \in Fds : store[f] # None =>
            /\ Same(f)
            /\ Poll(f)' # "none" => f \in rdy' \/ (Poll(f) # "none" /\ f \notin rdy),
         LogicKeepsItsDatabase'
  PROVE  Ownership'
<1>0. TypeOK /\ Located /\ None \notin Conns
  BY NameAssumption DEF Based
<1>1. ASSUME NEW c \in Conns, AtLogic(c)' PROVE Pinned(c)'
  <2>1. Pinned(c)
    BY <1>1 DEF Ownership, Kept
  <2>2. Same(conn[c].fd)
    BY <1>0, <2>1 DEF Pinned
  <2> QED
    BY <2>1, <2>2, PinnedKept
<1>2. ASSUME NEW c \in Conns, NEW f \in Fds, cur' = c, conn'[c].fd = f PROVE Held(c, f)'
  <2>1. Kept(c) /\ Held(c, f)
    BY <1>2 DEF Kept, Ownership
  <2>2. CASE pc = "parse"
    <3>1. Pinned(c) /\ Same(conn[c].fd)
      BY <1>0, <2>1, <2>2 DEF Held, Pinned
    <3>2. Pinned(c)'
      BY <2>1, <3>1, PinnedKept
    <3> QED
      BY <2>2, <3>2 DEF Held
  <2>3. CASE pc \in {"flush", "arm", "unarmed"}
    <3>1. store[f] = c /\ Same(f)
      BY <1>0, <2>1, <2>3 DEF Held
    <3> QED
      BY <1>0, <2>1, <2>3, <3>1 DEF Held, Same, Kept
  <2>4. CASE pc \notin {"parse", "flush", "arm", "unarmed"}
    BY <2>4 DEF Held
  <2> QED
    BY <2>2, <2>3, <2>4
<1>3. Visiting'
  <2>1. \A c \in snapshot : c \in Conns
    BY <1>0 DEF TypeOK
  <2> QED
    BY <2>1 DEF Ownership, Visiting, Kept
<1>4. Spent' /\ ResponseToOwnClient'
  BY DEF Ownership, Spent, Between, ResponseToOwnClient
<1> QED
  BY <1>1, <1>2, <1>3, <1>4 DEF Ownership

\* What clients and the clock do.
LEMMA OutsideOwnership ==
  ASSUME Based, Ownership,
         \/ \E c \in Conns : ClientStep(c) \/ DeadlinePasses(c)
         \/ TimerExpires \/ SignalArrives
  PROVE  Ownership'
<1> USE DEF kernelVars, socketVars, queueVars, loopVars, serverVars
<1>0. TypeOK /\ conn \in ConnTable /\ None \notin Conns
  BY NameAssumption DEF Based, TypeOK, ConnTable
<1>1. /\ UNCHANGED <<owner, interest, store, requests, results, worker, pc, ret, cur, snapshot,
                     batch, received>>
      /\ \A c \in Conns : /\ conn'[c].fd = conn[c].fd
                          /\ conn'[c].left = conn[c].left
                          /\ conn'[c].processing = conn[c].processing
                          /\ conn'[c].registered = conn[c].registered
  BY <1>0 DEF ClientStep, Connect, ClientSend, ClientHangup, ClientReceive, DeadlinePasses,
     TimerExpires, SignalArrives, ConnTable, ConnectionType
<1>2. /\ \A f \in Fds : Same(f)
      /\ \A c \in Conns : Kept(c) /\ (InHand(c) => InHand(c)')
      /\ LogicKeepsItsDatabase'
  BY <1>1 DEF Same, Kept, AtLogic, AtWorker, InHand, Ownership, LogicKeepsItsDatabase
<1>3. \A f \in Fds :
        /\ f \in rdy => f \in rdy'
        /\ \/ owner[f] \in Conns => sock'[owner[f]] = sock[owner[f]]
           \/ interest[f] = "none"
           \/ f \in rdy'
  <2>1. CASE \E c \in Conns : ClientSend(c) \/ ClientHangup(c) \/ ClientReceive(c)
    <3>1. PICK c \in Conns : /\ Wakeup(c)
                             /\ \A d \in Conns : d # c => sock'[d] = sock[d]
      BY <1>0, <2>1 DEF ClientSend, ClientHangup, ClientReceive, TypeOK
    <3> QED
      BY <3>1 DEF Wakeup
  <2>2. CASE \E c \in Conns : Connect(c)
    <3>1. PICK c \in Conns : Connect(c)
      BY <2>2
    <3>2. \A f \in Fds : owner[f] # c
      <4>1. ~Accepted(c)
        BY <3>1 DEF Connect, Accepted
      <4>2. \A f \in Fds : store[f] # c
        BY <1>0, <4>1 DEF Based, Located
      <4> QED
        BY <4>2 DEF Ownership, Sound, Owned
    <3> QED
      BY <1>0, <3>1, <3>2 DEF Connect, TypeOK
  <2>3. CASE \/ \E c \in Conns : DeadlinePasses(c)
             \/ TimerExpires \/ SignalArrives
    BY <2>3 DEF DeadlinePasses, TimerExpires, SignalArrives
  <2> QED
    BY <2>1, <2>2, <2>3 DEF ClientStep
<1>4. \A f \in Fds : Poll(f)' = Poll(f) \/ (Poll(f)' # "none" => f \in rdy')
  <2>1. ASSUME NEW f \in Fds, interest'[f] = "none" PROVE Poll(f)' = "none"
    BY <2>1 DEF Poll, SocketEvent
  <2> QED
    BY <1>1, <1>3, <2>1, PollKept
<1>5. ASSUME NEW f \in Fds PROVE Sound(f)'
  <2>1. CASE Poll(f)' # "none" => f \in rdy'
    BY <1>0, <1>2, <2>1, SoundWoken DEF Ownership
  <2>2. CASE ~(Poll(f)' # "none" => f \in rdy')
    <3>1. owner[f] \in Conns => sock'[owner[f]] = sock[owner[f]]
      <4>1. interest[f] # "none"
        BY <1>1, <2>2 DEF Poll, SocketEvent
      <4> QED
        BY <1>3, <2>2, <4>1
    <3>2. \A c \in Conns : store[f] = c => sock'[c] = sock[c]
      BY <1>0, <3>1 DEF Ownership, Sound, Owned
    <3> QED
      BY <1>0, <1>2, <1>3, <3>2, SoundKept DEF Ownership
  <2> QED
    BY <2>1, <2>2
<1> QED
  BY <1>1, <1>2, <1>3, <1>4, <1>5, BesideKeeps

\* A logic thread's database socket comes and goes on a number no connection has.
LEMMA WorkersOwnership ==
  ASSUME Based, Ownership, NEW w \in Workers, WorkerStep(w)
  PROVE  Ownership'
<1> USE DEF kernelVars, loopVars
<1>0. /\ TypeOK /\ Located /\ None \notin Conns /\ None \notin Workers /\ w \notin Conns
      /\ \A v \in Workers : worker[v] \in WorkerType
  BY NameAssumption DEF Based, TypeOK
<1>1. UNCHANGED <<sock, store, conn, batch, pc, ret, cur, snapshot, received>>
  <2>1. CASE WorkerCloseDatabase(w)
    <3>1. owner[worker[w].fd] = w
      BY <2>1 DEF WorkerCloseDatabase, Ownership, LogicKeepsItsDatabase
    <3> QED
      BY <1>0, <2>1, <3>1 DEF WorkerCloseDatabase, CloseFd
  <2>2. CASE WorkerTake(w) \/ WorkerOpenDatabase(w) \/ WorkerFinish(w)
    BY <2>2 DEF WorkerTake, WorkerOpenDatabase, WorkerFinish
  <2> QED
    BY <2>1, <2>2 DEF WorkerStep
<1>2. \A c \in Conns : Kept(c) /\ (InHand(c) => InHand(c)')
  <2>1. \A c \in Conns : AtLogic(c)' <=> AtLogic(c)
    BY <1>0, WorkersAtLogic
  <2> QED
    BY <1>1, <2>1 DEF Kept, InHand
<1>3. CASE WorkerTake(w) \/ WorkerFinish(w)
  <2>1. /\ UNCHANGED <<owner, interest, rdy>>
        /\ \A v \in Workers : v # w => worker'[v] = worker[v]
        /\ worker'[w].phase # "db"
    <3>1. CASE WorkerTake(w)
      BY <1>0, <3>1 DEF WorkerTake, WorkerType, TypeOK
    <3>2. CASE WorkerFinish(w)
      BY <1>0, <3>2 DEF WorkerFinish, WorkerType, TypeOK
    <3> QED
      BY <1>3, <3>1, <3>2
  <2>2. \A f \in Fds : Same(f)
    BY <1>1, <2>1 DEF Same
  <2>3. \A f \in Fds : Sound(f)' /\ Poll(f)' = Poll(f)
    BY <1>0, <1>1, <1>2, <2>1, <2>2, SoundKept, PollKept DEF Ownership
  <2>4. LogicKeepsItsDatabase'
    BY <2>1 DEF Ownership, LogicKeepsItsDatabase
  <2> QED
    BY <1>1, <1>2, <2>1, <2>2, <2>3, <2>4, BesideKeeps
<1>4. CASE WorkerOpenDatabase(w) \/ WorkerCloseDatabase(w)
  <2>1. PICK f \in Fds :
          /\ owner[f] \in {None, w} /\ owner'[f] \in {None, w} /\ interest'[f] = "none"
          /\ \A g \in Fds : g # f => /\ owner'[g] = owner[g] /\ interest'[g] = interest[g]
                                     /\ (g \in rdy => g \in rdy')
          /\ \A v \in Workers : worker'[v].phase = "db" =>
               /\ v = w => worker'[v].fd = f /\ owner'[f] = w
               /\ v # w => /\ worker[v].phase = "db"
                           /\ worker'[v].fd = worker[v].fd
    <3>1. CASE WorkerOpenDatabase(w)
      <4>1. PICK f \in Fds :
              /\ owner[f] = None
              /\ owner' = [owner EXCEPT ![f] = w]
              /\ worker' = [worker EXCEPT ![w].phase = "db", ![w].fd = f]
              /\ UNCHANGED <<interest, rdy>>
              /\ \A v \in Workers : worker[v].phase # "db"
        BY <3>1 DEF WorkerOpenDatabase, LowestFree, IsFree
      <4>2. interest[f] = "none"
        BY <1>0, <4>1 DEF Ownership, Sound, Owned
      <4>3. /\ owner'[f] = w /\ \A g \in Fds : g # f => owner'[g] = owner[g]
            /\ worker'[w].fd = f /\ \A v \in Workers : v # w => worker'[v] = worker[v]
        BY <1>0, <4>1 DEF TypeOK, WorkerType
      <4> QED
        BY <4>1, <4>2, <4>3
    <3>2. CASE WorkerCloseDatabase(w)
      <4>1. PICK f \in Fds : f = worker[w].fd /\ owner[f] = w
        BY <1>0, <3>2 DEF WorkerCloseDatabase, Located, Ownership, LogicKeepsItsDatabase
      <4>2. /\ owner' = [owner EXCEPT ![f] = None]
            /\ interest' = [interest EXCEPT ![f] = "none"]
            /\ rdy' = rdy \ {f}
            /\ worker' = [worker EXCEPT ![w].phase = "built", ![w].fd = None]
        BY <3>2, <4>1 DEF WorkerCloseDatabase, CloseFd
      <4>3. /\ worker'[w].phase # "db" /\ \A v \in Workers : v # w => worker'[v] = worker[v]
        BY <1>0, <4>2 DEF TypeOK, WorkerType
      <4>4. /\ owner'[f] = None /\ interest'[f] = "none"
            /\ \A g \in Fds : g # f => owner'[g] = owner[g] /\ interest'[g] = interest[g]
        BY <1>0, <4>2 DEF TypeOK
      <4> QED
        BY <4>1, <4>2, <4>3, <4>4
    <3> QED
      BY <1>4, <3>1, <3>2
  <2>2. store[f] = None /\ Sound(f)
    BY <1>0, <2>1 DEF Ownership, Sound, Owned, TypeOK
  <2>3. Elsewhere(f, None)
    BY <1>1, <1>2, <2>1, <2>2 DEF Elsewhere, Same
  <2>4. \A g \in Fds : g # f => Sound(g)'
    BY <1>0, <2>3, ElsewhereKept DEF Ownership
  <2>5. Sound(f)'
    <3>1. owner'[f] \notin Conns /\ Poll(f)' = "none"
      BY <1>0, <2>1 DEF Poll
    <3> QED
      BY <1>0, <1>1, <2>1, <2>2, <3>1 DEF Sound, Owned, Batched, Edge
  <2>6. \A g \in Fds : store[g] # None => Same(g) /\ Poll(g)' = Poll(g) /\ (g \in rdy => g \in rdy')
    BY <1>1, <2>1, <2>2, PollKept DEF Same
  <2>7. LogicKeepsItsDatabase'
    <3>1. ASSUME NEW v \in Workers, worker'[v].phase = "db" PROVE owner'[worker'[v].fd] = v
      <4>1. CASE v = w
        BY <2>1, <3>1, <4>1
      <4>2. CASE v # w
        <5>1. worker[v].fd \in Fds /\ owner[worker[v].fd] = v /\ worker'[v].fd = worker[v].fd
          BY <1>0, <2>1, <3>1, <4>2 DEF Located, Ownership, LogicKeepsItsDatabase
        <5>2. worker[v].fd # f
          BY <1>0, <2>1, <4>2, <5>1
        <5> QED
          BY <2>1, <5>1, <5>2
      <4> QED
        BY <4>1, <4>2
    <3> QED
      BY <3>1 DEF LogicKeepsItsDatabase
  <2> QED
    BY <1>1, <1>2, <2>4, <2>5, <2>6, <2>7, BesideKeeps
<1> QED
  BY <1>3, <1>4 DEF WorkerStep

------------------------------------------------------------------------------
(* The invariant of the behaviours that spare the database sockets.            *)

LEMMA InitOwnership == Init => Ownership
<1> SUFFICES ASSUME Init PROVE Ownership
  OBVIOUS
<1>0. None \notin Conns /\ None \notin Workers
  BY NameAssumption
<1>1. ASSUME NEW f \in Fds PROVE Sound(f)
  <2>1. /\ owner[f] = None /\ store[f] = None /\ interest[f] = "none" /\ batch[f] = "none"
    BY DEF Init, Sources
  <2>2. Poll(f) = "none"
    BY <1>0, <2>1 DEF Poll
  <2> QED
    BY <1>0, <2>1, <2>2 DEF Sound, Owned, Batched, Edge
<1>2. \A c \in Conns : ~AtLogic(c)
  BY <1>0 DEF Init, AtLogic, AtWorker, Elements
<1>3. \A c \in Conns, f \in Fds : Held(c, f)
  BY DEF Init, Held
<1>4. Visiting /\ Spent
  BY DEF Init, Visiting, Spent
<1>5. LogicKeepsItsDatabase /\ ResponseToOwnClient
  BY DEF Init, LogicKeepsItsDatabase, ResponseToOwnClient
<1> QED
  BY <1>1, <1>2, <1>3, <1>4, <1>5 DEF Ownership

LEMMA StepOwnership ==
  Based /\ Ownership /\ DatabasesSpared /\ [Next]_vars => Ownership'
<1> SUFFICES ASSUME Based, Ownership, DatabasesSpared, [Next]_vars PROVE Ownership'
  OBVIOUS
<1>1. CASE UNCHANGED vars
  BY <1>1 DEF vars, Ownership, Sound, Owned, Watched, Busy, Batched, Edge, Poll, Pinned, Held,
     Visiting, Spent, Between, LogicKeepsItsDatabase, ResponseToOwnClient, AtLogic, AtWorker, InHand
<1>2. CASE MainStep
  BY <1>2, ClosingOwnership, ArmingOwnership, SendOwnership, FlushEndsOwnership,
     TakenInHandOwnership, ResponseOwnership, ReadOwnership, HandOverOwnership, AcceptOwnership,
     WaitOwnership, LoopOwnership DEF MainStep
<1>3. CASE \E w \in Workers : WorkerStep(w)
  BY <1>3, WorkersOwnership
<1>4. CASE \/ \E c \in Conns : ClientStep(c) \/ DeadlinePasses(c)
           \/ TimerExpires \/ SignalArrives
  BY <1>4, OutsideOwnership
<1> QED
  BY <1>1, <1>2, <1>3, <1>4 DEF Next, Terminated

LEMMA AlwaysBased == Spec => []Based
<1>1. TypeOK /\ Located /\ OneRequestInFlight => Based
  BY DEF Based
<1> QED
  BY <1>1, AlwaysTyped, RequestsExclusive, PTL

LEMMA AlwaysOwned == Spec /\ []DatabasesSpared => []Ownership
  BY AlwaysBased, InitOwnership, StepOwnership, PTL DEF Spec

\* What the invariant says of the connection and descriptor tables, the pipeline,
\* epoll and the clients.
LEMMA OwnershipImplies ==
  ASSUME Based, Ownership
  PROVE  /\ NoSocketLeak /\ PipelineIsPinned /\ ResponseToOwnClient
         /\ RegisteredMatchesKernel /\ NoStrandedConnection /\ NoLostEdge /\ ReadFindsIdle
<1>0. /\ Located /\ None \notin Conns
      /\ \A f \in Fds : Sound(f) /\ store[f] \in Conns \cup {None}
  BY NameAssumption DEF Based, TypeOK, Ownership
<1>2. NoSocketLeak
  BY <1>0 DEF NoSocketLeak, Sound, Owned
<1>3. PipelineIsPinned
  <2>1. ASSUME NEW c \in Conns, InPipeline(c) PROVE Pinned(c)
    <3>1. CASE AtLogic(c)
      BY <3>1 DEF Ownership
    <3>2. CASE Parsing(c)
      BY <3>2, InHandFacts DEF Parsing, Held
    <3> QED
      BY <2>1, <3>1, <3>2 DEF InPipeline
  <2> QED
    BY <2>1 DEF PipelineIsPinned, Pinned
<1>4. ResponseToOwnClient
  BY DEF Ownership
<1>5. RegisteredMatchesKernel
  BY <1>0 DEF RegisteredMatchesKernel, Sound, Watched
<1>6. NoStrandedConnection
  BY <1>0 DEF NoStrandedConnection, Sound, Watched, Busy, InPipeline
<1>7. NoLostEdge
  BY <1>0 DEF NoLostEdge, Sound, Edge
<1>8. ReadFindsIdle
  BY <1>0 DEF ReadFindsIdle, Sound, Batched
<1> QED
  BY <1>2, <1>3, <1>4, <1>5, <1>6, <1>7, <1>8

\* The behaviours in which no stale hangup event closes a database socket.
SparingSpec == Spec /\ []DatabasesSpared

LEMMA SparingInvariants == SparingSpec => [](Based /\ Ownership)
  BY AlwaysBased, AlwaysOwned, PTL DEF SparingSpec

\* Every accepted socket stays in the connection table until it is closed.
THEOREM NoSocketIsLeaked == SparingSpec => []NoSocketLeak
  BY SparingInvariants, OwnershipImplies, PTL

\* From its read to its answer a connection is neither closed nor in epoll, no
\* event names its number and no response is pending: the shared_ptr on its way
\* through the queues stands for the client that asked.
THEOREM PipelineStaysPinned == SparingSpec => []PipelineIsPinned
  BY SparingInvariants, OwnershipImplies, PTL

\* send() to a number reaches the client whose request it answers.
THEOREM AnswersReachTheirClient == SparingSpec => []ResponseToOwnClient
  BY SparingInvariants, OwnershipImplies, PTL

\* _registered_in_epoll is what the kernel has: UpdateConnectionEvents chooses
\* between ADD and MOD rightly.
THEOREM FlagMatchesKernel == SparingSpec => []RegisteredMatchesKernel
  BY SparingInvariants, OwnershipImplies, PTL

\* No stored connection is forgotten: the logic threads have it, the main thread
\* has it, or epoll watches it for what it waits for.
THEOREM NoneIsStranded == SparingSpec => []NoStrandedConnection
  BY SparingInvariants, OwnershipImplies, PTL

\* Though epoll is edge-triggered and events of a batch may be handled for the
\* wrong socket, no readiness of a watched socket is lost.
THEOREM NoEdgeIsLost == SparingSpec => []NoLostEdge
  BY SparingInvariants, OwnershipImplies, PTL

\* A read event, stale or not, finds an idle connection: the tests at the head of
\* DispatchConnection never turn one away.
THEOREM ReadsFindIdle == SparingSpec => []ReadFindsIdle
  BY SparingInvariants, OwnershipImplies, PTL

------------------------------------------------------------------------------
(* What happens beside the main thread, and what stops it.                     *)

\* Whatever happens beside the main thread, a client's number stays its own and its
\* epoll mask what it was, and a peer that has gone does not come back.
LEMMA BesideEffect ==
  ASSUME TypeOK, Located, Ownership,
         \/ UNCHANGED vars
         \/ \E w \in Workers : WorkerStep(w)
         \/ \E c \in Conns : ClientStep(c) \/ DeadlinePasses(c)
         \/ TimerExpires \/ SignalArrives
  PROVE  /\ UNCHANGED <<pc, ret, batch, cur, store>>
         /\ \A f \in Fds : owner[f] \in Conns =>
              owner'[f] = owner[f] /\ interest'[f] = interest[f]
         /\ \A c \in Conns : /\ sock[c].peer # "up" => sock'[c].peer # "up"
                             /\ sock'[c].state = "closed" => sock[c].state = "closed"
                             /\ conn'[c].fd = conn[c].fd
<1> USE DEF kernelVars, socketVars, queueVars, loopVars, serverVars
<1>1. CASE UNCHANGED vars
  BY <1>1 DEF vars
<1>2. CASE \E w \in Workers : WorkerStep(w)
  <2>1. PICK w \in Workers : WorkerStep(w)
    BY <1>2
  <2>2. CASE WorkerTake(w) \/ WorkerFinish(w)
    BY <2>2 DEF WorkerTake, WorkerFinish
  <2>3. CASE WorkerOpenDatabase(w)
    <3>1. PICK g \in Fds : owner[g] = None /\ owner' = [owner EXCEPT ![g] = w]
      BY <2>3 DEF WorkerOpenDatabase, LowestFree, IsFree
    <3> QED
      BY <2>3, <3>1, NameAssumption DEF WorkerOpenDatabase, TypeOK
  <2>4. CASE WorkerCloseDatabase(w)
    <3>1. PICK g \in Fds : g = worker[w].fd /\ owner[g] = w
      BY <2>4 DEF WorkerCloseDatabase, Located, Ownership, LogicKeepsItsDatabase
    <3>2. CloseFd(g) /\ UNCHANGED <<pc, ret, batch, cur, store, conn>> /\ w \notin Conns
      BY <2>4, <3>1, NameAssumption DEF WorkerCloseDatabase
    <3> QED
      BY <3>1, <3>2 DEF CloseFd, TypeOK
  <2> QED
    BY <2>1, <2>2, <2>3, <2>4 DEF WorkerStep
<1>3. CASE \/ \E c \in Conns : ClientStep(c)
           \/ TimerExpires \/ SignalArrives
  <2>1. UNCHANGED <<pc, ret, batch, cur, store, owner, interest, conn>>
    BY <1>3 DEF ClientStep, Connect, ClientSend, ClientHangup, ClientReceive,
       TimerExpires, SignalArrives
  <2>2. CASE TimerExpires \/ SignalArrives
    BY <2>1, <2>2 DEF TimerExpires, SignalArrives
  <2>3. ASSUME NEW c \in Conns, ClientStep(c)
        PROVE  \A d \in Conns : /\ sock[d].peer # "up" => sock'[d].peer # "up"
                                /\ sock'[d].state = "closed" => sock[d].state = "closed"
    <3>1. sock \in [Conns -> SocketType]
      BY DEF TypeOK
    <3>2. CASE Connect(c)
      BY <3>1, <3>2 DEF Connect, SocketType
    <3>3. CASE ClientSend(c)
      BY <3>1, <3>3 DEF ClientSend, SocketType
    <3>4. CASE ClientReceive(c)
      BY <3>1, <3>4 DEF ClientReceive, SocketType
    <3>5. CASE ClientHangup(c)
      <4>1. PICK p \in {"fin", "rst"} : sock' = [sock EXCEPT ![c].peer = p]
        BY <3>5 DEF ClientHangup
      <4> QED
        BY <3>1, <4>1 DEF SocketType
    <3> QED
      BY <2>3, <3>2, <3>3, <3>4, <3>5 DEF ClientStep
  <2> QED
    BY <1>3, <2>1, <2>2, <2>3
<1>4. CASE \E c \in Conns : DeadlinePasses(c)
  BY <1>4 DEF DeadlinePasses, TypeOK, ConnectionType
<1> QED
  BY <1>1, <1>2, <1>3, <1>4

\* The connection that the main thread is stuck on has a number that epoll watches.
Blocked ==
  pc = "stuck" => /\ ret = "events"
                  /\ cur \in Conns /\ conn[cur].fd \in Fds
                  /\ interest[conn[cur].fd] = "IN"

LEMMA StepBlocked ==
  Based /\ Ownership /\ Blocked /\ [Next]_vars => Blocked'
<1> SUFFICES ASSUME Based, Ownership, Blocked, [Next]_vars, pc' = "stuck" PROVE Blocked'
  BY DEF Blocked
<1>0. TypeOK /\ Located
  BY DEF Based
<1>1. CASE ~MainStep
  <2>1. /\ UNCHANGED <<pc, ret, cur>>
        /\ \A f \in Fds : owner[f] \in Conns => interest'[f] = interest[f]
        /\ \A c \in Conns : conn'[c].fd = conn[c].fd
    BY <1>0, <1>1, BesideEffect DEF Next, Terminated
  <2>2. PICK c \in Conns, f \in Fds : c = cur /\ f = conn[cur].fd /\ interest[f] = "IN"
    BY <2>1 DEF Blocked
  <2>3. owner[f] \in Conns
    BY <2>2 DEF Ownership, Sound, Owned
  <2> QED
    BY <2>1, <2>2, <2>3 DEF Blocked
<1>2. CASE FlushNothing
  <2>1. pc = "flush" /\ conn[cur].left = 0 /\ UNCHANGED <<interest, conn, ret, cur>>
    BY <1>2 DEF FlushNothing, kernelVars
  <2> PICK c \in Conns, f \in Fds : c = cur /\ f = conn[cur].fd
    BY <2>1, InHandFacts
  <2>2. store[f] = c /\ Held(c, f)
    BY <2>1, InHandFacts
  <2>3. ret = "events" /\ interest[f] # "none" /\ Watched(c, f)
    BY <2>1, <2>2 DEF Held, Ownership, Sound
  <2>4. interest[f] = "IN"
    BY <2>1, <2>3 DEF Watched
  <2> QED
    BY <2>1, <2>3, <2>4 DEF Blocked
<1>3. CASE \/ DrainDone \/ EpollWait \/ BatchDone \/ HandleSignalEvent \/ HandleTimerEvent
           \/ ListenEvent \/ HandleLogicResult \/ ParseIncomplete \/ ParseBad \/ ParseComplete
           \/ AcceptOne \/ AcceptDone \/ TimerDone \/ FlushBlocked \/ FlushFails \/ FlushSend
           \/ ArmConnection \/ CloseUnarmed
           \/ \E f \in Fds : \/ HangupEvent(f) \/ WritableEvent(f) \/ IgnoreEvent(f)
                             \/ DispatchRead(f) \/ DispatchReadFails(f)
           \/ \E c \in Conns : TimerSkip(c) \/ TimerGiveUp(c) \/ TimerRetry(c)
  <2>1. ret \in Drained \cup {"events", "timer", "accept"}
    BY <1>0 DEF TypeOK
  <2>2. CASE \/ DrainDone \/ EpollWait \/ BatchDone \/ HandleSignalEvent \/ HandleTimerEvent
             \/ ListenEvent \/ HandleLogicResult \/ ParseBad \/ ParseComplete
             \/ AcceptOne \/ AcceptDone \/ TimerDone \/ FlushBlocked
             \/ \E f \in Fds : \/ HangupEvent(f) \/ WritableEvent(f) \/ IgnoreEvent(f)
                               \/ DispatchRead(f) \/ DispatchReadFails(f)
             \/ \E c \in Conns : TimerSkip(c) \/ TimerGiveUp(c) \/ TimerRetry(c)
    BY <2>2 DEF DrainDone, EpollWait, BatchDone, HandleSignalEvent, HandleTimerEvent,
       ListenEvent, HandleLogicResult, ParseBad, ParseComplete, AcceptOne, AcceptDone, TimerDone,
       FlushBlocked, HangupEvent, WritableEvent, IgnoreEvent, DispatchRead, DispatchReadFails,
       TimerSkip, TimerGiveUp, TimerRetry, TakeEvent, QueueResponse, FlushConnection, GoOn, Drained
  <2>3. CASE FlushFails \/ FlushSend \/ CloseUnarmed \/ ParseIncomplete \/ ArmConnection
    BY <2>1, <2>3 DEF FlushFails, FlushSend, CloseUnarmed, ParseIncomplete, ArmConnection,
       UpdateConnectionEvents, GoOn, Drained
  <2> QED
    BY <1>3, <2>2, <2>3
<1> QED
  BY <1>1, <1>2, <1>3 DEF MainStep

\* Whoever the main thread gets stuck on has been flushed for a write event, while epoll
\* watches it for input: the event was that of the connection that had the number
\* before.  Neither a result nor a retry nor a failed epoll_ctl ends there, with batches
\* of any size.
THEOREM OnlyStaleWritesBlockIt == SparingSpec => []OnlyStaleWritesBlock
<1>1. Init => Blocked
  BY DEF Init, Blocked
<1>2. Blocked => OnlyStaleWritesBlock
  BY NameAssumption DEF Blocked, OnlyStaleWritesBlock
<1> QED
  BY <1>1, <1>2, StepBlocked, SparingInvariants, PTL DEF SparingSpec, Spec

\* The reasons for which the server may let go of a client that is there.
LetGo(c) ==
  \/ conn[c].left > 0 /\ conn'[c].left = 0
  \/ conn[c].left > 0 /\ conn[c].due /\ conn[c].retries = MaxWriteRetry
  \/ conn[c].read + sock[c].rx >= BufferSize
  \/ batch[conn[c].fd] = "HUP"

LEMMA StepKeepsClients ==
  ASSUME Based, Ownership, [Next]_vars,
         NEW c \in Conns, sock[c].state = "open", sock[c].peer = "up", conn[c].registered,
         sock'[c].state = "closed"
  PROVE  LetGo(c)
<1>0. TypeOK /\ Located /\ conn \in ConnTable /\ None \notin Conns
  BY NameAssumption DEF Based, TypeOK, ConnTable
<1>1. MainStep
  <2>1. CASE ~MainStep
    BY <1>0, <2>1, BesideEffect DEF Next, Terminated
  <2> QED
    BY <2>1
<1>2. \A cn \in ConnTable, f \in Fds : CloseConnection(cn, f) => owner[f] = c /\ store[f] = c
  <2>1. ASSUME NEW cn \in ConnTable, NEW f \in Fds, CloseConnection(cn, f)
        PROVE  owner[f] = c /\ store[f] = c
    <3>1. owner[f] = c
      BY <1>0, <2>1, CloseEffect
    <3> QED
      BY <3>1 DEF Ownership, Sound, Owned
  <2> QED
    BY <2>1
<1>3. ASSUME NEW f \in Fds, HangupEvent(f) PROVE LetGo(c)
  <2>1. store[f] = c /\ batch[f] = "HUP"
    BY <1>0, <1>2, <1>3 DEF HangupEvent
  <2>2. conn[c].fd = f
    BY <1>0, <2>1 DEF Located
  <2> QED
    BY <2>1, <2>2 DEF LetGo
<1>4. ASSUME NEW f \in Fds, DispatchReadFails(f) PROVE LetGo(c)
  <2>1. owner[f] = c /\ store[f] = c /\ Reads(f, conn[c].read) = {}
    BY <1>0, <1>2, <1>4 DEF DispatchReadFails
  <2>2. conn[c].read \in Nat /\ sock[c].rx \in Nat /\ BufferSize \in Nat
    BY <1>0, SizeAssumption DEF TypeOK, ConnectionType, SocketType
  <2>3. ~(conn[c].read + sock[c].rx < BufferSize)
    <3>1. sock[c].rx \notin Reads(f, conn[c].read)
      BY <2>1
    <3> QED
      BY <1>0, <2>1, <3>1 DEF Reads
  <2> QED
    BY <2>2, <2>3 DEF LetGo
<1>5. ASSUME NEW d \in Conns, TimerGiveUp(d) PROVE LetGo(c)
  <2>1. conn[d].fd \in Fds /\ store[conn[d].fd] = d
    BY <1>0, <1>5 DEF TimerGiveUp, Located, Ownership, Visiting
  <2>2. c = d
    BY <1>0, <1>2, <1>5, <2>1 DEF TimerGiveUp
  <2>3. conn[c].left > 0 /\ conn[c].due /\ conn[c].retries >= MaxWriteRetry
    BY <1>5, <2>2 DEF TimerGiveUp, BudgetSpent
  <2>4. conn[c].retries \in 0..MaxWriteRetry /\ MaxWriteRetry \in Nat
    BY <1>0, SizeAssumption DEF ConnTable, ConnectionType
  <2> QED
    BY <2>3, <2>4 DEF LetGo
<1>6. CASE FlushFails
  <2>1. cur \in Conns /\ conn[cur].fd \in Fds /\ owner[conn[cur].fd] = cur
    BY <1>6, InHandFacts DEF FlushFails
  <2>2. c = cur
    BY <1>0, <1>2, <1>6, <2>1 DEF FlushFails
  <2>3. sock[c].peer = "rst"
    BY <1>6, <2>1, <2>2 DEF FlushFails, Target
  <2> QED
    BY <2>3
<1>7. CASE FlushSend
  <2>1. cur \in Conns /\ conn[cur].fd \in Fds /\ owner[conn[cur].fd] = cur
    BY <1>7, InHandFacts DEF FlushSend
  <2> DEFINE cn == [conn EXCEPT ![cur].left = 0, ![cur].retries = 0, ![cur].due = FALSE]
  <2>2. CASE CloseConnection(cn, conn[cur].fd)
    <3>1. cn = [conn EXCEPT ![cur] = [conn[cur] EXCEPT !.left = 0, !.retries = 0, !.due = FALSE]]
      BY <1>0, <2>1 DEF ConnTable
    <3>2. [conn[cur] EXCEPT !.left = 0, !.retries = 0, !.due = FALSE] \in ConnectionType
      <4>1. 0 \in Nat /\ 0 \in 0..MaxWriteRetry /\ conn[cur] \in ConnectionType
        BY <1>0, <2>1, SizeAssumption DEF ConnTable
      <4> QED
        BY <4>1 DEF ConnectionType
    <3>3. cn \in ConnTable /\ cn[cur].left = 0
      BY <1>0, <2>1, <3>1, <3>2 DEF ConnTable, ConnectionType
    <3> HIDE DEF cn
    <3>4. owner[conn[cur].fd] = c
      BY <1>2, <2>1, <2>2, <3>3
    <3>5. conn'[cur].left = 0
      BY <1>0, <2>1, <2>2, <3>3, CloseEffect
    <3>6. conn[cur].left > 0
      BY <1>7 DEF FlushSend
    <3> QED
      BY <2>1, <3>4, <3>5, <3>6 DEF LetGo
  <2>3. CASE sock' = [sock EXCEPT ![cur].room = 0]
    BY <1>0, <2>1, <2>3 DEF TypeOK, SocketType
  <2> QED
    BY <1>7, <2>1, <2>2, <2>3 DEF FlushSend, GoOn, Target
<1>8. CASE CloseUnarmed
  <2>1. /\ cur \in Conns /\ conn[cur].fd \in Fds /\ store[conn[cur].fd] = cur
        /\ Held(cur, conn[cur].fd) /\ pc = "unarmed"
    BY <1>8, InHandFacts DEF CloseUnarmed
  <2>2. c = cur
    BY <1>0, <1>2, <1>8, <2>1 DEF CloseUnarmed
  <2>3. interest[conn[c].fd] = "none" /\ Watched(c, conn[c].fd)
    BY <2>1, <2>2 DEF Held, Ownership, Sound
  <2> QED
    BY <2>3 DEF Watched
<1>9. CASE AcceptOne
  <2>1. PICK d \in Conns : sock' = [sock EXCEPT ![d].state = "open"]
    BY <1>9 DEF AcceptOne, Backlog
  <2> QED
    BY <1>0, <2>1 DEF TypeOK, SocketType
<1>10. ASSUME NEW f \in Fds, DispatchRead(f) PROVE FALSE
  <2>1. CASE owner[f] \in Conns
    <3>1. sock' = [sock EXCEPT ![owner[f]].rx = 0]
      BY <1>10, <2>1 DEF DispatchRead
    <3> QED
      BY <1>0, <2>1, <3>1 DEF TypeOK, SocketType
  <2>2. CASE owner[f] \notin Conns
    BY <1>10, <2>2 DEF DispatchRead
  <2> QED
    BY <2>1, <2>2
<1>11. sock' # sock
  OBVIOUS
<1>12. ~ \/ DrainDone \/ HandleLogicResult \/ EpollWait \/ BatchDone
         \/ HandleSignalEvent \/ HandleTimerEvent \/ ListenEvent
         \/ ParseBad \/ ParseComplete \/ AcceptDone \/ TimerDone
         \/ FlushBlocked \/ FlushNothing \/ ParseIncomplete \/ ArmConnection
         \/ \E f \in Fds : WritableEvent(f) \/ IgnoreEvent(f)
         \/ \E d \in Conns : TimerSkip(d) \/ TimerRetry(d)
  BY <1>11 DEF UpdateConnectionEvents, ParseIncomplete, ArmConnection, DrainDone, HandleLogicResult, EpollWait, BatchDone, HandleSignalEvent,
     HandleTimerEvent, ListenEvent, ParseBad, ParseComplete, AcceptDone, TimerDone, FlushBlocked,
     FlushNothing, WritableEvent, IgnoreEvent, TimerSkip, TimerRetry, kernelVars, socketVars
<1> QED
  BY <1>1, <1>3, <1>4, <1>5, <1>6, <1>7, <1>8, <1>9, <1>10, <1>12 DEF MainStep

\* No client that is there is dropped for a number that means another, a read or write
\* event that was another socket's, or a failed epoll_ctl: only when it has its answer,
\* has not read it in time or sends too much, or when a hangup event that its number
\* has inherited is in the batch.
THEOREM ClientsAreKept == SparingSpec => ClientKeptWhileAlive
<1>1. Based /\ Ownership /\ [Next]_vars =>
        [\A c \in Conns :
           /\ sock[c].state = "open" /\ sock[c].peer = "up" /\ conn[c].registered
           /\ sock'[c].state = "closed"
           => \/ conn[c].left > 0 /\ conn'[c].left = 0
              \/ conn[c].left > 0 /\ conn[c].due /\ conn[c].retries = MaxWriteRetry
              \/ conn[c].read + sock[c].rx >= BufferSize
              \/ batch[conn[c].fd] = "HUP"]_vars
  BY StepKeepsClients DEF LetGo
<1> QED
  BY <1>1, SparingInvariants, PTL DEF SparingSpec, Spec, ClientKeptWhileAlive

------------------------------------------------------------------------------
(* The life of a connection.                                                   *)

\* A number that is a client's is an open socket.
Opened == \A f \in Fds : owner[f] \in Conns => sock[owner[f]].state = "open"

\* The stage of connection c in each situation it can be in.
StageFacts(c) ==
  /\ sock[c].state = "none" => LifeStage(c) = "unborn"
  /\ sock[c].state = "backlog" => LifeStage(c) = "waiting"
  /\ sock[c].state = "closed" => LifeStage(c) = "closed"
  /\ sock[c].state = "open" =>
       /\ Parsing(c) /\ ~AtLogic(c) => LifeStage(c) = "reading"
       /\ ~Parsing(c) /\ AtLogic(c) => LifeStage(c) = "logic"
       /\ ~InPipeline(c) /\ conn[c].left > 0 => LifeStage(c) = "replying"
       /\ ~InPipeline(c) /\ conn[c].left = 0 => LifeStage(c) = "idle"

LEMMA Stages == \A c \in Conns : StageFacts(c)
  BY DEF StageFacts, LifeStage, InPipeline

LEMMA StagesNext == (\A c \in Conns : StageFacts(c))'
  BY Stages, PTL

\* A connection whose socket, place in the pipeline and pending response are what they
\* were is in the stage it was in.
LEMMA StageKept ==
  ASSUME NEW c \in Conns, sock'[c].state = sock[c].state,
         Parsing(c)' <=> Parsing(c), AtLogic(c)' <=> AtLogic(c),
         conn'[c].left = conn[c].left
  PROVE  LifeStage(c)' = LifeStage(c)
<1>1. InPipeline(c)' <=> InPipeline(c)
  BY DEF InPipeline
<1> QED
  BY <1>1 DEF LifeStage

\* No connection changes its stage.
AllRest == \A c \in Conns : LifeStage(c)' = LifeStage(c)

\* Connection c alone does.
Moves(c, from, to) ==
  /\ LifeStage(c) = from /\ LifeStage(c)' = to
  /\ \A d \in Conns : d # c => LifeStage(d)' = LifeStage(d)
  /\ running' = running

LEMMA RestIsStutter ==
  ASSUME AllRest, running' = running
  PROVE  UNCHANGED Life!vars
  BY DEF AllRest, Life!vars

LEMMA MovesIsMove ==
  ASSUME NEW c \in Conns, NEW from, NEW to, Moves(c, from, to)
  PROVE  Life!Move(c, from, to)
  BY DEF Moves, Life!Move

\* Steps after which every socket, place in the pipeline and pending response is what
\* it was.
LEMMA RestingSteps ==
  ASSUME Based, Ownership, Opened, [Next]_vars,
         \/ UNCHANGED vars
         \/ DrainDone \/ EpollWait \/ BatchDone \/ HandleSignalEvent \/ HandleTimerEvent
         \/ ListenEvent \/ AcceptDone \/ TimerDone \/ FlushBlocked \/ FlushNothing
         \/ \E f \in Fds : IgnoreEvent(f) \/ WritableEvent(f)
         \/ \E c \in Conns : \/ TimerSkip(c) \/ TimerRetry(c) \/ DeadlinePasses(c)
                             \/ ClientSend(c) \/ ClientHangup(c) \/ ClientReceive(c)
         \/ \E w \in Workers : WorkerStep(w)
         \/ TimerExpires \/ SignalArrives
  PROVE  AllRest /\ Opened'
<1> USE DEF kernelVars, socketVars, queueVars, loopVars, serverVars
<1>0. TypeOK /\ Located /\ conn \in ConnTable /\ None \notin Conns
  BY NameAssumption DEF Based, TypeOK, ConnTable
<1>1. \A c \in Conns : sock'[c].state = sock[c].state
  <2>1. CASE \E c \in Conns : ClientSend(c) \/ ClientHangup(c) \/ ClientReceive(c)
    <3>1. sock \in [Conns -> SocketType]
      BY <1>0 DEF TypeOK
    <3>2. ASSUME NEW c \in Conns, ClientHangup(c)
          PROVE  \A d \in Conns : sock'[d].state = sock[d].state
      <4>1. PICK p : sock' = [sock EXCEPT ![c].peer = p]
        BY <3>2 DEF ClientHangup
      <4> QED
        BY <3>1, <4>1 DEF SocketType
    <3>3. ASSUME NEW c \in Conns, ClientSend(c) \/ ClientReceive(c)
          PROVE  \A d \in Conns : sock'[d].state = sock[d].state
      BY <3>1, <3>3 DEF ClientSend, ClientReceive, SocketType
    <3> QED
      BY <2>1, <3>2, <3>3
  <2>2. CASE \E w \in Workers : WorkerStep(w)
    <3>1. PICK w \in Workers : WorkerStep(w)
      BY <2>2
    <3>2. CASE WorkerCloseDatabase(w)
      <4>1. owner[worker[w].fd] = w /\ w \notin Conns
        BY <3>2, NameAssumption DEF WorkerCloseDatabase, Ownership, LogicKeepsItsDatabase
      <4> QED
        BY <3>2, <4>1 DEF WorkerCloseDatabase, CloseFd
    <3>3. CASE WorkerTake(w) \/ WorkerOpenDatabase(w) \/ WorkerFinish(w)
      BY <3>3 DEF WorkerTake, WorkerOpenDatabase, WorkerFinish
    <3> QED
      BY <3>1, <3>2, <3>3 DEF WorkerStep
  <2>3. CASE ~ \/ \E c \in Conns : ClientSend(c) \/ ClientHangup(c) \/ ClientReceive(c)
               \/ \E w \in Workers : WorkerStep(w)
    BY <2>3 DEF vars, DrainDone, EpollWait, BatchDone, HandleSignalEvent, HandleTimerEvent,
       ListenEvent, AcceptDone, TimerDone, FlushBlocked, FlushNothing, IgnoreEvent, WritableEvent,
       TimerSkip, TimerRetry, DeadlinePasses, TimerExpires, SignalArrives
  <2> QED
    BY <2>1, <2>2, <2>3
<1>2. \A c \in Conns : AtLogic(c)' <=> AtLogic(c)
  <2>1. CASE \E w \in Workers : WorkerStep(w)
    BY <1>0, <2>1, WorkersAtLogic
  <2>2. CASE ~\E w \in Workers : WorkerStep(w)
    <3>1. UNCHANGED <<requests, results, worker>>
      BY <2>2 DEF vars, DrainDone, EpollWait, BatchDone, HandleSignalEvent, HandleTimerEvent,
         ListenEvent, AcceptDone, TimerDone, FlushBlocked, FlushNothing, IgnoreEvent, WritableEvent,
         TimerSkip, TimerRetry, DeadlinePasses, ClientSend, ClientHangup, ClientReceive,
         TimerExpires, SignalArrives
    <3> QED
      BY <3>1 DEF AtLogic, AtWorker
  <2> QED
    BY <2>1, <2>2
<1>3. \A c \in Conns : conn'[c].left = conn[c].left
  <2>1. CASE \E c \in Conns : TimerRetry(c) \/ DeadlinePasses(c)
    BY <1>0, <2>1 DEF TimerRetry, Retried, DeadlinePasses, ConnTable, ConnectionType
  <2>2. CASE ~\E c \in Conns : TimerRetry(c) \/ DeadlinePasses(c)
    BY <2>2 DEF vars, DrainDone, EpollWait, BatchDone, HandleSignalEvent, HandleTimerEvent,
       ListenEvent, AcceptDone, TimerDone, FlushBlocked, FlushNothing, IgnoreEvent, WritableEvent,
       TimerSkip, ClientSend, ClientHangup, ClientReceive, WorkerStep, WorkerTake,
       WorkerOpenDatabase, WorkerCloseDatabase, WorkerFinish, TimerExpires, SignalArrives
  <2> QED
    BY <2>1, <2>2
<1>4. \A c \in Conns : Parsing(c)' <=> Parsing(c)
  <2>1. \/ pc' = pc /\ cur' = cur
        \/ pc # "parse" /\ pc' # "parse"
    <3>1. CASE \/ \E f \in Fds : IgnoreEvent(f) \/ WritableEvent(f)
               \/ \E c \in Conns : TimerSkip(c) \/ TimerRetry(c)
      BY <3>1 DEF IgnoreEvent, WritableEvent, TimerSkip, TimerRetry, TakeEvent, FlushConnection
    <3>2. CASE \/ DrainDone \/ EpollWait \/ BatchDone \/ HandleSignalEvent
               \/ HandleTimerEvent \/ ListenEvent \/ AcceptDone \/ TimerDone
               \/ FlushBlocked \/ FlushNothing
      BY <3>2 DEF DrainDone, EpollWait, BatchDone, HandleSignalEvent, HandleTimerEvent, ListenEvent,
         AcceptDone, TimerDone, FlushBlocked, FlushNothing, TakeEvent, Drained
    <3>3. CASE \/ UNCHANGED vars
               \/ \E c \in Conns : \/ DeadlinePasses(c) \/ ClientSend(c) \/ ClientHangup(c)
                                   \/ ClientReceive(c)
               \/ \E w \in Workers : WorkerStep(w)
               \/ TimerExpires \/ SignalArrives
      BY <1>0, <3>3, BesideEffect DEF ClientStep
    <3> QED
      BY <3>1, <3>2, <3>3
  <2> QED
    BY <2>1 DEF Parsing
<1>5. \A f \in Fds : owner'[f] \in Conns => owner[f] = owner'[f]
  <2>1. CASE \E w \in Workers : WorkerStep(w)
    <3>1. PICK w \in Workers : WorkerStep(w)
      BY <2>1
    <3>2. CASE WorkerCloseDatabase(w)
      BY <1>0, <3>2 DEF WorkerCloseDatabase, CloseFd, TypeOK
    <3>3. CASE WorkerOpenDatabase(w)
      BY <1>0, <3>3, NameAssumption DEF WorkerOpenDatabase, TypeOK
    <3>4. CASE WorkerTake(w) \/ WorkerFinish(w)
      BY <3>4 DEF WorkerTake, WorkerFinish
    <3> QED
      BY <3>1, <3>2, <3>3, <3>4 DEF WorkerStep
  <2>2. CASE ~\E w \in Workers : WorkerStep(w)
    BY <2>2 DEF vars, DrainDone, EpollWait, BatchDone, HandleSignalEvent, HandleTimerEvent,
       ListenEvent, AcceptDone, TimerDone, FlushBlocked, FlushNothing, IgnoreEvent, WritableEvent,
       TimerSkip, TimerRetry, DeadlinePasses, ClientSend, ClientHangup, ClientReceive,
       TimerExpires, SignalArrives
  <2> QED
    BY <2>1, <2>2
<1>6. AllRest
  BY <1>1, <1>2, <1>3, <1>4, StageKept DEF AllRest
<1>7. Opened'
  BY <1>1, <1>5 DEF Opened
<1> QED
  BY <1>6, <1>7

\* Closing number f ends the life of its connection, if it has one, and no other's.
LEMMA CloseStage ==
  ASSUME Based, Ownership, Opened, NEW f \in Fds, NEW cn \in ConnTable, CloseConnection(cn, f),
         \A d \in Conns : d # store[f] => cn[d].left = conn[d].left,
         UNCHANGED queueVars, pc' # "parse", \A d \in Conns : Parsing(d) => d = store[f]
  PROVE  /\ \A d \in Conns : d # store[f] => LifeStage(d)' = LifeStage(d)
         /\ \A d \in Conns : d = store[f] => LifeStage(d)' = "closed" /\ sock[d].state = "open"
         /\ Opened'
<1>0. TypeOK /\ Located /\ None \notin Conns /\ sock \in [Conns -> SocketType]
      /\ \A g \in Fds : Sound(g)
  BY NameAssumption DEF Based, TypeOK, Ownership
<1>1. /\ store'[f] = None /\ owner'[f] = None
      /\ \A g \in Fds : g # f => owner'[g] = owner[g]
      /\ \A c \in Conns : c # owner[f] => sock'[c] = sock[c]
      /\ \A c \in Conns : c # store[f] => conn'[c] = cn[c]
  BY <1>0, CloseEffect
<1>2. \A d : AtLogic(d)' <=> AtLogic(d)
  BY DEF AtLogic, AtWorker, queueVars
<1>3. owner[f] \in Conns => owner[f] = store[f]
  BY <1>0 DEF Sound, Owned
<1>4. ASSUME NEW d \in Conns, d # store[f] PROVE LifeStage(d)' = LifeStage(d)
  BY <1>1, <1>2, <1>3, <1>4, StageKept DEF Parsing
<1>5. ASSUME NEW c \in Conns, c = store[f]
      PROVE  LifeStage(c)' = "closed" /\ sock[c].state = "open"
  <2>1. owner[f] = c
    BY <1>0, <1>5 DEF Sound, Owned
  <2>2. sock[c].state = "open" /\ sock'[c].state = "closed"
    BY <1>0, <2>1 DEF Opened, CloseConnection, CloseFd, ClosedSocket
  <2> QED
    BY <2>2, StagesNext DEF StageFacts
<1>6. Opened'
  <2>1. ASSUME NEW g \in Fds, owner'[g] \in Conns PROVE sock'[owner'[g]].state = "open"
    <3>1. g # f /\ owner'[g] = owner[g]
      BY <1>0, <1>1, <2>1
    <3>2. owner[g] # owner[f]
      BY <1>0, <2>1, <3>1, OneNumber DEF Sound, Owned
    <3> QED
      BY <1>1, <2>1, <3>1, <3>2 DEF Opened
  <2> QED
    BY <2>1 DEF Opened
<1> QED
  BY <1>4, <1>5, <1>6

\* A connection is closed without an answer, and there is an excuse for it.
Drops(c) == Moves(c, "idle", "closed") /\ MayDrop(c)

\* Closing steps end an answer, or an idle connection that there is an excuse for.
LEMMA ClosingLife ==
  ASSUME Based, Ownership, Opened,
         \/ FlushFails \/ CloseUnarmed
         \/ \E f \in Fds : HangupEvent(f) \/ DispatchReadFails(f)
         \/ \E c \in Conns : TimerGiveUp(c)
  PROVE  /\ Opened'
         /\ \/ AllRest
            \/ \E c \in Conns : Drops(c) \/ Moves(c, "replying", "closed")
<1>0. /\ TypeOK /\ Located /\ conn \in ConnTable /\ None \notin Conns
      /\ \A f \in Fds : store[f] \in Conns \cup {None}
      /\ \A f \in Fds : Sound(f)
      /\ \A c \in Conns : conn[c].left \in Nat
  BY NameAssumption DEF Based, TypeOK, ConnTable, Ownership, ConnectionType
<1> DEFINE Excused(f) ==
      \A c \in Conns : store[f] = c => ~AtLogic(c) /\ (conn[c].left = 0 => MayDrop(c))
<1>1. /\ pc # "parse" /\ pc' # "parse" /\ running' = running /\ UNCHANGED queueVars
      /\ \E f \in Fds : CloseConnection(conn, f) /\ Excused(f)
  <2>1. CASE FlushFails \/ CloseUnarmed
    <3>1. /\ conn[cur].fd \in Fds /\ store[conn[cur].fd] = cur /\ ~AtLogic(cur)
          /\ CloseConnection(conn, conn[cur].fd)
      BY <2>1, InHandFacts DEF FlushFails, CloseUnarmed
    <3>2. conn[cur].left = 0 => MayDrop(cur)
      BY <2>1 DEF FlushFails, CloseUnarmed, MayDrop
    <3>3. Excused(conn[cur].fd)
      BY <3>1, <3>2
    <3> QED
      BY <1>0, <2>1, <3>1, <3>3 DEF FlushFails, CloseUnarmed, GoOn, TypeOK, Drained
  <2>2. ASSUME NEW f \in Fds, HangupEvent(f)
        PROVE  <1>1!1 /\ <1>1!2
    <3>1. ASSUME NEW c \in Conns, store[f] = c PROVE ~AtLogic(c) /\ MayDrop(c)
      <4>1. conn[c].fd = f /\ f # None
        BY <1>0, <3>1, NameAssumption DEF Located
      <4>2. batch[f] = "HUP"
        BY <2>2 DEF HangupEvent
      <4> QED
        BY <3>1, <4>1, <4>2, NotAtLogic DEF MayDrop
    <3> QED
      BY <2>2, <3>1 DEF HangupEvent, TakeEvent
  <2>3. ASSUME NEW f \in Fds, DispatchReadFails(f)
        PROVE  <1>1!1 /\ <1>1!2
    <3>1. ASSUME NEW c \in Conns, store[f] = c PROVE ~AtLogic(c) /\ MayDrop(c)
      <4>1. owner[f] = c /\ Reads(f, conn[c].read) = {} /\ batch[f] = "IN"
        BY <1>0, <2>3, <3>1 DEF DispatchReadFails, Sound, Owned
      <4>2. sock[c].rx \notin Reads(f, conn[c].read)
        BY <4>1
      <4>3. sock[c].peer # "up" \/ ~(conn[c].read + sock[c].rx < BufferSize)
        BY <1>0, <4>1, <4>2 DEF Reads
      <4>4. conn[c].read \in Nat /\ sock[c].rx \in Nat /\ BufferSize \in Nat
        BY <1>0, SizeAssumption DEF TypeOK, ConnectionType, SocketType
      <4> QED
        BY <3>1, <4>1, <4>3, <4>4, NotAtLogic DEF MayDrop
    <3> QED
      BY <2>3, <3>1 DEF DispatchReadFails, TakeEvent
  <2>4. ASSUME NEW c \in Conns, TimerGiveUp(c)
        PROVE  <1>1!1 /\ <1>1!2
    <3>1. conn[c].fd \in Fds /\ store[conn[c].fd] = c /\ conn[c].left # 0
      BY <1>0, <2>4 DEF TimerGiveUp, Located, Ownership, Visiting
    <3>2. ~AtLogic(c)
      BY <1>0, <3>1, NotAtLogic
    <3>3. Excused(conn[c].fd)
      BY <3>1, <3>2
    <3> QED
      BY <2>4, <3>1, <3>3 DEF TimerGiveUp
  <2> QED
    BY <2>1, <2>2, <2>3, <2>4
<1>2. PICK f \in Fds : CloseConnection(conn, f) /\ Excused(f)
  BY <1>1
<1>3. /\ \A d \in Conns : d # store[f] => LifeStage(d)' = LifeStage(d)
      /\ \A d \in Conns : d = store[f] => LifeStage(d)' = "closed" /\ sock[d].state = "open"
      /\ Opened'
  BY <1>0, <1>1, <1>2, CloseStage DEF Parsing
<1>4. CASE store[f] = None
  BY <1>0, <1>3, <1>4 DEF AllRest
<1>5. CASE store[f] # None
  <2>1. PICK c \in Conns : c = store[f]
    BY <1>0, <1>5
  <2>2. ~InPipeline(c)
    BY <1>1, <1>2, <1>5, <2>1 DEF InPipeline, Parsing
  <2>3. /\ conn[c].left > 0 => LifeStage(c) = "replying"
        /\ conn[c].left = 0 => LifeStage(c) = "idle" /\ MayDrop(c)
    BY <1>2, <1>3, <1>5, <2>1, <2>2, Stages DEF StageFacts
  <2>4. conn[c].left > 0 \/ conn[c].left = 0
    BY <1>0
  <2> QED
    BY <1>1, <1>3, <2>1, <2>3, <2>4 DEF Moves, Drops
<1> QED
  BY <1>3, <1>4, <1>5

\* The socket of a stored connection is open.
LEMMA StoredOpen ==
  ASSUME Based, Ownership, Opened, NEW f \in Fds, NEW c \in Conns, store[f] = c
  PROVE  sock[c].state = "open"
<1>1. Sound(f) /\ c # None
  BY NameAssumption DEF Ownership
<1> QED
  BY <1>1 DEF Sound, Owned, Opened

\* A request that is not complete goes back to epoll, an answer or a new client gets
\* there, whatever epoll_ctl says: a connection that it fails for is closed next.
LEMMA ArmingLife ==
  ASSUME Based, Ownership, Opened, ParseIncomplete \/ ArmConnection
  PROVE  Opened' /\ (AllRest \/ \E c \in Conns : Moves(c, "reading", "idle"))
<1>0. /\ TypeOK /\ conn \in ConnTable /\ None \notin Conns
      /\ pc \in {"parse", "arm"} /\ running' = running /\ UNCHANGED queueVars
      /\ pc' # "parse"
  BY NameAssumption DEF Based, TypeOK, ConnTable, ParseIncomplete, ArmConnection,
     UpdateConnectionEvents, GoOn, Drained
<1> PICK c \in Conns, f \in Fds : c = cur /\ f = conn[cur].fd
  BY <1>0, InHandFacts
<1>1. /\ store[f] = c /\ owner[f] = c /\ ~AtLogic(c) /\ Held(c, f)
      /\ sock[c].state = "open"
      /\ \A d \in Conns : Parsing(d) => d = c
  BY <1>0, InHandFacts, StoredOpen DEF Parsing
<1>2. PICK cn \in ConnTable, mask \in {"IN", "OUT"}, r \in Drained \cup {"events", "timer", "accept"} :
        /\ UpdateConnectionEvents(cn, c, mask, r)
        /\ \A d \in Conns : cn[d].left = conn[d].left
  <2>1. CASE ParseIncomplete
    <3>1. Unmarked(c) \in ConnTable
      BY <1>0, ConnFields DEF Unmarked
    <3>2. \A d \in Conns : Unmarked(c)[d].left = conn[d].left
      BY <1>0 DEF Unmarked, ConnTable, ConnectionType
    <3> QED
      BY <2>1, <3>1, <3>2 DEF ParseIncomplete
  <2>2. CASE ArmConnection
    <3>1. ArmMask \in {"IN", "OUT"}
      BY DEF ArmMask
    <3> QED
      BY <1>0, <2>2, <3>1 DEF ArmConnection, TypeOK
  <2> QED
    BY <1>0, <2>1, <2>2
<1>3. UNCHANGED <<sock, owner>> /\ \A d \in Conns : conn'[d].left = conn[d].left
  <2>1. conn' = cn \/ conn' = [cn EXCEPT ![c].registered = TRUE]
    BY <1>2 DEF UpdateConnectionEvents
  <2>2. UNCHANGED <<sock, owner>>
    BY <1>2 DEF UpdateConnectionEvents, socketVars
  <2> QED
    BY <1>2, <2>1, <2>2 DEF ConnTable, ConnectionType
<1>4. \A d : AtLogic(d)' <=> AtLogic(d)
  BY <1>0 DEF AtLogic, AtWorker, queueVars
<1>5. Opened'
  BY <1>3 DEF Opened
<1>6. \A d \in Conns : d # c => LifeStage(d)' = LifeStage(d)
  BY <1>0, <1>1, <1>3, <1>4, StageKept DEF Parsing
<1>7. CASE pc = "parse"
  <2>1. conn[c].left = 0
    BY <1>1, <1>7 DEF Held, Pinned
  <2>2. LifeStage(c) = "reading"
    BY <1>1, <1>7, Stages DEF StageFacts, Parsing
  <2>3. LifeStage(c)' = "idle"
    BY <1>0, <1>1, <1>3, <1>4, <2>1, StagesNext DEF StageFacts, InPipeline, Parsing
  <2> QED
    BY <1>0, <1>5, <1>6, <2>2, <2>3 DEF Moves
<1>8. CASE pc # "parse"
  <2>1. LifeStage(c)' = LifeStage(c)
    BY <1>0, <1>3, <1>4, <1>8, StageKept DEF Parsing
  <2> QED
    BY <1>5, <1>6, <2>1 DEF AllRest
<1> QED
  BY <1>7, <1>8

\* send() ends the answer with its last byte.
LEMMA SendLife ==
  ASSUME Based, Ownership, Opened, FlushSend
  PROVE  Opened' /\ (AllRest \/ \E c \in Conns : Moves(c, "replying", "closed"))
<1>0. /\ TypeOK /\ conn \in ConnTable /\ None \notin Conns
      /\ pc = "flush" /\ running' = running /\ UNCHANGED queueVars /\ pc' # "parse"
  BY NameAssumption DEF Based, TypeOK, ConnTable, FlushSend, GoOn, Drained
<1> PICK c \in Conns, f \in Fds : c = cur /\ f = conn[cur].fd
  BY <1>0, InHandFacts
<1>1. /\ store[f] = c /\ owner[f] = c /\ ~AtLogic(c) /\ sock[c].state = "open"
      /\ conn[c] \in ConnectionType /\ conn[c].left > 0
      /\ sock[c].room \in Nat /\ conn[c].left \in Nat
  <2>1. store[f] = c /\ owner[f] = c /\ ~AtLogic(c) /\ sock[c].state = "open"
    BY <1>0, InHandFacts, StoredOpen
  <2>2. conn[c].left > 0
    BY DEF FlushSend
  <2>3. conn[c] \in ConnectionType /\ sock[c] \in SocketType
    BY <1>0 DEF ConnTable, TypeOK
  <2> QED
    BY <2>1, <2>2, <2>3, SizeAssumption DEF SocketType, ConnectionType
<1>2. LifeStage(c) = "replying"
  BY <1>0, <1>1, Stages DEF StageFacts, Parsing, InPipeline
<1> DEFINE cn == [conn EXCEPT ![c].left = 0, ![c].retries = 0, ![c].due = FALSE]
<1>3. CASE CloseConnection(cn, f)
  <2>1. cn = [conn EXCEPT ![c] = [conn[c] EXCEPT !.left = 0, !.retries = 0, !.due = FALSE]]
    BY <1>0, <1>1 DEF ConnTable
  <2>2. [conn[c] EXCEPT !.left = 0, !.retries = 0, !.due = FALSE] \in ConnectionType
    <3>1. 0 \in Nat /\ 0 \in 0..MaxWriteRetry
      BY SizeAssumption
    <3> QED
      BY <1>1, <3>1 DEF ConnectionType
  <2>3. cn \in ConnTable /\ \A d \in Conns : d # c => cn[d].left = conn[d].left
    BY <1>0, <2>1, <2>2 DEF ConnTable
  <2> HIDE DEF cn
  <2>4. /\ \A d \in Conns : d # store[f] => LifeStage(d)' = LifeStage(d)
        /\ LifeStage(c)' = "closed"
        /\ Opened'
    BY <1>0, <1>1, <1>3, <2>3, CloseStage DEF Parsing
  <2> QED
    BY <1>0, <1>1, <1>2, <2>4 DEF Moves
<1>4. CASE /\ ~(conn[c].left <= sock[c].room)
           /\ conn' = [conn EXCEPT ![c].left = @ - sock[c].room,
                                   ![c].retries = 0, ![c].due = FALSE]
           /\ sock' = [sock EXCEPT ![c].room = 0]
           /\ UNCHANGED owner
  <2>1. conn'[c].left > 0
    BY <1>0, <1>1, <1>4 DEF ConnTable, ConnectionType
  <2>2. /\ \A d \in Conns : d # c => conn'[d] = conn[d]
        /\ \A d \in Conns : sock'[d].state = sock[d].state
    BY <1>0, <1>4 DEF ConnTable, TypeOK, SocketType
  <2>3. \A d : AtLogic(d)' <=> AtLogic(d)
    BY <1>0 DEF AtLogic, AtWorker, queueVars
  <2>4. LifeStage(c)' = "replying"
    BY <1>0, <1>1, <2>1, <2>2, <2>3, StagesNext DEF StageFacts, InPipeline, Parsing
  <2>5. \A d \in Conns : d # c => LifeStage(d)' = LifeStage(d)
    BY <1>0, <2>2, <2>3, StageKept DEF Parsing
  <2>6. Opened'
    BY <1>4, <2>2 DEF Opened
  <2> QED
    BY <1>2, <2>4, <2>5, <2>6 DEF AllRest
<1> QED
  BY <1>1, <1>3, <1>4 DEF FlushSend, GoOn, Target

\* An answer is set up: for a bad request, or with a result.
LEMMA ResponseLife ==
  ASSUME Based, Ownership, Opened, ParseBad \/ HandleLogicResult
  PROVE  /\ Opened'
         /\ \E c \in Conns : Moves(c, "reading", "replying") \/ Moves(c, "logic", "replying")
<1> USE DEF kernelVars
<1>0. conn \in ConnTable
  BY DEF Based, TypeOK, ConnTable
<1>1. PICK c \in Conns, r \in Drained \cup {"events"} :
        /\ Pinned(c) /\ QueueResponse(c, r)
        /\ \A d \in Conns : InHand(d) => d = c
        /\ \/ Parsing(c) /\ ~AtLogic(c)
           \/ AtLogic(c) /\ pc # "parse"
        /\ ~AtLogic(c)'
        /\ \A d \in Conns : d # c => (AtLogic(d)' <=> AtLogic(d))
  BY WhoIsAnswered
<1>2. sock[c].state = "open"
  BY <1>1, StoredOpen DEF Pinned
<1>3. LifeStage(c) \in {"reading", "logic"}
  BY <1>1, <1>2, Stages DEF StageFacts, Parsing
<1>4. UNCHANGED <<sock, owner, running>> /\ pc' = "flush"
  BY <1>1 DEF ParseBad, HandleLogicResult, QueueResponse
<1>5. /\ conn'[c].left > 0
      /\ \A d \in Conns : d # c => conn'[d] = conn[d]
  <2>1. PICK n \in RespLens :
          conn' = [conn EXCEPT ![c].left = n, ![c].retries = 0, ![c].due = FALSE,
                               ![c].processing = FALSE]
    BY <1>1 DEF QueueResponse
  <2>2. n > 0
    BY SizeAssumption
  <2> QED
    BY <1>0, <2>1, <2>2 DEF ConnTable, ConnectionType
<1>6. LifeStage(c)' = "replying"
  BY <1>1, <1>2, <1>4, <1>5, StagesNext DEF StageFacts, InPipeline, Parsing
<1>7. ASSUME NEW d \in Conns, d # c PROVE LifeStage(d)' = LifeStage(d)
  <2>1. ~Parsing(d) /\ ~Parsing(d)'
    BY <1>1, <1>4, <1>7 DEF Parsing, InHand
  <2> QED
    BY <1>1, <1>4, <1>5, <1>7, <2>1, StageKept
<1>8. Opened'
  BY <1>4 DEF Opened
<1> QED
  BY <1>3, <1>4, <1>6, <1>7, <1>8 DEF Moves

\* Input is read on an idle connection.
LEMMA ReadLife ==
  ASSUME Based, Ownership, Opened, NEW f \in Fds, DispatchRead(f)
  PROVE  Opened' /\ \E c \in Conns : Moves(c, "idle", "reading")
<1>0. TypeOK /\ conn \in ConnTable /\ None \notin Conns
  BY NameAssumption DEF Based, TypeOK, ConnTable
<1>1. PICK c \in Conns : store[f] = c
  BY <1>0 DEF DispatchRead, TypeOK
<1>2. /\ conn[c].left = 0 /\ ~AtLogic(c) /\ owner[f] = c /\ sock[c].state = "open"
      /\ \A d \in Conns : ~Parsing(d)
  <2>1. batch[f] = "IN" /\ Sound(f) /\ pc = "events"
    BY DEF DispatchRead, TakeEvent, Ownership
  <2> QED
    BY <1>0, <1>1, <2>1, NotAtLogic, StoredOpen DEF Sound, Owned, Batched, Parsing
<1>3. /\ pc' = "parse" /\ cur' = c /\ UNCHANGED <<owner, queueVars, running>>
      /\ \A d \in Conns : sock'[d].state = sock[d].state
      /\ \A d \in Conns : conn'[d].left = conn[d].left
  <2>1. \E n \in Reads(f, conn[c].read) : conn' = Taken(c, n)
    BY <1>1 DEF DispatchRead
  <2>2. sock' = [sock EXCEPT ![c].rx = 0]
    BY <1>2 DEF DispatchRead
  <2>3. pc' = "parse" /\ cur' = c /\ UNCHANGED <<owner, queueVars, running>>
    BY <1>1 DEF DispatchRead
  <2> QED
    BY <1>0, <2>1, <2>2, <2>3 DEF Taken, ConnTable, ConnectionType, TypeOK, SocketType
<1>4. \A d : AtLogic(d)' <=> AtLogic(d)
  BY <1>3 DEF AtLogic, AtWorker, queueVars
<1>5. LifeStage(c) = "idle"
  BY <1>2, Stages DEF StageFacts, InPipeline
<1>6. LifeStage(c)' = "reading"
  BY <1>2, <1>3, <1>4, StagesNext DEF StageFacts, Parsing
<1>7. \A d \in Conns : d # c => LifeStage(d)' = LifeStage(d)
  BY <1>2, <1>3, <1>4, StageKept DEF Parsing
<1>8. Opened'
  BY <1>3 DEF Opened
<1> QED
  BY <1>3, <1>5, <1>6, <1>7, <1>8 DEF Moves

\* A complete request goes to the logic threads.
LEMMA HandOverLife ==
  ASSUME Based, Ownership, Opened, ParseComplete
  PROVE  Opened' /\ \E c \in Conns : Moves(c, "reading", "logic")
<1>1. /\ pc = "parse" /\ pc' = "events"
      /\ requests' = Append(requests, cur)
      /\ UNCHANGED <<sock, owner, conn, results, worker, running>>
  BY DEF ParseComplete, GoOn, kernelVars
<1> PICK c \in Conns, f \in Fds : c = cur /\ f = conn[cur].fd
  BY <1>1, InHandFacts
<1>2. sock[c].state = "open" /\ Parsing(c) /\ ~AtLogic(c)
  BY <1>1, InHandFacts, StoredOpen DEF Parsing
<1>3. Elements(requests') = Elements(requests) \cup {c}
  BY <1>1, PushedQueue DEF Based, TypeOK
<1>4. AtLogic(c)' /\ \A d \in Conns : d # c => (AtLogic(d)' <=> AtLogic(d))
  BY <1>1, <1>3 DEF AtLogic, AtWorker
<1>5. LifeStage(c) = "reading"
  BY <1>2, Stages DEF StageFacts
<1>6. LifeStage(c)' = "logic"
  BY <1>1, <1>2, <1>4, StagesNext DEF StageFacts, Parsing
<1>7. \A d \in Conns : d # c => LifeStage(d)' = LifeStage(d)
  BY <1>1, <1>4, StageKept DEF Parsing
<1>8. Opened'
  BY <1>1 DEF Opened
<1> QED
  BY <1>1, <1>5, <1>6, <1>7, <1>8 DEF Moves

\* accept() takes a client from the backlog, with nothing read and nothing to write.
LEMMA AcceptLife ==
  ASSUME Based, Ownership, Opened, AcceptOne
  PROVE  Opened' /\ \E c \in Conns : Moves(c, "waiting", "idle")
<1>0. TypeOK /\ Located /\ conn \in ConnTable
  BY DEF Based, TypeOK, ConnTable
<1>1. PICK c \in Backlog, f \in Fds :
        /\ sock' = [sock EXCEPT ![c].state = "open"]
        /\ owner' = [owner EXCEPT ![f] = c]
        /\ conn' = [conn EXCEPT ![c] = NewConnection(f)]
  BY DEF AcceptOne
<1>2. /\ pc # "parse" /\ pc' # "parse" /\ UNCHANGED <<queueVars, running>>
      /\ c \in Conns /\ sock[c].state = "backlog" /\ ~AtLogic(c)
  BY <1>0 DEF AcceptOne, Backlog, Located, Accepted
<1>3. /\ conn'[c].left = 0 /\ sock'[c].state = "open"
      /\ \A d \in Conns : d # c => conn'[d] = conn[d] /\ sock'[d] = sock[d]
      /\ \A g \in Fds : owner'[g] \in {owner[g], c}
  BY <1>0, <1>1, <1>2 DEF NewConnection, ConnTable, TypeOK, SocketType
<1>4. \A d : AtLogic(d)' <=> AtLogic(d)
  BY <1>2 DEF AtLogic, AtWorker, queueVars
<1>5. LifeStage(c) = "waiting"
  BY <1>2, Stages DEF StageFacts
<1>6. LifeStage(c)' = "idle"
  BY <1>2, <1>3, <1>4, StagesNext DEF StageFacts, InPipeline, Parsing
<1>7. \A d \in Conns : d # c => LifeStage(d)' = LifeStage(d)
  BY <1>2, <1>3, <1>4, StageKept DEF Parsing
<1>8. Opened'
  BY <1>3 DEF Opened
<1> QED
  BY <1>2, <1>5, <1>6, <1>7, <1>8 DEF Moves

\* A client connects.
LEMMA ConnectLife ==
  ASSUME Based, Opened, NEW c \in Conns, Connect(c)
  PROVE  Opened' /\ Moves(c, "unborn", "waiting")
<1> USE DEF serverVars, queueVars, loopVars
<1>1. sock \in [Conns -> SocketType]
  BY DEF Based, TypeOK
<1>2. /\ sock[c].state = "none" /\ sock'[c].state = "backlog"
      /\ \A d \in Conns : d # c => sock'[d] = sock[d]
      /\ UNCHANGED <<owner, conn, requests, results, worker, pc, cur, running>>
  BY <1>1 DEF Connect, SocketType
<1>3. LifeStage(c) = "unborn" /\ LifeStage(c)' = "waiting"
  BY <1>2, Stages, StagesNext DEF StageFacts
<1>4. \A d \in Conns : d # c => LifeStage(d)' = LifeStage(d)
  BY <1>2, StageKept DEF Parsing, AtLogic, AtWorker
<1>5. Opened'
  BY <1>2 DEF Opened
<1> QED
  BY <1>2, <1>3, <1>4, <1>5 DEF Moves

\* A stop signal takes effect once; the connections do not notice.
LEMMA StopLife ==
  ASSUME TypeOK, AllRest, HandleSignalEvent
  PROVE  [Life!Next]_(Life!vars)
<1>1. running \in BOOLEAN /\ running' = FALSE
  BY DEF TypeOK, HandleSignalEvent
<1>2. CASE running = FALSE
  BY <1>1, <1>2, RestIsStutter
<1>3. CASE running = TRUE
  <2>1. Life!Stop
    BY <1>1, <1>3 DEF Life!Stop, AllRest
  <2> QED
    BY <2>1 DEF Life!Next
<1> QED
  BY <1>1, <1>2, <1>3

\* Each move a step makes is one of the abstract specification's.
LEMMA MovesAreSteps ==
  ASSUME NEW c \in Conns,
         \/ Moves(c, "unborn", "waiting") \/ Moves(c, "waiting", "idle")
         \/ Moves(c, "idle", "reading") \/ Moves(c, "reading", "idle")
         \/ Moves(c, "reading", "logic") \/ Moves(c, "reading", "replying")
         \/ Moves(c, "logic", "replying") \/ Moves(c, "replying", "closed")
         \/ Drops(c)
  PROVE  Life!Next
  BY MovesIsMove DEF Drops, Life!Next, Life!Arrive, Life!Accept, Life!Read, Life!Resume,
     Life!Submit, Life!Refuse, Life!Answer, Life!Complete, Life!Drop

LEMMA StepLife ==
  Based /\ Ownership /\ Opened /\ [Next]_vars => Opened' /\ [Life!Next]_(Life!vars)
<1> SUFFICES ASSUME Based, Ownership, Opened, [Next]_vars
             PROVE  Opened' /\ [Life!Next]_(Life!vars)
  OBVIOUS
<1>1. CASE \/ FlushFails \/ CloseUnarmed
           \/ \E f \in Fds : HangupEvent(f) \/ DispatchReadFails(f)
           \/ \E c \in Conns : TimerGiveUp(c)
  <2>1. running' = running
    BY <1>1 DEF FlushFails, CloseUnarmed, HangupEvent, DispatchReadFails, TimerGiveUp
  <2> QED
    BY <1>1, <2>1, ClosingLife, MovesAreSteps, RestIsStutter
<1>2. CASE ParseIncomplete \/ ArmConnection
  <2>1. running' = running
    BY <1>2 DEF ParseIncomplete, ArmConnection, GoOn
  <2> QED
    BY <1>2, <2>1, ArmingLife, MovesAreSteps, RestIsStutter
<1>3. CASE FlushSend
  <2>1. running' = running
    BY <1>3 DEF FlushSend
  <2> QED
    BY <1>3, <2>1, SendLife, MovesAreSteps, RestIsStutter
<1>4. CASE ParseBad \/ HandleLogicResult
  BY <1>4, ResponseLife, MovesAreSteps
<1>5. CASE \E f \in Fds : DispatchRead(f)
  BY <1>5, ReadLife, MovesAreSteps
<1>6. CASE ParseComplete
  BY <1>6, HandOverLife, MovesAreSteps
<1>7. CASE AcceptOne
  BY <1>7, AcceptLife, MovesAreSteps
<1>8. CASE \E c \in Conns : Connect(c)
  BY <1>8, ConnectLife, MovesAreSteps
<1>9. CASE HandleSignalEvent
  <2>1. AllRest /\ Opened'
    BY <1>9, RestingSteps
  <2> QED
    BY <1>9, <2>1, StopLife DEF Based
<1>10. CASE \/ UNCHANGED vars
            \/ DrainDone \/ EpollWait \/ BatchDone \/ HandleTimerEvent
            \/ ListenEvent \/ AcceptDone \/ TimerDone \/ FlushBlocked \/ FlushNothing
            \/ \E f \in Fds : IgnoreEvent(f) \/ WritableEvent(f)
            \/ \E c \in Conns : \/ TimerSkip(c) \/ TimerRetry(c) \/ DeadlinePasses(c)
                                \/ ClientSend(c) \/ ClientHangup(c) \/ ClientReceive(c)
            \/ \E w \in Workers : WorkerStep(w)
            \/ TimerExpires \/ SignalArrives
  <2>1. AllRest /\ Opened'
    BY <1>10, RestingSteps
  <2>2. running' = running
    BY <1>10 DEF vars, DrainDone, EpollWait, BatchDone, HandleTimerEvent, ListenEvent, AcceptDone,
       TimerDone, FlushBlocked, FlushNothing, IgnoreEvent, WritableEvent, TimerSkip, TimerRetry,
       DeadlinePasses, ClientSend, ClientHangup, ClientReceive, WorkerStep, WorkerTake,
       WorkerOpenDatabase, WorkerCloseDatabase, WorkerFinish, TimerExpires, SignalArrives,
       loopVars, serverVars
  <2> QED
    BY <2>1, <2>2, RestIsStutter
<1> QED
  BY <1>1, <1>2, <1>3, <1>4, <1>5, <1>6, <1>7, <1>8, <1>9, <1>10
     DEF Next, MainStep, ClientStep, Terminated

LEMMA InitLife == Init => Opened /\ Life!Init
<1> SUFFICES ASSUME Init PROVE Opened /\ Life!Init
  OBVIOUS
<1>1. Opened
  BY NameAssumption DEF Init, Opened
<1>2. \A c \in Conns : LifeStage(c) = "unborn"
  BY Stages DEF Init, StageFacts
<1> QED
  BY <1>1, <1>2 DEF Init, Life!Init

\* The event loop implements the life of a connection: accepted once, read, handed to
\* the logic threads, answered once and closed with its answer; nothing closes it while
\* its request is read or with the logic threads, and nothing but what MayDrop lists
\* while it is idle.
THEOREM ServesOneLife == SparingSpec => Life!SafeSpec
  BY SparingInvariants, InitLife, StepLife, PTL DEF SparingSpec, Spec, Life!SafeSpec
==============================================================================
