------------------------------- MODULE Reactor -------------------------------
(***************************************************************************)
(* The event loop of serverapp::Server (v3/server/server.cpp): one main    *)
(* thread multiplexes the listening socket, a signalfd, a timerfd and the  *)
(* client sockets with epoll, hands complete requests to the logic threads *)
(* through one queue, takes their results from another and writes the      *)
(* responses back without blocking.                                        *)
(*                                                                         *)
(* Every descriptor is a number of the process's descriptor table.  The    *)
(* kernel gives the lowest free one to whoever asks, be it accept() in the *)
(* main thread or the MySQL client library in a logic thread, so a number  *)
(* names different sockets at different times.  The main thread looks      *)
(* connections up by that number; most of what can go wrong here goes      *)
(* wrong there.                                                            *)
(*                                                                         *)
(* Bytes are counted in units: a request is ReqLen of them, the read       *)
(* buffer holds BufferSize, a socket's send buffer SndBuf.  Time is kept   *)
(* only as far as the code compares it: whether a retry deadline passed.   *)
(***************************************************************************)
EXTENDS Integers, Sequences, FiniteSets

CONSTANTS
  Conns,          \* the clients; each connects at most once
  Fds,            \* descriptor numbers left for client and database sockets
  ListenFd, TimerFd, SignalFd,
  Workers,        \* the logic threads
  LoginEnabled,   \* whether requests may reach MysqlStore::LoginOrCreate
  MaxEvents,      \* size of Epoller::_events
  ReqLen,         \* units that complete a request
  BufferSize,     \* Connection::BUFFER_SIZE
  RespLens,       \* sizes of responses
  SndBuf,         \* free units of an idle socket's send buffer
  MaxWriteRetry,  \* Server::MAX_WRITE_RETRY
  None

Specials == {ListenFd, TimerFd, SignalFd}
Sources == Fds \cup Specials

ASSUME FdAssumption ==
  /\ Fds \subseteq Nat
  /\ IsFiniteSet(Fds)
  /\ Specials \subseteq Int
  /\ Fds \cap Specials = {}
  /\ Cardinality(Specials) = 3

ASSUME NameAssumption ==
  /\ Conns \cap Workers = {}
  /\ None \notin Conns \cup Workers \cup Fds

ASSUME SizeAssumption ==
  /\ LoginEnabled \in BOOLEAN
  /\ MaxEvents \in Nat \ {0}
  /\ ReqLen \in Nat \ {0}
  /\ BufferSize \in Nat
  /\ ReqLen < BufferSize
  /\ RespLens \subseteq Nat \ {0}
  /\ RespLens # {}
  /\ SndBuf \in Nat \ {0}
  /\ MaxWriteRetry \in Nat

VARIABLES
  \* the kernel
  sock,      \* client sockets: state, what the peer did, unread units, send room
  owner,     \* descriptor table: which socket a number stands for
  interest,  \* epoll: the mask registered for a descriptor
  rdy,       \* epoll: the edge-triggered ready list
  timerUp,   \* the timerfd is readable
  sigUp,     \* a SIGINT or SIGTERM is pending on the signalfd
  \* the server's objects
  store,     \* ConnectionStore: descriptor -> Connection
  conn,      \* the Connection objects
  requests,  \* _logic_requests, what is queued for the logic threads
  results,   \* _logic_results, what they have produced
  worker,    \* the logic threads
  \* the main thread
  pc, ret,   \* where it is, and where TryFlushPendingResponse returns to
  cur,       \* the connection it is working on
  snapshot,  \* HandleTimerEvent's connections still to visit
  batch,     \* events of the last epoll_wait not handled yet
  running,   \* Server::_running
  \* history
  received   \* whose response bytes a client, or a thread's database, was sent

kernelVars == <<sock, owner, interest, rdy, timerUp, sigUp>>
socketVars == <<sock, owner, interest, rdy>>
queueVars  == <<requests, results, worker>>
loopVars   == <<pc, ret, cur, snapshot, batch, running>>
vars == <<sock, owner, interest, rdy, timerUp, sigUp, store, conn,
          requests, results, worker, pc, ret, cur, snapshot, batch, running,
          received>>

Drained == {"drainTop", "drainEnd"}
Labels  == Drained \cup {"wait", "events", "parse", "flush", "arm", "unarmed",
                         "accept", "timer", "stuck", "stopped"}
Events  == {"none", "IN", "OUT", "HUP"}

SocketType == [state : {"none", "backlog", "open", "closed"},
               peer  : {"up", "fin", "rst"},
               rx    : 0..BufferSize,
               room  : 0..SndBuf]

ConnectionType == [fd         : Fds \cup {None},
                   read       : 0..BufferSize,
                   processing : BOOLEAN,
                   registered : BOOLEAN,
                   left       : Nat,
                   retries    : 0..MaxWriteRetry,
                   due        : BOOLEAN]

WorkerType == [phase : {"idle", "resolve", "db", "built"},
               conn  : Conns \cup {None},
               fd    : Fds \cup {None}]

\* Every variable stays in its domain: the records of sockets, Connection
\* objects and threads, the descriptor-indexed tables and the queues.
TypeOK ==
  /\ sock \in [Conns -> SocketType]
  /\ owner \in [Fds -> Conns \cup Workers \cup {None}]
  /\ interest \in [Fds -> {"none", "IN", "OUT"}]
  /\ rdy \in SUBSET Fds
  /\ timerUp \in BOOLEAN
  /\ sigUp \in BOOLEAN
  /\ store \in [Fds -> Conns \cup {None}]
  /\ conn \in [Conns -> ConnectionType]
  /\ requests \in Seq(Conns)
  /\ results \in Seq(Conns)
  /\ worker \in [Workers -> WorkerType]
  /\ pc \in Labels
  /\ ret \in Drained \cup {"events", "timer", "accept"}
  /\ cur \in Conns \cup {None}
  /\ snapshot \in SUBSET Conns
  /\ batch \in [Sources -> Events]
  /\ running \in BOOLEAN
  /\ received \in [Conns \cup Workers -> SUBSET Conns]

------------------------------------------------------------------------------
(* Connection objects and sockets as they are created.                      *)

NewConnection(f) ==
  [fd |-> f, read |-> 0, processing |-> FALSE, registered |-> FALSE,
   left |-> 0, retries |-> 0, due |-> FALSE]

ClosedSocket == [state |-> "closed", peer |-> "up", rx |-> 0, room |-> 0]

\* Where Run begins: nobody has connected; the listening socket, the signalfd and
\* the timerfd are in epoll (ServerProcess has what may fail before).
Init ==
  /\ sock = [c \in Conns |-> [state |-> "none", peer |-> "up",
                              rx |-> 0, room |-> SndBuf]]
  /\ owner = [f \in Fds |-> None]
  /\ interest = [f \in Fds |-> "none"]
  /\ rdy = {}
  /\ timerUp = FALSE
  /\ sigUp = FALSE
  /\ store = [f \in Fds |-> None]
  /\ conn = [c \in Conns |-> NewConnection(None)]
  /\ requests = <<>>
  /\ results = <<>>
  /\ worker = [w \in Workers |-> [phase |-> "idle", conn |-> None, fd |-> None]]
  /\ pc = "drainTop"
  /\ ret = "events"
  /\ cur = None
  /\ snapshot = {}
  /\ batch = [s \in Sources |-> "none"]
  /\ running = TRUE
  /\ received = [s \in Conns \cup Workers |-> {}]

------------------------------------------------------------------------------
(* The kernel: descriptor table, sockets, epoll.                             *)

IsFree(f) == owner[f] = None
LowestFree(f) == IsFree(f) /\ \A g \in Fds : IsFree(g) => f <= g

Backlog == {c \in Conns : sock[c].state = "backlog"}

\* What poll() says of socket s under a mask.  Both masks of the server ask
\* for EPOLLRDHUP, EPOLLERR and EPOLLHUP are always reported, and Run tests
\* the three before the others: "HUP" stands for any set with one of them.
SocketEvent(s, mask) ==
  IF mask = "none" THEN "none"
  ELSE IF s.peer # "up" THEN "HUP"
  ELSE IF mask = "IN" /\ s.rx > 0 THEN "IN"
  ELSE IF mask = "OUT" /\ s.room > 0 THEN "OUT"
  ELSE "none"

Poll(f) == IF owner[f] \in Conns
           THEN SocketEvent(sock[owner[f]], interest[f])
           ELSE "none"

\* epoll_ctl ADD or MOD: the item is polled at once, so readiness that came
\* before the call is not lost although the item is edge-triggered.
Control(f, mask) ==
  /\ interest' = [interest EXCEPT ![f] = mask]
  /\ rdy' = IF /\ owner[f] \in Conns
               /\ SocketEvent(sock[owner[f]], mask) # "none"
            THEN rdy \cup {f} ELSE rdy

\* A wakeup of client c's socket puts its epoll item on the ready list.
Wakeup(c) ==
  rdy' = rdy \cup {f \in Fds : owner[f] = c /\ interest[f] # "none"}

\* close(): the number is free again and the epoll item is gone.
CloseFd(f) ==
  /\ owner' = [owner EXCEPT ![f] = None]
  /\ sock' = IF owner[f] \in Conns
             THEN [sock EXCEPT ![owner[f]] = ClosedSocket] ELSE sock
  /\ interest' = [interest EXCEPT ![f] = "none"]
  /\ rdy' = rdy \ {f}

\* Mutant: the call is forgotten.
KeepInEpoll(f) == UNCHANGED <<interest, rdy>>

\* epoll_ctl DEL (Epoller::Del).
EpollDel(f) ==
  /\ interest' = [interest EXCEPT ![f] = "none"]
  /\ rdy' = rdy \ {f}

------------------------------------------------------------------------------
(* Helpers of the main thread.  cn is the table of Connection objects as     *)
(* the caller leaves it.                                                     *)

\* Mutant: close(fd) is forgotten.
CloseLeaksFd(cn, f) ==
  /\ conn' = IF store[f] = None THEN cn
             ELSE [cn EXCEPT ![store[f]].processing = FALSE,
                             ![store[f]].registered = FALSE]
  /\ store' = [store EXCEPT ![f] = None]
  /\ interest' = [interest EXCEPT ![f] = "none"]
  /\ rdy' = rdy \ {f}
  /\ UNCHANGED <<sock, owner>>

\* Server::CloseConnection: the close() is unconditional, also when no
\* connection has that number any more.
CloseConnection(cn, f) ==
  /\ conn' = IF store[f] = None THEN cn
             ELSE [cn EXCEPT ![store[f]].processing = FALSE,
                             ![store[f]].registered = FALSE]
  /\ store' = [store EXCEPT ![f] = None]
  /\ CloseFd(f)

\* Mutant: the front is copied and not popped.
PopKeepsFront(q) == q

\* What RequestQueue::Pop and TryPop leave in the queue.
Popped(q) == Tail(q)

\* The critical section of Server::QueueResponse; TryFlushPendingResponse on
\* the same connection follows, and returns to label r.
QueueResponse(c, r) ==
  /\ \E n \in RespLens :
       conn' = [conn EXCEPT ![c].left = n, ![c].retries = 0, ![c].due = FALSE,
                            ![c].processing = FALSE]
  /\ cur' = c
  /\ ret' = r
  /\ pc' = "flush"

\* Mutant: EPOLLOUT, too, waits for the retry deadline.
FlushWhenDue(f, r) ==
  IF store[f] = None \/ ~conn[store[f]].due
  THEN pc' = r /\ UNCHANGED <<cur, ret>>
  ELSE pc' = "flush" /\ cur' = store[f] /\ ret' = r

\* Server::FlushConnection: looks the connection up by number, and calls
\* TryFlushPendingResponse if there is one.
FlushConnection(f, r) ==
  IF store[f] = None
  THEN pc' = r /\ UNCHANGED <<cur, ret>>
  ELSE pc' = "flush" /\ cur' = store[f] /\ ret' = r

\* The work on connection cur ends; the main thread goes on at label l.
GoOn(l) == pc' = l /\ cur' = None /\ ret' = "events"

\* Server::UpdateConnectionEvents, called from label r: ADD or MOD by
\* _registered_in_epoll.  MOD of an absent item (ENOENT), ADD of a present one
\* (EEXIST), either on a closed number (EBADF) and ADD beyond the kernel's limits
\* (ENOSPC, ENOMEM) fail, and then the connection is closed next.
UpdateConnectionEvents(cn, c, mask, r) ==
  LET f == cn[c].fd IN
  \/ /\ owner[f] # None
     /\ cn[c].registered <=> interest[f] # "none"
     /\ Control(f, mask)
     /\ conn' = [cn EXCEPT ![c].registered = TRUE]
     /\ GoOn(r)
     /\ UNCHANGED <<sock, owner, store>>
  \/ /\ ~(cn[c].registered /\ interest[f] # "none")
     /\ conn' = cn
     /\ pc' = "unarmed" /\ cur' = c /\ ret' = r
     /\ UNCHANGED <<socketVars, store>>

\* ... because epoll_ctl has failed.
CloseUnarmed ==
  /\ pc = "unarmed"
  /\ CloseConnection(conn, conn[cur].fd)
  /\ GoOn(ret)
  /\ UNCHANGED <<timerUp, sigUp, queueVars, snapshot, batch, running, received>>

------------------------------------------------------------------------------
(* Server::Run: drain, wait, handle the batch, drain.                        *)

\* The end of DrainLogicResults: the result queue is empty.
DrainDone ==
  /\ pc \in Drained
  /\ results = <<>>
  /\ pc' = CASE pc = "drainTop" -> "wait"
             [] pc = "drainEnd" /\ running -> "drainTop"
             [] OTHER -> "stopped"
  /\ UNCHANGED <<kernelVars, store, conn, queueVars, ret, cur, snapshot, batch,
                 running, received>>

\* One round of DrainLogicResults: TryPop, HandleLogicResult, QueueResponse.
HandleLogicResult ==
  /\ pc \in Drained
  /\ results # <<>>
  /\ results' = Popped(results)
  /\ QueueResponse(Head(results), pc)
  /\ UNCHANGED <<kernelVars, store, requests, worker, snapshot, batch, running,
                 received>>

\* The descriptors epoll_wait finds ready: the client sockets are
\* edge-triggered, the other three level-triggered.
ReadySources ==
  {f \in rdy : Poll(f) # "none"}
    \cup {s \in Specials : \/ s = ListenFd /\ Backlog # {}
                           \/ s = TimerFd /\ timerUp
                           \/ s = SignalFd /\ sigUp}

\* epoll_wait returns at most MaxEvents events, in any order; with none it
\* returns after its timeout of 100 ms.
EpollWait ==
  /\ pc = "wait"
  /\ \E S \in SUBSET ReadySources :
       /\ Cardinality(S) = IF Cardinality(ReadySources) <= MaxEvents
                           THEN Cardinality(ReadySources) ELSE MaxEvents
       /\ batch' = [s \in Sources |-> IF s \notin S THEN "none"
                                      ELSE IF s \in Fds THEN Poll(s) ELSE "IN"]
       /\ rdy' = {f \in rdy : Poll(f) # "none"} \ S
  /\ pc' = "events"
  /\ UNCHANGED <<sock, owner, interest, timerUp, sigUp, store, conn, queueVars,
                 ret, cur, snapshot, running, received>>

\* The loop over the batch takes the event of source s.
TakeEvent(s) ==
  /\ pc = "events"
  /\ batch[s] # "none"
  /\ batch' = [batch EXCEPT ![s] = "none"]

BatchDone ==
  /\ pc = "events"
  /\ \A s \in Sources : batch[s] = "none"
  /\ pc' = "drainEnd"
  /\ UNCHANGED <<kernelVars, store, conn, queueVars, ret, cur, snapshot, batch,
                 running, received>>

\* Server::HandleSignalEvent: the rest of the batch is still handled.
HandleSignalEvent ==
  /\ TakeEvent(SignalFd)
  /\ sigUp' = FALSE
  /\ running' = FALSE
  /\ UNCHANGED <<socketVars, timerUp, store, conn, queueVars, pc, ret, cur,
                 snapshot, received>>

\* ConnectionStore::Snapshot.
Stored == {store[f] : f \in Fds} \ {None}

\* Server::HandleTimerEvent: read the timer, then visit a snapshot of the store.
HandleTimerEvent ==
  /\ TakeEvent(TimerFd)
  /\ timerUp' = FALSE
  /\ snapshot' = Stored
  /\ pc' = "timer"
  /\ UNCHANGED <<socketVars, sigUp, store, conn, queueVars, ret, cur, running,
                 received>>

\* The listening socket is ready: AcceptConnections.
ListenEvent ==
  /\ TakeEvent(ListenFd)
  /\ pc' = "accept"
  /\ UNCHANGED <<kernelVars, store, conn, queueVars, ret, cur, snapshot, running,
                 received>>

\* EPOLLERR, EPOLLHUP or EPOLLRDHUP: close by number.
HangupEvent(f) ==
  /\ batch[f] = "HUP"
  /\ TakeEvent(f)
  /\ CloseConnection(conn, f)
  /\ UNCHANGED <<timerUp, sigUp, queueVars, pc, ret, cur, snapshot, running,
                 received>>

\* The events on number f that are passed over: no connection has the number, or
\* the one that has it is being processed and there is more to read.
PassedOver(f) == CASE store[f] = None -> {"IN", "OUT"}
                   [] store[f] # None /\ conn[store[f]].processing -> {"IN"}
                   [] OTHER -> {}

IgnoreEvent(f) ==
  /\ batch[f] \in PassedOver(f)
  /\ TakeEvent(f)
  /\ UNCHANGED <<kernelVars, store, conn, queueVars, pc, ret, cur, snapshot,
                 running, received>>

\* EPOLLOUT: flush by number.
WritableEvent(f) ==
  /\ batch[f] = "OUT"
  /\ store[f] # None
  /\ TakeEvent(f)
  /\ FlushConnection(f, "events")
  /\ UNCHANGED <<kernelVars, store, conn, queueVars, snapshot, running, received>>

------------------------------------------------------------------------------
(* Server::DispatchConnection.                                               *)

\* Mutant: one unit less is taken for a full buffer.
ReadsLess(f, read) ==
  {n \in IF owner[f] \in Conns THEN {sock[owner[f]].rx} ELSE 0..BufferSize :
     /\ owner[f] \in Conns => sock[owner[f]].peer = "up"
     /\ owner[f] # None
     /\ read + n < BufferSize - 1}

\* How many units ReadFromConnection gets until EAGAIN, with success: the peer has
\* not closed and the buffer does not fill up.  A database socket may have anything.
Reads(f, read) ==
  {n \in IF owner[f] \in Conns THEN {sock[owner[f]].rx} ELSE 0..BufferSize :
     /\ owner[f] \in Conns => sock[owner[f]].peer = "up"
     /\ owner[f] # None
     /\ read + n < BufferSize}

\* Mutant: _registered_in_epoll stays true.
TakenRegistered(c, n) ==
  [conn EXCEPT ![c].processing = TRUE, ![c].read = @ + n]

\* Connection c marked as processing, out of epoll, n units read into its buffer.
Taken(c, n) ==
  [conn EXCEPT ![c].processing = TRUE, ![c].registered = FALSE, ![c].read = @ + n]

\* Mark the connection, take it out of epoll, read all there is.
DispatchRead(f) ==
  LET c == store[f] IN
  /\ batch[f] = "IN"
  /\ TakeEvent(f)
  /\ c # None
  /\ ~conn[c].processing
  /\ \E n \in Reads(f, conn[c].read) : conn' = Taken(c, n)
  /\ sock' = IF owner[f] \in Conns THEN [sock EXCEPT ![owner[f]].rx = 0] ELSE sock
  /\ EpollDel(f)
  /\ cur' = c
  /\ pc' = "parse"
  /\ UNCHANGED <<owner, timerUp, sigUp, store, queueVars, ret, snapshot, running,
                 received>>

\* End of file, an error or a full buffer: the connection is closed, whatever
\* request it had sent.
DispatchReadFails(f) ==
  LET c == store[f] IN
  /\ batch[f] = "IN"
  /\ TakeEvent(f)
  /\ c # None
  /\ ~conn[c].processing
  /\ owner[f] \in Conns => Reads(f, conn[c].read) = {}
  /\ CloseConnection(conn, f)
  /\ UNCHANGED <<timerUp, sigUp, queueVars, pc, ret, cur, snapshot, running,
                 received>>

\* Mutant: MarkConnectionProcessing(connection, false) is forgotten.
StillProcessing(c) == conn

\* MarkConnectionProcessing(connection, false).
Unmarked(c) == [conn EXCEPT ![c].processing = FALSE]

\* NO_REQUEST: RearmConnection.
ParseIncomplete ==
  /\ pc = "parse"
  /\ conn[cur].read < ReqLen
  /\ UpdateConnectionEvents(Unmarked(cur), cur, "IN", "events")
  /\ UNCHANGED <<timerUp, sigUp, queueVars, snapshot, batch, running, received>>

\* BAD_REQUEST, which the parser may find at any point: answer at once.
ParseBad ==
  /\ pc = "parse"
  /\ QueueResponse(cur, "events")
  /\ UNCHANGED <<kernelVars, store, queueVars, snapshot, batch, running, received>>

\* GET_REQUEST: hand the request over.  Push refuses only a closed queue, and
\* _logic_requests is closed by ~LogicProcessor, after Run has returned: the
\* branch that answers 503 is dead and has no action here.
ParseComplete ==
  /\ pc = "parse"
  /\ conn[cur].read >= ReqLen
  /\ requests' = Append(requests, cur)
  /\ GoOn("events")
  /\ UNCHANGED <<kernelVars, store, conn, results, worker, snapshot, batch,
                 running, received>>

------------------------------------------------------------------------------
(* Server::AcceptConnections.                                                *)

\* accept() gives the new socket the lowest free number; ConnectionStore::Add
\* makes a fresh Connection and replaces whatever the table had there.
AcceptOne ==
  /\ pc = "accept"
  /\ \E c \in Backlog, f \in Fds :
       /\ LowestFree(f)
       /\ sock' = [sock EXCEPT ![c].state = "open"]
       /\ owner' = [owner EXCEPT ![f] = c]
       /\ store' = [store EXCEPT ![f] = c]
       /\ conn' = [conn EXCEPT ![c] = NewConnection(f)]
       /\ cur' = c
  /\ pc' = "arm"
  /\ ret' = "accept"
  /\ UNCHANGED <<interest, rdy, timerUp, sigUp, queueVars, snapshot, batch,
                 running, received>>

\* EAGAIN, EMFILE when no number is free, or another error: the loop ends for the time.
AcceptDone ==
  /\ pc = "accept"
  /\ pc' = "events"
  /\ UNCHANGED <<kernelVars, store, conn, queueVars, ret, cur, snapshot, batch,
                 running, received>>

------------------------------------------------------------------------------
(* Server::HandleTimerEvent, one connection of the snapshot at a time.       *)

TimerDone ==
  /\ pc = "timer"
  /\ snapshot = {}
  /\ pc' = "events"
  /\ UNCHANGED <<kernelVars, store, conn, queueVars, ret, cur, snapshot, batch,
                 running, received>>

\* Mutant: one retry more.
BudgetSpentLate(c) == conn[c].retries > MaxWriteRetry

BudgetSpent(c) == conn[c].retries >= MaxWriteRetry

\* Nothing to write, or its retry is not due yet.
TimerSkip(c) ==
  /\ pc = "timer"
  /\ c \in snapshot
  /\ conn[c].left = 0 \/ ~conn[c].due
  /\ snapshot' = snapshot \ {c}
  /\ UNCHANGED <<kernelVars, store, conn, queueVars, pc, ret, cur, batch, running,
                 received>>

TimerGiveUp(c) ==
  /\ pc = "timer"
  /\ c \in snapshot
  /\ conn[c].left > 0 /\ conn[c].due
  /\ BudgetSpent(c)
  /\ snapshot' = snapshot \ {c}
  /\ CloseConnection(conn, conn[c].fd)
  /\ UNCHANGED <<timerUp, sigUp, queueVars, pc, ret, cur, batch, running, received>>

\* Mutant: the retry is not counted.
RetriedUncounted(c) == [conn EXCEPT ![c].due = FALSE]

Retried(c) == [conn EXCEPT ![c].retries = @ + 1, ![c].due = FALSE]

TimerRetry(c) ==
  /\ pc = "timer"
  /\ c \in snapshot
  /\ conn[c].left > 0 /\ conn[c].due
  /\ ~BudgetSpent(c)
  /\ snapshot' = snapshot \ {c}
  /\ conn' = Retried(c)
  /\ FlushConnection(conn[c].fd, "timer")
  /\ UNCHANGED <<kernelVars, store, queueVars, batch, running, received>>

------------------------------------------------------------------------------
(* Server::TryFlushPendingResponse on connection cur.                        *)

\* The bytes go to whatever socket the number stands for now.
Target == owner[conn[cur].fd]

\* send() takes what fits, a database's socket all; every progress resets the
\* retry budget.  With the last byte the connection is closed.
FlushSend ==
  /\ pc = "flush"
  /\ conn[cur].left > 0
  /\ Target # None
  /\ Target \in Conns => sock[Target].peer # "rst" /\ sock[Target].room > 0
  /\ received' = [received EXCEPT ![Target] = @ \cup {cur}]
  /\ IF Target \in Conns => conn[cur].left <= sock[Target].room
     THEN /\ CloseConnection([conn EXCEPT ![cur].left = 0, ![cur].retries = 0,
                                          ![cur].due = FALSE], conn[cur].fd)
          /\ GoOn(ret)
     ELSE /\ conn' = [conn EXCEPT ![cur].left = @ - sock[Target].room,
                                  ![cur].retries = 0, ![cur].due = FALSE]
          /\ sock' = [sock EXCEPT ![Target].room = 0]
          /\ UNCHANGED <<owner, interest, rdy, store, pc, ret, cur>>
  /\ UNCHANGED <<timerUp, sigUp, queueVars, snapshot, batch, running>>

\* EAGAIN: wait for EPOLLOUT.
FlushBlocked ==
  /\ pc = "flush"
  /\ conn[cur].left > 0
  /\ Target \in Conns
  /\ sock[Target].peer # "rst"
  /\ sock[Target].room = 0
  /\ pc' = "arm"
  /\ UNCHANGED <<kernelVars, store, conn, queueVars, ret, cur, snapshot, batch,
                 running, received>>

\* A reset peer, a closed number, or a database that has gone: false is returned
\* and the caller closes the connection.
FlushFails ==
  /\ pc = "flush"
  /\ conn[cur].left > 0
  /\ Target \in Conns => sock[Target].peer = "rst"
  /\ CloseConnection(conn, conn[cur].fd)
  /\ GoOn(ret)
  /\ UNCHANGED <<timerUp, sigUp, queueVars, snapshot, batch, running, received>>

\* Nothing pending: UpdateConnectionEvents is called with connection->_mutex
\* held and locks it again.  Mutexlock is a default (not recursive) pthread
\* mutex: the main thread waits for itself, for ever.
FlushNothing ==
  /\ pc = "flush"
  /\ conn[cur].left = 0
  /\ pc' = "stuck"
  /\ UNCHANGED <<kernelVars, store, conn, queueVars, ret, cur, snapshot, batch,
                 running, received>>

\* Mutants: the masks of accept and of a blocked flush are mixed up.
ArmWritable == "OUT"
ArmReadable == "IN"

ArmMask == IF ret = "accept" THEN "IN" ELSE "OUT"

\* The UpdateConnectionEvents call that ends a blocked flush (EPOLLOUT) or an
\* accept (EPOLLIN).
ArmConnection ==
  /\ pc = "arm"
  /\ UpdateConnectionEvents(conn, cur, ArmMask, ret)
  /\ UNCHANGED <<timerUp, sigUp, queueVars, snapshot, batch, running, received>>

------------------------------------------------------------------------------
(* The logic threads, as the main thread sees them (LogicProcessor::         *)
(* WorkerLoop around the handler that Server::Init installs).                *)

\* RequestQueue::Pop.
WorkerTake(w) ==
  /\ worker[w].phase = "idle"
  /\ requests # <<>>
  /\ worker' = [worker EXCEPT ![w].phase = "resolve", ![w].conn = Head(requests)]
  /\ requests' = Popped(requests)
  /\ UNCHANGED <<kernelVars, store, conn, results, loopVars, received>>

\* MysqlStore::LoginOrCreate opens its connection under MysqlStore::_mutex: at
\* most one database socket at a time, taken from the same descriptor table.
WorkerOpenDatabase(w) ==
  /\ LoginEnabled
  /\ worker[w].phase = "resolve"
  /\ \A v \in Workers : worker[v].phase # "db"
  /\ \E f \in Fds :
       /\ LowestFree(f)
       /\ owner' = [owner EXCEPT ![f] = w]
       /\ worker' = [worker EXCEPT ![w].phase = "db", ![w].fd = f]
  /\ UNCHANGED <<sock, interest, rdy, timerUp, sigUp, store, conn, requests,
                 results, loopVars, received>>

\* mysql_close closes the number the thread remembers.
WorkerCloseDatabase(w) ==
  /\ worker[w].phase = "db"
  /\ CloseFd(worker[w].fd)
  /\ worker' = [worker EXCEPT ![w].phase = "built", ![w].fd = None]
  /\ UNCHANGED <<timerUp, sigUp, store, conn, requests, results, loopVars,
                 received>>

\* The page is resolved: push the result.
WorkerFinish(w) ==
  /\ worker[w].phase \in {"resolve", "built"}
  /\ results' = Append(results, worker[w].conn)
  /\ worker' = [worker EXCEPT ![w].phase = "idle", ![w].conn = None]
  /\ UNCHANGED <<kernelVars, store, conn, requests, loopVars, received>>

------------------------------------------------------------------------------
(* The clients, the clock and the operator.                                  *)

serverVars == <<store, conn, queueVars, loopVars, received>>

Connect(c) ==
  /\ sock[c].state = "none"
  /\ sock' = [sock EXCEPT ![c].state = "backlog"]
  /\ UNCHANGED <<owner, interest, rdy, timerUp, sigUp, serverVars>>

\* One more unit of a request; BufferSize bounds what a client ever sends.
ClientSend(c) ==
  /\ sock[c].state \in {"backlog", "open"}
  /\ sock[c].peer = "up"
  /\ sock[c].rx + conn[c].read < BufferSize
  /\ sock' = [sock EXCEPT ![c].rx = @ + 1]
  /\ Wakeup(c)
  /\ UNCHANGED <<owner, interest, timerUp, sigUp, serverVars>>

\* The client shuts its side down ("fin") or resets the connection ("rst").
ClientHangup(c) ==
  /\ sock[c].state \in {"backlog", "open"}
  /\ \E p \in {"fin", "rst"} \ {sock[c].peer} :
       /\ sock[c].peer # "rst"
       /\ sock' = [sock EXCEPT ![c].peer = p]
  /\ Wakeup(c)
  /\ UNCHANGED <<owner, interest, timerUp, sigUp, serverVars>>

\* The client reads a unit of its response.
ClientReceive(c) ==
  /\ sock[c].state = "open"
  /\ sock[c].peer # "rst"
  /\ sock[c].room < SndBuf
  /\ sock' = [sock EXCEPT ![c].room = @ + 1]
  /\ Wakeup(c)
  /\ UNCHANGED <<owner, interest, timerUp, sigUp, serverVars>>

\* _next_retry_ms of a connection with something to write has passed.
DeadlinePasses(c) ==
  /\ conn[c].left > 0
  /\ ~conn[c].due
  /\ conn' = [conn EXCEPT ![c].due = TRUE]
  /\ UNCHANGED <<kernelVars, store, queueVars, loopVars, received>>

\* The timerfd fires every WRITE_RETRY_INTERVAL_MS.
TimerExpires ==
  /\ ~timerUp
  /\ timerUp' = TRUE
  /\ UNCHANGED <<sock, owner, interest, rdy, sigUp, serverVars>>

\* SIGINT or SIGTERM.
SignalArrives ==
  /\ running /\ ~sigUp
  /\ sigUp' = TRUE
  /\ UNCHANGED <<sock, owner, interest, rdy, timerUp, serverVars>>

------------------------------------------------------------------------------
MainStep ==
  \/ DrainDone \/ HandleLogicResult \/ EpollWait \/ BatchDone
  \/ HandleSignalEvent \/ HandleTimerEvent \/ ListenEvent
  \/ \E f \in Fds : \/ HangupEvent(f) \/ WritableEvent(f) \/ IgnoreEvent(f)
                    \/ DispatchRead(f) \/ DispatchReadFails(f)
  \/ ParseIncomplete \/ ParseBad \/ ParseComplete
  \/ AcceptOne \/ AcceptDone
  \/ TimerDone
  \/ \E c \in Conns : TimerSkip(c) \/ TimerGiveUp(c) \/ TimerRetry(c)
  \/ FlushSend \/ FlushBlocked \/ FlushFails \/ FlushNothing
  \/ ArmConnection \/ CloseUnarmed

WorkerStep(w) == \/ WorkerTake(w) \/ WorkerOpenDatabase(w)
                 \/ WorkerCloseDatabase(w) \/ WorkerFinish(w)

ClientStep(c) == \/ Connect(c) \/ ClientSend(c) \/ ClientHangup(c)
                 \/ ClientReceive(c)

\* Run has returned: nothing is left to do but exit.
Terminated == pc = "stopped" /\ UNCHANGED vars

Next == \/ MainStep
        \/ \E w \in Workers : WorkerStep(w)
        \/ \E c \in Conns : ClientStep(c) \/ DeadlinePasses(c)
        \/ TimerExpires \/ SignalArrives
        \/ Terminated

Spec == Init /\ [][Next]_vars

\* The threads are scheduled and the clock runs; clients and operators owe
\* nothing.
FairSpec == /\ Spec
            /\ WF_vars(MainStep)
            /\ \A w \in Workers : WF_vars(WorkerStep(w))
            /\ \A c \in Conns : WF_vars(DeadlinePasses(c))
            /\ WF_vars(TimerExpires)

------------------------------------------------------------------------------
(* Safety.                                                                   *)

Elements(q) == {q[i] : i \in DOMAIN q}
NoRepeats(q) == \A i, j \in DOMAIN q : q[i] = q[j] => i = j
Parsing(c) == pc = "parse" /\ cur = c
AtWorker(c) == \E w \in Workers : worker[w].conn = c
AtLogic(c) == c \in Elements(requests) \/ AtWorker(c) \/ c \in Elements(results)
InPipeline(c) == Parsing(c) \/ AtLogic(c)

\* A connection is in one place of the pipeline at most: being parsed, queued,
\* at one logic thread, or in the result queue.  Two would give two responses.
OneRequestInFlight ==
  /\ NoRepeats(requests) /\ NoRepeats(results)
  /\ Elements(requests) \cap Elements(results) = {}
  /\ \A v, w \in Workers : worker[v].conn = worker[w].conn
                             => v = w \/ worker[v].conn = None
  /\ \A w \in Workers : worker[w].conn \notin Elements(requests) \cup Elements(results)
  /\ pc = "parse" => ~AtLogic(cur)

\* While its request is with the logic threads a connection is neither closed
\* nor in epoll, no stale event names its number and no response is pending:
\* the shared_ptr in the queues still stands for the client that asked.
PipelineIsPinned ==
  \A c \in Conns : InPipeline(c) =>
    /\ conn[c].fd \in Fds
    /\ store[conn[c].fd] = c
    /\ conn[c].processing
    /\ conn[c].left = 0
    /\ interest[conn[c].fd] = "none"
    /\ batch[conn[c].fd] = "none"

\* No hangup event waits for a number that has become a database socket meanwhile.
\* Server::CloseConnection would close that socket: the code does not exclude it
\* (LogicKeepsItsDatabase), and what is said about numbers is said up to there.
DatabasesSpared == \A f \in Fds : batch[f] = "HUP" => owner[f] \notin Workers

\* A logic thread's database socket is closed by that thread only.  README.md:20 has
\* the main thread do the I/O of the clients and the logic threads the business, and
\* README.md:91 the database with it.  The two share the descriptor table, and a hangup
\* event left over in a batch makes the main thread close a number that has become a
\* logic thread's (server.cpp:542).
LogicKeepsItsDatabase ==
  \A w \in Workers : worker[w].phase = "db" => owner[worker[w].fd] = w

\* Bytes of a response only ever reach the client that sent the request, and never
\* a database.
ResponseToOwnClient ==
  /\ \A c \in Conns : received[c] \subseteq {c}
  /\ \A w \in Workers : received[w] = {}

\* _registered_in_epoll agrees with the kernel, so that ADD and MOD are chosen
\* right and no connection is closed for a failed epoll_ctl that need not fail.
RegisteredMatchesKernel ==
  \A f \in Fds : store[f] # None => (conn[store[f]].registered <=> interest[f] # "none")

\* Every open client socket is in the connection table: none is leaked.
NoSocketLeak ==
  \A f \in Fds : owner[f] \in Conns => store[f] = owner[f]

\* The main thread is working on c, and will arm or close it.
InHand(c) == pc \in {"parse", "flush", "arm", "unarmed"} /\ cur = c

\* Every stored connection has someone who will carry on with it: the pipeline,
\* the main thread, or epoll, with the mask that fits what is left to do.
NoStrandedConnection ==
  \A f \in Fds : store[f] # None =>
    LET c == store[f] IN
    \/ InPipeline(c) \/ InHand(c)
    \/ interest[f] = IF conn[c].left > 0 THEN "OUT" ELSE "IN"

\* Edge-triggered epoll reports a change once.  Readiness of a registered
\* socket is on the ready list, in the batch, or in the main thread's hands.
NoLostEdge ==
  \A f \in Fds : Poll(f) # "none" =>
    f \in rdy \/ batch[f] # "none" \/ InHand(owner[f])

\* A read event finds a connection, and an idle one, though events of a batch may
\* be stale: it is being out of epoll that keeps a connection from being read in
\* the middle of its request, the tests of DispatchConnection never come to it.
ReadFindsIdle ==
  \A f \in Fds : batch[f] = "IN" => store[f] # None /\ ~conn[store[f]].processing

\* The non-blocking write path never blocks the main thread for ever.  A write event
\* that is stale does: this fails.
MainNeverBlocksOnItself == pc # "stuck"

\* Nothing else does: the connection that the main thread is stuck on is one that epoll
\* watches for input, so the write event it came with was that of the connection which
\* had the number before.  Neither the retries of the timer nor a result end there.
OnlyStaleWritesBlock ==
  pc = "stuck" => ret = "events" /\ cur # None /\ interest[conn[cur].fd] = "IN"

\* A client that is still there and that epoll watches is dropped only when its
\* response is complete, its retry budget is spent, its request does not fit the
\* buffer, or a hangup event for its number is in the batch.  That one is stale, another
\* connection's that had the number before: Run takes it for the client's own
\* (server.cpp:110).  No other stale event drops a client.
ClientKeptWhileAlive ==
  [][\A c \in Conns :
       /\ sock[c].state = "open" /\ sock[c].peer = "up" /\ conn[c].registered
       /\ sock'[c].state = "closed"
       => \/ conn[c].left > 0 /\ conn'[c].left = 0
          \/ conn[c].left > 0 /\ conn[c].due /\ conn[c].retries = MaxWriteRetry
          \/ conn[c].read + sock[c].rx >= BufferSize
          \/ batch[conn[c].fd] = "HUP"]_vars

------------------------------------------------------------------------------
(* Liveness, while the server runs.                                          *)

\* What a client has sent is read, or its connection is closed.
InputIsRead ==
  \A c \in Conns : sock[c].state = "open" /\ sock[c].rx > 0 /\ running
                     ~> sock[c].rx = 0 \/ ~running

------------------------------------------------------------------------------
(* The life of one connection.                                               *)

LifeStage(c) ==
  CASE sock[c].state = "none"    -> "unborn"
    [] sock[c].state = "backlog" -> "waiting"
    [] sock[c].state = "closed"  -> "closed"
    [] sock[c].state = "open" /\ Parsing(c) -> "reading"
    [] sock[c].state = "open" /\ AtLogic(c) -> "logic"
    [] sock[c].state = "open" /\ ~InPipeline(c) /\ conn[c].left > 0 -> "replying"
    [] sock[c].state = "open" /\ ~InPipeline(c) /\ conn[c].left = 0 -> "idle"

\* Why connection c may be closed without an answer: its client has left or said too
\* much, epoll_ctl has failed, or a hangup event for its number is in the batch.
MayDrop(c) == \/ sock[c].peer # "up"
              \/ conn[c].read + sock[c].rx >= BufferSize
              \/ pc = "unarmed" /\ cur = c
              \/ conn[c].fd # None /\ batch[conn[c].fd] = "HUP"

Life == INSTANCE ConnectionLife
          WITH life <- [c \in Conns |-> LifeStage(c)], up <- running,
               excuse <- [c \in Conns |-> MayDrop(c)]

\* Each connection goes through accept, read, logic, reply and close in that
\* order, is answered once, is not closed while its request is with the logic
\* threads nor, without an excuse, while it waits for more of one, and while the
\* server runs gets its answer and is let go.
ConnectionLifecycle == Life!Spec
==============================================================================
