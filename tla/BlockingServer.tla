---------------------------- MODULE BlockingServer ----------------------------
(* The earlier servers, http::Httpserver of v2 and v1.  Each connection is     *)
(* served by one thread with blocking calls, from its first recv to its close: *)
(* in v2 by a thread of the pool, to which the main thread hands the           *)
(* descriptor, in v1 by the main thread itself.  What do_request calls is the  *)
(* same code in both.                                                          *)
(*                                                                             *)
(* What a client says is a sequence of lines: a request line the parser takes, *)
(* "garbage" that is none, a "header", the "empty" line, and a "broken" one,   *)
(* which has a CR without an LF.  Input arrives in whole lines (HttpParse cuts *)
(* it anywhere, and parse_line is the same there); a response is a message or  *)
(* two, a send buffer takes one of them or more.                               *)
EXTENDS Integers, Sequences, FiniteSets

CONSTANTS
  Clients,     \* each connects at most once
  Workers,     \* the threads of v2's pool
  Main,        \* the main thread
  Fds,         \* descriptor numbers left when the server listens
  TaskNum,     \* limit of the pool's task queue
  BufferSize,  \* BUFFERSIZE, in lines
  Streams,     \* what the clients may say: sequences of lines, one for each
  None

Threads == Workers \cup {Main}
Lines == {"request", "garbage", "header", "empty", "broken"}
Messages == {"413", "404", "500", "header", "body"}

ASSUME BlockingNames ==
  /\ Main \notin Workers
  /\ Clients \cap Threads = {}
  /\ None \notin Clients \cup Threads \cup Fds
  /\ None \notin Messages
ASSUME BlockingSizes ==
  /\ Fds \subseteq Nat /\ IsFiniteSet(Fds)
  /\ TaskNum \in Nat \ {0} /\ BufferSize \in Nat \ {0}
  /\ Streams \subseteq [Clients -> Seq(Lines)]

VARIABLES
  version,  \* 1 or 2
  alive,    \* the process has not been ended
  sock,     \* the clients' sockets: state, lines that have arrived, what the peer
            \* did, whether the send buffer has room
  stream,   \* what each client is going to say
  owner,    \* descriptor table: a client, a thread whose file it is, or None
  hand,     \* the number that v2's main thread has got from accept
  tasks,    \* the numbers of the queued RequestTasks
  thr       \* the threads, and do_request's local variables

kernelVars == <<version, stream>>
vars == <<kernelVars, alive, sock, owner, hand, tasks, thr>>

SocketType == [state : {"none", "backlog", "open", "closed"}, sent : Nat,
               peer : {"up", "fin", "reset"}, room : BOOLEAN]
ThreadType == [pc : {"idle", "recv", "parse", "page", "open", "map", "send", "close"},
               fd : Fds \cup {None}, read : Nat, check : Nat,
               state : {"REQUESTLINE", "HEADER", "BODY"},
               out : Messages \cup {None}, file : Fds \cup {None}]

\* Every variable stays in its domain.
TypeOK ==
  /\ version \in {1, 2} /\ alive \in BOOLEAN
  /\ sock \in [Clients -> SocketType]
  /\ stream \in Streams
  /\ owner \in [Fds -> Clients \cup Threads \cup {None}]
  /\ hand \in Fds \cup {None}
  /\ tasks \in Seq(Fds) /\ Len(tasks) <= TaskNum
  /\ thr \in [Threads -> ThreadType]

Idle == [pc |-> "idle", fd |-> None, read |-> 0, check |-> 0,
         state |-> "REQUESTLINE", out |-> None, file |-> None]

Fresh(state) == [state |-> state, sent |-> 0, peer |-> "up", room |-> TRUE]

Init ==
  /\ version \in {1, 2}
  /\ alive = TRUE
  /\ sock = [c \in Clients |-> Fresh("none")]
  /\ stream \in Streams
  /\ owner = [f \in Fds |-> None]
  /\ hand = None
  /\ tasks = <<>>
  /\ thr = [t \in Threads |-> Idle]

\* The number the kernel gives next.
LowestFree(f) == owner[f] = None /\ \A g \in Fds : owner[g] = None => f <= g

\* close of a number, whoever it stands for.  What a client did before does not
\* matter any more.
Close(f) ==
  /\ owner' = [owner EXCEPT ![f] = None]
  /\ sock' = IF owner[f] \in Clients THEN [sock EXCEPT ![owner[f]] = Fresh("closed")]
             ELSE sock

------------------------------------------------------------------------------
(* The clients.                                                                *)

ClientDoes(c, s) ==
  /\ alive
  /\ sock' = [sock EXCEPT ![c] = s]
  /\ UNCHANGED <<kernelVars, alive, owner, hand, tasks, thr>>

Here(c) == sock[c].state \in {"backlog", "open"}

Connect(c) == /\ sock[c].state = "none"
              /\ ClientDoes(c, [sock[c] EXCEPT !.state = "backlog"])

Say(c) == /\ Here(c) /\ sock[c].peer = "up" /\ sock[c].sent < Len(stream[c])
          /\ ClientDoes(c, [sock[c] EXCEPT !.sent = @ + 1])

\* The client will say no more, but still reads.
Finish(c) == /\ Here(c) /\ sock[c].peer = "up"
             /\ ClientDoes(c, [sock[c] EXCEPT !.peer = "fin"])

\* One that has closed its socket finishes, and its kernel resets what is sent to it.
Reset(c) == /\ Here(c) /\ sock[c].peer # "reset"
            /\ ClientDoes(c, [sock[c] EXCEPT !.peer = "reset"])

Reads(c) == /\ Here(c) /\ sock[c].peer # "reset" /\ ~sock[c].room
            /\ ClientDoes(c, [sock[c] EXCEPT !.room = TRUE])

------------------------------------------------------------------------------
(* Run, and the pool between it and thread_entry.  The queue of tasks is one   *)
(* step to each side, as Threadpool shows it to be.                            *)

Begin(t, f) == thr' = [thr EXCEPT ![t] = [Idle EXCEPT !.pc = "recv", !.fd = f]]

\* accept.  (When it fails Run tries again.)
Accepted(c, f) ==
  /\ alive
  /\ sock[c].state = "backlog"
  /\ LowestFree(f)
  /\ sock' = [sock EXCEPT ![c].state = "open"]
  /\ owner' = [owner EXCEPT ![f] = c]

\* v1: do_request is called at once.
AcceptAndServe(c, f) ==
  /\ version = 1
  /\ thr[Main].pc = "idle"
  /\ Accepted(c, f)
  /\ Begin(Main, f)
  /\ UNCHANGED <<kernelVars, alive, hand, tasks>>

Accept(c, f) ==
  /\ version = 2
  /\ hand = None
  /\ Accepted(c, f)
  /\ hand' = f
  /\ UNCHANGED <<kernelVars, alive, tasks, thr>>

\* Mutant: the main thread closes its number after the hand-over, as v1's did.
CloseAfter(f) == Close(f)

\* The number is the task's now.
HandOver(f) == UNCHANGED <<owner, sock>>

PushTask ==
  /\ alive
  /\ hand # None
  /\ Len(tasks) < TaskNum
  /\ tasks' = Append(tasks, hand)
  /\ HandOver(hand)
  /\ hand' = None
  /\ UNCHANGED <<kernelVars, alive, thr>>

\* PushTask returned false.
Reject ==
  /\ alive
  /\ hand # None
  /\ Len(tasks) >= TaskNum
  /\ Close(hand)
  /\ hand' = None
  /\ UNCHANGED <<kernelVars, alive, tasks, thr>>

\* TakeTask in a thread of the pool, which calls thread_entry.
Take(t) ==
  /\ alive
  /\ t \in Workers
  /\ thr[t].pc = "idle"
  /\ tasks # <<>>
  /\ Begin(t, Head(tasks))
  /\ tasks' = Tail(tasks)
  /\ UNCHANGED <<kernelVars, alive, sock, owner, hand>>

------------------------------------------------------------------------------
(* The parser: httpprase.cpp.  It works on the lines of the buffer up to read, *)
(* and has passed the first check of them.                                     *)

Parsed(check, state, code) == [check |-> check, state |-> state, code |-> code]

\* parse_headers, line after line up to the empty one.  (The body is not looked
\* at: after the empty line the request is complete.)
ParseHeaders(lines, check, read) ==
  LET stops == {i \in (check + 1)..read : lines[i] \in {"empty", "broken"}}
      stop == CHOOSE i \in stops : \A j \in stops : i <= j
  IN CASE stops = {} -> Parsed(read, "HEADER", "NO_REQUEST")
       [] stops # {} /\ lines[stop] = "empty" -> Parsed(stop, "BODY", "GET_REQUEST")
       [] OTHER -> Parsed(stop - 1, "HEADER", "BAD_REQUEST")

\* parse_requestline.  A line it refuses has been passed all the same, a broken one
\* has not.
ParseRequestLine(lines, check, read) ==
  LET line == lines[check + 1] IN
  CASE check >= read -> Parsed(check, "REQUESTLINE", "NO_REQUEST")
    [] check < read /\ line = "request" -> ParseHeaders(lines, check + 1, read)
    [] check < read /\ line = "broken" -> Parsed(check, "REQUESTLINE", "BAD_REQUEST")
    [] OTHER -> Parsed(check + 1, "REQUESTLINE", "BAD_REQUEST")

\* Mutant: each recv begins with a new parser.
ParseAfresh(lines, p) == ParseRequestLine(lines, p.check, p.read)

\* parse_content, from where p, the variables of do_request, left it.
ParseContent(lines, p) ==
  IF p.state = "REQUESTLINE" THEN ParseRequestLine(lines, p.check, p.read)
  ELSE ParseHeaders(lines, p.check, p.read)

------------------------------------------------------------------------------
(* do_request, in thread t.                                                    *)

At(t, pc) == alive /\ thr[t].pc = pc
Client(t) == owner[thr[t].fd]

\* Only the thread's own variables change.
Locally(t, local) ==
  /\ thr' = [thr EXCEPT ![t] = local]
  /\ UNCHANGED <<kernelVars, alive, sock, owner, hand, tasks>>

\* recv: what has arrived, as far as the buffer goes.
Receive(t) ==
  /\ At(t, "recv")
  /\ Client(t) \in Clients
  /\ sock[Client(t)].sent > thr[t].read
  /\ Locally(t, [thr[t] EXCEPT !.pc = "parse",
                   !.read = IF sock[Client(t)].sent < BufferSize
                            THEN sock[Client(t)].sent ELSE BufferSize])

\* The process ends, whatever its other threads are at.
Exit == alive' = FALSE /\ UNCHANGED <<kernelVars, sock, owner, hand, tasks, thr>>

\* Mutant: the client's end is no reason to stop.
TryAgain(t) == Locally(t, thr[t])

\* Mutant: it is taken for an error.
ExitAtEnd(t) == Exit

Return(t) == Locally(t, [thr[t] EXCEPT !.pc = "close"])

\* The break behind recv.
StopReading(t) == Return(t)

\* recv returns 0.
ReceiveEnd(t) ==
  /\ At(t, "recv")
  /\ Client(t) \in Clients
  /\ sock[Client(t)].peer = "fin"
  /\ sock[Client(t)].sent = thr[t].read
  /\ StopReading(t)

\* recv fails: exit(0).
ReceiveFails(t) ==
  /\ At(t, "recv")
  /\ Client(t) \in Clients => sock[Client(t)].peer = "reset"
  /\ Exit

Reply(t, message) == Locally(t, [thr[t] EXCEPT !.pc = "send", !.out = message])

TooLarge(t) ==
  /\ At(t, "parse")
  /\ thr[t].read >= BufferSize
  /\ Reply(t, "413")

\* Mutant: what is not a whole request yet is given up.
HangUpEarly(code) == IF code = "GET_REQUEST" THEN "page" ELSE "close"

\* With a whole request the page is looked for.  A bad one is printed, and more
\* is read.
AfterParse(code) == IF code = "GET_REQUEST" THEN "page" ELSE "recv"

Parse(t) ==
  /\ At(t, "parse")
  /\ thr[t].read < BufferSize
  /\ LET p == ParseContent(stream[Client(t)], thr[t]) IN
     Locally(t, [thr[t] EXCEPT
                   !.check = p.check, !.state = p.state, !.pc = AfterParse(p.code)])

\* header, getmime and static_file fill in a response; whatever file that is, and
\* whether there is one, send finds out again.
FindPage(t) ==
  /\ At(t, "page")
  /\ Locally(t, [thr[t] EXCEPT !.pc = "open"])

\* send: stat or open fails, the latter perhaps for want of a number.
OpenFails(t) ==
  /\ At(t, "open")
  /\ \E message \in {"404", "500"} : Reply(t, message)

Open(t, f) ==
  /\ At(t, "open")
  /\ LowestFree(f)
  /\ owner' = [owner EXCEPT ![f] = t]
  /\ thr' = [thr EXCEPT ![t] = [@ EXCEPT !.pc = "send", !.out = "header", !.file = f]]
  /\ UNCHANGED <<kernelVars, alive, sock, hand, tasks>>

\* mmap fails for a directory and for an empty file, after their header has gone.
Map(t) ==
  /\ At(t, "map")
  /\ \E message \in {"body", "500"} : Reply(t, message)

\* Mutant: no break behind the answer.
GoOn(message) == IF message = "header" THEN "map" ELSE "recv"

AfterSend(message) == IF message = "header" THEN "map" ELSE "close"

\* send_all waits for room, which matters as long as there is more to send.  After a
\* reset send fails, or raises a SIGPIPE, which nobody catches.
Send(t) ==
  LET c == Client(t) IN
  /\ At(t, "send")
  /\ c \in Clients /\ sock[c].peer # "reset"
  /\ sock[c].room
  /\ \E room \in BOOLEAN :
       /\ thr[t].out # "header" => room
       /\ sock' = [sock EXCEPT ![c].room = room]
  /\ thr' = [thr EXCEPT ![t].pc = AfterSend(thr[t].out)]
  /\ UNCHANGED <<kernelVars, alive, owner, hand, tasks>>

SendFails(t) ==
  /\ At(t, "send")
  /\ Client(t) \in Clients => sock[Client(t)].peer = "reset"
  /\ Return(t) \/ Exit

\* Mutant: send forgets its file on the way out.
ForgetFile(t) ==
  /\ At(t, "close") /\ thr[t].file # None
  /\ Locally(t, [thr[t] EXCEPT !.file = None])

\* send closes its file on each way out.
CloseFile(t) ==
  /\ At(t, "close") /\ thr[t].file # None
  /\ Close(thr[t].file)
  /\ thr' = [thr EXCEPT ![t].file = None]
  /\ UNCHANGED <<kernelVars, alive, hand, tasks>>

\* do_request has returned to thread_entry or, in v1, to Run.
CloseClient(t) ==
  /\ At(t, "close") /\ thr[t].file = None
  /\ Close(thr[t].fd)
  /\ thr' = [thr EXCEPT ![t] = Idle]
  /\ UNCHANGED <<kernelVars, alive, hand, tasks>>

------------------------------------------------------------------------------
ClientStep(c) == Connect(c) \/ Say(c) \/ Finish(c) \/ Reset(c) \/ Reads(c)

RunStep == \/ \E c \in Clients, f \in Fds : AcceptAndServe(c, f) \/ Accept(c, f)
           \/ PushTask \/ Reject

ThreadStep(t) == \/ Take(t) \/ Receive(t) \/ ReceiveEnd(t) \/ ReceiveFails(t)
                 \/ TooLarge(t) \/ Parse(t) \/ FindPage(t)
                 \/ OpenFails(t) \/ \E f \in Fds : Open(t, f)
                 \/ Map(t) \/ Send(t) \/ SendFails(t)
                 \/ CloseFile(t) \/ CloseClient(t)

\* Nobody is left to come, or the process has ended.
Terminated == /\ alive => \A c \in Clients : sock[c].state = "closed"
              /\ UNCHANGED vars

Next == \/ RunStep
        \/ \E t \in Threads : ThreadStep(t)
        \/ \E c \in Clients : ClientStep(c)
        \/ Terminated

Spec == Init /\ [][Next]_vars

\* The threads are scheduled; clients owe nothing.
FairSpec == /\ Spec
            /\ WF_vars(RunStep)
            /\ \A t \in Threads : WF_vars(ThreadStep(t))

------------------------------------------------------------------------------
Serving(t) == thr[t].fd # None

\* A number that is in hand is open and a client's.
HandsHoldClients ==
  /\ hand # None => owner[hand] \in Clients
  /\ \A i \in DOMAIN tasks : owner[tasks[i]] \in Clients
  /\ \A t \in Threads : Serving(t) => Client(t) \in Clients

\* No two have the same.
HandsDiffer ==
  /\ \A i \in DOMAIN tasks : tasks[i] # hand
  /\ \A i, j \in DOMAIN tasks : tasks[i] = tasks[j] => i = j
  /\ \A t \in Threads : Serving(t) =>
       /\ thr[t].fd # hand
       /\ \A i \in DOMAIN tasks : thr[t].fd # tasks[i]
       /\ \A u \in Threads : thr[t].fd = thr[u].fd => t = u

\* None is forgotten.
ClientsInHand ==
  \A f \in Fds : owner[f] \in Clients =>
    \/ hand = f
    \/ \E i \in DOMAIN tasks : tasks[i] = f
    \/ \E t \in Threads : thr[t].fd = f

\* Each open client socket is in one hand, that of the main thread, of a task or
\* of a thread that serves it, although numbers are given out again as soon as they
\* are closed.
InOneHand == HandsHoldClients /\ HandsDiffer /\ ClientsInHand

\* A file's number belongs to the thread that has opened it, until that has closed
\* it: none is left open.
FilesAreClosed == \A f \in Fds, t \in Threads : owner[f] = t <=> thr[t].file = f

\* Of the lines up to read those from the one at first on are a request: a request
\* line, and the empty line behind it with none broken between them.
IsRequest(lines, first, read) ==
  /\ lines[first] = "request"
  /\ \E i \in first..read : /\ lines[i] = "empty"
                           /\ \A j \in first..i : lines[j] # "broken"

\* The parser has refused a line, after which parse_content returns: a broken one, which
\* it does not pass, or one that is no request line, which it does.
StoppedAtRefused(lines, p) ==
  \/ lines[p.check + 1] = "broken"
  \/ p.state = "REQUESTLINE" /\ p.check > 0 /\ lines[p.check] # "request"

\* However input was cut: when a thread waits for more with a whole request in its
\* buffer, the parser has not come to that request yet, for it stopped at a line before
\* it that it refused: after such a line do_request goes back to recv, and does not look at
\* what came with it.  And nothing is served that has no request line with an empty line
\* after it.
ServedWhenWhole ==
  \A t \in Threads :
    LET lines == stream[Client(t)]
        read == thr[t].read IN
    /\ Serving(t) /\ thr[t].pc = "recv" =>
         \A i \in 1..read : IsRequest(lines, i, read) =>
           thr[t].check < i /\ StoppedAtRefused(lines, thr[t])
    /\ Serving(t) /\ thr[t].pc = "page" => \E i \in 1..read : IsRequest(lines, i, read)

\* Only a client that resets its connection can bring the server down: one that
\* stops, or is too slow, or sends what is no request, cannot.
OnlyResetsKill == ~alive => \E c \in Clients : sock[c].peer = "reset"

\* Clients that come to an end of what they say, and read what they are sent.
ClientsGoOn == \A c \in Clients : WF_vars(Finish(c)) /\ WF_vars(Reads(c))

\* With such clients each connection that was accepted is closed in the end, though
\* threads are taken by others, and requests never get complete.
EndsWithItsClient ==
  ClientsGoOn => \A c \in Clients :
    sock[c].state = "open" ~> sock[c].state = "closed" \/ ~alive

------------------------------------------------------------------------------
\* Where the life of a connection is.
LifeStage(c) ==
  IF sock[c].state = "none" THEN "unborn"
  ELSE IF sock[c].state = "backlog" THEN "waiting"
  ELSE IF sock[c].state = "closed" THEN "closed"
  ELSE LET served == {t \in Threads : thr[t].fd # None /\ Client(t) = c} IN
       IF served = {} THEN "idle"
       ELSE LET t == CHOOSE t \in served : TRUE IN
            CASE thr[t].pc = "parse" -> "reading"
              [] thr[t].pc \in {"page", "open"} -> "logic"
              [] OTHER -> IF thr[t].out = None THEN "idle" ELSE "replying"

\* Why connection c may be closed without an answer: its client has finished or reset it,
\* or there is no room for it in the pool's queue.
MayDrop(c) == \/ sock[c].peer # "up"
              \/ hand # None /\ owner[hand] = c /\ Len(tasks) >= TaskNum

Life == INSTANCE ConnectionLife
          WITH Conns <- Clients, life <- [c \in Clients |-> LifeStage(c)], up <- alive,
               excuse <- [c \in Clients |-> MayDrop(c)]

\* The connections live as those of the later server do: one answer at most, and what is
\* closed has been answered, or its client has gone, or the pool is full.  One that has
\* sent a part of a request, or what is none, is not closed for it.
LivesLikeConnections == Life!SafeSpec
==============================================================================
