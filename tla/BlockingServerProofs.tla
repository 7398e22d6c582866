------------------------- MODULE BlockingServerProofs -------------------------
(* BlockingServer for any set of clients, threads and descriptor numbers, and *)
(* whatever the clients say: who owns which number.                           *)
EXTENDS BlockingServer, SequenceTheorems, WellFoundedInduction, TLAPS

ParserType == [check : Nat, state : {"REQUESTLINE", "HEADER", "BODY"},
               code : {"NO_REQUEST", "GET_REQUEST", "BAD_REQUEST"}]

Below == {ss \in Nat \X Nat : ss[1] < ss[2]}

\* Each set of numbers that is not empty has a least one.
LEMMA LeastExists ==
  ASSUME NEW S \in SUBSET Nat, S # {}
  PROVE  \E x \in S : \A y \in S : x <= y
<1>1. OpToRel(<, Nat) = Below
  BY SMT DEF OpToRel, Below
<1>2. IsWellFoundedOn(Below, Nat)
  BY <1>1, NatLessThanWellFounded, Zenon
<1>3. \E x \in S : \A y \in S : ~(<<y, x>> \in Below)
  BY <1>2, WFMin
<1>4. PICK x \in S : \A y \in S : ~(<<y, x>> \in Below)
  BY <1>3
<1>5. ASSUME NEW y \in S PROVE x <= y
  <2>1. <<y, x>> \in Nat \X Nat /\ <<y, x>>[1] = y /\ <<y, x>>[2] = x
    OBVIOUS
  <2>2. ~(y < x)
    BY <1>4, <2>1 DEF Below
  <2> QED
    BY <2>2
<1> QED
  BY <1>5

\* parse_headers has passed lines up to the first empty or broken one.
StopsAtFirst(lines, check, read, p) ==
  /\ p \in ParserType
  /\ check <= p.check /\ p.check <= read
  /\ \A j \in (check + 1)..(IF p.state = "BODY" THEN p.check - 1 ELSE p.check) :
       lines[j] \notin {"empty", "broken"}
  /\ \/ p.state = "HEADER" /\ p.code = "NO_REQUEST" /\ p.check = read
     \/ /\ p.state = "HEADER" /\ p.code = "BAD_REQUEST"
        /\ p.check < read /\ lines[p.check + 1] = "broken"
     \/ /\ p.state = "BODY" /\ p.code = "GET_REQUEST"
        /\ check < p.check /\ lines[p.check] = "empty"

LEMMA HeadersParsed ==
  ASSUME NEW lines, NEW check \in Nat, NEW read \in Nat, check <= read
  PROVE  StopsAtFirst(lines, check, read, ParseHeaders(lines, check, read))
<1> DEFINE stops == {i \in (check + 1)..read : lines[i] \in {"empty", "broken"}}
           stop == CHOOSE i \in stops : \A j \in stops : i <= j
           p == ParseHeaders(lines, check, read)
<1>1. stops \in SUBSET Nat
  OBVIOUS
<1>2. ASSUME stops # {} PROVE stop \in stops /\ \A j \in stops : stop <= j
  <2> HIDE DEF stops
  <2>1. \E i \in stops : \A j \in stops : i <= j
    BY <1>1, <1>2, LeastExists
  <2> QED
    BY <2>1
<1> SUFFICES StopsAtFirst(lines, check, read, p)
  OBVIOUS
<1> HIDE DEF stop, p
<1>3. CASE stops = {}
  <2>1. p = Parsed(read, "HEADER", "NO_REQUEST")
    BY <1>3 DEF ParseHeaders, stop, p
  <2>2. \A j \in (check + 1)..read : lines[j] \notin {"empty", "broken"}
    BY <1>3
  <2> QED
    BY <2>1, <2>2 DEF Parsed, ParserType, StopsAtFirst
<1>4. CASE stops # {} /\ lines[stop] = "empty"
  <2>1. p = Parsed(stop, "BODY", "GET_REQUEST")
    BY <1>4 DEF ParseHeaders, stop, p
  <2>2. /\ stop \in Nat /\ check < stop /\ stop <= read
        /\ \A j \in (check + 1)..(stop - 1) : lines[j] \notin {"empty", "broken"}
    BY <1>2, <1>4
  <2> QED
    BY <1>4, <2>1, <2>2 DEF Parsed, ParserType, StopsAtFirst
<1>5. CASE stops # {} /\ lines[stop] # "empty"
  <2>1. p = Parsed(stop - 1, "HEADER", "BAD_REQUEST")
    BY <1>5 DEF ParseHeaders, stop, p
  <2>2. /\ stop \in Nat /\ check < stop /\ stop <= read /\ lines[stop] = "broken"
        /\ \A j \in (check + 1)..(stop - 1) : lines[j] \notin {"empty", "broken"}
    BY <1>2, <1>5
  <2> QED
    BY <2>1, <2>2 DEF Parsed, ParserType, StopsAtFirst
<1> QED
  BY <1>3, <1>4, <1>5

\* What parse_content knows of the lines that it has passed: no request has begun, or
\* one has begun at line k, none before it, and it has not come to its end.
ParsedSoFar(lines, check, state) ==
  /\ state = "REQUESTLINE" => \A j \in 1..check : lines[j] # "request"
  /\ state = "HEADER" =>
       \E k \in 1..check : /\ lines[k] = "request"
                           /\ \A j \in 1..(k - 1) : lines[j] # "request"
                           /\ \A j \in k..check : lines[j] \notin {"empty", "broken"}

\* The whole requests in the buffer that are not served begin behind a line the parser
\* has refused and stopped at.
LeftBehind(lines, read, p) ==
  \A i \in 1..read : IsRequest(lines, i, read) => p.check < i /\ StoppedAtRefused(lines, p)

\* parse_headers goes on with a request that has begun.
LEMMA HeadersDecide ==
  ASSUME NEW lines, NEW check \in Nat, NEW read \in Nat, check <= read,
         ParsedSoFar(lines, check, "HEADER"),
         NEW p, p = ParseHeaders(lines, check, read)
  PROVE  /\ p \in ParserType /\ p.check <= read
         /\ p.code = "GET_REQUEST" => \E k \in 1..read : IsRequest(lines, k, read)
         /\ p.code # "GET_REQUEST" => /\ p.state = "HEADER"
                                     /\ ParsedSoFar(lines, p.check, "HEADER")
                                     /\ LeftBehind(lines, read, p)
<1>1. PICK k \in 1..check : /\ lines[k] = "request"
                            /\ \A j \in 1..(k - 1) : lines[j] # "request"
                            /\ \A j \in k..check : lines[j] \notin {"empty", "broken"}
  BY DEF ParsedSoFar
<1>2. StopsAtFirst(lines, check, read, p)
  BY HeadersParsed
<1> USE <1>2 DEF StopsAtFirst
<1>3. p.check \in Nat
  BY DEF ParserType
<1>4. CASE p.state = "BODY"
  <2>1. /\ lines[p.check] = "empty" /\ p.check \in k..read
        /\ \A j \in k..p.check : lines[j] # "broken"
    BY <1>1, <1>2, <1>3, <1>4
  <2>2. k \in 1..read /\ IsRequest(lines, k, read)
    BY <1>1, <2>1 DEF IsRequest
  <2> QED
    BY <1>2, <1>4, <2>2
<1>5. CASE p.state = "HEADER"
  <2>1. \A j \in k..p.check : lines[j] \notin {"empty", "broken"}
    BY <1>1, <1>2, <1>3, <1>5
  <2>2. ParsedSoFar(lines, p.check, "HEADER")
    BY <1>1, <1>2, <1>3, <2>1 DEF ParsedSoFar
  <2>3. ASSUME NEW i \in 1..read, IsRequest(lines, i, read)
        PROVE  p.check < i /\ StoppedAtRefused(lines, p)
    <3>1. k <= i
      BY <1>1, <2>3 DEF IsRequest
    <3>2. PICK e \in i..read : lines[e] = "empty" /\ \A j \in i..e : lines[j] # "broken"
      BY <2>3 DEF IsRequest
    <3>3. p.check < e
      BY <1>3, <2>1, <3>1, <3>2
    <3>4. lines[p.check + 1] = "broken"
      BY <1>2, <1>3, <1>5, <3>2, <3>3
    <3>5. p.check < i
      BY <1>3, <3>2, <3>3, <3>4
    <3> QED
      BY <3>4, <3>5 DEF StoppedAtRefused
  <2> QED
    BY <1>2, <1>5, <2>2, <2>3 DEF LeftBehind
<1> QED
  BY <1>2, <1>4, <1>5

\* So does parse_content, whichever way the buffer was filled.
LEMMA ContentDecides ==
  ASSUME NEW lines, NEW q \in ThreadType, q.check <= q.read, q.state # "BODY",
         ParsedSoFar(lines, q.check, q.state),
         NEW p, p = ParseContent(lines, q)
  PROVE  /\ p \in ParserType /\ p.check <= q.read
         /\ p.code = "GET_REQUEST" => \E k \in 1..q.read : IsRequest(lines, k, q.read)
         /\ p.code # "GET_REQUEST" =>
              /\ p.state # "BODY"
              /\ ParsedSoFar(lines, p.check, p.state)
              /\ LeftBehind(lines, q.read, p)
<1>0. /\ q.check \in Nat /\ q.read \in Nat
      /\ q.state \in {"REQUESTLINE", "HEADER"}
  BY DEF ThreadType
<1>1. CASE q.state = "HEADER"
  BY <1>0, <1>1, HeadersDecide DEF ParseContent
<1>2. CASE q.state = "REQUESTLINE"
  <2> DEFINE line == lines[q.check + 1]
  <2>0. p = ParseRequestLine(lines, q.check, q.read)
    BY <1>2 DEF ParseContent
  <2>1. \A j \in 1..q.check : lines[j] # "request"
    BY <1>2 DEF ParsedSoFar
  <2>2. ASSUME NEW i \in 1..q.read, IsRequest(lines, i, q.read) PROVE q.check < i
    BY <1>0, <2>1, <2>2 DEF IsRequest
  <2>3. CASE q.check >= q.read
    <3>1. p = Parsed(q.check, "REQUESTLINE", "NO_REQUEST") /\ q.check = q.read
      BY <1>0, <2>0, <2>3 DEF ParseRequestLine
    <3>2. LeftBehind(lines, q.read, p)
      BY <1>0, <2>2, <3>1 DEF LeftBehind
    <3> QED
      BY <1>0, <2>1, <3>1, <3>2 DEF Parsed, ParserType, ParsedSoFar
  <2>4. CASE q.check < q.read /\ line = "request"
    <3>1. p = ParseHeaders(lines, q.check + 1, q.read)
      BY <1>0, <2>0, <2>4 DEF ParseRequestLine
    <3>2. ParsedSoFar(lines, q.check + 1, "HEADER")
      BY <1>0, <2>1, <2>4 DEF ParsedSoFar
    <3>3. q.check + 1 \in Nat /\ q.check + 1 <= q.read
      BY <1>0, <2>4
    <3> HIDE DEF line
    <3> QED
      BY <1>0, <3>1, <3>2, <3>3, HeadersDecide
  <2>5. CASE q.check < q.read /\ line = "broken"
    <3>1. p = Parsed(q.check, "REQUESTLINE", "BAD_REQUEST")
      BY <1>0, <2>0, <2>5 DEF ParseRequestLine
    <3>2. p.check = q.check /\ lines[p.check + 1] = "broken"
      BY <2>5, <3>1 DEF Parsed
    <3>3. LeftBehind(lines, q.read, p)
      BY <2>2, <3>2 DEF LeftBehind, StoppedAtRefused
    <3> QED
      BY <1>0, <2>1, <2>5, <3>1, <3>3 DEF Parsed, ParserType, ParsedSoFar
  <2>6. CASE q.check < q.read /\ line \notin {"request", "broken"}
    <3>1. p = Parsed(q.check + 1, "REQUESTLINE", "BAD_REQUEST")
      BY <1>0, <2>0, <2>6 DEF ParseRequestLine
    <3>2. \A j \in 1..(q.check + 1) : lines[j] # "request"
      BY <1>0, <2>1, <2>6
    <3>3. ASSUME NEW i \in 1..q.read, IsRequest(lines, i, q.read) PROVE q.check + 1 < i
      BY <1>0, <3>2, <3>3 DEF IsRequest
    <3>4. StoppedAtRefused(lines, p)
      BY <1>0, <2>6, <3>1 DEF Parsed, StoppedAtRefused
    <3>5. LeftBehind(lines, q.read, p)
      BY <3>1, <3>3, <3>4 DEF Parsed, LeftBehind
    <3> QED
      BY <1>0, <2>6, <3>1, <3>2, <3>5 DEF Parsed, ParserType, ParsedSoFar
  <2> QED
    BY <1>0, <2>3, <2>4, <2>5, <2>6
<1> QED
  BY <1>0, <1>1, <1>2

\* The parser's part of the inductive invariant, for the thread with variables q that
\* serves a client who says lines.
ParserAt(lines, q) ==
  /\ q.check <= q.read
  /\ q.pc = "recv" => q.read < BufferSize /\ LeftBehind(lines, q.read, q)
  /\ q.pc \in {"recv", "parse"} => /\ q.state # "BODY"
                                   /\ ParsedSoFar(lines, q.check, q.state)
  /\ q.pc = "page" => \E k \in 1..q.read : IsRequest(lines, k, q.read)

ParserHolds == \A t \in Threads : Serving(t) => ParserAt(stream[Client(t)], thr[t])

------------------------------------------------------------------------------
(* Types.                                                                      *)

LEMMA FreshType ==
  ASSUME NEW state \in {"none", "closed"}
  PROVE  Fresh(state) \in SocketType
BY DEF Fresh, SocketType

LEMMA IdleType ==
  /\ Idle \in ThreadType
  /\ \A f \in Fds : [Idle EXCEPT !.pc = "recv", !.fd = f] \in ThreadType
BY DEF Idle, ThreadType

\* A thread that changes only its own variables keeps the types if these fit.
LEMMA LocalType ==
  ASSUME TypeOK, NEW t \in Threads, NEW local \in ThreadType, Locally(t, local)
  PROVE  TypeOK'
BY DEF TypeOK, Locally, kernelVars

\* close keeps the types of the table and of the sockets.
LEMMA CloseType ==
  ASSUME TypeOK, NEW f \in Fds, Close(f)
  PROVE  /\ owner' \in [Fds -> Clients \cup Threads \cup {None}]
         /\ sock' \in [Clients -> SocketType]
<1>1. Fresh("closed") \in SocketType
  BY FreshType
<1> QED
  BY <1>1 DEF TypeOK, Close

\* TypeOK is inductive together with this: whoever closes a number has one.
HasNumber == \A t \in Threads : thr[t].pc = "idle" <=> thr[t].fd = None

LEMMA ClientTypes ==
  ASSUME TypeOK, NEW c \in Clients, ClientStep(c)
  PROVE  TypeOK'
<1> USE DEF TypeOK
<1>1. sock[c] \in SocketType
  OBVIOUS
<1>2. \E s \in SocketType : ClientDoes(c, s)
  <2>1. CASE Connect(c)
    BY <1>1, <2>1 DEF Connect, SocketType
  <2>2. CASE Say(c)
    BY <1>1, <2>2 DEF Say, SocketType
  <2>3. CASE Finish(c)
    BY <1>1, <2>3 DEF Finish, SocketType
  <2>4. CASE Reset(c)
    BY <1>1, <2>4 DEF Reset, SocketType
  <2>5. CASE Reads(c)
    BY <1>1, <2>5 DEF Reads, SocketType
  <2> QED
    BY <2>1, <2>2, <2>3, <2>4, <2>5 DEF ClientStep
<1> QED
  BY <1>2 DEF ClientDoes, kernelVars

LEMMA RunTypes ==
  ASSUME TypeOK, RunStep
  PROVE  TypeOK'
<1> USE DEF TypeOK, kernelVars
<1>1. ASSUME NEW c \in Clients, NEW f \in Fds, Accepted(c, f)
      PROVE  /\ owner' \in [Fds -> Clients \cup Threads \cup {None}]
             /\ sock' \in [Clients -> SocketType]
  <2>1. [sock[c] EXCEPT !.state = "open"] \in SocketType
    BY DEF SocketType
  <2> QED
    BY <1>1, <2>1 DEF Accepted
<1>2. ASSUME NEW c \in Clients, NEW f \in Fds, AcceptAndServe(c, f) PROVE TypeOK'
  BY <1>1, <1>2, IdleType DEF AcceptAndServe, Begin, Threads
<1>3. ASSUME NEW c \in Clients, NEW f \in Fds, Accept(c, f) PROVE TypeOK'
  BY <1>1, <1>3 DEF Accept
<1>4. CASE PushTask
  <2>1. hand \in Fds
    BY <1>4 DEF PushTask
  <2>2. tasks' \in Seq(Fds) /\ Len(tasks') = Len(tasks) + 1
    BY <1>4, <2>1, AppendProperties DEF PushTask
  <2>3. Len(tasks') <= TaskNum
    BY <1>4, <2>2, LenProperties, BlockingSizes DEF PushTask
  <2> QED
    BY <1>4, <2>2, <2>3 DEF PushTask, HandOver
<1>5. CASE Reject
  <2>1. hand \in Fds
    BY <1>5 DEF Reject
  <2> QED
    BY <1>5, <2>1, CloseType DEF Reject
<1> QED
  BY <1>2, <1>3, <1>4, <1>5 DEF RunStep

LEMMA ThreadTypes ==
  ASSUME TypeOK, HasNumber, ParserHolds, NEW t \in Threads, ThreadStep(t)
  PROVE  TypeOK'
<1>0. thr[t] \in ThreadType
  BY DEF TypeOK
<1>1. CASE Take(t)
  <2>1. Head(tasks) \in Fds /\ Tail(tasks) \in Seq(Fds) /\ Len(Tail(tasks)) = Len(tasks) - 1
    BY <1>1, HeadTailProperties DEF Take, TypeOK
  <2>2. Len(Tail(tasks)) <= TaskNum
    BY <2>1, LenProperties, BlockingSizes DEF TypeOK
  <2> QED
    BY <1>1, <2>1, <2>2, IdleType DEF Take, Begin, TypeOK, kernelVars
<1>2. CASE Receive(t)
  <2>1. [thr[t] EXCEPT !.pc = "parse",
           !.read = IF sock[Client(t)].sent < BufferSize
                    THEN sock[Client(t)].sent ELSE BufferSize] \in ThreadType
    BY <1>0, <1>2, BlockingSizes DEF Receive, TypeOK, ThreadType, SocketType
  <2> QED
    BY <1>2, <2>1, LocalType DEF Receive
<1>3. CASE ReceiveEnd(t)
  <2>1. [thr[t] EXCEPT !.pc = "close"] \in ThreadType
    BY <1>0 DEF ThreadType
  <2> QED
    BY <1>3, <2>1, LocalType DEF ReceiveEnd, StopReading, Return
<1>4. CASE Exit
  BY <1>4 DEF Exit, TypeOK, kernelVars
<1>5. ASSUME NEW message \in Messages, Reply(t, message) PROVE TypeOK'
  <2>1. [thr[t] EXCEPT !.pc = "send", !.out = message] \in ThreadType
    BY <1>0 DEF ThreadType
  <2> QED
    BY <1>5, <2>1, LocalType DEF Reply
<1>6. CASE Parse(t)
  <2> DEFINE p == ParseContent(stream[Client(t)], thr[t])
             local == [thr[t] EXCEPT !.check = p.check, !.state = p.state,
                         !.pc = AfterParse(p.code)]
  <2>0. Serving(t) /\ thr[t].pc = "parse"
    BY <1>6 DEF Parse, At, HasNumber, Serving
  <2>1. p \in ParserType
    BY <1>0, <2>0, ContentDecides DEF ParserHolds, ParserAt
  <2>2. Locally(t, local)
    BY <1>6 DEF Parse
  <2> HIDE DEF p
  <2>3. local \in ThreadType
    BY <1>0, <2>1 DEF ThreadType, ParserType, AfterParse
  <2> QED
    BY <2>2, <2>3, LocalType
<1>7. CASE FindPage(t)
  <2>1. [thr[t] EXCEPT !.pc = "open"] \in ThreadType
    BY <1>0 DEF ThreadType
  <2> QED
    BY <1>7, <2>1, LocalType DEF FindPage
<1>8. ASSUME NEW f \in Fds, Open(t, f) PROVE TypeOK'
  <2>1. [thr[t] EXCEPT !.pc = "send", !.out = "header", !.file = f] \in ThreadType
    BY <1>0 DEF ThreadType, Messages
  <2> QED
    BY <1>8, <2>1 DEF Open, TypeOK, kernelVars
<1>9. CASE Send(t)
  <2>1. [thr[t] EXCEPT !.pc = AfterSend(thr[t].out)] \in ThreadType
    BY <1>0 DEF ThreadType, AfterSend
  <2>2. \A room \in BOOLEAN, c \in Clients : [sock[c] EXCEPT !.room = room] \in SocketType
    BY DEF TypeOK, SocketType
  <2> QED
    BY <1>9, <2>1, <2>2 DEF Send, TypeOK, kernelVars
<1>10. CASE SendFails(t)
  <2>1. [thr[t] EXCEPT !.pc = "close"] \in ThreadType
    BY <1>0 DEF ThreadType
  <2> QED
    BY <1>4, <1>10, <2>1, LocalType DEF SendFails, Return
<1>11. CASE CloseFile(t)
  <2>1. thr[t].file \in Fds
    BY <1>0, <1>11 DEF CloseFile, ThreadType
  <2>2. [thr[t] EXCEPT !.file = None] \in ThreadType
    BY <1>0 DEF ThreadType
  <2> QED
    BY <1>11, <2>1, <2>2, CloseType DEF CloseFile, TypeOK, kernelVars
<1>12. CASE CloseClient(t)
  <2>1. thr[t].fd \in Fds
    BY <1>0, <1>12 DEF CloseClient, At, HasNumber, ThreadType
  <2> QED
    BY <1>12, <2>1, CloseType, IdleType DEF CloseClient, TypeOK, kernelVars
<1> QED
  BY <1>1, <1>2, <1>3, <1>4, <1>5, <1>6, <1>7, <1>8, <1>9, <1>10, <1>11, <1>12
     DEF ThreadStep, ReceiveFails, TooLarge, OpenFails, Map, Messages

------------------------------------------------------------------------------
(* Who has which number.                                                       *)

\* Files are opened late in do_request.
FilesAreLate ==
  \A t \in Threads : thr[t].file # None => thr[t].pc \in {"map", "send", "close"}

\* The inductive invariant.  A thread that begins with a number must not have had
\* one, and one that opens a file must not have had one.
IInv == TypeOK /\ HasNumber /\ FilesAreLate /\ InOneHand /\ FilesAreClosed

Names == Clients \cap Threads = {} /\ None \notin Clients \cup Threads \cup Fds
LEMMA NamesDiffer == Names
BY BlockingNames DEF Names

\* Steps that give no number away.
SameHands ==
  /\ UNCHANGED <<owner, hand, tasks>>
  /\ \A t \in Threads : thr'[t].fd = thr[t].fd /\ thr'[t].file = thr[t].file

LEMMA SameHandsKeep ==
  ASSUME InOneHand, FilesAreClosed, SameHands
  PROVE  InOneHand' /\ FilesAreClosed'
<1>1. HandsHoldClients'
  BY DEF InOneHand, SameHands, HandsHoldClients, Serving, Client
<1>2. HandsDiffer'
  BY DEF InOneHand, SameHands, HandsDiffer, Serving
<1>3. ClientsInHand'
  BY DEF InOneHand, SameHands, ClientsInHand
<1>4. FilesAreClosed'
  BY DEF FilesAreClosed, SameHands
<1> QED
  BY <1>1, <1>2, <1>3, <1>4 DEF InOneHand

LEMMA LocalKeeps ==
  ASSUME IInv, NEW t \in Threads, NEW local, Locally(t, local),
         local.fd = thr[t].fd, local.file = thr[t].file,
         local.pc # "idle", thr[t].pc # "idle",
         local.file # None => local.pc \in {"map", "send", "close"}
  PROVE  HasNumber' /\ FilesAreLate' /\ InOneHand' /\ FilesAreClosed'
<1>1. /\ thr'[t] = local
      /\ \A u \in Threads \ {t} : thr'[u] = thr[u]
  BY DEF Locally, IInv, TypeOK
<1>2. SameHands
  BY <1>1 DEF SameHands, Locally
<1>3. HasNumber' /\ FilesAreLate'
  BY <1>1 DEF HasNumber, FilesAreLate, IInv
<1> QED
  BY <1>2, <1>3, SameHandsKeep DEF IInv

OwnershipHolds == HasNumber /\ FilesAreLate /\ InOneHand /\ FilesAreClosed

\* The steps of do_request between its first recv and its closes, but for open.
LEMMA RequestSteps ==
  ASSUME IInv, NEW t \in Threads,
         \/ Receive(t) \/ ReceiveEnd(t) \/ ReceiveFails(t) \/ TooLarge(t) \/ Parse(t)
         \/ FindPage(t) \/ OpenFails(t) \/ Map(t) \/ Send(t) \/ SendFails(t)
  PROVE  OwnershipHolds'
<1> USE DEF OwnershipHolds
<1>0. thr[t] \in ThreadType /\ Names
  BY NamesDiffer DEF IInv, TypeOK
<1>1. CASE Receive(t)
  BY <1>0, <1>1, LocalKeeps DEF Receive, At, IInv, FilesAreLate, ThreadType
<1>2. ASSUME Return(t), thr[t].pc \in {"recv", "send"} PROVE OwnershipHolds'
  BY <1>0, <1>2, LocalKeeps DEF Return, ThreadType
<1>3. CASE Exit
  BY <1>3, SameHandsKeep DEF Exit, SameHands, IInv, HasNumber, FilesAreLate
<1>4. ASSUME NEW message, Reply(t, message), thr[t].pc \in {"parse", "open", "map"}
      PROVE  OwnershipHolds'
  BY <1>0, <1>4, LocalKeeps DEF Reply, ThreadType
<1>5. CASE Parse(t)
  <2> DEFINE p == ParseContent(stream[Client(t)], thr[t])
             local == [thr[t] EXCEPT !.check = p.check, !.state = p.state,
                         !.pc = AfterParse(p.code)]
  <2>1. Locally(t, local) /\ thr[t].pc = "parse"
    BY <1>5 DEF Parse, At
  <2>2. thr[t].file = None
    BY <1>0, <2>1 DEF IInv, FilesAreLate
  <2>3. /\ local.fd = thr[t].fd /\ local.file = thr[t].file
        /\ local.pc \in {"page", "recv"}
    BY <1>0 DEF ThreadType, AfterParse
  <2> HIDE DEF local
  <2> QED
    BY <2>1, <2>2, <2>3, LocalKeeps
<1>6. CASE FindPage(t)
  BY <1>0, <1>6, LocalKeeps DEF FindPage, At, IInv, FilesAreLate, ThreadType
<1>7. CASE Send(t)
  <2> DEFINE local == [thr[t] EXCEPT !.pc = AfterSend(thr[t].out)]
  <2>1. /\ local.fd = thr[t].fd /\ local.file = thr[t].file
        /\ local.pc \in {"map", "close"}
    BY <1>0 DEF ThreadType, AfterSend
  <2>2. /\ thr' = [thr EXCEPT ![t] = local] /\ thr[t].pc = "send"
        /\ UNCHANGED <<owner, hand, tasks>>
    BY <1>7 DEF Send, At, IInv, TypeOK
  <2>3. thr'[t] = local /\ \A u \in Threads \ {t} : thr'[u] = thr[u]
    BY <2>2 DEF IInv, TypeOK
  <2> HIDE DEF local
  <2>4. SameHands /\ HasNumber' /\ FilesAreLate'
    BY <2>1, <2>2, <2>3 DEF SameHands, HasNumber, FilesAreLate, IInv
  <2> QED
    BY <2>4, SameHandsKeep DEF IInv
<1> QED
  BY <1>1, <1>2, <1>3, <1>4, <1>5, <1>6, <1>7
     DEF ReceiveEnd, StopReading, ReceiveFails, TooLarge, OpenFails, Map, SendFails, At

\* accept takes a free number: nobody has it.
LEMMA FreeInNoHand ==
  ASSUME IInv, NEW f \in Fds, owner[f] = None
  PROVE  /\ hand # f
         /\ \A i \in DOMAIN tasks : tasks[i] # f
         /\ \A t \in Threads : thr[t].fd # f /\ thr[t].file # f
BY NamesDiffer
   DEF Names, IInv, InOneHand, HandsHoldClients, FilesAreClosed, Serving, Client

LEMMA BeginIs ==
  ASSUME TypeOK, NEW t \in Threads, NEW f \in Fds, Begin(t, f)
  PROVE  /\ thr'[t].pc = "recv" /\ thr'[t].fd = f /\ thr'[t].file = None
         /\ \A u \in Threads \ {t} : thr'[u] = thr[u]
BY DEF TypeOK, Begin, Idle

LEMMA AcceptSteps ==
  ASSUME IInv, NEW c \in Clients, NEW f \in Fds, AcceptAndServe(c, f) \/ Accept(c, f)
  PROVE  OwnershipHolds'
<1>0. owner[f] = None /\ Accepted(c, f) /\ Names
  BY NamesDiffer DEF AcceptAndServe, Accept, Accepted, LowestFree
<1>1. /\ hand # f
      /\ \A i \in DOMAIN tasks : tasks[i] # f
      /\ \A t \in Threads : thr[t].fd # f /\ thr[t].file # f
  BY <1>0, FreeInNoHand
<1>2. /\ owner'[f] = c
      /\ \A g \in Fds \ {f} : owner'[g] = owner[g]
  BY <1>0 DEF Accepted, IInv, TypeOK
<1>3. /\ \A i \in DOMAIN tasks : tasks[i] \in Fds
      /\ \A t \in Threads : thr[t].fd \in Fds \cup {None}
      /\ hand \in Fds \cup {None}
  BY DEF IInv, TypeOK, ThreadType
<1>4. CASE Accept(c, f)
  <2>1. hand = None /\ hand' = f /\ tasks' = tasks /\ thr' = thr
    BY <1>4 DEF Accept
  <2>2. HandsHoldClients'
    BY <1>0, <1>1, <1>2, <1>3, <2>1
       DEF IInv, InOneHand, HandsHoldClients, Serving, Client
  <2>3. HandsDiffer'
    BY <1>1, <2>1 DEF IInv, InOneHand, HandsDiffer, Serving
  <2>4. ClientsInHand'
    BY <1>0, <1>2, <2>1 DEF IInv, InOneHand, ClientsInHand, Names
  <2>5. FilesAreClosed'
    BY <1>0, <1>1, <1>2, <2>1 DEF IInv, FilesAreClosed, Names
  <2> QED
    BY <2>1, <2>2, <2>3, <2>4, <2>5
       DEF OwnershipHolds, InOneHand, IInv, HasNumber, FilesAreLate
<1>5. CASE AcceptAndServe(c, f)
  <2>0. Main \in Threads
    BY DEF Threads
  <2>1. hand' = hand /\ tasks' = tasks /\ thr[Main].pc = "idle" /\ Begin(Main, f)
    BY <1>5 DEF AcceptAndServe
  <2>2. /\ thr'[Main].pc = "recv" /\ thr'[Main].fd = f /\ thr'[Main].file = None
        /\ \A u \in Threads \ {Main} : thr'[u] = thr[u]
    BY <2>0, <2>1, BeginIs DEF IInv
  <2>3. thr[Main].fd = None /\ thr[Main].file = None
    BY <2>0, <2>1 DEF IInv, HasNumber, FilesAreLate
  <2>4. HandsHoldClients'
    BY <1>0, <1>1, <1>2, <1>3, <2>1, <2>2
       DEF IInv, InOneHand, HandsHoldClients, Serving, Client
  <2>5. HandsDiffer'
    BY <1>1, <2>1, <2>2 DEF IInv, InOneHand, HandsDiffer, Serving
  <2>6. ClientsInHand'
    BY <1>0, <1>2, <2>0, <2>1, <2>2, <2>3 DEF IInv, InOneHand, ClientsInHand, Names
  <2>7. FilesAreClosed'
    BY <1>0, <1>1, <1>2, <2>0, <2>1, <2>2, <2>3 DEF IInv, FilesAreClosed, Names
  <2>8. HasNumber' /\ FilesAreLate'
    BY <1>0, <2>2 DEF IInv, HasNumber, FilesAreLate, Names
  <2> QED
    BY <2>4, <2>5, <2>6, <2>7, <2>8 DEF OwnershipHolds, InOneHand
<1> QED
  BY <1>4, <1>5

\* The number goes from the main thread to the end of the queue.
LEMMA PushSteps ==
  ASSUME IInv, PushTask
  PROVE  OwnershipHolds'
<1>0. hand \in Fds /\ tasks \in Seq(Fds) /\ Names
  BY NamesDiffer DEF PushTask, IInv, TypeOK
<1>1. /\ hand' = None /\ owner' = owner /\ thr' = thr
      /\ tasks' = Append(tasks, hand)
  BY DEF PushTask, HandOver
<1>2. /\ Len(tasks') = Len(tasks) + 1
      /\ \A i \in 1..Len(tasks) : tasks'[i] = tasks[i]
      /\ tasks'[Len(tasks) + 1] = hand
      /\ Len(tasks) \in Nat
  BY <1>0, <1>1, AppendProperties, LenProperties
<1>3. DOMAIN tasks = 1..Len(tasks) /\ DOMAIN tasks' = 1..(Len(tasks) + 1)
  BY <1>0, <1>1, <1>2, LenProperties, AppendProperties
<1>4. DOMAIN tasks' = DOMAIN tasks \cup {Len(tasks) + 1} /\ Len(tasks) + 1 \notin DOMAIN tasks
  BY <1>2, <1>3
<1>5. /\ hand # None => owner[hand] \in Clients
      /\ \A i \in DOMAIN tasks : owner[tasks[i]] \in Clients
      /\ \A t \in Threads : thr[t].fd # None => owner[thr[t].fd] \in Clients
  BY DEF IInv, InOneHand, HandsHoldClients, Serving, Client
<1>6. HandsHoldClients'
  <2>1. ASSUME NEW i \in DOMAIN tasks' PROVE owner[tasks'[i]] \in Clients
    <3>1. CASE i \in DOMAIN tasks
      BY <1>2, <1>3, <1>5, <3>1
    <3>2. CASE i = Len(tasks) + 1
      BY <1>0, <1>2, <1>5, <3>2 DEF Names
    <3> QED
      BY <1>4, <2>1, <3>1, <3>2
  <2> QED
    BY <1>1, <1>5, <2>1 DEF HandsHoldClients, Serving, Client
<1>7. \A i \in DOMAIN tasks : tasks[i] \in Fds
  BY <1>0
<1>8. HandsDiffer'
  BY <1>0, <1>1, <1>2, <1>3, <1>4, <1>7 DEF IInv, InOneHand, HandsDiffer, Serving, Names
<1>9. ClientsInHand'
  BY <1>1, <1>2, <1>3, <1>4 DEF IInv, InOneHand, ClientsInHand
<1> QED
  BY <1>1, <1>6, <1>8, <1>9
     DEF OwnershipHolds, InOneHand, IInv, HasNumber, FilesAreLate, FilesAreClosed

\* It goes from the front of the queue to a thread.
LEMMA TakeSteps ==
  ASSUME IInv, NEW t \in Threads, Take(t)
  PROVE  OwnershipHolds'
<1> DEFINE f == Head(tasks)
<1>0. tasks \in Seq(Fds) /\ tasks # <<>> /\ Names
  BY NamesDiffer DEF Take, IInv, TypeOK
<1>1. /\ Len(tasks) \in Nat \ {0} /\ f \in Fds /\ f = tasks[1]
      /\ Len(Tail(tasks)) = Len(tasks) - 1
      /\ \A i \in 1..(Len(tasks) - 1) : Tail(tasks)[i] = tasks[i + 1]
  BY <1>0, HeadTailProperties, LenProperties, EmptySeq
<1>2. /\ hand' = hand /\ owner' = owner /\ tasks' = Tail(tasks)
      /\ Begin(t, f) /\ thr[t].pc = "idle"
  BY DEF Take
<1> HIDE DEF f
<1>3. /\ thr'[t].pc = "recv" /\ thr'[t].fd = f /\ thr'[t].file = None
      /\ \A u \in Threads \ {t} : thr'[u] = thr[u]
  BY <1>1, <1>2, BeginIs DEF IInv
<1>4. /\ DOMAIN tasks = 1..Len(tasks) /\ DOMAIN tasks' = 1..(Len(tasks) - 1)
      /\ \A i \in DOMAIN tasks' : i + 1 \in DOMAIN tasks /\ tasks'[i] = tasks[i + 1]
      /\ \A i \in DOMAIN tasks : i # 1 => i - 1 \in DOMAIN tasks' /\ tasks'[i - 1] = tasks[i]
      /\ 1 \in DOMAIN tasks
  <2>1. DOMAIN tasks = 1..Len(tasks)
    BY <1>0, LenProperties
  <2>2. DOMAIN Tail(tasks) = 1..(Len(tasks) - 1)
    BY <1>0, <1>1, HeadTailProperties, LenProperties
  <2> QED
    BY <1>1, <1>2, <2>1, <2>2
<1>5. thr[t].fd = None /\ thr[t].file = None
  BY <1>2 DEF IInv, HasNumber, FilesAreLate
<1>6. /\ hand # None => owner[hand] \in Clients
      /\ \A i \in DOMAIN tasks : owner[tasks[i]] \in Clients
      /\ \A u \in Threads : thr[u].fd # None => owner[thr[u].fd] \in Clients
  BY DEF IInv, InOneHand, HandsHoldClients, Serving, Client
<1>7. HandsHoldClients'
  BY <1>1, <1>2, <1>3, <1>4, <1>6 DEF HandsHoldClients, Serving, Client
<1>8. HandsDiffer'
  <2>1. /\ \A i \in DOMAIN tasks : tasks[i] # hand
        /\ \A i, j \in DOMAIN tasks : tasks[i] = tasks[j] => i = j
        /\ \A u \in Threads : thr[u].fd # None =>
             /\ thr[u].fd # hand
             /\ \A i \in DOMAIN tasks : thr[u].fd # tasks[i]
             /\ \A v \in Threads : thr[u].fd = thr[v].fd => u = v
    BY DEF IInv, InOneHand, HandsDiffer, Serving
  <2>2. \A i, j \in DOMAIN tasks' : tasks'[i] = tasks'[j] => i = j
    BY <1>4, <2>1
  <2>3. \A i \in DOMAIN tasks' : tasks'[i] # hand' /\ tasks'[i] # f
    BY <1>1, <1>2, <1>4, <2>1
  <2>4. \A u \in Threads \ {t} : thr[u].fd # f
    BY <1>0, <1>1, <1>4, <2>1 DEF Names
  <2>5. f # hand'
    BY <1>1, <1>2, <1>4, <2>1
  <2> QED
    BY <1>2, <1>3, <1>4, <2>1, <2>2, <2>3, <2>4, <2>5 DEF HandsDiffer, Serving
<1>9. ClientsInHand'
  <2> SUFFICES ASSUME NEW g \in Fds, owner'[g] \in Clients
               PROVE  \/ hand' = g
                      \/ \E i \in DOMAIN tasks' : tasks'[i] = g
                      \/ \E u \in Threads : thr'[u].fd = g
    BY DEF ClientsInHand
  <2>1. \/ hand = g
        \/ \E i \in DOMAIN tasks : tasks[i] = g
        \/ \E u \in Threads : thr[u].fd = g
    BY <1>2 DEF IInv, InOneHand, ClientsInHand
  <2>2. ASSUME NEW i \in DOMAIN tasks, tasks[i] = g
        PROVE  g = f \/ \E j \in DOMAIN tasks' : tasks'[j] = g
    BY <1>1, <1>4, <2>2
  <2> QED
    BY <1>0, <1>2, <1>3, <1>5, <2>1, <2>2 DEF Names
<1>10. FilesAreClosed'
  BY <1>2, <1>3, <1>5 DEF IInv, FilesAreClosed
<1>11. HasNumber' /\ FilesAreLate'
  BY <1>0, <1>1, <1>3 DEF IInv, HasNumber, FilesAreLate, Names
<1> QED
  BY <1>7, <1>8, <1>9, <1>10, <1>11 DEF OwnershipHolds, InOneHand

\* Closing a number that one hand holds.
LEMMA ClosedIs ==
  ASSUME TypeOK, NEW f \in Fds, Close(f)
  PROVE  owner'[f] = None /\ \A g \in Fds \ {f} : owner'[g] = owner[g]
BY DEF TypeOK, Close

LEMMA RejectSteps ==
  ASSUME IInv, Reject
  PROVE  OwnershipHolds'
<1>0. /\ hand \in Fds /\ Close(hand) /\ hand' = None
      /\ tasks' = tasks /\ thr' = thr /\ Names
  BY NamesDiffer DEF Reject, IInv, TypeOK
<1>1. owner'[hand] = None /\ \A g \in Fds \ {hand} : owner'[g] = owner[g]
  BY <1>0, ClosedIs DEF IInv
<1>2. /\ \A i \in DOMAIN tasks : tasks[i] \in Fds
      /\ \A t \in Threads : thr[t].fd \in Fds \cup {None}
  BY DEF IInv, TypeOK, ThreadType
<1>3. HandsHoldClients'
  BY <1>0, <1>1, <1>2
     DEF IInv, InOneHand, HandsHoldClients, HandsDiffer, Serving, Client
<1>4. HandsDiffer'
  BY <1>0, <1>2 DEF IInv, InOneHand, HandsDiffer, Serving, Names
<1>5. ClientsInHand'
  BY <1>0, <1>1 DEF IInv, InOneHand, ClientsInHand, Names
<1>6. FilesAreClosed'
  BY <1>0, <1>1 DEF IInv, InOneHand, HandsHoldClients, FilesAreClosed, Names
<1> QED
  BY <1>0, <1>3, <1>4, <1>5, <1>6
     DEF OwnershipHolds, InOneHand, IInv, HasNumber, FilesAreLate

LEMMA OpenSteps ==
  ASSUME IInv, NEW t \in Threads, NEW f \in Fds, Open(t, f)
  PROVE  OwnershipHolds'
<1>0. /\ owner[f] = None /\ hand' = hand /\ tasks' = tasks
      /\ thr[t].pc = "open" /\ thr[t] \in ThreadType /\ Names
  BY NamesDiffer DEF Open, LowestFree, At, IInv, TypeOK
<1>1. /\ hand # f
      /\ \A i \in DOMAIN tasks : tasks[i] # f
      /\ \A u \in Threads : thr[u].fd # f /\ thr[u].file # f
  BY <1>0, FreeInNoHand
<1>2. owner'[f] = t /\ \A g \in Fds \ {f} : owner'[g] = owner[g]
  BY DEF Open, IInv, TypeOK
<1>3. /\ thr'[t].pc = "send" /\ thr'[t].file = f /\ thr'[t].fd = thr[t].fd
      /\ \A u \in Threads \ {t} : thr'[u] = thr[u]
  BY <1>0 DEF Open, IInv, TypeOK, ThreadType
<1>4. /\ \A i \in DOMAIN tasks : tasks[i] \in Fds
      /\ \A u \in Threads : thr[u].fd \in Fds \cup {None}
      /\ hand \in Fds \cup {None}
  BY DEF IInv, TypeOK, ThreadType
<1>5. HandsHoldClients'
  BY <1>0, <1>1, <1>2, <1>3, <1>4 DEF IInv, InOneHand, HandsHoldClients, Serving, Client
<1>6. HandsDiffer'
  <2>1. \A u \in Threads : thr'[u].fd = thr[u].fd
    BY <1>3
  <2> QED
    BY <1>0, <2>1 DEF IInv, InOneHand, HandsDiffer, Serving
<1>7. ClientsInHand'
  BY <1>0, <1>2, <1>3 DEF IInv, InOneHand, ClientsInHand, Names
<1>8. thr[t].file = None
  BY <1>0 DEF IInv, FilesAreLate
<1>9. FilesAreClosed'
  BY <1>0, <1>1, <1>2, <1>3, <1>8 DEF IInv, FilesAreClosed, Names
<1>10. HasNumber' /\ FilesAreLate'
  BY <1>0, <1>3 DEF IInv, HasNumber, FilesAreLate
<1> QED
  BY <1>5, <1>6, <1>7, <1>9, <1>10 DEF OwnershipHolds, InOneHand

LEMMA CloseSteps ==
  ASSUME IInv, NEW t \in Threads, CloseFile(t) \/ CloseClient(t)
  PROVE  OwnershipHolds'
<1>0. /\ hand' = hand /\ tasks' = tasks /\ thr[t].pc = "close"
      /\ thr[t] \in ThreadType /\ Names
  BY NamesDiffer DEF CloseFile, CloseClient, At, IInv, TypeOK
<1>1. /\ \A i \in DOMAIN tasks : tasks[i] \in Fds
      /\ \A u \in Threads : thr[u].fd \in Fds \cup {None}
      /\ hand \in Fds \cup {None}
      /\ thr[t].fd \in Fds
  BY <1>0 DEF IInv, TypeOK, HasNumber, ThreadType
<1>2. CASE CloseFile(t)
  <2> DEFINE f == thr[t].file
  <2>1. f \in Fds /\ Close(f) /\ owner[f] = t
    BY <1>0, <1>2 DEF CloseFile, ThreadType, IInv, FilesAreClosed
  <2> HIDE DEF f
  <2>2. owner'[f] = None /\ \A g \in Fds \ {f} : owner'[g] = owner[g]
    BY <2>1, ClosedIs DEF IInv
  <2>3. /\ thr'[t].pc = "close" /\ thr'[t].file = None /\ thr'[t].fd = thr[t].fd
        /\ \A u \in Threads \ {t} : thr'[u] = thr[u]
    BY <1>0, <1>2 DEF CloseFile, IInv, TypeOK, ThreadType
  <2>4. \A u \in Threads : thr'[u].fd = thr[u].fd
    BY <2>3
  <2>5. HandsHoldClients'
    BY <1>0, <1>1, <2>1, <2>2, <2>4
       DEF IInv, InOneHand, HandsHoldClients, Serving, Client, Names
  <2>6. HandsDiffer'
    BY <1>0, <2>4 DEF IInv, InOneHand, HandsDiffer, Serving
  <2>7. ClientsInHand'
    BY <1>0, <2>1, <2>2, <2>4 DEF IInv, InOneHand, ClientsInHand, Names
  <2>8. FilesAreClosed'
    BY <1>0, <2>1, <2>2, <2>3 DEF f, IInv, FilesAreClosed, Names
  <2>9. HasNumber' /\ FilesAreLate'
    BY <1>0, <1>1, <2>3 DEF IInv, HasNumber, FilesAreLate, Names
  <2> QED
    BY <2>5, <2>6, <2>7, <2>8, <2>9 DEF OwnershipHolds, InOneHand
<1>3. CASE CloseClient(t)
  <2> DEFINE f == thr[t].fd
  <2>1. f \in Fds /\ Close(f) /\ owner[f] \in Clients /\ thr[t].file = None
    BY <1>0, <1>1, <1>3
       DEF CloseClient, IInv, InOneHand, HandsHoldClients, Serving, Client, Names
  <2>2. owner'[f] = None /\ \A g \in Fds \ {f} : owner'[g] = owner[g]
    BY <2>1, ClosedIs DEF IInv
  <2>3. /\ thr'[t].pc = "idle" /\ thr'[t].file = None /\ thr'[t].fd = None
        /\ \A u \in Threads \ {t} : thr'[u] = thr[u]
    BY <1>3 DEF CloseClient, IInv, TypeOK, Idle
  <2>4. /\ f # hand /\ \A i \in DOMAIN tasks : tasks[i] # f
        /\ \A u \in Threads \ {t} : thr[u].fd # f
    BY <1>0, <2>1 DEF IInv, InOneHand, HandsDiffer, Serving, Names
  <2>5. HandsHoldClients'
    BY <1>0, <1>1, <2>2, <2>3, <2>4
       DEF IInv, InOneHand, HandsHoldClients, Serving, Client, Names
  <2>6. HandsDiffer'
    BY <1>0, <2>3 DEF IInv, InOneHand, HandsDiffer, Serving
  <2>7. ClientsInHand'
    BY <1>0, <2>2, <2>3 DEF f, IInv, InOneHand, ClientsInHand, Names
  <2>8. FilesAreClosed'
    BY <1>0, <2>1, <2>2, <2>3 DEF IInv, FilesAreClosed, Names
  <2>9. HasNumber' /\ FilesAreLate'
    BY <1>0, <2>3 DEF IInv, HasNumber, FilesAreLate, Names
  <2> QED
    BY <2>5, <2>6, <2>7, <2>8, <2>9 DEF OwnershipHolds, InOneHand
<1> QED
  BY <1>2, <1>3

------------------------------------------------------------------------------
(* The parser's variables, over whatever the other threads do meanwhile.       *)

\* A thread's parser stays as it is when its client does; one that changes must fit.
LEMMA ParsersKept ==
  ASSUME ParserHolds, stream' = stream,
         \A u \in Threads : Serving(u)' =>
           \/ Serving(u) /\ thr'[u] = thr[u] /\ owner'[thr[u].fd] = owner[thr[u].fd]
           \/ ParserAt(stream[owner'[thr'[u].fd]], thr'[u])
  PROVE  ParserHolds'
BY DEF ParserHolds, ParserAt, Serving, Client

\* The clients of the serving threads keep their numbers when another is closed or
\* taken.
LEMMA ClientsKept ==
  ASSUME IInv, NEW f \in Fds, \A g \in Fds \ {f} : owner'[g] = owner[g],
         NEW u \in Threads, Serving(u), thr[u].fd # f
  PROVE  owner'[thr[u].fd] = owner[thr[u].fd]
BY DEF IInv, TypeOK, ThreadType, Serving

LEMMA LocalParser ==
  ASSUME IInv, ParserHolds, NEW t \in Threads, Serving(t), NEW local,
         thr' = [thr EXCEPT ![t] = local], owner' = owner, stream' = stream,
         local.fd = thr[t].fd, ParserAt(stream[Client(t)], local)
  PROVE  ParserHolds'
<1>1. thr'[t] = local /\ \A u \in Threads \ {t} : thr'[u] = thr[u]
  BY DEF IInv, TypeOK
<1>2. ParserAt(stream[owner'[thr'[t].fd]], thr'[t])
  BY <1>1 DEF Client
<1> QED
  BY <1>1, <1>2, ParsersKept DEF Serving

\* Behind "page" only the bounds of the buffer are left to say.
LEMMA LaterParser ==
  ASSUME IInv, ParserHolds, NEW t \in Threads, Serving(t), NEW local \in ThreadType,
         thr' = [thr EXCEPT ![t] = local], owner' = owner, stream' = stream,
         local.fd = thr[t].fd, local.check = thr[t].check, local.read = thr[t].read,
         local.pc \in {"open", "map", "send", "close"}
  PROVE  ParserHolds'
<1>1. ParserAt(stream[Client(t)], local)
  BY DEF ParserHolds, ParserAt
<1> QED
  BY <1>1, LocalParser

LEMMA RequestParser ==
  ASSUME IInv, ParserHolds, NEW t \in Threads,
         \/ Receive(t) \/ ReceiveEnd(t) \/ ReceiveFails(t) \/ TooLarge(t) \/ Parse(t)
         \/ FindPage(t) \/ OpenFails(t) \/ Map(t) \/ Send(t) \/ SendFails(t)
  PROVE  ParserHolds'
<1>0. thr[t] \in ThreadType /\ BufferSize \in Nat
  BY BlockingSizes DEF IInv, TypeOK
<1>1. Serving(t)
  BY DEF Receive, ReceiveEnd, ReceiveFails, TooLarge, Parse, FindPage, OpenFails, Map,
         Send, SendFails, At, IInv, HasNumber, Serving
<1>2. ParserAt(stream[Client(t)], thr[t])
  BY <1>1 DEF ParserHolds
<1>3. CASE Receive(t)
  <2> DEFINE local == [thr[t] EXCEPT !.pc = "parse",
                         !.read = IF sock[Client(t)].sent < BufferSize
                                  THEN sock[Client(t)].sent ELSE BufferSize]
  <2>1. /\ Client(t) \in Clients /\ sock[Client(t)].sent \in Nat
        /\ sock[Client(t)].sent > thr[t].read /\ thr[t].pc = "recv"
    BY <1>3 DEF Receive, At, IInv, TypeOK, SocketType
  <2>2. /\ local.pc = "parse" /\ local.fd = thr[t].fd /\ local.state = thr[t].state
        /\ local.check = thr[t].check /\ thr[t].read < local.read
    BY <1>0, <1>2, <2>1 DEF ThreadType, ParserAt
  <2>3. Locally(t, local)
    BY <1>3 DEF Receive
  <2>4. local \in ThreadType
    BY <1>0, <2>1 DEF ThreadType
  <2> HIDE DEF local
  <2>5. ParserAt(stream[Client(t)], local)
    <3>1. thr[t].check <= local.read
      BY <1>0, <1>2, <2>2, <2>4 DEF ParserAt, ThreadType
    <3> QED
      BY <1>2, <2>1, <2>2, <3>1 DEF ParserAt
  <2> QED
    BY <1>1, <2>2, <2>3, <2>5, LocalParser DEF Locally, kernelVars
<1>4. ASSUME Return(t) PROVE ParserHolds'
  <2> DEFINE local == [thr[t] EXCEPT !.pc = "close"]
  <2>1. /\ local \in ThreadType /\ local.fd = thr[t].fd /\ local.check = thr[t].check
        /\ local.read = thr[t].read /\ local.pc = "close"
    BY <1>0 DEF ThreadType
  <2>2. Locally(t, local)
    BY <1>4 DEF Return
  <2> HIDE DEF local
  <2> QED
    BY <1>1, <2>1, <2>2, LaterParser DEF Locally, kernelVars
<1>5. CASE Exit
  BY <1>5, ParsersKept DEF Exit, kernelVars, Serving
<1>6. ASSUME NEW message \in Messages, Reply(t, message) PROVE ParserHolds'
  <2> DEFINE local == [thr[t] EXCEPT !.pc = "send", !.out = message]
  <2>1. /\ local \in ThreadType /\ local.fd = thr[t].fd /\ local.check = thr[t].check
        /\ local.read = thr[t].read /\ local.pc = "send"
    BY <1>0 DEF ThreadType
  <2>2. Locally(t, local)
    BY <1>6 DEF Reply
  <2> HIDE DEF local
  <2> QED
    BY <1>1, <2>1, <2>2, LaterParser DEF Locally, kernelVars
<1>7. CASE Parse(t)
  <2> DEFINE lines == stream[Client(t)]
             p == ParseContent(lines, thr[t])
             local == [thr[t] EXCEPT !.check = p.check, !.state = p.state,
                         !.pc = AfterParse(p.code)]
  <2>1. Locally(t, local) /\ thr[t].pc = "parse" /\ thr[t].read < BufferSize
    BY <1>7 DEF Parse, At
  <2>2. /\ p \in ParserType /\ p.check <= thr[t].read
        /\ p.code = "GET_REQUEST" =>
             \E k \in 1..thr[t].read : IsRequest(lines, k, thr[t].read)
        /\ p.code # "GET_REQUEST" =>
             /\ p.state # "BODY"
             /\ ParsedSoFar(lines, p.check, p.state)
             /\ LeftBehind(lines, thr[t].read, p)
    BY <1>0, <1>2, <2>1, ContentDecides DEF ParserAt
  <2>3. /\ local.fd = thr[t].fd /\ local.read = thr[t].read
        /\ local.check = p.check /\ local.state = p.state
        /\ local.pc = IF p.code = "GET_REQUEST" THEN "page" ELSE "recv"
    BY <1>0 DEF ThreadType, AfterParse
  <2> HIDE DEF lines, p, local
  <2>4. LeftBehind(lines, thr[t].read, p) => LeftBehind(lines, thr[t].read, local)
    BY <2>3 DEF LeftBehind, StoppedAtRefused
  <2>5. ParserAt(lines, local)
    BY <2>1, <2>2, <2>3, <2>4 DEF ParserAt
  <2> QED
    BY <1>1, <2>1, <2>3, <2>5, LocalParser DEF Locally, kernelVars, lines
<1>8. CASE FindPage(t)
  <2> DEFINE local == [thr[t] EXCEPT !.pc = "open"]
  <2>1. /\ local \in ThreadType /\ local.fd = thr[t].fd /\ local.check = thr[t].check
        /\ local.read = thr[t].read /\ local.pc = "open"
    BY <1>0 DEF ThreadType
  <2>2. Locally(t, local)
    BY <1>8 DEF FindPage
  <2> HIDE DEF local
  <2> QED
    BY <1>1, <2>1, <2>2, LaterParser DEF Locally, kernelVars
<1>9. CASE Send(t)
  <2> DEFINE local == [thr[t] EXCEPT !.pc = AfterSend(thr[t].out)]
  <2>1. /\ local \in ThreadType /\ local.fd = thr[t].fd /\ local.check = thr[t].check
        /\ local.read = thr[t].read /\ local.pc \in {"map", "close"}
    BY <1>0 DEF ThreadType, AfterSend
  <2>2. thr' = [thr EXCEPT ![t] = local] /\ owner' = owner /\ stream' = stream
    BY <1>9 DEF Send, kernelVars, IInv, TypeOK
  <2> HIDE DEF local
  <2> QED
    BY <1>1, <2>1, <2>2, LaterParser
<1> QED
  BY <1>3, <1>4, <1>5, <1>6, <1>7, <1>8, <1>9
     DEF ReceiveEnd, StopReading, ReceiveFails, TooLarge, OpenFails, Map, SendFails, Messages

\* A new connection's buffer is empty.
LEMMA BeginParser ==
  ASSUME IInv, NEW t \in Threads, NEW f \in Fds, Begin(t, f), NEW lines
  PROVE  ParserAt(lines, thr'[t])
<1>1. thr'[t] = [Idle EXCEPT !.pc = "recv", !.fd = f]
  BY DEF Begin, IInv, TypeOK
<1>2. /\ thr'[t].check = 0 /\ thr'[t].read = 0 /\ thr'[t].pc = "recv"
      /\ thr'[t].state = "REQUESTLINE"
  BY <1>1 DEF Idle
<1> QED
  BY <1>2, BlockingSizes DEF ParserAt, ParsedSoFar, LeftBehind

\* The steps that give a number to somebody, or give it back.
LEMMA TableParser ==
  ASSUME IInv, ParserHolds,
         \/ RunStep
         \/ \E t \in Threads : \/ Take(t) \/ CloseFile(t) \/ CloseClient(t)
                              \/ \E f \in Fds : Open(t, f)
  PROVE  ParserHolds'
<1>0. /\ Names
      /\ \A u \in Threads : thr[u] \in ThreadType
      /\ \A u \in Threads : Serving(u) => thr[u].fd \in Fds /\ owner[thr[u].fd] \in Clients
  BY NamesDiffer DEF IInv, TypeOK, InOneHand, HandsHoldClients, Serving, Client, ThreadType
<1>1. ASSUME NEW c \in Clients, NEW f \in Fds, AcceptAndServe(c, f) \/ Accept(c, f)
      PROVE  ParserHolds'
  <2>1. /\ owner[f] = None /\ stream' = stream
        /\ \A g \in Fds \ {f} : owner'[g] = owner[g]
    BY <1>1 DEF AcceptAndServe, Accept, Accepted, LowestFree, kernelVars, IInv, TypeOK
  <2>2. \A u \in Threads : Serving(u) => owner'[thr[u].fd] = owner[thr[u].fd]
    BY <1>0, <2>1, ClientsKept DEF Names
  <2>3. CASE Accept(c, f)
    BY <2>1, <2>2, <2>3, ParsersKept DEF Accept, Serving
  <2>4. CASE AcceptAndServe(c, f)
    <3>1. Main \in Threads /\ Begin(Main, f)
      BY <2>4 DEF AcceptAndServe, Threads
    <3>2. \A u \in Threads \ {Main} : thr'[u] = thr[u]
      BY <3>1, BeginIs DEF IInv
    <3>3. ParserAt(stream[owner'[thr'[Main].fd]], thr'[Main])
      BY <3>1, BeginParser
    <3> QED
      BY <2>1, <2>2, <3>2, <3>3, ParsersKept DEF Serving
  <2> QED
    BY <1>1, <2>3, <2>4
<1>2. CASE PushTask
  BY <1>2, ParsersKept DEF PushTask, HandOver, kernelVars, Serving
<1>3. CASE Reject
  <2>1. hand \in Fds /\ stream' = stream /\ thr' = thr /\ Close(hand)
    BY <1>3 DEF Reject, kernelVars, IInv, TypeOK
  <2>2. \A g \in Fds \ {hand} : owner'[g] = owner[g]
    BY <2>1, ClosedIs DEF IInv
  <2>3. \A u \in Threads : Serving(u) => thr[u].fd # hand
    BY DEF IInv, InOneHand, HandsDiffer
  <2>4. \A u \in Threads : Serving(u) => owner'[thr[u].fd] = owner[thr[u].fd]
    BY <2>1, <2>2, <2>3, ClientsKept
  <2> QED
    BY <2>1, <2>4, ParsersKept DEF Serving
<1>4. ASSUME NEW t \in Threads, Take(t) PROVE ParserHolds'
  <2> DEFINE f == Head(tasks)
  <2>1. owner' = owner /\ stream' = stream /\ Begin(t, f) /\ f \in Fds
    BY <1>4, HeadTailProperties DEF Take, kernelVars, IInv, TypeOK
  <2> HIDE DEF f
  <2>2. \A u \in Threads \ {t} : thr'[u] = thr[u]
    BY <2>1, BeginIs DEF IInv
  <2>3. ParserAt(stream[owner'[thr'[t].fd]], thr'[t])
    BY <2>1, BeginParser
  <2> QED
    BY <2>1, <2>2, <2>3, ParsersKept DEF Serving
<1>5. ASSUME NEW t \in Threads, CloseFile(t) PROVE ParserHolds'
  <2>1. /\ thr[t].file \in Fds /\ stream' = stream /\ Close(thr[t].file)
        /\ owner[thr[t].file] = t /\ Serving(t)
    BY <1>0, <1>5
       DEF CloseFile, At, kernelVars, IInv, HasNumber, FilesAreClosed, Serving, ThreadType
  <2>2. \A g \in Fds \ {thr[t].file} : owner'[g] = owner[g]
    BY <2>1, ClosedIs DEF IInv
  <2>3. \A u \in Threads : Serving(u) => owner'[thr[u].fd] = owner[thr[u].fd]
    BY <1>0, <2>1, <2>2, ClientsKept DEF Names
  <2>4. /\ thr'[t].fd = thr[t].fd /\ thr'[t].check = thr[t].check
        /\ thr'[t].read = thr[t].read /\ thr'[t].pc = "close"
        /\ \A u \in Threads \ {t} : thr'[u] = thr[u]
    BY <1>0, <1>5 DEF CloseFile, At, IInv, TypeOK, ThreadType
  <2>5. ParserAt(stream[owner'[thr'[t].fd]], thr'[t])
    BY <2>1, <2>4 DEF ParserHolds, ParserAt
  <2> QED
    BY <2>1, <2>3, <2>4, <2>5, ParsersKept DEF Serving
<1>6. ASSUME NEW t \in Threads, CloseClient(t) PROVE ParserHolds'
  <2>1. Serving(t) /\ stream' = stream /\ Close(thr[t].fd)
    BY <1>6 DEF CloseClient, At, kernelVars, IInv, HasNumber, Serving
  <2>2. \A g \in Fds \ {thr[t].fd} : owner'[g] = owner[g]
    BY <1>0, <2>1, ClosedIs DEF IInv
  <2>3. thr'[t].fd = None /\ \A u \in Threads \ {t} : thr'[u] = thr[u]
    BY <1>6 DEF CloseClient, IInv, TypeOK, Idle
  <2>4. \A u \in Threads \ {t} : Serving(u) => thr[u].fd # thr[t].fd
    BY <2>1 DEF IInv, InOneHand, HandsDiffer
  <2>5. \A u \in Threads \ {t} : Serving(u) => owner'[thr[u].fd] = owner[thr[u].fd]
    BY <1>0, <2>1, <2>2, <2>4, ClientsKept
  <2> QED
    BY <2>1, <2>3, <2>5, ParsersKept DEF Serving
<1>7. ASSUME NEW t \in Threads, NEW f \in Fds, Open(t, f) PROVE ParserHolds'
  <2>1. /\ owner[f] = None /\ stream' = stream /\ Serving(t)
        /\ \A g \in Fds \ {f} : owner'[g] = owner[g]
    BY <1>7 DEF Open, At, LowestFree, kernelVars, IInv, TypeOK, HasNumber, Serving
  <2>2. \A u \in Threads : Serving(u) => owner'[thr[u].fd] = owner[thr[u].fd]
    BY <1>0, <2>1, ClientsKept DEF Names
  <2>3. /\ thr'[t].fd = thr[t].fd /\ thr'[t].check = thr[t].check
        /\ thr'[t].read = thr[t].read /\ thr'[t].pc = "send"
        /\ \A u \in Threads \ {t} : thr'[u] = thr[u]
    BY <1>0, <1>7 DEF Open, IInv, TypeOK, ThreadType
  <2>4. ParserAt(stream[owner'[thr'[t].fd]], thr'[t])
    BY <2>1, <2>3 DEF ParserHolds, ParserAt
  <2> QED
    BY <2>1, <2>2, <2>3, <2>4, ParsersKept DEF Serving
<1> QED
  BY <1>1, <1>2, <1>3, <1>4, <1>5, <1>6, <1>7 DEF RunStep

------------------------------------------------------------------------------
(* The lives of the connections.                                               *)

\* A number stands for one client, whose socket is open.
Opened == \A f \in Fds : owner[f] \in Clients => sock[owner[f]].state = "open"
OneNumber == \A f, g \in Fds : owner[f] \in Clients /\ owner[f] = owner[g] => f = g

\* do_request has an answer as soon as it has parted with its request, and not before.
Answering ==
  \A t \in Threads : /\ thr[t].pc \in {"recv", "parse", "page", "open"} => thr[t].out = None
                     /\ thr[t].pc \in {"map", "send"} => thr[t].out # None

LifeInv == Opened /\ OneNumber /\ Answering

\* A thread that leaves its client without an answer does so because that has finished
\* or reset the connection.
HasLeft(u) ==
  thr[u].pc = "close" /\ thr[u].out = None /\ Serving(u) => sock[Client(u)].peer # "up"

Leaving == \A u \in Threads : HasLeft(u)

\* LifeStage, with a name for each of its parts.
Served(c) == {t \in Threads : thr[t].fd # None /\ owner[thr[t].fd] = c}

Doing(q) ==
  CASE q.pc = "parse" -> "reading"
    [] q.pc \in {"page", "open"} -> "logic"
    [] OTHER -> IF q.out = None THEN "idle" ELSE "replying"

Stage(state, served, locals) ==
  IF state = "none" THEN "unborn"
  ELSE IF state = "backlog" THEN "waiting"
  ELSE IF state = "closed" THEN "closed"
  ELSE IF served = {} THEN "idle"
  ELSE Doing(locals[CHOOSE t \in served : TRUE])

LEMMA StageIs ==
  ASSUME NEW c \in Clients
  PROVE  /\ LifeStage(c) = Stage(sock[c].state, Served(c), thr)
         /\ LifeStage(c)' = Stage(sock'[c].state, Served(c)', thr')
BY DEF LifeStage, Stage, Served, Client, Doing

LEMMA StageOfOne ==
  ASSUME NEW t, NEW locals
  PROVE  Stage("open", {t}, locals) = Doing(locals[t])
BY DEF Stage

\* Whoever serves the client of thread t is t.
LEMMA ServedByOne ==
  ASSUME IInv, OneNumber, NEW t \in Threads, Serving(t)
  PROVE  Served(Client(t)) = {t} /\ Client(t) \in Clients
<1>1. Client(t) \in Clients
  BY DEF IInv, InOneHand, HandsHoldClients
<1>2. \A u \in Threads : thr[u].fd \in Fds \cup {None}
  BY DEF IInv, TypeOK, ThreadType
<1>3. ASSUME NEW u \in Served(Client(t)) PROVE u = t
  <2>1. thr[u].fd = thr[t].fd
    BY <1>1, <1>2, <1>3 DEF Served, Client, Serving, OneNumber
  <2> QED
    BY <1>3, <2>1 DEF IInv, InOneHand, HandsDiffer, Serving, Served
<1> QED
  BY <1>1, <1>3 DEF Served, Serving, Client

\* The clients of hand and of the tasks are served by nobody.
LEMMA ServedByNone ==
  ASSUME IInv, OneNumber, NEW f \in Fds, owner[f] \in Clients,
         hand = f \/ \E i \in DOMAIN tasks : tasks[i] = f
  PROVE  Served(owner[f]) = {}
<1>1. \A u \in Threads : thr[u].fd \in Fds \cup {None}
  BY DEF IInv, TypeOK, ThreadType
<1>2. ASSUME NEW u \in Served(owner[f]) PROVE FALSE
  <2>1. thr[u].fd = f
    BY <1>1, <1>2 DEF Served, OneNumber
  <2> QED
    BY <1>2, <2>1 DEF IInv, InOneHand, HandsDiffer, Serving, Served
<1> QED
  BY <1>2

\* One connection moves.
LEMMA OneMoves ==
  ASSUME NEW c \in Clients, alive' = alive,
         \A d \in Clients \ {c} : LifeStage(d)' = LifeStage(d)
  PROVE  Life!Move(c, LifeStage(c), LifeStage(c)')
BY DEF Life!Move

\* None does.
LEMMA NoneMoves ==
  ASSUME alive' = alive, \A d \in Clients : LifeStage(d)' = LifeStage(d)
  PROVE  UNCHANGED Life!vars
BY DEF Life!vars

LEMMA StageStays ==
  ASSUME NEW d \in Clients, sock'[d].state = sock[d].state, Served(d)' = Served(d),
         \A t \in Served(d) : thr'[t] = thr[t]
  PROVE  LifeStage(d)' = LifeStage(d)
<1>1. CASE Served(d) = {}
  BY <1>1, StageIs DEF Stage
<1>2. CASE Served(d) # {}
  <2>1. (CHOOSE t \in Served(d) : TRUE) \in Served(d)
    BY <1>2
  <2> QED
    BY <2>1, StageIs DEF Stage
<1> QED
  BY <1>1, <1>2

\* A thread goes on with its client.
LEMMA ThreadMoves ==
  ASSUME IInv, LifeInv, NEW t \in Threads, Serving(t), alive' = alive,
         thr'[t].fd = thr[t].fd, \A u \in Threads \ {t} : thr'[u] = thr[u],
         \A f \in Fds : owner[f] \in Clients => owner'[f] = owner[f],
         \A d \in Clients : sock'[d].state = sock[d].state
  PROVE  /\ \E c \in Clients : Life!Move(c, Doing(thr[t]), Doing(thr'[t]))
         /\ Doing(thr'[t]) = Doing(thr[t]) => UNCHANGED Life!vars
<1>0. PICK c \in Clients : c = Client(t) /\ Served(c) = {t}
  BY ServedByOne DEF LifeInv
<1>1. c \in Clients /\ Served(c) = {t}
  BY <1>0
<1>2. \A u \in Threads : Serving(u) => thr[u].fd \in Fds /\ owner[thr[u].fd] \in Clients
  BY DEF IInv, TypeOK, ThreadType, InOneHand, HandsHoldClients, Serving, Client
<1>3. \A d \in Clients : Served(d)' = Served(d)
  BY <1>2 DEF Served, Serving
<1>4. ASSUME NEW d \in Clients \ {c} PROVE LifeStage(d)' = LifeStage(d)
  <2>1. t \notin Served(d)
    BY <1>0, <1>4 DEF Served, Client
  <2>2. \A u \in Served(d) : thr'[u] = thr[u]
    BY <2>1 DEF Served
  <2> QED
    BY <1>3, <2>2, StageStays
<1>5. sock[c].state = "open"
  BY <1>0, <1>1, <1>2 DEF LifeInv, Opened, Client
<1>6. LifeStage(c) = Doing(thr[t]) /\ LifeStage(c)' = Doing(thr'[t])
  BY <1>1, <1>3, <1>5, StageIs, StageOfOne
<1>7. Life!Move(c, Doing(thr[t]), Doing(thr'[t]))
  BY <1>1, <1>4, <1>6, OneMoves
<1>8. Doing(thr'[t]) = Doing(thr[t]) => UNCHANGED Life!vars
  BY <1>4, <1>6, NoneMoves
<1> QED
  BY <1>7, <1>8

LEMMA LocalMoves ==
  ASSUME IInv, LifeInv, NEW t \in Threads, Serving(t), NEW local,
         Locally(t, local), local.fd = thr[t].fd
  PROVE  /\ \E c \in Clients : Life!Move(c, Doing(thr[t]), Doing(local))
         /\ Doing(local) = Doing(thr[t]) => UNCHANGED Life!vars
<1>1. thr'[t] = local /\ \A u \in Threads \ {t} : thr'[u] = thr[u]
  BY DEF Locally, IInv, TypeOK
<1> QED
  BY <1>1, ThreadMoves DEF Locally

\* exit and SIGPIPE.
LEMMA ExitStops ==
  ASSUME alive, Exit
  PROVE  Life!Stop
<1>1. \A d \in Clients : Served(d)' = Served(d)
  BY DEF Exit, Served
<1>2. \A d \in Clients : LifeStage(d)' = LifeStage(d)
  BY <1>1, StageStays DEF Exit
<1> QED
  BY <1>2 DEF Life!Stop, Exit

LifeGoesOn == [Life!Next]_(Life!vars)

\* A close of a number that stands for a client, who is idle or gets an answer.
LEMMA CloseEnds ==
  ASSUME IInv, LifeInv, NEW f \in Fds, owner[f] \in Clients, Close(f), alive' = alive,
         LifeStage(owner[f]) \in {"idle", "replying"},
         LifeStage(owner[f]) = "idle" => MayDrop(owner[f]),
         \A u \in Threads : thr[u].fd # f => thr'[u] = thr[u],
         \A u \in Threads : thr[u].fd = f => thr'[u].fd = None
  PROVE  LifeGoesOn
<1>1. PICK c \in Clients : c = owner[f] /\ LifeStage(c) \in {"idle", "replying"}
  OBVIOUS
<1>2. \A g \in Fds : g # f => owner'[g] = owner[g]
  BY ClosedIs DEF IInv
<1>3. /\ sock'[c].state = "closed"
      /\ \A d \in Clients \ {c} : sock'[d] = sock[d]
  BY <1>1 DEF Close, Fresh, IInv, TypeOK
<1>4. \A u \in Threads : thr[u].fd \in Fds \cup {None}
  BY DEF IInv, TypeOK, ThreadType
<1>5. ASSUME NEW d \in Clients \ {c} PROVE LifeStage(d)' = LifeStage(d)
  <2>1. \A u \in Served(d) : thr[u].fd # f /\ thr'[u] = thr[u]
    BY <1>1, <1>5 DEF Served
  <2>2. ASSUME NEW u \in Threads PROVE u \in Served(d)' <=> u \in Served(d)
    <3>1. CASE thr[u].fd = f
      BY <1>1, <1>5, <3>1 DEF Served
    <3>2. CASE thr[u].fd # f
      BY <1>2, <1>4, <3>2 DEF Served
    <3> QED
      BY <3>1, <3>2
  <2>3. Served(d)' = Served(d)
    BY <2>2 DEF Served
  <2> QED
    BY <1>3, <1>5, <2>1, <2>3, StageStays
<1>6. LifeStage(c)' = "closed"
  BY <1>1, <1>3, StageIs DEF Stage
<1>7. Life!Move(c, LifeStage(c), "closed")
  BY <1>1, <1>5, <1>6, OneMoves
<1>8. Life!Complete(c) \/ Life!Drop(c)
  BY <1>1, <1>7 DEF Life!Complete, Life!Drop
<1> QED
  BY <1>1, <1>8 DEF LifeGoesOn, Life!Next

LEMMA ThreadLives ==
  ASSUME IInv, LifeInv, Leaving, NEW t \in Threads,
         \/ Receive(t) \/ ReceiveEnd(t) \/ ReceiveFails(t) \/ TooLarge(t) \/ Parse(t)
         \/ FindPage(t) \/ OpenFails(t) \/ (\E f \in Fds : Open(t, f))
         \/ Map(t) \/ Send(t) \/ SendFails(t) \/ CloseFile(t) \/ CloseClient(t)
  PROVE  LifeGoesOn
<1>0. thr[t] \in ThreadType /\ alive /\ Serving(t)
  BY DEF Receive, ReceiveEnd, ReceiveFails, TooLarge, Parse, FindPage, OpenFails, Open,
         Map, Send, SendFails, CloseFile, CloseClient, At, IInv, TypeOK, HasNumber, Serving
<1>1. /\ thr[t].pc \in {"recv", "parse", "page", "open"} => thr[t].out = None
      /\ thr[t].pc \in {"map", "send"} => thr[t].out # None
  BY DEF LifeInv, Answering
<1>2. ASSUME NEW m \in Messages PROVE m # None
  BY BlockingNames
<1>3. CASE Receive(t)
  <2> DEFINE local == [thr[t] EXCEPT !.pc = "parse",
                         !.read = IF sock[Client(t)].sent < BufferSize
                                  THEN sock[Client(t)].sent ELSE BufferSize]
  <2>1. Locally(t, local) /\ thr[t].pc = "recv"
    BY <1>3 DEF Receive, At
  <2>2. local.fd = thr[t].fd /\ Doing(local) = "reading" /\ Doing(thr[t]) = "idle"
    BY <1>0, <1>1, <2>1 DEF Doing, ThreadType
  <2> HIDE DEF local
  <2> QED
    BY <1>0, <2>1, <2>2, LocalMoves DEF LifeGoesOn, Life!Next, Life!Read
<1>4. ASSUME Return(t), thr[t].pc \in {"recv", "send"} PROVE LifeGoesOn
  <2> DEFINE local == [thr[t] EXCEPT !.pc = "close"]
  <2>1. local.fd = thr[t].fd /\ Doing(local) = Doing(thr[t])
    BY <1>0, <1>4 DEF Doing, ThreadType
  <2>2. Locally(t, local)
    BY <1>4 DEF Return
  <2> HIDE DEF local
  <2> QED
    BY <1>0, <2>1, <2>2, LocalMoves DEF LifeGoesOn
<1>5. CASE Exit
  BY <1>0, <1>5, ExitStops DEF LifeGoesOn, Life!Next
<1>6. ASSUME NEW m \in Messages, Reply(t, m), thr[t].pc \in {"parse", "open", "map"}
      PROVE  LifeGoesOn
  <2> DEFINE local == [thr[t] EXCEPT !.pc = "send", !.out = m]
  <2>1. local.fd = thr[t].fd /\ Doing(local) = "replying" /\ Locally(t, local)
    BY <1>0, <1>2, <1>6 DEF Doing, ThreadType, Reply
  <2>2. Doing(thr[t]) = CASE thr[t].pc = "parse" -> "reading"
                          [] thr[t].pc = "open" -> "logic"
                          [] thr[t].pc = "map" -> "replying"
    BY <1>1, <1>6 DEF Doing
  <2> HIDE DEF local
  <2> QED
    BY <1>0, <1>6, <2>1, <2>2, LocalMoves
       DEF LifeGoesOn, Life!Next, Life!Refuse, Life!Answer
<1>7. CASE Parse(t)
  <2> DEFINE p == ParseContent(stream[Client(t)], thr[t])
             local == [thr[t] EXCEPT !.check = p.check, !.state = p.state,
                         !.pc = AfterParse(p.code)]
  <2>1. Locally(t, local) /\ thr[t].pc = "parse"
    BY <1>7 DEF Parse, At
  <2>2. /\ local.fd = thr[t].fd /\ local.out = thr[t].out
        /\ local.pc \in {"page", "recv"}
    BY <1>0 DEF ThreadType, AfterParse
  <2> HIDE DEF local
  <2>3. Doing(local) \in {"logic", "idle"} /\ Doing(thr[t]) = "reading"
    BY <1>1, <2>1, <2>2 DEF Doing
  <2> QED
    BY <1>0, <2>1, <2>2, <2>3, LocalMoves
       DEF LifeGoesOn, Life!Next, Life!Submit, Life!Resume
<1>8. CASE FindPage(t)
  <2> DEFINE local == [thr[t] EXCEPT !.pc = "open"]
  <2>1. local.fd = thr[t].fd /\ Doing(local) = Doing(thr[t]) /\ Locally(t, local)
    BY <1>0, <1>8 DEF FindPage, At, Doing, ThreadType
  <2> HIDE DEF local
  <2> QED
    BY <1>0, <2>1, LocalMoves DEF LifeGoesOn
<1>9. ASSUME NEW f \in Fds, Open(t, f) PROVE LifeGoesOn
  <2>1. /\ \A g \in Fds : owner[g] \in Clients => owner'[g] = owner[g]
        /\ alive' = alive /\ sock' = sock
    BY <1>9, NamesDiffer DEF Open, LowestFree, IInv, TypeOK, Names
  <2>2. /\ thr'[t].fd = thr[t].fd /\ thr'[t].pc = "send" /\ thr'[t].out = "header"
        /\ \A u \in Threads \ {t} : thr'[u] = thr[u]
    BY <1>0, <1>9 DEF Open, IInv, TypeOK, ThreadType
  <2>3. Doing(thr[t]) = "logic" /\ Doing(thr'[t]) = "replying"
    BY <1>2, <1>9, <2>2 DEF Open, At, Doing, Messages
  <2> QED
    BY <1>0, <2>1, <2>2, <2>3, ThreadMoves DEF LifeGoesOn, Life!Next, Life!Answer
<1>10. CASE Send(t)
  <2>1. /\ UNCHANGED <<alive, owner>>
        /\ thr' = [thr EXCEPT ![t].pc = AfterSend(thr[t].out)]
        /\ \A d \in Clients : sock'[d].state = sock[d].state
    BY <1>10 DEF Send, IInv, TypeOK, SocketType
  <2>2. /\ thr'[t].fd = thr[t].fd /\ thr'[t].out = thr[t].out
        /\ thr'[t].pc \in {"map", "close"}
        /\ \A u \in Threads \ {t} : thr'[u] = thr[u]
    BY <1>0, <2>1 DEF AfterSend, IInv, TypeOK, ThreadType
  <2>3. Doing(thr'[t]) = Doing(thr[t])
    BY <1>10, <2>2 DEF Send, At, Doing
  <2> QED
    BY <1>0, <2>1, <2>2, <2>3, ThreadMoves DEF LifeGoesOn
<1>11. CASE CloseFile(t)
  <2> DEFINE f == thr[t].file
  <2>1. f \in Fds /\ owner[f] = t /\ Close(f) /\ alive' = alive
    BY <1>0, <1>11 DEF CloseFile, ThreadType, IInv, FilesAreClosed
  <2>2. /\ \A g \in Fds : owner[g] \in Clients => owner'[g] = owner[g]
        /\ sock' = sock
    BY <2>1, ClosedIs, NamesDiffer DEF Close, IInv, Names
  <2>3. /\ thr'[t] = [thr[t] EXCEPT !.file = None]
        /\ \A u \in Threads \ {t} : thr'[u] = thr[u]
    BY <1>11 DEF CloseFile, IInv, TypeOK
  <2>4. thr'[t].fd = thr[t].fd /\ Doing(thr'[t]) = Doing(thr[t])
    BY <1>0, <2>3 DEF Doing, ThreadType
  <2> QED
    BY <1>0, <2>1, <2>2, <2>3, <2>4, ThreadMoves DEF LifeGoesOn
<1>12. CASE CloseClient(t)
  <2>1. PICK f \in Fds : f = thr[t].fd
    BY <1>0 DEF ThreadType, Serving
  <2>2. /\ Close(f) /\ alive' = alive /\ thr[t].pc = "close"
        /\ thr' = [thr EXCEPT ![t] = Idle]
    BY <1>12, <2>1 DEF CloseClient, At
  <2>3. owner[f] \in Clients /\ Served(owner[f]) = {t}
    BY <1>0, <2>1, ServedByOne DEF LifeInv, Client
  <2>4. \A u \in Threads : thr[u].fd = f => u = t
    BY <1>0, <2>1 DEF IInv, InOneHand, HandsDiffer, Serving
  <2>5. thr'[t].fd = None /\ \A u \in Threads \ {t} : thr'[u] = thr[u]
    BY <2>2 DEF Idle, IInv, TypeOK
  <2>6. sock[owner[f]].state = "open"
    BY <2>3 DEF LifeInv, Opened
  <2>7. LifeStage(owner[f]) = Doing(thr[t])
    BY <2>3, <2>6, StageIs, StageOfOne
  <2>8. LifeStage(owner[f]) \in {"idle", "replying"}
    BY <2>2, <2>7 DEF Doing
  <2>9. ASSUME LifeStage(owner[f]) = "idle" PROVE MayDrop(owner[f])
    <3>1. thr[t].out = None
      BY <2>2, <2>7, <2>9 DEF Doing
    <3> QED
      BY <1>0, <2>1, <2>2, <3>1 DEF Leaving, HasLeft, Client, MayDrop
  <2> QED
    BY <2>1, <2>2, <2>3, <2>4, <2>5, <2>8, <2>9, CloseEnds
<1> QED
  BY <1>3, <1>4, <1>5, <1>6, <1>7, <1>8, <1>9, <1>10, <1>11, <1>12
     DEF ReceiveEnd, StopReading, ReceiveFails, TooLarge, OpenFails, Map, SendFails, At,
         Messages

\* A connection changes hands, or gets into one.
LEMMA HandLives ==
  ASSUME IInv, LifeInv, RunStep \/ \E t \in Threads : Take(t)
  PROVE  LifeGoesOn
<1>0. /\ hand \in Fds \cup {None} /\ Names
      /\ \A u \in Threads : thr[u].fd \in Fds \cup {None}
  BY NamesDiffer DEF IInv, TypeOK, ThreadType
<1>1. ASSUME NEW c \in Clients, NEW f \in Fds, AcceptAndServe(c, f) \/ Accept(c, f)
      PROVE  LifeGoesOn
  <2>1. /\ owner[f] = None /\ sock[c].state = "backlog" /\ alive' = alive
        /\ owner' = [owner EXCEPT ![f] = c]
        /\ sock' = [sock EXCEPT ![c].state = "open"]
    BY <1>1 DEF AcceptAndServe, Accept, Accepted, LowestFree
  <2>2. \A u \in Threads : thr[u].fd # f
    BY <2>1, FreeInNoHand
  <2>3. /\ \A g \in Fds \ {f} : owner'[g] = owner[g]
        /\ owner'[f] = c
        /\ sock'[c].state = "open"
        /\ \A d \in Clients \ {c} : sock'[d] = sock[d]
    BY <2>1 DEF IInv, TypeOK, SocketType
  <2>4. \A g \in Fds : owner[g] # c
    BY <2>1 DEF LifeInv, Opened
  <2>5. Served(c) = {}
    BY <1>0, <2>4 DEF Served
  <2>6. /\ LifeStage(c)' = "idle"
        /\ \A d \in Clients \ {c} : Served(d)' = Served(d)
                                   /\ \A u \in Served(d) : thr'[u] = thr[u]
    <3>1. CASE Accept(c, f)
      <4>1. thr' = thr
        BY <3>1 DEF Accept
      <4>2. Served(c)' = {} /\ \A d \in Clients : Served(d)' = Served(d)
        BY <1>0, <2>2, <2>3, <2>4, <4>1 DEF Served
      <4> QED
        BY <2>3, <4>1, <4>2, StageIs DEF Stage
    <3>2. CASE AcceptAndServe(c, f)
      <4>1. Main \in Threads /\ thr[Main].fd = None /\ thr' = [thr EXCEPT ![Main] =
                 [Idle EXCEPT !.pc = "recv", !.fd = f]]
        BY <3>2 DEF AcceptAndServe, Begin, Threads, IInv, HasNumber
      <4>2. /\ thr'[Main].fd = f /\ thr'[Main].pc = "recv" /\ thr'[Main].out = None
            /\ \A u \in Threads \ {Main} : thr'[u] = thr[u]
        BY <4>1 DEF Idle, IInv, TypeOK
      <4>3. f # None
        BY <1>0 DEF Names
      <4>4. Served(c)' = {Main}
        BY <1>0, <2>2, <2>3, <2>4, <4>1, <4>2, <4>3 DEF Served
      <4>5. Doing(thr'[Main]) = "idle"
        BY <4>2 DEF Doing
      <4>6. LifeStage(c)' = "idle"
        BY <2>3, <4>4, <4>5, StageIs, StageOfOne
      <4>7. ASSUME NEW d \in Clients \ {c}
            PROVE  Served(d)' = Served(d) /\ \A u \in Served(d) : thr'[u] = thr[u]
        BY <1>0, <2>2, <2>3, <4>1, <4>2 DEF Served
      <4> QED
        BY <4>6, <4>7
    <3> QED
      BY <1>1, <3>1, <3>2
  <2>7. LifeStage(c) = "waiting"
    BY <2>1, StageIs DEF Stage
  <2>8. \A d \in Clients \ {c} : LifeStage(d)' = LifeStage(d)
    BY <2>3, <2>6, StageStays
  <2>9. Life!Move(c, "waiting", "idle")
    BY <2>1, <2>6, <2>7, <2>8, OneMoves
  <2> QED
    BY <2>9 DEF LifeGoesOn, Life!Next, Life!Accept
<1>2. CASE PushTask
  <2>1. UNCHANGED <<alive, sock, owner, thr>>
    BY <1>2 DEF PushTask, HandOver
  <2>2. \A d \in Clients : Served(d)' = Served(d)
    BY <2>1 DEF Served
  <2>3. \A d \in Clients : LifeStage(d)' = LifeStage(d)
    BY <2>1, <2>2, StageStays
  <2> QED
    BY <2>1, <2>3, NoneMoves DEF LifeGoesOn
<1>3. CASE Reject
  <2>1. PICK f \in Fds : f = hand
    BY <1>0, <1>3 DEF Reject
  <2>2. Close(f) /\ alive' = alive /\ thr' = thr
    BY <1>3, <2>1 DEF Reject
  <2>3. owner[f] \in Clients
    BY <1>0, <2>1 DEF IInv, InOneHand, HandsHoldClients, Names
  <2>4. Served(owner[f]) = {}
    BY <2>1, <2>3, ServedByNone DEF LifeInv
  <2>5. LifeStage(owner[f]) = "idle"
    BY <2>3, <2>4, StageIs DEF Stage, LifeInv, Opened
  <2>6. \A u \in Threads : thr[u].fd # f
    BY <1>0, <2>1 DEF IInv, InOneHand, HandsDiffer, Serving, Names
  <2>7. MayDrop(owner[f])
    BY <1>3, <2>1 DEF Reject, MayDrop
  <2> QED
    BY <2>2, <2>3, <2>5, <2>6, <2>7, CloseEnds
<1>4. ASSUME NEW t \in Threads, Take(t) PROVE LifeGoesOn
  <2> DEFINE f == Head(tasks)
  <2>1. /\ tasks # <<>> /\ tasks \in Seq(Fds) /\ f \in Fds
        /\ 1 \in DOMAIN tasks /\ tasks[1] = f
    BY <1>4 DEF Take, IInv, TypeOK
  <2>2. /\ UNCHANGED <<alive, sock, owner>>
        /\ thr[t].fd = None
        /\ thr' = [thr EXCEPT ![t] = [Idle EXCEPT !.pc = "recv", !.fd = f]]
    BY <1>4 DEF Take, Begin, IInv, HasNumber
  <2> HIDE DEF f
  <2>3. /\ thr'[t].fd = f /\ thr'[t].pc = "recv" /\ thr'[t].out = None
        /\ \A u \in Threads \ {t} : thr'[u] = thr[u]
    BY <2>2 DEF Idle, IInv, TypeOK
  <2>4. PICK c \in Clients : c = owner[f] /\ Served(c) = {}
    <3>1. owner[f] \in Clients
      BY <2>1 DEF IInv, InOneHand, HandsHoldClients
    <3> QED
      BY <2>1, <3>1, ServedByNone DEF LifeInv
  <2>5. f # None /\ sock[c].state = "open"
    BY <1>0, <2>1, <2>4 DEF Names, LifeInv, Opened
  <2>6. Served(c)' = {t}
    BY <2>2, <2>3, <2>4, <2>5 DEF Served
  <2>7. Doing(thr'[t]) = "idle"
    BY <2>3 DEF Doing
  <2>8. LifeStage(c)' = "idle" /\ LifeStage(c) = "idle"
    <3>1. LifeStage(c)' = "idle"
      BY <2>2, <2>5, <2>6, <2>7, StageIs, StageOfOne
    <3> QED
      BY <2>4, <2>5, <3>1, StageIs DEF Stage
  <2>9. ASSUME NEW d \in Clients \ {c}
        PROVE  Served(d)' = Served(d) /\ \A u \in Served(d) : thr'[u] = thr[u]
    BY <2>2, <2>3, <2>4, <2>5 DEF Served
  <2>10. \A d \in Clients : LifeStage(d)' = LifeStage(d)
    BY <2>2, <2>8, <2>9, StageStays
  <2> QED
    BY <2>2, <2>10, NoneMoves DEF LifeGoesOn
<1> QED
  BY <1>1, <1>2, <1>3, <1>4 DEF RunStep

LEMMA ClientLives ==
  ASSUME IInv, NEW c \in Clients, ClientStep(c)
  PROVE  LifeGoesOn
<1>1. UNCHANGED <<alive, owner, thr>>
  BY DEF ClientStep, Connect, Say, Finish, Reset, Reads, ClientDoes
<1>2. \A d \in Clients : Served(d)' = Served(d)
  BY <1>1 DEF Served
<1>3. CASE Connect(c)
  <2>1. /\ sock[c].state = "none" /\ sock'[c].state = "backlog"
        /\ \A d \in Clients \ {c} : sock'[d] = sock[d]
    BY <1>3 DEF Connect, ClientDoes, IInv, TypeOK, SocketType
  <2>2. LifeStage(c) = "unborn" /\ LifeStage(c)' = "waiting"
    BY <2>1, StageIs DEF Stage
  <2>3. \A d \in Clients \ {c} : LifeStage(d)' = LifeStage(d)
    BY <1>1, <1>2, <2>1, StageStays
  <2>4. Life!Move(c, "unborn", "waiting")
    BY <1>1, <2>2, <2>3, OneMoves
  <2> QED
    BY <2>4 DEF LifeGoesOn, Life!Next, Life!Arrive
<1>4. CASE ~Connect(c)
  <2>1. \A d \in Clients : sock'[d].state = sock[d].state
    <3>1. PICK s : ClientDoes(c, s) /\ s.state = sock[c].state
      BY <1>4 DEF ClientStep, Say, Finish, Reset, Reads, IInv, TypeOK, SocketType
    <3> QED
      BY <3>1 DEF ClientDoes, IInv, TypeOK
  <2> QED
    BY <1>1, <1>2, <2>1, StageStays, NoneMoves DEF LifeGoesOn
<1> QED
  BY <1>3, <1>4

\* Steps after which numbers stand for what they did, or no longer for a client.
LEMMA SameClients ==
  ASSUME LifeInv, IInv, \A d \in Clients : sock'[d].state = sock[d].state,
         \A f \in Fds : owner'[f] \in Clients => owner'[f] = owner[f]
  PROVE  Opened' /\ OneNumber'
BY DEF LifeInv, Opened, OneNumber

\* A client's number is closed.
LEMMA ClosedNumber ==
  ASSUME LifeInv, IInv, NEW f \in Fds, Close(f)
  PROVE  Opened' /\ OneNumber'
<1>1. owner'[f] = None /\ \A g \in Fds \ {f} : owner'[g] = owner[g]
  BY ClosedIs DEF IInv
<1>2. \A d \in Clients : d # owner[f] => sock'[d] = sock[d]
  BY DEF Close, IInv, TypeOK
<1>3. None \notin Clients
  BY NamesDiffer DEF Names
<1> QED
  BY <1>1, <1>2, <1>3 DEF LifeInv, Opened, OneNumber

LEMMA RunKeepsLife ==
  ASSUME IInv, LifeInv, RunStep
  PROVE  LifeInv'
<1>1. ASSUME NEW c \in Clients, NEW f \in Fds, AcceptAndServe(c, f) \/ Accept(c, f)
      PROVE  LifeInv'
  <2>1. /\ owner' = [owner EXCEPT ![f] = c] /\ sock[c].state = "backlog"
        /\ sock' = [sock EXCEPT ![c].state = "open"]
    BY <1>1 DEF AcceptAndServe, Accept, Accepted
  <2>2. /\ \A g \in Fds \ {f} : owner'[g] = owner[g]
        /\ owner'[f] = c
        /\ sock'[c].state = "open"
        /\ \A d \in Clients \ {c} : sock'[d] = sock[d]
    BY <2>1 DEF IInv, TypeOK, SocketType
  <2>3. \A g \in Fds : owner[g] # c
    BY <2>1 DEF LifeInv, Opened
  <2>4. Opened' /\ OneNumber'
    BY <2>2, <2>3 DEF LifeInv, Opened, OneNumber
  <2>5. Answering'
    <3>1. CASE Accept(c, f)
      BY <3>1 DEF Accept, LifeInv, Answering
    <3>2. CASE AcceptAndServe(c, f)
      <4>1. /\ thr'[Main].pc = "recv" /\ thr'[Main].out = None
            /\ \A u \in Threads \ {Main} : thr'[u] = thr[u]
        BY <3>2 DEF AcceptAndServe, Begin, Idle, Threads, IInv, TypeOK
      <4> QED
        BY <4>1 DEF LifeInv, Answering
    <3> QED
      BY <1>1, <3>1, <3>2
  <2> QED
    BY <2>4, <2>5 DEF LifeInv
<1>2. CASE PushTask
  <2>1. UNCHANGED <<sock, owner, thr>>
    BY <1>2 DEF PushTask, HandOver
  <2> QED
    BY <2>1 DEF LifeInv, Opened, OneNumber, Answering
<1>3. CASE Reject
  <2>1. hand \in Fds /\ Close(hand) /\ thr' = thr
    BY <1>3 DEF Reject, IInv, TypeOK
  <2> QED
    BY <2>1, ClosedNumber DEF LifeInv, Answering
<1> QED
  BY <1>1, <1>2, <1>3 DEF RunStep

\* One thread's step leaves the other threads alone.
LEMMA AnsweringStays ==
  ASSUME LifeInv, NEW t \in Threads, \A u \in Threads \ {t} : thr'[u] = thr[u],
         thr'[t].pc \in {"recv", "parse", "page", "open"} => thr'[t].out = None,
         thr'[t].pc \in {"map", "send"} => thr'[t].out # None
  PROVE  Answering'
BY DEF LifeInv, Answering

LEMMA LocalKeepsLife ==
  ASSUME IInv, LifeInv, NEW t \in Threads, NEW local, Locally(t, local),
         local.pc \in {"recv", "parse", "page", "open"} => local.out = None,
         local.pc \in {"map", "send"} => local.out # None
  PROVE  LifeInv'
<1>1. thr'[t] = local /\ \A u \in Threads \ {t} : thr'[u] = thr[u]
  BY DEF Locally, IInv, TypeOK
<1>2. Opened' /\ OneNumber'
  BY SameClients DEF Locally
<1> QED
  BY <1>1, <1>2, AnsweringStays DEF LifeInv

LEMMA ThreadKeepsLife ==
  ASSUME IInv, LifeInv, NEW t \in Threads, ThreadStep(t)
  PROVE  LifeInv'
<1>0. /\ thr[t] \in ThreadType
      /\ thr[t].pc \in {"recv", "parse", "page", "open"} => thr[t].out = None
      /\ thr[t].pc \in {"map", "send"} => thr[t].out # None
  BY DEF IInv, TypeOK, LifeInv, Answering
<1>1. ASSUME NEW m \in Messages PROVE m # None
  BY BlockingNames
<1>2. CASE Take(t)
  <2>1. /\ UNCHANGED <<sock, owner>>
        /\ thr'[t].pc = "recv" /\ thr'[t].out = None
        /\ \A u \in Threads \ {t} : thr'[u] = thr[u]
    BY <1>2 DEF Take, Begin, Idle, IInv, TypeOK
  <2> QED
    BY <2>1, SameClients, AnsweringStays DEF LifeInv
<1>3. CASE Receive(t)
  <2> DEFINE local == [thr[t] EXCEPT !.pc = "parse",
                         !.read = IF sock[Client(t)].sent < BufferSize
                                  THEN sock[Client(t)].sent ELSE BufferSize]
  <2>1. Locally(t, local) /\ local.pc = "parse" /\ local.out = None
    BY <1>0, <1>3 DEF Receive, At, ThreadType
  <2> HIDE DEF local
  <2> QED
    BY <2>1, LocalKeepsLife
<1>4. CASE Return(t)
  BY <1>0, <1>4, LocalKeepsLife DEF Return, ThreadType
<1>5. CASE Exit
  BY <1>5 DEF Exit, LifeInv, Opened, OneNumber, Answering
<1>6. ASSUME NEW m \in Messages, Reply(t, m) PROVE LifeInv'
  BY <1>0, <1>1, <1>6, LocalKeepsLife DEF Reply, ThreadType
<1>7. CASE Parse(t)
  <2> DEFINE p == ParseContent(stream[Client(t)], thr[t])
             local == [thr[t] EXCEPT !.check = p.check, !.state = p.state,
                         !.pc = AfterParse(p.code)]
  <2>1. Locally(t, local) /\ thr[t].pc = "parse"
    BY <1>7 DEF Parse, At
  <2>2. local.out = None /\ local.pc \in {"page", "recv"}
    BY <1>0, <2>1 DEF ThreadType, AfterParse
  <2> HIDE DEF local
  <2> QED
    BY <2>1, <2>2, LocalKeepsLife
<1>8. CASE FindPage(t)
  BY <1>0, <1>8, LocalKeepsLife DEF FindPage, At, ThreadType
<1>9. ASSUME NEW f \in Fds, Open(t, f) PROVE LifeInv'
  <2>1. /\ \A g \in Fds : owner'[g] \in Clients => owner'[g] = owner[g]
        /\ sock' = sock
    BY <1>9, NamesDiffer DEF Open, IInv, TypeOK, Names
  <2>2. /\ thr'[t].pc = "send" /\ thr'[t].out = "header"
        /\ \A u \in Threads \ {t} : thr'[u] = thr[u]
    BY <1>0, <1>9 DEF Open, IInv, TypeOK, ThreadType
  <2> QED
    BY <1>1, <2>1, <2>2, SameClients, AnsweringStays DEF LifeInv, Messages
<1>10. CASE Send(t)
  <2>1. /\ owner' = owner
        /\ thr' = [thr EXCEPT ![t].pc = AfterSend(thr[t].out)]
        /\ \A d \in Clients : sock'[d].state = sock[d].state
        /\ thr[t].out # None
    BY <1>0, <1>10 DEF Send, At, IInv, TypeOK, SocketType
  <2>2. /\ thr'[t].out = thr[t].out /\ thr'[t].pc \in {"map", "close"}
        /\ \A u \in Threads \ {t} : thr'[u] = thr[u]
    BY <1>0, <2>1 DEF AfterSend, IInv, TypeOK, ThreadType
  <2> QED
    BY <2>1, <2>2, SameClients, AnsweringStays DEF LifeInv
<1>11. CASE CloseFile(t)
  <2>1. thr[t].file \in Fds /\ Close(thr[t].file) /\ thr[t].pc = "close"
    BY <1>0, <1>11 DEF CloseFile, At, ThreadType
  <2>2. thr'[t].pc = "close" /\ \A u \in Threads \ {t} : thr'[u] = thr[u]
    BY <1>0, <1>11 DEF CloseFile, At, IInv, TypeOK, ThreadType
  <2> QED
    BY <2>1, <2>2, ClosedNumber, AnsweringStays DEF LifeInv
<1>12. CASE CloseClient(t)
  <2>1. thr[t].fd \in Fds /\ Close(thr[t].fd)
    BY <1>0, <1>12 DEF CloseClient, At, ThreadType, IInv, HasNumber
  <2>2. thr'[t].pc = "idle" /\ \A u \in Threads \ {t} : thr'[u] = thr[u]
    BY <1>12 DEF CloseClient, Idle, IInv, TypeOK
  <2> QED
    BY <2>1, <2>2, ClosedNumber, AnsweringStays DEF LifeInv
<1> QED
  BY <1>2, <1>3, <1>4, <1>5, <1>6, <1>7, <1>8, <1>9, <1>10, <1>11, <1>12
     DEF ThreadStep, ReceiveEnd, StopReading, ReceiveFails, TooLarge, OpenFails, Map,
         SendFails, Messages

LEMMA ClientKeepsLife ==
  ASSUME IInv, LifeInv, NEW c \in Clients, ClientStep(c)
  PROVE  LifeInv'
<1>1. PICK s : /\ ClientDoes(c, s)
               /\ \/ s.state = sock[c].state
                  \/ sock[c].state = "none" /\ s.state = "backlog"
  BY DEF ClientStep, Connect, Say, Finish, Reset, Reads, IInv, TypeOK, SocketType
<1>2. /\ UNCHANGED <<owner, thr>> /\ sock'[c] = s
      /\ \A d \in Clients \ {c} : sock'[d] = sock[d]
  BY <1>1 DEF ClientDoes, IInv, TypeOK
<1> QED
  BY <1>1, <1>2 DEF LifeInv, Opened, OneNumber, Answering

------------------------------------------------------------------------------
(* The theorems.                                                               *)

\* Everything together is inductive.
Inductive == IInv /\ ParserHolds

LEMMA InitHolds ==
  Init => Inductive /\ OnlyResetsKill
<1> SUFFICES ASSUME Init PROVE Inductive /\ OnlyResetsKill
  OBVIOUS
<1> USE DEF Init
<1>1. TypeOK
  <2>1. Fresh("none") \in SocketType /\ Idle \in ThreadType
    BY FreshType, IdleType
  <2>2. tasks \in Seq(Fds) /\ Len(tasks) <= TaskNum
    BY EmptySeq, BlockingSizes
  <2> QED
    BY <2>1, <2>2 DEF TypeOK
<1>2. \A t \in Threads : thr[t].pc = "idle" /\ thr[t].fd = None /\ thr[t].file = None
  BY DEF Idle
<1>3. HasNumber /\ FilesAreLate
  BY <1>2 DEF HasNumber, FilesAreLate
<1>4. DOMAIN tasks = {} /\ \A f \in Fds : owner[f] = None
  BY EmptySeq
<1>5. InOneHand
  BY <1>2, <1>4, NamesDiffer
     DEF InOneHand, HandsHoldClients, HandsDiffer, ClientsInHand, Serving, Names
<1>6. FilesAreClosed
  BY <1>2, <1>4, NamesDiffer DEF FilesAreClosed, Names
<1>7. ParserHolds
  BY <1>2 DEF ParserHolds, Serving
<1> QED
  BY <1>1, <1>3, <1>5, <1>6, <1>7 DEF Inductive, IInv, OnlyResetsKill

LEMMA StepHolds ==
  Inductive /\ [Next]_vars => Inductive'
<1> SUFFICES ASSUME Inductive, [Next]_vars PROVE Inductive'
  OBVIOUS
<1> USE DEF Inductive
<1>1. CASE RunStep
  <2>1. OwnershipHolds'
    BY <1>1, AcceptSteps, PushSteps, RejectSteps DEF RunStep
  <2>2. TypeOK'
    BY <1>1, RunTypes DEF IInv
  <2> QED
    BY <1>1, <2>1, <2>2, TableParser DEF OwnershipHolds, IInv
<1>2. ASSUME NEW t \in Threads, ThreadStep(t) PROVE Inductive'
  <2>1. TypeOK'
    BY <1>2, ThreadTypes DEF IInv
  <2>2. OwnershipHolds'
    BY <1>2, RequestSteps, TakeSteps, OpenSteps, CloseSteps DEF ThreadStep
  <2>3. ParserHolds'
    BY <1>2, RequestParser, TableParser DEF ThreadStep
  <2> QED
    BY <2>1, <2>2, <2>3 DEF OwnershipHolds, IInv
<1>3. ASSUME UNCHANGED <<stream, owner, hand, tasks, thr>>, TypeOK' PROVE Inductive'
  <2>1. SameHands /\ HasNumber' /\ FilesAreLate'
    BY <1>3 DEF SameHands, IInv, HasNumber, FilesAreLate
  <2>2. ParserHolds'
    BY <1>3, ParsersKept DEF Serving
  <2> QED
    BY <1>3, <2>1, <2>2, SameHandsKeep DEF IInv
<1>4. ASSUME NEW c \in Clients, ClientStep(c) PROVE Inductive'
  <2>1. UNCHANGED <<stream, owner, hand, tasks, thr>>
    BY <1>4
       DEF ClientStep, Connect, Say, Finish, Reset, Reads, ClientDoes, kernelVars
  <2> QED
    BY <1>3, <1>4, <2>1, ClientTypes DEF IInv
<1>5. CASE UNCHANGED vars
  <2>1. TypeOK'
    BY <1>5 DEF vars, kernelVars, TypeOK, IInv
  <2> QED
    BY <1>3, <1>5, <2>1 DEF vars, kernelVars
<1> QED
  BY <1>1, <1>2, <1>4, <1>5 DEF Next, Terminated

LEMMA AllHolds == Spec => []Inductive
BY InitHolds, StepHolds, PTL DEF Spec

\* The variables stay in their domains, however many clients, threads and numbers
\* there are.
THEOREM TypeCorrect == Spec => []TypeOK
<1>1. Inductive => TypeOK
  BY DEF Inductive, IInv
<1> QED
  BY <1>1, AllHolds, PTL

\* Run and the threads of its pool never close a number that has been given to
\* another client, serve a client twice, or forget one.
THEOREM OneHand == Spec => []InOneHand
<1>1. Inductive => InOneHand
  BY DEF Inductive, IInv
<1> QED
  BY <1>1, AllHolds, PTL

\* do_request closes the page's file whichever way it returns.
THEOREM FilesClosed == Spec => []FilesAreClosed
<1>1. Inductive => FilesAreClosed
  BY DEF Inductive, IInv
<1> QED
  BY <1>1, AllHolds, PTL

\* However the recvs of do_request cut its input, a whole request in the buffer is served,
\* unless the parser has stopped before it at a line that it refused; and nothing else is.
THEOREM WholeRequestsServed == Spec => []ServedWhenWhole
<1>1. Inductive => ServedWhenWhole
  BY DEF Inductive, ParserHolds, ParserAt, ServedWhenWhole, LeftBehind
<1> QED
  BY <1>1, AllHolds, PTL

\* The exit of do_request and the SIGPIPE of send_all need a client that has reset
\* its connection: the numbers they are about stand for clients, and nothing else
\* ends the process.
THEOREM ResetsKill == Spec => []OnlyResetsKill
<1>1. Inductive /\ OnlyResetsKill /\ [Next]_vars => OnlyResetsKill'
  <2> SUFFICES ASSUME Inductive, OnlyResetsKill, [Next]_vars, ~alive'
               PROVE  \E c \in Clients : sock'[c].peer = "reset"
    BY DEF OnlyResetsKill
  <2>1. CASE ~alive
    <3>1. sock' = sock
      BY <2>1 DEF Next, RunStep, AcceptAndServe, Accept, Accepted, PushTask, Reject,
           ThreadStep, Take, Receive, ReceiveEnd, ReceiveFails, TooLarge, Parse, FindPage,
           OpenFails, Open, Map, Send, SendFails, CloseFile, CloseClient, At,
           ClientStep, Connect, Say, Finish, Reset, Reads, ClientDoes, Terminated, vars
    <3> QED
      BY <2>1, <3>1 DEF OnlyResetsKill
  <2>2. CASE alive
    <3>1. PICK t \in Threads : Exit /\ (ReceiveFails(t) \/ SendFails(t))
      BY <2>2 DEF Next, RunStep, AcceptAndServe, Accept, Accepted, PushTask, Reject,
           ThreadStep, Take, Receive, ReceiveEnd, StopReading, ReceiveFails, TooLarge,
           Parse, FindPage, OpenFails, Open, Map, Send, SendFails, CloseFile, CloseClient,
           Return, Reply, Locally, ClientStep, Connect, Say, Finish, Reset, Reads,
           ClientDoes, Terminated, vars
    <3>2. Serving(t)
      BY <3>1 DEF ReceiveFails, SendFails, At, Inductive, IInv, HasNumber, Serving
    <3>3. Client(t) \in Clients
      BY <3>2 DEF Inductive, IInv, InOneHand, HandsHoldClients
    <3>4. sock' = sock /\ sock[Client(t)].peer = "reset"
      BY <3>1, <3>3 DEF Exit, ReceiveFails, SendFails
    <3> QED
      BY <3>3, <3>4
  <2> QED
    BY <2>1, <2>2
<1> QED
  BY <1>1, InitHolds, AllHolds, PTL DEF Spec

LEMMA StepLives ==
  Inductive /\ LifeInv /\ Leaving /\ [Next]_vars => LifeInv' /\ LifeGoesOn
<1> SUFFICES ASSUME Inductive, LifeInv, Leaving, [Next]_vars PROVE LifeInv' /\ LifeGoesOn
  OBVIOUS
<1>0. IInv
  BY DEF Inductive
<1>1. CASE RunStep
  BY <1>0, <1>1, RunKeepsLife, HandLives
<1>2. ASSUME NEW t \in Threads, ThreadStep(t) PROVE LifeInv' /\ LifeGoesOn
  <2>1. LifeGoesOn
    BY <1>0, <1>2, ThreadLives, HandLives DEF ThreadStep
  <2> QED
    BY <1>0, <1>2, <2>1, ThreadKeepsLife
<1>3. ASSUME NEW c \in Clients, ClientStep(c) PROVE LifeInv' /\ LifeGoesOn
  BY <1>0, <1>3, ClientKeepsLife, ClientLives
<1>4. CASE UNCHANGED vars
  <2>1. UNCHANGED <<alive, sock, owner, thr>>
    BY <1>4 DEF vars
  <2>2. \A d \in Clients : Served(d)' = Served(d)
    BY <2>1 DEF Served
  <2>3. LifeGoesOn
    BY <2>1, <2>2, StageStays, NoneMoves DEF LifeGoesOn
  <2> QED
    BY <2>1, <2>3 DEF LifeInv, Opened, OneNumber, Answering
<1> QED
  BY <1>1, <1>2, <1>3, <1>4 DEF Next, Terminated

\* A step keeps this of a thread whose client it leaves alone.
LEMMA LeavingStays ==
  ASSUME IInv, Leaving,
         \A u \in Threads :
           \/ HasLeft(u)'
           \/ /\ thr'[u].pc = thr[u].pc /\ thr'[u].out = thr[u].out /\ thr'[u].fd = thr[u].fd
              /\ Serving(u) => /\ owner'[thr[u].fd] = Client(u)
                               /\ sock'[Client(u)].peer = sock[Client(u)].peer
  PROVE  Leaving'
BY DEF Leaving, HasLeft, Serving, Client

\* Close takes nothing from a thread that has another number.
LEMMA CloseLeaves ==
  ASSUME IInv, LifeInv, NEW f \in Fds, Close(f), NEW u \in Threads, Serving(u), thr[u].fd # f
  PROVE  owner'[thr[u].fd] = Client(u) /\ sock'[Client(u)].peer = sock[Client(u)].peer
<1>1. thr[u].fd \in Fds /\ Client(u) \in Clients
  BY DEF IInv, TypeOK, ThreadType, InOneHand, HandsHoldClients, Serving
<1>2. owner[f] # Client(u)
  BY <1>1 DEF LifeInv, OneNumber, Client
<1> QED
  BY <1>1, <1>2 DEF Close, Client, IInv, TypeOK

LEMMA RunLeaves ==
  ASSUME IInv, LifeInv, Leaving, RunStep
  PROVE  Leaving'
<1>0. \A u \in Threads : Serving(u) => thr[u].fd \in Fds /\ Client(u) \in Clients
  BY DEF IInv, TypeOK, ThreadType, InOneHand, HandsHoldClients, Serving
<1>1. ASSUME NEW c \in Clients, NEW f \in Fds, AcceptAndServe(c, f) \/ Accept(c, f)
      PROVE  Leaving'
  <2>1. /\ owner[f] = None /\ owner' = [owner EXCEPT ![f] = c]
        /\ sock' = [sock EXCEPT ![c].state = "open"]
    BY <1>1 DEF AcceptAndServe, Accept, Accepted, LowestFree
  <2>2. \A d \in Clients : sock'[d].peer = sock[d].peer
    BY <2>1 DEF IInv, TypeOK, SocketType
  <2>3. \A u \in Threads : Serving(u) => owner'[thr[u].fd] = Client(u)
    BY <1>0, <2>1, NamesDiffer DEF Client, Names, IInv, TypeOK
  <2>4. CASE Accept(c, f)
    BY <1>0, <2>2, <2>3, <2>4, LeavingStays DEF Accept
  <2>5. CASE AcceptAndServe(c, f)
    <3>1. /\ thr'[Main].pc = "recv"
          /\ \A u \in Threads \ {Main} : thr'[u] = thr[u]
      BY <2>5 DEF AcceptAndServe, Begin, Idle, Threads, IInv, TypeOK
    <3> QED
      BY <1>0, <2>2, <2>3, <3>1, LeavingStays DEF HasLeft
  <2> QED
    BY <1>1, <2>4, <2>5
<1>2. CASE PushTask
  BY <1>2, LeavingStays DEF PushTask, HandOver, Client
<1>3. CASE Reject
  <2>1. hand \in Fds /\ Close(hand) /\ thr' = thr
    BY <1>3 DEF Reject, IInv, TypeOK
  <2>2. \A u \in Threads : Serving(u) => thr[u].fd # hand
    BY DEF IInv, InOneHand, HandsDiffer
  <2> QED
    BY <2>1, <2>2, CloseLeaves, LeavingStays
<1> QED
  BY <1>1, <1>2, <1>3 DEF RunStep

LEMMA LocalLeaves ==
  ASSUME IInv, Leaving, NEW t \in Threads, NEW local, Locally(t, local),
         \/ local.pc # "close" \/ local.out # None
         \/ local.fd = thr[t].fd /\ sock[Client(t)].peer # "up"
  PROVE  Leaving'
<1>1. thr'[t] = local /\ \A u \in Threads \ {t} : thr'[u] = thr[u]
  BY DEF Locally, IInv, TypeOK
<1>2. HasLeft(t)'
  BY <1>1 DEF HasLeft, Locally, Client
<1> QED
  BY <1>1, <1>2, LeavingStays DEF Locally, Client

LEMMA ThreadLeaves ==
  ASSUME IInv, LifeInv, Leaving, NEW t \in Threads, ThreadStep(t)
  PROVE  Leaving'
<1>0. /\ thr[t] \in ThreadType
      /\ thr[t].pc \in {"map", "send"} => thr[t].out # None
  BY DEF IInv, TypeOK, LifeInv, Answering
<1>1. \A u \in Threads : Serving(u) => thr[u].fd \in Fds /\ Client(u) \in Clients
  BY DEF IInv, TypeOK, ThreadType, InOneHand, HandsHoldClients, Serving
<1>2. CASE Take(t)
  <2>1. /\ UNCHANGED <<sock, owner>>
        /\ thr'[t].pc = "recv"
        /\ \A u \in Threads \ {t} : thr'[u] = thr[u]
    BY <1>2 DEF Take, Begin, Idle, IInv, TypeOK
  <2> QED
    BY <2>1, LeavingStays DEF HasLeft, Client
<1>3. CASE Receive(t)
  <2> DEFINE local == [thr[t] EXCEPT !.pc = "parse",
                         !.read = IF sock[Client(t)].sent < BufferSize
                                  THEN sock[Client(t)].sent ELSE BufferSize]
  <2>1. Locally(t, local) /\ local.pc = "parse"
    BY <1>0, <1>3 DEF Receive, ThreadType
  <2> HIDE DEF local
  <2> QED
    BY <2>1, LocalLeaves
<1>4. CASE ReceiveEnd(t)
  BY <1>0, <1>4, LocalLeaves DEF ReceiveEnd, StopReading, Return, ThreadType
<1>5. CASE Exit
  BY <1>5, LeavingStays DEF Exit, Client
<1>6. ASSUME NEW m \in Messages, Reply(t, m) PROVE Leaving'
  BY <1>0, <1>6, LocalLeaves DEF Reply, ThreadType
<1>7. CASE Parse(t)
  <2> DEFINE p == ParseContent(stream[Client(t)], thr[t])
             local == [thr[t] EXCEPT !.check = p.check, !.state = p.state,
                         !.pc = AfterParse(p.code)]
  <2>1. Locally(t, local) /\ local.pc # "close"
    BY <1>0, <1>7 DEF Parse, ThreadType, AfterParse
  <2> HIDE DEF local
  <2> QED
    BY <2>1, LocalLeaves
<1>8. CASE FindPage(t)
  BY <1>0, <1>8, LocalLeaves DEF FindPage, ThreadType
<1>9. ASSUME NEW f \in Fds, Open(t, f) PROVE Leaving'
  <2>1. /\ \A u \in Threads : Serving(u) => owner'[thr[u].fd] = Client(u)
        /\ sock' = sock
    BY <1>1, <1>9, NamesDiffer DEF Open, LowestFree, Names, Client, IInv, TypeOK
  <2>2. thr'[t].pc = "send" /\ \A u \in Threads \ {t} : thr'[u] = thr[u]
    BY <1>0, <1>9 DEF Open, IInv, TypeOK, ThreadType
  <2> QED
    BY <2>1, <2>2, LeavingStays DEF HasLeft
<1>10. CASE Send(t)
  <2>1. /\ owner' = owner
        /\ thr' = [thr EXCEPT ![t].pc = AfterSend(thr[t].out)]
        /\ \A d \in Clients : sock'[d].peer = sock[d].peer
        /\ thr[t].out # None
    BY <1>0, <1>10 DEF Send, At, IInv, TypeOK, SocketType
  <2>2. /\ thr'[t].out = thr[t].out
        /\ \A u \in Threads \ {t} : thr'[u] = thr[u]
    BY <1>0, <2>1 DEF IInv, TypeOK, ThreadType
  <2> QED
    BY <1>1, <2>1, <2>2, LeavingStays DEF HasLeft, Client
<1>11. CASE SendFails(t)
  BY <1>0, <1>5, <1>11, LocalLeaves DEF SendFails, At, Return, ThreadType
<1>12. CASE CloseFile(t)
  <2>1. thr[t].file \in Fds /\ Close(thr[t].file) /\ owner[thr[t].file] = t
    BY <1>0, <1>12 DEF CloseFile, ThreadType, IInv, FilesAreClosed
  <2>2. \A u \in Threads : Serving(u) => thr[u].fd # thr[t].file
    BY <1>1, <2>1, NamesDiffer DEF Client, Names
  <2>3. \A u \in Threads : /\ thr'[u].pc = thr[u].pc /\ thr'[u].out = thr[u].out
                           /\ thr'[u].fd = thr[u].fd
    BY <1>12 DEF CloseFile, IInv, TypeOK, ThreadType
  <2> QED
    BY <2>1, <2>2, <2>3, CloseLeaves, LeavingStays
<1>13. CASE CloseClient(t)
  <2>1. thr[t].fd \in Fds /\ Close(thr[t].fd)
    BY <1>0, <1>13 DEF CloseClient, At, ThreadType, IInv, HasNumber
  <2>2. thr'[t].pc = "idle" /\ \A u \in Threads \ {t} : thr'[u] = thr[u]
    BY <1>13 DEF CloseClient, Idle, IInv, TypeOK
  <2>3. \A u \in Threads \ {t} : Serving(u) => thr[u].fd # thr[t].fd
    BY DEF IInv, InOneHand, HandsDiffer, Serving
  <2> QED
    BY <2>1, <2>2, <2>3, CloseLeaves, LeavingStays DEF HasLeft
<1> QED
  BY <1>2, <1>3, <1>4, <1>5, <1>6, <1>7, <1>8, <1>9, <1>10, <1>11, <1>12, <1>13
     DEF ThreadStep, ReceiveFails, TooLarge, OpenFails, Map, Messages

LEMMA StepLeaves ==
  Inductive /\ LifeInv /\ Leaving /\ [Next]_vars => Leaving'
<1> SUFFICES ASSUME Inductive, LifeInv, Leaving, [Next]_vars PROVE Leaving'
  OBVIOUS
<1>0. IInv /\ \A u \in Threads : Serving(u) => Client(u) \in Clients
  BY DEF Inductive, IInv, InOneHand, HandsHoldClients
<1>1. ASSUME NEW c \in Clients, ClientStep(c) PROVE Leaving'
  <2>1. UNCHANGED <<owner, thr>>
    BY <1>1 DEF ClientStep, Connect, Say, Finish, Reset, Reads, ClientDoes
  <2>2. \A d \in Clients : sock[d].peer # "up" => sock'[d].peer # "up"
    BY <1>0, <1>1 DEF ClientStep, Connect, Say, Finish, Reset, Reads, ClientDoes,
         IInv, TypeOK, SocketType
  <2> QED
    BY <1>0, <2>1, <2>2 DEF Leaving, HasLeft, Serving, Client
<1>2. CASE UNCHANGED vars
  BY <1>0, <1>2, LeavingStays DEF vars, Client
<1> QED
  BY <1>0, <1>1, <1>2, RunLeaves, ThreadLeaves DEF Next, Terminated

\* The life that the later server gives its connections (ConnectionLife) the earlier
\* ones give theirs, too: do_request answers a client once at most, and a connection is
\* closed when it has been answered, when its client has finished or reset it, or when the
\* pool is full, never while a request is incomplete or malformed.
THEOREM ServesOneLife == Spec => LivesLikeConnections
<1>1. Init => LifeInv /\ Leaving /\ Life!Init
  <2> SUFFICES ASSUME Init PROVE LifeInv /\ Leaving /\ Life!Init
    OBVIOUS
  <2>1. LifeInv /\ Leaving
    BY NamesDiffer
       DEF Init, Names, Idle, LifeInv, Opened, OneNumber, Answering, Leaving, HasLeft
  <2>2. \A c \in Clients : LifeStage(c) = "unborn"
    BY StageIs DEF Init, Fresh, Stage
  <2> QED
    BY <2>1, <2>2 DEF Init, Life!Init
<1>2. Inductive /\ LifeInv /\ Leaving /\ [Next]_vars => LifeInv' /\ Leaving' /\ LifeGoesOn
  BY StepLives, StepLeaves
<1> QED
  BY <1>1, <1>2, AllHolds, PTL DEF Spec, LivesLikeConnections, Life!SafeSpec, LifeGoesOn
=============================================================================
