# Broken_Webserver in TLA+

A specification of the web server of this repository: TLA+ modules of its parts, TLC
configurations that check them on small instances, and theorems about them that TLAPS
proves for every instance. `v3/` is the current server (the repository's README calls it
`v4`); `v1/` and `v2/` are earlier versions, modelled as well. Line numbers are those of the repository.

```
tlc -workers 2 -config MCReactorBatch.cfg MCReactor    # a run: module and cfg below
tlapm ReactorProofs.tla                                # a proof
```

`PROJECT.json` lists the runs, the lines of source behind every definition (`map`), the
hazards with the properties that cover them, and for each property a mutant: an operator
beside the real one (commented "Mutant:") with a plausible bug, with which TLC finds the
property violated.

## 1. The system

One process. The **main thread** runs an epoll loop over the listening socket, a signalfd,
a timerfd and the clients; a pool of **logic threads** (4) resolves requests; between them
are two queues of shared pointers to connections.

```
 client --accept/recv--> Server (epoll loop) --parse--> HttpRequestParse
                            |    ^                          
             _logic_requests|    |_logic_results        
                            v    |                          
                  LogicProcessor / Threadpool --Resolve--> PageService --> MysqlStore --> MySQL
                            
        Server::HandleLogicResult --BuildResponseData--> files; send, retry by timer, close
```

| Component | State | Operations | Talks to | What is hard | What makes it correct |
|---|---|---|---|---|---|
| **Event loop** `serverapp::Server` (v3/server) | `_running`, the batch of events, `_processing`, pending response, retry budget and deadline of each connection | `Run`, `HandleSignalEvent`, `HandleTimerEvent`, `AcceptConnections`, `DispatchConnection`, `HandleLogicResult`, `TryFlushPendingResponse`, `UpdateConnectionEvents`, `CloseConnection` | everything | connections are found by descriptor number, numbers are recycled at once, events are handled in batches; edge-triggered readiness is told once; results wait for a timeout; partial writes and retries | one request in flight per connection; a number stays with its owner; no edge is lost; every request is answered, every answer ends; a stop signal stops |
| **Connection table, epoll** (v3/io) | descriptor -> `Connection`; `_registered_in_epoll`; the kernel's interest and ready lists | `Add`, `Get`, `Erase`, `List`; `Add`, `Mod`, `Del`, `Wait` | Server | two records of one fact (the flag and the kernel) | they agree; no socket is leaked |
| **RequestQueue** (v3/logic) | deque, `_closed`, mutex, condition variable | `Push`, `Pop`, `TryPop`, `Close` | Server, logic threads | signals meet threads in any order; `Close` with values queued | FIFO, no lost wakeup, drained before refused |
| **Threadpool** (v3/logic) | task list (bounded), `_is_exit`, threads | constructor, `PushTask`, `TakeTask`, `worker`, `End` | LogicProcessor | end during sleep, work and creation | `End` returns and nothing runs after it |
| **LogicProcessor** (v3/logic) | the pool, references to both queues | constructor, `WorkerLoop`, destructor | Server's members | two nested shutdowns; order of destruction | each request answered once; the stop ends; a handler finds its objects alive |
| **Request parser** (v3/http) | state, `check_index`, `start_line`, `read_index`, request | `parse_content`, `parse_line`, ... | Server | a request comes in pieces cut anywhere | accepts whole requests, refuses malformed ones, waits only for more |
| **PageService, response builder** | the site's files | `Resolve`, `BuildResponseData` | MysqlStore, file system | files change between `stat`, `open` and `read`, in two threads; a form's texts are decoded and shown again | a whole response, the file closed; what is typed is what is asked and shown |
| **MysqlStore** | a mutex; the database | `Init`, `LoginOrCreate` | MySQL | three statements that are one step only under the mutex; failures; other processes | login is atomic, and what is answered is true |
| **The process**: `main`, `Daemonize`, `Server::Init` (v3/logic, v3/server) | the signal mask, the signalfd, what of `Init` succeeded | start, `Init`, `Run`, destruction | everything | signals may come at any moment, to any thread; `Init` prints what fails and goes on | a stop signal ends the server and never kills it |
| **v2, v1** `http::Httpserver` (v2/broken_src, v1/broken_src) | the pool's tasks (numbers of descriptors); in each thread the local variables of `do_request` | `Run`, `PushTask`, `thread_entry`, `do_request`, `parse_content`, `send`, `send_all` | the pool (v2), the kernel | a number goes from the main thread to a task to a thread and is used again as soon as it is closed; blocking calls; a full pool; errors that end the process | a number is in one hand; files are closed; what is served is a request, however it came; a connection ends when its client does |
| Text helpers, HTML and SQL files | none of their own | | | | |
| stale copies in v3/broken_*, epollpra | earlier versions, exercises | | | | |

## 2. The modules

| Module | Models | Abstract specification |
|---|---|---|
| `Reactor` | v3/server, v3/io: the whole loop, and the kernel as far as it uses it | `ConnectionLife` |
| `RequestQueue` | v3/logic/request_queue.h, with a condition variable that may lose, share and invent wakeups | |
| `Threadpool` | v3/logic/Threadpool.cpp | `RequestQueue`: its hand-over of tasks |
| `LogicLayer` | logic.cpp: pool, queues and worker loops composed, construction to destruction | `JobService` |
| `ServerProcess` | main.cpp with `Daemonize`, `Server::Init`, with `LogicLayer` inside | `JobService`, through `LogicLayer` |
| `HttpParse` | v3/http/httpprase.cpp | operators that say what a request is (`Complete`, `Malformed`, `Body`) |
| `FormCodec` | page_service.cpp `UrlDecode`, `ParseFormBody`, `HtmlEscape` | the browser's `Submitted` and `Displayed`, which they must invert |
| `PageService` | page_service.cpp `Resolve`, http_handler.cpp `BuildResponseData`; uses `FormCodec` | |
| `AccountStore` | mysql_store.cpp | `LoginService` |
| `BlockingServer` | v2/broken_src and v1/broken_src: httpserver.cpp, httpprase.cpp | `ConnectionLife` (its safety part) |
| `...Proofs` | theorems about `Reactor`, `RequestQueue`, `Threadpool`, `ServerProcess` (with `LogicLayer`), `AccountStore`, `HttpParse`, `PageService` (with `FormCodec`), `BlockingServer` | |
| `MC...` | instances for TLC | |

### Reactor

*State.* The kernel's part: `sock` (each client's socket: what the peer did, units unread,
room to send), `owner` (which socket a descriptor number stands for), `interest` and `rdy`
(epoll's mask and its edge-triggered ready list), `timerUp`, `sigUp`. The server's:
`store` (ConnectionStore), `conn` (Connection objects), the two queues, `worker`. The main
thread's control state: `pc`, `cur`, `batch` (events of the last `epoll_wait` still to be
handled), `snapshot` (the list `HandleTimerEvent` copied), `running`. One history variable,
`received`.

*Actions.* Each action is what the main thread does between two points at which another
thread, the kernel or a client can be seen to act: `EpollWait`; one action per kind of
event; `DispatchRead` (recv until EAGAIN, with the checks on 0 and on a full buffer), then
`ParseIncomplete`/`ParseBad`/`ParseComplete`; `FlushSend`, `FlushBlocked`, `FlushFails`,
`FlushNothing` for the turns of `TryFlushPendingResponse`; `ArmConnection` for what
`UpdateConnectionEvents` does, and `CloseUnarmed` when its epoll_ctl has failed;
`TimerSkip`/`TimerGiveUp`/`TimerRetry` for a connection of the snapshot. `accept` may fail
at any moment (`AcceptDone`). A number that has become a database socket takes what is sent
to it and may have anything to read. `CloseConnection` is an operator used by all that call it, and closes the
number whether or not the table knows it (server.cpp:542), as the code does.
Descriptors are given out lowest first, to `accept` and to the MySQL client in a logic
thread alike.

*Abstractions.* Bytes are counted in units; contents are not kept. A deadline is a bit that
may come to be passed at any time. `ParseComplete` and `ParseBad` leave open when a request
is complete beyond its number of units: `HttpParse` says that. A logic thread's resolving
is one step with or without a database socket held meanwhile: `AccountStore` and
`PageService` have its insides. The queues are sequences with atomic `Push` and `Pop`:
`RequestQueue` shows that this is what they are. Each client connects once; more clients
stand for more connections.

*Abstract specification.* `ConnectionLife` gives each connection its stages. It may be closed
without an answer only while it has an `excuse`, which each server defines (`MayDrop`):
here that its client has left or has sent too much, that epoll_ctl has failed, or that a
hangup event for its number is in the batch.

### RequestQueue, Threadpool, LogicLayer

A critical section is one action (the mutex makes it so); `pthread_cond_wait` puts the
thread in `waiting`, a signal moves one to `woken`, from where it contends for the mutex
with everyone else; `SpuriousWakeup` moves one without a signal. Values and tasks are
numbered as they are pushed. `LogicLayer` has main()'s construction and destruction of
`Server`'s members in their order (server.h:50-61) as the states of `main`.

### ServerProcess

`place` is where main() is, from `Daemonize` to its return; every call that may fail may
fail here, and goes on, returns or exits as the code does. The logic threads take the
mask of the main thread at the moment they are created (`exposed` are those that did not
inherit the block). `SignalArrives` is a stop signal to the process: it kills it if any
thread can receive it, else it is pending until `ReadSignal`. Only the two stop signals
are told of, and they are one: nothing treats them differently. The event loop is reduced
to what the logic layer sees of it (`TakeRequest`, `GiveAnswer`, `ReadSignal`,
`LeaveRun`); `Reactor` has the rest, with the signalfd as one of its descriptors.

### HttpParse

The buffer is a sequence of units: CR, LF, other characters, and whole lines that the
parser tells apart. `Receive` appends any part of what the client has still to say and runs
`ParseContent`, which is `parse_content`'s loop; indices count from 1. The loop's turns are
a recursive function (`Turns`), one turn for each line passed, and as many at most as there
are units in the buffer; `LastTurn` is the one that returns. The request line
"GET" stands for all methods without a body (GET, PUT, DELETE), anything unknown for the
refused ones.

### PageService

One request from `Resolve` (a logic thread) to the end of `BuildResponseData` (the main
thread), one action per system call, while files are replaced, removed, rewritten or made
unreadable. Contents are counted in units; pages built in memory are one unit long and
name a user. A login form's texts go from the browser through the request's body, as
`FormCodec` has it: encoded by the browser, parted and decoded by the server, and escaped
into the page that answers. The account store's answer is any that `LoginService` allows.

### AccountStore

Threads of several processes, one mutex per process, one action per SQL statement. A
statement or connection may fail before or, for the INSERT, after it took effect. A process
may be killed, or lose its connection to the database (`LoseInsert`); an INSERT it had sent
may be carried out later, when its call is over and the mutex free (`orphans`). Names that differ only in
case mean one account (`Account`: the column's collation). `LoginService` has the login as
one step; it lets a caller whose very account *another process* or such a late INSERT
creates during the call be told that the password is wrong (`overtaken`, a history variable
of `AccountStore`), because the code does that: its mutex is not shared, and is released
before the INSERT is known to have failed. Nothing else is let go.

### BlockingServer

`version` chooses at the start whether the main thread serves a connection itself (v1) or
hands its number to the pool (v2). `owner` is the process's descriptor table; `hand` is the
main thread's number between `accept` and `PushTask`, `tasks` the numbers in the pool's
queue, `thr` where each thread is in `do_request` with the local variables it has there
(`read_index`, `check_index`, the parser's state, the file). One action is one system call
or one call of the parser. A client says lines, which arrive one at a time and are received
in any pieces; it may finish, reset, read slowly or not at all, at any moment. `recv`
failing is `exit(0)`, a send to a client that has gone fails or kills by SIGPIPE, as
nothing in v1 and v2 handles it. The pool's queue is one step to each side: its code is
that of `Threadpool`. The parser is that of `httpprase.cpp` on lines: a bad request line
is passed and reading goes on, a broken line is met again and again. As an implementation
of `ConnectionLife` its connections are closed without an answer only when their client has
finished or reset them, or when the pool is full (`MayDrop`). The lines' own
characters are the business of `HttpParse`.

## 3. The runs

| Run | Instance | Shows |
|---|---|---|
| `reactor_batch` | 2 clients, 1 logic thread with database logins, 2 numbers for 3 sockets, batches of up to 4 events, response of two sends, retry budget 1; up to the step of `reactor_database` (`CONSTRAINT DatabasesSpared`) | `TypeOK`; `OneRequestInFlight`, `PipelineIsPinned`, `ResponseToOwnClient`, `NoSocketLeak`, `RegisteredMatchesKernel`, `NoStrandedConnection`, `NoLostEdge`, `ReadFindsIdle` survive stale events; `ClientKeptWhileAlive` and `OnlyStaleWritesBlock` say what stale events can do and that nothing else does it |
| `reactor_solo` | 1 client, requests in two parts, responses of 1 or 3, budget 2, logins, fairness | implements `ConnectionLife`; `InputIsRead` |
| `reactor_stuck` | 2 clients, batches | **violated**: `MainNeverBlocksOnItself` |
| `reactor_database` | 2 clients, batches, logins: `reactor_batch` without its constraint and without retries | **violated**: `LogicKeepsItsDatabase` |
| `threadpool` | 3 threads, any of which may fail to be created, queue of 2, 4 tasks, fairness | `QuietAfterEnd`, `EndReturns`, `TasksHandedOver` |
| `server_process` | 3 threads, 2 requests, a signal at any moment, fairness | of the request queue in the server `FIFO`, `NoLostWakeup`, `NothingLeftBehind`; `RequestsConserved`, `AllLoopsStart`, implements `JobService` (`DoesEveryJob`); `StopIsNotDeath`, `SignalEndsServer` |
| `logic_shutdown` | 2 threads, 3 requests, stopped by a signal | **violated**: `HandlerUsesLivePages` |
| `http_parse` | heads of up to two header lines, one line end damaged at most, plain bodies of up to 2 units, cut anywhere | `AcceptedIsComplete`, `RefusedIsMalformed`, `WaitsOnlyForMore` |
| `http_parse_body` | POST with a body of two units, line ends among them | **violated**: `WaitsOnlyForMore` |
| `page_service` | a page, two error pages, a directory; two changes of the site at any moment; user names and passwords of up to two of nine characters, and "%2B" | `TypedIsKept`, `ResponseIsWhole`, `NoFileLeft` |
| `account_store` | 2 threads of the server, 1 of another process that may be killed, connections that break, one account, two passwords, fairness | implements `LoginService`; `OutcomeIsTrue` |
| `blocking_server` | v1 and v2 (2 threads, a queue of 1), 2 clients, 2 numbers for up to 4 sockets and files, a buffer of 4 lines, fairness | `InOneHand`, `FilesAreClosed`, `ServedWhenWhole`, `OnlyResetsKill`; implements `ConnectionLife`; `EndsWithItsClient` |

*Why the bounds are enough.* A number can be recycled to another client, or to a database
socket, with two clients and two numbers; a third would only repeat it. With `MaxEvents` 4
every event of two clients and the three special descriptors that matters to order is in
one batch. The constraint of `reactor_batch` cuts off what follows the one step that takes a
number from its owner; that step itself is the subject of `reactor_database`. With two
numbers for two clients and a database `accept` runs out of them. The run of one client
leaves out only what other clients can do to it, which is what `reactor_batch` is about.
Responses of two or three sends are partial, blocked, retried and completed. A buffer one
unit longer than a request overflows. Three threads on a condition variable
distinguish signal from broadcast, and allow one to take what another was woken for. Two
changes of a site are enough to change the path and the open file separately. Texts of two
characters put every character with a meaning before and behind every other, and three
make a text that decoding twice would spoil; a form has two fields. Three
callers contend within a process and across two. In `blocking_server` a number that is
closed goes to the other client or to a file at once, the queue of one is full with one
task while two threads serve, and a client's four lines fill the buffer; a garbage line
before the request makes the parser come back, a broken one never lets it finish.
Symmetry is used for clients in the safety runs only.

*Deadlock* is checked except in `http_parse*` and `page_service`, where a request simply
ends (a process that has ended stutters in `ServerProcess`), and the runs of two clients
of `Reactor`, where the main thread does get stuck, which is `reactor_stuck`.

*Fairness.* Weak fairness of the main thread as a whole (`MainStep`), of each logic thread,
of the timer and of time passing; of each thread of a queue, pool or store. The scheduler
gives that to every runnable thread (`ServerFairSpec`: to main() on its way up, in the
loop and on its way out, and to each logic thread), and no part of the code waits for another but through
the modelled means. The database is assumed to answer or to break the connection
(`FairSpec` of `AccountStore`); a hung database is not excluded by the code, which sets no
timeout. Clients, operators, and whoever calls `Push` or `End` owe nothing. No strong
fairness is used; `EndsWithItsClient` says of what clients owe that it is assumed
(`ClientsGoOn`, in the property itself): they come to an end and read what they are sent. `LoginService` promises only that somebody goes on, as a mutex is not
fair.

### What the violated runs show

- **reactor_stuck.** `TryFlushPendingResponse` holds `connection->_mutex` when it calls
  `UpdateConnectionEvents` (server.cpp:445), which locks it again. It happens when a write
  event finds nothing to write: an event left over in the batch from a connection closed a
  moment ago, whose number `accept` has given to a new client. It is the only way:
  `OnlyStaleWritesBlock` (checked, and proved for every instance) excludes all other
  callers. A stop signal that comes later is not read any more: that the event loop heeds
  one is claimed only as far as `ServerProcess` has the loop (`SignalEndsServer`).
- **reactor_database.** `CloseConnection` closes the number it is given, whether or not
  the table knows it (server.cpp:533-542). An earlier event of the batch has closed a
  connection, a logic thread's MySQL connection has got its number, and the hangup event
  that the batch still has for it closes the database socket. What the login then meets,
  and whom the number goes to next, is not followed any further.
- **logic_shutdown.** `Server` declares `_page_service` and `_http_handler` after `_logic`,
  so they are destroyed first, while logic threads still run the handler that uses them
  (server.h:58).
- **http_parse_body.** Lines are looked for in a body, too (httpprase.cpp:194), and what
  lies before the end of one is forgotten: a POST whose body is a CR LF, received at once
  with its head, is waited for for ever.

### What the documents say otherwise

- README.md:103 and 211 name `/register` and `/auth` beside `/login`; `Resolve` knows
  `/login` only (page_service.cpp:196, 268), as does `PageService`.
- v2's httpprase.cpp:20 says that parsing line by line keeps apart what TCP delivers in one
  piece. After a line it refuses, `do_request` goes back to recv (v2 httpserver.cpp:137),
  and a whole request that came with that line waits in its buffer until the client says
  more. `ServedWhenWhole` has this as the one case in which a whole request waits.
- README.md:198-200 says the SQL script makes database `broken_server` with table `users`
  and a demo account; `init_login_schema.sql` makes `storiesdb.game_accounts`, empty.

## 4. The proofs

For every value of the constants. Assumed are only the modules' `ASSUME`s, which TLC
evaluates in the runs: descriptor numbers are natural numbers, finitely many and distinct
from the special ones (`FdAssumption`, `BlockingSizes`), names are distinct
(`NameAssumption`, `BlockingNames`), sizes are positive and a request is smaller than the
buffer (`SizeAssumption`), the sets of threads are finite and not empty
(`ThreadsAssumption`, `LogicAssumption`), limits are natural numbers, `None` is none of the
values it stands beside (`AccountStoreAssumption`, `SiteAssumption`), streams are made of the model's units
(`StreamsAssumption`) and typed texts of its characters (`SiteAssumption`). What `RequestQueue`
needs (finitely many consumers, a bound that is a number) is a hypothesis of its theorems,
met by whoever instantiates it. Two theorems about `HttpParse` have a hypothesis, too:
`PlainStreams`, that no body contains a line end. TLC evaluates it on the run's streams
(`MCStreamsArePlain`); without it they are false of the code, as `http_parse_body` shows.

| Theorem | Says | Argument |
|---|---|---|
| `ReactorProofs!TypeCorrect` | `Spec => []TypeOK` | Typing is not inductive alone: an action that works on `cur`, or on the connection of an event, needs it to have a number. `Located` adds that (a stored connection remembers its number, and while the main thread works on one it is stored). Lemmas on what `CloseConnection`, `UpdateConnectionEvents` and the queue operations return; one lemma per group of actions. |
| `ReactorProofs!RequestsExclusive` | `Spec => []OneRequestInFlight` | `Marked`: whatever is in the pipeline is marked `_processing`. A request enters only through a connection that is not marked, and leaves the mark only when its result is handled. Holds with stale events and logins, too: they disturb numbers, not the queues. |
| `ReactorProofs!NoSocketIsLeaked`, `PipelineStaysPinned`, `AnswersReachTheirClient`, `FlagMatchesKernel`, `NoneIsStranded`, `NoEdgeIsLost`, `ReadsFindIdle` | `SparingSpec => []NoSocketLeak` and so on: `PipelineIsPinned`, `ResponseToOwnClient`, `RegisteredMatchesKernel`, `NoStrandedConnection`, `NoLostEdge`, `ReadFindsIdle`, with batches of any size. `SparingSpec` is `Spec` with `[]DatabasesSpared` | None is inductive, nor are the seven together. `Ownership`, below. |
| `...!ClientsAreKept` | `SparingSpec => ClientKeptWhileAlive`: which stale event can drop a client, and that no other does | each way to close a number is looked at, from `Ownership`: who has the number, and what its connection waits for. |
| `...!OnlyStaleWritesBlockIt` | `SparingSpec => []OnlyStaleWritesBlock` | `Blocked`: what the main thread flushes for a result or a retry has something left to write (`Ownership`), and what a write event finds without is watched for input. |
| `...!ServesOneLife` | `SparingSpec => Life!SafeSpec`: the safety part of `ConnectionLifecycle`, with the reasons of `MayDrop` | refinement, step by step: a step moves one connection by one step of `ConnectionLife`, or none. `Opened`: the sockets that numbers stand for are open ones. |
| `RequestQueueProofs!FirstInFirstOut` | `[]FIFO` | `Numbered`: lengths and positions of `popped` and `queue` add up to `pushed`. |
| `RequestQueueProofs!WakeupsSuffice` | `[]NoLostWakeup` | each Push adds a value and moves a waiting thread; each thread that leaves `woken` takes a value or finds the queue empty. Counted with the cardinality of `woken`. |
| `RequestQueueProofs!CloseLosesNothing` | `[]NothingLeftBehind` | a refusal sees an empty closed queue, and a closed queue gets nothing more. |
| `ThreadpoolProofs!TypeCorrect`, `EndIsQuiet` | `[]TypeOK`, `[]QuietAfterEnd` | `Ending`: a thread has exited only with `_is_exit` set, no task queued and none running. |
| `ThreadpoolProofs!HandoverImplementsQueue` | the pool's hand-over implements `RequestQueue` | step by step: every action maps to one of the queue's or a stutter. |
| `ThreadpoolProofs!PoolWakeupsSuffice` | `[]NoLostWakeup` of the pool | from that refinement and the queue's theorem. |
| `ServerProcessProofs!RunsLogicLayer` | `ServerSpec => Spec` of `LogicLayer` | every step of the process is one of the logic layer's or leaves its variables alone. |
| `...!RequestsStayInOrder`, `ServerWakesUp`, `StopLeavesNothing` | `[]FIFO`, `[]NoLostWakeup`, `[]NothingLeftBehind` in the server | the logic layer's request queue is a `RequestQueue` (`UsesQueue`), whose theorems carry over. |
| `...!RequestsAreConserved` | `[]RequestsConserved` | `Placed`, `Counted`: the requests taken are each with one thread, in the results or collected, without repetition; with the queue's numbering that is all of them. |
| `...!DoesJobs` | `ServerSpec => Jobs!SafeSpec` | refinement. The hard step is the last one, to "ended": all threads have left the pool, so no request is being handled; that none is queued needs a WorkerLoop to have ended, hence that one was begun, although `PushTask` may refuse some: `Loops` has one queued, running or ended from the first push on. |
| `...!SignalsDoNotKill` | `[]StopIsNotDeath` | `Shielded`: from `BlockSignals` on neither main() nor a thread it has created can receive the signals. |
| `AccountStoreProofs!TypeCorrect` | `[](TypeOK /\ CallInv)` | mutual exclusion (whoever is past the lock has the mutex) needs what a call has at each phase: `Asked`, `Answered`. |
| `...!OutcomesAreTrue` | `[]OutcomeIsTrue` | no step changes a row that is there (`RowsStay`), so what was true when it was answered stays so. |
| `...!ImplementsLogin` | `Spec => Service!SafeSpec` | refinement. `Unmatched`: behind the first SELECT the password still does not match, or another process or a late INSERT has overtaken the call; a thread of the same process would need the mutex. |
| `PageServiceProofs!FilesAreClosed`, `ResponsesAreWhole` | `[]NoFileLeft`, `[]ResponseIsWhole` | a file is open only while it is read (`FileInv`), which the site's changes do not touch. |
| `...!TypedStays` | `[]TypedIsKept`, for texts of any length | The server inverts the browser. `RoundTrip`: `UrlDecode(Encoded(text)) = text`; each character's code begins at a place of the encoded text (`EncodedAt`), where the decoding yields that character and goes on at the next place; what it yields from the k-th place on is the text from there. `FormIs`: an encoded text has neither `&` nor `=`, so the form has two ends, and two pairs. `DisplayedIs`: the entities are distinct and none is a character. The invariant (`TypedInv`) follows the name from the form to the response. |
| `HttpParseProofs!TypeCorrect`, `RefusalsAreJust` | `[]TypeOK`, `[]RefusedIsMalformed` | `Parsing`: while the parser is in the head (`InHead`) it begins at the line after the ones it has passed (`Passed`): those end where lines of the stream end, without a damaged line end among them; the first of them is the known request line it remembers, the length it remembers is the last one announced, and none was negative. Each turn keeps that or meets a line that is a defect of the stream. In the body nothing is refused. |
| `...!AcceptsWholeRequests`, `WaitsAreJust` | `PlainStreams` implies `[]AcceptedIsComplete`, `[]WaitsOnlyForMore` | each call of `parse_content` on a plain stream has one of five ends (`Outcome`): it waits in the head and has looked at all there is, or in the body for more of it (`InBody`: nothing moves `start_line` there), or it took the request, bare or with its body, or refused it. Each tells what the buffer is: complete, malformed or neither. |
| `BlockingServerProofs!TypeCorrect`, `OneHand`, `FilesClosed` | `[]TypeOK`, `[]InOneHand`, `[]FilesAreClosed` | one inductive invariant: who closes a number has one, a thread that begins had none, a file is opened by a thread that has no file. |
| `...!WholeRequestsServed` | `[]ServedWhenWhole` | wherever in the buffer a request begins, and however it was cut: a thread that waits with it has stopped before it at a line the parser refused (`StoppedAtRefused`). What the parser knows of the lines it has passed: no request has begun, or one has and not ended, from the line on at which it goes on after a refused one (`LeftBehind`). Its loops are reasoned about through the least line that stops them, which exists because `<` on `Nat` is well-founded (`LeastExists`); nothing is unrolled, so lines, cuts and buffer are of any length. |
| `...!ResetsKill` | `[]OnlyResetsKill` | from the same invariant: the steps that end the process need a number that stands for no client, which there is not, or a reset. |
| `...!ServesOneLife` | `Spec => LivesLikeConnections`: `BlockingServer` implements the safety part of `ConnectionLife`, which `Reactor` implements as well: closed when answered, when the client has finished or reset it or when the pool is full, never for what it has sent or not sent | refinement, one lemma per actor: main thread, do_request, clients. That a thread which leaves without an answer has a client that has left is `Leaving`. Needed besides (`LifeInv`): a number that stands for a client stands for an open one (`Opened`) and no other number does (`OneNumber`), and do_request has its answer exactly from the end of its request on (`Answering`). |

*The invariant of the event loop.* `Ownership` says four things. Of each number (`Sound`):
the connection table and the process's descriptor table agree on it (`Owned`), epoll has
it with the mask that its connection waits for, unless somebody carries on with the
connection (`Watched`), an event of the batch that is for it can still be acted on or is
harmless (`Batched`), and readiness is not lost (`Edge`). Of each connection at the logic
threads (`Pinned`): its number is its own, out of epoll and without events. Of the
connection the main thread has in hand (`Held`) and the list the timer works on
(`Visiting`). And of the database sockets (`DatabasesOwned`). There is a lemma for each
group of actions, and lemmas on `CloseConnection` and `UpdateConnectionEvents`, which most
of them call. Of all steps one does not preserve it: `CloseConnection` for a hangup event
that is stale, on a number that a logic thread has as its database socket by now
(server.cpp:542 closes the number whether or not the table knows it). `DatabasesSpared`
says that no such event is waiting; that is why it is in the theorems' hypothesis
(`SparingSpec`). The code does not exclude the step: `reactor_database` shows it, and the
theorems speak of the behaviours up to there. `TypeCorrect` and `RequestsExclusive` need no
such hypothesis.

*Recursive functions.* `Turns`, the two loops of `FormCodec` and `FlattenSeq` are recursive
functions. That such a function has the values its equation says is proved from the least
argument up to which there is none (`LeastExists`: `<` on `Nat` is well-founded), for it
could be extended by one; what a loop computes is proved in the same way, from the least
turn at which it is otherwise. That is induction over numbers without the library's
induction theorems, which the provers can not instantiate.

Model-checked only: liveness, as fairness and ENABLED are out of the prover's reach. That
is `InputIsRead`, `EndReturns`, `AllLoopsStart`, `SignalEndsServer`,
`EndsWithItsClient`, and what `ConnectionLifecycle`, `DoesEveryJob` and `LoginIsAtomic` say
of fairness beyond their safety parts. Of the invariants and safety properties that the
passing runs check there is none without a theorem.

## 5. What is not modelled

- `v3/broken_src` and `v3/broken_include`: the text of v2's server, parser and pool once
  more (and the headers that v3 uses: `Mutexlock.h` and `Condition.h` are modelled in the
  queue and the pool). The makefile builds nothing of them.
- The pages that v1 and v2 serve: which MIME type and which file a target has, what a header
  says. When a file changes between `static_file`'s `stat` and `send`'s `mmap` their
  response is not whole; `BlockingServer` counts messages only (listed as a hazard).
- `src/epollpra`: two practice programs that share no code with the server.
- What a page says besides the user's name; header texts, MIME types, `trim` and `to_lower`:
  no property is about them. Hexadecimal digits of `FormCodec` are those of the nine
  characters' codes, in the capitals that browsers write.
- Of `Daemonize` more than whether it succeeds: it runs before there is anything else.
- Other signals than the two that stop the server.
- What follows when a stale hangup event has closed a number that is a logic thread's
  database socket (server.cpp:542). The step itself is in the model and `reactor_database`
  shows it; `Reactor` goes on from there (the number is free for the next client, and
  mysql_close closes it once more), but that part is not claimed about. Two things
  are left out of it: epoll reports nothing of a database socket that the loop has armed by mistake,
  and recv on one, which is a blocking socket, always returns.
- The file that `BuildResponseData` opens takes no number of `Reactor`'s descriptor table:
  it is opened and closed within one call in the main thread, so only logic threads that
  open a connection meanwhile could tell.
- A line that begins with a NUL byte ends a head like an empty one (httpprase.cpp:130): the
  units of `HttpParse` have no NUL (listed as a hazard).
- That the page service is destroyed under a running handler is undefined behaviour; in
  `LogicLayer` the handler returns all the same, and `logic_shutdown` shows that it happens.
- `Threadpool::End(false)` and a second `End` have no caller. `LogicProcessor` without a
  handler: `Server::Init` always sets one before `Run`.
- Values of a Content-Length beyond an int; the contents of responses; time in ms.
- A result file replaced by a longer one is sent up to the old size with status 200: whole
  by `ResponseIsWhole`, and nothing promises more.

## 6. Plan

The number of runs and properties is kept small, so a new one replaces one that is contained
in another (the queue's own run went when `server_process` came to check its properties in
the server, for any number of consumers by theorem).

Each invariant the runs check is a theorem now, and so is the safety part of each
refinement. What is left:

1. *Weaken hypotheses.* The theorems on the event loop's numbers speak of the behaviours up
   to a stale hangup event for a database socket. How much of `Ownership` survives that
   step, for the clients that it does not concern, could be said without the hypothesis.
2. *Compose.* `ParseComplete` and `ParseBad` of `Reactor` leave open when they happen. A
   module of a connection with its parser inside would let `WaitsAreJust` carry over.
