---------------------------- MODULE ServerProcess ----------------------------
(* The process around the logic layer: main() (v3/logic/main.cpp), Server::Init *)
(* and the stop signals, SIGINT and SIGTERM.  A signal that is sent to a        *)
(* process goes to any thread that does not block it, and there kills the       *)
(* process.  A thread inherits the mask of the one that creates it: what main() *)
(* blocks before it constructs the server is blocked in the logic threads, too, *)
(* and stays pending until the event loop reads it from the signalfd.           *)
EXTENDS LogicLayer

VARIABLES
  place,    \* where main() is
  blocked,  \* the main thread's mask blocks the stop signals
  exposed,  \* the logic threads whose mask does not
  signal,   \* a stop signal is pending
  killed,   \* one has killed the process
  listens,  \* clients reach the listening socket, and epoll watches it
  watched,  \* epoll watches the signalfd
  stop      \* Server::_running = false

logicVars   == vars
signalVars  == <<blocked, exposed, signal, killed, watched, stop>>
processVars == <<place, signalVars, listens>>
serverVars  == <<logicVars, processVars>>

ServerInit ==
  /\ Init
  /\ place = "start"
  /\ blocked = FALSE /\ exposed = {}
  /\ signal = FALSE /\ killed = FALSE
  /\ listens = FALSE /\ watched = FALSE
  /\ stop = FALSE

------------------------------------------------------------------------------
(* main() up to the event loop.                                               *)

At(p) == place = p /\ ~killed
GoTo(from, to) == At(from) /\ place' = to

\* Daemonize, if it was asked for.  The process is the one that goes on; when a
\* fork or setsid fails it returns from main().
Daemonize ==
  /\ GoTo("start", "mask") \/ GoTo("start", "exited")
  /\ UNCHANGED <<logicVars, signalVars, listens>>

\* Mutant: it is left to InitSignalEvent to block them.
BlockLater == UNCHANGED blocked

\* pthread_sigmask in main().
Block == blocked' = TRUE

BlockSignals ==
  /\ GoTo("mask", "socket")
  /\ Block
  /\ UNCHANGED <<logicVars, exposed, signal, killed, watched, stop, listens>>

\* The constructor of Server::_listensock: without a socket it calls exit.
CreateSocket ==
  /\ GoTo("socket", "construct") \/ GoTo("socket", "exited")
  /\ UNCHANGED <<logicVars, signalVars, listens>>

\* Then that of Server::_logic, with the threads.
ConstructLogic ==
  /\ At("construct")
  /\ ConstructPool \/ PushWorkerLoop
  /\ exposed' = IF blocked THEN exposed ELSE created'
  /\ UNCHANGED <<place, blocked, signal, killed, watched, stop, listens>>

Constructed ==
  /\ stage = "up" /\ asked = WorkerNum
  /\ GoTo("construct", "init")
  /\ UNCHANGED <<logicVars, signalVars, listens>>

\* A socket that Bind has failed on listens at a port that no client knows.
Reachable(bound, listening) == bound /\ listening

\* Server::Init prints what fails, the account store's Init included, and goes on.
InitListen ==
  /\ GoTo("init", "initSignal")
  /\ \E bound, listening, added \in BOOLEAN :
       listens' = (Reachable(bound, listening) /\ added)
  /\ UNCHANGED <<logicVars, signalVars>>

\* InitSignalEvent: there may be no signalfd, or no place in epoll for it.
InitSignalEvent ==
  /\ GoTo("initSignal", "ready")
  /\ blocked' = TRUE
  /\ watched' \in BOOLEAN
  /\ UNCHANGED <<logicVars, exposed, signal, killed, stop, listens>>

Serve ==
  /\ GoTo("ready", "serve")
  /\ StartRun
  /\ UNCHANGED <<signalVars, listens>>

------------------------------------------------------------------------------
(* The event loop, and the way out of main().                                 *)

TakeRequest ==
  /\ At("serve") /\ listens /\ ~stop
  /\ PushRequest
  /\ UNCHANGED processVars

GiveAnswer ==
  /\ At("serve")
  /\ CollectResult
  /\ UNCHANGED processVars

\* HandleSignalEvent, once: the batch it is part of is the last.
ReadSignal ==
  /\ At("serve") /\ main = "run"
  /\ signal /\ watched /\ ~stop
  /\ signal' = FALSE
  /\ stop' = TRUE
  /\ UNCHANGED <<logicVars, place, blocked, exposed, killed, watched, listens>>

\* while (_running)
LeaveRun ==
  /\ At("serve") /\ stop
  /\ StopRun
  /\ UNCHANGED processVars

DestroyServer ==
  /\ At("serve")
  /\ Destroy
  /\ UNCHANGED processVars

Return ==
  /\ main = "done"
  /\ GoTo("serve", "exited")
  /\ UNCHANGED <<logicVars, signalVars, listens>>

------------------------------------------------------------------------------
SignalArrives ==
  /\ place # "exited" /\ ~killed /\ ~signal
  /\ IF blocked /\ exposed = {}
     THEN signal' = TRUE /\ UNCHANGED killed
     ELSE killed' = TRUE /\ UNCHANGED signal
  /\ UNCHANGED <<logicVars, place, blocked, exposed, watched, stop, listens>>

LogicThread(t) ==
  /\ place # "exited" /\ ~killed
  /\ ThreadStep(t)
  /\ UNCHANGED processVars

WokenForNothing(t) ==
  /\ place # "exited" /\ ~killed
  /\ Spurious(t)
  /\ UNCHANGED processVars

\* The process has ended.
Ended == place = "exited" \/ killed

StartServer == \/ Daemonize \/ BlockSignals \/ CreateSocket \/ ConstructLogic
               \/ Constructed \/ InitListen \/ InitSignalEvent \/ Serve
StopServer == ReadSignal \/ LeaveRun \/ DestroyServer \/ Return

ServerNext ==
  \/ StartServer \/ TakeRequest \/ GiveAnswer \/ StopServer
  \/ \E t \in Threads : LogicThread(t) \/ WokenForNothing(t)
  \/ SignalArrives
  \/ Ended /\ UNCHANGED serverVars

ServerSpec == ServerInit /\ [][ServerNext]_serverVars

\* The threads are scheduled, handlers return; requests and signals may come.
ServerFairSpec == /\ ServerSpec
                  /\ WF_serverVars(StartServer)
                  /\ WF_serverVars(GiveAnswer)
                  /\ WF_serverVars(StopServer)
                  /\ \A t \in Threads : WF_serverVars(LogicThread(t))

------------------------------------------------------------------------------
\* From the moment main() has blocked the stop signals none of them kills the
\* process, whatever thread is there to receive it: the server always gets to
\* finish the requests it has taken.
StopIsNotDeath == killed => place \in {"start", "mask"}

\* A stop signal, whenever it came, ends a server that has its signalfd: the loop
\* is left, what is queued is done, the threads are joined.
SignalEndsServer == signal /\ watched ~> main = "done"
==============================================================================
