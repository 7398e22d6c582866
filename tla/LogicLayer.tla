------------------------------ MODULE LogicLayer ------------------------------
(* servercore::LogicProcessor (v3/logic/logic.cpp) with the thread pool and    *)
(* the two queues it works on, from their construction to their destruction as *)
(* members of serverapp::Server (v3/server/server.h:50-61).                    *)
(*                                                                             *)
(* Each task of the pool is one WorkerLoop, which ends when Pop on the request *)
(* queue says that it is closed and empty.  main() is the other thread: it     *)
(* constructs the members in order, runs the event loop, which pushes requests *)
(* and takes results, and destroys the members in reverse order.  When it does *)
(* what, and what may stop it, is in ServerProcess.                            *)
EXTENDS Naturals, Sequences, FiniteSets

CONSTANTS
  Threads,     \* the logic threads
  TaskNum,     \* limit of the pool's task queue
  MaxRequests  \* bound of a model: how many requests are pushed at most

ASSUME LogicAssumption == /\ IsFiniteSet(Threads) /\ Threads # {}
                          /\ TaskNum \in Nat \ {0} /\ MaxRequests \in Nat

VARIABLES
  \* the pool
  stage, created, tasks, isExit, waiting, woken, exited, running, pushed, begun,
  \* the request queue, and who was refused by it
  requests, closed, reqWaiting, reqWoken, refused, submitted, taken,
  \* the logic layer
  busy,      \* the request each thread is handling, 0 for none
  results,   \* _logic_results
  collected, \* history: the results the event loop took
  asked,     \* WorkerLoops the constructor has asked the pool to run
  main,      \* where the main thread is
  pages      \* _page_service has not been destroyed

poolVars    == <<stage, created, tasks, isExit, waiting, woken, exited, running,
                 pushed, begun>>
requestVars == <<requests, closed, reqWaiting, reqWoken, refused, submitted, taken>>
vars == <<poolVars, requestVars, busy, results, collected, asked, main, pages>>

WorkerNum == Cardinality(Threads)

Pool == INSTANCE Threadpool WITH MaxPushed <- WorkerNum
Requests == INSTANCE RequestQueue
              WITH Consumers <- Threads, MaxPushed <- MaxRequests,
                   queue <- requests, waiting <- reqWaiting, woken <- reqWoken,
                   pushed <- submitted, popped <- taken

Places == {"construct", "run", "destroyPages", "close", "destroyPool", "done"}

\* Every variable stays in its domain, those of the parts included.
TypeOK ==
  /\ Pool!TypeOK /\ Requests!TypeOK
  /\ busy \in [Threads -> 0..MaxRequests]
  /\ results \in Seq(1..MaxRequests)
  /\ collected \in SUBSET (1..MaxRequests)
  /\ asked \in 0..WorkerNum
  /\ main \in Places
  /\ pages \in BOOLEAN

Init ==
  /\ Pool!Init /\ Requests!Init
  /\ busy = [t \in Threads |-> 0]
  /\ results = <<>> /\ collected = {}
  /\ asked = 0 /\ main = "construct" /\ pages = TRUE

------------------------------------------------------------------------------
(* The main thread.                                                          *)

\* Threadpool's constructor.  (When pthread_create fails the exception leaves
\* main() and there is no server: Threadpool has that case.)
ConstructPool ==
  /\ main = "construct"
  /\ \/ Pool!Constructed \/ \E t \in Threads : Pool!CreateThread(t)
  /\ UNCHANGED <<requestVars, busy, results, collected, asked, main, pages>>

\* LogicProcessor's constructor: one WorkerLoop for each thread.  It ignores what
\* PushTask returns: with a full queue a WorkerLoop is lost for good.
PushWorkerLoop ==
  /\ main = "construct" /\ stage = "up"
  /\ asked < WorkerNum
  /\ asked' = asked + 1
  /\ \/ Pool!PushTask
     \/ ~Pool!HasRoom /\ UNCHANGED poolVars
  /\ UNCHANGED <<requestVars, busy, results, collected, main, pages>>

StartRun ==
  /\ main = "construct"
  /\ stage = "up"
  /\ asked = WorkerNum
  /\ main' = "run"
  /\ UNCHANGED <<poolVars, requestVars, busy, results, collected, asked, pages>>

\* Server::DispatchConnection pushes a request.
PushRequest ==
  /\ main = "run"
  /\ Requests!Push
  /\ UNCHANGED <<poolVars, busy, results, collected, asked, main, pages>>

\* Server::DrainLogicResults takes a result.
CollectResult ==
  /\ main = "run"
  /\ results # <<>>
  /\ collected' = collected \cup {Head(results)}
  /\ results' = Tail(results)
  /\ UNCHANGED <<poolVars, requestVars, busy, asked, main, pages>>

Step(from, to) == main = from /\ main' = to

\* Run returns, main() returns, ~Server begins: _http_handler goes first.
StopRun ==
  /\ Step("run", "destroyPages")
  /\ UNCHANGED <<poolVars, requestVars, busy, results, collected, asked, pages>>

\* ~PageService.
DestroyPages ==
  /\ Step("destroyPages", "close")
  /\ pages' = FALSE
  /\ UNCHANGED <<poolVars, requestVars, busy, results, collected, asked>>

\* Mutant: the request queue is not closed.
CloseForgotten ==
  /\ Step("close", "destroyPool")
  /\ UNCHANGED <<poolVars, requestVars, busy, results, collected, asked, pages>>

\* The body of ~LogicProcessor.
CloseRequests ==
  /\ Step("close", "destroyPool")
  /\ Requests!Close
  /\ UNCHANGED <<poolVars, busy, results, collected, asked, pages>>

\* Then its member _threadpool: End(true), which joins.
EndPool ==
  /\ main = "destroyPool"
  /\ Pool!End
  /\ UNCHANGED <<requestVars, busy, results, collected, asked, main, pages>>

JoinPool ==
  /\ Step("destroyPool", "done")
  /\ Pool!Join
  /\ UNCHANGED <<requestVars, busy, results, collected, asked, pages>>

------------------------------------------------------------------------------
(* The logic threads: worker() of the pool, WorkerLoop inside it.            *)

PoolStep(t) ==
  /\ Pool!TakeStep(t)
  /\ UNCHANGED <<requestVars, busy, results, collected, asked, main, pages>>

InLoop(t) == running[t] # 0 /\ busy[t] = 0 /\ t \notin refused

\* Pop returns a request: the handler Server::Init installed is called.
LoopTakes(t) ==
  /\ InLoop(t)
  /\ Requests!PopTakes(t)
  /\ busy' = [busy EXCEPT ![t] = Head(requests)]
  /\ UNCHANGED <<poolVars, results, collected, asked, main, pages>>

LoopWaits(t) ==
  /\ InLoop(t)
  /\ Requests!PopWaits(t) \/ Requests!PopRefuses(t)
  /\ UNCHANGED <<poolVars, busy, results, collected, asked, main, pages>>

\* Mutant: a stopping server drops what its threads have worked out.
PushedUnlessClosed(t) == IF closed THEN results ELSE Append(results, busy[t])

\* _logic_results is never closed: Push accepts.
WithResult(t) == Append(results, busy[t])

\* The handler has returned, its result is pushed.
LoopAnswers(t) ==
  /\ busy[t] # 0
  /\ results' = WithResult(t)
  /\ busy' = [busy EXCEPT ![t] = 0]
  /\ UNCHANGED <<poolVars, requestVars, collected, asked, main, pages>>

\* WorkerLoop returns to worker().
LoopEnds(t) ==
  /\ t \in refused
  /\ Pool!TaskReturns(t)
  /\ UNCHANGED <<requestVars, busy, results, collected, asked, main, pages>>

Spurious(t) ==
  \/ /\ Pool!SpuriousWakeup(t)
     /\ UNCHANGED <<requestVars, busy, results, collected, asked, main, pages>>
  \/ /\ Requests!SpuriousWakeup(t)
     /\ UNCHANGED <<poolVars, busy, results, collected, asked, main, pages>>

------------------------------------------------------------------------------
ThreadStep(t) == \/ PoolStep(t) \/ LoopTakes(t) \/ LoopWaits(t)
                 \/ LoopAnswers(t) \/ LoopEnds(t)
Construct == ConstructPool \/ PushWorkerLoop \/ StartRun
Destroy == DestroyPages \/ CloseRequests \/ EndPool \/ JoinPool

Terminated == main = "done" /\ UNCHANGED vars

Next == \/ Construct \/ PushRequest \/ CollectResult \/ StopRun \/ Destroy
        \/ \E t \in Threads : ThreadStep(t) \/ Spurious(t)
        \/ Terminated

Spec == Init /\ [][Next]_vars

------------------------------------------------------------------------------
\* The logic threads take the requests in the order the event loop pushed them.
FIFO == Requests!FIFO

\* No thread sleeps in Pop while a request is queued for which nobody is on the
\* way, nor in a queue that is closed.
NoLostWakeup == Requests!NoLostWakeup

\* No WorkerLoop comes to its end before all requests are taken.
NothingLeftBehind == Requests!NothingLeftBehind

Elements(q) == {q[i] : i \in DOMAIN q}
Busy == {busy[t] : t \in Threads} \ {0}

\* Every request is in exactly one place on its way to the event loop: queued,
\* with one thread, in the result queue, or collected.
RequestsConserved ==
  /\ 1..submitted = Elements(requests) \cup Busy \cup Elements(results) \cup collected
  /\ Len(requests) + Cardinality({t \in Threads : busy[t] # 0})
       + Len(results) + Cardinality(collected) = submitted

\* The handler calls _page_service.Resolve: the page service it was given by
\* reference must still exist.
HandlerUsesLivePages == Busy # {} => pages

\* The logic layer does every job once and stops only when all are done.
Jobs == INSTANCE JobService
          WITH MaxJobs <- MaxRequests,
               todo <- Elements(requests) \cup Busy,
               done <- Elements(results) \cup collected,
               state <- CASE main = "done" -> "ended"
                          [] closed /\ main # "done" -> "stopping"
                          [] OTHER -> "open"
DoesEveryJob == Jobs!Spec

\* Each thread comes to run a WorkerLoop: the pool serves with all its threads.
AllLoopsStart == main = "run" ~> (\A t \in Threads : running[t] # 0) \/ main # "run"
==============================================================================
