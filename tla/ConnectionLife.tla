---------------------------- MODULE ConnectionLife ----------------------------
(* What the server promises about the life of each connection, without a      *)
(* word about descriptors, epoll, queues or threads:                           *)
(*                                                                             *)
(*   unborn -> waiting -> idle <-> reading -> logic -> replying -> closed      *)
(*                                                                             *)
(* A connection is answered at most once and dies with its answer.  Nothing    *)
(* closes it while its request is read or with the logic threads, and while it *)
(* is idle only what excuses that; what does, is for the server to say.  As    *)
(* long as the server is up an idle connection may wait for ever, but a        *)
(* request is answered and an answer comes to an end.                          *)
(* (Server::AcceptConnections, DispatchConnection, HandleLogicResult,          *)
(* TryFlushPendingResponse and CloseConnection of v3/server/server.cpp, seen   *)
(* from one client.)                                                           *)

CONSTANT Conns

VARIABLES
  life,   \* the stage each connection is in
  up,     \* the server has not been told to stop
  excuse  \* which connections may be closed without an answer: read here, never set

vars == <<life, up>>

Stages == {"unborn", "waiting", "idle", "reading", "logic", "replying", "closed"}

LifeTypeOK == /\ life \in [Conns -> Stages]
              /\ up \in BOOLEAN
              /\ excuse \in [Conns -> BOOLEAN]

Init == life = [c \in Conns |-> "unborn"] /\ up = TRUE

Move(c, from, to) == /\ life[c] = from
                     /\ life' = [life EXCEPT ![c] = to]
                     /\ UNCHANGED up

Arrive(c)  == Move(c, "unborn", "waiting")
Accept(c)  == Move(c, "waiting", "idle")
\* Input arrived.
Read(c)    == Move(c, "idle", "reading")
\* It is not a whole request yet.
Resume(c)  == Move(c, "reading", "idle")
\* It is one.
Submit(c)  == Move(c, "reading", "logic")
\* It is no request at all.
Refuse(c)  == Move(c, "reading", "replying")
Answer(c)  == Move(c, "logic", "replying")
Complete(c) == Move(c, "replying", "closed")
\* Closed without an answer, and not in the middle of anything.
Drop(c)    == excuse[c] /\ Move(c, "idle", "closed")

Stop == up /\ up' = FALSE /\ UNCHANGED life

Next == \/ Stop
        \/ \E c \in Conns : \/ Arrive(c) \/ Accept(c) \/ Read(c) \/ Resume(c)
                            \/ Submit(c) \/ Refuse(c) \/ Answer(c)
                            \/ Complete(c) \/ Drop(c)

SafeSpec == Init /\ [][Next]_vars

Spec == /\ SafeSpec
        /\ \A c \in Conns : /\ WF_vars(up /\ (Resume(c) \/ Submit(c) \/ Refuse(c)))
                            /\ WF_vars(up /\ Answer(c))
                            /\ WF_vars(up /\ Complete(c))
==============================================================================
