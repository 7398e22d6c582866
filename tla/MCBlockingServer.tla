-------------------------- MODULE MCBlockingServer --------------------------
(* A small instance of BlockingServer for TLC.                                *)
EXTENDS BlockingServer, TLC

CONSTANTS c1, c2

\* The first client sends a request.  The second one has a line before it that is
\* none, and another one behind it with which the buffer is full, or stops at a broken
\* line.  Either may finish behind any of its lines.
MCStreams ==
  {c1 :> <<"request", "empty">> @@ c2 :> s :
     s \in {<<"garbage", "request", "empty", "header">>, <<"request", "broken">>}}
==============================================================================
