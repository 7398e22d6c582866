--------------------------- MODULE MCAccountStore ---------------------------
(* A small instance of AccountStore: two threads of the server, and another    *)
(* process on the same database, which may be killed.  All of them want the    *)
(* same account: calls for different accounts share nothing but the mutex.     *)
EXTENDS AccountStore, TLC

CONSTANTS t1, t2, t3, server, other

MCHost == t1 :> server @@ t2 :> server @@ t3 :> other
MCAccount == "Ann" :> "ann"
==============================================================================
