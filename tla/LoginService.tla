---------------------------- MODULE LoginService ----------------------------
(* What a caller of MysqlStore::LoginOrCreate is promised: as if in one step,  *)
(* the password is compared with the account's, or the account is created.     *)
(* The step is one for the callers of one process.  A caller that is overtaken *)
(* by another process, which creates the very account, or by a creation that   *)
(* was given up and comes late, may hear that its password is wrong although   *)
(* it is not.                                                                  *)
EXTENDS Naturals

CONSTANTS Callers, Host, Names, Passwords,
          Account,  \* which account a name means; names that differ in case share one
          None

Accounts == {Account[n] : n \in Names}

VARIABLES
  accounts,  \* the password of every account there is
  calls      \* what each caller asked, and its outcome once it is decided

vars == <<accounts, calls>>

NoCall == [asked |-> FALSE, name |-> None, password |-> None, outcome |-> None,
           overtaken |-> FALSE]

Init ==
  /\ accounts \in [Accounts -> Passwords \cup {None}]
  /\ calls = [t \in Callers |-> NoCall]

Asking(n, pw) == [asked |-> TRUE, name |-> n, password |-> pw, outcome |-> None,
                  overtaken |-> FALSE]

\* A name of None stands for a name or password that is empty or too long.
Ask(t) ==
  /\ ~calls[t].asked
  /\ \E n \in Names \cup {None}, pw \in Passwords \cup {None} :
       calls' = [calls EXCEPT ![t] = Asking(n, pw)]
  /\ UNCHANGED accounts

Undecided(t) == calls[t].asked /\ calls[t].outcome = None

Decided(t, outcome) == [calls EXCEPT ![t].outcome = outcome]

Decide(t, outcome) == Undecided(t) /\ calls' = Decided(t, outcome)

\* cs, with the undecided calls for account a of other processes than h overtaken.
Overtaking(cs, a, h) ==
  [t \in Callers |->
     IF /\ Host[t] # h /\ Undecided(t)
        /\ cs[t].name \in Names /\ Account[cs[t].name] = a
     THEN [cs[t] EXCEPT !.overtaken = TRUE] ELSE cs[t]]

Refuse(t) ==
  /\ calls[t].name = None
  /\ Decide(t, "InvalidInput")
  /\ UNCHANGED accounts

Login(t) ==
  LET a == Account[calls[t].name]
      pw == calls[t].password IN
  /\ calls[t].name # None
  /\ \/ accounts[a] = pw /\ Decide(t, "Success")
     \/ accounts[a] \notin {pw, None} /\ Decide(t, "WrongPassword")
     \/ accounts[a] # None /\ calls[t].overtaken /\ Decide(t, "WrongPassword")
  /\ UNCHANGED accounts

\* The account is created.  When the database fails then, that is all the caller
\* hears; when it failed before, nothing has happened.
Create(t) ==
  LET a == Account[calls[t].name] IN
  /\ calls[t].name # None
  /\ Undecided(t)
  /\ accounts[a] = None
  /\ accounts' = [accounts EXCEPT ![a] = calls[t].password]
  /\ \E outcome \in {"Created", "DatabaseError"} :
       calls' = Overtaking(Decided(t, outcome), a, Host[t])

Fail(t) ==
  /\ calls[t].name # None
  /\ Decide(t, "DatabaseError")
  /\ UNCHANGED accounts

Tell(t) ==
  /\ calls[t].outcome # None
  /\ calls' = [calls EXCEPT ![t] = NoCall]
  /\ UNCHANGED accounts

\* A process is killed.
Abandon(h) ==
  /\ calls' = [t \in Callers |-> IF Host[t] = h THEN NoCall ELSE calls[t]]
  /\ UNCHANGED accounts

\* What a caller wanted to create that was killed, or told of an error, may come to be
\* later.
CreateLate(a, pw) ==
  /\ accounts[a] = None
  /\ accounts' = [accounts EXCEPT ![a] = pw]
  /\ calls' = Overtaking(calls, a, None)

Answer(t) == Refuse(t) \/ Login(t) \/ Create(t) \/ Fail(t) \/ Tell(t)

Next == \/ \E t \in Callers : Ask(t) \/ Answer(t) \/ Abandon(Host[t])
        \/ \E a \in Accounts, pw \in Passwords : CreateLate(a, pw)

SafeSpec == Init /\ [][Next]_vars

\* Nobody is promised to be next, but while someone waits the service goes on.
Spec == SafeSpec /\ WF_vars(\E t \in Callers : Answer(t))
==============================================================================
