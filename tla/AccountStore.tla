---------------------------- MODULE AccountStore ----------------------------
(* serverlogic::MysqlStore (v3/logic/mysql_store.cpp): accounts are kept in a  *)
(* table of a MySQL server.  LoginOrCreate is up to three SQL statements, each *)
(* of which the database carries out on its own; what makes them one step is   *)
(* the mutex of the MysqlStore object, which only the threads of one process   *)
(* share.                                                                      *)
EXTENDS Naturals, FiniteSets

CONSTANTS
  Threads,         \* the logic threads of all the processes
  Host,            \* the process a thread belongs to
  Names, Passwords,
  Account,         \* the row a name finds: the column's collation ignores case
  Mortal,          \* the processes that may be killed and started again
  None

Processes == {Host[t] : t \in Threads}
Accounts == {Account[n] : n \in Names}

ASSUME AccountStoreAssumption ==
  /\ Threads = DOMAIN Host
  /\ Names = DOMAIN Account
  /\ Mortal \subseteq Processes
  /\ None \notin Threads \cup Processes \cup Names \cup Passwords
  /\ None \notin {"Success", "Created", "WrongPassword", "InvalidInput", "DatabaseError"}

Statements == {"match", "stamp", "exists", "insert"}
Phases == {"idle", "lock", "connect", "return"} \cup Statements
Outcomes == {"Success", "Created", "WrongPassword", "InvalidInput", "DatabaseError"}

VARIABLES
  \* the database
  schema,    \* what is there of it: nothing, the database, the table
  accounts,  \* the table: password_hash by username
  orphans,   \* INSERTs that the database has got, from calls that are over: the process
             \* was killed, or the connection broke
  \* the processes
  stage,     \* of each process: MysqlStore::Init's statements, then serving
  mutex,     \* MysqlStore::_mutex: the thread that holds it
  call,      \* of each thread: where it is, what it was asked, what it answers
  \* history
  overtaken  \* threads whose account was created during the call by another process
             \* or an orphan

databaseVars == <<schema, accounts, orphans>>
vars == <<databaseVars, stage, mutex, call, overtaken>>

NoCall == [phase |-> "idle", name |-> None, password |-> None, outcome |-> None]

\* The database, the mutexes and the calls stay in their domains, and a mutex is
\* held by the one thread of its process that is past the lock.
TypeOK ==
  /\ schema \in {"none", "database", "table"}
  /\ accounts \in [Accounts -> Passwords \cup {None}]
  /\ orphans \subseteq Accounts \X Passwords
  /\ stage \in [Processes -> {"database", "table", "serving"}]
  /\ mutex \in [Processes -> Threads \cup {None}]
  /\ call \in [Threads -> [phase    : Phases,
                           name     : Names \cup {None},
                           password : Passwords \cup {None},
                           outcome  : Outcomes \cup {None}]]
  /\ overtaken \subseteq Threads
  /\ \A t \in Threads : call[t].phase \in Statements \cup {"connect"}
                          => mutex[Host[t]] = t

Init ==
  /\ schema = "none"
  /\ accounts = [a \in Accounts |-> None]
  /\ orphans = {}
  /\ stage = [h \in Processes |-> "database"]
  /\ mutex = [h \in Processes |-> None]
  /\ call = [t \in Threads |-> NoCall]
  /\ overtaken = {}

------------------------------------------------------------------------------
(* MysqlStore::Init, before any thread of the process serves.  When it fails   *)
(* the server prints a warning and serves all the same.                        *)

CreateDatabase(h) ==
  /\ stage[h] = "database"
  /\ schema' = IF schema = "none" THEN "database" ELSE schema
  /\ stage' = [stage EXCEPT ![h] = "table"]
  /\ UNCHANGED <<accounts, orphans, mutex, call, overtaken>>

\* OpenServerConnection fails, or the database was not created.
NoDatabase(h) ==
  /\ stage[h] = "database"
  /\ stage' = [stage EXCEPT ![h] = "serving"]
  /\ UNCHANGED <<databaseVars, mutex, call, overtaken>>

CreateTable(h) ==
  /\ stage[h] = "table"
  /\ schema' \in {schema, "table"}
  /\ stage' = [stage EXCEPT ![h] = "serving"]
  /\ UNCHANGED <<accounts, orphans, mutex, call, overtaken>>

------------------------------------------------------------------------------
(* MysqlStore::LoginOrCreate.                                                  *)

Row(t) == Account[call[t].name]

\* Thread t goes on to the next statement, or returns an outcome.
Continue(t, phase) == call' = [call EXCEPT ![t].phase = phase]
Finish(t, outcome) == call' = [call EXCEPT ![t].phase = "return", ![t].outcome = outcome]
Decide(t, phase, outcome) ==
  call' = [call EXCEPT ![t].phase = phase, ![t].outcome = outcome]

\* A request with a login form.  A name of None stands for a name or password
\* that is empty or too long, which is refused before the mutex is taken.
Call(t) ==
  /\ stage[Host[t]] = "serving"
  /\ call[t].phase = "idle"
  /\ \E n \in Names \cup {None}, pw \in Passwords \cup {None} :
       /\ n = None <=> pw = None
       /\ call' = [call EXCEPT ![t] = [phase |-> "lock", name |-> n, password |-> pw,
                                       outcome |-> None]]
  /\ UNCHANGED <<databaseVars, stage, mutex, overtaken>>

Refuse(t) ==
  /\ call[t].phase = "lock"
  /\ call[t].name = None
  /\ Finish(t, "InvalidInput")
  /\ UNCHANGED <<databaseVars, stage, mutex, overtaken>>

\* Mutant: the guard object is forgotten.
NoLock(t) == UNCHANGED mutex

Lock(t) ==
  /\ mutex[Host[t]] = None
  /\ mutex' = [mutex EXCEPT ![Host[t]] = t]

Enter(t) ==
  /\ call[t].phase = "lock"
  /\ call[t].name # None
  /\ Lock(t)
  /\ Continue(t, "connect")
  /\ UNCHANGED <<databaseVars, stage, overtaken>>

\* OpenDatabaseConnection: there must be a database to connect to.
Connect(t) ==
  /\ call[t].phase = "connect"
  /\ schema # "none"
  /\ Continue(t, "match")
  /\ UNCHANGED <<databaseVars, stage, mutex, overtaken>>

\* The connection or a statement fails, without effect.
Fails(t) ==
  /\ call[t].phase \in {"connect", "match", "exists", "insert"}
  /\ Finish(t, "DatabaseError")
  /\ UNCHANGED <<databaseVars, stage, mutex, overtaken>>

\* A statement is carried out.
Executes(t, statement) ==
  /\ call[t].phase = statement
  /\ schema = "table"

Matches(a, pw) == accounts[a] = pw

\* SELECT 1 ... WHERE username = ... AND password_hash = ...
SelectMatch(t) ==
  /\ Executes(t, "match")
  /\ IF Matches(Row(t), call[t].password) THEN Decide(t, "stamp", "Success")
     ELSE Continue(t, "exists")
  /\ UNCHANGED <<databaseVars, stage, mutex, overtaken>>

\* UPDATE ... SET last_login_at, a column that is never read (and not kept here);
\* whether it failed is not looked at.
Stamp(t) ==
  /\ call[t].phase = "stamp"
  /\ Continue(t, "return")
  /\ UNCHANGED <<databaseVars, stage, mutex, overtaken>>

\* SELECT 1 ... WHERE username = ...
SelectUser(t) ==
  /\ Executes(t, "exists")
  /\ IF accounts[Row(t)] # None THEN Finish(t, "WrongPassword")
     ELSE Continue(t, "insert")
  /\ UNCHANGED <<databaseVars, stage, mutex, overtaken>>

\* Mutant: no UNIQUE key, the new row hides the old one.
InsertedAnyway(a, pw) == accounts' = [accounts EXCEPT ![a] = pw]

\* INSERT of a row; the UNIQUE key of username refuses a second one.
Inserted(a, pw) ==
  /\ accounts[a] = None
  /\ accounts' = [accounts EXCEPT ![a] = pw]

\* Of the calls under way those for account a of other processes than h.
Overtake(a, h) ==
  overtaken' = overtaken \cup
    {t \in Threads : /\ Host[t] # h /\ call[t].phase # "idle" /\ call[t].outcome = None
                     /\ call[t].name \in Names /\ Row(t) = a}

\* The row is inserted, though the connection may fail before the answer.
Insert(t) ==
  /\ Executes(t, "insert")
  /\ Inserted(Row(t), call[t].password)
  /\ \/ Finish(t, "Created")
     \/ Finish(t, "DatabaseError")
  /\ Overtake(Row(t), Host[t])
  /\ UNCHANGED <<schema, orphans, stage, mutex>>

\* The connection breaks when the INSERT has been sent: it may be carried out yet, when
\* the call has returned and the mutex is free.
LoseInsert(t) ==
  /\ call[t].phase = "insert"
  /\ Finish(t, "DatabaseError")
  /\ orphans' = orphans \cup {<<Row(t), call[t].password>>}
  /\ UNCHANGED <<schema, accounts, stage, mutex, overtaken>>

\* mysql_close, and the end of the guard's scope.
Return(t) ==
  /\ call[t].phase = "return"
  /\ call' = [call EXCEPT ![t] = NoCall]
  /\ mutex' = IF mutex[Host[t]] = t THEN [mutex EXCEPT ![Host[t]] = None] ELSE mutex
  /\ overtaken' = overtaken \ {t}
  /\ UNCHANGED <<databaseVars, stage>>

------------------------------------------------------------------------------
(* A process is killed and started again; its MySQL sessions end, but an       *)
(* INSERT that the database has got already may still be carried out.          *)

Die(h) ==
  /\ h \in Mortal
  /\ \E S \in SUBSET {t \in Threads : Host[t] = h /\ call[t].phase = "insert"} :
       orphans' = orphans \cup {<<Row(t), call[t].password>> : t \in S}
  /\ stage' = [stage EXCEPT ![h] = "database"]
  /\ mutex' = [mutex EXCEPT ![h] = None]
  /\ call' = [t \in Threads |-> IF Host[t] = h THEN NoCall ELSE call[t]]
  /\ overtaken' = {t \in overtaken : Host[t] # h}
  /\ UNCHANGED <<schema, accounts>>

OrphanEnds ==
  \E o \in orphans :
    /\ orphans' = orphans \ {o}
    /\ \/ schema = "table" /\ Inserted(o[1], o[2]) /\ Overtake(o[1], None)
       \/ UNCHANGED <<accounts, overtaken>>
    /\ UNCHANGED <<schema, stage, mutex, call>>

------------------------------------------------------------------------------
Step(t) == \/ Refuse(t) \/ Enter(t) \/ Connect(t) \/ Fails(t)
           \/ SelectMatch(t) \/ Stamp(t) \/ SelectUser(t)
           \/ Insert(t) \/ LoseInsert(t) \/ Return(t)

Next == \/ \E h \in Processes : \/ CreateDatabase(h) \/ NoDatabase(h)
                                \/ CreateTable(h) \/ Die(h)
        \/ \E t \in Threads : Call(t) \/ Step(t)
        \/ OrphanEnds

Spec == Init /\ [][Next]_vars

\* Threads are scheduled, and the database answers or the connection breaks.
FairSpec == Spec /\ \A t \in Threads : WF_vars(Step(t))

------------------------------------------------------------------------------
\* A thread's call as LoginService has it.
Caller(t) == [asked |-> call[t].phase # "idle", name |-> call[t].name,
              password |-> call[t].password, outcome |-> call[t].outcome,
              overtaken |-> t \in overtaken]
callers == [t \in Threads |-> Caller(t)]

Service == INSTANCE LoginService WITH Callers <- Threads, calls <- callers

\* LoginOrCreate is atomic, however the threads interleave, whatever statement
\* fails and whichever process is killed: but for a call whose account another
\* process creates meanwhile, or an INSERT that its own caller has given up.  And no
\* thread stops the others.
LoginIsAtomic == Service!Spec

\* Even then, who is told that the login succeeded, or that the account was
\* created, has the account's password, and who is told that the password is
\* wrong has named an account that there is.
OutcomeIsTrue ==
  \A t \in Threads :
    /\ call[t].outcome \in {"Success", "Created"} => accounts[Row(t)] = call[t].password
    /\ call[t].outcome = "WrongPassword" => accounts[Row(t)] # None
==============================================================================
