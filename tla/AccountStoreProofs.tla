--------------------------- MODULE AccountStoreProofs ---------------------------
(* AccountStore for any number of processes, threads, names and passwords:     *)
(* what a call of LoginOrCreate answers is true, and the calls are steps of     *)
(* LoginService, however they interleave.                                      *)
EXTENDS AccountStore, TLAPS

Within(t) == call[t].phase \in Statements \cup {"connect"}

\* What a call is about: nothing, before there is one, then what it was asked with,
\* and when it is past the lock both parts of that are there.
Asked(t) ==
  /\ call[t].phase = "idle" => call[t] = NoCall
  /\ call[t].name \in Names <=> call[t].password \in Passwords
  /\ Within(t) => call[t].name \in Names

\* A call is decided when it returns or has yet to set the time stamp.
Answered(t) ==
  /\ call[t].phase \in {"lock", "connect", "match", "exists", "insert"}
       => call[t].outcome = None
  /\ call[t].phase = "stamp" => call[t].outcome = "Success"
  /\ call[t].phase = "return" => call[t].outcome # None
  /\ call[t].outcome \in {"Success", "Created", "WrongPassword"} => call[t].name \in Names

\* A call that did not find its password goes on only while that is still so, or
\* another process has made it otherwise: those of its own wait for the mutex.
Unmatched(t) ==
  /\ call[t].phase \in {"exists", "insert"}
       => accounts[Row(t)] # call[t].password \/ t \in overtaken
  /\ t \in overtaken => call[t].phase # "idle"

CallInv      == \A t \in Threads : Asked(t) /\ Answered(t)
UnmatchedInv == \A t \in Threads : Unmatched(t)

LEMMA Continues ==
  ASSUME TypeOK, NEW t \in Threads, NEW p, Continue(t, p)
  PROVE  Decide(t, p, call[t].outcome)
<1> DEFINE r == [call[t] EXCEPT !.phase = p]
<1>1. r = [r EXCEPT !.outcome = call[t].outcome]
  BY DEF TypeOK
<1>2. call' = [call EXCEPT ![t] = r]
  BY DEF Continue
<1>3. [call EXCEPT ![t].phase = p, ![t].outcome = call[t].outcome]
        = [call EXCEPT ![t] = [r EXCEPT !.outcome = call[t].outcome]]
  BY DEF TypeOK
<1> QED
  BY <1>1, <1>2, <1>3 DEF Decide

\* A thread keeps its place in the domain of calls, and gets the mutex nowhere but at
\* the lock.
LEMMA Decides ==
  ASSUME TypeOK, NEW t \in Threads, NEW p \in Phases, NEW o \in Outcomes \cup {None},
         Decide(t, p, o), p \in Statements \cup {"connect"} => Within(t),
         UNCHANGED <<schema, stage, mutex>>, orphans' \subseteq Accounts \X Passwords,
         accounts' \in [Accounts -> Passwords \cup {None}], overtaken' \subseteq Threads
  PROVE  TypeOK'
<1> DEFINE Calls == [phase    : Phases,
                    name     : Names \cup {None},
                    password : Passwords \cup {None},
                    outcome  : Outcomes \cup {None}]
           r == [call[t] EXCEPT !.phase = p, !.outcome = o]
<1>1. call' \in [Threads -> Calls]
  <2>1. call \in [Threads -> Calls]
    BY DEF TypeOK
  <2>2. r \in Calls
    BY <2>1
  <2>3. call' = [call EXCEPT ![t] = r]
    BY <2>1 DEF Decide
  <2> HIDE DEF Calls, r
  <2> QED
    BY <2>1, <2>2, <2>3
<1>2. \A u \in Threads : u # t => call'[u] = call[u]
  BY DEF TypeOK, Decide
<1>3. call'[t].phase = p
  BY DEF TypeOK, Decide
<1>4. \A u \in Threads : call'[u].phase \in Statements \cup {"connect"}
                          => mutex'[Host[u]] = u
  BY <1>2, <1>3 DEF TypeOK, Within
<1> QED
  BY <1>1, <1>4 DEF TypeOK

\* The state stays in its domain, the mutex with the thread that is past the lock.
THEOREM TypeCorrect == Spec => [](TypeOK /\ CallInv)
<1> USE DEF Phases, Statements, Within
<1>1. Init => TypeOK /\ CallInv
  <2> SUFFICES ASSUME Init PROVE TypeOK /\ CallInv
    OBVIOUS
  <2>1. TypeOK
    BY DEF Init, TypeOK, NoCall
  <2>2. CallInv
    BY AccountStoreAssumption DEF Init, CallInv, Asked, Answered, NoCall, Outcomes
  <2> QED
    BY <2>1, <2>2
<1>2. TypeOK /\ CallInv /\ [Next]_vars => (TypeOK /\ CallInv)'
  <2> SUFFICES ASSUME TypeOK, CallInv, [Next]_vars PROVE (TypeOK /\ CallInv)'
    OBVIOUS
  <2> USE AccountStoreAssumption
  <2>a. \A t \in Threads : Host[t] \in Processes /\ Host[t] # None
    BY DEF Processes
  <2>b. \A n \in Names : Account[n] \in Accounts
    BY DEF Accounts
  <2>1. ASSUME NEW h \in Processes, CreateDatabase(h) \/ NoDatabase(h) \/ CreateTable(h)
        PROVE  (TypeOK /\ CallInv)'
    BY <2>1 DEF CreateDatabase, NoDatabase, CreateTable, TypeOK, CallInv, Asked, Answered,
                databaseVars
  <2>2. ASSUME NEW h \in Processes, Die(h) PROVE (TypeOK /\ CallInv)'
    <3>1. orphans' \subseteq Accounts \X Passwords
      BY <2>2, <2>b DEF Die, TypeOK, CallInv, Asked, Row
    <3>2. \A t \in Threads : IF Host[t] = h THEN call'[t] = NoCall ELSE call'[t] = call[t]
      BY <2>2 DEF Die
    <3>3. TypeOK'
      BY <2>2, <3>1, <3>2 DEF Die, TypeOK, NoCall
    <3>4. CallInv'
      BY <2>2, <3>2 DEF CallInv, Asked, Answered, NoCall, TypeOK, Outcomes
    <3> QED
      BY <3>3, <3>4
  <2>3. ASSUME NEW t \in Threads, Call(t) PROVE (TypeOK /\ CallInv)'
    <3>1. PICK n \in Names \cup {None}, pw \in Passwords \cup {None} :
            /\ n \in Names <=> pw \in Passwords
            /\ call' = [call EXCEPT ![t] = [phase |-> "lock", name |-> n, password |-> pw,
                                            outcome |-> None]]
      BY <2>3 DEF Call
    <3>2. TypeOK'
      BY <2>3, <3>1 DEF Call, TypeOK, databaseVars
    <3>3. CallInv'
      BY <2>3, <3>1 DEF CallInv, Asked, Answered, NoCall, TypeOK, Outcomes
    <3> QED
      BY <3>2, <3>3
  <2>4. ASSUME NEW t \in Threads, Refuse(t) \/ Connect(t) \/ Fails(t) \/ Stamp(t)
               \/ SelectMatch(t) \/ SelectUser(t)
        PROVE (TypeOK /\ CallInv)'
    <3>1. /\ UNCHANGED <<databaseVars, stage, mutex, overtaken>>
          /\ call[t].phase \in {"lock"} \cup Statements \cup {"connect"}
          /\ \E p \in Phases, o \in Outcomes \cup {None} :
               /\ Decide(t, p, o)
               /\ p \in Statements \cup {"connect"} => Within(t)
               /\ p \in {"match", "exists", "insert"} => o = None
               /\ p \in {"stamp", "return"} => o # None
               /\ p = "stamp" => o = "Success"
               /\ p \in {"match", "exists", "insert", "stamp", "return"}
               /\ o \in {"Success", "Created", "WrongPassword"} => Within(t)
      <4>1. CASE Refuse(t)
        BY <4>1 DEF Refuse, Finish, Decide, Outcomes
      <4>2. CASE Connect(t)
        <5>1. Decide(t, "match", None)
          BY <4>2, Continues DEF Connect, CallInv, Answered
        <5> QED
          BY <4>2, <5>1 DEF Connect
      <4>3. CASE Fails(t)
        BY <4>3 DEF Fails, Finish, Decide, Outcomes
      <4>4. CASE Stamp(t)
        <5>1. Decide(t, "return", "Success")
          BY <4>4, Continues DEF Stamp, CallInv, Answered
        <5> QED
          BY <4>4, <5>1 DEF Stamp, Outcomes
      <4>5. CASE SelectMatch(t)
        <5>1. \/ Decide(t, "exists", None)
              \/ Decide(t, "stamp", "Success")
          BY <4>5, Continues DEF SelectMatch, Executes, CallInv, Answered
        <5> QED
          BY <4>5, <5>1 DEF SelectMatch, Executes, Outcomes
      <4>6. CASE SelectUser(t)
        <5>1. \/ Decide(t, "insert", None)
              \/ Decide(t, "return", "WrongPassword")
          BY <4>6, Continues DEF SelectUser, Executes, Finish, Decide, CallInv, Answered
        <5> QED
          BY <4>6, <5>1 DEF SelectUser, Executes, Outcomes
      <4> QED
        BY <2>4, <4>1, <4>2, <4>3, <4>4, <4>5, <4>6
    <3>2. TypeOK'
      BY <3>1, Decides DEF TypeOK, databaseVars
    <3>3. CallInv'
      BY <3>1 DEF CallInv, Asked, Answered, TypeOK, Decide
    <3> QED
      BY <3>2, <3>3
  <2>5. ASSUME NEW t \in Threads, Enter(t) PROVE (TypeOK /\ CallInv)'
    <3>1. TypeOK'
      BY <2>5, <2>a DEF Enter, Lock, Continue, TypeOK, databaseVars
    <3>2. CallInv'
      BY <2>5 DEF Enter, Continue, CallInv, Asked, Answered, TypeOK
    <3> QED
      BY <3>1, <3>2
  <2>6. ASSUME NEW t \in Threads, Insert(t) PROVE (TypeOK /\ CallInv)'
    <3>1. /\ Row(t) \in Accounts /\ call[t].password \in Passwords /\ call[t].name \in Names
      BY <2>6, <2>b DEF Insert, Executes, CallInv, Asked, Row
    <3>2. PICK o \in {"Created", "DatabaseError"} : Decide(t, "return", o)
      BY <2>6 DEF Insert, Finish, Decide
    <3>3. TypeOK'
      <4>1. accounts' \in [Accounts -> Passwords \cup {None}]
        BY <2>6, <3>1 DEF Insert, Inserted, TypeOK
      <4>2. overtaken' \subseteq Threads
        BY <2>6 DEF Insert, Overtake, TypeOK
      <4>3. UNCHANGED <<schema, stage, mutex>> /\ orphans' \subseteq Accounts \X Passwords
        BY <2>6 DEF Insert, TypeOK
      <4> QED
        <5>1. o \in Outcomes \cup {None} /\ "return" \in Phases
          BY DEF Outcomes
        <5>2. "return" \notin Statements \cup {"connect"}
          OBVIOUS
        <5> HIDE DEF Phases, Statements, Within
        <5> QED
          BY <3>2, <4>1, <4>2, <4>3, <5>1, <5>2, Decides
    <3>4. CallInv'
      BY <3>1, <3>2 DEF CallInv, Asked, Answered, TypeOK, Outcomes, Decide
    <3> QED
      BY <3>3, <3>4
  <2>10. ASSUME NEW t \in Threads, LoseInsert(t) PROVE (TypeOK /\ CallInv)'
    <3>1. orphans' \subseteq Accounts \X Passwords
      BY <2>10, <2>b DEF LoseInsert, CallInv, Asked, Row, TypeOK
    <3>2. Decide(t, "return", "DatabaseError") /\ call[t].phase = "insert"
      BY <2>10 DEF LoseInsert, Finish, Decide
    <3>3. TypeOK'
      <4>1. "DatabaseError" \in Outcomes \cup {None} /\ "return" \in Phases
        BY DEF Outcomes
      <4>2. "return" \notin Statements \cup {"connect"}
        OBVIOUS
      <4> HIDE DEF Phases, Statements, Within
      <4> QED
        BY <2>10, <3>1, <3>2, <4>1, <4>2, Decides DEF LoseInsert, TypeOK
    <3>4. CallInv'
      BY <2>10, <3>2 DEF LoseInsert, CallInv, Asked, Answered, TypeOK, Decide, Outcomes
    <3> QED
      BY <3>3, <3>4
  <2>7. ASSUME NEW t \in Threads, Return(t) PROVE (TypeOK /\ CallInv)'
    <3>1. TypeOK'
      BY <2>7, <2>a DEF Return, TypeOK, databaseVars, NoCall
    <3>2. CallInv'
      BY <2>7 DEF Return, CallInv, Asked, Answered, TypeOK, NoCall, Outcomes
    <3> QED
      BY <3>1, <3>2
  <2>8. CASE OrphanEnds
    <3>1. UNCHANGED call
      BY <2>8 DEF OrphanEnds
    <3>2. TypeOK'
      BY <2>8 DEF OrphanEnds, Inserted, Overtake, TypeOK
    <3> QED
      BY <3>1, <3>2 DEF CallInv, Asked, Answered
  <2>9. CASE UNCHANGED vars
    BY <2>9 DEF vars, databaseVars, TypeOK, CallInv, Asked, Answered
  <2> QED
    BY <2>1, <2>2, <2>3, <2>4, <2>5, <2>6, <2>10, <2>7, <2>8, <2>9 DEF Next, Step
<1> QED
  BY <1>1, <1>2, PTL DEF Spec

------------------------------------------------------------------------------
\* A row that is there stays as it is.
LEMMA RowsStay ==
  ASSUME TypeOK, [Next]_vars, NEW a \in Accounts, accounts[a] # None
  PROVE  accounts'[a] = accounts[a]
<1>1. ASSUME NEW t \in Threads, Call(t) \/ Step(t) PROVE accounts'[a] = accounts[a]
  BY <1>1 DEF Call, Step, Refuse, Enter, Connect, Fails, SelectMatch, Stamp, SelectUser,
              Insert, LoseInsert, Inserted, Return, databaseVars, TypeOK
<1>2. CASE OrphanEnds
  BY <1>2 DEF OrphanEnds, Inserted, TypeOK
<1>3. ASSUME NEW h \in Processes,
             CreateDatabase(h) \/ NoDatabase(h) \/ CreateTable(h) \/ Die(h)
      PROVE  accounts'[a] = accounts[a]
  BY <1>3 DEF CreateDatabase, NoDatabase, CreateTable, Die, databaseVars
<1> QED
  BY <1>1, <1>2, <1>3 DEF Next, vars, databaseVars

Truth(t) ==
  /\ call[t].outcome \in {"Success", "Created"} => accounts[Row(t)] = call[t].password
  /\ call[t].outcome = "WrongPassword" => accounts[Row(t)] # None

\* What a thread has been told stays true, whoever acts.
LEMMA TruthStays ==
  ASSUME TypeOK, CallInv, [Next]_vars, NEW t \in Threads, Truth(t), call'[t] = call[t]
  PROVE  Truth(t)'
<1>1. CASE call[t].outcome \in {"Success", "Created", "WrongPassword"}
  <2>1. Row(t) \in Accounts /\ call[t].password \in Passwords
    BY <1>1 DEF CallInv, Answered, Asked, Row, Accounts
  <2>2. accounts[Row(t)] # None
    BY <1>1, <2>1, AccountStoreAssumption DEF Truth
  <2> QED
    BY <2>1, <2>2, RowsStay DEF Truth, Row
<1>2. CASE call[t].outcome \notin {"Success", "Created", "WrongPassword"}
  BY <1>2 DEF Truth
<1> QED
  BY <1>1, <1>2

\* Who is told that the login succeeded or that the account was created has its
\* password, and who is told that the password is wrong has named an account that
\* there is: for any number of threads and processes, killed ones included.
THEOREM OutcomesAreTrue == Spec => []OutcomeIsTrue
<1>0. OutcomeIsTrue <=> \A t \in Threads : Truth(t)
  BY DEF OutcomeIsTrue, Truth
<1>1. Init => \A t \in Threads : Truth(t)
  BY AccountStoreAssumption DEF Init, Truth, NoCall
<1>2. /\ TypeOK /\ CallInv /\ (\A t \in Threads : Truth(t)) /\ [Next]_vars
      => (\A t \in Threads : Truth(t))'
  <2> SUFFICES ASSUME TypeOK, CallInv, \A t \in Threads : Truth(t), [Next]_vars,
                      NEW u \in Threads, call'[u] # call[u]
               PROVE  Truth(u)'
    BY TruthStays
  <2> USE AccountStoreAssumption
  <2>1. ASSUME NEW t \in Threads, Step(t) \/ Call(t), t # u PROVE FALSE
    BY <2>1 DEF Step, Call, Refuse, Enter, Connect, Fails, SelectMatch, Stamp, SelectUser,
                Insert, LoseInsert, Return, Continue, Finish, Decide, TypeOK
  <2>2. CASE Call(u) \/ Return(u) \/ \E h \in Processes : Die(h)
    <3>1. call'[u].outcome = None
      BY <2>2 DEF Call, Return, Die, NoCall, TypeOK
    <3> QED
      BY <3>1 DEF Truth
  <2>3. CASE Refuse(u) \/ Fails(u) \/ LoseInsert(u)
    <3>1. call'[u].outcome \in {"InvalidInput", "DatabaseError"}
      BY <2>3 DEF Refuse, Fails, LoseInsert, Finish, TypeOK
    <3> QED
      BY <3>1 DEF Truth
  <2>4. CASE Enter(u) \/ Connect(u) \/ Stamp(u)
    <3>1. /\ call'[u].outcome = call[u].outcome /\ call'[u].name = call[u].name
          /\ call'[u].password = call[u].password /\ UNCHANGED accounts
      BY <2>4 DEF Enter, Connect, Stamp, Continue, databaseVars, TypeOK
    <3> QED
      BY <3>1 DEF Truth, Row
  <2>5. CASE SelectMatch(u) \/ SelectUser(u)
    <3>1. /\ call'[u].name = call[u].name /\ call'[u].password = call[u].password
          /\ UNCHANGED accounts
      BY <2>5 DEF SelectMatch, SelectUser, Continue, Finish, Decide, databaseVars, TypeOK
    <3>2. call[u].outcome = None
      BY <2>5 DEF SelectMatch, SelectUser, Executes, CallInv, Answered
    <3>3. /\ call'[u].outcome \in {"Success", "Created"}
               => accounts[Row(u)] = call[u].password
          /\ call'[u].outcome = "WrongPassword" => accounts[Row(u)] # None
      BY <2>5, <3>2 DEF SelectMatch, SelectUser, Matches, Continue, Finish, Decide, TypeOK
    <3> QED
      BY <3>1, <3>3 DEF Truth, Row
  <2>6. CASE Insert(u)
    <3>1. /\ call'[u].name = call[u].name /\ call'[u].password = call[u].password
          /\ call'[u].outcome # "WrongPassword"
      BY <2>6 DEF Insert, Finish, TypeOK
    <3>2. Row(u) \in Accounts
      BY <2>6 DEF Insert, Executes, CallInv, Asked, Within, Statements, Row, Accounts
    <3>3. accounts'[Row(u)] = call[u].password
      BY <2>6, <3>2 DEF Insert, Inserted, TypeOK
    <3> QED
      BY <3>1, <3>3 DEF Truth, Row
  <2>7. ASSUME NEW h \in Processes, CreateDatabase(h) \/ NoDatabase(h) \/ CreateTable(h)
        PROVE  FALSE
    BY <2>7 DEF CreateDatabase, NoDatabase, CreateTable
  <2>8. ~OrphanEnds /\ ~UNCHANGED vars
    BY DEF OrphanEnds, vars
  <2> QED
    BY <2>1, <2>2, <2>3, <2>4, <2>5, <2>6, <2>7, <2>8 DEF Next, Step
<1> QED
  BY <1>0, <1>1, <1>2, TypeCorrect, PTL DEF Spec

------------------------------------------------------------------------------
(* LoginOrCreate is one step.                                                  *)

\* The row a call did not find is created by another process or an orphan, which
\* overtakes it, or not at all: a thread of its own process would need its mutex.
LEMMA UnmatchedHolds == Spec => []UnmatchedInv
<1>1. Init => UnmatchedInv
  BY DEF Init, UnmatchedInv, Unmatched, NoCall
<1>2. TypeOK /\ CallInv /\ UnmatchedInv /\ [Next]_vars => UnmatchedInv'
  <2> SUFFICES ASSUME TypeOK, CallInv, UnmatchedInv, [Next]_vars, NEW u \in Threads
               PROVE  Unmatched(u)'
    BY DEF UnmatchedInv
  <2> USE AccountStoreAssumption
  <2>a. Unmatched(u)
    BY DEF UnmatchedInv
  <2>b. ASSUME NEW a \in Accounts, NEW h, h # Host[u], Overtake(a, h),
               call'[u] = call[u] \/ call'[u].phase # "idle",
               \A b \in Accounts : b # a => accounts'[b] = accounts[b],
               call[u].phase \in {"exists", "insert"}
                 => call'[u] = call[u] \/ call'[u].phase = "return"
        PROVE  call[u].phase \in {"exists", "insert"} => Unmatched(u)'
    <3>1. CASE call[u].phase \in {"exists", "insert"}
      <4>1. call[u].name \in Names /\ call[u].outcome = None /\ Row(u) \in Accounts
        BY <3>1 DEF CallInv, Asked, Answered, Within, Statements, Row, Accounts
      <4>2. CASE Row(u) = a
        <5>1. u \in overtaken'
          BY <2>b, <3>1, <4>1, <4>2 DEF Overtake
        <5> QED
          BY <2>b, <3>1, <5>1 DEF Unmatched
      <4>3. CASE Row(u) # a
        BY <2>a, <2>b, <3>1, <4>1, <4>3 DEF Unmatched, Row, Overtake
      <4> QED
        BY <4>2, <4>3
    <3> QED
      BY <3>1
  <2>1. ASSUME NEW t \in Threads, t # u, Step(t) \/ Call(t), ~Insert(t)
        PROVE  Unmatched(u)'
    <3>1. call'[u] = call[u] /\ UNCHANGED accounts /\ (u \in overtaken' <=> u \in overtaken)
      BY <2>1 DEF Step, Call, Refuse, Enter, Connect, Fails, SelectMatch, Stamp, SelectUser,
                  LoseInsert, Return, Continue, Finish, Decide, TypeOK, databaseVars
    <3> QED
      BY <2>a, <3>1 DEF Unmatched, Row
  <2>2. ASSUME NEW t \in Threads, t # u, Insert(t) PROVE Unmatched(u)'
    <3>1. call'[u] = call[u]
      BY <2>2 DEF Insert, Finish, TypeOK
    <3>2. Row(t) \in Accounts /\ Within(t)
      BY <2>2 DEF Insert, Executes, CallInv, Asked, Within, Statements, Row, Accounts
    <3>3. Overtake(Row(t), Host[t]) /\ \A b \in Accounts : b # Row(t) => accounts'[b] = accounts[b]
      BY <2>2, <3>2 DEF Insert, Inserted, TypeOK
    <3>4. CASE call[u].phase \in {"exists", "insert"}
      <4>1. Host[u] # Host[t]
        BY <2>2, <3>2, <3>4 DEF TypeOK, Within, Statements
      <4> QED
        BY <2>b, <3>1, <3>2, <3>3, <3>4, <4>1
    <3>5. CASE call[u].phase \notin {"exists", "insert"}
      BY <2>a, <3>1, <3>3, <3>5 DEF Unmatched, Overtake
    <3> QED
      BY <3>4, <3>5
  <2>3. CASE \/ Call(u) \/ Refuse(u) \/ Enter(u) \/ Connect(u) \/ Fails(u) \/ Stamp(u)
             \/ LoseInsert(u)
    <3>1. call'[u].phase \notin {"exists", "insert", "idle"} /\ UNCHANGED overtaken
      BY <2>3 DEF Call, Refuse, Enter, Connect, Fails, Stamp, LoseInsert, Continue, Finish,
                  TypeOK
    <3> QED
      BY <3>1 DEF Unmatched
  <2>4. CASE SelectMatch(u)
    <3>1. /\ call'[u].phase # "idle" /\ call'[u].name = call[u].name
          /\ call'[u].password = call[u].password /\ UNCHANGED <<accounts, overtaken>>
          /\ call'[u].phase = "stamp" \/ accounts[Row(u)] # call[u].password
      BY <2>4 DEF SelectMatch, Matches, Decide, Continue, databaseVars, TypeOK
    <3> QED
      BY <3>1 DEF Unmatched, Row
  <2>5. CASE SelectUser(u)
    <3>1. /\ call'[u].phase # "idle" /\ call'[u].name = call[u].name
          /\ call'[u].password = call[u].password /\ UNCHANGED <<accounts, overtaken>>
          /\ call[u].phase = "exists"
      BY <2>5 DEF SelectUser, Executes, Finish, Continue, databaseVars, TypeOK
    <3> QED
      BY <2>a, <3>1 DEF Unmatched, Row
  <2>6. CASE Insert(u)
    <3>1. call'[u].phase = "return"
      BY <2>6 DEF Insert, Finish, TypeOK
    <3> QED
      BY <3>1 DEF Unmatched
  <2>7. CASE Return(u)
    <3>1. call'[u].phase = "idle" /\ u \notin overtaken'
      BY <2>7 DEF Return, NoCall, TypeOK
    <3> QED
      BY <3>1 DEF Unmatched
  <2>8. ASSUME NEW h \in Processes, Die(h) PROVE Unmatched(u)'
    <3>1. CASE Host[u] = h
      <4>1. call'[u].phase = "idle" /\ u \notin overtaken'
        BY <2>8, <3>1 DEF Die, NoCall
      <4> QED
        BY <4>1 DEF Unmatched
    <3>2. CASE Host[u] # h
      <4>1. call'[u] = call[u] /\ UNCHANGED accounts /\ (u \in overtaken' <=> u \in overtaken)
        BY <2>8, <3>2 DEF Die
      <4> QED
        BY <2>a, <4>1 DEF Unmatched, Row
    <3> QED
      BY <3>1, <3>2
  <2>9. ASSUME NEW h \in Processes, CreateDatabase(h) \/ NoDatabase(h) \/ CreateTable(h)
        PROVE  Unmatched(u)'
    BY <2>a, <2>9 DEF CreateDatabase, NoDatabase, CreateTable, databaseVars, Unmatched, Row
  <2>10. CASE OrphanEnds
    <3>1. PICK o \in orphans :
            \/ Inserted(o[1], o[2]) /\ Overtake(o[1], None)
            \/ UNCHANGED <<accounts, overtaken>>
      BY <2>10 DEF OrphanEnds
    <3>2. UNCHANGED call
      BY <2>10 DEF OrphanEnds
    <3>3. CASE Inserted(o[1], o[2]) /\ Overtake(o[1], None)
      <4>1. o[1] \in Accounts
        BY DEF TypeOK
      <4>2. Host[u] # None
        BY DEF Processes
      <4>3. \A b \in Accounts : b # o[1] => accounts'[b] = accounts[b]
        BY <3>3, <4>1 DEF Inserted, TypeOK
      <4>4. CASE call[u].phase \in {"exists", "insert"}
        BY <2>b, <3>2, <3>3, <4>1, <4>2, <4>3, <4>4
      <4>5. CASE call[u].phase \notin {"exists", "insert"}
        BY <2>a, <3>2, <3>3, <4>5 DEF Unmatched, Overtake
      <4> QED
        BY <4>4, <4>5
    <3>4. CASE UNCHANGED <<accounts, overtaken>>
      BY <2>a, <3>2, <3>4 DEF Unmatched, Row
    <3> QED
      BY <3>1, <3>3, <3>4
  <2>11. CASE UNCHANGED vars
    BY <2>a, <2>11 DEF vars, databaseVars, Unmatched, Row
  <2> QED
    BY <2>1, <2>2, <2>3, <2>4, <2>5, <2>6, <2>7, <2>8, <2>9, <2>10, <2>11 DEF Next, Step
<1> QED
  BY <1>1, <1>2, TypeCorrect, PTL DEF Spec

\* Caller(t), and what there is of it.
LEMMA CallerIs ==
  ASSUME NEW t \in Threads
  PROVE  /\ callers[t] = Caller(t)
         /\ callers[t].asked <=> call[t].phase # "idle"
         /\ callers[t].name = call[t].name
         /\ callers[t].password = call[t].password
         /\ callers[t].outcome = call[t].outcome
         /\ callers[t].overtaken <=> t \in overtaken
         /\ Service!Undecided(t) <=> call[t].phase # "idle" /\ call[t].outcome = None
<1>1. callers[t] = Caller(t)
  BY DEF callers
<1>2. /\ Caller(t).asked <=> call[t].phase # "idle"
      /\ Caller(t).name = call[t].name
      /\ Caller(t).password = call[t].password
      /\ Caller(t).outcome = call[t].outcome
      /\ Caller(t).overtaken <=> t \in overtaken
  BY DEF Caller
<1> QED
  BY <1>1, <1>2 DEF Service!Undecided

LEMMA NobodyCalls ==
  ASSUME NEW t \in Threads, call[t] = NoCall, t \notin overtaken
  PROVE  Caller(t) = Service!NoCall
<1> DEFINE asked == call[t].phase # "idle"
           late  == t \in overtaken
<1>1. asked = FALSE /\ late = FALSE
  BY DEF NoCall
<1>2. Caller(t) = [asked |-> asked, name |-> call[t].name, password |-> call[t].password,
                   outcome |-> call[t].outcome, overtaken |-> late]
  BY DEF Caller
<1>3. call[t].name = None /\ call[t].password = None /\ call[t].outcome = None
  BY DEF NoCall
<1> HIDE DEF asked, late
<1> QED
  BY <1>1, <1>2, <1>3 DEF Service!NoCall

LEMMA CallersChange ==
  ASSUME NEW t \in Threads, NEW r, Caller(t)' = r,
         \A u \in Threads : u # t => Caller(u)' = Caller(u)
  PROVE  callers' = [callers EXCEPT ![t] = r]
BY DEF callers

LEMMA CallersStay ==
  ASSUME \A u \in Threads : Caller(u)' = Caller(u) PROVE callers' = callers
BY DEF callers

\* Only its outcome changes when a call is decided.
LEMMA CallDecided ==
  ASSUME TypeOK, NEW t \in Threads, NEW p \in Phases \ {"idle"}, NEW o,
         call[t].phase # "idle", Decide(t, p, o), UNCHANGED overtaken
  PROVE  callers' = Service!Decided(t, o)
<1>1. Caller(t)' = [callers[t] EXCEPT !.outcome = o]
  BY DEF Caller, callers, Decide, TypeOK
<1>2. \A u \in Threads : u # t => Caller(u)' = Caller(u)
  BY DEF Caller, Decide, TypeOK
<1>3. callers' = [callers EXCEPT ![t] = [callers[t] EXCEPT !.outcome = o]]
  BY <1>1, <1>2, CallersChange
<1> QED
  BY <1>3 DEF Service!Decided

LEMMA NobodyWillCall ==
  ASSUME NEW t \in Threads, call'[t] = NoCall, t \notin overtaken'
  PROVE  Caller(t)' = Service!NoCall
<1> DEFINE asked == call'[t].phase # "idle"
           late  == t \in overtaken'
<1>1. asked = FALSE /\ late = FALSE
  BY DEF NoCall
<1>2. Caller(t)' = [asked |-> asked, name |-> call'[t].name,
                    password |-> call'[t].password, outcome |-> call'[t].outcome,
                    overtaken |-> late]
  BY DEF Caller
<1>3. call'[t].name = None /\ call'[t].password = None /\ call'[t].outcome = None
  BY DEF NoCall
<1> HIDE DEF asked, late
<1> QED
  BY <1>1, <1>2, <1>3 DEF Service!NoCall

\* A creation overtakes in both modules the same calls.
LEMMA BecomesOvertaken ==
  ASSUME NEW u \in Threads, NEW a, NEW h, NEW cs, cs[u] = Caller(u),
         Overtake(a, h), call'[u] = call[u]
  PROVE  Caller(u)' = Service!Overtaking(cs, a, h)[u]
<1> DEFINE asked == call[u].phase # "idle"
           late  == u \in overtaken
           later == u \in overtaken'
           yes   == TRUE
           hit   == /\ Host[u] # h /\ Service!Undecided(u)
                    /\ cs[u].name \in Names /\ Account[cs[u].name] = a
<1>1. Caller(u) = [asked |-> asked, name |-> call[u].name, password |-> call[u].password,
                   outcome |-> call[u].outcome, overtaken |-> late]
  BY DEF Caller
<1>2. Caller(u)' = [asked |-> asked, name |-> call[u].name, password |-> call[u].password,
                    outcome |-> call[u].outcome, overtaken |-> later]
  BY DEF Caller
<1>3. cs[u].name = call[u].name
  BY CallerIs
<1>4. hit => later = yes
  BY <1>3, CallerIs DEF Overtake, Row
<1>5. ~hit => later = late
  BY <1>3, CallerIs DEF Overtake, Row
<1>6. Service!Overtaking(cs, a, h)[u] = IF hit THEN [cs[u] EXCEPT !.overtaken = yes]
                                       ELSE cs[u]
  BY DEF Service!Overtaking
<1> HIDE DEF asked, late, later, yes, hit
<1>7. CASE hit
  <2>1. Service!Overtaking(cs, a, h)[u] = [Caller(u) EXCEPT !.overtaken = yes]
    BY <1>6, <1>7
  <2>2. later = yes
    BY <1>4, <1>7
  <2>3. [Caller(u) EXCEPT !.overtaken = yes]
          = [asked |-> asked, name |-> call[u].name, password |-> call[u].password,
             outcome |-> call[u].outcome, overtaken |-> yes]
    BY <1>1
  <2> QED
    BY <1>2, <2>1, <2>2, <2>3
<1>8. CASE ~hit
  <2>1. Service!Overtaking(cs, a, h)[u] = Caller(u)
    BY <1>6, <1>8
  <2>2. later = late
    BY <1>5, <1>8
  <2> QED
    BY <1>1, <1>2, <2>1, <2>2
<1> QED
  BY <1>7, <1>8

\* The calls are steps of LoginService: each compares the password or creates the
\* account as if in one step, but for the calls that another process, or an INSERT given
\* up before, overtakes.
THEOREM ImplementsLogin == Spec => Service!SafeSpec
<1> USE AccountStoreAssumption
<1>1. Init => Service!Init
  <2> SUFFICES ASSUME Init PROVE Service!Init
    OBVIOUS
  <2>1. accounts \in [Service!Accounts -> Passwords \cup {None}]
    BY DEF Init, Accounts, Service!Accounts
  <2>2. callers = [t \in Threads |-> Service!NoCall]
    <3>1. \A t \in Threads : call[t] = NoCall /\ t \notin overtaken
      BY DEF Init
    <3> QED
      BY <3>1, NobodyCalls DEF callers
  <2> QED
    BY <2>1, <2>2 DEF Service!Init
<1>2. TypeOK /\ CallInv /\ UnmatchedInv /\ [Next]_vars => [Service!Next]_Service!vars
  <2> SUFFICES ASSUME TypeOK, CallInv, UnmatchedInv, [Next]_vars
               PROVE  Service!Next \/ (UNCHANGED accounts /\ callers' = callers)
    BY DEF Service!vars
  <2>1. ASSUME NEW t \in Threads, Call(t) PROVE Service!Ask(t)
    <3>1. PICK n \in Names \cup {None}, pw \in Passwords \cup {None} :
            call' = [call EXCEPT ![t] = [phase |-> "lock", name |-> n, password |-> pw,
                                         outcome |-> None]]
      BY <2>1 DEF Call
    <3>2. t \notin overtaken /\ call[t].phase = "idle" /\ UNCHANGED <<accounts, overtaken>>
      BY <2>1 DEF Call, UnmatchedInv, Unmatched, databaseVars
    <3>3. Caller(t)' = Service!Asking(n, pw)
      <4> DEFINE asked == call'[t].phase # "idle"
                 late  == t \in overtaken'
      <4>1. call'[t] = [phase |-> "lock", name |-> n, password |-> pw, outcome |-> None]
        BY <3>1 DEF TypeOK
      <4>2. asked = TRUE /\ late = FALSE
        BY <3>2, <4>1
      <4>3. Caller(t)' = [asked |-> asked, name |-> call'[t].name,
                          password |-> call'[t].password, outcome |-> call'[t].outcome,
                          overtaken |-> late]
        BY DEF Caller
      <4>4. call'[t].name = n /\ call'[t].password = pw /\ call'[t].outcome = None
        BY <4>1
      <4> HIDE DEF asked, late
      <4> QED
        BY <4>2, <4>3, <4>4 DEF Service!Asking
    <3>4. \A u \in Threads : u # t => Caller(u)' = Caller(u)
      BY <3>1, <3>2 DEF Caller, TypeOK
    <3>5. callers' = [callers EXCEPT ![t] = Service!Asking(n, pw)]
      BY <3>3, <3>4, CallersChange
    <3> QED
      BY CallerIs, <3>2, <3>5 DEF Service!Ask
  <2>2. ASSUME NEW t \in Threads, Refuse(t) PROVE Service!Refuse(t)
    <3>1. callers' = Service!Decided(t, "InvalidInput")
      BY <2>2, CallDecided DEF Refuse, Finish, Decide, Phases
    <3> QED
      BY <2>2, CallerIs, <3>1 DEF Refuse, Service!Refuse, Service!Decide, CallInv,
                              Answered, databaseVars
  <2>3. ASSUME NEW t \in Threads,
               \/ Enter(t) \/ Connect(t) \/ Stamp(t)
               \/ SelectMatch(t) /\ accounts[Row(t)] # call[t].password
               \/ SelectUser(t) /\ accounts[Row(t)] = None
        PROVE  UNCHANGED accounts /\ callers' = callers
    <3>1. \A u \in Threads : Caller(u)' = Caller(u)
      BY <2>3 DEF Enter, Connect, Stamp, SelectMatch, SelectUser, Matches, Executes,
                  Continue, Caller, TypeOK, Statements
    <3>2. UNCHANGED accounts
      BY <2>3 DEF Enter, Connect, Stamp, SelectMatch, SelectUser, databaseVars
    <3> QED
      BY <3>1, <3>2, CallersStay
  <2>4. ASSUME NEW t \in Threads, Fails(t) \/ LoseInsert(t) PROVE Service!Fail(t)
    <3>1. callers' = Service!Decided(t, "DatabaseError")
      BY <2>4, CallDecided DEF Fails, LoseInsert, Finish, Decide, Phases
    <3> QED
      BY <2>4, CallerIs, <3>1 DEF Fails, LoseInsert, Service!Fail, Service!Decide, CallInv, Asked,
                              Answered, Within, Statements, databaseVars
  <2>5. ASSUME NEW t \in Threads,
               \/ SelectMatch(t) /\ accounts[Row(t)] = call[t].password
               \/ SelectUser(t) /\ accounts[Row(t)] # None
        PROVE  Service!Login(t)
    <3>1. /\ call[t].phase \in {"match", "exists"} /\ call[t].outcome = None
          /\ call[t].name \in Names /\ UNCHANGED <<accounts, overtaken>>
      BY <2>5 DEF SelectMatch, SelectUser, Executes, CallInv, Asked, Answered, Within,
                  Statements, databaseVars
    <3>2. CASE SelectMatch(t) /\ accounts[Row(t)] = call[t].password
      <4>1. callers' = Service!Decided(t, "Success")
        BY <3>1, <3>2, CallDecided DEF SelectMatch, Matches, Phases, Statements
      <4> QED
        BY CallerIs, <3>1, <3>2, <4>1 DEF Service!Login, Service!Decide, Row
    <3>3. CASE SelectUser(t) /\ accounts[Row(t)] # None
      <4>1. callers' = Service!Decided(t, "WrongPassword")
        BY <3>1, <3>3, CallDecided DEF SelectUser, Finish, Decide, Phases
      <4>2. accounts[Row(t)] # call[t].password \/ t \in overtaken
        BY <3>3 DEF SelectUser, Executes, UnmatchedInv, Unmatched
      <4> QED
        BY CallerIs, <3>1, <3>3, <4>1, <4>2 DEF Service!Login, Service!Decide, Row
    <3> QED
      BY <2>5, <3>2, <3>3
  <2>6. ASSUME NEW t \in Threads, Return(t) PROVE Service!Tell(t)
    <3>1. Caller(t)' = Service!NoCall
      <4>1. call'[t] = NoCall /\ t \notin overtaken'
        BY <2>6 DEF Return, TypeOK
      <4> QED
        BY <4>1, NobodyWillCall
    <3>2. \A u \in Threads : u # t => Caller(u)' = Caller(u)
      BY <2>6 DEF Return, Caller, TypeOK
    <3>3. callers' = [callers EXCEPT ![t] = Service!NoCall]
      BY <3>1, <3>2, CallersChange
    <3> QED
      BY <2>6, <3>3, CallerIs DEF Return, Service!Tell, CallInv, Answered, databaseVars
  <2>7. ASSUME NEW h \in Processes, Die(h)
        PROVE  \E t \in Threads : Service!Abandon(Host[t])
    <3>1. PICK t \in Threads : Host[t] = h
      BY DEF Processes
    <3>2. \A u \in Threads : Caller(u)' = IF Host[u] = h THEN Service!NoCall ELSE Caller(u)
      <4>1. ASSUME NEW u \in Threads, Host[u] = h PROVE Caller(u)' = Service!NoCall
        <5>1. call'[u] = NoCall /\ u \notin overtaken'
          BY <2>7, <4>1 DEF Die
        <5> QED
          BY <5>1, NobodyWillCall
      <4>2. ASSUME NEW u \in Threads, Host[u] # h PROVE Caller(u)' = Caller(u)
        BY <2>7, <4>2 DEF Die, Caller
      <4> QED
        BY <4>1, <4>2
    <3>3. callers' = [u \in Threads |-> IF Host[u] = Host[t] THEN Service!NoCall ELSE callers[u]]
      BY <3>1, <3>2, CallerIs DEF callers
    <3> QED
      BY <2>7, <3>3 DEF Die, Service!Abandon
  <2>8. ASSUME NEW t \in Threads, Insert(t) PROVE Service!Create(t)
    <3>1. PICK o \in {"Created", "DatabaseError"} : Decide(t, "return", o)
      BY <2>8 DEF Insert, Finish, Decide
    <3>2. /\ call[t].phase = "insert" /\ call[t].outcome = None /\ call[t].name \in Names
          /\ Inserted(Row(t), call[t].password) /\ Overtake(Row(t), Host[t])
      BY <2>8 DEF Insert, Executes, CallInv, Asked, Answered, Within, Statements
    <3>3. ASSUME NEW u \in Threads
          PROVE  Caller(u)' = Service!Overtaking(Service!Decided(t, o), Row(t), Host[t])[u]
      <4>1. Service!Decided(t, o)[u]
              = IF u = t THEN [Caller(t) EXCEPT !.outcome = o] ELSE Caller(u)
        BY CallerIs DEF Service!Decided, callers
      <4>2. CASE u = t
        BY <3>1, <4>1, <4>2, <3>2 DEF Service!Overtaking, Overtake, Caller, Decide, TypeOK
      <4>3. CASE u # t
        <5>1. call'[u] = call[u]
          BY <3>1, <4>3 DEF Decide, TypeOK
        <5> QED
          BY <3>2, <4>1, <4>3, <5>1, BecomesOvertaken
      <4> QED
        BY <4>2, <4>3
    <3>4. callers' = Service!Overtaking(Service!Decided(t, o), Row(t), Host[t])
      BY <3>3 DEF callers, Service!Overtaking
    <3> QED
      BY <3>2, <3>4, CallerIs DEF Service!Create, Inserted, Row
  <2>9. CASE OrphanEnds
    <3>1. PICK o \in orphans :
            \/ Inserted(o[1], o[2]) /\ Overtake(o[1], None)
            \/ UNCHANGED <<accounts, overtaken>>
      BY <2>9 DEF OrphanEnds
    <3>2. UNCHANGED call
      BY <2>9 DEF OrphanEnds
    <3>3. CASE Inserted(o[1], o[2]) /\ Overtake(o[1], None)
      <4>1. ASSUME NEW u \in Threads
            PROVE  Caller(u)' = Service!Overtaking(callers, o[1], None)[u]
        BY <3>2, <3>3, CallerIs, BecomesOvertaken
      <4>2. callers' = Service!Overtaking(callers, o[1], None)
        BY <4>1 DEF callers, Service!Overtaking
      <4>3. o[1] \in Service!Accounts /\ o[2] \in Passwords
        BY DEF TypeOK, Accounts, Service!Accounts
      <4>4. Service!CreateLate(o[1], o[2])
        BY <3>3, <4>2 DEF Service!CreateLate, Inserted
      <4> QED
        BY <4>3, <4>4 DEF Service!Next
    <3>4. CASE UNCHANGED <<accounts, overtaken>>
      BY <3>2, <3>4 DEF callers, Caller
    <3> QED
      BY <3>1, <3>3, <3>4
  <2>10. ASSUME NEW h \in Processes, CreateDatabase(h) \/ NoDatabase(h) \/ CreateTable(h)
        PROVE  UNCHANGED accounts /\ callers' = callers
    BY <2>10 DEF CreateDatabase, NoDatabase, CreateTable, databaseVars, callers, Caller
  <2>11. CASE UNCHANGED vars
    BY <2>11 DEF vars, databaseVars, callers, Caller
  <2>12. ASSUME NEW t \in Threads, Step(t)
         PROVE  Service!Answer(t) \/ (UNCHANGED accounts /\ callers' = callers)
    <3>1. CASE SelectMatch(t)
      BY <2>3, <2>5, <3>1 DEF Service!Answer
    <3>2. CASE SelectUser(t)
      BY <2>3, <2>5, <3>2 DEF Service!Answer
    <3> QED
      BY <2>2, <2>3, <2>4, <2>6, <2>8, <2>12, <3>1, <3>2 DEF Step, Service!Answer
  <2> QED
    BY <2>1, <2>7, <2>9, <2>10, <2>11, <2>12 DEF Next, Service!Next
<1> QED
  BY <1>1, <1>2, TypeCorrect, UnmatchedHolds, PTL DEF Spec, Service!SafeSpec
================================================================================
