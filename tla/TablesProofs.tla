---------------------------- MODULE TablesProofs ----------------------------
(***************************************************************************)
(* Safety of InitDB for any number of replicas and faults, and what the    *)
(* main of Northbound makes of it.                                         *)
(*                                                                         *)
(* CleanCallCompletes is not inductive: that a clean call leaves the last  *)
(* table follows from its having left, or found, each of those before, and *)
(* that none of its statements is refused from the tables referred to      *)
(* being among those.  Progress says this of a call between two of its     *)
(* statements.                                                             *)
(***************************************************************************)
EXTENDS Northbound, TLAPS

\* The tables that exist can all be referred to by a table that exists.
Closed == \A t \in tables : References[t] \subseteq tables

\* What r's call has left behind.
Progress ==
  \A r \in Replica :
    /\ at[r] > 2 => {"user", "mediator"} \subseteq tables
    /\ clean[r] => \A i \in 1..5 : i < at[r] => Order[i] \in tables

IInv == TypeOK /\ Closed /\ Progress

\* The statements of InitDB by number.
LEMMA Statements ==
  /\ Order[1] = "user" /\ Order[2] = "mediator" /\ Order[3] = "token"
  /\ Order[4] = "client" /\ Order[5] = "device"
  /\ \A i \in 1..5 : Order[i] \in Table
  /\ \A i \in 1..5 : Order[i] = "mediator" <=> i = 2
  BY DEF Order, Table

\* What each table refers to, by name.
LEMMA ForeignKeys ==
  /\ References["user"] = {} /\ References["token"] = {}
  /\ References["mediator"] = {"user"}
  /\ References["client"] = {"user", "mediator", "token"}
  /\ References["device"] = {"user", "mediator", "token"}
  BY DEF References

\* A statement of InitDB refers only to tables of statements before it.
LEMMA ReferencesBefore ==
  ASSUME NEW i \in 1..5, NEW S,
         \A j \in 1..5 : j < i => Order[j] \in S
  PROVE  References[Order[i]] \subseteq S
  BY Statements, ForeignKeys

\* A step that only adds a table whose references exist keeps Closed.
LEMMA ClosedGrows ==
  ASSUME Closed, NEW t, tables' = tables \cup {t},
         References[t] \subseteq tables \/ t \in tables
  PROVE  Closed'
  BY DEF Closed

LEMMA IInvInit == Init => IInv
  BY MaxFaultsAssumption DEF Init, IInv, TypeOK, Closed, Progress, Table, Returned

LEMMA IInvNext == IInv /\ [Next]_vars => IInv'
<1> SUFFICES ASSUME IInv, [Next]_vars PROVE IInv'
  OBVIOUS
<1> USE MaxFaultsAssumption DEF IInv, Returned
<1>1. ASSUME NEW r \in Replica, Begin(r) PROVE IInv'
  <2>1. TypeOK'
    BY <1>1 DEF Begin, TypeOK
  <2>2. Closed'
    BY <1>1 DEF Begin, Closed
  <2>3. Progress'
    BY <1>1 DEF Begin, Progress, TypeOK
  <2> QED
    BY <2>1, <2>2, <2>3
<1>2. ASSUME NEW r \in Replica, Create(r) PROVE IInv'
  <2>1. at[r] \in 1..5 /\ Order[at[r]] \in Table
    BY <1>2, Statements DEF Create, InStatement
  <2>2. tables' = tables \cup {Order[at[r]]}
    BY <1>2 DEF Create
  <2>3. at' = [at EXCEPT ![r] = at[r] + 1] /\ clean' = clean /\ faults' = faults
    BY <1>2 DEF Create
  <2>4. TypeOK'
    BY <2>1, <2>2, <2>3 DEF TypeOK
  <2>5. Closed'
    BY <1>2, <2>2, ClosedGrows DEF Create
  <2>6. Progress'
    <3> SUFFICES ASSUME NEW q \in Replica PROVE
            /\ at'[q] > 2 => {"user", "mediator"} \subseteq tables'
            /\ clean'[q] => \A i \in 1..5 : i < at'[q] => Order[i] \in tables'
      BY DEF Progress
    <3>1. CASE q # r
      BY <3>1, <2>2, <2>3 DEF Progress, TypeOK
    <3>2. CASE q = r
      <4>1. at'[q] = at[r] + 1
        BY <3>2, <2>3 DEF TypeOK
      <4>2. at'[q] > 2 => {"user", "mediator"} \subseteq tables'
        <5>1. CASE at[r] = 2
          BY <5>1, <2>2, <2>5, Statements, ForeignKeys DEF Closed
        <5>2. CASE at[r] # 2
          BY <5>2, <4>1, <2>1, <2>2 DEF Progress
        <5> QED
          BY <5>1, <5>2
      <4>3. clean'[q] => \A i \in 1..5 : i < at'[q] => Order[i] \in tables'
        BY <4>1, <3>2, <2>1, <2>2, <2>3 DEF Progress
      <4> QED
        BY <4>2, <4>3
    <3> QED
      BY <3>1, <3>2
  <2> QED
    BY <2>4, <2>5, <2>6
<1>3. ASSUME NEW r \in Replica, InStatement(r), AfterError(r)
      PROVE  /\ at' \in [Replica -> 0..Returned]
             /\ \A q \in Replica : q # r => at'[q] = at[q]
             /\ at'[r] = at[r] + 1 \/ at'[r] = 0
             /\ at'[r] > 2 => at[r] > 2
  BY <1>3, Statements DEF InStatement, AfterError, TypeOK
<1>4. ASSUME NEW r \in Replica, CreateRefused(r) PROVE IInv'
  <2>1. InStatement(r) /\ AfterError(r) /\ tables' = tables
        /\ clean' = clean /\ faults' = faults
    BY <1>4 DEF CreateRefused
  <2>2. TypeOK' /\ Closed'
    BY <2>1, <1>3 DEF TypeOK, Closed
  <2>3. ~clean[r]
    BY <1>4, ReferencesBefore DEF CreateRefused, InStatement, Progress
  <2>4. Progress'
    BY <2>1, <2>3, <1>3 DEF Progress, TypeOK
  <2> QED
    BY <2>2, <2>4
<1>5. ASSUME NEW r \in Replica, CreateFails(r) PROVE IInv'
  <2>1. InStatement(r) /\ AfterError(r)
        /\ clean' = [clean EXCEPT ![r] = FALSE] /\ Fault
    BY <1>5 DEF CreateFails
  <2>2. \/ tables' = tables
        \/ /\ References[Order[at[r]]] \subseteq tables
           /\ tables' = tables \cup {Order[at[r]]}
    BY <1>5 DEF CreateFails
  <2>3. TypeOK'
    BY <2>1, <2>2, <1>3, Statements DEF TypeOK, Fault, InStatement
  <2>4. Closed'
    BY <2>2, ClosedGrows DEF Closed
  <2>5. Progress'
    BY <2>1, <2>2, <1>3 DEF Progress, TypeOK
  <2> QED
    BY <2>3, <2>4, <2>5
<1>6. ASSUME NEW r \in Replica, Killed(r) PROVE IInv'
  BY <1>6 DEF Killed, Fault, TypeOK, Closed, Progress
<1>7. CASE UNCHANGED vars
  BY <1>7 DEF vars, TypeOK, Closed, Progress
<1> QED
  BY <1>1, <1>2, <1>4, <1>5, <1>6, <1>7 DEF Next, InitDB

\* The inductive invariant.
LEMMA Invariance == Spec => []IInv
  BY IInvInit, IInvNext, PTL DEF Spec

\* Type correctness of Tables, for any replicas and number of faults.
THEOREM TablesTypeCorrect == Spec => []TypeOK
  BY Invariance, PTL DEF IInv

\* InitDB without a fault leaves all five tables, whatever the others do.
THEOREM CleanCallsComplete == Spec => []CleanCallCompletes
<1>1. IInv => CleanCallCompletes
  <2> SUFFICES ASSUME IInv, NEW r \in Replica, at[r] = Returned, clean[r]
               PROVE  tables = Table
    BY DEF CleanCallCompletes
  <2>1. \A i \in 1..5 : Order[i] \in tables
    BY DEF IInv, Progress, Returned
  <2>2. Table \subseteq tables
    BY <2>1, Statements DEF Table
  <2> QED
    BY <2>2 DEF IInv, TypeOK
<1> QED
  BY <1>1, Invariance, PTL

\* No replica listens without the tables of users and mediators.
THEOREM ListenersHaveAccounts == Spec => []ListensWithAccounts
<1>1. IInv => ListensWithAccounts
  BY DEF IInv, Progress, ListensWithAccounts, Returned
<1> QED
  BY <1>1, Invariance, PTL

-----------------------------------------------------------------------------
(* Northbound: main around InitDB.                                         *)

\* main does not come past the DSN it cannot build, and calls nothing after it.
NeverPastOpen ==
  \A r \in Replica :
    dbc[r] = {} /\ pc[r] \in {"process", "open"} /\ at[r] = 0

\* No table, and no call of InitDB.
NothingBegun == tables = {} /\ \A r \in Replica : at[r] = 0

MainTyped ==
  /\ pc \in [Replica -> {"process", "open", "ping", "initDB"}]
  /\ dbc \in [Replica -> SUBSET Field]
  /\ at \in [Replica -> 0..Returned]

LEMMA MainStep ==
  ASSUME MainTyped, NeverPastOpen, [MainNext]_mainVars
  PROVE  MainTyped' /\ NeverPastOpen'
<1> USE DEF MainTyped, NeverPastOpen, Goto
<1>1. ASSUME NEW r \in Replica, Process(r)
      PROVE  MainTyped' /\ NeverPastOpen'
  BY <1>1 DEF Process, Settable, vars
<1>2. ASSUME NEW r \in Replica, Open(r)
      PROVE  MainTyped' /\ NeverPastOpen'
  BY <1>2 DEF Open, vars
<1>3. ASSUME NEW r \in Replica, Ping(r) \/ PingFails(r) \/ InInitDB(r)
      PROVE  FALSE
  BY <1>3 DEF Ping, PingFails, InInitDB
<1>4. CASE UNCHANGED mainVars
  BY <1>4 DEF mainVars, vars
<1> QED
  BY <1>1, <1>2, <1>3, <1>4 DEF MainNext, Main

\* With any number of replicas, restarts and faults, none of them comes to create
\* a table or to listen: the run that refutes SpinsUp shows one behaviour that
\* does not, and this that none does.
THEOREM NorthboundNeverListens ==
  MainSpec => []NothingBegun
<1> DEFINE J == MainTyped /\ NeverPastOpen /\ tables = {}
<1>1. MainInit => J
  BY DEF MainInit, Init, MainTyped, NeverPastOpen, Returned
<1>2. J /\ [MainNext]_mainVars => J'
  <2> SUFFICES ASSUME J, [MainNext]_mainVars PROVE tables' = {}
    BY MainStep
  <2>1. ASSUME NEW r \in Replica, Process(r) \/ Open(r)
        PROVE  tables' = {}
    BY <2>1 DEF Process, Open, vars
  <2>2. ASSUME NEW r \in Replica, Ping(r) \/ PingFails(r) \/ InInitDB(r)
        PROVE  FALSE
    BY <2>2 DEF Ping, PingFails, InInitDB, NeverPastOpen
  <2>3. CASE UNCHANGED mainVars
    BY <2>3 DEF mainVars, vars
  <2> QED
    BY <2>1, <2>2, <2>3 DEF MainNext, Main
<1>3. J => NothingBegun
  BY DEF NeverPastOpen, NothingBegun
<1> QED
  BY <1>1, <1>2, <1>3, PTL DEF MainSpec

\* SpinsUp is not false by chance of a schedule: no fair behaviour satisfies it.
THEOREM NorthboundNeverSpinsUp == MainSpec => ~SpinsUp
<1> DEFINE Listens(r) == pc[r] = "initDB" /\ at[r] = Returned
<1>1. ASSUME NEW r \in Replica
      PROVE  MainSpec => ~<>Listens(r)
  <2>1. NothingBegun => ~Listens(r)
    BY DEF NothingBegun, Returned
  <2> QED
    BY <2>1, NorthboundNeverListens, PTL
<1>2. SUFFICES ASSUME MainSpec, SpinsUp
               PROVE  FALSE
  OBVIOUS
<1>3. PICK r \in Replica : <>Listens(r)
  BY <1>2 DEF SpinsUp
<1> QED
  BY <1>1, <1>2, <1>3
=============================================================================
