------------------------------- MODULE Tables -------------------------------
(***************************************************************************)
(* registry.InitDB: how the five tables of the MySQL database come to      *)
(* exist.  Every replica of the northbound interface calls it before it    *)
(* listens; nothing else creates a table.  A step is one CREATE TABLE IF   *)
(* NOT EXISTS.  This module starts where the caller has an open database:  *)
(* whether main gets that far is the subject of Northbound.                *)
(***************************************************************************)
EXTENDS Naturals, Sequences

CONSTANTS
  Replica,   \* processes that call InitDB
  MaxFaults  \* bound: statements that fail on the connection, replicas killed

ASSUME MaxFaultsAssumption == MaxFaults \in Nat

VARIABLES
  tables,  \* the tables that exist
  at,      \* at[r]: 0 outside InitDB, i before its i-th statement,
           \* Returned once it has returned (its error is always nil)
  clean,   \* clean[r]: no statement of r's call met a fault (history)
  faults   \* faults so far

vars == <<tables, at, clean, faults>>

\* Mutant: the client table is created before the tokens it refers to.
OrderClientFirst == <<"user", "mediator", "client", "token", "device">>

\* InitDB creates the tables in this order.
Order == <<"user", "mediator", "token", "client", "device">>
Table == {"user", "mediator", "token", "client", "device"}
Returned == 6

\* The tables that the foreign keys of a table refer to.
References == [
  user     |-> {},
  mediator |-> {"user"},
  token    |-> {},
  client   |-> {"user", "mediator", "token"},
  device   |-> {"user", "mediator", "token"}]

TypeOK ==
  /\ tables \subseteq Table
  /\ at \in [Replica -> 0..Returned]
  /\ clean \in [Replica -> BOOLEAN]
  /\ faults \in 0..MaxFaults

Init ==
  /\ tables = {}
  /\ at = [r \in Replica |-> 0]
  /\ clean = [r \in Replica |-> TRUE]
  /\ faults = 0

Fault == faults < MaxFaults /\ faults' = faults + 1

\* The replica calls InitDB.
Begin(r) ==
  /\ at[r] = 0
  /\ at' = [at EXCEPT ![r] = 1]
  /\ clean' = [clean EXCEPT ![r] = TRUE]
  /\ UNCHANGED <<tables, faults>>

InStatement(r) == at[r] \in 1..5

\* The statement succeeds when the table exists, or when those it refers to do.
Create(r) ==
  LET t == Order[at[r]] IN
  /\ InStatement(r)
  /\ t \in tables \/ References[t] \subseteq tables
  /\ tables' = tables \cup {t}
  /\ at' = [at EXCEPT ![r] = @ + 1]
  /\ UNCHANGED <<clean, faults>>

\* Mutant: createMediatorTable returns its error, as the others do.
AfterErrorLogs(r) == at' = [at EXCEPT ![r] = @ + 1]

\* Mutant: an error skips the next table as well.
AfterErrorSkips(r) ==
  at' = [at EXCEPT ![r] = IF Order[at[r]] = "mediator" THEN 0 ELSE @ + 2]

\* What follows a statement's error: log.Fatal in createMediatorTable, after
\* which the replica starts again, and a line in the log for every other table.
AfterError(r) ==
  at' = [at EXCEPT ![r] = IF Order[at[r]] = "mediator" THEN 0 ELSE @ + 1]

\* MySQL cannot add a foreign key to a table that is missing.
CreateRefused(r) ==
  LET t == Order[at[r]] IN
  /\ InStatement(r)
  /\ t \notin tables /\ ~(References[t] \subseteq tables)
  /\ AfterError(r)
  /\ UNCHANGED <<tables, clean, faults>>

\* The connection or the server fails, before the table is there or after.
CreateFails(r) ==
  /\ Fault
  /\ InStatement(r)
  /\ \/ UNCHANGED tables
     \/ /\ References[Order[at[r]]] \subseteq tables
        /\ tables' = tables \cup {Order[at[r]]}
  /\ clean' = [clean EXCEPT ![r] = FALSE]
  /\ AfterError(r)

\* The replica is killed and starts again.
Killed(r) ==
  /\ Fault
  /\ at[r] # 0
  /\ at' = [at EXCEPT ![r] = 0]
  /\ UNCHANGED <<tables, clean>>

InitDB(r) == Begin(r) \/ Create(r) \/ CreateRefused(r)

Next == \E r \in Replica : InitDB(r) \/ CreateFails(r) \/ Killed(r)

Spec == Init /\ [][Next]_vars

-----------------------------------------------------------------------------
(* Properties.                                                             *)

\* A call none of whose statements met a fault leaves every table, whatever the
\* other replicas did and failed to do before and meanwhile: the order of the
\* statements never has MySQL refuse one.
CleanCallCompletes ==
  \A r \in Replica : at[r] = Returned /\ clean[r] => tables = Table

\* InitDB returns a nil error whatever failed, and main goes on to listen.  Even
\* so no replica listens without the tables of users and mediators, because
\* the log.Fatal in createMediatorTable also catches a user table that is missing.
ListensWithAccounts ==
  \A r \in Replica : at[r] = Returned => {"user", "mediator"} \subseteq tables
=============================================================================
