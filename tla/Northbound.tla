----------------------------- MODULE Northbound -----------------------------
(***************************************************************************)
(* How a replica of the northbound interface starts: main, which takes its *)
(* configuration from the environment, opens and pings the database, calls *)
(* InitDB (module Tables) and listens.  Kubernetes starts it again when it *)
(* ends.                                                                   *)
(***************************************************************************)
EXTENDS Tables

VARIABLES
  pc,  \* pc[r]: "process", "open", "ping" or "initDB", which includes listening
  dbc  \* dbc[r]: the fields of its dbconfig that are set

mainVars == <<vars, pc, dbc>>

\* The fields of dbconfig.  The config map sets the variable of each of them but
\* redisNumber, which has a default.
Field == {"dbName", "dbUsername", "dbPassword", "dbAddress", "redisPassword",
          "redisAddress", "redisNumber"}

\* The fields that reflection lets another package set: the exported ones.  The
\* name of every field begins with a small letter.
Settable == {}

MainInit ==
  /\ Init
  /\ pc = [r \in Replica |-> "process"]
  /\ dbc = [r \in Replica |-> {}]

Goto(r, l) == pc' = [pc EXCEPT ![r] = l]

\* envconfig.Process skips a field that it cannot set, be it required or not,
\* and has no error to report.
Process(r) ==
  /\ pc[r] = "process"
  /\ dbc' = [dbc EXCEPT ![r] = Settable]
  /\ Goto(r, "open")
  /\ UNCHANGED vars

\* The slash of a data source name comes with dbAddress, "@tcp(host:port)/".
\* ParseDSN refuses a name that has none, here or in Ping: log.Fatal.
Open(r) ==
  /\ pc[r] = "open"
  /\ Goto(r, IF "dbAddress" \in dbc[r] THEN "ping" ELSE "process")
  /\ UNCHANGED <<vars, dbc>>

Ping(r) ==
  /\ pc[r] = "ping"
  /\ Goto(r, "initDB")
  /\ UNCHANGED <<vars, dbc>>

PingFails(r) ==
  /\ Fault
  /\ pc[r] = "ping"
  /\ Goto(r, "process")
  /\ UNCHANGED <<tables, at, clean, dbc>>

\* What main makes of a step of InitDB: it starts again when log.Fatal or a kill
\* has ended it.
InInitDB(r) ==
  /\ pc[r] = "initDB"
  /\ Goto(r, IF at'[r] = 0 THEN "process" ELSE "initDB")
  /\ UNCHANGED dbc

Main(r) ==
  Process(r) \/ Open(r) \/ Ping(r) \/ (InitDB(r) /\ InInitDB(r))

MainNext ==
  \E r \in Replica :
    \/ Main(r) \/ PingFails(r)
    \/ (CreateFails(r) \/ Killed(r)) /\ InInitDB(r)

\* A replica that runs, or that Kubernetes starts again, takes its next step.
MainSpec ==
  MainInit /\ [][MainNext]_mainVars /\ \A r \in Replica : WF_mainVars(Main(r))

-----------------------------------------------------------------------------
(* Property.                                                               *)

\* README.md:31: after kubectl apply "wait a couple minutes for all of the
\* containers and load balancers to spin up".  With the config map in place and
\* finitely many faults a replica comes to listen on port 8080.  False: envconfig
\* fills in no field, and every start ends in log.Fatal.
SpinsUp == \E r \in Replica : <>(pc[r] = "initDB" /\ at[r] = Returned)
=============================================================================
