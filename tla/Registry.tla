------------------------------ MODULE Registry ------------------------------
(***************************************************************************)
(* The SQL side of registry.MysqlRedisRegistry: how a user, a mediator and *)
(* then a device or client come by their tokens, and how tokens are        *)
(* registered and refreshed.  The methods run in the goroutines of the     *)
(* northbound interface's HTTP server and of the gateway pod's CoAP        *)
(* server, over one database, without transactions: a step here is one SQL *)
(* statement or the sending of the answer.                                 *)
(*                                                                         *)
(* A random string is the number of its generation, which the code takes   *)
(* to be unique; 0 is SQL's NULL and Go's "".  The tokens of users and     *)
(* mediators are presented as they were given and never change, so a row   *)
(* of theirs is its username.  A request that changes no row is not a      *)
(* step: one that is refused after a SELECT, and RefreshToken with a       *)
(* string of no row, which is answered Created with empty strings.         *)
(***************************************************************************)
EXTENDS Naturals, Sequences

CONSTANTS
  North,      \* goroutines of the northbound interface
  Gateway,    \* goroutines of the gateway pod
  Username,
  Uuid,       \* device and client UUIDs
  MaxRandom,  \* bound: access and refresh tokens generated
  MaxFaults   \* bound: statements that fail, answers lost, pods that die

ASSUME WorkerAssumption == North \cap Gateway = {}
ASSUME MaxRandomAssumption == MaxRandom \in Nat
ASSUME MaxFaultsAssumption == MaxFaults \in Nat

VARIABLES
  user,       \* table user: the usernames that have a row
  mediator,   \* table mediator: the usernames that have rows
  token,      \* table token: rows [access, refresh], token_id the position
  owner,      \* tables device and client: rows [kind, uuid, username, tid]
  published,  \* rows of table device whose published_resources is not NULL
  issued,     \* access and refresh tokens generated so far
  job,        \* job[w]: the request that w serves, between two of its steps
  told,       \* answers that reached the caller (history)
  lost,       \* answers that never will (history)
  orphaned,   \* token rows whose owner was never inserted (history)
  faults      \* faults so far

vars == <<user, mediator, token, owner, published, issued, job, told, lost,
          orphaned, faults>>
accounts == <<user, mediator, published>>
histories == <<told, lost, orphaned, faults>>

Worker == North \cup Gateway
Random == 0..MaxRandom
TokenId == DOMAIN token
Row == [access: Random, refresh: Random]

Job ==
  [op: {"idle", "insertMediator", "insertToken", "insertOwner", "update", "reply"},
   kind: {"device", "client"}, uuid: Uuid \cup {""}, username: Username \cup {""},
   tid: Nat, mediated: Random, row: Row]

\* What an answer says, and about which row.  "mediated" is the token that
\* was redeemed for it, if any.
Answer == [tid: Nat, mediated: Random, row: Row]
AnswerOf(j) == [tid |-> j.tid, mediated |-> j.mediated, row |-> j.row]

NoRow == [access |-> 0, refresh |-> 0]
Idle == [op |-> "idle", kind |-> "device", uuid |-> "", username |-> "",
         tid |-> 0, mediated |-> 0, row |-> NoRow]

\* Foreign keys are part of the type.
TypeOK ==
  /\ user \subseteq Username /\ mediator \subseteq user
  /\ token \in Seq(Row)
  /\ owner \subseteq [kind: {"device", "client"}, uuid: Uuid,
                      username: Username, tid: TokenId]
  /\ published \subseteq {o \in owner : o.kind = "device"}
  /\ issued \in Random
  /\ job \in [Worker -> Job]
  /\ told \subseteq Answer /\ lost \subseteq Answer
  /\ orphaned \subseteq TokenId
  /\ faults \in 0..MaxFaults

Init ==
  /\ user = {} /\ mediator = {} /\ token = <<>> /\ owner = {}
  /\ published = {}
  /\ issued = 0
  /\ job = [w \in Worker |-> Idle]
  /\ told = {} /\ lost = {} /\ orphaned = {}
  /\ faults = 0

\* Mutant: each call starts its generator from the same seed.
GenerateAgain(n) == issued + n <= MaxRandom /\ issued' = n

\* GenerateRandomString, n times.
Generate(n) == issued + n <= MaxRandom /\ issued' = issued + n

\* The strings that callers can present.
Known == {a.row.access : a \in told} \cup {a.row.refresh : a \in told}

Continue(w, j) == job' = [job EXCEPT ![w] = j]

-----------------------------------------------------------------------------
(* RegisterUser and ProvisionMediator.                                     *)

\* One INSERT; a username that exists violates the unique key.
RegisterUser(w, u) ==
  /\ w \in North /\ job[w] = Idle
  /\ u \notin user
  /\ user' = user \cup {u}
  /\ UNCHANGED <<mediator, token, owner, published, issued, job, histories>>

\* The SELECT finds the user by name and token.  A second mediator of a user is
\* the same row here, so that it is not asked for when there is one.
SelectUser(w, u) ==
  /\ w \in North /\ job[w] = Idle
  /\ u \in user \ mediator
  /\ Continue(w, [Idle EXCEPT !.op = "insertMediator", !.username = u])
  /\ UNCHANGED <<accounts, token, owner, issued, histories>>

InsertMediator(w) ==
  /\ job[w].op = "insertMediator"
  /\ mediator' = mediator \cup {job[w].username}
  /\ Continue(w, Idle)
  /\ UNCHANGED <<user, token, owner, published, issued, histories>>

-----------------------------------------------------------------------------
(* ProvisionDevice and ProvisionClient.                                    *)

SelectMediator(w, kind, id, u) ==
  /\ w \in North /\ job[w] = Idle
  /\ u \in mediator
  /\ Continue(w, [Idle EXCEPT !.op = "insertToken", !.kind = kind,
                              !.uuid = id, !.username = u])
  /\ UNCHANGED <<accounts, token, owner, issued, histories>>

\* Mutant: an INSERT that failed is taken for one that gave the id 0.
InsertTokenIgnoresFailure(w) ==
  /\ job[w].op = "insertToken" /\ Generate(1)
  /\ Continue(w, [job[w] EXCEPT !.op = "insertOwner", !.tid = 0,
                                !.row = [access |-> issued', refresh |-> 0]])
  /\ UNCHANGED <<accounts, token, owner, histories>>

\* LastInsertId comes with the result of this statement.
InsertToken(w) ==
  /\ job[w].op = "insertToken" /\ Generate(1)
  /\ LET row == [access |-> issued', refresh |-> 0] IN
       /\ token' = Append(token, row)
       /\ Continue(w, [job[w] EXCEPT !.op = "insertOwner", !.tid = Len(token'),
                                     !.row = row])
  /\ UNCHANGED <<accounts, owner, histories>>

\* Mutant: the last row of the table at the time of the second INSERT.
InsertOwnerOfLast(w) ==
  /\ job[w].op = "insertOwner"
  /\ owner' = owner \cup {[kind |-> job[w].kind, uuid |-> job[w].uuid,
                           username |-> job[w].username, tid |-> Len(token)]}
  /\ Continue(w, [job[w] EXCEPT !.op = "reply"])
  /\ UNCHANGED <<accounts, token, issued, histories>>

\* Neither uuid column is unique.
InsertOwner(w) ==
  /\ job[w].op = "insertOwner"
  /\ owner' = owner \cup {[kind |-> job[w].kind, uuid |-> job[w].uuid,
                           username |-> job[w].username, tid |-> job[w].tid]}
  /\ Continue(w, [job[w] EXCEPT !.op = "reply"])
  /\ UNCHANGED <<accounts, token, issued, histories>>

\* The second INSERT fails.  handleProvisionDevice sets the status to 500 and
\* goes on to send the token; handleProvisionClient returns (see Drop).
InsertOwnerFails(w) ==
  /\ faults < MaxFaults /\ faults' = faults + 1
  /\ job[w].op = "insertOwner" /\ job[w].kind = "device"
  /\ orphaned' = orphaned \cup {job[w].tid}
  /\ Continue(w, [job[w] EXCEPT !.op = "reply"])
  /\ UNCHANGED <<accounts, token, owner, issued, told, lost>>

-----------------------------------------------------------------------------
(* RegisterDevice, RegisterClient and RefreshToken.                        *)

Rows(kind, id) == {o \in owner : o.kind = kind /\ o.uuid = id}

Redeem(w, o, given) ==
  Continue(w, [Idle EXCEPT !.op = "update", !.kind = o.kind, !.uuid = o.uuid,
                           !.username = o.username, !.tid = o.tid,
                           !.mediated = given])

\* Mutant: the token is not compared.
RegisterDeviceUnchecked(w, id, given) ==
  /\ w \in Gateway /\ job[w] = Idle
  /\ \E o \in Rows("device", id) : Redeem(w, o, given)
  /\ UNCHANGED <<accounts, token, owner, issued, histories>>

\* QueryRow takes the first of the device's rows, whichever that is, and the
\* code compares its token.  Another token is answered with an empty result.
RegisterDevice(w, id, given) ==
  /\ w \in Gateway /\ job[w] = Idle
  /\ \E o \in Rows("device", id) :
       token[o.tid].access = given /\ Redeem(w, o, given)
  /\ UNCHANGED <<accounts, token, owner, issued, histories>>

\* The query of RegisterClient asks for the token as well.
RegisterClient(w, id, given) ==
  /\ w \in North /\ job[w] = Idle
  /\ \E o \in Rows("client", id) :
       token[o.tid].access = given /\ Redeem(w, o, given)
  /\ UNCHANGED <<accounts, token, owner, issued, histories>>

\* UPDATE token ... WHERE token_id = ?, with two new strings.
UpdateToken(w) ==
  /\ job[w].op = "update" /\ Generate(2)
  /\ LET row == [access |-> issued + 1, refresh |-> issued + 2] IN
       /\ token' = [token EXCEPT ![job[w].tid] = row]
       /\ Continue(w, [job[w] EXCEPT !.op = "reply", !.row = row])
  /\ UNCHANGED <<accounts, owner, histories>>

\* Mutant: a new refresh token is told and the old one stored.
RefreshTellsAnother(w, given) ==
  /\ job[w] = Idle /\ Generate(1)
  /\ \E i \in TokenId :
       /\ token[i].refresh = given
       /\ token' = [token EXCEPT ![i].access = issued']
       /\ Continue(w, [Idle EXCEPT !.op = "reply", !.tid = i,
                                   !.row = [access |-> issued', refresh |-> issued']])
  /\ UNCHANGED <<accounts, owner, histories>>

\* RefreshToken, from either server: UPDATE token ... WHERE refresh_token = ?.
RefreshToken(w, given) ==
  /\ job[w] = Idle /\ given # 0 /\ Generate(1)
  /\ \E i \in TokenId :
       /\ token[i].refresh = given
       /\ token' = [token EXCEPT ![i].access = issued']
       /\ Continue(w, [Idle EXCEPT !.op = "reply", !.tid = i, !.row = token'[i]])
  /\ UNCHANGED <<accounts, owner, histories>>

Reply(w) ==
  /\ job[w].op = "reply"
  /\ told' = told \cup {AnswerOf(job[w])}
  /\ Continue(w, Idle)
  /\ UNCHANGED <<accounts, token, owner, issued, lost, orphaned, faults>>

-----------------------------------------------------------------------------
(* PublishResource.                                                        *)

\* One UPDATE, of every row of the UUID in the payload, whoever sends it.  The
\* payload that cannot be decoded has no UUID: handleRDUpdate answers and goes on
\* to update no row.
PublishResource(w, id) ==
  /\ w \in Gateway /\ job[w] = Idle
  /\ published' = published \cup Rows("device", id)
  /\ UNCHANGED <<user, mediator, token, owner, issued, job, histories>>

-----------------------------------------------------------------------------
(* Failures.                                                               *)

\* The requests of S end where they are and their callers hear nothing.
Abandon(S) ==
  /\ job' = [w \in Worker |-> IF w \in S THEN Idle ELSE job[w]]
  /\ lost' = lost \cup {AnswerOf(job[w]) : w \in {x \in S : job[x].op = "reply"}}
  /\ orphaned' = orphaned \cup
       {job[w].tid : w \in {x \in S : job[x].op = "insertOwner"}}
  /\ UNCHANGED <<accounts, token, owner, issued, told>>

\* A statement fails, or the answer cannot be sent.  net/http recovers the
\* panic of a nil sql.Result.  After the INSERT of a mediator has failed,
\* provisionMediator goes on and sends the token behind the status 500: a string
\* that is in no row, opens nothing, and counts as no answer here.
Drop(w) ==
  /\ faults < MaxFaults /\ faults' = faults + 1
  /\ job[w].op # "idle"
  /\ w \in Gateway => job[w].op = "reply"
  /\ Abandon({w})

\* The pod dies: the machine, log.Fatal after an UPDATE that failed, or a nil
\* sql.Result in handleTokenRefresh or handleRDUpdate.
PodDies ==
  /\ faults < MaxFaults /\ faults' = faults + 1
  /\ Abandon(Gateway)

\* RegisterDevice of a uuid that has no row: sql.ErrNoRows, log.Fatal.
RegisterUnknown(w, id) ==
  /\ w \in Gateway /\ job[w] = Idle
  /\ Rows("device", id) = {}
  /\ Abandon(Gateway)
  /\ UNCHANGED faults

-----------------------------------------------------------------------------
Next ==
  \/ \E w \in Worker :
       \/ \E u \in Username : RegisterUser(w, u) \/ SelectUser(w, u)
       \/ InsertMediator(w)
       \/ \E id \in Uuid :
            \/ \E kind \in {"device", "client"}, u \in Username :
                 SelectMediator(w, kind, id, u)
            \/ \E given \in Known :
                 RegisterDevice(w, id, given) \/ RegisterClient(w, id, given)
            \/ RegisterUnknown(w, id) \/ PublishResource(w, id)
       \/ InsertToken(w) \/ InsertOwner(w) \/ InsertOwnerFails(w)
       \/ UpdateToken(w)
       \/ \E given \in Known : RefreshToken(w, given)
       \/ Reply(w) \/ Drop(w)
  \/ PodDies

Spec == Init /\ [][Next]_vars

-----------------------------------------------------------------------------
(* Properties.                                                             *)

\* What the row i of the table token belongs to: rows that refer to it, requests
\* that are about to insert one, and a provisioning that failed before it did.
Claims(i) ==
  {<<"row", o>> : o \in {x \in owner : x.tid = i}}
    \cup {<<"job", w>> : w \in {x \in Worker : job[x].op = "insertOwner" /\ job[x].tid = i}}
    \cup {<<"failed">> : x \in orphaned \cap {i}}

\* Every token row belongs to one device or client, to a provisioning that is
\* about to insert it, or to one that failed between its two INSERTs; and no
\* row to two of them, however provisionings interleave.
TokenRowsOwned ==
  \A i \in TokenId : \E x \in Claims(i) : Claims(i) = {x}

\* The access and refresh token in a row are together in one answer, told, on
\* its way or lost: no interleaving of registrations and refreshes leaves a
\* pair that nobody was ever told, and one row answers for a string.
PairsAreIssued ==
  \A i \in TokenId :
    \/ \E a \in told \cup lost : a.tid = i /\ a.row = token[i]
    \/ \E w \in Worker : /\ job[w].op \in {"insertOwner", "reply"}
                         /\ job[w].tid = i /\ job[w].row = token[i]
    \/ i \in orphaned

\* mysqlredisregistry.go:130: ProvisionDevice returns a "one-time device access
\* token".  No token is redeemed by two registrations that are both answered.
\* False of two requests that both read the row before either updates it.
OneTimeToken ==
  \A a, b \in told : a.mediated # 0 /\ a.mediated = b.mediated => a = b
=============================================================================
