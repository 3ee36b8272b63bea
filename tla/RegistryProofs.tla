--------------------------- MODULE RegistryProofs ---------------------------
(***************************************************************************)
(* Proofs about Registry for every number of goroutines, users, UUIDs,     *)
(* tokens and failures.                                                    *)
(***************************************************************************)
EXTENDS RegistryCredentials, TLAPS

\* What a request carries when it is about to execute a statement.
JobsFit ==
  \A w \in Worker :
    /\ job[w].op = "insertMediator" => job[w].username \in user
    /\ job[w].op \in {"insertToken", "insertOwner"}
         => job[w].uuid \in Uuid /\ job[w].username \in Username
    /\ job[w].op \in {"insertOwner", "update"} => job[w].tid \in TokenId

TypeInv == TypeOK /\ JobsFit

\* Every row is claimed, and not twice.
Pending(w, i) == job[w].op = "insertOwner" /\ job[w].tid = i
Claimed(i) ==
  (\E o \in owner : o.tid = i) \/ (\E w \in Worker : Pending(w, i)) \/ i \in orphaned

ClaimedOnce ==
  /\ \A o, q \in owner : o.tid = q.tid => o = q
  /\ \A v, w \in Worker : Pending(v, job[w].tid) /\ Pending(w, job[w].tid) => v = w
  /\ \A o \in owner, w \in Worker : ~Pending(w, o.tid)
  /\ \A o \in owner : o.tid \notin orphaned
  /\ \A w \in Worker, i \in orphaned : ~Pending(w, i)

ClaimInv == TypeInv /\ ClaimedOnce /\ \A i \in TokenId : Claimed(i)

-----------------------------------------------------------------------------
(* Types.                                                                  *)

LEMMA IdleTyped == Idle \in Job
BY MaxRandomAssumption DEF Idle, Job, NoRow, Row, Random

\* An answer about to be sent is one.
LEMMA AnswerTyped == ASSUME NEW j \in Job PROVE AnswerOf(j) \in Answer
BY DEF AnswerOf, Answer, Job

LEMMA KnownTyped == TypeOK => Known \subseteq Random
BY DEF TypeOK, Known, Answer, Row

\* Rows are added at the end and changed where they are.
LEMMA RowAdded ==
  ASSUME NEW S, NEW s \in Seq(S), NEW x \in S
  PROVE  /\ Append(s, x) \in Seq(S) /\ DOMAIN Append(s, x) = DOMAIN s \cup {Len(s) + 1}
         /\ Len(Append(s, x)) = Len(s) + 1 /\ Len(s) + 1 \notin DOMAIN s
         /\ Append(s, x)[Len(s) + 1] = x
         /\ \A i \in DOMAIN s : Append(s, x)[i] = s[i]
OBVIOUS

LEMMA RowChanged ==
  ASSUME NEW S, NEW s \in Seq(S), NEW i \in DOMAIN s, NEW x \in S
  PROVE  /\ [s EXCEPT ![i] = x] \in Seq(S) /\ DOMAIN [s EXCEPT ![i] = x] = DOMAIN s
         /\ [s EXCEPT ![i] = x][i] = x
         /\ \A k \in DOMAIN s \ {i} : [s EXCEPT ![i] = x][k] = s[k]
OBVIOUS

LEMMA TypeInit == Init => TypeInv
<1> SUFFICES ASSUME Init PROVE TypeInv
  OBVIOUS
<1>1. token \in Seq(Row) /\ token = <<>>
  BY DEF Init
<1>2. job \in [Worker -> Job] /\ \A w \in Worker : job[w].op = "idle"
  BY IdleTyped DEF Init, Idle
<1>3. /\ user = {} /\ mediator = {} /\ owner = {} /\ published = {}
      /\ told = {} /\ lost = {} /\ orphaned = {}
      /\ issued \in Random /\ faults \in 0..MaxFaults
  BY MaxRandomAssumption, MaxFaultsAssumption DEF Init, Random
<1>4. TypeOK
  BY <1>1, <1>2, <1>3 DEF TypeOK
<1>5. JobsFit
  BY <1>2 DEF JobsFit
<1> QED
  BY <1>4, <1>5 DEF TypeInv

\* A step that continues with one request and leaves the tables alone.
LEMMA JobUpdate ==
  ASSUME TypeInv, NEW w \in Worker, NEW j \in Job, Continue(w, j),
         UNCHANGED <<user, mediator, token, owner, published, told, lost>>,
         issued' \in Random, orphaned' \subseteq TokenId, faults' \in 0..MaxFaults,
         j.op = "insertMediator" => j.username \in user,
         j.op \in {"insertToken", "insertOwner"} => j.uuid \in Uuid /\ j.username \in Username,
         j.op \in {"insertOwner", "update"} => j.tid \in TokenId
  PROVE  TypeInv'
<1>1. TypeOK'
  BY DEF TypeInv, TypeOK, Continue, TokenId
<1>2. JobsFit'
  BY DEF TypeInv, TypeOK, JobsFit, Continue, TokenId
<1> QED
  BY <1>1, <1>2 DEF TypeInv

LEMMA TypeAbandon ==
  ASSUME TypeInv, NEW S \in SUBSET Worker, Abandon(S), faults' \in 0..MaxFaults
  PROVE  TypeInv'
<1>1. job' \in [Worker -> Job]
  BY IdleTyped DEF TypeInv, TypeOK, Abandon
<1>2. lost' \subseteq Answer
  BY AnswerTyped DEF TypeInv, TypeOK, Abandon
<1>3. orphaned' \subseteq TokenId
  BY DEF TypeInv, TypeOK, JobsFit, Abandon
<1>4. UNCHANGED <<user, mediator, published, token, owner, issued, told>>
  BY DEF Abandon, accounts
<1>5. TypeOK'
  BY <1>1, <1>2, <1>3, <1>4 DEF TypeInv, TypeOK, TokenId
<1>6. JobsFit'
  BY <1>4 DEF TypeInv, TypeOK, JobsFit, Abandon, Idle, TokenId
<1> QED
  BY <1>5, <1>6 DEF TypeInv

LEMMA TypeStep == TypeInv /\ [Next]_vars => TypeInv'
<1> SUFFICES ASSUME TypeInv, [Next]_vars
             PROVE  TypeInv'
  OBVIOUS
<1> USE MaxRandomAssumption, MaxFaultsAssumption
<1>1. ASSUME NEW w \in Worker, NEW u \in Username, RegisterUser(w, u)
      PROVE  TypeInv'
  BY <1>1 DEF RegisterUser, histories, TypeInv, TypeOK, JobsFit, TokenId
<1>2. ASSUME NEW w \in Worker, NEW u \in Username, SelectUser(w, u)
      PROVE  TypeInv'
  <2> DEFINE j == [Idle EXCEPT !.op = "insertMediator", !.username = u]
  <2>1. j \in Job /\ j.op = "insertMediator" /\ j.username = u
    BY IdleTyped DEF Idle, Job
  <2> HIDE DEF j
  <2>2. Continue(w, j) /\ u \in user
    BY <1>2 DEF SelectUser, j
  <2>3. UNCHANGED <<user, mediator, token, owner, published, told, lost, issued,
                    orphaned, faults>>
    BY <1>2 DEF SelectUser, accounts, histories
  <2> QED
    BY <2>1, <2>2, <2>3, JobUpdate DEF TypeInv, TypeOK, TokenId
<1>3. ASSUME NEW w \in Worker, InsertMediator(w)
      PROVE  TypeInv'
  <2>1. mediator' \subseteq user /\ job' = [job EXCEPT ![w] = Idle]
    BY <1>3 DEF InsertMediator, Continue, TypeInv, TypeOK, JobsFit
  <2>2. UNCHANGED <<user, token, owner, published, issued, told, lost, orphaned, faults>>
    BY <1>3 DEF InsertMediator, histories
  <2>3. TypeOK'
    BY <2>1, <2>2, IdleTyped DEF TypeInv, TypeOK, TokenId
  <2>4. JobsFit'
    BY <2>1, <2>2 DEF TypeInv, TypeOK, JobsFit, Idle, TokenId
  <2> QED
    BY <2>3, <2>4 DEF TypeInv
<1>4. ASSUME NEW w \in Worker, NEW kind \in {"device", "client"}, NEW id \in Uuid,
             NEW u \in Username, SelectMediator(w, kind, id, u)
      PROVE  TypeInv'
  <2> DEFINE j == [Idle EXCEPT !.op = "insertToken", !.kind = kind,
                               !.uuid = id, !.username = u]
  <2>1. j \in Job /\ j.op = "insertToken" /\ j.username = u /\ j.uuid = id
    BY IdleTyped DEF Idle, Job
  <2> HIDE DEF j
  <2>2. Continue(w, j)
    BY <1>4 DEF SelectMediator, j
  <2>3. UNCHANGED <<user, mediator, token, owner, published, told, lost, issued,
                    orphaned, faults>>
    BY <1>4 DEF SelectMediator, accounts, histories
  <2> QED
    BY <2>1, <2>2, <2>3, JobUpdate DEF TypeInv, TypeOK, TokenId
<1>5. ASSUME NEW w \in Worker, InsertToken(w)
      PROVE  TypeInv'
  <2> DEFINE row == [access |-> issued', refresh |-> 0]
             j == [job[w] EXCEPT !.op = "insertOwner", !.tid = Len(token'), !.row = row]
  <2>1. /\ issued' \in Random /\ token' = Append(token, row) /\ job' = [job EXCEPT ![w] = j]
        /\ job[w].op = "insertToken"
    BY <1>5 DEF InsertToken, Generate, Continue, TypeInv, TypeOK, Random
  <2>2. UNCHANGED <<user, mediator, published, owner, told, lost, orphaned, faults>>
    BY <1>5 DEF InsertToken, accounts, histories
  <2>3. row \in Row
    BY <2>1 DEF Row, Random
  <2> HIDE DEF row
  <2>4. /\ token' \in Seq(Row) /\ TokenId \subseteq TokenId' /\ Len(token') \in TokenId'
        /\ Len(token') \in Nat
    BY <2>1, <2>3, RowAdded DEF TypeInv, TypeOK, TokenId
  <2>5. /\ j \in Job /\ j.op = "insertOwner" /\ j.uuid = job[w].uuid
        /\ j.username = job[w].username /\ j.tid \in TokenId'
    <3> DEFINE x == [job[w] EXCEPT !.op = "insertOwner"]
               y == [x EXCEPT !.tid = Len(token')]
    <3>1. x \in Job /\ x.op = "insertOwner" /\ x.uuid = job[w].uuid /\ x.username = job[w].username
      BY DEF TypeInv, TypeOK, Job
    <3>2. j = [y EXCEPT !.row = row]
      OBVIOUS
    <3> HIDE DEF x
    <3>3. y \in Job /\ y.op = x.op /\ y.uuid = x.uuid /\ y.username = x.username /\ y.tid = Len(token')
      BY <2>4, <3>1 DEF Job
    <3> HIDE DEF y, j
    <3> QED
      BY <2>3, <2>4, <3>1, <3>2, <3>3 DEF Job
  <2> HIDE DEF j
  <2>6. TypeOK'
    BY <2>1, <2>2, <2>4, <2>5 DEF TypeInv, TypeOK
  <2>7. JobsFit'
    BY <2>1, <2>2, <2>4, <2>5 DEF TypeInv, TypeOK, JobsFit
  <2> QED
    BY <2>6, <2>7 DEF TypeInv
<1>6. ASSUME NEW w \in Worker, InsertOwner(w)
      PROVE  TypeInv'
  <2> DEFINE o == [kind |-> job[w].kind, uuid |-> job[w].uuid,
                   username |-> job[w].username, tid |-> job[w].tid]
             j == [job[w] EXCEPT !.op = "reply"]
  <2>1. /\ owner' = owner \cup {o} /\ job' = [job EXCEPT ![w] = j]
        /\ job[w].op = "insertOwner"
    BY <1>6 DEF InsertOwner, Continue
  <2>2. UNCHANGED <<user, mediator, published, token, issued, told, lost, orphaned, faults>>
    BY <1>6 DEF InsertOwner, accounts, histories
  <2>3. o \in [kind: {"device", "client"}, uuid: Uuid, username: Username, tid: TokenId]
    BY <2>1 DEF TypeInv, TypeOK, JobsFit, Job
  <2>4. j \in Job /\ j.op = "reply"
    BY DEF TypeInv, TypeOK, Job
  <2> HIDE DEF o, j
  <2>5. TypeOK'
    BY <2>1, <2>2, <2>3, <2>4 DEF TypeInv, TypeOK, TokenId
  <2>6. JobsFit'
    BY <2>1, <2>2, <2>4 DEF TypeInv, TypeOK, JobsFit, TokenId
  <2> QED
    BY <2>5, <2>6 DEF TypeInv
<1>7. ASSUME NEW w \in Worker, InsertOwnerFails(w)
      PROVE  TypeInv'
  <2> DEFINE j == [job[w] EXCEPT !.op = "reply"]
  <2>1. j \in Job /\ j.op = "reply"
    BY DEF TypeInv, TypeOK, Job
  <2>2. Continue(w, j) /\ orphaned' = orphaned \cup {job[w].tid}
    BY <1>7 DEF InsertOwnerFails
  <2>3. UNCHANGED <<user, mediator, token, owner, published, told, lost, issued>>
    BY <1>7 DEF InsertOwnerFails, accounts
  <2>4. faults' \in 0..MaxFaults
    BY <1>7 DEF InsertOwnerFails, TypeInv, TypeOK
  <2>5. orphaned' \subseteq TokenId
    BY <1>7, <2>2 DEF InsertOwnerFails, TypeInv, TypeOK, JobsFit
  <2> HIDE DEF j
  <2> QED
    BY <2>1, <2>2, <2>3, <2>4, <2>5, JobUpdate DEF TypeInv, TypeOK
<1>8. ASSUME NEW w \in Worker, NEW kind, NEW id, NEW given \in Random,
             NEW o \in Rows(kind, id), Redeem(w, o, given),
             UNCHANGED <<accounts, token, owner, issued, histories>>
      PROVE  TypeInv'
  <2> DEFINE j == [Idle EXCEPT !.op = "update", !.kind = o.kind, !.uuid = o.uuid,
                       !.username = o.username, !.tid = o.tid, !.mediated = given]
  <2>1. /\ o.kind \in {"device", "client"} /\ o.uuid \in Uuid
        /\ o.username \in Username /\ o.tid \in TokenId /\ o.tid \in Nat
    BY <1>8 DEF Rows, TypeInv, TypeOK, TokenId
  <2>2. j \in Job /\ j.op = "update" /\ j.tid = o.tid
    BY <2>1, IdleTyped DEF Idle, Job
  <2>3. Continue(w, j)
    BY <1>8 DEF Redeem
  <2> HIDE DEF j
  <2>4. UNCHANGED <<user, mediator, token, owner, published, told, lost, issued,
                    orphaned, faults>>
    BY <1>8 DEF accounts, histories
  <2> QED
    BY <2>1, <2>2, <2>3, <2>4, JobUpdate DEF TypeInv, TypeOK, TokenId
<1>9. ASSUME NEW w \in Worker, NEW id \in Uuid, NEW given \in Known,
             RegisterDevice(w, id, given) \/ RegisterClient(w, id, given)
      PROVE  TypeInv'
  BY <1>8, <1>9, KnownTyped DEF RegisterDevice, RegisterClient, TypeInv
<1>10. ASSUME NEW w \in Worker, UpdateToken(w)
       PROVE  TypeInv'
  <2> DEFINE row == [access |-> issued + 1, refresh |-> issued + 2]
             j == [job[w] EXCEPT !.op = "reply", !.row = row]
  <2>1. /\ issued' \in Random /\ token' = [token EXCEPT ![job[w].tid] = row]
        /\ job' = [job EXCEPT ![w] = j] /\ job[w].tid \in TokenId /\ row \in Row
    BY <1>10 DEF UpdateToken, Generate, Continue, TypeInv, TypeOK, JobsFit, Random, Row
  <2>2. UNCHANGED <<user, mediator, published, owner, told, lost, orphaned, faults>>
    BY <1>10 DEF UpdateToken, accounts, histories
  <2> HIDE DEF row
  <2>3. token' \in Seq(Row) /\ UNCHANGED TokenId
    BY <2>1, RowChanged DEF TypeInv, TypeOK, TokenId
  <2>4. j \in Job /\ j.op = "reply"
    BY <2>1 DEF TypeInv, TypeOK, Job
  <2> HIDE DEF j
  <2>5. TypeOK'
    BY <2>1, <2>2, <2>3, <2>4 DEF TypeInv, TypeOK
  <2>6. JobsFit'
    BY <2>1, <2>2, <2>3, <2>4 DEF TypeInv, TypeOK, JobsFit
  <2> QED
    BY <2>5, <2>6 DEF TypeInv
<1>11. ASSUME NEW w \in Worker, NEW given \in Known, RefreshToken(w, given)
       PROVE  TypeInv'
  <2>1. PICK i \in TokenId :
          /\ token' = [token EXCEPT ![i].access = issued']
          /\ Continue(w, [Idle EXCEPT !.op = "reply", !.tid = i, !.row = token'[i]])
    BY <1>11 DEF RefreshToken
  <2> DEFINE row == [token[i] EXCEPT !.access = issued']
             j == [Idle EXCEPT !.op = "reply", !.tid = i, !.row = token'[i]]
  <2>2. /\ issued' \in Random /\ i \in Nat /\ token[i] \in Row
        /\ UNCHANGED <<user, mediator, published, owner, told, lost, orphaned, faults>>
    BY <1>11 DEF RefreshToken, Generate, accounts, histories, TypeInv, TypeOK, TokenId, Random
  <2>3. row \in Row
    BY <2>2 DEF Row
  <2>4. token' = [token EXCEPT ![i] = row]
    BY <2>1
  <2> HIDE DEF row
  <2>5. token' \in Seq(Row) /\ UNCHANGED TokenId /\ token'[i] \in Row
    BY <2>3, <2>4, RowChanged DEF TypeInv, TypeOK, TokenId
  <2>6. j \in Job /\ j.op = "reply"
    BY <2>2, <2>5, IdleTyped DEF Idle, Job
  <2>7. job' = [job EXCEPT ![w] = j]
    BY <2>1 DEF Continue
  <2> HIDE DEF j
  <2>8. TypeOK'
    BY <2>2, <2>5, <2>6, <2>7 DEF TypeInv, TypeOK
  <2>9. JobsFit'
    BY <2>2, <2>5, <2>6, <2>7 DEF TypeInv, TypeOK, JobsFit
  <2> QED
    BY <2>8, <2>9 DEF TypeInv
<1>12. ASSUME NEW w \in Worker, Reply(w)
       PROVE  TypeInv'
  <2>1. job' = [job EXCEPT ![w] = Idle] /\ told' = told \cup {AnswerOf(job[w])}
    BY <1>12 DEF Reply, Continue
  <2>2. UNCHANGED <<user, mediator, published, token, owner, issued, lost, orphaned, faults>>
    BY <1>12 DEF Reply, accounts
  <2>3. told' \subseteq Answer
    BY <2>1, AnswerTyped DEF TypeInv, TypeOK
  <2>4. TypeOK'
    BY <2>1, <2>2, <2>3, IdleTyped DEF TypeInv, TypeOK, TokenId
  <2>5. JobsFit'
    BY <2>1, <2>2 DEF TypeInv, TypeOK, JobsFit, Idle, TokenId
  <2> QED
    BY <2>4, <2>5 DEF TypeInv
<1>13. ASSUME NEW w \in Worker, Drop(w)
       PROVE  TypeInv'
  BY <1>13, TypeAbandon DEF Drop, TypeInv, TypeOK
<1>14. ASSUME NEW w \in Worker, NEW id, RegisterUnknown(w, id)
       PROVE  TypeInv'
  BY <1>14, TypeAbandon DEF RegisterUnknown, TypeInv, TypeOK, Worker
<1>15. ASSUME PodDies
       PROVE  TypeInv'
  BY <1>15, TypeAbandon DEF PodDies, TypeInv, TypeOK, Worker
<1>16. ASSUME NEW w \in Worker, NEW id, PublishResource(w, id)
       PROVE  TypeInv'
  BY <1>16 DEF PublishResource, Rows, histories, TypeInv, TypeOK, JobsFit, TokenId
<1>17. ASSUME UNCHANGED vars
       PROVE  TypeInv'
  BY <1>17 DEF vars, TypeInv, TypeOK, JobsFit, TokenId
<1> QED
  BY <1>1, <1>2, <1>3, <1>4, <1>5, <1>6, <1>7, <1>9, <1>10, <1>11, <1>12, <1>13,
     <1>14, <1>15, <1>16, <1>17
     DEF Next

LEMMA TypeInvariant == Spec => []TypeInv
BY TypeInit, TypeStep, PTL DEF Spec

\* Every variable of Registry keeps its type, foreign keys included: a device or
\* client row refers to a token row that exists, whatever fails in between.
THEOREM RegistryTypeCorrect == Spec => []TypeOK
BY TypeInvariant, PTL DEF TypeInv

-----------------------------------------------------------------------------
(* Every token row has one owner.                                          *)

\* A step that neither adds a row nor touches a request about to insert an owner.
LEMMA ClaimFrame ==
  ASSUME ClaimInv, TypeInv', UNCHANGED <<owner, orphaned, TokenId>>,
         \A v \in Worker :
           job[v].op = "insertOwner" \/ job'[v].op = "insertOwner" => job'[v] = job[v]
  PROVE  ClaimInv'
BY DEF ClaimInv, ClaimedOnce, Claimed, Pending

\* A provisioning that ends its row's wait, by inserting the owner or failing.
LEMMA ClaimSettled ==
  ASSUME ClaimInv, TypeInv', NEW w \in Worker, NEW o, NEW i \in TokenId,
         Pending(w, i), job'[w].op # "insertOwner",
         \A v \in Worker \ {w} : job'[v] = job[v],
         UNCHANGED TokenId,
         \/ o.tid = i /\ owner' = owner \cup {o} /\ UNCHANGED orphaned
         \/ orphaned' = orphaned \cup {i} /\ UNCHANGED owner
  PROVE  ClaimInv'
<1>1. \A x \in owner : x.tid # i
  BY DEF ClaimInv, ClaimedOnce
<1>2. i \notin orphaned /\ \A v \in Worker \ {w} : ~Pending(v, i)
  BY DEF ClaimInv, ClaimedOnce, Pending
<1>3. ClaimedOnce'
  BY <1>1, <1>2 DEF ClaimInv, ClaimedOnce, Pending
<1>4. (\A k \in TokenId : Claimed(k))'
  BY <1>1, <1>2 DEF ClaimInv, Claimed, Pending
<1> QED
  BY <1>3, <1>4 DEF ClaimInv

\* Requests that end take their claims over to orphaned.
LEMMA ClaimAbandon ==
  ASSUME ClaimInv, TypeInv', NEW S \in SUBSET Worker, Abandon(S)
  PROVE  ClaimInv'
<1>1. /\ \A v \in S : job'[v].op = "idle"
      /\ \A v \in Worker \ S : job'[v] = job[v]
      /\ UNCHANGED <<owner, token>>
  BY DEF Abandon, Idle
<1>2. \A i : i \in orphaned' <=> i \in orphaned \/ \E v \in S : Pending(v, i)
  BY DEF Abandon, Pending
<1>3. ClaimedOnce'
  BY <1>1, <1>2 DEF ClaimInv, ClaimedOnce, Pending
<1>4. (\A k \in TokenId : Claimed(k))'
  BY <1>1, <1>2 DEF ClaimInv, Claimed, Pending, TokenId
<1> QED
  BY <1>3, <1>4 DEF ClaimInv

\* The row that a step adds is new.
LEMMA ClaimAdded ==
  ASSUME ClaimInv, TypeInv', NEW w \in Worker, InsertToken(w)
  PROVE  ClaimInv'
<1> DEFINE i == Len(token) + 1
<1>1. /\ TokenId' = TokenId \cup {i} /\ i \notin TokenId /\ job'[w].op = "insertOwner"
      /\ job'[w].tid = i
  <2> DEFINE row == [access |-> issued', refresh |-> 0]
             j == [job[w] EXCEPT !.op = "insertOwner", !.tid = Len(token'), !.row = row]
  <2>1. token \in Seq(Row) /\ token' = Append(token, row) /\ job' = [job EXCEPT ![w] = j]
    BY DEF InsertToken, Continue, ClaimInv, TypeInv, TypeOK
  <2>2. row \in Row
    BY DEF InsertToken, Generate, Row, Random, ClaimInv, TypeInv, TypeOK
  <2> HIDE DEF row
  <2>3. TokenId' = TokenId \cup {i} /\ i \notin TokenId /\ Len(token') = i
    BY <2>1, <2>2, RowAdded DEF TokenId
  <2>4. j.op = "insertOwner" /\ j.tid = Len(token')
    BY DEF ClaimInv, TypeInv, TypeOK, Job
  <2> HIDE DEF j
  <2>5. job'[w] = j
    BY <2>1 DEF ClaimInv, TypeInv, TypeOK
  <2> QED
    BY <2>3, <2>4, <2>5
<1>2. /\ UNCHANGED <<owner, orphaned>> /\ job[w].op # "insertOwner"
      /\ \A v \in Worker \ {w} : job'[v] = job[v]
  BY DEF InsertToken, Continue, histories, ClaimInv, TypeInv, TypeOK
<1> HIDE DEF i
<1>3. /\ \A o \in owner : o.tid # i
      /\ \A v \in Worker : job[v].op = "insertOwner" => job[v].tid # i
      /\ i \notin orphaned
  BY <1>1 DEF ClaimInv, TypeInv, TypeOK, JobsFit
<1>4. ClaimedOnce'
  BY <1>1, <1>2, <1>3 DEF ClaimInv, ClaimedOnce, Pending
<1>5. (\A k \in TokenId : Claimed(k))'
  BY <1>1, <1>2 DEF ClaimInv, Claimed, Pending
<1> QED
  BY <1>4, <1>5 DEF ClaimInv

LEMMA ClaimInit == Init => ClaimInv
<1> SUFFICES ASSUME Init PROVE ClaimInv
  OBVIOUS
<1>1. TypeInv /\ owner = {} /\ orphaned = {}
  BY TypeInit DEF Init
<1>2. TokenId = {}
  BY DEF Init, TokenId
<1>3. \A w \in Worker : job[w].op = "idle"
  BY DEF Init, Idle
<1> QED
  BY <1>1, <1>2, <1>3 DEF ClaimInv, ClaimedOnce, Pending

\* A request that moves on, and is about to insert an owner neither before nor after.
LEMMA ClaimMoves ==
  ASSUME ClaimInv, TypeInv', UNCHANGED <<owner, orphaned, TokenId>>,
         NEW w \in Worker, NEW j, Continue(w, j),
         job[w].op # "insertOwner", j.op # "insertOwner"
  PROVE  ClaimInv'
<1>1. job'[w] = j /\ \A v \in Worker \ {w} : job'[v] = job[v]
  BY DEF Continue, ClaimInv, TypeInv, TypeOK
<1> QED
  BY <1>1, ClaimFrame

LEMMA IdleOp == Idle.op = "idle"
BY DEF Idle

\* A request that answers with the row it has.
LEMMA ReplyOfJob ==
  ASSUME NEW j \in Job
  PROVE  LET k == [j EXCEPT !.op = "reply"]
         IN  k.op = "reply" /\ k.tid = j.tid /\ k.row = j.row /\ k.mediated = j.mediated
BY DEF Job

\* A request that goes on to insert the owner of a row.
LEMMA OwnerOfRow ==
  ASSUME NEW j \in Job, NEW t, NEW row
  PROVE  LET k == [j EXCEPT !.op = "insertOwner", !.tid = t, !.row = row]
         IN  k.op = "insertOwner" /\ k.tid = t /\ k.row = row /\ k.mediated = j.mediated
<1> DEFINE fields == {"op", "kind", "uuid", "username", "tid", "mediated", "row"}
           x == [j EXCEPT !.op = "insertOwner"]
           y == [x EXCEPT !.tid = t]
<1>1. DOMAIN x = fields /\ x.op = "insertOwner" /\ x = [f \in DOMAIN x |-> x[f]]
  BY DEF Job
<1> HIDE DEF x
<1>2. DOMAIN y = fields /\ y.op = "insertOwner" /\ y.tid = t /\ y = [f \in DOMAIN y |-> y[f]]
  BY <1>1
<1> HIDE DEF y
<1>3. LET k == [y EXCEPT !.row = row] IN k.op = "insertOwner" /\ k.tid = t /\ k.row = row
  BY <1>2
<1> QED
  BY <1>3 DEF x, y

\* A request that answers with a new row.
LEMMA ReplyWithRow ==
  ASSUME NEW j \in Job, NEW row
  PROVE  LET k == [j EXCEPT !.op = "reply", !.row = row]
         IN  k.op = "reply" /\ k.tid = j.tid /\ k.row = row /\ k.mediated = j.mediated
<1> DEFINE x == [j EXCEPT !.op = "reply"]
<1>1. x.op = "reply" /\ x.tid = j.tid /\ DOMAIN x = DOMAIN j /\ x = [f \in DOMAIN x |-> x[f]]
  BY DEF Job
<1>2. "row" \in DOMAIN x /\ "op" \in DOMAIN x /\ "tid" \in DOMAIN x
  BY DEF Job
<1> HIDE DEF x
<1>3. [x EXCEPT !.row = row].op = "reply" /\ [x EXCEPT !.row = row].tid = j.tid /\ [x EXCEPT !.row = row].row = row
  BY <1>1, <1>2
<1> QED
  BY <1>3 DEF x

LEMMA ClaimStep == ClaimInv /\ [Next]_vars => ClaimInv'
<1> SUFFICES ASSUME ClaimInv, [Next]_vars
             PROVE  ClaimInv'
  OBVIOUS
<1> TypeInv /\ TypeInv'
  BY TypeStep DEF ClaimInv
<1>1. ASSUME NEW w \in Worker, NEW u \in Username, RegisterUser(w, u)
      PROVE  ClaimInv'
  BY <1>1, ClaimFrame DEF RegisterUser, histories, TokenId
<1>2. ASSUME NEW w \in Worker, NEW u \in Username, SelectUser(w, u)
      PROVE  ClaimInv'
  <2> DEFINE j == [Idle EXCEPT !.op = "insertMediator", !.username = u]
  <2>1. j.op = "insertMediator"
    BY DEF Idle
  <2> HIDE DEF j
  <2>2. Continue(w, j)
    BY <1>2 DEF SelectUser, j
  <2>3. job[w].op # "insertOwner" /\ UNCHANGED <<owner, orphaned, TokenId>>
    BY <1>2, IdleOp DEF SelectUser, histories, TokenId
  <2> QED
    BY <2>1, <2>2, <2>3, ClaimMoves
<1>3. ASSUME NEW w \in Worker, InsertMediator(w)
      PROVE  ClaimInv'
  BY <1>3, ClaimMoves DEF InsertMediator, Idle, histories, TokenId
<1>4. ASSUME NEW w \in Worker, NEW kind, NEW id, NEW u, SelectMediator(w, kind, id, u)
      PROVE  ClaimInv'
  <2> DEFINE j == [Idle EXCEPT !.op = "insertToken", !.kind = kind,
                               !.uuid = id, !.username = u]
  <2>1. j.op = "insertToken"
    BY DEF Idle
  <2> HIDE DEF j
  <2>2. Continue(w, j)
    BY <1>4 DEF SelectMediator, j
  <2>3. job[w].op # "insertOwner" /\ UNCHANGED <<owner, orphaned, TokenId>>
    BY <1>4, IdleOp DEF SelectMediator, histories, TokenId
  <2> QED
    BY <2>1, <2>2, <2>3, ClaimMoves
<1>5. ASSUME NEW w \in Worker, InsertToken(w)
      PROVE  ClaimInv'
  BY <1>5, ClaimAdded
<1>6. ASSUME NEW w \in Worker, InsertOwner(w)
      PROVE  ClaimInv'
  <2> DEFINE o == [kind |-> job[w].kind, uuid |-> job[w].uuid,
                   username |-> job[w].username, tid |-> job[w].tid]
  <2>1. /\ Pending(w, job[w].tid) /\ job[w].tid \in TokenId
        /\ o.tid = job[w].tid /\ owner' = owner \cup {o}
        /\ UNCHANGED <<orphaned, TokenId>>
    BY <1>6 DEF InsertOwner, Pending, histories, TokenId, TypeInv, JobsFit
  <2>2. job'[w].op = "reply" /\ \A v \in Worker \ {w} : job'[v] = job[v]
    <3> DEFINE j == [job[w] EXCEPT !.op = "reply"]
    <3>1. j.op = "reply"
      BY ReplyOfJob DEF TypeInv, TypeOK
    <3>2. job' = [job EXCEPT ![w] = j]
      BY <1>6 DEF InsertOwner, Continue
    <3> HIDE DEF j
    <3> QED
      BY <3>1, <3>2 DEF TypeInv, TypeOK
  <2> HIDE DEF o
  <2> QED
    BY <2>1, <2>2, ClaimSettled
<1>7. ASSUME NEW w \in Worker, InsertOwnerFails(w)
      PROVE  ClaimInv'
  <2>1. /\ Pending(w, job[w].tid) /\ job[w].tid \in TokenId
        /\ orphaned' = orphaned \cup {job[w].tid}
        /\ UNCHANGED <<owner, TokenId>>
    BY <1>7 DEF InsertOwnerFails, Pending, TokenId, TypeInv, JobsFit
  <2>2. job'[w].op = "reply" /\ \A v \in Worker \ {w} : job'[v] = job[v]
    <3> DEFINE j == [job[w] EXCEPT !.op = "reply"]
    <3>1. j.op = "reply"
      BY ReplyOfJob DEF TypeInv, TypeOK
    <3>2. job' = [job EXCEPT ![w] = j]
      BY <1>7 DEF InsertOwnerFails, Continue
    <3> HIDE DEF j
    <3> QED
      BY <3>1, <3>2 DEF TypeInv, TypeOK
  <2> QED
    BY <2>1, <2>2, ClaimSettled
<1>8. ASSUME NEW w \in Worker, NEW id, NEW given,
             RegisterDevice(w, id, given) \/ RegisterClient(w, id, given)
      PROVE  ClaimInv'
  <2>1. PICK o : job[w] = Idle /\ Redeem(w, o, given)
    BY <1>8 DEF RegisterDevice, RegisterClient
  <2>2. UNCHANGED <<owner, orphaned, TokenId>>
    BY <1>8 DEF RegisterDevice, RegisterClient, histories, TokenId
  <2> DEFINE j == [Idle EXCEPT !.op = "update", !.kind = o.kind, !.uuid = o.uuid,
                       !.username = o.username, !.tid = o.tid, !.mediated = given]
  <2>3. j.op = "update"
    BY DEF Idle
  <2>4. Continue(w, j)
    BY <2>1 DEF Redeem
  <2> HIDE DEF j
  <2>5. job[w].op # "insertOwner"
    BY <2>1, IdleOp
  <2> QED
    BY <2>2, <2>3, <2>4, <2>5, ClaimMoves
<1>9. ASSUME NEW w \in Worker, UpdateToken(w)
      PROVE  ClaimInv'
  <2> DEFINE row == [access |-> issued + 1, refresh |-> issued + 2]
  <2>1. /\ job[w].op = "update" /\ token' = [token EXCEPT ![job[w].tid] = row]
        /\ Continue(w, [job[w] EXCEPT !.op = "reply", !.row = row])
        /\ UNCHANGED <<owner, orphaned>>
    BY <1>9 DEF UpdateToken, histories
  <2>2. UNCHANGED TokenId
    BY <2>1 DEF TokenId
  <2>3. job'[w].op = "reply" /\ \A v \in Worker \ {w} : job'[v] = job[v]
    <3> DEFINE j == [job[w] EXCEPT !.op = "reply", !.row = row]
    <3>1. j.op = "reply"
      BY ReplyWithRow DEF TypeInv, TypeOK
    <3>2. job' = [job EXCEPT ![w] = j]
      BY <2>1 DEF Continue
    <3> HIDE DEF j
    <3> QED
      BY <3>1, <3>2 DEF TypeInv, TypeOK
  <2> QED
    BY <2>1, <2>2, <2>3, ClaimFrame
<1>10. ASSUME NEW w \in Worker, NEW given, RefreshToken(w, given)
       PROVE  ClaimInv'
  <2>1. PICK i \in TokenId :
          /\ token' = [token EXCEPT ![i].access = issued']
          /\ Continue(w, [Idle EXCEPT !.op = "reply", !.tid = i, !.row = token'[i]])
    BY <1>10 DEF RefreshToken
  <2>2. UNCHANGED TokenId
    BY <2>1 DEF TokenId
  <2> QED
    <3> DEFINE j == [Idle EXCEPT !.op = "reply", !.tid = i, !.row = token'[i]]
    <3>1. j.op = "reply"
      BY DEF Idle
    <3>2. Continue(w, j)
      BY <2>1
    <3> HIDE DEF j
    <3>3. job[w].op # "insertOwner" /\ UNCHANGED <<owner, orphaned>>
      BY <1>10, IdleOp DEF RefreshToken, histories
    <3> QED
      BY <2>2, <3>1, <3>2, <3>3, ClaimMoves
<1>11. ASSUME NEW w \in Worker, Reply(w)
       PROVE  ClaimInv'
  BY <1>11, ClaimMoves DEF Reply, Idle, TokenId
<1>12. ASSUME NEW w \in Worker, Drop(w)
       PROVE  ClaimInv'
  BY <1>12, ClaimAbandon DEF Drop
<1>13. ASSUME PodDies \/ \E w \in Worker, id \in Uuid : RegisterUnknown(w, id)
       PROVE  ClaimInv'
  BY <1>13, ClaimAbandon DEF PodDies, RegisterUnknown, Worker
<1>14. ASSUME NEW w \in Worker, NEW id, PublishResource(w, id)
       PROVE  ClaimInv'
  BY <1>14, ClaimFrame DEF PublishResource, histories, TokenId
<1>15. ASSUME UNCHANGED vars
       PROVE  ClaimInv'
  BY <1>15, ClaimFrame DEF vars, TokenId
<1> QED
  BY <1>1, <1>2, <1>3, <1>4, <1>5, <1>6, <1>7, <1>8, <1>9, <1>10, <1>11, <1>12,
     <1>13, <1>14, <1>15
     DEF Next

LEMMA OneClaim == ClaimInv => TokenRowsOwned
<1> SUFFICES ASSUME ClaimInv, NEW i \in TokenId
             PROVE  \E x \in Claims(i) : Claims(i) = {x}
  BY DEF TokenRowsOwned
<1>1. CASE \E o \in owner : o.tid = i
  <2>1. PICK o \in owner : o.tid = i
    BY <1>1
  <2>2. Claims(i) = {<<"row", o>>}
    BY <2>1 DEF ClaimInv, ClaimedOnce, Claims, Pending
  <2> QED
    BY <2>2
<1>2. CASE \E w \in Worker : Pending(w, i)
  <2>1. PICK w \in Worker : Pending(w, i)
    BY <1>2
  <2>2. \A v \in Worker : Pending(v, i) => v = w
    BY <2>1 DEF ClaimInv, ClaimedOnce, Pending
  <2>3. Claims(i) = {<<"job", w>>}
    BY <2>1, <2>2 DEF ClaimInv, ClaimedOnce, Claims, Pending
  <2> QED
    BY <2>3
<1>3. CASE i \in orphaned
  <2>1. Claims(i) = {<<"failed">>}
    BY <1>3 DEF ClaimInv, ClaimedOnce, Claims, Pending
  <2> QED
    BY <2>1
<1> QED
  BY <1>1, <1>2, <1>3 DEF ClaimInv, Claimed

\* However provisionings interleave and fail, a token row belongs to exactly one
\* device or client, or one request that is about to insert it, or to nobody because
\* that request failed.
THEOREM TokenRowsHaveOneOwner == Spec => []TokenRowsOwned
<1>1. Spec => []ClaimInv
  BY ClaimInit, ClaimStep, PTL DEF Spec
<1> QED
  BY <1>1, OneClaim, PTL

-----------------------------------------------------------------------------
(* Every pair in a row was issued together.                                *)

\* w carries the pair that is in the row i, to a caller or to the next statement.
Carries(w, i) ==
  /\ job[w].op \in {"insertOwner", "reply"}
  /\ job[w].tid = i /\ job[w].row = token[i]

PairInv == TypeInv /\ PairsAreIssued

\* A step that changes no row and drops no pair.
LEMMA PairFrame ==
  ASSUME PairInv, TypeInv', UNCHANGED token,
         told \subseteq told', lost \subseteq lost', orphaned \subseteq orphaned',
         \A v \in Worker, i \in TokenId : Carries(v, i) => Carries(v, i)'
  PROVE  PairInv'
BY DEF PairInv, PairsAreIssued, Carries, TokenId

\* A step by which w, that carried nothing, writes the row i and carries it.
LEMMA PairWritten ==
  ASSUME PairInv, TypeInv', NEW w \in Worker, NEW i,
         job[w].op \notin {"insertOwner", "reply"}, Carries(w, i)',
         TokenId' \subseteq TokenId \cup {i},
         \A k \in TokenId' \ {i} : token'[k] = token[k],
         \A v \in Worker \ {w} : job'[v] = job[v],
         UNCHANGED <<told, lost, orphaned>>
  PROVE  PairInv'
<1>1. \A v \in Worker, k \in TokenId' \ {i} : Carries(v, k) => Carries(v, k)'
  BY DEF Carries
<1>2. PairsAreIssued'
  <2> SUFFICES ASSUME NEW k \in TokenId'
               PROVE  \/ \E a \in (told \cup lost)' : a.tid = k /\ a.row = token'[k]
                      \/ \E v \in Worker : Carries(v, k)'
                      \/ k \in orphaned'
    BY DEF PairsAreIssued, Carries
  <2>1. CASE k = i
    BY <2>1
  <2>2. CASE k # i
    BY <1>1, <2>2 DEF PairInv, PairsAreIssued, Carries
  <2> QED
    BY <2>1, <2>2
<1> QED
  BY <1>2 DEF PairInv

LEMMA PairAbandon ==
  ASSUME PairInv, TypeInv', NEW S \in SUBSET Worker, Abandon(S)
  PROVE  PairInv'
<1>1. UNCHANGED <<token, told>> /\ \A v \in Worker \ S : job'[v] = job[v]
  BY DEF Abandon
<1>2. \A v \in S : job[v].op = "reply" => AnswerOf(job[v]) \in lost'
  BY DEF Abandon
<1>3. \A v \in S : job[v].op = "insertOwner" => job[v].tid \in orphaned'
  BY DEF Abandon
<1>4. lost \subseteq lost' /\ orphaned \subseteq orphaned'
  BY DEF Abandon
<1>5. \A v \in Worker : AnswerOf(job[v]).tid = job[v].tid /\ AnswerOf(job[v]).row = job[v].row
  BY DEF AnswerOf
<1>6. ASSUME NEW i \in TokenId', NEW v \in S, Carries(v, i)
      PROVE  i \in orphaned' \/ \E a \in lost' : a.tid = i /\ a.row = token'[i]
  BY <1>1, <1>2, <1>3, <1>5, <1>6 DEF Carries
<1>7. ASSUME NEW i \in TokenId', NEW v \in Worker \ S, Carries(v, i)
      PROVE  Carries(v, i)'
  BY <1>1, <1>7 DEF Carries
<1>8. ASSUME NEW i \in TokenId'
      PROVE  \/ \E a \in (told \cup lost)' : a.tid = i /\ a.row = token'[i]
             \/ \E v \in Worker : Carries(v, i)'
             \/ i \in orphaned'
  <2>1. \/ \E a \in told \cup lost : a.tid = i /\ a.row = token[i]
        \/ \E v \in Worker : Carries(v, i)
        \/ i \in orphaned
    BY <1>1, <1>8 DEF PairInv, PairsAreIssued, Carries, TokenId
  <2> QED
    BY <1>1, <1>4, <1>6, <1>7, <2>1
<1> QED
  BY <1>8 DEF PairInv, PairsAreIssued, Carries

LEMMA PairStep == PairInv /\ [Next]_vars => PairInv'
<1> SUFFICES ASSUME PairInv, [Next]_vars
             PROVE  PairInv'
  OBVIOUS
<1> TypeInv /\ TypeInv'
  BY TypeStep DEF PairInv
\* A request that carried nothing moves on.
<1>1. ASSUME NEW w \in Worker, NEW j, Continue(w, j),
             job[w].op \notin {"insertOwner", "reply"},
             UNCHANGED <<token, told, lost, orphaned>>
      PROVE  PairInv'
  <2>1. \A v \in Worker \ {w} : job'[v] = job[v]
    BY <1>1 DEF Continue, TypeInv, TypeOK
  <2>2. \A v \in Worker, i \in TokenId : Carries(v, i) => Carries(v, i)'
    BY <1>1, <2>1 DEF Carries
  <2> QED
    BY <1>1, <2>2, PairFrame
<1>2. ASSUME NEW w \in Worker,
             \/ \E u \in Username : RegisterUser(w, u)
             \/ \E id : PublishResource(w, id)
      PROVE  PairInv'
  <2>1. UNCHANGED <<token, told, lost, orphaned, job>>
    BY <1>2 DEF RegisterUser, PublishResource, histories
  <2> QED
    BY <2>1, PairFrame DEF Carries
<1>3. ASSUME NEW w \in Worker,
             \/ \E u : SelectUser(w, u)
             \/ InsertMediator(w)
             \/ \E kind, id, u : SelectMediator(w, kind, id, u)
             \/ \E id, given : RegisterDevice(w, id, given) \/ RegisterClient(w, id, given)
      PROVE  PairInv'
  <2>1. \E j : Continue(w, j)
    BY <1>3 DEF SelectUser, InsertMediator, SelectMediator, RegisterDevice,
                RegisterClient, Redeem
  <2>2. job[w].op \notin {"insertOwner", "reply"}
    BY <1>3, IdleOp DEF SelectUser, InsertMediator, SelectMediator, RegisterDevice,
                        RegisterClient
  <2>3. UNCHANGED <<token, told, lost, orphaned>>
    BY <1>3 DEF SelectUser, InsertMediator, SelectMediator, RegisterDevice,
                RegisterClient, histories
  <2> QED
    BY <1>1, <2>1, <2>2, <2>3
<1>4. ASSUME NEW w \in Worker, InsertToken(w)
      PROVE  PairInv'
  <2> DEFINE row == [access |-> issued', refresh |-> 0]
             j == [job[w] EXCEPT !.op = "insertOwner", !.tid = Len(token'), !.row = row]
  <2>1. /\ token \in Seq(Row) /\ token' = Append(token, row) /\ job' = [job EXCEPT ![w] = j]
        /\ job[w].op = "insertToken" /\ UNCHANGED <<told, lost, orphaned>>
    BY <1>4 DEF InsertToken, Continue, histories, TypeInv, TypeOK
  <2>2. row \in Row
    BY <1>4 DEF InsertToken, Generate, Row, Random, TypeInv, TypeOK
  <2> HIDE DEF row
  <2>3. /\ TokenId' = TokenId \cup {Len(token')} /\ token'[Len(token')] = row
        /\ \A k \in TokenId' \ {Len(token')} : token'[k] = token[k]
    BY <2>1, <2>2, RowAdded DEF TokenId
  <2>4. j.op = "insertOwner" /\ j.tid = Len(token') /\ j.row = row
    BY OwnerOfRow DEF TypeInv, TypeOK
  <2> HIDE DEF j
  <2>5. job'[w] = j /\ \A v \in Worker \ {w} : job'[v] = job[v]
    BY <2>1 DEF TypeInv, TypeOK
  <2> QED
    BY <2>1, <2>3, <2>4, <2>5, PairWritten DEF Carries
<1>5. ASSUME NEW w \in Worker, InsertOwner(w) \/ InsertOwnerFails(w)
      PROVE  PairInv'
  <2> DEFINE j == [job[w] EXCEPT !.op = "reply"]
  <2>1. j.op = "reply" /\ j.tid = job[w].tid /\ j.row = job[w].row
    BY ReplyOfJob DEF TypeInv, TypeOK
  <2>2. job' = [job EXCEPT ![w] = j]
    BY <1>5 DEF InsertOwner, InsertOwnerFails, Continue
  <2>3. UNCHANGED <<token, told, lost>> /\ orphaned \subseteq orphaned'
    BY <1>5 DEF InsertOwner, InsertOwnerFails, histories
  <2> HIDE DEF j
  <2>4. job'[w] = j /\ \A v \in Worker \ {w} : job'[v] = job[v]
    BY <2>2 DEF TypeInv, TypeOK
  <2>5. \A v \in Worker, i \in TokenId : Carries(v, i) => Carries(v, i)'
    BY <2>1, <2>3, <2>4 DEF Carries
  <2> QED
    BY <2>3, <2>5, PairFrame
<1>6. ASSUME NEW w \in Worker, UpdateToken(w)
      PROVE  PairInv'
  <2> DEFINE row == [access |-> issued + 1, refresh |-> issued + 2]
             j == [job[w] EXCEPT !.op = "reply", !.row = row]
             i == job[w].tid
  <2>1. j.op = "reply" /\ j.tid = i /\ j.row = row
    BY ReplyWithRow DEF TypeInv, TypeOK
  <2>2. /\ job[w].op = "update" /\ token' = [token EXCEPT ![i] = row]
        /\ job' = [job EXCEPT ![w] = j] /\ UNCHANGED <<told, lost, orphaned>>
    BY <1>6 DEF UpdateToken, Continue, histories
  <2>3. i \in TokenId /\ row \in Row /\ token \in Seq(Row)
    BY <1>6 DEF UpdateToken, Generate, TypeInv, TypeOK, JobsFit, Row, Random
  <2> HIDE DEF row, j
  <2>4. /\ TokenId' = TokenId /\ token'[i] = row
        /\ \A k \in TokenId' \ {i} : token'[k] = token[k]
    BY <2>2, <2>3, RowChanged DEF TokenId
  <2>5. job'[w] = j /\ \A v \in Worker \ {w} : job'[v] = job[v]
    BY <2>2 DEF TypeInv, TypeOK
  <2> QED
    BY <2>1, <2>2, <2>4, <2>5, PairWritten DEF Carries
<1>7. ASSUME NEW w \in Worker, NEW given, RefreshToken(w, given)
      PROVE  PairInv'
  <2>1. PICK i \in TokenId :
          /\ token' = [token EXCEPT ![i].access = issued']
          /\ Continue(w, [Idle EXCEPT !.op = "reply", !.tid = i, !.row = token'[i]])
    BY <1>7 DEF RefreshToken
  <2> DEFINE j == [Idle EXCEPT !.op = "reply", !.tid = i, !.row = token'[i]]
  <2>2. j.op = "reply" /\ j.tid = i /\ j.row = token'[i]
    BY DEF Idle
  <2>3. job' = [job EXCEPT ![w] = j]
    BY <2>1 DEF Continue
  <2> HIDE DEF j
  <2>4. job[w].op = "idle" /\ UNCHANGED <<told, lost, orphaned>>
    BY <1>7, IdleOp DEF RefreshToken, histories
  <2>5. TokenId' = TokenId /\ \A k \in TokenId' \ {i} : token'[k] = token[k]
    BY <2>1 DEF TokenId
  <2>6. job'[w] = j /\ \A v \in Worker \ {w} : job'[v] = job[v]
    BY <2>3 DEF TypeInv, TypeOK
  <2> QED
    BY <2>2, <2>4, <2>5, <2>6, PairWritten DEF Carries
<1>8. ASSUME NEW w \in Worker, Reply(w)
      PROVE  PairInv'
  <2> DEFINE a == AnswerOf(job[w])
  <2>1. a.tid = job[w].tid /\ a.row = job[w].row
    BY DEF AnswerOf
  <2>2. told' = told \cup {a} /\ UNCHANGED <<token, lost, orphaned>>
    BY <1>8 DEF Reply
  <2>3. \A v \in Worker \ {w} : job'[v] = job[v]
    BY <1>8 DEF Reply, Continue, TypeInv, TypeOK
  <2> HIDE DEF a
  <2>4. \A v \in Worker \ {w}, i \in TokenId : Carries(v, i) => Carries(v, i)'
    BY <2>2, <2>3 DEF Carries
  <2>5. ASSUME NEW i \in TokenId'
        PROVE  \/ \E b \in (told \cup lost)' : b.tid = i /\ b.row = token'[i]
               \/ \E v \in Worker : Carries(v, i)'
               \/ i \in orphaned'
    <3>1. \/ \E b \in told \cup lost : b.tid = i /\ b.row = token[i]
          \/ \E v \in Worker : Carries(v, i)
          \/ i \in orphaned
      BY <2>2, <2>5 DEF PairInv, PairsAreIssued, Carries, TokenId
    <3>2. CASE Carries(w, i)
      BY <2>1, <2>2, <3>2 DEF Carries
    <3>3. CASE ~Carries(w, i)
      BY <2>2, <2>4, <3>1, <3>3 DEF TokenId
    <3> QED
      BY <3>2, <3>3
  <2> QED
    BY <2>5 DEF PairInv, PairsAreIssued, Carries
<1>9. ASSUME NEW w \in Worker, Drop(w)
      PROVE  PairInv'
  BY <1>9, PairAbandon DEF Drop
<1>10. ASSUME PodDies \/ \E w \in Worker, id \in Uuid : RegisterUnknown(w, id)
       PROVE  PairInv'
  BY <1>10, PairAbandon DEF PodDies, RegisterUnknown, Worker
<1>11. ASSUME UNCHANGED vars
       PROVE  PairInv'
  BY <1>11, PairFrame DEF vars, Carries
<1> QED
  BY <1>2, <1>3, <1>4, <1>5, <1>6, <1>7, <1>8, <1>9, <1>10, <1>11 DEF Next

\* The access and the refresh token in a row were generated for the same answer:
\* somebody was told both, will be or never will, whatever registrations and
\* refreshes of that row interleave.
THEOREM PairsComeFromOneAnswer == Spec => []PairsAreIssued
<1>1. Init => PairInv
  BY TypeInit DEF Init, PairInv, PairsAreIssued, TokenId
<1>2. Spec => []PairInv
  BY <1>1, PairStep, PTL DEF Spec
<1> QED
  BY <1>2, PTL DEF PairInv

-----------------------------------------------------------------------------
(* One-time tokens.                                                        *)

\* No two registrations of the same token are between their SELECT and their UPDATE
\* at once.
NotTwice ==
  \A v, w \in Worker :
    job[v].op = "update" /\ job[w].op = "update" /\ job[v].mediated = job[w].mediated
      => v = w

\* Every string that is in use has been generated, and those of the rows are not empty.
Fresh ==
  /\ \A i \in TokenId : token[i].access \in 1..issued
  /\ \A w \in Worker :
       /\ job[w].mediated \in 0..issued
       /\ job[w].op \in {"insertToken", "insertOwner"} => job[w].mediated = 0
       /\ job[w].op = "update" => job[w].mediated # 0
  /\ \A a \in told : a.mediated \in 0..issued

\* A token that was redeemed is in no row, one that is being redeemed in no other row
\* and in no answer, and one that was answered for was answered for once.
Once ==
  /\ \A i, k \in TokenId : token[i].access = token[k].access => i = k
  /\ \A w \in Worker, i \in TokenId :
       /\ job[w].op = "update" /\ token[i].access = job[w].mediated => i = job[w].tid
       /\ job[w].op = "reply" => token[i].access # job[w].mediated
  /\ \A a \in told, i \in TokenId : token[i].access # a.mediated
  /\ \A v, w \in Worker :
       job[v].op = "reply" /\ job[w].op \in {"update", "reply"}
         /\ job[v].mediated # 0 /\ job[v].mediated = job[w].mediated => v = w
  /\ \A a \in told, w \in Worker :
       job[w].op \in {"update", "reply"} /\ a.mediated = job[w].mediated => a.mediated = 0
  /\ OneTimeToken

OnceInv == TypeInv /\ Fresh /\ Once

\* A request that has redeemed nothing moves on.
LEMMA OnceMoves ==
  ASSUME OnceInv, TypeInv', NEW w \in Worker, UNCHANGED <<token, told, issued>>,
         \A v \in Worker \ {w} : job'[v] = job[v],
         job'[w].op # "update", job'[w].mediated = 0
  PROVE  OnceInv'
<1>1. Fresh'
  BY DEF OnceInv, Fresh, TypeInv, TypeOK, TokenId, Random
<1>2. \A i \in TokenId' : token'[i].access # 0
  BY DEF OnceInv, Fresh, TypeInv, TypeOK, TokenId, Random
<1>3. Once'
  BY <1>2 DEF OnceInv, Once, OneTimeToken, TokenId
<1> QED
  BY <1>1, <1>3 DEF OnceInv

\* A row that is new or redeemed gets a string that nobody has seen.
LEMMA OnceWritten ==
  ASSUME OnceInv, TypeInv', NotTwice, NEW w \in Worker, NEW i,
         issued \in Nat, issued' \in Nat, issued <= issued',
         TokenId' = TokenId \cup {i}, UNCHANGED told,
         token'[i].access \in (issued + 1)..issued',
         \A k \in TokenId \ {i} : token'[k] = token[k],
         \A v \in Worker \ {w} : job'[v] = job[v],
         \/ job'[w].op # "update" /\ job'[w].mediated = 0
         \/ /\ job[w].op = "update" /\ job[w].tid = i
            /\ job'[w].op = "reply" /\ job'[w].mediated = job[w].mediated
  PROVE  OnceInv'
<1>1. /\ \A v \in Worker : job[v].mediated \in 0..issued
      /\ \A v \in Worker : job'[v].mediated \in 0..issued
      /\ \A a \in told : a.mediated \in 0..issued
      /\ \A k \in TokenId : token[k].access \in 1..issued
  BY DEF OnceInv, Fresh
<1>2. Fresh'
  <2>1. \A k \in TokenId' : token'[k].access \in 1..issued'
    BY <1>1
  <2>2. \A v \in Worker : job'[v].mediated \in 0..issued'
    BY <1>1
  <2>3. \A a \in told' : a.mediated \in 0..issued'
    BY <1>1
  <2>4. \A v \in Worker :
          /\ job'[v].op \in {"insertToken", "insertOwner"} => job'[v].mediated = 0
          /\ job'[v].op = "update" => job'[v].mediated # 0
    BY DEF OnceInv, Fresh
  <2> QED
    BY <2>1, <2>2, <2>3, <2>4 DEF Fresh
<1>3. /\ \A v \in Worker : job'[v].mediated # token'[i].access
      /\ \A a \in told : a.mediated # token'[i].access
      /\ \A k \in TokenId : token[k].access # token'[i].access
  BY <1>1
<1>4. \A j, k \in TokenId' : token'[j].access = token'[k].access => j = k
  BY <1>3 DEF OnceInv, Once
<1>5. \A v \in Worker, k \in TokenId' :
        /\ job'[v].op = "update" /\ token'[k].access = job'[v].mediated => k = job'[v].tid
        /\ job'[v].op = "reply" => token'[k].access # job'[v].mediated
  <2> SUFFICES ASSUME NEW v \in Worker, NEW k \in TokenId \ {i}
               PROVE  /\ job'[v].op = "update" /\ token[k].access = job'[v].mediated
                           => k = job'[v].tid
                      /\ job'[v].op = "reply" => token[k].access # job'[v].mediated
    BY <1>3
  <2>1. CASE v # w
    BY <2>1 DEF OnceInv, Once
  <2>2. CASE v = w /\ job'[w].mediated = 0 /\ job'[w].op # "update"
    BY <1>1, <2>2
  <2>3. CASE v = w /\ job[w].op = "update" /\ job[w].tid = i /\ job'[w].op = "reply"
             /\ job'[w].mediated = job[w].mediated
    BY <2>3 DEF OnceInv, Once
  <2> QED
    BY <2>1, <2>2, <2>3
<1>6. \A a \in told', k \in TokenId' : token'[k].access # a.mediated
  BY <1>3 DEF OnceInv, Once
<1>7. \A v, x \in Worker :
        job'[v].op = "reply" /\ job'[x].op \in {"update", "reply"}
          /\ job'[v].mediated # 0 /\ job'[v].mediated = job'[x].mediated => v = x
  BY DEF OnceInv, Once, NotTwice
<1>8. \A a \in told', v \in Worker :
        job'[v].op \in {"update", "reply"} /\ a.mediated = job'[v].mediated => a.mediated = 0
  BY DEF OnceInv, Once
<1>9. Once'
  BY <1>4, <1>5, <1>6, <1>7, <1>8 DEF OnceInv, Once, OneTimeToken
<1> QED
  BY <1>2, <1>9 DEF OnceInv

\* A row's token is presented.
LEMMA OnceRedeemed ==
  ASSUME OnceInv, TypeInv', NEW w \in Worker, NEW i \in TokenId,
         UNCHANGED <<token, told, issued>>,
         \A v \in Worker \ {w} : job'[v] = job[v],
         job'[w].op = "update", job'[w].tid = i, job'[w].mediated = token[i].access
  PROVE  OnceInv'
<1>1. token[i].access \in 1..issued
  BY DEF OnceInv, Fresh
<1>2. issued \in Nat
  BY DEF OnceInv, TypeInv, TypeOK, Random
<1>3. \A v \in Worker :
        /\ job'[v].mediated \in 0..issued
        /\ job'[v].op \in {"insertToken", "insertOwner"} => job'[v].mediated = 0
        /\ job'[v].op = "update" => job'[v].mediated # 0
  BY <1>1, <1>2 DEF OnceInv, Fresh
<1>4. Fresh'
  BY <1>3 DEF OnceInv, Fresh, TokenId
<1>5. Once'
  BY <1>1 DEF OnceInv, Once, OneTimeToken, TokenId
<1> QED
  BY <1>4, <1>5 DEF OnceInv

\* An answer arrives.
LEMMA OnceTold ==
  ASSUME OnceInv, TypeInv', NEW w \in Worker, Reply(w)
  PROVE  OnceInv'
<1> DEFINE a == AnswerOf(job[w])
<1>1. a.mediated = job[w].mediated /\ job[w].op = "reply"
  BY DEF AnswerOf, Reply
<1>2. told' = told \cup {a} /\ UNCHANGED <<token, issued>>
  BY DEF Reply
<1>3. job'[w].op = "idle" /\ job'[w].mediated = 0 /\ \A v \in Worker \ {w} : job'[v] = job[v]
  BY DEF Reply, Continue, Idle, OnceInv, TypeInv, TypeOK
<1> HIDE DEF a
<1>4. Fresh'
  BY <1>1, <1>2, <1>3 DEF OnceInv, Fresh, TypeInv, TypeOK, TokenId, Random
<1>5. Once'
  BY <1>1, <1>2, <1>3 DEF OnceInv, Once, OneTimeToken, TokenId
<1> QED
  BY <1>4, <1>5 DEF OnceInv

\* Requests end without an answer.
LEMMA OnceAbandon ==
  ASSUME OnceInv, TypeInv', NEW S \in SUBSET Worker, Abandon(S)
  PROVE  OnceInv'
<1>1. /\ UNCHANGED <<token, told, issued>>
      /\ \A v \in Worker : v \notin S => job'[v] = job[v]
      /\ \A v \in S : job'[v].op = "idle" /\ job'[v].mediated = 0
  BY DEF Abandon, Idle
<1>2. issued \in Nat
  BY DEF OnceInv, TypeInv, TypeOK, Random
<1>3. Fresh'
  BY <1>1, <1>2 DEF OnceInv, Fresh, TokenId
<1>4. Once'
  BY <1>1 DEF OnceInv, Once, OneTimeToken, TokenId
<1> QED
  BY <1>3, <1>4 DEF OnceInv

LEMMA OnceStep == OnceInv /\ NotTwice /\ [Next]_vars => OnceInv'
<1> SUFFICES ASSUME OnceInv, NotTwice, [Next]_vars
             PROVE  OnceInv'
  OBVIOUS
<1> TypeInv /\ TypeInv'
  BY TypeStep DEF OnceInv
<1>1. issued \in Nat /\ issued' \in Nat
  BY DEF TypeInv, TypeOK, Random
<1>2. ASSUME NEW w \in Worker,
             \/ \E u \in Username : RegisterUser(w, u)
             \/ \E id : PublishResource(w, id)
      PROVE  OnceInv'
  BY <1>2, <1>1
     DEF RegisterUser, PublishResource, histories, OnceInv, Fresh, Once, OneTimeToken, TokenId
<1>3. ASSUME NEW w \in Worker,
             \/ \E u : SelectUser(w, u)
             \/ InsertMediator(w)
             \/ \E kind, id, u : SelectMediator(w, kind, id, u)
      PROVE  OnceInv'
  <2>1. PICK j : Continue(w, j) /\ j.op # "update" /\ j.mediated = 0
    <3>1. CASE \E u : SelectUser(w, u)
      <4>1. PICK u : SelectUser(w, u)
        BY <3>1
      <4> DEFINE k == [Idle EXCEPT !.op = "insertMediator", !.username = u]
      <4>2. k.op = "insertMediator" /\ k.mediated = 0
        BY DEF Idle
      <4> HIDE DEF k
      <4>3. Continue(w, k)
        BY <4>1 DEF SelectUser, k
      <4> QED
        BY <4>2, <4>3
    <3>2. CASE InsertMediator(w)
      <4>1. Continue(w, Idle) /\ Idle.op = "idle" /\ Idle.mediated = 0
        BY <3>2 DEF InsertMediator, Idle
      <4> QED
        BY <4>1
    <3>3. CASE \E kind, id, u : SelectMediator(w, kind, id, u)
      <4>1. PICK kind, id, u : SelectMediator(w, kind, id, u)
        BY <3>3
      <4> DEFINE k == [Idle EXCEPT !.op = "insertToken", !.kind = kind,
                                   !.uuid = id, !.username = u]
      <4>2. k.op = "insertToken" /\ k.mediated = 0
        BY DEF Idle
      <4> HIDE DEF k
      <4>3. Continue(w, k)
        BY <4>1 DEF SelectMediator, k
      <4> QED
        BY <4>2, <4>3
    <3> QED
      BY <1>3, <3>1, <3>2, <3>3
  <2>2. UNCHANGED <<token, told, issued>>
    BY <1>3 DEF SelectUser, InsertMediator, SelectMediator, histories
  <2>3. job'[w] = j /\ \A v \in Worker \ {w} : job'[v] = job[v]
    BY <2>1 DEF Continue, TypeInv, TypeOK
  <2> QED
    BY <2>1, <2>2, <2>3, OnceMoves
<1>4. ASSUME NEW w \in Worker, InsertOwner(w) \/ InsertOwnerFails(w)
      PROVE  OnceInv'
  <2> DEFINE j == [job[w] EXCEPT !.op = "reply"]
  <2>1. j.op = "reply" /\ j.mediated = job[w].mediated
    BY ReplyOfJob DEF TypeInv, TypeOK
  <2>2. job' = [job EXCEPT ![w] = j] /\ job[w].op = "insertOwner"
    BY <1>4 DEF InsertOwner, InsertOwnerFails, Continue
  <2>3. UNCHANGED <<token, told, issued>>
    BY <1>4 DEF InsertOwner, InsertOwnerFails, histories
  <2> HIDE DEF j
  <2>4. job'[w] = j /\ \A v \in Worker \ {w} : job'[v] = job[v]
    BY <2>2 DEF TypeInv, TypeOK
  <2>5. j.mediated = 0
    BY <2>1, <2>2 DEF OnceInv, Fresh
  <2> QED
    BY <2>1, <2>3, <2>4, <2>5, OnceMoves
<1>5. ASSUME NEW w \in Worker, InsertToken(w)
      PROVE  OnceInv'
  <2> DEFINE row == [access |-> issued', refresh |-> 0]
             j == [job[w] EXCEPT !.op = "insertOwner", !.tid = Len(token'), !.row = row]
             i == Len(token) + 1
  <2>1. /\ token \in Seq(Row) /\ token' = Append(token, row) /\ job' = [job EXCEPT ![w] = j]
        /\ job[w].op = "insertToken" /\ UNCHANGED told /\ issued' = issued + 1
    BY <1>5 DEF InsertToken, Generate, Continue, histories, TypeInv, TypeOK
  <2>2. row \in Row /\ row.access = issued'
    BY <1>5 DEF InsertToken, Generate, Row, Random, TypeInv, TypeOK
  <2>3. j.op = "insertOwner" /\ j.mediated = job[w].mediated
    BY OwnerOfRow DEF TypeInv, TypeOK
  <2> HIDE DEF row, j
  <2>4. /\ TokenId' = TokenId \cup {i} /\ token'[i] = row
        /\ \A k \in TokenId \ {i} : token'[k] = token[k]
    BY <2>1, <2>2, RowAdded DEF TokenId
  <2>5. job'[w] = j /\ \A v \in Worker \ {w} : job'[v] = job[v]
    BY <2>1 DEF TypeInv, TypeOK
  <2>6. j.mediated = 0
    BY <2>1, <2>3 DEF OnceInv, Fresh
  <2>7. token'[i].access \in (issued + 1)..issued' /\ issued <= issued'
    BY <1>1, <2>1, <2>2, <2>4
  <2> HIDE DEF i
  <2> QED
    BY <1>1, <2>1, <2>3, <2>4, <2>5, <2>6, <2>7, OnceWritten
<1>6. ASSUME NEW w \in Worker, NEW id, NEW given,
             RegisterDevice(w, id, given) \/ RegisterClient(w, id, given)
      PROVE  OnceInv'
  <2>1. PICK o \in owner : token[o.tid].access = given /\ Redeem(w, o, given)
    BY <1>6 DEF RegisterDevice, RegisterClient, Rows
  <2> DEFINE j == [Idle EXCEPT !.op = "update", !.kind = o.kind, !.uuid = o.uuid,
                       !.username = o.username, !.tid = o.tid, !.mediated = given]
  <2>2. j.op = "update" /\ j.tid = o.tid /\ j.mediated = given
    BY DEF Idle
  <2>3. job' = [job EXCEPT ![w] = j]
    BY <2>1 DEF Redeem, Continue
  <2> HIDE DEF j
  <2>4. UNCHANGED <<token, told, issued>>
    BY <1>6 DEF RegisterDevice, RegisterClient, histories
  <2>5. job'[w] = j /\ \A v \in Worker \ {w} : job'[v] = job[v]
    BY <2>3 DEF TypeInv, TypeOK
  <2>6. o.tid \in TokenId
    BY DEF TypeInv, TypeOK
  <2> QED
    BY <2>1, <2>2, <2>4, <2>5, <2>6, OnceRedeemed
<1>7. ASSUME NEW w \in Worker, UpdateToken(w)
      PROVE  OnceInv'
  <2> DEFINE row == [access |-> issued + 1, refresh |-> issued + 2]
             j == [job[w] EXCEPT !.op = "reply", !.row = row]
             i == job[w].tid
  <2>1. j.op = "reply" /\ j.mediated = job[w].mediated
    BY ReplyWithRow DEF TypeInv, TypeOK
  <2>2. /\ job[w].op = "update" /\ token' = [token EXCEPT ![i] = row]
        /\ job' = [job EXCEPT ![w] = j] /\ UNCHANGED told /\ issued' = issued + 2
    BY <1>7 DEF UpdateToken, Generate, Continue, histories
  <2>3. i \in TokenId /\ row \in Row /\ token \in Seq(Row) /\ row.access = issued + 1
    BY <1>7 DEF UpdateToken, Generate, TypeInv, TypeOK, JobsFit, Row, Random
  <2> HIDE DEF row, j
  <2>4. /\ TokenId' = TokenId \cup {i} /\ token'[i] = row
        /\ \A k \in TokenId \ {i} : token'[k] = token[k]
    <3>1. /\ TokenId' = TokenId /\ token'[i] = row
          /\ \A k \in TokenId \ {i} : token'[k] = token[k]
      BY <2>2, <2>3, RowChanged DEF TokenId
    <3> QED
      BY <2>3, <3>1
  <2>5. job'[w] = j /\ \A v \in Worker \ {w} : job'[v] = job[v]
    BY <2>2 DEF TypeInv, TypeOK
  <2>6. token'[i].access \in (issued + 1)..issued' /\ issued <= issued'
    BY <1>1, <2>2, <2>3, <2>4
  <2> QED
    BY <1>1, <2>1, <2>2, <2>4, <2>5, <2>6, OnceWritten
<1>8. ASSUME NEW w \in Worker, NEW given, RefreshToken(w, given)
      PROVE  OnceInv'
  <2>1. PICK i \in TokenId :
          /\ token' = [token EXCEPT ![i].access = issued']
          /\ Continue(w, [Idle EXCEPT !.op = "reply", !.tid = i, !.row = token'[i]])
    BY <1>8 DEF RefreshToken
  <2> DEFINE j == [Idle EXCEPT !.op = "reply", !.tid = i, !.row = token'[i]]
  <2>2. j.op = "reply" /\ j.mediated = 0
    BY DEF Idle
  <2>3. job' = [job EXCEPT ![w] = j] /\ issued' = issued + 1 /\ UNCHANGED told
    BY <1>8, <2>1 DEF Continue, RefreshToken, Generate, histories
  <2> HIDE DEF j
  <2>4. token \in Seq(Row) /\ token[i] \in Row
    BY DEF TypeInv, TypeOK, TokenId
  <2>5. token'[i].access = issued'
    BY <2>1, <2>4 DEF Row, TokenId
  <2>6. TokenId' = TokenId \cup {i} /\ \A k \in TokenId \ {i} : token'[k] = token[k]
    BY <2>1 DEF TokenId
  <2>7. job'[w] = j /\ \A v \in Worker \ {w} : job'[v] = job[v]
    BY <2>3 DEF TypeInv, TypeOK
  <2>8. token'[i].access \in (issued + 1)..issued' /\ issued <= issued'
    BY <1>1, <2>3, <2>5
  <2> QED
    BY <1>1, <2>2, <2>3, <2>6, <2>7, <2>8, OnceWritten
<1>9. ASSUME NEW w \in Worker, Reply(w)
      PROVE  OnceInv'
  BY <1>9, OnceTold
<1>10. ASSUME NEW w \in Worker, Drop(w)
       PROVE  OnceInv'
  BY <1>10, OnceAbandon DEF Drop
<1>11. ASSUME PodDies \/ \E w \in Worker, id \in Uuid : RegisterUnknown(w, id)
       PROVE  OnceInv'
  BY <1>11, OnceAbandon DEF PodDies, RegisterUnknown, Worker
<1>12. ASSUME UNCHANGED vars
       PROVE  OnceInv'
  BY <1>12 DEF vars, OnceInv, Fresh, Once, OneTimeToken, TokenId
<1> QED
  BY <1>2, <1>3, <1>4, <1>5, <1>6, <1>7, <1>8, <1>9, <1>10, <1>11, <1>12 DEF Next

\* The one way in which a one-time token is redeemed twice is that two registrations
\* both read its row before either updates it: without that, no order of provisionings,
\* registrations and refreshes, no failure and no restart answers for a token twice.
THEOREM OnlyARaceRedeemsTwice == Spec /\ []NotTwice => []OneTimeToken
<1>1. Init => OnceInv
  <2> SUFFICES ASSUME Init PROVE OnceInv
    OBVIOUS
  <2>1. TypeInv /\ told = {} /\ TokenId = {} /\ issued = 0
    BY TypeInit DEF Init, TokenId
  <2>2. \A w \in Worker : job[w].op = "idle" /\ job[w].mediated = 0
    BY DEF Init, Idle
  <2> QED
    BY <2>1, <2>2 DEF OnceInv, Fresh, Once, OneTimeToken
<1>2. OnceInv => OneTimeToken
  BY DEF OnceInv, Once
<1> QED
  BY <1>1, <1>2, OnceStep, PTL DEF Spec

-----------------------------------------------------------------------------
(* Registry implements Credentials.                                        *)

\* The strings of p have been generated, when n have.
Numbered(p, n) == p.access \in 0..n /\ p.refresh \in 0..n

AllNumbered ==
  /\ \A i \in TokenId : Numbered(token[i], issued)
  /\ \A a \in told : Numbered(a.row, issued)
  /\ \A w \in Worker : /\ Numbered(job[w].row, issued)
                       /\ job[w].op = "insertToken" => job[w].mediated = 0

CredInv == TypeInv /\ AllNumbered

LEMMA NumberedMoves ==
  ASSUME CredInv, TypeInv', NEW w \in Worker, issued <= issued',
         \A i \in TokenId' :
           Numbered(token'[i], issued') \/ (i \in TokenId /\ token'[i] = token[i]),
         told' \subseteq told \cup {AnswerOf(job[w])},
         \A v \in Worker \ {w} : job'[v] = job[v],
         Numbered(job'[w].row, issued'),
         job'[w].op = "insertToken" => job'[w].mediated = 0
  PROVE  CredInv'
<1>1. issued \in Nat /\ issued' \in Nat
  BY DEF CredInv, TypeInv, TypeOK, Random
<1>2. \A p : Numbered(p, issued) => Numbered(p, issued')
  BY <1>1 DEF Numbered
<1>3. AnswerOf(job[w]).row = job[w].row
  BY DEF AnswerOf
<1> QED
  BY <1>2, <1>3 DEF CredInv, AllNumbered

LEMMA NumberedAbandon ==
  ASSUME CredInv, TypeInv', NEW S \in SUBSET Worker, Abandon(S)
  PROVE  CredInv'
<1>1. Numbered(Idle.row, issued) /\ Idle.op # "insertToken"
  BY DEF CredInv, TypeInv, TypeOK, Random, Idle, NoRow, Numbered
<1>2. /\ UNCHANGED <<token, issued, told>>
      /\ \A v \in Worker : job'[v] = IF v \in S THEN Idle ELSE job[v]
  BY DEF Abandon
<1> QED
  BY <1>1, <1>2 DEF CredInv, AllNumbered, TokenId

\* What w alone contributes to the answers on their way and to the exchanges.
WayOf(w) ==
  IF job[w].op \in {"insertOwner", "reply"} THEN {AnswerOf(job[w])} ELSE {}
ShownOf(w) ==
  IF job[w].op = "update" THEN {[tid |-> job[w].tid, shown |-> job[w].mediated]} ELSE {}

LEMMA Contributions ==
  /\ OnTheirWay = UNION {WayOf(w) : w \in Worker}
  /\ Shown = UNION {ShownOf(w) : w \in Worker}
BY DEF OnTheirWay, Shown, WayOf, ShownOf

\* A step of w changes its own contribution.
LEMMA OneMoves ==
  ASSUME NEW w \in Worker, \A v \in Worker \ {w} : job'[v] = job[v]
  PROVE  /\ OnTheirWay' \subseteq OnTheirWay \cup WayOf(w)'
         /\ (OnTheirWay \ WayOf(w)) \cup WayOf(w)' \subseteq OnTheirWay'
         /\ Shown' \subseteq Shown \cup ShownOf(w)'
         /\ (Shown \ ShownOf(w)) \cup ShownOf(w)' \subseteq Shown'
         /\ WayOf(w) \subseteq OnTheirWay /\ ShownOf(w) \subseteq Shown
<1>1. \A v \in Worker \ {w} : WayOf(v)' = WayOf(v) /\ ShownOf(v)' = ShownOf(v)
  BY DEF WayOf, ShownOf, AnswerOf
<1>2. /\ OnTheirWay' = UNION {WayOf(v)' : v \in Worker}
      /\ Shown' = UNION {ShownOf(v)' : v \in Worker}
  BY DEF OnTheirWay, Shown, WayOf, ShownOf
<1> QED
  BY <1>1, <1>2, Contributions

\* A step of w that nobody sees.
LEMMA NotSeen ==
  ASSUME NEW w \in Worker, \A v \in Worker \ {w} : job'[v] = job[v],
         UNCHANGED <<token, told>>,
         WayOf(w)' = WayOf(w), ShownOf(w)' = ShownOf(w)
  PROVE  UNCHANGED Promise!vars
<1>1. Shown' = Shown
  BY OneMoves
<1>2. OnTheirWay' = OnTheirWay
  BY OneMoves
<1> QED
  BY <1>1, <1>2 DEF Promise!vars

\* What is generated next is nobody's.
LEMMA NextIsUnused ==
  ASSUME CredInv, NEW x \in Nat, issued < x, x <= MaxRandom
  PROVE  x \in Promise!Unused
<1>1. issued \in Nat
  BY DEF CredInv, TypeInv, TypeOK, Random
<1>2. ASSUME NEW h \in Promise!Held
      PROVE  Numbered(h[2], issued)
  BY <1>2 DEF Promise!Held, CredInv, AllNumbered, OnTheirWay, AnswerOf, TokenId
<1>3. \A h \in Promise!Held : x \notin Promise!Strings(h[2])
  BY <1>1, <1>2 DEF Promise!Strings, Numbered
<1> QED
  BY <1>1, <1>3, MaxRandomAssumption DEF Promise!Unused

\* Each step keeps CredInv, and is one of Credentials or not seen there.
LEMMA CredStep ==
  CredInv /\ [Next]_vars => CredInv' /\ [Promise!Next]_(Promise!vars)
<1> DEFINE Good == CredInv' /\ [Promise!Next]_(Promise!vars)
<1> SUFFICES ASSUME CredInv, [Next]_vars
             PROVE  Good
  OBVIOUS
<1> TypeInv /\ TypeInv'
  BY TypeStep DEF CredInv
<1>1. issued \in Nat /\ issued' \in Nat /\ \A i \in TokenId : Numbered(token[i], issued)
  BY DEF CredInv, AllNumbered, TypeInv, TypeOK, Random
<1>2. \A w \in Worker : Numbered(job[w].row, issued) /\ Numbered(Idle.row, issued)
  BY <1>1 DEF CredInv, AllNumbered, Idle, NoRow, Numbered
\* A request moves on without an answer to send.
<1>3. ASSUME NEW w \in Worker, NEW j, Continue(w, j), j.row = NoRow,
             job[w].op \notin {"insertOwner", "update", "reply"},
             j.op \notin {"insertOwner", "update", "reply"}, j.mediated = 0,
             UNCHANGED <<token, told, issued>>
      PROVE  Good
  <2>1. job'[w] = j /\ \A v \in Worker \ {w} : job'[v] = job[v]
    BY <1>3 DEF Continue, TypeInv, TypeOK
  <2>2. UNCHANGED Promise!vars
    BY <1>3, <2>1, NotSeen DEF WayOf, ShownOf
  <2>3. Numbered(j.row, issued)
    BY <1>1, <1>3 DEF NoRow, Numbered
  <2> QED
    BY <1>1, <1>3, <2>1, <2>2, <2>3, NumberedMoves DEF TokenId
<1>4. ASSUME NEW w \in Worker,
             \/ \E u \in Username : RegisterUser(w, u)
             \/ \E id : PublishResource(w, id)
      PROVE  Good
  <2>1. UNCHANGED <<token, told, issued, job>>
    BY <1>4 DEF RegisterUser, PublishResource, histories
  <2> QED
    BY <2>1 DEF CredInv, AllNumbered, TokenId, Promise!vars, Shown, OnTheirWay, AnswerOf
<1>5. ASSUME NEW w \in Worker,
             \/ \E u : SelectUser(w, u)
             \/ InsertMediator(w)
             \/ \E kind, id, u : SelectMediator(w, kind, id, u)
      PROVE  Good
  <2>1. UNCHANGED <<token, told, issued>>
    BY <1>5 DEF SelectUser, InsertMediator, SelectMediator, histories
  <2>2. job[w].op \notin {"insertOwner", "update", "reply"}
    BY <1>5, IdleOp DEF SelectUser, InsertMediator, SelectMediator
  <2>3. Idle.op = "idle" /\ Idle.mediated = 0 /\ Idle.row = NoRow
    BY DEF Idle
  <2>4. CASE \E u : SelectUser(w, u)
    <3>1. PICK u : SelectUser(w, u)
      BY <2>4
    <3> DEFINE k == [Idle EXCEPT !.op = "insertMediator", !.username = u]
    <3>2. k.op = "insertMediator" /\ k.mediated = 0 /\ k.row = NoRow
      BY DEF Idle
    <3> HIDE DEF k
    <3>3. Continue(w, k)
      BY <3>1 DEF SelectUser, k
    <3> QED
      BY <1>3, <2>1, <2>2, <3>2, <3>3
  <2>5. CASE InsertMediator(w)
    <3>1. Continue(w, Idle)
      BY <2>5 DEF InsertMediator
    <3> QED
      BY <1>3, <2>1, <2>2, <2>3, <3>1
  <2>6. CASE \E kind, id, u : SelectMediator(w, kind, id, u)
    <3>1. PICK kind, id, u : SelectMediator(w, kind, id, u)
      BY <2>6
    <3> DEFINE k == [Idle EXCEPT !.op = "insertToken", !.kind = kind,
                                 !.uuid = id, !.username = u]
    <3>2. k.op = "insertToken" /\ k.mediated = 0 /\ k.row = NoRow
      BY DEF Idle
    <3> HIDE DEF k
    <3>3. Continue(w, k)
      BY <3>1 DEF SelectMediator, k
    <3> QED
      BY <1>3, <2>1, <2>2, <3>2, <3>3
  <2> QED
    BY <1>5, <2>4, <2>5, <2>6
<1>6. ASSUME NEW w \in Worker, InsertToken(w)
      PROVE  Good
  <2> DEFINE row == [access |-> issued', refresh |-> 0]
             j == [job[w] EXCEPT !.op = "insertOwner", !.tid = Len(token'), !.row = row]
             a == [tid |-> Len(token) + 1, mediated |-> 0, row |-> row]
  <2>1. /\ token \in Seq(Row) /\ token' = Append(token, row) /\ job' = [job EXCEPT ![w] = j]
        /\ job[w].op = "insertToken" /\ UNCHANGED told /\ issued' = issued + 1
        /\ issued' <= MaxRandom
    BY <1>6 DEF InsertToken, Generate, Continue, histories, TypeInv, TypeOK
  <2>2. row \in Row /\ Numbered(row, issued')
    BY <1>1, <1>6 DEF InsertToken, Generate, Row, Random, TypeInv, TypeOK, Numbered
  <2>3. row = Promise!Pair(issued', 0)
    BY DEF Promise!Pair
  <2> HIDE DEF row
  <2>4. /\ j.op = "insertOwner" /\ j.tid = Len(token') /\ j.row = row
        /\ j.mediated = job[w].mediated
    BY OwnerOfRow DEF TypeInv, TypeOK
  <2> HIDE DEF j
  <2>5. /\ Len(token') = Len(token) + 1 /\ TokenId' = TokenId \cup {Len(token')}
        /\ token'[Len(token')] = row
        /\ \A k \in TokenId : token'[k] = token[k]
    BY <2>1, <2>2, RowAdded DEF TokenId
  <2>6. job'[w] = j /\ \A v \in Worker \ {w} : job'[v] = job[v]
    BY <2>1 DEF TypeInv, TypeOK
  <2>7. CredInv'
    <3>1. \A k \in TokenId' :
            Numbered(token'[k], issued') \/ (k \in TokenId /\ token'[k] = token[k])
      BY <2>2, <2>5
    <3>2. issued <= issued' /\ job'[w].op # "insertToken" /\ Numbered(job'[w].row, issued')
      BY <1>1, <2>1, <2>2, <2>4, <2>6
    <3> HIDE DEF a
    <3> QED
      BY <2>1, <2>6, <3>1, <3>2, NumberedMoves
  <2>8. j.mediated = 0
    BY <2>1, <2>4 DEF CredInv, AllNumbered
  <2>9. WayOf(w) = {} /\ WayOf(w)' = {a} /\ ShownOf(w) = {} /\ ShownOf(w)' = {}
    BY <2>1, <2>4, <2>5, <2>6, <2>8 DEF WayOf, ShownOf, AnswerOf
  <2>10. OnTheirWay' = OnTheirWay \cup {a} /\ Shown' = Shown
    BY <2>6, <2>9, OneMoves
  <2>11. issued' \in Promise!Unused
    BY <1>1, <2>1, NextIsUnused
  <2>12. a = Promise!Answer(Len(token) + 1, 0, Promise!Pair(issued', 0))
    BY <2>3 DEF Promise!Answer
  <2>13. Promise!Grant
    BY <2>1, <2>3, <2>10, <2>11, <2>12 DEF Promise!Grant
  <2> QED
    BY <2>7, <2>13 DEF Promise!Next
<1>7. ASSUME NEW w \in Worker, InsertOwner(w) \/ InsertOwnerFails(w)
      PROVE  Good
  <2> DEFINE j == [job[w] EXCEPT !.op = "reply"]
  <2>1. j.op = "reply" /\ j.tid = job[w].tid /\ j.row = job[w].row /\ j.mediated = job[w].mediated
    BY ReplyOfJob DEF TypeInv, TypeOK
  <2>2. job' = [job EXCEPT ![w] = j] /\ job[w].op = "insertOwner"
    BY <1>7 DEF InsertOwner, InsertOwnerFails, Continue
  <2>3. UNCHANGED <<token, told, issued>>
    BY <1>7 DEF InsertOwner, InsertOwnerFails, histories
  <2> HIDE DEF j
  <2>4. job'[w] = j /\ \A v \in Worker \ {w} : job'[v] = job[v]
    BY <2>2 DEF TypeInv, TypeOK
  <2>5. WayOf(w)' = WayOf(w) /\ ShownOf(w)' = ShownOf(w)
    BY <2>1, <2>2, <2>4 DEF WayOf, ShownOf, AnswerOf
  <2>6. UNCHANGED Promise!vars
    BY <2>3, <2>4, <2>5, NotSeen
  <2> QED
    BY <1>1, <1>2, <2>1, <2>3, <2>4, <2>6, NumberedMoves DEF TokenId
<1>8. ASSUME NEW w \in Worker, NEW id, NEW given,
             RegisterDevice(w, id, given) \/ RegisterClient(w, id, given)
      PROVE  Good
  <2>1. PICK o \in owner : token[o.tid].access = given /\ Redeem(w, o, given)
    BY <1>8 DEF RegisterDevice, RegisterClient, Rows
  <2> DEFINE j == [Idle EXCEPT !.op = "update", !.kind = o.kind, !.uuid = o.uuid,
                       !.username = o.username, !.tid = o.tid, !.mediated = given]
  <2>2. j.op = "update" /\ j.tid = o.tid /\ j.mediated = given /\ j.row = Idle.row
    BY DEF Idle
  <2>3. job' = [job EXCEPT ![w] = j]
    BY <2>1 DEF Redeem, Continue
  <2> HIDE DEF j
  <2>4. UNCHANGED <<token, told, issued>> /\ job[w].op = "idle"
    BY <1>8, IdleOp DEF RegisterDevice, RegisterClient, histories
  <2>5. job'[w] = j /\ \A v \in Worker \ {w} : job'[v] = job[v]
    BY <2>3 DEF TypeInv, TypeOK
  <2>6. o.tid \in TokenId
    BY DEF TypeInv, TypeOK
  <2>7. CredInv'
    BY <1>1, <1>2, <2>2, <2>4, <2>5, NumberedMoves DEF TokenId
  <2>8. /\ WayOf(w) = {} /\ WayOf(w)' = {} /\ ShownOf(w) = {}
        /\ ShownOf(w)' = {[tid |-> o.tid, shown |-> given]}
    BY <2>2, <2>4, <2>5 DEF WayOf, ShownOf
  <2>9. OnTheirWay' = OnTheirWay /\ Shown' = Shown \cup {[tid |-> o.tid, shown |-> given]}
    BY <2>5, <2>8, OneMoves
  <2>10. Promise!Show(o.tid)
    BY <2>1, <2>4, <2>9 DEF Promise!Show, Promise!Request
  <2> QED
    BY <2>6, <2>7, <2>10 DEF Promise!Next, TokenId
<1>9. ASSUME NEW w \in Worker, UpdateToken(w)
      PROVE  Good
  <2> DEFINE row == [access |-> issued + 1, refresh |-> issued + 2]
             j == [job[w] EXCEPT !.op = "reply", !.row = row]
             i == job[w].tid
             q == [tid |-> i, shown |-> job[w].mediated]
             a == [tid |-> i, mediated |-> job[w].mediated, row |-> row]
  <2>1. j.op = "reply" /\ j.tid = i /\ j.row = row /\ j.mediated = job[w].mediated
    BY ReplyWithRow DEF TypeInv, TypeOK
  <2>2. /\ job[w].op = "update" /\ token' = [token EXCEPT ![i] = row]
        /\ job' = [job EXCEPT ![w] = j] /\ UNCHANGED told /\ issued' = issued + 2
        /\ issued + 2 <= MaxRandom
    BY <1>9 DEF UpdateToken, Generate, Continue, histories
  <2>3. i \in TokenId /\ row \in Row /\ token \in Seq(Row) /\ Numbered(row, issued')
    BY <1>9, <1>1, <2>2
       DEF UpdateToken, Generate, TypeInv, TypeOK, JobsFit, Row, Random, Numbered
  <2>4. row = Promise!Pair(issued + 1, issued + 2)
    BY DEF Promise!Pair
  <2> HIDE DEF row, j
  <2>5. /\ TokenId' = TokenId /\ token'[i] = row
        /\ \A k \in TokenId \ {i} : token'[k] = token[k]
    BY <2>2, <2>3, RowChanged DEF TokenId
  <2>6. job'[w] = j /\ \A v \in Worker \ {w} : job'[v] = job[v]
    BY <2>2 DEF TypeInv, TypeOK
  <2>7. CredInv'
    BY <1>1, <2>1, <2>2, <2>3, <2>5, <2>6, NumberedMoves
  <2>8. WayOf(w) = {} /\ WayOf(w)' = {a} /\ ShownOf(w) = {q} /\ ShownOf(w)' = {}
    BY <2>1, <2>2, <2>6 DEF WayOf, ShownOf, AnswerOf
  <2>9. OnTheirWay' = OnTheirWay \cup {a}
    BY <2>6, <2>8, OneMoves
  <2>10. q \in Shown /\ Shown' \in {Shown, Shown \ {q}}
    BY <2>6, <2>8, OneMoves
  <2>11. issued + 1 \in Promise!Unused /\ issued + 2 \in Promise!Unused
    <3> DEFINE x == issued + 1
               y == issued + 2
    <3>1. x \in Nat /\ issued < x /\ x <= MaxRandom /\ y \in Nat /\ issued < y /\ y <= MaxRandom
      BY <1>1, <2>2, MaxRandomAssumption
    <3> HIDE DEF x, y
    <3>2. x \in Promise!Unused /\ y \in Promise!Unused
      BY <3>1, NextIsUnused
    <3> QED
      BY <3>2 DEF x, y
  <2>12. a = Promise!Answer(q.tid, q.shown, Promise!Pair(issued + 1, issued + 2))
    BY <2>4 DEF Promise!Answer
  <2>13. Promise!Exchange(q)
    <3> DEFINE x == issued + 1
               y == issued + 2
    <3>1. x # y
      BY <1>1
    <3>2. /\ x \in Promise!Unused /\ y \in Promise!Unused /\ row = Promise!Pair(x, y)
          /\ a = Promise!Answer(q.tid, q.shown, Promise!Pair(x, y))
      BY <2>4, <2>11, <2>12
    <3>3. q.tid = i
      OBVIOUS
    <3> HIDE DEF x, y, a, q, i
    <3> QED
      BY <2>2, <2>9, <2>10, <3>1, <3>2, <3>3 DEF Promise!Exchange
  <2> QED
    BY <2>7, <2>10, <2>13 DEF Promise!Next
<1>10. ASSUME NEW w \in Worker, NEW given, RefreshToken(w, given)
       PROVE  Good
  <2>1. PICK i \in TokenId :
          /\ token[i].refresh = given /\ token' = [token EXCEPT ![i].access = issued']
          /\ Continue(w, [Idle EXCEPT !.op = "reply", !.tid = i, !.row = token'[i]])
    BY <1>10 DEF RefreshToken
  <2> DEFINE j == [Idle EXCEPT !.op = "reply", !.tid = i, !.row = token'[i]]
             a == [tid |-> i, mediated |-> 0, row |-> token'[i]]
  <2>2. j.op = "reply" /\ j.tid = i /\ j.mediated = 0 /\ j.row = token'[i]
    BY DEF Idle
  <2>3. /\ job' = [job EXCEPT ![w] = j] /\ issued' = issued + 1 /\ UNCHANGED told
        /\ issued' <= MaxRandom /\ given # 0
    BY <1>10, <2>1 DEF Continue, RefreshToken, Generate, histories
  <2> HIDE DEF j
  <2>4. token \in Seq(Row) /\ token[i] \in Row /\ job[w].op = "idle"
    BY <1>10, IdleOp DEF RefreshToken, TypeInv, TypeOK, TokenId
  <2>5. token'[i] = [token[i] EXCEPT !.access = issued']
    BY <2>1, <2>4 DEF TokenId
  <2>6. token'[i] = Promise!Pair(issued', token[i].refresh)
    BY <2>4, <2>5 DEF Row, Promise!Pair
  <2>7. Numbered(token'[i], issued')
    BY <1>1, <2>3, <2>6 DEF Numbered, Promise!Pair
  <2>8. TokenId' = TokenId /\ \A k \in TokenId \ {i} : token'[k] = token[k]
    BY <2>1 DEF TokenId
  <2>9. job'[w] = j /\ \A v \in Worker \ {w} : job'[v] = job[v]
    BY <2>3 DEF TypeInv, TypeOK
  <2>10. CredInv'
    BY <1>1, <2>2, <2>3, <2>7, <2>8, <2>9, NumberedMoves
  <2>11. WayOf(w) = {} /\ WayOf(w)' = {a} /\ ShownOf(w) = {} /\ ShownOf(w)' = {}
    BY <2>2, <2>4, <2>9 DEF WayOf, ShownOf, AnswerOf
  <2>12. OnTheirWay' = OnTheirWay \cup {a} /\ Shown' = Shown
    BY <2>9, <2>11, OneMoves
  <2>13. issued' \in Promise!Unused
    BY <1>1, <2>3, NextIsUnused
  <2>14. a = Promise!Answer(i, 0, Promise!Pair(issued', token[i].refresh))
    BY <2>6 DEF Promise!Answer
  <2>15. Promise!Refresh(i)
    BY <2>1, <2>3, <2>12, <2>13, <2>14 DEF Promise!Refresh
  <2> QED
    BY <2>10, <2>15 DEF Promise!Next, TokenId
<1>11. ASSUME NEW w \in Worker, Reply(w)
       PROVE  Good
  <2> DEFINE a == AnswerOf(job[w])
  <2>1. told' = told \cup {a} /\ UNCHANGED <<token, issued>> /\ job[w].op = "reply"
    BY <1>11 DEF Reply
  <2>2. job'[w] = Idle /\ \A v \in Worker \ {w} : job'[v] = job[v]
    BY <1>11 DEF Reply, Continue, TypeInv, TypeOK
  <2>3. CredInv'
    BY <1>1, <1>2, <2>1, <2>2, IdleOp, NumberedMoves DEF TokenId
  <2>4. WayOf(w) = {a} /\ WayOf(w)' = {} /\ ShownOf(w) = {} /\ ShownOf(w)' = {}
    BY <2>1, <2>2, IdleOp DEF WayOf, ShownOf
  <2>5. /\ a \in OnTheirWay /\ OnTheirWay' \in {OnTheirWay, OnTheirWay \ {a}}
        /\ Shown' = Shown
    BY <2>2, <2>4, OneMoves
  <2>6. Promise!Deliver(a)
    BY <2>1, <2>5 DEF Promise!Deliver
  <2> QED
    BY <2>3, <2>5, <2>6 DEF Promise!Next
<1>12. ASSUME NEW S \in SUBSET Worker, Abandon(S)
       PROVE  Good
  <2>1. UNCHANGED <<token, told>>
    BY <1>12 DEF Abandon
  <2>2. \A v \in Worker : job'[v] = Idle \/ job'[v] = job[v]
    BY <1>12 DEF Abandon
  <2>3. OnTheirWay' \subseteq OnTheirWay /\ Shown' \subseteq Shown
    BY <2>2, IdleOp DEF OnTheirWay, Shown, AnswerOf
  <2> QED
    BY <1>12, <2>1, <2>3, NumberedAbandon DEF Promise!Next, Promise!Lose
<1>13. ASSUME NEW w \in Worker, Drop(w)
       PROVE  Good
  BY <1>12, <1>13 DEF Drop
<1>14. ASSUME PodDies \/ \E w \in Worker, id \in Uuid : RegisterUnknown(w, id)
       PROVE  Good
  BY <1>12, <1>14 DEF PodDies, RegisterUnknown, Worker
<1>15. ASSUME UNCHANGED vars
       PROVE  Good
  BY <1>15 DEF vars, CredInv, AllNumbered, TokenId, Promise!vars, Shown, OnTheirWay, AnswerOf
<1> HIDE DEF Good
<1> QED
  BY <1>4, <1>5, <1>6, <1>7, <1>8, <1>9, <1>10, <1>11, <1>13, <1>14, <1>15 DEF Next

LEMMA CredInit == Init => CredInv /\ Promise!Init
<1> SUFFICES ASSUME Init PROVE CredInv /\ Promise!Init
  OBVIOUS
<1>1. TypeInv /\ token = <<>> /\ told = {} /\ TokenId = {} /\ issued = 0
  BY TypeInit DEF Init, TokenId
<1>2. \A w \in Worker : job[w] = Idle
  BY DEF Init
<1>3. Idle.op = "idle" /\ Numbered(Idle.row, 0)
  BY DEF Idle, NoRow, Numbered
<1>4. OnTheirWay = {} /\ Shown = {}
  BY <1>2, <1>3 DEF OnTheirWay, Shown
<1> QED
  BY <1>1, <1>2, <1>3, <1>4 DEF CredInv, AllNumbered, Promise!Init

\* The statements of the requests, interleaved and failing, implement the registry
\* that makes and changes a credential in one instant: what is answered is the pair
\* that its row got, with strings of its own, for the token that was shown for it.
THEOREM RegistryImplementsCredentials == Spec => ImplementsCredentials
<1> QED
  BY CredInit, CredStep, PTL DEF Spec, ImplementsCredentials, Promise!Spec

\* What is held besides: strings that nobody held, or that the same credential held.
LEMMA HeldGrows ==
  ASSUME Promise!OneRowPerString, NEW i, NEW p,
         Promise!Held' \subseteq Promise!Held \cup {<<i, p>>},
         \A x \in Promise!Strings(p) :
           \/ x \in Promise!Unused
           \/ \E h \in Promise!Held : h[1] = i /\ x \in Promise!Strings(h[2])
  PROVE  Promise!OneRowPerString'
<1>1. \A x \in Promise!Strings(p), g \in Promise!Held :
        x \in Promise!Strings(g[2]) => g[1] = i
  BY DEF Promise!OneRowPerString, Promise!Unused
<1>2. \A g \in Promise!Held' : g \in Promise!Held \/ (g[1] = i /\ g[2] = p)
  OBVIOUS
<1>3. \A r : Promise!Strings(r)' = Promise!Strings(r)
  BY DEF Promise!Strings
<1>4. ASSUME NEW g \in Promise!Held', NEW h \in Promise!Held', g[1] # h[1],
             NEW x, x \in Promise!Strings(g[2]), x \in Promise!Strings(h[2])
      PROVE  FALSE
  BY <1>1, <1>2, <1>4 DEF Promise!OneRowPerString
<1> QED
  BY <1>3, <1>4 DEF Promise!OneRowPerString, Promise!Strings

LEMMA HeldStep ==
  ASSUME TypeInv, Promise!OneRowPerString, [Promise!Next]_(Promise!vars)
  PROVE  Promise!OneRowPerString'
<1> token \in Seq(Row)
  BY DEF TypeInv, TypeOK
<1>1. ASSUME Promise!Held' \subseteq Promise!Held
      PROVE  Promise!OneRowPerString'
  BY <1>1 DEF Promise!OneRowPerString, Promise!Strings
<1>2. CASE Promise!Lose \/ UNCHANGED Promise!vars
  BY <1>1, <1>2 DEF Promise!Lose, Promise!vars, Promise!Held
<1>3. CASE \E i \in DOMAIN token : Promise!Show(i)
  BY <1>1, <1>3 DEF Promise!Show, Promise!Held
<1>4. CASE \E a \in OnTheirWay : Promise!Deliver(a)
  BY <1>1, <1>4 DEF Promise!Deliver, Promise!Held
<1>5. CASE Promise!Grant
  <2>1. PICK x \in Promise!Unused :
          /\ token' = Append(token, Promise!Pair(x, 0))
          /\ OnTheirWay' = OnTheirWay \cup
               {Promise!Answer(Len(token) + 1, 0, Promise!Pair(x, 0))}
          /\ UNCHANGED told
    BY <1>5 DEF Promise!Grant
  <2> DEFINE p == Promise!Pair(x, 0)
  <2>2. Promise!Strings(p) \subseteq {x}
    BY DEF Promise!Pair, Promise!Strings
  <2>3. /\ DOMAIN token' = DOMAIN token \cup {Len(token) + 1}
        /\ \A k \in DOMAIN token : token'[k] = token[k]
        /\ token'[Len(token) + 1] = p
    BY <2>1
  <2>4. Promise!Answer(Len(token) + 1, 0, p).tid = Len(token) + 1
        /\ Promise!Answer(Len(token) + 1, 0, p).row = p
    BY DEF Promise!Answer
  <2> HIDE DEF p
  <2>5. Promise!Held' \subseteq Promise!Held \cup {<<Len(token) + 1, p>>}
    BY <2>1, <2>3, <2>4 DEF Promise!Held, p
  <2> QED
    <3>1. PICK i : i = Len(token) + 1
      OBVIOUS
    <3>2. Promise!Held' \subseteq Promise!Held \cup {<<i, p>>}
      BY <2>5, <3>1
    <3>3. \A s \in Promise!Strings(p) : s \in Promise!Unused
      BY <2>2
    <3> QED
      BY <3>2, <3>3, HeldGrows
<1>6. CASE \E q \in Shown : Promise!Exchange(q)
  <2>1. PICK q \in Shown : Promise!Exchange(q)
    BY <1>6
  <2>2. PICK x \in Promise!Unused, y \in Promise!Unused :
          /\ token' = [token EXCEPT ![q.tid] = Promise!Pair(x, y)]
          /\ OnTheirWay' = OnTheirWay \cup
               {Promise!Answer(q.tid, q.shown, Promise!Pair(x, y))}
          /\ UNCHANGED told
    BY <2>1 DEF Promise!Exchange
  <2> DEFINE p == Promise!Pair(x, y)
  <2>3. Promise!Strings(p) \subseteq {x, y}
    BY DEF Promise!Pair, Promise!Strings
  <2>4. Promise!Answer(q.tid, q.shown, p).tid = q.tid /\ Promise!Answer(q.tid, q.shown, p).row = p
    BY DEF Promise!Answer
  <2>5. Promise!Held' \subseteq Promise!Held \cup {<<q.tid, p>>}
    <3> HIDE DEF p
    <3> QED
      BY <2>2, <2>4 DEF Promise!Held, p
  <2> HIDE DEF p
  <2> QED
    <3>1. \A s \in Promise!Strings(p) : s \in Promise!Unused
      BY <2>3
    <3> DEFINE i == q.tid
    <3>2. Promise!Held' \subseteq Promise!Held \cup {<<i, p>>}
      BY <2>5
    <3> HIDE DEF i
    <3> QED
      BY <3>1, <3>2, HeldGrows
<1>7. CASE \E i \in DOMAIN token : Promise!Refresh(i)
  <2>1. PICK i \in DOMAIN token : Promise!Refresh(i)
    BY <1>7
  <2> DEFINE y == token[i].refresh
  <2>2. PICK x \in Promise!Unused :
          /\ token' = [token EXCEPT ![i].access = x]
          /\ OnTheirWay' = OnTheirWay \cup {Promise!Answer(i, 0, Promise!Pair(x, y))}
          /\ UNCHANGED told /\ y # 0
    BY <2>1 DEF Promise!Refresh
  <2> DEFINE p == Promise!Pair(x, y)
  <2>3. Promise!Strings(p) \subseteq {x, y}
    BY DEF Promise!Pair, Promise!Strings
  <2>4. Promise!Answer(i, 0, p).tid = i /\ Promise!Answer(i, 0, p).row = p
    BY DEF Promise!Answer
  <2>5. token'[i] = p
    <3>1. token'[i] = [token[i] EXCEPT !.access = x] /\ token[i] \in Row
      BY <2>2
    <3> QED
      BY <3>1 DEF Row, Promise!Pair
  <2>6. DOMAIN token' = DOMAIN token /\ \A k \in DOMAIN token \ {i} : token'[k] = token[k]
    BY <2>2
  <2>7. <<i, token[i]>> \in Promise!Held /\ y \in Promise!Strings(token[i])
    BY <2>2 DEF Promise!Held, Promise!Strings
  <2> HIDE DEF p
  <2>8. Promise!Held' \subseteq Promise!Held \cup {<<i, p>>}
    BY <2>2, <2>4, <2>5, <2>6 DEF Promise!Held, p
  <2> QED
    <3>1. \A s \in Promise!Strings(p) :
            \/ s \in Promise!Unused
            \/ \E h \in Promise!Held : h[1] = i /\ s \in Promise!Strings(h[2])
      <4>1. <<i, token[i]>>[1] = i /\ <<i, token[i]>>[2] = token[i]
        OBVIOUS
      <4> QED
        BY <2>3, <2>7, <4>1
    <3> QED
      BY <2>8, <3>1, HeldGrows
<1> QED
  BY <1>2, <1>3, <1>4, <1>5, <1>6, <1>7 DEF Promise!Next

\* A string that a device or client is told, now or earlier, opens the row it was told
\* for and no other: nothing that is refreshed, registered or lost lets two rows share one.
THEOREM StringsOpenOneRow == Spec => []OneRowPerString
<1>1. Init => CredInv /\ Promise!Init
  BY CredInit
<1>2. Promise!Init => Promise!OneRowPerString
  BY DEF Promise!Init, Promise!OneRowPerString, Promise!Held
<1>3. CredInv => TypeInv
  BY DEF CredInv
<1>4. TypeInv /\ Promise!OneRowPerString /\ [Promise!Next]_(Promise!vars)
        => Promise!OneRowPerString'
  BY HeldStep
<1>5. CredInv /\ Promise!OneRowPerString /\ [Next]_vars => CredInv' /\ Promise!OneRowPerString'
  BY <1>3, <1>4, CredStep
<1>6. Promise!OneRowPerString => OneRowPerString
  BY DEF OneRowPerString
<1> QED
  BY <1>1, <1>2, <1>5, <1>6, PTL DEF Spec
=============================================================================
