---------------------------- MODULE RoutingProofs ----------------------------
(***************************************************************************)
(* Proofs about Routing for every set of pods, devices, connections,       *)
(* handlers and requests: type correctness, and that a request goes out on *)
(* a connection on which a login named its device.                         *)
(***************************************************************************)
EXTENDS Routing, TLAPS

\* What h is running, or has left to Redis, is a session request that was received.
NamingOf(h) == [dev |-> sess[h].dev, conn |-> sess[h].conn, login |-> sess[h].login]

\* The connection of a handler that runs has been opened, and not by a process of
\* the pod that has ended.
Busy ==
  \A h \in Handler :
    /\ sess[h].pc # "idle" => /\ sess[h].conn \in Conn
                              /\ sess[h].dev \in Device
                              /\ NamingOf(h) \in named
    /\ sess[h].pc \notin {"idle", "late"} => link[sess[h].conn] \in {"open", "closed"}

\* A request that runs names a device, and a pod once it has looked it up.
Asked ==
  \A r \in Request :
    /\ req[r].pc # "idle" => req[r].dev \in Device
    /\ req[r].pc \in {"forward", "check", "create", "exchange", "waiting"}
         => req[r].pod \in Pod
    /\ req[r].pc = "waiting" => req[r].conn # Nil

TypeInv == TypeOK /\ Busy /\ Asked

\* A pod's map sends a device's requests over a connection on which a login named
\* the device.
MapSound ==
  \A p \in Pod, d \in Device :
    devices[p][d] # Nil =>
      /\ [dev |-> d, conn |-> devices[p][d], login |-> TRUE] \in named
      /\ devices[p][d].pod = p

\* A request has no connection before the pod's third read of its map.
Unsent ==
  \A r \in Request :
    req[r].pc \in {"lookup", "forward", "check", "create", "exchange"}
      => req[r].conn = Nil

ReachInv == TypeInv /\ MapSound /\ Unsent /\ RequestReachesItsDevice

LEMMA ConnFields ==
  ASSUME NEW c \in Conn
  PROVE  c.pod \in Pod /\ c # Nil
BY ConnAssumption, NilAssumption

-----------------------------------------------------------------------------
(* Types.                                                                  *)

LEMMA TypeInit == Init => TypeInv
BY BoundAssumption DEF Init, TypeInv, TypeOK, Busy, Asked, NoSess, NoReq, SessRecord,
       ReqRecord, SessPc, ReqPc, Status

\* A request's step that leaves everyone else alone.
LEMMA RequestUpdate ==
  ASSUME TypeInv, NEW r \in Request, NEW x \in ReqRecord,
         req' = [req EXCEPT ![r] = x],
         UNCHANGED unchangedByRequest, faults' \in Nat,
         x.pc # "idle" => x.dev \in Device,
         x.pc \in {"forward", "check", "create", "exchange", "waiting"}
           => x.pod \in Pod,
         x.pc = "waiting" => x.conn # Nil
  PROVE  TypeInv'
<1>1. TypeOK'
  BY DEF TypeInv, TypeOK, unchangedByRequest, storeVars
<1>2. Busy'
  BY DEF TypeInv, Busy, NamingOf, unchangedByRequest
<1>3. Asked'
  BY DEF TypeInv, TypeOK, Asked
<1> QED
  BY <1>1, <1>2, <1>3 DEF TypeInv

LEMMA AnswerUpdate ==
  ASSUME TypeInv, NEW r \in Request, NEW s \in Status, req[r].pc # "idle",
         Answer(r, s), UNCHANGED unchangedByRequest, faults' \in Nat
  PROVE  TypeInv'
<1> DEFINE x == [req[r] EXCEPT !.pc = "done", !.status = s]
<1>1. req[r] \in ReqRecord /\ req[r].dev \in Device
  BY DEF TypeInv, TypeOK, Asked
<1>2. x \in ReqRecord /\ x.pc = "done" /\ x.dev \in Device
  BY <1>1 DEF ReqRecord, ReqPc
<1>3. req' = [req EXCEPT ![r] = x]
  BY DEF Answer, TypeInv, TypeOK
<1> HIDE DEF x
<1> QED
  BY <1>2, <1>3, RequestUpdate

\* A step that moves r on to q, which needs the pod it has.
LEMMA MoveUpdate ==
  ASSUME TypeInv, NEW r \in Request, NEW q \in {"check", "create", "exchange"},
         req[r].pc \in {"forward", "check", "create"},
         req' = [req EXCEPT ![r].pc = q],
         UNCHANGED unchangedByRequest, faults' \in Nat
  PROVE  TypeInv'
<1> DEFINE x == [req[r] EXCEPT !.pc = q]
<1>1. req[r] \in ReqRecord /\ req[r].dev \in Device /\ req[r].pod \in Pod
  BY DEF TypeInv, TypeOK, Asked
<1>2. /\ x \in ReqRecord /\ x.pc = q
      /\ x.dev \in Device /\ x.pod \in Pod
  BY <1>1 DEF ReqRecord, ReqPc
<1>3. req' = [req EXCEPT ![r] = x]
  BY DEF TypeInv, TypeOK
<1> HIDE DEF x
<1> QED
  BY <1>2, <1>3, RequestUpdate

LEMMA TypeRequest ==
  ASSUME TypeInv, NEW r \in Request, RequestStep(r) \/ Finish(r)
  PROVE  TypeInv'
<1>1. faults \in Nat /\ req \in [Request -> ReqRecord] /\ req[r] \in ReqRecord
  BY DEF TypeInv, TypeOK
<1>2. {"404", "500", "empty", "payload", "none"} \subseteq Status
  BY DEF Status
<1>3. CASE LookupPrivateIP(r)
  <2>1. CASE LookupMiss(r) \/ LookupUnspecified(r) \/ LookupFails(r)
    BY <1>1, <1>2, <2>1, AnswerUpdate
       DEF LookupMiss, LookupUnspecified, LookupFails
  <2>2. CASE LookupPod(r)
    <3> DEFINE x == [req[r] EXCEPT !.pc = "forward", !.pod = route[req[r].dev]]
    <3>1. req[r].dev \in Device /\ route[req[r].dev] \in Pod
      BY <2>2 DEF LookupPod, TypeInv, Asked
    <3>2. /\ x \in ReqRecord /\ x.pc = "forward"
          /\ x.dev \in Device /\ x.pod \in Pod
      BY <1>1, <3>1 DEF ReqRecord, ReqPc
    <3>3. req' = [req EXCEPT ![r] = x]
      BY <1>1, <2>2 DEF LookupPod
    <3>4. UNCHANGED unchangedByRequest /\ faults' \in Nat
      BY <1>1, <2>2 DEF LookupPod
    <3> HIDE DEF x
    <3> QED
      BY <3>2, <3>3, <3>4, RequestUpdate
  <2> QED
    BY <1>3, <2>1, <2>2 DEF LookupPrivateIP
<1>4. CASE Forward(r)
  BY <1>1, <1>2, <1>4, AnswerUpdate, MoveUpdate DEF Forward
<1>5. CASE Check(r)
  BY <1>1, <1>2, <1>5, AnswerUpdate, MoveUpdate DEF Check
<1>6. CASE Create(r)
  BY <1>1, <1>2, <1>6, AnswerUpdate, MoveUpdate DEF Create
<1>7. CASE Exchange(r)
  <2>1. req[r].pod \in Pod /\ req[r].dev \in Device
    BY <1>7 DEF Exchange, TypeInv, Asked
  <2>2. Entry(r) \in Conn \cup {Nil}
    BY <2>1 DEF Entry, TypeInv, TypeOK
  <2>3. CASE Entry(r) = Nil
    BY <1>1, <1>2, <1>7, <2>3, AnswerUpdate DEF Exchange
  <2>4. CASE Entry(r) # Nil
    <3> DEFINE x == [req[r] EXCEPT !.pc = "waiting", !.conn = Entry(r)]
    <3>1. /\ x \in ReqRecord /\ x.pc = "waiting" /\ x.conn # Nil
          /\ x.dev \in Device /\ x.pod \in Pod
      BY <1>1, <2>1, <2>2, <2>4 DEF ReqRecord, ReqPc
    <3>2. req' = [req EXCEPT ![r] = x]
      BY <1>1, <1>7, <2>4 DEF Exchange
    <3>3. UNCHANGED unchangedByRequest /\ faults' \in Nat
      BY <1>1, <1>7 DEF Exchange
    <3> HIDE DEF x
    <3> QED
      BY <3>1, <3>2, <3>3, RequestUpdate
  <2> QED
    BY <2>3, <2>4
<1>8. CASE Await(r)
  BY <1>1, <1>2, <1>8, AnswerUpdate
     DEF Await, DeviceReplies, ConnectionGone, ExchangeTimeout
<1>9. CASE Finish(r)
  <2>1. NoReq \in ReqRecord /\ NoReq.pc = "idle"
    BY DEF NoReq, ReqRecord, ReqPc, Status
  <2> QED
    BY <1>1, <1>9, <2>1, RequestUpdate DEF Finish
<1> QED
  BY <1>3, <1>4, <1>5, <1>6, <1>7, <1>8, <1>9 DEF RequestStep

\* A handler's step: it goes on with what it does, or is done.
LEMMA HandlerUpdate ==
  ASSUME TypeInv, NEW h \in Handler, sess[h].pc # "idle", NEW x \in SessRecord,
         sess' = [sess EXCEPT ![h] = x],
         \/ x.pc = "idle"
         \/ /\ x.dev = sess[h].dev /\ x.conn = sess[h].conn /\ x.login = sess[h].login
            /\ sess[h].pc # "late",
         UNCHANGED <<link, named>>
  PROVE  sess' \in [Handler -> SessRecord] /\ Busy'
<1>1. sess \in [Handler -> SessRecord] /\ Busy
  BY DEF TypeInv, TypeOK
<1>2. sess' \in [Handler -> SessRecord] /\ sess'[h] = x
  BY <1>1
<1>3. \A g \in Handler : g # h => sess'[g] = sess[g]
  BY <1>1
<1>4. Busy'
  BY <1>1, <1>2, <1>3 DEF Busy, NamingOf
<1> QED
  BY <1>2, <1>4

\* The same for the steps that set pc alone.
LEMMA HandlerMoves ==
  ASSUME TypeInv, NEW h \in Handler, sess[h].pc \notin {"idle", "late"}, NEW q \in SessPc,
         sess' = [sess EXCEPT ![h].pc = q], UNCHANGED <<link, named>>
  PROVE  sess' \in [Handler -> SessRecord] /\ Busy'
<1> DEFINE x == [sess[h] EXCEPT !.pc = q]
<1>1. sess \in [Handler -> SessRecord] /\ sess[h] \in SessRecord
  BY DEF TypeInv, TypeOK
<1>2. /\ x \in SessRecord
      /\ x.dev = sess[h].dev /\ x.conn = sess[h].conn /\ x.login = sess[h].login
  BY <1>1 DEF SessRecord
<1>3. sess' = [sess EXCEPT ![h] = x]
  BY <1>1
<1> HIDE DEF x
<1> QED
  BY <1>2, <1>3, HandlerUpdate

LEMMA NoSessType == NoSess \in SessRecord /\ NoSess.pc = "idle"
BY DEF NoSess, SessRecord, SessPc

LEMMA HandlerStops ==
  ASSUME TypeInv, NEW h \in Handler, sess[h].pc # "idle",
         sess' = [sess EXCEPT ![h] = NoSess], UNCHANGED <<link, named>>
  PROVE  sess' \in [Handler -> SessRecord] /\ Busy'
BY NoSessType, HandlerUpdate

LEMMA StoreTypes ==
  ASSUME TypeInv, NEW h \in Handler, sess[h].pc # "idle", Store(h)
  PROVE  /\ route' \in [Device -> Pod \cup {NoRoute, Unspecified}]
         /\ DevOf(h) \in Device
<1>1. sess[h].conn \in Conn /\ sess[h].dev \in Device
  BY DEF TypeInv, Busy
<1>2. sess[h].conn.pod \in Pod
  BY <1>1, ConnFields
<1> QED
  BY <1>1, <1>2 DEF Store, DevOf, PodOf, TypeInv, TypeOK

LEMMA TypeUpdate ==
  ASSUME TypeInv, NEW h \in Handler, UpdateSession(h) \/ LateStore(h)
  PROVE  TypeInv'
<1>1. {"reply", "map", "late"} \subseteq SessPc
  BY DEF SessPc
<1>2. CASE UpdateLogout(h) \/ UpdateLogin(h)
  <2>1. sess' \in [Handler -> SessRecord] /\ Busy'
    BY <1>1, <1>2, HandlerMoves DEF UpdateLogout, UpdateLogin
  <2>2. /\ route' \in [Device -> Pod \cup {NoRoute, Unspecified}]
        /\ adrift' \subseteq Device
    BY <1>2, StoreTypes DEF UpdateLogout, UpdateLogin, TypeInv, TypeOK
  <2>3. UNCHANGED <<up, link, waiting, devices, req, crashes, faults, named>>
    BY <1>2 DEF UpdateLogout, UpdateLogin
  <2> QED
    BY <2>1, <2>2, <2>3 DEF TypeInv, TypeOK, Asked
<1>3. CASE UpdateNoTTL(h) \/ UpdateUnknown(h) \/ UpdateFails(h)
  <2>1. sess' \in [Handler -> SessRecord] /\ Busy'
    BY <1>1, <1>3, HandlerMoves, HandlerStops DEF UpdateNoTTL, UpdateUnknown, UpdateFails
  <2>2. faults' \in Nat /\ UNCHANGED <<up, link, waiting, route, adrift, devices, req, crashes, named>>
    BY <1>3 DEF UpdateNoTTL, UpdateUnknown, UpdateFails, TypeInv, TypeOK, storeVars
  <2> QED
    BY <2>1, <2>2 DEF TypeInv, TypeOK, Asked
<1>4. CASE LateStore(h)
  <2>1. sess' \in [Handler -> SessRecord] /\ Busy'
    BY <1>4, HandlerStops DEF LateStore
  <2>2. /\ route' \in [Device -> Pod \cup {NoRoute, Unspecified}]
        /\ adrift' \subseteq Device
    BY <1>4, StoreTypes DEF LateStore, TypeInv, TypeOK
  <2>3. UNCHANGED <<up, link, waiting, devices, req, crashes, faults, named>>
    BY <1>4 DEF LateStore
  <2> QED
    BY <2>1, <2>2, <2>3 DEF TypeInv, TypeOK, Asked
<1> QED
  BY <1>2, <1>3, <1>4 DEF UpdateSession

LEMMA TypeHandler ==
  ASSUME TypeInv, NEW h \in Handler, HandlerStep(h) \/ LateStore(h)
  PROVE  TypeInv'
<1>1. {"reply", "map", "write"} \subseteq SessPc
  BY DEF SessPc
<1>2. CASE Reply(h)
  <2>1. sess' \in [Handler -> SessRecord] /\ Busy'
    <3>1. CASE sess[h].login
      <4>1. sess' = [sess EXCEPT ![h].pc = "map"]
        BY <1>2, <3>1 DEF Reply
      <4> QED
        BY <1>1, <1>2, <4>1, HandlerMoves DEF Reply
    <3>2. CASE ~sess[h].login
      BY <1>2, <3>2, HandlerStops DEF Reply
    <3> QED
      BY <3>1, <3>2
  <2> QED
    BY <1>2, <2>1 DEF Reply, TypeInv, TypeOK, Asked, storeVars
<1>3. CASE Lock(h)
  BY <1>1, <1>3, HandlerMoves DEF Lock, TypeInv, TypeOK, Asked, storeVars
<1>4. CASE AddDevice(h)
  <2>1. sess' \in [Handler -> SessRecord] /\ Busy'
    BY <1>4, HandlerStops DEF AddDevice
  <2>2. sess[h].conn \in Conn
    BY <1>4 DEF AddDevice, TypeInv, Busy
  <2> QED
    BY <1>4, <2>1, <2>2 DEF AddDevice, TypeInv, TypeOK, Asked, storeVars
<1>5. CASE RemoveDevice(h)
  <2>1. sess' \in [Handler -> SessRecord] /\ Busy'
    BY <1>1, <1>5, HandlerMoves DEF RemoveDevice
  <2> QED
    BY <1>5, <2>1 DEF RemoveDevice, TypeInv, TypeOK, Asked, storeVars
<1>6. CASE UpdateSession(h) \/ LateStore(h)
  BY <1>6, TypeUpdate
<1> QED
  BY <1>2, <1>3, <1>4, <1>5, <1>6 DEF HandlerStep

LEMMA TypeCrash ==
  ASSUME TypeInv, NEW p \in Pod, CrashPod(p)
  PROVE  TypeInv'
<1> USE DEF TypeInv, TypeOK, CrashPod
<1>1. NoSess \in SessRecord
  BY DEF NoSess, SessRecord, SessPc
<1>2. ASSUME NEW r \in Request
      PROVE  [req[r] EXCEPT !.pc = "done", !.status = "500"] \in ReqRecord
  <2>1. req[r] \in ReqRecord
    OBVIOUS
  <2> QED
    BY ONLY <2>1 DEF ReqRecord, ReqPc, Status
<1>3. \A h \in Handler : sess'[h] = NoSess \/ sess'[h] = sess[h]
  OBVIOUS
<1>4. \A r \in Request :
        \/ req'[r] = req[r]
        \/ /\ req'[r] = [req[r] EXCEPT !.pc = "done", !.status = "500"]
           /\ req[r].pc # "idle"
  OBVIOUS
<1>5. sess' \in [Handler -> SessRecord]
  BY <1>1
<1>6. req' \in [Request -> ReqRecord]
  BY <1>2
<1>7. devices' \in [Pod -> [Device -> Conn \cup {Nil}]]
  OBVIOUS
<1>11. link' \in [Conn -> {"new", "open", "closed", "gone"}]
  <2>1. \A c \in Conn : link[c] \in {"new", "open", "closed", "gone"}
    OBVIOUS
  <2> QED
    BY <2>1
<1>12. up' \in [Pod -> BOOLEAN]
  <2>1. up \in [Pod -> BOOLEAN] /\ up' = [up EXCEPT ![p] = FALSE]
    OBVIOUS
  <2> QED
    BY ONLY <2>1
<1>13. crashes' \in Nat
  <2>1. \A n \in Nat : n + 1 \in Nat
    BY ONLY SMT
  <2> QED
    BY <2>1
<1>14. route' \in [Device -> Pod \cup {NoRoute, Unspecified}] /\ faults' \in Nat
  OBVIOUS
<1>15. named' \subseteq Naming /\ adrift' \subseteq Device
  OBVIOUS
<1>10. waiting' \in [Conn -> Device \cup {Nil}]
  <2>1. waiting' = [c \in Conn |-> IF c.pod = p THEN Nil ELSE waiting[c]]
    OBVIOUS
  <2>2. ASSUME NEW c \in Conn
        PROVE  (IF c.pod = p THEN Nil ELSE waiting[c]) \in Device \cup {Nil}
    <3>1. waiting[c] \in Device \cup {Nil}
      OBVIOUS
    <3> QED
      BY ONLY <3>1
  <2> QED
    BY ONLY <2>1, <2>2
<1>8. Busy'
  <2> SUFFICES ASSUME NEW h \in Handler, sess'[h].pc # "idle"
               PROVE  /\ sess'[h].conn \in Conn /\ sess'[h].dev \in Device
                      /\ NamingOf(h)' \in named'
                      /\ sess'[h].pc # "late" => link'[sess'[h].conn] \in {"open", "closed"}
    BY DEF Busy
  <2>1. sess'[h] = sess[h] /\ (sess[h].pc = "late" \/ sess[h].conn.pod # p)
    BY NoSessType
  <2>2. /\ sess[h].conn \in Conn /\ sess[h].dev \in Device /\ NamingOf(h) \in named
        /\ sess[h].pc # "late" => link[sess[h].conn] \in {"open", "closed"}
    BY <2>1 DEF Busy
  <2>3. \A c \in Conn : c.pod # p => link'[c] = link[c]
    OBVIOUS
  <2> QED
    BY <2>1, <2>2, <2>3 DEF NamingOf
<1>9. Asked'
  <2> SUFFICES ASSUME NEW r \in Request
               PROVE  /\ req'[r].pc # "idle" => req'[r].dev \in Device
                      /\ req'[r].pc \in {"forward", "check", "create",
                                         "exchange", "waiting"}
                           => req'[r].pod \in Pod
                      /\ req'[r].pc = "waiting" => req'[r].conn # Nil
    BY DEF Asked
  <2>1. CASE req'[r] = req[r]
    BY <2>1 DEF Asked
  <2>2. CASE /\ req'[r] = [req[r] EXCEPT !.pc = "done", !.status = "500"]
             /\ req[r].pc # "idle"
    <3>1. req[r] \in ReqRecord /\ req[r].dev \in Device
      BY <2>2 DEF Asked
    <3>2. req'[r].pc = "done" /\ req'[r].dev = req[r].dev
      BY <2>2, <3>1 DEF ReqRecord
    <3> QED
      BY <3>1, <3>2
  <2> QED
    BY <1>4, <2>1, <2>2
<1> QED
  BY <1>5, <1>6, <1>7, <1>8, <1>9, <1>10, <1>11, <1>12, <1>13, <1>14, <1>15

LEMMA TypeEnvironment ==
  ASSUME TypeInv,
         \/ \E c \in Conn : Connect(c) \/ Disconnect(c)
         \/ \E c \in Conn, h \in Handler, d \in Device, login \in BOOLEAN :
              SendSession(c, h, d, login)
         \/ \E p \in Pod : Restart(p)
         \/ \E d \in Device : ExpireRoute(d)
         \/ \E r \in Request, d \in Device : Ask(r, d)
  PROVE  TypeInv'
<1> USE DEF TypeInv, TypeOK, Busy, NamingOf, Asked, storeVars
<1>1. ASSUME NEW c \in Conn, Connect(c) \/ Disconnect(c)
      PROVE  TypeInv'
  <2>1. /\ UNCHANGED <<up, route, adrift, devices, sess, req, crashes, faults, named>>
        /\ waiting' \in [Conn -> Device \cup {Nil}]
    BY <1>1 DEF Connect, Disconnect
  <2>2. /\ link' \in [Conn -> {"new", "open", "closed", "gone"}]
        /\ \A k \in Conn : link[k] \in {"open", "closed"} => link'[k] \in {"open", "closed"}
    BY <1>1 DEF Connect, Disconnect
  <2> QED
    BY <2>1, <2>2
<1>2. ASSUME NEW c \in Conn, NEW h \in Handler, NEW d \in Device,
             NEW login \in BOOLEAN, SendSession(c, h, d, login)
      PROVE  TypeInv'
  <2> DEFINE x == [pc |-> "update", dev |-> d, conn |-> c, login |-> login]
  <2>1. /\ x \in SessRecord /\ x.pc = "update" /\ x.conn = c /\ x.dev = d
        /\ [dev |-> x.dev, conn |-> x.conn, login |-> x.login] \in named'
    BY <1>2 DEF SendSession, SessRecord, SessPc
  <2>2. sess' = [sess EXCEPT ![h] = x]
    BY <1>2 DEF SendSession
  <2>3. /\ link[c] = "open" /\ UNCHANGED <<up, link, route, adrift, devices, req, crashes, faults>>
        /\ waiting' = [waiting EXCEPT ![c] = d]
        /\ named \subseteq named' /\ named' \subseteq Naming
    BY <1>2 DEF SendSession, Naming
  <2> HIDE DEF x
  <2> QED
    BY <2>1, <2>2, <2>3
<1>3. ASSUME NEW p \in Pod, Restart(p)
      PROVE  TypeInv'
  BY <1>3 DEF Restart
<1>4. ASSUME NEW d \in Device, ExpireRoute(d)
      PROVE  TypeInv'
  BY <1>4 DEF ExpireRoute
<1>5. ASSUME NEW r \in Request, NEW d \in Device, Ask(r, d)
      PROVE  TypeInv'
  BY <1>5 DEF Ask, NoReq, ReqRecord, ReqPc, Status, unchangedByRequest
<1> QED
  BY <1>1, <1>2, <1>3, <1>4, <1>5

LEMMA TypeStep == TypeInv /\ [Next]_vars => TypeInv'
<1> SUFFICES ASSUME TypeInv, [Next]_vars
             PROVE  TypeInv'
  OBVIOUS
<1>1. CASE UNCHANGED vars
  BY <1>1 DEF vars, storeVars, TypeInv, TypeOK, Busy, NamingOf, Asked
<1>2. CASE \E h \in Handler : HandlerStep(h) \/ LateStore(h)
  BY <1>2, TypeHandler
<1>3. CASE \E p \in Pod : CrashPod(p)
  BY <1>3, TypeCrash
<1>4. CASE \E r \in Request : RequestStep(r) \/ Finish(r)
  BY <1>4, TypeRequest
<1>5. CASE \E r \in Request : RacyRead(r)
  <2>1. PICK r \in Request : RacyRead(r)
    BY <1>5
  <2>2. req[r].pod \in Pod
    BY <2>1 DEF RacyRead, TypeInv, Asked
  <2> QED
    BY <2>1, <2>2, TypeCrash DEF RacyRead
<1>6. CASE \/ \E c \in Conn : Connect(c) \/ Disconnect(c)
           \/ \E c \in Conn, h \in Handler, d \in Device, login \in BOOLEAN :
                SendSession(c, h, d, login)
           \/ \E p \in Pod : Restart(p)
           \/ \E d \in Device : ExpireRoute(d)
           \/ \E r \in Request, d \in Device : Ask(r, d)
  BY <1>6, TypeEnvironment
<1> QED
  BY <1>1, <1>2, <1>3, <1>4, <1>5, <1>6 DEF Next

LEMMA TypeInvariant == Spec => []TypeInv
BY TypeInit, TypeStep, PTL DEF Spec

\* The variables keep their types: no handler acts without a connection and
\* no request is forwarded to what is not a pod, such as "::/128".
THEOREM TypeCorrect == Spec => []TypeOK
BY TypeInvariant, PTL DEF TypeInv

-----------------------------------------------------------------------------
(* Requests reach their device.                                            *)

LEMMA RequestFrame ==
  ASSUME NEW r \in Request, RequestStep(r) \/ Finish(r)
  PROVE  UNCHANGED unchangedByRequest
BY DEF RequestStep, Await, LookupPrivateIP, LookupMiss, LookupUnspecified,
       LookupPod, LookupFails, Forward, Check, Create, Exchange, DeviceReplies,
       ConnectionGone, ExchangeTimeout, Finish

\* What session requests have named is never forgotten.
LEMMA NamedGrows == [Next]_vars => named \subseteq named'
<1> SUFFICES ASSUME [Next]_vars
             PROVE  named \subseteq named'
  OBVIOUS
<1>1. ASSUME NEW h \in Handler, HandlerStep(h) \/ LateStore(h)
      PROVE  UNCHANGED named
  BY <1>1 DEF HandlerStep, UpdateSession, UpdateLogout, UpdateLogin, UpdateNoTTL,
              UpdateUnknown, UpdateFails, LateStore, Reply, Lock, AddDevice, RemoveDevice
<1>2. ASSUME NEW r \in Request, RequestStep(r) \/ Finish(r)
      PROVE  UNCHANGED named
  BY <1>2, RequestFrame DEF unchangedByRequest
<1>3. ASSUME NEW r \in Request, NEW d \in Device, Ask(r, d)
      PROVE  UNCHANGED named
  BY <1>3 DEF Ask, unchangedByRequest
<1>4. CASE \/ \E c \in Conn : Connect(c) \/ Disconnect(c)
           \/ \E p \in Pod : CrashPod(p) \/ Restart(p)
           \/ \E d \in Device : ExpireRoute(d)
           \/ \E r \in Request : RacyRead(r)
  BY <1>4 DEF Connect, Disconnect, CrashPod, Restart, ExpireRoute, RacyRead
<1>5. CASE \E c \in Conn, h \in Handler, d \in Device, login \in BOOLEAN :
             SendSession(c, h, d, login)
  BY <1>5 DEF SendSession
<1> QED
  BY <1>1, <1>2, <1>3, <1>4, <1>5 DEF Next, vars

\* Only AddDevice puts a connection into a map.
LEMMA MapFrame ==
  ASSUME [Next]_vars,
         \A h \in Handler : ~AddDevice(h) /\ ~RemoveDevice(h),
         \A p \in Pod : ~CrashPod(p),
         \A r \in Request : ~RacyRead(r)
  PROVE  UNCHANGED devices
<1>1. ASSUME NEW h \in Handler, UpdateSession(h) \/ LateStore(h) \/ Reply(h) \/ Lock(h)
      PROVE  UNCHANGED devices
  BY <1>1 DEF UpdateSession, UpdateLogout, UpdateLogin, UpdateNoTTL,
              UpdateUnknown, UpdateFails, LateStore, Reply, Lock
<1>2. ASSUME NEW r \in Request, RequestStep(r) \/ Finish(r)
      PROVE  UNCHANGED devices
  BY <1>2, RequestFrame DEF unchangedByRequest
<1>3. ASSUME NEW r \in Request, NEW d \in Device, Ask(r, d)
      PROVE  UNCHANGED devices
  BY <1>3 DEF Ask, unchangedByRequest
<1>4. CASE \/ \E c \in Conn : Connect(c) \/ Disconnect(c)
           \/ \E p \in Pod : Restart(p)
           \/ \E d \in Device : ExpireRoute(d)
  BY <1>4 DEF Connect, Disconnect, Restart, ExpireRoute
<1>5. CASE \E c \in Conn, h \in Handler, d \in Device, login \in BOOLEAN :
             SendSession(c, h, d, login)
  BY <1>5 DEF SendSession
<1> QED
  BY <1>1, <1>2, <1>3, <1>4, <1>5 DEF Next, HandlerStep, vars

LEMMA MapStep == TypeInv /\ MapSound /\ [Next]_vars => MapSound'
<1> SUFFICES ASSUME TypeInv, MapSound, [Next]_vars
             PROVE  MapSound'
  OBVIOUS
<1> USE DEF TypeInv, TypeOK, MapSound
<1>1. named \subseteq named'
  BY NamedGrows
<1>2. ASSUME NEW h \in Handler, AddDevice(h)
      PROVE  MapSound'
  <2>1. /\ sess[h].conn \in Conn /\ sess[h].dev \in Device
        /\ [dev |-> sess[h].dev, conn |-> sess[h].conn, login |-> TRUE] \in named
    BY <1>2 DEF AddDevice, Busy, NamingOf, SessRecord
  <2>2. /\ devices'[PodOf(h)][DevOf(h)] = sess[h].conn
        /\ \A p \in Pod, d \in Device :
             p # PodOf(h) \/ d # DevOf(h) => devices'[p][d] = devices[p][d]
    BY <1>2, <2>1, ConnFields DEF AddDevice, DevOf, PodOf
  <2> SUFFICES ASSUME NEW p \in Pod, NEW d \in Device, devices'[p][d] # Nil
               PROVE  /\ [dev |-> d, conn |-> devices'[p][d], login |-> TRUE] \in named'
                      /\ devices'[p][d].pod = p
    BY DEF MapSound
  <2>3. CASE p = PodOf(h) /\ d = DevOf(h)
    BY <1>1, <2>1, <2>2, <2>3 DEF DevOf, PodOf
  <2>4. CASE ~(p = PodOf(h) /\ d = DevOf(h))
    <3>1. devices'[p][d] = devices[p][d]
      BY <2>2, <2>4
    <3> QED
      BY <1>1, <3>1
  <2> QED
    BY <2>3, <2>4
<1>3. ASSUME NEW h \in Handler, RemoveDevice(h)
      PROVE  MapSound'
  BY <1>1, <1>3 DEF RemoveDevice, DevOf, PodOf
<1>4. ASSUME NEW p \in Pod, CrashPod(p)
      PROVE  MapSound'
  <2>1. \A d \in Device : devices'[p][d] = Nil
    BY <1>4 DEF CrashPod
  <2>2. \A q \in Pod : q # p => devices'[q] = devices[q]
    BY <1>4 DEF CrashPod
  <2> QED
    BY <1>1, <2>1, <2>2
<1>5. CASE UNCHANGED devices
  BY <1>1, <1>5
<1>6. ASSUME NEW r \in Request, RacyRead(r)
      PROVE  MapSound'
  BY <1>4, <1>6 DEF RacyRead, Asked
<1> QED
  BY <1>2, <1>3, <1>4, <1>5, <1>6, MapFrame

\* A request's step keeps RequestReachesItsDevice: only Exchange gives it a
\* connection, and only an exchange gives it a payload.
LEMMA ReachRequest ==
  ASSUME ReachInv, NEW r \in Request, RequestStep(r) \/ Finish(r)
  PROVE  Unsent' /\ RequestReachesItsDevice'
<1> USE DEF RequestReachesItsDevice, Unsent, Answer
<1>1. /\ req \in [Request -> ReqRecord] /\ Asked /\ MapSound
      /\ Unsent /\ RequestReachesItsDevice
  BY DEF ReachInv, TypeInv, TypeOK
<1>0. UNCHANGED named
  BY RequestFrame DEF unchangedByRequest
<1>2. CASE LookupPod(r)
  BY <1>0, <1>1, <1>2 DEF LookupPod, ReqRecord
<1>3. CASE LookupMiss(r) \/ LookupUnspecified(r) \/ LookupFails(r)
  BY <1>0, <1>1, <1>3 DEF LookupMiss, LookupUnspecified, LookupFails, ReqRecord
<1>4. CASE Forward(r)
  BY <1>0, <1>1, <1>4 DEF Forward, ReqRecord
<1>5. CASE Check(r)
  BY <1>0, <1>1, <1>5 DEF Check, ReqRecord
<1>6. CASE Create(r)
  BY <1>0, <1>1, <1>6 DEF Create, ReqRecord
<1>7. CASE Exchange(r)
  <2>1. req[r].pod \in Pod /\ req[r].dev \in Device
    BY <1>0, <1>1, <1>7 DEF Exchange, Asked
  <2>2. Entry(r) # Nil =>
          /\ [dev |-> req[r].dev, conn |-> Entry(r), login |-> TRUE] \in named
          /\ Entry(r).pod = req[r].pod
    BY <1>1, <2>1 DEF Entry, MapSound
  <2> QED
    BY <1>0, <1>1, <1>7, <2>2 DEF Exchange, ReqRecord
<1>8. CASE Await(r)
  BY <1>0, <1>1, <1>8
     DEF Await, DeviceReplies, ConnectionGone, ExchangeTimeout, ReqRecord, Asked
<1>9. CASE Finish(r)
  BY <1>0, <1>1, <1>9 DEF Finish, NoReq
<1> QED
  BY <1>2, <1>3, <1>4, <1>5, <1>6, <1>7, <1>8, <1>9
     DEF RequestStep, LookupPrivateIP

\* What the end of a pod does to a request: nothing, or a 500.
LEMMA CrashRequest ==
  ASSUME NEW p \in Pod, CrashPod(p), NEW r \in Request, req[r] \in ReqRecord
  PROVE  \/ req'[r] = req[r]
         \/ /\ req'[r].pc = "done" /\ req'[r].status = "500"
            /\ req'[r].conn = req[r].conn /\ req'[r].dev = req[r].dev
            /\ req'[r].pod = req[r].pod
<1>1. \/ req'[r] = req[r]
      \/ req'[r] = [req[r] EXCEPT !.pc = "done", !.status = "500"]
  BY DEF CrashPod
<1> QED
  BY ONLY <1>1, req[r] \in ReqRecord DEF ReqRecord

LEMMA ReachCrash ==
  ASSUME ReachInv, NEW p \in Pod, CrashPod(p)
  PROVE  Unsent' /\ RequestReachesItsDevice'
<1>1. ASSUME NEW r \in Request
      PROVE  \/ req'[r] = req[r]
             \/ /\ req'[r].pc = "done" /\ req'[r].status = "500"
                /\ req'[r].conn = req[r].conn /\ req'[r].dev = req[r].dev
                /\ req'[r].pod = req[r].pod
  BY CrashRequest DEF ReachInv, TypeInv, TypeOK
<1>2. Unsent /\ RequestReachesItsDevice
  BY DEF ReachInv
<1>3. Unsent'
  BY <1>1, <1>2 DEF Unsent
<1>4. RequestReachesItsDevice'
  <2> SUFFICES ASSUME NEW r \in Request
               PROVE  /\ req'[r].conn # Nil =>
                           /\ [dev |-> req'[r].dev, conn |-> req'[r].conn,
                               login |-> TRUE] \in named'
                           /\ req'[r].conn.pod = req'[r].pod
                      /\ req'[r].status = "payload" => req'[r].conn # Nil
    BY DEF RequestReachesItsDevice
  <2>1. named' = named
    BY DEF CrashPod
  <2> QED
    BY <1>1, <1>2, <2>1 DEF RequestReachesItsDevice
<1> QED
  BY <1>3, <1>4

LEMMA ReachStep == ReachInv /\ [Next]_vars => ReachInv'
<1> SUFFICES ASSUME ReachInv, [Next]_vars
             PROVE  Unsent' /\ RequestReachesItsDevice'
  BY TypeStep, MapStep DEF ReachInv
<1>1. ASSUME NEW r \in Request, RequestStep(r) \/ Finish(r)
      PROVE  Unsent' /\ RequestReachesItsDevice'
  BY <1>1, ReachRequest
<1>2. ASSUME NEW p \in Pod, CrashPod(p)
      PROVE  Unsent' /\ RequestReachesItsDevice'
  BY <1>2, ReachCrash
<1>3. ASSUME NEW r \in Request, RacyRead(r)
      PROVE  Unsent' /\ RequestReachesItsDevice'
  BY <1>2, <1>3 DEF RacyRead, ReachInv, TypeInv, Asked
<1>4. ASSUME NEW r \in Request, NEW d \in Device, Ask(r, d)
      PROVE  Unsent' /\ RequestReachesItsDevice'
  BY <1>4 DEF Ask, NoReq, ReachInv, TypeInv, TypeOK, Unsent,
              RequestReachesItsDevice, unchangedByRequest
<1>5. CASE UNCHANGED req
  BY <1>5, NamedGrows DEF ReachInv, Unsent, RequestReachesItsDevice
<1>6. ASSUME NEW h \in Handler, HandlerStep(h) \/ LateStore(h)
      PROVE  UNCHANGED req
  BY <1>6 DEF HandlerStep, UpdateSession, UpdateLogout, UpdateLogin,
              UpdateNoTTL, UpdateUnknown, UpdateFails, LateStore, Reply, Lock, AddDevice,
              RemoveDevice
<1>7. ASSUME NEW c \in Conn, Connect(c) \/ Disconnect(c)
      PROVE  UNCHANGED req
  BY <1>7 DEF Connect, Disconnect
<1>8. ASSUME NEW c \in Conn, NEW h \in Handler, NEW d \in Device,
             NEW login \in BOOLEAN, SendSession(c, h, d, login)
      PROVE  UNCHANGED req
  BY <1>8 DEF SendSession
<1>9. ASSUME NEW p \in Pod, Restart(p)
      PROVE  UNCHANGED req
  BY <1>9 DEF Restart
<1>10. ASSUME NEW d \in Device, ExpireRoute(d)
       PROVE  UNCHANGED req
  BY <1>10 DEF ExpireRoute
<1> QED
  BY <1>1, <1>2, <1>3, <1>4, <1>5, <1>6, <1>7, <1>8, <1>9, <1>10 DEF Next, vars

\* For any pods, devices and handlers, a request goes out on a connection on which
\* a login named the device that the client named, at the pod that Redis named,
\* whatever else was named on that connection or for that device.
THEOREM RequestsReachTheirDevice == Spec => []RequestReachesItsDevice
<1>1. Init => ReachInv
  BY TypeInit DEF Init, ReachInv, MapSound, Unsent, RequestReachesItsDevice,
                  NoReq
<1>2. ReachInv => RequestReachesItsDevice
  BY DEF ReachInv
<1> QED
  BY <1>1, <1>2, ReachStep, PTL DEF Spec
=============================================================================
