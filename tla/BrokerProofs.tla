---------------------------- MODULE BrokerProofs ----------------------------
(***************************************************************************)
(* Routing implements Broker, for every set of pods, devices, connections, *)
(* handlers and requests and any number of crashes and faults: each step   *)
(* of Routing is a step of Broker, or none, under the mapping of           *)
(* RoutingBroker.                                                          *)
(***************************************************************************)
EXTENDS RoutingProofs, RoutingBroker

\* A request slot that is free holds nothing of the last request.
IdleClean == \A r \in Request : req[r].pc = "idle" => req[r] = NoReq

BrokerInv == ReachInv /\ IdleClean

LEMMA IdleStep == ReachInv /\ IdleClean /\ [Next]_vars => IdleClean'
<1> SUFFICES ASSUME ReachInv, IdleClean, [Next]_vars
             PROVE  IdleClean'
  OBVIOUS
<1>0. req \in [Request -> ReqRecord] /\ Asked
  BY DEF ReachInv, TypeInv, TypeOK
<1> USE <1>0 DEF IdleClean
<1>1. CASE UNCHANGED req
  BY <1>1
<1>2. ASSUME NEW r \in Request, RequestStep(r) \/ Finish(r)
      PROVE  IdleClean'
  <2>1. \A k \in Request \ {r} : req'[k] = req[k]
    BY <1>2 DEF RequestStep, LookupPrivateIP, LookupMiss, LookupUnspecified,
                LookupPod, LookupFails, Forward, Check, Create, Exchange, Await,
                DeviceReplies, ConnectionGone, ExchangeTimeout, Answer, Finish
  <2>2. req'[r].pc = "idle" => req'[r] = NoReq
    BY <1>2 DEF RequestStep, LookupPrivateIP, LookupMiss, LookupUnspecified,
                LookupPod, LookupFails, Forward, Check, Create, Exchange, Await,
                DeviceReplies, ConnectionGone, ExchangeTimeout, Answer, Finish,
                ReqRecord
  <2> QED
    BY <2>1, <2>2
<1>3. ASSUME NEW p \in Pod, CrashPod(p)
      PROVE  IdleClean'
  BY <1>3, CrashRequest
<1>4. ASSUME NEW r \in Request, RacyRead(r)
      PROVE  IdleClean'
  BY <1>3, <1>4 DEF RacyRead, Asked
<1>5. ASSUME NEW r \in Request, NEW d \in Device, Ask(r, d)
      PROVE  IdleClean'
  BY <1>5 DEF Ask, NoReq
<1>6. ASSUME NEW h \in Handler, HandlerStep(h) \/ LateStore(h)
      PROVE  UNCHANGED req
  BY <1>6 DEF HandlerStep, UpdateSession, UpdateLogout, UpdateLogin,
              UpdateNoTTL, UpdateUnknown, UpdateFails, LateStore, Reply, Lock, AddDevice,
              RemoveDevice
<1>7. CASE \/ \E c \in Conn : Connect(c) \/ Disconnect(c)
           \/ \E c \in Conn, h \in Handler, d \in Device, login \in BOOLEAN :
                SendSession(c, h, d, login)
           \/ \E p \in Pod : Restart(p)
           \/ \E d \in Device : ExpireRoute(d)
  BY <1>1, <1>7 DEF Connect, Disconnect, SendSession, Restart, ExpireRoute
<1> QED
  BY <1>1, <1>2, <1>3, <1>4, <1>5, <1>6, <1>7 DEF Next, vars

LEMMA BrokerInit == Init => BrokerInv
BY TypeInit DEF Init, BrokerInv, ReachInv, MapSound, Unsent, IdleClean,
                RequestReachesItsDevice, NoReq

-----------------------------------------------------------------------------
(* The mapping.                                                            *)

LEMMA CallUpdate ==
  ASSUME req \in [Request -> ReqRecord], NEW r \in Request,
         NEW x \in ReqRecord, req' = [req EXCEPT ![r] = x]
  PROVE  Calls' = [Calls EXCEPT ![r] =
                     [state |-> CallState(x.pc), dev |-> x.dev,
                      via |-> x.conn, answer |-> x.status]]
BY DEF Calls, CallOf

\* A step that concerns neither a client, nor what is named in session requests, nor
\* a pod's map, is not seen.
LEMMA Unseen ==
  ASSUME UNCHANGED <<req, devices, named>>
  PROVE  UNCHANGED Client!vars
BY DEF Client!vars, Calls, CallOf, Held, Offered

LEMMA HeldFrame == UNCHANGED <<devices, named>> => UNCHANGED <<Offered, Held>>
BY DEF Held, Offered

\* A request that moves on inside the northbound or the pod is not seen.
LEMMA Moves ==
  ASSUME BrokerInv, NEW r \in Request, NEW x \in ReqRecord,
         req' = [req EXCEPT ![r] = x], UNCHANGED <<devices, named>>,
         CallState(x.pc) = CallState(req[r].pc), x.dev = req[r].dev,
         x.conn = req[r].conn, x.status = req[r].status
  PROVE  UNCHANGED Client!vars
<1>1. req \in [Request -> ReqRecord]
  BY DEF BrokerInv, ReachInv, TypeInv, TypeOK
<1>2. Calls[r] = [state |-> CallState(x.pc), dev |-> x.dev,
                  via |-> x.conn, answer |-> x.status]
  BY DEF Calls, CallOf
<1>3. Calls' = [Calls EXCEPT ![r] = Calls[r]]
  BY <1>1, <1>2, CallUpdate
<1>4. Calls' = Calls
  BY <1>3 DEF Calls
<1> QED
  BY <1>4, HeldFrame DEF Client!vars

\* An answer is an answer.
LEMMA Answers ==
  ASSUME BrokerInv, NEW r \in Request, NEW s \in Client!Replies,
         Answer(r, s), UNCHANGED <<devices, named>>,
         req[r].pc \notin {"idle", "done"},
         s = "404" => req[r].conn = Nil,
         s = "payload" => req[r].conn # Nil
  PROVE  Client!Answer(r, s)
<1> DEFINE x == [req[r] EXCEPT !.pc = "done", !.status = s]
<1>1. req \in [Request -> ReqRecord]
  BY DEF BrokerInv, ReachInv, TypeInv, TypeOK
<1>2. x \in ReqRecord /\ x.pc = "done" /\ x.status = s
      /\ x.dev = req[r].dev /\ x.conn = req[r].conn
  BY <1>1 DEF ReqRecord, ReqPc, Status, Client!Replies
<1>3. req' = [req EXCEPT ![r] = x]
  BY <1>1 DEF Answer
<1> HIDE DEF x
<1>4. Calls' = [Calls EXCEPT ![r] = [state |-> "answered", dev |-> req[r].dev,
                                     via |-> req[r].conn, answer |-> s]]
  BY <1>1, <1>2, <1>3, CallUpdate DEF CallState
<1>5. Calls[r] = [state |-> "pending", dev |-> req[r].dev,
                  via |-> req[r].conn, answer |-> req[r].status]
  BY DEF Calls, CallOf, CallState
<1>6. Calls' = [Calls EXCEPT ![r] =
                  Client!Call("answered", Calls[r].dev, Calls[r].via, s)]
  BY <1>4, <1>5 DEF Client!Call
<1> QED
  BY <1>5, <1>6, HeldFrame DEF Client!Answer, Client!Pending

\* A map that only loses entries holds no connection it did not hold.
LEMMA LosesOnly ==
  ASSUME \A p \in Pod, d \in Device :
           devices'[p][d] = devices[p][d] \/ devices'[p][d] = Nil
  PROVE  Held' \subseteq Held
<1> SUFFICES ASSUME NEW k \in [dev : Device, conn : Conn],
                    devices'[k.conn.pod][k.dev] = k.conn
             PROVE  devices[k.conn.pod][k.dev] = k.conn
  BY DEF Held
<1>1. k.dev \in Device /\ k.conn.pod \in Pod /\ k.conn # Nil
  BY ConnFields
<1> QED
  BY <1>1

LEMMA NothingFails ==
  ASSUME Held' \subseteq Held, UNCHANGED <<Calls, Offered>>
  PROVE  Client!Next
<1>1. Calls = [r \in Request |-> Calls[r]]
  BY DEF Calls
<1>2. Client!Break({})
  BY <1>1 DEF Client!Break
<1> QED
  BY <1>2 DEF Client!Next

-----------------------------------------------------------------------------
LEMMA RequestRefines ==
  ASSUME BrokerInv, NEW r \in Request, RequestStep(r)
  PROVE  [Client!Next]_(Client!vars)
<1>1. /\ req \in [Request -> ReqRecord] /\ Asked /\ MapSound /\ Unsent
      /\ devices \in [Pod -> [Device -> Conn \cup {Nil}]]
  BY DEF BrokerInv, ReachInv, TypeInv, TypeOK
<1>2. UNCHANGED <<devices, named>>
  BY RequestFrame DEF unchangedByRequest
<1>3. ASSUME NEW s \in Client!Replies, Client!Answer(r, s)
      PROVE  Client!Next
  BY <1>3 DEF Client!Next
<1>4. CASE LookupMiss(r)
  BY <1>1, <1>2, <1>3, <1>4, Answers DEF LookupMiss, Unsent, Client!Replies
<1>5. CASE LookupUnspecified(r) \/ LookupFails(r)
  BY <1>2, <1>3, <1>5, Answers DEF LookupUnspecified, LookupFails, Client!Replies
<1>6. CASE LookupPod(r)
  <2> DEFINE x == [req[r] EXCEPT !.pc = "forward", !.pod = route[req[r].dev]]
  <2>1. x \in ReqRecord /\ req' = [req EXCEPT ![r] = x] /\ x.pc = "forward"
        /\ x.dev = req[r].dev /\ x.conn = req[r].conn /\ x.status = req[r].status
    BY <1>1, <1>6 DEF LookupPod, ReqRecord, ReqPc
  <2> HIDE DEF x
  <2> QED
    BY <1>2, <1>6, <2>1, Moves DEF LookupPod, CallState
<1>7. ASSUME NEW pc \in {"check", "create", "exchange"},
             req[r].pc \in {"forward", "check", "create"},
             req' = [req EXCEPT ![r].pc = pc]
      PROVE  UNCHANGED Client!vars
  <2> DEFINE x == [req[r] EXCEPT !.pc = pc]
  <2>1. x \in ReqRecord /\ req' = [req EXCEPT ![r] = x] /\ x.pc = pc
        /\ x.dev = req[r].dev /\ x.conn = req[r].conn /\ x.status = req[r].status
    BY <1>1, <1>7 DEF ReqRecord, ReqPc
  <2>2. CallState(pc) = "pending" /\ CallState(req[r].pc) = "pending"
    BY <1>7 DEF CallState
  <2> HIDE DEF x
  <2> QED
    BY <1>2, <2>1, <2>2, Moves
<1>8. CASE Forward(r)
  <2>1. CASE up[req[r].pod]
    BY <1>7, <1>8, <2>1 DEF Forward
  <2>2. CASE ~up[req[r].pod]
    BY <1>2, <1>3, <1>8, <2>2, Answers DEF Forward, Client!Replies
  <2> QED
    BY <2>1, <2>2
<1>9. CASE Check(r)
  <2>1. CASE Entry(r) # Nil
    BY <1>7, <1>9, <2>1 DEF Check
  <2>2. CASE Entry(r) = Nil
    BY <1>2, <1>3, <1>9, <2>2, Answers DEF Check, Client!Replies
  <2> QED
    BY <2>1, <2>2
<1>10. CASE Create(r)
  <2>1. CASE Entry(r) # Nil
    BY <1>7, <1>10, <2>1 DEF Create
  <2>2. CASE Entry(r) = Nil
    BY <1>2, <1>3, <1>10, <2>2, Answers DEF Create, Client!Replies
  <2> QED
    BY <2>1, <2>2
<1>11. CASE Exchange(r) /\ Entry(r) = Nil
  BY <1>2, <1>3, <1>11, Answers DEF Exchange, Client!Replies
<1>12. CASE Exchange(r) /\ Entry(r) # Nil
  <2> DEFINE c == Entry(r)
             o == [dev |-> req[r].dev, conn |-> c]
             x == [req[r] EXCEPT !.pc = "waiting", !.conn = c]
  <2>1. req[r].pc = "exchange" /\ req[r].pod \in Pod /\ req[r].dev \in Device
    BY <1>1, <1>12 DEF Exchange, Asked
  <2>2. c \in Conn /\ c.pod = req[r].pod
    <3>1. c \in Conn
      BY <1>1, <1>12, <2>1 DEF Entry
    <3>2. c.pod = req[r].pod
      BY <1>1, <1>12, <2>1 DEF Entry, MapSound
    <3> QED
      BY <3>1, <3>2
  <2>3. o \in Held /\ o.dev = req[r].dev /\ o.conn = c
    BY <2>1, <2>2 DEF Held, Entry
  <2>4. x \in ReqRecord /\ req' = [req EXCEPT ![r] = x] /\ x.pc = "waiting"
        /\ x.dev = req[r].dev /\ x.conn = c /\ x.status = req[r].status
    BY <1>1, <1>12, <2>2 DEF Exchange, ReqRecord, ReqPc
  <2> HIDE DEF x
  <2>5. Calls' = [Calls EXCEPT ![r] = [state |-> "pending", dev |-> req[r].dev,
                                       via |-> c, answer |-> req[r].status]]
    BY <1>1, <2>4, CallUpdate DEF CallState
  <2>6. Calls[r] = [state |-> "pending", dev |-> req[r].dev, via |-> Nil,
                    answer |-> req[r].status]
    BY <1>1, <2>1 DEF Calls, CallOf, CallState, Unsent
  <2>7. Calls' = [Calls EXCEPT ![r] =
                    Client!Call("pending", Calls[r].dev, c, Calls[r].answer)]
    BY <2>5, <2>6 DEF Client!Call
  <2> HIDE DEF c, o
  <2>8. Client!Send(r)
    <3>1. Calls[r].state = "pending" /\ Calls[r].via = Nil /\ o.dev = Calls[r].dev
      BY <2>3, <2>6
    <3>2. UNCHANGED <<Offered, Held>>
      BY <1>2, HeldFrame
    <3>3. Calls' = [Calls EXCEPT ![r] =
                      Client!Call("pending", Calls[r].dev, o.conn, Calls[r].answer)]
      BY <2>3, <2>7
    <3> QED
      BY <2>3, <3>1, <3>2, <3>3, Zenon DEF Client!Send, Client!Pending
  <2> QED
    BY <2>8 DEF Client!Next
<1>13. CASE DeviceReplies(r)
  BY <1>1, <1>2, <1>3, <1>13, Answers DEF DeviceReplies, Client!Replies, Asked
<1>14. CASE ConnectionGone(r) \/ ExchangeTimeout(r)
  BY <1>2, <1>3, <1>14, Answers
     DEF ConnectionGone, ExchangeTimeout, Client!Replies
<1> QED
  BY <1>4, <1>5, <1>6, <1>8, <1>9, <1>10, <1>11, <1>12, <1>13, <1>14
     DEF RequestStep, LookupPrivateIP, Await

\* Of a session request its arrival is seen, if it is a login.
LEMMA SendRefines ==
  ASSUME NEW c \in Conn, NEW h \in Handler, NEW d \in Device, NEW login \in BOOLEAN,
         SendSession(c, h, d, login)
  PROVE  [Client!Next]_(Client!vars)
<1>1. /\ UNCHANGED <<req, devices>>
      /\ named' = named \cup {[dev |-> d, conn |-> c, login |-> login]}
  BY DEF SendSession
<1>2. UNCHANGED <<Calls, Held>>
  BY <1>1 DEF Calls, CallOf, Held
<1>3. CASE login
  <2>1. Offered' = Offered \cup {[dev |-> d, conn |-> c]}
    <3>1. ASSUME NEW o \in [dev : Device, conn : Conn]
          PROVE  [dev |-> o.dev, conn |-> o.conn, login |-> TRUE] \in named'
                   <=> \/ [dev |-> o.dev, conn |-> o.conn, login |-> TRUE] \in named
                       \/ o = [dev |-> d, conn |-> c]
      <4>1. o = [dev |-> o.dev, conn |-> o.conn]
        OBVIOUS
      <4>2. [dev |-> o.dev, conn |-> o.conn, login |-> TRUE]
              = [dev |-> d, conn |-> c, login |-> login]
                <=> o.dev = d /\ o.conn = c
        BY <1>3
      <4> QED
        BY <1>1, <4>1, <4>2
    <3> QED
      BY <3>1 DEF Offered
  <2> QED
    BY <1>2, <2>1 DEF Client!Next, Client!Login
<1>4. CASE ~login
  <2>1. Offered' = Offered
    BY <1>1, <1>4 DEF Offered
  <2> QED
    BY <1>2, <2>1 DEF Client!vars
<1> QED
  BY <1>3, <1>4

\* Of what a handler does only the two steps that write the pod's map are seen.
LEMMA HandlerRefines ==
  ASSUME BrokerInv, NEW h \in Handler, HandlerStep(h) \/ LateStore(h)
  PROVE  [Client!Next]_(Client!vars)
<1>1. /\ devices \in [Pod -> [Device -> Conn \cup {Nil}]] /\ MapSound
      /\ sess \in [Handler -> SessRecord] /\ Busy
      /\ req \in [Request -> ReqRecord]
  BY DEF BrokerInv, ReachInv, TypeInv, TypeOK
<1>2. CASE UpdateSession(h) \/ LateStore(h) \/ Reply(h) \/ Lock(h)
  BY <1>2, Unseen
     DEF UpdateSession, UpdateLogout, UpdateLogin, UpdateNoTTL, UpdateUnknown,
         UpdateFails, LateStore, Reply, Lock
<1>3. CASE AddDevice(h)
  <2> DEFINE c == sess[h].conn
             e == sess[h].dev
             o == [dev |-> e, conn |-> c]
  <2>1. c \in Conn /\ e \in Device /\ c.pod \in Pod /\ c # Nil
    BY <1>1, <1>3, ConnFields DEF AddDevice, Busy
  <2>2. devices' = [devices EXCEPT ![c.pod][e] = c] /\ UNCHANGED <<req, named>>
    BY <1>3 DEF AddDevice, DevOf, PodOf
  <2>6. o \in Offered
    <3>1. [dev |-> e, conn |-> c, login |-> TRUE] \in named
      BY <1>1, <1>3 DEF AddDevice, Busy, NamingOf, SessRecord
    <3> QED
      BY <2>1, <3>1 DEF Offered
  <2> HIDE DEF c, e
  <2>3. ASSUME NEW k \in [dev : Device, conn : Conn]
        PROVE  devices'[k.conn.pod][k.dev] = k.conn
                 <=> \/ k = o
                     \/ /\ devices[k.conn.pod][k.dev] = k.conn
                        /\ k.dev # e \/ k.conn.pod # c.pod
    <3>1. k.conn.pod \in Pod /\ k.dev \in Device
      BY ConnFields
    <3>2. CASE k.dev = e /\ k.conn.pod = c.pod
      <4>1. devices'[k.conn.pod][k.dev] = c
        BY <1>1, <2>1, <2>2, <3>2
      <4>2. k = o <=> k.conn = c
        BY <3>2
      <4> QED
        BY <3>2, <4>1, <4>2
    <3>3. CASE k.dev # e \/ k.conn.pod # c.pod
      <4>1. devices'[k.conn.pod][k.dev] = devices[k.conn.pod][k.dev]
        BY <1>1, <2>1, <2>2, <3>1, <3>3
      <4>2. k # o
        BY <3>3
      <4> QED
        BY <3>3, <4>1, <4>2
    <3> QED
      BY <3>2, <3>3
  <2>7. o \in [dev : Device, conn : Conn] /\ o.dev = e /\ o.conn = c
    BY <2>1
  <2> HIDE DEF o
  <2>4. Held' = {k \in Held : k.dev # o.dev \/ k.conn.pod # o.conn.pod} \cup {o}
    BY <2>3, <2>7 DEF Held
  <2>5. UNCHANGED <<Calls, Offered>>
    BY <2>2 DEF Calls, CallOf, Offered
  <2>8. Client!Hold(o)
    BY <2>4, <2>5, <2>6 DEF Client!Hold
  <2> QED
    BY <2>6, <2>8 DEF Client!Next
<1>4. CASE RemoveDevice(h)
  <2>1. sess[h].dev \in Device /\ sess[h].conn.pod \in Pod
    BY <1>1, <1>4, ConnFields DEF RemoveDevice, Busy
  <2>2. \A p \in Pod, d \in Device :
          devices'[p][d] = devices[p][d] \/ devices'[p][d] = Nil
    BY <1>1, <1>4, <2>1 DEF RemoveDevice, DevOf, PodOf
  <2>3. UNCHANGED <<Calls, Offered>>
    BY <1>4 DEF RemoveDevice, Calls, CallOf, Offered
  <2> QED
    BY <2>2, <2>3, LosesOnly, NothingFails
<1> QED
  BY <1>2, <1>3, <1>4 DEF HandlerStep

\* The end of a pod: its connections are lost and its requests fail.
LEMMA CrashRefines ==
  ASSUME BrokerInv, NEW p \in Pod, CrashPod(p)
  PROVE  Client!Next
<1> DEFINE Dies(r) == /\ req[r].pod = p
                      /\ req[r].pc \in {"check", "create", "exchange", "waiting"}
           failed == {r \in Request : Dies(r)}
<1>1. req \in [Request -> ReqRecord] /\ devices \in [Pod -> [Device -> Conn \cup {Nil}]]
  BY DEF BrokerInv, ReachInv, TypeInv, TypeOK
<1>2. \A q \in Pod, d \in Device :
        devices'[q][d] = devices[q][d] \/ devices'[q][d] = Nil
  <2>1. \A d \in Device : devices'[p][d] = Nil
    BY <1>1 DEF CrashPod
  <2>2. \A q \in Pod : q # p => devices'[q] = devices[q]
    BY <1>1 DEF CrashPod
  <2> QED
    BY <2>1, <2>2
<1>3. Held' \subseteq Held
  BY <1>2, LosesOnly
<1>4. ASSUME NEW r \in Request
      PROVE  CallOf(r)' = IF r \in failed
                          THEN Client!Call("answered", Calls[r].dev, Calls[r].via, "500")
                          ELSE Calls[r]
  <2>1. Calls[r] = CallOf(r)
    BY DEF Calls
  <2>2. CASE Dies(r)
    <3>1. req'[r] = [req[r] EXCEPT !.pc = "done", !.status = "500"]
      BY <2>2 DEF CrashPod
    <3>2. /\ req'[r].pc = "done" /\ req'[r].status = "500"
          /\ req'[r].dev = req[r].dev /\ req'[r].conn = req[r].conn
      BY <1>1, <3>1 DEF ReqRecord
    <3>3. Calls[r] = [state |-> "pending", dev |-> req[r].dev,
                      via |-> req[r].conn, answer |-> req[r].status]
      BY <2>1, <2>2 DEF CallOf, CallState
    <3>4. CallOf(r)' = [state |-> "answered", dev |-> req[r].dev,
                        via |-> req[r].conn, answer |-> "500"]
      BY <3>2 DEF CallOf, CallState
    <3> QED
      BY <2>2, <3>3, <3>4 DEF Client!Call
  <2>3. CASE ~Dies(r)
    <3>1. req'[r] = req[r]
      BY <2>3 DEF CrashPod
    <3> QED
      BY <2>1, <2>3, <3>1 DEF CallOf
  <2> QED
    BY <2>2, <2>3
<1>5. \A r \in failed : Calls[r].state = "pending"
  BY DEF Calls, CallOf, CallState
<1>6. Calls' = [r \in Request |->
                  IF r \in failed
                  THEN Client!Call("answered", Calls[r].dev, Calls[r].via, "500")
                  ELSE Calls[r]]
  BY <1>4 DEF Calls
<1>7. failed \in SUBSET Request
  OBVIOUS
<1> HIDE DEF failed
<1>9. UNCHANGED Offered
  BY DEF CrashPod, Offered
<1>8. Client!Break(failed)
  BY <1>3, <1>5, <1>6, <1>9 DEF Client!Break, Client!Pending
<1> QED
  BY <1>7, <1>8 DEF Client!Next

\* What clients do.
LEMMA ClientRefines ==
  ASSUME BrokerInv, NEW r \in Request
  PROVE  /\ Finish(r) => Client!Next
         /\ \A d \in Device : Ask(r, d) => Client!Next
<1>1. req \in [Request -> ReqRecord] /\ IdleClean
  BY DEF BrokerInv, ReachInv, TypeInv, TypeOK
<1>2. NoReq \in ReqRecord
  BY DEF NoReq, ReqRecord, ReqPc, Status
<1>3. CASE Finish(r)
  <2>1. Calls' = [Calls EXCEPT ![r] = Client!NoCall]
    BY <1>1, <1>2, <1>3, CallUpdate DEF Finish, NoReq, CallState, Client!NoCall, Client!Call
  <2>2. Calls[r].state = "answered"
    BY <1>3 DEF Finish, Calls, CallOf, CallState
  <2>3. UNCHANGED <<Offered, Held>>
    BY <1>3, HeldFrame DEF Finish, unchangedByRequest
  <2> QED
    BY <2>1, <2>2, <2>3 DEF Client!Next, Client!Finish
<1>4. ASSUME NEW d \in Device, Ask(r, d)
      PROVE  Client!Next
  <2> DEFINE x == [NoReq EXCEPT !.pc = "lookup", !.dev = d]
  <2>1. x \in ReqRecord /\ x.pc = "lookup" /\ x.dev = d /\ x.conn = Nil
        /\ x.status = "none" /\ req' = [req EXCEPT ![r] = x]
    BY <1>4 DEF Ask, NoReq, ReqRecord, ReqPc, Status
  <2> HIDE DEF x
  <2>2. Calls' = [Calls EXCEPT ![r] = [state |-> "pending", dev |-> d,
                                       via |-> Nil, answer |-> "none"]]
    BY <1>1, <2>1, CallUpdate DEF CallState
  <2>3. Calls[r] = Client!NoCall
    BY <1>1, <1>4 DEF Ask, IdleClean, NoReq, Calls, CallOf, CallState, Client!NoCall, Client!Call
  <2>4. UNCHANGED <<Offered, Held>>
    BY <1>4, HeldFrame DEF Ask, unchangedByRequest
  <2>5. Client!Ask(r, d)
    BY <2>2, <2>3, <2>4 DEF Client!Ask, Client!Call
  <2> QED
    BY <2>5 DEF Client!Next
<1> QED
  BY <1>3, <1>4

LEMMA StepRefines == BrokerInv /\ [Next]_vars => [Client!Next]_(Client!vars)
<1> SUFFICES ASSUME BrokerInv, [Next]_vars
             PROVE  [Client!Next]_(Client!vars)
  OBVIOUS
<1>1. CASE UNCHANGED vars
  BY <1>1, Unseen DEF vars, storeVars
<1>2. CASE \E c \in Conn : Connect(c) \/ Disconnect(c)
  BY <1>2, Unseen DEF Connect, Disconnect
<1>3. CASE \E c \in Conn, h \in Handler, d \in Device, login \in BOOLEAN :
             SendSession(c, h, d, login)
  BY <1>3, SendRefines
<1>4. CASE \E h \in Handler : HandlerStep(h) \/ LateStore(h)
  BY <1>4, HandlerRefines
<1>5. CASE \E p \in Pod : CrashPod(p)
  BY <1>5, CrashRefines
<1>6. CASE \E p \in Pod : Restart(p)
  BY <1>6, Unseen DEF Restart
<1>7. CASE \E d \in Device : ExpireRoute(d)
  BY <1>7, Unseen DEF ExpireRoute
<1>8. CASE \E r \in Request : Finish(r) \/ \E d \in Device : Ask(r, d)
  BY <1>8, ClientRefines
<1>9. CASE \E r \in Request : RequestStep(r)
  BY <1>9, RequestRefines
<1>10. CASE \E r \in Request : RacyRead(r)
  <2>1. PICK r \in Request : RacyRead(r)
    BY <1>10
  <2>2. req[r].pod \in Pod
    BY <2>1 DEF RacyRead, BrokerInv, ReachInv, TypeInv, Asked
  <2> QED
    BY <2>1, <2>2, CrashRefines DEF RacyRead
<1> QED
  BY <1>1, <1>2, <1>3, <1>4, <1>5, <1>6, <1>7, <1>8, <1>9, <1>10 DEF Next

\* Whatever handlers, pods and connections do, no client sees more than Broker
\* allows: one sending at most, over a connection that a pod holds for the device it
\* named because a login on it did, payloads only from messages that went out, and
\* 404 only without one.
THEOREM RoutingImplementsBroker == Spec => ImplementsBroker
<1>1. Init => Client!Init
  <2> SUFFICES ASSUME Init
               PROVE  /\ Calls = [r \in Request |-> Client!NoCall]
                      /\ Offered = {} /\ Held = {}
    BY DEF Client!Init
  <2>1. \A r \in Request : CallOf(r) = Client!NoCall
    BY DEF Init, NoReq, CallOf, CallState, Client!NoCall, Client!Call
  <2>2. Offered = {} /\ Held = {}
    BY ConnFields DEF Init, Held, Offered
  <2> QED
    BY <2>1, <2>2 DEF Calls
<1>2. BrokerInv /\ [Next]_vars => BrokerInv'
  BY ReachStep, IdleStep DEF BrokerInv
<1>3. Spec => []BrokerInv
  BY BrokerInit, <1>2, PTL DEF Spec
<1> QED
  BY <1>1, <1>3, StepRefines, PTL DEF Spec, ImplementsBroker, Client!Spec
=============================================================================
