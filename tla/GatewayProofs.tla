---------------------------- MODULE GatewayProofs ----------------------------
(***************************************************************************)
(* Proofs about Gateway: what is proved of its components carries over to  *)
(* the composition, and the two views of a connection agree.               *)
(***************************************************************************)
EXTENDS Gateway, BrokerProofs, RouteProofs

SP == INSTANCE SessionsProofs WITH up <- up[Here], link <- net, None <- Nil

-----------------------------------------------------------------------------
(* Each component's part of a step.                                        *)

LEMMA StepOfRouting == [PodNext]_podVars => [Next]_vars
<1> SUFFICES ASSUME [PodNext]_podVars
             PROVE  [Next]_vars
  OBVIOUS
<1>1. ASSUME NEW c \in Conn, Accept(c) \/ End(c) \/ SessionStep(c)
      PROVE  [Next]_vars
  BY <1>1 DEF Accept, End, SessionStep, Next
<1>2. ASSUME NEW c \in Conn, NEW h \in Handler, NEW d \in Device,
             NEW login \in BOOLEAN, Send(c, h, d, login)
      PROVE  [Next]_vars
  BY <1>2 DEF Send, Next
<1>3. ASSUME NEW h \in Handler, Handle(h) \/ Late(h)
      PROVE  [Next]_vars
  BY <1>3 DEF Handle, Late, Next
<1>4. ASSUME NEW r \in Request, Serve(r) \/ Return(r) \/ ClientStep(r) \/ RacyCrash(r)
      PROVE  [Next]_vars
  <2>1. CASE Serve(r) \/ Return(r)
    BY <2>1 DEF Serve, Return, RequestStep, Await, Next
  <2>2. CASE ClientStep(r) \/ RacyCrash(r)
    BY <2>2 DEF ClientStep, RacyCrash, Next
  <2> QED
    BY <1>4, <2>1, <2>2
<1>5. ASSUME NEW d \in Device, Expire(d)
      PROVE  [Next]_vars
  BY <1>5 DEF Expire, Next
<1>6. ASSUME Crash \/ Start
      PROVE  [Next]_vars
  BY <1>6, HereAssumption DEF Crash, Start, Next
<1>7. ASSUME UNCHANGED podVars
      PROVE  [Next]_vars
  BY <1>7 DEF podVars
<1> QED
  BY <1>1, <1>2, <1>3, <1>4, <1>5, <1>6, <1>7 DEF PodNext

LEMMA PodIsRouting == PodSpec => Spec
BY StepOfRouting, PTL DEF PodSpec, PodInit, Spec

\* No step of a handler or of a request ends or starts the process.
LEMMA ServingKeepsUp ==
  \/ \E h \in Handler : HandlerStep(h) \/ LateStore(h)
  \/ \E r \in Request : RequestStep(r) \/ Finish(r) \/ \E d \in Device : Ask(r, d)
  \/ \E c \in Conn, h \in Handler, d \in Device, login \in BOOLEAN :
       SendSession(c, h, d, login)
  \/ \E d \in Device : ExpireRoute(d)
  => UNCHANGED up
<1>1. ASSUME NEW h \in Handler, HandlerStep(h) \/ LateStore(h)
      PROVE  UNCHANGED up
  BY <1>1 DEF HandlerStep, UpdateSession, UpdateLogout, UpdateLogin, UpdateNoTTL,
              UpdateUnknown, UpdateFails, LateStore, Reply, Lock, AddDevice, RemoveDevice
<1>2. ASSUME NEW r \in Request, RequestStep(r)
      PROVE  UNCHANGED up
  BY <1>2 DEF RequestStep, LookupPrivateIP, LookupMiss, LookupUnspecified, LookupPod,
              LookupFails, Forward, Check, Create, Exchange, Await, DeviceReplies,
              ConnectionGone, ExchangeTimeout, unchangedByRequest
<1>3. ASSUME NEW r \in Request, Finish(r) \/ \E d \in Device : Ask(r, d)
      PROVE  UNCHANGED up
  BY <1>3 DEF Finish, Ask, unchangedByRequest
<1> QED
  BY <1>1, <1>2, <1>3 DEF SendSession, ExpireRoute

LEMMA StepOfSessions == TypeInv /\ [PodNext]_podVars => [S!Next]_(S!vars)
<1> SUFFICES ASSUME TypeInv, [PodNext]_podVars
             PROVE  [S!Next]_(S!vars)
  OBVIOUS
<1>1. ASSUME NEW c \in Conn, Accept(c) \/ End(c) \/ SessionStep(c)
      PROVE  [S!Next]_(S!vars)
  BY <1>1 DEF Accept, End, SessionStep, S!Next, S!PingReturns
<1>2. ASSUME UNCHANGED <<up, sessionVars>>
      PROVE  [S!Next]_(S!vars)
  BY <1>2 DEF sessionVars, S!vars
<1>3. ASSUME Crash \/ \E r \in Request : RacyCrash(r)
      PROVE  [S!Next]_(S!vars)
  <2>1. S!ProcessEnds
    BY <1>3 DEF Crash, RacyCrash
  <2>2. up[Here]
    <3>1. ASSUME Crash PROVE up[Here]
      BY <3>1 DEF Crash, CrashPod
    <3>2. ASSUME NEW r \in Request, RacyCrash(r) PROVE up[Here]
      <4>1. req[r].pc \in {"check", "create", "exchange"} /\ up[req[r].pod]
        BY <3>2 DEF RacyCrash, RacyRead, CrashPod
      <4>2. req[r].pod \in Pod
        BY <4>1 DEF TypeInv, Asked
      <4> QED
        BY <4>1, <4>2, HereAssumption
    <3> QED
      BY <1>3, <3>1, <3>2
  <2> QED
    BY <2>1, <2>2 DEF S!Next, S!Killed
<1>4. ASSUME Start
      PROVE  [S!Next]_(S!vars)
  BY <1>4 DEF Start, S!Next
<1>5. ASSUME NEW c \in Conn, NEW h \in Handler, NEW d \in Device,
             NEW login \in BOOLEAN, Send(c, h, d, login)
      PROVE  UNCHANGED <<up, sessionVars>>
  BY <1>5, ServingKeepsUp DEF Send
<1>6. ASSUME NEW h \in Handler, Handle(h) \/ Late(h)
      PROVE  UNCHANGED <<up, sessionVars>>
  BY <1>6, ServingKeepsUp DEF Handle, Late
<1>7. ASSUME NEW r \in Request, Serve(r) \/ Return(r) \/ ClientStep(r)
      PROVE  UNCHANGED <<up, sessionVars>>
  BY <1>7, ServingKeepsUp DEF Serve, Return, ClientStep, RequestStep, Await
<1>8. ASSUME NEW d \in Device, Expire(d)
      PROVE  UNCHANGED <<up, sessionVars>>
  BY <1>8, ServingKeepsUp DEF Expire
<1>9. ASSUME UNCHANGED podVars
      PROVE  UNCHANGED <<up, sessionVars>>
  BY <1>9 DEF podVars, vars
<1> QED
  BY <1>1, <1>2, <1>3, <1>4, <1>5, <1>6, <1>7, <1>8, <1>9 DEF PodNext

LEMMA PodTyped == PodSpec => []TypeInv
BY PodIsRouting, TypeInvariant, PTL

LEMMA PodIsS == PodSpec => S!Spec
<1>1. PodInit => S!Init
  BY DEF PodInit
<1> QED
  BY <1>1, StepOfSessions, PodTyped, PTL DEF PodSpec, S!Spec

-----------------------------------------------------------------------------
(* Both components on one connection.                                      *)

\* A connection that handlers and requests take for open has not been ended by
\* the peer or by a Keepalive.
Linked == \A c \in Conn : link[c] = "open" => net[c] = "open"

\* The end of a connection, as Sessions has it.
LEMMA OthersStay ==
  ASSUME S!TypeOK, NEW c \in Conn, S!PeerCloses(c) \/ S!PingTerminates(c)
  PROVE  \A k \in Conn \ {c} : net'[k] = net[k]
BY DEF S!PeerCloses, S!PingTerminates, S!TypeOK

LEMMA LinkedStep ==
  ASSUME Linked, TypeInv, S!TypeOK, SP!HolderEnds, [PodNext]_podVars
  PROVE  Linked'
<1>1. ASSUME NEW c \in Conn, Accept(c)
      PROVE  Linked'
  BY <1>1 DEF Accept, Connect, S!AddSession, Linked, TypeInv, TypeOK, S!TypeOK
<1>2. ASSUME NEW c \in Conn, End(c)
      PROVE  Linked'
  <2>1. link' = [link EXCEPT ![c] = "closed"]
    BY <1>2 DEF End, Disconnect
  <2>2. \A k \in Conn \ {c} : net'[k] = net[k]
    BY <1>2, OthersStay DEF End
  <2> QED
    BY <2>1, <2>2 DEF Linked, TypeInv, TypeOK
<1>3. ASSUME NEW c \in Conn, SessionStep(c)
      PROVE  Linked'
  <2>1. UNCHANGED link
    BY <1>3 DEF SessionStep, vars
  <2>2. CASE S!RemoveSession(c)
    <3>1. net[c] = "ending" /\ net' = [net EXCEPT ![c] = "none"]
      BY <2>2, ConnFields DEF S!RemoveSession, SP!HolderEnds
    <3> QED
      BY <2>1, <3>1 DEF Linked, S!TypeOK
  <2>3. CASE UNCHANGED net
    BY <2>1, <2>3 DEF Linked
  <2> QED
    BY <1>3, <2>2, <2>3
       DEF SessionStep, S!PeerChanges, S!LockRemove, S!netVars, S!KeepaliveDone,
           S!KeepaliveTimer
<1>4. ASSUME Crash \/ \E r \in Request : RacyCrash(r)
      PROVE  Linked'
  <2>1. PICK p : CrashPod(p) /\ p = Here
    BY <1>4, HereAssumption DEF Crash, RacyCrash, RacyRead, TypeInv, Asked
  <2>2. \A c \in Conn : c.pod = p
    BY <2>1, HereAssumption, ConnFields
  <2> QED
    BY <2>1, <2>2 DEF CrashPod, Linked, TypeInv, TypeOK
<1>5. ASSUME UNCHANGED <<link, net>>
      PROVE  Linked'
  BY <1>5 DEF Linked
<1>6. ASSUME Start
      PROVE  UNCHANGED <<link, net>>
  BY <1>6 DEF Start, Restart, S!Restart, S!netVars
<1>7. ASSUME NEW c \in Conn, NEW h \in Handler, NEW d \in Device,
             NEW login \in BOOLEAN, Send(c, h, d, login)
      PROVE  UNCHANGED <<link, net>>
  BY <1>7 DEF Send, SendSession, sessionVars
<1>8. ASSUME NEW h \in Handler, Handle(h) \/ Late(h)
      PROVE  UNCHANGED <<link, net>>
  BY <1>8 DEF Handle, Late, HandlerStep, UpdateSession, UpdateLogout, UpdateLogin, UpdateNoTTL,
              UpdateUnknown, UpdateFails, LateStore, Reply, Lock, AddDevice, RemoveDevice, sessionVars
<1>9. ASSUME NEW r \in Request, Serve(r) \/ Return(r) \/ ClientStep(r)
      PROVE  UNCHANGED <<link, net>>
  BY <1>9 DEF Serve, Return, ClientStep, LookupPrivateIP, LookupMiss, LookupUnspecified, LookupPod,
              LookupFails, Forward, Check, Create, Exchange, DeviceReplies, ConnectionGone,
              ExchangeTimeout, Ask, Finish, unchangedByRequest, sessionVars
<1>10. ASSUME (\E d \in Device : Expire(d)) \/ UNCHANGED podVars
       PROVE  UNCHANGED <<link, net>>
  BY <1>10 DEF Expire, ExpireRoute, sessionVars, podVars, vars
<1> QED
  BY <1>1, <1>2, <1>3, <1>4, <1>5, <1>6, <1>7, <1>8, <1>9, <1>10 DEF PodNext

\* SessionsProofs, of which SP is the instance, speaks of what S is.
LEMMA SameSessions ==
  /\ S!Init <=> SP!Init
  /\ [S!Next]_(S!vars) <=> [SP!Next]_(SP!vars)
  /\ S!TypeOK <=> SP!TypeOK
  /\ S!SoloMonitored <=> SP!SoloMonitored
<1>1. S!Init <=> SP!Init
  BY DEF S!Init, SP!Init, S!EachSlot, SP!EachSlot, S!NoSessions, SP!NoSessions
<1>2. S!Next <=> SP!Next
  BY DEF S!Next, SP!Next, S!PeerChanges, SP!PeerChanges, S!PeerCloses, SP!PeerCloses,
           S!AddSession, SP!AddSession, S!Sharing, SP!Sharing, S!LockRemove,
           SP!LockRemove, S!RemoveSession, SP!RemoveSession, S!Found, SP!Found,
           S!PanicRemove, SP!PanicRemove, S!ProcessEnds, SP!ProcessEnds, S!EachSlot,
           SP!EachSlot, S!NoSessions, SP!NoSessions, S!KeepaliveDone, SP!KeepaliveDone,
           S!KeepaliveTimer, SP!KeepaliveTimer, S!Ends, SP!Ends, S!PingReturns,
           SP!PingReturns, S!PingAnswered, SP!PingAnswered, S!PingTerminates,
           SP!PingTerminates, S!PingTimesOut, SP!PingTimesOut, S!PingFails,
           SP!PingFails, S!Killed, SP!Killed, S!Restart, SP!Restart, S!netVars,
           SP!netVars, S!tableVars, SP!tableVars, S!keepaliveVars, SP!keepaliveVars
<1>3. S!vars = SP!vars
  BY DEF S!vars, SP!vars
<1>4. S!TypeOK <=> SP!TypeOK
  BY DEF S!TypeOK, SP!TypeOK
<1>5. S!SoloMonitored <=> SP!SoloMonitored
  BY DEF S!SoloMonitored, SP!SoloMonitored
<1> QED
  BY <1>1, <1>2, <1>3, <1>4, <1>5 DEF S!vars, SP!vars

LEMMA PodIsSessions == PodSpec => SP!Spec
BY PodIsS, SameSessions, PTL DEF S!Spec, SP!Spec

LEMMA PodSessions == PodSpec => [](SP!TableInv) /\ []S!SoloMonitored
<1>1. PodSpec => SP!Spec
  BY PodIsSessions
<1>2. SP!Spec => [](SP!TableInv)
  BY SP!TableInvariant, SessionsAssumption, NilAssumption
<1>3. SP!Spec => [](SP!SoloMonitored)
  BY SP!SoloConnectionsAreMonitored, SessionsAssumption, NilAssumption
<1> QED
  BY <1>1, <1>2, <1>3, SameSessions, PTL

\* While an Exchange waits on an open connection that shares its address with no
\* other, a Keepalive that nobody told to end watches that connection.
THEOREM WaitingExchangesAreWatched == PodSpec => []WaitsAreWatched
<1>1. PodInit => Linked
  BY DEF PodInit, Init, Linked
<1>2. PodSpec => [](SP!TableInv) /\ []S!SoloMonitored
  BY PodSessions
<1>3. SP!TableInv => S!TypeOK /\ SP!HolderEnds
  BY SameSessions DEF SP!TableInv
<1>4. PodSpec => []Linked
  BY <1>1, <1>2, <1>3, PodTyped, LinkedStep, PTL DEF PodSpec
<1>5. Linked /\ TypeInv /\ S!SoloMonitored => WaitsAreWatched
  BY DEF Linked, TypeInv, TypeOK, Asked, ReqRecord, S!SoloMonitored, WaitsAreWatched
<1> QED
  BY <1>2, <1>4, <1>5, PodTyped, PTL

-----------------------------------------------------------------------------
(* What each component promises holds in the pod.                          *)

\* Clients of a pod whose Keepalives close connections and whose removeSession
\* may panic see no more than Broker allows.
THEOREM GatewayImplementsBroker == PodSpec => ImplementsBroker
BY PodIsRouting, RoutingImplementsBroker, PTL

\* Whatever ends connections and the process, messages go out where a login named
\* their device, and, under the conditions of RouteBacked, the route of an answered
\* login is backed by the pod's map, that of an unanswered logout gone.
THEOREM RoutesHoldInThePod ==
  PodSpec => [](RequestReachesItsDevice /\ RouteBacked /\ LogoutUnroutes)
BY PodIsRouting, RequestsReachTheirDevice, RoutesAreBacked, LogoutsUnroute, PTL

\* removeSession never blocks on a Keepalive in Done, and a connection that shares
\* its address with no other keeps its Session until removeSession.
THEOREM SessionsHoldInThePod == PodSpec => [](S!DoneNeverBlocks /\ S!SoloKeepsSession)
<1>1. SP!TableInv => S!DoneNeverBlocks /\ S!SoloKeepsSession
  BY DEF SP!TableInv, SP!EntryOwned, S!DoneNeverBlocks, SP!SoloKeepsSession,
         S!SoloKeepsSession
<1> QED
  BY <1>1, PodSessions, PTL

\* The end of a connection of a server with a keepaliveRetry of 2 or more is its
\* peer's doing or that of the process.
PeersEnd ==
  \A c \in Conn :
    link[c] = "open" /\ link'[c] # "open" /\ Retry[c] >= 2
      => S!PeerCloses(c) \/ S!ProcessEnds

LEMMA NoEndByKeepalive ==
  ASSUME TypeInv, SP!NothingCounted, [PodNext]_podVars
  PROVE  PeersEnd
<1> SUFFICES ASSUME NEW c \in Conn, link[c] = "open", link'[c] # "open", Retry[c] >= 2
             PROVE  S!PeerCloses(c) \/ S!ProcessEnds
  BY DEF PeersEnd
<1>1. ASSUME NEW k \in Conn, End(k)
      PROVE  S!PeerCloses(c)
  <2>1. k = c
    BY <1>1 DEF End, Disconnect, TypeInv, TypeOK
  <2>2. ~S!PingTerminates(c)
    BY SessionsAssumption DEF SP!NothingCounted, S!PingTerminates
  <2> QED
    BY <1>1, <2>1, <2>2 DEF End
<1>2. ASSUME NEW k \in Conn, Accept(k)
      PROVE  FALSE
  BY <1>2 DEF Accept, Connect, TypeInv, TypeOK
<1>3. ASSUME Crash \/ \E r \in Request : RacyCrash(r)
      PROVE  S!ProcessEnds
  BY <1>3 DEF Crash, RacyCrash
<1>4. ASSUME UNCHANGED link
      PROVE  FALSE
  BY <1>4
<1>5. ASSUME NEW k \in Conn, SessionStep(k)
      PROVE  FALSE
  BY <1>4, <1>5 DEF SessionStep, vars
<1>6. ASSUME Start
      PROVE  FALSE
  BY <1>4, <1>6 DEF Start, Restart
<1>7. ASSUME NEW k \in Conn, NEW h \in Handler, NEW d \in Device,
             NEW login \in BOOLEAN, Send(k, h, d, login)
      PROVE  FALSE
  BY <1>4, <1>7 DEF Send, SendSession
<1>8. ASSUME NEW h \in Handler, Handle(h) \/ Late(h)
      PROVE  FALSE
  BY <1>4, <1>8, HandlerFrame DEF Handle, Late, LateStore
<1>9. ASSUME NEW r \in Request, Serve(r) \/ Return(r) \/ ClientStep(r)
      PROVE  FALSE
  BY <1>4, <1>9, ClientFrame DEF Serve, Return, ClientStep, RequestStep, Await, sessVars
<1>10. ASSUME (\E d \in Device : Expire(d)) \/ UNCHANGED podVars
       PROVE  FALSE
  BY <1>4, <1>10 DEF Expire, ExpireRoute, podVars, vars
<1> QED
  BY <1>1, <1>2, <1>3, <1>5, <1>6, <1>7, <1>8, <1>9, <1>10 DEF PodNext

\* With the default keepaliveRetry nothing on the pod's side ends an Exchange that
\* waits for a silent device but its own timeout: SilentDeviceAnswered, which
\* does without that timeout, cannot be had without its hypothesis on Retry.
THEOREM PatientPodsWaitForPeers == PodSpec => [][PeersEnd]_podVars
<1>1. PodSpec => [](SP!NothingCounted)
  <2>1. SP!Init => SP!NothingCounted
    BY DEF SP!Init, SP!EachSlot, SP!NothingCounted
  <2>2. SP!TypeOK /\ SP!NothingCounted /\ [SP!Next]_(SP!vars) => SP!NothingCounted'
    BY SP!NothingCountedStep, SessionsAssumption, NilAssumption
  <2>3. PodSpec => SP!Spec
    BY PodIsSessions
  <2>4. SP!TableInv => SP!TypeOK
    BY DEF SP!TableInv
  <2> QED
    BY <2>1, <2>2, <2>3, <2>4, PodSessions, PTL DEF SP!Spec
<1>2. TypeInv /\ SP!NothingCounted /\ [PodNext]_podVars => [PeersEnd]_podVars
  BY NoEndByKeepalive
<1> QED
  BY <1>1, <1>2, PodTyped, PTL DEF PodSpec
=============================================================================
