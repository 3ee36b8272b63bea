----------------------------- MODULE RouteProofs -----------------------------
(***************************************************************************)
(* Proof that a route is backed by a map entry (RouteBacked of Routing),   *)
(* for every set of pods, devices, connections and handlers.               *)
(*                                                                         *)
(* Neither property is inductive: a logout that has stored "::/128" could  *)
(* be followed by a login on the same connection if nothing tied the       *)
(* handlers to the connection's waiting for a response.  Awaited and       *)
(* OneAtATime do.                                                          *)
(***************************************************************************)
EXTENDS RoutingProofs

\* h has not answered its session request yet.
Unanswered(h) ==
  \/ sess[h].pc \in {"update", "reply"}
  \/ sess[h].pc \in {"map", "write"} /\ ~sess[h].login

\* Its connection waits for the answer, or has ended.
Awaited ==
  \A h \in Handler :
    Unanswered(h) => waiting[sess[h].conn] # Nil \/ link[sess[h].conn] = "closed"

OneAtATime ==
  \A h1, h2 \in Handler :
    Unanswered(h1) /\ Unanswered(h2) /\ sess[h1].conn = sess[h2].conn => h1 = h2

Order == Awaited /\ OneAtATime

BackInv == TypeInv /\ Order /\ LogoutUnroutes /\ RouteBacked

-----------------------------------------------------------------------------
(* What the steps have in common.                                          *)

\* Steps that concern requests, the life of processes and the network leave
\* the handlers alone.
sessVars == <<link, waiting, route, adrift, devices, sess, named>>

LEMMA ClientFrame ==
  ASSUME NEW r \in Request, RequestStep(r) \/ Finish(r) \/ \E d \in Device : Ask(r, d)
  PROVE  UNCHANGED sessVars
<1>1. CASE RequestStep(r) \/ Finish(r)
  BY <1>1, RequestFrame DEF unchangedByRequest, storeVars, sessVars
<1>2. CASE \E d \in Device : Ask(r, d)
  BY <1>2 DEF Ask, unchangedByRequest, storeVars, sessVars
<1> QED
  BY <1>1, <1>2

\* A handler's step changes its own record, and only its own: it keeps its session
\* request, or ends.
LEMMA HandlerFrame ==
  ASSUME TypeInv, NEW h \in Handler, HandlerStep(h)
  PROVE  /\ sess[h].pc \notin {"idle", "late"}
         /\ sess[h].conn \in Conn /\ sess[h].dev \in Device
         /\ \A g \in Handler \ {h} : sess'[g] = sess[g]
         /\ \/ sess'[h] = NoSess
            \/ /\ sess'[h].conn = sess[h].conn /\ sess'[h].dev = sess[h].dev
               /\ sess'[h].login = sess[h].login
         /\ UNCHANGED <<link, named>>
<1>1. sess \in [Handler -> SessRecord] /\ sess[h] \in SessRecord
  BY DEF TypeInv, TypeOK
<1>2. sess[h].pc \notin {"idle", "late"}
  BY DEF HandlerStep, UpdateSession, UpdateLogout, UpdateLogin, UpdateNoTTL,
         UpdateUnknown, UpdateFails, Reply, Lock, AddDevice, RemoveDevice
<1>3. /\ UNCHANGED <<link, named>>
      /\ \/ sess' = [sess EXCEPT ![h] = NoSess]
         \/ \E q \in SessPc : sess' = [sess EXCEPT ![h].pc = q]
  <2>1. CASE UpdateSession(h)
    BY <2>1 DEF UpdateSession, UpdateLogout, UpdateLogin, UpdateNoTTL,
                UpdateUnknown, UpdateFails, SessPc
  <2>2. CASE Reply(h)
    <3>1. CASE sess[h].login
      <4>1. sess' = [sess EXCEPT ![h].pc = "map"]
        BY <1>1, <2>2, <3>1 DEF Reply
      <4> QED
        BY <2>2, <4>1 DEF Reply, SessPc
    <3>2. CASE ~sess[h].login
      BY <1>1, <2>2, <3>2 DEF Reply
    <3> QED
      BY <3>1, <3>2
  <2>3. CASE Lock(h)
    BY <2>3 DEF Lock, SessPc
  <2>4. CASE AddDevice(h)
    BY <2>4 DEF AddDevice
  <2>5. CASE RemoveDevice(h)
    BY <2>5 DEF RemoveDevice, SessPc
  <2> QED
    BY <2>1, <2>2, <2>3, <2>4, <2>5 DEF HandlerStep
<1> QED
  BY <1>1, <1>2, <1>3 DEF SessRecord, TypeInv, Busy

\* The connection of a handler that runs is among those on which its device was
\* named.
LEMMA RunningNamed ==
  ASSUME TypeInv, NEW h \in Handler, sess[h].pc \notin {"idle", "late"}
  PROVE  /\ sess[h].conn \in NamedOn(DevOf(h), PodOf(h))
         /\ DevOf(h) \in Device /\ PodOf(h) \in Pod
<1>1. /\ sess[h].conn \in Conn /\ sess[h].dev \in Device
      /\ NamingOf(h) \in named /\ link[sess[h].conn] \in {"open", "closed"}
  BY DEF TypeInv, Busy
<1>2. sess[h].login \in BOOLEAN
  BY DEF TypeInv, TypeOK, SessRecord
<1> QED
  BY <1>1, <1>2, ConnFields DEF NamedOn, NamingOf, DevOf, PodOf

\* While p's process lives, connections are only ever added to those on which a
\* device was named.
LEMMA NamedFrame ==
  ASSUME named \subseteq named', NEW p,
         \A c \in Conn : c.pod = p /\ link[c] \in {"open", "closed"}
                           => link'[c] \in {"open", "closed"},
         NEW d
  PROVE  NamedOn(d, p) \subseteq NamedOn(d, p)'
BY DEF NamedOn

-----------------------------------------------------------------------------
(* A device sends its session requests on a connection one at a time.      *)

LEMMA OrderHandler ==
  ASSUME TypeInv, Order, NEW h \in Handler, HandlerStep(h)
  PROVE  Order'
<1>1. /\ sess[h].pc # "idle" /\ sess[h].conn \in Conn
      /\ \A g \in Handler \ {h} : sess'[g] = sess[g]
      /\ \/ sess'[h] = NoSess
         \/ sess'[h].conn = sess[h].conn /\ sess'[h].login = sess[h].login
      /\ UNCHANGED link
  BY HandlerFrame
<1>2. sess \in [Handler -> SessRecord] /\ sess[h] \in SessRecord
      /\ waiting \in [Conn -> Device \cup {Nil}]
  BY DEF TypeInv, TypeOK
<1>3. CASE Reply(h)
  <2>1. ~Unanswered(h)'
    BY <1>2, <1>3 DEF Reply, Unanswered, NoSess, SessRecord
  <2>2. Unanswered(h)
    BY <1>3 DEF Reply, Unanswered
  <2>3. waiting' = [waiting EXCEPT ![sess[h].conn] = Nil]
    BY <1>3 DEF Reply
  <2>4. \A c \in Conn \ {sess[h].conn} : waiting'[c] = waiting[c]
    BY <1>2, <2>3
  <2>5. ASSUME NEW g \in Handler, Unanswered(g)'
        PROVE  g # h /\ sess'[g] = sess[g] /\ Unanswered(g)
    BY <1>1, <2>1, <2>5 DEF Unanswered
  <2>6. Awaited'
    <3> SUFFICES ASSUME NEW g \in Handler, Unanswered(g)'
                 PROVE  waiting'[sess'[g].conn] # Nil \/ link'[sess'[g].conn] = "closed"
      BY DEF Awaited
    <3>1. g # h /\ sess'[g] = sess[g] /\ Unanswered(g)
      BY <2>5
    <3>2. sess[g].conn # sess[h].conn
      BY <2>2, <3>1 DEF Order, OneAtATime
    <3>3. sess[g].conn \in Conn
      BY <3>1 DEF Unanswered, TypeInv, Busy
    <3>4. waiting'[sess[g].conn] = waiting[sess[g].conn]
      BY <2>4, <3>2, <3>3
    <3> QED
      BY <1>1, <3>1, <3>4 DEF Order, Awaited
  <2>7. OneAtATime'
    BY <2>5 DEF Order, OneAtATime
  <2> QED
    BY <2>6, <2>7 DEF Order
<1>4. CASE ~Reply(h)
  <2>1. UNCHANGED waiting
    BY <1>4 DEF HandlerStep, UpdateSession, UpdateLogout, UpdateLogin,
                UpdateNoTTL, UpdateUnknown, UpdateFails, Lock, AddDevice,
                RemoveDevice
  <2>2. Unanswered(h)' => Unanswered(h) /\ sess'[h].conn = sess[h].conn
    <3>1. CASE UpdateSession(h)
      BY <1>1, <3>1 DEF UpdateSession, UpdateLogout, UpdateLogin, UpdateNoTTL,
                        UpdateUnknown, UpdateFails, Unanswered, NoSess
    <3>2. CASE Lock(h)
      BY <1>1, <1>2, <3>2 DEF Lock, Unanswered, NoSess
    <3>3. CASE AddDevice(h)
      BY <1>2, <3>3 DEF AddDevice, Unanswered, NoSess
    <3>4. CASE RemoveDevice(h)
      BY <1>1, <1>2, <3>4 DEF RemoveDevice, Unanswered, NoSess
    <3> QED
      BY <1>4, <3>1, <3>2, <3>3, <3>4 DEF HandlerStep
  <2>3. ASSUME NEW g \in Handler, Unanswered(g)'
        PROVE  Unanswered(g) /\ sess'[g].conn = sess[g].conn
    BY <1>1, <2>2, <2>3 DEF Unanswered
  <2> QED
    BY <1>1, <2>1, <2>3 DEF Order, Awaited, OneAtATime
<1> QED
  BY <1>3, <1>4

LEMMA OrderSend ==
  ASSUME TypeInv, Order, NEW c \in Conn, NEW h \in Handler,
         NEW d \in Device, NEW login \in BOOLEAN, SendSession(c, h, d, login)
  PROVE  Order'
<1>1. /\ sess \in [Handler -> SessRecord]
      /\ waiting \in [Conn -> Device \cup {Nil}]
  BY DEF TypeInv, TypeOK
<1>2. /\ link[c] = "open" /\ waiting[c] = Nil /\ UNCHANGED link
      /\ waiting' = [waiting EXCEPT ![c] = d]
      /\ sess'[h] = [pc |-> "update", dev |-> d, conn |-> c, login |-> login]
      /\ \A g \in Handler \ {h} : sess'[g] = sess[g]
  BY <1>1 DEF SendSession
<1>3. \A g \in Handler : Unanswered(g) => sess[g].conn # c
  BY <1>2 DEF Order, Awaited
<1>4. waiting'[c] # Nil /\ \A k \in Conn \ {c} : waiting'[k] = waiting[k]
  BY <1>1, <1>2, NilAssumption
<1>5. ASSUME NEW g \in Handler, g # h, Unanswered(g)'
      PROVE  /\ Unanswered(g) /\ sess'[g] = sess[g]
             /\ sess[g].conn \in Conn \ {c}
  BY <1>2, <1>3, <1>5 DEF Unanswered, TypeInv, Busy
<1>6. Awaited'
  <2> SUFFICES ASSUME NEW g \in Handler, Unanswered(g)'
               PROVE  waiting'[sess'[g].conn] # Nil \/ link'[sess'[g].conn] = "closed"
    BY DEF Awaited
  <2>1. CASE g = h
    BY <1>2, <1>4, <2>1
  <2>2. CASE g # h
    <3>1. waiting'[sess[g].conn] = waiting[sess[g].conn]
      BY <1>4, <1>5, <2>2
    <3> QED
      BY <1>2, <1>5, <2>2, <3>1 DEF Order, Awaited
  <2> QED
    BY <2>1, <2>2
<1>7. OneAtATime'
  <2> SUFFICES ASSUME NEW g1 \in Handler, NEW g2 \in Handler,
                      Unanswered(g1)', Unanswered(g2)',
                      sess'[g1].conn = sess'[g2].conn
               PROVE  g1 = g2
    BY DEF OneAtATime
  <2> QED
    BY <1>2, <1>5 DEF Order, OneAtATime
<1> QED
  BY <1>6, <1>7 DEF Order

\* The end of a connection or of its pod.
LEMMA OrderGone ==
  ASSUME TypeInv, Order,
         \/ \E c \in Conn : Connect(c) \/ Disconnect(c)
         \/ \E p \in Pod : CrashPod(p)
  PROVE  Order'
<1>1. ASSUME NEW c \in Conn, Connect(c) \/ Disconnect(c)
      PROVE  Order'
  <2>1. UNCHANGED sess /\ \A h \in Handler : Unanswered(h)' => Unanswered(h)
    BY <1>1 DEF Connect, Disconnect, Unanswered
  <2>2. ASSUME NEW k \in Conn, waiting[k] # Nil \/ link[k] = "closed"
        PROVE  waiting'[k] # Nil \/ link'[k] = "closed"
    BY <1>1, <2>2 DEF Connect, Disconnect, TypeInv, TypeOK
  <2> QED
    BY <2>1, <2>2 DEF Order, Awaited, OneAtATime, TypeInv, Busy, Unanswered
<1>2. ASSUME NEW p \in Pod, CrashPod(p)
      PROVE  Order'
  <2>1. ASSUME NEW h \in Handler, Unanswered(h)'
        PROVE  /\ sess'[h] = sess[h] /\ Unanswered(h)
               /\ sess[h].conn \in Conn /\ sess[h].conn.pod # p
    BY <1>2, <2>1 DEF CrashPod, NoSess, Unanswered, TypeInv, Busy
  <2>2. ASSUME NEW k \in Conn, k.pod # p
        PROVE  waiting'[k] = waiting[k] /\ link'[k] = link[k]
    BY <1>2, <2>2 DEF CrashPod
  <2>3. Awaited'
    BY <2>1, <2>2 DEF Order, Awaited
  <2>4. OneAtATime'
    BY <2>1 DEF Order, OneAtATime
  <2> QED
    BY <2>3, <2>4 DEF Order
<1> QED
  BY <1>1, <1>2

-----------------------------------------------------------------------------
(* Routes.                                                                 *)

LEMMA RouteHandler ==
  ASSUME BackInv, NEW h \in Handler, HandlerStep(h)
  PROVE  LogoutUnroutes' /\ RouteBacked'
<1> DEFINE d == DevOf(h)
           p == PodOf(h)
<1>1. /\ sess[h].pc \notin {"idle", "late"} /\ sess[h].conn \in Conn
      /\ \A g \in Handler \ {h} : sess'[g] = sess[g]
      /\ \/ sess'[h] = NoSess
         \/ /\ sess'[h].conn = sess[h].conn /\ sess'[h].dev = sess[h].dev
            /\ sess'[h].login = sess[h].login
      /\ UNCHANGED <<link, named>>
  BY HandlerFrame DEF BackInv
<1>2. /\ d \in Device /\ p \in Pod /\ sess[h].conn # Nil
      /\ sess[h].conn \in NamedOn(d, p)
  BY <1>1, RunningNamed, ConnFields DEF BackInv
<1>3. /\ sess \in [Handler -> SessRecord] /\ sess[h] \in SessRecord
      /\ route \in [Device -> Pod \cup {NoRoute, Unspecified}]
      /\ devices \in [Pod -> [Device -> Conn \cup {Nil}]]
  BY DEF BackInv, TypeInv, TypeOK
<1>4. \A e, q : NamedOn(e, q)' = NamedOn(e, q)
  BY <1>1 DEF NamedOn
<1> HIDE DEF d, p
<1>5. CASE UpdateLogin(h)
  <2>1. /\ route' = [route EXCEPT ![d] = p] /\ UNCHANGED devices
        /\ adrift' = adrift \ {d}
        /\ sess'[h].pc = "reply" /\ sess'[h].login
        /\ sess'[h].conn = sess[h].conn /\ sess'[h].dev = sess[h].dev
        /\ sess[h].pc = "update"
    BY <1>3, <1>5 DEF UpdateLogin, Store, d, p, SessRecord
  <2>4. \A e, q : e # d /\ Settled(e, q)' => Settled(e, q)
    BY <1>4, <2>1 DEF Settled
  <2>2. LogoutUnroutes'
    <3> SUFFICES ASSUME NEW g \in Handler,
                        sess'[g].pc \in {"map", "write", "reply"},
                        ~sess'[g].login, Settled(DevOf(g), PodOf(g))'
                 PROVE  (route[DevOf(g)] # PodOf(g))'
      BY DEF LogoutUnroutes
    <3>1. g # h /\ sess'[g] = sess[g]
      BY <1>1, <2>1
    <3>2. DevOf(g)' = DevOf(g) /\ PodOf(g)' = PodOf(g)
      BY <3>1 DEF DevOf, PodOf
    <3>3. sess[g].conn \in NamedOn(DevOf(g), PodOf(g)) /\ DevOf(g) \in Device
      BY <3>1, RunningNamed DEF BackInv
    <3>4. sess[g].conn # sess[h].conn
      BY <2>1, <3>1 DEF BackInv, Order, OneAtATime, Unanswered
    <3>5. ~(DevOf(g) = d /\ PodOf(g) = p)
      BY <1>2, <1>4, <3>2, <3>3, <3>4 DEF Settled
    <3>6. CASE DevOf(g) = d
      BY <1>2, <1>3, <2>1, <3>2, <3>5, <3>6
    <3>7. CASE DevOf(g) # d
      <4>1. route[DevOf(g)] # PodOf(g)
        BY <2>4, <3>1, <3>2, <3>7 DEF BackInv, LogoutUnroutes
      <4> QED
        BY <1>3, <2>1, <3>2, <3>3, <3>7, <4>1
    <3> QED
      BY <3>6, <3>7
  <2>3. RouteBacked'
    <3> SUFFICES ASSUME NEW e \in Device, NEW q \in Pod, route'[e] = q,
                        Settled(e, q)'
                 PROVE  devices'[q][e] # Nil \/ LoginPending(e, q)'
      BY DEF RouteBacked
    <3>1. CASE e = d
      <4>1. q = p
        BY <1>2, <1>3, <2>1, <3>1
      <4> QED
        BY <2>1, <3>1, <4>1 DEF LoginPending, d, p, DevOf, PodOf
    <3>2. CASE e # d
      <4>1. route[e] = q
        BY <1>3, <2>1, <3>2
      <4>2. devices[q][e] # Nil \/ LoginPending(e, q)
        BY <2>4, <3>2, <4>1 DEF BackInv, RouteBacked
      <4>3. LoginPending(e, q) => LoginPending(e, q)'
        BY <1>1, <2>1 DEF LoginPending, DevOf, PodOf
      <4> QED
        BY <2>1, <4>2, <4>3
    <3> QED
      BY <3>1, <3>2
  <2> QED
    BY <2>2, <2>3
<1>6. CASE UpdateLogout(h)
  <2>1. /\ route' = [route EXCEPT ![d] = Unspecified] /\ UNCHANGED devices
        /\ adrift' = adrift \ {d}
        /\ sess[h].pc = "update" /\ ~sess[h].login
    BY <1>6 DEF UpdateLogout, Store, d
  <2>5. \A e, q : e # d /\ Settled(e, q)' => Settled(e, q)
    BY <1>4, <2>1 DEF Settled
  <2>2. \A e \in Device, q \in Pod : route'[e] = q => e # d /\ route[e] = q
    BY <1>3, <2>1, RouteAssumption
  <2>3. LogoutUnroutes'
    <3> SUFFICES ASSUME NEW g \in Handler,
                        sess'[g].pc \in {"map", "write", "reply"},
                        ~sess'[g].login, Settled(DevOf(g), PodOf(g))',
                        (route[DevOf(g)] = PodOf(g))'
                 PROVE  FALSE
      BY DEF LogoutUnroutes
    <3>1. /\ sess'[g].conn = sess[g].conn /\ sess'[g].dev = sess[g].dev
          /\ sess[g].pc \notin {"idle", "late"}
      BY <1>1 DEF NoSess
    <3>2. /\ DevOf(g)' = DevOf(g) /\ PodOf(g)' = PodOf(g)
          /\ DevOf(g) \in Device /\ PodOf(g) \in Pod
      BY <3>1, RunningNamed DEF BackInv, DevOf, PodOf
    <3>3. DevOf(g) # d /\ route[DevOf(g)] = PodOf(g)
      BY <2>2, <3>2
    <3>4. g # h
      BY <3>3 DEF d
    <3> QED
      BY <1>1, <2>5, <3>2, <3>3, <3>4 DEF BackInv, LogoutUnroutes
  <2>4. RouteBacked'
    <3> SUFFICES ASSUME NEW e \in Device, NEW q \in Pod, route'[e] = q,
                        Settled(e, q)'
                 PROVE  devices'[q][e] # Nil \/ LoginPending(e, q)'
      BY DEF RouteBacked
    <3>1. devices[q][e] # Nil \/ LoginPending(e, q)
      BY <2>2, <2>5 DEF BackInv, RouteBacked
    <3>2. LoginPending(e, q) => LoginPending(e, q)'
      BY <1>1, <2>1 DEF LoginPending, DevOf, PodOf
    <3> QED
      BY <2>1, <3>1, <3>2
  <2> QED
    BY <2>3, <2>4
<1>7. ASSUME UNCHANGED <<route, adrift>>,
             \A e \in Device, q \in Pod :
               route[e] = q /\ Settled(e, q)
                 => /\ devices[q][e] # Nil => devices'[q][e] # Nil
                    /\ LoginPending(e, q)
                         => devices'[q][e] # Nil \/ LoginPending(e, q)',
             sess'[h].pc \in {"map", "write", "reply"} /\ ~sess'[h].login
               => sess[h].pc \in {"map", "write", "reply"} /\ ~sess[h].login
      PROVE  LogoutUnroutes' /\ RouteBacked'
  <2>3. \A e, q : Settled(e, q)' => Settled(e, q)
    BY <1>4, <1>7 DEF Settled
  <2>1. LogoutUnroutes'
    <3> SUFFICES ASSUME NEW g \in Handler,
                        sess'[g].pc \in {"map", "write", "reply"},
                        ~sess'[g].login, Settled(DevOf(g), PodOf(g))'
                 PROVE  (route[DevOf(g)] # PodOf(g))'
      BY DEF LogoutUnroutes
    <3>1. sess'[g].conn = sess[g].conn /\ sess'[g].dev = sess[g].dev
      BY <1>1 DEF NoSess
    <3>2. sess[g].pc \in {"map", "write", "reply"} /\ ~sess[g].login
      BY <1>1, <1>7
    <3>3. DevOf(g)' = DevOf(g) /\ PodOf(g)' = PodOf(g)
      BY <3>1 DEF DevOf, PodOf
    <3> QED
      BY <1>7, <2>3, <3>2, <3>3 DEF BackInv, LogoutUnroutes
  <2>2. RouteBacked'
    BY <1>7, <2>3 DEF BackInv, RouteBacked
  <2> QED
    BY <2>1, <2>2
<1>8. CASE UpdateNoTTL(h) \/ UpdateUnknown(h) \/ UpdateFails(h)
  <2>1. /\ UNCHANGED <<route, adrift, devices>> /\ sess[h].pc = "update"
        /\ sess'[h] = NoSess \/ sess'[h].login \/ sess'[h].pc = "late"
    BY <1>3, <1>8 DEF UpdateNoTTL, UpdateUnknown, UpdateFails, SessRecord, storeVars
  <2>2. \A e, q : LoginPending(e, q) => LoginPending(e, q)'
    BY <1>1, <2>1 DEF LoginPending, DevOf, PodOf
  <2> QED
    BY <1>7, <2>1, <2>2 DEF NoSess
<1>9. CASE Reply(h)
  <2>1. /\ UNCHANGED <<route, adrift, devices>> /\ sess[h].pc = "reply"
        /\ sess[h].login =>
             /\ sess'[h].pc = "map" /\ sess'[h].login
             /\ sess'[h].conn = sess[h].conn /\ sess'[h].dev = sess[h].dev
        /\ ~sess[h].login => sess'[h] = NoSess
    BY <1>3, <1>9 DEF Reply, SessRecord, storeVars
  <2>2. \A e, q : LoginPending(e, q) => LoginPending(e, q)'
    BY <1>1, <2>1 DEF LoginPending, DevOf, PodOf
  <2> QED
    BY <1>7, <2>1, <2>2 DEF NoSess
<1>10. CASE Lock(h)
  <2>1. /\ UNCHANGED <<route, adrift, devices>> /\ sess[h].pc = "map"
        /\ sess'[h].pc = "write" /\ sess'[h].login = sess[h].login
        /\ sess'[h].conn = sess[h].conn /\ sess'[h].dev = sess[h].dev
    BY <1>3, <1>10 DEF Lock, SessRecord, storeVars
  <2>2. \A e, q : LoginPending(e, q) => LoginPending(e, q)'
    BY <1>1, <2>1 DEF LoginPending, DevOf, PodOf
  <2> QED
    BY <1>7, <2>1, <2>2
<1>11. CASE AddDevice(h)
  <2>1. /\ UNCHANGED <<route, adrift>> /\ sess'[h] = NoSess
        /\ devices' = [devices EXCEPT ![p][d] = sess[h].conn]
    BY <1>3, <1>11 DEF AddDevice, storeVars, d, p
  <2>2. devices'[p][d] # Nil
    BY <1>2, <1>3, <2>1
  <2>3. \A q \in Pod, e \in Device :
          ~(q = p /\ e = d) => devices'[q][e] = devices[q][e]
    BY <1>2, <1>3, <2>1
  <2>4. \A e \in Device, q \in Pod :
          ~(q = p /\ e = d) /\ LoginPending(e, q) => LoginPending(e, q)'
    BY <1>1, <2>1 DEF LoginPending, d, p, DevOf, PodOf
  <2> QED
    BY <1>7, <2>1, <2>2, <2>3, <2>4 DEF NoSess
<1>12. CASE RemoveDevice(h)
  <2>1. /\ UNCHANGED <<route, adrift>> /\ sess'[h].pc = "reply" /\ ~sess[h].login
        /\ sess[h].pc = "write"
        /\ devices' = [devices EXCEPT ![p][d] = Nil]
    BY <1>3, <1>12 DEF RemoveDevice, storeVars, d, p
  <2>2. Settled(d, p) => route[d] # p
    BY <2>1 DEF BackInv, LogoutUnroutes, d, p
  <2>3. \A q \in Pod, e \in Device :
          ~(q = p /\ e = d) => devices'[q][e] = devices[q][e]
    BY <1>2, <1>3, <2>1
  <2>4. \A e, q : LoginPending(e, q) => LoginPending(e, q)'
    BY <1>1, <2>1 DEF LoginPending, DevOf, PodOf
  <2> QED
    BY <1>7, <2>1, <2>2, <2>3, <2>4
<1> QED
  BY <1>5, <1>6, <1>8, <1>9, <1>10, <1>11, <1>12 DEF HandlerStep, UpdateSession

\* Where no handler moves, or a session request comes in, or what one has left to
\* Redis arrives.
LEMMA RouteOthers ==
  ASSUME BackInv, UNCHANGED devices,
         \A e \in Device, q \in Pod :
           route'[e] = q /\ Settled(e, q)' => route[e] = q /\ Settled(e, q),
         \A g \in Handler :
           \/ sess'[g] = sess[g]
           \/ sess[g].pc \in {"idle", "late"} /\ sess'[g].pc \in {"idle", "update"}
  PROVE  LogoutUnroutes' /\ RouteBacked'
<1>1. LogoutUnroutes'
  <2> SUFFICES ASSUME NEW g \in Handler,
                      sess'[g].pc \in {"map", "write", "reply"},
                      ~sess'[g].login, Settled(DevOf(g), PodOf(g))',
                      (route[DevOf(g)] = PodOf(g))'
               PROVE  FALSE
    BY DEF LogoutUnroutes
  <2>1. sess'[g] = sess[g]
    OBVIOUS
  <2>2. /\ DevOf(g)' = DevOf(g) /\ PodOf(g)' = PodOf(g)
        /\ DevOf(g) \in Device /\ PodOf(g) \in Pod
    BY <2>1, RunningNamed DEF DevOf, PodOf, BackInv
  <2>3. Settled(DevOf(g), PodOf(g)) /\ route[DevOf(g)] = PodOf(g)
    BY <2>2
  <2> QED
    BY <2>1, <2>2, <2>3 DEF BackInv, LogoutUnroutes
<1>2. RouteBacked'
  <2> SUFFICES ASSUME NEW e \in Device, NEW q \in Pod, route'[e] = q,
                      Settled(e, q)'
               PROVE  devices'[q][e] # Nil \/ LoginPending(e, q)'
    BY DEF RouteBacked
  <2>1. devices[q][e] # Nil \/ LoginPending(e, q)
    BY DEF BackInv, RouteBacked
  <2>2. LoginPending(e, q) => LoginPending(e, q)'
    BY DEF LoginPending, DevOf, PodOf
  <2> QED
    BY <2>1, <2>2
<1> QED
  BY <1>1, <1>2

\* The end of a pod leaves the other pods' handlers and maps alone, and sets the
\* devices adrift whose route leads to it.
LEMMA RouteCrash ==
  ASSUME BackInv, NEW p \in Pod, CrashPod(p)
  PROVE  LogoutUnroutes' /\ RouteBacked'
<1>1. /\ UNCHANGED <<route, named>> /\ adrift' = adrift \cup {d \in Device : route[d] = p}
      /\ \A c \in Conn : c.pod # p => link'[c] = link[c]
      /\ \A q \in Pod : q # p => devices'[q] = devices[q]
      /\ \A g \in Handler :
           \/ sess'[g] = NoSess /\ sess[g].pc # "idle" /\ sess[g].conn.pod = p
           \/ sess'[g] = sess[g] /\ (sess[g].pc \in {"idle", "late"} \/ sess[g].conn.pod # p)
  BY DEF CrashPod, BackInv, TypeInv, TypeOK
<1>2. ASSUME NEW e, NEW q, q # p, Settled(e, q)'
      PROVE  Settled(e, q)
  <2>1. NamedOn(e, q) \subseteq NamedOn(e, q)'
    BY <1>1, <1>2 DEF NamedOn
  <2> QED
    BY <1>1, <1>2, <2>1 DEF Settled
<1>3. LogoutUnroutes'
  <2> SUFFICES ASSUME NEW g \in Handler,
                      sess'[g].pc \in {"map", "write", "reply"},
                      ~sess'[g].login, Settled(DevOf(g), PodOf(g))'
               PROVE  (route[DevOf(g)] # PodOf(g))'
    BY DEF LogoutUnroutes
  <2>1. sess'[g] = sess[g] /\ PodOf(g) # p
    BY <1>1 DEF NoSess, PodOf
  <2>2. DevOf(g)' = DevOf(g) /\ PodOf(g)' = PodOf(g)
    BY <2>1 DEF DevOf, PodOf
  <2>3. Settled(DevOf(g), PodOf(g))
    BY <1>2, <2>1, <2>2
  <2> QED
    BY <1>1, <2>1, <2>2, <2>3 DEF BackInv, LogoutUnroutes
<1>4. RouteBacked'
  <2> SUFFICES ASSUME NEW e \in Device, NEW q \in Pod, route'[e] = q,
                      Settled(e, q)'
               PROVE  devices'[q][e] # Nil \/ LoginPending(e, q)'
    BY DEF RouteBacked
  <2>1. q # p
    BY <1>1 DEF Settled
  <2>2. devices[q][e] # Nil \/ LoginPending(e, q)
    BY <1>1, <1>2, <2>1 DEF BackInv, RouteBacked
  <2>3. LoginPending(e, q) => LoginPending(e, q)'
    BY <1>1, <2>1 DEF LoginPending, DevOf, PodOf
  <2> QED
    BY <1>1, <2>1, <2>2, <2>3
<1> QED
  BY <1>3, <1>4

\* A SET of a login that failed sets its device adrift; one of a logout leaves no
\* route to a pod.
LEMMA RouteLate ==
  ASSUME BackInv, NEW h \in Handler, LateStore(h)
  PROVE  Order' /\ LogoutUnroutes' /\ RouteBacked'
<1>1. sess \in [Handler -> SessRecord] /\ route \in [Device -> Pod \cup {NoRoute, Unspecified}]
  BY DEF BackInv, TypeInv, TypeOK
<1>2. /\ UNCHANGED <<waiting, link, named, devices>>
      /\ sess[h].pc = "late" /\ sess'[h] = NoSess
      /\ \A g \in Handler \ {h} : sess'[g] = sess[g]
  BY <1>1 DEF LateStore
<1>3. Order'
  <2>1. ASSUME NEW g \in Handler, Unanswered(g)'
        PROVE  sess'[g] = sess[g] /\ Unanswered(g)
    BY <1>2, <2>1 DEF Unanswered, NoSess
  <2> QED
    BY <1>2, <2>1 DEF BackInv, Order, Awaited, OneAtATime
<1>4. \A e, q : NamedOn(e, q)' = NamedOn(e, q)
  BY <1>2 DEF NamedOn
<1>5. ASSUME NEW e \in Device, NEW q \in Pod, route'[e] = q, Settled(e, q)'
      PROVE  route[e] = q /\ Settled(e, q)
  <2>1. e # DevOf(h)
    <3>1. CASE sess[h].login
      BY <1>5, <3>1 DEF LateStore, Settled
    <3>2. CASE ~sess[h].login
      BY <1>1, <1>5, <3>2, RouteAssumption DEF LateStore, Store
    <3> QED
      BY <3>1, <3>2
  <2>2. route'[e] = route[e] /\ (e \in adrift => e \in adrift')
    BY <1>1, <2>1 DEF LateStore, Store
  <2> QED
    BY <1>4, <1>5, <2>2 DEF Settled
<1>6. LogoutUnroutes' /\ RouteBacked'
  BY <1>2, <1>5, RouteOthers DEF NoSess
<1> QED
  BY <1>3, <1>6

-----------------------------------------------------------------------------
LEMMA BackInit == Init => BackInv
BY TypeInit, RouteAssumption
   DEF Init, BackInv, Order, Awaited, OneAtATime, Unanswered, LogoutUnroutes,
       RouteBacked, NoSess

LEMMA BackStep == BackInv /\ [Next]_vars => BackInv'
<1> SUFFICES ASSUME BackInv, [Next]_vars
             PROVE  Order' /\ LogoutUnroutes' /\ RouteBacked'
  BY TypeStep DEF BackInv
<1>1. TypeInv /\ Order
  BY DEF BackInv
<1>2. ASSUME NEW h \in Handler, HandlerStep(h)
      PROVE  Order' /\ LogoutUnroutes' /\ RouteBacked'
  BY <1>1, <1>2, OrderHandler, RouteHandler
<1>3. ASSUME NEW p \in Pod, CrashPod(p)
      PROVE  Order' /\ LogoutUnroutes' /\ RouteBacked'
  BY <1>1, <1>3, OrderGone, RouteCrash
<1>4. ASSUME NEW r \in Request, RacyRead(r)
      PROVE  Order' /\ LogoutUnroutes' /\ RouteBacked'
  BY <1>1, <1>3, <1>4 DEF RacyRead, TypeInv, Asked
<1>5. ASSUME NEW c \in Conn, Connect(c) \/ Disconnect(c)
      PROVE  Order' /\ LogoutUnroutes' /\ RouteBacked'
  <2>1. Order'
    BY <1>1, <1>5, OrderGone
  <2>2. /\ UNCHANGED <<devices, route, adrift, sess, named>>
        /\ \A k \in Conn : link[k] \in {"open", "closed"} => link'[k] \in {"open", "closed"}
    BY <1>1, <1>5 DEF Connect, Disconnect, TypeInv, TypeOK, storeVars
  <2>3. \A e, q : Settled(e, q)' => Settled(e, q)
    BY <2>2, NamedFrame DEF Settled
  <2> QED
    BY <2>1, <2>2, <2>3, RouteOthers
<1>6. ASSUME NEW c \in Conn, NEW h \in Handler, NEW d \in Device,
             NEW login \in BOOLEAN, SendSession(c, h, d, login)
      PROVE  Order' /\ LogoutUnroutes' /\ RouteBacked'
  <2>1. Order'
    BY <1>1, <1>6, OrderSend
  <2>2. /\ UNCHANGED <<devices, route, adrift, link>> /\ named \subseteq named'
        /\ \A g \in Handler :
             \/ sess'[g] = sess[g]
             \/ sess[g].pc = "idle" /\ sess'[g].pc = "update"
    BY <1>1, <1>6 DEF SendSession, TypeInv, TypeOK, storeVars
  <2>3. \A e, q : Settled(e, q)' => Settled(e, q)
    BY <2>2, NamedFrame DEF Settled
  <2> QED
    BY <2>1, <2>2, <2>3, RouteOthers
<1>7. ASSUME NEW e \in Device, ExpireRoute(e)
      PROVE  Order' /\ LogoutUnroutes' /\ RouteBacked'
  <2>1. UNCHANGED <<devices, named, link, sess, waiting>> /\ adrift' = adrift \ {e}
    BY <1>7 DEF ExpireRoute
  <2>2. \A k \in Device, q \in Pod : route'[k] = q => k # e /\ route[k] = q
    BY <1>1, <1>7, RouteAssumption DEF ExpireRoute, TypeInv, TypeOK
  <2>3. Order'
    BY <1>1, <2>1 DEF Order, Awaited, OneAtATime, Unanswered
  <2>4. \A k, q : k # e /\ Settled(k, q)' => Settled(k, q)
    BY <2>1 DEF Settled, NamedOn
  <2> QED
    BY <2>1, <2>2, <2>3, <2>4, RouteOthers
<1>8. CASE UNCHANGED sessVars
  <2>1. Order'
    BY <1>1, <1>8 DEF sessVars, Order, Awaited, OneAtATime, Unanswered
  <2>2. \A e, q : Settled(e, q)' <=> Settled(e, q)
    BY <1>8 DEF sessVars, Settled, NamedOn
  <2> QED
    BY <1>8, <2>1, <2>2, RouteOthers DEF sessVars
<1>9. ASSUME NEW p \in Pod, Restart(p)
      PROVE  UNCHANGED sessVars
  BY <1>9 DEF Restart, storeVars, sessVars
<1>10. ASSUME NEW r \in Request,
              RequestStep(r) \/ Finish(r) \/ \E e \in Device : Ask(r, e)
       PROVE  UNCHANGED sessVars
  BY <1>10, ClientFrame
<1>11. UNCHANGED vars => UNCHANGED sessVars
  BY DEF vars, storeVars, sessVars
<1>12. ASSUME NEW h \in Handler, LateStore(h)
       PROVE  Order' /\ LogoutUnroutes' /\ RouteBacked'
  BY <1>12, RouteLate
<1> QED
  BY <1>2, <1>3, <1>4, <1>5, <1>6, <1>7, <1>8, <1>9, <1>10, <1>11, <1>12 DEF Next

\* For any number of devices, pods and handlers, and any interleaving of logins and
\* logouts with connects, disconnects, expiries, failed stores that take effect
\* later, and crashes, a route leads to a pod that holds the device or is about to,
\* under the conditions that RouteBacked names.
THEOREM RoutesAreBacked == Spec => []RouteBacked
<1>1. BackInv => RouteBacked
  BY DEF BackInv
<1> QED
  BY <1>1, BackInit, BackStep, PTL DEF Spec

\* Likewise, an unanswered logout has made Redis forget its pod.
THEOREM LogoutsUnroute == Spec => []LogoutUnroutes
<1>1. BackInv => LogoutUnroutes
  BY DEF BackInv
<1> QED
  BY <1>1, BackInit, BackStep, PTL DEF Spec
=============================================================================
