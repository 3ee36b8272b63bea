------------------------------- MODULE Routing -------------------------------
(***************************************************************************)
(* Message routing: how an HTTP request of a client reaches the CoAP       *)
(* connection of a device.                                                 *)
(*                                                                         *)
(* A device holds one long-lived connection to one of several gateway pods.*)
(* When it logs in, the pod writes its own address into Redis under the    *)
(* device's id and remembers the connection in an in-memory map.  The      *)
(* northbound interface looks the id up in Redis, forwards the request to  *)
(* that pod, and the pod looks the id up in its map.  The two stores are   *)
(* written one after the other by handlers that run concurrently, the map  *)
(* is read without its mutex, and nothing is cleared on a disconnect.      *)
(***************************************************************************)
EXTENDS Naturals

CONSTANTS
  Pod,          \* gateway pods, named by their address
  Device,       \* device ids
  Conn,         \* connections ever opened: records [pod, id]
  Handler,      \* goroutines that run handleSessionUpdate
  Request,      \* HTTP requests of clients that are being served
  Account,      \* what MySQL knows of each device: [Device -> AccountStatus]
  Nil,          \* no connection, no pod, no device
  NoRoute,      \* the Redis key does not exist
  Unspecified,  \* the Redis value "::/128"
  MaxCrashes,   \* bound on the crashes of pods
  MaxFaults     \* bound on failed store operations

\* "unknown": no row; "provisioned": a row whose token has no expiry yet;
\* "registered": a row whose token has one.
AccountStatus == {"unknown", "provisioned", "registered"}

ASSUME ConnAssumption == Conn \subseteq [pod : Pod, id : Nat]
ASSUME NilAssumption == Nil \notin Conn \cup Pod \cup Device
ASSUME RouteAssumption == /\ NoRoute \notin Pod
                          /\ Unspecified \notin Pod
                          /\ NoRoute # Unspecified
ASSUME AccountAssumption == Account \in [Device -> AccountStatus]
ASSUME BoundAssumption == MaxCrashes \in Nat /\ MaxFaults \in Nat

VARIABLES
  up,       \* up[p]: the pod's process runs
  link,     \* link[c]: the TCP connection is "new", "open", "closed" by one of its
            \* ends, or "gone" with the pod's process
  waiting,  \* waiting[c]: the device id in the session request on c that awaits
            \* its response
  route,    \* Redis: device id -> pod address
  devices,  \* devices[p]: deviceContainer.devices of pod p
  sess,     \* sess[h]: a running handleSessionUpdate
  req,      \* req[r]: a running client request
  crashes,  \* crashes of pods so far
  faults,   \* failed store operations so far
  named,    \* history: the session requests that pods have received
  adrift    \* history: the devices whose route was stored by a login that failed,
            \* or by a process of the pod that has crashed since

storeVars == <<route, adrift>>
vars == <<up, link, waiting, storeVars, devices, sess, req, crashes, faults, named>>

SessPc == {"idle", "update", "reply", "map", "write", "late"}
ReqPc == {"idle", "lookup", "forward", "check", "create", "exchange",
          "waiting", "done"}

\* What the client is answered: 404, 500, 200 with an empty body, or 200
\* with the payload of the device.
Status == {"none", "404", "500", "empty", "payload"}

\* What a session request says, and the connection it says it on.
Naming == [dev : Device, conn : Conn, login : BOOLEAN]

SessRecord == [pc : SessPc, dev : Device \cup {Nil}, conn : Conn \cup {Nil},
               login : BOOLEAN]
ReqRecord == [pc : ReqPc, dev : Device \cup {Nil}, pod : Pod \cup {Nil},
              conn : Conn \cup {Nil}, status : Status]

NoSess == [pc |-> "idle", dev |-> Nil, conn |-> Nil, login |-> FALSE]
NoReq == [pc |-> "idle", dev |-> Nil, pod |-> Nil, conn |-> Nil,
          status |-> "none"]

TypeOK ==
  /\ up \in [Pod -> BOOLEAN]
  /\ link \in [Conn -> {"new", "open", "closed", "gone"}]
  /\ waiting \in [Conn -> Device \cup {Nil}]
  /\ route \in [Device -> Pod \cup {NoRoute, Unspecified}]
  /\ devices \in [Pod -> [Device -> Conn \cup {Nil}]]
  /\ sess \in [Handler -> SessRecord]
  /\ req \in [Request -> ReqRecord]
  /\ crashes \in Nat
  /\ faults \in Nat
  /\ named \subseteq Naming
  /\ adrift \subseteq Device

Init ==
  /\ up = [p \in Pod |-> TRUE]
  /\ link = [c \in Conn |-> "new"]
  /\ waiting = [c \in Conn |-> Nil]
  /\ route = [d \in Device |-> NoRoute]
  /\ devices = [p \in Pod |-> [d \in Device |-> Nil]]
  /\ sess = [h \in Handler |-> NoSess]
  /\ req = [r \in Request |-> NoReq]
  /\ crashes = 0
  /\ faults = 0
  /\ named = {} /\ adrift = {}

-----------------------------------------------------------------------------
(* Connections and devices.                                                *)

Connect(c) ==
  /\ link[c] = "new" /\ up[c.pod]
  /\ link' = [link EXCEPT ![c] = "open"]
  /\ UNCHANGED <<up, waiting, storeVars, devices, sess, req, crashes, faults, named>>

\* The end of a connection reaches clientContainer.removeSession, which
\* leaves deviceContainer and Redis as they are.
Disconnect(c) ==
  /\ link[c] = "open"
  /\ link' = [link EXCEPT ![c] = "closed"]
  /\ waiting' = [waiting EXCEPT ![c] = Nil]
  /\ UNCHANGED <<up, storeVars, devices, sess, req, crashes, faults, named>>

\* POST /oic/sec/session.  The payload names a device, any device: nothing
\* compares it with the connection, with what was named on it before or with the
\* access token.  The requests on one connection come one at a time; the server
\* runs each in a goroutine of its own.
SendSession(c, h, d, login) ==
  /\ link[c] = "open" /\ waiting[c] = Nil
  /\ sess[h].pc = "idle"
  /\ sess' = [sess EXCEPT ![h] = [pc |-> "update", dev |-> d, conn |-> c,
                                  login |-> login]]
  /\ waiting' = [waiting EXCEPT ![c] = d]
  /\ named' = named \cup {[dev |-> d, conn |-> c, login |-> login]}
  /\ UNCHANGED <<up, link, storeVars, devices, req, crashes, faults>>

-----------------------------------------------------------------------------
(* handleSessionUpdate.  A login runs update, reply, map, write; a logout  *)
(* runs update, map, write, reply.                                         *)

DevOf(h) == sess[h].dev
PodOf(h) == sess[h].conn.pod

\* db.Set of UpdateSession takes effect in Redis.
Store(h) ==
  route' = [route EXCEPT ![DevOf(h)] = IF sess[h].login THEN PodOf(h)
                                                        ELSE Unspecified]

\* Mutant: a logout does not reach Redis.
UpdateLogoutKeepsRoute(h) ==
  /\ sess[h].pc = "update" /\ ~sess[h].login
  /\ sess' = [sess EXCEPT ![h].pc = "map"]
  /\ UNCHANGED <<up, link, waiting, storeVars, devices, req, crashes, faults, named>>

\* Mutant: a logout is answered before its work is done.
UpdateLogoutAnswersFirst(h) ==
  /\ sess[h].pc = "update" /\ ~sess[h].login
  /\ Store(h) /\ adrift' = adrift \ {DevOf(h)}
  /\ waiting' = [waiting EXCEPT ![sess[h].conn] = Nil]
  /\ sess' = [sess EXCEPT ![h].pc = "map"]
  /\ UNCHANGED <<up, link, devices, req, crashes, faults, named>>

\* registry.UpdateSession(loggedIn = false).
UpdateLogout(h) ==
  /\ sess[h].pc = "update" /\ ~sess[h].login
  /\ Store(h) /\ adrift' = adrift \ {DevOf(h)}
  /\ sess' = [sess EXCEPT ![h].pc = "map"]
  /\ UNCHANGED <<up, link, waiting, devices, req, crashes, faults, named>>

\* registry.UpdateSession(loggedIn = true) for a device whose token expires.
UpdateLogin(h) ==
  /\ sess[h].pc = "update" /\ sess[h].login
  /\ Account[DevOf(h)] = "registered"
  /\ Store(h) /\ adrift' = adrift \ {DevOf(h)}
  /\ sess' = [sess EXCEPT ![h].pc = "reply"]
  /\ UNCHANGED <<up, link, waiting, devices, req, crashes, faults, named>>

\* The token has no expiry: "no TTL value found", returned as (0, nil).
UpdateNoTTL(h) ==
  /\ sess[h].pc = "update" /\ sess[h].login
  /\ Account[DevOf(h)] = "provisioned"
  /\ sess' = [sess EXCEPT ![h].pc = "reply"]
  /\ UNCHANGED <<up, link, waiting, storeVars, devices, req, crashes, faults, named>>

\* The query finds no row; the handler logs the error and sends nothing.
UpdateUnknown(h) ==
  /\ sess[h].pc = "update" /\ sess[h].login
  /\ Account[DevOf(h)] = "unknown"
  /\ sess' = [sess EXCEPT ![h] = NoSess]
  /\ UNCHANGED <<up, link, waiting, storeVars, devices, req, crashes, faults, named>>

\* MySQL or Redis fails or does not answer in time; again nothing is sent, and
\* the handler returns before it writes the map.  A SET that was sent to Redis
\* takes effect all the same, at once or later, or never.
UpdateFails(h) ==
  /\ sess[h].pc = "update" /\ faults < MaxFaults
  /\ \/ sess' = [sess EXCEPT ![h] = NoSess]
     \/ /\ sess[h].login => Account[DevOf(h)] = "registered"
        /\ sess' = [sess EXCEPT ![h].pc = "late"]
  /\ faults' = faults + 1
  /\ UNCHANGED <<up, link, waiting, storeVars, devices, req, crashes, named>>

\* The SET of a handler that has returned takes effect.
LateStore(h) ==
  /\ sess[h].pc = "late"
  /\ Store(h)
  /\ adrift' = IF sess[h].login THEN adrift \cup {DevOf(h)} ELSE adrift \ {DevOf(h)}
  /\ sess' = [sess EXCEPT ![h] = NoSess]
  /\ UNCHANGED <<up, link, waiting, devices, req, crashes, faults, named>>

UpdateSession(h) ==
  \/ UpdateLogout(h)
  \/ UpdateLogin(h)
  \/ UpdateNoTTL(h)
  \/ UpdateUnknown(h)
  \/ UpdateFails(h)

\* w.WriteMsg.  A failed write is only logged, so the handler goes on.
Reply(h) ==
  /\ sess[h].pc = "reply"
  /\ waiting' = [waiting EXCEPT ![sess[h].conn] = Nil]
  /\ sess' = [sess EXCEPT ![h] = IF @.login THEN [@ EXCEPT !.pc = "map"]
                                            ELSE NoSess]
  /\ UNCHANGED <<up, link, storeVars, devices, req, crashes, faults, named>>

\* deviceContainer.mutex, held while the map is written.
Writing(p) == {h \in Handler : sess[h].pc = "write" /\ sess[h].conn.pod = p}

Lock(h) ==
  /\ sess[h].pc = "map" /\ Writing(PodOf(h)) = {}
  /\ sess' = [sess EXCEPT ![h].pc = "write"]
  /\ UNCHANGED <<up, link, waiting, storeVars, devices, req, crashes, faults, named>>

\* Mutant: the decoded account is one variable that all handlers share.
AddDeviceOfAnother(h) ==
  /\ sess[h].pc = "write" /\ sess[h].login
  /\ \E d \in Device :
       devices' = [devices EXCEPT ![PodOf(h)][d] = sess[h].conn]
  /\ sess' = [sess EXCEPT ![h] = NoSess]
  /\ UNCHANGED <<up, link, waiting, storeVars, req, crashes, faults, named>>

AddDevice(h) ==
  /\ sess[h].pc = "write" /\ sess[h].login
  /\ devices' = [devices EXCEPT ![PodOf(h)][DevOf(h)] = sess[h].conn]
  /\ sess' = [sess EXCEPT ![h] = NoSess]
  /\ UNCHANGED <<up, link, waiting, storeVars, req, crashes, faults, named>>

\* Mutant: a logout returns without a response.
RemoveDeviceSilently(h) ==
  /\ sess[h].pc = "write" /\ ~sess[h].login
  /\ devices' = [devices EXCEPT ![PodOf(h)][DevOf(h)] = Nil]
  /\ sess' = [sess EXCEPT ![h] = NoSess]
  /\ UNCHANGED <<up, link, waiting, storeVars, req, crashes, faults, named>>

RemoveDevice(h) ==
  /\ sess[h].pc = "write" /\ ~sess[h].login
  /\ devices' = [devices EXCEPT ![PodOf(h)][DevOf(h)] = Nil]
  /\ sess' = [sess EXCEPT ![h].pc = "reply"]
  /\ UNCHANGED <<up, link, waiting, storeVars, req, crashes, faults, named>>

-----------------------------------------------------------------------------
(* Processes and the cache.                                                *)

\* A pod's process ends: log.Fatal in handleAccountUpdateOrDelete, a fatal
\* error of the Go runtime, or the cluster.  Its memory and connections are
\* gone, but not what it has sent to Redis; the northbound's POST to it fails,
\* which the client sees as 500.
CrashPod(p) ==
  /\ up[p] /\ crashes < MaxCrashes
  /\ up' = [up EXCEPT ![p] = FALSE]
  /\ crashes' = crashes + 1
  /\ link' = [c \in Conn |-> IF c.pod = p /\ link[c] # "new" THEN "gone" ELSE link[c]]
  /\ waiting' = [c \in Conn |-> IF c.pod = p THEN Nil ELSE waiting[c]]
  /\ devices' = [devices EXCEPT ![p] = [d \in Device |-> Nil]]
  /\ sess' = [h \in Handler |->
                IF sess[h].pc \notin {"idle", "late"} /\ sess[h].conn.pod = p
                THEN NoSess ELSE sess[h]]
  /\ req' = [r \in Request |->
               IF /\ req[r].pod = p
                  /\ req[r].pc \in {"check", "create", "exchange", "waiting"}
               THEN [req[r] EXCEPT !.pc = "done", !.status = "500"]
               ELSE req[r]]
  /\ adrift' = adrift \cup {d \in Device : route[d] = p}
  /\ UNCHANGED <<route, faults, named>>

\* main() starts with an empty deviceContainer and the same MY_POD_IP.
Restart(p) ==
  /\ ~up[p]
  /\ up' = [up EXCEPT ![p] = TRUE]
  /\ UNCHANGED <<link, waiting, storeVars, devices, sess, req, crashes, faults, named>>

\* The one-hour lifetime of the key that a login sets ends.  The key that a
\* logout sets has no lifetime.
ExpireRoute(d) ==
  /\ route[d] \in Pod
  /\ route' = [route EXCEPT ![d] = NoRoute]
  /\ adrift' = adrift \ {d}
  /\ UNCHANGED <<up, link, waiting, devices, sess, req, crashes, faults, named>>

-----------------------------------------------------------------------------
(* Client requests: the northbound's handleClientRequest up to "forward",  *)
(* then the pod's.                                                         *)

unchangedByRequest == <<up, link, waiting, storeVars, devices, sess, crashes, named>>

Answer(r, s) == req' = [req EXCEPT ![r].pc = "done", ![r].status = s]

Ask(r, d) ==
  /\ req[r].pc = "idle"
  /\ req' = [req EXCEPT ![r] = [NoReq EXCEPT !.pc = "lookup", !.dev = d]]
  /\ UNCHANGED <<unchangedByRequest, faults>>

\* redis.Nil: 404 is written and the POST to an empty host that follows
\* cannot change it.
LookupMiss(r) ==
  /\ req[r].pc = "lookup" /\ route[req[r].dev] = NoRoute
  /\ Answer(r, "404")
  /\ UNCHANGED <<unchangedByRequest, faults>>

\* "::/128" is not a host: the POST fails.
LookupUnspecified(r) ==
  /\ req[r].pc = "lookup" /\ route[req[r].dev] = Unspecified
  /\ Answer(r, "500")
  /\ UNCHANGED <<unchangedByRequest, faults>>

\* Mutant: any value of the key is taken for a pod.
LookupAnyValue(r) ==
  /\ req[r].pc = "lookup" /\ route[req[r].dev] # NoRoute
  /\ req' = [req EXCEPT ![r].pc = "forward", ![r].pod = route[req[r].dev]]
  /\ UNCHANGED <<unchangedByRequest, faults>>

LookupPod(r) ==
  /\ req[r].pc = "lookup" /\ route[req[r].dev] \in Pod
  /\ req' = [req EXCEPT ![r].pc = "forward", ![r].pod = route[req[r].dev]]
  /\ UNCHANGED <<unchangedByRequest, faults>>

\* Another Redis error leaves the address empty, and the POST fails.
LookupFails(r) ==
  /\ req[r].pc = "lookup" /\ faults < MaxFaults
  /\ Answer(r, "500")
  /\ faults' = faults + 1
  /\ UNCHANGED unchangedByRequest

LookupPrivateIP(r) ==
  \/ LookupMiss(r)
  \/ LookupUnspecified(r)
  \/ LookupPod(r)
  \/ LookupFails(r)

\* Mutant: the POST to a pod that is not there is tried again until it is.
ForwardUntilUp(r) ==
  /\ req[r].pc = "forward" /\ up[req[r].pod]
  /\ req' = [req EXCEPT ![r].pc = "check"]
  /\ UNCHANGED <<unchangedByRequest, faults>>

Forward(r) ==
  /\ req[r].pc = "forward"
  /\ IF up[req[r].pod] THEN req' = [req EXCEPT ![r].pc = "check"]
                       ELSE Answer(r, "500")
  /\ UNCHANGED <<unchangedByRequest, faults>>

\* What deviceContainer.devices holds for r's device at this instant.  The
\* pod reads it three times, each time without the mutex.
Entry(r) == devices[req[r].pod][req[r].dev]

\* Mutant: the "ok" of the first read is inverted.
CheckInverted(r) ==
  /\ req[r].pc = "check"
  /\ IF Entry(r) # Nil THEN Answer(r, "empty")
                       ELSE req' = [req EXCEPT ![r].pc = "create"]
  /\ UNCHANGED <<unchangedByRequest, faults>>

\* First read.  The pod's 404 has no body, and the northbound copies the body
\* but not the code.
Check(r) ==
  /\ req[r].pc = "check"
  /\ IF Entry(r) = Nil THEN Answer(r, "empty")
                       ELSE req' = [req EXCEPT ![r].pc = "create"]
  /\ UNCHANGED <<unchangedByRequest, faults>>

\* Second read, NewPostRequest.  A nil entry makes the handler panic;
\* net/http recovers and drops the connection, so the POST fails.
Create(r) ==
  /\ req[r].pc = "create"
  /\ IF Entry(r) = Nil THEN Answer(r, "500")
                       ELSE req' = [req EXCEPT ![r].pc = "exchange"]
  /\ UNCHANGED <<unchangedByRequest, faults>>

\* Third read, Exchange: the message goes out on the connection found now.
Exchange(r) ==
  /\ req[r].pc = "exchange"
  /\ IF Entry(r) = Nil THEN Answer(r, "500")
                       ELSE req' = [req EXCEPT ![r].pc = "waiting",
                                               ![r].conn = Entry(r)]
  /\ UNCHANGED <<unchangedByRequest, faults>>

DeviceReplies(r) ==
  /\ req[r].pc = "waiting" /\ link[req[r].conn] = "open"
  /\ Answer(r, "payload")
  /\ UNCHANGED <<unchangedByRequest, faults>>

\* Mutant: a failed exchange is reported as a device that was not found.
ConnectionGoneNotFound(r) ==
  /\ req[r].pc = "waiting" /\ link[req[r].conn] # "open"
  /\ Answer(r, "404")
  /\ UNCHANGED <<unchangedByRequest, faults>>

\* Exchange returns an error: the pod answers 500 without a body.
ConnectionGone(r) ==
  /\ req[r].pc = "waiting" /\ link[req[r].conn] # "open"
  /\ Answer(r, "empty")
  /\ UNCHANGED <<unchangedByRequest, faults>>

\* So it does when no answer comes in time.
ExchangeTimeout(r) ==
  /\ req[r].pc = "waiting"
  /\ Answer(r, "empty")
  /\ UNCHANGED <<unchangedByRequest, faults>>

\* A map read while another goroutine writes the map: the read returns
\* (Check, Create or Exchange above) or the runtime ends the process with
\* "concurrent map read and map write".
RacyRead(r) ==
  /\ req[r].pc \in {"check", "create", "exchange"}
  /\ Writing(req[r].pod) # {}
  /\ CrashPod(req[r].pod)

\* The client has its answer.
Finish(r) ==
  /\ req[r].pc = "done"
  /\ req' = [req EXCEPT ![r] = NoReq]
  /\ UNCHANGED <<unchangedByRequest, faults>>

-----------------------------------------------------------------------------
HandlerStep(h) ==
  \/ UpdateSession(h)
  \/ Reply(h)
  \/ Lock(h)
  \/ AddDevice(h)
  \/ RemoveDevice(h)

Await(r) == DeviceReplies(r) \/ ConnectionGone(r) \/ ExchangeTimeout(r)

RequestStep(r) ==
  \/ LookupPrivateIP(r)
  \/ Forward(r)
  \/ Check(r)
  \/ Create(r)
  \/ Exchange(r)
  \/ Await(r)

Next ==
  \/ \E c \in Conn : Connect(c) \/ Disconnect(c)
  \/ \E c \in Conn, h \in Handler, d \in Device, login \in BOOLEAN :
       SendSession(c, h, d, login)
  \/ \E h \in Handler : HandlerStep(h) \/ LateStore(h)
  \/ \E p \in Pod : CrashPod(p) \/ Restart(p)
  \/ \E d \in Device : ExpireRoute(d)
  \/ \E r \in Request, d \in Device : Ask(r, d)
  \/ \E r \in Request : RequestStep(r) \/ RacyRead(r) \/ Finish(r)

Spec == Init /\ [][Next]_vars

\* Goroutines are scheduled, Exchange returns in the end (with an answer, with an
\* error or when its time is up), and a sync.Mutex is handed to the longest
\* waiter, which is strong fairness for Lock.  Clients, devices, which need not
\* answer, the network, Redis after a failure, crashes and restarts are free.
Fairness ==
  /\ \A h \in Handler : WF_vars(HandlerStep(h)) /\ SF_vars(Lock(h))
  /\ \A r \in Request : WF_vars(RequestStep(r))

FairSpec == Spec /\ Fairness

-----------------------------------------------------------------------------
(* Properties.                                                             *)

\* The connection on which a client's request goes out is one on which a login
\* named the very device that the client named, and ends at the pod that Redis
\* named, whatever logins, logouts, reconnects and restarts happen between the
\* northbound's lookup and the pod's three reads of deviceContainer (main.go
\* handleClientRequest).  A client that gets a payload got it over such a
\* connection.  (That the login named its own device is for the device to see to:
\* handleSessionUpdate does not verify it, handlers.go:199.)
RequestReachesItsDevice ==
  \A r \in Request :
    /\ req[r].conn # Nil =>
         /\ [dev |-> req[r].dev, conn |-> req[r].conn, login |-> TRUE] \in named
         /\ req[r].conn.pod = req[r].pod
    /\ req[r].status = "payload" => req[r].conn # Nil

\* The connections of p's process on which session requests named d.
NamedOn(d, p) ==
  {c \in Conn : /\ c.pod = p /\ link[c] \in {"open", "closed"}
                /\ \E login \in BOOLEAN :
                     [dev |-> d, conn |-> c, login |-> login] \in named}

\* d was named on no more than one connection to p's process, and Redis has not
\* been given d's route by a login that failed or a process that has ended.
Settled(d, p) ==
  /\ \A c1, c2 \in NamedOn(d, p) : c1 = c2
  /\ d \notin adrift

\* A login of d on p has stored the route and not yet written the map.
LoginPending(d, p) ==
  \E h \in Handler :
    /\ sess[h].pc \in {"reply", "map", "write"} /\ sess[h].login
    /\ DevOf(h) = d /\ PodOf(h) = p

\* A route to a pod is backed by an entry in that pod's map or by a login
\* about to make one, for a device named on one connection to it:
\* handleSessionUpdate writes Redis first and the map second both for a login and
\* for a logout, and no interleaving of these handlers leaves the route behind.
\* What does is a crash, a login that failed after its SET, and a logout that is
\* overtaken by a login on a second connection; after the first two, the next
\* login that is stored makes up for it.
RouteBacked ==
  \A d \in Device, p \in Pod :
    route[d] = p /\ Settled(d, p) => devices[p][d] # Nil \/ LoginPending(d, p)

\* After a logout has stored "::/128" and until it is answered, Redis does not
\* lead to this pod for the device, if the device was named on one connection to
\* it: nothing is sent on that connection while it waits, and an earlier login,
\* which may still have its map entry to write, stored its route before it was
\* answered.  A SET of the pod's last process that is still on its way may.
LogoutUnroutes ==
  \A h \in Handler :
    /\ sess[h].pc \in {"map", "write", "reply"} /\ ~sess[h].login
    /\ Settled(DevOf(h), PodOf(h))
    => route[DevOf(h)] # PodOf(h)

\* Every session request that names a device MySQL knows is answered or its
\* connection ends, as long as the stores work, for any number of handlers that
\* wait for deviceContainer.mutex.  (An unknown device is never answered.)
SessionAnswered ==
  \A c \in Conn, d \in Device :
    waiting[c] = d /\ Account[d] # "unknown" /\ faults = 0
      ~> waiting[c] = Nil \/ faults > 0

\* Redis leads to the pod on which c ends, that pod runs and its map holds c for d.
Reachable(d, c) ==
  /\ up[c.pod] /\ link[c] = "open"
  /\ route[d] = c.pod /\ devices[c.pod][d] = c

\* The message of a client that asks for a device that is and stays reachable
\* goes out to it, whatever the pod handles for other devices meanwhile, and
\* whatever has crashed or failed before, once failures of the stores are over.
StableRouteDelivers ==
  \A r \in Request, d \in Device, c \in Conn :
    [](/\ req[r].pc = "lookup" /\ req[r].dev = d
       /\ [](Reachable(d, c) /\ faults = MaxFaults)
       => <>(req[r].conn = c))
=============================================================================
