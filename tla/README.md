# A TLA+ model of coap-gateway

coap-gateway connects OCF devices, which speak CoAP over one long-lived TCP
connection, to HTTP clients. This directory holds TLA+ modules translated from
its Go source, the configurations with which TLC checks them, and theorems
about them that TLAPS proves.

## 1. Inventory

The system is a set of identical *gateway pods* (`src/pkg/app/coap-interface`), a
*northbound interface* (`src/cmd/northbound-interface`) and a *registry*
(`src/pkg/registry`) that both use: MySQL for users, mediators, devices,
clients and tokens, and Redis for "which pod holds this device".

| Component | State | Operations | Modelled in |
|---|---|---|---|
| Message routing | `deviceContainer.devices` of each pod, the Redis keys | `handleSessionUpdate`, `UpdateSession`, `LookupPrivateIP`, the northbound's and the pod's `handleClientRequest` | `Routing`, `Broker` |
| Connections and keepalive | `clientContainer.sessions` and its mutex, each `Keepalive`'s `doneChan` and `timeoutCount` | `addSession`, `removeSession`, `Done`, `Terminate`, `run` | `Sessions` |
| One pod, both of these | the connections and the process they share | `NewCoapServer`'s callbacks | `Gateway` |
| Accounts, tokens, resources | tables user, mediator, token, device, client | `RegisterUser`, `ProvisionMediator`, `ProvisionDevice`, `ProvisionClient`, `RegisterDevice`, `RegisterClient`, `RefreshToken`, `PublishResource` | `Registry`, `Credentials` |
| Table creation | which tables exist | `InitDB`, `create*Table` | `Tables` |
| Start of the northbound | its `dbconfig` | `main` | `Northbound` |
| Start of a pod | `Server`'s settings, the certificate pools | `main`, `NewServer`, `setupTLS`, `VerifyPeerCertificate`, `time.Second * waitTime` | `Settings` |
| Example device | none | `startSession`, `logHandler` | the sender of `Routing`'s session requests |
| Payload conversion (CBOR, JSON) | none | library calls | not modelled |
| Not implemented or never called | none | `handleDelete`, `handleResourceDiscovery`, `DeleteUser`, `DeleteDevice`, `DeleteClient`, `FindDevice`, `DefaultHandler`, `ticker` | not modelled |
| Kubernetes manifests | none | deployment data | environment of the models |

How they interact: a device opens a TCP connection to some pod, which go-coap
announces by `NotifySessionNewFunc` (`Sessions`). It redeems a token that a
mediator provisioned for it (`Registry`), logs in with POST `oic/sec/session`,
and the pod writes its own address to Redis and the connection into its map
(`Routing`). A client POSTs `/:deviceUUID/:href` to the northbound, which looks
the device up in Redis and forwards the request to the pod, which looks it up
in its map and exchanges a CoAP message over the connection. Before any of
this, each replica of the northbound creates the tables (`Northbound`, `Tables`)
and each pod reads its environment (`Settings`).

What is hard here:

- A device is who its payload says it is: no handler compares the id with the
  connection or with the token (TODOs at handlers.go:199 and
  mysqlredisregistry.go:296).
- A store operation that returns an error may have taken effect.
- Redis and the map are two stores, written one after the other by handlers of
  which several run at once, and read by requests in between. The map is read
  three times in one handler without the mutex that its writers hold.
- Nothing that happens to a connection or a pod reaches Redis: disconnects,
  crashes and restarts leave routes behind, and an hour takes good ones away.
- `clientContainer` is keyed by the pod's own address, which connections may
  share, and tells a keepalive goroutine to end over a channel of capacity one
  with its mutex held.
- A request that waits for a silent device depends on the keepalive of its
  connection, which another connection's end may stop.
- Registry methods are several SQL statements without a transaction, and table
  creation goes on after an error.
- Settings pass through texts, pointers and two units of time.

Each of these is listed at its line under "hazards" in `PROJECT.json`, with the
properties that concern it. The properties that make each component correct:

- *Routing*: a request goes out once, on a connection on which a login named its
  device; a route is backed by a map entry; a logout takes the route away; session
  requests and clients are answered; a device that stays reachable is reached.
- *Sessions*: the container never blocks on `Done`; an end removes the right
  session and never panics; an open connection is watched; keepalive goroutines
  end with their connection; a silent peer is disconnected.
- *Gateway*: what each promises holds with the other; a request that waits is
  watched, and answered if its device falls silent.
- *Registry*: each token row belongs to one device or client; the pair in a row
  is one that was issued together; a one-time token is redeemed once; a string
  opens one row; statements that interleave and fail look like one instant.
- *Tables, Northbound*: whoever listens has the tables it needs.
- *Settings*: each setting is the one that was given, in its unit; TLS when asked
  for; certificates chain to a root.

## 2. Modules

```
Routing  <- RoutingBroker -> Broker            MCRouting (TLC)
   |           RoutingProofs <- RouteProofs, BrokerProofs (TLAPS)
Gateway -> Sessions                            MCGateway, MCSessions (TLC)
   |           SessionsProofs, GatewayProofs (TLAPS)
Registry <- RegistryCredentials -> Credentials MCRegistry, RegistryProofs
Tables   <- Northbound                         MCTables, MCNorthbound, TablesProofs
Settings                                       MCSettings, SettingsProofs
```

Operators with a comment that begins with "Mutant:" are wrong versions of the
operator below them; a property is only kept if TLC finds it violated when the
mutant replaces the operator.

### Routing

| Variable | In the code |
|---|---|
| `up` | the pod's process |
| `link` | the TCP connection of a `ClientCommander` |
| `waiting` | the device id in the session request on a connection that has no response yet |
| `route` | the Redis key of a device: absent, `::/128`, or a pod address |
| `devices` | `deviceContainer.devices` of each pod |
| `sess` | the running `handleSessionUpdate` goroutines and their place |
| `req` | the running client requests, first in the northbound, then in the pod |
| `crashes`, `faults` | counters that bound the environment |
| `named` | history: the session requests received, with the connection each came on |
| `adrift` | history: devices whose route was stored by a login that failed, or by a process that has crashed since |

Who a device is. The id in a session request is the one in its payload, any id on
any connection, several in turn included: `SendSession` takes it as the code does,
`devices` files the connection under it, and `named` remembers what was said. The
properties speak of "a connection on which a login named the device". That it was
the device itself is an assumption a reader may add and the code does not check.

A login is `UpdateLogin` (or `UpdateNoTTL`, `UpdateUnknown`, `UpdateFails`), `Reply`,
`Lock`, `AddDevice`; a logout is `UpdateLogout`, `Lock`, `RemoveDevice`, `Reply`:
the code answers a login before it writes the map and a logout after. A client
request is `Ask`, `LookupPrivateIP`, `Forward` (northbound), then `Check`, `Create`,
`Exchange` (the three reads of the map) and `DeviceReplies`, `ConnectionGone` or
`ExchangeTimeout` (pod). `RacyRead` is the outcome of a map read during a map
write in which the Go runtime ends the process; the other outcomes are the
normal steps, which stay enabled. What MySQL knows about a device is the
constant `Account`: a login looks at it and changes nothing.

A store operation that fails (`UpdateFails`) ends the handler before it writes the
map. Its SET may have been sent all the same: the slot then stays in "late" until
`LateStore` makes it take effect, at once, after other handlers, after the end of
the pod, or never. That leaves a route without an entry, as a crash does. Such a
route is `adrift`, and `RouteBacked` speaks of it again once another login of the
device has been stored.

The northbound copies the body of the pod's answer and not its code, so that a
pod's 404 or 500 reaches the client as 200 with an empty body: the status
"empty". A route's hour may end at any time (`ExpireRoute`), also while the
device is connected and logged in. Both are what the code does; no document
says otherwise, and the properties speak of them as they are.

The environment: session requests come one at a time on a connection (as
`startSession` of the example device sends them) and on any number of connections;
connections end at any time; a message may stay without a reply for ever; a pod crashes (`log.Fatal`, the runtime, the
cluster) and restarts with the same address and an empty map.

### Broker and RoutingBroker

`Broker` is what the northbound and the pods together promise a client, without
Redis, maps, processes or goroutines: a call has a state, the device it names,
the connection its message went out on and an answer; `offered` are the pairs of
device and connection that logins named, and `held` those by which pods reach
devices now. `RoutingBroker` gives the mapping: a call is a request (`CallOf`),
`Offered` are the logins in `named`, and `Held` the entries of the maps. Its property `ImplementsBroker` is the specification of `Broker` under
that mapping, `AnswersEveryCall` its liveness.

### Sessions

`link[c]` is a slot for an accepted connection, used again when it is free:
"open", "ending" (go-coap is about to call `NotifySessionEndFunc`) or "none". `LocalAddr`
is a constant: which connections have the same local end is a matter of how
the pod listens and is reached, so every assignment is allowed. `Retry` is the
`keepaliveRetry` of the server that accepts on a slot.
`AddSession` is `addSession` with `NewSession` and `NewKeepalive`; `LockRemove` and
`RemoveSession` or `PanicRemove` are `removeSession`; `KeepaliveDone`, `KeepaliveTimer`,
`PingAnswered`, `PingTerminates`, `PingTimesOut` and `PingFails` are the paths
through one turn of `run()`; `Killed` is the end of the process for a reason
outside of this component. A timer may fire at any time (how long it waits is
`Settings`' subject). `overlapped` remembers whether a connection ever shared its
address.

### Gateway

The composition for one pod. `Routing` lets connections end by themselves,
`Sessions` knows no requests; here both see one set of connections and one
process. `Accept` and `End` are steps of both: the end of a connection, by its peer
or by a keepalive's `Terminate`, makes `removeSession` due and fails an `Exchange` that
waits. `Panic`, `Crash` and `RacyCrash` end both, `Start` starts both. The remaining
actions are steps of one component. A silent device sends and answers nothing.
That each step is one of `Routing` or of `Sessions`, or of both, is how the module is
written and no result; its properties are those that neither component has alone.
`Serve` is what the goroutines of a request do by themselves, `Return` what ends an
`Exchange` on an open connection.
`Routing` knows each connection once and `Sessions` reuses slots, so `net[c]` has
"ending" where `link[c]` is closed.

### Registry

`token` is the table token with its id as the position, `owner` the tables device
and client, `user` and `mediator` the usernames with a row, `published` the device
rows with resources. `job[w]` is the request a goroutine serves between two SQL
statements, `told` the answers that arrived, `lost` those that never will,
`orphaned` the rows of provisionings that failed half-way. The actions are the
statements: `RegisterUser`, `SelectUser` and `InsertMediator`; `SelectMediator`, `InsertToken`
and `InsertOwner`; `RegisterDevice` or `RegisterClient` (the SELECT) and `UpdateToken`;
`RefreshToken`; `PublishResource`; and `Reply`. `InsertOwnerFails` is the failure after
which `handleProvisionDevice` sends the token all the same; `Drop` ends a request
(an error return, a panic that net/http recovers, an answer that cannot be
sent), `PodDies` and `RegisterUnknown` end those of a pod (`RegisterDevice` of a UUID
without a row is `log.Fatal`). Requests that change nothing are not steps.
Random strings are the numbers of their generation: that they are unique is
assumed, as the code does.

### Credentials and RegistryCredentials

`Credentials` is what the registry promises about tokens, without SQL, goroutines,
users and failures: a row of the table token is a credential, a pair of strings
(`current`) that is made (`Grant`) and changed (`Exchange`, `Refresh`) in one instant, with
new strings; every answer has the pair of that instant, and `Exchange` is for one
who showed the access token of that credential while it was current (`Show`).
Requests and answers may be lost (`Lose`). That one token may be shown twice
before it is exchanged is what the code does; `OneTimeToken` is about that.
`RegistryCredentials` gives the mapping: a request has been shown its token between
SELECT and UPDATE (`Shown`), and an answer is on its way from the statement that
stores its pair (`OnTheirWay`). `ImplementsCredentials` is the specification of
`Credentials` under that mapping. `OneRowPerString` is stated of `Credentials`: no two
credentials are ever in the table or in answers with a string in common.

### Tables and Northbound

`at[r]` is the statement of `InitDB` that replica `r` is at. `Create` is a CREATE TABLE
IF NOT EXISTS that succeeds, `CreateRefused` one whose foreign keys name a missing
table, `CreateFails` one that meets a fault before or after it took effect.
`AfterError` is what the code does next: `log.Fatal` for the mediator table, a line
in the log for every other, which is why `InitDB` returns nil whatever failed.
`Northbound` adds what `main` does before `InitDB`: `Process` (envconfig), `Open` and
`Ping`. Its `Settable` is empty because the fields of `dbconfig` are not exported.

### Settings

`env` is the pod's environment, `given` the pointers that the loops over
`os.Environ()` set, `server` the settings, `roots` and `intermediates` the two
certificate pools, `admitted` the certificates clients were let in with. A text is
a value; `Number` says what `strconv.Atoi` returns for it and `Cut` what
`strings.Split(e, "=")` leaves of it. An int64 is a function from byte positions
to bytes: `Times` is the product that wraps, written in bytes because TLC's own
integers have 32 bits: `Columns` are the sums of a long multiplication and `Carry`
makes bytes of them. `Wait` is `time.Second * waitTime` of keepalive.go:42. `Trusted`
is what `c.Verify` accepts as issuers, round by round; no more rounds than there
are certificates are needed, which is why `Cert` is assumed to be finite.

## 3. What TLC checks

Deadlock is checked except where a `.cfg` says why not: behaviours of `Registry`
end at the bound on tokens, and replicas of the northbound end when they
listen. Bounds on what the code does not bound are `MaxCrashes`, `MaxFaults` and
`MaxRandom`, used in guards; connections are the records of `Conn`.

| Run | Instance | Shows |
|---|---|---|
| `moving` | 1 device, 2 connections to one pod and 1 to another, 2 handlers, 1 crash, 1 failed store operation, no client | `RouteBacked`, `LogoutUnroutes` |
| `shared` | 2 devices, either named on either of 2 connections to one pod, one of them only provisioned; 1 handler, 1 request, 1 crash | `TypeOK`, `RequestReachesItsDevice` |
| `progress` | 2 devices named on 1 connection, one unknown to MySQL; 2 handlers, 1 request, 1 crash, 1 failed store operation, fairness | `ImplementsBroker`, `SessionAnswered`, `StableRouteDelivers`, `AnswersEveryCall` |
| `sessions` | 3 connections, 2 local addresses, keepaliveRetry 1, 2 and 0, fairness | `TypeOK`, `DoneNeverBlocks`, `SoloKeepsSession`, `SoloMonitored`, `KeepaliveEnds`, `SessionRemoved`, `ImpatientServerCloses` |
| `gateway` | 1 device, 1 connection, 1 handler, 1 request, 1 crash, 1 failed store operation, keepaliveRetry 1, fairness | `WaitsAreWatched`, `SilentDeviceAnswered` |
| `registry_races` | 2 goroutines of each server, 1 user, 1 UUID of a device and a client, 5 tokens, 1 fault | `TypeOK`, `TokenRowsOwned`, `PairsAreIssued`, `OneRowPerString`, `ImplementsCredentials` |
| `tables` | 3 replicas, 4 faults | `TypeOK`, `CleanCallCompletes`, `ListensWithAccounts` |
| `settings` | 150 environments, 6 certificates (a chain of four, one issued by itself that is no authority, a stranger), 3 directories | `TypeOK`, `SettingsAsGiven`, `WaitsInSeconds`, `TLSAsAsked`, `AdmittedChain` |

Why the bounds are enough. Two handlers, two pods and two devices are the least
with which the stores can disagree between two actors; a third handler would
only repeat the interleaving of two, since a handler touches one key and one
map entry. The three runs of `Routing` share these out: handlers that overlap on two
pods and two connections are in `moving`, where no client is needed because clients
write neither store; one connection that is filed under two ids, and two
connections under one, are in `shared`, with one handler at a time next to a
request; requests next to overlapping handlers, with their locks and races, are in
`progress`. Two of the connections of `sessions` share an address and belong to
servers with different retries, the third shares with nobody. One connection
is what a waiting request of `gateway` depends on.
Five strings are a provisioning and two registrations of its token that race (1 + 2
+ 2), or a registration and two refreshes. Three replicas and four faults let
each replica fail, and one fail again. The environments of `settings` have every
key set and unset next to every other, a number that is invalid, one that is
negative and one that is out of range, a value with "=" in it, and directories
without a root and that do not exist. Every invariant of these runs, and every
refinement, is also proved, without bounds (section 4).

`MCSettings` has two checks of the arithmetic itself as assumptions, which TLC
evaluates: `Times` agrees with integers where TLC's integers reach, and the wait
that follows from the default `time.Hour` is 2884905626637434880 nanoseconds,
91 years. A keepalive therefore works only where `KEEPALIVE_TIME` is set. Both are
also theorems (section 4), the first for all numbers.

Four runs refute what the repository says of itself:

| Run | Says | Does |
|---|---|---|
| `v_panic` | server_test.go:96, a client's closing does not end the server | the second end of two connections with one local address dereferences nil |
| `v_silent_peer` | server.go:66, the retries are counted until the peer is declared gone | the count is reset after each timeout, so with more than one retry it never gets there |
| `v_one_time` | mysqlredisregistry.go:130, a one-time token | two registrations that read it before either updates the row are both answered |
| `v_northbound` | README.md:31, the containers spin up in minutes | envconfig cannot set fields that are not exported, and every start of the northbound ends in `log.Fatal` |

`ImpatientServerCloses` is the part of the keepalive's promise that does hold: with
at most one retry a silent peer is disconnected. `Tables` starts where its caller
has an open database, so that it also says what the code would do once the
field names are put right.

### Fairness

- `Routing`: weak fairness of each handler's and each request's next step, because
  Go schedules every goroutine; strong fairness of `Lock`, because `sync.Mutex` hands
  itself to the longest waiter. For a request that waits, the next step is that
  `Exchange` returns: with a reply, with an error, or because go-coap's own time is
  up, which is outside of `src/` and assumed. No step of a device is forced.
  Devices, clients, the network, crashes, restarts, late SETs and expiry have no
  fairness.
- `Sessions`: weak fairness of `RemoveSession`, `PanicRemove`, of a waiting keepalive
  (its timer fires) and of a waiting ping (`Ping` returns within a second); strong
  fairness of `LockRemove` for the mutex. Peers have none. With the default
  durations the timer takes decades: the liveness results are for durations
  that were set.
- `Gateway`: that of both, but a request is only forced (`Serve`) to go on as far as
  `Exchange`, and from there when its connection has ended: neither a reply nor a
  timeout of `Exchange` is counted on, so that `SilentDeviceAnswered` rests on the
  keepalive alone. (Timeouts do happen in the model.)
- `Northbound`: weak fairness of a replica's next step; Kubernetes starts an ended
  container again and MySQL answers. Faults and kills have none. `Tables` has no
  fairness: what it would bring about needs a `main` that gets as far as `InitDB`.

## 4. What TLAPS proves

For all values of the constants, from the named assumptions in the modules, and
from nothing else.

- `TypeCorrect`: `TypeOK` of `Routing`. Inductive with `Busy` (a running handler has a
  connection that was opened) and `Asked` (a running request names a device and,
  after the lookup, a pod).
- `RequestsReachTheirDevice`: needs `MapSound` (an entry of a pod's map is a
  connection to that pod on which a login named the entry's key), `NamingOf` (a
  running handler works on what was named on its connection) and `Unsent` (a
  request has no connection before the third read). Crashes, restarts and the races
  of the unlocked reads do not touch these, and nothing is assumed about who names
  whom.
- `RoutesAreBacked` and `LogoutsUnroute`: need that handlers of one connection follow
  one another as far as their answers go. `Awaited` ties a handler that has not
  answered to the connection that waits for it, or that has ended, and `OneAtATime`
  says there is one such handler for a connection. Without them a login could slip
  in after a logout's Redis write. `Settled` says what they leave out: second
  connections, and routes stored by a handler that has failed or by the pod's last
  process, which no entry need back.
- `RoutingImplementsBroker`: initial states map to initial states, and each step of
  `Routing` maps to a step of `Broker` or a stutter. A session request that logs in is
  `Login`, lookups and the first two reads are stutters, the third read is `Send`,
  `AddDevice` is `Hold`, and a logout and a crash are `Break`. The invariant is that of
  `RequestsReachTheirDevice` with `IdleClean`: a free slot holds nothing of its last
  request.
- `SessionsTypeCorrect`, `DoneDoesNotBlock`, `SoloConnectionsKeepTheirSession` and
  `SoloConnectionsAreMonitored`: the invariant `TableInv` says whose the entries are
  (`EntryOwned`), that connections which share an address know it
  (`SharersOverlap`), and that the mutex's holder is ending (`HolderEnds`).
- `PanicsNeedSharing`: whatever the local addresses, one for all included, a step
  in which `removeSession` dereferences nil is the end of a connection that was open
  together with another of its address. Run `v_panic` shows such a step.
- `PatientServersNeverTerminate`: with a `keepaliveRetry` of 2 or more no ping ever
  leads to `Terminate`, because `timeoutCount` is 0 whenever `run()` waits or pings
  (`NothingCounted`). The finding of `v_silent_peer` is thus not one of its instance.
- `WaitingExchangesAreWatched`: `Linked` (a connection that `Routing` sees open is open
  for `Sessions`) carries `SoloMonitored` over to requests.
- `GatewayImplementsBroker`, `RoutesHoldInThePod` and `SessionsHoldInThePod`: what each
  component was proved to promise, in the pod, where keepalives end connections and
  panics end processes. They rest on two lemmas, `PodIsRouting` and `PodIsS`, that read
  the composition off its definition.
- `PatientPodsWaitForPeers`: a connection of a server with a `keepaliveRetry` of 2 or
  more only ends by its peer or with the process. `SilentDeviceAnswered`, which does
  without a timeout of `Exchange`, therefore needs its hypothesis.
- `TablesTypeCorrect`, `CleanCallsComplete`, `ListenersHaveAccounts`: `Progress` says what a
  call leaves behind between two of its statements, and `Closed` that a table which
  exists has the tables it refers to. A clean call's statements are never refused
  because each refers to earlier ones only.
- `NorthboundNeverListens` and `NorthboundNeverSpinsUp`: with any number of replicas,
  starts and faults, `main` stays before `Ping` and no table is ever created. The
  second is the negation of `SpinsUp`: run `v_northbound` shows a fair behaviour that
  does not satisfy it, the theorem that none does.
- `SettingsTypeCorrect`, `SettingsAreGiven`, `DurationsAreSeconds`, `NeverPlainWhenAskedForTLS`
  and `ClientsChainToARoot`: `GivenOK` relates the pointers to the environment (a key the
  loop has passed has what the environment says), `Stages` says how far `NewServer` and
  `setupTLS` have come, `ServerOK` what the settings are once `NewServer` has set them,
  and `ClientsOK` that no set of certificates without a root has a member that was let
  in. A certificate is trusted by a chain of any length; `TrustedOf` follows it.
- `SecondsDoNotWrap` and `DefaultWaitIsNinetyOneYears`: up to 9223372036 seconds the wait
  is exactly what `KEEPALIVE_TIME` says, and the default is 91 years. They rest on
  `CarryOf` (carrying keeps the value modulo 2^64), `LongMultiplication` (the columns
  have the value of the product) and so `TimesOf`: `Times` multiplies modulo 2^64.
- `RegistryTypeCorrect`, with `JobsFit` (what a request carries from statement to
  statement names rows that exist).
- `TokenRowsHaveOneOwner`: `ClaimInv` says that the owners' rows, the provisionings under
  way and those that failed claim disjoint sets of token rows which cover the
  table, so that a row's claims are exactly one.
- `PairsComeFromOneAnswer`: an UPDATE gives a row a pair that its own request is
  about to answer with, and an answer on its way ends up told or lost.
- `OnlyARaceRedeemsTwice`: `OneTimeToken`, which run `v_one_time` refutes, holds in every
  behaviour in which no two registrations of one token are between their SELECT and
  their UPDATE at once (`NotTwice`; registrations that follow one another satisfy it).
  `Once` says that a token somebody was answered for, or is about to be, is in no row
  any more and cannot be redeemed by another; `Fresh` that no string comes back.
- `RegistryImplementsCredentials`: `InsertToken` is `Grant`, the SELECT of a registration
  is `Show`, its UPDATE `Exchange`, `RefreshToken` is `Refresh`, `Reply` is `Deliver`, and
  requests that are dropped, or whose pod dies, are `Lose`; everything else is not
  seen there. The invariant `CredInv` says that each string in a row, in a job or in
  an answer has been generated, so that the next one is nobody's. What one request
  contributes to `Shown` and `OnTheirWay` is the lemma `OneMoves`.
- `StringsOpenOneRow`: `OneRowPerString`, which is inductive for `Credentials` (`HeldStep`)
  and is carried over by the refinement. It answers the question in the comment at
  mysqlredisregistry.go:335: refresh tokens are unique as long as random strings are,
  also among those of rows that have since been overwritten.

Recursive functions and sums over bytes are within reach although the library's
induction theorems take an operator as a parameter: `SetInduction` states the
principle for a set of natural numbers, from the well-foundedness of `<`, and
`RecursionExists` gives from it that a recursive definition has the value its
equations say.

Only model-checked are the liveness properties (`SessionAnswered`, `StableRouteDelivers`,
`AnswersEveryCall`, `KeepaliveEnds`, `SessionRemoved`, `ImpatientServerCloses`,
`SilentDeviceAnswered`), because the provers have no rule for
the ENABLED in a fairness condition, and the counterexamples of the four runs that
refute something.

## 5. Not modelled

- Malformed payloads, other methods, a missing content format option, and the
  code that continues after having written an error for one. It answers once
  more and changes nothing, or updates no row.
- Values of `expires_in`; only whether there is one matters, in `Account`.
- Which goroutine go-coap runs a handler in: one for each message is assumed, and
  that nothing recovers a panic in the callbacks.
- The time at which a certificate is valid, and which names of networks net.Listen
  accepts.
- The mediator's token that `provisionMediator` sends behind the status 500 after its
  INSERT has failed (northbound handlers.go:163-173): the string is in no row and
  opens nothing, and `Registry` (`Drop`) counts it as no answer.
- An empty answer of `tokenrefresh`: with an unknown refresh token, `RefreshToken`
  returns empty strings and no error, and both servers answer with success.
- CBOR and JSON; `DefaultHandler` and `ticker`, which nothing calls; the health check,
  which has no state; the stubs `handleDelete`, `handleResourceDiscovery`, `DeleteUser` and
  `FindDevice`; `DeleteDevice` and `DeleteClient`, which no handler calls.

## 6. Plan

1. `Registry` and `Routing` composed over `Account`: a registration between two logins of
   a device changes what its next login does.
2. An abstract specification of `Sessions` (a connection's life as its peer sees it),
   which `Sessions` implements.
