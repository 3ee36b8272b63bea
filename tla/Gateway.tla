------------------------------ MODULE Gateway ------------------------------
(***************************************************************************)
(* One gateway pod: Routing, whose connections simply end, together with   *)
(* Sessions, which says when the pod ends one and what that does to the    *)
(* process.  NewCoapServer ties the two: the server calls addSession for a *)
(* connection that carries handleSessionUpdate's requests and the messages *)
(* of handleClientRequest, and its end wakes both removeSession and an     *)
(* Exchange that waits.                                                    *)
(*                                                                         *)
(* A step of the composition is a step of both components or of one.       *)
(***************************************************************************)
EXTENDS Routing

CONSTANTS
  Here,             \* the pod
  Addr, LocalAddr,  \* local addresses, as in Sessions
  Retry             \* keepaliveRetry

ASSUME HereAssumption == Pod = {Here}
ASSUME SessionsAssumption == LocalAddr \in [Conn -> Addr] /\ Retry \in [Conn -> Nat]

VARIABLES
  net,  \* link of Sessions: an ended connection has still to be removed
  alive, sessions, mutex, doneChan, keepalive, timeouts, overlapped

S == INSTANCE Sessions WITH up <- up[Here], link <- net, None <- Nil

sessionVars == <<net, alive, sessions, mutex, doneChan, keepalive, timeouts,
                 overlapped>>
podVars == <<vars, sessionVars>>

PodInit == Init /\ S!Init

-----------------------------------------------------------------------------
(* Steps of both.                                                          *)

\* The server accepts a connection: NotifySessionNewFunc.
Accept(c) == Connect(c) /\ S!AddSession(c)

\* The peer or the pod's Keepalive ends an open connection.  An Exchange on it
\* fails, and NotifySessionEndFunc is due.
End(c) ==
  /\ Disconnect(c)
  /\ S!PeerCloses(c) \/ S!PingTerminates(c)

\* The process of both ends, by the panic of removeSession or for another reason.
Crash == CrashPod(Here) /\ S!ProcessEnds
RacyCrash(r) == RacyRead(r) /\ S!ProcessEnds

Panic(c) == CrashPod(Here) /\ S!PanicRemove(c)

Start == Restart(Here) /\ S!Restart

-----------------------------------------------------------------------------
(* Steps of Sessions alone: the peer's silence, removeSession and run().   *)

SessionStep(c) ==
  /\ UNCHANGED vars
  /\ \/ S!PeerChanges(c) \/ S!LockRemove(c) \/ S!RemoveSession(c)
     \/ S!KeepaliveDone(c) \/ S!KeepaliveTimer(c)
     \/ S!PingReturns(c) /\ UNCHANGED net

-----------------------------------------------------------------------------
(* Steps of Routing alone.  A device that is silent neither logs in or out *)
(* nor replies.                                                            *)

Send(c, h, d, login) ==
  /\ alive[c] /\ SendSession(c, h, d, login)
  /\ UNCHANGED sessionVars

Handle(h) == HandlerStep(h) /\ UNCHANGED sessionVars

Late(h) == LateStore(h) /\ UNCHANGED sessionVars

\* What the goroutines that serve r do by themselves.  Exchange returns by itself
\* when its connection has ended ...
Serve(r) ==
  /\ \/ LookupPrivateIP(r) \/ Forward(r) \/ Check(r) \/ Create(r) \/ Exchange(r)
     \/ ConnectionGone(r)
  /\ UNCHANGED sessionVars

\* ... and before that for the device's reply or when its own time is up.
Return(r) ==
  /\ (DeviceReplies(r) /\ alive[req[r].conn]) \/ ExchangeTimeout(r)
  /\ UNCHANGED sessionVars

ClientStep(r) ==
  /\ (\E d \in Device : Ask(r, d)) \/ Finish(r)
  /\ UNCHANGED sessionVars

Expire(d) == ExpireRoute(d) /\ UNCHANGED sessionVars

PodNext ==
  \/ \E c \in Conn : Accept(c) \/ End(c) \/ SessionStep(c)
  \/ \E c \in Conn, h \in Handler, d \in Device, login \in BOOLEAN :
       Send(c, h, d, login)
  \/ \E h \in Handler : Handle(h) \/ Late(h)
  \/ \E r \in Request : Serve(r) \/ Return(r) \/ ClientStep(r) \/ RacyCrash(r)
  \/ \E d \in Device : Expire(d)
  \/ Crash \/ Start

PodSpec == PodInit /\ [][PodNext]_podVars

\* Fairness of Routing and of Sessions, but for an Exchange that waits on an open
\* connection: the device and the network owe nothing, and go-coap's own timeout is
\* not counted on.
KeepaliveStep(c) ==
  \/ End(c) /\ S!PingTerminates(c)
  \/ SessionStep(c) /\ S!PingReturns(c)

PodFairness ==
  /\ \A h \in Handler : WF_podVars(Handle(h)) /\ SF_podVars(Lock(h) /\ Handle(h))
  /\ \A r \in Request : WF_podVars(Serve(r))
  /\ \A c \in Conn :
       /\ SF_podVars(SessionStep(c) /\ S!LockRemove(c))
       /\ WF_podVars(SessionStep(c) /\ S!RemoveSession(c)) /\ WF_podVars(Panic(c))
       /\ WF_podVars(SessionStep(c) /\ (S!KeepaliveDone(c) \/ S!KeepaliveTimer(c)))
       /\ WF_podVars(KeepaliveStep(c))

FairPodSpec == PodSpec /\ PodFairness

-----------------------------------------------------------------------------
(* Properties.                                                             *)

\* A message that waits for its answer on an open connection is watched: a
\* Keepalive that nobody told to end will notice when the device falls silent.
\* (Not when connections share a local address: the end of one may have told the
\* Keepalive of another, as removeSession finds it by that address.)
WaitsAreWatched ==
  \A r \in Request :
    LET c == req[r].conn IN
    req[r].pc = "waiting" /\ link[c] = "open" /\ ~overlapped[c]
      => keepalive[c] # "none" /\ doneChan[c] = 0

\* The client of a device that has fallen silent is answered, if it stays silent,
\* because the Keepalive ends the connection, Exchange fails and handleClientRequest
\* answers 500: with keepaliveRetry at most 1, and without a timeout of Exchange.
SilentDeviceAnswered ==
  \A r \in Request, c \in Conn :
    Retry[c] <= 1 =>
      (req[r].pc = "waiting" /\ req[r].conn = c /\ ~alive[c] /\ ~overlapped[c]
         ~> req[r].pc # "waiting" \/ alive[c] \/ overlapped[c])
=============================================================================
