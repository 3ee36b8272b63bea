---------------------------- MODULE RoutingBroker ----------------------------
(***************************************************************************)
(* Routing implements Broker: Redis, the pods' maps, the handlers and the  *)
(* northbound's requests, seen from outside.                               *)
(***************************************************************************)
EXTENDS Routing

CallState(pc) ==
  CASE pc = "idle" -> "idle"
    [] pc = "done" -> "answered"
    [] OTHER       -> "pending"

\* What the client of r sees, and the connection its message went out on.
CallOf(r) == [state  |-> CallState(req[r].pc), dev |-> req[r].dev,
              via    |-> req[r].conn,          answer |-> req[r].status]

Calls == [r \in Request |-> CallOf(r)]

Offered == {o \in [dev : Device, conn : Conn] :
              [dev |-> o.dev, conn |-> o.conn, login |-> TRUE] \in named}

\* A pod holds a connection for d when its map has it under d.
Held == {o \in [dev : Device, conn : Conn] : devices[o.conn.pod][o.dev] = o.conn}

Client == INSTANCE Broker WITH call <- Calls, offered <- Offered, held <- Held

\* Whatever runs concurrently, crashes or goes stale between the northbound's
\* lookup and the pod's answer, a client sees no more than Broker allows: its
\* message goes out at most once, over a connection that a pod's map holds then for
\* the device it named because a login on it did, a payload comes from a message
\* that went out, and a 404 means that none did (both handleClientRequest handlers).
ImplementsBroker == Client!Spec

\* And every client is answered, whether its device replies or not, and whatever
\* becomes of the connection, of the pod and of what Redis says while it waits,
\* because the northbound's POST fails with the pod and Exchange returns in the end.
AnswersEveryCall == Client!EveryCallAnswered
=============================================================================
