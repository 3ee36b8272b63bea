------------------------------- MODULE Broker -------------------------------
(***************************************************************************)
(* What the northbound interface and the gateway pods together promise to  *)
(* a client that posts to /:deviceUUID/:href, without Redis, processes or  *)
(* goroutines: the message goes out at most once, only over a connection   *)
(* that a pod holds at that moment for the device the client named, the    *)
(* client gets a payload only for a message that went out and a 404 only   *)
(* for one that did not, and every client gets an answer.  A pod holds a   *)
(* connection for the device that a login on it named, and takes the       *)
(* login's word for it.                                                    *)
(***************************************************************************)
CONSTANTS
  Request,  \* requests of clients that are being served
  Device,
  Conn,     \* connections: records with a field pod
  Nil

VARIABLES
  call,     \* call[r]: its state, the device named, the connection used, the answer
  offered,  \* the logins so far: which device, on which connection
  held      \* those by which pods reach devices now

vars == <<call, offered, held>>

Call(s, d, v, a) == [state |-> s, dev |-> d, via |-> v, answer |-> a]

NoCall == Call("idle", Nil, Nil, "none")

Init == call = [r \in Request |-> NoCall] /\ offered = {} /\ held = {}

Replies == {"404", "500", "empty", "payload"}

Pending(r) == call[r].state = "pending"

\* A client names a device.
Ask(r, d) ==
  /\ call[r] = NoCall
  /\ call' = [call EXCEPT ![r] = Call("pending", d, Nil, "none")]
  /\ UNCHANGED <<offered, held>>

\* A login on c names d.
Login(d, c) ==
  /\ offered' = offered \cup {[dev |-> d, conn |-> c]}
  /\ UNCHANGED <<call, held>>

\* A pod follows a login: it holds at most one connection for a device.
Hold(o) ==
  /\ o \in offered
  /\ held' = {k \in held : k.dev # o.dev \/ k.conn.pod # o.conn.pod} \cup {o}
  /\ UNCHANGED <<call, offered>>

\* The message goes out, once, over a connection held for the device.
Send(r) ==
  /\ Pending(r) /\ call[r].via = Nil
  /\ \E o \in held :
       /\ o.dev = call[r].dev
       /\ call' = [call EXCEPT ![r] = Call("pending", @.dev, o.conn, @.answer)]
  /\ UNCHANGED <<offered, held>>

Answer(r, a) ==
  /\ Pending(r)
  /\ a = "404" => call[r].via = Nil
  /\ a = "payload" => call[r].via # Nil
  /\ call' = [call EXCEPT ![r] = Call("answered", @.dev, @.via, a)]
  /\ UNCHANGED <<offered, held>>

\* Connections are given up, by a logout or with the pod that held them, and
\* pending calls may fail with that.
Break(failed) ==
  /\ held' \subseteq held /\ UNCHANGED offered
  /\ \A r \in failed : Pending(r)
  /\ call' = [r \in Request |->
                IF r \in failed
                THEN Call("answered", call[r].dev, call[r].via, "500")
                ELSE call[r]]

Finish(r) ==
  /\ call[r].state = "answered"
  /\ call' = [call EXCEPT ![r] = NoCall]
  /\ UNCHANGED <<offered, held>>

Next ==
  \/ \E r \in Request : Send(r) \/ Finish(r)
  \/ \E r \in Request : \E d \in Device : Ask(r, d)
  \/ \E r \in Request : \E a \in Replies : Answer(r, a)
  \/ \E d \in Device : \E c \in Conn : Login(d, c)
  \/ \E o \in offered : Hold(o)
  \/ \E failed \in SUBSET Request : Break(failed)

Spec == Init /\ [][Next]_vars

\* No client waits for ever.
EveryCallAnswered == \A r \in Request : Pending(r) ~> ~Pending(r)
=============================================================================
