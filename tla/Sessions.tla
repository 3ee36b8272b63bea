------------------------------ MODULE Sessions ------------------------------
(***************************************************************************)
(* The life of a device's connection on one gateway pod: clientContainer,  *)
(* which remembers a Session for each connection, and the Keepalive of     *)
(* each Session, a goroutine that pings the device and closes the          *)
(* connection when it does not answer.                                     *)
(*                                                                         *)
(* clientContainer.sessions is keyed by client.LocalAddr(), the address of *)
(* the pod's own end.  LocalAddr says which of them connections share: all *)
(* of them do on a TCP listener with one address.                          *)
(***************************************************************************)
EXTENDS Naturals

CONSTANTS
  Conn,       \* slots for accepted connections; one is used again when free
  Addr,       \* local addresses
  LocalAddr,  \* LocalAddr[c]: the local end of the connections of slot c
  Retry,      \* Retry[c]: keepaliveRetry of the Server that accepts on slot c
  None

ASSUME LocalAddrAssumption == LocalAddr \in [Conn -> Addr]
ASSUME RetryAssumption == Retry \in [Conn -> Nat]
ASSUME NoneAssumption == None \notin Conn

VARIABLES
  up,          \* the pod's process runs
  link,        \* link[c]: "none", "open", "ending" (NotifySessionEnd is due)
  alive,       \* alive[c]: the peer answers
  sessions,    \* clientContainer.sessions: [Addr -> Conn \cup {None}]
  mutex,       \* who holds clientContainer.mutex in removeSession
  doneChan,    \* doneChan[c]: messages in the channel of c's Keepalive
  keepalive,   \* keepalive[c]: where its run() is
  timeouts,    \* timeouts[c]: its timeoutCount
  overlapped   \* overlapped[c]: another connection with c's local address
               \* existed during the life of c's (history)

vars == <<up, link, alive, sessions, mutex, doneChan, keepalive, timeouts,
          overlapped>>
netVars == <<link, alive>>
tableVars == <<sessions, mutex, overlapped>>
keepaliveVars == <<doneChan, keepalive, timeouts>>

TypeOK ==
  /\ up \in BOOLEAN
  /\ link \in [Conn -> {"none", "open", "ending"}]
  /\ alive \in [Conn -> BOOLEAN]
  /\ sessions \in [Addr -> Conn \cup {None}]
  /\ mutex \in Conn \cup {None}
  /\ doneChan \in [Conn -> 0..1]
  /\ keepalive \in [Conn -> {"none", "wait", "ping"}]
  /\ timeouts \in [Conn -> Nat]
  /\ \A c \in Conn : timeouts[c] <= Retry[c]
  /\ overlapped \in [Conn -> BOOLEAN]

\* What each slot, and each address, holds in a process that has just started.
EachSlot(v) == [c \in Conn |-> v]
NoSessions == [a \in Addr |-> None]

Init ==
  /\ up = TRUE
  /\ link = EachSlot("none") /\ alive = EachSlot(TRUE)
  /\ sessions = NoSessions /\ mutex = None
  /\ doneChan = EachSlot(0) /\ keepalive = EachSlot("none")
  /\ timeouts = EachSlot(0) /\ overlapped = EachSlot(FALSE)

-----------------------------------------------------------------------------
(* The network.                                                            *)

\* The peer falls silent, or answers again, without the connection ending.
PeerChanges(c) ==
  /\ link[c] = "open"
  /\ alive' = [alive EXCEPT ![c] = ~@]
  /\ UNCHANGED <<up, link, tableVars, keepaliveVars>>

\* The peer closes the connection or the network resets it.
PeerCloses(c) ==
  /\ link[c] = "open"
  /\ link' = [link EXCEPT ![c] = "ending"]
  /\ UNCHANGED <<up, alive, tableVars, keepaliveVars>>

-----------------------------------------------------------------------------
(* clientContainer.                                                        *)

\* The other connections with c's local address that have not been removed.
Sharing(c) ==
  {k \in Conn \ {c} : LocalAddr[k] = LocalAddr[c] /\ link[k] # "none"}

\* NotifySessionNewFunc: addSession, which starts the Keepalive.
AddSession(c) ==
  /\ up /\ link[c] = "none" /\ keepalive[c] = "none" /\ mutex = None
  /\ link' = [link EXCEPT ![c] = "open"]
  /\ alive' = [alive EXCEPT ![c] = TRUE]
  /\ sessions' = [sessions EXCEPT ![LocalAddr[c]] = c]
  /\ doneChan' = [doneChan EXCEPT ![c] = 0]
  /\ keepalive' = [keepalive EXCEPT ![c] = "wait"]
  /\ timeouts' = [timeouts EXCEPT ![c] = 0]
  /\ overlapped' = [k \in Conn |->
                      CASE k = c -> Sharing(c) # {}
                        [] k \in Sharing(c) -> TRUE
                        [] OTHER -> overlapped[k]]
  /\ UNCHANGED <<up, mutex>>

\* NotifySessionEndFunc: removeSession up to its lock.
LockRemove(c) ==
  /\ up /\ link[c] = "ending" /\ mutex = None
  /\ mutex' = c
  /\ UNCHANGED <<up, netVars, sessions, overlapped, keepaliveVars>>

\* The session that removeSession of the lock's holder finds.
Found == sessions[LocalAddr[mutex]]

\* Mutant: the entry is not deleted.
RemoveKeepsEntry(c) ==
  /\ mutex = c /\ Found # None /\ doneChan[Found] = 0
  /\ doneChan' = [doneChan EXCEPT ![Found] = 1]
  /\ link' = [link EXCEPT ![c] = "none"]
  /\ mutex' = None
  /\ UNCHANGED <<up, alive, sessions, keepalive, timeouts, overlapped>>

\* Mutant: doneChan has no capacity, and Done waits for run() to receive.
RemoveUnbuffered(c) ==
  /\ mutex = c /\ Found # None /\ keepalive[Found] = "wait"
  /\ keepalive' = [keepalive EXCEPT ![Found] = "none"]
  /\ sessions' = [sessions EXCEPT ![LocalAddr[c]] = None]
  /\ link' = [link EXCEPT ![c] = "none"]
  /\ mutex' = None
  /\ UNCHANGED <<up, alive, doneChan, timeouts, overlapped>>

\* Done(), delete and unlock.  Done blocks, with the mutex held, while the
\* channel is full.  What is found need not be the session of c.
RemoveSession(c) ==
  /\ mutex = c /\ Found # None /\ doneChan[Found] = 0
  /\ doneChan' = [doneChan EXCEPT ![Found] = 1]
  /\ sessions' = [sessions EXCEPT ![LocalAddr[c]] = None]
  /\ link' = [link EXCEPT ![c] = "none"]
  /\ mutex' = None
  /\ UNCHANGED <<up, alive, keepalive, timeouts, overlapped>>

\* The process ends with all it holds.
ProcessEnds ==
  /\ up' = FALSE
  /\ link' = EachSlot("none") /\ alive' = EachSlot(TRUE)
  /\ sessions' = NoSessions /\ mutex' = None
  /\ doneChan' = EachSlot(0) /\ keepalive' = EachSlot("none")
  /\ timeouts' = EachSlot(0) /\ overlapped' = EachSlot(FALSE)

\* There is no entry: the nil *Session is dereferenced in a goroutine of the
\* server that nothing recovers.
PanicRemove(c) == mutex = c /\ Found = None /\ ProcessEnds

\* A log.Fatal or a fatal error elsewhere in the process, or the cluster.
Killed == up /\ ProcessEnds

Restart ==
  /\ ~up
  /\ up' = TRUE
  /\ UNCHANGED <<netVars, tableVars, keepaliveVars>>

-----------------------------------------------------------------------------
(* Keepalive.run.                                                          *)

\* run() returns.
Ends(c) == keepalive' = [keepalive EXCEPT ![c] = "none"]

\* "case <-k.doneChan".
KeepaliveDone(c) ==
  /\ keepalive[c] = "wait" /\ doneChan[c] = 1
  /\ doneChan' = [doneChan EXCEPT ![c] = 0]
  /\ Ends(c)
  /\ UNCHANGED <<up, netVars, tableVars, timeouts>>

\* Mutant: an error other than a timeout is ignored.
TimerIgnoresErrors(c) ==
  /\ keepalive[c] = "wait"
  /\ keepalive' = [keepalive EXCEPT ![c] = IF link[c] = "open" THEN "ping" ELSE @]
  /\ UNCHANGED <<up, netVars, tableVars, doneChan, timeouts>>

\* "case <-time.After": Ping is sent, or fails at once on a connection that
\* is no longer open ("other error then timeout").
KeepaliveTimer(c) ==
  /\ keepalive[c] = "wait"
  /\ IF link[c] = "open" THEN keepalive' = [keepalive EXCEPT ![c] = "ping"]
                         ELSE Ends(c)
  /\ UNCHANGED <<up, netVars, tableVars, doneChan, timeouts>>

PingAnswered(c) ==
  /\ keepalive[c] = "ping" /\ link[c] = "open" /\ alive[c]
  /\ keepalive' = [keepalive EXCEPT ![c] = "wait"]
  /\ timeouts' = [timeouts EXCEPT ![c] = 0]
  /\ UNCHANGED <<up, netVars, tableVars, doneChan>>

\* Mutant: Terminate forgets the session as well.
TerminateForgets(c) ==
  /\ keepalive[c] = "ping" /\ timeouts[c] + 1 >= Retry[c]
  /\ link' = [link EXCEPT ![c] = IF @ = "open" THEN "ending" ELSE @]
  /\ sessions' = [sessions EXCEPT ![LocalAddr[c]] = None]
  /\ Ends(c)
  /\ UNCHANGED <<up, alive, mutex, overlapped, doneChan, timeouts>>

\* Mutant: ">" for ">=".
TerminatesLate(c) ==
  /\ keepalive[c] = "ping" /\ timeouts[c] + 1 > Retry[c]
  /\ link' = [link EXCEPT ![c] = IF @ = "open" THEN "ending" ELSE @]
  /\ Ends(c)
  /\ UNCHANGED <<up, alive, tableVars, doneChan, timeouts>>

\* Mutant: Terminate does not close the client.
TerminatesWithoutClosing(c) ==
  /\ keepalive[c] = "ping" /\ timeouts[c] + 1 >= Retry[c]
  /\ Ends(c)
  /\ UNCHANGED <<up, netVars, tableVars, doneChan, timeouts>>

\* ErrTimeout and the retries are used up: Terminate.
PingTerminates(c) ==
  /\ keepalive[c] = "ping" /\ timeouts[c] + 1 >= Retry[c]
  /\ link' = [link EXCEPT ![c] = IF @ = "open" THEN "ending" ELSE @]
  /\ Ends(c)
  /\ UNCHANGED <<up, alive, tableVars, doneChan, timeouts>>

\* Mutant: timeouts are counted and the limit is not looked at.
TimesOutWithoutLimit(c) ==
  /\ keepalive[c] = "ping"
  /\ keepalive' = [keepalive EXCEPT ![c] = "wait"]
  /\ timeouts' = [timeouts EXCEPT ![c] = @ + 1]
  /\ UNCHANGED <<up, netVars, tableVars, doneChan>>

\* Mutant: run() returns after a timeout.
TimesOutAndReturns(c) ==
  /\ keepalive[c] = "ping" /\ timeouts[c] + 1 < Retry[c]
  /\ Ends(c)
  /\ UNCHANGED <<up, netVars, tableVars, doneChan, timeouts>>

\* ErrTimeout otherwise: control leaves the "if" and reaches the statement
\* that sets timeoutCount to 0.
PingTimesOut(c) ==
  /\ keepalive[c] = "ping" /\ timeouts[c] + 1 < Retry[c]
  /\ keepalive' = [keepalive EXCEPT ![c] = "wait"]
  /\ timeouts' = [timeouts EXCEPT ![c] = 0]
  /\ UNCHANGED <<up, netVars, tableVars, doneChan>>

\* The connection ended while Ping waited.
PingFails(c) ==
  /\ keepalive[c] = "ping" /\ link[c] # "open"
  /\ Ends(c)
  /\ UNCHANGED <<up, netVars, tableVars, doneChan, timeouts>>

PingReturns(c) ==
  PingAnswered(c) \/ PingTerminates(c) \/ PingTimesOut(c) \/ PingFails(c)

-----------------------------------------------------------------------------
Next ==
  \/ \E c \in Conn :
       \/ PeerChanges(c) \/ PeerCloses(c)
       \/ AddSession(c) \/ LockRemove(c) \/ RemoveSession(c) \/ PanicRemove(c)
       \/ KeepaliveDone(c) \/ KeepaliveTimer(c) \/ PingReturns(c)
  \/ Killed \/ Restart

Spec == Init /\ [][Next]_vars

\* Goroutines are scheduled, timers fire and Ping returns within its second.
\* The mutex goes to the longest waiter in the end.  Peers are free.
Fairness ==
  \A c \in Conn :
    /\ SF_vars(LockRemove(c))
    /\ WF_vars(RemoveSession(c)) /\ WF_vars(PanicRemove(c))
    /\ WF_vars(KeepaliveDone(c) \/ KeepaliveTimer(c))
    /\ WF_vars(PingReturns(c))

FairSpec == Spec /\ Fairness

-----------------------------------------------------------------------------
(* Properties.                                                             *)

\* The Session that removeSession may find has room in its doneChan, so Done
\* (a send on a channel of capacity one, under the mutex) never blocks the
\* container: every entry is told once, whichever connection's end tells it,
\* and whether or not its run() has returned before.
DoneNeverBlocks ==
  \A a \in Addr : sessions[a] # None => doneChan[sessions[a]] = 0

\* A connection that shared its local address with no other has its own entry
\* until it is removed, so its end (by the peer or by Terminate) removes its
\* own Session and never dereferences nil.
SoloKeepsSession ==
  \A c \in Conn :
    link[c] # "none" /\ ~overlapped[c] => sessions[LocalAddr[c]] = c

\* Such a connection is watched by a Keepalive that nobody has told to end,
\* as long as it is open.
SoloMonitored ==
  \A c \in Conn :
    link[c] = "open" /\ ~overlapped[c] => keepalive[c] # "none" /\ doneChan[c] = 0

\* No run() outlives its connection for ever, even where the Session was
\* replaced in the table and is never told: its next Ping fails.
KeepaliveEnds ==
  \A c \in Conn :
    keepalive[c] # "none" /\ link[c] # "open" ~> keepalive[c] = "none"

\* Every connection that ends is removed, or the process ends.
SessionRemoved ==
  \A c \in Conn : link[c] = "ending" ~> link[c] = "none"

\* A peer that falls silent on c and stays so loses the connection, as long
\* as the pod's Keepalive is the one that watches it.
ClosedIfSilent(c) ==
  link[c] = "open" /\ ~alive[c] /\ ~overlapped[c]
    ~> link[c] # "open" \/ alive[c] \/ overlapped[c]

\* With a keepaliveRetry of at most 1 (an invalid KEEPALIVE_RETRY counts as 0)
\* the connection to a peer that stays silent is closed, however often the peer
\* falls silent and answers again before.
ImpatientServerCloses == \A c \in Conn : Retry[c] <= 1 => ClosedIfSilent(c)

-----------------------------------------------------------------------------
(* What comments and tests of the repository say and the code does not do. *)

\* server.go:64-66: keepaliveRetry is "the number of retransmissions to be
\* carried out before declaring that remote end is not available".  False
\* from 2 on, the default of 5 included.
SilentPeerClosed == \A c \in Conn : ClosedIfSilent(c)

\* server_test.go:96: a client that closes its connection must not make for a
\* "server unexcpected shutdown".
NoPanic == [][\A c \in Conn : ~PanicRemove(c)]_vars
=============================================================================
