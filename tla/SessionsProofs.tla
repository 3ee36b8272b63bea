--------------------------- MODULE SessionsProofs ---------------------------
(***************************************************************************)
(* Proofs about Sessions for every number of connections and local         *)
(* addresses and every keepaliveRetry of their servers.                    *)
(***************************************************************************)
EXTENDS Sessions, TLAPS

\* removeSession runs for a connection that is ending.
HolderEnds == mutex # None => link[mutex] = "ending"

\* An entry is that of a connection with this local address which has not
\* been removed, and its Keepalive has not been told to end.
EntryOwned ==
  \A a \in Addr :
    sessions[a] # None => /\ link[sessions[a]] # "none"
                          /\ LocalAddr[sessions[a]] = a
                          /\ doneChan[sessions[a]] = 0

\* Two connections that share an address both know it.
SharersOverlap ==
  \A c, k \in Conn :
    /\ c # k /\ LocalAddr[c] = LocalAddr[k]
    /\ link[c] # "none" /\ link[k] # "none"
    => overlapped[c]

\* A connection that is open and alone has a Keepalive that runs.
SoloWatched ==
  \A c \in Conn : link[c] = "open" /\ ~overlapped[c] => keepalive[c] # "none"

TableInv ==
  /\ TypeOK /\ HolderEnds /\ EntryOwned /\ SharersOverlap
  /\ SoloKeepsSession /\ SoloWatched

-----------------------------------------------------------------------------
LEMMA UpdateTyped ==
  ASSUME NEW S, NEW T, NEW f \in [S -> T], NEW x, NEW v \in T
  PROVE  [f EXCEPT ![x] = v] \in [S -> T]
OBVIOUS

LEMMA TypeInit == Init => TypeOK
BY RetryAssumption DEF Init, TypeOK, EachSlot, NoSessions

LEMMA TypeStep == TypeOK /\ [Next]_vars => TypeOK'
<1> SUFFICES ASSUME TypeOK, [Next]_vars
             PROVE  TypeOK'
  OBVIOUS
<1> USE LocalAddrAssumption, RetryAssumption
        DEF TypeOK, netVars, tableVars, keepaliveVars, Ends
<1>1. ASSUME NEW c \in Conn, PeerChanges(c)
      PROVE  TypeOK'
  BY <1>1 DEF PeerChanges
<1>2. ASSUME NEW c \in Conn, PeerCloses(c)
      PROVE  TypeOK'
  BY <1>2 DEF PeerCloses
<1>3. ASSUME NEW c \in Conn, AddSession(c)
      PROVE  TypeOK'
  <2>1. overlapped' \in [Conn -> BOOLEAN]
    <3>1. \A k \in Conn : overlapped[k] \in BOOLEAN
      OBVIOUS
    <3>2. (Sharing(c) # {}) \in BOOLEAN
      OBVIOUS
    <3>3. overlapped' = [k \in Conn |-> CASE k = c -> Sharing(c) # {}
                                          [] k \in Sharing(c) -> TRUE
                                          [] OTHER -> overlapped[k]]
      BY <1>3 DEF AddSession
    <3> QED
      BY ONLY <3>1, <3>2, <3>3
  <2>2. /\ alive' = [alive EXCEPT ![c] = TRUE] /\ UNCHANGED <<up, mutex>>
        /\ link' = [link EXCEPT ![c] = "open"]
        /\ sessions' = [sessions EXCEPT ![LocalAddr[c]] = c]
        /\ doneChan' = [doneChan EXCEPT ![c] = 0]
        /\ keepalive' = [keepalive EXCEPT ![c] = "wait"]
        /\ timeouts' = [timeouts EXCEPT ![c] = 0]
    BY <1>3 DEF AddSession
  <2>3. /\ link' \in [Conn -> {"none", "open", "ending"}]
        /\ sessions' \in [Addr -> Conn \cup {None}]
        /\ keepalive' \in [Conn -> {"none", "wait", "ping"}]
    BY <2>2, UpdateTyped
  <2>4. doneChan' \in [Conn -> 0..1] /\ timeouts' \in [Conn -> Nat]
    BY <2>2, UpdateTyped
  <2>6. \A k \in Conn : timeouts'[k] <= Retry[k]
    BY <2>2
  <2>5. alive' \in [Conn -> BOOLEAN]
    BY <2>2, UpdateTyped
  <2> QED
    BY <2>1, <2>2, <2>3, <2>4, <2>5, <2>6
<1>4. ASSUME NEW c \in Conn, LockRemove(c)
      PROVE  TypeOK'
  BY <1>4 DEF LockRemove
<1>5. ASSUME NEW c \in Conn, RemoveSession(c)
      PROVE  TypeOK'
  <2>1. /\ doneChan' = [doneChan EXCEPT ![Found] = 1] /\ 1 \in 0..1
        /\ sessions' = [sessions EXCEPT ![LocalAddr[c]] = None]
        /\ link' = [link EXCEPT ![c] = "none"]
        /\ mutex' = None
        /\ UNCHANGED <<up, alive, keepalive, timeouts, overlapped>>
    BY <1>5 DEF RemoveSession
  <2>2. /\ doneChan' \in [Conn -> 0..1]
        /\ sessions' \in [Addr -> Conn \cup {None}]
        /\ link' \in [Conn -> {"none", "open", "ending"}]
    BY <2>1, UpdateTyped
  <2> QED
    BY <2>1, <2>2
<1>6. CASE ProcessEnds
  <2>1. /\ up' = FALSE
        /\ link' = [k \in Conn |-> "none"] /\ alive' = [k \in Conn |-> TRUE]
        /\ sessions' = [a \in Addr |-> None] /\ mutex' = None
        /\ doneChan' = [k \in Conn |-> 0] /\ keepalive' = [k \in Conn |-> "none"]
        /\ timeouts' = [k \in Conn |-> 0]
        /\ overlapped' = [k \in Conn |-> FALSE]
    BY <1>6 DEF ProcessEnds, EachSlot, NoSessions
  <2>2. 0 \in 0..1 /\ 0 \in Nat /\ \A k \in Conn : 0 <= Retry[k]
    OBVIOUS
  <2>3. /\ alive' \in [Conn -> BOOLEAN] /\ overlapped' \in [Conn -> BOOLEAN]
        /\ up' \in BOOLEAN
    BY ONLY <2>1
  <2>4. /\ doneChan' \in [Conn -> 0..1] /\ timeouts' \in [Conn -> Nat]
        /\ \A k \in Conn : timeouts'[k] <= Retry[k]
    BY ONLY <2>1, <2>2
  <2> QED
    BY <2>1, <2>3, <2>4
<1>7. ASSUME NEW c \in Conn, KeepaliveDone(c) \/ KeepaliveTimer(c)
      PROVE  TypeOK'
  BY <1>7 DEF KeepaliveDone, KeepaliveTimer
<1>8. ASSUME NEW c \in Conn, PingReturns(c)
      PROVE  TypeOK'
  BY <1>8 DEF PingReturns, PingAnswered, PingTerminates, PingTimesOut, PingFails
<1>9. CASE Restart
  BY <1>9 DEF Restart
<1>10. CASE UNCHANGED vars
  BY <1>10 DEF vars
<1> QED
  BY <1>1, <1>2, <1>3, <1>4, <1>5, <1>6, <1>7, <1>8, <1>9, <1>10
     DEF Next, PanicRemove, Killed

\* The variables keep their types; in particular timeoutCount stays within
\* keepaliveRetry and doneChan within its capacity.
THEOREM SessionsTypeCorrect == Spec => []TypeOK
BY TypeInit, TypeStep, PTL DEF Spec

-----------------------------------------------------------------------------
LEMMA TableInit == Init => TableInv
BY TypeInit DEF Init, EachSlot, NoSessions, TableInv, HolderEnds, EntryOwned,
                SharersOverlap, SoloKeepsSession, SoloWatched

LEMMA TableAdd ==
  ASSUME TableInv, NEW c \in Conn, AddSession(c), TypeOK'
  PROVE  TableInv'
<1> USE LocalAddrAssumption, NoneAssumption DEF TableInv, TypeOK
<1>1. /\ link[c] = "none" /\ mutex = None /\ mutex' = None
      /\ link'[c] = "open" /\ sessions'[LocalAddr[c]] = c /\ doneChan'[c] = 0
      /\ keepalive'[c] = "wait"
      /\ \A a \in Addr \ {LocalAddr[c]} : sessions'[a] = sessions[a]
      /\ \A k \in Conn \ {c} : /\ link'[k] = link[k]
                               /\ doneChan'[k] = doneChan[k]
                               /\ keepalive'[k] = keepalive[k]
  BY DEF AddSession, tableVars
<1>2. /\ Sharing(c) # {} => overlapped'[c]
      /\ \A k \in Conn \ {c} : overlapped[k] => overlapped'[k]
      /\ \A k \in Sharing(c) : overlapped'[k]
  BY DEF AddSession, Sharing
<1>3. EntryOwned'
  BY <1>1 DEF EntryOwned
<1>4. SharersOverlap'
  BY <1>1, <1>2 DEF SharersOverlap, Sharing
<1>5. SoloKeepsSession'
  BY <1>1, <1>2 DEF SoloKeepsSession, Sharing
<1>6. SoloWatched'
  BY <1>1, <1>2 DEF SoloWatched
<1> QED
  BY <1>1, <1>3, <1>4, <1>5, <1>6 DEF HolderEnds

LEMMA TableRemove ==
  ASSUME TableInv, NEW c \in Conn, RemoveSession(c), TypeOK'
  PROVE  TableInv'
<1> USE LocalAddrAssumption, NoneAssumption DEF TableInv, TypeOK
<1> DEFINE f == sessions[LocalAddr[c]]
<1>1. /\ mutex = c /\ mutex' = None /\ link[c] = "ending" /\ link'[c] = "none"
      /\ sessions'[LocalAddr[c]] = None
      /\ \A a \in Addr \ {LocalAddr[c]} : sessions'[a] = sessions[a]
      /\ \A k \in Conn \ {c} : link'[k] = link[k]
      /\ UNCHANGED <<keepalive, overlapped>>
  BY DEF RemoveSession, HolderEnds
<1>2. f \in Conn /\ \A k \in Conn \ {f} : doneChan'[k] = doneChan[k]
  BY DEF RemoveSession, Found
<1>3. LocalAddr[f] = LocalAddr[c]
  BY <1>2 DEF EntryOwned
<1>4. EntryOwned'
  BY <1>1, <1>2, <1>3 DEF EntryOwned
<1>5. SharersOverlap'
  BY <1>1 DEF SharersOverlap
<1>6. SoloKeepsSession'
  BY <1>1 DEF SoloKeepsSession, SharersOverlap
<1>7. SoloWatched'
  BY <1>1 DEF SoloWatched
<1> QED
  BY <1>1, <1>4, <1>5, <1>6, <1>7 DEF HolderEnds

\* The other steps leave the table alone and close connections at most.
LEMMA TableOthers ==
  ASSUME TableInv, TypeOK', UNCHANGED <<sessions, overlapped>>,
         \A c \in Conn : \/ link'[c] = link[c]
                         \/ link[c] = "open" /\ link'[c] = "ending",
         \A c \in Conn : doneChan[c] = 0 => doneChan'[c] = 0,
         \A c \in Conn : link'[c] = "open" /\ ~overlapped[c]
                           => (keepalive[c] # "none" => keepalive'[c] # "none"),
         \/ UNCHANGED mutex
         \/ mutex = None /\ mutex' \in Conn /\ link'[mutex'] = "ending"
  PROVE  TableInv'
<1> USE DEF TableInv, TypeOK
<1>1. HolderEnds'
  BY DEF HolderEnds
<1>2. EntryOwned'
  BY DEF EntryOwned
<1>3. SharersOverlap'
  BY DEF SharersOverlap
<1>4. SoloKeepsSession'
  BY DEF SoloKeepsSession
<1>5. SoloWatched'
  BY DEF SoloWatched
<1> QED
  BY <1>1, <1>2, <1>3, <1>4, <1>5

LEMMA TableStep == TableInv /\ [Next]_vars => TableInv'
<1> SUFFICES ASSUME TableInv, [Next]_vars
             PROVE  TableInv'
  OBVIOUS
<1>1. TypeOK /\ TypeOK'
  BY TypeStep DEF TableInv
<1> USE <1>1 DEF netVars, tableVars, keepaliveVars, Ends
<1>2. ASSUME NEW c \in Conn, AddSession(c)
      PROVE  TableInv'
  BY <1>2, TableAdd
<1>3. ASSUME NEW c \in Conn, RemoveSession(c)
      PROVE  TableInv'
  BY <1>3, TableRemove
<1>4. CASE ProcessEnds
  BY <1>4 DEF ProcessEnds, EachSlot, NoSessions, TableInv, HolderEnds,
              EntryOwned, SharersOverlap, SoloKeepsSession, SoloWatched
<1>5. ASSUME NEW c \in Conn, PeerChanges(c) \/ PeerCloses(c)
      PROVE  TableInv'
  BY <1>5, TableOthers DEF PeerChanges, PeerCloses, TypeOK
<1>6. ASSUME NEW c \in Conn, LockRemove(c)
      PROVE  TableInv'
  BY <1>6, TableOthers DEF LockRemove, TypeOK
<1>7. ASSUME NEW c \in Conn, KeepaliveDone(c)
      PROVE  TableInv'
  <2>1. link[c] # "none" /\ ~overlapped[c] => doneChan[c] = 0
    BY LocalAddrAssumption, NoneAssumption
       DEF TableInv, SoloKeepsSession, EntryOwned, TypeOK
  <2> QED
    BY <1>7, <2>1, TableOthers DEF KeepaliveDone, TypeOK
<1>8. ASSUME NEW c \in Conn, KeepaliveTimer(c)
      PROVE  TableInv'
  BY <1>8, TableOthers DEF KeepaliveTimer, TypeOK
<1>9. ASSUME NEW c \in Conn, PingReturns(c)
      PROVE  TableInv'
  BY <1>9, TableOthers DEF PingReturns, PingAnswered, PingTerminates,
                           PingTimesOut, PingFails, TypeOK
<1>10. CASE Restart
  BY <1>10, TableOthers DEF Restart, TypeOK
<1>11. CASE UNCHANGED vars
  BY <1>11, TableOthers DEF vars
<1> QED
  BY <1>2, <1>3, <1>4, <1>5, <1>6, <1>7, <1>8, <1>9, <1>10, <1>11
     DEF Next, PanicRemove, Killed

LEMMA TableInvariant == Spec => []TableInv
BY TableInit, TableStep, PTL DEF Spec

\* Whatever shares an address with whatever, Done never blocks the container.
THEOREM DoneDoesNotBlock == Spec => []DoneNeverBlocks
<1>1. TableInv => DoneNeverBlocks
  BY DEF TableInv, EntryOwned, DoneNeverBlocks
<1> QED
  BY <1>1, TableInvariant, PTL

\* A connection that has its address to itself is removed under its own entry.
THEOREM SoloConnectionsKeepTheirSession == Spec => []SoloKeepsSession
<1>1. TableInv => SoloKeepsSession
  BY DEF TableInv
<1> QED
  BY <1>1, TableInvariant, PTL

\* And its Keepalive watches it until it ends.
THEOREM SoloConnectionsAreMonitored == Spec => []SoloMonitored
<1>1. TableInv => SoloMonitored
  BY LocalAddrAssumption, NoneAssumption
     DEF TableInv, TypeOK, SoloKeepsSession, SoloWatched, EntryOwned,
         SoloMonitored
<1> QED
  BY <1>1, TableInvariant, PTL

\* Only the end of a connection whose local address another one had in its life
\* can bring the process down: that removeSession looks a Session up by that address
\* is all there is to what NoPanic's run finds.
THEOREM PanicsNeedSharing ==
  Spec => [][\A c \in Conn : PanicRemove(c) => overlapped[c]]_vars
<1>1. TableInv => \A c \in Conn : PanicRemove(c) => overlapped[c]
  <2> SUFFICES ASSUME TableInv, NEW c \in Conn, PanicRemove(c), ~overlapped[c]
               PROVE  FALSE
    OBVIOUS
  <2>1. link[c] = "ending" /\ sessions[LocalAddr[c]] = None
    BY NoneAssumption DEF PanicRemove, Found, TableInv, HolderEnds
  <2>2. sessions[LocalAddr[c]] = c
    BY <2>1 DEF TableInv, SoloKeepsSession
  <2> QED
    BY <2>1, <2>2, NoneAssumption
<1>2. TableInv /\ [Next]_vars
        => [\A c \in Conn : PanicRemove(c) => overlapped[c]]_vars
  BY <1>1
<1> QED
  BY <1>2, TableInvariant, PTL DEF Spec

-----------------------------------------------------------------------------
(* What timeoutCount counts.                                               *)

\* Between two statements of run() timeoutCount is 0: the only path on which it
\* was incremented and run() goes on passes the statement that clears it.
NothingCounted == \A c \in Conn : timeouts[c] = 0

LEMMA NothingCountedStep ==
  ASSUME TypeOK, NothingCounted, [Next]_vars
  PROVE  NothingCounted'
<1> USE DEF NothingCounted, keepaliveVars
<1>1. ASSUME NEW c \in Conn, timeouts' = [timeouts EXCEPT ![c] = 0]
      PROVE  NothingCounted'
  BY <1>1 DEF TypeOK
<1>2. ASSUME NEW c \in Conn, AddSession(c) \/ PingAnswered(c) \/ PingTimesOut(c)
      PROVE  NothingCounted'
  BY <1>1, <1>2 DEF AddSession, PingAnswered, PingTimesOut
<1>3. CASE ProcessEnds
  BY <1>3 DEF ProcessEnds, EachSlot
<1>4. ASSUME NEW c \in Conn, PingTerminates(c) \/ PingFails(c)
      PROVE  NothingCounted'
  BY <1>4 DEF PingTerminates, PingFails
<1>5. ASSUME NEW c \in Conn, KeepaliveDone(c) \/ KeepaliveTimer(c)
      PROVE  NothingCounted'
  BY <1>5 DEF KeepaliveDone, KeepaliveTimer
<1>6. ASSUME NEW c \in Conn, PeerChanges(c) \/ PeerCloses(c) \/ LockRemove(c)
                               \/ RemoveSession(c)
      PROVE  NothingCounted'
  BY <1>6 DEF PeerChanges, PeerCloses, LockRemove, RemoveSession
<1>7. CASE Restart \/ UNCHANGED vars
  BY <1>7 DEF Restart, vars
<1> QED
  BY <1>2, <1>3, <1>4, <1>5, <1>6, <1>7 DEF Next, PanicRemove, Killed, PingReturns

\* A keepaliveRetry of 2 or more, the default of 5 included, never makes a
\* Keepalive end a connection: no series of unanswered pings adds up.  This is
\* why SilentPeerClosed, which a run refutes for one value, is false for all of
\* them, and why ImpatientServerCloses has the hypothesis it has.
THEOREM PatientServersNeverTerminate ==
  Spec => [][\A c \in Conn : Retry[c] >= 2 => ~PingTerminates(c)]_vars
<1>1. Init => NothingCounted
  BY DEF Init, EachSlot, NothingCounted
<1>2. TypeOK /\ NothingCounted /\ [Next]_vars => NothingCounted'
  BY NothingCountedStep
<1>3. NothingCounted => \A c \in Conn : Retry[c] >= 2 => ~PingTerminates(c)
  BY RetryAssumption DEF NothingCounted, PingTerminates
<1>4. NothingCounted /\ [Next]_vars
        => [\A c \in Conn : Retry[c] >= 2 => ~PingTerminates(c)]_vars
  BY <1>3
<1> QED
  BY <1>1, <1>2, <1>4, SessionsTypeCorrect, PTL DEF Spec
=============================================================================
