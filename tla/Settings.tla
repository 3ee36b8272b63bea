------------------------------ MODULE Settings ------------------------------
(***************************************************************************)
(* How a gateway pod starts: main opens the database, NewServer takes the  *)
(* settings from the environment, setupTLS the certificates from a         *)
(* directory, and the server listens.  An error ends the process, which    *)
(* Kubernetes starts again with the same environment.  A client's TLS      *)
(* handshake with the server that listens is VerifyPeerCertificate, and    *)
(* Wait is what run() of a Keepalive makes of the server's durations.      *)
(*                                                                         *)
(* A value in the environment is a text.  Number and Cut say what Atoi and *)
(* strings.Split make of it.                                               *)
(***************************************************************************)
EXTENDS Integers, FiniteSets

CONSTANTS
  Environ,      \* the environments that a pod can be given: [keys -> Text]
  Text,
  Number,       \* Number[t]: what Atoi returns for t, where it is not 0
  Cut,          \* Cut[t]: the part of t that is before its first "="
  TLSNetworks,  \* the texts with "tls" in them
  Cert,         \* certificates
  Subject, Issuer, \* of a certificate
  CA,           \* the certificates of certification authorities
  Pool,         \* Pool[t]: the certificates in the files of directory t
  Unset

Numeric == {"KEEPALIVE_TIME", "KEEPALIVE_INTERVAL", "KEEPALIVE_RETRY"}
ServerKey == Numeric \cup {"ADDRESS", "NETWORK"}
TLSKey == {"TLS_CERTIFICATE", "TLS_CERTIFICATE_KEY", "TLS_CA_POOL"}
Key == ServerKey \cup TLSKey

ASSUME EnvironAssumption ==
  \A e \in Environ : DOMAIN e \subseteq Key /\ \A k \in DOMAIN e : e[k] \in Text
ASSUME TextAssumption ==
  /\ Cut \in [Text -> Text] /\ TLSNetworks \subseteq Text
  /\ DOMAIN Pool \subseteq Text /\ \A t \in DOMAIN Pool : Pool[t] \subseteq Cert
  /\ Unset \notin Text
ASSUME DefaultsAssumption == {"tcp", "0.0.0.0:5684"} \subseteq Text \ TLSNetworks
ASSUME CertAssumption == IsFiniteSet(Cert) /\ CA \subseteq Cert

-----------------------------------------------------------------------------
(* int64 and time.Duration: eight bytes, the lowest first.                 *)

Word == [0..7 -> 0..255]

\* The bytes of a number whose columns are not bytes yet: what a column has over
\* goes to the next, and what the last one has over is lost.
Total(c) ==
  LET total[i \in 0..7] == c[i] + (IF i = 0 THEN 0 ELSE total[i - 1] \div 256)
  IN  total
Carry(c) == [i \in 0..7 |-> Total(c)[i] % 256]

\* The low bytes of n, in two's complement.
WordOf(n) == Carry([i \in 0..7 |-> IF i = 0 THEN n ELSE 0])

\* The product of two int64, which wraps.
Column(a, b, i, j) == IF j <= i THEN a[j] * b[i - j] ELSE 0
Columns(a, b) ==
  [i \in 0..7 |->
     Column(a, b, i, 0) + Column(a, b, i, 1) + Column(a, b, i, 2) + Column(a, b, i, 3)
     + Column(a, b, i, 4) + Column(a, b, i, 5) + Column(a, b, i, 6) + Column(a, b, i, 7)]
Times(a, b) == Carry(Columns(a, b))

Second == WordOf(1000000000)
Hour == Times(WordOf(3600), Second)

ASSUME NumberAssumption == \A t \in DOMAIN Number : t \in Text /\ Number[t] \in Word

Atoi(t) == IF t \in DOMAIN Number THEN Number[t] ELSE WordOf(0)

-----------------------------------------------------------------------------
VARIABLES
  env,     \* the pod's environment
  pc,      \* where main is
  unread,  \* the keys that the loop over os.Environ() has still to see
  given,   \* the pointers that the loops set: [Key -> Text \cup {Unset}]
  server,  \* the Server's settings, once NewServer has set them
  roots, intermediates,  \* caRootPool and caIntermediatesPool
  admitted \* what clients of this process were let in with (history)

vars == <<env, pc, unread, given, server, roots, intermediates, admitted>>
pools == <<roots, intermediates>>

Defaults == [time |-> Hour, interval |-> Times(WordOf(5), Second),
             retry |-> WordOf(5), net |-> "tcp", addr |-> "0.0.0.0:5684"]

TypeOK ==
  /\ env \in Environ
  /\ pc \in {"database", "environ", "tlsEnviron", "pool", "serving"}
  /\ unread \subseteq Key
  /\ given \in [Key -> Text \cup {Unset}]
  /\ server \in [time: Word, interval: Word, retry: Word, net: Text, addr: Text]
  /\ roots \subseteq CA /\ intermediates \subseteq CA
  /\ admitted \subseteq Cert

NothingGiven == [k \in Key |-> Unset]

Init ==
  /\ env \in Environ /\ admitted = {}
  /\ pc = "database" /\ unread = {} /\ given = NothingGiven
  /\ server = Defaults /\ roots = {} /\ intermediates = {}

\* log.Fatal in main, or the end of the process for another reason; the next one
\* starts from nothing.
Dies ==
  /\ pc' = "database" /\ unread' = {} /\ given' = NothingGiven
  /\ server' = Defaults /\ roots' = {} /\ intermediates' = {}
  /\ admitted' = {}
  /\ UNCHANGED env

\* sql.Open and Ping, which may fail.
OpenDatabase ==
  /\ pc = "database"
  /\ pc' = "environ" /\ unread' = DOMAIN env
  /\ UNCHANGED <<env, given, server, pools, admitted>>

\* Mutant: one variable val for the whole loop, to which three pointers point.
ReadSharingVal(k) ==
  /\ pc \in {"environ", "tlsEnviron"} /\ k \in unread
  /\ unread' = unread \ {k}
  /\ given' = [x \in Key |->
       IF x = k \/ (pc = "environ" /\ {x, k} \subseteq Numeric /\ given[x] # Unset)
       THEN Cut[env[k]] ELSE given[x]]
  /\ UNCHANGED <<env, pc, server, pools, admitted>>

\* One turn of either loop over os.Environ(), which has no particular order.
Read(k) ==
  /\ pc \in {"environ", "tlsEnviron"} /\ k \in unread
  /\ unread' = unread \ {k}
  /\ given' = IF k \in (IF pc = "environ" THEN ServerKey ELSE TLSKey)
              THEN [given EXCEPT ![k] = Cut[env[k]]] ELSE given
  /\ UNCHANGED <<env, pc, server, pools, admitted>>

\* Mutant: KEEPALIVE_TIME is turned into seconds here already.
DurationInSeconds(n) == Times(n, Second)

\* time.Duration(*keepaliveTime): the number, in nanoseconds.
Duration(n) == n

\* A number that Atoi refuses has been logged; what it returned is used.
Resolve(k, default) == IF given[k] = Unset THEN default ELSE given[k]
ResolveNumber(k, default) == IF given[k] = Unset THEN default ELSE Atoi(given[k])
ResolveDuration(k, default) ==
  IF given[k] = Unset THEN default ELSE Duration(Atoi(given[k]))

\* NewServer after its loop.
NewServer ==
  /\ pc = "environ" /\ unread = {}
  /\ server' = [time     |-> ResolveDuration("KEEPALIVE_TIME", Defaults.time),
                interval |-> ResolveDuration("KEEPALIVE_INTERVAL", Defaults.interval),
                retry    |-> ResolveNumber("KEEPALIVE_RETRY", Defaults.retry),
                net      |-> Resolve("NETWORK", Defaults.net),
                addr     |-> Resolve("ADDRESS", Defaults.addr)]
  /\ IF server'.net \in TLSNetworks
     THEN pc' = "tlsEnviron" /\ unread' = DOMAIN env
     ELSE pc' = "serving" /\ UNCHANGED unread
  /\ UNCHANGED <<env, given, pools, admitted>>

\* Mutant: a variable that is not set makes a server without TLS.
LoadCertificateOrPlain ==
  /\ pc = "tlsEnviron" /\ unread = {}
  /\ pc' = IF Unset \in {given[k] : k \in TLSKey} THEN "serving" ELSE "pool"
  /\ UNCHANGED <<env, unread, given, server, pools, admitted>>

\* All three variables are set and LoadX509KeyPair likes the first two; Dies is
\* the step when it is not so.
LoadCertificate ==
  /\ pc = "tlsEnviron" /\ unread = {}
  /\ Unset \notin {given[k] : k \in TLSKey}
  /\ pc' = "pool"
  /\ UNCHANGED <<env, unread, given, server, pools, admitted>>

\* Mutant: every authority in the directory is trusted as a root.
IsRootIfCA(c) == c \in CA

\* Mutant: a certificate that is no authority's can be a root.
IsRootIfOwnIssuer(c) == Issuer[c] = Subject[c]

\* A root is an authority that names itself as its issuer.
IsRoot(c) == c \in CA /\ Issuer[c] = Subject[c]

\* len(caRootPool.Subjects()) == 0 is ErrEmptyCARootPool.
Enough(rs, is) == rs # {}

\* The walk over the directory.  A file that cannot be read or parsed is skipped.
WalkPool ==
  /\ pc = "pool" /\ given["TLS_CA_POOL"] \in DOMAIN Pool
  /\ \E read \in SUBSET Pool[given["TLS_CA_POOL"]] :
       /\ roots' = {c \in read : IsRoot(c)}
       /\ intermediates' = {c \in read : c \in CA /\ ~IsRoot(c)}
  /\ Enough(roots', intermediates')
  /\ pc' = "serving"
  /\ UNCHANGED <<env, unread, given, server, admitted>>

\* c.Verify: a chain from c over intermediates to a root, or c is a root.
Issued(S) == {x \in Cert : \E p \in S : Issuer[x] = Subject[p]}
Trusted(rs, is) ==
  LET trusted[n \in Nat] ==
        IF n = 0 THEN rs
        ELSE trusted[n - 1] \cup (is \cap Issued(trusted[n - 1]))
  IN  trusted
Verifies(c) ==
  LET all == Trusted(roots, intermediates)[Cardinality(Cert)]
  IN  c \in all \cup Issued(all)

\* VerifyPeerCertificate: each certificate that the client sends is verified on
\* its own, so that none of them helps with another.  There is at least one.
Handshake ==
  /\ pc = "serving" /\ server.net \in TLSNetworks
  /\ \E sent \in SUBSET Cert \ {{}} :
       /\ \A c \in sent : Verifies(c)
       /\ admitted' = admitted \cup sent
  /\ UNCHANGED <<env, pc, unread, given, server, pools>>

Next ==
  \/ OpenDatabase \/ (\E k \in Key : Read(k)) \/ NewServer
  \/ LoadCertificate \/ WalkPool \/ Handshake
  \/ Dies

Spec == Init /\ [][Next]_vars

\* keepalive.go:42: how long run() waits with a duration of the server's.  The
\* defaults are time.Durations already, so that the product wraps: the wait of "by
\* default 1 hour" (server.go:64) is one of 91 years.
Wait(d) == Times(Second, d)

-----------------------------------------------------------------------------
(* Properties.                                                             *)

Serving == pc = "serving"

\* What the environment says of a key, in the order-free way.
Says(k) == IF k \in DOMAIN env THEN Cut[env[k]] ELSE Unset

\* A server that listens has each setting from its own variable, whichever order
\* the environment came in and whichever others were set or not, or else the one of
\* the literal in NewServer.
SettingsAsGiven ==
  Serving =>
    /\ Says("KEEPALIVE_RETRY") # Unset => server.retry = Atoi(Says("KEEPALIVE_RETRY"))
    /\ Says("KEEPALIVE_RETRY") = Unset => server.retry = WordOf(5)
    /\ Says("NETWORK") # Unset => server.net = Says("NETWORK")
    /\ Says("NETWORK") = Unset => server.net = "tcp"
    /\ Says("ADDRESS") # Unset => server.addr = Says("ADDRESS")
    /\ Says("ADDRESS") = Unset => server.addr = "0.0.0.0:5684"

\* server.go:64-65: a duration in the environment is "in seconds".  The number n
\* of a variable makes run() wait n seconds (that wrap, if n is over 9223372036),
\* although the unit is applied in one file and the setting made in another.
WaitsInSeconds ==
  Serving =>
    /\ Says("KEEPALIVE_TIME") # Unset =>
         Wait(server.time) = Times(Atoi(Says("KEEPALIVE_TIME")), Second)
    /\ Says("KEEPALIVE_INTERVAL") # Unset =>
         Wait(server.interval) = Times(Atoi(Says("KEEPALIVE_INTERVAL")), Second)

\* A server asked for TLS does not listen without it, nor without a root that it
\* read from the directory it was given: a missing variable, an unreadable file
\* or a directory of intermediates ends the process instead.
TLSAsAsked ==
  Serving /\ Says("NETWORK") \in TLSNetworks =>
    /\ \A k \in TLSKey : Says(k) # Unset
    /\ \E c \in roots : Issuer[c] = Subject[c] /\ c \in Pool[Says("TLS_CA_POOL")]

\* Every certificate that a client was let in with chains to an authority in the
\* directory that issued itself: it is in no set of certificates without such an
\* authority whose members' issuers in the directory are all in the set.
AdmittedChain ==
  LET dir == IF Says("TLS_CA_POOL") \in DOMAIN Pool
             THEN Pool[Says("TLS_CA_POOL")] \cap CA ELSE {}
      anchors == {c \in dir : Issuer[c] = Subject[c]}
      rootless(S) ==
        /\ S \cap anchors = {}
        /\ \A c \in S, p \in dir : Issuer[c] = Subject[p] => p \in S
  IN  \A S \in SUBSET Cert : S \cap admitted # {} => ~rootless(S)
=============================================================================
