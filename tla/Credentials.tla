---------------------------- MODULE Credentials ----------------------------
(***************************************************************************)
(* What the registry promises about tokens, without SQL, goroutines, users *)
(* and failures of statements: a row of the token table is a credential,   *)
(* a pair of an access and a refresh token.  A credential is made and      *)
(* changed in one instant, every new string is new, each answer has the    *)
(* pair that was made in that instant, and a pair is exchanged for one who *)
(* showed the access token of that credential (when it was shown, it was   *)
(* the current one).  Answers and requests may be lost at any time.        *)
(***************************************************************************)
EXTENDS Naturals, Sequences

CONSTANTS
  String,  \* the random strings there are
  None     \* NULL, which is no string

VARIABLES
  current,   \* the credentials, by token_id
  exchanges, \* requests to exchange a credential, with the token that was shown
  pending,   \* answers on their way
  told       \* answers that arrived

vars == <<current, exchanges, pending, told>>

Pair(a, r) == [access |-> a, refresh |-> r]
Request(i, shown) == [tid |-> i, shown |-> shown]
Answer(i, shown, p) == [tid |-> i, mediated |-> shown, row |-> p]

\* Who holds what: the credentials and the pairs in answers.
Held ==
  {<<i, current[i]>> : i \in DOMAIN current}
    \cup {<<a.tid, a.row>> : a \in pending \cup told}

Strings(p) == {p.access, p.refresh} \ {None}
Unused == String \ UNION {Strings(h[2]) : h \in Held}

Init == current = <<>> /\ exchanges = {} /\ pending = {} /\ told = {}

\* A device or client is provisioned.
Grant ==
  \E x \in Unused :
    /\ current' = Append(current, Pair(x, None))
    /\ pending' = pending \cup {Answer(Len(current) + 1, None, Pair(x, None))}
    /\ UNCHANGED <<exchanges, told>>

\* The access token of a credential is shown.
Show(i) ==
  /\ exchanges' = exchanges \cup {Request(i, current[i].access)}
  /\ UNCHANGED <<current, pending, told>>

\* A credential for which it was shown becomes a new pair.
Exchange(q) ==
  \E x, y \in Unused :
    /\ x # y
    /\ current' = [current EXCEPT ![q.tid] = Pair(x, y)]
    /\ pending' = pending \cup {Answer(q.tid, q.shown, Pair(x, y))}
    /\ exchanges' \in {exchanges, exchanges \ {q}}
    /\ UNCHANGED told

\* One that has a refresh token, which is shown, keeps it with a new access token.
Refresh(i) ==
  \E x \in Unused :
    /\ current[i].refresh # None
    /\ current' = [current EXCEPT ![i].access = x]
    /\ pending' = pending \cup {Answer(i, None, Pair(x, current[i].refresh))}
    /\ UNCHANGED <<exchanges, told>>

Deliver(a) ==
  /\ told' = told \cup {a}
  /\ pending' \in {pending, pending \ {a}}
  /\ UNCHANGED <<current, exchanges>>

Lose ==
  /\ UNCHANGED <<current, told>>
  /\ exchanges' \subseteq exchanges /\ pending' \subseteq pending

Next ==
  \/ Lose \/ Grant
  \/ \E i \in DOMAIN current : Show(i) \/ Refresh(i)
  \/ \E q \in exchanges : Exchange(q)
  \/ \E a \in pending : Deliver(a)

Spec == Init /\ [][Next]_vars

\* A string that was ever told, or is about to be, opens the credential it was
\* told for and no other, whatever became of that.
OneRowPerString ==
  \A g, h \in Held : g[1] # h[1] => Strings(g[2]) \cap Strings(h[2]) = {}
=============================================================================
