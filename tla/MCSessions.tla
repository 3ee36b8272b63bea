----------------------------- MODULE MCSessions -----------------------------
(* Constants for model-checking Sessions.                                   *)
EXTENDS Sessions, TLC

CONSTANTS c1, c2, c3, a1, a2

\* Two connections to one local address, and one to another.
TwoAddresses == [c \in Conn |-> IF c = c3 THEN a2 ELSE a1]

OneAddress == [c \in Conn |-> a1]

\* The connections that share an address belong to servers that close a silent
\* peer after one timeout and after two; KEEPALIVE_RETRY of the third is invalid.
MixedRetries == (c1 :> 1) @@ (c2 :> 2) @@ (c3 :> 0)

TwoRetries == [c \in Conn |-> 2]
=============================================================================
