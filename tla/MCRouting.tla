------------------------------ MODULE MCRouting ------------------------------
(* Constants for model-checking Routing.                                    *)
EXTENDS RoutingBroker, TLC

CONSTANTS p1, p2, d1, d2, d3

C(p, i) == [pod |-> p, id |-> i]

\* A device may move to another pod, and come back to the first.
MovingConns == {C(p1, 1), C(p1, 2), C(p2, 1)}

\* Two connections to the same pod, on which either device may be named.
SharedPodConns == {C(p1, 1), C(p1, 2)}

OneConn == {C(p1, 1)}

AllRegistered == [d \in Device |-> "registered"]

\* d2 was provisioned and never registered: it logs in without a route.
SecondProvisioned == [d \in Device |-> IF d = d1 THEN "registered" ELSE "provisioned"]

\* MySQL has no row of d3: its logins are not answered.
ThirdUnknown == [d \in Device |-> IF d = d3 THEN "unknown" ELSE "registered"]

HandlerSymmetry == Permutations(Handler)
=============================================================================
