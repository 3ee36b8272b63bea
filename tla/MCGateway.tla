----------------------------- MODULE MCGateway -----------------------------
(* Constants for model-checking Gateway.                                    *)
EXTENDS Gateway

CONSTANTS p1, d1, a1

OneConn == {[pod |-> p1, id |-> 1]}

AllRegistered == [d \in Device |-> "registered"]
OneAddress == [c \in Conn |-> a1]
OneRetry == [c \in Conn |-> 1]
=============================================================================
