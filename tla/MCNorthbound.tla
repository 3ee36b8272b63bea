---------------------------- MODULE MCNorthbound ----------------------------
(* Constants for model-checking Northbound.                                 *)
EXTENDS Northbound

CONSTANTS r1
=============================================================================
