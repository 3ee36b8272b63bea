------------------------------ MODULE MCTables ------------------------------
(* Constants for model-checking Tables.                                     *)
EXTENDS Tables

CONSTANTS r1, r2, r3
=============================================================================
