----------------------------- MODULE MCRegistry -----------------------------
(* Constants for model-checking Registry.                                   *)
EXTENDS RegistryCredentials, TLC

Goroutines == Permutations(North) \cup Permutations(Gateway)
=============================================================================
