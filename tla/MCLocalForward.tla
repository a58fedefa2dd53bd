----------------------------- MODULE MCLocalForward -----------------------------
(* TLC instances of LocalForward: the constants are in the .cfg files.     *)
EXTENDS LocalForward, TLC

ClientSymmetry == Permutations(Clients)
================================================================================
