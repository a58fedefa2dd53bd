-------------------------------- MODULE MCBridge --------------------------------
(* TLC instances of Bridge: the constants are in the .cfg files.           *)
EXTENDS Bridge, TLC

ClientSymmetry == Permutations(Clients)
================================================================================
