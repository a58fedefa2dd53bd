-------------------------------- MODULE MCTunnel --------------------------------
(* TLC instances of Tunnel: the constants are in the .cfg files.           *)
EXTENDS Tunnel, TLC

ClientSymmetry == Permutations(Clients)
================================================================================
