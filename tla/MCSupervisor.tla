------------------------------ MODULE MCSupervisor ------------------------------
(* TLC instances of Supervisor: the constants are in the .cfg files.       *)
EXTENDS Supervisor
================================================================================
