-------------------------------- MODULE MCWsProxy --------------------------------
(* TLC instances of WsProxy: the constants are in the .cfg files.          *)
EXTENDS WsProxy
================================================================================
