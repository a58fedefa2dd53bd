---------------------------- MODULE MCRemoteForward ----------------------------
(* TLC instances of RemoteForward.  The server has a loopback interface of *)
(* both families and a network interface; a wildcard is bound for each     *)
(* family on its own, like localhost.                                      *)
EXTENDS RemoteForward

MCInterfaces == {"lo4", "lo6", "eth4"}

SocketsOf(host) ==
  CASE host = "127.0.0.1" -> {{"lo4"}}
    [] host = "::1" -> {{"lo6"}}
    [] host = "localhost" -> {{"lo4"}, {"lo6"}}
    [] host = "10.0.0.1" -> {{"eth4"}}
    [] host = "0.0.0.0" -> {{"lo4", "eth4"}}
    [] OTHER -> {{"lo4", "eth4"}, {"lo6"}}

MCSockets == [host \in Hosts |-> SocketsOf(host)]
================================================================================
