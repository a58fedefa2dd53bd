-------------------------------- MODULE MCLaunch ---------------------------------
(* TLC instance of Launch: arguments, config files and the paths whose     *)
(* connection is explored.                                                 *)
EXTENDS Launch

MCNames == {"h", "127.0.0.1"}
MCV6 == {"::1"}
MCNumbers == {"0", "80"}
MCDefaultFiles == <<"a", "b">>

Alias(user, host, port) == [user |-> user, host |-> host, port |-> port]
Ssh(local, remote, host, jumps, port, user, identity, strict, password) ==
  [kind |-> "ssh", local |-> local, remote |-> remote, host |-> host, jumps |-> jumps,
   port |-> port, user |-> user, identity |-> identity, strict |-> strict,
   password |-> password]

(* Texts of up to five fields, combinations of up to two rules of a kind,  *)
(* and every mix of options, alias and config.                             *)
Text(s) == [i \in DOMAIN s |-> Plain(s[i])]
Simple == Text(<<"80", "h", "80">>)
SomeSpecs ==
  {Simple, Text(<<"h", "80", "h", "80">>), Text(<<"127.0.0.1", "80", "h", "80">>),
   Text(<<"0", "h", "80">>)}
UpTo(n, S) == UNION {[1 .. m -> S] : m \in 0 .. n}

Plainly(local, remote) ==
  Ssh(local, remote, Alias("", "x", 0), <<>>, 0, "", <<>>, FALSE, FALSE)

MCSshCommands ==
  {Plainly(<<s>>, <<>>) : s \in UpTo(5, Fields)}
    \cup {Plainly(l, r) : l, r \in UpTo(2, SomeSpecs)}
    \cup {Ssh(<<Simple>>, <<>>, Alias(u, "app", p), j, op, ou, i, FALSE, FALSE) :
            u, ou \in {"", "u"}, p \in {0, 2222}, op \in {0, 22}, i \in {<<>>, <<"b">>},
            j \in {<<>>, <<<<Alias("", "", 0)>>>>,
                   <<<<Alias("v", "j", 0), Alias("", "k", 2200)>>, <<Alias("", "l", 0)>>>>}}
    \cup {Ssh(<<Simple>>, <<>>, Alias("", "app", 0), <<>>, 0, "", <<>>, s, p) :
            s, p \in BOOLEAN}

MCConfigs ==
  {<<>>,
   [app |-> [NoParams EXCEPT !.host = "d", !.port = 2022, !.user = "deploy",
                             !.files = <<"gone", "b">>,
                             !.jumps = <<Alias("", "j", 0), Alias("", "k", 0)>>],
    k |-> [NoParams EXCEPT !.files = <<"gone", "a">>, !.jumps = <<Alias("", "l", 0)>>]],
   [app |-> [NoParams EXCEPT !.files = <<"gone", "a", "b">>]],
   [app |-> [NoParams EXCEPT !.files = <<"a">>]]}

Host(host, port, user, files) ==
  [host |-> host, port |-> port, user |-> user, files |-> files]
MCTargets ==
  {<<Host("j", 22, "me", <<"a", "b">>), Host("k", 22, "me", <<"gone", "a">>),
     Host("d", 2022, "deploy", <<"gone", "b">>)>>,
   <<Host("app", 22, "me", <<"gone", "a", "b">>)>>, <<Host("app", 22, "me", <<"a">>)>>}

(* URLs with at most one oddity besides their scheme and port.             *)
Url(scheme, port) ==
  [scheme |-> scheme, host |-> "h", port |-> port, path |-> "/", query |-> "",
   extra |-> FALSE]
MCAnyTcp == Url("tcp", 80)
Urls ==
  LET plain == {Url(s, p) : s \in {"tcp", "ws", "wss", "http", "https", "ftp"},
                            p \in {0, 8080}}
  IN  plain \cup {[u EXCEPT !.path = "/ws"] : u \in plain}
        \cup {[u EXCEPT !.query = "t2"] : u \in plain}
        \cup {[u EXCEPT !.extra = TRUE] : u \in plain}
        \cup {[Url("tcp", 80) EXCEPT !.host = ""]}
MCBridgeCommands ==
  {[kind |-> "bridge", to |-> to, from |-> from, token |-> token] :
     to, from \in Urls, token \in {"", "t1", "odd"}}
================================================================================
