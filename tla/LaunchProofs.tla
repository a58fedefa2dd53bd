------------------------------ MODULE LaunchProofs ------------------------------
(***************************************************************************)
(* Proofs about Launch.tla: of the bridge arguments, for every set of      *)
(* URLs, tokens and commands, and that what HopChainProofs shows of the    *)
(* chain holds of the run main() starts.                                   *)
(***************************************************************************)
EXTENDS Launch, HopChainProofs, SequenceTheorems, WellFoundedInduction

(* What main() hands to bridge::run() is what parse_bridge() has accepted. *)
BridgeInv ==
  /\ phase = "args" => command \in SshCommands \cup BridgeCommands
  /\ phase = "bridge" =>
       command \in BridgeCommands /\ parsed = ParseBridge(command) /\ parsed.ok

LEMMA BridgeInvariance == LaunchSpec => []BridgeInv
<1>1. LaunchInit => BridgeInv
  BY DEF LaunchInit, BridgeInv
<1>2. BridgeInv /\ [LaunchNext]_allVars => BridgeInv'
  <2> SUFFICES ASSUME BridgeInv, [LaunchNext]_allVars PROVE BridgeInv'
    OBVIOUS
  <2>1. CASE ParseSshArgs
    BY <2>1 DEF BridgeInv, ParseSshArgs
  <2>2. CASE ParseBridgeArgs
    BY <2>2, CommandAssumption DEF BridgeInv, ParseBridgeArgs
  <2>3. CASE Resolve
    BY <2>3 DEF BridgeInv, Resolve
  <2>4. CASE Start
    BY <2>4 DEF BridgeInv, Start
  <2>5. CASE Running(ChainNext) \/ UNCHANGED allVars
    <3>1. UNCHANGED mainVars
      BY <2>5 DEF Running, allVars
    <3> QED
      BY <3>1 DEF BridgeInv, mainVars
  <2> QED
    BY <2>1, <2>2, <2>3, <2>4, <2>5 DEF LaunchNext
<1> QED
  BY <1>1, <1>2, PTL DEF LaunchSpec

(* What the two kinds of endpoint keep of a URL.                           *)
LEMMA TcpEndpoint ==
  ASSUME NEW url \in ParsedUrl
  PROVE  LET e == ParseTcpEndpoint(url) IN
         \/ e.kind = "none"
         \/ /\ e.kind = "Tcp" /\ e.port \in Nat \ {0}
  BY DEF ParsedUrl, ParseTcpEndpoint, Endpoint, NoEndpoint, ValidateUrlCommon

LEMMA WebsocketEndpoint ==
  ASSUME NEW url \in ParsedUrl, NEW kind \in {"Ws", "Wss"}, NEW allowQuery \in BOOLEAN
  PROVE  LET e == ParseWebsocketEndpoint(url, kind, allowQuery) IN
         \/ e.kind = "none"
         \/ /\ e.kind = kind /\ e.port \in Nat \ {0}
            /\ e.path = url.path /\ e.query = url.query
            /\ ValidateUrlCommon(url)
<1>1. KnownDefault(url.scheme) \in Nat \ {0} /\ url.port \in Nat
  BY DEF KnownDefault, ParsedUrl
<1>2. CASE ValidateUrlCommon(url) /\ (allowQuery \/ url.query = "")
  BY <1>1, <1>2 DEF ParseWebsocketEndpoint, Endpoint
<1>3. CASE ~(ValidateUrlCommon(url) /\ (allowQuery \/ url.query = ""))
  BY <1>3 DEF ParseWebsocketEndpoint, NoEndpoint
<1> QED
  BY <1>2, <1>3

(* The endpoints a command line can lead to.                               *)
LEMMA ToEndpoint ==
  ASSUME NEW url \in ParsedUrl
  PROVE  LET e == ParseBridgeToEndpoint(url) IN
         e.kind = "none" \/ (e.kind \in {"Tcp", "Ws"} /\ e.port \in Nat \ {0})
<1>1. CASE url.scheme = "tcp"
  BY <1>1, TcpEndpoint DEF ParseBridgeToEndpoint
<1>2. CASE url.scheme \in {"ws", "http"}
  <2>1. ParseBridgeToEndpoint(url) = ParseWebsocketEndpoint(url, "Ws", FALSE)
    BY <1>2 DEF ParseBridgeToEndpoint
  <2> QED
    BY <2>1, WebsocketEndpoint
<1>3. CASE url.scheme \notin {"tcp", "ws", "http"}
  BY <1>3 DEF ParseBridgeToEndpoint, NoEndpoint
<1> QED
  BY <1>1, <1>2, <1>3

LEMMA FromEndpoint ==
  ASSUME NEW url \in ParsedUrl
  PROVE  LET e == ParseBridgeFromEndpoint(url) IN
         \/ e.kind = "none"
         \/ e.kind = "Tcp" /\ e.port \in Nat \ {0}
         \/ /\ e.kind \in {"Ws", "Wss"} /\ e.port \in Nat \ {0}
            /\ e.path = url.path /\ e.query = url.query
            /\ ValidateUrlCommon(url)
<1>1. CASE url.scheme = "tcp"
  BY <1>1, TcpEndpoint DEF ParseBridgeFromEndpoint
<1>2. CASE url.scheme \in {"ws", "http"}
  <2>1. ParseBridgeFromEndpoint(url) = ParseWebsocketEndpoint(url, "Ws", TRUE)
    BY <1>2 DEF ParseBridgeFromEndpoint
  <2> QED
    BY <2>1, WebsocketEndpoint
<1>3. CASE url.scheme \in {"wss", "https"}
  <2>1. ParseBridgeFromEndpoint(url) = ParseWebsocketEndpoint(url, "Wss", TRUE)
    BY <1>3 DEF ParseBridgeFromEndpoint
  <2> QED
    BY <2>1, WebsocketEndpoint
<1>4. CASE url.scheme \notin {"tcp", "ws", "http", "wss", "https"}
  BY <1>4 DEF ParseBridgeFromEndpoint, NoEndpoint
<1> QED
  BY <1>1, <1>2, <1>3, <1>4

(* The four combinations there are.                                        *)
LEMMA SupportedKinds ==
  ASSUME NEW to, NEW from, Supported(to, from)
  PROVE  \/ to.kind = "Tcp" /\ from.kind \in {"Tcp", "Ws", "Wss"}
         \/ to.kind = "Ws" /\ from.kind = "Tcp"
<1>1. ASSUME NEW a, NEW b,
             <<a, b>> \in {<<"Tcp", "Tcp">>, <<"Tcp", "Ws">>, <<"Tcp", "Wss">>, <<"Ws", "Tcp">>}
      PROVE  \/ a = "Tcp" /\ b \in {"Tcp", "Ws", "Wss"}
             \/ a = "Ws" /\ b = "Tcp"
  BY <1>1
<1> QED
  BY <1>1, Zenon DEF Supported

LEMMA ParsedBridge ==
  ASSUME BridgeInv, phase = "bridge"
  PROVE  /\ parsed.to = ParseBridgeToEndpoint(command.to)
         /\ parsed.from = ParseBridgeFromEndpoint(command.from)
         /\ parsed.token = command.token
         /\ parsed.token # "" => {parsed.to.kind, parsed.from.kind} # {"Tcp"}
         /\ Supported(parsed.to, parsed.from)
<1> DEFINE to == ParseBridgeToEndpoint(command.to)
           from == ParseBridgeFromEndpoint(command.from)
           ok == Supported(to, from) /\ (command.token # "" => {to.kind, from.kind} # {"Tcp"})
<1>1. parsed = [ok |-> ok, to |-> to, from |-> from, token |-> command.token] /\ parsed.ok
  BY DEF BridgeInv, ParseBridge
<1> HIDE DEF ok
<1>2. parsed.ok = ok /\ parsed.to = to /\ parsed.from = from /\ parsed.token = command.token
  BY <1>1
<1>3. ok
  BY <1>1, <1>2, Zenon
<1> QED
  BY <1>2, <1>3 DEF ok

(* No accepted arguments lead to unreachable!().                           *)
THEOREM NothingIsUnreachable == LaunchSpec => []DispatchIsTotal
<1>1. BridgeInv => DispatchIsTotal
  <2> SUFFICES ASSUME BridgeInv, phase = "bridge" PROVE DispatchIsTotal
    BY DEF DispatchIsTotal
  <2>1. {command.to, command.from} \subseteq ParsedUrl
    BY CommandAssumption DEF BridgeInv
  <2>2. /\ parsed.to = ParseBridgeToEndpoint(command.to)
        /\ parsed.from = ParseBridgeFromEndpoint(command.from)
        /\ parsed.token # "" => {parsed.to.kind, parsed.from.kind} # {"Tcp"}
        /\ Supported(parsed.to, parsed.from)
    BY ParsedBridge
  <2>3. {parsed.to.port, parsed.from.port} \subseteq Nat \ {0}
    <3>1. parsed.to.kind # "none" /\ parsed.from.kind # "none"
      BY <2>2, SupportedKinds
    <3>2. command.to \in ParsedUrl /\ command.from \in ParsedUrl
      BY <2>1
    <3>3. parsed.to.port \in Nat \ {0}
      BY <2>2, <3>1, <3>2, ToEndpoint
    <3>4. parsed.from.port \in Nat \ {0}
      BY <2>2, <3>1, <3>2, FromEndpoint
    <3> QED
      BY <3>3, <3>4
  <2>4. Dispatch(parsed) # "unreachable"
    BY <2>2, SupportedKinds DEF Dispatch
  <2>5. parsed.token # "" => Dispatch(parsed) # "tcp_tcp"
    BY <2>2, SupportedKinds DEF Dispatch
  <2> QED
    BY <2>3, <2>4, <2>5 DEF DispatchIsTotal
<1> QED
  BY <1>1, BridgeInvariance, PTL

(* Two bridges that are given one URL agree on the path, and on the token  *)
(* when they are given one.                                                *)
THEOREM BridgesAgree == LaunchSpec => []BridgesMeet
<1>1. BridgeInv => BridgesMeet
  <2> SUFFICES ASSUME BridgeInv, phase = "bridge", parsed.from.kind # "Tcp"
               PROVE  BridgesMeet
    BY DEF BridgesMeet
  <2> DEFINE listen == [command.from EXCEPT !.scheme = "ws", !.query = ""]
             far == ParseBridge([to |-> listen, from |-> AnyTcp, token |-> command.token])
  <2>1. {command.to, command.from} \subseteq ParsedUrl
    BY CommandAssumption DEF BridgeInv
  <2>2. /\ parsed.from = ParseBridgeFromEndpoint(command.from)
        /\ parsed.token = command.token
        /\ parsed.from.kind # "none"
    BY ParsedBridge, SupportedKinds
  <2>3. /\ parsed.from.path = command.from.path
        /\ parsed.from.query = command.from.query
        /\ ValidateUrlCommon(command.from)
    <3>1. command.from \in ParsedUrl
      BY <2>1
    <3> HIDE DEF ParsedUrl
    <3> QED
      BY <2>2, <3>1, FromEndpoint
  <2>4. /\ ParseBridgeToEndpoint(listen).kind = "Ws"
        /\ ParseBridgeToEndpoint(listen).path = command.from.path
    <3>1. listen.scheme = "ws" /\ listen.query = "" /\ listen.path = command.from.path
      BY <2>1 DEF ParsedUrl
    <3>2. ValidateUrlCommon(listen)
      BY <2>1, <2>3 DEF ParsedUrl, ValidateUrlCommon
    <3>3. ParseBridgeToEndpoint(listen) = ParseWebsocketEndpoint(listen, "Ws", FALSE)
      BY <3>1 DEF ParseBridgeToEndpoint
    <3>4. ParseWebsocketEndpoint(listen, "Ws", FALSE)
            = Endpoint("Ws", listen, IF listen.port = 0 THEN KnownDefault(listen.scheme)
                                     ELSE listen.port)
      BY <3>1, <3>2 DEF ParseWebsocketEndpoint
    <3> HIDE DEF listen
    <3>5. ASSUME NEW port PROVE /\ Endpoint("Ws", listen, port).kind = "Ws"
                                /\ Endpoint("Ws", listen, port).path = listen.path
      BY DEF Endpoint
    <3> QED
      BY <3>1, <3>3, <3>4, <3>5
  <2>5. ParseBridgeFromEndpoint(AnyTcp).kind = "Tcp"
    BY CommandAssumption DEF ParseBridgeFromEndpoint
  <2>6. far.ok /\ far.to.path = command.from.path
    BY <2>4, <2>5 DEF ParseBridge, Supported
  <2>7. Peer = far
    BY DEF Peer
  <2>8. ASSUME NEW token
        PROVE  ValidateWebsocketRequest(WebsocketRequest(parsed), [Peer EXCEPT !.token = token])
                 <=> token \in {"", command.token, command.from.query}
    BY <2>2, <2>3, <2>6, <2>7
    DEF ValidateWebsocketRequest, WebsocketRequest, IsAuthorized, ParseBridge
  <2> QED
    BY <2>6, <2>7, <2>8 DEF BridgesMeet
<1> QED
  BY <1>1, BridgeInvariance, PTL
--------------------------------------------------------------------------------
(***************************************************************************)
(* The arguments of ssh: until the run begins, `parsed` is what            *)
(* parse_ssh() makes of them and the target what resolve_target() makes.   *)
(***************************************************************************)
AsParsed ==
  /\ command \in SshCommands
  /\ parsed = ParseSsh(command.local, command.remote)

SshInv ==
  /\ phase = "args" /\ command.kind = "ssh" => config \in Configs
  /\ phase \in {"resolve", "resolved"} => AsParsed /\ parsed.ok /\ config \in Configs
  /\ phase = "exit" /\ command.kind = "ssh" => AsParsed /\ ~parsed.ok
  /\ phase = "resolved" => target = ResolveTarget(command, config)

LEMMA SshInvariance == LaunchSpec => []SshInv
<1>1. LaunchInit => SshInv
  BY DEF LaunchInit, SshInv
<1>2. BridgeInv /\ SshInv /\ [LaunchNext]_allVars => SshInv'
  <2> SUFFICES ASSUME BridgeInv, SshInv, [LaunchNext]_allVars PROVE SshInv'
    OBVIOUS
  <2>1. CASE ParseSshArgs
    <3>1. command \in SshCommands /\ command' = command /\ config' = config
      BY <2>1, CommandAssumption DEF BridgeInv, ParseSshArgs
    <3>2. parsed' = ParseSsh(command.local, command.remote) /\ config \in Configs
      BY <2>1 DEF SshInv, ParseSshArgs
    <3>3. phase' = IF parsed'.ok THEN "resolve" ELSE "exit"
      BY <2>1 DEF ParseSshArgs
    <3> QED
      BY <3>1, <3>2, <3>3 DEF SshInv, AsParsed
  <2>2. CASE ParseBridgeArgs
    BY <2>2 DEF SshInv, ParseBridgeArgs
  <2>3. CASE Resolve
    BY <2>3 DEF SshInv, Resolve, AsParsed
  <2>4. CASE Start
    BY <2>4 DEF SshInv, Start
  <2>5. CASE Running(ChainNext)
    BY <2>5 DEF SshInv, Running, mainVars
  <2>6. CASE UNCHANGED allVars
    BY <2>6 DEF SshInv, AsParsed, allVars, mainVars, vars
  <2> QED
    BY <2>1, <2>2, <2>3, <2>4, <2>5, <2>6 DEF LaunchNext
<1> QED
  BY <1>1, <1>2, BridgeInvariance, PTL DEF LaunchSpec

(* What parse_ssh() keeps of the rules.                                    *)
LEMMA ParsedSsh ==
  ASSUME AsParsed
  PROVE  /\ command.local \in Seq(Seq(Fields))
         /\ DOMAIN parsed.local = 1 .. Len(command.local) /\ Len(command.local) \in Nat
         /\ DOMAIN parsed.remote = 1 .. Len(command.remote) /\ Len(command.remote) \in Nat
         /\ \A i \in DOMAIN command.local :
              parsed.local[i] = ParseForwardSpec(command.local[i])
         /\ parsed.ok <=> /\ command.local \o command.remote # <<>>
                          /\ \A i \in DOMAIN parsed.local : parsed.local[i] # Bad
                          /\ \A i \in DOMAIN parsed.remote : parsed.remote[i] # Bad
                          /\ Distinct(parsed.local, {}) /\ Distinct(parsed.remote, {"0"})
<1>1. command.local \in Seq(Seq(Fields)) /\ command.remote \in Seq(Seq(Fields))
  BY CommandAssumption DEF AsParsed
<1>2. /\ parsed.local = ParseSpecs(command.local) /\ parsed.remote = ParseSpecs(command.remote)
      /\ parsed.ok <=> /\ command.local \o command.remote # <<>>
                       /\ \A i \in DOMAIN parsed.local : parsed.local[i] # Bad
                       /\ \A i \in DOMAIN parsed.remote : parsed.remote[i] # Bad
                       /\ Distinct(parsed.local, {}) /\ Distinct(parsed.remote, {"0"})
  BY DEF AsParsed, ParseSsh
<1>3. ASSUME NEW specs \in Seq(Seq(Fields))
      PROVE  /\ DOMAIN ParseSpecs(specs) = 1 .. Len(specs) /\ Len(specs) \in Nat
             /\ \A i \in DOMAIN specs : ParseSpecs(specs)[i] = ParseForwardSpec(specs[i])
  BY DEF ParseSpecs
<1> QED
  BY <1>1, <1>2, <1>3

(* A rule that is read otherwise than documented is one of the exceptions. *)
LEMMA RuleAsDocumented ==
  ASSUME NEW s \in Seq(Fields)
  PROVE  \/ ParseForwardSpec(s) = Expected(s)
         \/ ParseForwardSpec(s) = Bad /\ Len(s) = 3 /\ s[2].brackets
         \/ Expected(s) = Bad /\ \E j \in DOMAIN s : s[j] = Plain("")
<1>1. /\ Len(s) \in Nat /\ DOMAIN s = 1 .. Len(s)
      /\ \A i \in 1 .. Len(s) : s[i] \in Fields
  OBVIOUS
<1>2. ASSUME NEW f \in Fields, ~IsHost(f) PROVE f = Plain("") /\ ~f.brackets
  <2>1. f.text = "" /\ f.brackets = FALSE
    BY <1>2 DEF Fields, IsHost
  <2>2. f = [text |-> f.text, brackets |-> f.brackets]
    BY DEF Fields
  <2> QED
    BY <2>1, <2>2, Zenon DEF Plain
<1>3. \A f \in Fields : f.brackets \in BOOLEAN /\ (f.brackets => IsHost(f))
  BY DEF Fields, IsHost
<1>4. ASSUME NEW b, NEW p, NEW d, NEW q, p.brackets \/ q.brackets
      PROVE  Rule(b, p, d, q) = Bad
  BY <1>4 DEF Rule, Plain
<1>5. /\ Len(s) = 3 => Expected(s) = IF IsHost(s[2])
                                   THEN Rule(Plain("127.0.0.1"), s[1], s[2], s[3]) ELSE Bad
      /\ Len(s) = 4 => Expected(s) = IF IsHost(s[1]) /\ IsHost(s[3])
                                   THEN Rule(s[1], s[2], s[3], s[4]) ELSE Bad
      /\ Len(s) \notin {3, 4} => Expected(s) = Bad
  BY <1>1 DEF Expected
<1>6. CASE \E i \in DOMAIN s : s[i].brackets
  <2>1. ParseForwardSpec(s) = ParseBracketed(s)
    BY <1>6 DEF ParseForwardSpec
  <2>2. CASE Len(s) = 4
    BY <1>5, <2>1, <2>2 DEF ParseBracketed
  <2>3. CASE Len(s) = 3
    <3>1. ParseForwardSpec(s) = Bad
      BY <2>1, <2>3 DEF ParseBracketed
    <3>2. CASE s[2].brackets
      BY <2>3, <3>1, <3>2
    <3>3. CASE ~s[2].brackets
      <4>1. s[1].brackets \/ s[3].brackets
        BY <1>1, <1>6, <2>3, <3>3
      <4>2. Rule(Plain("127.0.0.1"), s[1], s[2], s[3]) = Bad
        BY <1>4, <4>1
      <4> QED
        BY <1>5, <2>3, <3>1, <4>2
    <3> QED
      BY <3>2, <3>3
  <2>4. CASE Len(s) \notin {3, 4}
    BY <1>5, <2>1, <2>4 DEF ParseBracketed
  <2> QED
    BY <2>2, <2>3, <2>4
<1>7. CASE \A i \in DOMAIN s : ~s[i].brackets
  <2>1. ParseForwardSpec(s) = ParsePlain(s)
    BY <1>7 DEF ParseForwardSpec
  <2>2. CASE Len(s) = 3
    <3>1. ParsePlain(s) = Rule(Plain("127.0.0.1"), s[1], s[2], s[3])
      BY <2>2 DEF ParsePlain, DefaultBind
    <3>2. 2 \in DOMAIN s /\ s[2] \in Fields
      BY <1>1, <2>2
    <3>3. CASE IsHost(s[2])
      BY <1>5, <2>1, <2>2, <3>1, <3>3
    <3>4. CASE ~IsHost(s[2])
      <4>1. s[2] = Plain("")
        BY <1>2, <3>2, <3>4
      <4>2. Expected(s) = Bad
        BY <1>5, <2>2, <3>4
      <4> QED
        BY <3>2, <4>1, <4>2
    <3> QED
      BY <3>3, <3>4
  <2>3. CASE Len(s) = 4
    <3>1. ParsePlain(s) = Rule(s[1], s[2], s[3], s[4])
      BY <2>3 DEF ParsePlain
    <3>2. {1, 3} \subseteq DOMAIN s /\ {s[1], s[3]} \subseteq Fields
      BY <1>1, <2>3
    <3>3. CASE IsHost(s[1]) /\ IsHost(s[3])
      BY <1>5, <2>1, <2>3, <3>1, <3>3
    <3>4. CASE ~(IsHost(s[1]) /\ IsHost(s[3]))
      <4>1. PICK i \in {1, 3} : ~IsHost(s[i])
        BY <3>4
      <4>2. i \in DOMAIN s /\ s[i] \in Fields
        BY <3>2
      <4>3. s[i] = Plain("")
        BY <1>2, <4>1, <4>2
      <4>4. Expected(s) = Bad
        BY <1>5, <2>3, <3>4
      <4> QED
        BY <4>2, <4>3, <4>4
    <3> QED
      BY <3>3, <3>4
  <2>4. CASE Len(s) \notin {3, 4}
    BY <1>5, <2>1, <2>4 DEF ParsePlain
  <2> QED
    BY <2>2, <2>3, <2>4
<1> QED
  BY <1>6, <1>7

(* The rules of every command line are read as documented.                 *)
THEOREM RulesAreRead == LaunchSpec => []RulesAsDocumented
<1>1. SshInv => RulesAsDocumented
  <2> SUFFICES ASSUME SshInv, SshParsed, NEW i \in DOMAIN command.local
               PROVE  LET s == command.local[i] IN
                      \/ parsed.local[i] = Expected(s)
                      \/ parsed.local[i] = Bad /\ Len(s) = 3 /\ s[2].brackets
                      \/ Expected(s) = Bad /\ \E j \in DOMAIN s : s[j] = Plain("")
    BY DEF RulesAsDocumented
  <2>1. AsParsed
    BY DEF SshInv, SshParsed
  <2>2. /\ parsed.local[i] = ParseForwardSpec(command.local[i])
        /\ command.local \in Seq(Seq(Fields))
    BY <2>1, ParsedSsh
  <2>3. command.local[i] \in Seq(Fields)
    BY <2>2
  <2> QED
    BY <2>2, <2>3, RuleAsDocumented
<1> QED
  BY <1>1, SshInvariance, PTL

(* Counting the addresses tells whether two rules have the same.           *)
LEMMA CountingFindsDuplicates ==
  ASSUME NEW rules, NEW some, IsFiniteSet(some)
  PROVE  NoTwoAlike(rules, some) <=>
           \A i, j \in some : i # j => <<rules[i].bind, rules[i].port>>
                                       # <<rules[j].bind, rules[j].port>>
<1> DEFINE f == [i \in some |-> <<rules[i].bind, rules[i].port>>]
<1>1. f \in Surjection(some, Binds(rules, some))
  BY DEF Surjection, Binds
<1>2. NoTwoAlike(rules, some) <=> f \in Injection(some, Binds(rules, some))
  <2> HIDE DEF f
  <2> QED
    BY <1>1, FS_Surjection DEF NoTwoAlike
<1>3. f \in Injection(some, Binds(rules, some)) <=>
        \A i, j \in some : f[i] = f[j] => i = j
  BY DEF Injection, IsInjective, Binds
<1> QED
  BY <1>2, <1>3

(* The two validations refuse the same rules: parse_ssh() compares a rule  *)
(* whose port is not exempt with all others, tunnel.rs only with those     *)
(* whose port is not exempt either, and the ports of two alike are equal.  *)
LEMMA ValidationsAgree ==
  ASSUME NEW p, NEW m \in Nat, NEW n \in Nat,
         DOMAIN p.local = 1 .. m, DOMAIN p.remote = 1 .. n
  PROVE  ValidateNoDuplicateBinds(p) <=>
           Distinct(p.local, {}) /\ Distinct(p.remote, {"0"})
<1> DEFINE fixed == {i \in 1 .. n : p.remote[i].port # "0"}
<1>1. IsFiniteSet(1 .. m) /\ IsFiniteSet(1 .. n)
  BY FS_Interval
<1>2. IsFiniteSet(fixed)
  BY <1>1, FS_Subset
<1>3. NoTwoAlike(p.local, 1 .. m) <=> Distinct(p.local, {})
  BY <1>1, CountingFindsDuplicates DEF Distinct
<1>4. NoTwoAlike(p.remote, fixed) <=>
        \A i, j \in fixed : i # j => <<p.remote[i].bind, p.remote[i].port>>
                                       # <<p.remote[j].bind, p.remote[j].port>>
  <2> HIDE DEF fixed
  <2> QED
    BY <1>2, CountingFindsDuplicates
<1>5. NoTwoAlike(p.remote, fixed) <=> Distinct(p.remote, {"0"})
  BY <1>4 DEF Distinct
<1> QED
  BY <1>3, <1>5 DEF ValidateNoDuplicateBinds

(* Rules the command line has accepted are not refused when the run        *)
(* begins, and it refuses none without one of the reasons there are.       *)
THEOREM AcceptedIsFinal == LaunchSpec => []AcceptedRulesRun
<1>1. SshInv => AcceptedRulesRun
  <2> SUFFICES ASSUME SshInv, phase = "resolved" \/ (SshParsed /\ phase = "exit")
               PROVE  AcceptedRulesRun
    BY DEF AcceptedRulesRun
  <2>1. AsParsed
    BY DEF SshInv, SshParsed
  <2>2. ValidateNoDuplicateBinds(parsed) <=>
          Distinct(parsed.local, {}) /\ Distinct(parsed.remote, {"0"})
    BY <2>1, ParsedSsh, ValidationsAgree
  <2>3. phase = "resolved" => parsed.ok
    BY DEF SshInv
  <2>4. SshParsed /\ phase = "exit" => ~parsed.ok
    BY DEF SshInv, SshParsed
  <2> QED
    BY <2>1, <2>2, <2>3, <2>4, ParsedSsh DEF AcceptedRulesRun
<1> QED
  BY <1>1, SshInvariance, PTL
--------------------------------------------------------------------------------
(***************************************************************************)
(* The path of hosts.  FlattenSeq() is a recursive function: that there is *)
(* one, and what it returns, is shown by induction from a least            *)
(* counterexample, for which the library has WFMin.                        *)
(***************************************************************************)
(* Induction over 0 .. L, from the least counterexample.                   *)
LEMMA Induction ==
  ASSUME NEW L \in Nat, NEW S,
         0 \in S, \A n \in 1 .. L : n - 1 \in S => n \in S
  PROVE  0 .. L \subseteq S
<1> DEFINE T == (0 .. L) \ S
           R == {mn \in Nat \X Nat : mn[1] < mn[2]}
<1>1. SUFFICES ASSUME T # {} PROVE FALSE
  OBVIOUS
<1>2. PICK n \in T : \A m \in T : ~(<<m, n>> \in R)
  <2>1. T \subseteq Nat
    OBVIOUS
  <2>2. IsWellFoundedOn(R, Nat)
    BY NatLessThanWellFounded DEF OpToRel
  <2> HIDE DEF T, R
  <2> QED
    BY <1>1, <2>1, <2>2, WFMin
<1>3. n \in 1 .. L
  OBVIOUS
<1>4. n - 1 \in 0 .. L /\ <<n - 1, n>> \in R
  BY <1>3
<1>5. n - 1 \in S
  BY <1>2, <1>4
<1> QED
  BY <1>3, <1>5

(* There is a function that begins with `base` and goes on by `step`.      *)
Steps(X, L) == [1 .. L -> [X -> X]]
Unfolds(f, X, L, base, step) ==
  /\ f \in [0 .. L -> X]
  /\ f[0] = base /\ \A n \in 1 .. L : f[n] = step[n][f[n - 1]]

LEMMA Recursion ==
  ASSUME NEW X, NEW L \in Nat, NEW base \in X, NEW step \in Steps(X, L)
  PROVE  \E f : Unfolds(f, X, L, base, step)
<1> USE DEF Steps, Unfolds
<1> DEFINE Upto(m, f) ==
             f[0] = base /\ \A n \in 1 .. m : f[n] = step[n][f[n - 1]]
           S == {m \in 0 .. L : \E f \in [0 .. m -> X] : Upto(m, f)}
<1>1. 0 \in S
  <2> DEFINE g == [n \in 0 .. 0 |-> base]
  <2>1. g \in [0 .. 0 -> X] /\ g[0] = base /\ 0 \in 0 .. L
    OBVIOUS
  <2>2. Upto(0, g)
    BY <2>1
  <2> HIDE DEF g, Upto
  <2> QED
    BY <2>1, <2>2
<1>2. ASSUME NEW m \in 1 .. L, m - 1 \in S PROVE m \in S
  <2>1. PICK f \in [0 .. m - 1 -> X] : Upto(m - 1, f)
    BY <1>2
  <2> DEFINE g == [n \in 0 .. m |-> IF n = m THEN step[m][f[m - 1]] ELSE f[n]]
  <2>2. f[m - 1] \in X /\ step[m] \in [X -> X]
    BY <2>1
  <2>3. g \in [0 .. m -> X]
    BY <2>2
  <2>4. g[0] = base
    BY <2>1
  <2>5. ASSUME NEW n \in 1 .. m PROVE g[n] = step[n][g[n - 1]]
    <3>1. CASE n = m
      BY <3>1
    <3>2. CASE n # m
      <4>1. n \in 1 .. m - 1 /\ g[n] = f[n] /\ g[n - 1] = f[n - 1]
        BY <3>2
      <4> QED
        BY <2>1, <4>1
    <3> QED
      BY <3>1, <3>2
  <2>6. Upto(m, g)
    <3> HIDE DEF g
    <3> QED
      BY <2>4, <2>5
  <2> HIDE DEF g, Upto
  <2> QED
    BY <2>3, <2>6
<1> HIDE DEF S
<1>3. 0 .. L \subseteq S
  BY <1>1, <1>2, Induction
<1> QED
  BY <1>3 DEF S

(* FlattenSeq() joins the sequences one after the other.                   *)
JoinsUp(f, seqs, A) ==
  /\ f \in [0 .. Len(seqs) -> Seq(A)] /\ f[0] = <<>>
  /\ \A n \in 1 .. Len(seqs) : f[n] = f[n - 1] \o seqs[n]

LEMMA FlattenJoins ==
  ASSUME NEW A, NEW seqs \in Seq(Seq(A))
  PROVE  \E f : JoinsUp(f, seqs, A) /\ FlattenSeq(seqs) = f[Len(seqs)]
<1> DEFINE L == Len(seqs)
           X == Seq(A)
           empty == <<>>
           step == [n \in 1 .. L |-> [s \in X |-> s \o seqs[n]]]
           Def(f) == f = [i \in 1 .. L |-> IF i = 1 THEN seqs[i] ELSE f[i - 1] \o seqs[i]]
           flatten == CHOOSE f : Def(f)
<1>1. L \in Nat /\ \A i \in 1 .. L : seqs[i] \in Seq(A)
  OBVIOUS
<1>2. step \in Steps(X, L) /\ \A n \in 1 .. L : \A s \in Seq(A) : step[n][s] = s \o seqs[n]
  BY <1>1 DEF Steps
<1>3. empty \in X
  OBVIOUS
<1>4. PICK f : Unfolds(f, X, L, empty, step)
  <2> HIDE DEF X, L, step, empty
  <2> QED
    BY <1>1, <1>2, <1>3, Recursion
<1>5. JoinsUp(f, seqs, A)
  <2>1. f \in [0 .. L -> Seq(A)] /\ f[0] = <<>>
    BY <1>4 DEF Unfolds
  <2>2. \A n \in 1 .. L : f[n] = step[n][f[n - 1]]
    BY <1>4 DEF Unfolds
  <2> HIDE DEF step, L
  <2>3. ASSUME NEW n \in 1 .. L PROVE f[n] = f[n - 1] \o seqs[n]
    <3>1. n - 1 \in 0 .. L
      BY <1>1
    <3> QED
      BY <1>2, <2>1, <2>2, <3>1
  <2> QED
    BY <2>1, <2>3 DEF JoinsUp, L
<1>6. CASE L = 0
  <2>1. seqs = <<>>
    BY <1>6
  <2> QED
    BY <1>5, <1>6, <2>1 DEF FlattenSeq, JoinsUp
<1>7. CASE L # 0
  <2> DEFINE g == [n \in 1 .. L |-> f[n]]
  <2>1. /\ f \in [0 .. L -> Seq(A)] /\ f[0] = <<>>
        /\ \A n \in 1 .. L : f[n] = f[n - 1] \o seqs[n]
    BY <1>5 DEF JoinsUp
  <2>2. f[1] = seqs[1]
    <3> HIDE DEF L
    <3>1. 1 \in 1 .. L /\ 1 - 1 = 0
      BY <1>1, <1>7
    <3>2. f[1] = f[1 - 1] \o seqs[1] /\ seqs[1] \in Seq(A)
      BY <1>1, <2>1, <3>1
    <3> QED
      BY <2>1, <3>1, <3>2, ConcatEmptySeq
  <2>3. ASSUME NEW i \in 1 .. L
        PROVE  g[i] = IF i = 1 THEN seqs[i] ELSE g[i - 1] \o seqs[i]
    <3>1. CASE i = 1
      BY <2>2, <3>1
    <3>2. CASE i # 1
      <4>1. i - 1 \in 1 .. L
        BY <1>1, <3>2
      <4> QED
        BY <2>1, <3>2, <4>1
    <3> QED
      BY <3>1, <3>2
  <2>4. Def(g)
    BY <2>3
  <2>5. Def(flatten)
    <3> HIDE DEF Def
    <3> QED
      BY <2>4
  <2>6. ASSUME NEW i \in 1 .. L
        PROVE  flatten[i] = IF i = 1 THEN seqs[i] ELSE flatten[i - 1] \o seqs[i]
    <3> HIDE DEF flatten
    <3> QED
      BY <2>5
  <2>7. FlattenSeq(seqs) = flatten[L]
    BY <1>7 DEF FlattenSeq
  <2> DEFINE S == {n \in 0 .. L : n = 0 \/ flatten[n] = f[n]}
  <2> HIDE DEF flatten, L, g
  <2>8. 0 \in S
    BY <1>1
  <2>9. ASSUME NEW n \in 1 .. L, n - 1 \in S PROVE n \in S
    <3>1. n \in 0 .. L
      BY <1>1
    <3>2. CASE n = 1
      BY <2>2, <2>6, <3>1, <3>2
    <3>3. CASE n # 1
      <4>1. flatten[n - 1] = f[n - 1]
        BY <1>1, <2>9, <3>3
      <4> QED
        BY <2>1, <2>6, <3>1, <3>3, <4>1
    <3> QED
      BY <3>2, <3>3
  <2> HIDE DEF S
  <2>10. L \in S
    <3>1. 0 .. L \subseteq S
      BY <1>1, <2>8, <2>9, Induction
    <3> QED
      BY <1>1, <3>1
  <2> QED
    BY <1>5, <1>7, <2>7, <2>10 DEF S, L
<1> QED
  BY <1>6, <1>7

(* What is kept of the first n names: the invariant of the loop.           *)
Kept(names, n, out) ==
  /\ out \in Seq(Aliases \ {NoName})
  /\ InOrder(out, SubSeq(names, 1, n))

(* InOrder() with its witness, over domains that are known.                *)
Witness(from, out, D, names, E) ==
  /\ from \in [D -> E]
  /\ \A j, k \in D : j < k => from[j] < from[k]
  /\ \A k \in D : out[k] = names[from[k]]
  /\ \A i \in E : names[i] # NoName <=> \E k \in D : from[k] = i

LEMMA InOrderBy ==
  ASSUME NEW out, NEW names, NEW D, NEW E, DOMAIN out = D, DOMAIN names = E
  PROVE  InOrder(out, names) <=> \E from : Witness(from, out, D, names, E)
<1>1. ASSUME NEW from, Witness(from, out, DOMAIN out, names, DOMAIN names)
      PROVE  InOrder(out, names)
  BY <1>1, Zenon DEF InOrder, Witness
<1>2. ASSUME InOrder(out, names)
      PROVE  \E from : Witness(from, out, DOMAIN out, names, DOMAIN names)
  BY <1>2, Zenon DEF InOrder, Witness
<1> QED
  BY <1>1, <1>2, Zenon

LEMMA KeptEmpty ==
  ASSUME NEW names \in Seq(Aliases)
  PROVE  Kept(names, 0, <<>>)
<1>1. SubSeq(names, 1, 0) = <<>>
  BY SubSeqEmpty
<1>2. DOMAIN <<>> = {}
  OBVIOUS
<1>3. InOrder(<<>>, <<>>)
  <2> DEFINE none == [k \in {} |-> 0]
  <2>1. none \in [DOMAIN <<>> -> DOMAIN <<>>]
    BY <1>2
  <2> HIDE DEF none
  <2>2. /\ \A j, k \in {} : j < k => none[j] < none[k]
        /\ \A k \in {} : <<>>[k] = <<>>[none[k]]
        /\ \A i \in {} : <<>>[i] # NoName <=> \E k \in {} : none[k] = i
    OBVIOUS
  <2>3. Witness(none, <<>>, {}, <<>>, {})
    BY <1>2, <2>1, <2>2, Zenon DEF Witness
  <2> QED
    BY <1>2, <2>3, InOrderBy, Zenon
<1>4. <<>> \in Seq(Aliases \ {NoName})
  OBVIOUS
<1> QED
  BY <1>1, <1>3, <1>4, Zenon DEF Kept

LEMMA KeptNext ==
  ASSUME NEW names \in Seq(Aliases), NEW n \in 1 .. Len(names), NEW out,
         Kept(names, n - 1, out)
  PROVE  Kept(names, n, out \o IF names[n] = NoName THEN <<>> ELSE <<names[n]>>)
<1> DEFINE before == SubSeq(names, 1, n - 1)
           after == SubSeq(names, 1, n)
<1>1. /\ Len(names) \in Nat /\ DOMAIN names = 1 .. Len(names)
      /\ names[n] \in Aliases /\ n \in Nat /\ n >= 1
  OBVIOUS
<1>2. /\ before \in Seq(Aliases) /\ DOMAIN before = 1 .. (n - 1)
      /\ after \in Seq(Aliases) /\ DOMAIN after = 1 .. n
      /\ \A i \in 1 .. (n - 1) : before[i] = names[i]
      /\ \A i \in 1 .. n : after[i] = names[i]
  <2>1. \A i \in 1 .. n : names[i] \in Aliases
    BY <1>1
  <2> QED
    BY <1>1, <2>1, SubSeqProperties
<1> HIDE DEF before, after
<1>3. PICK l \in Nat : /\ out \in Seq(Aliases \ {NoName})
                       /\ l = Len(out) /\ DOMAIN out = 1 .. l
  BY DEF Kept
<1>4. InOrder(out, before)
  BY DEF Kept, before
<1>5. PICK from \in [DOMAIN out -> 1 .. (n - 1)] :
        /\ \A j, k \in DOMAIN out : j < k => from[j] < from[k]
        /\ \A k \in DOMAIN out : out[k] = before[from[k]]
        /\ \A i \in 1 .. (n - 1) : before[i] # NoName <=> \E k \in DOMAIN out : from[k] = i
  <2>1. PICK from : Witness(from, out, DOMAIN out, before, 1 .. (n - 1))
    BY <1>2, <1>4, InOrderBy, Zenon
  <2> QED
    BY <2>1, Zenon DEF Witness
<1>6. CASE names[n] = NoName
  <2>1. out \o <<>> = out
    BY <1>3, ConcatEmptySeq
  <2>2. from \in [DOMAIN out -> DOMAIN after]
    BY <1>1, <1>2, <1>5
  <2>3. \A k \in DOMAIN out : out[k] = after[from[k]]
    BY <1>1, <1>2, <1>5
  <2>4. ASSUME NEW i \in 1 .. n
        PROVE  after[i] # NoName <=> \E k \in DOMAIN out : from[k] = i
    <3>1. CASE i = n
      BY <1>1, <1>2, <1>5, <1>6, <3>1
    <3>2. CASE i # n
      <4>1. i \in 1 .. (n - 1) /\ after[i] = before[i]
        BY <1>1, <1>2, <3>2
      <4> QED
        BY <1>5, <4>1
    <3> QED
      BY <3>1, <3>2
  <2>5. InOrder(out, after)
    <3>1. Witness(from, out, DOMAIN out, after, 1 .. n)
      BY <1>2, <1>5, <2>2, <2>3, <2>4 DEF Witness
    <3> QED
      BY <1>2, <3>1, InOrderBy, Zenon
  <2> QED
    BY <1>3, <1>6, <2>5, <2>1 DEF Kept, after
<1>7. CASE names[n] # NoName
  <2> DEFINE longer == out \o <<names[n]>>
             m == l + 1
             to == [k \in 1 .. m |-> IF k = m THEN n ELSE from[k]]
  <2>1. /\ longer \in Seq(Aliases \ {NoName}) /\ DOMAIN longer = 1 .. m
        /\ \A k \in 1 .. l : longer[k] = out[k]
        /\ longer[m] = names[n]
    <3>1. longer = Append(out, names[n])
      BY <1>3, <1>1, <1>7, AppendIsConcat
    <3> HIDE DEF longer
    <3> QED
      BY <1>1, <1>3, <1>7, <3>1, AppendProperties
  <2>2. /\ to \in [1 .. m -> 1 .. n] /\ to[m] = n
        /\ \A k \in 1 .. l : to[k] = from[k] /\ from[k] \in 1 .. (n - 1)
        /\ m \in Nat /\ m >= 1 /\ \A k \in 1 .. m : k = m \/ k \in 1 .. l
    <3>1. /\ m \in Nat /\ m >= 1 /\ \A k \in 1 .. m : k = m \/ k \in 1 .. l
          /\ \A k \in 1 .. l : k \in 1 .. m /\ k # m
      BY <1>3
    <3>2. \A k \in 1 .. l : from[k] \in 1 .. (n - 1) /\ from[k] \in 1 .. n
      BY <1>1, <1>3, <1>5
    <3>3. n \in 1 .. n
      BY <1>1
    <3> HIDE DEF m
    <3>4. \A k \in 1 .. m : to[k] = IF k = m THEN n ELSE from[k]
      OBVIOUS
    <3>5. \A k \in 1 .. m : to[k] \in 1 .. n
      BY <3>1, <3>2, <3>3, <3>4
    <3>6. m \in 1 .. m
      BY <3>1
    <3> QED
      BY <3>1, <3>2, <3>4, <3>5, <3>6
  <2> HIDE DEF longer, to, m
  <2>3. \A j, k \in 1 .. m : j < k => to[j] < to[k]
    <3> SUFFICES ASSUME NEW j \in 1 .. m, NEW k \in 1 .. m, j < k PROVE to[j] < to[k]
      OBVIOUS
    <3>1. j \in 1 .. l
      BY DEF m
    <3>2. CASE k = m
      BY <1>1, <2>2, <3>1, <3>2
    <3>3. CASE k \in 1 .. l
      BY <1>3, <1>5, <2>2, <3>1, <3>3
    <3> QED
      BY <2>2, <3>2, <3>3
  <2>4. ASSUME NEW k \in 1 .. m PROVE longer[k] = after[to[k]]
    <3>1. CASE k = m
      BY <1>1, <1>2, <2>1, <2>2, <3>1
    <3>2. CASE k \in 1 .. l
      <4>1. longer[k] = out[k] /\ out[k] = before[from[k]]
        BY <1>3, <1>5, <2>1, <3>2
      <4>2. to[k] = from[k] /\ from[k] \in 1 .. (n - 1)
        BY <2>2, <3>2
      <4>3. \A i \in 1 .. (n - 1) : before[i] = after[i]
        BY <1>1, <1>2
      <4> QED
        BY <4>1, <4>2, <4>3
    <3> QED
      BY <2>2, <3>1, <3>2
  <2>5. ASSUME NEW i \in 1 .. n
        PROVE  after[i] # NoName <=> \E k \in 1 .. m : to[k] = i
    <3>1. CASE i = n
      <4>1. m \in 1 .. m /\ after[n] = names[n]
        BY <1>1, <1>2, <2>2
      <4> QED
        BY <1>7, <2>2, <3>1, <4>1
    <3>2. CASE i # n
      <4>1. i \in 1 .. (n - 1) /\ after[i] = before[i]
        BY <1>1, <1>2, <3>2
      <4>2. (\E k \in 1 .. l : from[k] = i) <=> (\E k \in 1 .. m : to[k] = i)
        <5>1. 1 .. l \subseteq 1 .. m
          BY DEF m
        <5> QED
          BY <2>2, <3>2, <5>1
      <4> QED
        BY <1>3, <1>5, <4>1, <4>2
    <3> QED
      BY <3>1, <3>2
  <2>6. InOrder(longer, after)
    <3>1. Witness(to, longer, 1 .. m, after, 1 .. n)
      BY <2>2, <2>3, <2>4, <2>5 DEF Witness
    <3> QED
      BY <1>2, <2>1, <3>1, InOrderBy, Zenon
  <2> QED
    BY <1>7, <2>1, <2>6 DEF Kept, after, longer
<1> QED
  BY <1>6, <1>7

(* -J keeps the names given, in their order.                               *)
LEMMA JumpNamesInOrder ==
  ASSUME NEW entries \in Seq(Seq(Aliases))
  PROVE  /\ FlattenJumpNames(entries) \in Seq(Aliases)
         /\ InOrder(FlattenJumpNames(entries), FlattenSeq(entries))
<1> DEFINE names == FlattenSeq(entries)
           L == Len(names)
           parts == [i \in DOMAIN names |-> IF names[i] = NoName THEN <<>> ELSE <<names[i]>>]
<1>1. names \in Seq(Aliases)
  <2>1. PICK f : JoinsUp(f, entries, Aliases) /\ FlattenSeq(entries) = f[Len(entries)]
    BY FlattenJoins
  <2>2. Len(entries) \in 0 .. Len(entries)
    OBVIOUS
  <2> QED
    BY <2>1, <2>2 DEF JoinsUp
<1> HIDE DEF names
<1>2. L \in Nat /\ DOMAIN names = 1 .. L /\ \A n \in 1 .. L : names[n] \in Aliases
  BY <1>1
<1>3. parts \in Seq(Seq(Aliases)) /\ Len(parts) = L
  <2>1. \A n \in 1 .. L : parts[n] \in Seq(Aliases)
    BY <1>2
  <2>2. parts \in [1 .. L -> Seq(Aliases)]
    BY <1>2, <2>1
  <2> QED
    BY <1>2, <2>2
<1>4. FlattenJumpNames(entries) = FlattenSeq(parts)
  BY DEF FlattenJumpNames, names
<1>5. \A n \in 1 .. L : parts[n] = IF names[n] = NoName THEN <<>> ELSE <<names[n]>>
  BY <1>2
<1> HIDE DEF parts
<1>6. PICK f : JoinsUp(f, parts, Aliases) /\ FlattenSeq(parts) = f[L]
  BY <1>3, FlattenJoins
<1> DEFINE S == {n \in 0 .. L : Kept(names, n, f[n])}
<1>7. 0 \in S
  BY <1>1, <1>2, <1>6, KeptEmpty DEF JoinsUp
<1>8. ASSUME NEW n \in 1 .. L, n - 1 \in S PROVE n \in S
  <2>1. Kept(names, n - 1, f[n - 1])
    BY <1>8
  <2>2. f[n] = f[n - 1] \o IF names[n] = NoName THEN <<>> ELSE <<names[n]>>
    <3>1. f[n] = f[n - 1] \o parts[n]
      BY <1>3, <1>6 DEF JoinsUp
    <3> QED
      BY <1>5, <3>1
  <2>3. Kept(names, n, f[n]) /\ n \in 0 .. L
    <3>1. n \in 1 .. Len(names) /\ n \in 0 .. L
      BY <1>2
    <3> QED
      BY <1>1, <2>1, <2>2, <3>1, KeptNext, Zenon
  <2> QED
    BY <2>3
<1>9. Kept(names, L, f[L])
  <2> HIDE DEF S, L
  <2>1. 0 .. L \subseteq S
    BY <1>2, <1>7, <1>8, Induction
  <2> QED
    BY <1>2, <2>1 DEF S
<1>10. SubSeq(names, 1, L) = names
  BY <1>1, SubSeqFull
<1>11. f[L] \in Seq(Aliases) /\ InOrder(f[L], names)
  <2>1. f[L] \in Seq(Aliases \ {NoName}) /\ InOrder(f[L], names)
    BY <1>9, <1>10 DEF Kept
  <2>2. Aliases \ {NoName} \subseteq Aliases
    OBVIOUS
  <2> QED
    BY <2>1, <2>2, SeqMonotonic
<1> QED
  BY <1>4, <1>6, <1>11 DEF names

(* The first source that is given, for the numbers of sources there are.   *)
LEMMA LeastIsMin ==
  ASSUME NEW S \in SUBSET Nat, NEW m \in S, \A n \in S : m <= n
  PROVE  Min(S) = m
<1>1. Min(S) \in S /\ \A n \in S : Min(S) <= n
  BY DEF Min
<1>2. Min(S) <= m /\ m <= Min(S) /\ Min(S) \in Nat /\ m \in Nat
  BY <1>1
<1> HIDE DEF Min
<1> QED
  BY <1>2

LEMMA FirstOfTwo ==
  ASSUME NEW a, NEW b, NEW none
  PROVE  FirstGiven(<<a, b>>, none) = Over(b, a, none)
<1> DEFINE given == {i \in 1 .. 2 : <<a, b>>[i] # none \/ i = 2}
<1>1. FirstGiven(<<a, b>>, none) = <<a, b>>[Min(given)]
  BY DEF FirstGiven
<1>2. given \in SUBSET Nat /\ 2 \in given /\ (1 \in given <=> a # none)
  OBVIOUS
<1>3. Min(given) = IF a # none THEN 1 ELSE 2
  BY <1>2, LeastIsMin
<1> HIDE DEF given
<1> QED
  BY <1>1, <1>3 DEF Over

LEMMA FirstOfThree ==
  ASSUME NEW a, NEW b, NEW c, NEW none
  PROVE  FirstGiven(<<a, b, c>>, none) = Over(Over(c, b, none), a, none)
<1> DEFINE given == {i \in 1 .. 3 : <<a, b, c>>[i] # none \/ i = 3}
<1>1. FirstGiven(<<a, b, c>>, none) = <<a, b, c>>[Min(given)]
  BY DEF FirstGiven
<1>2. /\ given \in SUBSET Nat /\ given \subseteq 1 .. 3 /\ 3 \in given
      /\ 1 \in given <=> a # none
      /\ 2 \in given <=> b # none
  OBVIOUS
<1> HIDE DEF given
<1>3. Min(given) = IF a # none THEN 1 ELSE IF b # none THEN 2 ELSE 3
  BY <1>2, LeastIsMin
<1> QED
  BY <1>1, <1>3 DEF Over

LEMMA FirstOfFour ==
  ASSUME NEW a, NEW b, NEW c, NEW d, NEW none
  PROVE  FirstGiven(<<a, b, c, d>>, none) = Over(Over(Over(d, c, none), b, none), a, none)
<1> DEFINE given == {i \in 1 .. 4 : <<a, b, c, d>>[i] # none \/ i = 4}
<1>1. FirstGiven(<<a, b, c, d>>, none) = <<a, b, c, d>>[Min(given)]
  BY DEF FirstGiven
<1>2. /\ given \in SUBSET Nat /\ given \subseteq 1 .. 4 /\ 4 \in given
      /\ 1 \in given <=> a # none
      /\ 2 \in given <=> b # none
      /\ 3 \in given <=> c # none
  OBVIOUS
<1> HIDE DEF given
<1>3. Min(given) = IF a # none THEN 1 ELSE IF b # none THEN 2
                   ELSE IF c # none THEN 3 ELSE 4
  BY <1>2, LeastIsMin
<1> QED
  BY <1>1, <1>3 DEF Over

(* A host of the path is what is documented for its alias.                 *)
LEMMA JumpAsDocumented ==
  ASSUME NEW alias, NEW conf
  PROVE  IntoHostConfig(ResolveHost(alias, conf)) = ExpectedHost(alias, NoOptions, conf)
<1> DEFINE q == Query(conf, alias.host)
<1>1. FirstGiven(<<q.host, alias.host>>, "") = Over(alias.host, q.host, "")
  BY FirstOfTwo
<1>2. FirstGiven(<<0, alias.port, q.port, 22>>, 0)
        = Over(Over(22, q.port, 0), alias.port, 0)
  BY FirstOfFour DEF Over
<1>3. FirstGiven(<<"", alias.user, q.user, CurrentUser>>, "")
        = Over(Over(CurrentUser, q.user, ""), alias.user, "")
  <2> DEFINE none == ""
  <2> HIDE DEF none
  <2>1. FirstGiven(<<none, alias.user, q.user, CurrentUser>>, none)
          = Over(Over(Over(CurrentUser, q.user, none), alias.user, none), none, none)
    BY FirstOfFour
  <2> QED
    BY <2>1 DEF Over, none
<1>4. FirstGiven(<<<<>>, q.files, DefaultFiles>>, <<>>) = Over(DefaultFiles, q.files, <<>>)
  BY FirstOfThree DEF Over
<1> QED
  BY <1>1, <1>2, <1>3, <1>4
  DEF IntoHostConfig, ResolveHost, ExpectedHost, NoOptions

LEMMA DestinationAsDocumented ==
  ASSUME NEW c, NEW conf
  PROVE  LET d == ResolveHost(c.host, conf) IN
         [host |-> d.host, port |-> Over(d.port, c.port, 0),
          user |-> Over(d.user, c.user, ""), files |-> Over(d.files, c.identity, <<>>)]
           = ExpectedHost(c.host, c, conf)
<1> DEFINE q == Query(conf, c.host.host)
<1>1. FirstGiven(<<q.host, c.host.host>>, "") = Over(c.host.host, q.host, "")
  BY FirstOfTwo
<1>2. FirstGiven(<<c.port, c.host.port, q.port, 22>>, 0)
        = Over(Over(Over(22, q.port, 0), c.host.port, 0), c.port, 0)
  BY FirstOfFour
<1>3. FirstGiven(<<c.user, c.host.user, q.user, CurrentUser>>, "")
        = Over(Over(Over(CurrentUser, q.user, ""), c.host.user, ""), c.user, "")
  <2> DEFINE none == ""
  <2> HIDE DEF none
  <2>1. FirstGiven(<<c.user, c.host.user, q.user, CurrentUser>>, none)
          = Over(Over(Over(CurrentUser, q.user, none), c.host.user, none), c.user, none)
    BY FirstOfFour
  <2> QED
    BY <2>1 DEF none
<1>4. FirstGiven(<<c.identity, q.files, DefaultFiles>>, <<>>)
        = Over(Over(DefaultFiles, q.files, <<>>), c.identity, <<>>)
  BY FirstOfThree
<1> QED
  BY <1>1, <1>2, <1>3, <1>4 DEF ResolveHost, ExpectedHost

(* The path main() resolves is what the options, the aliases and the       *)
(* config say, for a -J of any length.                                     *)
THEOREM TargetIsResolved == LaunchSpec => []TargetAsDocumented
<1>1. SshInv => TargetAsDocumented
  <2> DEFINE jumps == IF command.jumps # <<>> THEN FlattenJumpNames(command.jumps)
                      ELSE Query(config, command.host.host).jumps
             hosts == [i \in DOMAIN jumps |-> IntoHostConfig(ResolveHost(jumps[i], config))]
             last == ExpectedHost(command.host, command, config)
  <2> SUFFICES ASSUME SshInv, phase = "resolved"
               PROVE  /\ command.jumps # <<>> => InOrder(jumps, FlattenSeq(command.jumps))
                      /\ Len(target) = Len(jumps) + 1
                      /\ \A i \in DOMAIN jumps :
                           target[i] = ExpectedHost(jumps[i], NoOptions, config)
                      /\ target[Destination] = last
    BY DEF TargetAsDocumented
  <2>1. /\ command.jumps \in Seq(Seq(Aliases)) /\ config \in Configs
        /\ target = ResolveTarget(command, config)
    BY CommandAssumption DEF SshInv, AsParsed
  <2>2. command.jumps # <<>> => InOrder(jumps, FlattenSeq(command.jumps))
    BY <2>1, JumpNamesInOrder
  <2>3. jumps \in Seq(Aliases)
    <3>1. CASE command.jumps # <<>>
      BY <2>1, <3>1, JumpNamesInOrder
    <3>2. CASE command.jumps = <<>>
      <4>1. jumps = Query(config, command.host.host).jumps
        BY <3>2
      <4>2. \A host \in DOMAIN config : config[host].jumps \in Seq(Aliases)
        BY <2>1, ConfigAssumption DEF Params
      <4>3. NoParams.jumps \in Seq(Aliases)
        BY DEF NoParams
      <4> HIDE DEF jumps
      <4> QED
        BY <4>1, <4>2, <4>3 DEF Query
    <3> QED
      BY <3>1, <3>2
  <2>4. target = Append(hosts, last)
    <3>1. (IF command.jumps = <<>> THEN ResolveHost(command.host, config).jumps
           ELSE FlattenJumpNames(command.jumps)) = jumps
      BY DEF ResolveHost
    <3> QED
      BY <2>1, <3>1, DestinationAsDocumented DEF ResolveTarget
  <2>5. PICK l \in Nat : l = Len(jumps) /\ DOMAIN jumps = 1 .. l
    BY <2>3
  <2> HIDE DEF jumps
  <2>6. hosts \in Seq({hosts[i] : i \in 1 .. l}) /\ Len(hosts) = l
    BY <2>5
  <2>7. \A i \in 1 .. l : hosts[i] = ExpectedHost(jumps[i], NoOptions, config)
    BY <2>5, JumpAsDocumented
  <2> HIDE DEF hosts, last
  <2>8. /\ Len(target) = l + 1 /\ target[l + 1] = last
        /\ \A i \in 1 .. l : target[i] = hosts[i]
    BY <2>4, <2>6
  <2> QED
    BY <2>2, <2>5, <2>7, <2>8 DEF Destination
<1> QED
  BY <1>1, SshInvariance, PTL
--------------------------------------------------------------------------------
(***************************************************************************)
(* Until the chain is begun nothing is connected, and it is begun as       *)
(* HopChain.tla assumes.                                                   *)
(***************************************************************************)
NotBegun ==
  /\ at = "idle" /\ hop = 1 /\ file = 1 /\ error = "none" /\ pwTo = {} /\ met = {}
  /\ sess = Nothing
  /\ faults = 0 /\ changes = 0 /\ restarts = 0

ChainInv ==
  /\ phase = "args" => command \in SshCommands \cup BridgeCommands
  /\ phase \in {"resolve", "resolved"} => command \in SshCommands
  /\ phase = "run" => WholeInv
  /\ phase # "run" => NotBegun

LEMMA BeginsAsAssumed ==
  ASSUME ChainInv, Start, phase' = "run"
  PROVE  Init'
<1> USE DEF Start, ChainInv
<1>1. /\ target' \in Targets /\ target' = target
      /\ args' \in [strict : BOOLEAN, password : BOOLEAN]
  BY CommandAssumption
<1>2. Addresses' = Addresses /\ Nothing' = Nothing
  BY <1>1 DEF Addresses, Nothing
<1>3. NotBegun'
  BY <1>2 DEF NotBegun
<1>4. PICK accepts \in [Addresses -> Accepts] :
        server' = [a \in Addresses |-> [key |-> <<a, 0>>, accepts |-> accepts[a]]]
  OBVIOUS
<1>5. /\ server' \in [Addresses -> [key : {<<a, 0>> : a \in Addresses}, accepts : Accepts]]
      /\ \A a \in Addresses : server'[a].key = <<a, 0>>
      /\ known' = [a \in Addresses |-> {}]
  BY <1>4
<1> QED
  BY <1>1, <1>2, <1>3, <1>5 DEF Init, ChainInit, NotBegun

LEMMA ChainInvariance == LaunchSpec => []ChainInv
<1>1. LaunchInit => ChainInv
  BY DEF LaunchInit, ChainInv, NotBegun, Nothing
<1>2. Init' => WholeInv'
  BY InitWhole, PTL
<1>3. ChainInv /\ [LaunchNext]_allVars => ChainInv'
  <2> SUFFICES ASSUME ChainInv, [LaunchNext]_allVars PROVE ChainInv'
    OBVIOUS
  <2> USE DEF ChainInv
  <2>1. CASE ParseSshArgs \/ ParseBridgeArgs
    <3>1. UNCHANGED vars /\ command' = command /\ phase = "args"
      BY <2>1 DEF ParseSshArgs, ParseBridgeArgs
    <3>2. NotBegun'
      BY <3>1 DEF NotBegun, Nothing, vars
    <3>3. /\ ParseSshArgs => command \in SshCommands /\ phase' \in {"resolve", "exit"}
          /\ ParseBridgeArgs => phase' \in {"bridge", "exit"}
      BY <3>1, CommandAssumption DEF ParseSshArgs, ParseBridgeArgs
    <3> QED
      BY <2>1, <3>1, <3>2, <3>3
  <2>2. CASE Resolve
    <3>1. NotBegun'
      BY <2>2 DEF Resolve, NotBegun, Nothing, worldVars
    <3> QED
      BY <2>2, <3>1 DEF Resolve
  <2>3. CASE Start
    <3>1. phase' \in {"run", "exit"}
      BY <2>3 DEF Start
    <3>2. phase' = "run" => WholeInv'
      BY <2>3, <1>2, BeginsAsAssumed
    <3>3. NotBegun'
      BY <2>3 DEF Start, NotBegun, Nothing
    <3> QED
      BY <3>1, <3>2, <3>3
  <2>4. CASE Running(ChainNext)
    BY <2>4, StepWhole DEF Running, mainVars
  <2>5. CASE UNCHANGED allVars
    <3>1. phase = "run" => WholeInv'
      BY <2>5, StepWhole DEF allVars
    <3>2. phase # "run" => NotBegun'
      BY <2>5 DEF allVars, vars, NotBegun, Nothing
    <3> QED
      BY <2>5, <3>1, <3>2 DEF allVars, mainVars
  <2> QED
    BY <2>1, <2>2, <2>3, <2>4, <2>5 DEF LaunchNext
<1> QED
  BY <1>1, <1>3, PTL DEF LaunchSpec

(* From the command line on: sessions end for a reason, the password goes  *)
(* to the target only, a key is refused only when it has changed, what was *)
(* accepted is known, and a good credential is found.                      *)
ChainHolds ==
  /\ EndsForAReason /\ PasswordOnlyToTarget /\ RefusedOnlyIfChanged /\ OnceIsEnough
  /\ OneGoodIsEnough

THEOREM ChainHoldsInLaunch == LaunchSpec => []ChainHolds
<1>1. NotBegun => ChainHolds
  BY DEF NotBegun, Nothing, NoSession, ChainHolds, EndsForAReason, PasswordOnlyToTarget,
         RefusedOnlyIfChanged, OnceIsEnough, OneGoodIsEnough
<1>2. WholeInv => ChainHolds
  BY DEF WholeInv, IInv, CredentialsInv, ChainHolds, OneGoodIsEnough
<1>3. ChainInv => ChainHolds
  BY <1>1, <1>2 DEF ChainInv
<1> QED
  BY <1>3, ChainInvariance, PTL
(* No attempt of the run main() starts goes round in circles, whatever     *)
(* path, files and flags the command line and ~/.ssh/config have given it. *)
THEOREM LaunchedAttemptsLeadOn == LaunchSpec => [][LeadsOn]_allVars
<1>1. ChainInv /\ [LaunchNext]_allVars => [LeadsOn]_allVars
  <2> SUFFICES ASSUME ChainInv, LaunchNext, at # "idle" PROVE LeadsOn
    BY DEF LeadsOn
  <2>1. phase = "run" /\ WholeInv
    BY DEF ChainInv, NotBegun
  <2>2. ChainNext
    BY <2>1 DEF LaunchNext, ParseSshArgs, ParseBridgeArgs, Resolve, Start, Running
  <2> QED
    BY <2>1, <2>2, StepsLeadOn DEF WholeInv
<1> QED
  BY <1>1, ChainInvariance, PTL DEF LaunchSpec
================================================================================
