--------------------------------- MODULE Launch ----------------------------------
(***************************************************************************)
(* A run of weconn from main() on: the arguments are parsed, `bridge` is   *)
(* dispatched, `ssh` resolves its target (run() of src/tunnel.rs) and      *)
(* connects to it along the chain of HopChain.tla.                         *)
(***************************************************************************)
EXTENDS HopChain, ForwardSpec, SshConfig, BridgeArgs

CONSTANTS
  SshCommands, BridgeCommands,     \* arguments
  Configs,                         \* ~/.ssh/config; a broken one counts as empty
  AnyTcp                           \* a URL bridges may forward to

ASSUME CommandAssumption ==
  /\ \A c \in SshCommands :
       /\ c.kind = "ssh" /\ {c.strict, c.password} \subseteq BOOLEAN
       /\ {c.local, c.remote} \subseteq Seq(Seq(Fields))
       /\ c.host \in Aliases /\ c.jumps \in Seq(Seq(Aliases))
  /\ \A c \in BridgeCommands : c.kind = "bridge" /\ {c.to, c.from} \subseteq ParsedUrl
  /\ AnyTcp \in ParsedUrl /\ ParseTcpEndpoint(AnyTcp).kind = "Tcp"
  /\ AnyTcp.scheme = "tcp"

ASSUME ConfigAssumption ==
  \A c \in Configs : \A host \in DOMAIN c : c[host] \in Params

VARIABLES
  phase,     \* "args", "resolve", "resolved", "run", "bridge" or "exit"
  command,   \* the arguments; nothing is kept of them once the run begins
  config,    \* the config file
  parsed     \* what parse() has made of the arguments

mainVars == <<phase, command, config, parsed>>
allVars == <<mainVars, vars>>

LaunchInit ==
  /\ phase = "args"
  /\ command \in SshCommands \cup BridgeCommands
  /\ config \in IF command.kind = "ssh" THEN Configs ELSE {<<>>}
  /\ parsed = <<>>
  /\ target = <<>> /\ args = [strict |-> FALSE, password |-> FALSE] /\ server = <<>>
  /\ at = "idle" /\ hop = 1 /\ file = 1 /\ sess = <<>>
  /\ error = "none" /\ pwTo = {}
  /\ known = <<>> /\ met = {}
  /\ faults = 0 /\ changes = 0 /\ restarts = 0

ParseSshArgs ==
  /\ phase = "args" /\ command.kind = "ssh"
  /\ parsed' = ParseSsh(command.local, command.remote)
  /\ phase' = IF parsed'.ok THEN "resolve" ELSE "exit"
  /\ UNCHANGED <<command, config, vars>>

ParseBridgeArgs ==
  /\ phase = "args" /\ command.kind = "bridge"
  /\ parsed' = ParseBridge(command)
  /\ phase' = IF parsed'.ok THEN "bridge" ELSE "exit"
  /\ UNCHANGED <<command, config, vars>>

Resolve ==
  /\ phase = "resolve"
  /\ target' = ResolveTarget(command, config)
  /\ sess' = [i \in DOMAIN target' |-> NoSession]
  /\ phase' = "resolved"
  /\ UNCHANGED <<command, config, parsed, args, at, hop, file, error, pwTo, worldVars>>

(* The second validation, and on to the reconnect loop (only for Targets:  *)
(* a bound).  What the servers accept is settled here.                     *)
Start ==
  /\ phase = "resolved" /\ target \in Targets
  /\ phase' = IF ValidateNoDuplicateBinds(parsed) THEN "run" ELSE "exit"
  /\ args' = [strict |-> command.strict, password |-> command.password]
  /\ \E accepts \in [Addresses -> Accepts] :
       server' = [a \in Addresses |-> [key |-> <<a, 0>>, accepts |-> accepts[a]]]
  /\ known' = [a \in Addresses |-> {}]
  /\ command' = [kind |-> "none"] /\ config' = <<>> /\ parsed' = <<>>
  /\ UNCHANGED <<target, at, hop, file, sess, error, pwTo, met, faults, changes, restarts>>

Running(A) == phase = "run" /\ A /\ UNCHANGED mainVars

LaunchNext ==
  \/ ParseSshArgs \/ ParseBridgeArgs \/ Resolve \/ Start
  \/ Running(ChainNext)

(* Fairness: the program runs, and a session task notices that the session *)
(* it runs in is gone.  Faults come to an end, by their bound.             *)
LaunchSpec ==
  /\ LaunchInit /\ [][LaunchNext]_allVars
  /\ WF_allVars(Running(Attempt))
  /\ WF_allVars(Running(\E i \in DOMAIN target : CarrierGone(i)))
--------------------------------------------------------------------------------
(***************************************************************************)
(* Properties; those of HopChain.tla are checked here too.                 *)
(***************************************************************************)
(* Every rule is what the documented grammar says, and a text outside the  *)
(* grammar is refused, but for two cases: a destination in brackets needs  *)
(* a bind address, and a host may be empty where there are no brackets     *)
(* (ssh_forward.rs:42-125).                                                *)
SshParsed == command.kind = "ssh" /\ phase \in {"resolve", "exit"}

RulesAsDocumented ==
  SshParsed =>
    \A i \in DOMAIN command.local :
      LET s == command.local[i] IN
      \/ parsed.local[i] = Expected(s)
      \/ parsed.local[i] = Bad /\ Len(s) = 3 /\ s[2].brackets
      \/ Expected(s) = Bad /\ \E j \in DOMAIN s : s[j] = Plain("")

(* What the command line accepts the program does not refuse afterwards,   *)
(* and of documented rules the command line refuses only duplicates        *)
(* (cli.rs:397-441, tunnel.rs:163-193).                                    *)
AcceptedRulesRun ==
  /\ phase = "resolved" => ValidateNoDuplicateBinds(parsed)
  /\ SshParsed /\ phase = "exit" =>
       \/ \E i \in DOMAIN parsed.local : parsed.local[i] = Bad
       \/ \E i \in DOMAIN parsed.remote : parsed.remote[i] = Bad
       \/ ~ValidateNoDuplicateBinds(parsed)
       \/ command.local \o command.remote = <<>>

(* Options override aliases, aliases the config and the config the         *)
(* defaults, for the destination; a jump host is taken from its own alias  *)
(* and config, whatever the options say; -J replaces ProxyJump             *)
(* (cli.rs:143-166, ssh_config.rs:34-172).                                 *)
NoOptions == [port |-> 0, user |-> "", identity |-> <<>>]

TargetAsDocumented ==
  phase = "resolved" =>
    LET jumps == IF command.jumps # <<>> THEN FlattenJumpNames(command.jumps)
                 ELSE Query(config, command.host.host).jumps
    IN  /\ command.jumps # <<>> => InOrder(jumps, FlattenSeq(command.jumps))
        /\ Len(target) = Len(jumps) + 1
        /\ \A i \in DOMAIN jumps : target[i] = ExpectedHost(jumps[i], NoOptions, config)
        /\ target[Destination] = ExpectedHost(command.host, command, config)

(* `unreachable!("bridge args are validated by cli::parse")`               *)
(* (bridge.rs:47): no accepted arguments lead there, none that have a      *)
(* token to the bridge that ignores it, and every endpoint has a port      *)
(* (cli.rs:228-395).                                                       *)
DispatchIsTotal ==
  phase = "bridge" =>
    /\ Dispatch(parsed) # "unreachable"
    /\ parsed.token # "" => Dispatch(parsed) # "tcp_tcp"
    /\ {parsed.to.port, parsed.from.port} \subseteq Nat \ {0}

(* Two bridges meet: one that dials the URL the other listens on, perhaps  *)
(* behind a TLS proxy, is let in exactly when they have the same token,    *)
(* the listener wants none, or the query carries it (bridge.rs:325-393).   *)
Tokens == {c.token : c \in BridgeCommands}

Peer ==
  ParseBridge([to |-> [command.from EXCEPT !.scheme = "ws", !.query = ""],
               from |-> AnyTcp, token |-> command.token])

BridgesMeet ==
  phase = "bridge" /\ parsed.from.kind # "Tcp" =>
    LET request == WebsocketRequest(parsed) IN
    /\ Peer.ok
    /\ request.ok => \A token \in Tokens :
         ValidateWebsocketRequest(request, [Peer EXCEPT !.token = token])
           <=> token \in {"", command.token, command.from.query}

(* Once the path can be gone, the chain is rebuilt from its first host     *)
(* after every loss: "full hop chain rebuilds on reconnect" (README.md:16, *)
(* ssh_session.rs:37-103, tunnel.rs:94-158).                               *)
RunReconnects ==
  <>[](phase = "run" /\ Connectable) => []<>(at = "up" /\ Open(Destination))
--------------------------------------------------------------------------------
(* "`[bind_address:]port:host:hostport`; IPv6 addresses must use brackets" *)
(* (ssh_forward.rs:42-44), without the exception: the code does not live   *)
(* up to it.                                                               *)
GrammarIsAccepted ==
  SshParsed =>
    \A i \in DOMAIN command.local :
      Expected(command.local[i]) # Bad => parsed.local[i] # Bad
================================================================================
