----------------------------- MODULE RemoteForward -----------------------------
(***************************************************************************)
(* The remote forwards (-R) of `weconn ssh`: registration on a new session *)
(* (setup_remote_forwards, rollback_remote_forwards of src/tunnel.rs), the *)
(* clean-up after a session (cancel_remote_forwards of src/client.rs), and *)
(* the tasks that match an incoming connection to its rule.  The SSH       *)
(* server is the environment: it grants or denies the requests, accepts    *)
(* connections, and frees the ports of a session some time after its end.  *)
(***************************************************************************)
EXTENDS Naturals, FiniteSets

CONSTANTS
  NumRules,     \* the number of -R rules
  Hosts,        \* the hosts that rules and the server may name
  Interfaces,   \* the addresses of the server
  Sockets,      \* the sockets the server tries for a bind host, each as the
                \* set of interfaces it covers: two for localhost or "*"
  FixedPorts,   \* the bind ports they ask for; a rule may also say 0
  MaxPort,      \* bound: ports are numbers up to MaxPort
  MaxGen,       \* bound: sessions the server remembers at the same time
  Tasks         \* tasks that handle a forwarded connection

ASSUME RemoteAssumption ==
  /\ NumRules \in Nat \ {0}
  /\ Sockets \in [Hosts -> SUBSET SUBSET Interfaces]
  /\ MaxPort \in Nat \ {0}
  /\ FixedPorts \subseteq 1 .. MaxPort
  /\ MaxGen \in Nat \ {0}

Rules == 1 .. NumRules
Gens == 1 .. MaxGen
Ports == 1 .. MaxPort

VARIABLES
  hostOf, portOf,   \* spec.bind_host and spec.bind_port of each rule
  actual,           \* actual_port of each rule, 0 when it is not known
  phase,            \* what the supervisor does, see TypeOK
  idx,              \* the rule whose registration is being requested
  answer,           \* the reply to tcpip_forward(): "none", "granted", "denied"
  boundPort,        \* the port a granted reply carries
  undo,             \* the rule a clean-up loop has come to
  cancelled,        \* has cancel_tcpip_forward() returned for that rule?
  gen,              \* the session of the current attempt
  open,             \* the sessions whose connection works
  listeners,        \* what the server listens for (environment)
  given,            \* history: the port each rule got on this session
  taskAt,           \* each task: "idle", "matching", "routed" or "ignored"
  conn,             \* the listener that accepted its connection
  reported,         \* the connected_address the server gave for it
  next,             \* the rule its search has come to
  found             \* the rules that matched so far

ruleVars == <<hostOf, portOf>>
loopVars == <<phase, idx, answer, boundPort, undo, cancelled>>
serverVars == <<listeners, given>>
taskVars == <<taskAt, conn, reported, next, found>>
vars == <<hostOf, portOf, actual, phase, idx, answer, boundPort, undo, cancelled,
          gen, open, listeners, given, taskAt, conn, reported, next, found>>

(* `on` are the sockets that could be bound, the others were taken.        *)
Listener == [gen : Gens, rule : Rules, host : Hosts, port : Ports,
             on : SUBSET SUBSET Interfaces]
NoConn == [gen |-> 0, rule |-> 0, host |-> "", port |-> 0, on |-> {}]

(* The server may name the address a connection came to as the rule does,  *)
(* in another way, or not at all.                                          *)
Addresses == Hosts \cup {""}

TypeOK ==
  /\ hostOf \in [Rules -> Hosts]
  /\ portOf \in [Rules -> FixedPorts \cup {0}]
  /\ actual \in [Rules -> Ports \cup {0}]
  /\ phase \in {"down", "setup", "rollback", "up", "cancelling"}
  /\ idx \in 1 .. (NumRules + 1)
  /\ answer \in {"none", "granted", "denied"}
  /\ boundPort \in Ports \cup {0}
  /\ undo \in 1 .. (NumRules + 1)
  /\ cancelled \in BOOLEAN
  /\ gen \in Gens
  /\ open \subseteq {gen}
  /\ listeners \subseteq Listener
  /\ given \in [Rules -> Ports \cup {0}]
  /\ taskAt \in [Tasks -> {"idle", "matching", "routed", "ignored"}]
  /\ conn \in [Tasks -> Listener \cup {NoConn}]
  /\ reported \in [Tasks -> Addresses]
  /\ next \in [Tasks -> 1 .. (NumRules + 1)]
  /\ found \in [Tasks -> SUBSET Rules]

(* validate_no_duplicate_binds(): hosts are compared as they are written.  *)
NoDuplicateBinds(host, port) ==
  \A r, q \in Rules :
    r # q /\ port[r] # 0 => host[r] # host[q] \/ port[r] # port[q]

Init ==
  /\ hostOf \in [Rules -> Hosts]
  /\ portOf \in [Rules -> FixedPorts \cup {0}]
  /\ NoDuplicateBinds(hostOf, portOf)
  /\ actual = [r \in Rules |-> 0]
  /\ phase = "down"
  /\ idx = 1
  /\ answer = "none"
  /\ boundPort = 0
  /\ undo = 1
  /\ cancelled = FALSE
  /\ gen = 1
  /\ open = {}
  /\ listeners = {}
  /\ given = [r \in Rules |-> 0]
  /\ taskAt = [t \in Tasks |-> "idle"]
  /\ conn = [t \in Tasks |-> NoConn]
  /\ reported = [t \in Tasks |-> ""]
  /\ next = [t \in Tasks |-> 1]
  /\ found = [t \in Tasks |-> {}]
--------------------------------------------------------------------------------
(***************************************************************************)
(* The server.                                                             *)
(***************************************************************************)
(* Two listening sockets with one port exclude each other when they share  *)
(* an interface.                                                           *)
FreeSockets(host, port) ==
  {s \in Sockets[host] :
     \A l \in listeners : l.port = port => s \cap UNION l.on = {}}

(* A bind host of several sockets is granted when one of them can be had.  *)
(* A rule with port 0 leaves the choice of the number to the server, which *)
(* may take one that is in use, or asked for, on another host.             *)
MayBind(r, port) ==
  /\ FreeSockets(hostOf[r], port) # {}
  /\ portOf[r] # 0 => port = portOf[r]

(* The reply names the port only when the choice was the server's.         *)
Grant(r) ==
  /\ phase = "setup" /\ idx = r /\ answer = "none" /\ gen \in open
  /\ \E p \in Ports :
       /\ MayBind(r, p)
       /\ listeners' = listeners \cup
            {[gen |-> gen, rule |-> r, host |-> hostOf[r], port |-> p,
              on |-> FreeSockets(hostOf[r], p)]}
       /\ given' = [given EXCEPT ![r] = p]
       /\ boundPort' = IF portOf[r] = 0 THEN p ELSE 0
  /\ answer' = "granted"
  /\ UNCHANGED <<ruleVars, actual, phase, idx, undo, cancelled, gen, open, taskVars>>

(* The server refuses, or the session ends before it has answered.         *)
Deny ==
  /\ phase = "setup" /\ idx \in Rules /\ answer = "none"
  /\ answer' = "denied"
  /\ UNCHANGED <<ruleVars, actual, phase, idx, boundPort, undo, cancelled, gen,
                 open, serverVars, taskVars>>

SessionEnds ==
  /\ gen \in open
  /\ open' = open \ {gen}
  /\ UNCHANGED <<ruleVars, actual, loopVars, gen, serverVars, taskVars>>

(* The server notices that a session has ended and frees its ports.        *)
Reap(g) ==
  /\ g \notin open
  /\ \E l \in listeners : l.gen = g
  /\ listeners' = {l \in listeners : l.gen # g}
  /\ UNCHANGED <<ruleVars, actual, loopVars, gen, open, given, taskVars>>
--------------------------------------------------------------------------------
(***************************************************************************)
(* Registration and clean-up.                                              *)
(***************************************************************************)
(* connect_target() has made a session (any number the server has no       *)
(* memory of), setup_remote_forwards() begins with reset_all_bound_ports.  *)
Setup ==
  /\ phase = "down"
  /\ \E g \in Gens :
       /\ \A l \in listeners : l.gen # g
       /\ \A t \in Tasks : conn[t].gen # g
       /\ gen' = g
       /\ open' = open \cup {g}
  /\ phase' = "setup"
  /\ actual' = [r \in Rules |-> 0]
  /\ given' = [r \in Rules |-> 0]
  /\ idx' = 1
  /\ answer' = "none"
  /\ UNCHANGED <<ruleVars, boundPort, undo, cancelled, listeners, taskVars>>

StoreBoundNextRule ==     \* mutant: the port is stored under another rule
  /\ phase = "setup" /\ answer = "granted"
  /\ actual' = [actual EXCEPT ![IF idx < NumRules THEN idx + 1 ELSE 1] = boundPort]
  /\ idx' = idx + 1
  /\ answer' = "none"
  /\ UNCHANGED <<ruleVars, phase, boundPort, undo, cancelled, gen, open, serverVars,
                 taskVars>>

(* Ok(bound_port): set_bound_port() and on to the next rule.               *)
StoreBound ==
  /\ phase = "setup" /\ answer = "granted"
  /\ actual' = [actual EXCEPT ![idx] = boundPort]
  /\ idx' = idx + 1
  /\ answer' = "none"
  /\ UNCHANGED <<ruleVars, phase, boundPort, undo, cancelled, gen, open, serverVars,
                 taskVars>>

BeginRollbackNever ==     \* mutant: a denied rule is only logged
  /\ phase = "setup" /\ answer = "denied"
  /\ idx' = idx + 1
  /\ answer' = "none"
  /\ UNCHANGED <<ruleVars, actual, phase, boundPort, undo, cancelled, gen, open,
                 serverVars, taskVars>>

(* Err(e): rollback_remote_forwards().                                     *)
BeginRollback ==
  /\ phase = "setup" /\ answer = "denied"
  /\ phase' = "rollback"
  /\ undo' = 1
  /\ UNCHANGED <<ruleVars, actual, idx, answer, boundPort, cancelled, gen, open,
                 serverVars, taskVars>>

(* Every rule is registered: the session is published.                     *)
Ready ==
  /\ phase = "setup" /\ idx > NumRules
  /\ phase' = "up"
  /\ UNCHANGED <<ruleVars, actual, idx, answer, boundPort, undo, cancelled, gen, open,
                 serverVars, taskVars>>

(* connect_and_run() has returned, run() calls cancel_remote_forwards().   *)
(* The session has ended by then: a ping failed or disconnect() was called.*)
BeginCancel ==
  /\ phase = "up" /\ gen \notin open
  /\ phase' = "cancelling"
  /\ undo' = 1
  /\ UNCHANGED <<ruleVars, actual, idx, answer, boundPort, cancelled, gen, open,
                 serverVars, taskVars>>

LastUndo == IF phase = "rollback" THEN idx - 1 ELSE NumRules
CleaningUp == phase \in {"rollback", "cancelling"}

(* A rule whose port is 0 is passed over: `continue`.                      *)
Skip ==
  /\ CleaningUp /\ undo <= LastUndo /\ actual[undo] = 0
  /\ undo' = undo + 1
  /\ UNCHANGED <<ruleVars, actual, phase, idx, answer, boundPort, cancelled, gen,
                 open, serverVars, taskVars>>

(* cancel_tcpip_forward(): the server hears of it if the session is open.  *)
Cancel ==
  /\ CleaningUp /\ undo <= LastUndo /\ actual[undo] # 0 /\ ~cancelled
  /\ cancelled' = TRUE
  /\ listeners' =
       {l \in listeners : ~ /\ l.gen = gen /\ gen \in open
                           /\ l.host = hostOf[undo] /\ l.port = actual[undo]}
  /\ UNCHANGED <<ruleVars, actual, phase, idx, answer, boundPort, undo, gen, open,
                 given, taskVars>>

ForgetKeepsPort ==     \* mutant: reset_bound_port() is forgotten
  /\ CleaningUp /\ cancelled
  /\ undo' = undo + 1
  /\ cancelled' = FALSE
  /\ UNCHANGED <<ruleVars, actual, phase, idx, answer, boundPort, gen, open, serverVars,
                 taskVars>>

(* It has returned: reset_bound_port().                                    *)
Forget ==
  /\ CleaningUp /\ cancelled
  /\ actual' = [actual EXCEPT ![undo] = 0]
  /\ undo' = undo + 1
  /\ cancelled' = FALSE
  /\ UNCHANGED <<ruleVars, phase, idx, answer, boundPort, gen, open, serverVars,
                 taskVars>>

CleanedKeepsSession ==     \* mutant: the session outlives the failed setup
  /\ CleaningUp /\ undo > LastUndo
  /\ phase' = "down"
  /\ UNCHANGED <<ruleVars, actual, idx, answer, boundPort, undo, cancelled, gen, open,
                 serverVars, taskVars>>

(* The loop is over; the last handle of the session is dropped, the        *)
(* connection ends, and run() goes on to the next attempt.                 *)
Cleaned ==
  /\ CleaningUp /\ undo > LastUndo
  /\ phase' = "down"
  /\ open' = open \ {gen}
  /\ UNCHANGED <<ruleVars, actual, idx, answer, boundPort, undo, cancelled, gen,
                 serverVars, taskVars>>
--------------------------------------------------------------------------------
(***************************************************************************)
(* Incoming connections.                                                   *)
(***************************************************************************)
(* "localhost", "127.0.0.1" and "::1" are the same host to the matching,   *)
(* and so are "0.0.0.0", "*" and no host at all.                           *)
NormalizeBindHost(host) ==
  IF host \in {"localhost", "127.0.0.1", "::1"} THEN "loopback"
  ELSE IF host \in {"0.0.0.0", "*", ""} THEN "any"
  ELSE host

HostsEquivalent(expected, seen) ==
  NormalizeBindHost(expected) = NormalizeBindHost(seen)

MatchesPortOnly(r, address, port) ==     \* mutant: the hosts are not compared
  \/ actual[r] # 0 /\ port = actual[r]
  \/ portOf[r] # 0 /\ port = portOf[r]

MatchesNeedsAddress(r, address, port) ==     \* mutant: no address, no match
  \/ actual[r] # 0 /\ port = actual[r]
  \/ portOf[r] # 0 /\ port = portOf[r] /\ address # "" /\ HostsEquivalent(hostOf[r], address)

Matches(r, address, port) ==
  \/ actual[r] # 0 /\ port = actual[r]
  \/ /\ portOf[r] # 0 /\ port = portOf[r]
     /\ HostsEquivalent(hostOf[r], address) \/ address = ""

(* server_channel_open_forwarded_tcpip(): a task is spawned.               *)
Connect(t) ==
  /\ taskAt[t] = "idle"
  /\ gen \in open
  /\ \E l \in listeners, a \in Addresses :
       /\ l.gen = gen
       /\ conn' = [conn EXCEPT ![t] = l]
       /\ reported' = [reported EXCEPT ![t] = a]
  /\ taskAt' = [taskAt EXCEPT ![t] = "matching"]
  /\ UNCHANGED <<ruleVars, actual, loopVars, gen, open, serverVars, next, found>>

(* One turn of the filter over the rules: each reads its port on its own.  *)
Match(t) ==
  /\ taskAt[t] = "matching" /\ next[t] \in Rules
  /\ found' =
       IF Matches(next[t], reported[t], conn[t].port)
       THEN [found EXCEPT ![t] = @ \cup {next[t]}] ELSE found
  /\ next' = [next EXCEPT ![t] = @ + 1]
  /\ UNCHANGED <<ruleVars, actual, loopVars, gen, open, serverVars, taskAt, conn,
                 reported>>

(* One match is connected to its destination, none and several are ignored.*)
Resolve(t) ==
  /\ taskAt[t] = "matching" /\ next[t] > NumRules
  /\ taskAt' = [taskAt EXCEPT ![t] =
       IF Cardinality(found[t]) = 1 THEN "routed" ELSE "ignored"]
  /\ UNCHANGED <<ruleVars, actual, loopVars, gen, open, serverVars, conn, reported, next,
                 found>>

(* The data is copied, or the channel is closed: the task ends.            *)
TaskEnds(t) ==
  /\ taskAt[t] \in {"routed", "ignored"}
  /\ taskAt' = [taskAt EXCEPT ![t] = "idle"]
  /\ conn' = [conn EXCEPT ![t] = NoConn]
  /\ reported' = [reported EXCEPT ![t] = ""]
  /\ next' = [next EXCEPT ![t] = 1]
  /\ found' = [found EXCEPT ![t] = {}]
  /\ UNCHANGED <<ruleVars, actual, loopVars, gen, open, serverVars>>

Supervise ==
  \/ Setup \/ StoreBound \/ BeginRollback \/ Ready \/ BeginCancel
  \/ Skip \/ Cancel \/ Forget \/ Cleaned

Server ==
  \/ \E r \in Rules : Grant(r)
  \/ Deny
  \/ SessionEnds
  \/ \E g \in Gens : Reap(g)

Next ==
  \/ Supervise
  \/ Server
  \/ \E t \in Tasks : Connect(t) \/ Match(t) \/ Resolve(t) \/ TaskEnds(t)

Spec == Init /\ [][Next]_vars

(***************************************************************************)
(* Fairness: run() and the session task run, a request is answered, and a  *)
(* registration the server can grant again and again is granted at last    *)
(* and the session lasts until the reply is stored; a session that has     *)
(* ended is noticed by the server, which has thousands of numbers to       *)
(* choose from and does not for ever take those that rules ask for.        *)
(***************************************************************************)
Fairness ==
  /\ WF_vars(Supervise)
  /\ \A r \in Rules :
       /\ WF_vars(Grant(r) \/ (idx = r /\ Deny))
       /\ SF_vars(Grant(r))
       /\ SF_vars(idx = r /\ gen \in open /\ StoreBound)
  /\ \A g \in Gens : WF_vars(Reap(g))
  /\ <>[][\A r \in Rules : Grant(r) => boundPort' \notin FixedPorts]_vars

FairSpec == Spec /\ Fairness
--------------------------------------------------------------------------------
(***************************************************************************)
(* Properties.                                                             *)
(***************************************************************************)
Registered == {l \in listeners : l.gen = gen /\ gen \in open}

(* All or nothing: a session is published only when the server listens for *)
(* every rule (tunnel.rs:203-248, 292-299).                                *)
PublishedIsComplete ==
  phase = "up" /\ gen \in open =>
    \A r \in Rules : \E l \in Registered : l.rule = r

(* The rules that a connection to this port is matched with when the       *)
(* server reports this address, and those that have a claim to it: the     *)
(* server listens on the port for them, and either the choice of the port  *)
(* was the server's or the address is theirs or missing.                   *)
Matching(address, port) == {r \in Rules : Matches(r, address, port)}

Claiming(address, port) ==
  {l.rule : l \in {m \in Registered :
     /\ m.port = port
     /\ portOf[m.rule] = 0 \/ address = "" \/ HostsEquivalent(m.host, address)}}

(* Once the session is published, what the rules remember of the ports and *)
(* what the server listens for agree: a connection to any port, under any  *)
(* address, is matched with the rules that have a claim to it and no       *)
(* others, although the ports of fixed rules are not stored and those of   *)
(* earlier sessions may have been (client.rs:35-73, tunnel.rs:208-230).    *)
MatchingIsServed ==
  phase = "up" /\ gen \in open =>
    \A a \in Addresses, p \in Ports : Matching(a, p) = Claiming(a, p)

(* The server reports the address of a connection so that it can be told   *)
(* to be the one its rule names.                                           *)
Faithful(t) ==
  reported[t] = "" \/ HostsEquivalent(hostOf[conn[t].rule], reported[t])

(* A rule that takes this connection for its own although it was made to   *)
(* another: it asks for the same number on a host that is not told apart,  *)
(* or has been given that number by the server, on whatever host.          *)
Rival(q, t) ==
  /\ q # conn[t].rule
  /\ IF portOf[q] = 0 THEN given[q] = conn[t].port
     ELSE /\ portOf[q] = conn[t].port
          /\ reported[t] = "" \/ HostsEquivalent(hostOf[q], reported[t])

(* A connection to a port that the rule names is not turned away, whenever *)
(* its task runs, unless a rival claims it too or the server reports an    *)
(* address that is not the rule's: only for a port that the server chooses *)
(* can a connection come before set_bound_port() has stored it             *)
(* (client.rs:35-73, 159-198, tunnel.rs:217-231).                          *)
TurnedAwayForAReason ==
  \A t \in Tasks : taskAt[t] = "ignored" /\ conn[t].gen = gen =>
    \/ portOf[conn[t].rule] = 0
    \/ ~ Faithful(t)
    \/ \E q \in Rules : Rival(q, t)

(* A connection of the current session reaches the destination of the rule *)
(* it was made to, even when its task runs while the rules are still being *)
(* registered or cleaned up.  It reaches that of another rule only when    *)
(* its own does not know it - the server chose the port, and it is not yet *)
(* stored, or the address is not the rule's - and the other is a rival     *)
(* (client.rs:35-73, 159-198, tunnel.rs:217-231).                          *)
RoutedToItsRule ==
  \A t \in Tasks : taskAt[t] = "routed" /\ conn[t].gen = gen =>
    \/ found[t] = {conn[t].rule}
    \/ /\ portOf[conn[t].rule] = 0 \/ ~ Faithful(t)
       /\ \E q \in Rules : Rival(q, t) /\ found[t] = {q}

(* Whichever way an attempt ended, no port of it is left in a rule when    *)
(* the next begins (tunnel.rs:250-272, client.rs:261-281).                 *)
NoStalePorts == phase = "down" => \A r \in Rules : actual[r] = 0

(* Rules that do not exclude each other are registered again after every   *)
(* loss, although the server may for a while hold the ports for the dead   *)
(* session and deny them (tunnel.rs:232-243, 274-299).                     *)
Compatible ==
  \A r, q \in Rules :
    r # q /\ portOf[r] # 0 /\ portOf[r] = portOf[q]
      => UNION Sockets[hostOf[r]] \cap UNION Sockets[hostOf[q]] = {}

RegisteredAgain == Compatible => []<>(phase = "up")
================================================================================
