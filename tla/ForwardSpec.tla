------------------------------- MODULE ForwardSpec -------------------------------
(***************************************************************************)
(* The -L and -R arguments: parse_forward_spec() of src/ssh_forward.rs,    *)
(* their collection by parse_ssh() of src/cli.rs and the second validation *)
(* of src/tunnel.rs.  A specification is the sequence of the fields        *)
(* between its colons; "[v6]" is one field, with its brackets.             *)
(***************************************************************************)
EXTENDS Naturals, Sequences, FiniteSets

CONSTANTS
  Names,         \* host names and IPv4 addresses
  V6Addresses,   \* IPv6 addresses, written in brackets
  Numbers        \* port numbers (16 bits), as text; the other fields are none

Plain(text) == [text |-> text, brackets |-> FALSE]
Fields ==
  [text : Names \cup Numbers \cup {""}, brackets : {FALSE}]
    \cup [text : V6Addresses, brackets : {TRUE}]

Bad == [bind |-> "", port |-> "", dest |-> "", destPort |-> "bad"]
Rule(bind, port, dest, destPort) ==
  IF {port, destPort} \subseteq {Plain(n) : n \in Numbers}
  THEN [bind |-> bind.text, port |-> port.text,
        dest |-> dest.text, destPort |-> destPort.text]
  ELSE Bad

(* Without a bracket the text is split at every colon.                     *)
DefaultBindAny == Plain("0.0.0.0")     \* mutant

DefaultBind == Plain("127.0.0.1")

ParsePlain(s) ==
  CASE Len(s) = 3 -> Rule(DefaultBind, s[1], s[2], s[3])
    [] Len(s) = 4 -> Rule(s[1], s[2], s[3], s[4])
    [] OTHER -> Bad

(* parse_host_port() takes two fields, of which only the first may be in   *)
(* brackets, and leaves the others; two calls must use up the text.        *)
IsHost(f) == f.brackets \/ f.text # ""

ParseBracketed(s) ==
  IF Len(s) = 4 /\ IsHost(s[1]) /\ IsHost(s[3])
  THEN Rule(s[1], s[2], s[3], s[4]) ELSE Bad

ParseForwardSpec(s) ==
  IF \E i \in DOMAIN s : s[i].brackets THEN ParseBracketed(s) ELSE ParsePlain(s)

(* parse_ssh(): the rules in the order of the arguments, or <<Bad>>.  Two  *)
(* -L rules for one address are refused, and two -R rules unless the       *)
(* server chooses the port.                                                *)
Distinct(rules, exempt) ==
  \A i, j \in DOMAIN rules :
    i # j /\ rules[i].port \notin exempt =>
      <<rules[i].bind, rules[i].port>> # <<rules[j].bind, rules[j].port>>

(* validate_no_duplicate_binds() of tunnel.rs, on the accepted rules.      *)
Binds(rules, at) == {<<rules[i].bind, rules[i].port>> : i \in at}
NoTwoAlike(rules, at) == Cardinality(Binds(rules, at)) = Cardinality(at)

ValidateNoDuplicateBinds(p) ==
  /\ NoTwoAlike(p.local, DOMAIN p.local)
  /\ NoTwoAlike(p.remote, {i \in DOMAIN p.remote : p.remote[i].port # "0"})

ParseSpecs(specs) == [i \in DOMAIN specs |-> ParseForwardSpec(specs[i])]

ParseSshUnchecked(local, remote) ==     \* mutant: duplicates are not looked for
  LET ls == ParseSpecs(local)
      rs == ParseSpecs(remote)
  IN  [ok |-> /\ \A i \in DOMAIN ls : ls[i] # Bad
              /\ \A i \in DOMAIN rs : rs[i] # Bad,
       local |-> ls, remote |-> rs]

ParseSsh(local, remote) ==
  LET ls == ParseSpecs(local)
      rs == ParseSpecs(remote)
  IN  [ok |-> /\ local \o remote # <<>>
              /\ \A i \in DOMAIN ls : ls[i] # Bad
              /\ \A i \in DOMAIN rs : rs[i] # Bad
              /\ Distinct(ls, {}) /\ Distinct(rs, {"0"}),
       local |-> ls, remote |-> rs]
--------------------------------------------------------------------------------
(* `[bind_address:]port:host:hostport`, IPv6 addresses in brackets         *)
(* (ssh_forward.rs:42-44), and 127.0.0.1 when there is no bind_address     *)
(* (cli.rs:58).                                                            *)
Expected(s) ==
  CASE Len(s) = 3 /\ IsHost(s[2]) -> Rule(Plain("127.0.0.1"), s[1], s[2], s[3])
    [] Len(s) = 4 /\ IsHost(s[1]) /\ IsHost(s[3]) -> Rule(s[1], s[2], s[3], s[4])
    [] OTHER -> Bad
================================================================================
