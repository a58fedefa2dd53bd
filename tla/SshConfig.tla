-------------------------------- MODULE SshConfig --------------------------------
(***************************************************************************)
(* From the command line and ~/.ssh/config to the path of hosts:           *)
(* resolve_target() of src/ssh_config.rs.  What is not given is "", 0 or   *)
(* <<>>.  An alias [user, host, port] is user@host:port in parts; a config *)
(* maps the hosts it has something for to their parameters.                *)
(***************************************************************************)
EXTENDS Naturals, Sequences, SequencesExt

CONSTANTS CurrentUser, DefaultFiles     \* of the user who runs the program

Aliases == [user : STRING, host : STRING, port : Nat]
Params ==
  [host : STRING, port : Nat, user : STRING, files : Seq(STRING), jumps : Seq(Aliases)]

(* `if let Some(x)`: a later source overwrites an earlier one.             *)
Over(old, new, none) == IF new = none THEN old ELSE new

NoParams == [host |-> "", port |-> 0, user |-> "", files |-> <<>>, jumps |-> <<>>]
Query(config, host) == IF host \in DOMAIN config THEN config[host] ELSE NoParams

ResolveHostConfigLast(alias, config) ==     \* mutant: the alias is applied first
  LET q == Query(config, alias.host) IN
  [host |-> Over(alias.host, q.host, ""),
   port |-> Over(Over(22, alias.port, 0), q.port, 0),
   user |-> Over(Over(CurrentUser, alias.user, ""), q.user, ""),
   files |-> Over(DefaultFiles, q.files, <<>>),
   jumps |-> q.jumps]

(* resolve_host(): defaults, then the config, then the alias itself.       *)
ResolveHost(alias, config) ==
  LET q == Query(config, alias.host) IN
  [host |-> Over(alias.host, q.host, ""),
   port |-> Over(Over(22, q.port, 0), alias.port, 0),
   user |-> Over(Over(CurrentUser, q.user, ""), alias.user, ""),
   files |-> Over(DefaultFiles, q.files, <<>>),
   jumps |-> q.jumps]

IntoHostConfig(p) == [host |-> p.host, port |-> p.port, user |-> p.user, files |-> p.files]

(* flatten_jump_names(): -J may be repeated and holds names with commas;   *)
(* what is empty between two of them is left out.                          *)
NoName == [user |-> "", host |-> "", port |-> 0]

FlattenJumpNames(entries) ==
  LET names == FlattenSeq(entries)
  IN  FlattenSeq([i \in DOMAIN names |->
                    IF names[i] = NoName THEN <<>> ELSE <<names[i]>>])

(* -p, -u and -i are for the destination, -J replaces its ProxyJump; that  *)
(* of a jump host is not followed.                                         *)
ResolveTarget(c, config) ==
  LET d == ResolveHost(c.host, config)
      destination == [host |-> d.host, port |-> Over(d.port, c.port, 0),
                      user |-> Over(d.user, c.user, ""),
                      files |-> Over(d.files, c.identity, <<>>)]
      jumps == IF c.jumps = <<>> THEN d.jumps ELSE FlattenJumpNames(c.jumps)
  IN  Append([i \in DOMAIN jumps |-> IntoHostConfig(ResolveHost(jumps[i], config))],
             destination)
--------------------------------------------------------------------------------
(* "overrides ~/.ssh/config" (cli.rs:152-166): of the sources that give a  *)
(* value, the first in the order command line, alias, config, default; the *)
(* last is taken whatever it is.                                           *)
FirstGiven(sources, none) ==
  sources[Min({i \in DOMAIN sources : sources[i] # none \/ i = Len(sources)})]

ExpectedHost(alias, cli, config) ==
  LET q == Query(config, alias.host) IN
  [host |-> FirstGiven(<<q.host, alias.host>>, ""),
   port |-> FirstGiven(<<cli.port, alias.port, q.port, 22>>, 0),
   user |-> FirstGiven(<<cli.user, alias.user, q.user, CurrentUser>>, ""),
   files |-> FirstGiven(<<cli.identity, q.files, DefaultFiles>>, <<>>)]

(* "Jump host(s), comma-separated or repeat -J" (cli.rs:143): the names in *)
(* the order given, but for the empty ones.                                *)
InOrder(out, names) ==
  \E from \in [DOMAIN out -> DOMAIN names] :
    /\ \A j, k \in DOMAIN out : j < k => from[j] < from[k]
    /\ \A k \in DOMAIN out : out[k] = names[from[k]]
    /\ \A i \in DOMAIN names : names[i] # NoName <=> \E k \in DOMAIN out : from[k] = i
================================================================================
