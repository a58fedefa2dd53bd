--------------------------------- MODULE HopChain --------------------------------
(***************************************************************************)
(* How a session to the target comes about: connect_target() of            *)
(* src/ssh_session.rs goes from host to host along the ProxyJump path,     *)
(* ClientHandler::check_server_key() of src/client.rs checks each key      *)
(* against ~/.ssh/known_hosts, authenticate() tries the identity files and *)
(* the password.  An attempt that fails is repeated by run().  The         *)
(* known_hosts file outlives the program and is shared with others; the    *)
(* servers and the network are the environment.                            *)
(***************************************************************************)
EXTENDS Naturals, Sequences, FiniteSets

CONSTANTS
  Targets,      \* paths: sequences of hosts [host, port, user, files]
  BadFiles,     \* identity files that are missing, cannot be loaded, or hold an RSA
                \* key whose signatures the server does not announce
  Accepts,      \* what a server may accept: sets of files and "password"
  MaxTries,     \* credentials a server refuses before it hangs up
  MaxFaults,    \* bound: times the network or the disk fails
  MaxChanges,   \* bound: times a server changes its key
  MaxRestarts   \* bound: times the program is started again

ASSUME ChainAssumption ==
  /\ \A t \in Targets : /\ Len(t) \in Nat \ {0} /\ DOMAIN t = 1 .. Len(t)
                        /\ \A i \in DOMAIN t :
                             /\ Len(t[i].files) \in Nat
                             /\ DOMAIN t[i].files = 1 .. Len(t[i].files)
  /\ MaxTries \in Nat \ {0}
  /\ {MaxFaults, MaxChanges, MaxRestarts} \subseteq Nat

VARIABLES
  target,     \* the ResolvedTarget of the run: the jumps, then the destination
  args,       \* --strict-host-keys, and is there a password?
  at,         \* the step of the attempt, see ChainTypeOK
  hop,        \* the host it has come to
  file,       \* the identity file authenticate() has come to
  sess,       \* the SSH sessions whose handles are held, one for each host
  error,      \* how the last attempt failed
  known,      \* known_hosts: the keys recorded for each address
  met,        \* history: the addresses whose key this file has vouched for
  pwTo,       \* history: the hosts of the attempt that were sent the password
  server,     \* each server: its key, and what it accepts
  faults, changes, restarts

runVars == <<target, args>>
attemptVars == <<at, hop, file, sess, error, pwTo>>
worldVars == <<known, met, server, faults, changes, restarts>>
vars == <<target, args, at, hop, file, sess, error, known, met, pwTo, server,
          faults, changes, restarts>>

Address(h) == <<h.host, h.port>>
Addresses == {Address(target[i]) : i \in DOMAIN target}
Keys == Addresses \X (0 .. MaxChanges)     \* the host keys of each server
Destination == Len(target)
Here == Address(target[hop])
Files == target[hop].files

NoSession == [st |-> "none", key |-> {}, refused |-> 0]
Nothing == [i \in DOMAIN target |-> NoSession]
Open(i) == sess[i].st = "open"
Errors == {"none", "connect", "unknown", "changed", "record", "auth"}

ChainTypeOK ==
  /\ args \in [strict : BOOLEAN, password : BOOLEAN]
  /\ at \in {"idle", "connect", "check", "learn", "auth", "up"}
  /\ hop \in DOMAIN target /\ file \in 1 .. (Len(Files) + 1)
  /\ sess \in [DOMAIN target -> [st : {"none", "open", "shut"}, key : SUBSET Keys,
                                 refused : 0 .. MaxTries]]
  /\ error \in Errors
  /\ known \in [Addresses -> SUBSET Keys] /\ met \subseteq Addresses
  /\ pwTo \subseteq DOMAIN target
  /\ server \in [Addresses -> [key : Keys, accepts : Accepts]]
  /\ faults \in 0 .. MaxFaults /\ changes \in 0 .. MaxChanges
  /\ restarts \in 0 .. MaxRestarts

ChainInit ==
  /\ args \in [strict : BOOLEAN, password : BOOLEAN]
  /\ at = "idle" /\ hop = 1 /\ file = 1
  /\ sess = Nothing
  /\ error = "none" /\ pwTo = {}
  /\ known = [a \in Addresses |-> {}] /\ met = {}
  /\ server \in [Addresses -> [key : {<<a, 0>> : a \in Addresses}, accepts : Accepts]]
  /\ \A a \in Addresses : server[a].key = <<a, 0>>
  /\ faults = 0 /\ changes = 0 /\ restarts = 0

Init == target \in Targets /\ ChainInit
--------------------------------------------------------------------------------
(***************************************************************************)
(* connect_target(), connect_direct(), connect_via_channel().              *)
(***************************************************************************)
BeginResumes ==     \* mutant: a new attempt goes on at the host that failed
  /\ at = "idle"
  /\ at' = "connect"
  /\ error' = "none" /\ pwTo' = {}
  /\ UNCHANGED <<runVars, hop, file, sess, worldVars>>

Begin ==
  /\ at = "idle"
  /\ at' = "connect" /\ hop' = 1
  /\ error' = "none" /\ pwTo' = {}
  /\ UNCHANGED <<runVars, file, sess, worldVars>>

(* The transport, TCP to the first host and a direct-tcpip channel of the  *)
(* previous session to the others, and the key exchange on it.             *)
Connect ==
  /\ at = "connect"
  /\ hop > 1 => Open(hop - 1)
  /\ at' = "check"
  /\ sess' = [sess EXCEPT ![hop] =
                [st |-> "open", key |-> {server[Here].key}, refused |-> 0]]
  /\ UNCHANGED <<runVars, hop, file, error, pwTo, worldVars>>

(* `?`: the handles of the attempt are dropped, and with them the sessions.*)
FailAnyway(e) ==
  /\ error' = e /\ at' = "idle" /\ file' = 1
  /\ sess' = Nothing
  /\ UNCHANGED <<runVars, hop, known, met, server, changes, restarts>>

Fail(e) == FailAnyway(e) /\ UNCHANGED faults

Fault == faults < MaxFaults /\ faults' = faults + 1

ConnectFails ==
  /\ \/ at = "connect" /\ Fault /\ FailAnyway("connect")
     \/ at = "connect" /\ hop > 1 /\ ~Open(hop - 1) /\ Fail("connect")
     \/ at \in {"check", "learn"} /\ ~Open(hop) /\ Fail("connect")
  /\ UNCHANGED pwTo

(* check_server_key().  The library reports a recorded key that differs    *)
(* whatever else is recorded.                                              *)
Vouched == known[Here] = sess[hop].key
Changed == ~(known[Here] \subseteq sess[hop].key)

Trust ==
  /\ at' = "auth" /\ file' = 1
  /\ met' = met \cup {Here}

KeyKnown ==
  /\ at = "check" /\ Open(hop) /\ Vouched
  /\ Trust
  /\ UNCHANGED <<runVars, hop, sess, error, pwTo, known, server, faults, changes,
                 restarts>>

KeyUnknown ==
  /\ at = "check" /\ Open(hop) /\ known[Here] = {} /\ ~args.strict
  /\ at' = "learn"
  /\ UNCHANGED <<runVars, hop, file, sess, error, pwTo, worldVars>>

KeyRefused ==
  /\ at = "check" /\ Open(hop)
  /\ \/ known[Here] = {} /\ args.strict /\ Fail("unknown")
     \/ Changed /\ Fail("changed")
     \/ Fault /\ FailAnyway("record")     \* known_hosts cannot be read
  /\ UNCHANGED pwTo

LearnUnderFirstHost ==     \* mutant: the handler was made for the first host
  /\ at = "learn" /\ Open(hop)
  /\ known' = [known EXCEPT ![Address(target[1])] = @ \cup sess[hop].key]
  /\ Trust
  /\ UNCHANGED <<runVars, hop, sess, error, pwTo, server, faults, changes, restarts>>

LearnNothing ==     \* mutant: the key is accepted and not recorded
  /\ at = "learn" /\ Open(hop)
  /\ Trust
  /\ UNCHANGED <<runVars, hop, sess, error, pwTo, known, server, faults, changes,
                 restarts>>

(* learn_known_hosts() appends, whatever the file says by now.             *)
Learn ==
  /\ at = "learn" /\ Open(hop)
  /\ known' = [known EXCEPT ![Here] = @ \cup sess[hop].key]
  /\ Trust
  /\ UNCHANGED <<runVars, hop, sess, error, pwTo, server, faults, changes, restarts>>

LearnFails ==
  at = "learn" /\ Open(hop) /\ Fault /\ FailAnyway("record") /\ UNCHANGED pwTo
--------------------------------------------------------------------------------
(***************************************************************************)
(* authenticate().                                                         *)
(***************************************************************************)
AtFile == at = "auth" /\ file <= Len(Files)
NextFile == file' = file + 1

(* A file that is not there, cannot be loaded, or meets a dead session.    *)
SkipFile ==
  /\ AtFile /\ (Files[file] \in BadFiles \/ ~Open(hop))
  /\ NextFile
  /\ UNCHANGED <<runVars, at, hop, sess, error, pwTo, worldVars>>

Offered(credential) ==
  Open(hop) /\ credential \in server[Here].accepts

Refuse ==
  [sess EXCEPT ![hop].refused = @ + 1,
               ![hop].st = IF sess[hop].refused + 1 = MaxTries THEN "shut" ELSE @]

FileRefusedGivesUp ==     \* mutant: bail! in place of the next file
  /\ AtFile /\ Open(hop) /\ Files[file] \notin BadFiles \cup server[Here].accepts
  /\ Fail("auth")
  /\ UNCHANGED pwTo

FileRefused ==
  /\ AtFile /\ Open(hop) /\ Files[file] \notin BadFiles \cup server[Here].accepts
  /\ sess' = Refuse
  /\ NextFile
  /\ UNCHANGED <<runVars, at, hop, error, pwTo, worldVars>>

(* On to the next host, or the session is there: SessionHolder keeps the   *)
(* handles of the jumps in `chain`.                                        *)
AuthenticatedDropsJumps ==     \* mutant: only the last handle is returned
  /\ file' = 1
  /\ \/ /\ hop = Destination /\ at' = "up" /\ UNCHANGED hop
        /\ sess' = [Nothing EXCEPT ![hop] = sess[hop]]
     \/ hop < Destination /\ at' = "connect" /\ hop' = hop + 1 /\ UNCHANGED sess
  /\ UNCHANGED <<runVars, error, worldVars>>

Authenticated ==
  /\ file' = 1
  /\ \/ hop = Destination /\ at' = "up" /\ UNCHANGED hop
     \/ hop < Destination /\ at' = "connect" /\ hop' = hop + 1
  /\ UNCHANGED <<runVars, sess, error, worldVars>>

FileAccepted ==
  /\ AtFile /\ Files[file] \notin BadFiles /\ Offered(Files[file])
  /\ Authenticated
  /\ UNCHANGED pwTo

FilesTried == at = "auth" /\ file > Len(Files)

MayOfferPasswordAnywhere == args.password     \* mutant: allow_password is dropped

MayOfferPassword == args.password /\ hop = Destination

Password ==
  /\ FilesTried /\ MayOfferPassword /\ Open(hop)
  /\ pwTo' = pwTo \cup {hop}
  /\ \/ Offered("password") /\ Authenticated
     \/ ~Offered("password") /\ Fail("auth")

NothingLeft ==
  /\ FilesTried /\ ~(MayOfferPassword /\ Open(hop))
  /\ Fail("auth")
  /\ UNCHANGED pwTo

(* The end of the session has been noticed: it is withdrawn, and run()     *)
(* makes another attempt.                                                  *)
SessionOver ==
  /\ at = "up" /\ ~Open(Destination)
  /\ at' = "idle" /\ sess' = Nothing
  /\ UNCHANGED <<runVars, hop, file, error, pwTo, worldVars>>
--------------------------------------------------------------------------------
(***************************************************************************)
(* The environment.                                                        *)
(***************************************************************************)
Shut(i) ==
  /\ Open(i)
  /\ sess' = [sess EXCEPT ![i].st = "shut"]
  /\ UNCHANGED <<runVars, at, hop, file, error, pwTo, known, met, server, changes,
                 restarts>>

Lose(i) == Fault /\ Shut(i)

(* A session runs inside the one before it.                                *)
CarrierGone(i) == i > 1 /\ ~Open(i - 1) /\ Shut(i) /\ UNCHANGED faults

(* The administrator of a host replaces its key.                           *)
ChangeKey(a) ==
  /\ changes < MaxChanges /\ changes' = changes + 1
  /\ server' = [server EXCEPT ![a].key = <<a, @[2] + 1>>]
  /\ UNCHANGED <<runVars, attemptVars, known, met, faults, restarts>>

(* Another program that uses the file meets a host first.                  *)
OtherLearns(a) ==
  /\ known[a] = {}
  /\ known' = [known EXCEPT ![a] = {server[a].key}]
  /\ UNCHANGED <<runVars, attemptVars, met, server, faults, changes, restarts>>

(* The program ends, whatever it was doing, and is started again, perhaps  *)
(* with other flags.                                                       *)
Restart ==
  /\ restarts < MaxRestarts /\ restarts' = restarts + 1
  /\ args' \in [strict : BOOLEAN, password : BOOLEAN]
  /\ at' = "idle" /\ hop' = 1 /\ file' = 1 /\ sess' = Nothing
  /\ error' = "none" /\ pwTo' = {}
  /\ UNCHANGED <<target, known, met, server, faults, changes>>

Attempt ==
  \/ Begin \/ Connect \/ ConnectFails \/ KeyKnown \/ KeyUnknown \/ KeyRefused \/ Learn
  \/ LearnFails \/ SkipFile \/ FileRefused \/ FileAccepted \/ Password \/ NothingLeft
  \/ SessionOver

ChainEnvironment ==
  \/ \E i \in DOMAIN target : Lose(i) \/ CarrierGone(i)
  \/ \E a \in Addresses : ChangeKey(a) \/ OtherLearns(a)
  \/ Restart

ChainNext == Attempt \/ ChainEnvironment

Spec == Init /\ [][ChainNext]_vars
--------------------------------------------------------------------------------
(***************************************************************************)
(* Properties.                                                             *)
(***************************************************************************)
(* While nothing goes wrong outside, no session the program relies on      *)
(* ends: the jumps are kept as long as what runs over them, and a server   *)
(* hangs up only on too many refused credentials (ssh_session.rs:13-22,    *)
(* 59-102).                                                                *)
EndsForAReason ==
  faults = 0 =>
    \A i \in DOMAIN target : sess[i].st = "shut" =>
      \E j \in 1 .. i : sess[j].refused = MaxTries

(* "-P applies only to the final SSH host, not ProxyJump hops": it is sent *)
(* to no jump, and only to a server whose key known_hosts vouches for; the *)
(* same holds of every session that has come as far as authentication      *)
(* (ssh_session.rs:260-294, client.rs:108-142).                            *)
PasswordOnlyToTarget ==
  /\ pwTo \subseteq {Destination}
  /\ \A i \in DOMAIN target :
       sess[i].st # "none" /\ (i < hop \/ at \in {"auth", "up"})
         => sess[i].key \subseteq known[Address(target[i])]

(* A host that keeps its key is never refused for a changed one, although  *)
(* the check and the record are two steps and other programs write to the  *)
(* same file (client.rs:108-137).                                          *)
RefusedOnlyIfChanged == error = "changed" => changes > 0

(* "connect once without the flag" (client.rs:112): a host that has been   *)
(* accepted once is not unknown to any later run, and without the flag no  *)
(* host is (client.rs:108-132).                                            *)
OnceIsEnough ==
  at = "idle" /\ error = "unknown" => args.strict /\ Here \notin met

(* The server of a host accepts something it is offered before it hangs up.*)
RefusedBefore(h, n) ==
  {m \in 1 .. (n - 1) : h.files[m] \notin BadFiles \cup server[Address(h)].accepts}

CanAuthenticate(i) ==
  LET h == target[i]
      accepts == server[Address(h)].accepts
      Reached(n) == Cardinality(RefusedBefore(h, n)) < MaxTries
  IN  \/ \E n \in DOMAIN h.files : h.files[n] \in accepts \ BadFiles /\ Reached(n)
      \/ /\ i = Destination /\ args.password /\ "password" \in accepts
         /\ Reached(Len(h.files) + 1)

(* An attempt fails for want of a credential only when there is none: no   *)
(* file that is missing, broken or refused keeps a good one from its turn  *)
(* (ssh_session.rs:210-298).                                               *)
OneGoodIsEnough ==
  at = "idle" /\ error = "auth" /\ faults = 0 => ~CanAuthenticate(hop)

(* The whole path can be gone: every host can be authenticated to, and its *)
(* key is the recorded one or may be recorded.                             *)
Connectable ==
  \A i \in DOMAIN target :
    LET a == Address(target[i]) IN
    /\ CanAuthenticate(i)
    /\ known[a] \subseteq {server[a].key}
    /\ args.strict => known[a] # {}
================================================================================
