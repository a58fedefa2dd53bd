------------------------------ MODULE HopChainProofs -----------------------------
(***************************************************************************)
(* What holds of the chain for every path, every number of credentials a   *)
(* server puts up with, and any number of faults, changed keys and         *)
(* restarts.                                                               *)
(***************************************************************************)
EXTENDS HopChain, FiniteSetTheorems, TLAPS

(* What is there of the sessions: none ahead of the attempt, none without  *)
(* one, and each of them has shown a key and has a refusal to spare.       *)
SessionsAreBehind ==
  /\ \A i \in DOMAIN target :
       i > hop \/ at = "idle" \/ (at = "connect" /\ i = hop) => sess[i].st = "none"
  /\ \A i \in DOMAIN target : sess[i].st # "none" => sess[i].key # {}
  /\ \A i \in DOMAIN target : Open(i) => sess[i].refused < MaxTries

(* An error ends the attempt, the identity files are tried from the first. *)
AttemptInOrder == (at # "idle" => error = "none") /\ (at # "auth" => file = 1)

(* A server's key says whose it is and is no newer than the changes; what  *)
(* has been vouched for is on record.                                      *)
KeysHaveOwners ==
  /\ \A a \in Addresses : \E n \in 0 .. changes : server[a].key = <<a, n>>
  /\ \A a \in met : known[a] # {}

(* Before the first change there is one key for each address.              *)
FirstKeys ==
  changes = 0 =>
    /\ \A a \in Addresses : known[a] \subseteq {<<a, 0>>}
    /\ \A i \in DOMAIN target : sess[i].key \subseteq {<<Address(target[i]), 0>>}

IInv ==
  /\ target \in Targets /\ ChainTypeOK
  /\ AttemptInOrder /\ SessionsAreBehind /\ KeysHaveOwners /\ FirstKeys
  /\ PasswordOnlyToTarget /\ RefusedOnlyIfChanged /\ OnceIsEnough
--------------------------------------------------------------------------------
LEMMA Paths ==
  ASSUME target \in Targets
  PROVE  /\ Destination \in Nat \ {0} /\ DOMAIN target = 1 .. Destination
         /\ 1 \in DOMAIN target /\ Destination \in DOMAIN target
         /\ \A i \in DOMAIN target : /\ Address(target[i]) \in Addresses
                                     /\ Len(target[i].files) \in Nat
BY ChainAssumption DEF ChainAssumption, Destination, Addresses

LEMMA InitInv == Init => IInv
<1> SUFFICES ASSUME Init PROVE IInv
  OBVIOUS
<1> USE DEF Init, ChainInit
<1>1. target \in Targets
  OBVIOUS
<1>2. ChainTypeOK
  BY <1>1, Paths, ChainAssumption
  DEF ChainTypeOK, ChainAssumption, Nothing, NoSession, Keys, Errors, Files
<1>3. SessionsAreBehind /\ KeysHaveOwners /\ FirstKeys
  BY <1>1, Paths, ChainAssumption
  DEF SessionsAreBehind, KeysHaveOwners, FirstKeys, Nothing, NoSession, Open
<1>4. PasswordOnlyToTarget /\ RefusedOnlyIfChanged /\ OnceIsEnough
  BY DEF PasswordOnlyToTarget, RefusedOnlyIfChanged, OnceIsEnough, Nothing, NoSession
<1> QED
  BY <1>1, <1>2, <1>3, <1>4 DEF IInv, AttemptInOrder
--------------------------------------------------------------------------------
(***************************************************************************)
(* The ways a step can go.                                                 *)
(***************************************************************************)
(* The attempt fails: the sessions are gone, and the error has its reason. *)
LEMMA FailureInv ==
  ASSUME IInv, NEW e \in Errors, FailAnyway(e),
         faults' \in 0 .. MaxFaults, pwTo' \subseteq {Destination},
         e = "changed" => changes > 0,
         e = "unknown" => args.strict /\ Here \notin met
  PROVE  IInv'
<1> USE DEF IInv, AttemptInOrder, FailAnyway, runVars
<1>1. target' = target /\ Destination \in DOMAIN target
  BY Paths
<1>2. sess' = [i \in DOMAIN target |-> NoSession]
  BY DEF Nothing
<1>3. ChainTypeOK'
  <2>1. Addresses' = Addresses /\ Keys' = Keys /\ Files' = Files
    BY <1>1 DEF Addresses, Keys, Files
  <2>2. pwTo' \subseteq DOMAIN target /\ Len(Files) \in Nat
    BY <1>1, Paths DEF Files, ChainTypeOK
  <2>3. NoSession \in [st : {"none", "open", "shut"}, key : SUBSET Keys,
                       refused : 0 .. MaxTries]
    BY ChainAssumption DEF NoSession, ChainAssumption
  <2> QED
    BY <1>1, <1>2, <2>1, <2>2, <2>3 DEF ChainTypeOK
<1>4. SessionsAreBehind' /\ KeysHaveOwners' /\ FirstKeys'
  BY <1>1, <1>2 DEF SessionsAreBehind, KeysHaveOwners, FirstKeys, NoSession, Open,
     Addresses
<1>5. PasswordOnlyToTarget' /\ RefusedOnlyIfChanged' /\ OnceIsEnough'
  BY <1>1, <1>2 DEF PasswordOnlyToTarget, RefusedOnlyIfChanged, OnceIsEnough, NoSession,
     Destination, Here
<1> QED
  BY <1>1, <1>3, <1>4, <1>5

(* Nothing but the place in the attempt changes, and it stays at its host. *)
LEMMA OnwardInv ==
  ASSUME IInv, at \notin {"idle", "connect"}, at' \in {"check", "learn", "auth", "up"},
         at' \in {"auth", "up"} => at \in {"auth", "up"}, at' # "auth" => file' = 1,
         file' \in 1 .. (Len(Files) + 1), pwTo' \subseteq {Destination},
         UNCHANGED <<runVars, hop, sess, error, worldVars>>
  PROVE  IInv'
<1> USE DEF IInv, AttemptInOrder, runVars, worldVars
<1>1. ChainTypeOK'
  <2>1. Addresses' = Addresses /\ Keys' = Keys /\ pwTo' \subseteq DOMAIN target
        /\ Files' = Files
    BY Paths DEF Addresses, Keys, Files
  <2> QED
    BY <2>1 DEF ChainTypeOK
<1>2. SessionsAreBehind' /\ KeysHaveOwners' /\ FirstKeys'
  BY DEF SessionsAreBehind, KeysHaveOwners, FirstKeys, Open, Addresses
<1>3. PasswordOnlyToTarget' /\ RefusedOnlyIfChanged' /\ OnceIsEnough'
  BY DEF PasswordOnlyToTarget, RefusedOnlyIfChanged, OnceIsEnough, Destination,
     KeysHaveOwners
<1> QED
  BY <1>1, <1>2, <1>3

(* The host is authenticated to.                                           *)
LEMMA AuthenticatedInv ==
  ASSUME IInv, at = "auth", Authenticated, pwTo' \subseteq {Destination}
  PROVE  IInv'
<1> USE DEF IInv, AttemptInOrder, Authenticated, runVars, worldVars
<1>1. /\ hop' \in DOMAIN target
      /\ \/ hop' = hop /\ at' = "up"
         \/ hop' = hop + 1 /\ at' = "connect"
  BY Paths DEF ChainTypeOK
<1>2. Addresses' = Addresses /\ Keys' = Keys /\ pwTo' \subseteq DOMAIN target
      /\ Len(Files') \in Nat
  BY <1>1, Paths DEF Addresses, Keys, Files
<1>3. ChainTypeOK'
  BY <1>1, <1>2 DEF ChainTypeOK
<1>4. SessionsAreBehind' /\ KeysHaveOwners' /\ FirstKeys'
  <2>1. hop \in Nat /\ \A i \in DOMAIN target : i \in Nat
    BY Paths DEF ChainTypeOK
  <2>2. \A i \in DOMAIN target :
          i > hop' \/ (at' = "connect" /\ i = hop') => sess[i].st = "none"
    BY <1>1, <2>1 DEF SessionsAreBehind
  <2> QED
    BY <1>1, <1>2, <2>2 DEF SessionsAreBehind, KeysHaveOwners, FirstKeys, Open
<1>5. PasswordOnlyToTarget' /\ RefusedOnlyIfChanged' /\ OnceIsEnough'
  BY <1>1, Paths DEF PasswordOnlyToTarget, RefusedOnlyIfChanged, OnceIsEnough,
     Destination, KeysHaveOwners, ChainTypeOK
<1> QED
  BY <1>1, <1>3, <1>4, <1>5

(* The key of the host is trusted, and perhaps recorded.                   *)
LEMMA TrustInv ==
  ASSUME IInv, at \in {"check", "learn"}, Open(hop), Trust,
         known' = [known EXCEPT ![Here] = known[Here] \cup sess[hop].key],
         UNCHANGED <<runVars, hop, sess, error, pwTo, server, faults, changes, restarts>>
  PROVE  IInv'
<1> USE DEF IInv, AttemptInOrder, Trust, runVars
<1>1. hop \in DOMAIN target /\ Here \in Addresses /\ at' = "auth"
      /\ target' = target /\ Addresses' = Addresses
  BY Paths DEF ChainTypeOK, Here, Addresses
<1>2. /\ sess[hop].key # {} /\ sess[hop].key \subseteq Keys
      /\ known' \in [Addresses -> SUBSET Keys]
      /\ known'[Here] = known[Here] \cup sess[hop].key
      /\ \A a \in Addresses \ {Here} : known'[a] = known[a]
      /\ \A a \in Addresses : known[a] \subseteq known'[a]
  BY <1>1 DEF SessionsAreBehind, Open, ChainTypeOK
<1>3. ChainTypeOK'
  <2>1. Keys' = Keys /\ Files' = Files /\ Len(Files) \in Nat
    BY <1>1, Paths DEF Keys, Files
  <2> QED
    BY <1>1, <1>2, <2>1 DEF ChainTypeOK
<1>4. SessionsAreBehind'
  BY <1>1 DEF SessionsAreBehind, Open
<1>5. KeysHaveOwners' /\ FirstKeys'
  <2>1. \A a \in met : a \in Addresses
    BY DEF ChainTypeOK
  <2>2. KeysHaveOwners'
    BY <1>1, <1>2, <2>1 DEF KeysHaveOwners
  <2>3. FirstKeys'
    BY <1>1, <1>2 DEF FirstKeys, Here
  <2> QED
    BY <2>2, <2>3
<1>6. PasswordOnlyToTarget'
  <2> SUFFICES ASSUME NEW i \in DOMAIN target, sess[i].st # "none"
               PROVE  sess[i].key \subseteq known'[Address(target[i])]
    BY <1>1 DEF PasswordOnlyToTarget, Destination
  <2>1. ~(i > hop)
    BY DEF SessionsAreBehind
  <2>2. CASE i = hop
    BY <2>2, <1>2 DEF Here
  <2>3. CASE i < hop
    BY <2>3, Paths DEF PasswordOnlyToTarget
  <2> QED
    BY <2>1, <2>2, <2>3, <1>1, Paths
<1>7. RefusedOnlyIfChanged' /\ OnceIsEnough'
  BY <1>1 DEF RefusedOnlyIfChanged, OnceIsEnough
<1> QED
  BY <1>1, <1>3, <1>4, <1>5, <1>6, <1>7

(* A session ends.                                                         *)
LEMMA ShutInv ==
  ASSUME IInv, NEW i \in DOMAIN target, Shut(i), faults' \in 0 .. MaxFaults
  PROVE  IInv'
<1> USE DEF IInv, AttemptInOrder, Shut, runVars
<1>1. target' = target /\ Addresses' = Addresses
  BY DEF Addresses
<1>2. DOMAIN sess' = DOMAIN target
      /\ \A j \in DOMAIN target : sess'[j] = IF j = i THEN [sess[i] EXCEPT !.st = "shut"]
                                                       ELSE sess[j]
  BY DEF ChainTypeOK
<1>3. \A j \in DOMAIN target :
        /\ sess'[j].key = sess[j].key
        /\ sess'[j].refused = sess[j].refused
        /\ sess'[j].st = "none" <=> sess[j].st = "none"
        /\ sess'[j].st = "open" => sess[j].st = "open"
  BY <1>2 DEF ChainTypeOK, Open
<1>4. sess' \in [DOMAIN target -> [st : {"none", "open", "shut"}, key : SUBSET Keys,
                                    refused : 0 .. MaxTries]]
  BY DEF ChainTypeOK
<1>5. ChainTypeOK'
  BY <1>1, <1>4 DEF ChainTypeOK, Files, Keys
<1>6. SessionsAreBehind' /\ KeysHaveOwners' /\ FirstKeys'
  BY <1>1, <1>3 DEF SessionsAreBehind, KeysHaveOwners, FirstKeys, Open
<1>7. PasswordOnlyToTarget' /\ RefusedOnlyIfChanged' /\ OnceIsEnough'
  BY <1>1, <1>3 DEF PasswordOnlyToTarget, RefusedOnlyIfChanged, OnceIsEnough, Destination,
     Here
<1> QED
  BY <1>1, <1>5, <1>6, <1>7
--------------------------------------------------------------------------------
(***************************************************************************)
(* The actions.                                                            *)
(***************************************************************************)
LEMMA BeginInv == IInv /\ Begin => IInv'
<1> SUFFICES ASSUME IInv, Begin PROVE IInv'
  OBVIOUS
<1> USE DEF IInv, AttemptInOrder, Begin, runVars, worldVars
<1>0. 1 \in DOMAIN target /\ Len(target[1].files) \in Nat /\ Addresses' = Addresses
  BY Paths DEF Addresses
<1>1. ChainTypeOK'
  BY <1>0 DEF ChainTypeOK, Files, Keys, Errors
<1>2. SessionsAreBehind' /\ KeysHaveOwners' /\ FirstKeys'
  <2>1. \A i \in DOMAIN target : sess'[i].st = "none"
    BY DEF SessionsAreBehind
  <2> QED
    BY <1>0, <2>1 DEF SessionsAreBehind, KeysHaveOwners, FirstKeys, Open
<1>3. PasswordOnlyToTarget' /\ RefusedOnlyIfChanged' /\ OnceIsEnough'
  BY DEF PasswordOnlyToTarget, RefusedOnlyIfChanged, OnceIsEnough, SessionsAreBehind
<1> QED
  BY <1>1, <1>2, <1>3

LEMMA ConnectInv == IInv /\ Connect => IInv'
<1> SUFFICES ASSUME IInv, Connect PROVE IInv'
  OBVIOUS
<1> USE DEF IInv, AttemptInOrder, Connect, runVars, worldVars
<1>1. hop \in DOMAIN target /\ Here \in Addresses /\ Addresses' = Addresses
  BY Paths DEF ChainTypeOK, Here, Addresses
<1> DEFINE new == [st |-> "open", key |-> {server[Here].key}, refused |-> 0]
<1>2. new \in [st : {"none", "open", "shut"}, key : SUBSET Keys, refused : 0 .. MaxTries]
  BY <1>1, ChainAssumption DEF ChainAssumption, ChainTypeOK
<1>3. sess' = [sess EXCEPT ![hop] = new]
  OBVIOUS
<1>4. sess'[hop] = new /\ \A i \in DOMAIN target \ {hop} : sess'[i] = sess[i]
  BY <1>1, <1>3 DEF ChainTypeOK
<1>5. new.st = "open" /\ new.key = {server[Here].key} /\ new.refused = 0
  OBVIOUS
<1> HIDE DEF new
<1>6. ChainTypeOK'
  <2>1. Keys' = Keys /\ Files' = Files
    BY <1>1 DEF Keys, Files
  <2> QED
    BY <1>1, <1>2, <1>3, <2>1 DEF ChainTypeOK
<1>7. SessionsAreBehind'
  <2>1. 0 < MaxTries /\ hop \in Nat /\ \A i \in DOMAIN target : i \in Nat
    BY <1>1, Paths, ChainAssumption DEF ChainAssumption
  <2>2. target' = target /\ hop' = hop /\ at' = "check" /\ at = "connect"
    OBVIOUS
  <2> QED
    BY <1>1, <1>4, <1>5, <2>1, <2>2 DEF SessionsAreBehind, Open
<1>8. KeysHaveOwners'
  BY <1>1 DEF KeysHaveOwners
<1>9. FirstKeys'
  <2>1. changes = 0 => server[Here].key = <<Address(target[hop]), 0>>
    BY <1>1 DEF KeysHaveOwners, Here
  <2> QED
    BY <1>1, <1>4, <1>5, <2>1 DEF FirstKeys
<1>10. PasswordOnlyToTarget' /\ RefusedOnlyIfChanged' /\ OnceIsEnough'
  BY <1>1, <1>4, Paths
  DEF PasswordOnlyToTarget, RefusedOnlyIfChanged, OnceIsEnough, Destination
<1> QED
  BY <1>6, <1>7, <1>8, <1>9, <1>10

(* A password that was asked for and refused, a missing credential, a key  *)
(* that is not accepted, a connection that cannot be made.                 *)
LEMMA FailingInv ==
  ASSUME IInv, ConnectFails \/ KeyRefused \/ LearnFails \/ NothingLeft
  PROVE  IInv'
<1> USE DEF IInv, AttemptInOrder
<1>1. faults \in 0 .. MaxFaults /\ pwTo \subseteq {Destination} /\ MaxFaults \in Nat
  BY ChainAssumption DEF ChainTypeOK, PasswordOnlyToTarget, ChainAssumption
<1>2. Fault => faults' \in 0 .. MaxFaults
  BY <1>1 DEF Fault
<1>3. CASE ConnectFails
  BY <1>1, <1>2, <1>3, FailureInv DEF ConnectFails, Fail, Errors
<1>4. CASE KeyRefused
  <2>1. UNCHANGED pwTo
    BY <1>4 DEF KeyRefused
  <2>2. CASE known[Here] = {} /\ args.strict /\ Fail("unknown")
    <3>1. Here \notin met
      BY <2>2 DEF KeysHaveOwners
    <3> QED
      BY <1>1, <2>1, <2>2, <3>1, FailureInv DEF Fail, Errors
  <2>3. CASE Changed /\ Fail("changed")
    <3>1. changes > 0
      <4>1. sess[hop].key # {} /\ hop \in DOMAIN target /\ Here \in Addresses
        BY <1>4, Paths DEF KeyRefused, Open, SessionsAreBehind, ChainTypeOK, Here
      <4>2. ASSUME changes = 0 PROVE FALSE
        BY <2>3, <4>1, <4>2 DEF FirstKeys, Changed, Here
      <4> QED
        BY <4>2, ChainAssumption DEF ChainTypeOK, ChainAssumption
    <3> QED
      BY <1>1, <2>1, <2>3, <3>1, FailureInv DEF Fail, Errors
  <2>4. CASE Fault /\ FailAnyway("record")
    BY <1>1, <1>2, <2>1, <2>4, FailureInv DEF Errors
  <2> QED
    BY <1>4, <2>2, <2>3, <2>4 DEF KeyRefused
<1>5. CASE LearnFails
  BY <1>1, <1>2, <1>5, FailureInv DEF LearnFails, Errors
<1>6. CASE NothingLeft
  BY <1>1, <1>6, FailureInv DEF NothingLeft, Fail, Errors
<1> QED
  BY <1>3, <1>4, <1>5, <1>6

LEMMA KeyInv ==
  ASSUME IInv, KeyKnown \/ KeyUnknown \/ Learn
  PROVE  IInv'
<1> USE DEF IInv, AttemptInOrder
<1>1. hop \in DOMAIN target /\ Here \in Addresses /\ file \in 1 .. (Len(Files) + 1)
      /\ known \in [Addresses -> SUBSET Keys] /\ sess[hop].key \subseteq Keys
      /\ pwTo \subseteq {Destination}
  BY Paths DEF ChainTypeOK, Here, PasswordOnlyToTarget
<1>2. CASE KeyKnown
  <2>1. known' = [known EXCEPT ![Here] = known[Here] \cup sess[hop].key]
    BY <1>1, <1>2 DEF KeyKnown, Vouched
  <2> QED
    BY <1>2, <2>1, TrustInv DEF KeyKnown
<1>3. CASE KeyUnknown
  BY <1>1, <1>3, OnwardInv DEF KeyUnknown
<1>4. CASE Learn
  BY <1>4, TrustInv DEF Learn
<1> QED
  BY <1>2, <1>3, <1>4

(* authenticate(): a refused file costs the session a refusal.             *)
LEMMA RefusedInv == IInv /\ FileRefused => IInv'
<1> SUFFICES ASSUME IInv, FileRefused PROVE IInv'
  OBVIOUS
<1> USE DEF IInv, AttemptInOrder, FileRefused, AtFile, NextFile, runVars, worldVars
<1>1. Addresses' = Addresses /\ Keys' = Keys /\ Files' = Files
  BY DEF Files, Addresses, Keys
<1>2. hop \in DOMAIN target /\ Len(Files) \in Nat
  BY Paths DEF ChainTypeOK, Files
<1> DEFINE n == sess[hop].refused + 1
<1>3. n \in 1 .. MaxTries
  BY <1>2, ChainAssumption DEF ChainTypeOK, SessionsAreBehind, ChainAssumption
<1>4. sess' \in [DOMAIN target -> [st : {"none", "open", "shut"}, key : SUBSET Keys,
                                   refused : 0 .. MaxTries]]
  <2> DEFINE counted == [sess EXCEPT ![hop].refused = n]
             st == IF n = MaxTries THEN "shut" ELSE sess[hop].st
  <2>1. sess' = [counted EXCEPT ![hop].st = st]
    BY DEF Refuse
  <2>2. sess \in [DOMAIN target -> [st : {"none", "open", "shut"}, key : SUBSET Keys,
                                   refused : 0 .. MaxTries]]
    BY DEF ChainTypeOK
  <2>3. n \in 0 .. MaxTries /\ st \in {"none", "open", "shut"}
    BY <1>2, <1>3, <2>2
  <2>4. counted \in [DOMAIN target -> [st : {"none", "open", "shut"}, key : SUBSET Keys,
                                      refused : 0 .. MaxTries]]
    BY <1>2, <2>2, <2>3
  <2> HIDE DEF counted, st
  <2> QED
    BY <1>2, <2>1, <2>3, <2>4
<1>5. sess'[hop].st # "none" /\ (sess'[hop].st = "open" => sess'[hop].refused < MaxTries)
  BY <1>2, <1>3, ChainAssumption DEF ChainTypeOK, Refuse, Open, ChainAssumption
<1>6. /\ \A i \in DOMAIN target \ {hop} : sess'[i] = sess[i]
      /\ \A i \in DOMAIN target : sess'[i].key = sess[i].key
      /\ \A i \in DOMAIN target : sess'[i].st = "none" <=> sess[i].st = "none"
  BY <1>2, <1>3, <1>5 DEF ChainTypeOK, Open, Refuse
<1>7. ChainTypeOK'
  BY <1>1, <1>2, <1>4 DEF ChainTypeOK
<1>8. SessionsAreBehind' /\ KeysHaveOwners' /\ FirstKeys'
  BY <1>1, <1>5, <1>6 DEF SessionsAreBehind, KeysHaveOwners, FirstKeys, Open
<1>9. PasswordOnlyToTarget' /\ RefusedOnlyIfChanged' /\ OnceIsEnough'
  BY <1>6 DEF PasswordOnlyToTarget, RefusedOnlyIfChanged, OnceIsEnough, Destination
<1> QED
  BY <1>7, <1>8, <1>9

LEMMA CredentialInv ==
  ASSUME IInv, SkipFile \/ FileAccepted \/ Password
  PROVE  IInv'
<1> USE DEF IInv
<1>1. hop \in DOMAIN target /\ Len(Files) \in Nat /\ pwTo \subseteq {Destination}
      /\ faults \in 0 .. MaxFaults /\ file \in 1 .. (Len(Files) + 1)
  BY Paths DEF ChainTypeOK, Files, PasswordOnlyToTarget
<1>2. CASE SkipFile
  <2>1. file' \in 1 .. (Len(Files) + 1)
    BY <1>1, <1>2 DEF SkipFile, AtFile, NextFile
  <2> QED
    BY <1>1, <1>2, <2>1, OnwardInv DEF SkipFile, AtFile
<1>3. CASE FileAccepted
  BY <1>1, <1>3, AuthenticatedInv DEF FileAccepted, AtFile
<1>4. CASE Password
  <2>1. at = "auth" /\ pwTo' \subseteq {Destination}
    BY <1>1, <1>4 DEF Password, FilesTried, MayOfferPassword
  <2>2. CASE Authenticated
    BY <2>1, <2>2, AuthenticatedInv
  <2>3. CASE Fail("auth")
    BY <1>1, <2>1, <2>3, FailureInv DEF Fail, Errors
  <2> QED
    BY <1>4, <2>2, <2>3 DEF Password
<1> QED
  BY <1>2, <1>3, <1>4

(* The sessions go and the host stays: the end of a session, a restart.    *)
LEMMA OverInv ==
  ASSUME IInv, SessionOver \/ Restart
  PROVE  IInv'
<1> USE DEF IInv, AttemptInOrder, runVars, worldVars
<1>1. target' = target /\ hop' \in DOMAIN target /\ file' = 1 /\ at' = "idle"
      /\ error' = "none" /\ pwTo' \subseteq {Destination}
      /\ Addresses' = Addresses /\ Keys' = Keys
      /\ pwTo' \subseteq DOMAIN target /\ Len(Files') \in Nat
  <2>1. target' = target /\ file' = 1 /\ at' = "idle" /\ error' = "none"
        /\ hop' \in {1, hop} /\ pwTo' \in {{}, pwTo}
    BY DEF SessionOver, Restart
  <2>2. Addresses' = Addresses /\ Keys' = Keys
    BY <2>1 DEF Addresses, Keys
  <2>3. hop' \in DOMAIN target /\ pwTo' \subseteq {Destination}
        /\ pwTo' \subseteq DOMAIN target
    BY <2>1, Paths DEF ChainTypeOK, PasswordOnlyToTarget
  <2>4. Len(Files') \in Nat
    BY <2>1, <2>3, Paths DEF Files
  <2> QED
    BY <2>1, <2>2, <2>3, <2>4
<1>2. sess' = [i \in DOMAIN target |-> NoSession]
  BY DEF SessionOver, Restart, Nothing
<1>3. NoSession \in [st : {"none", "open", "shut"}, key : SUBSET Keys,
                     refused : 0 .. MaxTries]
  BY ChainAssumption DEF NoSession, ChainAssumption
<1>4. UNCHANGED <<known, met, server, faults, changes>>
  BY DEF SessionOver, Restart
<1>5. restarts' \in 0 .. MaxRestarts /\ args' \in [strict : BOOLEAN, password : BOOLEAN]
  BY ChainAssumption DEF SessionOver, Restart, ChainTypeOK, ChainAssumption
<1>6. ChainTypeOK'
  BY <1>1, <1>2, <1>3, <1>4, <1>5 DEF ChainTypeOK, Errors
<1>7. SessionsAreBehind' /\ KeysHaveOwners' /\ FirstKeys'
  BY <1>1, <1>2, <1>4 DEF SessionsAreBehind, KeysHaveOwners, FirstKeys, NoSession, Open
<1>8. PasswordOnlyToTarget' /\ RefusedOnlyIfChanged' /\ OnceIsEnough'
  BY <1>1, <1>2 DEF PasswordOnlyToTarget, RefusedOnlyIfChanged, OnceIsEnough, NoSession,
     Destination
<1> QED
  BY <1>1, <1>6, <1>7, <1>8

(* The rest of the world.                                                  *)
LEMMA ChangeKeyInv ==
  ASSUME IInv, NEW a \in Addresses, ChangeKey(a)
  PROVE  IInv'
<1> USE DEF IInv, AttemptInOrder, ChangeKey, runVars, attemptVars
<1>1. target' = target /\ Addresses' = Addresses /\ Keys' = Keys /\ Files' = Files
  BY DEF Addresses, Keys, Files
<1>2. changes' = changes + 1 /\ changes' \in 0 .. MaxChanges /\ changes \in Nat
  BY ChainAssumption DEF ChainTypeOK, ChainAssumption
<1>3. PICK n \in 0 .. changes : server[a].key = <<a, n>>
  BY DEF KeysHaveOwners
<1>4. n + 1 \in 0 .. changes' /\ <<a, n + 1>> \in Keys
  BY <1>2, <1>3, ChainAssumption DEF Keys, ChainAssumption
<1>5. /\ server' \in [Addresses -> [key : Keys, accepts : Accepts]]
      /\ server'[a].key = <<a, n + 1>>
      /\ \A b \in Addresses \ {a} : server'[b] = server[b]
  <2>1. server \in [Addresses -> [key : Keys, accepts : Accepts]]
    BY DEF ChainTypeOK
  <2>2. server[a].key[2] = n
    BY <1>3
  <2>3. server' = [server EXCEPT ![a].key = <<a, n + 1>>]
    BY <2>2
  <2> HIDE DEF ChangeKey
  <2> QED
    BY <1>4, <2>1, <2>3
<1>7. ChainTypeOK'
  BY <1>1, <1>2, <1>5 DEF ChainTypeOK
<1>8. KeysHaveOwners'
  <2>1. ASSUME NEW b \in Addresses PROVE \E m \in 0 .. changes' : server'[b].key = <<b, m>>
    <3>1. CASE b = a
      BY <1>4, <1>5, <3>1
    <3>2. CASE b # a
      <4>1. PICK m \in 0 .. changes : server[b].key = <<b, m>>
        BY DEF KeysHaveOwners
      <4>2. m \in 0 .. changes' /\ server'[b] = server[b]
        BY <1>2, <1>5, <3>2
      <4> QED
        BY <4>1, <4>2
    <3> QED
      BY <3>1, <3>2
  <2> QED
    BY <1>1, <2>1 DEF KeysHaveOwners
<1>9. SessionsAreBehind' /\ FirstKeys'
  BY <1>2 DEF SessionsAreBehind, FirstKeys, Open
<1>10. PasswordOnlyToTarget' /\ RefusedOnlyIfChanged' /\ OnceIsEnough'
  BY <1>1, <1>2 DEF PasswordOnlyToTarget, RefusedOnlyIfChanged, OnceIsEnough, Destination,
     Here
<1> QED
  BY <1>7, <1>8, <1>9, <1>10

LEMMA OtherLearnsInv ==
  ASSUME IInv, NEW a \in Addresses, OtherLearns(a)
  PROVE  IInv'
<1> USE DEF IInv, AttemptInOrder, OtherLearns, runVars, attemptVars
<1>1. target' = target /\ Addresses' = Addresses /\ Keys' = Keys /\ Files' = Files
  BY DEF Addresses, Keys, Files
<1>2. /\ known' \in [Addresses -> SUBSET Keys]
      /\ known'[a] = {server[a].key}
      /\ \A b \in Addresses \ {a} : known'[b] = known[b]
      /\ \A b \in Addresses : known[b] \subseteq known'[b]
  BY DEF ChainTypeOK
<1>3. ChainTypeOK'
  BY <1>1, <1>2 DEF ChainTypeOK
<1>4. KeysHaveOwners'
  BY <1>1, <1>2 DEF KeysHaveOwners, ChainTypeOK
<1>5. FirstKeys'
  <2>1. changes = 0 => server[a].key = <<a, 0>>
    BY DEF KeysHaveOwners
  <2> QED
    BY <1>1, <1>2, <2>1 DEF FirstKeys
<1>6. SessionsAreBehind'
  BY DEF SessionsAreBehind, Open
<1>7. PasswordOnlyToTarget' /\ RefusedOnlyIfChanged' /\ OnceIsEnough'
  BY <1>1, <1>2, Paths DEF PasswordOnlyToTarget, RefusedOnlyIfChanged, OnceIsEnough,
     Destination, Here
<1> QED
  BY <1>3, <1>4, <1>5, <1>6, <1>7
--------------------------------------------------------------------------------
(***************************************************************************)
(* The theorems.                                                           *)
(***************************************************************************)
LEMMA StepInv == IInv /\ [ChainNext]_vars => IInv'
<1> SUFFICES ASSUME IInv, [ChainNext]_vars PROVE IInv'
  OBVIOUS
<1>1. CASE Attempt
  BY <1>1, BeginInv, ConnectInv, FailingInv, KeyInv, RefusedInv, CredentialInv, OverInv
  DEF Attempt
<1>2. CASE ChainEnvironment
  <2>1. faults \in 0 .. MaxFaults /\ (Fault => faults' \in 0 .. MaxFaults)
    BY ChainAssumption DEF IInv, ChainTypeOK, Fault, ChainAssumption
  <2>2. ASSUME NEW i \in DOMAIN target, Lose(i) \/ CarrierGone(i) PROVE IInv'
    BY <2>1, <2>2, ShutInv DEF Lose, CarrierGone
  <2>3. ASSUME NEW a \in Addresses, ChangeKey(a) \/ OtherLearns(a) PROVE IInv'
    BY <2>3, ChangeKeyInv, OtherLearnsInv
  <2> QED
    BY <1>2, <2>2, <2>3, OverInv DEF ChainEnvironment
<1>3. CASE UNCHANGED vars
  <2>1. Addresses' = Addresses /\ Keys' = Keys /\ Files' = Files
    BY <1>3 DEF vars, Addresses, Keys, Files
  <2>2. ChainTypeOK'
    BY <1>3, <2>1 DEF vars, IInv, ChainTypeOK
  <2>3. AttemptInOrder' /\ SessionsAreBehind' /\ KeysHaveOwners' /\ FirstKeys'
    BY <1>3, <2>1 DEF vars, IInv, AttemptInOrder, SessionsAreBehind, KeysHaveOwners,
       FirstKeys, Open
  <2>4. PasswordOnlyToTarget' /\ RefusedOnlyIfChanged' /\ OnceIsEnough'
    BY <1>3 DEF vars, IInv, PasswordOnlyToTarget, RefusedOnlyIfChanged, OnceIsEnough,
       Destination, Here
  <2> QED
    BY <1>3, <2>2, <2>3, <2>4 DEF IInv, vars
<1> QED
  BY <1>1, <1>2, <1>3 DEF ChainNext

LEMMA Invariant == Spec => []IInv
BY InitInv, StepInv, PTL DEF Spec

(* Every variable of the chain stays in its type.                          *)
THEOREM ChainTypeCorrect == Spec => []ChainTypeOK
<1>1. IInv => ChainTypeOK
  BY DEF IInv
<1> QED
  BY <1>1, Invariant, PTL

(* No password reaches a jump host, and no host is spoken to beyond its    *)
(* key that known_hosts does not vouch for, on any path and however the    *)
(* chain fails, is rebuilt or is started again.                            *)
THEOREM PasswordIsForTheTarget == Spec => []PasswordOnlyToTarget
<1>1. IInv => PasswordOnlyToTarget
  BY DEF IInv
<1> QED
  BY <1>1, Invariant, PTL

(* Whatever other programs write to known_hosts between the check and the  *)
(* record, a host with its first key is never refused for a changed one.   *)
THEOREM OnlyChangedKeysAreRefused == Spec => []RefusedOnlyIfChanged
<1>1. IInv => RefusedOnlyIfChanged
  BY DEF IInv
<1> QED
  BY <1>1, Invariant, PTL

(* A host that was accepted once is never unknown again, not even to a     *)
(* strict run that is started later.                                       *)
THEOREM AcceptedOnceIsKnown == Spec => []OnceIsEnough
<1>1. IInv => OnceIsEnough
  BY DEF IInv
<1> QED
  BY <1>1, Invariant, PTL
--------------------------------------------------------------------------------
(***************************************************************************)
(* Why sessions end.                                                       *)
(***************************************************************************)
(* A session is there only together with the one it runs in.               *)
CarriedInv ==
  \A i \in DOMAIN target : i > 1 /\ sess[i].st # "none" => sess[i - 1].st # "none"

LEMMA Before ==
  ASSUME target \in Targets, NEW i \in DOMAIN target
  PROVE  i \in Nat /\ (i > 1 => i - 1 \in DOMAIN target)
<1>1. DOMAIN target = 1 .. Destination /\ Destination \in Nat
  BY Paths
<1> QED
  BY <1>1

(* Steps that connect nothing and end no session, and those that drop all. *)
LEMMA OtherStepsInv ==
  ASSUME IInv, CarriedInv, EndsForAReason, target' = target,
         faults \in Nat, faults' = faults \/ faults' = faults + 1,
         sess' = sess \/ sess' = Nothing
  PROVE  CarriedInv' /\ EndsForAReason'
<1>1. faults' = 0 => faults = 0
  OBVIOUS
<1>2. CASE sess' = sess
  BY <1>1, <1>2 DEF CarriedInv, EndsForAReason
<1>3. CASE sess' = Nothing
  <2>1. \A i \in DOMAIN target : sess'[i].st = "none"
    BY <1>3 DEF Nothing, NoSession
  <2> QED
    BY <2>1 DEF CarriedInv, EndsForAReason
<1> QED
  BY <1>2, <1>3

LEMMA ConnectEnds ==
  ASSUME IInv, CarriedInv, EndsForAReason, Connect
  PROVE  CarriedInv' /\ EndsForAReason'
<1>1. /\ hop \in DOMAIN target /\ target' = target /\ faults' = faults
      /\ \A i \in DOMAIN target : i \in Nat /\ (i > hop => sess[i].st = "none")
      /\ \A i \in DOMAIN target : i > 1 => i - 1 \in DOMAIN target
  <2>1. target' = target /\ faults' = faults
    BY DEF Connect, runVars, worldVars
  <2>2. hop \in DOMAIN target /\ \A i \in DOMAIN target : i > hop => sess[i].st = "none"
    BY DEF IInv, ChainTypeOK, SessionsAreBehind
  <2> QED
    BY <2>1, <2>2, Before DEF IInv
<1>2. /\ sess'[hop].st = "open"
      /\ \A i \in DOMAIN target \ {hop} : sess'[i] = sess[i]
  BY <1>1 DEF IInv, ChainTypeOK, Connect
<1>3. hop > 1 => sess[hop - 1].st = "open"
  BY DEF Connect, Open
<1>4. CarriedInv'
  BY <1>1, <1>2, <1>3 DEF CarriedInv
<1>5. EndsForAReason'
  <2> SUFFICES ASSUME faults = 0, NEW i \in DOMAIN target, sess'[i].st = "shut"
               PROVE  \E j \in 1 .. i : sess'[j].refused = MaxTries
    BY <1>1 DEF EndsForAReason
  <2>1. i < hop /\ sess[i].st = "shut"
    BY <1>1, <1>2
  <2>2. PICK j \in 1 .. i : sess[j].refused = MaxTries
    BY <2>1 DEF EndsForAReason
  <2>3. j \in DOMAIN target \ {hop}
    BY <2>1, <1>1, Paths DEF IInv
  <2> QED
    BY <2>2, <2>3, <1>2
<1> QED
  BY <1>4, <1>5

LEMMA RefusedEnds ==
  ASSUME IInv, CarriedInv, EndsForAReason, FileRefused
  PROVE  CarriedInv' /\ EndsForAReason'
<1>1. /\ hop \in DOMAIN target /\ target' = target /\ faults' = faults
      /\ \A i \in DOMAIN target : i \in Nat
      /\ \A i \in DOMAIN target : i > 1 => i - 1 \in DOMAIN target
      /\ sess[hop].st = "open" /\ sess[hop].refused < MaxTries
  <2>1. target' = target /\ faults' = faults /\ sess[hop].st = "open"
    BY DEF FileRefused, runVars, worldVars, Open
  <2>2. hop \in DOMAIN target /\ (sess[hop].st = "open" => sess[hop].refused < MaxTries)
    BY DEF IInv, ChainTypeOK, SessionsAreBehind, Open
  <2> QED
    BY <2>1, <2>2, Before DEF IInv
<1>2. /\ sess'[hop].st = IF sess[hop].refused + 1 = MaxTries THEN "shut" ELSE "open"
      /\ sess'[hop].refused = sess[hop].refused + 1
      /\ \A i \in DOMAIN target \ {hop} : sess'[i] = sess[i]
  BY <1>1 DEF IInv, ChainTypeOK, FileRefused, Refuse
<1>3. CarriedInv'
  BY <1>1, <1>2 DEF CarriedInv
<1>4. EndsForAReason'
  <2> SUFFICES ASSUME faults = 0, NEW i \in DOMAIN target, sess'[i].st = "shut"
               PROVE  \E j \in 1 .. i : sess'[j].refused = MaxTries
    BY <1>1 DEF EndsForAReason
  <2>1. CASE i = hop
    BY <2>1, <1>1, <1>2, Paths DEF IInv
  <2>2. CASE i # hop
    <3>1. PICK j \in 1 .. i : sess[j].refused = MaxTries
      BY <2>2, <1>2 DEF EndsForAReason
    <3>2. j \in DOMAIN target /\ j # hop
      BY <3>1, <1>1, Paths, ChainAssumption DEF IInv, ChainAssumption
    <3> QED
      BY <3>1, <3>2, <1>2
  <2> QED
    BY <2>1, <2>2
<1> QED
  BY <1>3, <1>4

LEMMA ShutEnds ==
  ASSUME IInv, CarriedInv, EndsForAReason, NEW i \in DOMAIN target,
         Lose(i) \/ CarrierGone(i)
  PROVE  CarriedInv' /\ EndsForAReason'
<1>1. /\ target' = target /\ faults \in Nat
      /\ \A k \in DOMAIN target : k \in Nat
      /\ \A k \in DOMAIN target : k > 1 => k - 1 \in DOMAIN target
      /\ sess[i].st = "open"
  <2>1. target' = target /\ sess[i].st = "open"
    BY DEF Lose, CarrierGone, Shut, runVars, Open
  <2>2. faults \in Nat
    BY ChainAssumption DEF IInv, ChainTypeOK, ChainAssumption
  <2> QED
    BY <2>1, <2>2, Before DEF IInv
<1>2. /\ sess'[i].st = "shut" /\ sess'[i].refused = sess[i].refused
      /\ \A k \in DOMAIN target \ {i} : sess'[k] = sess[k]
  BY DEF IInv, ChainTypeOK, Lose, CarrierGone, Shut
<1>3. CarriedInv'
  BY <1>1, <1>2 DEF CarriedInv
<1>4. EndsForAReason'
  <2> SUFFICES ASSUME faults' = 0, NEW k \in DOMAIN target, sess'[k].st = "shut"
               PROVE  \E j \in 1 .. k : sess'[j].refused = MaxTries
    BY <1>1 DEF EndsForAReason
  <2>1. CarrierGone(i) /\ faults = 0
    BY <1>1 DEF Lose, Fault, CarrierGone
  <2>2. \A j \in DOMAIN target : sess'[j].refused = sess[j].refused
    BY <1>2
  <2>3. PICK m \in DOMAIN target : m <= k /\ sess[m].st = "shut"
    <3>1. CASE k = i
      <4>1. i > 1 /\ sess[i - 1].st # "open" /\ sess[i - 1].st # "none"
        BY <2>1, <1>1 DEF CarrierGone, Open, CarriedInv
      <4>2. i - 1 \in DOMAIN target /\ sess[i - 1].st = "shut" /\ i - 1 <= k
        BY <3>1, <4>1, <1>1 DEF IInv, ChainTypeOK
      <4> QED
        BY <4>2
    <3>2. CASE k # i
      BY <3>2, <1>1, <1>2
    <3> QED
      BY <3>1, <3>2
  <2>4. PICK j \in 1 .. m : sess[j].refused = MaxTries
    BY <2>1, <2>3 DEF EndsForAReason
  <2>5. j \in DOMAIN target /\ j \in 1 .. k
    BY <2>3, <2>4, <1>1, Paths DEF IInv
  <2> QED
    BY <2>2, <2>4, <2>5
<1> QED
  BY <1>3, <1>4

LEMMA EndsStep ==
  IInv /\ CarriedInv /\ EndsForAReason /\ [ChainNext]_vars
    => CarriedInv' /\ EndsForAReason'
<1> SUFFICES ASSUME IInv, CarriedInv, EndsForAReason, [ChainNext]_vars
             PROVE  CarriedInv' /\ EndsForAReason'
  OBVIOUS
<1>1. faults \in Nat
  BY ChainAssumption DEF IInv, ChainTypeOK, ChainAssumption
<1>2. CASE Connect
  BY <1>2, ConnectEnds
<1>3. CASE FileRefused
  BY <1>3, RefusedEnds
<1>4. ASSUME NEW i \in DOMAIN target, Lose(i) \/ CarrierGone(i)
      PROVE  CarriedInv' /\ EndsForAReason'
  BY <1>4, ShutEnds
<1>5. CASE Begin \/ KeyKnown \/ KeyUnknown \/ Learn \/ SkipFile \/ SessionOver
  BY <1>1, <1>5, OtherStepsInv
  DEF Begin, KeyKnown, KeyUnknown, Learn, SkipFile, SessionOver, Trust, runVars, worldVars
<1>6. CASE ConnectFails \/ KeyRefused \/ LearnFails \/ NothingLeft
  BY <1>1, <1>6, OtherStepsInv
  DEF ConnectFails, KeyRefused, LearnFails, NothingLeft, Fail, FailAnyway, Fault, runVars
<1>7. CASE FileAccepted \/ Password
  BY <1>1, <1>7, OtherStepsInv
  DEF FileAccepted, Password, Authenticated, Fail, FailAnyway, runVars, worldVars
<1>8. CASE Restart \/ UNCHANGED vars
  BY <1>1, <1>8, OtherStepsInv DEF Restart, vars
<1>9. ASSUME NEW a \in Addresses, ChangeKey(a) \/ OtherLearns(a)
      PROVE  CarriedInv' /\ EndsForAReason'
  BY <1>1, <1>9, OtherStepsInv DEF ChangeKey, OtherLearns, runVars, attemptVars
<1> QED
  BY <1>2, <1>3, <1>4, <1>5, <1>6, <1>7, <1>8, <1>9
  DEF ChainNext, Attempt, ChainEnvironment

(* While nothing goes wrong outside, no session the program relies on ends *)
(* but by a server that has had enough of refused credentials.             *)
THEOREM SessionsEndForAReason == Spec => []EndsForAReason
<1>1. Init => CarriedInv /\ EndsForAReason
  BY DEF Init, ChainInit, CarriedInv, EndsForAReason, Nothing, NoSession
<1> QED
  BY <1>1, EndsStep, Invariant, PTL DEF Spec
--------------------------------------------------------------------------------
(***************************************************************************)
(* Which credentials have been offered, while nothing goes wrong outside.  *)
(***************************************************************************)
Good(n) == Files[n] \in server[Here].accepts \ BadFiles
NoneGoodBefore(n) == \A m \in DOMAIN Files : m < n => ~Good(m)
Refusals(n) == Cardinality(RefusedBefore(target[hop], n))

(* The session counts the refused files, and when it has counted too many  *)
(* the good ones, if any, come after those.                                *)
TriedInv ==
  /\ at \in {"check", "learn"} => sess[hop].refused = 0
  /\ \A i \in DOMAIN target : i < hop => sess[i].refused < MaxTries
  /\ at = "auth" /\ Open(hop) => sess[hop].refused = Refusals(file) /\ NoneGoodBefore(file)
  /\ at = "auth" /\ ~Open(hop) =>
       \E n \in 1 .. file : Refusals(n) >= MaxTries /\ NoneGoodBefore(n)

CredentialsInv == faults = 0 => TriedInv /\ OneGoodIsEnough

LEMMA FileNumbers ==
  ASSUME IInv
  PROVE  /\ hop \in DOMAIN target /\ Here \in Addresses
         /\ Len(Files) \in Nat /\ DOMAIN Files = 1 .. Len(Files)
         /\ MaxTries \in Nat \ {0}
  BY Paths, ChainAssumption DEF IInv, ChainTypeOK, ChainAssumption, Files, Here

(* The files refused before the n-th: one more or none with each file.     *)
LEMMA RefusalsCount ==
  ASSUME IInv, NEW n \in Nat \ {0}
  PROVE  /\ Refusals(n) \in Nat
         /\ Refusals(1) = 0
         /\ Refusals(n + 1) = IF Files[n] \in BadFiles \cup server[Here].accepts
                              THEN Refusals(n) ELSE Refusals(n) + 1
         /\ \A m \in Nat : m >= n => Refusals(m) \in Nat /\ Refusals(m) >= Refusals(n)
<1> DEFINE R(m) == RefusedBefore(target[hop], m)
<1>1. \A m \in Nat : IsFiniteSet(R(m)) /\ Refusals(m) \in Nat
  <2> SUFFICES ASSUME NEW m \in Nat PROVE IsFiniteSet(R(m)) /\ Refusals(m) \in Nat
    OBVIOUS
  <2>1. IsFiniteSet(1 .. (m - 1))
    BY FS_Interval
  <2>2. R(m) \subseteq 1 .. (m - 1)
    BY DEF RefusedBefore
  <2> QED
    BY <2>1, <2>2, FS_Subset, FS_CardinalityType DEF Refusals
<1>2. Refusals(1) = 0
  <2>1. R(1) = {}
    BY DEF RefusedBefore
  <2> QED
    BY <2>1, FS_EmptySet DEF Refusals
<1>3. R(n + 1) = IF Files[n] \in BadFiles \cup server[Here].accepts
                 THEN R(n) ELSE R(n) \cup {n}
  <2>1. 1 .. ((n + 1) - 1) = (1 .. (n - 1)) \cup {n}
    OBVIOUS
  <2> QED
    BY <2>1 DEF RefusedBefore, Files, Here
<1>4. n \notin R(n)
  BY DEF RefusedBefore
<1>5. Refusals(n + 1) = IF Files[n] \in BadFiles \cup server[Here].accepts
                        THEN Refusals(n) ELSE Refusals(n) + 1
  BY <1>1, <1>3, <1>4, FS_AddElement DEF Refusals
<1>6. \A m \in Nat : m >= n => Refusals(m) >= Refusals(n)
  <2> SUFFICES ASSUME NEW m \in Nat, m >= n PROVE Refusals(m) >= Refusals(n)
    OBVIOUS
  <2>1. R(n) \subseteq R(m)
    BY DEF RefusedBefore
  <2> QED
    BY <2>1, <1>1, FS_Subset DEF Refusals
<1> QED
  BY <1>1, <1>2, <1>5, <1>6

(* As long as the host and what its server accepts stay, so do these.      *)
LEMMA SameHost ==
  ASSUME IInv, target' = target, hop' = hop,
         \A a \in Addresses : server'[a].accepts = server[a].accepts
  PROVE  /\ Refusals(file)' = Refusals(file')
         /\ NoneGoodBefore(file)' <=> NoneGoodBefore(file')
         /\ \A n \in Nat : Refusals(n)' = Refusals(n)
                           /\ (NoneGoodBefore(n)' <=> NoneGoodBefore(n))
         /\ args' = args => (CanAuthenticate(hop)' <=> CanAuthenticate(hop))
<1>1. /\ Here \in Addresses /\ Here' = Here /\ Files' = Files
      /\ server'[Here].accepts = server[Here].accepts
      /\ target'[hop'] = target[hop] /\ Destination' = Destination
  BY FileNumbers DEF Here, Files, Destination
<1>2. Refusals(file)' = Refusals(file') /\ \A n \in Nat : Refusals(n)' = Refusals(n)
  BY <1>1 DEF Refusals, RefusedBefore, Here
<1>3. /\ NoneGoodBefore(file)' <=> NoneGoodBefore(file')
      /\ \A n \in Nat : NoneGoodBefore(n)' <=> NoneGoodBefore(n)
  BY <1>1 DEF NoneGoodBefore, Good
<1>4. args' = args => (CanAuthenticate(hop)' <=> CanAuthenticate(hop))
  BY <1>1 DEF CanAuthenticate, RefusedBefore, Here
<1> QED
  BY <1>2, <1>3, <1>4

(* Nothing can be authenticated with when all of it has been tried, or the *)
(* server has hung up before the first good one.                           *)
LEMMA NothingGood ==
  ASSUME IInv, TriedInv, FilesTried,
         ~(MayOfferPassword /\ Open(hop) /\ "password" \in server[Here].accepts)
  PROVE  ~CanAuthenticate(hop)
<1> USE FileNumbers
<1> DEFINE reached(n) == Cardinality(RefusedBefore(target[hop], n)) < MaxTries
<1>1. CanAuthenticate(hop) <=>
        \/ \E n \in DOMAIN Files : Good(n) /\ Refusals(n) < MaxTries
        \/ /\ hop = Destination /\ args.password /\ "password" \in server[Here].accepts
           /\ Refusals(Len(Files) + 1) < MaxTries
  BY DEF CanAuthenticate, Good, Refusals, Files, Here
<1>2. CASE Open(hop)
  <2>1. \A n \in DOMAIN Files : ~Good(n)
    BY <1>2 DEF TriedInv, NoneGoodBefore, FilesTried, IInv, ChainTypeOK
  <2> QED
    BY <1>1, <1>2, <2>1 DEF MayOfferPassword
<1>3. CASE ~Open(hop)
  <2>1. PICK n \in 1 .. file : Refusals(n) >= MaxTries /\ NoneGoodBefore(n)
    BY <1>3 DEF TriedInv, FilesTried
  <2>2. n \in Nat \ {0} /\ n <= Len(Files) + 1
    BY DEF IInv, ChainTypeOK
  <2>3. \A m \in Nat : m >= n => ~(Refusals(m) < MaxTries)
    BY <2>1, <2>2, RefusalsCount
  <2>4. \A m \in DOMAIN Files : Good(m) => m >= n
    BY <2>1 DEF NoneGoodBefore
  <2> QED
    BY <1>1, <2>2, <2>3, <2>4
<1> QED
  BY <1>2, <1>3

LEMMA CredentialsStep ==
  ASSUME IInv, IInv', CarriedInv, EndsForAReason, CredentialsInv, [ChainNext]_vars
  PROVE  CredentialsInv'
<1> SUFFICES ASSUME faults' = 0 PROVE TriedInv' /\ OneGoodIsEnough'
  BY DEF CredentialsInv
<1> USE FileNumbers
<1>1. faults = 0 /\ TriedInv /\ OneGoodIsEnough /\ target' = target
  <2>1. faults \in Nat
    BY ChainAssumption DEF IInv, ChainTypeOK, ChainAssumption
  <2> SUFFICES faults' \in {faults, faults + 1} /\ target' = target
    BY <2>1 DEF CredentialsInv
  <2>2. CASE Begin \/ Connect \/ KeyKnown \/ KeyUnknown \/ Learn \/ SkipFile \/ FileRefused
    BY <2>2 DEF Begin, Connect, KeyKnown, KeyUnknown, Learn, SkipFile, FileRefused, Trust,
                runVars, worldVars
  <2>3. CASE ConnectFails \/ KeyRefused \/ LearnFails \/ NothingLeft
    BY <2>3 DEF ConnectFails, KeyRefused, LearnFails, NothingLeft, Fail, FailAnyway, Fault,
                runVars
  <2>4. CASE FileAccepted \/ Password \/ SessionOver
    BY <2>4 DEF FileAccepted, Password, SessionOver, Authenticated, Fail, FailAnyway,
                runVars, worldVars
  <2>5. CASE ChainEnvironment \/ UNCHANGED vars
    BY <2>5 DEF ChainEnvironment, Lose, CarrierGone, Shut, Fault, ChangeKey, OtherLearns,
                Restart, runVars, attemptVars, vars
  <2> QED
    BY <2>2, <2>3, <2>4, <2>5 DEF ChainNext, Attempt
<1>a. /\ \A i \in DOMAIN target : i \in Nat
      /\ sess[hop].st \in {"none", "open", "shut"} /\ file \in 1 .. (Len(Files) + 1)
      /\ DOMAIN sess = DOMAIN target
      /\ Open(hop) => sess[hop].refused < MaxTries
      /\ \A i \in DOMAIN target : sess[i].refused \in 0 .. MaxTries
  <2>1. \A i \in DOMAIN target : i \in Nat
    BY Paths DEF IInv
  <2>2. /\ sess[hop].st \in {"none", "open", "shut"} /\ file \in 1 .. (Len(Files) + 1)
        /\ DOMAIN sess = DOMAIN target
        /\ \A i \in DOMAIN target : sess[i].refused \in 0 .. MaxTries
    BY DEF IInv, ChainTypeOK
  <2>3. Open(hop) => sess[hop].refused < MaxTries
    BY DEF IInv, SessionsAreBehind
  <2> QED
    BY <2>1, <2>2, <2>3
<1>b. ASSUME at' = "idle", error' # "auth", sess' = Nothing \/ sess' = sess,
             hop' \in {hop, 1}
      PROVE  TriedInv' /\ OneGoodIsEnough'
  <2>1. ASSUME NEW i \in DOMAIN target, i < hop' PROVE sess'[i].refused < MaxTries
    <3>1. CASE sess' = Nothing
      BY <2>1, <3>1 DEF Nothing, NoSession
    <3>2. CASE sess' = sess
      <4>1. i \in Nat /\ i >= 1 /\ i < hop
        BY <1>b, <2>1, Paths DEF IInv
      <4> QED
        BY <1>1, <2>1, <3>2, <4>1 DEF TriedInv
    <3> QED
      BY <1>b, <3>1, <3>2
  <2> QED
    BY <1>1, <1>b, <2>1 DEF TriedInv, OneGoodIsEnough
<1>2. CASE Begin
  <2>1. hop' = 1 /\ at' = "connect" /\ sess' = sess
    BY <1>2 DEF Begin, worldVars
  <2>2. \A i \in DOMAIN target : ~(i < hop')
    BY <2>1, Paths DEF IInv
  <2> QED
    BY <1>1, <2>1, <2>2 DEF TriedInv, OneGoodIsEnough
<1>3. CASE Connect
  <2>1. sess'[hop].refused = 0 /\ \A i \in DOMAIN target \ {hop} : sess'[i] = sess[i]
    BY <1>3, <1>a DEF Connect
  <2> QED
    BY <1>1, <1>3, <1>a, <2>1 DEF Connect, TriedInv, OneGoodIsEnough
<1>4. CASE KeyUnknown
  BY <1>1, <1>4 DEF KeyUnknown, TriedInv, OneGoodIsEnough
<1>5. CASE KeyKnown \/ Learn
  <2>1. /\ hop' = hop /\ server' = server /\ sess' = sess /\ Open(hop)
        /\ at' = "auth" /\ file' = 1
    BY <1>5 DEF KeyKnown, Learn, Trust
  <2>2. Refusals(file)' = 0 /\ NoneGoodBefore(file)'
    BY <1>1, <2>1, SameHost, RefusalsCount DEF NoneGoodBefore
  <2>3. sess'[hop'].refused = 0
    BY <1>1, <1>5, <2>1 DEF TriedInv, KeyKnown, Learn
  <2> QED
    BY <1>1, <2>1, <2>2, <2>3 DEF TriedInv, OneGoodIsEnough, Open
<1>6. CASE SkipFile
  <2>1. /\ hop' = hop /\ server' = server /\ sess' = sess /\ at = "auth" /\ at' = "auth"
        /\ file' = file + 1 /\ file \in DOMAIN Files
    BY <1>6, <1>a DEF SkipFile, AtFile, NextFile, worldVars
  <2>2. CASE Open(hop)
    <3>1. Files[file] \in BadFiles
      BY <1>6, <2>2 DEF SkipFile
    <3>2. Refusals(file + 1) = Refusals(file) /\ NoneGoodBefore(file + 1)
      <4>1. PICK n \in Nat \ {0} : n = file
        BY <1>a
      <4>2. Refusals(n + 1) = Refusals(n)
        BY <3>1, <4>1, RefusalsCount
      <4>3. NoneGoodBefore(n) /\ ~Good(n)
        BY <1>1, <2>1, <2>2, <3>1, <4>1 DEF TriedInv, Good
      <4> QED
        BY <4>1, <4>2, <4>3 DEF NoneGoodBefore
    <3>3. Refusals(file)' = Refusals(file) /\ NoneGoodBefore(file)'
      BY <1>1, <2>1, <3>2, SameHost
    <3> QED
      BY <1>1, <2>1, <2>2, <3>3 DEF TriedInv, OneGoodIsEnough, Open
  <2>3. CASE ~Open(hop)
    <3>1. PICK n \in 1 .. file : Refusals(n) >= MaxTries /\ NoneGoodBefore(n)
      BY <1>1, <2>1, <2>3 DEF TriedInv
    <3>2. n \in 1 .. file' /\ Refusals(n)' >= MaxTries /\ NoneGoodBefore(n)'
      BY <1>1, <1>a, <2>1, <3>1, SameHost
    <3> QED
      BY <1>1, <2>1, <2>3, <3>2 DEF TriedInv, OneGoodIsEnough, Open
  <2> QED
    BY <2>2, <2>3
<1>7. CASE FileRefused
  <2>1. /\ hop' = hop /\ server' = server /\ at = "auth" /\ at' = "auth" /\ Open(hop)
        /\ file' = file + 1 /\ file \in DOMAIN Files
        /\ Files[file] \notin BadFiles \cup server[Here].accepts
    BY <1>7, <1>a DEF FileRefused, AtFile, NextFile, worldVars
  <2>2. /\ sess'[hop].st = IF sess[hop].refused + 1 = MaxTries THEN "shut" ELSE "open"
        /\ sess'[hop].refused = sess[hop].refused + 1
        /\ \A i \in DOMAIN target \ {hop} : sess'[i] = sess[i]
    BY <1>7, <1>a, <2>1 DEF FileRefused, Refuse, Open, IInv, ChainTypeOK
  <2>3. Refusals(file + 1) = Refusals(file) + 1 /\ NoneGoodBefore(file + 1)
    <3>1. PICK n \in Nat \ {0} : n = file
      BY <1>a
    <3>2. Refusals(n + 1) = Refusals(n) + 1
      BY <2>1, <3>1, RefusalsCount
    <3>3. NoneGoodBefore(n) /\ ~Good(n)
      BY <1>1, <2>1, <3>1 DEF TriedInv, Good
    <3> QED
      BY <3>1, <3>2, <3>3 DEF NoneGoodBefore
  <2>4. Refusals(file)' = sess[hop].refused + 1 /\ NoneGoodBefore(file)'
    BY <1>1, <2>1, <2>3, SameHost DEF TriedInv
  <2>5. CASE sess[hop].refused + 1 = MaxTries
    <3>1. file' \in 1 .. file' /\ file' \in Nat
      BY <1>a, <2>1
    <3>2. \E n \in 1 .. file' : Refusals(n)' >= MaxTries /\ NoneGoodBefore(n)'
      <4>1. Refusals(file') >= MaxTries /\ NoneGoodBefore(file')
        BY <1>1, <1>a, <2>1, <2>3, <2>5 DEF TriedInv
      <4>2. PICK n \in Nat : n = file + 1
        BY <1>a
      <4> QED
        BY <1>1, <2>1, <3>1, <4>1, <4>2, SameHost
    <3> QED
      BY <1>1, <1>a, <2>1, <2>2, <2>5, <3>2 DEF TriedInv, OneGoodIsEnough, Open
  <2>6. CASE sess[hop].refused + 1 # MaxTries
    BY <1>1, <1>a, <2>1, <2>2, <2>4, <2>6 DEF TriedInv, OneGoodIsEnough, Open
  <2> QED
    BY <2>5, <2>6
<1>8. ASSUME at = "auth", Open(hop), Authenticated PROVE TriedInv' /\ OneGoodIsEnough'
  BY <1>1, <1>8, <1>a DEF Authenticated, TriedInv, OneGoodIsEnough
<1>9. ASSUME FilesTried, Fail("auth"),
             ~(MayOfferPassword /\ Open(hop) /\ "password" \in server[Here].accepts)
      PROVE  TriedInv' /\ OneGoodIsEnough'
  <2>1. ~CanAuthenticate(hop)
    BY <1>1, <1>9, NothingGood
  <2>2. hop' = hop /\ server' = server /\ args' = args /\ sess' = Nothing /\ at' = "idle"
    BY <1>9 DEF Fail, FailAnyway, runVars
  <2>3. ~CanAuthenticate(hop)'
    BY <1>1, <2>1, <2>2, SameHost
  <2>4. \A i \in DOMAIN target : sess'[i].refused < MaxTries
    BY <2>2 DEF Nothing, NoSession
  <2> QED
    BY <1>1, <2>2, <2>3, <2>4 DEF TriedInv, OneGoodIsEnough
<1>10. CASE FileAccepted
  BY <1>8, <1>10 DEF FileAccepted, AtFile, Offered
<1>11. CASE Password
  <2>1. FilesTried /\ at = "auth" /\ Open(hop)
    BY <1>11 DEF Password, FilesTried
  <2>2. CASE Authenticated
    BY <1>8, <2>1, <2>2
  <2>3. CASE ~Offered("password") /\ Fail("auth")
    BY <1>9, <2>1, <2>3 DEF Offered
  <2> QED
    BY <1>11, <2>2, <2>3 DEF Password
<1>12. CASE NothingLeft
  BY <1>9, <1>12 DEF NothingLeft
<1>13. CASE ConnectFails \/ KeyRefused \/ LearnFails \/ SessionOver \/ Restart
  <2>1. /\ at' = "idle" /\ sess' = Nothing /\ hop' \in {hop, 1} /\ error' # "auth"
    BY <1>13
    DEF IInv, AttemptInOrder, ConnectFails, KeyRefused, LearnFails, SessionOver, Restart,
        Fail, FailAnyway
  <2> QED
    BY <1>b, <2>1
<1>14. ASSUME NEW i \in DOMAIN target, Lose(i) \/ CarrierGone(i) PROVE FALSE
  <2>1. CarrierGone(i)
    BY <1>1, <1>14 DEF Lose, Fault
  <2>2. i > 1 /\ i - 1 \in DOMAIN target /\ i \in Nat /\ sess[i].st = "open"
    BY <2>1, Before DEF CarrierGone, Shut, Open, IInv
  <2>3. sess[i - 1].st = "shut"
    BY <2>1, <2>2 DEF CarriedInv, CarrierGone, Open, IInv, ChainTypeOK
  <2>4. PICK j \in 1 .. (i - 1) : sess[j].refused = MaxTries
    BY <1>1, <2>2, <2>3 DEF EndsForAReason
  <2>5. ~(i > hop)
    BY <2>2 DEF IInv, SessionsAreBehind
  <2>6. j \in DOMAIN target /\ j < hop
    BY <1>a, <2>2, <2>4, <2>5, Paths DEF IInv
  <2> QED
    BY <1>1, <2>4, <2>6 DEF TriedInv
<1>15. CASE (\E a \in Addresses : ChangeKey(a) \/ OtherLearns(a)) \/ UNCHANGED vars
  <2>1. /\ UNCHANGED <<hop, at, file, sess, error, args>>
        /\ \A a \in Addresses : server'[a].accepts = server[a].accepts
    <3>1. ASSUME NEW a \in Addresses, ChangeKey(a)
          PROVE  /\ UNCHANGED <<hop, at, file, sess, error, args>>
                 /\ \A b \in Addresses : server'[b].accepts = server[b].accepts
      <4>1. server \in [Addresses -> [key : Keys, accepts : Accepts]]
        BY DEF IInv, ChainTypeOK
      <4>2. \A b \in Addresses : server'[b].accepts = server[b].accepts
        BY <3>1, <4>1 DEF ChangeKey
      <4> QED
        BY <3>1, <4>2 DEF ChangeKey, attemptVars, runVars
    <3>2. ASSUME NEW a \in Addresses, OtherLearns(a)
          PROVE  UNCHANGED <<hop, at, file, sess, error, args, server>>
      BY <3>2 DEF OtherLearns, attemptVars, runVars
    <3>3. CASE UNCHANGED vars
      BY <3>3 DEF vars
    <3> QED
      BY <1>15, <3>1, <3>2, <3>3
  <2>2. file' = file /\ 1 .. file \subseteq Nat
    BY <1>a, <2>1
  <2>3. /\ Refusals(file)' = Refusals(file) /\ (NoneGoodBefore(file)' <=> NoneGoodBefore(file))
        /\ \A n \in 1 .. file : Refusals(n)' = Refusals(n)
                               /\ (NoneGoodBefore(n)' <=> NoneGoodBefore(n))
        /\ CanAuthenticate(hop)' <=> CanAuthenticate(hop)
    BY <1>1, <2>1, <2>2, SameHost
  <2> QED
    BY <1>1, <2>1, <2>3 DEF TriedInv, OneGoodIsEnough, Open
<1> QED
  BY <1>2, <1>3, <1>4, <1>5, <1>6, <1>7, <1>10, <1>11, <1>12, <1>13, <1>14, <1>15
  DEF ChainNext, Attempt, ChainEnvironment

(* All of it holds from the beginning, and every step keeps it.            *)
WholeInv == IInv /\ CarriedInv /\ EndsForAReason /\ CredentialsInv

LEMMA InitWhole == Init => WholeInv
<1> SUFFICES ASSUME Init PROVE CredentialsInv /\ CarriedInv /\ EndsForAReason
  BY InitInv DEF WholeInv
<1>1. CarriedInv /\ EndsForAReason
  BY DEF Init, ChainInit, CarriedInv, EndsForAReason, Nothing, NoSession
<1>2. \A i \in DOMAIN target : sess[i].refused = 0
  BY DEF Init, ChainInit, Nothing, NoSession
<1>3. TriedInv /\ OneGoodIsEnough
  BY <1>2, ChainAssumption DEF Init, ChainInit, TriedInv, OneGoodIsEnough, ChainAssumption
<1> QED
  BY <1>1, <1>3 DEF CredentialsInv

LEMMA StepWhole == WholeInv /\ [ChainNext]_vars => WholeInv'
BY StepInv, EndsStep, CredentialsStep DEF WholeInv

(* No file that is missing, broken or refused keeps a good credential from *)
(* its turn, on paths of any length and for any number of files.           *)
THEOREM GoodCredentialIsFound == Spec => []OneGoodIsEnough
<1>1. WholeInv => OneGoodIsEnough
  BY DEF WholeInv, CredentialsInv, OneGoodIsEnough
<1> QED
  BY <1>1, InitWhole, StepWhole, PTL DEF Spec
--------------------------------------------------------------------------------
(***************************************************************************)
(* Attempts come to an end.                                                *)
(***************************************************************************)
(* How far authentication has come with the host of the attempt.           *)
StepsDone ==
  CASE at = "connect" -> 0
    [] at = "check" -> 1
    [] at = "learn" -> 2
    [] at = "auth" -> 2 + file
    [] OTHER -> Len(Files) + 4

(* An attempt goes on to the next host, or a step further with this one.   *)
LeadsOn ==
  at # "idle" /\ at' # "idle" =>
    \/ UNCHANGED <<at, hop, file>>
    \/ hop' = hop + 1
    \/ hop' = hop /\ StepsDone' > StepsDone

LEMMA StepsLeadOn == IInv /\ [ChainNext]_vars => LeadsOn
<1> SUFFICES ASSUME IInv, [ChainNext]_vars, at # "idle", at' # "idle"
             PROVE  \/ UNCHANGED <<at, hop, file>>
                    \/ hop' = hop + 1
                    \/ hop' = hop /\ StepsDone' > StepsDone
  BY DEF LeadsOn
<1>1. file \in 1 .. (Len(Files) + 1) /\ Len(Files) \in Nat
  BY Paths DEF IInv, ChainTypeOK, Files
<1>2. hop' = hop => Files' = Files \/ target' # target
  BY DEF Files
<1>3. CASE Connect \/ KeyUnknown
  BY <1>3 DEF Connect, KeyUnknown, StepsDone
<1>4. CASE KeyKnown \/ Learn
  BY <1>4 DEF KeyKnown, Learn, Trust, StepsDone
<1>5. CASE SkipFile \/ FileRefused
  BY <1>1, <1>5 DEF SkipFile, FileRefused, AtFile, NextFile, StepsDone
<1>6. CASE FileAccepted \/ Password
  <2>1. Authenticated /\ at = "auth"
    BY <1>6 DEF FileAccepted, Password, AtFile, FilesTried, Fail, FailAnyway
  <2> QED
    BY <1>1, <1>2, <2>1 DEF Authenticated, StepsDone, runVars
<1>7. CASE ConnectFails \/ KeyRefused \/ LearnFails \/ NothingLeft \/ SessionOver \/ Begin
  BY <1>7
  DEF ConnectFails, KeyRefused, LearnFails, NothingLeft, SessionOver, Begin, Fail,
      FailAnyway
<1>8. CASE ChainEnvironment
  BY <1>8
  DEF ChainEnvironment, Lose, CarrierGone, Shut, ChangeKey, OtherLearns, Restart,
      attemptVars
<1>9. CASE UNCHANGED vars
  BY <1>9 DEF vars
<1> QED
  BY <1>3, <1>4, <1>5, <1>6, <1>7, <1>8, <1>9 DEF ChainNext, Attempt

(* An attempt never goes back, neither to a host it is done with nor to a  *)
(* file it has tried, whatever the servers and the network do meanwhile:   *)
(* it makes at most Len(files) + 4 steps at a host and is then with the    *)
(* next one, up, or over (ssh_session.rs:66-102, 210-298).                 *)
THEOREM AttemptsLeadOn ==
  Spec => /\ [](at # "idle" => StepsDone \in 0 .. Len(Files) + 4)
          /\ [][LeadsOn]_vars
<1>1. IInv => (at # "idle" => StepsDone \in 0 .. Len(Files) + 4)
  BY Paths DEF IInv, ChainTypeOK, StepsDone, Files
<1> QED
  BY <1>1, StepsLeadOn, Invariant, PTL DEF Spec
================================================================================
