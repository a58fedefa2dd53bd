--------------------------- MODULE RemoteForwardProofs ---------------------------
(***************************************************************************)
(* Proofs about RemoteForward.tla, for every number of rules, ports,       *)
(* sessions and connection tasks.                                          *)
(***************************************************************************)
EXTENDS RemoteForward, FiniteSetTheorems, TLAPS

(* Where the registration stands, and that the ports of a session go one   *)
(* by one when it is cleaned up.                                           *)
LoopInv ==
  /\ phase = "down" => open = {}
  /\ phase = "up" => idx = NumRules + 1
  /\ answer # "none" => idx \in Rules
  /\ answer = "granted" => phase = "setup"
  /\ cancelled => CleaningUp /\ undo <= LastUndo /\ actual[undo] # 0

CleanInv ==
  /\ phase = "down" => \A r \in Rules : actual[r] = 0
  /\ phase \in {"setup", "rollback"} => \A r \in Rules : r >= idx => actual[r] = 0
  /\ CleaningUp => \A r \in Rules : r < undo => actual[r] = 0

(* A port that is stored, or about to be, is the one the server has given  *)
(* the rule on this session, and a rule that is still to be requested has  *)
(* none.                                                                   *)
PortsInv ==
  /\ \A r \in Rules : actual[r] # 0 => portOf[r] = 0 /\ actual[r] = given[r]
  /\ answer = "granted" => boundPort = IF portOf[idx] = 0 THEN given[idx] ELSE 0
  /\ phase = "setup" =>
       \A r \in Rules : r > idx \/ (r = idx /\ answer # "granted") => given[r] = 0

(* What is known of a listener of the current session, as long as a        *)
(* connection it accepted is being handled.                                *)
Accepted == {l \in listeners \cup {conn[t] : t \in Tasks} : l.gen = gen}

Genuine(l) ==
  /\ l.host = hostOf[l.rule]
  /\ l.port = given[l.rule]
  /\ portOf[l.rule] # 0 => l.port = portOf[l.rule]

ListenersInv == \A l \in Accepted : Genuine(l)

(* While the session of an attempt works, the server listens for the rules *)
(* registered so far, and the ports it has chosen for them are stored.     *)
Alive == gen \in open /\ phase \in {"setup", "up"}
Mine(l) == l \in listeners /\ l.gen = gen

RegisteredInv ==
  Alive =>
    /\ \A r \in Rules : r < idx =>
         /\ \E l \in listeners : Mine(l) /\ l.rule = r
         /\ portOf[r] = 0 => actual[r] = given[r]
    /\ answer = "granted" => \E l \in listeners : Mine(l) /\ l.rule = idx

(* What a task has found of the rules it has looked at.                    *)
Search(t) ==
  /\ \A q \in found[t] : q = conn[t].rule \/ Rival(q, t)
  /\ \A r \in Rules :
       r = conn[t].rule /\ portOf[r] # 0 /\ Faithful(t) /\ r < next[t] => r \in found[t]
  /\ taskAt[t] \in {"routed", "ignored"} =>
       next[t] > NumRules /\ (taskAt[t] = "routed" <=> Cardinality(found[t]) = 1)

TasksInv ==
  \A t \in Tasks :
    /\ taskAt[t] = "idle" => next[t] = 1 /\ found[t] = {}
    /\ conn[t].gen = gen => Search(t)

IInv ==
  /\ TypeOK /\ LoopInv /\ CleanInv /\ PortsInv
  /\ ListenersInv /\ RegisteredInv /\ TasksInv
--------------------------------------------------------------------------------
LEMMA Constants ==
  /\ NumRules \in Nat \ {0} /\ Rules = 1 .. NumRules /\ Rules \subseteq Nat
  /\ MaxPort \in Nat \ {0} /\ Ports = 1 .. MaxPort /\ 0 \notin Ports
  /\ MaxGen \in Nat \ {0} /\ Gens = 1 .. MaxGen /\ 0 \notin Gens /\ 1 \in Gens
  /\ FixedPorts \subseteq Ports
BY RemoteAssumption DEF RemoteAssumption, Rules, Ports, Gens

LEMMA InitInv == Init => IInv
<1> SUFFICES ASSUME Init PROVE IInv
  OBVIOUS
<1>1. /\ hostOf \in [Rules -> Hosts] /\ portOf \in [Rules -> FixedPorts \cup {0}]
      /\ actual = [r \in Rules |-> 0] /\ given = [r \in Rules |-> 0]
      /\ phase = "down" /\ idx = 1 /\ answer = "none" /\ boundPort = 0
      /\ undo = 1 /\ cancelled = FALSE /\ gen = 1 /\ open = {} /\ listeners = {}
      /\ taskAt = [t \in Tasks |-> "idle"] /\ conn = [t \in Tasks |-> NoConn]
      /\ next = [t \in Tasks |-> 1] /\ found = [t \in Tasks |-> {}]
  BY DEF Init
<1>2. TypeOK
  <2>1. cancelled \in BOOLEAN
    BY <1>1
  <2>2. conn \in [Tasks -> Listener \cup {NoConn}]
    BY <1>1
  <2>3. idx \in 1 .. (NumRules + 1) /\ undo \in 1 .. (NumRules + 1)
        /\ next \in [Tasks -> 1 .. (NumRules + 1)]
    BY <1>1, Constants
  <2>4. reported \in [Tasks -> Addresses]
    BY DEF Init, Addresses
  <2>5. /\ actual \in [Rules -> Ports \cup {0}] /\ given \in [Rules -> Ports \cup {0}]
        /\ boundPort \in Ports \cup {0} /\ gen \in Gens
    BY <1>1, Constants
  <2>6. taskAt \in [Tasks -> {"idle", "matching", "routed", "ignored"}]
        /\ found \in [Tasks -> SUBSET Rules]
    BY <1>1
  <2> QED
    BY <1>1, <2>1, <2>2, <2>3, <2>4, <2>5, <2>6 DEF TypeOK
<1>3. LoopInv /\ CleanInv /\ PortsInv
  BY <1>1 DEF LoopInv, CleanInv, PortsInv, CleaningUp
<1>4. \A t \in Tasks : conn[t].gen # gen
  <2>1. NoConn.gen = 0
    BY DEF NoConn
  <2> QED
    BY <1>1, <2>1
<1>5. Accepted = {}
  BY <1>1, <1>4 DEF Accepted
<1>6. ListenersInv /\ RegisteredInv
  BY <1>1, <1>5 DEF ListenersInv, RegisteredInv, Alive
<1>7. TasksInv
  BY <1>1, <1>4 DEF TasksInv
<1> QED
  BY <1>2, <1>3, <1>6, <1>7 DEF IInv
--------------------------------------------------------------------------------
(* What an action leaves alone.                                            *)
LEMMA SearchKept ==
  ASSUME NEW t \in Tasks, Search(t), UNCHANGED <<hostOf, portOf, given>>,
         taskAt'[t] = taskAt[t], conn'[t] = conn[t], reported'[t] = reported[t],
         next'[t] = next[t], found'[t] = found[t]
  PROVE  Search(t)'
<1>1. Faithful(t)' <=> Faithful(t)
  BY DEF Faithful
<1>2. \A q \in found[t] : Rival(q, t)' <=> Rival(q, t)
  BY DEF Rival
<1> QED
  BY <1>1, <1>2 DEF Search

LEMMA TasksKept ==
  ASSUME TasksInv, UNCHANGED <<ruleVars, gen, given, taskVars>>
  PROVE  TasksInv'
BY SearchKept DEF TasksInv, ruleVars, taskVars

LEMMA ListenersKept ==
  ASSUME ListenersInv, UNCHANGED <<ruleVars, gen, conn, given>>, listeners' \subseteq listeners
  PROVE  ListenersInv'
<1>1. Accepted' \subseteq Accepted
  BY DEF Accepted
<1>2. ASSUME NEW l \in Accepted' PROVE Genuine(l)'
  <2>1. Genuine(l)
    BY <1>1, <1>2 DEF ListenersInv
  <2> QED
    BY <2>1 DEF Genuine, ruleVars
<1> QED
  BY <1>2 DEF ListenersInv

LEMMA PortsKept ==
  ASSUME PortsInv, UNCHANGED <<ruleVars, actual, idx, given>>,
         answer' = "granted" => answer = "granted" /\ boundPort' = boundPort,
         phase' = "setup" => phase = "setup" /\ (answer = "granted" => answer' = "granted")
  PROVE  PortsInv'
BY DEF PortsInv, ruleVars

LEMMA NotAlive == ~Alive' => RegisteredInv'
BY DEF RegisteredInv

LEMMA AcceptedTyped ==
  ASSUME TypeOK, NEW l \in Accepted
  PROVE  l \in Listener /\ l.gen = gen
<1>1. gen # 0
  BY Constants DEF TypeOK
<1>2. NoConn.gen = 0
  BY DEF NoConn
<1> QED
  BY <1>1, <1>2 DEF Accepted, TypeOK
--------------------------------------------------------------------------------
(* The server's steps.                                                     *)
LEMMA GrantKeeps ==
  ASSUME IInv, NEW r \in Rules, Grant(r)
  PROVE  IInv'
<1> PICK p \in Ports :
      /\ MayBind(r, p)
      /\ listeners' = listeners \cup
           {[gen |-> gen, rule |-> r, host |-> hostOf[r], port |-> p,
             on |-> FreeSockets(hostOf[r], p)]}
      /\ given' = [given EXCEPT ![r] = p]
      /\ boundPort' = IF portOf[r] = 0 THEN p ELSE 0
  BY DEF Grant
<1> DEFINE L == [gen |-> gen, rule |-> r, host |-> hostOf[r], port |-> p,
                 on |-> FreeSockets(hostOf[r], p)]
<1>1. /\ phase = "setup" /\ idx = r /\ answer = "none" /\ gen \in open
      /\ answer' = "granted"
      /\ UNCHANGED <<hostOf, portOf, actual, phase, idx, undo, cancelled, gen, open,
                     taskAt, conn, reported, next, found>>
  BY DEF Grant, ruleVars, taskVars
<1>2. L \in Listener /\ p # 0 /\ listeners' = listeners \cup {L}
  <2>1. hostOf[r] \in Hosts
    BY DEF IInv, TypeOK
  <2>2. FreeSockets(hostOf[r], p) \in SUBSET SUBSET Interfaces
    BY <2>1, RemoteAssumption DEF FreeSockets, RemoteAssumption
  <2> QED
    BY <2>1, <2>2, Constants DEF Listener, IInv, TypeOK
<1> HIDE DEF L
<1>3. L.gen = gen /\ L.rule = r /\ L.host = hostOf[r] /\ L.port = p
  BY DEF L
<1>4. /\ given[r] = 0
      /\ \A q \in Rules : given'[q] = IF q = r THEN p ELSE given[q]
  BY <1>1 DEF IInv, PortsInv, TypeOK
<1>5. TypeOK'
  <2>1. cancelled' \in BOOLEAN
    BY <1>1 DEF IInv, TypeOK
  <2>2. conn' \in [Tasks -> Listener \cup {NoConn}]
    BY <1>1 DEF IInv, TypeOK
  <2>3. given' \in [Rules -> Ports \cup {0}]
    BY DEF IInv, TypeOK
  <2> QED
    BY <1>1, <1>2, <2>1, <2>2, <2>3 DEF IInv, TypeOK
<1>6. LoopInv' /\ CleanInv'
  BY <1>1 DEF IInv, LoopInv, CleanInv, CleaningUp, LastUndo
<1>7. PortsInv'
  <2>1. \A q \in Rules : actual[q] # 0 => q # r
    BY <1>1, <1>4 DEF IInv, PortsInv
  <2>2. \A q \in Rules : q > r => given'[q] = 0
    BY <1>1, <1>4, Constants DEF IInv, PortsInv
  <2> QED
    BY <1>1, <1>4, <2>1, <2>2 DEF IInv, PortsInv
<1>8. ListenersInv'
  <2>1. SUFFICES ASSUME NEW l \in Accepted' PROVE Genuine(l)'
    BY DEF ListenersInv
  <2>2. l = L \/ l \in Accepted
    BY <1>1, <1>2, <2>1 DEF Accepted
  <2>3. CASE l = L
    BY <1>1, <1>3, <1>4, <2>3 DEF MayBind, Genuine
  <2>4. CASE l \in Accepted
    <3>1. Genuine(l) /\ l.rule \in Rules /\ l.port # 0
      BY <2>4, AcceptedTyped, Constants DEF IInv, ListenersInv, Listener
    <3> QED
      BY <1>1, <1>4, <3>1 DEF Genuine
  <2> QED
    BY <2>2, <2>3, <2>4
<1>9. RegisteredInv'
  <2>1. Alive /\ \A l : Mine(l) => Mine(l)'
    BY <1>1, <1>2 DEF Alive, Mine
  <2>2. \A q \in Rules : q < idx' =>
          /\ \E l \in listeners' : Mine(l)' /\ l.rule = q
          /\ portOf'[q] = 0 => actual'[q] = given'[q]
    BY <1>1, <1>2, <1>4, <2>1, Constants DEF IInv, RegisteredInv
  <2>3. \E l \in listeners' : Mine(l)' /\ l.rule = idx'
    BY <1>1, <1>2, <1>3 DEF Mine
  <2> QED
    BY <2>2, <2>3 DEF RegisteredInv
<1>10. TasksInv'
  <2>1. SUFFICES ASSUME NEW t \in Tasks, conn[t].gen = gen
                 PROVE  Search(t)'
    BY <1>1 DEF IInv, TasksInv
  <2>2. Search(t) /\ conn[t].port # 0 /\ found[t] \subseteq Rules
    BY <2>1, AcceptedTyped, Constants DEF IInv, TasksInv, Accepted, Listener, TypeOK
  <2>3. \A q \in found[t] : Rival(q, t) => Rival(q, t)'
    BY <1>1, <1>4, <2>2 DEF Rival
  <2> QED
    BY <1>1, <2>2, <2>3 DEF Search, Faithful
<1> QED
  BY <1>5, <1>6, <1>7, <1>8, <1>9, <1>10 DEF IInv

LEMMA DenyKeeps ==
  ASSUME IInv, Deny
  PROVE  IInv'
<1>1. /\ phase = "setup" /\ idx \in Rules /\ answer = "none" /\ answer' = "denied"
      /\ UNCHANGED <<hostOf, portOf, actual, phase, idx, boundPort, undo, cancelled,
                     gen, open, listeners, given, taskAt, conn, reported, next, found>>
  BY DEF Deny, ruleVars, serverVars, taskVars
<1>2. TypeOK'
  <2>1. cancelled' \in BOOLEAN
    BY <1>1 DEF IInv, TypeOK
  <2>2. conn' \in [Tasks -> Listener \cup {NoConn}]
    BY <1>1 DEF IInv, TypeOK
  <2> QED
    BY <1>1, <2>1, <2>2 DEF IInv, TypeOK
<1>3. LoopInv' /\ CleanInv'
  BY <1>1 DEF IInv, LoopInv, CleanInv, CleaningUp, LastUndo
<1>4. ListenersInv' /\ PortsInv' /\ TasksInv'
  BY <1>1, ListenersKept, PortsKept, TasksKept DEF IInv, ruleVars, serverVars, taskVars
<1>5. RegisteredInv'
  BY <1>1 DEF IInv, RegisteredInv, Alive, Mine
<1> QED
  BY <1>2, <1>3, <1>4, <1>5 DEF IInv

LEMMA SessionEndsKeeps ==
  ASSUME IInv, SessionEnds
  PROVE  IInv'
<1>1. /\ open' = open \ {gen}
      /\ UNCHANGED <<hostOf, portOf, actual, phase, idx, answer, boundPort, undo,
                     cancelled, gen, listeners, given, taskAt, conn, reported, next, found>>
  BY DEF SessionEnds, ruleVars, loopVars, serverVars, taskVars
<1>2. TypeOK'
  <2>1. cancelled' \in BOOLEAN
    BY <1>1 DEF IInv, TypeOK
  <2>2. conn' \in [Tasks -> Listener \cup {NoConn}]
    BY <1>1 DEF IInv, TypeOK
  <2> QED
    BY <1>1, <2>1, <2>2 DEF IInv, TypeOK
<1>3. LoopInv' /\ CleanInv'
  BY <1>1 DEF IInv, LoopInv, CleanInv, CleaningUp, LastUndo
<1>4. ListenersInv' /\ PortsInv' /\ TasksInv'
  BY <1>1, ListenersKept, PortsKept, TasksKept DEF IInv, ruleVars, serverVars, taskVars
<1>5. RegisteredInv'
  BY <1>1, NotAlive DEF Alive
<1> QED
  BY <1>2, <1>3, <1>4, <1>5 DEF IInv

LEMMA ReapKeeps ==
  ASSUME IInv, NEW g \in Gens, Reap(g)
  PROVE  IInv'
<1>1. /\ g \notin open /\ listeners' = {l \in listeners : l.gen # g}
      /\ UNCHANGED <<hostOf, portOf, actual, phase, idx, answer, boundPort, undo,
                     cancelled, gen, open, given, taskAt, conn, reported, next, found>>
  BY DEF Reap, ruleVars, loopVars, taskVars
<1>2. TypeOK'
  <2>1. cancelled' \in BOOLEAN
    BY <1>1 DEF IInv, TypeOK
  <2>2. conn' \in [Tasks -> Listener \cup {NoConn}]
    BY <1>1 DEF IInv, TypeOK
  <2> QED
    BY <1>1, <2>1, <2>2 DEF IInv, TypeOK
<1>3. LoopInv' /\ CleanInv'
  BY <1>1 DEF IInv, LoopInv, CleanInv, CleaningUp, LastUndo
<1>4. ListenersInv' /\ PortsInv' /\ TasksInv'
  BY <1>1, ListenersKept, PortsKept, TasksKept DEF IInv, ruleVars, serverVars, taskVars
<1>5. RegisteredInv'
  <2>1. SUFFICES ASSUME Alive PROVE RegisteredInv'
    BY <1>1 DEF RegisteredInv, Alive
  <2>2. \A l \in listeners : l.gen = gen => l \in listeners'
    BY <1>1, <2>1 DEF Alive
  <2>3. listeners' \subseteq listeners /\ \A l : Mine(l)' <=> Mine(l)
    BY <1>1, <2>2 DEF Mine
  <2> QED
    BY <1>1, <2>1, <2>2, <2>3 DEF IInv, RegisteredInv, Mine
<1> QED
  BY <1>2, <1>3, <1>4, <1>5 DEF IInv
--------------------------------------------------------------------------------
(* The steps of the supervisor.                                            *)
LEMMA SetupKeeps ==
  ASSUME IInv, Setup
  PROVE  IInv'
<1>1. /\ phase = "down" /\ phase' = "setup" /\ gen' \in Gens /\ open' = open \cup {gen'}
      /\ \A l \in listeners : l.gen # gen'
      /\ \A t \in Tasks : conn[t].gen # gen'
      /\ actual' = [r \in Rules |-> 0] /\ idx' = 1 /\ answer' = "none"
      /\ given' = [r \in Rules |-> 0]
      /\ UNCHANGED <<hostOf, portOf, boundPort, undo, cancelled, listeners, taskAt,
                     conn, reported, next, found>>
  BY DEF Setup, ruleVars, taskVars
<1>2. TypeOK'
  <2>1. cancelled' \in BOOLEAN
    BY <1>1 DEF IInv, TypeOK
  <2>2. conn' \in [Tasks -> Listener \cup {NoConn}]
    BY <1>1 DEF IInv, TypeOK
  <2>3. open' \subseteq {gen'} /\ idx' \in 1 .. (NumRules + 1)
    BY <1>1, Constants DEF IInv, LoopInv
  <2> QED
    BY <1>1, <2>1, <2>2, <2>3 DEF IInv, TypeOK
<1>3. LoopInv' /\ CleanInv' /\ PortsInv'
  BY <1>1 DEF IInv, LoopInv, CleanInv, PortsInv, CleaningUp
<1>4. Accepted' = {}
  BY <1>1 DEF Accepted
<1>5. ListenersInv'
  BY <1>4 DEF ListenersInv
<1>6. RegisteredInv'
  BY <1>1, Constants DEF RegisteredInv, Mine
<1>7. TasksInv'
  BY <1>1 DEF IInv, TasksInv
<1> QED
  BY <1>2, <1>3, <1>5, <1>6, <1>7 DEF IInv

LEMMA StoreBoundKeeps ==
  ASSUME IInv, StoreBound
  PROVE  IInv'
<1>1. /\ phase = "setup" /\ answer = "granted" /\ answer' = "none" /\ idx' = idx + 1
      /\ actual' = [actual EXCEPT ![idx] = boundPort] /\ idx \in Rules
      /\ UNCHANGED <<hostOf, portOf, phase, boundPort, undo, cancelled, gen, open,
                     listeners, given, taskAt, conn, reported, next, found>>
  BY DEF StoreBound, IInv, LoopInv, ruleVars, serverVars, taskVars
<1>2. /\ \A r \in Rules : actual'[r] = IF r = idx THEN boundPort ELSE actual[r]
      /\ \A r \in Rules : r < idx' <=> r < idx \/ r = idx
  BY <1>1, Constants DEF IInv, TypeOK
<1>3. TypeOK'
  <2>1. cancelled' \in BOOLEAN
    BY <1>1 DEF IInv, TypeOK
  <2>2. conn' \in [Tasks -> Listener \cup {NoConn}]
    BY <1>1 DEF IInv, TypeOK
  <2>3. idx' \in 1 .. (NumRules + 1)
    BY <1>1, Constants
  <2> QED
    BY <1>1, <2>1, <2>2, <2>3 DEF IInv, TypeOK
<1>4. LoopInv' /\ CleanInv'
  BY <1>1, <1>2, Constants DEF IInv, LoopInv, CleanInv, CleaningUp
<1>5. PortsInv'
  BY <1>1, <1>2, Constants DEF IInv, PortsInv, TypeOK
<1>6. ListenersInv'
  BY <1>1, ListenersKept DEF IInv, ruleVars
<1>7. RegisteredInv'
  <2>1. SUFFICES ASSUME Alive PROVE RegisteredInv'
    BY <1>1 DEF RegisteredInv, Alive
  <2>2. \A l : Mine(l)' <=> Mine(l)
    BY <1>1 DEF Mine
  <2>3. ASSUME NEW r \in Rules, r < idx'
        PROVE  \E l \in listeners' : Mine(l)' /\ l.rule = r
    BY <1>1, <1>2, <2>1, <2>2, <2>3 DEF IInv, RegisteredInv
  <2>4. ASSUME NEW r \in Rules, r < idx', portOf[r] = 0
        PROVE  actual'[r] = given[r]
    <3>1. CASE r = idx
      BY <1>1, <1>2, <2>4, <3>1 DEF IInv, PortsInv
    <3>2. CASE r # idx
      BY <1>2, <2>1, <2>4, <3>2 DEF IInv, RegisteredInv
    <3> QED
      BY <3>1, <3>2
  <2> QED
    BY <1>1, <2>3, <2>4 DEF RegisteredInv
<1>8. TasksInv'
  BY <1>1, TasksKept DEF IInv, ruleVars, serverVars, taskVars
<1> QED
  BY <1>3, <1>4, <1>5, <1>6, <1>7, <1>8 DEF IInv

(* These only move the registration or a clean-up loop on.                 *)
LEMMA MovingKeeps ==
  ASSUME IInv, BeginRollback \/ Ready \/ BeginCancel \/ Skip
  PROVE  IInv'
<1>1. /\ phase \in {"setup", "up", "rollback", "cancelling"} /\ phase' # "setup"
      /\ UNCHANGED <<hostOf, portOf, actual, idx, answer, boundPort, cancelled, gen,
                     open, listeners, given, taskAt, conn, reported, next, found>>
  BY DEF BeginRollback, Ready, BeginCancel, Skip, CleaningUp, ruleVars, serverVars, taskVars
<1>2. TypeOK' /\ LoopInv' /\ CleanInv'
  <2>1. CASE BeginRollback
    <3>1. phase = "setup" /\ answer = "denied" /\ phase' = "rollback" /\ undo' = 1
      BY <2>1 DEF BeginRollback
    <3> QED
      BY <1>1, <3>1, Constants
      DEF IInv, TypeOK, LoopInv, CleanInv, CleaningUp, LastUndo
  <2>2. CASE Ready
    <3>1. phase = "setup" /\ idx > NumRules /\ phase' = "up" /\ undo' = undo
      BY <2>2 DEF Ready
    <3>2. idx = NumRules + 1 /\ idx \notin Rules
      BY <3>1, Constants DEF IInv, TypeOK
    <3> QED
      BY <1>1, <3>1, <3>2 DEF IInv, TypeOK, LoopInv, CleanInv, CleaningUp
  <2>3. CASE BeginCancel
    <3>1. phase = "up" /\ phase' = "cancelling" /\ undo' = 1
      BY <2>3 DEF BeginCancel
    <3> QED
      BY <1>1, <3>1, Constants DEF IInv, TypeOK, LoopInv, CleanInv, CleaningUp
  <2>4. CASE Skip
    <3>1. /\ CleaningUp /\ undo <= LastUndo /\ actual[undo] = 0
          /\ phase' = phase /\ undo' = undo + 1
      BY <2>4 DEF Skip
    <3>2. undo' \in 1 .. (NumRules + 1) /\ LastUndo <= NumRules
      BY <3>1, Constants DEF IInv, TypeOK, LastUndo
    <3>3. \A r \in Rules : r < undo' => r < undo \/ r = undo
      BY <3>1, Constants DEF IInv, TypeOK
    <3>4. ~cancelled
      BY <3>1 DEF IInv, LoopInv
    <3> QED
      BY <1>1, <3>1, <3>2, <3>3, <3>4 DEF IInv, TypeOK, LoopInv, CleanInv, CleaningUp
  <2> QED
    BY <2>1, <2>2, <2>3, <2>4
<1>3. ListenersInv' /\ PortsInv' /\ TasksInv'
  BY <1>1, ListenersKept, PortsKept, TasksKept DEF IInv, ruleVars, serverVars, taskVars
<1>4. RegisteredInv'
  <2>1. CASE phase = "setup"
    BY <1>1, <2>1 DEF IInv, RegisteredInv, Alive, Mine
  <2>2. CASE phase # "setup"
    <3>1. ~Alive'
      BY <1>1, <2>2 DEF Alive, BeginRollback, Ready, BeginCancel, Skip, CleaningUp
    <3> QED
      BY <3>1, NotAlive
  <2> QED
    BY <2>1, <2>2
<1> QED
  BY <1>2, <1>3, <1>4 DEF IInv

LEMMA CancelKeeps ==
  ASSUME IInv, Cancel
  PROVE  IInv'
<1>1. /\ CleaningUp /\ undo <= LastUndo /\ actual[undo] # 0 /\ cancelled' = TRUE
      /\ listeners' \subseteq listeners
      /\ UNCHANGED <<hostOf, portOf, actual, phase, idx, answer, boundPort, undo,
                     gen, open, given, taskAt, conn, reported, next, found>>
  BY DEF Cancel, ruleVars, taskVars
<1>2. TypeOK'
  <2>1. cancelled' \in BOOLEAN
    BY <1>1
  <2>2. conn' \in [Tasks -> Listener \cup {NoConn}]
    BY <1>1 DEF IInv, TypeOK
  <2> QED
    BY <1>1, <2>1, <2>2 DEF IInv, TypeOK
<1>3. LoopInv' /\ CleanInv'
  BY <1>1 DEF IInv, LoopInv, CleanInv, CleaningUp, LastUndo
<1>4. ListenersInv' /\ PortsInv' /\ TasksInv'
  BY <1>1, ListenersKept, PortsKept, TasksKept DEF IInv, ruleVars, serverVars, taskVars
<1>5. RegisteredInv'
  BY <1>1, NotAlive DEF Alive, CleaningUp
<1> QED
  BY <1>2, <1>3, <1>4, <1>5 DEF IInv

LEMMA ForgetKeeps ==
  ASSUME IInv, Forget
  PROVE  IInv'
<1>1. /\ CleaningUp /\ cancelled /\ cancelled' = FALSE /\ undo' = undo + 1
      /\ actual' = [actual EXCEPT ![undo] = 0]
      /\ UNCHANGED <<hostOf, portOf, phase, idx, answer, boundPort, gen, open,
                     listeners, given, taskAt, conn, reported, next, found>>
  BY DEF Forget, ruleVars, serverVars, taskVars
<1>2. undo \in Rules /\ undo <= LastUndo
  BY <1>1, Constants DEF IInv, LoopInv, TypeOK, LastUndo
<1>3. /\ \A r \in Rules : actual'[r] = IF r = undo THEN 0 ELSE actual[r]
      /\ \A r \in Rules : r < undo' => r < undo \/ r = undo
      /\ undo' \in 1 .. (NumRules + 1)
  BY <1>1, <1>2, Constants DEF IInv, TypeOK
<1>4. TypeOK'
  <2>1. conn' \in [Tasks -> Listener \cup {NoConn}]
    BY <1>1 DEF IInv, TypeOK
  <2>2. actual' \in [Rules -> Ports \cup {0}]
    BY <1>1 DEF IInv, TypeOK
  <2> QED
    BY <1>1, <1>3, <2>1, <2>2 DEF IInv, TypeOK
<1>5. LoopInv' /\ CleanInv'
  BY <1>1, <1>3 DEF IInv, LoopInv, CleanInv, CleaningUp
<1>6. PortsInv'
  BY <1>1, <1>3 DEF IInv, PortsInv, CleaningUp
<1>7. ListenersInv'
  BY <1>1, ListenersKept DEF IInv, ruleVars
<1>8. RegisteredInv'
  BY <1>1, NotAlive DEF Alive, CleaningUp
<1>9. TasksInv'
  BY <1>1, TasksKept DEF IInv, ruleVars, serverVars, taskVars
<1> QED
  BY <1>4, <1>5, <1>6, <1>7, <1>8, <1>9 DEF IInv

LEMMA CleanedKeeps ==
  ASSUME IInv, Cleaned
  PROVE  IInv'
<1>1. /\ CleaningUp /\ undo > LastUndo /\ phase' = "down" /\ open' = open \ {gen}
      /\ UNCHANGED <<hostOf, portOf, actual, idx, answer, boundPort, undo, cancelled,
                     gen, listeners, given, taskAt, conn, reported, next, found>>
  BY DEF Cleaned, ruleVars, serverVars, taskVars
<1>2. open' = {} /\ ~cancelled
  BY <1>1, Constants DEF IInv, TypeOK, LoopInv, LastUndo
<1>3. TypeOK'
  <2>1. cancelled' \in BOOLEAN
    BY <1>1 DEF IInv, TypeOK
  <2>2. conn' \in [Tasks -> Listener \cup {NoConn}]
    BY <1>1 DEF IInv, TypeOK
  <2> QED
    BY <1>1, <1>2, <2>1, <2>2 DEF IInv, TypeOK
<1>4. \A r \in Rules : actual[r] = 0
  BY <1>1, Constants DEF IInv, TypeOK, CleanInv, CleaningUp, LastUndo
<1>5. LoopInv' /\ CleanInv'
  BY <1>1, <1>2, <1>4 DEF IInv, LoopInv, CleanInv, CleaningUp
<1>6. ListenersInv' /\ PortsInv' /\ TasksInv'
  BY <1>1, ListenersKept, PortsKept, TasksKept DEF IInv, ruleVars, serverVars, taskVars
<1>7. RegisteredInv'
  BY <1>1, NotAlive DEF Alive
<1> QED
  BY <1>3, <1>5, <1>6, <1>7 DEF IInv
--------------------------------------------------------------------------------
(* The steps of a task, which leave the registration alone.                *)
LEMMA TaskStepsKeep ==
  ASSUME IInv, NEW t \in Tasks, Connect(t) \/ Match(t) \/ Resolve(t) \/ TaskEnds(t)
  PROVE  IInv'
<1>1. UNCHANGED <<hostOf, portOf, actual, phase, idx, answer, boundPort, undo,
                  cancelled, gen, open, listeners, given>>
  BY DEF Connect, Match, Resolve, TaskEnds, ruleVars, loopVars, serverVars
<1>2. LoopInv' /\ CleanInv' /\ PortsInv'
  BY <1>1
  DEF IInv, LoopInv, CleanInv, PortsInv, CleaningUp, LastUndo
<1>3. \A u \in Tasks : conn'[u] = conn[u] \/ conn'[u].gen # gen \/ conn'[u] \in listeners
  <2>1. NoConn.gen # gen
    BY Constants DEF NoConn, IInv, TypeOK
  <2> QED
    BY <2>1 DEF Connect, Match, Resolve, TaskEnds, IInv, TypeOK
<1>4. ListenersInv'
  <2>1. Accepted' \subseteq Accepted
    BY <1>1, <1>3 DEF Accepted
  <2>2. ASSUME NEW l \in Accepted' PROVE Genuine(l)'
    <3>1. Genuine(l)
      BY <2>1, <2>2 DEF IInv, ListenersInv
    <3> QED
      BY <1>1, <3>1 DEF Genuine
  <2> QED
    BY <2>2 DEF ListenersInv
<1>5. RegisteredInv'
  BY <1>1 DEF IInv, RegisteredInv, Alive, Mine
<1>6. ASSUME taskAt' \in [Tasks -> {"idle", "matching", "routed", "ignored"}],
             conn' \in [Tasks -> Listener \cup {NoConn}],
             reported' \in [Tasks -> Addresses],
             next' \in [Tasks -> 1 .. (NumRules + 1)],
             found' \in [Tasks -> SUBSET Rules]
      PROVE  TypeOK'
  <2>1. cancelled' \in BOOLEAN
    BY <1>1 DEF IInv, TypeOK
  <2> QED
    BY <1>1, <1>6, <2>1 DEF IInv, TypeOK
<1>7. ASSUME \A u \in Tasks \ {t} : /\ taskAt'[u] = taskAt[u] /\ conn'[u] = conn[u]
                                    /\ reported'[u] = reported[u]
                                    /\ next'[u] = next[u] /\ found'[u] = found[u],
             taskAt'[t] = "idle" => next'[t] = 1 /\ found'[t] = {},
             conn'[t].gen = gen => Search(t)'
      PROVE  TasksInv'
  <2>1. ASSUME NEW u \in Tasks, u # t
        PROVE  /\ taskAt'[u] = "idle" => next'[u] = 1 /\ found'[u] = {}
               /\ conn'[u].gen = gen => Search(u)'
    BY <1>1, <1>7, <2>1, SearchKept DEF IInv, TasksInv
  <2> QED
    BY <1>1, <1>7, <2>1 DEF TasksInv
<1>8. CASE Connect(t)
  <2>1. PICK l \in listeners, a \in Addresses :
          /\ l.gen = gen /\ conn' = [conn EXCEPT ![t] = l]
          /\ reported' = [reported EXCEPT ![t] = a]
    BY <1>8 DEF Connect
  <2>2. /\ taskAt[t] = "idle" /\ taskAt' = [taskAt EXCEPT ![t] = "matching"]
        /\ next' = next /\ found' = found
    BY <1>8 DEF Connect
  <2>3. TypeOK'
    <3>1. conn' \in [Tasks -> Listener \cup {NoConn}]
      BY <2>1 DEF IInv, TypeOK
    <3>2. reported' \in [Tasks -> Addresses]
      BY <2>1 DEF IInv, TypeOK
    <3> QED
      BY <1>6, <2>2, <3>1, <3>2 DEF IInv, TypeOK
  <2>4. Search(t)'
    <3>1. found'[t] = {} /\ next'[t] = 1 /\ taskAt'[t] = "matching"
      BY <2>2 DEF IInv, TasksInv, TypeOK
    <3> QED
      BY <1>1, <3>1, Constants DEF Search
  <2>5. TasksInv'
    BY <1>7, <2>1, <2>2, <2>4 DEF IInv, TypeOK
  <2> QED
    BY <1>2, <1>4, <1>5, <2>3, <2>5 DEF IInv
<1>9. CASE Match(t)
  <2>1. /\ taskAt[t] = "matching" /\ next[t] \in Rules
        /\ taskAt' = taskAt /\ conn' = conn /\ reported' = reported
        /\ next' = [next EXCEPT ![t] = @ + 1]
        /\ found' = IF Matches(next[t], reported[t], conn[t].port)
                    THEN [found EXCEPT ![t] = @ \cup {next[t]}] ELSE found
    BY <1>9 DEF Match
  <2>2. TypeOK'
    <3>1. conn' \in [Tasks -> Listener \cup {NoConn}]
      BY <2>1 DEF IInv, TypeOK
    <3>2. next[t] + 1 \in 1 .. (NumRules + 1)
      BY <2>1, Constants
    <3>3. next' \in [Tasks -> 1 .. (NumRules + 1)]
      BY <2>1, <3>2 DEF IInv, TypeOK
    <3>4. found' \in [Tasks -> SUBSET Rules]
      BY <2>1 DEF IInv, TypeOK
    <3> QED
      BY <1>6, <2>1, <3>1, <3>3, <3>4 DEF IInv, TypeOK
  <2>3. ASSUME conn[t].gen = gen PROVE Search(t)'
    <3>1. Search(t) /\ conn[t] \in Listener /\ Genuine(conn[t])
      BY <2>3, AcceptedTyped DEF IInv, TasksInv, ListenersInv, Accepted
    <3>2. found'[t] = IF Matches(next[t], reported[t], conn[t].port)
                      THEN found[t] \cup {next[t]} ELSE found[t]
      BY <2>1 DEF IInv, TypeOK
    <3>3. Matches(next[t], reported[t], conn[t].port) =>
            next[t] = conn[t].rule \/ Rival(next[t], t)
      BY <2>1 DEF Matches, Rival, IInv, PortsInv
    <3>4. \A q \in found'[t] : q = conn[t].rule \/ Rival(q, t)
      BY <3>1, <3>2, <3>3 DEF Search
    <3>5. ASSUME NEW r \in Rules, r = conn[t].rule, portOf[r] # 0, Faithful(t), r < next'[t]
          PROVE  r \in found'[t]
      <4>1. r < next[t] \/ r = next[t]
        BY <2>1, <3>5, Constants DEF IInv, TypeOK
      <4>2. Matches(r, reported[t], conn[t].port)
        BY <3>1, <3>5 DEF Genuine, Matches, Faithful
      <4> QED
        BY <3>1, <3>2, <3>5, <4>1, <4>2 DEF Search
    <3> QED
      BY <1>1, <2>1, <3>4, <3>5 DEF Search, Rival, Faithful
  <2>4. TasksInv'
    BY <1>7, <2>1, <2>3 DEF IInv, TypeOK
  <2> QED
    BY <1>2, <1>4, <1>5, <2>2, <2>4 DEF IInv
<1>10. CASE Resolve(t)
  <2>1. /\ taskAt[t] = "matching" /\ next[t] > NumRules
        /\ conn' = conn /\ reported' = reported /\ next' = next /\ found' = found
        /\ taskAt' = [taskAt EXCEPT ![t] =
             IF Cardinality(found[t]) = 1 THEN "routed" ELSE "ignored"]
    BY <1>10 DEF Resolve
  <2>2. TypeOK'
    <3>1. conn' \in [Tasks -> Listener \cup {NoConn}]
      BY <2>1 DEF IInv, TypeOK
    <3> QED
      BY <1>6, <2>1, <3>1 DEF IInv, TypeOK
  <2>3. taskAt'[t] = IF Cardinality(found[t]) = 1 THEN "routed" ELSE "ignored"
    BY <2>1 DEF IInv, TypeOK
  <2>4. conn[t].gen = gen => Search(t)'
    <3>1. Faithful(t)' <=> Faithful(t)
      BY <1>1, <2>1 DEF Faithful
    <3>2. \A q \in found[t] : Rival(q, t)' <=> Rival(q, t)
      BY <1>1, <2>1 DEF Rival
    <3> QED
      BY <1>1, <2>1, <2>3, <3>1, <3>2 DEF IInv, TasksInv, Search
  <2>5. TasksInv'
    BY <1>7, <2>1, <2>3, <2>4 DEF IInv, TypeOK
  <2> QED
    BY <1>2, <1>4, <1>5, <2>2, <2>5 DEF IInv
<1>11. CASE TaskEnds(t)
  <2>1. /\ taskAt' = [taskAt EXCEPT ![t] = "idle"] /\ conn' = [conn EXCEPT ![t] = NoConn]
        /\ reported' = [reported EXCEPT ![t] = ""]
        /\ next' = [next EXCEPT ![t] = 1] /\ found' = [found EXCEPT ![t] = {}]
    BY <1>11 DEF TaskEnds
  <2>2. TypeOK'
    <3>1. conn' \in [Tasks -> Listener \cup {NoConn}]
      BY <2>1 DEF IInv, TypeOK
    <3>2. next' \in [Tasks -> 1 .. (NumRules + 1)]
      <4>1. 1 \in 1 .. (NumRules + 1) /\ next \in [Tasks -> 1 .. (NumRules + 1)]
        BY Constants DEF IInv, TypeOK
      <4> QED
        BY <2>1, <4>1
    <3>3. reported' \in [Tasks -> Addresses]
      BY <2>1 DEF IInv, TypeOK, Addresses
    <3> QED
      BY <1>6, <2>1, <3>1, <3>2, <3>3 DEF IInv, TypeOK
  <2>3. conn'[t].gen # gen
    BY <2>1, Constants DEF NoConn, IInv, TypeOK
  <2>4. TasksInv'
    BY <1>7, <2>1, <2>3 DEF IInv, TypeOK
  <2> QED
    BY <1>2, <1>4, <1>5, <2>2, <2>4 DEF IInv
<1> QED
  BY <1>8, <1>9, <1>10, <1>11

LEMMA NextKeeps == IInv /\ [Next]_vars => IInv'
<1> SUFFICES ASSUME IInv, [Next]_vars PROVE IInv'
  OBVIOUS
<1>1. CASE Supervise
  BY <1>1, SetupKeeps, StoreBoundKeeps, MovingKeeps, CancelKeeps, ForgetKeeps,
     CleanedKeeps DEF Supervise
<1>2. CASE Server
  BY <1>2, GrantKeeps, DenyKeeps, SessionEndsKeeps, ReapKeeps DEF Server
<1>3. CASE \E t \in Tasks : Connect(t) \/ Match(t) \/ Resolve(t) \/ TaskEnds(t)
  BY <1>3, TaskStepsKeep
<1>4. CASE UNCHANGED vars
  <2>1. UNCHANGED <<hostOf, portOf, actual, phase, idx, answer, boundPort, undo,
                    cancelled, gen, open, listeners, given, taskAt, conn, reported,
                    next, found>>
    BY <1>4 DEF vars
  <2>2. TypeOK'
    <3>1. cancelled' \in BOOLEAN
      BY <2>1 DEF IInv, TypeOK
    <3>2. conn' \in [Tasks -> Listener \cup {NoConn}]
      BY <2>1 DEF IInv, TypeOK
    <3> QED
      BY <2>1, <3>1, <3>2 DEF IInv, TypeOK
  <2>3. LoopInv' /\ CleanInv'
    BY <2>1 DEF IInv, LoopInv, CleanInv, CleaningUp, LastUndo
  <2>4. ListenersInv' /\ PortsInv' /\ TasksInv'
    BY <2>1, ListenersKept, PortsKept, TasksKept DEF IInv, ruleVars, serverVars, taskVars
  <2>5. RegisteredInv'
    BY <2>1 DEF IInv, RegisteredInv, Alive, Mine
  <2> QED
    BY <2>2, <2>3, <2>4, <2>5 DEF IInv
<1> QED
  BY <1>1, <1>2, <1>3, <1>4 DEF Next

LEMMA Invariance == Spec => []IInv
BY InitInv, NextKeeps, PTL DEF Spec
--------------------------------------------------------------------------------
(* Every variable keeps its type.                                          *)
THEOREM TypeCorrect == Spec => []TypeOK
<1>1. IInv => TypeOK
  BY DEF IInv
<1> QED
  BY <1>1, Invariance, PTL

(* However an attempt ended, the next one begins with no port of it left   *)
(* in a rule (rollback_remote_forwards, cancel_remote_forwards).           *)
THEOREM NoPortIsStale == Spec => []NoStalePorts
<1>1. IInv => NoStalePorts
  BY DEF IInv, CleanInv, NoStalePorts
<1> QED
  BY <1>1, Invariance, PTL

(* A published session has a listener for every rule, whatever was denied  *)
(* before (setup_remote_forwards).                                         *)
THEOREM AllRulesAreRegistered == Spec => []PublishedIsComplete
<1>1. ASSUME IInv PROVE PublishedIsComplete
  <2>1. \A r \in Rules : r < NumRules + 1
    BY Constants
  <2> QED
    BY <1>1, <2>1
    DEF IInv, LoopInv, RegisteredInv, Alive, Mine, PublishedIsComplete, Registered
<1> QED
  BY <1>1, Invariance, PTL

(* A task that has resolved its connection has looked at every rule.       *)
LEMMA Resolved ==
  ASSUME IInv, NEW t \in Tasks, taskAt[t] \in {"routed", "ignored"}, conn[t].gen = gen
  PROVE  /\ \A q \in found[t] : q \in Rules /\ (q = conn[t].rule \/ Rival(q, t))
         /\ portOf[conn[t].rule] # 0 /\ Faithful(t) => conn[t].rule \in found[t]
         /\ taskAt[t] = "routed" <=> \E q : found[t] = {q}
<1>1. Search(t) /\ conn[t] \in Listener /\ found[t] \subseteq Rules
  BY AcceptedTyped DEF IInv, TasksInv, Accepted, TypeOK
<1>2. conn[t].rule \in Rules /\ conn[t].rule < next[t]
  BY <1>1, Constants DEF Search, Listener, IInv, TypeOK
<1>3. IsFiniteSet(found[t])
  <2>1. IsFiniteSet(Rules)
    BY FS_Interval, Constants
  <2> QED
    BY <1>1, <2>1, FS_Subset
<1>4. Cardinality(found[t]) = 1 <=> \E q : found[t] = {q}
  BY <1>3, FS_Singleton
<1> QED
  BY <1>1, <1>2, <1>4 DEF Search

(* A connection of the current session is routed to the rule whose         *)
(* listener accepted it, or, when that rule does not know it, to a rival   *)
(* (server_channel_open_forwarded_tcpip).                                  *)
THEOREM ConnectionsReachTheirRule == Spec => []RoutedToItsRule
<1>1. ASSUME IInv PROVE RoutedToItsRule
  <2>1. SUFFICES ASSUME NEW t \in Tasks, taskAt[t] = "routed", conn[t].gen = gen,
                        found[t] # {conn[t].rule}
                 PROVE  /\ portOf[conn[t].rule] = 0 \/ ~ Faithful(t)
                        /\ \E q \in Rules : Rival(q, t) /\ found[t] = {q}
    BY DEF RoutedToItsRule
  <2>2. PICK q : found[t] = {q}
    BY <1>1, <2>1, Resolved
  <2>3. q \in Rules /\ Rival(q, t)
    BY <1>1, <2>1, <2>2, Resolved
  <2>4. portOf[conn[t].rule] = 0 \/ ~ Faithful(t)
    BY <1>1, <2>1, <2>2, Resolved
  <2> QED
    BY <2>2, <2>3, <2>4
<1> QED
  BY <1>1, Invariance, PTL

(* A connection to a port its rule names, reported faithfully, is ignored  *)
(* only when it has a rival (process_remote_forward).                      *)
THEOREM IgnoredForAReason == Spec => []TurnedAwayForAReason
<1>1. ASSUME IInv PROVE TurnedAwayForAReason
  <2>1. SUFFICES ASSUME NEW t \in Tasks, taskAt[t] = "ignored", conn[t].gen = gen,
                        portOf[conn[t].rule] # 0, Faithful(t)
                 PROVE  \E q \in Rules : Rival(q, t)
    BY DEF TurnedAwayForAReason
  <2>2. conn[t].rule \in found[t] /\ found[t] # {conn[t].rule}
    BY <1>1, <2>1, Resolved
  <2>3. PICK q \in found[t] : q # conn[t].rule
    BY <2>2
  <2> QED
    BY <1>1, <2>1, <2>3, Resolved
<1> QED
  BY <1>1, Invariance, PTL

(* On a published session every connection is matched with exactly the     *)
(* rules that have a claim to its port and address.                        *)
THEOREM ClaimsAreKnown == Spec => []MatchingIsServed
<1>1. ASSUME IInv PROVE MatchingIsServed
  <2>1. SUFFICES ASSUME phase = "up", gen \in open, NEW a \in Addresses, NEW p \in Ports
                 PROVE  Matching(a, p) = Claiming(a, p)
    BY DEF MatchingIsServed
  <2>2. Alive /\ \A r \in Rules : r < idx
    BY <1>1, <2>1, Constants DEF IInv, LoopInv, Alive
  <2>3. \A l \in Registered : l.rule \in Rules /\ Genuine(l)
    BY <1>1, AcceptedTyped DEF Registered, Accepted, IInv, ListenersInv, Listener
  <2>4. \A r \in Rules : \E l \in Registered : l.rule = r
    BY <1>1, <2>1, <2>2 DEF IInv, RegisteredInv, Mine, Registered
  <2>5. ASSUME NEW r \in Matching(a, p) PROVE r \in Claiming(a, p)
    <3>1. r \in Rules /\ Matches(r, a, p)
      BY DEF Matching
    <3>2. PICK l \in Registered : l.rule = r
      BY <2>4, <3>1
    <3>3. l.port = p /\ (portOf[r] = 0 \/ a = "" \/ HostsEquivalent(l.host, a))
      BY <1>1, <2>3, <3>1, <3>2, Constants DEF Matches, Genuine, IInv, PortsInv
    <3> QED
      BY <3>2, <3>3 DEF Claiming
  <2>6. ASSUME NEW r \in Claiming(a, p) PROVE r \in Matching(a, p)
    <3>1. PICK l \in Registered :
            /\ l.rule = r /\ l.port = p
            /\ portOf[r] = 0 \/ a = "" \/ HostsEquivalent(l.host, a)
      BY DEF Claiming
    <3>2. portOf[r] = 0 => actual[r] = p
      BY <1>1, <2>2, <2>3, <3>1 DEF Genuine, IInv, RegisteredInv
    <3>3. portOf[r] # 0 => portOf[r] = p /\ hostOf[r] = l.host
      BY <2>3, <3>1 DEF Genuine
    <3> QED
      BY <2>3, <3>1, <3>2, <3>3, Constants DEF Matches, Matching
  <2> QED
    BY <2>5, <2>6
<1> QED
  BY <1>1, Invariance, PTL
--------------------------------------------------------------------------------
(***************************************************************************)
(* Attempts come to an end.                                                *)
(***************************************************************************)
(* How far the registration and the clean-up after it have come.           *)
LoopsDone ==
  CASE phase = "setup" -> 2 * idx + (IF answer = "none" THEN 0 ELSE 1)
    [] phase = "up" -> 2 * NumRules + 4
    [] OTHER -> 2 * NumRules + 5 + 2 * undo + (IF cancelled THEN 1 ELSE 0)

(* Neither loop ever goes back, whatever the server answers and whenever   *)
(* the session ends: between two attempts there are at most                *)
(* 4 * NumRules + 8 steps of them.  This is the safe part of               *)
(* RegisteredAgain (tunnel.rs:203-272, 274-299).                           *)
THEOREM LoopsLeadOn ==
  Spec =>
    /\ [](phase # "down" => LoopsDone \in 0 .. 4 * NumRules + 8)
    /\ [][phase # "down" /\ phase' # "down" =>
            \/ UNCHANGED loopVars
            \/ LoopsDone' > LoopsDone]_vars
<1>1. IInv => (phase # "down" => LoopsDone \in 0 .. 4 * NumRules + 8)
  <2>1. IInv => /\ NumRules \in Nat
                /\ idx \in 1 .. (NumRules + 1) /\ undo \in 1 .. (NumRules + 1)
    BY Constants DEF IInv, TypeOK
  <2> QED
    BY <2>1 DEF LoopsDone
<1>2. IInv /\ [Next]_vars =>
        [phase # "down" /\ phase' # "down" =>
           \/ UNCHANGED loopVars
           \/ LoopsDone' > LoopsDone]_vars
  <2> SUFFICES ASSUME IInv, Next, phase # "down", phase' # "down"
               PROVE  UNCHANGED loopVars \/ LoopsDone' > LoopsDone
    OBVIOUS
  <2>1. /\ idx \in 1 .. (NumRules + 1) /\ undo \in 1 .. (NumRules + 1)
        /\ NumRules \in Nat \ {0} /\ (answer # "none" => idx \in 1 .. NumRules)
    BY Constants DEF IInv, TypeOK, LoopInv
  <2>2. CASE \E r \in Rules : Grant(r)
    BY <2>1, <2>2 DEF Grant, LoopsDone
  <2>3. CASE Deny \/ StoreBound
    BY <2>1, <2>3 DEF Deny, StoreBound, LoopsDone
  <2>4. CASE BeginRollback \/ Ready \/ BeginCancel
    BY <2>1, <2>4 DEF BeginRollback, Ready, BeginCancel, LoopsDone
  <2>5. CASE Skip \/ Cancel \/ Forget
    BY <2>1, <2>5 DEF Skip, Cancel, Forget, CleaningUp, LoopsDone, IInv, LoopInv
  <2>6. CASE Setup \/ Cleaned
    BY <2>6 DEF Setup, Cleaned
  <2>7. CASE SessionEnds \/ \E g \in Gens : Reap(g)
    BY <2>7 DEF SessionEnds, Reap
  <2>8. CASE \E t \in Tasks : Connect(t) \/ Match(t) \/ Resolve(t) \/ TaskEnds(t)
    BY <2>8 DEF Connect, Match, Resolve, TaskEnds
  <2> QED
    BY <2>2, <2>3, <2>4, <2>5, <2>6, <2>7, <2>8 DEF Next, Supervise, Server
<1> QED
  BY <1>1, <1>2, Invariance, PTL DEF Spec
================================================================================
