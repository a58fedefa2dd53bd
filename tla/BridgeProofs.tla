------------------------------- MODULE BridgeProofs ------------------------------
(***************************************************************************)
(* Proofs about Bridge.tla, for every number of clients, connections and   *)
(* attempts, and for each of the three loops.                              *)
(***************************************************************************)
EXTENDS Bridge, FiniteSetTheorems, TLAPS

(* A task that pauses has an attempt left.                                 *)
AttemptsLeft == \A c \in Clients : at[c] = "pausing" => attempt[c] < UpstreamRetries

IInv == TypeOK /\ PermitsConserved /\ OneAtTheDoor /\ AttemptsLeft
--------------------------------------------------------------------------------
(* How a move of one task changes the number of those that hold a permit.  *)
LEMMA MoveCounts ==
  ASSUME TypeOK, NEW c \in Clients, NEW from, NEW to \in Places, Move(c, from, to)
  PROVE  /\ at' \in [Clients -> Places] /\ at[c] = from /\ at'[c] = to
         /\ \A d \in Clients \ {c} : at'[d] = at[d]
         /\ Cardinality(Holders) \in Nat /\ Cardinality(Holders') \in Nat
         /\ Cardinality(Holders')
              = Cardinality(Holders) - (IF from \in Holding THEN 1 ELSE 0)
                                     + (IF to \in Holding THEN 1 ELSE 0)
<1>1. /\ at' \in [Clients -> Places] /\ at[c] = from /\ at'[c] = to
      /\ \A d \in Clients \ {c} : at'[d] = at[d]
      /\ Holders' = IF to \in Holding THEN Holders \cup {c} ELSE Holders \ {c}
      /\ (c \in Holders <=> from \in Holding)
  BY DEF TypeOK, Move, Holders, Places, Holding
<1>2. IsFiniteSet(Holders)
  BY BridgeAssumption, FS_Subset DEF Holders, BridgeAssumption
<1>3. Cardinality(Holders) \in Nat /\ Cardinality(Holders') \in Nat
  BY <1>1, <1>2, FS_CardinalityType, FS_AddElement, FS_RemoveElement
<1>4. Cardinality(Holders')
        = Cardinality(Holders) - (IF from \in Holding THEN 1 ELSE 0)
                               + (IF to \in Holding THEN 1 ELSE 0)
  <2>1. CASE to \in Holding
    <3>1. Holders' = Holders \cup {c}
      BY <1>1, <2>1
    <3>2. Cardinality(Holders \cup {c})
            = IF c \in Holders THEN Cardinality(Holders) ELSE Cardinality(Holders) + 1
      BY <1>2, FS_AddElement
    <3> QED
      BY <1>1, <1>3, <2>1, <3>1, <3>2
  <2>2. CASE to \notin Holding
    <3>1. Holders' = Holders \ {c}
      BY <1>1, <2>2
    <3>2. Cardinality(Holders \ {c})
            = IF c \in Holders THEN Cardinality(Holders) - 1 ELSE Cardinality(Holders)
      BY <1>2, FS_RemoveElement
    <3> QED
      BY <1>1, <1>3, <2>2, <3>1, <3>2
  <2> QED
    BY <2>1, <2>2
<1> QED
  BY <1>1, <1>3, <1>4

(* Nobody holds a permit when every client is outside.                     *)
LEMMA NobodyHolds ==
  ASSUME \A c \in Clients : at[c] = "outside"
  PROVE  Cardinality(Holders) = 0
<1>1. Holders = {}
  BY DEF Holders, Holding
<1> QED
  BY <1>1, FS_EmptySet

LEMMA InitInv == Init => IInv
<1> SUFFICES ASSUME Init PROVE IInv
  OBVIOUS
<1> USE BridgeAssumption DEF Init, BridgeAssumption
<1>1. TypeOK
  <2>1. UpstreamRetries \in Nat /\ MaxConnections \in Nat
    OBVIOUS
  <2>2. heard \in BOOLEAN /\ pressed \in BOOLEAN
    OBVIOUS
  <2>3. /\ at \in [Clients -> Places] /\ permits \in 0 .. MaxConnections
        /\ attempt \in [Clients -> 0 .. UpstreamRetries]
    BY <2>1 DEF Places
  <2> QED
    BY <2>2, <2>3 DEF TypeOK
<1>2. PermitsConserved
  <2>1. \A c \in Clients : at[c] = "outside"
    OBVIOUS
  <2> QED
    BY <2>1, NobodyHolds DEF PermitsConserved
<1>3. OneAtTheDoor /\ AttemptsLeft
  BY DEF OneAtTheDoor, AttemptsLeft
<1> QED
  BY <1>1, <1>2, <1>3 DEF IInv

(* The bridge ends.                                                        *)
LEMMA ShutdownInv ==
  ASSUME IInv, NEW how \in {"stopped", "failed"}, Shutdown(how)
  PROVE  IInv'
<1> USE BridgeAssumption DEF IInv, Shutdown, BridgeAssumption
<1>1. TypeOK'
  <2>1. UpstreamRetries \in Nat /\ MaxConnections \in Nat
    OBVIOUS
  <2>2. heard' \in BOOLEAN /\ pressed' \in BOOLEAN
    BY DEF TypeOK
  <2>3. /\ at' \in [Clients -> Places] /\ permits' \in 0 .. MaxConnections
        /\ attempt' \in [Clients -> 0 .. UpstreamRetries]
    BY <2>1 DEF Places
  <2> QED
    BY <2>2, <2>3 DEF TypeOK
<1>2. PermitsConserved'
  <2>1. Cardinality(Holders') = 0
    <3>1. Holders' = {}
      BY DEF Holders, Holding
    <3> QED
      BY <3>1, FS_EmptySet
  <2> QED
    BY <2>1 DEF PermitsConserved
<1>3. OneAtTheDoor' /\ AttemptsLeft'
  BY DEF OneAtTheDoor, AttemptsLeft
<1> QED
  BY <1>1, <1>2, <1>3

(* A task moves on and keeps what it holds.                                *)
LEMMA WithinInv ==
  ASSUME IInv, NEW c \in Clients, NEW from \in Holding, NEW to \in Holding,
         Move(c, from, to), attempt' \in [Clients -> 0 .. UpstreamRetries],
         \A d \in Clients \ {c} : attempt'[d] = attempt[d],
         to = "pausing" => attempt'[c] < UpstreamRetries,
         UNCHANGED <<loop, heard, pressed, permits>>
  PROVE  IInv'
<1> USE DEF IInv
<1>1. to \in Places
  BY DEF Places
<1>2. TypeOK'
  BY <1>1, MoveCounts DEF TypeOK
<1>3. PermitsConserved'
  BY <1>1, MoveCounts DEF PermitsConserved, TypeOK
<1>4. OneAtTheDoor'
  BY <1>1, MoveCounts DEF OneAtTheDoor, Holding
<1>5. AttemptsLeft'
  BY <1>1, MoveCounts DEF AttemptsLeft
<1> QED
  BY <1>2, <1>3, <1>4, <1>5

(* A task ends, and its permit is free again.                              *)
LEMMA LeaveInv ==
  ASSUME IInv, NEW c \in Clients, NEW from \in Holding,
         Move(c, from, "outside"), Leave(c)
  PROVE  IInv'
<1> USE DEF IInv, Leave
<1>1. "outside" \in Places /\ "outside" \notin Holding
  BY DEF Places, Holding
<1>2. /\ Cardinality(Holders') = Cardinality(Holders) - 1
      /\ Cardinality(Holders) \in Nat /\ Cardinality(Holders') \in Nat
  BY <1>1, MoveCounts
<1>3. permits' = permits + 1 /\ permits' \in 0 .. MaxConnections
  BY <1>2, BridgeAssumption DEF TypeOK, PermitsConserved, BridgeAssumption
<1>4. TypeOK'
  <2>1. attempt' \in [Clients -> 0 .. UpstreamRetries]
    BY BridgeAssumption DEF TypeOK, BridgeAssumption
  <2> QED
    BY <1>1, <1>3, <2>1, MoveCounts DEF TypeOK
<1>5. PermitsConserved'
  BY <1>2, <1>3, BridgeAssumption DEF PermitsConserved, TypeOK, BridgeAssumption
<1>6. OneAtTheDoor'
  BY <1>1, MoveCounts DEF OneAtTheDoor, Holding
<1>7. AttemptsLeft'
  BY <1>1, MoveCounts DEF AttemptsLeft, TypeOK
<1> QED
  BY <1>4, <1>5, <1>6, <1>7

(* Clients come and are accepted: no permit is touched.                    *)
LEMMA ArrivingInv ==
  ASSUME IInv, NEW c \in Clients, Arrive(c) \/ Accept(c)
  PROVE  IInv'
<1> USE DEF IInv
<1>1. PICK from \in {"outside", "queued"}, to \in {"queued", "accepted"} :
        /\ Move(c, from, to)
        /\ to = "accepted" <=> Accept(c)
        /\ to = "queued" <=> Arrive(c)
  BY DEF Arrive, Accept, Move
<1>2. from \notin Holding /\ to \in Places /\ to \notin Holding /\ to # "pausing"
  BY <1>1 DEF Holding, Places
<1>3. permits' = permits /\ attempt' = attempt /\ pressed' = pressed
      /\ heard' \in {heard, FALSE} /\ loop' \in {loop, "acquiring"}
  BY DEF Arrive, Accept
<1>4. heard' \in BOOLEAN /\ pressed' \in BOOLEAN
  BY <1>3 DEF TypeOK
<1>5. TypeOK'
  BY <1>1, <1>2, <1>3, <1>4, MoveCounts DEF TypeOK
<1>6. PermitsConserved'
  BY <1>1, <1>2, <1>3, MoveCounts DEF PermitsConserved, TypeOK
<1>7. OneAtTheDoor'
  <2>1. CASE Arrive(c)
    BY <1>1, <1>2, <2>1, MoveCounts DEF OneAtTheDoor, Arrive
  <2>2. CASE Accept(c)
    BY <1>1, <1>2, <2>2, MoveCounts DEF OneAtTheDoor, Accept
  <2> QED
    BY <2>1, <2>2
<1>8. AttemptsLeft'
  BY <1>1, <1>2, <1>3, MoveCounts DEF AttemptsLeft
<1> QED
  BY <1>5, <1>6, <1>7, <1>8

LEMMA AcquireInv ==
  ASSUME IInv, NEW c \in Clients, Acquire(c)
  PROVE  IInv'
<1> USE DEF IInv
<1>1. PICK to \in {"shaking", "connecting"} : Move(c, "accepted", to)
  BY DEF Acquire
<1>2. to \in Places /\ to \in Holding /\ "accepted" \notin Holding /\ to # "pausing"
  BY <1>1 DEF Holding, Places
<1>3. permits' = permits - 1 /\ permits' \in 0 .. MaxConnections /\ loop' = "accepting"
      /\ loop = "acquiring"
  BY BridgeAssumption DEF Acquire, TypeOK, BridgeAssumption
<1>4. /\ attempt' \in [Clients -> 0 .. UpstreamRetries]
      /\ \A d \in Clients \ {c} : attempt'[d] = attempt[d]
  BY BridgeAssumption DEF Acquire, TypeOK, BridgeAssumption
<1>5. UNCHANGED <<heard, pressed>>
  BY DEF Acquire
<1>6. TypeOK'
  BY <1>1, <1>2, <1>3, <1>4, <1>5, MoveCounts DEF TypeOK
<1>7. PermitsConserved'
  <2>1. /\ Cardinality(Holders') = Cardinality(Holders) + 1
        /\ Cardinality(Holders) \in Nat
    BY <1>1, <1>2, MoveCounts
  <2> QED
    BY <1>3, <2>1, BridgeAssumption DEF PermitsConserved, TypeOK, BridgeAssumption
<1>8. OneAtTheDoor'
  BY <1>1, <1>2, <1>3, MoveCounts DEF OneAtTheDoor, Holding
<1>9. AttemptsLeft'
  BY <1>1, <1>2, <1>4, MoveCounts DEF AttemptsLeft
<1> QED
  BY <1>6, <1>7, <1>8, <1>9

LEMMA TaskInv ==
  ASSUME IInv, NEW c \in Clients, Task(c) \/ RelayEnds(c)
  PROVE  IInv'
<1> USE DEF IInv
<1>1. attempt \in [Clients -> 0 .. UpstreamRetries] /\ UpstreamRetries \in Nat \ {0}
      /\ {"shaking", "connecting", "pausing", "relaying"} \subseteq Holding
  BY BridgeAssumption DEF TypeOK, BridgeAssumption, Holding
<1>2. CASE HandshakeOk(c)
  BY <1>1, <1>2, WithinInv DEF HandshakeOk
<1>3. CASE UpstreamOk(c)
  BY <1>1, <1>3, WithinInv DEF UpstreamOk
<1>4. CASE UpstreamRetry(c)
  BY <1>1, <1>4, WithinInv DEF UpstreamRetry
<1>5. CASE PauseOver(c)
  <2>1. attempt[c] < UpstreamRetries
    BY <1>5 DEF PauseOver, Move, AttemptsLeft
  <2>2. attempt' \in [Clients -> 0 .. UpstreamRetries]
    BY <1>1, <1>5, <2>1 DEF PauseOver
  <2> QED
    BY <1>1, <1>5, <2>2, WithinInv DEF PauseOver
<1>6. CASE HandshakeFails(c) \/ UpstreamFails(c) \/ RelayEnds(c)
  BY <1>1, <1>6, LeaveInv DEF HandshakeFails, UpstreamFails, RelayEnds
<1> QED
  BY <1>2, <1>3, <1>4, <1>5, <1>6 DEF Task

LEMMA CtrlCInv ==
  ASSUME IInv, CtrlC
  PROVE  IInv'
<1> USE DEF IInv, CtrlC
<1>1. heard' \in BOOLEAN /\ pressed' \in BOOLEAN
  BY DEF TypeOK
<1>2. TypeOK'
  BY <1>1 DEF TypeOK
<1>3. PermitsConserved' /\ OneAtTheDoor' /\ AttemptsLeft'
  BY DEF PermitsConserved, OneAtTheDoor, AttemptsLeft, Holders
<1> QED
  BY <1>2, <1>3

LEMMA StepInv == IInv /\ [Next]_vars => IInv'
<1> SUFFICES ASSUME IInv, [Next]_vars PROVE IInv'
  OBVIOUS
<1>1. CASE CtrlC
  BY <1>1, CtrlCInv
<1>2. CASE AcceptFails \/ Stop
  BY <1>2, ShutdownInv DEF AcceptFails, Stop
<1>3. ASSUME NEW c \in Clients, Arrive(c) \/ Accept(c) PROVE IInv'
  BY <1>3, ArrivingInv
<1>4. ASSUME NEW c \in Clients, Acquire(c) PROVE IInv'
  BY <1>4, AcquireInv
<1>5. ASSUME NEW c \in Clients, Task(c) \/ RelayEnds(c) PROVE IInv'
  BY <1>5, TaskInv
<1>6. CASE UNCHANGED vars
  BY <1>6 DEF vars, IInv, TypeOK, PermitsConserved, OneAtTheDoor, AttemptsLeft, Holders
<1> QED
  BY <1>1, <1>2, <1>3, <1>4, <1>5, <1>6 DEF Next

LEMMA Invariant == Spec => []IInv
BY InitInv, StepInv, PTL DEF Spec
--------------------------------------------------------------------------------
(* The permits stay in their range, the attempts within UPSTREAM_RETRIES.  *)
THEOREM TypeCorrect == Spec => []TypeOK
<1>1. IInv => TypeOK
  BY DEF IInv
<1> QED
  BY <1>1, Invariant, PTL

(* On every way through handshake, attempts and relay a client takes one   *)
(* permit and gives it back.                                               *)
THEOREM PermitsAreConserved == Spec => []PermitsConserved
<1>1. IInv => PermitsConserved
  BY DEF IInv
<1> QED
  BY <1>1, Invariant, PTL

(* One client at most has left the kernel's queue and has no permit, and   *)
(* the loop waits exactly for it.                                          *)
THEOREM OneStandsAtTheDoor == Spec => []OneAtTheDoor
<1>1. IInv => OneAtTheDoor
  BY DEF IInv
<1> QED
  BY <1>1, Invariant, PTL
--------------------------------------------------------------------------------
(* How far a client has come on its way to the relay.                      *)
Progress(c) ==
  CASE at[c] = "queued" -> 0
    [] at[c] = "accepted" -> 1
    [] at[c] = "shaking" -> 2
    [] at[c] = "connecting" -> 2 * attempt[c] + 1
    [] at[c] = "pausing" -> 2 * attempt[c] + 2
    [] OTHER -> 2 * UpstreamRetries + 2

(* A client never goes round in circles: each move of its task leads on,   *)
(* to the relay or out, so that it is over after at most                   *)
(* 2 * UPSTREAM_RETRIES + 2 moves, whichever loop runs.  This is the safe  *)
(* part of OnlyRelaysBlock (bridge.rs:114-127, 207-225, 295-333).          *)
THEOREM ClientsLeadOn ==
  Spec =>
    /\ [](\A c \in Clients : Progress(c) \in 0 .. 2 * UpstreamRetries + 2)
    /\ [][\A c \in Clients :
            at'[c] # at[c] /\ at[c] # "outside" /\ at'[c] # "outside"
              => Progress(c)' > Progress(c)]_vars
<1>1. IInv => \A c \in Clients : Progress(c) \in 0 .. 2 * UpstreamRetries + 2
  <2> SUFFICES ASSUME IInv, NEW c \in Clients
               PROVE  Progress(c) \in 0 .. 2 * UpstreamRetries + 2
    OBVIOUS
  <2>1. /\ attempt[c] \in 0 .. UpstreamRetries /\ UpstreamRetries \in Nat \ {0}
        /\ at[c] = "pausing" => attempt[c] < UpstreamRetries
    BY BridgeAssumption DEF IInv, TypeOK, AttemptsLeft
  <2> QED
    BY <2>1 DEF Progress
<1>2. IInv /\ [Next]_vars =>
        [\A c \in Clients :
           at'[c] # at[c] /\ at[c] # "outside" /\ at'[c] # "outside"
             => Progress(c)' > Progress(c)]_vars
  <2> SUFFICES ASSUME IInv, Next, NEW c \in Clients,
                      at'[c] # at[c], at[c] # "outside", at'[c] # "outside"
               PROVE  Progress(c)' > Progress(c)
    BY DEF vars
  <2>1. PICK d \in Clients : Arrive(d) \/ Accept(d) \/ Acquire(d) \/ Task(d) \/ RelayEnds(d)
    BY DEF Next, CtrlC, AcceptFails, Stop, Shutdown
  <2>2. /\ at \in [Clients -> Places] /\ attempt \in [Clients -> 0 .. UpstreamRetries]
        /\ attempt[c] \in 0 .. UpstreamRetries /\ UpstreamRetries \in Nat \ {0}
    BY BridgeAssumption DEF IInv, TypeOK
  <2>3. c = d
    BY <2>1, <2>2
    DEF Arrive, Accept, Acquire, Task, HandshakeOk, HandshakeFails, UpstreamOk,
        UpstreamRetry, UpstreamFails, PauseOver, RelayEnds, Move
  <2>4. CASE Accept(c)
    BY <2>2, <2>4 DEF Accept, Move, Progress
  <2>5. CASE Acquire(c)
    <3>1. /\ at[c] = "accepted"
          /\ at'[c] = "shaking" \/ (at'[c] = "connecting" /\ attempt'[c] = 1)
      BY <2>2, <2>5 DEF Acquire, Move
    <3> QED
      BY <3>1 DEF Progress
  <2>6. CASE HandshakeOk(c)
    <3>1. at[c] = "shaking" /\ at'[c] = "connecting" /\ attempt'[c] = 1
      BY <2>2, <2>6 DEF HandshakeOk, Move
    <3> QED
      BY <3>1 DEF Progress
  <2>7. CASE UpstreamOk(c) \/ UpstreamRetry(c)
    <3>1. /\ at[c] = "connecting" /\ at'[c] \in {"relaying", "pausing"}
          /\ attempt'[c] = attempt[c]
      BY <2>2, <2>7 DEF UpstreamOk, UpstreamRetry, Move
    <3> QED
      BY <2>2, <3>1 DEF Progress
  <2>8. CASE PauseOver(c)
    <3>1. /\ at[c] = "pausing" /\ at'[c] = "connecting"
          /\ attempt'[c] = attempt[c] + 1
      BY <2>2, <2>8 DEF PauseOver, Move
    <3> QED
      BY <2>2, <3>1 DEF Progress
  <2>9. CASE Arrive(c) \/ HandshakeFails(c) \/ UpstreamFails(c) \/ RelayEnds(c)
    BY <2>2, <2>9 DEF Arrive, HandshakeFails, UpstreamFails, RelayEnds, Move
  <2> QED
    BY <2>1, <2>3, <2>4, <2>5, <2>6, <2>7, <2>8, <2>9 DEF Task
<1> QED
  BY <1>1, <1>2, Invariant, PTL DEF Spec
================================================================================
