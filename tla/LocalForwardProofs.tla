--------------------------- MODULE LocalForwardProofs ---------------------------
(***************************************************************************)
(* Proofs about LocalForward.tla, for every number of clients, sessions,   *)
(* permits and retries.                                                    *)
(***************************************************************************)
EXTENDS LocalForward, FiniteSetTheorems, TLAPS

(* The sessions the tasks hold are never newer than the one in the cell,   *)
(* and older than the one that is being set up.                            *)
NewerInv ==
  /\ cell # NoSession =>
       /\ cell < nextGen /\ fresh = NoSession
       /\ \A c \in Clients : session[c] <= cell
  /\ fresh # NoSession =>
       fresh < nextGen /\ \A c \in Clients : session[c] < fresh
  /\ \A c \in Clients : session[c] < nextGen

(* A task past its first wait holds a session and has begun an attempt; one *)
(* that is going to retry has seen its session replaced and has another    *)
(* attempt left.                                                           *)
TaskInv ==
  \A c \in Clients :
    /\ at[c] \in {"outside", "waiting"} => attempts[c] = 0
    /\ at[c] \in {"acquiring"} \cup Holding => session[c] # NoSession
    /\ at[c] \in {"pausing", "rewaiting"} =>
         cell # session[c] /\ attempts[c] < MaxRetries

IInv == TypeOK /\ PermitsConserved /\ NewerInv /\ TaskInv
--------------------------------------------------------------------------------
(***************************************************************************)
(* How a move of one task changes the numbers of those that hold permits.  *)
(***************************************************************************)
LEMMA MoveSets ==
  ASSUME TypeOK, NEW c \in Clients, NEW from, NEW to \in Places, Move(c, from, to)
  PROVE  /\ at' \in [Clients -> Places]
         /\ Waiters' = IF to = "waiting" THEN Waiters \cup {c} ELSE Waiters \ {c}
         /\ Holders' = IF to \in Holding THEN Holders \cup {c} ELSE Holders \ {c}
  BY DEF TypeOK, Move, Waiters, Holders, Places, Holding

LEMMA MoveCounts ==
  ASSUME TypeOK, NEW c \in Clients, NEW from, NEW to \in Places, Move(c, from, to)
  PROVE  /\ Cardinality(Waiters) \in Nat /\ Cardinality(Waiters') \in Nat
         /\ Cardinality(Holders) \in Nat /\ Cardinality(Holders') \in Nat
         /\ Cardinality(Waiters')
              = Cardinality(Waiters) - (IF from = "waiting" THEN 1 ELSE 0)
                                     + (IF to = "waiting" THEN 1 ELSE 0)
         /\ Cardinality(Holders')
              = Cardinality(Holders) - (IF from \in Holding THEN 1 ELSE 0)
                                     + (IF to \in Holding THEN 1 ELSE 0)
<1>1. IsFiniteSet(Waiters) /\ IsFiniteSet(Holders)
  BY LimitAssumption, FS_Subset DEF Waiters, Holders
<1>2. (c \in Waiters <=> from = "waiting") /\ (c \in Holders <=> from \in Holding)
  BY DEF Move, Waiters, Holders
<1>3. /\ Cardinality(Waiters) \in Nat /\ Cardinality(Holders) \in Nat
      /\ Cardinality(Waiters') \in Nat /\ Cardinality(Holders') \in Nat
  BY <1>1, MoveSets, FS_CardinalityType, FS_AddElement, FS_RemoveElement
<1>4. Cardinality(Waiters')
        = Cardinality(Waiters) - (IF from = "waiting" THEN 1 ELSE 0)
                               + (IF to = "waiting" THEN 1 ELSE 0)
  <2>1. CASE to = "waiting"
    BY <2>1, <1>1, <1>2, <1>3, MoveSets, FS_AddElement
  <2>2. CASE to # "waiting"
    BY <2>2, <1>1, <1>2, <1>3, MoveSets, FS_RemoveElement
  <2> QED
    BY <2>1, <2>2
<1>5. Cardinality(Holders')
        = Cardinality(Holders) - (IF from \in Holding THEN 1 ELSE 0)
                               + (IF to \in Holding THEN 1 ELSE 0)
  <2>1. CASE to \in Holding
    BY <2>1, <1>1, <1>2, <1>3, MoveSets, FS_AddElement
  <2>2. CASE to \notin Holding
    BY <2>2, <1>1, <1>2, <1>3, MoveSets, FS_RemoveElement
  <2> QED
    BY <2>1, <2>2
<1> QED
  BY <1>3, <1>4, <1>5
--------------------------------------------------------------------------------
(***************************************************************************)
(* The invariant.                                                          *)
(***************************************************************************)
LEMMA InitInv == Init => IInv
<1> SUFFICES ASSUME Init PROVE IInv
  OBVIOUS
<1> USE LimitAssumption, MaxGenAssumption DEF Init, CellInit, NoSession, Gens
<1>1. TypeOK
  <2>1. CellTypeOK
    BY DEF CellTypeOK, Status
  <2>2. /\ listener \in [Listeners -> {"binding", "bound", "failed"}]
        /\ at \in [Clients -> Places]
        /\ session \in [Clients -> Gens \cup {NoSession}]
        /\ attempts \in [Clients -> 0 .. MaxRetries]
    BY DEF Places, Holding
  <2>3. waitPermits \in 0 .. MaxWaiting /\ forwardPermits \in 0 .. MaxActive
    OBVIOUS
  <2> QED
    BY <2>1, <2>2, <2>3 DEF TypeOK
<1>2. PermitsConserved
  <2>1. Waiters = {} /\ Holders = {}
    BY DEF Waiters, Holders, Holding
  <2> QED
    BY <2>1, FS_EmptySet DEF PermitsConserved
<1>3. NewerInv /\ TaskInv
  BY DEF NewerInv, TaskInv, Holding
<1> QED
  BY <1>1, <1>2, <1>3 DEF IInv

(* Generations are handed out in order: what is established and published  *)
(* is newer than what the tasks hold.                                      *)
LEMMA CellStepNewer ==
  ASSUME TypeOK, NewerInv, CellNext, UNCHANGED clientVars
  PROVE  NewerInv'
<1>1. /\ cell \in Nat /\ fresh \in Nat /\ nextGen \in Nat \ {0}
      /\ \A c \in Clients : session[c] \in Nat
      /\ session' = session
  BY MaxGenAssumption DEF TypeOK, CellTypeOK, Gens, NoSession, clientVars
<1> USE <1>1 DEF NewerInv, NoSession
<1>2. ASSUME NEW n \in 1 .. (MaxGen + 1), Burn(n) PROVE NewerInv'
  <2>1. n \in Nat /\ n >= nextGen
    BY <1>2, MaxGenAssumption DEF Burn
  <2> QED
    BY <1>2, <2>1 DEF Burn
<1>3. ASSUME NEW g \in Gens, Establish(g) PROVE NewerInv'
  <2>1. g \in Nat /\ g >= nextGen
    BY <1>3, MaxGenAssumption DEF Establish, Gens
  <2> QED
    BY <1>3, <2>1 DEF Establish
<1>4. CASE Abandon \/ Withdraw
  BY <1>4 DEF Abandon, Withdraw
<1>5. CASE Publish
  BY <1>5 DEF Publish
<1>6. ASSUME NEW g \in Gens, Lose(g) \/ Close(g) PROVE NewerInv'
  BY <1>6 DEF Lose, Close
<1> QED
  BY <1>2, <1>3, <1>4, <1>5, <1>6 DEF CellNext

(* A step of the cell: permits are not touched, and the sessions the tasks *)
(* hold stay older than what is established and published.                 *)
LEMMA CellStepInv == IInv /\ CellNext /\ UNCHANGED clientVars => IInv'
<1> SUFFICES ASSUME IInv, CellNext, UNCHANGED clientVars PROVE IInv'
  OBVIOUS
<1> USE MaxGenAssumption DEF IInv, TypeOK, CellTypeOK, clientVars, Gens, NoSession, Status
<1>1. TypeOK'
  <2>1. /\ cell' \in Gens \cup {NoSession} /\ fresh' \in Gens \cup {NoSession}
        /\ nextGen' \in 1 .. (MaxGen + 1)
    BY DEF CellNext, Burn, Establish, Abandon, Publish, Withdraw, Lose, Close
  <2>2. status' \in [Gens -> Status]
    BY DEF CellNext, Burn, Establish, Abandon, Publish, Withdraw, Lose, Close
  <2> QED
    BY <2>1, <2>2
<1>2. PermitsConserved'
  BY DEF PermitsConserved, Waiters, Holders
<1>3. NewerInv'
  BY CellStepNewer
<1>4. TaskInv'
  BY DEF TaskInv, NewerInv, Holding,
         CellNext, Burn, Establish, Abandon, Publish, Withdraw, Lose, Close
<1> QED
  BY <1>1, <1>2, <1>3, <1>4

LEMMA BindInv ==
  ASSUME IInv, NEW l \in Listeners, Bind(l)
  PROVE  IInv'
  BY DEF IInv, TypeOK, CellTypeOK, PermitsConserved, NewerInv, TaskInv, Waiters,
         Holders, Bind, cellVars

(* A step of a task.                                                       *)
LEMMA ClientStepInv ==
  ASSUME IInv, NEW c \in Clients, ClientStep(c)
  PROVE  IInv'
<1> USE LimitAssumption
<1>a. TypeOK /\ PermitsConserved /\ NewerInv /\ TaskInv
  BY DEF IInv
<1>1. CASE Accept(c)
  <2>1. Move(c, "outside", "waiting")
    BY <1>1 DEF Accept
  <2>2. /\ at' \in [Clients -> Places]
        /\ Cardinality(Waiters) \in Nat /\ Cardinality(Holders) \in Nat
        /\ Cardinality(Waiters') \in Nat /\ Cardinality(Holders') \in Nat
        /\ Cardinality(Waiters') = Cardinality(Waiters) + 1
        /\ Cardinality(Holders') = Cardinality(Holders)
    BY <1>a, <2>1, MoveSets, MoveCounts DEF Places, Holding
  <2>3. PermitsConserved'
    BY <1>a, <1>1, <2>2 DEF Accept, PermitsConserved, TypeOK
  <2>4. TypeOK'
    BY <1>a, <1>1, <2>1, <2>2, <2>3
    DEF Accept, Move, TypeOK, CellTypeOK, TaskInv, PermitsConserved, NoSession,
        cellVars
  <2>5. NewerInv'
    BY <1>a, <1>1 DEF Accept, TypeOK, CellTypeOK, NewerInv, NoSession, Gens, cellVars
  <2>6. TaskInv'
    BY <1>a, <1>1, <2>1
    DEF Accept, Move, TypeOK, CellTypeOK, NewerInv, TaskInv, Holding, NoSession,
        Gens, cellVars
  <2> QED
    BY <2>3, <2>4, <2>5, <2>6 DEF IInv
<1>2. CASE SessionReady(c)
  <2>1. Move(c, "waiting", "acquiring")
    BY <1>2 DEF SessionReady
  <2>2. /\ at' \in [Clients -> Places]
        /\ Cardinality(Waiters) \in Nat /\ Cardinality(Holders) \in Nat
        /\ Cardinality(Waiters') \in Nat /\ Cardinality(Holders') \in Nat
        /\ Cardinality(Waiters') = Cardinality(Waiters) - 1
        /\ Cardinality(Holders') = Cardinality(Holders)
    BY <1>a, <2>1, MoveSets, MoveCounts DEF Places, Holding
  <2>3. PermitsConserved'
    BY <1>a, <1>2, <2>2 DEF SessionReady, PermitsConserved, TypeOK
  <2>4. TypeOK'
    BY <1>a, <1>2, <2>1, <2>2, <2>3
    DEF SessionReady, Move, TypeOK, CellTypeOK, TaskInv, PermitsConserved, NoSession,
        cellVars
  <2>5. NewerInv'
    BY <1>a, <1>2 DEF SessionReady, TypeOK, CellTypeOK, NewerInv, NoSession, Gens, cellVars
  <2>6. TaskInv'
    BY <1>a, <1>2, <2>1
    DEF SessionReady, Move, TypeOK, CellTypeOK, NewerInv, TaskInv, Holding, NoSession,
        Gens, cellVars
  <2> QED
    BY <2>3, <2>4, <2>5, <2>6 DEF IInv
<1>3. CASE WaitTimeout(c)
  <2>1. Move(c, "waiting", "outside")
    BY <1>3 DEF WaitTimeout
  <2>2. /\ at' \in [Clients -> Places]
        /\ Cardinality(Waiters) \in Nat /\ Cardinality(Holders) \in Nat
        /\ Cardinality(Waiters') \in Nat /\ Cardinality(Holders') \in Nat
        /\ Cardinality(Waiters') = Cardinality(Waiters) - 1
        /\ Cardinality(Holders') = Cardinality(Holders)
    BY <1>a, <2>1, MoveSets, MoveCounts DEF Places, Holding
  <2>3. PermitsConserved'
    BY <1>a, <1>3, <2>2 DEF WaitTimeout, PermitsConserved, TypeOK
  <2>4. TypeOK'
    BY <1>a, <1>3, <2>1, <2>2, <2>3
    DEF WaitTimeout, Move, TypeOK, CellTypeOK, TaskInv, PermitsConserved, NoSession,
        cellVars
  <2>5. NewerInv'
    BY <1>a, <1>3 DEF WaitTimeout, TypeOK, CellTypeOK, NewerInv, NoSession, Gens, cellVars
  <2>6. TaskInv'
    BY <1>a, <1>3, <2>1
    DEF WaitTimeout, Move, TypeOK, CellTypeOK, NewerInv, TaskInv, Holding, NoSession,
        Gens, cellVars
  <2> QED
    BY <2>3, <2>4, <2>5, <2>6 DEF IInv
<1>4. CASE Acquire(c)
  <2>1. Move(c, "acquiring", "opening")
    BY <1>4 DEF Acquire
  <2>2. /\ at' \in [Clients -> Places]
        /\ Cardinality(Waiters) \in Nat /\ Cardinality(Holders) \in Nat
        /\ Cardinality(Waiters') \in Nat /\ Cardinality(Holders') \in Nat
        /\ Cardinality(Waiters') = Cardinality(Waiters)
        /\ Cardinality(Holders') = Cardinality(Holders) + 1
    BY <1>a, <2>1, MoveSets, MoveCounts DEF Places, Holding
  <2>3. PermitsConserved'
    BY <1>a, <1>4, <2>2 DEF Acquire, PermitsConserved, TypeOK
  <2>4. TypeOK'
    BY <1>a, <1>4, <2>1, <2>2, <2>3
    DEF Acquire, Move, TypeOK, CellTypeOK, TaskInv, PermitsConserved, NoSession,
        cellVars
  <2>5. NewerInv'
    BY <1>a, <1>4 DEF Acquire, TypeOK, CellTypeOK, NewerInv, NoSession, Gens, cellVars
  <2>6. TaskInv'
    BY <1>a, <1>4, <2>1
    DEF Acquire, Move, TypeOK, CellTypeOK, NewerInv, TaskInv, Holding, NoSession,
        Gens, cellVars
  <2> QED
    BY <2>3, <2>4, <2>5, <2>6 DEF IInv
<1>5. CASE Open(c)
  <2>1. \/ Move(c, "opening", "copying")
        \/ Move(c, "opening", "refused")
        \/ Move(c, "opening", "broken")
    BY <1>5 DEF Open
  <2>2. /\ at' \in [Clients -> Places]
        /\ Cardinality(Waiters) \in Nat /\ Cardinality(Holders) \in Nat
        /\ Cardinality(Waiters') \in Nat /\ Cardinality(Holders') \in Nat
        /\ Cardinality(Waiters') = Cardinality(Waiters)
        /\ Cardinality(Holders') = Cardinality(Holders)
    BY <1>a, <2>1, MoveSets, MoveCounts DEF Places, Holding
  <2>3. PermitsConserved'
    BY <1>a, <1>5, <2>2 DEF Open, PermitsConserved, TypeOK
  <2>4. TypeOK'
    BY <1>a, <1>5, <2>1, <2>2, <2>3
    DEF Open, Move, TypeOK, CellTypeOK, TaskInv, PermitsConserved, NoSession,
        cellVars
  <2>5. NewerInv'
    BY <1>a, <1>5 DEF Open, TypeOK, CellTypeOK, NewerInv, NoSession, Gens, cellVars
  <2>6. TaskInv'
    BY <1>a, <1>5, <2>1
    DEF Open, Move, TypeOK, CellTypeOK, NewerInv, TaskInv, Holding, NoSession,
        Gens, cellVars
  <2> QED
    BY <2>3, <2>4, <2>5, <2>6 DEF IInv
<1>6. CASE Drop(c)
  <2>1. Move(c, "refused", "outside") \/ Move(c, "broken", "outside")
    BY <1>6 DEF Drop
  <2>2. /\ at' \in [Clients -> Places]
        /\ Cardinality(Waiters) \in Nat /\ Cardinality(Holders) \in Nat
        /\ Cardinality(Waiters') \in Nat /\ Cardinality(Holders') \in Nat
        /\ Cardinality(Waiters') = Cardinality(Waiters)
        /\ Cardinality(Holders') = Cardinality(Holders) - 1
    BY <1>a, <2>1, MoveSets, MoveCounts DEF Places, Holding
  <2>3. PermitsConserved'
    BY <1>a, <1>6, <2>2 DEF Drop, Leave, PermitsConserved, TypeOK
  <2>4. TypeOK'
    BY <1>a, <1>6, <2>1, <2>2, <2>3
    DEF Drop, Leave, Move, TypeOK, CellTypeOK, TaskInv, PermitsConserved, NoSession,
        cellVars
  <2>5. NewerInv'
    BY <1>a, <1>6 DEF Drop, Leave, TypeOK, CellTypeOK, NewerInv, NoSession, Gens, cellVars
  <2>6. TaskInv'
    BY <1>a, <1>6, <2>1
    DEF Drop, Leave, Move, TypeOK, CellTypeOK, NewerInv, TaskInv, Holding, NoSession,
        Gens, cellVars
  <2> QED
    BY <2>3, <2>4, <2>5, <2>6 DEF IInv
<1>7. CASE Retry(c)
  <2>1. Move(c, "refused", "pausing") \/ Move(c, "broken", "pausing")
    BY <1>7 DEF Retry
  <2>2. /\ at' \in [Clients -> Places]
        /\ Cardinality(Waiters) \in Nat /\ Cardinality(Holders) \in Nat
        /\ Cardinality(Waiters') \in Nat /\ Cardinality(Holders') \in Nat
        /\ Cardinality(Waiters') = Cardinality(Waiters)
        /\ Cardinality(Holders') = Cardinality(Holders)
    BY <1>a, <2>1, MoveSets, MoveCounts DEF Places, Holding
  <2>3. PermitsConserved'
    BY <1>a, <1>7, <2>2 DEF Retry, SessionGone, PermitsConserved, TypeOK
  <2>4. TypeOK'
    BY <1>a, <1>7, <2>1, <2>2, <2>3
    DEF Retry, SessionGone, Move, TypeOK, CellTypeOK, TaskInv, PermitsConserved, NoSession,
        cellVars
  <2>5. NewerInv'
    BY <1>a, <1>7 DEF Retry, SessionGone, TypeOK, CellTypeOK, NewerInv, NoSession, Gens, cellVars
  <2>6. TaskInv'
    BY <1>a, <1>7, <2>1
    DEF Retry, SessionGone, Move, TypeOK, CellTypeOK, NewerInv, TaskInv, Holding, NoSession,
        Gens, cellVars
  <2> QED
    BY <2>3, <2>4, <2>5, <2>6 DEF IInv
<1>8. CASE PauseOver(c)
  <2>1. Move(c, "pausing", "rewaiting")
    BY <1>8 DEF PauseOver
  <2>2. /\ at' \in [Clients -> Places]
        /\ Cardinality(Waiters) \in Nat /\ Cardinality(Holders) \in Nat
        /\ Cardinality(Waiters') \in Nat /\ Cardinality(Holders') \in Nat
        /\ Cardinality(Waiters') = Cardinality(Waiters)
        /\ Cardinality(Holders') = Cardinality(Holders)
    BY <1>a, <2>1, MoveSets, MoveCounts DEF Places, Holding
  <2>3. PermitsConserved'
    BY <1>a, <1>8, <2>2 DEF PauseOver, PermitsConserved, TypeOK
  <2>4. TypeOK'
    BY <1>a, <1>8, <2>1, <2>2, <2>3
    DEF PauseOver, Move, TypeOK, CellTypeOK, TaskInv, PermitsConserved, NoSession,
        cellVars
  <2>5. NewerInv'
    BY <1>a, <1>8 DEF PauseOver, TypeOK, CellTypeOK, NewerInv, NoSession, Gens, cellVars
  <2>6. TaskInv'
    BY <1>a, <1>8, <2>1
    DEF PauseOver, Move, TypeOK, CellTypeOK, NewerInv, TaskInv, Holding, NoSession,
        Gens, cellVars
  <2> QED
    BY <2>3, <2>4, <2>5, <2>6 DEF IInv
<1>9. CASE SessionAgain(c)
  <2>1. Move(c, "rewaiting", "acquiring")
    BY <1>9 DEF SessionAgain
  <2>2. /\ at' \in [Clients -> Places]
        /\ Cardinality(Waiters) \in Nat /\ Cardinality(Holders) \in Nat
        /\ Cardinality(Waiters') \in Nat /\ Cardinality(Holders') \in Nat
        /\ Cardinality(Waiters') = Cardinality(Waiters)
        /\ Cardinality(Holders') = Cardinality(Holders) - 1
    BY <1>a, <2>1, MoveSets, MoveCounts DEF Places, Holding
  <2>3. PermitsConserved'
    BY <1>a, <1>9, <2>2 DEF SessionAgain, PermitsConserved, TypeOK
  <2>4. TypeOK'
    BY <1>a, <1>9, <2>1, <2>2, <2>3
    DEF SessionAgain, Move, TypeOK, CellTypeOK, TaskInv, PermitsConserved, NoSession,
        cellVars
  <2>5. NewerInv'
    BY <1>a, <1>9 DEF SessionAgain, TypeOK, CellTypeOK, NewerInv, NoSession, Gens, cellVars
  <2>6. TaskInv'
    BY <1>a, <1>9, <2>1
    DEF SessionAgain, Move, TypeOK, CellTypeOK, NewerInv, TaskInv, Holding, NoSession,
        Gens, cellVars
  <2> QED
    BY <2>3, <2>4, <2>5, <2>6 DEF IInv
<1>10. CASE RewaitTimeout(c)
  <2>1. Move(c, "rewaiting", "outside")
    BY <1>10 DEF RewaitTimeout
  <2>2. /\ at' \in [Clients -> Places]
        /\ Cardinality(Waiters) \in Nat /\ Cardinality(Holders) \in Nat
        /\ Cardinality(Waiters') \in Nat /\ Cardinality(Holders') \in Nat
        /\ Cardinality(Waiters') = Cardinality(Waiters)
        /\ Cardinality(Holders') = Cardinality(Holders) - 1
    BY <1>a, <2>1, MoveSets, MoveCounts DEF Places, Holding
  <2>3. PermitsConserved'
    BY <1>a, <1>10, <2>2 DEF RewaitTimeout, Leave, PermitsConserved, TypeOK
  <2>4. TypeOK'
    BY <1>a, <1>10, <2>1, <2>2, <2>3
    DEF RewaitTimeout, Leave, Move, TypeOK, CellTypeOK, TaskInv, PermitsConserved, NoSession,
        cellVars
  <2>5. NewerInv'
    BY <1>a, <1>10 DEF RewaitTimeout, Leave, TypeOK, CellTypeOK, NewerInv, NoSession, Gens, cellVars
  <2>6. TaskInv'
    BY <1>a, <1>10, <2>1
    DEF RewaitTimeout, Leave, Move, TypeOK, CellTypeOK, NewerInv, TaskInv, Holding, NoSession,
        Gens, cellVars
  <2> QED
    BY <2>3, <2>4, <2>5, <2>6 DEF IInv
<1>11. CASE CopyEnds(c)
  <2>1. Move(c, "copying", "outside")
    BY <1>11 DEF CopyEnds
  <2>2. /\ at' \in [Clients -> Places]
        /\ Cardinality(Waiters) \in Nat /\ Cardinality(Holders) \in Nat
        /\ Cardinality(Waiters') \in Nat /\ Cardinality(Holders') \in Nat
        /\ Cardinality(Waiters') = Cardinality(Waiters)
        /\ Cardinality(Holders') = Cardinality(Holders) - 1
    BY <1>a, <2>1, MoveSets, MoveCounts DEF Places, Holding
  <2>3. PermitsConserved'
    BY <1>a, <1>11, <2>2 DEF CopyEnds, Leave, PermitsConserved, TypeOK
  <2>4. TypeOK'
    BY <1>a, <1>11, <2>1, <2>2, <2>3
    DEF CopyEnds, Leave, Move, TypeOK, CellTypeOK, TaskInv, PermitsConserved, NoSession,
        cellVars
  <2>5. NewerInv'
    BY <1>a, <1>11 DEF CopyEnds, Leave, TypeOK, CellTypeOK, NewerInv, NoSession, Gens, cellVars
  <2>6. TaskInv'
    BY <1>a, <1>11, <2>1
    DEF CopyEnds, Leave, Move, TypeOK, CellTypeOK, NewerInv, TaskInv, Holding, NoSession,
        Gens, cellVars
  <2> QED
    BY <2>3, <2>4, <2>5, <2>6 DEF IInv
<1> QED
  BY <1>1, <1>2, <1>3, <1>4, <1>5, <1>6, <1>7, <1>8, <1>9, <1>10, <1>11 DEF ClientStep

LEMMA NextInv == IInv /\ [Next]_vars => IInv'
<1> SUFFICES ASSUME IInv, [Next]_vars PROVE IInv'
  OBVIOUS
<1>1. CASE UNCHANGED vars
  BY <1>1
  DEF IInv, TypeOK, CellTypeOK, PermitsConserved, NewerInv, TaskInv, Waiters,
      Holders, vars
<1> QED
  BY <1>1, CellStepInv, BindInv, ClientStepInv DEF Next, LocalNext

LEMMA Invariance == Spec => []IInv
  BY InitInv, NextInv, PTL DEF Spec
--------------------------------------------------------------------------------
(* Type correctness: neither a semaphore nor the attempts leave their      *)
(* range.                                                                  *)
THEOREM TypeCorrect == Spec => []TypeOK
<1>1. IInv => TypeOK
  BY DEF IInv
<1> QED
  BY <1>1, Invariance, PTL

(* No path through a task loses a permit or returns it twice.              *)
THEOREM PermitsAreConserved == Spec => []PermitsConserved
<1>1. IInv => PermitsConserved
  BY DEF IInv
<1> QED
  BY <1>1, Invariance, PTL

(* A task that is going to retry never finds the session it failed on.     *)
THEOREM RetriesAreJustified == Spec => []RetriesOnlyWhenReplaced
<1>1. IInv => RetriesOnlyWhenReplaced
  BY DEF IInv, TaskInv, RetriesOnlyWhenReplaced
<1> QED
  BY <1>1, Invariance, PTL

(* A retry is made on a newer session than the attempt that failed.        *)
THEOREM RetriesAdvance == Spec => RetryUsesNewerSession
<1>1. IInv /\ [Next]_vars =>
        [\A c \in Clients :
           at[c] = "rewaiting" /\ at'[c] = "acquiring" => session'[c] > session[c]]_vars
  <2> SUFFICES ASSUME IInv, Next, NEW c \in Clients,
                      at[c] = "rewaiting", at'[c] = "acquiring"
               PROVE  session'[c] > session[c]
    BY DEF vars
  <2>1. PICK d \in Clients : ClientStep(d)
    BY DEF Next, LocalNext, Bind, clientVars, IInv, TypeOK
  <2>2. d = c /\ SessionAgain(c)
    BY <2>1
    DEF ClientStep, Accept, SessionReady, WaitTimeout, Acquire, Open, Drop, Retry,
        PauseOver, SessionAgain, RewaitTimeout, CopyEnds, Move, IInv, TypeOK
  <2>3. /\ cell # NoSession /\ session'[c] = cell /\ cell # session[c]
        /\ cell \in Nat /\ session[c] \in Nat /\ session[c] <= cell
    BY <2>2
    DEF SessionAgain, IInv, TypeOK, CellTypeOK, NewerInv, TaskInv, Gens, NoSession
  <2> QED
    BY <2>3
<1> QED
  BY <1>1, Invariance, PTL DEF Spec, RetryUsesNewerSession
--------------------------------------------------------------------------------
(***************************************************************************)
(* How far a task has come: the attempt it is in, and its place in that    *)
(* attempt.                                                                *)
(***************************************************************************)
Stage(place) ==
  CASE place = "waiting" -> 0
    [] place = "acquiring" -> 1
    [] place = "opening" -> 2
    [] place \in {"copying", "refused", "broken"} -> 3
    [] place = "pausing" -> 4
    [] OTHER -> 5

Progress(c) == 6 * attempts[c] + Stage(at[c])

(* A task never goes round in circles: each of its moves leads on until it *)
(* ends, so that it ends after at most 6 * MaxRetries + 5 of them, however *)
(* sessions come and go.  This is the safe part of OnlyCopiesBlock         *)
(* (tunnel.rs:429-496).                                                    *)
THEOREM TasksLeadOn ==
  Spec => /\ [](\A c \in Clients : Progress(c) \in 0 .. 6 * MaxRetries + 5)
          /\ [][\A c \in Clients :
                  at'[c] # at[c] /\ at[c] # "outside" /\ at'[c] # "outside"
                    => Progress(c)' > Progress(c)]_vars
<1>1. IInv => \A c \in Clients : Progress(c) \in 0 .. 6 * MaxRetries + 5
  <2> SUFFICES ASSUME IInv, NEW c \in Clients PROVE Progress(c) \in 0 .. 6 * MaxRetries + 5
    OBVIOUS
  <2>1. attempts[c] \in 0 .. MaxRetries /\ Stage(at[c]) \in 0 .. 5 /\ MaxRetries \in Nat
    BY LimitAssumption DEF IInv, TypeOK, Stage
  <2> QED
    BY <2>1 DEF Progress
<1>2. IInv /\ [Next]_vars =>
        [\A c \in Clients :
           at'[c] # at[c] /\ at[c] # "outside" /\ at'[c] # "outside"
             => Progress(c)' > Progress(c)]_vars
  <2> SUFFICES ASSUME IInv, Next, NEW c \in Clients,
                      at'[c] # at[c], at[c] # "outside", at'[c] # "outside"
               PROVE  Progress(c)' > Progress(c)
    BY DEF vars
  <2>1. PICK d \in Clients : ClientStep(d)
    BY DEF Next, LocalNext, Bind, clientVars, IInv, TypeOK
  <2>2. /\ attempts[c] \in Nat /\ at \in [Clients -> Places]
        /\ attempts \in [Clients -> 0 .. MaxRetries]
    BY LimitAssumption DEF IInv, TypeOK
  <2>3. CASE SessionReady(d)
    <3>1. /\ c = d /\ at[c] = "waiting" /\ at'[c] = "acquiring"
          /\ attempts'[c] = 1
      BY <2>2, <2>3 DEF SessionReady, Move
    <3>2. attempts[c] = 0
      BY <3>1 DEF IInv, TaskInv
    <3> QED
      BY <3>1, <3>2 DEF Progress, Stage
  <2>4. CASE SessionAgain(d)
    <3>1. /\ c = d /\ at[c] = "rewaiting" /\ at'[c] = "acquiring"
          /\ attempts'[c] = attempts[c] + 1
      BY <2>2, <2>4 DEF SessionAgain, Move
    <3> QED
      BY <2>2, <3>1 DEF Progress, Stage
  <2>5. CASE Acquire(d) \/ Open(d) \/ Retry(d) \/ PauseOver(d)
    <3>1. c = d /\ attempts' = attempts
      BY <2>2, <2>5 DEF Acquire, Open, Retry, PauseOver, Move
    <3>2. Stage(at'[c]) > Stage(at[c]) /\ Stage(at'[c]) \in Nat /\ Stage(at[c]) \in Nat
      BY <2>2, <2>5, <3>1 DEF Acquire, Open, Retry, PauseOver, Move, Stage
    <3> QED
      BY <2>2, <3>1, <3>2 DEF Progress
  <2>6. CASE Accept(d) \/ WaitTimeout(d) \/ Drop(d) \/ RewaitTimeout(d) \/ CopyEnds(d)
    BY <2>2, <2>6 DEF Accept, WaitTimeout, Drop, RewaitTimeout, CopyEnds, Move
  <2> QED
    BY <2>1, <2>3, <2>4, <2>5, <2>6 DEF ClientStep
<1> QED
  BY <1>1, <1>2, Invariance, PTL DEF Spec
================================================================================
