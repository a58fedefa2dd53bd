------------------------------ MODULE TunnelProofs ------------------------------
(***************************************************************************)
(* Proofs about Tunnel.tla, for every number of sessions, hops, clients,   *)
(* permits and retries.  What SupervisorProofs and LocalForwardProofs      *)
(* establish of the two parts is cited here, not proved again: every step  *)
(* of the whole is a step of the supervisor or leaves it alone, and so it  *)
(* is for the local forwards.                                              *)
(***************************************************************************)
EXTENDS Tunnel, TLAPS

SP == INSTANCE SupervisorProofs
LP == INSTANCE LocalForwardProofs

(* The assumptions of the parts.                                           *)
LEMMA PartAssumptions ==
  SP!SupervisorAssumption /\ LP!MaxGenAssumption /\ LP!LimitAssumption
<1>1. SP!SupervisorAssumption /\ LP!MaxGenAssumption
  BY TunnelAssumption DEF SP!SupervisorAssumption, LP!MaxGenAssumption
<1>2. LP!LimitAssumption
  BY TunnelAssumption DEF LP!LimitAssumption, LP!IsFiniteSet, IsFiniteSet
<1> QED
  BY <1>1, <1>2
--------------------------------------------------------------------------------
(***************************************************************************)
(* The supervisor is S in Tunnel and SP here: one machine under two names. *)
(***************************************************************************)
LEMMA SupervisorInit == S!Init => SP!Init
  BY DEF S!Init, SP!Init, S!FirstDelay, SP!FirstDelay, S!NoSession, SP!NoSession,
         S!Gens, SP!Gens

LEMMA SupervisorRun == S!Run => SP!Run
<1> USE DEF S!Return, SP!Return, S!Renewable, SP!Renewable, S!cellVars, SP!cellVars,
            S!NoSession, SP!NoSession, S!FirstDelay, SP!FirstDelay,
            S!Attempting, SP!Attempting
<1>1. S!ConnectOk => SP!ConnectOk
  BY Zenon DEF S!ConnectOk, SP!ConnectOk
<1>2. S!ConnectFail => SP!ConnectFail
  BY Zenon DEF S!ConnectFail, SP!ConnectFail
<1>3. S!SetupOk => SP!SetupOk
  BY Zenon DEF S!SetupOk, SP!SetupOk
<1>4. S!SetupFail => SP!SetupFail
  BY Zenon DEF S!SetupFail, SP!SetupFail
<1>5. S!PingFails => SP!PingFails
  BY Zenon DEF S!PingFails, SP!PingFails
<1>6. S!SessionDead => SP!SessionDead
  BY Zenon DEF S!SessionDead, SP!SessionDead
<1>7. S!Stop => SP!Stop
  BY Zenon DEF S!Stop, SP!Stop
<1>8. S!Disconnect => SP!Disconnect
  BY Zenon DEF S!Disconnect, SP!Disconnect
<1>9. S!Interrupt => SP!Interrupt
  BY Zenon DEF S!Interrupt, SP!Interrupt
<1>10. S!Conclude => SP!Conclude
  BY Zenon DEF S!Conclude, SP!Conclude, S!GiveUp, SP!GiveUp
<1>11. S!Wake => SP!Wake
  BY Zenon DEF S!Wake, SP!Wake, S!DoubleDelay, SP!DoubleDelay, S!MaxDelay, SP!MaxDelay
<1>12. S!InterruptSleep => SP!InterruptSleep
  BY Zenon DEF S!InterruptSleep, SP!InterruptSleep
<1> QED
  BY <1>1, <1>2, <1>3, <1>4, <1>5, <1>6, <1>7, <1>8, <1>9, <1>10, <1>11, <1>12
  DEF S!Run, SP!Run

LEMMA SupervisorEnvironment == S!Environment => SP!Environment
<1> USE DEF S!Renewable, SP!Renewable, S!cellVars, SP!cellVars, S!ctlVars, SP!ctlVars,
            S!Attempting, SP!Attempting, S!NoSession, SP!NoSession
<1>1. S!CtrlC => SP!CtrlC
  BY Zenon DEF S!CtrlC, SP!CtrlC, S!Listening, SP!Listening
<1>2. S!TenSeconds => SP!TenSeconds
  BY Zenon DEF S!TenSeconds, SP!TenSeconds
<1>3. S!GoSilent => SP!GoSilent
  BY Zenon DEF S!GoSilent, SP!GoSilent
<1>4. ASSUME NEW g PROVE (S!Lose(g) => SP!Lose(g)) /\ (S!Close(g) => SP!Close(g))
  BY Zenon DEF S!Lose, SP!Lose, S!Close, SP!Close
<1> QED
  BY <1>1, <1>2, <1>3, <1>4, Zenon
  DEF S!Environment, SP!Environment, S!Gens, SP!Gens

(* Every step of the whole is one of the supervisor, or it leaves it as it *)
(* is.                                                                     *)
LEMMA StepOfSupervisor == [Next]_vars => [SP!Next]_(SP!vars)
<1>1. Supervise => SP!Next
  BY SupervisorRun, SupervisorEnvironment DEF Supervise, S!Next, SP!Next
<1>2. Forward => UNCHANGED SP!vars
  <2>1. LF!LocalNext => UNCHANGED cellVars
    BY DEF LF!LocalNext, LF!Bind, LF!ClientStep, LF!Accept, LF!SessionReady,
           LF!WaitTimeout, LF!Acquire, LF!Open, LF!Drop, LF!Retry, LF!PauseOver,
           LF!SessionAgain, LF!RewaitTimeout, LF!CopyEnds, LF!Leave, LF!cellVars,
           cellVars
  <2> QED
    BY <2>1 DEF Forward, ctlVars, cellVars, SP!vars
<1>3. UNCHANGED vars => UNCHANGED SP!vars
  BY DEF vars, ctlVars, cellVars, SP!vars
<1> QED
  BY <1>1, <1>2, <1>3 DEF Next

LEMMA SupervisorInvariance == Spec => []SP!IInv
<1>1. Init => SP!IInv
  BY SP!InitInv, PartAssumptions, SupervisorInit DEF Init
<1>2. SP!IInv /\ [Next]_vars => SP!IInv'
  BY SP!NextInv, PartAssumptions, StepOfSupervisor
<1> QED
  BY <1>1, <1>2, PTL DEF Spec
--------------------------------------------------------------------------------
(***************************************************************************)
(* The composition implements LocalForward.tla.                            *)
(***************************************************************************)
(* The cell SupervisorProofs refines is the one LocalForward extends.      *)
LEMMA CellStep == [SP!SC!CellNext]_(SP!SC!cellVars) => [LF!CellNext]_(LF!cellVars)
<1> USE DEF SP!SC!NoSession, LF!NoSession, SP!SC!Gens, LF!Gens
<1>1. UNCHANGED SP!SC!cellVars => UNCHANGED LF!cellVars
  BY DEF SP!SC!cellVars, LF!cellVars
<1>2. ASSUME NEW n PROVE SP!SC!Burn(n) => LF!Burn(n)
  BY Zenon DEF SP!SC!Burn, LF!Burn
<1>3. ASSUME NEW g
      PROVE  /\ SP!SC!Establish(g) => LF!Establish(g)
             /\ SP!SC!Lose(g) => LF!Lose(g)
             /\ SP!SC!Close(g) => LF!Close(g)
  BY Zenon DEF SP!SC!Establish, LF!Establish, SP!SC!Lose, LF!Lose, SP!SC!Close,
               LF!Close
<1>4. /\ SP!SC!Abandon => LF!Abandon
      /\ SP!SC!Publish => LF!Publish
      /\ SP!SC!Withdraw => LF!Withdraw
  BY Zenon DEF SP!SC!Abandon, LF!Abandon, SP!SC!Publish, LF!Publish,
               SP!SC!Withdraw, LF!Withdraw
<1>5. SP!SC!CellNext => LF!CellNext
  BY <1>2, <1>3, <1>4, Zenon DEF SP!SC!CellNext, LF!CellNext
<1> QED
  BY <1>1, <1>5

(* A step of the supervisor is a step of the cell; a step of a forward is  *)
(* one of LocalForward as it stands.                                       *)
LEMMA StepOfForwards == SP!IInv /\ [Next]_vars => [LF!Next]_(LF!vars)
<1> SUFFICES ASSUME SP!IInv, [Next]_vars PROVE LF!Next \/ UNCHANGED LF!vars
  OBVIOUS
<1>1. CASE Supervise
  <2>1. LF!CellNext \/ UNCHANGED LF!cellVars
    BY <1>1, StepOfSupervisor, CellStep, SP!NextRefines, PartAssumptions
  <2>2. UNCHANGED LF!clientVars
    BY <1>1 DEF Supervise, clientVars, LF!clientVars
  <2> QED
    BY <2>1, <2>2 DEF LF!Next, LF!vars, LF!cellVars, LF!clientVars
<1>2. CASE Forward
  BY <1>2 DEF Forward, LF!Next
<1>3. CASE UNCHANGED vars
  BY <1>3 DEF vars, cellVars, clientVars, LF!vars
<1> QED
  BY <1>1, <1>2, <1>3 DEF Next

(* The sessions the supervisor hands out are what LocalForward.tla assumes *)
(* them to be: whatever holds of its behaviours holds of the program.      *)
THEOREM ForwardsAreImplemented == Spec => ImplementsLocalForward
<1>1. Init => LF!Init
  BY DEF Init
<1> QED
  BY <1>1, StepOfForwards, SupervisorInvariance, PTL
  DEF Spec, ImplementsLocalForward, LF!Spec
--------------------------------------------------------------------------------
(***************************************************************************)
(* A client holds a session that was established, and once another one or  *)
(* none is published, its own no longer works.                             *)
(***************************************************************************)
HeldInv ==
  \A c \in Clients :
    session[c] # LF!NoSession =>
      /\ session[c] \in LF!Gens
      /\ status[session[c]] # "none"
      /\ status[session[c]] = "up" => session[c] = cell

LEMMA HeldThroughSupervise ==
  ASSUME SP!IInv, HeldInv, session \in [Clients -> Nat], SP!Next, session' = session
  PROVE  HeldInv'
<1> USE TunnelAssumption
    DEF SP!IInv, SP!TypeOK, SP!StatusInv, SP!CellInv, SP!FreshInv, HeldInv,
        SP!Gens, LF!Gens, SP!NoSession, LF!NoSession, SP!Status, SP!cellVars
<1>1. CASE SP!ConnectOk
  BY <1>1 DEF SP!ConnectOk, SP!Renewable
<1>2. CASE SP!SetupOk
  BY <1>2 DEF SP!SetupOk
<1>3. CASE SP!SetupFail
  BY <1>3 DEF SP!SetupFail
<1>4. CASE SP!Disconnect
  BY <1>4 DEF SP!Disconnect
<1>5. CASE SP!Conclude
  BY <1>5 DEF SP!Conclude
<1>6. ASSUME NEW g \in SP!Gens, SP!Lose(g) \/ SP!Close(g) PROVE HeldInv'
  BY <1>6 DEF SP!Lose, SP!Close
<1>7. CASE \/ SP!ConnectFail \/ SP!PingFails \/ SP!SessionDead \/ SP!Stop
           \/ SP!Interrupt \/ SP!Wake \/ SP!InterruptSleep
           \/ SP!CtrlC \/ SP!TenSeconds \/ SP!GoSilent
  <2>1. cell' = cell /\ status' = status
    BY <1>7
    DEF SP!ConnectFail, SP!PingFails, SP!SessionDead, SP!Stop, SP!Interrupt,
        SP!Wake, SP!InterruptSleep, SP!CtrlC, SP!TenSeconds, SP!GoSilent
  <2> QED
    BY <2>1
<1> QED
  BY <1>1, <1>2, <1>3, <1>4, <1>5, <1>6, <1>7 DEF SP!Next, SP!Run, SP!Environment

LEMMA HeldThroughForward ==
  ASSUME SP!IInv, HeldInv, session \in [Clients -> Nat], Forward
  PROVE  HeldInv' /\ session' \in [Clients -> Nat]
<1> USE TunnelAssumption
    DEF SP!IInv, SP!TypeOK, SP!CellInv, HeldInv, SP!Gens, LF!Gens, SP!NoSession,
        LF!NoSession
<1>1. cell' = cell /\ status' = status
  BY DEF Forward, LF!LocalNext, LF!Bind, LF!ClientStep, LF!Accept, LF!SessionReady,
         LF!WaitTimeout, LF!Acquire, LF!Open, LF!Drop, LF!Retry, LF!PauseOver,
         LF!SessionAgain, LF!RewaitTimeout, LF!CopyEnds, LF!Leave, LF!cellVars
<1>2. \/ session' = session
      \/ \E c \in Clients : session' = [session EXCEPT ![c] = LF!NoSession]
      \/ \E c \in Clients : cell # LF!NoSession /\ session' = [session EXCEPT ![c] = cell]
  BY DEF Forward, LF!LocalNext, LF!Bind, LF!ClientStep, LF!Accept, LF!SessionReady,
         LF!WaitTimeout, LF!Acquire, LF!Open, LF!Drop, LF!Retry, LF!PauseOver,
         LF!SessionAgain, LF!RewaitTimeout, LF!CopyEnds, LF!Leave, LF!cellVars
<1> QED
  BY <1>1, <1>2

(* The supervisor never moves on to another session under a client whose   *)
(* own would still carry its data.                                         *)
THEOREM WorkingSessionsAreCurrent == Spec => []WorkingSessionIsCurrent
<1> DEFINE I == HeldInv /\ session \in [Clients -> Nat]
<1>1. Init => I
  BY DEF Init, LF!Init, HeldInv, LF!NoSession
<1>2. SP!IInv /\ I /\ [Next]_vars => I'
  <2>1. CASE Supervise
    BY <2>1, StepOfSupervisor, HeldThroughSupervise, SupervisorRun,
       SupervisorEnvironment
    DEF Supervise, clientVars, S!Next, SP!Next
  <2>2. CASE Forward
    BY <2>2, HeldThroughForward
  <2>3. CASE UNCHANGED vars
    BY <2>3 DEF vars, cellVars, clientVars, HeldInv
  <2> QED
    BY <2>1, <2>2, <2>3 DEF Next
<1>3. I => WorkingSessionIsCurrent
  BY DEF HeldInv, WorkingSessionIsCurrent
<1> QED
  BY <1>1, <1>2, <1>3, SupervisorInvariance, PTL DEF Spec
--------------------------------------------------------------------------------
(***************************************************************************)
(* What LocalForwardProofs shows of the forwards holds in the composition: *)
(* LF in Tunnel and LP here are one machine under two names as well.       *)
(***************************************************************************)
LEMMA ForwardInit == LF!Init => LP!Init
  BY Zenon DEF LF!Init, LP!Init, LF!CellInit, LP!CellInit, LF!NoSession, LP!NoSession,
               LF!Gens, LP!Gens

LEMMA ForwardCell == LF!CellNext => LP!CellNext
<1> USE DEF LF!NoSession, LP!NoSession, LF!Gens, LP!Gens
<1>1. ASSUME NEW n PROVE LF!Burn(n) => LP!Burn(n)
  BY Zenon DEF LF!Burn, LP!Burn
<1>2. ASSUME NEW g
      PROVE  /\ LF!Establish(g) => LP!Establish(g)
             /\ LF!Lose(g) => LP!Lose(g)
             /\ LF!Close(g) => LP!Close(g)
  BY Zenon DEF LF!Establish, LP!Establish, LF!Lose, LP!Lose, LF!Close, LP!Close
<1>3. /\ LF!Abandon => LP!Abandon
      /\ LF!Publish => LP!Publish
      /\ LF!Withdraw => LP!Withdraw
  BY Zenon DEF LF!Abandon, LP!Abandon, LF!Publish, LP!Publish, LF!Withdraw, LP!Withdraw
<1> QED
  BY <1>1, <1>2, <1>3, Zenon DEF LF!CellNext, LP!CellNext

LEMMA ForwardStep == LF!LocalNext => LP!LocalNext
<1> USE DEF LF!NoSession, LP!NoSession, LF!Move, LP!Move, LF!Leave, LP!Leave,
            LF!cellVars, LP!cellVars, LF!SessionGone, LP!SessionGone
<1>1. ASSUME NEW l PROVE LF!Bind(l) => LP!Bind(l)
  BY Zenon DEF LF!Bind, LP!Bind
<1>2. ASSUME NEW c PROVE LF!ClientStep(c) => LP!ClientStep(c)
  <2>1. LF!Accept(c) => LP!Accept(c)
    BY Zenon DEF LF!Accept, LP!Accept
  <2>2. LF!SessionReady(c) => LP!SessionReady(c)
    BY Zenon DEF LF!SessionReady, LP!SessionReady
  <2>3. LF!WaitTimeout(c) => LP!WaitTimeout(c)
    BY Zenon DEF LF!WaitTimeout, LP!WaitTimeout
  <2>4. LF!Acquire(c) => LP!Acquire(c)
    BY Zenon DEF LF!Acquire, LP!Acquire
  <2>5. LF!Open(c) => LP!Open(c)
    BY Zenon DEF LF!Open, LP!Open
  <2>6. LF!Drop(c) => LP!Drop(c)
    BY Zenon DEF LF!Drop, LP!Drop
  <2>7. LF!Retry(c) => LP!Retry(c)
    BY Zenon DEF LF!Retry, LP!Retry
  <2>8. LF!PauseOver(c) => LP!PauseOver(c)
    BY Zenon DEF LF!PauseOver, LP!PauseOver
  <2>9. LF!SessionAgain(c) => LP!SessionAgain(c)
    BY Zenon DEF LF!SessionAgain, LP!SessionAgain
  <2>10. LF!RewaitTimeout(c) => LP!RewaitTimeout(c)
    BY Zenon DEF LF!RewaitTimeout, LP!RewaitTimeout
  <2>11. LF!CopyEnds(c) => LP!CopyEnds(c)
    BY Zenon DEF LF!CopyEnds, LP!CopyEnds
  <2> QED
    BY <2>1, <2>2, <2>3, <2>4, <2>5, <2>6, <2>7, <2>8, <2>9, <2>10, <2>11
    DEF LF!ClientStep, LP!ClientStep
<1> QED
  BY <1>1, <1>2, Zenon DEF LF!LocalNext, LP!LocalNext

LEMMA ForwardsInComposition == Spec => LP!Spec
<1>1. Init => LP!Init
  BY ForwardInit DEF Init
<1>2. [LF!Next]_(LF!vars) => [LP!Next]_(LP!vars)
  BY ForwardStep, ForwardCell
  DEF LF!Next, LP!Next, LF!clientVars, LP!clientVars, LF!vars, LP!vars
<1> QED
  BY <1>1, <1>2, StepOfForwards, SupervisorInvariance, PTL DEF Spec, LP!Spec

(* Type correctness of the whole: no counter of either part leaves its     *)
(* range, whatever the other does.                                         *)
THEOREM TypeCorrect == Spec => []TypeOK
<1>1. SP!IInv => S!TypeOK
  BY DEF SP!IInv, SP!TypeOK, S!TypeOK, SP!Attempting, S!Attempting, SP!Gens, S!Gens,
         SP!NoSession, S!NoSession, SP!Status, S!Status, SP!Delays, S!Delays
<1>2. LP!TypeOK => LF!TypeOK
  BY Zenon DEF LP!TypeOK, LF!TypeOK, LP!CellTypeOK, LF!CellTypeOK, LP!Gens, LF!Gens,
         LP!NoSession, LF!NoSession, LP!Status, LF!Status, LP!Places, LF!Places,
         LP!Holding, LF!Holding
<1>3. LP!Spec => []LP!TypeOK
  BY LP!TypeCorrect, PartAssumptions
<1> QED
  BY <1>1, <1>2, <1>3, ForwardsInComposition, SupervisorInvariance, PTL DEF TypeOK

(* The permits of the two semaphores add up whatever the supervisor does.  *)
THEOREM PermitsHold == Spec => []LF!PermitsConserved
<1>1. LP!Spec => []LP!PermitsConserved
  BY LP!PermitsAreConserved, PartAssumptions
<1>2. LP!PermitsConserved => LF!PermitsConserved
  BY Zenon DEF LP!PermitsConserved, LF!PermitsConserved, LP!Waiters, LF!Waiters,
               LP!Holders, LF!Holders, LP!Holding, LF!Holding, LP!Cardinality,
               LF!Cardinality
<1> QED
  BY <1>1, <1>2, ForwardsInComposition, PTL
(* A task of the whole program that is going to retry never finds the      *)
(* session it failed on, and retries on a newer one, whichever way the     *)
(* supervisor withdraws and publishes sessions.                            *)
THEOREM RetriesHold ==
  Spec => []LF!RetriesOnlyWhenReplaced /\ LF!RetryUsesNewerSession
<1>1. LP!Spec => []LP!RetriesOnlyWhenReplaced
  BY LP!RetriesAreJustified, PartAssumptions
<1>2. LP!Spec => LP!RetryUsesNewerSession
  BY LP!RetriesAdvance, PartAssumptions
<1>3. LP!RetriesOnlyWhenReplaced => LF!RetriesOnlyWhenReplaced
  BY DEF LP!RetriesOnlyWhenReplaced, LF!RetriesOnlyWhenReplaced
<1>4. LP!RetryUsesNewerSession => LF!RetryUsesNewerSession
  BY Zenon DEF LP!RetryUsesNewerSession, LF!RetryUsesNewerSession, LP!vars, LF!vars
<1> QED
  BY <1>1, <1>2, <1>3, <1>4, ForwardsInComposition, PTL

(* No task of the whole program goes round in circles.                     *)
THEOREM TasksEnd ==
  Spec => [][\A c \in Clients :
               at'[c] # at[c] /\ at[c] # "outside" /\ at'[c] # "outside"
                 => LP!Progress(c)' > LP!Progress(c)]_vars
<1>1. LP!Spec => [][\A c \in Clients :
                      at'[c] # at[c] /\ at[c] # "outside" /\ at'[c] # "outside"
                        => LP!Progress(c)' > LP!Progress(c)]_(LP!vars)
  BY LP!TasksLeadOn, PartAssumptions, PTL
<1>2. [\A c \in Clients :
         at'[c] # at[c] /\ at[c] # "outside" /\ at'[c] # "outside"
           => LP!Progress(c)' > LP!Progress(c)]_(LP!vars)
      => [\A c \in Clients :
            at'[c] # at[c] /\ at[c] # "outside" /\ at'[c] # "outside"
              => LP!Progress(c)' > LP!Progress(c)]_vars
  BY DEF LP!vars, vars, cellVars, clientVars
<1> QED
  BY <1>1, <1>2, ForwardsInComposition, PTL

(* With clients waiting, retrying or copying, a Ctrl+C that                *)
(* connect_and_run() has taken up is as final as without them.             *)
THEOREM NoWayBackWithClients == Spec => [][SP!Stopping => SP!Stopping']_vars
<1>1. Spec => SP!Spec
  <2>1. Init => SP!Init
    BY SupervisorInit DEF Init
  <2> QED
    BY <2>1, StepOfSupervisor, PTL DEF Spec, SP!Spec
<1>2. SP!Spec => [][SP!Stopping => SP!Stopping']_(SP!vars)
  BY SP!NoWayBack, PartAssumptions, PTL
<1>3. [SP!Stopping => SP!Stopping']_(SP!vars) => [SP!Stopping => SP!Stopping']_vars
  BY DEF SP!vars, vars, ctlVars, cellVars, SP!Stopping
<1> QED
  BY <1>1, <1>2, <1>3, PTL
================================================================================
