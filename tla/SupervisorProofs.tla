---------------------------- MODULE SupervisorProofs ----------------------------
(***************************************************************************)
(* Proofs about Supervisor.tla, for every number of sessions and hops.     *)
(***************************************************************************)
EXTENDS Supervisor, TLAPS

(* Generations are taken from the counter.                                 *)
StatusInv ==
  \A g \in Gens : status[g] # "none" => g < nextGen

(* The published session is the last one made, it is published only while  *)
(* run() waits for it or cleans up after it, and by then it is closed.     *)
CellInv ==
  cell # NoSession =>
    /\ nextGen = cell + 1
    /\ fresh = NoSession
    /\ pc \in {"running", "disconnecting", "returned", "exited"}
    /\ status[cell] # "none"
    /\ pc = "returned" => status[cell] = "closed"

FreshInv ==
  /\ fresh # NoSession =>
       nextGen = fresh + 1 /\ pc \in {"setup", "exited"} /\ status[fresh] # "none"
  /\ pc = "setup" => fresh # NoSession

(* The keepalive task pings the published session, and reports only the    *)
(* end of the session it pings.                                            *)
MonitorInv ==
  /\ pc \in {"running", "disconnecting"} => cell # NoSession /\ watched = cell
  /\ pc = "running" => monitor # "off"
  /\ monitor # "off" => watched # NoSession
  /\ monitor = "reported" => status[watched] = "closed"

ExitInv ==
  /\ exit # "none" <=> pc = "exited"
  /\ hadTunnel => everConnected \/ cell # NoSession \/ pc = "exited"
  /\ exit = "failed" => ~hadTunnel

IInv == TypeOK /\ StatusInv /\ CellInv /\ FreshInv /\ MonitorInv /\ ExitInv
--------------------------------------------------------------------------------
(* The invariant holds at the start.                                       *)
LEMMA InitInv == Init => IInv
<1> SUFFICES ASSUME Init PROVE IInv
  OBVIOUS
<1> USE SupervisorAssumption DEF Init, Gens, NoSession
<1>1. TypeOK
  <2>1. status \in [Gens -> Status]
    BY DEF Status
  <2>2. nextGen \in 1 .. (MaxGen + 1) /\ delay \in Delays
    BY DEF Delays, FirstDelay
  <2>3. heard \subseteq {"outer", "inner", "sleep"}
    OBVIOUS
  <2> QED
    BY <2>1, <2>2, <2>3, Zenon DEF TypeOK, Attempting
<1>2. StatusInv /\ CellInv /\ FreshInv /\ MonitorInv /\ ExitInv
  BY DEF StatusInv, CellInv, FreshInv, MonitorInv, ExitInv
<1> QED
  BY <1>1, <1>2 DEF IInv

(* Every step preserves it.                                                *)
LEMMA NextInv == IInv /\ [Next]_vars => IInv'
<1> SUFFICES ASSUME IInv, [Next]_vars PROVE IInv'
  OBVIOUS
<1> USE SupervisorAssumption
    DEF IInv, TypeOK, StatusInv, CellInv, FreshInv, MonitorInv, ExitInv, Gens,
        NoSession, Status, Delays, Attempting, cellVars
<1>1. CASE ConnectOk
  BY <1>1 DEF ConnectOk, Renewable
<1>2. CASE ConnectFail
  BY <1>2 DEF ConnectFail, Return
<1>3. CASE SetupOk
  BY <1>3 DEF SetupOk
<1>4. CASE SetupFail
  BY <1>4 DEF SetupFail, Renewable, Return
<1>5. CASE PingFails
  BY <1>5 DEF PingFails
<1>6. CASE SessionDead
  BY <1>6 DEF SessionDead, Return
<1>7. CASE Stop
  BY <1>7 DEF Stop
<1>8. CASE Disconnect
  BY <1>8 DEF Disconnect, Return
<1>9. CASE Interrupt
  BY <1>9 DEF Interrupt
<1>10. CASE Conclude
  <2> USE <1>10 DEF Conclude, GiveUp
  <2>1. CASE result = "ok"
    BY <2>1
  <2>2. CASE result = "err" /\ GiveUp
    BY <2>2
  <2>3. CASE result = "err" /\ ~GiveUp
    <3>1. delay' \in Delays
      BY <2>3 DEF FirstDelay
    <3> QED
      BY <2>3, <3>1
  <2> QED
    BY <2>1, <2>2, <2>3
<1>11. CASE Wake
  <2>1. delay' \in Delays
    BY <1>11 DEF Wake, DoubleDelay, MaxDelay
  <2> QED
    BY <1>11, <2>1 DEF Wake
<1>12. CASE InterruptSleep
  BY <1>12 DEF InterruptSleep
<1>13. CASE CtrlC
  BY <1>13 DEF CtrlC, Listening
<1>14. CASE TenSeconds
  BY <1>14 DEF TenSeconds
<1>15. CASE GoSilent
  BY <1>15 DEF GoSilent
<1>16. ASSUME NEW g \in Gens, Lose(g) PROVE IInv'
  BY <1>16 DEF Lose, ctlVars, Renewable
<1>17. ASSUME NEW g \in Gens, Close(g) PROVE IInv'
  BY <1>17 DEF Close, ctlVars, Renewable
<1>18. CASE UNCHANGED vars
  BY <1>18 DEF vars
<1> QED
  BY <1>1, <1>2, <1>3, <1>4, <1>5, <1>6, <1>7, <1>8, <1>9, <1>10, <1>11, <1>12, <1>13, <1>14, <1>15, <1>16, <1>17, <1>18 DEF Next, Run, Environment

LEMMA Invariance == Spec => []IInv
  BY InitInv, NextInv, PTL DEF Spec

(* Type correctness.                                                       *)
THEOREM TypeCorrect == Spec => []TypeOK
<1>1. IInv => TypeOK
  BY DEF IInv
<1> QED
  BY <1>1, Invariance, PTL

(* The session in the watch channel is the newest there is.                *)
THEOREM NewestPublished == Spec => []PublishedIsNewest
<1>1. IInv => PublishedIsNewest
  BY SupervisorAssumption
  DEF IInv, TypeOK, StatusInv, CellInv, PublishedIsNewest, Gens, NoSession
<1> QED
  BY <1>1, Invariance, PTL

(* A published session always has someone who notices its end.             *)
THEOREM AlwaysWatched == Spec => []SessionIsWatched
<1>1. IInv => SessionIsWatched
  BY DEF IInv, CellInv, MonitorInv, SessionIsWatched
<1> QED
  BY <1>1, Invariance, PTL

(* run() returns the error of an attempt only before the first tunnel.     *)
THEOREM FailsOnlyAtStart == Spec => []GivesUpOnlyAtStart
<1>1. IInv => GivesUpOnlyAtStart
  BY DEF IInv, ExitInv, GivesUpOnlyAtStart
<1> QED
  BY <1>1, Invariance, PTL

(* A session is withdrawn only after it has closed, and never replaced     *)
(* directly by another.                                                    *)
THEOREM HealthyStays == Spec => HealthySessionStays
<1>1. IInv /\ [Next]_vars =>
        [cell # NoSession /\ cell' # cell
           => status[cell] # "up" /\ cell' = NoSession]_vars
  <2> SUFFICES ASSUME IInv, Next, cell # NoSession, cell' # cell
               PROVE status[cell] # "up" /\ cell' = NoSession
    BY DEF vars
  <2>1. ~SetupOk
    BY DEF IInv, CellInv, SetupOk
  <2>2. Conclude
    BY <2>1
    DEF Next, Run, Environment, ConnectOk, ConnectFail, SetupFail, PingFails,
        SessionDead, Stop, Disconnect, Interrupt, Wake, InterruptSleep, CtrlC,
        TenSeconds, GoSilent, Lose, Close, cellVars
  <2> QED
    BY <2>2 DEF IInv, CellInv, Conclude
<1> QED
  BY <1>1, Invariance, PTL DEF Spec, HealthySessionStays
--------------------------------------------------------------------------------
(* Once connect_and_run() has taken up a Ctrl+C, run() is on its way out.  *)
Stopping == pc = "disconnecting" \/ (pc = "returned" /\ result = "ok") \/ pc = "exited"

(* There is no way back from there: whatever the keepalive task reports    *)
(* and the network does to the session meanwhile, run() never goes to      *)
(* sleep or connects again, and it exits by `shutdown` or interrupted      *)
(* (tunnel.rs:336-344, 124-127).  This is the safe part of StopIsFinal.    *)
THEOREM NoWayBack ==
  Spec => [][Stopping => Stopping' /\ (exit' # exit => exit' \in {"interrupted", "shutdown"})]_vars
<1>1. IInv /\ [Next]_vars =>
        [Stopping => Stopping' /\ (exit' # exit => exit' \in {"interrupted", "shutdown"})]_vars
  <2> SUFFICES ASSUME IInv, Next, Stopping
               PROVE  Stopping' /\ (exit' # exit => exit' \in {"interrupted", "shutdown"})
    OBVIOUS
  <2> USE DEF Stopping
  <2>1. CASE Disconnect
    BY <2>1 DEF Disconnect, Return
  <2>2. CASE Interrupt
    BY <2>2 DEF Interrupt
  <2>3. CASE Conclude
    BY <2>3 DEF Conclude
  <2>4. CASE ~(Disconnect \/ Interrupt \/ Conclude)
    BY <2>4
    DEF Next, Run, Environment, ConnectOk, ConnectFail, SetupOk, SetupFail, PingFails,
        SessionDead, Stop, Wake, InterruptSleep, CtrlC, TenSeconds, GoSilent, Lose,
        Close, ctlVars
  <2> QED
    BY <2>1, <2>2, <2>3, <2>4
<1> QED
  BY <1>1, Invariance, PTL DEF Spec
--------------------------------------------------------------------------------
(***************************************************************************)
(* The supervisor implements SessionCell.tla: every step maps to a step of *)
(* the cell or leaves it as it is.                                         *)
(***************************************************************************)
LEMMA InitRefines == Init => SC!CellInit
  BY DEF Init, SC!CellInit, SC!NoSession, NoSession, SC!Gens, Gens

LEMMA NextRefines == IInv /\ [Next]_vars => [SC!CellNext]_(SC!cellVars)
<1> SUFFICES ASSUME IInv, [Next]_vars
             PROVE SC!CellNext \/ UNCHANGED SC!cellVars
  OBVIOUS
<1> USE SupervisorAssumption DEF NoSession, SC!NoSession, Gens, SC!Gens
<1>1. CASE ConnectOk
  <2>1. cell = NoSession /\ fresh = NoSession
    BY <1>1 DEF ConnectOk, IInv, CellInv, FreshInv
  <2>2. nextGen + Hops \in Gens /\ nextGen + Hops >= nextGen
    BY <1>1 DEF ConnectOk, Renewable, IInv, TypeOK
  <2>3. SC!Establish(nextGen + Hops)
    BY <1>1, <2>1, <2>2 DEF ConnectOk, SC!Establish
  <2> QED
    BY <2>2, <2>3 DEF SC!CellNext
<1>2. CASE ConnectFail
  <2>1. PICK k \in 0 .. Hops :
          nextGen + k + Hops <= MaxGen /\ nextGen' = nextGen + k
    BY <1>2 DEF ConnectFail
  <2>2. /\ nextGen + k \in 1 .. (MaxGen + 1)
        /\ nextGen + k \in nextGen .. (MaxGen + 1)
    BY <2>1 DEF IInv, TypeOK
  <2>3. SC!Burn(nextGen + k)
    BY <1>2, <2>1, <2>2 DEF ConnectFail, SC!Burn
  <2> QED
    BY <2>2, <2>3 DEF SC!CellNext
<1>3. CASE SetupOk
  <2>1. fresh # NoSession /\ cell = NoSession
    BY <1>3 DEF SetupOk, IInv, CellInv, FreshInv
  <2>2. SC!Publish
    BY <1>3, <2>1 DEF SetupOk, SC!Publish
  <2> QED
    BY <2>2 DEF SC!CellNext
<1>4. CASE SetupFail
  <2>1. fresh # NoSession
    BY <1>4 DEF SetupFail, IInv, FreshInv
  <2>2. SC!Abandon
    BY <1>4, <2>1 DEF SetupFail, SC!Abandon
  <2> QED
    BY <2>2 DEF SC!CellNext
<1>5. CASE Disconnect
  <2>1. cell \in Gens /\ status[cell] \in {"up", "lost", "closed"}
    BY <1>5 DEF Disconnect, IInv, TypeOK, CellInv, MonitorInv, Status
  <2>2. CASE status[cell] = "closed"
    <3>1. status' = status
      BY <1>5, <2>1, <2>2 DEF Disconnect, IInv, TypeOK
    <3> QED
      BY <1>5, <3>1 DEF Disconnect, SC!cellVars
  <2>3. CASE status[cell] # "closed"
    <3>1. SC!Close(cell)
      BY <1>5, <2>1, <2>3 DEF Disconnect, SC!Close
    <3> QED
      BY <2>1, <3>1 DEF SC!CellNext
  <2> QED
    BY <2>2, <2>3
<1>6. CASE Conclude
  <2>1. CASE cell = NoSession
    BY <1>6, <2>1 DEF Conclude, SC!cellVars
  <2>2. CASE cell # NoSession
    <3>1. SC!Withdraw
      BY <1>6, <2>2 DEF Conclude, SC!Withdraw, IInv, CellInv
    <3> QED
      BY <3>1 DEF SC!CellNext
  <2> QED
    BY <2>1, <2>2
<1>7. ASSUME NEW g \in Gens, Lose(g) PROVE SC!CellNext
  BY <1>7 DEF Lose, SC!Lose, SC!CellNext
<1>8. ASSUME NEW g \in Gens, Close(g) PROVE SC!CellNext
  BY <1>8 DEF Close, SC!Close, SC!CellNext
<1>9. CASE PingFails \/ SessionDead \/ Stop \/ Interrupt \/ Wake \/ InterruptSleep
  BY <1>9
  DEF PingFails, SessionDead, Stop, Interrupt, Wake, InterruptSleep, cellVars,
      SC!cellVars
<1>10. CASE CtrlC \/ TenSeconds \/ GoSilent
  BY <1>10 DEF CtrlC, TenSeconds, GoSilent, cellVars, SC!cellVars
<1>11. CASE UNCHANGED vars
  BY <1>11 DEF vars, SC!cellVars
<1> QED
  BY <1>1, <1>2, <1>3, <1>4, <1>5, <1>6, <1>7, <1>8, <1>9, <1>10, <1>11
  DEF Next, Run, Environment

THEOREM Refinement == Spec => ImplementsSessionCell
<1> QED
  BY InitRefines, NextRefines, Invariance, PTL
  DEF Spec, ImplementsSessionCell, SC!CellSpec
================================================================================
