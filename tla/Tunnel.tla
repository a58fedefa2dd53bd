--------------------------------- MODULE Tunnel ---------------------------------
(***************************************************************************)
(* `weconn ssh -L ...` as a whole: the supervisor (Supervisor.tla) and the *)
(* local forwards (LocalForward.tla) around the watch channel they share.  *)
(* Every step is a step of one of the two; the tasks of the forwards live  *)
(* as long as the runtime, which ends with run().                          *)
(***************************************************************************)
EXTENDS Naturals, FiniteSets

CONSTANTS
  MaxGen, Hops,                                           \* of Supervisor
  Clients, Listeners, MaxWaiting, MaxActive, MaxRetries   \* of LocalForward

ASSUME TunnelAssumption ==
  /\ MaxGen \in Nat \ {0}
  /\ Hops \in Nat /\ Hops < MaxGen
  /\ IsFiniteSet(Clients)
  /\ MaxWaiting \in Nat \ {0}
  /\ MaxActive \in Nat \ {0}
  /\ MaxRetries \in Nat \ {0}

VARIABLES
  pc, result, everConnected, delay, slow, silent, heard, monitor, watched,
  exit, hadTunnel,
  cell, fresh, nextGen, status,
  listener, at, session, attempts, waitPermits, forwardPermits

S == INSTANCE Supervisor
LF == INSTANCE LocalForward

ctlVars == <<pc, result, everConnected, delay, slow, silent, heard, monitor,
             watched, exit, hadTunnel>>
cellVars == <<cell, fresh, nextGen, status>>
clientVars == <<listener, at, session, attempts, waitPermits, forwardPermits>>
vars == <<ctlVars, cellVars, clientVars>>

TypeOK == S!TypeOK /\ LF!TypeOK

Init == S!Init /\ LF!Init

Supervise == S!Next /\ UNCHANGED clientVars

Forward ==
  /\ pc # "exited"
  /\ LF!LocalNext
  /\ UNCHANGED ctlVars

Next == Supervise \/ Forward

Spec == Init /\ [][Next]_vars
--------------------------------------------------------------------------------
(***************************************************************************)
(* Properties.                                                             *)
(***************************************************************************)
(* What LocalForward.tla assumes of the sessions it is handed is what the  *)
(* supervisor does: its theorems and runs hold of the whole program        *)
(* (tunnel.rs:66-88, 102-121, 302).                                        *)
ImplementsLocalForward == LF!Spec

(* A task that holds a session which works holds the published one: the    *)
(* supervisor never moves on to another session under a client whose own   *)
(* would still carry its data (tunnel.rs:116-121, 317-335, 441-444).       *)
WorkingSessionIsCurrent ==
  \A c \in Clients :
    session[c] # LF!NoSession /\ status[session[c]] = "up" => session[c] = cell
--------------------------------------------------------------------------------
(***************************************************************************)
(* A statement of the documentation that the code does not live up to.     *)
(***************************************************************************)
(* "-L listeners stay up during reconnect (clients wait up to 120s)"       *)
(* (README.md:17): once connect_and_run() has reported the session dead, a *)
(* client that finds it dead as well waits while it has retries left.      *)
BrokenClientsWait ==
  [][\A c \in Clients :
       pc = "returned" /\ result = "err" /\ at[c] = "broken" /\ at'[c] = "outside"
         => attempts[c] >= MaxRetries]_vars
================================================================================
