------------------------------ MODULE SessionCell ------------------------------
(***************************************************************************)
(* What the reconnecting supervisor of `weconn ssh` promises to the local  *)
(* forwards: a cell (the tokio watch channel of tunnel.rs) that is empty   *)
(* or holds one SSH session.  Sessions are named by their generation, the  *)
(* number next_generation() hands out.  Supervisor.tla is the detailed     *)
(* machine that implements this one, LocalForward.tla is built on it.      *)
(***************************************************************************)
EXTENDS Naturals

CONSTANT MaxGen      \* bound: the largest generation that is ever handed out

ASSUME MaxGenAssumption == MaxGen \in Nat \ {0}

Gens == 1 .. MaxGen
NoSession == 0

(***************************************************************************)
(* "up": the transport works.  "lost": the network is gone and the session *)
(* task has not noticed (calls on the handle neither succeed nor fail).    *)
(* "closed": the session task has ended and every call on it fails.        *)
(***************************************************************************)
Status == {"none", "up", "lost", "closed"}

VARIABLES
  cell,      \* the watch channel: the published session, or NoSession
  fresh,     \* a session that is established but not published yet
  nextGen,   \* the value of the generation counter
  status     \* what became of the session of each generation

cellVars == <<cell, fresh, nextGen, status>>

CellTypeOK ==
  /\ cell \in Gens \cup {NoSession}
  /\ fresh \in Gens \cup {NoSession}
  /\ nextGen \in 1 .. (MaxGen + 1)
  /\ status \in [Gens -> Status]

CellInit ==
  /\ cell = NoSession
  /\ fresh = NoSession
  /\ nextGen = 1
  /\ status = [g \in Gens |-> "none"]

(***************************************************************************)
(* Numbers may be skipped: each ProxyJump hop takes one, and the hops of a *)
(* failed attempt have taken theirs.                                       *)
(***************************************************************************)
Burn(n) ==
  /\ n \in nextGen .. (MaxGen + 1)
  /\ nextGen' = n
  /\ UNCHANGED <<cell, fresh, status>>

Establish(g) ==
  /\ cell = NoSession /\ fresh = NoSession
  /\ g >= nextGen
  /\ fresh' = g
  /\ nextGen' = g + 1
  /\ status' = [status EXCEPT ![g] = "up"]
  /\ UNCHANGED cell

(* The setup of the session failed: it is dropped and never published.     *)
Abandon ==
  /\ fresh # NoSession
  /\ fresh' = NoSession
  /\ status' = [status EXCEPT ![fresh] = "closed"]
  /\ UNCHANGED <<cell, nextGen>>

Publish ==
  /\ fresh # NoSession /\ cell = NoSession
  /\ cell' = fresh
  /\ fresh' = NoSession
  /\ UNCHANGED <<nextGen, status>>

(* Only a session that no longer works is taken away from the clients.     *)
Withdraw ==
  /\ cell # NoSession
  /\ status[cell] # "up"
  /\ cell' = NoSession
  /\ UNCHANGED <<fresh, nextGen, status>>

Lose(g) ==
  /\ status[g] = "up"
  /\ status' = [status EXCEPT ![g] = "lost"]
  /\ UNCHANGED <<cell, fresh, nextGen>>

Close(g) ==
  /\ status[g] \in {"up", "lost"}
  /\ status' = [status EXCEPT ![g] = "closed"]
  /\ UNCHANGED <<cell, fresh, nextGen>>

CellNext ==
  \/ \E n \in 1 .. (MaxGen + 1) : Burn(n)
  \/ \E g \in Gens : Establish(g) \/ Lose(g) \/ Close(g)
  \/ Abandon
  \/ Publish
  \/ Withdraw

CellSpec == CellInit /\ [][CellNext]_cellVars
================================================================================
