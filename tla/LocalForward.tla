------------------------------ MODULE LocalForward ------------------------------
(***************************************************************************)
(* The local forwards (-L) of `weconn ssh`: local_forward_listener(),      *)
(* handle_local_connection() and wait_for_session() of src/tunnel.rs, one  *)
(* task per TCP client, with the two semaphores that limit them.  The      *)
(* session they use comes and goes as SessionCell.tla says.                *)
(***************************************************************************)
EXTENDS SessionCell, FiniteSets

CONSTANTS
  Clients,      \* TCP clients; one that is "outside" may connect (again)
  Listeners,    \* the -L rules
  MaxWaiting,   \* MAX_LOCAL_FORWARD_WAITING
  MaxActive,    \* MAX_LOCAL_FORWARD_ACTIVE
  MaxRetries    \* LOCAL_FORWARD_MAX_RETRIES

ASSUME LimitAssumption ==
  /\ IsFiniteSet(Clients)
  /\ MaxWaiting \in Nat \ {0}
  /\ MaxActive \in Nat \ {0}
  /\ MaxRetries \in Nat \ {0}

VARIABLES
  listener,        \* each -L listener: "binding", "bound" or "failed"
  at,              \* where the task of each client is, see Places
  session,         \* the session each task uses
  attempts,        \* its local of that name
  waitPermits,     \* free permits of the semaphore wait_permits
  forwardPermits   \* free permits of the semaphore forward_permits

clientVars == <<listener, at, session, attempts, waitPermits, forwardPermits>>
vars == <<cell, fresh, nextGen, status, listener, at, session, attempts,
          waitPermits, forwardPermits>>

(***************************************************************************)
(* waiting    in the first wait_for_session()                              *)
(* acquiring  in acquire_owned() of a forward permit                       *)
(* opening    in channel_open_direct_tcpip()                               *)
(* refused    it failed on a working session (the server said no)          *)
(* broken     it failed because the session is closed                      *)
(* pausing    in the sleep before a retry                                  *)
(* rewaiting  in wait_for_session() before a retry                         *)
(* copying    in copy_bidirectional()                                      *)
(***************************************************************************)
Holding == {"opening", "refused", "broken", "pausing", "rewaiting", "copying"}
Places == {"outside", "waiting", "acquiring"} \cup Holding

TypeOK ==
  /\ CellTypeOK
  /\ listener \in [Listeners -> {"binding", "bound", "failed"}]
  /\ at \in [Clients -> Places]
  /\ session \in [Clients -> Gens \cup {NoSession}]
  /\ attempts \in [Clients -> 0 .. MaxRetries]
  /\ waitPermits \in 0 .. MaxWaiting
  /\ forwardPermits \in 0 .. MaxActive

Init ==
  /\ CellInit
  /\ listener = [l \in Listeners |-> "binding"]
  /\ at = [c \in Clients |-> "outside"]
  /\ session = [c \in Clients |-> NoSession]
  /\ attempts = [c \in Clients |-> 0]
  /\ waitPermits = MaxWaiting
  /\ forwardPermits = MaxActive
--------------------------------------------------------------------------------
(* The task of c goes from one place to another.                           *)
Move(c, from, to) ==
  /\ at[c] = from
  /\ at' = [at EXCEPT ![c] = to]

(* The task of c ends while it holds a forward permit: locals are dropped. *)
Leave(c) ==
  /\ session' = [session EXCEPT ![c] = NoSession]
  /\ attempts' = [attempts EXCEPT ![c] = 0]
  /\ forwardPermits' = forwardPermits + 1
  /\ UNCHANGED <<listener, waitPermits, cellVars>>

(* A listener that cannot bind ends with an error that is only logged.     *)
Bind(l) ==
  /\ listener[l] = "binding"
  /\ \E s \in {"bound", "failed"} : listener' = [listener EXCEPT ![l] = s]
  /\ UNCHANGED <<at, session, attempts, waitPermits, forwardPermits, cellVars>>

(* accept(), try_acquire_owned() and spawn.  Without a free permit the     *)
(* stream is dropped and the client stays outside.                         *)
Accept(c) ==
  /\ \E l \in Listeners : listener[l] = "bound"
  /\ waitPermits > 0
  /\ Move(c, "outside", "waiting")
  /\ waitPermits' = waitPermits - 1
  /\ UNCHANGED <<listener, session, attempts, forwardPermits, cellVars>>

(* The first wait ends: the wait permit goes back, the loop is entered.    *)
SessionReady(c) ==
  /\ cell # NoSession
  /\ Move(c, "waiting", "acquiring")
  /\ session' = [session EXCEPT ![c] = cell]
  /\ attempts' = [attempts EXCEPT ![c] = 1]
  /\ waitPermits' = waitPermits + 1
  /\ UNCHANGED <<listener, forwardPermits, cellVars>>

WaitTimeoutLeaks(c) ==     \* mutant: the permit stays with the client
  /\ cell = NoSession
  /\ Move(c, "waiting", "outside")
  /\ UNCHANGED <<listener, session, attempts, waitPermits, forwardPermits,
                 cellVars>>

(* timeout() polls the wait before the deadline: only an empty cell can    *)
(* time out.                                                               *)
WaitTimeout(c) ==
  /\ cell = NoSession
  /\ Move(c, "waiting", "outside")
  /\ waitPermits' = waitPermits + 1
  /\ UNCHANGED <<listener, session, attempts, forwardPermits, cellVars>>

Acquire(c) ==
  /\ forwardPermits > 0
  /\ Move(c, "acquiring", "opening")
  /\ forwardPermits' = forwardPermits - 1
  /\ UNCHANGED <<listener, session, attempts, waitPermits, cellVars>>

(* channel_open_direct_tcpip(): it hangs on a session that is lost.        *)
Open(c) ==
  /\ \/ Move(c, "opening", "copying") /\ status[session[c]] = "up"
     \/ Move(c, "opening", "refused") /\ status[session[c]] = "up"
     \/ Move(c, "opening", "broken") /\ status[session[c]] = "closed"
  /\ UNCHANGED <<listener, session, attempts, waitPermits, forwardPermits,
                 cellVars>>

SessionGoneUnread(c) == TRUE     \* mutant: the generations are not compared

(* session_gone, read from the watch channel after the open has failed.    *)
SessionGone(c) == cell # session[c]

(* Err(e) is returned: the client is dropped.                              *)
Drop(c) ==
  /\ Move(c, "refused", "outside") \/ Move(c, "broken", "outside")
  /\ ~SessionGone(c) \/ attempts[c] >= MaxRetries
  /\ Leave(c)

RetryAnyError(c) ==     \* mutant: every error is retried
  /\ Move(c, "refused", "pausing") \/ Move(c, "broken", "pausing")
  /\ attempts[c] < MaxRetries
  /\ UNCHANGED <<listener, session, attempts, waitPermits, forwardPermits,
                 cellVars>>

(* The permit is kept through the pause and the wait that follow.          *)
Retry(c) ==
  /\ Move(c, "refused", "pausing") \/ Move(c, "broken", "pausing")
  /\ SessionGone(c) /\ attempts[c] < MaxRetries
  /\ UNCHANGED <<listener, session, attempts, waitPermits, forwardPermits,
                 cellVars>>

PauseOver(c) ==
  /\ Move(c, "pausing", "rewaiting")
  /\ UNCHANGED <<listener, session, attempts, waitPermits, forwardPermits,
                 cellVars>>

(* The second wait ends: `_forward` is dropped at the end of the loop body *)
(* and the next round begins.                                              *)
SessionAgain(c) ==
  /\ cell # NoSession
  /\ Move(c, "rewaiting", "acquiring")
  /\ session' = [session EXCEPT ![c] = cell]
  /\ attempts' = [attempts EXCEPT ![c] = @ + 1]
  /\ forwardPermits' = forwardPermits + 1
  /\ UNCHANGED <<listener, waitPermits, cellVars>>

RewaitForEver(c) == FALSE     \* mutant: no timeout before a retry

RewaitTimeout(c) ==
  /\ cell = NoSession
  /\ Move(c, "rewaiting", "outside")
  /\ Leave(c)

(* Either end closes, or the session under the channel is gone.            *)
CopyEnds(c) ==
  /\ Move(c, "copying", "outside")
  /\ Leave(c)

ClientStep(c) ==
  \/ Accept(c) \/ SessionReady(c) \/ WaitTimeout(c) \/ Acquire(c)
  \/ Open(c) \/ Drop(c) \/ Retry(c) \/ PauseOver(c)
  \/ SessionAgain(c) \/ RewaitTimeout(c) \/ CopyEnds(c)

LocalNext ==
  \/ \E l \in Listeners : Bind(l)
  \/ \E c \in Clients : ClientStep(c)

Next ==
  \/ LocalNext
  \/ CellNext /\ UNCHANGED clientVars

Spec == Init /\ [][Next]_vars

(***************************************************************************)
(* Fairness: the tasks run, timers fire, a lost session is closed in the   *)
(* end (Supervisor.tla), and the semaphore is fair: tokio serves it first  *)
(* come first served, so that whoever can infinitely often acquire does.   *)
(* Nothing makes a copy end: it lasts as long as the applications want.    *)
(***************************************************************************)
Fairness ==
  /\ \A c \in Clients :
       /\ WF_vars(SessionReady(c) \/ WaitTimeout(c))
       /\ SF_vars(Acquire(c))
       /\ WF_vars(Open(c)) /\ WF_vars(Drop(c) \/ Retry(c))
       /\ WF_vars(PauseOver(c))
       /\ WF_vars(SessionAgain(c) \/ RewaitTimeout(c))
  /\ \A g \in Gens : WF_vars(status[g] = "lost" /\ Close(g) /\ UNCHANGED clientVars)

FairSpec == Spec /\ Fairness
--------------------------------------------------------------------------------
(***************************************************************************)
(* Properties.                                                             *)
(***************************************************************************)
Waiters == {c \in Clients : at[c] = "waiting"}
Holders == {c \in Clients : at[c] \in Holding}

(* No path through a task loses a permit or returns it twice: the free     *)
(* permits and the tasks that hold one always add up to the limit, across  *)
(* timeouts, errors and retries (tunnel.rs:381-390, 441-454, 475-494).     *)
PermitsConserved ==
  /\ waitPermits + Cardinality(Waiters) = MaxWaiting
  /\ forwardPermits + Cardinality(Holders) = MaxActive

(* A retry is made on a session that is newer than the one that failed:    *)
(* comparing generations (tunnel.rs:448, 476-479) never sends a client     *)
(* back to the session it has just seen fail.                              *)
RetryUsesNewerSession ==
  [][\A c \in Clients :
       at[c] = "rewaiting" /\ at'[c] = "acquiring" => session'[c] > session[c]]_vars

(* A task that is going to retry has a reason: the session it failed on is *)
(* out of the watch channel for good (tunnel.rs:476-493).                  *)
RetriesOnlyWhenReplaced ==
  \A c \in Clients : at[c] \in {"pausing", "rewaiting"} => cell # session[c]

(* A client that has been accepted comes out of its waits and retries with *)
(* its data copied or turned away, however often sessions come and go, and *)
(* tasks that hold a permit while they wait for the session to come back   *)
(* starve nobody: a client is held up only as long as live connections use *)
(* all permits (tunnel.rs:412-427, 446-494).                               *)
Copying == {c \in Clients : at[c] = "copying"}

OnlyCopiesBlock ==
  \A c \in Clients :
    at[c] # "outside"
      ~> \/ at[c] \in {"outside", "copying"}
         \/ at[c] = "acquiring" /\ Cardinality(Copying) = MaxActive
================================================================================
