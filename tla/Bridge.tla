--------------------------------- MODULE Bridge ---------------------------------
(***************************************************************************)
(* The accept loops of `weconn bridge` (tcp_tcp, tcp_websocket and         *)
(* websocket_tcp of src/bridge.rs), the connection limit they share and    *)
(* the task of each client up to the relay: handshake, and the attempts to *)
(* connect upstream.  The relay itself is a place the task stays in.       *)
(***************************************************************************)
EXTENDS Naturals, FiniteSets

CONSTANTS
  Clients,          \* clients; one that is "outside" may connect (again)
  MaxConnections,   \* MAX_CONNECTIONS
  UpstreamRetries,  \* UPSTREAM_RETRIES
  Mode              \* which of the three loops runs

ASSUME BridgeAssumption ==
  /\ IsFiniteSet(Clients)
  /\ MaxConnections \in Nat \ {0}
  /\ UpstreamRetries \in Nat \ {0}
  /\ Mode \in {"tcp_tcp", "tcp_websocket", "websocket_tcp"}

VARIABLES
  loop,      \* the accept loop: "accepting", "acquiring", "stopped", "failed"
  heard,     \* has the ctrl_c() future of this accept_or_shutdown() fired?
  pressed,   \* history: has Ctrl+C been pressed?
  permits,   \* free permits of the semaphore
  at,        \* where each client is, see Places
  attempt    \* the loop variable of connect_upstream_*()

vars == <<loop, heard, pressed, permits, at, attempt>>

(***************************************************************************)
(* queued      in the listen queue of the kernel                           *)
(* accepted    returned by accept_or_shutdown(), the permit is awaited     *)
(* shaking     in the WebSocket handshake (websocket_tcp)                  *)
(* connecting  in timeout(CONNECT_TIMEOUT, ...)                            *)
(* pausing     in the sleep between two attempts                           *)
(* relaying    data is copied in both directions                           *)
(***************************************************************************)
Holding == {"shaking", "connecting", "pausing", "relaying"}
Places == {"outside", "queued", "accepted"} \cup Holding
Listening == loop \in {"accepting", "acquiring"}

TypeOK ==
  /\ loop \in {"accepting", "acquiring", "stopped", "failed"}
  /\ heard \in BOOLEAN
  /\ pressed \in BOOLEAN
  /\ permits \in 0 .. MaxConnections
  /\ at \in [Clients -> Places]
  /\ attempt \in [Clients -> 0 .. UpstreamRetries]

Init ==
  /\ loop = "accepting"
  /\ heard = FALSE
  /\ pressed = FALSE
  /\ permits = MaxConnections
  /\ at = [c \in Clients |-> "outside"]
  /\ attempt = [c \in Clients |-> 0]
--------------------------------------------------------------------------------
(***************************************************************************)
(* The accept loop.                                                        *)
(***************************************************************************)
Move(c, from, to) ==
  /\ at[c] = from
  /\ at' = [at EXCEPT ![c] = to]

Arrive(c) ==
  /\ Listening
  /\ Move(c, "outside", "queued")
  /\ UNCHANGED <<loop, heard, pressed, permits, attempt>>

AcceptInTask(c) ==     \* mutant: the permit is awaited in the task
  /\ loop = "accepting"
  /\ Move(c, "queued", "accepted")
  /\ heard' = FALSE
  /\ UNCHANGED <<loop, pressed, permits, attempt>>

(* accept_or_shutdown() returns a client and drops its ctrl_c() future.    *)
Accept(c) ==
  /\ loop = "accepting"
  /\ Move(c, "queued", "accepted")
  /\ loop' = "acquiring"
  /\ heard' = FALSE
  /\ UNCHANGED <<pressed, permits, attempt>>

(* The runtime ends with run(): every task and every connection with it.   *)
Shutdown(how) ==
  /\ loop' = how
  /\ at' = [c \in Clients |-> "outside"]
  /\ attempt' = [c \in Clients |-> 0]
  /\ permits' = MaxConnections
  /\ heard' = FALSE
  /\ UNCHANGED pressed

(* accept() fails: `?` ends the bridge.                                    *)
AcceptFails ==
  /\ loop = "accepting"
  /\ Shutdown("failed")

Stop ==
  /\ loop = "accepting"
  /\ heard
  /\ Shutdown("stopped")

(* acquire_owned() and spawn, then the next accept_or_shutdown().          *)
Acquire(c) ==
  /\ loop = "acquiring"
  /\ permits > 0
  /\ IF Mode = "websocket_tcp" THEN Move(c, "accepted", "shaking")
     ELSE Move(c, "accepted", "connecting")
  /\ attempt' = [attempt EXCEPT ![c] = IF Mode = "websocket_tcp" THEN 0 ELSE 1]
  /\ permits' = permits - 1
  /\ loop' = "accepting"
  /\ UNCHANGED <<heard, pressed>>

(* A signal is lost when no ctrl_c() future exists.                        *)
CtrlC ==
  /\ Listening
  /\ heard' = (heard \/ loop = "accepting")
  /\ pressed' = TRUE
  /\ UNCHANGED <<loop, permits, at, attempt>>
--------------------------------------------------------------------------------
(***************************************************************************)
(* The task of a client.  `_permit` is dropped when it ends.               *)
(***************************************************************************)
Leave(c) ==
  /\ attempt' = [attempt EXCEPT ![c] = 0]
  /\ permits' = permits + 1
  /\ UNCHANGED <<loop, heard, pressed>>

(* accept_hdr_async(): the request is valid, ...                           *)
HandshakeOk(c) ==
  /\ Move(c, "shaking", "connecting")
  /\ attempt' = [attempt EXCEPT ![c] = 1]
  /\ UNCHANGED <<loop, heard, pressed, permits>>

HandshakeForEver(c) == FALSE     \* mutant: no HANDSHAKE_TIMEOUT

(* ... or it is rejected, or HANDSHAKE_TIMEOUT is over.                    *)
HandshakeFails(c) ==
  /\ Move(c, "shaking", "outside")
  /\ Leave(c)

UpstreamOk(c) ==
  /\ Move(c, "connecting", "relaying")
  /\ UNCHANGED <<loop, heard, pressed, permits, attempt>>

UpstreamRetry(c) ==
  /\ attempt[c] < UpstreamRetries
  /\ Move(c, "connecting", "pausing")
  /\ UNCHANGED <<loop, heard, pressed, permits, attempt>>

UpstreamFailsLeaks(c) ==     \* mutant: the permit is not dropped
  /\ attempt[c] = UpstreamRetries
  /\ Move(c, "connecting", "outside")
  /\ attempt' = [attempt EXCEPT ![c] = 0]
  /\ UNCHANGED <<loop, heard, pressed, permits>>

(* The last attempt has failed.  The close() that answers a WebSocket      *)
(* client is a few bytes on a fresh connection and does not wait.          *)
UpstreamFails(c) ==
  /\ attempt[c] = UpstreamRetries
  /\ Move(c, "connecting", "outside")
  /\ Leave(c)

PauseOver(c) ==
  /\ Move(c, "pausing", "connecting")
  /\ attempt' = [attempt EXCEPT ![c] = @ + 1]
  /\ UNCHANGED <<loop, heard, pressed, permits>>

RelayEnds(c) ==
  /\ Move(c, "relaying", "outside")
  /\ Leave(c)

Task(c) ==
  \/ HandshakeOk(c) \/ HandshakeFails(c)
  \/ UpstreamOk(c) \/ UpstreamRetry(c) \/ UpstreamFails(c) \/ PauseOver(c)

Next ==
  \/ CtrlC \/ AcceptFails \/ Stop
  \/ \E c \in Clients : Arrive(c) \/ Accept(c) \/ Acquire(c) \/ Task(c) \/ RelayEnds(c)

Spec == Init /\ [][Next]_vars

(***************************************************************************)
(* Fairness: the loop runs, the timers of the tasks fire, the kernel hands *)
(* out queued clients in turn.  Nothing makes a client finish a handshake, *)
(* an upstream answer, or a relay end.                                     *)
(***************************************************************************)
Fairness ==
  /\ WF_vars(Stop)
  /\ \A c \in Clients :
       /\ SF_vars(Accept(c)) /\ WF_vars(Acquire(c))
       /\ WF_vars(HandshakeFails(c))
       /\ WF_vars(UpstreamRetry(c) \/ UpstreamFails(c))
       /\ WF_vars(PauseOver(c))

FairSpec == Spec /\ Fairness
--------------------------------------------------------------------------------
(***************************************************************************)
(* Properties.                                                             *)
(***************************************************************************)
Holders == {c \in Clients : at[c] \in Holding}

(* Every permit is free or held by exactly one task, whichever way         *)
(* handshake, attempts and relay end (bridge.rs:69-87, 114-131, 207-225).  *)
PermitsConserved == permits + Cardinality(Holders) = MaxConnections

(* The loop takes a client out of the queue only when it can wait for its  *)
(* permit: at most one stands between accept() and spawn (bridge.rs:60-73).*)
OneAtTheDoor ==
  /\ loop = "acquiring" <=> \E c \in Clients : at[c] = "accepted"
  /\ \A c, d \in Clients : at[c] = "accepted" /\ at[d] = "accepted" => c = d

(* A client that has connected reaches its relay or is turned away,        *)
(* however the others behave, unless live relays use up the limit: clients *)
(* that never finish their handshake and upstreams that never answer keep  *)
(* nobody out (bridge.rs:69-73, 114-127, 295-311).                         *)
Relaying == {c \in Clients : at[c] = "relaying"}

OnlyRelaysBlock ==
  \A c \in Clients :
    at[c] # "outside"
      ~> \/ at[c] \in {"outside", "relaying"}
         \/ at[c] \in {"queued", "accepted"} /\ Cardinality(Relaying) = MaxConnections
--------------------------------------------------------------------------------
(***************************************************************************)
(* Statements of the documentation that the code does not live up to.      *)
(***************************************************************************)
(* "Accept the next client or exit cleanly on Ctrl+C." (bridge.rs:229):    *)
(* Ctrl+C ends the bridge.                                                 *)
CtrlCStops == pressed ~> ~Listening
================================================================================
