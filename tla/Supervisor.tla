------------------------------- MODULE Supervisor -------------------------------
(***************************************************************************)
(* The reconnect loop of `weconn ssh`: run() and connect_and_run() of      *)
(* src/tunnel.rs with the keepalive task they spawn, the Ctrl+C listeners  *)
(* they create and the backoff.  Establishing the hop chain and the -R     *)
(* registrations are steps that succeed or fail here; the network is the   *)
(* environment: it loses and closes sessions.                              *)
(***************************************************************************)
EXTENDS Naturals

CONSTANTS
  MaxGen,   \* bound: the largest generation that is ever handed out
  Hops      \* number of ProxyJump hosts before the destination

ASSUME SupervisorAssumption ==
  /\ MaxGen \in Nat \ {0}
  /\ Hops \in Nat
  /\ Hops < MaxGen

Gens == 1 .. MaxGen
NoSession == 0
Status == {"none", "up", "lost", "closed"}

FirstDelay == 1
MaxDelay == 60
Delays == {1, 2, 4, 8, 16, 32, 60}
DoubleDelay(d) == IF 2 * d < MaxDelay THEN 2 * d ELSE MaxDelay

VARIABLES
  pc,             \* where run() is: see TypeOK
  result,         \* what connect_and_run() returned, "none" while it runs
  everConnected,  \* run()'s local of that name
  delay,          \* the backoff, in seconds
  slow,           \* has this attempt lasted for more than 10 s?
  silent,         \* has the peer of the chain being built gone silent?
  heard,          \* the ctrl_c() futures a press of Ctrl+C has made ready
  monitor,        \* the keepalive task: "off", "ticking" or "reported"
  watched,        \* the session whose handle the keepalive task pings
  exit,           \* how run() ended, "none" while it runs
  hadTunnel,      \* history: was a session ever published?
  cell, fresh, nextGen, status

cellVars == <<cell, fresh, nextGen, status>>
ctlVars == <<pc, result, everConnected, delay, slow, silent, heard, monitor,
             watched, exit, hadTunnel>>
vars == <<pc, result, everConnected, delay, slow, silent, heard, monitor,
          watched, exit, hadTunnel, cell, fresh, nextGen, status>>

(* The states in which run()'s outer select! is polling connect_and_run(). *)
Attempting == {"connecting", "setup", "running", "disconnecting"}

TypeOK ==
  /\ pc \in Attempting \cup {"returned", "sleeping", "exited"}
  /\ result \in {"none", "ok", "err"}
  /\ everConnected \in BOOLEAN
  /\ delay \in Delays
  /\ slow \in BOOLEAN
  /\ silent \in BOOLEAN
  /\ heard \subseteq {"outer", "inner", "sleep"}
  /\ monitor \in {"off", "ticking", "reported"}
  /\ watched \in Gens \cup {NoSession}
  /\ exit \in {"none", "failed", "interrupted", "shutdown"}
  /\ hadTunnel \in BOOLEAN
  /\ cell \in Gens \cup {NoSession}
  /\ fresh \in Gens \cup {NoSession}
  /\ nextGen \in 1 .. (MaxGen + 1)
  /\ status \in [Gens -> Status]

Init ==
  /\ pc = "connecting"
  /\ result = "none"
  /\ everConnected = FALSE
  /\ delay = FirstDelay
  /\ slow = FALSE
  /\ silent = FALSE
  /\ heard = {}
  /\ monitor = "off"
  /\ watched = NoSession
  /\ exit = "none"
  /\ hadTunnel = FALSE
  /\ cell = NoSession
  /\ fresh = NoSession
  /\ nextGen = 1
  /\ status = [g \in Gens |-> "none"]
--------------------------------------------------------------------------------
(***************************************************************************)
(* connect_and_run().                                                      *)
(***************************************************************************)
(* Bound: a session is only spent while the numbers for a further chain    *)
(* are left, so that the last session of a behaviour does not die.         *)
Renewable == nextGen + Hops <= MaxGen

(* connect_and_run() returns: the ctrl_c() of the outer select! is dropped *)
(* with whatever it had heard.                                             *)
Return(r) ==
  /\ pc' = "returned"
  /\ result' = r
  /\ heard' = {}

(* Each hop of the chain takes a generation, the destination the last.     *)
ConnectOk ==
  /\ pc = "connecting" /\ ~silent
  /\ Renewable
  /\ pc' = "setup"
  /\ fresh' = nextGen + Hops
  /\ nextGen' = nextGen + Hops + 1
  /\ status' = [status EXCEPT ![nextGen + Hops] = "up"]
  /\ UNCHANGED <<result, everConnected, delay, slow, silent, heard, monitor,
                 watched, exit, hadTunnel, cell>>

(* The attempt fails after k hops of the chain are authenticated.          *)
ConnectFail ==
  /\ pc = "connecting" /\ ~silent
  /\ \E k \in 0 .. Hops :
       /\ nextGen + k + Hops <= MaxGen
       /\ nextGen' = nextGen + k
  /\ Return("err")
  /\ UNCHANGED <<everConnected, delay, slow, silent, monitor, watched, exit,
                 hadTunnel, cell, fresh, status>>

SetupOkUnmonitored ==     \* mutant: the keepalive task is not spawned
  /\ pc = "setup"
  /\ pc' = "running"
  /\ cell' = fresh /\ fresh' = NoSession
  /\ hadTunnel' = TRUE
  /\ UNCHANGED <<result, everConnected, delay, slow, silent, heard, monitor,
                 watched, exit, nextGen, status>>

(* The -R rules are registered: publish the session, start the keepalive.  *)
SetupOk ==
  /\ pc = "setup"
  /\ pc' = "running"
  /\ cell' = fresh
  /\ fresh' = NoSession
  /\ monitor' = "ticking"
  /\ watched' = fresh
  /\ hadTunnel' = TRUE
  /\ UNCHANGED <<result, everConnected, delay, slow, silent, heard, exit,
                 nextGen, status>>

SetupFailLeaks ==     \* mutant: the failed session is kept
  /\ pc = "setup" /\ status[fresh] # "lost" /\ Renewable
  /\ Return("err")
  /\ UNCHANGED <<everConnected, delay, slow, silent, monitor, watched, exit,
                 hadTunnel, cellVars>>

(* A registration is denied, or the session is gone: `?` drops the session *)
(* on the way out.  On a lost session the request is neither.              *)
SetupFail ==
  /\ pc = "setup"
  /\ status[fresh] # "lost" /\ Renewable
  /\ Return("err")
  /\ fresh' = NoSession
  /\ status' = [status EXCEPT ![fresh] = "closed"]
  /\ UNCHANGED <<everConnected, delay, slow, silent, monitor, watched, exit,
                 hadTunnel, cell, nextGen>>

PingFailsSilently ==     \* mutant: break without dead_tx.send()
  /\ monitor = "ticking" /\ pc # "exited" /\ status[watched] = "closed"
  /\ monitor' = "off"
  /\ UNCHANGED <<pc, result, everConnected, delay, slow, silent, heard,
                 watched, exit, hadTunnel, cellVars>>

PingAlwaysFails ==     \* mutant: a ping that is answered counts as failed
  /\ monitor = "ticking" /\ pc # "exited"
  /\ monitor' = "reported"
  /\ UNCHANGED <<pc, result, everConnected, delay, slow, silent, heard,
                 watched, exit, hadTunnel, cellVars>>

(* send_ping() fails on the watched session: dead_tx.send() and break.     *)
PingFails ==
  /\ monitor = "ticking" /\ pc # "exited"
  /\ status[watched] = "closed"
  /\ monitor' = "reported"
  /\ UNCHANGED <<pc, result, everConnected, delay, slow, silent, heard,
                 watched, exit, hadTunnel, cellVars>>

(* The dead_rx branch of the inner select!.                                *)
SessionDead ==
  /\ pc = "running"
  /\ monitor = "reported"
  /\ Return("err")
  /\ monitor' = "off"
  /\ watched' = NoSession
  /\ UNCHANGED <<everConnected, delay, slow, silent, exit, hadTunnel, cellVars>>

(* The ctrl_c() branch of the inner select! ...                            *)
Stop ==
  /\ pc = "running"
  /\ "inner" \in heard
  /\ pc' = "disconnecting"
  /\ UNCHANGED <<result, everConnected, delay, slow, silent, heard, monitor,
                 watched, exit, hadTunnel, cellVars>>

(* ... and the disconnect() it awaits.  The call hands a message to the    *)
(* session task and its error is ignored; that the session has ended is    *)
(* taken as one step with its return, since the program is leaving.        *)
Disconnect ==
  /\ pc = "disconnecting"
  /\ status' = [status EXCEPT ![cell] = "closed"]
  /\ Return("ok")
  /\ UNCHANGED <<everConnected, delay, slow, silent, monitor, watched, exit,
                 hadTunnel, cell, fresh, nextGen>>
--------------------------------------------------------------------------------
(***************************************************************************)
(* run().                                                                  *)
(***************************************************************************)
(* The ctrl_c() branch of the outer select!: connect_and_run() is dropped  *)
(* wherever it is, with the session it is setting up.                      *)
Interrupt ==
  /\ pc \in Attempting
  /\ "outer" \in heard
  /\ pc' = "exited"
  /\ exit' = "interrupted"
  /\ UNCHANGED <<result, everConnected, delay, slow, silent, heard, monitor,
                 watched, hadTunnel, cellVars>>

(* After the select!: was_connected, the cancellation of the -R rules (the *)
(* await that keeps run() in "returned"), send(None) and the match.        *)
GiveUpAnyTime == cell = NoSession     \* mutant: ever_connected is not asked

GiveUp == ~everConnected /\ cell = NoSession

ConcludeKeepsCell ==     \* mutant: send(None) is forgotten
  /\ pc = "returned" /\ result = "err" /\ ~GiveUp
  /\ pc' = "sleeping" /\ everConnected' = TRUE /\ result' = "none"
  /\ UNCHANGED <<delay, slow, silent, heard, monitor, watched, exit, hadTunnel,
                 cellVars>>

ConcludeReconnects ==     \* mutant: Ok(()) is handled like an error
  /\ pc = "returned" /\ ~GiveUp
  /\ cell' = NoSession
  /\ pc' = "sleeping" /\ everConnected' = TRUE /\ result' = "none"
  /\ UNCHANGED <<delay, slow, silent, heard, monitor, watched, exit, hadTunnel,
                 fresh, nextGen, status>>

Conclude ==
  /\ pc = "returned"
  /\ cell' = NoSession
  /\ result' = "none"
  /\ \/ /\ result = "ok"
        /\ pc' = "exited" /\ exit' = "shutdown"
        /\ UNCHANGED <<everConnected, delay>>
     \/ /\ result = "err" /\ GiveUp
        /\ pc' = "exited" /\ exit' = "failed"
        /\ UNCHANGED <<everConnected, delay>>
     \/ /\ result = "err" /\ ~GiveUp
        /\ pc' = "sleeping" /\ everConnected' = TRUE
        /\ delay' = IF slow THEN FirstDelay ELSE delay
        /\ UNCHANGED exit
  /\ UNCHANGED <<slow, silent, heard, monitor, watched, hadTunnel, fresh,
                 nextGen, status>>

(* The sleep(delay) branch of the backoff select!, and the next attempt.   *)
Wake ==
  /\ pc = "sleeping"
  /\ pc' = "connecting"
  /\ delay' = DoubleDelay(delay)
  /\ slow' = FALSE
  /\ silent' = FALSE
  /\ heard' = {}
  /\ UNCHANGED <<result, everConnected, monitor, watched, exit, hadTunnel,
                 cellVars>>

(* Its ctrl_c() branch.                                                    *)
InterruptSleep ==
  /\ pc = "sleeping"
  /\ "sleep" \in heard
  /\ pc' = "exited"
  /\ exit' = "interrupted"
  /\ UNCHANGED <<result, everConnected, delay, slow, silent, heard, monitor,
                 watched, hadTunnel, cellVars>>
--------------------------------------------------------------------------------
(***************************************************************************)
(* The environment: the user, the clock and the network.                   *)
(***************************************************************************)
(* A signal reaches the ctrl_c() futures that exist when it is delivered;  *)
(* when there is none it is lost.                                          *)
Listening ==
  IF pc = "running" THEN {"outer", "inner"}
  ELSE IF pc \in Attempting THEN {"outer"}
  ELSE IF pc = "sleeping" THEN {"sleep"}
  ELSE {}

CtrlC ==
  /\ heard' = heard \cup Listening
  /\ UNCHANGED <<pc, result, everConnected, delay, slow, silent, monitor,
                 watched, exit, hadTunnel, cellVars>>

TenSeconds ==
  /\ pc \in Attempting \/ (pc = "returned" /\ cell # NoSession)
  /\ slow' = TRUE
  /\ UNCHANGED <<pc, result, everConnected, delay, silent, heard, monitor,
                 watched, exit, hadTunnel, cellVars>>

GoSilent ==
  /\ pc = "connecting"
  /\ silent' = TRUE
  /\ UNCHANGED <<pc, result, everConnected, delay, slow, heard, monitor,
                 watched, exit, hadTunnel, cellVars>>

Lose(g) ==
  /\ status[g] = "up" /\ Renewable
  /\ status' = [status EXCEPT ![g] = "lost"]
  /\ UNCHANGED <<ctlVars, cell, fresh, nextGen>>

Close(g) ==
  /\ status[g] = "lost" \/ (status[g] = "up" /\ Renewable)
  /\ status' = [status EXCEPT ![g] = "closed"]
  /\ UNCHANGED <<ctlVars, cell, fresh, nextGen>>

Run ==
  \/ ConnectOk \/ ConnectFail \/ SetupOk \/ SetupFail
  \/ PingFails \/ SessionDead \/ Stop \/ Disconnect
  \/ Interrupt \/ Conclude \/ Wake \/ InterruptSleep

Environment ==
  \/ CtrlC \/ TenSeconds \/ GoSilent
  \/ \E g \in Gens : Lose(g) \/ Close(g)

Next == Run \/ Environment

(***************************************************************************)
(* Fairness: the tasks run (weak fairness of their steps), the attempts    *)
(* that a silent peer does not hold up end, and the server can be reached  *)
(* infinitely often (strong fairness of the steps that succeed).  A lost   *)
(* session is eventually closed: the pings are data on its connection, and *)
(* the transport gives up on data that is never acknowledged.              *)
(***************************************************************************)
Fairness ==
  /\ WF_vars(ConnectOk \/ ConnectFail) /\ SF_vars(ConnectOk)
  /\ WF_vars(SetupOk \/ SetupFail) /\ SF_vars(SetupOk)
  /\ WF_vars(PingFails) /\ WF_vars(SessionDead)
  /\ WF_vars(Stop \/ Interrupt) /\ WF_vars(Disconnect)
  /\ WF_vars(Conclude) /\ WF_vars(Wake \/ InterruptSleep)
  /\ \A g \in Gens : WF_vars(status[g] = "lost" /\ Close(g))

Spec == Init /\ [][Next]_vars
FairSpec == Spec /\ Fairness
--------------------------------------------------------------------------------
(***************************************************************************)
(* Properties.                                                             *)
(***************************************************************************)
(* The published session is the newest that was ever established: a        *)
(* client that finds another generation in the watch channel than the one  *)
(* it used may conclude that its own was replaced (tunnel.rs:476-479).     *)
PublishedIsNewest ==
  cell # NoSession => \A g \in Gens : status[g] # "none" => g <= cell

(* A published session is never left without someone who notices its end:  *)
(* while run() waits for it, a keepalive task pings that very session, or  *)
(* has its report in the dead_rx channel (tunnel.rs:309-335).              *)
SessionIsWatched ==
  /\ cell # NoSession => pc \in {"running", "disconnecting", "returned", "exited"}
  /\ pc = "running" => monitor # "off" /\ watched = cell

(* The program gives up with an error only while no tunnel has ever been   *)
(* up; afterwards it reconnects (tunnel.rs:116-136).                       *)
GivesUpOnlyAtStart == exit = "failed" => ~hadTunnel

(* Clients are never deprived of a session that works, and one session is  *)
(* never replaced by the next without an empty cell in between, whichever  *)
(* way connect_and_run() returned (tunnel.rs:102-121).                     *)
HealthySessionStays ==
  [][cell # NoSession /\ cell' # cell
       => status[cell] # "up" /\ cell' = NoSession]_vars

(* The supervisor implements the cell the local forwards rely on.          *)
SC == INSTANCE SessionCell
ImplementsSessionCell == SC!CellSpec

(* A session that stops working does not stay published (tunnel.rs:317-335,*)
(* 118-121).                                                               *)
DeadSessionWithdrawn ==
  (cell # NoSession /\ status[cell] # "up")
    ~> (cell = NoSession \/ pc = "exited")

(* The tunnel comes back after every loss, until the program ends: the     *)
(* only thing that holds up the loop for good is a peer that goes silent   *)
(* (tunnel.rs:94-158).                                                     *)
TunnelUp == cell # NoSession /\ status[cell] = "up"

OnlySilenceStopsIt == []<>(pc = "exited" \/ TunnelUp) \/ <>[]silent

(* A Ctrl+C that connect_and_run() has taken up ends the program: it never *)
(* reconnects instead (tunnel.rs:336-344, 124-127).                        *)
StopIsFinal == pc = "disconnecting" ~> pc = "exited"
--------------------------------------------------------------------------------
(***************************************************************************)
(* Statements of the documentation that the code does not live up to.      *)
(***************************************************************************)
(* "automatic reconnect and backoff" (README.md:15): the tunnel comes back *)
(* after every loss, until the program ends.                               *)
AlwaysRecovers == []<>(pc = "exited" \/ TunnelUp)
================================================================================
