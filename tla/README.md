# A verification development for weconn

`weconn` keeps SSH port forwards alive (`weconn ssh`, with reconnects) and
bridges TCP and WebSocket connections (`weconn bridge`).  This directory holds
TLA+ models of the program from its command line to its relays, the TLC runs that
check them on small instances, and TLAPS proofs about them for all instances.
Sources are cited as `file.rs:line`, relative to `src/src/`.

## The system

| Component | State it keeps | Operations | What makes it correct |
|---|---|---|---|
| Session supervisor, `tunnel.rs` `run`, `connect_and_run` | backoff, `ever_connected`, the watch channel with the published session, the keepalive task and its oneshot, the pending `ctrl_c()` futures | connect, register -R rules, publish, ping, notice the end, withdraw, back off, stop | the published session is the newest and is watched; only a dead session is withdrawn; the tunnel always comes back; the program gives up only before the first tunnel |
| Local forwards, `tunnel.rs` `local_forward_listener`, `wait_for_session`, `handle_local_connection` | per client: the session it uses, its attempts, its permits; two semaphores | accept, wait (120 s), acquire, open, retry (8 times), copy | permits are conserved; retries use newer sessions; waits end; waiting clients do not starve others |
| Remote forwards, `tunnel.rs` `setup_remote_forwards`, `client.rs` | `actual_port` of each rule; the tasks of incoming connections | register, roll back, cancel, match a connection to a rule | registration is all or nothing; a connection is matched with the rules the server listens for, and taken only by its own or a rival; no port outlives its attempt |
| Hop chain and authentication, `ssh_session.rs` | the handles of the hops, the place in the path and in the identity files | connect directly or through a channel, authenticate | hops in order, their handles kept; the password only to the final host; a good credential is found |
| Host keys, `client.rs` `check_server_key` | `known_hosts`, shared with other programs | accept, learn, refuse | for one key algorithm: a changed key is never accepted, an unchanged one never refused, what was accepted stays known |
| Bridge accept loops, `bridge.rs` | the connection semaphore, the client each loop holds | accept, acquire, handshake, upstream attempts (3), relay | permits are conserved; only live relays keep a client out; Ctrl+C ends it |
| WebSocket relay, `bridge.rs` `proxy_tcp_websocket` | the two halves, the shared writer lock | copy, ping/pong, close | order and completeness of the data, half-close, neither direction blocks the other |
| WebSocket opening, `bridge.rs` `websocket_request`, `validate_websocket_request` | none | request, check of path and token | two bridges that are given one URL meet |
| Forward specifications, `ssh_forward.rs`; configuration, `ssh_config.rs`; command line, `cli.rs`, `main.rs` | none | parse, resolve, validate, dispatch | the documented grammar and precedence; what is accepted can run |

How they interact: `main()` parses and dispatches; `run()` resolves the path of
hosts, then connects to it again and again.  It writes each session into a watch
channel that every local client task reads; the supervisor and the tasks of -R
connections share the `actual_port` atomics; the local listeners share two
semaphores; `known_hosts` is shared with earlier and later runs and with other
programs; the two directions of a WebSocket relay share the writer; Ctrl+C is
heard by whatever `ctrl_c()` futures exist at that moment.  Hard behaviours:
futures that are dropped by a `select!`, a session that is dead but still
published, a dead session whose ports the server still holds, state read after
an await, a check and a write with other programs in between.  The hazards are
listed at their lines in `PROJECT.json`.

## Modules

* `SessionCell` - abstract: a cell that is empty or holds one session.  Sessions
  are named by generation; each goes from `up` to `lost` (unnoticed) to `closed`.
* `Supervisor` - the loop in detail.  `pc` is the place of `run()`: `connecting`
  (in `connect_target`), `setup` (registering -R rules), `running` (inner
  `select!`), `disconnecting`, `returned` (between the outer `select!` and
  `send(None)`, where the cancellations are awaited), `sleeping`, `exited`.
  `heard` is the set of `ctrl_c()` futures that are ready: the one of the outer
  `select!`, of the inner one, of the backoff.  It implements `SessionCell`
  (`SC == INSTANCE SessionCell`; the variables of the cell are its own).
* `LocalForward` - one task per client over a `SessionCell`.  `at` is the await
  the task is in.  `Open` splits in its outcome and what follows (`Drop`,
  `Retry`), because the watch channel may change in between.
* `Tunnel` - `Supervisor` and `LocalForward` around the shared channel.  Its
  property `ImplementsLocalForward` discharges what `LocalForward` assumes of
  the sessions.
* `RemoteForward` - registration, clean-up and matching, against an SSH server
  that grants, denies, and frees ports late.  `Init` ranges over all rule sets
  the validation lets through.  A reply carries a port only when the server
  chose it (RFC 4254, 7.1), so `actual_port` stays 0 for a fixed port, which is
  why clean-up passes over those rules.
  `Sockets` says which sockets the server tries for a bind host: two for
  `localhost`, `*` or no host, and a request is granted when one of them can be
  had, as OpenSSH does, so that `127.0.0.1` and `localhost` may have one port.  A
  number the server chooses has only to be free on that host: it may be in use on
  another, or be asked for by another rule.  The address it reports for a
  connection may be any, or none (`reported`); the port is that of the listener.
  `given` is a history of the ports on this session, for the properties.
* `HopChain` - one attempt after another along the path.  `at` is the step at
  host `hop`; `sess` are the sessions whose handles are held, each running in the
  one before it, so that a session whose carrier goes is shut (`CarrierGone`).
  `check` and `learn` are the two halves of `check_server_key`, between which
  `OtherLearns` may write.  A server hangs up after `MaxTries` refused
  credentials.  `Restart` ends the program wherever it is; only `known` survives.
* `ForwardSpec`, `SshConfig`, `BridgeArgs` - operators: `parse_forward_spec` over
  the fields between colons (a text in brackets is one field), `resolve_target`,
  `parse_bridge` with `Dispatch`, and the two ends of a WebSocket opening.  The
  documented grammar and precedence stand beside them as `Expected`,
  `ExpectedHost` and `InOrder` (the jumps in the order given).  A token that is not
  given is "", a port that is not given 0.
* `Launch` - `main()`: parse, resolve, validate, and `HopChain` from there.
* `Bridge` - the accept loops up to the relay.
* `Pipe` - abstract: a pipe that hands on what was put in, in order and once, and
  shows a clean end only when nothing is missing.
* `WsProxy` - the two futures of `proxy_tcp_websocket`, `up` and `down`, each with
  its await and what it has in hand; the mutex; the two sockets.  The library is
  external: it refuses every frame after a Close of either side, and answers a
  Close with the next close or flush.  It implements a `Pipe` per direction.
* `MC*` - TLC instances with a `.cfg` each; `Bug*.cfg` are the runs that show
  where the code departs from its documentation.
* `*Proofs` - the proofs about the module of that name.

Definitions marked `mutant` are not part of the models: each is a plausible bug
used to make sure that a property can fail.

## Runs

| Run | Question | Bounds |
|---|---|---|
| `supervisor` | safety, liveness and refinement of the reconnect loop | 6 generations, 1 hop: three sessions, so that one is replaced by one that is replaced itself |
| `local_forward` | permits, retries, waits that end | 3 clients, 2 waiting permits, 1 forward permit, 2 attempts, 2 sessions |
| `tunnel` | the composition implements `LocalForward` | 2 symmetric clients, 3 sessions |
| `remote_forward` | registration and matching | 2 rules over 5 hosts (with partial conflicts, and one of them empty), 2 ports, every reported address, 2 sessions remembered by the server, 1 connection task |
| `remote_forward_live` | registered again after a loss | 2 rules over 4 hosts, 4 ports (two server-chosen ports for each of two sessions), no connections |
| `bridge` | permits of the bridge, stalled clients do not block | 3 clients, 2 connections, 2 attempts |
| `ws_proxy` | each direction is a pipe, nothing is lost without a cause, neither blocks the other, Close ends the relay | buffers of 2 units, sockets of 1 frame, 3 units each way, 1 ping |
| `launch` | parsing, resolution and dispatch as documented; keys, credentials and reconnects along the chain | rules of up to 5 fields, pairs of rules, every mix of options, alias and config, bridges between 49 URLs; paths of 3 and 1 hosts, 1 fault, 1 changed key, 1 restart, 2 tries |

Sessions are interchangeable but for their order, and every action looks at one
client (rule) and at most one semaphore, so two or three of each show every
interference.  Ports are interchangeable but for being equal or not.  In the
relay a unit differs from others only by its place: with three a read or a
message may take one or two of them and leave one, and a socket of one frame
makes both directions wait for room.  A jump host has a host before it, one after
it or both, which three show; one fault, one changed key and one restart meet
each other in every order.

Where sessions are numbered (`MaxGen`) the bound is `Renewable`: a session dies
only while numbers are left for the next, and an attempt fails only then, so
that the last session of a behaviour stays.  Liveness is thus checked for a
bounded number of losses.  `RemoteForward` reuses the numbers the server has
forgotten and has no such end.  In `Launch` the faults are bounded, the attempts
are not.  Deadlock checking is off where the program may end, or the last session
may last for ever.

The violation runs, each one line of documentation against the code:

| Run | What happens |
|---|---|
| `silent_peer` | a peer that goes silent during connection or authentication blocks reconnecting for ever: no timeout, no keepalive before publication |
| `clients_dropped` | a client that meets the session during the clean-up, after it was reported dead, is dropped |
| `bridge_ctrl_c` | Ctrl+C lost between two `accept_or_shutdown()` |
| `ipv6_destination` | `80:[::1]:80`, a rule with a destination in brackets and no bind address, is refused |

Other departures are stated as exceptions in the properties that hold but for
them.  Two -R rules that pass the validation may compete for connections to one
number: fixed ones on hosts that the matching does not tell apart (`127.0.0.1`,
`::1` and `localhost`; `0.0.0.0`, `*` and no host), or on any hosts when the
server reports no address; and a rule whose number the server chose, on any
host (`client.rs:41`).  With both known, the connection is ignored (`Claiming` of
`MatchingIsServed`, `Rival` of `TurnedAwayForAReason`).  Before `set_bound_port`
the rule of a chosen number does not know it: a connection that comes so early is
ignored, or goes to the destination of another rule, say that of
`-R [::1]:40000` when the server picked 40000 for `-R 127.0.0.1:0`
(`RoutedToItsRule`).  Furthermore, a host may be empty in a rule without brackets
(`RulesAsDocumented`); a ping after the relay's own Close ends the relay with data
in flight (`LossHasCause`, `LatePing`), as does the Close of the WebSocket peer for
what it has still to be sent.

Behaviours of the models that no document rules out, so that no run is about
them: Ctrl+C with the tunnel up may take the branch of the outer `select!`,
without `disconnect()` (`Interrupt` in `running`); an attempt that fails after
more than ten seconds resets the backoff (`Conclude` with `slow`); clients that
wait again before a retry are not counted by the waiting limit (they keep their
forward permit, see `Places` of `LocalForward`); "forwards active" is reported
with a -L listener that could not bind (`Bind`).

## Fairness

Tokio tasks run and timers fire: weak fairness of their steps.  Strong fairness
is assumed where the code promises nothing but the world does: a server that
can be reached again and again is reached (`ConnectOk`, `SetupOk`, `Grant`,
`StoreBound` on an open session), and of the semaphores, the writer mutex and the
listen queue, which are served first come first served (`Acquire`, `UpLock`,
`DownLock`, `Accept`).  A server with thousands of numbers to choose from does not
for ever choose those that other rules ask for.  A lost session
is closed in the end because the pings are data the transport gives up on.  A peer
that goes silent before that (`GoSilent`) holds up its attempt for ever, and
`OnlySilenceStopsIt` says that nothing else does.  `NeitherHoldsUpTheOther` and
`CloseEndsRelay` assume that both peers of a relay go on reading; no peer has to
send or to end.  In `Launch` the attempt goes on (`Attempt`), and a session task
notices that its carrier is gone (`CarrierGone`).
There is none for Ctrl+C, for the loss of sessions, for clients, and for the end
of a copy or a relay.

## Proofs

For every value of the constants, under the named assumptions on them:

* `SupervisorProofs`: `IInv` strengthens the properties with where `run()` can be
  while a session is published or fresh (`CellInv`, `FreshInv`), that generations
  come from the counter (`StatusInv`), that the keepalive task reports only the
  end of the session it pings (`MonitorInv`), and how `hadTunnel` relates to
  `ever_connected` (`ExitInv`).  `CellInv` says the session is closed once
  `connect_and_run()` has returned: this is what makes `Conclude` a legal
  `Withdraw`.  From it: `TypeCorrect`, `NewestPublished`, `AlwaysWatched`,
  `FailsOnlyAtStart`, `HealthyStays` and `Refinement` (of `SessionCell`).
* `LocalForwardProofs`: `MoveCounts` says how one move changes the number of
  permit holders, from the theorems on finite cardinality; `NewerInv` orders the
  sessions tasks hold before those to come.  From these: `TypeCorrect`,
  `PermitsAreConserved`, `RetriesAreJustified`, `RetriesAdvance`.
* `TunnelProofs` cites the two above (`SP`, `LP`): every step of the whole is one
  of the supervisor or leaves it alone, and by `SP!NextRefines` a step of the
  supervisor is one of the cell `LocalForward` extends.  Hence
  `ForwardsAreImplemented`, and with it `TypeCorrect` and `PermitsHold` for the
  whole program.  `HeldInv` (a session a client holds was established, and if it
  works it is the published one) gives `WorkingSessionsAreCurrent`.
* `RemoteForwardProofs`: the loops of registration and clean-up have come as far
  as their index says (`LoopInv`, `CleanInv`), the ports stored are those the
  server has given on this session (`PortsInv`), each listener of the session was
  asked for by one rule (`ListenersInv`, `Genuine`), the rules requested so far
  have theirs (`RegisteredInv`), and what a task has found are its own rule or
  rivals (`TasksInv`, `Search`).  From these: `NoPortIsStale`,
  `AllRulesAreRegistered`, `ConnectionsReachTheirRule`, `IgnoredForAReason`,
  `ClaimsAreKnown`, for any number of rules, hosts, ports and sessions, and
  whatever sockets a host stands for.
* `BridgeProofs`: permits as for the local forwards, with `AttemptsLeft`; one
  client at most stands between `accept()` and the semaphore.
* `HopChainProofs`: nothing is connected ahead of the attempt
  (`SessionsAreBehind`, `AttemptInOrder`), keys are those of their servers
  (`KeysHaveOwners`, `FirstKeys`).  From these: `PasswordIsForTheTarget`,
  `OnlyChangedKeysAreRefused`, `AcceptedOnceIsKnown`, for paths of any length and
  any number of faults, changed keys and restarts.  A session runs as long as the
  one it runs inside (`CarriedInv`), so that as long as nothing fails outside the
  first session to end was refused too many credentials:
  `SessionsEndForAReason`.  `TriedInv` relates the refusals a server has counted
  to the files before the one `authenticate()` has come to (`RefusalsCount`, by
  finite cardinality), none of which was good, or else to the file at which the
  server hung up: `GoodCredentialIsFound`, for any number of files.
* `WsProxyProofs`: the units are numbered, so that a stretch of a stream is known
  by the number it begins after (`From`), and frames carry adjacent stretches with
  an offset for each (`Adjacent`), which needs no recursion over the frames.
  `UpTo(m)` follows the stream to the WebSocket (up to unit `m` it has arrived or
  is in frames, then comes the buffer, then the socket), `DownAt(n)` the other
  one.  A Close is the last frame each way (`CloseInv`), and the writer is used by
  its owner and not after a Close (`LockInv`).  From these: `TypeCorrect`,
  `ToWsIsAPipe`, `ToTcpIsAPipe`, each a refinement of `Pipe`, for all sizes of
  buffers, sockets and streams.  `EndInv` says which direction has seen to a Close
  and that a pong is due to a ping; it gives `LossIsExplained`.
* `LaunchProofs`: the chain begins as `HopChain` assumes (`BeginsAsAssumed`), so
  that those five hold of the run `main()` starts; and, for all URLs and tokens,
  `NothingIsUnreachable` and `BridgesAgree`.  `SshInv` says that past the parser
  the rules and the target are what `ParseSshArgs` and `Resolve` made of the
  command, which gives, for lists of any length, three more.  `RulesAreRead`: the
  parser, read case by case, agrees with the grammar (`RuleAsDocumented`).
  `AcceptedIsFinal`: the two checks for equal binds, one at the command line and one
  in `run()`, agree (`ValidationsAgree`), although one is modelled by counting and the
  other by comparing pairs.  `TargetIsResolved`: the jumps are those of all `-J`, in order,
  less the empty ones (`JumpNamesInOrder`), and every setting is the first that
  is given (`FirstOfFour` and its like).  The lists of jumps are flattened by a
  recursive function; what it computes is proved by taking the least length at
  which it would be wrong (`Induction`, from the well-foundedness of the naturals),
  and that it exists by joining the functions for all lengths (`Recursion`).

Liveness itself is out of reach, but not what it rests on.  For each component
whose run checks a liveness property, a theorem shows its safe part for all
instances:

| Liveness, in the runs | Safe part, proved |
|---|---|
| `StopIsFinal` | `NoWayBack`: once a Ctrl+C is taken up, `run()` never sleeps or connects again |
| `DeadSessionWithdrawn` | `AlwaysWatched`: a published session is pinged, or its end is reported |
| `OnlyCopiesBlock` | `TasksLeadOn`: each move of a task raises `Progress`, which is at most `6 * MaxRetries + 5` |
| `OnlyRelaysBlock` | `ClientsLeadOn`: the same for a client of the bridge, at most `2 * UPSTREAM_RETRIES + 2` |
| `RegisteredAgain` | `LoopsLeadOn`: registration and clean-up together take at most `4 * NumRules + 8` steps |
| `RunReconnects` | `AttemptsLeadOn`: no attempt goes back to a host or an identity file |
| `NeitherHoldsUpTheOther` | `WriterIsInUse`: the writer is held by a future that is in a `send()` or `close()`, and by no other |
| `CloseEndsRelay` | `CloseRunsDown`: after the peer's Close the frames and what is in hand only get fewer |

What remains of those properties is that a process that can move does, which is
the fairness above.  The whole program inherits them: `TunnelProofs` has
`RetriesHold`, `TasksEnd` and `NoWayBackWithClients`, `LaunchProofs` has
`LaunchedAttemptsLeadOn`.

The type invariants of `Supervisor`, `LocalForward`, `Tunnel`, `RemoteForward`,
`Bridge` and `HopChain` are proved rather than run.

Only model-checked: the liveness properties, because the prover handles neither
fairness nor `ENABLED`.  Every invariant, action property and refinement the
passing runs check is proved.

## Not modelled, and the plan

Abstracted: data on channels, wording of messages, the SSH protocol below
`tcpip_forward` and `direct-tcpip`, ports above 16 bits (the server replies with
ports).  A token that no header can hold makes every connection of a bridge fail
alike (`OddTokens`).  Text processing is not modelled: the splitting of a rule at
its colons and of `user@host:port`, the parsing of `~/.ssh/config` (crate
`ssh2_config`; a file it rejects counts as empty), tilde expansion, URLs (crate
`url`), the format of `known_hosts` and its hashed names, the declarations of
`clap`.  The host key check is for one algorithm (a recorded key of another one counts as
unknown in the code).  `disconnect()` only hands a message to the session task and
its error is ignored: `Disconnect` takes its return and the end of the session as
one step; that `ctrl_c()` itself may fail (`?`) is left out.  Tracing and help texts are not
behaviour.

Left: two bridges back to back.  Each is a pipe both ways, the pair is not: the
Close by which one hands on the end of a stream makes the other return, with
what it has not yet sent the opposite way.
