--------------------------------- MODULE WsProxy ---------------------------------
(***************************************************************************)
(* The relay between a TCP and a WebSocket connection, proxy_tcp_websocket *)
(* of src/bridge.rs: two futures of one task, joined by select!, that      *)
(* share the WebSocket's writing half behind a mutex.  The peers and the   *)
(* network are the environment.  The WebSocket library is external: it     *)
(* refuses every frame after a Close in either direction, and its own      *)
(* reply to a Close goes out with the next close() or flush.               *)
(***************************************************************************)
EXTENDS Naturals, Sequences

CONSTANTS
  BufSize,    \* units a read() takes at most (16 KiB)
  WireCap,    \* frames or units a socket buffer holds
  MaxUnits,   \* bound: units each peer sends
  MaxPings    \* bound: pings the WebSocket peer sends

ASSUME ProxyAssumption ==
  {BufSize, WireCap} \subseteq Nat \ {0} /\ {MaxUnits, MaxPings} \subseteq Nat

VARIABLES
  up,        \* tcp_to_ws: its place, and the buffer it has read
  down,      \* ws_to_tcp: its place, and what it has still to write
  lock,      \* the writer mutex: "free", "up" or "down"
  result,    \* of the relay: "none" while it runs, "ok" or "err"
  ws,        \* the WebSocket: Close frames exchanged, is its transport gone?,
             \* frames on their way out and in, pings received so far
  tcp,       \* the TCP connection: units on their way in and out, and the
             \* peer's stream: "open", "fin" or "reset"
  toWs,      \* history: what one peer has sent and what has arrived at the
  toTcp      \* other, for each direction

vars == <<up, down, lock, result, ws, tcp, toWs, toTcp>>

Units == 1 .. MaxUnits
Ends == {"open", "clean", "cut"}
Frame(kind, data) == [kind |-> kind, data |-> data]
Control(kind) == Frame(kind, <<>>)
Running == result = "none"

TypeOK ==
  /\ up.at \in {"read", "lock", "send", "lockClose", "close", "done", "over"}
  /\ down.at \in {"next", "write", "lockPong", "pong", "lockClose", "close", "over"}
  /\ {up.hand, down.hand} \subseteq Seq(Units) /\ Len(up.hand) <= BufSize
  /\ lock \in {"free", "up", "down"} /\ result \in {"none", "ok", "err"}
  /\ ws.closes \subseteq {"sent", "received"} /\ ws.broken \in BOOLEAN
  /\ Len(ws.out) <= WireCap /\ Len(tcp.out) <= WireCap /\ ws.pings \in 0 .. MaxPings
  /\ tcp.end \in {"open", "fin", "reset"}
  /\ toWs.end \in Ends /\ toTcp.end \in Ends /\ toTcp.closed \in BOOLEAN

Init ==
  /\ up = [at |-> "read", hand |-> <<>>] /\ down = [at |-> "next", hand |-> <<>>]
  /\ lock = "free" /\ result = "none"
  /\ ws = [closes |-> {}, broken |-> FALSE, out |-> <<>>, in |-> <<>>, pings |-> 0]
  /\ tcp = [in |-> <<>>, out |-> <<>>, end |-> "open"]
  /\ toWs = [sent |-> <<>>, got |-> <<>>, end |-> "open"]
  /\ toTcp = [sent |-> <<>>, closed |-> FALSE, got |-> <<>>, end |-> "open"]
--------------------------------------------------------------------------------
(***************************************************************************)
(* What both directions use.                                               *)
(***************************************************************************)
(* proxy_tcp_websocket() returns: both futures are dropped with what they  *)
(* hold, a guard of the mutex included, and both sockets are closed.       *)
Return(r) ==
  /\ result' = r
  /\ up' = [at |-> "over", hand |-> <<>>] /\ down' = [at |-> "over", hand |-> <<>>]
  /\ lock' = "free"

Lock(who) == lock = "free" /\ lock' = who /\ UNCHANGED <<result, ws>>

(* send(): the library refuses the frame or takes it as soon as the lock   *)
(* is there; then the frame waits for room.                                *)
Refused == ws.broken \/ ws.closes # {}

Send(frame) ==
  /\ ~ws.broken /\ Len(ws.out) < WireCap
  /\ ws' = [ws EXCEPT !.out = Append(@, frame)]

(* close(): sends our Close, or the reply that is due; its error is        *)
(* ignored, and there is nothing to do when ours is out.                   *)
SendClose ==
  IF ws.broken \/ "sent" \in ws.closes THEN UNCHANGED ws
  ELSE /\ Len(ws.out) < WireCap
       /\ ws' = [ws EXCEPT !.out = Append(@, Control("close")),
                           !.closes = @ \cup {"sent"}]
--------------------------------------------------------------------------------
(***************************************************************************)
(* tcp_to_ws.                                                              *)
(***************************************************************************)
UpReadAll ==     \* mutant: the buffer grows with what is there
  /\ up.at = "read" /\ tcp.in # <<>>
  /\ up' = [at |-> "lock", hand |-> tcp.in]
  /\ tcp' = [tcp EXCEPT !.in = <<>>]
  /\ UNCHANGED <<down, lock, result, ws, toWs, toTcp>>

UpRead ==
  /\ up.at = "read" /\ tcp.in # <<>>
  /\ \E n \in 1 .. Len(tcp.in) :
       /\ n <= BufSize
       /\ up' = [at |-> "lock", hand |-> SubSeq(tcp.in, 1, n)]
       /\ tcp' = [tcp EXCEPT !.in = SubSeq(@, n + 1, Len(@))]
  /\ UNCHANGED <<down, lock, result, ws, toWs, toTcp>>

UpReadEof ==
  /\ up.at = "read" /\ tcp.in = <<>> /\ tcp.end = "fin"
  /\ up' = [up EXCEPT !.at = "lockClose"]
  /\ UNCHANGED <<down, lock, result, ws, tcp, toWs, toTcp>>

UpLock ==
  /\ Lock("up")
  /\ \/ up.at = "lock" /\ ~Refused /\ up' = [up EXCEPT !.at = "send"]
     \/ up.at = "lockClose" /\ up' = [up EXCEPT !.at = "close"]
  /\ UNCHANGED <<down, tcp, toWs, toTcp>>

UpSendKeepsHand ==     \* mutant: a send that has to wait is begun again
  /\ up.at = "send" /\ Send(Frame("data", up.hand))
  /\ lock' = "free"
  /\ up' \in {[at |-> "read", hand |-> <<>>], [up EXCEPT !.at = "lock"]}
  /\ UNCHANGED <<down, result, tcp, toWs, toTcp>>

UpSend ==
  /\ up.at = "send" /\ Send(Frame("data", up.hand))
  /\ lock' = "free"
  /\ up' = [at |-> "read", hand |-> <<>>]
  /\ UNCHANGED <<down, result, tcp, toWs, toTcp>>

UpCloseReturns ==     \* mutant: the relay does not wait for the other direction
  /\ up.at = "close" /\ SendClose
  /\ Return("ok")
  /\ UNCHANGED <<tcp, toWs, toTcp>>

(* Ok(()): from here on only ws_to_tcp is awaited.                         *)
UpClose ==
  /\ up.at = "close" /\ SendClose
  /\ lock' = "free"
  /\ up' = [up EXCEPT !.at = "done"]
  /\ UNCHANGED <<down, result, tcp, toWs, toTcp>>

(* `result?`: a failed read() or send() ends the relay.  A flush may fail  *)
(* once the peer has closed.                                               *)
UpFails ==
  /\ \/ up.at = "read" /\ tcp.end = "reset"
     \/ up.at = "lock" /\ lock = "free" /\ Refused
     \/ up.at = "send" /\ (ws.broken \/ ws.closes = {"received"})
  /\ Return("err")
  /\ UNCHANGED <<ws, tcp, toWs, toTcp>>
--------------------------------------------------------------------------------
(***************************************************************************)
(* ws_to_tcp.                                                              *)
(***************************************************************************)
DownNext ==
  /\ down.at = "next" /\ ws.in # <<>>
  /\ LET frame == Head(ws.in) IN
       \/ /\ frame.kind = "data" /\ down' = [at |-> "write", hand |-> frame.data]
          /\ ws' = [ws EXCEPT !.in = Tail(@)]
       \/ /\ frame.kind = "ping" /\ down' = [down EXCEPT !.at = "lockPong"]
          /\ ws' = [ws EXCEPT !.in = Tail(@)]
       \/ /\ frame.kind = "close" /\ down' = [down EXCEPT !.at = "lockClose"]
          /\ ws' = [ws EXCEPT !.in = Tail(@), !.closes = @ \cup {"received"}]
  /\ UNCHANGED <<up, lock, result, tcp, toWs, toTcp>>

CanWrite == down.at = "write" /\ tcp.end # "reset" /\ Len(tcp.out) < WireCap

DownWriteSome ==     \* mutant: write() in place of write_all()
  /\ CanWrite
  /\ tcp' = [tcp EXCEPT !.out = Append(@, Head(down.hand))]
  /\ down' = [at |-> "next", hand |-> <<>>]
  /\ UNCHANGED <<up, lock, result, ws, toWs, toTcp>>

(* write_all(): a unit at a time, as the socket buffer has room.           *)
DownWrite ==
  /\ CanWrite
  /\ tcp' = [tcp EXCEPT !.out = Append(@, Head(down.hand))]
  /\ down' = [at |-> IF Len(down.hand) = 1 THEN "next" ELSE "write",
              hand |-> Tail(down.hand)]
  /\ UNCHANGED <<up, lock, result, ws, toWs, toTcp>>

DownLock ==
  /\ Lock("down")
  /\ \/ down.at = "lockPong" /\ ~Refused /\ down' = [down EXCEPT !.at = "pong"]
     \/ down.at = "lockClose" /\ down' = [down EXCEPT !.at = "close"]
  /\ UNCHANGED <<up, tcp, toWs, toTcp>>

DownPongKeepsLock ==     \* mutant: the guard lives on
  /\ down.at = "pong" /\ Send(Control("pong"))
  /\ down' = [down EXCEPT !.at = "next"]
  /\ UNCHANGED <<up, lock, result, tcp, toWs, toTcp>>

DownPong ==
  /\ down.at = "pong" /\ Send(Control("pong"))
  /\ lock' = "free"
  /\ down' = [down EXCEPT !.at = "next"]
  /\ UNCHANGED <<up, result, tcp, toWs, toTcp>>

DownCloseContinues ==     \* mutant: the `break` is forgotten
  /\ down.at = "close" /\ SendClose
  /\ lock' = "free"
  /\ down' = [down EXCEPT !.at = "next"]
  /\ UNCHANGED <<up, result, tcp, toWs, toTcp>>

(* close(), break, shutdown() of the TCP side: the relay is over.          *)
DownClose ==
  /\ down.at = "close" /\ SendClose
  /\ Return("ok")
  /\ UNCHANGED <<tcp, toWs, toTcp>>

(* The stream, write_all() or the pong fails.                              *)
DownFails ==
  /\ \/ down.at = "next" /\ ws.in = <<>> /\ ws.broken
     \/ down.at = "write" /\ tcp.end = "reset"
     \/ down.at = "lockPong" /\ lock = "free" /\ Refused
     \/ down.at = "pong" /\ ws.broken
  /\ Return("err")
  /\ UNCHANGED <<ws, tcp, toWs, toTcp>>
--------------------------------------------------------------------------------
(***************************************************************************)
(* The peers and the network.                                              *)
(***************************************************************************)
relay == <<up, down, lock, result>>

TcpPeerSends ==
  LET unit == Len(toWs.sent) + 1 IN
  /\ tcp.end = "open" /\ unit <= MaxUnits
  /\ toWs' = [toWs EXCEPT !.sent = Append(@, unit)]
  /\ tcp' = [tcp EXCEPT !.in = Append(@, unit)]
  /\ UNCHANGED <<relay, ws, toTcp>>

TcpPeerEnds ==
  /\ tcp.end = "open" /\ tcp' = [tcp EXCEPT !.end = "fin"]
  /\ UNCHANGED <<relay, ws, toWs, toTcp>>

Cut(pipe) == [pipe EXCEPT !.end = IF @ = "open" THEN "cut" ELSE @]

TcpReset ==
  /\ tcp.end # "reset" /\ tcp' = [in |-> <<>>, out |-> <<>>, end |-> "reset"]
  /\ toTcp' = Cut(toTcp)
  /\ UNCHANGED <<relay, ws, toWs>>

TcpPeerReads ==
  /\ tcp.out # <<>> /\ tcp' = [tcp EXCEPT !.out = Tail(@)]
  /\ toTcp' = [toTcp EXCEPT !.got = Append(@, Head(tcp.out))]
  /\ UNCHANGED <<relay, ws, toWs>>

(* The end of the stream looks the same whether the relay returned Ok(())  *)
(* or an error: that it is "cut" is what the observer knows.               *)
TcpPeerSeesEnd ==
  /\ ~Running /\ tcp.out = <<>> /\ toTcp.end = "open"
  /\ toTcp' = [toTcp EXCEPT !.end = IF result = "ok" THEN "clean" ELSE "cut"]
  /\ UNCHANGED <<relay, ws, tcp, toWs>>

(* The WebSocket peer sends messages of one or two units, pings and Close. *)
WsPeerSends ==
  /\ ~toTcp.closed /\ ~ws.broken
  /\ \/ \E n \in 1 .. 2 :
          LET data == [i \in 1 .. n |-> Len(toTcp.sent) + i] IN
          /\ Len(toTcp.sent) + n <= MaxUnits
          /\ toTcp' = [toTcp EXCEPT !.sent = @ \o data]
          /\ ws' = [ws EXCEPT !.in = Append(@, Frame("data", data))]
     \/ /\ ws.pings < MaxPings
        /\ ws' = [ws EXCEPT !.in = Append(@, Control("ping")), !.pings = @ + 1]
        /\ UNCHANGED toTcp
     \/ /\ toTcp' = [toTcp EXCEPT !.closed = TRUE]
        /\ ws' = [ws EXCEPT !.in = Append(@, Control("close"))]
  /\ UNCHANGED <<relay, tcp, toWs>>

(* A Close that is no reply to the peer's own says that the TCP stream is  *)
(* complete.                                                               *)
WsPeerReads ==
  /\ ws.out # <<>> /\ ws' = [ws EXCEPT !.out = Tail(@)]
  /\ toWs' = [toWs EXCEPT !.got = @ \o Head(ws.out).data,
                          !.end = IF Head(ws.out).kind # "close" THEN @
                                  ELSE IF toTcp.closed THEN "cut" ELSE "clean"]
  /\ UNCHANGED <<relay, tcp, toTcp>>

(* The connection breaks, or the relay has dropped it without a Close.     *)
WsBreaks ==
  /\ ~ws.broken /\ ws' = [ws EXCEPT !.broken = TRUE, !.out = <<>>]
  /\ toWs' = Cut(toWs)
  /\ UNCHANGED <<relay, tcp, toTcp>>

Up == UpRead \/ UpReadEof \/ UpLock \/ UpSend \/ UpClose \/ UpFails
Down == DownNext \/ DownWrite \/ DownLock \/ DownPong \/ DownClose \/ DownFails

Peers ==
  \/ TcpPeerSends \/ TcpPeerEnds \/ TcpReset \/ TcpPeerReads \/ TcpPeerSeesEnd
  \/ WsPeerSends \/ WsPeerReads \/ WsBreaks

Next == Up \/ Down \/ Peers

Spec == Init /\ [][Next]_vars

(***************************************************************************)
(* Fairness: the task runs, tokio's mutex is first come first served, and  *)
(* both peers go on reading.  Nothing makes a peer send or end.            *)
(***************************************************************************)
Fairness ==
  /\ WF_vars(Up) /\ SF_vars(UpLock) /\ WF_vars(Down) /\ SF_vars(DownLock)
  /\ WF_vars(TcpPeerReads) /\ WF_vars(WsPeerReads)

FairSpec == Spec /\ Fairness
--------------------------------------------------------------------------------
(***************************************************************************)
(* Properties.                                                             *)
(***************************************************************************)
(* What the TCP peer sends arrives at the WebSocket peer in order, once,   *)
(* and a Close that the peer has not provoked means that all of it has     *)
(* (bridge.rs:424-443).                                                    *)
ToWs == INSTANCE Pipe WITH sent <- toWs.sent, closed <- tcp.end # "open",
                           got <- toWs.got, end <- toWs.end
ToWsIsPipe == ToWs!PipeSpec

(* What the WebSocket peer sends arrives at the TCP peer in order, once,   *)
(* and all of it before the stream ends when the relay returns Ok(())      *)
(* (bridge.rs:445-472).                                                    *)
ToTcp == INSTANCE Pipe WITH sent <- toTcp.sent, closed <- toTcp.closed,
                            got <- toTcp.got, end <- toTcp.end
ToTcpIsPipe == ToTcp!PipeSpec

(* The relay ends with data it has not handed on only when a connection    *)
(* broke, when the WebSocket peer, which then cannot be sent to, had       *)
(* closed, or when a ping came after the relay's own Close, so that the    *)
(* pong is refused: a TCP peer that has ended its stream still gets the    *)
(* answer (bridge.rs:430-433, 452-461, 477-483).                           *)
LatePing == ws.pings > 0 /\ ws.closes = {"sent"}

OnTheWire(unit) ==
  \E i \in DOMAIN ws.out : \E j \in DOMAIN ws.out[i].data : ws.out[i].data[j] = unit

LossHasCause ==
  Running \/ ws.broken \/ tcp.end = "reset"
    \/ /\ Len(toTcp.got) + Len(tcp.out) = Len(toTcp.sent) \/ LatePing
       /\ \/ toTcp.closed
          \/ \A n \in 1 .. Len(toWs.sent) : n <= Len(toWs.got) \/ OnTheWire(n)

(* As long as both peers read, the two directions do not hold each other   *)
(* up: neither waits for ever for the writer the other one uses, and       *)
(* whatever has come in is taken up (bridge.rs:422-463).                   *)
NeitherHoldsUpTheOther ==
  /\ tcp.in # <<>> ~> (tcp.in = <<>> \/ ~Running)
  /\ ws.in # <<>> ~> (ws.in = <<>> \/ ~Running)

(* When the WebSocket peer has closed, the relay ends and its permit is    *)
(* free again (bridge.rs:458-461, 477-483).                                *)
CloseEndsRelay == toTcp.closed ~> ~Running
================================================================================
