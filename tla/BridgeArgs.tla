------------------------------- MODULE BridgeArgs --------------------------------
(***************************************************************************)
(* The arguments of `weconn bridge`: parse_bridge() of src/cli.rs, the     *)
(* dispatch of run() in src/bridge.rs, and what one bridge sends and the   *)
(* other checks when a WebSocket is opened between them.  A URL has the    *)
(* scheme, host, port, path and query of the url crate; "extra" stands for *)
(* user info or a fragment, port 0 for none.                               *)
(***************************************************************************)
EXTENDS Naturals

ParsedUrl ==
  [scheme : STRING, host : STRING, port : Nat, path : STRING, query : STRING,
   extra : BOOLEAN]

NoEndpoint == [kind |-> "none", host |-> "", port |-> 0, path |-> "", query |-> ""]
Endpoint(kind, url, port) ==
  [kind |-> kind, host |-> url.host, port |-> port, path |-> url.path, query |-> url.query]

ValidateUrlCommon(url) == ~url.extra /\ url.host # ""

ParseTcpEndpoint(url) ==
  IF ValidateUrlCommon(url) /\ url.path = "/" /\ url.query = "" /\ url.port # 0
  THEN Endpoint("Tcp", url, url.port) ELSE NoEndpoint

KnownDefault(scheme) == IF scheme \in {"https", "wss"} THEN 443 ELSE 80

ParseWebsocketEndpoint(url, kind, allowQuery) ==
  IF ValidateUrlCommon(url) /\ (allowQuery \/ url.query = "")
  THEN Endpoint(kind, url, IF url.port = 0 THEN KnownDefault(url.scheme) ELSE url.port)
  ELSE NoEndpoint

ParseBridgeToEndpoint(url) ==
  CASE url.scheme = "tcp" -> ParseTcpEndpoint(url)
    [] url.scheme \in {"ws", "http"} -> ParseWebsocketEndpoint(url, "Ws", FALSE)
    [] OTHER -> NoEndpoint

ParseBridgeFromEndpoint(url) ==
  CASE url.scheme = "tcp" -> ParseTcpEndpoint(url)
    [] url.scheme \in {"ws", "http"} -> ParseWebsocketEndpoint(url, "Ws", TRUE)
    [] url.scheme \in {"wss", "https"} -> ParseWebsocketEndpoint(url, "Wss", TRUE)
    [] OTHER -> NoEndpoint

SupportedAnyWs(to, from) ==     \* mutant: the last arm of parse_bridge() is missing
  {to.kind, from.kind} \subseteq {"Tcp", "Ws", "Wss"}

Supported(to, from) ==
  <<to.kind, from.kind>> \in {<<"Tcp", "Tcp">>, <<"Tcp", "Ws">>, <<"Tcp", "Wss">>,
                              <<"Ws", "Tcp">>}

(* parse_bridge(); a token without a WebSocket is refused.                 *)
ParseBridge(c) ==
  LET to == ParseBridgeToEndpoint(c.to)
      from == ParseBridgeFromEndpoint(c.from)
  IN  [ok |-> Supported(to, from) /\ (c.token # "" => {to.kind, from.kind} # {"Tcp"}),
       to |-> to, from |-> from, token |-> c.token]

(* run(): the function the accepted arguments lead to.                     *)
Dispatch(a) ==
  CASE a.to.kind = "Tcp" /\ a.from.kind = "Tcp" -> "tcp_tcp"
    [] a.to.kind = "Tcp" /\ a.from.kind \in {"Ws", "Wss"} -> "tcp_websocket"
    [] a.to.kind = "Ws" /\ a.from.kind = "Tcp" -> "websocket_tcp"
    [] OTHER -> "unreachable"
--------------------------------------------------------------------------------
(***************************************************************************)
(* The opening of a WebSocket: websocket_request() on one side,            *)
(* validate_websocket_request() on the other.                              *)
(***************************************************************************)
CONSTANT OddTokens     \* tokens that no HTTP header can hold

RequestWithoutToken(a) ==     \* mutant: the header is not set
  [ok |-> TRUE, path |-> a.from.path, query |-> a.from.query, bearer |-> ""]

WebsocketRequest(a) ==
  [ok |-> a.token \notin OddTokens, path |-> a.from.path, query |-> a.from.query,
   bearer |-> a.token]

(* The query of a URL is the token in its ?token=, or "".                  *)
IsAuthorized(request, token) == token \in {request.bearer, request.query}

ValidateWebsocketRequest(request, a) ==
  /\ request.path = a.to.path
  /\ a.token # "" => IsAuthorized(request, a.token)
================================================================================
