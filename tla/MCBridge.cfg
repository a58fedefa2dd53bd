\* Three clients compete for two connections, with handshakes.
SPECIFICATION FairSpec
CONSTANTS
  Clients = {c1, c2, c3}
  MaxConnections = 2
  UpstreamRetries = 2
  Mode = "websocket_tcp"
INVARIANTS
  PermitsConserved
  OneAtTheDoor
PROPERTIES
  OnlyRelaysBlock
CHECK_DEADLOCK FALSE
