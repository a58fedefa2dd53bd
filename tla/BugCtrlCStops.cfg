SPECIFICATION FairSpec
CONSTANTS
  Clients = {c1, c2}
  MaxConnections = 1
  UpstreamRetries = 1
  Mode = "tcp_tcp"
PROPERTY CtrlCStops
CHECK_DEADLOCK FALSE
