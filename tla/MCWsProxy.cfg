\* Three units each way, a ping, socket buffers of one.
SPECIFICATION FairSpec
CONSTANTS
  BufSize = 2
  WireCap = 1
  MaxUnits = 3
  MaxPings = 1
INVARIANTS
  TypeOK
  LossHasCause
PROPERTIES
  ToWsIsPipe
  ToTcpIsPipe
  NeitherHoldsUpTheOther
  CloseEndsRelay
CHECK_DEADLOCK FALSE
