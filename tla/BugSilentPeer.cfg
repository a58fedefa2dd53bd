SPECIFICATION FairSpec
CONSTANTS
  MaxGen = 2
  Hops = 0
PROPERTY AlwaysRecovers
CHECK_DEADLOCK FALSE
