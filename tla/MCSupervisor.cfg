\* Three sessions over a chain with one ProxyJump hop.
SPECIFICATION FairSpec
CONSTANTS
  MaxGen = 6
  Hops = 1
INVARIANTS
  PublishedIsNewest
  SessionIsWatched
  GivesUpOnlyAtStart
PROPERTIES
  HealthySessionStays
  ImplementsSessionCell
  DeadSessionWithdrawn
  OnlySilenceStopsIt
  StopIsFinal
CHECK_DEADLOCK FALSE
