\* Three clients compete for two waiting permits and one forward permit while
\* two sessions come and go.
SPECIFICATION FairSpec
CONSTANTS
  MaxGen = 2
  Clients = {c1, c2, c3}
  Listeners = {l1}
  MaxWaiting = 2
  MaxActive = 1
  MaxRetries = 2
INVARIANTS
  PermitsConserved
  RetriesOnlyWhenReplaced
PROPERTIES
  RetryUsesNewerSession
  OnlyCopiesBlock
CHECK_DEADLOCK FALSE
