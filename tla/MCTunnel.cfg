\* The composition: three sessions, two clients that share one forward permit.
SPECIFICATION Spec
CONSTANTS
  MaxGen = 3
  Hops = 0
  Clients = {c1, c2}
  Listeners = {l1}
  MaxWaiting = 1
  MaxActive = 1
  MaxRetries = 2
SYMMETRY ClientSymmetry
INVARIANTS
  WorkingSessionIsCurrent
PROPERTIES
  ImplementsLocalForward
CHECK_DEADLOCK FALSE
