SPECIFICATION Spec
CONSTANTS
  MaxGen = 3
  Hops = 0
  Clients = {c1}
  Listeners = {l1}
  MaxWaiting = 1
  MaxActive = 1
  MaxRetries = 2
PROPERTY BrokenClientsWait
CHECK_DEADLOCK FALSE
