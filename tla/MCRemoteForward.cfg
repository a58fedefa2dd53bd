\* Every valid pair of rules over five hosts, fixed or server-chosen ports, two
\* sessions, one connection at a time under any address.
SPECIFICATION Spec
CONSTANTS
  NumRules = 2
  Hosts = {"127.0.0.1", "localhost", "10.0.0.1", "0.0.0.0", ""}
  Interfaces <- MCInterfaces
  Sockets <- MCSockets
  FixedPorts = {1}
  MaxPort = 2
  MaxGen = 2
  Tasks = {t1}
INVARIANTS
  PublishedIsComplete
  MatchingIsServed
  RoutedToItsRule
  TurnedAwayForAReason
  NoStalePorts
