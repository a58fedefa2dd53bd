\* Registration after every loss: the rules over four hosts; the tasks of
\* incoming connections have no influence on it.
SPECIFICATION FairSpec
CONSTANTS
  NumRules = 2
  Hosts = {"127.0.0.1", "localhost", "10.0.0.1", ""}
  Interfaces <- MCInterfaces
  Sockets <- MCSockets
  FixedPorts = {1}
  MaxPort = 4
  MaxGen = 2
  Tasks = {}
PROPERTIES
  RegisteredAgain
