\* Rules of up to five fields, two rules of a kind, every mix of options, alias and
\* config, bridges between 49 URLs; the chains of a path of three hosts and two of one,
\* with a fault, a changed key and a restart.
SPECIFICATION LaunchSpec
CONSTANTS
  Names <- MCNames
  V6Addresses <- MCV6
  Numbers <- MCNumbers
  CurrentUser = "me"
  DefaultFiles <- MCDefaultFiles
  OddTokens = {"odd"}
  SshCommands <- MCSshCommands
  BridgeCommands <- MCBridgeCommands
  Configs <- MCConfigs
  AnyTcp <- MCAnyTcp
  Targets <- MCTargets
  BadFiles = {"gone"}
  Accepts = {{"b"}, {"a", "password"}}
  MaxTries = 2
  MaxFaults = 1
  MaxChanges = 1
  MaxRestarts = 1
INVARIANTS
  EndsForAReason
  PasswordOnlyToTarget
  RefusedOnlyIfChanged
  OnceIsEnough
  OneGoodIsEnough
  RulesAsDocumented
  AcceptedRulesRun
  TargetAsDocumented
  DispatchIsTotal
  BridgesMeet
PROPERTIES
  RunReconnects
CHECK_DEADLOCK FALSE
