\* The documented grammar of -L, over all rules of up to five fields.
SPECIFICATION LaunchSpec
CONSTANTS
  Names <- MCNames
  V6Addresses <- MCV6
  Numbers <- MCNumbers
  CurrentUser = "me"
  DefaultFiles <- MCDefaultFiles
  OddTokens = {"odd"}
  SshCommands <- MCSshCommands
  BridgeCommands <- MCBridgeCommands
  Configs <- MCConfigs
  AnyTcp <- MCAnyTcp
  Targets <- MCTargets
  BadFiles = {"gone"}
  Accepts = {{"b"}, {"a", "password"}}
  MaxTries = 2
  MaxFaults = 1
  MaxChanges = 1
  MaxRestarts = 1
INVARIANT GrammarIsAccepted
CHECK_DEADLOCK FALSE
