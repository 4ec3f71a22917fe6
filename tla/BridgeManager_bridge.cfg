SPECIFICATION FairSpec
CONSTANTS
  w1 = w1
  c1 = c1
  c2 = c2
  api = api
  p1 = p1
  p2 = p2
  local1 = local1
  None = None
  Self <- w1
  Windows <- OneWindow
  Callers <- TwoCallers
  Processes <- TwoProcesses
  Settings <- MCSettings
  LocalSettings <- MCLocalSettings
  Crashes = FALSE
INVARIANTS
  NoOrphanBridge
  SettingsInForce
  StateTellsTruth
PROPERTIES
  EveryCallAnswered
CHECK_DEADLOCK FALSE
