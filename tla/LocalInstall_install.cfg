SPECIFICATION Spec
CONSTANTS
  w1 = w1
  w2 = w2
  None = None
  Windows <- TwoWindows
  Fragile <- OneFragile
  Chunks = 2
  MaxSetups = 3
INVARIANTS
  InstallTypeOK
  Serialized
  EngineIsWhole
PROPERTIES
  WaiterGetsIn
  ProvisionedIsWhole
CHECK_DEADLOCK FALSE
