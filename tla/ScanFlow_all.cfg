SPECIFICATION Spec
CONSTANTS
  a = a
  b = b
  a0 = a0
  a1 = a1
  b0 = b0
  s1 = s1
  s2 = s2
  None = None
  Files <- TwoFiles
  Texts <- ThreeTexts
  FileOf <- FileOfText
  Slots <- TwoSlots
  MaxCommands = 3
  MaxEdits = 2
  MaxSwitches = 1
SYMMETRY SlotsAlike
INVARIANTS
  ScanTypeOK
  ContextBelongs
  FlagExactAcrossSessions
  AskedUnlessOvertaken
PROPERTIES
  ReviewIsKept
CHECK_DEADLOCK FALSE
