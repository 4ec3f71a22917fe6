SPECIFICATION Spec
CONSTANTS
  s1 = s1
  s2 = s2
  None = None
  Slots <- TwoSlots
  StartModes <- DefaultOrCustom
  MaxCommands = 2
  MaxEvents = 1
SYMMETRY SlotsAlike
INVARIANTS
  OnboardingTypeOK
  NoticeIsTrue
  WalkthroughIsTrue
PROPERTIES
  PaidIsChosen
CHECK_DEADLOCK FALSE
