\* Two findings; two commands, two edits or clicks elsewhere, one rescan.
SPECIFICATION Spec
CONSTANTS
  p = p
  s1 = s1
  s2 = s2
  NoFix = NoFix
  Old = Old
  None = None
  N = 2
  Proposals <- OneProposal
  Slots <- TwoSlots
  MaxCommands = 2
  MaxMoves = 2
  MaxScans = 2
SYMMETRY Alike
INVARIANTS
  ReviewTypeOK
  ShownIsTrue
PROPERTIES
  ShowingIsKept
\* A reviewer who has done what the bounds allow may leave it at that.
CHECK_DEADLOCK FALSE
