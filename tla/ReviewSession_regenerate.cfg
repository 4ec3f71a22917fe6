\* An accepted candidate is regenerated, as the tree offers.
SPECIFICATION Spec
CONSTANTS
  IncludeFragments = {"#include"}
  Findings = {"f1"}
  Versions = {"v1", "v2"}
  NoVersion = "none"
  Reasons = {"wrong"}
  NoReason = "none"
  Habits = {"regenerate"}
  MaxChanges = 4
  MaxCalls = 2
  MaxSent = 2
  Line <- MCLine
  Id <- MCId
  Hunks <- MCHunks
  Fragments <- MCFragments
  Badge <- MCBadge
  Original <- MCOriginal
  UserLine <- MCUserLine
INVARIANTS OutputIsComposition
\* A user who has typed and asked for all the bounds allow may leave it at that.
CHECK_DEADLOCK FALSE
