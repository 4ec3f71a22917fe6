\* Two findings, with the editor, the continuations and the debounce fair.
SPECIFICATION FairSpec
CONSTANTS
  IncludeFragments = {"#include"}
  Findings = {"f1", "f3"}
  Versions = {"v1"}
  NoVersion = "none"
  Reasons = {"wrong"}
  NoReason = "none"
  Habits = {"type", "haste", "batch"}
  MaxChanges = 3
  MaxCalls = 2
  MaxSent = 2
  Line <- MCLine
  Id <- MCId
  Hunks <- MCSingleHunks
  Fragments <- MCFragments
  Badge <- MCBadge
  Original <- MCOriginal
  UserLine <- MCUserLine
PROPERTIES EditIsFlagged BatchEnds
\* A user who has typed and asked for all the bounds allow may leave it at that.
CHECK_DEADLOCK FALSE
