\* Two findings and everything that may happen.
SPECIFICATION Spec
CONSTANTS
  IncludeFragments = {"#include"}
  Findings = {"f1", "f2"}
  Versions = {"v1"}
  NoVersion = "none"
  Reasons = {"wrong"}
  NoReason = "none"
  Habits = {"type", "haste", "disk", "title bar", "regenerate", "pipeline", "overlap", "batch", "rescan"}
  MaxChanges = 3
  MaxCalls = 2
  MaxSent = 2
  Line <- MCLine
  Id <- MCId
  Hunks <- MCHunks
  Fragments <- MCFragments
  Badge <- MCBadge
  Original <- MCOriginal
  UserLine <- MCUserLine
INVARIANTS
  StaleFlagExact
PROPERTIES
  LateStepsAreHeld
\* A user who has typed and asked for all the bounds allow may leave it at that.
CHECK_DEADLOCK FALSE
