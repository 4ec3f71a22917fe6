\* Three findings, reviewed and accepted one by one and in a batch, with typing and undo.
SPECIFICATION Spec
CONSTANTS
  IncludeFragments = {"#include"}
  Findings = {"f1", "f2", "f3"}
  Versions = {"v1", "v2"}
  NoVersion = "none"
  Reasons = {"wrong"}
  NoReason = "none"
  Habits = {"type", "batch"}
  MaxChanges = 4
  MaxCalls = 3
  MaxSent = 2
  Line <- MCLine
  Id <- MCId
  Hunks <- MCHunks
  Fragments <- MCFragments
  Badge <- MCBadge
  Original <- MCOriginal
  UserLine <- MCUserLine
INVARIANTS
  TypeOK
  OutputIsComposition
  OverrideMarksWarnings
PROPERTIES
  ImplementsAcceptedOutput
\* A user who has typed and asked for all the bounds allow may leave it at that.
CHECK_DEADLOCK FALSE
