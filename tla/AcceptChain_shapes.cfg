\* Two candidates of one or two hunks of every kind, in either order.
SPECIFICATION Spec
CONSTANTS
  Candidates = {"a", "b"}
  IncludeFragments = {"#include"}
  MaxLines = 3
  MaxText = 2
  FinalNewline = {TRUE, FALSE}
  Kinds = {"insert", "replace", "delete", "append", "pairs", "headers"}
  Fragments <- MCFragments
  Originals <- MCOriginals
  Shapes <- MCShapes
INVARIANTS AcceptedOrdered OutputIsCompositionElsewhere ExportIsCompositionElsewhere
           NoDuplicateInclude
\* Accepting ends when every candidate is accepted or conflicts.
CHECK_DEADLOCK FALSE
