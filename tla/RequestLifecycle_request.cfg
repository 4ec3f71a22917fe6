\* A scan and a repair that overlap and one reading of the timer, while the bridge ends and
\* another is started.
SPECIFICATION Spec
CONSTANTS
  r1 = r1  r2 = r2  p1 = p1  None = None
  Requests = {r1, r2}
  Scans = {r1}
  Polls = {p1}
  MaxCalls <- OneSends
  MaxDrops = 1
  MaxStarts = 2
INVARIANTS
  RequestTypeOK
  PinnedIsFinal
PROPERTIES
  SilentOnceCancelled
  OrphanEnds
CHECK_DEADLOCK FALSE
