SPECIFICATION FairSpec
CONSTANTS
  p1 = p1
  p2 = p2
  p3 = p3
  Pos = {p1, p2, p3}
  NoPos = NoPos
  MaxCrashes = 1
  Mission <- TwoWaypoints
  QueueSize = 1
  CallFaults = TRUE
INVARIANTS
  ControlKept
  ReadyIsReleased
PROPERTIES
  ReturnArrives
