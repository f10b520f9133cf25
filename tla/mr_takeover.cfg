SPECIFICATION FairSpec
CONSTANTS
  Pos = {p1, p2, p3}
  NoPos = NoPos
  MaxCrashes = 1
  EnableOutput = TRUE
  RequireTakeover = TRUE
  MaxHistory = 2
  QueueSize = 1
  CallFaults = FALSE
  DelayDrains = TRUE
  OdomLive = TRUE
  WrongFrames = TRUE
INVARIANTS
  ReturnKeepsControl
  PathLeadsHome
PROPERTIES
  NormalNeverRetakes
  OnlyThisRunsCommands
  ImplementsHandover
  ReturnCompletes
  HoldsHome
