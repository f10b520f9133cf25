SPECIFICATION FairSpec
CONSTANTS
  g1 = g1
  g2 = g2
  Goals = {g1, g2}
  NoGoal = NoGoal
  OnTheWay = OnTheWay
  Waypoints <- NoWaypoints
  RealWorld = FALSE
  MondifyGoal = TRUE
  FailSafe = TRUE
  StuckDetect = TRUE
  Predecessors = FALSE
  Swarm = FALSE
  DepthLoss = TRUE
  MaxFail = 2
  MaxNest = 2
INVARIANTS
  ExecutesCurrentGoal
  OrderedStopBrakes
PROPERTIES
  StopHolds
  CompletesAtGoal
  EmergencyEnds
  PlanningDecides
  GoalTakenUp
