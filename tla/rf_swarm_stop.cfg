SPECIFICATION Spec
CONSTANTS
  g1 = g1
  g2 = g2
  Goals = {g1, g2}
  NoGoal = NoGoal
  OnTheWay = OnTheWay
  Waypoints <- NoWaypoints
  RealWorld = FALSE
  MondifyGoal = FALSE
  FailSafe = TRUE
  StuckDetect = FALSE
  Predecessors = FALSE
  Swarm = TRUE
  DepthLoss = FALSE
  MaxFail = 2
  MaxNest = 2
PROPERTIES
  StopHolds
