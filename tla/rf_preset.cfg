SPECIFICATION Spec
CONSTANTS
  g1 = g1
  g2 = g2
  Goals = {g1, g2}
  NoGoal = NoGoal
  OnTheWay = OnTheWay
  Waypoints <- TwoWaypoints
  RealWorld = TRUE
  MondifyGoal = FALSE
  FailSafe = TRUE
  StuckDetect = TRUE
  Predecessors = TRUE
  Swarm = TRUE
  DepthLoss = TRUE
  MaxFail = 2
  MaxNest = 2
PROPERTIES
  RoundEndsLast
