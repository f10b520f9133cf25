SPECIFICATION FairSpec
CONSTANTS
  Points = 2
  MaxTraj = 2
  MaxYaw = 2
PROPERTIES
  HoldsPosition
  HeldBeforeRelease
  FinishReleases
