SPECIFICATION FairSpec
CONSTANTS
  Far = 7
  Home = 0
  Goals = {1, 4, 7}
  Level <- EndIsHigh
  Blocked = {5}
  Dist = 3
  Arrival = 1
  AutoLand = TRUE
INVARIANTS
  TrailLeadsHome
  TrailApart
PROPERTIES
  LandsAtHome
  ReturnEnds
