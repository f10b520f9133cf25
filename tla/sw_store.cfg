SPECIFICATION FairSpec
CONSTANTS
  N = 3
  MaxBroadcasts <- FewerAndFewer
INVARIANTS
  StartsInOrder
PROPERTIES
  NeverGoesBack
  EveryoneStarts
CHECK_DEADLOCK FALSE
