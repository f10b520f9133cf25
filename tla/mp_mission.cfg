SPECIFICATION FairSpec
CONSTANTS
  home = home
  away = away
  aside = aside
  low = low
  Pos = {home, away, aside, low}
  Level <- OneMetre
  Clear = {aside}
  NoPos = NoPos
  StartPoints <- OutAndIn
  BackPoints <- BackLow
  YawAlign = TRUE
INVARIANTS
  IndexInRange
PROPERTIES
  NoWaypointSkipped
  MissionEnds
