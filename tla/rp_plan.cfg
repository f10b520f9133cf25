SPECIFICATION PlanSpec
CONSTANTS
  Space <- Grid
  Takeoff <- Ground
  Clouds <- Maps
  MaxSamples = 6
  MaxMove = 2
  MinSpacing = 1
  Epsilon = 1
  VerticalThreshold = 0
  MaxSegment = 2
  HandoffHeight = 1
  TrimRadius = 1
  TrustFlown = TRUE
  TrustDeviation = 0
  SafeRadius = 1
  FallbackSpacing = 2
CHECK_DEADLOCK FALSE
INVARIANTS
  PathIsHistory
  WithinEpsilon
  AltitudeKept
  UncheckedIsShort
  FailsForGaps
