SPECIFICATION Spec
CONSTANTS
  Sizes <- EdgeSizes
  FrameTicks = 2
  Delay = 3
  Types = {adts, latm}
  DefaultType = adts
  AudioEnabled = TRUE
  MaxBounded = 360
  MaxClock = 5
  MaxPts = 3
  None = none
CHECK_DEADLOCK FALSE
INVARIANTS
  PacketsWhole
  Continuous
  AudioOnTime
