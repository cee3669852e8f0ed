CONSTANTS
  Ids <- MCIds
  Horizon = 8
  MaxLost = 2
  MaxHalt = 3
  MinFrames = 3
  SlowPeriod = 8
  Stall = 3
  Idle = 6
  Presence = 3
SPECIFICATION AscSpec
INVARIANT SingleIdGapIsAnomaly
CHECK_DEADLOCK FALSE
