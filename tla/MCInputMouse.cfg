SPECIFICATION Spec
CONSTANTS
  KeyBytes = {75}
  Garbage = {0}
  Buttons <- LeftButton
  Moves <- Still
  Width = 3
  Height = 1
  IoMax = 2
  MaxPackets = 2
  MousePeriod = 2
  MaxClicks = 3
  CpuCounts = {1, 2}
CHECK_DEADLOCK FALSE
INVARIANTS
  NoClickLost
  PacketsInBounds
