SPECIFICATION FairSpec
CONSTANTS
  KeyBytes = {30, 45, 75, 71, 184}
  Garbage = {0}
  Buttons = {{}}
  Moves <- Still
  Width = 3
  Height = 1
  IoMax = 3
  MaxPackets = 2
  MousePeriod = 1
  MaxClicks = 0
  CpuCounts = {2}
CHECK_DEADLOCK FALSE
INVARIANTS
  WritesArriveInOrder
PROPERTIES
  HeadMoves
