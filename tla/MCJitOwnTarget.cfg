SPECIFICATION EmitSpec
CONSTANTS
  NREGS = 4
  NCONST = 1
  NALIAS = 1
  WordBytes = 3
  Radix = 2
  MemWords = 4
  PageBytes = 6
  HW = {9}
  UseMovbe = TRUE
  NextPc = 7
  Blocks <- OwnCBlocks
  OwnC = TRUE
  W = 2
  Byte = 16
  MemSize = 160
  HwLo = 146
  HwHi = 148
  PageSize = 16
  COPY_MIN = 4
  Scenarios <- NoScenarios
  Off = Off
INVARIANTS
  BranchesAsGuest
