SPECIFICATION Spec
CONSTANTS
  PageSize = 64
  SizeT = 1048576
  BITMAP_BASE = 8
  Fan = 8
  DawnPages = 3
  HhdmPage = 512
  CpuSize = 20
  HashSize = 8
  CodeSize = 16
  BlockSize = 4
  LinkSize = 2
  MetaSize = 1
  MinBlocks = 1
  MaxBlocks = 4
  JIT_MAX_CPUS = 2
  JIT_CPU_BYTES = 200
  Machines <- SomeMachines
INVARIANTS
  OneOwner
  KmallocFindsRun
  GuestMemoryWhole
  EndIsMarked
  MappingsComplete
