SPECIFICATION Spec
CONSTANTS
  MemSize = 7
  MaxBlock = 2
  CopyLen = 2
  Targets = {1}
  CodeSize = 6
  MaxExits = 2
  MaxBlocks = 3
  MaxLinks = 2
  PendingLen = 2
INVARIANTS
  TypeOK
  FollowsGuest
  RunsValidCode
  NoStalePointers
  LinksAgree
PROPERTIES
  DropIsComplete
