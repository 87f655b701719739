SPECIFICATION FairSpec
CONSTANTS
  CPUs = {c1, c2}
  PendingLen = 3
  MaxEpoch = 6
  Idle = Idle
INVARIANTS
  TypeOK
  NoCircularWait
PROPERTIES
  TranslationEnds
