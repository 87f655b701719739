SPECIFICATION Spec
CONSTANTS
  CPUs = {c1, c2}
  Words = {w1}
  Values = {v1}
  Starts = {s1, s2}
  Fields <- AllFields
  Pages = {p1}
  PageOf <- OnePage
  QueueLen = 2
  PendingLen = 3
  StoreBuffer = 1
  MaxEpoch = 4
  Translators = {c1}
  Idle = Idle
  None = None
SYMMETRY GuestSymmetry
INVARIANTS
  BakedFieldsAreMarked
