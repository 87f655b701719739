SPECIFICATION Spec
CONSTANTS
  CPUs = {c1, c2}
  Words = {w1}
  Values = {v1, v2}
  Starts = {s1}
  Fields <- AllFields
  Pages = {p1}
  PageOf <- OnePage
  QueueLen = 2
  PendingLen = 3
  StoreBuffer = 2
  MaxEpoch = 2
  Translators = {c1, c2}
  Idle = Idle
  None = None
SYMMETRY Symmetry
INVARIANTS
  CheckedCodeIsCurrent
