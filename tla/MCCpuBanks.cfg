SPECIFICATION FairSpec
CONSTANTS
  APs = {a1}
  Eips = {0, 1, 2}
  HasMonitor = TRUE
  EarlyGuest = FALSE
  None = None
CHECK_DEADLOCK FALSE
INVARIANTS
  TypeOK
  RunsItsThread
  StoppedThreadIsSaved
  StoppedIsStopped
PROPERTIES
  StopIsAnswered
  StartIsAnswered
  RebootIsServed
