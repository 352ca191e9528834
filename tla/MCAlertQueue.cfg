CONSTANTS
  Keys = {k1, k2}
  Info = info
  QueueMax = 2
  MaxConcurrent = 2
  MaxRetries = 1
  MaxKeys = 1
  MaxRaised = 6
SPECIFICATION Spec
INVARIANTS
  NothingWaitsForAFreeSlot
  DropsAreReported
  SilenceFollowsAnAlert
  DrainIsComplete
PROPERTIES
  NothingStartsAfterTheHook
  DrainEnds
CHECK_DEADLOCK FALSE
