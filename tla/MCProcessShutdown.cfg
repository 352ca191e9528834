CONSTANTS
  Requests = {q1}
  Digest = digest
  Signals = {TERM}
  Crash = crash
  Keys = {crash}
  Info = info
  QueueMax = 1
  MaxConcurrent = 1
  MaxRetries = 0
  MaxKeys = 1
  MaxRaised = 3
SPECIFICATION Spec
INVARIANTS
  RedisGoesLast
  CrashIsReported
  RunsAreToldToStop
PROPERTIES
  AlertSpec
  CloseTerminates
CHECK_DEADLOCK FALSE
CONSTRAINT Bounded
