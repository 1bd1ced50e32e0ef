SPECIFICATION FairSpec
CONSTANTS
  Procs = {p1}
  MaxAttempts = 3
  timeoutMs = 6
  attemptTimeoutMs = 1
  initialDelayMs = 1
  maxDelayMs = 2
  jitterMs = 1
  Modes <- KeyedWrite
  None = None
PROPERTY EveryCallEnds
CHECK_DEADLOCK FALSE
