SPECIFICATION Spec
CONSTANTS
  Procs = {p1, p2}
  MaxAttempts = 2
  timeoutMs = 3
  attemptTimeoutMs = 1
  initialDelayMs = 1
  maxDelayMs = 1
  jitterMs = 0
  Modes <- Writes
  None = None
SYMMETRY ProcSymmetry
INVARIANT RetrySafe
PROPERTY NoLateStart
CHECK_DEADLOCK FALSE
