SPECIFICATION FairSpec
CONSTANTS
  Callers = {c1, c2, c3}
  Keys = {k1}
  Ttls = {0, 1}
  Errors = {"error"}
  MaxTime = 1
  None = None
INVARIANT OneInFlight
PROPERTIES SuccessReplayed NoStaleReplay EveryCallReturns
CHECK_DEADLOCK FALSE
