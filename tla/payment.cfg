SPECIFICATION FairSpec
CONSTANTS
  Calls = {c1, c2}
  Keys = {k1}
  Ttl = 1
  MaxPolls = 2
  MaxTime = 1
  None = None
INVARIANTS ResultsTruthful KeyPaysOnce
PROPERTY EveryPaymentReturns
CHECK_DEADLOCK FALSE
