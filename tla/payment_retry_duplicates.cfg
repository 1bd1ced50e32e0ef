SPECIFICATION Spec
CONSTANTS
  Calls = {c1, c2}
  Keys = {k1}
  Ttl = 1
  MaxPolls = 1
  MaxTime = 1
  None = None
INVARIANT RetriesDoNotDuplicate
CHECK_DEADLOCK FALSE
