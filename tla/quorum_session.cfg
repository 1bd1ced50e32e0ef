SPECIFICATION Spec
CONSTANTS
  a1 = a1
  a2 = a2
  Sessions = {s1, s2}
  Plans <- SomePlans
  Addresses = {a1, a2}
  Nonces = {n1, n2}
  Submitters = {u1, u2}
  MaxTime = 2
  None = None
SYMMETRY Symmetry
INVARIANT SessionsSound
PROPERTIES NoWayBack SettledForGood
CHECK_DEADLOCK FALSE
