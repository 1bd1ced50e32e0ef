SPECIFICATION ProofSpec
CONSTANTS
  Callers = {c1, c2, c3}
  maxPermits = 1
  Witnesses = {w1, w2}
  Artifacts = {"wasm"}
  NoOne = NoOne
  MaxClears = 1
INVARIANT VerifiedBeforeProving
