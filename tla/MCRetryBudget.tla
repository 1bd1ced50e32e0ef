---------------------------- MODULE MCRetryBudget ----------------------------
(***************************************************************************)
(* RetryBudget for TLC: a write with key and registry, a write without     *)
(* key, which is never retried.                                            *)
(***************************************************************************)
EXTENDS RetryBudget, TLC

Mode(required, keyed, registered) ==
  [idempotencyRequired |-> required, hasIdempotencyKey |-> keyed, hasRegistry |-> registered]

KeyedWrite == {Mode(TRUE, TRUE, TRUE)}

Writes == KeyedWrite \cup {Mode(TRUE, FALSE, FALSE)}

ProcSymmetry == Permutations(Procs)
=============================================================================
