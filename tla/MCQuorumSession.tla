--------------------------- MODULE MCQuorumSession ---------------------------
(***************************************************************************)
(* QuorumSession for TLC: two admins of whom one approval suffices, an     *)
(* assigned admin and a treasurer who must both approve, and a plan that   *)
(* createSession refuses.                                                  *)
(***************************************************************************)
EXTENDS QuorumSession, TLC

CONSTANTS a1, a2

Plan(roles, threshold, assigned, ttl) ==
  [requiredRoles |-> roles, threshold |-> threshold, assigned |-> assigned, ttl |-> ttl]

TwoAdmins == Plan(<<"admin", "admin">>, 1, [r \in {"admin"} |-> None], 1)

AdminAndTreasurer ==
  Plan(<<"admin", "treasurer">>, 2, [r \in {"admin", "treasurer"} |-> IF r = "admin" THEN a1 ELSE None], 1)

NoThreshold == Plan(<<"admin">>, 2, [r \in {"admin"} |-> None], 1)

SomePlans == {TwoAdmins, AdminAndTreasurer, NoThreshold}

Symmetry == Permutations(Nonces) \cup Permutations(Submitters) \cup Permutations(Sessions)
=============================================================================
