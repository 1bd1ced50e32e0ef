------------------------------- MODULE Checks -------------------------------
(***************************************************************************)
(* The shape most validators of the SDK share: a list of checks, each a    *)
(* condition and the code it reports.  A checker that throws or returns    *)
(* reports the first that applies; a collector reports all of them.        *)
(***************************************************************************)
EXTENDS Integers, Sequences, FiniteSets, FiniteSetsExt

FirstOf(checks, otherwise) ==
  LET applies == {i \in DOMAIN checks : checks[i][1]}
  IN  IF applies = {} THEN otherwise ELSE checks[Min(applies)][2]

AllOf(checks) == {checks[i][2] : i \in {j \in DOMAIN checks : checks[j][1]}}
=============================================================================
