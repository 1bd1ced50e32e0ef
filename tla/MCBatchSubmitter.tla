--------------------------- MODULE MCBatchSubmitter ---------------------------
(***************************************************************************)
(* Instances of BatchSubmitter for TLC: collections of up to three         *)
(* entries, submitted in batches of one or two.                            *)
(***************************************************************************)
EXTENDS BatchSubmitter

Entry(r, a, s) == [recipient |-> r, amount |-> a, asset |-> s]

Alice == Entry("alice", 5, "native")
Bob == Entry("bob", 7, "native")
Carol == Entry("carol", 5, "native")

\* A payroll, the same payroll with an entry edited and one removed, and an empty one.
EditedPayroll == { <<Alice, Bob, Carol>>, <<Entry("alice", 6, "native"), Bob>>, <<>> }

\* One payroll only.
OnePayroll == { <<Alice, Bob, Carol>> }
=============================================================================
