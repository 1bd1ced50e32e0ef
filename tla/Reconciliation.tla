--------------------------- MODULE Reconciliation ---------------------------
(***************************************************************************)
(* reconciliation/: what the client recorded against what the chain shows. *)
(* An outcome is [key, amount, status], key standing for recipient:asset;  *)
(* an observation is [key, amount, status, at], with key Nil when it has no*)
(* asset and amount 0 when it has none.                                    *)
(***************************************************************************)
EXTENDS Subject

Categories == <<"match", "missing", "failed_mismatch", "amount_mismatch", "still_pending", "unexpected">>

NotObserved == [key |-> Nil, amount |-> 0, status |-> "not_found", at |-> -1]

\* Mutant: a failure the chain confirms is taken for a match.
diffOne_TrustsClient(outcome, o) ==
  FirstOf(<< <<outcome.status = "pending", "still_pending">>,
             <<o.status = "not_found", "missing">>,
             <<outcome.status = "success" /\ o.status # "confirmed", "failed_mismatch">>,
             <<o.status = "confirmed" /\ o.amount # 0 /\ o.amount # outcome.amount, "amount_mismatch">> >>, "match")

diffOne(outcome, o) ==
  FirstOf(<< <<outcome.status = "pending", "still_pending">>,
             <<o.status = "not_found", "missing">>,
             <<(outcome.status = "success") # (o.status = "confirmed"), "failed_mismatch">>,
             <<o.status = "confirmed" /\ o.amount # 0 /\ o.amount # outcome.amount, "amount_mismatch">> >>, "match")

\* observedByKey: the latest observation of a key, the first of those made at the same time.
Latest(observed, key) ==
  LET mine == {i \in DOMAIN observed : observed[i].key = key}
      newest == {i \in mine : \A j \in mine : observed[j].at <= observed[i].at}
  IN  IF mine = {} THEN NotObserved ELSE observed[Min(newest)]

\* An observed payment that no outcome looked up.
isUnexpected(outcomes, o) ==
  /\ o.status # "not_found"
  /\ ~(o.key # Nil /\ Some(LAMBDA e : e.key = o.key, outcomes))

\* The categories of the entries, expected outcomes first.
generateReconciliationDiff(outcomes, observed) ==
  [i \in DOMAIN outcomes |-> diffOne(outcomes[i], Latest(observed, outcomes[i].key))]
    \o [i \in 1..Count(LAMBDA o : isUnexpected(outcomes, o), observed) |-> "unexpected"]

counts(diff) == [c \in ToSet(Categories) |-> Count(LAMBDA e : e = c, diff)]

isFullyReconciled(diff) == Every(LAMBDA e : e \in {"match", "still_pending"}, diff)

-----------------------------------------------------------------------------
\* SnapshotBuilder: what a snapshot says of a diff, and how two snapshots compare.
calculateSummaryMetrics(diff) ==
  [matchPercentage  |-> IF diff = <<>> THEN 100 ELSE (200 * counts(diff)["match"] + Len(diff)) \div (2 * Len(diff)),
   discrepancyCount |-> Len(diff) - counts(diff)["match"] - counts(diff)["still_pending"],
   stillPending     |-> counts(diff)["still_pending"]]

\* Mutant: the share of matches is compared, which the pending payments change too.
compareSnapshots_ByShare(diff1, diff2) ==
  LET change == calculateSummaryMetrics(diff1).matchPercentage - calculateSummaryMetrics(diff2).matchPercentage
  IN  [isImproving |-> change < 0, isRegressing |-> change > 0, fullyReconciled |-> isFullyReconciled(diff2)]

compareSnapshots(diff1, diff2) ==
  LET change == calculateSummaryMetrics(diff2).discrepancyCount - calculateSummaryMetrics(diff1).discrepancyCount
  IN  [isImproving |-> change < 0, isRegressing |-> change > 0, fullyReconciled |-> isFullyReconciled(diff2)]

-----------------------------------------------------------------------------
\* statusClassifier.ts: a breakdown, from the entries or from the counts alone.
breakdownOfEntries(diff) ==
  [total      |-> Len(diff),
   matched    |-> Count(LAMBDA e : e = "match", diff),
   pending    |-> Count(LAMBDA e : e = "still_pending", diff),
   failed     |-> Count(LAMBDA e : e = "failed_mismatch", diff),
   mismatched |-> Count(LAMBDA e : e \in {"amount_mismatch", "missing"}, diff),
   unexpected |-> Count(LAMBDA e : e = "unexpected", diff)]

\* Mutant: the missing payments are left out.
breakdownOfCounts_NoMissing(c) ==
  [total |-> c["match"] + c["still_pending"] + c["failed_mismatch"] + c["amount_mismatch"] + c["unexpected"],
   matched |-> c["match"], pending |-> c["still_pending"], failed |-> c["failed_mismatch"],
   mismatched |-> c["amount_mismatch"], unexpected |-> c["unexpected"]]

breakdownOfCounts(c) ==
  [total |-> c["match"] + c["still_pending"] + c["failed_mismatch"] + c["amount_mismatch"] + c["missing"] + c["unexpected"],
   matched |-> c["match"], pending |-> c["still_pending"], failed |-> c["failed_mismatch"],
   mismatched |-> c["amount_mismatch"] + c["missing"], unexpected |-> c["unexpected"]]

classifyReconciliationStatus(b, reviewed) ==
  FirstOf(<< <<reviewed, "manually_reviewed">>,
             <<b.total = 0, "pending">>,
             <<b.failed > 0, "failed">>,
             <<b.mismatched > 0 \/ b.unexpected > 0, "mismatched">>,
             <<b.pending = b.total, "pending">>,
             <<b.pending > 0 /\ b.matched > 0, "partial">>,
             <<b.matched = b.total, "matched">> >>, "partial")

isReconciliationActionRequired(status) == status \in {"mismatched", "failed"}

\* format.ts lists the entries by rank, the worst first: the entry at the head of the list.
CATEGORY_RANK == [unexpected |-> 0, failed_mismatch |-> 1, amount_mismatch |-> 2, missing |-> 3, still_pending |-> 4, match |-> 5]

listedFirst(diff) == CHOOSE c \in ToSet(diff) : \A d \in ToSet(diff) : CATEGORY_RANK[c] <= CATEGORY_RANK[d]

-----------------------------------------------------------------------------
\* Mutant: the payments the chain does not show are not looked at.
calculateReadinessBlockers_NoMissing(status, t, diff) ==
  LET open == status \in {"draft", "locked"} IN
  AllOf(<< <<open /\ t.holds > 0, "unreserved_liabilities">>,
           <<open /\ t.disputed > 0, "disputed_hold">>,
           <<open /\ t.reserved > t.settled /\ t.settled > 0, "pending_settlement">>,
           <<counts(diff)["unexpected"] > 0, "unclosed_period">> >>)

(***************************************************************************)
(* PayrollLiabilityReportBuilder: reservations are taken for successful    *)
(* native payments, and a period is closeable when nothing blocks it.      *)
(* Amounts are totals: reserved, settled, refunded, holds, disputed.       *)
(***************************************************************************)
calculateReadinessBlockers(status, t, diff) ==
  LET open == status \in {"draft", "locked"} IN
  AllOf(<< <<open /\ t.holds > 0, "unreserved_liabilities">>,
           <<open /\ t.disputed > 0, "disputed_hold">>,
           <<open /\ t.reserved > t.settled /\ t.settled > 0, "pending_settlement">>,
           <<counts(diff)["unexpected"] > 0 \/ counts(diff)["missing"] > 0, "unclosed_period">>,
           <<status = "draft" /\ t.reserved > 0, "missing_reservations">> >>)

\* calculateEmployerSummary: its own blockers, whatever the status.
employerBlockers(t) ==
  AllOf(<< <<t.holds > 0 \/ t.disputed > 0, "disputed_hold">>,
           <<t.holds > 0, "unreserved_liabilities">> >>)

reportOf(status, reservations, t, observed) ==
  LET outcomes == [i \in DOMAIN reservations |-> [key |-> reservations[i].key, amount |-> reservations[i].amount, status |-> "success"]]
      diff == generateReconciliationDiff(outcomes, observed)
      totals == [t EXCEPT !.reserved = SumBy(LAMBDA r : r.amount, reservations)]
  IN  [diff |-> diff, blockers |-> calculateReadinessBlockers(status, totals, diff)]

isCloseable(report) == report.blockers = {}

-----------------------------------------------------------------------------
\* Bounds: at most two expected payments (distinct keys) and two observations.
ReconOutcomes ==
  LET one(k) == {[key |-> k, amount |-> 1, status |-> s] : s \in {"success", "failure", "pending"}}
  IN  {<<>>} \cup {<<a>> : a \in one("a")} \cup {<<a, b>> : a \in one("a"), b \in one("b")}

ReconObserved ==
  {[key |-> k, amount |-> m, status |-> s, at |-> t] :
     k \in {Nil, "a", "b"}, m \in 0..2, s \in {"confirmed", "failed", "not_found"}, t \in {0}}
   \cup {[key |-> "a", amount |-> m, status |-> s, at |-> 1] : m \in {1, 2}, s \in {"confirmed", "not_found"}}

ReconInputs ==
  {[outcomes |-> e, observed |-> o] : e \in ReconOutcomes, o \in {<<>>} \cup {<<x>> : x \in ReconObserved}
                                                               \cup (ReconObserved \X ReconObserved)}

ReconDiff == generateReconciliationDiff(subject.input.outcomes, subject.input.observed)

(***************************************************************************)
(* A run is fully reconciled exactly when every successful outcome is last *)
(* seen confirmed with no other amount, every failed one is last seen      *)
(* failed, and every payment seen belongs to an outcome: the point-by-     *)
(* point definition of what ReconciliationDiffGenerator.ts 119-173 finds.  *)
(***************************************************************************)
FullyReconciledSound ==
  About("recon") =>
    LET e == subject.input.outcomes
        o == subject.input.observed
        last(k) == {i \in DOMAIN o : /\ o[i].key = k
                                     /\ \A j \in DOMAIN o : o[j].key = k => o[j].at < o[i].at \/ (o[j].at = o[i].at /\ i <= j)}
    IN  isFullyReconciled(ReconDiff) <=>
          /\ \A x \in ToSet(e) :
               /\ x.status = "success" =>
                    \E i \in last(x.key) : o[i].status = "confirmed" /\ o[i].amount \in {0, x.amount}
               /\ x.status = "failure" => \E i \in last(x.key) : o[i].status = "failed"
          /\ \A y \in ToSet(o) :
               y.status # "not_found" => \E x \in ToSet(e) : x.key = y.key

(***************************************************************************)
(* The classifier, fed by the entries or by their counts, asks for action  *)
(* exactly when the diff is not reconciled and the snapshot counts a       *)
(* discrepancy: three components, one verdict.                             *)
(***************************************************************************)
VerdictsAgree ==
  About("recon") =>
    LET b == breakdownOfEntries(ReconDiff)
        action == isReconciliationActionRequired(classifyReconciliationStatus(b, FALSE))
    IN  /\ b = breakdownOfCounts(counts(ReconDiff))
        /\ action <=> ~isFullyReconciled(ReconDiff)
        /\ action <=> calculateSummaryMetrics(ReconDiff).discrepancyCount > 0
        /\ action => listedFirst(ReconDiff) \notin {"match", "still_pending"}
        /\ classifyReconciliationStatus(b, FALSE) = "matched" =>
             calculateSummaryMetrics(ReconDiff).matchPercentage = 100

(***************************************************************************)
(* Snapshots of one run taken as the chain progresses: when one is fully   *)
(* reconciled and a later one is not, the comparison says it is regressing *)
(* (SnapshotBuilder.ts 81-111).                                            *)
(***************************************************************************)
RegressionNoticed ==
  About("recon") =>
    LET e == subject.input.outcomes
        o == subject.input.observed
        earlier == generateReconciliationDiff(e, SubSeq(o, 1, Len(o) - 1))
    IN  o # <<>> /\ isFullyReconciled(earlier) /\ ~isFullyReconciled(ReconDiff) =>
          compareSnapshots(earlier, ReconDiff).isRegressing

(***************************************************************************)
(* A locked period reported closeable has no hold, no dispute, no partly   *)
(* settled reservation and no reservation the chain does not show.  (A     *)
(* payment that failed or has another amount does not block it: README.)   *)
(***************************************************************************)
CloseableIsClear ==
  About("recon") =>
    \A t \in [reserved : {0}, settled : 0..2, refunded : {0}, holds : 0..1, disputed : 0..1] :
      LET reservations == subject.input.outcomes
          report == reportOf("locked", reservations, t, subject.input.observed)
      IN  isCloseable(report) =>
            /\ employerBlockers(t) = {}
            /\ t.settled > 0 => SumBy(LAMBDA r : r.amount, reservations) <= t.settled
            /\ \A r \in ToSet(reservations) : Latest(subject.input.observed, r.key).status # "not_found"
=============================================================================
