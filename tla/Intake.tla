------------------------------- MODULE Intake -------------------------------
(***************************************************************************)
(* What comes from outside before a run: offline drafts                    *)
(* (validation/OfflineDraftValidator.ts), imports (import/), revised       *)
(* batches (batches/) and the outcomes a batch comes back with             *)
(* (batch/partialBatchFailureParser.ts).                                   *)
(***************************************************************************)
EXTENDS Drafts

-----------------------------------------------------------------------------
\* ValidationPresets.  Amounts 1 (tiny), 2 and 9 (oversized) stand around strict's limits; NoCap: none.
NoCap == 99
ValidationPresets ==
  [strict   |-> [period |-> TRUE,  duplicates |-> TRUE,  redaction |-> TRUE,  approvals |-> TRUE,  min |-> 2, max |-> 3],
   standard |-> [period |-> TRUE,  duplicates |-> TRUE,  redaction |-> FALSE, approvals |-> FALSE, min |-> 0, max |-> NoCap],
   lenient  |-> [period |-> FALSE, duplicates |-> FALSE, redaction |-> FALSE, approvals |-> FALSE, min |-> 0, max |-> NoCap]]

isRedacted(text) == text = "REDACTED"
isValidEmployeeId(text) == isRedacted(text) \/ text \in {"e-1", "e-2"}
isValidAsset(text) == text = "native"
isValidPeriod(text) == text = "2024-13"       \* the digits are checked, not the month

draftStructure(draft) ==
  AllOf(<< <<Blank(draft.draftId), "MISSING_DRAFT_ID">>,
           <<draft.employer # "G", "MISSING_EMPLOYER">>,
           <<draft.records = <<>>, "EMPTY_DRAFT">> >>)

\* Mutant: a missing approval is not a blocker under any preset.
recordBlockers_Unapproved(r, c) ==
  AllOf(<< <<Blank(r.employeeId), "MISSING_EMPLOYEE_ID">>,
           <<Blank(r.asset), "MISSING_ASSET">>,
           <<~Blank(r.asset) /\ ~isValidAsset(r.asset), "INVALID_ASSET_FORMAT">>,
           <<r.amount < 0, "NEGATIVE_AMOUNT">>,
           <<r.amount = 0, "ZERO_AMOUNT_NOT_ALLOWED">>,
           <<r.amount > c.max, "AMOUNT_EXCEEDS_MAX">>,
           <<c.period /\ Blank(r.period), "MISSING_PERIOD">>,
           <<c.period /\ ~Blank(r.period) /\ ~isValidPeriod(r.period), "INVALID_PERIOD_FORMAT">> >>)

\* validateRecord and validateAmount: the blockers of a record under preset c.
recordBlockers(r, c) ==
  AllOf(<< <<Blank(r.employeeId), "MISSING_EMPLOYEE_ID">>,
           <<Blank(r.asset), "MISSING_ASSET">>,
           <<~Blank(r.asset) /\ ~isValidAsset(r.asset), "INVALID_ASSET_FORMAT">>,
           <<r.amount < 0, "NEGATIVE_AMOUNT">>,
           <<r.amount = 0, "ZERO_AMOUNT_NOT_ALLOWED">>,
           <<r.amount > c.max, "AMOUNT_EXCEEDS_MAX">>,
           <<c.period /\ Blank(r.period), "MISSING_PERIOD">>,
           <<c.period /\ ~Blank(r.period) /\ ~isValidPeriod(r.period), "INVALID_PERIOD_FORMAT">>,
           <<c.approvals /\ r.requiresApproval /\ ~r.isApproved, "MISSING_REQUIRED_APPROVAL">> >>)

\* The warnings: with redactAmounts every record has one, a number is never redacted.
recordWarnings(r, c, redactAmounts) ==
  AllOf(<< <<~Blank(r.employeeId) /\ ~isValidEmployeeId(r.employeeId), "INVALID_EMPLOYEE_ID">>,
           <<r.amount > 0 /\ r.amount < c.min, "AMOUNT_BELOW_MIN">>,
           <<c.redaction /\ redactAmounts, "REDACTION_POLICY_VIOLATION">> >>)

checkDuplicates(records) ==
  {i \in DOMAIN records :
     /\ ~isRedacted(records[i].employeeId)
     /\ \E j \in 1..(i - 1) : \A field \in {"employeeId", "asset", "period"} : records[j][field] = records[i][field]}

zeroTotal(records) == SumBy(LAMBDA r : r.amount, records) = 0

\* buildResult, after validate: structure issues end it before the records are looked at.
offlineResult(draft, c) ==
  LET structure == draftStructure(draft)
      records   == IF structure = {} THEN draft.records ELSE <<>>
      valid     == {i \in DOMAIN records : recordBlockers(records[i], c) = {}}
      blockers  == Cardinality(structure) + SumBy(LAMBDA r : Cardinality(recordBlockers(r, c)), records)
                     + (IF c.duplicates THEN Cardinality(checkDuplicates(records)) ELSE 0)
                     + (IF structure = {} /\ zeroTotal(records) THEN 1 ELSE 0)
      warnings  == SumBy(LAMBDA r : Cardinality(recordWarnings(r, c, draft.redactAmounts)), records)
  IN  [isValid |-> blockers = 0, isReadyToSubmit |-> blockers = 0 /\ warnings < 5, warnings |-> warnings,
       validRecords |-> Cardinality(valid), recordsWithIssues |-> Len(draft.records) - Cardinality(valid)]

\* formatDiagnosticSummary of a collector: errors stop a run, warnings do not.
collectorStatus(errors, warnings) ==
  IF errors > 0 THEN "BLOCKED_BY_ERRORS" ELSE IF warnings > 0 THEN "PASS_WITH_WARNINGS" ELSE "PASS_CLEAN"

-----------------------------------------------------------------------------
\* indexRecipients, and the map of diffBatches: the first record of an id counts.
RecipientIds(batch) == {batch[i].id : i \in DOMAIN batch}
RecordOf(batch, id) == batch[Min({i \in DOMAIN batch : batch[i].id = id})]
Both(a, b) == RecipientIds(a) \cap RecipientIds(b)

\* Numbers where BigInt reads them, texts where it does not.
amountsEqual(x, y) == x = y \/ (BigIntOf(x) >= 0 /\ BigIntOf(x) = BigIntOf(y))

diffPayrollBatches(a, b) ==
  [added   |-> RecipientIds(b) \ RecipientIds(a),
   removed |-> RecipientIds(a) \ RecipientIds(b),
   edited  |-> {id \in Both(a, b) : LET x == RecordOf(a, id) y == RecordOf(b, id) IN
                                      ~amountsEqual(x.amount, y.amount) \/ x.asset # y.asset}]

\* Mutant: only the amounts are compared.
diffBatches_AmountOnly(a, b) ==
  [added   |-> RecipientIds(b) \ RecipientIds(a),
   removed |-> RecipientIds(a) \ RecipientIds(b),
   changed |-> {<<id, "amountChanged">> : id \in {i \in Both(a, b) : RecordOf(a, i).amount # RecordOf(b, i).amount}}]

\* diffBatches (engine.ts): amounts as texts, one kind per change.
diffBatches(a, b) ==
  LET kind(x, y) == FirstOf(<< <<x.amount # y.amount, "amountChanged">>, <<x.asset # y.asset, "assetChanged">> >>, "same")
  IN  [added   |-> RecipientIds(b) \ RecipientIds(a),
       removed |-> RecipientIds(a) \ RecipientIds(b),
       changed |-> {<<id, kind(RecordOf(a, id), RecordOf(b, id))>> :
                      id \in {i \in Both(a, b) : kind(RecordOf(a, i), RecordOf(b, i)) # "same"}}]

recipientCommitment(r) == <<r.amount, r.asset>>

-----------------------------------------------------------------------------
\* class UnionFind: the parent of each row; find without its path compression.
find(parent, i) ==
  LET root[k \in DOMAIN parent] == IF parent[k] = k THEN k ELSE root[parent[k]] IN root[i]

\* Mutant: the row itself, not the root of its group, is hung under the other.
union_Leaf(parent, pair) == [parent EXCEPT ![pair[2]] = find(parent, pair[1])]

union(parent, pair) ==
  LET l == find(parent, pair[1]) r == find(parent, pair[2]) IN [parent EXCEPT ![Max({l, r})] = Min({l, r})]

\* normalizeIdentifier: lower case; "" where nothing is left.
normalizeIdentifier(text) == IF Blank(text) THEN "" ELSE IF text = "A" THEN "a" ELSE text

\* namesAreSimilar, for names of the inputs: "ann" and "anna" are within two edits, "bob" is not.
namesAreSimilar(x, y) == x # "" /\ y # "" /\ (x = y \/ {x, y} = {"ann", "anna"})

\* The pairs of rows that collectIdentityEvidence and collectFuzzyNameEvidence report, i < j.
SameIdentifier(rows, i, j, field) == ~Blank(rows[i][field]) /\ rows[i][field] = rows[j][field]

identityEvidence(rows, field) ==
  {p \in (DOMAIN rows) \X (DOMAIN rows) :
     /\ p[1] < p[2]
     /\ \/ SameIdentifier(rows, p[1], p[2], field)
             /\ \A k \in (p[1] + 1)..(p[2] - 1) : ~SameIdentifier(rows, p[1], k, field)
        \/ /\ rows[p[1]][field] # rows[p[2]][field]
           /\ normalizeIdentifier(rows[p[1]][field]) # ""
           /\ normalizeIdentifier(rows[p[1]][field]) = normalizeIdentifier(rows[p[2]][field])}

nameEvidence(rows) ==
  {p \in (DOMAIN rows) \X (DOMAIN rows) : p[1] < p[2] /\ namesAreSimilar(rows[p[1]].name, rows[p[2]].name)}

evidence(rows) == identityEvidence(rows, "employeeId") \cup identityEvidence(rows, "wallet") \cup nameEvidence(rows)

\* The groups of at least two rows.
buildClusters(rows, parent) ==
  {c \in {{i \in DOMAIN rows : find(parent, i) = root} : root \in DOMAIN rows} : Cardinality(c) > 1}

detectDuplicateClusters(rows) ==
  buildClusters(rows, FoldSet(LAMBDA p, acc : union(acc, p), [i \in DOMAIN rows |-> i], evidence(rows)))

-----------------------------------------------------------------------------
ImportOutcomes == {"added", "updated", "skipped", "duplicate", "failed"}

\* resolveRowOutcome: a row that says several things counts by the gravest.
resolveRowOutcome(row, default) ==
  FirstOf(<< <<row = {"not an object"}, "failed">>,
             <<row \cap {"error", "failed"} # {}, "failed">>,
             <<row \cap {"duplicate", "conflict"} # {}, "duplicate">>,
             <<row \cap {"skipped", "ignored"} # {}, "skipped">>,
             <<row \cap {"updated"} # {}, "updated">>,
             <<row \cap {"added", "created"} # {}, "added">> >>, default)

\* Mutant: the list of duplicates of a grouped answer is not read.
parseGroups_NoDuplicates(groups) == [o \in ImportOutcomes |-> IF o = "duplicate" THEN 0 ELSE Len(groups[o])]

\* parseEmployeeImportResult: an answer already in groups, and one in rows.
parseGroups(groups) == [o \in ImportOutcomes |-> Len(groups[o])]

parseRows(rows, default) == [o \in ImportOutcomes |-> Count(LAMBDA r : resolveRowOutcome(r, default) = o, rows)]

isImportFullySuccessful(counts) == counts["failed"] = 0 /\ counts["duplicate"] = 0

-----------------------------------------------------------------------------
BatchItemOutcome == {"succeeded", "failed", "partial", "pending", "skipped", "timeout"}

\* parsePartialBatchFailure only counts: items gives, for each outcome, how many items have it.
OutcomeCount(items, outcomes) == MapThenSumSet(LAMBDA o : items[o], outcomes)

classifyBatchFailure(succeeded, failed, total, pending) ==
  FirstOf(<< <<total = 0, "UNKNOWN_ERROR">>,
             <<failed = 0 /\ pending = 0, "ALL_SUCCEEDED">>,
             <<succeeded = 0 /\ pending = 0, "ALL_FAILED">>,
             <<pending > 0 /\ succeeded > 0, "PARTIAL_FAILURE">>,
             <<pending > 0, "TIMEOUT_REACHED">> >>, "PARTIAL_FAILURE")

\* Math.round to a tenth of a percent, in per mille: half of one is rounded up.
PerMille(part, total) == IF total = 0 THEN 0 ELSE (2000 * part + total) \div (2 * total)

parsePartialBatchFailure(items) ==
  LET n(outcomes) == OutcomeCount(items, outcomes)
      total == n(BatchItemOutcome)
  IN  [code |-> classifyBatchFailure(n({"succeeded"}), n({"failed", "partial"}), total, n({"pending", "timeout"})),
       \* each partial item is taken off
       successRate |-> PerMille(n({"succeeded"}) - n({"partial"}), total),
       allSucceeded |-> n({"failed", "partial", "pending"}) = 0,
       allFailed |-> n({"succeeded", "pending"}) = 0,
       hasRetryableFailures |-> n({"failed", "partial", "timeout"}) > 0]

\* Mutant: items that were only partly paid are not offered again.
getRetryableItems_NotPartial(items) == OutcomeCount(items, {"failed", "timeout"})

\* How many items may be retried.
getRetryableItems(items) == OutcomeCount(items, {"failed", "partial", "timeout"})

isRetryRecommended(items) ==
  parsePartialBatchFailure(items).hasRetryableFailures /\ parsePartialBatchFailure(items).successRate < 1000

-----------------------------------------------------------------------------
OfflineRecord(ids, assets, amounts, periods, approvals) ==
  [employeeId : ids, asset : assets, amount : amounts, period : periods, requiresApproval : approvals, isApproved : approvals]

OfflineInputs ==
  LET drafts(records, redact) ==
        [draftId : {"d"}, employer : {"G"}, records : records, redactAmounts : redact]
      one == OfflineRecord({"", "e-1", "?"}, {"", "native", "X"}, {-1, 0, 1, 2, 9}, {"", "2024-13", "x"}, BOOLEAN)
      few == OfflineRecord({"e-1", "REDACTED"}, {"native"}, {-1, 1, 2}, {"2024-13"}, {FALSE})
  IN  drafts({<<r>> : r \in one} \cup {<<r, s>> : r, s \in few} \cup {<<r, s, t>> : r, s, t \in few}, BOOLEAN)
        \cup [draftId : {"", "d"}, employer : {"", "G"}, records : {<<>>, <<CHOOSE r \in few : TRUE>>}, redactAmounts : {FALSE}]

BatchInputs ==
  LET record == [id : {"a", "b"}, amount : {"1", "01", "2"}, asset : {"X", "Y"}]
      batches == {<<>>} \cup {<<r>> : r \in record} \cup {<<r, s>> : r, s \in {x \in record : x.asset = "X"}}
  IN  batches \X batches

RowInputs ==
  LET row == [employeeId : {"", "a", "A"}, wallet : {"", "a"}, name : {"ann", "anna", "bob"}]
  IN  [1..3 -> row] \cup [1..4 -> {r \in row : r.employeeId \in {"a", "A"} /\ r.name # "anna" /\ r.wallet = ""}]

AnswerInputs ==
  {<<>>} \cup {<<r>> : r \in SUBSET {"error", "conflict", "ignored", "updated", "created"}}
    \cup [1..3 -> {{"not an object"}, {"failed"}, {"duplicate"}, {"skipped"}, {"updated"}, {"added"}, {}}]

\* Every batch with at most two items of an outcome, and large ones in which few items did not succeed.
OutcomeInputs ==
  [BatchItemOutcome -> 0..2]
    \cup {[few EXCEPT !["succeeded"] = n] : few \in [BatchItemOutcome -> 0..1], n \in {998, 1998, 1999, 2999, 4001}}

(***************************************************************************)
(* The presets are nested: what strict accepts standard accepts, and what  *)
(* standard accepts lenient does; an accepted draft has no record with an  *)
(* issue, is never empty, and pays every record a positive amount          *)
(* (OfflineDraftValidator.ts 37-141, types.ts 219-262).                    *)
(***************************************************************************)
PresetsNested ==
  About("offline") =>
    LET result(name) == offlineResult(subject.input, ValidationPresets[name]) IN
    /\ result("strict").isValid => result("standard").isValid
    /\ result("standard").isValid => result("lenient").isValid
    /\ result("lenient").isValid =>
         result("lenient").recordsWithIssues = 0 /\ Every(LAMBDA r : r.amount > 0, subject.input.records)
    /\ result("strict").isReadyToSubmit =>
         collectorStatus(0, result("strict").warnings) # "BLOCKED_BY_ERRORS"
           /\ Every(LAMBDA r : r.requiresApproval => r.isApproved, subject.input.records)

(***************************************************************************)
(* The two comparisons of batches (batches/diff.ts and batches/engine.ts)  *)
(* see the same additions and removals, undoing a change swaps them, and   *)
(* every edit of the first is a change of the second; the second reports   *)
(* more only where a text changed and the number it stands for did not.    *)
(***************************************************************************)
DiffsAgree ==
  About("batches") =>
    LET a == subject.input[1] b == subject.input[2]
        d == diffPayrollBatches(a, b) e == diffBatches(a, b)
        changed == {c[1] : c \in e.changed}
    IN  /\ d.added = e.added /\ d.removed = e.removed /\ d.edited \subseteq changed
        /\ diffPayrollBatches(b, a) = [added |-> d.removed, removed |-> d.added, edited |-> d.edited]
        /\ \A id \in changed \ d.edited :
             /\ BigIntOf(RecordOf(a, id).amount) = BigIntOf(RecordOf(b, id).amount)
             /\ recipientCommitment(RecordOf(a, id)) # recipientCommitment(RecordOf(b, id))

(***************************************************************************)
(* The clusters of an import are the classes of the transitive closure of  *)
(* the evidence: disjoint, two rows with evidence in one of them, and no   *)
(* cluster falls apart into two parts without evidence between them        *)
(* (ImportDuplicateClusterDetector.ts 39-330).                             *)
(***************************************************************************)
ClustersAreClosure ==
  About("rows") =>
    LET rows == subject.input
        clusters == detectDuplicateClusters(rows)
    IN  /\ \A c, d \in clusters : c # d => c \cap d = {}
        /\ \A p \in evidence(rows) : \E c \in clusters : {p[1], p[2]} \subseteq c
        /\ \A c \in clusters : \A part \in SUBSET c \ {{}, c} :
             \E p \in evidence(rows) : {p[1], p[2]} \subseteq c /\ (p[1] \in part <=> p[2] \notin part)

(***************************************************************************)
(* An import answer read row by row, and the same rows read as groups,     *)
(* give the same counts, which add up to the rows; so does the verdict     *)
(* (resultParser.ts 86-147).                                               *)
(***************************************************************************)
AnswersAddUp ==
  About("answer") =>
    LET rows == subject.input
        counts == parseRows(rows, "added")
        grouped == [o \in ImportOutcomes |-> SelectSeq(rows, LAMBDA r : resolveRowOutcome(r, "added") = o)]
    IN  /\ MapThenSumSet(LAMBDA o : counts[o], ImportOutcomes) = Len(rows)
        /\ parseGroups(grouped) = counts
        /\ isImportFullySuccessful(parseGroups(grouped)) <=> ~Some(LAMBDA r : resolveRowOutcome(r, "added") \in {"failed", "duplicate"}, rows)

(***************************************************************************)
(* A retry of a batch is recommended only when some item can be retried,   *)
(* and the items passed over when it is not are at most one in two         *)
(* thousand: the rate is rounded to a tenth of a percent, so that 2999 of  *)
(* 3000 counts as all of them and the one item is never recommended.  The  *)
(* code and the flags of the summary do not contradict each other          *)
(* (partialBatchFailureParser.ts 148-305).                                 *)
(***************************************************************************)
RetryViewsAgree ==
  About("outcomes") =>
    LET items == subject.input
        parsed == parsePartialBatchFailure(items)
    IN  /\ isRetryRecommended(items) => getRetryableItems(items) > 0
        /\ ~isRetryRecommended(items) => 2000 * getRetryableItems(items) <= OutcomeCount(items, BatchItemOutcome)
        /\ parsed.code = "ALL_SUCCEEDED" => parsed.allSucceeded /\ ~parsed.hasRetryableFailures
        /\ parsed.code = "ALL_FAILED" => parsed.allFailed /\ parsed.hasRetryableFailures
=============================================================================
