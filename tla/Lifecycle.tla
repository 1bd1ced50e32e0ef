------------------------------ MODULE Lifecycle ------------------------------
(***************************************************************************)
(* payroll/, archive/, archived/, amendments/ and status.ts: what may      *)
(* happen to a payroll run, a period or a draft, read off its status, its  *)
(* flags and its age.  Statuses are written in lower case; blanks around   *)
(* one are told apart where a reader trims and another does not.  "" is an *)
(* absent value.  Times are small integers and -1 is no time.              *)
(***************************************************************************)
EXTENDS Subject

\* status.ts: whether each status is final.  An unknown status has the fallback label.
TRANSACTION_STATUS_LABELS ==
  [pending |-> FALSE, confirmed |-> TRUE, failed |-> TRUE, expired |-> TRUE, unknown |-> FALSE, retryable |-> FALSE]
EXECUTION_STATUS_LABELS == [success |-> TRUE, partial |-> TRUE, failure |-> TRUE, pending |-> FALSE]
PAYROLL_RUN_STATUS_LABELS ==
  [draft |-> FALSE, scheduled |-> FALSE, executed |-> TRUE, cancelled |-> TRUE, failed |-> TRUE]
ARCHIVED_STATUS_LABELS == [completed |-> TRUE, failed |-> TRUE]

isTransactionStatusTerminal(s) == s \in DOMAIN TRANSACTION_STATUS_LABELS /\ TRANSACTION_STATUS_LABELS[s]
isExecutionStatusTerminal(s) == s \in DOMAIN EXECUTION_STATUS_LABELS /\ EXECUTION_STATUS_LABELS[s]
isPayrollRunStatusTerminal(s) == s \in DOMAIN PAYROLL_RUN_STATUS_LABELS /\ PAYROLL_RUN_STATUS_LABELS[s]

getStatusLabel(s, type) ==
  CASE type = "transaction" -> isTransactionStatusTerminal(s)
    [] type = "execution" -> isExecutionStatusTerminal(s)
    [] type = "payrollRun" -> isPayrollRunStatusTerminal(s)
    [] type = "archived" -> s \in DOMAIN ARCHIVED_STATUS_LABELS /\ ARCHIVED_STATUS_LABELS[s]

PayrollRunStatus == {"draft", "scheduled", "executed", "cancelled", "failed"}

\* Mutant: a failed run may be taken up again.
isTerminalPayrollRunStatus_FailedOpen(s) == s \in {"executed", "cancelled"}

isTerminalPayrollRunStatus(s) == s \in {"executed", "cancelled", "failed"}

parsePayrollRunStatus(s) ==
  IF s = "" THEN "MISSING_STATUS" ELSE IF s \notin PayrollRunStatus THEN "UNKNOWN_STATUS" ELSE "ok"

\* retryEligibility.ts.
evaluateFailedPayoutRetryEligibility(i) ==
  FirstOf(<< <<i.status \notin DOMAIN TRANSACTION_STATUS_LABELS, "INVALID_STATUS">>,
             <<i.status = "pending", "PAYOUT_PENDING">>,
             <<i.status = "confirmed", "PAYOUT_ALREADY_CONFIRMED">>,
             <<i.status = "expired", "PAYOUT_EXPIRED">>,
             <<i.status = "unknown", "PAYOUT_STATUS_UNKNOWN">>,
             <<i.category \notin {"retryable", "terminal", "expired", "unknown"}, "INVALID_FAILURE_CATEGORY">>,
             <<i.category # "retryable", "FAILURE_NOT_RETRYABLE">>,
             <<i.attempts < 0, "INVALID_ATTEMPT_COUNT">>,
             <<i.max < 1, "INVALID_MAX_ATTEMPTS">>,
             <<i.attempts >= i.max, "RETRY_LIMIT_REACHED">>,
             <<i.key = "", "MISSING_IDEMPOTENCY_KEY">> >>, "ELIGIBLE")

\* Mutant: the age is measured from the other end.
isPayrollPeriodReopenEligible_AgeFlipped(p, maxAge, allowWithPendingCorrections, now) ==
  IF p.status \notin {"closed", "archived"} THEN "PERIOD_NOT_CLOSED"
  ELSE IF p.closedAt > 0 /\ now - p.closedAt < maxAge THEN "PERIOD_TOO_OLD" ELSE "ELIGIBLE"

\* A closing time of 0 counts as none.
isPayrollPeriodReopenEligible(p, maxAge, allowWithPendingCorrections, now) ==
  FirstOf(<< <<p.periodId = "", "INVALID_PERIOD_ID">>,
             <<p.status = "", "PERIOD_NOT_FOUND">>,
             <<p.status \notin {"closed", "archived"}, "PERIOD_NOT_CLOSED">>,
             <<p.closedAt > 0 /\ now - p.closedAt > maxAge, "PERIOD_TOO_OLD">>,
             <<p.corrections /\ ~allowWithPendingCorrections, "PENDING_CORRECTIONS">>,
             <<p.settling, "SETTLEMENT_IN_PROGRESS">>,
             <<p.status = "archived" /\ p.locked, "ARCHIVE_LOCKED">> >>, "ELIGIBLE")

\* timestamps.ts: freshness of a draft and its badge.
getDraftFreshnessStatus(updatedAt, now, fresh, stale) ==
  FirstOf(<< <<updatedAt = -1, "unknown">>, <<now - updatedAt <= fresh, "fresh">>, <<now - updatedAt <= stale, "recent">> >>, "stale")

\* draftDescription.ts: length -1 is no description, 0 an empty one, "blank" only blanks.
validateDraftDescription(length, blank, min, max) ==
  IF length <= 0 THEN <<>>
  ELSE IF blank THEN <<"cannot be blank">>
  ELSE (IF length < min THEN <<"at least">> ELSE <<>>) \o (IF length > max THEN <<"exceed">> ELSE <<>>)

getDescriptionStatus(errors) ==
  FirstOf(<< <<errors = <<>>, "valid">>,
             <<errors # <<>> /\ Head(errors \o <<"">>) = "cannot be blank", "blank">>,
             <<errors # <<>> /\ Head(errors \o <<"">>) = "at least", "too_short">>,
             <<errors # <<>> /\ Head(errors \o <<"">>) = "exceed", "too_long">> >>, "invalid")

-----------------------------------------------------------------------------
\* lockTimestamp.ts and periodSummary.ts read a record of the contract; reply.kind is what the
\* call gave: an error, a value that is no map, or a map.
createEmptyLockTimestamp == [isLocked |-> FALSE, lockedAt |-> 0, error |-> FALSE]

normalizeLockTimestamp(reply) ==
  IF reply.kind # "map" THEN createEmptyLockTimestamp
  ELSE [isLocked |-> reply.locked, lockedAt |-> reply.at * 1000, error |-> FALSE]

\* Mutant: the failed read leaves no trace.
fetchBatchLockTimestamp_Silent(reply) ==
  IF reply.kind = "error" THEN createEmptyLockTimestamp ELSE normalizeLockTimestamp(reply)

fetchBatchLockTimestamp(reply) ==
  IF reply.kind = "error" THEN [createEmptyLockTimestamp EXCEPT !.error = TRUE] ELSE normalizeLockTimestamp(reply)

createEmptyPeriodSummary == [total |-> 0, payments |-> 0, assets |-> <<>>, isFinalized |-> FALSE, error |-> FALSE]

normalizePeriodSummary(reply) ==
  IF reply.kind # "map" THEN createEmptyPeriodSummary
  ELSE [total |-> reply.total, payments |-> reply.payments, isFinalized |-> reply.locked, error |-> FALSE,
        assets |-> SelectSeq(reply.assets, LAMBDA a : a # "")]

fetchPeriodSummary(reply) ==
  IF reply.kind = "error" THEN [createEmptyPeriodSummary EXCEPT !.error = TRUE] ELSE normalizePeriodSummary(reply)

-----------------------------------------------------------------------------
\* archive/eligibility.ts and archivalEligibilityReader.ts; the order of the checks differs from
\* ArchiveClient's.  run.status is the status in lower case without blanks, which is what the
\* evaluator reads; run.padded says that it is written with blanks around it.
evaluateArchiveEligibility(run) ==
  FirstOf(<< <<run.id = "", "MISSING_RUN_ID">>,
             <<run.status = "archived", "ALREADY_ARCHIVED">>,
             <<run.disputed \/ run.status = "disputed", "DISPUTED_RUN">>,
             <<run.held \/ run.status = "held", "HELD_RUN">>,
             <<run.status \notin {"finalized", "completed"}, "INCOMPLETE_STATUS">> >>, "ready")

getArchiveEligibilityBadge(code) ==
  IF code = "ALREADY_ARCHIVED" THEN "archived" ELSE IF code = "ready" THEN "ready" ELSE "blocked"

\* The client and the filters only put the status in lower case: one with blanks is no word of theirs.
Lowered(run) == IF run.padded THEN "padded" ELSE run.status

\* Mutant: the flags of the run are not looked at, only its status.
checkEligibility_StatusOnly(run) == Lowered(run) \in {"finalized", "completed"}

\* ArchiveClient.
checkEligibility(run) ==
  /\ ~(run.disputed \/ Lowered(run) = "disputed")
  /\ ~(run.held \/ Lowered(run) = "held")
  /\ Lowered(run) \in {"finalized", "completed"}

decodeArchiveStatus(s) == IF s \in {"archived", "disputed", "held", "finalized"} THEN s ELSE "active"

\* A reply that is no map and no string counts as archived.
decodeArchiveRecord(run) ==
  LET known == {"disputed", "held", "finalized", "active"}
      status == IF Lowered(run) \in known THEN Lowered(run) ELSE "archived"
  IN  [id |-> run.id, status |-> status, padded |-> FALSE, disputed |-> run.disputed, held |-> run.held]

\* archive/events.ts: the record an event announces, by what its topic contains.
parseArchiveEvent(topics, run) ==
  IF topics = {} THEN "null"
  ELSE IF "dispute" \in topics THEN "disputed" ELSE IF "hold" \in topics THEN "held" ELSE "archived"

meetsAgeRequirement(run, minimumAge, now) ==
  IF run.finalizedAt # -1 THEN ~(minimumAge > 0 /\ now - run.finalizedAt < minimumAge)
  ELSE ~(minimumAge > 0 /\ evaluateArchiveEligibility(run) = "ready")

readArchivalEligibility(run, minimumAge, now) ==
  [code |-> evaluateArchiveEligibility(run), meetsAgeRequirement |-> meetsAgeRequirement(run, minimumAge, now),
   isArchivable |-> evaluateArchiveEligibility(run) = "ready" /\ meetsAgeRequirement(run, minimumAge, now)]

readBatchArchivalEligibility(runs, minimumAge, now) ==
  LET results == [i \in DOMAIN runs |-> readArchivalEligibility(runs[i], minimumAge, now)]
      ready == Count(LAMBDA r : r.isArchivable, results)
  IN  [archivableCount |-> ready, blockedCount |-> Len(runs) - ready,
       ageBlockedCount |-> Count(LAMBDA r : ~r.isArchivable /\ ~r.meetsAgeRequirement, results)]

\* archive/filters.ts.
flagged(run) == run.disputed \/ run.held
isSafelyArchived(run) == ~flagged(run) /\ Lowered(run) = "archived"
isActiveOperationalRun(run) == ~flagged(run) /\ Lowered(run) \in {"active", "finalized", "pending", "processing"}
isFinalizedRun(run) == ~flagged(run) /\ Lowered(run) = "finalized"
isDisputedRun(run) == run.disputed \/ Lowered(run) = "disputed"
isHeldRun(run) == run.held \/ Lowered(run) = "held"

-----------------------------------------------------------------------------
\* amendments/history.ts: a record is usable when its fields are; -1 stands for a bad one.
normalizeAmendmentHistoryRecord(r) == r.revision > 0 /\ r.actor # "" /\ r.recordedAt >= 0

\* Mutant: duplicates are looked for before sorting, among neighbours only.
normalizeAmendmentHistory_Unsorted(records) ==
  IF (\E i \in DOMAIN records : ~normalizeAmendmentHistoryRecord(records[i]))
     \/ \E i \in 2..Len(records) : records[i - 1].revision = records[i].revision
  THEN <<"invalid">> ELSE SortSeq(records, LAMBDA a, b : a.revision < b.revision)

normalizeAmendmentHistory(records) ==
  LET sorted == SortSeq(records, LAMBDA a, b : a.revision < b.revision) IN
  IF (\E i \in DOMAIN records : ~normalizeAmendmentHistoryRecord(records[i]))
     \/ \E i \in 2..Len(sorted) : sorted[i - 1].revision = sorted[i].revision
  THEN <<"invalid">> ELSE sorted

-----------------------------------------------------------------------------
StatusInputs ==
  {[status |-> s, category |-> c, attempts |-> n, max |-> 2, key |-> k, reason |-> "", length |-> l, blank |-> b] :
     s \in {"", "odd"} \cup DOMAIN TRANSACTION_STATUS_LABELS \cup PayrollRunStatus, c \in {"retryable", "terminal", ""},
     n \in {-1, 1, 2}, k \in {"", "k"}, l \in {-1, 0, 1, 3, 5}, b \in BOOLEAN}

RunInputs ==
  {[runs |-> <<[id |-> d, status |-> s, padded |-> b, disputed |-> x, held |-> h, finalizedAt |-> f],
               [id |-> "r2", status |-> t, padded |-> FALSE, disputed |-> FALSE, held |-> FALSE, finalizedAt |-> 1]>>,
    minimumAge |-> m] :
     b \in BOOLEAN, d \in {"", "r1"}, s \in {"active", "finalized", "completed", "archived", "disputed", "held", "pending"},
     x, h \in BOOLEAN, f \in {-1, 0, 2}, t \in {"finalized", "archived"}, m \in {0, 2}}

PeriodInputs ==
  {[period |-> [periodId |-> d, status |-> s, closedAt |-> c, corrections |-> p, settling |-> x, locked |-> l],
    allow |-> w, max |-> m] :
     d \in {"", "p"}, s \in {"", "open", "closed", "archived"}, c \in {-1, 0, 1, 3}, p, x, l, w \in BOOLEAN, m \in 1..2}

ReplyInputs ==
  [kind : {"error", "void", "map"}, locked : BOOLEAN, at : 0..2, total : 0..2, payments : 0..1, assets : {<<>>, <<"">>, <<"a", "">>}]

HistoryInputs ==
  LET record == [revision : -1..3, actor : {"a"}, recordedAt : {1}] \cup [revision : {1}, actor : {"", "b"}, recordedAt : {-1, 2}]
  IN  {<<a, b, c>> : a, b, c \in record}

(***************************************************************************)
(* Two tables say which run statuses are final, and they agree on every    *)
(* status the parser knows; nothing it refuses is final; a payout that may *)
(* be tried again is not confirmed and not expired in the first table; and *)
(* the status of a description read off the wording of its first error is  *)
(* the check that failed (status.ts 143-343, runStatus.ts 16-43,           *)
(* retryEligibility.ts 61-169, draftDescription.ts 50-161).                *)
(***************************************************************************)
StatusTablesAgree ==
  About("status") =>
    LET i == subject.input
        description == validateDraftDescription(i.length, i.blank, 2, 4)
    IN  /\ parsePayrollRunStatus(i.status) = "ok" =>
             /\ isTerminalPayrollRunStatus(i.status) <=> getStatusLabel(i.status, "payrollRun")
        /\ parsePayrollRunStatus(i.status) # "ok" => ~getStatusLabel(i.status, "payrollRun")
        /\ evaluateFailedPayoutRetryEligibility(i) = "ELIGIBLE" =>
             /\ getStatusLabel(i.status, "transaction") => i.status = "failed"
             /\ getStatusLabel(i.status, "payrollRun") => i.status = "failed"
        /\ getDescriptionStatus(description) = "valid" <=> (i.length <= 0 \/ (~i.blank /\ i.length \in 2..4))
        /\ getDescriptionStatus(description) # "invalid"

(***************************************************************************)
(* The views of a run agree: the client passes no run with an id that the  *)
(* evaluator blocks, and the converse holds of a status without blanks     *)
(* (the evaluator trims, the client does not, so "finalized " is ready for *)
(* one and refused by the other); a run that may be archived is in none of *)
(* the disputed, held or archived lists and, read back after archiving, is *)
(* safely archived; the lists do not overlap; and a batch blocks for its   *)
(* age only what is otherwise in order or too young (archive/eligibility   *)
(* 72-194, ArchiveClient 25-49, archivalEligibilityReader 62-159, filters  *)
(* 7-81).                                                                  *)
(***************************************************************************)
ArchiveViewsAgree ==
  About("archive") =>
    LET i == subject.input
        batch == readBatchArchivalEligibility(i.runs, i.minimumAge, 3)
    IN  /\ \A run \in ToSet(i.runs) :
             LET code == evaluateArchiveEligibility(run) IN
             /\ run.id # "" /\ checkEligibility(run) => code = "ready"
             /\ code = "ready" => checkEligibility(run) \/ run.padded
             /\ code = "ready" =>
                  /\ ~isDisputedRun(run) /\ ~isHeldRun(run) /\ ~isSafelyArchived(run)
                  /\ isSafelyArchived(decodeArchiveRecord([run EXCEPT !.status = parseArchiveEvent({"archive"}, run), !.padded = FALSE]))
             /\ isSafelyArchived(run) /\ run.id # "" => getArchiveEligibilityBadge(code) = "archived"
             /\ ~(isActiveOperationalRun(run) /\ (isDisputedRun(run) \/ isHeldRun(run) \/ isSafelyArchived(run)))
             /\ isFinalizedRun(run) => isActiveOperationalRun(run)
             /\ isSafelyArchived(run) => decodeArchiveStatus(Lowered(run)) = "archived"
        /\ batch.archivableCount + batch.blockedCount = Len(i.runs)
        /\ batch.ageBlockedCount <= batch.blockedCount

(***************************************************************************)
(* Time only closes and only opens: a period that may be reopened later    *)
(* could be reopened earlier, a run old enough to be archived stays old    *)
(* enough, and a draft never gets fresher (payrollPeriodReopenEligibility  *)
(* 85-176, archivalEligibilityReader 79-99, timestamps.ts 155-184).        *)
(***************************************************************************)
WindowsAreMonotone ==
  LET rank(s) == CASE s = "fresh" -> 0 [] s = "recent" -> 1 [] s = "stale" -> 2 [] OTHER -> 3 IN
  /\ About("period") =>
       LET i == subject.input IN
       \A t \in 3..5 :
         /\ isPayrollPeriodReopenEligible(i.period, i.max, i.allow, t + 1) = "ELIGIBLE" =>
              isPayrollPeriodReopenEligible(i.period, i.max, i.allow, t) = "ELIGIBLE"
         /\ rank(getDraftFreshnessStatus(i.period.closedAt, t, 1, 2)) <= rank(getDraftFreshnessStatus(i.period.closedAt, t + 1, 1, 2))
  /\ About("archive") =>
       \A t \in 1..4, run \in ToSet(subject.input.runs) :
         readArchivalEligibility(run, subject.input.minimumAge, t).isArchivable =>
           readArchivalEligibility(run, subject.input.minimumAge, t + 1).isArchivable

(***************************************************************************)
(* A read that failed is never taken for an answer: a batch shown unlocked *)
(* or a period shown empty either carries the error or is what the         *)
(* contract said (lockTimestamp.ts 114-142, periodSummary.ts 245-274).     *)
(* The error is beside the declared type, and the doc of the second reader *)
(* says that it throws (periodSummary.ts 243), which it does not.          *)
(***************************************************************************)
FailedReadsShow ==
  About("reply") =>
    LET r == subject.input
        lock == fetchBatchLockTimestamp(r)
        summary == fetchPeriodSummary(r)
    IN  /\ ~lock.isLocked /\ ~lock.error => r.kind # "error" /\ (r.kind = "map" => ~r.locked)
        /\ summary.total = 0 /\ ~summary.error => r.kind # "error" /\ (r.kind = "map" => r.total = 0)
        /\ lock.error <=> summary.error

(***************************************************************************)
(* The history of amendments does not depend on the order it arrives in,   *)
(* and no revision appears twice in it (amendments/history.ts 85-113).     *)
(***************************************************************************)
HistoryIsOneOrder ==
  About("history") =>
    LET s == subject.input
        h == normalizeAmendmentHistory(s)
    IN  /\ h = normalizeAmendmentHistory(Reverse(s))
        /\ h = normalizeAmendmentHistory(<<s[2], s[3], s[1]>>)
        /\ h # <<"invalid">> => \A a, b \in DOMAIN h : a < b => h[a].revision < h[b].revision
=============================================================================
