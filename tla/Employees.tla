----------------------------- MODULE Employees -----------------------------
(***************************************************************************)
(* eligibility/ and employees/: who may be paid.  A record's identifiers   *)
(* keep the whitespace they came with ("a " is "a" once trimmed); pay is   *)
(* NoPay when the record carries none; a date is NoDate when there is none *)
(* or it does not parse.                                                   *)
(***************************************************************************)
EXTENDS Subject

NoPay == -1
NoDate == -1
Trim(id) == IF id = "a " THEN "a" ELSE id
ValidAddress(a) == Trim(a) \notin {Nil, "bad"}

Reason(code) == [code |-> code, severity |-> "error"]
Warning(code) == [code |-> code, severity |-> "warning"]

\* Mutant: a start date in the future is taken for a lasting refusal.
RetryableReasons_NoDates == {"PAYROLL_LOCKED", "REGISTRY_RECORD_NOT_FOUND", "REGISTRY_RECORD_DEACTIVATED"}

\* reasonCodes.ts: the reasons another attempt may not meet again.
RetryableReasons == {"EFFECTIVE_DATE_FUTURE", "PAYROLL_LOCKED", "REGISTRY_RECORD_NOT_FOUND", "REGISTRY_RECORD_DEACTIVATED"}

EmployeeEligibilityRecord(ids, recipients, pays, assets, statuses, dates, compliances) ==
  [employeeId : ids, recipient : recipients, pay : pays, asset : assets, status : statuses,
   effectiveDate : dates, expiryDate : dates, isBlocked : BOOLEAN, isLocked : BOOLEAN, compliance : compliances]

-----------------------------------------------------------------------------
\* The rules: each gives the codes it reports, in the order it reports them.
validateEmployeeIdRule(r) == IF Trim(r.employeeId) = Nil THEN <<"MISSING_EMPLOYEE_ID">> ELSE <<>>

validateRecipientRule(r, o) ==
  IF Trim(r.recipient) = Nil THEN <<"MISSING_RECIPIENT_ADDRESS">>
  ELSE IF o.requireValidStellar /\ ~ValidAddress(r.recipient) THEN <<"INVALID_RECIPIENT_ADDRESS">> ELSE <<>>

validateSalaryRule(r, o) ==
  IF r.pay <= 0 THEN <<"ZERO_OR_NEGATIVE_SALARY">>
  ELSE (IF o.minSalary # NoPay /\ r.pay < o.minSalary THEN <<"SALARY_BELOW_MIN_LIMIT">> ELSE <<>>)
       \o (IF o.maxSalary # NoPay /\ r.pay > o.maxSalary THEN <<"SALARY_EXCEEDS_MAX_LIMIT">> ELSE <<>>)

validateAssetRule(r, o) ==
  IF r.asset = Nil THEN <<"MISSING_ASSET_IDENTIFIER">>
  ELSE IF o.allowedAssets # {} /\ r.asset \notin o.allowedAssets THEN <<"UNSUPPORTED_ASSET">> ELSE <<>>

\* Mutant: suspension is left to the suspension payout.
validateStatusRule_NotSuspended(r, o) ==
  FirstOf(<< <<r.status = "inactive", <<"INACTIVE_EMPLOYEE_STATUS">> >>,
             <<r.status \in {"terminated", "offboarded"}, <<"EMPLOYEE_TERMINATED">> >> >>, <<>>)

\* A record without a status counts as active.
statusNow(r) == IF r.status = Nil THEN "active" ELSE r.status

validateStatusRule(r, o) ==
  LET status == statusNow(r) IN
  FirstOf(<< <<status = "inactive", <<"INACTIVE_EMPLOYEE_STATUS">> >>,
             <<status = "suspended", <<"EMPLOYEE_SUSPENDED">> >>,
             <<status \in {"terminated", "offboarded"}, <<"EMPLOYEE_TERMINATED">> >>,
             <<o.allowedStatuses # {} /\ status \notin o.allowedStatuses, <<"INACTIVE_EMPLOYEE_STATUS">> >> >>, <<>>)

validateLifecycleDatesRule(r, ref) ==
  (IF r.effectiveDate # NoDate /\ r.effectiveDate > ref THEN <<"EFFECTIVE_DATE_FUTURE">> ELSE <<>>)
  \o (IF r.expiryDate # NoDate /\ r.expiryDate < ref THEN <<"EFFECTIVE_DATE_EXPIRED">> ELSE <<>>)

validateComplianceRule(r, o) ==
  (IF r.isBlocked THEN <<"COMPLIANCE_BLOCKED">> ELSE <<>>)
  \o (IF r.isLocked THEN <<"PAYROLL_LOCKED">> ELSE <<>>)
  \o FirstOf(<< <<r.compliance = "sanctioned", <<"SANCTION_LISTED">> >>,
                <<r.compliance \in {"failed", "blocked"}, <<"COMPLIANCE_BLOCKED">> >>,
                <<r.compliance = "pending" /\ o.strictCompliance, <<"COMPLIANCE_BLOCKED">> >> >>, <<>>)

\* Mutant: identifiers are compared as they came.
validateBatchDuplicatesRule_Untrimmed(batch, rows, i, o) ==
  (IF \E j \in 1..(i - 1) : batch[j].employeeId = batch[i].employeeId THEN <<"DUPLICATE_EMPLOYEE_ID">> ELSE <<>>)
  \o (IF \E j \in 1..(i - 1) : batch[j].recipient = batch[i].recipient THEN <<"DUPLICATE_RECIPIENT_ADDRESS">> ELSE <<>>)

\* Only the records before this one among the given rows of the batch count.
validateBatchDuplicatesRule(batch, rows, i, o) ==
  LET repeats(field) == /\ Trim(batch[i][field]) # Nil
                        /\ \E j \in 1..(i - 1) : j \in rows /\ Trim(batch[j][field]) = Trim(batch[i][field]) IN
  IF ~o.checkDuplicates THEN <<>>
  ELSE (IF repeats("employeeId") THEN <<"DUPLICATE_EMPLOYEE_ID">> ELSE <<>>)
       \o (IF repeats("recipient") THEN <<"DUPLICATE_RECIPIENT_ADDRESS">> ELSE <<>>)

\* The registry's answer for the recipient; a failed read reads as a missing record.
validateOnChainRegistryRule(r, o) ==
  LET entry == o.registry IN
  IF entry.kind = "unused" \/ r.recipient = Nil THEN <<>>
  ELSE IF entry.kind \in {"missing", "unreadable"} THEN <<"REGISTRY_RECORD_NOT_FOUND">>
  ELSE (IF ~entry.active THEN <<"REGISTRY_RECORD_DEACTIVATED">> ELSE <<>>)
       \o (IF entry.verifySalary /\ r.pay # NoPay /\ entry.salary # r.pay THEN <<"REGISTRY_SALARY_MISMATCH">> ELSE <<>>)
       \o (IF entry.verifyToken /\ r.asset # Nil /\ entry.token # r.asset THEN <<"REGISTRY_TOKEN_MISMATCH">> ELSE <<>>)

-----------------------------------------------------------------------------
Refusals(codes) == [k \in DOMAIN codes |-> Reason(codes[k])]

\* One custom rule stands for the list of them ("none": there is none): it answers at once,
\* with a reason or a warning, answers through a promise, or throws.
CustomReasons(rule, heard) ==
  IF rule \notin heard THEN <<>> ELSE IF rule = "warns" THEN <<Warning("CUSTOM")>> ELSE <<Reason("CUSTOM_INELIGIBILITY_RULE")>>

\* The synchronous pass ignores promises and turns a throw into a reason.
evaluateSyncRules(r, o, ref, rule) ==
  Refusals(validateEmployeeIdRule(r)) \o Refusals(validateRecipientRule(r, o)) \o Refusals(validateSalaryRule(r, o))
  \o Refusals(validateAssetRule(r, o)) \o Refusals(validateStatusRule(r, o)) \o Refusals(validateLifecycleDatesRule(r, ref))
  \o Refusals(validateComplianceRule(r, o)) \o CustomReasons(rule, {"refuses", "warns", "throws"})

buildResult(reasons) ==
  LET errors == {k \in DOMAIN reasons : reasons[k].severity # "warning"} IN
  [isEligible |-> errors = {}, status |-> IF errors = {} THEN "eligible" ELSE "ineligible",
   reasons |-> reasons, primary |-> IF errors = {} THEN Nil ELSE reasons[Min(errors)].code]

evaluate(r, o, ref, rule) == buildResult(evaluateSyncRules(r, o, ref, rule))

\* The custom rules run once more, awaited; a throw here rejects the evaluation.
AwaitedReasons(r, o, rule) ==
  Refusals(validateOnChainRegistryRule(r, o)) \o CustomReasons(rule, {"refuses", "warns", "promises"})

Rejected == [isEligible |-> FALSE, status |-> "rejected", reasons |-> <<>>, primary |-> Nil]

evaluateAsync(r, o, ref, rule) ==
  IF rule = "throws" THEN Rejected
  ELSE buildResult(evaluateSyncRules(r, o, ref, rule) \o AwaitedReasons(r, o, rule))

\* The rows of the batch, in their order; the summary counts the reasons of each code.
BatchReasons(batch, rows, i, o, ref) ==
  evaluateSyncRules(batch[i], o, ref, "none") \o Refusals(validateBatchDuplicatesRule(batch, rows, i, o))

reasonCodeSummary(results) ==
  LET given == UNION {{<<i, k>> : k \in DOMAIN results[i].reasons} : i \in DOMAIN results}
      code(g) == results[g[1]].reasons[g[2]].code
  IN  [c \in {code(g) : g \in given} |-> Cardinality({g \in given : code(g) = c})]

evaluateBatch(batch, rows, o, ref) ==
  LET results == [i \in rows |-> buildResult(BatchReasons(batch, rows, i, o, ref))]
  IN  [results |-> results, eligible |-> {i \in rows : results[i].isEligible}, summary |-> reasonCodeSummary(results)]

evaluateBatchAsync(batch, o, ref) ==
  {i \in DOMAIN batch :
     buildResult(BatchReasons(batch, DOMAIN batch, i, o, ref) \o AwaitedReasons(batch[i], o, "none")).isEligible}

assertBatchEligible(batch, o, ref) == evaluateBatch(batch, DOMAIN batch, o, ref).eligible = DOMAIN batch

\* registry.ts: the profiles in insertion order, one for each identifier as it came.
addMany(records) ==
  FoldLeft(LAMBDA list, r :
             IF \E i \in DOMAIN list : list[i].employeeId = r.employeeId
             THEN [i \in DOMAIN list |-> IF list[i].employeeId = r.employeeId THEN r ELSE list[i]]
             ELSE Append(list, r), <<>>, records)

\* The profiles of a status; their eligibility is evaluated as a batch of their own.
query(profiles, status, o, ref) ==
  LET matches == {i \in DOMAIN profiles : statusNow(profiles[i]) = status}
  IN  {profiles[i] : i \in evaluateBatch(profiles, matches, o, ref).eligible}

isEmployeeActive(status) ==
  FirstOf(<< <<status \in {"active", "suspended", "inactive"}, status>>,
             <<status \in {"pending", "terminated"}, "inactive">> >>, "unknown")

canUseInDrafts(status) == isEmployeeActive(status) = "active"

-----------------------------------------------------------------------------
evaluateSuspensionPayout(r, allowBlocked, allowFailed, ref) ==
  FirstOf(<< <<r.status # "suspended", "NOT_SUSPENDED">>,
             <<r.isBlocked /\ ~allowBlocked, "ACCOUNT_BLOCKED">>,
             <<r.isLocked, "ACCOUNT_LOCKED">>,
             <<r.compliance = "failed" /\ ~allowFailed, "COMPLIANCE_FAILED">>,
             <<r.pay = NoPay, "NO_SALARY_CONFIGURED">>,
             <<r.compliance = "pending", "PENDING_REVIEW">>,
             <<r.expiryDate # NoDate /\ r.expiryDate <= ref, "FINAL_SETTLEMENT_DUE">> >>, "ACCRUED_WAGES_DUE")

shouldPayout(code) == code \in {"FINAL_SETTLEMENT_DUE", "ACCRUED_WAGES_DUE"}

\* Entries without a reference are skipped; case folds "A" into "a" unless caseSensitive.
FoldCase(ref, caseSensitive) == IF ref = "A" /\ ~caseSensitive THEN "a" ELSE Trim(ref)

detectDuplicateOnboardingReferences(refs, caseSensitive) ==
  LET key(i) == FoldCase(refs[i], caseSensitive)
      given == {i \in DOMAIN refs : key(i) # Nil}
      unique == {key(i) : i \in given} IN
  [total |-> Cardinality(given), unique |-> Cardinality(unique), duplicateCount |-> Cardinality(given) - Cardinality(unique),
   duplicates |-> {k \in unique : \E i, j \in given : i # j /\ key(i) = k /\ key(j) = k}]

-----------------------------------------------------------------------------
WalletRotationRequest(wallets, ages) ==
  [newWallet : wallets, currentWallet : wallets, sinceRotation : ages, emergencyOverride : BOOLEAN,
   hasActiveBatch : BOOLEAN, hasPendingRotation : BOOLEAN, role : {"none", "admin", "guest"}]

\* Mutant: the override also passes over the rotation in flight.
validateWalletRotation_Overrides(q, cooldown, requireAuthorization) ==
  LET cooling == q.sinceRotation # NoDate /\ cooldown - q.sinceRotation > 0 IN
  AllOf(<< <<cooling /\ ~q.emergencyOverride, Reason("COOLDOWN_ACTIVE")>>,
           <<q.hasPendingRotation /\ ~q.emergencyOverride, Reason("DUPLICATE_PENDING_ROTATION")>>,
           <<q.role = "guest", Reason("UNAUTHORIZED_REQUESTER")>> >>)

\* sinceRotation is the time since lastRotatedAt, NoDate when never rotated.
validateWalletRotation(q, cooldown, requireAuthorization) ==
  LET cooling == q.sinceRotation # NoDate /\ cooldown - q.sinceRotation > 0 IN
  AllOf(<< <<q.newWallet = Nil, Reason("MISSING_NEW_WALLET")>>,
           <<q.newWallet # Nil /\ ~ValidAddress(q.newWallet), Reason("INVALID_NEW_WALLET_FORMAT")>>,
           <<ValidAddress(q.newWallet) /\ q.currentWallet # Nil /\ Trim(q.currentWallet) = Trim(q.newWallet),
             Reason("NEW_WALLET_SAME_AS_CURRENT")>>,
           <<cooling /\ q.emergencyOverride, Warning("EMERGENCY_OVERRIDE_APPLIED")>>,
           <<cooling /\ ~q.emergencyOverride, Reason("COOLDOWN_ACTIVE")>>,
           <<q.hasActiveBatch, Reason("ACTIVE_BATCH_IN_PROGRESS")>>,
           <<q.hasPendingRotation, Reason("DUPLICATE_PENDING_ROTATION")>>,
           <<q.role = "none" /\ requireAuthorization, Reason("MISSING_AUTHORIZATION_CONTEXT")>>,
           <<q.role = "guest", Reason("UNAUTHORIZED_REQUESTER")>> >>)

rotationBlockers(q, cooldown) == {x \in validateWalletRotation(q, cooldown, TRUE) : x.severity = "error"}

-----------------------------------------------------------------------------
Options ==
  [requireValidStellar |-> TRUE, minSalary |-> NoPay, maxSalary |-> 2, allowedAssets |-> {"XLM"},
   allowedStatuses |-> {}, strictCompliance |-> TRUE, checkDuplicates |-> TRUE, registry |-> [kind |-> "unused"]]

Registries ==
  {[kind |-> "unused"], [kind |-> "unreadable"]}
    \cup [kind : {"found"}, active : {TRUE}, salary : {1}, token : {"XLM", "USDC"}, verifySalary : {TRUE}, verifyToken : BOOLEAN]

\* One employee, evaluated now and later, through both passes and through the suspension payout.
EmployeeInputs ==
  [record : EmployeeEligibilityRecord({"a"}, {"G1"}, {NoPay, 1}, {"XLM"}, {Nil, "active", "suspended"},
                                      {NoDate, 1, 2}, {"passed", "pending", "sanctioned"}),
   registry : Registries, ref : 1..2, rule : {"none", "refuses", "warns", "promises", "throws"}]

RosterRecords ==
  {r \in EmployeeEligibilityRecord({"a", "a ", "b"}, {"G1", "G2"}, {1}, {"XLM"}, {"active", "suspended"}, {NoDate}, {"passed"}) :
     ~r.isBlocked /\ ~r.isLocked}

RosterInputs == [batch : SeqOf(RosterRecords, 3)]

RotationInputs == [request : WalletRotationRequest({Nil, "bad", "G1", "G2"}, {NoDate, 0, 1, 2, 3}), cooldown : 1..2, later : 0..2]

\* No employee is paid twice: one the payroll accepts is never also owed a suspension
\* payout, and the awaited evaluation accepts only whom the synchronous one accepts.
PaidOneWay ==
  About("employee") =>
    LET i == subject.input
        o == [Options EXCEPT !.registry = i.registry]
        sync == evaluate(i.record, o, i.ref, i.rule)
    IN  /\ sync.isEligible => ~shouldPayout(evaluateSuspensionPayout(i.record, TRUE, TRUE, i.ref))
        /\ evaluateAsync(i.record, o, i.ref, i.rule).isEligible => sync.isEligible
        /\ canUseInDrafts(i.record.status) => validateStatusRule(i.record, o) = <<>>

\* A reason the table calls final does not pass with time: evaluated later, the same
\* record is refused for it again (ELIGIBILITY_REASON_REGISTRY against the date rule).
FinalReasonsLast ==
  About("employee") =>
    LET i == subject.input
        codes(ref) == LET s == evaluate(i.record, Options, ref, i.rule).reasons IN {s[k].code : k \in DOMAIN s}
    IN  codes(i.ref) \ RetryableReasons \subseteq codes(i.ref + 1)

\* A batch accepts no identifier and no recipient twice, refuses a record it would accept
\* alone only for an earlier record like it, agrees with its awaited form, and a query
\* over part of the register refuses nobody the whole register accepts.
BatchPaysEachOnce ==
  About("roster") =>
    LET batch == subject.input.batch
        result == evaluateBatch(batch, DOMAIN batch, Options, 1)
        list == addMany(batch)
        like(i, j) == \/ Trim(batch[i].employeeId) = Trim(batch[j].employeeId)
                      \/ Trim(batch[i].recipient) = Trim(batch[j].recipient)
    IN  /\ \A i, j \in result.eligible : i # j => ~like(i, j)
        /\ \A i \in DOMAIN batch \ result.eligible :
             evaluate(batch[i], Options, 1, "none").isEligible => \E j \in 1..(i - 1) : like(i, j)
        /\ evaluateBatchAsync(batch, Options, 1) = result.eligible
        /\ \A i \in evaluateBatch(list, DOMAIN list, Options, 1).eligible : list[i] \in query(list, statusNow(list[i]), Options, 1)
        /\ LET refs == [k \in DOMAIN batch |-> batch[k].employeeId] IN
           assertBatchEligible(batch, Options, 1) => detectDuplicateOnboardingReferences(refs, TRUE).duplicates = {}

\* The emergency override lifts the cooldown and nothing else, and a rotation that may go
\* ahead may still go ahead later.
OverrideLiftsCooldownOnly ==
  About("rotation") =>
    LET i == subject.input
        plain == [i.request EXCEPT !.emergencyOverride = FALSE]
        urgent == [i.request EXCEPT !.emergencyOverride = TRUE]
        later == [plain EXCEPT !.sinceRotation = IF @ = NoDate THEN @ ELSE @ + i.later]
    IN  /\ rotationBlockers(urgent, i.cooldown) = rotationBlockers(plain, i.cooldown) \ {Reason("COOLDOWN_ACTIVE")}
        /\ rotationBlockers(later, i.cooldown) \subseteq rotationBlockers(plain, i.cooldown)
        /\ i.request.hasPendingRotation => rotationBlockers(i.request, i.cooldown) # {}
=============================================================================
