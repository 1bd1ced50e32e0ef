------------------------------ MODULE Planning ------------------------------
(***************************************************************************)
(* Before a payroll is executed: the execution plan (planner/), the policy *)
(* compiler (policy/), simulation and the two readers of its answer        *)
(* (simulation/), and the freshness of what the caches hold (cache/).      *)
(* "none" is an input that was not given; a message is its set of words.   *)
(***************************************************************************)
EXTENDS Subject

Check(id, status) == [id |-> id, status |-> status]

\* Versions are three numbers.
\* Mutant: the minor number is compared first.
compareVersions_Minor(a, b) ==
  LET differ == {k \in 1..3 : a[k] # b[k]} first == IF 2 \in differ THEN 2 ELSE Min(differ)
  IN  IF differ = {} THEN 0 ELSE IF a[first] > b[first] THEN 1 ELSE -1

compareVersions(a, b) ==
  LET differ == {k \in 1..3 : a[k] # b[k]} IN IF differ = {} THEN 0 ELSE IF a[Min(differ)] > b[Min(differ)] THEN 1 ELSE -1

isVersionInRange(v, min, max) == compareVersions(v, min) >= 0 /\ compareVersions(v, max) <= 0

Given(x) == x # <<>>

\* Every input of the plan is a sequence of at most one record; an absent one is a warning, only the proof provider must be there.
buildContractChecks(c) ==
  IF ~Given(c) THEN <<Check("version", "warn")>>
  ELSE <<Check("version", FirstOf(<< <<~isVersionInRange(c[1].version, c[1].min, c[1].max), "fail">>,
                                     <<compareVersions(c[1].version, c[1].recommended) < 0, "warn">> >>, "pass"))>>
       \o (IF c[1].required = {} THEN <<>> ELSE <<Check("features", IF c[1].required \subseteq c[1].available THEN "pass" ELSE "fail")>>)

\* Mutant: the balance may be one short.
coversPayout_Short(t) == t.balance + 1 >= t.required

coversPayout(t) == t.balance >= t.required

buildTreasuryCheck(t) ==
  Check("treasury", IF ~Given(t) THEN "warn"
                    ELSE FirstOf(<< <<t[1].asset # t[1].requiredAsset, "fail">>, <<~coversPayout(t[1]), "fail">>,
                                    <<t[1].balance - t[1].required < t[1].minReserve, "warn">> >>, "pass"))

buildProofCheck(p) == Check("proof", IF Given(p) /\ p[1] = "ready" THEN "pass" ELSE "fail")

\* The closing-soon threshold is a tenth of the window.
buildSettlementWindowCheck(w) ==
  Check("window", IF ~Given(w) THEN "warn"
                  ELSE FirstOf(<< <<w[1].now < w[1].opens, "fail">>, <<w[1].now > w[1].closes, "fail">>,
                                  <<w[1].closes > w[1].opens /\ 10 * (w[1].closes - w[1].now) < w[1].closes - w[1].opens, "warn">> >>, "pass"))

distinct(v) == \A i, j \in DOMAIN v : i # j => v[i] # v[j]
buildBatchCheck(b, employeeCount) ==
  LET expected == IF b[1].expected >= 0 THEN b[1].expected ELSE employeeCount
      sound == /\ distinct([k \in DOMAIN b[1].commitments |-> b[1].commitments[k].employee]) /\ distinct([k \in DOMAIN b[1].commitments |-> b[1].commitments[k].hash])
               /\ expected > 0 => Len(b[1].commitments) = expected
  IN  Check("batch", IF ~Given(b) THEN "warn" ELSE IF sound THEN "pass" ELSE "fail")

buildAuthorizationChecks(a) == Check("signatures", IF ~Given(a) THEN "warn" ELSE IF a[1].required \subseteq a[1].signed THEN "pass" ELSE "fail")

\* Transactions of each step; the proof is one transaction.
estimateTransactionSteps(count, max) == IF count <= 0 THEN <<>> ELSE LET n == (count + max - 1) \div max IN <<n, 1, n>>

planPayrollExecution(i) ==
  LET checks == buildContractChecks(i.contract) \o <<buildTreasuryCheck(i.treasury), buildProofCheck(i.proof), buildSettlementWindowCheck(i.window),
                                                      buildBatchCheck(i.batch, i.count), buildAuthorizationChecks(i.authorization)>>
  IN  [ready |-> Every(LAMBDA c : c.status # "fail", checks), checks |-> checks,
       warnings |-> {c \in ToSet(checks) : c.status = "warn"}, steps |-> estimateTransactionSteps(i.count, i.max)]

-----------------------------------------------------------------------------
\* Policies: errors are collected over all the sections; NaN stands for a value that is no number.
NaN == -99
number(x) == x # NaN

\* Mutant: a window may open when it closes.
validateSettlementWindow_Equal(w) ==
  IF ~Given(w) THEN {"missing"}
  ELSE AllOf(<< <<~number(w[1].delay) \/ w[1].delay < 0, "delay">>, <<~number(w[1].open) \/ w[1].open <= 0, "open">>,
                <<number(w[1].open) /\ w[1].open > 0 /\ w[1].delay > w[1].open, "window">> >>)

validateSettlementWindow(w) ==
  IF ~Given(w) THEN {"missing"}
  ELSE AllOf(<< <<~number(w[1].delay) \/ w[1].delay < 0, "delay">>, <<~number(w[1].open) \/ w[1].open <= 0, "open">>,
                <<number(w[1].delay) /\ number(w[1].open) /\ w[1].delay >= 0 /\ w[1].open > 0 /\ w[1].delay >= w[1].open, "window">> >>)

validateCapacityLimits(c) ==
  IF ~Given(c) THEN {"missing"}
  ELSE AllOf(<< <<c[1].batch <= 0, "batch">>, <<c[1].total <= 0, "total">>, <<c[1].each <= 0, "each">>,
                <<c[1].total > 0 /\ c[1].each > 0 /\ c[1].each > c[1].total, "each">> >>)

validateReserveRequirements(r) == IF ~Given(r) THEN {"missing"} ELSE IF r[1] < 0 THEN {"reserve"} ELSE {}

validateAuditSettings(a) ==
  IF ~Given(a) THEN {"missing"} ELSE AllOf(<< <<a[1].days < 0, "days">>, <<a[1].required /\ a[1].days < 1, "days">> >>)

\* The reserve is compared with the capacity once both are there.
compilePayrollPolicy(p) ==
  LET crossing == Given(p.reserve) /\ Given(p.capacity) /\ p.reserve[1] > 0 /\ p.capacity[1].total > 0 /\ p.reserve[1] > p.capacity[1].total
      errors == (IF p.id = Nil THEN {"id"} ELSE {}) \cup (IF p.asset THEN {} ELSE {"asset"}) \cup validateSettlementWindow(p.window)
                \cup validateCapacityLimits(p.capacity) \cup validateReserveRequirements(p.reserve) \cup validateAuditSettings(p.audit)
                \cup (IF crossing THEN {"crossing"} ELSE {})
  IN  [ok |-> errors = {}, errors |-> errors]

-----------------------------------------------------------------------------
\* The simulator.  A commitment is the record it hashes; a payment looks for the first commitment of its employee's id.
generateCommitments(employees) == [i \in DOMAIN employees |-> [id |-> employees[i].id, of |-> employees[i]]]
commitmentFor(id, commitments) == commitments[Min({i \in DOMAIN commitments : commitments[i].id = id})].of

\* checkTreasury adds the salaries of every asset.
checkTreasury(balance, employees) == balance >= SumBy(LAMBDA e : e.salary, employees)

\* Mutant: a time-out is looked for in the error.
deriveErrorCode_FromError(o) == CASE o.error = Nil -> "none" [] o.error = "timed out" -> "TRANSACTION_TIMEOUT" [] OTHER -> "TRANSACTION_FAILED"

\* The code is read off the recovery hint, in which a time-out is "may still be processing".
deriveErrorCode(o) == CASE o.error = Nil -> "none" [] o.error # Nil /\ o.hint = "timed out" -> "TRANSACTION_TIMEOUT"
                        [] o.error # Nil /\ o.hint = "rejected" -> "TRANSACTION_FAILED" [] OTHER -> "UNKNOWN_ERROR"

Outcome(id, status, error, hint, commitment) == [id |-> id, status |-> status, error |-> error, hint |-> hint, commitment |-> commitment]
simulatePolling(e, commitment, q) ==
  CASE q.timeout -> Outcome(e.id, "failed", "timed out", "may still be processing", commitment)
    [] ~q.timeout /\ q.fail -> Outcome(e.id, "failed", "failed", "rejected", commitment)
    [] OTHER -> Outcome(e.id, "confirmed", Nil, Nil, commitment)
processSinglePayment(e, commitments, q) ==
  IF q.proofFails THEN Outcome(e.id, "failed", "proof", "unexpected", commitmentFor(e.id, commitments))
  ELSE simulatePolling(e, commitmentFor(e.id, commitments), q)

buildReconciliation(outcomes) ==
  LET good == Count(LAMBDA o : o.status = "confirmed", outcomes) bad == Count(LAMBDA o : o.status # "confirmed", outcomes) IN
  [status |-> CASE bad = 0 -> "success" [] bad # 0 /\ good = 0 -> "failure" [] OTHER -> "partial", good |-> good, bad |-> bad,
   codes |-> [i \in DOMAIN outcomes |-> deriveErrorCode(outcomes[i])]]

validateSimulationConfig(q) == q.company /\ q.employees # <<>> /\ Every(LAMBDA e : e.id # Nil /\ e.salary > 0, q.employees) /\ q.period

\* The proof configuration that fails on purpose must say with which message.
validateMockProof(q) == ~q.proofFails \/ q.proofMessage

simulatorRun(q) ==
  LET commitments == generateCommitments(q.employees)
      refused == [i \in DOMAIN q.employees |-> Outcome(q.employees[i].id, "failed", "insufficient", "deposit", commitmentFor(q.employees[i].id, commitments))]
      paid == [i \in DOMAIN q.employees |-> processSinglePayment(q.employees[i], commitments, q)]
      outcomes == IF checkTreasury(q.balance, q.employees) THEN paid ELSE refused
  IN  IF ~validateSimulationConfig(q) \/ ~validateMockProof(q) THEN [status |-> "throws"]
      ELSE [status |-> buildReconciliation(outcomes).status, outcomes |-> outcomes, summary |-> buildReconciliation(outcomes)]

-----------------------------------------------------------------------------
\* simulatePayroll of one payment: a finding per invalid field, warnings on the amount and the asset.
Finding(code, severity, words) == [code |-> code, severity |-> severity, words |-> words]
validateFields(p) == [i \in 1..Cardinality(p.invalid) |-> Finding("INVALID", "error", {})]
checkAmountWarnings(p) == CASE p.amount \in 1..99 -> <<Finding("LOW_AMOUNT", "warning", {"amount"})>>
                            [] p.amount > 1000 -> <<Finding("HIGH_AMOUNT", "warning", {"amount"})>> [] OTHER -> <<>>
checkAssetWarnings(p) == IF p.asset = "odd" THEN <<Finding("UNRECOGNIZED_ASSET_FORMAT", "warning", {"asset"})>> ELSE <<>>
simulatePayroll(p) ==
  LET findings == validateFields(p) \o checkAmountWarnings(p) \o checkAssetWarnings(p)
      errors == Some(LAMBDA f : f.severity = "error", findings)
  IN  [status |-> IF errors THEN "error" ELSE IF findings # <<>> THEN "warning" ELSE "success", findings |-> findings, canProceed |-> ~errors]

classifySimulationFailure(words) ==
  FirstOf(<< <<"auth" \in words, "authorization_failure">>, <<"fund" \in words, "funding_failure">>, <<"proof" \in words, "proof_failure">>,
             <<"policy" \in words, "policy_warning">> >>, "unknown")

\* A finding of a severity nobody knows is an error.
severityOf(f) == IF f.severity \in {"warning", "info"} THEN f.severity ELSE "error"

\* Mutant: what may proceed is ready.
readyOf_Proceed(r, hasErrors) == r.canProceed

readyOf(r, hasErrors) == r.status = "success" /\ r.canProceed /\ ~hasErrors

\* resultParser's parseSimulationResponse of a result; with neither error nor warning the category is success whatever the status.
parseSimulationResult(r) ==
  LET errors == {i \in DOMAIN r.findings : severityOf(r.findings[i]) = "error"} warns == Some(LAMBDA f : severityOf(f) = "warning", r.findings) IN
  [category |-> CASE errors # {} -> classifySimulationFailure(r.findings[Min(errors)].words)
                  [] errors = {} /\ (warns \/ r.status = "warning") -> "policy_warning" [] OTHER -> "success",
   ready |-> readyOf(r, errors # {})]

\* parser.ts: one text of everything; only a code that names an error or a failure stops a response that may proceed.
SimWords(r) == UNION {r.findings[i].words : i \in DOMAIN r.findings} \cup (IF r.status = "warning" THEN {"warn"} ELSE {})
warned(r) == SimWords(r) \cap {"warn", "policy"} # {} \/ Some(LAMBDA f : f.code \in {"LOW_AMOUNT", "HIGH_AMOUNT", "UNRECOGNIZED_ASSET_FORMAT"}, r.findings)
parseSimulationText(r) ==
  LET fails == Some(LAMBDA f : f.code = "SIM_ERROR", r.findings)
      category == FirstOf(<< <<r.canProceed /\ ~fails /\ warned(r), "policyWarning">>, <<r.canProceed /\ ~fails, "ready">>, <<"auth" \in SimWords(r), "authFailure">>,
                             <<"fund" \in SimWords(r), "fundingFailure">>, <<"proof" \in SimWords(r), "proofFailure">>,
                             <<SimWords(r) \cap {"warn", "policy"} # {}, "policyWarning">> >>, "unknownFailure")
  IN  [category |-> category, canProceed |-> r.canProceed /\ category \in {"ready", "policyWarning"},
       retryable |-> category \in {"ready", "policyWarning", "fundingFailure"}]

-----------------------------------------------------------------------------
\* A cached entry: when it was stored and when it expires (Never: with a ttl of 0 or none).
Never == 999
setWithMetadata(now, ttl) == [storedAt |-> now, expiresAt |-> IF ttl > 0 THEN now + ttl ELSE Never]

\* get drops an entry after its expiry, getWithMetadata already at it.
cacheGet(entry, now) == entry.expiresAt = Never \/ now <= entry.expiresAt

\* Mutant: the metadata are read like the value.
cacheGetWithMetadata_Late(entry, now) == entry.expiresAt = Never \/ now <= entry.expiresAt

cacheGetWithMetadata(entry, now) == entry.expiresAt = Never \/ now < entry.expiresAt

createCacheReadResult(entry, now) ==
  [ageMs |-> Max({0, now - entry.storedAt}), stale |-> entry.expiresAt # Never /\ now >= entry.expiresAt]

-----------------------------------------------------------------------------
Versions == {<<1, 0, 0>>, <<1, 2, 0>>, <<1, 2, 3>>, <<2, 0, 0>>, <<2, 1, 0>>}
VersionInputs == Versions \X Versions \X Versions
Maybe(S) == {<<>>} \cup {<<x>> : x \in S}
PlanBatches == {[commitments |-> c, expected |-> e] : e \in {-1, 0, 2},
                c \in {<<[employee |-> "a", hash |-> "x"], [employee |-> "b", hash |-> y]>> : y \in {"x", "y"}} \cup {<<[employee |-> "a", hash |-> "x"]>>}}
PlanInputs ==
  {[contract |-> c, treasury |-> t, proof |-> p, window |-> w, batch |-> b, authorization |-> a, count |-> n, max |-> 2] :
     c \in Maybe({[version |-> v, min |-> <<1, 2, 0>>, max |-> <<2, 0, 0>>, recommended |-> <<1, 2, 3>>, required |-> {"f"}, available |-> {"f"}] : v \in {<<1, 0, 0>>, <<1, 2, 0>>, <<2, 0, 0>>}}),
     t \in Maybe({[asset |-> "native", requiredAsset |-> "native", balance |-> x, required |-> 4, minReserve |-> 1] : x \in 3..5}),
     p \in {<<>>, <<"ready">>}, w \in Maybe({[now |-> x, opens |-> 10, closes |-> 30] : x \in {9, 10, 29, 30, 31}}), b \in Maybe(PlanBatches),
     a \in Maybe({[required |-> {"cfo"}, signed |-> s] : s \in {{}, {"cfo"}}}), n \in {2}}
  \cup {[contract |-> <<>>, treasury |-> <<>>, proof |-> <<"ready">>, window |-> <<>>, batch |-> <<>>, authorization |-> <<>>, count |-> n, max |-> m] : n \in 0..7, m \in 1..3}
PolicyInputs ==
  {[id |-> "p", asset |-> a, window |-> w, capacity |-> c, reserve |-> r, audit |-> u] : a \in BOOLEAN,
     w \in Maybe({[delay |-> d, open |-> o] : d \in {NaN, -1, 0, 2}, o \in {NaN, 0, 2, 3}}),
     c \in Maybe({[batch |-> n, total |-> t, each |-> e] : t \in {0, 2, 3}, e \in {0, 2, 3}, n \in {0, 1}}), r \in Maybe({-1, 0, 2, 3}),
     u \in Maybe({[required |-> q, days |-> d] : q \in BOOLEAN, d \in {0, 1}})}
SimulatedStaff == {[id |-> i, salary |-> s] : i \in {Nil, "a", "b"}, s \in {0, 1, 2}}
SimulationInputs ==
  {[company |-> c, period |-> TRUE, employees |-> e, balance |-> b, proofFails |-> p, proofMessage |-> m, timeout |-> t, fail |-> f] : c \in BOOLEAN,
     e \in UNION {[1..n -> SimulatedStaff] : n \in 0..2}, b \in {1, 3}, p \in BOOLEAN, m \in BOOLEAN, t \in BOOLEAN, f \in BOOLEAN}
SimulatedPaymentInputs ==
  {simulatePayroll([invalid |-> v, amount |-> a, asset |-> s]) : v \in {{}, {"amount"}, {"amount", "asset"}}, a \in {0, 1, 99, 100, 1000, 1001}, s \in {"native", "odd"}}
ForeignResults ==
  {[status |-> s, findings |-> f, canProceed |-> c] : s \in {"success", "warning", "error"}, c \in BOOLEAN,
     f \in UNION {[1..n -> {Finding(k, v, w) : k \in {"SIM_ERROR", Nil}, v \in {"error", "warning", "info", "fatal"}, w \in {{}, {"auth"}, {"fund", "proof"}}}] : n \in 0..2}}
ResponseInputs == SimulatedPaymentInputs \cup ForeignResults
CacheReadInputs == {[at |-> s, ttl |-> t, now |-> n] : s \in {0, 3}, t \in 0..3, n \in 0..8}

\* Versions are totally ordered: comparison is antisymmetric and transitive, and a range holds exactly what lies between its ends.
VersionsAreOrdered == About("versions") =>
  LET a == subject.input[1] b == subject.input[2] c == subject.input[3]
      value(v) == 100 * v[1] + 10 * v[2] + v[3]
  IN  /\ compareVersions(a, b) = -compareVersions(b, a) /\ (compareVersions(a, b) <= 0 /\ compareVersions(b, c) <= 0 => compareVersions(a, c) <= 0)
      /\ isVersionInRange(a, b, c) <=> value(a) \in value(b)..value(c)

\* What a ready plan was told is true: the treasury pays the run and a simulation from its balance is not refused, the window is open, the roles
\* have signed, no employee is committed twice; its transactions carry every employee and none of them is empty.
ReadyPlansHold == About("plan") =>
  LET i == subject.input plan == planPayrollExecution(i) pays == [k \in 1..2 |-> [id |-> <<"a", "b">>[k], salary |-> 2]] IN
  /\ plan.ready => /\ i.proof # <<>>
                   /\ Given(i.treasury) => checkTreasury(i.treasury[1].balance, pays)
                   /\ Given(i.window) => i.window[1].now \in i.window[1].opens..i.window[1].closes
                   /\ Given(i.authorization) => i.authorization[1].required \subseteq i.authorization[1].signed
                   /\ Given(i.batch) => Cardinality({i.batch[1].commitments[k].employee : k \in DOMAIN i.batch[1].commitments}) = Len(i.batch[1].commitments)
  /\ (plan.ready /\ plan.warnings = {}) => Given(i.contract) /\ Given(i.treasury) /\ i.treasury[1].balance >= i.treasury[1].required + i.treasury[1].minReserve
  /\ plan.steps # <<>> => plan.steps[1] * i.max >= i.count /\ (plan.steps[1] - 1) * i.max < i.count
  /\ plan.steps = <<>> <=> i.count = 0

\* A policy that compiles can be lived with: there is a moment after the delay and before the window closes, and a payout to one recipient
\* within every limit and not below the reserve.
PoliciesAreSatisfiable == About("policy") =>
  LET p == subject.input IN compilePayrollPolicy(p).ok =>
    /\ \E t \in 0..3 : t >= p.window[1].delay /\ t < p.window[1].open
    /\ \E x \in 1..3 : x <= p.capacity[1].each /\ x <= p.capacity[1].total
    /\ p.reserve[1] \in 0..p.capacity[1].total /\ (p.audit[1].required => p.audit[1].days >= 1)

\* A simulated run pays nobody without the money for all of them, its summary counts every employee once, each payment uses the commitment of
\* its own record unless two records share an id, and only a rejected transaction is called failed.
SimulationAddsUp == About("simulation") =>
  LET q == subject.input r == simulatorRun(q) IN r.status # "throws" =>
    /\ r.summary.good + r.summary.bad = Len(q.employees)
    /\ r.status = "success" <=> Every(LAMBDA o : o.status = "confirmed", r.outcomes)
    /\ (\E i \in DOMAIN r.outcomes : r.outcomes[i].status = "confirmed") => SumBy(LAMBDA e : e.salary, q.employees) <= q.balance
    /\ distinct([k \in DOMAIN q.employees |-> q.employees[k].id]) => \A i \in DOMAIN r.outcomes : r.outcomes[i].commitment = q.employees[i]
    /\ \A i \in DOMAIN r.outcomes : r.summary.codes[i] = "TRANSACTION_FAILED" => r.outcomes[i].hint = "rejected"

\* Neither reader of a simulation lets a run proceed whose simulation said no; what the one calls ready the other lets proceed, if no code names
\* an error; a payment with a finding is ready for neither.
SimulationReadersAgree == About("response") =>
  LET r == subject.input a == parseSimulationResult(r) b == parseSimulationText(r) IN
  /\ a.ready => r.canProceed /\ a.category \in {"success", "policy_warning"}
  /\ b.canProceed => r.canProceed /\ b.retryable
  /\ a.ready => (b.canProceed \/ Some(LAMBDA f : f.code = "SIM_ERROR", r.findings))
  /\ r \in SimulatedPaymentInputs => (a.ready <=> b.category = "ready") /\ (r.findings # <<>> => ~a.ready)

\* An entry read with its metadata is never stale, and get would return it too.
CachedIsFresh == About("cache") =>
  LET i == subject.input e == setWithMetadata(i.at, i.ttl) IN
  /\ cacheGetWithMetadata(e, i.now) => ~createCacheReadResult(e, i.now).stale /\ cacheGet(e, i.now)
  /\ i.ttl = 0 => cacheGetWithMetadata(e, i.now)
=============================================================================
