------------------------------ MODULE Failures ------------------------------
(***************************************************************************)
(* Errors and what is done about them: core/errors.ts, error-codes.ts,     *)
(* retry.ts and operationResult.ts; refusals of batch creators             *)
(* (errors/permissions.ts) and the role matrix (roles/).  A message is the *)
(* set of the words the patterns look for; where the tables differ, a word *)
(* of one stands beside the words of the other.                            *)
(***************************************************************************)
EXTENDS Subject

\* "none": no code.  Class "Error": any error that is not the SDK's, "Aborted": one of these whose name is AbortError or TimeoutError.
Thrown(class, code, status, words) == [class |-> class, code |-> code, status |-> status, words |-> words]
NotOfTheSdk == {"Error", "Aborted"}
ContractErrorCodes == {"SIMULATION_FAILED", "TRANSACTION_SUBMISSION_FAILED", "TRANSACTION_TIMEOUT", "RPC_TIMEOUT", "INSUFFICIENT_FEE",
                       "CONTRACT_REVERT", "INVALID_RESPONSE", "UNKNOWN_RPC_ERROR"}

\* The codes the registry marks retryable.
RetryableCodes ==
  {"WALLET_NOT_CONNECTED", "WALLET_CONNECTION_REJECTED", "WALLET_SIGNING_REJECTED", "WALLET_NETWORK_MISMATCH", "WALLET_UNKNOWN_ERROR",
   "RPC_TIMEOUT", "INVALID_RESPONSE", "PROOF_GENERATION_FAILED", "PROOF_VERIFIER_UNAVAILABLE", "TRANSACTION_SUBMISSION_FAILED",
   "TRANSACTION_TIMEOUT", "INSUFFICIENT_FEE", "UNKNOWN_RPC_ERROR", "NETWORK_ERROR", "ARTIFACT_NOT_FOUND", "ARTIFACT_CORRUPT",
   "ARTIFACT_FETCH_FAILED", "ARTIFACT_HASH_MISMATCH"}

isRetryableErrorCode(code) == code \in RetryableCodes

\* Mutant: a failed simulation may be tried again.
classifyContractErrorCode_Simulated(code) ==
  CASE code = "TRANSACTION_TIMEOUT" -> "EXPIRED" [] code = "CONTRACT_REVERT" -> "TERMINAL"
    [] code = "UNKNOWN_RPC_ERROR" -> "UNKNOWN" [] OTHER -> "RETRYABLE"

classifyContractErrorCode(code) ==
  CASE code = "TRANSACTION_TIMEOUT" -> "EXPIRED" [] code \in {"SIMULATION_FAILED", "CONTRACT_REVERT"} -> "TERMINAL"
    [] code = "UNKNOWN_RPC_ERROR" -> "UNKNOWN" [] OTHER -> "RETRYABLE"

\* What each table takes for a failure of the network: retry.ts, mapRpcError and classifyTimeoutFailure.
\* "timed out" (and "connection") is known to the first only, "expired" to the second, "socket" to the first and the third.
NETWORK_ERROR_PATTERNS == {"timeout", "timed out", "etimedout", "socket"}
RpcTimeoutWords == {"timeout", "expired", "etimedout"}
UnreachableWords == {"etimedout", "socket"}

classifyTimeoutFailure(e) ==
  IF e.class = "Contract" THEN classifyContractErrorCode(e.code)
  ELSE FirstOf(<< <<e.words \cap UnreachableWords # {}, "RETRYABLE">>, <<"stale" \in e.words, "EXPIRED">>, <<"revert" \in e.words, "TERMINAL">> >>, "UNKNOWN")

\* Mutant: a revert is looked for before a timeout.
mapRpcError_RevertFirst(e) ==
  IF e.class = "Contract" THEN e
  ELSE Thrown("Contract", FirstOf(<< <<"revert" \in e.words, "CONTRACT_REVERT">>, <<{"transaction", "timeout"} \subseteq e.words, "TRANSACTION_TIMEOUT">>,
                                     <<e.words \cap RpcTimeoutWords # {}, "RPC_TIMEOUT">> >>, "UNKNOWN_RPC_ERROR"), 0, e.words)

mapRpcError(e) ==
  IF e.class = "Contract" THEN e
  ELSE Thrown("Contract", FirstOf(<< <<{"transaction", "timeout"} \subseteq e.words, "TRANSACTION_TIMEOUT">>, <<e.words \cap RpcTimeoutWords # {}, "RPC_TIMEOUT">>,
                                     <<"invalid" \in e.words, "INVALID_RESPONSE">>, <<"simulate" \in e.words, "SIMULATION_FAILED">>,
                                     <<"fee" \in e.words, "INSUFFICIENT_FEE">>, <<"revert" \in e.words, "CONTRACT_REVERT">>,
                                     <<"submit" \in e.words, "TRANSACTION_SUBMISSION_FAILED">> >>, "UNKNOWN_RPC_ERROR"), 0, e.words)

\* 0: no HTTP status.
classifyNetworkError(e) ==
  CASE e.status = 0 \/ e.status >= 500 \/ e.status = 429 -> "RETRYABLE" [] e.status \in 400..499 \ {429} -> "NON_RETRYABLE" [] OTHER -> "UNKNOWN"

classifyContractError(e) ==
  CASE e.code \in {"SIMULATION_FAILED", "TRANSACTION_SUBMISSION_FAILED", "TRANSACTION_TIMEOUT"} -> "RETRYABLE"
    [] e.code \in {"INSUFFICIENT_FEE", "CONTRACT_REVERT"} -> "NON_RETRYABLE" [] OTHER -> "UNKNOWN"

classifyGenericError(e) == IF e.words \cap NETWORK_ERROR_PATTERNS # {} \/ e.class = "Aborted" THEN "RETRYABLE" ELSE "UNKNOWN"

classifyError(e) ==
  CASE e.class = "Network" -> classifyNetworkError(e) [] e.class = "Contract" -> classifyContractError(e)
    [] e.class \in {"Proof", "Validation", "Batch"} -> "NON_RETRYABLE" [] e.class \in NotOfTheSdk -> classifyGenericError(e) [] OTHER -> "UNKNOWN"

\* extractSdkErrorCode of an operation's failure.
extractSdkErrorCode(e) == IF e.code # "none" THEN e.code ELSE mapRpcError(e).code

-----------------------------------------------------------------------------
\* The attempts of one withRetry: when each call began, and how it ended.  Every call takes "took", a timer fires "lag" late; the delays double.
NoDeadline == -1

\* Mutant: the deadline is looked at only after a delay.
mayStart_Always(began, deadline) == TRUE

mayStart(began, deadline) == deadline = NoDeadline \/ began < deadline

\* Attempt n of the loop s: the calls made, when the next begins, the delay after it, and whether the loop was left.
attempt(s, q, n) ==
  LET now == s.at + q.took
      category == classifyError(q.errors[n])
      stops == n = Len(q.errors) \/ category = "NON_RETRYABLE" \/ (q.deadline # NoDeadline /\ now + s.delay >= q.deadline)
  IN  IF s.over \/ ~mayStart(s.at, q.deadline) THEN [s EXCEPT !.over = TRUE]
      ELSE [calls |-> Append(s.calls, [at |-> s.at, category |-> category]), at |-> now + s.delay + q.lag, delay |-> s.delay * 2, over |-> stops]

\* errors: what each allowed attempt would throw.  No attempt is allowed: undefined is thrown.
withRetry(q) ==
  LET loop[n \in 0..Len(q.errors)] ==
        IF n = 0 THEN [calls |-> <<>>, at |-> 0, delay |-> q.delay, over |-> FALSE] ELSE attempt(loop[n - 1], q, n)
  IN  loop[Len(q.errors)].calls

-----------------------------------------------------------------------------
Stages == {"validating", "executing", "succeeded", "failed"}

\* Mutant: the operation runs although it is not valid.
runSdkOperation_Anyway(q) ==
  LET verdict(ok, ran, attempted) == [end |-> IF ok THEN "ok" ELSE "failed", ran |-> ran, attempted |-> attempted] IN
  IF q.validate \in {"invalid", "malformed"} THEN verdict(FALSE, TRUE, FALSE) ELSE verdict(q.returns, TRUE, TRUE)

\* The observer throws on the stages of q.loud: outside the try the promise rejects, inside it the success becomes a failure.
runSdkOperation(q) ==
  LET rejected(ran) == [end |-> "rejected", ran |-> ran, attempted |-> ran]
      failure(ran) == IF "failed" \in q.loud THEN rejected(ran) ELSE [end |-> "failed", ran |-> ran, attempted |-> ran]
  IN  IF q.validate # "absent" /\ ("validating" \in q.loud \/ q.validate = "throws") THEN rejected(FALSE)
      ELSE IF q.validate \in {"invalid", "malformed"} THEN failure(FALSE)
      ELSE IF "executing" \in q.loud THEN rejected(FALSE)
      ELSE IF q.returns /\ "succeeded" \notin q.loud THEN [end |-> "ok", ran |-> TRUE, attempted |-> TRUE]
      ELSE failure(TRUE)

-----------------------------------------------------------------------------
\* Refusals of batch creators; the typed error (class Permission) is decided by its code, any other by its message.
PermissionWords == {"suspended", "organization", "quorum", "unregistered", "unauthorized", "role"}
isRefusal(e, code, word) == IF e.class = "Permission" THEN e.code = code ELSE word \in e.words

isBatchCreatorPermissionError(e) ==
  e.class = "Permission" \/ e.code \in {"SUSPENDED", "ORG_MISMATCH", "QUORUM_REQUIRED", "UNREGISTERED", "UNAUTHORIZED", "ROLE_REQUIRED"}
  \/ e.words \cap {"suspended", "organization", "quorum", "unregistered", "unauthorized"} # {}

\* Mutant: the organization is looked at first.
getBatchCreatorRemediation_OrgFirst(e) ==
  FirstOf(<< <<isRefusal(e, "ORG_MISMATCH", "organization"), "ORG_MISMATCH">>, <<isRefusal(e, "SUSPENDED", "suspended"), "SUSPENDED">>,
             <<isRefusal(e, "QUORUM_REQUIRED", "quorum"), "QUORUM_REQUIRED">>, <<isRefusal(e, "UNREGISTERED", "unregistered"), "UNREGISTERED">>,
             <<isBatchCreatorPermissionError(e), "UNAUTHORIZED">> >>, "general")

getBatchCreatorRemediation(e) ==
  FirstOf(<< <<isRefusal(e, "SUSPENDED", "suspended"), "SUSPENDED">>, <<isRefusal(e, "ORG_MISMATCH", "organization"), "ORG_MISMATCH">>,
             <<isRefusal(e, "QUORUM_REQUIRED", "quorum"), "QUORUM_REQUIRED">>, <<isRefusal(e, "UNREGISTERED", "unregistered"), "UNREGISTERED">>,
             <<isBatchCreatorPermissionError(e), "UNAUTHORIZED">> >>, "general")

\* A code of an error that is not of the typed class is lost: only the words decide.
mapBatchCreatorPermissionError(e) ==
  LET code == FirstOf(<< <<isRefusal(e, "SUSPENDED", "suspended"), "SUSPENDED">>, <<isRefusal(e, "ORG_MISMATCH", "organization"), "ORG_MISMATCH">>,
                         <<isRefusal(e, "QUORUM_REQUIRED", "quorum"), "QUORUM_REQUIRED">>, <<isRefusal(e, "UNREGISTERED", "unregistered"), "UNREGISTERED">>,
                         <<"role" \in e.words, "ROLE_REQUIRED">> >>, "UNAUTHORIZED")
  IN  CASE e.class = "Permission" -> e
        [] e.class # "Permission" /\ isBatchCreatorPermissionError(e) -> Thrown("Permission", code, 0, e.words)
        [] e.class \in {"Contract", "Sdk"} /\ ~isBatchCreatorPermissionError(e) -> e
        [] OTHER -> Thrown("Contract", "UNKNOWN_RPC_ERROR", 0, e.words)

-----------------------------------------------------------------------------
\* The role matrix: a row per role, a column per action.
PayrollActions == <<"review", "approve", "submit", "audit", "export", "configure", "cancel">>
Row(letters) == [a \in Range(PayrollActions) |-> LET l == letters[CHOOSE i \in 1..7 : PayrollActions[i] = a] IN
                 CASE l = 1 -> "allowed" [] l = 0 -> "denied" [] OTHER -> "conditional"]
DEFAULT_ROLE_CAPABILITY_MATRIX ==
  [payroll_admin |-> Row(<<1, 1, 1, 1, 1, 1, 1>>), batch_creator |-> Row(<<1, 0, 1, 0, 1, 0, 2>>), treasury_operator |-> Row(<<1, 1, 1, 2, 1, 2, 2>>),
   compliance_reviewer |-> Row(<<1, 2, 0, 1, 1, 0, 2>>), emergency_approver |-> Row(<<1, 1, 0, 2, 0, 0, 1>>), auditor |-> Row(<<1, 0, 0, 1, 1, 0, 0>>),
   employee |-> Row(<<2, 0, 0, 0, 2, 0, 0>>), viewer |-> Row(<<1, 0, 0, 0, 0, 0, 0>>)]

\* An override adds to a role's row, or a row of its own.
overridden(role, action, permission) ==
  LET m == DEFAULT_ROLE_CAPABILITY_MATRIX IN
  [r \in (DOMAIN m) \cup {role} |-> IF r # role THEN m[r]
                                    ELSE IF r \in DOMAIN m THEN [m[r] EXCEPT ![action] = permission] ELSE [a \in {action} |-> permission]]

getPermission(m, role, action) == IF role \notin DOMAIN m THEN "denied" ELSE IF action \notin DOMAIN m[role] THEN "denied" ELSE m[role][action]

hasCapability(m, role, action, conditional) == getPermission(m, role, action) \in {"allowed"} \cup (IF conditional THEN {"conditional"} ELSE {})

\* Mutant: a condition is always taken as met.
getCapabilitiesForRole_Lenient(m, role, conditional) ==
  IF role \notin DOMAIN m THEN {} ELSE {a \in DOMAIN m[role] : m[role][a] \in {"allowed", "conditional"}}

getCapabilitiesForRole(m, role, conditional) ==
  IF role \notin DOMAIN m THEN {} ELSE {a \in DOMAIN m[role] : m[role][a] = "allowed" \/ (m[role][a] = "conditional" /\ conditional)}

getRolesWithCapability(m, action, conditional) == {r \in DOMAIN m : hasCapability(m, r, action, conditional)}

hasUserCapability(m, roles, action, conditional) == \E r \in roles : hasCapability(m, r, action, conditional)

getEffectiveCapabilities(m, roles, conditional) == UNION {getCapabilitiesForRole(m, r, conditional) : r \in roles}

-----------------------------------------------------------------------------
MessageWords == {"transaction", "timeout", "timed out", "etimedout", "expired", "socket", "invalid", "simulate", "fee", "revert", "submit", "stale"}
MessageInputs == {Thrown(c, "none", 0, w) : c \in NotOfTheSdk, w \in SUBSET MessageWords}
ErrorInputs ==
  MessageInputs
  \cup {Thrown("Contract", c, 0, {}) : c \in ContractErrorCodes}
  \cup {Thrown("Network", "NETWORK_ERROR", s, w) : s \in {0, 302, 400, 404, 429, 499, 500}, w \in {{}, {"timeout"}}}
SomeErrors == {Thrown("Network", "NETWORK_ERROR", 503, {}), Thrown("Contract", "CONTRACT_REVERT", 0, {}), Thrown("Error", "none", 0, {})}
RetryInputs ==
  {[errors |-> e, took |-> t, delay |-> d, lag |-> l, deadline |-> x] : e \in SeqOf(SomeErrors, 4), t \in {0, 1, 3}, d \in {0, 1, 2}, l \in {0, 2}, x \in {0, 3, 5, NoDeadline}}
OperationInputs ==
  {[validate |-> v, returns |-> r, loud |-> l] : v \in {"absent", "ok", "invalid", "malformed", "throws"}, r \in BOOLEAN, l \in SUBSET Stages}
RefusalInputs ==
  {Thrown(c, k, 0, w) : c \in {"Error", "Contract", "Sdk"}, k \in {"none", "SUSPENDED", "UNKNOWN_RPC_ERROR"}, w \in SUBSET PermissionWords}
  \cup {Thrown("Permission", k, 0, w) : k \in {"SUSPENDED", "ORG_MISMATCH", "QUORUM_REQUIRED", "UNREGISTERED", "ROLE_REQUIRED"}, w \in {{}, {"quorum"}}}
RoleInputs ==
  {[role |-> r, action |-> a, permission |-> p, users |-> u, conditional |-> c] :
     r \in {"auditor", "batch_creator", "contractor"}, a \in Range(PayrollActions), p \in {"allowed", "denied", "conditional"},
     u \in {{}, {"auditor"}, {"contractor"}, {"employee", "viewer"}, {"batch_creator", "nobody"}}, c \in BOOLEAN}

\* A message with a word that mapRpcError takes for a timeout is never written off: neither as it was thrown nor after mapRpcError,
\* whatever else it says.  What mapRpcError writes off names a fee or a revert, and nothing the earlier patterns look for (core/errors.ts 590-645).
\* "timed out", and an AbortError, are timeouts to retry.ts (155, 168) and not among those patterns: with a fee or a revert in its message
\* such an error is retryable as it was thrown and written off after mapRpcError.
TimeoutsStayRetryable == (About("error") /\ subject.input.class \in NotOfTheSdk) =>
  LET e == subject.input mapped == mapRpcError(e) IN
  /\ e.words \cap RpcTimeoutWords # {} =>
       classifyError(e) # "NON_RETRYABLE" /\ classifyError(mapped) # "NON_RETRYABLE" /\ classifyTimeoutFailure(mapped) # "TERMINAL"
  /\ classifyError(mapped) = "NON_RETRYABLE" <=>
       e.words \cap (RpcTimeoutWords \cup {"invalid", "simulate"}) = {} /\ e.words \cap {"fee", "revert"} # {}

\* The registry calls a contract error retryable exactly when its failure state is not terminal, and a revert is retried by neither classifier.
TerminalIsNotAdvertised == About("error") =>
  LET e == subject.input IN
  /\ e.class = "Contract" => (isRetryableErrorCode(e.code) <=> classifyTimeoutFailure(e) # "TERMINAL")
  /\ e.code = "CONTRACT_REVERT" => classifyError(e) = "NON_RETRYABLE"
  /\ extractSdkErrorCode(e) \in ContractErrorCodes \cup {"NETWORK_ERROR"}

\* withRetry starts no call at or after its deadline, none after an error that must not be retried, and none early.
RetriesEnd == About("retries") =>
  LET q == subject.input calls == withRetry(q) IN
  /\ Len(calls) <= Len(q.errors) /\ (q.errors # <<>> /\ q.deadline # 0 => calls # <<>>)
  /\ \A i \in DOMAIN calls : /\ q.deadline = NoDeadline \/ calls[i].at < q.deadline
                             /\ i < Len(calls) => calls[i].category # "NON_RETRYABLE" /\ calls[i + 1].at >= calls[i].at + q.took + q.delay

\* An operation reported as not attempted did not run, a success did, and without an observer that throws the report is the outcome.
OutcomeIsTruthful == About("operation") =>
  LET q == subject.input r == runSdkOperation(q) IN
  /\ (r.end = "failed" /\ ~r.attempted) => ~r.ran
  /\ r.end = "ok" => r.ran /\ q.returns
  /\ (q.loud = {} /\ q.validate # "throws") => (r.end = "ok" <=> (q.returns /\ q.validate \in {"absent", "ok"}))

\* The remediation shown with a refusal is the one of the code the refusal was given, before and after it is typed.
RemediationFitsCode == About("refusal") =>
  LET e == subject.input mapped == mapBatchCreatorPermissionError(e) IN
  mapped.class = "Permission" =>
    /\ getBatchCreatorRemediation(e) = getBatchCreatorRemediation(mapped)
    /\ mapped.code \in {getBatchCreatorRemediation(e), "ROLE_REQUIRED"}

\* Every reader of the role matrix gives the same answer, for overridden roles and for roles nobody defined.
CapabilityListsAgree == About("roles") =>
  LET i == subject.input m == overridden(i.role, i.action, i.permission) IN
  \A a \in Range(PayrollActions) :
    /\ a \in getEffectiveCapabilities(m, i.users, i.conditional) <=> hasUserCapability(m, i.users, a, i.conditional)
    /\ i.users \cap getRolesWithCapability(m, a, i.conditional) # {} <=> hasUserCapability(m, i.users, a, i.conditional)
=============================================================================
