------------------------------ MODULE Receipts ------------------------------
(***************************************************************************)
(* Receipts and audit access: receipts/ (digests, verification, lookup)    *)
(* and audit/ (disclosure packages, view keys, access requests, expiry,    *)
(* attachments, normalized events).                                        *)
(***************************************************************************)
EXTENDS Subject

\* A text as somebody wrote it: its value, blanks around it, capitals.  Nil is empty, "odd" is not hexadecimal.
Written(v, pad, caps) == [v |-> v, pad |-> pad, caps |-> caps]
Unpadded(w) == [w EXCEPT !.pad = FALSE]
\* An expected value that is there: not an empty text, though it may be blank.
NonEmpty(w) == w.v # Nil \/ w.pad
Hashes == {Written("h1", FALSE, FALSE), Written("f1", FALSE, FALSE), Written("h1", TRUE, TRUE), Written("h2", FALSE, TRUE), Written("odd", FALSE, FALSE), Written(Nil, TRUE, FALSE)}

isValidHexDigest(w) == w.v \notin {Nil, "odd"}

\* One digest per content; nothing and null are both written {}.
sha256Digest(metadata) == CASE metadata = "none" -> "h0" [] metadata = "m1" -> "h1" [] OTHER -> "h2"

\* The fallback is a digest of its own (300 and 301 pass for primes, choice and majority read the wrong words),
\* and empty where a letter is not of Latin-1, as in "m2".
pureJsSha256(metadata) == CASE metadata = "none" -> "f0" [] metadata = "m1" -> "f1" [] OTHER -> Nil

\* node: whether Node's crypto module can be loaded where the code runs.  WebCrypto is there either way.
computeMetadataDigest(metadata, node) == IF node THEN sha256Digest(metadata) ELSE pureJsSha256(metadata)

computeMetadataDigestAsync(metadata) == sha256Digest(metadata)

\* Mutant: the metadata is not hashed when an expected digest is given.
verifyMetadataDigestMatch_Either(actual, metadata, expected, node) ==
  /\ isValidHexDigest(actual)
  /\ IF NonEmpty(expected) THEN isValidHexDigest(expected) /\ actual.v = expected.v
     ELSE metadata # "none" => actual.v = computeMetadataDigest(metadata, node)

verifyMetadataDigestMatch(actual, metadata, expected, node) ==
  /\ isValidHexDigest(actual)
  /\ NonEmpty(expected) => isValidHexDigest(expected) /\ actual.v = expected.v
  /\ metadata # "none" => actual.v = computeMetadataDigest(metadata, node)

\* Numbers below the threshold (10^10; here 100) are seconds, of ten units each.
BadTime == -1
SecondsBelow == 100

\* Mutant: seconds are taken for milliseconds.
parseTimestampToMs_Raw(t) == t

parseTimestampToMs(t) == IF t = BadTime THEN BadTime ELSE IF t < SecondsBelow THEN t * 10 ELSE t

DEFAULT_TOLERANCE_MS == 3

PayrollReceipt(id, status, form, tx, digest, metadata, issuedAt, signed, signer) ==
  [payrollId |-> id, status |-> status, form |-> form, tx |-> tx, digest |-> digest, metadata |-> metadata,
   issuedAt |-> issuedAt, signed |-> signed, signer |-> signer]

validatePayrollReceiptShape(r) == r.payrollId # Nil /\ r.status # Nil /\ r.digest.v # Nil /\ r.form # "none" /\ r.tx.v # Nil

allowedStatuses(o) == IF o.requireSettled THEN {"settled", "confirmed"} ELSE {"settled", "confirmed", "pending", "failed", "rejected", "unknown"}

statusIssue(r, o) ==
  IF r.status \in allowedStatuses(o) THEN "ok" ELSE IF r.status \in {"pending", "failed", "rejected"} THEN "UNSETTLED" ELSE "NOT_ALLOWED"

MetadataToVerify(r, o) == IF o.metadata # "none" THEN o.metadata ELSE r.metadata

digestIssue(r, o) ==
  LET metadata == MetadataToVerify(r, o) IN
  FirstOf(<< <<~isValidHexDigest(r.digest), "INVALID">>, <<NonEmpty(o.digest) /\ r.digest.v # o.digest.v, "MISMATCH">>,
             <<metadata # "none" /\ r.digest.v # computeMetadataDigest(metadata, o.node), "MISMATCH">> >>, "ok")

freshnessIssue(r, o) ==
  LET issued == parseTimestampToMs(r.issuedAt) now == parseTimestampToMs(o.now) IN
  FirstOf(<< <<issued = BadTime, "ISSUED_AT_INVALID">>, <<issued > now + DEFAULT_TOLERANCE_MS, "FUTURE_TIMESTAMP">>,
             <<o.maxAge > 0 /\ now - issued > o.maxAge + DEFAULT_TOLERANCE_MS, "EXPIRED">> >>, "ok")

\* A trusted signer is only compared by name; nothing verifies the signature itself.
signatureIssue(r, o) ==
  IF o.requireSignature /\ ~r.signed THEN "SIGNATURE_MISSING"
  ELSE IF o.trusted # {} /\ r.signer \notin o.trusted THEN "SIGNATURE_INVALID" ELSE "ok"

\* What a custom validator contributes: a promise is awaited by the asynchronous verifier only.
customIssue(o, async) ==
  CASE o.custom \in {"error", "throws"} -> "error" [] o.custom = "promise" -> IF async THEN "error" ELSE "ok"
    [] o.custom = "warning" /\ o.strict -> "warning" [] OTHER -> "ok"

verifiedFields(r, o) ==
  AllOf(<< <<o.payrollId \in {Nil, r.payrollId}, "payrollId">>, <<statusIssue(r, o) = "ok", "settlementStatus">>,
           <<NonEmpty(o.tx) => o.tx.v = r.tx.v, "transactionReference">>, <<digestIssue(r, o) = "ok", "metadataDigest">>,
           <<freshnessIssue(r, o) = "ok", "freshness">>, <<signatureIssue(r, o) = "ok", "signature">> >>)

verifyPayrollReceipt(r, o) ==
  /\ validatePayrollReceiptShape(r) /\ Cardinality(verifiedFields(r, o)) = 6 /\ customIssue(o, FALSE) = "ok"

\* The synchronous verdict, the validators again, and the digest that WebCrypto computes.
verifyPayrollReceiptAsync(r, o) ==
  LET metadata == MetadataToVerify(r, o) IN
  /\ verifyPayrollReceipt(r, o) /\ customIssue(o, TRUE) = "ok"
  /\ (metadata # "none" /\ isValidHexDigest(r.digest)) => r.digest.v = computeMetadataDigestAsync(metadata)

\* A digest that is not hexadecimal is replaced by the computed one.
createPayrollReceipt(id, tx, digest, metadata, issuedAt, node) ==
  PayrollReceipt(id, "settled", "string", tx,
    IF isValidHexDigest(digest) THEN Written(digest.v, FALSE, FALSE) ELSE Written(computeMetadataDigest(metadata, node), FALSE, FALSE),
    metadata, issuedAt, FALSE, "none")

-----------------------------------------------------------------------------
\* Receipt ids by length and by what is wrong with their characters; settlement receipts, a validator of its own.
validateSettlementReceiptId(id) ==
  FirstOf(<< <<id.length = 0, "EMPTY_INPUT">>, <<id.length < 8, "TOO_SHORT">>, <<id.length > 128, "TOO_LONG">>,
             <<id.chars = "foreign", "INVALID_CHARACTERS">>, <<id.chars = "edge", "INVALID_FORMAT">> >>, "ok")

\* Mutant: only "settled" is a settled status.
validateSettlementReceipt_SettledOnly(id, r, o) ==
  FirstOf(<< <<validateSettlementReceiptId(id) # "ok", "RECEIPT_ID_INVALID">>, <<r.status # "settled", "STATUS_NOT_SETTLED">> >>, "ok")

validateSettlementReceipt(id, r, o) ==
  FirstOf(<< <<validateSettlementReceiptId(id) # "ok", "RECEIPT_ID_INVALID">>, <<r.payrollId = Nil \/ o.payrollId \notin {Nil, r.payrollId}, "PAYROLL_ID_REQUIRED">>,
             <<r.status = Nil, "SETTLEMENT_STATUS_REQUIRED">>, <<r.status \notin allowedStatuses([requireSettled |-> TRUE]), "STATUS_NOT_SETTLED">>,
             <<r.form = "none" \/ r.tx.v = Nil, "TRANSACTION_REFERENCE_REQUIRED">>, <<~isValidHexDigest(r.digest), "METADATA_DIGEST_REQUIRED">>,
             <<o.metadata # "none" /\ r.digest.v # computeMetadataDigest(o.metadata, o.node), "METADATA_DIGEST_MISMATCH">> >>, "ok")

-----------------------------------------------------------------------------
\* A string has its hash only; an object also its times, which nothing scales.
referenceIssues(r, submittedAt, confirmedAt) ==
  AllOf(<< <<r.form = "none" \/ r.tx.v = Nil, "MISSING">>, <<r.form # "none" /\ r.tx.v = "odd", "TX_HASH_MALFORMED">>,
           <<r.form = "object" /\ r.tx.v # Nil /\ BadTime \in {submittedAt, confirmedAt}, "TIMESTAMP_UNPARSEABLE">>,
           <<r.form = "object" /\ r.tx.v # Nil /\ BadTime \notin {submittedAt, confirmedAt} /\ confirmedAt < submittedAt, "CONFIRMED_BEFORE_SUBMITTED">> >>)

isValidHash(r) == r.form # "none" /\ r.tx.v \notin {Nil, "odd"}

\* Mutant: the last of several matches is taken.
findReceiptByTransactionHash_Last(receipts, hash) ==
  LET matches == {i \in DOMAIN receipts : isValidHash(receipts[i]) /\ receipts[i].tx.v = hash.v} IN
  IF ~isValidHexDigest(hash) \/ matches = {} THEN 0 ELSE Max(matches)

\* The place of the only receipt with the hash, 0 when there is none or more than one.
findReceiptByTransactionHash(receipts, hash) ==
  LET matches == {i \in DOMAIN receipts : isValidHash(receipts[i]) /\ receipts[i].tx.v = hash.v} IN
  IF ~isValidHexDigest(hash) \/ Cardinality(matches) # 1 THEN 0 ELSE Max(matches)

-----------------------------------------------------------------------------
\* Attachments: the digest is kept unpadded and in lower case.
validateAuditReferenceAttachment(a) ==
  AllOf(<< <<a.operation = Nil, "MISSING_OPERATION_ID">>, <<a.label = 0, "MISSING_LABEL">>, <<a.label > 256, "LABEL_TOO_LONG">>,
           <<a.type \notin {"document", "receipt", "proof", "report", "external"}, "INVALID_REFERENCE_TYPE">>,
           <<a.uri \notin {"absent", "https"}, "INVALID_URI_FORMAT">>,
           <<a.digest.v # "absent" /\ ~isValidHexDigest(a.digest), "INVALID_DIGEST_FORMAT">>, <<a.issuedAt = BadTime, "INVALID_ISSUED_AT">> >>)

\* Mutant: capitals are kept.
attachAuditReference_Caps(a) == [a EXCEPT !.digest = Unpadded(a.digest)]

attachAuditReference(a) == [a EXCEPT !.digest = Written(a.digest.v, FALSE, FALSE)]

-----------------------------------------------------------------------------
\* Disclosure packages.  Nil in a scope's ids: the list is not given.
\* Mutant: a commitment without a department belongs to every one.
applyDisclosureScope_AnyDepartment(commitments, scope) ==
  IF scope.ids = {Nil} THEN commitments
  ELSE CASE scope.type = "employee_subset" -> {c \in commitments : c.employee \in scope.ids}
         [] scope.type = "payroll_period" -> {c \in commitments : c.period \in scope.ids}
         [] scope.type = "department" -> {c \in commitments : c.department \in scope.ids \cup {Nil}}
         [] OTHER -> commitments

applyDisclosureScope(commitments, scope) ==
  IF scope.ids = {Nil} THEN commitments
  ELSE CASE scope.type = "employee_subset" -> {c \in commitments : c.employee \in scope.ids}
         [] scope.type = "payroll_period" -> {c \in commitments : c.period \in scope.ids}
         [] scope.type = "department" -> {c \in commitments : c.department # Nil /\ c.department \in scope.ids}
         [] OTHER -> commitments

isDisclosureScopeWellFormed(scope) ==
  IF scope.type = "reason" THEN scope.reason ELSE scope.type \in {"employee_subset", "payroll_period", "department"} /\ scope.ids \notin {{Nil}, {}}

\* NoExpiry: the scope has none.
NoExpiry == 999
validateAuditPackageShape(p, now) ==
  AllOf(<< <<p.scope.expiresAt # NoExpiry /\ p.scope.expiresAt <= now, "expired">>, <<~isDisclosureScopeWellFormed(p.scope), "malformed">>,
           <<\E proof \in p.proofs : proof \notin p.keys, "missing key">>, <<\E c \in p.commitments : c.employee = Nil, "incomplete">>,
           <<p.proofs = {}, "no proof">> >>)

\* The integrity hash stands for the content that was hashed.
createSelectiveDisclosureAuditPackage(commitments, scope, proofs, keys) ==
  LET content == [commitments |-> applyDisclosureScope(commitments, scope), scope |-> scope, proofs |-> proofs, keys |-> keys]
  IN  [content |-> content, hash |-> content]

verifySelectiveDisclosureAuditPackage(p, now) == validateAuditPackageShape(p.content, now) = {} /\ p.hash = p.content

-----------------------------------------------------------------------------
\* View keys, access requests and their expiry, in days.
NotGiven == -2
DefaultKeyDays == 365

\* Mutant: a key still opens at the instant it expires.
resolveKeyStatus_Inclusive(key, now) == IF ~key.isActive THEN "revoked" ELSE IF key.expiresAt # BadTime /\ key.expiresAt < now THEN "expired" ELSE "active"

\* An expiry that is not a date compares false: the key stays active.
resolveKeyStatus(key, now) == IF ~key.isActive THEN "revoked" ELSE IF key.expiresAt # BadTime /\ key.expiresAt <= now THEN "expired" ELSE "active"

isViewKeyValid(key, now) == resolveKeyStatus(key, now) = "active"

createViewKeyRequest(expiresAt, now) == [isActive |-> TRUE, expiresAt |-> IF expiresAt = NotGiven THEN now + DefaultKeyDays ELSE expiresAt]

validateViewKeyRequest(named, scope, expiresAt, now) ==
  AllOf(<< <<~named, "auditor">>, <<scope \notin {"read-only", "full-audit"}, "scope">>, <<expiresAt = BadTime, "not a date">>,
           <<expiresAt \notin {NotGiven, BadTime} /\ expiresAt <= now, "not in the future">> >>)

WARNING_DAYS == 2
getAuditorAccessExpiryStatus(expiresAt, now) ==
  IF expiresAt \in {NotGiven, BadTime} THEN "unknown" ELSE IF expiresAt <= now THEN "expired"
  ELSE IF expiresAt - now <= WARNING_DAYS THEN "expiring_soon" ELSE "active"

\* formatAuditorAccessExpiry decides again, on the time that remains.
formatAuditorAccessExpiry(expiresAt, now) ==
  IF expiresAt \in {NotGiven, BadTime} THEN "unknown"
  ELSE LET remaining == expiresAt - now IN
       IF remaining <= 0 THEN "expired" ELSE IF remaining <= WARNING_DAYS THEN "expiring_soon" ELSE "active"

isAuditorAccessActive(expiresAt, now) == getAuditorAccessExpiryStatus(expiresAt, now) \in {"active", "expiring_soon"}

MAX_REQUEST_DAYS == 365
dateIssue(t) == IF t = NotGiven THEN "MISSING" ELSE IF t = BadTime THEN "INVALID" ELSE "ok"
accessRequestErrors(q, now) ==
  LET dated == dateIssue(q.start) = "ok" /\ dateIssue(q.end) = "ok" IN
  AllOf(<< <<q.requester \notin {"G", "S"}, "REQUESTER">>, <<~q.named, "REQUESTER_NAME">>,
           <<q.scope \notin {"transaction-summaries", "departmental-breakdowns", "full-payroll"}, "SCOPE">>,
           <<dateIssue(q.expiresAt) # "ok", "EXPIRES_AT">>, <<q.expiresAt >= 0 /\ q.expiresAt <= now, "EXPIRES_AT_IN_PAST">>,
           <<q.expiresAt > now + MAX_REQUEST_DAYS, "EXPIRES_AT_EXCEEDED_MAX_DURATION">>,
           <<q.reason < 10 \/ q.reason > 2000, "REASON">>, <<~dated, "TARGET_PAYROLL_PERIOD">>,
           <<dated /\ q.end <= q.start, "PERIOD_END_BEFORE_START">>, <<dated /\ q.end - q.start > MAX_REQUEST_DAYS, "PERIOD_EXCEEDS_MAX_DURATION">>,
           <<dated /\ q.start > now /\ q.end > now, "PERIOD_IN_FUTURE">> >>)

-----------------------------------------------------------------------------
\* Normalized events.  A raw event has a contract type, a webhook name, or neither, and may give a category and a severity.
ContractTypes == {"registered", "registry_updated", "registry_deactivated", "committed", "salary_revealed", "payment_executed",
                  "payment_scheduled", "payment_cancelled"}
WebhookNames == {"payroll.completed", "payroll.failed", "transaction.pending", "transaction.confirmed", "transaction.failed",
                 "audit.view_key_granted", "audit.view_key_revoked", "audit.view_key_expired"}
Failures == {"payroll.failed", "transaction.failed"}
\* A name of no known type with a known prefix, and "failed" in it.
UnknownName == "payroll.retry_failed"
isWebhookPayload(e) == e \in WebhookNames \cup {UnknownName}

contractEventToCategory(t) ==
  CASE t \in {"registered", "registry_updated", "registry_deactivated"} -> "registry"
    [] t \in {"payment_executed", "payment_scheduled", "payment_cancelled"} -> "payment" [] OTHER -> "payroll"
contractEventToSeverity(t) == IF t \in {"registry_deactivated", "payment_cancelled"} THEN "warning" ELSE "info"

webhookToCategory(e) ==
  CASE e \in {"payroll.completed", "payroll.failed"} -> "payroll" [] e \in {"transaction.pending", "transaction.confirmed", "transaction.failed"} -> "transaction"
    [] e \in {"audit.view_key_granted", "audit.view_key_revoked", "audit.view_key_expired"} -> "audit_key" [] OTHER -> "compliance"

\* Mutant: a failed transaction is a warning like a pending one.
webhookToSeverity_Pending(e) ==
  CASE e = "payroll.failed" -> "error"
    [] e \in {"audit.view_key_revoked", "audit.view_key_expired", "transaction.pending", "transaction.failed"} -> "warning" [] OTHER -> "info"

webhookToSeverity(e) ==
  CASE e \in Failures -> "error" [] e \in {"audit.view_key_revoked", "audit.view_key_expired", "transaction.pending"} -> "warning" [] OTHER -> "info"

\* A contract type goes before a webhook's name; anything else is a dashboard event, whose category and severity the payload may give.
OrDefault(given, default) == IF given = "absent" THEN default ELSE given
normalizeAuditEvent(raw) ==
  CASE raw.type \in ContractTypes -> [category |-> contractEventToCategory(raw.type), severity |-> contractEventToSeverity(raw.type), failed |-> FALSE, tag |-> "contract"]
    [] raw.type \notin ContractTypes /\ isWebhookPayload(raw.event) ->
         [category |-> webhookToCategory(raw.event), severity |-> webhookToSeverity(raw.event), failed |-> raw.event \in Failures \cup {UnknownName}, tag |-> "webhook"]
    [] OTHER -> [category |-> OrDefault(raw.category, "dashboard"), severity |-> OrDefault(raw.severity, "info"), failed |-> FALSE, tag |-> "generic"]

\* The places of the events a filter keeps, in their order.  "any": the filter does not ask.
filterAuditEvents(events, f) ==
  {i \in DOMAIN events : /\ f.category \in {"any", events[i].category} /\ f.severity \in {"any", events[i].severity}
                         /\ f.tags \subseteq {events[i].tag}}

SEVERITIES == {"info", "warning", "error", "critical"}
buildAuditSummary(events) == [s \in SEVERITIES |-> Count(LAMBDA e : e.severity = s, events)]

-----------------------------------------------------------------------------
ReceiptOptions(id, tx, digest, metadata, maxAge, now) ==
  [payrollId |-> id, tx |-> tx, digest |-> digest, metadata |-> metadata, maxAge |-> maxAge, now |-> now, requireSettled |-> TRUE,
   requireSignature |-> FALSE, trusted |-> {}, custom |-> "none", strict |-> FALSE, node |-> TRUE]
Expectations == {ReceiptOptions("p", tx, d, m, 0, 210) : tx \in Hashes, d \in Hashes, m \in {"none", "m1", "m2"}}
WithValidator(o, custom, strict) == [o EXCEPT !.custom = custom, !.strict = strict]
Where(o, node) == [o EXCEPT !.node = node]
ReceiptInputs ==
  {[receipt |-> PayrollReceipt("p", "settled", "string", Written("h1", FALSE, TRUE), d, m, 205, s, "a"), options |-> Where(WithValidator(o, c, s), n)] :
     d \in Hashes, m \in {"none", "m1", "m2"}, o \in Expectations, c \in {"none", "warning", "promise"}, s \in BOOLEAN, n \in BOOLEAN}
\* No digest to keep: the metadata are hashed.
NotDigests == {Written("odd", FALSE, FALSE), Written(Nil, FALSE, FALSE)}
CreatedInputs ==
  [tx : Hashes, digest : NotDigests, metadata : {"none", "m1", "m2"}, issuedAt : {20, 21, 200, 205}, later : -3..12, age : {0, 5}, node : BOOLEAN]
LookupInputs ==
  {[receipts |-> <<PayrollReceipt("p", "settled", f, t1, Written("h1", FALSE, FALSE), "m1", 205, FALSE, "none"),
                   PayrollReceipt("q", "settled", "object", t2, Written("h1", FALSE, FALSE), "m1", 205, FALSE, "none")>>, hash |-> h] :
     f \in {"string", "object", "none"}, t1 \in Hashes, t2 \in Hashes, h \in Hashes}
AttachmentInputs ==
  {[operation |-> "op", label |-> l, type |-> t, uri |-> u, digest |-> d, issuedAt |-> 5] :
     l \in {0, 256, 257}, t \in {"receipt", "letter"}, u \in {"absent", "https", "ftp"}, d \in Hashes \cup {Written("absent", FALSE, FALSE)}}
Commitment(e, p, d) == [employee |-> e, period |-> p, department |-> d]
PackageInputs ==
  {[commitments |-> cs, scope |-> [type |-> t, ids |-> ids, reason |-> r, expiresAt |-> x], proofs |-> ps, keys |-> {"k"}] :
     cs \in SUBSET {Commitment("e1", "p1", Nil), Commitment("e1", "p2", "d1"), Commitment("e2", "p1", "d2"), Commitment(Nil, "p1", "d1")},
     t \in {"employee_subset", "payroll_period", "department", "reason"}, ids \in {{}, {Nil}, {"e1"}, {"p1"}, {"d1"}}, r \in BOOLEAN,
     x \in {NoExpiry, 5, 7}, ps \in {{}, {"k"}, {"k", "lost"}}}
AccessInputs ==
  {[requester |-> "G", named |-> TRUE, scope |-> s, expiresAt |-> x, reason |-> 10, start |-> a, end |-> b] :
     s \in {"full-payroll", "other"}, x \in {NotGiven, BadTime, 400, 401, 402, 765, 766}, a \in {BadTime, 35, 100, 401}, b \in {NotGiven, 100, 400, 401, 466}}
RawEvents ==
  {[type |-> t, event |-> e, category |-> c, severity |-> s] :
     t \in {"registered", "payment_cancelled", "none"}, e \in WebhookNames \cup {UnknownName, "login"}, c \in {"absent", "payroll"}, s \in {"absent", "error"}}
EventInputs == RawEvents \X RawEvents

\* The digest of a receipt is judged the same by the verifier and by verifyMetadataDigestMatch; the asynchronous verifier, which hashes
\* with WebCrypto, accepts no receipt the synchronous one refuses, and agrees with it where Node's crypto is loaded or nothing is hashed.
\* Elsewhere it accepts no receipt with metadata, since no digest is both the fallback's and WebCrypto's (receiptVerifier.ts 271, 453).
DigestChecksAgree == About("receipt") =>
  LET r == subject.input.receipt o == subject.input.options
      metadata == MetadataToVerify(r, o) IN
  /\ r.digest.v # Nil => ("metadataDigest" \in verifiedFields(r, o) <=> verifyMetadataDigestMatch(r.digest, metadata, o.digest, o.node))
  /\ verifyPayrollReceiptAsync(r, o) => verifyPayrollReceipt(r, o)
  /\ (o.custom # "promise" /\ (o.node \/ metadata = "none")) => (verifyPayrollReceiptAsync(r, o) <=> verifyPayrollReceipt(r, o))
  /\ (~o.node /\ metadata # "none") => ~verifyPayrollReceiptAsync(r, o)

\* A receipt the verifier accepts is accepted as a settlement receipt, under every id that is well formed.
VerifiedReceiptsSettle == About("receipt") =>
  \A id \in [length : {8, 128}, chars : {"plain"}], status \in {"settled", "confirmed", "pending"} :
    LET r == [subject.input.receipt EXCEPT !.status = status] IN
    verifyPayrollReceipt(r, subject.input.options) => validateSettlementReceipt(id, r, subject.input.options) = "ok"

\* A receipt created for a payment verifies against that payment, in seconds or milliseconds, until its age is past the limit and the
\* tolerance.  Without Node's crypto a receipt of metadata beyond Latin-1 never does: its digest is empty.
OwnReceiptsVerify == About("created") =>
  LET i == subject.input
      r == createPayrollReceipt("p", i.tx, i.digest, i.metadata, i.issuedAt, i.node)
      now == (IF i.issuedAt < SecondsBelow THEN i.issuedAt * 10 ELSE i.issuedAt) + i.later
  IN  i.tx.v # Nil => (verifyPayrollReceipt(r, Where(ReceiptOptions("p", i.tx, r.digest, i.metadata, i.age, now), i.node))
                        <=> /\ i.age = 0 \/ i.later <= i.age + DEFAULT_TOLERANCE_MS
                            /\ i.node \/ i.metadata # "m2")

\* A receipt found by its transaction hash verifies against that hash and no other receipt of the list does.
FoundReceiptsVerify == About("lookup") =>
  LET i == subject.input
      o == ReceiptOptions(Nil, i.hash, Written(Nil, FALSE, FALSE), "none", 0, 205)
      at == findReceiptByTransactionHash(i.receipts, i.hash)
  IN  at # 0 => {j \in DOMAIN i.receipts : verifyPayrollReceipt(i.receipts[j], o)} = {at} /\ referenceIssues(i.receipts[at], 1, 2) = {}

\* A digest attached to an audit is, letter for letter, the digest the receipt of that payment carries.
AttachedDigestMatches == About("attachment") =>
  LET a == subject.input IN
  (validateAuditReferenceAttachment(a) = {} /\ a.digest.v # "absent")
    => attachAuditReference(a).digest = createPayrollReceipt("p", Written("h1", FALSE, FALSE), a.digest, "none", 200, TRUE).digest

\* A disclosure package verifies exactly until its scope expires, and holds no commitment its scope does not name.
PackagesStayInScope == About("package") =>
  LET i == subject.input
      p == createSelectiveDisclosureAuditPackage(i.commitments, i.scope, i.proofs, i.keys)
  IN  validateAuditPackageShape(p.content, 4) = {} =>
        /\ \A now \in 4..8 : verifySelectiveDisclosureAuditPackage(p, now) <=> (i.scope.expiresAt = NoExpiry \/ now < i.scope.expiresAt)
        /\ i.scope.type = "department" => \A c \in p.content.commitments : c.department \in i.scope.ids
        /\ i.scope.type = "employee_subset" => \A c \in p.content.commitments : c.employee \in i.scope.ids

\* Access that a valid request grants is read the same by the view key and by the two expiry readers, at and after the instant it ends.
AccessViewsAgree == About("access") =>
  LET q == subject.input now == 400 key == createViewKeyRequest(q.expiresAt, now) IN
  accessRequestErrors(q, now) = {} =>
    /\ validateViewKeyRequest(q.named, "read-only", q.expiresAt, now) = {}
    /\ \A at \in {now, q.expiresAt - 2, q.expiresAt - 1, q.expiresAt, q.expiresAt + 1} :
         /\ isViewKeyValid(key, at) <=> isAuditorAccessActive(q.expiresAt, at)
         /\ formatAuditorAccessExpiry(q.expiresAt, at) = getAuditorAccessExpiryStatus(q.expiresAt, at)

\* A summary of normalized events counts as errors the events a filter finds by that severity.  Those that come from a webhook are its
\* failure reports (a webhook of no known type is a matter of its own); any other was called an error by whoever logged it.
FailuresAreCounted == About("auditevents") =>
  LET raws == subject.input
      events == <<normalizeAuditEvent(raws[1]), normalizeAuditEvent(raws[2])>>
      errors == filterAuditEvents(events, [category |-> "any", severity |-> "error", tags |-> {}])
      reported == filterAuditEvents(events, [category |-> "any", severity |-> "error", tags |-> {"webhook"}])
  IN  /\ buildAuditSummary(events)["error"] = Cardinality(errors) /\ reported \subseteq errors
      /\ \A k \in errors \ reported : events[k].tag = "generic" /\ raws[k].severity = "error"
      /\ UnknownName \notin {raws[1].event, raws[2].event} => reported = {k \in DOMAIN events : events[k].failed}
=============================================================================
