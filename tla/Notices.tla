------------------------------- MODULE Notices -------------------------------
(***************************************************************************)
(* What reaches the SDK from outside: contract events (event-parser.ts,    *)
(* events/), dispute notices (disputes/), signed webhooks (webhooks/) and  *)
(* the confirmation of a transaction (events.ts).  An XDR value is its arm *)
(* and its content.                                                        *)
(***************************************************************************)
EXTENDS Subject

Val(arm, v) == [arm |-> arm, v |-> v]
NoVal == Val("none", 0)

\* Date.now(), where a missing time is filled in.
Now == 100

\* A raw event: its topics and its data, a map of fields, some other value ("void"), or nothing.
RawEvent(topics, data, fields) == [topics |-> topics, data |-> data, fields |-> fields]
topicOf(e, i) == IF i \in DOMAIN e.topics THEN e.topics[i] ELSE NoVal
fieldOf(e, f) == IF e.data = "map" /\ f \in DOMAIN e.fields THEN e.fields[f] ELSE NoVal

decodeEventName(s) == IF s.arm = "sym" THEN s.v ELSE ""
decodeAddress(s) == IF s.arm = "addr" THEN s.v ELSE ""
decodeString(s) == IF s.arm \in {"sym", "str"} THEN s.v ELSE ""

\* 128-bit integers travel as two halves; BASE stands for 2^64.  With lo below BASE the code's (hi << 64) | lo is the sum.
BASE == 4

\* Mutant: the low half is taken as signed.
joinHalves_Signed(hi, lo) == hi * BASE + (IF lo >= BASE \div 2 THEN lo - BASE ELSE lo)

joinHalves(hi, lo) == hi * BASE + lo

decodeBigInt(s) == CASE s.arm = "i128" -> joinHalves(s.v.hi, s.v.lo) [] s.arm = "u64" -> s.v [] OTHER -> 0
snapshotBigInt(s) == CASE s.arm = "i128" -> s.v.hi * BASE + s.v.lo [] s.arm \in {"u64", "i64", "u32", "i32"} -> s.v [] OTHER -> 0

\* A value of another arm makes u64(), str() and bytes() throw; a missing one is 0 or empty.
wrongArm(s, arm) == s.arm \notin {"none", arm}
decodeU64AsNumber(s) == IF s.arm = "u64" THEN s.v ELSE 0

Unread(why) == [type |-> "refused", why |-> why]
Decoded(type, who, detail) == [type |-> type, who |-> who, detail |-> detail]
decoded(r) == r.type # "refused"

nameIn(e, names) == decodeEventName(topicOf(e, 1)) \in names

\* The checks every decoder makes first; data that is no map makes map() throw.
header(e, names) ==
  FirstOf(<< <<e.topics = <<>>, "no topics">>, <<~nameIn(e, names), "wrong name">>,
             <<decodeAddress(topicOf(e, 2)) = "", "no address">> >>, "")
plain(e, names, type, arms, detail) ==
  LET why == FirstOf(<< <<header(e, names) # "", header(e, names)>>, <<e.data # "map", "TypeError">>,
                        <<\E f \in DOMAIN arms : wrongArm(fieldOf(e, f), arms[f]), "TypeError">> >>, "")
  IN  IF why = "" THEN Decoded(type, decodeAddress(topicOf(e, 2)), detail) ELSE Unread(why)

decodeEmployerOnboardingEvent(e) ==
  plain(e, {"employer_onboarded"}, "employer_onboarded", [company_name |-> "str", onboarded_at |-> "u64"], decodeU64AsNumber(fieldOf(e, "onboarded_at")))
decodeEmployerUpdatedEvent(e) ==
  plain(e, {"employer_updated"}, "employer_updated", [updated_at |-> "u64"],
        IF fieldOf(e, "updated_at").arm = "none" THEN Now ELSE decodeU64AsNumber(fieldOf(e, "updated_at")))
parseOperatorRemovalEvent(e) ==
  plain(e, {"operator_removed"}, "operator_removed", [reason |-> "str", removed_at |-> "u64"], decodeU64AsNumber(fieldOf(e, "removed_at")))
parseAuditorAssignedEvent(e) ==
  plain(e, {"auditor_assigned"}, "auditor_assigned", [scope |-> "str", assigned_at |-> "u64"], decodeU64AsNumber(fieldOf(e, "assigned_at")))
parseAuditorRemovedEvent(e) ==
  plain(e, {"auditor_removed"}, "auditor_removed", [reason |-> "str", removed_at |-> "u64"], decodeU64AsNumber(fieldOf(e, "removed_at")))
parseDraftUpdatedEvent(e) ==
  plain(e, {"payroll_draft_updated"}, "payroll_draft_updated", [draft_id |-> "str", entry_count |-> "u64"], decodeU64AsNumber(fieldOf(e, "entry_count")))

\* A draft's expiry needs its id and both of its times, and a time of 0 counts as missing.
parseDraftExpiryEvent(e) ==
  LET why == FirstOf(<< <<header(e, {"payroll_draft_expiry"}) # "", header(e, {"payroll_draft_expiry"})>>, <<e.data # "map", "TypeError">>,
                        <<wrongArm(fieldOf(e, "draft_id"), "str"), "TypeError">>, <<decodeString(fieldOf(e, "draft_id")) = "", "no draft_id">>,
                        <<wrongArm(fieldOf(e, "expiry_timestamp"), "u64"), "TypeError">>, <<decodeU64AsNumber(fieldOf(e, "expiry_timestamp")) = 0, "no expiry">>,
                        <<wrongArm(fieldOf(e, "expired_at"), "u64"), "TypeError">>, <<decodeU64AsNumber(fieldOf(e, "expired_at")) = 0, "no expired_at">> >>, "")
  IN  IF why = "" THEN Decoded("payroll_draft_expiry", decodeAddress(topicOf(e, 2)), decodeU64AsNumber(fieldOf(e, "expired_at"))) ELSE Unread(why)

EMPLOYEE_STATUS_EVENT_NAMES == {"employee_status_updated", "employee_status_changed", "employee_suspended", "employee_reactivated", "employee_offboarded", "employee_created"}

\* The status in the data wins over the one the name implies; events without data are read too.
newStatusOf(e) ==
  LET name == decodeEventName(topicOf(e, 1)) told == IF fieldOf(e, "new_status").arm # "none" THEN fieldOf(e, "new_status") ELSE fieldOf(e, "status") IN
  CASE told.arm \in {"sym", "str"} -> told.v
    [] told.arm \notin {"none", "sym", "str"} -> "[object Object]"
    [] told.arm = "none" /\ name = "employee_suspended" -> "suspended"
    [] told.arm = "none" /\ name \in {"employee_reactivated", "employee_created"} -> "active"
    [] told.arm = "none" /\ name = "employee_offboarded" -> "offboarded"
    [] OTHER -> "unknown"
decodeEmployeeStatusUpdatedEvent(e) ==
  LET why == FirstOf(<< <<header(e, EMPLOYEE_STATUS_EVENT_NAMES) # "", header(e, EMPLOYEE_STATUS_EVENT_NAMES)>>, <<e.data = "void", "TypeError">>,
                        <<wrongArm(fieldOf(e, "updated_at"), "u64"), "TypeError">> >>, "")
  IN  IF why = "" THEN Decoded("employee_status_updated", decodeAddress(topicOf(e, 2)), newStatusOf(e)) ELSE Unread(why)

\* The depositor is looked for in the topics and then in the data.
parseTreasuryDepositEvent(e) ==
  LET who == IF decodeAddress(topicOf(e, 2)) # "" THEN decodeAddress(topicOf(e, 2)) ELSE decodeAddress(fieldOf(e, "depositor"))
      why == FirstOf(<< <<e.topics = <<>>, "no topics">>, <<~nameIn(e, {"treasury_deposited", "treasury_deposit"}), "wrong name">>,
                        <<e.data = "void", "TypeError">>, <<who = "", "no address">>, <<wrongArm(fieldOf(e, "deposited_at"), "u64"), "TypeError">>,
                        <<decodeU64AsNumber(fieldOf(e, "deposited_at")) = 0 /\ wrongArm(fieldOf(e, "timestamp"), "u64"), "TypeError">> >>, "")
  IN  IF why = "" THEN Decoded("treasury_deposit", who, decodeBigInt(fieldOf(e, "amount"))) ELSE Unread(why)

\* The employer and the asset of a snapshot are symbols or strings: an address is not read.  Its name may be a string too.
decodeTreasurySnapshotEvent(e) ==
  LET who == IF decodeString(fieldOf(e, "employer")) # "" THEN decodeString(fieldOf(e, "employer")) ELSE decodeString(topicOf(e, 2))
      free == IF fieldOf(e, "available_amount").arm # "none" THEN snapshotBigInt(fieldOf(e, "available_amount"))
              ELSE snapshotBigInt(fieldOf(e, "balance")) - snapshotBigInt(fieldOf(e, "reserved_amount"))
      why == FirstOf(<< <<e.topics = <<>>, "no topics">>, <<decodeString(topicOf(e, 1)) # "treasury_snapshot", "wrong name">>,
                        <<e.data = "void", "TypeError">>, <<who = "" \/ decodeString(fieldOf(e, "asset")) = "", "no employer or asset">> >>, "")
  IN  IF why = "" THEN Decoded("treasury_snapshot", who, free) ELSE Unread(why)

\* Assets: the field is a vector of entries, of which each names its asset by an address or a string.
decodeAssets(s) == IF s.arm = "vec" THEN [i \in DOMAIN s.v |-> IF decodeAddress(s.v[i]) # "" THEN decodeAddress(s.v[i]) ELSE decodeString(s.v[i])] ELSE <<>>
parseFundingReservationCreatedEvent(e) ==
  LET assets == decodeAssets(fieldOf(e, "assets"))
      why == FirstOf(<< <<header(e, {"funding_reservation_created"}) # "", header(e, {"funding_reservation_created"})>>, <<e.data # "map", "TypeError">>,
                        <<decodeString(fieldOf(e, "reservation_id")) = "", "no reservation_id">>, <<wrongArm(fieldOf(e, "assets"), "vec"), "assets">>,
                        <<Some(LAMBDA a : a = "", assets), "asset">>, <<assets = <<>>, "no assets">> >>, "")
  IN  IF why = "" THEN Decoded("funding_reservation_created", decodeAddress(topicOf(e, 2)), Len(assets)) ELSE Unread(why)

\* The registry's, the commitments' and the payments' events: only a registration insists on its address, a deactivation reads no data.
LedgerEvents == [registered |-> "salary", registry_updated |-> "salary", registry_deactivated |-> "", committed |-> "cycle_id", salary_revealed |-> "actual_amount",
                 payment_executed |-> "amount", payment_scheduled |-> "amount", payment_cancelled |-> "payment_id"]
BytesOf == [committed |-> "commitment_hash", payment_executed |-> "tx_hash"]
parseLedgerEvent(e, name) ==
  LET who == decodeAddress(topicOf(e, 2))
      why == FirstOf(<< <<name = "registered" /\ who = "", "no address">>, <<name # "registry_deactivated" /\ e.data # "map", "TypeError">>,
                        <<name \in DOMAIN BytesOf /\ wrongArm(fieldOf(e, IF name \in DOMAIN BytesOf THEN BytesOf[name] ELSE ""), "bytes"), "TypeError">>,
                        <<name = "payment_scheduled" /\ wrongArm(fieldOf(e, "execute_at"), "u64"), "TypeError">> >>, "")
      amount == IF name = "payment_cancelled" /\ fieldOf(e, "payment_id").arm = "none" THEN topicOf(e, 2) ELSE fieldOf(e, LedgerEvents[name])
  IN  IF why = "" THEN Decoded(name, who, decodeBigInt(amount)) ELSE Unread(why)

parseContractEvent(e) ==
  LET name == decodeEventName(topicOf(e, 1)) IN
  CASE e.topics = <<>> -> Unread("no topics")
    [] e.topics # <<>> /\ name \in DOMAIN LedgerEvents -> parseLedgerEvent(e, name)
    [] e.topics # <<>> /\ name \in EMPLOYEE_STATUS_EVENT_NAMES -> decodeEmployeeStatusUpdatedEvent(e)
    [] e.topics # <<>> /\ name = "payroll_draft_expiry" -> parseDraftExpiryEvent(e)
    [] OTHER -> Unread("unknown event")

-----------------------------------------------------------------------------
\* Decoding a list: map() throws at the first refusal; the filters look at the name first; the snapshots' swallows every refusal.
mapAll(results) == IF Every(decoded, results) THEN results ELSE <<Unread("thrown")>>
parseContractEvents(s) == mapAll([i \in DOMAIN s |-> parseContractEvent(s[i])])
decodeEmployeeStatusUpdatedEvents(s) == mapAll([i \in DOMAIN s |-> decodeEmployeeStatusUpdatedEvent(s[i])])
parseOperatorRemovalEvents(s) == mapAll([i \in DOMAIN s |-> parseOperatorRemovalEvent(s[i])])

\* Mutant: only assignments pass the filter.
auditorName_Assigned(e) == nameIn(e, {"auditor_assigned"})

auditorName(e) == nameIn(e, {"auditor_assigned", "auditor_removed"})

parseAuditorRoleEvents(s) ==
  LET own == SelectSeq(s, auditorName) IN
  mapAll([i \in DOMAIN own |-> IF nameIn(own[i], {"auditor_assigned"}) THEN parseAuditorAssignedEvent(own[i]) ELSE parseAuditorRemovedEvent(own[i])])
parseDraftExpiryEvents(s) ==
  LET own == SelectSeq(s, LAMBDA e : nameIn(e, {"payroll_draft_expiry"})) IN mapAll([i \in DOMAIN own |-> parseDraftExpiryEvent(own[i])])
parseDraftUpdatedEvents(s) ==
  LET own == SelectSeq(s, LAMBDA e : nameIn(e, {"payroll_draft_updated"})) IN mapAll([i \in DOMAIN own |-> parseDraftUpdatedEvent(own[i])])
parseFundingReservationCreatedEvents(s) ==
  LET own == SelectSeq(s, LAMBDA e : nameIn(e, {"funding_reservation_created"})) IN mapAll([i \in DOMAIN own |-> parseFundingReservationCreatedEvent(own[i])])
decodeTreasurySnapshotEvents(s) == SelectSeq([i \in DOMAIN s |-> decodeTreasurySnapshotEvent(s[i])], decoded)

-----------------------------------------------------------------------------
\* Disputes.  A raw notice: its name and the fields it gives ("absent" if it does not); a time of 0 is a missing one.
absent(d, f) == d[f] = "absent"

requiredFields(d) ==
  CASE d.name = "dispute_opened" -> {"id", "category", "severity"} [] d.name = "dispute_updated" -> {"id", "severity"}
    [] d.name \in {"dispute_resolved", "dispute_appealed", "dispute_closed"} -> {"id"} [] OTHER -> {}
statusNamed(name) == CASE name = "dispute_opened" -> "opened" [] name = "dispute_updated" -> "updated" [] name = "dispute_resolved" -> "resolved"
                       [] name = "dispute_appealed" -> "appealed" [] name = "dispute_closed" -> "closed" [] OTHER -> ""

parseCategory(c) == IF c \in {"payment_mismatch", "state_inconsistency", "integrity_failure"} THEN c ELSE "other"

\* Mutant: a severity nobody knows is information.
parseSeverity_Info(s) == IF s \in {"info", "warning", "critical"} THEN s ELSE "info"

parseSeverity(s) == IF s \in {"info", "warning", "critical"} THEN s ELSE "warning"

\* The severity used when the notice gives none, or an empty one.
defaultSeverity(d) ==
  IF d.severity \notin {"absent", ""} THEN d.severity
  ELSE CASE statusNamed(d.name) \in {"resolved", "closed"} -> "info" [] statusNamed(d.name) = "appealed" -> "critical" [] OTHER -> d.severity

extractTimestamp(t) == IF t = 0 THEN Now ELSE t

parseEvent(d) ==
  IF statusNamed(d.name) = "" \/ \E f \in requiredFields(d) : absent(d, f) THEN [status |-> "unparsed"]
  ELSE [status |-> statusNamed(d.name), id |-> d.id, category |-> parseCategory(d.category), severity |-> parseSeverity(defaultSeverity(d)), at |-> extractTimestamp(d.at)]

parseEventsAndLog(s) == SelectSeq([i \in DOMAIN s |-> parseEvent(s[i])], LAMBDA p : p.status # "unparsed")

Final == {"resolved", "closed"}
doesDisputeBlockPayroll(severity, status) == status \notin Final /\ severity \in {"critical", "warning"}
requiresAction(p) == p.status \notin Final /\ p.severity # "info"
suggestedAction(status) == CASE status \in Final -> "proceed" [] status = "appealed" -> "wait" [] OTHER -> "contact"
isLikelyContractBug(p) == p.category \in {"integrity_failure", "state_inconsistency"}
formatForContributor(p) == [severity |-> p.severity, action |-> suggestedAction(p.status), blocks |-> doesDisputeBlockPayroll(p.severity, p.status)]
formatForMaintainer(p) == [contributor |-> formatForContributor(p), bug |-> isLikelyContractBug(p)]
formatUnknownDispute == [severity |-> "critical", action |-> "contact", blocks |-> TRUE]

\* A dispute is its notices, the last one decides.
formatDispute(events) == IF events = <<>> THEN formatUnknownDispute ELSE formatForContributor(Last(events))

getActionPrompt(p) ==
  CASE p.status \in Final -> "Proceed with Payroll" [] p.status = "appealed" -> "View Appeal Status"
    [] p.status \notin Final \cup {"appealed"} /\ p.severity # "info" -> "Resolve Issue" [] OTHER -> "Review Details"

\* Mutant: the last notice of a dispute in the list decides.
deciding_Last(s) == {i \in DOMAIN s : \A j \in i+1..Len(s) : s[j].id # s[i].id}

\* The notices the summary counts: the first of each dispute in the list.
deciding(s) == {i \in DOMAIN s : \A j \in 1..i-1 : s[j].id # s[i].id}

buildDisputeSummary(s) ==
  LET first == deciding(s) blocking == {i \in first : s[i].severity # "info" /\ s[i].status \notin Final} IN
  [total |-> Len(s), blocking |-> Cardinality(blocking), resolved |-> Cardinality({i \in first : s[i].status = "resolved"}),
   unresolved |-> Cardinality({i \in first : s[i].status \notin Final}), canProceed |-> blocking = {}]

severityOrder(p) == CASE p.severity = "critical" -> 0 [] p.severity = "warning" -> 1 [] OTHER -> 2

\* Mutant: the finished ones come first.
statusOrder_Reversed(p) == CASE p.status = "opened" -> 4 [] p.status = "updated" -> 3 [] p.status = "appealed" -> 2 [] p.status = "resolved" -> 1 [] OTHER -> 0

statusOrder(p) == CASE p.status = "opened" -> 0 [] p.status = "updated" -> 1 [] p.status = "appealed" -> 2 [] p.status = "resolved" -> 3 [] OTHER -> 4

earlier(p, q) ==
  \/ severityOrder(p) < severityOrder(q)
  \/ severityOrder(p) = severityOrder(q) /\ statusOrder(p) < statusOrder(q)
  \/ severityOrder(p) = severityOrder(q) /\ statusOrder(p) = statusOrder(q) /\ p.at > q.at
sortByPriority(s) == SortSeq(s, earlier)

-----------------------------------------------------------------------------
\* Webhooks.  The replacer keeps the keys of the payload's top level, so what lies deeper is not signed.
Secret == "k1"
canonicalSerialize(payload) == [top |-> payload.top, timestamp |-> payload.timestamp]
computeSignature(payload, secret) == [prefix |-> "sha256=", digest |-> <<canonicalSerialize(payload), secret>>]

\* An envelope's signature: "missing", "bare" (no prefix), "empty" after its prefix, or made over the payload "signed" with a secret.
signatureOf(w) == computeSignature(w.signed, w.key)

stale(t, now, q) == now - t + q.tolerance > q.maxAge

future(t, now, q) == t > now + q.tolerance

\* Mutant: an envelope of any version is verified.
supported_Any(version) == TRUE

supported(version) == version = "1"

verifyWebhookSignature(w, q) ==
  FirstOf(<< <<w.body # "object", "ENVELOPE_INVALID">>, <<~w.payload, "PAYLOAD_MISSING">>, <<w.signature = "missing", "SIGNATURE_MISSING">>,
             <<w.version = "", "VERSION_MISSING">>, <<~supported(w.version), "UNSUPPORTED_VERSION">>,
             <<w.signature = "bare", "SIGNATURE_FORMAT_INVALID">>, <<w.signature = "empty", "SIGNATURE_EMPTY">>,
             <<signatureOf(w) # computeSignature(w.sent, Secret), "SIGNATURE_MISMATCH">>,
             <<q.maxAge > 0 /\ w.sent.timestamp = -1, "TIMESTAMP_MISSING">>, <<q.maxAge > 0 /\ w.sent.timestamp = -2, "TIMESTAMP_INVALID">>,
             <<q.maxAge > 0 /\ stale(w.sent.timestamp, q.now, q), "PAYLOAD_EXPIRED">>,
             <<q.maxAge > 0 /\ future(w.sent.timestamp, q.now, q), "TIMESTAMP_FUTURE">> >>, "accepted")

parseWebhookEnvelope(w) ==
  FirstOf(<< <<w.body = "none", "BODY_INVALID">>, <<~w.payload \/ w.signature = "missing" \/ w.version = "", "ENVELOPE_MALFORMED">> >>, "parsed")

-----------------------------------------------------------------------------
\* Waiting for a transaction: the watcher sleeps and then asks, at most maxPolls times; the abort comes during one of the sleeps (0: before the first).
finalAnswer(a) == a \in {"SUCCESS", "FAILED", "error"}

\* Mutant: an abort is noticed only between two polls.
abortedBy_Late(q, i) == q.abort < i

abortedBy(q, i) == q.abort <= i

waitForConfirmation(q) ==
  LET stops == {i \in 1..q.maxPolls : abortedBy(q, i) \/ finalAnswer(q.answers[i])}
      at == IF stops = {} THEN q.maxPolls ELSE Min(stops)
      over(end, polls, says) == [end |-> end, polls |-> polls, says |-> says]
  IN  CASE q.abort = 0 -> over("cancelled", 0, <<"cancelled">>)
        [] q.abort # 0 /\ stops = {} -> over("TRANSACTION_TIMEOUT", q.maxPolls, <<"timeout">>)
        [] q.abort # 0 /\ stops # {} /\ abortedBy(q, at) -> over("cancelled", at - 1, <<"cancelled">>)
        [] OTHER -> over(CASE q.answers[at] = "SUCCESS" -> "SUCCESS" [] q.answers[at] = "FAILED" -> "CONTRACT_REVERT" [] OTHER -> "error", at,
                         <<IF q.answers[at] = "error" THEN "error" ELSE "confirmed">>)

-----------------------------------------------------------------------------
Halves(v) == Val("i128", [hi |-> v \div BASE, lo |-> v % BASE])
Sym(v) == Val("sym", v)
Payer == Val("addr", "GA")

AmountFieldInputs ==
  {[name |-> n, value |-> v] : n \in {"treasury_deposit", "registered", "registry_updated", "committed", "salary_revealed", "payment_executed", "payment_cancelled"},
                              v \in -8..7}
SampleEvents ==
  {RawEvent(<<>>, "map", <<>>), RawEvent(<<Sym("unheard_of"), Payer>>, "map", <<>>), RawEvent(<<Val("str", "treasury_snapshot"), Sym("acme")>>, "map", [asset |-> Sym("USDC")]),
   RawEvent(<<Sym("treasury_snapshot"), Payer>>, "map", [asset |-> Sym("USDC")]), RawEvent(<<Sym("employee_suspended"), Payer>>, "none", <<>>),
   RawEvent(<<Sym("employee_created"), Payer>>, "map", [status |-> Sym("suspended")]), RawEvent(<<Sym("employee_created"), Sym("me")>>, "map", <<>>),
   RawEvent(<<Sym("payroll_draft_expiry"), Payer>>, "map", [draft_id |-> Val("str", "d"), expiry_timestamp |-> Val("u64", 5), expired_at |-> Val("u64", 6)]),
   RawEvent(<<Sym("payroll_draft_expiry"), Payer>>, "map", [draft_id |-> Val("str", "d"), expiry_timestamp |-> Val("u64", 0), expired_at |-> Val("u64", 6)]),
   RawEvent(<<Sym("funding_reservation_created"), Payer>>, "map", [reservation_id |-> Sym("r"), assets |-> Val("vec", <<Payer, Sym("XLM")>>)]),
   RawEvent(<<Sym("funding_reservation_created"), Payer>>, "map", [reservation_id |-> Sym("r")]),
   RawEvent(<<Sym("treasury_deposit")>>, "map", [depositor |-> Payer]), RawEvent(<<Sym("registry_deactivated")>>, "none", <<>>)}
  \cup {RawEvent(<<Sym(n), Payer>>, d, <<>>) : n \in {"employer_onboarded", "employer_updated", "operator_removed", "auditor_assigned", "auditor_removed", "payroll_draft_updated"},
                                             d \in {"map", "void"}}
RawEventInputs == UNION {[1..n -> SampleEvents] : n \in 0..2}

Dispute(name, id, category, severity) == [name |-> name, id |-> id, category |-> category, severity |-> severity]
Timed(s) == [i \in DOMAIN s |-> s[i] @@ [at |-> Len(s) + 1 - i]]
DisputeNames == {"dispute_opened", "dispute_updated", "dispute_resolved", "dispute_appealed", "dispute_closed"}
DisputeInputs ==
  {Timed(<<Dispute(n, i, c, v)>>) : n \in DisputeNames \cup {"dispute_lost"}, i \in {"absent", "d1"}, c \in {"absent", "integrity_failure", "strange"},
                                    v \in {"absent", "", "info", "warning", "critical", "strange"}}
  \cup {Timed(s) : s \in UNION {[1..n -> {Dispute(m, i, "other", v) : m \in DisputeNames \ {"dispute_closed"}, i \in {"d1", "d2"}, v \in {"info", "critical"}}] : n \in 2..3}}

HookPayloads == {[top |-> x, nested |-> y, timestamp |-> t] : x \in {1, 2}, y \in {1, 2}, t \in {-2, -1, 4, 7, 9, 10, 11, 13}}
HookTo(body, payload, version, signature, sent, signed, key) ==
  [body |-> body, payload |-> payload, version |-> version, signature |-> signature, sent |-> sent, signed |-> signed, key |-> key]
HookInputs ==
  {[hook |-> h, now |-> 10, maxAge |-> m, tolerance |-> t] : m \in {0, 3, 6}, t \in {0, 2},
     h \in {HookTo("object", TRUE, v, "made", p, [p EXCEPT !.top = x, !.nested = y], k) :
              v \in {"1", "2"}, p \in HookPayloads, x \in {1, 2}, y \in {1, 2}, k \in {Secret, "k2"}}
           \cup {HookTo(b, p, v, s, [top |-> 1, nested |-> 1, timestamp |-> 9], [top |-> 1, nested |-> 1, timestamp |-> 9], Secret) :
                    b \in {"none", "object"}, p \in BOOLEAN, v \in {"", "1"}, s \in {"missing", "bare", "empty", "made"}}}

Answers == {"NOT_FOUND", "SUCCESS", "FAILED", "error"}
WatchInputs == {[answers |-> a, maxPolls |-> Len(a), abort |-> x] : a \in UNION {[1..n -> Answers] : n \in 0..4}, x \in 0..6}

\* Amounts, negative ones too, come out of every event as the contract put them in, whichever of the two decoders reads them.
EventAmountsExact == About("amountfield") =>
  LET i == subject.input amount == Halves(i.value)
      r(f) == RawEvent(<<Sym(i.name), Payer>>, "map", [x \in {f} |-> amount])
  IN  /\ i.name = "treasury_deposit" => parseTreasuryDepositEvent(r("amount")).detail = i.value
      /\ i.name # "treasury_deposit" => parseContractEvent(r(LedgerEvents[i.name])).detail = i.value
      /\ snapshotBigInt(amount) = i.value

\* A list of mixed events: a filtering decoder throws only for a bad event of its own and otherwise returns one result for each of its own;
\* the snapshots' never throws; no event is read by two decoders.
BatchesKeepOwn == About("rawevents") =>
  LET s == subject.input
      keeps(results, names, one(_)) ==
        IF results = <<Unread("thrown")>> THEN Some(LAMBDA e : nameIn(e, names) /\ ~decoded(one(e)), s)
        ELSE Len(results) = Count(LAMBDA e : nameIn(e, names), s) /\ Every(decoded, results)
      auditor(e) == IF decoded(parseAuditorAssignedEvent(e)) THEN parseAuditorAssignedEvent(e) ELSE parseAuditorRemovedEvent(e)
      readers(e) == {decodeEmployerOnboardingEvent(e), decodeEmployerUpdatedEvent(e), parseOperatorRemovalEvent(e), auditor(e), parseDraftUpdatedEvent(e),
                     parseTreasuryDepositEvent(e), decodeTreasurySnapshotEvent(e), parseFundingReservationCreatedEvent(e)}
  IN  /\ keeps(parseAuditorRoleEvents(s), {"auditor_assigned", "auditor_removed"}, auditor)
      /\ keeps(parseDraftExpiryEvents(s), {"payroll_draft_expiry"}, parseDraftExpiryEvent)
      /\ keeps(parseDraftUpdatedEvents(s), {"payroll_draft_updated"}, parseDraftUpdatedEvent)
      /\ keeps(parseFundingReservationCreatedEvents(s), {"funding_reservation_created"}, parseFundingReservationCreatedEvent)
      /\ Every(decoded, decodeTreasurySnapshotEvents(s))
      /\ parseContractEvents(s) = <<Unread("thrown")>> <=> Some(LAMBDA e : ~decoded(parseContractEvent(e)), s)
      /\ (parseOperatorRemovalEvents(s) # <<Unread("thrown")>> /\ decodeEmployeeStatusUpdatedEvents(s) # <<Unread("thrown")>>) => s = <<>>
      /\ Every(LAMBDA e : Cardinality({r.type : r \in {x \in readers(e) \cup {parseContractEvent(e)} : decoded(x)}}) <= 1, s)

\* The message, the prompt and requiresAction agree on what holds up payroll; a notice that is not final does so unless it says it is information.
BlockingViewsAgree == About("disputes") =>
  LET raw == subject.input IN
  \A i \in DOMAIN raw : LET p == parseEvent(raw[i]) IN p.status # "unparsed" =>
    /\ requiresAction(p) <=> formatForContributor(p).blocks
    /\ formatForContributor(p).blocks => getActionPrompt(p) \in {"Resolve Issue", "View Appeal Status"}
    /\ formatForContributor(p).action = "proceed" <=> getActionPrompt(p) = "Proceed with Payroll"
    /\ (p.status \notin Final /\ raw[i].severity # "info") => requiresAction(p) /\ formatForMaintainer(p).contributor.blocks

\* The summary of notices given newest first holds up payroll exactly when the newest notice of some dispute does, as the dispute's own message says.
NewestNoticeDecides == About("disputes") =>
  LET s == parseEventsAndLog(subject.input) sum == buildDisputeSummary(s)
      told(id) == Reverse(SelectSeq(s, LAMBDA p : p.id = id))
      ids == {s[i].id : i \in DOMAIN s}
  IN  /\ sum.canProceed <=> \A id \in ids : ~formatDispute(told(id)).blocks
      /\ sum.blocking <= sum.unresolved /\ sum.unresolved + sum.resolved <= Cardinality(ids)

\* Sorted by priority, a critical notice that needs action is never behind one that needs none.
UrgentComesFirst == About("disputes") =>
  LET s == sortByPriority(parseEventsAndLog(subject.input)) IN
  \A i, j \in DOMAIN s : (s[i].severity = "critical" /\ requiresAction(s[i]) /\ ~requiresAction(s[j])) => i < j

\* An accepted webhook was signed with the secret over the payload's own top-level fields, is of version 1 and is neither older than maxAge
\* nor later than the tolerance allows; one that is all this, and young enough for the tolerance too, is accepted; verify refuses what parse refuses.
AcceptedWebhooksAreGenuine == About("webhook") =>
  LET q == subject.input w == q.hook verdict == verifyWebhookSignature(w, q) t == w.sent.timestamp
      genuine == w.body = "object" /\ w.payload /\ w.signature = "made" /\ w.version = "1" /\ w.key = Secret /\ w.signed.top = w.sent.top
  IN  /\ verdict = "accepted" => genuine /\ (q.maxAge > 0 => t >= 0 /\ q.now - t <= q.maxAge /\ t <= q.now + q.tolerance)
      /\ (genuine /\ (q.maxAge = 0 \/ (t >= 0 /\ t + q.maxAge >= q.now + q.tolerance /\ t <= q.now))) => verdict = "accepted"
      /\ parseWebhookEnvelope(w) # "parsed" => verdict # "accepted"

\* A wait ends with the first final answer the server gave before the abort, asks no more after it or after the abort, and times out only
\* when every poll it was allowed went unanswered.
ConfirmationIsDecisive == About("watch") =>
  LET q == subject.input r == waitForConfirmation(q) IN
  /\ r.end \in {"SUCCESS", "CONTRACT_REVERT", "error"} => r.polls < q.abort /\ \A i \in 1..r.polls : finalAnswer(q.answers[i]) <=> i = r.polls
  /\ r.end = "SUCCESS" => q.answers[r.polls] = "SUCCESS"
  /\ r.end = "cancelled" => q.abort <= q.maxPolls /\ (q.abort > 0 => r.polls = q.abort - 1) /\ \A i \in 1..r.polls : ~finalAnswer(q.answers[i])
  /\ r.end = "TRANSACTION_TIMEOUT" => r.polls = q.maxPolls /\ ~\E i \in 1..q.maxPolls : finalAnswer(q.answers[i])
  /\ Len(r.says) = 1
=============================================================================
