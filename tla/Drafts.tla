------------------------------- MODULE Drafts -------------------------------
(***************************************************************************)
(* From a draft to a payment batch: draft/, request/, batch/, batches/,    *)
(* validation/ and import/.  A text is "" or " " when it is blank; an      *)
(* amount is kept as text until BigInt reads it.                           *)
(***************************************************************************)
EXTENDS Subject

Blank(text) == text \in {"", " "}

\* BigInt of the amounts in use; -1 where it throws ("1.5", "x").
BigIntOf(text) == CASE text \in {"", " ", "0"} -> 0 [] text \in {"1", "01"} -> 1 [] text = "2" -> 2 [] OTHER -> -1

PayrollDraftEntry(recipients, amounts, assets, notes) ==
  [recipientId : recipients, amount : amounts, asset : assets, note : notes]

NoNote == "undefined"

\* The first entry with the same value of a field keeps it; the later ones repeat it.
RepeatsAt(v, i) == ~Blank(v[i]) /\ \E j \in 1..(i - 1) : v[j] = v[i]

-----------------------------------------------------------------------------
\* Mutant: the asset of an entry is not looked at.
entryErrors_AnyAsset(s, i) ==
  AllOf(<< <<Blank(s[i].recipientId), "INVALID_RECIPIENT">>,
           <<RepeatsAt([k \in DOMAIN s |-> s[k].recipientId], i), "DUPLICATE_RECIPIENT">>,
           <<Blank(s[i].amount) \/ BigIntOf(s[i].amount) <= 0, "INVALID_AMOUNT">> >>)

\* DraftBuilder.validate: the errors and warnings, each with its entry (0: the draft).
entryErrors(s, i) ==
  AllOf(<< <<Blank(s[i].recipientId), "INVALID_RECIPIENT">>,
           <<RepeatsAt([k \in DOMAIN s |-> s[k].recipientId], i), "DUPLICATE_RECIPIENT">>,
           <<Blank(s[i].amount) \/ BigIntOf(s[i].amount) <= 0, "INVALID_AMOUNT">>,
           <<Blank(s[i].asset), "MISSING_ASSET">> >>)

LARGE_DRAFT_THRESHOLD == 500

draftReport(s) ==
  IF s = <<>> THEN [errors |-> {<<0, "EMPTY_DRAFT">>}, warnings |-> {}]
  ELSE [errors   |-> UNION {{<<i, code>> : code \in entryErrors(s, i)} : i \in DOMAIN s},
        warnings |-> {<<i, "EMPTY_NOTE">> : i \in {j \in DOMAIN s : Blank(s[j].note)}}
          \cup {<<0, code>> : code \in
                  AllOf(<< <<Cardinality({s[i].asset : i \in DOMAIN s} \ {"", " "}) > 1, "MIXED_ASSETS">>,
                           <<Len(s) > LARGE_DRAFT_THRESHOLD, "LARGE_DRAFT">> >>)}]

\* DraftBuilder.summary: an entry without an asset, or whose amount BigInt refuses, adds nothing.
draftTotals(s) ==
  [asset \in {s[i].asset : i \in DOMAIN s} \ {""} |->
     SumBy(LAMBDA e : IF e.asset = asset /\ BigIntOf(e.amount) > 0 THEN BigIntOf(e.amount) ELSE 0, s)]

\* DraftBuilder.build: throws unless there are no errors; a blank note is dropped.
buildDraft(s) == [i \in DOMAIN s |-> IF Blank(s[i].note) THEN [s[i] EXCEPT !.note = NoNote] ELSE s[i]]

\* EncryptedDraftSerializer.validateDraftForSerialization; parseFloat reads "1.5".
serializeError(s) ==
  FirstOf(<< <<s = <<>>, "empty">>,
             <<Some(LAMBDA e : Blank(e.recipientId), s), "recipientId">>,
             <<Some(LAMBDA e : Blank(e.amount), s), "amount">>,
             <<Some(LAMBDA e : Blank(e.asset), s), "asset">>,
             <<Some(LAMBDA e : e.amount \in {"0", "x"}, s), "invalid amount">> >>, "ok")

\* DraftSerializer: an exported text is the version and the entries; the rest is time and label.
CURRENT_DRAFT_VERSION == 1
exportDraft(s) == [json |-> TRUE, version |-> CURRENT_DRAFT_VERSION, entries |-> s]
simpleChecksum(text) == text

\* importDraft: the error, or the entries with the entries warned about ("throws": BigInt).
importDraft(text, expected) ==
  FirstOf(<< <<~text.json, "INVALID_JSON">>,
             <<text.version = 0, "MISSING_VERSION">>,
             <<expected # simpleChecksum(text), "CHECKSUM_MISMATCH">>,
             <<Some(LAMBDA e : BigIntOf(e.amount) < 0, text.entries), "throws">>,
             <<text.version > CURRENT_DRAFT_VERSION, "newer">>,
             <<Some(LAMBDA e : Blank(e.recipientId) \/ BigIntOf(e.amount) <= 0 \/ Blank(e.asset), text.entries), "warned">> >>,
          "clean")

-----------------------------------------------------------------------------
\* BatchPayloadBuilder.validate, over amounts that are numbers.
BatchPaymentEntries(s) ==
  [i \in DOMAIN s |-> [recipient |-> s[i].recipientId, amount |-> BigIntOf(s[i].amount), asset |-> s[i].asset,
                       employeeId |-> s[i].recipientId]]

batchErrors(b) ==
  IF b = <<>> THEN {<<0, "EMPTY_BATCH">>}
  ELSE UNION {{<<i, code>> : code \in
         AllOf(<< <<Blank(b[i].recipient), "INVALID_RECIPIENT">>,
                  <<RepeatsAt([k \in DOMAIN b |-> b[k].recipient], i), "DUPLICATE_RECIPIENT">>,
                  <<b[i].amount <= 0, "INVALID_AMOUNT">>,
                  <<Blank(b[i].asset), "MISSING_ASSET">> >>)} : i \in DOMAIN b}

batchTotal(b) == SumBy(LAMBDA e : e.amount, b)

\* EmployeeBatchSchemaValidator.validate of the same people, whose ids are checked as well.
employeeBatchErrors(b) ==
  IF b = <<>> THEN {<<0, "EMPTY_EMPLOYEE_BATCH">>}
  ELSE UNION {{<<i, code>> : code \in
         AllOf(<< <<Blank(b[i].employeeId), "MISSING_EMPLOYEE_ID">>,
                  <<RepeatsAt([k \in DOMAIN b |-> b[k].employeeId], i), "DUPLICATE_EMPLOYEE_ID">>,
                  <<Blank(b[i].recipient), "INVALID_RECIPIENT">>,
                  <<RepeatsAt([k \in DOMAIN b |-> b[k].recipient], i), "DUPLICATE_RECIPIENT">>,
                  <<b[i].amount <= 0, "INVALID_SALARY">>,
                  <<Blank(b[i].asset), "MISSING_ASSET">> >>)} : i \in DOMAIN b}

\* Mutant: only neighbours are compared.
detectDuplicates_Neighbours(b, key) ==
  {{i, i + 1} : i \in {j \in 1..(Len(b) - 1) : b[j][key] = b[j + 1][key]}}

\* detectDuplicates by one key: the groups of entries with the same value, blank ones too.
detectDuplicates(b, key) ==
  {g \in {{j \in DOMAIN b : b[j][key] = b[i][key]} : i \in DOMAIN b} : Cardinality(g) > 1}

\* detectDuplicateEmployeeRecords: ids trimmed and in lower case; one without an id is left out.
EmployeeKey(id) == IF id \in {"A", "a ", "a"} THEN "a" ELSE id
employeeDuplicateErrors(b) ==
  {i \in DOMAIN b : /\ ~Blank(b[i].employeeId)
                    /\ \E j \in 1..(i - 1) : EmployeeKey(b[j].employeeId) = EmployeeKey(b[i].employeeId)}

\* PayrollRequestBuilder.validate.
requestErrors(b) ==
  IF b = <<>> THEN {<<0, "EMPTY_REQUEST">>}
  ELSE batchErrors(b) \cup {<<i, "DUPLICATE_EMPLOYEE_ID">> : i \in employeeDuplicateErrors(b)}

\* The request builder: its entries, the overrides by index, and the context of derived keys.
BuilderStart == [entries |-> <<>>, overrides |-> <<>>, context |-> "c1"]
NoKey == ""
OverrideAt(o, i) == IF i \in DOMAIN o THEN o[i] ELSE NoKey

\* Mutant: update keeps the override.
builderCall_Sticky(b, call) ==
  CASE call.op = "add" -> [b EXCEPT !.entries = Append(@, call.entry)]
    [] call.op = "update" -> [b EXCEPT !.entries[call.index] = call.entry]
    [] call.op = "remove" -> [b EXCEPT !.entries = RemoveAt(@, call.index), !.overrides = [@ EXCEPT ![call.index] = NoKey]]
    [] call.op = "context" -> [b EXCEPT !.context = "c2", !.overrides = [i \in DOMAIN @ |-> NoKey]]
    [] call.op = "override" -> [b EXCEPT !.overrides = [@ EXCEPT ![call.index] = call.key]]
    [] OTHER -> b

\* One call.  An index outside the entries throws and changes nothing.
\* remove drops the override at its index and does not move those of the later entries.
builderCall(b, call) ==
  LET inRange == call.index \in DOMAIN b.entries IN
  CASE call.op = "add" -> [b EXCEPT !.entries = Append(@, call.entry)]
    [] call.op = "update" /\ inRange ->
         [b EXCEPT !.entries[call.index] = call.entry, !.overrides = [@ EXCEPT ![call.index] = NoKey]]
    [] call.op = "remove" /\ inRange ->
         [b EXCEPT !.entries = RemoveAt(@, call.index), !.overrides = [@ EXCEPT ![call.index] = NoKey]]
    [] call.op = "clear" -> [b EXCEPT !.entries = <<>>, !.overrides = [i \in DOMAIN @ |-> NoKey]]
    [] call.op = "context" -> [b EXCEPT !.context = "c2", !.overrides = [i \in DOMAIN @ |-> NoKey]]
    [] call.op = "override" /\ inRange -> [b EXCEPT !.overrides = [@ EXCEPT ![call.index] = call.key]]
    [] OTHER -> b

BuilderAfter(calls) ==
  FoldLeft(builderCall, [BuilderStart EXCEPT !.overrides = [i \in 1..Len(calls) |-> NoKey]], calls)

deriveIdempotencyKey(entry, context) == <<entry, context>>

\* PayrollRequestBuilder.build: an empty override does not count.
idempotencyKeys(b) ==
  [i \in DOMAIN b.entries |->
     IF OverrideAt(b.overrides, i) # NoKey THEN <<b.overrides[i], "">> ELSE deriveIdempotencyKey(b.entries[i], b.context)]

-----------------------------------------------------------------------------
SmallEntries == PayrollDraftEntry({"", "a", "b"}, {"", "0", "1", "x"}, {"", "X"}, {NoNote, " "})

DraftInputs ==
  {<<>>} \cup {<<e, f>> : e, f \in SmallEntries}
    \cup {<<e, f, g>> : e, f, g \in PayrollDraftEntry({"", "a", "b"}, {"1", "1.5"}, {"X", "Y"}, {NoNote})}

Call(op, index, entry, key) == [op |-> op, index |-> index, entry |-> entry, key |-> key]

\* Each add brings an entry of its own, so that an entry can be recognised.
CallInputs ==
  LET calls == {Call("update", 1, "u1", ""), Call("update", 2, "u2", "")} \cup {Call("override", i, "", "k") : i \in {1, 2, 3}}
                 \cup {Call("remove", i, "", "") : i \in {1, 2}}
                 \cup {Call("context", 0, "", ""), Call("add", 0, "e3", ""), Call("clear", 0, "", "")}
  IN  {<<Call("add", 0, "e1", ""), Call("add", 0, "e2", "")>> \o c : c \in [1..3 -> calls]}

(***************************************************************************)
(* A draft that DraftBuilder accepts goes through the rest: the builders   *)
(* of requests and of batches accept it, the employee batch too, its       *)
(* totals add up to the batch total, it can be encrypted, and its export   *)
(* is imported without a warning (DraftBuilder.ts 101-276).                *)
(***************************************************************************)
DraftsGoThrough ==
  About("draft") =>
    LET s == subject.input
        b == BatchPaymentEntries(s)
        t == draftTotals(s)
    IN  draftReport(s).errors = {} =>
          /\ batchErrors(b) = {} /\ requestErrors(b) = {} /\ employeeBatchErrors(b) = {}
          /\ MapThenSumSet(LAMBDA asset : t[asset], DOMAIN t) = batchTotal(b)
          /\ serializeError(buildDraft(s)) = "ok"
          /\ LET text == exportDraft(buildDraft(s)) IN importDraft(text, simpleChecksum(text)) = "clean"

(***************************************************************************)
(* The batch builder reports a repeated recipient exactly where            *)
(* detectDuplicates puts a second or later entry into a group              *)
(* (deduplication.ts 110-148, BatchPayloadBuilder.ts 94-117).              *)
(***************************************************************************)
DuplicatesAgree ==
  About("draft") =>
    LET b == BatchPaymentEntries(subject.input)
        grouped == UNION {g \ {Min(g)} : g \in detectDuplicates(b, "recipient")}
    IN  {i \in DOMAIN b : <<i, "DUPLICATE_RECIPIENT">> \in batchErrors(b)} = {i \in grouped : ~Blank(b[i].recipient)}

(***************************************************************************)
(* A key that was set by hand stays with the entry it was set for until    *)
(* that entry, or the context of the run, changes or the builder is        *)
(* cleared, whatever the calls on other entries (PayrollRequestBuilder.ts  *)
(* 63-114).  Entries behind a removed one are left out: they move up and   *)
(* their keys do not (line 85), so a key set for one of them is lost or    *)
(* goes to another payment.  That clear drops the keys is what the code    *)
(* does (95); its doc says that they are preserved (92).                   *)
(***************************************************************************)
KeysFollowEntries ==
  About("builder") =>
    LET calls == subject.input
        before(n) == BuilderAfter(SubSeq(calls, 1, n - 1))
        hasEntry(n) == calls[n].index \in DOMAIN before(n).entries
        dropsAll(n) == calls[n].op \in {"context", "clear"}
        moves(n, i) == calls[n].op = "remove" /\ calls[n].index <= i /\ calls[n].index < Len(before(n).entries) /\ hasEntry(n)
        settles(n, i) == \/ dropsAll(n)
                         \/ calls[n].op \in {"update", "override"} /\ calls[n].index = i /\ hasEntry(n)
                         \/ calls[n].op = "add" /\ i = Len(before(n).entries) + 1
        b == BuilderAfter(calls)
    IN  \A i \in DOMAIN b.entries :
          (\A n \in DOMAIN calls : moves(n, i) => \E m \in n..Len(calls) : dropsAll(m)) =>
            LET last == Max({n \in DOMAIN calls : settles(n, i)}) IN
            idempotencyKeys(b)[i] =
              IF calls[last].op = "override" THEN <<calls[last].key, "">> ELSE deriveIdempotencyKey(b.entries[i], b.context)
=============================================================================
