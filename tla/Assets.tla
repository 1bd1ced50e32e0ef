------------------------------- MODULE Assets -------------------------------
(***************************************************************************)
(* assets/assetIdentity.ts, supportedAssets.ts, AssetRegistry.ts and       *)
(* allowlist.ts: how an asset is named and looked up, and                  *)
(* schedules/scheduleNormalizer.ts: which cycle a payroll belongs to.      *)
(* An identifier is its parts: the segments around ":", each with the case *)
(* it was written in.                                                      *)
(***************************************************************************)
EXTENDS Subject

\* A segment: its letters and whether it was written in lower case.
Segment(text, lower) == [text |-> text, lower |-> lower]
Segments == [text : {"", "XLM", "USD", "G1", "C1", "?"}, lower : BOOLEAN]

isValidIssuer(s) == s.text = "G1" /\ ~s.lower
isContractId(s) == s.text = "C1" /\ ~s.lower
AssetCode(s) == s.text \in {"XLM", "USD", "G1", "C1"}

Refused(code) == [ok |-> FALSE, code |-> code]

\* Mutant: the native alias is looked up by the code alone.
normalizeAssetIdentity_NativeByCode(segments, coerceCodeCase) ==
  FirstOf(<< <<segments[1].text = "", Refused("EMPTY_INPUT")>>,
             <<segments[1].text = "XLM", [ok |-> TRUE, kind |-> "native", id |-> <<"native">>]>>,
             <<Len(segments) # 2, Refused("MISSING_ISSUER")>> >>,
          [ok |-> TRUE, kind |-> "issued", id |-> <<segments[1].text, segments[2].text>>])

\* An identity: native, a contract or a code with its issuer; refused with the first thing wrong.
normalizeAssetIdentity(segments, coerceCodeCase) ==
  LET first == segments[1]
      last  == segments[Len(segments)]
  IN  FirstOf(<< <<Len(segments) = 1 /\ first.text = "", Refused("EMPTY_INPUT")>>,
                 <<Len(segments) = 1 /\ first.text = "XLM", [ok |-> TRUE, kind |-> "native", id |-> <<"native">>]>>,
                 <<Len(segments) > 2, Refused("AMBIGUOUS_SEPARATOR")>>,
                 <<Len(segments) = 1 /\ isContractId(first), [ok |-> TRUE, kind |-> "contract", id |-> <<first.text>>]>>,
                 <<Len(segments) = 1, Refused("MISSING_ISSUER")>>,
                 <<first.text = "", Refused("INVALID_CODE")>>,
                 <<~AssetCode(first), Refused("INVALID_CODE_CHARACTERS")>>,
                 <<first.lower /\ ~coerceCodeCase, Refused("INVALID_CODE_CHARACTERS")>>,
                 <<last.text = "", Refused("MISSING_ISSUER")>>,
                 <<~isValidIssuer(last), Refused("INVALID_ISSUER")>> >>,
              [ok |-> TRUE, kind |-> "issued", id |-> <<first.text, last.text>>])

assetIdentitiesEqual(a, b) ==
  LET x == normalizeAssetIdentity(a, TRUE)
      y == normalizeAssetIdentity(b, TRUE)
  IN  IF x.ok /\ y.ok THEN x.id = y.id ELSE FALSE

\* The identifier a canonical asset is written back as.
Canonical(asset) == [i \in DOMAIN asset.id |-> Segment(IF asset.id[i] = "native" THEN "XLM" ELSE asset.id[i], FALSE)]

-----------------------------------------------------------------------------
\* An entry of the supported list: a field that is absent has the default, one of the wrong type throws.
\* decimals -2 stands for a value that is not an integer in range, -1 for none.
normalizeSupportedAsset(raw) ==
  IF raw.symbol = "" \/ raw.decimals = -2 THEN Refused("VALIDATION_ERROR")
  ELSE [ok |-> TRUE, symbol |-> raw.symbol, decimals |-> IF raw.decimals = -1 THEN 7 ELSE raw.decimals, enabled |-> raw.enabled]

\* One bad entry refuses the whole list; of two entries with a symbol the first stays.
normalizeSupportedAssets(raws) ==
  LET entries == [i \in DOMAIN raws |-> normalizeSupportedAsset(raws[i])] IN
  IF Some(LAMBDA e : ~e.ok, entries) THEN Refused("VALIDATION_ERROR")
  ELSE [ok |-> TRUE,
        assets |-> FoldLeft(LAMBDA acc, e : IF Some(LAMBDA a : a.symbol = e.symbol, acc) THEN acc ELSE Append(acc, e), <<>>, entries)]

getEnabledSupportedAssets(raws) ==
  LET all == normalizeSupportedAssets(raws) IN
  IF all.ok THEN SelectSeq(all.assets, LAMBDA a : a.enabled) ELSE <<>>

-----------------------------------------------------------------------------
\* AssetRegistry: the entries by identifier, and the identifier each symbol leads to.
EmptyRegistry == [byId |-> <<>>, bySymbol |-> <<>>]

Put(f, k, v) == [x \in DOMAIN f \union {k} |-> IF x = k THEN v ELSE f[x]]
Without(f, k) == [x \in DOMAIN f \ {k} |-> f[x]]

add(reg, id, symbol) == [byId |-> Put(reg.byId, id, symbol), bySymbol |-> Put(reg.bySymbol, symbol, id)]

\* Mutant: the symbol the asset had before keeps leading to it.
register_KeepsSymbol(reg, id, symbol) == add(reg, id, symbol)

\* The symbol the identifier had is forgotten, whoever it leads to now.
register(reg, id, symbol) ==
  LET forgotten == IF id \in DOMAIN reg.byId THEN [reg EXCEPT !.bySymbol = Without(@, reg.byId[id])] ELSE reg
  IN  add(forgotten, id, symbol)

remove(reg, id) ==
  IF id \notin DOMAIN reg.byId THEN reg
  ELSE [byId |-> Without(reg.byId, id), bySymbol |-> Without(reg.bySymbol, reg.byId[id])]

\* The identifier an identifier or a symbol leads to, "" for none.
get(reg, idOrSymbol) ==
  IF idOrSymbol \in DOMAIN reg.byId THEN idOrSymbol
  ELSE IF idOrSymbol \in DOMAIN reg.bySymbol /\ reg.bySymbol[idOrSymbol] \in DOMAIN reg.byId THEN reg.bySymbol[idOrSymbol]
  ELSE ""

getAssetAllowlist(reg, ids) ==
  FoldLeft(LAMBDA acc, id : IF get(reg, id) = "" \/ get(reg, id) \in ToSet(acc) THEN acc ELSE Append(acc, get(reg, id)), <<>>, ids)

AfterCalls(calls) ==
  FoldLeft(LAMBDA reg, c : IF c.op = "register" THEN register(reg, c.id, c.symbol) ELSE remove(reg, c.id), EmptyRegistry, calls)

-----------------------------------------------------------------------------
\* A small calendar: a day has DayLength instants, day 0 is a Wednesday, and the months
\* that are looked at are 31 and 28 days long.
DayLength == 2
Month1 == 31
Month2 == 28
DayOf(t) == t \div DayLength
MonthStart(t) == IF DayOf(t) < Month1 THEN 0 ELSE Month1
MonthEnd(t) == (IF DayOf(t) < Month1 THEN Month1 ELSE Month1 + Month2) * DayLength - 1
getUTCDay(t) == (DayOf(t) + 3) % 7      \* 0 is Sunday

\* Mutant: a Sunday is taken for the first day of its week.
weekStart_SundayFirst(t) == (DayOf(t) - (getUTCDay(t) - 1)) * DayLength

weekStart(t) == (DayOf(t) - ((getUTCDay(t) + 6) % 7)) * DayLength

\* Every frequency but the weekly one gets the calendar month.
computeCycleBounds(t, frequency) ==
  IF frequency = "weekly" THEN [start |-> weekStart(t), end |-> weekStart(t) + 7 * DayLength - 1]
  ELSE [start |-> MonthStart(t) * DayLength, end |-> MonthEnd(t)]

NoTime == -1

normalizePayrollSchedule(input, now) ==
  LET execution == IF input.date = NoTime THEN now ELSE input.date
      cutoff    == IF input.cutoff # NoTime THEN input.cutoff ELSE execution - input.leadTime
  IN  [execution |-> execution, cutoff |-> cutoff, cycle |-> computeCycleBounds(execution, input.frequency),
       isCutoffPassed |-> cutoff - now <= 0]

-----------------------------------------------------------------------------
IdentityInputs == [a : SeqOf(Segments, 2) \ {<<>>}, b : {<<Segment("USD", TRUE), Segment("G1", FALSE)>>, <<Segment("XLM", TRUE)>>}]

SupportedInputs == [list : SeqOf([symbol : {"", "XLM", "USD"}, decimals : {-2, -1, 6}, enabled : BOOLEAN], 2)]

RegistryInputs ==
  [calls : SeqOf([op : {"register", "remove"}, id : {"i1", "i2"}, symbol : {"s", "t"}], 4)]

ScheduleInputs ==
  [input : [date : {NoTime} \union 20..80, cutoff : {NoTime, 30, 60}, leadTime : {0, 3}, frequency : {"weekly", "monthly", "bi_weekly"}],
   now : {28, 62}]

\* An identity that is accepted is a fixed point: the canonical form reads back as itself,
\* two spellings are equal exactly when they canonicalise alike, and an issued asset is
\* never taken for the native one; a list of supported assets names a symbol once.
IdentityIsCanonical ==
  /\ About("identity") =>
       LET i == subject.input
           x == normalizeAssetIdentity(i.a, TRUE)
       IN  x.ok =>
             /\ normalizeAssetIdentity(Canonical(x), FALSE) = x
             /\ assetIdentitiesEqual(i.a, Canonical(x))
             /\ x.kind = "native" <=> Len(i.a) = 1 /\ i.a[1].text = "XLM"
             /\ assetIdentitiesEqual(i.a, i.b) <=> assetIdentitiesEqual(i.b, i.a)
  /\ About("supported") =>
       LET all == normalizeSupportedAssets(subject.input.list)
           on  == getEnabledSupportedAssets(subject.input.list)
       IN  all.ok => \A k \in DOMAIN on : Count(LAMBDA a : a.symbol = on[k].symbol, all.assets) = 1

\* Whatever is registered, re-registered and removed, a symbol never leads to an asset
\* that is gone or that carries another symbol (_byId and _bySymbol are two maps).
SymbolsLeadHome ==
  About("assetcalls") =>
    LET reg == AfterCalls(subject.input.calls) IN
    /\ \A s \in DOMAIN reg.bySymbol : reg.bySymbol[s] \in DOMAIN reg.byId /\ reg.byId[reg.bySymbol[s]] = s
    /\ LET allowed == getAssetAllowlist(reg, <<"i1", "s", "t", "i2">>) IN
       ToSet(allowed) = DOMAIN reg.byId /\ Len(allowed) = Cardinality(DOMAIN reg.byId)

\* The cycle of a payroll holds the moment it executes, and two executions have the same
\* cycle or cycles that do not overlap.
CyclesTile ==
  About("schedule") =>
    LET i == subject.input
        x == normalizePayrollSchedule(i.input, i.now)
        y == computeCycleBounds(i.now, i.input.frequency)
    IN  /\ x.cycle.start <= x.execution /\ x.execution <= x.cycle.end
        /\ x.cycle = y \/ x.cycle.end < y.start \/ y.end < x.cycle.start
=============================================================================
