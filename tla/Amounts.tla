------------------------------- MODULE Amounts -------------------------------
(***************************************************************************)
(* assets/amountParsing.ts, amountNormalization.ts, amountRounding.ts,     *)
(* decimals.ts, formatters.ts, payroll/minimumAmount.ts and the amounts of *)
(* payroll/withholdingConfig.ts and payoutThresholdValidator.ts: the SDK   *)
(* reads an amount in four ways and limits it in three.  A text is a sign, *)
(* the digits before and after the point, and whether it has one; junk     *)
(* stands for any other character left after the symbol, the currency      *)
(* signs and the commas are taken away.                                    *)
(***************************************************************************)
EXTENDS Subject

MaxSafeInteger == 98      \* bound: stands for Number.MAX_SAFE_INTEGER among whole parts of two digits
RoundingModes == {"truncate", "half_up", "ceil", "floor"}

ValueOf(digits) ==
  LET value[k \in 0..Len(digits)] == IF k = 0 THEN 0 ELSE 10 * value[k - 1] + digits[k]
  IN  value[Len(digits)]
Zeros(digits) == Every(LAMBDA d : d = 0, digits)
padEnd(digits, n) == digits \o [k \in 1..(IF n > Len(digits) THEN n - Len(digits) ELSE 0) |-> 0]

getDecimalScaleFactor(decimals) == 10^decimals

\* Mutant: five is rounded down.
applyRounding_HalfDown(excessDigit, frac, mode) ==
  frac + (IF (mode = "half_up" /\ excessDigit > 5) \/ (mode = "ceil" /\ excessDigit > 0) THEN 1 ELSE 0)

applyRounding(excessDigit, frac, mode) ==
  frac + (IF (mode = "half_up" /\ excessDigit >= 5) \/ (mode = "ceil" /\ excessDigit > 0) THEN 1 ELSE 0)

Failed(code) == [ok |-> FALSE, code |-> code, amount |-> 0, wasRounded |-> FALSE]
Parsed(amount, wasRounded) == [ok |-> TRUE, code |-> "", amount |-> amount, wasRounded |-> wasRounded]

\* bounds = <<min, max>>; -1: none.
checkAmountBounds(amount, bounds) ==
  AllOf(<< <<bounds[1] # -1 /\ amount < bounds[1], "BELOW_MINIMUM">>,
           <<bounds[2] # -1 /\ amount > bounds[2], "EXCEEDS_MAXIMUM">> >>)

isEffectivelyZero(t) == (t.whole = <<0>> \/ t.whole = <<>>) /\ Zeros(t.frac)

\* The whole and the fraction after rounding.  With no decimals the carry stays in the fraction
\* too: slice(-0) keeps the digit.
roundedParts(t, decimals, mode) ==
  LET kept == ValueOf(padEnd(SubSeq(t.frac, 1, decimals), decimals))
      adjusted == applyRounding(t.frac[decimals + 1], kept, mode)
      scale == getDecimalScaleFactor(decimals)
      whole == ValueOf(t.whole)
  IN  IF Len(t.frac) <= decimals THEN <<whole, ValueOf(padEnd(t.frac, decimals))>>
      ELSE IF adjusted >= scale THEN <<whole + 1, IF decimals = 0 THEN adjusted ELSE adjusted % scale>>
      ELSE <<whole, adjusted>>

parsePayrollAmount(t, decimals, mode, bounds) ==
  LET parts  == roundedParts(t, decimals, mode)
      amount == parts[1] * getDecimalScaleFactor(decimals) + parts[2]
      out    == checkAmountBounds(amount, bounds)
      digits == t.whole # <<>> \/ t.frac # <<>>
      code   == FirstOf(<< <<~t.junk /\ ~digits /\ ~t.dot /\ ~t.neg, "EMPTY_INPUT">>,
                           <<t.junk \/ ~digits, "INVALID_FORMAT">>,
                           <<t.neg, "NEGATIVE_VALUE">>,
                           <<isEffectivelyZero(t), "ZERO_VALUE">>,
                           <<parts[1] > MaxSafeInteger, "OVERFLOW">>,
                           <<"BELOW_MINIMUM" \in out, "BELOW_MINIMUM">>,
                           <<"EXCEEDS_MAXIMUM" \in out, "EXCEEDS_MAXIMUM">> >>, "")
  IN  IF code = "" THEN Parsed(amount, Len(t.frac) > decimals) ELSE Failed(code)

\* A bigint is taken in base units, anything else through its text.
normalizeBaseUnits(n, bounds) ==
  LET out == checkAmountBounds(n, bounds)
  IN  FirstOf(<< <<n < 0, Failed("NEGATIVE_VALUE")>>, <<n = 0, Failed("ZERO_VALUE")>>,
                 <<"BELOW_MINIMUM" \in out, Failed("BELOW_MINIMUM")>>,
                 <<"EXCEEDS_MAXIMUM" \in out, Failed("EXCEEDS_MAXIMUM")>> >>, Parsed(n, FALSE))

normalizeCanonicalAmount(input, decimals, mode, bounds) ==
  IF input.kind = "bigint" THEN normalizeBaseUnits(input.n, bounds)
  ELSE parsePayrollAmount(input.text, decimals, mode, bounds)

\* Mutant: the fraction is not padded to the precision.
parseAmount_Unpadded(t, decimals, strict) ==
  IF t.junk \/ t.neg \/ (t.whole = <<>> /\ t.frac = <<>>) THEN Failed("unreadable")
  ELSE Parsed(ValueOf(t.whole) * getDecimalScaleFactor(decimals) + ValueOf(t.frac), FALSE)

\* formatters.ts: what is cut off is lost without rounding; a text it cannot read is thrown
\* unless strict, which yields 0.
parseAmount(t, decimals, strict) ==
  LET sign == IF t.neg THEN -1 ELSE 1
      frac == ValueOf(padEnd(SubSeq(t.frac, 1, IF Len(t.frac) > decimals THEN decimals ELSE Len(t.frac)), decimals))
  IN  IF t.junk \/ (t.whole = <<>> /\ t.frac = <<>>) THEN IF strict THEN Parsed(0, FALSE) ELSE Failed("unreadable")
      ELSE IF t.dot /\ t.whole = <<>> /\ t.neg THEN Failed("SyntaxError")
      ELSE IF ~t.dot THEN Parsed(sign * ValueOf(t.whole) * getDecimalScaleFactor(decimals), FALSE)
      ELSE Parsed(sign * ValueOf(t.whole) * getDecimalScaleFactor(decimals) + frac, FALSE)

\* A raw amount shown with all its decimals: the text formatAmount prints and parse reads back.
formatAmount(amount, decimals) ==
  LET scale == getDecimalScaleFactor(decimals)
      digit(n, k) == (n \div 10^k) % 10
      whole == amount \div scale
  IN  [neg |-> FALSE, junk |-> FALSE, dot |-> decimals > 0,
       whole |-> IF whole > 9 THEN <<digit(whole, 1), digit(whole, 0)>> ELSE <<whole>>,
       frac |-> [k \in 1..decimals |-> digit(amount, decimals - k)]]

-----------------------------------------------------------------------------
roundAmount(amount, source, target, mode) ==
  LET divisor == getDecimalScaleFactor(source - target)
      quotient == amount \div divisor
      rest == amount % divisor
      up == (mode = "half_up" /\ rest >= divisor \div 2) \/ (mode = "ceil" /\ rest > 0)
  IN  IF target >= source THEN Parsed(amount * getDecimalScaleFactor(target - source), FALSE)
      ELSE Parsed(quotient + (IF up THEN 1 ELSE 0), rest # 0)

convertAmountPrecision(amount, source, target, mode) == roundAmount(amount, source, target, mode)

roundParsedAmount(t, source, target, mode) ==
  LET p == parsePayrollAmount(t, source, mode, <<-1, -1>>)
  IN  IF p.ok THEN convertAmountPrecision(p.amount, source, target, mode) ELSE p

roundToIncrement(amount, increment) ==
  IF increment <= 0 THEN Failed("Increment must be positive") ELSE Parsed(amount - (amount % increment), amount % increment # 0)

canRepresentExactly(amount, source, target) ==
  IF target >= source THEN TRUE ELSE amount % getDecimalScaleFactor(source - target) = 0

-----------------------------------------------------------------------------
\* minimumAmount.ts: the digits beyond the precision are cut off.
parseToBaseUnits(input, decimals) ==
  LET t == input.text
      units == ValueOf(t.whole) * getDecimalScaleFactor(decimals)
               + ValueOf(padEnd(SubSeq(t.frac, 1, IF Len(t.frac) > decimals THEN decimals ELSE Len(t.frac)), decimals))
      sized(n) == [units |-> n, isNull |-> FALSE, status |-> IF n < 0 THEN "negative_amount" ELSE IF n = 0 THEN "zero_amount" ELSE ""]
      none(s) == [units |-> 0, isNull |-> TRUE, status |-> s]
  IN  IF input.kind = "bigint" THEN sized(input.n)
      ELSE FirstOf(<< <<t.neg, none("negative_amount")>>,
                      <<t.junk \/ t.whole = <<>> \/ (t.dot /\ t.frac = <<>>), none("invalid_amount")>>,
                      <<t.whole = <<0>> /\ Zeros(t.frac), sized(0)>> >>,
                   [sized(units) EXCEPT !.status = ""])

validatePayrollEntryMinimumAmount(input, decimals, minRequired, allowZero) ==
  LET p == parseToBaseUnits(input, decimals)
      n == p.units
  IN  FirstOf(<< <<p.status = "invalid_amount" \/ p.isNull, "invalid_amount">>,
                 <<p.status = "negative_amount" \/ n < 0, "negative_amount">>,
                 <<n = 0 /\ allowZero, "null">>,
                 <<n = 0, "zero_amount">>,
                 <<n < minRequired, "below_minimum">> >>, "null")

validateBatchPayrollMinimumAmounts(inputs, decimals, minRequired, allowZero) ==
  LET issue(i) == validatePayrollEntryMinimumAmount(i, decimals, minRequired, allowZero)
      of(s) == Count(LAMBDA i : issue(i) = s, inputs)
  IN  [isValid |-> Every(LAMBDA i : issue(i) = "null", inputs), validCount |-> of("null"),
       counts |-> [s \in {"below_minimum", "zero_amount", "negative_amount", "invalid_amount"} |-> of(s)]]

\* withholdingConfig.ts: digits beyond the precision make the amount invalid.
normalizeWithheld(n) ==
  IF n < 0 THEN Failed("negative") ELSE IF n = 0 THEN Failed("zero") ELSE Parsed(n, FALSE)

parseBaseUnitAmount(input, decimals) ==
  LET t == input.text
      units == ValueOf(t.whole) * getDecimalScaleFactor(decimals) + ValueOf(padEnd(t.frac, decimals))
  IN  IF input.kind = "bigint" THEN normalizeWithheld(input.n)
      ELSE IF t.junk \/ t.whole = <<>> \/ (t.dot /\ t.frac = <<>>) THEN Failed("invalid")
      ELSE IF t.neg THEN Failed("negative")
      ELSE IF Len(t.frac) > decimals THEN Failed("invalid")
      ELSE IF units = 0 THEN Failed("zero") ELSE Parsed(units, FALSE)

\* Mutant: an amount equal to the minimum is refused.
validatePayoutThreshold_Strict(amount, asset, thresholds, defaultThreshold, rejectUnknownAssets) ==
  LET known == asset \in DOMAIN thresholds
      least == IF known THEN thresholds[asset] ELSE defaultThreshold
  IN  IF amount <= least THEN "BELOW_THRESHOLD" ELSE IF ~known /\ rejectUnknownAssets THEN "UNKNOWN_ASSET" ELSE ""

\* payoutThresholdValidator.ts: thresholds maps an asset to its minimum.
validatePayoutThreshold(amount, asset, thresholds, defaultThreshold, rejectUnknownAssets) ==
  LET known == asset \in DOMAIN thresholds
      least == IF known THEN thresholds[asset] ELSE defaultThreshold
  IN  FirstOf(<< <<amount < 0, "NEGATIVE_AMOUNT">>,
                 <<amount = 0, "ZERO_AMOUNT">>,
                 <<~known /\ rejectUnknownAssets, "UNKNOWN_ASSET">>,
                 <<amount < least, "BELOW_THRESHOLD">> >>, "")

validatePayoutThresholdBatch(entries, thresholds, defaultThreshold, rejectUnknownAssets) ==
  LET code(e) == validatePayoutThreshold(e.amount, e.asset, thresholds, defaultThreshold, rejectUnknownAssets)
      violations == SelectSeq([i \in DOMAIN entries |-> code(entries[i])], LAMBDA c : c # "")
  IN  [isValid |-> violations = <<>>, violationCount |-> Len(violations),
       counts |-> [c \in {"BELOW_THRESHOLD", "ZERO_AMOUNT", "NEGATIVE_AMOUNT", "UNKNOWN_ASSET"} |-> Count(LAMBDA x : x = c, violations)]]

\* payoutCountValidator.ts: how many payouts a batch may hold; the entries beyond the limit are named.
validatePayoutCount(count, min, max) ==
  FirstOf(<< <<min < 0 \/ max < 0 \/ min > max, "INVALID_COUNT_BOUNDS">>,
             <<count < 0, "INVALID_PAYOUT_COUNT">>,
             <<count < min /\ count = 0, "EMPTY_PAYOUT_BATCH">>,
             <<count < min, "BELOW_MIN_COUNT">>,
             <<count > max, "ABOVE_MAX_COUNT">> >>, "")

validatePayoutCountForEntries(entries, min, max) ==
  LET code == validatePayoutCount(Len(entries), min, max)
  IN  [code |-> code, offending |-> IF code = "ABOVE_MAX_COUNT" THEN SubSeq(entries, max + 1, Len(entries)) ELSE <<>>]

-----------------------------------------------------------------------------
\* withholdingConfig.ts.  A rate is in units of the smallest allowed step, MaxRate of them at
\* most; "null" is an absent field, "bad" one of another type.
MaxRate == 3
NoRate == -9
BadRate == -8

\* Mutant: the cap is compared the wrong way round.
finalizeFixed_CapAbove(value, cap, decimals) ==
  LET c == parseBaseUnitAmount(cap, decimals)
  IN  IF cap.kind = "null" THEN "" ELSE IF ~c.ok THEN "CAP_INVALID" ELSE IF c.amount > value THEN "CAP_EXCEEDED" ELSE ""

finalizeFixed(value, cap, decimals) ==
  LET c == parseBaseUnitAmount(cap, decimals)
  IN  IF cap.kind = "null" THEN ""
      ELSE IF ~c.ok THEN "CAP_INVALID" ELSE IF c.amount < value THEN "CAP_EXCEEDED" ELSE ""

percentageError(c, o) ==
  FirstOf(<< <<c.amount.kind # "null", "AMOUNT_UNEXPECTED">>,
             <<c.rate = NoRate, "RATE_REQUIRED">>,
             <<c.rate = BadRate, "RATE_INVALID">>,
             <<c.rate < 0 \/ c.rate > MaxRate, "RATE_OUT_OF_RANGE">>,
             <<c.rate = 0 /\ ~o.allowZeroRate, "RATE_OUT_OF_RANGE">> >>, "")

fixedError(c, o, decimals) ==
  LET a == parseBaseUnitAmount(c.amount, decimals) IN
  IF c.rate # NoRate THEN "RATE_INVALID"
  ELSE IF c.amount.kind = "null" THEN "AMOUNT_REQUIRED"
  ELSE IF a.ok THEN finalizeFixed(a.amount, c.cap, decimals)
  ELSE IF a.code = "zero" /\ o.allowZeroAmount THEN finalizeFixed(0, c.cap, decimals)
  ELSE IF a.code = "negative" THEN "AMOUNT_NEGATIVE" ELSE IF a.code = "zero" THEN "AMOUNT_ZERO" ELSE "AMOUNT_INVALID"

validateWithholdingConfig(c, o, decimals) ==
  IF ~c.isObject THEN "CONFIG_REQUIRED"
  ELSE LET id == IF c.employeeId \in {"null", "bad"} THEN "" ELSE c.employeeId
           code == FirstOf(<< <<c.employeeId = "bad" \/ (o.requireEmployeeId /\ id = ""), "EMPLOYEE_REQUIRED">>,
                              <<o.expected # "" /\ id # o.expected, "EMPLOYEE_MISMATCH">>,
                              <<c.method = "", "METHOD_REQUIRED">>,
                              <<c.method \notin {"percentage", "fixed"}, "METHOD_UNSUPPORTED">>,
                              <<c.rounding \notin {"null", "floor", "ceil", "nearest"}, "ROUNDING_UNSUPPORTED">>,
                              <<c.jurisdiction \in {"", "bad"}, "JURISDICTION_INVALID">> >>, "")
       IN  IF code # "" THEN code
           ELSE IF c.method = "percentage" THEN percentageError(c, o) ELSE fixedError(c, o, decimals)

validateBatchWithholdingConfigs(configs, o, decimals) ==
  LET codes == [i \in DOMAIN configs |-> validateWithholdingConfig(configs[i], o, decimals)]
      bad   == {i \in DOMAIN codes : codes[i] # ""}
  IN  [isValid |-> bad = {}, invalidCount |-> Cardinality(bad), validCount |-> Len(configs) - Cardinality(bad),
       malformedCount |-> Cardinality({i \in bad : codes[i] = "CONFIG_REQUIRED"})]

-----------------------------------------------------------------------------
\* Bounds: whole parts of at most two digits, three digits after the point, the digits that
\* rounding tells apart.
NoText == [neg |-> FALSE, whole |-> <<>>, dot |-> FALSE, frac |-> <<>>, junk |-> FALSE]
TextInput(t) == [kind |-> "text", text |-> t, n |-> 0]
BigInput(n) == [kind |-> "bigint", text |-> NoText, n |-> n]
NullInput == [kind |-> "null", text |-> NoText, n |-> 0]

AmountTexts ==
  LET digits(S, n) == UNION {[1..k -> S] : k \in 0..n}
  IN  {[neg |-> g, whole |-> w, dot |-> d, frac |-> IF d THEN f ELSE <<>>, junk |-> j] :
         g, d \in BOOLEAN, j \in {FALSE}, w \in digits({0, 9}, 2), f \in digits({0, 1, 4, 5, 9}, 3)}
      \cup {[NoText EXCEPT !.junk = TRUE, !.whole = <<1>>]}

AmountInputs == {[text |-> t, decimals |-> d, mode |-> m] : t \in AmountTexts, d \in 0..2, m \in RoundingModes}

ThresholdInputs ==
  {[amounts |-> <<a, b>>, min |-> m, reject |-> r, known |-> k] : a, b \in -1..3, m \in 0..3, r, k \in BOOLEAN}

WithholdingInputs ==
  LET amounts == {NullInput} \cup {BigInput(n) : n \in -1..2}
                 \cup {TextInput([NoText EXCEPT !.whole = w, !.dot = TRUE, !.frac = f]) : w \in {<<0>>, <<1>>}, f \in {<<0>>, <<5>>, <<5, 5>>}}
      plain == [isObject |-> TRUE, employeeId |-> "e1", method |-> "fixed", rounding |-> "null",
                jurisdiction |-> "null", rate |-> NoRate, amount |-> NullInput, cap |-> NullInput]
      lax == [expected |-> "", requireEmployeeId |-> FALSE, allowZeroRate |-> FALSE, allowZeroAmount |-> FALSE]
  IN  {[config |-> [plain EXCEPT !.method = m, !.amount = a, !.cap = c, !.rate = r],
        options |-> [lax EXCEPT !.allowZeroRate = z, !.allowZeroAmount = z]] :
         m \in {"percentage", "fixed"}, a, c \in amounts, r \in {NoRate, BadRate, -1, 0, MaxRate, MaxRate + 1}, z \in BOOLEAN}
      \cup {[config |-> [plain EXCEPT !.isObject = b, !.employeeId = e, !.method = m, !.rounding = n, !.jurisdiction = j,
                                      !.amount = BigInput(1)],
             options |-> [lax EXCEPT !.expected = x, !.requireEmployeeId = q]] :
              b, q \in BOOLEAN, e \in {"null", "bad", "e1", "e2"}, m \in {"", "flat", "fixed"},
              n \in {"null", "ceil", "up"}, j \in {"null", "", "us"}, x \in {"", "e1"}}

NoLimits == <<-1, -1>>

(***************************************************************************)
(* The four readers agree.  A text with digits on both sides of its point  *)
(* and no more of them than the asset has decimals is one amount to        *)
(* parsePayrollAmount, parseAmount, parseToBaseUnits and                   *)
(* parseBaseUnitAmount, whatever the rounding; printing that amount and    *)
(* reading it again gives it back; and the payroll parser refuses what     *)
(* withholding refuses (amountParsing.ts 320-461, formatters.ts 77-178,    *)
(* minimumAmount.ts 186-245, withholdingConfig.ts 166-199).  "00" is the   *)
(* one spelling of zero the first and the third let through.               *)
(***************************************************************************)
ReadersAgree ==
  About("amount") =>
    LET i == subject.input
        t == i.text
        p == parsePayrollAmount(t, i.decimals, i.mode, NoLimits)
        w == parseBaseUnitAmount(TextInput(t), i.decimals)
        m == parseToBaseUnits(TextInput(t), i.decimals)
        f == parseAmount(t, i.decimals, FALSE)
        again == formatAmount(p.amount, i.decimals)
    IN  (~t.junk /\ t.whole # <<>> /\ (t.dot => t.frac # <<>>) /\ Len(t.frac) <= i.decimals /\ t.whole # <<0, 0>>) =>
          /\ p.ok <=> w.ok /\ ValueOf(t.whole) <= MaxSafeInteger
          /\ p.ok => /\ ~p.wasRounded
                     /\ p.amount = w.amount /\ p.amount = f.amount /\ p.amount = m.units
                     /\ parsePayrollAmount(again, i.decimals, i.mode, NoLimits).amount = p.amount
                     /\ parseAmount(again, i.decimals, FALSE).amount = p.amount
                     /\ normalizeCanonicalAmount(BigInput(p.amount), i.decimals, i.mode, NoLimits) = p
          /\ w.ok <=> validatePayrollEntryMinimumAmount(TextInput(t), i.decimals, 1, FALSE) = "null"

(***************************************************************************)
(* Rounding while parsing is rounding after parsing: a text read at the    *)
(* precision of the asset is the text read at full precision and brought   *)
(* to that precision by roundAmount, in every mode, and the parser says it *)
(* rounded exactly when an inexact conversion, or trailing zeros, were cut *)
(* (amountParsing.ts 244-278, 386-407; amountRounding.ts 115-318).  Two    *)
(* cases are excluded, both in the README: an asset without decimals, and  *)
(* CEIL when the first digit cut off is 0.                                 *)
(***************************************************************************)
RoundingAgrees ==
  About("amount") =>
    LET i == subject.input
        t == i.text
        full == 3
        p == parsePayrollAmount(t, i.decimals, i.mode, NoLimits)
        exact == parsePayrollAmount(t, full, i.mode, NoLimits)
        r == roundParsedAmount(t, full, i.decimals, i.mode)
    IN  (p.ok /\ exact.ok /\ i.decimals > 0 /\ ~(i.mode = "ceil" /\ p.wasRounded /\ t.frac[i.decimals + 1] = 0)) =>
          /\ p.amount = r.amount
          /\ r.wasRounded <=> ~canRepresentExactly(exact.amount, full, i.decimals)
          /\ r.wasRounded => p.wasRounded
          /\ ~r.wasRounded => roundAmount(p.amount, i.decimals, full, i.mode).amount = exact.amount
          /\ i.mode \in {"truncate", "floor"} =>
               p.amount * 10^(full - i.decimals) = roundToIncrement(exact.amount, 10^(full - i.decimals)).amount

(***************************************************************************)
(* The two minimum checks agree: with the same minimum an amount in base   *)
(* units passes validatePayrollEntryMinimumAmount exactly when it passes   *)
(* validatePayoutThreshold for a known asset, the batch forms count what   *)
(* the single forms report, and no batch valid for both pays nothing       *)
(* (minimumAmount.ts 254-407, payoutThresholdValidator.ts 107-230).        *)
(***************************************************************************)
MinimumsAgree ==
  About("threshold") =>
    LET i == subject.input
        thresholds == IF i.known THEN [a |-> i.min] ELSE <<>>
        entry(n) == validatePayoutThreshold(n, "a", thresholds, i.min, i.reject)
        batch == validatePayoutThresholdBatch([k \in 1..2 |-> [amount |-> i.amounts[k], asset |-> "a"]], thresholds, i.min, i.reject)
        mins == validateBatchPayrollMinimumAmounts([k \in 1..2 |-> BigInput(i.amounts[k])], 2, i.min, FALSE)
    IN  /\ \A k \in 1..2 : (i.known \/ ~i.reject) =>
             (entry(i.amounts[k]) = "" <=> validatePayrollEntryMinimumAmount(BigInput(i.amounts[k]), 2, i.min, FALSE) = "null")
        /\ (i.known \/ ~i.reject) => (batch.isValid <=> mins.isValid) /\ batch.violationCount = 2 - mins.validCount
        /\ batch.isValid => validatePayoutCountForEntries(i.amounts, 1, 2).code = "" /\ Min(ToSet(i.amounts)) > 0
        /\ batch.violationCount = batch.counts["BELOW_THRESHOLD"] + batch.counts["ZERO_AMOUNT"]
                                  + batch.counts["NEGATIVE_AMOUNT"] + batch.counts["UNKNOWN_ASSET"]

(***************************************************************************)
(* A withholding configuration that validates can be applied: it is for    *)
(* the employee asked about, it holds either a rate or an amount and never *)
(* both, and a capped amount, whichever of the two forms amount and cap    *)
(* are written in, is covered by its cap (withholdingConfig.ts 239-482).   *)
(***************************************************************************)
WithholdingApplies ==
  About("withholding") =>
    LET c == subject.input.config
        o == subject.input.options
        amount == parseBaseUnitAmount(c.amount, 1)
        cap == parseBaseUnitAmount(c.cap, 1)
        batch == validateBatchWithholdingConfigs(<<c, c>>, o, 1)
    IN  /\ validateWithholdingConfig(c, o, 1) = "" =>
             /\ c.isObject /\ (o.expected # "" => c.employeeId = o.expected)
             /\ (c.rate = NoRate) # (c.amount.kind = "null")
             /\ c.rate # NoRate => c.rate >= 0 /\ c.rate <= MaxRate
             /\ c.amount.kind # "null" => amount.ok \/ (amount.code = "zero" /\ o.allowZeroAmount)
             /\ (c.amount.kind # "null" /\ c.cap.kind # "null") => cap.ok /\ cap.amount >= amount.amount
        /\ batch.isValid <=> validateWithholdingConfig(c, o, 1) = ""
        /\ batch.invalidCount + batch.validCount = 2 /\ batch.malformedCount = (IF c.isObject THEN 0 ELSE 2)
=============================================================================
