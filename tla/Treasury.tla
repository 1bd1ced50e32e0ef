------------------------------ MODULE Treasury ------------------------------
(***************************************************************************)
(* treasury/readiness.ts, payerAccountStatus.ts, checkpoints.ts, summary.ts*)
(* with reconciliation/report.ts and obligations/: whether the money for a *)
(* payroll is there.  An amount is an integer, a percentage is scaled by   *)
(* Percent so that small amounts meet the rounding.                        *)
(***************************************************************************)
EXTENDS Subject

Percent == 4      \* bound: hundredths are quarters here (100n in deriveBalanceStatus)

\* Mutant: the buffer is asked for first, and a balance too small is only low.
deriveBalanceStatus_BufferFirst(available, required, buffer) ==
  IF buffer > 0 /\ available < (required * (Percent + buffer)) \div Percent THEN "low"
  ELSE IF available < required THEN "insufficient" ELSE "sufficient"

deriveBalanceStatus(available, required, buffer) ==
  FirstOf(<< <<available <= 0 /\ required > 0, "zero">>,
             <<available < required, "insufficient">>,
             <<buffer > 0 /\ available < (required * (Percent + buffer)) \div Percent, "low">> >>, "sufficient")

shortfall(available, required) ==
  IF available <= 0 /\ required > 0 THEN required ELSE IF available < required THEN required - available ELSE 0

deriveReserveStatus(reserved, required) ==
  FirstOf(<< <<reserved = 0, "unreserved">>,
             <<reserved = required, "ready">>,
             <<reserved > required, "over_reserved">> >>, "partially_reserved")

NoBalance == [available |-> 0, reserved |-> 0, locked |-> FALSE, expired |-> FALSE]

\* The checks of one obligation: what blocks it and what only warns.
assetCheck(ob, balance, buffer, requirePreReservation) ==
  LET funds   == deriveBalanceStatus(balance.available, ob.required, buffer)
      reserve == FirstOf(<< <<balance.locked, "locked">>, <<balance.expired, "expired">> >>,
                         deriveReserveStatus(balance.reserved, ob.required))
      loose   == reserve \in {"unreserved", "partially_reserved"}
  IN  [funds |-> funds, reserve |-> reserve,
       blockers |-> AllOf(<< <<ob.suspended, "suspended">>,
                             <<~ob.suspended /\ ~ob.allowlisted, "unsupported">>,
                             <<funds \in {"insufficient", "zero"}, "insufficient">>,
                             <<reserve \in {"locked", "expired"}, reserve>>,
                             <<loose /\ requirePreReservation, "pre_reservation">> >>),
       warnings |-> AllOf(<< <<funds = "low", "low">>,
                             <<loose /\ ~requirePreReservation, "unreserved">> >>)]

\* balances maps an asset to its state; an asset without one has nothing.
evaluateTreasuryReadiness(obligations, balances, buffer, strict, requirePreReservation) ==
  LET checks == [i \in DOMAIN obligations |->
                   assetCheck(obligations[i],
                              IF obligations[i].asset \in DOMAIN balances THEN balances[obligations[i].asset] ELSE NoBalance,
                              buffer, requirePreReservation)]
      blocked == Some(LAMBDA c : c.blockers # {}, checks)
      warned  == Some(LAMBDA c : c.warnings # {}, checks)
  IN  [level  |-> IF blocked \/ (strict /\ warned) THEN "blocked" ELSE IF warned THEN "warning" ELSE "ready",
       checks |-> checks]

isReady(result) == result.level # "blocked"

resolveAggregateBalanceStatus(checks) ==
  LET is(s) == Some(LAMBDA c : c.funds = s, checks) IN
  FirstOf(<< <<checks = <<>>, "unknown">>,
             <<is("insufficient"), "insufficient">>,
             <<is("zero"), "zero">>,
             <<is("low"), "low">> >>, "sufficient")

resolveAggregateReserveStatus(checks) ==
  LET is(s) == Some(LAMBDA c : c.reserve = s, checks) IN
  FirstOf(<< <<checks = <<>>, "unreserved">>,
             <<is("locked"), "locked">>,
             <<is("expired"), "expired">>,
             <<Every(LAMBDA c : c.reserve \in {"ready", "over_reserved"}, checks), "ready">>,
             <<is("partially_reserved"), "partially_reserved">> >>, "unreserved")

-----------------------------------------------------------------------------
deriveSupportStatus(a, requireTrustlines) ==
  FirstOf(<< <<a.suspended, "suspended">>,
             <<~a.allowlisted, "not_allowlisted">>,
             <<requireTrustlines /\ ~a.trustline, "missing_trustline">> >>, "ready")

\* The difference is taken the wrong way round: an amount beyond what is required blocks.
payerBalanceBlocks(a) == a.required # -1 /\ a.available - a.required > 0

\* required = -1: no requiredAmount.
payerAssetCheck(a, requireTrustlines) ==
  [blocked |-> deriveSupportStatus(a, requireTrustlines) # "ready" \/ payerBalanceBlocks(a),
   warned  |-> a.reserved > 0 /\ a.required = -1]

\* Mutant: a suspended account is only told apart by its fee balance.
readPayerAccountStatus_FeeOnly(state, strict, requireTrustlines) ==
  [isActive |-> state.fee >= state.minFee,
   accountStatus |-> IF state.fee < state.minFee THEN "unfunded" ELSE "active",
   level |-> IF \E a \in ToSet(state.assets) : payerAssetCheck(a, requireTrustlines).blocked THEN "blocked" ELSE "ready"]

readPayerAccountStatus(state, strict, requireTrustlines) ==
  LET account == FirstOf(<< <<~state.exists, "suspended">>,
                            <<state.suspended, "suspended">>,
                            <<state.fee < state.minFee, "unfunded">> >>, "active")
      checks  == [i \in DOMAIN state.assets |-> payerAssetCheck(state.assets[i], requireTrustlines)]
      blocked == account # "active" \/ Some(LAMBDA c : c.blocked, checks)
      warned  == \/ Some(LAMBDA c : c.warned, checks)
                 \/ checks # <<>> /\ Every(LAMBDA a : a.reserved = 0, state.assets)
  IN  [isActive |-> account = "active", accountStatus |-> account,
       level |-> IF blocked \/ (strict /\ warned) THEN "blocked" ELSE IF warned THEN "warning" ELSE "ready"]

canSendPayments(result) == result.level # "blocked"

-----------------------------------------------------------------------------
\* A status the record does not carry ("") is worked out from the amounts.
parseTreasuryCheckpoint(raw) ==
  [raw EXCEPT !.status = IF @ \in {"verified", "discrepancy", "pending"} THEN @
                         ELSE IF raw.allocated = raw.disbursed THEN "verified" ELSE "discrepancy"]

\* Mutant: only the total is compared.
generateTreasuryReconciliationReport_TotalOnly(raws) ==
  LET variance == SumBy(LAMBDA c : c.allocated, raws) - SumBy(LAMBDA c : c.disbursed, raws)
  IN  [variance |-> variance, isReconciled |-> variance = 0]


generateTreasuryReconciliationReport(raws) ==
  LET checkpoints == [i \in DOMAIN raws |-> parseTreasuryCheckpoint(raws[i])]
      variance == SumBy(LAMBDA c : c.allocated, checkpoints) - SumBy(LAMBDA c : c.disbursed, checkpoints)
  IN  [variance |-> variance, isReconciled |-> variance = 0 /\ Every(LAMBDA c : c.status = "verified", checkpoints)]

\* Mutant: an expired reservation still counts as holding.
readObligation_Expired(ob, reservations, now) ==
  LET bound == {r \in ToSet(reservations) : r.id \in ob.ids}
      held  == SumBy(LAMBDA r : IF r.id \in ob.ids /\ r.status = "reserved" THEN r.amount ELSE 0, reservations)
      settled == \E r \in bound : r.status \in {"finalized", "expired"}
  IN  [state |-> IF settled THEN "settled" ELSE "pending", reserved |-> held, outstanding |-> ~settled,
       overdue |-> FALSE, risk |-> "none"]

-----------------------------------------------------------------------------
\* pendingObligationsReader.ts: an obligation and the reservations bound to it.
readObligation(ob, reservations, now) ==
  LET bound == {r \in ToSet(reservations) : r.id \in ob.ids}
      held  == SumBy(LAMBDA r : IF r.id \in ob.ids /\ r.status = "reserved" THEN r.amount ELSE 0, reservations)
      is(s) == \E r \in bound : r.status = s
      state == FirstOf(<< <<is("finalized"), "settled">>, <<is("reserved"), "reserved">> >>, "pending")
      overdue == state # "settled" /\ ob.dueAt # -1 /\ ob.dueAt <= now
  IN  [state |-> state, reserved |-> held, outstanding |-> state # "settled", overdue |-> overdue,
       risk |-> FirstOf(<< <<state = "settled", "none">>,
                           <<overdue, "overdue">>,
                           <<is("expired"), "reservation_expired">>,
                           <<is("cancelled"), "reservation_cancelled">>,
                           <<held > 0 /\ held < ob.amount, "under_reserved">> >>, "none")]

readPendingObligations(obligations, reservations, now) ==
  LET resolved == [i \in DOMAIN obligations |-> readObligation(obligations[i], reservations, now)]
      open == {i \in DOMAIN resolved : resolved[i].outstanding}
  IN  [obligations |-> resolved, isSettled |-> open = {},
       totalOutstanding |-> Total([i \in DOMAIN resolved |-> IF resolved[i].outstanding THEN obligations[i].amount ELSE 0])]

-----------------------------------------------------------------------------
\* Bounds: two obligations over two assets, amounts up to 5.
ReadinessInputs ==
  LET obligation == [asset : {"x", "y"}, required : {0, 2, 4}, suspended : {FALSE}, allowlisted : {TRUE}]
      balance == [available : {0, 2, 3, 4, 5}, reserved : {0, 2, 4}, locked : BOOLEAN, expired : {FALSE}]
      plenty == [available |-> 5, reserved |-> 4, locked |-> FALSE, expired |-> FALSE]
  IN  {[obligations |-> <<a, b>>, balances |-> bs, buffer |-> n, strict |-> s, pre |-> e] :
         a \in {o \in obligation : o.asset = "x"} \cup
             {[asset |-> "x", required |-> 2, suspended |-> u, allowlisted |-> u] : u \in BOOLEAN}, b \in {o \in obligation : o.asset = "y" /\ o.required # 4},
         bs \in {[x |-> p] : p \in balance} \cup {[x |-> p, y |-> plenty] : p \in balance},
         n \in {0, 1}, s, e \in BOOLEAN}

PayerInputs ==
  [exists : BOOLEAN, suspended : BOOLEAN, fee : 0..1, minFee : {1},
   assets : {<<a>> : a \in [available : 0..2, reserved : 0..1, trustline : BOOLEAN, allowlisted : BOOLEAN,
                            suspended : {FALSE}, required : {-1, 1}]}]

ObligationInputs ==
  LET reservation(i) == {[id |-> i, amount |-> m, status |-> s] :
                           m \in 1..2, s \in {"reserved", "released", "finalized", "expired", "cancelled"}}
  IN  {[obligations |-> <<[amount |-> 2, ids |-> J, dueAt |-> d], [amount |-> 1, ids |-> {2}, dueAt |-> -1]>>,
        reservations |-> <<p, q>>] :
         J \in SUBSET {1, 2}, d \in {-1, 1, 3}, p \in reservation(1), q \in reservation(2)}

CheckpointInputs ==
  LET raw == [allocated : 0..2, disbursed : 0..2, status : {"", "verified", "pending"}]
  IN  {<<>>} \cup {<<a>> : a \in raw} \cup (raw \X raw)

Readiness(i) == evaluateTreasuryReadiness(i.obligations, i.balances, i.buffer, i.strict, i.pre)

(***************************************************************************)
(* A payroll whose obligations are in distinct assets and that is ready    *)
(* can be paid: each asset is usable, its funds cover the amount, and with *)
(* pre-reservation the amount is held by a reservation that is neither     *)
(* locked nor expired; the overall status is never worse than low          *)
(* (readiness.ts 148-317, 391-409).  Two obligations in one asset are each *)
(* compared with the whole balance: see the README.                        *)
(***************************************************************************)
ReadyMeansFunded ==
  About("readiness") =>
    LET i == subject.input
        r == Readiness(i)
        b(ob) == IF ob.asset \in DOMAIN i.balances THEN i.balances[ob.asset] ELSE NoBalance
    IN  isReady(r) =>
          /\ \A ob \in ToSet(i.obligations) :
               /\ ob.allowlisted /\ ~ob.suspended /\ ~b(ob).locked /\ ~b(ob).expired
               /\ shortfall(b(ob).available, ob.required) = 0
               /\ i.pre => b(ob).reserved > 0 /\ b(ob).reserved >= ob.required
          /\ resolveAggregateBalanceStatus(r.checks) \in {"low", "sufficient"}
          /\ resolveAggregateReserveStatus(r.checks) \notin {"locked", "expired"}
          /\ i.strict => resolveAggregateBalanceStatus(r.checks) = "sufficient"

(***************************************************************************)
(* An account that can send payments exists, is active and every asset has *)
(* what the account needs to hold it (payerAccountStatus.ts 164-328).      *)
(***************************************************************************)
SenderIsUsable ==
  About("payer") =>
    \A strict, trust \in BOOLEAN :
      LET r == readPayerAccountStatus(subject.input, strict, trust)
      IN  canSendPayments(r) =>
            /\ r.isActive /\ subject.input.exists /\ subject.input.fee >= subject.input.minFee
            /\ \A a \in ToSet(subject.input.assets) : a.allowlisted /\ ~a.suspended /\ (trust => a.trustline)
            /\ strict => r.level = "ready"

(***************************************************************************)
(* A payroll has no pending obligation exactly when each one is bound to a *)
(* finalized reservation; one with a risk of none either is settled, or    *)
(* has no reservation, or is fully covered by those that still hold        *)
(* (pendingObligationsReader.ts 199-321).                                  *)
(***************************************************************************)
ObligationsAccounted ==
  About("obligations") =>
    LET i == subject.input
        r == readPendingObligations(i.obligations, i.reservations, 2)
        final(ob) == \E x \in ToSet(i.reservations) : x.id \in ob.ids /\ x.status = "finalized"
        risk(k) == r.obligations[k].risk
    IN  /\ r.isSettled <=> \A ob \in ToSet(i.obligations) : final(ob)
        /\ r.isSettled <=> r.totalOutstanding = 0
        /\ \A k \in DOMAIN i.obligations :
             risk(k) = "none" =>
               \/ final(i.obligations[k])
               \/ r.obligations[k].reserved = 0 \/ r.obligations[k].reserved >= i.obligations[k].amount

(***************************************************************************)
(* A treasury report that is reconciled has no variance in total; if the   *)
(* statuses were worked out from the amounts, every single checkpoint      *)
(* balances, so that two errors cannot cancel out (report.ts 26-60).       *)
(***************************************************************************)
NoCancelling ==
  About("checkpoints") =>
    LET r == generateTreasuryReconciliationReport(subject.input) IN
    r.isReconciled =>
      /\ SumBy(LAMBDA c : c.allocated, subject.input) = SumBy(LAMBDA c : c.disbursed, subject.input)
      /\ \A c \in ToSet(subject.input) : c.status = "" => c.allocated = c.disbursed
=============================================================================
