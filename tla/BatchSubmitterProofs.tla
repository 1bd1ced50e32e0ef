------------------------- MODULE BatchSubmitterProofs -------------------------
(***************************************************************************)
(* Resume tokens and results of the batch submitter, for every set of      *)
(* collections, every batch size, any number of retries, calls, crashes,   *)
(* aborts and stale tokens.                                                *)
(*                                                                         *)
(* The theorems need two conditions, and TLC shows that neither can be     *)
(* dropped: every call stops at its first failed batch (strict), and       *)
(* collections with the same entries commitment are the same array.        *)
(***************************************************************************)
EXTENDS BatchSubmitter, FiniteSetTheorems, TLAPS

(***************************************************************************)
(* A good token was created for a plan whose skipped batches are paid.     *)
(***************************************************************************)
GoodToken(t) ==
  \E E \in Collections, size \in BatchSizes, n \in Nat :
    /\ t = createBatchResumeToken(E, n, Least(n * size, Len(E)), size)
    /\ Covered(E, size, n)

TokensGood == \A t \in tokens : GoodToken(t)

(***************************************************************************)
(* The loop has paid every batch before the current one, and the entries   *)
(* of the current batch that it has got past.                              *)
(***************************************************************************)
LoopInv ==
  pc # "idle" =>
    /\ Len(entries) > 0
    /\ succeeded = batch
    /\ items = Least(batch * batchSize, Len(entries))
    /\ Covered(entries, batchSize, batch)
    /\ batch <= totalPages(entries, batchSize)
    /\ pc # "batch" => batch < totalPages(entries, batchSize)
    /\ pc = "paying" => pos < batchCount(entries, batchSize, batch)
    /\ pc = "returned" => pos = batchCount(entries, batchSize, batch)
    /\ pc \in {"paying", "returned"} =>
         \A i \in 1..pos : paid[entries[batch * batchSize + i]] >= 1
    /\ result.outcome = "none"

CompletedPaid == result.outcome = "completed" => AllPaid

IInv == TypeOK /\ stop /\ TokensGood /\ LoopInv /\ CompletedPaid

StrictInv == TypeOK /\ (strict => IInv)

-----------------------------------------------------------------------------
(***************************************************************************)
(* Arithmetic of batches.                                                  *)
(***************************************************************************)
LEMMA TimesMonotone ==
  ASSUME NEW a \in Nat, NEW b \in Nat, NEW s \in Nat, a <= b
  PROVE  a * s <= b * s
  <1>1. b - a \in Nat /\ b = a + (b - a)
    OBVIOUS
  <1>2. b * s = a * s + (b - a) * s
    BY <1>1
  <1>3. (b - a) * s \in Nat /\ a * s \in Nat
    BY <1>1
  <1>4. QED
    BY <1>2, <1>3

\* Rounding up: no batch before the last reaches the end of the collection.
LEMMA CeilingDivision ==
  ASSUME NEW n \in Nat \ {0}, NEW s \in Nat \ {0}
  PROVE  LET q == (n + s - 1) \div s
         IN  /\ q \in Nat
             /\ \A b \in Nat : b < q => b * s < n
             /\ \A b \in Nat : b >= q => n <= b * s
  <1> DEFINE q == (n + s - 1) \div s
  <1>1. n + s - 1 \in Nat
    OBVIOUS
  <1>2. q \in Nat /\ q * s <= n + s - 1 /\ n + s - 1 < q * s + s
    BY <1>1
  <1> HIDE DEF q
  <1>3. ASSUME NEW b \in Nat, b < q PROVE b * s < n
    <2>1. b + 1 \in Nat /\ b + 1 <= q
      BY <1>2, <1>3
    <2>2. (b + 1) * s <= q * s
      BY <1>2, <2>1, TimesMonotone
    <2>3. (b + 1) * s = b * s + s /\ b * s \in Nat /\ q * s \in Nat
      BY <1>2
    <2>4. QED
      BY <1>2, <2>2, <2>3
  <1>4. ASSUME NEW b \in Nat, b >= q PROVE n <= b * s
    <2>1. q * s <= b * s
      BY <1>2, <1>4, TimesMonotone
    <2>2. q * s \in Nat /\ b * s \in Nat
      BY <1>2
    <2>3. QED
      BY <1>2, <2>1, <2>2
  <1>5. QED
    BY <1>2, <1>3, <1>4 DEF q

\* A slice that begins inside the collection is not empty and ends where the next begins.
LEMMA SliceCount ==
  ASSUME NEW m \in Nat, NEW n \in Nat, NEW s \in Nat \ {0}, m < n
  PROVE  /\ Least(m + s, n) - Least(m, n) \in Nat \ {0}
         /\ Least(m, n) + (Least(m + s, n) - Least(m, n)) = Least(m + s, n)
         /\ m + (Least(m + s, n) - Least(m, n)) = Least(m + s, n)
  BY DEF Least

(***************************************************************************)
(* A batch of the plan starts inside the collection and is not empty; the  *)
(* plan as a whole reaches its end.                                        *)
(***************************************************************************)
LEMMA BatchBounds ==
  ASSUME NEW E \in Collections, NEW size \in BatchSizes, NEW b \in Nat, Len(E) > 0
  PROVE  /\ Len(E) \in Nat /\ DOMAIN E = 1..Len(E) /\ size \in Nat \ {0}
         /\ totalPages(E, size) \in Nat
         /\ b * size \in Nat
         /\ (b + 1) * size = b * size + size
         /\ b < totalPages(E, size) =>
              /\ b * size < Len(E)
              /\ batchCount(E, size, b) \in Nat \ {0}
              /\ Least(b * size, Len(E)) + batchCount(E, size, b) = Least((b + 1) * size, Len(E))
              /\ b * size + batchCount(E, size, b) = Least((b + 1) * size, Len(E))
         /\ b >= totalPages(E, size) => Len(E) <= b * size
  <1>1. Len(E) \in Nat \ {0} /\ DOMAIN E = 1..Len(E) /\ size \in Nat \ {0}
    BY CollectionsAssumption, BatchSizesAssumption
  <1>2. b * size \in Nat /\ (b + 1) * size = b * size + size
    BY <1>1
  <1>3. /\ totalPages(E, size) \in Nat
        /\ b < totalPages(E, size) => b * size < Len(E)
        /\ b >= totalPages(E, size) => Len(E) <= b * size
    <2> DEFINE q == (Len(E) + size - 1) \div size
    <2>1. totalPages(E, size) = q
      BY <1>1 DEF totalPages
    <2>2. /\ q \in Nat
          /\ \A k \in Nat : k < q => k * size < Len(E)
          /\ \A k \in Nat : k >= q => Len(E) <= k * size
      BY <1>1, CeilingDivision
    <2> HIDE DEF q
    <2>3. QED
      BY <2>1, <2>2
  <1>4. b * size < Len(E) =>
          /\ batchCount(E, size, b) \in Nat \ {0}
          /\ Least(b * size, Len(E)) + batchCount(E, size, b) = Least((b + 1) * size, Len(E))
          /\ b * size + batchCount(E, size, b) = Least((b + 1) * size, Len(E))
    BY <1>1, <1>2, SliceCount DEF batchCount, sliceEnd
  <1>5. ASSUME b < totalPages(E, size) PROVE b * size < Len(E)
    BY <1>3, <1>5
  <1>6. QED
    BY <1>1, <1>2, <1>3, <1>4, <1>5

\* The smaller of two numbers, when the second is not larger.
LEMMA LeastSecond ==
  ASSUME NEW x \in Nat, NEW y \in Nat, y <= x
  PROVE  Least(x, y) = y
  BY DEF Least

\* All batches together cover the whole collection.
LEMMA WholePlan ==
  ASSUME NEW E \in Collections, NEW size \in BatchSizes, NEW b \in Nat, Len(E) > 0,
         b >= totalPages(E, size)
  PROVE  Least(b * size, Len(E)) = Len(E) /\ DOMAIN E = 1..Len(E)
  <1> DEFINE m == b * size
  <1>1. /\ Len(E) \in Nat /\ DOMAIN E = 1..Len(E) /\ m \in Nat /\ Len(E) <= m
    BY BatchBounds
  <1> HIDE DEF m
  <1>2. Least(m, Len(E)) = Len(E)
    BY <1>1, LeastSecond
  <1>3. QED
    BY <1>1, <1>2 DEF m

\* The numbers of a plan are naturals.
LEMMA CollectionFacts ==
  ASSUME NEW E \in Collections, NEW size \in BatchSizes, NEW b \in Nat
  PROVE  /\ Len(E) \in Nat /\ DOMAIN E = 1..Len(E) /\ size \in Nat \ {0}
         /\ totalPages(E, size) \in Nat
         /\ batchCount(E, size, b) \in Nat
         /\ \A i \in DOMAIN E : E[i] \in AllEntries
         /\ batchItems(E, size, b) \subseteq DOMAIN E
  <1>1. Len(E) \in Nat /\ DOMAIN E = 1..Len(E) /\ size \in Nat \ {0}
    BY CollectionsAssumption, BatchSizesAssumption
  <1>2. b * size \in Nat
    BY <1>1
  <1>3. totalPages(E, size) \in Nat
    BY <1>1, CeilingDivision DEF totalPages
  <1>4. \A i \in DOMAIN E : E[i] \in AllEntries
    BY DEF AllEntries
  <1> DEFINE m == b * size
  <1>5. m \in Nat
    BY <1>2
  <1> HIDE DEF m
  <1>6. Least(m + size, Len(E)) - Least(m, Len(E)) \in Nat
    BY <1>1, <1>5 DEF Least
  <1>7. (m + 1) .. Least(m + size, Len(E)) \subseteq 1..Len(E)
    BY <1>1, <1>5 DEF Least
  <1>8. QED
    BY <1>1, <1>3, <1>4, <1>6, <1>7 DEF m, batchCount, batchItems, sliceEnd

-----------------------------------------------------------------------------
(***************************************************************************)
(* Types.                                                                  *)
(***************************************************************************)
LEMMA FreshToken ==
  ASSUME TypeOK, NEW n \in Nat, NEW d \in Nat
  PROVE  TokenType(makeResumeToken(n, d))
  BY DEF makeResumeToken, createBatchResumeToken, TokenType, TypeOK

\* A token of the right type is handed out.
LEMMA HandOutType ==
  ASSUME TypeOK, NEW t, TokenType(t), HandOut(t)
  PROVE  Resumable(latest)' /\ (\A u \in tokens' : TokenType(u)) /\ tokens \subseteq tokens' /\ t \in tokens'
  BY DEF HandOut, TypeOK, Resumable

\* The part of TypeOK that ReturnFailure and FailBatch may change.
ReturnType ==
  /\ pc \in PCs /\ batch \in Nat
  /\ result.outcome \in Outcomes
  /\ result.batchesProcessed \in Nat /\ result.itemsProcessed \in Nat
  /\ Resumable(result.resumeToken)
  /\ Resumable(latest) /\ \A t \in tokens : TokenType(t)

\* What a failed or cancelled run returns has its type.
LEMMA ReturnFailureType ==
  ASSUME TypeOK, NEW o \in Outcomes, ReturnFailure(o), UNCHANGED batch
  PROVE  ReturnType'
  <1>1. CASE succeeded > 0
    <2>1. TokenType(makeResumeToken(batch, items))
      BY FreshToken DEF TypeOK
    <2>2. HandOut(makeResumeToken(batch, items)) /\ pc' = "idle"
          /\ result' = Result(o, succeeded, items, makeResumeToken(batch, items))
      BY <1>1 DEF ReturnFailure
    <2>3. /\ Resumable(latest)' /\ (\A u \in tokens' : TokenType(u))
          /\ makeResumeToken(batch, items) \in tokens'
      BY <2>1, <2>2, HandOutType
    <2>4. QED
      BY <2>2, <2>3 DEF ReturnType, Result, Resumable, TypeOK, PCs
  <1>2. CASE ~(succeeded > 0)
    BY <1>2 DEF ReturnFailure, ReturnType, Result, Resumable, TypeOK, PCs
  <1>3. QED
    BY <1>1, <1>2

\* So has what a failed batch leaves behind.
LEMMA FailBatchType ==
  ASSUME TypeOK, FailBatch
  PROVE  ReturnType'
  <1>1. CASE stop /\ ReturnFailure("failed") /\ UNCHANGED batch
    BY <1>1, ReturnFailureType DEF Outcomes
  <1>2. CASE /\ ~stop /\ pc' = "batch" /\ batch' = batch + 1
             /\ UNCHANGED <<result, tokens, latest>>
    BY <1>2 DEF ReturnType, TypeOK, PCs, Resumable
  <1>3. QED
    BY <1>1, <1>2 DEF FailBatch

(***************************************************************************)
(* A payment that lands changes one entry's count, upwards.                *)
(***************************************************************************)
LEMMA LandsGrows ==
  ASSUME TypeOK, Lands
  PROVE  /\ paid' \in [AllEntries -> Nat]
         /\ \A e \in AllEntries : paid'[e] >= paid[e]
         /\ current \in AllEntries => paid'[current] >= 1
  <1> DEFINE x == current
  <1>1. paid' = [paid EXCEPT ![x] = paid[x] + 1] /\ paid \in [AllEntries -> Nat]
    BY DEF Lands, TypeOK
  <1> HIDE DEF x
  <1>2. /\ paid' \in [AllEntries -> Nat]
        /\ \A e \in AllEntries : paid'[e] >= paid[e]
        /\ x \in AllEntries => paid'[x] >= 1
    <2>1. CASE x \in AllEntries
      <3>1. paid[x] \in Nat /\ paid[x] + 1 \in Nat
        BY <1>1, <2>1
      <3>2. paid'[x] = paid[x] + 1 /\ \A e \in AllEntries \ {x} : paid'[e] = paid[e]
        BY <1>1, <2>1
      <3>3. paid' \in [AllEntries -> Nat]
        BY <1>1, <3>1
      <3>4. \A e \in AllEntries : paid[e] \in Nat
        BY <1>1
      <3>5. QED
        BY <3>1, <3>2, <3>3, <3>4
    <2>2. CASE x \notin AllEntries
      <3>1. paid' = paid
        BY <1>1, <2>2
      <3>2. \A e \in AllEntries : paid[e] \in Nat
        BY <1>1
      <3>3. \A e \in AllEntries : paid'[e] >= paid[e]
        BY <3>1, <3>2
      <3>4. QED
        BY <1>1, <2>2, <3>1, <3>3
    <2>3. QED
      BY <2>1, <2>2
  <1>3. QED
    BY <1>2 DEF x

\* Every step keeps the types.
LEMMA TypeStep == TypeOK /\ [Next]_vars => TypeOK'
  <1> SUFFICES ASSUME TypeOK, [Next]_vars PROVE TypeOK'
    OBVIOUS
  <1>1. ASSUME NEW E \in Collections, NEW size \in BatchSizes, NEW s \in StopOptions, NEW t \in Offered,
         Start(E, size, s, t)
        PROVE TypeOK'
    <2>1. t # NoToken => TokenType(t)
      BY DEF Offered, TypeOK, Resumable
    <2>2. totalPages(E, size) \in Nat
      BY CollectionFacts
    <2>3. /\ pc' \in PCs /\ batch' \in Nat /\ succeeded' \in Nat /\ items' \in Nat
          /\ result'.outcome \in Outcomes /\ result'.resumeToken = NoToken
          /\ result'.batchesProcessed \in Nat /\ result'.itemsProcessed \in Nat
      BY <1>1, <2>1, <2>2
      DEF Start, ReturnAtOnce, EnterLoop, Result, TypeOK, TokenType, PCs, Outcomes
    <2>4. start' \in Nat
      BY <1>1, <2>1 DEF Start, TokenType
    <2>5. /\ entries' = E /\ batchSize' = size /\ calls' = calls + 1
          /\ attempt' = 0 /\ pos' = 0 /\ aborted' \in BOOLEAN
          /\ UNCHANGED <<tokens, latest, paid, completed>>
      BY <1>1 DEF Start
    <2>6. stop' \in BOOLEAN /\ strict' \in BOOLEAN /\ newest' \in BOOLEAN
      BY <1>1, StopOptionsAssumption DEF Start
    <2>7. QED
      BY <2>3, <2>4, <2>5, <2>6 DEF TypeOK, Resumable
  <1>2. CASE BeginBatch
    <2>1. CASE aborted /\ ReturnFailure("cancelled") /\ UNCHANGED attempt
      <3>1. UNCHANGED batch
        BY <1>2 DEF BeginBatch
      <3>2. ReturnType'
        BY <2>1, <3>1, ReturnFailureType DEF Outcomes
      <3>3. UNCHANGED <<entries, batchSize, stop, strict, newest, start, attempt, pos, succeeded, items, aborted,
                        paid, completed, calls>>
        BY <1>2, <2>1 DEF BeginBatch, callVars
      <3>4. QED
        BY <3>2, <3>3 DEF TypeOK, ReturnType
    <2>2. CASE ~aborted
      BY <1>2, <2>2 DEF BeginBatch, TypeOK, callVars, PCs, Resumable
    <2>3. QED
      BY <1>2, <2>1, <2>2 DEF BeginBatch
  <1>3. CASE BeginAttempt
    <2>1. CASE aborted /\ FailBatch
      BY <1>3, <2>1, FailBatchType DEF BeginAttempt, TypeOK, ReturnType, callVars
    <2>2. CASE ~aborted
      BY <1>3, <2>2 DEF BeginAttempt, TypeOK, callVars, PCs, Resumable
    <2>3. QED
      BY <1>3, <2>1, <2>2 DEF BeginAttempt
  <1>4. CASE PayItem
    <2>1. paid' \in [AllEntries -> Nat]
      BY <1>4, LandsGrows DEF PayItem
    <2>2. pc' \in PCs /\ pos' \in Nat
      BY <1>4 DEF PayItem, TypeOK, PCs
    <2>3. UNCHANGED <<entries, batchSize, stop, strict, newest, start, batch, attempt, succeeded, items, aborted,
                      result, tokens, latest, completed, calls>>
      BY <1>4 DEF PayItem, callVars
    <2>4. QED
      BY <2>1, <2>2, <2>3 DEF TypeOK, Resumable
  <1>5. ASSUME NEW landed \in BOOLEAN, NEW retryable \in BOOLEAN, PayItemFails(landed, retryable)
        PROVE TypeOK'
    <2>1. paid' \in [AllEntries -> Nat]
      BY <1>5 DEF PayItemFails, Lands, TypeOK
    <2>2. CASE FailBatch
      BY <1>5, <2>1, <2>2, FailBatchType DEF PayItemFails, TypeOK, ReturnType, callVars
    <2>3. CASE pc' = "backoff" /\ UNCHANGED <<batch, result, tokens, latest>>
      BY <1>5, <2>1, <2>3 DEF PayItemFails, TypeOK, callVars, PCs, Resumable
    <2>4. QED
      BY <1>5, <2>2, <2>3 DEF PayItemFails
  <1>6. CASE Backoff
    <2>1. CASE aborted /\ FailBatch /\ UNCHANGED attempt
      BY <1>6, <2>1, FailBatchType DEF Backoff, TypeOK, ReturnType, callVars
    <2>2. CASE ~aborted
      BY <1>6, <2>2 DEF Backoff, TypeOK, callVars, PCs, Resumable
    <2>3. QED
      BY <1>6, <2>1, <2>2 DEF Backoff
  <1>7. CASE CompleteBatch
    <2>1. /\ batchCount(entries, batchSize, batch) \in Nat
          /\ {entries[i] : i \in batchItems(entries, batchSize, batch)} \subseteq AllEntries
      BY CollectionFacts DEF TypeOK
    <2>2. items' \in Nat /\ batch' \in Nat /\ batch' = batch + 1
      BY <1>7, <2>1 DEF CompleteBatch, TypeOK
    <2>3. HandOut(makeResumeToken(batch + 1, items')) /\ TokenType(makeResumeToken(batch + 1, items'))
      BY <1>7, <2>2, FreshToken DEF CompleteBatch
    <2>4. Resumable(latest)' /\ (\A u \in tokens' : TokenType(u)) /\ tokens \subseteq tokens'
      BY <2>3, HandOutType
    <2>5. QED
      BY <1>7, <2>1, <2>2, <2>4 DEF CompleteBatch, TypeOK, callVars, PCs, Resumable
  <1>8. CASE Finish
    BY <1>8 DEF Finish, TypeOK, callVars, PCs, Resumable, Result, Outcomes
  <1>9. CASE Abort
    BY <1>9 DEF Abort, TypeOK, callVars, Resumable
  <1>10. CASE Crash
    BY <1>10 DEF Crash, TypeOK, callVars, PCs, Resumable
  <1>11. CASE UNCHANGED vars
    BY <1>11 DEF vars, TypeOK, Resumable
  <1>12. QED
    BY <1>1, <1>2, <1>3, <1>4, <1>5, <1>6, <1>7, <1>8, <1>9, <1>10, <1>11 DEF Next, Submitter

\* The initial state is typed.
LEMMA SubmitterTypesInit == Init => TypeOK
  <1> SUFFICES ASSUME Init PROVE TypeOK
    OBVIOUS
  <1>1. /\ result.outcome \in Outcomes /\ result.resumeToken = NoToken
        /\ result.batchesProcessed \in Nat /\ result.itemsProcessed \in Nat
    BY DEF Init, Outcomes, Result
  <1>2. paid \in [AllEntries -> Nat]
    BY DEF Init
  <1>3. aborted \in BOOLEAN
    BY DEF Init
  <1>4. QED
    BY <1>1, <1>2, <1>3 DEF Init, TypeOK, PCs, Resumable

(***************************************************************************)
(* Types of the submitter's locals, its result, the tokens and the ledger, *)
(* for any options and any use of the tokens.                              *)
(***************************************************************************)
THEOREM SubmitterTypes == Spec => []TypeOK
  BY SubmitterTypesInit, TypeStep, PTL DEF Spec

-----------------------------------------------------------------------------
(***************************************************************************)
(* The ledger only grows, so what a token or the loop relies on stays.     *)
(***************************************************************************)
PaidGrows == \A e \in AllEntries : paid'[e] >= paid[e]

\* No step takes a payment off the ledger.
LEMMA LedgerGrows ==
  ASSUME TypeOK, [Next]_vars
  PROVE  PaidGrows
  <1>1. Lands => PaidGrows
    BY LandsGrows DEF PaidGrows
  <1>2. UNCHANGED paid => PaidGrows
    BY DEF PaidGrows, TypeOK
  <1>3. Lands \/ UNCHANGED paid
    BY DEF Next, Submitter, vars, Start, BeginBatch, BeginAttempt, PayItem, PayItemFails, Backoff,
           CompleteBatch, Finish, Abort, Crash
  <1>4. QED
    BY <1>1, <1>2, <1>3

\* What the completed batches cover stays paid.
LEMMA CoveredKept ==
  ASSUME TypeOK, TypeOK', PaidGrows,
         NEW E \in Collections, NEW size \in BatchSizes, NEW n \in Nat, Covered(E, size, n)
  PROVE  \A i \in 1..Least(n * size, Len(E)) : paid'[E[i]] >= 1
  <1> SUFFICES ASSUME NEW i \in 1..Least(n * size, Len(E)) PROVE paid'[E[i]] >= 1
    OBVIOUS
  <1>1. Len(E) \in Nat /\ DOMAIN E = 1..Len(E) /\ size \in Nat
    BY CollectionFacts
  <1>2. n * size \in Nat
    BY <1>1
  <1>3. i \in DOMAIN E
    BY <1>1, <1>2 DEF Least
  <1>4. E[i] \in AllEntries
    BY <1>3, CollectionFacts
  <1>5. paid[E[i]] >= 1 /\ paid[E[i]] \in Nat /\ paid'[E[i]] \in Nat
    BY <1>4 DEF Covered, TypeOK
  <1>6. QED
    BY <1>4, <1>5 DEF PaidGrows

\* A token whose batches are paid remains one.
LEMMA GoodTokenKept ==
  ASSUME TypeOK, TypeOK', PaidGrows, NEW t, GoodToken(t)
  PROVE  GoodToken(t)'
  <1>1. PICK E \in Collections, size \in BatchSizes, n \in Nat :
          /\ t = createBatchResumeToken(E, n, Least(n * size, Len(E)), size)
          /\ Covered(E, size, n)
    BY DEF GoodToken
  <1>2. Covered(E, size, n)'
    BY <1>1, CoveredKept DEF Covered
  <1>3. QED
    BY <1>1, <1>2 DEF GoodToken

\* So do all tokens, if the new ones are good.
LEMMA TokensKept ==
  ASSUME TypeOK, TypeOK', PaidGrows, TokensGood,
         \A t \in tokens' : t \in tokens \/ GoodToken(t)'
  PROVE  TokensGood'
  BY GoodTokenKept DEF TokensGood

(***************************************************************************)
(* What resolveResumeStart accepts was made for this very plan.            *)
(***************************************************************************)
LEMMA AppliedToken ==
  ASSUME CommitmentBinds, NEW E \in Collections, NEW size \in BatchSizes, NEW t,
         GoodToken(t), tokenApplies(t, E, size)
  PROVE  /\ t.nextBatchIndex \in Nat
         /\ t.itemsProcessed = Least(t.nextBatchIndex * size, Len(E))
         /\ Covered(E, size, t.nextBatchIndex)
  <1>1. PICK F \in Collections, s \in BatchSizes, n \in Nat :
          /\ t = createBatchResumeToken(F, n, Least(n * s, Len(F)), s)
          /\ Covered(F, s, n)
    BY DEF GoodToken
  <1>2. /\ t.commitment = computeEntriesCommitment(F) /\ t.batchSize = s
        /\ t.nextBatchIndex = n /\ t.itemsProcessed = Least(n * s, Len(F))
    BY <1>1 DEF createBatchResumeToken
  <1>3. s = size /\ computeEntriesCommitment(F) = computeEntriesCommitment(E)
    BY <1>2 DEF tokenApplies
  <1>4. F = E
    BY <1>3 DEF CommitmentBinds
  <1>5. QED
    BY <1>1, <1>2, <1>3, <1>4

-----------------------------------------------------------------------------
\* A run that is started keeps the invariant.
LEMMA InvStart ==
  ASSUME CommitmentBinds, IInv, TypeOK', PaidGrows,
         NEW E \in Collections, NEW size \in BatchSizes, NEW s \in StopOptions, NEW t \in Offered,
         Start(E, size, s, t)
  PROVE  s => IInv'
  <1> SUFFICES ASSUME s PROVE IInv'
    OBVIOUS
  <1>1. /\ entries' = E /\ batchSize' = size /\ pos' = 0 /\ tokens' = tokens /\ paid' = paid
    BY DEF Start
  <1>9. stop'
    BY DEF Start
  <1>2. TokensGood'
    BY <1>1, TokensKept DEF IInv
  <1>3. t = NoToken \/ GoodToken(t)
    BY DEF Offered, IInv, TypeOK, Resumable, TokensGood
  <1>4. CASE Len(E) = 0 /\ ReturnAtOnce("completed", 0, 0)
    <2>1. DOMAIN E = {}
      BY <1>4, CollectionFacts
    <2>2. QED
      BY <1>1, <1>2, <1>9, <1>4, <2>1 DEF ReturnAtOnce, IInv, LoopInv, CompletedPaid, AllPaid
  <1>5. CASE Len(E) > 0 /\ t = NoToken /\ EnterLoop(0, 0)
    <2>1. /\ pc' = "batch" /\ batch' = 0 /\ succeeded' = 0 /\ items' = 0
          /\ result'.outcome = "none"
      BY <1>5 DEF EnterLoop, Result
    <2>2. totalPages(E, size) \in Nat /\ 0 * size = 0 /\ Least(0, Len(E)) = 0
      BY CollectionFacts DEF Least
    <2>3. QED
      BY <1>1, <1>2, <1>9, <1>5, <2>1, <2>2 DEF IInv, LoopInv, CompletedPaid, AllPaid, Covered
  <1>6. CASE ReturnAtOnce("rejected", 0, 0)
    BY <1>1, <1>2, <1>9, <1>6 DEF ReturnAtOnce, Result, IInv, LoopInv, CompletedPaid, AllPaid
  <1>7. CASE /\ Len(E) > 0 /\ t # NoToken /\ tokenApplies(t, E, size)
             /\ IF t.nextBatchIndex >= totalPages(E, size)
                THEN ReturnAtOnce("completed", totalPages(E, size), t.itemsProcessed)
                ELSE EnterLoop(t.nextBatchIndex, t.itemsProcessed)
    <2> DEFINE n == t.nextBatchIndex
    <2>1. /\ n \in Nat /\ t.itemsProcessed = Least(n * size, Len(E)) /\ Covered(E, size, n)
      BY <1>3, <1>7, AppliedToken
    <2>2. Covered(E, size, n)'
      BY <1>1, <2>1 DEF Covered
    <2> HIDE DEF n
    <2>3. CASE n >= totalPages(E, size)
      <3>1. pc' = "idle" /\ result'.outcome = "completed"
        BY <1>7, <2>3 DEF n, ReturnAtOnce, Result
      <3>2. Least(n * size, Len(E)) = Len(E) /\ DOMAIN E = 1..Len(E)
        BY <1>7, <2>1, <2>3, WholePlan
      <3>3. \A i \in DOMAIN E : paid'[E[i]] >= 1
        BY <2>2, <3>2 DEF Covered
      <3>4. QED
        BY <1>1, <1>2, <1>9, <3>1, <3>3 DEF IInv, LoopInv, CompletedPaid, AllPaid
    <2>4. CASE ~(n >= totalPages(E, size))
      <3>1. /\ pc' = "batch" /\ batch' = n /\ succeeded' = n /\ items' = t.itemsProcessed
            /\ result'.outcome = "none"
        BY <1>7, <2>4 DEF n, EnterLoop, Result
      <3>2. n <= totalPages(E, size)
        BY <1>7 DEF n, tokenApplies
      <3>3. QED
        BY <1>1, <1>2, <1>9, <1>7, <2>1, <2>2, <3>1, <3>2 DEF IInv, LoopInv, CompletedPaid, AllPaid
    <2>5. QED
      BY <2>3, <2>4
  <1>8. QED
    BY <1>4, <1>5, <1>6, <1>7 DEF Start

\* A run that returns a failure keeps it.
LEMMA InvReturnFailure ==
  ASSUME IInv, TypeOK', PaidGrows, pc # "idle", NEW o \in {"failed", "cancelled"},
         ReturnFailure(o), UNCHANGED stop
  PROVE  IInv'
  <1>1. GoodToken(makeResumeToken(batch, items))
    <2>1. makeResumeToken(batch, items) =
            createBatchResumeToken(entries, batch, Least(batch * batchSize, Len(entries)), batchSize)
      BY DEF makeResumeToken, IInv, LoopInv
    <2>2. /\ entries \in Collections /\ batchSize \in BatchSizes /\ batch \in Nat
          /\ Covered(entries, batchSize, batch)
      BY DEF IInv, LoopInv, TypeOK
    <2>3. QED
      BY <2>1, <2>2 DEF GoodToken
  <1>2. TypeOK
    BY DEF IInv
  <1>3. \A t \in tokens' : t \in tokens \/ t = makeResumeToken(batch, items)
    BY DEF ReturnFailure, HandOut
  <1>4. \A t \in tokens' : GoodToken(t)
    BY <1>1, <1>3 DEF IInv, TokensGood
  <1>5. TokensGood'
    BY <1>2, <1>4, GoodTokenKept DEF TokensGood
  <1>6. pc' = "idle" /\ result'.outcome = o
    BY DEF ReturnFailure, Result
  <1>7. QED
    BY <1>5, <1>6 DEF IInv, LoopInv, CompletedPaid, AllPaid

(***************************************************************************)
(* Steps of the loop that leave the plan and the result alone.             *)
(***************************************************************************)
LEMMA InvWithinBatch ==
  ASSUME IInv, TypeOK', PaidGrows, pc # "idle", pc' \in {"attempt", "paying", "backoff"},
         UNCHANGED <<entries, batchSize, stop, batch, succeeded, items, result, tokens>>,
         batch < totalPages(entries, batchSize),
         pc' = "paying" => pos' = 0
  PROVE  IInv'
  <1>1. TokensGood'
    BY TokensKept DEF IInv
  <1>2. Covered(entries, batchSize, batch)'
    <2>1. Covered(entries, batchSize, batch)
      BY DEF IInv, LoopInv
    <2>2. \A i \in 1..Least(batch * batchSize, Len(entries)) : paid'[entries[i]] >= 1
      BY <2>1, CoveredKept DEF IInv, TypeOK
    <2>3. QED
      BY <2>2 DEF Covered
  <1>3. batchCount(entries, batchSize, batch) \in Nat \ {0}
    BY BatchBounds DEF IInv, LoopInv, TypeOK
  <1>4. LoopInv'
    <2>1. pc' = "paying" => pos' < batchCount(entries, batchSize, batch)
      BY <1>3
    <2>2. pc' # "returned" /\ pc' # "batch"
      OBVIOUS
    <2>3. pc' \in {"paying", "returned"} =>
            \A i \in 1..pos' : paid'[entries[batch * batchSize + i]] >= 1
      OBVIOUS
    <2>4. QED
      BY <1>2, <2>1, <2>2, <2>3 DEF IInv, LoopInv
  <1>5. CompletedPaid'
    BY DEF IInv, LoopInv, CompletedPaid, AllPaid
  <1>6. QED
    BY <1>1, <1>4, <1>5 DEF IInv

\* Paying an entry keeps it.
LEMMA InvPayItem ==
  ASSUME IInv, TypeOK', PaidGrows, PayItem
  PROVE  IInv'
  <1> DEFINE count == batchCount(entries, batchSize, batch)
  <1>1. /\ pc = "paying" /\ pos' = pos + 1
        /\ pc' = IF pos + 1 = count THEN "returned" ELSE "paying"
        /\ UNCHANGED <<entries, batchSize, stop, batch, succeeded, items, result, tokens>>
    BY DEF PayItem, callVars
  <1>2. TypeOK /\ Lands
    BY DEF IInv, PayItem
  <1>3. /\ Len(entries) > 0 /\ batch < totalPages(entries, batchSize) /\ pos < count
        /\ Covered(entries, batchSize, batch)
    BY <1>1 DEF IInv, LoopInv
  <1>4. /\ entries \in Collections /\ batchSize \in BatchSizes /\ batch \in Nat /\ pos \in Nat
    BY <1>2 DEF TypeOK
  <1>5. /\ DOMAIN entries = 1..Len(entries) /\ Len(entries) \in Nat
        /\ batch * batchSize \in Nat /\ count \in Nat \ {0}
        /\ batch * batchSize + count = Least((batch + 1) * batchSize, Len(entries))
        /\ (batch + 1) * batchSize \in Nat
    <2>1. (batch + 1) * batchSize = batch * batchSize + batchSize /\ batchSize \in Nat
      BY <1>3, <1>4, BatchBounds
    <2>2. QED
      BY <1>3, <1>4, <2>1, BatchBounds
  <1> DEFINE m == batch * batchSize
  <1>6. m + count <= Len(entries)
    BY <1>5 DEF Least
  <1>7. m \in Nat
    BY <1>5
  <1> HIDE DEF count
  <1>8. \A i \in 1..(pos + 1) : m + i \in DOMAIN entries
    <2> HIDE DEF m
    <2>1. QED
      BY <1>3, <1>4, <1>5, <1>6, <1>7
  <1>9. \A i \in 1..(pos + 1) : entries[m + i] \in AllEntries
    BY <1>4, <1>8, CollectionFacts
  <1>10. current = entries[m + (pos + 1)]
    <2>1. m + pos + 1 = m + (pos + 1)
      BY <1>4, <1>7
    <2>2. QED
      BY <2>1 DEF current
  <1>11. paid'[entries[m + (pos + 1)]] >= 1
    <2>1. current \in AllEntries
      BY <1>4, <1>9, <1>10
    <2>2. paid'[current] >= 1
      BY <1>2, <2>1, LandsGrows
    <2>3. QED
      BY <1>10, <2>2
  <1>12. ASSUME NEW i \in 1..(pos + 1) PROVE paid'[entries[m + i]] >= 1
    <2>1. CASE i = pos + 1
      BY <1>11, <2>1
    <2>2. CASE i # pos + 1
      <3>1. i \in 1..pos
        BY <1>4, <2>2
      <3>2. paid[entries[m + i]] >= 1
        BY <1>1, <3>1 DEF IInv, LoopInv
      <3>3. paid[entries[m + i]] \in Nat /\ paid'[entries[m + i]] \in Nat
        BY <1>2, <1>9 DEF TypeOK
      <3>4. paid'[entries[m + i]] >= paid[entries[m + i]]
        BY <1>9 DEF PaidGrows
      <3>5. QED
        BY <3>2, <3>3, <3>4
    <2>3. QED
      BY <2>1, <2>2
  <1>13. TokensGood'
    BY <1>1, <1>2, TokensKept DEF IInv
  <1>14. Covered(entries, batchSize, batch)'
    <2>1. \A i \in 1..Least(batch * batchSize, Len(entries)) : paid'[entries[i]] >= 1
      BY <1>2, <1>3, <1>4, CoveredKept
    <2>2. QED
      BY <1>1, <2>1 DEF Covered
  <1>15. LoopInv'
    <2>1. count = batchCount(entries, batchSize, batch)'
      BY <1>1 DEF count
    <2>2. pc' \in {"paying", "returned"}
      BY <1>1
    <2>3. pc' = "paying" => pos' < count
      BY <1>1, <1>3, <1>4, <1>5
    <2>4. pc' = "returned" => pos' = count
      BY <1>1
    <2>5. \A i \in 1..pos' : paid'[entries'[batch' * batchSize' + i]] >= 1
      BY <1>1, <1>12
    <2>6. QED
      BY <1>1, <1>14, <2>1, <2>2, <2>3, <2>4, <2>5 DEF IInv, LoopInv
  <1>16. CompletedPaid'
    BY <1>1 DEF IInv, LoopInv, CompletedPaid, AllPaid
  <1>17. QED
    BY <1>1, <1>13, <1>15, <1>16 DEF IInv

\* Completing a batch keeps it.
LEMMA InvCompleteBatch ==
  ASSUME IInv, TypeOK', PaidGrows, CompleteBatch
  PROVE  IInv'
  <1> DEFINE count == batchCount(entries, batchSize, batch)
             m == batch * batchSize
             total == totalPages(entries, batchSize)
  <1>1. /\ pc = "returned" /\ pc' = "batch" /\ batch' = batch + 1 /\ succeeded' = succeeded + 1
        /\ items' = items + count
        /\ tokens' = tokens \cup {makeResumeToken(batch + 1, items')}
        /\ UNCHANGED <<entries, batchSize, stop, result, paid>>
    BY DEF CompleteBatch, HandOut, callVars
  <1>2. TypeOK /\ entries \in Collections /\ batchSize \in BatchSizes /\ batch \in Nat
    BY DEF IInv, TypeOK
  <1>3. /\ Len(entries) > 0 /\ batch < total /\ pos = count
        /\ Covered(entries, batchSize, batch)
        /\ \A i \in 1..pos : paid[entries[m + i]] >= 1
        /\ items = Least(m, Len(entries)) /\ succeeded = batch /\ result.outcome = "none"
    BY <1>1 DEF IInv, LoopInv
  <1>4. /\ Len(entries) \in Nat /\ m \in Nat /\ count \in Nat \ {0} /\ m < Len(entries)
        /\ Least(m, Len(entries)) + count = Least((batch + 1) * batchSize, Len(entries))
        /\ m + count = Least((batch + 1) * batchSize, Len(entries)) /\ total \in Nat
    BY <1>2, <1>3, BatchBounds
  <1>5. items' = Least((batch + 1) * batchSize, Len(entries))
    BY <1>1, <1>3, <1>4
  <1>6. \A i \in 1..m : paid[entries[i]] >= 1
    BY <1>3, <1>4 DEF Covered, Least
  <1> HIDE DEF count, m, total
  <1>7. \A i \in 1..(m + count) : paid[entries[i]] >= 1
    <2> SUFFICES ASSUME NEW i \in 1..(m + count) PROVE paid[entries[i]] >= 1
      OBVIOUS
    <2>1. CASE i <= m
      BY <1>4, <1>6, <2>1
    <2>2. CASE ~(i <= m)
      <3>1. (i - m) \in 1..count /\ m + (i - m) = i
        BY <1>4, <2>2
      <3>2. QED
        BY <1>3, <3>1
    <2>3. QED
      BY <2>1, <2>2
  <1>8. Covered(entries, batchSize, batch + 1)
    BY <1>4, <1>7 DEF Covered
  <1>9. GoodToken(makeResumeToken(batch + 1, items'))
    <2>1. makeResumeToken(batch + 1, items') =
            createBatchResumeToken(entries, batch + 1,
              Least((batch + 1) * batchSize, Len(entries)), batchSize)
      BY <1>5 DEF makeResumeToken
    <2>2. batch + 1 \in Nat
      BY <1>2
    <2>3. QED
      BY <1>2, <1>8, <2>1, <2>2 DEF GoodToken
  <1>10. \A t \in tokens' : GoodToken(t)
    BY <1>1, <1>9 DEF IInv, TokensGood
  <1>11. TokensGood'
    BY <1>2, <1>10, GoodTokenKept DEF TokensGood
  <1>12. LoopInv'
    <2>1. Covered(entries, batchSize, batch)'
      BY <1>1, <1>8 DEF Covered
    <2>2. batch + 1 <= total /\ total = totalPages(entries, batchSize)'
      BY <1>1, <1>2, <1>3, <1>4 DEF total
    <2>3. QED
      BY <1>1, <1>3, <1>5, <2>1, <2>2 DEF LoopInv
  <1>13. CompletedPaid'
    BY <1>1, <1>3 DEF CompletedPaid, AllPaid
  <1>14. QED
    BY <1>1, <1>11, <1>12, <1>13 DEF IInv

\* Finishing keeps it.
LEMMA InvFinish ==
  ASSUME IInv, TypeOK', PaidGrows, Finish
  PROVE  IInv'
  <1>1. /\ pc = "batch" /\ batch >= totalPages(entries, batchSize) /\ pc' = "idle"
        /\ UNCHANGED <<entries, stop, tokens, paid>>
    BY DEF Finish, callVars
  <1>2. /\ TypeOK /\ entries \in Collections /\ batchSize \in BatchSizes /\ batch \in Nat
        /\ Len(entries) > 0 /\ Covered(entries, batchSize, batch)
    BY <1>1 DEF IInv, LoopInv, TypeOK
  <1>3. DOMAIN entries = 1..Least(batch * batchSize, Len(entries))
    BY <1>1, <1>2, WholePlan
  <1>4. CompletedPaid'
    BY <1>1, <1>2, <1>3 DEF Covered, CompletedPaid, AllPaid
  <1>5. TokensGood'
    BY <1>1, <1>2, TokensKept DEF IInv
  <1>6. QED
    BY <1>1, <1>4, <1>5 DEF IInv, LoopInv

(***************************************************************************)
(* The inductive step: one case per action.                                *)
(***************************************************************************)
LEMMA InvStep ==
  ASSUME CommitmentBinds, IInv, [Next]_vars
  PROVE  strict' => IInv'
  <1> SUFFICES ASSUME strict' PROVE IInv'
    OBVIOUS
  <1>1. TypeOK' /\ PaidGrows /\ TypeOK
    BY TypeStep, LedgerGrows DEF IInv
  <1>2. ASSUME FailBatch, UNCHANGED stop, pc # "idle" PROVE IInv'
    <2>1. ReturnFailure("failed")
      BY <1>2 DEF FailBatch, IInv
    <2>2. QED
      BY <1>1, <1>2, <2>1, InvReturnFailure
  <1>3. ASSUME NEW E \in Collections, NEW size \in BatchSizes, NEW s \in StopOptions,
               NEW t \in Offered, Start(E, size, s, t)
        PROVE IInv'
    <2>1. s
      BY <1>3 DEF Start
    <2>2. QED
      BY <1>1, <1>3, <2>1, InvStart
  <1>4. CASE BeginBatch
    <2>1. CASE ReturnFailure("cancelled")
      BY <1>1, <1>4, <2>1, InvReturnFailure DEF BeginBatch, callVars
    <2>2. CASE pc' = "attempt" /\ UNCHANGED <<result, tokens, latest>>
      BY <1>1, <1>4, <2>2, InvWithinBatch DEF BeginBatch, callVars
    <2>3. QED
      BY <1>4, <2>1, <2>2 DEF BeginBatch
  <1>5. CASE BeginAttempt
    <2>1. CASE pc' = "paying" /\ UNCHANGED <<batch, result, tokens, latest>>
      <3>1. batch < totalPages(entries, batchSize)
        BY <1>5 DEF BeginAttempt, IInv, LoopInv
      <3>2. QED
        BY <1>1, <1>5, <2>1, <3>1, InvWithinBatch DEF BeginAttempt, callVars
    <2>2. QED
      BY <1>2, <1>5, <2>1 DEF BeginAttempt, callVars
  <1>6. CASE PayItem
    BY <1>1, <1>6, InvPayItem
  <1>7. ASSUME NEW landed \in BOOLEAN, NEW retryable \in BOOLEAN, PayItemFails(landed, retryable)
        PROVE IInv'
    <2>1. CASE pc' = "backoff" /\ UNCHANGED <<batch, result, tokens, latest>>
      <3>1. batch < totalPages(entries, batchSize)
        BY <1>7 DEF PayItemFails, IInv, LoopInv
      <3>2. QED
        BY <1>1, <1>7, <2>1, <3>1, InvWithinBatch DEF PayItemFails, callVars
    <2>2. QED
      BY <1>2, <1>7, <2>1 DEF PayItemFails, callVars
  <1>8. CASE Backoff
    <2>1. CASE pc' = "attempt" /\ UNCHANGED <<batch, result, tokens, latest>>
      <3>1. batch < totalPages(entries, batchSize)
        BY <1>8 DEF Backoff, IInv, LoopInv
      <3>2. QED
        BY <1>1, <1>8, <2>1, <3>1, InvWithinBatch DEF Backoff, callVars
    <2>2. QED
      BY <1>2, <1>8, <2>1 DEF Backoff, callVars
  <1>9. CASE CompleteBatch
    BY <1>1, <1>9, InvCompleteBatch
  <1>10. CASE Finish
    BY <1>1, <1>10, InvFinish
  <1>11. CASE Abort
    BY <1>1, <1>11
    DEF Abort, callVars, IInv, TokensGood, GoodToken, LoopInv, CompletedPaid, AllPaid, Covered
  <1>12. CASE Crash
    BY <1>1, <1>12
    DEF Crash, callVars, IInv, TokensGood, GoodToken, LoopInv, CompletedPaid, AllPaid, Covered
  <1>13. CASE UNCHANGED vars
    BY <1>1, <1>13
    DEF vars, IInv, TokensGood, GoodToken, LoopInv, CompletedPaid, AllPaid, Covered
  <1>14. QED
    BY <1>3, <1>4, <1>5, <1>6, <1>7, <1>8, <1>9, <1>10, <1>11, <1>12, <1>13 DEF Next, Submitter

(***************************************************************************)
(* A behaviour that is strict now has been strict all along.               *)
(***************************************************************************)
LEMMA StrictBefore == [Next]_vars => (strict' => strict)
  BY ZenonT(60) DEF Next, Submitter, vars, Start, BeginBatch, BeginAttempt, PayItem, PayItemFails, Backoff,
         CompleteBatch, Finish, Abort, Crash, callVars

(***************************************************************************)
(* When the commitment identifies the collection, the invariant holds for  *)
(* as long as every call stops at its first failed batch.                  *)
(***************************************************************************)
THEOREM SubmitterInvariant ==
  ASSUME CommitmentBinds
  PROVE  Spec => []StrictInv
  <1>1. Init => TypeOK
    BY SubmitterTypesInit
  <1>2. Init => StrictInv
    BY <1>1 DEF Init, StrictInv, IInv, TokensGood, LoopInv, CompletedPaid, Result
  <1>3. StrictInv /\ [Next]_vars => StrictInv'
    BY InvStep, StrictBefore, TypeStep DEF StrictInv
  <1>4. QED
    BY <1>2, <1>3, PTL DEF Spec

(***************************************************************************)
(* Every token handed out, however old and across any crashes, retries and *)
(* aborts, skips only batches that are paid, and restores their item count *)
(* (resolveResumeStart, makeResumeToken), for every plan.                  *)
(***************************************************************************)
THEOREM EveryTokenSafe ==
  ASSUME CommitmentBinds
  PROVE  Spec => []TokensSafe
  <1>1. StrictInv => TokensSafe
    <2> SUFFICES ASSUME StrictInv, strict, NEW t \in tokens, NEW E \in Collections,
                        tokenApplies(t, E, t.batchSize)
                 PROVE  /\ Covered(E, t.batchSize, t.nextBatchIndex)
                        /\ t.itemsProcessed = Least(t.nextBatchIndex * t.batchSize, Len(E))
      BY DEF TokensSafe, SafeToken
    <2>1. GoodToken(t) /\ t.batchSize \in BatchSizes
      BY DEF StrictInv, IInv, TokensGood, TypeOK, TokenType
    <2>2. QED
      BY <2>1, AppliedToken
  <1>2. QED
    BY <1>1, SubmitterInvariant, PTL

(***************************************************************************)
(* A result with success = true means that every entry is on the ledger,   *)
(* resumed calls included.                                                 *)
(***************************************************************************)
THEOREM SuccessIsComplete ==
  ASSUME CommitmentBinds
  PROVE  Spec => []SuccessMeansAllPaid
  <1>1. StrictInv => SuccessMeansAllPaid
    BY DEF StrictInv, IInv, CompletedPaid, SuccessMeansAllPaid
  <1>2. QED
    BY <1>1, SubmitterInvariant, PTL

-----------------------------------------------------------------------------
(***************************************************************************)
(* Reports.  The following holds whether or not failed batches are passed  *)
(* over: the positions among the first m of a collection that are paid     *)
(* according to ledger P, and the entries at the first m positions.        *)
(***************************************************************************)
PaidOf(P, E, m) == {i \in 1..Least(m, Len(E)) : P[E[i]] >= 1}

FirstOf(E, m) == {E[i] : i \in 1..Least(m, Len(E))}

MadeFor(t, E, size) ==
  /\ t.nextBatchIndex \in Nat /\ t.itemsProcessed \in Nat
  /\ t = createBatchResumeToken(E, t.nextBatchIndex, t.itemsProcessed, size)

(***************************************************************************)
(* The loop is inside the plan, the batch is paid up to pos, and nothing   *)
(* has been reported yet.                                                  *)
(***************************************************************************)
LoopBounds ==
  pc # "idle" =>
    /\ Len(entries) > 0
    /\ pc # "batch" => batch < totalPages(entries, batchSize)
    /\ pc = "paying" => pos < batchCount(entries, batchSize, batch)
    /\ pc = "returned" => pos = batchCount(entries, batchSize, batch)
    /\ pc \in {"paying", "returned"} =>
         \A i \in 1..pos : paid[entries[batch * batchSize + i]] >= 1
    /\ result.outcome = "none" /\ result.itemsProcessed = 0

(***************************************************************************)
(* Item counts, of tokens and of the loop, are counts of paid positions    *)
(* before the batch they go with.                                          *)
(***************************************************************************)
CountedToken(t) ==
  \E E \in Collections, size \in BatchSizes :
    /\ MadeFor(t, E, size)
    /\ t.itemsProcessed <= Cardinality(PaidOf(paid, E, t.nextBatchIndex * size))

LoopCounts == pc # "idle" => items <= Cardinality(PaidOf(paid, entries, batch * batchSize))

ReportCounts == result.itemsProcessed <= Cardinality(PaidOf(paid, entries, Len(entries)))

CountInv == LoopBounds /\ (\A t \in tokens : CountedToken(t)) /\ LoopCounts /\ ReportCounts

(***************************************************************************)
(* The newest token lies behind every batch reported completed, and a call *)
(* that is under way is at or behind the batch it names.                   *)
(***************************************************************************)
NewestCovers ==
  newest =>
    /\ latest = NoToken => completed = {}
    /\ latest # NoToken =>
         \E E \in Collections, size \in BatchSizes :
           /\ MadeFor(latest, E, size)
           /\ completed \subseteq FirstOf(E, latest.nextBatchIndex * size)
           /\ pc # "idle" => entries = E /\ batchSize = size /\ latest.nextBatchIndex <= batch
(***************************************************************************)
(* Counting paid positions: finite, and monotone in the ledger and in m.   *)
(***************************************************************************)
LEMMA PaidCount ==
  ASSUME NEW E \in Collections, NEW P \in [AllEntries -> Nat], NEW Q \in [AllEntries -> Nat],
         \A e \in AllEntries : Q[e] >= P[e], NEW m \in Nat, NEW k \in Nat, m <= k
  PROVE  /\ IsFiniteSet(PaidOf(P, E, m)) /\ Cardinality(PaidOf(P, E, m)) \in Nat
         /\ Cardinality(PaidOf(Q, E, k)) \in Nat
         /\ Cardinality(PaidOf(P, E, m)) <= Cardinality(PaidOf(Q, E, k))
  <1>1. Len(E) \in Nat /\ DOMAIN E = 1..Len(E) /\ \A i \in 1..Len(E) : E[i] \in AllEntries
    <2>1. Len(E) \in Nat /\ DOMAIN E = 1..Len(E)
      BY CollectionsAssumption
    <2>2. QED
      BY <2>1 DEF AllEntries
  <1>2. 1..Least(m, Len(E)) \subseteq 1..Least(k, Len(E)) /\ 1..Least(k, Len(E)) \subseteq 1..Len(E)
    BY <1>1 DEF Least
  <1>3. PaidOf(P, E, m) \subseteq PaidOf(Q, E, k)
    <2> SUFFICES ASSUME NEW i \in 1..Least(m, Len(E)), P[E[i]] >= 1 PROVE Q[E[i]] >= 1
      BY <1>2 DEF PaidOf
    <2>1. E[i] \in AllEntries
      BY <1>1, <1>2
    <2>2. P[E[i]] \in Nat /\ Q[E[i]] \in Nat /\ Q[E[i]] >= P[E[i]]
      BY <2>1
    <2>3. QED
      BY <2>2
  <1>4. PaidOf(Q, E, k) \subseteq 1..Len(E)
    BY <1>2 DEF PaidOf
  <1>5. IsFiniteSet(1..Len(E))
    BY <1>1, FS_Interval
  <1>6. IsFiniteSet(PaidOf(Q, E, k))
    BY <1>4, <1>5, FS_Subset
  <1>7. IsFiniteSet(PaidOf(P, E, m)) /\ Cardinality(PaidOf(P, E, m)) <= Cardinality(PaidOf(Q, E, k))
    BY <1>3, <1>6, FS_Subset
  <1>8. QED
    BY <1>6, <1>7, FS_CardinalityType

(***************************************************************************)
(* A batch that is paid adds its count.                                    *)
(***************************************************************************)
LEMMA PaidBatchCounts ==
  ASSUME NEW E \in Collections, NEW P \in [AllEntries -> Nat], NEW m \in Nat, NEW k \in Nat,
         NEW count \in Nat, m <= Len(E), m + count = Least(k, Len(E)), m <= k,
         \A i \in 1..count : P[E[m + i]] >= 1
  PROVE  Cardinality(PaidOf(P, E, m)) + count <= Cardinality(PaidOf(P, E, k))
  <1> DEFINE S == PaidOf(P, E, m)
             T == (m + 1)..(m + count)
  <1>1. Len(E) \in Nat
    BY CollectionsAssumption
  <1>2. IsFiniteSet(T) /\ Cardinality(T) = count
    <2>1. /\ IsFiniteSet((m + 1)..(m + count))
          /\ Cardinality((m + 1)..(m + count)) =
               IF m + 1 > m + count THEN 0 ELSE (m + count) - (m + 1) + 1
      BY FS_Interval
    <2>2. QED
      BY <2>1
  <1>3. (\A e \in AllEntries : P[e] >= P[e]) /\ m <= m /\ k <= k
    OBVIOUS
  <1>4. IsFiniteSet(S) /\ Cardinality(S) \in Nat /\ IsFiniteSet(PaidOf(P, E, k))
    BY <1>3, PaidCount
  <1>5. S \cap T = {}
    <2>1. \A i \in S : i <= m /\ i \in Int
      BY <1>1 DEF PaidOf, Least
    <2>2. \A i \in T : i > m /\ i \in Int
      OBVIOUS
    <2> HIDE DEF S, T
    <2>3. QED
      BY <2>1, <2>2
  <1>6. S \cup T \subseteq PaidOf(P, E, k)
    <2>1. S \subseteq PaidOf(P, E, k)
      BY <1>1 DEF PaidOf, Least
    <2>2. ASSUME NEW i \in T PROVE i \in 1..Least(k, Len(E)) /\ P[E[i]] >= 1
      <3>1. i - m \in 1..count /\ m + (i - m) = i
        OBVIOUS
      <3>2. P[E[i]] >= 1
        BY <3>1
      <3>3. i \in 1..(m + count)
        OBVIOUS
      <3>4. QED
        BY <3>2, <3>3
    <2> HIDE DEF S, T
    <2>3. QED
      BY <2>1, <2>2 DEF PaidOf
  <1>7. Cardinality(S \cup T) = Cardinality(S) + Cardinality(T) - Cardinality(S \cap T)
    BY <1>2, <1>4, FS_Union
  <1>8. Cardinality(S \cap T) = 0
    BY <1>5, FS_EmptySet
  <1>9. Cardinality(S \cup T) <= Cardinality(PaidOf(P, E, k))
    BY <1>4, <1>6, FS_Subset
  <1> HIDE DEF S, T
  <1>10. Cardinality(S \cup T) = Cardinality(S) + count
    BY <1>2, <1>4, <1>7, <1>8
  <1>11. QED
    BY <1>9, <1>10 DEF S

(***************************************************************************)
(* What resolveResumeStart accepts was made for this very plan, whatever   *)
(* the failures before.                                                    *)
(***************************************************************************)
LEMMA AcceptedToken ==
  ASSUME CommitmentBinds, NEW E \in Collections, NEW size \in BatchSizes, NEW t,
         NEW F \in Collections, NEW s \in BatchSizes, MadeFor(t, F, s), tokenApplies(t, E, size)
  PROVE  F = E /\ s = size
  <1>1. t.commitment = computeEntriesCommitment(F) /\ t.batchSize = s
    BY DEF MadeFor, createBatchResumeToken
  <1>2. QED
    BY <1>1 DEF tokenApplies, CommitmentBinds

\* The token of a batch says where to go on and how much is done.
LEMMA FreshTokenMade ==
  ASSUME TypeOK, NEW n \in Nat, NEW d \in Nat
  PROVE  /\ MadeFor(makeResumeToken(n, d), entries, batchSize)
         /\ makeResumeToken(n, d).nextBatchIndex = n /\ makeResumeToken(n, d).itemsProcessed = d
         /\ makeResumeToken(n, d) # NoToken
  <1>1. entries \in Collections /\ batchSize \in BatchSizes
    BY DEF TypeOK
  <1>2. Len(entries) \in Nat /\ totalPages(entries, batchSize) \in Nat
    BY <1>1, CollectionFacts
  <1>3. makeResumeToken(n, d).nextBatchIndex = n /\ makeResumeToken(n, d).itemsProcessed = d
    BY DEF makeResumeToken, createBatchResumeToken
  <1>4. makeResumeToken(n, d) # NoToken
    BY <1>1, <1>2, NoTokenAssumption DEF makeResumeToken, createBatchResumeToken
  <1>5. QED
    BY <1>3, <1>4 DEF MadeFor, makeResumeToken

\* A token that counts what is paid remains one.
LEMMA CountedKept ==
  ASSUME TypeOK, TypeOK', PaidGrows, NEW t, CountedToken(t)
  PROVE  CountedToken(t)'
  <1>1. PICK E \in Collections, size \in BatchSizes :
          /\ MadeFor(t, E, size)
          /\ t.itemsProcessed <= Cardinality(PaidOf(paid, E, t.nextBatchIndex * size))
    BY DEF CountedToken
  <1> DEFINE m == t.nextBatchIndex * size
  <1>2. m \in Nat /\ t.itemsProcessed \in Nat
    BY <1>1, BatchSizesAssumption DEF MadeFor
  <1> HIDE DEF m
  <1>3. /\ Cardinality(PaidOf(paid, E, m)) \in Nat /\ Cardinality(PaidOf(paid', E, m)) \in Nat
        /\ Cardinality(PaidOf(paid, E, m)) <= Cardinality(PaidOf(paid', E, m))
    <2>1. paid \in [AllEntries -> Nat] /\ paid' \in [AllEntries -> Nat] /\ m <= m
      BY <1>2 DEF TypeOK
    <2>2. QED
      BY <1>2, <2>1, PaidCount DEF PaidGrows
  <1>4. t.itemsProcessed <= Cardinality(PaidOf(paid', E, m))
    BY <1>1, <1>2, <1>3 DEF m
  <1>5. QED
    BY <1>1, <1>4 DEF m, CountedToken
\* The paid entries of a prefix are no more than those of the whole, later on.
LEMMA PaidWhole ==
  ASSUME NEW E \in Collections, NEW P \in [AllEntries -> Nat], NEW Q \in [AllEntries -> Nat],
         \A e \in AllEntries : Q[e] >= P[e], NEW m \in Nat
  PROVE  /\ Cardinality(PaidOf(P, E, m)) \in Nat /\ Cardinality(PaidOf(Q, E, Len(E))) \in Nat
         /\ Cardinality(PaidOf(P, E, m)) <= Cardinality(PaidOf(Q, E, Len(E)))
  <1> DEFINE k == Least(m, Len(E))
  <1>1. Len(E) \in Nat
    BY CollectionsAssumption
  <1>2. k \in Nat /\ k <= Len(E) /\ Least(k, Len(E)) = Least(m, Len(E))
    BY <1>1 DEF Least
  <1> HIDE DEF k
  <1>3. PaidOf(P, E, m) = PaidOf(P, E, k)
    BY <1>2 DEF PaidOf
  <1>4. QED
    BY <1>1, <1>2, <1>3, PaidCount

\* The numbers of a running submission are naturals.
LEMMA PlanNumbers ==
  ASSUME TypeOK
  PROVE  /\ entries \in Collections /\ batchSize \in Nat \ {0} /\ Len(entries) \in Nat
         /\ batch \in Nat /\ items \in Nat
         /\ batch * batchSize \in Nat /\ (batch + 1) * batchSize \in Nat
         /\ batch * batchSize <= (batch + 1) * batchSize
         /\ (batch + 1) * batchSize = batch * batchSize + batchSize
  <1>1. entries \in Collections /\ batchSize \in Nat \ {0} /\ batch \in Nat /\ items \in Nat
    BY BatchSizesAssumption DEF TypeOK
  <1>2. Len(entries) \in Nat
    BY <1>1, CollectionsAssumption
  <1>3. (batch + 1) * batchSize = batch * batchSize + batchSize /\ batch * batchSize \in Nat
    BY <1>1
  <1>4. QED
    BY <1>1, <1>2, <1>3

(***************************************************************************)
(* The counts are kept while the loop moves within or past a batch.        *)
(***************************************************************************)
LEMMA CountQuiet ==
  ASSUME TypeOK, TypeOK', PaidGrows, CountInv, pc # "idle",
         UNCHANGED <<entries, batchSize, items, result, tokens>>,
         batch' = batch \/ (batch' = batch + 1 /\ pc' = "batch"),
         pc' \in {"batch", "attempt", "paying", "backoff", "idle"},
         pc' \notin {"batch", "idle"} => batch < totalPages(entries, batchSize),
         pc' = "paying" => pos' = 0
  PROVE  CountInv'
  <1> DEFINE E == entries
             P == paid
             Q == paid'
             m == batch * batchSize
             n == (batch + 1) * batchSize
  <1>1. /\ E \in Collections /\ m \in Nat /\ n \in Nat /\ m <= n /\ m <= m /\ Len(E) <= Len(E)
        /\ Len(E) \in Nat /\ items \in Nat /\ P \in [AllEntries -> Nat] /\ Q \in [AllEntries -> Nat]
        /\ result.itemsProcessed \in Nat
    BY PlanNumbers, SMTT(30) DEF TypeOK
  <1>2. \A e \in AllEntries : Q[e] >= P[e]
    BY DEF PaidGrows
  <1> HIDE DEF E, P, Q, m, n
  <1>3. /\ Cardinality(PaidOf(P, E, m)) \in Nat
        /\ Cardinality(PaidOf(Q, E, m)) \in Nat /\ Cardinality(PaidOf(Q, E, n)) \in Nat
        /\ Cardinality(PaidOf(P, E, m)) <= Cardinality(PaidOf(Q, E, m))
        /\ Cardinality(PaidOf(P, E, m)) <= Cardinality(PaidOf(Q, E, n))
    BY <1>1, <1>2, PaidCount
  <1>4. /\ Cardinality(PaidOf(P, E, Len(E))) \in Nat /\ Cardinality(PaidOf(Q, E, Len(E))) \in Nat
        /\ Cardinality(PaidOf(P, E, Len(E))) <= Cardinality(PaidOf(Q, E, Len(E)))
    BY <1>1, <1>2, PaidCount
  <1>5. LoopCounts'
    <2>1. items <= Cardinality(PaidOf(P, E, m))
      BY DEF CountInv, LoopCounts, P, E, m
    <2>2. items <= Cardinality(PaidOf(Q, E, m)) /\ items <= Cardinality(PaidOf(Q, E, n))
      BY <1>1, <1>3, <2>1
    <2>3. batch' * batchSize' = m \/ batch' * batchSize' = n
      BY DEF m, n
    <2>4. QED
      BY <2>2, <2>3 DEF LoopCounts, Q, E
  <1>6. ReportCounts'
    <2>1. result.itemsProcessed <= Cardinality(PaidOf(P, E, Len(E)))
      BY DEF CountInv, ReportCounts, P, E
    <2>2. result.itemsProcessed <= Cardinality(PaidOf(Q, E, Len(E)))
      BY <1>1, <1>4, <2>1
    <2>3. QED
      BY <2>2 DEF ReportCounts, Q, E
  <1>7. \A t \in tokens' : CountedToken(t)'
    BY CountedKept DEF CountInv
  <1>8. LoopBounds'
    <2>1. Len(entries) > 0 /\ result.outcome = "none" /\ result.itemsProcessed = 0
      BY DEF CountInv, LoopBounds
    <2>2. pc' # "idle" /\ pc' # "batch" => batchCount(entries, batchSize, batch) \in Nat \ {0}
      BY <2>1, BatchBounds DEF TypeOK
    <2>3. pc' # "idle" /\ pc' # "batch" => batch' = batch
      OBVIOUS
    <2>4. pc' = "paying" => pos' < batchCount(entries, batchSize, batch)
      BY <2>2
    <2>5. QED
      BY <2>1, <2>3, <2>4 DEF LoopBounds
  <1>9. QED
    BY <1>5, <1>6, <1>7, <1>8 DEF CountInv

\* Returning a failure keeps the count exact.
LEMMA CountReturn ==
  ASSUME TypeOK, TypeOK', PaidGrows, CountInv, pc # "idle", NEW o, ReturnFailure(o),
         UNCHANGED <<entries, batchSize, batch, items>>
  PROVE  CountInv'
  <1> DEFINE E == entries
             P == paid
             Q == paid'
             m == batch * batchSize
  <1>1. /\ E \in Collections /\ m \in Nat
        /\ Len(E) \in Nat /\ items \in Nat /\ P \in [AllEntries -> Nat] /\ Q \in [AllEntries -> Nat]
    BY PlanNumbers DEF TypeOK
  <1>2. (\A e \in AllEntries : Q[e] >= P[e]) /\ items <= Cardinality(PaidOf(P, E, m))
    BY DEF PaidGrows, CountInv, LoopCounts
  <1>3. pc' = "idle" /\ result'.itemsProcessed = items
    BY DEF ReturnFailure, Result
  <1>4. \A t \in tokens' : CountedToken(t)'
    <2>1. \A t \in tokens' : t \in tokens \/ t = makeResumeToken(batch, items)
      BY DEF ReturnFailure, HandOut
    <2>2. CountedToken(makeResumeToken(batch, items))
      <3>1. /\ MadeFor(makeResumeToken(batch, items), entries, batchSize)
            /\ makeResumeToken(batch, items).nextBatchIndex = batch
            /\ makeResumeToken(batch, items).itemsProcessed = items
        BY FreshTokenMade DEF TypeOK
      <3>2. entries \in Collections /\ batchSize \in BatchSizes
        BY DEF TypeOK
      <3>3. QED
        BY <1>2, <3>1, <3>2 DEF CountedToken
    <2>3. QED
      BY <2>1, <2>2, CountedKept DEF CountInv
  <1> HIDE DEF E, P, Q, m
  <1>5. /\ Cardinality(PaidOf(P, E, m)) \in Nat /\ Cardinality(PaidOf(Q, E, Len(E))) \in Nat
        /\ Cardinality(PaidOf(P, E, m)) <= Cardinality(PaidOf(Q, E, Len(E)))
    BY <1>1, <1>2, PaidWhole
  <1>6. items <= Cardinality(PaidOf(Q, E, Len(E)))
    BY <1>1, <1>2, <1>5
  <1>7. ReportCounts'
    BY <1>3, <1>6 DEF ReportCounts, Q, E
  <1>8. QED
    BY <1>3, <1>4, <1>7 DEF CountInv, LoopBounds, LoopCounts
\* Starting keeps it.
LEMMA CountStart ==
  ASSUME CommitmentBinds, TypeOK, TypeOK', PaidGrows, CountInv,
         NEW E \in Collections, NEW size \in BatchSizes, NEW s \in StopOptions, NEW t \in Offered,
         Start(E, size, s, t)
  PROVE  CountInv'
  <1>1. entries' = E /\ batchSize' = size /\ pos' = 0 /\ tokens' = tokens /\ paid' = paid
    BY DEF Start
  <1>2. \A u \in tokens' : CountedToken(u)'
    BY <1>1, CountedKept DEF CountInv
  <1>3. paid \in [AllEntries -> Nat] /\ (\A e \in AllEntries : paid[e] >= paid[e]) /\ Len(E) \in Nat
    BY CollectionsAssumption DEF TypeOK
  <1>4. \A m \in Nat : /\ Cardinality(PaidOf(paid, E, m)) \in Nat
                       /\ Cardinality(PaidOf(paid, E, Len(E))) \in Nat
                       /\ Cardinality(PaidOf(paid, E, m)) <= Cardinality(PaidOf(paid, E, Len(E)))
    BY <1>3, PaidWhole
  <1>5. ASSUME NEW o, NEW n, ReturnAtOnce(o, n, 0) PROVE CountInv'
    <2>1. pc' = "idle" /\ result'.itemsProcessed = 0
      BY <1>5 DEF ReturnAtOnce, Result
    <2>2. 0 <= Cardinality(PaidOf(paid, E, Len(E)))
      BY <1>3, <1>4
    <2>3. QED
      BY <1>1, <1>2, <2>1, <2>2 DEF CountInv, LoopBounds, LoopCounts, ReportCounts
  <1>6. ASSUME NEW n \in Nat, NEW d \in Nat, Len(E) > 0, d <= Cardinality(PaidOf(paid, E, n * size)),
               EnterLoop(n, d)
        PROVE  CountInv'
    <2>1. /\ pc' = "batch" /\ batch' = n /\ items' = d
          /\ result'.outcome = "none" /\ result'.itemsProcessed = 0
      BY <1>6 DEF EnterLoop, Result
    <2>2. 0 <= Cardinality(PaidOf(paid, E, Len(E)))
      BY <1>3, <1>4
    <2>3. QED
      BY <1>1, <1>2, <1>6, <2>1, <2>2 DEF CountInv, LoopBounds, LoopCounts, ReportCounts
  <1>7. CASE Len(E) > 0 /\ t = NoToken /\ EnterLoop(0, 0)
    <2>1. 0 * size = 0 /\ 0 <= Cardinality(PaidOf(paid, E, 0))
      BY <1>4, BatchSizesAssumption
    <2>2. QED
      BY <1>6, <1>7, <2>1
  <1>8. CASE /\ Len(E) > 0 /\ t # NoToken /\ tokenApplies(t, E, size)
             /\ IF t.nextBatchIndex >= totalPages(E, size)
                THEN ReturnAtOnce("completed", totalPages(E, size), t.itemsProcessed)
                ELSE EnterLoop(t.nextBatchIndex, t.itemsProcessed)
    <2>1. CountedToken(t)
      BY <1>8 DEF Offered, CountInv
    <2>2. PICK F \in Collections, z \in BatchSizes :
            /\ MadeFor(t, F, z)
            /\ t.itemsProcessed <= Cardinality(PaidOf(paid, F, t.nextBatchIndex * z))
      BY <2>1 DEF CountedToken
    <2>3. F = E /\ z = size
      BY <1>8, <2>2, AcceptedToken
    <2> DEFINE n == t.nextBatchIndex
               d == t.itemsProcessed
               m == n * size
    <2>4. n \in Nat /\ d \in Nat /\ d <= Cardinality(PaidOf(paid, E, m))
      BY <2>2, <2>3 DEF MadeFor
    <2>5. m \in Nat
      BY <2>4, BatchSizesAssumption
    <2>6. CASE ReturnAtOnce("completed", totalPages(E, size), d)
      <3>1. pc' = "idle" /\ result'.itemsProcessed = d
        BY <2>6 DEF ReturnAtOnce, Result
      <3>2. d <= Cardinality(PaidOf(paid, E, Len(E)))
        <4> HIDE DEF d, m
        <4>1. QED
          BY <1>4, <2>4, <2>5
      <3>3. QED
        BY <1>1, <1>2, <3>1, <3>2 DEF CountInv, LoopBounds, LoopCounts, ReportCounts
    <2>7. CASE EnterLoop(n, d)
      BY <1>6, <1>8, <2>4, <2>7
    <2>8. QED
      BY <1>8, <2>6, <2>7
  <1>9. QED
    BY <1>5, <1>7, <1>8 DEF Start

\* Paying an entry keeps it.
LEMMA CountPayItem ==
  ASSUME TypeOK, TypeOK', PaidGrows, CountInv, PayItem
  PROVE  CountInv'
  <1> DEFINE count == batchCount(entries, batchSize, batch)
             m == batch * batchSize
             E == entries
             P == paid
             Q == paid'
  <1>1. /\ pc = "paying" /\ pos' = pos + 1
        /\ pc' = IF pos + 1 = count THEN "returned" ELSE "paying"
        /\ UNCHANGED <<entries, batchSize, batch, items, result, tokens>>
    BY DEF PayItem, callVars
  <1>2. /\ Len(E) > 0 /\ batch < totalPages(E, batchSize) /\ pos < count
        /\ \A i \in 1..pos : P[E[m + i]] >= 1
        /\ items <= Cardinality(PaidOf(P, E, m))
        /\ result.outcome = "none" /\ result.itemsProcessed = 0
    BY <1>1 DEF CountInv, LoopBounds, LoopCounts
  <1>3. /\ E \in Collections /\ batchSize \in BatchSizes /\ batch \in Nat /\ pos \in Nat /\ items \in Nat
        /\ P \in [AllEntries -> Nat] /\ Q \in [AllEntries -> Nat]
    BY DEF TypeOK
  <1>4. /\ DOMAIN E = 1..Len(E) /\ Len(E) \in Nat /\ m \in Nat /\ count \in Nat \ {0}
        /\ m < Len(E) /\ m + count = Least((batch + 1) * batchSize, Len(E))
        /\ (batch + 1) * batchSize \in Nat
    BY <1>2, <1>3, BatchBounds, PlanNumbers
  <1>5. m + count <= Len(E)
    <2> DEFINE n == (batch + 1) * batchSize
    <2>1. n \in Nat /\ m + count = Least(n, Len(E)) /\ Len(E) \in Nat
      BY <1>4
    <2> HIDE DEF n
    <2>2. QED
      BY <2>1 DEF Least
  <1>6. \A e \in AllEntries : Q[e] >= P[e]
    BY DEF PaidGrows
  <1>7. current = E[m + (pos + 1)]
    <2>1. m + pos + 1 = m + (pos + 1)
      BY <1>3, <1>4
    <2>2. QED
      BY <2>1 DEF current
  <1> HIDE DEF count, m
  <1>8. \A i \in 1..(pos + 1) : m + i \in DOMAIN E /\ E[m + i] \in AllEntries
    <2>1. \A i \in 1..(pos + 1) : m + i \in DOMAIN E
      BY <1>2, <1>3, <1>4, <1>5
    <2>2. QED
      BY <1>3, <2>1, CollectionFacts
  <1>9. Q[E[m + (pos + 1)]] >= 1
    <2>1. current \in AllEntries
      BY <1>3, <1>7, <1>8
    <2>2. Lands
      BY DEF PayItem
    <2>3. QED
      BY <1>7, <2>1, <2>2, LandsGrows
  <1>10. ASSUME NEW i \in 1..(pos + 1) PROVE Q[E[m + i]] >= 1
    <2>1. CASE i = pos + 1
      BY <1>9, <2>1
    <2>2. CASE i # pos + 1
      <3>1. i \in 1..pos
        BY <1>3, <2>2
      <3>2. P[E[m + i]] >= 1 /\ P[E[m + i]] \in Nat /\ Q[E[m + i]] \in Nat
        BY <1>2, <1>3, <1>8, <3>1
      <3>3. Q[E[m + i]] >= P[E[m + i]]
        BY <1>6, <1>8
      <3>4. QED
        BY <3>2, <3>3
    <2>3. QED
      BY <2>1, <2>2
  <1>11. LoopBounds'
    <2>1. count = batchCount(entries, batchSize, batch)' /\ m = (batch * batchSize)'
      BY <1>1 DEF count, m
    <2>2. (pc' = "paying" => pos' < count) /\ (pc' = "returned" => pos' = count)
      BY <1>1, <1>2, <1>3, <1>4
    <2>3. \A i \in 1..pos' : paid'[entries'[m + i]] >= 1
      BY <1>1, <1>10
    <2>4. QED
      BY <1>1, <1>2, <2>1, <2>2, <2>3 DEF LoopBounds
  <1>12. \A t \in tokens' : CountedToken(t)'
    BY <1>1, CountedKept DEF CountInv
  <1>13. m <= m /\ Len(E) <= Len(E)
    BY <1>4
  <1> HIDE DEF E, P, Q
  <1>14. /\ Cardinality(PaidOf(P, E, m)) \in Nat /\ Cardinality(PaidOf(Q, E, m)) \in Nat
         /\ Cardinality(PaidOf(P, E, m)) <= Cardinality(PaidOf(Q, E, m))
         /\ Cardinality(PaidOf(Q, E, Len(E))) \in Nat
    BY <1>3, <1>4, <1>6, <1>13, PaidCount
  <1>15. items <= Cardinality(PaidOf(Q, E, m)) /\ 0 <= Cardinality(PaidOf(Q, E, Len(E)))
    BY <1>2, <1>3, <1>14
  <1>16. LoopCounts' /\ ReportCounts'
    BY <1>1, <1>2, <1>15 DEF LoopCounts, ReportCounts, E, Q, m
  <1>17. QED
    BY <1>11, <1>12, <1>16 DEF CountInv

\* Completing a batch keeps it.
LEMMA CountCompleteBatch ==
  ASSUME TypeOK, TypeOK', PaidGrows, CountInv, CompleteBatch
  PROVE  CountInv'
  <1> DEFINE count == batchCount(entries, batchSize, batch)
             m == batch * batchSize
             n == (batch + 1) * batchSize
             E == entries
             P == paid
  <1>1. /\ pc = "returned" /\ pc' = "batch" /\ batch' = batch + 1
        /\ items' = items + count
        /\ tokens' = tokens \cup {makeResumeToken(batch + 1, items')}
        /\ UNCHANGED <<entries, batchSize, result, paid>>
    BY DEF CompleteBatch, HandOut, callVars
  <1>2. /\ Len(E) > 0 /\ batch < totalPages(E, batchSize) /\ pos = count
        /\ \A i \in 1..pos : P[E[m + i]] >= 1
        /\ items <= Cardinality(PaidOf(P, E, m))
        /\ result.outcome = "none" /\ result.itemsProcessed = 0
    BY <1>1 DEF CountInv, LoopBounds, LoopCounts
  <1>3. /\ E \in Collections /\ batchSize \in BatchSizes /\ batch \in Nat /\ items \in Nat
        /\ P \in [AllEntries -> Nat] /\ \A e \in AllEntries : P[e] >= P[e]
    BY DEF TypeOK
  <1>4. /\ Len(E) \in Nat /\ m \in Nat /\ count \in Nat \ {0}
        /\ m < Len(E) /\ m + count = Least(n, Len(E))
        /\ n \in Nat /\ m <= n
    BY <1>2, <1>3, BatchBounds, PlanNumbers
  <1>5. items' \in Nat /\ batch + 1 \in Nat
    BY <1>1, <1>3, <1>4
  <1>6. ASSUME items' <= Cardinality(PaidOf(P, E, n))
        PROVE  LoopCounts' /\ \A t \in tokens' : CountedToken(t)'
    <2>1. LoopCounts'
      BY <1>1, <1>6 DEF LoopCounts
    <2> DEFINE u == makeResumeToken(batch + 1, items')
    <2>2. MadeFor(u, entries, batchSize) /\ u.nextBatchIndex = batch + 1 /\ u.itemsProcessed = items'
      BY <1>5, FreshTokenMade
    <2> HIDE DEF u
    <2>3. CountedToken(u)
      BY <1>3, <1>6, <2>2 DEF CountedToken
    <2>4. \A t \in tokens' : CountedToken(t)
      BY <1>1, <2>3 DEF CountInv, u
    <2>5. QED
      BY <2>1, <2>4, CountedKept
  <1>7. LoopBounds' /\ ReportCounts'
    BY <1>1, <1>2 DEF CountInv, LoopBounds, ReportCounts
  <1> HIDE DEF count, m, n, E, P
  <1>8. Cardinality(PaidOf(P, E, m)) + count <= Cardinality(PaidOf(P, E, n))
    <2>1. m <= Len(E) /\ \A i \in 1..count : P[E[m + i]] >= 1
      BY <1>2, <1>4
    <2>2. QED
      BY <1>3, <1>4, <2>1, PaidBatchCounts
  <1>9. /\ Cardinality(PaidOf(P, E, m)) \in Nat /\ Cardinality(PaidOf(P, E, n)) \in Nat
    BY <1>3, <1>4, PaidCount
  <1>10. items' <= Cardinality(PaidOf(P, E, n))
    BY <1>1, <1>2, <1>3, <1>4, <1>8, <1>9
  <1>11. QED
    BY <1>6, <1>7, <1>10 DEF CountInv

\* Finishing keeps it.
LEMMA CountFinish ==
  ASSUME TypeOK, TypeOK', PaidGrows, CountInv, Finish
  PROVE  CountInv'
  <1>1. /\ pc = "batch" /\ pc' = "idle" /\ result'.itemsProcessed = items
        /\ UNCHANGED <<entries, batchSize, batch, items, tokens, paid>>
    BY DEF Finish, Result, callVars
  <1> DEFINE m == batch * batchSize
  <1>2. /\ entries \in Collections /\ m \in Nat /\ items \in Nat /\ paid \in [AllEntries -> Nat]
        /\ \A e \in AllEntries : paid[e] >= paid[e]
    <2>1. paid \in [AllEntries -> Nat]
      BY DEF TypeOK
    <2>2. \A e \in AllEntries : paid[e] >= paid[e]
      BY <2>1
    <2>3. QED
      BY <2>1, <2>2, PlanNumbers
  <1>3. items <= Cardinality(PaidOf(paid, entries, m))
    BY <1>1 DEF CountInv, LoopCounts
  <1> HIDE DEF m
  <1>4. /\ Cardinality(PaidOf(paid, entries, m)) \in Nat
        /\ Cardinality(PaidOf(paid, entries, Len(entries))) \in Nat
        /\ Cardinality(PaidOf(paid, entries, m)) <= Cardinality(PaidOf(paid, entries, Len(entries)))
    BY <1>2, PaidWhole
  <1>5. items <= Cardinality(PaidOf(paid, entries, Len(entries)))
    BY <1>2, <1>3, <1>4
  <1>6. \A t \in tokens' : CountedToken(t)'
    BY <1>1, CountedKept DEF CountInv
  <1>7. QED
    BY <1>1, <1>5, <1>6 DEF CountInv, LoopBounds, LoopCounts, ReportCounts
\* Every step keeps it.
LEMMA CountStep ==
  ASSUME CommitmentBinds, TypeOK, CountInv, [Next]_vars
  PROVE  CountInv'
  <1>1. TypeOK' /\ PaidGrows
    BY TypeStep, LedgerGrows
  <1>2. ASSUME FailBatch, pc # "idle", UNCHANGED <<entries, batchSize, items>> PROVE CountInv'
    <2>1. CASE ReturnFailure("failed") /\ UNCHANGED batch
      BY <1>1, <1>2, <2>1, CountReturn
    <2>2. CASE pc' = "batch" /\ batch' = batch + 1 /\ UNCHANGED <<result, tokens, latest>>
      BY <1>1, <1>2, <2>2, CountQuiet
    <2>3. QED
      BY <1>2, <2>1, <2>2 DEF FailBatch
  <1>3. ASSUME NEW E \in Collections, NEW size \in BatchSizes, NEW s \in StopOptions,
               NEW t \in Offered, Start(E, size, s, t)
        PROVE CountInv'
    BY <1>1, <1>3, CountStart
  <1>4. CASE BeginBatch
    <2>1. CASE ReturnFailure("cancelled")
      BY <1>1, <1>4, <2>1, CountReturn DEF BeginBatch, callVars
    <2>2. CASE pc' = "attempt" /\ UNCHANGED <<result, tokens, latest>>
      BY <1>1, <1>4, <2>2, CountQuiet DEF BeginBatch, callVars
    <2>3. QED
      BY <1>4, <2>1, <2>2 DEF BeginBatch
  <1>5. CASE BeginAttempt
    <2>1. CASE pc' = "paying" /\ UNCHANGED <<batch, result, tokens, latest>>
      <3>1. batch < totalPages(entries, batchSize)
        BY <1>5 DEF BeginAttempt, CountInv, LoopBounds
      <3>2. QED
        BY <1>1, <1>5, <2>1, <3>1, CountQuiet DEF BeginAttempt, callVars
    <2>2. QED
      BY <1>2, <1>5, <2>1 DEF BeginAttempt, callVars
  <1>6. CASE PayItem
    BY <1>1, <1>6, CountPayItem
  <1>7. ASSUME NEW landed \in BOOLEAN, NEW retryable \in BOOLEAN, PayItemFails(landed, retryable)
        PROVE CountInv'
    <2>1. CASE pc' = "backoff" /\ UNCHANGED <<batch, result, tokens, latest>>
      <3>1. batch < totalPages(entries, batchSize)
        BY <1>7 DEF PayItemFails, CountInv, LoopBounds
      <3>2. QED
        BY <1>1, <1>7, <2>1, <3>1, CountQuiet DEF PayItemFails, callVars
    <2>2. QED
      BY <1>2, <1>7, <2>1 DEF PayItemFails, callVars
  <1>8. CASE Backoff
    <2>1. CASE pc' = "attempt" /\ UNCHANGED <<batch, result, tokens, latest>>
      <3>1. batch < totalPages(entries, batchSize)
        BY <1>8 DEF Backoff, CountInv, LoopBounds
      <3>2. QED
        BY <1>1, <1>8, <2>1, <3>1, CountQuiet DEF Backoff, callVars
    <2>2. QED
      BY <1>2, <1>8, <2>1 DEF Backoff, callVars
  <1>9. CASE CompleteBatch
    BY <1>1, <1>9, CountCompleteBatch
  <1>10. CASE Finish
    BY <1>1, <1>10, CountFinish
  <1>11. CASE Abort
    BY <1>11
    DEF Abort, callVars, CountInv, LoopBounds, LoopCounts, ReportCounts, CountedToken
  <1>12. CASE Crash
    BY <1>1, <1>12, CountQuiet DEF Crash, callVars
  <1>13. CASE UNCHANGED vars
    BY <1>13
    DEF vars, CountInv, LoopBounds, LoopCounts, ReportCounts, CountedToken
  <1>14. QED
    BY <1>3, <1>4, <1>5, <1>6, <1>7, <1>8, <1>9, <1>10, <1>11, <1>12, <1>13 DEF Next, Submitter

\* It is exact at the start.
LEMMA CountInit == Init => CountInv
  <1> SUFFICES ASSUME Init PROVE CountInv
    OBVIOUS
  <1>1. TypeOK
    BY SubmitterTypesInit
  <1>2. pc = "idle" /\ tokens = {} /\ result.itemsProcessed = 0
    BY DEF Init, Result
  <1>3. entries \in Collections /\ paid \in [AllEntries -> Nat] /\ Len(entries) \in Nat
    BY <1>1, PlanNumbers DEF TypeOK
  <1>4. (\A e \in AllEntries : paid[e] >= paid[e]) /\ Len(entries) <= Len(entries)
    BY <1>3
  <1>5. Cardinality(PaidOf(paid, entries, Len(entries))) \in Nat
    BY <1>3, <1>4, PaidCount
  <1>6. QED
    BY <1>2, <1>5 DEF CountInv, LoopBounds, LoopCounts, ReportCounts

(***************************************************************************)
(* What a failure return says of the batches, the items and the token, as  *)
(* long as every call so far stopped at its first failed batch.            *)
(***************************************************************************)
LEMMA FailureStep ==
  ASSUME CommitmentBinds, StrictInv, FailureReportExact, [Next]_vars
  PROVE  FailureReportExact'
  <1> SUFFICES ASSUME strict', result'.outcome \in {"failed", "cancelled"}
               PROVE  /\ \A i \in 1..result'.itemsProcessed : paid'[entries'[i]] >= 1
                      /\ result'.itemsProcessed = Least(result'.batchesProcessed * batchSize', Len(entries'))
                      /\ result'.resumeToken = NoToken <=> result'.batchesProcessed = 0
                      /\ result'.resumeToken # NoToken =>
                           result'.resumeToken.nextBatchIndex = result'.batchesProcessed
    BY DEF FailureReportExact
  <1>1. IInv /\ strict /\ TypeOK /\ TypeOK' /\ PaidGrows
    BY StrictBefore, TypeStep, LedgerGrows DEF StrictInv
  <1>2. CASE UNCHANGED <<result, entries, batchSize>>
    <2>1. pc = "idle"
      BY <1>1, <1>2 DEF IInv, LoopInv
    <2>2. UNCHANGED paid
      BY <2>1, ZenonT(60) DEF Next, Submitter, vars, Start, BeginBatch, BeginAttempt, PayItem, PayItemFails, Backoff,
                  CompleteBatch, Finish, Abort, Crash
    <2>3. QED
      BY <1>1, <1>2, <2>2 DEF FailureReportExact
  <1>3. CASE \E o \in {"failed", "cancelled"} : ReturnFailure(o) /\ pc # "idle" /\ UNCHANGED <<entries, batchSize, batch>>
    <2>1. PICK o \in {"failed", "cancelled"} : ReturnFailure(o) /\ pc # "idle" /\ UNCHANGED <<entries, batchSize, batch>>
      BY <1>3
    <2>2. /\ succeeded = batch /\ items = Least(batch * batchSize, Len(entries))
          /\ Covered(entries, batchSize, batch) /\ batch \in Nat
          /\ entries \in Collections /\ batchSize \in BatchSizes /\ items \in Nat
      BY <1>1, <2>1 DEF IInv, LoopInv, TypeOK
    <2>3. \A i \in 1..items : paid'[entries[i]] >= 1
      BY <1>1, <2>2, CoveredKept
    <2>4. /\ makeResumeToken(batch, items) # NoToken
          /\ makeResumeToken(batch, items).nextBatchIndex = batch
      BY <1>1, <2>2, FreshTokenMade
    <2>5. CASE succeeded > 0
      <3>1. result' = Result(o, succeeded, items, makeResumeToken(batch, items))
        BY <2>1, <2>5 DEF ReturnFailure
      <3>2. /\ result'.itemsProcessed = items /\ result'.batchesProcessed = batch
            /\ result'.resumeToken = makeResumeToken(batch, items)
        BY <2>2, <3>1 DEF Result
      <3>3. batch # 0
        BY <2>2, <2>5
      <3>4. QED
        BY <2>1, <2>2, <2>3, <2>4, <3>2, <3>3
    <2>6. CASE ~(succeeded > 0)
      <3>1. result' = Result(o, succeeded, items, NoToken)
        BY <2>1, <2>6 DEF ReturnFailure
      <3>2. /\ result'.itemsProcessed = items /\ result'.batchesProcessed = batch
            /\ result'.resumeToken = NoToken
        BY <2>2, <3>1 DEF Result
      <3>3. batch = 0
        BY <2>2, <2>6
      <3>4. QED
        BY <2>1, <2>2, <2>3, <3>2, <3>3
    <2>7. QED
      BY <2>5, <2>6
  <1>4. ~(\E E \in Collections, size \in BatchSizes, s \in StopOptions, t \in Offered : Start(E, size, s, t))
    <2> SUFFICES ASSUME NEW E \in Collections, NEW size \in BatchSizes, NEW s \in StopOptions,
                        NEW t \in Offered, Start(E, size, s, t)
                 PROVE  FALSE
      OBVIOUS
    <2>1. result'.outcome \in {"none", "completed", "rejected"}
      BY DEF Start, ReturnAtOnce, EnterLoop, Result
    <2>2. QED
      BY <2>1
  <1>5. ~Finish
    BY DEF Finish, Result
  <1>6. QED
    BY <1>2, <1>3, <1>4, <1>5
    DEF Next, Submitter, vars, BeginBatch, BeginAttempt, PayItem, PayItemFails, Backoff, FailBatch,
        CompleteBatch, Abort, Crash, callVars

(***************************************************************************)
(* Reports of the submitter, for every plan and every history of retries,  *)
(* crashes, aborts and resumes: failure returns tell exactly what is paid  *)
(* and resume behind it, and no result counts more items than are paid.    *)
(***************************************************************************)
THEOREM ReportsAreExact ==
  ASSUME CommitmentBinds
  PROVE  Spec => []ReportsExact
  <1>1. Init => CountInv /\ FailureReportExact
    BY CountInit DEF Init, FailureReportExact, Result
  <1>2. StrictInv /\ CountInv /\ FailureReportExact /\ [Next]_vars => (CountInv /\ FailureReportExact)'
    BY CountStep, FailureStep DEF StrictInv
  <1>3. TypeOK /\ CountInv => ItemsNeverInflated
    <2> SUFFICES ASSUME TypeOK, CountInv PROVE ItemsNeverInflated
      OBVIOUS
    <2>1. DOMAIN entries = 1..Len(entries) /\ Least(Len(entries), Len(entries)) = Len(entries)
      BY CollectionsAssumption DEF TypeOK, Least
    <2>2. QED
      BY <2>1 DEF CountInv, ReportCounts, PaidOf, ItemsNeverInflated
  <1>4. QED
    BY <1>1, <1>2, <1>3, SubmitterInvariant, PTL DEF Spec, StrictInv, ReportsExact
-----------------------------------------------------------------------------
(***************************************************************************)
(* Repayment.                                                              *)
(***************************************************************************)
LEMMA FirstGrows ==
  ASSUME NEW E \in Collections, NEW m \in Nat, NEW k \in Nat, m <= k
  PROVE  FirstOf(E, m) \subseteq FirstOf(E, k)
  <1>1. Len(E) \in Nat
    BY CollectionsAssumption
  <1>2. 1..Least(m, Len(E)) \subseteq 1..Least(k, Len(E))
    BY <1>1 DEF Least
  <1>3. QED
    BY <1>2 DEF FirstOf

(***************************************************************************)
(* While a call is under way, what was reported completed lies before its  *)
(* current batch.                                                          *)
(***************************************************************************)
LEMMA CompletedBehind ==
  ASSUME TypeOK, NewestCovers, newest, pc # "idle"
  PROVE  completed \subseteq FirstOf(entries, batch * batchSize)
  <1>1. CASE latest = NoToken
    BY <1>1 DEF NewestCovers
  <1>2. CASE latest # NoToken
    <2>1. PICK E \in Collections, size \in BatchSizes :
            /\ MadeFor(latest, E, size)
            /\ completed \subseteq FirstOf(E, latest.nextBatchIndex * size)
            /\ entries = E /\ batchSize = size /\ latest.nextBatchIndex <= batch
      BY <1>2 DEF NewestCovers
    <2> DEFINE n == latest.nextBatchIndex
    <2>2. n \in Nat /\ batch \in Nat /\ batchSize \in Nat /\ n <= batch
      BY <2>1, PlanNumbers DEF MadeFor
    <2> HIDE DEF n
    <2>3. n * batchSize <= batch * batchSize /\ n * batchSize \in Nat /\ batch * batchSize \in Nat
      BY <2>2, TimesMonotone
    <2>4. FirstOf(entries, n * batchSize) \subseteq FirstOf(entries, batch * batchSize)
      BY <2>1, <2>3, FirstGrows
    <2>5. QED
      BY <2>1, <2>4 DEF n
  <1>3. QED
    BY <1>1, <1>2

\* Every step keeps that the newest token covers the batches completed.
LEMMA NewestStep ==
  ASSUME CommitmentBinds, TypeOK, NewestCovers, [Next]_vars
  PROVE  NewestCovers'
  <1>1. TypeOK'
    BY TypeStep
  <1>2. ASSUME UNCHANGED <<entries, batchSize, newest, latest, completed>>,
               pc' # "idle" => pc # "idle", batch' = batch \/ batch' = batch + 1
        PROVE  NewestCovers'
    <2> SUFFICES ASSUME newest, latest # NoToken
                 PROVE  \E E \in Collections, size \in BatchSizes :
                          /\ MadeFor(latest, E, size)
                          /\ completed \subseteq FirstOf(E, latest.nextBatchIndex * size)
                          /\ pc' # "idle" => entries = E /\ batchSize = size /\ latest.nextBatchIndex <= batch'
      BY <1>2 DEF NewestCovers
    <2>1. PICK E \in Collections, size \in BatchSizes :
            /\ MadeFor(latest, E, size)
            /\ completed \subseteq FirstOf(E, latest.nextBatchIndex * size)
            /\ pc # "idle" => entries = E /\ batchSize = size /\ latest.nextBatchIndex <= batch
      BY DEF NewestCovers
    <2>2. latest.nextBatchIndex \in Nat /\ batch \in Nat
      BY <2>1 DEF MadeFor, TypeOK
    <2>3. latest.nextBatchIndex <= batch => latest.nextBatchIndex <= batch'
      BY <1>2, <2>2
    <2>4. QED
      BY <1>2, <2>1, <2>3
  <1>3. ASSUME NEW o, ReturnFailure(o), pc # "idle", UNCHANGED <<entries, batchSize, newest, batch, completed>>
        PROVE  NewestCovers'
    <2>1. CASE succeeded > 0
      <3> DEFINE u == makeResumeToken(batch, items)
      <3>1. latest' = u /\ pc' = "idle"
        BY <1>3, <2>1 DEF ReturnFailure, HandOut
      <3>2. MadeFor(u, entries, batchSize) /\ u.nextBatchIndex = batch /\ u # NoToken
        BY FreshTokenMade, PlanNumbers
      <3> HIDE DEF u
      <3>3. newest => completed \subseteq FirstOf(entries, u.nextBatchIndex * batchSize)
        BY <1>3, <3>2, CompletedBehind
      <3>4. entries \in Collections /\ batchSize \in BatchSizes
        BY DEF TypeOK
      <3>5. QED
        BY <1>3, <3>1, <3>2, <3>3, <3>4 DEF NewestCovers
    <2>2. CASE ~(succeeded > 0)
      BY <1>2, <1>3, <2>2 DEF ReturnFailure
    <2>3. QED
      BY <2>1, <2>2
  <1>4. ASSUME FailBatch, pc # "idle", UNCHANGED <<entries, batchSize, newest, completed>>
        PROVE  NewestCovers'
    BY <1>2, <1>3, <1>4 DEF FailBatch
  <1>5. ASSUME NEW E \in Collections, NEW size \in BatchSizes, NEW s \in StopOptions,
               NEW t \in Offered, Start(E, size, s, t)
        PROVE  NewestCovers'
    <2> SUFFICES ASSUME newest' PROVE NewestCovers'
      BY DEF NewestCovers
    <2>1. newest /\ t = latest /\ UNCHANGED <<latest, completed>> /\ entries' = E /\ batchSize' = size
      BY <1>5 DEF Start
    <2>2. CASE latest = NoToken
      BY <2>1, <2>2 DEF NewestCovers
    <2>3. CASE latest # NoToken
      <3>1. PICK F \in Collections, z \in BatchSizes :
              MadeFor(latest, F, z) /\ completed \subseteq FirstOf(F, latest.nextBatchIndex * z)
        BY <2>1, <2>3 DEF NewestCovers
      <3>2. pc' # "idle" => tokenApplies(latest, E, size) /\ batch' = latest.nextBatchIndex
        BY <1>5, <2>1, <2>3 DEF Start, ReturnAtOnce, EnterLoop
      <3>3. pc' # "idle" => F = E /\ z = size
        BY <3>1, <3>2, AcceptedToken
      <3>4. pc' # "idle" => latest.nextBatchIndex <= batch'
        <4>1. latest.nextBatchIndex \in Nat
          BY <3>1 DEF MadeFor
        <4>2. QED
          BY <3>2, <4>1
      <3>5. QED
        BY <2>1, <2>3, <3>1, <3>3, <3>4 DEF NewestCovers
    <2>4. QED
      BY <2>2, <2>3
  <1>6. CASE BeginBatch
    BY <1>2, <1>3, <1>6 DEF BeginBatch, callVars
  <1>7. CASE BeginAttempt
    BY <1>2, <1>4, <1>7 DEF BeginAttempt, callVars
  <1>8. CASE PayItem
    BY <1>2, <1>8 DEF PayItem, callVars
  <1>9. ASSUME NEW landed \in BOOLEAN, NEW retryable \in BOOLEAN, PayItemFails(landed, retryable)
        PROVE  NewestCovers'
    BY <1>2, <1>4, <1>9 DEF PayItemFails, callVars
  <1>10. CASE Backoff
    BY <1>2, <1>4, <1>10 DEF Backoff, callVars
  <1>11. CASE CompleteBatch
    <2> DEFINE u == makeResumeToken(batch + 1, items')
    <2>1. /\ pc = "returned" /\ batch' = batch + 1 /\ latest' = u
          /\ completed' = completed \cup {entries[i] : i \in batchItems(entries, batchSize, batch)}
          /\ UNCHANGED <<entries, batchSize, newest>>
      BY <1>11 DEF CompleteBatch, HandOut, callVars
    <2>2. batch + 1 \in Nat /\ items' \in Nat /\ batch + 1 <= batch'
      BY <1>1, <2>1 DEF TypeOK
    <2>3. MadeFor(u, entries, batchSize) /\ u.nextBatchIndex = batch + 1 /\ u # NoToken
      BY <2>2, FreshTokenMade
    <2> DEFINE m == batch * batchSize
               n == (batch + 1) * batchSize
    <2>4. m \in Nat /\ n \in Nat /\ m <= n /\ n = m + batchSize /\ entries \in Collections /\ Len(entries) \in Nat
      BY PlanNumbers
    <2>5. newest => completed \subseteq FirstOf(entries, m)
      BY <2>1, CompletedBehind
    <2>6. FirstOf(entries, m) \subseteq FirstOf(entries, n)
      <3> HIDE DEF m, n
      <3>1. QED
        BY <2>4, FirstGrows
    <2>7. batchItems(entries, batchSize, batch) \subseteq 1..Least(n, Len(entries))
      <3>1. batchItems(entries, batchSize, batch) = (m + 1)..Least(n, Len(entries))
        BY <2>4 DEF batchItems, sliceEnd
      <3> HIDE DEF m, n
      <3>2. QED
        BY <2>4, <3>1
    <2>8. newest => completed' \subseteq FirstOf(entries, n)
      BY <2>1, <2>5, <2>6, <2>7 DEF FirstOf
    <2>9. entries \in Collections /\ batchSize \in BatchSizes
      BY DEF TypeOK
    <2> HIDE DEF u
    <2>10. QED
      BY <2>1, <2>2, <2>3, <2>8, <2>9 DEF NewestCovers
  <1>12. CASE Finish
    BY <1>2, <1>12 DEF Finish, callVars
  <1>13. CASE Abort \/ Crash
    BY <1>2, <1>13 DEF Abort, Crash, callVars
  <1>14. CASE UNCHANGED vars
    BY <1>2, <1>14 DEF vars
  <1>15. QED
    BY <1>5, <1>6, <1>7, <1>8, <1>9, <1>10, <1>11, <1>12, <1>13, <1>14 DEF Next, Submitter

(***************************************************************************)
(* "already-completed batches are skipped", for every plan: an operator    *)
(* that always resumes with the newest token (resolveResumeStart) never    *)
(* pays an entry of a completed batch again, also when failed batches are  *)
(* passed over.                                                            *)
(***************************************************************************)
THEOREM CompletedStayPaidOnce ==
  ASSUME CommitmentBinds, DistinctEntries
  PROVE  Spec => CompletedNeverRepaid
  <1> DEFINE A == newest' => \A e \in completed : paid'[e] = paid[e]
             Inv == TypeOK /\ CountInv /\ NewestCovers
  <1>1. Init => Inv
    BY SubmitterTypesInit, CountInit DEF Init, NewestCovers
  <1>2. Inv /\ [Next]_vars => Inv'
    BY TypeStep, CountStep, NewestStep
  <1>3. Inv /\ [Next]_vars => [A]_vars
    <2> SUFFICES ASSUME Inv, Next, newest', NEW e \in completed PROVE paid'[e] = paid[e]
      OBVIOUS
    <2>1. CASE UNCHANGED paid
      BY <2>1
    <2>2. CASE pc = "paying" /\ Lands /\ UNCHANGED newest
      <3> DEFINE m == batch * batchSize
                 count == batchCount(entries, batchSize, batch)
                 j == m + pos + 1
      <3>1. /\ Len(entries) > 0 /\ batch < totalPages(entries, batchSize) /\ pos < count
        BY <2>2 DEF CountInv, LoopBounds
      <3>2. entries \in Collections /\ batchSize \in BatchSizes /\ batch \in Nat /\ pos \in Nat
        BY DEF TypeOK
      <3>3. /\ DOMAIN entries = 1..Len(entries) /\ Len(entries) \in Nat
            /\ m \in Nat /\ count \in Nat \ {0} /\ m < Len(entries)
            /\ m + count = Least((batch + 1) * batchSize, Len(entries))
            /\ (batch + 1) * batchSize \in Nat
        BY <3>1, <3>2, BatchBounds, PlanNumbers
      <3>4. m + count <= Len(entries)
        <4> DEFINE n == (batch + 1) * batchSize
        <4>1. n \in Nat /\ m + count = Least(n, Len(entries)) /\ Len(entries) \in Nat
          BY <3>3
        <4> HIDE DEF n
        <4>2. QED
          BY <4>1 DEF Least
      <3>5. completed \subseteq FirstOf(entries, m)
        BY <2>2, CompletedBehind
      <3>6. current = entries[j]
        BY DEF current
      <3> HIDE DEF m, count
      <3>7. j \in DOMAIN entries /\ \A i \in 1..Least(m, Len(entries)) : i \in DOMAIN entries /\ i # j
        BY <3>1, <3>2, <3>3, <3>4 DEF Least
      <3>8. PICK i \in 1..Least(m, Len(entries)) : e = entries[i]
        BY <3>5 DEF FirstOf
      <3>9. e # current
        BY <3>2, <3>6, <3>7, <3>8 DEF DistinctEntries
      <3>10. paid' = [paid EXCEPT ![current] = paid[current] + 1] /\ paid \in [AllEntries -> Nat]
             /\ e \in AllEntries
        BY <2>2 DEF Lands, TypeOK
      <3>11. QED
        BY <3>9, <3>10
    <2>3. UNCHANGED paid \/ (pc = "paying" /\ Lands /\ UNCHANGED newest)
      BY ZenonT(60) DEF Next, Submitter, Start, BeginBatch, BeginAttempt, PayItem, PayItemFails, Backoff,
             CompleteBatch, Finish, Abort, Crash, callVars
    <2>4. QED
      BY <2>1, <2>2, <2>3
  <1>4. QED
    BY <1>1, <1>2, <1>3, PTL DEF Spec, CompletedNeverRepaid
=============================================================================
