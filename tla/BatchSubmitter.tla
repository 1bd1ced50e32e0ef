---------------------------- MODULE BatchSubmitter ----------------------------
(***************************************************************************)
(* Sequential payroll batch submission with resume tokens:                 *)
(* submitSequentialPayrollBatches (payroll/safeBatchSubmitter.ts), the     *)
(* resume-token helpers (payroll/batchResumeToken.ts), the entries         *)
(* commitment (fingerprint/batchFingerprint.ts), the batch iterator        *)
(* (batch/paginate.ts) and the batch function that PayrollService passes   *)
(* in (payroll.ts, submitBatchPaymentsSafely).                             *)
(*                                                                         *)
(* One operator process calls the submitter, again and again: after a      *)
(* result, after a rejected token, after a crash of the process.  The      *)
(* tokens handed to onCheckpoint and returned in an error are persisted by *)
(* the operator and survive a crash; everything else does not.  A payment  *)
(* that fails may or may not have landed on the ledger: the error of a     *)
(* result poll that timed out looks the same to the submitter as that of a *)
(* transaction that was refused.  One that lands after its payment was     *)
(* given up (PaymentService) is counted when the payment is given up.      *)
(***************************************************************************)
EXTENDS Integers, Sequences, FiniteSets

CONSTANTS
  Collections,         \* the entries arrays an operator may submit
  BatchSizes,          \* the batchSize options it may pass
  MaxRetries,          \* options.maxRetries
  StopOptions,         \* the stopOnFirstFailure options it may pass
  MaxCalls,            \* bound: calls of the submitter in one behaviour
  NoToken              \* options.resumeToken left undefined

ASSUME MaxRetriesAssumption == MaxRetries \in Nat
ASSUME MaxCallsAssumption == MaxCalls \in Nat
ASSUME BatchSizesAssumption == BatchSizes \subseteq Nat \ {0}
ASSUME StopOptionsAssumption == StopOptions \subseteq BOOLEAN
ASSUME CollectionsAssumption ==
  \A E \in Collections : E \in Seq({E[i] : i \in DOMAIN E})

(***************************************************************************)
(* Batches.  Batch b (zero-based) of collection E holds the positions      *)
(* items.slice(b * size, b * size + size) of the array.                    *)
(***************************************************************************)
AllEntries == UNION { {E[i] : i \in DOMAIN E} : E \in Collections }

totalPages(E, size) == IF Len(E) = 0 THEN 1 ELSE (Len(E) + size - 1) \div size

Least(x, y) == IF x <= y THEN x ELSE y

sliceEnd(E, size, b) == Least(b * size + size, Len(E))

batchItems(E, size, b) == (b * size + 1) .. sliceEnd(E, size, b)

batchCount(E, size, b) == sliceEnd(E, size, b) - Least(b * size, Len(E))

(***************************************************************************)
(* The entries commitment hashes the sorted recipient:amount pairs, so it  *)
(* tells two collections apart exactly when these pairs differ as bags.    *)
(***************************************************************************)
toCommitmentInput(e) == <<e.recipient, e.amount>>

computeEntriesCommitment(E) ==
  [pair \in {toCommitmentInput(E[i]) : i \in DOMAIN E} |->
     Cardinality({i \in DOMAIN E : toCommitmentInput(E[i]) = pair})]

createBatchResumeToken(E, next, done, size) ==
  [nextBatchIndex |-> next, itemsProcessed |-> done, totalItems |-> Len(E),
   totalBatches |-> totalPages(E, size), batchSize |-> size,
   commitment |-> computeEntriesCommitment(E)]

(***************************************************************************)
(* resolveResumeStart: the token is refused unless the commitment and the  *)
(* batch size agree and its index lies within the plan.                    *)
(***************************************************************************)
tokenApplies(t, E, size) ==
  /\ t.commitment = computeEntriesCommitment(E)
  /\ t.batchSize = size
  /\ t.nextBatchIndex >= 0
  /\ t.nextBatchIndex <= totalPages(E, size)

\* undefined is not a token
ASSUME NoTokenAssumption ==
  NoToken \notin [nextBatchIndex : Nat, itemsProcessed : Nat, totalItems : Nat, totalBatches : Nat,
                  batchSize : BatchSizes, commitment : {computeEntriesCommitment(E) : E \in Collections}]

-----------------------------------------------------------------------------
VARIABLES
  pc,         \* where the call is: see PCs
  entries,    \* entries argument of the current (or last) call
  batchSize,  \* its batchSize option
  stop,       \* its stopOnFirstFailure option
  start,      \* startBatchIndex
  batch,      \* batch.index of the loop
  attempt,    \* attempt of the inner loop
  pos,        \* entries of the batch whose processPayment has resolved
  succeeded,  \* batchesSucceededCount
  items,      \* itemsProcessedCount
  aborted,    \* signal.aborted
  result,     \* what the call returned
  tokens,     \* every resume token handed out so far
  latest,     \* the newest of them
  paid,       \* ledger: how often each entry was paid
  completed,  \* ledger view: entries of batches reported completed
  calls,      \* calls made so far
  strict,     \* history: no call so far was made with stopOnFirstFailure = false
  newest      \* history: every call so far resumed with the newest token

vars == <<pc, entries, batchSize, stop, strict, newest, start, batch, attempt, pos, succeeded, items,
          aborted, result, tokens, latest, paid, completed, calls>>

callVars == <<entries, batchSize, stop, strict, newest, start>>

PCs == {"idle", "batch", "attempt", "paying", "returned", "backoff"}

Outcomes == {"none", "completed", "failed", "cancelled", "rejected"}

Result(outcome, n, done, t) ==
  [outcome |-> outcome, batchesProcessed |-> n, itemsProcessed |-> done, resumeToken |-> t]

maxAttempts == MaxRetries + 1

(***************************************************************************)
(* Initially nothing was submitted, nothing paid.                          *)
(***************************************************************************)
Init ==
  /\ pc = "idle"
  /\ entries \in Collections
  /\ batchSize \in BatchSizes
  /\ stop = TRUE /\ strict = TRUE /\ newest = TRUE
  /\ start = 0 /\ batch = 0 /\ attempt = 0 /\ pos = 0
  /\ succeeded = 0 /\ items = 0
  /\ aborted = FALSE
  /\ result = Result("none", 0, 0, NoToken)
  /\ tokens = {} /\ latest = NoToken
  /\ paid = [e \in AllEntries |-> 0]
  /\ completed = {}
  /\ calls = 0

-----------------------------------------------------------------------------
(***************************************************************************)
(* The call, up to the loop: the empty collection, the refused token and   *)
(* the token that covers everything return at once.                        *)
(***************************************************************************)
ReturnAtOnce(outcome, n, done) ==
  /\ pc' = "idle"
  /\ result' = Result(outcome, n, done, NoToken)
  /\ UNCHANGED <<batch, succeeded, items>>

EnterLoop(from, done) ==
  /\ pc' = "batch"
  /\ batch' = from /\ succeeded' = from /\ items' = done
  /\ result' = Result("none", 0, 0, NoToken)

(***************************************************************************)
(* An operator may offer any token it has stored, or none.                 *)
(***************************************************************************)
Offered == tokens \cup {NoToken}

Start(E, size, s, t) ==
  /\ pc = "idle" /\ calls < MaxCalls
  /\ calls' = calls + 1
  /\ entries' = E /\ batchSize' = size /\ stop' = s
  /\ strict' = (strict /\ s) /\ newest' = (newest /\ t = latest)
  /\ attempt' = 0 /\ pos' = 0 /\ aborted' = FALSE
  /\ start' = IF t # NoToken /\ Len(E) > 0 /\ tokenApplies(t, E, size) THEN t.nextBatchIndex ELSE 0
  /\ \/ /\ Len(E) = 0
        /\ ReturnAtOnce("completed", 0, 0)
     \/ /\ Len(E) > 0 /\ t = NoToken
        /\ EnterLoop(0, 0)
     \/ /\ Len(E) > 0 /\ t # NoToken /\ ~tokenApplies(t, E, size)
        /\ ReturnAtOnce("rejected", 0, 0)
     \/ /\ Len(E) > 0 /\ t # NoToken /\ tokenApplies(t, E, size)
        /\ IF t.nextBatchIndex >= totalPages(E, size)
           THEN ReturnAtOnce("completed", totalPages(E, size), t.itemsProcessed)
           ELSE EnterLoop(t.nextBatchIndex, t.itemsProcessed)
  /\ UNCHANGED <<tokens, latest, paid, completed>>

\* Mutant: a token is returned that the operator was never given.
HandOut_Lost(t) == UNCHANGED tokens /\ latest' = t

(***************************************************************************)
(* A token is handed out: the operator stores it.                          *)
(***************************************************************************)
HandOut(t) ==
  /\ tokens' = tokens \cup {t}
  /\ latest' = t

makeResumeToken(next, done) == createBatchResumeToken(entries, next, done, batchSize)

\* Mutant: the error token points behind the batch that failed.
ReturnFailure_Behind(outcome) ==
  /\ pc' = "idle"
  /\ IF succeeded > 0
     THEN /\ result' = Result(outcome, succeeded, items, makeResumeToken(batch + 1, items))
          /\ HandOut(makeResumeToken(batch + 1, items))
     ELSE /\ result' = Result(outcome, succeeded, items, NoToken)
          /\ UNCHANGED <<tokens, latest>>

\* Mutant: the error carries the last checkpoint token instead of a fresh one.
ReturnFailure_Stale(outcome) ==
  /\ pc' = "idle"
  /\ result' = Result(outcome, succeeded, items, latest)
  /\ UNCHANGED <<tokens, latest>>

(***************************************************************************)
(* The error token exists only if some batch succeeded before.             *)
(***************************************************************************)
ReturnFailure(outcome) ==
  /\ pc' = "idle"
  /\ IF succeeded > 0
     THEN /\ result' = Result(outcome, succeeded, items, makeResumeToken(batch, items))
          /\ HandOut(makeResumeToken(batch, items))
     ELSE /\ result' = Result(outcome, succeeded, items, NoToken)
          /\ UNCHANGED <<tokens, latest>>

(***************************************************************************)
(* Head of the loop: the abort signal is looked at before each batch.      *)
(***************************************************************************)
BeginBatch ==
  /\ pc = "batch" /\ batch < totalPages(entries, batchSize)
  /\ \/ aborted /\ ReturnFailure("cancelled") /\ UNCHANGED attempt
     \/ ~aborted /\ pc' = "attempt" /\ attempt' = 1 /\ UNCHANGED <<result, tokens, latest>>
  /\ UNCHANGED <<callVars, batch, pos, succeeded, items, aborted, paid, completed, calls>>

(***************************************************************************)
(* The batch has failed for good: return, or go on with the next batch.    *)
(***************************************************************************)
FailBatch ==
  \/ stop /\ ReturnFailure("failed") /\ UNCHANGED batch
  \/ /\ ~stop
     /\ pc' = "batch" /\ batch' = batch + 1
     /\ UNCHANGED <<result, tokens, latest>>

BeginAttempt ==
  /\ pc = "attempt"
  /\ \/ aborted /\ FailBatch
     \/ ~aborted /\ pc' = "paying" /\ UNCHANGED <<batch, result, tokens, latest>>
  /\ pos' = 0
  /\ UNCHANGED <<callVars, attempt, succeeded, items, aborted, paid, completed, calls>>

current == entries[batch * batchSize + pos + 1]

Lands == paid' = [paid EXCEPT ![current] = @ + 1]

(***************************************************************************)
(* submitBatchFn awaits processPayment for one entry after the other.      *)
(***************************************************************************)
PayItem ==
  /\ pc = "paying"
  /\ Lands
  /\ pos' = pos + 1
  /\ pc' = IF pos + 1 = batchCount(entries, batchSize, batch) THEN "returned" ELSE "paying"
  /\ UNCHANGED <<callVars, batch, attempt, succeeded, items, aborted, result, tokens,
                 latest, completed, calls>>

(***************************************************************************)
(* processPayment rejects, whether or not the payment landed.  A retryable *)
(* error is retried with the whole batch while attempts are left.          *)
(***************************************************************************)
PayItemFails(landed, retryable) ==
  /\ pc = "paying"
  /\ IF landed THEN Lands ELSE UNCHANGED paid
  /\ \/ /\ retryable /\ attempt < maxAttempts /\ ~aborted
        /\ pc' = "backoff" /\ UNCHANGED <<batch, result, tokens, latest>>
     \/ /\ ~(retryable /\ attempt < maxAttempts /\ ~aborted)
        /\ FailBatch
  /\ UNCHANGED <<callVars, attempt, pos, succeeded, items, aborted, completed, calls>>

\* Mutant: the abort listener clears the timer and forgets to reject.
Backoff_Hangs ==
  /\ pc = "backoff" /\ ~aborted
  /\ pc' = "attempt" /\ attempt' = attempt + 1
  /\ UNCHANGED <<batch, result, tokens, latest>>
  /\ UNCHANGED <<callVars, pos, succeeded, items, aborted, paid, completed, calls>>

\* Mutant: the checkpoint names the batch that has just completed.
CompleteBatch_SameIndex ==
  /\ pc = "returned"
  /\ pc' = "batch"
  /\ succeeded' = succeeded + 1
  /\ items' = items + batchCount(entries, batchSize, batch)
  /\ completed' = completed \cup {entries[i] : i \in batchItems(entries, batchSize, batch)}
  /\ HandOut(makeResumeToken(batch, items'))
  /\ batch' = batch + 1
  /\ UNCHANGED <<callVars, attempt, pos, aborted, result, paid, calls>>

(***************************************************************************)
(* The backoff sleep resolves, or rejects because of the abort signal.     *)
(***************************************************************************)
Backoff ==
  /\ pc = "backoff"
  /\ \/ ~aborted /\ pc' = "attempt" /\ attempt' = attempt + 1
        /\ UNCHANGED <<batch, result, tokens, latest>>
     \/ aborted /\ FailBatch /\ UNCHANGED attempt
  /\ UNCHANGED <<callVars, pos, succeeded, items, aborted, paid, completed, calls>>

\* Mutant: the loop ends one batch early.
Finish_Early ==
  /\ pc = "batch" /\ batch + 1 >= totalPages(entries, batchSize)
  /\ pc' = "idle"
  /\ result' = Result("completed", succeeded, items, NoToken)
  /\ UNCHANGED <<callVars, batch, attempt, pos, succeeded, items, aborted, tokens, latest,
                 paid, completed, calls>>

\* Mutant: a full batch is counted for the last, shorter one.
CompleteBatch_FullSize ==
  /\ pc = "returned"
  /\ pc' = "batch"
  /\ succeeded' = succeeded + 1
  /\ items' = items + batchSize
  /\ completed' = completed \cup {entries[i] : i \in batchItems(entries, batchSize, batch)}
  /\ HandOut(makeResumeToken(batch + 1, items'))
  /\ batch' = batch + 1
  /\ UNCHANGED <<callVars, attempt, pos, aborted, result, paid, calls>>

CompleteBatch ==
  /\ pc = "returned"
  /\ pc' = "batch"
  /\ succeeded' = succeeded + 1
  /\ items' = items + batchCount(entries, batchSize, batch)
  /\ completed' = completed \cup {entries[i] : i \in batchItems(entries, batchSize, batch)}
  /\ HandOut(makeResumeToken(batch + 1, items'))
  /\ batch' = batch + 1
  /\ UNCHANGED <<callVars, attempt, pos, aborted, result, paid, calls>>

Finish ==
  /\ pc = "batch" /\ batch >= totalPages(entries, batchSize)
  /\ pc' = "idle"
  /\ result' = Result("completed", succeeded, items, NoToken)
  /\ UNCHANGED <<callVars, batch, attempt, pos, succeeded, items, aborted, tokens, latest,
                 paid, completed, calls>>

(***************************************************************************)
(* Environment: the abort signal fires, the process dies.                  *)
(***************************************************************************)
Abort ==
  /\ pc # "idle" /\ ~aborted
  /\ aborted' = TRUE
  /\ UNCHANGED <<pc, callVars, batch, attempt, pos, succeeded, items, result, tokens,
                 latest, paid, completed, calls>>

Crash ==
  /\ pc # "idle"
  /\ pc' = "idle"
  /\ UNCHANGED <<callVars, batch, attempt, pos, succeeded, items, aborted, result, tokens,
                 latest, paid, completed, calls>>

Submitter ==
  \/ BeginBatch \/ BeginAttempt \/ PayItem
  \/ \E landed, retryable \in BOOLEAN : PayItemFails(landed, retryable)
  \/ Backoff \/ CompleteBatch \/ Finish

Next ==
  \/ \E E \in Collections, size \in BatchSizes, s \in StopOptions, t \in Offered : Start(E, size, s, t)
  \/ Submitter
  \/ Abort
  \/ Crash

Spec == Init /\ [][Next]_vars

(***************************************************************************)
(* A started call keeps running: JavaScript runs queued continuations, the *)
(* backoff timer fires, and every processPayment settles because its poll  *)
(* loop is bounded.                                                        *)
(***************************************************************************)
FairSpec == Spec /\ WF_vars(Submitter)

-----------------------------------------------------------------------------
(***************************************************************************)
(* Fields of a token that a later call reads.                              *)
(***************************************************************************)
TokenType(t) ==
  t.nextBatchIndex \in Nat /\ t.itemsProcessed \in Nat /\ t.batchSize \in BatchSizes

Resumable(t) == t = NoToken \/ t \in tokens

(***************************************************************************)
(* TypeOK: the submitter's locals, its result, the ledger.                 *)
(***************************************************************************)
TypeOK ==
  /\ pc \in PCs
  /\ entries \in Collections /\ batchSize \in BatchSizes
  /\ start \in Nat /\ batch \in Nat /\ attempt \in Nat /\ pos \in Nat
  /\ succeeded \in Nat /\ items \in Nat /\ calls \in Nat
  /\ aborted \in BOOLEAN /\ stop \in BOOLEAN /\ strict \in BOOLEAN /\ newest \in BOOLEAN
  /\ result.outcome \in Outcomes
  /\ result.batchesProcessed \in Nat /\ result.itemsProcessed \in Nat
  /\ Resumable(result.resumeToken)
  /\ Resumable(latest) /\ \A t \in tokens : TokenType(t)
  /\ paid \in [AllEntries -> Nat]
  /\ completed \subseteq AllEntries

(***************************************************************************)
(* The first n batches of a plan have been paid, entry by entry.           *)
(***************************************************************************)
Covered(E, size, n) ==
  \A i \in 1..Least(n * size, Len(E)) : paid[E[i]] >= 1

(***************************************************************************)
(* Collections that the commitment cannot tell apart are the same array.   *)
(* The commitment ignores the order and the asset of the entries, so this  *)
(* is a condition on what the operator submits, not a fact of the code.    *)
(***************************************************************************)
CommitmentBinds ==
  \A E, F \in Collections : computeEntriesCommitment(E) = computeEntriesCommitment(F) => E = F

(***************************************************************************)
(* No collection lists an entry twice: the ledger counts payments by entry,*)
(* so two equal entries could not be told apart on it.                     *)
(***************************************************************************)
DistinctEntries ==
  \A E \in Collections : \A i, j \in DOMAIN E : E[i] = E[j] => i = j

(***************************************************************************)
(* Every token in circulation, however old, is safe to resume from: the    *)
(* batches it skips are paid, and the item count it restores is theirs     *)
(* (makeResumeToken, onCheckpoint, resolveResumeStart), as long as every   *)
(* call stops at its first failed batch.                                   *)
(***************************************************************************)
SafeToken(t) ==
  \A E \in Collections :
    tokenApplies(t, E, t.batchSize) =>
      /\ Covered(E, t.batchSize, t.nextBatchIndex)
      /\ t.itemsProcessed = Least(t.nextBatchIndex * t.batchSize, Len(E))

TokensSafe == strict => \A t \in tokens : SafeToken(t)

(***************************************************************************)
(* Success means that every entry of the collection was paid (the result's *)
(* success flag), resumed calls included, as long as every call stops at   *)
(* its first failed batch.                                                 *)
(***************************************************************************)
AllPaid == \A i \in DOMAIN entries : paid[entries[i]] >= 1

SuccessMeansAllPaid == strict /\ result.outcome = "completed" => AllPaid

(***************************************************************************)
(* A failed or cancelled call reports no more than what is on the ledger,  *)
(* and its token resumes right behind the reported items: error detail of  *)
(* the two failure returns, across retries, crashes and earlier resumes.   *)
(***************************************************************************)
FailureReportExact ==
  strict /\ result.outcome \in {"failed", "cancelled"} =>
    /\ \A i \in 1..result.itemsProcessed : paid[entries[i]] >= 1
    /\ result.itemsProcessed =
         Least(result.batchesProcessed * batchSize, Len(entries))
    /\ result.resumeToken = NoToken <=> result.batchesProcessed = 0
    /\ result.resumeToken # NoToken =>
         result.resumeToken.nextBatchIndex = result.batchesProcessed

(***************************************************************************)
(* The item count of a result, which a resumed call starts from its        *)
(* token's, never exceeds the entries that are really paid - also when     *)
(* failed batches are passed over (stopOnFirstFailure = false).            *)
(***************************************************************************)
ItemsNeverInflated ==
  result.itemsProcessed <= Cardinality({i \in DOMAIN entries : paid[entries[i]] >= 1})

(***************************************************************************)
(* Reports agree with the ledger: the two failure returns and the counts of *)
(* every result.                                                           *)
(***************************************************************************)
ReportsExact == TypeOK /\ FailureReportExact /\ ItemsNeverInflated

(***************************************************************************)
(* "already-completed batches are skipped": an operator that always        *)
(* resumes with the newest token never pays an entry again once its batch  *)
(* was reported completed, whatever crashed, failed or was cancelled.      *)
(***************************************************************************)
CompletedNeverRepaid == [][newest' => \A e \in completed : paid'[e] = paid[e]]_vars

(***************************************************************************)
(* "Resume tokens are only valid for the exact entries collection": a call *)
(* that resumes skips only entries that were paid.                         *)
(***************************************************************************)
ResumeSkipsOnlyPaid == pc # "idle" => Covered(entries, batchSize, start)

(***************************************************************************)
(* Every call comes to an end: retries are bounded and each backoff and    *)
(* each payment settles.                                                   *)
(***************************************************************************)
CallReturns == pc # "idle" ~> pc = "idle"
=============================================================================
