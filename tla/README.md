# Verification of the ZK payroll SDK

TLA+ models, TLC runs and TLAPS proofs for the SDK in `packages/core/src`: a
TypeScript library with which an employer prepares, proves, submits and tracks
private payroll payments on a Soroban (Stellar) contract. All paths below are
relative to `packages/core/src` unless they start with `docs/`.

## 1. Inventory

The SDK runs in one JavaScript process. Concurrency is that of promises: calls
interleave at every `await`, timers and RPC answers arrive in any order, an
`AbortSignal` fires at any time. Nothing is persisted by the SDK itself except
what it hands to the caller (resume tokens, cursors, cached artifacts), so a
crash loses everything else. The ledger behind the RPC server outlives it.

| Part | State | Operations | Hard behaviour | What makes it correct |
|---|---|---|---|---|
| Batch submission (`payroll/safeBatchSubmitter.ts`, `batchResumeToken.ts`, `fingerprint/`, `batch/paginate.ts`) | loop position, counts; tokens held by the operator | one call with retries, checkpoints, resume | a payment that fails may have landed; crash between payment and checkpoint; stale tokens | a token skips only paid batches; success means all paid; reports agree with the ledger |
| Idempotency registry (`core/idempotency.ts`) | map key to promise and expiry | `execute`, `pruneExpired`, `clear` | continuations delete by key; expiry while in flight | one `fn` in flight per key; nothing stale replayed |
| Retry budgets (`core/retry-budget.ts`) | attempt, deadline, timers | `withRetryBudget` | attempt timeout leaves `fn` running; abort, deadline and answer race | no concurrent duplicate, no start after deadline, truthful ending, termination |
| Semaphore (`core/concurrency.ts`) | counter, queue | `acquire`, `release`, `runExclusive` | hand-over of permits | bound, no lost permit, FIFO, no waiter beside a free permit |
| Payment service (`payroll.ts`, `adapters/`) | two registries; a transaction in flight | `processPayment`, `invoke` | lost answers, poll timeouts, shared sequence numbers | result and final error agree with the ledger; one payment per key |
| Quorum sessions (`sessions/`) | sessions, signatures, rejections, nonces | create, sign, replace, reject, prepare, consume | signers and submitters in any order, expiry in between | quorum behind each package, no nonce reuse, no second settlement |
| Event processor (`indexer/IdempotentEventProcessor.ts`, cursor storages, replay detector) | cursor, seen events | `processEvent`, `resetCursor` | repeated and reordered deliveries, failed save or crash between two awaits | the cursor covers what was reported, nothing is dropped unheard |
| State indexer (`indexer/ContractStateIndexer.ts`) | checkpoint, page budget | `index` | budget used up, or a page read that fails, in the middle of a collection | a pass goes on where the last one stopped |
| Proof generation (`crypto/SnarkjsProofGenerator.ts`, `WorkerProofGenerator.ts`) | artifact cache, downloads, worker requests, semaphore | `generateProof`, `preload`, `clearArtifactCache`, `terminate` | cache filled before the hash check and cleared meanwhile, late answers, a worker that dies | only verified artifacts used, one computation per witness, each request answered once |
| Authorization (`authorization/`) | requests, signer states, transfers, delegations | sign, reject, revoke, propose, accept, finalize, delegate | expiry, copies of different age, one address in several roles | approval only with the policy's signatures, no transfer without acceptance |
| Execution nonces (`core/executionConfirmationNonce.ts`) | used nonces at the caller | generate, validate | check and mark are two awaits | a used nonce is refused |
| Polling (`polling.ts`, `events.ts`) | attempt, clock | poll loops | timeout and abort against a late answer | ends, a final answer is not lost |
| Reservations (`treasury/TreasuryReservationClient.ts`, `reservations/`) | reservation and its log on the contract, a copy per caller | reserve, release, finalize, reconcile | lost replies, retries, old copies | funds conserved, retries recognised |
| Page walks (`pagination-guardrails.ts`, `payroll/periodPagination.ts`) | cursor, seen cursors, budgets | iterate | a source that lies | ends, nothing dropped silently |
| Treasury, obligations, settlement | none | readiness, accounts, checkpoints | boundaries | ready means funded |
| Run life cycle (`payroll/`, `amendments/`, `archive*/`, `schedules/`) | status of a run | reopen, retry, amend, archive | several tables about one status | the views agree, windows only close |
| Drafts, requests, batches, import, planner | draft contents | edit, validate, build, diff | duplicates, keys that move | what one stage accepts the next one can use |
| Employees, eligibility | registry of employees | evaluate, rotate, query | duplicates, dates | nobody paid twice, final reasons are final |
| Reconciliation, receipts, audit, disputes | reports over the above | compare, verify, disclose | partial data, several observations | every difference classified, views agree |
| Assets and amounts | asset registry (two maps) | register, parse, round | rounding, zero, limits | no amount created or lost |
| Events, webhooks, simulation, configuration, errors, pages | none | decode, verify, check, classify | boundaries, one bad element of many | two readers of one thing agree |
| Clients, fees, compliance, memos, wallets, serialization, logging, redaction | none | wrapping, formatting | - | not modelled, see section 7 |

How they interact: `PayrollService.submitBatchPaymentsSafely` calls the batch
submitter, which calls `processPayment` once per entry; `processPayment` runs
under the payment registry, generates a proof (under the semaphore) and calls
`BaseContractWrapper.invoke`, which reads under retry budgets, sends under the
submission registry and polls. Approval (quorum sessions, multi-signer
requests, confirmation nonces) comes before submission, indexing and
reconciliation after it.

## 2. Plan

Modules in the order of their weight for the system. Done:

1. `BatchSubmitter`, `IdempotencyRegistry`, `Semaphore`: the core that decides
   whether somebody is paid twice or not at all. Proved as well as checked.
2. `RetryBudget` composes attempts with the registry, `PaymentService` two
   registries with RPC and ledger (it justifies what `BatchSubmitter` assumes of
   `processPayment`), `ProofGeneration` the semaphore with shared computations
   and the artifact cache.
3. Approval: `QuorumSession` (proved), `MultiSigner`, `RoleTransfer`,
   `ConfirmationNonce`.
4. What goes on around a payment: `Reservations`, `Polling`, `EventProcessor`,
   `StateIndexer`, `PageWalk`, `ProofWorker`.
5. The pure part, by subject: `Amounts`, `Assets`, `Employees`, `Drafts`,
   `Intake`, `Lifecycle`, `Treasury`, `Reconciliation`, `Receipts`, `Notices`,
   `Planning`, `Setup`, `ProofRules`, `Failures`, `Pages`.

6. Proofs of the components with state: the core first, then retries,
   payments, proof generation and the nine components of `MCOperations`.
7. Proofs about pure functions for every input of a caller instead of the
   enumerated ones: errors, proofs, employees, setup, funds and plans
   (`RulesProofs`).

Next: in the pure part, the status tables, windows and verdicts of
`RunViewsAgree` and `NoticesTakenRight`, each by itself, as their composites
also contain folds. Abstract specifications worth stating: a ledger on which
each entry of a payroll moves from unpaid to paid (implemented by the submitter
with a binding commitment), and an at-most-once operation (implemented by the
registry, and so, by `ServiceUsesRegistries`, by the payment service).

## 3. Modules

Each module names the functions of the source in its actions; mutants (operators
ending in `_Something`, introduced by a comment) are plausible bugs that the
properties must catch.

**BatchSubmitter** models `submitSequentialPayrollBatches` as called by
`submitBatchPaymentsSafely`. `entries`, `batchSize`, `stop`, `start`, `batch`,
`attempt`, `pos`, `succeeded`, `items` are its arguments and locals; `tokens` is
everything the operator has persisted, `paid` the ledger. `Start` is the code up
to the loop, `BeginBatch` and `BeginAttempt` the two loop heads, `PayItem` and
`PayItemFails` one `processPayment`, `Backoff` the abortable sleep,
`CompleteBatch` the success path with its checkpoint, `FailBatch` and
`ReturnFailure` the failure path, `Finish` the normal return; `Crash` loses the
call. The entries commitment is what the hash of the sorted `recipient:amount`
pairs distinguishes: the bag of the pairs. Signatures of tokens, encoding and
progress events are left out. Three history variables support the properties:
`completed` (entries of batches reported completed), `strict` (no call so far
passed over a failed batch) and `newest` (every call used the newest token).

**IdempotencyRegistry** models the class. Each caller makes one call. The promise
of an owner is the owner's name, so `entry[k]` is the caller whose promise the
map holds. `Execute` is the synchronous part of `execute` with `pruneExpired`,
`OwnerContinues` the `catch` and `finally` blocks, `JoinedContinues` the return
of a shared promise. `onTime` is a history variable: no `clear()`, and no call
outlived the TTL it set.

**RetryBudget** models `withRetryBudget` with `runAttemptWithTimeout` and
`abortableSleep`. Attempt `a` of call `p` is the registry's caller `<<p, a>>`;
the registry is `INSTANCE`d with `ttlMs` 0. Clocks are relative to the start of
each call.

**Semaphore** models the class as used through `runExclusive`; its callers do
nothing but acquire and release. **ProofGeneration** extends it with
`SnarkjsProofGenerator`: what a caller does while it waits for or holds its
permit. Requests for one witness share a computation, downloads are named after
the caller that started them (a name is used again once they have ended), an
artifact is good or bad by its hash,
`clearArtifactCache` may come at any time. Every property of the semaphore is
checked of this composition.

**PaymentService** models `processPayment`, `buildInvocation`,
`submitInvocation`, `submitTransaction` and `pollForResult` with two instances of
`IdempotencyRegistry`, the second with `submissionTtl` 0, for which no clock is
needed. Awaits that touch nothing shared (validation, destination
hook, proof before `getAccount`; simulation and signature after it) are one
stage each. The RPC server and the ledger are external: they refuse a wrong
sequence number, accept, put off, lose requests or answers, apply, revert and
drop transactions.

**QuorumSession** models `QuorumSessionManager` with signers in any order and
submitters that follow its protocol. `status` is what `getSummary` reports.

The components below share no state with each other; `MCOperations` runs one
of them per behaviour.

| Module | Code | State and actions |
|---|---|---|
| `MultiSigner` | `authorization/MultiSignerCoordinator.ts`, `approvalTimestamps.ts` | `requests`, `signerHistory`; create, add, sign, reject, revoke; the policies as predicates on signer states, the weighted one as a sum of weights |
| `ConfirmationNonce` | `core/executionConfirmationNonce.ts` | `generated`, `usedNonces` (the caller's store), one validation per validator, broken at its two awaits |
| `RoleTransfer` | `authorization/roleTransfer.ts`, `delegatedApprover.ts` | `records`: all copies ever made, as nothing holds the current one; each operation applies to any copy |
| `Reservations` | `treasury/TreasuryReservationClient.ts`, `reservations/helpers.ts`, `reconciliation/ReservationReconciliationHelper.ts` | the contract's reservation and event log (external, as the client's comments describe it), a copy per caller, replies that get lost |
| `PageWalk` | `pagination-guardrails.ts`, `payroll/periodPagination.ts` | cursor, seen cursors, counts; the source answers anything |
| `EventProcessor` | `indexer/IdempotentEventProcessor.ts` with storages and detector | stored cursor, detector's records, the event under way; broken at every await, with crash, failed save, reset |
| `StateIndexer` | `indexer/ContractStateIndexer.ts` | the caller's `checkpoint` and pages, the pass under way with its own checkpoint and what is left of its budget; a step is the code from one `readPages` to the next (`indexCollection`, `listCompanies`), the loop over the listed companies (`nextCompany`, `allListed`), or a page read that fails (`readFails`: the caller keeps the old checkpoint, whose cursors the pass shares) |
| `Polling` | `polling.ts` | clock, the poll's stage; both loops |
| `ProofWorker` | `crypto/WorkerProofGenerator.ts`, `proof.worker.ts` | pending requests, the dispatch each witness shares, what the worker is at |

Pure functions are operators. `Subject` has one variable, the input of a given
topic; a behaviour chooses one input, and the properties relate what the
functions say about it (`About(topic) => ...`). A list of custom rules is represented by
one rule, which refuses, warns, promises or throws. `Checks` holds the two shapes of
a validator, first failure and all failures. A text is kept as what its readers
tell apart (digits around a point, words of a message, case of a segment).

| Module | Code | Questions |
|---|---|---|
| `Amounts` | `assets/amount*.ts`, `decimals.ts`, `formatters.ts`, `payroll/minimumAmount.ts`, `withholdingConfig.ts`, `payout*Validator.ts` | do the four readers, the roundings and the two minimum checks agree |
| `Assets` | `assets/assetIdentity.ts`, registry, allowlist; `schedules/` | canonical identity, two maps in step, cycles that tile time |
| `Employees` | `eligibility/`, `employees/` | paid once and one way, which refusals last |
| `Drafts`, `Intake` | `draft/`, `request/`, `batch/`, `batches/`, `import/`, `validation/` | does an accepted draft go through, do keys stay, do diffs, duplicates, clusters and counts agree |
| `Lifecycle`, `Pages` | `payroll/`, `archive*/`, `amendments/`, `status.ts`, `pagination.ts` | status tables and views agree, windows are monotone, pages tile |
| `Treasury`, `Reconciliation` | `treasury/`, `obligations/`, `reconciliation/` | ready means funded, reconciled is sound, no errors that cancel |
| `Receipts`, `Notices` | `receipts/`, `audit/`, `settlement/`, `events*`, `event-parser.ts`, `disputes/`, `webhooks/` | own receipts verify, decoders are exact, webhooks genuine, confirmation decisive |
| `Planning`, `Setup`, `ProofRules`, `Failures` | `planner/`, `policy/`, `simulation/`, `cache/`, `config.ts`, `setup/`, `env/`, `crypto/`, `proofs/`, `core/errors.ts`, `retry.ts`, `operationResult.ts`, `roles/` | what is reported ready works, errors keep their meaning |

The `MC...` modules give the constants values for TLC; the `...Proofs` modules
hold the theorems: `ProofGenerationProofs` those of `Semaphore` as well,
`OperationsProofs` those of `MCOperations`, `RulesProofs` those of `MCRules`.

## 4. Runs

| Run | Result | Shows |
|---|---|---|
| `batch_submission` | holds | two calls, an edited and an empty collection, batch sizes 1 and 2, one retry, both failure policies, aborts and crashes anywhere: tokens, results and counts agree with the ledger; completed batches are not paid again by an operator who uses the newest token; every call returns |
| `batch_resume_skips` | violated | `stopOnFirstFailure: false` produces a token that skips the failed batch |
| `registry` | holds | three calls, TTL 0 and 1, cached and uncached errors, `clear()` |
| `retry_shared` | holds | two calls with two attempts each, keyed and unkeyed writes |
| `retry_ends` | holds | termination of a call with three attempts although `fn` may hang |
| `payment` | holds | two payments, same key or not, every failure of RPC and ledger, expiring registry |
| `payment_retry_duplicates` | violated | a retry with the same key after a lost answer pays twice |
| `quorum_session` | holds | two sessions with repeated and assigned roles, two signers, two submitters, expiry |
| `proofs` | holds | three callers of `generateProof` and `preload`, two witnesses, one permit, failing and wrong downloads, one clear: the semaphore's properties, sharing, presence of artifacts, every request answered; with deadlock check |
| `artifact_unverified` | violated | a proof is computed with an artifact whose hash does not match |
| `operations` | holds | the nine components of the table above, each from its initial state; one property per subject (see below) |
| `rules` | holds | the pure functions over some 290,000 inputs; one property per subject (see below) |

A property of a run that names a subject is the conjunction of named parts, each
stated, commented and explained in the module it is about: `ReportsExact`,
`PermitsExact`, `ProofsShareWork`, `RetrySafe`, `ResultsTruthful`, `KeyPaysOnce`
and `SessionsSound` (with the module's `TypeOK` where it has one), in
`MCOperations` `ApprovalsSound`, `ReservationsSound`, `ReadingSound`,
`DeliveriesSound`, `WaitingSound`, `StepsSound` (what a step may never do) and
`OperationsEnd` (liveness), 28 parts together, and in `MCRules` eleven
properties with about 70 parts, each over the inputs of its topic. To see which
part fails, put its name in the cfg. Every part has a mutant of its own in
`PROJECT.json`.

Why the bounds are enough: two calls are needed for everything that goes wrong
between an earlier and a later call, and the batch of two after a batch of one
(three entries) exercises the short last batch. A third caller of the registry
lets an old owner delete the entry of a new one while another joins. With `Ttl =
1` and one tick a payment can outlive its TTL and a second window can begin. Two
sessions share the nonce set; two nonces reach a threshold of two.
Three validators let two overlap and a third come after them. Two callers of a
reservation with four contract events allow a lost reply, its retry and the
other caller's step. Five deliveries of four events leave room for a repetition
after a crash and a reset. Four cursors and a budget of four pages let a source
link its pages in a cycle and let a walk use up its budget. Page budgets of one to three stop the indexer at
every page of collections of one and three pages and of a list of three companies
on two pages, `Unlimited` is no budget at all; any page read may fail. The inputs of
`rules` are products of small sets chosen around each comparison (below, at and
above a limit, absent, malformed) and sequences of up to three or four elements,
which is what duplicates, order and regressions need. `CHECK_DEADLOCK FALSE`
stands wherever the system may come to rest because all calls have been made;
the callers of proof generation go on for ever.

Fairness: JavaScript runs every queued continuation and every timer that is due,
so each call's own steps are weakly fair. HTTP requests settle (the client has a
timeout) and so do the payments of a batch, because polling is bounded. `fn` of
a retry budget is not assumed to settle, nor is any transaction assumed to land,
nor any poll to fail. Of the newer modules: timers fire and awaited answers
settle (`PollingEnds`, `WalkEnds` assume that a status or page call settles, the
worker's requests assume only their own timer, not an answer of the worker).

## 5. Proofs

TLAPS proves, for all values of the constants:

- `IdempotencyRegistryProofs`: `TypeCorrect`, `NeverStale`, `AtMostOneInFlight`,
  `SuccessIsReplayed`. The inductive invariant says that a pending promise is
  the one stored under its key, and that a success within its TTL is still
  stored - as long as `onTime` holds, which is what makes deletion by key
  harmless. `ResultsAreShared` (without that condition): a call returns what one
  promise of its own key settled to. `OneRunPerWindow`: runs of one key that are
  under way or succeeded began at least a TTL apart; a new owner finds no older
  one in time because a run in time is still registered.
- `ProofGenerationProofs`, about the semaphore: `SemaphoreTypes`,
  `PermitsRespected`, `PermitsNotLost`, `FairGrants`, and together
  `PermitsAreExact`. The counter equals the number of holders, the queue holds
  each waiter once, and a non-empty queue implies that all permits are out.
  About the generator: `ProofsUseSemaphore`, every step of it is a
  step of the semaphore or leaves it alone, so that its theorems hold of the
  composition. `PermitsMatch` ties jobs to permits: who is queued waits or holds,
  who fetches or proves holds, nobody else does; hence `ProofsAreCapped`.
  `WorkIsShared`: while nobody clears, whoever computes a witness or downloads an
  artifact is the one that others join, what is being verified is in the cache,
  and a fetch that is over has brought something or failed.
- `BatchSubmitterProofs`: `SubmitterTypes`, `SubmitterInvariant`,
  `EveryTokenSafe`, `SuccessIsComplete`. The strengthening ties the loop
  position to the ledger: while `strict` holds, `succeeded = batch`, the first
  `batch` batches are paid and `items` is their number of entries, and the
  entries before `pos` in the current batch are paid. `ReportsAreExact` and
  `CompletedStayPaidOnce` follow from the same invariant with what is known of
  the failure list, of the counts and of `completed`. All but the types
  assume `CommitmentBinds`: collections with the same commitment are the same.
  The code does not guarantee it (section 6); it is a condition on what the
  operator submits. `CompletedStayPaidOnce` also assumes `DistinctEntries`, that
  no collection lists an entry twice, because the ledger counts payments by
  entry.
- `RetryBudgetProofs`: `RetriesSafe` and `NoLateStarts`. The registry of attempts
  keeps the registry's invariant, so that an attempt that runs is the one
  registered under its key, also after its own call has given it up; and
  attempts are used in order (`AttemptsInOrder`).
- `PaymentServiceProofs`: `ServiceUsesRegistries`, a payment step is a step of
  each of the two registries or leaves it alone, so that everything proved of the
  registry holds of both. On top of that the invariant relates stages and
  registries (`StagesMeet`: a payment runs while its promise is pending and is
  sending while it awaits a request), requests and ledger (`SentMeet`: a
  transaction is there only after its own request settled, never after an ERROR)
  and promises and ledger (`PaidMeet`). `PaymentResultsTruthful` follows because
  a shared result comes from a promise of the same key; `PaymentKeyPaysOnce`
  because a transaction that may land belongs to a payment that runs, succeeded
  or ended uncertain, and the first two are a TTL apart by `OneRunPerWindow`.
- `OperationsProofs`: `DeliveriesAreSound`, `WaitingIsSound`,
  `ApprovalsAreSound`, `ReservationsAreSound`, `WalksAreSound`, `ReadingIsSound`,
  `StepsAreSound`.
  Each component has an invariant of its own (`EventInv`, `PollInv`, `WorkerInv`,
  `NonceInv`, `TransferInv`, `AuthInv`, `ReserveInv`, `WalkInv`, `IndexInv`), and the steps
  of the others leave its variables alone. Worth naming: positions of events are
  totally ordered (`PositionOrder`), an event under way was checked against the
  cursor (`CheckedAgainstCursor`), and no success is ahead of it; the nonces of a
  signer are as many as its signatures because each recorded signature adds one
  to both; the log of a reservation has its reservation first, what ended it
  second and only refused releases after that, and every caller's copy is the
  contract's state or that of the day it was reserved. `IndexInv` says that what
  the caller and the pass have read of a collection reaches up to its cursor
  without a gap, that the pass stays within its budget, and that the companies
  listed so far have been read to their ends; a failed read keeps it because the
  cursors the caller then holds are those of the pass. `ApprovalKept`, part of
  `StepsAreSound`, needs that a decision takes no weight away: the sum of weights
  is a recursive function, which is shown to exist and to grow by looking at the
  first index at which it would not (`SumExists`, `SumGrows`). Weights are
  assumed to be natural numbers. Where the code searches
  for the first element or the smallest index, the proof uses that a non-empty
  set of numbers has a least one (`Smallest`, from well-foundedness of finite
  sets, in place of an induction).
- `QuorumSessionProofs`: all properties of the sessions (`QuorumSessionsSound`
  and the action properties), for any plans,
  signers, nonces and submitters. Two facts carry them. `SubmitterMeaning`: a
  submitter that is through left its session consumed or expired, and both are
  for good. `UsedSlots`: a used slot has its signer and no earlier slot of its
  role is free or of that signer, so the search finds the same slot again; it is
  why a later rejection never leaves a second slot of that signer shown as
  signed. The constants are assumed to be typed as the constructor's parameters
  are, `None` to be no address, nonce or session.

- `RulesProofs`: seven composites of `MCRules`, for broad classes of inputs
  (`AnyError`, `AnyProofConfig`, `AnyRoster`, `AnyConfig`, `AnyRecon`, `AnyPlan`,
  `AnyCreated` and so on) that contain those of the run. Validators are lists of checks: `FirstOf` finds
  the first that applies, `AllOf` all of them, and from these two lemmas every
  validator becomes a chain of conditions. `ErrorsKeepTheirMeaning`: the loop of
  `withRetry` has an invariant (`LoopInv`: a call is followed by another only if
  it may be repeated, after its delay and before the deadline).
  `ReadyProofsAreHeld`: sanitizing is idempotent field by field.
  `EachIsPaidOnce`: eligibility means that no collected reason is an error
  (`Clean`), reasons are joined rule by rule (`Joined`), and a row of a batch is
  accepted only if no earlier row that counts is like it; batches, registries
  and options are arbitrary. `SetupIsHeld`: the verdict about an employer is a
  chain in which all that depends on the network comes after all that does not
  (`EmployerVerdict`), a migrated configuration is a fixed point of migration
  (`AnyMigrationSettles`), and the waits between calls double (`WaitsDouble`).
  `FundsAreAccounted`: the model adds with a left fold (`Total`), and a fold over
  a sequence of any length is a list of partial sums (`TotalAdds`), so sums of
  obligations, balances and payments are compared term by term; a difference
  between expectation and observation falls into one category per entry
  (`CategoriesAddUp`), so the counts of the categories add up to the entries and
  the three verdicts on them agree. `PlansAreHeld`: versions compare by the first
  number in which they differ (`VersionsAre`), the checks of a plan are at most
  two about the contract and five others whose places are known (`ChecksAre`), the
  steps of a run are a division rounded up (`StepsAre`), and both readers of a
  simulation are chains of conditions on the same findings (`TextCategoryIs`,
  `ResultIs`). `EvidenceIsHeld`: a receipt verifies when each of six fields does,
  and as the names of the six differ, counting them is asking for all of them
  (`SixReport`, `VerifiedIs`); what the other readers of a receipt ask follows
  from that list. A package verifies under one condition on the time
  (`PackageShapeIs`), access is open exactly before it expires for all three of
  its readers, and the summary of audit events and their filter choose the same
  places of the sequence, whatever its length.
  Functions defined by recursion (the retry loop, the waits) are treated like
  the sum of weights: the first number at which they would fail.

Each invariant was checked by TLC on the run of its component before it was
proved. Assumptions on constants are types of parameters (limits, times and
budgets are natural numbers, roles and policies have the shape of the source's
interfaces) and that a value standing for "none" or "undefined" is not one of
the values: `NoTokenAssumption`, `AttemptsAssumption`, `PaymentAssumption`,
`NoOneAssumption`, `EventsAssumption`, `PollAssumption`, `TransferAssumption`,
`AuthAssumption`, `ReserveAssumption`, `LimitsResolved`. TLC evaluates them all.

Only model-checked:

- liveness, as fairness is beyond the prover (`CallReturns`, `EveryCallReturns`,
  `EveryCallEnds`, `EveryPaymentReturns`, `EveryRequestAnswered`,
  `OperationsEnd`);
- the remaining composites of `MCRules` (`MoneyReadOneWay`, `RunViewsAgree`,
  `AcceptedGoesThrough`, `NoticesTakenRight`), over bounded inputs: they contain
  selections and sorts of sequences and powers of ten, and what those compute for
  every input needs induction over data that the partial sums above do not
  replace.

## 6. Where the code disagrees with what is written about it

With a run that checks what the text says (see the findings in `PROJECT.json`):
`batch_resume_skips`, `payment_retry_duplicates` and `artifact_unverified`.

Without a run:

- `fingerprint/batchFingerprint.ts:175` sorts the entries, so a resume token is
  accepted for the same entries in another order; `payroll/batchResumeToken.ts:212`
  says it is valid for the exact collection only.
- `core/idempotency.ts:77` prunes entries whose `fn` still runs, `:22` says
  duplicates share it while it is in flight.
- `core/retry-budget.ts:333` uses `ttlMs: 0`: an attempt that timed out and
  succeeded late is submitted again; `docs/RETRY_POLICY.md:139` says it cannot be.
- `payroll/safeBatchSubmitter.ts:467` returns `success: true` after a batch was
  passed over, `:124` calls it "Whether all batches completed successfully";
  `:429` says that no items were committed although a part of the batch may be.
- `core/idempotency.ts:60` deletes by key, so an old owner may delete the entry
  of a newer one.
- `core/retry-budget.ts:456` reports a permanent failure of the last attempt as
  exhausted, `:303` says it is rethrown immediately.
- `adapters/BaseContractWrapper.ts:55` promises to replay completed submissions,
  `:274` keeps them for 0 ms; `submissionTimeoutMs` (`:36`) is never read.
- `sessions/QuorumSessionManager.ts:283`: a signature goes on counting after its
  signer rejected, several addresses of one role each count, and
  `prepareSubmissionPackage` does not look at rejections, so a session whose
  status is "rejected" can still be packaged.

- Authorization: `MultiSignerCoordinator.ts:211` approves a unanimous request
  all of whose signers rejected (0 = 0); `revokeSignature` looks at neither
  expiry nor state. A delegation is accepted although it has expired.
- Transfers of a role: nothing holds the current copy of a transfer, so whoever
  still has the accepted copy of a finalized transfer can cancel it
  (`authorization/roleTransfer.ts:271`), although `:261` says "A transfer that is
  already finalized cannot be cancelled". `FinalizedWasAccepted` speaks of the
  finalized copy and of the terms of the others, not of their ends.
- Nonces: `generateExecutionNonce` makes 16 random bytes, the validator wants 32,
  so a fresh nonce is always `INVALID_SIGNATURE`; overlapping validations of one
  nonce may both be confirmed (`:225`); contexts `a.b` and `a-b` share a scope.
- Proofs: clearing the cache between arrival and verification makes a fetch
  return `undefined`; a request that timed out is still being computed by the
  worker when it is dispatched again; "05" and "5" are different witnesses;
  expiry is `>` in the verifier and `>=` in the freshness check.
- Indexers: a budget that runs out before a collection's first page looks
  complete (`ContractStateIndexer.ts:204`); on resumption finished collections
  are read again and companies behind the active one on its page are lost. The
  event processor records an event before the cursor is saved (`:72`).
- Polling: `pollTransaction` may sleep one interval past its timeout.
- Reservations: a retried release, though classified as a duplicate, also raises
  the issue "after terminal" (`reservations/helpers.ts:310`);
  `calculateReservationRemaining` returns 0 when nothing is used;
  two releases are reported as "finalized and released"; a lost reply and a
  retry reserve twice.
- Treasury: the sign of the shortfall in `payerAccountStatus.ts:253` is reversed;
  each obligation is compared with the whole balance; a closeable period may hold
  failed payments and other amounts (`reportBuilder.ts:276`).
- Amounts: with no decimals, rounding up adds 2 (`amountParsing.ts:399`); CEIL
  ignores digits behind a first 0 (`:263`); an amount may round to 0, and "00" is
  a positive amount (`:375`); `strict` is reversed in `formatters.ts:30`.
- Assets: re-registering a symbol for another asset and removing the first leaves
  the second without its symbol (`AssetRegistry.ts:119,213`).
- Life cycle: `fetchPeriodSummary` returns an empty summary with an untyped error
  when the call failed (`payroll/periodSummary.ts:266`), `:243` says "@throws
  {Error} If the contract call fails"; `closedAt` 0 counts as never closed; a
  failed read of a lock is shown as unlocked, with an error beside it
  (`lockTimestamp.ts:135`); the
  evaluator trims a run's status and the client and filters do not, so
  "finalized " is ready for one (`archive/eligibility.ts:94`) and ineligible for
  the other (`archive/ArchiveClient.ts:40`), and a run whose record reads "held "
  on the ledger passes for archived (`:168`); paging backward with
  `paginateIterator` yields one page (`pagination.ts:198`).
- Eligibility: the awaited evaluation runs custom rules twice; "conditional" is
  unreachable (`:335`); a failed registry read is reported as not found.
- Setup: an employer whose contract is not deployed is "ready"
  (`employer-readiness.ts:164`, `sanity.ts:95`); the checklist takes artifact
  sources that `validateConfig` refuses.
- Requests: `allSucceeded` ignores timeouts and skipped
  items (`partialBatchFailureParser.ts`); the success rate is rounded to a tenth
  of a percent (`:199`), so with one item of 2000 to be retried no retry is
  recommended (`:304`), although the doc (`:298`) asks whether the failure "is
  recoverable through retry"; `RetryViewsAgree` bounds the items passed over.
  Removing an entry of a request leaves the keys of the later ones at their
  indices (`request/PayrollRequestBuilder.ts:85`), so that a custom key "for a
  particular payment" (`:108`) is lost or goes to another; `KeysFollowEntries` is
  about the entries before it. `clear` drops the keys (`:95`), `:92` says "Context
  and key overrides are preserved".
- Receipts: where Node's crypto cannot be loaded `computeMetadataDigest` is not
  SHA-256 as `receipts/digest.ts:182` says: its sieve (`:107`) stops at 300, so
  that 300 and 301 pass for primes, choice and majority read the wrong words
  (`:144`, `:147`) and a character above 255 gives an empty text. There, of every
  receipt with metadata, one verifier refuses what the other accepts, which
  `DigestChecksAgree` states.
- Also of receipts: `trustedSigners` compares names and verifies no signature
  (`receiptVerifier.ts:350`); a view key whose expiry does not parse never
  expires (`viewKeyHelpers.ts:154`).
- Errors: `retry.ts:155,168` takes "timed out" and an `AbortError` for timeouts,
  `mapRpcError` (`core/errors.ts:590,599`) does not: "request timed out, fee bump"
  is retryable as thrown and `INSUFFICIENT_FEE`, never retried, once mapped;
  `docs/ERRORS.md:82` says that network timeouts are retryable.
  `TimeoutsStayRetryable` states both: which words are safe and what is written
  off.
- Also of errors: an observer that throws on "succeeded" turns success into failure
  (`operationResult.ts:368`); `withRetry` with 0 attempts throws `undefined`;
  three tables of retryable codes differ on simulation failures and fees.
- Notices: the clock tolerance shortens the age window of webhooks
  (`webhooks/verify.ts:202`, against `webhooks/types.ts:332`); the first event in
  a list decides a dispute's summary, wrongly for chronological lists
  (`DisputeUIHelpers.ts:282`); 32-bit amounts are 0 to one decoder and read by
  the other.
- Simulation: a timeout becomes `UNKNOWN_ERROR` (`simulation/reconciliation.ts:75`);
  with warnings only, one reader says ready and the other does not; at the exact
  instant of expiry `get` returns an entry and `getWithMetadata` does not.

Properties that exclude one of these cases say so in their comment.

## 7. Not modelled, and why

Contract clients are thin wrappers over `BaseContractWrapper`, whose invocation
path is that of `PaymentService`. Fee estimates, memos, compliance holds, pause
status and envelope inspection are small pure functions without a second reader
to compare them with; they are left out for their size, not for a difficulty.
Out of scope for good: the zk-SNARK computation, XDR and binary encoding,
hashing and encryption themselves (a digest is its content), wallet extensions,
wording of errors, logging and redaction, test doubles.
