------------------------------ MODULE MCRules ------------------------------
(***************************************************************************)
(* Every pure module of the project, asked about each of its inputs.       *)
(***************************************************************************)
EXTENDS Reconciliation, Treasury, Amounts, Lifecycle, Employees, Assets,
        Setup, Drafts, Intake, Pages, ProofRules, Receipts, Failures,
        Notices, Planning

RulesInit == subject = Unasked

RulesNext ==
  \/ Ask("recon", ReconInputs)
  \/ Ask("readiness", ReadinessInputs)
  \/ Ask("payer", PayerInputs)
  \/ Ask("obligations", ObligationInputs)
  \/ Ask("checkpoints", CheckpointInputs)
  \/ Ask("amount", AmountInputs)
  \/ Ask("threshold", ThresholdInputs)
  \/ Ask("withholding", WithholdingInputs)
  \/ Ask("status", StatusInputs)
  \/ Ask("archive", RunInputs)
  \/ Ask("period", PeriodInputs)
  \/ Ask("reply", ReplyInputs)
  \/ Ask("history", HistoryInputs)
  \/ Ask("employee", EmployeeInputs)
  \/ Ask("roster", RosterInputs)
  \/ Ask("rotation", RotationInputs)
  \/ Ask("identity", IdentityInputs)
  \/ Ask("supported", SupportedInputs)
  \/ Ask("assetcalls", RegistryInputs)
  \/ Ask("schedule", ScheduleInputs)
  \/ Ask("config", ConfigInputs)
  \/ Ask("employer", EmployerInputs)
  \/ Ask("runtime", RuntimeInputs)
  \/ Ask("rpc", RpcInputs)
  \/ Ask("draft", DraftInputs)
  \/ Ask("builder", CallInputs)
  \/ Ask("offline", OfflineInputs)
  \/ Ask("batches", BatchInputs)
  \/ Ask("rows", RowInputs)
  \/ Ask("answer", AnswerInputs)
  \/ Ask("outcomes", OutcomeInputs)
  \/ Ask("pages", PageInputs)
  \/ Ask("archived", ArchiveInputs)
  \/ Ask("proofconfig", ProofConfigInputs)
  \/ Ask("witness", Witnessed)
  \/ Ask("mode", ModeInputs)
  \/ Ask("freshness", FreshnessInputs)
  \/ Ask("reference", ReferenceInputs)
  \/ Ask("receipt", ReceiptInputs)
  \/ Ask("created", CreatedInputs)
  \/ Ask("lookup", LookupInputs)
  \/ Ask("attachment", AttachmentInputs)
  \/ Ask("package", PackageInputs)
  \/ Ask("access", AccessInputs)
  \/ Ask("auditevents", EventInputs)
  \/ Ask("error", ErrorInputs)
  \/ Ask("retries", RetryInputs)
  \/ Ask("operation", OperationInputs)
  \/ Ask("refusal", RefusalInputs)
  \/ Ask("roles", RoleInputs)
  \/ Ask("amountfield", AmountFieldInputs)
  \/ Ask("rawevents", RawEventInputs)
  \/ Ask("disputes", DisputeInputs)
  \/ Ask("webhook", HookInputs)
  \/ Ask("watch", WatchInputs)
  \/ Ask("versions", VersionInputs)
  \/ Ask("plan", PlanInputs)
  \/ Ask("policy", PolicyInputs)
  \/ Ask("simulation", SimulationInputs)
  \/ Ask("response", ResponseInputs)
  \/ Ask("cache", CacheReadInputs)

RulesSpec == RulesInit /\ [][RulesNext]_subject

-----------------------------------------------------------------------------
(***************************************************************************)
(* The properties, one for each part of the system.  Their conjuncts are   *)
(* stated in the modules of that part.                                     *)
(***************************************************************************)

\* A payroll reported ready can be paid, a report that balances does so in every
\* part, and a run called reconciled agrees with the chain payment by payment
\* (treasury/, obligations/, reconciliation/).
FundsAccounted ==
  /\ ReadyMeansFunded /\ SenderIsUsable /\ ObligationsAccounted /\ NoCancelling
  /\ FullyReconciledSound /\ VerdictsAgree /\ RegressionNoticed /\ CloseableIsClear

\* An amount, an asset and a pay cycle are the same to everything that reads
\* them: parsers, roundings, minimums, withholding, registry and calendar
\* (assets/, payroll/, schedules/).
MoneyReadOneWay ==
  /\ ReadersAgree /\ RoundingAgrees /\ MinimumsAgree /\ WithholdingApplies /\ IdentityIsCanonical
  /\ SymbolsLeadHome /\ CyclesTile

\* The tables, lists, pages and readers of a payroll run say the same about it,
\* and time never takes a verdict back (payroll/, archive/, archived/,
\* amendments/, pagination.ts).
RunViewsAgree ==
  /\ StatusTablesAgree /\ ArchiveViewsAgree /\ WindowsAreMonotone /\ FailedReadsShow
  /\ HistoryIsOneOrder /\ PagesTile /\ BatchPagesTile /\ ArchiveAnswersAgree

\* An employee is paid at most once and one way, and is refused for good only
\* for a reason that lasts (eligibility/, employees/).
EachPaidOnce ==
  /\ PaidOneWay /\ FinalReasonsLast /\ BatchPaysEachOnce /\ OverrideLiftsCooldownOnly

\* What one stage of the intake accepts the next can use, every entry keeps its
\* key, and duplicates, differences and failures are counted alike wherever they
\* are looked for (draft/, request/, batch/, batches/, import/, validation/).
AcceptedGoesThrough ==
  /\ DraftsGoThrough /\ DuplicatesAgree /\ KeysFollowEntries /\ PresetsNested /\ DiffsAgree
  /\ ClustersAreClosure /\ AnswersAddUp /\ RetryViewsAgree

\* A setup reported ready works, a setup reported blocked stays so, and calls to
\* the network are repeated only for failures that may pass (config.ts, setup/,
\* employer-readiness.ts, env/, network/rpcRetry.ts).
SetupHolds ==
  /\ ReadyConfigLoads /\ MigrationSettles /\ BlockedIsLasting /\ CapabilityViewsAgree
  /\ RetriesEarned

\* A proof that is said to be possible can be generated, one payment has one
\* witness, and a proof that is fresh is not refused as expired (crypto/,
\* proofs/, proof-readiness/).
ReadyProofsHold ==
  /\ ReadyProofsGenerate /\ SanitizedIsCanonical /\ AvailableModesPermitted /\ FreshIsNotExpired
  /\ ReferencesRoundTrip

\* Receipts, digests and disclosures made by the SDK are accepted by every reader
\* of the SDK, for as long as they last and no further than their scope
\* (receipts/, settlement/, audit/).
EvidenceHolds ==
  /\ DigestChecksAgree /\ VerifiedReceiptsSettle /\ OwnReceiptsVerify /\ FoundReceiptsVerify
  /\ AttachedDigestMatches /\ PackagesStayInScope /\ AccessViewsAgree /\ FailuresAreCounted

\* What may be retried is, until the deadline; what may not is not; and the report
\* of an operation says whether it ran (core/errors.ts, retry.ts,
\* operationResult.ts, errors/, roles/).
ErrorsKeepMeaning ==
  /\ TimeoutsStayRetryable /\ TerminalIsNotAdvertised /\ RetriesEnd /\ OutcomeIsTruthful
  /\ RemediationFitsCode /\ CapabilityListsAgree

\* Events, disputes, webhooks and confirmations mean to the SDK what their sender
\* put into them, one bad element of a list or a late answer included (events/,
\* event-parser.ts, events.ts, disputes/, webhooks/).
NoticesTakenRight ==
  /\ EventAmountsExact /\ BatchesKeepOwn /\ BlockingViewsAgree /\ NewestNoticeDecides
  /\ UrgentComesFirst /\ AcceptedWebhooksAreGenuine /\ ConfirmationIsDecisive

\* What a plan, a policy, a simulation or a cache promises is so (planner/,
\* policy/, simulation/, cache/).
PlansHold ==
  /\ VersionsAreOrdered /\ ReadyPlansHold /\ PoliciesAreSatisfiable /\ SimulationAddsUp
  /\ SimulationReadersAgree /\ CachedIsFresh
=============================================================================
