---------------------------- MODULE MCOperations ----------------------------
(***************************************************************************)
(* The stateful components that share no state, for TLC: a behaviour picks *)
(* one of them and runs it from its initial state.                         *)
(***************************************************************************)
EXTENDS MultiSigner, ConfirmationNonce, RoleTransfer, Reservations, PageWalk,
  EventProcessor, Polling, StateIndexer, ProofWorker

VARIABLE part       \* the component this behaviour is about

-----------------------------------------------------------------------------
Policy(type, roles, threshold, weights, expiry) ==
  [type |-> type, roles |-> roles, threshold |-> threshold, weights |-> weights, expiryMs |-> expiry]

\* An admin listed twice: one address may hold both entries.
SomePolicies ==
  {Policy("unanimous", <<"admin", "admin">>, 0, [admin |-> 1], 1),
   Policy("threshold", <<"admin", "auditor">>, 1, [admin |-> 1, auditor |-> 1], Undefined),
   Policy("weighted", <<"admin", "auditor", "treasurer">>, 0, [admin |-> 2, auditor |-> 1, treasurer |-> 1], 1)}

\* Contexts "a.b" and "a-b" give the same scope.
ScopeOf(s) == IF s \in {"pay:a.b", "pay:a-b"} THEN "pay:a_b" ELSE s

AddressKind(a) == CASE a \in {"GA", "GB"} -> "base32" [] a = "G0" -> "alnum" [] OTHER -> "bad"

SomeDelegations ==
  [original : {"GA"}, delegated : {"GA", "G0", "bad"}, workflow : {"", "w"}, from : {0, 2}, until : {2, 3, 9},
   role : {"", "treasury", "auditor"}]

\* Events of one transaction, of the next one, and of an earlier operation of a later ledger.
SomeEvents == {<<1, 2, 1, 1>>, <<1, 2, 1, 2>>, <<1, 3, 0, 0>>, <<2, 1, 1, 1>>}

\* Two pages of companies, of two and of one: a has collections of several pages.
ThreeCompanies == <<"a", "b", "c">>
TwoPages == <<2, 3>>
SomeCollections ==
  [c \in {"a", "b", "c"} |->
     [k \in CollectionNames |-> IF c = "a" /\ k \in {"employees", "events"} THEN 3 ELSE 1]]

-----------------------------------------------------------------------------
\* The poll of a behaviour about something else.
NoPoll == [kind |-> "tx", pc |-> "ended", timeout |-> 0, asked |-> 0, wake |-> 0, final |-> FALSE, outcome |-> "none"]

OperationsInit ==
  /\ part \in {"auth", "nonce", "transfer", "reserve", "walk", "events", "poll", "index", "worker"}
  /\ AuthInit /\ NonceInit /\ TransferInit /\ ReserveInit /\ IndexInit /\ WorkerInit
  /\ EventInit /\ (part # "events" => storage = "memory")
  /\ IF part = "walk" THEN WalkInit ELSE walk = [Walk("guarded", NoCursor) EXCEPT !.pc = "ended"] /\ aborted = TRUE
  /\ IF part = "poll" THEN PollInit ELSE poll = NoPoll /\ pollNow = 0 /\ cancelled = TRUE

authOthers == <<nonceVars, transferVars, reserveVars, walkVars>>
laterParts == <<eventVars, pollVars, indexVars, workerVars>>

OperationsNext ==
  /\ UNCHANGED part
  /\ \/ part = "auth" /\ AuthNext /\ UNCHANGED <<nonceVars, transferVars, reserveVars, walkVars, laterParts>>
     \/ part = "nonce" /\ NonceNext /\ UNCHANGED <<authVars, transferVars, reserveVars, walkVars, laterParts>>
     \/ part = "transfer" /\ TransferNext /\ UNCHANGED <<authVars, nonceVars, reserveVars, walkVars, laterParts>>
     \/ part = "reserve" /\ ReserveNext /\ UNCHANGED <<authVars, nonceVars, transferVars, walkVars, laterParts>>
     \/ part = "walk" /\ WalkNext /\ UNCHANGED <<authVars, nonceVars, transferVars, reserveVars, laterParts>>
     \/ part = "events" /\ EventNext /\ UNCHANGED <<authVars, authOthers, pollVars, indexVars, workerVars>>
     \/ part = "poll" /\ PollNext /\ UNCHANGED <<authVars, authOthers, eventVars, indexVars, workerVars>>
     \/ part = "index" /\ IndexNext /\ UNCHANGED <<authVars, authOthers, eventVars, pollVars, workerVars>>
     \/ part = "worker" /\ WorkerNext /\ UNCHANGED <<authVars, authOthers, eventVars, pollVars, indexVars>>

operationsVars == <<part, authVars, authOthers, laterParts>>

\* The fairness is that of PageWalk, Polling and ProofWorker: walks, polls and requests of another behaviour have ended.
OperationsSpec ==
  /\ OperationsInit /\ [][OperationsNext]_operationsVars
  /\ WF_walkVars(Answer) /\ WF_pollVars(pollStep) /\ WF_pollVars(PollTick) /\ WF_workerVars(timers)

-----------------------------------------------------------------------------
(***************************************************************************)
(* The properties, by subject.  Their conjuncts are stated in the modules. *)
(***************************************************************************)

\* What counts as an approval was given: by signatures that stand, a nonce not
\* used before, an accepted transfer, a delegation within its time
\* (authorization/, core/executionConfirmationNonce.ts).
ApprovalsSound ==
  /\ AuthTypeOK /\ RecordsStandUp /\ OneSignaturePerNonce
  /\ NoLateConfirmation /\ ConfirmedIsStored
  /\ FinalizedWasAccepted /\ ExpiredIsDead /\ DelegationViewsAgree

\* Two callers of one reservation, with lost replies and retries, neither create
\* funds nor are misled about it (TreasuryReservationClient.ts, reservations/).
ReservationsSound == NeverMoreThanReserved /\ MatchMeansCurrent /\ RetriesRecognised

\* Reading page by page, from an untrusted source or under a budget, repeats
\* nothing, leaves nothing out in the middle and says when it is not complete
\* (pagination-guardrails.ts, periodPagination.ts, ContractStateIndexer.ts).
ReadingSound == NoPageTwice /\ NothingDropped /\ ResumesWhereItStopped /\ AmpleBudgetReadsAll

\* The cursor never falls behind what was reported, and nothing is dropped as a
\* duplicate unheard, through crashes and failed saves (IdempotentEventProcessor.ts).
DeliveriesSound == CursorCoversSuccesses /\ DuplicateWasReported

\* An answer on its way is not lost to a timer, timers are on time, and nobody
\* waits for what has settled (polling.ts, WorkerProofGenerator.ts).
WaitingSound == AnswerBeatsClock /\ TimeoutOnTime /\ SharedIsPending

\* What no step may do: take an approval back, repeat an event behind the cursor,
\* ask after an abort, end a pass with budget left early, settle a request twice.
StepsSound ==
  [][ApprovalKept /\ RepeatsOnlyAtCursor /\ NoAskAfterCancel /\ AmplePassFinishes /\ SettlesOnce]_operationsVars

\* Walks, polls and requests to the worker end, whatever the other side does.
OperationsEnd == WalkEnds /\ PollingEnds /\ RequestsSettle
=============================================================================
