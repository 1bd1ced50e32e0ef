---------------------------- MODULE PaymentService ----------------------------
(***************************************************************************)
(* One private payment from end to end: PayrollService.processPayment      *)
(* (payroll.ts), BaseContractWrapper.invoke with its two halves            *)
(* buildInvocation and submitInvocation (adapters/BaseContractWrapper.ts), *)
(* and, as far as they use it, the RPC server and the ledger behind it.    *)
(*                                                                         *)
(* Two idempotency registries guard a payment: processPayment shares whole *)
(* payments (default TTL, errors not cached), submitTransaction shares the *)
(* sendTransaction requests only (ttlMs 0).  Both are instances of         *)
(* IdempotencyRegistry; a call without a key has a key of its own in each, *)
(* which is the same as passing the registry by.                           *)
(*                                                                         *)
(* Transactions are named after the call that built them.  A transaction   *)
(* carries the sequence number that getAccount returned plus one, and may  *)
(* be dropped at any time (setTimeout(30), eviction).  What getTransaction *)
(* reports may lag behind the ledger.                                      *)
(***************************************************************************)
EXTENDS Integers, FiniteSets

CONSTANTS
  Calls,      \* calls of processPayment on one PayrollService
  Keys,       \* idempotency keys
  Ttl,        \* default TTL of the payment registry
  MaxPolls,   \* maxPolls of pollForResult
  MaxTime,    \* bound: last instant of the clock
  None        \* no call

ASSUME PaymentAssumption ==
  /\ Keys \cap Calls = {} /\ None \notin Calls
  /\ Ttl \in Nat \ {0} /\ MaxPolls \in Nat \ {0} /\ MaxTime \in Nat

VARIABLES
  now, entry, phase, key, expiresAt, promise, source, outcome, onTime,  \* payment registry
  sEntry, sPhase, sPromise, sSource, sOutcome,  \* submission registry
  stage,      \* of each payment that runs: see Stages
  seq,        \* sequence number of the transaction a payment built
  response,   \* status of the SendTransactionResponse a request returned
  polls,      \* attempt of pollForResult
  tx,         \* ledger: what became of each transaction
  ledgerSeq   \* ledger: sequence number of the paying account

paymentVars == <<now, entry, phase, key, expiresAt, promise, source, outcome, onTime>>
submissionVars == <<sEntry, sPhase, sPromise, sSource, sOutcome>>
stageVars == <<stage, seq, response, polls>>
ledgerVars == <<tx, ledgerSeq>>
vars == <<paymentVars, submissionVars, stageVars, ledgerVars>>

Stages == {"idle", "preparing", "built", "sending", "polling", "ok", "refused", "uncertain"}
Responses == {"none", "PENDING", "TRY_AGAIN_LATER", "ERROR"}
TxStates == {"none", "pending", "landed", "reverted", "dropped"}

\* A refused payment moved no money and never will; nothing is known of an uncertain one.
Failures == {"refused", "uncertain"}

AllKeys == Keys \cup Calls

Payments == INSTANCE IdempotencyRegistry WITH
  Callers <- Calls, Keys <- AllKeys, Ttls <- {Ttl}, Errors <- Failures,
  ttl <- [c \in Calls |-> Ttl], cacheErrs <- [c \in Calls |-> FALSE]

\* submissionIdempotency has ttlMs 0, which no call outlives.
submissionTtl == 0

Submissions == INSTANCE IdempotencyRegistry WITH
  Callers <- Calls, Keys <- AllKeys, Ttls <- {submissionTtl}, Errors <- {"rpcError"},
  now <- 0, MaxTime <- 0, ttl <- [c \in Calls |-> submissionTtl],
  cacheErrs <- [c \in Calls |-> FALSE], expiresAt <- [c \in Calls |-> -1], onTime <- (submissionTtl = 0),
  entry <- sEntry, phase <- sPhase, promise <- sPromise, source <- sSource, outcome <- sOutcome

Init ==
  /\ key \in {f \in [Calls -> AllKeys] : \A c \in Calls : f[c] \in Keys \cup {c}}
  /\ Payments!Init
  /\ Submissions!Init
  /\ stage = [c \in Calls |-> "idle"]
  /\ seq = [c \in Calls |-> 0]
  /\ response = [c \in Calls |-> "none"]
  /\ polls = [c \in Calls |-> 0]
  /\ tx = [c \in Calls |-> "none"]
  /\ ledgerSeq = 0

Enter(c, s) == stage' = [stage EXCEPT ![c] = s]

\* processPaymentInternal returns or throws: its promise settles.
End(c, s) == Enter(c, s) /\ Payments!Settle(c, s)

-----------------------------------------------------------------------------
\* Mutant: the payment registry is passed by.
processPayment_Unshared(c) ==
  /\ phase[c] = "idle"
  /\ Enter(c, "preparing")
  /\ phase' = [phase EXCEPT ![c] = "owner"] /\ promise' = [promise EXCEPT ![c] = "pending"]
  /\ source' = [source EXCEPT ![c] = c]
  /\ UNCHANGED <<now, entry, key, expiresAt, outcome, onTime, submissionVars, seq, response,
                 polls, ledgerVars>>

(***************************************************************************)
(* processPayment: join the payment under the key or start one.            *)
(***************************************************************************)
processPayment(c) ==
  /\ Payments!Execute(c)
  /\ stage' = IF promise'[c] = "pending" THEN [stage EXCEPT ![c] = "preparing"] ELSE stage
  /\ UNCHANGED <<submissionVars, seq, response, polls, ledgerVars>>

(***************************************************************************)
(* Before anything is broadcast: validation, the destination hook and the  *)
(* proof come before getAccount, which reads the sequence number;          *)
(* simulateTransaction and the signature come after it.  Each may throw,   *)
(* and then no money has moved.                                            *)
(***************************************************************************)
LoadAccount(c) ==
  /\ stage[c] = "preparing"
  /\ Enter(c, "built")
  /\ seq' = [seq EXCEPT ![c] = ledgerSeq + 1]
  /\ UNCHANGED <<paymentVars, submissionVars, response, polls, ledgerVars>>

PreparationFails(c) ==
  /\ stage[c] \in {"preparing", "built"}
  /\ End(c, "refused")
  /\ UNCHANGED <<submissionVars, seq, response, polls, ledgerVars>>

\* Mutant: the idempotency key is not looked at when the transaction is sent.
submitTransaction_Direct(c) ==
  /\ stage[c] = "built"
  /\ Enter(c, "sending")
  /\ sPhase' = [sPhase EXCEPT ![c] = "owner"] /\ sPromise' = [sPromise EXCEPT ![c] = "pending"]
  /\ sSource' = [sSource EXCEPT ![c] = c]
  /\ UNCHANGED <<paymentVars, sEntry, sOutcome, seq, response, polls, ledgerVars>>

(***************************************************************************)
(* Signed: send the transaction or share the request that is in flight     *)
(* under the key.                                                          *)
(***************************************************************************)
submitTransaction(c) ==
  /\ stage[c] = "built"
  /\ Enter(c, "sending")
  /\ Submissions!Execute(c)
  /\ UNCHANGED <<paymentVars, seq, response, polls, ledgerVars>>

(***************************************************************************)
(* The server: a transaction whose sequence number is not the next one is  *)
(* refused, others may be accepted, refused or put off.  The request may   *)
(* fail on the way there or on the way back.                               *)
(***************************************************************************)
Accept(c) == seq[c] = ledgerSeq + 1 /\ tx' = [tx EXCEPT ![c] = "pending"]

Respond(c, status) ==
  /\ Submissions!Settle(c, "ok")
  /\ response' = [response EXCEPT ![c] = status]
  /\ IF status = "PENDING" THEN Accept(c) ELSE UNCHANGED tx
  /\ UNCHANGED <<paymentVars, stage, seq, polls, ledgerSeq>>

RequestFails(c) ==
  /\ Submissions!Settle(c, "rpcError")
  /\ Accept(c) \/ UNCHANGED tx
  /\ UNCHANGED <<paymentVars, stageVars, ledgerSeq>>

\* The hash that a payment polls is that of the transaction that was sent.
hash(c) == sSource[c]

(***************************************************************************)
(* submitInvocation continues with the response, its own or a shared one.  *)
(***************************************************************************)
Sent(c) ==
  /\ stage[c] = "sending"
  /\ Submissions!OwnerContinues(c) \/ Submissions!JoinedContinues(c)
  /\ \/ sOutcome'[c] = "rpcError" /\ End(c, "uncertain")
     \/ sOutcome'[c] = "ok" /\ response[hash(c)] = "ERROR" /\ End(c, "refused")
     \/ /\ sOutcome'[c] = "ok" /\ response[hash(c)] # "ERROR"
        /\ Enter(c, "polling") /\ UNCHANGED paymentVars
  /\ UNCHANGED <<seq, response, polls, ledgerVars>>

(***************************************************************************)
(* pollForResult: SUCCESS and FAILED end it; otherwise poll again, at most *)
(* maxPolls times.  getTransaction itself may fail for good (PollFails).   *)
(***************************************************************************)
\* Mutant: every status but NOT_FOUND is taken for a success.
Found_AnyStatus(c) == tx[hash(c)] \in {"landed", "reverted"} /\ End(c, "ok") /\ UNCHANGED polls

Found(c) ==
  /\ \/ tx[hash(c)] = "landed" /\ End(c, "ok")
     \/ tx[hash(c)] = "reverted" /\ End(c, "refused")
  /\ UNCHANGED polls

\* Mutant: a transaction that was not found in time is reported as a failed one.
NotFound_GivesUp(c) ==
  /\ \/ polls[c] + 1 = MaxPolls /\ End(c, "refused")
     \/ polls[c] + 1 < MaxPolls /\ UNCHANGED <<stage, paymentVars>>
  /\ polls' = [polls EXCEPT ![c] = @ + 1]

\* Mutant: one poll too many.
NotFound_OneMore(c) ==
  /\ \/ polls[c] = MaxPolls /\ End(c, "uncertain")
     \/ polls[c] < MaxPolls /\ UNCHANGED <<stage, paymentVars>>
  /\ polls' = [polls EXCEPT ![c] = @ + 1]

\* Mutant: the polls are not counted.
NotFound_Endless(c) == UNCHANGED <<stage, paymentVars, polls>>

NotFound(c) ==
  /\ \/ polls[c] + 1 = MaxPolls /\ End(c, "uncertain")
     \/ polls[c] + 1 < MaxPolls /\ UNCHANGED <<stage, paymentVars>>
  /\ polls' = [polls EXCEPT ![c] = @ + 1]

pollForResult(c) ==
  /\ stage[c] = "polling"
  /\ Found(c) \/ NotFound(c)
  /\ UNCHANGED <<submissionVars, seq, response, ledgerVars>>

PollFails(c) ==
  /\ stage[c] = "polling"
  /\ End(c, "uncertain")
  /\ UNCHANGED <<submissionVars, seq, response, polls, ledgerVars>>

Returns(c) ==
  /\ Payments!OwnerContinues(c) \/ Payments!JoinedContinues(c)
  /\ UNCHANGED <<submissionVars, stageVars, ledgerVars>>

-----------------------------------------------------------------------------
(***************************************************************************)
(* The ledger applies the next transaction of the account, or a pending    *)
(* one is dropped.  Time passes.                                           *)
(***************************************************************************)
Apply(c) ==
  /\ tx[c] = "pending" /\ seq[c] = ledgerSeq + 1
  /\ \E how \in {"landed", "reverted"} : tx' = [tx EXCEPT ![c] = how]
  /\ ledgerSeq' = ledgerSeq + 1
  /\ UNCHANGED <<paymentVars, submissionVars, stageVars>>

Drop(c) ==
  /\ tx[c] = "pending"
  /\ tx' = [tx EXCEPT ![c] = "dropped"]
  /\ UNCHANGED <<paymentVars, submissionVars, stageVars, ledgerSeq>>

Tick == Payments!Tick /\ UNCHANGED <<submissionVars, stageVars, ledgerVars>>

Answers(c) == RequestFails(c) \/ \E status \in Responses \ {"none"} : Respond(c, status)

Works(c) ==
  \/ LoadAccount(c) \/ PreparationFails(c) \/ submitTransaction(c)
  \/ Sent(c) \/ pollForResult(c) \/ Returns(c)

Next ==
  \/ \E c \in Calls : processPayment(c) \/ Works(c) \/ PollFails(c) \/ Answers(c) \/ Apply(c) \/ Drop(c)
  \/ Tick

Spec == Init /\ [][Next]_vars

(***************************************************************************)
(* Continuations and timers run and RPC requests settle, one way or other; *)
(* the ledger owes nothing.                                                *)
(***************************************************************************)
FairSpec == Spec /\ \A c \in Calls : WF_vars(Works(c)) /\ WF_vars(Answers(c))

-----------------------------------------------------------------------------
(***************************************************************************)
(* TypeOK: the two registries, the stages and the ledger.                  *)
(***************************************************************************)
TypeOK ==
  /\ Payments!TypeOK /\ Submissions!TypeOK
  /\ stage \in [Calls -> Stages]
  /\ seq \in [Calls -> Nat] /\ ledgerSeq \in Nat
  /\ response \in [Calls -> Responses]
  /\ polls \in [Calls -> 0..MaxPolls]
  /\ tx \in [Calls -> TxStates]

(***************************************************************************)
(* A call that returns a PaymentResult was paid: a transaction built for a *)
(* call with its key has landed, although the result may come from another *)
(* payment's promise or from another payment's request.                    *)
(***************************************************************************)
SuccessMeansPaid ==
  \A c \in Calls :
    outcome[c] = "ok" => \E d \in Calls : key[d] = key[c] /\ tx[d] = "landed"

(***************************************************************************)
(* An error other than a failed or unanswered request is final: its        *)
(* transaction has not landed and cannot land later, so the payment may be *)
(* retried (the errors thrown by submitInvocation and pollForResult).      *)
(***************************************************************************)
RefusedMeansUnpaid ==
  \A c \in Calls : stage[c] = "refused" => tx[c] \notin {"pending", "landed"}

(***************************************************************************)
(* Under one key at most one transaction is or may come to be on the       *)
(* ledger per TTL window, as long as no payment outlives the TTL and none  *)
(* under this key ended uncertain (paymentIdempotency.execute).            *)
(***************************************************************************)
MayLand(c) == tx[c] \in {"pending", "landed"}

Certain(k) == \A c \in Calls : key[c] = k => stage[c] # "uncertain"

PaidOncePerWindow ==
  onTime =>
    \A c, d \in Calls :
      c # d /\ key[c] = key[d] /\ Certain(key[c]) /\ MayLand(c) /\ MayLand(d) =>
        expiresAt[c] + Ttl <= expiresAt[d] \/ expiresAt[d] + Ttl <= expiresAt[c]

(***************************************************************************)
(* No two requests for one key are in flight at the same time, even when   *)
(* the payment that sends the first has outlived its TTL and a second one  *)
(* runs (submissionIdempotency.execute with ttlMs 0).                      *)
(***************************************************************************)
OneRequestPerKey ==
  \A c, d \in Calls :
    sPromise[c] = "pending" /\ sPromise[d] = "pending" /\ key[c] = key[d] => c = d

(***************************************************************************)
(* What the caller is told is so on the ledger, for results and for final  *)
(* errors (processPayment).                                                *)
(***************************************************************************)
ResultsTruthful == TypeOK /\ SuccessMeansPaid /\ RefusedMeansUnpaid

(***************************************************************************)
(* A key pays once: one request at a time, one transaction per window.     *)
(***************************************************************************)
KeyPaysOnce == PaidOncePerWindow /\ OneRequestPerKey

(***************************************************************************)
(* "client-side retries do not create duplicate submissions": under one    *)
(* key at most one transaction lands within a TTL window.                  *)
(***************************************************************************)
RetriesDoNotDuplicate ==
  onTime =>
    \A c, d \in Calls :
      c # d /\ key[c] = key[d] /\ tx[c] = "landed" /\ tx[d] = "landed" =>
        expiresAt[c] + Ttl <= expiresAt[d] \/ expiresAt[d] + Ttl <= expiresAt[c]

(***************************************************************************)
(* Every payment returns, also if its transaction is never seen again.     *)
(***************************************************************************)
EveryPaymentReturns ==
  \A c \in Calls : phase[c] \in {"owner", "joined"} ~> phase[c] = "done"
=============================================================================
