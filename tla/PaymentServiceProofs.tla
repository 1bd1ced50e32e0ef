------------------------- MODULE PaymentServiceProofs -------------------------
(***************************************************************************)
(* What PaymentService guarantees for any number of payments, keys, polls  *)
(* and any TTL.  A step of a payment is a step of each of the two          *)
(* registries or leaves it alone, so that what is proved of one registry   *)
(* (IdempotencyRegistryProofs) holds of both; what remains to be shown     *)
(* relates them to the stages of the payments and to the ledger.           *)
(***************************************************************************)
EXTENDS PaymentService, TLAPS

Pay == INSTANCE IdempotencyRegistryProofs WITH
  Callers <- Calls, Keys <- AllKeys, Ttls <- {Ttl}, Errors <- Failures,
  ttl <- [c \in Calls |-> Ttl], cacheErrs <- [c \in Calls |-> FALSE]

Sub == INSTANCE IdempotencyRegistryProofs WITH
  Callers <- Calls, Keys <- AllKeys, Ttls <- {submissionTtl}, Errors <- {"rpcError"},
  now <- 0, MaxTime <- 0, ttl <- [c \in Calls |-> submissionTtl],
  cacheErrs <- [c \in Calls |-> FALSE], expiresAt <- [c \in Calls |-> -1], onTime <- (submissionTtl = 0),
  entry <- sEntry, phase <- sPhase, promise <- sPromise, source <- sSource, outcome <- sOutcome

RegistryInv ==
  /\ Pay!BaseInv /\ Pay!TimedInv /\ Pay!Shares /\ Pay!RunsApart
  /\ Sub!BaseInv /\ Sub!TimedInv /\ Sub!Shares

ServiceTypeOK ==
  /\ stage \in [Calls -> Stages]
  /\ seq \in [Calls -> Nat] /\ ledgerSeq \in Nat
  /\ response \in [Calls -> Responses]
  /\ polls \in [Calls -> 0..MaxPolls]
  /\ tx \in [Calls -> TxStates]

\* A payment runs while its promise is pending, and awaits its request while it is sending.
StagesMeet ==
  \A c \in Calls :
    /\ stage[c] = "idle" <=> promise[c] = "none"
    /\ stage[c] \in {"preparing", "built", "sending", "polling"} <=> promise[c] = "pending"
    /\ stage[c] \in {"ok", "refused", "uncertain"} => promise[c] = stage[c]
    /\ stage[c] = "sending" <=> sPhase[c] \in {"owner", "joined"}
    /\ stage[c] \in {"idle", "preparing", "built"} => sPhase[c] = "idle"
    /\ stage[c] = "polling" => sPhase[c] = "done"

\* A transaction is on the ledger only after its own request settled, and not after an ERROR.
SentMeet ==
  \A c \in Calls :
    /\ tx[c] # "none" => sPromise[c] \in {"ok", "rpcError"}
    /\ response[c] # "none" => sPromise[c] = "ok"
    /\ response[c] = "ERROR" => tx[c] = "none"

PaidMeet ==
  /\ \A c \in Calls : promise[c] = "ok" => \E d \in Calls : key[d] = key[c] /\ tx[d] = "landed"
  /\ RefusedMeansUnpaid

ServiceInv == RegistryInv /\ ServiceTypeOK /\ StagesMeet /\ SentMeet /\ PaidMeet

-----------------------------------------------------------------------------
\* The registries of PaymentService are those the theorems are about.
LEMMA SamePayments ==
  ASSUME NEW c \in Calls
  PROVE  /\ Payments!Execute(c) => Pay!Execute(c)
         /\ \A s : Payments!Settle(c, s) => Pay!Settle(c, s)
         /\ Payments!OwnerContinues(c) => Pay!OwnerContinues(c)
         /\ Payments!JoinedContinues(c) => Pay!JoinedContinues(c)
  <1>1. Payments!Execute(c) => Pay!Execute(c)
    BY DEF Payments!Execute, Pay!Execute, Payments!Pruned, Pay!Pruned, Payments!Expired, Pay!Expired, Payments!Never, Pay!Never,
           Payments!Join, Pay!Join, Payments!Own, Pay!Own, Payments!args, Pay!args
  <1>2. \A s : Payments!Settle(c, s) => Pay!Settle(c, s)
    BY DEF Payments!Settle, Pay!Settle, Payments!args, Pay!args
  <1>3. Payments!OwnerContinues(c) => Pay!OwnerContinues(c)
    BY DEF Payments!OwnerContinues, Pay!OwnerContinues, Payments!Deletes, Pay!Deletes, Payments!args, Pay!args
  <1>4. Payments!JoinedContinues(c) => Pay!JoinedContinues(c)
    BY DEF Payments!JoinedContinues, Pay!JoinedContinues, Payments!Settlements, Pay!Settlements, Payments!args, Pay!args
  <1>5. QED
    BY <1>1, <1>2, <1>3, <1>4

\* The actions of the two instances are the same.
LEMMA SameSubmissions ==
  ASSUME NEW c \in Calls
  PROVE  /\ Submissions!Execute(c) => Sub!Execute(c)
         /\ \A s : Submissions!Settle(c, s) => Sub!Settle(c, s)
         /\ Submissions!OwnerContinues(c) => Sub!OwnerContinues(c)
         /\ Submissions!JoinedContinues(c) => Sub!JoinedContinues(c)
  <1>1. Submissions!Execute(c) => Sub!Execute(c)
    BY DEF Submissions!Execute, Sub!Execute, Submissions!Pruned, Sub!Pruned, Submissions!Expired, Sub!Expired,
           Submissions!Never, Sub!Never, Submissions!Join, Sub!Join, Submissions!Own, Sub!Own, Submissions!args, Sub!args
  <1>2. \A s : Submissions!Settle(c, s) => Sub!Settle(c, s)
    BY DEF Submissions!Settle, Sub!Settle, Submissions!args, Sub!args
  <1>3. Submissions!OwnerContinues(c) => Sub!OwnerContinues(c)
    BY DEF Submissions!OwnerContinues, Sub!OwnerContinues, Submissions!Deletes, Sub!Deletes, Submissions!args, Sub!args
  <1>4. Submissions!JoinedContinues(c) => Sub!JoinedContinues(c)
    BY DEF Submissions!JoinedContinues, Sub!JoinedContinues, Submissions!Settlements, Sub!Settlements, Submissions!args, Sub!args
  <1>5. QED
    BY <1>1, <1>2, <1>3, <1>4

(***************************************************************************)
(* A step of the service is a step of each registry, or leaves it alone.   *)
(***************************************************************************)
LEMMA RegistrySteps == [Next]_vars => [Pay!Next]_Pay!vars /\ [Sub!Next]_Sub!vars
  <1> SUFFICES ASSUME [Next]_vars PROVE [Pay!Next]_Pay!vars /\ [Sub!Next]_Sub!vars
    OBVIOUS
  <1>1. ASSUME UNCHANGED paymentVars PROVE UNCHANGED Pay!vars /\ UNCHANGED key
    BY <1>1 DEF paymentVars, Pay!vars
  <1>2. ASSUME UNCHANGED submissionVars, UNCHANGED key PROVE UNCHANGED Sub!vars
    BY <1>2 DEF submissionVars, Sub!vars
  <1>3. ASSUME NEW c \in Calls, Payments!Execute(c) \/ Payments!OwnerContinues(c) \/ Payments!JoinedContinues(c)
        PROVE  Pay!Next /\ UNCHANGED key
    <2>1. Pay!Execute(c) \/ Pay!OwnerContinues(c) \/ Pay!JoinedContinues(c)
      BY <1>3, SamePayments
    <2>2. QED
      BY <2>1 DEF Pay!Next, Pay!Work, Pay!Execute, Pay!OwnerContinues, Pay!JoinedContinues, Pay!args
  <1>4. ASSUME NEW c \in Calls, NEW s \in {"ok", "refused", "uncertain"}, End(c, s) PROVE Pay!Next /\ UNCHANGED key
    <2>1. Pay!Settle(c, s)
      BY <1>4, SamePayments DEF End
    <2>2. s \in Pay!Settlements
      BY DEF Pay!Settlements, Failures
    <2>3. QED
      BY <2>1, <2>2 DEF Pay!Next, Pay!Work, Pay!Settle, Pay!args
  <1>5. ASSUME NEW c \in Calls,
               \/ Submissions!Execute(c) \/ Submissions!OwnerContinues(c) \/ Submissions!JoinedContinues(c)
               \/ \E s \in {"ok", "rpcError"} : Submissions!Settle(c, s)
        PROVE  Sub!Next
    <2>1. \/ Sub!Execute(c) \/ Sub!OwnerContinues(c) \/ Sub!JoinedContinues(c)
          \/ \E s \in {"ok", "rpcError"} : Sub!Settle(c, s)
      BY <1>5, SameSubmissions
    <2>2. QED
      BY <2>1 DEF Sub!Next, Sub!Work, Sub!Settlements
  <1>6. ASSUME NEW c \in Calls, processPayment(c) PROVE [Pay!Next]_Pay!vars /\ [Sub!Next]_Sub!vars
    BY <1>2, <1>3, <1>6 DEF processPayment
  <1>7. ASSUME NEW c \in Calls, LoadAccount(c) PROVE [Pay!Next]_Pay!vars /\ [Sub!Next]_Sub!vars
    BY <1>1, <1>2, <1>7 DEF LoadAccount
  <1>8. ASSUME NEW c \in Calls, PreparationFails(c) \/ PollFails(c) PROVE [Pay!Next]_Pay!vars /\ [Sub!Next]_Sub!vars
    BY <1>2, <1>4, <1>8 DEF PreparationFails, PollFails
  <1>9. ASSUME NEW c \in Calls, submitTransaction(c) \/ Answers(c) PROVE [Pay!Next]_Pay!vars /\ [Sub!Next]_Sub!vars
    BY <1>1, <1>5, <1>9 DEF submitTransaction, Answers, RequestFails, Respond
  <1>10. ASSUME NEW c \in Calls, Sent(c) PROVE [Pay!Next]_Pay!vars /\ [Sub!Next]_Sub!vars
    BY <1>1, <1>4, <1>5, <1>10 DEF Sent
  <1>11. ASSUME NEW c \in Calls, pollForResult(c) PROVE [Pay!Next]_Pay!vars /\ [Sub!Next]_Sub!vars
    BY <1>1, <1>2, <1>4, <1>11 DEF pollForResult, Found, NotFound
  <1>12. ASSUME NEW c \in Calls, Returns(c) PROVE [Pay!Next]_Pay!vars /\ [Sub!Next]_Sub!vars
    BY <1>2, <1>3, <1>12 DEF Returns
  <1>13. ASSUME NEW c \in Calls, Apply(c) \/ Drop(c) PROVE [Pay!Next]_Pay!vars /\ [Sub!Next]_Sub!vars
    BY <1>1, <1>2, <1>13 DEF Apply, Drop
  <1>14. CASE Tick
    <2>1. Pay!Tick /\ UNCHANGED key
      BY <1>14 DEF Tick, Payments!Tick, Pay!Tick, Payments!args, Pay!args
    <2>2. QED
      BY <1>2, <1>14, <2>1 DEF Tick, Pay!Next
  <1>15. CASE UNCHANGED vars
    BY <1>1, <1>2, <1>15 DEF vars
  <1>16. QED
    BY <1>6, <1>7, <1>8, <1>9, <1>10, <1>11, <1>12, <1>13, <1>14, <1>15 DEF Next, Works

(***************************************************************************)
(* PaymentService implements the registry twice: with the default TTL for  *)
(* whole payments and with a TTL of 0 for the requests to the RPC server   *)
(* (payroll.ts paymentIdempotency, BaseContractWrapper.ts                  *)
(* submissionIdempotency).                                                 *)
(***************************************************************************)
THEOREM ServiceUsesRegistries == Spec => Pay!Spec /\ Sub!Spec
  <1>1. Init => Pay!Init /\ Sub!Init
    <2> SUFFICES ASSUME Init PROVE Pay!Init /\ Sub!Init
      OBVIOUS
    <2>1. Pay!Init
      BY DEF Init, Payments!Init, Pay!Init, Payments!Never, Pay!Never
    <2>2. Sub!Init
      BY DEF Init, Submissions!Init, Sub!Init, Submissions!Never, Sub!Never
    <2>3. QED
      BY <2>1, <2>2
  <1>2. QED
    BY <1>1, RegistrySteps, PTL DEF Spec, Pay!Spec, Sub!Spec

\* The service's constants are what the registry asks for.
LEMMA ConstantsSuit ==
  /\ {Ttl} \subseteq Nat /\ MaxTime \in Nat /\ None \notin Calls /\ Failures \cap {"none", "pending", "ok"} = {}
  /\ {submissionTtl} \subseteq Nat /\ 0 \in Nat /\ {"rpcError"} \cap {"none", "pending", "ok"} = {}
  BY PaymentAssumption DEF Failures, submissionTtl

\* What is proved of the registry holds of both instances.
LEMMA RegistryInvariant == Spec => []RegistryInv
  <1>1. Pay!Spec => []Pay!BaseInv /\ []Pay!TimedInv /\ []Pay!Shares /\ []Pay!RunsApart
    BY ConstantsSuit, Pay!TimedInvariant, Pay!ResultsAreShared, Pay!OneRunPerWindow, PTL
  <1>2. Sub!Spec => []Sub!BaseInv /\ []Sub!TimedInv /\ []Sub!Shares
    BY ConstantsSuit, Sub!TimedInvariant, Sub!ResultsAreShared, PTL
  <1>3. QED
    BY <1>1, <1>2, ServiceUsesRegistries, PTL DEF RegistryInv

-----------------------------------------------------------------------------
\* What the registries say of one call.
LEMMA CallFacts ==
  ASSUME RegistryInv, NEW c \in Calls
  PROVE  /\ promise[c] \in {"none", "pending", "ok", "refused", "uncertain"}
         /\ phase[c] = "idle" => promise[c] = "none"
         /\ sPhase[c] \in {"idle", "owner", "joined", "done"}
         /\ sPromise[c] \in {"none", "pending", "ok", "rpcError"}
         /\ sPromise[c] # "none" => sSource[c] = c /\ sPhase[c] \in {"owner", "done"}
         /\ sPromise[c] = "pending" => sPhase[c] = "owner"
         /\ sPhase[c] = "owner" => sSource[c] = c
         /\ sSource[c] # None => sSource[c] \in Calls /\ key[sSource[c]] = key[c]
         /\ sPhase[c] # "idle" => sSource[c] # None
  <1> USE ConstantsSuit
  <1>1. /\ promise \in [Calls -> {"none", "pending", "ok", "refused", "uncertain"}]
        /\ phase[c] = "idle" => promise[c] = "none"
    BY DEF RegistryInv, Pay!BaseInv, Pay!TypeOK, Pay!PromiseStates, Pay!Settlements, Failures, Pay!OwnersAreSources
  <1>2. /\ sPhase \in [Calls -> {"idle", "owner", "joined", "done"}]
        /\ sPromise \in [Calls -> {"none", "pending", "ok", "rpcError"}]
        /\ sSource \in [Calls -> Calls \cup {None}]
    BY DEF RegistryInv, Sub!BaseInv, Sub!TypeOK, Sub!PromiseStates, Sub!Settlements, Sub!Phases
  <1>3. /\ sPhase[c] = "owner" => sSource[c] = c
        /\ sPromise[c] = "pending" => sPhase[c] = "owner"
        /\ sPhase[c] = "joined" => sSource[c] \in Calls
    BY DEF RegistryInv, Sub!BaseInv, Sub!OwnersAreSources
  <1>4. /\ sPromise[c] # "none" => sSource[c] = c /\ sPhase[c] \in {"owner", "done"}
        /\ sSource[c] # None => key[sSource[c]] = key[c]
        /\ sPhase[c] = "done" => sSource[c] # None
    BY DEF RegistryInv, Sub!Shares
  <1>5. QED
    BY <1>1, <1>2, <1>3, <1>4

\* A payment settles: its promise takes the value of its stage, the others are left alone.
LEMMA EndEffect ==
  ASSUME RegistryInv, ServiceTypeOK, NEW c \in Calls, NEW s \in {"ok", "refused", "uncertain"}, End(c, s)
  PROVE  /\ promise[c] = "pending" /\ promise' = [promise EXCEPT ![c] = s] /\ stage' = [stage EXCEPT ![c] = s]
         /\ UNCHANGED key /\ s \in Stages
  BY DEF End, Enter, Payments!Settle, Payments!args, Stages

\* Every step keeps the types of the service.
LEMMA TypesStep == ServiceInv /\ [Next]_vars => ServiceTypeOK'
  <1> SUFFICES ASSUME ServiceInv, [Next]_vars PROVE ServiceTypeOK'
    OBVIOUS
  <1> USE PaymentAssumption DEF ServiceInv, ServiceTypeOK
  <1>0. \A s \in {"ok", "refused", "uncertain"}, c \in Calls : End(c, s) => stage' \in [Calls -> Stages]
    BY DEF End, Enter, Stages
  <1>1. ASSUME NEW c \in Calls, processPayment(c) \/ PreparationFails(c) \/ PollFails(c) \/ Returns(c) PROVE ServiceTypeOK'
    BY <1>0, <1>1 DEF processPayment, PreparationFails, PollFails, Returns, Stages, ledgerVars, stageVars
  <1>2. ASSUME NEW c \in Calls, LoadAccount(c) \/ submitTransaction(c) PROVE ServiceTypeOK'
    BY <1>2 DEF LoadAccount, submitTransaction, Enter, Stages, ledgerVars
  <1>3. ASSUME NEW c \in Calls, Answers(c) PROVE ServiceTypeOK'
    BY <1>3 DEF Answers, RequestFails, Respond, Accept, stageVars, TxStates
  <1>4. ASSUME NEW c \in Calls, Sent(c) PROVE ServiceTypeOK'
    BY <1>0, <1>4 DEF Sent, Enter, Stages, ledgerVars
  <1>5. ASSUME NEW c \in Calls, pollForResult(c) PROVE ServiceTypeOK'
    <2>1. UNCHANGED <<seq, response, tx, ledgerSeq>> /\ stage' \in [Calls -> Stages]
      BY <1>0, <1>5 DEF pollForResult, Found, NotFound, ledgerVars
    <2>2. polls' \in [Calls -> 0..MaxPolls]
      BY <1>5 DEF pollForResult, Found, NotFound
    <2>3. QED
      BY <2>1, <2>2
  <1>6. ASSUME NEW c \in Calls, Apply(c) \/ Drop(c) PROVE ServiceTypeOK'
    BY <1>6 DEF Apply, Drop, stageVars, TxStates
  <1>7. CASE Tick \/ UNCHANGED vars
    BY <1>7 DEF Tick, vars, stageVars, ledgerVars
  <1>8. QED
    BY <1>1, <1>2, <1>3, <1>4, <1>5, <1>6, <1>7 DEF Next, Works

\* The stages of a payment are those of its promise and of its request.
LEMMA StagesStep == ServiceInv /\ [Next]_vars => StagesMeet'
  <1> SUFFICES ASSUME ServiceInv, [Next]_vars PROVE StagesMeet'
    OBVIOUS
  <1>0. /\ stage \in [Calls -> Stages] /\ RegistryInv /\ ServiceTypeOK /\ StagesMeet
        /\ promise \in [Calls -> {"none", "pending", "ok", "refused", "uncertain"}]
        /\ sPhase \in [Calls -> {"idle", "owner", "joined", "done"}]
    BY DEF ServiceInv, ServiceTypeOK, RegistryInv, Pay!BaseInv, Pay!TypeOK, Pay!PromiseStates, Pay!Settlements, Failures,
           Sub!BaseInv, Sub!TypeOK, Sub!Phases
  <1>1. ASSUME NEW c \in Calls, processPayment(c) PROVE StagesMeet'
    <2>1. phase[c] = "idle" /\ promise[c] = "none" /\ stage[c] = "idle" /\ UNCHANGED sPhase
      BY <1>0, <1>1, CallFacts DEF processPayment, Payments!Execute, StagesMeet, submissionVars
    <2>2. promise' = promise \/ promise' = [promise EXCEPT ![c] = "pending"]
      BY <1>1 DEF processPayment, Payments!Execute, Payments!Join, Payments!Own
    <2>3. CASE promise' = promise
      <3>1. stage' = stage
        BY <1>1, <2>1, <2>3 DEF processPayment
      <3>2. QED
        BY <1>0, <2>1, <2>3, <3>1 DEF StagesMeet
    <2>4. CASE promise' = [promise EXCEPT ![c] = "pending"]
      <3>1. stage' = [stage EXCEPT ![c] = "preparing"]
        BY <1>0, <1>1, <2>4 DEF processPayment
      <3>2. QED
        BY <1>0, <2>1, <2>4, <3>1 DEF StagesMeet
    <2>5. QED
      BY <2>2, <2>3, <2>4
  <1>2. ASSUME NEW c \in Calls, LoadAccount(c) PROVE StagesMeet'
    BY <1>0, <1>2 DEF LoadAccount, Enter, paymentVars, submissionVars, StagesMeet
  <1>3. ASSUME NEW c \in Calls, NEW s \in {"ok", "refused", "uncertain"}, End(c, s), UNCHANGED sPhase, stage[c] # "sending"
        PROVE  StagesMeet'
    <2>1. promise' = [promise EXCEPT ![c] = s] /\ stage' = [stage EXCEPT ![c] = s]
      BY <1>0, <1>3, EndEffect
    <2>2. QED
      BY <1>0, <1>3, <2>1 DEF StagesMeet
  <1>4. ASSUME NEW c \in Calls, PreparationFails(c) \/ PollFails(c) PROVE StagesMeet'
    BY <1>3, <1>4 DEF PreparationFails, PollFails, submissionVars
  <1>5. ASSUME NEW c \in Calls, submitTransaction(c) PROVE StagesMeet'
    <2>1. stage[c] = "built" /\ stage' = [stage EXCEPT ![c] = "sending"] /\ UNCHANGED promise
      BY <1>5 DEF submitTransaction, Enter, paymentVars
    <2>2. sPhase' = [sPhase EXCEPT ![c] = "joined"] \/ sPhase' = [sPhase EXCEPT ![c] = "owner"]
      BY <1>5 DEF submitTransaction, Submissions!Execute, Submissions!Join, Submissions!Own
    <2>3. QED
      BY <1>0, <2>1, <2>2 DEF StagesMeet
  <1>6. ASSUME NEW c \in Calls, Answers(c) PROVE StagesMeet'
    <2>1. UNCHANGED <<promise, stage, sPhase>>
      BY <1>6 DEF Answers, RequestFails, Respond, paymentVars, stageVars, Submissions!Settle
    <2>2. QED
      BY <1>0, <2>1 DEF StagesMeet
  <1>7. ASSUME NEW c \in Calls, Sent(c) PROVE StagesMeet'
    <2>1. stage[c] = "sending" /\ sPhase' = [sPhase EXCEPT ![c] = "done"]
      BY <1>7 DEF Sent, Submissions!OwnerContinues, Submissions!JoinedContinues
    <2>2. CASE \E s \in {"refused", "uncertain"} : End(c, s)
      <3>1. PICK s \in {"ok", "refused", "uncertain"} : End(c, s)
        BY <2>2
      <3>2. promise' = [promise EXCEPT ![c] = s] /\ stage' = [stage EXCEPT ![c] = s]
        BY <1>0, <3>1, EndEffect
      <3>3. QED
        BY <1>0, <2>1, <3>2 DEF StagesMeet
    <2>3. CASE Enter(c, "polling") /\ UNCHANGED paymentVars
      BY <1>0, <2>1, <2>3 DEF Enter, paymentVars, StagesMeet
    <2>4. QED
      BY <1>7, <2>2, <2>3 DEF Sent
  <1>8. ASSUME NEW c \in Calls, pollForResult(c) PROVE StagesMeet'
    <2>1. stage[c] = "polling" /\ UNCHANGED sPhase
      BY <1>8 DEF pollForResult, submissionVars
    <2>2. CASE \E s \in {"ok", "refused", "uncertain"} : End(c, s)
      BY <1>3, <2>1, <2>2
    <2>3. CASE UNCHANGED <<stage, paymentVars>>
      BY <1>0, <2>1, <2>3 DEF StagesMeet, paymentVars
    <2>4. QED
      BY <1>8, <2>2, <2>3 DEF pollForResult, Found, NotFound
  <1>9. ASSUME NEW c \in Calls, Returns(c) PROVE StagesMeet'
    <2>1. UNCHANGED <<promise, stage, sPhase>>
      BY <1>9 DEF Returns, Payments!OwnerContinues, Payments!JoinedContinues, submissionVars, stageVars
    <2>2. QED
      BY <1>0, <2>1 DEF StagesMeet
  <1>10. ASSUME NEW c \in Calls, Apply(c) \/ Drop(c) PROVE StagesMeet'
    BY <1>0, <1>10 DEF Apply, Drop, paymentVars, submissionVars, stageVars, StagesMeet
  <1>11. CASE Tick \/ UNCHANGED vars
    BY <1>0, <1>11 DEF Tick, Payments!Tick, vars, paymentVars, submissionVars, stageVars, StagesMeet
  <1>12. QED
    BY <1>1, <1>2, <1>4, <1>5, <1>6, <1>7, <1>8, <1>9, <1>10, <1>11 DEF Next, Works

\* A transaction comes to the ledger by its own request.
LEMMA SentStep == ServiceInv /\ [Next]_vars => SentMeet'
  <1> SUFFICES ASSUME ServiceInv, [Next]_vars PROVE SentMeet'
    OBVIOUS
  <1>0. /\ ServiceTypeOK /\ RegistryInv /\ SentMeet /\ StagesMeet
        /\ sPromise \in [Calls -> {"none", "pending", "ok", "rpcError"}]
    BY DEF ServiceInv, RegistryInv, Sub!BaseInv, Sub!TypeOK, Sub!PromiseStates, Sub!Settlements
  <1>1. ASSUME UNCHANGED <<sPromise, response, tx>> PROVE SentMeet'
    BY <1>0, <1>1 DEF SentMeet
  <1>2. ASSUME NEW c \in Calls, submitTransaction(c) PROVE SentMeet'
    <2>1. sPhase[c] = "idle" /\ UNCHANGED <<response, tx>>
      BY <1>0, <1>2 DEF submitTransaction, ledgerVars, Submissions!Execute
    <2>2. sPromise[c] = "none"
      BY <1>0, <2>1, CallFacts
    <2>3. sPromise' = sPromise \/ sPromise' = [sPromise EXCEPT ![c] = "pending"]
      BY <1>2 DEF submitTransaction, Submissions!Execute, Submissions!Join, Submissions!Own
    <2>4. QED
      BY <1>0, <2>1, <2>2, <2>3 DEF SentMeet
  <1>3. ASSUME NEW c \in Calls, RequestFails(c) PROVE SentMeet'
    <2>1. sPromise[c] = "pending" /\ sPromise' = [sPromise EXCEPT ![c] = "rpcError"] /\ UNCHANGED response
      BY <1>3 DEF RequestFails, Submissions!Settle, stageVars
    <2>2. response[c] = "none"
      BY <1>0, <2>1 DEF SentMeet, ServiceTypeOK
    <2>3. tx' = tx \/ tx' = [tx EXCEPT ![c] = "pending"]
      BY <1>3 DEF RequestFails, Accept
    <2>4. QED
      BY <1>0, <2>1, <2>2, <2>3 DEF SentMeet, ServiceTypeOK
  <1>4. ASSUME NEW c \in Calls, NEW status \in Responses \ {"none"}, Respond(c, status) PROVE SentMeet'
    <2>1. /\ sPromise[c] = "pending" /\ sPromise' = [sPromise EXCEPT ![c] = "ok"]
          /\ response' = [response EXCEPT ![c] = status]
      BY <1>4 DEF Respond, Submissions!Settle
    <2>2. tx[c] = "none"
      BY <1>0, <2>1 DEF SentMeet, ServiceTypeOK
    <2>3. tx' = tx \/ (status = "PENDING" /\ tx' = [tx EXCEPT ![c] = "pending"])
      BY <1>4 DEF Respond, Accept
    <2>4. QED
      BY <1>0, <2>1, <2>2, <2>3 DEF SentMeet, ServiceTypeOK
  <1>5. ASSUME NEW c \in Calls, Apply(c) \/ Drop(c) PROVE SentMeet'
    <2>1. tx[c] = "pending" /\ UNCHANGED <<sPromise, response>> /\ \E how : tx' = [tx EXCEPT ![c] = how]
      BY <1>5 DEF Apply, Drop, submissionVars, stageVars
    <2>2. QED
      BY <1>0, <2>1 DEF SentMeet, ServiceTypeOK
  <1>6. ASSUME NEW c \in Calls,
               \/ processPayment(c) \/ LoadAccount(c) \/ PreparationFails(c) \/ PollFails(c) \/ Sent(c)
               \/ pollForResult(c) \/ Returns(c)
        PROVE  SentMeet'
    BY <1>1, <1>6 DEF processPayment, LoadAccount, PreparationFails, PollFails, Sent, pollForResult, Returns,
                      submissionVars, stageVars, ledgerVars, Submissions!OwnerContinues, Submissions!JoinedContinues
  <1>7. CASE Tick \/ UNCHANGED vars
    BY <1>1, <1>7 DEF Tick, vars, submissionVars, stageVars, ledgerVars
  <1>8. QED
    BY <1>2, <1>3, <1>4, <1>5, <1>6, <1>7 DEF Next, Works, Answers

\* A payment whose request went under another one's name has no transaction of its own.
LEMMA JoinedHasNone ==
  ASSUME ServiceInv, NEW c \in Calls, sSource[c] # c PROVE tx[c] = "none"
  <1>1. sPromise[c] = "none"
    BY CallFacts DEF ServiceInv
  <1>2. QED
    BY <1>1 DEF ServiceInv, SentMeet

\* Results are those of the ledger.
LEMMA PaidStep == ServiceInv /\ [Next]_vars => PaidMeet'
  <1> SUFFICES ASSUME ServiceInv, [Next]_vars PROVE PaidMeet'
    OBVIOUS
  <1>0. ServiceTypeOK /\ RegistryInv /\ SentMeet /\ StagesMeet /\ PaidMeet
    BY DEF ServiceInv
  <1>p. promise \in [Calls -> {"none", "pending", "ok", "refused", "uncertain"}] /\ stage \in [Calls -> Stages]
    BY <1>0 DEF ServiceTypeOK, RegistryInv, Pay!BaseInv, Pay!TypeOK, Pay!PromiseStates, Pay!Settlements, Failures
  <1>1. ASSUME UNCHANGED <<key, tx>>,
               \A c \in Calls : promise'[c] = "ok" => promise[c] = "ok",
               \A c \in Calls : stage'[c] = "refused" => stage[c] = "refused"
        PROVE  PaidMeet'
    BY <1>0, <1>1 DEF PaidMeet, RefusedMeansUnpaid
  <1>2. ASSUME NEW c \in Calls, NEW s \in {"ok", "refused", "uncertain"}, End(c, s), UNCHANGED tx,
               s = "ok" => \E d \in Calls : key[d] = key[c] /\ tx[d] = "landed",
               s = "refused" => tx[c] \notin {"pending", "landed"}
        PROVE  PaidMeet'
    <2>1. promise' = [promise EXCEPT ![c] = s] /\ stage' = [stage EXCEPT ![c] = s] /\ UNCHANGED key
      BY <1>0, <1>2, EndEffect
    <2>2. QED
      BY <1>0, <1>p, <1>2, <2>1 DEF PaidMeet, RefusedMeansUnpaid
  <1>3. ASSUME NEW c \in Calls, processPayment(c) PROVE PaidMeet'
    <2>1. UNCHANGED <<key, tx>>
      BY <1>3 DEF processPayment, ledgerVars, Payments!Execute, Payments!args
    <2>2. promise' = promise \/ promise' = [promise EXCEPT ![c] = "pending"]
      BY <1>3 DEF processPayment, Payments!Execute, Payments!Join, Payments!Own
    <2>3. stage' = stage \/ stage' = [stage EXCEPT ![c] = "preparing"]
      BY <1>3 DEF processPayment
    <2>4. QED
      BY <1>1, <1>p, <2>1, <2>2, <2>3
  <1>4. ASSUME NEW c \in Calls, LoadAccount(c) \/ submitTransaction(c) PROVE PaidMeet'
    <2>1. UNCHANGED <<key, tx, promise>> /\ \E s \in {"built", "sending"} : stage' = [stage EXCEPT ![c] = s]
      BY <1>4 DEF LoadAccount, submitTransaction, Enter, paymentVars, ledgerVars
    <2>2. QED
      BY <1>1, <1>p, <2>1
  <1>5. ASSUME NEW c \in Calls, PreparationFails(c) PROVE PaidMeet'
    <2>1. sPhase[c] = "idle"
      BY <1>0, <1>5 DEF PreparationFails, StagesMeet
    <2>2. sPromise[c] = "none"
      BY <1>0, <2>1, CallFacts
    <2>3. tx[c] = "none"
      BY <1>0, <2>2 DEF SentMeet
    <2>4. QED
      BY <1>2, <1>5, <2>3 DEF PreparationFails, ledgerVars
  <1>6. ASSUME NEW c \in Calls, PollFails(c) PROVE PaidMeet'
    BY <1>2, <1>6 DEF PollFails, ledgerVars
  <1>7. ASSUME NEW c \in Calls, Answers(c) PROVE PaidMeet'
    <2>1. /\ sPromise[c] = "pending" /\ UNCHANGED <<key, promise, stage>> /\ (tx' = tx \/ tx' = [tx EXCEPT ![c] = "pending"])
      BY <1>7 DEF Answers, RequestFails, Respond, Accept, Submissions!Settle, paymentVars, stageVars
    <2>2. tx[c] = "none"
      BY <1>0, <2>1 DEF SentMeet
    <2>3. stage[c] = "sending"
      BY <1>0, <2>1, CallFacts DEF StagesMeet
    <2>4. QED
      BY <1>0, <2>1, <2>2, <2>3 DEF PaidMeet, RefusedMeansUnpaid, ServiceTypeOK
  <1>8. ASSUME NEW c \in Calls, Sent(c) PROVE PaidMeet'
    <2>1. UNCHANGED tx
      BY <1>8 DEF Sent, ledgerVars
    <2>2. CASE End(c, "uncertain")
      BY <1>2, <2>1, <2>2
    <2>3. CASE response[hash(c)] = "ERROR" /\ End(c, "refused")
      <3>1. tx[c] = "none"
        <4>1. CASE sSource[c] = c
          BY <1>0, <2>3, <4>1 DEF hash, SentMeet
        <4>2. CASE sSource[c] # c
          BY <4>2, JoinedHasNone
        <4>3. QED
          BY <4>1, <4>2
      <3>2. QED
        BY <1>2, <2>1, <2>3, <3>1
    <2>4. CASE Enter(c, "polling") /\ UNCHANGED paymentVars
      BY <1>1, <1>p, <2>1, <2>4 DEF Enter, paymentVars
    <2>5. QED
      BY <1>8, <2>2, <2>3, <2>4 DEF Sent
  <1>9. ASSUME NEW c \in Calls, pollForResult(c) PROVE PaidMeet'
    <2>1. UNCHANGED tx /\ stage[c] = "polling"
      BY <1>9 DEF pollForResult, ledgerVars
    <2>2. sSource[c] # None /\ hash(c) \in Calls /\ key[hash(c)] = key[c]
      <3>1. sPhase[c] = "done"
        BY <1>0, <2>1 DEF StagesMeet
      <3>2. QED
        BY <1>0, <3>1, CallFacts DEF hash
    <2>3. CASE tx[hash(c)] = "landed" /\ End(c, "ok")
      BY <1>2, <2>1, <2>2, <2>3
    <2>4. CASE tx[hash(c)] = "reverted" /\ End(c, "refused")
      <3>1. tx[c] \notin {"pending", "landed"}
        <4>1. CASE sSource[c] = c
          BY <2>4, <4>1 DEF hash
        <4>2. CASE sSource[c] # c
          BY <4>2, JoinedHasNone
        <4>3. QED
          BY <4>1, <4>2
      <3>2. QED
        BY <1>2, <2>1, <2>4, <3>1
    <2>5. CASE End(c, "uncertain")
      BY <1>2, <2>1, <2>5
    <2>6. CASE UNCHANGED <<stage, paymentVars>>
      BY <1>1, <2>1, <2>6 DEF paymentVars
    <2>7. QED
      BY <1>9, <2>3, <2>4, <2>5, <2>6 DEF pollForResult, Found, NotFound
  <1>10. ASSUME NEW c \in Calls, Returns(c) PROVE PaidMeet'
    BY <1>1, <1>10 DEF Returns, stageVars, ledgerVars, Payments!OwnerContinues, Payments!JoinedContinues, Payments!args
  <1>11. ASSUME NEW c \in Calls, Apply(c) \/ Drop(c) PROVE PaidMeet'
    <2>1. tx[c] = "pending" /\ UNCHANGED <<key, promise, stage>> /\ \E how : tx' = [tx EXCEPT ![c] = how]
      BY <1>11 DEF Apply, Drop, paymentVars, stageVars
    <2>2. stage[c] # "refused"
      BY <1>0, <2>1 DEF PaidMeet, RefusedMeansUnpaid
    <2>3. QED
      BY <1>0, <2>1, <2>2 DEF PaidMeet, RefusedMeansUnpaid, ServiceTypeOK
  <1>12. CASE Tick \/ UNCHANGED vars
    BY <1>1, <1>12 DEF Tick, Payments!Tick, Payments!args, vars, paymentVars, stageVars, ledgerVars
  <1>13. QED
    BY <1>3, <1>4, <1>5, <1>6, <1>7, <1>8, <1>9, <1>10, <1>11, <1>12 DEF Next, Works

\* The invariant of the service holds throughout.
LEMMA ServiceInvariant == Spec => []ServiceInv
  <1>1. Init => ServiceTypeOK /\ StagesMeet /\ SentMeet /\ PaidMeet
    <2> SUFFICES ASSUME Init PROVE ServiceTypeOK /\ StagesMeet /\ SentMeet /\ PaidMeet
      OBVIOUS
    <2>1. /\ promise = [c \in Calls |-> "none"] /\ sPhase = [c \in Calls |-> "idle"] /\ sPromise = [c \in Calls |-> "none"]
      BY DEF Init, Payments!Init, Submissions!Init
    <2>2. /\ stage = [c \in Calls |-> "idle"] /\ seq = [c \in Calls |-> 0] /\ response = [c \in Calls |-> "none"]
          /\ polls = [c \in Calls |-> 0] /\ tx = [c \in Calls |-> "none"] /\ ledgerSeq = 0
      BY DEF Init
    <2>3. ServiceTypeOK
      BY <2>2, PaymentAssumption DEF ServiceTypeOK, Stages, Responses, TxStates
    <2>4. StagesMeet
      BY <2>1, <2>2 DEF StagesMeet
    <2>5. SentMeet
      BY <2>1, <2>2 DEF SentMeet
    <2>6. PaidMeet
      BY <2>1, <2>2 DEF PaidMeet, RefusedMeansUnpaid
    <2>7. QED
      BY <2>3, <2>4, <2>5, <2>6
  <1>2. ServiceInv /\ [Next]_vars => ServiceTypeOK' /\ StagesMeet' /\ SentMeet' /\ PaidMeet'
    BY TypesStep, StagesStep, SentStep, PaidStep
  <1>3. QED
    BY <1>1, <1>2, RegistryInvariant, PTL DEF Spec, ServiceInv

-----------------------------------------------------------------------------
\* The types that PaymentService states are those of the two registries.
LEMMA TypesHold == ServiceInv => TypeOK
  <1> SUFFICES ASSUME ServiceInv PROVE TypeOK
    OBVIOUS
  <1>1. Pay!TypeOK => Payments!TypeOK
    BY DEF Pay!TypeOK, Payments!TypeOK, Pay!Phases, Payments!Phases, Pay!PromiseStates, Payments!PromiseStates,
           Pay!Settlements, Payments!Settlements, Pay!Never, Payments!Never
  <1>2. Sub!TypeOK => Submissions!TypeOK
    BY DEF Sub!TypeOK, Submissions!TypeOK, Sub!Phases, Submissions!Phases, Sub!PromiseStates, Submissions!PromiseStates,
           Sub!Settlements, Submissions!Settlements, Sub!Never, Submissions!Never
  <1>3. QED
    BY <1>1, <1>2 DEF ServiceInv, RegistryInv, Pay!BaseInv, Sub!BaseInv, ServiceTypeOK, TypeOK

(***************************************************************************)
(* What processPayment reports is so, for any number of payments, keys and *)
(* polls: a result means that a transaction under the key has landed,      *)
(* whichever payment built it and whichever promise or request was shared, *)
(* and after a final error nothing of the payment is or comes on the       *)
(* ledger (processPayment, submitInvocation, pollForResult).               *)
(***************************************************************************)
THEOREM PaymentResultsTruthful == Spec => []ResultsTruthful
  <1>1. ServiceInv => SuccessMeansPaid
    <2> SUFFICES ASSUME ServiceInv, NEW c \in Calls, outcome[c] = "ok"
                 PROVE  \E d \in Calls : key[d] = key[c] /\ tx[d] = "landed"
      BY DEF SuccessMeansPaid
    <2>1. source \in [Calls -> Calls \cup {None}]
      BY DEF ServiceInv, RegistryInv, Pay!BaseInv, Pay!TypeOK
    <2>2. source[c] \in Calls /\ key[source[c]] = key[c] /\ promise[source[c]] = "ok"
      BY <2>1 DEF ServiceInv, RegistryInv, Pay!Shares
    <2>3. QED
      BY <2>2 DEF ServiceInv, PaidMeet
  <1>2. ServiceInv => ResultsTruthful
    BY <1>1, TypesHold DEF ServiceInv, PaidMeet, ResultsTruthful
  <1>3. QED
    BY <1>2, ServiceInvariant, PTL

\* A transaction that may land belongs to a payment that runs or succeeded, unless it ended uncertain.
LEMMA MayLandCounts ==
  ASSUME ServiceInv, NEW c \in Calls, MayLand(c), stage[c] # "uncertain"
  PROVE  promise[c] \in {"pending", "ok"}
  <1>1. stage[c] \in Stages
    BY DEF ServiceInv, ServiceTypeOK
  <1>2. stage[c] # "refused"
    BY DEF ServiceInv, PaidMeet, RefusedMeansUnpaid, MayLand
  <1>3. sPromise[c] # "none"
    BY DEF ServiceInv, SentMeet, MayLand
  <1>4. sPhase[c] # "idle"
    BY <1>3, CallFacts DEF ServiceInv
  <1>5. stage[c] # "idle"
    BY <1>4 DEF ServiceInv, StagesMeet
  <1>6. QED
    BY <1>1, <1>2, <1>5 DEF ServiceInv, StagesMeet, Stages

(***************************************************************************)
(* A key pays once, for any number of payments and any TTL: requests of    *)
(* one key are never in flight together, and as long as payments are       *)
(* shorter than the TTL and none of the key ended uncertain, no two        *)
(* transactions of one key are or may come on the ledger in one TTL window *)
(* (paymentIdempotency, submissionIdempotency).                            *)
(***************************************************************************)
THEOREM PaymentKeyPaysOnce == Spec => []KeyPaysOnce
  <1>1. ServiceInv => PaidOncePerWindow
    <2> SUFFICES ASSUME ServiceInv, onTime, NEW c \in Calls, NEW d \in Calls,
                        c # d, key[c] = key[d], Certain(key[c]), MayLand(c), MayLand(d)
                 PROVE  expiresAt[c] + Ttl <= expiresAt[d] \/ expiresAt[d] + Ttl <= expiresAt[c]
      BY DEF PaidOncePerWindow
    <2>1. stage[c] # "uncertain" /\ stage[d] # "uncertain"
      BY DEF Certain
    <2>2. promise[c] \in {"pending", "ok"} /\ promise[d] \in {"pending", "ok"}
      BY <2>1, MayLandCounts
    <2>3. Pay!Counts(c) /\ Pay!Counts(d)
      BY <2>2, PaymentAssumption DEF Pay!Counts
    <2>4. Pay!Apart(c, d)
      BY <2>3 DEF ServiceInv, RegistryInv, Pay!RunsApart
    <2>5. QED
      BY <2>4 DEF Pay!Apart
  <1>2. ServiceInv => OneRequestPerKey
    <2> SUFFICES ASSUME ServiceInv, NEW c \in Calls, NEW d \in Calls,
                        sPromise[c] = "pending", sPromise[d] = "pending", key[c] = key[d]
                 PROVE  c = d
      BY DEF OneRequestPerKey
    <2>1. sPhase[c] = "owner" /\ sPhase[d] = "owner"
      BY CallFacts DEF ServiceInv
    <2>2. Sub!OwnersRegistered
      BY DEF ServiceInv, RegistryInv, Sub!TimedInv, Sub!Timed, submissionTtl
    <2>3. QED
      BY <2>1, <2>2 DEF Sub!OwnersRegistered
  <1>3. ServiceInv => KeyPaysOnce
    BY <1>1, <1>2 DEF KeyPaysOnce
  <1>4. QED
    BY <1>3, ServiceInvariant, PTL
=============================================================================
