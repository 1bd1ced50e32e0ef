-------------------------- MODULE RetryBudgetProofs --------------------------
(***************************************************************************)
(* What withRetryBudget guarantees for any number of concurrent calls, any *)
(* budget, any timeouts and both kinds of options.  The registry under it  *)
(* is that of IdempotencyRegistryProofs: ttlMs is 0 and clear() is never   *)
(* called, so the conditions of its theorems are met, and its step lemmas  *)
(* carry over to the calls that share it.                                  *)
(***************************************************************************)
EXTENDS RetryBudget, TLAPS

Reg == INSTANCE IdempotencyRegistryProofs WITH
  Callers <- Attempts, Keys <- Attempts \cup {Operation}, Ttls <- {0},
  MaxTime <- 0, now <- 0

(***************************************************************************)
(* The registry is used with the arguments of invokeAttempt and on time.   *)
(***************************************************************************)
RegistryInv ==
  /\ Reg!BaseInv /\ Reg!TimedInv
  /\ onTime
  /\ key = [c \in Attempts |-> attemptKey(c)]

(***************************************************************************)
(* Attempts are used in order: those before the current one have called    *)
(* execute, those after it have not, and the current one has from the      *)
(* moment the call awaits it.                                              *)
(***************************************************************************)
AttemptsInOrder ==
  \A p \in Procs :
    /\ attempt[p] <= maxAttempts
    /\ pc[p] = "backoff" => attempt[p] # maxAttempts
    /\ \A a \in 1..MaxAttempts :
         /\ a < attempt[p] => phase[<<p, a>>] # "idle"
         /\ a > attempt[p] => phase[<<p, a>>] = "idle"
    /\ pc[p] \in {"idle", "check"} => phase[<<p, attempt[p]>>] = "idle"
    /\ pc[p] \in {"awaiting", "backoff"} => phase[<<p, attempt[p]>>] # "idle"

(***************************************************************************)
(* What execute returned or threw is how some fn settled.                  *)
(***************************************************************************)
OutcomesSettled ==
  \A c \in Attempts : outcome[c] # "none" => \E d \in Attempts : promise[d] = outcome[c]

IInv == TypeOK /\ RegistryInv /\ AttemptsInOrder /\ OutcomesSettled /\ EndingTruthful

-----------------------------------------------------------------------------
(***************************************************************************)
(* The assumptions of the registry's module, for this registry.            *)
(***************************************************************************)
LEMMA RegistryAssumptions ==
  Reg!NoneAssumption /\ Reg!TtlsAssumption /\ Reg!MaxTimeAssumption /\ Reg!ErrorsAssumption
  BY AttemptsAssumption
  DEF Reg!NoneAssumption, Reg!TtlsAssumption, Reg!MaxTimeAssumption, Reg!ErrorsAssumption, Errors

(***************************************************************************)
(* A step of a caller of the registry is a step of the registry.           *)
(***************************************************************************)
LEMMA RegistryKept ==
  ASSUME RegistryInv, [Reg!Next]_(Reg!vars), UNCHANGED <<onTime, key, mode>>
  PROVE  RegistryInv'
  <1>1. Reg!BaseInv'
    BY RegistryAssumptions, Reg!BaseStep DEF Reg!BaseStep, RegistryInv
  <1>2. Reg!TimedInv'
    BY RegistryAssumptions, Reg!TimedStep DEF Reg!TimedStep, RegistryInv
  <1>3. QED
    BY <1>1, <1>2 DEF RegistryInv, attemptKey

\* Types mean the same under both instances of the registry.
LEMMA RegistryTypes == Registry!TypeOK <=> Reg!TypeOK
  BY DEF Registry!TypeOK, Reg!TypeOK, Registry!Phases, Reg!Phases, Registry!PromiseStates,
         Reg!PromiseStates, Registry!Settlements, Reg!Settlements, Registry!Never, Reg!Never

(***************************************************************************)
(* What a call of execute changes: the attempt that makes it is no longer  *)
(* idle, and only its own fn may have been started.                        *)
(***************************************************************************)
LEMMA ExecuteStep ==
  ASSUME RegistryInv, NEW c \in Attempts, Registry!Execute(c), UNCHANGED mode
  PROVE  /\ RegistryInv'
         /\ UNCHANGED <<key, outcome>>
         /\ phase[c] = "idle" /\ phase'[c] # "idle"
         /\ \A d \in Attempts : d # c => phase'[d] = phase[d] /\ promise'[d] = promise[d]
         /\ promise[c] = "none"
  <1>1. Reg!Execute(c)
    BY DEF Registry!Execute, Reg!Execute, Registry!Own, Reg!Own, Registry!Join, Reg!Join,
           Registry!Pruned, Reg!Pruned, Registry!Expired, Reg!Expired, Registry!Never, Reg!Never,
           Registry!args, Reg!args
  <1>2. UNCHANGED <<key, outcome, onTime>>
    BY <1>1 DEF Reg!Execute, Reg!args
  <1>3. RegistryInv'
    BY <1>1, <1>2, RegistryKept DEF Reg!Next
  <1>4. /\ phase \in [Attempts -> Reg!Phases] /\ promise \in [Attempts -> Reg!PromiseStates]
        /\ phase[c] = "idle" /\ promise[c] = "none"
    BY <1>1 DEF RegistryInv, Reg!BaseInv, Reg!TypeOK, Reg!OwnersAreSources, Reg!Execute
  <1>5. CASE Reg!Own(c)
    BY <1>2, <1>3, <1>4, <1>5 DEF Reg!Own
  <1>6. CASE Reg!Join(c)
    BY <1>2, <1>3, <1>4, <1>6 DEF Reg!Join
  <1>7. QED
    BY <1>1, <1>5, <1>6 DEF Reg!Execute

(***************************************************************************)
(* What the registry does on its own: a promise settles and stays so, and  *)
(* a call that continues has the outcome of a settled promise.             *)
(***************************************************************************)
LEMMA SettleStep ==
  ASSUME RegistryInv, NEW c \in Attempts, NEW s \in Registry!Settlements, Registry!Settle(c, s),
         UNCHANGED mode
  PROVE  /\ RegistryInv'
         /\ UNCHANGED <<key, outcome, phase>>
         /\ promise[c] = "pending"
         /\ \A d \in Attempts : d # c => promise'[d] = promise[d]
  <1>1. s \in Reg!Settlements /\ Reg!Settle(c, s)
    BY DEF Registry!Settlements, Reg!Settlements, Registry!Settle, Reg!Settle, Registry!args, Reg!args
  <1>2. UNCHANGED <<key, outcome, phase, onTime>> /\ promise[c] = "pending"
    BY <1>1 DEF Reg!Settle, Reg!args
  <1>3. RegistryInv'
    BY <1>1, <1>2, RegistryKept DEF Reg!Next, Reg!Work
  <1>4. \A d \in Attempts : d # c => promise'[d] = promise[d]
    BY <1>1 DEF Reg!Settle, RegistryInv, Reg!BaseInv, Reg!TypeOK
  <1>5. QED
    BY <1>2, <1>3, <1>4

\* A call that goes on after its promise settles changes no key and no promise.
LEMMA ContinueStep ==
  ASSUME RegistryInv, NEW c \in Attempts, Registry!OwnerContinues(c) \/ Registry!JoinedContinues(c),
         UNCHANGED mode
  PROVE  /\ RegistryInv'
         /\ UNCHANGED <<key, promise>>
         /\ phase[c] # "idle" /\ phase'[c] # "idle"
         /\ \A d \in Attempts : d # c => phase'[d] = phase[d] /\ outcome'[d] = outcome[d]
         /\ \E d \in Attempts : outcome'[c] = promise[d]
  <1>1. Reg!OwnerContinues(c) \/ Reg!JoinedContinues(c)
    BY DEF Registry!OwnerContinues, Reg!OwnerContinues, Registry!JoinedContinues, Reg!JoinedContinues,
           Registry!Deletes, Reg!Deletes, Registry!Settlements, Reg!Settlements, Registry!args, Reg!args
  <1>2. UNCHANGED <<key, promise, onTime>>
    BY <1>1 DEF Reg!OwnerContinues, Reg!JoinedContinues, Reg!args
  <1>3. RegistryInv'
    BY <1>1, <1>2, RegistryKept DEF Reg!Next, Reg!Work
  <1>4. /\ phase \in [Attempts -> Reg!Phases] /\ outcome \in [Attempts -> {"none"} \cup Reg!Settlements]
        /\ phase[c] = "joined" => source[c] \in Attempts
    BY DEF RegistryInv, Reg!BaseInv, Reg!TypeOK, Reg!OwnersAreSources
  <1>5. CASE Reg!OwnerContinues(c)
    BY <1>2, <1>3, <1>4, <1>5 DEF Reg!OwnerContinues
  <1>6. CASE Reg!JoinedContinues(c)
    BY <1>2, <1>3, <1>4, <1>6 DEF Reg!JoinedContinues
  <1>7. QED
    BY <1>1, <1>5, <1>6

-----------------------------------------------------------------------------
\* There is at least one attempt.
LEMMA AttemptRange ==
  ASSUME mode \in Modes
  PROVE  maxAttempts \in 1..MaxAttempts
  BY BudgetAssumption, ModesAssumption DEF maxAttempts

\* The delays before a retry are naturals.
LEMMA DelayType == \A a : computeBackoffDelays(a) \subseteq Nat
  BY BudgetAssumption DEF computeBackoffDelays

(***************************************************************************)
(* A step of the calls alone leaves the registry's part as it is.          *)
(***************************************************************************)
LEMMA RegistryUntouched ==
  ASSUME IInv, UNCHANGED <<mode, regVars>>
  PROVE  RegistryInv' /\ OutcomesSettled' /\ Registry!TypeOK'
  <1>1. RegistryInv'
    <2>1. UNCHANGED Reg!vars /\ UNCHANGED <<onTime, key, mode>>
      BY DEF Reg!vars, regVars
    <2>2. QED
      BY <2>1, RegistryKept DEF IInv
  <1>2. OutcomesSettled'
    BY DEF IInv, OutcomesSettled, regVars
  <1>3. QED
    BY <1>1, <1>2, RegistryTypes, PTL DEF RegistryInv, Reg!BaseInv

(***************************************************************************)
(* A call that backs off has attempts left; one that ends truthfully as    *)
(* exhausted has used them all.                                            *)
(***************************************************************************)
LEMMA BackOffStep ==
  ASSUME IInv, NEW p \in Procs, BackOff(p), pc[p] = "awaiting", attempt[p] # maxAttempts,
         UNCHANGED <<mode, attempt, elapsed, aborted, regVars>>,
         cause' \in [Procs -> {"none", "timeout"} \cup Errors]
  PROVE  IInv'
  <1>1. PICK delay \in computeBackoffDelays(attempt[p]) :
          \/ End(p, "deadline") /\ UNCHANGED timer
          \/ /\ pc' = [pc EXCEPT ![p] = "backoff"] /\ timer' = [timer EXCEPT ![p] = delay]
             /\ UNCHANGED ret
    BY DEF BackOff
  <1>2. delay \in Nat
    BY DelayType
  <1>3. TypeOK'
    BY <1>1, <1>2, RegistryUntouched DEF IInv, TypeOK, End, PCs, Endings
  <1>4. AttemptsInOrder'
    BY <1>1 DEF IInv, TypeOK, AttemptsInOrder, End, PCs, regVars, maxAttempts, retryRefused
  <1>5. EndingTruthful'
    BY <1>1 DEF IInv, TypeOK, EndingTruthful, End, regVars, maxAttempts, retryRefused
  <1>6. QED
    BY <1>3, <1>4, <1>5, RegistryUntouched DEF IInv

\* Ending a call keeps the invariant.
LEMMA EndStep ==
  ASSUME IInv, NEW p \in Procs, NEW how \in Endings, End(p, how),
         UNCHANGED <<mode, attempt, elapsed, timer, aborted, regVars>>,
         cause' \in [Procs -> {"none", "timeout"} \cup Errors],
         how = "value" => outcome[<<p, attempt[p]>>] = "ok",
         how = "rethrown" => outcome[<<p, attempt[p]>>] = "permanent",
         how = "exhausted" => pc[p] = "awaiting" /\ attempt[p] = maxAttempts
  PROVE  IInv'
  <1>1. TypeOK'
    BY RegistryUntouched DEF IInv, TypeOK, End, PCs
  <1>2. AttemptsInOrder'
    BY DEF IInv, TypeOK, AttemptsInOrder, End, PCs, regVars, maxAttempts, retryRefused
  <1>3. EndingTruthful'
    <2>1. <<p, attempt[p]>> \in Attempts
      BY DEF IInv, TypeOK, Attempts
    <2>2. /\ how = "value" => \E c \in Attempts : promise[c] = "ok"
          /\ how = "rethrown" => \E c \in Attempts : promise[c] = "permanent"
      BY <2>1 DEF IInv, OutcomesSettled
    <2>3. how = "exhausted" => \A a \in 1..maxAttempts : phase[<<p, a>>] # "idle"
      <3>1. SUFFICES ASSUME how = "exhausted", NEW a \in 1..maxAttempts PROVE phase[<<p, a>>] # "idle"
        OBVIOUS
      <3>2. a \in 1..MaxAttempts /\ attempt[p] \in Nat /\ (a < attempt[p] \/ a = attempt[p])
        BY <3>1, AttemptRange, BudgetAssumption DEF IInv, TypeOK
      <3>3. QED
        BY <3>1, <3>2 DEF IInv, AttemptsInOrder
    <2>4. ret' = [ret EXCEPT ![p] = how] /\ ret \in [Procs -> Endings]
      BY DEF End, IInv, TypeOK
    <2>5. ASSUME NEW q \in Procs
          PROVE  /\ ret'[q] = "value" => \E c \in Attempts : promise[c] = "ok"
                 /\ ret'[q] = "rethrown" => \E c \in Attempts : promise[c] = "permanent"
                 /\ ret'[q] = "exhausted" => \A a \in 1..maxAttempts : phase[<<q, a>>] # "idle"
      BY <2>2, <2>3, <2>4 DEF IInv, EndingTruthful
    <2>6. UNCHANGED <<promise, phase, maxAttempts>>
      BY DEF regVars, maxAttempts, retryRefused
    <2>7. QED
      BY <2>5, <2>6 DEF EndingTruthful
  <1>4. QED
    BY <1>1, <1>2, <1>3, RegistryUntouched DEF IInv

(***************************************************************************)
(* invokeAttempt: the current attempt calls execute.                       *)
(***************************************************************************)
LEMMA InvokeStep ==
  ASSUME IInv, NEW p \in Procs, pc[p] = "check", Registry!Execute(<<p, attempt[p]>>),
         pc' = [pc EXCEPT ![p] = "awaiting"], timer' = [timer EXCEPT ![p] = attemptTimeoutMs],
         UNCHANGED <<mode, ret, attempt, elapsed, aborted, cause>>
  PROVE  IInv'
  <1> DEFINE c == <<p, attempt[p]>>
  <1>1. c \in Attempts
    BY DEF IInv, TypeOK, Attempts
  <1>2. /\ RegistryInv'
        /\ UNCHANGED <<key, outcome>>
        /\ phase[c] = "idle" /\ phase'[c] # "idle"
        /\ \A d \in Attempts : d # c => phase'[d] = phase[d] /\ promise'[d] = promise[d]
        /\ promise[c] = "none"
    BY <1>1, ExecuteStep DEF IInv
  <1>3. TypeOK'
    <2>1. Registry!TypeOK'
      BY <1>2, RegistryTypes, PTL DEF RegistryInv, Reg!BaseInv
    <2>2. QED
      BY <2>1, BudgetAssumption DEF IInv, TypeOK, PCs
  <1>4. UNCHANGED maxAttempts
    BY DEF maxAttempts, retryRefused
  <1>5. \A q \in Procs, a \in 1..MaxAttempts :
          /\ <<q, a>> \in Attempts
          /\ <<q, a>> # c => phase'[<<q, a>>] = phase[<<q, a>>]
          /\ <<q, a>> = c <=> q = p /\ a = attempt[p]
    BY <1>2 DEF Attempts
  <1>6. AttemptsInOrder'
    <2> SUFFICES ASSUME NEW q \in Procs
                 PROVE  /\ attempt[q] <= maxAttempts
                        /\ pc'[q] = "backoff" => attempt[q] # maxAttempts
                        /\ \A a \in 1..MaxAttempts :
                             /\ a < attempt[q] => phase'[<<q, a>>] # "idle"
                             /\ a > attempt[q] => phase'[<<q, a>>] = "idle"
                        /\ pc'[q] \in {"idle", "check"} => phase'[<<q, attempt[q]>>] = "idle"
                        /\ pc'[q] \in {"awaiting", "backoff"} => phase'[<<q, attempt[q]>>] # "idle"
      BY <1>4 DEF AttemptsInOrder
    <2>1. /\ attempt[q] \in 1..MaxAttempts /\ attempt[p] \in 1..MaxAttempts
          /\ pc'[q] = IF q = p THEN "awaiting" ELSE pc[q]
      <3>1. attempt \in [Procs -> 1..MaxAttempts] /\ pc \in [Procs -> PCs]
        BY DEF IInv, TypeOK
      <3>2. QED
        BY <3>1
    <2>2. attempt[q] <= maxAttempts /\ (pc'[q] = "backoff" => attempt[q] # maxAttempts)
      <3>1. attempt[q] <= maxAttempts /\ (pc[q] = "backoff" => attempt[q] # maxAttempts)
        BY DEF IInv, AttemptsInOrder
      <3>2. pc'[q] = "backoff" => pc[q] = "backoff"
        BY <2>1
      <3>3. QED
        BY <3>1, <3>2
    <2>3. ASSUME NEW a \in 1..MaxAttempts
          PROVE  /\ a < attempt[q] => phase'[<<q, a>>] # "idle"
                 /\ a > attempt[q] => phase'[<<q, a>>] = "idle"
      <3>1. CASE <<q, a>> = c
        <4>1. q = p /\ a = attempt[q]
          BY <1>5, <3>1
        <4>2. ~(a < attempt[q]) /\ ~(a > attempt[q])
          BY <2>1, <4>1
        <4>3. QED
          BY <4>2
      <3>2. CASE <<q, a>> # c
        <4>1. phase'[<<q, a>>] = phase[<<q, a>>]
          BY <1>5, <3>2
        <4>2. /\ a < attempt[q] => phase[<<q, a>>] # "idle"
              /\ a > attempt[q] => phase[<<q, a>>] = "idle"
          BY DEF IInv, AttemptsInOrder
        <4>3. QED
          BY <4>1, <4>2
      <3>3. QED
        BY <3>1, <3>2
    <2>4. /\ pc'[q] \in {"idle", "check"} => phase'[<<q, attempt[q]>>] = "idle"
          /\ pc'[q] \in {"awaiting", "backoff"} => phase'[<<q, attempt[q]>>] # "idle"
      <3>1. CASE q = p
        BY <1>2, <2>1, <3>1
      <3>2. CASE q # p
        <4>1. phase'[<<q, attempt[q]>>] = phase[<<q, attempt[q]>>]
          BY <1>5, <2>1, <3>2
        <4>2. QED
          BY <2>1, <3>2, <4>1 DEF IInv, AttemptsInOrder
      <3>3. QED
        BY <3>1, <3>2
    <2>5. QED
      BY <2>2, <2>3, <2>4
  <1>7. OutcomesSettled'
    <2> SUFFICES ASSUME NEW d \in Attempts, outcome[d] # "none" PROVE \E e \in Attempts : promise'[e] = outcome[d]
      BY <1>2 DEF OutcomesSettled
    <2>1. PICK e \in Attempts : promise[e] = outcome[d]
      BY DEF IInv, OutcomesSettled
    <2>2. e # c
      BY <1>2, <2>1
    <2>3. QED
      BY <1>2, <2>1, <2>2
  <1>8. EndingTruthful'
    <2>1. \A d \in Attempts : promise[d] # "none" => promise'[d] = promise[d]
      BY <1>2
    <2>2. \A d \in Attempts : phase[d] # "idle" => phase'[d] # "idle"
      BY <1>2
    <2>3. \A q \in Procs, a \in 1..maxAttempts : <<q, a>> \in Attempts
      <3>1. maxAttempts \in 1..MaxAttempts
        BY AttemptRange DEF IInv, TypeOK
      <3>2. \A a \in 1..maxAttempts : a \in 1..MaxAttempts
        BY <3>1, BudgetAssumption
      <3>3. QED
        BY <3>2 DEF Attempts
    <2>4. ASSUME NEW q \in Procs
          PROVE  /\ ret[q] = "value" => \E d \in Attempts : promise'[d] = "ok"
                 /\ ret[q] = "rethrown" => \E d \in Attempts : promise'[d] = "permanent"
                 /\ ret[q] = "exhausted" => \A a \in 1..maxAttempts : phase'[<<q, a>>] # "idle"
      BY <2>1, <2>2, <2>3 DEF IInv, EndingTruthful
    <2>5. QED
      BY <1>4, <2>4 DEF EndingTruthful
  <1>9. QED
    BY <1>2, <1>3, <1>6, <1>7, <1>8 DEF IInv

\* Every step of a call keeps it.
LEMMA CallStep ==
  ASSUME IInv, NEW p \in Procs, Step(p)
  PROVE  IInv'
  <1> USE DEF Step
  <1>0. UNCHANGED mode /\ cause \in [Procs -> {"none", "timeout"} \cup Errors]
    BY DEF IInv, TypeOK
  <1>1. CASE Call(p)
    <2>1. CASE End(p, "cancelled")
      BY <1>0, <1>1, <2>1, EndStep DEF Call, Endings
    <2>2. CASE pc' = [pc EXCEPT ![p] = "check"] /\ UNCHANGED ret
      <3>1. TypeOK'
        BY <1>0, <1>1, <2>2, RegistryUntouched DEF IInv, TypeOK, Call, PCs
      <3>2. AttemptsInOrder' /\ EndingTruthful'
        BY <1>0, <1>1, <2>2
        DEF IInv, TypeOK, AttemptsInOrder, EndingTruthful, Call, PCs, regVars, maxAttempts, retryRefused
      <3>3. QED
        BY <1>0, <1>1, <3>1, <3>2, RegistryUntouched DEF IInv, Call
    <2>3. QED
      BY <1>1, <2>1, <2>2 DEF Call
  <1>2. CASE BeginAttempt(p)
    <2>1. CASE End(p, "cancelled") /\ UNCHANGED <<timer, regVars>>
      BY <1>0, <1>2, <2>1, EndStep DEF BeginAttempt, Endings
    <2>2. CASE End(p, "deadline") /\ UNCHANGED <<timer, regVars>>
      BY <1>0, <1>2, <2>2, EndStep DEF BeginAttempt, Endings
    <2>3. CASE /\ Registry!Execute(<<p, attempt[p]>>)
               /\ pc' = [pc EXCEPT ![p] = "awaiting"]
               /\ timer' = [timer EXCEPT ![p] = attemptTimeoutMs]
               /\ UNCHANGED ret
      BY <1>0, <1>2, <2>3, InvokeStep DEF BeginAttempt
    <2>4. QED
      BY <1>2, <2>1, <2>2, <2>3 DEF BeginAttempt
  <1>3. CASE AttemptReturns(p)
    BY <1>0, <1>3, EndStep DEF AttemptReturns, Endings
  <1>4. CASE AttemptFails(p)
    <2> DEFINE error == outcome[<<p, attempt[p]>>]
    <2>1. /\ pc[p] = "awaiting" /\ error \in Errors
          /\ cause' = [cause EXCEPT ![p] = error]
          /\ UNCHANGED <<attempt, elapsed, aborted, regVars>>
      BY <1>4 DEF AttemptFails
    <2>2. cause' \in [Procs -> {"none", "timeout"} \cup Errors]
      BY <1>0, <2>1
    <2>3. CASE End(p, "cancelled") /\ UNCHANGED timer
      BY <1>0, <2>1, <2>2, <2>3, EndStep DEF Endings
    <2>4. CASE attempt[p] = maxAttempts /\ End(p, "exhausted") /\ UNCHANGED timer
      BY <1>0, <2>1, <2>2, <2>4, EndStep DEF Endings
    <2>5. CASE error = "permanent" /\ End(p, "rethrown") /\ UNCHANGED timer
      BY <1>0, <2>1, <2>2, <2>5, EndStep DEF Endings
    <2>6. CASE attempt[p] # maxAttempts /\ BackOff(p)
      BY <1>0, <2>1, <2>2, <2>6, BackOffStep
    <2>7. QED
      BY <1>4, <2>3, <2>4, <2>5, <2>6 DEF AttemptFails
  <1>5. CASE AttemptTimesOut(p)
    <2>1. /\ pc[p] = "awaiting" /\ cause' = [cause EXCEPT ![p] = "timeout"]
          /\ UNCHANGED <<attempt, elapsed, aborted, regVars>>
      BY <1>5 DEF AttemptTimesOut
    <2>2. cause' \in [Procs -> {"none", "timeout"} \cup Errors]
      BY <1>0, <2>1
    <2>3. CASE attempt[p] = maxAttempts /\ End(p, "exhausted") /\ UNCHANGED timer
      BY <1>0, <2>1, <2>2, <2>3, EndStep DEF Endings
    <2>4. CASE attempt[p] # maxAttempts /\ BackOff(p)
      BY <1>0, <2>1, <2>2, <2>4, BackOffStep
    <2>5. QED
      BY <1>5, <2>3, <2>4 DEF AttemptTimesOut
  <1>6. CASE AttemptAborted(p)
    BY <1>0, <1>6, EndStep DEF AttemptAborted, Endings
  <1>7. CASE Wake(p)
    <2>1. CASE End(p, "cancelled") /\ UNCHANGED attempt
      BY <1>0, <1>7, <2>1, EndStep DEF Wake, Endings
    <2>2. CASE /\ pc' = [pc EXCEPT ![p] = "check"] /\ attempt' = [attempt EXCEPT ![p] = @ + 1]
               /\ UNCHANGED ret
      <3>1. attempt[p] + 1 \in 1..MaxAttempts /\ attempt[p] + 1 <= maxAttempts
        <4>1. /\ maxAttempts \in 1..MaxAttempts /\ attempt[p] \in 1..MaxAttempts
              /\ attempt[p] <= maxAttempts /\ attempt[p] # maxAttempts
          BY <1>7, AttemptRange DEF IInv, TypeOK, AttemptsInOrder, Wake
        <4>2. QED
          BY <4>1, BudgetAssumption
      <3>2. TypeOK'
        BY <1>0, <1>7, <2>2, <3>1, RegistryUntouched DEF IInv, TypeOK, Wake, PCs
      <3>3. EndingTruthful'
        BY <1>0, <1>7, <2>2 DEF IInv, EndingTruthful, Wake, regVars, maxAttempts, retryRefused
      <3>4. UNCHANGED <<phase, maxAttempts>>
        BY <1>0, <1>7 DEF Wake, regVars, maxAttempts, retryRefused
      <3>5. AttemptsInOrder'
        <4> SUFFICES ASSUME NEW q \in Procs
                     PROVE  /\ attempt'[q] <= maxAttempts
                            /\ pc'[q] = "backoff" => attempt'[q] # maxAttempts
                            /\ \A a \in 1..MaxAttempts :
                                 /\ a < attempt'[q] => phase[<<q, a>>] # "idle"
                                 /\ a > attempt'[q] => phase[<<q, a>>] = "idle"
                            /\ pc'[q] \in {"idle", "check"} => phase[<<q, attempt'[q]>>] = "idle"
                            /\ pc'[q] \in {"awaiting", "backoff"} => phase[<<q, attempt'[q]>>] # "idle"
          BY <3>4 DEF AttemptsInOrder
        <4>1. CASE q # p
          <5>1. pc'[q] = pc[q] /\ attempt'[q] = attempt[q]
            BY <2>2, <4>1 DEF IInv, TypeOK
          <5>2. QED
            BY <5>1 DEF IInv, AttemptsInOrder
        <4>2. CASE q = p
          <5>1. pc'[p] = "check" /\ attempt'[p] = attempt[p] + 1 /\ attempt[p] \in Nat
            BY <2>2 DEF IInv, TypeOK
          <5>2. \A a \in 1..MaxAttempts :
                  /\ a < attempt[p] + 1 => phase[<<p, a>>] # "idle"
                  /\ a >= attempt[p] + 1 => phase[<<p, a>>] = "idle"
            <6> SUFFICES ASSUME NEW a \in 1..MaxAttempts
                         PROVE  /\ a < attempt[p] + 1 => phase[<<p, a>>] # "idle"
                                /\ a >= attempt[p] + 1 => phase[<<p, a>>] = "idle"
              OBVIOUS
            <6>1. /\ a < attempt[p] + 1 <=> a < attempt[p] \/ a = attempt[p]
                  /\ a >= attempt[p] + 1 <=> a > attempt[p]
              BY <5>1
            <6>2. QED
              BY <1>7, <6>1 DEF IInv, AttemptsInOrder, Wake
          <5>3. QED
            BY <3>1, <4>2, <5>1, <5>2, BudgetAssumption
        <4>3. QED
          BY <4>1, <4>2
      <3>6. QED
        BY <1>0, <1>7, <3>2, <3>3, <3>5, RegistryUntouched DEF IInv, Wake
    <2>3. QED
      BY <1>7, <2>1, <2>2 DEF Wake
  <1>8. QED
    BY <1>1, <1>2, <1>3, <1>4, <1>5, <1>6, <1>7

\* Every step keeps it.
LEMMA InvStep == IInv /\ [Next]_vars => IInv'
  <1> SUFFICES ASSUME IInv, [Next]_vars PROVE IInv'
    OBVIOUS
  <1>1. ASSUME NEW p \in Procs, Step(p) PROVE IInv'
    BY <1>1, CallStep
  <1>2. ASSUME NEW p \in Procs, Abort(p) PROVE IInv'
    <2>1. TypeOK'
      BY <1>2, RegistryUntouched DEF IInv, TypeOK, Abort
    <2>2. AttemptsInOrder' /\ EndingTruthful'
      BY <1>2 DEF IInv, AttemptsInOrder, EndingTruthful, Abort, regVars, maxAttempts, retryRefused
    <2>3. QED
      BY <1>2, <2>1, <2>2, RegistryUntouched DEF IInv, Abort
  <1>3. ASSUME NEW c \in Attempts, NEW s \in Registry!Settlements, Registry!Settle(c, s), UNCHANGED procVars
        PROVE IInv'
    <2>1. /\ RegistryInv'
          /\ UNCHANGED <<key, outcome, phase>>
          /\ promise[c] = "pending"
          /\ \A d \in Attempts : d # c => promise'[d] = promise[d]
      BY <1>3, SettleStep DEF IInv, procVars
    <2>2. TypeOK'
      <3>1. Registry!TypeOK'
        BY <2>1, RegistryTypes, PTL DEF RegistryInv, Reg!BaseInv
      <3>2. QED
        BY <1>3, <3>1 DEF IInv, TypeOK, procVars
    <2>3. AttemptsInOrder'
      BY <1>3, <2>1 DEF IInv, AttemptsInOrder, procVars, maxAttempts, retryRefused
    <2>4. \A d \in Attempts : promise[d] # "pending" => promise'[d] = promise[d]
      BY <2>1
    <2>5. \A d \in Attempts : outcome[d] # "pending"
      BY DEF IInv, TypeOK, Registry!TypeOK, Registry!Settlements, Errors
    <2>6. OutcomesSettled'
      BY <2>1, <2>4, <2>5 DEF IInv, OutcomesSettled
    <2>7. EndingTruthful'
      BY <1>3, <2>1, <2>4 DEF IInv, EndingTruthful, procVars, maxAttempts, retryRefused
    <2>8. QED
      BY <2>1, <2>2, <2>3, <2>6, <2>7 DEF IInv
  <1>4. ASSUME NEW c \in Attempts, Continues(c) PROVE IInv'
    <2>1. /\ RegistryInv'
          /\ UNCHANGED <<key, promise>>
          /\ phase[c] # "idle" /\ phase'[c] # "idle"
          /\ \A d \in Attempts : d # c => phase'[d] = phase[d] /\ outcome'[d] = outcome[d]
          /\ \E d \in Attempts : outcome'[c] = promise[d]
      BY <1>4, ContinueStep DEF IInv, procVars, Continues
    <2>2. TypeOK'
      <3>1. Registry!TypeOK'
        BY <2>1, RegistryTypes, PTL DEF RegistryInv, Reg!BaseInv
      <3>2. QED
        BY <1>4, <3>1 DEF IInv, TypeOK, procVars, Continues
    <2>3. \A d \in Attempts : phase[d] = "idle" <=> phase'[d] = "idle"
      BY <2>1
    <2>4. UNCHANGED <<pc, attempt, ret, maxAttempts>>
      BY <1>4 DEF Continues, procVars, maxAttempts, retryRefused
    <2>5. \A q \in Procs, a \in 1..MaxAttempts : <<q, a>> \in Attempts
      BY DEF Attempts
    <2>6. AttemptsInOrder'
      BY <2>3, <2>4, <2>5 DEF IInv, TypeOK, AttemptsInOrder
    <2>7. OutcomesSettled'
      BY <2>1 DEF IInv, OutcomesSettled
    <2>8. \A a \in 1..maxAttempts : a \in 1..MaxAttempts
      BY AttemptRange, BudgetAssumption DEF IInv, TypeOK
    <2>9. EndingTruthful'
      BY <2>1, <2>3, <2>4, <2>5, <2>8 DEF IInv, EndingTruthful
    <2>10. QED
      BY <2>1, <2>2, <2>6, <2>7, <2>9 DEF IInv
  <1>5. CASE Tick
    <2>1. TypeOK'
      BY <1>5, RegistryUntouched, BudgetAssumption DEF IInv, TypeOK, Tick, Least
    <2>2. AttemptsInOrder' /\ EndingTruthful'
      BY <1>5 DEF IInv, AttemptsInOrder, EndingTruthful, Tick, regVars, maxAttempts, retryRefused
    <2>3. QED
      BY <1>5, <2>1, <2>2, RegistryUntouched DEF IInv, Tick
  <1>6. CASE UNCHANGED vars
    <2>1. TypeOK'
      BY <1>6, RegistryUntouched DEF IInv, TypeOK, vars, procVars
    <2>2. AttemptsInOrder' /\ EndingTruthful'
      BY <1>6 DEF IInv, AttemptsInOrder, EndingTruthful, vars, procVars, regVars, maxAttempts, retryRefused
    <2>3. QED
      BY <1>6, <2>1, <2>2, RegistryUntouched DEF IInv, vars, procVars
  <1>7. QED
    BY <1>1, <1>2, <1>3, <1>4, <1>5, <1>6 DEF Next, Settles

\* It holds at the start.
LEMMA InitInv == Init => IInv
  <1> SUFFICES ASSUME Init PROVE IInv
    OBVIOUS
  <1>1. \A c \in Attempts : attemptKey(c) \in Attempts \cup {Operation}
    BY DEF attemptKey
  <1>2. /\ entry = [k \in Attempts \cup {Operation} |-> None]
        /\ phase = [c \in Attempts |-> "idle"]
        /\ key = [c \in Attempts |-> attemptKey(c)]
        /\ ttl = [c \in Attempts |-> 0] /\ cacheErrs = [c \in Attempts |-> FALSE]
        /\ expiresAt = [c \in Attempts |-> -1]
        /\ promise = [c \in Attempts |-> "none"]
        /\ source = [c \in Attempts |-> None]
        /\ outcome = [c \in Attempts |-> "none"]
        /\ onTime = TRUE
    BY DEF Init, Registry!Init, Registry!Never
  <1>3. Reg!TypeOK
    BY <1>1, <1>2 DEF Reg!TypeOK, Reg!Phases, Reg!PromiseStates, Reg!Settlements, Reg!Never
  <1>4. RegistryInv
    BY <1>2, <1>3
    DEF RegistryInv, Reg!BaseInv, Reg!TimedInv, Reg!Timed, Reg!EntryMeaning, Reg!ExpiryMeaning,
        Reg!OwnersAreSources, Reg!EntriesOwned, Reg!OwnersInTime, Reg!OwnersRegistered, Reg!SuccessKept,
        Reg!Never
  <1>5. TypeOK
    BY <1>3, RegistryTypes, BudgetAssumption DEF Init, TypeOK, PCs, Endings
  <1>6. maxAttempts \in 1..MaxAttempts /\ \A p \in Procs, a \in 1..MaxAttempts : phase[<<p, a>>] = "idle"
    BY <1>2, AttemptRange DEF Init, Attempts
  <1>7. AttemptsInOrder
    <2>1. attempt = [p \in Procs |-> 1] /\ pc = [p \in Procs |-> "idle"]
      BY DEF Init
    <2>2. 1 \in 1..MaxAttempts /\ 1 <= maxAttempts
      BY <1>6, BudgetAssumption
    <2>3. \A a \in 1..MaxAttempts : ~(a < 1)
      BY BudgetAssumption
    <2>4. QED
      BY <1>6, <2>1, <2>2, <2>3 DEF AttemptsInOrder
  <1>8. OutcomesSettled /\ EndingTruthful
    BY <1>2 DEF Init, OutcomesSettled, EndingTruthful
  <1>9. QED
    BY <1>4, <1>5, <1>7, <1>8 DEF IInv

(***************************************************************************)
(* One key, one fn: with a registry and a key all attempts have the key of *)
(* the operation, and an owner is the one that is stored under its key.    *)
(***************************************************************************)
LEMMA OneFnAtATime == IInv => NeverConcurrent
  <1> SUFFICES ASSUME IInv, mode.hasRegistry, mode.hasIdempotencyKey,
                      NEW c \in Attempts, NEW d \in Attempts,
                      promise[c] = "pending", promise[d] = "pending"
               PROVE  c = d
    BY DEF NeverConcurrent
  <1>1. key[c] = Operation /\ key[d] = Operation
    BY DEF IInv, RegistryInv, attemptKey
  <1>2. phase[c] = "owner" /\ phase[d] = "owner"
    BY DEF IInv, RegistryInv, Reg!BaseInv, Reg!OwnersAreSources
  <1>3. QED
    BY <1>1, <1>2 DEF IInv, RegistryInv, Reg!TimedInv, Reg!Timed, Reg!OwnersRegistered

(***************************************************************************)
(* A write without a key has a budget of one attempt, and attempts are     *)
(* used in order.                                                          *)
(***************************************************************************)
LEMMA OneRunWithoutKey == IInv => WriteWithoutKeyRunsOnce
  <1> SUFFICES ASSUME IInv, retryRefused, NEW p \in Procs, NEW a \in 1..MaxAttempts,
                      promise[<<p, a>>] # "none"
               PROVE  a = 1
    BY DEF WriteWithoutKeyRunsOnce
  <1>1. <<p, a>> \in Attempts
    BY DEF Attempts
  <1>2. phase[<<p, a>>] # "idle"
    BY <1>1 DEF IInv, RegistryInv, Reg!BaseInv, Reg!OwnersAreSources
  <1>3. attempt[p] \in 1..MaxAttempts /\ attempt[p] <= 1 /\ ~(a > attempt[p])
    BY <1>2 DEF IInv, TypeOK, AttemptsInOrder, maxAttempts
  <1>4. QED
    BY <1>3, BudgetAssumption

\* It holds throughout.
LEMMA Invariance == Spec => []IInv
  BY InitInv, InvStep, PTL DEF Spec

(***************************************************************************)
(* RetrySafe for any calls and budget: concurrent withRetryBudget calls    *)
(* with one idempotency key never have two fn in flight, a write without a *)
(* key calls fn once, and what a call reports is how some fn settled.      *)
(***************************************************************************)
THEOREM RetriesSafe == Spec => []RetrySafe
  <1>1. IInv => RetrySafe
    BY OneFnAtATime, OneRunWithoutKey DEF IInv, RetrySafe
  <1>2. QED
    BY <1>1, Invariance, PTL

(***************************************************************************)
(* NoLateStart: only the head of the loop starts a fn, and it has looked   *)
(* at the signal and at the deadline in the same step.                     *)
(***************************************************************************)
THEOREM NoLateStarts == Spec => NoLateStart
  <1> DEFINE Late == \A p \in Procs, a \in 1..MaxAttempts :
                       promise[<<p, a>>] = "none" /\ promise'[<<p, a>>] = "pending" =>
                         elapsed[p] < timeoutMs /\ ~aborted[p]
  <1>1. IInv /\ [Next]_vars => [Late]_vars
    <2> SUFFICES ASSUME IInv, Next, NEW p \in Procs, NEW a \in 1..MaxAttempts,
                        promise[<<p, a>>] = "none", promise'[<<p, a>>] = "pending"
                 PROVE  elapsed[p] < timeoutMs /\ ~aborted[p]
      OBVIOUS
    <2>1. <<p, a>> \in Attempts /\ promise' # promise
      BY DEF Attempts
    <2>2. ~(\E q \in Procs : Abort(q)) /\ ~Tick
      BY <2>1 DEF Abort, Tick, regVars
    <2>3. ASSUME NEW c \in Attempts, NEW s \in Registry!Settlements, Registry!Settle(c, s) PROVE FALSE
      <3>1. promise[c] = "pending" /\ promise' = [promise EXCEPT ![c] = s]
        BY <2>3 DEF Registry!Settle
      <3>2. c # <<p, a>> /\ promise'[<<p, a>>] = promise[<<p, a>>]
        BY <3>1
      <3>3. QED
        BY <3>2
    <2>4. ASSUME NEW c \in Attempts, Continues(c) PROVE FALSE
      BY <2>1, <2>4 DEF Continues, Registry!OwnerContinues, Registry!JoinedContinues
    <2>5. PICK q \in Procs : Step(q)
      BY <2>2, <2>3, <2>4 DEF Next, Settles
    <2>6. /\ BeginAttempt(q) /\ ~aborted[q] /\ elapsed[q] < timeoutMs
          /\ Registry!Execute(<<q, attempt[q]>>) /\ UNCHANGED mode
      BY <2>1, <2>5
      DEF Step, Call, BeginAttempt, AttemptReturns, AttemptFails, AttemptTimesOut, AttemptAborted, Wake, regVars
    <2>7. <<q, attempt[q]>> \in Attempts
      BY DEF IInv, TypeOK, Attempts
    <2>8. <<p, a>> = <<q, attempt[q]>>
      BY <2>1, <2>6, <2>7, ExecuteStep DEF IInv
    <2>9. QED
      BY <2>6, <2>8
  <1>2. QED
    BY <1>1, Invariance, PTL DEF Spec, NoLateStart
=============================================================================
