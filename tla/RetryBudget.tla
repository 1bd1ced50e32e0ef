----------------------------- MODULE RetryBudget -----------------------------
(***************************************************************************)
(* withRetryBudget (core/retry-budget.ts) on top of IdempotencyRegistry:   *)
(* several calls retry the same operation at the same time, each with an   *)
(* overall deadline, a timeout per attempt, a backoff between attempts and *)
(* an abort signal of its own.                                             *)
(*                                                                         *)
(* Attempt a of call p is the registry caller <<p, a>>.  With a registry   *)
(* and an idempotency key every attempt uses the one key of the operation; *)
(* otherwise fn() is called directly, which is a key of the attempt's own. *)
(* A timed-out attempt is abandoned, not stopped: its fn runs on.          *)
(*                                                                         *)
(* Clocks are relative: elapsed is now() - startedAt, saturated at the     *)
(* deadline, timer is what is left of the sleep that is under way; a timer *)
(* at zero may fire at any later time.                                     *)
(***************************************************************************)
EXTENDS Integers

CONSTANTS
  Procs,                \* concurrent calls of withRetryBudget
  MaxAttempts,          \* budget.maxAttempts
  timeoutMs,            \* budget.timeoutMs
  attemptTimeoutMs,     \* options.attemptTimeoutMs; 0 when it is undefined
  initialDelayMs,       \* budget.initialDelayMs, doubled at every attempt
  maxDelayMs,           \* budget.maxDelayMs
  jitterMs,             \* budget.jitterMs
  Modes,                \* options of the operation: see ModesAssumption
  None                  \* no caller

ASSUME BudgetAssumption ==
  /\ MaxAttempts \in Nat \ {0} /\ timeoutMs \in Nat /\ attemptTimeoutMs \in Nat
  /\ initialDelayMs \in Nat /\ maxDelayMs \in Nat /\ jitterMs \in Nat
\* budget.idempotencyRequired ("write" operations), options.idempotencyKey, options.registry
ASSUME ModesAssumption ==
  Modes \subseteq [idempotencyRequired : BOOLEAN, hasIdempotencyKey : BOOLEAN, hasRegistry : BOOLEAN]

VARIABLES
  mode,     \* the options, the same for every call of the operation
  pc,       \* of each call: see PCs
  attempt,  \* attempt of the loop
  elapsed,  \* now() - startedAt
  timer,    \* rest of the attempt timeout or of the backoff
  aborted,  \* signal.aborted
  ret,      \* how the call ended: see Endings
  cause,    \* the last attempt's error
  entry, phase, key, ttl, cacheErrs, expiresAt, promise, source, outcome, onTime  \* registry

regVars == <<entry, phase, key, ttl, cacheErrs, expiresAt, promise, source, outcome, onTime>>
procVars == <<mode, pc, attempt, elapsed, timer, aborted, ret, cause>>
vars == <<procVars, regVars>>

PCs == {"idle", "check", "awaiting", "backoff", "done"}
Endings == {"none", "value", "rethrown", "exhausted", "deadline", "cancelled"}
Errors == {"transient", "permanent"}

Attempts == Procs \X (1..MaxAttempts)
Operation == <<"operation", 0>>

ASSUME AttemptsAssumption == None \notin Attempts

\* ttlMs is 0 and nobody calls clear(): the registry's clock may stand still.
Registry == INSTANCE IdempotencyRegistry WITH
  Callers <- Attempts, Keys <- Attempts \cup {Operation}, Ttls <- {0},
  MaxTime <- 0, now <- 0

-----------------------------------------------------------------------------
(***************************************************************************)
(* computeBackoffDelay, with the jitter it may add.                        *)
(***************************************************************************)
Least(x, y) == IF x <= y THEN x ELSE y

computeBackoffDelays(a) ==
  {delay \in 0..(maxDelayMs + jitterMs) :
     \E jitter \in 0..jitterMs : delay = Least(initialDelayMs * 2^(a - 1), maxDelayMs) + jitter}

retryRefused == mode.idempotencyRequired /\ ~mode.hasIdempotencyKey

\* Mutant: the missing idempotency key is not looked at.
maxAttempts_Unguarded == MaxAttempts

maxAttempts == IF retryRefused THEN 1 ELSE MaxAttempts

\* Mutant: the registry is passed over.
attemptKey_Direct(c) == c

attemptKey(c) == IF mode.hasRegistry /\ mode.hasIdempotencyKey THEN Operation ELSE c

Init ==
  /\ mode \in Modes
  /\ pc = [p \in Procs |-> "idle"]
  /\ attempt = [p \in Procs |-> 1]
  /\ elapsed = [p \in Procs |-> 0]
  /\ timer = [p \in Procs |-> 0]
  /\ aborted = [p \in Procs |-> FALSE]
  /\ ret = [p \in Procs |-> "none"]
  /\ cause = [p \in Procs |-> "none"]
  /\ key = [c \in Attempts |-> attemptKey(c)]
  /\ ttl = [c \in Attempts |-> 0]
  /\ cacheErrs = [c \in Attempts |-> FALSE]
  /\ Registry!Init

End(p, how) ==
  /\ pc' = [pc EXCEPT ![p] = "done"]
  /\ ret' = [ret EXCEPT ![p] = how]

(***************************************************************************)
(* The call, up to the first attempt.                                      *)
(***************************************************************************)
Call(p) ==
  /\ pc[p] = "idle"
  /\ \/ aborted[p] /\ End(p, "cancelled")
     \/ ~aborted[p] /\ pc' = [pc EXCEPT ![p] = "check"] /\ UNCHANGED ret
  /\ UNCHANGED <<attempt, elapsed, timer, aborted, cause, regVars>>

(***************************************************************************)
(* Head of the loop: abort, deadline, then invokeAttempt.                  *)
(***************************************************************************)
\* Mutant: the deadline is not looked at before an attempt.
BeginAttempt_NoDeadline(p) ==
  /\ pc[p] = "check"
  /\ \/ aborted[p] /\ End(p, "cancelled") /\ UNCHANGED <<timer, regVars>>
     \/ /\ ~aborted[p]
        /\ Registry!Execute(<<p, attempt[p]>>)
        /\ pc' = [pc EXCEPT ![p] = "awaiting"]
        /\ timer' = [timer EXCEPT ![p] = attemptTimeoutMs]
        /\ UNCHANGED ret
  /\ UNCHANGED <<attempt, elapsed, aborted, cause>>

BeginAttempt(p) ==
  /\ pc[p] = "check"
  /\ \/ aborted[p] /\ End(p, "cancelled") /\ UNCHANGED <<timer, regVars>>
     \/ /\ ~aborted[p] /\ elapsed[p] >= timeoutMs
        /\ End(p, "deadline") /\ UNCHANGED <<timer, regVars>>
     \/ /\ ~aborted[p] /\ elapsed[p] < timeoutMs
        /\ Registry!Execute(<<p, attempt[p]>>)
        /\ pc' = [pc EXCEPT ![p] = "awaiting"]
        /\ timer' = [timer EXCEPT ![p] = attemptTimeoutMs]
        /\ UNCHANGED ret
  /\ UNCHANGED <<attempt, elapsed, aborted, cause>>

AttemptReturns(p) ==
  /\ pc[p] = "awaiting" /\ outcome[<<p, attempt[p]>>] = "ok"
  /\ End(p, "value")
  /\ UNCHANGED <<attempt, elapsed, timer, aborted, cause, regVars>>

(***************************************************************************)
(* After a failed or timed-out attempt that is not the last: sleep, unless *)
(* the sleep would reach the deadline.                                     *)
(***************************************************************************)
BackOff(p) ==
  \E delay \in computeBackoffDelays(attempt[p]) :
    \/ elapsed[p] + delay >= timeoutMs /\ End(p, "deadline") /\ UNCHANGED timer
    \/ /\ elapsed[p] + delay < timeoutMs
       /\ pc' = [pc EXCEPT ![p] = "backoff"]
       /\ timer' = [timer EXCEPT ![p] = delay]
       /\ UNCHANGED ret

\* Mutant: the budget is taken for used up one attempt early.
AttemptFails_OffByOne(p) ==
  /\ pc[p] = "awaiting" /\ outcome[<<p, attempt[p]>>] \in Errors
  /\ cause' = [cause EXCEPT ![p] = outcome[<<p, attempt[p]>>]]
  /\ \/ aborted[p] /\ End(p, "cancelled") /\ UNCHANGED timer
     \/ ~aborted[p] /\ attempt[p] + 1 >= maxAttempts /\ End(p, "exhausted") /\ UNCHANGED timer
     \/ ~aborted[p] /\ attempt[p] + 1 < maxAttempts /\ BackOff(p)
  /\ UNCHANGED <<attempt, elapsed, aborted, regVars>>

\* Mutant: the last attempt is not recognised.
AttemptFails_Endless(p) ==
  /\ pc[p] = "awaiting" /\ outcome[<<p, attempt[p]>>] \in Errors
  /\ cause' = [cause EXCEPT ![p] = outcome[<<p, attempt[p]>>]]
  /\ \/ aborted[p] /\ End(p, "cancelled") /\ UNCHANGED timer
     \/ ~aborted[p] /\ BackOff(p)
  /\ UNCHANGED <<attempt, elapsed, aborted, regVars>>

AttemptFails(p) ==
  /\ pc[p] = "awaiting" /\ outcome[<<p, attempt[p]>>] \in Errors
  /\ LET error == outcome[<<p, attempt[p]>>] IN
     /\ cause' = [cause EXCEPT ![p] = error]
     /\ \/ aborted[p] /\ End(p, "cancelled") /\ UNCHANGED timer
        \/ ~aborted[p] /\ attempt[p] = maxAttempts /\ End(p, "exhausted") /\ UNCHANGED timer
        \/ /\ ~aborted[p] /\ attempt[p] # maxAttempts /\ error = "permanent"
           /\ End(p, "rethrown") /\ UNCHANGED timer
        \/ ~aborted[p] /\ attempt[p] # maxAttempts /\ error # "permanent" /\ BackOff(p)
  /\ UNCHANGED <<attempt, elapsed, aborted, regVars>>

(***************************************************************************)
(* runAttemptWithTimeout: the timer wins the race, or the abort signal     *)
(* rejects its sleep.  The call of fn is left running either way.          *)
(***************************************************************************)
\* Mutant: a timed-out attempt waits for its fn after all.
AttemptTimesOut_Waits(p) ==
  /\ pc[p] = "awaiting" /\ attemptTimeoutMs > 0 /\ timer[p] = 0
  /\ outcome[<<p, attempt[p]>>] # "none"
  /\ cause' = [cause EXCEPT ![p] = "timeout"]
  /\ \/ attempt[p] = maxAttempts /\ End(p, "exhausted") /\ UNCHANGED timer
     \/ attempt[p] # maxAttempts /\ BackOff(p)
  /\ UNCHANGED <<attempt, elapsed, aborted, regVars>>

AttemptTimesOut(p) ==
  /\ pc[p] = "awaiting" /\ attemptTimeoutMs > 0 /\ timer[p] = 0
  /\ cause' = [cause EXCEPT ![p] = "timeout"]
  /\ \/ attempt[p] = maxAttempts /\ End(p, "exhausted") /\ UNCHANGED timer
     \/ attempt[p] # maxAttempts /\ BackOff(p)
  /\ UNCHANGED <<attempt, elapsed, aborted, regVars>>

AttemptAborted(p) ==
  /\ pc[p] = "awaiting" /\ attemptTimeoutMs > 0 /\ aborted[p]
  /\ End(p, "cancelled")
  /\ UNCHANGED <<attempt, elapsed, timer, aborted, cause, regVars>>

(***************************************************************************)
(* The backoff sleep ends, or is rejected by the abort signal.             *)
(***************************************************************************)
Wake(p) ==
  /\ pc[p] = "backoff"
  /\ \/ aborted[p] /\ End(p, "cancelled") /\ UNCHANGED attempt
     \/ /\ ~aborted[p] /\ timer[p] = 0
        /\ pc' = [pc EXCEPT ![p] = "check"]
        /\ attempt' = [attempt EXCEPT ![p] = @ + 1]
        /\ UNCHANGED ret
  /\ UNCHANGED <<elapsed, timer, aborted, cause, regVars>>

Step(p) ==
  /\ \/ Call(p) \/ BeginAttempt(p) \/ AttemptReturns(p) \/ AttemptFails(p)
     \/ AttemptTimesOut(p) \/ AttemptAborted(p) \/ Wake(p)
  /\ UNCHANGED mode

Abort(p) ==
  /\ pc[p] # "done" /\ ~aborted[p]
  /\ aborted' = [aborted EXCEPT ![p] = TRUE]
  /\ UNCHANGED <<mode, pc, attempt, elapsed, timer, ret, cause, regVars>>

(***************************************************************************)
(* The registry's own steps: fn settles, execute continues after its await.*)
(***************************************************************************)
Settles == (\E c \in Attempts, s \in Registry!Settlements : Registry!Settle(c, s)) /\ UNCHANGED procVars

Continues(c) == (Registry!OwnerContinues(c) \/ Registry!JoinedContinues(c)) /\ UNCHANGED procVars

Tick ==
  /\ elapsed' = [p \in Procs |-> IF pc[p] \in {"idle", "done"} THEN elapsed[p]
                                 ELSE Least(elapsed[p] + 1, timeoutMs)]
  /\ timer' = [p \in Procs |-> IF timer[p] > 0 THEN timer[p] - 1 ELSE 0]
  /\ UNCHANGED <<mode, pc, attempt, aborted, ret, cause, regVars>>

Next ==
  \/ \E p \in Procs : Step(p) \/ Abort(p)
  \/ Settles
  \/ \E c \in Attempts : Continues(c)
  \/ Tick

Spec == Init /\ [][Next]_vars

(***************************************************************************)
(* Timers fire and continuations run.  fn need not settle.                 *)
(***************************************************************************)
FairSpec ==
  /\ Spec
  /\ \A p \in Procs : WF_vars(Step(p))
  /\ \A c \in Attempts : WF_vars(Continues(c))
  /\ WF_vars(Tick)

-----------------------------------------------------------------------------
(***************************************************************************)
(* TypeOK: the calls and the registry they share.                          *)
(***************************************************************************)
TypeOK ==
  /\ mode \in Modes
  /\ pc \in [Procs -> PCs]
  /\ attempt \in [Procs -> 1..MaxAttempts]
  /\ elapsed \in [Procs -> 0..timeoutMs]
  /\ timer \in [Procs -> Nat]
  /\ aborted \in [Procs -> BOOLEAN]
  /\ ret \in [Procs -> Endings]
  /\ cause \in [Procs -> {"none", "timeout"} \cup Errors]
  /\ Registry!TypeOK

(***************************************************************************)
(* "the same operation is never submitted twice concurrently": with a      *)
(* registry and a key, at most one fn runs, across the calls and across    *)
(* the attempts that timed out and were left running.                      *)
(***************************************************************************)
NeverConcurrent ==
  mode.hasRegistry /\ mode.hasIdempotencyKey =>
    \A c, d \in Attempts : promise[c] = "pending" /\ promise[d] = "pending" => c = d

(***************************************************************************)
(* "Non-idempotent operations are only retried when an idempotencyKey is   *)
(* supplied": a write without a key calls fn at most once.                 *)
(***************************************************************************)
WriteWithoutKeyRunsOnce ==
  retryRefused =>
    \A p \in Procs, a, b \in 1..MaxAttempts :
      promise[<<p, a>>] # "none" /\ promise[<<p, b>>] # "none" => a = b

(***************************************************************************)
(* What a call reports is what happened: a value is that of a fn that      *)
(* resolved, a rethrown error that of a fn that rejected, and a call ends  *)
(* as exhausted only after its whole budget of attempts was used.          *)
(***************************************************************************)
EndingTruthful ==
  \A p \in Procs :
    /\ ret[p] = "value" => \E c \in Attempts : promise[c] = "ok"
    /\ ret[p] = "rethrown" => \E c \in Attempts : promise[c] = "permanent"
    /\ ret[p] = "exhausted" =>
         \A a \in 1..maxAttempts : phase[<<p, a>>] # "idle"

(***************************************************************************)
(* A retry never harms: no concurrent duplicate, no second run of a write  *)
(* without a key, no untruthful ending.                                    *)
(***************************************************************************)
RetrySafe == TypeOK /\ NeverConcurrent /\ WriteWithoutKeyRunsOnce /\ EndingTruthful

(***************************************************************************)
(* No fn is started for a call once its deadline has passed or its signal  *)
(* has fired, however the timers and the other calls interleave.           *)
(***************************************************************************)
NoLateStart ==
  [][\A p \in Procs, a \in 1..MaxAttempts :
       promise[<<p, a>>] = "none" /\ promise'[<<p, a>>] = "pending" =>
         elapsed[p] < timeoutMs /\ ~aborted[p]]_vars

(***************************************************************************)
(* With a timeout per attempt every call ends, even if fn never settles    *)
(* and every later attempt joins the promise that hangs.                   *)
(***************************************************************************)
EveryCallEnds == \A p \in Procs : pc[p] # "idle" ~> pc[p] = "done"
=============================================================================
