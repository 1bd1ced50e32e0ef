-------------------------- MODULE ConfirmationNonce --------------------------
(***************************************************************************)
(* core/executionConfirmationNonce.ts: one-time nonces that confirm a      *)
(* payroll operation.  validateExecutionNonce runs without a break up to   *)
(* the two calls it awaits, checkIfUsed and markAsUsed, which the caller   *)
(* implements over a store of used nonces; validations interleave there    *)
(* (validateExecutionNoncesBatch starts them all at once).                 *)
(* A nonce is a record: the scope, the time and the length of the random   *)
(* part, that is all the validation looks at.                              *)
(***************************************************************************)
EXTENDS Checks

CONSTANTS
  NonceScopes,        \* pairs of an operation type and a context
  SafeScope(_),       \* createOperationScope: "." and "-" in a context give the same scope
  NonceValidators,    \* concurrent calls of validateExecutionNonce
  NonceSkew,          \* maxClockSkewMs
  NonceValidity,      \* validityDurationMs
  NonceLastTime,      \* bound: last instant of the clock
  OtherRandomBytes    \* lengths of the random part in nonces of other issuers

VARIABLES
  nonceNow,           \* Date.now()
  generated,          \* nonces made by generateExecutionNonce
  usedNonces,         \* the caller's store
  validation          \* validator -> the call it is in

nonceVars == <<nonceNow, generated, usedNonces, validation>>

NoNonce == [scope |-> "", at |-> -1, bytes |-> 0]

\* at = -1: the timestamp does not parse; scope = "": not three parts.
Nonce(scope, at, bytes) == [scope |-> scope, at |-> at, bytes |-> bytes]

\* A call that has not begun; pc, the nonce, its result; late is history.
IdleValidation == [pc |-> "idle", nonce |-> NoNonce, late |-> FALSE]

NonceInit ==
  /\ nonceNow = 0
  /\ generated = {}
  /\ usedNonces = {}
  /\ validation = [v \in NonceValidators |-> IdleValidation]

GeneratedBytes == 16

generateExecutionNonce(s) ==
  /\ generated' = generated \cup {Nonce(SafeScope(s), nonceNow, GeneratedBytes)}
  /\ UNCHANGED <<nonceNow, usedNonces, validation>>

isValidHexString(n) == n.bytes = 32

\* The checks before the first await, in their order.  A nonce from the future passes.
syncChecks(n, s) ==
  FirstOf(<< <<n = NoNonce, "MISSING_NONCE">>,
             <<n.scope = "", "INVALID_FORMAT">>,
             <<n.scope # SafeScope(s), "OPERATION_MISMATCH">>,
             <<n.at < 0, "INVALID_FORMAT">>,
             <<nonceNow - n.at > NonceSkew, "CLOCK_SKEW">>,
             <<nonceNow > n.at + NonceValidity, "EXPIRED">>,
             <<~isValidHexString(n), "INVALID_SIGNATURE">> >>, "checking")

\* What a caller may present: nothing, a nonce issued here, or one made elsewhere in the same format.
Presented ==
  {NoNonce, Nonce("", 0, 32)} \cup generated
    \cup [scope : {SafeScope(s) : s \in NonceScopes}, at : {-1} \cup (0..nonceNow), bytes : OtherRandomBytes]

validateExecutionNonce(v, n, s) ==
  /\ validation[v].pc = "idle"
  /\ validation' = [validation EXCEPT ![v] =
       [pc |-> syncChecks(n, s), nonce |-> n,
        late |-> \E w \in NonceValidators : validation[w].nonce = n /\ validation[w].pc = "VALID"]]
  /\ UNCHANGED <<nonceNow, generated, usedNonces>>

\* Mutant: the answer of the store is not looked at.
checkIfUsed_Ignored(v) ==
  /\ validation[v].pc = "checking"
  /\ validation' = [validation EXCEPT ![v].pc = "marking"]
  /\ UNCHANGED <<nonceNow, generated, usedNonces>>

checkIfUsed(v) ==
  /\ validation[v].pc = "checking"
  /\ validation' = [validation EXCEPT ![v].pc =
       IF validation[v].nonce \in usedNonces THEN "ALREADY_USED" ELSE "marking"]
  /\ UNCHANGED <<nonceNow, generated, usedNonces>>

\* Mutant: the nonce is confirmed and not stored.
markAsUsed_Forgets(v) ==
  /\ validation[v].pc = "marking"
  /\ validation' = [validation EXCEPT ![v].pc = "VALID"]
  /\ UNCHANGED <<nonceNow, generated, usedNonces>>

markAsUsed(v) ==
  /\ validation[v].pc = "marking"
  /\ usedNonces' = usedNonces \cup {validation[v].nonce}
  /\ validation' = [validation EXCEPT ![v].pc = "VALID"]
  /\ UNCHANGED <<nonceNow, generated>>

NonceTick ==
  nonceNow < NonceLastTime /\ nonceNow' = nonceNow + 1 /\ UNCHANGED <<generated, usedNonces, validation>>

NonceNext ==
  \/ \E s \in NonceScopes : generateExecutionNonce(s)
  \/ \E v \in NonceValidators, s \in NonceScopes, n \in Presented : validateExecutionNonce(v, n, s)
  \/ \E v \in NonceValidators : checkIfUsed(v) \/ markAsUsed(v)
  \/ NonceTick

NonceSpec == NonceInit /\ [][NonceNext]_nonceVars

-----------------------------------------------------------------------------
(***************************************************************************)
(* A used nonce is refused: a validation that starts after another one of  *)
(* the same nonce was confirmed is never confirmed, however the lookups    *)
(* and the marks of the others interleave (executionConfirmationNonce.ts   *)
(* 224-239).  Two that overlap may both be: see the README.                *)
(***************************************************************************)
NoLateConfirmation == \A v \in NonceValidators : validation[v].late => validation[v].pc # "VALID"

(***************************************************************************)
(* A confirmed nonce is in the store, so that it cannot be confirmed after *)
(* a restart of the process either.                                        *)
(***************************************************************************)
ConfirmedIsStored ==
  usedNonces = {validation[v].nonce : v \in {w \in NonceValidators : validation[w].pc = "VALID"}}

=============================================================================
