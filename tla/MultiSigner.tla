----------------------------- MODULE MultiSigner -----------------------------
(***************************************************************************)
(* class MultiSignerCoordinator (authorization/MultiSignerCoordinator.ts): *)
(* an operation is authorized by signers of given roles under a unanimous, *)
(* threshold or weighted policy; with the helpers that judge the records   *)
(* it keeps: approvalExpiry.ts and approvalTimestamps.ts.                  *)
(* An address is "" until addSigner assigns one; an absent timestamp is    *)
(* Undefined.                                                              *)
(***************************************************************************)
EXTENDS Integers, Sequences, FiniteSets, FiniteSetsExt

CONSTANTS
  AuthRequests,    \* request ids
  AuthPolicies,    \* policies: type, threshold, weights, expiryMs; and the signer roles
  AuthAddresses,   \* signer addresses
  AuthNonces,      \* nonces of the payloads
  MaxExpiry,       \* options.maxExpiryMs
  ClockSkew,       \* clockSkewMs of the timestamp check
  AuthLastTime,    \* bound: last instant of the clock
  Undefined        \* undefined

SignerInfo ==
  [address : AuthAddresses \cup {""}, role : STRING,
   state : {"pending", "signed", "rejected", "expired", "revoked"},
   signedAt : Nat \cup {Undefined}, rejectedAt : Nat \cup {Undefined}]

AuthorizationRequest == [policy : AuthPolicies, createdAt : Nat, expiresAt : Nat, signers : Seq(SignerInfo)]

\* The clock began before the first request; an assigned address is not empty; undefined is no time and no request.
\* Weights are not negative, which the coordinator leaves to its caller: a negative one would count against an approval.
ASSUME AuthAssumption ==
  /\ AuthLastTime \in Nat \ {0} /\ MaxExpiry \in Nat /\ ClockSkew \in Nat
  /\ "" \notin AuthAddresses
  /\ Undefined \notin Int /\ Undefined \notin AuthorizationRequest
  /\ \A policy \in AuthPolicies :
       /\ policy.roles \in Seq(STRING) /\ policy.expiryMs \in Nat \cup {Undefined} /\ policy.threshold \in Int
       /\ \A role \in DOMAIN policy.weights : policy.weights[role] \in Nat

VARIABLES
  authNow,         \* Date.now()
  requests,        \* the map: id -> request, or Undefined
  signerHistory    \* (id, address, nonce) of the signatures recorded

authVars == <<authNow, requests, signerHistory>>

AuthInit ==
  /\ authNow = 1
  /\ requests = [r \in AuthRequests |-> Undefined]
  /\ signerHistory = {}

-----------------------------------------------------------------------------
Signer(role) ==
  [address |-> "", role |-> role, state |-> "pending", signedAt |-> Undefined, rejectedAt |-> Undefined]

\* Mutant: the signers are listed from the last role to the first.
createAuthorizationRequest_Reversed(r, policy) ==
  /\ requests[r] = Undefined
  /\ requests' = [requests EXCEPT ![r] =
       [policy |-> policy, createdAt |-> authNow, expiresAt |-> authNow + MaxExpiry,
        signers |-> [i \in DOMAIN policy.roles |-> Signer(policy.roles[Len(policy.roles) + 1 - i])]]]
  /\ UNCHANGED <<authNow, signerHistory>>

createAuthorizationRequest(r, policy) ==
  /\ requests[r] = Undefined
  /\ LET expiry == IF policy.expiryMs = Undefined THEN MaxExpiry ELSE policy.expiryMs IN
     requests' = [requests EXCEPT ![r] =
       [policy |-> policy, createdAt |-> authNow, expiresAt |-> authNow + expiry,
        signers |-> [i \in DOMAIN policy.roles |-> Signer(policy.roles[i])]]]
  /\ UNCHANGED <<authNow, signerHistory>>

\* Array.find: the first signer of the request that has property P.
FindSigner(r, P(_)) ==
  LET S == {i \in DOMAIN requests[r].signers : P(requests[r].signers[i])}
  IN  IF S = {} THEN 0 ELSE Min(S)

addSigner(r, a, role) ==
  /\ requests[r] # Undefined
  /\ LET i == FindSigner(r, LAMBDA s : s.role = role) IN
     /\ i # 0
     /\ requests[r].signers[i].address \in {"", a}
     /\ requests' = [requests EXCEPT ![r].signers[i].address = a]
  /\ UNCHANGED <<authNow, signerHistory>>

\* expiresAt is optional in the type; the coordinator always sets it.
isExpired(r) == requests[r].expiresAt # 0 /\ authNow > requests[r].expiresAt

\* Mutant: a nonce may be used again by the same signer.
recordSignature_Replays(r, a, role, n) ==
  /\ requests[r] # Undefined /\ ~isExpired(r)
  /\ LET i == FindSigner(r, LAMBDA s : s.address = a /\ s.role = role) IN
     /\ i # 0
     /\ requests[r].signers[i].state = "pending"
     /\ requests' = [requests EXCEPT ![r].signers[i] = [@ EXCEPT !.state = "signed", !.signedAt = authNow]]
  /\ signerHistory' = signerHistory \cup {<<r, a, n>>}
  /\ UNCHANGED authNow

\* Mutant: the expiry is not looked at.
recordSignature_Late(r, a, role, n) ==
  /\ requests[r] # Undefined
  /\ LET i == FindSigner(r, LAMBDA s : s.address = a /\ s.role = role) IN
     /\ i # 0
     /\ requests[r].signers[i].state = "pending"
     /\ <<r, a, n>> \notin signerHistory
     /\ requests' = [requests EXCEPT ![r].signers[i] = [@ EXCEPT !.state = "signed", !.signedAt = authNow]]
  /\ signerHistory' = signerHistory \cup {<<r, a, n>>}
  /\ UNCHANGED authNow

recordSignature(r, a, role, n) ==
  /\ requests[r] # Undefined /\ ~isExpired(r)
  /\ LET i == FindSigner(r, LAMBDA s : s.address = a /\ s.role = role) IN
     /\ i # 0
     /\ requests[r].signers[i].state = "pending"
     /\ <<r, a, n>> \notin signerHistory
     /\ requests' = [requests EXCEPT ![r].signers[i] = [@ EXCEPT !.state = "signed", !.signedAt = authNow]]
  /\ signerHistory' = signerHistory \cup {<<r, a, n>>}
  /\ UNCHANGED authNow

(***************************************************************************)
(* recordRejection goes to the first signer with the address, whatever its *)
(* role; if that one is settled the rejection is refused.                  *)
(***************************************************************************)
recordRejection(r, a) ==
  /\ requests[r] # Undefined /\ ~isExpired(r)
  /\ LET i == FindSigner(r, LAMBDA s : s.address = a) IN
     /\ i # 0
     /\ requests[r].signers[i].state = "pending"
     /\ requests' = [requests EXCEPT ![r].signers[i] = [@ EXCEPT !.state = "rejected", !.rejectedAt = authNow]]
  /\ UNCHANGED <<authNow, signerHistory>>

\* revokeSignature looks neither at the expiry nor at the signer's state.
revokeSignature(r, a) ==
  /\ requests[r] # Undefined
  /\ LET i == FindSigner(r, LAMBDA s : s.address = a) IN
     /\ i # 0
     /\ requests' = [requests EXCEPT ![r].signers[i].state = "revoked"]
  /\ UNCHANGED <<authNow, signerHistory>>

AuthTick == authNow < AuthLastTime /\ authNow' = authNow + 1 /\ UNCHANGED <<requests, signerHistory>>

SignerRoles == UNION {{policy.roles[i] : i \in DOMAIN policy.roles} : policy \in AuthPolicies}

AuthNext ==
  \/ \E r \in AuthRequests, policy \in AuthPolicies : createAuthorizationRequest(r, policy)
  \/ \E r \in AuthRequests, a \in AuthAddresses :
       \/ \E role \in SignerRoles : addSigner(r, a, role)
       \/ \E role \in SignerRoles, n \in AuthNonces : recordSignature(r, a, role, n)
       \/ recordRejection(r, a)
       \/ revokeSignature(r, a)
  \/ AuthTick

AuthSpec == AuthInit /\ [][AuthNext]_authVars

-----------------------------------------------------------------------------
InState(r, states) == {i \in DOMAIN requests[r].signers : requests[r].signers[i].state \in states}

\* Mutant: with a threshold, a rejection outweighs a signature.
evaluatePolicy_Outvoted(r) ==
  LET votes == Cardinality(InState(r, {"signed"})) - Cardinality(InState(r, {"rejected"}))
  IN  IF requests[r].policy.type = "threshold" THEN votes >= requests[r].policy.threshold
      ELSE InState(r, {"signed"}) = DOMAIN requests[r].signers

\* The loops of a weighted policy: the weights are added, signer by signer.
addWeights(w) ==
  LET sum[n \in 0..Len(w)] == IF n = 0 THEN 0 ELSE sum[n - 1] + w[n] IN sum[Len(w)]

\* The weights of the signers in S; a role that is not listed has none.
weightsOf(request, S) ==
  [i \in DOMAIN request.signers |->
     LET role == request.signers[i].role IN
     IF i \in S /\ role \in DOMAIN request.policy.weights THEN request.policy.weights[role] ELSE 0]

(***************************************************************************)
(* evaluatePolicy: "unanimous" compares the signatures with the signers    *)
(* who did not reject, so that nobody at all is unanimous.                 *)
(***************************************************************************)
evaluatePolicy(r) ==
  LET signed == InState(r, {"signed"})
      weight(S) == addWeights(weightsOf(requests[r], S))
  IN  CASE requests[r].policy.type = "unanimous" ->
             Cardinality(signed) = Cardinality(DOMAIN requests[r].signers \ InState(r, {"rejected"}))
        [] requests[r].policy.type = "threshold" ->
             requests[r].policy.threshold # 0 /\ Cardinality(signed) >= requests[r].policy.threshold
        [] requests[r].policy.type = "weighted" ->
             2 * weight(signed) >= weight(DOMAIN requests[r].signers)
        [] OTHER -> FALSE

\* getAuthorizationStatus: isApproved, never when expired.
isApproved(r) == evaluatePolicy(r) /\ ~isExpired(r)

isUsableTimestamp(t) == t # Undefined /\ t >= 0

isLate(t, now) == t - now > ClockSkew
isEarly(t, request) == isUsableTimestamp(request.createdAt) /\ t < request.createdAt

\* validateApprovalTimestamps, the timestamps of the request.
requestIssues(request, now) ==
  LET expiry == request.expiresAt IN
  {code \in {"CREATED_AT_INVALID", "CREATED_AT_IN_FUTURE", "EXPIRES_AT_INVALID", "EXPIRES_AT_BEFORE_CREATED_AT"} :
     CASE code = "CREATED_AT_INVALID"   -> ~isUsableTimestamp(request.createdAt)
       [] code = "CREATED_AT_IN_FUTURE" -> isUsableTimestamp(request.createdAt) /\ isLate(request.createdAt, now)
       [] code = "EXPIRES_AT_INVALID"   -> expiry # Undefined /\ ~isUsableTimestamp(expiry)
       [] OTHER                         -> isUsableTimestamp(expiry) /\ isEarly(expiry, request)}

\* Those of a signer.  With strict, the missing timestamp of an outcome, a warning, is an error as well.
signerIssues(s, request, now, strict) ==
  {code \in {"TIMESTAMP_CONFLICT", "SIGNED_AT_INVALID", "SIGNED_AT_BEFORE_CREATED_AT",
             "SIGNED_AT_AFTER_EXPIRY", "SIGNED_AT_IN_FUTURE", "REJECTED_AT_INVALID",
             "REJECTED_AT_BEFORE_CREATED_AT", "REJECTED_AT_IN_FUTURE", "OUTCOME_TIMESTAMP_MISSING"} :
     CASE code = "TIMESTAMP_CONFLICT" -> s.signedAt # Undefined /\ s.rejectedAt # Undefined
       [] code = "SIGNED_AT_INVALID" -> s.signedAt # Undefined /\ ~isUsableTimestamp(s.signedAt)
       [] code = "SIGNED_AT_BEFORE_CREATED_AT" -> isUsableTimestamp(s.signedAt) /\ isEarly(s.signedAt, request)
       [] code = "SIGNED_AT_AFTER_EXPIRY" ->
            isUsableTimestamp(s.signedAt) /\ isUsableTimestamp(request.expiresAt) /\ s.signedAt > request.expiresAt
       [] code = "SIGNED_AT_IN_FUTURE" -> isUsableTimestamp(s.signedAt) /\ isLate(s.signedAt, now)
       [] code = "REJECTED_AT_INVALID" -> s.rejectedAt # Undefined /\ ~isUsableTimestamp(s.rejectedAt)
       [] code = "REJECTED_AT_BEFORE_CREATED_AT" -> isUsableTimestamp(s.rejectedAt) /\ isEarly(s.rejectedAt, request)
       [] code = "REJECTED_AT_IN_FUTURE" -> isUsableTimestamp(s.rejectedAt) /\ isLate(s.rejectedAt, now)
       [] OTHER -> /\ strict
                   /\ s.state \in {"signed", "rejected"}
                   /\ s.signedAt = Undefined /\ s.rejectedAt = Undefined}

\* All the codes found, each with the signer it is about (0: the request).
validateApprovalTimestamps(request, now, strict) ==
  {<<0, code>> : code \in requestIssues(request, now)}
    \cup UNION {{<<i, code>> : code \in signerIssues(request.signers[i], request, now, strict)} : i \in DOMAIN request.signers}

-----------------------------------------------------------------------------
Made == {r \in AuthRequests : requests[r] # Undefined}

(***************************************************************************)
(* AuthTypeOK: the requests and their signers.                             *)
(***************************************************************************)
AuthTypeOK ==
  /\ authNow \in 0..AuthLastTime
  /\ signerHistory \subseteq AuthRequests \X AuthAddresses \X AuthNonces
  /\ \A r \in Made :
       /\ requests[r].policy \in AuthPolicies
       /\ \A i \in DOMAIN requests[r].signers :
            /\ requests[r].signers[i].address \in AuthAddresses \cup {""}
            /\ requests[r].signers[i].role = requests[r].policy.roles[i]
            /\ requests[r].signers[i].state \in {"pending", "signed", "rejected", "revoked"}

(***************************************************************************)
(* The coordinator's own records stand up to the timestamp check of        *)
(* approvalTimestamps.ts, in strict mode, at any time: no signature after  *)
(* the expiry, none both signed and rejected, no outcome without its time. *)
(***************************************************************************)
RecordsStandUp == \A r \in Made : validateApprovalTimestamps(requests[r], authNow, TRUE) = {}

(***************************************************************************)
(* Approval is not lost by signing or rejecting: under every policy, a     *)
(* request that was approved stays so until it expires, unless a signature *)
(* is revoked.                                                             *)
(***************************************************************************)
ApprovalKept ==
  \A r \in Made :
    isApproved(r) /\ ~isApproved(r)' => isExpired(r)' \/ \E a \in AuthAddresses : revokeSignature(r, a)

(***************************************************************************)
(* One nonce, one signature: an address has as many nonces in the history  *)
(* of a request as it has signatures there, in whatever roles.             *)
(***************************************************************************)
OneSignaturePerNonce ==
  \A r \in Made, a \in AuthAddresses :
    Cardinality({n \in AuthNonces : <<r, a, n>> \in signerHistory})
      = Cardinality({i \in DOMAIN requests[r].signers :
                       requests[r].signers[i].address = a /\ requests[r].signers[i].signedAt # Undefined})
=============================================================================
