---------------------------- MODULE RoleTransfer ----------------------------
(***************************************************************************)
(* authorization/roleTransfer.ts: the hand-over of a signer role, and      *)
(* authorization/delegatedApprover.ts with clients/DelegatedApproverClient *)
(* .ts: the temporary delegation of an approval.                           *)
(* The functions of roleTransfer.ts take a record and return a changed     *)
(* copy; nothing holds the current one.  records is the set of all copies  *)
(* made: a caller may apply any operation to any of them.                  *)
(***************************************************************************)
EXTENDS Checks

CONSTANTS
  Holders,            \* addresses; AddressClass says how each is written
  AddressClass(_),    \* "base32", "alnum" (has a 0, 1, 8 or 9) or "bad"
  TransferRoles,      \* role names given to proposeRoleTransfer
  SIGNER_ROLE_GROUPS, \* the ones that exist
  Windows,            \* acceptance windows asked for
  MIN_ACCEPTANCE_WINDOW_MS, MAX_ACCEPTANCE_WINDOW_MS,
  Delegations,        \* requests: original, delegated, workflow, from, until, role
  DELEGATION_AUTHORIZED_ROLES,
  MAX_EFFECTIVE_FROM_PAST_MS, MAX_EFFECTIVE_UNTIL_FUTURE_MS, DEFAULT_MAX_DELEGATION_DURATION_MS,
  DelegationSoon,     \* expiringSoonThresholdMs
  TransferLastTime,   \* bound: last instant of the clock
  MaxTransfers,       \* bound: proposals made
  MaxCopies,          \* bound: copies kept by the callers
  Never               \* an absent timestamp

\* Times and durations are integers; an absent one is none.
ASSUME TransferAssumption ==
  /\ Never \notin Int
  /\ Windows \subseteq Int /\ DEFAULT_MAX_DELEGATION_DURATION_MS \in Int
  /\ \A d \in Delegations : d.from \in Int \cup {Never} /\ d.until \in Int \cup {Never}

VARIABLES
  transferNow,        \* now
  transferIds,        \* _idCounter
  records,            \* every RoleTransferRecord returned
  delegation          \* the assignment in the contract, or Never

transferVars == <<transferNow, transferIds, records, delegation>>

TransferInit ==
  /\ transferNow = 0
  /\ transferIds = 0
  /\ records = {}
  /\ delegation = Never

-----------------------------------------------------------------------------
\* isValidAddress: a letter and 55 characters of base32.
isValidAddress(a) == AddressClass(a) = "base32"

proposalError(role, from, to, window) ==
  FirstOf(<< <<role \notin SIGNER_ROLE_GROUPS, "invalid_role">>,
             <<~isValidAddress(from), "invalid_address">>,
             <<~isValidAddress(to), "invalid_address">>,
             <<from = to, "same_address">>,
             <<window < MIN_ACCEPTANCE_WINDOW_MS \/ window > MAX_ACCEPTANCE_WINDOW_MS, "invalid_window">> >>, "ok")

proposeRoleTransfer(role, from, to, window) ==
  /\ transferIds < MaxTransfers
  /\ proposalError(role, from, to, window) = "ok"
  /\ transferIds' = transferIds + 1
  /\ records' = records \cup
       {[id |-> transferIds + 1, role |-> role, from |-> from, to |-> to, status |-> "pending",
         proposedAt |-> transferNow, expiresAt |-> transferNow + window,
         acceptedAt |-> Never, finalizedAt |-> Never, cancelledAt |-> Never]}
  /\ UNCHANGED <<transferNow, delegation>>

\* A caller applies an operation to a copy and keeps the result beside it.
Returned(record) ==
  /\ Cardinality(records) < MaxCopies
  /\ records' = records \cup {record}
  /\ UNCHANGED <<transferNow, transferIds, delegation>>

\* Mutant: the end of the window is not looked at.
acceptError_Late(record, who) ==
  FirstOf(<< <<record.status = "expired", "expired">>,
             <<record.status # "pending", "not_pending">>,
             <<who # record.to, "not_nominee">> >>, "ok")

acceptError(record, who) ==
  FirstOf(<< <<record.status = "expired" \/ transferNow >= record.expiresAt, "expired">>,
             <<record.status # "pending", "not_pending">>,
             <<who # record.to, "not_nominee">> >>, "ok")

acceptRoleTransfer(record, who) ==
  /\ acceptError(record, who) = "ok"
  /\ Returned([record EXCEPT !.status = "accepted", !.acceptedAt = transferNow])

\* Mutant: a pending transfer may be finalized.
finalizeError_Unaccepted(record, who) ==
  FirstOf(<< <<record.status = "finalized", "already_finalized">>,
             <<record.status \notin {"pending", "accepted"}, "not_accepted">>,
             <<who # record.from, "not_current_holder">> >>, "ok")

\* The window bounds the acceptance only: finalizeRoleTransfer never looks at it.
finalizeError(record, who) ==
  FirstOf(<< <<record.status = "finalized", "already_finalized">>,
             <<record.status # "accepted", "not_accepted">>,
             <<who # record.from, "not_current_holder">> >>, "ok")

finalizeRoleTransfer(record, who) ==
  /\ finalizeError(record, who) = "ok"
  /\ Returned([record EXCEPT !.status = "finalized", !.finalizedAt = transferNow])

cancelError(record, who) ==
  FirstOf(<< <<record.status = "finalized", "already_finalized">>,
             <<record.status = "cancelled", "not_pending">>,
             <<who # record.from, "not_current_holder">> >>, "ok")

cancelRoleTransfer(record, who) ==
  /\ cancelError(record, who) = "ok"
  /\ Returned([record EXCEPT !.status = "cancelled", !.cancelledAt = transferNow])

\* What no operation changes in a copy.
SameTransfer(a, b) ==
  a.role = b.role /\ a.from = b.from /\ a.to = b.to /\ a.proposedAt = b.proposedAt /\ a.expiresAt = b.expiresAt

resolveTransferStatus(record, now) ==
  IF record.status = "pending" /\ now >= record.expiresAt THEN "expired" ELSE record.status

-----------------------------------------------------------------------------
\* isValidStellarAddress, after trimming: any digit or letter, which is wider than base32.
isValidStellarAddress(a) == AddressClass(a) \in {"base32", "alnum"}

\* "" is a field that is missing, " " one that is blank.
delegationError(d, now) ==
  FirstOf(<< <<"" \in {d.original, d.delegated, d.workflow} \/ Never \in {d.from, d.until}, "MISSING_FIELD">>,
             <<~isValidStellarAddress(d.original), "INVALID_ORIGINAL_APPROVER">>,
             <<~isValidStellarAddress(d.delegated), "INVALID_DELEGATED_APPROVER">>,
             <<d.original = d.delegated, "SAME_APPROVER_ADDRESSES">>,
             <<d.workflow = " ", "INVALID_WORKFLOW_ID">>,
             <<d.from >= d.until, "INVALID_DATE_RANGE">>,
             <<now - d.from > MAX_EFFECTIVE_FROM_PAST_MS, "EFFECTIVE_FROM_TOO_OLD">>,
             <<d.until - now > MAX_EFFECTIVE_UNTIL_FUTURE_MS, "EFFECTIVE_UNTIL_TOO_FAR">>,
             <<d.until - d.from > DEFAULT_MAX_DELEGATION_DURATION_MS, "DURATION_EXCEEDS_MAXIMUM">>,
             <<d.role # "" /\ d.role \notin DELEGATION_AUTHORIZED_ROLES, "ORIGINAL_ROLE_CANNOT_DELEGATE">> >>, "ok")

\* The contract keeps the assignment; what it answers is read back by decodeAssignment.
assignDelegatedApprover(d) ==
  /\ delegationError(d, transferNow) = "ok"
  /\ delegation' = d
  /\ UNCHANGED <<transferNow, transferIds, records>>

revokeDelegatedApproverAssignment ==
  /\ delegation # Never
  /\ delegation' = Never
  /\ UNCHANGED <<transferNow, transferIds, records>>

isDelegatedApproverActive(d, now) == d.from <= now /\ d.until > now

\* Mutant: the end of the delegation is one tick too late.
delegationExpiryState_Late(d, now) ==
  FirstOf(<< <<now < d.from, "not_yet_active">>,
             <<now > d.until, "expired">>,
             <<d.until - now <= DelegationSoon, "expiring_soon">> >>, "active")

delegationExpiryState(d, now) ==
  FirstOf(<< <<now < d.from, "not_yet_active">>,
             <<now >= d.until, "expired">>,
             <<d.until - now <= DelegationSoon, "expiring_soon">> >>, "active")

\* formatDelegatedApproverExpiry: the variant a user sees.
delegationVariant(d, now) ==
  LET state == delegationExpiryState(d, now) IN
  CASE state = "active"         -> "success"
    [] state = "expiring_soon"  -> "warning"
    [] state = "expired"        -> "danger"
    [] state = "not_yet_active" -> "info"

TransferTick ==
  /\ transferNow < TransferLastTime
  /\ transferNow' = transferNow + 1
  /\ UNCHANGED <<transferIds, records, delegation>>

TransferNext ==
  \/ \E role \in TransferRoles, from, to \in Holders, w \in Windows : proposeRoleTransfer(role, from, to, w)
  \/ \E record \in records, who \in Holders :
       \/ acceptRoleTransfer(record, who)
       \/ finalizeRoleTransfer(record, who)
       \/ cancelRoleTransfer(record, who)
  \/ \E d \in Delegations : assignDelegatedApprover(d)
  \/ revokeDelegatedApproverAssignment
  \/ TransferTick

TransferSpec == TransferInit /\ [][TransferNext]_transferVars

-----------------------------------------------------------------------------
(***************************************************************************)
(* Whatever copies the callers keep and in whatever order they use them, a *)
(* copy that is finalized is of a transfer between two different           *)
(* addresses that was accepted within its window, comes from an accepted   *)
(* copy that somebody has and changes nothing else of it, and was not      *)
(* cancelled itself; every copy of the same transfer names the same role,  *)
(* holder, nominee and window.  Other copies may end otherwise: whoever    *)
(* still has the accepted copy of a finalized transfer can cancel it       *)
(* (roleTransfer.ts 198-285).                                              *)
(***************************************************************************)
FinalizedWasAccepted ==
  \A record \in records :
    record.status = "finalized" =>
      /\ record.acceptedAt # Never
      /\ record.proposedAt <= record.acceptedAt /\ record.acceptedAt < record.expiresAt
      /\ record.acceptedAt <= record.finalizedAt
      /\ record.from # record.to
      /\ record.cancelledAt = Never
      /\ [record EXCEPT !.status = "accepted", !.finalizedAt = Never] \in records
      /\ \A other \in records : other.id = record.id => SameTransfer(other, record)

(***************************************************************************)
(* A copy that the status helper calls expired can no longer become a      *)
(* transfer: nobody can accept or finalize it, now or later.               *)
(***************************************************************************)
ExpiredIsDead ==
  \A record \in records, who \in Holders :
    resolveTransferStatus(record, transferNow) = "expired" =>
      acceptError(record, who) # "ok" /\ finalizeError(record, who) # "ok"

(***************************************************************************)
(* The two answers about a delegation agree: it is active exactly when the *)
(* user sees success or warning, and a delegation that was accepted is     *)
(* never active for longer than the maximum (delegatedApprover.ts 330-369) *)
(***************************************************************************)
DelegationViewsAgree ==
  delegation # Never =>
    /\ isDelegatedApproverActive(delegation, transferNow)
         <=> delegationVariant(delegation, transferNow) \in {"success", "warning"}
    /\ isDelegatedApproverActive(delegation, transferNow) =>
         delegation.until - transferNow <= DEFAULT_MAX_DELEGATION_DURATION_MS
=============================================================================
