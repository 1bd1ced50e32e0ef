---------------------------- MODULE Reservations ----------------------------
(***************************************************************************)
(* treasury/TreasuryReservationClient.ts with reservations/helpers.ts and  *)
(* reconciliation/ReservationReconciliationHelper.ts: funds are reserved   *)
(* for a run, then released or finalized.  The contract holds the          *)
(* reservation and the log of its events (external; it does what the       *)
(* comments of the client say of it).  Each caller has a copy of its own,  *)
(* which ages; the reply of a call may be lost after the contract acted.   *)
(***************************************************************************)
EXTENDS Checks, SequencesExt

CONSTANTS
  Callers,            \* processes that hold the reservation id
  ReservedAmounts,    \* amounts reserved
  Ttl,                \* lifetime asked for
  ReserveLastTime,    \* bound: last instant of the clock
  MaxReserveEvents    \* bound: length of the log

ASSUME ReserveAssumption == ReservedAmounts \subseteq Nat /\ Ttl \in Nat

VARIABLES
  reserveNow,         \* the clock
  onChain,            \* the reservation in the contract
  reserveLog,         \* its events
  copies              \* caller -> the reservation as last seen

reserveVars == <<reserveNow, onChain, reserveLog, copies>>

Unknown == -1         \* an absent amount
NoReservation == [status |-> "none", amount |-> 0, expiresAt |-> 0, used |-> Unknown, released |-> Unknown]

Event(type, amount, conflict) == [type |-> type, amount |-> amount, at |-> reserveNow, conflict |-> conflict]

ReserveInit ==
  /\ reserveNow = 0
  /\ onChain = NoReservation
  /\ reserveLog = <<>>
  /\ copies = [c \in Callers |-> NoReservation]

terminalStates == {"finalized", "released", "expired", "cancelled"}
isReservationExpired(r) == reserveNow > r.expiresAt

-----------------------------------------------------------------------------
\* decodeReservation: there is no released amount in what the contract answers.
decodeReservation(r) == [r EXCEPT !.released = Unknown]

\* The caller's copy is what the reply decodes to, or stays if the reply is lost.
Reply(c, reservation) ==
  \/ copies' = [copies EXCEPT ![c] = decodeReservation(reservation)]
  \/ UNCHANGED copies

\* createReserveRequest refuses an amount that is not positive; the client keeps what it asked for.
reserve(c, amount) ==
  /\ onChain.status = "none" /\ amount > 0
  /\ onChain' = [NoReservation EXCEPT !.status = "reserved", !.amount = amount, !.expiresAt = reserveNow + Ttl]
  /\ reserveLog' = Append(reserveLog, Event("reserved", amount, 0))
  /\ Reply(c, onChain')
  /\ UNCHANGED reserveNow

\* Mutant: the amount is not held against the caller's copy.
createPartialReleaseRequest_Unchecked(c, amount) == copies[c].status # "none"

\* createPartialReleaseRequest, and createFullReleaseRequest for the whole amount.
createPartialReleaseRequest(c, amount) == copies[c].status # "none" /\ amount <= copies[c].amount

\* release: the contract records a second release as an attempt that conflicts with the first.
release(c, amount) ==
  /\ createPartialReleaseRequest(c, amount)
  /\ Len(reserveLog) < MaxReserveEvents
  /\ LET first == SelectInSeq(reserveLog, LAMBDA e : e.type = "released") IN
     \/ /\ onChain.status = "reserved"
        /\ onChain' = [onChain EXCEPT !.status = "released", !.released = amount]
        /\ reserveLog' = Append(reserveLog, Event("released", amount, 0))
        /\ Reply(c, onChain')
     \/ /\ onChain.status = "released"
        /\ reserveLog' = Append(reserveLog, Event("duplicate_release_attempt", amount, first))
        /\ UNCHANGED <<onChain, copies>>
  /\ UNCHANGED reserveNow

\* createFinalizeRequest and finalize: not in the reserved state, the contract refuses.
finalize(c, used) ==
  /\ copies[c].status # "none" /\ used <= copies[c].amount
  /\ onChain.status = "reserved"
  /\ Len(reserveLog) < MaxReserveEvents
  /\ onChain' = [onChain EXCEPT !.status = "finalized", !.used = used]
  /\ reserveLog' = Append(reserveLog, Event("finalized", used, 0))
  /\ Reply(c, onChain')
  /\ UNCHANGED reserveNow

\* checkStatus reads; the caller may be told of the reservation by another one.
checkStatus(c) ==
  /\ onChain.status # "none"
  /\ copies' = [copies EXCEPT ![c] = decodeReservation(onChain)]
  /\ UNCHANGED <<reserveNow, onChain, reserveLog>>

\* The contract marks an expired reservation, some time after it expired.
ContractExpires ==
  /\ onChain.status = "reserved" /\ isReservationExpired(onChain)
  /\ Len(reserveLog) < MaxReserveEvents
  /\ onChain' = [onChain EXCEPT !.status = "expired"]
  /\ reserveLog' = Append(reserveLog, Event("expired", onChain.amount, 0))
  /\ UNCHANGED <<reserveNow, copies>>

ReserveTick == reserveNow < ReserveLastTime /\ reserveNow' = reserveNow + 1 /\ UNCHANGED <<onChain, reserveLog, copies>>

ReserveNext ==
  \/ \E c \in Callers :
       \/ \E amount \in ReservedAmounts : reserve(c, amount)
       \/ \E amount \in 0..(Max(ReservedAmounts) + 1) : release(c, amount) \/ finalize(c, amount)
       \/ checkStatus(c)
  \/ ContractExpires
  \/ ReserveTick

ReserveSpec == ReserveInit /\ [][ReserveNext]_reserveVars

-----------------------------------------------------------------------------
\* detectReservationIssues: the kinds of issue in a log.
detectReservationIssues(log) ==
  LET n(types) == Cardinality({i \in DOMAIN log : log[i].type \in types}) IN
  AllOf(<< <<n({"released"}) > 1, "multiple releases">>,
           <<n({"finalized", "released"}) > 1, "finalized and released">>,
           <<\E i, j \in DOMAIN log : i < j /\ log[i].type \in terminalStates /\ log[j].type \notin terminalStates,
             "after terminal">> >>)

(***************************************************************************)
(* buildReservationTimeline: the transitions, in the order of the times    *)
(* (the sort is stable).  Every event is set against the last one before   *)
(* it that is a state; an attempt is none, and has a transition as well.   *)
(***************************************************************************)
buildReservationTimeline(log) ==
  LET states == {i \in DOMAIN log : log[i].type \in {"reserved"} \cup terminalStates}
      before(i, j) == log[i].at < log[j].at \/ (log[i].at = log[j].at /\ i < j)
      transitions ==
        {p \in states \X DOMAIN log :
           /\ before(p[1], p[2]) /\ log[p[1]].type # log[p[2]].type
           /\ \A k \in states : ~(before(p[1], k) /\ before(k, p[2]))}
  IN  {<<log[p[1]].type, log[p[2]].type>> : p \in transitions}

\* Mutant: the amounts are not compared.
classifyDuplicateRelease_AnyAmount(e, log) == IF e.conflict = 0 THEN "harmless_retry" ELSE "duplicate_release_attempt"

\* classifyDuplicateRelease of an event of the log.
classifyDuplicateRelease(e, log) ==
  IF e.conflict = 0 THEN "harmless_retry"
  ELSE IF e.conflict \notin DOMAIN log THEN "error"
  ELSE IF log[e.conflict].amount = e.amount THEN "duplicate_release_attempt" ELSE "harmless_retry"

\* calculateReservationRemaining: an absent amount and 0 are both falsy.
calculateReservationRemaining(r) ==
  IF r.status \in {"released", "finalized"}
  THEN IF r.released > 0 THEN r.released ELSE IF r.used > 0 THEN r.amount - r.used ELSE 0
  ELSE r.amount

isExpiredNotMarked(r) == r.status = "reserved" /\ isReservationExpired(r)

detectDuplicateReleases(log) ==
  {p \in (DOMAIN log) \X (DOMAIN log) :
     p[1] < p[2] /\ log[p[1]].type = "released" /\ log[p[2]].type = "released" /\ log[p[1]].amount = log[p[2]].amount}

\* Mutant: a status that moved on is not held against the expectation.
compareReservationStates_AmountOnly(expected, observed, log) ==
  FirstOf(<< <<detectDuplicateReleases(log) # {}, "duplicate_release">>,
             <<isExpiredNotMarked(observed), "expired_not_marked">>,
             <<expected.amount # observed.amount, "amount_mismatch">> >>, "match")

compareReservationStates(expected, observed, log) ==
  FirstOf(<< <<detectDuplicateReleases(log) # {}, "duplicate_release">>,
             <<isExpiredNotMarked(observed), "expired_not_marked">>,
             <<expected.status # observed.status, "status_mismatch">>,
             <<expected.amount # observed.amount, "amount_mismatch">> >>, "match")

\* reconcileSingleReservation: what a caller expects against the contract.
reconcileSingleReservation(expected, observed, log) ==
  FirstOf(<< <<expected.status = "none" /\ observed.status = "none", "unexpected_on_chain">>,
             <<observed.status = "none", "missing_on_chain">>,
             <<expected.status = "none", "unexpected_on_chain">> >>,
          compareReservationStates(expected, observed, log))

isFullyReconciled ==
  \A c \in Callers : reconcileSingleReservation(copies[c], onChain, reserveLog) = "match"

-----------------------------------------------------------------------------
(***************************************************************************)
(* No funds from nothing: what two callers with copies of different age    *)
(* release and use never exceeds what was reserved, and the client's sum   *)
(* of what remains never exceeds it either (helpers.ts 175-218, 340-353).  *)
(***************************************************************************)
NeverMoreThanReserved ==
  /\ onChain.used <= onChain.amount /\ onChain.released <= onChain.amount
  /\ \A c \in Callers : calculateReservationRemaining(copies[c]) \in 0..copies[c].amount

(***************************************************************************)
(* A caller who is told "match" is not working on an old copy: the status  *)
(* is the contract's, and nothing is due to expire.  When all are, they    *)
(* agree with each other (ReservationReconciliationHelper.ts 58-357).      *)
(***************************************************************************)
MatchMeansCurrent ==
  /\ \A c \in Callers :
       reconcileSingleReservation(copies[c], onChain, reserveLog) = "match" =>
         /\ copies[c] = decodeReservation(onChain)
         /\ onChain.status = "reserved" => ~isReservationExpired(copies[c])
  /\ isFullyReconciled => \A c, d \in Callers : copies[c] = copies[d]

(***************************************************************************)
(* Two callers who release or finalize a reservation, with lost replies    *)
(* and retries, are never charged with several releases nor with a release *)
(* beside a use.  What a retried release does raise is "after terminal",   *)
(* the contract state violation of helpers.ts 310-329: that issue means    *)
(* exactly that somebody retried.  A retry with the same amount is         *)
(* recognised as a duplicate, and the timeline shows a single transition   *)
(* out of "reserved" and only attempts after it (helpers.ts 228-402).      *)
(***************************************************************************)
RetriesRecognised ==
  /\ "finalized and released" \notin detectReservationIssues(reserveLog)
  /\ "multiple releases" \notin detectReservationIssues(reserveLog)
  /\ "after terminal" \in detectReservationIssues(reserveLog)
       <=> \E i \in DOMAIN reserveLog : reserveLog[i].type = "duplicate_release_attempt"
  /\ \A t, u \in buildReservationTimeline(reserveLog) :
       /\ t[1] = "reserved" /\ u[1] = "reserved" => t = u
       /\ t[1] # "reserved" => t = <<"released", "duplicate_release_attempt">>
  /\ \A i \in DOMAIN reserveLog :
       reserveLog[i].type = "duplicate_release_attempt" =>
         (classifyDuplicateRelease(reserveLog[i], reserveLog) = "duplicate_release_attempt"
            <=> reserveLog[i].amount = onChain.released)
=============================================================================
