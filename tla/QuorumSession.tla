---------------------------- MODULE QuorumSession ----------------------------
(***************************************************************************)
(* class QuorumSessionManager (sessions/QuorumSessionManager.ts): several  *)
(* signers approve or reject a payroll run in a session that expires; once *)
(* the threshold is met, a submission package may be prepared, submitted,  *)
(* and the session marked consumed.                                        *)
(*                                                                         *)
(* Signers act in any order and number.  Submitters follow the protocol of *)
(* the class: prepareSubmissionPackage, then the submission itself, then   *)
(* markConsumed; several of them may be at it at the same time.  Records   *)
(* are kept per address and role ("address:role"), slots per required      *)
(* role.  The payload check of a signature is left out: it refuses the     *)
(* call before anything is recorded.                                       *)
(***************************************************************************)
EXTENDS Integers, Sequences, FiniteSets

CONSTANTS
  Sessions,     \* session ids
  Plans,        \* what createSession may be asked for: requiredRoles, threshold,
                \* assigned (role -> address or None) and ttl
  Addresses,    \* signer addresses
  Nonces,       \* signature nonces
  Submitters,   \* concurrent users of prepareSubmissionPackage
  MaxTime,      \* bound: last instant of the clock
  None          \* no address, no nonce, no session

RolesOf(plan) == {plan.requiredRoles[i] : i \in DOMAIN plan.requiredRoles}
Roles == UNION {RolesOf(plan) : plan \in Plans}

SlotStatuses == {"pending", "signed", "rejected"}
SlotRecords == [address : Addresses \cup {None}, role : Roles, status : SlotStatuses]
SessionRecords ==
  [requiredRoles : Seq(Roles), threshold : Int, expiresAt : Int, isConsumed : BOOLEAN,
   signerSlots : Seq(SlotRecords)]

ASSUME PlansAssumption ==
  \A plan \in Plans :
    /\ plan.requiredRoles \in Seq(Roles)
    /\ plan.threshold \in Int /\ plan.ttl \in Int
    /\ plan.assigned \in [RolesOf(plan) -> Addresses \cup {None}]
ASSUME QuorumNoneAssumption ==
  None \notin Addresses \cup Nonces \cup Sessions /\ None \notin SessionRecords
ASSUME QuorumTimeAssumption == MaxTime \in Nat

VARIABLES
  now,          \* Date.now()
  session,      \* the map: id -> session, or None
  signatures,   \* session.signatures: (id, address, role) -> nonce of the signature, or None
  rejections,   \* session.rejections: the (id, address, role) that rejected
  usedNonces,   \* usedNonces of the manager
  stage,        \* of each submitter: see Stages
  package       \* the submission package a submitter holds

vars == <<now, session, signatures, rejections, usedNonces, stage, package>>
recordVars == <<session, signatures, rejections, usedNonces>>
submitterVars == <<stage, package>>

SlotKeys == Sessions \X Addresses \X Roles
Stages == {"idle", "prepared", "finished"}
NoPackage == [session |-> None, signatures |-> {}]

Init ==
  /\ now = 0
  /\ session = [s \in Sessions |-> None]
  /\ signatures = [k \in SlotKeys |-> None]
  /\ rejections = {}
  /\ usedNonces = {}
  /\ stage = [u \in Submitters |-> "idle"]
  /\ package = [u \in Submitters |-> NoPackage]

-----------------------------------------------------------------------------
Slot(address, role, status) == [address |-> address, role |-> role, status |-> status]

\* Mutant: the threshold is not compared with the number of roles.
createSession_NoThresholdCheck(s, plan) ==
  /\ session[s] = None
  /\ plan.requiredRoles # <<>>
  /\ plan.threshold > 0
  /\ plan.ttl > 0
  /\ session' = [session EXCEPT ![s] =
       [requiredRoles |-> plan.requiredRoles, threshold |-> plan.threshold,
        expiresAt |-> now + plan.ttl, isConsumed |-> FALSE,
        signerSlots |-> [i \in DOMAIN plan.requiredRoles |->
          Slot(plan.assigned[plan.requiredRoles[i]], plan.requiredRoles[i], "pending")]]]
  /\ UNCHANGED <<now, signatures, rejections, usedNonces, submitterVars>>

(***************************************************************************)
(* createSession refuses a threshold outside 1..#roles, an expiry that is  *)
(* not in the future and an id that exists.                                *)
(***************************************************************************)
createSession(s, plan) ==
  /\ session[s] = None
  /\ plan.requiredRoles # <<>>
  /\ plan.threshold > 0 /\ plan.threshold <= Len(plan.requiredRoles)
  /\ plan.ttl > 0
  /\ session' = [session EXCEPT ![s] =
       [requiredRoles |-> plan.requiredRoles, threshold |-> plan.threshold,
        expiresAt |-> now + plan.ttl, isConsumed |-> FALSE,
        signerSlots |-> [i \in DOMAIN plan.requiredRoles |->
          Slot(plan.assigned[plan.requiredRoles[i]], plan.requiredRoles[i], "pending")]]]
  /\ UNCHANGED <<now, signatures, rejections, usedNonces, submitterVars>>

Expired(s) == now > session[s].expiresAt

assertSessionActive(s) == session[s] # None /\ ~session[s].isConsumed /\ ~Expired(s)

(***************************************************************************)
(* The slot of a signature or a rejection is the first one of the role     *)
(* that is free or already of this address; there may be none.             *)
(***************************************************************************)
Matching(s, a, r) ==
  {i \in DOMAIN session[s].signerSlots :
     /\ session[s].signerSlots[i].role = r
     /\ session[s].signerSlots[i].address \in {None, a}}

First(S) == CHOOSE i \in S : \A j \in S : i <= j

FillSlot(s, a, r, status) ==
  session' = IF Matching(s, a, r) = {} THEN session
             ELSE [session EXCEPT ![s].signerSlots[First(Matching(s, a, r))] = Slot(a, r, status)]

\* Mutant: the nonce of a replaced signature is not kept.
applySignature_ForgetsNonce(s, a, r, n, allowReplace) ==
  /\ assertSessionActive(s)
  /\ r \in RolesOf(session[s])
  /\ n \notin usedNonces
  /\ signatures[<<s, a, r>>] = None \/ allowReplace
  /\ <<s, a, r>> \notin rejections
  /\ signatures' = [signatures EXCEPT ![<<s, a, r>>] = n]
  /\ usedNonces' = IF allowReplace THEN usedNonces ELSE usedNonces \cup {n}
  /\ FillSlot(s, a, r, "signed")
  /\ UNCHANGED <<now, rejections, submitterVars>>

(***************************************************************************)
(* addSignature (allowReplace = FALSE) and replaceSignature (TRUE).        *)
(***************************************************************************)
applySignature(s, a, r, n, allowReplace) ==
  /\ assertSessionActive(s)
  /\ r \in RolesOf(session[s])
  /\ n \notin usedNonces
  /\ signatures[<<s, a, r>>] = None \/ allowReplace
  /\ <<s, a, r>> \notin rejections
  /\ signatures' = [signatures EXCEPT ![<<s, a, r>>] = n]
  /\ usedNonces' = usedNonces \cup {n}
  /\ FillSlot(s, a, r, "signed")
  /\ UNCHANGED <<now, rejections, submitterVars>>

\* Mutant: the rejection is recorded, the slot keeps its status.
rejectSession_Quiet(s, a, r) ==
  /\ assertSessionActive(s)
  /\ r \in RolesOf(session[s])
  /\ rejections' = rejections \cup {<<s, a, r>>}
  /\ UNCHANGED <<now, session, signatures, usedNonces, submitterVars>>

(***************************************************************************)
(* rejectSession: a signer may reject after having signed; the signature   *)
(* stays on record and goes on counting.                                   *)
(***************************************************************************)
rejectSession(s, a, r) ==
  /\ assertSessionActive(s)
  /\ r \in RolesOf(session[s])
  /\ rejections' = rejections \cup {<<s, a, r>>}
  /\ FillSlot(s, a, r, "rejected")
  /\ UNCHANGED <<now, signatures, usedNonces, submitterVars>>

-----------------------------------------------------------------------------
Signed(s) == {k \in SlotKeys : k[1] = s /\ signatures[k] # None}

\* Mutant: the threshold is missed by one.
thresholdMet_OffByOne(s) == Cardinality(Signed(s)) >= session[s].threshold - 1

thresholdMet(s) == Cardinality(Signed(s)) >= session[s].threshold

Rejected(s) == {k \in rejections : k[1] = s}

\* Mutant: the threshold is looked at before the rejections.
status_ThresholdFirst(s) ==
  CASE session[s].isConsumed -> "consumed"
    [] ~session[s].isConsumed /\ Expired(s) -> "expired"
    [] ~session[s].isConsumed /\ ~Expired(s) /\ thresholdMet(s) -> "ready"
    [] OTHER -> IF Cardinality(Rejected(s)) > Len(session[s].requiredRoles) - session[s].threshold
                THEN "rejected" ELSE "pending"

(***************************************************************************)
(* The status that getSummary reports: the first of these that applies.    *)
(***************************************************************************)
status(s) ==
  IF session[s].isConsumed THEN "consumed"
  ELSE IF Expired(s) THEN "expired"
  ELSE IF Cardinality(Rejected(s)) > Len(session[s].requiredRoles) - session[s].threshold
       THEN "rejected"
  ELSE IF thresholdMet(s) THEN "ready" ELSE "pending"

\* Mutant: the package is prepared for an expired session as well.
prepareSubmissionPackage_Expired(u, s) ==
  /\ stage[u] = "idle"
  /\ session[s] # None /\ ~session[s].isConsumed
  /\ thresholdMet(s)
  /\ stage' = [stage EXCEPT ![u] = "prepared"]
  /\ package' = [package EXCEPT ![u] = [session |-> s, signatures |-> Signed(s)]]
  /\ UNCHANGED <<now, recordVars>>

prepareSubmissionPackage(u, s) ==
  /\ stage[u] = "idle"
  /\ session[s] # None /\ ~session[s].isConsumed /\ ~Expired(s)
  /\ thresholdMet(s)
  /\ stage' = [stage EXCEPT ![u] = "prepared"]
  /\ package' = [package EXCEPT ![u] = [session |-> s, signatures |-> Signed(s)]]
  /\ UNCHANGED <<now, recordVars>>

(***************************************************************************)
(* The package has been submitted: markConsumed, which throws if the       *)
(* session is consumed or has expired meanwhile.                           *)
(***************************************************************************)
markConsumed(u) ==
  /\ stage[u] = "prepared"
  /\ LET s == package[u].session IN
     session' = IF assertSessionActive(s)
                THEN [session EXCEPT ![s].isConsumed = TRUE] ELSE session
  /\ stage' = [stage EXCEPT ![u] = "finished"]
  /\ UNCHANGED <<now, signatures, rejections, usedNonces, package>>

Tick == now < MaxTime /\ now' = now + 1 /\ UNCHANGED <<recordVars, submitterVars>>

Submits(u) == markConsumed(u) \/ \E s \in Sessions : prepareSubmissionPackage(u, s)

Next ==
  \/ \E s \in Sessions, plan \in Plans : createSession(s, plan)
  \/ \E s \in Sessions, a \in Addresses, r \in Roles :
       \/ \E n \in Nonces, allowReplace \in BOOLEAN : applySignature(s, a, r, n, allowReplace)
       \/ rejectSession(s, a, r)
  \/ \E u \in Submitters : Submits(u)
  \/ Tick

Spec == Init /\ [][Next]_vars

-----------------------------------------------------------------------------
WellFormed(x) ==
  /\ x.threshold \in 1..Len(x.requiredRoles)
  /\ Len(x.signerSlots) = Len(x.requiredRoles)
  /\ \A i \in DOMAIN x.signerSlots : x.signerSlots[i].role = x.requiredRoles[i]

(***************************************************************************)
(* TypeOK: the manager's maps and the submitters.                          *)
(***************************************************************************)
TypeOK ==
  /\ now \in Nat
  /\ session \in [Sessions -> SessionRecords \cup {None}]
  /\ \A s \in Sessions : session[s] # None => WellFormed(session[s])
  /\ signatures \in [SlotKeys -> Nonces \cup {None}]
  /\ rejections \subseteq SlotKeys
  /\ usedNonces \subseteq Nonces
  /\ stage \in [Submitters -> Stages]
  /\ package \in [Submitters ->
       [session : Sessions \cup {None}, signatures : SUBSET SlotKeys]]

(***************************************************************************)
(* "Unique nonce ... to prevent replay": no two signatures on record, of   *)
(* any session and signer, carry the same nonce, and none of them can be   *)
(* used again (usedNonces, across addSignature and replaceSignature).      *)
(***************************************************************************)
NoncesDistinct ==
  \A k, l \in SlotKeys :
    signatures[k] # None =>
      /\ signatures[k] \in usedNonces
      /\ signatures[k] = signatures[l] => k = l

(***************************************************************************)
(* What the slots show is on record: a slot shown as signed belongs to an  *)
(* address that signed and has not rejected, one shown as rejected to an   *)
(* address that rejected (the slot search of applySignature and            *)
(* rejectSession), also for repeated roles and assigned signers.           *)
(***************************************************************************)
SlotsMatchRecords ==
  \A s \in Sessions : session[s] # None =>
    \A i \in DOMAIN session[s].signerSlots :
      LET slot == session[s].signerSlots[i]
          k == <<s, slot.address, slot.role>> IN
      /\ slot.status = "signed" => signatures[k] # None /\ k \notin rejections
      /\ slot.status = "rejected" => k \in rejections

(***************************************************************************)
(* A slot keeps its signer: once an address was assigned to it or has used *)
(* it, no signature or rejection of another address appears there.         *)
(***************************************************************************)
SlotKeepsSigner ==
  [][\A s \in Sessions : session[s] # None =>
       \A i \in DOMAIN session[s].signerSlots :
         session[s].signerSlots[i].address # None =>
           session'[s].signerSlots[i].address = session[s].signerSlots[i].address]_vars

(***************************************************************************)
(* Whatever was submitted or consumed had its quorum: the package holds at *)
(* least threshold signatures, and they are still on record however many   *)
(* rejections and replacements came after it was prepared.                 *)
(***************************************************************************)
SubmittedHadQuorum ==
  \A u \in Submitters : stage[u] # "idle" =>
    /\ Cardinality(package[u].signatures) >= session[package[u].session].threshold
    /\ \A k \in package[u].signatures : k[1] = package[u].session /\ signatures[k] # None

(***************************************************************************)
(* Sessions are sound: every package had its quorum, the slots agree with  *)
(* the records, and no nonce is on record twice.                           *)
(***************************************************************************)
SessionsSound == TypeOK /\ NoncesDistinct /\ SlotsMatchRecords /\ SubmittedHadQuorum

(***************************************************************************)
(* A status shown to the signers is no false alarm: a session once shown   *)
(* as rejected, expired or consumed (getSummary) is never shown as pending *)
(* or ready again, whoever signs, replaces or rejects afterwards.          *)
(***************************************************************************)
NoWayBack ==
  [][\A s \in Sessions :
       session[s] # None /\ status(s) \in {"rejected", "expired", "consumed"} =>
         status(s)' \notin {"pending", "ready"}]_vars

(***************************************************************************)
(* "Mark a session as consumed ... to prevent replay": once a submitter is *)
(* through with a session, no package of that session is prepared again -  *)
(* even if markConsumed threw because the session had expired.             *)
(***************************************************************************)
SettledForGood ==
  [][\A u, v \in Submitters :
       stage[v] = "finished" /\ stage[u] = "idle" /\ stage'[u] = "prepared" =>
         package'[u].session # package[v].session]_vars
=============================================================================
