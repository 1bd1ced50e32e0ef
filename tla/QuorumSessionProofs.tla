------------------------- MODULE QuorumSessionProofs -------------------------
(***************************************************************************)
(* What QuorumSessionManager guarantees for any number of sessions,        *)
(* signers, roles, nonces and submitters, and for every plan.              *)
(***************************************************************************)
EXTENDS QuorumSession, TLAPS, FiniteSetTheorems, WellFoundedInduction

(***************************************************************************)
(* A submitter holds a package of an existing session, and once it is      *)
(* through, that session is consumed or has expired.                       *)
(***************************************************************************)
SubmitterMeaning ==
  \A u \in Submitters : stage[u] # "idle" =>
    /\ package[u].session \in Sessions
    /\ session[package[u].session] # None
    /\ stage[u] = "finished" =>
         session[package[u].session].isConsumed \/ Expired(package[u].session)

(***************************************************************************)
(* A used slot has its signer, and no earlier slot of its role would have  *)
(* done for that signer: the signer is found in this slot ever after.      *)
(***************************************************************************)
UsedSlots ==
  \A s \in Sessions : session[s] # None =>
    \A i \in DOMAIN session[s].signerSlots :
      session[s].signerSlots[i].status # "pending" =>
        /\ session[s].signerSlots[i].address # None
        /\ \A j \in DOMAIN session[s].signerSlots :
             j < i /\ session[s].signerSlots[j].role = session[s].signerSlots[i].role =>
               session[s].signerSlots[j].address \notin {None, session[s].signerSlots[i].address}

-----------------------------------------------------------------------------
(***************************************************************************)
(* The search of a slot finds the first one, if there is any.              *)
(***************************************************************************)
LEMMA FirstLemma ==
  ASSUME NEW S \in SUBSET Nat, S # {}
  PROVE  First(S) \in S /\ \A j \in S : First(S) <= j
  <1>1. \E i \in S : \A j \in S : ~(<<j, i>> \in OpToRel(<, Nat))
    BY WFMin, NatLessThanWellFounded
  <1>2. \E i \in S : \A j \in S : ~(<<j, i>> \in {ss \in Nat \X Nat : ss[1] < ss[2]})
    BY <1>1, Zenon DEF OpToRel
  <1>3. PICK i \in S : \A j \in S : ~(<<j, i>> \in {ss \in Nat \X Nat : ss[1] < ss[2]})
    BY <1>2
  <1>4. ASSUME NEW j \in S PROVE i <= j
    <2>1. i \in Nat /\ j \in Nat /\ <<j, i>> \in Nat \X Nat
      OBVIOUS
    <2>2. ~(j < i)
      BY <1>3, <2>1
    <2>3. QED
      BY <2>1, <2>2
  <1>5. QED
    BY <1>4 DEF First

(***************************************************************************)
(* createSession enters a well-formed session.                             *)
(***************************************************************************)
LEMMA CreateLemma ==
  ASSUME TypeOK, NEW s \in Sessions, NEW plan \in Plans, createSession(s, plan)
  PROVE  /\ session[s] = None
         /\ session' \in [Sessions -> SessionRecords \cup {None}]
         /\ session'[s] # None
         /\ WellFormed(session'[s])
         /\ \A i \in DOMAIN session'[s].signerSlots : session'[s].signerSlots[i].status = "pending"
         /\ \A x \in Sessions : x # s => session'[x] = session[x]
  <1> DEFINE R == plan.requiredRoles
             slots == [i \in DOMAIN R |-> Slot(plan.assigned[R[i]], R[i], "pending")]
             new == [requiredRoles |-> R, threshold |-> plan.threshold,
                     expiresAt |-> now + plan.ttl, isConsumed |-> FALSE, signerSlots |-> slots]
  <1>1. /\ R \in Seq(Roles) /\ Len(R) \in Nat /\ DOMAIN R = 1..Len(R)
        /\ plan.threshold \in Int /\ plan.ttl \in Int
        /\ \A i \in DOMAIN R : R[i] \in Roles /\ R[i] \in RolesOf(plan)
    <2>1. R \in Seq(Roles) /\ plan.threshold \in Int /\ plan.ttl \in Int
      BY PlansAssumption
    <2>2. \A i \in DOMAIN R : R[i] \in RolesOf(plan)
      BY DEF RolesOf
    <2> HIDE DEF R
    <2>3. Len(R) \in Nat /\ DOMAIN R = 1..Len(R) /\ \A i \in DOMAIN R : R[i] \in Roles
      BY <2>1
    <2>4. QED
      BY <2>1, <2>2, <2>3
  <1>2. \A i \in DOMAIN R : slots[i] \in SlotRecords /\ slots[i].role = R[i] /\ slots[i].status = "pending"
    BY <1>1, PlansAssumption DEF Slot, SlotRecords, SlotStatuses
  <1>3. slots \in Seq(SlotRecords) /\ Len(slots) = Len(R) /\ DOMAIN slots = DOMAIN R
    <2>1. slots \in [1..Len(R) -> SlotRecords]
      BY <1>1, <1>2
    <2>2. QED
      BY <1>1, <2>1
  <1>4. new \in SessionRecords
    BY <1>1, <1>3 DEF SessionRecords, TypeOK
  <1>5. new # None
    BY <1>4, QuorumNoneAssumption
  <1>6. WellFormed(new)
    <2>1. plan.threshold > 0 /\ plan.threshold <= Len(R)
      BY DEF createSession
    <2>2. new.threshold = plan.threshold /\ new.requiredRoles = R /\ new.signerSlots = slots
      OBVIOUS
    <2> HIDE DEF new, slots, R
    <2>3. new.threshold \in 1..Len(new.requiredRoles)
      BY <1>1, <2>1, <2>2
    <2>4. QED
      BY <1>2, <1>3, <2>2, <2>3 DEF WellFormed
  <1>7. session' = [session EXCEPT ![s] = new]
    BY DEF createSession
  <1>8. session'[s] = new
    BY <1>7 DEF TypeOK
  <1>9. \A i \in DOMAIN session'[s].signerSlots : session'[s].signerSlots[i].status = "pending"
    <2>1. new.signerSlots = slots
      OBVIOUS
    <2> HIDE DEF new, slots, R
    <2>2. QED
      BY <1>8, <1>2, <1>3, <2>1
  <1> HIDE DEF new, slots, R
  <1>10. QED
    BY <1>4, <1>5, <1>6, <1>7, <1>8, <1>9 DEF createSession, TypeOK

(***************************************************************************)
(* Filling a slot changes one slot of one session, one that matched.       *)
(***************************************************************************)
Kept(x, y) ==
  /\ y.requiredRoles = x.requiredRoles /\ y.threshold = x.threshold
  /\ y.expiresAt = x.expiresAt /\ y.isConsumed = x.isConsumed
  /\ DOMAIN y.signerSlots = DOMAIN x.signerSlots

\* Filling a slot keeps the session typed and the other sessions as they are.
LEMMA FillLemma ==
  ASSUME TypeOK, NEW s \in Sessions, session[s] # None, NEW a \in Addresses, NEW r \in Roles,
         NEW st \in SlotStatuses, FillSlot(s, a, r, st)
  PROVE  /\ session' \in [Sessions -> SessionRecords \cup {None}]
         /\ session'[s] # None
         /\ WellFormed(session'[s])
         /\ Kept(session[s], session'[s])
         /\ \A x \in Sessions : x # s => session'[x] = session[x]
         /\ \A i \in DOMAIN session[s].signerSlots :
              session'[s].signerSlots[i] =
                IF i \in Matching(s, a, r) /\ \A j \in Matching(s, a, r) : i <= j
                THEN Slot(a, r, st) ELSE session[s].signerSlots[i]
  <1> DEFINE x == session[s]
             M == Matching(s, a, r)
             slots == x.signerSlots
             f == First(M)
  <1>1. /\ x \in SessionRecords /\ WellFormed(x)
        /\ slots \in Seq(SlotRecords) /\ Len(slots) \in Nat /\ DOMAIN slots = 1..Len(slots)
    BY DEF TypeOK, SessionRecords
  <1>2. M \in SUBSET (DOMAIN slots) /\ M \in SUBSET Nat
    BY <1>1 DEF Matching
  <1>3. CASE M = {}
    <2>1. session' = session
      BY <1>3 DEF FillSlot
    <2>2. QED
      BY <1>1, <1>3, <2>1 DEF TypeOK, Kept
  <1>4. CASE M # {}
    <2>1. f \in M /\ f \in DOMAIN slots /\ \A j \in M : f <= j
      <3>1. First(M) \in M /\ \A j \in M : First(M) <= j
        BY <1>2, <1>4, FirstLemma
      <3>2. QED
        BY <3>1, <1>2
    <2>2. \A i \in DOMAIN slots : i = f <=> (i \in M /\ \A j \in M : i <= j)
      <3> HIDE DEF f, M
      <3> TAKE i \in DOMAIN slots
      <3>1. CASE i = f
        BY <2>1, <3>1
      <3>2. ASSUME i \in M, \A j \in M : i <= j PROVE i = f
        <4>1. i \in Nat /\ f \in Nat /\ i <= f /\ f <= i
          BY <1>2, <2>1, <3>2
        <4>2. QED
          BY <4>1
      <3>3. QED
        BY <3>1, <3>2
    <2> DEFINE newSlots == [slots EXCEPT ![f] = Slot(a, r, st)]
               y == [x EXCEPT !.signerSlots = newSlots]
    <2>3. session' = [session EXCEPT ![s] = y]
      BY <1>4 DEF FillSlot
    <2>4. session'[s] = y /\ \A z \in Sessions : z # s => session'[z] = session[z]
      BY <2>3 DEF TypeOK
    <2>5. Slot(a, r, st) \in SlotRecords
      BY DEF Slot, SlotRecords
    <2>6. newSlots \in Seq(SlotRecords) /\ Len(newSlots) = Len(slots) /\ DOMAIN newSlots = DOMAIN slots
      <3> HIDE DEF f
      <3>1. newSlots \in [1..Len(slots) -> SlotRecords]
        BY <1>1, <2>1, <2>5
      <3>2. QED
        BY <1>1, <3>1
    <2>7. y \in SessionRecords
      BY <1>1, <2>6 DEF SessionRecords
    <2>8. y.signerSlots = newSlots /\ y.requiredRoles = x.requiredRoles /\ y.threshold = x.threshold
          /\ y.expiresAt = x.expiresAt /\ y.isConsumed = x.isConsumed
      <3> HIDE DEF newSlots
      <3>1. QED
        BY <1>1 DEF SessionRecords
    <2>9. slots[f].role = r
      BY <2>1 DEF Matching
    <2>10. \A i \in DOMAIN slots : newSlots[i] = IF i = f THEN Slot(a, r, st) ELSE slots[i]
      <3> HIDE DEF f
      <3>1. QED
        BY <1>1, <2>1
    <2>11. WellFormed(y)
      <3>1. \A i \in DOMAIN newSlots : newSlots[i].role = y.requiredRoles[i]
        <4> HIDE DEF f, newSlots, y
        <4>1. QED
          BY <1>1, <2>6, <2>8, <2>9, <2>10 DEF WellFormed, Slot
      <3> HIDE DEF f, newSlots, y
      <3>2. QED
        BY <1>1, <2>6, <2>8, <3>1 DEF WellFormed
    <2>12. y # None
      BY <2>7, QuorumNoneAssumption
    <2>13. session' \in [Sessions -> SessionRecords \cup {None}]
      <3> HIDE DEF y
      <3>1. QED
        BY <2>3, <2>7 DEF TypeOK
    <2>14. \A i \in DOMAIN slots : session'[s].signerSlots[i] =
             IF i \in M /\ \A j \in M : i <= j THEN Slot(a, r, st) ELSE slots[i]
      <3> HIDE DEF f, newSlots, y, M
      <3>1. QED
        BY <2>2, <2>4, <2>8, <2>10
    <2>15. Kept(x, session'[s])
      <3> HIDE DEF f, newSlots, y, M
      <3>1. QED
        BY <2>4, <2>6, <2>8 DEF Kept
    <2> HIDE DEF f, newSlots, y
    <2>16. QED
      BY <2>4, <2>11, <2>12, <2>13, <2>14, <2>15
  <1>5. QED
    BY <1>3, <1>4

(***************************************************************************)
(* A step leaves a session alone, enters it, fills one of its slots or     *)
(* marks it consumed; nothing else changes and none is removed.            *)
(***************************************************************************)
LEMMA SessionStep ==
  ASSUME TypeOK, [Next]_vars
  PROVE  /\ session' \in [Sessions -> SessionRecords \cup {None}]
         /\ \A s \in Sessions : session'[s] # None => WellFormed(session'[s])
         /\ \A s \in Sessions : session[s] # None =>
              /\ session'[s] # None
              /\ session'[s].threshold = session[s].threshold
              /\ session'[s].requiredRoles = session[s].requiredRoles
              /\ session'[s].expiresAt = session[s].expiresAt
              /\ session[s].isConsumed => session'[s].isConsumed
              /\ DOMAIN session'[s].signerSlots = DOMAIN session[s].signerSlots
              /\ \A i \in DOMAIN session[s].signerSlots :
                   session[s].signerSlots[i].address # None =>
                     session'[s].signerSlots[i].address = session[s].signerSlots[i].address
  <1> DEFINE Goal ==
         /\ session' \in [Sessions -> SessionRecords \cup {None}]
         /\ \A s \in Sessions : session'[s] # None => WellFormed(session'[s])
         /\ \A s \in Sessions : session[s] # None =>
              /\ session'[s] # None
              /\ session'[s].threshold = session[s].threshold
              /\ session'[s].requiredRoles = session[s].requiredRoles
              /\ session'[s].expiresAt = session[s].expiresAt
              /\ session[s].isConsumed => session'[s].isConsumed
              /\ DOMAIN session'[s].signerSlots = DOMAIN session[s].signerSlots
              /\ \A i \in DOMAIN session[s].signerSlots :
                   session[s].signerSlots[i].address # None =>
                     session'[s].signerSlots[i].address = session[s].signerSlots[i].address
  <1> SUFFICES Goal
    OBVIOUS
  <1>1. ASSUME session' = session PROVE Goal
    BY <1>1 DEF TypeOK
  <1>2. ASSUME NEW s \in Sessions, NEW plan \in Plans, createSession(s, plan) PROVE Goal
    BY <1>2, CreateLemma DEF TypeOK
  <1>3. ASSUME NEW s \in Sessions, NEW a \in Addresses, NEW r \in Roles, NEW st \in SlotStatuses,
               session[s] # None, FillSlot(s, a, r, st)
        PROVE  Goal
    <2>1. \A i \in DOMAIN session[s].signerSlots :
            session[s].signerSlots[i].address # None =>
              session'[s].signerSlots[i].address = session[s].signerSlots[i].address
      <3> TAKE i \in DOMAIN session[s].signerSlots
      <3>1. CASE i \in Matching(s, a, r)
        <4>1. session[s].signerSlots[i].address \in {None, a}
          BY <3>1 DEF Matching
        <4>2. session'[s].signerSlots[i] \in {Slot(a, r, st), session[s].signerSlots[i]}
          BY <1>3, FillLemma
        <4>3. Slot(a, r, st).address = a
          BY DEF Slot
        <4>4. QED
          BY <4>1, <4>2, <4>3
      <3>2. CASE i \notin Matching(s, a, r)
        BY <1>3, <3>2, FillLemma
      <3>3. QED
        BY <3>1, <3>2
    <2>2. /\ session' \in [Sessions -> SessionRecords \cup {None}]
          /\ session'[s] # None /\ WellFormed(session'[s]) /\ Kept(session[s], session'[s])
          /\ \A x \in Sessions : x # s => session'[x] = session[x]
      BY <1>3, FillLemma
    <2>3. QED
      BY <2>1, <2>2 DEF TypeOK, Kept
  <1>4. ASSUME NEW u \in Submitters, markConsumed(u) PROVE Goal
    <2> DEFINE s == package[u].session
               y == [session[s] EXCEPT !.isConsumed = TRUE]
    <2>1. CASE ~assertSessionActive(s)
      BY <1>1, <1>4, <2>1 DEF markConsumed
    <2>2. CASE assertSessionActive(s)
      <3>1. session[s] # None /\ session' = [session EXCEPT ![s] = y]
        BY <1>4, <2>2 DEF markConsumed, assertSessionActive
      <3>2. CASE s \in Sessions
        <4>1. session[s] \in SessionRecords /\ WellFormed(session[s])
          BY <3>1, <3>2 DEF TypeOK
        <4>2. y \in SessionRecords /\ y.isConsumed = TRUE /\ y.threshold = session[s].threshold
              /\ y.requiredRoles = session[s].requiredRoles /\ y.expiresAt = session[s].expiresAt
              /\ y.signerSlots = session[s].signerSlots
          BY <4>1 DEF SessionRecords
        <4>3. WellFormed(y)
          <5> HIDE DEF y, s
          <5>1. QED
            BY <4>1, <4>2 DEF WellFormed
        <4>4. y # None
          BY <4>2, QuorumNoneAssumption
        <4>5. session'[s] = y /\ \A x \in Sessions : x # s => session'[x] = session[x]
          BY <3>1, <3>2 DEF TypeOK
        <4>6. session' \in [Sessions -> SessionRecords \cup {None}]
          <5> HIDE DEF y, s
          <5>1. QED
            BY <3>1, <4>2 DEF TypeOK
        <4> HIDE DEF y, s
        <4>7. QED
          BY <4>2, <4>3, <4>4, <4>5, <4>6 DEF TypeOK
      <3>3. CASE s \notin Sessions
        <4> HIDE DEF s
        <4>1. session' = session
          BY <3>1, <3>3 DEF TypeOK
        <4>2. QED
          BY <4>1, <1>1
      <3>4. QED
        BY <3>2, <3>3
    <2>3. QED
      BY <2>1, <2>2
  <1> HIDE DEF Goal
  <1>5. CASE \E s \in Sessions, a \in Addresses, r \in Roles, n \in Nonces, allowReplace \in BOOLEAN :
               applySignature(s, a, r, n, allowReplace)
    BY <1>5, <1>3 DEF applySignature, assertSessionActive, SlotStatuses
  <1>6. CASE \E s \in Sessions, a \in Addresses, r \in Roles : rejectSession(s, a, r)
    BY <1>6, <1>3 DEF rejectSession, assertSessionActive, SlotStatuses
  <1>7. CASE \E u \in Submitters, s \in Sessions : prepareSubmissionPackage(u, s)
    BY <1>7, <1>1 DEF prepareSubmissionPackage, recordVars
  <1>8. CASE Tick \/ UNCHANGED vars
    BY <1>8, <1>1 DEF Tick, vars, recordVars
  <1>9. QED
    BY <1>2, <1>4, <1>5, <1>6, <1>7, <1>8 DEF Next, Submits

(***************************************************************************)
(* The other maps keep their types, and a recorded signature stays one.    *)
(***************************************************************************)
LEMMA TypeStep ==
  ASSUME TypeOK, [Next]_vars
  PROVE  TypeOK'
  <1> DEFINE Rest ==
         /\ now' \in Nat
         /\ signatures' \in [SlotKeys -> Nonces \cup {None}]
         /\ rejections' \subseteq SlotKeys
         /\ usedNonces' \subseteq Nonces
         /\ stage' \in [Submitters -> Stages]
         /\ package' \in [Submitters -> [session : Sessions \cup {None}, signatures : SUBSET SlotKeys]]
  <1> SUFFICES Rest
    BY SessionStep DEF TypeOK
  <1>1. ASSUME NEW s \in Sessions, NEW plan \in Plans, createSession(s, plan) PROVE Rest
    BY <1>1 DEF createSession, submitterVars, TypeOK
  <1>2. ASSUME NEW s \in Sessions, NEW a \in Addresses, NEW r \in Roles, NEW n \in Nonces,
               NEW b \in BOOLEAN, applySignature(s, a, r, n, b) PROVE Rest
    BY <1>2 DEF applySignature, submitterVars, TypeOK
  <1>3. ASSUME NEW s \in Sessions, NEW a \in Addresses, NEW r \in Roles, rejectSession(s, a, r) PROVE Rest
    BY <1>3 DEF rejectSession, submitterVars, TypeOK, SlotKeys
  <1>4. ASSUME NEW u \in Submitters, NEW s \in Sessions, prepareSubmissionPackage(u, s) PROVE Rest
    BY <1>4 DEF prepareSubmissionPackage, recordVars, TypeOK, Stages, Signed
  <1>5. ASSUME NEW u \in Submitters, markConsumed(u) PROVE Rest
    BY <1>5 DEF markConsumed, TypeOK, Stages
  <1>6. CASE Tick
    BY <1>6 DEF Tick, recordVars, submitterVars, TypeOK
  <1>7. CASE UNCHANGED vars
    BY <1>7 DEF vars, TypeOK
  <1> HIDE DEF Rest
  <1>8. QED
    BY <1>1, <1>2, <1>3, <1>4, <1>5, <1>6, <1>7 DEF Next, Submits

(***************************************************************************)
(* Types: the manager's maps (sessions/QuorumSessionManager.ts) keep their *)
(* types, and every session has a threshold between 1 and its number of    *)
(* roles and one slot per role, whatever createSession is asked for.       *)
(***************************************************************************)
THEOREM QuorumTypeCorrect == Spec => []TypeOK
  <1>1. Init => TypeOK
    BY DEF Init, TypeOK, NoPackage, Stages
  <1>2. QED
    BY <1>1, TypeStep, PTL DEF Spec

(***************************************************************************)
(* A recorded signature changes only by a new nonce, and never goes away.  *)
(***************************************************************************)
LEMMA SignatureStep ==
  ASSUME TypeOK, [Next]_vars
  PROVE  \/ signatures' = signatures /\ usedNonces' = usedNonces
         \/ \E k \in SlotKeys, n \in Nonces :
              /\ n \notin usedNonces
              /\ usedNonces' = usedNonces \cup {n}
              /\ signatures' = [signatures EXCEPT ![k] = n]
  <1>1. ASSUME NEW s \in Sessions, NEW a \in Addresses, NEW r \in Roles, NEW n \in Nonces,
               NEW b \in BOOLEAN, applySignature(s, a, r, n, b)
        PROVE  \E k \in SlotKeys, m \in Nonces :
                 /\ m \notin usedNonces
                 /\ usedNonces' = usedNonces \cup {m}
                 /\ signatures' = [signatures EXCEPT ![k] = m]
    <2>1. <<s, a, r>> \in SlotKeys
      BY DEF SlotKeys
    <2>2. QED
      BY <1>1, <2>1 DEF applySignature
  <1>2. ASSUME NEW s \in Sessions, NEW plan \in Plans, createSession(s, plan)
        PROVE  signatures' = signatures /\ usedNonces' = usedNonces
    BY <1>2 DEF createSession
  <1>3. ASSUME NEW s \in Sessions, NEW a \in Addresses, NEW r \in Roles, rejectSession(s, a, r)
        PROVE  signatures' = signatures /\ usedNonces' = usedNonces
    BY <1>3 DEF rejectSession
  <1>4. ASSUME NEW u \in Submitters, Submits(u)
        PROVE  signatures' = signatures /\ usedNonces' = usedNonces
    BY <1>4 DEF Submits, markConsumed, prepareSubmissionPackage, recordVars
  <1>5. ASSUME Tick \/ UNCHANGED vars PROVE signatures' = signatures /\ usedNonces' = usedNonces
    BY <1>5 DEF Tick, recordVars, vars
  <1>6. QED
    BY <1>1, <1>2, <1>3, <1>4, <1>5 DEF Next

(***************************************************************************)
(* No replay: no two signatures on record carry the same nonce, and no     *)
(* recorded nonce can be used again, across sessions, addSignature and     *)
(* replaceSignature.                                                       *)
(***************************************************************************)
THEOREM QuorumNoncesDistinct == Spec => []NoncesDistinct
  <1>1. Init => NoncesDistinct
    BY DEF Init, NoncesDistinct
  <1>2. TypeOK /\ NoncesDistinct /\ [Next]_vars => NoncesDistinct'
    <2> SUFFICES ASSUME TypeOK, NoncesDistinct, [Next]_vars PROVE NoncesDistinct'
      OBVIOUS
    <2>1. CASE signatures' = signatures /\ usedNonces' = usedNonces
      BY <2>1 DEF NoncesDistinct
    <2>2. ASSUME NEW k \in SlotKeys, NEW n \in Nonces, n \notin usedNonces,
                 usedNonces' = usedNonces \cup {n}, signatures' = [signatures EXCEPT ![k] = n]
          PROVE  NoncesDistinct'
      <3>1. \A l \in SlotKeys : signatures'[l] = IF l = k THEN n ELSE signatures[l]
        BY <2>2 DEF TypeOK
      <3>2. n # None
        BY QuorumNoneAssumption
      <3>3. QED
        BY <2>2, <3>1, <3>2 DEF NoncesDistinct
    <2>3. QED
      BY <2>1, <2>2, SignatureStep
  <1>3. QED
    BY <1>1, <1>2, QuorumTypeCorrect, PTL DEF Spec

(***************************************************************************)
(* What a step may do to a submitter and its package.                      *)
(***************************************************************************)
LEMMA SubmitterStep ==
  ASSUME TypeOK, [Next]_vars, NEW v \in Submitters
  PROVE  \/ stage'[v] = stage[v] /\ package'[v] = package[v]
         \/ prepareSubmissionPackage(v, package'[v].session) /\ package'[v].session \in Sessions
         \/ markConsumed(v)
  <1>1. ASSUME NEW u \in Submitters, NEW s \in Sessions, prepareSubmissionPackage(u, s)
        PROVE  \/ stage'[v] = stage[v] /\ package'[v] = package[v]
               \/ prepareSubmissionPackage(v, package'[v].session) /\ package'[v].session \in Sessions
    <2>1. CASE u = v
      <3>1. package'[v].session = s
        BY <1>1, <2>1 DEF prepareSubmissionPackage, TypeOK
      <3>2. QED
        BY <1>1, <2>1, <3>1
    <2>2. CASE u # v
      BY <1>1, <2>2 DEF prepareSubmissionPackage, TypeOK
    <2>3. QED
      BY <2>1, <2>2
  <1>2. ASSUME NEW u \in Submitters, markConsumed(u), u # v
        PROVE  stage'[v] = stage[v] /\ package'[v] = package[v]
    BY <1>2 DEF markConsumed, TypeOK
  <1>3. ASSUME \/ \E s \in Sessions, plan \in Plans : createSession(s, plan)
               \/ \E s \in Sessions, a \in Addresses, r \in Roles :
                    \/ \E n \in Nonces, b \in BOOLEAN : applySignature(s, a, r, n, b)
                    \/ rejectSession(s, a, r)
               \/ Tick
               \/ UNCHANGED vars
        PROVE  stage'[v] = stage[v] /\ package'[v] = package[v]
    BY <1>3, ZenonT(60) DEF createSession, applySignature, rejectSession, Tick, vars, submitterVars
  <1>4. QED
    BY <1>1, <1>2, <1>3 DEF Next, Submits

(***************************************************************************)
(* Time only advances.                                                     *)
(***************************************************************************)
LEMMA ClockStep ==
  ASSUME TypeOK, [Next]_vars
  PROVE  now' \in Nat /\ now' >= now
  <1>1. now' = now \/ now' = now + 1
    BY ZenonT(60) DEF Next, createSession, applySignature, rejectSession, Submits, markConsumed,
           prepareSubmissionPackage, Tick, vars
  <1>2. QED
    BY <1>1 DEF TypeOK

(***************************************************************************)
(* Consumed and expired sessions stay so.                                  *)
(***************************************************************************)
LEMMA SettledStays ==
  ASSUME TypeOK, [Next]_vars, NEW s \in Sessions, session[s] # None
  PROVE  /\ session'[s] # None
         /\ session[s].isConsumed \/ Expired(s) => session'[s].isConsumed \/ Expired(s)'
  <1>1. session[s].expiresAt \in Int /\ now \in Int
    BY DEF TypeOK, SessionRecords
  <1>2. session'[s].expiresAt = session[s].expiresAt
    BY SessionStep
  <1>3. Expired(s) => Expired(s)'
    BY <1>1, <1>2, ClockStep DEF Expired
  <1>4. QED
    BY <1>3, SessionStep

(***************************************************************************)
(* SubmitterMeaning is an invariant.                                       *)
(***************************************************************************)
LEMMA SubmitterInvariant == Spec => []SubmitterMeaning
  <1>1. Init => SubmitterMeaning
    BY DEF Init, SubmitterMeaning
  <1>2. TypeOK /\ SubmitterMeaning /\ [Next]_vars => SubmitterMeaning'
    <2> SUFFICES ASSUME TypeOK, SubmitterMeaning, [Next]_vars, NEW u \in Submitters, stage'[u] # "idle"
                 PROVE  /\ package'[u].session \in Sessions
                        /\ session'[package'[u].session] # None
                        /\ stage'[u] = "finished" =>
                             session'[package'[u].session].isConsumed \/ Expired(package[u].session)'
      BY DEF SubmitterMeaning
    <2>1. CASE stage'[u] = stage[u] /\ package'[u] = package[u]
      BY <2>1, SettledStays DEF SubmitterMeaning, Expired
    <2>2. CASE prepareSubmissionPackage(u, package'[u].session) /\ package'[u].session \in Sessions
      <3>1. stage'[u] = "prepared" /\ session'[package'[u].session] # None
        BY <2>2 DEF prepareSubmissionPackage, TypeOK, recordVars
      <3>2. QED
        BY <2>2, <3>1
    <2>3. CASE markConsumed(u)
      <3> DEFINE s == package[u].session
      <3>1. package'[u] = package[u] /\ stage[u] = "prepared" /\ stage'[u] = "finished" /\ now' = now
        BY <2>3 DEF markConsumed, TypeOK
      <3>2. s \in Sessions /\ session[s] # None /\ session[s] \in SessionRecords
        BY <3>1 DEF SubmitterMeaning, TypeOK
      <3>3. session'[s] # None
        BY <3>2, SettledStays
      <3>4. CASE assertSessionActive(s)
        <4>1. session' = [session EXCEPT ![s].isConsumed = TRUE]
          BY <2>3, <3>4 DEF markConsumed
        <4>2. session'[s].isConsumed
          <5> HIDE DEF s
          <5>1. session'[s] = [session[s] EXCEPT !.isConsumed = TRUE]
            BY <4>1, <3>2 DEF TypeOK
          <5>2. QED
            BY <5>1, <3>2 DEF SessionRecords
        <4>3. QED
          BY <3>1, <3>2, <3>3, <4>2
      <3>5. CASE ~assertSessionActive(s)
        <4>1. session' = session
          BY <2>3, <3>5 DEF markConsumed
        <4>2. session[s].isConsumed \/ Expired(s)
          BY <3>2, <3>5 DEF assertSessionActive
        <4>3. QED
          BY <3>1, <3>2, <4>1, <4>2 DEF Expired
      <3>6. QED
        BY <3>4, <3>5
    <2>4. QED
      BY <2>1, <2>2, <2>3, SubmitterStep
  <1>3. QED
    BY <1>1, <1>2, QuorumTypeCorrect, PTL DEF Spec

(***************************************************************************)
(* Quorum: every package ever submitted holds at least threshold           *)
(* signatures of its session, all of them still on record.                 *)
(***************************************************************************)
THEOREM QuorumSubmittedHadQuorum == Spec => []SubmittedHadQuorum
  <1>1. Init => SubmittedHadQuorum
    BY DEF Init, SubmittedHadQuorum
  <1>2. TypeOK /\ SubmitterMeaning /\ SubmittedHadQuorum /\ [Next]_vars => SubmittedHadQuorum'
    <2> SUFFICES ASSUME TypeOK, SubmitterMeaning, SubmittedHadQuorum, [Next]_vars,
                        NEW u \in Submitters, stage'[u] # "idle"
                 PROVE  /\ Cardinality(package'[u].signatures) >= session'[package'[u].session].threshold
                        /\ \A k \in package'[u].signatures :
                             k[1] = package'[u].session /\ signatures'[k] # None
      BY DEF SubmittedHadQuorum
    <2>1. \A k \in SlotKeys : signatures[k] # None => signatures'[k] # None
      <3>1. None \notin Nonces
        BY QuorumNoneAssumption
      <3>2. QED
        BY <3>1, SignatureStep DEF TypeOK
    <2>2. ASSUME stage[u] # "idle", package'[u] = package[u]
          PROVE  /\ Cardinality(package'[u].signatures) >= session'[package'[u].session].threshold
                 /\ \A k \in package'[u].signatures :
                      k[1] = package'[u].session /\ signatures'[k] # None
      <3>1. package[u].session \in Sessions /\ session[package[u].session] # None
        BY <2>2 DEF SubmitterMeaning
      <3>2. session'[package[u].session].threshold = session[package[u].session].threshold
        BY <3>1, SessionStep
      <3>3. package[u].signatures \subseteq SlotKeys
        BY DEF TypeOK
      <3>4. QED
        BY <2>1, <2>2, <3>2, <3>3 DEF SubmittedHadQuorum
    <2>3. CASE stage'[u] = stage[u] /\ package'[u] = package[u]
      BY <2>2, <2>3
    <2>4. CASE markConsumed(u)
      BY <2>2, <2>4 DEF markConsumed, TypeOK
    <2>5. CASE prepareSubmissionPackage(u, package'[u].session) /\ package'[u].session \in Sessions
      <3> DEFINE s == package'[u].session
      <3>1. package'[u].signatures = Signed(s) /\ session' = session /\ signatures' = signatures
        BY <2>5 DEF prepareSubmissionPackage, recordVars, TypeOK
      <3>2. Cardinality(Signed(s)) >= session[s].threshold
        BY <2>5 DEF prepareSubmissionPackage, thresholdMet
      <3>3. \A k \in Signed(s) : k[1] = s /\ signatures[k] # None
        BY DEF Signed
      <3>4. QED
        BY <3>1, <3>2, <3>3
    <2>6. QED
      BY <2>3, <2>4, <2>5, SubmitterStep
  <1>3. QED
    BY <1>1, <1>2, QuorumTypeCorrect, SubmitterInvariant, PTL DEF Spec

(***************************************************************************)
(* No second submission after the first is settled: once a submitter is    *)
(* through with a session, markConsumed having succeeded or thrown, no     *)
(* package of that session is prepared again.                              *)
(***************************************************************************)
THEOREM QuorumSettledForGood == Spec => SettledForGood
  <1>1. TypeOK /\ SubmitterMeaning /\ [Next]_vars =>
          [\A u, v \in Submitters :
             stage[v] = "finished" /\ stage[u] = "idle" /\ stage'[u] = "prepared" =>
               package'[u].session # package[v].session]_vars
    <2> SUFFICES ASSUME TypeOK, SubmitterMeaning, [Next]_vars, NEW u \in Submitters, NEW v \in Submitters,
                        stage[v] = "finished", stage[u] = "idle", stage'[u] = "prepared"
                 PROVE  package'[u].session # package[v].session
      OBVIOUS
    <2>1. prepareSubmissionPackage(u, package'[u].session)
      BY SubmitterStep DEF markConsumed
    <2>2. ~session[package'[u].session].isConsumed /\ ~Expired(package'[u].session)
      BY <2>1 DEF prepareSubmissionPackage, Expired
    <2>3. session[package[v].session].isConsumed \/ Expired(package[v].session)
      BY DEF SubmitterMeaning
    <2>4. QED
      BY <2>2, <2>3 DEF Expired
  <1>2. QED
    BY <1>1, QuorumTypeCorrect, SubmitterInvariant, PTL DEF Spec, SettledForGood

(***************************************************************************)
(* A slot keeps its signer: the slot search never hands the slot of one    *)
(* address to another.                                                     *)
(***************************************************************************)
THEOREM QuorumSlotKeepsSigner == Spec => SlotKeepsSigner
  <1>1. TypeOK /\ [Next]_vars =>
          [\A s \in Sessions : session[s] # None =>
             \A i \in DOMAIN session[s].signerSlots :
               session[s].signerSlots[i].address # None =>
                 session'[s].signerSlots[i].address = session[s].signerSlots[i].address]_vars
    BY SessionStep
  <1>2. QED
    BY <1>1, QuorumTypeCorrect, PTL DEF Spec, SlotKeepsSigner

-----------------------------------------------------------------------------
(***************************************************************************)
(* Filling a slot: the filled one is the first that matched, the others    *)
(* stay, and the roles stay.                                               *)
(***************************************************************************)
LEMMA UsedFill ==
  ASSUME TypeOK, UsedSlots, NEW s \in Sessions, session[s] # None, NEW a \in Addresses, NEW r \in Roles,
         NEW st \in SlotStatuses, FillSlot(s, a, r, st)
  PROVE  UsedSlots'
  <1> DEFINE S == session[s].signerSlots
             T == session'[s].signerSlots
             M == Matching(s, a, r)
             IsFirst(i) == i \in M /\ \A j \in M : i <= j
  <1>1. /\ \A x \in Sessions : x # s => session'[x] = session[x]
        /\ DOMAIN T = DOMAIN S
        /\ \A i \in DOMAIN S : T[i] = IF IsFirst(i) THEN Slot(a, r, st) ELSE S[i]
    BY FillLemma DEF Kept
  <1>2. DOMAIN S \subseteq Nat
    BY DEF TypeOK, SessionRecords
  <1>3. \A i \in DOMAIN S : i \in M <=> S[i].role = r /\ S[i].address \in {None, a}
    BY DEF Matching
  <1>4. Slot(a, r, st).role = r /\ Slot(a, r, st).address = a /\ a # None
    BY QuorumNoneAssumption DEF Slot
  <1>5. \A i \in DOMAIN S : S[i].status # "pending" =>
          /\ S[i].address # None
          /\ \A j \in DOMAIN S : j < i /\ S[j].role = S[i].role => S[j].address \notin {None, S[i].address}
    BY DEF UsedSlots
  <1>6. \A i \in DOMAIN T : T[i].status # "pending" =>
          /\ T[i].address # None
          /\ \A j \in DOMAIN T : j < i /\ T[j].role = T[i].role => T[j].address \notin {None, T[i].address}
    <2> HIDE DEF S, T, M
    <2> TAKE i \in DOMAIN T
    <2> HAVE T[i].status # "pending"
    <2>1. CASE IsFirst(i)
      <3>1. T[i].address = a /\ T[i].role = r
        BY <1>1, <1>4, <2>1
      <3>2. ASSUME NEW j \in DOMAIN T, j < i, T[j].role = r PROVE T[j].address \notin {None, a}
        <4>1. i \in Nat /\ j \in Nat /\ ~(i <= j)
          BY <1>1, <1>2, <3>2
        <4>2. j \notin M
          BY <2>1, <4>1
        <4>3. T[j] = S[j]
          BY <1>1, <4>2
        <4>4. QED
          BY <1>1, <1>3, <3>2, <4>2, <4>3
      <3>3. QED
        BY <1>4, <3>1, <3>2
    <2>2. CASE ~IsFirst(i)
      <3>1. T[i] = S[i] /\ S[i].address # None
        BY <1>1, <1>5, <2>2
      <3>2. ASSUME NEW j \in DOMAIN T, j < i, T[j].role = S[i].role
            PROVE  T[j].address \notin {None, S[i].address}
        <4>1. T[j].role = S[j].role
          BY <1>1, <1>3, <1>4
        <4>2. S[j].address \notin {None, S[i].address}
          BY <1>1, <1>5, <3>1, <3>2, <4>1
        <4>3. T[j].address = S[j].address
          BY <1>1, <1>3, <1>4, <4>2
        <4>4. QED
          BY <4>2, <4>3
      <3>3. QED
        BY <3>1, <3>2
    <2>3. QED
      BY <2>1, <2>2
  <1>7. QED
    BY <1>1, <1>6 DEF UsedSlots

(***************************************************************************)
(* Steps that touch neither the slots nor the records.                     *)
(***************************************************************************)
LEMMA SlotsUntouched ==
  ASSUME UsedSlots, SlotsMatchRecords, signatures' = signatures, rejections' = rejections,
         \A x \in Sessions : session'[x] # None =>
           \/ session[x] # None /\ session'[x].signerSlots = session[x].signerSlots
           \/ \A i \in DOMAIN session'[x].signerSlots : session'[x].signerSlots[i].status = "pending"
  PROVE  UsedSlots' /\ SlotsMatchRecords'
  BY DEF UsedSlots, SlotsMatchRecords

(***************************************************************************)
(* The slots shown by getSummary are true: a slot shown as signed belongs  *)
(* to an address whose signature is on record and that has not rejected, a *)
(* slot shown as rejected to an address that rejected - with any roles,    *)
(* repeated or not, and any assigned signers.                              *)
(***************************************************************************)
THEOREM QuorumSlotsMatchRecords == Spec => []SlotsMatchRecords
  <1> DEFINE Inv == UsedSlots /\ SlotsMatchRecords
  <1>1. Init => Inv
    BY DEF Init, UsedSlots, SlotsMatchRecords
  <1>2. TypeOK /\ Inv /\ [Next]_vars => Inv'
    <2> SUFFICES ASSUME TypeOK, UsedSlots, SlotsMatchRecords, [Next]_vars
                 PROVE  UsedSlots' /\ SlotsMatchRecords'
      OBVIOUS
    <2>1. ASSUME NEW x \in Sessions, session[x] # None, NEW i \in DOMAIN session[x].signerSlots,
                 session[x].signerSlots[i].status # "pending"
          PROVE  <<x, session[x].signerSlots[i].address, session[x].signerSlots[i].role>> \in SlotKeys
      <3>1. session[x].signerSlots[i] \in SlotRecords
        BY <2>1 DEF TypeOK, SessionRecords
      <3>2. session[x].signerSlots[i].address # None
        BY <2>1 DEF UsedSlots
      <3>3. QED
        BY <2>1, <3>1, <3>2 DEF SlotRecords, SlotKeys
    <2>2. ASSUME NEW s \in Sessions, NEW a \in Addresses, NEW r \in Roles, NEW n \in Nonces,
                 NEW b \in BOOLEAN, applySignature(s, a, r, n, b)
          PROVE  UsedSlots' /\ SlotsMatchRecords'
      <3>1. session[s] # None /\ FillSlot(s, a, r, "signed") /\ "signed" \in SlotStatuses
        BY <2>2 DEF applySignature, assertSessionActive, SlotStatuses
      <3>2. UsedSlots'
        BY <3>1, UsedFill
      <3>3. /\ signatures'[<<s, a, r>>] # None /\ <<s, a, r>> \notin rejections /\ rejections' = rejections
            /\ \A k \in SlotKeys : signatures[k] # None => signatures'[k] # None
        <4>1. None \notin Nonces /\ <<s, a, r>> \in SlotKeys
          BY QuorumNoneAssumption DEF SlotKeys
        <4>2. signatures' = [signatures EXCEPT ![<<s, a, r>>] = n]
          BY <2>2 DEF applySignature
        <4>3. \A k \in SlotKeys : signatures'[k] = IF k = <<s, a, r>> THEN n ELSE signatures[k]
          BY <4>2 DEF TypeOK
        <4>4. QED
          BY <2>2, <4>1, <4>3 DEF applySignature
      <3>4. /\ \A x \in Sessions : x # s => session'[x] = session[x]
            /\ DOMAIN session'[s].signerSlots = DOMAIN session[s].signerSlots
            /\ \A i \in DOMAIN session[s].signerSlots :
                 session'[s].signerSlots[i] \in {Slot(a, r, "signed"), session[s].signerSlots[i]}
        BY <3>1, FillLemma DEF Kept
      <3>5. ASSUME NEW x \in Sessions, session'[x] # None, NEW i \in DOMAIN session'[x].signerSlots
            PROVE  LET slot == session'[x].signerSlots[i]
                       k == <<x, slot.address, slot.role>> IN
                   /\ slot.status = "signed" => signatures'[k] # None /\ k \notin rejections'
                   /\ slot.status = "rejected" => k \in rejections'
        <4>1. CASE x = s /\ session'[s].signerSlots[i] = Slot(a, r, "signed")
          BY <3>3, <4>1 DEF Slot
        <4>2. CASE /\ session[x] # None /\ i \in DOMAIN session[x].signerSlots
                   /\ session'[x].signerSlots[i] = session[x].signerSlots[i]
          BY <2>1, <3>3, <4>2 DEF SlotsMatchRecords
        <4>3. QED
          BY <3>1, <3>4, <3>5, <4>1, <4>2
      <3>6. QED
        BY <3>2, <3>5 DEF SlotsMatchRecords
    <2>3. ASSUME NEW s \in Sessions, NEW a \in Addresses, NEW r \in Roles, rejectSession(s, a, r)
          PROVE  UsedSlots' /\ SlotsMatchRecords'
      <3>1. /\ session[s] # None /\ FillSlot(s, a, r, "rejected") /\ "rejected" \in SlotStatuses
            /\ signatures' = signatures /\ rejections' = rejections \cup {<<s, a, r>>}
        BY <2>3 DEF rejectSession, assertSessionActive, SlotStatuses
      <3>2. UsedSlots'
        BY <3>1, UsedFill
      <3>3. /\ \A x \in Sessions : x # s => session'[x] = session[x]
            /\ DOMAIN session'[s].signerSlots = DOMAIN session[s].signerSlots
            /\ \A i \in DOMAIN session[s].signerSlots :
                 session'[s].signerSlots[i] =
                   IF i \in Matching(s, a, r) /\ \A j \in Matching(s, a, r) : i <= j
                   THEN Slot(a, r, "rejected") ELSE session[s].signerSlots[i]
        BY <3>1, FillLemma DEF Kept
      <3>4. ASSUME NEW x \in Sessions, session'[x] # None, NEW i \in DOMAIN session'[x].signerSlots
            PROVE  LET slot == session'[x].signerSlots[i]
                       k == <<x, slot.address, slot.role>> IN
                   /\ slot.status = "signed" => signatures'[k] # None /\ k \notin rejections'
                   /\ slot.status = "rejected" => k \in rejections'
        <4>1. CASE x # s
          <5>1. session'[x] = session[x]
            BY <3>3, <4>1
          <5>2. QED
            BY <3>1, <3>4, <4>1, <5>1 DEF SlotsMatchRecords
        <4>2. CASE x = s /\ session'[s].signerSlots[i] = Slot(a, r, "rejected")
          BY <3>1, <4>2 DEF Slot
        <4>3. CASE /\ x = s /\ session'[s].signerSlots[i] = session[s].signerSlots[i]
                   /\ ~(i \in Matching(s, a, r) /\ \A j \in Matching(s, a, r) : i <= j)
          <5> DEFINE S == session[s].signerSlots
          <5>1. i \in DOMAIN S /\ DOMAIN S \subseteq Nat
            BY <3>1, <3>3, <3>4, <4>3 DEF TypeOK, SessionRecords
          <5>2. ASSUME S[i].status = "signed", S[i].address = a, S[i].role = r PROVE FALSE
            <6>1. i \in Matching(s, a, r)
              BY <5>1, <5>2 DEF Matching
            <6>2. PICK j \in Matching(s, a, r) : ~(i <= j)
              BY <4>3, <6>1
            <6>3. j \in DOMAIN S /\ S[j].role = r /\ S[j].address \in {None, a}
              BY DEF Matching
            <6>4. j < i
              BY <5>1, <6>2, <6>3
            <6>5. QED
              BY <3>1, <5>1, <5>2, <6>3, <6>4 DEF UsedSlots
          <5>3. QED
            BY <3>1, <4>3, <5>1, <5>2 DEF SlotsMatchRecords
        <4>4. QED
          BY <3>3, <3>4, <4>1, <4>2, <4>3
      <3>5. QED
        BY <3>2, <3>4 DEF SlotsMatchRecords
    <2>4. ASSUME NEW s \in Sessions, NEW plan \in Plans, createSession(s, plan)
          PROVE  UsedSlots' /\ SlotsMatchRecords'
      <3>1. signatures' = signatures /\ rejections' = rejections
        BY <2>4 DEF createSession
      <3>2. QED
        BY <2>4, <3>1, CreateLemma, SlotsUntouched
    <2>5. ASSUME NEW u \in Submitters, markConsumed(u) PROVE UsedSlots' /\ SlotsMatchRecords'
      <3>1. signatures' = signatures /\ rejections' = rejections
        BY <2>5 DEF markConsumed
      <3>2. ASSUME NEW x \in Sessions, session'[x] # None
            PROVE  session[x] # None /\ session'[x].signerSlots = session[x].signerSlots
        <4> DEFINE s == package[u].session
        <4>1. CASE session' = session
          BY <3>2, <4>1
        <4>2. CASE /\ assertSessionActive(s)
                   /\ session' = [session EXCEPT ![s] = [session[s] EXCEPT !.isConsumed = TRUE]]
          <5>1. session[s] # None
            BY <4>2 DEF assertSessionActive
          <5> HIDE DEF s
          <5>2. CASE x = s
            <6>1. session[s] \in SessionRecords
              BY <5>1, <5>2 DEF TypeOK
            <6>2. session'[s] = [session[s] EXCEPT !.isConsumed = TRUE]
              BY <4>2, <5>2 DEF TypeOK
            <6>3. QED
              BY <5>1, <5>2, <6>1, <6>2 DEF SessionRecords
          <5>3. CASE x # s
            BY <3>2, <4>2, <5>3 DEF TypeOK
          <5>4. QED
            BY <5>2, <5>3
        <4>3. QED
          BY <2>5, <4>1, <4>2 DEF markConsumed
      <3>3. QED
        BY <3>1, <3>2, SlotsUntouched
    <2>6. ASSUME session' = session, signatures' = signatures, rejections' = rejections
          PROVE  UsedSlots' /\ SlotsMatchRecords'
      BY <2>6, SlotsUntouched
    <2>7. CASE \/ \E u \in Submitters, s \in Sessions : prepareSubmissionPackage(u, s)
               \/ Tick
               \/ UNCHANGED vars
      BY <2>6, <2>7 DEF prepareSubmissionPackage, Tick, vars, recordVars
    <2>8. QED
      BY <2>2, <2>3, <2>4, <2>5, <2>7 DEF Next, Submits
  <1>3. QED
    BY <1>1, <1>2, QuorumTypeCorrect, PTL DEF Spec

-----------------------------------------------------------------------------
(***************************************************************************)
(* Rejections are finitely many and only added.                            *)
(***************************************************************************)
LEMMA RejectionStep ==
  ASSUME TypeOK, [Next]_vars
  PROVE  rejections' = rejections \/ \E k \in SlotKeys : rejections' = rejections \cup {k}
  <1>1. ASSUME NEW s \in Sessions, NEW a \in Addresses, NEW r \in Roles, rejectSession(s, a, r)
        PROVE  \E k \in SlotKeys : rejections' = rejections \cup {k}
    <2>1. <<s, a, r>> \in SlotKeys
      BY DEF SlotKeys
    <2>2. QED
      BY <1>1, <2>1 DEF rejectSession
  <1>2. ASSUME \/ \E s \in Sessions, plan \in Plans : createSession(s, plan)
               \/ \E s \in Sessions, a \in Addresses, r \in Roles, n \in Nonces, b \in BOOLEAN :
                    applySignature(s, a, r, n, b)
               \/ \E u \in Submitters : Submits(u)
               \/ Tick
               \/ UNCHANGED vars
        PROVE  rejections' = rejections
    BY <1>2 DEF createSession, applySignature, Submits, markConsumed, prepareSubmissionPackage,
                Tick, vars, recordVars
  <1>3. QED
    BY <1>1, <1>2 DEF Next

(***************************************************************************)
(* At any time, finitely many rejections have been recorded.               *)
(***************************************************************************)
LEMMA RejectionsFinite == Spec => []IsFiniteSet(rejections)
  <1>1. Init => IsFiniteSet(rejections)
    BY FS_EmptySet DEF Init
  <1>2. TypeOK /\ IsFiniteSet(rejections) /\ [Next]_vars => IsFiniteSet(rejections)'
    BY RejectionStep, FS_AddElement
  <1>3. QED
    BY <1>1, <1>2, QuorumTypeCorrect, PTL DEF Spec

(***************************************************************************)
(* No way back: a session that getSummary has once shown as rejected,      *)
(* expired or consumed is never again shown as pending or ready.           *)
(***************************************************************************)
THEOREM QuorumNoWayBack == Spec => NoWayBack
  <1>1. TypeOK /\ IsFiniteSet(rejections) /\ IsFiniteSet(rejections)' /\ [Next]_vars =>
          [\A s \in Sessions :
             session[s] # None /\ status(s) \in {"rejected", "expired", "consumed"} =>
               status(s)' \notin {"pending", "ready"}]_vars
    <2> SUFFICES ASSUME TypeOK, IsFiniteSet(rejections), IsFiniteSet(rejections'), [Next]_vars,
                        NEW s \in Sessions, session[s] # None,
                        status(s) \in {"rejected", "expired", "consumed"}
                 PROVE  status(s)' \notin {"pending", "ready"}
      OBVIOUS
    <2> DEFINE bound == Len(session[s].requiredRoles) - session[s].threshold
    <2>1. CASE session[s].isConsumed \/ Expired(s)
      <3>1. session'[s].isConsumed \/ Expired(s)'
        BY <2>1, SettledStays
      <3>2. QED
        BY <3>1 DEF status
    <2>2. CASE ~session[s].isConsumed /\ ~Expired(s)
      <3>1. Cardinality(Rejected(s)) > bound
        BY <2>2 DEF status
      <3>2. bound \in Int
        <4>1. session[s].requiredRoles \in Seq(Roles) /\ session[s].threshold \in Int
          BY DEF TypeOK, SessionRecords
        <4>2. QED
          BY <4>1
      <3>3. Rejected(s) \subseteq Rejected(s)'
        BY RejectionStep DEF Rejected
      <3>4. IsFiniteSet(Rejected(s)')
        <4>1. Rejected(s)' \subseteq rejections'
          BY DEF Rejected
        <4>2. QED
          BY <4>1, FS_Subset
      <3>5. /\ Cardinality(Rejected(s)) \in Nat /\ Cardinality(Rejected(s)') \in Nat
            /\ Cardinality(Rejected(s)) <= Cardinality(Rejected(s)')
        BY <3>3, <3>4, FS_Subset, FS_CardinalityType
      <3>6. Len(session'[s].requiredRoles) - session'[s].threshold = bound
        BY SessionStep
      <3>7. Cardinality(Rejected(s)') > Len(session'[s].requiredRoles) - session'[s].threshold
        <4> HIDE DEF bound
        <4>1. QED
          BY <3>1, <3>2, <3>5, <3>6
      <3>8. QED
        BY <3>7 DEF status
    <2>3. QED
      BY <2>1, <2>2
  <1>2. QED
    BY <1>1, QuorumTypeCorrect, RejectionsFinite, PTL DEF Spec, NoWayBack

(***************************************************************************)
(* Sessions are sound for any plans, signers, nonces and submitters: every *)
(* package had its quorum, slots agree with the records, nonces are        *)
(* distinct (QuorumSessionManager).                                        *)
(***************************************************************************)
THEOREM QuorumSessionsSound == Spec => []SessionsSound
  BY QuorumTypeCorrect, QuorumNoncesDistinct, QuorumSlotsMatchRecords,
     QuorumSubmittedHadQuorum, PTL DEF SessionsSound
=============================================================================
