----------------------- MODULE IdempotencyRegistryProofs -----------------------
(***************************************************************************)
(* What IdempotencyRegistry guarantees for any number of callers, keys and *)
(* TTLs.  Two theorems hold without any condition (types, no stale         *)
(* replay); the other two hold as long as calls are shorter than the TTL   *)
(* they set and the map is not cleared, and TLC shows that they may fail   *)
(* otherwise.                                                              *)
(***************************************************************************)
EXTENDS IdempotencyRegistry, TLAPS

(***************************************************************************)
(* The map points only at calls that own a promise, and a finished call is *)
(* still in the map only if its options say that it is replayed.           *)
(***************************************************************************)
EntryMeaning ==
  \A k \in Keys : entry[k] # None =>
    /\ key[entry[k]] = k
    /\ phase[entry[k]] \in {"owner", "done"}
    /\ phase[entry[k]] = "done" =>
         /\ ttl[entry[k]] > 0
         /\ outcome[entry[k]] \in Errors => cacheErrs[entry[k]]

ExpiryMeaning ==
  \A c \in Callers : phase[c] \in {"owner", "done"} /\ source[c] = c =>
    IF ttl[c] > 0 THEN expiresAt[c] # Never ELSE expiresAt[c] = Never

OwnersAreSources ==
  \A c \in Callers :
    /\ phase[c] = "owner" => source[c] = c
    /\ promise[c] = "pending" => phase[c] = "owner"
    /\ phase[c] = "idle" => source[c] = None /\ promise[c] = "none" /\ outcome[c] = "none"
    /\ phase[c] = "joined" => source[c] \in Callers /\ source[c] # c

EntriesOwned ==
  \A k \in Keys : entry[k] # None => source[entry[k]] = entry[k]

BaseInv == TypeOK /\ EntryMeaning /\ ExpiryMeaning /\ OwnersAreSources /\ EntriesOwned

(***************************************************************************)
(* What holds as long as calls are shorter than the TTL they set and       *)
(* clear() is not used.                                                    *)
(***************************************************************************)
OwnersInTime ==
  \A c \in Callers : phase[c] = "owner" /\ ttl[c] > 0 => now < expiresAt[c]

OwnersRegistered == \A c \in Callers : phase[c] = "owner" => entry[key[c]] = c

SuccessKept ==
  \A c \in Callers :
    outcome[c] = "ok" /\ source[c] = c /\ ttl[c] > 0 /\ now < expiresAt[c] => entry[key[c]] = c

Timed == OwnersInTime /\ OwnersRegistered /\ SuccessKept

TimedInv == onTime => Timed

USE DEF Phases, PromiseStates, Settlements, Never

(***************************************************************************)
(* Pruning removes expired entries and touches no other.                   *)
(***************************************************************************)
LEMMA PrunedLemma ==
  ASSUME TypeOK, NEW k \in Keys
  PROVE  /\ Pruned \in [Keys -> Callers \cup {None}]
         /\ Pruned[k] # None => Pruned[k] = entry[k] /\ ~Expired(entry[k])
         /\ entry[k] # None /\ ~Expired(entry[k]) => Pruned[k] = entry[k]
  BY DEF TypeOK, Pruned

(***************************************************************************)
(* The type invariant is preserved by every action.                        *)
(***************************************************************************)
LEMMA TypeStep == TypeOK /\ [Next]_vars => TypeOK'
  <1> SUFFICES ASSUME TypeOK, [Next]_vars PROVE TypeOK'
    OBVIOUS
  <1> USE NoneAssumption, TtlsAssumption, MaxTimeAssumption, ErrorsAssumption
  <1>1. ASSUME NEW c \in Callers, Execute(c) PROVE TypeOK'
    <2>1. Pruned \in [Keys -> Callers \cup {None}] /\ key[c] \in Keys /\ ttl[c] \in Nat /\ now \in Nat
      BY PrunedLemma DEF TypeOK, Pruned
    <2>2. CASE Pruned[key[c]] # None /\ Join(c)
      BY <1>1, <2>1, <2>2 DEF Execute, Join, TypeOK, args
    <2>3. CASE Pruned[key[c]] = None /\ Own(c)
      <3>1. now + ttl[c] \in Nat
        BY <2>1
      <3>2. expiresAt' \in [Callers -> Nat \cup {Never}]
        BY <2>3, <3>1 DEF Own, TypeOK
      <3>3. QED
        BY <1>1, <2>1, <2>3, <3>2 DEF Execute, Own, TypeOK, args
    <2>4. QED
      BY <1>1, <2>2, <2>3 DEF Execute
  <1>2. ASSUME NEW c \in Callers, NEW s \in Settlements, Settle(c, s) PROVE TypeOK'
    BY <1>2 DEF Settle, TypeOK, args
  <1>3. ASSUME NEW c \in Callers, OwnerContinues(c) PROVE TypeOK'
    <2>1. promise[c] \in {"none"} \cup Settlements \/ promise[c] = "none"
      BY <1>3 DEF OwnerContinues, TypeOK
    <2>2. outcome' \in [Callers -> {"none"} \cup Settlements]
      BY <1>3, <2>1 DEF OwnerContinues, TypeOK
    <2>3. entry' \in [Keys -> Callers \cup {None}]
      BY <1>3 DEF OwnerContinues, TypeOK
    <2>4. QED
      BY <1>3, <2>2, <2>3 DEF OwnerContinues, TypeOK, args
  <1>4. ASSUME NEW c \in Callers, JoinedContinues(c) PROVE TypeOK'
    BY <1>4 DEF JoinedContinues, TypeOK, args
  <1>5. CASE clear
    BY <1>5 DEF clear, TypeOK, args
  <1>6. CASE Tick
    BY <1>6 DEF Tick, TypeOK, args
  <1>7. CASE UNCHANGED vars
    BY <1>7 DEF vars, TypeOK
  <1>8. QED
    BY <1>1, <1>2, <1>3, <1>4, <1>5, <1>6, <1>7 DEF Next, Work

(***************************************************************************)
(* Types: the map and the calls keep their types (core/idempotency.ts).    *)
(***************************************************************************)
THEOREM TypeCorrect == Spec => []TypeOK
  <1>1. Init => TypeOK
    BY DEF Init, TypeOK
  <1>2. QED
    BY <1>1, TypeStep, PTL DEF Spec

(***************************************************************************)
(* The meaning of the map is preserved by every action, clear() included.  *)
(***************************************************************************)
LEMMA BaseStep == BaseInv /\ [Next]_vars => BaseInv'
  <1> SUFFICES ASSUME BaseInv, [Next]_vars
               PROVE EntryMeaning' /\ ExpiryMeaning' /\ OwnersAreSources' /\ EntriesOwned'
    BY TypeStep DEF BaseInv
  <1> USE NoneAssumption, TtlsAssumption, ErrorsAssumption
  <1> USE DEF BaseInv, TypeOK
  <1>1. ASSUME NEW c \in Callers, Execute(c)
        PROVE EntryMeaning' /\ ExpiryMeaning' /\ OwnersAreSources' /\ EntriesOwned'
    <2> DEFINE k0 == key[c]
    <2>0. \A k \in Keys : Pruned[k] # None => Pruned[k] = entry[k]
      BY PrunedLemma
    <2>1. k0 \in Keys /\ Pruned \in [Keys -> Callers \cup {None}] /\ phase[c] = "idle"
      BY <1>1, PrunedLemma DEF Execute, Pruned
    <2>2. CASE Pruned[k0] # None /\ Join(c)
      <3>1. Pruned[k0] = entry[k0] /\ entry[k0] # c /\ entry[k0] \in Callers
        BY <2>0, <2>1, <2>2 DEF EntryMeaning
      <3>2. \A k \in Keys : entry'[k] # None => entry'[k] = entry[k] /\ entry[k] # c
        BY <2>0, <2>1, <2>2 DEF Join, EntryMeaning
      <3>3. EntryMeaning' /\ EntriesOwned'
        BY <1>1, <2>2, <3>2 DEF Join, Execute, args, EntryMeaning, EntriesOwned
      <3>4. OwnersAreSources'
        BY <1>1, <2>2, <3>1 DEF Join, Execute, args, OwnersAreSources
      <3>5. ExpiryMeaning'
        BY <1>1, <2>2, <3>1 DEF Join, Execute, args, ExpiryMeaning
      <3>6. QED
        BY <3>3, <3>4, <3>5
    <2>3. CASE Pruned[k0] = None /\ Own(c)
      <3>1. \A k \in Keys : entry'[k] # None =>
               \/ k = k0 /\ entry'[k] = c
               \/ k # k0 /\ entry'[k] = entry[k] /\ entry[k] # c
        BY <2>0, <2>1, <2>3 DEF Own, EntryMeaning
      <3>2. EntryMeaning' /\ EntriesOwned'
        BY <1>1, <2>3, <3>1 DEF Own, Execute, args, EntryMeaning, EntriesOwned
      <3>3. OwnersAreSources'
        BY <1>1, <2>3 DEF Own, Execute, args, OwnersAreSources
      <3>4. ttl[c] \in Nat /\ now \in Nat /\ now + ttl[c] # Never
        <4>1. ttl[c] \in Nat /\ now \in Nat
          OBVIOUS
        <4>2. QED
          BY <4>1
      <3>5. expiresAt'[c] = IF ttl[c] > 0 THEN now + ttl[c] ELSE Never
        BY <2>3 DEF Own
      <3>6. \A b \in Callers : b # c =>
              phase'[b] = phase[b] /\ source'[b] = source[b] /\ expiresAt'[b] = expiresAt[b]
        BY <2>3 DEF Own
      <3>7. ttl' = ttl
        BY <1>1 DEF Execute, args
      <3>8. ExpiryMeaning'
        BY <3>4, <3>5, <3>6, <3>7 DEF ExpiryMeaning
      <3>9. QED
        BY <3>2, <3>3, <3>8
    <2>4. QED
      BY <1>1, <2>2, <2>3 DEF Execute
  <1>2. ASSUME NEW c \in Callers, NEW s \in Settlements, Settle(c, s)
        PROVE EntryMeaning' /\ ExpiryMeaning' /\ OwnersAreSources' /\ EntriesOwned'
    BY <1>2 DEF Settle, args, EntryMeaning, ExpiryMeaning, OwnersAreSources, EntriesOwned
  <1>3. ASSUME NEW c \in Callers, OwnerContinues(c)
        PROVE EntryMeaning' /\ ExpiryMeaning' /\ OwnersAreSources' /\ EntriesOwned'
    <2>1. \A k \in Keys : entry'[k] # None => entry'[k] = entry[k]
      BY <1>3 DEF OwnerContinues
    <2>2. EntryMeaning'
      <3> SUFFICES ASSUME NEW k \in Keys, entry'[k] # None
                   PROVE  /\ key'[entry'[k]] = k
                          /\ phase'[entry'[k]] \in {"owner", "done"}
                          /\ phase'[entry'[k]] = "done" =>
                               /\ ttl'[entry'[k]] > 0
                               /\ outcome'[entry'[k]] \in Errors => cacheErrs'[entry'[k]]
        BY DEF EntryMeaning
      <3>1. entry'[k] = entry[k] /\ entry[k] \in Callers /\ UNCHANGED args
        BY <1>3, <2>1 DEF OwnerContinues
      <3>2. CASE entry[k] = c
        <4>1. k = key[c]
          BY <3>1, <3>2 DEF EntryMeaning
        <4>2. ~Deletes(c)
          BY <1>3, <3>1, <3>2, <4>1, NoneAssumption DEF OwnerContinues
        <4>3. ttl[c] \in Nat /\ ttl[c] # 0
          BY <4>2 DEF Deletes
        <4>4. outcome'[c] = promise[c] /\ phase'[c] = "done"
          BY <1>3 DEF OwnerContinues
        <4>5. QED
          BY <3>1, <3>2, <4>1, <4>2, <4>3, <4>4 DEF Deletes, args
      <3>3. CASE entry[k] # c
        BY <1>3, <3>1, <3>3 DEF OwnerContinues, args, EntryMeaning
      <3>4. QED
        BY <3>2, <3>3
    <2>3. ExpiryMeaning' /\ OwnersAreSources' /\ EntriesOwned'
      BY <1>3, <2>1 DEF OwnerContinues, args, ExpiryMeaning, OwnersAreSources, EntriesOwned
    <2>4. QED
      BY <2>2, <2>3
  <1>4. ASSUME NEW c \in Callers, JoinedContinues(c)
        PROVE EntryMeaning' /\ ExpiryMeaning' /\ OwnersAreSources' /\ EntriesOwned'
    <2>1. \A k \in Keys : entry[k] # c
      BY <1>4 DEF JoinedContinues, EntryMeaning
    <2>2. EntryMeaning'
      BY <1>4, <2>1 DEF JoinedContinues, args, EntryMeaning
    <2>3. ExpiryMeaning' /\ OwnersAreSources' /\ EntriesOwned'
      BY <1>4, <2>1 DEF JoinedContinues, args, ExpiryMeaning, OwnersAreSources, EntriesOwned
    <2>4. QED
      BY <2>2, <2>3
  <1>5. CASE clear
    BY <1>5 DEF clear, args, EntryMeaning, ExpiryMeaning, OwnersAreSources, EntriesOwned
  <1>6. CASE Tick
    BY <1>6 DEF Tick, args, EntryMeaning, ExpiryMeaning, OwnersAreSources, EntriesOwned
  <1>7. CASE UNCHANGED vars
    BY <1>7 DEF vars, EntryMeaning, ExpiryMeaning, OwnersAreSources, EntriesOwned
  <1>8. QED
    BY <1>1, <1>2, <1>3, <1>4, <1>5, <1>6, <1>7 DEF Next, Work

\* The base invariant holds throughout.
LEMMA BaseInvariant == Spec => []BaseInv
  <1>1. Init => BaseInv
    BY NoneAssumption
    DEF Init, BaseInv, TypeOK, EntryMeaning, ExpiryMeaning, OwnersAreSources, EntriesOwned
  <1>2. QED
    BY <1>1, BaseStep, PTL DEF Spec

(***************************************************************************)
(* Whatever the latencies and however often the registry is cleared, a     *)
(* finished result is replayed only within its TTL, and a failure only if  *)
(* cacheErrors asks for it.                                                *)
(***************************************************************************)
THEOREM NeverStale == Spec => NoStaleReplay
  <1> DEFINE A == \A c, d \in Callers :
                    Joins(c, d) /\ phase[d] = "done" =>
                      /\ ttl[d] > 0 /\ now < expiresAt[d]
                      /\ outcome[d] \in Errors => cacheErrs[d]
  <1>1. BaseInv /\ [Next]_vars => [A]_vars
    <2> SUFFICES ASSUME BaseInv, Next, NEW c \in Callers, NEW d \in Callers,
                        Joins(c, d), phase[d] = "done"
                 PROVE /\ ttl[d] > 0 /\ now < expiresAt[d]
                       /\ outcome[d] \in Errors => cacheErrs[d]
      OBVIOUS
    <2>1. Execute(c) /\ Join(c)
      <3>1. ASSUME NEW b \in Callers, Execute(b) PROVE Execute(c) /\ Join(c)
        BY <3>1 DEF Joins, Execute, Join, Own, BaseInv, TypeOK
      <3>2. ASSUME NEW b \in Callers, NEW s \in Settlements, Settle(b, s) PROVE FALSE
        BY <3>2 DEF Joins, Settle
      <3>3. ASSUME NEW b \in Callers, OwnerContinues(b) PROVE FALSE
        BY <3>3 DEF Joins, OwnerContinues, BaseInv, TypeOK
      <3>4. ASSUME NEW b \in Callers, JoinedContinues(b) PROVE FALSE
        BY <3>4 DEF Joins, JoinedContinues, BaseInv, TypeOK
      <3>5. ~clear /\ ~Tick
        BY DEF Joins, clear, Tick
      <3>6. QED
        BY <3>1, <3>2, <3>3, <3>4, <3>5 DEF Next, Work
    <2>2. key[c] \in Keys /\ d = Pruned[key[c]] /\ d # None
      BY <2>1, NoneAssumption DEF Join, Joins, BaseInv, TypeOK
    <2>3. d = entry[key[c]] /\ ~Expired(d)
      BY <2>2, PrunedLemma DEF BaseInv
    <2>4. /\ ttl[d] > 0
          /\ outcome[d] \in Errors => cacheErrs[d]
          /\ source[d] = d
      BY <2>2, <2>3 DEF BaseInv, EntryMeaning, EntriesOwned
    <2>5. expiresAt[d] # Never
      BY <2>4 DEF BaseInv, ExpiryMeaning
    <2>6. expiresAt[d] \in Nat /\ now \in Nat
      BY <2>5 DEF BaseInv, TypeOK
    <2>7. QED
      BY <2>3, <2>4, <2>5, <2>6 DEF Expired
  <1>2. QED
    BY <1>1, BaseInvariant, PTL DEF Spec, NoStaleReplay

(***************************************************************************)
(* With calls shorter than their TTL, an owner stays registered until it   *)
(* has finished and a success stays registered until it expires.           *)
(***************************************************************************)
LEMMA TimedStep ==
  BaseInv /\ TimedInv /\ [Next]_vars => TimedInv'
  <1> SUFFICES ASSUME BaseInv, Timed, onTime, onTime', [Next]_vars PROVE Timed'
    <2>1. [Next]_vars /\ onTime' => onTime
      BY DEF Next, Work, Execute, Settle, OwnerContinues, JoinedContinues, clear, Tick, vars
    <2>2. QED
      BY <2>1 DEF TimedInv
  <1> USE NoneAssumption, TtlsAssumption, MaxTimeAssumption, ErrorsAssumption
  <1> USE DEF BaseInv, TypeOK, Timed
  <1>0. \A c \in Callers : phase[c] = "owner" => ~Expired(c)
    <2> SUFFICES ASSUME NEW c \in Callers, phase[c] = "owner" PROVE ~Expired(c)
      OBVIOUS
    <2>1. source[c] = c /\ ttl[c] \in Nat /\ now \in Nat /\ expiresAt[c] \in Nat \cup {Never}
      BY DEF OwnersAreSources
    <2>2. CASE ttl[c] = 0
      BY <2>1, <2>2 DEF ExpiryMeaning, Expired
    <2>3. CASE ttl[c] > 0
      <3>2. now < expiresAt[c]
        BY <2>1, <2>3 DEF OwnersInTime
      <3>3. QED
        BY <2>1, <3>2 DEF Expired
    <2>4. QED
      BY <2>1, <2>2, <2>3
  <1>1. ASSUME NEW c \in Callers, Execute(c) PROVE Timed'
    <2>1. phase[c] = "idle" /\ key[c] \in Keys /\ UNCHANGED <<now, args, outcome>>
      BY <1>1 DEF Execute
    <2>2. \A d \in Callers : phase[d] = "owner" => Pruned[key[d]] = d
      BY <1>0, PrunedLemma DEF OwnersRegistered
    <2>3. \A d \in Callers :
            outcome[d] = "ok" /\ source[d] = d /\ ttl[d] > 0 /\ now < expiresAt[d]
              => Pruned[key[d]] = d
      BY PrunedLemma DEF SuccessKept, Expired
    <2>4. outcome[c] = "none"
      BY <2>1 DEF OwnersAreSources
    <2>5. CASE Pruned[key[c]] # None /\ Join(c)
      BY <2>1, <2>2, <2>3, <2>4, <2>5
      DEF Join, args, OwnersInTime, OwnersRegistered, SuccessKept
    <2>6. CASE Pruned[key[c]] = None /\ Own(c)
      <3>1. Pruned \in [Keys -> Callers \cup {None}]
        BY PrunedLemma, <2>1
      <3>2. /\ entry'[key[c]] = c
            /\ \A k \in Keys : k # key[c] => entry'[k] = Pruned[k]
        BY <2>1, <2>6, <3>1 DEF Own
      <3>3. \A d \in Callers : d # c =>
              phase'[d] = phase[d] /\ source'[d] = source[d] /\ expiresAt'[d] = expiresAt[d]
        BY <2>6 DEF Own
      <3>4. OwnersRegistered'
        BY <2>1, <2>2, <2>6, <3>2, <3>3 DEF OwnersRegistered, args
      <3>5. SuccessKept'
        BY <2>1, <2>3, <2>4, <2>6, <3>2, <3>3 DEF SuccessKept, args
      <3>6. ttl[c] > 0 => expiresAt'[c] = now + ttl[c]
        BY <2>6 DEF Own
      <3>7. OwnersInTime'
        <4> SUFFICES ASSUME NEW d \in Callers, phase'[d] = "owner", ttl[d] > 0
                     PROVE now < expiresAt'[d]
          BY <2>1 DEF OwnersInTime, args
        <4>1. ttl[d] \in Nat /\ now \in Nat
          OBVIOUS
        <4>2. CASE d = c
          BY <3>6, <4>1, <4>2
        <4>3. CASE d # c
          BY <3>3, <4>3 DEF OwnersInTime
        <4>4. QED
          BY <4>2, <4>3
      <3>8. QED
        BY <3>4, <3>5, <3>7
    <2>7. QED
      BY <1>1, <2>5, <2>6 DEF Execute
  <1>2. ASSUME NEW c \in Callers, NEW s \in Settlements, Settle(c, s) PROVE Timed'
    BY <1>2 DEF Settle, args, OwnersInTime, OwnersRegistered, SuccessKept
  <1>3. ASSUME NEW c \in Callers, OwnerContinues(c) PROVE Timed'
    <2>1. entry[key[c]] = c /\ key[c] \in Keys /\ source[c] = c /\ promise[c] # "pending"
      BY <1>3 DEF OwnerContinues, OwnersRegistered, OwnersAreSources
    <2>2. UNCHANGED <<now, args, expiresAt, source>>
      BY <1>3 DEF OwnerContinues
    <2>3. \A d \in Callers : d # c => phase'[d] = phase[d] /\ outcome'[d] = outcome[d]
      BY <1>3 DEF OwnerContinues
    <2>4. phase'[c] = "done" /\ outcome'[c] = promise[c]
      BY <1>3 DEF OwnerContinues
    <2>5. \A k \in Keys : k # key[c] => entry'[k] = entry[k]
      BY <1>3 DEF OwnerContinues
    <2>6. \A d \in Callers : d # c /\ entry[key[d]] = d => key[d] # key[c]
      BY <2>1
    <2>7. OwnersInTime' /\ OwnersRegistered'
      BY <2>2, <2>3, <2>4, <2>5, <2>6 DEF args, OwnersInTime, OwnersRegistered
    <2>8. outcome'[c] = "ok" /\ ttl[c] > 0 => entry'[key[c]] = c
      BY <1>3, <2>1, <2>4 DEF OwnerContinues, Deletes
    <2>9. SuccessKept'
      BY <2>2, <2>3, <2>5, <2>6, <2>8 DEF args, SuccessKept
    <2>10. QED
      BY <2>7, <2>9
  <1>4. ASSUME NEW c \in Callers, JoinedContinues(c) PROVE Timed'
    <2>1. source[c] # c /\ phase[c] = "joined"
      BY <1>4 DEF JoinedContinues, OwnersAreSources
    <2>2. QED
      BY <1>4, <2>1
      DEF JoinedContinues, args, OwnersInTime, OwnersRegistered, SuccessKept
  <1>5. ~clear
    BY DEF clear
  <1>6. CASE Tick
    <2>1. OwnersInTime'
      BY <1>6 DEF Tick, args, OwnersInTime
    <2>2. OwnersRegistered' /\ SuccessKept'
      BY <1>6 DEF Tick, args, OwnersRegistered, SuccessKept
    <2>3. QED
      BY <2>1, <2>2
  <1>7. CASE UNCHANGED vars
    BY <1>7 DEF vars, OwnersInTime, OwnersRegistered, SuccessKept
  <1>8. QED
    BY <1>1, <1>2, <1>3, <1>4, <1>5, <1>6, <1>7 DEF Next, Work

\* And with it what concerns the clock.
LEMMA TimedInvariant ==
  Spec => [](BaseInv /\ TimedInv)
  <1>1. Init => TimedInv
    BY DEF Init, TimedInv, Timed, OwnersInTime, OwnersRegistered, SuccessKept
  <1>2. QED
    BY <1>1, BaseInvariant, TimedStep, PTL DEF Spec

(***************************************************************************)
(* "Reuses the same promise for duplicate keys while a request is in       *)
(* flight", for every number of callers, keys and TTLs - as long as calls  *)
(* are shorter than their TTL (or use ttlMs = 0) and nobody calls clear(). *)
(***************************************************************************)
THEOREM AtMostOneInFlight ==
  Spec => []OneInFlight
  <1>1. BaseInv /\ TimedInv => OneInFlight
    BY DEF BaseInv, TimedInv, Timed, OwnersAreSources, OwnersRegistered, OneInFlight, Shared
  <1>2. QED
    BY <1>1, TimedInvariant, PTL

(***************************************************************************)
(* Under the same condition no fn is started while a success of the same   *)
(* key is within its TTL: duplicates are answered from the registry.       *)
(***************************************************************************)
THEOREM SuccessIsReplayed ==
  Spec => SuccessReplayed
  <1> DEFINE A == \A c, d \in Callers :
       onTime /\ Starts(c) /\ outcome[d] = "ok" /\ source[d] = d /\ key[d] = key[c] /\ ttl[d] > 0
         => expiresAt[d] <= now
  <1>1. BaseInv /\ TimedInv /\ [Next]_vars => [A]_vars
    <2> SUFFICES ASSUME BaseInv, TimedInv, Next, NEW c \in Callers, NEW d \in Callers,
                        onTime, Starts(c), outcome[d] = "ok", source[d] = d, key[d] = key[c], ttl[d] > 0,
                        ~(expiresAt[d] <= now)
                 PROVE FALSE
      OBVIOUS
    <2>1. Execute(c) /\ Own(c) /\ Pruned[key[c]] = None
      <3>1. ASSUME NEW b \in Callers, Execute(b)
            PROVE Execute(c) /\ Own(c) /\ Pruned[key[c]] = None
        BY <3>1 DEF Starts, Execute, Join, Own, BaseInv, TypeOK
      <3>2. ASSUME NEW b \in Callers, NEW s \in Settlements, Settle(b, s) PROVE FALSE
        BY <3>2 DEF Starts, Settle
      <3>3. ASSUME NEW b \in Callers, OwnerContinues(b) PROVE FALSE
        BY <3>3 DEF Starts, OwnerContinues, BaseInv, TypeOK
      <3>4. ASSUME NEW b \in Callers, JoinedContinues(b) PROVE FALSE
        BY <3>4 DEF Starts, JoinedContinues, BaseInv, TypeOK
      <3>5. ~clear /\ ~Tick
        BY DEF Starts, clear, Tick
      <3>6. QED
        BY <3>1, <3>2, <3>3, <3>4, <3>5 DEF Next, Work
    <2>2. entry[key[d]] = d /\ key[d] \in Keys /\ ~Expired(d)
      BY DEF BaseInv, TypeOK, TimedInv, Timed, SuccessKept, Expired
    <2>3. Pruned[key[d]] = d
      BY <2>2, PrunedLemma, NoneAssumption DEF BaseInv
    <2>4. QED
      BY <2>1, <2>3, NoneAssumption
  <1>2. QED
    BY <1>1, TimedInvariant, PTL DEF Spec, SuccessReplayed

(***************************************************************************)
(* What a call awaits and returns: the promise of a call with its own key, *)
(* and what that promise settled to.                                       *)
(***************************************************************************)
Shares ==
  \A c \in Callers :
    /\ phase[c] = "owner" => promise[c] # "none"
    /\ promise[c] # "none" => source[c] = c /\ phase[c] \in {"owner", "done"}
    /\ source[c] # None => key[source[c]] = key[c] /\ promise[source[c]] # "none"
    /\ phase[c] = "done" => source[c] # None /\ outcome[c] = promise[source[c]] /\ outcome[c] # "pending"
    /\ outcome[c] # "none" => phase[c] = "done"

\* Every step keeps that a call returns what its source returned.
LEMMA SharesStep == BaseInv /\ Shares /\ [Next]_vars => Shares'
  <1> SUFFICES ASSUME BaseInv, Shares, [Next]_vars PROVE Shares'
    OBVIOUS
  <1> USE NoneAssumption, ErrorsAssumption
  <1> USE DEF BaseInv, TypeOK
  <1>0. \A k \in Keys : entry[k] # None => entry[k] \in Callers /\ key[entry[k]] = k /\ promise[entry[k]] # "none"
    <2> SUFFICES ASSUME NEW k \in Keys, entry[k] # None
                 PROVE  entry[k] \in Callers /\ key[entry[k]] = k /\ promise[entry[k]] # "none"
      OBVIOUS
    <2>1. /\ entry[k] \in Callers /\ key[entry[k]] = k /\ source[entry[k]] = entry[k]
          /\ phase[entry[k]] \in {"owner", "done"}
      BY DEF EntryMeaning, EntriesOwned
    <2>2. QED
      BY <2>1 DEF Shares
  <1>1. ASSUME NEW c \in Callers, Execute(c) PROVE Shares'
    <2>1. /\ phase[c] = "idle" /\ key[c] \in Keys /\ UNCHANGED <<args, outcome>>
          /\ source[c] = None /\ promise[c] = "none" /\ outcome[c] = "none"
      BY <1>1 DEF Execute, OwnersAreSources
    <2>2. \A d \in Callers : source[d] # c
      BY <2>1 DEF Shares
    <2>3. CASE Pruned[key[c]] # None /\ Join(c)
      <3>1. Pruned[key[c]] = entry[key[c]]
        BY <2>1, <2>3, PrunedLemma
      <3>2. /\ source'[c] \in Callers /\ source'[c] # None /\ key[source'[c]] = key[c] /\ promise[source'[c]] # "none"
            /\ phase'[c] = "joined" /\ UNCHANGED promise
        BY <1>0, <2>1, <2>3, <3>1 DEF Join
      <3>3. \A d \in Callers : d # c => phase'[d] = phase[d] /\ source'[d] = source[d]
        BY <2>3 DEF Join
      <3>4. QED
        BY <2>1, <3>2, <3>3 DEF Shares, args
    <2>4. CASE Pruned[key[c]] = None /\ Own(c)
      <3>1. phase'[c] = "owner" /\ source'[c] = c /\ promise'[c] = "pending"
        BY <2>4 DEF Own
      <3>2. \A d \in Callers : d # c => phase'[d] = phase[d] /\ source'[d] = source[d] /\ promise'[d] = promise[d]
        BY <2>4 DEF Own
      <3>3. QED
        BY <2>1, <2>2, <3>1, <3>2 DEF Shares, args
    <2>5. QED
      BY <1>1, <2>3, <2>4 DEF Execute
  <1>2. ASSUME NEW c \in Callers, NEW s \in Settlements, Settle(c, s) PROVE Shares'
    <2>1. promise[c] = "pending" /\ s # "none" /\ UNCHANGED <<phase, args, source, outcome>>
      BY <1>2 DEF Settle
    <2>2. promise'[c] = s /\ \A d \in Callers : d # c => promise'[d] = promise[d]
      BY <1>2 DEF Settle
    <2>3. \A d \in Callers : phase[d] = "done" => source[d] # c
      BY <2>1 DEF Shares
    <2>4. QED
      BY <2>1, <2>2, <2>3 DEF Shares, args
  <1>3. ASSUME NEW c \in Callers, OwnerContinues(c) PROVE Shares'
    <2>1. /\ phase[c] = "owner" /\ promise[c] # "pending" /\ source[c] = c /\ UNCHANGED <<args, promise, source>>
          /\ phase'[c] = "done" /\ outcome'[c] = promise[c] /\ promise[c] # "none"
      BY <1>3 DEF OwnerContinues, OwnersAreSources, Shares
    <2>2. \A d \in Callers : d # c => phase'[d] = phase[d] /\ outcome'[d] = outcome[d]
      BY <1>3 DEF OwnerContinues
    <2>3. QED
      BY <2>1, <2>2 DEF Shares, args
  <1>4. ASSUME NEW c \in Callers, JoinedContinues(c) PROVE Shares'
    <2>1. /\ phase[c] = "joined" /\ promise[source[c]] \in Settlements /\ source[c] \in Callers
          /\ phase'[c] = "done" /\ outcome'[c] = promise[source[c]] /\ UNCHANGED <<args, promise, source>>
      BY <1>4 DEF JoinedContinues, OwnersAreSources
    <2>2. \A d \in Callers : d # c => phase'[d] = phase[d] /\ outcome'[d] = outcome[d]
      BY <1>4 DEF JoinedContinues
    <2>3. promise[c] = "none"
      BY <2>1 DEF Shares
    <2>4. QED
      BY <2>1, <2>2, <2>3 DEF Shares, args
  <1>5. CASE clear
    BY <1>5 DEF clear, args, Shares
  <1>6. CASE Tick
    BY <1>6 DEF Tick, args, Shares
  <1>7. CASE UNCHANGED vars
    BY <1>7 DEF vars, Shares
  <1>8. QED
    BY <1>1, <1>2, <1>3, <1>4, <1>5, <1>6, <1>7 DEF Next, Work

(***************************************************************************)
(* Whatever is pruned, deleted or cleared meanwhile, a call returns what   *)
(* one promise of its own key settled to, and only an owner runs fn        *)
(* (core/idempotency.ts, execute).                                         *)
(***************************************************************************)
THEOREM ResultsAreShared == Spec => []Shares
  <1>1. Init => Shares
    BY NoneAssumption DEF Init, Shares
  <1>2. QED
    BY <1>1, BaseInvariant, SharesStep, PTL DEF Spec

(***************************************************************************)
(* Two calls that run fn for one key, or ran it with success, began at     *)
(* least a TTL apart: expiresAt is the time they began plus their TTL.     *)
(***************************************************************************)
Apart(c, d) == expiresAt[d] + ttl[c] <= expiresAt[c] \/ expiresAt[c] + ttl[d] <= expiresAt[d]

Counts(c) == promise[c] \in {"pending", "ok"} /\ ttl[c] > 0

RunsApart == onTime => \A c, d \in Callers : c # d /\ key[c] = key[d] /\ Counts(c) /\ Counts(d) => Apart(c, d)

\* A call that becomes an owner finds no other in time.
LEMMA OthersOver ==
  ASSUME BaseInv, Shares, Timed, NEW c \in Callers, NEW d \in Callers, key[c] = key[d], Pruned[key[c]] = None, Counts(d)
  PROVE  expiresAt[d] \in Nat /\ expiresAt[d] <= now
  <1> USE NoneAssumption, TtlsAssumption, ErrorsAssumption DEF BaseInv, TypeOK
  <1>1. source[d] = d /\ phase[d] \in {"owner", "done"} /\ now \in Nat /\ key[d] \in Keys
    BY DEF Shares, Counts
  <1>2. expiresAt[d] \in Nat
    BY <1>1 DEF ExpiryMeaning, Counts
  <1>3. SUFFICES ASSUME now < expiresAt[d] PROVE FALSE
    BY <1>1, <1>2
  <1>4. entry[key[d]] = d
    <2>1. CASE phase[d] = "owner"
      BY <2>1 DEF Timed, OwnersRegistered
    <2>2. CASE phase[d] = "done"
      <3>1. outcome[d] = "ok"
        BY <1>1, <2>2 DEF Shares, Counts
      <3>2. QED
        BY <1>1, <1>3, <3>1 DEF Timed, SuccessKept, Counts
    <2>3. QED
      BY <1>1, <2>1, <2>2
  <1>5. ~Expired(d)
    <2>1. \A m, n \in Nat : m < n => ~(n <= m)
      OBVIOUS
    <2>2. ~(expiresAt[d] <= now)
      BY ONLY <1>1, <1>2, <1>3, <2>1
    <2>3. QED
      BY ONLY <2>2 DEF Expired
  <1>6. QED
    BY <1>1, <1>4, <1>5, PrunedLemma

\* Every step keeps runs of one key apart.
LEMMA RunsApartStep == BaseInv /\ Shares /\ TimedInv /\ RunsApart /\ [Next]_vars => RunsApart'
  <1> SUFFICES ASSUME BaseInv, Shares, TimedInv, RunsApart, [Next]_vars, onTime',
                      NEW c \in Callers, NEW d \in Callers, c # d, key'[c] = key'[d], Counts(c)', Counts(d)'
               PROVE  Apart(c, d)'
    BY DEF RunsApart
  <1>0. onTime /\ UNCHANGED args
    BY DEF Next, Work, Execute, Settle, OwnerContinues, JoinedContinues, clear, Tick, vars, args
  <1>1. Timed
    BY <1>0 DEF TimedInv
  <1>2. ASSUME Counts(c), Counts(d), expiresAt'[c] = expiresAt[c], expiresAt'[d] = expiresAt[d] PROVE Apart(c, d)'
    BY <1>0, <1>2 DEF RunsApart, Apart, args
  <1>3. ASSUME NEW b \in Callers, Execute(b) PROVE Apart(c, d)'
    <2>1. CASE Join(b)
      BY <1>0, <1>2, <2>1 DEF Join, Counts, args
    <2>2. CASE Pruned[key[b]] = None /\ Own(b)
      <3>1. ASSUME NEW a \in Callers, a # b
            PROVE  promise'[a] = promise[a] /\ expiresAt'[a] = expiresAt[a]
        BY <2>2, <3>1 DEF Own, BaseInv, TypeOK
      <3>2. ttl[b] \in Nat /\ now \in Nat /\ (ttl[b] > 0 => expiresAt'[b] = now + ttl[b])
        BY <2>2, TtlsAssumption DEF Own, BaseInv, TypeOK
      <3>3. ASSUME NEW a \in Callers, a # b, key[a] = key[b], Counts(a)', Counts(b)'
            PROVE  expiresAt'[a] + ttl[b] <= expiresAt'[b]
        <4>1. Counts(a) /\ ttl[b] > 0
          BY <1>0, <3>1, <3>3 DEF Counts, args
        <4>2. expiresAt[a] \in Nat /\ expiresAt[a] <= now
          BY <1>1, <2>2, <3>3, <4>1, OthersOver
        <4>3. QED
          BY <3>1, <3>2, <3>3, <4>1, <4>2
      <3>4. CASE b \notin {c, d}
        BY <1>0, <1>2, <3>1, <3>4 DEF Counts, args
      <3>5. CASE b = c
        BY <1>0, <3>3, <3>5 DEF Apart, args
      <3>6. CASE b = d
        BY <1>0, <3>3, <3>6 DEF Apart, args
      <3>7. QED
        BY <3>4, <3>5, <3>6
    <2>3. QED
      BY <1>3, <2>1, <2>2 DEF Execute
  <1>4. ASSUME NEW b \in Callers, NEW s \in Settlements, Settle(b, s) PROVE Apart(c, d)'
    <2>1. Counts(c) /\ Counts(d)
      BY <1>0, <1>4 DEF Settle, Counts, args, BaseInv, TypeOK
    <2>2. QED
      BY <1>2, <1>4, <2>1 DEF Settle
  <1>5. ASSUME NEW b \in Callers, OwnerContinues(b) \/ JoinedContinues(b) PROVE Apart(c, d)'
    BY <1>0, <1>2, <1>5 DEF OwnerContinues, JoinedContinues, Counts, args
  <1>6. CASE clear \/ Tick \/ UNCHANGED vars
    BY <1>0, <1>2, <1>6 DEF clear, Tick, vars, Counts, args
  <1>7. QED
    BY <1>3, <1>4, <1>5, <1>6 DEF Next, Work

(***************************************************************************)
(* Under the same condition as before: whatever the order of calls,        *)
(* settlements, errors and prunings, fn runs or has run with success at    *)
(* most once per key and TTL window (core/idempotency.ts, execute).        *)
(***************************************************************************)
THEOREM OneRunPerWindow == Spec => []RunsApart
  <1>1. Init => RunsApart
    BY DEF Init, RunsApart, Counts
  <1>2. QED
    BY <1>1, TimedInvariant, ResultsAreShared, RunsApartStep, PTL DEF Spec
=============================================================================
