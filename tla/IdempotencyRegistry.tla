------------------------- MODULE IdempotencyRegistry -------------------------
(***************************************************************************)
(* class IdempotencyRegistry (core/idempotency.ts): execute(key, fn)       *)
(* shares one promise among the calls made with the same key.              *)
(*                                                                         *)
(* Each caller makes one call of execute.  A call either joins the promise *)
(* stored under its key or becomes its owner: it starts fn, stores the     *)
(* promise and, once the promise has settled, runs the catch and finally   *)
(* blocks, which delete by key - whatever entry the key has by then.       *)
(* The promise of owner c is identified with c itself, so entry[k] is the  *)
(* caller whose promise is stored under k.                                 *)
(***************************************************************************)
EXTENDS Integers

CONSTANTS
  Callers,     \* calls of execute
  Keys,        \* normalised, non-empty keys
  Ttls,        \* values of max(0, ttlMs)
  Errors,      \* what fn may reject with
  MaxTime,     \* bound: last instant of the clock
  None         \* no caller

ASSUME TtlsAssumption == Ttls \subseteq Nat
ASSUME MaxTimeAssumption == MaxTime \in Nat
ASSUME ErrorsAssumption == Errors \cap {"none", "pending", "ok"} = {}
ASSUME NoneAssumption == None \notin Callers

VARIABLES
  now,        \* Date.now()
  entry,      \* the map: key -> owner of the stored promise, or None
  phase,      \* where each call is: see Phases
  key,        \* its key argument
  ttl,        \* its ttlMs option
  cacheErrs,  \* its cacheErrors option
  expiresAt,  \* expiresAt of the entry an owner stored
  promise,    \* state of the promise an owner's fn returned
  source,     \* whose promise the call awaits (its own if it is an owner)
  outcome,    \* what the call returned or threw
  onTime      \* history: no clear() so far, no call outlived the TTL it set

vars == <<now, entry, phase, key, ttl, cacheErrs, expiresAt, promise, source, outcome, onTime>>

Never == -1

\* idle, then owner or joined, then done
Phases == {"idle", "owner", "joined", "done"}
Settlements == {"ok"} \cup Errors
PromiseStates == {"none", "pending"} \cup Settlements

Init ==
  /\ now = 0
  /\ entry = [k \in Keys |-> None]
  /\ phase = [c \in Callers |-> "idle"]
  /\ key \in [Callers -> Keys]
  /\ ttl \in [Callers -> Ttls]
  /\ cacheErrs \in [Callers -> BOOLEAN]
  /\ expiresAt = [c \in Callers |-> Never]
  /\ promise = [c \in Callers |-> "none"]
  /\ source = [c \in Callers |-> None]
  /\ outcome = [c \in Callers |-> "none"]
  /\ onTime = TRUE

args == <<key, ttl, cacheErrs>>

-----------------------------------------------------------------------------
(***************************************************************************)
(* pruneExpired: entries whose expiresAt has been reached are deleted, the *)
(* in-flight ones too.                                                     *)
(***************************************************************************)
Expired(c) == expiresAt[c] # Never /\ expiresAt[c] <= now

\* Mutant: an entry expires only after its last instant.
Pruned_Late ==
  [k \in Keys |-> IF entry[k] # None /\ expiresAt[entry[k]] # Never /\ expiresAt[entry[k]] < now
                  THEN None ELSE entry[k]]

Pruned == [k \in Keys |-> IF entry[k] # None /\ Expired(entry[k]) THEN None ELSE entry[k]]

\* Mutant: the promise is stored only after fn has settled.
Own_Unregistered(c) ==
  /\ entry' = Pruned
  /\ phase' = [phase EXCEPT ![c] = "owner"]
  /\ promise' = [promise EXCEPT ![c] = "pending"]
  /\ source' = [source EXCEPT ![c] = c]
  /\ expiresAt' = [expiresAt EXCEPT ![c] = IF ttl[c] > 0 THEN now + ttl[c] ELSE Never]

Own(c) ==
  /\ entry' = [Pruned EXCEPT ![key[c]] = c]
  /\ phase' = [phase EXCEPT ![c] = "owner"]
  /\ promise' = [promise EXCEPT ![c] = "pending"]
  /\ source' = [source EXCEPT ![c] = c]
  /\ expiresAt' = [expiresAt EXCEPT ![c] = IF ttl[c] > 0 THEN now + ttl[c] ELSE Never]

Join(c) ==
  /\ entry' = Pruned
  /\ phase' = [phase EXCEPT ![c] = "joined"]
  /\ source' = [source EXCEPT ![c] = Pruned[key[c]]]
  /\ UNCHANGED <<promise, expiresAt>>

Execute(c) ==
  /\ phase[c] = "idle"
  /\ \/ Pruned[key[c]] # None /\ Join(c)
     \/ Pruned[key[c]] = None /\ Own(c)
  /\ UNCHANGED <<now, args, outcome, onTime>>

(***************************************************************************)
(* The promise that fn returned settles.                                   *)
(***************************************************************************)
Settle(c, s) ==
  /\ promise[c] = "pending"
  /\ promise' = [promise EXCEPT ![c] = s]
  /\ UNCHANGED <<now, entry, phase, args, expiresAt, source, outcome, onTime>>

(***************************************************************************)
(* The owner continues after its await: catch and finally delete whatever  *)
(* is stored under the key.                                                *)
(***************************************************************************)
Deletes(c) == (promise[c] \in Errors /\ ~cacheErrs[c]) \/ ttl[c] = 0

\* Mutant: the finally block deletes the entry after every call.
OwnerContinues_Drops(c) ==
  /\ phase[c] = "owner" /\ promise[c] # "pending"
  /\ entry' = [entry EXCEPT ![key[c]] = None]
  /\ phase' = [phase EXCEPT ![c] = "done"]
  /\ outcome' = [outcome EXCEPT ![c] = promise[c]]
  /\ UNCHANGED <<now, args, expiresAt, promise, source, onTime>>

OwnerContinues(c) ==
  /\ phase[c] = "owner" /\ promise[c] # "pending"
  /\ entry' = IF Deletes(c) THEN [entry EXCEPT ![key[c]] = None] ELSE entry
  /\ phase' = [phase EXCEPT ![c] = "done"]
  /\ outcome' = [outcome EXCEPT ![c] = promise[c]]
  /\ UNCHANGED <<now, args, expiresAt, promise, source, onTime>>

\* Mutant: a call that joined looks the promise up again when it continues.
JoinedContinues_LooksUp(c) ==
  /\ phase[c] = "joined" /\ entry[key[c]] # None
  /\ promise[entry[key[c]]] \in Settlements
  /\ phase' = [phase EXCEPT ![c] = "done"]
  /\ outcome' = [outcome EXCEPT ![c] = promise[entry[key[c]]]]
  /\ UNCHANGED <<now, entry, args, expiresAt, promise, source, onTime>>

JoinedContinues(c) ==
  /\ phase[c] = "joined" /\ promise[source[c]] \in Settlements
  /\ phase' = [phase EXCEPT ![c] = "done"]
  /\ outcome' = [outcome EXCEPT ![c] = promise[source[c]]]
  /\ UNCHANGED <<now, entry, args, expiresAt, promise, source, onTime>>

clear ==
  /\ entry' = [k \in Keys |-> None]
  /\ onTime' = FALSE
  /\ UNCHANGED <<now, phase, args, expiresAt, promise, source, outcome>>

(***************************************************************************)
(* Time passes.                                                            *)
(***************************************************************************)
Tick ==
  /\ now < MaxTime
  /\ now' = now + 1
  /\ onTime' = (onTime /\ \A c \in Callers :
                            phase[c] = "owner" /\ ttl[c] > 0 => now + 1 < expiresAt[c])
  /\ UNCHANGED <<entry, phase, args, expiresAt, promise, source, outcome>>

Work(c) == (\E s \in Settlements : Settle(c, s)) \/ OwnerContinues(c) \/ JoinedContinues(c)

Next ==
  \/ \E c \in Callers : Execute(c) \/ Work(c)
  \/ clear
  \/ Tick

Spec == Init /\ [][Next]_vars

(***************************************************************************)
(* fn settles, and continuations of settled promises are run.              *)
(***************************************************************************)
FairSpec == Spec /\ \A c \in Callers : WF_vars(Work(c))

-----------------------------------------------------------------------------
(***************************************************************************)
(* TypeOK: the map and the calls.                                          *)
(***************************************************************************)
TypeOK ==
  /\ now \in Nat
  /\ entry \in [Keys -> Callers \cup {None}]
  /\ phase \in [Callers -> Phases]
  /\ key \in [Callers -> Keys]
  /\ ttl \in [Callers -> Ttls]
  /\ cacheErrs \in [Callers -> BOOLEAN]
  /\ expiresAt \in [Callers -> Nat \cup {Never}]
  /\ promise \in [Callers -> PromiseStates]
  /\ source \in [Callers -> Callers \cup {None}]
  /\ outcome \in [Callers -> {"none"} \cup Settlements]
  /\ onTime \in BOOLEAN

(***************************************************************************)
(* fn never runs twice at the same time for one key, whatever the order of *)
(* calls, settlements and errors (the entry stored by execute) - as long   *)
(* as calls are shorter than the TTL they set and nobody clears the map.   *)
(***************************************************************************)
Shared ==
  \A c, d \in Callers :
    promise[c] = "pending" /\ promise[d] = "pending" /\ key[c] = key[d] => c = d

OneInFlight == onTime => Shared

(***************************************************************************)
(* "replays successful results for a short TTL window": no call starts fn  *)
(* for a key while a successful result of that key is within its TTL (the  *)
(* deletes by key in execute) - under the same condition.                  *)
(***************************************************************************)
Starts(c) == phase[c] = "idle" /\ phase'[c] = "owner"

SuccessReplayed ==
  [][\A c, d \in Callers :
       onTime /\ Starts(c) /\ outcome[d] = "ok" /\ source[d] = d /\ key[d] = key[c] /\ ttl[d] > 0
         => expiresAt[d] <= now]_vars

(***************************************************************************)
(* Nothing is replayed past its time: a call joins a promise only while    *)
(* that promise is in flight or within its TTL.  With ttlMs = 0 a finished *)
(* result is never replayed (the finally block), with cacheErrors = false  *)
(* neither is a finished failure (the catch block).                        *)
(***************************************************************************)
Joins(c, d) == phase[c] = "idle" /\ phase'[c] = "joined" /\ source'[c] = d

NoStaleReplay ==
  [][\A c, d \in Callers :
       Joins(c, d) /\ phase[d] = "done" =>
         /\ ttl[d] > 0 /\ now < expiresAt[d]
         /\ outcome[d] \in Errors => cacheErrs[d]]_vars

(***************************************************************************)
(* Every call returns once fn settles: a call that joined is not stranded  *)
(* when its entry is deleted, expires or is cleared.                       *)
(***************************************************************************)
EveryCallReturns ==
  \A c \in Callers : phase[c] \in {"owner", "joined"} ~> phase[c] = "done"
=============================================================================
