------------------------------- MODULE Semaphore -------------------------------
(***************************************************************************)
(* class Semaphore (core/concurrency.ts), which caps parallel proof        *)
(* generation in SnarkjsProofGenerator.                                    *)
(*                                                                         *)
(* Each caller runs acquire, then its work, then release, any number of    *)
(* times, as runExclusive does: its release function is called once for    *)
(* each permit.  release hands the permit to the longest waiting caller    *)
(* without touching the counter.                                           *)
(***************************************************************************)
EXTENDS Integers, Sequences, FiniteSets

CONSTANTS
  Callers,       \* callers of acquire / runExclusive
  maxPermits     \* constructor argument

ASSUME CallersAssumption == IsFiniteSet(Callers)
ASSUME PermitsAssumption == maxPermits \in Nat \ {0}

VARIABLES
  active,   \* active
  waiters,  \* waiters, oldest first
  phase     \* of each caller: see Phases

vars == <<active, waiters, phase>>

Phases == {"idle", "waiting", "holding"}

Init ==
  /\ active = 0
  /\ waiters = <<>>
  /\ phase = [c \in Callers |-> "idle"]

\* Mutant: the permit check admits one caller too many.
acquire_OffByOne(c) ==
  /\ phase[c] = "idle"
  /\ \/ /\ active <= maxPermits
        /\ active' = active + 1
        /\ phase' = [phase EXCEPT ![c] = "holding"]
        /\ UNCHANGED waiters
     \/ /\ active > maxPermits
        /\ waiters' = Append(waiters, c)
        /\ phase' = [phase EXCEPT ![c] = "waiting"]
        /\ UNCHANGED active

acquire(c) ==
  /\ phase[c] = "idle"
  /\ \/ /\ active < maxPermits
        /\ active' = active + 1
        /\ phase' = [phase EXCEPT ![c] = "holding"]
        /\ UNCHANGED waiters
     \/ /\ active >= maxPermits
        /\ waiters' = Append(waiters, c)
        /\ phase' = [phase EXCEPT ![c] = "waiting"]
        /\ UNCHANGED active

(***************************************************************************)
(* The private release: hand over to the oldest waiter, or count down.     *)
(***************************************************************************)
HandOver(after) ==
  /\ waiters # <<>>
  /\ waiters' = Tail(waiters)
  /\ phase' = [after EXCEPT ![Head(waiters)] = "holding"]
  /\ UNCHANGED active

Less(n) == IF n > 0 THEN n - 1 ELSE 0

\* Mutant: the counter is decremented although the permit is handed over.
release_Decrements(c) ==
  /\ phase[c] = "holding"
  /\ LET after == [phase EXCEPT ![c] = "idle"] IN
       IF waiters # <<>>
       THEN /\ waiters' = Tail(waiters)
            /\ phase' = [after EXCEPT ![Head(waiters)] = "holding"]
            /\ active' = Less(active)
       ELSE /\ active' = Less(active) /\ phase' = after /\ UNCHANGED waiters

\* Mutant: as before, and the lower bound of the counter is gone too.
release_Negative(c) ==
  /\ phase[c] = "holding"
  /\ LET after == [phase EXCEPT ![c] = "idle"] IN
       IF waiters # <<>>
       THEN /\ waiters' = Tail(waiters)
            /\ phase' = [after EXCEPT ![Head(waiters)] = "holding"]
            /\ active' = active - 1
       ELSE /\ active' = active - 1 /\ phase' = after /\ UNCHANGED waiters

\* Mutant: waiters.pop() for waiters.shift().
release_Newest(c) ==
  /\ phase[c] = "holding"
  /\ LET after == [phase EXCEPT ![c] = "idle"] IN
       \/ /\ waiters # <<>>
          /\ waiters' = SubSeq(waiters, 1, Len(waiters) - 1)
          /\ phase' = [after EXCEPT ![waiters[Len(waiters)]] = "holding"]
          /\ UNCHANGED active
       \/ /\ waiters = <<>>
          /\ active' = Less(active) /\ phase' = after /\ UNCHANGED waiters

release(c) ==
  /\ phase[c] = "holding"
  /\ LET after == [phase EXCEPT ![c] = "idle"] IN
       \/ HandOver(after)
       \/ /\ waiters = <<>>
          /\ active' = Less(active) /\ phase' = after /\ UNCHANGED waiters

Next == \E c \in Callers : acquire(c) \/ release(c)

Spec == Init /\ [][Next]_vars

-----------------------------------------------------------------------------
Holders == {c \in Callers : phase[c] = "holding"}

(***************************************************************************)
(* TypeOK: the counter, the queue, the callers.                            *)
(***************************************************************************)
TypeOK ==
  /\ active \in Nat
  /\ waiters \in Seq(Callers)
  /\ phase \in [Callers -> Phases]

(***************************************************************************)
(* "Maximum number of concurrent holders": the permits are never exceeded. *)
(***************************************************************************)
HoldersBounded == Cardinality(Holders) <= maxPermits

(***************************************************************************)
(* No permit is lost or idle: the counter is the number of holders, and a  *)
(* caller waits only while every permit is taken.                          *)
(***************************************************************************)
NoIdlePermit ==
  /\ active = Cardinality(Holders)
  /\ waiters # <<>> => active = maxPermits

(***************************************************************************)
(* The queue holds exactly the waiting callers, each once.                 *)
(***************************************************************************)
QueueExact ==
  /\ \A c \in Callers : phase[c] = "waiting" <=> \E i \in 1..Len(waiters) : waiters[i] = c
  /\ \A i, j \in 1..Len(waiters) : waiters[i] = waiters[j] => i = j

(***************************************************************************)
(* Permits are exact: never exceeded, never lost and never left idle while *)
(* somebody waits (acquire, release).                                      *)
(***************************************************************************)
PermitsExact == TypeOK /\ HoldersBounded /\ NoIdlePermit

(***************************************************************************)
(* "Acquisitions are fair": a step that grants a permit to a caller passes *)
(* over nobody who was waiting before it.                                  *)
(***************************************************************************)
Grants(c) == phase[c] # "holding" /\ phase'[c] = "holding"

FirstComeFirstServed ==
  [][\A c, d \in Callers :
       Grants(c) /\ phase[d] = "waiting" /\ c # d =>
         \E i, j \in 1..Len(waiters) : i < j /\ waiters[i] = c /\ waiters[j] = d]_vars

=============================================================================
