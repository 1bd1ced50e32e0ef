------------------------- MODULE ProofGenerationProofs -------------------------
(***************************************************************************)
(* The semaphore and the proof generator on top of it, for every finite    *)
(* set of callers, any number of permits, witnesses, artifacts and clears. *)
(***************************************************************************)
EXTENDS ProofGeneration, FiniteSetTheorems, TLAPS

(***************************************************************************)
(* The semaphore.  The inductive invariant joins three facts that need one *)
(* another: the counter is the number of holders (or the hand-over could   *)
(* grow it unnoticed), the queue holds exactly the waiting callers (or the *)
(* hand-over could grant a permit to a holder), and somebody waits only    *)
(* while all permits are taken.                                            *)
(***************************************************************************)
IInv == TypeOK /\ QueueExact /\ NoIdlePermit /\ active <= maxPermits

(***************************************************************************)
(* Head and Tail of a non-empty queue of callers.                          *)
(***************************************************************************)
LEMMA QueueHead ==
  ASSUME waiters \in Seq(Callers), waiters # <<>>
  PROVE  /\ Len(waiters) \in Nat /\ Len(waiters) >= 1
         /\ Head(waiters) = waiters[1] /\ Head(waiters) \in Callers
         /\ Tail(waiters) \in Seq(Callers) /\ Len(Tail(waiters)) = Len(waiters) - 1
         /\ \A i \in 1..Len(waiters) - 1 : Tail(waiters)[i] = waiters[i + 1]
  OBVIOUS

\* There are finitely many holders of a permit.
LEMMA HoldersFinite == ASSUME TypeOK PROVE IsFiniteSet(Holders) /\ Cardinality(Holders) \in Nat
  <1>1. Holders \subseteq Callers
    BY DEF Holders
  <1>2. QED
    BY <1>1, CallersAssumption, FS_Subset, FS_CardinalityType

(***************************************************************************)
(* The hand-over of release: the oldest waiter becomes a holder in place   *)
(* of the caller that released.                                            *)
(***************************************************************************)
LEMMA HandOverStep ==
  ASSUME IInv, NEW c \in Callers, phase[c] = "holding",
         HandOver([phase EXCEPT ![c] = "idle"])
  PROVE  IInv'
  <1> USE PermitsAssumption
  <1> DEFINE w == Head(waiters)
  <1>1. /\ waiters # <<>> /\ waiters \in Seq(Callers) /\ w \in Callers /\ w = waiters[1]
        /\ Len(waiters) \in Nat /\ Len(waiters) >= 1
    BY QueueHead DEF HandOver, IInv, TypeOK
  <1>2. phase[w] = "waiting"
    BY <1>1 DEF IInv, QueueExact
  <1>3. /\ phase' = [phase EXCEPT ![c] = "idle", ![w] = "holding"] /\ w # c
        /\ waiters' = Tail(waiters) /\ active' = active
    BY <1>2 DEF HandOver
  <1>4. TypeOK'
    BY <1>1, <1>3, QueueHead DEF IInv, TypeOK, Phases
  <1>5. QueueExact'
    <2>1. \A i, j \in 1..Len(waiters') : waiters'[i] = waiters'[j] => i = j
      BY <1>1, <1>3, QueueHead DEF IInv, QueueExact
    <2>2. ASSUME NEW d \in Callers
          PROVE phase'[d] = "waiting" <=> \E i \in 1..Len(waiters') : waiters'[i] = d
      <3>1. CASE d = c
        <4>1. \A i \in 1..Len(waiters) : waiters[i] # c
          BY DEF IInv, QueueExact
        <4>2. phase'[d] # "waiting"
          BY <1>3, <3>1 DEF IInv, TypeOK
        <4>3. QED
          BY <1>1, <1>3, <3>1, <4>1, <4>2, QueueHead
      <3>2. CASE d = w
        <4>1. \A i \in 1..Len(waiters) : waiters[i] = w => i = 1
          BY <1>1 DEF IInv, QueueExact
        <4>2. phase'[d] # "waiting"
          BY <1>1, <1>3, <3>2 DEF IInv, TypeOK
        <4>3. \A i \in 1..Len(waiters) - 1 : waiters[i + 1] # w
          BY <1>1, <4>1
        <4>4. QED
          BY <1>1, <1>3, <3>2, <4>2, <4>3, QueueHead
      <3>3. CASE d # c /\ d # w
        <4>1. phase'[d] = phase[d]
          BY <1>3, <3>3 DEF IInv, TypeOK
        <4>2. ASSUME NEW i \in 1..Len(waiters), waiters[i] = d
              PROVE \E j \in 1..Len(waiters') : waiters'[j] = d
          <5>1. i # 1 /\ i - 1 \in 1..Len(waiters) - 1
            BY <1>1, <3>3, <4>2
          <5>2. waiters'[i - 1] = d /\ i - 1 \in 1..Len(waiters')
            BY <1>1, <1>3, <4>2, <5>1, QueueHead
          <5>3. QED
            BY <5>2
        <4>3. ASSUME NEW j \in 1..Len(waiters'), waiters'[j] = d
              PROVE \E i \in 1..Len(waiters) : waiters[i] = d
          <5>1. j + 1 \in 1..Len(waiters) /\ waiters[j + 1] = d
            BY <1>1, <1>3, <4>3, QueueHead
          <5>2. QED
            BY <5>1
        <4>4. QED
          BY <4>1, <4>2, <4>3 DEF IInv, QueueExact
      <3>4. QED
        BY <3>1, <3>2, <3>3
    <2>3. QED
      BY <2>1, <2>2 DEF QueueExact
  <1>6. Cardinality(Holders') = Cardinality(Holders)
    <2>1. Holders' = (Holders \ {c}) \cup {w}
      BY <1>1, <1>3 DEF Holders, IInv, TypeOK
    <2>2. c \in Holders /\ w \notin Holders \ {c} /\ IsFiniteSet(Holders)
      BY <1>2, HoldersFinite DEF Holders, IInv
    <2>3. IsFiniteSet(Holders \ {c}) /\ Cardinality(Holders \ {c}) = Cardinality(Holders) - 1
      BY <2>2, FS_RemoveElement
    <2>4. Cardinality(Holders') = Cardinality(Holders \ {c}) + 1
      BY <2>1, <2>2, <2>3, FS_AddElement
    <2>5. QED
      BY <2>3, <2>4, HoldersFinite DEF IInv
  <1>7. NoIdlePermit' /\ active' <= maxPermits
    BY <1>1, <1>3, <1>6 DEF IInv, NoIdlePermit
  <1>8. QED
    BY <1>4, <1>5, <1>7 DEF IInv

(***************************************************************************)
(* Each step of the semaphore preserves the invariant.                     *)
(***************************************************************************)
LEMMA InvStep == IInv /\ [Next]_vars => IInv'
  <1> SUFFICES ASSUME IInv, [Next]_vars PROVE IInv'
    OBVIOUS
  <1> USE PermitsAssumption
  <1>1. ASSUME NEW c \in Callers, phase[c] = "idle", active < maxPermits, active' = active + 1,
               phase' = [phase EXCEPT ![c] = "holding"], UNCHANGED waiters
        PROVE IInv'
    <2>1. TypeOK'
      BY <1>1 DEF IInv, TypeOK, Phases
    <2>2. QueueExact'
      BY <1>1 DEF IInv, TypeOK, QueueExact
    <2>3. Holders' = Holders \cup {c} /\ c \notin Holders
      BY <1>1 DEF Holders, IInv, TypeOK
    <2>4. Cardinality(Holders') = Cardinality(Holders) + 1
      BY <2>3, HoldersFinite, FS_AddElement DEF IInv
    <2>5. waiters = <<>>
      BY <1>1 DEF IInv, NoIdlePermit, TypeOK
    <2>6. QED
      BY <1>1, <2>1, <2>2, <2>4, <2>5 DEF IInv, NoIdlePermit, TypeOK
  <1>2. ASSUME NEW c \in Callers, phase[c] = "idle", active >= maxPermits,
               waiters' = Append(waiters, c), phase' = [phase EXCEPT ![c] = "waiting"],
               UNCHANGED active
        PROVE IInv'
    <2>1. waiters \in Seq(Callers) /\ Len(waiters) \in Nat
      BY DEF IInv, TypeOK
    <2>2. /\ Len(waiters') = Len(waiters) + 1 /\ waiters' \in Seq(Callers)
          /\ waiters'[Len(waiters) + 1] = c
          /\ \A i \in 1..Len(waiters) : waiters'[i] = waiters[i]
      BY <1>2, <2>1
    <2>3. TypeOK'
      BY <1>2, <2>2 DEF IInv, TypeOK, Phases
    <2>4. \A i \in 1..Len(waiters) : waiters[i] # c
      BY <1>2 DEF IInv, QueueExact
    <2>5. QueueExact'
      <3>1. \A i, j \in 1..Len(waiters') : waiters'[i] = waiters'[j] => i = j
        BY <2>1, <2>2, <2>4 DEF IInv, QueueExact
      <3>2. ASSUME NEW d \in Callers
            PROVE phase'[d] = "waiting" <=> \E i \in 1..Len(waiters') : waiters'[i] = d
        <4>1. CASE d = c
          BY <1>2, <2>1, <2>2, <4>1 DEF IInv, TypeOK
        <4>2. CASE d # c
          <5>1. phase'[d] = phase[d]
            BY <1>2, <4>2 DEF IInv, TypeOK
          <5>2. (\E i \in 1..Len(waiters') : waiters'[i] = d)
                  <=> \E i \in 1..Len(waiters) : waiters[i] = d
            BY <2>1, <2>2, <4>2
          <5>3. QED
            BY <5>1, <5>2 DEF IInv, QueueExact
        <4>3. QED
          BY <4>1, <4>2
      <3>3. QED
        BY <3>1, <3>2 DEF QueueExact
    <2>6. Holders' = Holders
      BY <1>2 DEF Holders, IInv, TypeOK
    <2>7. QED
      BY <1>2, <2>3, <2>5, <2>6 DEF IInv, NoIdlePermit, TypeOK
  <1>3. ASSUME NEW c \in Callers, phase[c] = "holding", waiters = <<>>,
               active' = Less(active), phase' = [phase EXCEPT ![c] = "idle"], UNCHANGED waiters
        PROVE IInv'
    <2>1. Holders' = Holders \ {c} /\ c \in Holders
      BY <1>3 DEF Holders, IInv, TypeOK
    <2>2. Cardinality(Holders') = Cardinality(Holders) - 1
      BY <2>1, HoldersFinite, FS_RemoveElement DEF IInv
    <2>3. Cardinality(Holders') \in Nat
      BY <2>1, HoldersFinite, FS_RemoveElement, FS_CardinalityType DEF IInv
    <2>4. active' = active - 1 /\ active' \in Nat
      BY <1>3, <2>2, <2>3, HoldersFinite DEF Less, IInv, NoIdlePermit, TypeOK
    <2>5. TypeOK' /\ QueueExact'
      BY <1>3, <2>4 DEF IInv, TypeOK, QueueExact, Phases
    <2>6. QED
      BY <1>3, <2>2, <2>4, <2>5 DEF IInv, NoIdlePermit, TypeOK
  <1>4. ASSUME NEW c \in Callers, acquire(c) PROVE IInv'
    BY <1>1, <1>2, <1>4 DEF acquire
  <1>5. ASSUME NEW c \in Callers, release(c) PROVE IInv'
    BY <1>3, <1>5, HandOverStep DEF release
  <1>6. CASE UNCHANGED vars
    BY <1>6 DEF vars, IInv, TypeOK, QueueExact, NoIdlePermit, Holders
  <1>7. QED
    BY <1>4, <1>5, <1>6 DEF Next

\* The invariant of the semaphore holds throughout.
LEMMA Invariant == Spec => []IInv
  <1>1. Init => IInv
    <2> SUFFICES ASSUME Init PROVE IInv
      OBVIOUS
    <2>1. TypeOK /\ QueueExact
      BY DEF Init, TypeOK, QueueExact, Phases
    <2>2. Holders = {}
      BY DEF Init, Holders
    <2>3. QED
      BY <2>1, <2>2, FS_EmptySet, PermitsAssumption DEF Init, IInv, NoIdlePermit
  <1>2. QED
    BY <1>1, InvStep, PTL DEF Spec

(***************************************************************************)
(* Types of the counter, the queue and the callers' phases.                *)
(***************************************************************************)
THEOREM SemaphoreTypes == Spec => []TypeOK
  BY Invariant, PTL DEF IInv

(***************************************************************************)
(* At no time do more callers hold a permit than the constructor allows.   *)
(***************************************************************************)
THEOREM PermitsRespected == Spec => []HoldersBounded
  <1>1. IInv => HoldersBounded
    BY DEF IInv, NoIdlePermit, HoldersBounded
  <1>2. QED
    BY <1>1, Invariant, PTL

(***************************************************************************)
(* No permit is lost: the counter is exact and nobody waits for a free one.*)
(***************************************************************************)
THEOREM PermitsNotLost == Spec => []NoIdlePermit
  BY Invariant, PTL DEF IInv

(***************************************************************************)
(* Permits are exact at all times, for any finite set of callers: bounded, *)
(* none lost, none idle while a caller of acquire() waits.                 *)
(***************************************************************************)
THEOREM PermitsAreExact == Spec => []PermitsExact
  BY SemaphoreTypes, PermitsRespected, PermitsNotLost, PTL DEF PermitsExact

(***************************************************************************)
(* Permits are granted in the order of the requests.                       *)
(***************************************************************************)
THEOREM FairGrants == Spec => FirstComeFirstServed
  <1> DEFINE A == \A c, d \in Callers :
       Grants(c) /\ phase[d] = "waiting" /\ c # d =>
         \E i, j \in 1..Len(waiters) : i < j /\ waiters[i] = c /\ waiters[j] = d
  <1>1. IInv /\ [Next]_vars => [A]_vars
    <2> SUFFICES ASSUME IInv, Next, NEW c \in Callers, NEW d \in Callers,
                        Grants(c), phase[d] = "waiting", c # d
                 PROVE \E i, j \in 1..Len(waiters) : i < j /\ waiters[i] = c /\ waiters[j] = d
      OBVIOUS
    <2>1. PICK j \in 1..Len(waiters) : waiters[j] = d
      BY DEF IInv, QueueExact
    <2>2. waiters \in Seq(Callers) /\ waiters # <<>> /\ active = maxPermits
      BY <2>1 DEF IInv, TypeOK, NoIdlePermit
    <2>3. PICK b \in Callers : acquire(b) \/ release(b)
      BY DEF Next
    <2>4. ~acquire(b)
      BY <2>2, PermitsAssumption DEF acquire, Grants, IInv, TypeOK
    <2>5. phase[b] = "holding" /\ HandOver([phase EXCEPT ![b] = "idle"])
      BY <2>2, <2>3, <2>4 DEF release
    <2>6. c = waiters[1] /\ Len(waiters) \in Nat /\ Len(waiters) >= 1
      BY <2>2, <2>5, QueueHead DEF HandOver, Grants, IInv, TypeOK
    <2>7. 1 < j /\ 1 \in 1..Len(waiters)
      BY <2>1, <2>6
    <2>8. QED
      BY <2>1, <2>6, <2>7
  <1>2. QED
    BY <1>1, Invariant, PTL DEF Spec, FirstComeFirstServed

-----------------------------------------------------------------------------
(***************************************************************************)
(* The generator.  It uses the semaphore as the steps above assume         *)
(* (ProofsUseSemaphore), so permits are exact and granted in order; a      *)
(* caller holds one exactly while its proof is being computed.  As long as *)
(* the cache is not cleared the two maps of promises name whoever works on *)
(* a witness or an artifact, which makes that one caller.                  *)
(***************************************************************************)
Contents == {"none", "good", "bad"}
Froms == [Artifacts -> Callers \cup {NoOne}]
Haves == [Artifacts -> Contents \cup {"failed"}]

JoinedJobs == [pc : {"joined"}, owner : Callers]
QueuedJobs == [pc : {"queued"}, witness : Witnesses]
FetchingJobs == [pc : {"fetching"}, witness : Witnesses, from : Froms, have : Haves]
PreloadingJobs == [pc : {"preloading"}, from : Froms, have : Haves]
ProvingJobs == [pc : {"proving"}, witness : Witnesses, use : Haves]
Jobs == {NoJob} \cup JoinedJobs \cup QueuedJobs \cup FetchingJobs \cup PreloadingJobs \cup ProvingJobs

Downloads == [stage : {"none", "get", "verify"}, content : Contents]

ProofTypeOK ==
  /\ job \in [Callers -> Jobs]
  /\ inflight \in [Witnesses -> Callers \cup {NoOne}]
  /\ caches \in [Artifacts -> Contents]
  /\ fetchPromise \in [Artifacts -> Callers \cup {NoOne}]
  /\ downloads \in [Artifacts -> [Callers -> Downloads]]
  /\ loaded \in [Artifacts -> BOOLEAN]
  /\ clears \in Nat

(***************************************************************************)
(* A caller waits for a permit or holds one exactly while it computes.     *)
(***************************************************************************)
PermitsMatch ==
  \A c \in Callers :
    /\ job[c].pc = "queued" => phase[c] \in {"waiting", "holding"}
    /\ job[c].pc \in {"fetching", "proving"} => phase[c] = "holding"
    /\ ~Computing(c) => phase[c] = "idle"

\* Whoever computes the proof of a witness is the one that others join.
ComputesRegistered == \A c \in Callers : Computing(c) => inflight[job[c].witness] = c

\* Whoever downloads an artifact is the one that others join; what it verifies is in the cache.
DownloadsRegistered ==
  \A k \in Artifacts, c \in Callers :
    /\ downloads[k][c].stage \in {"get", "verify"} => fetchPromise[k] = c
    /\ downloads[k][c].stage = "verify" => caches[k] # "none"

\* A fetch that is over has brought something or failed.
FetchesBring ==
  \A c \in Callers :
    /\ job[c].pc \in {"fetching", "preloading"} =>
         \A k \in Artifacts : job[c].from[k] = NoOne => job[c].have[k] # "none"
    /\ job[c].pc = "proving" => \A k \in Artifacts : job[c].use[k] # "none"

WorkInv == clears = 0 => ComputesRegistered /\ DownloadsRegistered /\ FetchesBring

ProofInv == IInv /\ ProofTypeOK /\ PermitsMatch /\ WorkInv

-----------------------------------------------------------------------------
(***************************************************************************)
(* A step of the generator is a step of the semaphore or leaves it alone.  *)
(***************************************************************************)
LEMMA SemaphoreSteps == [ProofNext]_proofVars => [Next]_vars
  <1> SUFFICES ASSUME [ProofNext]_proofVars PROVE [Next]_vars
    OBVIOUS
  <1>1. ASSUME NEW c \in Callers, NEW w \in Witnesses, generateProof(c, w) PROVE [Next]_vars
    BY <1>1 DEF generateProof, Next
  <1>2. ASSUME NEW c \in Callers, preload(c) \/ computeProof(c) \/ preloaded(c) PROVE [Next]_vars
    BY <1>2 DEF preload, computeProof, preloaded, fetchAll
  <1>3. ASSUME NEW c \in Callers, fetched(c) \/ fullProve(c) PROVE [Next]_vars
    BY <1>3 DEF fetched, fullProve, settle, Next
  <1>4. ASSUME NEW c \in Callers, DownloadSteps(c) PROVE [Next]_vars
    BY <1>4 DEF DownloadSteps, verifyHash, received
  <1>5. CASE clearArtifactCache \/ UNCHANGED proofVars
    BY <1>5 DEF clearArtifactCache, proofVars
  <1>6. QED
    BY <1>1, <1>2, <1>3, <1>4, <1>5 DEF ProofNext, callerSteps

(***************************************************************************)
(* The generator uses the semaphore as acquire and release are meant to be *)
(* used: each permit is released once, by the caller that holds it, also   *)
(* when a fetch or the proof fails (SnarkjsProofGenerator.ts, runExclusive *)
(* around computeProof).                                                   *)
(***************************************************************************)
THEOREM ProofsUseSemaphore == ProofSpec => Spec
  <1>1. ProofInit => Init
    BY DEF ProofInit
  <1>2. QED
    BY <1>1, SemaphoreSteps, PTL DEF ProofSpec, Spec

\* What a kind of job looks like.
LEMMA JobFacts ==
  ASSUME ProofTypeOK, NEW c \in Callers
  PROVE  /\ job[c].pc \in {"idle", "joined", "queued", "fetching", "preloading", "proving"}
         /\ job[c].pc = "idle" <=> job[c] = NoJob
         /\ job[c].pc = "joined" => job[c] \in JoinedJobs
         /\ job[c].pc = "queued" => job[c] \in QueuedJobs
         /\ job[c].pc = "fetching" => job[c] \in FetchingJobs
         /\ job[c].pc = "preloading" => job[c] \in PreloadingJobs
         /\ job[c].pc = "proving" => job[c] \in ProvingJobs
         /\ Computing(c) => job[c].witness \in Witnesses
  <1>1. job[c] \in Jobs
    BY DEF ProofTypeOK
  <1>2. QED
    BY <1>1 DEF Jobs, NoJob, JoinedJobs, QueuedJobs, FetchingJobs, PreloadingJobs, ProvingJobs, Computing

\* A fetch of a job ends: the job is of the same kind, for the same witness.
LEMMA FetchEnds ==
  ASSUME ProofTypeOK, NEW c \in Callers, job[c].pc \in {"fetching", "preloading"}, NEW k \in Artifacts,
         NEW value \in Contents \cup {"failed"},
         NEW j, j = [job[c] EXCEPT !.from[k] = NoOne, !.have[k] = value]
  PROVE  /\ j \in Jobs /\ j.pc = job[c].pc /\ (job[c].pc = "fetching" => j.witness = job[c].witness)
         /\ j.from = [job[c].from EXCEPT ![k] = NoOne] /\ j.have = [job[c].have EXCEPT ![k] = value]
         /\ job[c].from \in Froms /\ job[c].have \in Haves
  <1>1. CASE job[c].pc = "fetching"
    <2>1. job[c] \in FetchingJobs
      BY <1>1, JobFacts
    <2>2. j \in FetchingJobs
      BY <2>1 DEF FetchingJobs, Froms, Haves
    <2>3. QED
      BY <1>1, <2>1, <2>2 DEF FetchingJobs, Jobs
  <1>2. CASE job[c].pc = "preloading"
    <2>1. job[c] \in PreloadingJobs
      BY <1>2, JobFacts
    <2>2. j \in PreloadingJobs
      BY <2>1 DEF PreloadingJobs, Froms, Haves
    <2>3. QED
      BY <1>2, <2>1, <2>2 DEF PreloadingJobs, Jobs
  <1>3. QED
    BY <1>1, <1>2

\* What the end of a download changes.
LEMMA EndsEffect ==
  ASSUME ProofTypeOK, NEW c \in Callers, NEW k \in Artifacts, NEW value \in Contents \cup {"failed"}, Ends(k, c, value)
  PROVE  /\ job' \in [Callers -> Jobs]
         /\ fetchPromise' \in [Artifacts -> Callers \cup {NoOne}]
         /\ downloads' \in [Artifacts -> [Callers -> Downloads]]
         /\ \A d \in Callers :
              /\ job'[d].pc = job[d].pc
              /\ Computing(d) => job'[d].witness = job[d].witness
              /\ job[d].pc \notin {"fetching", "preloading"} => job'[d] = job[d]
         /\ \A d \in Callers, l \in Artifacts :
              job[d].pc \in {"fetching", "preloading"} /\ job'[d].from[l] = NoOne =>
                \/ job[d].from[l] = NoOne /\ job'[d].have[l] = job[d].have[l]
                \/ l = k /\ job'[d].have[l] = value
  <1> DEFINE After(d) == [job[d] EXCEPT !.from[k] = NoOne, !.have[k] = value]
             Waits(d) == job[d].pc \in {"fetching", "preloading"} /\ job[d].from[k] = c
  <1>1. \A d \in Callers : job'[d] = IF Waits(d) THEN After(d) ELSE job[d]
    BY DEF Ends
  <1>2. ASSUME NEW d \in Callers, Waits(d)
        PROVE  /\ After(d) \in Jobs /\ After(d).pc = job[d].pc /\ (job[d].pc = "fetching" => After(d).witness = job[d].witness)
               /\ After(d).from = [job[d].from EXCEPT ![k] = NoOne] /\ After(d).have = [job[d].have EXCEPT ![k] = value]
               /\ job[d].from \in Froms /\ job[d].have \in Haves
    BY <1>2, FetchEnds
  <1> HIDE DEF After
  <1>3. job' \in [Callers -> Jobs]
    <2>1. \A d \in Callers : job'[d] \in Jobs
      BY <1>1, <1>2 DEF ProofTypeOK
    <2>2. QED
      BY <2>1 DEF Ends
  <1>4. fetchPromise' \in [Artifacts -> Callers \cup {NoOne}] /\ downloads' \in [Artifacts -> [Callers -> Downloads]]
    BY DEF Ends, ProofTypeOK, NoDownload, Downloads, Contents
  <1>5. ASSUME NEW d \in Callers
        PROVE  /\ job'[d].pc = job[d].pc
               /\ Computing(d) => job'[d].witness = job[d].witness
               /\ job[d].pc \notin {"fetching", "preloading"} => job'[d] = job[d]
    BY <1>1, <1>2 DEF Computing
  <1>6. ASSUME NEW d \in Callers, NEW l \in Artifacts, job[d].pc \in {"fetching", "preloading"}, job'[d].from[l] = NoOne
        PROVE  \/ job[d].from[l] = NoOne /\ job'[d].have[l] = job[d].have[l]
               \/ l = k /\ job'[d].have[l] = value
    <2>1. CASE Waits(d)
      <3>1. /\ job'[d].from = [job[d].from EXCEPT ![k] = NoOne] /\ job'[d].have = [job[d].have EXCEPT ![k] = value]
            /\ job[d].from \in Froms /\ job[d].have \in Haves
        BY <1>1, <1>2, <2>1
      <3>2. CASE l = k
        BY <3>1, <3>2 DEF Haves
      <3>3. CASE l # k
        BY <1>6, <3>1, <3>3 DEF Froms, Haves
      <3>4. QED
        BY <3>2, <3>3
    <2>2. CASE ~Waits(d)
      BY <1>1, <1>6, <2>2
    <2>3. QED
      BY <2>1, <2>2
  <1>7. QED
    BY <1>3, <1>4, <1>5, <1>6

\* A permit goes from the caller that settles to the longest waiting one, if there is one.
LEMMA ReleaseEffect ==
  ASSUME IInv, NEW c \in Callers, release(c)
  PROVE  /\ phase[c] = "holding" /\ phase'[c] = "idle"
         /\ \A d \in Callers : d # c => phase'[d] = phase[d] \/ (phase[d] = "waiting" /\ phase'[d] = "holding")
  <1>1. phase[c] = "holding" /\ phase \in [Callers -> Phases]
    BY DEF release, IInv, TypeOK
  <1>2. CASE waiters = <<>> /\ phase' = [phase EXCEPT ![c] = "idle"]
    BY <1>1, <1>2
  <1>3. CASE HandOver([phase EXCEPT ![c] = "idle"])
    <2> DEFINE w == Head(waiters)
    <2>1. w \in Callers /\ w = waiters[1] /\ 1 \in 1..Len(waiters)
      BY <1>3, QueueHead DEF HandOver, IInv, TypeOK
    <2>2. phase[w] = "waiting"
      BY <2>1 DEF IInv, QueueExact
    <2>3. phase' = [phase EXCEPT ![c] = "idle", ![w] = "holding"] /\ w # c
      BY <1>1, <1>3, <2>2 DEF HandOver
    <2>4. QED
      BY <1>1, <2>1, <2>2, <2>3
  <1>4. QED
    BY <1>2, <1>3 DEF release

\* What the end of a computation changes.
LEMMA SettleEffect ==
  ASSUME ProofTypeOK, IInv, NEW c \in Callers, Computing(c), settle(c)
  PROVE  /\ job' \in [Callers -> Jobs] /\ job'[c] = NoJob
         /\ \A d \in Callers : d # c => job'[d] = job[d] \/ (job[d].pc = "joined" /\ job'[d] = NoJob)
         /\ inflight' = [inflight EXCEPT ![job[c].witness] = NoOne] /\ job[c].witness \in Witnesses
         /\ release(c)
  BY JobFacts DEF settle, ProofTypeOK, Jobs

\* Every step keeps the types.
LEMMA ProofTypeStep == ProofInv /\ [ProofNext]_proofVars => ProofTypeOK'
  <1> SUFFICES ASSUME ProofInv, [ProofNext]_proofVars PROVE ProofTypeOK'
    OBVIOUS
  <1>0. ProofTypeOK /\ IInv
    BY DEF ProofInv
  <1>1. ASSUME NEW c \in Callers, NEW w \in Witnesses, generateProof(c, w) PROVE ProofTypeOK'
    <2>1. CASE inflight[w] # NoOne /\ job' = [job EXCEPT ![c] = [pc |-> "joined", owner |-> inflight[w]]] /\ UNCHANGED inflight
      <3>1. [pc |-> "joined", owner |-> inflight[w]] \in Jobs
        BY <1>0, <2>1 DEF ProofTypeOK, Jobs, JoinedJobs
      <3>2. QED
        BY <1>0, <1>1, <2>1, <3>1 DEF generateProof, ProofTypeOK
    <2>2. CASE inflight' = [inflight EXCEPT ![w] = c] /\ job' = [job EXCEPT ![c] = [pc |-> "queued", witness |-> w]]
      <3>1. [pc |-> "queued", witness |-> w] \in Jobs
        BY DEF Jobs, QueuedJobs
      <3>2. QED
        BY <1>0, <1>1, <2>2, <3>1 DEF generateProof, ProofTypeOK
    <2>3. QED
      BY <1>1, <2>1, <2>2 DEF generateProof
  <1>2. ASSUME NEW c \in Callers, NEW next \in Jobs, fetchAll(c, next) PROVE ProofTypeOK'
    <2>1. job' \in [Callers -> Jobs] /\ UNCHANGED <<inflight, caches, loaded, clears>>
      BY <1>0, <1>2 DEF fetchAll, ProofTypeOK
    <2>2. fetchPromise' \in [Artifacts -> Callers \cup {NoOne}]
      BY <1>0, <1>2 DEF fetchAll, ProofTypeOK
    <2>3. [stage |-> "get", content |-> "none"] \in Downloads
      BY DEF Downloads, Contents
    <2>4. downloads' \in [Artifacts -> [Callers -> Downloads]]
      BY <1>0, <1>2, <2>3 DEF fetchAll, ProofTypeOK
    <2>5. QED
      BY <1>0, <2>1, <2>2, <2>4 DEF ProofTypeOK
  <1>3. ASSUME NEW c \in Callers PROVE Fetches(c) \in Froms /\ caches \in Haves
    BY <1>0 DEF Fetches, FetchFrom, ProofTypeOK, Froms, Haves
  <1>4. ASSUME NEW c \in Callers, computeProof(c) PROVE ProofTypeOK'
    <2>1. [pc |-> "fetching", witness |-> job[c].witness, from |-> Fetches(c), have |-> caches] \in FetchingJobs
      BY <1>0, <1>3, <1>4, JobFacts DEF computeProof, Computing, FetchingJobs
    <2>2. QED
      BY <1>2, <1>4, <2>1 DEF computeProof, Jobs
  <1>5. ASSUME NEW c \in Callers, preload(c) PROVE ProofTypeOK'
    <2>1. [pc |-> "preloading", from |-> Fetches(c), have |-> caches] \in PreloadingJobs
      BY <1>3 DEF PreloadingJobs
    <2>2. QED
      BY <1>2, <1>5, <2>1 DEF preload, Jobs
  <1>6. ASSUME NEW c \in Callers, Computing(c), settle(c), UNCHANGED <<caches, fetchPromise, downloads, loaded, clears>>
        PROVE  ProofTypeOK'
    BY <1>0, <1>6, SettleEffect DEF ProofTypeOK
  <1>7. ASSUME NEW c \in Callers, fetched(c) PROVE ProofTypeOK'
    <2>1. CASE settle(c)
      BY <1>6, <1>7, <2>1 DEF fetched, Computing
    <2>2. CASE job' = [job EXCEPT ![c] = [pc |-> "proving", witness |-> job[c].witness, use |-> job[c].have]] /\ UNCHANGED inflight
      <3>1. job[c] \in FetchingJobs
        BY <1>0, <1>7, JobFacts DEF fetched
      <3>2. [pc |-> "proving", witness |-> job[c].witness, use |-> job[c].have] \in ProvingJobs
        BY <3>1 DEF FetchingJobs, ProvingJobs
      <3>3. QED
        BY <1>0, <1>7, <2>2, <3>2 DEF fetched, ProofTypeOK, Jobs
    <2>3. QED
      BY <1>7, <2>1, <2>2 DEF fetched
  <1>8. ASSUME NEW c \in Callers, preloaded(c) PROVE ProofTypeOK'
    BY <1>0, <1>8 DEF preloaded, ProofTypeOK, Jobs
  <1>9. ASSUME NEW c \in Callers, fullProve(c) PROVE ProofTypeOK'
    BY <1>6, <1>9 DEF fullProve, Computing
  <1>10. ASSUME NEW c \in Callers, NEW k \in Artifacts, verifyHash(k, c) PROVE ProofTypeOK'
    <2>1. caches[k] \in Contents
      BY <1>0 DEF ProofTypeOK
    <2>2. PICK value \in Contents \cup {"failed"} : Ends(k, c, value)
      BY <1>10, <2>1 DEF verifyHash
    <2>3. loaded' \in [Artifacts -> BOOLEAN] /\ UNCHANGED <<inflight, caches, clears>>
      BY <1>0, <1>10 DEF verifyHash, ProofTypeOK
    <2>4. QED
      BY <1>0, <2>2, <2>3, EndsEffect DEF ProofTypeOK
  <1>11. ASSUME NEW c \in Callers, NEW k \in Artifacts, NEW content \in Contents, received(k, c, content) PROVE ProofTypeOK'
    <2>1. CASE Ends(k, c, "failed") /\ UNCHANGED caches
      <3>1. "failed" \in Contents \cup {"failed"}
        OBVIOUS
      <3>2. QED
        BY <1>0, <1>11, <2>1, <3>1, EndsEffect DEF received, ProofTypeOK
    <2>2. CASE /\ caches' = [caches EXCEPT ![k] = content]
               /\ downloads' = [downloads EXCEPT ![k][c] = [stage |-> "verify", content |-> content]]
               /\ UNCHANGED <<fetchPromise, job>>
      <3>1. [stage |-> "verify", content |-> content] \in Downloads
        BY DEF Downloads
      <3>2. QED
        BY <1>0, <1>11, <2>2, <3>1 DEF received, ProofTypeOK
    <2>3. QED
      BY <1>11, <2>1, <2>2 DEF received
  <1>12. CASE clearArtifactCache
    BY <1>0, <1>12 DEF clearArtifactCache, ProofTypeOK, Contents
  <1>13. CASE UNCHANGED proofVars
    BY <1>0, <1>13 DEF proofVars, ProofTypeOK
  <1>14. QED
    BY <1>1, <1>4, <1>5, <1>7, <1>8, <1>9, <1>10, <1>11, <1>12, <1>13 DEF ProofNext, callerSteps, DownloadSteps, Contents

\* A permit is held for as long as the proof is computed, and by nobody else.
LEMMA PermitsMatchStep == ProofInv /\ [ProofNext]_proofVars => PermitsMatch'
  <1> SUFFICES ASSUME ProofInv, [ProofNext]_proofVars PROVE PermitsMatch'
    OBVIOUS
  <1>0. ProofTypeOK /\ IInv /\ PermitsMatch /\ job \in [Callers -> Jobs] /\ phase \in [Callers -> Phases]
    BY DEF ProofInv, ProofTypeOK, IInv, TypeOK
  <1>1. ASSUME UNCHANGED phase, \A d \in Callers : job'[d].pc = job[d].pc PROVE PermitsMatch'
    BY <1>0, <1>1 DEF PermitsMatch, Computing
  <1>2. ASSUME NEW c \in Callers, NEW w \in Witnesses, generateProof(c, w) PROVE PermitsMatch'
    <2>1. job[c].pc = "idle" /\ phase[c] = "idle"
      BY <1>0, <1>2 DEF generateProof, Free, NoJob, PermitsMatch, Computing
    <2>2. CASE job' = [job EXCEPT ![c] = [pc |-> "joined", owner |-> inflight[w]]] /\ UNCHANGED phase
      BY <1>0, <2>1, <2>2 DEF PermitsMatch, Computing
    <2>3. CASE job' = [job EXCEPT ![c] = [pc |-> "queued", witness |-> w]] /\ acquire(c)
      <3>1. phase'[c] \in {"waiting", "holding"} /\ \A d \in Callers : d # c => phase'[d] = phase[d]
        BY <1>0, <2>3 DEF acquire
      <3>2. job'[c].pc = "queued" /\ \A d \in Callers : d # c => job'[d] = job[d]
        BY <1>0, <2>3
      <3>3. QED
        BY <1>0, <3>1, <3>2 DEF PermitsMatch, Computing
    <2>4. QED
      BY <1>2, <2>2, <2>3 DEF generateProof, vars
  <1>3. ASSUME NEW c \in Callers, computeProof(c) \/ preload(c) PROVE PermitsMatch'
    <2>1. UNCHANGED phase /\ \A d \in Callers : d # c => job'[d] = job[d]
      BY <1>0, <1>3 DEF computeProof, preload, fetchAll, vars
    <2>2. CASE computeProof(c)
      <3>1. phase[c] = "holding" /\ job'[c].pc = "fetching"
        BY <1>0, <2>2 DEF computeProof, fetchAll
      <3>2. QED
        BY <1>0, <2>1, <3>1 DEF PermitsMatch, Computing
    <2>3. CASE preload(c)
      <3>1. job[c].pc = "idle" /\ job'[c].pc = "preloading"
        BY <1>0, <2>3 DEF preload, Free, NoJob, fetchAll
      <3>2. QED
        BY <1>0, <2>1, <3>1 DEF PermitsMatch, Computing
    <2>4. QED
      BY <1>3, <2>2, <2>3
  <1>4. ASSUME NEW c \in Callers, Computing(c), settle(c) PROVE PermitsMatch'
    <2>1. /\ job'[c] = NoJob /\ release(c)
          /\ \A d \in Callers : d # c => job'[d] = job[d] \/ (job[d].pc = "joined" /\ job'[d] = NoJob)
      BY <1>0, <1>4, SettleEffect
    <2>2. /\ phase'[c] = "idle"
          /\ \A d \in Callers : d # c => phase'[d] = phase[d] \/ (phase[d] = "waiting" /\ phase'[d] = "holding")
      BY <1>0, <2>1, ReleaseEffect
    <2>3. QED
      BY <1>0, <2>1, <2>2 DEF PermitsMatch, Computing, NoJob
  <1>5. ASSUME NEW c \in Callers, fetched(c) PROVE PermitsMatch'
    <2>1. CASE settle(c)
      BY <1>4, <1>5, <2>1 DEF fetched, Computing
    <2>2. CASE job' = [job EXCEPT ![c] = [pc |-> "proving", witness |-> job[c].witness, use |-> job[c].have]] /\ UNCHANGED phase
      BY <1>0, <1>5, <2>2 DEF fetched, PermitsMatch, Computing
    <2>3. QED
      BY <1>5, <2>1, <2>2 DEF fetched, vars
  <1>6. ASSUME NEW c \in Callers, preloaded(c) PROVE PermitsMatch'
    BY <1>0, <1>6 DEF preloaded, PermitsMatch, Computing, NoJob, vars
  <1>7. ASSUME NEW c \in Callers, fullProve(c) PROVE PermitsMatch'
    BY <1>4, <1>7 DEF fullProve, Computing
  <1>8. ASSUME NEW c \in Callers, DownloadSteps(c) PROVE PermitsMatch'
    <2>1. PICK k \in Artifacts : verifyHash(k, c) \/ \E content \in Contents : received(k, c, content)
      BY <1>8 DEF DownloadSteps, Contents
    <2>2. UNCHANGED phase /\ (UNCHANGED job \/ \E value \in Contents \cup {"failed"} : Ends(k, c, value))
      BY <1>0, <2>1 DEF verifyHash, received, vars, ProofTypeOK
    <2>3. \A d \in Callers : job'[d].pc = job[d].pc
      <3>1. ASSUME NEW value \in Contents \cup {"failed"}, Ends(k, c, value) PROVE \A d \in Callers : job'[d].pc = job[d].pc
        BY <1>0, <3>1, EndsEffect
      <3>2. QED
        BY <2>2, <3>1
    <2>4. QED
      BY <1>1, <2>2, <2>3
  <1>9. CASE clearArtifactCache \/ UNCHANGED proofVars
    BY <1>1, <1>9 DEF clearArtifactCache, proofVars, vars
  <1>10. QED
    BY <1>2, <1>3, <1>5, <1>6, <1>7, <1>8, <1>9 DEF ProofNext, callerSteps

\* Every step keeps that work is registered for sharing.
LEMMA WorkStep == ProofInv /\ [ProofNext]_proofVars => WorkInv'
  <1> SUFFICES ASSUME ProofInv, [ProofNext]_proofVars, clears' = 0 PROVE (ComputesRegistered /\ DownloadsRegistered /\ FetchesBring)'
    BY DEF WorkInv
  <1>a. ProofTypeOK /\ IInv /\ job \in [Callers -> Jobs]
    BY DEF ProofInv, ProofTypeOK
  <1>b. clears = 0
    BY <1>a DEF ProofNext, callerSteps, DownloadSteps, generateProof, preload, computeProof, fetchAll, fetched, preloaded, fullProve,
              verifyHash, received, clearArtifactCache, proofVars, ProofTypeOK
  <1>0. ComputesRegistered /\ DownloadsRegistered /\ FetchesBring
    BY <1>b DEF ProofInv, WorkInv
  <1> USE NoOneAssumption
  <1>1. ASSUME NEW c \in Callers, NEW w \in Witnesses, generateProof(c, w)
        PROVE  (ComputesRegistered /\ DownloadsRegistered /\ FetchesBring)'
    <2>1. DownloadsRegistered'
      BY <1>0, <1>1 DEF generateProof, DownloadsRegistered
    <2>2. \A d \in Callers : d # c => job'[d] = job[d]
      BY <1>a, <1>1 DEF generateProof
    <2>3. job'[c].pc \in {"joined", "queued"}
      BY <1>a, <1>1 DEF generateProof
    <2>4. FetchesBring'
      BY <1>0, <2>2, <2>3 DEF FetchesBring
    <2>5. CASE UNCHANGED inflight /\ job'[c].pc = "joined"
      BY <1>0, <2>1, <2>2, <2>4, <2>5 DEF ComputesRegistered, Computing
    <2>6. CASE inflight[w] = NoOne /\ inflight' = [inflight EXCEPT ![w] = c] /\ job'[c].witness = w
      <3>1. \A d \in Callers : d # c /\ Computing(d) => inflight[job[d].witness] = d /\ job[d].witness # w /\ job[d].witness \in Witnesses
        BY <1>a, <1>0, <2>6, JobFacts DEF ComputesRegistered
      <3>2. QED
        BY <1>a, <2>1, <2>2, <2>4, <2>6, <3>1 DEF ComputesRegistered, Computing, ProofTypeOK
    <2>7. QED
      BY <1>a, <1>1, <2>1, <2>4, <2>5, <2>6 DEF generateProof
  <1>2. ASSUME NEW c \in Callers, NEW next, next.from = Fetches(c), next.have = caches, next.pc \in {"fetching", "preloading"},
               next.pc = "fetching" => Computing(c) /\ next.witness = job[c].witness, fetchAll(c, next)
        PROVE  (ComputesRegistered /\ DownloadsRegistered /\ FetchesBring)'
    <2>1. job'[c] = next /\ UNCHANGED <<inflight, caches>> /\ \A d \in Callers : d # c => job'[d] = job[d]
      BY <1>a, <1>2 DEF fetchAll
    <2>2. ComputesRegistered'
      BY <1>0, <1>2, <2>1 DEF ComputesRegistered, Computing
    <2>3. DownloadsRegistered'
      <3> SUFFICES ASSUME NEW k \in Artifacts, NEW d \in Callers
                   PROVE  /\ downloads'[k][d].stage \in {"get", "verify"} => fetchPromise'[k] = d
                          /\ downloads'[k][d].stage = "verify" => caches[k] # "none"
        BY <2>1 DEF DownloadsRegistered
      <3>0. fetchPromise[k] \in Callers \cup {NoOne} /\ downloads[k] \in [Callers -> Downloads]
        BY <1>a DEF ProofTypeOK
      <3>1. CASE FetchFrom(c, k) = c
        <4>1. fetchPromise'[k] = c /\ downloads'[k] = [downloads[k] EXCEPT ![c] = [stage |-> "get", content |-> "none"]]
          BY <1>2, <3>1 DEF fetchAll
        <4>2. fetchPromise[k] \in {NoOne, c}
          BY <3>1 DEF FetchFrom
        <4>3. CASE d = c
          BY <3>0, <4>1, <4>3
        <4>4. CASE d # c
          BY <1>0, <3>0, <4>1, <4>2, <4>4 DEF DownloadsRegistered
        <4>5. QED
          BY <4>3, <4>4
      <3>2. CASE FetchFrom(c, k) # c
        BY <1>0, <1>2, <3>2 DEF fetchAll, DownloadsRegistered
      <3>3. QED
        BY <3>1, <3>2
    <2>4. FetchesBring'
      <3>1. ASSUME NEW k \in Artifacts, next.from[k] = NoOne PROVE next.have[k] # "none"
        BY <1>2, <3>1 DEF Fetches, FetchFrom
      <3>2. QED
        BY <1>0, <1>2, <2>1, <3>1 DEF FetchesBring
    <2>5. QED
      BY <2>2, <2>3, <2>4
  <1>3. ASSUME NEW c \in Callers, computeProof(c) PROVE (ComputesRegistered /\ DownloadsRegistered /\ FetchesBring)'
    BY <1>2, <1>3 DEF computeProof, Computing
  <1>4. ASSUME NEW c \in Callers, preload(c) PROVE (ComputesRegistered /\ DownloadsRegistered /\ FetchesBring)'
    BY <1>2, <1>4 DEF preload
  <1>5. ASSUME NEW c \in Callers, Computing(c), settle(c), UNCHANGED <<caches, fetchPromise, downloads>>
        PROVE  (ComputesRegistered /\ DownloadsRegistered /\ FetchesBring)'
    <2>1. /\ job'[c] = NoJob /\ inflight' = [inflight EXCEPT ![job[c].witness] = NoOne]
          /\ \A d \in Callers : d # c => job'[d] = job[d] \/ (job[d].pc = "joined" /\ job'[d] = NoJob)
      BY <1>a, <1>5, SettleEffect
    <2>2. DownloadsRegistered' /\ FetchesBring'
      BY <1>0, <1>5, <2>1 DEF DownloadsRegistered, FetchesBring, NoJob
    <2>3. \A d \in Callers : Computing(d)' => d # c /\ job'[d] = job[d] /\ Computing(d)
      BY <2>1 DEF Computing, NoJob
    <2>4. \A d \in Callers : d # c /\ Computing(d) => job[d].witness # job[c].witness /\ job[d].witness \in Witnesses
      BY <1>0, <1>a, <1>5, JobFacts DEF ComputesRegistered
    <2>5. ComputesRegistered'
      BY <1>0, <1>a, <2>1, <2>3, <2>4 DEF ComputesRegistered, ProofTypeOK
    <2>6. QED
      BY <2>2, <2>5
  <1>6. ASSUME NEW c \in Callers, fetched(c) PROVE (ComputesRegistered /\ DownloadsRegistered /\ FetchesBring)'
    <2>1. CASE settle(c)
      BY <1>5, <1>6, <2>1 DEF fetched, Computing
    <2>2. CASE /\ FetchState(c) = "fetched" /\ UNCHANGED inflight
               /\ job' = [job EXCEPT ![c] = [pc |-> "proving", witness |-> job[c].witness, use |-> job[c].have]]
      <3>1. /\ job[c].pc = "fetching" /\ UNCHANGED <<caches, fetchPromise, downloads>>
            /\ \A d \in Callers : d # c => job'[d] = job[d]
        BY <1>a, <1>6, <2>2 DEF fetched
      <3>2. job'[c].pc = "proving" /\ job'[c].witness = job[c].witness /\ job'[c].use = job[c].have
        BY <1>a, <2>2
      <3>3. \A k \in Artifacts : job[c].from[k] = NoOne
        BY <2>2 DEF FetchState
      <3>4. ComputesRegistered'
        BY <1>0, <2>2, <3>1, <3>2 DEF ComputesRegistered, Computing
      <3>5. FetchesBring'
        BY <1>0, <3>1, <3>2, <3>3 DEF FetchesBring
      <3>6. QED
        BY <1>0, <3>1, <3>4, <3>5 DEF DownloadsRegistered
    <2>3. QED
      BY <1>6, <2>1, <2>2 DEF fetched
  <1>7. ASSUME NEW c \in Callers, preloaded(c) PROVE (ComputesRegistered /\ DownloadsRegistered /\ FetchesBring)'
    <2>1. job'[c] = NoJob /\ \A d \in Callers : d # c => job'[d] = job[d]
      BY <1>a, <1>7 DEF preloaded
    <2>2. QED
      BY <1>0, <1>7, <2>1 DEF preloaded, ComputesRegistered, DownloadsRegistered, FetchesBring, Computing, NoJob
  <1>8. ASSUME NEW c \in Callers, fullProve(c) PROVE (ComputesRegistered /\ DownloadsRegistered /\ FetchesBring)'
    BY <1>5, <1>8 DEF fullProve, Computing
  <1>9. ASSUME NEW c \in Callers, NEW k \in Artifacts, NEW value \in Contents \cup {"failed"}, value # "none",
               Ends(k, c, value), downloads[k][c].stage \in {"get", "verify"}, UNCHANGED <<inflight, caches>>
        PROVE  (ComputesRegistered /\ DownloadsRegistered /\ FetchesBring)'
    <2>0. /\ \A d \in Callers :
               /\ job'[d].pc = job[d].pc
               /\ Computing(d) => job'[d].witness = job[d].witness
               /\ job[d].pc \notin {"fetching", "preloading"} => job'[d] = job[d]
          /\ \A d \in Callers, l \in Artifacts :
               job[d].pc \in {"fetching", "preloading"} /\ job'[d].from[l] = NoOne =>
                 \/ job[d].from[l] = NoOne /\ job'[d].have[l] = job[d].have[l]
                 \/ l = k /\ job'[d].have[l] = value
      BY <1>a, <1>9, EndsEffect
    <2>1. ComputesRegistered' /\ FetchesBring'
      <3>1. ComputesRegistered'
        BY <1>0, <1>9, <2>0 DEF ComputesRegistered, Computing
      <3>2. FetchesBring'
        BY <1>0, <1>9, <2>0 DEF FetchesBring
      <3>3. QED
        BY <3>1, <3>2
    <2>2. DownloadsRegistered'
      <3> SUFFICES ASSUME NEW l \in Artifacts, NEW d \in Callers
                   PROVE  /\ downloads'[l][d].stage \in {"get", "verify"} => fetchPromise'[l] = d
                          /\ downloads'[l][d].stage = "verify" => caches[l] # "none"
        BY <1>9 DEF DownloadsRegistered
      <3>1. fetchPromise' = [fetchPromise EXCEPT ![k] = NoOne] /\ downloads' = [downloads EXCEPT ![k][c] = NoDownload]
        BY <1>9 DEF Ends
      <3>2. fetchPromise[k] = c
        BY <1>0, <1>9 DEF DownloadsRegistered
      <3>3. CASE l # k
        BY <1>0, <1>a, <3>1, <3>3 DEF DownloadsRegistered, ProofTypeOK
      <3>4. CASE l = k /\ d = c
        BY <1>a, <3>1, <3>4 DEF NoDownload, ProofTypeOK
      <3>5. CASE l = k /\ d # c
        <4>1. downloads'[l][d] = downloads[l][d]
          BY <1>a, <3>1, <3>5 DEF ProofTypeOK
        <4>2. QED
          BY <1>0, <3>2, <3>5, <4>1 DEF DownloadsRegistered
      <3>6. QED
        BY <3>3, <3>4, <3>5
    <2>3. QED
      BY <2>1, <2>2
  <1>10. ASSUME NEW c \in Callers, NEW k \in Artifacts, verifyHash(k, c)
         PROVE  (ComputesRegistered /\ DownloadsRegistered /\ FetchesBring)'
    <2>1. caches[k] \in Contents /\ caches[k] # "none"
      BY <1>0, <1>a, <1>10 DEF verifyHash, DownloadsRegistered, ProofTypeOK
    <2>2. QED
      BY <1>9, <1>10, <2>1 DEF verifyHash
  <1>11. ASSUME NEW c \in Callers, NEW k \in Artifacts, NEW content \in Contents, received(k, c, content)
         PROVE  (ComputesRegistered /\ DownloadsRegistered /\ FetchesBring)'
    <2>1. CASE Ends(k, c, "failed") /\ UNCHANGED caches
      BY <1>9, <1>11, <2>1 DEF received
    <2>2. CASE /\ content # "none" /\ caches' = [caches EXCEPT ![k] = content]
               /\ downloads' = [downloads EXCEPT ![k][c] = [stage |-> "verify", content |-> content]]
               /\ UNCHANGED <<fetchPromise, job>>
      <3>1. downloads[k][c].stage = "get" /\ UNCHANGED inflight
        BY <1>11 DEF received
      <3>2. ComputesRegistered' /\ FetchesBring'
        BY <1>0, <2>2, <3>1 DEF ComputesRegistered, FetchesBring, Computing
      <3>3. \A l \in Artifacts : caches'[l] = "none" => caches[l] = "none" /\ l # k
        BY <1>a, <2>2 DEF ProofTypeOK
      <3>4. \A l \in Artifacts, d \in Callers : (l = k /\ d = c) \/ downloads'[l][d] = downloads[l][d]
        BY <1>a, <2>2 DEF ProofTypeOK
      <3>5. DownloadsRegistered'
        BY <1>0, <2>2, <3>1, <3>3, <3>4 DEF DownloadsRegistered
      <3>6. QED
        BY <3>2, <3>5
    <2>3. QED
      BY <1>11, <2>1, <2>2 DEF received
  <1>12. ~clearArtifactCache
    BY <1>b DEF clearArtifactCache
  <1>13. CASE UNCHANGED proofVars
    BY <1>0, <1>13 DEF proofVars, ComputesRegistered, DownloadsRegistered, FetchesBring, Computing
  <1>14. QED
    BY <1>1, <1>3, <1>4, <1>6, <1>7, <1>8, <1>10, <1>11, <1>12, <1>13 DEF ProofNext, callerSteps, DownloadSteps, Contents

\* The invariant of the proof generator holds throughout.
LEMMA ProofInvariant == ProofSpec => []ProofInv
  <1>1. ProofInit => ProofTypeOK /\ PermitsMatch /\ WorkInv
    <2> SUFFICES ASSUME ProofInit PROVE ProofTypeOK /\ PermitsMatch /\ WorkInv
      OBVIOUS
    <2>1. ProofTypeOK
      BY DEF ProofInit, ProofTypeOK, Jobs, Contents, NoDownload, Downloads
    <2>2. PermitsMatch
      BY DEF ProofInit, Init, PermitsMatch, Computing, NoJob
    <2>3. WorkInv
      BY DEF ProofInit, WorkInv, ComputesRegistered, DownloadsRegistered, FetchesBring, Computing, NoJob, NoDownload
    <2>4. QED
      BY <2>1, <2>2, <2>3
  <1>2. ProofSpec => []IInv
    BY ProofsUseSemaphore, Invariant, PTL
  <1>3. ProofInv /\ [ProofNext]_proofVars => ProofTypeOK' /\ PermitsMatch' /\ WorkInv'
    BY ProofTypeStep, PermitsMatchStep, WorkStep
  <1>4. QED
    BY <1>1, <1>2, <1>3, PTL DEF ProofSpec, ProofInv

(***************************************************************************)
(* Work is shared, for any number of callers, witnesses and artifacts: as  *)
(* long as the cache is not cleared, one caller at a time computes the     *)
(* proof of a witness and one at a time downloads an artifact, and a proof *)
(* begins with all artifacts there (SnarkjsProofGenerator.ts, generate-    *)
(* Proof, fetchWasm, fetchZkey).                                           *)
(***************************************************************************)
THEOREM WorkIsShared == ProofSpec => []ProofsShareWork
  <1>1. ProofInv => SameWitnessOnce
    BY DEF ProofInv, WorkInv, ComputesRegistered, SameWitnessOnce
  <1>2. ProofInv => OneDownloadAtATime
    <2> SUFFICES ASSUME ProofInv, clears = 0, NEW k \in Artifacts
                 PROVE  Cardinality({c \in Callers : downloads[k][c].stage \in {"get", "verify"}}) <= 1
      BY DEF OneDownloadAtATime
    <2> DEFINE D == {c \in Callers : downloads[k][c].stage \in {"get", "verify"}}
    <2>1. D \subseteq {fetchPromise[k]}
      BY DEF ProofInv, WorkInv, DownloadsRegistered
    <2>2. IsFiniteSet({fetchPromise[k]}) /\ Cardinality({fetchPromise[k]}) = 1
      BY FS_Singleton
    <2>3. Cardinality(D) <= Cardinality({fetchPromise[k]})
      BY <2>1, <2>2, FS_Subset
    <2>4. QED
      BY <2>2, <2>3
  <1>3. ProofInv => ArtifactsPresent
    BY DEF ProofInv, WorkInv, FetchesBring, ArtifactsPresent
  <1>4. ProofInv => ProofsShareWork
    BY <1>1, <1>2, <1>3 DEF ProofsShareWork
  <1>5. QED
    BY <1>4, ProofInvariant, PTL

(***************************************************************************)
(* The cap on parallel proofs holds for the proofs themselves: at most     *)
(* maxPermits callers fetch or prove, whatever fails, however often the    *)
(* cache is cleared, and permits come in the order of the requests         *)
(* (SnarkjsProofGenerator.ts, semaphore.runExclusive).                     *)
(***************************************************************************)
ProofsCapped == Cardinality({c \in Callers : job[c].pc \in {"fetching", "proving"}}) <= maxPermits

\* No more proofs are computed at a time than there are permits; permits are exact
\* and go to whoever asked first, whatever fails or is cleared.
THEOREM ProofsAreCapped == ProofSpec => [](ProofsCapped /\ PermitsExact) /\ FirstComeFirstServed
  <1>1. ProofInv => ProofsCapped
    <2> SUFFICES ASSUME ProofInv PROVE ProofsCapped
      OBVIOUS
    <2> DEFINE P == {c \in Callers : job[c].pc \in {"fetching", "proving"}}
    <2>1. P \subseteq Holders
      BY DEF ProofInv, PermitsMatch, Holders
    <2>2. IsFiniteSet(Holders) /\ Cardinality(Holders) \in Nat /\ Cardinality(Holders) <= maxPermits
      BY HoldersFinite DEF ProofInv, IInv, NoIdlePermit
    <2>3. Cardinality(P) <= Cardinality(Holders) /\ Cardinality(P) \in Nat
      BY <2>1, <2>2, FS_Subset, FS_CardinalityType
    <2>4. QED
      BY <2>2, <2>3, PermitsAssumption DEF ProofsCapped
  <1>2. QED
    BY <1>1, ProofInvariant, ProofsUseSemaphore, PermitsAreExact, FairGrants, PTL
=============================================================================
