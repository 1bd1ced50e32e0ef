--------------------------- MODULE ProofGeneration ---------------------------
(***************************************************************************)
(* crypto/SnarkjsProofGenerator.ts on top of Semaphore and of an           *)
(* IdempotencyRegistry with ttlMs 0: requests for the same witness share   *)
(* one computation, computations wait for a permit, and their artifacts    *)
(* are downloaded once, cached and verified.  preload() fetches without a  *)
(* permit; clearArtifactCache() may come at any time.                      *)
(*                                                                         *)
(* Downloads are named after the caller that started them, and a name is   *)
(* used again once its downloads have ended.  The content of an artifact   *)
(* is "good" if it has the expected hash, "bad" if not.                    *)
(***************************************************************************)
EXTENDS Semaphore

CONSTANTS
  Witnesses,     \* sanitized witnesses
  Artifacts,     \* kinds of artifact: wasm and zkey, which have the same code
  NoOne,         \* no caller
  MaxClears      \* bound: calls of clearArtifactCache

ASSUME NoOneAssumption == NoOne \notin Callers

VARIABLES
  job,           \* caller -> its generateProof or preload call
  inflight,      \* dedup: witness -> the caller whose promise is shared, or NoOne
  caches,        \* wasmCache, zkeyCache: "none", "good" or "bad"
  fetchPromise,  \* kind -> the download that callers join, or NoOne
  downloads,     \* kind -> caller -> [stage, content]
  loaded,        \* preloadStatus
  clears         \* number of clears

proofVars == <<vars, job, inflight, caches, fetchPromise, downloads, loaded, clears>>

NoJob == [pc |-> "idle"]
NoDownload == [stage |-> "none", content |-> "none"]

ProofInit ==
  /\ Init
  /\ job = [c \in Callers |-> NoJob]
  /\ inflight = [w \in Witnesses |-> NoOne]
  /\ caches = [k \in Artifacts |-> "none"]
  /\ fetchPromise = [k \in Artifacts |-> NoOne]
  /\ downloads = [k \in Artifacts |-> [c \in Callers |-> NoDownload]]
  /\ loaded = [k \in Artifacts |-> FALSE]
  /\ clears = 0

-----------------------------------------------------------------------------
Free(c) == job[c] = NoJob /\ \A k \in Artifacts : downloads[k][c] = NoDownload

\* Mutant: a request does not look for the same witness.
generateProof_NoJoin(c, w) ==
  /\ Free(c)
  /\ inflight' = [inflight EXCEPT ![w] = c]
  /\ job' = [job EXCEPT ![c] = [pc |-> "queued", witness |-> w]]
  /\ acquire(c)
  /\ UNCHANGED <<caches, fetchPromise, downloads, loaded, clears>>

\* dedup.execute: join the request in flight, or start one and ask for a permit.
generateProof(c, w) ==
  /\ Free(c)
  /\ \/ /\ inflight[w] # NoOne
        /\ job' = [job EXCEPT ![c] = [pc |-> "joined", owner |-> inflight[w]]]
        /\ UNCHANGED <<vars, inflight>>
     \/ /\ inflight[w] = NoOne
        /\ inflight' = [inflight EXCEPT ![w] = c]
        /\ job' = [job EXCEPT ![c] = [pc |-> "queued", witness |-> w]]
        /\ acquire(c)
  /\ UNCHANGED <<caches, fetchPromise, downloads, loaded, clears>>

\* Mutant: a running download is not joined.
FetchFrom_Again(c, k) == IF caches[k] # "none" THEN NoOne ELSE c

\* fetchWasm, fetchZkey: NoOne if cached, else the download to wait for.
FetchFrom(c, k) == IF caches[k] # "none" THEN NoOne ELSE IF fetchPromise[k] # NoOne THEN fetchPromise[k] ELSE c

\* Promise.all of the fetches.
Fetches(c) == [k \in Artifacts |-> FetchFrom(c, k)]

fetchAll(c, next) ==
  /\ job' = [job EXCEPT ![c] = next]
  /\ fetchPromise' = [k \in Artifacts |-> IF FetchFrom(c, k) = c THEN c ELSE fetchPromise[k]]
  /\ downloads' = [k \in Artifacts |->
       IF FetchFrom(c, k) = c THEN [downloads[k] EXCEPT ![c] = [stage |-> "get", content |-> "none"]] ELSE downloads[k]]
  /\ UNCHANGED <<vars, inflight, caches, loaded, clears>>

\* computeProof begins once it has its permit; the optional proof cache has no entry.
computeProof(c) ==
  /\ job[c].pc = "queued" /\ phase[c] = "holding"
  /\ fetchAll(c, [pc |-> "fetching", witness |-> job[c].witness, from |-> Fetches(c), have |-> caches])

preload(c) == Free(c) /\ fetchAll(c, [pc |-> "preloading", from |-> Fetches(c), have |-> caches])

\* A download ends: the shared promise goes, whichever it is, and those who wait have the value.
Ends(k, c, value) ==
  /\ fetchPromise' = [fetchPromise EXCEPT ![k] = NoOne]
  /\ downloads' = [downloads EXCEPT ![k][c] = NoDownload]
  /\ job' = [d \in Callers |->
       IF job[d].pc \in {"fetching", "preloading"} /\ job[d].from[k] = c
       THEN [job[d] EXCEPT !.from[k] = NoOne, !.have[k] = value] ELSE job[d]]

\* Mutant: the content is not cached.
received_Uncached(k, c, content) ==
  /\ downloads[k][c].stage = "get" /\ content # "none"
  /\ downloads' = [downloads EXCEPT ![k][c] = [stage |-> "verify", content |-> content]]
  /\ UNCHANGED <<vars, job, inflight, caches, fetchPromise, loaded, clears>>

\* downloadWasm, downloadZkey: the content is cached as it arrives, or the request fails.
received(k, c, content) ==
  /\ downloads[k][c].stage = "get"
  /\ \/ content = "none" /\ Ends(k, c, "failed") /\ UNCHANGED caches
     \/ /\ content # "none"
        /\ caches' = [caches EXCEPT ![k] = content]
        /\ downloads' = [downloads EXCEPT ![k][c] = [stage |-> "verify", content |-> content]]
        /\ UNCHANGED <<fetchPromise, job>>
  /\ UNCHANGED <<vars, inflight, loaded, clears>>

\* verifyHash: a mismatch leaves the cache as it is; otherwise the cache of that moment is returned.
verifyHash(k, c) ==
  /\ downloads[k][c].stage = "verify"
  /\ \/ downloads[k][c].content = "bad" /\ Ends(k, c, "failed") /\ UNCHANGED loaded
     \/ downloads[k][c].content = "good" /\ Ends(k, c, caches[k]) /\ loaded' = [loaded EXCEPT ![k] = TRUE]
  /\ UNCHANGED <<vars, inflight, caches, clears>>

\* Where the fetches of a caller stand: one that failed is enough.
FetchState(c) ==
  IF \E k \in Artifacts : job[c].have[k] = "failed" THEN "failed"
  ELSE IF \A k \in Artifacts : job[c].from[k] = NoOne THEN "fetched" ELSE "waiting"

\* Mutant: the callers that joined are forgotten.
settle_Alone(c) ==
  /\ job' = [job EXCEPT ![c] = NoJob]
  /\ inflight' = [inflight EXCEPT ![job[c].witness] = NoOne]
  /\ release(c)

\* The promise settles: the permit is released, the entry deleted, whoever joined has the answer.
settle(c) ==
  /\ job' = [d \in Callers |-> IF d = c \/ (job[d].pc = "joined" /\ job[d].owner = c) THEN NoJob ELSE job[d]]
  /\ inflight' = [inflight EXCEPT ![job[c].witness] = NoOne]
  /\ release(c)

\* The artifacts are there, or one of them failed.
fetched(c) ==
  /\ job[c].pc = "fetching" /\ FetchState(c) # "waiting"
  /\ \/ FetchState(c) = "failed" /\ settle(c)
     \/ /\ FetchState(c) = "fetched"
        /\ job' = [job EXCEPT ![c] = [pc |-> "proving", witness |-> job[c].witness,
                                      use |-> job[c].have]]
        /\ UNCHANGED <<vars, inflight>>
  /\ UNCHANGED <<caches, fetchPromise, downloads, loaded, clears>>

preloaded(c) ==
  /\ job[c].pc = "preloading" /\ FetchState(c) # "waiting"
  /\ job' = [job EXCEPT ![c] = NoJob]
  /\ loaded' = IF FetchState(c) = "fetched" THEN [k \in Artifacts |-> TRUE] ELSE loaded
  /\ UNCHANGED <<vars, inflight, caches, fetchPromise, downloads, clears>>

\* groth16.fullProve returns or throws; both settle the promise.
fullProve(c) == job[c].pc = "proving" /\ settle(c) /\ UNCHANGED <<caches, fetchPromise, downloads, loaded, clears>>

clearArtifactCache ==
  /\ clears < MaxClears /\ clears' = clears + 1
  /\ caches' = [k \in Artifacts |-> "none"]
  /\ fetchPromise' = [k \in Artifacts |-> NoOne]
  /\ loaded' = [k \in Artifacts |-> FALSE]
  /\ inflight' = [w \in Witnesses |-> NoOne]
  /\ UNCHANGED <<vars, job, downloads>>

DownloadSteps(c) == \E k \in Artifacts : verifyHash(k, c) \/ \E content \in {"none", "good", "bad"} : received(k, c, content)

callerSteps(c) == computeProof(c) \/ fetched(c) \/ preloaded(c) \/ fullProve(c)

ProofNext ==
  \/ \E c \in Callers :
       \/ \E w \in Witnesses : generateProof(c, w)
       \/ preload(c)
       \/ callerSteps(c)
       \/ DownloadSteps(c)
  \/ clearArtifactCache

(***************************************************************************)
(* Downloads end (axios has a timeout), fullProve returns, and the promise *)
(* callbacks of a caller are run.                                          *)
(***************************************************************************)
ProofSpec ==
  /\ ProofInit /\ [][ProofNext]_proofVars
  /\ \A c \in Callers : WF_proofVars(callerSteps(c)) /\ WF_proofVars(DownloadSteps(c))

-----------------------------------------------------------------------------
Computing(c) == job[c].pc \in {"queued", "fetching", "proving"}

(***************************************************************************)
(* "Same-witness requests are deduplicated": as long as the cache is not   *)
(* cleared, no two callers compute the proof of one witness at once, also  *)
(* while they wait for a permit (SnarkjsProofGenerator.ts 107-110).        *)
(***************************************************************************)
SameWitnessOnce ==
  clears = 0 => \A c, d \in Callers : Computing(c) /\ Computing(d) /\ job[c].witness = job[d].witness => c = d

(***************************************************************************)
(* Nor does a second download of an artifact start while one is running,   *)
(* though preload() and proofs fetch without knowing of each other.        *)
(***************************************************************************)
OneDownloadAtATime ==
  clears = 0 =>
    \A k \in Artifacts : Cardinality({c \in Callers : downloads[k][c].stage \in {"get", "verify"}}) <= 1

(***************************************************************************)
(* A proof is computed with artifacts that are there: only a clear between *)
(* arrival and verification makes a fetch return nothing (SnarkjsProof-    *)
(* Generator.ts 223-227, 341-345).                                         *)
(***************************************************************************)
ArtifactsPresent ==
  clears = 0 => \A c \in Callers : job[c].pc = "proving" => \A k \in Artifacts : job[c].use[k] # "none"

(***************************************************************************)
(* Work is shared and nothing is missing: what several callers need is     *)
(* computed and downloaded once, and is there when a proof begins.         *)
(***************************************************************************)
ProofsShareWork == SameWitnessOnce /\ OneDownloadAtATime /\ ArtifactsPresent

(***************************************************************************)
(* Every request is answered, those who joined another one's too, and also *)
(* when the cache is cleared under them.                                   *)
(***************************************************************************)
EveryRequestAnswered == \A c \in Callers : job[c] # NoJob ~> job[c] = NoJob

(***************************************************************************)
(* "When set, the hash is verified before proof generation begins": no     *)
(* proof is computed with an artifact of another hash.                     *)
(***************************************************************************)
VerifiedBeforeProving ==
  \A c \in Callers : job[c].pc = "proving" => \A k \in Artifacts : job[c].use[k] # "bad"
=============================================================================
