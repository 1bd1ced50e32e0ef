----------------------------- MODULE ProofWorker -----------------------------
(***************************************************************************)
(* crypto/WorkerProofGenerator.ts and the worker it talks to               *)
(* (crypto/proof.worker.ts): requests with a timer each, answers that may  *)
(* come late or not at all, an error of the whole worker, terminate().     *)
(* Requests for the same witness share one dispatch.                       *)
(***************************************************************************)
EXTENDS Checks

CONSTANTS
  WorkerWitnesses,    \* witnesses; two requests may have the same
  MaxDispatches       \* bound: requests posted

VARIABLES
  dispatched,         \* sequence of the posted requests: [witness, outcome]; the id is the index
  pendingIds,         \* pending
  shared,             \* dedup: witness -> the request it shares; 0: none
  inbox,              \* requests the worker has not answered
  outbox,             \* answers on their way: [id, type]
  workerAlive         \* terminate() was not called

workerVars == <<dispatched, pendingIds, shared, inbox, outbox, workerAlive>>

WorkerInit ==
  /\ dispatched = <<>> /\ pendingIds = {} /\ inbox = {} /\ outbox = {}
  /\ shared = [w \in WorkerWitnesses |-> 0]
  /\ workerAlive = TRUE

\* generateProof without a request to share: dispatch.  Joining changes nothing here.
dispatch(w) ==
  /\ shared[w] = 0 /\ Len(dispatched) < MaxDispatches
  /\ dispatched' = Append(dispatched, [witness |-> w, outcome |-> "pending"])
  /\ LET id == Len(dispatched) + 1 IN
     /\ pendingIds' = pendingIds \cup {id}
     /\ shared' = [shared EXCEPT ![w] = id]
     /\ inbox' = IF workerAlive THEN inbox \cup {id} ELSE inbox
  /\ UNCHANGED <<outbox, workerAlive>>

\* handleGenerateProof: the artifacts are loaded and the proof made, or something throws.
workerAnswers(id) ==
  /\ id \in inbox /\ workerAlive
  /\ inbox' = inbox \ {id}
  /\ \E type \in {"PROOF_RESULT", "PROOF_ERROR"} : outbox' = outbox \cup {[id |-> id, type |-> type]}
  /\ UNCHANGED <<dispatched, pendingIds, shared, workerAlive>>

\* The promises of some requests settle: no longer pending, and their dedup entries go.
Settle(ids, outcome) ==
  /\ pendingIds' = pendingIds \ ids
  /\ dispatched' = [i \in DOMAIN dispatched |-> IF i \in ids THEN [dispatched[i] EXCEPT !.outcome = outcome] ELSE dispatched[i]]
  /\ shared' = [w \in WorkerWitnesses |-> IF shared[w] \in ids THEN 0 ELSE shared[w]]

\* Mutant: whatever is answered settles.
onMessage_Any(m) ==
  /\ m \in outbox /\ workerAlive
  /\ outbox' = outbox \ {m}
  /\ Settle({m.id}, m.type)
  /\ UNCHANGED <<inbox, workerAlive>>

\* An answer to a request that is not pending is dropped.
onMessage(m) ==
  /\ m \in outbox /\ workerAlive
  /\ outbox' = outbox \ {m}
  /\ Settle({m.id} \cap pendingIds, m.type)
  /\ UNCHANGED <<inbox, workerAlive>>

\* Mutant: a request that timed out stays shared.
timeout_KeepsEntry(id) ==
  /\ id \in pendingIds
  /\ pendingIds' = pendingIds \ {id}
  /\ dispatched' = [dispatched EXCEPT ![id].outcome = "timeout"]
  /\ UNCHANGED <<shared, inbox, outbox, workerAlive>>

\* Mutant: terminate clears all timers, of later requests too.
timeout_Cleared(id) == workerAlive /\ id \in pendingIds /\ Settle({id}, "timeout") /\ UNCHANGED <<inbox, outbox, workerAlive>>

\* The timer of a request; the worker goes on with it.
timeout(id) == id \in pendingIds /\ Settle({id}, "timeout") /\ UNCHANGED <<inbox, outbox, workerAlive>>

\* An error event fails everything that is pending.
onError == workerAlive /\ pendingIds # {} /\ Settle(pendingIds, "worker error") /\ UNCHANGED <<inbox, outbox, workerAlive>>

\* The listeners are removed: nothing is answered any more, and later requests time out.
terminate == workerAlive /\ workerAlive' = FALSE /\ Settle(pendingIds, "terminated") /\ inbox' = {} /\ outbox' = {}

WorkerNext ==
  \/ \E w \in WorkerWitnesses : dispatch(w)
  \/ \E id \in DOMAIN dispatched : workerAnswers(id) \/ timeout(id)
  \/ \E m \in outbox : onMessage(m)
  \/ onError \/ terminate

\* The timers fire.
timers == \E id \in DOMAIN dispatched : timeout(id)

-----------------------------------------------------------------------------
(***************************************************************************)
(* A request settles once: an answer that comes after its timeout, after   *)
(* an error or after terminate changes nothing, though the worker may      *)
(* still be at it (WorkerProofGenerator.ts 119-134, 195-200).              *)
(***************************************************************************)
SettlesOnce ==
  \A id \in DOMAIN dispatched : dispatched[id].outcome # "pending" => dispatched'[id] = dispatched[id]

(***************************************************************************)
(* A request never joins one that has settled: what is shared is pending,  *)
(* and what is pending is shared (WorkerProofGenerator.ts 264-268).        *)
(***************************************************************************)
SharedIsPending ==
  /\ pendingIds = {id \in DOMAIN dispatched : dispatched[id].outcome = "pending"}
  /\ \A w \in WorkerWitnesses : shared[w] # 0 => shared[w] \in pendingIds /\ dispatched[shared[w]].witness = w
  /\ \A id \in pendingIds : shared[dispatched[id].witness] = id

(***************************************************************************)
(* Every request settles, if only by its timer, also after terminate.      *)
(***************************************************************************)
RequestsSettle == \A id \in 1..MaxDispatches : (id \in pendingIds) ~> (id \notin pendingIds)
=============================================================================
