--------------------------- MODULE EventProcessor ---------------------------
(***************************************************************************)
(* indexer/IdempotentEventProcessor.ts with its replay detector and the    *)
(* two cursor storages.  One stream is processed; events may be delivered  *)
(* again and out of order, saving the cursor may fail, the process may     *)
(* crash at every await, and someone may reset the cursor meanwhile.       *)
(***************************************************************************)
EXTENDS Checks

CONSTANTS
  StreamEvents,       \* the events: position of each, as <<ledger, transaction, operation, event>>
  MaxDeliveries,      \* bound: deliveries of the stream
  MaxResets           \* bound: crashes and resets

ASSUME EventsAssumption == StreamEvents \subseteq Nat \X Nat \X Nat \X Nat

VARIABLES
  storage,            \* "memory" (MemoryCursorStorage) or "local" (LocalStorageCursorStorage)
  savedCursor,        \* the stored position; <<>>: none
  recorded,           \* events of the replay detector
  call,               \* the processEvent call in progress
  reports,            \* event -> statuses reported since the detector was last emptied
  accepted,           \* events reported as a success since the cursor was last lost
  resetting,          \* resetCursor has deleted the cursor and not yet cleared the detector
  deliveries, resets  \* counters of the bounds

eventVars == <<storage, savedCursor, recorded, call, reports, accepted, resetting, deliveries, resets>>

Idle == [pc |-> "idle"]

EventInit ==
  /\ storage \in {"memory", "local"}
  /\ savedCursor = <<>> /\ recorded = {} /\ call = Idle
  /\ reports = [e \in StreamEvents |-> {}] /\ accepted = {}
  /\ resetting = FALSE /\ deliveries = 0 /\ resets = 0

-----------------------------------------------------------------------------
\* The new position lies before the previous one.
isCursorCorrupted(previous, new) ==
  /\ previous # <<>>
  /\ \E i \in 1..4 : new[i] < previous[i] /\ \A j \in 1..(i - 1) : new[j] = previous[j]

\* processEventStream's status of the result; a throw is an error.
Report(e, status) ==
  /\ call' = Idle
  /\ reports' = [reports EXCEPT ![e] = @ \cup {status}]

deliver(e) ==
  /\ call = Idle /\ deliveries < MaxDeliveries
  /\ call' = [pc |-> "detect", event |-> e]
  /\ deliveries' = deliveries + 1
  /\ UNCHANGED <<storage, savedCursor, recorded, reports, accepted, resetting, resets>>

detectReplay ==
  /\ call.pc = "detect"
  /\ \/ call.event \in recorded /\ Report(call.event, "duplicate")
     \/ call.event \notin recorded /\ call' = [call EXCEPT !.pc = "load"] /\ UNCHANGED reports
  /\ UNCHANGED <<storage, savedCursor, recorded, accepted, resetting, deliveries, resets>>

\* Mutant: an event before the cursor counts as a success, being covered.
load_Covered ==
  /\ call.pc = "load"
  /\ \/ isCursorCorrupted(savedCursor, call.event) /\ Report(call.event, "success")
     \/ ~isCursorCorrupted(savedCursor, call.event) /\ call' = [call EXCEPT !.pc = "record"] /\ UNCHANGED reports
  /\ UNCHANGED <<storage, savedCursor, recorded, accepted, resetting, deliveries, resets>>

\* load, then the comparison; a corrupted cursor is not recorded.
load ==
  /\ call.pc = "load"
  /\ \/ isCursorCorrupted(savedCursor, call.event) /\ Report(call.event, "error")
     \/ ~isCursorCorrupted(savedCursor, call.event) /\ call' = [call EXCEPT !.pc = "record"] /\ UNCHANGED reports
  /\ UNCHANGED <<storage, savedCursor, recorded, accepted, resetting, deliveries, resets>>

recordEvent ==
  /\ call.pc = "record"
  /\ recorded' = recorded \cup {call.event}
  /\ call' = [call EXCEPT !.pc = "save"]
  /\ UNCHANGED <<storage, savedCursor, reports, accepted, resetting, deliveries, resets>>

\* Mutant: a failed save is reported as a success.
save_Blind ==
  /\ call.pc = "save"
  /\ savedCursor' \in {savedCursor, call.event}
  /\ Report(call.event, "success") /\ accepted' = accepted \cup {call.event}
  /\ UNCHANGED <<storage, recorded, resetting, deliveries, resets>>

\* localStorage may throw.
save ==
  /\ call.pc = "save"
  /\ \/ savedCursor' = call.event /\ Report(call.event, "success") /\ accepted' = accepted \cup {call.event}
     \/ storage = "local" /\ Report(call.event, "error") /\ UNCHANGED <<savedCursor, accepted>>
  /\ UNCHANGED <<storage, recorded, resetting, deliveries, resets>>

\* resetCursor: delete, and after an await clear.
deleteCursor ==
  /\ ~resetting /\ resets < MaxResets
  /\ savedCursor' = <<>> /\ accepted' = {} /\ resetting' = TRUE /\ resets' = resets + 1
  /\ UNCHANGED <<storage, recorded, call, reports, deliveries>>

\* Mutant: clear empties the index of the keys only.
clearRecords_KeysOnly ==
  /\ resetting
  /\ reports' = [e \in StreamEvents |-> {}] /\ resetting' = FALSE
  /\ UNCHANGED <<storage, savedCursor, recorded, call, accepted, deliveries, resets>>

clearRecords ==
  /\ resetting
  /\ recorded' = {} /\ reports' = [e \in StreamEvents |-> {}] /\ resetting' = FALSE
  /\ UNCHANGED <<storage, savedCursor, call, accepted, deliveries, resets>>

\* The process starts again: what was in memory is gone.
EventCrash ==
  /\ resets < MaxResets
  /\ resets' = resets + 1
  /\ call' = Idle /\ recorded' = {} /\ reports' = [e \in StreamEvents |-> {}] /\ resetting' = FALSE
  /\ IF storage = "memory" THEN savedCursor' = <<>> /\ accepted' = {} ELSE UNCHANGED <<savedCursor, accepted>>
  /\ UNCHANGED <<storage, deliveries>>

EventNext ==
  \/ \E e \in StreamEvents : deliver(e)
  \/ detectReplay \/ load \/ recordEvent \/ save
  \/ deleteCursor \/ clearRecords \/ EventCrash

-----------------------------------------------------------------------------
\* e is not before f: by ledger, then by transaction, operation and event.
NotBefore(e, f) ==
  \/ e[1] > f[1]
  \/ e[1] = f[1] /\ e[2] > f[2]
  \/ e[1] = f[1] /\ e[2] = f[2] /\ e[3] > f[3]
  \/ e[1] = f[1] /\ e[2] = f[2] /\ e[3] = f[3] /\ e[4] >= f[4]

(***************************************************************************)
(* The stored cursor covers every event reported as a success since the    *)
(* cursor was last lost or deleted, whatever the order of delivery, the    *)
(* failed saves and the crashes in between: no later start goes back       *)
(* behind one (IdempotentEventProcessor.ts 48-86).                         *)
(***************************************************************************)
CursorCoversSuccesses == \A e \in accepted : savedCursor # <<>> /\ NotBefore(savedCursor, e)

(***************************************************************************)
(* An event called a duplicate was reported before, by the same detector:  *)
(* as a success, or as an error when saving the cursor failed after the    *)
(* event was recorded.  Nothing is dropped as a duplicate unheard          *)
(* (IdempotentEventProcessor.ts 34-46, 72-82).                             *)
(***************************************************************************)
DuplicateWasReported ==
  \A e \in StreamEvents : "duplicate" \in reports[e] => reports[e] \cap {"success", "error"} # {}

(***************************************************************************)
(* An event that is a success again after a crash, with the cursor kept in *)
(* local storage, is the one the cursor stands at: the detector that would *)
(* have told is lost, and the cursor refuses all the earlier ones.         *)
(***************************************************************************)
RepeatsOnlyAtCursor ==
  \A e \in accepted : "success" \in reports'[e] /\ "success" \notin reports[e] => savedCursor = e
=============================================================================
