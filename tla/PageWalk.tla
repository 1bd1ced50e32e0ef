------------------------------ MODULE PageWalk ------------------------------
(***************************************************************************)
(* Walking through the pages of a source that is not trusted:              *)
(* iterateGuardedPages (pagination-guardrails.ts) and                      *)
(* iteratePayrollPeriods (payroll/periodPagination.ts).  The source may    *)
(* answer any number of items and any cursor; the caller may abort while   *)
(* an answer is awaited.                                                   *)
(***************************************************************************)
EXTENDS Checks

CONSTANTS
  PageCursors,        \* cursors of the source
  NoCursor,           \* undefined
  PageItems,          \* numbers of items a page may have
  MaxPages,           \* maxPages, 1 at least
  MaxRecords          \* maxRecords, 1 at least

VARIABLES
  walk,               \* the state of the generator
  aborted             \* signal.aborted

walkVars == <<walk, aborted>>

\* resolvePaginationGuardrails and resolveOptions throw unless the limits hold.
ASSUME LimitsResolved == MaxPages \in Nat \ {0} /\ MaxRecords \in Nat \ {0} /\ PageItems \subseteq Nat

\* fetched and offered are history: the cursors asked for, and the items of all answers.
Walk(kind, cursor) ==
  [kind |-> kind, pc |-> "fetch", cursor |-> cursor, seen |-> {}, pageNumber |-> 1, yielded |-> 0,
   outcome |-> "running", fetched |-> <<>>, offered |-> 0, start |-> cursor]

\* iterateGuardedPages starts at the beginning, iteratePayrollPeriods where it is told to.
WalkInit ==
  /\ aborted = FALSE
  /\ \/ walk = Walk("guarded", NoCursor)
     \/ \E c \in PageCursors \cup {NoCursor} : walk = Walk("periods", c)

Ended(outcome) == walk' = [walk EXCEPT !.pc = "ended", !.outcome = outcome]

\* Mutant: an iteration waits when the budget of pages is used up.
fetchPage_NoBudget ==
  /\ walk.pc = "fetch"
  /\ walk.pageNumber <= MaxPages
  /\ IF aborted THEN Ended("aborted") ELSE walk' = [walk EXCEPT !.pc = "await", !.fetched = Append(@, walk.cursor)]
  /\ UNCHANGED aborted

\* The head of the loop: the budget of pages, the signal, then the request.
fetchPage ==
  /\ walk.pc = "fetch"
  /\ \/ walk.pageNumber > MaxPages /\ Ended("page budget")
     \/ walk.pageNumber <= MaxPages /\ aborted /\ Ended("aborted")
     \/ /\ walk.pageNumber <= MaxPages /\ ~aborted
        /\ walk' = [walk EXCEPT !.pc = "await", !.fetched = Append(@, walk.cursor)]
  /\ UNCHANGED aborted

\* Mutant: only the cursor of this very page counts as repeated.
repeatedCursor_Last(next) == next = walk.cursor

\* The two loops add to seen at different times, the same cursors in the end but for the first.
repeatedCursor(next) == next = walk.cursor \/ next \in walk.seen

NowSeen(next) ==
  IF walk.kind = "guarded" THEN walk.seen \cup ({walk.cursor} \ {NoCursor}) ELSE walk.seen \cup {next}

\* Mutant: the budget of records is looked at only when a page begins.
yieldable_WholePage(items) == IF walk.kind = "guarded" /\ walk.yielded >= MaxRecords THEN 0 ELSE items

\* The items of an answer that are yielded; only the guarded loop has a budget of records.
yieldable(items) == IF walk.kind = "guarded" THEN Min({items, MaxRecords - walk.yielded}) ELSE items

\* The answer arrives.
receivePage(items, next) ==
  /\ walk.pc = "await"
  /\ LET count == yieldable(items)
         seenItems == [walk EXCEPT !.yielded = @ + count, !.offered = @ + items]
     IN  walk' = IF aborted THEN [walk EXCEPT !.pc = "ended", !.outcome = "aborted"]
                 ELSE IF count < items THEN [seenItems EXCEPT !.pc = "ended", !.outcome = "record budget"]
                 ELSE IF next = NoCursor THEN [seenItems EXCEPT !.pc = "ended", !.outcome = "complete"]
                 ELSE IF repeatedCursor(next) THEN [seenItems EXCEPT !.pc = "ended", !.outcome = "repeated cursor"]
                 ELSE [seenItems EXCEPT !.pc = "fetch", !.cursor = next, !.seen = NowSeen(next), !.pageNumber = @ + 1]
  /\ UNCHANGED aborted

\* assertGuardedPage and assertPage throw on an answer that is not a page.
invalidPage ==
  /\ walk.pc = "await"
  /\ Ended(IF aborted THEN "aborted" ELSE "invalid page")
  /\ UNCHANGED aborted

abort == ~aborted /\ aborted' = TRUE /\ UNCHANGED walk

Answer == fetchPage \/ invalidPage \/ \E items \in PageItems, next \in PageCursors \cup {NoCursor} : receivePage(items, next)

WalkNext == Answer \/ abort

\* The loop goes on as long as the source answers.
WalkSpec == WalkInit /\ [][WalkNext]_walkVars /\ WF_walkVars(Answer)

-----------------------------------------------------------------------------
(***************************************************************************)
(* No page is asked for twice, however the source links its pages: a walk  *)
(* that comes back to a cursor stops.  The payroll walk may come back once *)
(* to the cursor it was started with (periodPagination.ts 62-74).          *)
(***************************************************************************)
NoPageTwice ==
  \A i, j \in DOMAIN walk.fetched :
    i # j /\ walk.fetched[i] = walk.fetched[j] => walk.kind = "periods" /\ walk.fetched[i] = walk.start

(***************************************************************************)
(* Budgets are kept, and a walk that ends as complete has yielded all that *)
(* the source offered: nothing is dropped without an error                 *)
(* (pagination-guardrails.ts 220-251).                                     *)
(***************************************************************************)
NothingDropped ==
  /\ Len(walk.fetched) <= MaxPages
  /\ walk.kind = "guarded" => walk.yielded <= MaxRecords
  /\ walk.outcome \in {"complete", "page budget", "repeated cursor"} => walk.yielded = walk.offered

(***************************************************************************)
(* Every walk ends, with whatever source, as long as it is answered.       *)
(***************************************************************************)
WalkEnds == <>(walk.pc = "ended")
=============================================================================
