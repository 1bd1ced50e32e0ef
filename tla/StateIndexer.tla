---------------------------- MODULE StateIndexer ----------------------------
(***************************************************************************)
(* indexer/ContractStateIndexer.ts: passes over the contract's state, each *)
(* with a budget of pages and resuming from the checkpoint of the last.    *)
(* The state does not change meanwhile.  A cursor is the number of pages   *)
(* read; 0 is the undefined cursor, of the beginning and of the end.  A    *)
(* step is the code from one readPages to the next; any of them may fail.  *)
(***************************************************************************)
EXTENDS Checks, SequencesExt

CONSTANTS
  CompanyList,        \* what listCompanies yields, page after page
  PageEnds,           \* page -> the position in CompanyList of its last company
  CollectionPages,    \* company -> pages of each of the Collections
  PageBudgets,        \* maxPages of a pass; Unlimited if it is not given
  Unlimited,
  MaxPasses           \* bound: passes that return

VARIABLES
  checkpoint,         \* the caller's: [companyCursor, active, cursors, completed, complete]
  passes,             \* the number of passes that returned
  lastPass,           \* the last of them: [budget, left, pages]
  pagesRead,          \* all pages they returned: <<company, collection, page>>
  pass,               \* the pass under way: [pc, company, at, next, upto, budget, left]
  working,            \* its checkpoint
  fetched             \* the pages it has read

resultVars == <<checkpoint, passes, lastPass, pagesRead>>
indexVars == <<resultVars, pass, working, fetched>>

Collections == <<"employees", "payrollRuns", "events", "commitments", "auditPermissions">>
CollectionNames == ToSet(Collections)
Nobody == "nobody"
Companies == ToSet(CompanyList)

ASSUME IndexAssumption ==
  /\ CompanyList \in Seq(Companies) /\ Nobody \notin Companies
  /\ PageEnds \in Seq(0..Len(CompanyList)) /\ PageEnds # <<>> /\ PageEnds[Len(PageEnds)] = Len(CompanyList)
  /\ \A m, n \in DOMAIN PageEnds : m <= n => PageEnds[m] <= PageEnds[n]
  /\ CollectionPages \in [Companies -> [CollectionNames -> Nat \ {0}]]
  /\ PageBudgets \subseteq Nat \cup {Unlimited} /\ Unlimited \notin Nat

createCheckpoint ==
  [companyCursor |-> 0, active |-> Nobody, cursors |-> [c \in Companies |-> [k \in CollectionNames |-> 0]],
   completed |-> {}, complete |-> FALSE]

NoPass == [pc |-> "idle", company |-> Nobody, at |-> 1, next |-> 1, upto |-> 0, budget |-> 0, left |-> 0]

IndexInit ==
  /\ checkpoint = createCheckpoint /\ working = createCheckpoint /\ passes = 0
  /\ lastPass = [budget |-> 0, left |-> 0, pages |-> 0] /\ pagesRead = {} /\ fetched = {} /\ pass = NoPass

-----------------------------------------------------------------------------
\* Mutant: the cursor of an interrupted collection moves one page too far.
readPages_Skips(total, left, cursor) ==
  LET n == IF left # Unlimited /\ cursor + left < total THEN left ELSE total - cursor
      next == cursor + n + 1
  IN  IF left = 0 THEN [pages |-> {}, next |-> cursor, left |-> 0]
      ELSE [pages |-> (cursor + 1)..(cursor + n), next |-> IF next >= total THEN 0 ELSE next,
            left |-> IF left = Unlimited THEN left ELSE left - n]

\* Mutant: the loop ends after a page.
readPages_OnePage(total, left, cursor) ==
  IF left = 0 THEN [pages |-> {}, next |-> cursor, left |-> 0]
  ELSE [pages |-> {cursor + 1}, next |-> 0, left |-> IF left = Unlimited THEN left ELSE left - 1]

\* readPages: as many pages as there are and as the budget allows.
readPages(total, left, cursor) ==
  LET n == IF left # Unlimited /\ cursor + left < total THEN left ELSE total - cursor
      next == cursor + n
  IN  IF left = 0 THEN [pages |-> {}, next |-> cursor, left |-> 0]
      ELSE [pages |-> (cursor + 1)..next, next |-> IF next = total THEN 0 ELSE next,
            left |-> IF left = Unlimited THEN left ELSE left - n]

\* Mutant: a resumed company goes on with the collection it stopped in, and no other.
readCollection_NoRest(k) ==
  LET cursor == working.cursors[pass.company][k] IN
  IF working.active = pass.company /\ cursor = 0 THEN [pages |-> {}, next |-> 0, left |-> pass.left]
  ELSE readPages(CollectionPages[pass.company][k], pass.left, cursor)

readCollection(k) == readPages(CollectionPages[pass.company][k], pass.left, working.cursors[pass.company][k])

\* The pass returns: the caller has its checkpoint and its pages.
toResult(c, left, pages) ==
  /\ checkpoint' = c /\ passes' = passes + 1 /\ pagesRead' = pagesRead \cup pages
  /\ lastPass' = [budget |-> pass.budget, left |-> left, pages |-> Cardinality(pages)]
  /\ pass' = NoPass /\ working' = createCheckpoint /\ fetched' = {}

\* The pass goes on.
goOn(p, c, pages) == pass' = p /\ working' = c /\ fetched' = pages /\ UNCHANGED resultVars

-----------------------------------------------------------------------------
\* index, up to the first page: a caller goes on until the checkpoint is complete (docs/indexer.md).
\* The company it stopped in is resumed first; getCompany finds it.
index(budget) ==
  /\ pass.pc = "idle" /\ passes < MaxPasses /\ ~checkpoint.complete
  /\ goOn([NoPass EXCEPT !.pc = IF checkpoint.active = Nobody THEN "list" ELSE "company",
                         !.company = checkpoint.active, !.budget = budget, !.left = budget],
          [checkpoint EXCEPT !.complete = FALSE], {})

\* indexCompany: one collection after the other, until one of them is not at its end.  A resumed company
\* is followed by the listing, a listed one by the next of the list.
indexCollection ==
  /\ pass.pc = "company"
  /\ LET k == Collections[pass.at]
         got == readCollection(k)
         pages == fetched \cup {<<pass.company, k, p>> : p \in got.pages}
         after == [working EXCEPT !.cursors[pass.company][k] = got.next]
         onward == [pass EXCEPT !.left = got.left]
     IN  \/ got.next # 0 /\ toResult([after EXCEPT !.active = pass.company], got.left, pages)
         \/ got.next = 0 /\ pass.at < Len(Collections) /\ goOn([onward EXCEPT !.at = @ + 1], after, pages)
         \/ /\ got.next = 0 /\ pass.at = Len(Collections)
            /\ goOn(IF working.active = Nobody THEN [onward EXCEPT !.pc = "listed", !.next = @ + 1]
                                               ELSE [onward EXCEPT !.pc = "list"],
                    [after EXCEPT !.completed = @ \cup {pass.company}, !.active = Nobody], pages)

\* The number of companies on the first n pages.
listedOn(n) == IF n = 0 THEN 0 ELSE PageEnds[n]

\* The pages of companies that the budget allows, listed at once.
listCompanies ==
  /\ pass.pc = "list"
  /\ LET cursor == working.companyCursor
         got == readPages(Len(PageEnds), pass.left, cursor)
         last == IF got.next = 0 /\ got.pages # {} THEN Len(PageEnds) ELSE got.next
     IN  goOn([pass EXCEPT !.pc = "listed", !.left = got.left, !.next = listedOn(cursor) + 1, !.upto = listedOn(last)],
              [working EXCEPT !.companyCursor = got.next],
              fetched \cup {<<Nobody, "companies", p>> : p \in got.pages})

\* The loop over the listed companies: an exhausted budget makes the next one active.
nextCompany ==
  /\ pass.pc = "listed" /\ pass.next <= pass.upto
  /\ LET company == CompanyList[pass.next] IN
     \/ pass.left = 0 /\ toResult([working EXCEPT !.active = company], 0, fetched)
     \/ pass.left # 0 /\ company \in working.completed /\ goOn([pass EXCEPT !.next = @ + 1], working, fetched)
     \/ /\ pass.left # 0 /\ company \notin working.completed
        /\ goOn([pass EXCEPT !.pc = "company", !.company = company, !.at = 1], working, fetched)

\* The pass is complete if the listing is at its end.
allListed ==
  /\ pass.pc = "listed" /\ pass.next > pass.upto
  /\ toResult([working EXCEPT !.complete = working.companyCursor = 0], pass.left, fetched)

\* A page cannot be read, and index throws.  The caller keeps its checkpoint, whose cursors the pass shares.
readFails ==
  /\ pass.pc \in {"company", "list"} /\ pass.left # 0
  /\ checkpoint' = [checkpoint EXCEPT !.cursors = working.cursors]
  /\ pass' = NoPass /\ working' = createCheckpoint /\ fetched' = {} /\ UNCHANGED <<passes, lastPass, pagesRead>>

IndexNext == (\E b \in PageBudgets : index(b)) \/ indexCollection \/ listCompanies \/ nextCompany \/ allListed \/ readFails

IndexSpec == IndexInit /\ [][IndexNext]_indexVars

-----------------------------------------------------------------------------
PagesOf(c) == UNION {{<<c, k, n>> : n \in 1..CollectionPages[c][k]} : k \in CollectionNames}

AllPages == {<<Nobody, "companies", n>> : n \in DOMAIN PageEnds} \cup UNION {PagesOf(c) : c \in Companies}

(***************************************************************************)
(* No pass reads more pages than its budget, and what the passes have read *)
(* of a collection is a prefix of it: resuming, after a failure as well,   *)
(* leaves no page out in the middle (ContractStateIndexer.ts 142-225).     *)
(***************************************************************************)
ResumesWhereItStopped ==
  /\ lastPass.budget # Unlimited => lastPass.pages <= lastPass.budget
  /\ \A p \in pagesRead : p[3] > 1 => <<p[1], p[2], p[3] - 1>> \in pagesRead

(***************************************************************************)
(* The first pass that returns, if it is complete with budget to spare,    *)
(* has read everything.                                                    *)
(***************************************************************************)
AmpleBudgetReadsAll ==
  passes = 1 /\ checkpoint.complete /\ lastPass.left # 0 => pagesRead = AllPages

(***************************************************************************)
(* A pass that returns with budget to spare, or had none, is complete from *)
(* any checkpoint, and it has left out nothing of the company the          *)
(* checkpoint was in the middle of and of the companies on the pages not   *)
(* listed before.  (Companies behind the active one on a page already      *)
(* listed are lost: only the cursor of the next page is kept.)             *)
(***************************************************************************)
AmplePassFinishes ==
  passes' # passes /\ lastPass'.left # 0 =>
    /\ checkpoint'.complete
    /\ \A c \in {checkpoint.active} \cup {CompanyList[n] : n \in (listedOn(checkpoint.companyCursor) + 1)..Len(CompanyList)} :
         c \notin checkpoint.completed \cup {Nobody} => PagesOf(c) \subseteq pagesRead'
=============================================================================
