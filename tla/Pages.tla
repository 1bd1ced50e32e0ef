-------------------------------- MODULE Pages --------------------------------
(***************************************************************************)
(* Pages over records in memory: pagination.ts, batch/paginate.ts and the  *)
(* queries over archived records (archived/).  Indices count from 0, as in *)
(* the code; a cursor is the index it encodes, NoIndex when there is none  *)
(* and BadCursor when it does not decode.                                  *)
(***************************************************************************)
EXTENDS Subject

NoIndex == -1
BadCursor == -2

DEFAULT_PAGE_SIZE == 20
MAX_PAGE_SIZE == 100
MIN_PAGE_SIZE == 1

\* NoIndex: not given.
resolvePageSize(requested) ==
  IF requested = NoIndex THEN DEFAULT_PAGE_SIZE ELSE Max({MIN_PAGE_SIZE, Min({requested, MAX_PAGE_SIZE})})

decodeCursor(cursor) == IF cursor = BadCursor THEN 0 ELSE cursor

\* Array.slice(from, to).
Slice(s, from, to) == SubSeq(s, from + 1, Min({to, Len(s)}))

\* Mutant: a page ends one record early.
PageAt_Short(records, start, size) ==
  LET end == Min({start + size, Len(records)}) IN
  [data |-> Slice(records, start, end - 1), end |-> end, hasNext |-> end < Len(records), hasPrev |-> start > 0,
   next |-> IF end < Len(records) THEN end ELSE NoIndex,
   prev |-> IF start > 0 THEN Max({0, start - size}) ELSE NoIndex, page |-> (start \div size) + 1]

PageAt(records, start, size) ==
  LET end == Min({start + size, Len(records)}) IN
  [data |-> Slice(records, start, end), end |-> end, hasNext |-> end < Len(records), hasPrev |-> start > 0,
   next |-> IF end < Len(records) THEN end ELSE NoIndex,
   prev |-> IF start > 0 THEN Max({0, start - size}) ELSE NoIndex, page |-> (start \div size) + 1]

\* A cursor goes before a page number, and that before the direction.
paginate(records, o) ==
  LET size  == resolvePageSize(o.pageSize)
      start == IF o.cursor # NoIndex THEN decodeCursor(o.cursor)
               ELSE IF o.page # NoIndex THEN (Max({1, o.page}) - 1) * size
               ELSE IF o.direction = "backward" THEN Max({0, Len(records) - size}) ELSE 0
  IN  PageAt(records, Max({0, Min({start, Len(records)})}), size)

PageOptions(size, page, cursor, direction) == [pageSize |-> size, page |-> page, cursor |-> cursor, direction |-> direction]

\* The pages that following next (or prev) gives, at most bound of them.
Follow(records, o, link, bound) ==
  LET pages[n \in 0..bound] ==
        IF n = 0 THEN <<paginate(records, o)>>
        ELSE LET cursor == Last(pages[n - 1])[link] IN
             IF cursor = NoIndex THEN pages[n - 1] ELSE Append(pages[n - 1], paginate(records, [o EXCEPT !.cursor = cursor]))
  IN  pages[bound]

\* paginateIterator follows next; archiveIterator does so over the filtered records.
paginateIterator(records, o) == Follow(records, o, "next", Len(records))

DataOf(pages) == FoldLeft(LAMBDA acc, p : acc \o p.data, <<>>, pages)

-----------------------------------------------------------------------------
\* batch/paginate.ts: the page size is the whole list unless it is given.
batchPages(n, size) == IF n = 0 THEN 1 ELSE (n + size - 1) \div size

getBatchPage(items, pageSize, index) ==
  LET size == IF pageSize = NoIndex THEN Len(items) ELSE pageSize
      offset == Min({index * size, Len(items)})
      total == IF Len(items) = 0 THEN 1 ELSE batchPages(Len(items), size)
  IN  [items |-> Slice(items, offset, offset + size), index |-> index, offset |-> offset, total |-> total,
       hasNext |-> index + 1 < total]

\* Mutant: the last, shorter page is not made.
iterateBatches_FullPages(items, pageSize) ==
  LET size == IF pageSize = NoIndex THEN Max({Len(items), 1}) ELSE pageSize
      total == Max({1, Len(items) \div size})
  IN  [n \in 1..total |->
        [items |-> Slice(items, (n - 1) * size, n * size), index |-> n - 1, offset |-> (n - 1) * size,
         total |-> total, hasNext |-> n < total]]

iterateBatches(items, pageSize) ==
  LET size == IF pageSize = NoIndex THEN Max({Len(items), 1}) ELSE pageSize
      total == batchPages(Len(items), size)
  IN  [n \in 1..total |->
        [items |-> Slice(items, (n - 1) * size, n * size), index |-> n - 1, offset |-> (n - 1) * size,
         total |-> total, hasNext |-> n < total]]

-----------------------------------------------------------------------------
\* ArchiveFilterBuilder: withMaxAmount looks at the minimum set before it, withMinAmount at nothing.
NoFilter == [ids |-> {}, assets |-> {}, from |-> NoIndex, to |-> NoIndex, status |-> "", min |-> NoIndex, max |-> NoIndex]

withMinAmount(f, amount) == IF amount < 0 THEN f ELSE [f EXCEPT !.min = amount]
withMaxAmount(f, amount) == IF f.min # NoIndex /\ amount < f.min THEN f ELSE [f EXCEPT !.max = amount]

\* validatePeriodOrdering throws where this fails.
validPeriodOrdering(f) == f.from = NoIndex \/ f.to = NoIndex \/ f.from <= f.to

\* Mutant: a record without an asset passes every asset filter.
passesArchiveQuery_NoAsset(r, f) ==
  /\ f.status # "" => r.status = f.status
  /\ f.assets # {} => r.asset = "" \/ r.asset \in f.assets
  /\ f.from # NoIndex => r.at >= f.from
  /\ f.to # NoIndex => r.at <= f.to

passesArchiveQuery(r, f) ==
  /\ f.status # "" => r.status = f.status
  /\ f.ids # {} => r.id \in f.ids
  /\ f.assets # {} => r.asset \in f.assets
  /\ f.from # NoIndex => r.at >= f.from
  /\ f.to # NoIndex => r.at <= f.to
  /\ f.min # NoIndex => r.amount >= f.min
  /\ f.max # NoIndex => r.amount <= f.max

applyArchiveQuery(records, f) == SelectSeq(records, LAMBDA r : passesArchiveQuery(r, f))

getArchivedPayrollPage(records, f, o) == paginate(applyArchiveQuery(records, f), o)

archiveIterator(records, f, size) == paginateIterator(applyArchiveQuery(records, f), PageOptions(size, NoIndex, NoIndex, "forward"))

\* buildArchiveSummaryReport: what is not completed counts as failed.
buildArchiveSummaryReport(records, f) ==
  LET filtered == applyArchiveQuery(records, f)
      key(r) == IF r.asset = "" THEN "unknown" ELSE r.asset
      counts(s) == [total |-> Len(s), completed |-> Count(LAMBDA r : r.status = "completed", s),
                    failed |-> Count(LAMBDA r : r.status # "completed", s)]
  IN  [all |-> counts(filtered),
       byAsset |-> [a \in {key(filtered[i]) : i \in DOMAIN filtered} |-> counts(SelectSeq(filtered, LAMBDA r : key(r) = a))]]

\* filterPayrollRecords and filterAuditRecords of pagination.ts, which know no assets.
filterPayrollRecords(records, f) ==
  SelectSeq(records, LAMBDA r : /\ f.min # NoIndex => r.amount >= f.min
                                /\ f.max # NoIndex => r.amount <= f.max
                                /\ f.from # NoIndex => r.at >= f.from
                                /\ f.to # NoIndex => r.at <= f.to)

-----------------------------------------------------------------------------
Numbers(n) == [i \in 1..n |-> i]

PageInputs == [n : 0..5, size : {NoIndex, 0, 1, 2, 3, 101}, page : {NoIndex, 0, 2, 9}, cursor : {NoIndex, BadCursor, 0, 3, 9},
               direction : {"forward", "backward"}]

ArchiveInputs ==
  LET records == {[id |-> "r", asset |-> a, status |-> s, at |-> t, amount |-> m] :
                    a \in {"", "X"}, s \in {"completed", "failed"}, t \in {1, 2}, m \in {1, 2}}
      filters == {withMinAmount(withMaxAmount([NoFilter EXCEPT !.assets = a, !.from = f, !.to = o, !.status = s], mx), mn) :
                    a \in {{}, {"X"}}, f \in {NoIndex, 1, 2}, o \in {NoIndex, 1}, s \in {"", "completed"},
                    mn \in {NoIndex, 2}, mx \in {NoIndex, 1}}
  IN  ({<<>>} \cup {<<r, s>> : r, s \in {x \in records : x.amount + x.at # 3}}) \X filters

(***************************************************************************)
(* Following next from the first page gives every record once and in       *)
(* order, whatever the page size; from any page, going back by prev        *)
(* reaches the first record; a page always says the truth about what lies  *)
(* before and after it (pagination.ts 185-297).                            *)
(***************************************************************************)
PagesTile ==
  About("pages") =>
    LET i == subject.input
        records == Numbers(i.n)
        p == paginate(records, PageOptions(i.size, i.page, i.cursor, i.direction))
        back == Follow(records, PageOptions(i.size, i.page, i.cursor, i.direction), "prev", i.n)
        ahead == Follow(records, PageOptions(i.size, i.page, i.cursor, i.direction), "next", i.n)
    IN  /\ DataOf(paginateIterator(records, PageOptions(i.size, NoIndex, NoIndex, "forward"))) = records
        /\ ~back[Len(back)].hasPrev /\ ~ahead[Len(ahead)].hasNext
        /\ UNION {ToSet(q.data) : q \in ToSet(back \o ahead)} = ToSet(records)

(***************************************************************************)
(* iterateBatches makes the pages that getBatchPage gives for each index,  *)
(* and they hold every item once (batch/paginate.ts 108-171).              *)
(***************************************************************************)
BatchPagesTile ==
  About("pages") =>
    LET items == Numbers(subject.input.n)
        size == subject.input.size
        pages == iterateBatches(items, size)
    IN  size # 0 =>
          /\ \A n \in DOMAIN pages : pages[n] = getBatchPage(items, size, n - 1)
          /\ FoldLeft(LAMBDA acc, p : acc \o p.items, <<>>, pages) = items

(***************************************************************************)
(* The page, the iterator and the summary of an archive query are about    *)
(* the same records: the counts add up to the pages, by asset too; and a   *)
(* query over amounts and times finds what the history filter finds        *)
(* (archived/internal.ts 21-91, summary.ts 36-88, pagination.ts 244-255).  *)
(***************************************************************************)
ArchiveAnswersAgree ==
  About("archived") =>
    LET records == subject.input[1]
        f == subject.input[2]
        report == buildArchiveSummaryReport(records, f)
        data == DataOf(archiveIterator(records, f, 1))
    IN  /\ report.all.total = Len(data) /\ report.all.completed + report.all.failed = Len(data)
        /\ MapThenSumSet(LAMBDA a : report.byAsset[a].total, DOMAIN report.byAsset) = Len(data)
        /\ f.assets # {} => "unknown" \notin DOMAIN report.byAsset
        /\ getArchivedPayrollPage(records, f, PageOptions(NoIndex, NoIndex, NoIndex, "forward")).data = data
        /\ f.status = "" /\ f.assets = {} => data = filterPayrollRecords(records, f)
        /\ ~validPeriodOrdering(f) => data = <<>>
=============================================================================
