# SimpleDB in TLA+

SimpleDB (`src/simpledb/`, Python) is a small single-user relational engine: slotted pages in
one file, a buffer pool, heap files, a catalog, hash indexes, and a SELECT pipeline of iterators.
These modules specify its state and operations as the code has them, TLC checks them on small
instances, and TLAPS proves the page layout and its bytes, the buffer pool, heap files, the catalog on disk, the
recovery of flushed rows after a crash, hash indexes, and the way from the text of a SELECT to its plan, with the
promises the lower layers make to those above them, correct for every instance.

## 1. The system

| part | state | operations | used by |
| --- | --- | --- | --- |
| slotted page (`disk/slotted_page.py`, `data_page.py`, `page.py`) | header fields, slot directory, records | `allocate_slot`, `insert_record`, `add_entry`, `get_record` | heap pages, header pages |
| disk manager (`disk/disk_manager.py`) | the file, `num_pages` | `allocate_page`, `read_page`, `write_page` | buffer manager |
| buffer manager (`buffer/`) | frames: page, pins, dirty, content | `get_page`, `pin`, `unpin`, `mark_dirty`, `flush_dirty`, `get_new_page` | everything above |
| header pages (`disk/header_page.py`) | name → first page, on disk | `find_catalog_entry`, `insert_catalog_entry` | heap files |
| heap files, of tables and temporary (`heap/heap_file.py`, `access/`) | a chain of pages; inserters and scans with their positions | `insert`; `has_next`, `__next__`, `mark`, `reset`, `close` | executor, indexes |
| catalog (`main/catalog/catalog.py`) | schemas and indexes by name, in memory | `add_schema`, `read_schema`, `find_name_of_schema`, `add_index` | database manager |
| hash index (`index/hash_index.py`) | buckets of copied rows | `build_from_table`, `insert` (callback), `lookup` | planner |
| planner and executor (`executor/`) | one pipeline of iterators per query | `has_next`, `__next__`, `mark`, `reset`, `close` | query engine |
| parser (`parser/`) | none | `generate_query`, `FilterArgs.parse` | query engine |
| query engine (`executor/query_engine.py`) | the current query | prompt, parse, validate, plan, fetch, close | user |

Everything runs in one thread, and the calls that matter are not atomic for the state they
share: an iterator lives across many calls, so inserts, flushes and other scans run between two
steps of a scan. The shared state is the pool: pins and frames belong to whoever names the page.
The hard behaviours are

- *interleaving of live iterators*: frames that change hands under a scan, pins that are taken
  by somebody else, lookahead that goes stale, chains that grow while they are read;
- *limits*: a pool with no free frame, a full page, a full header page;
- *failing half-way*: a value that cannot be written, a page that cannot be fetched, a close that
  raises, a text that is read up to some place;
- *restart and crash*: the order in which changed pages reach the file, page numbers that were
  handed out and never written.

What makes each part correct: records of a page do not overlap, do not move and read back (page); a page is in
one frame, a clean frame equals the disk, a pinned frame stays, pins are given back (pool); a table
is an append-only sequence of rows and a scan reads it in order, completely (heap file); a name
keeps its own file and flushed rows survive (catalog, header pages); a lookup equals a filtered
scan (index); the query is the one that was written (parser); the rows returned are those of the query and
every page is given back (executor).

## 2. Modules

```
SlottedPage                 one page as ranges               SlottedPageProofs, SeqLemmas
  DataPage                  its bytes; implements SlottedPage    DataPageProofs, SeqLemmas
BufferPool                  frames, file: the operators
  PoolClients               the pool and all its callers     PoolProofs, SeqLemmas
    implements PageStore    "a page has a current and a durable content"
HeapPages                   what is on a page, as data
  HeapFile                  inserters and scans, over BufferPool    HeapProofs
    implements RowTable     "a table is an append-only sequence of rows"
  Database                  catalog, header pages, temporary files, crash; over PageStore    DatabaseProofs
IndexedTable                indexes, over what RowTable promises   IndexProofs
QueryText                   from the text of a SELECT to a query
  QueryPlanning             SELECT: read, validate, plan, end       QueryProofs
    QueryPipeline           the same steps with the iterators, over rows
MCDataPage, MCHeapFile, MCDatabase, MCIndexedTable, MCQueryPlanning, MCQueryPipeline   small instances
```

The layers are cut at the abstract specifications. `PageStore` and `RowTable` are the promises of
the pool and of the heap file; `PoolClients` and `HeapFile` are shown to implement them
(`ImplementsPageStore`, `ImplementsRowTable`, both proved and checked), and `Database` and `IndexedTable` are built on the
promise instead of the detail.

**SlottedPage.** `slots` is the directory with the extent each entry owns, `freeStart` and `freeEnd`
are the header fields. `Insert` is `DataPage.insert_record` with `allocate_slot` (`Fits`,
`FindFreeSlot`, `AllocateSlot`); `InsertFails` is the same when a value cannot be converted: the
slot stays allocated. `InsertRefused` is the `OverflowError` path of both page kinds. `Damage` is a
string longer than its column (`Overruns`). `ClearSlot` sets a slot's offset to 0: `set_slot_offset`
allows it and `find_free_slot` looks for it, though no caller under `src/` deletes a record.

**DataPage.** The same page as its bytearray. A byte is known by the value it was written for and its
place in the encoding, so that a field reads back exactly when all its bytes are still there; zero
bytes are those of 0, 0.0, False and "". `Put` is the setters of `page.py` (a string's slice makes the
bytearray longer when it ends behind it), `ReadColumn` the getters, `Allocated` is `allocate_slot` on
the header bytes, `WriteRow` `_write` column after column up to the first that raises, `PageReloaded`
the `PAGE_SIZE` bytes that come back from the file. Rows are all those `Tuple.set_column` accepts. The loops
over the columns (`RecordLength`, `ColumnOffset`, `WriteRow`) are recursive functions, so that they can be
proved about.

**BufferPool, PoolClients.** `frames` is `BufferManager.frames`; `disk`, `fileLen` and `numPages` are
the disk manager. `GetPage` is `get_page` with replacement, `FlushDirty` is `flush_dirty`, including
that `flush_page` unpins. `Victim` is any unpinned frame and `PoolExhausted` any pool with a pinned
frame: the replacer draws at random with repetition and gives up after a number of draws, so both
happen. `PoolClients` adds the callers: `held` counts, as history, the pins a caller believes it has.
`UpdatePage` is the get–change–unpin(dirty) of inserters and header pages, `BreakPage` the insert that raises between
(`heap_file_inserter.py:35`, `data_page.py:29`): the frame is changed, not dirty and keeps its pin. `WriterRaises` is
that call on the pages of `RaisingPages`; `raised` counts the pins it leaves, and `unmarked` are the pages whose frame
is still changed and clean: until somebody marks the frame, or it is replaced after a flush or a spare unpin took its
pin. `CrashAfter(k)` writes back any number of pages of a flush and dies. Hit counters are left out. `PageStore` has
the same promise without frames: a `HalfWrite` leaves a page `loose`, which is not written back and may fall back to
its durable content at any time, until it is written whole or marked (`Mark`). No other page ever falls back.

**HeapFile.** One action per `get_page`: an insert is `CallInsert`, then `InsertStores`,
`InsertMovesOn`, or `InsertAllocates`/`InsertInitialises`/`InsertLinks`, or `InsertAborts` (the pool is
exhausted) or `InsertBreaks` (a value fails half-way); a scan is `OpenScan`, `ScanReturns`,
`ScanLeavesPage`/`ScanFetches`/`ScanStopsShort`, `MarkScan`, `ResetLeavesPage`/`ResetFetches`/
`ResetFails`, `CloseScan`. `thread` holds the running call: between two of its steps nobody else runs,
between two calls everybody may. A scan aliases the bytes of its frame: `live` and `bytes` follow
what happens to them when the frame gets another page (`Detached`). `BadRows` are the tables whose rows
may break off half-written; what those leave behind, slots and pins, is there for the other tables.
`Chain` follows the links from the first page of a table, wherever the pages are, and `Stored` puts the
records of those pages one after the other: what `count_tuples` and a scan without a stop would see. Both
are functions of the contents of all pages (`Pages`), so that a step is reasoned about by what it does to
a page.

**Database.** `catalog` is `Catalog.schemas` in order, `file` the heap files the program holds, those of
`Temps` being the temporary ones (`OpenTemporary`: a page that no entry names, then inserts like any
other file). Opening
a table is `OpenFinds`, or `OpenAllocates`, `AddsEntry`/`AddsHeaderPage`, `FlushesEntry`,
`InitialisesFirstPage`; an insert walks the chain from the first page. `EvictPage` writes any changed
page back at any moment. `Restart` is `close` and a new `DatabaseManager`; `Crash` keeps `durable`
and `fileLen`. A row on a header page (see 6) may be unreadable as an entry: its bytes are data, so
`Illegible` names the rows whose bytes raise in `find_catalog_entry`.

**IndexedTable.** Tables, an index per column, and the callback between the insert and the index. The
scan that builds an index may be cut short (`ShortScans`); `missed` records what it left out. `Same` is
Python's `==`, `ReadBack` what a page gives back for a value. `bucketOf` is any function from values to buckets, chosen once: sha256 is not modelled
further. A lookup is the positions in its bucket it takes tuples from; `LookupAgrees` places them in the heap
file in the same order.

**QueryText.** A text is its select list, table and clauses in the order they were written. A word, number or quoted
text is a token: what was `written`, what is `read` of it, and whether that is all (`form`). The regular expression
of `generate_query` is anchored at its start only: `ItemsRead` is the longest prefix of the columns or conditions of a
clause it can match, whose last one may be read in part; `ClausesRead` the longest prefix of the clauses, each in its
place, a clause following only one that was read to its end. `ParsedFilters` is `FilterArgs.parse`, whose split at
" AND " is narrower than the expression and also finds an AND in quotes (`BeginsPart`); `Refused` is None or
`ValueError`. `GenerateQuery` is the result. `Beginning(text, n, m)` is the text up to an item of a clause, with that
item as it was read and all before it as they were written, and `Meaning` what it says.

**QueryPlanning.** The life of one command after another: `Prompt`, `Read` (any text of `Commands` is read or
refused), `Reject`, `Plan` or `PlanRaises` (the planner opens tables and looks keys up, which may raise), `End`. `Validate` is `Query.validate`, `OrderedFilters` is
`_order_filters_for_access`, `Planned` the pipeline `create_logical_plan` and `_build_iterator` build, first
stage first. What happens between `Plan` and `End` is left to QueryPipeline.

**QueryPipeline.** Each step of QueryPlanning with what it does to the iterators (`NextPrompt`, `ReadQuery`,
`QueryRejected`, `QueryPlanned`, `PlannerRaises`), and the calls on the pipeline in between. It is written over
QueryPlanning's own actions, so that its steps are those of QueryPlanning by construction: that needs no run. `at[k]` is the state of the k-th iterator; `HasNext`,
`NextRow` and `CloseAt` call down the pipeline as the methods do and return the new states with the
answer: "yes", "no", "stop" (StopIteration, also out of `has_next` of a join with an empty right
table), "raised", or a row. A stage is `AskScan`/`TakeScan`, `AskIndex`/`TakeIndex`, `AskJoin` (with
`JoinLoop`), `AskFilter`/`Seek`, `AskOrder`/`TakeOrder`, `AskLimit`/`TakeLimit`, `NextProjected`. A
table is its rows; a scan's page is the flag `held`. BOOLEAN values are 0 and 1; a literal that does
not parse is `Junk`. `Answer` is the reference: nested loops, filter, stable sort, project, cut.

## 3. Runs

| run | checks | instance | states |
| --- | --- | --- | --- |
| `page_layout` | `RecordsDisjoint`, `FullAtCapacity`, `RecordsStayPut` | 24 bytes, 3 record sizes, failing values: up to five records, mixed sizes, freed slots reused | 84,193 |
| `page_bytes` | `RowsReadBack`, `ImplementsLayout` | 104 bytes with the real header and column lengths, 7 schemas, 12 values: strings of 0, 3, 14 (the field), 15 and 40 characters, a non-ASCII string, an integer beyond 32 bits | 7,918 |
| `pool_clients` | `PageInOneFrame`, `CleanMeansOnDisk`, `DirtyPagesExist`, `PinsAreReturned`, `FlushReachesDisk`, `RestartSeesFile`, `PinnedFrameStays`, `ImplementsPageStore` | 2 frames, 3 pages, 2 contents, 2 pins per page, one raising writer on one page, spare unpins, crashes | 404,006 |
| `heap_scans` | `ScanPosition`, `ScanComplete`, `PinsAreScans`, `ImplementsRowTable` | 2 frames, 4 pages, 1 row per page, 3 rows, 2 scans, flushes | 241,886 |
| `heap_tables` | `ChainsSound`, `ScanPosition`, `ImplementsRowTable`, `CallsEnd` | 2 tables, two inserters on one and one with failing rows on the other, 1 scan with marks, 2 frames, 5 pages | 346,898 |
| `db_catalog` | `TablesDisjoint`, `EntryPagesExist`, `NamesOwnFiles` | 2 tables and a temporary file, 7 pages, header pages of one entry, 3 rows, restarts | 612,103 |
| `db_recovery` | `FlushedRowsSurvive`, `FoundAgain` | 2 tables and a temporary file, 4 pages, 3 rows, crashes, a header page of five entries, one illegible row | 761,433 |
| `index_agrees` | `IndexAgreesWithScan` | 2 tables, 2 indexed columns, values with two equal ones written differently, 2 buckets, 2 rows, short scans | 297,060 |
| `query_results` | `QueryWasWritten`, `PlanDoesTheQuery`, `RowsAreTheAnswer`, `AnswersAreTrue`, `PagesGivenBack` | 37 texts (15 in the grammar, 10 that lose whole clauses or conditions, 12 whose reading stops inside a clause, most often inside a token) over every `orders(k, v)` of up to 3 rows and `parts(k, w)` of up to 2 (4 rows in all), with and without an index | 342,654 |
| `heap_cut_short` | `EndMeansNoMore`, refuted | 3 frames, 2 scans | |
| `db_header_overflow` | `FoundAgain`, refuted | 2 tables, header page of one entry | |
| `sql_dropped` | `WholeWhereRead`, refuted | a WHERE clause on two lines | |

Each module's type invariant is checked by one of its runs (`TypeOK`).

**Why the bounds are enough.** A pool needs more pages than frames to evict and two frames to evict
one page and keep another; the code insists on three frames (`database_manager.py:42`), and two reach
every situation with fewer states (three are used where a counterexample is shown). Three pages per
chain give a first, an inner and a last page; one row per page makes every insert cross a page. A
header page of one entry makes the second table overflow it. `db_recovery` keeps the overflow out: five entries are
just enough for two names and three rows (`HeaderFits` in 5), and TLC finds `HeaderOverflows` in no state. Its four pages and three rows reach rows that stray
into the header page after a crash; with five pages they fill a smaller one and both properties fail (see 6), while
with five entries they hold there too (4,097,163 states, too many for a run). Two pins per page tell "somebody else's pin" from one's own. In `page_bytes` a page of 104 bytes holds
one to three records of the seven schemas, so that a long string reaches the next field, the record
before it, and the end of the page. The integers of the page (`PageSize` < 2^16) are the only ones with
a width, and `PageAssumption` and `HeaderAssumption` carry it; for the 32 bits of INTEGER `Values` has one that does not fit.
Two rows and two buckets put equal keys in one bucket or in two and different keys in one. The bounds
`MaxPages`, `MaxRows`, `MaxHeld`, `MaxRaised` only stop the growth of counters. `MaxBusy = 3` lets readers hold all three pages, also
more than there are frames, while no writer has raised, and two beside the pin that one has left (without it the run
has 651,430 states and finds nothing more). Writers raise on one of the three
pages of `pool_clients`, so that there are sound pages beside it, which must not notice. The texts of `query_results`
have each kind of clause, in and out of order, alone and repeated, and each place where the reading can stop: after
a clause, a condition or a column, and inside the table's name, a join's right column, a literal, a column of ORDER
BY and the number of LIMIT. In `query_results` three rows
on the left and two on the right give ties in the sort, a right table that is empty, matches none,
one or several rows, and a limit below, at and above the number of rows; `MaxAllRows` leaves out the
largest left table beside the largest right one. Symmetric are the scans of `heap_scans`, which run the
same code, and the buckets of `index_agrees`; no run with a liveness property uses symmetry.

All runs but `heap_tables` check deadlock: the callers can always make one more call. There, rows that
break off leave pins behind until every frame is pinned; then each call raises and changes nothing, and
once `MaxRows` is reached no step is left.

## 4. Fairness

`HeapFile!Spec` assumes weak fairness of the steps of a call (`InsertStep`, `ScanStep`): the one thread
of the program runs a call it has started to its end. Nothing is assumed of the callers: no call need
ever be made. The other specifications are safety only.

## 5. Proofs

`SlottedPageProofs` proves, for all page sizes and record sizes that satisfy `PageAssumption` and
`InputAssumption`: `TypeOK`, `RecordsDisjoint`, `FullAtCapacity`, `RecordsStayPut`. The inductive
invariant `PageInv` adds to disjointness that a refusal was justified. Disjointness is stated
with the extents of the directory and of the free area, which is what makes it inductive: a new record
lies between `freeStart` and the lowest record. `FullAtCapacity` then is arithmetic: a page of equal records,
n of them, has `freeEnd - freeStart` exactly n·(size + entry) below the start, and the refusal bounds
it by one more.

`DataPageProofs` proves the same page down to its bytes, for every page size below 2^16, every place of the header
fields, every string length and all schemas, values and strings that are too long: `TypeOK`, `RowsReadBack` and the
refinement `ImplementsLayout`. What a row reads back as is not inductive, since nothing says where its bytes are. The
inductive invariant `BytesInv` adds

- `Directory`: the header bytes spell the number of slots and the two ends of the free area, and entry i of the
  directory spells the start of record i, `PageSize - i * RecordLength`;
- `ColumnsThere`: for each row that is still whole, every column's bytes are those of the value as it is stored;
- `WholeBegins`: the first byte of a whole row is not a later byte of some value. A string that is too long runs upwards from its own
  column over the records stored before it, and this tells a record it ran over from one it did not reach.

A new record is the lowest one, below all others and above the directory (`Fits`), so that the only bytes a row can
reach besides its own are those of the rows before it: `Put` changes one stretch of bytes and no byte below it. The
columns of a row are an induction along `WriteRow`: after i columns the first i can be read back, and nothing below
the row has changed (`Written`). `RowsAreReadBack` follows by reading each field; `BytesImplementLayout` maps the rows
to extents, an insert to `Insert` or `InsertFails` with the damage as far as the longest string reached, a full page to
`InsertRefused`, and writing and reading the page to a stutter.

`PoolProofs` proves, for every number of frames, pages, contents, readers and writers that raise, on whichever pages:
`TypeOK`, `PageInOneFrame`, `CleanMeansOnDisk`, `DirtyPagesExist`, `PinsAreReturned` and `PinnedFrameStays`. The
inductive invariant `PoolInv` is their conjunction over the frames: none is inductive alone, because replacing a frame
keeps "clean equals disk" only if the victim was written if dirty, which needs that its page exists,
and unpinning by page name keeps the pin counts right only if a page is in one frame. `CleanMeansOnDisk` and
`FlushReachesDisk` leave out the pages in `unmarked` and `PinsAreReturned` allows a pin per raised writer, because
without that they are false of the code: a raising insert changes a clean frame and keeps its pin. What they say is that
this is all it does. `unmarked` never has a page without a clean frame (`StillUnmarked`), so it is as small as the
code allows: a mark by any other caller, an eviction or a restart ends it. The proof
follows the code: lemmas about a frame's methods, then about a pool step (`GetPage`, `FlushDirty`, …),
then one step per action of the callers.

It then proves, with the same generality, what the layers above rely on. `FlushReachesDisk`
follows from `PoolInv` and `FlushInv` (after a flush no frame is dirty), `RestartSeesFile` from `PoolInv`
and `FileInv`: every page that was written lies in the file and the file is never longer than the page
count, because only pages of dirty frames are written and those exist. `PoolImplementsStore` proves the
refinement `ImplementsPageStore`: `CurrentIs` says what a reader of a page sees (its frame if it has one, by
`DistinctPages` the only one, else the disk), `HitWrites`, `MissWrites` and `ContentsKept` how each shape of
pool step changes it, `FramesWrittenBack` that writing frames writes current contents; then every action
is a `Write` (an update), a `HalfWrite` (a writer that raises), a `Mark` (a dirty flag set on a loose page), a
`WriteBack` (all others, also a `get_page` that fails) or a `Crash`. The proof needs that the victim of a replacement,
if it is clean and not loose, equals the disk: the invariant again.

`HeapProofs` proves `PinsAreScans` for every number of frames, pages, tables, inserters and scans, when all
rows can be written (`BadRows = {}`: a row that breaks off leaves its pin behind, see 6), and from it that
with more frames than scans the replacer always has a frame to draw (`FrameIsFree`). `PinsAreScans` is
not inductive: a scan between two pages, or in `reset`, already names a page it has no pin on, and its
`get_page` adds one. `Holders` leaves those scans out; `HeapInv` bounds the pins of a frame by its holders,
says that no page is in two frames (unpin works by page name) and that a scan in a call is open. Each
action then is one of four things to the pool: a page is held by a scan that held nothing of it
(`HoldStep`), given back by the scan that names it, pinned or not (`LeaveStep`), looked at or changed and
given back at once (`InspectStep`, `UpdateStep`), or nothing happens. The proof says nothing about what
frames and scans contain, so it needs no type invariant of the contents.

`HeapProofs` also proves, for every number of tables, inserters, scans, frames, pages and rows, and whichever
tables have rows that break off: `TypeOK`, `ChainsSound` and the refinement `ImplementsRowTable`. The inductive
invariant `TableInv` has a part for each thing a step relies on:

- `PoolOK`: types, no page in two frames, a clean frame is like the page on disk (`Like`: equal, up to the slots
  of a table with bad rows, whose half-written ones are lost), and pages link to allocated pages only;
- `ChainsOK`: the chain of a table is `Whole`, a path of allocated data pages of the table from its first page to
  a page without a link, on which page ids increase and every page but the last is full. `ChainsSound` alone is
  not inductive: without the order of the ids nothing says that a new page closes no circle, and without the end
  of the path nothing bounds the walk of `ChainOf`. Full pages are why an insert from the middle of a chain can
  only add its row at the end of the table;
- `TailsOK`: an inserter stands on the chain of its table, not necessarily at its end;
- `InsertOK`: from the step that found the last page full to the one that links the new page, the last page
  stays full and without a link, and the new page is the newest, above every chain, and empty once initialised;
- `ScansOK`: an open iterator names pages that exist, and a call of an iterator is one of an open iterator.

A step does one of four things to the pages: nothing a table notices (`ChainsStay`), one record more on the page
of an inserter (`ChainsStore`), a page above the chains, or a link from the end of a chain to that page
(`ChainsLink`). That this leaves what `ChainOf` and `FlattenSeq` compute as it is, or adds one page or one row at
the end, are lemmas on paths (`PathIsChain`) and rows (`RowsSplit`, `RowsExtend`).
`HeapFilesAreTables` then maps `CallInsert` to the call of
RowTable, `InsertStores` to its return, `InsertBreaks` and `InsertAborts` to its raise, all others to a stutter
or to the raise being forgotten.

Of the scans it proves `ScanPosition` and, when every row can be written, `ScanComplete`, both unless mark is
called on a scan that has left its page (`Marks # "anywhere"`; with it both are false, see 6). `ScanPosition`
speaks of the next record only; what a step needs is `ScanInv`: the iterator stands on the k-th page of the
chain, sees a prefix of its records (all of them, unless it sees an old copy of what then was the last page),
has returned the rows of the pages before and those before its slot, and its mark is at such a place too; a scan
on its way to the next page has returned every record of the one it left; and a copy without a link holds every
row that was due. Inserts and flushes keep it because chains and pages only grow at their end (`Growing`,
`PlacedKept`, `PlacedLive`), an eviction because the copy is taken of a page that was seen.

`DatabaseProofs` proves, for every number of names, temporary files, pages, rows and entries per header page:
`TypeOK`, `EntryPagesExist`, `TablesDisjoint` and, when no two tables have equal schemas
(`IsInjective(SchemaOf)`), `NamesOwnFiles`. These four assume `~Crashes`, with restarts: after a crash an entry may
lead to no page, and a page whose link was lost to the header page (see 6), so that neither `EntryPagesExist` nor
`DbInv` holds; what does hold then follows below. The inductive invariant `DbInv` says of some assignment of each page to the file it was
allocated for, its owner:

- `StoreOK`: the file is never longer than the page count and holds all that is durable, pages beyond the count are
  zeros, and below it only the first page of the table being opened is;
- `HeaderOK`: the search for an entry reads the first header page and no other (`AddsHeaderPage` links nothing);
  it holds entries only, each of a name and of a page that name owns, in use or, for the table being opened, still
  zero;
- `DataOK`: the link of a data page leads to a later data page of the same owner, so a walk from a first page ends
  and never leaves the file (`ChainLeadsOn`). This is what makes the chains of two names disjoint without saying
  where they are;
- `FilesOK`: a file in use starts at a data page of its own, or of a name with the same schema;
- `ThreadOK`: while a table is opened its first page is still all zeros and owned by the name of its entry; an
  insert that adds a page links the end of its chain to an empty later page of the same owner, and the bound on
  pages never stops it half-way.

The files of two names are disjoint because their pages have different owners, or because one of them is the zero
page of the call that runs, whose link field reads 0, the header page. `EntryPagesExist` needs that the page count
after a restart, which is the length of the file, is what it was before: `allocate_page` writes nothing, and only
because every page in use has been changed (no allocated page is all zeros but the one of a running call) does the
flush in `close` make the file that long (`FlushFillsFile`).

Of runs with crashes at any step, pages written back in any order before, and rows that stray into the header page
afterwards, it proves `TypeOK`, `FlushedRowsSurvive` and `FoundAgain`, again for every number of names, temporary
files, pages, rows and rows per page, of every behaviour in which the header page never overflows:
`Spec /\ []~HeaderOverflows => []...`. `HeaderOverflows` is the state in which the first header page is full and an entry
comes to it (`insert_catalog_entry`), or a row whose walk has ended there. This condition is on what happens, not on how many
rows there are, and it is necessary: `db_header_overflow` violates it without crashes, and so does the instance of
`db_recovery` with five pages, four entries and no illegible row, where TLC refutes both properties.
`HeaderNeverOverflows` says when it is sure to hold (`HeaderFits`): without crashes, when the header page has room for
an entry of every name; with crashes, only when it also has room for `MaxRows` rows, since in the worst case each row
strays there. A header page of 1024 bytes has about two dozen slots, so with crashes that is a guarantee for small
databases only, and none is claimed for larger ones. The
inductive invariant is `RecInv`:

- `StoreR`: a durable page is the page of the pool at some earlier time (`Older`: zero, or the same page with fewer
  slots and perhaps without its link). Links lead to later pages, but for the link field of a page of zeros, which
  reads 0 and leads to the header page;
- `RowsOnce`, `RowsKnown`: a row is in one slot of one page, and only rows passed to `insert` are there;
- `HeaderIn`: a name has one entry, and the search for it comes to no illegible row before. The latter is why the
  order of the entries and the stray rows matters: an entry is added only after the search has read every record;
- `AckedR`: the entry of a table leads to each row whose insert has returned, and on disk to each that was flushed.
  "Leads" is reachability, written as membership in every closed set (`Reach`), over the links readers see
  (`ReadLinks`) and over those that are in the pool and on disk alike (`KeptLinks`). A crash can lose any link but
  those. The one page whose link may still change is the one being opened (`FreshPage`): its zeros lead to the header
  page until it is initialised, so nothing is reached through it;
- `FilesR`, `ThreadR`: a file in use is the one its entry names; a table being opened has no entry or this one;
  an insert that has not yet stored its row has a page left or reaches one with room (`InsertCan`), so that the bound on
  pages never stops it half-way, also when its chain has come to the header page.

`FlushedRowsSurvive` counts occurrences in what a walk reads, which is recursive. A walk ends because `Rank` increases
along the links (the header page, which links nowhere, ranks last: `WalkExists`), comes to every page that is reached
(`WalkMeets`), and no page twice; with `RowsOnce` the row occurs exactly once (`OccursOnce`). `HeaderNeverOverflows`
counts the slots of the header page, at most an entry per name and a slot per row (`HeaderHasRoom`, `RoomForAll`).

`IndexProofs` proves, for every number of tables, columns, values, buckets and rows, and whatever the hash:
`TypeOK` and `IndexAgreesWithScan`, both while no two tables have equal schemas (`IsInjective(SchemaOf)`; else
the second is false, see 6). The inductive invariant `IndexInv` says of each registered index that a tuple is in
the bucket of its key, that the tuples of a bucket are in the order of the heap file, and that each is a copy of a
row stored there, either as insert was given it or as a page gives it back (`BucketsHold`); and that it lacks no row
but those its scan did not come to and the one whose callback has not run (`IndexFits`). Row numbers
increase along the heap file, which makes a copy a copy of one row only and gives the order. `build_from_table` is
an induction over the rows it reads (`BuiltHolds`). A lookup then agrees with the filter because the tuples
that equal the key and are written like it are all in its one bucket.

`QueryProofs` proves, for texts with any clauses, tokens and conditions, read whole, in part or not at all, every
schema and every choice of indexes: `QueryWasWritten` and `PlanDoesTheQuery`. The inductive invariant `PlanningInv` is
short: the query in hand is `GenerateQuery` of the command, it is valid once it runs, and the plan is `Planned` of it.
The work is in what these operators return. For the text: the clauses that are read are a prefix whose places increase,
hence one of a kind (`GrowingClauses`, `ReadClauses`); all items read but the last are read whole (`ReadItems`,
`ReadAsWritten`), so that the clauses are a `Beginning` of the text (`ReadBeginning`) and join, order and limit are its
own; the filters are some of its conditions, in their order (`FiltersPicked`), and all of them when every AND
stands between blanks (`FiltersAll`); only `WHERE` keeps the case of its columns, and `validate` has accepted none but
lower-case ones (`ValidFilters`), which is why the property holds of queries that run and not of all that are read.
For the plan: moving a filter to the front is a rearrangement
(`FirstMoved`), the access has the shape of one scan, join or lookup and a filter for each remaining condition
(`AccessShape`), and sort, projection and limit follow it (`PlanParts`); the places of the conditions in the plan then
are the bijection the property asks for. It assumes nothing but `TextAssumption` and `PlanningAssumption`.
The steps of QueryPipeline are steps of QueryPlanning by the way it is written, so both hold of it, too.

`SeqLemmas` holds facts on sequences they use. Those about `FlattenSeq`, which is recursive, are inductions
over the length; the library's induction theorems cannot be instantiated here, so they are proved by the least
counterexample instead (`LeastIn`, `UpTo`). TLC checked `BytesInv`, `TableInv`, `ScanInv`, `DbInv`, `RecInv`, `IndexInv` and
`PlanningInv` on small instances before they were proved. The run of each module that declares an assumption evaluates it.

Model-checked only: `CallsEnd` of HeapFile, which is liveness; and of QueryPipeline `TypeOK`, `RowsAreTheAnswer`,
`AnswersAreTrue` and `PagesGivenBack`, because its iterators call one another and are RECURSIVE
operators, out of the prover's reach.

## 6. Where the code differs from what it says

Three differences have a run (`sql_dropped`, `heap_cut_short`, `db_header_overflow`; see `findings` in
`PROJECT.json`). The modules show more; each is refuted by TLC with the definition or constants named:

- *a half-written or overrun record is returned*: `SlottedPage!VisibleRecordsWhole` with `ValuesCanFail`
  TRUE, or `Overruns = {0, 1}`. `data_page.py:29` allocates before it converts, `page.py:54` ignores
  MAX_STRING_LENGTH. The insert raises with the frame pinned and not dirty (`PoolClients!WriterRaises`), and the pin
  is never given back. In the heap file such a slot disappears again if its frame, never marked dirty,
  is evicted; `ScanPosition` and `ImplementsRowTable` therefore speak of the tables without such rows.
- *a page grows*: `DataPage!PageKeepsItsSize`. A string longer than the last column of the first record
  makes the bytearray longer than PAGE_SIZE, and `write_page` writes all of it, into the next page.
- *a page in use is evicted*: `PoolClients!PageInUseStays`. `flush_page` takes a pin off each frame it
  writes (`buffer_frame.py:71`), the pin of an open scan as well.
- *"all pinned" with a free frame*: `PoolClients!ExhaustedMeansAllPinned` (`random_replacer.py:28`).
- *a scan loses its pin to another's spare unpin*: `HeapFile!OpenScanKeepsPage`
  (`data_file_iterator.py:90`).
- *reset after a mark at the end goes to a wrong slot*: `HeapFile!ResetReturnsToMark` with `Marks =
  "anywhere"` (`data_file_iterator.py:95`).
- *a durable entry whose page does not exist*: `Database!EntryPagesExist` with `Crashes = TRUE`
  (`heap_file.py:37`). A table whose link is lost at a crash reads link 0 and stores rows in the header
  page; `FlushedRowsSurvive` holds with that.
- *tables with equal schemas share a file and indexes*: `NamesOwnFiles` and `IndexAgreesWithScan` with
  `SchemaOf <- EqualSchemas` (`catalog.py:35`).
- *equal keys, other bucket*: True and 1, 0.0 and -0.0 are equal, their text is not, and the bucket is
  that of the text (`hash_index.py:111`). A lookup can miss such rows; that is why `IndexAgreesWithScan`
  asks only for those written like the key.
- *an index built by a scan that stopped short* misses the rest of the table until it is built again
  (`missed` in `IndexedTable`).
- *header overflow after a crash*: rows that stray into the header page fill it. The next new table then gets the
  unlinked header page of `db_header_overflow`, and the next stray row a page linked from the header page, which
  after one more crash may be zeros that lead back to it: a walk without end (`FoundAgain` and
  `FlushedRowsSurvive` on the instance of `db_recovery` with `MaxPages = 5`, `EntriesPerPage = 2`).
- *what a query text loses* (`query.py:140`, the expression is not anchored at the end): everything from
  the first place it cannot read on, so a negative literal, `OR`, `DESC` or clauses in another order drop what
  follows, the LIMIT too. A token is read as far as its characters fit: `name = Mary-Ann` runs as `name = Mary`,
  `d = 2024-01-05` as 2024, `'O''Brien'` as `O`, `FROM orders-old` reads `orders`, `ON k = parts.w` joins on a column
  called `parts` (which `validate` refuses unless there is one), `ORDER BY k , v` sorts by `k`, and `LIMIT 2.5` is 2;
  `CutCommands` has these cases. `QueryWasWritten` bounds the loss: one token, the last that was read, and what stands
  behind it. `WHERE` keeps the case of its columns while all others are lower-cased, so `WHERE Age = 1` is rejected as an
  unknown column. An `AND` inside quotes raises `ValueError` (`filter_args.py:79`); when the quoted text belongs to
  a condition that is itself dropped after an AND on a new line, what stands behind the AND is parsed as a condition.
- *a planner that raises* while it builds the right input of a join leaves the left scan open (`query_planner.py:136`,
  `QueryPipeline!PlannerRaises`).
- *a filter or limit is reset below its lookahead*: `AnswersAreTrue` with "filter" or "limit" in
  `Markable` (`filter.py:117`, `limit.py:55`).
- *a shared column that is not the join column*: `RowsAreTheAnswer` with a query joining `k` with `w`;
  the right value replaces the left one (`tuple.py:81`).
- *WHERE b = false is rejected* (`query.py:111`), *a range on BOOLEAN raises in the middle of the query
  and leaves its pins* (`range.py:59`, `query_engine.py:97`), *ORDER BY closed before its first row
  raises and leaves its child open* (`in_memory_order_by.py:32`): QueryPipeline has them as the phases
  "rejected" and "failed".

## 7. Not modelled

Characters: words, numbers and quoted texts are values, in QueryText (what is read of them is another value) as in the
conversions of values.
The execution details of the planner, timing, formatting, CSV import, hit and access counters, demos and
performance scripts: nothing reads what they compute. `deallocate_page` and `reset_components` cannot
complete as written. I/O errors other than a page beyond the file are left out; a page write is atomic,
and what a page longer than PAGE_SIZE writes into its neighbour is left out. Database has no pool with a
limit: within one call the pages it asks for are unpinned again, and HeapFile has the inserts and scans
that meet a full pool. Its rows can all be written (`loose <- {}` of PageStore): an insert that raises half-way is
in PoolClients and HeapFile. Temporary files have no caller under `src/`; they are modelled from
`get_temp_heap_file` and `HeapFile`.

## 8. Plan

Done: the page and its bytes, the pool, heap files, catalog, temporary files and recovery, indexes,
query texts, plans and queries; proofs of the page and its bytes, of the pool and its
promise, of heap files (pins, chains, rows, scans, and their promise), of the catalog on disk, of recovery
after crashes, of indexes, and of texts and plans. Next, in this order:

1. Rows that break off in Database: what recovery finds of a page somebody else's mark has made durable.
2. Write the iterators of QueryPipeline as actions, a call and a return each, instead of RECURSIVE operators,
   and prove `PagesGivenBack` and `RowsAreTheAnswer` of them one operator at a time.
3. Model self joins over the pool (QueryPipeline over HeapFile's pins) and a page that writes into the
   next one.
