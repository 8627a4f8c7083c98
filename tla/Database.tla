------------------------------- MODULE Database ------------------------------
(***************************************************************************)
(* Opening tables by name and finding their rows again: DatabaseManager    *)
(* and Catalog (schemas, in memory), HeaderPage (names to first pages, on  *)
(* disk), HeapFile.__init__ and the inserter, over an orderly restart and  *)
(* over a crash at any step.  The pool is what module PageStore promises:  *)
(* every page has a current and a durable content, and any changed page    *)
(* may be written back at any time.                                        *)
(***************************************************************************)
EXTENDS HeapPages, SequencesExt

CONSTANTS
  Temps,      \* temporary heap files; none is in the catalog
  Schemas,    \* tuple descriptors
  SchemaOf,   \* [Names -> Schemas], the schema each table is registered with
  MaxRows,    \* bound on the rows ever passed to insert
  Illegible,  \* rows whose bytes raise when they are read as a catalog entry
  Crashes     \* TRUE when the process may die without close

ASSUME DatabaseAssumption ==
  /\ SchemaOf \in [Names -> Schemas] /\ Names \cap Temps = {}
  /\ MaxRows \in Nat /\ Illegible \subseteq 1..MaxRows /\ Crashes \in BOOLEAN

PageIds == 0..(MaxPages - 1)
Files == Names \cup Temps
Header == 0                      \* DatabaseConstants.FIRST_PAGE_ID

VARIABLES
  pages, durable,   \* see PageStore
  numPages,         \* DiskManager.num_pages
  fileLen,          \* length of the file in pages
  catalog,          \* the names in Catalog.schemas, oldest first
  file,             \* [Files -> first_page_id] of the HeapFile got last for each
  thread,           \* the call that is running
  lastRow,          \* the number of the last row passed to insert
  acked,            \* history: [Names -> the rows whose insert returned]
  kept              \* history: acked, as it was at the last flush_dirty

store == <<pages, durable, numPages, fileLen>>
vars == <<pages, durable, numPages, fileLen, catalog, file, thread, lastRow, acked, kept>>

Store == INSTANCE PageStore WITH Contents <- PageContents, loose <- {}

Idle == [step |-> "idle"]
Calls == {Idle} \cup
  [step : {"register", "flush", "initialise"}, name : Names, entry : Names, first : Links] \cup
  [step : {"insert", "link"}, name : Files, last : Links, new : Links]

TypeOK ==
  /\ pages \in [PageIds -> PageContents] /\ durable \in [PageIds -> PageContents]
  /\ numPages \in 1..MaxPages /\ fileLen \in 1..MaxPages
  /\ catalog \in Seq(Names) /\ IsInjective(catalog)
  /\ file \in [Files -> Links]
  /\ thread \in Calls
  /\ lastRow \in 0..MaxRows
  /\ acked \in [Names -> SUBSET (1..MaxRows)] /\ kept \in [Names -> SUBSET (1..MaxRows)]

NoFiles == [f \in Files |-> NoLink]
NoRows == [n \in Names |-> {}]

\* DiskManager._initialise on an empty file: one header page.
Init ==
  /\ pages = [p \in PageIds |-> IF p = Header THEN EmptyHeader ELSE ZeroBytes]
  /\ durable = pages
  /\ numPages = 1 /\ fileLen = 1
  /\ catalog = <<>> /\ file = NoFiles
  /\ thread = Idle
  /\ lastRow = 0
  /\ acked = NoRows /\ kept = NoRows

------------------------------------------------------------------------------
(* Chains *)

\* The pages a walk from page p meets by get_next_page when pages have the
\* given contents and ids below `len` can be read, at most MaxPages of them.
ChainIn(contents, len, p) ==
  LET longer == [c \in Seq(PageIds) |->
                   LET next == IF c = <<>> THEN p ELSE contents[Last(c)].next
                   IN  IF next = NoLink \/ next >= len THEN c ELSE Append(c, next)]
      walk[n \in 0..MaxPages] == IF n = 0 THEN <<>> ELSE longer[walk[n - 1]]
  IN  walk[MaxPages]

Chain(p) == ChainIn(pages, numPages, p)

RecordsIn(contents, chain) ==
  FlattenSeq([i \in DOMAIN chain |-> contents[chain[i]].slots])

\* The positions the search gets to.  Rows get into a header page when a link
\* leads there (see InsertStores): they are read as entries of other names, or
\* the search stops with an exception.
IsRow(r) == "row" \in DOMAIN r
Legible(records) ==
  {i \in DOMAIN records :
     \A j \in 1..i : IsRow(records[j]) => records[j].row \notin Illegible}

\* Mutant: the names are not compared.
FindAny(contents, len, name) ==
  LET records == RecordsIn(contents, ChainIn(contents, len, Header))
      found == {i \in Legible(records) : ~IsRow(records[i])}
  IN  IF found = {} THEN NoLink ELSE records[Min(found)].first

\* find_catalog_entry: the first valid entry of that name.
FindIn(contents, len, name) ==
  LET records == RecordsIn(contents, ChainIn(contents, len, Header))
      found == {i \in Legible(records) :
                  /\ ~IsRow(records[i])
                  /\ records[i].name = name /\ records[i].first # NoLink}
  IN  IF found = {} THEN NoLink ELSE records[Min(found)].first

Occurs(r, records) == Cardinality({i \in DOMAIN records : records[i] = [row |-> r]})

FindEntry(name) == FindIn(pages, numPages, name)

\* The search ended, and not with an exception.
NotFound(name) ==
  LET records == RecordsIn(pages, Chain(Header))
  IN  FindEntry(name) = NoLink /\ Legible(records) = DOMAIN records

\* The rows a scan of the table returns, in the given contents.
RowsIn(contents, len, name) ==
  RecordsIn(contents, ChainIn(contents, len, FindIn(contents, len, name)))

------------------------------------------------------------------------------
(* Pages *)

PutPage(p, content) ==
  /\ pages' = [pages EXCEPT ![p] = content]
  /\ UNCHANGED <<durable, fileLen>>

\* The file grows to hold the last page that is written.
WritePages(P) ==
  /\ durable' = Store!WrittenBack(P)
  /\ fileLen' = IF P = {} THEN fileLen ELSE Max(P \cup {fileLen - 1}) + 1

ChangedPages == {p \in PageIds : pages[p] # durable[p]}

\* A frame is replaced.
EvictPage ==
  /\ \E p \in ChangedPages : WritePages({p})
  /\ UNCHANGED <<pages, numPages, catalog, file, thread, lastRow, acked, kept>>

\* Mutant: the newest page is not flushed.
FlushAllButNewest ==
  /\ WritePages(ChangedPages \ {numPages - 1})
  /\ kept' = acked
  /\ UNCHANGED <<pages, acked>>

FlushPages ==
  /\ WritePages(ChangedPages)
  /\ kept' = acked
  /\ UNCHANGED <<pages, acked>>

------------------------------------------------------------------------------
(* Catalog and DatabaseManager *)

\* Mutant: the name is not looked up first.
AddSchemaTwice(n) ==
  /\ thread = Idle
  /\ catalog' = Append(catalog, n)
  /\ UNCHANGED <<store, file, thread, lastRow, acked, kept>>

\* add_schema; a name that is there already raises and changes nothing.
AddSchema(n) ==
  /\ thread = Idle
  /\ \A i \in DOMAIN catalog : catalog[i] # n
  /\ catalog' = Append(catalog, n)
  /\ UNCHANGED <<store, file, thread, lastRow, acked, kept>>

\* find_name_of_schema(read_schema(n)): the oldest name with an equal schema.
NameOfSchema(n) == catalog[Min({i \in DOMAIN catalog : SchemaOf[catalog[i]] = SchemaOf[n]})]

Registered(n) == \E i \in DOMAIN catalog : catalog[i] = n

\* get_heap_file of a table that find_catalog_entry finds.
OpenFinds(n) ==
  /\ thread = Idle /\ Registered(n)
  /\ FindEntry(NameOfSchema(n)) # NoLink
  /\ file' = [file EXCEPT ![n] = FindEntry(NameOfSchema(n))]
  /\ UNCHANGED <<store, catalog, thread, lastRow, acked, kept>>

\* Mutant: get_new_page does not count the page.
OpenReusesPage(n) ==
  /\ thread = Idle /\ Registered(n)
  /\ NotFound(NameOfSchema(n))
  /\ numPages < MaxPages - 1
  /\ thread' = [step |-> "register", name |-> n, entry |-> NameOfSchema(n), first |-> numPages]
  /\ UNCHANGED <<store, catalog, file, lastRow, acked, kept>>

\* Mutant: the entry is not searched for.
OpenAnew(n) ==
  /\ thread = Idle /\ Registered(n)
  /\ numPages < MaxPages - 1
  /\ numPages' = numPages + 1
  /\ thread' = [step |-> "register", name |-> n, entry |-> NameOfSchema(n), first |-> numPages]
  /\ UNCHANGED <<pages, durable, fileLen, catalog, file, lastRow, acked, kept>>

\* get_heap_file of a table that is not found: HeapFile.__init__ goes on.
OpenAllocates(n) ==
  /\ thread = Idle /\ Registered(n)
  /\ NotFound(NameOfSchema(n))
  /\ numPages < MaxPages - 1                 \* bound: a header page may follow
  /\ numPages' = numPages + 1
  /\ thread' = [step |-> "register", name |-> n, entry |-> NameOfSchema(n), first |-> numPages]
  /\ UNCHANGED <<pages, durable, fileLen, catalog, file, lastRow, acked, kept>>

\* insert_catalog_entry on the first header page with room.
AddsEntry ==
  /\ thread.step = "register"
  /\ \E i \in DOMAIN Chain(Header) :
       /\ HasRoom(pages[Chain(Header)[i]])
       /\ \A j \in 1..(i - 1) : ~HasRoom(pages[Chain(Header)[j]])
       /\ PutPage(Chain(Header)[i],
                  WithRecord(pages[Chain(Header)[i]], [name |-> thread.entry, first |-> thread.first]))
  /\ thread' = [thread EXCEPT !.step = "flush"]
  /\ UNCHANGED <<numPages, catalog, file, lastRow, acked, kept>>

\* ... and when no header page has room: a new one, which nothing links.
AddsHeaderPage ==
  /\ thread.step = "register"
  /\ \A i \in DOMAIN Chain(Header) : ~HasRoom(pages[Chain(Header)[i]])
  /\ PutPage(numPages, WithRecord(EmptyHeader, [name |-> thread.entry, first |-> thread.first]))
  /\ numPages' = numPages + 1
  /\ thread' = [thread EXCEPT !.step = "flush"]
  /\ UNCHANGED <<catalog, file, lastRow, acked, kept>>

FlushesEntry ==
  /\ thread.step = "flush"
  /\ FlushPages
  /\ thread' = [thread EXCEPT !.step = "initialise"]
  /\ UNCHANGED <<numPages, catalog, file, lastRow>>

InitialisesFirstPage ==
  /\ thread.step = "initialise"
  /\ PutPage(thread.first, EmptyData(thread.entry))
  /\ file' = [file EXCEPT ![thread.name] = thread.first]
  /\ thread' = Idle
  /\ UNCHANGED <<numPages, catalog, lastRow, acked, kept>>

\* get_temp_heap_file: a new page of a name of its own, which no entry names.
OpenTemporary(t) ==
  /\ thread = Idle
  /\ numPages < MaxPages /\ file[t] = NoLink  \* bounds: one of each between restarts
  /\ PutPage(numPages, EmptyData(NoName))
  /\ numPages' = numPages + 1
  /\ file' = [file EXCEPT ![t] = numPages]
  /\ UNCHANGED <<catalog, thread, lastRow, acked, kept>>

------------------------------------------------------------------------------
(* HeapFileInserter, from a fresh inserter of the table *)

CallInsert(f) ==
  /\ thread = Idle
  /\ file[f] # NoLink
  /\ lastRow < MaxRows
  /\ numPages < MaxPages                     \* bound: insert may add a page
  /\ lastRow' = lastRow + 1
  /\ thread' = [step |-> "insert", name |-> f, last |-> NoLink, new |-> NoLink]
  /\ UNCHANGED <<store, catalog, file, acked, kept>>

\* The pages insert walks: up to the first with room.
InsertChain == Chain(file[thread.name])

InsertStores ==
  /\ thread.step = "insert"
  /\ \E i \in DOMAIN InsertChain :
       /\ HasRoom(pages[InsertChain[i]])
       /\ \A j \in 1..(i - 1) : ~HasRoom(pages[InsertChain[j]])
       /\ PutPage(InsertChain[i], WithRecord(pages[InsertChain[i]], [row |-> lastRow]))
  /\ acked' = IF thread.name \in Temps THEN acked
              ELSE [acked EXCEPT ![NameOfSchema(thread.name)] = @ \cup {lastRow}]
  /\ thread' = Idle
  /\ UNCHANGED <<numPages, catalog, file, lastRow, kept>>

NoRoom == \A i \in DOMAIN InsertChain : ~HasRoom(pages[InsertChain[i]])

\* The end of the file: a new page of the same name, initialised first ...
InsertGrows ==
  /\ thread.step = "insert"
  /\ NoRoom /\ InsertChain # <<>>
  /\ pages[Last(InsertChain)].next = NoLink
  /\ PutPage(numPages, EmptyData(pages[Last(InsertChain)].name))
  /\ numPages' = numPages + 1
  /\ thread' = [thread EXCEPT !.step = "link", !.last = Last(InsertChain), !.new = numPages]
  /\ UNCHANGED <<catalog, file, lastRow, acked, kept>>

\* ... and then linked; the row is stored when insert comes to the new page.
InsertLinks ==
  /\ thread.step = "link"
  /\ PutPage(thread.last, WithNext(pages[thread.last], thread.new))
  /\ thread' = [thread EXCEPT !.step = "insert"]
  /\ UNCHANGED <<numPages, catalog, file, lastRow, acked, kept>>

\* A link leads past the end of the file: get_page raises BufferAccessException.
InsertRaises ==
  /\ thread.step = "insert"
  /\ NoRoom
  /\ InsertChain # <<>> => pages[Last(InsertChain)].next >= numPages
  /\ thread' = Idle
  /\ UNCHANGED <<store, catalog, file, lastRow, acked, kept>>

------------------------------------------------------------------------------
(* Flush, close and crash *)

CallerFlushes ==
  /\ thread = Idle
  /\ FlushPages
  /\ UNCHANGED <<numPages, catalog, file, thread, lastRow>>

\* Mutant: the pages of the file are counted before they are written.
RestartCountsFirst ==
  /\ thread = Idle
  /\ FlushPages
  /\ numPages' = fileLen
  /\ catalog' = <<>> /\ file' = NoFiles
  /\ UNCHANGED <<thread, lastRow>>

\* close, then a new DatabaseManager on the same file.
Restart ==
  /\ thread = Idle
  /\ FlushPages
  /\ numPages' = fileLen'
  /\ catalog' = <<>> /\ file' = NoFiles
  /\ UNCHANGED <<thread, lastRow>>

Crash ==
  /\ Crashes
  /\ pages' = durable
  /\ numPages' = fileLen
  /\ catalog' = <<>> /\ file' = NoFiles
  /\ thread' = Idle
  /\ acked' = kept
  /\ UNCHANGED <<durable, fileLen, lastRow, kept>>

Next ==
  \/ \E n \in Names : AddSchema(n) \/ OpenFinds(n) \/ OpenAllocates(n)
  \/ \E t \in Temps : OpenTemporary(t)
  \/ \E f \in Files : CallInsert(f)
  \/ AddsEntry \/ AddsHeaderPage \/ FlushesEntry \/ InitialisesFirstPage
  \/ InsertStores \/ InsertGrows \/ InsertLinks \/ InsertRaises
  \/ EvictPage \/ CallerFlushes \/ Restart \/ Crash

Spec == Init /\ [][Next]_vars

------------------------------------------------------------------------------
(* Safety *)

\* A row whose insert returned before a completed flush_dirty is found in its
\* table for good, once: no crash, restart, eviction or reuse of a page id after
\* it loses or repeats the row, neither for readers nor on disk.
FlushedRowsSurvive ==
  \A n \in Names : \A r \in kept[n] :
    /\ Occurs(r, RowsIn(pages, numPages, n)) = 1
    /\ Occurs(r, RowsIn(durable, fileLen, n)) = 1

\* The catalog entries of different names and the temporary files in use lead to
\* disjoint chains of data pages, at every step of their creation and growth.
FirstPage(f) == IF f \in Temps THEN file[f] ELSE FindEntry(f)
TablesDisjoint ==
  \A f, g \in Files :
    f # g => Range(Chain(FirstPage(f))) \cap Range(Chain(FirstPage(g))) = {}

\* A HeapFile in use is the one find_catalog_entry finds for its name: opening
\* the table again, in this run or in the next, gives the same file.
FoundAgain ==
  \A n \in Names : file[n] # NoLink => FindEntry(NameOfSchema(n)) = file[n]

\* insert_catalog_entry: "Expects catalog entry's PageId to exist".
EntryPagesExist ==
  \A n \in Names : FindEntry(n) < numPages

\* get_heap_file: "Get a heap file by name."  Two names are two files.
NamesOwnFiles ==
  \A f, g \in Files : f # g /\ file[f] # NoLink => file[f] # file[g]

\* The first header page overflows: it is full when insert_catalog_entry comes for
\* an entry, or it ends a chain that has no room when insert comes with a row.
HeaderOverflows ==
  \/ thread.step = "register" /\ ~HasRoom(pages[Header])
  \/ /\ thread.step = "insert"
     /\ NoRoom /\ InsertChain # <<>> /\ Last(InsertChain) = Header
==============================================================================
