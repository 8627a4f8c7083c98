------------------------------- MODULE HeapFile ------------------------------
(***************************************************************************)
(* Heap files over the buffer pool: the inserters                          *)
(* (access/write/heap_file_inserter.py) and the scans                      *)
(* (access/read/data_file_iterator.py, data_page_iterator.py) of several   *)
(* tables, called in any order by one thread.  A call is a sequence of     *)
(* steps, one per get_page; between two calls any other caller may run.    *)
(***************************************************************************)
EXTENDS HeapPages, SequencesExt

CONSTANTS
  MaxFrames,   \* buffer_frames
  Tables,      \* heap files, already created
  FirstPage,   \* [Tables -> page id], first_page_id, in the order of their creation
  Scans,       \* iterator objects
  Inserters,   \* inserter objects
  TableOf,     \* [Inserters -> Tables]
  MaxRows,     \* bound on the rows ever passed to insert
  BadRows,     \* tables whose rows may hold a value that cannot be written
  Marks,       \* whether mark is called "never", on a "placed" scan, or "anywhere"
  Flushes      \* TRUE when flush_dirty may be called between two calls

ASSUME HeapAssumption ==
  /\ MaxFrames \in Nat \ {0} /\ IsFiniteSet(Scans)
  /\ Tables \subseteq Names /\ IsFiniteSet(Tables)
  /\ Cardinality(Tables) < MaxPages        \* page 0 is the header page
  /\ FirstPage \in [Tables -> 1..Cardinality(Tables)] /\ IsInjective(FirstPage)
  /\ MaxRows \in Nat
  /\ TableOf \in [Inserters -> Tables]
  /\ BadRows \subseteq Tables /\ Flushes \in BOOLEAN
  /\ Marks \in {"never", "placed", "anywhere"}

VARIABLES
  frames, disk, fileLen, numPages,   \* the pool, see BufferPool
  thread,   \* the call that is running, or Idle
  tail,     \* [Inserters -> current_page_id]
  scan,     \* the iterator objects
  lastRow   \* the number of the last row passed to insert

INSTANCE BufferPool WITH Contents <- PageContents, ZeroPage <- ZeroBytes

pool == <<frames, disk, fileLen, numPages>>
vars == <<frames, disk, fileLen, numPages, thread, tail, scan, lastRow>>

\* Calls: `page` is the page the call works on next, `new` the page that
\* insert has allocated and not linked yet.
Idle == [call |-> "none", raised |-> {}]
Raised(k) == [call |-> "none", raised |-> {TableOf[k]}]   \* its insert has just raised
Inserting(k, step, new) == [call |-> "insert", who |-> k, step |-> step, new |-> new]
Advancing(s) == [call |-> "has_next", who |-> s]
Resetting(s) == [call |-> "reset", who |-> s]
NoCall == thread.call = "none"

\* A DataFileIterator.  `on` is the page its current_data_page aliases; `live`
\* is FALSE once that frame was given to another page, `bytes` the content the
\* iterator still sees then.  The last four fields are history: how many rows
\* were returned, how many the table had when the scan was opened, whether
\* has_next said FALSE, and whether a page could not be fetched.
ScanState ==
  [open : BOOLEAN, table : Tables, cur : Links, on : Links, live : BOOLEAN,
   bytes : PageContents, iter : BOOLEAN, slot : Nat, markedPage : Links, markedSlot : Nat,
   seen : Nat, markedSeen : Nat, due : Nat, ended : BOOLEAN, failed : BOOLEAN]

ClosedScan(t) ==
  [open |-> FALSE, table |-> t, cur |-> NoLink, on |-> NoLink, live |-> FALSE,
   bytes |-> ZeroBytes, iter |-> FALSE, slot |-> 0, markedPage |-> NoLink, markedSlot |-> 0,
   seen |-> 0, markedSeen |-> 0, due |-> 0, ended |-> FALSE, failed |-> FALSE]

Threads ==
  {Idle} \cup {Raised(k) : k \in Inserters} \cup {Advancing(s) : s \in Scans} \cup {Resetting(s) : s \in Scans}
  \cup {Inserting(k, step, new) : k \in Inserters, step \in {"try", "grow", "initialise", "link"}, new \in Links}

TypeOK ==
  /\ PoolTypeOK
  /\ thread \in Threads
  /\ tail \in [Inserters -> PageIds]
  /\ scan \in [Scans -> ScanState]
  /\ lastRow \in 0..MaxRows

Init ==
  /\ PoolInit([n \in 1..(1 + Cardinality(Tables)) |->
                 IF \E t \in Tables : FirstPage[t] = n - 1
                 THEN EmptyData(CHOOSE t \in Tables : FirstPage[t] = n - 1)
                 ELSE EmptyHeader])
  /\ thread = Idle
  /\ tail = [k \in Inserters |-> FirstPage[TableOf[k]]]
  /\ \E t \in Tables : scan = [s \in Scans |-> ClosedScan(t)]
  /\ lastRow = 0

------------------------------------------------------------------------------
(* The logical contents of a heap file *)

\* What every page holds, wherever it is.
Pages == [p \in PageIds |-> Current(p)]

\* The pages reached from `first` by get_next_page, in that order, at most
\* MaxPages + 1 of them.
ChainOf(pages, first) ==
  LET longer == [c \in Seq(PageIds) |->
                   LET next == pages[Last(c)].next
                   IN  IF next = NoLink THEN c ELSE Append(c, next)]
      path[n \in 0..MaxPages] == IF n = 0 THEN <<first>> ELSE longer[path[n - 1]]
  IN  path[MaxPages]

\* The records of the pages of a chain, page after page.
RowsOn(pages) ==
  [chain \in Seq(PageIds) |-> FlattenSeq([i \in DOMAIN chain |-> pages[chain[i]].slots])]

Chain(t) == ChainOf(Pages, FirstPage[t])

Stored(t) == RowsOn(Pages)[Chain(t)]

------------------------------------------------------------------------------
(* Frames that change hands under an iterator *)

\* set_page gives the frame a new bytearray: iterators on the page that was
\* replaced keep the old one.
View(s) == IF scan[s].live THEN Current(scan[s].on) ELSE scan[s].bytes

\* The iterators after a pool step: those whose page left the pool are left
\* with the bytes it had.
Detached(sc) ==
  [s \in Scans |->
     IF sc[s].live /\ ~(\E i \in DOMAIN frames' : frames'[i].page = sc[s].on)
     THEN [sc[s] EXCEPT !.live = FALSE, !.bytes = Current(sc[s].on)]
     ELSE sc[s]]

------------------------------------------------------------------------------
(* HeapFileInserter.insert *)

CallInsert(k) ==
  /\ NoCall
  /\ lastRow < MaxRows
  /\ numPages < MaxPages                     \* bound: a page id is left
  /\ lastRow' = lastRow + 1
  /\ thread' = Inserting(k, "try", NoLink)
  /\ UNCHANGED <<pool, tail, scan>>

\* The steps below run in the call of inserter k at the given step.
InInsert(k, step) == thread.call = "insert" /\ thread.who = k /\ thread.step = step

\* insert_record returns True: the row is in its page, the call returns.
InsertStores(k) ==
  /\ InInsert(k, "try")
  /\ HasRoom(Current(tail[k]))
  /\ UpdatePage(tail[k], WithRecord(Current(tail[k]), [row |-> lastRow]))
  /\ thread' = Idle
  /\ scan' = Detached(scan)
  /\ UNCHANGED <<tail, lastRow>>

\* insert_record raises after allocate_slot: the page keeps the slot, the frame
\* keeps the pin and is not marked dirty, the exception leaves insert.
InsertBreaks(k) ==
  /\ TableOf[k] \in BadRows
  /\ InInsert(k, "try")
  /\ HasRoom(Current(tail[k]))
  /\ GetPage(tail[k], LAMBDA f : [f EXCEPT !.content = WithRecord(f.content, HalfWritten)])
  /\ thread' = Raised(k)
  /\ scan' = Detached(scan)
  /\ UNCHANGED <<tail, lastRow>>

\* Mutant: the link of a full page is not followed.
InsertStaysPut(k) ==
  /\ InInsert(k, "try")
  /\ ~HasRoom(Current(tail[k]))
  /\ InspectPage(tail[k])
  /\ thread' = IF Current(tail[k]).next # NoLink THEN thread ELSE Inserting(k, "grow", NoLink)
  /\ scan' = Detached(scan)
  /\ UNCHANGED <<tail, lastRow>>

\* insert_record returns False: follow the link, or grow the file.
InsertMovesOn(k) ==
  /\ InInsert(k, "try")
  /\ ~HasRoom(Current(tail[k]))
  /\ InspectPage(tail[k])
  /\ LET next == Current(tail[k]).next
     IN  IF next # NoLink
         THEN tail' = [tail EXCEPT ![k] = next] /\ UNCHANGED thread
         ELSE thread' = Inserting(k, "grow", NoLink) /\ UNCHANGED tail
  /\ scan' = Detached(scan)
  /\ UNCHANGED lastRow

\* Mutant: the page id is read after the counter has moved back by one.
InsertAllocatesLast(k) ==
  /\ InInsert(k, "grow")
  /\ GetNewPage
  /\ thread' = Inserting(k, "initialise", numPages - 1)
  /\ UNCHANGED <<tail, scan, lastRow>>

InsertAllocates(k) ==
  /\ InInsert(k, "grow")
  /\ GetNewPage
  /\ thread' = Inserting(k, "initialise", numPages)
  /\ UNCHANGED <<tail, scan, lastRow>>

InsertInitialises(k) ==
  /\ InInsert(k, "initialise")
  /\ UpdatePage(thread.new, EmptyData(Current(tail[k]).name))
  /\ thread' = Inserting(k, "link", thread.new)
  /\ scan' = Detached(scan)
  /\ UNCHANGED <<tail, lastRow>>

\* Mutant: the inserter moves to the new page and forgets to link it.
InsertForgetsLink(k) ==
  /\ InInsert(k, "link")
  /\ InspectPage(tail[k])
  /\ tail' = [tail EXCEPT ![k] = thread.new]
  /\ thread' = Inserting(k, "try", NoLink)
  /\ scan' = Detached(scan)
  /\ UNCHANGED lastRow

InsertLinks(k) ==
  /\ InInsert(k, "link")
  /\ UpdatePage(tail[k], WithNext(Current(tail[k]), thread.new))
  /\ tail' = [tail EXCEPT ![k] = thread.new]
  /\ thread' = Inserting(k, "try", NoLink)
  /\ scan' = Detached(scan)
  /\ UNCHANGED lastRow

\* A get_page of the running insert raises AllBufferFramesPinnedException.
InsertAborts(k) ==
  /\ \/ InInsert(k, "try") /\ PoolExhausted(tail[k])
     \/ InInsert(k, "initialise") /\ PoolExhausted(thread.new)
     \/ InInsert(k, "link") /\ PoolExhausted(tail[k])
  /\ thread' = Raised(k)
  /\ UNCHANGED <<tail, scan, lastRow>>

------------------------------------------------------------------------------
(* DataFileIterator *)

\* Mutant: slots counted from 1.
PositionedFromOne(sc, p, slot) ==
  [sc EXCEPT !.cur = p, !.on = p, !.live = TRUE, !.bytes = ZeroBytes,
             !.iter = TRUE, !.slot = slot + 1, !.ended = FALSE, !.failed = FALSE]

\* Iterator s on page p, with the page iterator at the given slot.
Positioned(sc, p, slot) ==
  [sc EXCEPT !.cur = p, !.on = p, !.live = TRUE, !.bytes = ZeroBytes,
             !.iter = TRUE, !.slot = slot, !.ended = FALSE, !.failed = FALSE]

\* mark: without a page iterator the marked slot stays what it was.
Marked(sc) == [sc EXCEPT !.markedPage = sc.cur, !.markedSeen = sc.seen,
                         !.markedSlot = IF sc.iter THEN sc.slot ELSE @]

\* __init__: fetch the first page and mark its start.  When the page cannot be
\* fetched the exception leaves __init__ and there is no iterator.
OpenScan(s, t) ==
  /\ NoCall
  /\ ~scan[s].open
  /\ HoldPage(FirstPage[t])
  /\ scan' = Detached([scan EXCEPT ![s] =
               [Marked(Positioned(ClosedScan(t), FirstPage[t], 0)) EXCEPT
                  !.open = TRUE, !.due = Len(Stored(t))]])
  /\ UNCHANGED <<thread, tail, lastRow>>

\* __next__ when the page iterator has a record.
ScanReturns(s) ==
  /\ NoCall
  /\ scan[s].open /\ scan[s].iter
  /\ scan[s].slot < Len(View(s).slots)
  /\ scan' = [scan EXCEPT ![s].slot = @ + 1, ![s].seen = @ + 1, ![s].ended = FALSE]
  /\ UNCHANGED <<pool, thread, tail, lastRow>>

\* Mutant: the page is not given back before the next one is fetched.
ScanKeepsPage(s) ==
  /\ \/ NoCall
     \/ thread = Advancing(s) /\ scan[s].on = scan[s].cur
  /\ scan[s].open /\ scan[s].iter
  /\ scan[s].slot >= Len(View(s).slots)
  /\ IF View(s).next # NoLink
     THEN /\ scan' = [scan EXCEPT ![s].cur = View(s).next]
          /\ thread' = Advancing(s)
     ELSE /\ scan' = [scan EXCEPT ![s].iter = FALSE, ![s].ended = TRUE]
          /\ thread' = Idle
  /\ UNCHANGED <<pool, tail, lastRow>>

\* has_next on an exhausted page: _advance_to_next_page gives the page back
\* and looks at its link; this step also is every later has_next recursion.
ScanLeavesPage(s) ==
  /\ \/ NoCall
     \/ thread = Advancing(s) /\ scan[s].on = scan[s].cur
  /\ scan[s].open /\ scan[s].iter
  /\ scan[s].slot >= Len(View(s).slots)
  /\ UnpinPage(scan[s].cur, FALSE)
  /\ IF View(s).next # NoLink
     THEN /\ scan' = [scan EXCEPT ![s].cur = View(s).next]
          /\ thread' = Advancing(s)
     ELSE /\ scan' = [scan EXCEPT ![s].iter = FALSE, ![s].ended = TRUE]
          /\ thread' = Idle
  /\ UNCHANGED <<tail, lastRow>>

\* get_data_page of the linked page.
ScanFetches(s) ==
  /\ thread = Advancing(s)
  /\ scan[s].on # scan[s].cur
  /\ HoldPage(scan[s].cur)
  /\ scan' = Detached([scan EXCEPT ![s] = Positioned(scan[s], scan[s].cur, 0)])
  /\ thread' = IF Current(scan[s].cur).slots = <<>> THEN thread ELSE Idle
  /\ UNCHANGED <<tail, lastRow>>

\* The same when every draw of the replacer is pinned: `except: return False`.
ScanStopsShort(s) ==
  /\ thread = Advancing(s)
  /\ scan[s].on # scan[s].cur
  /\ PoolExhausted(scan[s].cur)
  /\ scan' = [scan EXCEPT ![s].ended = TRUE, ![s].failed = TRUE]
  /\ thread' = Idle
  /\ UNCHANGED <<tail, lastRow>>

MarkScan(s) ==
  /\ NoCall /\ scan[s].open
  /\ Marks = "anywhere" \/ (Marks = "placed" /\ scan[s].iter /\ scan[s].on = scan[s].cur)
  /\ scan' = [scan EXCEPT ![s] = Marked(@)]
  /\ UNCHANGED <<pool, thread, tail, lastRow>>

\* Mutant: the page of the mark is not restored.
ResetKeepsPage(s) ==
  /\ NoCall
  /\ scan[s].open
  /\ UnpinPage(scan[s].cur, FALSE)
  /\ thread' = Resetting(s)
  /\ UNCHANGED <<tail, scan, lastRow>>

\* reset gives the current page back, a second time if the scan is exhausted,
\* then fetches the marked page.
ResetLeavesPage(s) ==
  /\ NoCall
  /\ scan[s].open
  /\ UnpinPage(scan[s].cur, FALSE)
  /\ scan' = [scan EXCEPT ![s].cur = scan[s].markedPage]
  /\ thread' = Resetting(s)
  /\ UNCHANGED <<tail, lastRow>>

ResetFetches(s) ==
  /\ thread = Resetting(s)
  /\ HoldPage(scan[s].cur)
  /\ scan' = Detached([scan EXCEPT ![s] =
               [Positioned(scan[s], scan[s].cur, scan[s].markedSlot) EXCEPT
                  !.seen = scan[s].markedSeen]])
  /\ thread' = Idle
  /\ UNCHANGED <<tail, lastRow>>

\* AllBufferFramesPinnedException leaves reset; the iterator stays in between.
ResetFails(s) ==
  /\ thread = Resetting(s)
  /\ PoolExhausted(scan[s].cur)
  /\ scan' = [scan EXCEPT ![s].failed = TRUE]
  /\ thread' = Idle
  /\ UNCHANGED <<tail, lastRow>>

\* close unpins current_page_id whether or not the scan still pins it.
CloseScan(s) ==
  /\ NoCall /\ scan[s].open
  /\ UnpinPage(scan[s].cur, FALSE)
  /\ scan' = [scan EXCEPT ![s] = ClosedScan(scan[s].table)]
  /\ UNCHANGED <<thread, tail, lastRow>>

CallerFlushes ==
  /\ Flushes
  /\ NoCall
  /\ FlushDirty
  /\ UNCHANGED <<thread, tail, scan, lastRow>>

------------------------------------------------------------------------------

InsertStep(k) ==
  \/ InsertStores(k) \/ InsertBreaks(k) \/ InsertMovesOn(k) \/ InsertAllocates(k)
  \/ InsertInitialises(k) \/ InsertLinks(k) \/ InsertAborts(k)

ScanStep(s) ==
  \/ ~NoCall /\ ScanLeavesPage(s)
  \/ ScanFetches(s) \/ ScanStopsShort(s) \/ ResetFetches(s) \/ ResetFails(s)

Next ==
  \/ \E k \in Inserters : CallInsert(k) \/ InsertStep(k)
  \/ \E s \in Scans :
       \/ \E t \in Tables : OpenScan(s, t)
       \/ ScanReturns(s) \/ ScanLeavesPage(s) \/ ScanFetches(s) \/ ScanStopsShort(s)
       \/ MarkScan(s) \/ ResetLeavesPage(s) \/ ResetFetches(s) \/ ResetFails(s)
       \/ CloseScan(s)
  \/ CallerFlushes

\* The one thread of the program runs a call it has started to its end.
Fairness ==
  /\ \A k \in Inserters : WF_vars(InsertStep(k))
  /\ \A s \in Scans : WF_vars(ScanStep(s))

Spec == Init /\ [][Next]_vars /\ Fairness
------------------------------------------------------------------------------
(* Safety *)

\* The chain of a table is acyclic, holds data pages of that table only, and
\* never runs into the chain of another table, while its last page is being
\* extended by one inserter and followed by others.
ChainsSound ==
  /\ \A t \in Tables :
       /\ IsInjective(Chain(t))
       /\ \A i \in DOMAIN Chain(t) :
            Current(Chain(t)[i]).kind = "data" /\ Current(Chain(t)[i]).name = t
  /\ \A t, u \in Tables : t # u => Range(Chain(t)) \cap Range(Chain(u)) = {}

\* The tables whose rows can all be written.
SoundTables == Tables \ BadRows

\* The next record a scan will return is the next row of the table: rows are
\* neither skipped nor repeated, although inserts extend the pages under the
\* scan and its frame may be given to another page.
ScanPosition ==
  \A s \in Scans :
    LET sc == scan[s] IN
    (sc.open /\ sc.iter /\ sc.slot < Len(View(s).slots) /\ sc.table \in SoundTables) =>
      /\ sc.seen < Len(Stored(sc.table))
      /\ View(s).slots[sc.slot + 1] = Stored(sc.table)[sc.seen + 1]

\* A scan that reaches its end returned every row the table had when it was
\* opened.
ScanComplete ==
  \A s \in Scans : scan[s].ended /\ ~scan[s].failed => scan[s].seen >= scan[s].due

\* A pin belongs to a scan on the page: with every scan closed no frame is
\* lost to the replacer, whatever call raised on the way.
PinsAreScans ==
  \A i \in DOMAIN frames :
    frames[i].pins <=
      Cardinality({s \in Scans : scan[s].open /\ scan[s].cur = frames[i].page})

------------------------------------------------------------------------------
(* What the code does not give *)

\* has_next: "Check if there is a next tuple." FALSE means there is none.
EndMeansNoMore ==
  \A s \in Scans : scan[s].ended => scan[s].seen >= scan[s].due

\* The page an open scan reads stays in its frame until the scan leaves it.
OpenScanKeepsPage ==
  \A s \in Scans :
    scan[s].open /\ scan[s].iter /\ scan[s].on = scan[s].cur => scan[s].live

\* reset: "Return to previously marked position.", also when the position was
\* marked after the last row.
ResetReturnsToMark == ScanPosition

\* A call that was started returns or raises: no insert walks for ever, no
\* has_next recurses for ever.
CallsEnd == ~NoCall ~> NoCall

------------------------------------------------------------------------------
(* The promise to the callers *)

Table == INSTANCE RowTable WITH
  Tables <- SoundTables,
  Rows <- Row,
  rows <- [t \in SoundTables |-> Stored(t)],
  call <- IF thread.call = "insert" /\ TableOf[thread.who] \in SoundTables
          THEN [state |-> "running", table |-> TableOf[thread.who], row |-> [row |-> lastRow]]
          ELSE [state |-> IF thread.call = "none" /\ thread.raised \cap SoundTables # {}
                          THEN "raised" ELSE "settled"]

\* An insert that returns has appended its row to its table, one that raises
\* has changed no table, and no scan, eviction or flush changes one.  Rows that
\* break off half-written in another table, and the pins they leave behind, make
\* no difference to the tables without such rows.
ImplementsRowTable == Table!TableSpec
==============================================================================
