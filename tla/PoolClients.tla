----------------------------- MODULE PoolClients -----------------------------
(***************************************************************************)
(* The buffer pool under every order of calls the layers above it make:    *)
(* readers that keep pages across calls (the scans), writers that get,     *)
(* change and unpin a page in one go (inserters, heap file and catalog) or *)
(* raise in the middle of the change, flushes, page allocation, a crash at *)
(* any point and an orderly reopen.  `held` counts the get_page results    *)
(* that callers still use; `raised` and `unmarked` record what the writers *)
(* that raised have left behind.                                           *)
(***************************************************************************)
EXTENDS BufferPool, FiniteSets

CONSTANTS
  MaxHeld,      \* bound on the readers of one page
  SpareUnpins,  \* TRUE when callers may unpin a page they already gave back
  RaisingPages, \* the pages on which writers may raise
  MaxRaised,    \* bound on the writers of one page that raise
  MaxBusy       \* bound on the pages in use, see Busy

ASSUME ClientAssumption ==
  /\ MaxHeld \in Nat \ {0}
  /\ SpareUnpins \in BOOLEAN
  /\ RaisingPages \subseteq PageIds
  /\ MaxRaised \in Nat /\ MaxBusy \in Nat

VARIABLES
  held,      \* [PageIds -> number of callers that use the page]
  raised,    \* [PageIds -> number of writers that raised and kept their pin]
  unmarked,  \* the pages whose frame a raised writer changed and nobody marked
  outcome    \* how the last call ended, as far as a property depends on it

vars == <<frames, disk, fileLen, numPages, held, raised, unmarked, outcome>>

Outcomes == {"ended", "all pinned", "flushed", "restarted"}

TypeOK ==
  /\ PoolTypeOK
  /\ held \in [PageIds -> 0..MaxHeld]
  /\ raised \in [PageIds -> 0..MaxRaised]
  /\ unmarked \subseteq PageIds
  /\ outcome \in Outcomes

Nobody == [p \in PageIds |-> 0]

Init ==
  /\ PoolInit(<<ZeroPage>>)
  /\ held = Nobody /\ raised = Nobody /\ unmarked = {}
  /\ outcome = "ended"

------------------------------------------------------------------------------

\* Those of the pages of S whose frame is still in the pool and not dirty.
StillUnmarked(S) ==
  {p \in S : \E i \in DOMAIN frames' : frames'[i].page = p /\ ~frames'[i].dirty}

NobodyRaises == UNCHANGED raised /\ unmarked' = StillUnmarked(unmarked)

\* The number of pages that readers use, and of those that a raised writer pinned.
Busy == Cardinality({p \in PageIds : held[p] > 0}) + Cardinality({p \in PageIds : raised[p] > 0})

\* A scan gets a page and keeps it.
ReaderGets(p) ==
  /\ held[p] < MaxHeld
  /\ held[p] > 0 \/ Busy < MaxBusy
  /\ HoldPage(p)
  /\ held' = [held EXCEPT ![p] = @ + 1]
  /\ outcome' = "ended"
  /\ NobodyRaises

\* A second reader of the page takes its own pin (pin).
ReaderPins(p) ==
  /\ held[p] \in 1..(MaxHeld - 1)
  /\ PinPage(p)
  /\ held' = [held EXCEPT ![p] = @ + 1]
  /\ outcome' = "ended"
  /\ NobodyRaises

ReaderUnpins(p, isDirty) ==
  /\ held[p] > 0
  /\ UnpinPage(p, isDirty)
  /\ held' = [held EXCEPT ![p] = @ - 1]
  /\ outcome' = "ended"
  /\ NobodyRaises

\* DataFileIterator.close or reset after the scan has given its page back.
SpareUnpin(p) ==
  /\ SpareUnpins
  /\ UnpinPage(p, FALSE)
  /\ outcome' = "ended"
  /\ UNCHANGED held
  /\ NobodyRaises

WriterUpdates(p) ==
  /\ \E c \in Contents : UpdatePage(p, c)
  /\ outcome' = "ended"
  /\ UNCHANGED held
  /\ NobodyRaises

\* insert_record has allocated the slot and written some of the fields when a
\* value breaks off: set_dirty and unpin are never reached.
WriterRaises(p) ==
  /\ p \in RaisingPages /\ raised[p] < MaxRaised
  /\ raised[p] > 0 \/ Busy < MaxBusy
  /\ \E c \in Contents : BreakPage(p, c)
  /\ raised' = [raised EXCEPT ![p] = @ + 1]
  /\ unmarked' = StillUnmarked(unmarked \cup {p})
  /\ outcome' = "ended"
  /\ UNCHANGED held

CallerMarksDirty(p) ==
  /\ held[p] > 0
  /\ MarkDirty(p)
  /\ outcome' = "ended"
  /\ UNCHANGED held
  /\ NobodyRaises

GetFails(p) ==
  /\ \/ PoolExhausted(p) /\ outcome' = "all pinned"
     \/ PageMissing(p) /\ outcome' = "ended"
  /\ UNCHANGED held
  /\ NobodyRaises

CallerAllocates ==
  /\ GetNewPage
  /\ outcome' = "ended"
  /\ UNCHANGED held
  /\ NobodyRaises

CallerFlushes ==
  /\ FlushDirty
  /\ outcome' = "flushed"
  /\ UNCHANGED held
  /\ NobodyRaises

CrashesAndRestarts ==
  /\ \E k \in 0..Len(frames) : CrashAfter(k)
  /\ held' = Nobody /\ raised' = Nobody
  /\ unmarked' = StillUnmarked(unmarked)
  /\ outcome' = "restarted"

Next ==
  \/ \E p \in PageIds :
       \/ ReaderGets(p) \/ ReaderPins(p)
       \/ ReaderUnpins(p, TRUE) \/ ReaderUnpins(p, FALSE) \/ SpareUnpin(p)
       \/ WriterUpdates(p) \/ WriterRaises(p) \/ CallerMarksDirty(p)
       \/ GetFails(p)
  \/ CallerAllocates
  \/ CallerFlushes
  \/ CrashesAndRestarts

Spec == Init /\ [][Next]_vars

------------------------------------------------------------------------------
(* Safety *)

\* A page is in at most one frame, so two readers of a page share its bytes.
PageInOneFrame ==
  \A i, j \in DOMAIN frames :
    frames[i].page = frames[j].page /\ frames[i].page # NoPage => i = j

\* A clean frame equals the disk, whatever replaces it loses nothing, except
\* what a writer that raised has left in it: every writer that does not raise
\* marks its change before anything can flush or replace the frame, and a mark
\* set later covers the half-made change too.
CleanMeansOnDisk ==
  \A i \in DOMAIN frames :
    frames[i].page \in PageIds \ unmarked /\ ~frames[i].dirty =>
      frames[i].content = disk[frames[i].page]

\* Dirty frames can always be written back: their page exists.
DirtyPagesExist ==
  \A i \in DOMAIN frames :
    /\ frames[i].dirty => frames[i].page # NoPage
    /\ frames[i].page # NoPage => frames[i].page < numPages

\* No pin outlives the callers that use the page, but for one pin of each
\* writer that raised there: nothing else takes frames from the replacer.
PinsAreReturned ==
  \A i \in DOMAIN frames :
    frames[i].pins <= (IF frames[i].page = NoPage THEN 0
                       ELSE held[frames[i].page] + raised[frames[i].page])

\* flush_dirty leaves no change in memory only, except the half-made change of
\* a writer that raised on a clean frame: flush_dirty skips that frame.
FlushReachesDisk ==
  outcome = "flushed" => \A p \in PageIds \ unmarked : Current(p) = disk[p]

\* After a restart every page that was ever written to the file is readable,
\* and numPages counts exactly the pages of the file.
RestartSeesFile ==
  /\ outcome = "restarted" => numPages = fileLen
  /\ \A p \in PageIds : disk[p] # ZeroPage => p < fileLen
  /\ fileLen <= numPages

------------------------------------------------------------------------------
(* Action properties *)

\* The replacer never takes a frame somebody has pinned.
PinnedFrameStays ==
  [][\A i \in DOMAIN frames :
       frames[i].pins > 0 /\ outcome' # "restarted" =>
         frames'[i].page = frames[i].page]_vars

\* A page that a caller still uses is not evicted under it.
PageInUseStays ==
  [][\A i \in DOMAIN frames :
       (frames[i].page \in PageIds /\ held[frames[i].page] > 0 /\ outcome' # "restarted") =>
         frames'[i].page = frames[i].page]_vars

\* AllBufferFramesPinnedException is raised when every frame is pinned.
ExhaustedMeansAllPinned ==
  outcome = "all pinned" => \A i \in DOMAIN frames : frames[i].pins > 0

------------------------------------------------------------------------------
(* The promise to the layers above *)

Store == INSTANCE PageStore WITH
  pages   <- [p \in PageIds |-> Current(p)],
  durable <- disk,
  loose   <- unmarked

\* Through hits, misses, evictions and flushes, a reader sees the last content
\* written to a page, and a crash falls back to some earlier write-back of it;
\* only a change that raised and that nobody marked may go back by itself.
ImplementsPageStore == Store!StoreSpec
==============================================================================
