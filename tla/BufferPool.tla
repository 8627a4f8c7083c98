----------------------------- MODULE BufferPool ------------------------------
(***************************************************************************)
(* The buffer manager (buffer/buffer_manager.py, buffer_frame.py) with the *)
(* random replacer and the disk manager below it.  This module holds the   *)
(* state of the pool and the file and one operator per method; the modules *)
(* that use the pool say who calls them and when.                          *)
(***************************************************************************)
EXTENDS Integers, Sequences

CONSTANTS
  MaxFrames,  \* buffer_frames, the size of the pool
  MaxPages,   \* bound on the page ids get_new_page hands out
  Contents,   \* what a page may hold
  ZeroPage    \* a page of zero bytes: new pages and pages past the end of file

ASSUME PoolAssumption ==
  /\ MaxFrames \in Nat \ {0}
  /\ MaxPages \in Nat \ {0}
  /\ ZeroPage \in Contents

VARIABLES
  frames,    \* BufferManager.frames, in list order
  disk,      \* the content of every page of the database file
  fileLen,   \* length of the file in pages
  numPages   \* DiskManager.num_pages

PageIds == 0..(MaxPages - 1)
NoPage == -1                       \* DatabaseConstants.INVALID_PAGE_ID

Frame == [page : PageIds \cup {NoPage}, content : Contents, dirty : BOOLEAN, pins : Nat]
EmptyFrame == [page |-> NoPage, content |-> ZeroPage, dirty |-> FALSE, pins |-> 0]

PoolTypeOK ==
  /\ frames \in Seq(Frame) /\ Len(frames) <= MaxFrames
  /\ disk \in [PageIds -> Contents]
  /\ fileLen \in 0..MaxPages
  /\ numPages \in 0..MaxPages

\* An empty pool over a file that holds the given pages.
PoolInit(pages) ==
  /\ frames = <<>>
  /\ disk = [p \in PageIds |-> IF p < Len(pages) THEN pages[p + 1] ELSE ZeroPage]
  /\ fileLen = Len(pages)
  /\ numPages = Len(pages)

------------------------------------------------------------------------------
(* Frames and the disk *)

\* Mutant: only pinned frames are searched.
CachedAndPinned(p) == \E i \in DOMAIN frames : frames[i].page = p /\ frames[i].pins > 0

Cached(p) == \E i \in DOMAIN frames : frames[i].page = p

\* _find_frame_by_page_id: the first frame that contains the page.
Found(p, i) ==
  /\ i \in DOMAIN frames
  /\ frames[i].page = p
  /\ \A j \in 1..(i - 1) : frames[j].page # p

PinnedFrame(f) == [f EXCEPT !.pins = f.pins + 1]

\* Mutant: the pin count is not checked.
UnpinnedBelowZero(f) == [f EXCEPT !.pins = f.pins - 1]

UnpinnedFrame(f) == [f EXCEPT !.pins = IF f.pins > 0 THEN f.pins - 1 ELSE 0]

\* Mutant: the frame of a changed page stays clean.
WrittenClean(f, c) == [f EXCEPT !.content = c]

\* A caller changes the page in place and marks the frame dirty.
WrittenFrame(f, c) == [f EXCEPT !.content = c, !.dirty = TRUE]

DirtiedFrame(f, isDirty) == [f EXCEPT !.dirty = f.dirty \/ isDirty]

\* flush_page writes the frame, takes one pin off it and marks it clean.
FlushedFrame(f) == [UnpinnedFrame(f) EXCEPT !.dirty = FALSE]

\* The pages that writing the dirty frames among fs reaches.
DirtyPages(fs) == {fs[i].page : i \in {k \in DOMAIN fs : fs[k].dirty}}

\* write_page for each dirty frame of fs; seeking past the end extends the file.
WriteFrames(fs) ==
  /\ disk' = [p \in PageIds |->
                IF p \in DirtyPages(fs)
                THEN LET i == CHOOSE k \in DOMAIN fs : fs[k].page = p /\ fs[k].dirty
                     IN  fs[i].content
                ELSE disk[p]]
  /\ fileLen' \in {n \in fileLen..MaxPages :
                    /\ \A p \in DirtyPages(fs) : p < n
                    /\ n = fileLen \/ n - 1 \in DirtyPages(fs)}

\* Mutant: the replacer takes any frame.
VictimOfAnyPins(i) ==
  IF Len(frames) < MaxFrames THEN i = Len(frames) + 1 ELSE i \in DOMAIN frames

\* _get_buffer_frame: a new frame while the pool grows, then any unpinned
\* frame the random replacer happens to pick.
Victim(i) ==
  IF Len(frames) < MaxFrames THEN i = Len(frames) + 1
  ELSE i \in DOMAIN frames /\ frames[i].pins = 0

\* The list with frame i replaced, or appended when it is the new one.
PutFrame(i, f) ==
  IF i = Len(frames) + 1 THEN Append(frames, f) ELSE [frames EXCEPT ![i] = f]

\* Mutant: a dirty frame is replaced without being written.
DropVictim(i) == UNCHANGED <<disk, fileLen>>

\* Flushing the frame that is about to be replaced, if it is dirty.
FlushVictim(i) ==
  IF i \in DOMAIN frames THEN WriteFrames(<<frames[i]>>)
  ELSE UNCHANGED <<disk, fileLen>>

------------------------------------------------------------------------------
(* get_page, as the pairs of outcomes its callers tell apart *)

\* get_page(p) that returns: the page is left in a frame with one more pin,
\* and `use` says what the caller does to that frame before its next call.
GetPage(p, use(_)) ==
  \/ \E i \in DOMAIN frames :                                  \* cache hit
       /\ Found(p, i)
       /\ frames' = [frames EXCEPT ![i] = use(PinnedFrame(frames[i]))]
       /\ UNCHANGED <<disk, fileLen, numPages>>
  \/ \E i \in 1..MaxFrames :                                   \* cache miss
       /\ ~Cached(p) /\ p < numPages
       /\ Victim(i)
       /\ FlushVictim(i)
       /\ frames' = PutFrame(i, use([page |-> p, content |-> disk[p], dirty |-> FALSE, pins |-> 1]))
       /\ UNCHANGED numPages

\* AllBufferFramesPinnedException: the replacer drew a pinned frame more than
\* 5 * len(pool) times in a row.
PoolExhausted(p) ==
  /\ ~Cached(p)
  /\ Len(frames) = MaxFrames
  /\ \E i \in DOMAIN frames : frames[i].pins > 0
  /\ UNCHANGED <<frames, disk, fileLen, numPages>>

\* Mutant: the frame takes the page id before the page is read.
PageMissingNamed(p) ==
  /\ ~Cached(p) /\ p >= numPages
  /\ \E i \in 1..MaxFrames :
       /\ Victim(i)
       /\ FlushVictim(i)
       /\ frames' = PutFrame(i, [EmptyFrame EXCEPT !.page = p])
  /\ UNCHANGED numPages

\* BufferAccessException: read_page rejects the page id after the victim was
\* flushed; an appended frame stays in the pool, empty.
PageMissing(p) ==
  /\ ~Cached(p) /\ p >= numPages
  /\ \E i \in 1..MaxFrames :
       /\ Victim(i)
       /\ FlushVictim(i)
       /\ frames' = PutFrame(i, IF i \in DOMAIN frames THEN [frames[i] EXCEPT !.dirty = FALSE]
                                ELSE EmptyFrame)
  /\ UNCHANGED numPages

\* Mutant: the writer does not unpin.
UpdateKeepsPin(p, c) == GetPage(p, LAMBDA f : WrittenFrame(f, c))

\* get_page, change the page in place, unpin(p, TRUE): how every writer of the
\* program brackets a change that does not raise.
UpdatePage(p, c) ==
  GetPage(p, LAMBDA f : UnpinnedFrame(WrittenFrame(f, c)))

\* get_page, then an insert_record that raises with the page half changed: the
\* writer neither marks the frame nor gives its pin back.
BreakPage(p, c) == GetPage(p, LAMBDA f : [f EXCEPT !.content = c])

\* get_page, look, unpin(p, FALSE).
InspectPage(p) == GetPage(p, UnpinnedFrame)

\* get_page by a caller that keeps the page.
HoldPage(p) == GetPage(p, LAMBDA f : f)

------------------------------------------------------------------------------
(* The other methods *)

\* Applies a frame method to the frame that contains p, if there is one.
OnFrame(p, method(_)) ==
  /\ frames' = [i \in DOMAIN frames |-> IF Found(p, i) THEN method(frames[i]) ELSE frames[i]]
  /\ UNCHANGED <<disk, fileLen, numPages>>

UnpinPage(p, isDirty) ==
  OnFrame(p, LAMBDA f : UnpinnedFrame(DirtiedFrame(f, isDirty)))

PinPage(p) == OnFrame(p, PinnedFrame)

MarkDirty(p) == OnFrame(p, LAMBDA f : DirtiedFrame(f, TRUE))

\* Mutant: the last frame of the pool is never flushed.
FlushAllButLast ==
  /\ frames # <<>> /\ WriteFrames(SubSeq(frames, 1, Len(frames) - 1))
  /\ frames' = [i \in DOMAIN frames |->
                  IF frames[i].dirty THEN FlushedFrame(frames[i]) ELSE frames[i]]
  /\ UNCHANGED numPages

FlushDirty ==
  /\ WriteFrames(frames)
  /\ frames' = [i \in DOMAIN frames |->
                  IF frames[i].dirty THEN FlushedFrame(frames[i]) ELSE frames[i]]
  /\ UNCHANGED numPages

\* get_new_page: only the counter in memory moves.
GetNewPage ==
  /\ numPages < MaxPages
  /\ numPages' = numPages + 1
  /\ UNCHANGED <<frames, disk, fileLen>>

\* Mutant: the page count is carried over a restart.
CrashKeepsCount(k) ==
  /\ WriteFrames(SubSeq(frames, 1, k))
  /\ frames' = <<>>
  /\ UNCHANGED numPages

\* The process dies while k frames of a running flush_dirty have been written
\* (k = 0: at any other time) and the file is opened again.
CrashAfter(k) ==
  /\ WriteFrames(SubSeq(frames, 1, k))
  /\ frames' = <<>>
  /\ numPages' = fileLen'

\* The content a reader of page p sees, wherever it is.
Current(p) ==
  IF Cached(p) THEN frames[CHOOSE i \in DOMAIN frames : Found(p, i)].content ELSE disk[p]
==============================================================================
