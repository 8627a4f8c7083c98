------------------------------ MODULE PageStore ------------------------------
(***************************************************************************)
(* What the buffer pool and the disk file promise to the layers above      *)
(* them, with no frames, pins or replacement: a page has one current       *)
(* content and one content that survives a crash, and the latter is only   *)
(* ever brought up to date with the former.  There is no log: a crash      *)
(* simply falls back to whatever each page last had written.  A page whose *)
(* last writer raised is loose until somebody marks it: it is not written  *)
(* back, and may lose its content at any time.                             *)
(***************************************************************************)
CONSTANTS PageIds, Contents

VARIABLES
  pages,    \* the content a reader of the page sees
  durable,  \* the content the page has after a crash
  loose     \* the pages whose content nobody has marked as changed

storeVars == <<pages, durable, loose>>

\* The disk when the pages in P are written back, the others left alone.
WrittenBack(P) == [p \in PageIds |-> IF p \in P THEN pages[p] ELSE durable[p]]

\* Any pages but the loose ones may be written back.
SomeWrittenBack == \E P \in SUBSET (PageIds \ loose) : durable' = WrittenBack(P)

\* The contents when the pages in L fall back to the disk.
FallenBack(L) == [p \in PageIds |-> IF p \in L THEN durable[p] ELSE pages[p]]

StoreInit ==
  /\ pages \in [PageIds -> Contents]
  /\ durable = pages
  /\ loose = {}

\* One page changes; to make room for it, other pages may be written back, and
\* loose ones fall back.
Write ==
  /\ SomeWrittenBack
  /\ \E p \in PageIds, c \in Contents, L \in SUBSET loose :
       /\ loose' = loose \ (L \cup {p})
       /\ pages' = [FallenBack(L) EXCEPT ![p] = c]

\* One page is left half changed, and its frame unmarked.
HalfWrite ==
  /\ SomeWrittenBack
  /\ \E p \in PageIds, c \in Contents, L \in SUBSET loose :
       /\ loose' = (loose \ L) \cup {p}
       /\ pages' = [FallenBack(L) EXCEPT ![p] = c]

\* Write-back alone is invisible to readers of the pages that are not loose.
WriteBack ==
  /\ SomeWrittenBack
  /\ \E L \in SUBSET loose :
       /\ loose' = loose \ L
       /\ pages' = FallenBack(L)

\* A loose page is marked as changed after all.
Mark ==
  \E p \in loose :
    /\ loose' = loose \ {p}
    /\ UNCHANGED <<pages, durable>>

\* Some pages may reach the disk before the process dies, in any combination.
Crash ==
  /\ SomeWrittenBack
  /\ pages' = durable'
  /\ loose' = {}

StoreNext == WriteBack \/ Mark \/ Write \/ HalfWrite \/ Crash

StoreSpec == StoreInit /\ [][StoreNext]_storeVars
==============================================================================
