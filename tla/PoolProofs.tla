----------------------------- MODULE PoolProofs ------------------------------
(***************************************************************************)
(* Deductive proofs about PoolClients, for every pool size, number of      *)
(* pages, set of contents and number of readers: the invariant of the      *)
(* frames, and what the layers above rely on, the content a page has, what *)
(* a flush and a restart leave on the disk, and that the pool implements   *)
(* PageStore.                                                              *)
(***************************************************************************)
EXTENDS PoolClients, SeqLemmas

\* What holds of a frame, given the disk, the page count, the users of every
\* page and the pages that may be left unmarked.
FrameOK(f, d, n, h, u) ==
  /\ f \in Frame
  /\ f.page # NoPage /\ f.page \notin u /\ ~f.dirty => f.content = d[f.page]
  /\ f.dirty => f.page # NoPage
  /\ f.page # NoPage => f.page < n
  /\ f.pins <= (IF f.page = NoPage THEN 0 ELSE h[f.page])

DistinctPages(fs) ==
  \A i, j \in DOMAIN fs : fs[i].page = fs[j].page /\ fs[i].page # NoPage => i = j

FramesOK(fs, d, n, h, u) ==
  /\ \A i \in DOMAIN fs : FrameOK(fs[i], d, n, h, u)
  /\ DistinctPages(fs)

\* Those who may have a pin on a page: its readers and the writers that raised.
Users == [p \in PageIds |-> held[p] + raised[p]]

\* A page is unmarked only while its frame is in the pool and not dirty.
UnmarkedCached ==
  \A p \in unmarked : \E i \in DOMAIN frames : frames[i].page = p /\ ~frames[i].dirty

\* The inductive invariant: the named invariants of PoolClients together, and
\* where the unmarked pages are.
PoolInv ==
  /\ TypeOK
  /\ FramesOK(frames, disk, numPages, Users, unmarked)
  /\ UnmarkedCached

\* It is the conjunction of what the runs check.
LEMMA PoolInvIs ==
  ASSUME PoolInv
  PROVE  PageInOneFrame /\ CleanMeansOnDisk /\ DirtyPagesExist /\ PinsAreReturned
<1>1. /\ \A i \in DOMAIN frames : FrameOK(frames[i], disk, numPages, Users, unmarked)
      /\ DistinctPages(frames)
  BY DEF PoolInv, FramesOK
<1>2. ASSUME NEW i \in DOMAIN frames
      PROVE  frames[i].page # NoPage =>
               /\ frames[i].page \in PageIds
               /\ Users[frames[i].page] = held[frames[i].page] + raised[frames[i].page]
  BY <1>1, <1>2 DEF FrameOK, Frame, Users
<1>3. PinsAreReturned
  BY <1>1, <1>2 DEF FrameOK, PinsAreReturned
<1>4. CleanMeansOnDisk
  BY <1>1, PoolAssumption DEF FrameOK, CleanMeansOnDisk, PageIds, NoPage
<1>5. QED
  BY <1>1, <1>3, <1>4 DEF FrameOK, DistinctPages, PageInOneFrame, DirtyPagesExist

------------------------------------------------------------------------------
(* The methods of a frame *)

LEMMA PinnedFields ==
  ASSUME NEW f \in Frame
  PROVE  /\ PinnedFrame(f) \in Frame
         /\ PinnedFrame(f).page = f.page /\ PinnedFrame(f).content = f.content
         /\ PinnedFrame(f).dirty = f.dirty /\ PinnedFrame(f).pins = f.pins + 1
BY DEF PinnedFrame, Frame

LEMMA UnpinnedFields ==
  ASSUME NEW f \in Frame
  PROVE  /\ UnpinnedFrame(f) \in Frame
         /\ UnpinnedFrame(f).page = f.page /\ UnpinnedFrame(f).content = f.content
         /\ UnpinnedFrame(f).dirty = f.dirty
         /\ UnpinnedFrame(f).pins = (IF f.pins > 0 THEN f.pins - 1 ELSE 0)
BY DEF UnpinnedFrame, Frame

LEMMA WrittenFields ==
  ASSUME NEW f \in Frame, NEW c \in Contents
  PROVE  /\ WrittenFrame(f, c) \in Frame
         /\ WrittenFrame(f, c).page = f.page /\ WrittenFrame(f, c).content = c
         /\ WrittenFrame(f, c).dirty = TRUE /\ WrittenFrame(f, c).pins = f.pins
BY DEF WrittenFrame, Frame

LEMMA DirtiedFields ==
  ASSUME NEW f \in Frame, NEW b \in BOOLEAN
  PROVE  /\ DirtiedFrame(f, b) \in Frame
         /\ DirtiedFrame(f, b).page = f.page /\ DirtiedFrame(f, b).content = f.content
         /\ DirtiedFrame(f, b).dirty = (f.dirty \/ b) /\ DirtiedFrame(f, b).pins = f.pins
<1>1. f.dirty \in BOOLEAN
  BY DEF Frame
<1>2. (f.dirty \/ b) \in BOOLEAN
  BY Zenon, <1>1
<1> DEFINE e == (f.dirty \/ b)
<1>3. e \in BOOLEAN
  BY <1>2
<1> HIDE DEF e
<1>4. /\ [f EXCEPT !.dirty = e] \in Frame
      /\ [f EXCEPT !.dirty = e].page = f.page /\ [f EXCEPT !.dirty = e].content = f.content
      /\ [f EXCEPT !.dirty = e].dirty = e /\ [f EXCEPT !.dirty = e].pins = f.pins
  BY <1>3 DEF Frame
<1>5. DirtiedFrame(f, b) = [f EXCEPT !.dirty = e]
  BY DEF DirtiedFrame, e
<1>6. QED
  BY <1>4, <1>5 DEF e

LEMMA FlushedFields ==
  ASSUME NEW f \in Frame
  PROVE  /\ FlushedFrame(f) \in Frame
         /\ FlushedFrame(f).page = f.page /\ FlushedFrame(f).content = f.content
         /\ FlushedFrame(f).dirty = FALSE
         /\ FlushedFrame(f).pins = (IF f.pins > 0 THEN f.pins - 1 ELSE 0)
<1> DEFINE u == UnpinnedFrame(f)
<1>1. /\ u \in Frame /\ u.page = f.page /\ u.content = f.content
      /\ u.pins = (IF f.pins > 0 THEN f.pins - 1 ELSE 0)
  BY UnpinnedFields
<1> HIDE DEF u
<1>2. FlushedFrame(f) = [u EXCEPT !.dirty = FALSE]
  BY DEF FlushedFrame, u
<1>3. QED
  BY <1>1, <1>2 DEF Frame

------------------------------------------------------------------------------
(* Lists of frames *)

\* One frame of the list is replaced, or one is added.
LEMMA OneFrameChanges ==
  ASSUME NEW fs, NEW gs, NEW i, NEW g, NEW d, NEW n, NEW h, NEW u,
         NEW d2, NEW n2, NEW h2, NEW u2,
         FramesOK(fs, d, n, h, u),
         \A j \in DOMAIN gs : gs[j] = IF j = i THEN g ELSE fs[j],
         \A j \in DOMAIN gs : j # i => j \in DOMAIN fs,
         FrameOK(g, d2, n2, h2, u2),
         \A j \in DOMAIN fs : j # i => FrameOK(fs[j], d2, n2, h2, u2),
         g.page # NoPage => \A j \in DOMAIN fs : j # i => fs[j].page # g.page
  PROVE  FramesOK(gs, d2, n2, h2, u2)
<1>1. \A j \in DOMAIN gs : FrameOK(gs[j], d2, n2, h2, u2)
  OBVIOUS
<1>2. DistinctPages(gs)
  BY DEF DistinctPages, FramesOK
<1>3. QED
  BY <1>1, <1>2 DEF FramesOK

\* PutFrame on a frame the replacer may give.
LEMMA PutFrameEffect ==
  ASSUME TypeOK, NEW i, Victim(i), NEW g \in Frame, frames' = PutFrame(i, g)
  PROVE  /\ frames' \in Seq(Frame) /\ Len(frames') <= MaxFrames
         /\ DOMAIN frames \subseteq DOMAIN frames'
         /\ \A j \in DOMAIN frames' : frames'[j] = IF j = i THEN g ELSE frames[j]
         /\ \A j \in DOMAIN frames' : j # i => j \in DOMAIN frames
<1>1. /\ frames \in Seq(Frame) /\ Len(frames) \in Nat /\ DOMAIN frames = 1..Len(frames)
      /\ Len(frames) <= MaxFrames /\ MaxFrames \in Nat
  BY SeqElements, PoolAssumption DEF TypeOK, PoolTypeOK
<1>2. CASE i = Len(frames) + 1
  <2>1. frames' = Append(frames, g) /\ Len(frames) < MaxFrames
    BY <1>1, <1>2 DEF PutFrame, Victim
  <2>2. QED
    BY <1>1, <1>2, <2>1, SeqAppend
<1>3. CASE i # Len(frames) + 1
  <2>1. frames' = [frames EXCEPT ![i] = g] /\ i \in 1..Len(frames)
    BY <1>1, <1>3 DEF PutFrame, Victim
  <2>2. QED
    BY <1>1, <2>1, SeqExcept
<1>4. QED
  BY <1>2, <1>3

\* The pages a list of frames writes, and what is then on the disk.
LEMMA WriteFramesEffect ==
  ASSUME NEW fs \in Seq(Frame), disk \in [PageIds -> Contents], fileLen \in 0..MaxPages,
         \A i \in DOMAIN fs : fs[i].dirty => fs[i].page # NoPage,
         DistinctPages(fs), WriteFrames(fs)
  PROVE  /\ disk' \in [PageIds -> Contents] /\ fileLen' \in 0..MaxPages
         /\ \A i \in DOMAIN fs : fs[i].dirty => disk'[fs[i].page] = fs[i].content
         /\ \A p \in PageIds :
              (\A i \in DOMAIN fs : fs[i].dirty => fs[i].page # p) => disk'[p] = disk[p]
<1> DEFINE Chosen(p) == CHOOSE k \in DOMAIN fs : fs[k].page = p /\ fs[k].dirty
<1>1. \A i \in DOMAIN fs : fs[i] \in Frame
  BY SeqElements
<1>2. \A p \in DirtyPages(fs) : /\ Chosen(p) \in DOMAIN fs
                                /\ fs[Chosen(p)].page = p /\ fs[Chosen(p)].dirty
  BY DEF DirtyPages
<1>3. disk' = [p \in PageIds |-> IF p \in DirtyPages(fs) THEN fs[Chosen(p)].content ELSE disk[p]]
  BY DEF WriteFrames
<1> HIDE DEF Chosen
<1>4. disk' \in [PageIds -> Contents]
  <2>1. \A p \in PageIds : disk'[p] \in Contents
    BY <1>1, <1>2, <1>3 DEF Frame
  <2>2. QED
    BY <1>3, <2>1
<1>5. fileLen' \in 0..MaxPages
  BY DEF WriteFrames
<1>6. ASSUME NEW i \in DOMAIN fs, fs[i].dirty
      PROVE  disk'[fs[i].page] = fs[i].content
  <2>1. fs[i].page \in DirtyPages(fs)
    BY <1>6 DEF DirtyPages
  <2>2. fs[i].page \in PageIds
    BY <1>1, <1>6 DEF Frame
  <2>3. Chosen(fs[i].page) = i
    BY <1>2, <1>6, <2>1 DEF DistinctPages
  <2>4. QED
    BY <1>3, <2>1, <2>2, <2>3
<1>7. ASSUME NEW p \in PageIds, \A i \in DOMAIN fs : fs[i].dirty => fs[i].page # p
      PROVE  disk'[p] = disk[p]
  <2>1. p \notin DirtyPages(fs)
    BY <1>7 DEF DirtyPages
  <2>2. QED
    BY <1>3, <2>1
<1>8. QED
  BY <1>4, <1>5, <1>6, <1>7

------------------------------------------------------------------------------
(* Steps of the pool *)

\* The types the proofs below use most.
LEMMA Typing ==
  ASSUME PoolInv
  PROVE  /\ frames \in Seq(Frame) /\ Len(frames) <= MaxFrames
         /\ DOMAIN frames = 1..Len(frames) /\ Len(frames) \in Nat
         /\ \A j \in DOMAIN frames : /\ frames[j] \in Frame
                                     /\ FrameOK(frames[j], disk, numPages, Users, unmarked)
         /\ disk \in [PageIds -> Contents]
         /\ fileLen \in 0..MaxPages /\ numPages \in 0..MaxPages /\ MaxPages \in Nat
         /\ held \in [PageIds -> 0..MaxHeld] /\ MaxHeld \in Nat
         /\ raised \in [PageIds -> 0..MaxRaised] /\ MaxRaised \in Nat
         /\ Users \in [PageIds -> Nat]
         /\ \A q \in PageIds : Users[q] = held[q] + raised[q]
         /\ unmarked \subseteq PageIds
         /\ DistinctPages(frames)
<1>1. /\ held \in [PageIds -> 0..MaxHeld] /\ MaxHeld \in Nat
      /\ raised \in [PageIds -> 0..MaxRaised] /\ MaxRaised \in Nat
      /\ unmarked \subseteq PageIds
  BY ClientAssumption DEF PoolInv, TypeOK
<1>2. Users \in [PageIds -> Nat] /\ \A q \in PageIds : Users[q] = held[q] + raised[q]
  BY <1>1 DEF Users
<1>3. QED
  BY <1>1, <1>2, SeqElements, PoolAssumption
     DEF PoolInv, TypeOK, PoolTypeOK, FramesOK, FrameOK

\* What a step leaves of the clients, whoever they are.
ClientsOK ==
  /\ held \in [PageIds -> 0..MaxHeld]
  /\ raised \in [PageIds -> 0..MaxRaised]
  /\ outcome \in Outcomes

LEMMA UsersNext ==
  ASSUME ClientsOK'
  PROVE  Users' \in [PageIds -> Nat] /\ \A q \in PageIds : Users'[q] = held'[q] + raised'[q]
<1>1. /\ held' \in [PageIds -> 0..MaxHeld] /\ MaxHeld \in Nat
      /\ raised' \in [PageIds -> 0..MaxRaised] /\ MaxRaised \in Nat
  BY ClientAssumption DEF ClientsOK
<1>2. QED
  BY <1>1 DEF Users

\* The clients when no writer raises: `raised` stays, and the pages that are
\* still unmarked are some of those that were.
LEMMA ClientsNext ==
  ASSUME PoolInv, held' \in [PageIds -> 0..MaxHeld], NobodyRaises, outcome' \in Outcomes
  PROVE  /\ ClientsOK' /\ unmarked' = StillUnmarked(unmarked)
         /\ Users \in [PageIds -> Nat] /\ Users' \in [PageIds -> Nat]
         /\ \A q \in PageIds : /\ held[q] \in Nat /\ held'[q] \in Nat /\ raised[q] \in Nat
                              /\ Users[q] = held[q] + raised[q]
                              /\ Users'[q] = held'[q] + raised[q]
<1>1. raised' = raised /\ unmarked' = StillUnmarked(unmarked)
  BY DEF NobodyRaises
<1>2. ClientsOK'
  BY <1>1, Typing DEF ClientsOK
<1>3. QED
  BY <1>1, <1>2, UsersNext, Typing

\* A frame stays sound when its page keeps its disk content, the page count
\* does not shrink and no user of its page leaves.
LEMMA FrameOKKept ==
  ASSUME NEW f, NEW d, NEW n \in Int, NEW h, NEW d2, NEW n2 \in Int, NEW h2,
         NEW u, NEW u2, u \subseteq u2, FrameOK(f, d, n, h, u), n <= n2,
         f.page # NoPage => d2[f.page] = d[f.page],
         f.page # NoPage => h[f.page] \in Int /\ h2[f.page] \in Int /\ h[f.page] <= h2[f.page]
  PROVE  FrameOK(f, d2, n2, h2, u2)
BY DEF FrameOK, Frame, PageIds, NoPage

\* The frame that is about to be replaced is flushed: the other frames and the
\* pages that are not cached keep their disk content.
LEMMA VictimFlushed ==
  ASSUME PoolInv, NEW i, Victim(i), FlushVictim(i)
  PROVE  /\ disk' \in [PageIds -> Contents] /\ fileLen' \in 0..MaxPages
         /\ \A j \in DOMAIN frames : j # i /\ frames[j].page # NoPage =>
              disk'[frames[j].page] = disk[frames[j].page]
         /\ i \in DOMAIN frames /\ frames[i].page # NoPage =>
              /\ frames[i].page \notin unmarked => disk'[frames[i].page] = frames[i].content
              /\ ~frames[i].dirty => disk'[frames[i].page] = disk[frames[i].page]
<1>1. CASE i \in DOMAIN frames
  <2> DEFINE fs == <<frames[i]>>
  <2>1. /\ fs \in Seq(Frame) /\ DOMAIN fs = {1} /\ fs[1] = frames[i]
    BY <1>1, Typing
  <2>2. DistinctPages(fs) /\ \A k \in DOMAIN fs : fs[k].dirty => fs[k].page # NoPage
    BY <2>1, <1>1, Typing DEF DistinctPages, FrameOK
  <2>3. WriteFrames(fs)
    BY <1>1 DEF FlushVictim
  <2> HIDE DEF fs
  <2>4. /\ disk' \in [PageIds -> Contents] /\ fileLen' \in 0..MaxPages
        /\ frames[i].dirty => disk'[frames[i].page] = frames[i].content
        /\ \A p \in PageIds :
             (frames[i].dirty => frames[i].page # p) => disk'[p] = disk[p]
    <3>1. /\ disk' \in [PageIds -> Contents] /\ fileLen' \in 0..MaxPages
          /\ \A k \in DOMAIN fs : fs[k].dirty => disk'[fs[k].page] = fs[k].content
          /\ \A p \in PageIds :
               (\A k \in DOMAIN fs : fs[k].dirty => fs[k].page # p) => disk'[p] = disk[p]
      BY <2>1, <2>2, <2>3, WriteFramesEffect, Typing
    <3>2. QED
      BY <2>1, <3>1
  <2>5. ASSUME NEW j \in DOMAIN frames, j # i, frames[j].page # NoPage
        PROVE  disk'[frames[j].page] = disk[frames[j].page]
    <3>1. frames[i].page # frames[j].page /\ frames[j].page \in PageIds
      BY <1>1, <2>5, Typing DEF DistinctPages, Frame
    <3>2. QED
      BY <2>4, <3>1
  <2>6. frames[i].page # NoPage =>
          /\ frames[i].page \notin unmarked => disk'[frames[i].page] = frames[i].content
          /\ ~frames[i].dirty => disk'[frames[i].page] = disk[frames[i].page]
    <3>1. frames[i].dirty \in BOOLEAN /\ frames[i].page \in PageIds \cup {NoPage}
      BY <1>1, Typing DEF Frame
    <3>2. CASE frames[i].dirty
      BY <2>4, <3>2
    <3>3. CASE ~frames[i].dirty
      BY <1>1, <2>4, <3>1, <3>3, Typing DEF FrameOK
    <3>4. QED
      BY <3>2, <3>3
  <2>7. QED
    BY <2>4, <2>5, <2>6
<1>2. CASE i \notin DOMAIN frames
  BY <1>2, Typing DEF FlushVictim
<1>3. QED
  BY <1>1, <1>2

LEMMA UncachedKept ==
  ASSUME PoolInv, NEW i, Victim(i), FlushVictim(i), NEW p \in PageIds, ~Cached(p)
  PROVE  disk'[p] = disk[p]
<1>1. CASE i \in DOMAIN frames
  <2>1. p \notin DirtyPages(<<frames[i]>>)
    BY <1>1 DEF DirtyPages, Cached
  <2>2. QED
    BY <1>1, <2>1, Typing DEF FlushVictim, WriteFrames
<1>2. CASE i \notin DOMAIN frames
  BY <1>2 DEF FlushVictim
<1>3. QED
  BY <1>1, <1>2

\* A cache hit: one frame changes in place.
LEMMA HitPreserves ==
  ASSUME PoolInv, NEW S, NEW i \in DOMAIN frames, NEW g \in Frame,
         frames' = [frames EXCEPT ![i] = g], g.page = frames[i].page,
         FrameOK(g, disk', numPages', Users', S),
         \A j \in DOMAIN frames : j # i => FrameOK(frames[j], disk', numPages', Users', S)
  PROVE  /\ frames' \in Seq(Frame) /\ Len(frames') <= MaxFrames
         /\ FramesOK(frames', disk', numPages', Users', S)
<1>1. /\ frames' \in Seq(Frame) /\ Len(frames') <= MaxFrames
      /\ \A j \in DOMAIN frames' : j \in DOMAIN frames /\ frames'[j] = IF j = i THEN g ELSE frames[j]
  BY SeqExcept, Typing
<1>2. g.page # NoPage => \A j \in DOMAIN frames : j # i => frames[j].page # g.page
  BY Typing DEF DistinctPages
<1>3. FramesOK(frames, disk, numPages, Users, unmarked)
  BY DEF PoolInv
<1>4. FramesOK(frames', disk', numPages', Users', S)
  BY <1>1, <1>2, <1>3, OneFrameChanges
<1>5. QED
  BY <1>1, <1>4

\* A cache miss: the frame of the victim, or a new one, takes the page.
LEMMA MissPreserves ==
  ASSUME PoolInv, NEW S, NEW i, Victim(i), NEW g \in Frame, frames' = PutFrame(i, g),
         g.page = NoPage \/ \A j \in DOMAIN frames : j # i => frames[j].page # g.page,
         FrameOK(g, disk', numPages', Users', S),
         \A j \in DOMAIN frames : j # i => FrameOK(frames[j], disk', numPages', Users', S)
  PROVE  /\ frames' \in Seq(Frame) /\ Len(frames') <= MaxFrames
         /\ FramesOK(frames', disk', numPages', Users', S)
<1>1. /\ frames' \in Seq(Frame) /\ Len(frames') <= MaxFrames
      /\ \A j \in DOMAIN frames' : frames'[j] = IF j = i THEN g ELSE frames[j]
      /\ \A j \in DOMAIN frames' : j # i => j \in DOMAIN frames
  BY PutFrameEffect DEF PoolInv
<1>2. FramesOK(frames, disk, numPages, Users, unmarked)
  BY DEF PoolInv
<1>3. g.page # NoPage => \A j \in DOMAIN frames : j # i => frames[j].page # g.page
  OBVIOUS
<1>4. \A j \in DOMAIN frames' : FrameOK(frames'[j], disk', numPages', Users', S)
  BY <1>1
<1>5. DistinctPages(frames')
  BY <1>1, <1>2, <1>3 DEF DistinctPages, FramesOK
<1>6. QED
  BY <1>1, <1>4, <1>5 DEF FramesOK

\* A method is applied to every frame, and no frame changes its page.
LEMMA MethodPreserves ==
  ASSUME PoolInv, NEW S,
         DOMAIN frames' = DOMAIN frames, frames' = [i \in DOMAIN frames |-> frames'[i]],
         \A i \in DOMAIN frames : /\ frames'[i].page = frames[i].page
                                  /\ FrameOK(frames'[i], disk', numPages', Users', S)
  PROVE  /\ frames' \in Seq(Frame) /\ Len(frames') <= MaxFrames
         /\ FramesOK(frames', disk', numPages', Users', S)
<1>1. frames' \in [1..Len(frames) -> Frame] /\ Len(frames) \in Nat
  BY Typing DEF FrameOK
<1>2. frames' \in Seq(Frame) /\ Len(frames') = Len(frames)
  BY <1>1, FunctionIsSeq
<1>3. DistinctPages(frames')
  <2>1. DistinctPages(frames)
    BY Typing
  <2>2. \A i \in DOMAIN frames' : i \in DOMAIN frames /\ frames'[i].page = frames[i].page
    OBVIOUS
  <2>3. QED
    BY <2>1, <2>2 DEF DistinctPages
<1>4. FramesOK(frames', disk', numPages', Users', S)
  BY <1>3 DEF FramesOK
<1>5. QED
  BY <1>2, <1>4, Typing

\* The frame that is found for a page is the one that contains it.
LEMMA FoundIsContained ==
  ASSUME PoolInv, NEW p \in PageIds, NEW i \in DOMAIN frames
  PROVE  Found(p, i) <=> frames[i].page = p
<1>1. p # NoPage
  BY PoolAssumption DEF PageIds, NoPage
<1>2. DistinctPages(frames)
  BY Typing
<1>3. Found(p, i) => frames[i].page = p
  BY <1>1, Typing DEF Found
<1>4. ASSUME frames[i].page = p PROVE Found(p, i)
  <2>1. \A j \in DOMAIN frames : frames[j].page = p => j = i
    BY <1>1, <1>2, <1>4 DEF DistinctPages
  <2>2. \A j \in 1..(i - 1) : j \in DOMAIN frames /\ j # i
    BY Typing
  <2>3. QED
    BY <1>4, <2>1, <2>2 DEF Found
<1>5. QED
  BY <1>3, <1>4

\* The frame that is found for p has no more pins than p has users.
LEMMA FoundFrame ==
  ASSUME PoolInv, NEW p \in PageIds, NEW i \in DOMAIN frames, Found(p, i)
  PROVE  /\ frames[i] \in Frame /\ frames[i].page = p /\ p # NoPage
         /\ frames[i].pins \in Nat /\ frames[i].pins <= Users[p]
<1>1. frames[i] \in Frame /\ FrameOK(frames[i], disk, numPages, Users, unmarked)
  BY Typing
<1>2. frames[i].page = p /\ p # NoPage
  BY PoolAssumption DEF Found, PageIds, NoPage
<1>3. frames[i].pins <= Users[p]
  BY <1>1, <1>2 DEF FrameOK
<1>4. frames[i].pins \in Nat
  BY <1>1 DEF Frame
<1>5. QED
  BY <1>1, <1>2, <1>3, <1>4

\* The frames other than i stay sound while pages are written back and users
\* only arrive.
LEMMA OthersKept ==
  ASSUME PoolInv, NEW i,
         \A j \in DOMAIN frames : j # i /\ frames[j].page # NoPage =>
           disk'[frames[j].page] = disk[frames[j].page],
         numPages' \in Nat, numPages <= numPages', NEW S, unmarked \subseteq S,
         Users' \in [PageIds -> Nat], \A q \in PageIds : Users[q] <= Users'[q]
  PROVE  \A j \in DOMAIN frames : j # i => FrameOK(frames[j], disk', numPages', Users', S)
<1> SUFFICES ASSUME NEW j \in DOMAIN frames, j # i
             PROVE  FrameOK(frames[j], disk', numPages', Users', S)
  OBVIOUS
<1>1. FrameOK(frames[j], disk, numPages, Users, unmarked) /\ numPages \in Int /\ numPages' \in Int
  BY Typing
<1>2. frames[j].page # NoPage => frames[j].page \in PageIds
  BY Typing DEF Frame
<1>3. frames[j].page # NoPage =>
        /\ disk'[frames[j].page] = disk[frames[j].page]
        /\ Users[frames[j].page] \in Int /\ Users'[frames[j].page] \in Int
        /\ Users[frames[j].page] <= Users'[frames[j].page]
  BY <1>2, Typing
<1>4. QED
  BY <1>1, <1>3, FrameOKKept

\* The pages that are still unmarked after the step are those of S that the
\* clean frames need.
LEMMA PoolInvNext ==
  ASSUME frames' \in Seq(Frame), Len(frames') <= MaxFrames,
         disk' \in [PageIds -> Contents], fileLen' \in 0..MaxPages, numPages' \in 0..MaxPages,
         ClientsOK', NEW S, S \subseteq PageIds, unmarked' = StillUnmarked(S),
         FramesOK(frames', disk', numPages', Users', S)
  PROVE  PoolInv'
<1>1. unmarked' = {q \in S : \E i \in DOMAIN frames' : frames'[i].page = q /\ ~frames'[i].dirty}
  BY DEF StillUnmarked
<1>2. ASSUME NEW i \in DOMAIN frames'
      PROVE  FrameOK(frames'[i], disk', numPages', Users', unmarked')
  <2>1. FrameOK(frames'[i], disk', numPages', Users', S)
    BY <1>2 DEF FramesOK
  <2>2. ~frames'[i].dirty /\ frames'[i].page \in S => frames'[i].page \in unmarked'
    BY <1>1, <1>2
  <2>3. QED
    BY <2>1, <2>2 DEF FrameOK
<1>3. FramesOK(frames', disk', numPages', Users', unmarked')
  BY <1>2 DEF FramesOK
<1>4. UnmarkedCached' /\ unmarked' \subseteq PageIds
  BY <1>1 DEF UnmarkedCached
<1>5. TypeOK'
  BY <1>4 DEF TypeOK, PoolTypeOK, ClientsOK
<1>6. QED
  BY <1>3, <1>4, <1>5 DEF PoolInv

------------------------------------------------------------------------------
(* The shapes of a step *)

\* The page is found in frame i, which becomes g.
LEMMA HitKeeps ==
  ASSUME PoolInv, NEW p \in PageIds, NEW i \in DOMAIN frames, Found(p, i),
         NEW g \in Frame, frames' = [frames EXCEPT ![i] = g], g.page = p,
         ClientsOK', NEW S, unmarked \subseteq S, S \subseteq PageIds,
         unmarked' = StillUnmarked(S), \A q \in PageIds : Users[q] <= Users'[q],
         g.dirty \/ p \in S \/ (~frames[i].dirty /\ g.content = frames[i].content),
         g.pins <= Users'[p], UNCHANGED <<disk, fileLen, numPages>>
  PROVE  PoolInv'
<1>1. disk' = disk /\ fileLen' = fileLen /\ numPages' = numPages
  OBVIOUS
<1>2. /\ numPages' \in Nat /\ numPages <= numPages' /\ numPages' \in 0..MaxPages
      /\ disk' \in [PageIds -> Contents] /\ fileLen' \in 0..MaxPages
  BY <1>1, Typing
<1>3. /\ frames[i] \in Frame /\ FrameOK(frames[i], disk, numPages, Users, unmarked)
      /\ frames[i].page = p /\ p # NoPage
  BY Typing DEF Found, PageIds, NoPage
<1>4. FrameOK(g, disk', numPages', Users', S)
  <2>1. p \notin S /\ ~g.dirty => g.content = disk'[p]
    BY <1>1, <1>3 DEF FrameOK
  <2>2. p < numPages'
    BY <1>1, <1>3 DEF FrameOK
  <2>3. QED
    BY <1>3, <2>1, <2>2 DEF FrameOK
<1>5. \A j \in DOMAIN frames : frames[j].page # NoPage => disk'[frames[j].page] = disk[frames[j].page]
  BY <1>1
<1>6. \A j \in DOMAIN frames : j # i => FrameOK(frames[j], disk', numPages', Users', S)
  BY <1>2, <1>5, UsersNext, OthersKept
<1>7. /\ frames' \in Seq(Frame) /\ Len(frames') <= MaxFrames
      /\ FramesOK(frames', disk', numPages', Users', S)
  BY <1>3, <1>4, <1>6, HitPreserves
<1>8. QED
  BY <1>2, <1>7, PoolInvNext

\* The page is read into the frame of the victim, which becomes g.
LEMMA MissKeeps ==
  ASSUME PoolInv, NEW p \in PageIds, NEW i, Victim(i), FlushVictim(i), ~Cached(p), p < numPages,
         NEW g \in Frame, frames' = PutFrame(i, g), g.page = p,
         ClientsOK', NEW S, unmarked \subseteq S, S \subseteq PageIds,
         unmarked' = StillUnmarked(S), \A q \in PageIds : Users[q] <= Users'[q],
         g.dirty \/ p \in S \/ g.content = disk[p],
         g.pins <= Users'[p], numPages' = numPages
  PROVE  PoolInv'
<1>1. /\ numPages' \in Nat /\ numPages <= numPages' /\ numPages' \in 0..MaxPages
      /\ p # NoPage
  BY Typing DEF PageIds, NoPage
<1>2. /\ disk' \in [PageIds -> Contents] /\ fileLen' \in 0..MaxPages
      /\ \A j \in DOMAIN frames : j # i /\ frames[j].page # NoPage =>
           disk'[frames[j].page] = disk[frames[j].page]
  BY VictimFlushed
<1>3. disk'[p] = disk[p]
  BY UncachedKept
<1>4. FrameOK(g, disk', numPages', Users', S)
  <2>1. p \notin S /\ ~g.dirty => g.content = disk'[p]
    BY <1>3
  <2>2. QED
    BY <1>1, <2>1 DEF FrameOK
<1>5. \A j \in DOMAIN frames : j # i => FrameOK(frames[j], disk', numPages', Users', S)
  BY <1>1, <1>2, UsersNext, OthersKept
<1>6. \A j \in DOMAIN frames : j # i => frames[j].page # g.page
  BY DEF Cached
<1>7. /\ frames' \in Seq(Frame) /\ Len(frames') <= MaxFrames
      /\ FramesOK(frames', disk', numPages', Users', S)
  BY <1>4, <1>5, <1>6, MissPreserves
<1>8. QED
  BY <1>1, <1>2, <1>7, PoolInvNext

\* A method changes at most the frame that contains p; no other page gains or
\* loses a user.
LEMMA MethodKeeps ==
  ASSUME PoolInv, NEW p \in PageIds, NEW G,
         frames' = [i \in DOMAIN frames |-> IF Found(p, i) THEN G[i] ELSE frames[i]],
         \A i \in DOMAIN frames : Found(p, i) =>
           /\ G[i] \in Frame /\ G[i].page = frames[i].page
           /\ G[i].content = frames[i].content /\ (frames[i].dirty => G[i].dirty)
           /\ G[i].pins <= Users'[p],
         ClientsOK', unmarked' = StillUnmarked(unmarked),
         \A q \in PageIds : q # p => Users'[q] = Users[q],
         UNCHANGED <<disk, fileLen, numPages>>
  PROVE  PoolInv'
<1>1. disk' = disk /\ fileLen' = fileLen /\ numPages' = numPages
  OBVIOUS
<1>2. DOMAIN frames' = DOMAIN frames /\ frames' = [i \in DOMAIN frames |-> frames'[i]]
  OBVIOUS
<1>3. ASSUME NEW i \in DOMAIN frames
      PROVE  frames'[i].page = frames[i].page /\ FrameOK(frames'[i], disk', numPages', Users', unmarked)
  <2>1. FrameOK(frames[i], disk, numPages, Users, unmarked) /\ frames[i] \in Frame
    BY <1>3, Typing
  <2>2. CASE Found(p, i)
    <3>1. frames'[i] = G[i] /\ frames[i].page = p /\ p # NoPage
      BY <1>3, <2>2 DEF Found, PageIds, NoPage
    <3>2. /\ G[i] \in Frame /\ G[i].page = frames[i].page
          /\ G[i].content = frames[i].content /\ (frames[i].dirty => G[i].dirty)
          /\ G[i].pins <= Users'[p]
      BY <1>3, <2>2
    <3>3. p < numPages' /\ (p \notin unmarked /\ ~G[i].dirty => G[i].content = disk'[p])
      BY <1>1, <2>1, <3>1, <3>2 DEF FrameOK
    <3>4. QED
      BY <3>1, <3>2, <3>3 DEF FrameOK
  <2>3. CASE ~Found(p, i)
    <3>1. frames'[i] = frames[i] /\ frames[i].page # p
      BY <1>3, <2>3, FoundIsContained
    <3>2. frames[i].page # NoPage => Users'[frames[i].page] = Users[frames[i].page]
      BY <2>1, <3>1 DEF Frame
    <3>3. QED
      BY <1>1, <2>1, <3>1, <3>2 DEF FrameOK
  <2>4. QED
    BY <2>2, <2>3
<1>4. /\ frames' \in Seq(Frame) /\ Len(frames') <= MaxFrames
      /\ FramesOK(frames', disk', numPages', Users', unmarked)
  BY <1>2, <1>3, MethodPreserves
<1>5. QED
  BY <1>1, <1>4, PoolInvNext, Typing

------------------------------------------------------------------------------
(* One lemma for each action *)

\* The clients when nobody comes, leaves or raises.
LEMMA ClientsSame ==
  ASSUME PoolInv, held' = held, NobodyRaises, outcome' \in Outcomes
  PROVE  /\ ClientsOK' /\ unmarked' = StillUnmarked(unmarked)
         /\ Users' \in [PageIds -> Nat] /\ Users' = Users
         /\ \A q \in PageIds : Users[q] \in Nat /\ Users'[q] = Users[q] /\ Users[q] <= Users'[q]
<1>1. raised' = raised
  BY DEF NobodyRaises
<1>2. Users' = Users
  BY <1>1 DEF Users
<1>3. held' \in [PageIds -> 0..MaxHeld]
  BY Typing
<1>4. /\ ClientsOK' /\ unmarked' = StillUnmarked(unmarked)
      /\ Users \in [PageIds -> Nat]
  BY <1>3, ClientsNext
<1>5. QED
  BY <1>2, <1>4

LEMMA InitSound ==
  ASSUME Init
  PROVE  PoolInv
<1>1. frames = <<>> /\ frames \in Seq(Frame) /\ Len(frames) = 0 /\ DOMAIN frames = {}
  BY DEF Init, PoolInit
<1>2. disk \in [PageIds -> Contents]
  <2> DEFINE pages == <<ZeroPage>>
  <2>1. Len(pages) = 1 /\ pages[1] = ZeroPage /\ ZeroPage \in Contents
    BY PoolAssumption
  <2>2. disk = [p \in PageIds |-> IF p < Len(pages) THEN pages[p + 1] ELSE ZeroPage]
    BY DEF Init, PoolInit
  <2> HIDE DEF pages
  <2>3. \A p \in PageIds : (IF p < Len(pages) THEN pages[p + 1] ELSE ZeroPage) \in Contents
    BY <2>1 DEF PageIds
  <2>4. QED
    BY <2>2, <2>3
<1>3. fileLen = 1 /\ numPages = 1 /\ MaxPages \in Nat \ {0} /\ MaxFrames \in Nat
  BY PoolAssumption DEF Init, PoolInit
<1>4. PoolTypeOK
  BY <1>1, <1>2, <1>3 DEF PoolTypeOK
<1>5. /\ held \in [PageIds -> 0..MaxHeld] /\ raised \in [PageIds -> 0..MaxRaised]
      /\ unmarked = {} /\ outcome \in Outcomes
  BY ClientAssumption DEF Init, Nobody, Outcomes
<1>6. FramesOK(frames, disk, numPages, Users, unmarked)
  BY <1>1 DEF FramesOK, DistinctPages
<1>7. QED
  BY <1>4, <1>5, <1>6 DEF PoolInv, TypeOK, UnmarkedCached

LEMMA ReaderGetsPreserves ==
  ASSUME PoolInv, NEW p \in PageIds, ReaderGets(p)
  PROVE  PoolInv'
<1>1. /\ ClientsOK' /\ unmarked' = StillUnmarked(unmarked) /\ unmarked \subseteq PageIds
      /\ Users[p] \in Nat /\ Users'[p] = Users[p] + 1
      /\ \A q \in PageIds : Users[q] <= Users'[q]
  <2>1. /\ held' \in [PageIds -> 0..MaxHeld] /\ outcome' \in Outcomes /\ NobodyRaises
        /\ \A q \in PageIds : held'[q] = IF q = p THEN held[p] + 1 ELSE held[q]
    BY Typing DEF ReaderGets, Outcomes
  <2>2. QED
    <3>1. /\ ClientsOK' /\ unmarked' = StillUnmarked(unmarked)
          /\ \A q \in PageIds : /\ held[q] \in Nat /\ held'[q] \in Nat /\ raised[q] \in Nat
                               /\ Users[q] = held[q] + raised[q]
                               /\ Users'[q] = held'[q] + raised[q]
      BY <2>1, ClientsNext
    <3>2. Users[p] \in Nat /\ Users'[p] = Users[p] + 1
      BY <2>1, <3>1
    <3>3. \A q \in PageIds : Users[q] <= Users'[q]
      BY <2>1, <3>1
    <3>4. unmarked \subseteq PageIds
      BY Typing
    <3>5. QED
      BY <3>1, <3>2, <3>3, <3>4
<1>2. ASSUME NEW i \in DOMAIN frames, Found(p, i),
             frames' = [frames EXCEPT ![i] = PinnedFrame(frames[i])],
             UNCHANGED <<disk, fileLen, numPages>>
      PROVE  PoolInv'
  <2> DEFINE g == PinnedFrame(frames[i])
  <2>1. /\ g \in Frame /\ g.page = p /\ frames[i].page = p
        /\ g.content = frames[i].content /\ g.dirty = frames[i].dirty
        /\ g.pins = frames[i].pins + 1
    BY <1>2, PinnedFields, Typing DEF Found
  <2>2. frames[i].pins <= Users[p] /\ frames[i].pins \in Nat /\ p # NoPage
    BY <1>2, FoundFrame
  <2>3. frames' = [frames EXCEPT ![i] = g]
    BY <1>2
  <2> HIDE DEF g
  <2>4. g.pins <= Users'[p]
    BY <1>1, <2>1, <2>2
  <2>5. g.dirty \/ (~frames[i].dirty /\ g.content = frames[i].content)
    BY <2>1
  <2>6. QED
    BY <1>1, <1>2, <2>1, <2>3, <2>4, <2>5, HitKeeps
<1>3. ASSUME NEW i \in 1..MaxFrames, ~Cached(p), p < numPages, Victim(i), FlushVictim(i),
             frames' = PutFrame(i, [page |-> p, content |-> disk[p], dirty |-> FALSE, pins |-> 1]),
             UNCHANGED numPages
      PROVE  PoolInv'
  <2> DEFINE g == [page |-> p, content |-> disk[p], dirty |-> FALSE, pins |-> 1]
  <2>1. /\ g \in Frame /\ g.page = p /\ g.content = disk[p] /\ g.pins = 1
    BY Typing DEF Frame
  <2>2. frames' = PutFrame(i, g)
    BY <1>3
  <2> HIDE DEF g
  <2>3. g.pins <= Users'[p]
    BY <1>1, <2>1
  <2>4. QED
    BY <1>1, <1>3, <2>1, <2>2, <2>3, MissKeeps
<1>4. QED
  BY <1>2, <1>3 DEF ReaderGets, HoldPage, GetPage

LEMMA WriterUpdatesPreserves ==
  ASSUME PoolInv, NEW p \in PageIds, WriterUpdates(p)
  PROVE  PoolInv'
<1>1. PICK c \in Contents : UpdatePage(p, c)
  BY DEF WriterUpdates
<1>2. /\ ClientsOK' /\ unmarked' = StillUnmarked(unmarked) /\ unmarked \subseteq PageIds
      /\ \A q \in PageIds : Users[q] \in Nat /\ Users'[q] = Users[q] /\ Users[q] <= Users'[q]
  <2>1. held' = held /\ outcome' = "ended" /\ NobodyRaises
    BY DEF WriterUpdates
  <2>2. QED
    BY <2>1, ClientsSame, Typing DEF Outcomes
<1>3. ASSUME NEW i \in DOMAIN frames, Found(p, i),
             frames' = [frames EXCEPT ![i] = UnpinnedFrame(WrittenFrame(PinnedFrame(frames[i]), c))],
             UNCHANGED <<disk, fileLen, numPages>>
      PROVE  PoolInv'
  <2> DEFINE a == PinnedFrame(frames[i])
             b == WrittenFrame(a, c)
             g == UnpinnedFrame(b)
  <2>1. /\ frames[i].page = p /\ frames[i] \in Frame /\ p # NoPage
        /\ frames[i].pins <= Users[p] /\ frames[i].pins \in Nat
    BY <1>3, FoundFrame
  <2>2. a \in Frame /\ a.page = p /\ a.pins = frames[i].pins + 1
    BY <2>1, PinnedFields
  <2>3. frames' = [frames EXCEPT ![i] = g]
    BY <1>3
  <2> HIDE DEF a
  <2>4. b \in Frame /\ b.page = p /\ b.pins = frames[i].pins + 1 /\ b.dirty
    BY <2>2, WrittenFields
  <2> HIDE DEF b
  <2>5. g \in Frame /\ g.page = p /\ g.pins = frames[i].pins /\ g.dirty
    <3>1. b.pins > 0 /\ b.pins - 1 = frames[i].pins
      BY <2>1, <2>4
    <3>2. g \in Frame /\ g.page = p /\ g.dirty /\ g.pins = IF b.pins > 0 THEN b.pins - 1 ELSE 0
      BY <2>4, UnpinnedFields
    <3>3. QED
      BY <3>1, <3>2
  <2> HIDE DEF g
  <2>6. g.pins <= Users'[p]
    BY <1>2, <2>1, <2>5
  <2>7. Found(p, i) /\ UNCHANGED <<disk, fileLen, numPages>>
    BY <1>3
  <2>8. QED
    BY <1>2, <2>3, <2>5, <2>6, <2>7, HitKeeps
<1>4. ASSUME NEW i \in 1..MaxFrames, ~Cached(p), p < numPages, Victim(i), FlushVictim(i),
             frames' = PutFrame(i, UnpinnedFrame(WrittenFrame(
                         [page |-> p, content |-> disk[p], dirty |-> FALSE, pins |-> 1], c))),
             UNCHANGED numPages
      PROVE  PoolInv'
  <2> DEFINE a == [page |-> p, content |-> disk[p], dirty |-> FALSE, pins |-> 1]
             b == WrittenFrame(a, c)
             g == UnpinnedFrame(b)
  <2>1. a \in Frame /\ a.page = p /\ a.pins = 1
    BY Typing DEF Frame
  <2>2. frames' = PutFrame(i, g)
    BY <1>4
  <2> HIDE DEF a
  <2>3. b \in Frame /\ b.page = p /\ b.pins = 1 /\ b.dirty
    BY <2>1, WrittenFields
  <2> HIDE DEF b
  <2>4. g \in Frame /\ g.page = p /\ g.pins = 0 /\ g.dirty
    BY <2>3, UnpinnedFields
  <2> HIDE DEF g
  <2>5. g.pins <= Users'[p]
    BY <1>2, <2>4
  <2>6. QED
    BY <1>2, <1>4, <2>2, <2>4, <2>5, MissKeeps
<1>5. QED
  BY <1>1, <1>3, <1>4 DEF UpdatePage, GetPage

\* A writer that raises: its pin stays, and the page may be left unmarked.
LEMMA WriterRaisesPreserves ==
  ASSUME PoolInv, NEW p \in PageIds, WriterRaises(p)
  PROVE  PoolInv'
<1>1. PICK c \in Contents : BreakPage(p, c)
  BY DEF WriterRaises
<1> DEFINE S == unmarked \cup {p}
<1>2. /\ ClientsOK' /\ unmarked' = StillUnmarked(S) /\ S \subseteq PageIds
      /\ unmarked \subseteq S /\ p \in S
      /\ Users[p] \in Nat /\ Users'[p] = Users[p] + 1
      /\ \A q \in PageIds : Users[q] <= Users'[q]
  <2>1. held' = held /\ outcome' = "ended" /\ raised' \in [PageIds -> 0..MaxRaised]
    BY Typing DEF WriterRaises
  <2>2. ClientsOK' /\ \A q \in PageIds : raised'[q] = IF q = p THEN raised[p] + 1 ELSE raised[q]
    BY <2>1, Typing DEF WriterRaises, ClientsOK, Outcomes
  <2>3. unmarked' = StillUnmarked(S) /\ S \subseteq PageIds
    BY Typing DEF WriterRaises
  <2>4. \A q \in PageIds : /\ held[q] \in Nat /\ raised[q] \in Nat
                          /\ Users[q] = held[q] + raised[q]
                          /\ Users'[q] = held[q] + raised'[q]
    BY <2>1, <2>2, UsersNext, Typing
  <2>5. QED
    BY <2>2, <2>3, <2>4
<1> HIDE DEF S
<1>3. ASSUME NEW i \in DOMAIN frames, Found(p, i),
             frames' = [frames EXCEPT ![i] = [PinnedFrame(frames[i]) EXCEPT !.content = c]],
             UNCHANGED <<disk, fileLen, numPages>>
      PROVE  PoolInv'
  <2> DEFINE a == PinnedFrame(frames[i])
             g == [a EXCEPT !.content = c]
  <2>1. /\ frames[i].page = p /\ frames[i] \in Frame
        /\ frames[i].pins <= Users[p] /\ frames[i].pins \in Nat
    BY <1>3, FoundFrame
  <2>2. a \in Frame /\ a.page = p /\ a.pins = frames[i].pins + 1
    BY <2>1, PinnedFields
  <2>3. frames' = [frames EXCEPT ![i] = g]
    BY <1>3
  <2> HIDE DEF a
  <2>4. g \in Frame /\ g.page = p /\ g.pins = frames[i].pins + 1
    BY <2>2 DEF Frame
  <2> HIDE DEF g
  <2>5. g.pins <= Users'[p]
    BY <1>2, <2>1, <2>4
  <2>6. Found(p, i) /\ UNCHANGED <<disk, fileLen, numPages>>
    BY <1>3
  <2>7. QED
    BY <1>2, <2>3, <2>4, <2>5, <2>6, HitKeeps
<1>4. ASSUME NEW i \in 1..MaxFrames, ~Cached(p), p < numPages, Victim(i), FlushVictim(i),
             frames' = PutFrame(i, [[page |-> p, content |-> disk[p], dirty |-> FALSE, pins |-> 1]
                                      EXCEPT !.content = c]),
             UNCHANGED numPages
      PROVE  PoolInv'
  <2> DEFINE a == [page |-> p, content |-> disk[p], dirty |-> FALSE, pins |-> 1]
             g == [a EXCEPT !.content = c]
  <2>1. a \in Frame /\ a.page = p /\ a.pins = 1
    BY Typing DEF Frame
  <2>2. frames' = PutFrame(i, g)
    BY <1>4
  <2> HIDE DEF a
  <2>3. g \in Frame /\ g.page = p /\ g.pins = 1
    BY <2>1 DEF Frame
  <2> HIDE DEF g
  <2>4. g.pins <= Users'[p]
    BY <1>2, <2>3
  <2>5. QED
    BY <1>2, <1>4, <2>2, <2>3, <2>4, MissKeeps
<1>5. QED
  BY <1>1, <1>3, <1>4 DEF BreakPage, GetPage

LEMMA ReaderPinsPreserves ==
  ASSUME PoolInv, NEW p \in PageIds, ReaderPins(p)
  PROVE  PoolInv'
<1>1. /\ ClientsOK' /\ unmarked' = StillUnmarked(unmarked)
      /\ Users[p] \in Nat /\ Users'[p] = Users[p] + 1
      /\ \A q \in PageIds : q # p => Users'[q] = Users[q]
  <2>1. /\ held' \in [PageIds -> 0..MaxHeld] /\ outcome' \in Outcomes /\ NobodyRaises
        /\ \A q \in PageIds : held'[q] = IF q = p THEN held[p] + 1 ELSE held[q]
    BY Typing DEF ReaderPins, Outcomes
  <2>2. QED
    BY <2>1, ClientsNext, Typing
<1> DEFINE G == [i \in DOMAIN frames |-> PinnedFrame(frames[i])]
<1>2. ASSUME NEW i \in DOMAIN frames, Found(p, i)
      PROVE  /\ G[i] \in Frame /\ G[i].page = frames[i].page
             /\ G[i].content = frames[i].content /\ (frames[i].dirty => G[i].dirty)
             /\ G[i].pins <= Users'[p]
  <2>1. /\ frames[i] \in Frame /\ frames[i].pins \in Nat /\ frames[i].pins <= Users[p]
    BY <1>2, FoundFrame
  <2>2. G[i] = PinnedFrame(frames[i])
    BY <1>2
  <2>3. QED
    BY <1>1, <2>1, <2>2, PinnedFields
<1>3. /\ frames' = [i \in DOMAIN frames |-> IF Found(p, i) THEN G[i] ELSE frames[i]]
      /\ UNCHANGED <<disk, fileLen, numPages>>
  BY DEF ReaderPins, PinPage, OnFrame
<1> HIDE DEF G
<1>4. QED
  BY <1>1, <1>2, <1>3, MethodKeeps

\* unpin, by a reader that leaves the page or by one that had already left it.
LEMMA UnpinPreserves ==
  ASSUME PoolInv, NEW p \in PageIds, NEW isDirty \in BOOLEAN, UnpinPage(p, isDirty),
         held' \in [PageIds -> 0..MaxHeld], held[p] - 1 <= held'[p],
         \A q \in PageIds : q # p => held'[q] = held[q],
         NobodyRaises, outcome' \in Outcomes
  PROVE  PoolInv'
<1>1. /\ ClientsOK' /\ unmarked' = StillUnmarked(unmarked)
      /\ Users[p] \in Nat /\ Users'[p] \in Nat /\ Users[p] - 1 <= Users'[p]
      /\ \A q \in PageIds : q # p => Users'[q] = Users[q]
  BY ClientsNext
<1> DEFINE G == [i \in DOMAIN frames |-> UnpinnedFrame(DirtiedFrame(frames[i], isDirty))]
<1>2. ASSUME NEW i \in DOMAIN frames, Found(p, i)
      PROVE  /\ G[i] \in Frame /\ G[i].page = frames[i].page
             /\ G[i].content = frames[i].content /\ (frames[i].dirty => G[i].dirty)
             /\ G[i].pins <= Users'[p]
  <2>1. /\ frames[i] \in Frame /\ frames[i].pins \in Nat /\ frames[i].pins <= Users[p]
    BY <1>2, FoundFrame
  <2> DEFINE a == DirtiedFrame(frames[i], isDirty)
  <2>2. /\ a \in Frame /\ a.page = frames[i].page /\ a.content = frames[i].content
        /\ a.pins = frames[i].pins /\ a.dirty = (frames[i].dirty \/ isDirty)
    BY <2>1, DirtiedFields
  <2>3. G[i] = UnpinnedFrame(a)
    BY <1>2
  <2> HIDE DEF a, G
  <2>4. /\ G[i] \in Frame /\ G[i].page = a.page /\ G[i].content = a.content
        /\ G[i].dirty = a.dirty /\ G[i].pins = (IF a.pins > 0 THEN a.pins - 1 ELSE 0)
    BY <2>2, <2>3, UnpinnedFields
  <2>5. G[i].pins <= Users'[p]
    BY <1>1, <2>1, <2>2, <2>4
  <2>6. frames[i].dirty => a.dirty
    BY Zenon, <2>2
  <2>7. QED
    BY <2>2, <2>4, <2>5, <2>6
<1>3. /\ frames' = [i \in DOMAIN frames |-> IF Found(p, i) THEN G[i] ELSE frames[i]]
      /\ UNCHANGED <<disk, fileLen, numPages>>
  BY DEF UnpinPage, OnFrame
<1> HIDE DEF G
<1>4. QED
  BY <1>1, <1>2, <1>3, MethodKeeps

LEMMA ReaderUnpinsPreserves ==
  ASSUME PoolInv, NEW p \in PageIds, NEW isDirty \in BOOLEAN, ReaderUnpins(p, isDirty)
  PROVE  PoolInv'
<1>1. /\ held' \in [PageIds -> 0..MaxHeld] /\ held'[p] = held[p] - 1 /\ held[p] \in Nat
      /\ \A q \in PageIds : q # p => held'[q] = held[q]
      /\ NobodyRaises /\ outcome' \in Outcomes
  BY Typing DEF ReaderUnpins, Outcomes
<1>2. UnpinPage(p, isDirty) /\ held[p] - 1 <= held'[p]
  BY <1>1 DEF ReaderUnpins
<1>3. QED
  BY <1>1, <1>2, UnpinPreserves

LEMMA SpareUnpinPreserves ==
  ASSUME PoolInv, NEW p \in PageIds, SpareUnpin(p)
  PROVE  PoolInv'
<1>1. /\ held' = held /\ held' \in [PageIds -> 0..MaxHeld] /\ held[p] \in Nat
      /\ NobodyRaises /\ outcome' \in Outcomes
  BY Typing DEF SpareUnpin, Outcomes
<1>2. held[p] - 1 <= held'[p] /\ \A q \in PageIds : q # p => held'[q] = held[q]
  BY <1>1
<1>3. UnpinPage(p, FALSE)
  BY Zenon DEF SpareUnpin
<1>4. QED
  BY <1>1, <1>2, <1>3, UnpinPreserves

LEMMA CallerMarksDirtyPreserves ==
  ASSUME PoolInv, NEW p \in PageIds, CallerMarksDirty(p)
  PROVE  PoolInv'
<1>1. /\ ClientsOK' /\ unmarked' = StillUnmarked(unmarked)
      /\ \A q \in PageIds : Users[q] \in Nat /\ Users'[q] = Users[q]
  <2>1. held' = held /\ outcome' = "ended" /\ NobodyRaises
    BY DEF CallerMarksDirty
  <2>2. QED
    BY <2>1, ClientsSame DEF Outcomes
<1>0. PICK yes \in BOOLEAN : yes = TRUE
  OBVIOUS
<1> DEFINE G == [i \in DOMAIN frames |-> DirtiedFrame(frames[i], yes)]
<1>2. ASSUME NEW i \in DOMAIN frames, Found(p, i)
      PROVE  /\ G[i] \in Frame /\ G[i].page = frames[i].page
             /\ G[i].content = frames[i].content /\ (frames[i].dirty => G[i].dirty)
             /\ G[i].pins <= Users'[p]
  <2>1. /\ frames[i] \in Frame /\ frames[i].pins <= Users[p]
    BY <1>2, FoundFrame
  <2> DEFINE a == DirtiedFrame(frames[i], yes)
  <2>2. /\ a \in Frame /\ a.page = frames[i].page /\ a.content = frames[i].content
        /\ a.pins = frames[i].pins /\ a.dirty = (frames[i].dirty \/ yes)
    BY <2>1, DirtiedFields
  <2>3. G[i] = a
    BY <1>2
  <2> HIDE DEF a, G
  <2>4. frames[i].dirty => a.dirty
    BY Zenon, <2>2
  <2>5. QED
    BY <1>1, <2>1, <2>2, <2>3, <2>4
<1>3. /\ frames' = [i \in DOMAIN frames |-> IF Found(p, i) THEN G[i] ELSE frames[i]]
      /\ UNCHANGED <<disk, fileLen, numPages>>
  BY <1>0 DEF CallerMarksDirty, MarkDirty, OnFrame
<1> HIDE DEF G
<1>4. QED
  BY <1>1, <1>2, <1>3, MethodKeeps

LEMMA GetFailsPreserves ==
  ASSUME PoolInv, NEW p \in PageIds, GetFails(p)
  PROVE  PoolInv'
<1>1. /\ ClientsOK' /\ unmarked' = StillUnmarked(unmarked) /\ unmarked \subseteq PageIds
      /\ Users' \in [PageIds -> Nat] /\ Users' = Users
      /\ \A q \in PageIds : Users[q] \in Nat /\ Users'[q] = Users[q] /\ Users[q] <= Users'[q]
  <2>1. held' = held /\ NobodyRaises
    BY Zenon DEF GetFails
  <2>2. outcome' = "all pinned" \/ outcome' = "ended"
    BY Zenon DEF GetFails
  <2>3. QED
    BY <2>1, <2>2, ClientsSame, Typing DEF Outcomes
<1>2. ASSUME PoolExhausted(p)
      PROVE  PoolInv'
  <2>1. frames' = frames /\ disk' = disk /\ fileLen' = fileLen /\ numPages' = numPages
    BY <1>2 DEF PoolExhausted
  <2>2. FramesOK(frames', disk', numPages', Users', unmarked)
    BY <1>1, <2>1 DEF PoolInv
  <2>3. QED
    BY <1>1, <2>1, <2>2, PoolInvNext, Typing
<1>3. ASSUME PageMissing(p)
      PROVE  PoolInv'
  <2>1. PICK i \in 1..MaxFrames :
          /\ Victim(i) /\ FlushVictim(i)
          /\ frames' = PutFrame(i, IF i \in DOMAIN frames THEN [frames[i] EXCEPT !.dirty = FALSE]
                                   ELSE EmptyFrame)
    BY <1>3 DEF PageMissing
  <2>2. numPages' = numPages /\ numPages \in 0..MaxPages /\ MaxPages \in Nat
    BY <1>3, Typing DEF PageMissing
  <2>3. /\ disk' \in [PageIds -> Contents] /\ fileLen' \in 0..MaxPages
        /\ \A j \in DOMAIN frames : j # i /\ frames[j].page # NoPage =>
             disk'[frames[j].page] = disk[frames[j].page]
        /\ i \in DOMAIN frames /\ frames[i].page # NoPage =>
             (frames[i].page \notin unmarked => disk'[frames[i].page] = frames[i].content)
    BY <2>1, VictimFlushed
  <2>4. \A j \in DOMAIN frames : j # i => FrameOK(frames[j], disk', numPages', Users', unmarked)
    <3>1. numPages' \in Nat /\ numPages <= numPages' /\ unmarked \subseteq unmarked
      BY <2>2
    <3>2. QED
      BY <1>1, <2>3, <3>1, OthersKept
  <2> DEFINE g == IF i \in DOMAIN frames THEN [frames[i] EXCEPT !.dirty = FALSE] ELSE EmptyFrame
  <2>5. /\ g \in Frame /\ FrameOK(g, disk', numPages', Users', unmarked)
        /\ g.page = NoPage \/ \A j \in DOMAIN frames : j # i => frames[j].page # g.page
    <3>1. CASE i \in DOMAIN frames
      <4>1. frames[i] \in Frame /\ FrameOK(frames[i], disk, numPages, Users, unmarked)
        BY <3>1, Typing
      <4>2. /\ g \in Frame /\ g.page = frames[i].page /\ g.content = frames[i].content
            /\ g.dirty = FALSE /\ g.pins = frames[i].pins
        BY <3>1, <4>1 DEF Frame
      <4>3. FrameOK(g, disk', numPages', Users', unmarked)
        BY <1>1, <2>2, <2>3, <3>1, <4>1, <4>2 DEF FrameOK
      <4>4. g.page = NoPage \/ \A j \in DOMAIN frames : j # i => frames[j].page # g.page
        BY <3>1, <4>2, Typing DEF DistinctPages
      <4>5. QED
        BY <4>2, <4>3, <4>4
    <3>2. CASE i \notin DOMAIN frames
      <4>1. /\ g \in Frame /\ g.page = NoPage /\ g.dirty = FALSE /\ g.pins = 0
        BY <3>2, PoolAssumption DEF EmptyFrame, Frame
      <4>2. QED
        BY <4>1 DEF FrameOK
    <3>3. QED
      BY <3>1, <3>2
  <2>6. frames' = PutFrame(i, g)
    BY <2>1
  <2> HIDE DEF g
  <2>7. /\ frames' \in Seq(Frame) /\ Len(frames') <= MaxFrames
        /\ FramesOK(frames', disk', numPages', Users', unmarked)
    BY <2>1, <2>4, <2>5, <2>6, MissPreserves
  <2>8. QED
    BY <1>1, <2>2, <2>3, <2>7, PoolInvNext
<1>4. QED
  BY Zenon, <1>2, <1>3 DEF GetFails

LEMMA CallerAllocatesPreserves ==
  ASSUME PoolInv, CallerAllocates
  PROVE  PoolInv'
<1>1. /\ ClientsOK' /\ unmarked' = StillUnmarked(unmarked) /\ unmarked \subseteq PageIds
      /\ Users' \in [PageIds -> Nat]
      /\ \A q \in PageIds : Users[q] \in Nat /\ Users'[q] = Users[q] /\ Users[q] <= Users'[q]
  <2>1. held' = held /\ outcome' = "ended" /\ NobodyRaises
    BY DEF CallerAllocates
  <2>2. QED
    BY <2>1, ClientsSame, Typing DEF Outcomes
<1>2. /\ frames' = frames /\ disk' = disk /\ fileLen' = fileLen
      /\ numPages' = numPages + 1 /\ numPages < MaxPages
  BY DEF CallerAllocates, GetNewPage
<1>3. numPages' \in Nat /\ numPages <= numPages' /\ numPages' \in 0..MaxPages
  BY <1>2, Typing
<1>4. /\ \A j \in DOMAIN frames : j # 0
      /\ \A j \in DOMAIN frames : frames[j].page # NoPage => disk'[frames[j].page] = disk[frames[j].page]
  BY <1>2, Typing
<1>5. \A j \in DOMAIN frames : j # 0 => FrameOK(frames[j], disk', numPages', Users', unmarked)
  BY <1>1, <1>3, <1>4, OthersKept
<1>6. FramesOK(frames', disk', numPages', Users', unmarked)
  BY <1>2, <1>4, <1>5, Typing DEF FramesOK
<1>7. QED
  BY <1>1, <1>2, <1>3, <1>6, PoolInvNext, Typing

LEMMA CallerFlushesPreserves ==
  ASSUME PoolInv, CallerFlushes
  PROVE  PoolInv'
<1>1. /\ ClientsOK' /\ unmarked' = StillUnmarked(unmarked) /\ unmarked \subseteq PageIds
      /\ Users' \in [PageIds -> Nat] /\ Users' = Users
  <2>1. held' = held /\ outcome' = "flushed" /\ NobodyRaises
    BY DEF CallerFlushes
  <2>2. QED
    BY <2>1, ClientsSame, Typing DEF Outcomes
<1>2. WriteFrames(frames) /\ numPages' = numPages
  BY DEF CallerFlushes, FlushDirty
<1>3. frames' = [i \in DOMAIN frames |->
                   IF frames[i].dirty THEN FlushedFrame(frames[i]) ELSE frames[i]]
  BY DEF CallerFlushes, FlushDirty
<1>4. \A i \in DOMAIN frames : frames[i].dirty => frames[i].page # NoPage
  BY Typing DEF FrameOK
<1>5. /\ disk' \in [PageIds -> Contents] /\ fileLen' \in 0..MaxPages
      /\ \A i \in DOMAIN frames : frames[i].dirty => disk'[frames[i].page] = frames[i].content
      /\ \A p \in PageIds :
           (\A i \in DOMAIN frames : frames[i].dirty => frames[i].page # p) => disk'[p] = disk[p]
  BY <1>2, <1>4, WriteFramesEffect, Typing
<1>6. ASSUME NEW i \in DOMAIN frames
      PROVE  frames'[i].page = frames[i].page /\ FrameOK(frames'[i], disk', numPages', Users', unmarked)
  <2>1. frames[i] \in Frame /\ FrameOK(frames[i], disk, numPages, Users, unmarked)
    BY <1>6, Typing
  <2>2. CASE frames[i].dirty
    <3> DEFINE g == FlushedFrame(frames[i])
    <3>1. frames'[i] = g
      BY <1>3, <1>6, <2>2
    <3>2. /\ g \in Frame /\ g.page = frames[i].page /\ g.content = frames[i].content
          /\ g.dirty = FALSE /\ g.pins = (IF frames[i].pins > 0 THEN frames[i].pins - 1 ELSE 0)
      BY <2>1, FlushedFields
    <3> HIDE DEF g
    <3>3. disk'[g.page] = g.content /\ g.page # NoPage
      BY <1>4, <1>5, <1>6, <2>2, <3>2
    <3>4. g.page < numPages'
      BY <1>2, <2>1, <3>2, <3>3 DEF FrameOK
    <3>5. g.pins <= Users'[g.page]
      <4>1. frames[i].pins \in Nat /\ frames[i].page \in PageIds
        BY <2>1, <3>2, <3>3 DEF Frame
      <4>2. frames[i].pins <= Users[frames[i].page] /\ Users[frames[i].page] \in Nat
        BY <2>1, <3>2, <3>3, <4>1, Typing DEF FrameOK
      <4>3. QED
        BY <1>1, <3>2, <4>1, <4>2
    <3>6. QED
      BY <3>1, <3>2, <3>3, <3>4, <3>5 DEF FrameOK
  <2>3. CASE ~frames[i].dirty
    <3>1. frames'[i] = frames[i]
      BY <1>3, <1>6, <2>3
    <3>2. ASSUME frames[i].page # NoPage
          PROVE  disk'[frames[i].page] = disk[frames[i].page]
      <4>1. frames[i].page \in PageIds
        BY <2>1, <3>2 DEF Frame
      <4>2. \A k \in DOMAIN frames : frames[k].dirty => frames[k].page # frames[i].page
        BY <1>6, <2>3, <3>2, Typing DEF DistinctPages
      <4>3. QED
        BY <1>5, <4>1, <4>2
    <3>3. QED
      BY <1>1, <1>2, <2>1, <3>1, <3>2 DEF FrameOK
  <2>4. QED
    BY <2>2, <2>3
<1>7. DOMAIN frames' = DOMAIN frames /\ frames' = [i \in DOMAIN frames |-> frames'[i]]
  BY <1>3
<1>8. /\ frames' \in Seq(Frame) /\ Len(frames') <= MaxFrames
      /\ FramesOK(frames', disk', numPages', Users', unmarked)
  BY <1>6, <1>7, MethodPreserves
<1>9. QED
  BY <1>1, <1>2, <1>5, <1>8, PoolInvNext, Typing

LEMMA CrashPreserves ==
  ASSUME PoolInv, CrashesAndRestarts
  PROVE  PoolInv'
<1>1. PICK k \in 0..Len(frames) : CrashAfter(k)
  BY DEF CrashesAndRestarts
<1>2. /\ ClientsOK' /\ unmarked' = StillUnmarked(unmarked) /\ unmarked \subseteq PageIds
  BY ClientAssumption, Typing DEF CrashesAndRestarts, Nobody, Outcomes, ClientsOK
<1> DEFINE fs == SubSeq(frames, 1, k)
<1>3. /\ fs \in Seq(Frame) /\ DOMAIN fs = 1..k
      /\ \A i \in DOMAIN fs : i \in DOMAIN frames /\ fs[i] = frames[i]
  BY <1>1, SeqPrefix, Typing
<1>4. WriteFrames(fs) /\ frames' = <<>> /\ numPages' = fileLen'
  BY <1>1 DEF CrashAfter
<1> HIDE DEF fs
<1>5. (\A i \in DOMAIN fs : fs[i].dirty => fs[i].page # NoPage) /\ DistinctPages(fs)
  BY <1>3, Typing DEF DistinctPages, FrameOK
<1>6. disk' \in [PageIds -> Contents] /\ fileLen' \in 0..MaxPages
  BY <1>3, <1>4, <1>5, WriteFramesEffect, Typing
<1>7. frames' \in Seq(Frame) /\ Len(frames') = 0 /\ DOMAIN frames' = {}
  BY <1>4
<1>8. FramesOK(frames', disk', numPages', Users', unmarked)
  BY <1>7 DEF FramesOK, DistinctPages
<1>9. Len(frames') <= MaxFrames
  BY <1>7, PoolAssumption
<1>10. QED
  BY <1>2, <1>4, <1>6, <1>7, <1>8, <1>9, PoolInvNext

\* Every step keeps the invariant.
LEMMA PoolInvStep ==
  ASSUME PoolInv, [Next]_vars
  PROVE  PoolInv'
<1>1. CASE UNCHANGED vars
  <2>1. /\ frames' = frames /\ disk' = disk /\ fileLen' = fileLen
        /\ numPages' = numPages /\ held' = held /\ raised' = raised
        /\ unmarked' = unmarked /\ outcome' = outcome
    BY <1>1 DEF vars
  <2>2. QED
    BY <2>1 DEF PoolInv, TypeOK, PoolTypeOK, Users, UnmarkedCached
<1>2. ASSUME NEW p \in PageIds,
             \/ ReaderGets(p) \/ ReaderPins(p)
             \/ ReaderUnpins(p, TRUE) \/ ReaderUnpins(p, FALSE) \/ SpareUnpin(p)
             \/ WriterUpdates(p) \/ WriterRaises(p) \/ CallerMarksDirty(p)
             \/ GetFails(p)
      PROVE  PoolInv'
  BY Zenon, <1>2, ReaderGetsPreserves, ReaderPinsPreserves, ReaderUnpinsPreserves,
     SpareUnpinPreserves, WriterUpdatesPreserves, WriterRaisesPreserves,
     CallerMarksDirtyPreserves, GetFailsPreserves
<1>3. QED
  BY Zenon, <1>1, <1>2, CallerAllocatesPreserves, CallerFlushesPreserves, CrashPreserves DEF Next

------------------------------------------------------------------------------
(* Theorems *)

\* The named invariants of PoolClients are together inductive.
THEOREM PoolInvariance == Spec => []PoolInv
<1>1. Init => PoolInv
  BY InitSound
<1>2. PoolInv /\ [Next]_vars => PoolInv'
  BY PoolInvStep
<1>3. QED
  BY <1>1, <1>2, PTL DEF Spec

\* Every frame and every counter of the buffer pool keeps its type; a pin count
\* never goes below zero, whatever unpins callers repeat.
THEOREM TypeCorrect == Spec => []TypeOK
<1>1. PoolInv => TypeOK
  BY DEF PoolInv
<1>2. QED
  BY <1>1, PoolInvariance, PTL

\* No page is ever cached in two frames of the pool.
THEOREM OneFramePerPage == Spec => []PageInOneFrame
<1>1. PoolInv => PageInOneFrame
  BY PoolInvIs
<1>2. QED
  BY <1>1, PoolInvariance, PTL

\* A frame that is not dirty holds what the disk holds, so that replacing it
\* loses no change but the half-made one of a writer that raised.
THEOREM CleanFramesOnDisk == Spec => []CleanMeansOnDisk
<1>1. PoolInv => CleanMeansOnDisk
  BY PoolInvIs
<1>2. QED
  BY <1>1, PoolInvariance, PTL

\* The page of a dirty frame exists, also after failed reads: a flush cannot fail.
THEOREM DirtyFramesHavePages == Spec => []DirtyPagesExist
<1>1. PoolInv => DirtyPagesExist
  BY PoolInvIs
<1>2. QED
  BY <1>1, PoolInvariance, PTL

\* When the callers that use a page are done, it has at most one pin for each
\* writer that raised there.
THEOREM NoPinLeaks == Spec => []PinsAreReturned
<1>1. PoolInv => PinsAreReturned
  BY PoolInvIs
<1>2. QED
  BY <1>1, PoolInvariance, PTL

\* A frame whose page changes is the one the replacer took, and it was not pinned.
LEMMA VictimNotPinned ==
  ASSUME PoolInv, NEW i, Victim(i), NEW g, frames' = PutFrame(i, g),
         NEW j \in DOMAIN frames, frames[j].pins > 0
  PROVE  frames'[j] = frames[j]
<1>1. /\ frames \in Seq(Frame) /\ DOMAIN frames = 1..Len(frames) /\ Len(frames) \in Nat
  BY Typing
<1>2. CASE i = Len(frames) + 1
  BY <1>1, <1>2 DEF PutFrame
<1>3. CASE i # Len(frames) + 1
  BY <1>1, <1>3 DEF PutFrame, Victim
<1>4. QED
  BY <1>2, <1>3

LEMMA GetPageKeepsPinned ==
  ASSUME PoolInv, NEW j \in DOMAIN frames, frames[j].pins > 0,
         NEW p \in PageIds, ReaderGets(p) \/ WriterUpdates(p) \/ WriterRaises(p)
  PROVE  frames'[j].page = frames[j].page
<1>1. ASSUME NEW i \in DOMAIN frames, Found(p, i), NEW g, g.page = frames[i].page,
             frames' = [frames EXCEPT ![i] = g]
      PROVE  frames'[j].page = frames[j].page
  BY <1>1
<1>2. ASSUME NEW i \in 1..MaxFrames, Victim(i), NEW g, frames' = PutFrame(i, g)
      PROVE  frames'[j].page = frames[j].page
  BY <1>2, VictimNotPinned
<1>3. \A i \in DOMAIN frames : /\ PinnedFrame(frames[i]) \in Frame
                               /\ PinnedFrame(frames[i]).page = frames[i].page
  BY PinnedFields, Typing
<1>4. CASE ReaderGets(p)
  BY <1>1, <1>2, <1>3, <1>4 DEF ReaderGets, HoldPage, GetPage
<1>5. CASE WriterUpdates(p)
  <2>1. PICK c \in Contents : UpdatePage(p, c)
    BY <1>5 DEF WriterUpdates
  <2>2. ASSUME NEW f \in Frame
        PROVE  UnpinnedFrame(WrittenFrame(f, c)).page = f.page
    <3> DEFINE w == WrittenFrame(f, c)
    <3>1. w \in Frame /\ w.page = f.page
      BY WrittenFields
    <3> HIDE DEF w
    <3>2. UnpinnedFrame(w).page = f.page
      BY <3>1, UnpinnedFields
    <3>3. QED
      BY <3>2 DEF w
  <2>3. QED
    BY <1>1, <1>2, <1>3, <2>1, <2>2 DEF UpdatePage, GetPage
<1>6. CASE WriterRaises(p)
  <2>1. PICK c \in Contents : BreakPage(p, c)
    BY <1>6 DEF WriterRaises
  <2>2. \A f \in Frame : [f EXCEPT !.content = c].page = f.page
    BY DEF Frame
  <2>3. QED
    <3>1. ASSUME NEW i \in DOMAIN frames, Found(p, i),
                 frames' = [frames EXCEPT ![i] = [PinnedFrame(frames[i]) EXCEPT !.content = c]]
          PROVE  frames'[j].page = frames[j].page
      <4> DEFINE g == [PinnedFrame(frames[i]) EXCEPT !.content = c]
      <4>1. g.page = frames[i].page /\ frames' = [frames EXCEPT ![i] = g]
        BY <1>3, <2>2, <3>1
      <4> HIDE DEF g
      <4>2. QED
        BY <1>1, <3>1, <4>1
    <3>2. QED
      BY <1>2, <2>1, <3>1 DEF BreakPage, GetPage
<1>7. QED
  BY <1>4, <1>5, <1>6

LEMMA MethodKeepsPages ==
  ASSUME PoolInv, NEW j \in DOMAIN frames, NEW p \in PageIds,
         \/ ReaderPins(p) \/ CallerMarksDirty(p) \/ SpareUnpin(p)
         \/ ReaderUnpins(p, TRUE) \/ ReaderUnpins(p, FALSE)
  PROVE  frames'[j].page = frames[j].page
<1>1. frames[j] \in Frame
  BY Typing
<1>2. ASSUME NEW b \in BOOLEAN
      PROVE  /\ DirtiedFrame(frames[j], b).page = frames[j].page
             /\ UnpinnedFrame(DirtiedFrame(frames[j], b)).page = frames[j].page
  BY <1>1, DirtiedFields, UnpinnedFields
<1>3. PinnedFrame(frames[j]).page = frames[j].page
  BY <1>1, PinnedFields
<1>4. CASE ReaderPins(p)
  BY <1>3, <1>4 DEF ReaderPins, PinPage, OnFrame
<1>5. CASE CallerMarksDirty(p)
  BY <1>2, <1>5 DEF CallerMarksDirty, MarkDirty, OnFrame
<1>6. ASSUME NEW b \in BOOLEAN, UnpinPage(p, b)
      PROVE  frames'[j].page = frames[j].page
  BY <1>2, <1>6 DEF UnpinPage, OnFrame
<1>7. QED
  BY Zenon, <1>4, <1>5, <1>6 DEF SpareUnpin, ReaderUnpins

\* Whatever get_page evicts, a pinned frame keeps its page until a restart.
THEOREM PinsProtectFrames == Spec => PinnedFrameStays
<1>1. ASSUME PoolInv, [Next]_vars, NEW j \in DOMAIN frames, frames[j].pins > 0,
             outcome' # "restarted"
      PROVE  frames'[j].page = frames[j].page
  <2>1. CASE UNCHANGED vars
    BY <2>1 DEF vars
  <2>2. ASSUME NEW p \in PageIds, GetFails(p)
        PROVE  frames'[j].page = frames[j].page
    <3>1. CASE PoolExhausted(p)
      BY <3>1 DEF PoolExhausted
    <3>2. CASE PageMissing(p)
      BY <1>1, <3>2, VictimNotPinned DEF PageMissing
    <3>3. QED
      BY Zenon, <2>2, <3>1, <3>2 DEF GetFails
  <2>3. CASE CallerAllocates
    BY <2>3 DEF CallerAllocates, GetNewPage
  <2>4. CASE CallerFlushes
    <3>1. frames[j] \in Frame
      BY <1>1, Typing
    <3>2. QED
      BY <1>1, <2>4, <3>1, FlushedFields DEF CallerFlushes, FlushDirty
  <2>5. CASE CrashesAndRestarts
    BY <1>1, <2>5 DEF CrashesAndRestarts
  <2>6. QED
    BY Zenon, <1>1, <2>1, <2>2, <2>3, <2>4, <2>5, GetPageKeepsPinned, MethodKeepsPages DEF Next
<1>2. PoolInv /\ [Next]_vars =>
        [\A i \in DOMAIN frames :
           frames[i].pins > 0 /\ outcome' # "restarted" => frames'[i].page = frames[i].page]_vars
  BY <1>1
<1>3. QED
  BY <1>2, PoolInvariance, PTL DEF Spec, PinnedFrameStays

------------------------------------------------------------------------------
(* The current content of a page *)

\* Found and Current over any list of frames.
FoundIn(fs, p, i) ==
  /\ i \in DOMAIN fs
  /\ fs[i].page = p
  /\ \A j \in 1..(i - 1) : fs[j].page # p

CurrentIn(fs, d, p) ==
  IF \E i \in DOMAIN fs : fs[i].page = p
  THEN fs[CHOOSE i \in DOMAIN fs : FoundIn(fs, p, i)].content ELSE d[p]

\* A page that is cached has the content of its frame, another one that of the disk.
LEMMA CurrentInIs ==
  ASSUME NEW fs, NEW n \in Nat, DOMAIN fs = 1..n, DistinctPages(fs), NEW d, NEW p \in PageIds
  PROVE  /\ \A i \in DOMAIN fs : fs[i].page = p => CurrentIn(fs, d, p) = fs[i].content
         /\ (\A i \in DOMAIN fs : fs[i].page # p) => CurrentIn(fs, d, p) = d[p]
<1>1. p # NoPage
  BY PoolAssumption DEF PageIds, NoPage
<1>2. ASSUME NEW i \in DOMAIN fs, fs[i].page = p
      PROVE  CurrentIn(fs, d, p) = fs[i].content
  <2>1. \A j \in DOMAIN fs : fs[j].page = p => j = i
    BY <1>1, <1>2 DEF DistinctPages
  <2>2. \A j \in 1..(i - 1) : j \in DOMAIN fs /\ j # i
    BY <1>2
  <2>3. FoundIn(fs, p, i)
    BY <1>2, <2>1, <2>2 DEF FoundIn
  <2>4. (CHOOSE k \in DOMAIN fs : FoundIn(fs, p, k)) = i
    BY <1>2, <2>1, <2>3 DEF FoundIn
  <2>5. QED
    BY <1>2, <2>4 DEF CurrentIn
<1>3. (\A i \in DOMAIN fs : fs[i].page # p) => CurrentIn(fs, d, p) = d[p]
  BY DEF CurrentIn
<1>4. QED
  BY <1>2, <1>3

LEMMA CurrentIs ==
  ASSUME PoolInv, NEW p \in PageIds
  PROVE  /\ \A i \in DOMAIN frames : frames[i].page = p => Current(p) = frames[i].content
         /\ (\A i \in DOMAIN frames : frames[i].page # p) => Current(p) = disk[p]
<1>1. Current(p) = CurrentIn(frames, disk, p)
  BY DEF Current, CurrentIn, Cached, Found, FoundIn
<1>2. DOMAIN frames = 1..Len(frames) /\ Len(frames) \in Nat /\ DistinctPages(frames)
  BY Typing
<1>3. QED
  BY <1>1, <1>2, CurrentInIs

------------------------------------------------------------------------------
(* A flush *)

\* After a flush no frame is dirty.
FlushInv == outcome = "flushed" => \A i \in DOMAIN frames : ~frames[i].dirty

LEMMA FlushInvStep ==
  ASSUME PoolInv, FlushInv, [Next]_vars
  PROVE  FlushInv'
<1>1. CASE UNCHANGED vars
  BY <1>1 DEF vars, FlushInv
<1>2. CASE CallerFlushes
  <2>1. frames' = [i \in DOMAIN frames |->
                     IF frames[i].dirty THEN FlushedFrame(frames[i]) ELSE frames[i]]
    BY <1>2 DEF CallerFlushes, FlushDirty
  <2>2. \A i \in DOMAIN frames : FlushedFrame(frames[i]).dirty = FALSE
    BY FlushedFields, Typing
  <2>3. QED
    BY <2>1, <2>2 DEF FlushInv
<1>3. ASSUME NEW p \in PageIds,
             \/ ReaderGets(p) \/ ReaderPins(p)
             \/ ReaderUnpins(p, TRUE) \/ ReaderUnpins(p, FALSE) \/ SpareUnpin(p)
             \/ WriterUpdates(p) \/ WriterRaises(p) \/ CallerMarksDirty(p)
             \/ GetFails(p)
      PROVE  outcome' # "flushed"
  BY Zenon, <1>3 DEF ReaderGets, ReaderPins, ReaderUnpins, SpareUnpin, WriterUpdates,
     WriterRaises, CallerMarksDirty, GetFails
<1>4. CallerAllocates \/ CrashesAndRestarts => outcome' # "flushed"
  BY DEF CallerAllocates, CrashesAndRestarts
<1>5. QED
  BY Zenon, <1>1, <1>2, <1>3, <1>4 DEF Next, FlushInv

\* When flush_dirty returns, every reader of a page, cached or not, sees what
\* the disk holds: only what writers that raised left unmarked is in memory only.
THEOREM FlushLeavesNothing == Spec => []FlushReachesDisk
<1>1. Init => FlushInv
  BY DEF Init, FlushInv
<1>2. PoolInv /\ FlushInv /\ [Next]_vars => FlushInv'
  BY FlushInvStep
<1>3. PoolInv /\ FlushInv => FlushReachesDisk
  <2> SUFFICES ASSUME PoolInv, FlushInv, outcome = "flushed", NEW p \in PageIds \ unmarked
               PROVE  Current(p) = disk[p]
    BY DEF FlushReachesDisk
  <2>1. ASSUME NEW i \in DOMAIN frames, frames[i].page = p
        PROVE  frames[i].content = disk[p]
    <3>1. ~frames[i].dirty /\ p # NoPage
      BY PoolAssumption DEF FlushInv, PageIds, NoPage
    <3>2. QED
      BY <2>1, <3>1, Typing DEF FrameOK
  <2>2. QED
    BY <2>1, CurrentIs
<1>4. QED
  BY <1>1, <1>2, <1>3, PoolInvariance, PTL DEF Spec

------------------------------------------------------------------------------
(* The file *)

\* Pages past the end of the file were never written, and the file has no page
\* that the page count does not count.
FileInv ==
  /\ \A p \in PageIds : disk[p] # ZeroPage => p < fileLen
  /\ fileLen <= numPages

\* Pages that exist are written: the file grows with them, never past the count.
LEMMA FileGrows ==
  ASSUME PoolInv, FileInv, NEW fs \in Seq(Frame), WriteFrames(fs),
         \A i \in DOMAIN fs : fs[i].dirty => fs[i].page \in PageIds /\ fs[i].page < numPages
  PROVE  /\ \A p \in PageIds : disk'[p] # ZeroPage => p < fileLen'
         /\ fileLen' <= numPages
<1>1. /\ fileLen' \in fileLen..MaxPages
      /\ \A p \in DirtyPages(fs) : p < fileLen'
      /\ fileLen' = fileLen \/ fileLen' - 1 \in DirtyPages(fs)
  BY DEF WriteFrames
<1>2. \A p \in DirtyPages(fs) : p \in PageIds /\ p < numPages
  BY DEF DirtyPages
<1>3. /\ fileLen \in Nat /\ numPages \in Nat /\ fileLen' \in Nat /\ fileLen <= fileLen'
      /\ PageIds \subseteq Nat
  BY <1>1, Typing DEF PageIds
<1>4. \A p \in PageIds : p \notin DirtyPages(fs) => disk'[p] = disk[p]
  BY DEF WriteFrames
<1>5. \A p \in PageIds : disk'[p] # ZeroPage => p < fileLen'
  BY <1>1, <1>3, <1>4 DEF FileInv
<1>6. fileLen' <= numPages
  BY <1>1, <1>2, <1>3 DEF FileInv
<1>7. QED
  BY <1>5, <1>6

\* The frame that is replaced is written the same way.
LEMMA VictimGrows ==
  ASSUME PoolInv, FileInv, NEW i, Victim(i), FlushVictim(i), numPages' = numPages
  PROVE  FileInv'
<1>1. CASE i \in DOMAIN frames
  <2> DEFINE fs == <<frames[i]>>
  <2>1. fs \in Seq(Frame) /\ DOMAIN fs = {1} /\ fs[1] = frames[i]
    BY <1>1, Typing
  <2>2. frames[i].dirty => frames[i].page \in PageIds /\ frames[i].page < numPages
    BY <1>1, Typing DEF FrameOK, Frame
  <2>3. WriteFrames(fs)
    BY <1>1 DEF FlushVictim
  <2> HIDE DEF fs
  <2>4. QED
    BY <2>1, <2>2, <2>3, FileGrows DEF FileInv
<1>2. CASE i \notin DOMAIN frames
  BY <1>2 DEF FlushVictim, FileInv
<1>3. QED
  BY <1>1, <1>2

LEMMA FileInvStep ==
  ASSUME PoolInv, FileInv, [Next]_vars
  PROVE  FileInv'
<1>1. CASE UNCHANGED vars
  BY <1>1 DEF vars, FileInv
<1>2. ASSUME UNCHANGED <<disk, fileLen, numPages>>
      PROVE  FileInv'
  BY <1>2 DEF FileInv
<1>3. ASSUME NEW p \in PageIds, ReaderGets(p) \/ WriterUpdates(p) \/ WriterRaises(p)
      PROVE  FileInv'
  <2>1. \/ UNCHANGED <<disk, fileLen, numPages>>
        \/ \E i \in 1..MaxFrames : Victim(i) /\ FlushVictim(i) /\ numPages' = numPages
    BY Zenon, <1>3 DEF ReaderGets, WriterUpdates, WriterRaises, HoldPage,
       UpdatePage, BreakPage, GetPage
  <2>2. QED
    BY <1>2, <2>1, VictimGrows
<1>4. ASSUME NEW p \in PageIds,
             \/ ReaderPins(p) \/ ReaderUnpins(p, TRUE) \/ ReaderUnpins(p, FALSE)
             \/ SpareUnpin(p) \/ CallerMarksDirty(p)
      PROVE  UNCHANGED <<disk, fileLen, numPages>>
  BY Zenon, <1>4 DEF ReaderPins, ReaderUnpins, SpareUnpin, CallerMarksDirty,
     PinPage, UnpinPage, MarkDirty, OnFrame
<1>5. ASSUME NEW p \in PageIds, GetFails(p)
      PROVE  FileInv'
  <2>1. \/ UNCHANGED <<disk, fileLen, numPages>>
        \/ \E i \in 1..MaxFrames : Victim(i) /\ FlushVictim(i) /\ numPages' = numPages
    BY Zenon, <1>5 DEF GetFails, PoolExhausted, PageMissing
  <2>2. QED
    BY <1>2, <2>1, VictimGrows
<1>6. CASE CallerAllocates
  BY <1>6, Typing DEF CallerAllocates, GetNewPage, FileInv
<1>7. CASE CallerFlushes
  <2>1. WriteFrames(frames) /\ numPages' = numPages /\ frames \in Seq(Frame)
    BY <1>7, Typing DEF CallerFlushes, FlushDirty
  <2>2. \A i \in DOMAIN frames :
          frames[i].dirty => frames[i].page \in PageIds /\ frames[i].page < numPages
    BY Typing DEF FrameOK, Frame
  <2>3. QED
    BY <2>1, <2>2, FileGrows DEF FileInv
<1>8. CASE CrashesAndRestarts
  <2>1. PICK k \in 0..Len(frames) : CrashAfter(k)
    BY <1>8 DEF CrashesAndRestarts
  <2> DEFINE fs == SubSeq(frames, 1, k)
  <2>2. WriteFrames(fs) /\ numPages' = fileLen'
    BY <2>1 DEF CrashAfter
  <2>3. /\ fs \in Seq(Frame)
        /\ \A i \in DOMAIN fs : i \in DOMAIN frames /\ fs[i] = frames[i]
    BY <2>1, SeqPrefix, Typing
  <2> HIDE DEF fs
  <2>4. \A i \in DOMAIN fs : fs[i].dirty => fs[i].page \in PageIds /\ fs[i].page < numPages
    BY <2>3, Typing DEF FrameOK, Frame
  <2>5. \A p \in PageIds : disk'[p] # ZeroPage => p < fileLen'
    BY <2>2, <2>3, <2>4, FileGrows
  <2>6. fileLen' <= numPages'
    BY <2>2, <2>3, PoolInvStep, Typing DEF WriteFrames
  <2>7. QED
    BY <2>5, <2>6 DEF FileInv
<1>9. QED
  BY Zenon, <1>1, <1>2, <1>3, <1>4, <1>5, <1>6, <1>7, <1>8 DEF Next

\* After a restart the page count is the length of the file.
CountInv == outcome = "restarted" => numPages = fileLen

LEMMA CountInvStep ==
  ASSUME CountInv, [Next]_vars
  PROVE  CountInv'
<1>1. CASE UNCHANGED vars
  BY <1>1 DEF vars, CountInv
<1>2. ASSUME NEW p \in PageIds,
             \/ ReaderGets(p) \/ ReaderPins(p)
             \/ ReaderUnpins(p, TRUE) \/ ReaderUnpins(p, FALSE) \/ SpareUnpin(p)
             \/ WriterUpdates(p) \/ WriterRaises(p) \/ CallerMarksDirty(p)
             \/ GetFails(p)
      PROVE  outcome' # "restarted"
  BY Zenon, <1>2 DEF ReaderGets, ReaderPins, ReaderUnpins, SpareUnpin, WriterUpdates,
     WriterRaises, CallerMarksDirty, GetFails
<1>3. CallerAllocates \/ CallerFlushes => outcome' # "restarted"
  BY DEF CallerAllocates, CallerFlushes
<1>4. CrashesAndRestarts => numPages' = fileLen'
  BY DEF CrashesAndRestarts, CrashAfter
<1>5. QED
  BY Zenon, <1>1, <1>2, <1>3, <1>4 DEF Next, CountInv

\* A restart counts exactly the pages of the file, every page that was ever
\* written to is among them, and so is the page of every dirty frame once it is
\* written: no flushed page becomes unreadable.
THEOREM RestartReadsFile == Spec => []RestartSeesFile
<1>1. Init => FileInv /\ CountInv
  <2> SUFFICES ASSUME Init PROVE FileInv /\ CountInv
    OBVIOUS
  <2> DEFINE pages == <<ZeroPage>>
  <2>1. /\ Len(pages) = 1 /\ pages[1] = ZeroPage
        /\ disk = [p \in PageIds |-> IF p < Len(pages) THEN pages[p + 1] ELSE ZeroPage]
        /\ fileLen = Len(pages) /\ numPages = Len(pages)
    BY DEF Init, PoolInit
  <2> HIDE DEF pages
  <2>2. \A p \in PageIds : disk[p] = ZeroPage
    BY <2>1 DEF PageIds
  <2>3. QED
    BY <2>1, <2>2 DEF FileInv, CountInv
<1>2. PoolInv /\ FileInv /\ [Next]_vars => FileInv'
  BY FileInvStep
<1>3. CountInv /\ [Next]_vars => CountInv'
  BY CountInvStep
<1>4. FileInv /\ CountInv => RestartSeesFile
  BY DEF FileInv, CountInv, RestartSeesFile
<1>5. QED
  BY <1>1, <1>2, <1>3, <1>4, PoolInvariance, PTL DEF Spec

------------------------------------------------------------------------------
(* The page store: what a step writes *)

\* An unmarked page is in a clean frame, so no dirty frame contains it.
LEMMA DirtyNotUnmarked ==
  ASSUME PoolInv, NEW i \in DOMAIN frames, frames[i].dirty
  PROVE  frames[i].page \in PageIds \ unmarked
<1>1. frames[i].page \in PageIds /\ frames[i].page # NoPage
  BY Typing DEF FrameOK, Frame
<1>2. ASSUME frames[i].page \in unmarked
      PROVE  FALSE
  <2>1. PICK j \in DOMAIN frames : frames[j].page = frames[i].page /\ ~frames[j].dirty
    BY <1>2 DEF PoolInv, UnmarkedCached
  <2>2. i = j
    BY <1>1, <2>1, Typing DEF DistinctPages
  <2>3. QED
    BY <2>1, <2>2
<1>3. QED
  BY <1>1, <1>2

\* Writing some of the frames writes pages back as the page store does.
LEMMA FramesWrittenBack ==
  ASSUME PoolInv, NEW fs, WriteFrames(fs),
         \A k \in DOMAIN fs : \E i \in DOMAIN frames : fs[k] = frames[i]
  PROVE  Store!SomeWrittenBack
<1> DEFINE P == DirtyPages(fs)
           Chosen(p) == CHOOSE k \in DOMAIN fs : fs[k].page = p /\ fs[k].dirty
<1>1. \A p \in P : /\ Chosen(p) \in DOMAIN fs /\ fs[Chosen(p)].page = p
                   /\ fs[Chosen(p)].dirty
  BY DEF DirtyPages
<1>2. disk' = [p \in PageIds |-> IF p \in P THEN fs[Chosen(p)].content ELSE disk[p]]
  BY DEF WriteFrames
<1>3. ASSUME NEW p \in P
      PROVE  p \in PageIds \ unmarked
  <2>1. PICK k \in DOMAIN fs : fs[k].page = p /\ fs[k].dirty
    BY <1>3 DEF DirtyPages
  <2>2. PICK i \in DOMAIN frames : fs[k] = frames[i]
    BY <2>1
  <2>3. QED
    BY <2>1, <2>2, DirtyNotUnmarked
<1> HIDE DEF Chosen, P
<1>4. \A p \in P : p \in PageIds /\ fs[Chosen(p)].content = Current(p)
  BY <1>1, <1>3, CurrentIs
<1>5. disk' = [p \in PageIds |-> IF p \in P THEN Current(p) ELSE disk[p]]
  BY <1>2, <1>4
<1>6. disk' = Store!WrittenBack(P)
  BY <1>5 DEF Store!WrittenBack
<1>7. P \in SUBSET (PageIds \ unmarked)
  BY <1>3
<1>8. QED
  BY <1>6, <1>7 DEF Store!SomeWrittenBack

LEMMA DiskKeptWrittenBack ==
  ASSUME PoolInv, disk' = disk
  PROVE  Store!SomeWrittenBack
<1>1. disk = [p \in PageIds |-> disk[p]]
  BY Typing
<1>2. disk' = Store!WrittenBack({})
  BY <1>1 DEF Store!WrittenBack
<1>3. QED
  BY <1>2 DEF Store!SomeWrittenBack

LEMMA VictimWrittenBack ==
  ASSUME PoolInv, NEW i, Victim(i), FlushVictim(i)
  PROVE  Store!SomeWrittenBack
<1>1. CASE i \in DOMAIN frames
  <2> DEFINE fs == <<frames[i]>>
  <2>1. DOMAIN fs = {1} /\ fs[1] = frames[i] /\ WriteFrames(fs)
    BY <1>1 DEF FlushVictim
  <2> HIDE DEF fs
  <2>2. QED
    BY <1>1, <2>1, FramesWrittenBack
<1>2. CASE i \notin DOMAIN frames
  BY <1>2, DiskKeptWrittenBack DEF FlushVictim
<1>3. QED
  BY <1>1, <1>2

------------------------------------------------------------------------------
(* The page store: what a reader sees after a step *)

LEMMA CurrentNext ==
  ASSUME PoolInv', NEW p \in PageIds
  PROVE  /\ \A i \in DOMAIN frames' : frames'[i].page = p => Current(p)' = frames'[i].content
         /\ (\A i \in DOMAIN frames' : frames'[i].page # p) => Current(p)' = disk'[p]
<1>1. Current(p)' = CurrentIn(frames', disk', p)
  BY DEF Current, CurrentIn, Cached, Found, FoundIn
<1>2. frames' \in Seq(Frame) /\ DistinctPages(frames')
  BY DEF PoolInv, TypeOK, PoolTypeOK, FramesOK
<1>3. DOMAIN frames' = 1..Len(frames') /\ Len(frames') \in Nat
  BY <1>2, SeqElements
<1>4. QED
  BY <1>1, <1>2, <1>3, CurrentInIs

\* Frames that keep their pages and contents.
LEMMA ContentsKept ==
  ASSUME PoolInv, PoolInv', DOMAIN frames' = DOMAIN frames,
         \A i \in DOMAIN frames :
           frames'[i].page = frames[i].page /\ frames'[i].content = frames[i].content,
         \A q \in PageIds : (\A i \in DOMAIN frames : frames[i].page # q) => disk'[q] = disk[q],
         NEW p \in PageIds
  PROVE  Current(p)' = Current(p)
<1>1. CASE \E i \in DOMAIN frames : frames[i].page = p
  BY <1>1, CurrentIs, CurrentNext
<1>2. CASE \A i \in DOMAIN frames : frames[i].page # p
  BY <1>2, CurrentIs, CurrentNext
<1>3. QED
  BY <1>1, <1>2

\* A cached page gets a new content.
LEMMA HitWrites ==
  ASSUME PoolInv, PoolInv', NEW p \in PageIds, NEW i \in DOMAIN frames, frames[i].page = p,
         NEW g \in Frame, frames' = [frames EXCEPT ![i] = g], g.page = p, disk' = disk,
         NEW q \in PageIds
  PROVE  Current(q)' = IF q = p THEN g.content ELSE Current(q)
<1>1. /\ DOMAIN frames' = DOMAIN frames /\ frames'[i] = g
      /\ \A j \in DOMAIN frames : j # i => frames'[j] = frames[j]
  OBVIOUS
<1>2. CASE q = p
  BY <1>1, <1>2, CurrentNext
<1>3. CASE q # p
  <2>1. CASE \E j \in DOMAIN frames : frames[j].page = q
    BY <1>1, <1>3, <2>1, CurrentIs, CurrentNext
  <2>2. CASE \A j \in DOMAIN frames : frames[j].page # q
    BY <1>1, <1>3, <2>2, CurrentIs, CurrentNext
  <2>3. QED
    BY <2>1, <2>2
<1>4. QED
  BY <1>2, <1>3

\* The unmarked pages that go when frame i is replaced: one at most.
LostBy(i) == {q \in unmarked : i \in DOMAIN frames /\ frames[i].page = q}

\* A page is read into the frame of a victim, whose own page is then as it is
\* on the disk: the same as before unless it was left unmarked.
LEMMA MissWrites ==
  ASSUME PoolInv, PoolInv', NEW p \in PageIds, NEW i, Victim(i), FlushVictim(i), ~Cached(p),
         NEW g \in Frame, frames' = PutFrame(i, g), g.page = p,
         NEW q \in PageIds
  PROVE  Current(q)' = IF q = p THEN g.content
                       ELSE IF q \in LostBy(i) THEN disk[q] ELSE Current(q)
<1>1. /\ DOMAIN frames \subseteq DOMAIN frames'
      /\ \A j \in DOMAIN frames' : frames'[j] = IF j = i THEN g ELSE frames[j]
      /\ \A j \in DOMAIN frames' : j # i => j \in DOMAIN frames
  BY PutFrameEffect DEF PoolInv
<1>2. i \in DOMAIN frames'
  BY Typing, SeqElements, PoolAssumption DEF Victim, PutFrame
<1>3. CASE q = p
  BY <1>1, <1>2, <1>3, CurrentNext
<1>4. CASE q # p /\ \E j \in DOMAIN frames : j # i /\ frames[j].page = q
  <2>1. PICK j \in DOMAIN frames : j # i /\ frames[j].page = q
    BY <1>4
  <2>2. q # NoPage
    BY PoolAssumption DEF PageIds, NoPage
  <2>3. q \notin LostBy(i)
    BY <2>1, <2>2, Typing DEF LostBy, DistinctPages
  <2>4. j \in DOMAIN frames' /\ frames'[j] = frames[j]
    BY <1>1, <2>1
  <2>5. QED
    BY <1>4, <2>1, <2>3, <2>4, CurrentIs, CurrentNext
<1>5. CASE q # p /\ \A j \in DOMAIN frames : j # i => frames[j].page # q
  <2>1. Current(q)' = disk'[q]
    BY <1>1, <1>5, CurrentNext
  <2>2. CASE i \in DOMAIN frames /\ frames[i].page = q
    <3>1. q # NoPage
      BY PoolAssumption DEF PageIds, NoPage
    <3>2. CASE q \in unmarked
      <4>1. ~frames[i].dirty
        BY <2>2, <3>2, DirtyNotUnmarked
      <4>2. disk'[q] = disk[q]
        BY <2>2, <3>1, <4>1, VictimFlushed
      <4>3. QED
        BY <1>5, <2>1, <2>2, <3>2, <4>2 DEF LostBy
    <3>3. CASE q \notin unmarked
      <4>1. disk'[q] = frames[i].content
        BY <2>2, <3>1, <3>3, VictimFlushed
      <4>2. q \notin LostBy(i)
        BY <3>3 DEF LostBy
      <4>3. QED
        BY <1>5, <2>1, <2>2, <4>1, <4>2, CurrentIs
    <3>4. QED
      BY <3>2, <3>3
  <2>3. CASE \A j \in DOMAIN frames : frames[j].page # q
    <3>1. q \notin LostBy(i)
      BY <2>3 DEF LostBy
    <3>2. QED
      BY <1>5, <2>1, <2>3, <3>1, CurrentIs, UncachedKept DEF Cached
  <2>4. QED
    BY <1>5, <2>2, <2>3
<1>6. QED
  BY <1>3, <1>4, <1>5

------------------------------------------------------------------------------
(* The page store: which pages stay unmarked *)

\* Frames that keep their pages, and are not marked.
LEMMA MarksKept ==
  ASSUME PoolInv, unmarked' = StillUnmarked(unmarked), DOMAIN frames' = DOMAIN frames,
         \A i \in DOMAIN frames : frames'[i].page = frames[i].page
                                  /\ (~frames[i].dirty => ~frames'[i].dirty)
  PROVE  unmarked' = unmarked
<1>1. \A q \in unmarked : \E i \in DOMAIN frames' : frames'[i].page = q /\ ~frames'[i].dirty
  BY DEF PoolInv, UnmarkedCached
<1>2. QED
  BY <1>1 DEF StillUnmarked

\* The frame of p may change, the others stay.
LEMMA HitMarks ==
  ASSUME PoolInv, NEW p \in PageIds, NEW i \in DOMAIN frames, frames[i].page = p,
         NEW g \in Frame, frames' = [frames EXCEPT ![i] = g], g.page = p,
         NEW S, S = unmarked \/ S = unmarked \cup {p}, unmarked' = StillUnmarked(S)
  PROVE  unmarked' = IF p \in S /\ ~g.dirty THEN S ELSE unmarked \ {p}
<1>1. /\ DOMAIN frames' = DOMAIN frames /\ frames'[i] = g
      /\ \A j \in DOMAIN frames : j # i => frames'[j] = frames[j]
  OBVIOUS
<1>2. p # NoPage /\ DistinctPages(frames)
  BY PoolAssumption, Typing DEF PageIds, NoPage
<1>3. \A q \in unmarked : q # p => \E j \in DOMAIN frames' : frames'[j].page = q /\ ~frames'[j].dirty
  <2> SUFFICES ASSUME NEW q \in unmarked, q # p
               PROVE  \E j \in DOMAIN frames' : frames'[j].page = q /\ ~frames'[j].dirty
    OBVIOUS
  <2>1. PICK j \in DOMAIN frames : frames[j].page = q /\ ~frames[j].dirty
    BY DEF PoolInv, UnmarkedCached
  <2>2. j # i
    BY <2>1
  <2>3. QED
    BY <1>1, <2>1, <2>2
<1>4. \A j \in DOMAIN frames' : frames'[j].page = p => j = i
  BY <1>1, <1>2 DEF DistinctPages
<1>5. (\E j \in DOMAIN frames' : frames'[j].page = p /\ ~frames'[j].dirty) <=> ~g.dirty
  BY <1>1, <1>4
<1>6. QED
  BY <1>3, <1>5 DEF StillUnmarked

\* The victim's page goes, and p comes.
LEMMA MissMarks ==
  ASSUME PoolInv, NEW p \in PageIds, NEW i, Victim(i), ~Cached(p),
         NEW g \in Frame, frames' = PutFrame(i, g), g.page = p,
         NEW S, S = unmarked \/ S = unmarked \cup {p}, unmarked' = StillUnmarked(S)
  PROVE  /\ p \notin unmarked
         /\ unmarked' = IF p \in S /\ ~g.dirty THEN (unmarked \ LostBy(i)) \cup {p}
                        ELSE unmarked \ LostBy(i)
<1>1. /\ DOMAIN frames \subseteq DOMAIN frames'
      /\ \A j \in DOMAIN frames' : frames'[j] = IF j = i THEN g ELSE frames[j]
      /\ \A j \in DOMAIN frames' : j # i => j \in DOMAIN frames
  BY PutFrameEffect DEF PoolInv
<1>2. i \in DOMAIN frames'
  BY Typing, SeqElements, PoolAssumption DEF Victim, PutFrame
<1>3. p \notin unmarked
  BY DEF PoolInv, UnmarkedCached, Cached
<1>4. \A j \in DOMAIN frames' : frames'[j].page = p <=> j = i
  BY <1>1, <1>2 DEF Cached
<1>5. (\E j \in DOMAIN frames' : frames'[j].page = p /\ ~frames'[j].dirty) <=> ~g.dirty
  BY <1>1, <1>2, <1>4
<1>6. ASSUME NEW q \in unmarked
      PROVE  (\E j \in DOMAIN frames' : frames'[j].page = q /\ ~frames'[j].dirty)
               <=> q \notin LostBy(i)
  <2>1. PICK j \in DOMAIN frames : frames[j].page = q /\ ~frames[j].dirty
    BY DEF PoolInv, UnmarkedCached
  <2>2. q # p /\ q # NoPage
    BY <1>3, Typing DEF PageIds, NoPage
  <2>3. CASE j = i
    <3>1. q \in LostBy(i)
      BY <2>1, <2>3 DEF LostBy
    <3>2. \A k \in DOMAIN frames' : frames'[k].page # q
      BY <1>1, <2>1, <2>2, <2>3, Typing DEF DistinctPages
    <3>3. QED
      BY <3>1, <3>2
  <2>4. CASE j # i
    <3>1. j \in DOMAIN frames' /\ frames'[j] = frames[j]
      BY <1>1, <2>1, <2>4
    <3>2. q \notin LostBy(i)
      BY <2>1, <2>2, <2>4, Typing DEF LostBy, DistinctPages
    <3>3. QED
      BY <2>1, <3>1, <3>2
  <2>5. QED
    BY <2>3, <2>4
<1>7. unmarked' = {q \in S : \E j \in DOMAIN frames' : frames'[j].page = q /\ ~frames'[j].dirty}
  BY DEF StillUnmarked
<1>8. LostBy(i) \subseteq unmarked
  BY DEF LostBy
<1>9. ASSUME NEW q
      PROVE  q \in unmarked' <=> q \in (IF p \in S /\ ~g.dirty THEN (unmarked \ LostBy(i)) \cup {p}
                                        ELSE unmarked \ LostBy(i))
  BY <1>3, <1>5, <1>6, <1>7, <1>8
<1>10. QED
  BY <1>3, <1>9

------------------------------------------------------------------------------
(* The page store: one lemma for each kind of action *)

LEMMA BackStep ==
  ASSUME Store!SomeWrittenBack, NEW L \in SUBSET unmarked, unmarked' = unmarked \ L,
         \A q \in PageIds : Current(q)' = IF q \in L THEN disk[q] ELSE Current(q)
  PROVE  Store!WriteBack
<1>1. [q \in PageIds |-> Current(q)]' = [q \in PageIds |-> IF q \in L THEN disk[q] ELSE Current(q)]
  OBVIOUS
<1>2. [q \in PageIds |-> Current(q)]' = Store!FallenBack(L)
  BY <1>1 DEF Store!FallenBack
<1>3. QED
  BY <1>2 DEF Store!WriteBack

LEMMA WriteStep ==
  ASSUME Store!SomeWrittenBack, NEW p \in PageIds, NEW c \in Contents,
         NEW L \in SUBSET unmarked,
         \/ unmarked' = unmarked \ (L \cup {p})
         \/ unmarked' = (unmarked \ L) \cup {p},
         \A q \in PageIds : Current(q)' = IF q = p THEN c
                                          ELSE IF q \in L THEN disk[q] ELSE Current(q)
  PROVE  Store!Write \/ Store!HalfWrite
<1>1. Store!FallenBack(L) = [q \in PageIds |-> IF q \in L THEN disk[q] ELSE Current(q)]
  BY DEF Store!FallenBack
<1>2. [q \in PageIds |-> Current(q)]' = [Store!FallenBack(L) EXCEPT ![p] = c]
  BY <1>1
<1>3. CASE unmarked' = unmarked \ (L \cup {p})
  BY <1>2, <1>3 DEF Store!Write
<1>4. CASE unmarked' = (unmarked \ L) \cup {p}
  BY <1>2, <1>4 DEF Store!HalfWrite
<1>5. QED
  BY <1>3, <1>4

\* A writer, raising or not, finds p in frame i and leaves it as g.
LEMMA HitStores ==
  ASSUME PoolInv, PoolInv', NEW p \in PageIds, NEW i \in DOMAIN frames, frames[i].page = p,
         NEW g \in Frame, frames' = [frames EXCEPT ![i] = g], g.page = p, disk' = disk,
         NEW S, S = unmarked \/ S = unmarked \cup {p}, unmarked' = StillUnmarked(S),
         g.dirty \/ p \in S
  PROVE  Store!Write \/ Store!HalfWrite
<1>1. \A q \in PageIds : Current(q)' = IF q = p THEN g.content ELSE Current(q)
  BY HitWrites
<1>2. unmarked' = IF p \in S /\ ~g.dirty THEN S ELSE unmarked \ {p}
  BY HitMarks
<1>3. unmarked' = unmarked \ ({} \cup {p}) \/ unmarked' = (unmarked \ {}) \cup {p}
  BY <1>2
<1>4. g.content \in Contents /\ Store!SomeWrittenBack
  BY DiskKeptWrittenBack DEF Frame
<1> DEFINE L == {}
<1>5. /\ L \in SUBSET unmarked
      /\ unmarked' = unmarked \ (L \cup {p}) \/ unmarked' = (unmarked \ L) \cup {p}
      /\ \A q \in PageIds : Current(q)' = IF q = p THEN g.content
                                          ELSE IF q \in L THEN disk[q] ELSE Current(q)
  BY <1>1, <1>3
<1> HIDE DEF L
<1>6. QED
  BY <1>4, <1>5, WriteStep

\* A writer, raising or not, reads p into frame i and leaves it as g.
LEMMA MissStores ==
  ASSUME PoolInv, PoolInv', NEW p \in PageIds, NEW i, Victim(i), FlushVictim(i), ~Cached(p),
         NEW g \in Frame, frames' = PutFrame(i, g), g.page = p,
         NEW S, S = unmarked \/ S = unmarked \cup {p}, unmarked' = StillUnmarked(S),
         g.dirty \/ p \in S
  PROVE  Store!Write \/ Store!HalfWrite
<1> DEFINE L == LostBy(i)
<1>1. \A q \in PageIds : Current(q)' = IF q = p THEN g.content
                                       ELSE IF q \in L THEN disk[q] ELSE Current(q)
  BY MissWrites
<1>2. /\ p \notin unmarked
      /\ unmarked' = IF p \in S /\ ~g.dirty THEN (unmarked \ L) \cup {p} ELSE unmarked \ L
  BY MissMarks
<1>3. L \in SUBSET unmarked
  BY DEF LostBy
<1> HIDE DEF L
<1>4. unmarked' = unmarked \ (L \cup {p}) \/ unmarked' = (unmarked \ L) \cup {p}
  BY <1>2
<1>5. g.content \in Contents /\ Store!SomeWrittenBack
  BY VictimWrittenBack DEF Frame
<1>6. QED
  BY <1>1, <1>3, <1>4, <1>5, WriteStep

\* Frames that keep their pages and contents, over a disk that is left alone.
LEMMA QuietContents ==
  ASSUME PoolInv, PoolInv', DOMAIN frames' = DOMAIN frames, disk' = disk,
         \A i \in DOMAIN frames :
           frames'[i].page = frames[i].page /\ frames'[i].content = frames[i].content
  PROVE  /\ Store!SomeWrittenBack
         /\ \A q \in PageIds : Current(q)' = Current(q)
<1>1. \A q \in PageIds : Current(q)' = Current(q)
  BY ContentsKept
<1>2. QED
  BY <1>1, DiskKeptWrittenBack

\* The same when no frame is marked either.
LEMMA QuietStores ==
  ASSUME PoolInv, PoolInv', DOMAIN frames' = DOMAIN frames, disk' = disk,
         \A i \in DOMAIN frames :
           /\ frames'[i].page = frames[i].page /\ frames'[i].content = frames[i].content
           /\ (~frames[i].dirty => ~frames'[i].dirty),
         unmarked' = StillUnmarked(unmarked)
  PROVE  Store!WriteBack
<1>1. Store!SomeWrittenBack /\ \A q \in PageIds : Current(q)' = Current(q)
  BY QuietContents
<1>2. unmarked' = unmarked
  BY MarksKept
<1> DEFINE L == {}
<1>3. /\ L \in SUBSET unmarked /\ unmarked' = unmarked \ L
      /\ \A q \in PageIds : Current(q)' = IF q \in L THEN disk[q] ELSE Current(q)
  BY <1>1, <1>2
<1> HIDE DEF L
<1>4. QED
  BY <1>1, <1>3, BackStep

\* The frame of p alone is marked, if any is.
LEMMA MarkingStores ==
  ASSUME PoolInv, PoolInv', NEW p \in PageIds, disk' = disk, NEW G,
         frames' = [i \in DOMAIN frames |-> IF Found(p, i) THEN G[i] ELSE frames[i]],
         \A i \in DOMAIN frames :
           G[i].page = frames[i].page /\ G[i].content = frames[i].content,
         unmarked' = StillUnmarked(unmarked)
  PROVE  Store!WriteBack \/ Store!Mark
<1>1. /\ DOMAIN frames' = DOMAIN frames
      /\ \A i \in DOMAIN frames :
           /\ frames'[i].page = frames[i].page /\ frames'[i].content = frames[i].content
           /\ frames[i].page # p => frames'[i] = frames[i]
  BY DEF Found
<1>2. Store!SomeWrittenBack /\ \A q \in PageIds : Current(q)' = Current(q)
  BY <1>1, QuietContents
<1>3. \A q \in unmarked : q # p => \E i \in DOMAIN frames' : frames'[i].page = q /\ ~frames'[i].dirty
  BY <1>1 DEF PoolInv, UnmarkedCached
<1>4. unmarked' = unmarked \/ (p \in unmarked /\ unmarked' = unmarked \ {p})
  BY <1>3 DEF StillUnmarked
<1>5. CASE unmarked' = unmarked
  <2> DEFINE L == {}
  <2>1. /\ L \in SUBSET unmarked /\ unmarked' = unmarked \ L
        /\ \A q \in PageIds : Current(q)' = IF q \in L THEN disk[q] ELSE Current(q)
    BY <1>2, <1>5
  <2> HIDE DEF L
  <2>2. QED
    BY <1>2, <2>1, BackStep
<1>6. CASE p \in unmarked /\ unmarked' = unmarked \ {p}
  <2>1. [q \in PageIds |-> Current(q)]' = [q \in PageIds |-> Current(q)]
    BY <1>2
  <2>2. QED
    BY <1>6, <2>1 DEF Store!Mark
<1>7. QED
  BY <1>4, <1>5, <1>6

\* get_page gives a reader the bytes it would have seen before.
LEMMA ReaderGetsStores ==
  ASSUME PoolInv, PoolInv', NEW p \in PageIds, ReaderGets(p)
  PROVE  Store!WriteBack
<1>0. unmarked' = StillUnmarked(unmarked)
  BY DEF ReaderGets, NobodyRaises
<1>1. ASSUME NEW i \in DOMAIN frames, Found(p, i),
             frames' = [frames EXCEPT ![i] = PinnedFrame(frames[i])], disk' = disk
      PROVE  Store!WriteBack
  <2>1. \A k \in DOMAIN frames : /\ PinnedFrame(frames[k]).page = frames[k].page
                                 /\ PinnedFrame(frames[k]).content = frames[k].content
                                 /\ PinnedFrame(frames[k]).dirty = frames[k].dirty
    BY PinnedFields, Typing
  <2>2. /\ DOMAIN frames' = DOMAIN frames
        /\ \A k \in DOMAIN frames : /\ frames'[k].page = frames[k].page
                                    /\ frames'[k].content = frames[k].content
                                    /\ (~frames[k].dirty => ~frames'[k].dirty)
    BY <1>1, <2>1
  <2>3. QED
    BY <1>0, <1>1, <2>2, QuietStores
<1>2. ASSUME NEW i \in 1..MaxFrames, ~Cached(p), Victim(i), FlushVictim(i),
             frames' = PutFrame(i, [page |-> p, content |-> disk[p], dirty |-> FALSE, pins |-> 1])
      PROVE  Store!WriteBack
  <2> DEFINE g == [page |-> p, content |-> disk[p], dirty |-> FALSE, pins |-> 1]
             L == LostBy(i)
  <2>1. g \in Frame /\ g.page = p /\ g.content = disk[p]
    BY Typing DEF Frame
  <2>2. frames' = PutFrame(i, g)
    BY <1>2
  <2> HIDE DEF g
  <2>3. ASSUME NEW q \in PageIds
        PROVE  Current(q)' = IF q = p THEN g.content
                             ELSE IF q \in L THEN disk[q] ELSE Current(q)
    <3>1. g \in Frame /\ g.page = p /\ Victim(i) /\ FlushVictim(i) /\ ~Cached(p)
      BY <1>2, <2>1
    <3>2. QED
      BY <2>2, <3>1, MissWrites
  <2>4. p \notin unmarked /\ unmarked' = unmarked \ L
    BY <1>0, <1>2, <2>1, <2>2, MissMarks
  <2>5. L \in SUBSET unmarked
    BY DEF LostBy
  <2> HIDE DEF L
  <2>6. g.content = Current(p)
    BY <1>2, <2>1, CurrentIs DEF Cached
  <2>7. \A q \in PageIds : Current(q)' = IF q \in L THEN disk[q] ELSE Current(q)
    BY <2>3, <2>4, <2>5, <2>6
  <2>8. Store!SomeWrittenBack
    BY <1>2, VictimWrittenBack
  <2>9. QED
    BY <2>4, <2>5, <2>7, <2>8, BackStep
<1>3. QED
  BY <1>1, <1>2 DEF ReaderGets, HoldPage, GetPage

\* The frame that a writer leaves.
LEMMA UpdatedFields ==
  ASSUME NEW f \in Frame, NEW c \in Contents
  PROVE  /\ UnpinnedFrame(WrittenFrame(f, c)) \in Frame
         /\ UnpinnedFrame(WrittenFrame(f, c)).page = f.page
         /\ UnpinnedFrame(WrittenFrame(f, c)).dirty
<1> DEFINE w == WrittenFrame(f, c)
<1>1. w \in Frame /\ w.page = f.page /\ w.dirty
  BY WrittenFields
<1> HIDE DEF w
<1>2. /\ UnpinnedFrame(w) \in Frame /\ UnpinnedFrame(w).page = w.page
      /\ UnpinnedFrame(w).dirty = w.dirty
  BY <1>1, UnpinnedFields
<1>3. QED
  BY <1>1, <1>2 DEF w

\* A writer changes the page it asked for and no other.
LEMMA WriterUpdatesStores ==
  ASSUME PoolInv, PoolInv', NEW p \in PageIds, WriterUpdates(p)
  PROVE  Store!Write \/ Store!HalfWrite
<1>0. unmarked' = StillUnmarked(unmarked)
  BY DEF WriterUpdates, NobodyRaises
<1>1. PICK c \in Contents : UpdatePage(p, c)
  BY DEF WriterUpdates
<1>2. ASSUME NEW i \in DOMAIN frames, Found(p, i),
             frames' = [frames EXCEPT ![i] = UnpinnedFrame(WrittenFrame(PinnedFrame(frames[i]), c))],
             disk' = disk
      PROVE  Store!Write \/ Store!HalfWrite
  <2> DEFINE g == UnpinnedFrame(WrittenFrame(PinnedFrame(frames[i]), c))
  <2>1. /\ PinnedFrame(frames[i]) \in Frame /\ PinnedFrame(frames[i]).page = p
        /\ frames[i].page = p
    BY <1>2, PinnedFields, Typing DEF Found
  <2>2. g \in Frame /\ g.page = p /\ g.dirty
    BY <2>1, UpdatedFields
  <2>3. frames' = [frames EXCEPT ![i] = g]
    BY <1>2
  <2> HIDE DEF g
  <2>4. QED
    BY <1>0, <1>2, <2>1, <2>2, <2>3, HitStores
<1>3. ASSUME NEW i \in 1..MaxFrames, ~Cached(p), Victim(i), FlushVictim(i),
             frames' = PutFrame(i, UnpinnedFrame(WrittenFrame(
                         [page |-> p, content |-> disk[p], dirty |-> FALSE, pins |-> 1], c)))
      PROVE  Store!Write \/ Store!HalfWrite
  <2> DEFINE f == [page |-> p, content |-> disk[p], dirty |-> FALSE, pins |-> 1]
             g == UnpinnedFrame(WrittenFrame(f, c))
  <2>1. f \in Frame /\ f.page = p
    BY Typing DEF Frame
  <2>2. frames' = PutFrame(i, g)
    BY <1>3
  <2> HIDE DEF f
  <2>3. g \in Frame /\ g.page = p /\ g.dirty
    BY <2>1, UpdatedFields
  <2> HIDE DEF g
  <2>4. QED
    BY <1>0, <1>3, <2>2, <2>3, MissStores
<1>4. QED
  BY <1>1, <1>2, <1>3 DEF UpdatePage, GetPage

\* A writer that raises leaves the page it asked for half changed.
LEMMA WriterRaisesStores ==
  ASSUME PoolInv, PoolInv', NEW p \in PageIds, WriterRaises(p)
  PROVE  Store!Write \/ Store!HalfWrite
<1> DEFINE S == unmarked \cup {p}
<1>0. unmarked' = StillUnmarked(S) /\ S = unmarked \cup {p} /\ p \in S
  BY DEF WriterRaises
<1> HIDE DEF S
<1>1. PICK c \in Contents : BreakPage(p, c)
  BY DEF WriterRaises
<1>2. ASSUME NEW i \in DOMAIN frames, Found(p, i),
             frames' = [frames EXCEPT ![i] = [PinnedFrame(frames[i]) EXCEPT !.content = c]],
             disk' = disk
      PROVE  Store!Write \/ Store!HalfWrite
  <2> DEFINE a == PinnedFrame(frames[i])
             g == [a EXCEPT !.content = c]
  <2>1. a \in Frame /\ a.page = p /\ frames[i].page = p
    BY <1>2, PinnedFields, Typing DEF Found
  <2>2. frames' = [frames EXCEPT ![i] = g]
    BY <1>2
  <2> HIDE DEF a
  <2>3. g \in Frame /\ g.page = p
    BY <2>1 DEF Frame
  <2> HIDE DEF g
  <2>4. QED
    BY <1>0, <1>2, <2>1, <2>2, <2>3, HitStores
<1>3. ASSUME NEW i \in 1..MaxFrames, ~Cached(p), Victim(i), FlushVictim(i),
             frames' = PutFrame(i, [[page |-> p, content |-> disk[p], dirty |-> FALSE, pins |-> 1]
                                      EXCEPT !.content = c])
      PROVE  Store!Write \/ Store!HalfWrite
  <2> DEFINE a == [page |-> p, content |-> disk[p], dirty |-> FALSE, pins |-> 1]
             g == [a EXCEPT !.content = c]
  <2>1. a \in Frame /\ a.page = p
    BY Typing DEF Frame
  <2>2. frames' = PutFrame(i, g)
    BY <1>3
  <2> HIDE DEF a
  <2>3. g \in Frame /\ g.page = p
    BY <2>1 DEF Frame
  <2> HIDE DEF g
  <2>4. QED
    BY <1>0, <1>3, <2>2, <2>3, MissStores
<1>4. QED
  BY <1>1, <1>2, <1>3 DEF BreakPage, GetPage

\* pin, unpin and mark_dirty are invisible, or mark a page that a writer left.
LEMMA MethodStores ==
  ASSUME PoolInv, PoolInv', NEW p \in PageIds,
         \/ ReaderPins(p) \/ ReaderUnpins(p, TRUE) \/ ReaderUnpins(p, FALSE)
         \/ SpareUnpin(p) \/ CallerMarksDirty(p)
  PROVE  Store!WriteBack \/ Store!Mark
<1>1. unmarked' = StillUnmarked(unmarked)
  BY Zenon DEF ReaderPins, ReaderUnpins, SpareUnpin, CallerMarksDirty, NobodyRaises
<1>2. CASE ReaderPins(p)
  <2> DEFINE G == [i \in DOMAIN frames |-> PinnedFrame(frames[i])]
  <2>1. \A i \in DOMAIN frames :
          G[i].page = frames[i].page /\ G[i].content = frames[i].content
    BY Typing, PinnedFields
  <2>2. /\ frames' = [i \in DOMAIN frames |-> IF Found(p, i) THEN G[i] ELSE frames[i]]
        /\ disk' = disk
    BY <1>2 DEF ReaderPins, PinPage, OnFrame
  <2> HIDE DEF G
  <2>3. QED
    BY <1>1, <2>1, <2>2, MarkingStores
<1>3. ASSUME NEW isDirty \in BOOLEAN, UnpinPage(p, isDirty)
      PROVE  Store!WriteBack \/ Store!Mark
  <2> DEFINE G == [i \in DOMAIN frames |-> UnpinnedFrame(DirtiedFrame(frames[i], isDirty))]
  <2>1. ASSUME NEW i \in DOMAIN frames
        PROVE  G[i].page = frames[i].page /\ G[i].content = frames[i].content
    <3> DEFINE d == DirtiedFrame(frames[i], isDirty)
    <3>1. d \in Frame /\ d.page = frames[i].page /\ d.content = frames[i].content
      BY Typing, DirtiedFields
    <3>2. G[i] = UnpinnedFrame(d)
      BY DEF d
    <3> HIDE DEF d, G
    <3>3. QED
      BY <3>1, <3>2, UnpinnedFields
  <2>2. /\ frames' = [i \in DOMAIN frames |-> IF Found(p, i) THEN G[i] ELSE frames[i]]
        /\ disk' = disk
    BY <1>3 DEF UnpinPage, OnFrame
  <2> HIDE DEF G
  <2>3. QED
    BY <1>1, <2>1, <2>2, MarkingStores
<1>4. CASE CallerMarksDirty(p)
  <2> DEFINE G == [i \in DOMAIN frames |-> DirtiedFrame(frames[i], TRUE)]
  <2>1. \A i \in DOMAIN frames :
          G[i].page = frames[i].page /\ G[i].content = frames[i].content
    BY Typing, DirtiedFields
  <2>2. /\ frames' = [i \in DOMAIN frames |-> IF Found(p, i) THEN G[i] ELSE frames[i]]
        /\ disk' = disk
    BY <1>4 DEF CallerMarksDirty, MarkDirty, OnFrame
  <2> HIDE DEF G
  <2>3. QED
    BY <1>1, <2>1, <2>2, MarkingStores
<1>5. QED
  BY <1>2, <1>3, <1>4 DEF ReaderUnpins, SpareUnpin

\* A page is read into the frame of a victim, and the read fails: no page is
\* cached any more or any less, and none has another content.
LEMMA MissingStores ==
  ASSUME PoolInv, PoolInv', NEW p \in PageIds, PageMissing(p),
         unmarked' = StillUnmarked(unmarked)
  PROVE  Store!WriteBack
<1>1. PICK i \in 1..MaxFrames :
        /\ Victim(i) /\ FlushVictim(i)
        /\ frames' = PutFrame(i, IF i \in DOMAIN frames THEN [frames[i] EXCEPT !.dirty = FALSE]
                                 ELSE EmptyFrame)
  BY DEF PageMissing
<1> DEFINE g == IF i \in DOMAIN frames THEN [frames[i] EXCEPT !.dirty = FALSE] ELSE EmptyFrame
<1>2. /\ g \in Frame
      /\ i \in DOMAIN frames => g.page = frames[i].page /\ g.content = frames[i].content
      /\ ~g.dirty
      /\ i \notin DOMAIN frames => g.page = NoPage
  BY Typing, PoolAssumption DEF Frame, EmptyFrame
<1>3. frames' = PutFrame(i, g)
  BY <1>1
<1> HIDE DEF g
<1>4. /\ DOMAIN frames \subseteq DOMAIN frames'
      /\ \A j \in DOMAIN frames' : frames'[j] = IF j = i THEN g ELSE frames[j]
      /\ \A j \in DOMAIN frames' : j # i => j \in DOMAIN frames
  BY <1>1, <1>2, <1>3, PutFrameEffect DEF PoolInv
<1>5. ASSUME NEW q \in PageIds
      PROVE  Current(q)' = Current(q)
  <2>1. q # NoPage
    BY PoolAssumption DEF PageIds, NoPage
  <2>2. ASSUME NEW j \in DOMAIN frames, frames[j].page = q
        PROVE  Current(q)' = Current(q)
    <3>1. j \in DOMAIN frames' /\ frames'[j].page = q /\ frames'[j].content = frames[j].content
      BY <1>2, <1>4, <2>2
    <3>2. QED
      BY <2>2, <3>1, CurrentIs, CurrentNext
  <2>3. CASE \A j \in DOMAIN frames : frames[j].page # q
    <3>1. \A j \in DOMAIN frames' : frames'[j].page # q
      BY <1>2, <1>4, <2>1, <2>3
    <3>2. disk'[q] = disk[q]
      BY <1>1, <2>3, UncachedKept DEF Cached
    <3>3. QED
      BY <2>3, <3>1, <3>2, CurrentIs, CurrentNext
  <2>4. QED
    BY <2>2, <2>3
<1>6. \A q \in unmarked : \E j \in DOMAIN frames' : frames'[j].page = q /\ ~frames'[j].dirty
  BY <1>2, <1>4 DEF PoolInv, UnmarkedCached
<1>7. unmarked' = unmarked
  BY <1>6 DEF StillUnmarked
<1> DEFINE L == {}
<1>8. /\ L \in SUBSET unmarked /\ unmarked' = unmarked \ L
      /\ \A q \in PageIds : Current(q)' = IF q \in L THEN disk[q] ELSE Current(q)
  BY <1>5, <1>7
<1> HIDE DEF L
<1>9. QED
  BY <1>1, <1>8, VictimWrittenBack, BackStep

LEMMA GetFailsStores ==
  ASSUME PoolInv, PoolInv', NEW p \in PageIds, GetFails(p)
  PROVE  Store!WriteBack
<1>0. unmarked' = StillUnmarked(unmarked)
  BY Zenon DEF GetFails, NobodyRaises
<1>1. CASE PoolExhausted(p)
  <2>1. frames' = frames /\ disk' = disk
    BY <1>1 DEF PoolExhausted
  <2>2. QED
    BY <1>0, <2>1, QuietStores
<1>2. CASE PageMissing(p)
  BY <1>0, <1>2, MissingStores
<1>3. QED
  BY Zenon, <1>1, <1>2 DEF GetFails

\* flush_dirty changes what is on the disk, and nothing a reader sees.
LEMMA FlushStores ==
  ASSUME PoolInv, PoolInv', CallerFlushes
  PROVE  Store!WriteBack
<1>1. /\ WriteFrames(frames)
      /\ frames' = [i \in DOMAIN frames |->
                      IF frames[i].dirty THEN FlushedFrame(frames[i]) ELSE frames[i]]
  BY DEF CallerFlushes, FlushDirty
<1>2. \A i \in DOMAIN frames : /\ FlushedFrame(frames[i]).page = frames[i].page
                               /\ FlushedFrame(frames[i]).content = frames[i].content
                               /\ ~FlushedFrame(frames[i]).dirty
  BY Typing, FlushedFields
<1>3. /\ DOMAIN frames' = DOMAIN frames
      /\ \A i \in DOMAIN frames :
           /\ frames'[i].page = frames[i].page /\ frames'[i].content = frames[i].content
           /\ (~frames[i].dirty => ~frames'[i].dirty)
  BY <1>1, <1>2
<1>4. \A q \in PageIds : (\A i \in DOMAIN frames : frames[i].page # q) => disk'[q] = disk[q]
  BY <1>1 DEF WriteFrames, DirtyPages
<1>5. \A q \in PageIds : Current(q)' = Current(q)
  BY <1>3, <1>4, ContentsKept
<1>6. unmarked' = StillUnmarked(unmarked)
  BY DEF CallerFlushes, NobodyRaises
<1>7. unmarked' = unmarked
  BY <1>3, <1>6, MarksKept
<1>8. Store!SomeWrittenBack
  BY <1>1, FramesWrittenBack
<1> DEFINE L == {}
<1>9. /\ L \in SUBSET unmarked /\ unmarked' = unmarked \ L
      /\ \A q \in PageIds : Current(q)' = IF q \in L THEN disk[q] ELSE Current(q)
  BY <1>5, <1>7
<1> HIDE DEF L
<1>10. QED
  BY <1>8, <1>9, BackStep

\* A crash keeps what had been written: nothing of the pool is left.
LEMMA CrashStores ==
  ASSUME PoolInv, PoolInv', CrashesAndRestarts
  PROVE  Store!Crash
<1>1. PICK k \in 0..Len(frames) : CrashAfter(k)
  BY DEF CrashesAndRestarts
<1> DEFINE fs == SubSeq(frames, 1, k)
<1>2. WriteFrames(fs) /\ frames' = <<>>
  BY <1>1 DEF CrashAfter
<1>3. \A i \in DOMAIN fs : i \in DOMAIN frames /\ fs[i] = frames[i]
  BY <1>1, SeqPrefix, Typing
<1> HIDE DEF fs
<1>4. unmarked' = {}
  BY <1>2 DEF CrashesAndRestarts, StillUnmarked
<1>5. Store!SomeWrittenBack
  BY <1>2, <1>3, FramesWrittenBack
<1>6. \A q \in PageIds : Current(q)' = disk'[q]
  BY <1>2, CurrentNext
<1>7. disk' = [q \in PageIds |-> disk'[q]]
  BY <1>2 DEF WriteFrames
<1>8. [q \in PageIds |-> Current(q)]' = disk'
  BY <1>6, <1>7
<1>9. QED
  BY <1>4, <1>5, <1>8 DEF Store!Crash

------------------------------------------------------------------------------
(* The refinement *)

LEMMA InitStores ==
  ASSUME Init
  PROVE  Store!StoreInit
<1>1. PoolInv /\ frames = <<>>
  BY InitSound DEF Init, PoolInit
<1>2. \A q \in PageIds : Current(q) = disk[q]
  BY <1>1, CurrentIs
<1>3. disk \in [PageIds -> Contents]
  BY <1>1, Typing
<1>4. [q \in PageIds |-> Current(q)] = disk /\ unmarked = {}
  BY <1>2, <1>3 DEF Init
<1>5. QED
  BY <1>3, <1>4 DEF Store!StoreInit

LEMMA StepStores ==
  ASSUME PoolInv, PoolInv', [Next]_vars
  PROVE  [Store!StoreNext]_(Store!storeVars)
<1>1. CASE UNCHANGED vars
  <2>1. frames' = frames /\ disk' = disk /\ unmarked' = unmarked
    BY <1>1 DEF vars
  <2>2. [q \in PageIds |-> Current(q)]' = [q \in PageIds |-> Current(q)]
    BY <2>1, QuietContents
  <2>3. QED
    BY <2>1, <2>2 DEF Store!storeVars
<1>2. ASSUME NEW p \in PageIds, ReaderGets(p)
      PROVE  Store!StoreNext
  BY <1>2, ReaderGetsStores DEF Store!StoreNext
<1>3. ASSUME NEW p \in PageIds,
             \/ ReaderPins(p) \/ ReaderUnpins(p, TRUE) \/ ReaderUnpins(p, FALSE)
             \/ SpareUnpin(p) \/ CallerMarksDirty(p)
      PROVE  Store!StoreNext
  BY <1>3, MethodStores DEF Store!StoreNext
<1>4. ASSUME NEW p \in PageIds, WriterUpdates(p)
      PROVE  Store!StoreNext
  BY <1>4, WriterUpdatesStores DEF Store!StoreNext
<1>10. ASSUME NEW p \in PageIds, WriterRaises(p)
      PROVE  Store!StoreNext
  BY <1>10, WriterRaisesStores DEF Store!StoreNext
<1>5. ASSUME NEW p \in PageIds, GetFails(p)
      PROVE  Store!StoreNext
  BY <1>5, GetFailsStores DEF Store!StoreNext
<1>6. CASE CallerAllocates
  <2>1. frames' = frames /\ disk' = disk /\ unmarked' = StillUnmarked(unmarked)
    BY <1>6 DEF CallerAllocates, GetNewPage, NobodyRaises
  <2>2. QED
    BY <2>1, QuietStores DEF Store!StoreNext
<1>7. CASE CallerFlushes
  BY <1>7, FlushStores DEF Store!StoreNext
<1>8. CASE CrashesAndRestarts
  BY <1>8, CrashStores DEF Store!StoreNext
<1>9. QED
  BY Zenon, <1>1, <1>2, <1>3, <1>4, <1>10, <1>5, <1>6, <1>7, <1>8 DEF Next

\* For any number of frames, pages, readers and contents, the pool with its
\* disk file is a page store: whatever hits, misses, evictions, failed reads and
\* flushes happen, get_page returns the last content written to the page, unless
\* the last writer raised on it and nobody has marked it since, and a crash
\* leaves each page with a content that was written back.
THEOREM PoolImplementsStore == Spec => ImplementsPageStore
<1>1. Init => Store!StoreInit
  BY InitStores
<1>2. PoolInv /\ PoolInv' /\ [Next]_vars => [Store!StoreNext]_(Store!storeVars)
  BY StepStores
<1>3. QED
  BY <1>1, <1>2, PoolInvariance, PTL DEF Spec, ImplementsPageStore, Store!StoreSpec
==============================================================================
