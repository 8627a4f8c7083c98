----------------------------- MODULE HeapProofs ------------------------------
(***************************************************************************)
(* Deductive proofs about HeapFile, for every number of frames, pages,     *)
(* tables, inserters and scans.                                            *)
(*  - Tables: the chains of pages stay apart and whole, and a heap file is *)
(*    the append-only sequence of rows that RowTable promises, also beside *)
(*    tables whose rows break off.                                         *)
(*  - Pins: when every row can be written, a pin belongs to an open scan,  *)
(*    so that a pool with more frames than scans never runs full.          *)
(*  - Iterators: however the calls of inserters and scans interleave and   *)
(*    whatever frames are given away under a scan, the next record it      *)
(*    returns is the next row of its table, and a scan that ends has       *)
(*    returned every row the table had when it was opened.                 *)
(***************************************************************************)
EXTENDS HeapFile, SeqLemmas, FiniteSetTheorems

------------------------------------------------------------------------------
(* Chains as paths *)

\* C is the list of pages that begins with `first` and follows the links to
\* their end; a page has a larger id than the pages before it.
IsPath(pg, first, C) ==
  /\ C \in Seq(PageIds) /\ C # <<>> /\ C[1] = first
  /\ \A i \in 1..Len(C) : i <= C[i]
  /\ \A i, j \in 1..Len(C) : i < j => C[i] < C[j]
  /\ \A i \in 1..(Len(C) - 1) : pg[C[i]].next = C[i + 1]
  /\ pg[C[Len(C)]].next = NoLink

\* `longer` and `path` of ChainOf.
Longer(pg) ==
  [c \in Seq(PageIds) |->
     LET next == pg[Last(c)].next
     IN  IF next = NoLink THEN c ELSE Append(c, next)]

IsWalk(pg, first, f) ==
  f = [n \in 0..MaxPages |-> IF n = 0 THEN <<first>> ELSE Longer(pg)[f[n - 1]]]

\* ChainOf in these words.
LEMMA ChainOfIsWalk ==
  ASSUME NEW pg, NEW first
  PROVE ChainOf(pg, first) = (CHOOSE f : IsWalk(pg, first, f))[MaxPages]
BY DEF ChainOf, IsWalk, Longer

\* One more page of a path.
LEMMA LongerOn ==
  ASSUME NEW pg, NEW first, NEW C, IsPath(pg, first, C), NEW k \in 1..Len(C)
  PROVE  Longer(pg)[SubSeq(C, 1, k)] = IF k < Len(C) THEN SubSeq(C, 1, k + 1) ELSE SubSeq(C, 1, k)
<1> DEFINE c == SubSeq(C, 1, k)
           next == pg[Last(c)].next
<1>1. C \in Seq(PageIds) /\ Len(C) \in Nat /\ \A i \in 1..Len(C) : C[i] \in PageIds
  BY SeqElements DEF IsPath
<1>2. c \in Seq(PageIds) /\ Len(c) = k /\ c[k] = C[k]
  BY <1>1, SeqPrefix, SeqElements
<1>3. Last(c) = C[k]
  BY <1>2 DEF Last
<1>4. Longer(pg)[c] = IF next = NoLink THEN c ELSE Append(c, next)
  BY <1>2 DEF Longer
<1>5. CASE k < Len(C)
  <2>1. next = C[k + 1] /\ next # NoLink /\ next \in PageIds
    BY <1>1, <1>3, <1>5 DEF IsPath, NoLink, PageIds
  <2>2. Append(c, C[k + 1]) = SubSeq(C, 1, k + 1)
    <3>1. SubSeq(C, 1, k) = [i \in 1..k |-> C[i]] /\ SubSeq(C, 1, k + 1) = [i \in 1..(k + 1) |-> C[i]]
      BY <1>1, <1>5
    <3>2. Append(c, C[k + 1]) = [i \in 1..(k + 1) |-> IF i <= k THEN c[i] ELSE C[k + 1]]
      BY <1>2
    <3>3. QED
      BY <3>1, <3>2
  <2>3. QED
    BY <1>4, <1>5, <2>1, <2>2
<1>6. CASE k = Len(C)
  BY <1>1, <1>3, <1>4, <1>6 DEF IsPath
<1>7. QED
  BY <1>1, <1>5, <1>6

\* The walk of ChainOf finds a path, and all of it.
LEMMA PathIsChain ==
  ASSUME NEW pg, NEW first, NEW C, IsPath(pg, first, C)
  PROVE  ChainOf(pg, first) = C
<1> DEFINE f == CHOOSE g : IsWalk(pg, first, g)
           w == [n \in 0..MaxPages |-> IF n < Len(C) THEN SubSeq(C, 1, n + 1) ELSE C]
<1>1. /\ C \in Seq(PageIds) /\ Len(C) \in Nat \ {0} /\ Len(C) <= MaxPages /\ MaxPages \in Nat \ {0}
      /\ \A i \in 1..Len(C) : C[i] \in PageIds
  <2>1. C \in Seq(PageIds) /\ Len(C) \in Nat \ {0} /\ \A i \in 1..Len(C) : C[i] \in PageIds
    BY SeqElements, EmptySeq DEF IsPath
  <2>2. Len(C) <= C[Len(C)]
    BY <2>1 DEF IsPath
  <2>3. QED
    BY <2>1, <2>2, CapacityAssumption DEF PageIds
<1>2. SubSeq(C, 1, 1) = <<first>> /\ SubSeq(C, 1, Len(C)) = C
  <2>1. SubSeq(C, 1, 1) = [i \in 1..1 |-> C[i]] /\ C[1] = first
    BY <1>1 DEF IsPath
  <2>2. SubSeq(C, 1, Len(C)) = [i \in 1..Len(C) |-> C[i]]
    BY <1>1
  <2>3. C = [i \in 1..Len(C) |-> C[i]]
    BY <1>1, SeqElements
  <2>4. [i \in 1..1 |-> C[i]] = <<first>>
    BY <2>1
  <2>5. QED
    BY <2>1, <2>2, <2>3, <2>4
<1>3. IsWalk(pg, first, w)
  <2>1. ASSUME NEW n \in 0..MaxPages
        PROVE  w[n] = IF n = 0 THEN <<first>> ELSE Longer(pg)[w[n - 1]]
    <3>1. CASE n = 0
      BY <1>1, <1>2, <3>1
    <3>2. CASE n # 0 /\ n <= Len(C)
      <4>1. w[n - 1] = SubSeq(C, 1, n)
        <5>1. n - 1 \in 0..MaxPages /\ n - 1 < Len(C) /\ (n - 1) + 1 = n
          BY <1>1, <3>2
        <5>2. QED
          BY <5>1
      <4>2. w[n] = IF n < Len(C) THEN SubSeq(C, 1, n + 1) ELSE SubSeq(C, 1, n)
        <5>1. ~(n < Len(C)) => n = Len(C)
          BY <1>1, <3>2
        <5>2. w[n] = IF n < Len(C) THEN SubSeq(C, 1, n + 1) ELSE C
          OBVIOUS
        <5>3. QED
          BY <1>2, <5>1, <5>2
      <4>3. n \in 1..Len(C)
        BY <1>1, <3>2
      <4> HIDE DEF w
      <4>4. Longer(pg)[w[n - 1]] = w[n]
        BY <4>1, <4>2, <4>3, LongerOn
      <4>5. QED
        BY <3>2, <4>4
    <3>3. CASE n > Len(C)
      <4>1. w[n - 1] = SubSeq(C, 1, Len(C)) /\ w[n] = SubSeq(C, 1, Len(C))
        BY <1>1, <1>2, <3>3
      <4>2. Len(C) \in 1..Len(C) /\ ~(Len(C) < Len(C)) /\ n # 0
        BY <1>1, <3>3
      <4> HIDE DEF w
      <4>3. Longer(pg)[w[n - 1]] = w[n]
        BY <4>1, <4>2, LongerOn
      <4>4. QED
        BY <4>2, <4>3
    <3>4. QED
      BY <1>1, <3>1, <3>2, <3>3
  <2> HIDE DEF w
  <2>2. DOMAIN w = 0..MaxPages /\ w = [n \in 0..MaxPages |-> w[n]]
    BY DEF w
  <2>3. QED
    BY <2>1, <2>2 DEF IsWalk
<1>4. IsWalk(pg, first, f)
  BY <1>3
<1> HIDE DEF f
<1>5. ASSUME NEW n \in 0..MaxPages
      PROVE  f[n] = w[n]
  <2> DEFINE T == {m \in 0..MaxPages : f[m] # w[m]}
  <2>1. SUFFICES ASSUME T # {} PROVE FALSE
    BY <1>5
  <2>2. PICK m \in T : \A l \in T : m <= l
    <3>1. T \subseteq Nat
      OBVIOUS
    <3> HIDE DEF T
    <3>2. QED
      BY <2>1, <3>1, LeastIn
  <2> HIDE DEF w
  <2>3. /\ f[m] = IF m = 0 THEN <<first>> ELSE Longer(pg)[f[m - 1]]
        /\ w[m] = IF m = 0 THEN <<first>> ELSE Longer(pg)[w[m - 1]]
    BY <1>3, <1>4 DEF IsWalk
  <2>4. m # 0
    BY <2>2, <2>3
  <2>5. f[m - 1] = w[m - 1]
    <3>1. m \in 0..MaxPages /\ \A l \in T : m <= l
      BY <2>2
    <3>2. m - 1 \in 0..MaxPages /\ ~(m <= m - 1)
      BY <1>1, <2>4, <3>1
    <3>3. m - 1 \notin T
      BY <3>1, <3>2
    <3>4. QED
      BY <3>2, <3>3
  <2>6. QED
    BY <2>2, <2>3, <2>4, <2>5
<1>6. f[MaxPages] = C
  BY <1>1, <1>5
<1>7. QED
  BY <1>6, ChainOfIsWalk DEF f

------------------------------------------------------------------------------
(* The rows of a chain *)

\* The records of each page of C.
SlotsOn(pg, C) == [i \in DOMAIN C |-> pg[C[i]].slots]

\* The number of rows before the k-th page of C.
RowsBefore(pg, C, k) == Len(FlatTo(SlotsOn(pg, C), k - 1))

Records == Row \cup Entry

\* What the contents of pages give for a chain of them.
LEMMA SlotsTyped ==
  ASSUME NEW pg \in [PageIds -> PageContents], NEW C \in Seq(PageIds)
  PROVE  /\ SlotsOn(pg, C) \in Seq(Seq(Records)) /\ Len(SlotsOn(pg, C)) = Len(C)
         /\ \A i \in 1..Len(C) : SlotsOn(pg, C)[i] = pg[C[i]].slots
         /\ RowsOn(pg)[C] = FlattenSeq(SlotsOn(pg, C))
<1>1. Len(C) \in Nat /\ DOMAIN C = 1..Len(C) /\ \A i \in 1..Len(C) : C[i] \in PageIds
  BY SeqElements
<1>2. \A p \in PageIds : pg[p].slots \in Seq(Records)
  BY DEF PageContents, Records
<1>3. SlotsOn(pg, C) \in [1..Len(C) -> Seq(Records)]
  BY <1>1, <1>2 DEF SlotsOn
<1>4. \A i \in 1..Len(C) : SlotsOn(pg, C)[i] = pg[C[i]].slots
  BY <1>1 DEF SlotsOn
<1>5. RowsOn(pg)[C] = FlattenSeq(SlotsOn(pg, C))
  BY DEF RowsOn, SlotsOn
<1>6. QED
  BY <1>1, <1>3, <1>4, <1>5, FunctionIsSeq

\* The rows are those of the pages before the last one and those of the last.
LEMMA RowsSplit ==
  ASSUME NEW pg \in [PageIds -> PageContents], NEW C \in Seq(PageIds), C # <<>>
  PROVE  /\ Len(C) \in 1..Len(C) /\ C[Len(C)] \in PageIds
         /\ FlatTo(SlotsOn(pg, C), Len(C) - 1) \in Seq(Records)
         /\ pg[C[Len(C)]].slots \in Seq(Records)
         /\ RowsOn(pg)[C] = FlatTo(SlotsOn(pg, C), Len(C) - 1) \o pg[C[Len(C)]].slots
<1> DEFINE ss == SlotsOn(pg, C)
<1>1. /\ ss \in Seq(Seq(Records)) /\ Len(ss) = Len(C)
      /\ \A i \in 1..Len(C) : ss[i] = pg[C[i]].slots /\ ss[i] \in Seq(Records)
      /\ RowsOn(pg)[C] = FlattenSeq(ss)
  BY SlotsTyped, SeqElements
<1>2. Len(C) \in 1..Len(C) /\ Len(C) - 1 \in 0..Len(C) /\ C[Len(C)] \in PageIds
  BY SeqElements, EmptySeq
<1> HIDE DEF ss
<1>3. FlatTo(ss, Len(C)) = FlatTo(ss, Len(C) - 1) \o ss[Len(C)] /\ FlatTo(ss, Len(C) - 1) \in Seq(Records)
  BY <1>1, <1>2, FlatSteps
<1>4. FlattenSeq(ss) = FlatTo(ss, Len(C))
  BY <1>1, FlatSteps
<1>5. QED
  BY <1>1, <1>2, <1>3, <1>4 DEF ss

\* Rows are on pages: the same slots are the same rows.
LEMMA RowsSame ==
  ASSUME NEW pg, NEW pg2, NEW C \in Seq(PageIds),
         \A i \in DOMAIN C : pg2[C[i]].slots = pg[C[i]].slots
  PROVE  RowsOn(pg2)[C] = RowsOn(pg)[C]
BY DEF RowsOn

\* A row on the last page is a row at the end of the table.
LEMMA RowsAppend ==
  ASSUME NEW pg \in [PageIds -> PageContents], NEW pg2 \in [PageIds -> PageContents],
         NEW C \in Seq(PageIds), C # <<>>, NEW e \in Records,
         \A i \in 1..(Len(C) - 1) : pg2[C[i]].slots = pg[C[i]].slots,
         pg2[C[Len(C)]].slots = Append(pg[C[Len(C)]].slots, e)
  PROVE  RowsOn(pg2)[C] = Append(RowsOn(pg)[C], e)
<1> DEFINE n == Len(C) - 1
           f == FlatTo(SlotsOn(pg, C), n)
           x == pg[C[Len(C)]].slots
<1>1. /\ f \in Seq(Records) /\ x \in Seq(Records) /\ RowsOn(pg)[C] = f \o x
      /\ RowsOn(pg2)[C] = FlatTo(SlotsOn(pg2, C), n) \o Append(x, e)
  BY RowsSplit
<1>2. FlatTo(SlotsOn(pg2, C), n) = f
  <2>1. n \in Nat /\ n <= Len(C) /\ n \in 0..n /\ \A i \in 1..n : i \in 1..Len(C)
    BY SeqElements, EmptySeq
  <2>2. \A i \in 1..n : SlotsOn(pg2, C)[i] = SlotsOn(pg, C)[i]
    BY <2>1, SlotsTyped
  <2> DEFINE ss == SlotsOn(pg, C)
             tt == SlotsOn(pg2, C)
  <2>3. ss \in Seq(Seq(Records)) /\ tt \in Seq(Seq(Records)) /\ Len(ss) = Len(C) /\ Len(tt) = Len(C)
    BY SlotsTyped
  <2> HIDE DEF ss, tt, n
  <2>4. \A k \in 0..n : FlatTo(tt, k) = FlatTo(ss, k)
    BY <2>1, <2>2, <2>3, FlatPrefix DEF ss, tt
  <2>5. QED
    BY <2>1, <2>4 DEF ss, tt
<1> HIDE DEF f, x, n
<1>3. f \o Append(x, e) = Append(f \o x, e)
  <2>1. Len(f) \in Nat /\ Len(x) \in Nat /\ f \in [1..Len(f) -> Records] /\ x \in [1..Len(x) -> Records]
    BY <1>1, SeqElements
  <2>2. QED
    BY <1>1, <2>1
<1>4. QED
  BY <1>1, <1>2, <1>3

\* An empty page at the end of the chain is no row.
LEMMA RowsExtend ==
  ASSUME NEW pg \in [PageIds -> PageContents], NEW pg2 \in [PageIds -> PageContents],
         NEW C \in Seq(PageIds), NEW q \in PageIds,
         \A i \in 1..Len(C) : pg2[C[i]].slots = pg[C[i]].slots,
         pg2[q].slots = <<>>
  PROVE  RowsOn(pg2)[Append(C, q)] = RowsOn(pg)[C]
<1> DEFINE C2 == Append(C, q)
           n == Len(C)
           ss == SlotsOn(pg, C)
           tt == SlotsOn(pg2, C2)
<1>1. /\ C2 \in Seq(PageIds) /\ n \in Nat /\ Len(C2) = n + 1 /\ C2[n + 1] = q /\ C2 # <<>>
      /\ \A i \in 1..n : C2[i] = C[i]
  BY SeqAppend, SeqElements
<1>2. /\ ss \in Seq(Seq(Records)) /\ Len(ss) = n /\ RowsOn(pg)[C] = FlattenSeq(ss)
      /\ \A i \in 1..n : ss[i] = pg[C[i]].slots
  BY SlotsTyped
<1> HIDE DEF C2
<1>3. tt \in Seq(Seq(Records)) /\ Len(tt) = n + 1 /\ \A i \in 1..n : tt[i] = ss[i]
  <2>1. /\ tt \in Seq(Seq(Records)) /\ Len(tt) = Len(C2)
        /\ \A i \in 1..Len(C2) : tt[i] = pg2[C2[i]].slots
    BY <1>1, SlotsTyped
  <2>2. \A i \in 1..n : i \in 1..Len(C2)
    BY <1>1
  <2>3. QED
    BY <1>1, <1>2, <2>1, <2>2
<1>4. /\ RowsOn(pg2)[C2] = FlatTo(tt, Len(C2) - 1) \o pg2[C2[Len(C2)]].slots
      /\ FlatTo(tt, Len(C2) - 1) \in Seq(Records)
  BY <1>1, RowsSplit
<1>5. Len(C2) - 1 = n /\ n \in 0..n /\ n <= Len(ss) /\ n <= Len(tt)
  BY <1>1, <1>2, <1>3
<1> HIDE DEF ss, tt, n
<1>6. FlatTo(tt, n) = FlatTo(ss, n)
  <2>1. /\ ss \in Seq(Seq(Records)) /\ tt \in Seq(Seq(Records)) /\ n \in Nat
        /\ n <= Len(ss) /\ n <= Len(tt) /\ \A i \in 1..n : ss[i] = tt[i]
    BY <1>1, <1>2, <1>3, <1>5
  <2>2. \A j \in 0..n : FlatTo(ss, j) = FlatTo(tt, j)
    BY <2>1, FlatPrefix
  <2>3. QED
    BY <1>5, <2>2
<1>7. FlatTo(ss, n) = FlattenSeq(ss)
  BY <1>2, FlatSteps
<1>8. RowsOn(pg2)[C2] = FlatTo(tt, n) \o <<>> /\ FlatTo(tt, n) \in Seq(Records)
  BY <1>1, <1>4, <1>5
<1>9. FlatTo(tt, n) \o <<>> = FlatTo(tt, n)
  BY <1>8, ConcatEmptySeq
<1>10. QED
  BY <1>2, <1>6, <1>7, <1>8, <1>9 DEF C2

------------------------------------------------------------------------------
(* The pool: what every page holds *)

\* Equal pages, up to the records of a table whose rows may break off.
Like(c, d) ==
  /\ c.kind = d.kind /\ c.name = d.name /\ c.next = d.next
  /\ c.name \notin BadRows => c.slots = d.slots

DistinctPages(fs) == \A i, j \in DOMAIN fs : fs[i].page = fs[j].page => i = j

\* A frame holds an allocated page, with a link to one; if it is not dirty, the
\* page is on disk, up to rows that broke off.
FrameOK(f, d, n) ==
  /\ f.page \in PageIds /\ f.page < n /\ f.content.next < n
  /\ ~f.dirty => Like(f.content, d[f.page])

\* The pool's part of the inductive invariant.
PoolOK ==
  /\ PoolTypeOK
  /\ DistinctPages(frames)
  /\ \A i \in DOMAIN frames : FrameOK(frames[i], disk, numPages)
  /\ \A p \in PageIds : disk[p].next < numPages

\* Found and Current over any list of frames.
FoundIn(fs, p, i) ==
  /\ i \in DOMAIN fs
  /\ fs[i].page = p
  /\ \A j \in 1..(i - 1) : fs[j].page # p

CurrentIn(fs, d, p) ==
  IF \E i \in DOMAIN fs : fs[i].page = p
  THEN fs[CHOOSE i \in DOMAIN fs : FoundIn(fs, p, i)].content ELSE d[p]

PagesIn(fs, d) == [p \in PageIds |-> CurrentIn(fs, d, p)]

\* A page in a frame has the content of its frame, another one that of the disk.
LEMMA CurrentInIs ==
  ASSUME NEW fs \in Seq(Frame), DistinctPages(fs), NEW d, NEW p \in PageIds
  PROVE  /\ \A i \in DOMAIN fs : fs[i].page = p => PagesIn(fs, d)[p] = fs[i].content
         /\ (\A i \in DOMAIN fs : fs[i].page # p) => PagesIn(fs, d)[p] = d[p]
<1>1. DOMAIN fs = 1..Len(fs) /\ Len(fs) \in Nat
  BY SeqElements
<1>2. ASSUME NEW i \in DOMAIN fs, fs[i].page = p
      PROVE  PagesIn(fs, d)[p] = fs[i].content
  <2>1. \A j \in DOMAIN fs : fs[j].page = p => j = i
    BY <1>2 DEF DistinctPages
  <2>2. \A j \in 1..(i - 1) : j \in DOMAIN fs /\ j # i
    BY <1>1, <1>2
  <2>3. FoundIn(fs, p, i)
    BY <1>2, <2>1, <2>2 DEF FoundIn
  <2>4. (CHOOSE k \in DOMAIN fs : FoundIn(fs, p, k)) = i
    BY <1>2, <2>1, <2>3 DEF FoundIn
  <2>5. QED
    BY <1>2, <2>4 DEF CurrentIn, PagesIn
<1>3. (\A i \in DOMAIN fs : fs[i].page # p) => PagesIn(fs, d)[p] = d[p]
  BY DEF CurrentIn, PagesIn
<1>4. QED
  BY <1>2, <1>3

\* Pages in these words.
LEMMA PagesAre == Pages = PagesIn(frames, disk) /\ Pages' = PagesIn(frames', disk')
BY DEF Pages, PagesIn, Current, CurrentIn, Cached, Found, FoundIn

\* What the pool's invariant says of its parts.
LEMMA PoolParts ==
  ASSUME PoolOK
  PROVE  /\ frames \in Seq(Frame) /\ Len(frames) \in Nat /\ DOMAIN frames = 1..Len(frames)
         /\ \A i \in DOMAIN frames : frames[i] \in Frame /\ FrameOK(frames[i], disk, numPages)
         /\ Len(frames) <= MaxFrames /\ DistinctPages(frames)
         /\ disk \in [PageIds -> PageContents] /\ fileLen \in 0..MaxPages
         /\ numPages \in 0..MaxPages /\ MaxFrames \in Nat /\ MaxPages \in Nat
         /\ PageIds \subseteq Nat /\ \A p \in PageIds : disk[p].next < numPages
BY SeqElements, HeapAssumption, CapacityAssumption DEF PoolOK, PoolTypeOK, PageIds

\* Pages have contents, and their links lead to allocated pages.
LEMMA PagesInTyped ==
  ASSUME NEW fs \in Seq(Frame), DistinctPages(fs), NEW d \in [PageIds -> PageContents], NEW n,
         \A i \in DOMAIN fs : FrameOK(fs[i], d, n), \A p \in PageIds : d[p].next < n
  PROVE  /\ PagesIn(fs, d) \in [PageIds -> PageContents]
         /\ \A p \in PageIds : PagesIn(fs, d)[p].next \in Links /\ PagesIn(fs, d)[p].next < n
<1>1. ASSUME NEW p \in PageIds
      PROVE  PagesIn(fs, d)[p] \in PageContents /\ PagesIn(fs, d)[p].next < n
  <2>1. CASE \E i \in DOMAIN fs : fs[i].page = p
    <3>1. PICK i \in DOMAIN fs : fs[i].page = p
      BY <2>1
    <3>2. PagesIn(fs, d)[p] = fs[i].content
      BY <3>1, CurrentInIs
    <3>3. fs[i] \in Frame
      BY SeqElements
    <3>4. fs[i].content \in PageContents /\ fs[i].content.next < n
      BY <3>3 DEF Frame, FrameOK
    <3>5. QED
      BY <3>2, <3>4
  <2>2. CASE \A i \in DOMAIN fs : fs[i].page # p
    <3>1. PagesIn(fs, d)[p] = d[p]
      BY <2>2, CurrentInIs
    <3>2. QED
      BY <3>1
  <2>3. QED
    BY <2>1, <2>2
<1>2. PagesIn(fs, d) = [p \in PageIds |-> PagesIn(fs, d)[p]]
  BY DEF PagesIn
<1>3. \A c \in PageContents : c.next \in Links
  BY DEF PageContents
<1> DEFINE pg == PagesIn(fs, d)
<1>4. pg \in [PageIds -> PageContents] /\ \A p \in PageIds : pg[p].next < n
  BY <1>1, <1>2
<1> HIDE DEF pg
<1>5. QED
  BY <1>3, <1>4 DEF pg

\* The same of the pages now ...
LEMMA PagesTyped ==
  ASSUME PoolOK
  PROVE  /\ Pages \in [PageIds -> PageContents]
         /\ \A p \in PageIds : Pages[p].next \in Links /\ Pages[p].next < numPages
BY PoolParts, PagesInTyped, PagesAre

\* ... and in the next state.
LEMMA NextPagesTyped ==
  ASSUME PoolOK'
  PROVE  /\ Pages' \in [PageIds -> PageContents]
         /\ \A p \in PageIds : Pages'[p].next \in Links /\ Pages'[p].next < numPages'
<1>1. /\ frames' \in Seq(Frame) /\ DistinctPages(frames') /\ disk' \in [PageIds -> PageContents]
      /\ \A i \in DOMAIN frames' : FrameOK(frames'[i], disk', numPages')
      /\ \A p \in PageIds : disk'[p].next < numPages'
  BY DEF PoolOK, PoolTypeOK
<1>2. QED
  BY <1>1, PagesInTyped, PagesAre

\* Writing frames writes the contents of the dirty ones.
LEMMA WriteEffect ==
  ASSUME NEW fs \in Seq(Frame), DistinctPages(fs), WriteFrames(fs),
         disk \in [PageIds -> PageContents], fileLen \in 0..MaxPages, MaxPages \in Nat,
         \A i \in DOMAIN fs : fs[i].page \in PageIds
  PROVE  /\ disk' \in [PageIds -> PageContents] /\ fileLen' \in 0..MaxPages
         /\ \A i \in DOMAIN fs : fs[i].dirty => disk'[fs[i].page] = fs[i].content
         /\ \A p \in PageIds : (\A i \in DOMAIN fs : fs[i].dirty => fs[i].page # p) => disk'[p] = disk[p]
<1> DEFINE Chosen(p) == CHOOSE k \in DOMAIN fs : fs[k].page = p /\ fs[k].dirty
<1>1. disk' = [p \in PageIds |-> IF p \in DirtyPages(fs) THEN fs[Chosen(p)].content ELSE disk[p]]
  BY DEF WriteFrames
<1>2. fileLen' \in fileLen..MaxPages
  BY DEF WriteFrames
<1>3. ASSUME NEW i \in DOMAIN fs, fs[i].dirty
      PROVE  fs[i].page \in DirtyPages(fs) /\ Chosen(fs[i].page) = i
  BY <1>3 DEF DirtyPages, DistinctPages
<1>4. \A p \in DirtyPages(fs) : /\ Chosen(p) \in DOMAIN fs
                                /\ \E i \in DOMAIN fs : fs[i].dirty /\ fs[i].page = p
  BY DEF DirtyPages
<1> HIDE DEF Chosen
<1>5. \A i \in DOMAIN fs : fs[i] \in Frame /\ fs[i].content \in PageContents
  <2>1. \A i \in DOMAIN fs : fs[i] \in Frame
    BY SeqElements
  <2>2. QED
    BY <2>1 DEF Frame
<1>6. disk' \in [PageIds -> PageContents]
  BY <1>1, <1>4, <1>5
<1>7. ASSUME NEW i \in DOMAIN fs, fs[i].dirty PROVE disk'[fs[i].page] = fs[i].content
  BY <1>1, <1>3, <1>7
<1>8. ASSUME NEW p \in PageIds, \A i \in DOMAIN fs : fs[i].dirty => fs[i].page # p
      PROVE  disk'[p] = disk[p]
  BY <1>1, <1>4, <1>8
<1>9. QED
  BY <1>2, <1>6, <1>7, <1>8

\* The frame that is replaced is written first, if it is dirty.
LEMMA VictimEffect ==
  ASSUME PoolOK, NEW i, Victim(i), FlushVictim(i)
  PROVE  /\ disk' \in [PageIds -> PageContents] /\ fileLen' \in 0..MaxPages
         /\ i \in DOMAIN frames /\ frames[i].dirty => disk'[frames[i].page] = frames[i].content
         /\ \A p \in PageIds :
              ~(i \in DOMAIN frames /\ frames[i].dirty /\ frames[i].page = p) => disk'[p] = disk[p]
<1>1. CASE i \in DOMAIN frames
  <2> DEFINE fs == <<frames[i]>>
  <2>1. fs \in Seq(Frame) /\ DOMAIN fs = {1} /\ fs[1] = frames[i] /\ frames[i].page \in PageIds
    BY <1>1, PoolParts DEF FrameOK
  <2>2. WriteFrames(fs)
    BY <1>1 DEF FlushVictim
  <2> HIDE DEF fs
  <2>3. DistinctPages(fs) /\ \A k \in DOMAIN fs : fs[k].page \in PageIds
    BY <2>1 DEF DistinctPages
  <2>4. disk \in [PageIds -> PageContents] /\ fileLen \in 0..MaxPages /\ MaxPages \in Nat
    BY PoolParts
  <2>5. disk' \in [PageIds -> PageContents] /\ fileLen' \in 0..MaxPages
    BY <2>1, <2>2, <2>3, <2>4, WriteEffect
  <2>6. \A k \in DOMAIN fs : fs[k].dirty => disk'[fs[k].page] = fs[k].content
    BY <2>1, <2>2, <2>3, <2>4, WriteEffect
  <2>7. \A p \in PageIds : (\A k \in DOMAIN fs : fs[k].dirty => fs[k].page # p) => disk'[p] = disk[p]
    BY <2>1, <2>2, <2>3, <2>4, WriteEffect
  <2>8. frames[i].dirty => disk'[frames[i].page] = frames[i].content
    BY <2>1, <2>6
  <2>9. \A p \in PageIds : ~(frames[i].dirty /\ frames[i].page = p) => disk'[p] = disk[p]
    BY <2>1, <2>7
  <2>10. QED
    BY <1>1, <2>5, <2>8, <2>9
<1>2. CASE i \notin DOMAIN frames
  BY <1>2, PoolParts DEF FlushVictim
<1>3. QED
  BY <1>1, <1>2

\* A frame is replaced by g or added: the list stays in its type.
LEMMA PutTyped ==
  ASSUME NEW F, frames \in Seq(F), NEW i, Victim(i), NEW g \in F, frames' = PutFrame(i, g),
         Len(frames) <= MaxFrames, MaxFrames \in Nat
  PROVE  /\ frames' \in Seq(F) /\ Len(frames') <= MaxFrames
         /\ i \in DOMAIN frames' /\ frames'[i] = g
         /\ \A j \in DOMAIN frames' : j # i => j \in DOMAIN frames /\ frames'[j] = frames[j]
         /\ \A j \in DOMAIN frames : j # i => j \in DOMAIN frames'
<1>1. frames \in Seq(F) /\ Len(frames) \in Nat /\ DOMAIN frames = 1..Len(frames)
  BY SeqElements
<1>2. CASE i = Len(frames) + 1
  <2>1. frames' = Append(frames, g) /\ i \notin DOMAIN frames
    BY <1>1, <1>2 DEF PutFrame
  <2>2. Len(frames) < MaxFrames
    BY <1>1, <1>2 DEF Victim
  <2>3. QED
    BY <1>1, <1>2, <2>1, <2>2, SeqAppend
<1>3. CASE i # Len(frames) + 1
  <2>1. i \in DOMAIN frames /\ frames' = [frames EXCEPT ![i] = g]
    BY <1>1, <1>3 DEF PutFrame, Victim
  <2>2. QED
    BY <1>1, <2>1, SeqExcept
<1>4. QED
  BY <1>2, <1>3

\* Page p comes to be in frame g; the other pages are what they were, but for
\* rows that broke off and are read from the disk again.
OnlyPage(p, c) ==
  /\ PoolOK'
  /\ Pages'[p] = c
  /\ \A q \in PageIds : q # p => Like(Pages'[q], Pages[q])

\* The page is found in a frame.
LEMMA HitEffect ==
  ASSUME PoolOK, NEW p \in PageIds, NEW i \in DOMAIN frames, frames[i].page = p,
         NEW g \in Frame, g.page = p, g.content.next < numPages,
         ~g.dirty => Like(g.content, disk[p]),
         frames' = [frames EXCEPT ![i] = g], UNCHANGED <<disk, fileLen, numPages>>
  PROVE  OnlyPage(p, g.content)
<1>1. /\ frames' \in Seq(Frame) /\ Len(frames') = Len(frames) /\ DOMAIN frames' = DOMAIN frames
      /\ frames'[i] = g /\ \A j \in DOMAIN frames : j # i => frames'[j] = frames[j]
  BY PoolParts, SeqExcept
<1>2. DistinctPages(frames')
  BY <1>1, PoolParts DEF DistinctPages
<1>3. FrameOK(g, disk, numPages)
  BY PoolParts DEF FrameOK
<1>4. PoolOK'
  BY <1>1, <1>2, <1>3, PoolParts DEF PoolOK, PoolTypeOK
<1> DEFINE fs == frames'
           d == disk'
<1>a. fs \in Seq(Frame) /\ DistinctPages(fs)
  BY <1>1, <1>2
<1>b. ASSUME NEW q \in PageIds
      PROVE  /\ \A j \in DOMAIN fs : fs[j].page = q => PagesIn(fs, d)[q] = fs[j].content
             /\ (\A j \in DOMAIN fs : fs[j].page # q) => PagesIn(fs, d)[q] = d[q]
  <2> HIDE DEF fs, d
  <2>1. QED
    BY <1>a, CurrentInIs
<1>5. PagesIn(frames', disk')[p] = g.content
  <2>1. i \in DOMAIN frames' /\ frames'[i].page = p
    BY <1>1
  <2>2. PagesIn(frames', disk')[p] = frames'[i].content
    BY <2>1, <1>b
  <2>3. QED
    BY <1>1, <2>2
<1>6. ASSUME NEW q \in PageIds, q # p
      PROVE  PagesIn(frames', disk')[q] = PagesIn(frames, disk)[q]
  <2>0. frames \in Seq(Frame) /\ DistinctPages(frames)
    BY PoolParts
  <2>1. CASE \E j \in DOMAIN frames : frames[j].page = q
    <3>1. PICK j \in DOMAIN frames : frames[j].page = q
      BY <2>1
    <3>2. j \in DOMAIN frames' /\ frames'[j] = frames[j]
      BY <1>1, <1>6, <3>1
    <3>3. PagesIn(frames, disk)[q] = frames[j].content
      BY <2>0, <3>1, CurrentInIs
    <3>4. PagesIn(frames', disk')[q] = frames'[j].content
      BY <3>1, <3>2, <1>b
    <3>5. QED
      BY <3>2, <3>3, <3>4
  <2>2. CASE \A j \in DOMAIN frames : frames[j].page # q
    <3>1. \A j \in DOMAIN frames' : frames'[j].page # q
      BY <1>1, <1>6, <2>2
    <3>2. PagesIn(frames, disk)[q] = disk[q]
      BY <2>0, <2>2, CurrentInIs
    <3>3. PagesIn(frames', disk')[q] = disk'[q]
      BY <3>1, <1>b
    <3>4. QED
      BY <3>2, <3>3
  <2>3. QED
    BY <2>1, <2>2
<1>7. QED
  BY <1>4, <1>5, <1>6, PagesAre DEF OnlyPage, Like

\* The page is read into a frame.
LEMMA MissEffect ==
  ASSUME PoolOK, NEW p \in PageIds, p < numPages, ~Cached(p), NEW i, Victim(i), FlushVictim(i),
         NEW g \in Frame, g.page = p, g.content.next < numPages,
         ~g.dirty => Like(g.content, disk[p]),
         frames' = PutFrame(i, g), numPages' = numPages
  PROVE  OnlyPage(p, g.content)
<1>1. /\ frames' \in Seq(Frame) /\ Len(frames') <= MaxFrames
      /\ i \in DOMAIN frames' /\ frames'[i] = g
      /\ \A j \in DOMAIN frames' : j # i => j \in DOMAIN frames /\ frames'[j] = frames[j]
      /\ \A j \in DOMAIN frames : j # i => j \in DOMAIN frames'
  BY PoolParts, PutTyped
<1>2. \A j \in DOMAIN frames : frames[j].page # p
  BY DEF Cached
<1>3. DistinctPages(frames')
  BY <1>1, <1>2, PoolParts DEF DistinctPages
<1>4. /\ disk' \in [PageIds -> PageContents] /\ fileLen' \in 0..MaxPages
      /\ i \in DOMAIN frames /\ frames[i].dirty => disk'[frames[i].page] = frames[i].content
      /\ \A q \in PageIds :
           ~(i \in DOMAIN frames /\ frames[i].dirty /\ frames[i].page = q) => disk'[q] = disk[q]
  BY VictimEffect
<1>5. disk'[p] = disk[p]
  BY <1>2, <1>4
<1>6. FrameOK(g, disk', numPages)
  BY <1>5 DEF FrameOK
<1>7. ASSUME NEW j \in DOMAIN frames, j # i
      PROVE  disk'[frames[j].page] = disk[frames[j].page]
  BY <1>4, <1>7, PoolParts DEF DistinctPages, FrameOK
<1>8. \A j \in DOMAIN frames' : FrameOK(frames'[j], disk', numPages)
  BY <1>1, <1>6, <1>7, PoolParts DEF FrameOK
<1>9. ASSUME NEW q \in PageIds PROVE disk'[q].next < numPages
  <2>1. CASE disk'[q] = disk[q]
    BY <2>1, PoolParts
  <2>2. CASE i \in DOMAIN frames /\ frames[i].dirty /\ frames[i].page = q
    BY <1>4, <2>2, PoolParts DEF FrameOK
  <2>3. QED
    BY <1>4, <2>1, <2>2
<1>10. PoolOK'
  BY <1>1, <1>3, <1>4, <1>8, <1>9, PoolParts DEF PoolOK, PoolTypeOK
<1>11. PagesIn(frames', disk')[p] = g.content
  <2>1. i \in DOMAIN frames' /\ frames'[i].page = p
    BY <1>1
  <2>2. PagesIn(frames', disk')[p] = frames'[i].content
    BY <1>1, <1>3, <2>1, CurrentInIs
  <2>3. QED
    BY <1>1, <2>2
<1>12. ASSUME NEW q \in PageIds, q # p
       PROVE  Like(PagesIn(frames', disk')[q], PagesIn(frames, disk)[q])
  <2>0. frames \in Seq(Frame) /\ DistinctPages(frames)
    BY PoolParts
  <2>1. CASE \E j \in DOMAIN frames : j # i /\ frames[j].page = q
    <3>1. PICK j \in DOMAIN frames : j # i /\ frames[j].page = q
      BY <2>1
    <3>2. j \in DOMAIN frames' /\ frames'[j] = frames[j]
      BY <1>1, <3>1
    <3>3. PagesIn(frames, disk)[q] = frames[j].content
      BY <2>0, <3>1, CurrentInIs
    <3>4. PagesIn(frames', disk')[q] = frames'[j].content
      BY <1>1, <1>3, <3>1, <3>2, CurrentInIs
    <3>5. QED
      BY <3>2, <3>3, <3>4 DEF Like
  <2>2. CASE i \in DOMAIN frames /\ frames[i].page = q
    <3>1. \A j \in DOMAIN frames' : frames'[j].page # q
      BY <1>1, <1>12, <2>2, PoolParts DEF DistinctPages
    <3>2. PagesIn(frames', disk')[q] = disk'[q] /\ PagesIn(frames, disk)[q] = frames[i].content
      <4>1. PagesIn(frames', disk')[q] = disk'[q]
        BY <1>1, <1>3, <3>1, CurrentInIs
      <4>2. PagesIn(frames, disk)[q] = frames[i].content
        BY <2>0, <2>2, CurrentInIs
      <4>3. QED
        BY <4>1, <4>2
    <3>3. CASE frames[i].dirty
      BY <1>4, <2>2, <3>2, <3>3 DEF Like
    <3>4. CASE ~frames[i].dirty
      <4>1. disk'[q] = disk[q]
        BY <1>4, <3>4
      <4>2. Like(frames[i].content, disk[q])
        BY <2>2, <3>4, PoolParts DEF FrameOK
      <4>3. QED
        BY <3>2, <4>1, <4>2 DEF Like
    <3>5. QED
      BY <3>3, <3>4
  <2>3. CASE \A j \in DOMAIN frames : frames[j].page # q
    <3>1. \A j \in DOMAIN frames' : frames'[j].page # q
      BY <1>1, <1>12, <2>3
    <3>2. disk'[q] = disk[q]
      BY <1>4, <2>3
    <3>3. PagesIn(frames', disk')[q] = disk'[q]
      BY <1>1, <1>3, <3>1, CurrentInIs
    <3>4. PagesIn(frames, disk)[q] = disk[q]
      BY <2>0, <2>3, CurrentInIs
    <3>5. QED
      BY <3>2, <3>3, <3>4 DEF Like
  <2>4. QED
    BY <2>1, <2>2, <2>3
<1>13. QED
  BY <1>10, <1>11, <1>12, PagesAre DEF OnlyPage

------------------------------------------------------------------------------
(* The calls of the pool *)

\* One pin more changes nothing else.
LEMMA PinFields ==
  ASSUME NEW f \in Frame
  PROVE  /\ PinnedFrame(f) \in Frame /\ PinnedFrame(f).page = f.page
         /\ PinnedFrame(f).content = f.content /\ PinnedFrame(f).dirty = f.dirty
BY DEF PinnedFrame, Frame

\* Neither does one pin less.
LEMMA UnpinFields ==
  ASSUME NEW f \in Frame
  PROVE  /\ UnpinnedFrame(f) \in Frame /\ UnpinnedFrame(f).page = f.page
         /\ UnpinnedFrame(f).content = f.content /\ UnpinnedFrame(f).dirty = f.dirty
BY DEF UnpinnedFrame, Frame

\* A changed page is dirty.
LEMMA WriteFields ==
  ASSUME NEW f \in Frame, NEW c \in PageContents
  PROVE  /\ WrittenFrame(f, c) \in Frame /\ WrittenFrame(f, c).page = f.page
         /\ WrittenFrame(f, c).content = c /\ WrittenFrame(f, c).dirty = TRUE
BY DEF WrittenFrame, Frame

\* A page changed by a call that raises is not.
LEMMA BreakFields ==
  ASSUME NEW f \in Frame, NEW c \in PageContents
  PROVE  /\ [f EXCEPT !.content = c] \in Frame /\ [f EXCEPT !.content = c].page = f.page
         /\ [f EXCEPT !.content = c].content = c /\ [f EXCEPT !.content = c].dirty = f.dirty
BY DEF Frame

\* A page that was written is clean.
LEMMA CleanFields ==
  ASSUME NEW f \in Frame
  PROVE  /\ [f EXCEPT !.dirty = FALSE] \in Frame /\ [f EXCEPT !.dirty = FALSE].page = f.page
         /\ [f EXCEPT !.dirty = FALSE].content = f.content /\ [f EXCEPT !.dirty = FALSE].dirty = FALSE
BY DEF Frame

\* Where the page of a call of get_page is.
LEMMA Fetched ==
  ASSUME PoolOK, NEW p \in PageIds
  PROVE  /\ \A i : Found(p, i) => /\ i \in DOMAIN frames /\ frames[i].page = p
                                  /\ frames[i] \in Frame /\ FrameOK(frames[i], disk, numPages)
                                  /\ Pages[p] = frames[i].content
         /\ ~Cached(p) => Pages[p] = disk[p]
<1>0. frames \in Seq(Frame) /\ DistinctPages(frames)
  BY PoolParts
<1>1. ASSUME NEW i, Found(p, i)
      PROVE  /\ i \in DOMAIN frames /\ frames[i].page = p
             /\ frames[i] \in Frame /\ FrameOK(frames[i], disk, numPages)
             /\ Pages[p] = frames[i].content
  <2>1. i \in DOMAIN frames /\ frames[i].page = p
    BY <1>1 DEF Found
  <2>2. PagesIn(frames, disk)[p] = frames[i].content
    BY <1>0, <2>1, CurrentInIs
  <2>3. QED
    BY <2>1, <2>2, PoolParts, PagesAre
<1>2. ASSUME ~Cached(p) PROVE Pages[p] = disk[p]
  <2>1. \A i \in DOMAIN frames : frames[i].page # p
    BY <1>2 DEF Cached
  <2>2. PagesIn(frames, disk)[p] = disk[p]
    BY <1>0, <2>1, CurrentInIs
  <2>3. QED
    BY <2>2, PagesAre
<1>3. QED
  BY <1>1, <1>2

\* The frame of a page that has just been read.
ReadFrame(p) == [page |-> p, content |-> disk[p], dirty |-> FALSE, pins |-> 1]

\* It is a frame, with a link to an allocated page.
LEMMA ReadFrameOK ==
  ASSUME PoolOK, NEW p \in PageIds
  PROVE  /\ ReadFrame(p) \in Frame /\ ReadFrame(p).page = p /\ ReadFrame(p).content = disk[p]
         /\ ~ReadFrame(p).dirty /\ disk[p].next < numPages
         /\ disk[p] \in PageContents
<1>1. disk[p] \in PageContents /\ disk[p].next < numPages
  BY PoolParts
<1>2. ReadFrame(p) \in Frame
  BY <1>1 DEF ReadFrame, Frame
<1>3. QED
  BY <1>1, <1>2 DEF ReadFrame

\* A writer's bracket around a change of p: p then has the new content.
LEMMA UpdateEffect ==
  ASSUME PoolOK, NEW p \in PageIds, NEW c \in PageContents, c.next < numPages, UpdatePage(p, c)
  PROVE  OnlyPage(p, c) /\ numPages' = numPages
<1>1. CASE \E i \in DOMAIN frames :
             /\ Found(p, i)
             /\ frames' = [frames EXCEPT ![i] = UnpinnedFrame(WrittenFrame(PinnedFrame(frames[i]), c))]
             /\ UNCHANGED <<disk, fileLen, numPages>>
  <2>1. PICK i \in DOMAIN frames :
             /\ Found(p, i)
             /\ frames' = [frames EXCEPT ![i] = UnpinnedFrame(WrittenFrame(PinnedFrame(frames[i]), c))]
             /\ UNCHANGED <<disk, fileLen, numPages>>
    BY <1>1
  <2>2. frames[i] \in Frame /\ frames[i].page = p
    BY <2>1, Fetched
  <2> DEFINE h == PinnedFrame(frames[i])
           g == UnpinnedFrame(WrittenFrame(h, c))
  <2>3. g \in Frame /\ g.page = p /\ g.content = c /\ g.dirty = TRUE
    <3>1. h \in Frame /\ h.page = p
      BY <2>2, PinFields
    <3> HIDE DEF h
    <3>2. /\ WrittenFrame(h, c) \in Frame /\ WrittenFrame(h, c).page = p
          /\ WrittenFrame(h, c).content = c /\ WrittenFrame(h, c).dirty = TRUE
      BY <3>1, WriteFields
    <3>3. QED
      BY <3>2, UnpinFields
  <2> HIDE DEF g
  <2>4. OnlyPage(p, g.content)
    BY <2>1, <2>2, <2>3, HitEffect DEF g
  <2>5. QED
    BY <2>1, <2>3, <2>4
<1>2. CASE \E i \in 1..MaxFrames :
             /\ ~Cached(p) /\ p < numPages /\ Victim(i) /\ FlushVictim(i)
             /\ frames' = PutFrame(i, UnpinnedFrame(WrittenFrame(ReadFrame(p), c)))
             /\ UNCHANGED numPages
  <2>1. PICK i \in 1..MaxFrames :
             /\ ~Cached(p) /\ p < numPages /\ Victim(i) /\ FlushVictim(i)
             /\ frames' = PutFrame(i, UnpinnedFrame(WrittenFrame(ReadFrame(p), c)))
             /\ UNCHANGED numPages
    BY <1>2
  <2> DEFINE g == UnpinnedFrame(WrittenFrame(ReadFrame(p), c))
  <2>2. g \in Frame /\ g.page = p /\ g.content = c /\ g.dirty = TRUE
    <3>1. ReadFrame(p) \in Frame /\ ReadFrame(p).page = p
      BY ReadFrameOK
    <3>2. /\ WrittenFrame(ReadFrame(p), c) \in Frame /\ WrittenFrame(ReadFrame(p), c).page = p
          /\ WrittenFrame(ReadFrame(p), c).content = c /\ WrittenFrame(ReadFrame(p), c).dirty = TRUE
      BY <3>1, WriteFields
    <3>3. QED
      BY <3>2, UnpinFields
  <2> HIDE DEF g
  <2>3. OnlyPage(p, g.content)
    BY <2>1, <2>2, MissEffect DEF g
  <2>4. QED
    BY <2>1, <2>2, <2>3
<1>3. QED
  BY <1>1, <1>2 DEF UpdatePage, GetPage, ReadFrame

\* A look at p changes no page.
LEMMA InspectEffect ==
  ASSUME PoolOK, NEW p \in PageIds, InspectPage(p)
  PROVE  OnlyPage(p, Pages[p]) /\ numPages' = numPages
<1>1. CASE \E i \in DOMAIN frames :
             /\ Found(p, i)
             /\ frames' = [frames EXCEPT ![i] = UnpinnedFrame(PinnedFrame(frames[i]))]
             /\ UNCHANGED <<disk, fileLen, numPages>>
  <2>1. PICK i \in DOMAIN frames :
             /\ Found(p, i)
             /\ frames' = [frames EXCEPT ![i] = UnpinnedFrame(PinnedFrame(frames[i]))]
             /\ UNCHANGED <<disk, fileLen, numPages>>
    BY <1>1
  <2>2. /\ frames[i] \in Frame /\ frames[i].page = p /\ FrameOK(frames[i], disk, numPages)
        /\ Pages[p] = frames[i].content /\ frames[i].content \in PageContents
    BY <2>1, Fetched DEF Frame
  <2> DEFINE g == UnpinnedFrame(PinnedFrame(frames[i]))
  <2>3. g \in Frame /\ g.page = p /\ g.content = frames[i].content /\ g.dirty = frames[i].dirty
    <3>1. /\ PinnedFrame(frames[i]) \in Frame /\ PinnedFrame(frames[i]).page = p
          /\ PinnedFrame(frames[i]).content = frames[i].content
          /\ PinnedFrame(frames[i]).dirty = frames[i].dirty
      BY <2>2, PinFields
    <3>2. QED
      BY <3>1, UnpinFields
  <2> HIDE DEF g
  <2>4. g.content.next < numPages /\ (~g.dirty => Like(g.content, disk[p]))
    BY <2>2, <2>3 DEF FrameOK
  <2>5. OnlyPage(p, g.content)
    BY <2>1, <2>2, <2>3, <2>4, HitEffect DEF g
  <2>6. QED
    BY <2>1, <2>2, <2>3, <2>5
<1>2. CASE \E i \in 1..MaxFrames :
             /\ ~Cached(p) /\ p < numPages /\ Victim(i) /\ FlushVictim(i)
             /\ frames' = PutFrame(i, UnpinnedFrame(ReadFrame(p)))
             /\ UNCHANGED numPages
  <2>1. PICK i \in 1..MaxFrames :
             /\ ~Cached(p) /\ p < numPages /\ Victim(i) /\ FlushVictim(i)
             /\ frames' = PutFrame(i, UnpinnedFrame(ReadFrame(p)))
             /\ UNCHANGED numPages
    BY <1>2
  <2> DEFINE g == UnpinnedFrame(ReadFrame(p))
  <2>2. g \in Frame /\ g.page = p /\ g.content = disk[p] /\ Pages[p] = disk[p]
        /\ g.content.next < numPages
    <3>1. /\ ReadFrame(p) \in Frame /\ ReadFrame(p).page = p /\ ReadFrame(p).content = disk[p]
          /\ disk[p].next < numPages
      BY ReadFrameOK
    <3>2. g \in Frame /\ g.page = p /\ g.content = disk[p]
      BY <3>1, UnpinFields
    <3>3. Pages[p] = disk[p]
      BY <2>1, Fetched
    <3>4. QED
      BY <3>1, <3>2, <3>3
  <2> HIDE DEF g
  <2>3. OnlyPage(p, g.content)
    BY <2>1, <2>2, MissEffect DEF g, Like
  <2>4. QED
    BY <2>1, <2>2, <2>3
<1>3. QED
  BY <1>1, <1>2 DEF InspectPage, GetPage, ReadFrame

\* Neither does fetching p and keeping it.
LEMMA HoldEffect ==
  ASSUME PoolOK, NEW p \in PageIds, HoldPage(p)
  PROVE  OnlyPage(p, Pages[p]) /\ numPages' = numPages
<1>1. CASE \E i \in DOMAIN frames :
             /\ Found(p, i)
             /\ frames' = [frames EXCEPT ![i] = PinnedFrame(frames[i])]
             /\ UNCHANGED <<disk, fileLen, numPages>>
  <2>1. PICK i \in DOMAIN frames :
             /\ Found(p, i)
             /\ frames' = [frames EXCEPT ![i] = PinnedFrame(frames[i])]
             /\ UNCHANGED <<disk, fileLen, numPages>>
    BY <1>1
  <2>2. /\ frames[i] \in Frame /\ frames[i].page = p /\ FrameOK(frames[i], disk, numPages)
        /\ Pages[p] = frames[i].content /\ frames[i].content \in PageContents
    BY <2>1, Fetched DEF Frame
  <2> DEFINE g == PinnedFrame(frames[i])
  <2>3. g \in Frame /\ g.page = p /\ g.content = frames[i].content /\ g.dirty = frames[i].dirty
    BY <2>2, PinFields
  <2> HIDE DEF g
  <2>4. g.content.next < numPages /\ (~g.dirty => Like(g.content, disk[p]))
    BY <2>2, <2>3 DEF FrameOK
  <2>5. OnlyPage(p, g.content)
    BY <2>1, <2>2, <2>3, <2>4, HitEffect DEF g
  <2>6. QED
    BY <2>1, <2>2, <2>3, <2>5
<1>2. CASE \E i \in 1..MaxFrames :
             /\ ~Cached(p) /\ p < numPages /\ Victim(i) /\ FlushVictim(i)
             /\ frames' = PutFrame(i, ReadFrame(p))
             /\ UNCHANGED numPages
  <2>1. PICK i \in 1..MaxFrames :
             /\ ~Cached(p) /\ p < numPages /\ Victim(i) /\ FlushVictim(i)
             /\ frames' = PutFrame(i, ReadFrame(p))
             /\ UNCHANGED numPages
    BY <1>2
  <2> DEFINE g == ReadFrame(p)
  <2>2. g \in Frame /\ g.page = p /\ g.content = disk[p] /\ Pages[p] = disk[p]
        /\ g.content.next < numPages
    BY <2>1, ReadFrameOK, Fetched
  <2> HIDE DEF g
  <2>3. OnlyPage(p, g.content)
    BY <2>1, <2>2, MissEffect DEF g, Like
  <2>4. QED
    BY <2>1, <2>2, <2>3
<1>3. QED
  BY <1>1, <1>2 DEF HoldPage, GetPage, ReadFrame

\* A page with one record more.
LEMMA RecordFields ==
  ASSUME NEW c \in PageContents, NEW r \in Records
  PROVE  /\ WithRecord(c, r) \in PageContents /\ WithRecord(c, r).slots = Append(c.slots, r)
         /\ WithRecord(c, r).kind = c.kind /\ WithRecord(c, r).name = c.name
         /\ WithRecord(c, r).next = c.next
<1>1. c.slots \in Seq(Row \cup Entry) /\ r \in Row \cup Entry
  BY DEF PageContents, Records
<1> DEFINE x == Append(c.slots, r)
<1>2. x \in Seq(Row \cup Entry)
  BY <1>1, SeqAppend
<1> HIDE DEF x
<1>3. WithRecord(c, r) = [c EXCEPT !.slots = x]
  BY DEF WithRecord, x
<1>4. /\ [c EXCEPT !.slots = x] \in PageContents /\ [c EXCEPT !.slots = x].slots = x
      /\ [c EXCEPT !.slots = x].kind = c.kind /\ [c EXCEPT !.slots = x].name = c.name
      /\ [c EXCEPT !.slots = x].next = c.next
  BY <1>2 DEF PageContents
<1>5. QED
  BY <1>3, <1>4 DEF x

\* A page with another link.
LEMMA NextFields ==
  ASSUME NEW c \in PageContents, NEW q \in Links
  PROVE  /\ WithNext(c, q) \in PageContents /\ WithNext(c, q).slots = c.slots
         /\ WithNext(c, q).kind = c.kind /\ WithNext(c, q).name = c.name
         /\ WithNext(c, q).next = q
BY DEF WithNext, PageContents

\* A record that breaks off half-written stays in a clean frame.
LEMMA BreakEffect ==
  ASSUME PoolOK, NEW p \in PageIds, Pages[p].name \in BadRows,
         GetPage(p, LAMBDA f : [f EXCEPT !.content = WithRecord(f.content, HalfWritten)])
  PROVE  OnlyPage(p, WithRecord(Pages[p], HalfWritten)) /\ numPages' = numPages
<1> DEFINE Broken(f) == [f EXCEPT !.content = WithRecord(f.content, HalfWritten)]
<1>1. ASSUME NEW f \in Frame, f.page = p, f.content = Pages[p], f.content.next < numPages,
             ~f.dirty => Like(f.content, disk[p])
      PROVE  /\ Broken(f) \in Frame /\ Broken(f).page = p
             /\ Broken(f).content = WithRecord(Pages[p], HalfWritten)
             /\ Broken(f).content.next < numPages
             /\ ~Broken(f).dirty => Like(Broken(f).content, disk[p])
  <2> DEFINE c == WithRecord(f.content, HalfWritten)
  <2>1. f.content \in PageContents /\ HalfWritten \in Records
    BY DEF Frame, HalfWritten, Row, Records
  <2>2. c \in PageContents /\ c.next = f.content.next /\ c.kind = f.content.kind /\ c.name = f.content.name
    BY <2>1, RecordFields
  <2> HIDE DEF c
  <2>3. Broken(f) = [f EXCEPT !.content = c]
    BY DEF c
  <2> HIDE DEF Broken
  <2>4. Broken(f) \in Frame /\ Broken(f).page = p /\ Broken(f).content = c /\ Broken(f).dirty = f.dirty
    BY <1>1, <2>2, <2>3, BreakFields
  <2>5. ~f.dirty => Like(c, disk[p])
    BY <1>1, <2>2 DEF Like
  <2>6. QED
    BY <1>1, <2>2, <2>4, <2>5 DEF c
<1>2. \/ \E i \in DOMAIN frames :
           /\ Found(p, i)
           /\ frames' = [frames EXCEPT ![i] = Broken(PinnedFrame(frames[i]))]
           /\ UNCHANGED <<disk, fileLen, numPages>>
      \/ \E i \in 1..MaxFrames :
           /\ ~Cached(p) /\ p < numPages /\ Victim(i) /\ FlushVictim(i)
           /\ frames' = PutFrame(i, Broken(ReadFrame(p)))
           /\ UNCHANGED numPages
  BY DEF GetPage, ReadFrame
<1> HIDE DEF Broken
<1>3. CASE \E i \in DOMAIN frames :
             /\ Found(p, i)
             /\ frames' = [frames EXCEPT ![i] = Broken(PinnedFrame(frames[i]))]
             /\ UNCHANGED <<disk, fileLen, numPages>>
  <2>1. PICK i \in DOMAIN frames :
             /\ Found(p, i)
             /\ frames' = [frames EXCEPT ![i] = Broken(PinnedFrame(frames[i]))]
             /\ UNCHANGED <<disk, fileLen, numPages>>
    BY <1>3
  <2>2. /\ frames[i] \in Frame /\ frames[i].page = p /\ FrameOK(frames[i], disk, numPages)
        /\ Pages[p] = frames[i].content
    BY <2>1, Fetched
  <2> DEFINE h == PinnedFrame(frames[i])
             g == Broken(h)
  <2>3. h \in Frame /\ h.page = p /\ h.content = Pages[p] /\ h.dirty = frames[i].dirty
    BY <2>2, PinFields
  <2>4. frames' = [frames EXCEPT ![i] = g]
    BY <2>1
  <2> HIDE DEF h
  <2>5. h.content.next < numPages /\ (~h.dirty => Like(h.content, disk[p]))
    BY <2>2, <2>3 DEF FrameOK
  <2>6. /\ g \in Frame /\ g.page = p /\ g.content = WithRecord(Pages[p], HalfWritten)
        /\ g.content.next < numPages /\ (~g.dirty => Like(g.content, disk[p]))
    BY <1>1, <2>3, <2>5
  <2> HIDE DEF g
  <2>7. OnlyPage(p, g.content)
    BY <2>1, <2>2, <2>4, <2>6, HitEffect
  <2>8. QED
    BY <2>1, <2>6, <2>7
<1>4. CASE \E i \in 1..MaxFrames :
             /\ ~Cached(p) /\ p < numPages /\ Victim(i) /\ FlushVictim(i)
             /\ frames' = PutFrame(i, Broken(ReadFrame(p)))
             /\ UNCHANGED numPages
  <2>1. PICK i \in 1..MaxFrames :
             /\ ~Cached(p) /\ p < numPages /\ Victim(i) /\ FlushVictim(i)
             /\ frames' = PutFrame(i, Broken(ReadFrame(p)))
             /\ UNCHANGED numPages
    BY <1>4
  <2> DEFINE h == ReadFrame(p)
             g == Broken(h)
  <2>2. h \in Frame /\ h.page = p /\ h.content = disk[p] /\ Pages[p] = disk[p] /\ h.content.next < numPages
    BY <2>1, ReadFrameOK, Fetched
  <2>3. frames' = PutFrame(i, g)
    BY <2>1
  <2> HIDE DEF h
  <2>4. ~h.dirty => Like(h.content, disk[p])
    BY <2>2 DEF Like
  <2>5. /\ g \in Frame /\ g.page = p /\ g.content = WithRecord(Pages[p], HalfWritten)
        /\ g.content.next < numPages /\ (~g.dirty => Like(g.content, disk[p]))
    BY <1>1, <2>2, <2>4
  <2> HIDE DEF g
  <2>6. OnlyPage(p, g.content)
    BY <2>1, <2>3, <2>5, MissEffect
  <2>7. QED
    BY <2>1, <2>5, <2>6
<1>5. QED
  BY <1>2, <1>3, <1>4

\* The frames keep their pages and contents, and a page that is in no frame
\* keeps its content on disk.
LEMMA QuietEffect ==
  ASSUME PoolOK, frames' \in Seq(Frame), DOMAIN frames' = DOMAIN frames,
         \A i \in DOMAIN frames : /\ frames'[i].page = frames[i].page
                                  /\ frames'[i].content = frames[i].content
                                  /\ FrameOK(frames'[i], disk', numPages'),
         disk' \in [PageIds -> PageContents], fileLen' \in 0..MaxPages, numPages' \in 0..MaxPages,
         \A p \in PageIds : disk'[p].next < numPages',
         \A p \in PageIds : (\A i \in DOMAIN frames : frames[i].page # p) => disk'[p] = disk[p]
  PROVE  PoolOK' /\ Pages' = Pages
<1>1. /\ frames \in Seq(Frame) /\ DistinctPages(frames) /\ Len(frames) <= MaxFrames
      /\ Len(frames) \in Nat /\ DOMAIN frames = 1..Len(frames)
  BY PoolParts
<1> DEFINE fs == frames'
           d == disk'
<1>2. fs \in Seq(Frame) /\ DistinctPages(fs) /\ DOMAIN fs = DOMAIN frames
  BY <1>1 DEF DistinctPages
<1>3. Len(fs) = Len(frames)
  <2> HIDE DEF fs
  <2>1. Len(fs) \in Nat /\ DOMAIN fs = 1..Len(fs)
    BY <1>2, SeqElements
  <2>2. QED
    BY <1>1, <1>2, <2>1
<1>4. PoolOK'
  BY <1>1, <1>2, <1>3 DEF PoolOK, PoolTypeOK
<1>5. ASSUME NEW q \in PageIds
      PROVE  /\ \A j \in DOMAIN fs : fs[j].page = q => PagesIn(fs, d)[q] = fs[j].content
             /\ (\A j \in DOMAIN fs : fs[j].page # q) => PagesIn(fs, d)[q] = d[q]
  <2> HIDE DEF fs, d
  <2>1. QED
    BY <1>2, CurrentInIs
<1>6. ASSUME NEW q \in PageIds
      PROVE  PagesIn(fs, d)[q] = PagesIn(frames, disk)[q]
  <2>1. CASE \E j \in DOMAIN frames : frames[j].page = q
    <3>1. PICK j \in DOMAIN frames : frames[j].page = q
      BY <2>1
    <3>2. PagesIn(frames, disk)[q] = frames[j].content
      BY <1>1, <3>1, CurrentInIs
    <3>3. PagesIn(fs, d)[q] = fs[j].content
      BY <1>2, <1>5, <3>1
    <3>4. QED
      BY <3>1, <3>2, <3>3
  <2>2. CASE \A j \in DOMAIN frames : frames[j].page # q
    <3>1. PagesIn(frames, disk)[q] = disk[q]
      BY <1>1, <2>2, CurrentInIs
    <3>2. PagesIn(fs, d)[q] = d[q]
      BY <1>2, <1>5, <2>2
    <3>3. QED
      BY <2>2, <3>1, <3>2
  <2>3. QED
    BY <2>1, <2>2
<1>7. PagesIn(fs, d) = PagesIn(frames, disk)
  BY <1>6 DEF PagesIn
<1>8. QED
  BY <1>4, <1>7, PagesAre

\* Giving a page back changes no page.
LEMMA UnpinEffect ==
  ASSUME PoolOK, NEW p, UnpinPage(p, FALSE)
  PROVE  PoolOK' /\ Pages' = Pages /\ numPages' = numPages
<1>1. \A f \in Frame : DirtiedFrame(f, FALSE) = f
  BY DEF DirtiedFrame, Frame
<1>2. /\ frames' = [i \in DOMAIN frames |->
                      IF Found(p, i) THEN UnpinnedFrame(DirtiedFrame(frames[i], FALSE)) ELSE frames[i]]
      /\ UNCHANGED <<disk, fileLen, numPages>>
  BY DEF UnpinPage, OnFrame
<1>3. \A i \in DOMAIN frames : /\ frames'[i] = IF Found(p, i) THEN UnpinnedFrame(frames[i]) ELSE frames[i]
                               /\ frames[i] \in Frame
  BY <1>1, <1>2, PoolParts
<1>4. \A i \in DOMAIN frames :
        /\ frames'[i] \in Frame /\ frames'[i].page = frames[i].page
        /\ frames'[i].content = frames[i].content /\ frames'[i].dirty = frames[i].dirty
  BY <1>3, UnpinFields
<1>5. frames' \in Seq(Frame) /\ DOMAIN frames' = DOMAIN frames
  <2>1. frames' \in [1..Len(frames) -> Frame] /\ Len(frames) \in Nat
    BY <1>2, <1>4, PoolParts
  <2>2. QED
    BY <1>2, <2>1, FunctionIsSeq
<1>6. \A i \in DOMAIN frames : FrameOK(frames'[i], disk', numPages')
  BY <1>2, <1>4, PoolParts DEF FrameOK
<1>7. QED
  BY <1>2, <1>4, <1>5, <1>6, PoolParts, QuietEffect

\* Neither does writing the dirty pages.
LEMMA FlushEffect ==
  ASSUME PoolOK, FlushDirty
  PROVE  PoolOK' /\ Pages' = Pages /\ numPages' = numPages
<1>1. /\ frames' = [i \in DOMAIN frames |->
                      IF frames[i].dirty THEN FlushedFrame(frames[i]) ELSE frames[i]]
      /\ WriteFrames(frames) /\ numPages' = numPages
  BY DEF FlushDirty
<1>2. \A i \in DOMAIN frames : frames[i] \in Frame /\ frames[i].page \in PageIds
  BY PoolParts DEF FrameOK
<1>3. /\ disk' \in [PageIds -> PageContents] /\ fileLen' \in 0..MaxPages
      /\ \A i \in DOMAIN frames : frames[i].dirty => disk'[frames[i].page] = frames[i].content
      /\ \A p \in PageIds :
           (\A i \in DOMAIN frames : frames[i].dirty => frames[i].page # p) => disk'[p] = disk[p]
  BY <1>1, <1>2, PoolParts, WriteEffect
<1>4. ASSUME NEW f \in Frame
      PROVE  /\ FlushedFrame(f) \in Frame /\ FlushedFrame(f).page = f.page
             /\ FlushedFrame(f).content = f.content /\ FlushedFrame(f).dirty = FALSE
  <2>1. UnpinnedFrame(f) \in Frame /\ UnpinnedFrame(f).page = f.page /\ UnpinnedFrame(f).content = f.content
    BY UnpinFields
  <2>2. QED
    BY <2>1, CleanFields DEF FlushedFrame
<1>5. ASSUME NEW i \in DOMAIN frames
      PROVE  /\ frames'[i] \in Frame /\ frames'[i].page = frames[i].page
             /\ frames'[i].content = frames[i].content /\ frames'[i].dirty = FALSE
  <2>1. frames'[i] = IF frames[i].dirty THEN FlushedFrame(frames[i]) ELSE frames[i]
    BY <1>1
  <2>2. frames[i] \in Frame /\ (frames[i].dirty = TRUE \/ frames[i].dirty = FALSE)
    BY <1>2 DEF Frame
  <2>3. CASE frames[i].dirty = TRUE
    <3>1. frames'[i] = FlushedFrame(frames[i])
      BY <2>1, <2>3
    <3>2. QED
      BY <1>4, <2>2, <3>1
  <2>4. CASE frames[i].dirty = FALSE
    BY <2>1, <2>2, <2>4
  <2>5. QED
    BY <2>2, <2>3, <2>4
<1>6. frames' \in Seq(Frame) /\ DOMAIN frames' = DOMAIN frames
  <2>1. frames' \in [1..Len(frames) -> Frame] /\ Len(frames) \in Nat
    BY <1>1, <1>5, PoolParts
  <2>2. QED
    BY <1>1, <2>1, FunctionIsSeq
<1>7. ASSUME NEW i \in DOMAIN frames PROVE Like(frames[i].content, disk'[frames[i].page])
  <2>1. CASE frames[i].dirty
    BY <1>3, <2>1 DEF Like
  <2>2. CASE ~frames[i].dirty
    <3>1. \A j \in DOMAIN frames : frames[j].dirty => frames[j].page # frames[i].page
      BY <2>2, PoolParts DEF DistinctPages
    <3>2. disk'[frames[i].page] = disk[frames[i].page]
      BY <1>2, <1>3, <3>1
    <3>3. QED
      BY <2>2, <3>2, PoolParts DEF FrameOK
  <2>3. QED
    BY <2>1, <2>2
<1>8. \A i \in DOMAIN frames : FrameOK(frames'[i], disk', numPages')
  BY <1>1, <1>5, <1>7, PoolParts DEF FrameOK
<1>9. ASSUME NEW p \in PageIds PROVE disk'[p].next < numPages'
  <2>1. CASE \E i \in DOMAIN frames : frames[i].dirty /\ frames[i].page = p
    BY <1>1, <1>3, <2>1, PoolParts DEF FrameOK
  <2>2. CASE \A i \in DOMAIN frames : frames[i].dirty => frames[i].page # p
    BY <1>1, <1>3, <2>2, PoolParts
  <2>3. QED
    BY <2>1, <2>2
<1>10. QED
  BY <1>1, <1>3, <1>5, <1>6, <1>8, <1>9, PoolParts, QuietEffect

\* A new page id is only counted.
LEMMA NewPageEffect ==
  ASSUME PoolOK, GetNewPage
  PROVE  PoolOK' /\ Pages' = Pages /\ numPages' = numPages + 1 /\ numPages \in PageIds
<1>1. numPages < MaxPages /\ numPages' = numPages + 1 /\ UNCHANGED <<frames, disk, fileLen>>
  BY DEF GetNewPage
<1>2. numPages \in Nat /\ MaxPages \in Nat /\ numPages' \in 0..MaxPages /\ numPages \in PageIds
  BY <1>1, PoolParts DEF PageIds
<1>3. \A p \in PageIds : disk[p].next \in Links /\ disk[p].next < numPages
  BY PoolParts DEF PageContents
<1>4. ASSUME NEW i \in DOMAIN frames PROVE FrameOK(frames[i], disk, numPages + 1)
  <2>1. frames[i].content \in PageContents /\ FrameOK(frames[i], disk, numPages)
    BY PoolParts DEF Frame
  <2>2. frames[i].content.next \in Int /\ frames[i].page \in Nat
    BY <2>1, PoolParts DEF PageContents, Links, FrameOK
  <2>3. frames[i].page < numPages + 1 /\ frames[i].content.next < numPages + 1
    BY <1>2, <2>1, <2>2 DEF FrameOK
  <2>4. QED
    BY <2>1, <2>3 DEF FrameOK
<1>5. PoolOK'
  BY <1>1, <1>2, <1>3, <1>4, PoolParts DEF PoolOK, PoolTypeOK, Links
<1>6. QED
  BY <1>1, <1>2, <1>5, PagesAre

\* A pool that stays the same keeps its pages.
LEMMA SamePool ==
  ASSUME PoolOK, UNCHANGED pool
  PROVE  PoolOK' /\ Pages' = Pages /\ numPages' = numPages
<1>1. UNCHANGED <<frames, disk, fileLen, numPages>>
  BY DEF pool
<1>2. QED
  BY <1>1, PagesAre DEF PoolOK, PoolTypeOK

------------------------------------------------------------------------------
(* The chains of the tables *)

\* C is the chain of table t among the first n pages: data pages of t, all but
\* the last of them full, unless rows of t may break off.
Whole(pg, n, t, C) ==
  /\ IsPath(pg, FirstPage[t], C)
  /\ \A i \in 1..Len(C) : C[i] < n /\ pg[C[i]].kind = "data" /\ pg[C[i]].name = t
  /\ t \notin BadRows => \A i \in 1..(Len(C) - 1) : ~HasRoom(pg[C[i]])

\* An index is the last one or one before it.
LEMMA LastOrBefore ==
  ASSUME NEW n \in Nat, NEW i \in 1..n
  PROVE  i = n \/ i \in 1..(n - 1)
OBVIOUS

\* Page ids are natural numbers, and links.
LEMMA PageIdsAre == \A p \in PageIds : p \in Nat /\ p \in Links /\ p # NoLink
BY CapacityAssumption DEF PageIds, Links, NoLink

\* The pages of a chain are where one expects them.
LEMMA WholeParts ==
  ASSUME NEW pg, NEW n, NEW t, NEW C, Whole(pg, n, t, C)
  PROVE  /\ C \in Seq(PageIds) /\ C # <<>> /\ Len(C) \in Nat /\ Len(C) \in 1..Len(C) /\ DOMAIN C = 1..Len(C)
         /\ \A i \in 1..Len(C) : C[i] \in PageIds
         /\ \A i \in 1..(Len(C) - 1) : i \in 1..Len(C) /\ i + 1 \in 1..Len(C) /\ C[i + 1] # NoLink
         /\ ChainOf(pg, FirstPage[t]) = C
         /\ \A i \in 1..Len(C) : pg[C[i]].next = NoLink => i = Len(C)
<1>1. IsPath(pg, FirstPage[t], C)
  BY DEF Whole
<1>2. C \in Seq(PageIds) /\ C # <<>> /\ Len(C) \in Nat /\ Len(C) \in 1..Len(C) /\ DOMAIN C = 1..Len(C)
      /\ \A i \in 1..Len(C) : C[i] \in PageIds
  <2>1. C \in Seq(PageIds) /\ C # <<>>
    BY <1>1 DEF IsPath
  <2>2. QED
    BY <2>1, SeqElements, EmptySeq
<1>3. \A i \in 1..(Len(C) - 1) : i \in 1..Len(C) /\ i + 1 \in 1..Len(C) /\ C[i + 1] # NoLink
  <2>1. \A i \in 1..(Len(C) - 1) : i \in 1..Len(C) /\ i + 1 \in 1..Len(C)
    BY <1>2
  <2>2. \A p \in PageIds : p # NoLink
    BY CapacityAssumption DEF PageIds, NoLink
  <2>3. QED
    BY <1>2, <2>1, <2>2
<1>4. ChainOf(pg, FirstPage[t]) = C
  BY <1>1, PathIsChain
<1>5. ASSUME NEW i \in 1..Len(C), pg[C[i]].next = NoLink PROVE i = Len(C)
  <2>1. i \in 1..(Len(C) - 1) => pg[C[i]].next = C[i + 1]
    BY <1>1 DEF IsPath
  <2>2. i \notin 1..(Len(C) - 1)
    BY <1>3, <1>5, <2>1
  <2>3. QED
    BY <1>2, <2>2, LastOrBefore
<1>6. QED
  BY <1>2, <1>3, <1>4, <1>5

\* The link of a page leads to the page after it in the chain.
LEMMA WholeNext ==
  ASSUME NEW pg, NEW n, NEW t, NEW C, Whole(pg, n, t, C), NEW i \in 1..Len(C),
         pg[C[i]].next # NoLink
  PROVE  i \in 1..(Len(C) - 1) /\ i + 1 \in 1..Len(C) /\ pg[C[i]].next = C[i + 1]
<1>1. IsPath(pg, FirstPage[t], C) /\ Len(C) \in Nat
  BY WholeParts DEF Whole
<1>2. i # Len(C)
  BY <1>1 DEF IsPath
<1>3. i \in 1..(Len(C) - 1) /\ i + 1 \in 1..Len(C)
  BY <1>1, <1>2
<1>4. QED
  BY <1>1, <1>3 DEF IsPath

\* Like is transitive, and what is equal is like.
LEMMA LikeTrans ==
  ASSUME NEW c, NEW d, NEW e, Like(c, d), Like(d, e)
  PROVE  Like(c, e)
BY DEF Like

\* A chain whose pages keep their kind, name, link and, unless rows may break
\* off, their records stays a chain; its rows stay.
LEMMA WholeKept ==
  ASSUME NEW pg, NEW pg2, NEW n \in Nat, NEW m \in Nat, n <= m, NEW t, NEW C, Whole(pg, n, t, C),
         \A i \in 1..Len(C) : Like(pg2[C[i]], pg[C[i]])
  PROVE  /\ Whole(pg2, m, t, C)
         /\ t \notin BadRows => RowsOn(pg2)[C] = RowsOn(pg)[C]
<1>1. /\ C \in Seq(PageIds) /\ Len(C) \in Nat /\ Len(C) \in 1..Len(C) /\ DOMAIN C = 1..Len(C)
      /\ \A i \in 1..Len(C) : C[i] \in PageIds
      /\ \A i \in 1..(Len(C) - 1) : i \in 1..Len(C)
  BY WholeParts
<1>2. /\ IsPath(pg, FirstPage[t], C)
      /\ \A i \in 1..Len(C) : C[i] < n /\ pg[C[i]].kind = "data" /\ pg[C[i]].name = t
      /\ t \notin BadRows => \A i \in 1..(Len(C) - 1) : ~HasRoom(pg[C[i]])
  BY DEF Whole
<1>3. \A i \in 1..Len(C) : /\ pg2[C[i]].kind = "data" /\ pg2[C[i]].name = t
                           /\ pg2[C[i]].next = pg[C[i]].next
                           /\ t \notin BadRows => pg2[C[i]].slots = pg[C[i]].slots
  BY <1>2 DEF Like
<1>4. IsPath(pg2, FirstPage[t], C)
  BY <1>1, <1>2, <1>3 DEF IsPath
<1>5. \A i \in 1..Len(C) : C[i] < m
  <2>1. \A i \in 1..Len(C) : C[i] \in Nat /\ C[i] < n
    BY <1>1, <1>2, PageIdsAre
  <2>2. QED
    BY <2>1
<1>6. t \notin BadRows => \A i \in 1..(Len(C) - 1) : ~HasRoom(pg2[C[i]])
  BY <1>1, <1>2, <1>3 DEF HasRoom
<1>7. ASSUME t \notin BadRows
      PROVE  RowsOn(pg2)[C] = RowsOn(pg)[C]
  <2>1. C \in Seq(PageIds) /\ \A i \in DOMAIN C : pg2[C[i]].slots = pg[C[i]].slots
    BY <1>1, <1>3, <1>7
  <2>2. QED
    BY <2>1, RowsSame
<1>8. QED
  BY <1>3, <1>4, <1>5, <1>6, <1>7 DEF Whole

\* A record more on the page where the inserter has found room.
LEMMA WholeStored ==
  ASSUME NEW pg \in [PageIds -> PageContents], NEW pg2 \in [PageIds -> PageContents],
         NEW n \in Nat, NEW t, NEW C, Whole(pg, n, t, C),
         NEW k \in 1..Len(C), NEW e \in Records, HasRoom(pg[C[k]]),
         pg2[C[k]] = WithRecord(pg[C[k]], e),
         \A i \in 1..Len(C) : i # k => Like(pg2[C[i]], pg[C[i]])
  PROVE  /\ Whole(pg2, n, t, C)
         /\ t \notin BadRows => RowsOn(pg2)[C] = Append(RowsOn(pg)[C], e)
<1>1. /\ C \in Seq(PageIds) /\ Len(C) \in Nat /\ Len(C) \in 1..Len(C) /\ DOMAIN C = 1..Len(C)
      /\ \A i \in 1..Len(C) : C[i] \in PageIds
      /\ \A i \in 1..(Len(C) - 1) : i \in 1..Len(C)
      /\ C # <<>>
  BY WholeParts
<1>2. /\ IsPath(pg, FirstPage[t], C)
      /\ \A i \in 1..Len(C) : C[i] < n /\ pg[C[i]].kind = "data" /\ pg[C[i]].name = t
      /\ t \notin BadRows => \A i \in 1..(Len(C) - 1) : ~HasRoom(pg[C[i]])
  BY DEF Whole
<1>3. /\ pg2[C[k]].kind = pg[C[k]].kind /\ pg2[C[k]].name = pg[C[k]].name
      /\ pg2[C[k]].next = pg[C[k]].next /\ pg2[C[k]].slots = Append(pg[C[k]].slots, e)
  <2>1. pg[C[k]] \in PageContents
    BY <1>1
  <2>2. QED
    BY <2>1, RecordFields
<1>4. \A i \in 1..Len(C) : /\ pg2[C[i]].kind = "data" /\ pg2[C[i]].name = t
                           /\ pg2[C[i]].next = pg[C[i]].next
                           /\ i # k /\ t \notin BadRows => pg2[C[i]].slots = pg[C[i]].slots
  BY <1>2, <1>3 DEF Like
<1>5. IsPath(pg2, FirstPage[t], C)
  BY <1>1, <1>2, <1>4 DEF IsPath
<1>6. ASSUME t \notin BadRows PROVE k = Len(C)
  <2>1. k \notin 1..(Len(C) - 1)
    BY <1>2, <1>6
  <2>2. QED
    BY <1>1, <2>1, LastOrBefore
<1>7. ASSUME t \notin BadRows
      PROVE  /\ \A i \in 1..(Len(C) - 1) : ~HasRoom(pg2[C[i]])
             /\ RowsOn(pg2)[C] = Append(RowsOn(pg)[C], e)
  <2>1. \A i \in 1..(Len(C) - 1) : i \in 1..Len(C) /\ i # k
    BY <1>1, <1>6, <1>7
  <2>2. \A i \in 1..(Len(C) - 1) : pg2[C[i]].slots = pg[C[i]].slots /\ pg2[C[i]].kind = pg[C[i]].kind
    BY <1>2, <1>4, <1>7, <2>1
  <2>3. \A i \in 1..(Len(C) - 1) : ~HasRoom(pg2[C[i]])
    BY <1>2, <1>7, <2>2 DEF HasRoom
  <2>4. RowsOn(pg2)[C] = Append(RowsOn(pg)[C], e)
    <3>1. pg2[C[Len(C)]].slots = Append(pg[C[Len(C)]].slots, e)
      BY <1>3, <1>6, <1>7
    <3>2. QED
      BY <1>1, <2>2, <3>1, RowsAppend
  <2>5. QED
    BY <2>3, <2>4
<1>8. QED
  BY <1>2, <1>4, <1>5, <1>7 DEF Whole

\* A new page behind the last one, which is full.
LEMMA WholeLinked ==
  ASSUME NEW pg \in [PageIds -> PageContents], NEW pg2 \in [PageIds -> PageContents],
         NEW n \in Nat, NEW t, NEW C, Whole(pg, n, t, C),
         NEW q \in PageIds, q < n, \A i \in 1..Len(C) : C[i] < q,
         t \notin BadRows => ~HasRoom(pg[C[Len(C)]]),
         pg2[C[Len(C)]] = WithNext(pg[C[Len(C)]], q),
         \A i \in 1..(Len(C) - 1) : Like(pg2[C[i]], pg[C[i]]),
         Like(pg2[q], EmptyData(t))
  PROVE  /\ Whole(pg2, n, t, Append(C, q))
         /\ t \notin BadRows => RowsOn(pg2)[Append(C, q)] = RowsOn(pg)[C]
<1> DEFINE D == Append(C, q)
           z == Len(C)
<1>1. /\ C \in Seq(PageIds) /\ z \in Nat /\ z \in 1..z /\ DOMAIN C = 1..z
      /\ \A i \in 1..z : C[i] \in PageIds
      /\ \A i \in 1..(z - 1) : i \in 1..z
      /\ C # <<>>
  BY WholeParts
<1>2. /\ IsPath(pg, FirstPage[t], C)
      /\ \A i \in 1..z : C[i] < n /\ pg[C[i]].kind = "data" /\ pg[C[i]].name = t
      /\ t \notin BadRows => \A i \in 1..(z - 1) : ~HasRoom(pg[C[i]])
  BY DEF Whole
<1>3. D \in Seq(PageIds) /\ Len(D) = z + 1 /\ D[z + 1] = q /\ \A i \in 1..z : D[i] = C[i]
  BY <1>1, SeqAppend
<1>4. /\ pg2[C[z]].kind = "data" /\ pg2[C[z]].name = t
      /\ pg2[C[z]].next = q /\ pg2[C[z]].slots = pg[C[z]].slots
  <2>1. pg[C[z]] \in PageContents /\ q \in Links
    BY <1>1, CapacityAssumption DEF PageIds, Links
  <2>2. QED
    BY <1>1, <1>2, <2>1, NextFields
<1>5. ASSUME NEW i \in 1..(z - 1)
      PROVE  /\ pg2[C[i]].kind = "data" /\ pg2[C[i]].name = t /\ pg2[C[i]].next = pg[C[i]].next
             /\ t \notin BadRows => pg2[C[i]].slots = pg[C[i]].slots
  BY <1>1, <1>2 DEF Like
<1>6. /\ pg2[q].kind = "data" /\ pg2[q].name = t /\ pg2[q].next = NoLink
      /\ t \notin BadRows => pg2[q].slots = <<>>
  BY DEF Like, EmptyData
<1>7. \A i \in 1..z : i = z \/ i \in 1..(z - 1)
  BY <1>1, LastOrBefore
<1>8. ASSUME NEW i \in 1..Len(D)
      PROVE  D[i] < n /\ pg2[D[i]].kind = "data" /\ pg2[D[i]].name = t
  <2>1. i = z + 1 \/ i \in 1..z
    BY <1>1, <1>3
  <2>2. QED
    BY <1>2, <1>3, <1>4, <1>5, <1>6, <1>7, <2>1
<1>9. IsPath(pg2, FirstPage[t], D)
  <2>1. C[1] = FirstPage[t] /\ D # <<>> /\ D[1] = FirstPage[t]
    BY <1>1, <1>2, <1>3 DEF IsPath
  <2>2. ASSUME NEW i \in 1..Len(D) PROVE i <= D[i]
    <3>1. CASE i = z + 1
      <4>1. z <= C[z] /\ C[z] < q /\ C[z] \in Nat /\ q \in Nat
        BY <1>1, <1>2, CapacityAssumption DEF IsPath, PageIds
      <4>2. QED
        BY <1>1, <1>3, <3>1, <4>1
    <3>2. CASE i \in 1..z
      BY <1>2, <1>3, <3>2 DEF IsPath
    <3>3. QED
      BY <1>1, <1>3, <3>1, <3>2
  <2>3. ASSUME NEW i \in 1..Len(D), NEW j \in 1..Len(D), i < j PROVE D[i] < D[j]
    <3>1. CASE j = z + 1
      BY <1>1, <1>3, <2>3, <3>1
    <3>2. CASE j \in 1..z
      <4>1. i \in 1..z
        BY <1>1, <2>3, <3>2
      <4>2. QED
        BY <1>2, <1>3, <2>3, <3>2, <4>1 DEF IsPath
    <3>3. QED
      BY <1>1, <1>3, <3>1, <3>2
  <2>4. ASSUME NEW i \in 1..(Len(D) - 1) PROVE pg2[D[i]].next = D[i + 1]
    <3>1. i \in 1..z
      BY <1>1, <1>3
    <3>2. CASE i = z
      BY <1>3, <1>4, <3>1, <3>2
    <3>3. CASE i \in 1..(z - 1)
      <4>1. i + 1 \in 1..z
        BY <1>1, <3>3
      <4>2. pg[C[i]].next = C[i + 1]
        BY <1>2, <3>3 DEF IsPath
      <4>3. QED
        BY <1>3, <1>5, <3>1, <3>3, <4>1, <4>2
    <3>4. QED
      BY <1>7, <3>1, <3>2, <3>3
  <2>5. pg2[D[Len(D)]].next = NoLink
    BY <1>3, <1>6
  <2>6. QED
    BY <1>3, <2>1, <2>2, <2>3, <2>4, <2>5 DEF IsPath
<1>10. ASSUME t \notin BadRows
       PROVE  /\ \A i \in 1..(Len(D) - 1) : ~HasRoom(pg2[D[i]])
              /\ RowsOn(pg2)[D] = RowsOn(pg)[C]
  <2>1. \A i \in 1..z : pg2[C[i]].slots = pg[C[i]].slots /\ pg2[C[i]].kind = pg[C[i]].kind
    BY <1>2, <1>4, <1>5, <1>7, <1>10
  <2>2. \A i \in 1..z : ~HasRoom(pg[C[i]])
    BY <1>2, <1>7, <1>10
  <2>3. \A i \in 1..z : ~HasRoom(pg2[C[i]])
    BY <2>1, <2>2 DEF HasRoom
  <2>4. \A i \in 1..(Len(D) - 1) : i \in 1..z /\ D[i] = C[i]
    BY <1>1, <1>3
  <2>5. \A i \in 1..(Len(D) - 1) : ~HasRoom(pg2[D[i]])
    BY <2>3, <2>4
  <2>6. RowsOn(pg2)[D] = RowsOn(pg)[C]
    BY <1>1, <1>6, <1>10, <2>1, RowsExtend
  <2>7. QED
    BY <2>5, <2>6
<1> HIDE DEF D
<1>11. Whole(pg2, n, t, D)
  BY <1>8, <1>9, <1>10 DEF Whole
<1>12. QED
  BY <1>10, <1>11 DEF D

\* The chains of two tables have no page in common.
LEMMA WholeApart ==
  ASSUME NEW pg, NEW n, NEW t, NEW u, t # u, NEW C, NEW D, Whole(pg, n, t, C), Whole(pg, n, u, D),
         NEW i \in 1..Len(C), NEW j \in 1..Len(D)
  PROVE  C[i] # D[j]
BY DEF Whole

------------------------------------------------------------------------------
(* The invariant *)

\* Every table has a chain of its own.
ChainsOK == \A t \in Tables : Whole(Pages, numPages, t, Chain(t))

\* An inserter is on a page of its table.
TailsOK ==
  /\ tail \in [Inserters -> PageIds]
  /\ \A k \in Inserters : \E i \in 1..Len(Chain(TableOf[k])) : tail[k] = Chain(TableOf[k])[i]

\* From the step that found the last page full to the one that links the new
\* page, the last page stays as it was found and the new one is the newest.
InsertOK ==
  thread.call = "insert" =>
    LET k == thread.who
        p == tail[k]
    IN  /\ thread.step # "try" =>
             Pages[p].next = NoLink /\ (TableOf[k] \notin BadRows => ~HasRoom(Pages[p]))
        /\ thread.step \in {"initialise", "link"} =>
             /\ thread.new = numPages - 1 /\ thread.new \in PageIds
             /\ \A t \in Tables : \A i \in 1..Len(Chain(t)) : Chain(t)[i] < thread.new
        /\ thread.step = "link" => Like(Pages[thread.new], EmptyData(TableOf[k]))

\* An open iterator is on a page, a call of an iterator is one of an open one.
ScanOK(sc, th, s) ==
  /\ sc[s].live => sc[s].on \in PageIds
  /\ sc[s].open => sc[s].cur \in PageIds /\ sc[s].on \in PageIds /\ sc[s].markedPage \in PageIds
  /\ th = Advancing(s) \/ th = Resetting(s) => sc[s].open

ScansOK(sc, th) == sc \in [Scans -> ScanState] /\ \A s \in Scans : ScanOK(sc, th, s)

TableInv ==
  /\ PoolOK /\ ChainsOK /\ TailsOK /\ InsertOK /\ ScansOK(scan, thread)
  /\ thread \in Threads /\ lastRow \in 0..MaxRows

\* The rows of the tables whose rows can all be written stay, but for row e
\* at the end of table u.
RowsStay == \A t \in SoundTables : Stored(t)' = Stored(t)

RowsGain(u, e) ==
  \A t \in SoundTables : Stored(t)' = IF t = u THEN Append(Stored(t), e) ELSE Stored(t)

\* Chain C of the pages pg has become D of pg2: only behind its last page and
\* its last record is anything new.
Grows(pg, C, pg2, D) ==
  /\ Len(C) <= Len(D) /\ \A i \in 1..Len(C) : D[i] = C[i]
  /\ \A i \in 1..(Len(C) - 1) : pg2[C[i]].slots = pg[C[i]].slots /\ pg2[C[i]].next = pg[C[i]].next
  /\ \/ pg2[C[Len(C)]].slots = pg[C[Len(C)]].slots
     \/ \E e \in Records : pg2[C[Len(C)]].slots = Append(pg[C[Len(C)]].slots, e)

Growing == \A t \in SoundTables : Grows(Pages, Chain(t), Pages', Chain(t)')

\* Chain and Stored in the next state.
LEMMA NextChains ==
  \A t : Chain(t)' = ChainOf(Pages', FirstPage[t]) /\ Stored(t)' = RowsOn(Pages')[Chain(t)']
BY DEF Chain, Stored

------------------------------------------------------------------------------
(* How the steps change the chains *)

\* The pages of the chain of t stay like they were.
LEMMA ChainStays ==
  ASSUME TableInv, PoolOK', numPages <= numPages', NEW t \in Tables,
         \A i \in 1..Len(Chain(t)) : Like(Pages'[Chain(t)[i]], Pages[Chain(t)[i]])
  PROVE  /\ Whole(Pages', numPages', t, Chain(t)) /\ Chain(t)' = Chain(t)
         /\ t \notin BadRows => Stored(t)' = Stored(t) /\ Grows(Pages, Chain(t), Pages', Chain(t)')
<1> DEFINE C == Chain(t)
           pg == Pages
           pg2 == Pages'
           n == numPages
           m == numPages'
<1>1. n \in Nat /\ m \in Nat /\ n <= m
  BY DEF TableInv, PoolOK, PoolTypeOK
<1>2. Whole(pg, n, t, C) /\ \A i \in 1..Len(C) : Like(pg2[C[i]], pg[C[i]])
  BY DEF TableInv, ChainsOK
<1> HIDE DEF C, pg, pg2, n, m
<1>3. /\ Whole(pg2, m, t, C)
      /\ t \notin BadRows => RowsOn(pg2)[C] = RowsOn(pg)[C]
  <2>1. Whole(pg2, m, t, C)
    BY <1>1, <1>2, WholeKept
  <2>2. t \notin BadRows => RowsOn(pg2)[C] = RowsOn(pg)[C]
    BY <1>1, <1>2, WholeKept
  <2>3. QED
    BY <2>1, <2>2
<1>4. ChainOf(pg2, FirstPage[t]) = C
  BY <1>3, WholeParts
<1>5. Chain(t)' = C
  BY <1>4, NextChains DEF pg2
<1>6. Stored(t)' = RowsOn(pg2)[C] /\ Stored(t) = RowsOn(pg)[C]
  BY <1>5, NextChains DEF Stored, C, pg, pg2
<1>7. ASSUME t \notin BadRows PROVE Grows(pg, C, pg2, C)
  <2>1. /\ Len(C) \in Nat /\ Len(C) \in 1..Len(C)
        /\ \A i \in 1..(Len(C) - 1) : i \in 1..Len(C)
    BY <1>2, WholeParts
  <2>2. \A i \in 1..Len(C) : pg2[C[i]].slots = pg[C[i]].slots /\ pg2[C[i]].next = pg[C[i]].next
    BY <1>2, <1>7 DEF Like, Whole
  <2>3. QED
    BY <2>1, <2>2 DEF Grows
<1>8. QED
  BY <1>3, <1>5, <1>6, <1>7 DEF C, pg, pg2, n, m

\* The same of the chains of all tables.
LEMMA ChainsStay ==
  ASSUME TableInv, PoolOK', numPages <= numPages',
         \A t \in Tables : \A i \in 1..Len(Chain(t)) : Like(Pages'[Chain(t)[i]], Pages[Chain(t)[i]])
  PROVE  ChainsOK' /\ (\A t \in Tables : Chain(t)' = Chain(t)) /\ RowsStay /\ Growing
<1>1. ASSUME NEW t \in Tables
      PROVE  /\ Whole(Pages', numPages', t, Chain(t)) /\ Chain(t)' = Chain(t)
             /\ t \notin BadRows => Stored(t)' = Stored(t) /\ Grows(Pages, Chain(t), Pages', Chain(t)')
  BY ChainStays
<1>2. QED
  BY <1>1 DEF ChainsOK, RowsStay, SoundTables, Growing

\* In particular when no page changes.
LEMMA PagesStay ==
  ASSUME TableInv, PoolOK', numPages <= numPages',
         \A p \in PageIds : Like(Pages'[p], Pages[p])
  PROVE  ChainsOK' /\ (\A t \in Tables : Chain(t)' = Chain(t)) /\ RowsStay /\ Growing
<1>1. \A t \in Tables : \A i \in 1..Len(Chain(t)) : Chain(t)[i] \in PageIds
  BY WholeParts DEF TableInv, ChainsOK
<1>2. QED
  BY <1>1, ChainsStay

\* A page of a chain is on no other chain.
LEMMA OnOneChain ==
  ASSUME TableInv, NEW t \in Tables, NEW u \in Tables, t # u,
         NEW i \in 1..Len(Chain(t)), NEW j \in 1..Len(Chain(u))
  PROVE  Chain(t)[i] # Chain(u)[j]
<1>1. Whole(Pages, numPages, t, Chain(t)) /\ Whole(Pages, numPages, u, Chain(u))
  BY DEF TableInv, ChainsOK
<1>2. QED
  BY <1>1, WholeApart

\* Where inserter k works.
LEMMA TailPlace ==
  ASSUME TableInv, NEW k \in Inserters
  PROVE  /\ TableOf[k] \in Tables /\ tail[k] \in PageIds
         /\ \E i \in 1..Len(Chain(TableOf[k])) : tail[k] = Chain(TableOf[k])[i]
         /\ Whole(Pages, numPages, TableOf[k], Chain(TableOf[k]))
         /\ Pages[tail[k]].kind = "data" /\ Pages[tail[k]].name = TableOf[k]
<1>1. TableOf[k] \in Tables
  BY HeapAssumption
<1>2. tail[k] \in PageIds /\ \E i \in 1..Len(Chain(TableOf[k])) : tail[k] = Chain(TableOf[k])[i]
  BY DEF TableInv, TailsOK
<1>3. Whole(Pages, numPages, TableOf[k], Chain(TableOf[k]))
  BY <1>1 DEF TableInv, ChainsOK
<1>4. QED
  BY <1>1, <1>2, <1>3 DEF Whole

\* The page of inserter k gains a record.
LEMMA ChainsStore ==
  ASSUME TableInv, NEW k \in Inserters, NEW e \in Records, HasRoom(Pages[tail[k]]),
         OnlyPage(tail[k], WithRecord(Pages[tail[k]], e)), numPages' = numPages
  PROVE  ChainsOK' /\ (\A t \in Tables : Chain(t)' = Chain(t)) /\ RowsGain(TableOf[k], e) /\ Growing
<1>1. PoolOK /\ PoolOK' /\ numPages \in Nat
  BY PoolParts DEF TableInv, OnlyPage
<1>2. Pages \in [PageIds -> PageContents] /\ Pages' \in [PageIds -> PageContents]
  BY <1>1, PagesTyped, NextPagesTyped
<1> DEFINE u == TableOf[k]
           C == Chain(u)
<1>3. PICK j \in 1..Len(C) : tail[k] = C[j]
  BY TailPlace
<1>4. u \in Tables /\ Whole(Pages, numPages, u, C)
  BY TailPlace
<1>5. \A i \in 1..Len(C) : C[i] \in PageIds /\ (i # j => C[i] # C[j])
  <2>1. IsPath(Pages, FirstPage[u], C) /\ (\A i \in 1..Len(C) : C[i] \in PageIds) /\ Len(C) \in Nat
    <3>1. IsPath(Pages, FirstPage[u], C)
      BY <1>4 DEF Whole
    <3>2. QED
      BY <1>4, <3>1, WholeParts
  <2>2. \A i \in 1..Len(C) : i < j => C[i] < C[j]
    BY <2>1 DEF IsPath
  <2>3. \A i \in 1..Len(C) : j < i => C[j] < C[i]
    BY <2>1 DEF IsPath
  <2>4. \A i \in 1..Len(C) : i # j => i < j \/ j < i
    BY <2>1
  <2>5. \A i \in 1..Len(C) : C[i] \in Nat
    BY <2>1, PageIdsAre
  <2>6. QED
    BY <2>1, <2>2, <2>3, <2>4, <2>5
<1>6. \A i \in 1..Len(C) : i # j => Like(Pages'[C[i]], Pages[C[i]])
  BY <1>3, <1>5 DEF OnlyPage
<1>7. Pages'[C[j]] = WithRecord(Pages[C[j]], e)
  BY <1>3 DEF OnlyPage
<1>8. /\ Whole(Pages', numPages, u, C)
      /\ u \notin BadRows => RowsOn(Pages')[C] = Append(RowsOn(Pages)[C], e)
  <2> HIDE DEF C, u
  <2>1. QED
    BY <1>1, <1>2, <1>3, <1>4, <1>6, <1>7, WholeStored
<1>9. /\ Whole(Pages', numPages', u, C) /\ Chain(u)' = Chain(u)
      /\ u \notin BadRows => Stored(u)' = Append(Stored(u), e)
  <2>1. Chain(u)' = C
    BY <1>8, WholeParts, NextChains
  <2>2. QED
    BY <1>8, <2>1, NextChains DEF Stored
<1>10. ASSUME NEW t \in Tables, t # u
       PROVE  /\ Whole(Pages', numPages', t, Chain(t)) /\ Chain(t)' = Chain(t)
              /\ t \notin BadRows => Stored(t)' = Stored(t) /\ Grows(Pages, Chain(t), Pages', Chain(t)')
  <2>1. Whole(Pages, numPages, t, Chain(t))
    BY DEF TableInv, ChainsOK
  <2>2. \A i \in 1..Len(Chain(t)) : Chain(t)[i] \in PageIds /\ Chain(t)[i] # tail[k]
    BY <1>3, <1>4, <1>10, <2>1, WholeParts, OnOneChain
  <2>3. \A i \in 1..Len(Chain(t)) : Like(Pages'[Chain(t)[i]], Pages[Chain(t)[i]])
    BY <2>2 DEF OnlyPage
  <2>4. numPages <= numPages'
    BY <1>1
  <2>5. QED
    BY <1>1, <2>3, <2>4, ChainStays
<1>11. ASSUME u \notin BadRows PROVE Grows(Pages, C, Pages', C)
  <2>1. /\ Len(C) \in Nat /\ C # <<>> /\ \A i \in 1..(Len(C) - 1) : i \in 1..Len(C) /\ i # Len(C)
    BY <1>4, WholeParts
  <2>2. j = Len(C)
    <3>1. j \notin 1..(Len(C) - 1)
      BY <1>3, <1>4, <1>11 DEF Whole
    <3>2. QED
      BY <2>1, <3>1, LastOrBefore
  <2>3. ASSUME NEW i \in 1..(Len(C) - 1)
        PROVE  Pages'[C[i]].slots = Pages[C[i]].slots /\ Pages'[C[i]].next = Pages[C[i]].next
    BY <1>4, <1>6, <1>11, <2>1, <2>2 DEF Like, Whole
  <2>4. Pages'[C[Len(C)]].slots = Append(Pages[C[Len(C)]].slots, e)
    <3>1. Pages[C[j]] \in PageContents
      BY <1>2, <1>5
    <3>2. WithRecord(Pages[C[j]], e).slots = Append(Pages[C[j]].slots, e)
      BY <3>1, RecordFields
    <3>3. QED
      BY <1>7, <2>2, <3>2
  <2> DEFINE pg == Pages
             pg2 == Pages'
  <2>5. /\ \A i \in 1..(Len(C) - 1) : pg2[C[i]].slots = pg[C[i]].slots /\ pg2[C[i]].next = pg[C[i]].next
        /\ \E r \in Records : pg2[C[Len(C)]].slots = Append(pg[C[Len(C)]].slots, r)
    BY <2>3, <2>4
  <2> HIDE DEF C, pg, pg2
  <2>6. Grows(pg, C, pg2, C)
    <3>1. Len(C) <= Len(C)
      BY <2>1
    <3>2. QED
      BY Zenon, <2>5, <3>1 DEF Grows
  <2>7. QED
    BY <2>6 DEF pg, pg2
<1>12. QED
  BY <1>9, <1>10, <1>11 DEF ChainsOK, RowsGain, SoundTables, Growing

\* The new page is linked behind the last page of inserter k.
LEMMA ChainsLink ==
  ASSUME TableInv, NEW k \in Inserters, thread.call = "insert", thread.who = k, thread.step = "link",
         OnlyPage(tail[k], WithNext(Pages[tail[k]], thread.new)), numPages' = numPages
  PROVE  /\ ChainsOK' /\ RowsStay /\ Growing
         /\ \A t \in Tables :
              Chain(t)' = IF t = TableOf[k] THEN Append(Chain(t), thread.new) ELSE Chain(t)
<1> DEFINE u == TableOf[k]
           C == Chain(u)
           q == thread.new
           z == Len(C)
<1>1. PoolOK /\ PoolOK' /\ numPages \in Nat
  BY PoolParts DEF TableInv, OnlyPage
<1>2. Pages \in [PageIds -> PageContents] /\ Pages' \in [PageIds -> PageContents]
  BY <1>1, PagesTyped, NextPagesTyped
<1>3. /\ Pages[tail[k]].next = NoLink /\ (u \notin BadRows => ~HasRoom(Pages[tail[k]]))
      /\ q = numPages - 1 /\ q \in PageIds
      /\ \A t \in Tables : \A i \in 1..Len(Chain(t)) : Chain(t)[i] < q
      /\ Like(Pages[q], EmptyData(u))
  BY DEF TableInv, InsertOK
<1>4. u \in Tables /\ Whole(Pages, numPages, u, C)
  BY TailPlace
<1>5. z \in 1..z /\ z \in Nat /\ tail[k] = C[z]
  <2>1. PICK j \in 1..z : tail[k] = C[j]
    BY TailPlace
  <2>2. j = z
    BY <1>3, <1>4, <2>1, WholeParts
  <2>3. QED
    BY <1>4, <2>1, <2>2, WholeParts
<1>6. \A i \in 1..(z - 1) : C[i] \in PageIds /\ C[i] # tail[k]
  <2>1. (\A i \in 1..z : C[i] \in PageIds) /\ \A i \in 1..(z - 1) : i \in 1..z /\ i < z
    BY <1>4, <1>5, WholeParts
  <2>2. \A i \in 1..(z - 1) : C[i] < C[z]
    BY <1>4, <1>5, <2>1 DEF Whole, IsPath
  <2>3. QED
    BY <1>5, <2>1, <2>2, PageIdsAre
<1>7. \A i \in 1..(z - 1) : Like(Pages'[C[i]], Pages[C[i]])
  BY <1>6 DEF OnlyPage
<1>8. Pages'[C[z]] = WithNext(Pages[C[z]], q)
  BY <1>5 DEF OnlyPage
<1>9. Like(Pages'[q], EmptyData(u)) /\ q < numPages
  <2>1. tail[k] < q /\ tail[k] \in Nat
    BY <1>3, <1>4, <1>5, TailPlace, PageIdsAre
  <2>2. q # tail[k]
    BY <2>1
  <2>3. Like(Pages'[q], Pages[q])
    BY <1>3, <2>2 DEF OnlyPage
  <2>4. QED
    BY <1>1, <1>3, <2>3, LikeTrans
<1>10. /\ Whole(Pages', numPages, u, Append(C, q))
       /\ u \notin BadRows => RowsOn(Pages')[Append(C, q)] = RowsOn(Pages)[C]
  <2> DEFINE pg == Pages
             pg2 == Pages'
             n == numPages
  <2>1. /\ pg \in [PageIds -> PageContents] /\ pg2 \in [PageIds -> PageContents] /\ n \in Nat
        /\ Whole(pg, n, u, C) /\ q \in PageIds /\ q < n
        /\ \A i \in 1..Len(C) : C[i] < q
        /\ u \notin BadRows => ~HasRoom(pg[C[Len(C)]])
        /\ pg2[C[Len(C)]] = WithNext(pg[C[Len(C)]], q)
        /\ \A i \in 1..(Len(C) - 1) : Like(pg2[C[i]], pg[C[i]])
        /\ Like(pg2[q], EmptyData(u))
    BY <1>1, <1>2, <1>3, <1>4, <1>5, <1>7, <1>8, <1>9
  <2> HIDE DEF C, u, q, pg, pg2, n
  <2>2. Whole(pg2, n, u, Append(C, q))
    BY <2>1, WholeLinked
  <2>3. u \notin BadRows => RowsOn(pg2)[Append(C, q)] = RowsOn(pg)[C]
    BY <2>1, WholeLinked
  <2>4. QED
    BY <2>2, <2>3 DEF pg, pg2, n
<1>11. /\ Whole(Pages', numPages', u, Chain(u)') /\ Chain(u)' = Append(C, q)
       /\ u \notin BadRows => Stored(u)' = Stored(u)
  <2>1. Chain(u)' = Append(C, q)
    <3> HIDE DEF C, u, q
    <3>1. ChainOf(Pages', FirstPage[u]) = Append(C, q)
      BY <1>10, WholeParts
    <3>2. QED
      BY <3>1, NextChains
  <2>2. Stored(u)' = RowsOn(Pages')[Append(C, q)]
    BY <2>1, NextChains
  <2>3. QED
    BY <1>10, <2>1, <2>2 DEF Stored
<1>12. ASSUME NEW t \in Tables, t # u
       PROVE  /\ Whole(Pages', numPages', t, Chain(t)') /\ Chain(t)' = Chain(t)
              /\ t \notin BadRows => Stored(t)' = Stored(t) /\ Grows(Pages, Chain(t), Pages', Chain(t)')
  <2>1. Whole(Pages, numPages, t, Chain(t))
    BY DEF TableInv, ChainsOK
  <2>2. \A i \in 1..Len(Chain(t)) : Chain(t)[i] \in PageIds /\ Chain(t)[i] # tail[k]
    BY <1>4, <1>5, <1>12, <2>1, WholeParts, OnOneChain
  <2>3. \A i \in 1..Len(Chain(t)) : Like(Pages'[Chain(t)[i]], Pages[Chain(t)[i]])
    BY <2>2 DEF OnlyPage
  <2>4. numPages <= numPages'
    BY <1>1
  <2>5. QED
    BY <1>1, <2>3, <2>4, ChainStays
<1>13. ASSUME u \notin BadRows PROVE Grows(Pages, C, Pages', Append(C, q))
  <2>1. C \in Seq(PageIds) /\ \A i \in 1..(z - 1) : i \in 1..z
    BY <1>4, WholeParts
  <2>2. Len(Append(C, q)) = z + 1 /\ \A i \in 1..z : Append(C, q)[i] = C[i]
    BY <1>3, <2>1, SeqAppend
  <2>3. ASSUME NEW i \in 1..(z - 1)
        PROVE  Pages'[C[i]].slots = Pages[C[i]].slots /\ Pages'[C[i]].next = Pages[C[i]].next
    BY <1>4, <1>7, <1>13, <2>1 DEF Like, Whole
  <2>4. Pages'[C[z]].slots = Pages[C[z]].slots
    <3>1. Pages[C[z]] \in PageContents /\ q \in Links
      BY <1>2, <1>3, <1>4, <1>5, WholeParts, PageIdsAre
    <3>2. WithNext(Pages[C[z]], q).slots = Pages[C[z]].slots
      BY <3>1, NextFields
    <3>3. QED
      BY <1>8, <3>2
  <2>5. Len(C) <= Len(Append(C, q))
    BY <1>5, <2>2
  <2> HIDE DEF C, q
  <2>6. QED
    BY <2>2, <2>3, <2>4, <2>5 DEF Grows, z
<1>14. QED
  BY <1>11, <1>12, <1>13 DEF ChainsOK, RowsStay, SoundTables, Growing

------------------------------------------------------------------------------
(* How the steps change the iterators *)

\* After a step an iterator is what it was, or its frame was given away and it
\* is left with the bytes of its page.
Moved(new, old) ==
  \/ new = old
  \/ old.live /\ new = [old EXCEPT !.live = FALSE, !.bytes = Pages[old.on]]

Moves(sc) == scan' \in [Scans -> ScanState] /\ \A s \in Scans : Moved(scan'[s], sc[s])

\* All but the bytes stays.
LEMMA MovedFields ==
  ASSUME PoolOK, NEW old \in ScanState, old.live => old.on \in PageIds, NEW new, Moved(new, old)
  PROVE  /\ new \in ScanState /\ new.open = old.open /\ new.table = old.table
         /\ new.cur = old.cur /\ new.on = old.on /\ new.iter = old.iter /\ new.slot = old.slot
         /\ new.markedPage = old.markedPage /\ new.markedSlot = old.markedSlot
         /\ new.seen = old.seen /\ new.markedSeen = old.markedSeen /\ new.due = old.due
         /\ new.ended = old.ended /\ new.failed = old.failed
         /\ new.live => old.live
         /\ IF new.live = old.live THEN new.bytes = old.bytes ELSE old.live /\ new.bytes = Pages[old.on]
<1>1. CASE new = old
  BY <1>1
<1>2. CASE old.live /\ new = [old EXCEPT !.live = FALSE, !.bytes = Pages[old.on]]
  <2> DEFINE b == Pages[old.on]
  <2>1. b \in PageContents
    BY <1>2, PagesTyped
  <2> HIDE DEF b
  <2>2. new = [old EXCEPT !.live = FALSE, !.bytes = b]
    BY <1>2 DEF b
  <2>3. /\ new \in ScanState /\ new.open = old.open /\ new.table = old.table
        /\ new.cur = old.cur /\ new.on = old.on /\ new.iter = old.iter /\ new.slot = old.slot
        /\ new.markedPage = old.markedPage /\ new.markedSlot = old.markedSlot
    BY <2>1, <2>2 DEF ScanState
  <2>4. /\ new.seen = old.seen /\ new.markedSeen = old.markedSeen /\ new.due = old.due
        /\ new.ended = old.ended /\ new.failed = old.failed
        /\ new.live = FALSE /\ new.bytes = b
    BY <2>1, <2>2 DEF ScanState
  <2>5. QED
    BY <1>2, <2>3, <2>4 DEF b
<1>3. QED
  BY <1>1, <1>2 DEF Moved

\* What Detached does.
LEMMA DetachedMoves ==
  ASSUME PoolOK, NEW sc \in [Scans -> ScanState], \A s \in Scans : sc[s].live => sc[s].on \in PageIds,
         scan' = Detached(sc)
  PROVE  Moves(sc)
<1>1. ASSUME NEW s \in Scans PROVE Moved(scan'[s], sc[s]) /\ scan'[s] \in ScanState
  <2>1. scan'[s] = IF sc[s].live /\ ~(\E i \in DOMAIN frames' : frames'[i].page = sc[s].on)
                   THEN [sc[s] EXCEPT !.live = FALSE, !.bytes = Current(sc[s].on)]
                   ELSE sc[s]
    BY DEF Detached
  <2>2. sc[s].live => Pages[sc[s].on] = Current(sc[s].on)
    BY DEF Pages
  <2>3. Moved(scan'[s], sc[s])
    BY <2>1, <2>2 DEF Moved
  <2>4. QED
    BY <2>3, MovedFields
<1>2. scan' = [s \in Scans |-> scan'[s]]
  BY DEF Detached
<1>3. QED
  BY <1>1, <1>2 DEF Moves

\* What a step that fetches no page does.
LEMMA StillMoves ==
  ASSUME NEW sc \in [Scans -> ScanState], scan' = sc
  PROVE  Moves(sc)
BY DEF Moves, Moved

\* The iterators of a call stay well-formed.
LEMMA ScansMoved ==
  ASSUME PoolOK, NEW sc, ScansOK(sc, thread'), Moves(sc)
  PROVE  ScansOK(scan, thread)'
<1>1. ASSUME NEW s \in Scans PROVE ScanOK(scan', thread', s)
  <2>1. sc[s] \in ScanState /\ ScanOK(sc, thread', s) /\ Moved(scan'[s], sc[s])
    BY DEF ScansOK, Moves
  <2>2. sc[s].live => sc[s].on \in PageIds
    BY <2>1 DEF ScanOK
  <2>3. /\ scan'[s].open = sc[s].open /\ scan'[s].cur = sc[s].cur /\ scan'[s].on = sc[s].on
        /\ scan'[s].markedPage = sc[s].markedPage /\ (scan'[s].live => sc[s].live)
    BY <2>1, <2>2, MovedFields
  <2>4. QED
    BY <2>1, <2>2, <2>3 DEF ScanOK
<1>2. scan' \in [Scans -> ScanState]
  BY DEF Moves
<1>3. QED
  BY <1>1, <1>2 DEF ScansOK

\* One iterator becomes r, in its own call or in none.
LEMMA ScanBecomes ==
  ASSUME ScansOK(scan, thread), NEW s \in Scans, NEW r \in ScanState,
         r.live => r.on \in PageIds,
         r.open => r.cur \in PageIds /\ r.on \in PageIds /\ r.markedPage \in PageIds,
         NEW th, th \in {Idle, Advancing(s), Resetting(s)} \/ th = thread,
         th = Advancing(s) \/ th = Resetting(s) => r.open
  PROVE  /\ [scan EXCEPT ![s] = r] \in [Scans -> ScanState]
         /\ [scan EXCEPT ![s] = r][s] = r
         /\ \A u \in Scans : u # s => [scan EXCEPT ![s] = r][u] = scan[u]
         /\ ScansOK([scan EXCEPT ![s] = r], th)
<1> DEFINE sc == [scan EXCEPT ![s] = r]
<1>1. /\ sc \in [Scans -> ScanState] /\ sc[s] = r
      /\ \A u \in Scans : u # s => sc[u] = scan[u]
  BY DEF ScansOK
<1> HIDE DEF sc
<1>2. ASSUME NEW u \in Scans, u # s PROVE ScanOK(sc, th, u)
  <2>1. ScanOK(scan, thread, u) /\ sc[u] = scan[u]
    BY <1>1, <1>2 DEF ScansOK
  <2>2. th = Advancing(u) \/ th = Resetting(u) => th = thread
    BY <1>2 DEF Idle, Advancing, Resetting
  <2>3. QED
    BY <2>1, <2>2 DEF ScanOK
<1>3. ScanOK(sc, th, s)
  BY <1>1 DEF ScanOK
<1>4. QED
  BY <1>1, <1>2, <1>3 DEF ScansOK, sc

\* Iterator s becomes r, the pages and the inserters stay.
Turns(s, r) ==
  /\ PoolOK' /\ numPages' = numPages /\ \A p \in PageIds : Like(Pages'[p], Pages[p])
  /\ UNCHANGED <<tail, lastRow>>
  /\ r \in ScanState /\ Moves([scan EXCEPT ![s] = r])

\* What an open iterator sees.
LEMMA ViewTyped ==
  ASSUME TableInv, NEW s \in Scans
  PROVE  /\ View(s) = (IF scan[s].live THEN Pages[scan[s].on] ELSE scan[s].bytes)
         /\ scan[s] \in ScanState /\ View(s) \in PageContents
         /\ View(s).next # NoLink => View(s).next \in PageIds
<1>1. scan[s] \in ScanState /\ (scan[s].live => scan[s].on \in PageIds)
  BY DEF TableInv, ScansOK, ScanOK
<1>2. View(s) = IF scan[s].live THEN Pages[scan[s].on] ELSE scan[s].bytes
  BY <1>1 DEF View, Pages
<1>3. scan[s].bytes \in PageContents
  BY <1>1 DEF ScanState
<1>4. View(s) \in PageContents
  BY <1>1, <1>2, <1>3, PagesTyped DEF TableInv
<1>5. View(s).next \in Links
  BY <1>4 DEF PageContents
<1>6. \A q \in Links : q # NoLink => q \in PageIds
  BY CapacityAssumption DEF Links, NoLink, PageIds
<1>7. QED
  BY <1>1, <1>2, <1>4, <1>5, <1>6

------------------------------------------------------------------------------
(* The calls of an iterator *)

\* r is iterator sc at slot n of page p.
AtSlot(r, sc, p, n) ==
  /\ r \in ScanState /\ r.open = sc.open /\ r.table = sc.table /\ r.cur = p /\ r.on = p
  /\ r.live = TRUE /\ r.iter = TRUE /\ r.slot = n /\ r.ended = FALSE /\ r.failed = FALSE
  /\ r.markedPage = sc.markedPage /\ r.markedSlot = sc.markedSlot /\ r.seen = sc.seen
  /\ r.markedSeen = sc.markedSeen /\ r.due = sc.due

\* An iterator that was positioned is there.
LEMMA PositionedFields ==
  ASSUME NEW sc \in ScanState, NEW p \in PageIds, NEW n, n \in Nat
  PROVE  AtSlot(Positioned(sc, p, n), sc, p, n)
<1>1. p \in Links /\ ZeroBytes \in PageContents
  <2>1. 0 \in Links
    BY CapacityAssumption DEF Links
  <2>2. <<>> \in Seq(Row \cup Entry)
    BY EmptySeq
  <2>3. QED
    BY <2>1, <2>2, PageIdsAre DEF ZeroBytes, PageContents
<1> DEFINE r == [sc EXCEPT !.cur = p, !.on = p, !.live = TRUE, !.bytes = ZeroBytes,
                           !.iter = TRUE, !.slot = n, !.ended = FALSE, !.failed = FALSE]
<1>2. r \in ScanState
  BY <1>1 DEF ScanState
<1>3. /\ r.open = sc.open /\ r.table = sc.table /\ r.cur = p /\ r.on = p /\ r.live = TRUE
      /\ r.iter = TRUE /\ r.slot = n
  BY DEF ScanState
<1>4. /\ r.ended = FALSE /\ r.failed = FALSE /\ r.markedPage = sc.markedPage
      /\ r.markedSlot = sc.markedSlot /\ r.seen = sc.seen /\ r.markedSeen = sc.markedSeen
      /\ r.due = sc.due
  BY DEF ScanState
<1> HIDE DEF r
<1>5. Positioned(sc, p, n) = r
  BY DEF Positioned, r
<1>6. QED
  BY <1>2, <1>3, <1>4, <1>5 DEF AtSlot

\* An iterator with a mark.
LEMMA MarkedFields ==
  ASSUME NEW sc \in ScanState
  PROVE  /\ Marked(sc) \in ScanState
         /\ Marked(sc).open = sc.open /\ Marked(sc).table = sc.table
         /\ Marked(sc).cur = sc.cur /\ Marked(sc).on = sc.on /\ Marked(sc).live = sc.live
         /\ Marked(sc).bytes = sc.bytes /\ Marked(sc).iter = sc.iter /\ Marked(sc).slot = sc.slot
         /\ Marked(sc).ended = sc.ended /\ Marked(sc).failed = sc.failed
         /\ Marked(sc).markedPage = sc.cur
         /\ Marked(sc).markedSlot = (IF sc.iter THEN sc.slot ELSE sc.markedSlot)
         /\ Marked(sc).seen = sc.seen /\ Marked(sc).markedSeen = sc.seen /\ Marked(sc).due = sc.due
<1> DEFINE n == IF sc.iter THEN sc.slot ELSE sc.markedSlot
<1>1. n \in Nat
  BY DEF ScanState
<1> HIDE DEF n
<1> DEFINE r == [sc EXCEPT !.markedPage = sc.cur, !.markedSeen = sc.seen, !.markedSlot = n]
<1>2. r \in ScanState
  BY <1>1 DEF ScanState
<1>3. /\ r.open = sc.open /\ r.table = sc.table /\ r.cur = sc.cur /\ r.on = sc.on /\ r.live = sc.live
      /\ r.bytes = sc.bytes /\ r.iter = sc.iter /\ r.slot = sc.slot
  BY DEF ScanState
<1>4. /\ r.ended = sc.ended /\ r.failed = sc.failed /\ r.markedPage = sc.cur
      /\ r.markedSlot = n /\ r.seen = sc.seen /\ r.markedSeen = sc.seen
      /\ r.due = sc.due
  BY DEF ScanState
<1>5. Marked(sc) = r
  BY DEF Marked, n
<1> HIDE DEF r
<1>6. QED
  BY <1>2, <1>3, <1>4, <1>5 DEF n

\* An iterator that does not exist.
LEMMA ClosedFields ==
  ASSUME NEW t \in Tables
  PROVE  /\ ClosedScan(t) \in ScanState /\ ClosedScan(t).table = t
         /\ ClosedScan(t).open = FALSE /\ ClosedScan(t).live = FALSE /\ ClosedScan(t).ended = FALSE
         /\ ClosedScan(t).seen = 0
<1>1. NoLink \in Links /\ ZeroBytes \in PageContents
  <2>1. 0 \in Links /\ NoLink \in Links
    BY CapacityAssumption DEF Links, NoLink
  <2>2. <<>> \in Seq(Row \cup Entry)
    BY EmptySeq
  <2>3. QED
    BY <2>1, <2>2 DEF ZeroBytes, PageContents
<1>2. QED
  BY <1>1 DEF ClosedScan, ScanState

\* The first page of a table is the first of its chain.
LEMMA FirstPlace ==
  ASSUME TableInv, NEW t \in Tables
  PROVE  /\ FirstPage[t] \in PageIds /\ 1 \in 1..Len(Chain(t)) /\ Chain(t)[1] = FirstPage[t]
         /\ Stored(t) \in Seq(Records) /\ Len(Stored(t)) \in Nat
         /\ Chain(t) \in Seq(PageIds)
<1> DEFINE C == Chain(t)
<1>1. Whole(Pages, numPages, t, C)
  BY DEF TableInv, ChainsOK
<1>2. /\ C \in Seq(PageIds) /\ C # <<>> /\ Len(C) \in Nat /\ Len(C) \in 1..Len(C)
      /\ \A i \in 1..Len(C) : C[i] \in PageIds
  BY <1>1, WholeParts
<1>3. C[1] = FirstPage[t] /\ 1 \in 1..Len(C)
  BY <1>1, <1>2 DEF Whole, IsPath
<1>4. Pages \in [PageIds -> PageContents]
  BY PagesTyped DEF TableInv
<1>5. Stored(t) \in Seq(Records)
  <2> DEFINE x == FlatTo(SlotsOn(Pages, C), Len(C) - 1)
             y == Pages[C[Len(C)]].slots
  <2> HIDE DEF C
  <2>1. x \in Seq(Records) /\ y \in Seq(Records) /\ RowsOn(Pages)[C] = x \o y
    BY <1>2, <1>4, RowsSplit
  <2> HIDE DEF x, y
  <2>2. x \o y \in Seq(Records)
    BY <2>1, ConcatProperties
  <2>3. QED
    BY <2>1, <2>2 DEF Stored, C
<1>6. Len(Stored(t)) \in Nat
  BY <1>5, SeqElements
<1>7. QED
  BY <1>2, <1>3, <1>5, <1>6

\* A new iterator, after __init__.
Opened(t) ==
  [Marked(Positioned(ClosedScan(t), FirstPage[t], 0)) EXCEPT !.open = TRUE, !.due = Len(Stored(t))]

\* It stands on the first record of its table, and marks it.
LEMMA OpenedFields ==
  ASSUME TableInv, NEW t \in Tables
  PROVE  /\ Opened(t) \in ScanState /\ Opened(t).open = TRUE /\ Opened(t).table = t
         /\ Opened(t).cur = FirstPage[t] /\ Opened(t).on = FirstPage[t] /\ Opened(t).live = TRUE
         /\ Opened(t).iter = TRUE /\ Opened(t).slot = 0 /\ Opened(t).seen = 0
         /\ Opened(t).markedPage = FirstPage[t] /\ Opened(t).markedSlot = 0 /\ Opened(t).markedSeen = 0
         /\ Opened(t).due = Len(Stored(t)) /\ Opened(t).ended = FALSE
<1> DEFINE x == Positioned(ClosedScan(t), FirstPage[t], 0)
           y == Marked(x)
           n == Len(Stored(t))
           p == FirstPage[t]
<1>1. p \in PageIds /\ n \in Nat
  BY FirstPlace
<1>2. /\ x \in ScanState /\ x.table = t /\ x.cur = p /\ x.on = p
      /\ x.live = TRUE /\ x.iter = TRUE /\ x.slot = 0 /\ x.ended = FALSE /\ x.seen = 0
  <2> DEFINE c == ClosedScan(t)
  <2>1. c \in ScanState /\ c.table = t /\ c.seen = 0
    BY ClosedFields
  <2> HIDE DEF c, p
  <2>2. 0 \in Nat
    OBVIOUS
  <2>3. AtSlot(Positioned(c, p, 0), c, p, 0)
    BY <1>1, <2>1, <2>2, PositionedFields
  <2>4. x = Positioned(c, p, 0)
    BY DEF c, p
  <2> HIDE DEF x
  <2>5. AtSlot(x, c, p, 0)
    BY <2>3, <2>4
  <2>6. QED
    BY <2>1, <2>5 DEF AtSlot
<1> HIDE DEF x
<1>3. /\ y \in ScanState /\ y.table = t /\ y.cur = p /\ y.on = p /\ y.live = TRUE
      /\ y.iter = TRUE /\ y.slot = 0 /\ y.ended = FALSE /\ y.seen = 0
      /\ y.markedPage = p /\ y.markedSlot = 0 /\ y.markedSeen = 0
  BY <1>2, MarkedFields
<1> HIDE DEF y, n, p
<1> DEFINE r == [y EXCEPT !.open = TRUE, !.due = n]
<1>4. r \in ScanState /\ r.open = TRUE /\ r.due = n
  BY <1>1, <1>3 DEF ScanState
<1>5. /\ r.table = y.table /\ r.cur = y.cur /\ r.on = y.on /\ r.live = y.live /\ r.iter = y.iter
      /\ r.slot = y.slot /\ r.ended = y.ended
  BY <1>3 DEF ScanState
<1>6. r.seen = y.seen /\ r.markedPage = y.markedPage /\ r.markedSlot = y.markedSlot
      /\ r.markedSeen = y.markedSeen
  BY <1>3 DEF ScanState
<1>7. Opened(t) = r
  BY DEF Opened, x, y, n
<1> HIDE DEF r
<1>8. QED
  BY <1>3, <1>4, <1>5, <1>6, <1>7 DEF n, p

\* An iterator that has returned a record, left a page for the next or for
\* good, stopped short, gone back to its mark and stood still there.
Returned(sc) == [sc EXCEPT !.slot = @ + 1, !.seen = @ + 1, !.ended = FALSE]
Left(sc, p) == [sc EXCEPT !.cur = p]
Ended(sc) == [sc EXCEPT !.iter = FALSE, !.ended = TRUE]
Stopped(sc) == [sc EXCEPT !.ended = TRUE, !.failed = TRUE]
Restored(sc) == [Positioned(sc, sc.cur, sc.markedSlot) EXCEPT !.seen = sc.markedSeen]
Stranded(sc) == [sc EXCEPT !.failed = TRUE]

\* What else is in them.
LEMMA ReturnedFields ==
  ASSUME NEW sc \in ScanState
  PROVE  /\ Returned(sc) \in ScanState /\ Returned(sc).open = sc.open /\ Returned(sc).table = sc.table
         /\ Returned(sc).cur = sc.cur /\ Returned(sc).on = sc.on /\ Returned(sc).live = sc.live
         /\ Returned(sc).bytes = sc.bytes /\ Returned(sc).iter = sc.iter
         /\ Returned(sc).slot = sc.slot + 1 /\ Returned(sc).seen = sc.seen + 1
         /\ Returned(sc).markedPage = sc.markedPage /\ Returned(sc).markedSlot = sc.markedSlot
         /\ Returned(sc).markedSeen = sc.markedSeen /\ Returned(sc).due = sc.due
         /\ Returned(sc).ended = FALSE
<1> DEFINE m == sc.slot + 1
           n == sc.seen + 1
           r == [sc EXCEPT !.slot = m, !.seen = n, !.ended = FALSE]
<1>1. m \in Nat /\ n \in Nat
  BY DEF ScanState
<1>2. Returned(sc) = r
  BY DEF Returned
<1> HIDE DEF m, n
<1>3. /\ r \in ScanState /\ r.open = sc.open /\ r.table = sc.table
      /\ r.cur = sc.cur /\ r.on = sc.on /\ r.live = sc.live
      /\ r.bytes = sc.bytes /\ r.iter = sc.iter
  BY <1>1 DEF ScanState
<1>4. /\ r.slot = m /\ r.seen = n /\ r.markedPage = sc.markedPage /\ r.markedSlot = sc.markedSlot
      /\ r.markedSeen = sc.markedSeen /\ r.due = sc.due /\ r.ended = FALSE
  BY DEF ScanState
<1> HIDE DEF r
<1>5. QED
  BY <1>2, <1>3, <1>4 DEF m, n

\* A page that was left stays in sight.
LEMMA LeftFields ==
  ASSUME NEW sc \in ScanState, NEW p \in PageIds
  PROVE  /\ Left(sc, p) \in ScanState /\ Left(sc, p).open = sc.open /\ Left(sc, p).table = sc.table
         /\ Left(sc, p).cur = p /\ Left(sc, p).on = sc.on /\ Left(sc, p).live = sc.live
         /\ Left(sc, p).bytes = sc.bytes /\ Left(sc, p).iter = sc.iter /\ Left(sc, p).slot = sc.slot
         /\ Left(sc, p).markedPage = sc.markedPage /\ Left(sc, p).markedSlot = sc.markedSlot
         /\ Left(sc, p).markedSeen = sc.markedSeen /\ Left(sc, p).due = sc.due
         /\ Left(sc, p).ended = sc.ended /\ Left(sc, p).failed = sc.failed /\ Left(sc, p).seen = sc.seen
<1>1. p \in Links
  BY PageIdsAre
<1> DEFINE r == [sc EXCEPT !.cur = p]
<1>2. /\ r \in ScanState /\ r.open = sc.open /\ r.table = sc.table
      /\ r.cur = p /\ r.on = sc.on /\ r.live = sc.live
      /\ r.bytes = sc.bytes /\ r.iter = sc.iter
  BY <1>1 DEF ScanState
<1>3. /\ r.slot = sc.slot /\ r.seen = sc.seen /\ r.markedPage = sc.markedPage
      /\ r.markedSlot = sc.markedSlot /\ r.markedSeen = sc.markedSeen /\ r.due = sc.due
      /\ r.ended = sc.ended /\ r.failed = sc.failed
  BY DEF ScanState
<1> HIDE DEF r
<1>4. Left(sc, p) = r
  BY DEF Left, r
<1>5. QED
  BY <1>2, <1>3, <1>4

\* The end of a table.
LEMMA EndedFields ==
  ASSUME NEW sc \in ScanState
  PROVE  /\ Ended(sc) \in ScanState /\ Ended(sc).open = sc.open /\ Ended(sc).table = sc.table
         /\ Ended(sc).cur = sc.cur /\ Ended(sc).on = sc.on /\ Ended(sc).live = sc.live
         /\ Ended(sc).bytes = sc.bytes /\ Ended(sc).iter = FALSE /\ Ended(sc).slot = sc.slot
         /\ Ended(sc).markedPage = sc.markedPage /\ Ended(sc).markedSlot = sc.markedSlot
         /\ Ended(sc).markedSeen = sc.markedSeen /\ Ended(sc).due = sc.due
         /\ Ended(sc).seen = sc.seen /\ Ended(sc).failed = sc.failed
<1> DEFINE r == [sc EXCEPT !.iter = FALSE, !.ended = TRUE]
<1>1. /\ r \in ScanState /\ r.open = sc.open /\ r.table = sc.table
      /\ r.cur = sc.cur /\ r.on = sc.on /\ r.live = sc.live
      /\ r.bytes = sc.bytes /\ r.iter = FALSE
  BY DEF ScanState
<1>2. /\ r.slot = sc.slot /\ r.seen = sc.seen /\ r.markedPage = sc.markedPage
      /\ r.markedSlot = sc.markedSlot /\ r.markedSeen = sc.markedSeen /\ r.due = sc.due
      /\ r.failed = sc.failed
  BY DEF ScanState
<1> HIDE DEF r
<1>3. Ended(sc) = r
  BY DEF Ended, r
<1>4. QED
  BY <1>1, <1>2, <1>3

\* A page that could not be fetched.
LEMMA StoppedFields ==
  ASSUME NEW sc \in ScanState
  PROVE  /\ Stopped(sc) \in ScanState /\ Stopped(sc).open = sc.open /\ Stopped(sc).table = sc.table
         /\ Stopped(sc).cur = sc.cur /\ Stopped(sc).on = sc.on /\ Stopped(sc).live = sc.live
         /\ Stopped(sc).bytes = sc.bytes /\ Stopped(sc).iter = sc.iter /\ Stopped(sc).slot = sc.slot
         /\ Stopped(sc).markedPage = sc.markedPage /\ Stopped(sc).markedSlot = sc.markedSlot
         /\ Stopped(sc).markedSeen = sc.markedSeen /\ Stopped(sc).due = sc.due
         /\ Stopped(sc).seen = sc.seen /\ Stopped(sc).failed = TRUE
<1> DEFINE r == [sc EXCEPT !.ended = TRUE, !.failed = TRUE]
<1>1. /\ r \in ScanState /\ r.open = sc.open /\ r.table = sc.table
      /\ r.cur = sc.cur /\ r.on = sc.on /\ r.live = sc.live
      /\ r.bytes = sc.bytes /\ r.iter = sc.iter
  BY DEF ScanState
<1>2. /\ r.slot = sc.slot /\ r.seen = sc.seen /\ r.markedPage = sc.markedPage
      /\ r.markedSlot = sc.markedSlot /\ r.markedSeen = sc.markedSeen /\ r.due = sc.due
      /\ r.failed = TRUE
  BY DEF ScanState
<1> HIDE DEF r
<1>3. Stopped(sc) = r
  BY DEF Stopped, r
<1>4. QED
  BY <1>1, <1>2, <1>3

\* A mark that could not be fetched.
LEMMA StrandedFields ==
  ASSUME NEW sc \in ScanState
  PROVE  /\ Stranded(sc) \in ScanState /\ Stranded(sc).open = sc.open /\ Stranded(sc).table = sc.table
         /\ Stranded(sc).cur = sc.cur /\ Stranded(sc).on = sc.on /\ Stranded(sc).live = sc.live
         /\ Stranded(sc).bytes = sc.bytes /\ Stranded(sc).iter = sc.iter /\ Stranded(sc).slot = sc.slot
         /\ Stranded(sc).markedPage = sc.markedPage /\ Stranded(sc).markedSlot = sc.markedSlot
         /\ Stranded(sc).markedSeen = sc.markedSeen /\ Stranded(sc).due = sc.due
         /\ Stranded(sc).seen = sc.seen /\ Stranded(sc).failed = TRUE
<1> DEFINE r == [sc EXCEPT !.failed = TRUE]
<1>1. /\ r \in ScanState /\ r.open = sc.open /\ r.table = sc.table
      /\ r.cur = sc.cur /\ r.on = sc.on /\ r.live = sc.live
      /\ r.bytes = sc.bytes /\ r.iter = sc.iter
  BY DEF ScanState
<1>2. /\ r.slot = sc.slot /\ r.seen = sc.seen /\ r.markedPage = sc.markedPage
      /\ r.markedSlot = sc.markedSlot /\ r.markedSeen = sc.markedSeen /\ r.due = sc.due
      /\ r.failed = TRUE
  BY DEF ScanState
<1> HIDE DEF r
<1>3. Stranded(sc) = r
  BY DEF Stranded, r
<1>4. QED
  BY <1>1, <1>2, <1>3

\* A mark that was.
LEMMA RestoredFields ==
  ASSUME NEW sc \in ScanState, sc.cur \in PageIds
  PROVE  /\ Restored(sc) \in ScanState /\ Restored(sc).open = sc.open /\ Restored(sc).table = sc.table
         /\ Restored(sc).cur = sc.cur /\ Restored(sc).on = sc.cur /\ Restored(sc).live = TRUE
         /\ Restored(sc).iter = TRUE /\ Restored(sc).slot = sc.markedSlot
         /\ Restored(sc).seen = sc.markedSeen
         /\ Restored(sc).markedPage = sc.markedPage /\ Restored(sc).markedSlot = sc.markedSlot
         /\ Restored(sc).markedSeen = sc.markedSeen /\ Restored(sc).due = sc.due
         /\ Restored(sc).ended = FALSE
<1> DEFINE n == sc.markedSlot
           x == Positioned(sc, sc.cur, n)
           m == sc.markedSeen
<1>1. n \in Nat /\ m \in Nat
  BY DEF ScanState
<1> HIDE DEF n, m
<1>2. /\ x \in ScanState /\ x.open = sc.open /\ x.table = sc.table /\ x.cur = sc.cur /\ x.on = sc.cur
      /\ x.live = TRUE /\ x.iter = TRUE /\ x.slot = n /\ x.ended = FALSE /\ x.due = sc.due
      /\ x.markedPage = sc.markedPage /\ x.markedSlot = sc.markedSlot /\ x.markedSeen = sc.markedSeen
  <2>1. AtSlot(x, sc, sc.cur, n)
    BY <1>1, PositionedFields
  <2> HIDE DEF x
  <2>2. QED
    BY <2>1 DEF AtSlot
<1> HIDE DEF x
<1> DEFINE r == [x EXCEPT !.seen = m]
<1>3. /\ r \in ScanState /\ r.open = x.open /\ r.table = x.table /\ r.cur = x.cur /\ r.on = x.on
      /\ r.live = x.live /\ r.iter = x.iter /\ r.slot = x.slot /\ r.seen = m
  BY <1>1, <1>2 DEF ScanState
<1>4. /\ r.markedPage = x.markedPage /\ r.markedSlot = x.markedSlot /\ r.markedSeen = x.markedSeen
      /\ r.ended = x.ended /\ r.due = x.due
  BY <1>2 DEF ScanState
<1>5. Restored(sc) = r
  BY DEF Restored, x, n, m
<1> HIDE DEF r
<1>6. QED
  BY <1>2, <1>3, <1>4, <1>5 DEF n, m

\* A get_page by an iterator ...
LEMMA FetchTurns ==
  ASSUME TableInv, NEW s \in Scans, NEW p \in PageIds, HoldPage(p),
         NEW r \in ScanState, r.live => r.on \in PageIds,
         scan' = Detached([scan EXCEPT ![s] = r]), UNCHANGED <<tail, lastRow>>
  PROVE  Turns(s, r)
<1>1. OnlyPage(p, Pages[p]) /\ numPages' = numPages
  BY HoldEffect DEF TableInv
<1>2. PoolOK' /\ \A q \in PageIds : Like(Pages'[q], Pages[q])
  BY <1>1 DEF OnlyPage, Like
<1> DEFINE sc == [scan EXCEPT ![s] = r]
<1>3. sc \in [Scans -> ScanState] /\ \A u \in Scans : sc[u].live => sc[u].on \in PageIds
  BY DEF TableInv, ScansOK, ScanOK
<1> HIDE DEF sc
<1>4. Moves(sc)
  BY <1>3, DetachedMoves DEF TableInv, sc
<1>5. QED
  BY <1>1, <1>2, <1>4 DEF Turns, sc

\* ... a page given back ...
LEMMA LeaveTurns ==
  ASSUME TableInv, NEW s \in Scans, NEW p, UnpinPage(p, FALSE), NEW r \in ScanState,
         scan' = [scan EXCEPT ![s] = r], UNCHANGED <<tail, lastRow>>
  PROVE  Turns(s, r)
<1>1. PoolOK' /\ Pages' = Pages /\ numPages' = numPages
  BY UnpinEffect DEF TableInv
<1> DEFINE sc == [scan EXCEPT ![s] = r]
<1>2. sc \in [Scans -> ScanState] /\ scan' = sc
  BY DEF TableInv, ScansOK
<1> HIDE DEF sc
<1>3. Moves(sc)
  BY <1>2, StillMoves
<1>4. QED
  BY <1>1, <1>3 DEF Turns, sc, Like

\* ... and a step on the page it holds.
LEMMA StayTurns ==
  ASSUME TableInv, NEW s \in Scans, UNCHANGED <<frames, disk, fileLen, numPages>>,
         NEW r \in ScanState, scan' = [scan EXCEPT ![s] = r], UNCHANGED <<tail, lastRow>>
  PROVE  Turns(s, r)
<1>1. PoolOK' /\ Pages' = Pages /\ numPages' = numPages
  BY SamePool DEF TableInv, pool
<1> DEFINE sc == [scan EXCEPT ![s] = r]
<1>2. sc \in [Scans -> ScanState] /\ scan' = sc
  BY DEF TableInv, ScansOK
<1> HIDE DEF sc
<1>3. Moves(sc)
  BY <1>2, StillMoves
<1>4. QED
  BY <1>1, <1>3 DEF Turns, sc, Like

\* What is known of iterator s.
LEMMA ScanTyped ==
  ASSUME TableInv, NEW s \in Scans
  PROVE  /\ scan \in [Scans -> ScanState] /\ scan[s] \in ScanState
         /\ scan[s].live => scan[s].on \in PageIds
         /\ scan[s].open => /\ scan[s].cur \in PageIds /\ scan[s].on \in PageIds
                            /\ scan[s].markedPage \in PageIds
         /\ thread = Advancing(s) \/ thread = Resetting(s) => scan[s].open
BY DEF TableInv, ScansOK, ScanOK

\* __init__
LEMMA OpenScanTurns ==
  ASSUME TableInv, NEW s \in Scans, NEW t \in Tables, OpenScan(s, t)
  PROVE  Turns(s, Opened(t)) /\ thread' = thread /\ thread.call = "none"
<1>1. /\ HoldPage(FirstPage[t]) /\ scan' = Detached([scan EXCEPT ![s] = Opened(t)])
      /\ UNCHANGED <<thread, tail, lastRow>> /\ thread.call = "none"
  BY DEF OpenScan, Opened, NoCall
<1>2. FirstPage[t] \in PageIds /\ Opened(t) \in ScanState /\ Opened(t).on = FirstPage[t]
  BY FirstPlace, OpenedFields
<1>3. QED
  BY <1>1, <1>2, FetchTurns

\* __next__
LEMMA ScanReturnsTurns ==
  ASSUME TableInv, NEW s \in Scans, ScanReturns(s)
  PROVE  Turns(s, Returned(scan[s])) /\ thread' = thread /\ thread.call = "none"
<1>1. scan \in [Scans -> ScanState] /\ scan[s] \in ScanState
  BY ScanTyped
<1>2. /\ UNCHANGED <<frames, disk, fileLen, numPages>> /\ UNCHANGED <<thread, tail, lastRow>>
      /\ thread.call = "none"
  BY DEF ScanReturns, pool, NoCall
<1>3. scan' = [scan EXCEPT ![s] = Returned(scan[s])]
  BY <1>1 DEF ScanReturns, Returned
<1>4. QED
  BY <1>1, <1>2, <1>3, ReturnedFields, StayTurns

\* has_next, on a page with a link ...
LEMMA ScanLeavesTurns ==
  ASSUME TableInv, NEW s \in Scans, ScanLeavesPage(s), View(s).next # NoLink
  PROVE  Turns(s, Left(scan[s], View(s).next)) /\ thread' = Advancing(s)
<1>1. scan[s] \in ScanState /\ View(s).next \in PageIds
  BY ScanTyped, ViewTyped
<1>2. /\ UnpinPage(scan[s].cur, FALSE) /\ UNCHANGED <<tail, lastRow>> /\ thread' = Advancing(s)
      /\ scan' = [scan EXCEPT ![s] = Left(scan[s], View(s).next)]
  BY DEF ScanLeavesPage, Left
<1>3. QED
  BY <1>1, <1>2, LeftFields, LeaveTurns

\* ... and on one without.
LEMMA ScanEndsTurns ==
  ASSUME TableInv, NEW s \in Scans, ScanLeavesPage(s), View(s).next = NoLink
  PROVE  Turns(s, Ended(scan[s])) /\ thread' = Idle
<1>1. scan \in [Scans -> ScanState] /\ scan[s] \in ScanState
  BY ScanTyped
<1>2. /\ scan' = [scan EXCEPT ![s].iter = FALSE, ![s].ended = TRUE]
      /\ thread' = Idle
  BY Zenon DEF ScanLeavesPage
<1>3. UnpinPage(scan[s].cur, FALSE) /\ UNCHANGED <<tail, lastRow>>
  BY DEF ScanLeavesPage
<1>4. scan' = [scan EXCEPT ![s] = Ended(scan[s])]
  BY <1>1, <1>2 DEF Ended
<1>5. QED
  BY <1>1, <1>2, <1>3, <1>4, EndedFields, LeaveTurns

\* get_data_page of the linked page ...
LEMMA ScanFetchesTurns ==
  ASSUME TableInv, NEW s \in Scans, ScanFetches(s)
  PROVE  /\ Turns(s, Positioned(scan[s], scan[s].cur, 0))
         /\ thread = Advancing(s) /\ (thread' = thread \/ thread' = Idle)
<1>1. thread = Advancing(s) /\ (thread' = thread \/ thread' = Idle)
  BY DEF ScanFetches
<1>2. scan[s] \in ScanState /\ scan[s].cur \in PageIds
  BY <1>1, ScanTyped
<1>3. /\ HoldPage(scan[s].cur) /\ UNCHANGED <<tail, lastRow>>
      /\ scan' = Detached([scan EXCEPT ![s] = Positioned(scan[s], scan[s].cur, 0)])
  BY DEF ScanFetches
<1> DEFINE r == Positioned(scan[s], scan[s].cur, 0)
<1>4. r \in ScanState /\ r.on \in PageIds
  <2>1. AtSlot(r, scan[s], scan[s].cur, 0)
    BY <1>2, PositionedFields
  <2> HIDE DEF r
  <2>2. QED
    BY <1>2, <2>1 DEF AtSlot
<1> HIDE DEF r
<1>5. Turns(s, r)
  BY <1>2, <1>3, <1>4, FetchTurns DEF r
<1>6. QED
  BY <1>1, <1>5 DEF r

\* ... which may fail.
LEMMA ScanStopsTurns ==
  ASSUME TableInv, NEW s \in Scans, ScanStopsShort(s)
  PROVE  Turns(s, Stopped(scan[s])) /\ thread = Advancing(s) /\ thread' = Idle
<1>1. scan \in [Scans -> ScanState] /\ scan[s] \in ScanState
  BY ScanTyped
<1>2. /\ UNCHANGED <<frames, disk, fileLen, numPages>> /\ UNCHANGED <<tail, lastRow>>
      /\ thread = Advancing(s) /\ thread' = Idle
  BY DEF ScanStopsShort, PoolExhausted
<1>3. scan' = [scan EXCEPT ![s] = Stopped(scan[s])]
  BY <1>1 DEF ScanStopsShort, Stopped
<1>4. QED
  BY <1>1, <1>2, <1>3, StoppedFields, StayTurns

\* mark
LEMMA MarkScanTurns ==
  ASSUME TableInv, NEW s \in Scans, MarkScan(s)
  PROVE  Turns(s, Marked(scan[s])) /\ thread' = thread /\ thread.call = "none"
<1>1. scan[s] \in ScanState
  BY ScanTyped
<1>2. /\ UNCHANGED <<frames, disk, fileLen, numPages>> /\ UNCHANGED <<thread, tail, lastRow>>
      /\ thread.call = "none" /\ scan' = [scan EXCEPT ![s] = Marked(scan[s])]
  BY DEF MarkScan, pool, NoCall
<1>3. QED
  BY <1>1, <1>2, MarkedFields, StayTurns

\* reset, up to the page of the mark ...
LEMMA ResetLeavesTurns ==
  ASSUME TableInv, NEW s \in Scans, ResetLeavesPage(s)
  PROVE  /\ Turns(s, Left(scan[s], scan[s].markedPage)) /\ thread' = Resetting(s)
         /\ scan[s].open /\ thread.call = "none"
<1>1. /\ UnpinPage(scan[s].cur, FALSE) /\ UNCHANGED <<tail, lastRow>> /\ thread' = Resetting(s)
      /\ scan' = [scan EXCEPT ![s] = Left(scan[s], scan[s].markedPage)]
      /\ scan[s].open /\ thread.call = "none"
  BY DEF ResetLeavesPage, Left, NoCall
<1>2. scan[s] \in ScanState /\ scan[s].markedPage \in PageIds
  BY <1>1, ScanTyped
<1>3. QED
  BY <1>1, <1>2, LeftFields, LeaveTurns

\* ... which is fetched ...
LEMMA ResetFetchesTurns ==
  ASSUME TableInv, NEW s \in Scans, ResetFetches(s)
  PROVE  Turns(s, Restored(scan[s])) /\ thread = Resetting(s) /\ thread' = Idle
<1>1. /\ HoldPage(scan[s].cur) /\ UNCHANGED <<tail, lastRow>> /\ thread = Resetting(s) /\ thread' = Idle
      /\ scan' = Detached([scan EXCEPT ![s] = Restored(scan[s])])
  BY DEF ResetFetches, Restored
<1>2. scan[s] \in ScanState /\ scan[s].cur \in PageIds
  BY <1>1, ScanTyped
<1>3. Restored(scan[s]) \in ScanState /\ Restored(scan[s]).on \in PageIds
  BY <1>2, RestoredFields
<1>4. QED
  BY <1>1, <1>2, <1>3, FetchTurns

\* ... or is not.
LEMMA ResetFailsTurns ==
  ASSUME TableInv, NEW s \in Scans, ResetFails(s)
  PROVE  Turns(s, Stranded(scan[s])) /\ thread = Resetting(s) /\ thread' = Idle
<1>1. scan[s] \in ScanState
  BY ScanTyped
<1>2. /\ UNCHANGED <<frames, disk, fileLen, numPages>> /\ UNCHANGED <<tail, lastRow>>
      /\ thread = Resetting(s) /\ thread' = Idle
      /\ scan' = [scan EXCEPT ![s] = Stranded(scan[s])]
  BY DEF ResetFails, PoolExhausted, Stranded
<1>3. QED
  BY <1>1, <1>2, StrandedFields, StayTurns

\* close
LEMMA CloseScanTurns ==
  ASSUME TableInv, NEW s \in Scans, CloseScan(s)
  PROVE  Turns(s, ClosedScan(scan[s].table)) /\ thread' = thread /\ thread.call = "none"
<1>1. scan[s].table \in Tables
  BY ScanTyped DEF ScanState
<1>2. /\ UnpinPage(scan[s].cur, FALSE) /\ UNCHANGED <<thread, tail, lastRow>> /\ thread.call = "none"
      /\ scan' = [scan EXCEPT ![s] = ClosedScan(scan[s].table)]
  BY DEF CloseScan, NoCall
<1>3. QED
  BY <1>1, <1>2, ClosedFields, LeaveTurns

------------------------------------------------------------------------------
(* The invariant is kept *)

\* The calls there are.
LEMMA CallsAre ==
  /\ Idle \in Threads
  /\ \A s \in Scans : Advancing(s) \in Threads /\ Resetting(s) \in Threads
  /\ \A k \in Inserters : Raised(k) \in Threads
  /\ Idle.call = "none"
  /\ \A s \in Scans : Advancing(s).call = "has_next" /\ Resetting(s).call = "reset"
  /\ \A k \in Inserters : Raised(k).call = "none"
<1>1. Idle \in Threads
  BY DEF Threads
<1>2. \A s \in Scans : Advancing(s) \in Threads /\ Resetting(s) \in Threads
  BY DEF Threads
<1>3. \A k \in Inserters : Raised(k) \in Threads
  BY DEF Threads
<1>4. Idle.call = "none"
  BY DEF Idle
<1>5. \A s \in Scans : Advancing(s).call = "has_next" /\ Resetting(s).call = "reset"
  BY DEF Advancing, Resetting
<1>6. \A k \in Inserters : Raised(k).call = "none"
  BY DEF Raised
<1>7. QED
  BY <1>1, <1>2, <1>3, <1>4, <1>5, <1>6

\* A call of an iterator keeps the tables and the inserters.
LEMMA TurnKeeps ==
  ASSUME TableInv, NEW s \in Scans, NEW r, Turns(s, r),
         r.live => r.on \in PageIds,
         r.open => r.cur \in PageIds /\ r.on \in PageIds /\ r.markedPage \in PageIds,
         thread' \in {Idle, Advancing(s), Resetting(s)} \/ thread' = thread,
         thread' = thread => thread.call # "insert",
         thread' = Advancing(s) \/ thread' = Resetting(s) => r.open
  PROVE  TableInv' /\ RowsStay /\ Growing /\ \A t \in Tables : Chain(t)' = Chain(t)
<1>1. /\ PoolOK' /\ numPages' = numPages /\ (\A p \in PageIds : Like(Pages'[p], Pages[p]))
      /\ UNCHANGED <<tail, lastRow>> /\ r \in ScanState /\ Moves([scan EXCEPT ![s] = r])
  BY DEF Turns
<1>2. ChainsOK' /\ (\A t \in Tables : Chain(t)' = Chain(t)) /\ RowsStay /\ Growing
  <2>1. numPages <= numPages'
    BY <1>1, PoolParts DEF TableInv
  <2>2. QED
    BY <1>1, <2>1, PagesStay
<1>3. TailsOK'
  <2>1. \A k \in Inserters : TableOf[k] \in Tables
    BY HeapAssumption
  <2>2. QED
    BY <1>1, <1>2, <2>1 DEF TableInv, TailsOK
<1>4. thread' \in Threads /\ thread'.call # "insert"
  BY CallsAre DEF TableInv
<1>5. InsertOK'
  BY <1>4 DEF InsertOK
<1>6. ScansOK(scan, thread)'
  <2> DEFINE sc == [scan EXCEPT ![s] = r]
             th == thread'
  <2>1. ScansOK(sc, th)
    <3> HIDE DEF th
    <3>1. th \in {Idle, Advancing(s), Resetting(s)} \/ th = thread
      BY DEF th
    <3>2. th = Advancing(s) \/ th = Resetting(s) => r.open
      BY DEF th
    <3>3. QED
      BY <1>1, <3>1, <3>2, ScanBecomes DEF TableInv
  <2> HIDE DEF sc
  <2>2. QED
    BY <1>1, <2>1, ScansMoved DEF TableInv, sc
<1>7. lastRow' \in 0..MaxRows
  BY <1>1 DEF TableInv
<1>8. QED
  BY <1>1, <1>2, <1>3, <1>4, <1>5, <1>6, <1>7 DEF TableInv

\* A call of iterator s, or a step of one.
ScanCalls(s) ==
  \/ \E t \in Tables : OpenScan(s, t)
  \/ ScanReturns(s) \/ ScanLeavesPage(s) \/ ScanFetches(s) \/ ScanStopsShort(s)
  \/ MarkScan(s) \/ ResetLeavesPage(s) \/ ResetFetches(s) \/ ResetFails(s)
  \/ CloseScan(s)

\* What the calls of iterator s do to the thread.
ScanThread(s) ==
  /\ thread.call = "none" \/ thread = Advancing(s) \/ thread = Resetting(s)
  /\ thread.call # "insert"
  /\ thread' = thread \/ thread' \in {Idle, Advancing(s), Resetting(s)}

\* The tables, the inserters and the well-formed iterators stay.
Kept ==
  TableInv' /\ RowsStay /\ Growing /\ \A t \in Tables : Chain(t)' = Chain(t)

\* What a call of iterator s makes of it, in a form that TurnKeeps takes.
TurnOf(s, r) ==
  /\ Turns(s, r)
  /\ r.live => r.on \in PageIds
  /\ r.open => r.cur \in PageIds /\ r.on \in PageIds /\ r.markedPage \in PageIds
  /\ ScanThread(s)
  /\ thread' = Advancing(s) \/ thread' = Resetting(s) => r.open

\* The calls that are running are not inserts.
LEMMA ThreadOf ==
  ASSUME NEW s \in Scans,
         \/ thread.call = "none"
         \/ thread = Advancing(s) \/ thread = Resetting(s),
         thread' = thread \/ thread' \in {Idle, Advancing(s), Resetting(s)}
  PROVE  ScanThread(s)
BY CallsAre DEF ScanThread

\* What becomes of iterator s.
LEMMA OpenScanTurn ==
  ASSUME TableInv, NEW s \in Scans, NEW t \in Tables, OpenScan(s, t)
  PROVE  TurnOf(s, Opened(t))
<1>1. Turns(s, Opened(t)) /\ thread' = thread /\ thread.call = "none"
  BY OpenScanTurns
<1>2. ScanThread(s)
  BY <1>1, ThreadOf
<1>3. FirstPage[t] \in PageIds
  BY FirstPlace
<1>4. /\ Opened(t).open = TRUE /\ Opened(t).on = FirstPage[t] /\ Opened(t).cur = FirstPage[t]
      /\ Opened(t).markedPage = FirstPage[t]
  BY OpenedFields
<1>5. QED
  BY <1>1, <1>2, <1>3, <1>4 DEF TurnOf

\* __next__
LEMMA ScanReturnsTurn ==
  ASSUME TableInv, NEW s \in Scans, ScanReturns(s)
  PROVE  TurnOf(s, Returned(scan[s]))
<1>1. Turns(s, Returned(scan[s])) /\ thread' = thread /\ thread.call = "none"
  BY ScanReturnsTurns
<1>2. ScanThread(s)
  BY <1>1, ThreadOf
<1>3. scan[s] \in ScanState
  BY ScanTyped
<1>4. QED
  BY <1>1, <1>2, <1>3, ReturnedFields, ScanTyped DEF TurnOf

\* has_next, on a page with a link ...
LEMMA ScanLeavesTurn ==
  ASSUME TableInv, NEW s \in Scans, ScanLeavesPage(s), View(s).next # NoLink
  PROVE  TurnOf(s, Left(scan[s], View(s).next))
<1>1. Turns(s, Left(scan[s], View(s).next)) /\ thread' = Advancing(s)
  BY ScanLeavesTurns
<1>2. scan[s].open /\ (thread.call = "none" \/ thread = Advancing(s))
  BY DEF ScanLeavesPage, NoCall
<1>3. ScanThread(s)
  BY <1>1, <1>2, ThreadOf
<1>4. scan[s] \in ScanState /\ View(s).next \in PageIds
  BY ScanTyped, ViewTyped
<1>5. QED
  BY <1>1, <1>2, <1>3, <1>4, LeftFields, ScanTyped DEF TurnOf

\* ... and on one without.
LEMMA ScanEndsTurn ==
  ASSUME TableInv, NEW s \in Scans, ScanLeavesPage(s), View(s).next = NoLink
  PROVE  TurnOf(s, Ended(scan[s]))
<1>1. Turns(s, Ended(scan[s])) /\ thread' = Idle
  BY ScanEndsTurns
<1>2. scan[s].open /\ (thread.call = "none" \/ thread = Advancing(s))
  BY DEF ScanLeavesPage, NoCall
<1>3. ScanThread(s)
  BY <1>1, <1>2, ThreadOf
<1>4. scan[s] \in ScanState
  BY ScanTyped
<1>5. QED
  BY <1>1, <1>2, <1>3, <1>4, EndedFields, ScanTyped DEF TurnOf

\* The linked page ...
LEMMA ScanFetchesTurn ==
  ASSUME TableInv, NEW s \in Scans, ScanFetches(s)
  PROVE  /\ scan[s].open /\ scan[s].cur \in PageIds
         /\ TurnOf(s, Positioned(scan[s], scan[s].cur, 0))
<1> DEFINE r == Positioned(scan[s], scan[s].cur, 0)
<1>1. Turns(s, r) /\ thread = Advancing(s) /\ (thread' = thread \/ thread' = Idle)
  BY ScanFetchesTurns
<1>2. /\ scan[s] \in ScanState /\ scan[s].open /\ scan[s].cur \in PageIds
      /\ scan[s].markedPage \in PageIds
  BY <1>1, ScanTyped
<1>3. AtSlot(r, scan[s], scan[s].cur, 0)
  BY <1>2, PositionedFields
<1>4. ScanThread(s)
  BY <1>1, ThreadOf
<1> HIDE DEF r
<1>5. TurnOf(s, r)
  BY <1>1, <1>2, <1>3, <1>4 DEF TurnOf, AtSlot
<1>6. QED
  BY <1>2, <1>5 DEF r

\* ... which may not be fetched.
LEMMA ScanStopsTurn ==
  ASSUME TableInv, NEW s \in Scans, ScanStopsShort(s)
  PROVE  TurnOf(s, Stopped(scan[s]))
<1>1. Turns(s, Stopped(scan[s])) /\ thread = Advancing(s) /\ thread' = Idle
  BY ScanStopsTurns
<1>2. scan[s] \in ScanState /\ scan[s].open
  BY <1>1, ScanTyped
<1>3. ScanThread(s)
  BY <1>1, ThreadOf
<1>4. QED
  BY <1>1, <1>2, <1>3, StoppedFields, ScanTyped DEF TurnOf

\* mark
LEMMA MarkScanTurn ==
  ASSUME TableInv, NEW s \in Scans, MarkScan(s)
  PROVE  TurnOf(s, Marked(scan[s]))
<1>1. Turns(s, Marked(scan[s])) /\ thread' = thread /\ thread.call = "none"
  BY MarkScanTurns
<1>2. scan[s] \in ScanState
  BY ScanTyped
<1>3. ScanThread(s)
  BY <1>1, ThreadOf
<1>4. QED
  BY <1>1, <1>2, <1>3, MarkedFields, ScanTyped DEF TurnOf

\* reset, up to the page of the mark ...
LEMMA ResetLeavesTurn ==
  ASSUME TableInv, NEW s \in Scans, ResetLeavesPage(s)
  PROVE  TurnOf(s, Left(scan[s], scan[s].markedPage))
<1>1. /\ Turns(s, Left(scan[s], scan[s].markedPage)) /\ thread' = Resetting(s)
      /\ scan[s].open /\ thread.call = "none"
  BY ResetLeavesTurns
<1>2. scan[s] \in ScanState /\ scan[s].markedPage \in PageIds
  BY <1>1, ScanTyped
<1>3. ScanThread(s)
  BY <1>1, ThreadOf
<1>4. QED
  BY <1>1, <1>2, <1>3, LeftFields, ScanTyped DEF TurnOf

\* ... which is fetched ...
LEMMA ResetFetchesTurn ==
  ASSUME TableInv, NEW s \in Scans, ResetFetches(s)
  PROVE  TurnOf(s, Restored(scan[s])) /\ scan[s].open /\ scan[s].cur \in PageIds
<1>1. Turns(s, Restored(scan[s])) /\ thread = Resetting(s) /\ thread' = Idle
  BY ResetFetchesTurns
<1>2. /\ scan[s] \in ScanState /\ scan[s].open /\ scan[s].cur \in PageIds
      /\ scan[s].markedPage \in PageIds
  BY <1>1, ScanTyped
<1>3. ScanThread(s)
  BY <1>1, ThreadOf
<1>4. QED
  BY <1>1, <1>2, <1>3, RestoredFields DEF TurnOf

\* ... or is not.
LEMMA ResetFailsTurn ==
  ASSUME TableInv, NEW s \in Scans, ResetFails(s)
  PROVE  TurnOf(s, Stranded(scan[s]))
<1>1. Turns(s, Stranded(scan[s])) /\ thread = Resetting(s) /\ thread' = Idle
  BY ResetFailsTurns
<1>2. scan[s] \in ScanState /\ scan[s].open
  BY <1>1, ScanTyped
<1>3. ScanThread(s)
  BY <1>1, ThreadOf
<1>4. QED
  BY <1>1, <1>2, <1>3, StrandedFields, ScanTyped DEF TurnOf

\* close
LEMMA CloseScanTurn ==
  ASSUME TableInv, NEW s \in Scans, CloseScan(s)
  PROVE  TurnOf(s, ClosedScan(scan[s].table)) /\ scan[s].table \in Tables
<1>1. Turns(s, ClosedScan(scan[s].table)) /\ thread' = thread /\ thread.call = "none"
  BY CloseScanTurns
<1>2. scan[s].table \in Tables
  BY ScanTyped DEF ScanState
<1>3. ScanThread(s)
  BY <1>1, ThreadOf
<1>4. thread' # Advancing(s) /\ thread' # Resetting(s)
  BY <1>1, CallsAre
<1>5. QED
  BY <1>1, <1>2, <1>3, <1>4, ClosedFields DEF TurnOf

\* Any call of iterator s keeps the tables.
LEMMA ScanKeeps ==
  ASSUME TableInv, NEW s \in Scans, ScanCalls(s)
  PROVE  Kept /\ ScanThread(s) /\ UNCHANGED <<tail, lastRow>>
<1>1. \E r : TurnOf(s, r)
  BY OpenScanTurn, ScanReturnsTurn, ScanLeavesTurn, ScanEndsTurn, ScanFetchesTurn, ScanStopsTurn,
     MarkScanTurn, ResetLeavesTurn, ResetFetchesTurn, ResetFailsTurn, CloseScanTurn
  DEF ScanCalls
<1>2. PICK r : TurnOf(s, r)
  BY <1>1
<1>3. /\ Turns(s, r) /\ (r.live => r.on \in PageIds)
      /\ (r.open => r.cur \in PageIds /\ r.on \in PageIds /\ r.markedPage \in PageIds)
      /\ (thread' \in {Idle, Advancing(s), Resetting(s)} \/ thread' = thread)
      /\ thread.call # "insert"
      /\ (thread' = Advancing(s) \/ thread' = Resetting(s) => r.open)
  BY <1>2 DEF TurnOf, ScanThread
<1>4. Kept
  BY <1>3, TurnKeeps DEF Kept
<1>5. QED
  BY <1>2, <1>3, <1>4 DEF TurnOf, Turns

------------------------------------------------------------------------------
(* The calls of an inserter *)

\* A call that is running.
LEMMA InsertingFields ==
  ASSUME NEW k \in Inserters, NEW step \in {"try", "grow", "initialise", "link"}, NEW new \in Links
  PROVE  /\ Inserting(k, step, new) \in Threads /\ Inserting(k, step, new).call = "insert"
         /\ Inserting(k, step, new).who = k /\ Inserting(k, step, new).step = step
         /\ Inserting(k, step, new).new = new
<1>1. Inserting(k, step, new) \in Threads
  BY DEF Threads
<1>2. QED
  BY <1>1 DEF Inserting

\* Chains that stay leave the inserters where they are.
LEMMA TailsStay ==
  ASSUME TableInv, UNCHANGED tail, \A t \in Tables : Chain(t)' = Chain(t)
  PROVE  TailsOK'
<1>1. \A k \in Inserters : TableOf[k] \in Tables
  BY HeapAssumption
<1>2. QED
  BY <1>1 DEF TableInv, TailsOK

\* What a step of an inserter has to show.
LEMMA InsertTurn ==
  ASSUME TableInv, PoolOK', ChainsOK', TailsOK', InsertOK', Moves(scan),
         thread' \in Threads, thread'.call \in {"none", "insert"}, lastRow' \in 0..MaxRows
  PROVE  TableInv'
<1>1. \A s \in Scans : thread' # Advancing(s) /\ thread' # Resetting(s)
  BY CallsAre
<1>2. ScansOK(scan, thread') /\ PoolOK
  BY <1>1 DEF TableInv, ScansOK, ScanOK
<1>3. ScansOK(scan, thread)'
  BY <1>2, ScansMoved
<1>4. QED
  BY <1>3 DEF TableInv

\* No inserter is running.
LEMMA NoInsert ==
  ASSUME thread'.call # "insert"
  PROVE  InsertOK'
BY DEF InsertOK

\* The iterators after a step of an inserter.
LEMMA InsertMoves ==
  ASSUME TableInv, scan' = Detached(scan) \/ scan' = scan
  PROVE  Moves(scan)
<1>1. scan \in [Scans -> ScanState] /\ (\A s \in Scans : scan[s].live => scan[s].on \in PageIds) /\ PoolOK
  BY DEF TableInv, ScansOK, ScanOK
<1>2. QED
  BY <1>1, DetachedMoves, StillMoves

\* What is known in a call of inserter k.
LEMMA InsertPlace ==
  ASSUME TableInv, NEW k \in Inserters, NEW step, InInsert(k, step)
  PROVE  /\ PoolOK /\ tail[k] \in PageIds /\ Current(tail[k]) = Pages[tail[k]]
         /\ Pages[tail[k]] \in PageContents /\ Pages[tail[k]].next < numPages
         /\ Pages[tail[k]].name = TableOf[k] /\ TableOf[k] \in Tables
         /\ thread.call = "insert" /\ thread.who = k /\ thread.step = step
         /\ tail \in [Inserters -> PageIds]
<1>1. PoolOK /\ tail \in [Inserters -> PageIds]
  BY DEF TableInv, TailsOK
<1>2. tail[k] \in PageIds /\ Pages[tail[k]].name = TableOf[k] /\ TableOf[k] \in Tables
  BY TailPlace
<1>3. Pages[tail[k]] \in PageContents /\ Pages[tail[k]].next < numPages
  BY <1>1, <1>2, PagesTyped
<1>4. QED
  BY <1>1, <1>2, <1>3 DEF Pages, InInsert

\* insert
LEMMA CallInsertKeeps ==
  ASSUME TableInv, NEW k \in Inserters, CallInsert(k)
  PROVE  TableInv' /\ RowsStay /\ Growing
<1>1. PoolOK' /\ Pages' = Pages /\ numPages' = numPages
  BY SamePool DEF TableInv, CallInsert
<1>2. numPages <= numPages' /\ \A p \in PageIds : Like(Pages'[p], Pages[p])
  BY <1>1, PoolParts DEF TableInv, Like
<1>3. ChainsOK' /\ (\A t \in Tables : Chain(t)' = Chain(t)) /\ RowsStay /\ Growing
  BY <1>1, <1>2, PagesStay
<1>4. TailsOK'
  BY <1>3, TailsStay DEF CallInsert
<1>5. NoLink \in Links
  BY CapacityAssumption DEF Links, NoLink
<1>6. thread' \in Threads /\ thread'.call = "insert" /\ thread'.step = "try"
  <2>1. thread' = Inserting(k, "try", NoLink)
    BY DEF CallInsert
  <2>2. QED
    BY <1>5, <2>1, InsertingFields
<1>7. InsertOK'
  BY <1>6 DEF InsertOK
<1>8. lastRow' \in 0..MaxRows
  BY HeapAssumption DEF CallInsert, TableInv
<1>9. Moves(scan)
  BY InsertMoves DEF CallInsert
<1>10. QED
  BY <1>1, <1>3, <1>4, <1>6, <1>7, <1>8, <1>9, InsertTurn

\* insert_record
LEMMA InsertStoresKeeps ==
  ASSUME TableInv, NEW k \in Inserters, InsertStores(k)
  PROVE  TableInv' /\ RowsGain(TableOf[k], [row |-> lastRow]) /\ Growing
<1> DEFINE p == tail[k]
           e == [row |-> lastRow]
           c == WithRecord(Pages[p], e)
<1>1. InInsert(k, "try")
  BY DEF InsertStores
<1>2. /\ PoolOK /\ p \in PageIds /\ Current(p) = Pages[p]
      /\ Pages[p] \in PageContents /\ Pages[p].next < numPages
  BY <1>1, InsertPlace
<1>3. HasRoom(Pages[p]) /\ UpdatePage(p, c)
  BY <1>2 DEF InsertStores
<1>4. e \in Records
  BY DEF TableInv, Records, Row
<1>5. c \in PageContents /\ c.next = Pages[p].next
  <2> HIDE DEF e, p
  <2>1. QED
    BY <1>2, <1>4, RecordFields
<1>6. OnlyPage(p, c) /\ numPages' = numPages
  <2> HIDE DEF c, p
  <2>1. QED
    BY <1>2, <1>3, <1>5, UpdateEffect
<1>7. ChainsOK' /\ (\A t \in Tables : Chain(t)' = Chain(t)) /\ RowsGain(TableOf[k], e) /\ Growing
  <2> HIDE DEF e
  <2>1. QED
    BY <1>3, <1>4, <1>6, ChainsStore
<1>8. PoolOK'
  BY <1>6 DEF OnlyPage
<1>9. TailsOK'
  BY <1>7, TailsStay DEF InsertStores
<1>10. thread' \in Threads /\ thread'.call = "none"
  BY CallsAre DEF InsertStores
<1>11. Moves(scan)
  BY InsertMoves DEF InsertStores
<1>12. lastRow' \in 0..MaxRows
  BY DEF InsertStores, TableInv
<1>13. InsertOK'
  BY <1>10, NoInsert
<1>14. TableInv'
  BY <1>7, <1>8, <1>9, <1>10, <1>11, <1>12, <1>13, InsertTurn
<1>15. QED
  BY <1>7, <1>14

\* insert_record, when it raises in the middle.
LEMMA InsertBreaksKeeps ==
  ASSUME TableInv, NEW k \in Inserters, InsertBreaks(k)
  PROVE  TableInv' /\ RowsStay /\ Growing
<1> DEFINE p == tail[k]
<1>1. InInsert(k, "try") /\ TableOf[k] \in BadRows
  BY DEF InsertBreaks
<1>2. /\ PoolOK /\ p \in PageIds /\ Current(p) = Pages[p]
      /\ Pages[p].name = TableOf[k]
  BY <1>1, InsertPlace
<1>3. HasRoom(Pages[p])
  BY <1>2 DEF InsertBreaks
<1>4. OnlyPage(p, WithRecord(Pages[p], HalfWritten)) /\ numPages' = numPages
  <2>1. GetPage(p, LAMBDA f : [f EXCEPT !.content = WithRecord(f.content, HalfWritten)])
    BY DEF InsertBreaks
  <2>2. QED
    BY <1>1, <1>2, <2>1, BreakEffect
<1>5. HalfWritten \in Records
  BY DEF HalfWritten, Records, Row
<1>6. ChainsOK' /\ (\A t \in Tables : Chain(t)' = Chain(t)) /\ RowsGain(TableOf[k], HalfWritten) /\ Growing
  BY <1>3, <1>4, <1>5, ChainsStore
<1>7. RowsStay
  BY <1>1, <1>6 DEF RowsGain, RowsStay, SoundTables
<1>8. PoolOK'
  BY <1>4 DEF OnlyPage
<1>9. TailsOK'
  BY <1>6, TailsStay DEF InsertBreaks
<1>10. thread' \in Threads /\ thread'.call = "none"
  BY CallsAre DEF InsertBreaks
<1>11. Moves(scan)
  BY InsertMoves DEF InsertBreaks
<1>12. lastRow' \in 0..MaxRows
  BY DEF InsertBreaks, TableInv
<1>13. InsertOK'
  BY <1>10, NoInsert
<1>14. TableInv'
  BY <1>6, <1>8, <1>9, <1>10, <1>11, <1>12, <1>13, InsertTurn
<1>15. QED
  BY <1>6, <1>7, <1>14

\* The page is full: the next one, or a new one.
LEMMA InsertMovesOnKeeps ==
  ASSUME TableInv, NEW k \in Inserters, InsertMovesOn(k)
  PROVE  TableInv' /\ RowsStay /\ Growing
<1> DEFINE p == tail[k]
           u == TableOf[k]
           C == Chain(u)
           next == Pages[p].next
<1>1. InInsert(k, "try")
  BY DEF InsertMovesOn
<1>2. /\ PoolOK /\ p \in PageIds /\ Current(p) = Pages[p] /\ u \in Tables
      /\ thread.call = "insert" /\ tail \in [Inserters -> PageIds]
      /\ thread.who = k /\ thread.step = "try"
  BY <1>1, InsertPlace
<1>3. OnlyPage(p, Pages[p]) /\ numPages' = numPages
  <2>1. InspectPage(p)
    BY DEF InsertMovesOn
  <2>2. QED
    BY <1>2, <2>1, InspectEffect
<1>4. PoolOK' /\ Pages'[p] = Pages[p] /\ (\A q \in PageIds : Like(Pages'[q], Pages[q]))
      /\ numPages <= numPages'
  BY <1>2, <1>3, PoolParts DEF OnlyPage, Like
<1>5. ChainsOK' /\ (\A t \in Tables : Chain(t)' = Chain(t)) /\ RowsStay /\ Growing
  BY <1>4, PagesStay
<1>6. Moves(scan)
  BY InsertMoves DEF InsertMovesOn
<1>7. lastRow' \in 0..MaxRows
  BY DEF InsertMovesOn, TableInv
<1>8. CASE next # NoLink
  <2>1. thread' = thread /\ tail' = [tail EXCEPT ![k] = next]
    BY <1>2, <1>8 DEF InsertMovesOn
  <2>2. PICK j \in 1..Len(C) : p = C[j]
    BY TailPlace
  <2>3. Whole(Pages, numPages, u, C)
    BY TailPlace
  <2>4. j + 1 \in 1..Len(C) /\ next = C[j + 1]
    BY <1>8, <2>2, <2>3, WholeNext
  <2>5. next \in PageIds
    BY <2>3, <2>4, WholeParts
  <2>6. tail' \in [Inserters -> PageIds] /\ tail'[k] = next /\ \A l \in Inserters : l # k => tail'[l] = tail[l]
    BY <1>2, <2>1, <2>5
  <2>7. TailsOK'
    <3>1. ASSUME NEW l \in Inserters
          PROVE  \E i \in 1..Len(Chain(TableOf[l])') : tail'[l] = (Chain(TableOf[l])')[i]
      <4>1. TableOf[l] \in Tables /\ Chain(TableOf[l])' = Chain(TableOf[l])
        BY <1>5, TailPlace
      <4>2. CASE l = k
        BY <2>4, <2>6, <4>1, <4>2
      <4>3. CASE l # k
        BY <2>6, <4>1, <4>3, TailPlace
      <4>4. QED
        BY <4>2, <4>3
    <3>2. QED
      BY <2>6, <3>1 DEF TailsOK
  <2>8. InsertOK'
    BY <1>2, <2>1 DEF InsertOK
  <2>9. thread' \in Threads /\ thread'.call = "insert"
    BY <1>2, <2>1 DEF TableInv
  <2>10. TableInv'
    BY <1>4, <1>5, <1>6, <1>7, <2>7, <2>8, <2>9, InsertTurn
  <2>11. QED
    BY <1>5, <2>10
<1>9. CASE next = NoLink
  <2>1. thread' = Inserting(k, "grow", NoLink) /\ tail' = tail
    BY <1>2, <1>9 DEF InsertMovesOn
  <2>2. NoLink \in Links
    BY CapacityAssumption DEF Links, NoLink
  <2>3. /\ thread' \in Threads /\ thread'.call = "insert"
        /\ thread'.who = k /\ thread'.step = "grow"
    BY <2>1, <2>2, InsertingFields
  <2>4. TailsOK'
    BY <1>5, <2>1, TailsStay
  <2>5. ~HasRoom(Pages[p])
    BY <1>2 DEF InsertMovesOn
  <2>6. Pages'[tail'[k]] = Pages[p]
    BY <1>4, <2>1
  <2>7. Pages'[tail'[k]].next = NoLink /\ ~HasRoom(Pages'[tail'[k]])
    BY <1>9, <2>5, <2>6
  <2>8. InsertOK'
    BY <2>3, <2>7 DEF InsertOK
  <2>9. TableInv'
    BY <1>4, <1>5, <1>6, <1>7, <2>3, <2>4, <2>8, InsertTurn
  <2>10. QED
    BY <1>5, <2>9
<1>10. QED
  BY <1>8, <1>9

\* A new page ...
LEMMA InsertAllocatesKeeps ==
  ASSUME TableInv, NEW k \in Inserters, InsertAllocates(k)
  PROVE  TableInv' /\ RowsStay /\ Growing
<1> DEFINE p == tail[k]
           u == TableOf[k]
<1>1. InInsert(k, "grow") /\ GetNewPage /\ thread' = Inserting(k, "initialise", numPages)
      /\ UNCHANGED <<tail, scan, lastRow>>
  BY DEF InsertAllocates
<1>2. /\ PoolOK /\ thread.call = "insert" /\ thread.who = k /\ thread.step = "grow"
  BY <1>1, InsertPlace
<1>3. PoolOK' /\ Pages' = Pages /\ numPages' = numPages + 1 /\ numPages \in PageIds
  BY <1>1, <1>2, NewPageEffect
<1>4. numPages <= numPages' /\ numPages = numPages' - 1 /\ \A q \in PageIds : Like(Pages'[q], Pages[q])
  BY <1>2, <1>3, PoolParts DEF Like
<1>5. ChainsOK' /\ (\A t \in Tables : Chain(t)' = Chain(t)) /\ RowsStay /\ Growing
  BY <1>3, <1>4, PagesStay
<1>6. Moves(scan)
  BY <1>1, InsertMoves
<1>7. lastRow' \in 0..MaxRows
  BY <1>1 DEF TableInv
<1>8. TailsOK'
  BY <1>1, <1>5, TailsStay
<1>9. /\ thread' \in Threads /\ thread'.call = "insert" /\ thread'.who = k
      /\ thread'.step = "initialise" /\ thread'.new = numPages
  BY <1>1, <1>3, InsertingFields, PageIdsAre
<1>10. Pages[p].next = NoLink /\ (u \notin BadRows => ~HasRoom(Pages[p]))
  BY <1>2 DEF TableInv, InsertOK
<1>11. \A t \in Tables : \A i \in 1..Len(Chain(t)) : Chain(t)[i] < numPages
  BY DEF TableInv, ChainsOK, Whole
<1>12. InsertOK'
  <2>1. Pages'[tail'[k]] = Pages[p]
    BY <1>1, <1>3
  <2>2. \A t \in Tables : \A i \in 1..Len(Chain(t)') : (Chain(t)')[i] < thread'.new
    BY <1>5, <1>9, <1>11
  <2>3. QED
    BY <1>3, <1>4, <1>9, <1>10, <2>1, <2>2 DEF InsertOK
<1>13. TableInv'
  BY <1>3, <1>5, <1>6, <1>7, <1>8, <1>9, <1>12, InsertTurn
<1>14. QED
  BY <1>5, <1>13

\* ... is written as an empty page of the table ...
LEMMA InsertInitialisesKeeps ==
  ASSUME TableInv, NEW k \in Inserters, InsertInitialises(k)
  PROVE  TableInv' /\ RowsStay /\ Growing
<1> DEFINE p == tail[k]
           u == TableOf[k]
           q == thread.new
           c == EmptyData(u)
<1>1. /\ InInsert(k, "initialise") /\ thread' = Inserting(k, "link", q)
      /\ UNCHANGED <<tail, lastRow>>
  BY DEF InsertInitialises
<1>2. /\ PoolOK /\ thread.call = "insert" /\ thread.who = k /\ thread.step = "initialise"
      /\ p \in PageIds /\ Current(p) = Pages[p] /\ Pages[p].name = u /\ u \in Tables
  BY <1>1, InsertPlace
<1>3. /\ Pages[p].next = NoLink /\ (u \notin BadRows => ~HasRoom(Pages[p]))
      /\ q = numPages - 1 /\ q \in PageIds
      /\ \A t \in Tables : \A i \in 1..Len(Chain(t)) : Chain(t)[i] < q
  BY <1>2 DEF TableInv, InsertOK
<1>4. UpdatePage(q, c)
  BY <1>2 DEF InsertInitialises
<1>5. c \in PageContents /\ c.next < numPages
  <2>1. u \in Names /\ NoLink \in Links /\ <<>> \in Seq(Row \cup Entry)
    BY <1>2, HeapAssumption, CapacityAssumption, EmptySeq DEF Links, NoLink
  <2>2. NoLink < numPages
    BY <1>2, PoolParts DEF NoLink
  <2>3. QED
    BY <2>1, <2>2 DEF EmptyData, PageContents
<1>6. OnlyPage(q, c) /\ numPages' = numPages
  <2> HIDE DEF c, q
  <2>1. QED
    BY <1>2, <1>3, <1>4, <1>5, UpdateEffect
<1>7. PoolOK' /\ numPages <= numPages'
  BY <1>2, <1>6, PoolParts DEF OnlyPage
<1>8. ASSUME NEW t \in Tables, NEW i \in 1..Len(Chain(t))
      PROVE  Like(Pages'[Chain(t)[i]], Pages[Chain(t)[i]])
  <2>1. Chain(t)[i] \in PageIds
    BY WholeParts DEF TableInv, ChainsOK
  <2>2. Chain(t)[i] # q
    BY <1>3, <2>1, PageIdsAre
  <2>3. QED
    BY <1>6, <2>1, <2>2 DEF OnlyPage
<1>9. ChainsOK' /\ (\A t \in Tables : Chain(t)' = Chain(t)) /\ RowsStay /\ Growing
  BY <1>7, <1>8, ChainsStay
<1>10. Moves(scan)
  BY InsertMoves DEF InsertInitialises
<1>11. lastRow' \in 0..MaxRows
  BY <1>1 DEF TableInv
<1>12. TailsOK'
  BY <1>1, <1>9, TailsStay
<1>13. /\ thread' \in Threads /\ thread'.call = "insert" /\ thread'.who = k
       /\ thread'.step = "link" /\ thread'.new = q
  BY <1>1, <1>3, InsertingFields, PageIdsAre
<1>14. InsertOK'
  <2>1. PICK j \in 1..Len(Chain(u)) : p = Chain(u)[j]
    BY TailPlace
  <2>2. Like(Pages'[p], Pages[p])
    BY <1>2, <1>8, <2>1
  <2>3. Pages'[p].next = NoLink /\ (u \notin BadRows => ~HasRoom(Pages'[p]))
    BY <1>2, <1>3, <2>2 DEF Like, HasRoom
  <2>4. Like(Pages'[q], EmptyData(u))
    BY <1>6 DEF OnlyPage, Like
  <2>5. \A t \in Tables : \A i \in 1..Len(Chain(t)') : (Chain(t)')[i] < q
    BY <1>3, <1>9
  <2>6. QED
    BY <1>1, <1>3, <1>6, <1>13, <2>3, <2>4, <2>5 DEF InsertOK
<1>15. TableInv'
  BY <1>7, <1>9, <1>10, <1>11, <1>12, <1>13, <1>14, InsertTurn
<1>16. QED
  BY <1>9, <1>15

\* ... and linked.
LEMMA InsertLinksKeeps ==
  ASSUME TableInv, NEW k \in Inserters, InsertLinks(k)
  PROVE  TableInv' /\ RowsStay /\ Growing
<1> DEFINE p == tail[k]
           u == TableOf[k]
           q == thread.new
           c == WithNext(Pages[p], q)
<1>1. /\ InInsert(k, "link") /\ thread' = Inserting(k, "try", NoLink)
      /\ tail' = [tail EXCEPT ![k] = q] /\ UNCHANGED lastRow
  BY DEF InsertLinks
<1>2. /\ PoolOK /\ thread.call = "insert" /\ thread.who = k /\ thread.step = "link"
      /\ p \in PageIds /\ Current(p) = Pages[p] /\ Pages[p] \in PageContents
      /\ tail \in [Inserters -> PageIds] /\ u \in Tables
  BY <1>1, InsertPlace
<1>3. q = numPages - 1 /\ q \in PageIds
  BY <1>2 DEF TableInv, InsertOK
<1>4. UpdatePage(p, c)
  BY <1>2 DEF InsertLinks
<1>5. c \in PageContents /\ c.next < numPages
  <2>1. q \in Links /\ q < numPages
    BY <1>2, <1>3, PageIdsAre, PoolParts
  <2>2. c \in PageContents /\ c.next = q
    <3> HIDE DEF q, p
    <3>1. QED
      BY <1>2, <2>1, NextFields
  <2>3. QED
    BY <2>1, <2>2
<1>6. OnlyPage(p, c) /\ numPages' = numPages
  <2> HIDE DEF c, p
  <2>1. QED
    BY <1>2, <1>4, <1>5, UpdateEffect
<1>7. PoolOK'
  BY <1>6 DEF OnlyPage
<1>8. /\ ChainsOK' /\ RowsStay /\ Growing
      /\ \A t \in Tables : Chain(t)' = IF t = u THEN Append(Chain(t), q) ELSE Chain(t)
  BY <1>2, <1>6, ChainsLink
<1>9. Moves(scan)
  BY InsertMoves DEF InsertLinks
<1>10. lastRow' \in 0..MaxRows
  BY <1>1 DEF TableInv
<1>11. TailsOK'
  <2>1. tail' \in [Inserters -> PageIds] /\ tail'[k] = q /\ \A l \in Inserters : l # k => tail'[l] = tail[l]
    BY <1>1, <1>2, <1>3
  <2>2. ASSUME NEW l \in Inserters
        PROVE  \E i \in 1..Len(Chain(TableOf[l])') : tail'[l] = (Chain(TableOf[l])')[i]
    <3> DEFINE D == Chain(TableOf[l])
    <3>1. TableOf[l] \in Tables /\ \E i \in 1..Len(D) : tail[l] = D[i]
      BY TailPlace
    <3>2. D \in Seq(PageIds) /\ Len(D) \in Nat
      BY <3>1, WholeParts DEF TableInv, ChainsOK
    <3>3. /\ Len(Append(D, q)) = Len(D) + 1 /\ Append(D, q)[Len(D) + 1] = q
          /\ \A i \in 1..Len(D) : Append(D, q)[i] = D[i]
      BY <1>3, <3>2, SeqAppend
    <3>4. D' = (IF TableOf[l] = u THEN Append(D, q) ELSE D)
      BY <1>8, <3>1
    <3>5. CASE l = k
      BY <2>1, <3>2, <3>3, <3>4, <3>5
    <3>6. CASE l # k
      <4>1. PICK i \in 1..Len(D) : tail[l] = D[i]
        BY <3>1
      <4>2. i \in 1..Len(D') /\ D'[i] = D[i]
        BY <3>2, <3>3, <3>4
      <4>3. QED
        BY <2>1, <3>6, <4>1, <4>2
    <3>7. QED
      BY <3>5, <3>6
  <2>3. QED
    BY <2>1, <2>2 DEF TailsOK
<1>12. NoLink \in Links
  BY CapacityAssumption DEF Links, NoLink
<1>13. thread' \in Threads /\ thread'.call = "insert" /\ thread'.step = "try"
  BY <1>1, <1>12, InsertingFields
<1>14. InsertOK'
  BY <1>13 DEF InsertOK
<1>15. TableInv'
  BY <1>7, <1>8, <1>9, <1>10, <1>11, <1>13, <1>14, InsertTurn
<1>16. QED
  BY <1>8, <1>15

\* AllBufferFramesPinnedException
LEMMA InsertAbortsKeeps ==
  ASSUME TableInv, NEW k \in Inserters, InsertAborts(k)
  PROVE  TableInv' /\ RowsStay /\ Growing
<1>1. UNCHANGED <<frames, disk, fileLen, numPages>> /\ thread' = Raised(k)
      /\ UNCHANGED <<tail, scan, lastRow>>
  BY DEF InsertAborts, PoolExhausted
<1>2. PoolOK' /\ Pages' = Pages /\ numPages' = numPages
  BY <1>1, SamePool DEF TableInv, pool
<1>3. numPages <= numPages' /\ \A p \in PageIds : Like(Pages'[p], Pages[p])
  BY <1>2, PoolParts DEF TableInv, Like
<1>4. ChainsOK' /\ (\A t \in Tables : Chain(t)' = Chain(t)) /\ RowsStay /\ Growing
  BY <1>2, <1>3, PagesStay
<1>5. TailsOK'
  BY <1>1, <1>4, TailsStay
<1>6. thread' \in Threads /\ thread'.call = "none"
  BY <1>1, CallsAre
<1>7. InsertOK'
  BY <1>6, NoInsert
<1>8. lastRow' \in 0..MaxRows
  BY <1>1 DEF TableInv
<1>9. Moves(scan)
  BY <1>1, InsertMoves
<1>10. QED
  BY <1>2, <1>4, <1>5, <1>6, <1>7, <1>8, <1>9, InsertTurn

\* flush_dirty between two calls.
LEMMA CallerFlushesKeeps ==
  ASSUME TableInv, CallerFlushes
  PROVE  TableInv' /\ RowsStay /\ Growing
<1>1. PoolOK' /\ Pages' = Pages /\ numPages' = numPages
  BY FlushEffect DEF TableInv, CallerFlushes
<1>2. numPages <= numPages' /\ \A p \in PageIds : Like(Pages'[p], Pages[p])
  BY <1>1, PoolParts DEF TableInv, Like
<1>3. ChainsOK' /\ (\A t \in Tables : Chain(t)' = Chain(t)) /\ RowsStay /\ Growing
  BY <1>1, <1>2, PagesStay
<1>4. UNCHANGED <<thread, tail, scan, lastRow>> /\ thread.call = "none"
  BY DEF CallerFlushes, NoCall
<1>5. TailsOK'
  BY <1>3, <1>4, TailsStay
<1>6. thread' \in Threads /\ thread'.call # "insert"
  BY <1>4 DEF TableInv
<1>7. InsertOK'
  BY <1>6, NoInsert
<1>8. Moves(scan)
  BY <1>4, InsertMoves
<1>9. lastRow' \in 0..MaxRows
  BY <1>4 DEF TableInv
<1>10. QED
  BY <1>1, <1>3, <1>4, <1>5, <1>6, <1>7, <1>8, <1>9, InsertTurn

\* No step at all.
LEMMA StutterKeeps ==
  ASSUME TableInv, UNCHANGED vars
  PROVE  TableInv' /\ RowsStay /\ Growing /\ \A t \in Tables : Chain(t)' = Chain(t)
<1>1. PoolOK' /\ Pages' = Pages /\ numPages' = numPages
  BY SamePool DEF TableInv, vars, pool
<1>2. numPages <= numPages' /\ \A p \in PageIds : Like(Pages'[p], Pages[p])
  BY <1>1, PoolParts DEF TableInv, Like
<1>3. ChainsOK' /\ (\A t \in Tables : Chain(t)' = Chain(t)) /\ RowsStay /\ Growing
  BY <1>1, <1>2, PagesStay
<1>4. UNCHANGED <<thread, tail, scan, lastRow>>
  BY DEF vars
<1>5. TailsOK'
  BY <1>3, <1>4, TailsStay
<1>6. InsertOK'
  <2>1. \A t \in Tables : \A i \in 1..Len(Chain(t)') : (Chain(t)')[i] = Chain(t)[i] /\ i \in 1..Len(Chain(t))
    BY <1>3
  <2>2. InsertOK
    BY DEF TableInv
  <2>3. QED
    BY <1>1, <1>4, <2>1, <2>2 DEF InsertOK
<1>7. Moves(scan) /\ ScansOK(scan, thread') /\ PoolOK
  BY <1>4, InsertMoves DEF TableInv
<1>8. ScansOK(scan, thread)'
  BY <1>7, ScansMoved
<1>9. QED
  BY <1>1, <1>3, <1>4, <1>5, <1>6, <1>8 DEF TableInv

\* Every step keeps the invariant.
LEMMA TableInvKept ==
  ASSUME TableInv, [Next]_vars
  PROVE  TableInv'
<1>1. CASE \E k \in Inserters : CallInsert(k) \/ InsertStep(k)
  <2>1. PICK k \in Inserters : CallInsert(k) \/ InsertStep(k)
    BY <1>1
  <2>2. QED
    BY <2>1, CallInsertKeeps, InsertStoresKeeps, InsertBreaksKeeps, InsertMovesOnKeeps, InsertAllocatesKeeps,
       InsertInitialisesKeeps, InsertLinksKeeps, InsertAbortsKeeps DEF InsertStep
<1>2. CASE \E s \in Scans : ScanCalls(s)
  BY <1>2, ScanKeeps DEF Kept
<1>3. CASE CallerFlushes
  BY <1>3, CallerFlushesKeeps
<1>4. CASE UNCHANGED vars
  BY <1>4, StutterKeeps
<1>5. QED
  BY <1>1, <1>2, <1>3, <1>4 DEF Next, ScanCalls

------------------------------------------------------------------------------
(* The first state *)

\* The file of the first state: the header page and an empty page per table.
FirstFile ==
  [n \in 1..(1 + Cardinality(Tables)) |->
     IF \E t \in Tables : FirstPage[t] = n - 1
     THEN EmptyData(CHOOSE t \in Tables : FirstPage[t] = n - 1)
     ELSE EmptyHeader]

\* What is in it.
LEMMA FirstFileTyped ==
  /\ FirstFile \in Seq(PageContents) /\ Len(FirstFile) = 1 + Cardinality(Tables)
  /\ Cardinality(Tables) \in Nat /\ Cardinality(Tables) < MaxPages
  /\ \A i \in 1..Len(FirstFile) : FirstFile[i].next = NoLink
  /\ \A t \in Tables : /\ FirstPage[t] \in 1..Cardinality(Tables) /\ FirstPage[t] + 1 \in 1..Len(FirstFile)
                       /\ FirstFile[FirstPage[t] + 1] = EmptyData(t)
<1> DEFINE m == Cardinality(Tables)
<1>1. m \in Nat /\ m < MaxPages
  BY HeapAssumption, FS_CardinalityType
<1>2. \A t \in Tables : FirstPage[t] \in 1..m
  BY HeapAssumption
<1>3. \A t, u \in Tables : FirstPage[t] = FirstPage[u] => t = u
  BY HeapAssumption DEF IsInjective
<1>4. EmptyHeader \in PageContents /\ \A t \in Tables : EmptyData(t) \in PageContents
  <2>1. NoLink \in Links /\ <<>> \in Seq(Row \cup Entry) /\ \A t \in Tables : t \in Names
    BY HeapAssumption, CapacityAssumption, EmptySeq DEF Links, NoLink
  <2>2. QED
    BY <2>1 DEF EmptyHeader, EmptyData, PageContents
<1> DEFINE t(n) == CHOOSE u \in Tables : FirstPage[u] = n - 1
<1>5. \A n \in 1..(1 + m) : (\E u \in Tables : FirstPage[u] = n - 1) => t(n) \in Tables /\ FirstPage[t(n)] = n - 1
  OBVIOUS
<1>6. \A n \in 1..(1 + m) : /\ FirstFile[n] \in PageContents /\ FirstFile[n].next = NoLink
                            /\ FirstFile[n] = IF \E u \in Tables : FirstPage[u] = n - 1
                                              THEN EmptyData(t(n)) ELSE EmptyHeader
  <2> TAKE n \in 1..(1 + m)
  <2>1. FirstFile[n] = IF \E u \in Tables : FirstPage[u] = n - 1 THEN EmptyData(t(n)) ELSE EmptyHeader
    BY DEF FirstFile
  <2>2. (\E u \in Tables : FirstPage[u] = n - 1) => t(n) \in Tables
    BY <1>5
  <2> HIDE DEF t
  <2>3. EmptyHeader.next = NoLink /\ EmptyData(t(n)).next = NoLink
    BY DEF EmptyHeader, EmptyData
  <2>4. QED
    BY <1>4, <2>1, <2>2, <2>3
<1>7. FirstFile \in Seq(PageContents) /\ Len(FirstFile) = 1 + m
  <2>1. FirstFile \in [1..(1 + m) -> PageContents]
    BY <1>6 DEF FirstFile
  <2>2. 1 + m \in Nat
    BY <1>1
  <2> HIDE DEF m
  <2>3. QED
    BY <2>1, <2>2, FunctionIsSeq
<1>8. ASSUME NEW u \in Tables
      PROVE  FirstPage[u] + 1 \in 1..(1 + m) /\ FirstFile[FirstPage[u] + 1] = EmptyData(u)
  <2> DEFINE n == FirstPage[u] + 1
  <2>1. n \in 1..(1 + m) /\ FirstPage[u] = n - 1
    BY <1>1, <1>2
  <2>2. t(n) \in Tables /\ FirstPage[t(n)] = FirstPage[u]
    BY <1>5, <2>1
  <2>3. t(n) = u
    BY <1>3, <2>2
  <2>4. FirstFile[n] = EmptyData(t(n))
    BY <1>6, <2>1
  <2>5. QED
    BY <2>1, <2>3, <2>4
<1>9. QED
  BY <1>1, <1>2, <1>6, <1>7, <1>8

\* The chain of a table is its first page.
LEMMA FirstChains ==
  ASSUME Init
  PROVE  /\ PoolOK /\ ChainsOK
         /\ \A t \in Tables : Chain(t) = <<FirstPage[t]>> /\ FirstPage[t] \in PageIds /\ Stored(t) = <<>>
<1> DEFINE F == FirstFile
<1>1. PoolInit(F)
  BY DEF Init, FirstFile
<1>2. /\ F \in Seq(PageContents) /\ Len(F) = 1 + Cardinality(Tables) /\ Len(F) \in Nat
      /\ Cardinality(Tables) \in Nat /\ Len(F) <= MaxPages /\ MaxPages \in Nat
      /\ \A i \in 1..Len(F) : F[i].next = NoLink /\ F[i] \in PageContents
  BY FirstFileTyped, SeqElements, CapacityAssumption
<1> HIDE DEF F
<1>3. /\ frames = <<>> /\ fileLen = Len(F) /\ numPages = Len(F)
      /\ disk = [p \in PageIds |-> IF p < Len(F) THEN F[p + 1] ELSE ZeroBytes]
  BY <1>1 DEF PoolInit
<1>4. \A p \in PageIds : p \in Nat /\ p < MaxPages /\ (p < Len(F) => p + 1 \in 1..Len(F))
  BY <1>2 DEF PageIds
<1>5. ZeroBytes \in PageContents /\ ZeroBytes.next = 0
  <2>1. 0 \in Links /\ <<>> \in Seq(Row \cup Entry)
    BY EmptySeq, CapacityAssumption DEF Links
  <2>2. QED
    BY <2>1 DEF ZeroBytes, PageContents
<1>6. disk \in [PageIds -> PageContents] /\ \A p \in PageIds : disk[p].next < numPages
  <2>1. \A p \in PageIds : disk[p] \in PageContents /\ disk[p].next < numPages
    BY <1>2, <1>3, <1>4, <1>5 DEF NoLink
  <2>2. QED
    BY <1>3, <2>1
<1>7. frames \in Seq(Frame) /\ Len(frames) = 0 /\ DOMAIN frames = {}
  BY <1>3, EmptySeq
<1>8. PoolOK
  BY <1>2, <1>3, <1>6, <1>7, HeapAssumption DEF PoolOK, PoolTypeOK, DistinctPages
<1>9. \A p \in PageIds : Pages[p] = disk[p]
  BY <1>7, <1>8, Fetched DEF Cached
<1>10. Pages \in [PageIds -> PageContents]
  BY <1>8, PagesTyped
<1>11. ASSUME NEW t \in Tables
       PROVE  /\ Whole(Pages, numPages, t, <<FirstPage[t]>>) /\ Chain(t) = <<FirstPage[t]>>
              /\ FirstPage[t] \in PageIds /\ Stored(t) = <<>>
  <2> DEFINE f == FirstPage[t]
             C == <<f>>
  <2>1. f \in Nat /\ 1 <= f /\ f < Len(F) /\ F[f + 1] = EmptyData(t)
    BY <1>2, FirstFileTyped DEF F
  <2>2. f \in PageIds
    BY <1>2, <2>1 DEF PageIds
  <2>3. Pages[f] = EmptyData(t)
    BY <1>3, <1>9, <2>1, <2>2
  <2> HIDE DEF f
  <2>4. C \in Seq(PageIds) /\ C # <<>> /\ Len(C) = 1 /\ C[1] = f
    BY <2>2
  <2>5. Pages[f].kind = "data" /\ Pages[f].name = t /\ Pages[f].next = NoLink /\ Pages[f].slots = <<>>
    BY <2>3 DEF EmptyData
  <2> HIDE DEF C
  <2>6. IsPath(Pages, f, C)
    BY <2>1, <2>4, <2>5 DEF IsPath
  <2>7. Whole(Pages, numPages, t, C)
    BY <1>3, <2>1, <2>4, <2>5, <2>6 DEF Whole, f
  <2>8. Chain(t) = C
    BY <2>7, WholeParts DEF Chain
  <2>9. RowsOn(Pages)[C] = <<>>
    <3>1. RowsOn(Pages)[C] = FlattenSeq(SlotsOn(Pages, C)) /\ SlotsOn(Pages, C) \in Seq(Seq(Records))
          /\ Len(SlotsOn(Pages, C)) = 1 /\ SlotsOn(Pages, C)[1] = <<>>
      BY <1>10, <2>4, <2>5, SlotsTyped
    <3> DEFINE ss == SlotsOn(Pages, C)
    <3> HIDE DEF ss
    <3>2. ss \in Seq(Seq(Records)) /\ Len(ss) = 1 /\ ss[1] = <<>> /\ RowsOn(Pages)[C] = FlattenSeq(ss)
      BY <3>1 DEF ss
    <3>3. FlatTo(ss, 0) = <<>>
      BY <3>2, FlatSteps
    <3>4. FlatTo(ss, 1) = FlatTo(ss, 0) \o ss[1]
      <4>1. \A k \in 1..Len(ss) : FlatTo(ss, k) = FlatTo(ss, k - 1) \o ss[k]
        BY <3>2, FlatSteps
      <4> DEFINE z == 1 - 1
      <4>2. 1 \in 1..Len(ss) /\ z = 0
        BY <3>2
      <4>3. FlatTo(ss, 1) = FlatTo(ss, z) \o ss[1]
        BY <4>1, <4>2
      <4>4. QED
        BY <4>2, <4>3
    <3>5. FlattenSeq(ss) = FlatTo(ss, 1)
      BY <3>2, FlatSteps
    <3>6. <<>> \o <<>> = <<>>
      OBVIOUS
    <3>7. QED
      BY <3>2, <3>3, <3>4, <3>5, <3>6
  <2>10. QED
    BY <2>2, <2>7, <2>8, <2>9 DEF Stored, C, f
<1>12. QED
  BY <1>8, <1>11 DEF ChainsOK

\* The first state has the invariant.
LEMMA TableInvHolds ==
  ASSUME Init
  PROVE  TableInv
<1>1. PoolOK /\ ChainsOK /\ \A t \in Tables : Chain(t) = <<FirstPage[t]>> /\ FirstPage[t] \in PageIds
  BY FirstChains
<1>2. TailsOK
  <2>1. tail = [k \in Inserters |-> FirstPage[TableOf[k]]] /\ \A k \in Inserters : TableOf[k] \in Tables
    BY HeapAssumption DEF Init
  <2>2. tail \in [Inserters -> PageIds]
    BY <1>1, <2>1
  <2>3. ASSUME NEW k \in Inserters
        PROVE  \E i \in 1..Len(Chain(TableOf[k])) : tail[k] = Chain(TableOf[k])[i]
    <3>1. Chain(TableOf[k]) = <<tail[k]>>
      BY <1>1, <2>1
    <3>2. 1 \in 1..Len(<<tail[k]>>) /\ <<tail[k]>>[1] = tail[k]
      OBVIOUS
    <3>3. QED
      BY <3>1, <3>2
  <2>4. QED
    BY <2>2, <2>3 DEF TailsOK
<1>3. thread = Idle /\ thread \in Threads /\ thread.call = "none"
  BY CallsAre DEF Init
<1>4. InsertOK
  BY <1>3 DEF InsertOK
<1>5. ScansOK(scan, thread)
  <2>1. PICK t \in Tables : scan = [s \in Scans |-> ClosedScan(t)]
    BY DEF Init
  <2>2. ClosedScan(t) \in ScanState /\ ClosedScan(t).open = FALSE /\ ClosedScan(t).live = FALSE
    BY ClosedFields
  <2>3. \A s \in Scans : thread # Advancing(s) /\ thread # Resetting(s)
    BY <1>3, CallsAre
  <2>4. QED
    BY <2>1, <2>2, <2>3 DEF ScansOK, ScanOK
<1>6. lastRow \in 0..MaxRows
  BY HeapAssumption DEF Init
<1>7. QED
  BY <1>1, <1>2, <1>3, <1>4, <1>5, <1>6 DEF TableInv

------------------------------------------------------------------------------
(* Types and chains *)

\* The invariant holds in every reachable state.
THEOREM TableInvariance == Spec => []TableInv
<1>1. Init => TableInv
  BY TableInvHolds
<1>2. TableInv /\ [Next]_vars => TableInv'
  BY TableInvKept
<1>3. QED
  BY <1>1, <1>2, PTL DEF Spec

\* For any number of tables, inserters, scans and frames, the frames, the pages,
\* the running call, the inserters and the iterators stay what they are declared
\* to be: no call leaves a page id of no page behind.
THEOREM HeapFileTyped == Spec => []TypeOK
<1>1. TableInv => TypeOK
  <2> SUFFICES ASSUME TableInv PROVE TypeOK
    OBVIOUS
  <2>1. PoolTypeOK
    BY DEF TableInv, PoolOK
  <2>2. tail \in [Inserters -> PageIds]
    BY DEF TableInv, TailsOK
  <2>3. scan \in [Scans -> ScanState]
    BY DEF TableInv, ScansOK
  <2>4. QED
    BY <2>1, <2>2, <2>3 DEF TableInv, TypeOK
<1>2. QED
  BY <1>1, TableInvariance, PTL

\* For any number of tables and inserters, the chain of a table never runs in a
\* circle, holds pages of that table only and never meets another chain,
\* whichever inserts extend it at once and wherever they raise.
THEOREM ChainsStaySound == Spec => []ChainsSound
<1>1. TableInv => ChainsSound
  <2> SUFFICES ASSUME TableInv PROVE ChainsSound
    OBVIOUS
  <2>1. ASSUME NEW t \in Tables
        PROVE  /\ IsInjective(Chain(t))
               /\ \A i \in DOMAIN Chain(t) :
                    Current(Chain(t)[i]).kind = "data" /\ Current(Chain(t)[i]).name = t
    <3> DEFINE C == Chain(t)
    <3>1. Whole(Pages, numPages, t, C)
      BY DEF TableInv, ChainsOK
    <3>2. DOMAIN C = 1..Len(C) /\ Len(C) \in Nat /\ \A i \in 1..Len(C) : C[i] \in PageIds /\ C[i] \in Nat
      BY <3>1, WholeParts, PageIdsAre
    <3>3. \A i, j \in 1..Len(C) : i < j => C[i] < C[j]
      BY <3>1 DEF Whole, IsPath
    <3>4. \A i \in 1..Len(C) : Pages[C[i]].kind = "data" /\ Pages[C[i]].name = t
      BY <3>1 DEF Whole
    <3>5. \A i \in 1..Len(C) : Pages[C[i]] = Current(C[i])
      BY <3>2 DEF Pages
    <3>6. \A i, j \in 1..Len(C) : i = j \/ i < j \/ j < i
      BY <3>2
    <3>7. \A i, j \in 1..Len(C) : C[i] = C[j] => i = j
      BY <3>2, <3>3, <3>6
    <3> HIDE DEF C
    <3>8. IsInjective(C)
      BY <3>2, <3>7 DEF IsInjective
    <3>9. QED
      BY <3>2, <3>4, <3>5, <3>8 DEF C
  <2>2. ASSUME NEW t \in Tables, NEW u \in Tables, t # u
        PROVE  Range(Chain(t)) \cap Range(Chain(u)) = {}
    <3>1. DOMAIN Chain(t) = 1..Len(Chain(t)) /\ DOMAIN Chain(u) = 1..Len(Chain(u))
      BY WholeParts DEF TableInv, ChainsOK
    <3>2. \A i \in DOMAIN Chain(t), j \in DOMAIN Chain(u) : Chain(t)[i] # Chain(u)[j]
      BY <2>2, <3>1, OnOneChain
    <3>3. QED
      BY <3>2 DEF Range
  <2>3. QED
    BY <2>1, <2>2 DEF ChainsSound
<1>2. QED
  BY <1>1, TableInvariance, PTL

------------------------------------------------------------------------------
(* A heap file is a table of rows *)

\* The variables of RowTable.
RowsNow == [t \in SoundTables |-> Stored(t)]

CallNow ==
  IF thread.call = "insert" /\ TableOf[thread.who] \in SoundTables
  THEN [state |-> "running", table |-> TableOf[thread.who], row |-> [row |-> lastRow]]
  ELSE [state |-> IF thread.call = "none" /\ thread.raised \cap SoundTables # {}
                  THEN "raised" ELSE "settled"]

\* Its steps in these words.
LEMMA TableBegins ==
  ASSUME CallNow.state # "running", CallNow' \in [state : {"running"}, table : SoundTables, row : Row],
         RowsNow' = RowsNow
  PROVE  Table!TableNext
BY DEF Table!TableNext, Table!Begin, Table!Running, CallNow, RowsNow

\* An insert that returns appends its row ...
LEMMA TableReturns ==
  ASSUME CallNow.state = "running",
         RowsNow' = [RowsNow EXCEPT ![CallNow.table] = Append(RowsNow[CallNow.table], CallNow.row)],
         CallNow' = [state |-> "settled"]
  PROVE  Table!TableNext
BY DEF Table!TableNext, Table!Return, Table!Settled, CallNow, RowsNow

\* ... one that raises changes no table ...
LEMMA TableRaises ==
  ASSUME CallNow.state = "running", RowsNow' = RowsNow, CallNow' = [state |-> "raised"]
  PROVE  Table!TableNext
BY DEF Table!TableNext, Table!Raise, Table!Raised, CallNow, RowsNow

\* ... and is forgotten by the next call.
LEMMA TableForgets ==
  ASSUME CallNow = [state |-> "raised"], RowsNow' = RowsNow, CallNow' = [state |-> "settled"]
  PROVE  Table!TableNext
BY DEF Table!TableNext, Table!Forget, Table!Raised, Table!Settled, CallNow, RowsNow

\* All other steps are none of RowTable.
LEMMA TableStutters ==
  ASSUME CallNow' = CallNow, RowsNow' = RowsNow
  PROVE  UNCHANGED Table!tableVars
BY DEF Table!tableVars, CallNow, RowsNow

\* What RowTable sees of a call ...
LEMMA CallIs ==
  /\ (thread.call = "insert" /\ TableOf[thread.who] \in SoundTables) =>
        CallNow = [state |-> "running", table |-> TableOf[thread.who], row |-> [row |-> lastRow]]
  /\ (thread.call = "insert" /\ TableOf[thread.who] \notin SoundTables) => CallNow = [state |-> "settled"]
  /\ thread.call \notin {"insert", "none"} => CallNow = [state |-> "settled"]
  /\ thread.call = "none" =>
        CallNow = [state |-> IF thread.raised \cap SoundTables # {} THEN "raised" ELSE "settled"]
BY DEF CallNow

\* ... and of the next one.
LEMMA NextCallIs ==
  /\ (thread'.call = "insert" /\ TableOf[thread'.who] \in SoundTables) =>
        CallNow' = [state |-> "running", table |-> TableOf[thread'.who], row |-> [row |-> lastRow']]
  /\ (thread'.call = "insert" /\ TableOf[thread'.who] \notin SoundTables) => CallNow' = [state |-> "settled"]
  /\ thread'.call \notin {"insert", "none"} => CallNow' = [state |-> "settled"]
  /\ thread'.call = "none" =>
        CallNow' = [state |-> IF thread'.raised \cap SoundTables # {} THEN "raised" ELSE "settled"]
BY DEF CallNow

\* Tables that stay.
LEMMA RowsNowStay ==
  ASSUME RowsStay
  PROVE  RowsNow' = RowsNow
BY DEF RowsStay, RowsNow, SoundTables

\* A call that is over, or none of a sound table, settles.
LEMMA Settles ==
  ASSUME RowsStay, CallNow = [state |-> "settled"] \/ CallNow = [state |-> "raised"],
         CallNow' = [state |-> "settled"]
  PROVE  [Table!TableNext]_(Table!tableVars)
<1>1. RowsNow' = RowsNow
  BY RowsNowStay
<1>2. QED
  BY <1>1, TableForgets, TableStutters

\* insert
LEMMA CallInsertRefines ==
  ASSUME TableInv, NEW k \in Inserters, CallInsert(k)
  PROVE  [Table!TableNext]_(Table!tableVars)
<1>1. RowsStay /\ RowsNow' = RowsNow
  BY CallInsertKeeps, RowsNowStay
<1>2. thread'.call = "insert" /\ thread'.who = k
  <2>1. thread' = Inserting(k, "try", NoLink) /\ NoLink \in Links
    BY CapacityAssumption DEF CallInsert, Links, NoLink
  <2>2. QED
    BY <2>1, InsertingFields
<1>3. thread.call = "none" /\ lastRow' = lastRow + 1
  BY DEF CallInsert, NoCall
<1>4. CallNow = [state |-> "settled"] \/ CallNow = [state |-> "raised"]
  BY <1>3, CallIs
<1>5. CASE TableOf[k] \in SoundTables
  <2>1. CallNow' = [state |-> "running", table |-> TableOf[k], row |-> [row |-> lastRow']]
    BY <1>2, <1>5, NextCallIs
  <2>2. [row |-> lastRow'] \in Row
    BY <1>3 DEF Row, TableInv
  <2>3. CallNow' \in [state : {"running"}, table : SoundTables, row : Row]
    BY <1>5, <2>1, <2>2
  <2>4. CallNow.state # "running"
    BY <1>4
  <2>5. QED
    BY <1>1, <2>3, <2>4, TableBegins
<1>6. CASE TableOf[k] \notin SoundTables
  BY <1>1, <1>2, <1>4, <1>6, NextCallIs, Settles
<1>7. QED
  BY <1>5, <1>6

\* The step that stores the row is the return of the insert.
LEMMA InsertStoresRefines ==
  ASSUME TableInv, NEW k \in Inserters, InsertStores(k)
  PROVE  [Table!TableNext]_(Table!tableVars)
<1> DEFINE u == TableOf[k]
           e == [row |-> lastRow]
<1>1. RowsGain(u, e)
  BY InsertStoresKeeps
<1>2. thread.call = "insert" /\ thread.who = k /\ thread'.call = "none" /\ thread'.raised = {}
  BY DEF InsertStores, InInsert, Idle
<1>3. CallNow' = [state |-> "settled"]
  BY <1>2, NextCallIs
<1>4. CASE u \in SoundTables
  <2>1. CallNow = [state |-> "running", table |-> u, row |-> e]
    BY <1>2, <1>4, CallIs
  <2>2. RowsNow' = [RowsNow EXCEPT ![u] = Append(RowsNow[u], e)]
    <3>1. RowsNow' = [t \in SoundTables |-> Stored(t)']
      BY DEF RowsNow, SoundTables
    <3>2. RowsNow[u] = Stored(u)
      BY <1>4 DEF RowsNow
    <3> HIDE DEF e
    <3>3. \A t \in SoundTables : Stored(t)' = IF t = u THEN Append(RowsNow[u], e) ELSE RowsNow[t]
      BY <1>1, <3>2 DEF RowsGain, RowsNow
    <3>4. DOMAIN RowsNow = SoundTables
      BY DEF RowsNow
    <3>5. [RowsNow EXCEPT ![u] = Append(RowsNow[u], e)]
            = [t \in SoundTables |-> IF t = u THEN Append(RowsNow[u], e) ELSE RowsNow[t]]
      BY <3>4 DEF RowsNow
    <3>6. QED
      BY <3>1, <3>3, <3>5
  <2>3. CallNow.state = "running" /\ CallNow.table = u /\ CallNow.row = e
    BY <2>1
  <2>4. RowsNow' = [RowsNow EXCEPT ![CallNow.table] = Append(RowsNow[CallNow.table], CallNow.row)]
    BY <2>2, <2>3
  <2>5. QED
    BY <1>3, <2>3, <2>4, TableReturns
<1>5. CASE u \notin SoundTables
  <2>1. RowsStay
    BY <1>1, <1>5 DEF RowsGain, RowsStay
  <2>2. CallNow = [state |-> "settled"]
    BY <1>2, <1>5, CallIs
  <2>3. QED
    BY <1>3, <2>1, <2>2, Settles
<1>6. QED
  BY <1>4, <1>5

\* A row breaks off in another table.
LEMMA InsertBreaksRefines ==
  ASSUME TableInv, NEW k \in Inserters, InsertBreaks(k)
  PROVE  [Table!TableNext]_(Table!tableVars)
<1>1. RowsStay
  BY InsertBreaksKeeps
<1>2. TableOf[k] \notin SoundTables
  BY DEF InsertBreaks, SoundTables
<1>3. thread.call = "insert" /\ thread.who = k /\ thread'.call = "none" /\ thread'.raised = {TableOf[k]}
  BY DEF InsertBreaks, InInsert, Raised
<1>4. CallNow = [state |-> "settled"]
  BY <1>2, <1>3, CallIs
<1>5. CallNow' = [state |-> "settled"]
  BY <1>2, <1>3, NextCallIs
<1>6. QED
  BY <1>1, <1>4, <1>5, Settles

\* insert raises.
LEMMA InsertAbortsRefines ==
  ASSUME TableInv, NEW k \in Inserters, InsertAborts(k)
  PROVE  [Table!TableNext]_(Table!tableVars)
<1>1. RowsStay /\ RowsNow' = RowsNow
  BY InsertAbortsKeeps, RowsNowStay
<1>2. thread.call = "insert" /\ thread.who = k /\ thread'.call = "none" /\ thread'.raised = {TableOf[k]}
  BY DEF InsertAborts, InInsert, Raised
<1>3. CASE TableOf[k] \in SoundTables
  <2>1. CallNow.state = "running"
    BY <1>2, <1>3, CallIs
  <2>2. CallNow' = [state |-> "raised"]
    BY <1>2, <1>3, NextCallIs
  <2>3. QED
    BY <1>1, <2>1, <2>2, TableRaises
<1>4. CASE TableOf[k] \notin SoundTables
  <2>1. CallNow = [state |-> "settled"]
    BY <1>2, <1>4, CallIs
  <2>2. CallNow' = [state |-> "settled"]
    BY <1>2, <1>4, NextCallIs
  <2>3. QED
    BY <1>1, <2>1, <2>2, Settles
<1>5. QED
  BY <1>3, <1>4

\* The other steps of an insert.
LEMMA InsertGoesOnRefines ==
  ASSUME TableInv, NEW k \in Inserters,
         InsertMovesOn(k) \/ InsertAllocates(k) \/ InsertInitialises(k) \/ InsertLinks(k)
  PROVE  [Table!TableNext]_(Table!tableVars)
<1>1. RowsStay /\ RowsNow' = RowsNow
  BY InsertMovesOnKeeps, InsertAllocatesKeeps, InsertInitialisesKeeps, InsertLinksKeeps, RowsNowStay
<1>2. \A step, new : Inserting(k, step, new).call = "insert" /\ Inserting(k, step, new).who = k
  BY DEF Inserting
<1>3. /\ thread.call = "insert" /\ thread.who = k /\ lastRow' = lastRow
      /\ thread' = thread \/ \E step, new : thread' = Inserting(k, step, new)
  BY DEF InsertMovesOn, InsertAllocates, InsertInitialises, InsertLinks, InInsert
<1>4. thread'.call = "insert" /\ thread'.who = k
  BY <1>2, <1>3
<1>5. CallNow' = CallNow
  BY <1>3, <1>4, CallIs, NextCallIs
<1>6. QED
  BY <1>1, <1>5, TableStutters

\* A call of an iterator.
LEMMA ScanRefines ==
  ASSUME TableInv, NEW s \in Scans, ScanCalls(s)
  PROVE  [Table!TableNext]_(Table!tableVars)
<1>1. Kept /\ ScanThread(s) /\ lastRow' = lastRow
  BY ScanKeeps
<1>2. RowsStay /\ RowsNow' = RowsNow
  BY <1>1, RowsNowStay DEF Kept
<1>3. CASE thread' = thread
  <2>1. CallNow' = CallNow
    BY <1>1, <1>3 DEF CallNow
  <2>2. QED
    BY <1>2, <2>1, TableStutters
<1>4. CASE thread' # thread
  <2>1. thread' \in {Idle, Advancing(s), Resetting(s)} /\ thread.call # "insert"
    BY <1>1, <1>4 DEF ScanThread
  <2>2. thread'.call \notin {"insert", "none"} \/ (thread'.call = "none" /\ thread'.raised = {})
    BY <2>1, CallsAre DEF Idle
  <2>3. CallNow' = [state |-> "settled"]
    BY <2>2, NextCallIs
  <2>4. CallNow = [state |-> "settled"] \/ CallNow = [state |-> "raised"]
    BY <2>1, CallIs
  <2>5. QED
    BY <1>2, <2>3, <2>4, Settles
<1>5. QED
  BY <1>3, <1>4

\* Every step of the heap files is a step of RowTable or none.
LEMMA StepRefines ==
  ASSUME TableInv, [Next]_vars
  PROVE  [Table!TableNext]_(Table!tableVars)
<1>1. CASE \E k \in Inserters : CallInsert(k) \/ InsertStep(k)
  <2>1. PICK k \in Inserters : CallInsert(k) \/ InsertStep(k)
    BY <1>1
  <2>2. QED
    BY <2>1, CallInsertRefines, InsertStoresRefines, InsertBreaksRefines, InsertAbortsRefines,
       InsertGoesOnRefines DEF InsertStep
<1>2. CASE \E s \in Scans : ScanCalls(s)
  BY <1>2, ScanRefines
<1>3. CASE CallerFlushes \/ UNCHANGED vars
  <2>1. RowsNow' = RowsNow
    BY <1>3, CallerFlushesKeeps, StutterKeeps, RowsNowStay
  <2>2. thread' = thread /\ lastRow' = lastRow
    BY <1>3 DEF CallerFlushes, vars
  <2>3. CallNow' = CallNow
    BY <2>2 DEF CallNow
  <2>4. QED
    BY <2>1, <2>3, TableStutters
<1>4. QED
  BY <1>1, <1>2, <1>3 DEF Next, ScanCalls

\* The first state is the one of RowTable.
LEMMA InitRefines ==
  ASSUME Init
  PROVE  Table!TableInit
<1>1. \A t \in SoundTables : Stored(t) = <<>>
  BY FirstChains DEF SoundTables
<1>2. RowsNow = [t \in SoundTables |-> <<>>]
  BY <1>1 DEF RowsNow
<1>3. CallNow = [state |-> "settled"]
  <2>1. thread.call = "none" /\ thread.raised = {}
    BY DEF Init, Idle
  <2>2. QED
    BY <2>1, CallIs
<1>4. QED
  BY <1>2, <1>3 DEF Table!TableInit, Table!Settled, RowsNow, CallNow

\* For any number of frames, pages, tables, inserters and scans, the heap files
\* of the tables whose rows can all be written are append-only sequences of
\* rows: an insert that returns has appended its row, one that raises has
\* changed no table, and no scan, eviction, flush or half-written row of another
\* table changes one.
THEOREM HeapFilesAreTables == Spec => ImplementsRowTable
<1>1. Init => Table!TableInit
  BY InitRefines
<1>2. TableInv /\ [Next]_vars => [Table!TableNext]_(Table!tableVars)
  BY StepRefines
<1>3. QED
  BY <1>1, <1>2, TableInvariance, PTL DEF Spec, ImplementsRowTable, Table!TableSpec

------------------------------------------------------------------------------
(* The pins *)

\* Nothing is said of what frames and scans hold: D is any set that has it.
FrameOf(D) == [page : D, content : D, dirty : D, pins : Nat]
ScanOf(D) ==
  [open : D, table : D, cur : D, on : D, live : D, bytes : D, iter : D, slot : D,
   markedPage : D, markedSlot : D, seen : D, markedSeen : D, due : D, ended : D, failed : D]

\* The scans that have a pin on page p: those whose current page it is, but for
\* the one that has given its page back and not fetched the next one yet.
HoldersIn(sc, th, p) ==
  {s \in Scans : /\ sc[s].open /\ sc[s].cur = p
                 /\ th # Resetting(s)
                 /\ ~(th = Advancing(s) /\ sc[s].on # sc[s].cur)}
Holders(p) == HoldersIn(scan, thread, p)

PinsBound == \A i \in DOMAIN frames : frames[i].pins <= Cardinality(Holders(frames[i].page))

\* The pool's part of the inductive invariant: no page is in two frames, and
\* a frame has no more pins than its page has holders.
PinInv ==
  /\ \E D : frames \in Seq(FrameOf(D))
  /\ \E D : scan \in [Scans -> ScanOf(D)]
  /\ DistinctPages(frames)
  /\ PinsBound

\* A scan in the middle of a call is open.
CallersOpen == \A s \in Scans : thread \in {Advancing(s), Resetting(s)} => scan[s].open

\* The inductive invariant.
HeapInv == PinInv /\ CallersOpen

------------------------------------------------------------------------------
(* The methods of a frame *)

\* pin adds one pin and keeps the page.
LEMMA PinnedFields ==
  ASSUME NEW D, NEW f \in FrameOf(D)
  PROVE  /\ PinnedFrame(f) \in FrameOf(D)
         /\ PinnedFrame(f).page = f.page /\ PinnedFrame(f).pins = f.pins + 1
BY DEF PinnedFrame, FrameOf

\* unpin takes one pin off, if there is one.
LEMMA UnpinnedFields ==
  ASSUME NEW D, NEW f \in FrameOf(D)
  PROVE  /\ UnpinnedFrame(f) \in FrameOf(D)
         /\ UnpinnedFrame(f).page = f.page
         /\ UnpinnedFrame(f).pins = (IF f.pins > 0 THEN f.pins - 1 ELSE 0)
BY DEF UnpinnedFrame, FrameOf

\* A write in place keeps page and pins ...
LEMMA WrittenFields ==
  ASSUME NEW D, NEW f \in FrameOf(D), NEW c, c \in D, TRUE \in D
  PROVE  /\ WrittenFrame(f, c) \in FrameOf(D)
         /\ WrittenFrame(f, c).page = f.page /\ WrittenFrame(f, c).pins = f.pins
BY DEF WrittenFrame, FrameOf

\* ... and so does the dirty flag.
LEMMA DirtyFields ==
  ASSUME NEW D, NEW f \in FrameOf(D), NEW e \in D
  PROVE  /\ [f EXCEPT !.dirty = e] \in FrameOf(D)
         /\ [f EXCEPT !.dirty = e].page = f.page /\ [f EXCEPT !.dirty = e].pins = f.pins
BY DEF FrameOf

\* A larger set holds the same frames.
LEMMA FrameWider ==
  ASSUME NEW D, NEW E, D \subseteq E, NEW f \in FrameOf(D)
  PROVE  f \in FrameOf(E)
BY DEF FrameOf

\* The same of a list of frames.
LEMMA FramesWider ==
  ASSUME NEW D, NEW E, D \subseteq E, NEW fs \in Seq(FrameOf(D))
  PROVE  fs \in Seq(FrameOf(E))
<1>1. Len(fs) \in Nat /\ fs \in [1..Len(fs) -> FrameOf(E)]
  BY SeqElements, FrameWider
<1>2. QED
  BY <1>1, FunctionIsSeq

\* A larger set holds the same scan ...
LEMMA ScanWider ==
  ASSUME NEW D, NEW E, D \subseteq E, NEW sc \in ScanOf(D)
  PROVE  sc \in ScanOf(E)
BY DEF ScanOf

------------------------------------------------------------------------------
(* Holders and their number *)

\* There are finitely many holders, because there are finitely many scans.
LEMMA HoldersFinite ==
  ASSUME NEW sc, NEW th, NEW p
  PROVE  /\ IsFiniteSet(HoldersIn(sc, th, p))
         /\ Cardinality(HoldersIn(sc, th, p)) \in Nat
<1>1. HoldersIn(sc, th, p) \in SUBSET Scans
  BY DEF HoldersIn
<1>2. QED
  BY <1>1, HeapAssumption, FS_Subset, FS_CardinalityType

\* More holders are no fewer.
LEMMA MoreHolders ==
  ASSUME NEW sc, NEW th, NEW p, NEW sc2, NEW th2, NEW p2,
         HoldersIn(sc, th, p) \subseteq HoldersIn(sc2, th2, p2)
  PROVE  Cardinality(HoldersIn(sc, th, p)) <= Cardinality(HoldersIn(sc2, th2, p2))
BY HoldersFinite, FS_Subset

\* One holder more counts for one pin more ...
LEMMA OneMoreHolder ==
  ASSUME NEW sc, NEW th, NEW p, NEW sc2, NEW th2, NEW s,
         s \notin HoldersIn(sc, th, p), s \in HoldersIn(sc2, th2, p),
         HoldersIn(sc, th, p) \subseteq HoldersIn(sc2, th2, p)
  PROVE  Cardinality(HoldersIn(sc, th, p)) + 1 <= Cardinality(HoldersIn(sc2, th2, p))
<1>1. Cardinality(HoldersIn(sc, th, p) \cup {s}) = Cardinality(HoldersIn(sc, th, p)) + 1
  BY HoldersFinite, FS_AddElement
<1>2. HoldersIn(sc, th, p) \cup {s} \in SUBSET HoldersIn(sc2, th2, p)
  OBVIOUS
<1>3. Cardinality(HoldersIn(sc, th, p) \cup {s}) <= Cardinality(HoldersIn(sc2, th2, p))
  BY <1>2, HoldersFinite, FS_Subset
<1>4. QED
  BY <1>1, <1>3

\* ... and one that leaves for no more than one less.
LEMMA OneLessHolder ==
  ASSUME NEW sc, NEW th, NEW p, NEW sc2, NEW th2, NEW s,
         HoldersIn(sc, th, p) \ {s} \subseteq HoldersIn(sc2, th2, p)
  PROVE  Cardinality(HoldersIn(sc, th, p)) - 1 <= Cardinality(HoldersIn(sc2, th2, p))
<1> DEFINE H == HoldersIn(sc, th, p)
<1>1. IsFiniteSet(H) /\ Cardinality(H) \in Nat
  BY HoldersFinite
<1>2. H \ {s} \in SUBSET HoldersIn(sc2, th2, p)
  OBVIOUS
<1> HIDE DEF H
<1>3. /\ IsFiniteSet(H \ {s})
      /\ Cardinality(H \ {s}) = IF s \in H THEN Cardinality(H) - 1 ELSE Cardinality(H)
  BY <1>1, FS_RemoveElement
<1>4. Cardinality(H \ {s}) <= Cardinality(HoldersIn(sc2, th2, p))
  BY <1>2, HoldersFinite, FS_Subset
<1>5. Cardinality(H) - 1 <= Cardinality(HoldersIn(sc2, th2, p))
  BY <1>1, <1>3, <1>4, HoldersFinite
<1>6. QED
  BY <1>5 DEF H

------------------------------------------------------------------------------
(* What happens to the frames *)

\* What a typed list of frames gives for each of them.
LEMMA FrameTyping ==
  ASSUME NEW D, NEW fs \in Seq(FrameOf(D))
  PROVE  /\ Len(fs) \in Nat /\ DOMAIN fs = 1..Len(fs)
         /\ \A j \in DOMAIN fs : fs[j] \in FrameOf(D) /\ fs[j].pins \in Nat
<1>1. DOMAIN fs = 1..Len(fs) /\ Len(fs) \in Nat /\ \A j \in 1..Len(fs) : fs[j] \in FrameOf(D)
  BY SeqElements
<1>2. \A f \in FrameOf(D) : f.pins \in Nat
  BY DEF FrameOf
<1>3. QED
  BY <1>1, <1>2

\* Frame i is replaced by g, or g is added.
LEMMA PutFrameEffect ==
  ASSUME NEW D, frames \in Seq(FrameOf(D)), NEW i, Victim(i), NEW g \in FrameOf(D),
         frames' = PutFrame(i, g)
  PROVE  /\ frames' \in Seq(FrameOf(D))
         /\ i \in DOMAIN frames' /\ frames'[i] = g
         /\ \A j \in DOMAIN frames' : j # i => j \in DOMAIN frames /\ frames'[j] = frames[j]
<1>1. frames \in Seq(FrameOf(D)) /\ Len(frames) \in Nat /\ DOMAIN frames = 1..Len(frames)
  BY SeqElements
<1>2. CASE i = Len(frames) + 1
  <2>1. frames' = Append(frames, g)
    BY <1>2 DEF PutFrame
  <2>2. QED
    BY <1>1, <1>2, <2>1, SeqAppend
<1>3. CASE i # Len(frames) + 1
  <2>1. i \in DOMAIN frames /\ frames' = [frames EXCEPT ![i] = g]
    BY <1>1, <1>3 DEF PutFrame, Victim
  <2>2. QED
    BY <1>1, <2>1, SeqExcept
<1>4. QED
  BY <1>2, <1>3

\* One frame becomes g, whose pins are accounted for, and no other page loses
\* a holder.
LEMMA OneFrameStep ==
  ASSUME PinInv, NEW D, frames' \in Seq(FrameOf(D)), NEW i, NEW g,
         i \in DOMAIN frames' /\ frames'[i] = g,
         \A j \in DOMAIN frames' : j # i => j \in DOMAIN frames /\ frames'[j] = frames[j],
         \A j \in DOMAIN frames : j # i => frames[j].page # g.page,
         g.pins <= Cardinality(HoldersIn(scan', thread', g.page)),
         \A q : q # g.page => Holders(q) \subseteq HoldersIn(scan', thread', q),
         NEW E, scan' \in [Scans -> ScanOf(E)]
  PROVE  PinInv'
<1>1. DistinctPages(frames)'
  BY DEF PinInv, DistinctPages
<1>2. ASSUME NEW j \in DOMAIN frames', j # i
      PROVE  frames'[j].pins <= Cardinality(HoldersIn(scan', thread', frames'[j].page))
  <2>1. j \in DOMAIN frames /\ frames'[j] = frames[j] /\ frames[j].page # g.page
    BY <1>2
  <2>2. Cardinality(Holders(frames[j].page))
          <= Cardinality(HoldersIn(scan', thread', frames[j].page))
    BY <2>1, MoreHolders DEF Holders
  <2>3. PICK C : frames \in Seq(FrameOf(C))
    BY DEF PinInv
  <2>4. frames[j].pins \in Nat
    BY <2>1, <2>3, FrameTyping
  <2>5. frames[j].pins <= Cardinality(Holders(frames[j].page))
    BY <2>1 DEF PinInv, PinsBound
  <2>6. QED
    BY <2>1, <2>2, <2>4, <2>5, HoldersFinite DEF Holders
<1>3. PinsBound'
  BY <1>2 DEF PinsBound, Holders
<1>4. QED
  BY <1>1, <1>3 DEF PinInv

\* Every frame keeps its page and gets pins that are accounted for.
LEMMA AllFramesStep ==
  ASSUME PinInv, NEW D, frames' \in Seq(FrameOf(D)), DOMAIN frames' = DOMAIN frames,
         \A j \in DOMAIN frames :
           /\ frames'[j].page = frames[j].page
           /\ frames'[j].pins <= Cardinality(HoldersIn(scan', thread', frames[j].page)),
         NEW E, scan' \in [Scans -> ScanOf(E)]
  PROVE  PinInv'
<1>1. DistinctPages(frames)'
  BY DEF PinInv, DistinctPages
<1>2. PinsBound'
  BY DEF PinsBound, Holders
<1>3. QED
  BY <1>1, <1>2 DEF PinInv

\* The number of holders does not fall when none of them leaves.
LEMMA PinsKept ==
  ASSUME PinInv, NEW i \in DOMAIN frames,
         \A q : Holders(q) \subseteq HoldersIn(scan', thread', q)
  PROVE  frames[i].pins <= Cardinality(HoldersIn(scan', thread', frames[i].page))
<1> DEFINE p == frames[i].page
<1>1. Cardinality(Holders(p)) <= Cardinality(HoldersIn(scan', thread', p))
  BY MoreHolders DEF Holders
<1>2. frames[i].pins <= Cardinality(Holders(p)) /\ frames[i].pins \in Nat
  BY FrameTyping DEF PinInv, PinsBound
<1>3. QED
  BY <1>1, <1>2, HoldersFinite DEF Holders

\* A page is found in frame i, which becomes g.
LEMMA HitStep ==
  ASSUME PinInv, NEW D, frames \in Seq(FrameOf(D)), NEW i \in DOMAIN frames, NEW g \in FrameOf(D),
         frames' = [frames EXCEPT ![i] = g], g.page = frames[i].page,
         g.pins <= Cardinality(HoldersIn(scan', thread', g.page)),
         \A q : Holders(q) \subseteq HoldersIn(scan', thread', q),
         NEW E, scan' \in [Scans -> ScanOf(E)]
  PROVE  PinInv'
<1>1. /\ frames' \in Seq(FrameOf(D))
      /\ i \in DOMAIN frames' /\ frames'[i] = g
      /\ \A j \in DOMAIN frames' : j # i => j \in DOMAIN frames /\ frames'[j] = frames[j]
  BY FrameTyping, SeqExcept
<1>2. \A j \in DOMAIN frames : j # i => frames[j].page # g.page
  BY DEF PinInv, DistinctPages
<1>3. QED
  BY <1>1, <1>2, OneFrameStep

\* A page that is not cached is read into frame i, which becomes g.
LEMMA MissStep ==
  ASSUME PinInv, NEW D, frames \in Seq(FrameOf(D)), NEW i, Victim(i), NEW g \in FrameOf(D),
         frames' = PutFrame(i, g), ~Cached(g.page),
         g.pins <= Cardinality(HoldersIn(scan', thread', g.page)),
         \A q : Holders(q) \subseteq HoldersIn(scan', thread', q),
         NEW E, scan' \in [Scans -> ScanOf(E)]
  PROVE  PinInv'
<1>1. /\ frames' \in Seq(FrameOf(D))
      /\ i \in DOMAIN frames' /\ frames'[i] = g
      /\ \A j \in DOMAIN frames' : j # i => j \in DOMAIN frames /\ frames'[j] = frames[j]
  BY PutFrameEffect
<1>2. \A j \in DOMAIN frames : j # i => frames[j].page # g.page
  BY DEF Cached
<1>3. QED
  BY <1>1, <1>2, OneFrameStep

\* What get_page puts into a frame, before its caller does anything with it.
LEMMA FreshFrame ==
  ASSUME NEW D, NEW p
  PROVE  \E E : /\ D \subseteq E /\ TRUE \in E
                /\ [page |-> p, content |-> disk[p], dirty |-> FALSE, pins |-> 1] \in FrameOf(E)
<1> DEFINE E == D \cup {p, disk[p], FALSE, TRUE}
<1>1. [page |-> p, content |-> disk[p], dirty |-> FALSE, pins |-> 1] \in FrameOf(E)
  BY DEF FrameOf
<1>2. QED
  BY <1>1

------------------------------------------------------------------------------
(* The calls of the pool *)

\* get_page for a scan that keeps the page and had none of its pins.
LEMMA HoldStep ==
  ASSUME PinInv, NEW p, HoldPage(p), NEW s, s \notin Holders(p), s \in HoldersIn(scan', thread', p),
         \A q : Holders(q) \subseteq HoldersIn(scan', thread', q),
         NEW E, scan' \in [Scans -> ScanOf(E)]
  PROVE  PinInv'
<1>1. Cardinality(Holders(p)) + 1 <= Cardinality(HoldersIn(scan', thread', p))
  BY OneMoreHolder DEF Holders
<1>2. PICK D : frames \in Seq(FrameOf(D))
  BY DEF PinInv
<1>3. ASSUME NEW i \in DOMAIN frames, Found(p, i),
             frames' = [frames EXCEPT ![i] = PinnedFrame(frames[i])]
      PROVE  PinInv'
  <2> DEFINE g == PinnedFrame(frames[i])
  <2>1. frames[i] \in FrameOf(D) /\ frames[i].pins \in Nat /\ frames[i].page = p
    BY <1>2, <1>3, FrameTyping DEF Found
  <2>2. g \in FrameOf(D) /\ g.page = frames[i].page /\ g.pins = frames[i].pins + 1
    BY <2>1, PinnedFields
  <2>3. frames' = [frames EXCEPT ![i] = g]
    BY <1>3
  <2> HIDE DEF g
  <2>4. frames[i].pins <= Cardinality(Holders(p))
    BY <2>1 DEF PinInv, PinsBound
  <2>5. g.pins <= Cardinality(HoldersIn(scan', thread', g.page))
    BY <1>1, <2>1, <2>2, <2>4, HoldersFinite DEF Holders
  <2>6. QED
    BY <1>2, <2>2, <2>3, <2>5, HitStep
<1>4. ASSUME NEW i, ~Cached(p), Victim(i),
             frames' = PutFrame(i, [page |-> p, content |-> disk[p], dirty |-> FALSE, pins |-> 1])
      PROVE  PinInv'
  <2> DEFINE g == [page |-> p, content |-> disk[p], dirty |-> FALSE, pins |-> 1]
  <2>1. PICK F : D \subseteq F /\ g \in FrameOf(F)
    BY FreshFrame
  <2>2. g.page = p /\ g.pins = 1 /\ frames' = PutFrame(i, g)
    BY <1>4
  <2> HIDE DEF g
  <2>3. frames \in Seq(FrameOf(F))
    BY <1>2, <2>1, FramesWider
  <2>4. g.pins <= Cardinality(HoldersIn(scan', thread', g.page))
    BY <1>1, <2>2, HoldersFinite DEF Holders
  <2>5. ~Cached(g.page)
    BY <1>4, <2>2
  <2>6. QED
    BY <1>4, <2>1, <2>2, <2>3, <2>4, <2>5, MissStep
<1>5. QED
  BY <1>3, <1>4 DEF HoldPage, GetPage

\* A frame whose pin is given back before the call ends.
LEMMA PassHit ==
  ASSUME PinInv, NEW D, frames \in Seq(FrameOf(D)), NEW i \in DOMAIN frames, NEW f \in FrameOf(D),
         frames' = [frames EXCEPT ![i] = UnpinnedFrame(f)],
         f.page = frames[i].page, f.pins = frames[i].pins + 1,
         \A q : Holders(q) \subseteq HoldersIn(scan', thread', q),
         NEW E, scan' \in [Scans -> ScanOf(E)]
  PROVE  PinInv'
<1> DEFINE g == UnpinnedFrame(f)
<1>1. frames[i].pins \in Nat
  BY FrameTyping
<1>2. /\ g \in FrameOf(D) /\ g.page = frames[i].page
      /\ g.pins = (IF f.pins > 0 THEN f.pins - 1 ELSE 0)
  BY UnpinnedFields
<1>3. frames' = [frames EXCEPT ![i] = g]
  OBVIOUS
<1> HIDE DEF g
<1>4. g.pins = frames[i].pins
  BY <1>1, <1>2
<1>5. g.pins <= Cardinality(HoldersIn(scan', thread', g.page))
  BY <1>2, <1>4, PinsKept
<1>6. QED
  BY <1>2, <1>3, <1>5, HitStep

\* The same for a page that was read for this call.
LEMMA PassMiss ==
  ASSUME PinInv, NEW D, frames \in Seq(FrameOf(D)), NEW i, Victim(i), NEW f \in FrameOf(D),
         frames' = PutFrame(i, UnpinnedFrame(f)), f.pins = 1, ~Cached(f.page),
         \A q : Holders(q) \subseteq HoldersIn(scan', thread', q),
         NEW E, scan' \in [Scans -> ScanOf(E)]
  PROVE  PinInv'
<1> DEFINE g == UnpinnedFrame(f)
<1>1. /\ g \in FrameOf(D) /\ g.page = f.page
      /\ g.pins = (IF f.pins > 0 THEN f.pins - 1 ELSE 0)
  BY UnpinnedFields
<1>2. frames' = PutFrame(i, g)
  OBVIOUS
<1> HIDE DEF g
<1>3. g.pins <= Cardinality(HoldersIn(scan', thread', g.page)) /\ ~Cached(g.page)
  BY <1>1, HoldersFinite
<1>4. QED
  BY <1>1, <1>2, <1>3, MissStep

\* get_page, look, unpin.
LEMMA InspectStep ==
  ASSUME PinInv, NEW p, InspectPage(p),
         \A q : Holders(q) \subseteq HoldersIn(scan', thread', q),
         NEW E, scan' \in [Scans -> ScanOf(E)]
  PROVE  PinInv'
<1>1. PICK D : frames \in Seq(FrameOf(D))
  BY DEF PinInv
<1>2. ASSUME NEW i \in DOMAIN frames,
             frames' = [frames EXCEPT ![i] = UnpinnedFrame(PinnedFrame(frames[i]))]
      PROVE  PinInv'
  <2> DEFINE f == PinnedFrame(frames[i])
  <2>1. f \in FrameOf(D) /\ f.page = frames[i].page /\ f.pins = frames[i].pins + 1
    BY <1>1, FrameTyping, PinnedFields
  <2>2. frames' = [frames EXCEPT ![i] = UnpinnedFrame(f)]
    BY <1>2
  <2> HIDE DEF f
  <2>3. QED
    BY <1>1, <2>1, <2>2, PassHit
<1>3. ASSUME NEW i, ~Cached(p), Victim(i),
             frames' = PutFrame(i, UnpinnedFrame(
                         [page |-> p, content |-> disk[p], dirty |-> FALSE, pins |-> 1]))
      PROVE  PinInv'
  <2> DEFINE f == [page |-> p, content |-> disk[p], dirty |-> FALSE, pins |-> 1]
  <2>1. PICK F : D \subseteq F /\ f \in FrameOf(F)
    BY FreshFrame
  <2>2. f.page = p /\ f.pins = 1 /\ frames' = PutFrame(i, UnpinnedFrame(f))
    BY <1>3
  <2> HIDE DEF f
  <2>3. frames \in Seq(FrameOf(F)) /\ ~Cached(f.page)
    BY <1>1, <1>3, <2>1, <2>2, FramesWider
  <2>4. QED
    BY <1>3, <2>1, <2>2, <2>3, PassMiss
<1>4. QED
  BY <1>2, <1>3 DEF InspectPage, GetPage

\* get_page, change, unpin.
LEMMA UpdateStep ==
  ASSUME PinInv, NEW p, NEW c, UpdatePage(p, c),
         \A q : Holders(q) \subseteq HoldersIn(scan', thread', q),
         NEW E, scan' \in [Scans -> ScanOf(E)]
  PROVE  PinInv'
<1>1. PICK C : frames \in Seq(FrameOf(C))
  BY DEF PinInv
<1>2. PICK D : frames \in Seq(FrameOf(D)) /\ c \in D /\ TRUE \in D
  <2> DEFINE B == C \cup {c, TRUE}
  <2>1. frames \in Seq(FrameOf(B)) /\ c \in B /\ TRUE \in B
    BY <1>1, FramesWider
  <2> HIDE DEF B
  <2>2. QED
    BY <2>1
<1>3. ASSUME NEW i \in DOMAIN frames,
             frames' = [frames EXCEPT ![i] = UnpinnedFrame(WrittenFrame(PinnedFrame(frames[i]), c))]
      PROVE  PinInv'
  <2> DEFINE e == PinnedFrame(frames[i])
             f == WrittenFrame(e, c)
  <2>1. e \in FrameOf(D) /\ e.page = frames[i].page /\ e.pins = frames[i].pins + 1
    BY <1>2, FrameTyping, PinnedFields
  <2>2. f \in FrameOf(D) /\ f.page = frames[i].page /\ f.pins = frames[i].pins + 1
    <3> HIDE DEF e
    <3>1. c \in D /\ TRUE \in D
      BY <1>2
    <3>2. e \in FrameOf(D)
      BY <2>1
    <3>3. f \in FrameOf(D) /\ f.page = e.page /\ f.pins = e.pins
      BY <3>1, <3>2, WrittenFields
    <3>4. QED
      BY <2>1, <3>3
  <2>3. frames' = [frames EXCEPT ![i] = UnpinnedFrame(f)]
    BY <1>3
  <2> HIDE DEF f
  <2>4. QED
    BY <1>2, <2>2, <2>3, PassHit
<1>4. ASSUME NEW i, ~Cached(p), Victim(i),
             frames' = PutFrame(i, UnpinnedFrame(WrittenFrame(
                         [page |-> p, content |-> disk[p], dirty |-> FALSE, pins |-> 1], c)))
      PROVE  PinInv'
  <2> DEFINE e == [page |-> p, content |-> disk[p], dirty |-> FALSE, pins |-> 1]
             f == WrittenFrame(e, c)
  <2>1. PICK F : D \subseteq F /\ TRUE \in F /\ e \in FrameOf(F)
    BY FreshFrame
  <2>2. e.page = p /\ e.pins = 1 /\ frames' = PutFrame(i, UnpinnedFrame(f)) /\ c \in F
    BY <1>2, <1>4, <2>1
  <2>3. f \in FrameOf(F) /\ f.page = p /\ f.pins = 1
    <3> HIDE DEF e
    <3>1. QED
      BY <2>1, <2>2, WrittenFields
  <2> HIDE DEF f
  <2>4. frames \in Seq(FrameOf(F)) /\ ~Cached(f.page)
    BY <1>2, <1>4, <2>1, <2>3, FramesWider
  <2>5. QED
    BY <1>4, <2>2, <2>3, <2>4, PassMiss
<1>5. QED
  BY <1>3, <1>4 DEF UpdatePage, GetPage

\* unpin(p): the one frame with page p loses a pin, and s no longer holds p.
LEMMA LeaveStep ==
  ASSUME PinInv, NEW p, UnpinPage(p, FALSE), NEW s,
         Holders(p) \ {s} \subseteq HoldersIn(scan', thread', p),
         \A q : q # p => Holders(q) \subseteq HoldersIn(scan', thread', q),
         NEW E, scan' \in [Scans -> ScanOf(E)]
  PROVE  PinInv'
<1>1. PICK D : /\ frames \in Seq(FrameOf(D))
               /\ \A i \in DOMAIN frames : (frames[i].dirty \/ FALSE) \in D
  <2>1. PICK C : frames \in Seq(FrameOf(C))
    BY DEF PinInv
  <2> DEFINE B == C \cup {(frames[i].dirty \/ FALSE) : i \in DOMAIN frames}
  <2>2. frames \in Seq(FrameOf(B)) /\ \A i \in DOMAIN frames : (frames[i].dirty \/ FALSE) \in B
    BY <2>1, FramesWider
  <2> HIDE DEF B
  <2>3. QED
    BY <2>2
<1>2. frames' = [i \in DOMAIN frames |->
                   IF Found(p, i) THEN UnpinnedFrame(DirtiedFrame(frames[i], FALSE)) ELSE frames[i]]
  BY DEF UnpinPage, OnFrame
<1>3. ASSUME NEW i \in DOMAIN frames
      PROVE  /\ frames'[i] \in FrameOf(D) /\ frames'[i].page = frames[i].page
             /\ frames'[i].pins <= Cardinality(HoldersIn(scan', thread', frames[i].page))
  <2> DEFINE d == DirtiedFrame(frames[i], FALSE)
  <2>1. frames[i] \in FrameOf(D) /\ frames[i].pins \in Nat
    BY <1>1, FrameTyping
  <2>2. d \in FrameOf(D) /\ d.page = frames[i].page /\ d.pins = frames[i].pins
    BY <1>1, <2>1, DirtyFields DEF DirtiedFrame
  <2>3. frames'[i] = IF Found(p, i) THEN UnpinnedFrame(d) ELSE frames[i]
    BY <1>2
  <2> HIDE DEF d
  <2>4. /\ UnpinnedFrame(d) \in FrameOf(D) /\ UnpinnedFrame(d).page = frames[i].page
        /\ UnpinnedFrame(d).pins = (IF frames[i].pins > 0 THEN frames[i].pins - 1 ELSE 0)
    BY <2>2, UnpinnedFields
  <2>5. frames[i].pins <= Cardinality(Holders(frames[i].page))
    BY DEF PinInv, PinsBound
  <2>6. CASE Found(p, i)
    <3>1. frames[i].page = p
      BY <2>6 DEF Found
    <3>2. Cardinality(Holders(p)) - 1 <= Cardinality(HoldersIn(scan', thread', p))
      BY OneLessHolder DEF Holders
    <3>3. QED
      BY <2>1, <2>3, <2>4, <2>5, <2>6, <3>1, <3>2, HoldersFinite DEF Holders
  <2>7. CASE ~Found(p, i)
    <3>1. frames[i].page # p
      <4>1. DOMAIN frames = 1..Len(frames) /\ Len(frames) \in Nat
        BY <1>1, FrameTyping
      <4>2. SUFFICES ASSUME frames[i].page = p PROVE FALSE
        OBVIOUS
      <4>3. PICK j \in 1..(i - 1) : frames[j].page = p
        BY <2>7, <4>2 DEF Found
      <4>4. j \in DOMAIN frames /\ j # i
        BY <4>1
      <4>5. QED
        BY <4>2, <4>3, <4>4 DEF PinInv, DistinctPages
    <3>2. Cardinality(Holders(frames[i].page))
            <= Cardinality(HoldersIn(scan', thread', frames[i].page))
      BY <3>1, MoreHolders DEF Holders
    <3>3. QED
      BY <2>1, <2>3, <2>5, <2>7, <3>2, HoldersFinite DEF Holders
  <2>8. QED
    BY <2>6, <2>7
<1>4. frames' \in Seq(FrameOf(D)) /\ DOMAIN frames' = DOMAIN frames
  <2>1. DOMAIN frames = 1..Len(frames) /\ Len(frames) \in Nat
    BY <1>1, FrameTyping
  <2>2. frames' \in [1..Len(frames) -> FrameOf(D)]
    BY <1>2, <1>3, <2>1
  <2>3. QED
    BY <2>1, <2>2, FunctionIsSeq
<1>5. QED
  BY <1>3, <1>4, AllFramesStep

\* flush_dirty takes pins off, and never puts one on.
LEMMA FlushStep ==
  ASSUME PinInv, FlushDirty, UNCHANGED <<scan, thread>>
  PROVE  PinInv'
<1>1. PICK D : frames \in Seq(FrameOf(D)) /\ FALSE \in D
  <2>1. PICK C : frames \in Seq(FrameOf(C))
    BY DEF PinInv
  <2> DEFINE B == C \cup {FALSE}
  <2>2. frames \in Seq(FrameOf(B)) /\ FALSE \in B
    BY <2>1, FramesWider
  <2> HIDE DEF B
  <2>3. QED
    BY <2>2
<1>2. frames' = [i \in DOMAIN frames |->
                   IF frames[i].dirty THEN FlushedFrame(frames[i]) ELSE frames[i]]
  BY DEF FlushDirty
<1>3. PICK E : scan' \in [Scans -> ScanOf(E)]
  BY DEF PinInv
<1>4. ASSUME NEW i \in DOMAIN frames
      PROVE  /\ frames'[i] \in FrameOf(D) /\ frames'[i].page = frames[i].page
             /\ frames'[i].pins <= Cardinality(HoldersIn(scan', thread', frames[i].page))
  <2> DEFINE u == UnpinnedFrame(frames[i])
  <2>1. frames[i] \in FrameOf(D) /\ frames[i].pins \in Nat
    BY <1>1, FrameTyping
  <2>2. /\ u \in FrameOf(D) /\ u.page = frames[i].page
        /\ u.pins = (IF frames[i].pins > 0 THEN frames[i].pins - 1 ELSE 0)
    BY <2>1, UnpinnedFields
  <2>3. frames'[i] = [u EXCEPT !.dirty = FALSE] \/ frames'[i] = frames[i]
    BY <1>2 DEF FlushedFrame
  <2> HIDE DEF u
  <2>4. /\ [u EXCEPT !.dirty = FALSE] \in FrameOf(D)
        /\ [u EXCEPT !.dirty = FALSE].page = u.page /\ [u EXCEPT !.dirty = FALSE].pins = u.pins
    BY <1>1, <2>2, DirtyFields
  <2>5. /\ frames'[i] \in FrameOf(D) /\ frames'[i].page = frames[i].page
        /\ frames'[i].pins \in Nat /\ frames'[i].pins <= frames[i].pins
    <3>1. u.pins \in Nat /\ u.pins <= frames[i].pins
      BY <2>1, <2>2
    <3>2. CASE frames'[i] = frames[i]
      BY <2>1, <3>2
    <3>3. CASE frames'[i] = [u EXCEPT !.dirty = FALSE]
      <4> DEFINE v == [u EXCEPT !.dirty = FALSE]
      <4>1. v \in FrameOf(D) /\ v.page = frames[i].page /\ v.pins = u.pins /\ frames'[i] = v
        BY <2>2, <2>4, <3>3
      <4> HIDE DEF v
      <4>2. QED
        BY <3>1, <4>1
    <3>4. QED
      BY <2>3, <3>2, <3>3
  <2>6. frames[i].pins <= Cardinality(HoldersIn(scan', thread', frames[i].page))
    BY PinsKept DEF Holders
  <2>7. QED
    BY <2>1, <2>5, <2>6, HoldersFinite
<1>5. frames' \in Seq(FrameOf(D)) /\ DOMAIN frames' = DOMAIN frames
  <2>1. DOMAIN frames = 1..Len(frames) /\ Len(frames) \in Nat
    BY <1>1, FrameTyping
  <2>2. frames' \in [1..Len(frames) -> FrameOf(D)]
    BY <1>2, <1>4, <2>1
  <2>3. QED
    BY <2>1, <2>2, FunctionIsSeq
<1>6. QED
  BY <1>3, <1>4, <1>5, AllFramesStep

\* The pool does not change and no scan leaves a page.
LEMMA PoolUnchanged ==
  ASSUME PinInv, frames' = frames,
         \A q : Holders(q) \subseteq HoldersIn(scan', thread', q),
         NEW E, scan' \in [Scans -> ScanOf(E)]
  PROVE  PinInv'
<1>1. PICK D : frames' \in Seq(FrameOf(D))
  BY DEF PinInv
<1>2. \A j \in DOMAIN frames :
        frames[j].pins <= Cardinality(HoldersIn(scan', thread', frames[j].page))
  BY PinsKept
<1>3. QED
  BY <1>1, <1>2, AllFramesStep

------------------------------------------------------------------------------
(* What happens to the scans *)

\* The fields of scan t that say what it holds are those of record r.
At(t, r) == scan'[t].open = r.open /\ scan'[t].cur = r.cur /\ scan'[t].on = r.on

\* ... and so the same scans.
LEMMA ScansWider ==
  ASSUME NEW D, NEW E, D \subseteq E, NEW sc \in [Scans -> ScanOf(D)]
  PROVE  sc \in [Scans -> ScanOf(E)]
BY ScanWider

\* One scan becomes r.
LEMMA PutScan ==
  ASSUME NEW D, NEW E, D \subseteq E, NEW sc \in [Scans -> ScanOf(D)], NEW s \in Scans,
         NEW r \in ScanOf(E)
  PROVE  /\ [sc EXCEPT ![s] = r] \in [Scans -> ScanOf(E)]
         /\ [sc EXCEPT ![s] = r][s] = r
         /\ \A t \in Scans \ {s} : [sc EXCEPT ![s] = r][t] = sc[t]
BY ScansWider

\* Iterators that lose their frame stay where they are.
LEMMA DetachedScans ==
  ASSUME NEW D, NEW sc \in [Scans -> ScanOf(D)], scan' = Detached(sc)
  PROVE  /\ \E E : scan' \in [Scans -> ScanOf(E)]
         /\ \A t \in Scans : At(t, sc[t])
<1> DEFINE E == D \cup {FALSE} \cup {Current(sc[t].on) : t \in Scans}
<1>1. ASSUME NEW t \in Scans
      PROVE  scan'[t] \in ScanOf(E) /\ At(t, sc[t])
  <2> DEFINE b == Current(sc[t].on)
  <2>1. sc[t] \in ScanOf(E) /\ b \in E /\ FALSE \in E
    BY ScanWider
  <2>2. scan'[t] = [sc[t] EXCEPT !.live = FALSE, !.bytes = b] \/ scan'[t] = sc[t]
    BY DEF Detached
  <2> HIDE DEF E, b
  <2>3. CASE scan'[t] = [sc[t] EXCEPT !.live = FALSE, !.bytes = b]
    BY <2>1, <2>3 DEF ScanOf, At
  <2>4. CASE scan'[t] = sc[t]
    BY <2>1, <2>4 DEF At
  <2>5. QED
    BY <2>2, <2>3, <2>4
<1>2. scan' = [t \in Scans |-> scan'[t]]
  BY DEF Detached
<1> HIDE DEF E
<1>3. scan' \in [Scans -> ScanOf(E)]
  BY <1>1, <1>2
<1>4. QED
  BY <1>1, <1>3

\* A scan becomes r, then some lose their frame.
LEMMA PutDetached ==
  ASSUME NEW D, NEW E, D \subseteq E, scan \in [Scans -> ScanOf(D)], NEW s \in Scans,
         NEW r \in ScanOf(E), scan' = Detached([scan EXCEPT ![s] = r])
  PROVE  /\ \E F : scan' \in [Scans -> ScanOf(F)]
         /\ At(s, r)
         /\ \A t \in Scans \ {s} : At(t, scan[t])
<1> DEFINE sc == [scan EXCEPT ![s] = r]
<1>1. sc \in [Scans -> ScanOf(E)] /\ sc[s] = r /\ \A t \in Scans \ {s} : sc[t] = scan[t]
  BY PutScan
<1>2. scan' = Detached(sc)
  OBVIOUS
<1> HIDE DEF sc
<1>3. QED
  BY <1>1, <1>2, DetachedScans

\* The same without a page leaving the pool.
LEMMA PutAttached ==
  ASSUME NEW D, NEW E, D \subseteq E, scan \in [Scans -> ScanOf(D)], NEW s \in Scans,
         NEW r \in ScanOf(E), scan' = [scan EXCEPT ![s] = r]
  PROVE  /\ \E F : scan' \in [Scans -> ScanOf(F)]
         /\ At(s, r)
         /\ \A t \in Scans \ {s} : At(t, scan[t])
BY PutScan DEF At

\* The scans that are not in a call of their own keep what they hold.
LEMMA OthersHold ==
  ASSUME NEW X,
         \A t \in Scans \ X : At(t, scan[t]) /\ thread' # Resetting(t) /\ thread' # Advancing(t)
  PROVE  \A q : Holders(q) \ X \subseteq HoldersIn(scan', thread', q)
BY DEF Holders, HoldersIn, At

\* The call of an inserter, or no call, is no call of a scan.
LEMMA NotOfAScan ==
  ASSUME thread'.call \in {"none", "insert"}
  PROVE  \A t \in Scans : thread' # Resetting(t) /\ thread' # Advancing(t)
BY DEF Resetting, Advancing

\* The call of a scan is no call of another.
LEMMA OfThisScan ==
  ASSUME NEW s \in Scans, thread' \in {Advancing(s), Resetting(s)} \/ thread'.call = "none"
  PROVE  \A t \in Scans \ {s} : thread' # Resetting(t) /\ thread' # Advancing(t)
<1>1. \A t : Resetting(t).who = t /\ Advancing(t).who = t
  BY DEF Resetting, Advancing
<1>2. \A t, u : Resetting(t) # Advancing(u)
  BY DEF Resetting, Advancing
<1>3. CASE thread' \in {Advancing(s), Resetting(s)}
  BY <1>1, <1>2, <1>3
<1>4. CASE thread'.call = "none"
  BY <1>4 DEF Resetting, Advancing
<1>5. QED
  BY <1>3, <1>4

\* Positioned and marked, a scan is a scan.
LEMMA PositionedPins ==
  ASSUME NEW D, NEW sc \in ScanOf(D), {TRUE, FALSE, ZeroBytes} \subseteq D, NEW p \in D, NEW n \in D
  PROVE  /\ Positioned(sc, p, n) \in ScanOf(D)
         /\ Positioned(sc, p, n).open = sc.open
         /\ Positioned(sc, p, n).cur = p /\ Positioned(sc, p, n).on = p
BY DEF Positioned, ScanOf

\* mark does not move the scan.
LEMMA MarkedPins ==
  ASSUME NEW D, NEW sc \in ScanOf(D)
  PROVE  /\ Marked(sc) \in ScanOf(D)
         /\ Marked(sc).open = sc.open /\ Marked(sc).cur = sc.cur /\ Marked(sc).on = sc.on
BY DEF Marked, ScanOf

\* A closed scan is a scan.
LEMMA ClosedPins ==
  ASSUME NEW D, NEW t \in D, {FALSE, NoLink, ZeroBytes, 0} \subseteq D
  PROVE  ClosedScan(t) \in ScanOf(D) /\ ~ClosedScan(t).open
BY DEF ClosedScan, ScanOf

------------------------------------------------------------------------------
(* The actions *)

\* insert gives back every page it gets, also when it raises for want of a frame.
LEMMA InsertsKeepPins ==
  ASSUME PinInv, BadRows = {}, NEW k \in Inserters, CallInsert(k) \/ InsertStep(k)
  PROVE  PinInv'
<1>1. /\ thread'.call \in {"none", "insert"}
      /\ scan' = scan \/ scan' = Detached(scan)
      /\ \/ frames' = frames
         \/ \E p : InspectPage(p)
         \/ \E p, c : UpdatePage(p, c)
  <2>1. CASE CallInsert(k)
    BY <2>1 DEF CallInsert, Inserting, pool
  <2>2. CASE InsertStores(k)
    BY <2>2 DEF InsertStores, Idle
  <2>3. CASE InsertBreaks(k)
    BY <2>3 DEF InsertBreaks
  <2>4. CASE InsertMovesOn(k)
    BY <2>4 DEF InsertMovesOn, InInsert, Inserting
  <2>5. CASE InsertAllocates(k)
    BY <2>5 DEF InsertAllocates, Inserting, GetNewPage
  <2>6. CASE InsertInitialises(k)
    BY <2>6 DEF InsertInitialises, Inserting
  <2>7. CASE InsertLinks(k)
    BY <2>7 DEF InsertLinks, Inserting
  <2>8. CASE InsertAborts(k)
    BY <2>8 DEF InsertAborts, Raised, PoolExhausted
  <2>9. QED
    BY <2>1, <2>2, <2>3, <2>4, <2>5, <2>6, <2>7, <2>8 DEF InsertStep
<1>2. PICK D : scan \in [Scans -> ScanOf(D)]
  BY DEF PinInv
<1>3. PICK E : scan' \in [Scans -> ScanOf(E)]
  BY <1>1, <1>2, DetachedScans
<1>4. \A t \in Scans : At(t, scan[t])
  <2>1. CASE scan' = scan
    BY <2>1 DEF At
  <2>2. CASE scan' = Detached(scan)
    BY <1>2, <2>2, DetachedScans
  <2>3. QED
    BY <1>1, <2>1, <2>2
<1>5. \A q : Holders(q) \subseteq HoldersIn(scan', thread', q)
  <2>1. \A t \in Scans \ {} : At(t, scan[t]) /\ thread' # Resetting(t) /\ thread' # Advancing(t)
    BY <1>1, <1>4, NotOfAScan
  <2>2. \A q : Holders(q) \ {} \subseteq HoldersIn(scan', thread', q)
    BY <2>1, OthersHold
  <2>3. QED
    BY <2>2
<1>6. QED
  BY <1>1, <1>3, <1>5, PoolUnchanged, InspectStep, UpdateStep

\* __init__ pins the first page for the scan it opens.
LEMMA OpenKeepsPins ==
  ASSUME PinInv, NEW s \in Scans, NEW t \in Tables, OpenScan(s, t)
  PROVE  PinInv'
<1> DEFINE p == FirstPage[t]
           n == Len(Stored(t))
           r == [Marked(Positioned(ClosedScan(t), p, 0)) EXCEPT !.open = TRUE, !.due = n]
<1>1. PICK D : scan \in [Scans -> ScanOf(D)]
  BY DEF PinInv
<1>2. /\ HoldPage(p) /\ ~scan[s].open
      /\ scan' = Detached([scan EXCEPT ![s] = r])
      /\ thread' = thread /\ thread'.call = "none"
  BY DEF OpenScan, NoCall
<1> HIDE DEF p, n
<1>3. PICK E : D \subseteq E /\ {TRUE, FALSE, ZeroBytes, NoLink, 0} \subseteq E
               /\ t \in E /\ p \in E /\ n \in E
  <2> DEFINE B == D \cup {TRUE, FALSE, ZeroBytes, NoLink, 0, t, p, n}
  <2>1. D \subseteq B /\ {TRUE, FALSE, ZeroBytes, NoLink, 0} \subseteq B
        /\ t \in B /\ p \in B /\ n \in B
    OBVIOUS
  <2> HIDE DEF B
  <2>2. QED
    BY <2>1
<1>4. r \in ScanOf(E) /\ r.open = TRUE /\ r.cur = p /\ r.on = p
  <2> DEFINE a == ClosedScan(t)
             b == Positioned(a, p, 0)
             c == Marked(b)
  <2>1. a \in ScanOf(E)
    BY <1>3, ClosedPins
  <2> HIDE DEF a
  <2>2. b \in ScanOf(E) /\ b.cur = p /\ b.on = p
    <3>1. {TRUE, FALSE, ZeroBytes} \subseteq E /\ 0 \in E /\ p \in E
      BY <1>3
    <3>2. QED
      BY <2>1, <3>1 DEF Positioned, ScanOf
  <2> HIDE DEF b
  <2>3. c \in ScanOf(E) /\ c.cur = p /\ c.on = p
    BY <2>2, MarkedPins
  <2>4. r = [c EXCEPT !.open = TRUE, !.due = n]
    BY DEF a, b
  <2> HIDE DEF c, r
  <2>5. QED
    BY <1>3, <2>3, <2>4 DEF ScanOf
<1> HIDE DEF r
<1>5. PICK F : scan' \in [Scans -> ScanOf(F)]
  BY <1>1, <1>2, <1>3, <1>4, PutDetached
<1>6. At(s, r) /\ \A u \in Scans \ {s} : At(u, scan[u])
  BY <1>1, <1>2, <1>3, <1>4, PutDetached
<1>7. \A q : Holders(q) \ {s} \subseteq HoldersIn(scan', thread', q)
  BY <1>2, <1>6, NotOfAScan, OthersHold
<1>8. \A q : s \notin Holders(q)
  BY <1>2 DEF Holders, HoldersIn
<1>9. s \in HoldersIn(scan', thread', p)
  BY <1>2, <1>4, <1>6, NotOfAScan DEF HoldersIn, At
<1>10. QED
  BY <1>2, <1>5, <1>7, <1>8, <1>9, HoldStep

\* A scan between two pages fetches the next one.
LEMMA FetchKeepsPins ==
  ASSUME PinInv, NEW s \in Scans, NEW r, NEW E, r \in ScanOf(E), HoldPage(scan[s].cur),
         NEW D, D \subseteq E, scan \in [Scans -> ScanOf(D)],
         scan' = Detached([scan EXCEPT ![s] = r]),
         r.open = scan[s].open, r.cur = scan[s].cur, r.on = scan[s].cur, scan[s].open,
         (thread = Advancing(s) /\ scan[s].on # scan[s].cur) \/ thread = Resetting(s),
         thread' = Advancing(s) \/ thread' = Idle
  PROVE  PinInv'
<1>1. PICK F : scan' \in [Scans -> ScanOf(F)]
  BY PutDetached
<1>2. At(s, r) /\ \A u \in Scans \ {s} : At(u, scan[u])
  BY PutDetached
<1>3. \A t \in Scans \ {s} : thread' # Resetting(t) /\ thread' # Advancing(t)
  BY OfThisScan DEF Idle
<1>4. \A q : Holders(q) \ {s} \subseteq HoldersIn(scan', thread', q)
  BY <1>2, <1>3, OthersHold
<1>5. \A q : s \notin Holders(q)
  BY DEF Holders, HoldersIn
<1>6. s \in HoldersIn(scan', thread', scan[s].cur)
  <2>1. scan'[s].open /\ scan'[s].cur = scan[s].cur /\ scan'[s].on = scan'[s].cur
    BY <1>2 DEF At
  <2>2. thread'.call \in {"none", "has_next"}
    BY DEF Idle, Advancing
  <2>3. thread' # Resetting(s)
    BY <2>2 DEF Resetting
  <2>4. QED
    BY <2>1, <2>3 DEF HoldersIn
<1>7. QED
  BY <1>1, <1>4, <1>5, <1>6, HoldStep

\* A scan gives its page back, whether or not it had a pin on it.
LEMMA LeaveKeepsPins ==
  ASSUME PinInv, NEW s \in Scans, UnpinPage(scan[s].cur, FALSE),
         NEW D, NEW E, D \subseteq E, scan \in [Scans -> ScanOf(D)], NEW r \in ScanOf(E),
         scan' = [scan EXCEPT ![s] = r],
         thread' \in {Advancing(s), Resetting(s)} \/ thread'.call = "none"
  PROVE  PinInv'
<1>1. PICK F : scan' \in [Scans -> ScanOf(F)]
  BY PutAttached
<1>2. \A t \in Scans \ {s} : At(t, scan[t]) /\ thread' # Resetting(t) /\ thread' # Advancing(t)
  BY PutAttached, OfThisScan
<1>3. \A q : Holders(q) \ {s} \subseteq HoldersIn(scan', thread', q)
  BY <1>2, OthersHold
<1>4. \A q : q # scan[s].cur => s \notin Holders(q)
  BY DEF Holders, HoldersIn
<1>5. \A q : q # scan[s].cur => Holders(q) \subseteq HoldersIn(scan', thread', q)
  BY <1>3, <1>4
<1>6. Holders(scan[s].cur) \ {s} \subseteq HoldersIn(scan', thread', scan[s].cur)
  BY <1>3
<1>7. QED
  BY <1>1, <1>5, <1>6, LeaveStep

\* A call of a scan that ends where the scan is, with the pool as it was.
LEMMA StayKeepsPins ==
  ASSUME PinInv, NEW s \in Scans, frames' = frames,
         NEW D, NEW E, D \subseteq E, scan \in [Scans -> ScanOf(D)], NEW r \in ScanOf(E),
         scan' = [scan EXCEPT ![s] = r], thread'.call = "none",
         r.open = scan[s].open, r.cur = scan[s].cur, r.on = scan[s].on
  PROVE  PinInv'
<1>1. PICK F : scan' \in [Scans -> ScanOf(F)]
  BY PutAttached
<1>2. \A t \in Scans : At(t, scan[t])
  BY PutAttached DEF At
<1>3. \A t \in Scans \ {} : At(t, scan[t]) /\ thread' # Resetting(t) /\ thread' # Advancing(t)
  BY <1>2, NotOfAScan
<1>4. \A q : Holders(q) \ {} \subseteq HoldersIn(scan', thread', q)
  BY <1>3, OthersHold
<1>5. \A q : Holders(q) \subseteq HoldersIn(scan', thread', q)
  BY <1>4
<1>6. QED
  BY <1>1, <1>5, PoolUnchanged

\* What a scan may put into its fields without changing where it is.
LEMMA StaySteps ==
  ASSUME PinInv, NEW s \in Scans,
         ScanReturns(s) \/ ScanStopsShort(s) \/ MarkScan(s) \/ ResetFails(s)
  PROVE  PinInv'
<1>1. PICK D : scan \in [Scans -> ScanOf(D)]
  BY DEF PinInv
<1> DEFINE x == scan[s].slot + 1
           y == scan[s].seen + 1
<1>2. PICK E : D \subseteq E /\ TRUE \in E /\ FALSE \in E /\ x \in E /\ y \in E
  <2> DEFINE B == D \cup {TRUE, FALSE, x, y}
  <2>1. D \subseteq B /\ TRUE \in B /\ FALSE \in B /\ x \in B /\ y \in B
    OBVIOUS
  <2> HIDE DEF B
  <2>2. QED
    BY <2>1
<1>3. scan[s] \in ScanOf(E)
  BY <1>1, <1>2, ScanWider
<1>4. CASE ScanReturns(s)
  <2> DEFINE r == [scan[s] EXCEPT !.slot = x, !.seen = y, !.ended = FALSE]
  <2>1. scan' = [scan EXCEPT ![s] = r]
    BY <1>1, <1>4 DEF ScanReturns
  <2>2. frames' = frames /\ thread'.call = "none"
    BY <1>4 DEF ScanReturns, pool, NoCall
  <2> HIDE DEF x, y
  <2>3. r \in ScanOf(E) /\ r.open = scan[s].open /\ r.cur = scan[s].cur /\ r.on = scan[s].on
    BY <1>2, <1>3 DEF ScanOf
  <2> HIDE DEF r
  <2>4. QED
    BY <1>1, <1>2, <2>1, <2>2, <2>3, StayKeepsPins
<1>5. CASE ScanStopsShort(s)
  <2> DEFINE r == [scan[s] EXCEPT !.ended = TRUE, !.failed = TRUE]
  <2>1. scan' = [scan EXCEPT ![s] = r]
    BY <1>1, <1>5 DEF ScanStopsShort
  <2>2. frames' = frames /\ thread'.call = "none"
    BY <1>5 DEF ScanStopsShort, PoolExhausted, Idle
  <2>3. r \in ScanOf(E) /\ r.open = scan[s].open /\ r.cur = scan[s].cur /\ r.on = scan[s].on
    BY <1>2, <1>3 DEF ScanOf
  <2> HIDE DEF r
  <2>4. QED
    BY <1>1, <1>2, <2>1, <2>2, <2>3, StayKeepsPins
<1>6. CASE MarkScan(s)
  <2> DEFINE r == Marked(scan[s])
  <2>1. scan' = [scan EXCEPT ![s] = r]
    BY <1>6 DEF MarkScan
  <2>2. frames' = frames /\ thread'.call = "none"
    BY <1>6 DEF MarkScan, pool, NoCall
  <2>3. r \in ScanOf(E) /\ r.open = scan[s].open /\ r.cur = scan[s].cur /\ r.on = scan[s].on
    BY <1>3, MarkedPins
  <2> HIDE DEF r
  <2>4. QED
    BY <1>1, <1>2, <2>1, <2>2, <2>3, StayKeepsPins
<1>7. CASE ResetFails(s)
  <2> DEFINE r == [scan[s] EXCEPT !.failed = TRUE]
  <2>1. scan' = [scan EXCEPT ![s] = r]
    BY <1>1, <1>7 DEF ResetFails
  <2>2. frames' = frames /\ thread'.call = "none"
    BY <1>7 DEF ResetFails, PoolExhausted, Idle
  <2>3. r \in ScanOf(E) /\ r.open = scan[s].open /\ r.cur = scan[s].cur /\ r.on = scan[s].on
    BY <1>2, <1>3 DEF ScanOf
  <2> HIDE DEF r
  <2>4. QED
    BY <1>1, <1>2, <2>1, <2>2, <2>3, StayKeepsPins
<1>8. QED
  BY <1>4, <1>5, <1>6, <1>7

\* The calls that give a page back.
LEMMA LeaveSteps ==
  ASSUME PinInv, NEW s \in Scans,
         ScanLeavesPage(s) \/ ResetLeavesPage(s) \/ CloseScan(s)
  PROVE  PinInv'
<1>1. PICK D : scan \in [Scans -> ScanOf(D)]
  BY DEF PinInv
<1> DEFINE next == View(s).next
           marked == scan[s].markedPage
           t == scan[s].table
<1>2. PICK E : /\ D \subseteq E /\ {TRUE, FALSE, NoLink, ZeroBytes, 0} \subseteq E
               /\ next \in E /\ marked \in E /\ t \in E
  <2> DEFINE B == D \cup {TRUE, FALSE, NoLink, ZeroBytes, 0, next, marked, t}
  <2>1. D \subseteq B /\ {TRUE, FALSE, NoLink, ZeroBytes, 0} \subseteq B
        /\ next \in B /\ marked \in B /\ t \in B
    OBVIOUS
  <2> HIDE DEF B
  <2>2. QED
    BY <2>1
<1>3. scan[s] \in ScanOf(E)
  BY <1>1, <1>2, ScanWider
<1>4. CASE ScanLeavesPage(s)
  <2>1. UnpinPage(scan[s].cur, FALSE)
    BY <1>4 DEF ScanLeavesPage
  <2>2. CASE next # NoLink
    <3> DEFINE r == [scan[s] EXCEPT !.cur = next]
    <3>1. scan' = [scan EXCEPT ![s] = r] /\ thread' = Advancing(s)
      BY <1>4, <2>2 DEF ScanLeavesPage
    <3> HIDE DEF next
    <3>2. r \in ScanOf(E)
      BY <1>2, <1>3 DEF ScanOf
    <3> HIDE DEF r
    <3>3. QED
      BY <1>1, <1>2, <2>1, <3>1, <3>2, LeaveKeepsPins
  <2>3. CASE next = NoLink
    <3> DEFINE r == [scan[s] EXCEPT !.iter = FALSE, !.ended = TRUE]
    <3>1. /\ scan' = [scan EXCEPT ![s].iter = FALSE, ![s].ended = TRUE]
          /\ thread'.call = "none"
      <4>1. scan' = [scan EXCEPT ![s].iter = FALSE, ![s].ended = TRUE]
        BY <1>4, <2>3, Zenon DEF ScanLeavesPage
      <4>2. thread' = Idle
        BY <1>4, <2>3 DEF ScanLeavesPage
      <4>3. QED
        BY <4>1, <4>2 DEF Idle
    <3>2. scan' = [scan EXCEPT ![s] = r]
      BY <1>1, <3>1
    <3>3. r \in ScanOf(E)
      BY <1>2, <1>3 DEF ScanOf
    <3> HIDE DEF r
    <3>4. QED
      BY <1>1, <1>2, <2>1, <3>1, <3>2, <3>3, LeaveKeepsPins
  <2>4. QED
    BY <2>2, <2>3
<1>5. CASE ResetLeavesPage(s)
  <2> DEFINE r == [scan[s] EXCEPT !.cur = marked]
  <2>1. /\ UnpinPage(scan[s].cur, FALSE)
        /\ scan' = [scan EXCEPT ![s] = r] /\ thread' = Resetting(s)
    BY <1>5 DEF ResetLeavesPage
  <2> HIDE DEF marked
  <2>2. r \in ScanOf(E)
    BY <1>2, <1>3 DEF ScanOf
  <2> HIDE DEF r
  <2>3. QED
    BY <1>1, <1>2, <2>1, <2>2, LeaveKeepsPins
<1>6. CASE CloseScan(s)
  <2> DEFINE r == ClosedScan(t)
  <2>1. /\ UnpinPage(scan[s].cur, FALSE)
        /\ scan' = [scan EXCEPT ![s] = r] /\ thread'.call = "none"
    BY <1>6 DEF CloseScan, NoCall
  <2> HIDE DEF t
  <2>2. r \in ScanOf(E)
    BY <1>2, ClosedPins
  <2> HIDE DEF r
  <2>3. QED
    BY <1>1, <1>2, <2>1, <2>2, LeaveKeepsPins
<1>7. QED
  BY <1>4, <1>5, <1>6

\* The calls that fetch a page.
LEMMA FetchSteps ==
  ASSUME HeapInv, NEW s \in Scans, ScanFetches(s) \/ ResetFetches(s)
  PROVE  PinInv'
<1>1. PICK D : scan \in [Scans -> ScanOf(D)]
  BY DEF HeapInv, PinInv
<1> DEFINE p == scan[s].cur
           n == scan[s].markedSlot
           m == scan[s].markedSeen
<1>2. PICK E : D \subseteq E /\ {TRUE, FALSE, ZeroBytes} \subseteq E
               /\ 0 \in E /\ p \in E /\ n \in E /\ m \in E
  <2> DEFINE B == D \cup {TRUE, FALSE, ZeroBytes, 0, p, n, m}
  <2>1. D \subseteq B /\ {TRUE, FALSE, ZeroBytes} \subseteq B
        /\ 0 \in B /\ p \in B /\ n \in B /\ m \in B
    OBVIOUS
  <2> HIDE DEF B
  <2>2. QED
    BY <2>1
<1>3. scan[s] \in ScanOf(E)
  BY <1>1, <1>2, ScanWider
<1>4. CASE ScanFetches(s)
  <2> DEFINE r == Positioned(scan[s], p, 0)
  <2>1. /\ HoldPage(scan[s].cur) /\ scan' = Detached([scan EXCEPT ![s] = r])
        /\ thread = Advancing(s) /\ scan[s].on # scan[s].cur
        /\ thread' = Advancing(s) \/ thread' = Idle
    BY <1>4 DEF ScanFetches
  <2>2. scan[s].open
    BY <2>1 DEF HeapInv, CallersOpen
  <2>3. r \in ScanOf(E) /\ r.open = scan[s].open /\ r.cur = p /\ r.on = p
    <3> HIDE DEF p
    <3>1. QED
      BY <1>2, <1>3 DEF Positioned, ScanOf
  <2> HIDE DEF r
  <2>4. QED
    BY <1>1, <1>2, <2>1, <2>2, <2>3, FetchKeepsPins DEF HeapInv
<1>5. CASE ResetFetches(s)
  <2> DEFINE r == [Positioned(scan[s], p, n) EXCEPT !.seen = m]
  <2>1. /\ HoldPage(scan[s].cur) /\ scan' = Detached([scan EXCEPT ![s] = r])
        /\ thread = Resetting(s) /\ thread' = Idle
    BY <1>5 DEF ResetFetches
  <2>2. scan[s].open
    BY <2>1 DEF HeapInv, CallersOpen
  <2>3. r \in ScanOf(E) /\ r.open = scan[s].open /\ r.cur = p /\ r.on = p
    <3> HIDE DEF p, n, m
    <3>1. QED
      BY <1>2, <1>3 DEF Positioned, ScanOf
  <2> HIDE DEF r
  <2>4. QED
    BY <1>1, <1>2, <2>1, <2>2, <2>3, FetchKeepsPins DEF HeapInv
<1>6. QED
  BY <1>4, <1>5

\* At first the pool is empty and no call runs.
LEMMA InitPins == Init => HeapInv
<1> SUFFICES ASSUME Init PROVE HeapInv
  OBVIOUS
<1>1. frames = <<>> /\ thread = Idle
  BY DEF Init, PoolInit
<1>2. frames \in Seq(FrameOf({})) /\ DOMAIN frames = {}
  BY <1>1
<1>3. \E D : scan \in [Scans -> ScanOf(D)]
  <2>1. PICK t \in Tables : scan = [s \in Scans |-> ClosedScan(t)]
    BY DEF Init
  <2> DEFINE B == {FALSE, NoLink, ZeroBytes, 0, t}
  <2>2. t \in B /\ {FALSE, NoLink, ZeroBytes, 0} \subseteq B
    OBVIOUS
  <2> HIDE DEF B
  <2>3. ClosedScan(t) \in ScanOf(B)
    BY <2>2, ClosedPins
  <2>4. scan \in [Scans -> ScanOf(B)]
    BY <2>1, <2>3
  <2>5. QED
    BY <2>4
<1>4. DistinctPages(frames) /\ PinsBound
  BY <1>2 DEF DistinctPages, PinsBound
<1>5. CallersOpen
  BY <1>1 DEF CallersOpen, Idle, Advancing, Resetting
<1>6. QED
  BY <1>2, <1>3, <1>4, <1>5 DEF HeapInv, PinInv

\* No scan is in a call after a call that ends, or a call of insert.
LEMMA NoScanCalls ==
  ASSUME thread'.call \in {"none", "insert"}
  PROVE  CallersOpen'
BY DEF CallersOpen, Advancing, Resetting

\* Only the scan that is in the call has to be open.
LEMMA ThisScanCalls ==
  ASSUME NEW s \in Scans, thread' \in {Advancing(s), Resetting(s)}, scan'[s].open
  PROVE  CallersOpen'
BY OfThisScan DEF CallersOpen

\* Every step leaves the scan that is in a call open.
LEMMA StepCallers ==
  ASSUME HeapInv, [Next]_vars
  PROVE  CallersOpen'
<1>1. PICK D : scan \in [Scans -> ScanOf(D)]
  BY DEF HeapInv, PinInv
<1>2. ASSUME NEW k \in Inserters, CallInsert(k) \/ InsertStep(k)
      PROVE  CallersOpen'
  <2>1. thread'.call \in {"none", "insert"}
    BY <1>2 DEF CallInsert, InsertStep, InsertStores, InsertBreaks, InsertMovesOn, InsertAllocates,
                InsertInitialises, InsertLinks, InsertAborts, InInsert, Inserting, Idle, Raised
  <2>2. QED
    BY <2>1, NoScanCalls
<1>3. ASSUME NEW s \in Scans,
             \/ \E t \in Tables : OpenScan(s, t)
             \/ ScanReturns(s) \/ ScanStopsShort(s) \/ MarkScan(s)
             \/ ResetFetches(s) \/ ResetFails(s) \/ CloseScan(s)
      PROVE  CallersOpen'
  <2>1. CASE \E t \in Tables : OpenScan(s, t)
    BY <2>1, NoScanCalls DEF OpenScan, NoCall
  <2>2. CASE ScanReturns(s) \/ MarkScan(s) \/ CloseScan(s)
    BY <2>2, NoScanCalls DEF ScanReturns, MarkScan, CloseScan, NoCall
  <2>3. CASE ScanStopsShort(s) \/ ResetFetches(s) \/ ResetFails(s)
    BY <2>3, NoScanCalls DEF ScanStopsShort, ResetFetches, ResetFails, Idle
  <2>4. QED
    BY <1>3, <2>1, <2>2, <2>3
<1>4. ASSUME NEW s \in Scans, ScanLeavesPage(s)
      PROVE  CallersOpen'
  <2>1. CASE thread' = Idle
    BY <2>1, NoScanCalls DEF Idle
  <2>2. CASE thread' # Idle
    <3>1. thread' = Advancing(s) /\ scan[s].open /\ scan' = [scan EXCEPT ![s].cur = View(s).next]
      BY <1>4, <2>2 DEF ScanLeavesPage
    <3> DEFINE next == View(s).next
    <3> HIDE DEF next
    <3>2. scan' = [scan EXCEPT ![s].cur = next]
      BY <3>1 DEF next
    <3>3. scan'[s] = [scan[s] EXCEPT !.cur = next]
      BY <1>1, <3>2
    <3>4. scan[s] \in ScanOf(D)
      BY <1>1
    <3>5. scan'[s].open
      BY <3>1, <3>3, <3>4 DEF ScanOf
    <3>6. QED
      BY <3>1, <3>5, ThisScanCalls
  <2>3. QED
    BY <2>1, <2>2
<1>5. ASSUME NEW s \in Scans, ScanFetches(s)
      PROVE  CallersOpen'
  <2>1. CASE thread' = Idle
    BY <2>1, NoScanCalls DEF Idle
  <2>2. CASE thread' # Idle
    <3>1. /\ thread = Advancing(s) /\ thread' = Advancing(s)
          /\ scan' = Detached([scan EXCEPT ![s] = Positioned(scan[s], scan[s].cur, 0)])
      BY <1>5, <2>2 DEF ScanFetches
    <3> DEFINE p == scan[s].cur
               r == Positioned(scan[s], p, 0)
               E == D \cup {TRUE, FALSE, ZeroBytes, 0, p}
    <3>2. D \subseteq E /\ {TRUE, FALSE, ZeroBytes} \subseteq E /\ 0 \in E /\ p \in E
      OBVIOUS
    <3>3. scan[s].open
      BY <3>1 DEF HeapInv, CallersOpen
    <3> HIDE DEF E
    <3>4. scan[s] \in ScanOf(E)
      BY <1>1, <3>2, ScanWider
    <3> HIDE DEF p
    <3>5. r \in ScanOf(E) /\ r.open = scan[s].open
      BY <3>2, <3>4 DEF Positioned, ScanOf
    <3>6. scan' = Detached([scan EXCEPT ![s] = r])
      BY <3>1 DEF p
    <3> HIDE DEF r
    <3>7. At(s, r)
      BY <1>1, <3>2, <3>5, <3>6, PutDetached
    <3>8. scan'[s].open
      BY <3>3, <3>5, <3>7 DEF At
    <3>9. QED
      BY <3>1, <3>8, ThisScanCalls
  <2>3. QED
    BY <2>1, <2>2
<1>6. ASSUME NEW s \in Scans, ResetLeavesPage(s)
      PROVE  CallersOpen'
  <2> DEFINE marked == scan[s].markedPage
  <2>1. thread' = Resetting(s) /\ scan[s].open /\ scan' = [scan EXCEPT ![s].cur = marked]
    BY <1>6 DEF ResetLeavesPage
  <2> HIDE DEF marked
  <2>2. scan'[s] = [scan[s] EXCEPT !.cur = marked] /\ scan[s] \in ScanOf(D)
    BY <1>1, <2>1
  <2>3. scan'[s].open
    BY <2>1, <2>2 DEF ScanOf
  <2>4. QED
    BY <2>1, <2>3, ThisScanCalls
<1>7. CASE CallerFlushes
  BY <1>7, NoScanCalls DEF CallerFlushes, NoCall
<1>8. CASE UNCHANGED vars
  BY <1>8 DEF vars, HeapInv, CallersOpen
<1>9. QED
  BY Zenon, <1>2, <1>3, <1>4, <1>5, <1>6, <1>7, <1>8 DEF Next

\* Every step keeps the pins accounted for.
LEMMA StepPins ==
  ASSUME BadRows = {}, HeapInv, [Next]_vars
  PROVE  PinInv'
<1> USE DEF HeapInv
<1>1. ASSUME NEW k \in Inserters, CallInsert(k) \/ InsertStep(k)
      PROVE  PinInv'
  BY <1>1, InsertsKeepPins
<1>2. ASSUME NEW s \in Scans, NEW t \in Tables, OpenScan(s, t)
      PROVE  PinInv'
  BY <1>2, OpenKeepsPins
<1>3. ASSUME NEW s \in Scans, ScanReturns(s) \/ ScanStopsShort(s) \/ MarkScan(s) \/ ResetFails(s)
      PROVE  PinInv'
  BY <1>3, StaySteps
<1>4. ASSUME NEW s \in Scans, ScanLeavesPage(s) \/ ResetLeavesPage(s) \/ CloseScan(s)
      PROVE  PinInv'
  BY <1>4, LeaveSteps
<1>5. ASSUME NEW s \in Scans, ScanFetches(s) \/ ResetFetches(s)
      PROVE  PinInv'
  BY <1>5, FetchSteps
<1>6. CASE CallerFlushes
  BY <1>6, FlushStep DEF CallerFlushes
<1>7. CASE UNCHANGED vars
  BY <1>7 DEF vars, PinInv, PinsBound, Holders, DistinctPages
<1>8. QED
  BY Zenon, <1>1, <1>2, <1>3, <1>4, <1>5, <1>6, <1>7 DEF Next

\* HeapInv is an invariant of the heap files when every row can be written.
THEOREM HeapInvariance == ASSUME BadRows = {} PROVE Spec => []HeapInv
<1>1. HeapInv /\ [Next]_vars => HeapInv'
  BY StepPins, StepCallers DEF HeapInv
<1>2. QED
  BY InitPins, <1>1, PTL DEF Spec

\* For any number of frames, pages, tables, inserters and scans: when every row
\* can be written, a pin belongs to an open scan on the page, whatever eviction,
\* flush, cut-short scan, failed insert, mark, reset or second close happened.
THEOREM PinsBelongToScans == ASSUME BadRows = {} PROVE Spec => []PinsAreScans
<1>1. ASSUME HeapInv PROVE PinsAreScans
  <2>1. ASSUME NEW i \in DOMAIN frames
        PROVE  frames[i].pins <=
                 Cardinality({s \in Scans : scan[s].open /\ scan[s].cur = frames[i].page})
    <3> DEFINE O == {s \in Scans : scan[s].open /\ scan[s].cur = frames[i].page}
    <3>1. Holders(frames[i].page) \subseteq O
      BY DEF Holders, HoldersIn
    <3>2. IsFiniteSet(O) /\ Cardinality(O) \in Nat
      BY HeapAssumption, FS_Subset, FS_CardinalityType
    <3> HIDE DEF O
    <3>3. Cardinality(Holders(frames[i].page)) <= Cardinality(O)
      BY <3>1, <3>2, FS_Subset
    <3>4. frames[i].pins <= Cardinality(Holders(frames[i].page)) /\ frames[i].pins \in Nat
      BY <1>1, FrameTyping DEF HeapInv, PinInv, PinsBound
    <3>5. frames[i].pins <= Cardinality(O)
      BY <3>2, <3>3, <3>4, HoldersFinite DEF Holders
    <3>6. QED
      BY <3>5 DEF O
  <2>2. QED
    BY <2>1 DEF PinsAreScans
<1>2. QED
  BY <1>1, HeapInvariance, PTL

\* get_page finds a frame it may use: a new one or one without pins.
FrameToSpare == \E i \in 1..MaxFrames : Victim(i)

\* With more frames than scans the pool never runs full of pinned pages: the
\* replacer always has a frame to draw.
THEOREM FrameIsFree ==
  ASSUME BadRows = {}, Cardinality(Scans) < MaxFrames
  PROVE  Spec => []FrameToSpare
<1>1. ASSUME HeapInv PROVE FrameToSpare
  <2>1. PICK D : frames \in Seq(FrameOf(D))
    BY <1>1 DEF HeapInv, PinInv
  <2>2. Len(frames) \in Nat /\ DOMAIN frames = 1..Len(frames) /\ MaxFrames \in Nat \ {0}
    BY <2>1, FrameTyping, HeapAssumption
  <2>3. CASE Len(frames) < MaxFrames
    <3>1. Len(frames) + 1 \in 1..MaxFrames /\ Victim(Len(frames) + 1)
      BY <2>2, <2>3 DEF Victim
    <3>2. QED
      BY <3>1 DEF FrameToSpare
  <2>4. CASE ~(Len(frames) < MaxFrames)
    <3>1. SUFFICES ASSUME \A i \in 1..MaxFrames : frames[i].pins # 0
                   PROVE  FALSE
      BY <2>2, <2>4 DEF FrameToSpare, Victim
    <3>2. ASSUME NEW i \in 1..MaxFrames
          PROVE  \E s \in Scans : scan[s].cur = frames[i].page
      <4>1. i \in DOMAIN frames
        BY <2>2, <2>4
      <4>2. frames[i].pins \in Nat /\ frames[i].pins <= Cardinality(Holders(frames[i].page))
        BY <1>1, <2>1, <4>1, FrameTyping DEF HeapInv, PinInv, PinsBound
      <4>3. Cardinality(Holders(frames[i].page)) # 0
        BY <3>1, <4>2, HoldersFinite DEF Holders
      <4>4. Holders(frames[i].page) # {}
        BY <4>3, FS_EmptySet
      <4>5. QED
        BY <4>4 DEF Holders, HoldersIn
    <3> DEFINE f == [i \in 1..MaxFrames |-> CHOOSE s \in Scans : scan[s].cur = frames[i].page]
    <3>3. /\ f \in [1..MaxFrames -> Scans]
          /\ \A i \in 1..MaxFrames : scan[f[i]].cur = frames[i].page
      BY <3>2
    <3>4. IsFiniteSet(1..MaxFrames) /\ Cardinality(1..MaxFrames) = MaxFrames
      BY <2>2, FS_Interval
    <3> HIDE DEF f
    <3>5. PICK x \in 1..MaxFrames, y \in 1..MaxFrames : x # y /\ f[x] = f[y]
      BY <3>3, <3>4, HeapAssumption, FS_PigeonHole
    <3>6. frames[x].page = frames[y].page /\ x \in DOMAIN frames /\ y \in DOMAIN frames
      BY <2>2, <2>4, <3>3, <3>5
    <3>7. QED
      BY <1>1, <3>5, <3>6 DEF HeapInv, PinInv, DistinctPages
  <2>5. QED
    BY <2>3, <2>4
<1>2. QED
  BY <1>1, HeapInvariance, PTL

------------------------------------------------------------------------------
(* Where an iterator is *)

\* What an iterator sees when the pages are pg.
ViewOf(sc, pg) == IF sc.live THEN pg[sc.on] ELSE sc.bytes

\* An iterator that sees v is on the k-th page of C: it sees the page, or the
\* page as it was, and has returned the rows before the one at its slot.
Placed(sc, v, pg, C, k) ==
  /\ sc.on = C[k]
  /\ Len(v.slots) <= Len(pg[C[k]].slots)
  /\ \A x \in 1..Len(v.slots) : v.slots[x] = pg[C[k]].slots[x]
  /\ v.next = NoLink \/ v.next = pg[C[k]].next
  /\ v.next # NoLink => v.slots = pg[C[k]].slots
  /\ sc.slot <= Len(v.slots)
  /\ sc.seen = RowsBefore(pg, C, k) + sc.slot
  /\ v.next = NoLink => sc.due <= RowsBefore(pg, C, k) + Len(v.slots)

\* Its mark is on the m-th page.
MarkedAt(sc, pg, C, m) ==
  /\ sc.markedPage = C[m]
  /\ sc.markedSlot <= Len(pg[C[m]].slots)
  /\ sc.markedSeen = RowsBefore(pg, C, m) + sc.markedSlot

\* An iterator of the table with chain C and the given number of rows.
Reading(sc, v, pg, C, rows) ==
  /\ \E k \in 1..Len(C) : Placed(sc, v, pg, C, k)
  /\ \E m \in 1..Len(C) : MarkedAt(sc, pg, C, m)
  /\ sc.due <= rows

\* Where the rows of a page are in the table.
LEMMA RowsPlace ==
  ASSUME NEW pg \in [PageIds -> PageContents], NEW C \in Seq(PageIds), NEW k \in 1..Len(C)
  PROVE  /\ RowsBefore(pg, C, k) \in Nat /\ Len(pg[C[k]].slots) \in Nat
         /\ RowsBefore(pg, C, k) + Len(pg[C[k]].slots) <= Len(RowsOn(pg)[C])
         /\ \A x \in 1..Len(pg[C[k]].slots) :
              RowsOn(pg)[C][RowsBefore(pg, C, k) + x] = pg[C[k]].slots[x]
         /\ k + 1 \in 1..Len(C) => RowsBefore(pg, C, k + 1) = RowsBefore(pg, C, k) + Len(pg[C[k]].slots)
         /\ k = Len(C) => Len(RowsOn(pg)[C]) = RowsBefore(pg, C, k) + Len(pg[C[k]].slots)
         /\ k = 1 => RowsBefore(pg, C, k) = 0
<1> DEFINE ss == SlotsOn(pg, C)
           z == Len(C)
           b == FlatTo(ss, k - 1)
<1>1. /\ ss \in Seq(Seq(Records)) /\ Len(ss) = z /\ z \in Nat
      /\ ss[k] = pg[C[k]].slots /\ RowsOn(pg)[C] = FlattenSeq(ss)
  BY SlotsTyped, SeqElements
<1>2. RowsBefore(pg, C, k) = Len(b) /\ (k + 1) - 1 = k
  BY DEF RowsBefore
<1>3. RowsBefore(pg, C, k + 1) = Len(FlatTo(ss, k))
  BY <1>2 DEF RowsBefore
<1> HIDE DEF ss
<1>4. k \in 1..Len(ss) /\ Len(ss) \in k..Len(ss)
  BY <1>1
<1>5. Len(b) \in Nat /\ Len(ss[k]) \in Nat /\ Len(FlatTo(ss, k)) = Len(b) + Len(ss[k])
  BY <1>1, <1>4, FlatNext
<1>6. /\ Len(FlatTo(ss, k)) <= Len(FlatTo(ss, Len(ss)))
      /\ \A x \in 1..Len(ss[k]) : FlatTo(ss, Len(ss))[Len(b) + x] = ss[k][x]
  BY <1>1, <1>4, FlatPlace
<1>7. FlattenSeq(ss) = FlatTo(ss, Len(ss)) /\ FlatTo(ss, 0) = <<>>
  BY <1>1, FlatSteps
<1>8. k = 1 => b = <<>>
  <2>1. k = 1 => k - 1 = 0
    OBVIOUS
  <2>2. QED
    BY <1>7, <2>1
<1>9. k = 1 => Len(b) = 0
  BY <1>8, EmptySeq
<1> DEFINE B == RowsBefore(pg, C, k)
           x == pg[C[k]].slots
           R == RowsOn(pg)[C]
<1>10. /\ B = Len(b) /\ x = ss[k] /\ R = FlatTo(ss, Len(ss))
  BY <1>1, <1>2, <1>7
<1> HIDE DEF b, B, x, R
<1>11. B \in Nat /\ Len(x) \in Nat /\ B + Len(x) <= Len(R)
  BY <1>5, <1>6, <1>10
<1>12. \A y \in 1..Len(x) : R[B + y] = x[y]
  BY <1>6, <1>10
<1>13. RowsBefore(pg, C, k + 1) = B + Len(x)
  BY <1>3, <1>5, <1>10
<1>14. k = z => Len(R) = B + Len(x)
  BY <1>1, <1>5, <1>10
<1>15. k = 1 => B = 0
  BY <1>9, <1>10
<1>16. QED
  BY <1>11, <1>12, <1>13, <1>14, <1>15 DEF B, x, R

\* Rows that come stay behind the others.
LEMMA RowsBeforeStay ==
  ASSUME NEW pg \in [PageIds -> PageContents], NEW pg2 \in [PageIds -> PageContents],
         NEW C \in Seq(PageIds), NEW D \in Seq(PageIds), Grows(pg, C, pg2, D),
         NEW k \in 1..Len(C)
  PROVE  RowsBefore(pg2, D, k) = RowsBefore(pg, C, k)
<1> DEFINE ss == SlotsOn(pg, C)
           tt == SlotsOn(pg2, D)
           n == k - 1
<1>1. Len(C) \in Nat /\ Len(D) \in Nat /\ Len(C) <= Len(D) /\ \A i \in 1..Len(C) : D[i] = C[i]
  BY SeqElements DEF Grows
<1>2. n \in Nat /\ n <= Len(C) /\ n <= Len(D) /\ n \in 0..n
      /\ \A i \in 1..n : i \in 1..(Len(C) - 1) /\ i \in 1..Len(C) /\ i \in 1..Len(D)
  BY <1>1
<1>3. /\ ss \in Seq(Seq(Records)) /\ Len(ss) = Len(C) /\ \A i \in 1..Len(C) : ss[i] = pg[C[i]].slots
  BY SlotsTyped
<1>4. /\ tt \in Seq(Seq(Records)) /\ Len(tt) = Len(D) /\ \A i \in 1..Len(D) : tt[i] = pg2[D[i]].slots
  BY SlotsTyped
<1>5. \A i \in 1..n : ss[i] = tt[i]
  <2>1. \A i \in 1..(Len(C) - 1) : pg2[C[i]].slots = pg[C[i]].slots
    BY DEF Grows
  <2> HIDE DEF ss, tt, n
  <2>2. ASSUME NEW i \in 1..n
        PROVE  ss[i] = tt[i]
    <3>1. i \in 1..(Len(C) - 1) /\ i \in 1..Len(C) /\ i \in 1..Len(D) /\ D[i] = C[i]
      BY <1>1, <1>2
    <3>2. ss[i] = pg[C[i]].slots /\ tt[i] = pg2[D[i]].slots
      BY <1>3, <1>4, <3>1
    <3>3. QED
      BY <2>1, <3>1, <3>2
  <2>3. QED
    BY <2>2
<1>6. RowsBefore(pg2, D, k) = Len(FlatTo(tt, n)) /\ RowsBefore(pg, C, k) = Len(FlatTo(ss, n))
  BY DEF RowsBefore
<1> HIDE DEF ss, tt, n
<1>7. \A j \in 0..n : FlatTo(ss, j) = FlatTo(tt, j)
  <2>1. ss \in Seq(Seq(Records)) /\ tt \in Seq(Seq(Records)) /\ n \in Nat
    BY <1>2, <1>3, <1>4
  <2>2. n <= Len(ss) /\ n <= Len(tt)
    BY <1>2, <1>3, <1>4
  <2>3. QED
    BY <2>1, <2>2, <1>5, FlatPrefix
<1>8. QED
  BY <1>2, <1>6, <1>7

\* The records of the k-th page stay in front of those that come.
PageGrows(pg, C, pg2, D, k) ==
  /\ D[k] = C[k] /\ k \in 1..Len(D)
  /\ Len(pg[C[k]].slots) \in Nat /\ Len(pg2[C[k]].slots) \in Nat
  /\ Len(pg[C[k]].slots) <= Len(pg2[C[k]].slots)
  /\ \A x \in 1..Len(pg[C[k]].slots) : pg2[C[k]].slots[x] = pg[C[k]].slots[x]
  /\ k # Len(C) => pg2[C[k]].slots = pg[C[k]].slots /\ pg2[C[k]].next = pg[C[k]].next

\* They do on every page of a chain that grows.
LEMMA SlotsStay ==
  ASSUME NEW pg \in [PageIds -> PageContents], NEW pg2 \in [PageIds -> PageContents],
         NEW C \in Seq(PageIds), NEW D \in Seq(PageIds), Grows(pg, C, pg2, D),
         NEW k \in 1..Len(C)
  PROVE  PageGrows(pg, C, pg2, D, k)
<1>1. /\ Len(C) \in Nat /\ Len(D) \in Nat /\ Len(C) <= Len(D) /\ (\A i \in 1..Len(C) : D[i] = C[i])
      /\ C[k] \in PageIds
  BY SeqElements DEF Grows
<1>2. pg[C[k]].slots \in Seq(Records) /\ pg2[C[k]].slots \in Seq(Records)
  BY <1>1 DEF PageContents, Records
<1>3. k # Len(C) => k \in 1..(Len(C) - 1)
  BY <1>1
<1>4. k # Len(C) => pg2[C[k]].slots = pg[C[k]].slots /\ pg2[C[k]].next = pg[C[k]].next
  BY <1>3 DEF Grows
<1> DEFINE x == pg[C[k]].slots
           y == pg2[C[k]].slots
<1>5. y = x \/ \E e \in Records : y = Append(x, e)
  <2>1. CASE k # Len(C)
    BY <1>4, <2>1
  <2>2. CASE k = Len(C)
    BY <2>2 DEF Grows
  <2>3. QED
    BY <2>1, <2>2
<1>6. x \in Seq(Records) /\ y \in Seq(Records)
  BY <1>2
<1> HIDE DEF x, y
<1>7. Len(x) \in Nat /\ Len(y) \in Nat /\ Len(x) <= Len(y) /\ \A i \in 1..Len(x) : y[i] = x[i]
  <2>1. Len(x) \in Nat
    BY <1>6, SeqElements
  <2>2. CASE y = x
    BY <2>1, <2>2
  <2>3. CASE \E e \in Records : y = Append(x, e)
    <3>1. PICK e \in Records : y = Append(x, e)
      BY <2>3
    <3>2. Len(y) = Len(x) + 1 /\ \A i \in 1..Len(x) : y[i] = x[i]
      BY <1>6, <3>1, SeqAppend
    <3>3. QED
      BY <2>1, <3>2
  <2>4. QED
    BY <1>5, <2>2, <2>3
<1>8. QED
  BY <1>1, <1>4, <1>7 DEF x, y, PageGrows

\* An iterator whose frame was given away stays where it is ...
LEMMA PlacedKept ==
  ASSUME NEW pg \in [PageIds -> PageContents], NEW pg2 \in [PageIds -> PageContents],
         NEW n, NEW t, NEW C, Whole(pg, n, t, C), NEW D \in Seq(PageIds), Grows(pg, C, pg2, D),
         NEW k \in 1..Len(C), NEW sc \in ScanState, NEW r \in ScanState,
         r.on = sc.on, r.slot = sc.slot, r.seen = sc.seen, r.due = sc.due,
         NEW v \in PageContents, NEW w, w.slots = v.slots, w.next = v.next,
         Placed(sc, v, pg, C, k)
  PROVE  Placed(r, w, pg2, D, k)
<1>1. C \in Seq(PageIds) /\ IsPath(pg, FirstPage[t], C) /\ \A i \in 1..Len(C) : C[i] \in PageIds
  <2>1. IsPath(pg, FirstPage[t], C)
    BY DEF Whole
  <2>2. QED
    BY <2>1, WholeParts
<1> DEFINE x == pg[C[k]]
           y == pg2[C[k]]
<1>2. /\ D[k] = C[k] /\ k \in 1..Len(D)
      /\ Len(x.slots) \in Nat /\ Len(y.slots) \in Nat
      /\ Len(x.slots) <= Len(y.slots)
      /\ \A i \in 1..Len(x.slots) : y.slots[i] = x.slots[i]
      /\ k # Len(C) => y.slots = x.slots /\ y.next = x.next
  <2>1. PageGrows(pg, C, pg2, D, k)
    BY <1>1, SlotsStay
  <2>2. QED
    BY <2>1 DEF PageGrows
<1>3. RowsBefore(pg2, D, k) = RowsBefore(pg, C, k)
  BY <1>1, RowsBeforeStay
<1>4. k = Len(C) => x.next = NoLink
  BY <1>1 DEF IsPath
<1>5. /\ sc.on = C[k] /\ Len(v.slots) <= Len(x.slots)
      /\ \A i \in 1..Len(v.slots) : v.slots[i] = x.slots[i]
      /\ v.next = NoLink \/ v.next = x.next
      /\ v.next # NoLink => v.slots = x.slots
      /\ sc.slot <= Len(v.slots)
      /\ sc.seen = RowsBefore(pg, C, k) + sc.slot
      /\ v.next = NoLink => sc.due <= RowsBefore(pg, C, k) + Len(v.slots)
  BY DEF Placed
<1> HIDE DEF x, y
<1>6. Len(v.slots) \in Nat
  BY SeqElements DEF PageContents
<1>7. r.on = D[k]
  BY <1>2, <1>5
<1>8. Len(w.slots) <= Len(y.slots) /\ \A i \in 1..Len(w.slots) : w.slots[i] = y.slots[i]
  BY <1>2, <1>5, <1>6
<1>9. (w.next = NoLink \/ w.next = y.next) /\ (w.next # NoLink => w.slots = y.slots)
  BY <1>2, <1>4, <1>5
<1>10. r.slot <= Len(w.slots) /\ r.seen = RowsBefore(pg2, D, k) + r.slot
  BY <1>3, <1>5
<1>11. w.next = NoLink => r.due <= RowsBefore(pg2, D, k) + Len(w.slots)
  BY <1>3, <1>5
<1>12. pg2[D[k]] = y
  BY <1>2 DEF y
<1>13. QED
  BY <1>7, <1>8, <1>9, <1>10, <1>11, <1>12 DEF Placed

\* ... and one that sees its page sees it as it is now.
LEMMA PlacedLive ==
  ASSUME NEW pg \in [PageIds -> PageContents], NEW pg2 \in [PageIds -> PageContents],
         NEW n, NEW t, NEW C, Whole(pg, n, t, C), NEW D \in Seq(PageIds), Grows(pg, C, pg2, D),
         NEW k \in 1..Len(C), NEW sc \in ScanState, NEW r \in ScanState,
         r.on = sc.on, r.slot = sc.slot, r.seen = sc.seen, r.due = sc.due,
         Placed(sc, pg[C[k]], pg, C, k)
  PROVE  Placed(r, pg2[C[k]], pg2, D, k)
<1>1. C \in Seq(PageIds) /\ IsPath(pg, FirstPage[t], C) /\ \A i \in 1..Len(C) : C[i] \in PageIds
  <2>1. IsPath(pg, FirstPage[t], C)
    BY DEF Whole
  <2>2. QED
    BY <2>1, WholeParts
<1> DEFINE x == pg[C[k]]
           y == pg2[C[k]]
           b == RowsBefore(pg, C, k)
<1>2. /\ D[k] = C[k] /\ k \in 1..Len(D)
      /\ Len(x.slots) \in Nat /\ Len(y.slots) \in Nat
      /\ Len(x.slots) <= Len(y.slots)
      /\ k # Len(C) => y.slots = x.slots /\ y.next = x.next
  <2>1. PageGrows(pg, C, pg2, D, k)
    BY <1>1, SlotsStay
  <2>2. QED
    BY <2>1 DEF PageGrows
<1>3. RowsBefore(pg2, D, k) = b /\ b \in Nat
  <2>1. RowsBefore(pg2, D, k) = RowsBefore(pg, C, k)
    BY <1>1, RowsBeforeStay
  <2>2. RowsBefore(pg, C, k) \in Nat
    BY <1>1, RowsPlace
  <2>3. QED
    BY <2>1, <2>2
<1>4. k = Len(C) => x.next = NoLink
  BY <1>1 DEF IsPath
<1>5. /\ sc.on = C[k] /\ sc.slot <= Len(x.slots) /\ sc.seen = b + sc.slot
      /\ x.next = NoLink => sc.due <= b + Len(x.slots)
  BY DEF Placed
<1> HIDE DEF x, y, b
<1>6. r.slot \in Nat /\ r.due \in Nat
  BY DEF ScanState
<1>7. r.slot <= Len(y.slots) /\ r.seen = b + r.slot
  BY <1>2, <1>5, <1>6
<1>8. y.next = NoLink => r.due <= b + Len(y.slots)
  BY <1>2, <1>3, <1>4, <1>5, <1>6
<1>9. Len(y.slots) <= Len(y.slots)
  BY <1>2
<1>10. pg2[D[k]] = y /\ y = pg2[C[k]] /\ r.on = D[k]
  BY <1>2, <1>5 DEF y
<1>11. QED
  BY <1>3, <1>7, <1>8, <1>9, <1>10 DEF Placed

\* A mark stays where it is.
LEMMA MarkedKept ==
  ASSUME NEW pg \in [PageIds -> PageContents], NEW pg2 \in [PageIds -> PageContents],
         NEW n, NEW t, NEW C, Whole(pg, n, t, C), NEW D \in Seq(PageIds), Grows(pg, C, pg2, D),
         NEW m \in 1..Len(C), NEW sc \in ScanState, NEW r \in ScanState,
         r.markedPage = sc.markedPage, r.markedSlot = sc.markedSlot, r.markedSeen = sc.markedSeen,
         MarkedAt(sc, pg, C, m)
  PROVE  MarkedAt(r, pg2, D, m)
<1>1. C \in Seq(PageIds)
  BY WholeParts
<1>2. /\ D[m] = C[m] /\ Len(pg[C[m]].slots) \in Nat /\ Len(pg2[C[m]].slots) \in Nat
      /\ Len(pg[C[m]].slots) <= Len(pg2[C[m]].slots)
  <2>1. PageGrows(pg, C, pg2, D, m)
    BY <1>1, SlotsStay
  <2>2. QED
    BY <2>1 DEF PageGrows
<1>3. RowsBefore(pg2, D, m) = RowsBefore(pg, C, m)
  BY <1>1, RowsBeforeStay
<1>4. sc.markedSlot \in Nat
  BY DEF ScanState
<1>5. QED
  BY <1>2, <1>3, <1>4 DEF MarkedAt

\* Whatever grows, an iterator goes on reading.
LEMMA ReadingKept ==
  ASSUME TableInv, TableInv', Growing, NEW t \in SoundTables, Len(Stored(t)) <= Len(Stored(t)'),
         NEW sc \in ScanState, sc.live => sc.on \in PageIds, NEW r, Moved(r, sc),
         Reading(sc, ViewOf(sc, Pages), Pages, Chain(t), Len(Stored(t)))
  PROVE  Reading(r, ViewOf(r, Pages'), Pages', Chain(t)', Len(Stored(t)'))
<1> DEFINE pg == Pages
           pg2 == Pages'
           C == Chain(t)
           D == Chain(t)'
           n == numPages
           a == Len(Stored(t))
           b == Len(Stored(t)')
           v == ViewOf(sc, Pages)
           w == ViewOf(r, Pages')
<1>1. PoolOK /\ PoolOK' /\ t \in Tables
  BY DEF TableInv, SoundTables
<1>2. /\ pg \in [PageIds -> PageContents] /\ pg2 \in [PageIds -> PageContents]
      /\ Whole(pg, n, t, C) /\ Grows(pg, C, pg2, D)
  BY <1>1, PagesTyped, NextPagesTyped DEF TableInv, ChainsOK, Growing
<1>3. D \in Seq(PageIds)
  <2>1. Whole(Pages', numPages', t, Chain(t)')
    BY <1>1 DEF TableInv, ChainsOK
  <2>2. QED
    BY <2>1, WholeParts
<1>4. a \in Nat /\ b \in Nat /\ a <= b
  <2>1. a \in Nat
    BY <1>1, FirstPlace
  <2>2. b \in Nat
    <3>1. Stored(t)' = RowsOn(pg2)[D]
      BY NextChains
    <3> DEFINE z == FlatTo(SlotsOn(pg2, D), Len(D) - 1)
               y == pg2[D[Len(D)]].slots
    <3>2. Whole(Pages', numPages', t, Chain(t)')
      BY <1>1 DEF TableInv, ChainsOK
    <3>3. D # <<>>
      BY <3>2, WholeParts
    <3> HIDE DEF pg2, D
    <3>4. z \in Seq(Records) /\ y \in Seq(Records) /\ RowsOn(pg2)[D] = z \o y
      BY <1>2, <1>3, <3>3, RowsSplit
    <3> HIDE DEF z, y
    <3>5. z \o y \in Seq(Records)
      BY <3>4, ConcatProperties
    <3>6. QED
      BY <3>1, <3>4, <3>5, SeqElements
  <2>3. QED
    BY <2>1, <2>2
<1>5. /\ r \in ScanState /\ r.on = sc.on /\ r.slot = sc.slot /\ r.seen = sc.seen /\ r.due = sc.due
      /\ r.markedPage = sc.markedPage /\ r.markedSlot = sc.markedSlot /\ r.markedSeen = sc.markedSeen
      /\ (r.live => sc.live)
      /\ IF r.live = sc.live THEN r.bytes = sc.bytes ELSE sc.live /\ r.bytes = pg[sc.on]
  BY <1>1, MovedFields
<1>6. v \in PageContents
  BY <1>2 DEF ViewOf, ScanState
<1>7. (r.live /\ v = pg[sc.on] /\ w = pg2[sc.on]) \/ w = v
  <2>1. CASE r.live = TRUE
    BY <1>5, <2>1 DEF ViewOf
  <2>2. CASE r.live = FALSE /\ sc.live = FALSE
    BY <1>5, <2>2 DEF ViewOf
  <2>3. CASE r.live = FALSE /\ sc.live = TRUE
    BY <1>5, <2>3 DEF ViewOf
  <2>4. r.live \in BOOLEAN /\ sc.live \in BOOLEAN
    BY <1>5 DEF ScanState
  <2>5. QED
    BY <2>1, <2>2, <2>3, <2>4
<1>8. PICK k \in 1..Len(C) : Placed(sc, v, pg, C, k)
  BY DEF Reading
<1>9. PICK m \in 1..Len(C) : MarkedAt(sc, pg, C, m)
  BY DEF Reading
<1>10. sc.due <= a /\ sc.due \in Nat
  BY DEF Reading, ScanState
<1> HIDE DEF pg, pg2, C, D, n, a, b, v, w
<1>11. Placed(r, w, pg2, D, k)
  <2>1. CASE v = pg[sc.on] /\ w = pg2[sc.on]
    <3>1. sc.on = C[k]
      BY <1>8 DEF Placed
    <3>2. Placed(sc, pg[C[k]], pg, C, k)
      BY <1>8, <2>1, <3>1
    <3>3. Placed(r, pg2[C[k]], pg2, D, k)
      BY <1>2, <1>3, <1>5, <3>2, PlacedLive
    <3>4. QED
      BY <2>1, <3>1, <3>3
  <2>2. CASE w = v
    <3>1. Placed(r, v, pg2, D, k)
      BY <1>2, <1>3, <1>5, <1>6, <1>8, PlacedKept
    <3>2. QED
      BY <2>2, <3>1
  <2>3. QED
    BY <1>7, <2>1, <2>2
<1>12. MarkedAt(r, pg2, D, m)
  BY <1>2, <1>3, <1>5, <1>9, MarkedKept
<1>13. k \in 1..Len(D) /\ m \in 1..Len(D)
  <2>1. C \in Seq(PageIds)
    BY <1>2, WholeParts
  <2>2. k \in 1..Len(D)
    BY <1>2, <1>3, <2>1, SlotsStay DEF PageGrows
  <2>3. m \in 1..Len(D)
    BY <1>2, <1>3, <2>1, SlotsStay DEF PageGrows
  <2>4. QED
    BY <2>2, <2>3
<1>14. r.due <= b
  BY <1>4, <1>5, <1>10
<1>15. Reading(r, w, pg2, D, b)
  BY <1>11, <1>12, <1>13, <1>14 DEF Reading
<1>16. QED
  BY <1>15 DEF w, pg2, D, b

------------------------------------------------------------------------------
(* The invariant *)

\* An iterator of the table whose pages are pg.
ReadsAt(sc, pg) ==
  LET C == ChainOf(pg, FirstPage[sc.table])
  IN  Reading(sc, ViewOf(sc, pg), pg, C, Len(RowsOn(pg)[C]))

\* One that ended has returned every row that was due.
EndOK(sc) == sc.ended /\ ~sc.failed => sc.due <= sc.seen

\* has_next that left a page has returned its rows and is on the way to the
\* next; reset is on the way to the page of the mark.
CallOK(th, s, sc, pg) ==
  /\ th = Advancing(s) /\ sc.on # sc.cur =>
       sc.cur = pg[sc.on].next /\ sc.slot = Len(pg[sc.on].slots)
  /\ th = Resetting(s) => sc.cur = sc.markedPage

\* The iterators of the tables whose rows can all be written.
ScanInv ==
  \A s \in Scans : scan[s].table \in SoundTables =>
    /\ EndOK(scan[s])
    /\ scan[s].open => ReadsAt(scan[s], Pages) /\ CallOK(thread, s, scan[s], Pages)

\* Tables only grow.
RowsGrow == \A t \in SoundTables : Len(Stored(t)) <= Len(Stored(t)')

\* They do when they stay ...
LEMMA RowsStayGrow ==
  ASSUME TableInv, RowsStay
  PROVE  RowsGrow
<1>1. \A t \in SoundTables : Len(Stored(t)) \in Nat
  BY FirstPlace DEF SoundTables
<1>2. QED
  BY <1>1 DEF RowsStay, RowsGrow

\* ... and when one gains a row.
LEMMA RowsGainGrow ==
  ASSUME TableInv, NEW u, NEW e \in Records, RowsGain(u, e)
  PROVE  RowsGrow
<1>1. ASSUME NEW t \in SoundTables
      PROVE  Len(Stored(t)) <= Len(Stored(t)')
  <2>1. Stored(t) \in Seq(Records) /\ Len(Stored(t)) \in Nat
    BY FirstPlace DEF SoundTables
  <2>2. Len(Append(Stored(t), e)) = Len(Stored(t)) + 1
    BY <2>1, SeqAppend
  <2>3. Stored(t)' = IF t = u THEN Append(Stored(t), e) ELSE Stored(t)
    BY DEF RowsGain
  <2>4. CASE t = u
    BY <2>1, <2>2, <2>3, <2>4
  <2>5. CASE t # u
    BY <2>1, <2>3, <2>5
  <2>6. QED
    BY <2>4, <2>5
<1>2. QED
  BY <1>1 DEF RowsGrow

\* An iterator that was about to read on after a step of its own or of another
\* caller does so.
LEMMA ReadsOn ==
  ASSUME TableInv, TableInv', Growing, RowsGrow,
         NEW sc \in ScanState, sc.live => sc.on \in PageIds, NEW r, Moved(r, sc),
         sc.table \in SoundTables => EndOK(sc) /\ (sc.open => ReadsAt(sc, Pages))
  PROVE  r.table \in SoundTables => EndOK(r) /\ (r.open => ReadsAt(r, Pages'))
<1>1. PoolOK
  BY DEF TableInv
<1>2. /\ r.open = sc.open /\ r.table = sc.table /\ r.ended = sc.ended /\ r.failed = sc.failed
      /\ r.seen = sc.seen /\ r.due = sc.due
  BY <1>1, MovedFields
<1>3. ASSUME sc.table \in SoundTables, sc.open
      PROVE  ReadsAt(r, Pages')
  <2> DEFINE t == sc.table
  <2>1. Reading(sc, ViewOf(sc, Pages), Pages, Chain(t), Len(Stored(t)))
    BY <1>3 DEF ReadsAt, Chain, Stored
  <2>2. t \in SoundTables /\ Len(Stored(t)) <= Len(Stored(t)')
    BY <1>3 DEF RowsGrow
  <2> HIDE DEF t
  <2>3. Reading(r, ViewOf(r, Pages'), Pages', Chain(t)', Len(Stored(t)'))
    BY <2>1, <2>2, ReadingKept
  <2>4. Chain(t)' = ChainOf(Pages', FirstPage[t]) /\ Stored(t)' = RowsOn(Pages')[Chain(t)']
    BY NextChains
  <2>5. Reading(r, ViewOf(r, Pages'), Pages', ChainOf(Pages', FirstPage[t]),
                Len(RowsOn(Pages')[ChainOf(Pages', FirstPage[t])]))
    BY <2>3, <2>4
  <2>6. r.table = t
    BY <1>2 DEF t
  <2>7. QED
    BY <2>5, <2>6 DEF ReadsAt
<1>4. sc.table \in SoundTables => EndOK(r)
  BY <1>2 DEF EndOK
<1>5. QED
  BY <1>2, <1>3, <1>4

\* The iterators after a step of an inserter or a flush.
LEMMA InsertReads ==
  ASSUME TableInv, TableInv', ScanInv, Growing, RowsGrow, Moves(scan),
         \A s \in Scans : thread' # Advancing(s) /\ thread' # Resetting(s)
  PROVE  ScanInv'
<1>1. ASSUME NEW s \in Scans
      PROVE  scan'[s].table \in SoundTables =>
               /\ EndOK(scan'[s])
               /\ scan'[s].open => ReadsAt(scan'[s], Pages') /\ CallOK(thread', s, scan'[s], Pages')
  <2>1. scan[s] \in ScanState /\ (scan[s].live => scan[s].on \in PageIds)
    BY ScanTyped
  <2>2. Moved(scan'[s], scan[s])
    BY DEF Moves
  <2>3. scan[s].table \in SoundTables => EndOK(scan[s]) /\ (scan[s].open => ReadsAt(scan[s], Pages))
    BY DEF ScanInv
  <2>4. scan'[s].table \in SoundTables => EndOK(scan'[s]) /\ (scan'[s].open => ReadsAt(scan'[s], Pages'))
    BY <2>1, <2>2, <2>3, ReadsOn
  <2>5. CallOK(thread', s, scan'[s], Pages')
    BY DEF CallOK
  <2>6. QED
    BY <2>4, <2>5
<1>2. QED
  BY <1>1 DEF ScanInv, SoundTables

\* What a call of iterator s has to show of what it makes of it.
TurnReads(s, r) ==
  r.table \in SoundTables =>
    /\ EndOK(r)
    /\ r.open => ReadsAt(r, Pages) /\ CallOK(thread', s, r, Pages)

\* The iterators after a call of iterator s.
LEMMA ScanReads ==
  ASSUME TableInv, ScanInv, NEW s \in Scans, ScanCalls(s), NEW r, TurnOf(s, r), TurnReads(s, r)
  PROVE  ScanInv'
<1>1. TableInv' /\ Growing /\ RowsGrow
  BY ScanKeeps, RowsStayGrow DEF Kept
<1>2. /\ \A p \in PageIds : Like(Pages'[p], Pages[p])
      /\ r \in ScanState /\ Moves([scan EXCEPT ![s] = r])
      /\ r.live => r.on \in PageIds
      /\ ScanThread(s)
  BY DEF TurnOf, Turns
<1>3. /\ scan \in [Scans -> ScanState]
      /\ Moved(scan'[s], r) /\ \A u \in Scans : u # s => Moved(scan'[u], scan[u])
  <2>1. scan \in [Scans -> ScanState]
    BY ScanTyped
  <2>2. [scan EXCEPT ![s] = r][s] = r /\ \A u \in Scans : u # s => [scan EXCEPT ![s] = r][u] = scan[u]
    BY <2>1
  <2>3. QED
    BY <1>2, <2>1, <2>2 DEF Moves
<1>4. ASSUME NEW u \in Scans
      PROVE  scan'[u].table \in SoundTables =>
               /\ EndOK(scan'[u])
               /\ scan'[u].open => ReadsAt(scan'[u], Pages') /\ CallOK(thread', u, scan'[u], Pages')
  <2>1. CASE u = s
    <3>1. r.table \in SoundTables => EndOK(r) /\ (r.open => ReadsAt(r, Pages))
      BY DEF TurnReads
    <3>2. scan'[s].table \in SoundTables => EndOK(scan'[s]) /\ (scan'[s].open => ReadsAt(scan'[s], Pages'))
      BY <1>1, <1>2, <1>3, <3>1, ReadsOn
    <3>3. /\ scan'[s].open = r.open /\ scan'[s].table = r.table /\ scan'[s].cur = r.cur
          /\ scan'[s].on = r.on /\ scan'[s].slot = r.slot /\ scan'[s].markedPage = r.markedPage
      BY <1>2, <1>3, MovedFields DEF TableInv
    <3>4. ASSUME r.table \in SoundTables, r.open
          PROVE  CallOK(thread', s, scan'[s], Pages')
      <4>1. CallOK(thread', s, r, Pages) /\ ReadsAt(r, Pages)
        BY <3>4 DEF TurnReads
      <4>2. PICK k \in 1..Len(Chain(r.table)) : r.on = Chain(r.table)[k]
        BY <4>1 DEF ReadsAt, Reading, Placed, Chain
      <4>3. Whole(Pages, numPages, r.table, Chain(r.table)) /\ r.table \notin BadRows
        BY <3>4 DEF TableInv, ChainsOK, SoundTables
      <4>4. r.on \in PageIds /\ Pages[r.on].name \notin BadRows
        <5>1. r.on \in PageIds
          BY <4>2, <4>3, WholeParts
        <5>2. Pages[r.on].name = r.table
          BY <4>2, <4>3 DEF Whole
        <5>3. QED
          BY <4>3, <5>1, <5>2
      <4>5. Pages'[r.on].next = Pages[r.on].next /\ Pages'[r.on].slots = Pages[r.on].slots
        BY <1>2, <4>4 DEF Like
      <4>6. QED
        BY <3>3, <4>1, <4>5 DEF CallOK
    <3>5. QED
      BY <2>1, <3>2, <3>3, <3>4
  <2>2. CASE u # s
    <3>1. scan[u] \in ScanState /\ (scan[u].live => scan[u].on \in PageIds)
      BY ScanTyped
    <3>2. Moved(scan'[u], scan[u])
      BY <1>3, <2>2
    <3>3. scan[u].table \in SoundTables => EndOK(scan[u]) /\ (scan[u].open => ReadsAt(scan[u], Pages))
      BY DEF ScanInv
    <3>4. scan'[u].table \in SoundTables => EndOK(scan'[u]) /\ (scan'[u].open => ReadsAt(scan'[u], Pages'))
      BY <1>1, <3>1, <3>2, <3>3, ReadsOn
    <3>5. thread' # Advancing(u) /\ thread' # Resetting(u)
      <4>1. thread'.call = "none" \/ thread' = Advancing(s) \/ thread' = Resetting(s)
        BY <1>2, CallsAre DEF ScanThread
      <4>2. \A a, b : Advancing(a).call = "has_next" /\ Resetting(b).call = "reset"
                      /\ Advancing(a).who = a /\ Resetting(b).who = b
        BY DEF Advancing, Resetting
      <4>3. QED
        BY <2>2, <4>1, <4>2
    <3>6. CallOK(thread', u, scan'[u], Pages')
      BY <3>5 DEF CallOK
    <3>7. QED
      BY <3>4, <3>6
  <2>3. QED
    BY <2>1, <2>2
<1>5. QED
  BY <1>4 DEF ScanInv, SoundTables

------------------------------------------------------------------------------
(* The calls of an iterator *)

\* Iterators that read the same.
SameReader(r, sc) ==
  /\ r.table = sc.table /\ r.on = sc.on /\ r.live = sc.live /\ r.bytes = sc.bytes
  /\ r.slot = sc.slot /\ r.seen = sc.seen /\ r.due = sc.due
  /\ r.markedPage = sc.markedPage /\ r.markedSlot = sc.markedSlot /\ r.markedSeen = sc.markedSeen

\* They do.
LEMMA SameReads ==
  ASSUME NEW r, NEW sc, SameReader(r, sc), NEW pg, ReadsAt(sc, pg)
  PROVE  ReadsAt(r, pg)
BY DEF SameReader, ReadsAt, Reading, ViewOf, Placed, MarkedAt

\* What is known of an open iterator of a sound table.
LEMMA ReaderPlace ==
  ASSUME TableInv, NEW sc, sc.table \in SoundTables, ReadsAt(sc, Pages)
  PROVE  /\ \E k \in 1..Len(Chain(sc.table)) : Placed(sc, ViewOf(sc, Pages), Pages, Chain(sc.table), k)
         /\ \E m \in 1..Len(Chain(sc.table)) : MarkedAt(sc, Pages, Chain(sc.table), m)
         /\ sc.due <= Len(Stored(sc.table))
         /\ Whole(Pages, numPages, sc.table, Chain(sc.table)) /\ sc.table \in Tables
         /\ Chain(sc.table) \in Seq(PageIds) /\ Pages \in [PageIds -> PageContents]
<1>1. sc.table \in Tables
  BY DEF SoundTables
<1>2. Whole(Pages, numPages, sc.table, Chain(sc.table))
  BY <1>1 DEF TableInv, ChainsOK
<1>3. Chain(sc.table) \in Seq(PageIds)
  BY <1>2, WholeParts
<1>4. Pages \in [PageIds -> PageContents]
  BY PagesTyped DEF TableInv
<1>5. QED
  BY <1>1, <1>2, <1>3, <1>4 DEF ReadsAt, Reading, Chain, Stored

\* And back.
LEMMA ReadsFrom ==
  ASSUME NEW r, NEW t, r.table = t,
         NEW k \in 1..Len(Chain(t)), Placed(r, ViewOf(r, Pages), Pages, Chain(t), k),
         NEW m \in 1..Len(Chain(t)), MarkedAt(r, Pages, Chain(t), m),
         r.due <= Len(Stored(t))
  PROVE  ReadsAt(r, Pages)
BY DEF ReadsAt, Reading, Chain, Stored

\* An iterator that has just fetched the k-th page.
LEMMA FreshPlaced ==
  ASSUME TableInv, NEW t \in SoundTables, NEW k \in 1..Len(Chain(t)),
         NEW r \in ScanState, r.live = TRUE, r.on = Chain(t)[k],
         r.slot <= Len(Pages[Chain(t)[k]].slots),
         r.seen = RowsBefore(Pages, Chain(t), k) + r.slot,
         r.due <= Len(Stored(t))
  PROVE  Placed(r, ViewOf(r, Pages), Pages, Chain(t), k)
<1> DEFINE C == Chain(t)
           pg == Pages
           b == RowsBefore(pg, C, k)
           x == pg[C[k]]
<1>1. Whole(pg, numPages, t, C) /\ pg \in [PageIds -> PageContents]
  BY PagesTyped DEF TableInv, ChainsOK, SoundTables
<1>2. C \in Seq(PageIds) /\ Len(Stored(t)) = Len(RowsOn(pg)[C])
  BY <1>1, WholeParts DEF Stored
<1>3. ViewOf(r, Pages) = x
  BY DEF ViewOf
<1>4. x.next = NoLink => k = Len(C)
  BY <1>1, WholeParts
<1>5. k = Len(C) => Len(Stored(t)) = b + Len(x.slots)
  BY <1>1, <1>2, RowsPlace
<1>6. Len(x.slots) \in Nat
  BY <1>1, <1>2, RowsPlace
<1>7. r.on = C[k] /\ r.slot <= Len(x.slots) /\ r.seen = b + r.slot
  OBVIOUS
<1>8. x.next = NoLink => r.due <= b + Len(x.slots)
  BY <1>4, <1>5
<1>9. Len(x.slots) <= Len(x.slots)
  BY <1>6
<1> HIDE DEF b
<1>10. Placed(r, x, pg, C, k)
  BY <1>7, <1>8, <1>9 DEF Placed, b
<1>11. QED
  BY <1>3, <1>10

\* __init__
LEMMA OpenScanReads ==
  ASSUME TableInv, ScanInv, NEW s \in Scans, NEW t \in Tables, OpenScan(s, t)
  PROVE  TurnReads(s, Opened(t))
<1> DEFINE r == Opened(t)
           C == Chain(t)
<1>1. /\ r \in ScanState /\ r.table = t /\ r.on = FirstPage[t] /\ r.live = TRUE
      /\ r.slot = 0 /\ r.seen = 0 /\ r.markedPage = FirstPage[t] /\ r.markedSlot = 0 /\ r.markedSeen = 0
      /\ r.due = Len(Stored(t)) /\ r.ended = FALSE
  BY OpenedFields
<1>2. 1 \in 1..Len(C) /\ C[1] = FirstPage[t] /\ Len(Stored(t)) \in Nat /\ C \in Seq(PageIds)
  BY FirstPlace
<1>3. RowsBefore(Pages, C, 1) = 0 /\ Len(Pages[C[1]].slots) \in Nat
  <2>1. Pages \in [PageIds -> PageContents]
    BY PagesTyped DEF TableInv
  <2>2. QED
    BY <1>2, <2>1, RowsPlace
<1>4. thread' # Advancing(s) /\ thread' # Resetting(s)
  BY OpenScanTurns, CallsAre
<1> HIDE DEF r
<1>5. ASSUME t \in SoundTables
      PROVE  ReadsAt(r, Pages)
  <2>1. MarkedAt(r, Pages, C, 1)
    BY <1>1, <1>2, <1>3 DEF MarkedAt
  <2>2. /\ r.slot <= Len(Pages[C[1]].slots) /\ r.seen = RowsBefore(Pages, C, 1) + r.slot
        /\ r.due <= Len(Stored(t)) /\ r.on = C[1]
    BY <1>1, <1>2, <1>3
  <2>3. Placed(r, ViewOf(r, Pages), Pages, C, 1)
    BY <1>1, <1>2, <1>5, <2>2, FreshPlaced
  <2>4. QED
    BY <1>1, <1>2, <2>1, <2>2, <2>3, ReadsFrom
<1>6. EndOK(r) /\ CallOK(thread', s, r, Pages)
  BY <1>1, <1>4 DEF EndOK, CallOK
<1>7. QED
  BY <1>1, <1>5, <1>6 DEF TurnReads, r

\* __next__
LEMMA ScanReturnsReads ==
  ASSUME TableInv, ScanInv, NEW s \in Scans, ScanReturns(s)
  PROVE  TurnReads(s, Returned(scan[s]))
<1> DEFINE sc == scan[s]
           r == Returned(sc)
           t == sc.table
           C == Chain(t)
           v == ViewOf(sc, Pages)
<1>1. sc \in ScanState /\ View(s) = v /\ v \in PageContents
  BY ViewTyped DEF ViewOf
<1>2. sc.open /\ sc.slot < Len(v.slots)
  BY <1>1 DEF ScanReturns
<1>3. /\ r.table = sc.table /\ r.on = sc.on /\ r.live = sc.live
      /\ r.bytes = sc.bytes /\ r.slot = sc.slot + 1 /\ r.seen = sc.seen + 1
      /\ r.markedPage = sc.markedPage /\ r.markedSlot = sc.markedSlot
      /\ r.markedSeen = sc.markedSeen /\ r.due = sc.due /\ r.ended = FALSE
  BY <1>1, ReturnedFields
<1>4. thread' # Advancing(s) /\ thread' # Resetting(s)
  BY ScanReturnsTurns, CallsAre
<1>5. EndOK(r) /\ CallOK(thread', s, r, Pages)
  BY <1>3, <1>4 DEF EndOK, CallOK
<1> HIDE DEF r
<1>6. ASSUME t \in SoundTables
      PROVE  ReadsAt(r, Pages)
  <2>1. ReadsAt(sc, Pages)
    BY <1>2, <1>6 DEF ScanInv
  <2>2. PICK k \in 1..Len(C) : Placed(sc, v, Pages, C, k)
    BY <1>6, <2>1, ReaderPlace
  <2>3. PICK m \in 1..Len(C) : MarkedAt(sc, Pages, C, m)
    BY <1>6, <2>1, ReaderPlace
  <2>4. /\ sc.due <= Len(Stored(t)) /\ C \in Seq(PageIds) /\ Pages \in [PageIds -> PageContents]
    BY <1>6, <2>1, ReaderPlace
  <2>5. RowsBefore(Pages, C, k) \in Nat /\ Len(v.slots) \in Nat /\ sc.slot \in Nat
    <3>1. RowsBefore(Pages, C, k) \in Nat
      BY <2>4, RowsPlace
    <3>2. Len(v.slots) \in Nat
      BY <1>1, SeqElements DEF PageContents
    <3>3. QED
      BY <1>1, <3>1, <3>2 DEF ScanState
  <2>6. ViewOf(r, Pages) = v
    BY <1>3 DEF ViewOf
  <2> HIDE DEF v, sc, t, C
  <2>7. r.slot <= Len(v.slots) /\ r.seen = RowsBefore(Pages, C, k) + r.slot
    BY <1>2, <1>3, <2>2, <2>5 DEF Placed
  <2>8. Placed(r, v, Pages, C, k)
    BY <1>3, <2>2, <2>7 DEF Placed
  <2>9. MarkedAt(r, Pages, C, m)
    BY <1>3, <2>3 DEF MarkedAt
  <2>10. QED
    BY <1>3, <2>4, <2>6, <2>8, <2>9, ReadsFrom DEF C, t
<1>7. QED
  BY <1>3, <1>5, <1>6 DEF TurnReads, r

\* An iterator of which the call changed nothing that says where it reads.
LEMMA StaysReads ==
  ASSUME TableInv, ScanInv, NEW s \in Scans, NEW r, SameReader(r, scan[s]),
         r.open => scan[s].open, EndOK(r), CallOK(thread', s, r, Pages)
  PROVE  TurnReads(s, r)
<1>1. ASSUME r.table \in SoundTables, r.open
      PROVE  ReadsAt(r, Pages)
  <2>1. scan[s].table \in SoundTables /\ scan[s].open
    BY <1>1 DEF SameReader
  <2>2. ReadsAt(scan[s], Pages)
    BY <2>1 DEF ScanInv
  <2>3. QED
    BY <2>2, SameReads
<1>2. QED
  BY <1>1 DEF TurnReads

\* An iterator that had ended rightly still has.
LEMMA EndStays ==
  ASSUME ScanInv, NEW s \in Scans, NEW r, r.table = scan[s].table, scan[s].table \in SoundTables,
         r.ended = scan[s].ended, r.failed = scan[s].failed, r.seen = scan[s].seen, r.due = scan[s].due
  PROVE  EndOK(r)
BY DEF ScanInv, EndOK

\* has_next on an exhausted page: all its rows were returned.
LEMMA PageDone ==
  ASSUME TableInv, ScanInv, NEW s \in Scans, ScanLeavesPage(s), scan[s].table \in SoundTables
  PROVE  /\ scan[s].open
         /\ View(s).next = NoLink => scan[s].due <= scan[s].seen
         /\ View(s).next # NoLink =>
              View(s).next = Pages[scan[s].on].next /\ scan[s].slot = Len(Pages[scan[s].on].slots)
<1> DEFINE sc == scan[s]
           C == Chain(sc.table)
           v == ViewOf(sc, Pages)
<1>1. sc \in ScanState /\ View(s) = v /\ v \in PageContents
  BY ViewTyped DEF ViewOf
<1>2. sc.open /\ sc.slot >= Len(v.slots)
  BY <1>1 DEF ScanLeavesPage
<1>3. ReadsAt(sc, Pages)
  BY <1>2 DEF ScanInv
<1>4. PICK k \in 1..Len(C) : Placed(sc, v, Pages, C, k)
  BY <1>3, ReaderPlace
<1>5. C \in Seq(PageIds) /\ Pages \in [PageIds -> PageContents]
  BY <1>3, ReaderPlace
<1>6. RowsBefore(Pages, C, k) \in Nat
  BY <1>5, RowsPlace
<1>7. Len(v.slots) \in Nat /\ sc.slot \in Nat
  <2>1. Len(v.slots) \in Nat
    BY <1>1, SeqElements DEF PageContents
  <2>2. QED
    BY <1>1, <2>1 DEF ScanState
<1>8. View(s).next = v.next
  BY <1>1
<1> HIDE DEF v, C
<1>9. sc.slot = Len(v.slots)
  BY <1>2, <1>4, <1>7 DEF Placed
<1>10. v.next = NoLink => sc.due <= sc.seen
  BY <1>4, <1>6, <1>7, <1>9 DEF Placed
<1>11. v.next # NoLink => v.next = Pages[sc.on].next /\ sc.slot = Len(Pages[sc.on].slots)
  <2>1. v.next # NoLink => v.next = Pages[C[k]].next /\ v.slots = Pages[C[k]].slots /\ sc.on = C[k]
    BY <1>4 DEF Placed
  <2>2. QED
    BY <1>9, <2>1
<1>12. QED
  BY <1>2, <1>8, <1>10, <1>11

\* The calls of an iterator tell one from the other.
LEMMA CallsDiffer ==
  ASSUME NEW s \in Scans
  PROVE  /\ Advancing(s) # Resetting(s)
         /\ Idle # Advancing(s) /\ Idle # Resetting(s)
<1>1. Advancing(s).call = "has_next" /\ Resetting(s).call = "reset" /\ Idle.call = "none"
  BY CallsAre
<1>2. QED
  BY <1>1

\* has_next gives the page back and goes on to the next ...
LEMMA ScanLeavesReads ==
  ASSUME TableInv, ScanInv, NEW s \in Scans, ScanLeavesPage(s), View(s).next # NoLink
  PROVE  TurnReads(s, Left(scan[s], View(s).next))
<1> DEFINE p == View(s).next
           r == Left(scan[s], p)
<1>1. scan[s] \in ScanState /\ p \in PageIds
  BY ViewTyped
<1>2. /\ r.open = scan[s].open /\ r.cur = p /\ r.on = scan[s].on /\ r.slot = scan[s].slot
      /\ r.table = scan[s].table /\ r.ended = scan[s].ended /\ r.failed = scan[s].failed
      /\ r.seen = scan[s].seen /\ r.due = scan[s].due
  BY <1>1, LeftFields
<1>3. SameReader(r, scan[s])
  BY <1>1, LeftFields DEF SameReader
<1>4. thread' = Advancing(s)
  BY ScanLeavesTurns
<1> HIDE DEF r
<1>5. ASSUME scan[s].table \in SoundTables
      PROVE  EndOK(r) /\ CallOK(thread', s, r, Pages)
  <2>1. EndOK(r)
    BY <1>2, <1>5, EndStays
  <2>2. p = Pages[scan[s].on].next /\ scan[s].slot = Len(Pages[scan[s].on].slots)
    BY <1>5, PageDone
  <2>3. thread' # Resetting(s)
    BY <1>4, CallsDiffer
  <2>4. CallOK(thread', s, r, Pages)
    BY <1>2, <2>2, <2>3 DEF CallOK
  <2>5. QED
    BY <2>1, <2>4
<1>6. QED
  <2>1. CASE scan[s].table \in SoundTables
    BY <1>2, <1>3, <1>5, <2>1, StaysReads DEF r
  <2>2. CASE scan[s].table \notin SoundTables
    BY <1>2, <2>2 DEF TurnReads, r
  <2>3. QED
    BY <2>1, <2>2

\* ... or finds that there is none.
LEMMA ScanEndsReads ==
  ASSUME TableInv, ScanInv, NEW s \in Scans, ScanLeavesPage(s), View(s).next = NoLink
  PROVE  TurnReads(s, Ended(scan[s]))
<1> DEFINE r == Ended(scan[s])
<1>1. scan[s] \in ScanState
  BY ViewTyped
<1>2. /\ r.open = scan[s].open /\ r.table = scan[s].table
      /\ r.seen = scan[s].seen /\ r.due = scan[s].due
  BY <1>1, EndedFields
<1>3. SameReader(r, scan[s])
  BY <1>1, EndedFields DEF SameReader
<1>4. thread' # Advancing(s) /\ thread' # Resetting(s)
  BY ScanEndsTurns, CallsDiffer
<1> HIDE DEF r
<1>5. CallOK(thread', s, r, Pages)
  BY <1>4 DEF CallOK
<1>6. CASE scan[s].table \in SoundTables
  <2>1. EndOK(r)
    BY <1>2, <1>6, PageDone DEF EndOK
  <2>2. QED
    BY <1>2, <1>3, <1>5, <2>1, StaysReads DEF r
<1>7. CASE scan[s].table \notin SoundTables
  BY <1>2, <1>7 DEF TurnReads, r
<1>8. QED
  BY <1>6, <1>7

\* The page it went on to is the next of its table.
LEMMA ScanFetchesReads ==
  ASSUME TableInv, ScanInv, NEW s \in Scans, ScanFetches(s)
  PROVE  TurnReads(s, Positioned(scan[s], scan[s].cur, 0))
<1> DEFINE sc == scan[s]
           r == Positioned(sc, sc.cur, 0)
           t == sc.table
           C == Chain(t)
<1>1. sc \in ScanState /\ sc.open /\ sc.cur \in PageIds
  BY ScanTyped, ScanFetchesTurn
<1>2. AtSlot(r, sc, sc.cur, 0)
  <2>1. 0 \in Nat
    OBVIOUS
  <2>2. QED
    BY <1>1, <2>1, PositionedFields
<1>3. thread = Advancing(s) /\ sc.on # sc.cur
  BY DEF ScanFetches
<1>4. thread' = thread \/ thread' = Idle
  BY ScanFetchesTurns
<1> HIDE DEF r
<1>5. r.ended = FALSE /\ r.on = r.cur /\ r.table = t /\ r \in ScanState /\ r.live = TRUE /\ r.slot = 0
      /\ r.on = sc.cur /\ r.seen = sc.seen /\ r.due = sc.due /\ r.markedPage = sc.markedPage
      /\ r.markedSlot = sc.markedSlot /\ r.markedSeen = sc.markedSeen
  BY <1>2 DEF AtSlot
<1>6. EndOK(r) /\ CallOK(thread', s, r, Pages)
  <2>1. thread' # Resetting(s)
    BY <1>3, <1>4, CallsDiffer
  <2>2. QED
    BY <1>5, <2>1 DEF EndOK, CallOK
<1>7. ASSUME t \in SoundTables
      PROVE  ReadsAt(r, Pages)
  <2>1. ReadsAt(sc, Pages) /\ CallOK(thread, s, sc, Pages)
    BY <1>1, <1>7 DEF ScanInv
  <2>2. PICK k \in 1..Len(C) : Placed(sc, ViewOf(sc, Pages), Pages, C, k)
    BY <1>7, <2>1, ReaderPlace
  <2>3. PICK m \in 1..Len(C) : MarkedAt(sc, Pages, C, m)
    BY <1>7, <2>1, ReaderPlace
  <2>4. /\ sc.due <= Len(Stored(t)) /\ Whole(Pages, numPages, t, C)
        /\ C \in Seq(PageIds) /\ Pages \in [PageIds -> PageContents]
    BY <1>7, <2>1, ReaderPlace
  <2>5. sc.cur = Pages[C[k]].next /\ sc.slot = Len(Pages[C[k]].slots)
        /\ sc.seen = RowsBefore(Pages, C, k) + sc.slot
    BY <1>3, <2>1, <2>2 DEF CallOK, Placed
  <2>6. Pages[C[k]].next # NoLink
    BY <1>1, <2>5, PageIdsAre DEF NoLink
  <2>7. k + 1 \in 1..Len(C) /\ sc.cur = C[k + 1]
    BY <2>4, <2>5, <2>6, WholeNext
  <2>8. RowsBefore(Pages, C, k + 1) = RowsBefore(Pages, C, k) + Len(Pages[C[k]].slots)
    BY <2>4, <2>7, RowsPlace
  <2>9. RowsBefore(Pages, C, k + 1) \in Nat /\ Len(Pages[C[k + 1]].slots) \in Nat
    BY <2>4, <2>7, RowsPlace
  <2>10. MarkedAt(r, Pages, C, m)
    BY <1>5, <2>3 DEF MarkedAt
  <2> DEFINE j == k + 1
  <2>11. j \in 1..Len(C) /\ r.on = C[j] /\ RowsBefore(Pages, C, j) \in Nat
         /\ Len(Pages[C[j]].slots) \in Nat /\ sc.seen = RowsBefore(Pages, C, j)
    BY <1>5, <2>5, <2>7, <2>8, <2>9
  <2> HIDE DEF j, sc, t, C
  <2>12. r.slot <= Len(Pages[C[j]].slots) /\ r.seen = RowsBefore(Pages, C, j) + r.slot
         /\ r.due <= Len(Stored(t))
    BY <1>5, <2>4, <2>11
  <2>13. Placed(r, ViewOf(r, Pages), Pages, C, j)
    BY <1>5, <1>7, <2>11, <2>12, FreshPlaced DEF C
  <2>14. QED
    BY <1>5, <2>10, <2>11, <2>12, <2>13, ReadsFrom DEF C
<1>8. QED
  BY <1>5, <1>6, <1>7 DEF TurnReads, r

\* A page that cannot be fetched ends has_next, and says so.
LEMMA ScanStopsReads ==
  ASSUME TableInv, ScanInv, NEW s \in Scans, ScanStopsShort(s)
  PROVE  TurnReads(s, Stopped(scan[s]))
<1> DEFINE r == Stopped(scan[s])
<1>1. scan[s] \in ScanState
  BY ViewTyped
<1>2. r.open = scan[s].open /\ r.failed = TRUE
  BY <1>1, StoppedFields
<1>3. SameReader(r, scan[s])
  BY <1>1, StoppedFields DEF SameReader
<1>4. thread' # Advancing(s) /\ thread' # Resetting(s)
  BY ScanStopsTurns, CallsDiffer
<1> HIDE DEF r
<1>5. CallOK(thread', s, r, Pages) /\ EndOK(r)
  BY <1>2, <1>4 DEF CallOK, EndOK
<1>6. QED
  BY <1>2, <1>3, <1>5, StaysReads DEF r

\* mark, on the page of the iterator
LEMMA MarkScanReads ==
  ASSUME TableInv, ScanInv, Marks # "anywhere", NEW s \in Scans, MarkScan(s)
  PROVE  TurnReads(s, Marked(scan[s]))
<1> DEFINE sc == scan[s]
           r == Marked(sc)
           t == sc.table
           C == Chain(t)
<1>1. sc \in ScanState
  BY ViewTyped
<1>2. sc.open /\ sc.iter /\ sc.on = sc.cur
  BY DEF MarkScan
<1>3. /\ r.open = sc.open /\ r.table = t /\ r.on = sc.on /\ r.live = sc.live
      /\ r.bytes = sc.bytes /\ r.slot = sc.slot /\ r.ended = sc.ended /\ r.failed = sc.failed
      /\ r.markedPage = sc.cur /\ r.markedSlot = sc.slot
      /\ r.seen = sc.seen /\ r.markedSeen = sc.seen /\ r.due = sc.due
  BY <1>1, <1>2, MarkedFields
<1>4. thread' # Advancing(s) /\ thread' # Resetting(s)
  BY MarkScanTurns, CallsAre
<1> HIDE DEF r
<1>5. CallOK(thread', s, r, Pages)
  BY <1>4 DEF CallOK
<1>6. ASSUME t \in SoundTables
      PROVE  EndOK(r) /\ ReadsAt(r, Pages)
  <2>1. ReadsAt(sc, Pages) /\ EndOK(r)
    BY <1>2, <1>3, <1>6, EndStays DEF ScanInv
  <2>2. PICK k \in 1..Len(C) : Placed(sc, ViewOf(sc, Pages), Pages, C, k)
    BY <1>6, <2>1, ReaderPlace
  <2>3. sc.due <= Len(Stored(t)) /\ C \in Seq(PageIds) /\ Pages \in [PageIds -> PageContents]
    BY <1>6, <2>1, ReaderPlace
  <2>4. ViewOf(r, Pages) = ViewOf(sc, Pages)
    BY <1>3 DEF ViewOf
  <2> DEFINE v == ViewOf(sc, Pages)
  <2>5. Len(v.slots) \in Nat /\ sc.slot \in Nat /\ Len(Pages[C[k]].slots) \in Nat
    <3>1. View(s) = v /\ v \in PageContents
      BY ViewTyped DEF ViewOf
    <3>2. Len(v.slots) \in Nat
      BY <3>1, SeqElements DEF PageContents
    <3>3. Len(Pages[C[k]].slots) \in Nat
      BY <2>3, RowsPlace
    <3>4. QED
      BY <1>1, <3>2, <3>3 DEF ScanState
  <2> HIDE DEF v, sc, t, C
  <2>6. sc.slot <= Len(Pages[C[k]].slots)
    BY <2>2, <2>5 DEF Placed, v
  <2>7. MarkedAt(r, Pages, C, k)
    BY <1>2, <1>3, <2>2, <2>6 DEF MarkedAt, Placed
  <2>8. Placed(r, v, Pages, C, k)
    BY <1>3, <2>2 DEF Placed, v
  <2>9. QED
    BY <1>3, <2>1, <2>3, <2>4, <2>7, <2>8, ReadsFrom DEF C, t, v
<1>7. QED
  BY <1>3, <1>5, <1>6 DEF TurnReads, r

\* reset gives the page back and turns to that of the mark ...
LEMMA ResetLeavesReads ==
  ASSUME TableInv, ScanInv, NEW s \in Scans, ResetLeavesPage(s)
  PROVE  TurnReads(s, Left(scan[s], scan[s].markedPage))
<1> DEFINE p == scan[s].markedPage
           r == Left(scan[s], p)
<1>1. scan[s] \in ScanState /\ scan[s].open /\ p \in PageIds
  BY ScanTyped, ResetLeavesTurns
<1>2. /\ r.open = scan[s].open /\ r.cur = p /\ r.markedPage = p
      /\ r.table = scan[s].table /\ r.ended = scan[s].ended /\ r.failed = scan[s].failed
      /\ r.seen = scan[s].seen /\ r.due = scan[s].due
  BY <1>1, LeftFields
<1>3. SameReader(r, scan[s])
  BY <1>1, LeftFields DEF SameReader
<1>4. thread' # Advancing(s)
  BY ResetLeavesTurns, CallsDiffer
<1> HIDE DEF r
<1>5. CallOK(thread', s, r, Pages)
  BY <1>2, <1>4 DEF CallOK
<1>6. CASE scan[s].table \in SoundTables
  <2>1. EndOK(r)
    BY <1>2, <1>6, EndStays
  <2>2. QED
    BY <1>2, <1>3, <1>5, <2>1, StaysReads DEF r
<1>7. CASE scan[s].table \notin SoundTables
  BY <1>2, <1>7 DEF TurnReads, r
<1>8. QED
  BY <1>6, <1>7

\* ... fetches it ...
LEMMA ResetFetchesReads ==
  ASSUME TableInv, ScanInv, NEW s \in Scans, ResetFetches(s)
  PROVE  TurnReads(s, Restored(scan[s]))
<1> DEFINE sc == scan[s]
           r == Restored(sc)
           t == sc.table
           C == Chain(t)
<1>1. sc \in ScanState /\ sc.open /\ sc.cur \in PageIds
  BY ScanTyped, ResetFetchesTurn
<1>2. /\ r \in ScanState /\ r.table = t /\ r.on = sc.cur /\ r.live = TRUE
      /\ r.slot = sc.markedSlot /\ r.seen = sc.markedSeen
      /\ r.markedPage = sc.markedPage /\ r.markedSlot = sc.markedSlot
      /\ r.markedSeen = sc.markedSeen /\ r.due = sc.due /\ r.ended = FALSE
  BY <1>1, RestoredFields
<1>3. thread = Resetting(s) /\ thread' = Idle
  BY ResetFetchesTurns
<1> HIDE DEF r
<1>4. EndOK(r) /\ CallOK(thread', s, r, Pages)
  BY <1>2, <1>3, CallsDiffer DEF EndOK, CallOK
<1>5. ASSUME t \in SoundTables
      PROVE  ReadsAt(r, Pages)
  <2>1. ReadsAt(sc, Pages) /\ CallOK(thread, s, sc, Pages)
    BY <1>1, <1>5 DEF ScanInv
  <2>2. PICK m \in 1..Len(C) : MarkedAt(sc, Pages, C, m)
    BY <1>5, <2>1, ReaderPlace
  <2>3. sc.due <= Len(Stored(t))
    BY <1>5, <2>1, ReaderPlace
  <2>4. sc.cur = sc.markedPage
    BY <1>3, <2>1 DEF CallOK
  <2> HIDE DEF sc, t, C
  <2>5. MarkedAt(r, Pages, C, m)
    BY <1>2, <2>2 DEF MarkedAt
  <2>6. /\ r.on = C[m] /\ r.slot <= Len(Pages[C[m]].slots)
        /\ r.seen = RowsBefore(Pages, C, m) + r.slot /\ r.due <= Len(Stored(t))
    BY <1>2, <2>2, <2>3, <2>4 DEF MarkedAt
  <2>7. Placed(r, ViewOf(r, Pages), Pages, C, m)
    BY <1>2, <1>5, <2>6, FreshPlaced DEF C
  <2>8. QED
    BY <1>2, <2>5, <2>6, <2>7, ReadsFrom DEF C
<1>6. QED
  BY <1>2, <1>4, <1>5 DEF TurnReads, r

\* ... or cannot.
LEMMA ResetFailsReads ==
  ASSUME TableInv, ScanInv, NEW s \in Scans, ResetFails(s)
  PROVE  TurnReads(s, Stranded(scan[s]))
<1> DEFINE r == Stranded(scan[s])
<1>1. scan[s] \in ScanState
  BY ViewTyped
<1>2. r.open = scan[s].open /\ r.failed = TRUE
  BY <1>1, StrandedFields
<1>3. SameReader(r, scan[s])
  BY <1>1, StrandedFields DEF SameReader
<1>4. thread' # Advancing(s) /\ thread' # Resetting(s)
  BY ResetFailsTurns, CallsDiffer
<1> HIDE DEF r
<1>5. CallOK(thread', s, r, Pages) /\ EndOK(r)
  BY <1>2, <1>4 DEF CallOK, EndOK
<1>6. QED
  BY <1>2, <1>3, <1>5, StaysReads DEF r

\* close
LEMMA CloseScanReads ==
  ASSUME TableInv, NEW s \in Scans, CloseScan(s)
  PROVE  TurnReads(s, ClosedScan(scan[s].table))
<1>1. scan[s].table \in Tables
  BY CloseScanTurn
<1>2. ClosedScan(scan[s].table).open = FALSE /\ ClosedScan(scan[s].table).ended = FALSE
  BY <1>1, ClosedFields
<1>3. QED
  BY <1>2 DEF TurnReads, EndOK

\* Every call of an iterator.
LEMMA ScanCallReads ==
  ASSUME TableInv, ScanInv, Marks # "anywhere", NEW s \in Scans, ScanCalls(s)
  PROVE  ScanInv'
<1>1. CASE \E t \in Tables : OpenScan(s, t)
  BY <1>1, OpenScanReads, OpenScanTurn, ScanReads
<1>2. CASE ScanReturns(s)
  BY <1>2, ScanReturnsReads, ScanReturnsTurn, ScanReads
<1>3. CASE ScanLeavesPage(s) /\ View(s).next # NoLink
  BY <1>3, ScanLeavesReads, ScanLeavesTurn, ScanReads
<1>4. CASE ScanLeavesPage(s) /\ View(s).next = NoLink
  BY <1>4, ScanEndsReads, ScanEndsTurn, ScanReads
<1>5. CASE ScanFetches(s)
  BY <1>5, ScanFetchesReads, ScanFetchesTurn, ScanReads
<1>6. CASE ScanStopsShort(s)
  BY <1>6, ScanStopsReads, ScanStopsTurn, ScanReads
<1>7. CASE MarkScan(s)
  BY <1>7, MarkScanReads, MarkScanTurn, ScanReads
<1>8. CASE ResetLeavesPage(s)
  BY <1>8, ResetLeavesReads, ResetLeavesTurn, ScanReads
<1>9. CASE ResetFetches(s)
  BY <1>9, ResetFetchesReads, ResetFetchesTurn, ScanReads
<1>10. CASE ResetFails(s)
  BY <1>10, ResetFailsReads, ResetFailsTurn, ScanReads
<1>11. CASE CloseScan(s)
  BY <1>11, CloseScanReads, CloseScanTurn, ScanReads
<1>12. QED
  BY <1>1, <1>2, <1>3, <1>4, <1>5, <1>6, <1>7, <1>8, <1>9, <1>10, <1>11 DEF ScanCalls

------------------------------------------------------------------------------
(* The other calls *)

\* A running insert is not a call of an iterator.
LEMMA NotScanning ==
  ASSUME NEW th, th.call \in {"none", "insert"}, NEW s \in Scans
  PROVE  th # Advancing(s) /\ th # Resetting(s)
<1>1. Advancing(s).call = "has_next" /\ Resetting(s).call = "reset"
  BY CallsAre
<1>2. QED
  BY <1>1

\* What insert leaves the iterators and the running call.
LEMMA InsertLeaves ==
  ASSUME TableInv, NEW k \in Inserters, CallInsert(k) \/ InsertStep(k)
  PROVE  Moves(scan) /\ thread'.call \in {"none", "insert"}
<1>1. scan' = Detached(scan) \/ scan' = scan
  BY DEF CallInsert, InsertStep, InsertStores, InsertBreaks, InsertMovesOn, InsertAllocates,
         InsertInitialises, InsertLinks, InsertAborts
<1>2. \A step, new : Inserting(k, step, new).call = "insert"
  BY DEF Inserting
<1>3. Idle.call = "none" /\ Raised(k).call = "none"
  BY CallsAre
<1>4. \/ thread' = Idle \/ thread' = Raised(k)
      \/ thread' = thread /\ thread.call = "insert"
      \/ \E step, new : thread' = Inserting(k, step, new)
  <2>1. CASE CallInsert(k)
    BY <2>1 DEF CallInsert
  <2>2. CASE InsertStores(k) \/ InsertBreaks(k) \/ InsertAborts(k)
    BY <2>2 DEF InsertStores, InsertBreaks, InsertAborts
  <2>3. CASE InsertAllocates(k) \/ InsertInitialises(k) \/ InsertLinks(k)
    BY <2>3 DEF InsertAllocates, InsertInitialises, InsertLinks
  <2>4. CASE InsertMovesOn(k)
    BY <2>4 DEF InsertMovesOn, InInsert
  <2>5. QED
    BY <2>1, <2>2, <2>3, <2>4 DEF InsertStep
<1>5. thread'.call \in {"none", "insert"}
  BY <1>2, <1>3, <1>4
<1>6. QED
  BY <1>1, <1>5, InsertMoves

\* insert
LEMMA InsertStepReads ==
  ASSUME TableInv, ScanInv, NEW k \in Inserters, CallInsert(k) \/ InsertStep(k)
  PROVE  ScanInv'
<1>1. TableInv' /\ Growing /\ RowsGrow
  <2>1. CASE InsertStores(k)
    <3>1. TableInv' /\ RowsGain(TableOf[k], [row |-> lastRow]) /\ Growing
      BY <2>1, InsertStoresKeeps
    <3>2. [row |-> lastRow] \in Records
      BY DEF TableInv, Records, Row
    <3>3. QED
      BY <3>1, <3>2, RowsGainGrow
  <2>2. CASE CallInsert(k) \/ InsertBreaks(k) \/ InsertMovesOn(k) \/ InsertAllocates(k)
    BY <2>2, CallInsertKeeps, InsertBreaksKeeps, InsertMovesOnKeeps, InsertAllocatesKeeps, RowsStayGrow
  <2>3. CASE InsertInitialises(k) \/ InsertLinks(k) \/ InsertAborts(k)
    BY <2>3, InsertInitialisesKeeps, InsertLinksKeeps, InsertAbortsKeeps, RowsStayGrow
  <2>4. QED
    BY <2>1, <2>2, <2>3 DEF InsertStep
<1>2. Moves(scan) /\ \A s \in Scans : thread' # Advancing(s) /\ thread' # Resetting(s)
  BY InsertLeaves, NotScanning
<1>3. QED
  BY <1>1, <1>2, InsertReads

\* flush_dirty
LEMMA FlushReads ==
  ASSUME TableInv, ScanInv, CallerFlushes
  PROVE  ScanInv'
<1>1. TableInv' /\ Growing /\ RowsGrow
  BY CallerFlushesKeeps, RowsStayGrow
<1>2. scan' = scan /\ thread' = thread /\ thread.call = "none"
  BY DEF CallerFlushes, NoCall
<1>3. Moves(scan) /\ \A s \in Scans : thread' # Advancing(s) /\ thread' # Resetting(s)
  BY <1>2, InsertMoves, NotScanning
<1>4. QED
  BY <1>1, <1>3, InsertReads

\* No step at all.
LEMMA StutterReads ==
  ASSUME TableInv, ScanInv, UNCHANGED vars
  PROVE  ScanInv'
<1>1. Pages' = Pages
  <2>1. UNCHANGED pool /\ PoolOK
    BY DEF vars, pool, TableInv
  <2>2. QED
    BY <2>1, SamePool
<1>2. scan' = scan /\ thread' = thread
  BY DEF vars
<1>3. QED
  BY <1>1, <1>2 DEF ScanInv, SoundTables

\* Every step keeps the iterators where they should be.
LEMMA ScanInvKept ==
  ASSUME TableInv, ScanInv, Marks # "anywhere", [Next]_vars
  PROVE  ScanInv'
<1>1. CASE \E k \in Inserters : CallInsert(k) \/ InsertStep(k)
  BY <1>1, InsertStepReads
<1>2. CASE \E s \in Scans : ScanCalls(s)
  BY <1>2, ScanCallReads
<1>3. CASE CallerFlushes
  BY <1>3, FlushReads
<1>4. CASE UNCHANGED vars
  BY <1>4, StutterReads
<1>5. QED
  BY <1>1, <1>2, <1>3, <1>4 DEF Next, ScanCalls

\* At first there is no iterator.
LEMMA ScanInvHolds ==
  ASSUME Init
  PROVE  ScanInv
<1>1. PICK t \in Tables : scan = [s \in Scans |-> ClosedScan(t)]
  BY DEF Init
<1>2. ClosedScan(t).open = FALSE /\ ClosedScan(t).ended = FALSE
  BY ClosedFields
<1>3. QED
  BY <1>1, <1>2 DEF ScanInv, EndOK

------------------------------------------------------------------------------
(* What a scan returns *)

\* The iterators of sound tables are where they should be in every reachable
\* state, unless mark is called on a scan that has left its page.
THEOREM ScanInvariance ==
  ASSUME Marks # "anywhere"
  PROVE  Spec => [](TableInv /\ ScanInv)
<1>1. Init => TableInv /\ ScanInv
  BY TableInvHolds, ScanInvHolds
<1>2. TableInv /\ ScanInv /\ [Next]_vars => (TableInv /\ ScanInv)'
  BY TableInvKept, ScanInvKept
<1>3. QED
  BY <1>1, <1>2, PTL DEF Spec

\* The next record of the page is the next row of the table.
LEMMA NextRecord ==
  ASSUME TableInv, ScanInv, NEW s \in Scans, scan[s].open, scan[s].table \in SoundTables,
         scan[s].slot < Len(View(s).slots)
  PROVE  /\ scan[s].seen < Len(Stored(scan[s].table))
         /\ View(s).slots[scan[s].slot + 1] = Stored(scan[s].table)[scan[s].seen + 1]
<1> DEFINE sc == scan[s]
           t == sc.table
           C == Chain(t)
           v == ViewOf(sc, Pages)
           R == Stored(t)
           n == sc.slot + 1
<1>1. sc \in ScanState /\ View(s) = v /\ v \in PageContents
  BY ViewTyped DEF ViewOf
<1>2. ReadsAt(sc, Pages)
  BY DEF ScanInv
<1>3. PICK k \in 1..Len(C) : Placed(sc, v, Pages, C, k)
  BY <1>2, ReaderPlace
<1>4. C \in Seq(PageIds) /\ Pages \in [PageIds -> PageContents]
  BY <1>2, ReaderPlace
<1> DEFINE b == RowsBefore(Pages, C, k)
           x == Pages[C[k]].slots
<1>5. R = RowsOn(Pages)[C]
  BY DEF Stored
<1>6. b \in Nat /\ Len(x) \in Nat /\ b + Len(x) <= Len(RowsOn(Pages)[C])
  BY <1>4, RowsPlace
<1>7. \A y \in 1..Len(x) : RowsOn(Pages)[C][b + y] = x[y]
  BY <1>4, RowsPlace
<1>8. Len(v.slots) \in Nat /\ sc.slot \in Nat /\ Len(R) \in Nat
  <2>1. Len(v.slots) \in Nat
    BY <1>1, SeqElements DEF PageContents
  <2>2. Len(R) \in Nat
    BY FirstPlace DEF SoundTables
  <2>3. QED
    BY <1>1, <2>1, <2>2 DEF ScanState
<1>9. sc.slot < Len(v.slots) /\ View(s).slots[n] = v.slots[n]
  BY <1>1
<1>10. Len(v.slots) <= Len(x) /\ sc.seen = b + sc.slot /\ \A y \in 1..Len(v.slots) : v.slots[y] = x[y]
  BY <1>3 DEF Placed
<1>11. R = RowsOn(Pages)[C]
  BY <1>5
<1> HIDE DEF v, R, b, x, C
<1>12. b + Len(x) <= Len(R) /\ \A y \in 1..Len(x) : R[b + y] = x[y]
  BY <1>6, <1>7, <1>11
<1>13. n \in 1..Len(v.slots) /\ n \in 1..Len(x) /\ sc.seen + 1 = b + n /\ sc.seen < Len(R)
  <2> DEFINE i == sc.slot
             j == sc.seen
             lv == Len(v.slots)
             lx == Len(x)
             lr == Len(R)
  <2>1. /\ i \in Nat /\ lv \in Nat /\ lx \in Nat /\ lr \in Nat /\ b \in Nat
        /\ i < lv /\ lv <= lx /\ j = b + i /\ b + lx <= lr
    BY <1>6, <1>8, <1>9, <1>10, <1>12
  <2> HIDE DEF i, j, lv, lx, lr
  <2>2. i + 1 \in 1..lv /\ i + 1 \in 1..lx /\ j + 1 = b + (i + 1) /\ j < lr
    BY <2>1
  <2>3. QED
    BY <2>2 DEF i, j, lv, lx, lr
<1>14. v.slots[n] = R[sc.seen + 1]
  BY <1>10, <1>12, <1>13
<1>15. QED
  BY <1>9, <1>13, <1>14 DEF R

\* For any number of tables, inserters, scans and frames: unless mark is called
\* on a scan that has left its page, a scan of a table whose rows can be written
\* neither skips nor repeats a row, also when inserts extend the page under it
\* and when its frame is given to another page (data_file_iterator.py).
THEOREM ScansStayInPlace ==
  ASSUME Marks # "anywhere"
  PROVE  Spec => []ScanPosition
<1>1. TableInv /\ ScanInv => ScanPosition
  BY NextRecord DEF ScanPosition
<1>2. QED
  BY <1>1, ScanInvariance, PTL

\* For any number of tables, inserters, scans and frames: where every row can be
\* written, a scan of which no page failed to be fetched returns FALSE from
\* has_next only after every row the table had when the scan was opened
\* (data_file_iterator.py, has_next and _advance_to_next_page).
THEOREM ScansAreComplete ==
  ASSUME Marks # "anywhere", BadRows = {}
  PROVE  Spec => []ScanComplete
<1>1. TableInv /\ ScanInv => ScanComplete
  <2> SUFFICES ASSUME TableInv, ScanInv, NEW s \in Scans, scan[s].ended, ~scan[s].failed
               PROVE  scan[s].seen >= scan[s].due
    BY DEF ScanComplete
  <2>1. scan[s] \in ScanState
    BY ScanTyped
  <2>2. scan[s].table \in SoundTables /\ scan[s].seen \in Nat /\ scan[s].due \in Nat
    BY <2>1 DEF ScanState, SoundTables
  <2>3. scan[s].due <= scan[s].seen
    BY <2>2 DEF ScanInv, EndOK
  <2>4. QED
    BY <2>2, <2>3
<1>2. QED
  BY <1>1, ScanInvariance, PTL
==============================================================================
