---------------------------- MODULE DatabaseProofs ---------------------------
(***************************************************************************)
(* Deductive proofs about Database: while the process always closes what   *)
(* it opened, the catalog leads every name to a page of its own, and the   *)
(* files of different names and the temporary files share no page, at      *)
(* every step of their creation and growth and over every restart.  And    *)
(* also when it dies at any step, a row that was flushed is found again.   *)
(***************************************************************************)
EXTENDS Database, SeqLemmas, FiniteSetTheorems

------------------------------------------------------------------------------
(* Chains as paths *)

\* Where a walk from p goes after the first k pages of C.
After(pg, p, C, k) == IF k = 0 THEN p ELSE pg[C[k]].next

\* C is all that a walk from p meets.
IsChain(pg, len, p, C) ==
  /\ C \in Seq(PageIds) /\ Len(C) <= MaxPages
  /\ \A k \in 0..(Len(C) - 1) : After(pg, p, C, k) = C[k + 1] /\ C[k + 1] < len
  /\ After(pg, p, C, Len(C)) = NoLink \/ After(pg, p, C, Len(C)) >= len

\* ... and it ends without leaving the file.
IsPath(pg, len, p, C) ==
  /\ C \in Seq(PageIds) /\ Len(C) <= MaxPages
  /\ \A k \in 0..(Len(C) - 1) : After(pg, p, C, k) = C[k + 1] /\ C[k + 1] < len
  /\ After(pg, p, C, Len(C)) = NoLink

\* `longer` and `walk` of ChainIn.
Longer(pg, len, p) ==
  [c \in Seq(PageIds) |->
     LET next == IF c = <<>> THEN p ELSE pg[Last(c)].next
     IN  IF next = NoLink \/ next >= len THEN c ELSE Append(c, next)]

IsWalk(pg, len, p, f) ==
  f = [n \in 0..MaxPages |-> IF n = 0 THEN <<>> ELSE Longer(pg, len, p)[f[n - 1]]]

\* ChainIn in these words.
LEMMA ChainInIsWalk ==
  ASSUME NEW pg, NEW len, NEW p
  PROVE  ChainIn(pg, len, p) = (CHOOSE f : IsWalk(pg, len, p, f))[MaxPages]
BY DEF ChainIn, IsWalk, Longer

\* Page ids are natural numbers, and links.
LEMMA PageIdsAre == \A p \in PageIds : p \in Nat /\ p \in Links /\ p # NoLink /\ p < MaxPages
BY CapacityAssumption DEF PageIds, Links, NoLink

\* One more page of a chain.
LEMMA LongerOn ==
  ASSUME NEW pg, NEW len \in Nat, NEW p, NEW C, IsChain(pg, len, p, C), NEW k \in 0..Len(C)
  PROVE  Longer(pg, len, p)[SubSeq(C, 1, k)] = IF k < Len(C) THEN SubSeq(C, 1, k + 1) ELSE SubSeq(C, 1, k)
<1> DEFINE c == SubSeq(C, 1, k)
           next == IF c = <<>> THEN p ELSE pg[Last(c)].next
<1>1. C \in Seq(PageIds) /\ Len(C) \in Nat /\ \A i \in 1..Len(C) : C[i] \in PageIds
  BY SeqElements DEF IsChain
<1>2. c \in Seq(PageIds) /\ Len(c) = k /\ (k > 0 => c[k] = C[k])
  <2>1. CASE k = 0
    <3>1. c = <<>>
      BY <2>1
    <3>2. QED
      BY <2>1, <3>1, EmptySeq
  <2>2. CASE k > 0
    BY <1>1, <2>2, SeqPrefix, SeqElements
  <2>3. QED
    BY <2>1, <2>2
<1>3. next = After(pg, p, C, k)
  <2>1. CASE k = 0
    <3>1. c = <<>>
      BY <2>1
    <3>2. QED
      BY <2>1, <3>1 DEF After
  <2>2. CASE k > 0
    <3>1. c # <<>>
      BY <1>2, <2>2, EmptySeq
    <3>2. Last(c) = C[k]
      BY <1>2, <2>2 DEF Last
    <3>3. QED
      BY <2>2, <3>1, <3>2 DEF After
  <2>3. QED
    BY <2>1, <2>2
<1>4. Longer(pg, len, p)[c] = IF next = NoLink \/ next >= len THEN c ELSE Append(c, next)
  BY <1>2 DEF Longer
<1> HIDE DEF next
<1>5. CASE k < Len(C)
  <2>1. k \in 0..(Len(C) - 1) /\ k + 1 \in 1..Len(C)
    BY <1>1, <1>5
  <2>2. next = C[k + 1] /\ C[k + 1] < len
    BY <1>3, <2>1 DEF IsChain
  <2>3. next # NoLink /\ next \in PageIds /\ ~(next >= len)
    BY <1>1, <2>1, <2>2, PageIdsAre
  <2>4. Append(c, C[k + 1]) = SubSeq(C, 1, k + 1)
    <3>1. SubSeq(C, 1, k) = [i \in 1..k |-> C[i]] /\ SubSeq(C, 1, k + 1) = [i \in 1..(k + 1) |-> C[i]]
      BY <1>1, <1>5
    <3>2. Append(c, C[k + 1]) = [i \in 1..(k + 1) |-> IF i <= k THEN c[i] ELSE C[k + 1]]
      BY <1>2
    <3>3. QED
      BY <3>1, <3>2
  <2>5. QED
    BY <1>4, <1>5, <2>2, <2>3, <2>4
<1>6. CASE k = Len(C)
  BY <1>1, <1>3, <1>4, <1>6 DEF IsChain
<1>7. QED
  BY <1>1, <1>5, <1>6

\* The walk of ChainIn finds all of it.
LEMMA ChainIs ==
  ASSUME NEW pg, NEW len \in Nat, NEW p, NEW C, IsChain(pg, len, p, C)
  PROVE  ChainIn(pg, len, p) = C
<1>0. ASSUME NEW k \in 0..Len(C)
      PROVE  Longer(pg, len, p)[SubSeq(C, 1, k)] = IF k < Len(C) THEN SubSeq(C, 1, k + 1) ELSE SubSeq(C, 1, k)
  BY LongerOn
<1> DEFINE f == CHOOSE g : IsWalk(pg, len, p, g)
           w == [n \in 0..MaxPages |-> IF n < Len(C) THEN SubSeq(C, 1, n) ELSE SubSeq(C, 1, Len(C))]
           L == Longer(pg, len, p)
<1>1. C \in Seq(PageIds) /\ Len(C) \in Nat /\ Len(C) <= MaxPages /\ MaxPages \in Nat
  BY SeqElements, CapacityAssumption DEF IsChain
<1>2. SubSeq(C, 1, 0) = <<>> /\ SubSeq(C, 1, Len(C)) = C
  <2>1. SubSeq(C, 1, 0) = <<>>
    BY <1>1
  <2>2. SubSeq(C, 1, Len(C)) = [i \in 1..Len(C) |-> C[i]]
    BY <1>1
  <2>3. C = [i \in 1..Len(C) |-> C[i]]
    BY <1>1, SeqElements
  <2>4. QED
    BY <2>1, <2>2, <2>3
<1>3. IsWalk(pg, len, p, w)
  <2>1. ASSUME NEW n \in 0..MaxPages
        PROVE  w[n] = IF n = 0 THEN <<>> ELSE L[w[n - 1]]
    <3>1. CASE n = 0
      <4>1. w[n] = SubSeq(C, 1, 0)
        BY <1>1, <3>1
      <4>2. QED
        BY <1>2, <3>1, <4>1
    <3>2. CASE n # 0 /\ n <= Len(C)
      <4>1. w[n - 1] = SubSeq(C, 1, n - 1)
        <5>1. n - 1 \in 0..MaxPages /\ n - 1 < Len(C)
          BY <1>1, <3>2
        <5>2. QED
          BY <5>1
      <4>2. w[n] = SubSeq(C, 1, n)
        <5>1. ~(n < Len(C)) => n = Len(C)
          BY <1>1, <3>2
        <5>2. QED
          BY <5>1
      <4> DEFINE k == n - 1
      <4>3. k \in 0..Len(C) /\ k < Len(C) /\ k + 1 = n
        BY <1>1, <3>2
      <4> HIDE DEF w, L, k
      <4>4. L[SubSeq(C, 1, k)] = SubSeq(C, 1, k + 1)
        BY <1>0, <4>3 DEF L
      <4>5. QED
        BY <3>2, <4>1, <4>2, <4>3, <4>4 DEF k
    <3>3. CASE n > Len(C)
      <4>1. w[n - 1] = SubSeq(C, 1, Len(C)) /\ w[n] = SubSeq(C, 1, Len(C))
        <5>1. n - 1 \in 0..MaxPages /\ ~(n - 1 < Len(C)) /\ ~(n < Len(C))
          BY <1>1, <3>3
        <5>2. QED
          BY <5>1
      <4> DEFINE k == Len(C)
      <4>2. k \in 0..Len(C) /\ ~(k < Len(C)) /\ n # 0
        BY <1>1, <3>3
      <4> HIDE DEF w, L, k
      <4>3. L[SubSeq(C, 1, k)] = SubSeq(C, 1, k)
        BY <1>0, <4>2 DEF L
      <4>4. QED
        BY <4>1, <4>2, <4>3 DEF k
    <3>4. QED
      BY <1>1, <3>1, <3>2, <3>3
  <2> HIDE DEF w
  <2>2. DOMAIN w = 0..MaxPages /\ w = [n \in 0..MaxPages |-> w[n]]
    BY DEF w
  <2>3. QED
    BY <2>1, <2>2 DEF IsWalk
<1>4. IsWalk(pg, len, p, f)
  BY <1>3
<1> HIDE DEF f
<1>5. ASSUME NEW n \in 0..MaxPages
      PROVE  f[n] = w[n]
  <2> DEFINE T == {m \in 0..MaxPages : f[m] = w[m]}
  <2> HIDE DEF w
  <2>1. \A m \in 0..MaxPages : /\ f[m] = IF m = 0 THEN <<>> ELSE L[f[m - 1]]
                               /\ w[m] = IF m = 0 THEN <<>> ELSE L[w[m - 1]]
    BY <1>3, <1>4 DEF IsWalk
  <2>2. 0 \in T
    BY <1>1, <2>1
  <2>3. ASSUME NEW m \in 1..MaxPages, m - 1 \in T
        PROVE  m \in T
    BY <1>1, <2>1, <2>3
  <2> HIDE DEF T
  <2>4. 0..MaxPages \subseteq T
    BY <1>1, <2>2, <2>3, UpTo
  <2>5. QED
    BY <2>4 DEF T
<1>6. f[MaxPages] = C
  <2>1. MaxPages \in 0..MaxPages /\ ~(MaxPages < Len(C))
    BY <1>1
  <2>2. w[MaxPages] = SubSeq(C, 1, Len(C))
    BY <2>1
  <2>3. QED
    BY <1>2, <1>5, <2>1, <2>2
<1>7. QED
  BY <1>6, ChainInIsWalk DEF f

\* ... also when it ends in the file.
LEMMA PathIsChain ==
  ASSUME NEW pg, NEW len \in Nat, NEW p, NEW C, IsPath(pg, len, p, C)
  PROVE  ChainIn(pg, len, p) = C
<1>1. IsChain(pg, len, p, C)
  BY DEF IsPath, IsChain
<1>2. QED
  BY <1>1, ChainIs

\* One page before a path.
LEMMA PathFrom ==
  ASSUME NEW pg, NEW len \in Nat, NEW q \in PageIds, q < len, NEW C, IsPath(pg, len, pg[q].next, C),
         Len(C) < MaxPages
  PROVE  /\ IsPath(pg, len, q, <<q>> \o C) /\ Len(<<q>> \o C) = Len(C) + 1
         /\ (<<q>> \o C)[1] = q /\ \A i \in 1..Len(C) : (<<q>> \o C)[i + 1] = C[i]
<1> DEFINE D == <<q>> \o C
           n == Len(C)
<1>1. C \in Seq(PageIds) /\ n \in Nat /\ n < MaxPages /\ MaxPages \in Nat
  BY SeqElements, CapacityAssumption DEF IsPath
<1>2. /\ D \in Seq(PageIds) /\ Len(D) = n + 1
      /\ D[1] = q /\ \A i \in 1..n : D[i + 1] = C[i]
  <2>1. <<q>> \in Seq(PageIds) /\ Len(<<q>>) = 1 /\ <<q>>[1] = q
    OBVIOUS
  <2>2. /\ D \in Seq(PageIds) /\ Len(D) = 1 + n
        /\ \A i \in 1..(1 + n) : D[i] = IF i <= 1 THEN <<q>>[i] ELSE C[i - 1]
    BY <1>1, <2>1, ConcatProperties
  <2>3. \A i \in 1..n : i + 1 \in 1..(1 + n) /\ ~(i + 1 <= 1) /\ (i + 1) - 1 = i
    BY <1>1
  <2>4. 1 \in 1..(1 + n) /\ 1 + n = n + 1
    BY <1>1
  <2> HIDE DEF D
  <2>5. QED
    BY <2>1, <2>2, <2>3, <2>4
<1> HIDE DEF D
<1>3. ASSUME NEW k \in 0..n
      PROVE  After(pg, q, D, k + 1) = After(pg, pg[q].next, C, k)
  <2>1. CASE k = 0
    BY <1>2, <2>1 DEF After
  <2>2. CASE k > 0
    BY <1>1, <1>2, <2>2 DEF After
  <2>3. QED
    BY <1>1, <2>1, <2>2
<1>4. ASSUME NEW k \in 0..(Len(D) - 1)
      PROVE  After(pg, q, D, k) = D[k + 1] /\ D[k + 1] < len
  <2>1. CASE k = 0
    BY <1>2, <2>1 DEF After
  <2>2. CASE k > 0
    <3> DEFINE j == k - 1
    <3>1. j \in 0..n /\ j \in 0..(n - 1) /\ j + 1 = k /\ k \in 1..n
      BY <1>1, <1>2, <2>2
    <3> HIDE DEF j
    <3>2. After(pg, q, D, k) = After(pg, pg[q].next, C, j)
      BY <1>3, <3>1
    <3>3. After(pg, pg[q].next, C, j) = C[k] /\ C[k] < len
      BY <3>1 DEF IsPath
    <3>4. D[k + 1] = C[k]
      BY <1>2, <3>1
    <3>5. QED
      BY <3>2, <3>3, <3>4
  <2>3. QED
    BY <1>2, <2>1, <2>2
<1>5. After(pg, q, D, Len(D)) = NoLink
  BY <1>1, <1>2, <1>3 DEF IsPath
<1>6. Len(D) <= MaxPages
  BY <1>1, <1>2
<1>7. IsPath(pg, len, q, D)
  BY <1>2, <1>4, <1>5, <1>6 DEF IsPath
<1>8. QED
  BY <1>2, <1>7 DEF D

\* Pages of the file that lead on to later pages of the same set.
LeadsOn(pg, len, S) ==
  \A q \in S : /\ q \in PageIds /\ q < len
               /\ pg[q].next = NoLink \/ (pg[q].next \in S /\ pg[q].next > q)

\* A walk that only leads on ends, and stays in its set.
LEMMA PathExists ==
  ASSUME NEW pg, NEW len \in Nat, len <= MaxPages, NEW S, LeadsOn(pg, len, S), NEW p \in S
  PROVE  \E C : /\ IsPath(pg, len, p, C) /\ Len(C) \in 1..(len - p) /\ C[1] = p
                /\ \A i \in 1..Len(C) : C[i] \in S
<1> DEFINE OK(q, C) == /\ IsPath(pg, len, q, C) /\ Len(C) \in 1..(len - q) /\ C[1] = q
                       /\ \A i \in 1..Len(C) : C[i] \in S
           T == {k \in 0..len : \A q \in S : len - k <= q => \E C : OK(q, C)}
<1>1. \A q \in S : q \in PageIds /\ q \in Nat /\ q < len /\ q # NoLink
  BY PageIdsAre DEF LeadsOn
<1>2. 0 \in T
  BY <1>1
<1>3. ASSUME NEW k \in 1..len, k - 1 \in T
      PROVE  k \in T
  <2>1. ASSUME NEW q \in S, q = len - k
        PROVE  \E C : OK(q, C)
    <3>1. CASE pg[q].next = NoLink
      <4> DEFINE E == << >>
      <4>1. E \in Seq(PageIds) /\ Len(E) = 0 /\ MaxPages \in Nat /\ 0 < MaxPages
        BY CapacityAssumption
      <4> HIDE DEF E
      <4>2. IsPath(pg, len, pg[q].next, E)
        BY <3>1, <4>1 DEF IsPath, After
      <4> DEFINE D == <<q>> \o E
      <4>3. IsPath(pg, len, q, D) /\ Len(D) = 1 /\ D[1] = q
        <5>1. q \in PageIds /\ q < len /\ Len(E) < MaxPages
          BY <1>1, <4>1
        <5>2. IsPath(pg, len, q, <<q>> \o E) /\ Len(<<q>> \o E) = Len(E) + 1 /\ (<<q>> \o E)[1] = q
          BY <4>2, <5>1, PathFrom
        <5>3. QED
          BY <4>1, <5>2
      <4>4. Len(D) \in 1..(len - q)
        BY <1>1, <4>3
      <4> HIDE DEF D
      <4>5. OK(q, D)
        BY <4>3, <4>4
      <4>6. QED
        BY <4>5
    <3>2. CASE pg[q].next # NoLink
      <4> DEFINE r == pg[q].next
      <4>1. r \in S /\ r > q
        BY <3>2 DEF LeadsOn
      <4>2. len - (k - 1) <= r
        <5>1. r \in Nat /\ q \in Nat /\ r > q /\ q = len - k
          BY <1>1, <2>1, <4>1
        <5> HIDE DEF r
        <5>2. QED
          BY <5>1
      <4>3. PICK C : OK(r, C)
        BY <1>3, <4>1, <4>2
      <4>4. C \in Seq(PageIds) /\ Len(C) \in Nat /\ Len(C) < MaxPages /\ Len(C) + 1 \in 1..(len - q)
        <5>1. C \in Seq(PageIds) /\ Len(C) \in 1..(len - r)
          BY <4>3 DEF IsPath
        <5>2. r \in Nat /\ q \in Nat /\ r > q /\ MaxPages \in Nat
          BY <1>1, <4>1, CapacityAssumption
        <5> HIDE DEF r
        <5>3. QED
          BY <5>1, <5>2
      <4> DEFINE D == <<q>> \o C
      <4>5. /\ IsPath(pg, len, q, D) /\ Len(D) = Len(C) + 1
            /\ D[1] = q /\ \A i \in 1..Len(C) : D[i + 1] = C[i]
        BY <1>1, <4>3, <4>4, PathFrom
      <4>6. ASSUME NEW i \in 1..Len(D) PROVE D[i] \in S
        <5>1. CASE i = 1
          BY <4>5, <5>1
        <5>2. CASE i > 1
          <6> DEFINE j == i - 1
          <6>1. j \in 1..Len(C) /\ i = j + 1
            BY <4>4, <4>5, <5>2
          <6> HIDE DEF j, D, r
          <6>2. D[i] = C[j]
            BY <4>5, <6>1
          <6>3. QED
            BY <4>3, <6>1, <6>2
        <5>3. QED
          BY <4>4, <4>5, <5>1, <5>2
      <4> HIDE DEF D, r
      <4>7. OK(q, D)
        BY <4>4, <4>5, <4>6
      <4>8. QED
        BY <4>7
    <3>3. QED
      BY <3>1, <3>2
  <2>2. ASSUME NEW q \in S, len - k <= q
        PROVE  \E C : OK(q, C)
    <3>1. q = len - k \/ len - (k - 1) <= q
      BY <1>1, <2>2
    <3> HIDE DEF OK
    <3>2. QED
      BY <1>3, <2>1, <3>1
  <2>3. QED
    BY <2>2
<1> HIDE DEF T
<1>4. 0..len \subseteq T
  BY <1>2, <1>3, UpTo
<1>5. len \in T
  BY <1>4
<1>6. QED
  BY <1>1, <1>5 DEF T

\* The chain of such a walk.
LEMMA ChainLeadsOn ==
  ASSUME NEW pg, NEW len \in Nat, len <= MaxPages, NEW S, LeadsOn(pg, len, S), NEW p \in S
  PROVE  /\ IsPath(pg, len, p, ChainIn(pg, len, p))
         /\ Len(ChainIn(pg, len, p)) \in 1..(len - p) /\ ChainIn(pg, len, p)[1] = p
         /\ \A i \in 1..Len(ChainIn(pg, len, p)) : ChainIn(pg, len, p)[i] \in S
<1>1. PICK C : /\ IsPath(pg, len, p, C) /\ Len(C) \in 1..(len - p) /\ C[1] = p
               /\ \A i \in 1..Len(C) : C[i] \in S
  BY PathExists
<1>2. ChainIn(pg, len, p) = C
  BY <1>1, PathIsChain
<1>3. QED
  BY <1>1, <1>2

------------------------------------------------------------------------------
(* The inductive invariant, while nobody crashes *)

\* HeapFile.__init__ is running: its first page is allocated and still zero.
Opening == thread.step \in {"register", "flush", "initialise"}

\* Every page the file has is in use, at the latest when a call ends: what close
\* writes is what the next process counts.
StoreOK ==
  /\ fileLen <= numPages
  /\ \A p \in PageIds : p >= numPages => pages[p] = ZeroBytes /\ durable[p] = ZeroBytes
  /\ \A p \in PageIds : durable[p] # ZeroBytes => p < fileLen
  /\ \A p \in PageIds : p < numPages /\ pages[p].kind = "zero" => Opening /\ p = thread.first

DataIn(pg, len, p) == p \in PageIds /\ p < len /\ pg[p].kind = "data"
IsData(p) == DataIn(pages, numPages, p)

\* The first header page is all the search for an entry ever reads.  Each entry
\* leads to a page of its name, or to the zero page of the call that opens it.
HeaderOK(own) ==
  /\ pages[Header].kind = "header" /\ pages[Header].next = NoLink
  /\ \A i \in DOMAIN pages[Header].slots :
       LET e == pages[Header].slots[i]
       IN  /\ e \in Entry /\ e.first \in PageIds /\ e.first < numPages
           /\ own[e.first] = e.name
           /\ IsData(e.first) \/ (thread.step \in {"flush", "initialise"} /\ e.first = thread.first)

\* A link leads on in the file, to a page of the same file.
DataOK(own) ==
  \A p \in PageIds : IsData(p) =>
    \/ pages[p].next = NoLink
    \/ pages[p].next > p /\ IsData(pages[p].next) /\ own[pages[p].next] = own[p]

SameSchema(m, n) == m \in Names /\ n \in Names /\ SchemaOf[m] = SchemaOf[n]

\* A HeapFile in use begins with a page of its own, or of a name with its schema.
FilesOK(own) ==
  \A f \in Files : file[f] # NoLink =>
    /\ IsData(file[f])
    /\ f \in Temps => own[file[f]] = f
    /\ f \in Names => SameSchema(own[file[f]], f)

\* insert never needs a page that is not there: the bound of CallInsert is enough.
ThreadOK(own) ==
  /\ Opening =>
       /\ thread.first \in PageIds /\ thread.first < numPages
       /\ pages[thread.first] = ZeroBytes
       /\ own[thread.first] = thread.entry /\ SameSchema(thread.entry, thread.name)
  /\ thread.step = "register" => numPages < MaxPages
  /\ thread.step \in {"insert", "link"} => file[thread.name] # NoLink /\ lastRow # 0
  /\ thread.step = "insert" => (NoRoom => numPages < MaxPages)
  /\ thread.step = "link" =>
       /\ IsData(thread.last) /\ IsData(thread.new)
       /\ thread.last < thread.new /\ own[thread.new] = own[thread.last]
       /\ pages[thread.last].next = NoLink /\ pages[thread.new].next = NoLink
       /\ HasRoom(pages[thread.new])
       /\ InsertChain # <<>> /\ thread.last = Last(InsertChain)

\* own[p]: the name or the temporary file that page p was allocated for.
Owners == [PageIds -> Files \cup {NoName}]

DbInv ==
  /\ TypeOK
  /\ StoreOK
  /\ \E own \in Owners : HeaderOK(own) /\ DataOK(own) /\ FilesOK(own) /\ ThreadOK(own)

------------------------------------------------------------------------------
(* What the invariant says of the pages that are there *)

\* What TypeOK says of the store.
LEMMA StoreTyped ==
  ASSUME TypeOK
  PROVE  /\ numPages \in Nat /\ numPages \in 1..MaxPages /\ numPages <= MaxPages
         /\ MaxPages \in Nat /\ Header \in PageIds /\ Header < numPages
         /\ \A p \in PageIds : p \in Nat /\ pages[p] \in PageContents /\ pages[p].next \in Links
<1>1. numPages \in 1..MaxPages /\ MaxPages \in Nat /\ pages \in [PageIds -> PageContents]
  BY CapacityAssumption DEF TypeOK
<1>2. \A c \in PageContents : c.next \in Links
  BY DEF PageContents
<1>3. Header \in PageIds /\ Header < numPages
  BY <1>1 DEF Header, PageIds
<1>4. QED
  BY <1>1, <1>2, <1>3, PageIdsAre

\* A walk from nowhere is empty.
LEMMA NoLinkChain ==
  ASSUME NEW pg, NEW len \in Nat
  PROVE  ChainIn(pg, len, NoLink) = << >>
<1> DEFINE E == << >>
<1>1. E \in Seq(PageIds) /\ Len(E) = 0 /\ 0 <= MaxPages
  BY CapacityAssumption
<1> HIDE DEF E
<1>2. IsPath(pg, len, NoLink, E)
  BY <1>1 DEF IsPath, After
<1>3. ChainIn(pg, len, NoLink) = E
  BY <1>2, PathIsChain
<1>4. QED
  BY <1>3 DEF E

\* A page that links to no other is a path.
LEMMA LastPagePath ==
  ASSUME NEW pg, NEW len \in Nat, NEW q \in PageIds, q < len, pg[q].next = NoLink
  PROVE  IsPath(pg, len, q, <<q>>) /\ <<q>> \in Seq(PageIds) /\ Len(<<q>>) = 1 /\ <<q>>[1] = q
<1> DEFINE D == <<q>>
<1>1. D \in Seq(PageIds) /\ Len(D) = 1 /\ D[1] = q /\ 1 <= MaxPages
  BY CapacityAssumption
<1> HIDE DEF D
<1>2. ASSUME NEW k \in 0..(Len(D) - 1)
      PROVE  After(pg, q, D, k) = D[k + 1] /\ D[k + 1] < len
  <2>1. k = 0
    BY <1>1
  <2>2. QED
    BY <1>1, <2>1 DEF After
<1>3. After(pg, q, D, Len(D)) = NoLink
  BY <1>1 DEF After
<1>4. IsPath(pg, len, q, D)
  BY <1>1, <1>2, <1>3 DEF IsPath
<1>5. QED
  BY <1>1, <1>4 DEF D

\* The header page links to no other.
LEMMA HeaderChain ==
  ASSUME NEW pg, NEW len \in Nat, Header < len, pg[Header].next = NoLink
  PROVE  ChainIn(pg, len, Header) = <<Header>>
<1>1. Header \in PageIds
  BY CapacityAssumption DEF Header, PageIds
<1>2. IsPath(pg, len, Header, <<Header>>)
  BY <1>1, LastPagePath
<1>3. QED
  BY <1>2, PathIsChain

\* A page that is still zero links to the header page.
LEMMA ZeroChain ==
  ASSUME NEW pg, NEW len \in Nat, len <= MaxPages, Header < len, pg[Header].next = NoLink,
         NEW p \in PageIds, p < len, p # Header, pg[p] = ZeroBytes
  PROVE  /\ ChainIn(pg, len, p) \in Seq(PageIds)
         /\ \A i \in 1..Len(ChainIn(pg, len, p)) : ChainIn(pg, len, p)[i] \in {p, Header}
<1> DEFINE C == <<Header>>
           D == <<p>> \o C
<1>1. Header \in PageIds /\ pg[p].next = Header /\ 1 < MaxPages
  BY PageIdsAre, CapacityAssumption DEF Header, PageIds, ZeroBytes
<1>2. IsPath(pg, len, pg[p].next, C) /\ C \in Seq(PageIds) /\ Len(C) = 1 /\ C[1] = Header
  BY <1>1, LastPagePath
<1> HIDE DEF C
<1>3. IsPath(pg, len, p, D) /\ Len(D) = 2 /\ D[1] = p /\ D[2] = Header
  <2>1. /\ IsPath(pg, len, p, D) /\ Len(D) = Len(C) + 1
        /\ D[1] = p /\ \A i \in 1..Len(C) : D[i + 1] = C[i]
    <3>1. Len(C) < MaxPages
      BY <1>1, <1>2
    <3>2. QED
      BY <1>2, <3>1, PathFrom
  <2>2. D[1 + 1] = C[1]
    BY <1>2, <2>1
  <2>3. QED
    BY <1>2, <2>1, <2>2
<1>4. ChainIn(pg, len, p) = D
  BY <1>3, PathIsChain
<1>5. D \in Seq(PageIds)
  BY <1>3 DEF IsPath
<1> HIDE DEF D
<1>6. \A i \in 1..Len(D) : i = 1 \/ i = 2
  BY <1>3
<1>7. QED
  BY <1>3, <1>4, <1>5, <1>6

\* The chain of a data page is a path of data pages of the same file.
LEMMA DataChain ==
  ASSUME TypeOK, NEW own, DataOK(own), NEW p, IsData(p)
  PROVE  /\ IsPath(pages, numPages, p, Chain(p)) /\ Chain(p) \in Seq(PageIds)
         /\ Len(Chain(p)) \in 1..(numPages - p) /\ Chain(p)[1] = p
         /\ \A i \in 1..Len(Chain(p)) : IsData(Chain(p)[i]) /\ own[Chain(p)[i]] = own[p]
<1> DEFINE S == {q \in PageIds : IsData(q) /\ own[q] = own[p]}
<1>1. numPages \in Nat /\ numPages <= MaxPages
  BY StoreTyped
<1>2. p \in S
  BY DEF IsData, DataIn
<1>3. LeadsOn(pages, numPages, S)
  <2>1. ASSUME NEW q \in S
        PROVE  /\ q \in PageIds /\ q < numPages
               /\ pages[q].next = NoLink \/ (pages[q].next \in S /\ pages[q].next > q)
    BY <2>1 DEF DataOK, IsData, DataIn
  <2>2. QED
    BY <2>1 DEF LeadsOn
<1>4. /\ IsPath(pages, numPages, p, ChainIn(pages, numPages, p))
      /\ Len(ChainIn(pages, numPages, p)) \in 1..(numPages - p) /\ ChainIn(pages, numPages, p)[1] = p
      /\ \A i \in 1..Len(ChainIn(pages, numPages, p)) : ChainIn(pages, numPages, p)[i] \in S
  <2> HIDE DEF S
  <2>1. QED
    BY <1>1, <1>2, <1>3, ChainLeadsOn
<1>5. ChainIn(pages, numPages, p) \in Seq(PageIds)
  BY <1>4 DEF IsPath
<1>6. QED
  BY <1>4, <1>5 DEF Chain

\* The records of a chain of one page.
LEMMA RecordsOfOne ==
  ASSUME NEW pg \in [PageIds -> PageContents], NEW p \in PageIds
  PROVE  RecordsIn(pg, <<p>>) = pg[p].slots
<1> DEFINE R == Row \cup Entry
           ss == [i \in DOMAIN <<p>> |-> pg[<<p>>[i]].slots]
<1>1. pg[p].slots \in Seq(R)
  BY DEF PageContents
<1>2. DOMAIN <<p>> = 1..1 /\ <<p>>[1] = p
  OBVIOUS
<1>3. ss \in [1..1 -> Seq(R)] /\ ss[1] = pg[p].slots
  BY <1>1, <1>2
<1>4. RecordsIn(pg, <<p>>) = FlattenSeq(ss)
  BY DEF RecordsIn
<1> HIDE DEF ss, R
<1>5. ss \in Seq(Seq(R)) /\ Len(ss) = 1
  BY <1>3, FunctionIsSeq
<1>6. /\ FlatTo(ss, 0) = <<>> /\ FlattenSeq(ss) = FlatTo(ss, Len(ss))
      /\ \A k \in 1..Len(ss) : FlatTo(ss, k) = FlatTo(ss, k - 1) \o ss[k]
  BY <1>5, FlatSteps
<1>7. FlattenSeq(ss) = <<>> \o ss[1]
  <2>1. 1 \in 1..Len(ss) /\ 1 - 1 = 0
    BY <1>5
  <2>2. FlatTo(ss, 1) = FlatTo(ss, 0) \o ss[1]
    BY <1>6, <2>1
  <2>3. QED
    BY <1>5, <1>6, <2>2
<1>8. <<>> \o ss[1] = ss[1]
  BY <1>1, <1>3, ConcatEmptySeq
<1>9. QED
  BY <1>3, <1>4, <1>7, <1>8

\* find_catalog_entry returns a page that an entry of that name on the first
\* header page names.
LEMMA FindsEntry ==
  ASSUME TypeOK, NEW own, HeaderOK(own), NEW n, FindEntry(n) # NoLink
  PROVE  \E i \in DOMAIN pages[Header].slots :
           pages[Header].slots[i].name = n /\ pages[Header].slots[i].first = FindEntry(n)
<1> DEFINE records == pages[Header].slots
           found == {i \in Legible(records) :
                       /\ ~IsRow(records[i])
                       /\ records[i].name = n /\ records[i].first # NoLink}
<1>1. ChainIn(pages, numPages, Header) = <<Header>>
  BY StoreTyped, HeaderChain DEF HeaderOK
<1>2. RecordsIn(pages, <<Header>>) = records
  BY StoreTyped, RecordsOfOne DEF TypeOK
<1>3. FindEntry(n) = IF found = {} THEN NoLink ELSE records[Min(found)].first
  BY <1>1, <1>2 DEF FindEntry, FindIn
<1>4. found # {} /\ found \subseteq DOMAIN records
  BY <1>3 DEF Legible
<1>5. Min(found) \in found
  <2>1. DOMAIN records \subseteq Nat
    <3>1. records \in Seq(Row \cup Entry)
      BY StoreTyped DEF PageContents
    <3>2. QED
      BY <3>1, SeqElements
  <2> HIDE DEF found, records
  <2>2. \E i \in found : \A j \in found : i <= j
    BY <1>4, <2>1, LeastIn
  <2>3. QED
    BY <2>2 DEF Min
<1>6. Min(found) \in DOMAIN records /\ records[Min(found)].name = n
  BY <1>4, <1>5
<1>7. FindEntry(n) = records[Min(found)].first
  BY <1>3, <1>4
<1>8. QED
  BY <1>6, <1>7

\* ... which is a page of that name, or about to be.
LEMMA EntryLeads ==
  ASSUME TypeOK, NEW own, HeaderOK(own), NEW n, FindEntry(n) # NoLink
  PROVE  /\ FindEntry(n) \in PageIds /\ FindEntry(n) < numPages /\ own[FindEntry(n)] = n
         /\ \/ IsData(FindEntry(n))
            \/ thread.step \in {"flush", "initialise"} /\ FindEntry(n) = thread.first
BY FindsEntry DEF HeaderOK

\* find_name_of_schema finds a name with an equal schema.
LEMMA NameOfSchemaIs ==
  ASSUME TypeOK, NEW n \in Names, Registered(n)
  PROVE  NameOfSchema(n) \in Names /\ SameSchema(NameOfSchema(n), n)
<1> DEFINE T == {i \in DOMAIN catalog : SchemaOf[catalog[i]] = SchemaOf[n]}
<1>1. DOMAIN catalog \subseteq Nat /\ \A i \in DOMAIN catalog : catalog[i] \in Names
  BY SeqElements DEF TypeOK
<1>2. T # {} /\ T \subseteq Nat
  BY <1>1 DEF Registered
<1>3. Min(T) \in T
  <2> HIDE DEF T
  <2>1. \E i \in T : \A j \in T : i <= j
    BY <1>2, LeastIn
  <2>2. QED
    BY <2>1 DEF Min
<1>4. NameOfSchema(n) = catalog[Min(T)]
  BY DEF NameOfSchema
<1>5. QED
  BY <1>1, <1>3, <1>4 DEF SameSchema

------------------------------------------------------------------------------
(* The contents that are written *)

\* Fresh pages are pages.
LEMMA FreshPages ==
  /\ NoLink \in Links /\ 0 \in Links
  /\ ZeroBytes \in PageContents /\ ZeroBytes.kind = "zero" /\ ZeroBytes.next = 0
  /\ EmptyHeader \in PageContents /\ EmptyHeader.kind = "header" /\ EmptyHeader.next = NoLink
  /\ EmptyHeader.slots = << >>
  /\ \A n \in Names \cup {NoName} :
       /\ EmptyData(n) \in PageContents /\ EmptyData(n).kind = "data"
       /\ EmptyData(n).next = NoLink /\ HasRoom(EmptyData(n))
<1>1. NoLink \in Links /\ 0 \in Links
  BY CapacityAssumption DEF Links, NoLink
<1>2. << >> \in Seq(Row \cup Entry) /\ Len(<< >>) = 0
  OBVIOUS
<1>3. \A n \in Names \cup {NoName} : HasRoom(EmptyData(n))
  BY <1>2, CapacityAssumption DEF HasRoom, EmptyData
<1>4. QED
  BY <1>1, <1>2, <1>3 DEF ZeroBytes, EmptyHeader, EmptyData, PageContents

\* A record changes nothing but the slots.
LEMMA RecordAdded ==
  ASSUME NEW c \in PageContents, NEW r \in Row \cup Entry
  PROVE  /\ WithRecord(c, r) \in PageContents /\ WithRecord(c, r).kind = c.kind
         /\ WithRecord(c, r).next = c.next /\ WithRecord(c, r).slots = Append(c.slots, r)
<1>1. c.slots \in Seq(Row \cup Entry) /\ Append(c.slots, r) \in Seq(Row \cup Entry)
  BY SeqAppend DEF PageContents
<1>2. QED
  BY <1>1 DEF PageContents, WithRecord

\* A link changes nothing else.
LEMMA LinkSet ==
  ASSUME NEW c \in PageContents, NEW l \in Links
  PROVE  /\ WithNext(c, l) \in PageContents /\ WithNext(c, l).kind = c.kind
         /\ WithNext(c, l).next = l /\ WithNext(c, l).slots = c.slots
BY DEF PageContents, WithNext

------------------------------------------------------------------------------
(* The first state *)

\* The new file has a header page without entries.
LEMMA InitIsInv == Init => DbInv
<1> SUFFICES ASSUME Init PROVE DbInv
  OBVIOUS
<1> USE DEF Init
<1>1. Header \in PageIds /\ 1 \in 1..MaxPages /\ MaxPages \in Nat
  BY CapacityAssumption DEF Header, PageIds
<1>2. TypeOK
  <2>1. pages \in [PageIds -> PageContents] /\ durable \in [PageIds -> PageContents]
    BY FreshPages
  <2>2. catalog \in Seq(Names) /\ IsInjective(catalog)
    BY DEF IsInjective
  <2>3. file \in [Files -> Links] /\ thread \in Calls
    BY FreshPages DEF NoFiles, Calls
  <2>4. lastRow \in 0..MaxRows /\ acked \in [Names -> SUBSET (1..MaxRows)] /\ kept \in [Names -> SUBSET (1..MaxRows)]
    BY DatabaseAssumption DEF NoRows
  <2>5. QED
    BY <1>1, <2>1, <2>2, <2>3, <2>4 DEF TypeOK
<1>3. \A p \in PageIds : (p >= numPages <=> p # Header) /\ (p < numPages <=> p = Header)
  BY DEF PageIds, Header
<1>4. StoreOK
  BY <1>1, <1>3, FreshPages DEF StoreOK, Header
<1> DEFINE own == [p \in PageIds |-> NoName]
<1>5. own \in Owners
  BY DEF Owners
<1>6. HeaderOK(own)
  BY <1>1, FreshPages DEF HeaderOK
<1>7. DataOK(own)
  BY <1>3, FreshPages DEF DataOK, IsData, DataIn
<1>8. FilesOK(own)
  BY DEF FilesOK, NoFiles
<1>9. ThreadOK(own)
  BY DEF ThreadOK, Idle, Opening
<1> HIDE DEF own
<1>10. QED
  BY <1>2, <1>4, <1>5, <1>6, <1>7, <1>8, <1>9 DEF DbInv

------------------------------------------------------------------------------
(* Writing pages back *)

\* The larger of a finite set of ids and the last page of the file.
LEMMA MaxOfPages ==
  ASSUME NEW P, P \subseteq PageIds, NEW l \in Nat
  PROVE  LET T == P \cup {l} IN Max(T) \in T /\ \A x \in T : x <= Max(T)
<1> DEFINE T == P \cup {l}
           b == IF l > MaxPages THEN l ELSE MaxPages
           U == {b - x : x \in T}
<1>1. b \in Nat /\ \A x \in T : x \in Nat /\ x <= b
  BY PageIdsAre, CapacityAssumption
<1>2. U \subseteq Nat /\ U # {}
  <2> HIDE DEF b
  <2>1. \A x \in T : b - x \in Nat
    BY <1>1
  <2>2. QED
    BY <2>1
<1>3. PICK u \in U : \A v \in U : u <= v
  <2> HIDE DEF U
  <2>1. QED
    BY <1>2, LeastIn
<1>4. PICK x \in T : u = b - x
  BY <1>3
<1>5. \A y \in T : y <= x
  <2> HIDE DEF b
  <2>1. \A y \in T : b - x <= b - y
    BY <1>3, <1>4
  <2>2. QED
    BY <1>1, <2>1
<1> HIDE DEF T
<1>6. Max(T) \in T /\ \A y \in T : y <= Max(T)
  BY <1>5 DEF Max
<1>7. QED
  BY <1>6 DEF T

\* The file holds what was written, and nothing is past the last page.
FileHolds ==
  /\ fileLen <= numPages
  /\ \A p \in PageIds : p >= numPages => pages[p] = ZeroBytes /\ durable[p] = ZeroBytes
  /\ \A p \in PageIds : durable[p] # ZeroBytes => p < fileLen

\* Pages written back: the file grows as far as it must, never beyond the pages
\* that are allocated.
LEMMA WritesGrow ==
  ASSUME TypeOK, FileHolds, NEW P, P \subseteq ChangedPages, WritePages(P)
  PROVE  /\ durable' \in [PageIds -> PageContents] /\ fileLen' \in 1..MaxPages /\ fileLen' <= numPages
         /\ \A p \in PageIds : p >= numPages => durable'[p] = ZeroBytes
         /\ \A p \in PageIds : durable'[p] # ZeroBytes => p < fileLen'
         /\ \A p \in PageIds : p \in P => durable'[p] = pages[p]
         /\ fileLen <= fileLen' /\ \A p \in P : p < fileLen'
         /\ \A p \in PageIds : p \notin P => durable'[p] = durable[p]
<1>1. /\ numPages \in Nat /\ numPages <= MaxPages /\ MaxPages \in Nat
      /\ fileLen \in 1..MaxPages /\ fileLen <= numPages
  BY StoreTyped DEF TypeOK, FileHolds
<1>2. \A p \in PageIds : durable'[p] = IF p \in P THEN pages[p] ELSE durable[p]
  BY DEF WritePages, Store!WrittenBack
<1>3. durable' \in [PageIds -> PageContents]
  BY DEF WritePages, Store!WrittenBack, TypeOK
<1>4. P \subseteq PageIds /\ \A p \in P : p \in Nat /\ p < numPages
  <2>1. \A p \in P : p \in PageIds /\ ~(p >= numPages)
    BY DEF ChangedPages, FileHolds
  <2>2. QED
    BY <1>1, <2>1, PageIdsAre
<1>5. fileLen' \in 1..MaxPages /\ fileLen' <= numPages /\ fileLen <= fileLen' /\ \A p \in P : p < fileLen'
  <2>1. CASE P = {}
    BY <1>1, <2>1 DEF WritePages
  <2>2. CASE P # {}
    <3> DEFINE l == fileLen - 1
               m == Max(P \cup {l})
    <3>1. l \in Nat
      BY <1>1
    <3>2. m \in P \cup {l} /\ \A x \in P \cup {l} : x <= m
      <4> HIDE DEF l
      <4>1. QED
        BY <1>4, <3>1, MaxOfPages
    <3>3. fileLen' = m + 1
      BY <2>2 DEF WritePages
    <3>4. m \in Nat /\ m < numPages /\ l <= m /\ \A p \in P : p <= m
      <4> HIDE DEF m
      <4>1. QED
        BY <1>1, <1>4, <3>1, <3>2
    <3> HIDE DEF m
    <3>5. fileLen <= m + 1
      BY <1>1, <3>4
    <3>6. \A p \in P : p < m + 1
      BY <1>4, <3>4
    <3>7. QED
      BY <1>1, <3>3, <3>4, <3>5, <3>6
  <2>3. QED
    BY <2>1, <2>2
<1>6. ASSUME NEW p \in PageIds, p >= numPages
      PROVE  durable'[p] = ZeroBytes
  BY <1>2, <1>6 DEF FileHolds
<1>7. ASSUME NEW p \in PageIds, durable'[p] # ZeroBytes
      PROVE  p < fileLen'
  <2>1. CASE p \in P
    BY <1>5, <2>1
  <2>2. CASE p \notin P
    <3>1. p < fileLen /\ p \in Nat
      BY <1>2, <1>7, <2>2, PageIdsAre DEF FileHolds
    <3>2. QED
      BY <1>1, <1>5, <3>1
  <2>3. QED
    BY <2>1, <2>2
<1>8. QED
  BY <1>2, <1>3, <1>5, <1>6, <1>7

\* ... while nobody crashes.
LEMMA WritesKeep ==
  ASSUME TypeOK, StoreOK, NEW P, P \subseteq ChangedPages, WritePages(P)
  PROVE  /\ durable' \in [PageIds -> PageContents] /\ fileLen' \in 1..MaxPages /\ fileLen' <= numPages
         /\ \A p \in PageIds : p >= numPages => durable'[p] = ZeroBytes
         /\ \A p \in PageIds : durable'[p] # ZeroBytes => p < fileLen'
         /\ \A p \in PageIds : p \in P => durable'[p] = pages[p]
         /\ fileLen <= fileLen' /\ \A p \in P : p < fileLen'
         /\ \A p \in PageIds : p \notin P => durable'[p] = durable[p]
<1>1. FileHolds
  BY DEF StoreOK, FileHolds
<1>2. QED
  BY <1>1, WritesGrow

\* Once everything is written, the file holds the pages that are allocated, when
\* those that are still zero are inside it.
LEMMA FileFilled ==
  ASSUME TypeOK, FileHolds, WritePages(ChangedPages),
         \A p \in PageIds : p < numPages /\ pages[p].kind = "zero" => p < fileLen
  PROVE  fileLen' = numPages
<1> DEFINE p == numPages - 1
<1>1. p \in PageIds /\ p < numPages /\ numPages \in Nat /\ p \in Nat
  BY StoreTyped DEF PageIds
<1>2. /\ fileLen' \in 1..MaxPages /\ fileLen' <= numPages /\ fileLen <= fileLen'
      /\ \A q \in ChangedPages : q < fileLen'
  BY WritesGrow
<1>3. fileLen \in Nat /\ fileLen' \in Nat
  BY <1>2, CapacityAssumption DEF TypeOK
<1> HIDE DEF p
<1>4. p < fileLen'
  <2>1. CASE p \in ChangedPages
    BY <1>2, <2>1
  <2>2. CASE p \notin ChangedPages
    <3>1. p < fileLen
      <4>1. CASE pages[p].kind = "zero"
        BY <1>1, <4>1
      <4>2. CASE pages[p].kind # "zero"
        <5>1. durable[p] # ZeroBytes
          BY <1>1, <2>2, <4>2, FreshPages DEF ChangedPages
        <5>2. QED
          BY <1>1, <5>1 DEF FileHolds
      <4>3. QED
        BY <4>1, <4>2
    <3>2. QED
      BY <1>1, <1>2, <1>3, <3>1
  <2>3. QED
    BY <2>1, <2>2
<1>5. QED
  BY <1>1, <1>2, <1>3, <1>4 DEF p

\* ... as they are while nobody crashes.
LEMMA FlushFillsFile ==
  ASSUME TypeOK, StoreOK, ~Opening, WritePages(ChangedPages)
  PROVE  fileLen' = numPages
<1>1. FileHolds /\ \A p \in PageIds : p < numPages => pages[p].kind # "zero"
  BY DEF StoreOK, FileHolds
<1>2. QED
  BY <1>1, FileFilled

------------------------------------------------------------------------------
(* Steps that leave the pages alone *)

\* The calls that run, by their step.
LEMMA ThreadTyped ==
  ASSUME TypeOK
  PROVE  /\ Opening => thread \in [step : {"register", "flush", "initialise"},
                                   name : Names, entry : Names, first : Links]
         /\ thread.step \in {"insert", "link"} =>
              thread \in [step : {"insert", "link"}, name : Files, last : Links, new : Links]
BY DEF TypeOK, Calls, Idle, Opening

\* No call, no promise to keep.
LEMMA IdleKeeps ==
  ASSUME NEW own
  PROVE  /\ thread = Idle => ThreadOK(own) /\ ~Opening
         /\ thread' = Idle => ThreadOK(own)' /\ ~Opening'
BY DEF ThreadOK, Opening, Idle

\* The same pages say the same.
LEMMA SamePages ==
  ASSUME UNCHANGED <<pages, numPages, thread>>, NEW own, HeaderOK(own), DataOK(own)
  PROVE  HeaderOK(own)' /\ DataOK(own)' /\ \A p : IsData(p)' <=> IsData(p)
<1>1. \A p : IsData(p)' <=> IsData(p)
  BY DEF IsData, DataIn
<1>2. HeaderOK(own)'
  BY <1>1 DEF HeaderOK
<1>3. DataOK(own)'
  BY <1>1 DEF DataOK
<1>4. QED
  BY <1>1, <1>2, <1>3

\* A new schema leaves the schemas of the registered names where they are.
LEMMA CatalogGrows ==
  ASSUME TypeOK, NEW n \in Names, catalog' = Append(catalog, n),
         \A i \in DOMAIN catalog : catalog[i] # n
  PROVE  /\ catalog' \in Seq(Names) /\ IsInjective(catalog')
         /\ \A m \in Names : Registered(m) => Registered(m)' /\ NameOfSchema(m)' = NameOfSchema(m)
<1>1. catalog \in Seq(Names) /\ IsInjective(catalog)
  BY DEF TypeOK
<1>2. /\ Len(catalog) \in Nat /\ DOMAIN catalog = 1..Len(catalog)
      /\ DOMAIN catalog' = 1..(Len(catalog) + 1) /\ catalog'[Len(catalog) + 1] = n
      /\ \A i \in 1..Len(catalog) : catalog'[i] = catalog[i]
  BY <1>1, SeqElements, SeqAppend
<1>3. \A i \in 1..(Len(catalog) + 1) : i \in 1..Len(catalog) \/ i = Len(catalog) + 1
  BY <1>2
<1>4. IsInjective(catalog')
  BY <1>1, <1>2, <1>3 DEF IsInjective
<1>5. catalog' \in Seq(Names)
  BY <1>1, SeqAppend
<1>6. ASSUME NEW m \in Names, Registered(m)
      PROVE  Registered(m)' /\ NameOfSchema(m)' = NameOfSchema(m)
  <2> DEFINE T == {i \in DOMAIN catalog : SchemaOf[catalog[i]] = SchemaOf[m]}
             U == {i \in DOMAIN catalog' : SchemaOf[catalog'[i]] = SchemaOf[m]}
  <2>1. T # {} /\ T \subseteq Nat /\ T \subseteq DOMAIN catalog
    BY <1>2, <1>6 DEF Registered
  <2>2. PICK k \in T : \A j \in T : k <= j
    <3> HIDE DEF T
    <3>1. QED
      BY <2>1, LeastIn
  <2>3. k \in U /\ k \in Nat /\ k \in DOMAIN catalog
    BY <1>2, <2>1, <2>2
  <2>4. \A j \in U : j \in Nat /\ k <= j
    <3>1. \A j \in U : j \in T \/ j = Len(catalog) + 1
      BY <1>2, <1>3
    <3>2. k <= Len(catalog) + 1 /\ Len(catalog) + 1 \in Nat
      BY <1>2, <2>3
    <3> HIDE DEF T, U
    <3>3. ASSUME NEW j \in U
          PROVE  j \in Nat /\ k <= j
      BY <2>1, <2>2, <3>1, <3>2
    <3>4. QED
      BY <3>3
  <2>5. Min(T) = k /\ Min(U) = k
    <3> HIDE DEF T, U
    <3>1. \A x \in T : (\A j \in T : x <= j) => x = k
      BY <2>1, <2>2, <2>3
    <3>2. \A x \in U : (\A j \in U : x <= j) => x = k
      BY <2>3, <2>4
    <3>3. QED
      BY <2>2, <2>3, <2>4, <3>1, <3>2 DEF Min
  <2>6. NameOfSchema(m) = catalog[k] /\ NameOfSchema(m)' = catalog'[k]
    BY <2>5 DEF NameOfSchema
  <2>7. Registered(m)'
    BY <1>2, <1>6 DEF Registered
  <2>8. QED
    BY <1>2, <2>3, <2>6, <2>7
<1>7. QED
  BY <1>4, <1>5, <1>6

\* A new schema is a new name of the catalog.
LEMMA AddSchemaKeeps ==
  ASSUME DbInv, NEW n \in Names, AddSchema(n)
  PROVE  DbInv'
<1>1. TypeOK /\ StoreOK /\ UNCHANGED <<store, file, thread, lastRow, acked, kept>>
  BY DEF DbInv, AddSchema
<1>2. catalog' \in Seq(Names) /\ IsInjective(catalog')
  <2>1. catalog' = Append(catalog, n) /\ \A i \in DOMAIN catalog : catalog[i] # n
    BY DEF AddSchema
  <2>2. QED
    BY <1>1, <2>1, CatalogGrows
<1>3. TypeOK'
  BY <1>1, <1>2 DEF TypeOK, store
<1>4. StoreOK'
  BY <1>1 DEF StoreOK, store, Opening
<1>5. PICK own \in Owners : HeaderOK(own) /\ DataOK(own) /\ FilesOK(own) /\ ThreadOK(own)
  BY DEF DbInv
<1>6. UNCHANGED <<pages, numPages, thread>>
  BY <1>1 DEF store
<1>7. HeaderOK(own)' /\ DataOK(own)' /\ \A p : IsData(p)' <=> IsData(p)
  BY <1>5, <1>6, SamePages
<1>8. FilesOK(own)'
  BY <1>1, <1>5, <1>7 DEF FilesOK
<1>9. ThreadOK(own)'
  BY <1>6, IdleKeeps DEF AddSchema
<1>10. QED
  BY <1>3, <1>4, <1>5, <1>7, <1>8, <1>9 DEF DbInv

\* The table that is found begins with a page of a name with its schema.
LEMMA OpenFindsKeeps ==
  ASSUME DbInv, NEW n \in Names, OpenFinds(n)
  PROVE  DbInv'
<1> DEFINE m == NameOfSchema(n)
           p == FindEntry(m)
<1>1. /\ TypeOK /\ StoreOK /\ UNCHANGED <<store, catalog, thread, lastRow, acked, kept>>
      /\ thread = Idle /\ Registered(n) /\ p # NoLink /\ file' = [file EXCEPT ![n] = p]
  BY DEF DbInv, OpenFinds
<1>2. PICK own \in Owners : HeaderOK(own) /\ DataOK(own) /\ FilesOK(own) /\ ThreadOK(own)
  BY DEF DbInv
<1>3. SameSchema(m, n) /\ p \in PageIds /\ IsData(p) /\ own[p] = m
  <2>1. SameSchema(m, n)
    BY <1>1, NameOfSchemaIs
  <2>2. /\ p \in PageIds /\ own[p] = m
        /\ IsData(p) \/ thread.step \in {"flush", "initialise"}
    <3> HIDE DEF m
    <3>1. QED
      BY <1>1, <1>2, EntryLeads
  <2>3. QED
    BY <1>1, <2>1, <2>2 DEF Idle
<1> HIDE DEF m, p
<1>4. TypeOK'
  BY <1>1, <1>3, PageIdsAre DEF TypeOK, store
<1>5. StoreOK'
  BY <1>1 DEF StoreOK, store, Opening
<1>6. UNCHANGED <<pages, numPages, thread>>
  BY <1>1 DEF store
<1>7. HeaderOK(own)' /\ DataOK(own)' /\ \A q : IsData(q)' <=> IsData(q)
  BY <1>2, <1>6, SamePages
<1>8. FilesOK(own)'
  <2>1. n \notin Temps /\ n \in Files
    BY DatabaseAssumption DEF Files
  <2>2. ASSUME NEW f \in Files, file'[f] # NoLink
        PROVE  /\ IsData(file'[f])
               /\ f \in Temps => own[file'[f]] = f
               /\ f \in Names => SameSchema(own[file'[f]], f)
    <3>1. CASE f = n
      BY <1>1, <1>3, <2>1, <3>1 DEF TypeOK
    <3>2. CASE f # n
      <4>1. file'[f] = file[f]
        BY <1>1, <3>2 DEF TypeOK
      <4>2. QED
        BY <1>2, <2>2, <4>1 DEF FilesOK
    <3>3. QED
      BY <3>1, <3>2
  <2>3. QED
    BY <1>7, <2>2 DEF FilesOK, SameSchema
<1>9. ThreadOK(own)'
  BY <1>1, <1>6, IdleKeeps
<1>10. QED
  BY <1>2, <1>4, <1>5, <1>7, <1>8, <1>9 DEF DbInv

\* insert begins: a page can still be added.
LEMMA CallInsertKeeps ==
  ASSUME DbInv, NEW f \in Files, CallInsert(f)
  PROVE  DbInv'
<1>1. /\ TypeOK /\ StoreOK /\ UNCHANGED <<store, catalog, file, acked, kept>>
      /\ thread = Idle /\ file[f] # NoLink /\ lastRow < MaxRows /\ numPages < MaxPages
      /\ lastRow' = lastRow + 1
      /\ thread' = [step |-> "insert", name |-> f, last |-> NoLink, new |-> NoLink]
  BY DEF DbInv, CallInsert
<1>2. UNCHANGED <<pages, durable, numPages, fileLen>>
  BY <1>1 DEF store
<1>3. TypeOK'
  <2>1. thread' \in Calls
    BY <1>1, FreshPages DEF Calls
  <2>2. lastRow' \in 0..MaxRows
    BY <1>1, DatabaseAssumption DEF TypeOK
  <2>3. QED
    BY <1>1, <1>2, <2>1, <2>2 DEF TypeOK
<1>4. ~Opening /\ ~Opening' /\ thread.step = "idle" /\ thread'.step = "insert" /\ thread'.name = f
  BY <1>1 DEF Opening, Idle
<1>5. StoreOK'
  BY <1>1, <1>2, <1>4 DEF StoreOK
<1>6. PICK own \in Owners : HeaderOK(own) /\ DataOK(own) /\ FilesOK(own) /\ ThreadOK(own)
  BY DEF DbInv
<1>7. \A p : IsData(p)' <=> IsData(p)
  BY <1>2 DEF IsData, DataIn
<1>8. HeaderOK(own)'
  BY <1>2, <1>4, <1>6, <1>7 DEF HeaderOK
<1>9. DataOK(own)' /\ FilesOK(own)'
  BY <1>1, <1>2, <1>6, <1>7 DEF DataOK, FilesOK
<1>10. ThreadOK(own)'
  BY <1>1, <1>2, <1>4 DEF ThreadOK, TypeOK
<1>11. QED
  BY <1>3, <1>5, <1>6, <1>8, <1>9, <1>10 DEF DbInv

\* insert ends with an exception.
LEMMA InsertRaisesKeeps ==
  ASSUME DbInv, InsertRaises
  PROVE  DbInv'
<1>1. /\ TypeOK /\ StoreOK /\ UNCHANGED <<store, catalog, file, lastRow, acked, kept>>
      /\ thread.step = "insert" /\ thread' = Idle
  BY DEF DbInv, InsertRaises
<1>2. UNCHANGED <<pages, durable, numPages, fileLen>>
  BY <1>1 DEF store
<1>3. TypeOK'
  BY <1>1, <1>2 DEF TypeOK, Calls
<1>4. ~Opening /\ ~Opening'
  BY <1>1, IdleKeeps DEF Opening
<1>5. StoreOK'
  BY <1>1, <1>2, <1>4 DEF StoreOK
<1>6. PICK own \in Owners : HeaderOK(own) /\ DataOK(own) /\ FilesOK(own) /\ ThreadOK(own)
  BY DEF DbInv
<1>7. \A p : IsData(p)' <=> IsData(p)
  BY <1>2 DEF IsData, DataIn
<1>8. HeaderOK(own)'
  BY <1>1, <1>2, <1>6, <1>7 DEF HeaderOK
<1>9. DataOK(own)' /\ FilesOK(own)'
  BY <1>1, <1>2, <1>6, <1>7 DEF DataOK, FilesOK
<1>10. ThreadOK(own)'
  BY <1>1, IdleKeeps
<1>11. QED
  BY <1>3, <1>5, <1>6, <1>8, <1>9, <1>10 DEF DbInv

------------------------------------------------------------------------------
(* Steps that write pages back *)

\* A page is written back.
LEMMA EvictPageKeeps ==
  ASSUME DbInv, EvictPage
  PROVE  DbInv'
<1>1. TypeOK /\ StoreOK /\ UNCHANGED <<pages, numPages, catalog, file, thread, lastRow, acked, kept>>
  BY DEF DbInv, EvictPage
<1>2. PICK p \in ChangedPages : WritePages({p})
  BY DEF EvictPage
<1>3. /\ durable' \in [PageIds -> PageContents] /\ fileLen' \in 1..MaxPages /\ fileLen' <= numPages
      /\ \A q \in PageIds : q >= numPages => durable'[q] = ZeroBytes
      /\ \A q \in PageIds : durable'[q] # ZeroBytes => q < fileLen'
  <2> DEFINE P == {p}
  <2>1. P \subseteq ChangedPages /\ WritePages(P)
    BY <1>2
  <2> HIDE DEF P
  <2>2. QED
    BY <1>1, <2>1, WritesKeep
<1>4. TypeOK'
  BY <1>1, <1>3 DEF TypeOK
<1>5. StoreOK'
  BY <1>1, <1>3 DEF StoreOK, Opening
<1>6. PICK own \in Owners : HeaderOK(own) /\ DataOK(own) /\ FilesOK(own) /\ ThreadOK(own)
  BY DEF DbInv
<1>7. HeaderOK(own)' /\ DataOK(own)' /\ \A q : IsData(q)' <=> IsData(q)
  BY <1>1, <1>6, SamePages
<1>8. FilesOK(own)'
  BY <1>1, <1>6, <1>7 DEF FilesOK
<1>9. ThreadOK(own)'
  BY <1>1, <1>6, <1>7 DEF ThreadOK, Opening, NoRoom, InsertChain, Chain
<1>10. QED
  BY <1>4, <1>5, <1>6, <1>7, <1>8, <1>9 DEF DbInv

\* flush_dirty of __init__.
LEMMA FlushesEntryKeeps ==
  ASSUME DbInv, FlushesEntry
  PROVE  DbInv'
<1>1. /\ TypeOK /\ StoreOK /\ UNCHANGED <<pages, numPages, catalog, file, lastRow, acked>>
      /\ thread.step = "flush" /\ thread' = [thread EXCEPT !.step = "initialise"]
      /\ WritePages(ChangedPages) /\ kept' = acked
  BY DEF DbInv, FlushesEntry, FlushPages
<1>2. /\ durable' \in [PageIds -> PageContents] /\ fileLen' \in 1..MaxPages /\ fileLen' <= numPages
      /\ \A q \in PageIds : q >= numPages => durable'[q] = ZeroBytes
      /\ \A q \in PageIds : durable'[q] # ZeroBytes => q < fileLen'
  BY <1>1, WritesKeep
<1>3. /\ Opening /\ Opening' /\ thread'.step = "initialise" /\ thread'.first = thread.first
      /\ thread'.entry = thread.entry /\ thread'.name = thread.name /\ thread' \in Calls
  BY <1>1, ThreadTyped DEF Opening, Calls
<1>4. TypeOK'
  BY <1>1, <1>2, <1>3 DEF TypeOK
<1>5. StoreOK'
  BY <1>1, <1>2, <1>3 DEF StoreOK
<1>6. PICK own \in Owners : HeaderOK(own) /\ DataOK(own) /\ FilesOK(own) /\ ThreadOK(own)
  BY DEF DbInv
<1>7. \A q : IsData(q)' <=> IsData(q)
  BY <1>1 DEF IsData, DataIn
<1>8. HeaderOK(own)'
  BY <1>1, <1>3, <1>6, <1>7 DEF HeaderOK
<1>9. DataOK(own)' /\ FilesOK(own)'
  BY <1>1, <1>6, <1>7 DEF DataOK, FilesOK
<1>10. ThreadOK(own)'
  BY <1>1, <1>3, <1>6 DEF ThreadOK
<1>11. QED
  BY <1>4, <1>5, <1>6, <1>8, <1>9, <1>10 DEF DbInv

\* flush_dirty between calls.
LEMMA CallerFlushesKeeps ==
  ASSUME DbInv, CallerFlushes
  PROVE  DbInv'
<1>1. /\ TypeOK /\ StoreOK /\ UNCHANGED <<pages, numPages, catalog, file, thread, lastRow, acked>>
      /\ thread = Idle /\ WritePages(ChangedPages) /\ kept' = acked
  BY DEF DbInv, CallerFlushes, FlushPages
<1>2. /\ durable' \in [PageIds -> PageContents] /\ fileLen' \in 1..MaxPages /\ fileLen' <= numPages
      /\ \A q \in PageIds : q >= numPages => durable'[q] = ZeroBytes
      /\ \A q \in PageIds : durable'[q] # ZeroBytes => q < fileLen'
  BY <1>1, WritesKeep
<1>3. TypeOK'
  BY <1>1, <1>2 DEF TypeOK
<1>4. StoreOK'
  BY <1>1, <1>2 DEF StoreOK, Opening
<1>5. PICK own \in Owners : HeaderOK(own) /\ DataOK(own) /\ FilesOK(own) /\ ThreadOK(own)
  BY DEF DbInv
<1>6. HeaderOK(own)' /\ DataOK(own)' /\ \A q : IsData(q)' <=> IsData(q)
  BY <1>1, <1>5, SamePages
<1>7. FilesOK(own)'
  BY <1>1, <1>5, <1>6 DEF FilesOK
<1>8. ThreadOK(own)'
  BY <1>1, IdleKeeps
<1>9. QED
  BY <1>3, <1>4, <1>5, <1>6, <1>7, <1>8 DEF DbInv

\* The next process counts the pages that were there, and holds no file.
LEMMA RestartKeeps ==
  ASSUME DbInv, Restart
  PROVE  DbInv'
<1>1. /\ TypeOK /\ StoreOK /\ UNCHANGED <<pages, thread, lastRow, acked>>
      /\ thread = Idle /\ WritePages(ChangedPages) /\ kept' = acked
      /\ numPages' = fileLen' /\ catalog' = <<>> /\ file' = NoFiles
  BY DEF DbInv, Restart, FlushPages
<1>2. /\ durable' \in [PageIds -> PageContents] /\ fileLen' \in 1..MaxPages /\ fileLen' <= numPages
      /\ \A q \in PageIds : q >= numPages => durable'[q] = ZeroBytes
      /\ \A q \in PageIds : durable'[q] # ZeroBytes => q < fileLen'
  BY <1>1, WritesKeep
<1>3. numPages' = numPages /\ numPages \in Nat
  <2>1. fileLen' = numPages
    BY <1>1, IdleKeeps, FlushFillsFile
  <2>2. QED
    BY <1>1, <2>1, StoreTyped
<1>4. TypeOK'
  <2>1. catalog' \in Seq(Names) /\ IsInjective(catalog')
    BY <1>1 DEF IsInjective
  <2>2. file' \in [Files -> Links]
    BY <1>1, FreshPages DEF NoFiles
  <2>3. QED
    BY <1>1, <1>2, <2>1, <2>2 DEF TypeOK
<1>5. StoreOK'
  BY <1>1, <1>2, <1>3 DEF StoreOK, Opening
<1>6. PICK own \in Owners : HeaderOK(own) /\ DataOK(own) /\ FilesOK(own) /\ ThreadOK(own)
  BY DEF DbInv
<1>7. HeaderOK(own)' /\ DataOK(own)'
  BY <1>1, <1>3, <1>6, SamePages
<1>8. FilesOK(own)'
  BY <1>1 DEF FilesOK, NoFiles
<1>9. ThreadOK(own)'
  BY <1>1, IdleKeeps
<1>10. QED
  BY <1>4, <1>5, <1>6, <1>7, <1>8, <1>9 DEF DbInv

------------------------------------------------------------------------------
(* Steps that add a page to the file *)

\* The page after the last one is allocated, with content c.
AddsPage(c) ==
  /\ numPages < MaxPages /\ numPages' = numPages + 1
  /\ pages' = [pages EXCEPT ![numPages] = c] /\ UNCHANGED <<durable, fileLen>>

\* What that leaves, when x owns the new page.
PageAdded(own, own2, c, x) ==
  /\ own2 \in Owners /\ own2[numPages] = x
  /\ pages' \in [PageIds -> PageContents] /\ numPages' \in 1..MaxPages
  /\ numPages \in PageIds /\ numPages \in Links /\ pages'[numPages] = c
  /\ \A p \in PageIds : p < numPages => pages'[p] = pages[p] /\ own2[p] = own[p]
  /\ \A p \in PageIds : p < numPages' => p < numPages \/ p = numPages
  /\ \A p : IsData(p)' <=> (IsData(p) \/ (p = numPages /\ c.kind = "data"))
  /\ fileLen' <= numPages'
  /\ \A p \in PageIds : p >= numPages' => pages'[p] = ZeroBytes /\ durable'[p] = ZeroBytes
  /\ \A p \in PageIds : durable'[p] # ZeroBytes => p < fileLen'
  /\ HeaderOK(own2)' /\ DataOK(own2)'

\* A new page with its owner disturbs no other.
LEMMA NewPageKeeps ==
  ASSUME TypeOK, StoreOK, NEW own \in Owners, HeaderOK(own), DataOK(own),
         thread.step \notin {"flush", "initialise"},
         NEW c \in PageContents, c.kind = "data" => c.next = NoLink,
         NEW x \in Files \cup {NoName}, AddsPage(c),
         NEW own2, own2 = [own EXCEPT ![numPages] = x]
  PROVE  PageAdded(own, own2, c, x)
<1> USE DEF AddsPage
<1>1. /\ numPages \in Nat /\ MaxPages \in Nat /\ Header \in PageIds /\ Header < numPages
      /\ numPages \in 1..MaxPages /\ pages \in [PageIds -> PageContents] /\ fileLen \in Nat
  BY StoreTyped DEF TypeOK
<1>2. numPages \in PageIds /\ numPages \in Links
  BY <1>1 DEF PageIds, Links
<1>3. own2 \in Owners /\ own2[numPages] = x /\ \A p \in PageIds : p < numPages => own2[p] = own[p]
  BY <1>1, <1>2 DEF Owners
<1>4. pages' \in [PageIds -> PageContents] /\ numPages' \in 1..MaxPages
  <2>1. numPages' \in 1..MaxPages
    BY <1>1
  <2>2. pages' \in [PageIds -> PageContents]
    BY <1>1
  <2>3. QED
    BY <2>1, <2>2
<1>5. pages'[numPages] = c /\ \A p \in PageIds : p < numPages => pages'[p] = pages[p]
  BY <1>1, <1>2
<1>6. \A p \in PageIds : p \in Nat /\ (p < numPages' => p < numPages \/ p = numPages)
                         /\ (p >= numPages' => p >= numPages /\ p # numPages)
  BY <1>1, PageIdsAre
<1>7. fileLen' <= numPages'
  BY <1>1 DEF StoreOK
<1>8. \A p \in PageIds : p >= numPages' => pages'[p] = ZeroBytes /\ durable'[p] = ZeroBytes
  BY <1>1, <1>6 DEF StoreOK
<1>9. \A p \in PageIds : durable'[p] # ZeroBytes => p < fileLen'
  BY DEF StoreOK
<1>10. \A p : IsData(p)' <=> (IsData(p) \/ (p = numPages /\ c.kind = "data"))
  <2>1. numPages < numPages' /\ ~(numPages < numPages) /\ \A p \in PageIds : p < numPages => p < numPages'
    BY <1>1, <1>6
  <2>2. QED
    BY <1>2, <1>5, <1>6, <2>1 DEF IsData, DataIn
<1>11. HeaderOK(own2)'
  <2>1. pages'[Header] = pages[Header]
    BY <1>1, <1>5
  <2>2. ASSUME NEW i \in DOMAIN pages[Header].slots
        PROVE  LET e == pages[Header].slots[i]
               IN  /\ e \in Entry /\ e.first \in PageIds /\ e.first < numPages'
                   /\ own2[e.first] = e.name /\ DataIn(pages', numPages', e.first)
    <3> DEFINE e == pages[Header].slots[i]
    <3>1. /\ e \in Entry /\ e.first \in PageIds /\ e.first < numPages
          /\ own[e.first] = e.name /\ IsData(e.first)
      BY DEF HeaderOK
    <3> HIDE DEF e
    <3>2. e.first < numPages'
      BY <1>1, <1>6, <3>1
    <3>3. QED
      BY <1>3, <1>10, <3>1, <3>2 DEF e, IsData
  <2>3. QED
    BY <2>1, <2>2 DEF HeaderOK, IsData
<1>12. DataOK(own2)'
  <2>1. ASSUME NEW p \in PageIds, IsData(p)'
        PROVE  \/ pages'[p].next = NoLink
               \/ /\ pages'[p].next > p /\ DataIn(pages', numPages', pages'[p].next)
                  /\ own2[pages'[p].next] = own2[p]
    <3>1. CASE p = numPages /\ c.kind = "data"
      BY <1>5, <3>1
    <3>2. CASE IsData(p)
      <4>1. p < numPages /\ pages'[p] = pages[p] /\ own2[p] = own[p]
        BY <1>3, <1>5, <3>2 DEF IsData, DataIn
      <4>2. CASE pages[p].next # NoLink
        <5>1. pages[p].next > p /\ IsData(pages[p].next) /\ own[pages[p].next] = own[p]
          BY <3>2, <4>2 DEF DataOK
        <5>2. pages[p].next \in PageIds /\ pages[p].next < numPages
          BY <5>1 DEF IsData, DataIn
        <5>3. QED
          BY <1>3, <1>10, <4>1, <5>1, <5>2 DEF IsData
      <4>3. QED
        BY <4>1, <4>2
    <3>3. QED
      BY <1>10, <2>1, <3>1, <3>2
  <2>2. QED
    BY <2>1 DEF DataOK, IsData
<1>13. QED
  BY <1>2, <1>3, <1>4, <1>5, <1>6, <1>7, <1>8, <1>9, <1>10, <1>11, <1>12 DEF PageAdded

\* The files in use stay what they are.
LEMMA FilesStay ==
  ASSUME NEW own, NEW own2, FilesOK(own), file' = file,
         \A p : IsData(p) => IsData(p)' /\ own2[p] = own[p]
  PROVE  FilesOK(own2)'
BY DEF FilesOK, SameSchema

\* __init__ allocates the first page of a table.
LEMMA OpenAllocatesKeeps ==
  ASSUME DbInv, NEW n \in Names, OpenAllocates(n)
  PROVE  DbInv'
<1> DEFINE m == NameOfSchema(n)
<1>1. /\ TypeOK /\ StoreOK /\ UNCHANGED <<pages, durable, fileLen, catalog, file, lastRow, acked, kept>>
      /\ thread = Idle /\ Registered(n) /\ numPages < MaxPages - 1 /\ numPages' = numPages + 1
      /\ thread' = [step |-> "register", name |-> n, entry |-> m, first |-> numPages]
  BY DEF DbInv, OpenAllocates
<1>2. PICK own \in Owners : HeaderOK(own) /\ DataOK(own) /\ FilesOK(own) /\ ThreadOK(own)
  BY DEF DbInv
<1>3. m \in Names /\ SameSchema(m, n)
  BY <1>1, NameOfSchemaIs
<1>4. /\ numPages \in Nat /\ MaxPages \in Nat /\ numPages < MaxPages /\ numPages \in PageIds
      /\ pages \in [PageIds -> PageContents]
  BY <1>1, StoreTyped DEF PageIds, TypeOK
<1>5. pages[numPages] = ZeroBytes
  BY <1>1, <1>4 DEF StoreOK
<1>6. pages' = [pages EXCEPT ![numPages] = ZeroBytes]
  BY <1>1, <1>4, <1>5
<1> HIDE DEF m
<1> PICK own2 : own2 = [own EXCEPT ![numPages] = m]
  OBVIOUS
<1>7. /\ thread.step \notin {"flush", "initialise"} /\ ~Opening
      /\ Opening' /\ thread'.step = "register" /\ thread'.first = numPages
      /\ thread'.entry = m /\ thread'.name = n /\ thread' \in Calls
  <2>1. numPages \in Links
    BY <1>4, PageIdsAre
  <2>2. QED
    BY <1>1, <1>3, <2>1 DEF Idle, Opening, Calls
<1>8. /\ own2 \in Owners /\ own2[numPages] = m
      /\ pages' \in [PageIds -> PageContents] /\ numPages' \in 1..MaxPages
      /\ pages'[numPages] = ZeroBytes
      /\ \A p \in PageIds : p < numPages => pages'[p] = pages[p] /\ own2[p] = own[p]
      /\ \A p \in PageIds : p < numPages' => p < numPages \/ p = numPages
      /\ \A p : IsData(p)' <=> IsData(p)
      /\ fileLen' <= numPages'
      /\ \A p \in PageIds : p >= numPages' => pages'[p] = ZeroBytes /\ durable'[p] = ZeroBytes
      /\ \A p \in PageIds : durable'[p] # ZeroBytes => p < fileLen'
      /\ HeaderOK(own2)' /\ DataOK(own2)'
  <2>1. m \in Files \cup {NoName}
    BY <1>3 DEF Files
  <2>2. ZeroBytes \in PageContents /\ ZeroBytes.kind # "data"
    BY FreshPages
  <2>3. AddsPage(ZeroBytes)
    BY <1>1, <1>4, <1>6 DEF AddsPage
  <2>4. PageAdded(own, own2, ZeroBytes, m)
    BY <1>1, <1>2, <1>7, <2>1, <2>2, <2>3, NewPageKeeps
  <2>5. QED
    BY <2>2, <2>4 DEF PageAdded
<1>9. TypeOK'
  BY <1>1, <1>7, <1>8 DEF TypeOK
<1>10. StoreOK'
  <2>1. \A p \in PageIds : p < numPages' /\ pages'[p].kind = "zero" => p = numPages
    BY <1>1, <1>7, <1>8 DEF StoreOK
  <2>2. QED
    BY <1>7, <1>8, <2>1 DEF StoreOK
<1>11. FilesOK(own2)'
  <2>1. \A p : IsData(p) => IsData(p)' /\ own2[p] = own[p]
    BY <1>8 DEF IsData, DataIn
  <2>2. QED
    BY <1>1, <1>2, <2>1, FilesStay
<1>12. ThreadOK(own2)'
  <2>1. numPages < numPages' /\ numPages' < MaxPages
    BY <1>1, <1>4
  <2>2. QED
    BY <1>3, <1>4, <1>7, <1>8, <2>1 DEF ThreadOK, SameSchema
<1>13. QED
  BY <1>8, <1>9, <1>10, <1>11, <1>12 DEF DbInv

\* A temporary file begins with a new page of its own.
LEMMA OpenTemporaryKeeps ==
  ASSUME DbInv, NEW t \in Temps, OpenTemporary(t)
  PROVE  DbInv'
<1> DEFINE c == EmptyData(NoName)
<1>1. /\ TypeOK /\ StoreOK /\ UNCHANGED <<durable, fileLen, catalog, thread, lastRow, acked, kept>>
      /\ thread = Idle /\ numPages < MaxPages /\ numPages' = numPages + 1
      /\ pages' = [pages EXCEPT ![numPages] = c]
      /\ file' = [file EXCEPT ![t] = numPages]
  BY DEF DbInv, OpenTemporary, PutPage
<1>2. PICK own \in Owners : HeaderOK(own) /\ DataOK(own) /\ FilesOK(own) /\ ThreadOK(own)
  BY DEF DbInv
<1>3. c \in PageContents /\ c.kind = "data" /\ c.next = NoLink
  BY FreshPages
<1> HIDE DEF c
<1> PICK own2 : own2 = [own EXCEPT ![numPages] = t]
  OBVIOUS
<1>4. thread.step \notin {"flush", "initialise"} /\ ~Opening /\ ~Opening' /\ t \in Files /\ t \notin Names
  BY <1>1, IdleKeeps, DatabaseAssumption DEF Opening, Files
<1>5. PageAdded(own, own2, c, t)
  <2>1. AddsPage(c)
    BY <1>1 DEF AddsPage
  <2>2. QED
    BY <1>1, <1>2, <1>3, <1>4, <2>1, NewPageKeeps
<1>6. TypeOK'
  BY <1>1, <1>5 DEF TypeOK, PageAdded
<1>7. StoreOK'
  <2>1. \A p \in PageIds : p < numPages' => pages'[p].kind # "zero"
    BY <1>1, <1>3, <1>4, <1>5 DEF StoreOK, PageAdded
  <2>2. QED
    BY <1>5, <2>1 DEF StoreOK, PageAdded
<1>8. FilesOK(own2)'
  <2>1. \A p : IsData(p) => IsData(p)' /\ own2[p] = own[p]
    BY <1>5 DEF IsData, DataIn, PageAdded
  <2>2. ASSUME NEW f \in Files, file'[f] # NoLink
        PROVE  /\ DataIn(pages', numPages', file'[f])
               /\ f \in Temps => own2[file'[f]] = f
               /\ f \in Names => SameSchema(own2[file'[f]], f)
    <3>1. CASE f = t
      <4>1. file'[f] = numPages
        BY <1>1, <3>1 DEF TypeOK
      <4>2. QED
        BY <1>3, <1>4, <1>5, <3>1, <4>1 DEF PageAdded, IsData
    <3>2. CASE f # t
      <4>1. file'[f] = file[f]
        BY <1>1, <3>2 DEF TypeOK
      <4>2. QED
        BY <1>2, <2>1, <2>2, <4>1 DEF FilesOK, IsData
    <3>3. QED
      BY <3>1, <3>2
  <2>3. QED
    BY <2>2 DEF FilesOK, IsData, SameSchema
<1>9. ThreadOK(own2)'
  BY <1>1, IdleKeeps
<1>10. QED
  BY <1>5, <1>6, <1>7, <1>8, <1>9 DEF DbInv, PageAdded

\* A header page that nothing links: what it says is never read.
LEMMA AddsHeaderPageKeeps ==
  ASSUME DbInv, AddsHeaderPage
  PROVE  DbInv'
<1> DEFINE e == [name |-> thread.entry, first |-> thread.first]
           c == WithRecord(EmptyHeader, e)
<1>1. /\ TypeOK /\ StoreOK /\ UNCHANGED <<durable, fileLen, catalog, file, lastRow, acked, kept>>
      /\ thread.step = "register" /\ numPages' = numPages + 1
      /\ pages' = [pages EXCEPT ![numPages] = c]
      /\ thread' = [thread EXCEPT !.step = "flush"]
  BY DEF DbInv, AddsHeaderPage, PutPage
<1>2. PICK own \in Owners : HeaderOK(own) /\ DataOK(own) /\ FilesOK(own) /\ ThreadOK(own)
  BY DEF DbInv
<1>3. /\ Opening /\ Opening' /\ thread.step \notin {"flush", "initialise"}
      /\ thread'.step = "flush" /\ thread'.first = thread.first /\ thread'.entry = thread.entry
      /\ thread'.name = thread.name /\ thread' \in Calls /\ e \in Entry
  BY <1>1, ThreadTyped DEF Opening, Calls, Entry
<1>4. c \in PageContents /\ c.kind = "header"
  <2>1. EmptyHeader \in PageContents /\ EmptyHeader.kind = "header"
    BY FreshPages
  <2> HIDE DEF e
  <2>2. QED
    BY <1>3, <2>1, RecordAdded
<1> HIDE DEF c, e
<1> PICK own2 : own2 = [own EXCEPT ![numPages] = NoName]
  OBVIOUS
<1>5. PageAdded(own, own2, c, NoName)
  <2>1. AddsPage(c)
    BY <1>1, <1>2 DEF AddsPage, ThreadOK
  <2>2. QED
    BY <1>1, <1>2, <1>3, <1>4, <2>1, NewPageKeeps
<1>6. TypeOK'
  BY <1>1, <1>3, <1>5 DEF TypeOK, PageAdded
<1>7. StoreOK'
  <2>1. \A p \in PageIds : p < numPages' /\ pages'[p].kind = "zero" => p = thread.first
    BY <1>1, <1>4, <1>5 DEF StoreOK, PageAdded
  <2>2. QED
    BY <1>3, <1>5, <2>1 DEF StoreOK, PageAdded
<1>8. FilesOK(own2)'
  <2>1. \A p : IsData(p) => IsData(p)' /\ own2[p] = own[p]
    BY <1>5 DEF IsData, DataIn, PageAdded
  <2>2. QED
    BY <1>1, <1>2, <2>1, FilesStay
<1>9. ThreadOK(own2)'
  <2>1. /\ thread.first \in PageIds /\ thread.first < numPages /\ pages[thread.first] = ZeroBytes
        /\ own[thread.first] = thread.entry /\ SameSchema(thread.entry, thread.name)
    BY <1>2, <1>3 DEF ThreadOK
  <2>2. thread.first < numPages'
    BY <1>1, <2>1, StoreTyped, PageIdsAre
  <2>3. pages'[thread.first] = ZeroBytes /\ own2[thread.first] = thread.entry
    BY <1>5, <2>1 DEF PageAdded
  <2>4. QED
    BY <1>3, <2>1, <2>2, <2>3 DEF ThreadOK, SameSchema
<1>10. QED
  BY <1>5, <1>6, <1>7, <1>8, <1>9 DEF DbInv, PageAdded

\* A path is where it was, as long as the links of its pages are.
LEMMA PathKept ==
  ASSUME NEW pg, NEW pg2, NEW len \in Nat, NEW len2 \in Nat, len <= len2, NEW p, NEW C,
         IsPath(pg, len, p, C), \A i \in 1..Len(C) : pg2[C[i]].next = pg[C[i]].next
  PROVE  IsPath(pg2, len2, p, C)
<1>1. C \in Seq(PageIds) /\ Len(C) \in Nat /\ \A i \in 1..Len(C) : C[i] \in PageIds
  BY SeqElements DEF IsPath
<1>2. ASSUME NEW k \in 0..Len(C)
      PROVE  After(pg2, p, C, k) = After(pg, p, C, k)
  <2>1. k = 0 \/ k \in 1..Len(C)
    BY <1>1
  <2>2. QED
    BY <2>1 DEF After
<1>3. ASSUME NEW k \in 0..(Len(C) - 1)
      PROVE  After(pg2, p, C, k) = C[k + 1] /\ C[k + 1] < len2
  <2>1. k \in 0..Len(C) /\ k + 1 \in 1..Len(C)
    BY <1>1
  <2>2. After(pg, p, C, k) = C[k + 1] /\ C[k + 1] < len
    BY DEF IsPath
  <2>3. C[k + 1] \in Nat
    BY <1>1, <2>1, PageIdsAre
  <2>4. QED
    BY <1>2, <2>1, <2>2, <2>3
<1>4. After(pg2, p, C, Len(C)) = NoLink
  BY <1>1, <1>2 DEF IsPath
<1>5. QED
  BY <1>1, <1>3, <1>4 DEF IsPath

\* ... and one page longer when its last page links to a new one.
LEMMA PathGrows ==
  ASSUME NEW pg, NEW pg2, NEW len \in Nat, NEW p, NEW C, IsPath(pg, len, p, C),
         C # << >>, Len(C) < MaxPages, NEW q \in PageIds, q < len, pg2[q].next = NoLink,
         pg2[C[Len(C)]].next = q, \A i \in 1..(Len(C) - 1) : pg2[C[i]].next = pg[C[i]].next
  PROVE  IsPath(pg2, len, p, Append(C, q))
<1> DEFINE D == Append(C, q)
           n == Len(C)
<1>1. C \in Seq(PageIds) /\ n \in Nat /\ n # 0 /\ \A i \in 1..n : C[i] \in PageIds
  BY SeqElements, EmptySeq DEF IsPath
<1>2. D \in Seq(PageIds) /\ Len(D) = n + 1 /\ D[n + 1] = q /\ \A i \in 1..n : D[i] = C[i]
  BY <1>1, SeqAppend
<1>3. Len(D) <= MaxPages
  BY <1>1, <1>2, CapacityAssumption
<1> HIDE DEF D, n
<1>4. ASSUME NEW k \in 0..(n - 1)
      PROVE  After(pg2, p, D, k) = After(pg, p, C, k)
  <2>1. k = 0 \/ (k \in 1..n /\ k \in 1..(n - 1))
    BY <1>1
  <2>2. QED
    BY <1>2, <2>1 DEF After, n
<1>5. ASSUME NEW k \in 0..(Len(D) - 1)
      PROVE  After(pg2, p, D, k) = D[k + 1] /\ D[k + 1] < len
  <2>1. CASE k < n
    <3>1. k \in 0..(n - 1) /\ k + 1 \in 1..n
      BY <1>1, <2>1
    <3>2. After(pg, p, C, k) = C[k + 1] /\ C[k + 1] < len
      BY <3>1 DEF IsPath, n
    <3>3. QED
      BY <1>2, <1>4, <3>1, <3>2
  <2>2. CASE k = n
    <3>1. n \in 1..n
      BY <1>1
    <3>2. D[n] = C[n] /\ pg2[C[n]].next = q
      BY <1>2, <3>1 DEF n
    <3>3. QED
      BY <1>1, <1>2, <2>2, <3>2 DEF After
  <2>3. QED
    BY <1>1, <1>2, <2>1, <2>2
<1>6. After(pg2, p, D, Len(D)) = NoLink
  BY <1>1, <1>2 DEF After
<1>7. IsPath(pg2, len, p, D)
  BY <1>2, <1>3, <1>5, <1>6 DEF IsPath
<1>8. QED
  BY <1>7 DEF D

\* The pages insert walks are pages of the file it was called on.
LEMMA InsertWalks ==
  ASSUME TypeOK, NEW own, HeaderOK(own), DataOK(own), FilesOK(own), ThreadOK(own),
         thread.step \in {"insert", "link"}
  PROVE  LET p == file[thread.name]
             C == InsertChain
         IN  /\ IsData(p) /\ IsPath(pages, numPages, p, C) /\ C \in Seq(PageIds)
             /\ Len(C) \in Nat /\ Len(C) < MaxPages /\ DOMAIN C = 1..Len(C)
             /\ C # << >> /\ Len(C) \in 1..Len(C) /\ Last(C) = C[Len(C)]
             /\ \A i \in 1..Len(C) : IsData(C[i]) /\ own[C[i]] = own[p]
<1> DEFINE p == file[thread.name]
           C == InsertChain
<1>1. IsData(p) /\ p \in Nat /\ p # 0
  <2>1. thread.name \in Files
    BY ThreadTyped
  <2>2. IsData(p)
    BY <2>1 DEF ThreadOK, FilesOK
  <2>3. p # Header
    BY <2>2 DEF HeaderOK, IsData, DataIn
  <2>4. QED
    BY <2>2, <2>3, PageIdsAre DEF IsData, DataIn, Header
<1>2. C = Chain(p)
  BY DEF InsertChain
<1> HIDE DEF p, C
<1>3. /\ IsPath(pages, numPages, p, C) /\ C \in Seq(PageIds)
      /\ Len(C) \in 1..(numPages - p)
      /\ \A i \in 1..Len(C) : IsData(C[i]) /\ own[C[i]] = own[p]
  BY <1>1, <1>2, DataChain
<1>4. Len(C) \in Nat /\ Len(C) < MaxPages /\ Len(C) \in 1..Len(C)
  BY <1>1, <1>3, StoreTyped
<1>5. C # << >> /\ Last(C) = C[Len(C)] /\ DOMAIN C = 1..Len(C)
  BY <1>3, <1>4, SeqElements, EmptySeq DEF Last
<1>6. QED
  BY <1>1, <1>3, <1>4, <1>5 DEF p, C

------------------------------------------------------------------------------
(* Steps that change a page of the file *)

\* One page of the file changes.
LEMMA PageChanges ==
  ASSUME TypeOK, StoreOK, NEW q \in PageIds, q < numPages, NEW c \in PageContents,
         PutPage(q, c), numPages' = numPages
  PROVE  /\ pages' \in [PageIds -> PageContents] /\ pages'[q] = c
         /\ \A p \in PageIds : p # q => pages'[p] = pages[p]
         /\ fileLen' <= numPages'
         /\ \A p \in PageIds : p >= numPages' => pages'[p] = ZeroBytes /\ durable'[p] = ZeroBytes
         /\ \A p \in PageIds : durable'[p] # ZeroBytes => p < fileLen'
         /\ c.kind = pages[q].kind => \A p : IsData(p)' <=> IsData(p)
<1>1. pages \in [PageIds -> PageContents] /\ pages' = [pages EXCEPT ![q] = c]
  BY DEF TypeOK, PutPage
<1>2. pages'[q] = c /\ \A p \in PageIds : p # q => pages'[p] = pages[p]
  BY <1>1
<1>3. UNCHANGED <<durable, fileLen>>
  BY DEF PutPage
<1>4. ~(q >= numPages)
  BY StoreTyped, PageIdsAre
<1>5. \A p \in PageIds : p >= numPages' => pages'[p] = ZeroBytes /\ durable'[p] = ZeroBytes
  BY <1>2, <1>3, <1>4 DEF StoreOK
<1>6. fileLen' <= numPages' /\ \A p \in PageIds : durable'[p] # ZeroBytes => p < fileLen'
  BY <1>3 DEF StoreOK
<1>7. ASSUME c.kind = pages[q].kind
      PROVE  \A p : IsData(p)' <=> IsData(p)
  BY <1>2, <1>7 DEF IsData, DataIn
<1>8. QED
  BY <1>1, <1>2, <1>5, <1>6, <1>7

\* The entry of a new table is the last of the first header page.
LEMMA AddsEntryKeeps ==
  ASSUME DbInv, AddsEntry
  PROVE  DbInv'
<1> DEFINE e == [name |-> thread.entry, first |-> thread.first]
           h == pages[Header]
           c == WithRecord(h, e)
<1>1. /\ TypeOK /\ StoreOK /\ UNCHANGED <<numPages, catalog, file, lastRow, acked, kept>>
      /\ thread.step = "register" /\ thread' = [thread EXCEPT !.step = "flush"]
  BY DEF DbInv, AddsEntry
<1>2. PICK own \in Owners : HeaderOK(own) /\ DataOK(own) /\ FilesOK(own) /\ ThreadOK(own)
  BY DEF DbInv
<1>3. Header \in PageIds /\ Header < numPages /\ h \in PageContents /\ numPages \in Nat
  BY <1>1, StoreTyped
<1>4. PutPage(Header, c)
  <2>1. Chain(Header) = <<Header>>
    BY <1>2, <1>3, HeaderChain DEF HeaderOK, Chain
  <2>2. PICK i \in DOMAIN Chain(Header) :
          PutPage(Chain(Header)[i], WithRecord(pages[Chain(Header)[i]], e))
    BY DEF AddsEntry
  <2>3. Chain(Header)[i] = Header
    BY <2>1, <2>2
  <2> HIDE DEF e
  <2>4. QED
    BY <2>2, <2>3
<1>5. /\ Opening /\ Opening' /\ thread.step \notin {"flush", "initialise"}
      /\ thread'.step = "flush" /\ thread'.first = thread.first /\ thread'.entry = thread.entry
      /\ thread'.name = thread.name /\ thread' \in Calls /\ e \in Entry
  BY <1>1, ThreadTyped DEF Opening, Calls, Entry
<1>6. /\ thread.first \in PageIds /\ thread.first < numPages /\ pages[thread.first] = ZeroBytes
      /\ own[thread.first] = thread.entry /\ SameSchema(thread.entry, thread.name)
  BY <1>2, <1>5 DEF ThreadOK
<1>7. e.name = thread.entry /\ e.first = thread.first
  OBVIOUS
<1> HIDE DEF e
<1>8. /\ c \in PageContents /\ c.kind = "header" /\ c.next = NoLink /\ c.slots = Append(h.slots, e)
      /\ h.kind = "header" /\ h.slots \in Seq(Row \cup Entry)
  BY <1>2, <1>3, <1>5, RecordAdded DEF HeaderOK, PageContents
<1> HIDE DEF c
<1>9. /\ pages' \in [PageIds -> PageContents] /\ pages'[Header] = c
      /\ \A p \in PageIds : p # Header => pages'[p] = pages[p]
      /\ fileLen' <= numPages'
      /\ \A p \in PageIds : p >= numPages' => pages'[p] = ZeroBytes /\ durable'[p] = ZeroBytes
      /\ \A p \in PageIds : durable'[p] # ZeroBytes => p < fileLen'
      /\ \A p : IsData(p)' <=> IsData(p)
  BY <1>1, <1>3, <1>4, <1>8, PageChanges
<1>10. TypeOK'
  BY <1>1, <1>4, <1>5, <1>9 DEF TypeOK, PutPage
<1>11. StoreOK'
  <2>1. \A p \in PageIds : p < numPages' /\ pages'[p].kind = "zero" => p = thread.first
    BY <1>1, <1>8, <1>9 DEF StoreOK
  <2>2. QED
    BY <1>5, <1>9, <2>1 DEF StoreOK
<1>12. HeaderOK(own)'
  <2> DEFINE n == Len(h.slots)
  <2>1. /\ n \in Nat /\ DOMAIN h.slots = 1..n /\ DOMAIN c.slots = 1..(n + 1)
        /\ c.slots[n + 1] = e /\ \A i \in 1..n : c.slots[i] = h.slots[i]
    <3>1. e \in Row \cup Entry
      BY <1>5
    <3> DEFINE s == h.slots
    <3>2. s \in Seq(Row \cup Entry) /\ c.slots = Append(s, e)
      BY <1>8
    <3> HIDE DEF s
    <3>3. /\ Len(s) \in Nat /\ DOMAIN s = 1..Len(s) /\ DOMAIN Append(s, e) = 1..(Len(s) + 1)
          /\ Append(s, e)[Len(s) + 1] = e /\ \A i \in 1..Len(s) : Append(s, e)[i] = s[i]
      BY <3>1, <3>2, SeqElements, SeqAppend
    <3>4. QED
      BY <3>2, <3>3 DEF s
  <2>2. ASSUME NEW i \in DOMAIN c.slots
        PROVE  /\ c.slots[i] \in Entry /\ c.slots[i].first \in PageIds /\ c.slots[i].first < numPages
               /\ own[c.slots[i].first] = c.slots[i].name
               /\ IsData(c.slots[i].first) \/ c.slots[i].first = thread.first
    <3>1. CASE i = n + 1
      BY <1>5, <1>6, <1>7, <2>1, <3>1
    <3>2. CASE i \in 1..n
      <4>1. c.slots[i] = h.slots[i] /\ i \in DOMAIN h.slots
        BY <2>1, <3>2
      <4>2. QED
        BY <1>2, <1>5, <4>1 DEF HeaderOK
    <3>3. QED
      BY <2>1, <3>1, <3>2
  <2>3. \A p : DataIn(pages', numPages', p) <=> IsData(p)
    BY <1>9 DEF IsData
  <2>4. QED
    BY <1>1, <1>5, <1>8, <1>9, <2>2, <2>3 DEF HeaderOK, IsData
<1>13. DataOK(own)'
  <2>1. \A p : IsData(p) => p # Header
    BY <1>8 DEF IsData, DataIn
  <2>2. ASSUME NEW p \in PageIds, IsData(p)
        PROVE  pages'[p] = pages[p]
    BY <1>9, <2>1, <2>2
  <2>3. QED
    BY <1>2, <1>9, <2>2 DEF DataOK
<1>14. FilesOK(own)'
  BY <1>1, <1>2, <1>9, FilesStay
<1>15. ThreadOK(own)'
  <2>1. pages'[thread.first] = ZeroBytes
    BY <1>6, <1>8, <1>9, FreshPages
  <2>2. QED
    BY <1>1, <1>5, <1>6, <2>1 DEF ThreadOK, SameSchema
<1>16. QED
  BY <1>10, <1>11, <1>12, <1>13, <1>14, <1>15 DEF DbInv

\* The first page becomes a data page, and the file is there.
LEMMA InitialisesFirstPageKeeps ==
  ASSUME DbInv, InitialisesFirstPage
  PROVE  DbInv'
<1> DEFINE q == thread.first
           c == EmptyData(thread.entry)
<1>1. /\ TypeOK /\ StoreOK /\ UNCHANGED <<numPages, catalog, lastRow, acked, kept>>
      /\ thread.step = "initialise" /\ thread' = Idle /\ PutPage(q, c)
      /\ file' = [file EXCEPT ![thread.name] = q]
  BY DEF DbInv, InitialisesFirstPage
<1>2. PICK own \in Owners : HeaderOK(own) /\ DataOK(own) /\ FilesOK(own) /\ ThreadOK(own)
  BY DEF DbInv
<1>3. Opening /\ ~Opening' /\ thread.name \in Names /\ thread.entry \in Names /\ q \in Links
  BY <1>1, ThreadTyped, IdleKeeps DEF Opening
<1>4. /\ q \in PageIds /\ q < numPages /\ pages[q] = ZeroBytes
      /\ own[q] = thread.entry /\ SameSchema(thread.entry, thread.name)
  BY <1>2, <1>3 DEF ThreadOK
<1>5. c \in PageContents /\ c.kind = "data" /\ c.next = NoLink
  BY <1>3, FreshPages
<1> HIDE DEF c, q
<1>6. /\ pages' \in [PageIds -> PageContents] /\ pages'[q] = c
      /\ \A p \in PageIds : p # q => pages'[p] = pages[p]
      /\ fileLen' <= numPages'
      /\ \A p \in PageIds : p >= numPages' => pages'[p] = ZeroBytes /\ durable'[p] = ZeroBytes
      /\ \A p \in PageIds : durable'[p] # ZeroBytes => p < fileLen'
  BY <1>1, <1>4, <1>5, PageChanges
<1>7. \A p : IsData(p)' <=> (IsData(p) \/ p = q)
  BY <1>1, <1>4, <1>5, <1>6 DEF IsData, DataIn
<1>8. TypeOK'
  BY <1>1, <1>3, <1>6 DEF TypeOK, PutPage, Calls
<1>9. StoreOK'
  <2>1. \A p \in PageIds : p < numPages' => pages'[p].kind # "zero"
    BY <1>1, <1>5, <1>6 DEF StoreOK, q
  <2>2. QED
    BY <1>6, <2>1 DEF StoreOK
<1>10. ~IsData(q) /\ q # Header
  BY <1>2, <1>4, FreshPages DEF IsData, DataIn, HeaderOK
<1>11. HeaderOK(own)'
  <2>1. pages'[Header] = pages[Header]
    BY <1>1, <1>6, <1>10, StoreTyped
  <2>2. \A p : DataIn(pages', numPages', p) <=> (IsData(p) \/ p = q)
    BY <1>7 DEF IsData
  <2>3. QED
    BY <1>1, <1>2, <2>1, <2>2 DEF HeaderOK, IsData, q
<1>12. DataOK(own)'
  <2>1. ASSUME NEW p \in PageIds, IsData(p)'
        PROVE  \/ pages'[p].next = NoLink
               \/ /\ pages'[p].next > p /\ DataIn(pages', numPages', pages'[p].next)
                  /\ own[pages'[p].next] = own[p]
    <3>1. CASE p = q
      BY <1>5, <1>6, <3>1
    <3>2. CASE p # q
      <4>1. pages'[p] = pages[p] /\ IsData(p)
        BY <1>6, <1>7, <2>1, <3>2
      <4>2. QED
        BY <1>2, <1>7, <4>1 DEF DataOK, IsData
    <3>3. QED
      BY <3>1, <3>2
  <2>2. QED
    BY <2>1 DEF DataOK, IsData
<1>13. FilesOK(own)'
  <2>1. ASSUME NEW f \in Files, file'[f] # NoLink
        PROVE  /\ DataIn(pages', numPages', file'[f])
               /\ f \in Temps => own[file'[f]] = f
               /\ f \in Names => SameSchema(own[file'[f]], f)
    <3>1. CASE f = thread.name
      <4>1. file'[f] = q /\ f \notin Temps
        BY <1>1, <1>3, <3>1, DatabaseAssumption DEF TypeOK
      <4>2. QED
        BY <1>4, <1>7, <3>1, <4>1 DEF IsData
    <3>2. CASE f # thread.name
      <4>1. file'[f] = file[f]
        BY <1>1, <3>2 DEF TypeOK
      <4>2. QED
        BY <1>2, <1>7, <2>1, <4>1 DEF FilesOK, IsData
    <3>3. QED
      BY <3>1, <3>2
  <2>2. QED
    BY <2>1 DEF FilesOK, IsData, SameSchema
<1>14. ThreadOK(own)'
  BY <1>1, IdleKeeps
<1>15. QED
  BY <1>2, <1>8, <1>9, <1>11, <1>12, <1>13, <1>14 DEF DbInv

\* A page of a file gets another record or another link of the same file: the
\* header page and the files are what they were.
LEMMA DataPageKeeps ==
  ASSUME TypeOK, StoreOK, NEW own, HeaderOK(own), DataOK(own), FilesOK(own),
         thread.step \in {"insert", "link"}, thread'.step \notin {"register", "flush", "initialise"},
         NEW q, IsData(q), NEW c \in PageContents, c.kind = "data",
         c.next # NoLink => c.next > q /\ IsData(c.next) /\ own[c.next] = own[q],
         PutPage(q, c), numPages' = numPages, file' = file
  PROVE  /\ pages' \in [PageIds -> PageContents] /\ pages'[q] = c
         /\ \A p \in PageIds : p # q => pages'[p] = pages[p]
         /\ \A p : IsData(p)' <=> IsData(p)
         /\ StoreOK' /\ HeaderOK(own)' /\ DataOK(own)' /\ FilesOK(own)'
<1>1. q \in PageIds /\ q < numPages /\ pages[q].kind = "data"
  BY DEF IsData, DataIn
<1>2. /\ pages' \in [PageIds -> PageContents] /\ pages'[q] = c
      /\ \A p \in PageIds : p # q => pages'[p] = pages[p]
      /\ fileLen' <= numPages'
      /\ \A p \in PageIds : p >= numPages' => pages'[p] = ZeroBytes /\ durable'[p] = ZeroBytes
      /\ \A p \in PageIds : durable'[p] # ZeroBytes => p < fileLen'
      /\ \A p : IsData(p)' <=> IsData(p)
  BY <1>1, PageChanges
<1>3. StoreOK'
  <2>1. \A p \in PageIds : p < numPages' => pages'[p].kind # "zero"
    BY <1>1, <1>2 DEF StoreOK, Opening
  <2>2. QED
    BY <1>2, <2>1 DEF StoreOK
<1>4. HeaderOK(own)'
  <2>1. pages'[Header] = pages[Header]
    BY <1>1, <1>2, StoreTyped DEF HeaderOK
  <2>2. \A p : DataIn(pages', numPages', p) <=> IsData(p)
    BY <1>2 DEF IsData
  <2>3. QED
    BY <2>1, <2>2 DEF HeaderOK, IsData
<1>5. DataOK(own)'
  <2>1. ASSUME NEW p \in PageIds, IsData(p)'
        PROVE  \/ pages'[p].next = NoLink
               \/ /\ pages'[p].next > p /\ DataIn(pages', numPages', pages'[p].next)
                  /\ own[pages'[p].next] = own[p]
    <3>1. CASE p = q
      BY <1>2, <3>1 DEF IsData
    <3>2. CASE p # q
      <4>1. pages'[p] = pages[p] /\ IsData(p)
        BY <1>2, <2>1, <3>2
      <4>2. QED
        BY <1>2, <4>1 DEF DataOK, IsData
    <3>3. QED
      BY <3>1, <3>2
  <2>2. QED
    BY <2>1 DEF DataOK, IsData
<1>6. FilesOK(own)'
  BY <1>2, FilesStay
<1>7. QED
  BY <1>2, <1>3, <1>4, <1>5, <1>6

\* A row is stored.
LEMMA InsertStoresKeeps ==
  ASSUME DbInv, InsertStores
  PROVE  DbInv'
<1> DEFINE C == InsertChain
           r == [row |-> lastRow]
<1>1. /\ TypeOK /\ StoreOK /\ UNCHANGED <<numPages, catalog, file, lastRow, kept>>
      /\ thread.step = "insert" /\ thread' = Idle
      /\ acked' = IF thread.name \in Temps THEN acked
                  ELSE [acked EXCEPT ![NameOfSchema(thread.name)] = @ \cup {lastRow}]
  BY DEF DbInv, InsertStores
<1>2. PICK own \in Owners : HeaderOK(own) /\ DataOK(own) /\ FilesOK(own) /\ ThreadOK(own)
  BY DEF DbInv
<1>3. \A i \in DOMAIN C : IsData(C[i])
  BY <1>1, <1>2, InsertWalks
<1>4. PICK i \in DOMAIN C : PutPage(C[i], WithRecord(pages[C[i]], r))
  BY DEF InsertStores
<1> DEFINE q == C[i]
           c == WithRecord(pages[q], r)
<1>5. IsData(q) /\ PutPage(q, c)
  BY <1>3, <1>4
<1> HIDE DEF q
<1>6. lastRow \in 1..MaxRows /\ lastRow \in Nat
  BY <1>1, <1>2, DatabaseAssumption DEF TypeOK, ThreadOK
<1>7. q \in PageIds /\ pages[q] \in PageContents /\ pages[q].kind = "data" /\ r \in Row \cup Entry
  BY <1>1, <1>5, <1>6, StoreTyped DEF IsData, DataIn, Row
<1>8. c \in PageContents /\ c.kind = "data" /\ c.next = pages[q].next
  <2> HIDE DEF r
  <2>1. QED
    BY <1>7, RecordAdded
<1> HIDE DEF c, C, r
<1>9. c.next # NoLink => c.next > q /\ IsData(c.next) /\ own[c.next] = own[q]
  BY <1>2, <1>5, <1>7, <1>8 DEF DataOK
<1>10. thread'.step \notin {"register", "flush", "initialise"}
  BY <1>1 DEF Idle
<1>11. /\ pages' \in [PageIds -> PageContents]
       /\ StoreOK' /\ HeaderOK(own)' /\ DataOK(own)' /\ FilesOK(own)'
  BY <1>1, <1>2, <1>5, <1>8, <1>9, <1>10, DataPageKeeps
<1>12. TypeOK'
  <2>1. acked' \in [Names -> SUBSET (1..MaxRows)]
    <3>1. acked \in [Names -> SUBSET (1..MaxRows)]
      BY <1>1 DEF TypeOK
    <3>2. QED
      BY <1>1, <1>6, <3>1
  <2>2. QED
    BY <1>1, <1>5, <1>11, <2>1 DEF TypeOK, PutPage, Calls
<1>13. ThreadOK(own)'
  BY <1>1, IdleKeeps
<1>14. QED
  BY <1>2, <1>11, <1>12, <1>13 DEF DbInv

\* A page is added to the file, and not yet linked.
LEMMA InsertGrowsKeeps ==
  ASSUME DbInv, InsertGrows
  PROVE  DbInv'
<1> DEFINE C == InsertChain
           last == Last(C)
           c == EmptyData(pages[last].name)
<1>1. /\ TypeOK /\ StoreOK /\ UNCHANGED <<durable, fileLen, catalog, file, lastRow, acked, kept>>
      /\ thread.step = "insert" /\ NoRoom /\ numPages' = numPages + 1
      /\ pages[last].next = NoLink
      /\ pages' = [pages EXCEPT ![numPages] = c]
      /\ thread' = [thread EXCEPT !.step = "link", !.last = last, !.new = numPages]
  BY DEF DbInv, InsertGrows, PutPage
<1>2. PICK own \in Owners : HeaderOK(own) /\ DataOK(own) /\ FilesOK(own) /\ ThreadOK(own)
  BY DEF DbInv
<1>3. /\ IsPath(pages, numPages, file[thread.name], C) /\ C \in Seq(PageIds)
      /\ C # << >> /\ IsData(last)
      /\ \A i \in 1..Len(C) : IsData(C[i])
  BY <1>1, <1>2, InsertWalks
<1>4. last \in PageIds /\ last < numPages /\ last \in Links /\ pages[last].name \in Names \cup {NoName}
  BY <1>1, <1>3, StoreTyped, PageIdsAre DEF IsData, DataIn, PageContents
<1>5. c \in PageContents /\ c.kind = "data" /\ c.next = NoLink /\ HasRoom(c)
  BY <1>4, FreshPages
<1>6. C = ChainIn(pages, numPages, file[thread.name])
  BY DEF InsertChain, Chain
<1>7. own[last] \in Files \cup {NoName}
  BY <1>2, <1>4 DEF Owners
<1>8. numPages < MaxPages /\ file[thread.name] # NoLink /\ lastRow # 0
  BY <1>1, <1>2 DEF ThreadOK
<1> HIDE DEF c, C
<1> PICK own2 : own2 = [own EXCEPT ![numPages] = own[last]]
  OBVIOUS
<1>9. PageAdded(own, own2, c, own[last])
  <2>1. AddsPage(c)
    BY <1>1, <1>8 DEF AddsPage
  <2> DEFINE x == own[last]
  <2>2. x \in Files \cup {NoName} /\ own2 = [own EXCEPT ![numPages] = x]
    BY <1>7
  <2>3. thread.step \notin {"flush", "initialise"}
    BY <1>1
  <2> HIDE DEF x, last
  <2>4. PageAdded(own, own2, c, x)
    BY <1>1, <1>2, <1>5, <2>1, <2>2, <2>3, NewPageKeeps
  <2>5. QED
    BY <2>4 DEF x
<1> HIDE DEF last
<1>10. /\ thread'.step = "link" /\ thread'.last = last /\ thread'.new = numPages
       /\ thread'.name = thread.name /\ thread' \in Calls /\ ~Opening /\ ~Opening'
  BY <1>1, <1>4, <1>9, ThreadTyped DEF PageAdded, Calls, Opening
<1>11. TypeOK'
  BY <1>1, <1>9, <1>10 DEF TypeOK, PageAdded
<1>12. StoreOK'
  <2>1. \A p \in PageIds : p < numPages' => pages'[p].kind # "zero"
    BY <1>1, <1>5, <1>9, <1>10 DEF StoreOK, PageAdded
  <2>2. QED
    BY <1>9, <2>1 DEF StoreOK, PageAdded
<1>13. FilesOK(own2)'
  <2>1. \A p : IsData(p) => IsData(p)' /\ own2[p] = own[p]
    BY <1>9 DEF IsData, DataIn, PageAdded
  <2>2. QED
    BY <1>1, <1>2, <2>1, FilesStay
<1>14. InsertChain' = C
  <2>1. \A i \in 1..Len(C) : C[i] \in PageIds /\ C[i] < numPages
    BY <1>3 DEF IsData, DataIn
  <2>2. numPages \in Nat /\ numPages' \in Nat /\ numPages <= numPages'
    BY <1>1, StoreTyped
  <2>3. \A i \in 1..Len(C) : pages'[C[i]].next = pages[C[i]].next
    BY <1>9, <2>1 DEF PageAdded
  <2>4. IsPath(pages', numPages', file[thread.name], C)
    BY <1>3, <2>2, <2>3, PathKept
  <2>5. ChainIn(pages', numPages', file[thread.name]) = C
    BY <2>2, <2>4, PathIsChain
  <2>6. QED
    BY <1>1, <1>10, <2>5 DEF InsertChain, Chain
<1>15. ThreadOK(own2)'
  <2>1. DataIn(pages', numPages', last) /\ DataIn(pages', numPages', numPages)
    BY <1>3, <1>5, <1>9 DEF PageAdded, IsData
  <2>2. /\ pages'[last].next = NoLink /\ pages'[numPages] = c
        /\ own2[numPages] = own2[last]
    BY <1>1, <1>4, <1>9 DEF PageAdded
  <2>3. last = Last(C)
    BY DEF last
  <2>4. QED
    BY <1>1, <1>3, <1>4, <1>5, <1>8, <1>10, <1>14, <2>1, <2>2, <2>3 DEF ThreadOK, IsData
<1>16. QED
  BY <1>9, <1>11, <1>12, <1>13, <1>15 DEF DbInv, PageAdded

\* The page is linked, and has room for the row.
LEMMA InsertLinksKeeps ==
  ASSUME DbInv, InsertLinks
  PROVE  DbInv'
<1> DEFINE C == InsertChain
           last == thread.last
           new == thread.new
           p0 == file[thread.name]
           c == WithNext(pages[last], new)
<1>1. /\ TypeOK /\ StoreOK /\ UNCHANGED <<numPages, catalog, file, lastRow, acked, kept>>
      /\ thread.step = "link" /\ PutPage(last, c)
      /\ thread' = [thread EXCEPT !.step = "insert"]
  BY DEF DbInv, InsertLinks
<1>2. PICK own \in Owners : HeaderOK(own) /\ DataOK(own) /\ FilesOK(own) /\ ThreadOK(own)
  BY DEF DbInv
<1>3. /\ IsPath(pages, numPages, p0, C) /\ C \in Seq(PageIds)
      /\ Len(C) \in Nat /\ Len(C) < MaxPages /\ C # << >>
      /\ \A i \in 1..Len(C) : IsData(C[i])
      /\ Len(C) \in 1..Len(C) /\ Last(C) = C[Len(C)]
  BY <1>1, <1>2, InsertWalks
<1>4. /\ IsData(last) /\ IsData(new) /\ last < new /\ own[new] = own[last]
      /\ pages[last].next = NoLink /\ pages[new].next = NoLink
      /\ HasRoom(pages[new]) /\ last = Last(C) /\ p0 # NoLink /\ lastRow # 0
  BY <1>1, <1>2 DEF ThreadOK
<1>5. /\ last \in PageIds /\ new \in PageIds /\ new \in Links /\ last \in Nat /\ new \in Nat
      /\ new < numPages /\ pages[last] \in PageContents /\ pages[last].kind = "data" /\ new # NoLink
  BY <1>1, <1>4, StoreTyped, PageIdsAre DEF IsData, DataIn
<1>6. /\ thread'.step = "insert" /\ thread'.name = thread.name /\ thread' \in Calls
      /\ ~Opening /\ ~Opening'
  BY <1>1, ThreadTyped DEF Calls, Opening
<1> HIDE DEF C, last, new, p0
<1>7. c \in PageContents /\ c.kind = "data" /\ c.next = new
  BY <1>5, LinkSet
<1> HIDE DEF c
<1>8. /\ pages' \in [PageIds -> PageContents] /\ pages'[last] = c
      /\ \A p \in PageIds : p # last => pages'[p] = pages[p]
      /\ StoreOK' /\ HeaderOK(own)' /\ DataOK(own)' /\ FilesOK(own)'
  <2>1. c.next # NoLink => c.next > last /\ IsData(c.next) /\ own[c.next] = own[last]
    BY <1>4, <1>5, <1>7
  <2>2. thread.step \in {"insert", "link"} /\ thread'.step \notin {"register", "flush", "initialise"}
    BY <1>1, <1>6
  <2>3. QED
    BY <1>1, <1>2, <1>4, <1>7, <2>1, <2>2, DataPageKeeps
<1>9. TypeOK'
  BY <1>1, <1>6, <1>8 DEF TypeOK, PutPage
<1>10. pages'[new] = pages[new]
  BY <1>4, <1>5, <1>8
<1> DEFINE D == Append(C, new)
<1>11. InsertChain' = D
  <2>1. \A i \in 1..(Len(C) - 1) : pages'[C[i]].next = pages[C[i]].next
    <3>1. ASSUME NEW i \in 1..(Len(C) - 1)
          PROVE  C[i] # last /\ C[i] \in PageIds
      <4>1. i \in 0..(Len(C) - 1) /\ i \in 1..Len(C) /\ i + 1 \in 1..Len(C) /\ i # 0
        BY <1>3
      <4>2. After(pages, p0, C, i) = C[i + 1] /\ C[i + 1] \in PageIds /\ C[i] \in PageIds
        BY <1>3, <4>1, SeqElements DEF IsPath
      <4>3. pages[C[i]].next # NoLink
        BY <4>1, <4>2, PageIdsAre DEF After
      <4>4. QED
        BY <1>4, <4>2, <4>3
    <3>2. QED
      BY <1>8, <3>1
  <2>2. pages'[C[Len(C)]].next = new /\ pages'[new].next = NoLink
    BY <1>3, <1>4, <1>7, <1>8, <1>10
  <2>3. numPages \in Nat
    BY <1>1, StoreTyped
  <2>4. IsPath(pages', numPages, p0, D)
    BY <1>3, <1>5, <2>1, <2>2, <2>3, PathGrows
  <2>5. ChainIn(pages', numPages, p0) = D
    BY <2>3, <2>4, PathIsChain
  <2>6. QED
    BY <1>1, <1>6, <2>5 DEF InsertChain, Chain, p0
<1>12. ~NoRoom'
  <2>1. Len(D) \in DOMAIN D /\ D[Len(D)] = new
    <3>1. DOMAIN D = 1..(Len(C) + 1) /\ Len(D) = Len(C) + 1 /\ D[Len(C) + 1] = new
      BY <1>3, <1>5, SeqAppend
    <3>2. QED
      BY <1>3, <3>1
  <2> HIDE DEF D
  <2>2. HasRoom(pages'[D[Len(D)]])
    BY <1>4, <1>10, <2>1
  <2>3. QED
    BY <1>11, <2>1, <2>2 DEF NoRoom
<1>13. ThreadOK(own)'
  BY <1>1, <1>4, <1>6, <1>12 DEF ThreadOK, p0
<1>14. QED
  BY <1>2, <1>8, <1>9, <1>13 DEF DbInv

------------------------------------------------------------------------------
(* The theorems *)

\* Nothing but the listed variables changed.
LEMMA StutterKeeps ==
  ASSUME DbInv, UNCHANGED vars
  PROVE  DbInv'
<1>1. PICK own \in Owners : HeaderOK(own) /\ DataOK(own) /\ FilesOK(own) /\ ThreadOK(own)
  BY DEF DbInv
<1>2. \A p : IsData(p)' <=> IsData(p)
  BY DEF vars, IsData
<1>3. TypeOK' /\ StoreOK'
  BY DEF DbInv, vars, TypeOK, StoreOK, Opening
<1>4. UNCHANGED <<pages, numPages, thread>>
  BY DEF vars
<1>5. HeaderOK(own)' /\ DataOK(own)'
  BY <1>1, <1>4, SamePages
<1>6. FilesOK(own)'
  BY <1>1, <1>2 DEF vars, FilesOK
<1>7. ThreadOK(own)'
  BY <1>1, <1>2 DEF vars, ThreadOK, Opening, NoRoom, InsertChain, Chain
<1>8. QED
  BY <1>1, <1>3, <1>5, <1>6, <1>7 DEF DbInv

\* DbInv is inductive.
LEMMA DbInvInductive ==
  ASSUME ~Crashes, DbInv, [Next]_vars
  PROVE  DbInv'
<1>1. CASE UNCHANGED vars
  BY <1>1, StutterKeeps
<1>2. ASSUME NEW n \in Names, AddSchema(n) PROVE DbInv'
  BY <1>2, AddSchemaKeeps
<1>3. ASSUME NEW n \in Names, OpenFinds(n) PROVE DbInv'
  BY <1>3, OpenFindsKeeps
<1>4. ASSUME NEW n \in Names, OpenAllocates(n) PROVE DbInv'
  BY <1>4, OpenAllocatesKeeps
<1>5. ASSUME NEW t \in Temps, OpenTemporary(t) PROVE DbInv'
  BY <1>5, OpenTemporaryKeeps
<1>6. ASSUME NEW f \in Files, CallInsert(f) PROVE DbInv'
  BY <1>6, CallInsertKeeps
<1>7. CASE AddsEntry
  BY <1>7, AddsEntryKeeps
<1>8. CASE AddsHeaderPage
  BY <1>8, AddsHeaderPageKeeps
<1>9. CASE FlushesEntry
  BY <1>9, FlushesEntryKeeps
<1>10. CASE InitialisesFirstPage
  BY <1>10, InitialisesFirstPageKeeps
<1>11. CASE InsertStores
  BY <1>11, InsertStoresKeeps
<1>12. CASE InsertGrows
  BY <1>12, InsertGrowsKeeps
<1>13. CASE InsertLinks
  BY <1>13, InsertLinksKeeps
<1>14. CASE InsertRaises
  BY <1>14, InsertRaisesKeeps
<1>15. CASE EvictPage
  BY <1>15, EvictPageKeeps
<1>16. CASE CallerFlushes
  BY <1>16, CallerFlushesKeeps
<1>17. CASE Restart
  BY <1>17, RestartKeeps
<1>18. CASE Crash
  BY <1>18 DEF Crash
<1>19. QED
  BY <1>1, <1>2, <1>3, <1>4, <1>5, <1>6, <1>7, <1>8, <1>9, <1>10, <1>11, <1>12, <1>13,
     <1>14, <1>15, <1>16, <1>17, <1>18 DEF Next

\* While the process always closes the database, the files and their pages are
\* as DbInv says: DatabaseManager, Catalog, HeapFile.__init__ and the inserter.
THEOREM CatalogInvariance ==
  ASSUME ~Crashes
  PROVE  Spec => []DbInv
<1>1. DbInv /\ [Next]_vars => DbInv'
  BY DbInvInductive
<1>2. QED
  BY <1>1, InitIsInv, PTL DEF Spec

\* The pages, the file and the call that runs are always what TypeOK says: page
\* ids never leave the file while HeapFile.__init__ or insert adds pages.
THEOREM DatabaseTyped ==
  ASSUME ~Crashes
  PROVE  Spec => []TypeOK
<1>1. DbInv => TypeOK
  BY DEF DbInv
<1>2. QED
  BY <1>1, CatalogInvariance, PTL

\* insert_catalog_entry "expects catalog entry's PageId to exist": whatever
\* find_catalog_entry returns is the id of a page the file has.
THEOREM EntriesLeadToPages ==
  ASSUME ~Crashes
  PROVE  Spec => []EntryPagesExist
<1>1. ASSUME DbInv PROVE EntryPagesExist
  <2>1. TypeOK
    BY <1>1 DEF DbInv
  <2>2. PICK own \in Owners : HeaderOK(own)
    BY <1>1 DEF DbInv
  <2>3. ASSUME NEW n \in Names PROVE FindEntry(n) < numPages
    <3>1. CASE FindEntry(n) = NoLink
      <4>1. numPages \in Nat
        BY <2>1, StoreTyped
      <4>2. QED
        BY <3>1, <4>1 DEF NoLink
    <3>2. CASE FindEntry(n) # NoLink
      BY <2>1, <2>2, <3>2, EntryLeads
    <3>3. QED
      BY <3>1, <3>2
  <2>4. QED
    BY <2>3 DEF EntryPagesExist
<1>2. QED
  BY <1>1, CatalogInvariance, PTL

\* Tables of different names, and temporary files, share no page: at every step
\* of their creation and growth, and after every restart.
THEOREM TablesShareNoPage ==
  ASSUME ~Crashes
  PROVE  Spec => []TablesDisjoint
<1>1. ASSUME DbInv PROVE TablesDisjoint
  <2>1. TypeOK /\ StoreOK
    BY <1>1 DEF DbInv
  <2>2. PICK own \in Owners : HeaderOK(own) /\ DataOK(own) /\ FilesOK(own) /\ ThreadOK(own)
    BY <1>1 DEF DbInv
  <2> DEFINE Fresh(p) == thread.step \in {"flush", "initialise"} /\ p = thread.first
  <2>3. ASSUME NEW f \in Files
        PROVE  \/ FirstPage(f) = NoLink
               \/ IsData(FirstPage(f)) /\ own[FirstPage(f)] = f
               \/ Fresh(FirstPage(f)) /\ own[FirstPage(f)] = f
    <3>1. CASE f \in Temps
      BY <2>2, <3>1 DEF FirstPage, FilesOK
    <3>2. CASE f \notin Temps
      <4>1. FirstPage(f) = FindEntry(f)
        BY <3>2 DEF FirstPage
      <4>2. QED
        BY <2>1, <2>2, <4>1, EntryLeads
    <3>3. QED
      BY <3>1, <3>2
  <2>4. ASSUME NEW p, Fresh(p)
        PROVE  p \in PageIds /\ p < numPages /\ pages[p] = ZeroBytes /\ p # Header
    BY <2>2, <2>4, FreshPages DEF ThreadOK, Opening, HeaderOK
  <2>5. \A x : ~(IsData(x) /\ (x = Header \/ Fresh(x)))
    BY <2>2, <2>4, FreshPages DEF HeaderOK, IsData, DataIn
  <2>6. ASSUME NEW p, p = NoLink
        PROVE  Range(Chain(p)) = {}
    <3>1. Chain(p) = << >>
      BY <2>1, <2>6, StoreTyped, NoLinkChain DEF Chain
    <3>2. QED
      BY <3>1 DEF Range
  <2>7. ASSUME NEW p, IsData(p)
        PROVE  \A x \in Range(Chain(p)) : IsData(x) /\ own[x] = own[p]
    <3>1. /\ Chain(p) \in Seq(PageIds)
          /\ \A i \in 1..Len(Chain(p)) : IsData(Chain(p)[i]) /\ own[Chain(p)[i]] = own[p]
      BY <2>1, <2>2, <2>7, DataChain
    <3>2. QED
      BY <3>1, SeqElements DEF Range
  <2>8. ASSUME NEW p, Fresh(p)
        PROVE  \A x \in Range(Chain(p)) : x = Header \/ Fresh(x)
    <3>1. p \in PageIds /\ p < numPages /\ pages[p] = ZeroBytes /\ p # Header
      BY <2>4, <2>8
    <3>2. numPages \in Nat /\ numPages <= MaxPages /\ Header < numPages /\ pages[Header].next = NoLink
      BY <2>1, <2>2, StoreTyped DEF HeaderOK
    <3>3. /\ ChainIn(pages, numPages, p) \in Seq(PageIds)
          /\ \A i \in 1..Len(ChainIn(pages, numPages, p)) : ChainIn(pages, numPages, p)[i] \in {p, Header}
      BY <3>1, <3>2, ZeroChain
    <3>4. \A x \in Range(ChainIn(pages, numPages, p)) : x \in {p, Header}
      BY <3>3, SeqElements DEF Range
    <3>5. QED
      BY <2>8, <3>4 DEF Chain
  <2> HIDE DEF Fresh
  <2>9. ASSUME NEW f \in Files, NEW g \in Files, f # g
        PROVE  Range(Chain(FirstPage(f))) \cap Range(Chain(FirstPage(g))) = {}
    <3> DEFINE p == FirstPage(f)
               q == FirstPage(g)
    <3>1. /\ p = NoLink \/ (IsData(p) /\ own[p] = f) \/ (Fresh(p) /\ own[p] = f)
          /\ q = NoLink \/ (IsData(q) /\ own[q] = g) \/ (Fresh(q) /\ own[q] = g)
      BY <2>3
    <3> HIDE DEF p, q
    <3>2. CASE p = NoLink \/ q = NoLink
      BY <2>6, <3>2 DEF p, q
    <3>3. CASE IsData(p) /\ own[p] = f /\ IsData(q) /\ own[q] = g
      BY <2>7, <2>9, <3>3 DEF p, q
    <3>4. CASE IsData(p) /\ Fresh(q)
      BY <2>5, <2>7, <2>8, <3>4 DEF p, q
    <3>5. CASE Fresh(p) /\ IsData(q)
      BY <2>5, <2>7, <2>8, <3>5 DEF p, q
    <3>6. CASE Fresh(p) /\ own[p] = f /\ Fresh(q) /\ own[q] = g
      BY <2>9, <3>6 DEF Fresh
    <3>7. QED
      BY <3>1, <3>2, <3>3, <3>4, <3>5, <3>6
  <2>10. QED
    BY <2>9 DEF TablesDisjoint
<1>2. QED
  BY <1>1, CatalogInvariance, PTL

\* While no two names have equal schemas, get_heap_file never gives the file of
\* one name, or a temporary one, for another.
THEOREM NamesKeepFiles ==
  ASSUME ~Crashes, IsInjective(SchemaOf)
  PROVE  Spec => []NamesOwnFiles
<1>1. ASSUME DbInv PROVE NamesOwnFiles
  <2>1. PICK own \in Owners : FilesOK(own)
    BY <1>1 DEF DbInv
  <2>2. ASSUME NEW f \in Files, file[f] # NoLink
        PROVE  own[file[f]] = f
    <3>1. CASE f \in Temps
      BY <2>1, <2>2, <3>1 DEF FilesOK
    <3>2. CASE f \in Names
      <4>1. SameSchema(own[file[f]], f)
        BY <2>1, <2>2, <3>2 DEF FilesOK
      <4>2. QED
        BY <4>1, DatabaseAssumption DEF SameSchema, IsInjective
    <3>3. QED
      BY <3>1, <3>2 DEF Files
  <2>3. QED
    BY <2>2 DEF NamesOwnFiles
<1>2. QED
  BY <1>1, CatalogInvariance, PTL

(***************************************************************************)
(* Over crashes.  A row stays where it was stored, so what has to hold for *)
(* it to be found again is that its page can always be reached from the    *)
(* entry of its table: by links that no step takes away, in the process    *)
(* and in what of them is on disk.                                         *)
(***************************************************************************)
------------------------------------------------------------------------------
(* The invariant that crashes keep *)

Records == Row \cup Entry

\* The page HeapFile.__init__ has allocated and not written yet.
FreshPage == IF Opening THEN thread.first ELSE NoLink

\* The links of a store that no step takes away: those of all pages but the fresh
\* one, whose zero bytes lead to the header page until it is initialised.
PageLinks(pg, len, fresh) ==
  {e \in PageIds \X PageIds :
     e[1] < len /\ e[2] < len /\ e[1] # fresh /\ pg[e[1]].next = e[2]}

\* The links readers can follow, and those of them a crash leaves.
ReadLinks == PageLinks(pages, numPages, FreshPage)
KeptLinks == PageLinks(pages, fileLen, FreshPage) \cap PageLinks(durable, fileLen, FreshPage)

\* R leads from p to q.
Closed(R, S) == \A e \in R : e[1] \in S => e[2] \in S
Reach(R, p, q) == \A S \in SUBSET PageIds : p \in S /\ Closed(R, S) => q \in S

\* The header page has an entry of the name n, which leads to p.
EntryAt(pg, i) == i \in DOMAIN pg[Header].slots /\ ~IsRow(pg[Header].slots[i])
IsEntryOf(pg, i, n, p) ==
  EntryAt(pg, i) /\ pg[Header].slots[i].name = n /\ pg[Header].slots[i].first = p
HasEntry(pg, n, p) == \E i \in DOMAIN pg[Header].slots : IsEntryOf(pg, i, n, p)

RowAt(pg, q, j, r) == j \in DOMAIN pg[q].slots /\ pg[q].slots[j] = [row |-> r]

\* R leads from the entry of n to the row.
LeadsTo(pg, len, R, n, r) ==
  \E p \in PageIds, q \in PageIds :
    /\ HasEntry(pg, n, p) /\ q < len /\ Reach(R, p, q)
    /\ \E j \in DOMAIN pg[q].slots : RowAt(pg, q, j, r)

\* Pages the file does not have are zero; a link leads on, but for that of zeros.
Shaped(pg, len) ==
  /\ pg[Header].kind = "header" /\ pg[Header].next = NoLink
  /\ \A p \in PageIds :
       /\ p >= len => pg[p] = ZeroBytes
       /\ pg[p].kind = "zero" => pg[p] = ZeroBytes
       /\ pg[p].kind = "header" => p = Header
       /\ pg[p].kind = "data" => pg[p].next = NoLink \/ pg[p].next > p

\* The slots of a page are only ever added to.
SlotsGrow(a, c) ==
  Len(a.slots) <= Len(c.slots) /\ \A j \in 1..Len(a.slots) : c.slots[j] = a.slots[j]
Grows(pg, pg2) == \A p \in PageIds : SlotsGrow(pg[p], pg2[p])

\* a is c at some earlier time.
Older(a, c) ==
  \/ a = ZeroBytes
  \/ /\ a.kind = c.kind
     /\ a.next = NoLink \/ a.next = c.next
     /\ SlotsGrow(a, c)

StoreR ==
  /\ fileLen <= numPages
  /\ Shaped(pages, numPages) /\ Shaped(durable, fileLen)
  /\ \A p \in PageIds : Older(durable[p], pages[p])
  /\ \A p \in PageIds : p < numPages /\ pages[p].kind = "zero" => p < fileLen \/ p = FreshPage

Inserting == thread.step \in {"insert", "link"}

\* A row is in one slot of one page.
RowsOnce(pg) ==
  \A p, q \in PageIds : \A j \in DOMAIN pg[p].slots, k \in DOMAIN pg[q].slots :
    IsRow(pg[p].slots[j]) /\ pg[p].slots[j] = pg[q].slots[k] => p = q /\ j = k

\* The rows stored are among those passed to insert, the last one when it ends.
StoredRow(r) == r \in 1..lastRow /\ (Inserting => r # lastRow)
RowsKnown ==
  \A p \in PageIds : \A j \in DOMAIN pages[p].slots :
    IsRow(pages[p].slots[j]) => StoredRow(pages[p].slots[j].row)

\* A name has one entry, the search gets to it, and it leads to a page.
HeaderIn(pg) ==
  \A i \in DOMAIN pg[Header].slots : EntryAt(pg, i) =>
    /\ pg[Header].slots[i].first \in PageIds
    /\ i \in Legible(pg[Header].slots)
    /\ \A j \in DOMAIN pg[Header].slots :
         EntryAt(pg, j) /\ pg[Header].slots[j].name = pg[Header].slots[i].name => j = i

AckedR ==
  /\ \A n \in Names : kept[n] \subseteq acked[n]
  /\ \A n \in Names : \A r \in acked[n] : LeadsTo(pages, numPages, ReadLinks, n, r)
  /\ \A n \in Names : \A r \in kept[n] : LeadsTo(durable, fileLen, KeptLinks, n, r)

FilesR ==
  \A f \in Files : file[f] # NoLink =>
    /\ file[f] \in PageIds
    /\ f \in Names => Registered(f) /\ HasEntry(pages, NameOfSchema(f), file[f])

\* Until insert has stored its row it can add a page, or needs none.
InsertCan ==
  \/ numPages < MaxPages
  \/ \E q \in PageIds : q < numPages /\ Reach(ReadLinks, file[thread.name], q) /\ HasRoom(pages[q])

ThreadR ==
  /\ Opening =>
       /\ thread.first \in PageIds /\ thread.first < numPages
       /\ pages[thread.first] = ZeroBytes
       /\ Registered(thread.name) /\ thread.entry = NameOfSchema(thread.name)
  /\ thread.step = "register" =>
       /\ Legible(pages[Header].slots) = DOMAIN pages[Header].slots
       /\ \A i \in DOMAIN pages[Header].slots :
             EntryAt(pages, i) => pages[Header].slots[i].name # thread.entry
  /\ thread.step \in {"flush", "initialise"} => HasEntry(pages, thread.entry, thread.first)
  /\ Inserting => file[thread.name] # NoLink /\ lastRow # 0
  /\ thread.step = "insert" => InsertCan
  /\ thread.step = "link" =>
       /\ thread.last \in PageIds /\ thread.new \in PageIds
       /\ thread.last < thread.new /\ thread.new < numPages
       /\ pages[thread.last].kind = "data" /\ pages[thread.last].next = NoLink
       /\ pages[thread.new].kind = "data" /\ HasRoom(pages[thread.new])
       /\ Reach(ReadLinks, file[thread.name], thread.last)

RecInv ==
  /\ TypeOK
  /\ StoreR /\ RowsOnce(pages) /\ RowsKnown /\ HeaderIn(pages)
  /\ AckedR /\ FilesR /\ ThreadR

------------------------------------------------------------------------------
(* Pages and links *)

\* The two kinds of records.
LEMMA RecordKinds ==
  /\ \A r \in Row : IsRow(r) /\ r.row \in Nat /\ r = [row |-> r.row]
  /\ \A r \in Entry : ~IsRow(r) /\ r.name \in Names /\ r.first \in Links
  /\ \A r \in Nat : [row |-> r] \in Row /\ IsRow([row |-> r]) /\ [row |-> r].row = r
  /\ \A n \in Names : \A p \in Links :
       LET e == [name |-> n, first |-> p]
       IN  e \in Entry /\ ~IsRow(e) /\ e.name = n /\ e.first = p
BY DEF Row, Entry, IsRow

\* The parts of a page.
LEMMA PageParts ==
  ASSUME NEW pg \in [PageIds -> PageContents], NEW p \in PageIds
  PROVE  /\ pg[p] \in PageContents /\ pg[p].kind \in {"zero", "header", "data"}
         /\ pg[p].next \in Links /\ pg[p].next \in Int
         /\ pg[p].slots \in Seq(Records) /\ Len(pg[p].slots) \in Nat
         /\ DOMAIN pg[p].slots = 1..Len(pg[p].slots)
         /\ \A j \in DOMAIN pg[p].slots : pg[p].slots[j] \in Records
<1>1. pg[p] \in PageContents
  OBVIOUS
<1>2. pg[p].slots \in Seq(Records) /\ pg[p].next \in Links /\ pg[p].kind \in {"zero", "header", "data"}
  BY <1>1 DEF PageContents, Records
<1>3. pg[p].next \in Int
  BY <1>2, CapacityAssumption DEF Links
<1>4. QED
  BY <1>1, <1>2, <1>3, SeqElements

\* More links reach as far.
LEMMA ReachGrows ==
  ASSUME NEW R, NEW R2, R \subseteq R2, NEW p, NEW q, Reach(R, p, q)
  PROVE  Reach(R2, p, q)
BY DEF Reach, Closed

\* ... and one more link further.
LEMMA ReachOn ==
  ASSUME NEW R, NEW p, NEW q, NEW s, Reach(R, p, q), <<q, s>> \in R
  PROVE  Reach(R, p, s)
BY DEF Reach, Closed

\* Every page leads to itself.
LEMMA ReachSelf ==
  ASSUME NEW R, NEW p
  PROVE  Reach(R, p, p)
BY DEF Reach

\* What is added to a store hides no row of it.
LEMMA LeadsGrows ==
  ASSUME NEW pg \in [PageIds -> PageContents], NEW pg2 \in [PageIds -> PageContents], Grows(pg, pg2),
         NEW len \in Nat, NEW len2 \in Nat, len <= len2, NEW R, NEW R2, R \subseteq R2,
         NEW n, NEW r, LeadsTo(pg, len, R, n, r)
  PROVE  LeadsTo(pg2, len2, R2, n, r)
<1>1. PICK p \in PageIds, q \in PageIds :
        /\ HasEntry(pg, n, p) /\ q < len /\ Reach(R, p, q)
        /\ \E j \in DOMAIN pg[q].slots : RowAt(pg, q, j, r)
  BY DEF LeadsTo
<1>2. \A x \in PageIds : \A j \in DOMAIN pg[x].slots :
        j \in DOMAIN pg2[x].slots /\ pg2[x].slots[j] = pg[x].slots[j]
  <2>1. ASSUME NEW x \in PageIds
        PROVE  \A j \in DOMAIN pg[x].slots :
                 j \in DOMAIN pg2[x].slots /\ pg2[x].slots[j] = pg[x].slots[j]
    <3>1. /\ Len(pg[x].slots) \in Nat /\ DOMAIN pg[x].slots = 1..Len(pg[x].slots)
          /\ Len(pg2[x].slots) \in Nat /\ DOMAIN pg2[x].slots = 1..Len(pg2[x].slots)
      BY PageParts
    <3>2. SlotsGrow(pg[x], pg2[x])
      BY DEF Grows
    <3>3. QED
      BY <3>1, <3>2 DEF SlotsGrow
  <2>2. QED
    BY <2>1
<1>3. Header \in PageIds
  BY CapacityAssumption DEF Header, PageIds
<1>4. HasEntry(pg2, n, p)
  BY <1>1, <1>2, <1>3 DEF HasEntry, IsEntryOf, EntryAt
<1>5. Reach(R2, p, q)
  BY <1>1, ReachGrows
<1>6. q < len2
  BY <1>1, PageIdsAre
<1>7. \E j \in DOMAIN pg2[q].slots : RowAt(pg2, q, j, r)
  BY <1>1, <1>2 DEF RowAt
<1>8. QED
  BY <1>4, <1>5, <1>6, <1>7 DEF LeadsTo


------------------------------------------------------------------------------
(* Chains that end in the file or past its end *)

\* Links lead to pages of a higher rank; the header page, to which zero bytes
\* lead, has the highest.
Rank(p) == IF p = Header THEN MaxPages ELSE p

\* A chain meets no page twice.
Ranked(C) == \A i, j \in 1..Len(C) : i < j => Rank(C[i]) < Rank(C[j])

\* Where a link leads that the walk follows.
LEMMA LinkRanks ==
  ASSUME NEW pg \in [PageIds -> PageContents], NEW len \in 1..MaxPages, Shaped(pg, len),
         NEW p \in PageIds, p < len, pg[p].next # NoLink, pg[p].next < len
  PROVE  pg[p].next \in PageIds /\ Rank(p) < Rank(pg[p].next)
<1> DEFINE q == pg[p].next
<1>1. /\ q \in Links /\ q # NoLink /\ MaxPages \in Nat \ {0} /\ len <= MaxPages
      /\ pg[p].kind \in {"zero", "header", "data"} /\ p \in Nat /\ p < MaxPages
  BY PageParts, PageIdsAre, CapacityAssumption
<1>2. q \in PageIds /\ q \in Nat /\ q < MaxPages
  BY <1>1, CapacityAssumption DEF Links, NoLink, PageIds
<1>3. CASE pg[p].kind = "zero"
  <2>1. q = 0 /\ p # Header
    BY <1>3, FreshPages DEF Shaped
  <2>2. QED
    BY <1>1, <1>2, <2>1 DEF Rank, Header
<1>4. CASE pg[p].kind = "header"
  BY <1>1, <1>4 DEF Shaped
<1>5. CASE pg[p].kind = "data"
  <2>1. q > p /\ p # Header
    BY <1>1, <1>5 DEF Shaped
  <2> HIDE DEF q
  <2>2. QED
    BY <1>1, <1>2, <2>1 DEF Rank, Header, q
<1>6. QED
  BY <1>1, <1>3, <1>4, <1>5

\* The first pages of a walk.
Begins(pg, len, p, C) ==
  /\ C \in Seq(PageIds)
  /\ \A k \in 0..(Len(C) - 1) : After(pg, p, C, k) = C[k + 1] /\ C[k + 1] < len
  /\ Ranked(C)
Ends(pg, len, p, C) == After(pg, p, C, Len(C)) = NoLink \/ After(pg, p, C, Len(C)) >= len

\* A walk goes on to its end.
LEMMA BeginsOn ==
  ASSUME NEW pg \in [PageIds -> PageContents], NEW len \in 1..MaxPages, Shaped(pg, len),
         NEW p \in Links, NEW C, Begins(pg, len, p, C), ~Ends(pg, len, p, C)
  PROVE  \E D : Begins(pg, len, p, D) /\ Len(D) = Len(C) + 1
<1> DEFINE n == Len(C)
           q == After(pg, p, C, n)
           D == Append(C, q)
<1>1. /\ n \in Nat /\ C \in Seq(PageIds) /\ \A i \in 1..n : C[i] \in PageIds
      /\ q # NoLink /\ ~(q >= len) /\ len \in Nat
  BY SeqElements, CapacityAssumption DEF Begins, Ends
<1>2. q \in Links
  BY <1>1, PageParts DEF After
<1>3. q \in PageIds /\ q < len
  BY <1>1, <1>2, CapacityAssumption DEF Links, NoLink, PageIds
<1> HIDE DEF q
<1>4. /\ D \in Seq(PageIds) /\ Len(D) = n + 1 /\ D[n + 1] = q
      /\ \A i \in 1..n : D[i] = C[i]
  BY <1>1, <1>3, SeqAppend
<1> HIDE DEF D
<1>5. ASSUME NEW k \in 0..n
      PROVE  After(pg, p, D, k) = D[k + 1] /\ D[k + 1] < len
  <2>1. After(pg, p, D, k) = After(pg, p, C, k)
    BY <1>1, <1>4 DEF After
  <2>2. CASE k = n
    BY <1>3, <1>4, <2>1, <2>2 DEF q
  <2>3. CASE k < n
    <3>1. k \in 0..(n - 1) /\ k + 1 \in 1..n
      BY <1>1, <2>3
    <3>2. QED
      BY <1>4, <2>1, <3>1 DEF Begins
  <2>4. QED
    BY <1>1, <2>2, <2>3
<1>6. ASSUME n # 0
      PROVE  Rank(C[n]) < Rank(q)
  <2>1. n \in 1..n /\ n - 1 \in 0..(n - 1) /\ (n - 1) + 1 = n
    BY <1>1, <1>6
  <2>2. C[n] \in PageIds /\ C[n] < len
    BY <1>1, <2>1 DEF Begins
  <2>3. q = pg[C[n]].next
    BY <1>6 DEF q, After
  <2>4. QED
    BY <1>1, <1>3, <2>2, <2>3, LinkRanks
<1>7. \A x \in PageIds : Rank(x) \in Nat
  BY PageIdsAre, CapacityAssumption DEF Rank
<1>8. ASSUME NEW i \in 1..(n + 1), NEW j \in 1..(n + 1), i < j
      PROVE  Rank(D[i]) < Rank(D[j])
  <2>1. i \in 1..n /\ D[i] = C[i]
    BY <1>1, <1>4, <1>8
  <2>2. CASE j = n + 1
    <3>1. n # 0 /\ n \in 1..n
      BY <1>1, <2>1
    <3>2. Rank(C[n]) < Rank(q)
      BY <1>6, <3>1
    <3>3. C[i] = C[n] \/ Rank(C[i]) < Rank(C[n])
      <4>1. i = n \/ i < n
        BY <1>1, <2>1
      <4>2. QED
        BY <2>1, <3>1, <4>1 DEF Begins, Ranked
    <3>4. Rank(C[i]) \in Nat /\ Rank(C[n]) \in Nat /\ Rank(q) \in Nat
      BY <1>1, <1>3, <1>7, <2>1, <3>1
    <3>5. QED
      BY <1>4, <2>1, <2>2, <3>2, <3>3, <3>4
  <2>3. CASE j # n + 1
    <3>1. j \in 1..n
      BY <1>1, <2>3
    <3>2. QED
      BY <1>4, <1>8, <2>1, <3>1 DEF Begins, Ranked
  <2>4. QED
    BY <2>2, <2>3
<1>9. Begins(pg, len, p, D)
  <2>1. (n + 1) - 1 = n
    BY <1>1
  <2>2. QED
    BY <1>4, <1>5, <1>8, <2>1 DEF Begins, Ranked
<1>10. QED
  BY <1>4, <1>9

\* The ranks along a walk.
LEMMA RankAtLeast ==
  ASSUME NEW C \in Seq(PageIds), Ranked(C), NEW k \in 1..Len(C)
  PROVE  Rank(C[k]) \in Nat /\ Rank(C[k]) >= k
<1> DEFINE n == Len(C)
           T == {i \in 0..n : i = 0 \/ Rank(C[i]) >= i}
<1>1. n \in Nat /\ \A i \in 1..n : C[i] \in PageIds
  BY SeqElements
<1>2. \A x \in PageIds : Rank(x) \in Nat /\ Rank(x) >= 1
  BY PageIdsAre, CapacityAssumption DEF Rank, Header
<1>3. 0 \in T
  BY <1>1
<1>4. ASSUME NEW i \in 1..n, i - 1 \in T
      PROVE  i \in T
  <2>1. CASE i = 1
    BY <1>1, <1>2, <2>1
  <2>2. CASE i # 1
    <3>1. i - 1 \in 1..n /\ i - 1 < i /\ i - 1 # 0
      BY <1>1, <2>2
    <3>2. Rank(C[i - 1]) < Rank(C[i])
      BY <3>1 DEF Ranked
    <3>3. Rank(C[i - 1]) >= i - 1
      BY <1>4, <3>1
    <3>4. Rank(C[i - 1]) \in Nat /\ Rank(C[i]) \in Nat
      BY <1>1, <1>2, <3>1
    <3>5. QED
      BY <1>1, <3>1, <3>2, <3>3, <3>4
  <2>3. QED
    BY <2>1, <2>2
<1> HIDE DEF T
<1>5. 0..n \subseteq T
  BY <1>1, <1>3, <1>4, UpTo
<1>6. k \in T /\ k # 0
  BY <1>1, <1>5
<1>7. QED
  BY <1>1, <1>2, <1>6 DEF T

\* C is the walk from p, which meets no page twice.
Walks(pg, len, p, C) == IsChain(pg, len, p, C) /\ Ranked(C)

\* A walk ends before it has met all pages.
LEMMA WalkExists ==
  ASSUME NEW pg \in [PageIds -> PageContents], NEW len \in 1..MaxPages, Shaped(pg, len),
         NEW p \in Links
  PROVE  \E C : Walks(pg, len, p, C)
<1> DEFINE Good(n, C) == /\ Begins(pg, len, p, C) /\ Len(C) <= n
                         /\ Len(C) = n \/ Ends(pg, len, p, C)
           T == {n \in 0..MaxPages : \E C : Good(n, C)}
<1>1. MaxPages \in Nat \ {0}
  BY CapacityAssumption
<1>2. 0 \in T
  <2> DEFINE C == << >>
  <2>1. C \in Seq(PageIds) /\ Len(C) = 0
    OBVIOUS
  <2> HIDE DEF C
  <2>2. Good(0, C)
    BY <2>1 DEF Begins, Ranked
  <2> HIDE DEF Good
  <2>3. QED
    BY <1>1, <2>2
<1>3. ASSUME NEW n \in 1..MaxPages, n - 1 \in T
      PROVE  n \in T
  <2>1. PICK C : Good(n - 1, C)
    BY <1>3
  <2>2. Len(C) \in Nat
    BY <2>1, SeqElements DEF Begins
  <2>3. CASE Ends(pg, len, p, C)
    <3>1. Good(n, C)
      BY <1>1, <2>1, <2>2, <2>3
    <3> HIDE DEF Good
    <3>2. QED
      BY <1>1, <3>1
  <2>4. CASE ~Ends(pg, len, p, C)
    <3>1. PICK D : Begins(pg, len, p, D) /\ Len(D) = Len(C) + 1
      BY <2>1, <2>4, BeginsOn
    <3>2. Len(D) = n
      BY <1>1, <2>1, <2>2, <2>4, <3>1
    <3>3. Good(n, D)
      BY <1>1, <3>1, <3>2
    <3> HIDE DEF Good
    <3>4. QED
      BY <1>1, <3>3
  <2>5. QED
    BY <2>3, <2>4
<1> HIDE DEF T
<1>4. 0..MaxPages \subseteq T
  BY <1>1, <1>2, <1>3, UpTo
<1>5. MaxPages \in T
  BY <1>1, <1>4
<1>6. PICK C : Good(MaxPages, C)
  BY <1>5 DEF T
<1>7. C \in Seq(PageIds) /\ Len(C) \in Nat /\ \A i \in 1..Len(C) : C[i] \in PageIds
  BY <1>6, SeqElements DEF Begins
<1>8. Ends(pg, len, p, C)
  <2>1. CASE Len(C) = MaxPages
    <3>1. MaxPages \in 1..Len(C) /\ Len(C) # 0
      BY <1>1, <2>1
    <3>2. Rank(C[MaxPages]) >= MaxPages
      BY <1>6, <1>7, <3>1, RankAtLeast DEF Begins
    <3>3. C[MaxPages] = Header
      <4>1. C[MaxPages] \in Nat /\ C[MaxPages] < MaxPages
        BY <1>7, <3>1, PageIdsAre
      <4>2. QED
        BY <1>1, <3>2, <4>1 DEF Rank
    <3>4. QED
      BY <2>1, <3>1, <3>3 DEF Ends, After, Shaped
  <2>2. QED
    BY <1>6, <2>1
<1>9. QED
  BY <1>6, <1>7, <1>8 DEF Walks, IsChain, Begins, Ends

\* Where the code's walks go in a store of that shape.
LEMMA ChainWalks ==
  ASSUME NEW pg \in [PageIds -> PageContents], NEW len \in 1..MaxPages, Shaped(pg, len),
         NEW p \in Links
  PROVE  Walks(pg, len, p, ChainIn(pg, len, p))
<1>1. PICK C : Walks(pg, len, p, C)
  BY WalkExists
<1>2. len \in Nat /\ IsChain(pg, len, p, C)
  BY <1>1, CapacityAssumption DEF Walks
<1>3. ChainIn(pg, len, p) = C
  BY <1>2, ChainIs
<1>4. QED
  BY <1>1, <1>3

\* A page on a walk is reached.
LEMMA WalkReaches ==
  ASSUME NEW pg, NEW len \in Nat, NEW p, NEW C, IsChain(pg, len, p, C), NEW k \in 1..Len(C)
  PROVE  /\ C[k] \in PageIds /\ C[k] < len /\ C[1] = p
         /\ Reach(PageLinks(pg, len, NoLink), p, C[k])
<1> DEFINE n == Len(C)
           R == PageLinks(pg, len, NoLink)
           T == {i \in 0..n : i = 0 \/ Reach(R, p, C[i])}
<1>1. n \in Nat /\ \A i \in 1..n : C[i] \in PageIds
  BY SeqElements DEF IsChain
<1>2. ASSUME NEW i \in 1..n
      PROVE  C[i] \in PageIds /\ C[i] < len /\ After(pg, p, C, i - 1) = C[i]
  <2>1. i - 1 \in 0..(n - 1) /\ (i - 1) + 1 = i
    BY <1>1
  <2>2. QED
    BY <1>1, <2>1 DEF IsChain
<1>3. 0 \in T
  BY <1>1
<1>4. C[1] = p
  <2>1. 1 \in 1..n
    BY <1>1
  <2>2. QED
    BY <1>2, <2>1 DEF After
<1>5. ASSUME NEW i \in 1..n, i - 1 \in T
      PROVE  i \in T
  <2>1. CASE i = 1
    BY <1>1, <1>4, <2>1, ReachSelf
  <2>2. CASE i # 1
    <3>1. i - 1 \in 1..n /\ i - 1 # 0
      BY <1>1, <2>2
    <3>2. C[i] = pg[C[i - 1]].next
      BY <1>2, <3>1 DEF After
    <3>3. C[i - 1] \in PageIds /\ C[i - 1] < len /\ C[i] \in PageIds /\ C[i] < len
      BY <1>2, <3>1
    <3>4. <<C[i - 1], C[i]>> \in R
      BY <3>2, <3>3, PageIdsAre DEF PageLinks
    <3>5. Reach(R, p, C[i - 1])
      BY <1>5, <3>1
    <3> HIDE DEF R
    <3>6. Reach(R, p, C[i])
      BY <3>4, <3>5, ReachOn
    <3>7. QED
      BY <1>1, <3>6
  <2>3. QED
    BY <2>1, <2>2
<1> HIDE DEF T
<1>6. 0..n \subseteq T
  BY <1>1, <1>3, <1>5, UpTo
<1>7. k \in T /\ k # 0
  BY <1>1, <1>6
<1>8. Reach(R, p, C[k])
  BY <1>7 DEF T
<1>9. QED
  BY <1>2, <1>4, <1>8

\* A page that is reached is on the walk.
LEMMA WalkMeets ==
  ASSUME NEW pg, NEW len \in Nat, NEW p \in PageIds, NEW C, IsChain(pg, len, p, C),
         NEW R, R \subseteq PageLinks(pg, len, NoLink), NEW q \in PageIds, q < len, Reach(R, p, q)
  PROVE  \E k \in 1..Len(C) : C[k] = q
<1> DEFINE n == Len(C)
           S == {x \in PageIds : \E k \in 1..n : C[k] = x}
<1>1. n \in Nat /\ \A i \in 1..n : C[i] \in PageIds
  BY SeqElements DEF IsChain
<1>2. p < len
  <2>1. SUFFICES ASSUME ~(p < len)
                 PROVE  FALSE
    OBVIOUS
  <2>2. {p} \in SUBSET PageIds /\ p \in {p} /\ Closed(R, {p})
    BY <2>1 DEF Closed, PageLinks
  <2>3. q \in {p}
    BY <2>2 DEF Reach
  <2>4. QED
    BY <2>1, <2>3
<1>3. n # 0 /\ C[1] = p
  <2>1. After(pg, p, C, 0) = p /\ p # NoLink /\ ~(p >= len)
    BY <1>2, PageIdsAre DEF After
  <2>2. n # 0
    BY <2>1 DEF IsChain
  <2>3. 0 \in 0..(n - 1) /\ 0 + 1 = 1
    BY <1>1, <2>2
  <2>4. QED
    BY <2>1, <2>2, <2>3 DEF IsChain
<1>4. p \in S /\ S \in SUBSET PageIds
  <2>1. 1 \in 1..n
    BY <1>1, <1>3
  <2>2. QED
    BY <1>3, <2>1
<1>5. ASSUME NEW e \in R, e[1] \in S
      PROVE  e[2] \in S
  <2>1. PICK k \in 1..n : C[k] = e[1]
    BY <1>5
  <2>2. /\ e[1] \in PageIds /\ e[2] \in PageIds /\ e[2] < len /\ pg[e[1]].next = e[2]
    BY DEF PageLinks
  <2>3. After(pg, p, C, k) = e[2]
    BY <1>1, <2>1, <2>2 DEF After
  <2>4. CASE k = n
    BY <2>2, <2>3, <2>4, PageIdsAre DEF IsChain
  <2>5. CASE k # n
    <3>1. k \in 0..(n - 1) /\ k + 1 \in 1..n
      BY <1>1, <2>5
    <3>2. C[k + 1] = e[2]
      BY <2>3, <3>1 DEF IsChain
    <3>3. QED
      BY <2>2, <3>1, <3>2
  <2>6. QED
    BY <2>4, <2>5
<1>6. q \in S
  <2> HIDE DEF S
  <2>1. QED
    BY <1>4, <1>5 DEF Reach, Closed
<1>7. QED
  BY <1>6

------------------------------------------------------------------------------
(* The records of a chain *)

\* A row that is in one slot of one page is once in a chain with that page.
LEMMA OccursOnce ==
  ASSUME NEW pg \in [PageIds -> PageContents], RowsOnce(pg), NEW C \in Seq(PageIds), Ranked(C),
         NEW k \in 1..Len(C), NEW r \in Nat, NEW j, RowAt(pg, C[k], j, r)
  PROVE  Occurs(r, RecordsIn(pg, C)) = 1
<1> DEFINE n == Len(C)
           ss == [i \in DOMAIN C |-> pg[C[i]].slots]
           row == [row |-> r]
           at(i) == Len(FlatTo(ss, i - 1))
           y0 == at(k) + j
           F == FlattenSeq(ss)
           I == {i \in DOMAIN F : F[i] = row}
<1>1. /\ n \in Nat /\ DOMAIN C = 1..n /\ \A i \in 1..n : C[i] \in PageIds
      /\ n \in k..n
  BY SeqElements
<1>2. /\ ss \in [1..n -> Seq(Records)]
      /\ \A i \in 1..n : ss[i] = pg[C[i]].slots
  BY <1>1, PageParts
<1>3. RecordsIn(pg, C) = F
  BY DEF RecordsIn
<1> HIDE DEF ss
<1>4. ss \in Seq(Seq(Records)) /\ Len(ss) = n
  BY <1>1, <1>2, FunctionIsSeq
<1>5. F = FlatTo(ss, n) /\ F \in Seq(Records)
  <2>1. /\ FlattenSeq(ss) = FlatTo(ss, Len(ss))
        /\ \A i \in 0..Len(ss) : FlatTo(ss, i) \in Seq(Records)
    BY <1>4, FlatSteps
  <2>2. n \in 0..Len(ss)
    BY <1>1, <1>4
  <2>3. QED
    BY <1>4, <2>1, <2>2
<1> HIDE DEF F
<1>6. DOMAIN F = 1..Len(F) /\ Len(F) \in Nat
  BY <1>5, SeqElements
<1>7. ASSUME NEW i \in 1..n, NEW x \in 1..Len(ss[i])
      PROVE  F[at(i) + x] = ss[i][x]
  <2>1. i \in 1..Len(ss) /\ n \in i..Len(ss)
    BY <1>1, <1>4
  <2>2. \A y \in 1..Len(ss[i]) : FlatTo(ss, n)[Len(FlatTo(ss, i - 1)) + y] = ss[i][y]
    BY <1>4, <2>1, FlatPlace
  <2>3. QED
    BY <1>5, <2>2
<1>8. j \in 1..Len(ss[k]) /\ ss[k][j] = row
  <2>1. j \in DOMAIN pg[C[k]].slots /\ pg[C[k]].slots[j] = row
    BY DEF RowAt
  <2>2. QED
    BY <1>1, <1>2, <2>1, PageParts
<1>9. y0 \in I
  <2>1. F[y0] = row
    BY <1>7, <1>8
  <2>2. at(k) \in Nat /\ Len(ss[k]) \in Nat /\ Len(FlatTo(ss, k)) = at(k) + Len(ss[k])
    BY <1>4, FlatNext
  <2>3. Len(FlatTo(ss, k)) <= Len(F)
    BY <1>1, <1>4, <1>5, FlatPlace
  <2> HIDE DEF at
  <2>4. at(k) + j \in 1..Len(F)
    BY <1>6, <1>8, <2>2, <2>3
  <2>5. QED
    BY <1>6, <2>1, <2>4
<1>10. ASSUME NEW y \in I
       PROVE  y = y0
  <2>1. y \in 1..Len(FlatTo(ss, n)) /\ n \in 0..Len(ss)
    BY <1>1, <1>4, <1>5, <1>6
  <2>2. PICK i \in 1..n : \E x \in 1..Len(ss[i]) : y = at(i) + x
    BY <1>4, <2>1, FlatFrom
  <2>3. PICK x \in 1..Len(ss[i]) : y = at(i) + x
    BY <2>2
  <2>4. ss[i][x] = row
    BY <1>7, <2>3
  <2>5. /\ C[i] \in PageIds /\ C[k] \in PageIds
        /\ x \in DOMAIN pg[C[i]].slots /\ j \in DOMAIN pg[C[k]].slots
        /\ pg[C[i]].slots[x] = row /\ pg[C[k]].slots[j] = row
    <3>1. C[i] \in PageIds /\ C[k] \in PageIds
      BY <1>1
    <3>2. DOMAIN pg[C[i]].slots = 1..Len(pg[C[i]].slots)
      BY <3>1, PageParts
    <3>3. QED
      BY <1>2, <2>4, <3>1, <3>2 DEF RowAt
  <2>6. IsRow(row)
    BY RecordKinds
  <2>7. C[i] = C[k] /\ x = j
    <3> HIDE DEF row
    <3>1. QED
      BY <2>5, <2>6 DEF RowsOnce
  <2>8. i = k
    <3>1. Rank(C[k]) \in Nat
      BY RankAtLeast
    <3>2. ~(i < k) /\ ~(k < i)
      BY <2>7, <3>1 DEF Ranked
    <3>3. QED
      BY <1>1, <3>2
  <2>9. QED
    BY <2>3, <2>7, <2>8
<1>11. I = {y0}
  <2> HIDE DEF I, y0
  <2>1. QED
    BY <1>9, <1>10
<1>12. Cardinality(I) = 1
  <2> HIDE DEF I, y0
  <2>1. QED
    BY <1>11, FS_Singleton
<1>13. Occurs(r, F) = Cardinality(I)
  BY DEF Occurs
<1>14. QED
  BY <1>3, <1>12, <1>13

\* All the search for an entry reads.
LEMMA HeaderRecords ==
  ASSUME NEW pg \in [PageIds -> PageContents], NEW len \in 1..MaxPages, Shaped(pg, len)
  PROVE  /\ Header \in PageIds /\ Header < len /\ ChainIn(pg, len, Header) = <<Header>>
         /\ RecordsIn(pg, ChainIn(pg, len, Header)) = pg[Header].slots
<1>1. Header \in PageIds /\ Header < len /\ len \in Nat
  BY CapacityAssumption DEF Header, PageIds
<1>2. ChainIn(pg, len, Header) = <<Header>>
  BY <1>1, HeaderChain DEF Shaped
<1>3. QED
  BY <1>1, <1>2, RecordsOfOne

\* find_catalog_entry and the entry of a name.
LEMMA FindIs ==
  ASSUME NEW pg \in [PageIds -> PageContents], NEW len \in 1..MaxPages, Shaped(pg, len), NEW n
  PROVE  /\ FindIn(pg, len, n) # NoLink => HasEntry(pg, n, FindIn(pg, len, n))
         /\ HeaderIn(pg) => \A p \in PageIds : HasEntry(pg, n, p) => FindIn(pg, len, n) = p
<1> DEFINE records == pg[Header].slots
           found == {i \in Legible(records) :
                       /\ ~IsRow(records[i])
                       /\ records[i].name = n /\ records[i].first # NoLink}
<1>1. FindIn(pg, len, n) = IF found = {} THEN NoLink ELSE records[Min(found)].first
  BY HeaderRecords DEF FindIn
<1>2. found \subseteq DOMAIN records /\ DOMAIN records \subseteq Nat
  BY HeaderRecords, PageParts DEF Legible
<1>3. ASSUME found # {}
      PROVE  Min(found) \in found
  <2> HIDE DEF found
  <2>1. \E i \in found : \A j \in found : i <= j
    BY <1>2, <1>3, LeastIn
  <2>2. QED
    BY <2>1 DEF Min
<1>4. ASSUME FindIn(pg, len, n) # NoLink
      PROVE  HasEntry(pg, n, FindIn(pg, len, n))
  <2>1. Min(found) \in found /\ FindIn(pg, len, n) = records[Min(found)].first
    BY <1>1, <1>3, <1>4
  <2>2. IsEntryOf(pg, Min(found), n, FindIn(pg, len, n))
    BY <1>2, <2>1 DEF IsEntryOf, EntryAt
  <2>3. QED
    BY <1>2, <2>1, <2>2 DEF HasEntry
<1>5. ASSUME HeaderIn(pg), NEW p \in PageIds, HasEntry(pg, n, p)
      PROVE  FindIn(pg, len, n) = p
  <2>1. PICK i \in DOMAIN records : IsEntryOf(pg, i, n, p)
    BY <1>5 DEF HasEntry
  <2>2. i \in found
    <3>1. EntryAt(pg, i) /\ records[i].name = n /\ records[i].first = p
      BY <2>1 DEF IsEntryOf
    <3>2. i \in Legible(records)
      BY <1>5, <3>1 DEF HeaderIn
    <3>3. p # NoLink /\ ~IsRow(records[i])
      BY <3>1, PageIdsAre DEF EntryAt
    <3>4. QED
      BY <3>1, <3>2, <3>3
  <2>3. Min(found) \in found
    BY <1>3, <2>2
  <2>4. Min(found) = i
    <3>1. Min(found) \in DOMAIN records /\ EntryAt(pg, Min(found)) /\ records[Min(found)].name = n
      BY <1>2, <2>3 DEF EntryAt
    <3> HIDE DEF found
    <3>2. QED
      BY <1>5, <2>1, <3>1 DEF HeaderIn, IsEntryOf
  <2>5. QED
    BY <1>1, <2>1, <2>3, <2>4 DEF IsEntryOf
<1>6. QED
  BY <1>4, <1>5

------------------------------------------------------------------------------
(* The first header page never fills up *)

\* An entry of every name fits on one header page, and with it the rows that get
\* there, which they only do after a crash.
MaxHeaderRows == IF Crashes THEN MaxRows ELSE 0
HeaderFits == IsFiniteSet(Names) /\ EntriesPerPage >= Cardinality(Names) + MaxHeaderRows

\* What is known without crashes.
Orderly == Crashes \/ DbInv

NameUnused(n) == \A i \in DOMAIN pages[Header].slots :
                   EntryAt(pages, i) => pages[Header].slots[i].name # n
RowUnused(r) == \A i \in DOMAIN pages[Header].slots :
                  IsRow(pages[Header].slots[i]) => pages[Header].slots[i].row # r

\* Without a crash no row is written where a catalog entry is read.
LEMMA NoRowWithoutCrash ==
  ASSUME Orderly, NEW i \in DOMAIN pages[Header].slots, IsRow(pages[Header].slots[i])
  PROVE  Crashes
<1>1. SUFFICES ASSUME DbInv
               PROVE  FALSE
  BY DEF Orderly
<1>2. PICK own \in Owners : HeaderOK(own)
  BY <1>1 DEF DbInv
<1>3. pages[Header].slots[i] \in Entry
  BY <1>2 DEF HeaderOK
<1>4. QED
  BY <1>3, RecordKinds

\* Each name and each row is there at most once; while one of them is missing,
\* the header page has room.
LEMMA HeaderHasRoom ==
  ASSUME HeaderFits, Orderly, TypeOK, RowsOnce(pages), RowsKnown, HeaderIn(pages),
         (\E n \in Names : NameUnused(n)) \/ (Crashes /\ \E r \in 1..MaxRows : RowUnused(r))
  PROVE  Len(pages[Header].slots) < EntriesPerPage
<1> DEFINE s == pages[Header].slots
           D == 1..Len(s)
           DE == {i \in D : ~IsRow(s[i])}
           DR == {i \in D : IsRow(s[i])}
           NE == {n \in Names : ~NameUnused(n)}
           NR == {r \in 1..MaxHeaderRows : ~RowUnused(r)}
           fE == [i \in DE |-> s[i].name]
           fR == [i \in DR |-> s[i].row]
<1>1. /\ Header \in PageIds /\ Len(s) \in Nat /\ DOMAIN s = D
      /\ \A i \in D : s[i] \in Records
  BY StoreTyped, PageParts DEF TypeOK
<1>2. /\ MaxRows \in Nat /\ EntriesPerPage \in Nat /\ lastRow \in 0..MaxRows
      /\ MaxHeaderRows \in Nat /\ (Crashes => MaxHeaderRows = MaxRows)
  BY DatabaseAssumption, CapacityAssumption DEF TypeOK, MaxHeaderRows
<1>3. fE \in Injection(DE, NE)
  <2>1. ASSUME NEW i \in DE
        PROVE  s[i].name \in NE
    <3>1. s[i] \in Entry
      BY <1>1, RecordKinds DEF Records
    <3>2. s[i].name \in Names /\ EntryAt(pages, i) /\ i \in DOMAIN s
      BY <1>1, <3>1, RecordKinds DEF EntryAt
    <3>3. ~NameUnused(s[i].name)
      BY <3>2 DEF NameUnused
    <3>4. QED
      BY <3>2, <3>3
  <2>2. ASSUME NEW i \in DE, NEW j \in DE, s[i].name = s[j].name
        PROVE  i = j
    <3>1. EntryAt(pages, i) /\ EntryAt(pages, j) /\ i \in DOMAIN s /\ j \in DOMAIN s
      BY <1>1 DEF EntryAt
    <3>2. QED
      BY <2>2, <3>1 DEF HeaderIn
  <2> HIDE DEF DE, NE, s
  <2>3. QED
    BY <2>1, <2>2 DEF Injection, IsInjective
<1>4. fR \in Injection(DR, NR)
  <2>1. ASSUME NEW i \in DR
        PROVE  s[i].row \in NR
    <3>1. i \in DOMAIN s /\ IsRow(s[i])
      BY <1>1
    <3>2. s[i].row \in 1..lastRow
      BY <1>1, <3>1 DEF RowsKnown, StoredRow
    <3>3. s[i].row \in 1..MaxHeaderRows
      <4>1. Crashes
        BY <3>1, NoRowWithoutCrash
      <4>2. QED
        BY <1>2, <3>2, <4>1
    <3>4. ~RowUnused(s[i].row)
      BY <3>1 DEF RowUnused
    <3>5. QED
      BY <3>3, <3>4
  <2>2. ASSUME NEW i \in DR, NEW j \in DR, s[i].row = s[j].row
        PROVE  i = j
    <3>1. i \in DOMAIN s /\ IsRow(s[i]) /\ j \in DOMAIN s /\ IsRow(s[j])
      BY <1>1
    <3>2. s[i] \in Row /\ s[j] \in Row
      BY <1>1, <3>1, RecordKinds DEF Records
    <3>3. s[i] = s[j]
      BY <2>2, <3>2, RecordKinds
    <3>4. QED
      BY <1>1, <3>1, <3>3 DEF RowsOnce
  <2> HIDE DEF DR, NR, s
  <2>3. QED
    BY <2>1, <2>2 DEF Injection, IsInjective
<1> HIDE DEF fE, fR, s
<1>5. IsFiniteSet(1..MaxHeaderRows) /\ Cardinality(1..MaxHeaderRows) = MaxHeaderRows
  BY <1>2, FS_Interval
<1>6. /\ IsFiniteSet(NE) /\ Cardinality(NE) <= Cardinality(Names)
      /\ Cardinality(NE) = Cardinality(Names) => NE = Names
  BY FS_Subset DEF HeaderFits
<1>7. /\ IsFiniteSet(NR) /\ Cardinality(NR) <= MaxHeaderRows
      /\ Cardinality(NR) = MaxHeaderRows => NR = 1..MaxHeaderRows
  BY <1>5, FS_Subset
<1>8. NE # Names \/ NR # 1..MaxHeaderRows
  BY <1>2
<1> HIDE DEF NE, NR
<1>9. IsFiniteSet(DE) /\ Cardinality(DE) <= Cardinality(NE)
  <2> HIDE DEF DE
  <2>1. QED
    BY <1>3, <1>6, FS_Injection
<1>10. IsFiniteSet(DR) /\ Cardinality(DR) <= Cardinality(NR)
  <2> HIDE DEF DR
  <2>1. QED
    BY <1>4, <1>7, FS_Injection
<1>11. Cardinality(D) = Cardinality(DE) + Cardinality(DR)
  <2>1. D = DE \cup DR /\ DE \cap DR = {}
    OBVIOUS
  <2> HIDE DEF D, DE, DR
  <2>2. Cardinality(DE) \in Nat /\ Cardinality(DR) \in Nat
    BY <1>9, <1>10, FS_CardinalityType
  <2>3. QED
    <3>1. Cardinality(DE \cup DR) = Cardinality(DE) + Cardinality(DR) - Cardinality(DE \cap DR)
      BY <1>9, <1>10, FS_Union
    <3>2. Cardinality(DE \cap DR) = 0
      BY <2>1, FS_EmptySet
    <3>3. QED
      BY <2>1, <2>2, <3>1, <3>2
<1>12. Cardinality(D) = Len(s)
  BY <1>1, FS_Interval
<1>13. /\ Cardinality(DE) \in Nat /\ Cardinality(DR) \in Nat /\ Cardinality(NE) \in Nat
       /\ Cardinality(NR) \in Nat /\ Cardinality(Names) \in Nat
  BY <1>6, <1>7, <1>9, <1>10, FS_CardinalityType DEF HeaderFits
<1> HIDE DEF D, DE, DR
<1>14. Cardinality(NE) + Cardinality(NR) < Cardinality(Names) + MaxHeaderRows
  BY <1>2, <1>6, <1>7, <1>8, <1>13
<1>15. Len(s) < EntriesPerPage
  BY <1>1, <1>2, <1>9, <1>10, <1>11, <1>12, <1>13, <1>14 DEF HeaderFits
<1>16. QED
  BY <1>15 DEF s

------------------------------------------------------------------------------
(* Pages that change and pages written back *)

\* Nothing is newer than itself.
LEMMA OlderSelf ==
  ASSUME NEW pg \in [PageIds -> PageContents], NEW p \in PageIds
  PROVE  Older(pg[p], pg[p]) /\ SlotsGrow(pg[p], pg[p])
BY PageParts DEF Older, SlotsGrow

\* An older page has fewer slots.
LEMMA OlderSlots ==
  ASSUME NEW a \in PageContents, NEW c \in PageContents, Older(a, c)
  PROVE  SlotsGrow(a, c)
<1>1. CASE a = ZeroBytes
  <2>1. a.slots = << >> /\ Len(a.slots) = 0
    BY <1>1 DEF ZeroBytes
  <2>2. Len(c.slots) \in Nat
    BY SeqElements DEF PageContents
  <2>3. QED
    BY <2>1, <2>2 DEF SlotsGrow
<1>2. QED
  BY <1>1 DEF Older

\* What a step may write on page q.
PutOK(q, c) ==
  /\ q \in PageIds /\ c \in PageContents
  /\ \/ q = Header /\ c.kind = "header" /\ c.next = NoLink
     \/ q # Header /\ c.kind = "data" /\ (c.next = NoLink \/ c.next > q)
  /\ SlotsGrow(pages[q], c)
  /\ \/ pages[q] = ZeroBytes /\ (q = numPages \/ q = FreshPage)
     \/ pages[q].kind = c.kind /\ (pages[q].next = NoLink \/ pages[q].next = c.next)

\* Some page becomes newer.
LEMMA OlderThanNew ==
  ASSUME NEW a \in PageContents, NEW b \in PageContents, NEW c \in PageContents,
         a.kind = "zero" => a = ZeroBytes,
         Older(a, b), SlotsGrow(b, c),
         b = ZeroBytes \/ (b.kind = c.kind /\ (b.next = NoLink \/ b.next = c.next))
  PROVE  Older(a, c)
<1>1. CASE a = ZeroBytes
  BY <1>1 DEF Older
<1>2. CASE a # ZeroBytes
  <2>1. a.kind = b.kind /\ (a.next = NoLink \/ a.next = b.next) /\ SlotsGrow(a, b)
    BY <1>2 DEF Older
  <2>2. b # ZeroBytes
    BY <1>2, <2>1, FreshPages
  <2>3. SlotsGrow(a, c)
    <3>1. Len(a.slots) \in Nat /\ Len(b.slots) \in Nat /\ Len(c.slots) \in Nat
      BY SeqElements DEF PageContents
    <3>2. QED
      BY <2>1, <3>1 DEF SlotsGrow
  <2>4. QED
    BY <2>1, <2>2, <2>3 DEF Older
<1>3. QED
  BY <1>1, <1>2

\* One page is written or added: nothing that could be found before is lost.
LEMMA PutKeeps ==
  ASSUME TypeOK, StoreR, NEW q, NEW c, PutOK(q, c), PutPage(q, c),
         \/ q = numPages /\ numPages < MaxPages /\ numPages' = numPages + 1
         \/ q < numPages /\ numPages' = numPages,
         FreshPage' = FreshPage \/ (FreshPage' = NoLink /\ FreshPage = q)
  PROVE  /\ pages' \in [PageIds -> PageContents] /\ pages'[q] = c
         /\ \A p \in PageIds : p # q => pages'[p] = pages[p]
         /\ durable' = durable /\ fileLen' = fileLen
         /\ numPages' \in 1..MaxPages /\ numPages <= numPages'
         /\ StoreR' /\ Grows(pages, pages')
         /\ ReadLinks \subseteq ReadLinks' /\ KeptLinks \subseteq KeptLinks'
<1>1. /\ pages \in [PageIds -> PageContents] /\ durable \in [PageIds -> PageContents]
      /\ numPages \in 1..MaxPages /\ fileLen \in 1..MaxPages /\ MaxPages \in Nat \ {0}
      /\ fileLen <= numPages /\ q \in PageIds /\ q \in Nat /\ c \in PageContents
  BY CapacityAssumption, PageIdsAre DEF TypeOK, StoreR, PutOK
<1>2. /\ pages' \in [PageIds -> PageContents] /\ pages'[q] = c
      /\ \A p \in PageIds : p # q => pages'[p] = pages[p]
      /\ durable' = durable /\ fileLen' = fileLen
  BY <1>1 DEF PutPage
<1>3. numPages' \in 1..MaxPages /\ numPages <= numPages' /\ q < numPages' /\ fileLen <= numPages'
  BY <1>1
<1>4. Grows(pages, pages')
  BY <1>1, <1>2, OlderSelf DEF Grows, PutOK
<1>5. ASSUME NEW len \in Nat, NEW len2 \in Nat, len <= numPages, len <= len2
      PROVE  PageLinks(pages, len, FreshPage) \subseteq PageLinks(pages', len2, FreshPage')
  <2>1. ASSUME NEW e \in PageLinks(pages, len, FreshPage)
        PROVE  e \in PageLinks(pages', len2, FreshPage')
    <3>1. /\ e \in PageIds \X PageIds /\ e[1] \in PageIds /\ e[2] \in PageIds /\ e[1] < len /\ e[2] < len
          /\ e[1] # FreshPage /\ pages[e[1]].next = e[2]
      BY DEF PageLinks
    <3>2. e[1] \in Nat /\ e[2] \in Nat /\ e[1] # NoLink /\ e[2] # NoLink
      BY <3>1, PageIdsAre
    <3>3. e[1] < len2 /\ e[2] < len2 /\ e[1] # FreshPage' /\ e[1] # numPages
      BY <1>1, <1>5, <3>1, <3>2
    <3>4. pages'[e[1]].next = e[2]
      BY <1>2, <3>1, <3>2, <3>3 DEF PutOK
    <3>5. QED
      BY <3>1, <3>3, <3>4 DEF PageLinks
  <2>2. QED
    BY <2>1
<1>6. ReadLinks \subseteq ReadLinks'
  BY <1>1, <1>3, <1>5 DEF ReadLinks
<1>7. KeptLinks \subseteq KeptLinks'
  <2>1. PageLinks(pages, fileLen, FreshPage) \subseteq PageLinks(pages', fileLen, FreshPage')
    BY <1>1, <1>5
  <2>2. ASSUME NEW e \in PageLinks(durable, fileLen, FreshPage)
        PROVE  e \in PageLinks(durable, fileLen, FreshPage')
    BY <2>2, PageIdsAre DEF PageLinks
  <2>3. QED
    BY <1>2, <2>1, <2>2 DEF KeptLinks
<1>8. StoreR'
  <2>1. Shaped(pages', numPages')
    <3>1. pages'[Header].kind = "header" /\ pages'[Header].next = NoLink
      BY <1>2, StoreTyped DEF StoreR, Shaped, PutOK
    <3>2. ASSUME NEW p \in PageIds
          PROVE  /\ p >= numPages' => pages'[p] = ZeroBytes
                 /\ pages'[p].kind = "zero" => pages'[p] = ZeroBytes
                 /\ pages'[p].kind = "header" => p = Header
                 /\ pages'[p].kind = "data" => pages'[p].next = NoLink \/ pages'[p].next > p
      <4>1. CASE p = q
        <5>1. ~(p >= numPages')
          BY <1>1, <1>3, <4>1
        <5>2. QED
          BY <1>2, <4>1, <5>1 DEF PutOK
      <4>2. CASE p # q
        <5>1. pages'[p] = pages[p] /\ (p >= numPages' => p >= numPages)
          BY <1>1, <1>2, <1>3, <4>2, PageIdsAre
        <5>2. QED
          BY <5>1 DEF StoreR, Shaped
      <4>3. QED
        BY <4>1, <4>2
    <3>3. QED
      BY <3>1, <3>2 DEF Shaped
  <2>2. ASSUME NEW p \in PageIds
        PROVE  Older(durable'[p], pages'[p])
    <3>1. Older(durable[p], pages[p])
      BY DEF StoreR
    <3>2. CASE p = q
      <4>1. durable[p].kind = "zero" => durable[p] = ZeroBytes
        BY DEF StoreR, Shaped
      <4>2. durable[p] \in PageContents /\ pages[p] \in PageContents
        BY <1>1
      <4>3. /\ SlotsGrow(pages[p], c)
            /\ \/ pages[p] = ZeroBytes
               \/ pages[p].kind = c.kind /\ (pages[p].next = NoLink \/ pages[p].next = c.next)
        BY <3>2 DEF PutOK
      <4>4. Older(durable[p], c)
        BY <1>1, <3>1, <4>1, <4>2, <4>3, OlderThanNew
      <4>5. QED
        BY <1>2, <3>2, <4>4
    <3>3. CASE p # q
      BY <1>2, <3>1, <3>3
    <3>4. QED
      BY <3>2, <3>3
  <2>3. ASSUME NEW p \in PageIds, p < numPages', pages'[p].kind = "zero"
        PROVE  p < fileLen' \/ p = FreshPage'
    <3>1. p # q
      BY <1>2, <2>3 DEF PutOK
    <3>2. p < numPages
      BY <1>1, <2>3, <3>1, PageIdsAre
    <3>3. pages[p].kind = "zero"
      BY <1>2, <2>3, <3>1
    <3>4. QED
      BY <1>2, <3>1, <3>2, <3>3 DEF StoreR
  <2>4. QED
    BY <1>2, <1>3, <2>1, <2>2, <2>3 DEF StoreR
<1>9. QED
  BY <1>2, <1>3, <1>4, <1>6, <1>7, <1>8

\* The file grows as far as it must.
LEMMA StoreHolds ==
  ASSUME TypeOK, StoreR
  PROVE  FileHolds
<1>1. \A p \in PageIds : p \in Nat /\ numPages \in Nat /\ fileLen \in Nat /\ fileLen <= numPages
  BY PageIdsAre, CapacityAssumption DEF TypeOK, StoreR
<1>2. ASSUME NEW p \in PageIds, p >= numPages
      PROVE  pages[p] = ZeroBytes /\ durable[p] = ZeroBytes
  BY <1>1, <1>2 DEF StoreR, Shaped
<1>3. ASSUME NEW p \in PageIds, durable[p] # ZeroBytes
      PROVE  p < fileLen
  BY <1>1, <1>3 DEF StoreR, Shaped
<1>4. QED
  BY <1>2, <1>3 DEF FileHolds, StoreR

\* Pages are written back: the disk catches up.
LEMMA WriteKeeps ==
  ASSUME TypeOK, StoreR, NEW P, P \subseteq ChangedPages, WritePages(P),
         pages' = pages, numPages' = numPages, FreshPage' = FreshPage
  PROVE  /\ durable' \in [PageIds -> PageContents] /\ fileLen' \in 1..MaxPages
         /\ fileLen <= fileLen' /\ fileLen' <= numPages
         /\ \A p \in PageIds : durable'[p] = IF p \in P THEN pages[p] ELSE durable[p]
         /\ StoreR' /\ Grows(durable, durable')
         /\ ReadLinks' = ReadLinks /\ KeptLinks \subseteq KeptLinks'
<1>1. /\ pages \in [PageIds -> PageContents] /\ durable \in [PageIds -> PageContents]
      /\ numPages \in Nat /\ fileLen \in Nat /\ \A p \in PageIds : p \in Nat
  BY CapacityAssumption, PageIdsAre DEF TypeOK
<1>2. FileHolds
  BY StoreHolds
<1>3. /\ durable' \in [PageIds -> PageContents] /\ fileLen' \in 1..MaxPages
      /\ fileLen <= fileLen' /\ fileLen' <= numPages
      /\ \A p \in PageIds : durable'[p] # ZeroBytes => p < fileLen'
      /\ \A p \in P : p < fileLen'
  BY <1>2, WritesGrow
<1>4. \A p \in PageIds : durable'[p] = IF p \in P THEN pages[p] ELSE durable[p]
  BY DEF WritePages, Store!WrittenBack
<1>5. fileLen' \in Nat
  BY <1>1, <1>3
<1>6. ASSUME NEW p \in PageIds
      PROVE  Older(durable'[p], pages[p]) /\ SlotsGrow(durable[p], durable'[p])
  <2>1. Older(durable[p], pages[p])
    BY DEF StoreR
  <2>2. Older(pages[p], pages[p]) /\ SlotsGrow(durable[p], durable[p])
    BY <1>1, OlderSelf
  <2>3. SlotsGrow(durable[p], pages[p])
    BY <1>1, <2>1, OlderSlots
  <2>4. QED
    BY <1>4, <2>1, <2>2, <2>3
<1>7. Shaped(durable', fileLen')
  <2>1. ASSUME NEW p \in PageIds
        PROVE  /\ p >= fileLen' => durable'[p] = ZeroBytes
               /\ durable'[p].kind = "zero" => durable'[p] = ZeroBytes
               /\ durable'[p].kind = "header" => p = Header
               /\ durable'[p].kind = "data" => durable'[p].next = NoLink \/ durable'[p].next > p
    <3>1. p >= fileLen' => durable'[p] = ZeroBytes
      BY <1>1, <1>3, <1>5
    <3>2. durable'[p] = pages[p] \/ durable'[p] = durable[p]
      BY <1>4
    <3>3. QED
      BY <3>1, <3>2 DEF StoreR, Shaped
  <2>2. durable'[Header].kind = "header" /\ durable'[Header].next = NoLink
    BY <1>4, StoreTyped DEF StoreR, Shaped
  <2>3. QED
    BY <2>1, <2>2 DEF Shaped
<1>8. StoreR'
  <2>1. ASSUME NEW p \in PageIds, p < numPages, pages[p].kind = "zero"
        PROVE  p < fileLen' \/ p = FreshPage
    <3>1. p < fileLen \/ p = FreshPage
      BY <2>1 DEF StoreR
    <3>2. QED
      BY <1>1, <1>3, <1>5, <3>1
  <2>2. Shaped(pages, numPages)
    BY DEF StoreR
  <2>3. QED
    BY <1>3, <1>6, <1>7, <2>1, <2>2 DEF StoreR
<1>9. Grows(durable, durable')
  BY <1>6 DEF Grows
<1>10. ReadLinks' = ReadLinks
  BY DEF ReadLinks, PageLinks
<1>11. ASSUME NEW e \in KeptLinks
       PROVE  e \in KeptLinks'
  <2>1. /\ e \in PageIds \X PageIds /\ e[1] \in PageIds /\ e[2] \in PageIds
        /\ e[1] < fileLen /\ e[2] < fileLen /\ e[1] # FreshPage
        /\ pages[e[1]].next = e[2] /\ durable[e[1]].next = e[2]
    BY DEF KeptLinks, PageLinks
  <2>2. e[1] < fileLen' /\ e[2] < fileLen'
    BY <1>1, <1>3, <1>5, <2>1
  <2>3. durable'[e[1]].next = e[2]
    BY <1>4, <2>1
  <2>4. QED
    BY <2>1, <2>2, <2>3 DEF KeptLinks, PageLinks
<1>12. QED
  BY <1>3, <1>4, <1>8, <1>9, <1>10, <1>11

\* flush_dirty: what can be read can be read after a crash.  Only the way to the
\* page that HeapFile.__init__ has not written yet may still be missing.
LEMMA FlushKeeps ==
  ASSUME TypeOK, StoreR, WritePages(ChangedPages),
         pages' = pages, numPages' = numPages, FreshPage' = FreshPage
  PROVE  /\ durable' = pages
         /\ FreshPage = NoLink => fileLen' = numPages
         /\ (Opening => pages[FreshPage] = ZeroBytes) =>
              \A n, r : LeadsTo(pages, numPages, ReadLinks, n, r)
                          => LeadsTo(durable', fileLen', KeptLinks', n, r)
<1>1. /\ pages \in [PageIds -> PageContents] /\ durable \in [PageIds -> PageContents]
      /\ numPages \in 1..MaxPages /\ fileLen \in Nat /\ \A p \in PageIds : p \in Nat
  BY CapacityAssumption, PageIdsAre DEF TypeOK
<1>2. /\ durable' \in [PageIds -> PageContents] /\ fileLen' \in 1..MaxPages
      /\ fileLen <= fileLen' /\ fileLen' <= numPages
      /\ \A p \in PageIds : durable'[p] = IF p \in ChangedPages THEN pages[p] ELSE durable[p]
      /\ StoreR'
  BY WriteKeeps
<1>3. durable' = pages
  <2>1. \A p \in PageIds : durable'[p] = pages[p]
    BY <1>2 DEF ChangedPages
  <2>2. QED
    BY <1>1, <1>2, <2>1
<1>4. fileLen' \in Nat /\ numPages \in Nat
  BY <1>1, <1>2, CapacityAssumption
<1>5. ASSUME NEW p \in PageIds, p < numPages, p # FreshPage
      PROVE  p < fileLen'
  <2>1. CASE pages[p].kind = "zero"
    <3>1. p < fileLen
      BY <1>5, <2>1 DEF StoreR
    <3>2. QED
      BY <1>1, <1>2, <1>4, <3>1
  <2>2. CASE pages[p].kind # "zero"
    <3>1. durable'[p] # ZeroBytes
      BY <1>3, <2>2, FreshPages
    <3>2. ~(p >= fileLen')
      BY <1>2, <3>1 DEF StoreR, Shaped
    <3>3. QED
      BY <1>1, <1>4, <3>2
  <2>3. QED
    BY <2>1, <2>2
<1>6. ASSUME FreshPage = NoLink
      PROVE  fileLen' = numPages
  <2> DEFINE p == numPages - 1
  <2>1. p \in PageIds /\ p < numPages /\ p # FreshPage
    <3>1. p \in PageIds
      BY <1>1, CapacityAssumption DEF PageIds
    <3>2. QED
      BY <1>1, <1>6, <3>1, PageIdsAre
  <2>2. p < fileLen'
    <3> HIDE DEF p
    <3>1. QED
      BY <1>5, <2>1
  <2>3. QED
    BY <1>2, <1>4, <2>2
<1>7. ASSUME Opening => pages[FreshPage] = ZeroBytes, NEW n, NEW r,
             LeadsTo(pages, numPages, ReadLinks, n, r)
      PROVE  LeadsTo(durable', fileLen', KeptLinks', n, r)
  <2>1. PICK p \in PageIds, q \in PageIds :
          /\ HasEntry(pages, n, p) /\ q < numPages /\ Reach(ReadLinks, p, q)
          /\ \E j \in DOMAIN pages[q].slots : RowAt(pages, q, j, r)
    BY <1>7 DEF LeadsTo
  <2>2. q # FreshPage
    <3>1. ~Opening => FreshPage = NoLink
      BY DEF FreshPage
    <3>2. SUFFICES ASSUME q = FreshPage, Opening
                   PROVE  FALSE
      BY <2>1, <3>1, PageIdsAre
    <3>3. pages[q].slots = << >>
      BY <1>7, <3>2 DEF ZeroBytes
    <3>4. QED
      BY <2>1, <3>3
  <2>3. q < fileLen'
    BY <1>5, <2>1, <2>2
  <2>4. ASSUME NEW e \in ReadLinks, e[2] # FreshPage
        PROVE  e \in KeptLinks'
    <3>1. /\ e \in PageIds \X PageIds /\ e[1] \in PageIds /\ e[2] \in PageIds
          /\ e[1] < numPages /\ e[2] < numPages /\ e[1] # FreshPage
          /\ pages[e[1]].next = e[2]
      BY DEF ReadLinks, PageLinks
    <3>2. e[1] < fileLen' /\ e[2] < fileLen'
      BY <1>5, <2>4, <3>1
    <3>3. QED
      BY <1>3, <3>1, <3>2 DEF KeptLinks, PageLinks
  <2>5. Reach(KeptLinks', p, q)
    <3> DEFINE K == KeptLinks'
    <3>1. ASSUME NEW S \in SUBSET PageIds, p \in S, Closed(K, S)
          PROVE  q \in S
      <4> DEFINE S2 == {x \in PageIds : x \in S \/ x = FreshPage}
      <4>1. S2 \in SUBSET PageIds /\ p \in S2
        BY <3>1
      <4>2. ASSUME NEW e \in ReadLinks, e[1] \in S2
            PROVE  e[2] \in S2
        <5>1. e[1] \in S /\ e[2] \in PageIds
          BY <4>2 DEF ReadLinks, PageLinks
        <5>2. CASE e[2] = FreshPage
          BY <5>1, <5>2
        <5>3. CASE e[2] # FreshPage
          <6>1. e \in K
            BY <2>4, <5>3
          <6> HIDE DEF K
          <6>2. e[2] \in S
            BY <3>1, <5>1, <6>1 DEF Closed
          <6>3. QED
            BY <5>1, <6>2
        <5>4. QED
          BY <5>2, <5>3
      <4>3. Closed(ReadLinks, S2)
        <5> HIDE DEF S2
        <5>1. QED
          BY <4>2 DEF Closed
      <4>4. q \in S2
        <5> HIDE DEF S2
        <5>1. QED
          BY <2>1, <4>1, <4>3 DEF Reach
      <4>5. QED
        BY <2>2, <4>4
    <3> HIDE DEF K
    <3>2. Reach(K, p, q)
      BY <3>1 DEF Reach
    <3>3. QED
      BY <3>2 DEF K
  <2>6. HasEntry(durable', n, p) /\ \E j \in DOMAIN durable'[q].slots : RowAt(durable', q, j, r)
    BY <1>3, <2>1
  <2>7. QED
    BY <2>3, <2>5, <2>6 DEF LeadsTo
<1>8. QED
  BY <1>3, <1>6, <1>7

\* What is on disk is a part of what can be read.
LEMMA DurableSound ==
  ASSUME TypeOK, StoreR, RowsOnce(pages), RowsKnown, HeaderIn(pages)
  PROVE  /\ RowsOnce(durable) /\ HeaderIn(durable)
         /\ \A p \in PageIds : \A j \in DOMAIN durable[p].slots :
              IsRow(durable[p].slots[j]) => StoredRow(durable[p].slots[j].row)
<1>1. /\ pages \in [PageIds -> PageContents] /\ durable \in [PageIds -> PageContents]
      /\ Header \in PageIds
  BY StoreTyped DEF TypeOK
<1>2. ASSUME NEW p \in PageIds
      PROVE  /\ Len(durable[p].slots) \in Nat /\ DOMAIN durable[p].slots = 1..Len(durable[p].slots)
             /\ \A j \in DOMAIN durable[p].slots :
                  j \in DOMAIN pages[p].slots /\ durable[p].slots[j] = pages[p].slots[j]
  <2>1. Older(durable[p], pages[p])
    BY DEF StoreR
  <2>2. SlotsGrow(durable[p], pages[p])
    BY <1>1, <2>1, OlderSlots
  <2>3. /\ Len(durable[p].slots) \in Nat /\ DOMAIN durable[p].slots = 1..Len(durable[p].slots)
        /\ Len(pages[p].slots) \in Nat /\ DOMAIN pages[p].slots = 1..Len(pages[p].slots)
    BY <1>1, PageParts
  <2>4. QED
    BY <2>2, <2>3 DEF SlotsGrow
<1>3. RowsOnce(durable)
  BY <1>2 DEF RowsOnce
<1>4. \A p \in PageIds : \A j \in DOMAIN durable[p].slots :
        IsRow(durable[p].slots[j]) => StoredRow(durable[p].slots[j].row)
  BY <1>2 DEF RowsKnown
<1>5. ASSUME NEW i \in DOMAIN durable[Header].slots, EntryAt(durable, i)
      PROVE  /\ durable[Header].slots[i].first \in PageIds
             /\ i \in Legible(durable[Header].slots)
             /\ \A j \in DOMAIN durable[Header].slots :
                  EntryAt(durable, j) /\ durable[Header].slots[j].name = durable[Header].slots[i].name
                    => j = i
  <2>1. \A j \in DOMAIN durable[Header].slots :
          /\ j \in DOMAIN pages[Header].slots /\ durable[Header].slots[j] = pages[Header].slots[j]
          /\ EntryAt(durable, j) => EntryAt(pages, j)
    BY <1>1, <1>2 DEF EntryAt
  <2>2. /\ pages[Header].slots[i].first \in PageIds /\ i \in Legible(pages[Header].slots)
        /\ \A j \in DOMAIN pages[Header].slots :
             EntryAt(pages, j) /\ pages[Header].slots[j].name = pages[Header].slots[i].name => j = i
    BY <1>5, <2>1 DEF HeaderIn
  <2>3. i \in Legible(durable[Header].slots)
    <3>1. \A j \in 1..i : j \in DOMAIN durable[Header].slots
      BY <1>1, <1>2
    <3>2. \A j \in 1..i : IsRow(durable[Header].slots[j]) => durable[Header].slots[j].row \notin Illegible
      BY <2>1, <2>2, <3>1 DEF Legible
    <3>3. QED
      BY <1>5, <3>2 DEF Legible
  <2>4. QED
    BY <1>5, <2>1, <2>2, <2>3
<1>6. QED
  BY <1>3, <1>4, <1>5 DEF HeaderIn

------------------------------------------------------------------------------
(* What the invariant promises *)

\* A row that the links of a store lead to is found in its table, once.
LEMMA LedRowIsThere ==
  ASSUME NEW pg \in [PageIds -> PageContents], NEW len \in 1..MaxPages, Shaped(pg, len),
         RowsOnce(pg), HeaderIn(pg), NEW R, R \subseteq PageLinks(pg, len, NoLink),
         NEW n, NEW r \in Nat, LeadsTo(pg, len, R, n, r)
  PROVE  Occurs(r, RowsIn(pg, len, n)) = 1
<1>1. PICK p \in PageIds, q \in PageIds :
        /\ HasEntry(pg, n, p) /\ q < len /\ Reach(R, p, q)
        /\ \E j \in DOMAIN pg[q].slots : RowAt(pg, q, j, r)
  BY DEF LeadsTo
<1>2. FindIn(pg, len, n) = p
  BY <1>1, FindIs
<1> DEFINE C == ChainIn(pg, len, p)
<1>3. p \in Links /\ len \in Nat
  BY PageIdsAre, CapacityAssumption
<1>4. Walks(pg, len, p, C)
  BY <1>3, ChainWalks
<1> HIDE DEF C
<1>5. IsChain(pg, len, p, C) /\ Ranked(C) /\ C \in Seq(PageIds)
  BY <1>4 DEF Walks, IsChain
<1>6. PICK k \in 1..Len(C) : C[k] = q
  <2>1. q < len /\ Reach(R, p, q) /\ IsChain(pg, len, p, C) /\ len \in Nat
    BY <1>1, <1>3, <1>5
  <2>2. \E k \in 1..Len(C) : C[k] = q
    BY <2>1, WalkMeets
  <2>3. QED
    BY <2>2
<1>7. PICK j : RowAt(pg, C[k], j, r)
  BY <1>1, <1>6
<1>8. Occurs(r, RecordsIn(pg, C)) = 1
  BY <1>5, <1>7, OccursOnce
<1>9. QED
  BY <1>2, <1>8 DEF RowsIn, C

\* The invariant is enough.
LEMMA RecInvKeepsRows ==
  ASSUME RecInv
  PROVE  FlushedRowsSurvive
<1>1. TypeOK /\ StoreR /\ RowsOnce(pages) /\ RowsKnown /\ HeaderIn(pages) /\ AckedR
  BY DEF RecInv
<1>2. /\ pages \in [PageIds -> PageContents] /\ durable \in [PageIds -> PageContents]
      /\ numPages \in 1..MaxPages /\ fileLen \in 1..MaxPages
      /\ Shaped(pages, numPages) /\ Shaped(durable, fileLen)
  BY <1>1 DEF TypeOK, StoreR
<1>3. RowsOnce(durable) /\ HeaderIn(durable)
  BY <1>1, DurableSound
<1>4. /\ ReadLinks \subseteq PageLinks(pages, numPages, NoLink)
      /\ KeptLinks \subseteq PageLinks(durable, fileLen, NoLink)
  BY PageIdsAre DEF ReadLinks, KeptLinks, PageLinks
<1>5. ASSUME NEW n \in Names, NEW r \in kept[n]
      PROVE  /\ Occurs(r, RowsIn(pages, numPages, n)) = 1
             /\ Occurs(r, RowsIn(durable, fileLen, n)) = 1
  <2>1. /\ LeadsTo(pages, numPages, ReadLinks, n, r)
        /\ LeadsTo(durable, fileLen, KeptLinks, n, r)
    BY <1>1 DEF AckedR
  <2>2. r \in Nat
    BY <1>1, DatabaseAssumption DEF TypeOK
  <2>3. Occurs(r, RowsIn(pages, numPages, n)) = 1
    BY <1>1, <1>2, <1>4, <2>1, <2>2, LedRowIsThere
  <2>4. Occurs(r, RowsIn(durable, fileLen, n)) = 1
    BY <1>2, <1>3, <1>4, <2>1, <2>2, LedRowIsThere
  <2>5. QED
    BY <2>3, <2>4
<1>6. QED
  BY <1>5 DEF FlushedRowsSurvive

------------------------------------------------------------------------------
(* What steps leave alone *)

\* The parts of the invariant.
LEMMA RecParts ==
  ASSUME RecInv
  PROVE  /\ TypeOK /\ StoreR /\ RowsOnce(pages) /\ RowsKnown /\ HeaderIn(pages)
         /\ AckedR /\ FilesR /\ ThreadR
         /\ Shaped(pages, numPages) /\ numPages \in 1..MaxPages /\ numPages \in Nat /\ fileLen \in Nat
         /\ pages \in [PageIds -> PageContents] /\ durable \in [PageIds -> PageContents]
         /\ Header \in PageIds /\ Header < numPages /\ MaxPages \in Nat
         /\ Inserting \/ Opening \/ thread = Idle
BY StoreTyped, CapacityAssumption
   DEF RecInv, StoreR, TypeOK, Calls, Inserting, Opening

\* No call, no promise to keep.
LEMMA NoCall ==
  /\ thread = Idle => ThreadR /\ ~Opening /\ ~Inserting /\ FreshPage = NoLink
  /\ thread' = Idle => ThreadR' /\ ~Opening' /\ ~Inserting' /\ FreshPage' = NoLink
  /\ Inserting => ~Opening /\ FreshPage = NoLink
  /\ Inserting' => ~Opening' /\ FreshPage' = NoLink
BY DEF ThreadR, Opening, Inserting, Idle, FreshPage

\* The store is as it was.
LEMMA StoreStays ==
  ASSUME RecInv, UNCHANGED <<pages, durable, numPages, fileLen, acked, kept>>, FreshPage' = FreshPage
  PROVE  /\ StoreR' /\ RowsOnce(pages)' /\ HeaderIn(pages)' /\ AckedR'
         /\ ReadLinks' = ReadLinks /\ KeptLinks' = KeptLinks
<1>1. ReadLinks' = ReadLinks /\ KeptLinks' = KeptLinks
  BY DEF ReadLinks, KeptLinks
<1>2. StoreR'
  BY RecParts DEF StoreR
<1>3. RowsOnce(pages') /\ HeaderIn(pages')
  BY RecParts
<1>4. AckedR'
  BY <1>1, RecParts DEF AckedR
<1>5. QED
  BY <1>1, <1>2, <1>3, <1>4

\* The slots of all pages are as they were, or there are more.
LEMMA EntryGrows ==
  ASSUME NEW pg \in [PageIds -> PageContents], NEW pg2 \in [PageIds -> PageContents], Grows(pg, pg2),
         NEW n, NEW p, HasEntry(pg, n, p)
  PROVE  HasEntry(pg2, n, p)
<1>1. Header \in PageIds
  BY CapacityAssumption DEF Header, PageIds
<1>2. /\ Len(pg[Header].slots) \in Nat /\ DOMAIN pg[Header].slots = 1..Len(pg[Header].slots)
      /\ Len(pg2[Header].slots) \in Nat /\ DOMAIN pg2[Header].slots = 1..Len(pg2[Header].slots)
  BY <1>1, PageParts
<1>3. SlotsGrow(pg[Header], pg2[Header])
  BY <1>1 DEF Grows
<1>4. \A i \in DOMAIN pg[Header].slots :
        i \in DOMAIN pg2[Header].slots /\ pg2[Header].slots[i] = pg[Header].slots[i]
  BY <1>2, <1>3 DEF SlotsGrow
<1>5. QED
  BY <1>4 DEF HasEntry, IsEntryOf, EntryAt

\* The files in use keep their entries.
LEMMA FilesGrow ==
  ASSUME FilesR, pages \in [PageIds -> PageContents], pages' \in [PageIds -> PageContents],
         Grows(pages, pages'), file' = file, catalog' = catalog
  PROVE  FilesR'
<1>1. ASSUME NEW f \in Files, file[f] # NoLink
      PROVE  /\ file[f] \in PageIds
             /\ f \in Names => Registered(f)' /\ HasEntry(pages', NameOfSchema(f)', file[f])
  <2>1. file[f] \in PageIds /\ (f \in Names => Registered(f) /\ HasEntry(pages, NameOfSchema(f), file[f]))
    BY <1>1 DEF FilesR
  <2>2. f \in Names => HasEntry(pages', NameOfSchema(f), file[f])
    BY <2>1, EntryGrows
  <2>3. NameOfSchema(f)' = NameOfSchema(f) /\ (Registered(f)' <=> Registered(f))
    BY DEF NameOfSchema, Registered
  <2>4. QED
    BY <2>1, <2>2, <2>3
<1>2. QED
  BY <1>1 DEF FilesR

\* A file is opened that has its entry.
LEMMA FileOpened ==
  ASSUME RecInv, pages' \in [PageIds -> PageContents], Grows(pages, pages'), catalog' = catalog,
         NEW f0 \in Files, NEW q \in PageIds, file' = [file EXCEPT ![f0] = q],
         f0 \in Names => Registered(f0) /\ HasEntry(pages', NameOfSchema(f0), q)
  PROVE  FilesR'
<1>1. ASSUME NEW f \in Files, file'[f] # NoLink
      PROVE  /\ file'[f] \in PageIds
             /\ f \in Names => Registered(f) /\ HasEntry(pages', NameOfSchema(f), file'[f])
  <2>1. file \in [Files -> Links] /\ FilesR
    BY RecParts DEF TypeOK
  <2>2. CASE f = f0
    BY <2>1, <2>2
  <2>3. CASE f # f0
    <3>1. file'[f] = file[f]
      BY <2>1, <2>3
    <3>2. file[f] \in PageIds /\ (f \in Names => Registered(f) /\ HasEntry(pages, NameOfSchema(f), file[f]))
      BY <1>1, <2>1, <3>1 DEF FilesR
    <3>3. f \in Names => HasEntry(pages', NameOfSchema(f), file[f])
      BY <3>2, RecParts, EntryGrows
    <3>4. QED
      BY <3>1, <3>2, <3>3
  <2>4. QED
    BY <2>2, <2>3
<1>2. \A f \in Names : (Registered(f)' <=> Registered(f)) /\ NameOfSchema(f)' = NameOfSchema(f)
  BY DEF Registered, NameOfSchema
<1>3. QED
  BY <1>1, <1>2 DEF FilesR

\* The rows that are promised stay where they can be found.
LEMMA AckedGrow ==
  ASSUME AckedR, TypeOK,
         pages' \in [PageIds -> PageContents], durable' \in [PageIds -> PageContents],
         Grows(pages, pages'), Grows(durable, durable'),
         numPages' \in Nat, fileLen' \in Nat, numPages <= numPages', fileLen <= fileLen',
         ReadLinks \subseteq ReadLinks', KeptLinks \subseteq KeptLinks', kept' = kept,
         \A n \in Names : acked[n] \subseteq acked'[n],
         \A n \in Names : \A r \in acked'[n] :
           r \in acked[n] \/ LeadsTo(pages', numPages', ReadLinks', n, r)
  PROVE  AckedR'
<1>1. /\ pages \in [PageIds -> PageContents] /\ durable \in [PageIds -> PageContents]
      /\ numPages \in Nat /\ fileLen \in Nat
  BY CapacityAssumption DEF TypeOK
<1>2. ASSUME NEW n \in Names, NEW r, LeadsTo(pages, numPages, ReadLinks, n, r)
      PROVE  LeadsTo(pages', numPages', ReadLinks', n, r)
  BY <1>1, <1>2, LeadsGrows
<1>3. ASSUME NEW n \in Names, NEW r, LeadsTo(durable, fileLen, KeptLinks, n, r)
      PROVE  LeadsTo(durable', fileLen', KeptLinks', n, r)
  BY <1>1, <1>3, LeadsGrows
<1>4. QED
  BY <1>2, <1>3 DEF AckedR

\* ... also when a page is written.
LEMMA AckedPut ==
  ASSUME RecInv, pages' \in [PageIds -> PageContents], Grows(pages, pages'),
         UNCHANGED <<durable, fileLen, kept>>, numPages' \in 1..MaxPages, numPages <= numPages',
         ReadLinks \subseteq ReadLinks', KeptLinks \subseteq KeptLinks',
         \A n \in Names : acked[n] \subseteq acked'[n],
         \A n \in Names : \A r \in acked'[n] :
           r \in acked[n] \/ LeadsTo(pages', numPages', ReadLinks', n, r)
  PROVE  AckedR'
<1>1. Grows(durable, durable') /\ durable' \in [PageIds -> PageContents]
  BY RecParts, OlderSelf DEF Grows
<1>2. numPages' \in Nat /\ fileLen' \in Nat /\ fileLen <= fileLen'
  BY RecParts
<1>3. QED
  BY <1>1, <1>2, RecParts, AckedGrow

------------------------------------------------------------------------------
(* The steps *)

\* A new schema: the names keep the entries they had.
LEMMA AddSchemaRecovers ==
  ASSUME RecInv, NEW n \in Names, AddSchema(n)
  PROVE  RecInv'
<1>1. /\ UNCHANGED <<pages, durable, numPages, fileLen>>
      /\ UNCHANGED <<file, thread, lastRow, acked, kept>> /\ thread = Idle /\ thread' = Idle
      /\ catalog' = Append(catalog, n) /\ \A i \in DOMAIN catalog : catalog[i] # n
  BY DEF AddSchema, store
<1>2. /\ catalog' \in Seq(Names) /\ IsInjective(catalog')
      /\ \A m \in Names : Registered(m) => Registered(m)' /\ NameOfSchema(m)' = NameOfSchema(m)
  BY <1>1, RecParts, CatalogGrows
<1>3. FreshPage' = FreshPage /\ ThreadR'
  BY <1>1, NoCall
<1>4. TypeOK'
  BY <1>1, <1>2, RecParts DEF TypeOK
<1>5. StoreR' /\ RowsOnce(pages)' /\ HeaderIn(pages)' /\ AckedR'
  BY <1>1, <1>3, StoreStays
<1>6. RowsKnown'
  BY <1>1, RecParts DEF RowsKnown, StoredRow, Inserting
<1>7. FilesR'
  BY <1>1, <1>2, RecParts DEF FilesR
<1>8. QED
  BY <1>3, <1>4, <1>5, <1>6, <1>7 DEF RecInv

\* get_heap_file finds the entry of the name.
LEMMA OpenFindsRecovers ==
  ASSUME RecInv, NEW n \in Names, OpenFinds(n)
  PROVE  RecInv'
<1> DEFINE m == NameOfSchema(n)
           p == FindEntry(m)
<1>1. /\ UNCHANGED <<pages, durable, numPages, fileLen>>
      /\ UNCHANGED <<catalog, thread, lastRow, acked, kept>> /\ thread = Idle /\ thread' = Idle
      /\ Registered(n) /\ p # NoLink /\ file' = [file EXCEPT ![n] = p]
  BY DEF OpenFinds, store
<1>2. HasEntry(pages, m, p)
  <2> HIDE DEF m
  <2>1. FindIn(pages, numPages, m) # NoLink => HasEntry(pages, m, FindIn(pages, numPages, m))
    BY RecParts, FindIs
  <2>2. QED
    BY <1>1, <2>1 DEF FindEntry
<1> HIDE DEF m, p
<1>3. p \in PageIds /\ p \in Links
  BY <1>2, RecParts, PageIdsAre DEF HasEntry, IsEntryOf, HeaderIn
<1>4. FreshPage' = FreshPage /\ ThreadR'
  BY <1>1, NoCall
<1>5. TypeOK'
  BY <1>1, <1>3, RecParts DEF TypeOK
<1>6. StoreR' /\ RowsOnce(pages)' /\ HeaderIn(pages)' /\ AckedR'
  BY <1>1, <1>4, StoreStays
<1>7. RowsKnown'
  BY <1>1, RecParts DEF RowsKnown, StoredRow, Inserting
<1>8. FilesR'
  <2>1. n \in Files /\ Grows(pages, pages') /\ pages' \in [PageIds -> PageContents]
    BY <1>1, RecParts, OlderSelf DEF Files, Grows
  <2>2. HasEntry(pages', NameOfSchema(n), p)
    BY <1>1, <1>2 DEF m
  <2>3. QED
    BY <1>1, <1>3, <2>1, <2>2, FileOpened
<1>9. QED
  BY <1>4, <1>5, <1>6, <1>7, <1>8 DEF RecInv

\* insert begins with a row that is nowhere yet.
LEMMA CallInsertRecovers ==
  ASSUME RecInv, NEW f \in Files, CallInsert(f)
  PROVE  RecInv'
<1>1. /\ UNCHANGED <<pages, durable, numPages, fileLen>>
      /\ UNCHANGED <<catalog, file, acked, kept>> /\ thread = Idle
      /\ file[f] # NoLink /\ lastRow < MaxRows /\ numPages < MaxPages /\ lastRow' = lastRow + 1
      /\ thread' = [step |-> "insert", name |-> f, last |-> NoLink, new |-> NoLink]
  BY DEF CallInsert, store
<1>2. /\ thread'.step = "insert" /\ thread'.name = f /\ Inserting' /\ ~Opening'
      /\ FreshPage' = FreshPage /\ lastRow \in Nat /\ lastRow' # 0
  <2>1. lastRow \in Nat
    BY RecParts, DatabaseAssumption DEF TypeOK
  <2>2. QED
    BY <1>1, <2>1, NoCall DEF Inserting, Opening
<1>3. TypeOK'
  <2>1. thread' \in Calls
    BY <1>1, FreshPages DEF Calls
  <2>2. lastRow' \in 0..MaxRows
    BY <1>1, RecParts, DatabaseAssumption DEF TypeOK
  <2>3. QED
    BY <1>1, <2>1, <2>2, RecParts DEF TypeOK
<1>4. StoreR' /\ RowsOnce(pages)' /\ HeaderIn(pages)' /\ AckedR'
  BY <1>1, <1>2, StoreStays
<1>5. RowsKnown'
  <2>1. ASSUME NEW r, StoredRow(r)
        PROVE  r \in 1..(lastRow + 1) /\ r # lastRow + 1
    BY <1>2, <2>1 DEF StoredRow
  <2>2. QED
    BY <1>1, <2>1, RecParts DEF RowsKnown, StoredRow
<1>6. FilesR'
  BY <1>1, RecParts DEF FilesR, Registered, NameOfSchema
<1>7. ThreadR'
  BY <1>1, <1>2 DEF ThreadR, InsertCan
<1>8. QED
  BY <1>3, <1>4, <1>5, <1>6, <1>7 DEF RecInv

\* insert gives up: nothing was stored.
LEMMA InsertRaisesRecovers ==
  ASSUME RecInv, InsertRaises
  PROVE  RecInv'
<1>1. /\ UNCHANGED <<pages, durable, numPages, fileLen>>
      /\ UNCHANGED <<catalog, file, lastRow, acked, kept>> /\ Inserting /\ thread' = Idle
  BY DEF InsertRaises, store, Inserting
<1>2. FreshPage' = FreshPage /\ ThreadR' /\ ~Inserting'
  BY <1>1, NoCall
<1>3. TypeOK'
  BY <1>1, RecParts DEF TypeOK, Calls
<1>4. StoreR' /\ RowsOnce(pages)' /\ HeaderIn(pages)' /\ AckedR'
  BY <1>1, <1>2, StoreStays
<1>5. RowsKnown'
  BY <1>1, <1>2, RecParts DEF RowsKnown, StoredRow
<1>6. FilesR'
  BY <1>1, RecParts DEF FilesR, Registered, NameOfSchema
<1>7. QED
  BY <1>2, <1>3, <1>4, <1>5, <1>6 DEF RecInv

\* A page is written back.
LEMMA EvictPageRecovers ==
  ASSUME RecInv, EvictPage
  PROVE  RecInv'
<1>1. UNCHANGED <<pages, numPages, catalog, file, thread, lastRow, acked, kept>>
  BY DEF EvictPage
<1>2. PICK p \in ChangedPages : WritePages({p})
  BY DEF EvictPage
<1>3. FreshPage' = FreshPage
  BY <1>1 DEF FreshPage, Opening
<1>4. /\ durable' \in [PageIds -> PageContents] /\ fileLen' \in 1..MaxPages
      /\ fileLen <= fileLen' /\ StoreR' /\ Grows(durable, durable')
      /\ ReadLinks' = ReadLinks /\ KeptLinks \subseteq KeptLinks'
  BY <1>1, <1>2, <1>3, RecParts, WriteKeeps
<1>5. TypeOK'
  BY <1>1, <1>4, RecParts DEF TypeOK
<1>6. AckedR'
  <2>1. /\ AckedR /\ TypeOK /\ pages \in [PageIds -> PageContents] /\ numPages \in Nat
        /\ fileLen' \in Nat
    BY <1>4, RecParts, CapacityAssumption
  <2>2. Grows(pages, pages')
    BY <1>1, <2>1, OlderSelf DEF Grows
  <2>3. numPages <= numPages'
    BY <1>1, <2>1
  <2>4. QED
    BY <1>1, <1>4, <2>1, <2>2, <2>3, AckedGrow
<1>7. RowsOnce(pages') /\ HeaderIn(pages')
  BY <1>1, RecParts
<1>8. RowsKnown' /\ FilesR'
  BY <1>1, RecParts DEF RowsKnown, StoredRow, Inserting, FilesR, Registered, NameOfSchema
<1>9. ThreadR'
  BY <1>1, <1>4, RecParts DEF ThreadR, InsertCan, Opening, Inserting, Registered, NameOfSchema
<1>10. QED
  BY <1>4, <1>5, <1>6, <1>7, <1>8, <1>9 DEF RecInv

\* After flush_dirty the rows that are promised are those that are there.
LEMMA FlushRecovers ==
  ASSUME RecInv, FlushPages, numPages' = numPages, FreshPage' = FreshPage
  PROVE  /\ durable' \in [PageIds -> PageContents] /\ fileLen' \in 1..MaxPages
         /\ pages' = pages /\ acked' = acked
         /\ kept' \in [Names -> SUBSET (1..MaxRows)]
         /\ StoreR' /\ RowsOnce(pages)' /\ HeaderIn(pages)' /\ AckedR'
         /\ ReadLinks' = ReadLinks
<1>1. pages' = pages /\ acked' = acked /\ kept' = acked /\ WritePages(ChangedPages)
  BY DEF FlushPages
<1>2. ChangedPages \subseteq ChangedPages /\ TypeOK /\ StoreR
  BY RecParts
<1>3. /\ durable' \in [PageIds -> PageContents] /\ fileLen' \in 1..MaxPages /\ StoreR'
      /\ ReadLinks' = ReadLinks
  BY <1>1, <1>2, WriteKeeps
<1>4. Opening => pages[FreshPage] = ZeroBytes
  BY RecParts DEF ThreadR, FreshPage
<1>5. \A n, r : LeadsTo(pages, numPages, ReadLinks, n, r) => LeadsTo(durable', fileLen', KeptLinks', n, r)
  BY <1>1, <1>2, <1>4, FlushKeeps
<1>6. AckedR'
  <2>1. \A n \in Names : \A r \in acked[n] : LeadsTo(pages, numPages, ReadLinks, n, r)
    BY RecParts DEF AckedR
  <2>2. QED
    BY <1>1, <1>3, <1>5, <2>1 DEF AckedR
<1>7. RowsOnce(pages') /\ HeaderIn(pages')
  BY <1>1, RecParts
<1>8. kept' \in [Names -> SUBSET (1..MaxRows)]
  BY <1>1, <1>2 DEF TypeOK
<1>9. QED
  BY <1>1, <1>3, <1>6, <1>7, <1>8

\* insert_catalog_entry flushes the entry, not the first page of the table.
LEMMA FlushesEntryRecovers ==
  ASSUME RecInv, FlushesEntry
  PROVE  RecInv'
<1>1. /\ thread.step = "flush" /\ thread' = [thread EXCEPT !.step = "initialise"]
      /\ FlushPages /\ UNCHANGED <<numPages, catalog, file, lastRow>>
  BY DEF FlushesEntry
<1>2. Opening /\ TypeOK
  BY <1>1, RecParts DEF Opening
<1>3. /\ thread'.step = "initialise" /\ thread'.first = thread.first /\ thread'.entry = thread.entry
      /\ thread'.name = thread.name /\ thread' \in Calls
  BY <1>1, <1>2, ThreadTyped DEF Calls
<1>4. FreshPage' = FreshPage /\ Opening' /\ ~Inserting' /\ ~Inserting
  BY <1>1, <1>3 DEF FreshPage, Opening, Inserting
<1>5. /\ durable' \in [PageIds -> PageContents] /\ fileLen' \in 1..MaxPages
      /\ pages' = pages /\ acked' = acked /\ kept' \in [Names -> SUBSET (1..MaxRows)]
      /\ StoreR' /\ RowsOnce(pages)' /\ HeaderIn(pages)' /\ AckedR'
  BY <1>1, <1>4, FlushRecovers
<1>6. TypeOK'
  BY <1>1, <1>2, <1>3, <1>5 DEF TypeOK
<1>7. RowsKnown'
  BY <1>1, <1>4, <1>5, RecParts DEF RowsKnown, StoredRow
<1>8. FilesR'
  BY <1>1, <1>5, RecParts DEF FilesR, Registered, NameOfSchema
<1>9. ThreadR'
  <2>1. /\ thread.first \in PageIds /\ thread.first < numPages /\ pages[thread.first] = ZeroBytes
        /\ Registered(thread.name) /\ thread.entry = NameOfSchema(thread.name)
        /\ HasEntry(pages, thread.entry, thread.first)
    BY <1>1, <1>2, RecParts DEF ThreadR
  <2>2. QED
    BY <1>1, <1>3, <1>4, <1>5, <2>1 DEF ThreadR, Registered, NameOfSchema
<1>10. QED
  BY <1>5, <1>6, <1>7, <1>8, <1>9 DEF RecInv

\* A caller of flush_dirty.
LEMMA CallerFlushesRecovers ==
  ASSUME RecInv, CallerFlushes
  PROVE  RecInv'
<1>1. thread = Idle /\ thread' = Idle /\ FlushPages /\ UNCHANGED <<numPages, catalog, file, lastRow>>
  BY DEF CallerFlushes
<1>2. FreshPage' = FreshPage /\ ThreadR' /\ ~Inserting /\ ~Inserting'
  BY <1>1, NoCall
<1>3. /\ durable' \in [PageIds -> PageContents] /\ fileLen' \in 1..MaxPages
      /\ pages' = pages /\ acked' = acked /\ kept' \in [Names -> SUBSET (1..MaxRows)]
      /\ StoreR' /\ RowsOnce(pages)' /\ HeaderIn(pages)' /\ AckedR'
  BY <1>1, <1>2, FlushRecovers
<1>4. TypeOK'
  BY <1>1, <1>3, RecParts DEF TypeOK
<1>5. RowsKnown'
  BY <1>1, <1>2, <1>3, RecParts DEF RowsKnown, StoredRow
<1>6. FilesR'
  BY <1>1, <1>3, RecParts DEF FilesR, Registered, NameOfSchema
<1>7. QED
  BY <1>2, <1>3, <1>4, <1>5, <1>6 DEF RecInv

\* A new process has no schemas and no files.
LEMMA EmptyCatalog ==
  /\ <<>> \in Seq(Names) /\ IsInjective(<<>>)
  /\ NoFiles \in [Files -> Links] /\ \A f \in Files : NoFiles[f] = NoLink
BY FreshPages DEF IsInjective, NoFiles

\* Between two calls flush_dirty writes all the pages the file has.
LEMMA FlushFills ==
  ASSUME TypeOK, StoreR, FreshPage = NoLink, WritePages(ChangedPages)
  PROVE  fileLen' = numPages
<1>1. \A p \in PageIds : p < numPages /\ pages[p].kind = "zero" => p < fileLen
  BY PageIdsAre DEF StoreR
<1>2. QED
  BY <1>1, StoreHolds, FileFilled

\* close and a new process on the same file.
LEMMA RestartRecovers ==
  ASSUME RecInv, Restart
  PROVE  RecInv'
<1>1. /\ thread = Idle /\ thread' = Idle /\ FlushPages /\ lastRow' = lastRow
      /\ numPages' = fileLen' /\ catalog' = <<>> /\ file' = NoFiles
  BY DEF Restart
<1>2. FreshPage' = FreshPage /\ FreshPage = NoLink /\ ThreadR' /\ ~Inserting /\ ~Inserting'
  BY <1>1, NoCall
<1>3. numPages' = numPages
  BY <1>1, <1>2, RecParts, FlushFills DEF FlushPages
<1>4. /\ durable' \in [PageIds -> PageContents] /\ fileLen' \in 1..MaxPages
      /\ pages' = pages /\ acked' = acked /\ kept' \in [Names -> SUBSET (1..MaxRows)]
      /\ StoreR' /\ RowsOnce(pages)' /\ HeaderIn(pages)' /\ AckedR'
  BY <1>1, <1>2, <1>3, FlushRecovers
<1>5. TypeOK'
  BY <1>1, <1>3, <1>4, RecParts, EmptyCatalog DEF TypeOK
<1>6. RowsKnown'
  BY <1>1, <1>2, <1>4, RecParts DEF RowsKnown, StoredRow
<1>7. FilesR'
  BY <1>1, EmptyCatalog DEF FilesR
<1>8. QED
  BY <1>2, <1>4, <1>5, <1>6, <1>7 DEF RecInv

\* The process dies: what is on disk is what there is.
LEMMA CrashRecovers ==
  ASSUME RecInv, Crash
  PROVE  RecInv'
<1>1. /\ pages' = durable /\ numPages' = fileLen /\ catalog' = <<>> /\ file' = NoFiles
      /\ thread' = Idle /\ acked' = kept /\ UNCHANGED <<durable, fileLen, lastRow, kept>>
  BY DEF Crash
<1>2. FreshPage' = NoLink /\ ThreadR' /\ ~Inserting'
  BY <1>1, NoCall
<1>3. /\ RowsOnce(durable) /\ HeaderIn(durable)
      /\ \A p \in PageIds : \A j \in DOMAIN durable[p].slots :
           IsRow(durable[p].slots[j]) => StoredRow(durable[p].slots[j].row)
  BY RecParts, DurableSound
<1>4. TypeOK'
  BY <1>1, RecParts, EmptyCatalog DEF TypeOK, Calls
<1>5. StoreR'
  <2>1. \A p \in PageIds : Older(durable[p], durable[p])
    BY RecParts, OlderSelf
  <2>2. Shaped(durable, fileLen) /\ fileLen <= fileLen
    BY RecParts DEF StoreR
  <2>3. QED
    BY <1>1, <2>1, <2>2 DEF StoreR
<1>6. RowsKnown'
  BY <1>1, <1>2, <1>3 DEF RowsKnown, StoredRow
<1>7. AckedR'
  <2>1. KeptLinks \subseteq ReadLinks' /\ KeptLinks \subseteq KeptLinks'
    <3>1. ASSUME NEW e \in KeptLinks
          PROVE  e \in PageLinks(durable, fileLen, NoLink)
      BY <3>1, PageIdsAre DEF KeptLinks, PageLinks
    <3>2. ReadLinks' = PageLinks(durable, fileLen, NoLink) /\ KeptLinks' = PageLinks(durable, fileLen, NoLink)
      BY <1>1, <1>2 DEF ReadLinks, KeptLinks
    <3>3. QED
      BY <3>1, <3>2
  <2>2. Grows(durable, durable) /\ fileLen <= fileLen /\ fileLen \in Nat /\ durable \in [PageIds -> PageContents]
    BY RecParts, OlderSelf DEF Grows
  <2>3. ASSUME NEW n \in Names, NEW r \in kept[n]
        PROVE  /\ LeadsTo(durable, fileLen, ReadLinks', n, r)
               /\ LeadsTo(durable, fileLen, KeptLinks', n, r)
    <3>1. LeadsTo(durable, fileLen, KeptLinks, n, r)
      BY RecParts DEF AckedR
    <3>2. QED
      BY <2>1, <2>2, <3>1, LeadsGrows
  <2>4. QED
    BY <1>1, <2>3 DEF AckedR
<1>8. FilesR'
  BY <1>1, EmptyCatalog DEF FilesR
<1>9. QED
  BY <1>1, <1>2, <1>3, <1>4, <1>5, <1>6, <1>7, <1>8 DEF RecInv

\* Nothing but the listed variables changed.
LEMMA StutterRecovers ==
  ASSUME RecInv, UNCHANGED vars
  PROVE  RecInv'
<1>1. /\ UNCHANGED <<pages, durable, numPages, fileLen, acked, kept>>
      /\ UNCHANGED <<catalog, file, thread, lastRow>>
  BY DEF vars
<1>2. FreshPage' = FreshPage
  BY <1>1 DEF FreshPage, Opening
<1>3. StoreR' /\ RowsOnce(pages)' /\ HeaderIn(pages)' /\ AckedR' /\ ReadLinks' = ReadLinks
  BY <1>1, <1>2, StoreStays
<1>4. TypeOK'
  BY <1>1, RecParts DEF TypeOK
<1>5. RowsKnown' /\ FilesR'
  BY <1>1, RecParts DEF RowsKnown, StoredRow, Inserting, FilesR, Registered, NameOfSchema
<1>6. ThreadR'
  BY <1>1, <1>3, RecParts DEF ThreadR, InsertCan, Opening, Inserting, Registered, NameOfSchema
<1>7. QED
  BY <1>3, <1>4, <1>5, <1>6 DEF RecInv

------------------------------------------------------------------------------
(* The steps that write a page *)

\* The new process's first page, and none of its slots.
LEMMA InitRecovers == Init => RecInv
<1> SUFFICES ASSUME Init PROVE RecInv
  OBVIOUS
<1> USE DEF Init
<1>1. thread = Idle /\ ThreadR /\ ~Opening /\ ~Inserting /\ FreshPage = NoLink
  BY NoCall
<1>2. /\ pages \in [PageIds -> PageContents] /\ durable = pages /\ Header \in PageIds
      /\ pages[Header] = EmptyHeader /\ \A p \in PageIds : p # Header => pages[p] = ZeroBytes
  BY FreshPages, CapacityAssumption DEF Header, PageIds
<1>3. TypeOK
  BY <1>1, <1>2, EmptyCatalog, CapacityAssumption, DatabaseAssumption DEF TypeOK, Calls, NoRows
<1>4. \A p \in PageIds : DOMAIN pages[p].slots = {} /\ Len(pages[p].slots) = 0
  BY <1>2 DEF EmptyHeader, ZeroBytes
<1>5. RowsOnce(pages) /\ RowsKnown /\ HeaderIn(pages)
  BY <1>2, <1>4 DEF RowsOnce, RowsKnown, HeaderIn
<1>6. StoreR
  <2>1. Shaped(pages, 1)
    <3>1. \A p \in PageIds : p >= 1 => p # Header
      BY PageIdsAre DEF Header
    <3>2. QED
      BY <1>2, <3>1, FreshPages DEF Shaped
  <2>2. \A p \in PageIds : Older(pages[p], pages[p])
    BY <1>2, OlderSelf
  <2>3. \A p \in PageIds : p < 1 => p < 1
    OBVIOUS
  <2>4. QED
    BY <1>2, <2>1, <2>2, <2>3 DEF StoreR
<1>7. AckedR /\ FilesR
  BY EmptyCatalog DEF AckedR, NoRows, FilesR
<1>8. QED
  BY <1>1, <1>3, <1>5, <1>6, <1>7 DEF RecInv

\* The records are where they were.
LEMMA SlotsStay ==
  ASSUME RecInv, \A p \in PageIds : pages'[p].slots = pages[p].slots,
         lastRow' = lastRow, Inserting' => Inserting
  PROVE  RowsOnce(pages)' /\ HeaderIn(pages)' /\ RowsKnown'
<1>1. Header \in PageIds /\ RowsOnce(pages) /\ HeaderIn(pages) /\ RowsKnown
  BY RecParts
<1>2. RowsOnce(pages')
  BY <1>1 DEF RowsOnce
<1>3. HeaderIn(pages')
  BY <1>1 DEF HeaderIn, EntryAt
<1>4. RowsKnown'
  BY <1>1 DEF RowsKnown, StoredRow
<1>5. QED
  BY <1>2, <1>3, <1>4

\* A page without slots is written where there were zeros.
LEMMA EmptyPut ==
  ASSUME NEW q \in PageIds, q # Header, pages[q] = ZeroBytes, q = numPages \/ q = FreshPage,
         NEW n \in Names \cup {NoName}
  PROVE  PutOK(q, EmptyData(n)) /\ EmptyData(n).slots = pages[q].slots
<1>1. EmptyData(n).slots = << >> /\ ZeroBytes.slots = << >>
  BY DEF EmptyData, ZeroBytes
<1>2. SlotsGrow(pages[q], EmptyData(n))
  BY <1>1 DEF SlotsGrow
<1>3. QED
  BY <1>1, <1>2, FreshPages DEF PutOK

\* __init__ initialises the first page: the file is in use.
LEMMA InitialisesFirstPageRecovers ==
  ASSUME RecInv, InitialisesFirstPage
  PROVE  RecInv'
<1> DEFINE q == thread.first
           c == EmptyData(thread.entry)
           n == thread.name
<1>1. /\ thread.step = "initialise" /\ thread' = Idle /\ PutPage(q, c)
      /\ file' = [file EXCEPT ![n] = q]
      /\ UNCHANGED <<numPages, catalog, lastRow, acked, kept>>
  BY DEF InitialisesFirstPage
<1>2. /\ Opening /\ FreshPage = q /\ q \in PageIds /\ q < numPages /\ pages[q] = ZeroBytes
      /\ Registered(n) /\ HasEntry(pages, NameOfSchema(n), q)
      /\ thread.entry \in Names /\ n \in Names
  <2>1. Opening /\ TypeOK /\ ThreadR
    BY <1>1, RecParts DEF Opening
  <2>2. thread.entry \in Names /\ n \in Names
    BY <2>1, ThreadTyped
  <2>3. QED
    BY <1>1, <2>1, <2>2 DEF ThreadR, FreshPage
<1>3. ThreadR' /\ ~Inserting' /\ FreshPage' = NoLink
  BY <1>1, NoCall
<1> HIDE DEF c, q, n
<1>4. PutOK(q, c) /\ c.slots = pages[q].slots
  <2>1. q # Header
    BY <1>2, RecParts, FreshPages DEF Shaped
  <2>2. QED
    BY <1>2, <2>1, EmptyPut DEF c
<1>5. /\ pages' \in [PageIds -> PageContents] /\ pages'[q] = c
      /\ \A p \in PageIds : p # q => pages'[p] = pages[p]
      /\ durable' = durable /\ fileLen' = fileLen /\ StoreR' /\ Grows(pages, pages')
      /\ ReadLinks \subseteq ReadLinks' /\ KeptLinks \subseteq KeptLinks'
  BY <1>1, <1>2, <1>3, <1>4, RecParts, PutKeeps
<1>6. TypeOK'
  BY <1>1, <1>2, <1>5, RecParts, PageIdsAre DEF TypeOK, Calls
<1>7. RowsOnce(pages)' /\ HeaderIn(pages)' /\ RowsKnown'
  <2>1. \A p \in PageIds : pages'[p].slots = pages[p].slots
    BY <1>4, <1>5
  <2>2. QED
    BY <1>1, <1>3, <2>1, SlotsStay
<1>8. AckedR'
  BY <1>1, <1>5, RecParts, AckedPut
<1>9. FilesR'
  <2>1. n \in Files /\ HasEntry(pages', NameOfSchema(n), q)
    BY <1>2, <1>5, RecParts, EntryGrows DEF Files
  <2>2. QED
    BY <1>1, <1>2, <1>5, <2>1, FileOpened
<1>10. QED
  BY <1>3, <1>5, <1>6, <1>7, <1>8, <1>9 DEF RecInv

\* A temporary file begins with a new page.
LEMMA OpenTemporaryRecovers ==
  ASSUME RecInv, NEW t \in Temps, OpenTemporary(t)
  PROVE  RecInv'
<1> DEFINE c == EmptyData(NoName)
<1>1. /\ thread = Idle /\ thread' = Idle /\ numPages < MaxPages /\ numPages' = numPages + 1
      /\ PutPage(numPages, c) /\ file' = [file EXCEPT ![t] = numPages]
      /\ UNCHANGED <<catalog, lastRow, acked, kept>>
  BY DEF OpenTemporary
<1>2. numPages \in PageIds /\ numPages # Header /\ pages[numPages] = ZeroBytes /\ numPages \in Links
  <2>1. numPages \in PageIds /\ numPages # Header
    BY <1>1, RecParts DEF PageIds, Header
  <2>2. QED
    BY <2>1, RecParts, PageIdsAre DEF Shaped
<1>3. ThreadR' /\ ~Inserting' /\ FreshPage' = FreshPage
  BY <1>1, NoCall
<1>4. PutOK(numPages, c) /\ c.slots = pages[numPages].slots
  BY <1>2, EmptyPut
<1> HIDE DEF c
<1>5. /\ pages' \in [PageIds -> PageContents] /\ pages'[numPages] = c
      /\ \A p \in PageIds : p # numPages => pages'[p] = pages[p]
      /\ durable' = durable /\ fileLen' = fileLen /\ StoreR' /\ Grows(pages, pages')
      /\ numPages' \in 1..MaxPages /\ numPages <= numPages'
      /\ ReadLinks \subseteq ReadLinks' /\ KeptLinks \subseteq KeptLinks'
  BY <1>1, <1>2, <1>3, <1>4, RecParts, PutKeeps
<1>6. TypeOK'
  BY <1>1, <1>2, <1>5, RecParts DEF TypeOK
<1>7. RowsOnce(pages)' /\ HeaderIn(pages)' /\ RowsKnown'
  <2>1. \A p \in PageIds : pages'[p].slots = pages[p].slots
    BY <1>4, <1>5
  <2>2. QED
    BY <1>1, <1>3, <2>1, SlotsStay
<1>8. AckedR'
  BY <1>1, <1>5, RecParts, AckedPut
<1>9. FilesR'
  <2>1. t \in Files /\ t \notin Names
    BY DatabaseAssumption DEF Files
  <2>2. QED
    BY <1>1, <1>2, <1>5, <2>1, FileOpened
<1>10. QED
  BY <1>3, <1>5, <1>6, <1>7, <1>8, <1>9 DEF RecInv

------------------------------------------------------------------------------
(* The steps that add a record or allocate a page *)

\* A record is added to page q.
Appended(pg, pg2, q, r) ==
  /\ pg \in [PageIds -> PageContents] /\ pg2 \in [PageIds -> PageContents]
  /\ q \in PageIds /\ r \in Records
  /\ pg2[q].slots = Append(pg[q].slots, r)
  /\ \A p \in PageIds : p # q => pg2[p].slots = pg[p].slots

\* The slots there were, and the new one.
LEMMA AppendedSlots ==
  ASSUME NEW pg, NEW pg2, NEW q, NEW r, Appended(pg, pg2, q, r), NEW p \in PageIds
  PROVE  /\ \A j \in DOMAIN pg[p].slots :
              j \in DOMAIN pg2[p].slots /\ pg2[p].slots[j] = pg[p].slots[j]
         /\ \A j \in DOMAIN pg2[p].slots :
              \/ j \in DOMAIN pg[p].slots /\ pg2[p].slots[j] = pg[p].slots[j]
              \/ p = q /\ j = Len(pg[q].slots) + 1 /\ pg2[p].slots[j] = r
         /\ p = q => /\ Len(pg[q].slots) + 1 \in DOMAIN pg2[p].slots
                     /\ pg2[p].slots[Len(pg[q].slots) + 1] = r
<1>1. CASE p = q
  <2> DEFINE s == pg[p].slots
             t == pg2[p].slots
  <2>1. s \in Seq(Records) /\ t = Append(s, r) /\ r \in Records /\ Len(s) \in Nat
        /\ DOMAIN s = 1..Len(s)
    BY <1>1, PageParts DEF Appended
  <2> HIDE DEF s, t
  <2>2. /\ Len(t) = Len(s) + 1 /\ DOMAIN t = 1..(Len(s) + 1) /\ t[Len(s) + 1] = r
        /\ \A i \in 1..Len(s) : t[i] = s[i]
    BY <2>1, SeqAppend, SeqElements
  <2>3. /\ \A j \in DOMAIN s : j \in DOMAIN t /\ t[j] = s[j]
        /\ \A j \in DOMAIN t : (j \in DOMAIN s /\ t[j] = s[j]) \/ (j = Len(s) + 1 /\ t[j] = r)
        /\ Len(s) + 1 \in DOMAIN t
    BY <2>1, <2>2
  <2>4. QED
    BY <1>1, <2>2, <2>3 DEF s, t
<1>2. CASE p # q
  BY <1>2 DEF Appended
<1>3. QED
  BY <1>1, <1>2

\* A row that is added once is there once.
LEMMA RowsOnceOn ==
  ASSUME NEW pg, NEW pg2, NEW q, NEW r, Appended(pg, pg2, q, r), RowsOnce(pg),
         IsRow(r) => \A p \in PageIds : \A j \in DOMAIN pg[p].slots : pg[p].slots[j] # r
  PROVE  RowsOnce(pg2)
<1> SUFFICES ASSUME NEW p1 \in PageIds, NEW p2 \in PageIds,
                    NEW j1 \in DOMAIN pg2[p1].slots, NEW j2 \in DOMAIN pg2[p2].slots,
                    IsRow(pg2[p1].slots[j1]), pg2[p1].slots[j1] = pg2[p2].slots[j2]
             PROVE  p1 = p2 /\ j1 = j2
  BY DEF RowsOnce
<1> DEFINE Old(p, j) == j \in DOMAIN pg[p].slots /\ pg2[p].slots[j] = pg[p].slots[j]
           New(p, j) == p = q /\ j = Len(pg[q].slots) + 1 /\ pg2[p].slots[j] = r
<1>1. (Old(p1, j1) \/ New(p1, j1)) /\ (Old(p2, j2) \/ New(p2, j2))
  BY AppendedSlots
<1>2. CASE Old(p1, j1) /\ Old(p2, j2)
  <2>1. /\ j1 \in DOMAIN pg[p1].slots /\ j2 \in DOMAIN pg[p2].slots
        /\ IsRow(pg[p1].slots[j1]) /\ pg[p1].slots[j1] = pg[p2].slots[j2]
    BY <1>2
  <2> HIDE DEF Old, New
  <2>2. QED
    BY <2>1 DEF RowsOnce
<1>3. CASE New(p1, j1) /\ New(p2, j2)
  BY <1>3
<1>4. CASE Old(p1, j1) /\ New(p2, j2)
  BY <1>4
<1>5. CASE New(p1, j1) /\ Old(p2, j2)
  BY <1>5
<1> HIDE DEF Old, New
<1>6. QED
  BY <1>1, <1>2, <1>3, <1>4, <1>5

\* The header page keeps its form: a row hides no entry, and an entry of a new name
\* is the only one.
LEMMA HeaderOn ==
  ASSUME NEW pg, NEW pg2, NEW q, NEW r, Appended(pg, pg2, q, r), HeaderIn(pg),
         q = Header /\ ~IsRow(r) =>
           /\ r.first \in PageIds
           /\ Legible(pg[Header].slots) = DOMAIN pg[Header].slots
           /\ \A i \in DOMAIN pg[Header].slots :
                EntryAt(pg, i) => pg[Header].slots[i].name # r.name
  PROVE  HeaderIn(pg2)
<1> DEFINE s == pg[Header].slots
           t == pg2[Header].slots
           New(j) == q = Header /\ j = Len(s) + 1 /\ t[j] = r
<1>1. /\ Header \in PageIds /\ pg \in [PageIds -> PageContents] /\ pg2 \in [PageIds -> PageContents]
  BY CapacityAssumption DEF Header, PageIds, Appended
<1>2. /\ \A j \in DOMAIN s : j \in DOMAIN t /\ t[j] = s[j]
      /\ \A j \in DOMAIN t : (j \in DOMAIN s /\ t[j] = s[j]) \/ New(j)
  BY <1>1, AppendedSlots
<1>3. DOMAIN s = 1..Len(s) /\ Len(s) \in Nat /\ DOMAIN t = 1..Len(t) /\ Len(t) \in Nat
  BY <1>1, PageParts
<1> HIDE DEF s, t
<1>4. ASSUME NEW i \in DOMAIN t, ~IsRow(t[i])
      PROVE  /\ t[i].first \in PageIds /\ i \in Legible(t)
             /\ \A j \in DOMAIN t : ~IsRow(t[j]) /\ t[j].name = t[i].name => j = i
  <2>1. CASE i \in DOMAIN s /\ t[i] = s[i]
    <3>1. EntryAt(pg, i)
      BY <1>4, <2>1 DEF EntryAt, s
    <3>2. /\ s[i].first \in PageIds /\ i \in Legible(s)
          /\ \A j \in DOMAIN s : ~IsRow(s[j]) /\ s[j].name = s[i].name => j = i
      BY <2>1, <3>1 DEF HeaderIn, EntryAt, s
    <3>3. i \in Legible(t)
      <4>1. \A j \in 1..i : j \in DOMAIN s /\ t[j] = s[j]
        BY <1>2, <1>3, <2>1
      <4>2. QED
        BY <1>4, <3>2, <4>1 DEF Legible
    <3>4. ASSUME NEW j \in DOMAIN t, ~IsRow(t[j]), t[j].name = t[i].name
          PROVE  j = i
      <4>1. CASE New(j)
        <5>1. \A k \in DOMAIN s : EntryAt(pg, k) => s[k].name # r.name
          BY <3>4, <4>1 DEF s
        <5>2. QED
          BY <2>1, <3>1, <3>4, <4>1, <5>1
      <4>2. QED
        BY <1>2, <2>1, <3>2, <3>4, <4>1
    <3>5. QED
      BY <2>1, <3>2, <3>3, <3>4
  <2>2. CASE New(i)
    <3>1. /\ r.first \in PageIds /\ Legible(s) = DOMAIN s
          /\ \A k \in DOMAIN s : EntryAt(pg, k) => s[k].name # r.name
      BY <1>4, <2>2 DEF s
    <3>2. i \in Legible(t)
      <4>1. ASSUME NEW j \in 1..i, IsRow(t[j])
            PROVE  t[j].row \notin Illegible
        <5>1. j \in DOMAIN s /\ t[j] = s[j]
          BY <1>2, <1>3, <1>4, <2>2, <4>1
        <5>2. j \in Legible(s) /\ j \in 1..j
          BY <1>3, <3>1, <5>1
        <5>3. QED
          BY <4>1, <5>1, <5>2 DEF Legible
      <4>2. QED
        BY <1>4, <4>1 DEF Legible
    <3>3. ASSUME NEW j \in DOMAIN t, ~IsRow(t[j]), t[j].name = t[i].name
          PROVE  j = i
      <4>1. CASE j \in DOMAIN s /\ t[j] = s[j]
        <5>1. EntryAt(pg, j)
          BY <3>3, <4>1 DEF EntryAt, s
        <5>2. QED
          BY <2>2, <3>1, <3>3, <4>1, <5>1
      <4>2. CASE New(j)
        BY <2>2, <4>2
      <4>3. QED
        BY <1>2, <4>1, <4>2
    <3>4. QED
      BY <2>2, <3>1, <3>2, <3>3
  <2>3. QED
    BY <1>2, <1>4, <2>1, <2>2
<1>5. QED
  BY <1>4 DEF HeaderIn, EntryAt, t

\* get_heap_file allocates the first page of a table without entry.
LEMMA OpenAllocatesRecovers ==
  ASSUME RecInv, NEW n \in Names, OpenAllocates(n)
  PROVE  RecInv'
<1> DEFINE m == NameOfSchema(n)
           s == pages[Header].slots
<1>1. /\ UNCHANGED <<pages, durable, fileLen, catalog, file, lastRow, acked, kept>>
      /\ thread = Idle /\ Registered(n) /\ numPages < MaxPages - 1 /\ numPages' = numPages + 1
      /\ thread' = [step |-> "register", name |-> n, entry |-> m, first |-> numPages]
  BY DEF OpenAllocates
<1>2. FindEntry(m) = NoLink /\ Legible(s) = DOMAIN s
  <2> HIDE DEF m
  <2>1. NotFound(m)
    BY DEF OpenAllocates, m
  <2>2. RecordsIn(pages, ChainIn(pages, numPages, Header)) = s
    BY RecParts, HeaderRecords
  <2>3. QED
    BY <2>1, <2>2 DEF NotFound, Chain
<1>3. m \in Names
  BY <1>1, RecParts, NameOfSchemaIs
<1>4. NameOfSchema(n)' = m /\ Registered(n)'
  BY <1>1 DEF NameOfSchema, Registered
<1> HIDE DEF m
<1>5. /\ numPages \in Nat /\ MaxPages \in Nat /\ fileLen \in Nat /\ fileLen <= numPages
      /\ numPages \in PageIds /\ numPages \in Links /\ numPages' \in 1..MaxPages
      /\ pages[numPages] = ZeroBytes
  <2>1. numPages \in PageIds /\ numPages' \in 1..MaxPages
    BY <1>1, RecParts DEF PageIds
  <2>2. QED
    BY <2>1, RecParts, PageIdsAre DEF Shaped, StoreR
<1>6. ASSUME NEW i \in DOMAIN s, EntryAt(pages, i)
      PROVE  s[i].name # m
  <2>1. SUFFICES ASSUME s[i].name = m
                 PROVE  FALSE
    OBVIOUS
  <2>2. s[i].first \in PageIds
    BY <1>6, RecParts DEF HeaderIn
  <2>3. HasEntry(pages, m, s[i].first)
    BY <1>6, <2>1 DEF HasEntry, IsEntryOf
  <2>4. FindIn(pages, numPages, m) = s[i].first
    BY <2>2, <2>3, RecParts, FindIs
  <2>5. QED
    BY <1>2, <2>2, <2>4, PageIdsAre DEF FindEntry
<1>7. /\ thread'.step = "register" /\ thread'.first = numPages /\ thread'.entry = m
      /\ thread'.name = n /\ thread' \in Calls
  BY <1>1, <1>3, <1>5 DEF Calls
<1>8. /\ FreshPage = NoLink /\ FreshPage' = numPages /\ Opening' /\ ~Inserting' /\ ~Inserting
  BY <1>1, <1>7, NoCall DEF FreshPage, Opening, Inserting
<1>9. TypeOK'
  BY <1>1, <1>5, <1>7, RecParts DEF TypeOK
<1>10. StoreR'
  <2>1. Shaped(pages, numPages')
    <3>1. \A p \in PageIds : p >= numPages' => p >= numPages
      BY <1>1, <1>5, PageIdsAre
    <3>2. QED
      BY <3>1, RecParts DEF Shaped
  <2>2. ASSUME NEW p \in PageIds, p < numPages', pages[p].kind = "zero"
        PROVE  p < fileLen \/ p = numPages
    <3>1. p < numPages \/ p = numPages
      BY <1>1, <1>5, <2>2, PageIdsAre
    <3>2. QED
      BY <1>8, <2>2, <3>1, RecParts, PageIdsAre DEF StoreR
  <2>3. Shaped(durable, fileLen) /\ \A p \in PageIds : Older(durable[p], pages[p])
    BY RecParts DEF StoreR
  <2>4. fileLen <= numPages'
    BY <1>1, <1>5
  <2>5. QED
    BY <1>1, <1>8, <2>1, <2>2, <2>3, <2>4 DEF StoreR
<1>11. RowsOnce(pages') /\ HeaderIn(pages') /\ RowsKnown'
  BY <1>1, <1>8, RecParts DEF RowsKnown, StoredRow
<1>12. AckedR'
  <2>1. ASSUME NEW pg, NEW len \in Nat, NEW len2 \in Nat, len <= numPages, len <= len2
        PROVE  PageLinks(pg, len, FreshPage) \subseteq PageLinks(pg, len2, FreshPage')
    <3>1. ASSUME NEW e \in PageLinks(pg, len, FreshPage)
          PROVE  e \in PageLinks(pg, len2, FreshPage')
      <4>1. /\ e \in PageIds \X PageIds /\ e[1] \in PageIds /\ e[2] \in PageIds
            /\ e[1] < len /\ e[2] < len /\ pg[e[1]].next = e[2]
        BY DEF PageLinks
      <4>2. e[1] \in Nat /\ e[2] \in Nat
        BY <4>1, PageIdsAre
      <4>3. e[1] < len2 /\ e[2] < len2 /\ e[1] < numPages
        BY <1>5, <2>1, <4>1, <4>2
      <4>4. e[1] # FreshPage'
        BY <1>5, <1>8, <4>2, <4>3
      <4>5. QED
        BY <4>1, <4>3, <4>4 DEF PageLinks
    <3>2. QED
      BY <3>1
  <2>2. ReadLinks \subseteq ReadLinks'
    <3>1. numPages' \in Nat /\ numPages <= numPages' /\ numPages <= numPages
      BY <1>1, <1>5
    <3>2. PageLinks(pages, numPages, FreshPage) \subseteq PageLinks(pages, numPages', FreshPage')
      BY <1>5, <2>1, <3>1
    <3>3. QED
      BY <1>1, <3>2 DEF ReadLinks
  <2>3. KeptLinks \subseteq KeptLinks'
    <3>1. /\ PageLinks(pages, fileLen, FreshPage) \subseteq PageLinks(pages, fileLen, FreshPage')
          /\ PageLinks(durable, fileLen, FreshPage) \subseteq PageLinks(durable, fileLen, FreshPage')
      BY <1>5, <2>1
    <3>2. QED
      BY <1>1, <3>1 DEF KeptLinks
  <2>4. Grows(pages, pages') /\ pages' \in [PageIds -> PageContents] /\ numPages <= numPages'
    BY <1>1, <1>5, RecParts, OlderSelf DEF Grows
  <2>5. QED
    BY <1>1, <1>5, <2>2, <2>3, <2>4, AckedPut
<1>13. FilesR'
  BY <1>1, RecParts DEF FilesR, Registered, NameOfSchema
<1>14. ThreadR'
  <2>1. numPages < numPages'
    BY <1>1, <1>5
  <2>2. /\ Legible(pages'[Header].slots) = DOMAIN pages'[Header].slots
        /\ \A i \in DOMAIN pages'[Header].slots :
             EntryAt(pages', i) => pages'[Header].slots[i].name # m
    BY <1>1, <1>2, <1>6
  <2>3. QED
    BY <1>1, <1>4, <1>5, <1>7, <1>8, <2>1, <2>2 DEF ThreadR
<1>15. QED
  BY <1>9, <1>10, <1>11, <1>12, <1>13, <1>14 DEF RecInv

\* A record is added to a page with room.
LEMMA RecordPut ==
  ASSUME RecInv, NEW q \in PageIds, q < numPages, HasRoom(pages[q]), NEW r \in Records,
         PutPage(q, WithRecord(pages[q], r)), numPages' = numPages,
         FreshPage' = FreshPage
  PROVE  /\ Appended(pages, pages', q, r)
         /\ pages' \in [PageIds -> PageContents] /\ \A p \in PageIds : p # q => pages'[p] = pages[p]
         /\ durable' = durable /\ fileLen' = fileLen /\ StoreR' /\ Grows(pages, pages')
         /\ numPages' \in 1..MaxPages /\ numPages <= numPages'
         /\ ReadLinks \subseteq ReadLinks' /\ KeptLinks \subseteq KeptLinks'
<1> DEFINE c == WithRecord(pages[q], r)
<1>1. pages[q] \in PageContents /\ pages[q].slots \in Seq(Records) /\ r \in Row \cup Entry
  BY RecParts, PageParts DEF Records
<1>2. /\ c \in PageContents /\ c.kind = pages[q].kind /\ c.next = pages[q].next
      /\ c.slots = Append(pages[q].slots, r)
  BY <1>1, RecordAdded
<1>3. PutPage(q, c)
  OBVIOUS
<1> HIDE DEF c
<1>4. SlotsGrow(pages[q], c)
  <2>1. /\ Len(Append(pages[q].slots, r)) = Len(pages[q].slots) + 1 /\ Len(pages[q].slots) \in Nat
        /\ \A i \in 1..Len(pages[q].slots) : Append(pages[q].slots, r)[i] = pages[q].slots[i]
    BY <1>1, SeqAppend, SeqElements
  <2>2. QED
    BY <1>2, <2>1 DEF SlotsGrow
<1>5. PutOK(q, c)
  <2>1. CASE pages[q].kind = "header"
    <3>1. q = Header /\ pages[q].next = NoLink
      BY <2>1, RecParts DEF Shaped
    <3>2. QED
      BY <1>2, <1>4, <2>1, <3>1 DEF PutOK
  <2>2. CASE pages[q].kind = "data"
    <3>1. q # Header /\ (pages[q].next = NoLink \/ pages[q].next > q)
      BY <2>2, RecParts DEF Shaped
    <3>2. QED
      BY <1>2, <1>4, <2>2, <3>1 DEF PutOK
  <2>3. QED
    BY <2>1, <2>2 DEF HasRoom
<1>6. /\ pages' \in [PageIds -> PageContents] /\ pages'[q] = c
      /\ \A p \in PageIds : p # q => pages'[p] = pages[p]
      /\ durable' = durable /\ fileLen' = fileLen /\ StoreR' /\ Grows(pages, pages')
      /\ numPages' \in 1..MaxPages /\ numPages <= numPages'
      /\ ReadLinks \subseteq ReadLinks' /\ KeptLinks \subseteq KeptLinks'
  BY <1>3, <1>5, RecParts, PutKeeps
<1>7. Appended(pages, pages', q, r)
  BY <1>2, <1>6, RecParts DEF Appended
<1>8. QED
  BY <1>6, <1>7

\* insert_catalog_entry adds the entry to the header page.
LEMMA AddsEntryRecovers ==
  ASSUME RecInv, AddsEntry
  PROVE  RecInv'
<1> DEFINE e == [name |-> thread.entry, first |-> thread.first]
           h == pages[Header]
<1>1. /\ thread.step = "register" /\ thread' = [thread EXCEPT !.step = "flush"]
      /\ UNCHANGED <<numPages, catalog, file, lastRow, acked, kept>>
  BY DEF AddsEntry
<1>2. PutPage(Header, WithRecord(h, e)) /\ HasRoom(h)
  <2>1. Chain(Header) = <<Header>>
    BY RecParts, HeaderRecords DEF Chain
  <2>2. PICK i \in DOMAIN Chain(Header) :
          /\ HasRoom(pages[Chain(Header)[i]])
          /\ PutPage(Chain(Header)[i], WithRecord(pages[Chain(Header)[i]], e))
    BY DEF AddsEntry
  <2>3. Chain(Header)[i] = Header
    BY <2>1, <2>2
  <2> HIDE DEF e
  <2>4. QED
    BY <2>2, <2>3
<1>3. /\ Opening /\ Opening' /\ ~Inserting /\ ~Inserting'
      /\ thread'.step = "flush" /\ thread'.first = thread.first /\ thread'.entry = thread.entry
      /\ thread'.name = thread.name /\ thread' \in Calls
      /\ e \in Entry /\ e.name = thread.entry /\ e.first = thread.first
  BY <1>1, RecParts, ThreadTyped DEF Opening, Inserting, Calls, Entry
<1>4. /\ thread.first \in PageIds /\ thread.first < numPages /\ pages[thread.first] = ZeroBytes
      /\ Registered(thread.name) /\ thread.entry = NameOfSchema(thread.name)
      /\ Legible(h.slots) = DOMAIN h.slots
      /\ \A i \in DOMAIN h.slots : EntryAt(pages, i) => h.slots[i].name # thread.entry
  BY <1>1, <1>3, RecParts DEF ThreadR
<1>5. FreshPage' = FreshPage
  BY <1>3 DEF FreshPage
<1> HIDE DEF e
<1>6. ~IsRow(e) /\ e \in Records
  BY <1>3, RecordKinds DEF Records
<1>7. /\ Appended(pages, pages', Header, e)
      /\ pages' \in [PageIds -> PageContents] /\ \A p \in PageIds : p # Header => pages'[p] = pages[p]
      /\ durable' = durable /\ fileLen' = fileLen /\ StoreR' /\ Grows(pages, pages')
      /\ numPages' \in 1..MaxPages /\ numPages <= numPages'
      /\ ReadLinks \subseteq ReadLinks' /\ KeptLinks \subseteq KeptLinks'
  <2>1. Header \in PageIds /\ Header < numPages
    BY RecParts
  <2>2. QED
    BY <1>1, <1>2, <1>5, <1>6, <2>1, RecordPut
<1>8. TypeOK'
  BY <1>1, <1>3, <1>7, RecParts DEF TypeOK
<1>9. RowsOnce(pages')
  BY <1>6, <1>7, RecParts, RowsOnceOn
<1>10. HeaderIn(pages')
  BY <1>3, <1>4, <1>7, RecParts, HeaderOn
<1>11. RowsKnown'
  <2>1. ASSUME NEW p \in PageIds, NEW j \in DOMAIN pages'[p].slots, IsRow(pages'[p].slots[j])
        PROVE  StoredRow(pages'[p].slots[j].row)
    <3>1. j \in DOMAIN pages[p].slots /\ pages'[p].slots[j] = pages[p].slots[j]
      BY <1>6, <1>7, <2>1, AppendedSlots
    <3>2. QED
      BY <2>1, <3>1, RecParts DEF RowsKnown
  <2>2. QED
    BY <1>1, <1>3, <2>1 DEF RowsKnown, StoredRow
<1>12. AckedR'
  BY <1>1, <1>7, AckedPut
<1>13. FilesR'
  BY <1>1, <1>7, RecParts, FilesGrow
<1>14. ThreadR'
  <2>1. thread.first # Header
    BY <1>4, RecParts, FreshPages DEF Shaped
  <2>2. pages'[thread.first] = ZeroBytes
    BY <1>4, <1>7, <2>1
  <2>3. HasEntry(pages', thread.entry, thread.first)
    <3> DEFINE i == Len(pages[Header].slots) + 1
    <3>1. i \in DOMAIN pages'[Header].slots /\ pages'[Header].slots[i] = e
      BY <1>7, RecParts, AppendedSlots
    <3>2. QED
      BY <1>3, <1>6, <3>1 DEF HasEntry, IsEntryOf, EntryAt
  <2>4. QED
    BY <1>1, <1>3, <1>4, <2>2, <2>3 DEF ThreadR, Registered, NameOfSchema
<1>15. QED
  BY <1>7, <1>8, <1>9, <1>10, <1>11, <1>12, <1>13, <1>14 DEF RecInv

\* The first header page has room: there is never a second one.
LEMMA AddsHeaderPageRecovers ==
  ASSUME ~HeaderOverflows, RecInv, AddsHeaderPage
  PROVE  RecInv'
<1>1. thread.step = "register" /\ \A i \in DOMAIN Chain(Header) : ~HasRoom(pages[Chain(Header)[i]])
  BY DEF AddsHeaderPage
<1>2. ~HasRoom(pages[Header])
  <2>1. Chain(Header) = <<Header>>
    BY RecParts, HeaderRecords DEF Chain
  <2>2. 1 \in DOMAIN Chain(Header) /\ Chain(Header)[1] = Header
    BY <2>1
  <2>3. QED
    BY <1>1, <2>2
<1>3. QED
  BY <1>1, <1>2 DEF HeaderOverflows

\* Where insert is: on the walk from the first page of its file.
LEMMA InsertIsOn ==
  ASSUME RecInv, thread.step = "insert"
  PROVE  /\ Inserting /\ thread.name \in Files /\ file[thread.name] \in PageIds /\ FreshPage = NoLink
         /\ lastRow \in 1..MaxRows /\ InsertCan
         /\ Walks(pages, numPages, file[thread.name], InsertChain)
         /\ ReadLinks = PageLinks(pages, numPages, NoLink)
         /\ \A i \in DOMAIN InsertChain :
              /\ InsertChain[i] \in PageIds /\ InsertChain[i] < numPages
              /\ Reach(ReadLinks, file[thread.name], InsertChain[i])
<1> DEFINE p == file[thread.name]
           C == InsertChain
<1>1. Inserting /\ FreshPage = NoLink
  BY NoCall DEF Inserting
<1>2. thread.name \in Files /\ lastRow # 0 /\ p # NoLink /\ InsertCan
  BY <1>1, RecParts, ThreadTyped DEF ThreadR
<1>3. p \in PageIds
  BY <1>2, RecParts DEF FilesR
<1>4. lastRow \in 1..MaxRows
  BY <1>2, RecParts, DatabaseAssumption DEF TypeOK
<1>5. C = ChainIn(pages, numPages, p)
  BY DEF InsertChain, Chain
<1> HIDE DEF p, C
<1>6. Walks(pages, numPages, p, C)
  BY <1>3, <1>5, RecParts, PageIdsAre, ChainWalks
<1>7. IsChain(pages, numPages, p, C) /\ DOMAIN C = 1..Len(C)
  BY <1>6, SeqElements DEF Walks, IsChain
<1>8. ReadLinks = PageLinks(pages, numPages, NoLink)
  BY <1>1 DEF ReadLinks
<1>9. ASSUME NEW i \in DOMAIN C
      PROVE  C[i] \in PageIds /\ C[i] < numPages /\ Reach(ReadLinks, p, C[i])
  BY <1>7, <1>8, RecParts, WalkReaches
<1>10. QED
  BY <1>1, <1>2, <1>3, <1>4, <1>6, <1>8, <1>9 DEF p, C

\* insert stores the row where the entry of its table leads to.
LEMMA InsertStoresRecovers ==
  ASSUME RecInv, InsertStores
  PROVE  RecInv'
<1> DEFINE r == [row |-> lastRow]
           p == file[thread.name]
           n == NameOfSchema(thread.name)
<1>1. /\ thread.step = "insert" /\ thread' = Idle
      /\ UNCHANGED <<numPages, catalog, file, lastRow, kept>>
      /\ acked' = IF thread.name \in Temps THEN acked
                  ELSE [acked EXCEPT ![n] = @ \cup {lastRow}]
  BY DEF InsertStores
<1>2. /\ Inserting /\ thread.name \in Files /\ p \in PageIds /\ FreshPage = NoLink
      /\ lastRow \in 1..MaxRows
  BY <1>1, InsertIsOn
<1>3. thread.name \notin Temps => n \in Names /\ HasEntry(pages, n, p)
  <2>1. thread.name \notin Temps => thread.name \in Names
    BY <1>2 DEF Files
  <2>2. p # NoLink /\ FilesR /\ TypeOK
    BY <1>2, RecParts, PageIdsAre
  <2>3. thread.name \in Names => Registered(thread.name) /\ HasEntry(pages, n, p)
    BY <1>2, <2>2 DEF FilesR
  <2>4. QED
    BY <2>1, <2>2, <2>3, NameOfSchemaIs
<1> HIDE DEF n
<1>4. PICK i \in DOMAIN InsertChain :
        /\ HasRoom(pages[InsertChain[i]])
        /\ PutPage(InsertChain[i], WithRecord(pages[InsertChain[i]], r))
  BY DEF InsertStores
<1> DEFINE q == InsertChain[i]
<1>5. q \in PageIds /\ q < numPages /\ Reach(ReadLinks, p, q)
  BY <1>1, InsertIsOn
<1>6. r \in Records /\ IsRow(r) /\ r.row = lastRow
  BY <1>2, RecordKinds DEF Records
<1>7. ThreadR' /\ ~Inserting' /\ FreshPage' = FreshPage
  BY <1>1, <1>2, NoCall
<1>8. PutPage(q, WithRecord(pages[q], r)) /\ HasRoom(pages[q])
  BY <1>4
<1> HIDE DEF p, q, r
<1>9. /\ Appended(pages, pages', q, r)
      /\ pages' \in [PageIds -> PageContents]
      /\ durable' = durable /\ fileLen' = fileLen /\ StoreR' /\ Grows(pages, pages')
      /\ numPages' \in 1..MaxPages /\ numPages <= numPages'
      /\ ReadLinks \subseteq ReadLinks' /\ KeptLinks \subseteq KeptLinks'
  BY <1>1, <1>5, <1>6, <1>7, <1>8, RecordPut
<1>10. RowsOnce(pages')
  <2>1. ASSUME NEW x \in PageIds, NEW j \in DOMAIN pages[x].slots
        PROVE  pages[x].slots[j] # r
    <3>1. IsRow(pages[x].slots[j]) => pages[x].slots[j].row # lastRow
      BY <1>2, RecParts DEF RowsKnown, StoredRow
    <3>2. QED
      BY <1>6, <3>1
  <2>2. QED
    BY <1>9, <2>1, RecParts, RowsOnceOn
<1>11. HeaderIn(pages')
  BY <1>6, <1>9, RecParts, HeaderOn
<1>12. RowsKnown'
  <2>1. ASSUME NEW x \in PageIds, NEW j \in DOMAIN pages'[x].slots, IsRow(pages'[x].slots[j])
        PROVE  pages'[x].slots[j].row \in 1..lastRow
    <3>1. CASE j \in DOMAIN pages[x].slots /\ pages'[x].slots[j] = pages[x].slots[j]
      BY <2>1, <3>1, RecParts DEF RowsKnown, StoredRow
    <3>2. CASE pages'[x].slots[j] = r
      BY <1>2, <1>6, <3>2
    <3>3. QED
      BY <1>9, <3>1, <3>2, AppendedSlots
  <2>2. QED
    BY <1>1, <1>7, <2>1 DEF RowsKnown, StoredRow
<1>13. acked \in [Names -> SUBSET (1..MaxRows)]
  BY RecParts DEF TypeOK
<1>14. TypeOK'
  <2>1. acked' \in [Names -> SUBSET (1..MaxRows)]
    BY <1>1, <1>2, <1>13
  <2>2. thread' \in Calls
    BY <1>1 DEF Calls
  <2>3. QED
    BY <1>1, <1>9, <2>1, <2>2, RecParts DEF TypeOK
<1>15. AckedR'
  <2>1. ASSUME thread.name \notin Temps
        PROVE  LeadsTo(pages', numPages', ReadLinks', n, lastRow)
    <3>1. HasEntry(pages', n, p)
      BY <1>3, <1>9, <2>1, RecParts, EntryGrows
    <3>2. Reach(ReadLinks', p, q)
      BY <1>5, <1>9, ReachGrows
    <3>3. \E j \in DOMAIN pages'[q].slots : RowAt(pages', q, j, lastRow)
      BY <1>5, <1>9, AppendedSlots DEF RowAt, r
    <3>4. QED
      BY <1>1, <1>2, <1>5, <3>1, <3>2, <3>3 DEF LeadsTo, p
  <2>2. ASSUME NEW m \in Names
        PROVE  /\ acked[m] \subseteq acked'[m]
               /\ \A x \in acked'[m] :
                    x \in acked[m] \/ LeadsTo(pages', numPages', ReadLinks', m, x)
    <3>1. CASE thread.name \in Temps \/ m # n
      BY <1>1, <1>13, <3>1
    <3>2. CASE thread.name \notin Temps /\ m = n
      <4>1. acked'[m] = acked[m] \cup {lastRow}
        BY <1>1, <1>13, <3>2
      <4>2. QED
        BY <2>1, <3>2, <4>1
    <3>3. QED
      BY <3>1, <3>2
  <2>3. QED
    BY <1>1, <1>9, <2>2, AckedPut
<1>16. FilesR'
  BY <1>1, <1>9, RecParts, FilesGrow
<1>17. QED
  BY <1>7, <1>9, <1>10, <1>11, <1>12, <1>14, <1>15, <1>16 DEF RecInv

\* insert adds a page to the file, and has one to add.
LEMMA InsertGrowsRecovers ==
  ASSUME ~HeaderOverflows, RecInv, InsertGrows
  PROVE  RecInv'
<1> DEFINE C == InsertChain
           p == file[thread.name]
           l == Last(C)
           c == EmptyData(pages[l].name)
<1>1. /\ thread.step = "insert" /\ NoRoom /\ C # <<>> /\ pages[l].next = NoLink
      /\ PutPage(numPages, c) /\ numPages' = numPages + 1
      /\ thread' = [thread EXCEPT !.step = "link", !.last = l, !.new = numPages]
      /\ UNCHANGED <<catalog, file, lastRow, acked, kept>>
  BY DEF InsertGrows
<1>2. /\ Inserting /\ thread.name \in Files /\ p \in PageIds /\ FreshPage = NoLink
      /\ lastRow \in 1..MaxRows /\ InsertCan /\ Walks(pages, numPages, p, C)
      /\ ReadLinks = PageLinks(pages, numPages, NoLink)
      /\ \A i \in DOMAIN C : C[i] \in PageIds /\ C[i] < numPages /\ Reach(ReadLinks, p, C[i])
  BY <1>1, InsertIsOn
<1>3. \A i \in DOMAIN C : ~HasRoom(pages[C[i]])
  BY <1>1 DEF NoRoom
<1>4. C \in Seq(PageIds) /\ IsChain(pages, numPages, p, C)
  BY <1>2 DEF Walks, IsChain
<1> HIDE DEF C, p
<1>5. /\ l \in PageIds /\ l < numPages /\ Reach(ReadLinks, p, l) /\ ~HasRoom(pages[l])
  <2>1. Len(C) \in DOMAIN C /\ l = C[Len(C)]
    BY <1>1, <1>4, EmptySeq DEF Last
  <2>2. QED
    BY <1>2, <1>3, <2>1
<1> HIDE DEF l
<1>6. numPages < MaxPages
  <2>1. SUFFICES ASSUME ~(numPages < MaxPages)
                 PROVE  FALSE
    OBVIOUS
  <2>2. PICK q \in PageIds : q < numPages /\ Reach(ReadLinks, p, q) /\ HasRoom(pages[q])
    BY <1>2, <2>1 DEF InsertCan, p
  <2>3. \E k \in 1..Len(C) : C[k] = q
    <3>1. numPages \in Nat /\ ReadLinks \subseteq PageLinks(pages, numPages, NoLink)
      BY <1>2, RecParts
    <3>2. QED
      BY <1>2, <1>4, <2>2, <3>1, WalkMeets
  <2>4. DOMAIN C = 1..Len(C)
    BY <1>4, SeqElements
  <2>5. QED
    BY <1>3, <2>2, <2>3, <2>4
<1>7. pages[l].kind = "data"
  <2>1. pages[l].kind # "zero"
    BY <1>1, <1>5, RecParts, FreshPages DEF Shaped, NoLink
  <2>2. pages[l].kind # "header"
    <3>1. SUFFICES ASSUME pages[l].kind = "header"
                   PROVE  FALSE
      OBVIOUS
    <3>2. l = Header
      BY <1>5, <3>1, RecParts DEF Shaped
    <3>3. QED
      BY <1>1, <3>2 DEF HeaderOverflows, l, C
  <2>3. QED
    BY <1>5, <2>1, <2>2, RecParts, PageParts
<1>8. /\ numPages \in PageIds /\ numPages # Header /\ numPages \in Links
      /\ pages[numPages] = ZeroBytes /\ l # numPages /\ l \in Links
  <2>1. numPages \in PageIds /\ numPages # Header /\ l # numPages
    BY <1>5, <1>6, RecParts DEF PageIds, Header
  <2>2. QED
    BY <1>5, <2>1, RecParts, PageIdsAre DEF Shaped
<1>9. pages[l].name \in Names \cup {NoName}
  BY <1>5, RecParts DEF PageContents
<1>10. PutOK(numPages, c) /\ c.slots = pages[numPages].slots
  BY <1>8, <1>9, EmptyPut
<1>11. c.kind = "data" /\ HasRoom(c)
  BY <1>9, FreshPages
<1> HIDE DEF c
<1>12. /\ thread'.step = "link" /\ thread'.name = thread.name /\ thread'.last = l
       /\ thread'.new = numPages /\ thread' \in Calls
  BY <1>1, <1>2, <1>8, RecParts, ThreadTyped DEF Calls
<1>13. Inserting' /\ ~Opening' /\ FreshPage' = FreshPage
  BY <1>2, <1>12, NoCall DEF Inserting
<1>14. /\ pages' \in [PageIds -> PageContents] /\ pages'[numPages] = c
       /\ \A x \in PageIds : x # numPages => pages'[x] = pages[x]
       /\ durable' = durable /\ fileLen' = fileLen /\ StoreR' /\ Grows(pages, pages')
       /\ numPages' \in 1..MaxPages /\ numPages <= numPages'
       /\ ReadLinks \subseteq ReadLinks' /\ KeptLinks \subseteq KeptLinks'
  BY <1>1, <1>6, <1>10, <1>13, RecParts, PutKeeps
<1>15. TypeOK'
  BY <1>1, <1>12, <1>14, RecParts DEF TypeOK
<1>16. RowsOnce(pages)' /\ HeaderIn(pages)' /\ RowsKnown'
  <2>1. \A x \in PageIds : pages'[x].slots = pages[x].slots
    BY <1>10, <1>14
  <2>2. QED
    BY <1>1, <1>2, <2>1, SlotsStay
<1>17. AckedR'
  BY <1>1, <1>14, RecParts, AckedPut
<1>18. FilesR'
  BY <1>1, <1>14, RecParts, FilesGrow
<1>19. ThreadR'
  <2>1. l < numPages /\ numPages < numPages'
    BY <1>1, <1>5, RecParts
  <2>2. /\ pages'[l].kind = "data" /\ pages'[l].next = NoLink
        /\ pages'[numPages].kind = "data" /\ HasRoom(pages'[numPages])
    BY <1>1, <1>5, <1>7, <1>8, <1>11, <1>14
  <2>3. Reach(ReadLinks', p, l)
    BY <1>5, <1>14, ReachGrows
  <2>4. file'[thread.name] = p /\ p # NoLink /\ lastRow' # 0
    BY <1>1, <1>2, PageIdsAre DEF p
  <2>5. QED
    BY <1>5, <1>8, <1>12, <1>13, <2>1, <2>2, <2>3, <2>4 DEF ThreadR
<1>20. QED
  BY <1>14, <1>15, <1>16, <1>17, <1>18, <1>19 DEF RecInv

\* insert links the new page, where it will find room.
LEMMA InsertLinksRecovers ==
  ASSUME RecInv, InsertLinks
  PROVE  RecInv'
<1> DEFINE p == file[thread.name]
           l == thread.last
           x == thread.new
           c == WithNext(pages[l], x)
<1>1. /\ thread.step = "link" /\ thread' = [thread EXCEPT !.step = "insert"] /\ PutPage(l, c)
      /\ UNCHANGED <<numPages, catalog, file, lastRow, acked, kept>>
  BY DEF InsertLinks
<1>2. Inserting /\ FreshPage = NoLink
  BY <1>1, NoCall DEF Inserting
<1>3. /\ l \in PageIds /\ x \in PageIds /\ l < x /\ x < numPages
      /\ pages[l].kind = "data" /\ pages[l].next = NoLink
      /\ pages[x].kind = "data" /\ HasRoom(pages[x])
      /\ Reach(ReadLinks, p, l) /\ p # NoLink /\ lastRow # 0
  BY <1>1, <1>2, RecParts DEF ThreadR
<1>4. /\ thread'.step = "insert" /\ thread'.name = thread.name /\ thread' \in Calls
  BY <1>1, <1>2, RecParts, ThreadTyped DEF Calls
<1>5. Inserting' /\ ~Opening' /\ FreshPage' = FreshPage
  BY <1>2, <1>4, NoCall DEF Inserting
<1>6. c \in PageContents /\ c.kind = "data" /\ c.next = x /\ c.slots = pages[l].slots
  <2>1. pages[l] \in PageContents /\ x \in Links
    BY <1>3, RecParts, PageIdsAre
  <2>2. QED
    BY <1>3, <2>1, LinkSet
<1> HIDE DEF c, l, x, p
<1>7. l # Header /\ l # x /\ l < numPages /\ x > l
  <2>1. l # Header
    BY <1>3, RecParts DEF Shaped
  <2>2. QED
    BY <1>3, <2>1, RecParts, PageIdsAre
<1>8. PutOK(l, c)
  <2>1. SlotsGrow(pages[l], pages[l])
    BY <1>3, RecParts, OlderSelf
  <2>2. SlotsGrow(pages[l], c)
    BY <1>6, <2>1 DEF SlotsGrow
  <2>3. QED
    BY <1>3, <1>6, <1>7, <2>2 DEF PutOK
<1>9. /\ pages' \in [PageIds -> PageContents] /\ pages'[l] = c
      /\ \A y \in PageIds : y # l => pages'[y] = pages[y]
      /\ durable' = durable /\ fileLen' = fileLen /\ StoreR' /\ Grows(pages, pages')
      /\ numPages' \in 1..MaxPages /\ numPages <= numPages'
      /\ ReadLinks \subseteq ReadLinks' /\ KeptLinks \subseteq KeptLinks'
  BY <1>1, <1>5, <1>7, <1>8, RecParts, PutKeeps
<1>10. TypeOK'
  BY <1>1, <1>4, <1>9, RecParts DEF TypeOK
<1>11. RowsOnce(pages)' /\ HeaderIn(pages)' /\ RowsKnown'
  <2>1. \A y \in PageIds : pages'[y].slots = pages[y].slots
    BY <1>6, <1>9
  <2>2. QED
    BY <1>1, <1>2, <2>1, SlotsStay
<1>12. AckedR'
  BY <1>1, <1>9, RecParts, AckedPut
<1>13. FilesR'
  BY <1>1, <1>9, RecParts, FilesGrow
<1>14. ThreadR'
  <2>1. <<l, x>> \in ReadLinks'
    <3>1. ReadLinks' = PageLinks(pages', numPages, NoLink)
      BY <1>1, <1>2, <1>5 DEF ReadLinks
    <3>2. QED
      BY <1>3, <1>6, <1>7, <1>9, <3>1, PageIdsAre DEF PageLinks
  <2>2. Reach(ReadLinks', p, l)
    BY <1>3, <1>9, ReachGrows
  <2>3. Reach(ReadLinks', p, x)
    BY <2>1, <2>2, ReachOn
  <2>4. HasRoom(pages'[x])
    BY <1>3, <1>7, <1>9
  <2>5. file'[thread'.name] = p
    BY <1>1, <1>4 DEF p
  <2>6. InsertCan'
    BY <1>1, <1>3, <2>3, <2>4, <2>5 DEF InsertCan
  <2>7. QED
    BY <1>1, <1>3, <1>4, <1>5, <2>5, <2>6 DEF ThreadR
<1>15. QED
  BY <1>9, <1>10, <1>11, <1>12, <1>13, <1>14 DEF RecInv

------------------------------------------------------------------------------
(* The theorems *)

\* The invariant is kept, with and without crashes.
LEMMA RecInvInductive ==
  ASSUME ~HeaderOverflows, RecInv, [Next]_vars
  PROVE  RecInv'
<1>1. CASE UNCHANGED vars
  BY <1>1, StutterRecovers
<1>2. ASSUME NEW n \in Names, AddSchema(n) PROVE RecInv'
  BY <1>2, AddSchemaRecovers
<1>3. ASSUME NEW n \in Names, OpenFinds(n) PROVE RecInv'
  BY <1>3, OpenFindsRecovers
<1>4. ASSUME NEW n \in Names, OpenAllocates(n) PROVE RecInv'
  BY <1>4, OpenAllocatesRecovers
<1>5. ASSUME NEW t \in Temps, OpenTemporary(t) PROVE RecInv'
  BY <1>5, OpenTemporaryRecovers
<1>6. ASSUME NEW f \in Files, CallInsert(f) PROVE RecInv'
  BY <1>6, CallInsertRecovers
<1>7. CASE AddsEntry
  BY <1>7, AddsEntryRecovers
<1>8. CASE AddsHeaderPage
  BY <1>8, AddsHeaderPageRecovers
<1>9. CASE FlushesEntry
  BY <1>9, FlushesEntryRecovers
<1>10. CASE InitialisesFirstPage
  BY <1>10, InitialisesFirstPageRecovers
<1>11. CASE InsertStores
  BY <1>11, InsertStoresRecovers
<1>12. CASE InsertGrows
  BY <1>12, InsertGrowsRecovers
<1>13. CASE InsertLinks
  BY <1>13, InsertLinksRecovers
<1>14. CASE InsertRaises
  BY <1>14, InsertRaisesRecovers
<1>15. CASE EvictPage
  BY <1>15, EvictPageRecovers
<1>16. CASE CallerFlushes
  BY <1>16, CallerFlushesRecovers
<1>17. CASE Restart
  BY <1>17, RestartRecovers
<1>18. CASE Crash
  BY <1>18, CrashRecovers
<1>19. QED
  BY <1>1, <1>2, <1>3, <1>4, <1>5, <1>6, <1>7, <1>8, <1>9, <1>10, <1>11, <1>12, <1>13,
     <1>14, <1>15, <1>16, <1>17, <1>18 DEF Next

\* DbInv goes with it as long as nothing crashes.
LEMMA OrderlyAlways == Spec => []Orderly
<1>1. CASE Crashes
  <2>1. Orderly
    BY <1>1 DEF Orderly
  <2>2. QED
    BY <2>1, PTL
<1>2. CASE ~Crashes
  <2>1. DbInv => Orderly
    BY DEF Orderly
  <2>2. Spec => []DbInv
    BY <1>2, CatalogInvariance
  <2>3. QED
    BY <2>1, <2>2, PTL
<1>3. QED
  BY <1>1, <1>2

\* Every name has room on the header page, and every row that may get there: while
\* an entry or a row is missing there, the page is not full.
LEMMA RoomForAll ==
  ASSUME HeaderFits, Orderly, RecInv
  PROVE  ~HeaderOverflows
<1>1. ASSUME thread.step = "register"
      PROVE  HasRoom(pages[Header])
  <2>1. Opening /\ TypeOK /\ ThreadR
    BY <1>1, RecParts DEF Opening
  <2>2. thread.entry \in Names
    BY <2>1, ThreadTyped
  <2>3. NameUnused(thread.entry)
    BY <1>1, <2>1, <2>2 DEF ThreadR, NameUnused
  <2>4. Len(pages[Header].slots) < EntriesPerPage
    BY <2>2, <2>3, RecParts, HeaderHasRoom
  <2>5. pages[Header].kind = "header"
    BY RecParts DEF Shaped
  <2>6. QED
    BY <2>4, <2>5 DEF HasRoom
<1>2. ASSUME thread.step = "insert", NoRoom, InsertChain # <<>>, Last(InsertChain) = Header
      PROVE  FALSE
  <2> DEFINE C == InsertChain
             p == file[thread.name]
  <2>1. /\ lastRow \in 1..MaxRows /\ Walks(pages, numPages, p, C)
    BY <1>2, InsertIsOn
  <2>2. ~HasRoom(pages[Header])
    <3>1. C \in Seq(PageIds)
      BY <2>1 DEF Walks, IsChain
    <3>2. Len(C) \in DOMAIN C /\ Header = C[Len(C)]
      <4> HIDE DEF C
      <4>1. C # <<>> /\ Last(C) = Header
        BY <1>2 DEF C
      <4>2. QED
        BY <3>1, <4>1, EmptySeq DEF Last
    <3>3. QED
      BY <1>2, <3>2 DEF NoRoom
  <2>3. pages[Header].kind = "header"
    BY RecParts DEF Shaped
  <2>4. CASE Crashes
    <3>1. Inserting
      BY <1>2, InsertIsOn
    <3>2. RowUnused(lastRow)
      BY <1>2, <2>1, <3>1, RecParts, InsertIsOn DEF RowUnused, RowsKnown, StoredRow
    <3>3. Len(pages[Header].slots) < EntriesPerPage
      BY <2>1, <2>4, <3>2, RecParts, HeaderHasRoom
    <3>4. QED
      BY <2>2, <2>3, <3>3 DEF HasRoom
  <2>5. CASE DbInv
    <3>1. PICK own \in Owners : HeaderOK(own) /\ DataOK(own) /\ FilesOK(own) /\ ThreadOK(own)
      BY <2>5 DEF DbInv
    <3>2. Last(InsertChain) = InsertChain[Len(InsertChain)] /\ IsData(InsertChain[Len(InsertChain)])
      BY <1>2, <3>1, RecParts, InsertWalks
    <3>3. QED
      BY <1>2, <2>3, <3>2 DEF IsData, DataIn
  <2>6. QED
    BY <2>4, <2>5 DEF Orderly
<1>3. QED
  BY <1>1, <1>2 DEF HeaderOverflows

\* Whether or not the process may die: the store, the catalog entries and the call
\* that runs are as RecInv says, over evictions, flushes, restarts and crashes at
\* any step of get_heap_file and insert, as long as the first header page does not
\* overflow; any number of rows may have been inserted.
THEOREM RecoveryInvariance == Spec /\ []~HeaderOverflows => []RecInv
<1>1. ~HeaderOverflows /\ RecInv /\ [Next]_vars => RecInv'
  BY RecInvInductive
<1>2. QED
  BY <1>1, InitRecovers, PTL DEF Spec

\* The header page does not overflow while it has a slot for an entry of every name
\* and, where the process may die, one for every row that is inserted, as any of
\* them may get there: insert_catalog_entry looks for the name first, and no row is
\* stored twice.
THEOREM HeaderNeverOverflows ==
  ASSUME HeaderFits
  PROVE  Spec => []~HeaderOverflows
<1>1. Orderly /\ RecInv => ~HeaderOverflows
  BY RoomForAll
<1>2. ~HeaderOverflows /\ RecInv /\ [Next]_vars => RecInv'
  BY RecInvInductive
<1>3. QED
  BY <1>1, <1>2, InitRecovers, OrderlyAlways, PTL DEF Spec

\* A row whose insert returned before a completed flush_dirty is found in its
\* table for good, once, in the process and on disk, whatever the table's pages,
\* the other tables' and the temporary files' go through afterwards: catalog.py's
\* and heap_page.py's walks after DiskManager has written any pages, or all.
THEOREM FlushedRowsAreSafe == Spec /\ []~HeaderOverflows => []FlushedRowsSurvive
<1>1. RecInv => FlushedRowsSurvive
  BY RecInvKeepsRows
<1>2. QED
  BY <1>1, RecoveryInvariance, PTL

\* The types hold also when the process may die.
THEOREM DatabaseTypedOverCrashes == Spec /\ []~HeaderOverflows => []TypeOK
<1>1. RecInv => TypeOK
  BY RecParts
<1>2. QED
  BY <1>1, RecoveryInvariance, PTL

\* A HeapFile in use is the one find_catalog_entry finds for its name, also after
\* a crash has led insert to the header page: the search meets every entry before
\* the rows that would stop it.
THEOREM TablesFoundAgain == Spec /\ []~HeaderOverflows => []FoundAgain
<1>1. ASSUME RecInv, NEW n \in Names, file[n] # NoLink
      PROVE  FindEntry(NameOfSchema(n)) = file[n]
  <2>1. n \in Files
    BY DEF Files
  <2>2. file[n] \in PageIds /\ HasEntry(pages, NameOfSchema(n), file[n])
    BY <1>1, <2>1, RecParts DEF FilesR
  <2>3. HeaderIn(pages) /\ Shaped(pages, numPages) /\ numPages \in 1..MaxPages
        /\ pages \in [PageIds -> PageContents]
    BY <1>1, RecParts
  <2>4. FindIn(pages, numPages, NameOfSchema(n)) = file[n]
    BY <2>2, <2>3, FindIs
  <2>5. QED
    BY <2>4 DEF FindEntry
<1>2. RecInv => FoundAgain
  BY <1>1 DEF FoundAgain
<1>3. QED
  BY <1>2, RecoveryInvariance, PTL
==============================================================================
