----------------------------- MODULE IndexProofs -----------------------------
(***************************************************************************)
(* Deductive proofs about IndexedTable: while no two tables have equal     *)
(* schemas, whatever was inserted before and after an index was built, an  *)
(* index scan agrees with a filter over the heap file.                     *)
(***************************************************************************)
EXTENDS IndexedTable, SeqLemmas

------------------------------------------------------------------------------
(* The inductive invariant *)

Increasing(rows) == \A i, j \in DOMAIN rows : i < j => rows[i].row < rows[j].row

\* What an index holds of a row of the heap file: the tuple that insert was
\* called with, or the one that a scan read.
IsCopy(stored, r) == r = stored \/ r = PageRow(stored)

\* Every tuple of an index is in the bucket of its key, those of a bucket are in
\* the order of the heap file, and they are rows of it.
BucketsHold(hash, ix, c, rows) ==
  \A b \in Buckets :
    /\ Increasing(ix[b])
    /\ \A j \in DOMAIN ix[b] : /\ hash[ix[b][j].value[c]] = b
                               /\ \E i \in DOMAIN rows : IsCopy(rows[i], ix[b][j])

Holds(ix, r) == \E b \in Buckets : \E j \in DOMAIN ix[b] : IsCopy(r, ix[b][j])

\* An index lacks what its scan did not come to and the row on its way to it.
IndexFits(hash, ix, c, rows, out, open) ==
  /\ BucketsHold(hash, ix, c, rows)
  /\ \A b \in Buckets : \A j \in DOMAIN ix[b] : ix[b][j].row \notin open
  /\ \A i \in DOMAIN rows : rows[i].row \in out \/ rows[i].row \in open \/ Holds(ix, rows[i])

\* The row whose callback has not run.
OpenRows(n) == IF thread # Idle /\ thread.name = n THEN {thread.record.row} ELSE {}

HeapOK == \A n \in Names : /\ Increasing(heap[n])
                           /\ \A i \in DOMAIN heap[n] : heap[n][i].row <= lastRow

ThreadOK ==
  thread # Idle =>
    /\ Registered(thread.name)
    /\ Len(heap[thread.name]) # 0 /\ heap[thread.name][Len(heap[thread.name])] = thread.record
    /\ thread.record.row = lastRow

IndexOK ==
  \A n \in Names, c \in Columns : index[n][c] # NoIndex =>
    /\ Registered(n)
    /\ IndexFits(bucketOf, index[n][c], c, heap[n], missed[n][c], OpenRows(n))

IndexInv == TypeOK /\ HeapOK /\ ThreadOK /\ IndexOK

------------------------------------------------------------------------------
(* Rows and indexes *)

\* An index is not no index.
LEMMA NoIndexIs == NoIndex \notin [Buckets -> Seq(IndexRow)] /\ EmptyIndex \in [Buckets -> Seq(IndexRow)]
<1>1. DOMAIN NoIndex = {}
  BY DEF NoIndex
<1>2. \A f \in [Buckets -> Seq(IndexRow)] : DOMAIN f = Buckets
  OBVIOUS
<1>3. NoIndex \notin [Buckets -> Seq(IndexRow)]
  BY <1>1, <1>2, IndexAssumption
<1>4. <<>> \in Seq(IndexRow)
  OBVIOUS
<1>5. EmptyIndex \in [Buckets -> Seq(IndexRow)]
  BY <1>4 DEF EmptyIndex
<1>6. QED
  BY <1>3, <1>5

\* What a page gives back for a row is a row of the same number.
LEMMA PageRowTyped ==
  ASSUME NEW r \in IndexRow
  PROVE  /\ PageRow(r) \in IndexRow /\ PageRow(r).row = r.row /\ r.row \in 1..MaxRows
         /\ \A c \in Columns : /\ r.value[c] \in Values /\ PageRow(r).value[c] = ReadBack[r.value[c]]
                               /\ Same[PageRow(r).value[c]] = Same[r.value[c]]
<1>1. r.row \in 1..MaxRows /\ r.value \in [Columns -> Values] /\ r = [row |-> r.row, value |-> r.value]
  BY DEF IndexRow
<1> DEFINE v == [c \in Columns |-> ReadBack[r.value[c]]]
<1>2. v \in [Columns -> Values]
  BY <1>1, IndexAssumption
<1>3. PageRow(r) = [row |-> r.row, value |-> v]
  BY <1>1 DEF PageRow
<1>4. \A c \in Columns : r.value[c] \in Values /\ v[c] = ReadBack[r.value[c]]
  BY <1>1
<1> HIDE DEF v
<1>5. [row |-> r.row, value |-> v] \in IndexRow
  BY <1>1, <1>2 DEF IndexRow
<1>6. \A c \in Columns : Same[v[c]] = Same[r.value[c]]
  BY <1>4, IndexAssumption
<1>7. QED
  BY <1>1, <1>3, <1>4, <1>5, <1>6

\* A copy has the number of its row.
LEMMA CopyIs ==
  ASSUME NEW r \in IndexRow, NEW s, IsCopy(r, s)
  PROVE  s \in IndexRow /\ s.row = r.row
BY PageRowTyped DEF IsCopy

\* Rows are told apart by their numbers.
LEMMA RowsApart ==
  ASSUME NEW rows \in Seq(IndexRow), Increasing(rows), NEW i \in DOMAIN rows, NEW j \in DOMAIN rows
  PROVE  /\ rows[i].row = rows[j].row => i = j
         /\ rows[i].row < rows[j].row => i < j
<1>0. DOMAIN rows = 1..Len(rows) /\ Len(rows) \in Nat /\ rows[i] \in IndexRow /\ rows[j] \in IndexRow
  BY SeqElements
<1>1. i \in Nat /\ j \in Nat /\ rows[i].row \in Nat /\ rows[j].row \in Nat
  BY <1>0, PageRowTyped, IndexAssumption
<1>2. (i < j => rows[i].row < rows[j].row) /\ (j < i => rows[j].row < rows[i].row)
  BY DEF Increasing
<1>3. QED
  BY <1>1, <1>2

\* A row with a greater number keeps the order.
LEMMA IncreasingOn ==
  ASSUME NEW rows \in Seq(IndexRow), Increasing(rows), NEW r \in IndexRow,
         \A i \in DOMAIN rows : rows[i].row < r.row
  PROVE  Increasing(Append(rows, r))
<1> DEFINE s == Append(rows, r)
           n == Len(rows)
<1>1. /\ n \in Nat /\ DOMAIN rows = 1..n /\ DOMAIN s = 1..(n + 1)
      /\ s[n + 1] = r /\ \A i \in 1..n : s[i] = rows[i]
  BY SeqElements, SeqAppend
<1> HIDE DEF s, n
<1>2. ASSUME NEW i \in 1..(n + 1), NEW j \in 1..(n + 1), i < j
      PROVE  s[i].row < s[j].row
  <2>1. i \in 1..n
    BY <1>1, <1>2
  <2>2. CASE j = n + 1
    BY <1>1, <2>1, <2>2
  <2>3. CASE j \in 1..n
    BY <1>1, <1>2, <2>1, <2>3 DEF Increasing
  <2>4. QED
    BY <1>1, <2>2, <2>3
<1>3. Increasing(s)
  BY <1>1, <1>2 DEF Increasing
<1>4. QED
  BY <1>3 DEF s

\* HashIndex.insert of a copy of a row that comes after all rows of the index.
LEMMA InsertHolds ==
  ASSUME bucketOf \in [Values -> Buckets], NEW c \in Columns,
         NEW rows \in Seq(IndexRow), NEW ix \in [Buckets -> Seq(IndexRow)],
         BucketsHold(bucketOf, ix, c, rows),
         NEW k \in DOMAIN rows, NEW r \in IndexRow, IsCopy(rows[k], r),
         \A b \in Buckets : \A j \in DOMAIN ix[b] : ix[b][j].row < r.row
  PROVE  /\ IndexInsert(ix, c, r) \in [Buckets -> Seq(IndexRow)]
         /\ BucketsHold(bucketOf, IndexInsert(ix, c, r), c, rows)
         /\ Holds(IndexInsert(ix, c, r), rows[k])
         /\ \A s : Holds(ix, s) => Holds(IndexInsert(ix, c, r), s)
         /\ \A b \in Buckets : \A j \in DOMAIN IndexInsert(ix, c, r)[b] :
              \/ IndexInsert(ix, c, r)[b][j] = r
              \/ j \in DOMAIN ix[b] /\ IndexInsert(ix, c, r)[b][j] = ix[b][j]
<1> DEFINE h == bucketOf[r.value[c]]
           new == IndexInsert(ix, c, r)
           n == Len(ix[h])
<1>1. h \in Buckets
  BY PageRowTyped
<1> HIDE DEF h
<1>2. /\ ix[h] \in Seq(IndexRow) /\ n \in Nat /\ DOMAIN ix[h] = 1..n
      /\ Append(ix[h], r) \in Seq(IndexRow) /\ DOMAIN Append(ix[h], r) = 1..(n + 1)
      /\ Append(ix[h], r)[n + 1] = r /\ \A j \in 1..n : Append(ix[h], r)[j] = ix[h][j]
  BY <1>1, SeqElements, SeqAppend
<1>3. new = [ix EXCEPT ![h] = Append(ix[h], r)]
  BY DEF IndexInsert, h
<1> HIDE DEF new
<1>4. new[h] = Append(ix[h], r) /\ \A b \in Buckets : b # h => new[b] = ix[b]
  BY <1>1, <1>3
<1>5. new \in [Buckets -> Seq(IndexRow)]
  BY <1>1, <1>2, <1>3
<1>6. ASSUME NEW b \in Buckets, NEW j \in DOMAIN new[b]
      PROVE  (new[b][j] = r /\ b = h) \/ (j \in DOMAIN ix[b] /\ new[b][j] = ix[b][j])
  <2>1. CASE b = h
    <3>1. j \in 1..(n + 1)
      BY <1>2, <1>4, <1>6, <2>1
    <3>2. CASE j = n + 1
      BY <1>2, <1>4, <2>1, <3>2
    <3>3. CASE j \in 1..n
      BY <1>2, <1>4, <2>1, <3>3
    <3>4. QED
      BY <1>2, <3>1, <3>2, <3>3
  <2>2. CASE b # h
    BY <1>4, <1>6, <2>2
  <2>3. QED
    BY <2>1, <2>2
<1>7. ASSUME NEW b \in Buckets
      PROVE  /\ Increasing(new[b])
             /\ \A j \in DOMAIN new[b] : /\ bucketOf[new[b][j].value[c]] = b
                                         /\ \E i \in DOMAIN rows : IsCopy(rows[i], new[b][j])
  <2>1. Increasing(new[b])
    <3>1. CASE b = h
      <4>1. Increasing(ix[h]) /\ \A j \in DOMAIN ix[h] : ix[h][j].row < r.row
        BY <1>1 DEF BucketsHold
      <4>2. Increasing(Append(ix[h], r))
        BY <1>2, <4>1, IncreasingOn
      <4>3. QED
        BY <1>4, <3>1, <4>2
    <3>2. CASE b # h
      BY <1>4, <3>2 DEF BucketsHold
    <3>3. QED
      BY <3>1, <3>2
  <2>2. ASSUME NEW j \in DOMAIN new[b]
        PROVE  /\ bucketOf[new[b][j].value[c]] = b
               /\ \E i \in DOMAIN rows : IsCopy(rows[i], new[b][j])
    <3>1. CASE new[b][j] = r /\ b = h
      BY <3>1 DEF h
    <3>2. CASE j \in DOMAIN ix[b] /\ new[b][j] = ix[b][j]
      BY <3>2 DEF BucketsHold
    <3>3. QED
      BY <1>6, <3>1, <3>2
  <2>3. QED
    BY <2>1, <2>2
<1>8. BucketsHold(bucketOf, new, c, rows)
  BY <1>7 DEF BucketsHold
<1>9. Holds(new, rows[k])
  <2>1. n + 1 \in DOMAIN new[h] /\ new[h][n + 1] = r
    BY <1>2, <1>4
  <2>2. QED
    BY <1>1, <2>1 DEF Holds
<1>10. ASSUME NEW s, Holds(ix, s)
       PROVE  Holds(new, s)
  <2>0. PICK b \in Buckets : \E j \in DOMAIN ix[b] : IsCopy(s, ix[b][j])
    BY <1>10 DEF Holds
  <2>1. PICK j \in DOMAIN ix[b] : IsCopy(s, ix[b][j])
    BY <2>0
  <2>2. j \in DOMAIN new[b] /\ new[b][j] = ix[b][j]
    <3>1. CASE b = h
      BY <1>2, <1>4, <3>1
    <3>2. CASE b # h
      BY <1>4, <3>2
    <3>3. QED
      BY <3>1, <3>2
  <2>3. QED
    BY <2>1, <2>2 DEF Holds
<1>11. QED
  BY <1>5, <1>6, <1>8, <1>9, <1>10 DEF new

------------------------------------------------------------------------------
(* build_from_table *)

\* The function of IndexOf.
IsBuilt(rows, c, n, f) == f = [k \in 0..n |-> IF k = 0 THEN EmptyIndex ELSE IndexInsert(f[k - 1], c, rows[k])]

\* IndexOf in these words.
LEMMA IndexOfIsBuilt ==
  ASSUME NEW rows, NEW c
  PROVE  IndexOf(rows, c) = (CHOOSE f : IsBuilt(rows, c, Len(rows), f))[Len(rows)]
BY DEF IndexOf, IsBuilt

\* Its recursion has a solution.
LEMMA BuiltExists ==
  ASSUME NEW rows, NEW c, NEW n \in Nat
  PROVE  \E f : IsBuilt(rows, c, n, f)
<1> DEFINE T == {k \in 0..n : \E f : IsBuilt(rows, c, k, f)}
<1>1. 0 \in T
  <2> DEFINE f == [k \in 0..0 |-> EmptyIndex]
  <2>1. f = [k \in 0..0 |-> IF k = 0 THEN EmptyIndex ELSE IndexInsert(f[k - 1], c, rows[k])]
    OBVIOUS
  <2> HIDE DEF f
  <2>2. IsBuilt(rows, c, 0, f)
    BY <2>1 DEF IsBuilt
  <2>3. QED
    BY <2>2
<1>2. ASSUME NEW k \in 1..n, k - 1 \in T
      PROVE  k \in T
  <2>1. PICK f : IsBuilt(rows, c, k - 1, f)
    BY <1>2
  <2> DEFINE g == [i \in 0..k |-> IF i = k THEN IndexInsert(f[k - 1], c, rows[k]) ELSE f[i]]
  <2>2. \A i \in 0..(k - 1) : f[i] = IF i = 0 THEN EmptyIndex ELSE IndexInsert(f[i - 1], c, rows[i])
    BY <2>1 DEF IsBuilt
  <2>3. ASSUME NEW i \in 0..k
        PROVE  g[i] = IF i = 0 THEN EmptyIndex ELSE IndexInsert(g[i - 1], c, rows[i])
    <3>1. CASE i = k
      <4>1. i # 0 /\ g[i] = IndexInsert(f[k - 1], c, rows[k]) /\ k - 1 \in 0..k /\ k - 1 # k
        BY <3>1
      <4>2. g[i - 1] = f[k - 1]
        BY <3>1, <4>1
      <4> HIDE DEF g
      <4>3. QED
        BY <3>1, <4>1, <4>2
    <3>2. CASE i # k /\ i = 0
      BY <2>2, <3>2
    <3>3. CASE i # k /\ i # 0
      <4>1. i \in 0..(k - 1) /\ i - 1 \in 0..k /\ i - 1 # k
        BY <3>3
      <4>2. g[i] = f[i] /\ g[i - 1] = f[i - 1]
        BY <3>3, <4>1
      <4> HIDE DEF g
      <4>3. QED
        BY <2>2, <3>3, <4>1, <4>2
    <3>4. QED
      BY <3>1, <3>2, <3>3
  <2>4. g = [i \in 0..k |-> g[i]]
    OBVIOUS
  <2> HIDE DEF g
  <2>5. IsBuilt(rows, c, k, g)
    BY <2>3, <2>4 DEF IsBuilt
  <2>6. QED
    BY <2>5
<1> HIDE DEF T
<1>3. n \in T
  BY <1>1, <1>2, UpTo
<1>4. QED
  BY <1>3 DEF T

\* An index built from the first k rows of a table holds those and no others.
LEMMA BuiltHolds ==
  ASSUME bucketOf \in [Values -> Buckets], NEW c \in Columns,
         NEW rows \in Seq(IndexRow), Increasing(rows), NEW n \in 0..Len(rows),
         NEW read, Len(read) = n, \A i \in 1..n : read[i] = PageRow(rows[i])
  PROVE  /\ IndexOf(read, c) \in [Buckets -> Seq(IndexRow)]
         /\ BucketsHold(bucketOf, IndexOf(read, c), c, rows)
         /\ \A i \in 1..n : Holds(IndexOf(read, c), rows[i])
<1> DEFINE f == CHOOSE g : IsBuilt(read, c, n, g)
           P(ix, k) == /\ ix \in [Buckets -> Seq(IndexRow)]
                       /\ BucketsHold(bucketOf, ix, c, rows)
                       /\ \A b \in Buckets : \A j \in DOMAIN ix[b] : \E i \in 1..k : ix[b][j].row = rows[i].row
                       /\ \A i \in 1..k : Holds(ix, rows[i])
           T == {k \in 0..n : P(f[k], k)}
<1>1. DOMAIN rows = 1..Len(rows) /\ Len(rows) \in Nat /\ \A i \in 1..Len(rows) : rows[i] \in IndexRow
  BY SeqElements
<1>2. n \in Nat /\ n <= Len(rows)
  BY <1>1
<1>3. IsBuilt(read, c, n, f)
  BY <1>2, BuiltExists
<1> HIDE DEF f
<1>4. \A k \in 0..n : f[k] = IF k = 0 THEN EmptyIndex ELSE IndexInsert(f[k - 1], c, read[k])
  BY <1>3 DEF IsBuilt
<1>5. 0 \in T
  <2>1. f[0] = EmptyIndex
    BY <1>2, <1>4
  <2>2. EmptyIndex \in [Buckets -> Seq(IndexRow)] /\ \A b \in Buckets : DOMAIN EmptyIndex[b] = {}
    BY NoIndexIs DEF EmptyIndex
  <2>3. BucketsHold(bucketOf, EmptyIndex, c, rows)
    BY <2>2 DEF BucketsHold, Increasing
  <2>4. P(EmptyIndex, 0)
    BY <2>2, <2>3
  <2>5. QED
    BY <1>2, <2>1, <2>4
<1>6. ASSUME NEW k \in 1..n, k - 1 \in T
      PROVE  k \in T
  <2> DEFINE ix == f[k - 1]
  <2>1. P(ix, k - 1)
    BY <1>6
  <2>2. f[k] = IndexInsert(ix, c, read[k])
    BY <1>2, <1>4
  <2> HIDE DEF ix
  <2>3. k \in DOMAIN rows /\ rows[k] \in IndexRow /\ read[k] = PageRow(rows[k])
    BY <1>1, <1>2
  <2>4. read[k] \in IndexRow /\ IsCopy(rows[k], read[k]) /\ read[k].row = rows[k].row
    BY <2>3, PageRowTyped DEF IsCopy
  <2>5. ASSUME NEW b \in Buckets, NEW j \in DOMAIN ix[b]
        PROVE  ix[b][j].row < read[k].row
    <3>1. PICK i \in 1..(k - 1) : ix[b][j].row = rows[i].row
      BY <2>1
    <3>2. i \in DOMAIN rows /\ i < k
      BY <1>1, <1>2
    <3>3. QED
      BY <2>3, <2>4, <3>1, <3>2 DEF Increasing
  <2> DEFINE new == IndexInsert(ix, c, read[k])
             r == read[k]
  <2>6. ix \in [Buckets -> Seq(IndexRow)] /\ BucketsHold(bucketOf, ix, c, rows)
    BY <2>1
  <2>7. /\ new \in [Buckets -> Seq(IndexRow)]
        /\ BucketsHold(bucketOf, new, c, rows)
        /\ Holds(new, rows[k])
        /\ \A s : Holds(ix, s) => Holds(new, s)
        /\ \A b \in Buckets : \A j \in DOMAIN new[b] :
             new[b][j] = r \/ (j \in DOMAIN ix[b] /\ new[b][j] = ix[b][j])
    <3> HIDE DEF r, P, T
    <3>1. r \in IndexRow /\ IsCopy(rows[k], r) /\ \A b \in Buckets : \A j \in DOMAIN ix[b] : ix[b][j].row < r.row
      BY <2>4, <2>5 DEF r
    <3>2. new = IndexInsert(ix, c, r)
      BY DEF r
    <3> HIDE DEF new
    <3>3. QED
      BY <2>3, <2>6, <3>1, <3>2, InsertHolds
  <2> HIDE DEF new
  <2>8. ASSUME NEW b \in Buckets, NEW j \in DOMAIN new[b]
        PROVE  \E i \in 1..k : new[b][j].row = rows[i].row
    <3>1. CASE new[b][j] = r
      BY <2>4, <3>1
    <3>2. CASE j \in DOMAIN ix[b] /\ new[b][j] = ix[b][j]
      <4>1. PICK i \in 1..(k - 1) : ix[b][j].row = rows[i].row
        BY <2>1, <3>2
      <4>2. i \in 1..k
        OBVIOUS
      <4>3. QED
        BY <3>2, <4>1, <4>2
    <3>3. QED
      BY <2>7, <3>1, <3>2
  <2>9. ASSUME NEW i \in 1..k
        PROVE  Holds(new, rows[i])
    <3>1. CASE i = k
      BY <2>7, <3>1
    <3>2. CASE i # k
      <4>1. i \in 1..(k - 1)
        BY <3>2
      <4>2. QED
        BY <2>1, <2>7, <4>1
    <3>3. QED
      BY <3>1, <3>2
  <2>10. P(new, k)
    BY <2>7, <2>8, <2>9
  <2>11. k \in 0..n
    BY <1>2
  <2>12. f[k] = new
    BY <2>2 DEF new
  <2> HIDE DEF P
  <2>13. QED
    BY <2>10, <2>11, <2>12
<1>7. P(f[n], n)
  <2> HIDE DEF P
  <2>1. \A k \in 1..n : k - 1 \in T => k \in T
    BY <1>6
  <2> HIDE DEF T
  <2>2. 0..n \subseteq T
    BY <1>2, <1>5, <2>1, UpTo
  <2>3. n \in 0..n
    BY <1>2
  <2>4. QED
    BY <2>2, <2>3 DEF T
<1>8. IndexOf(read, c) = f[n]
  BY IndexOfIsBuilt DEF f
<1>9. QED
  BY <1>7, <1>8

------------------------------------------------------------------------------
(* What the calls do to one index *)

\* insert of the heap file: the index lacks the new row.
LEMMA NewRowFits ==
  ASSUME NEW hash, NEW ix, NEW c, NEW out, NEW rows \in Seq(IndexRow), NEW r \in IndexRow,
         \A i \in DOMAIN rows : rows[i].row < r.row,
         IndexFits(hash, ix, c, rows, out, {})
  PROVE  IndexFits(hash, ix, c, Append(rows, r), out, {r.row})
<1> DEFINE s == Append(rows, r)
           n == Len(rows)
<1>1. /\ n \in Nat /\ DOMAIN rows = 1..n /\ DOMAIN s = 1..(n + 1)
      /\ s[n + 1] = r /\ \A i \in 1..n : s[i] = rows[i] /\ rows[i] \in IndexRow
  BY SeqElements, SeqAppend
<1> HIDE DEF s, n
<1>2. ASSUME NEW b \in Buckets, NEW j \in DOMAIN ix[b]
      PROVE  /\ \E i \in DOMAIN s : IsCopy(s[i], ix[b][j])
             /\ ix[b][j].row # r.row
  <2>1. PICK i \in DOMAIN rows : IsCopy(rows[i], ix[b][j])
    BY DEF IndexFits, BucketsHold
  <2>2. i \in DOMAIN s /\ s[i] = rows[i] /\ rows[i] \in IndexRow
    BY <1>1
  <2>3. ix[b][j].row = rows[i].row /\ rows[i].row < r.row
    BY <2>1, <2>2, CopyIs
  <2>4. rows[i].row \in Nat /\ r.row \in Nat
    BY <2>2, PageRowTyped, IndexAssumption
  <2>5. QED
    BY <2>1, <2>2, <2>3, <2>4
<1>3. BucketsHold(hash, ix, c, s)
  BY <1>2 DEF IndexFits, BucketsHold
<1>4. ASSUME NEW i \in DOMAIN s
      PROVE  s[i].row \in out \/ s[i].row \in {r.row} \/ Holds(ix, s[i])
  <2>1. CASE i = n + 1
    BY <1>1, <2>1
  <2>2. CASE i \in 1..n
    <3>1. i \in DOMAIN rows /\ s[i] = rows[i]
      BY <1>1, <2>2
    <3>2. rows[i].row \in out \/ Holds(ix, rows[i])
      BY <3>1 DEF IndexFits
    <3>3. QED
      BY <3>1, <3>2
  <2>3. QED
    BY <1>1, <2>1, <2>2
<1>5. IndexFits(hash, ix, c, s, out, {r.row})
  BY <1>2, <1>3, <1>4 DEF IndexFits
<1>6. QED
  BY <1>5 DEF s

\* The callback: the index lacks it no longer.
LEMMA InsertFits ==
  ASSUME bucketOf \in [Values -> Buckets], NEW c \in Columns, NEW out,
         NEW rows \in Seq(IndexRow), Increasing(rows), Len(rows) # 0,
         NEW r, r = rows[Len(rows)],
         NEW ix \in [Buckets -> Seq(IndexRow)],
         IndexFits(bucketOf, ix, c, rows, out, {r.row})
  PROVE  /\ IndexInsert(ix, c, r) \in [Buckets -> Seq(IndexRow)]
         /\ IndexFits(bucketOf, IndexInsert(ix, c, r), c, rows, out, {})
<1> DEFINE k == Len(rows)
           new == IndexInsert(ix, c, r)
<1>1. k \in DOMAIN rows /\ k \in Nat /\ DOMAIN rows = 1..k /\ \A i \in 1..k : rows[i] \in IndexRow
  BY SeqElements
<1> HIDE DEF k
<1>2. r \in IndexRow /\ r = rows[k] /\ IsCopy(rows[k], r)
  BY <1>1 DEF IsCopy, k
<1>3. ASSUME NEW b \in Buckets, NEW j \in DOMAIN ix[b]
      PROVE  ix[b][j].row < r.row
  <2>1. PICK i \in DOMAIN rows : IsCopy(rows[i], ix[b][j])
    BY DEF IndexFits, BucketsHold
  <2>2. ix[b][j].row = rows[i].row
    BY <1>1, <2>1, CopyIs
  <2>3. ix[b][j].row # r.row
    BY DEF IndexFits
  <2>4. i # k
    BY <1>2, <2>2, <2>3
  <2>5. i < k
    BY <1>1, <2>4
  <2>6. QED
    BY <1>1, <1>2, <2>2, <2>5 DEF Increasing
<1>4. BucketsHold(bucketOf, ix, c, rows)
  BY DEF IndexFits
<1>5. /\ new \in [Buckets -> Seq(IndexRow)]
      /\ BucketsHold(bucketOf, new, c, rows)
      /\ Holds(new, rows[k])
      /\ \A s : Holds(ix, s) => Holds(new, s)
  BY <1>1, <1>2, <1>3, <1>4, InsertHolds
<1> HIDE DEF new
<1>6. ASSUME NEW i \in DOMAIN rows
      PROVE  rows[i].row \in out \/ Holds(new, rows[i])
  <2>1. CASE rows[i].row = r.row
    <3>1. i = k
      BY <1>1, <1>2, <2>1, RowsApart
    <3>2. QED
      BY <1>5, <3>1
  <2>2. CASE rows[i].row # r.row
    <3>1. rows[i].row \in out \/ Holds(ix, rows[i])
      BY <2>2 DEF IndexFits
    <3>2. QED
      BY <1>5, <3>1
  <2>3. QED
    BY <2>1, <2>2
<1>7. IndexFits(bucketOf, new, c, rows, out, {})
  BY <1>5, <1>6 DEF IndexFits
<1>8. QED
  BY <1>5, <1>7 DEF new

\* An index built by a scan of the first k rows lacks the others.
LEMMA IndexOfFits ==
  ASSUME bucketOf \in [Values -> Buckets], NEW c \in Columns,
         NEW rows \in Seq(IndexRow), Increasing(rows), NEW k \in 0..Len(rows),
         NEW read, Len(read) = k, \A i \in 1..k : read[i] = PageRow(rows[i])
  PROVE  /\ IndexOf(read, c) \in [Buckets -> Seq(IndexRow)]
         /\ IndexFits(bucketOf, IndexOf(read, c), c, rows, {rows[i].row : i \in (k + 1)..Len(rows)}, {})
<1> DEFINE new == IndexOf(read, c)
<1>1. /\ new \in [Buckets -> Seq(IndexRow)]
      /\ BucketsHold(bucketOf, new, c, rows)
      /\ \A i \in 1..k : Holds(new, rows[i])
  BY BuiltHolds
<1> HIDE DEF new
<1>2. DOMAIN rows = 1..Len(rows) /\ Len(rows) \in Nat /\ k \in Nat /\ k <= Len(rows)
  BY SeqElements
<1>3. ASSUME NEW i \in DOMAIN rows
      PROVE  rows[i].row \in {rows[j].row : j \in (k + 1)..Len(rows)} \/ Holds(new, rows[i])
  <2>1. CASE i <= k
    BY <1>1, <1>2, <2>1
  <2>2. CASE i > k
    <3>1. i \in (k + 1)..Len(rows)
      BY <1>2, <2>2
    <3>2. QED
      BY <3>1
  <2>3. QED
    BY <1>2, <2>1, <2>2
<1>4. IndexFits(bucketOf, new, c, rows, {rows[j].row : j \in (k + 1)..Len(rows)}, {})
  BY <1>1, <1>3 DEF IndexFits
<1>5. QED
  BY <1>1, <1>4 DEF new

------------------------------------------------------------------------------
(* The invariant is inductive *)

\* A registered name is the name of its schema.
LEMMA NameOfSchemaIs ==
  ASSUME IsInjective(SchemaOf), TypeOK, NEW n \in Names, Registered(n)
  PROVE  NameOfSchema(n) = n
<1> DEFINE I == {i \in DOMAIN catalog : SchemaOf[catalog[i]] = SchemaOf[n]}
<1>1. DOMAIN catalog = 1..Len(catalog) /\ Len(catalog) \in Nat /\ \A i \in DOMAIN catalog : catalog[i] \in Names
  BY SeqElements DEF TypeOK
<1>2. I \subseteq Nat /\ I # {}
  BY <1>1 DEF Registered
<1>3. \A i \in I : catalog[i] = n
  BY <1>1, IndexAssumption DEF IsInjective
<1> HIDE DEF I
<1>4. \E m \in I : \A i \in I : m <= i
  BY <1>2, LeastIn
<1>5. Min(I) \in I
  BY <1>4 DEF Min
<1>6. NameOfSchema(n) = catalog[Min(I)]
  BY DEF NameOfSchema, I
<1>7. QED
  BY <1>3, <1>5, <1>6

\* Empty tables and no index.
LEMMA InitIsInv == Init => IndexInv
<1> SUFFICES ASSUME Init PROVE IndexInv
  OBVIOUS
<1>1. << >> \in Seq(Names) /\ << >> \in Seq(IndexRow) /\ DOMAIN << >> = {} /\ MaxRows \in Nat
  BY IndexAssumption
<1>2. TypeOK
  <2>1. catalog \in Seq(Names) /\ IsInjective(catalog)
    BY <1>1 DEF Init, IsInjective
  <2>2. heap \in [Names -> Seq(IndexRow)]
    BY <1>1 DEF Init
  <2>3. index \in [Names -> [Columns -> {NoIndex} \cup [Buckets -> Seq(IndexRow)]]]
    BY DEF Init, NoIndexes
  <2>4. missed \in [Names -> [Columns -> SUBSET (1..MaxRows)]]
    BY DEF Init, NoneMissed
  <2>5. lastRow \in 0..MaxRows /\ bucketOf \in [Values -> Buckets] /\ thread \in {Idle}
    BY <1>1 DEF Init
  <2>6. QED
    BY <2>1, <2>2, <2>3, <2>4, <2>5 DEF TypeOK
<1>3. HeapOK
  BY <1>1 DEF Init, HeapOK, Increasing
<1>4. ThreadOK
  BY DEF Init, ThreadOK
<1>5. IndexOK
  BY DEF Init, NoIndexes, IndexOK
<1>6. QED
  BY <1>2, <1>3, <1>4, <1>5 DEF IndexInv

\* add_schema.
LEMMA AddSchemaKeeps ==
  ASSUME IndexInv, NEW n \in Names, AddSchema(n)
  PROVE  IndexInv'
<1>1. TypeOK /\ HeapOK /\ ThreadOK /\ IndexOK /\ thread = Idle
  BY DEF IndexInv, AddSchema
<1>2. UNCHANGED <<heap, index, missed, thread, bucketOf, lastRow>> /\ catalog' = Append(catalog, n)
  BY DEF AddSchema
<1> DEFINE k == Len(catalog)
<1>3. /\ k \in Nat /\ DOMAIN catalog = 1..k /\ DOMAIN catalog' = 1..(k + 1)
      /\ catalog'[k + 1] = n /\ \A i \in 1..k : catalog'[i] = catalog[i]
      /\ catalog' \in Seq(Names)
  BY <1>1, <1>2, SeqElements, SeqAppend DEF TypeOK
<1> HIDE DEF k
<1>4. \A i \in 1..k : catalog[i] # n
  BY <1>3 DEF AddSchema
<1>5. IsInjective(catalog')
  <2>1. \A i, j \in 1..k : catalog[i] = catalog[j] => i = j
    BY <1>1, <1>3 DEF TypeOK, IsInjective
  <2>2. ASSUME NEW i \in 1..(k + 1), NEW j \in 1..(k + 1), catalog'[i] = catalog'[j]
        PROVE  i = j
    <3>1. (i \in 1..k \/ i = k + 1) /\ (j \in 1..k \/ j = k + 1)
      BY <1>3
    <3>2. QED
      BY <1>3, <1>4, <2>1, <2>2, <3>1
  <2>3. QED
    BY <1>3, <2>2 DEF IsInjective
<1>6. TypeOK'
  BY <1>1, <1>2, <1>3, <1>5 DEF TypeOK
<1>7. HeapOK' /\ ThreadOK'
  BY <1>1, <1>2 DEF HeapOK, ThreadOK
<1>8. ASSUME NEW m \in Names, Registered(m) PROVE Registered(m)'
  BY <1>3, <1>8 DEF Registered
<1>9. ASSUME NEW m \in Names, NEW c \in Columns, index'[m][c] # NoIndex
      PROVE  /\ Registered(m)'
             /\ IndexFits(bucketOf', index'[m][c], c, heap'[m], missed'[m][c], OpenRows(m)')
  <2>1. Registered(m) /\ IndexFits(bucketOf, index[m][c], c, heap[m], missed[m][c], OpenRows(m))
    BY <1>1, <1>2, <1>9 DEF IndexOK
  <2>2. OpenRows(m)' = OpenRows(m)
    BY <1>2 DEF OpenRows
  <2>3. QED
    BY <1>2, <1>8, <2>1, <2>2
<1>10. IndexOK'
  BY <1>9 DEF IndexOK
<1>11. QED
  BY <1>6, <1>7, <1>10 DEF IndexInv

\* create_hash_index.
LEMMA CreateHashIndexKeeps ==
  ASSUME IsInjective(SchemaOf), IndexInv, NEW n \in Names, NEW c \in Columns, CreateHashIndex(n, c)
  PROVE  IndexInv'
<1>1. TypeOK /\ HeapOK /\ ThreadOK /\ IndexOK
  BY DEF IndexInv
<1>2. thread = Idle /\ Registered(n) /\ UNCHANGED <<catalog, heap, thread, bucketOf, lastRow>>
  BY DEF CreateHashIndex
<1>3. NameOfSchema(n) = n
  BY <1>1, <1>2, NameOfSchemaIs
<1> DEFINE rows == heap[n]
           scan == ScanRows(n)
<1> HIDE DEF rows
<1>4. PICK k \in 0..Len(scan) :
        /\ index' = [index EXCEPT ![n][c] = IndexOf(SubSeq(scan, 1, k), c)]
        /\ missed' = [missed EXCEPT ![n][c] = {scan[i].row : i \in (k + 1)..Len(scan)}]
  <2> DEFINE Built(m) ==
        \E k \in 0..Len(ScanRows(m)) :
          /\ index' = [index EXCEPT ![n][c] = IndexOf(SubSeq(ScanRows(m), 1, k), c)]
          /\ missed' = [missed EXCEPT ![n][c] = {ScanRows(m)[i].row : i \in (k + 1)..Len(ScanRows(m))}]
  <2>1. Built(NameOfSchema(n))
    BY DEF CreateHashIndex
  <2> HIDE DEF Built
  <2>2. Built(n)
    BY <1>3, <2>1
  <2>3. QED
    BY <2>2 DEF Built
<1>5. /\ rows \in Seq(IndexRow) /\ Len(rows) \in Nat /\ DOMAIN rows = 1..Len(rows)
      /\ \A i \in 1..Len(rows) : rows[i] \in IndexRow
  BY <1>1, SeqElements DEF TypeOK, rows
<1>6. scan \in Seq(IndexRow) /\ Len(scan) = Len(rows) /\ \A i \in 1..Len(rows) : scan[i] = PageRow(rows[i])
  <2>1. scan = [i \in 1..Len(rows) |-> PageRow(rows[i])]
    BY <1>5 DEF ScanRows, rows
  <2>2. scan \in [1..Len(rows) -> IndexRow]
    BY <1>5, <2>1, PageRowTyped
  <2>3. QED
    BY <1>5, <2>1, <2>2, FunctionIsSeq
<1> HIDE DEF scan
<1> DEFINE read == SubSeq(scan, 1, k)
           new == IndexOf(read, c)
           out == {rows[i].row : i \in (k + 1)..Len(rows)}
<1>7. k \in 0..Len(rows) /\ k \in Nat
  BY <1>5, <1>6
<1>8. Len(read) = k /\ \A i \in 1..k : read[i] = PageRow(rows[i])
  <2>1. \A i \in 1..k : i \in 1..Len(rows)
    BY <1>5, <1>7
  <2>2. \A i \in 1..k : read[i] = scan[i]
    BY <1>6, <1>7, SeqPrefix
  <2>3. Len(read) = k
    BY <1>5, <1>6, <1>7
  <2>4. QED
    BY <1>6, <2>1, <2>2, <2>3
<1> HIDE DEF read
<1>9. new \in [Buckets -> Seq(IndexRow)] /\ IndexFits(bucketOf, new, c, rows, out, {})
  <2>1. Increasing(rows) /\ bucketOf \in [Values -> Buckets]
    BY <1>1 DEF HeapOK, TypeOK, rows
  <2>2. QED
    BY <1>5, <1>7, <1>8, <2>1, IndexOfFits
<1>10. out \in SUBSET (1..MaxRows) /\ {scan[i].row : i \in (k + 1)..Len(scan)} = out
  <2>1. \A i \in (k + 1)..Len(rows) : i \in 1..Len(rows)
    BY <1>5, <1>7
  <2>2. \A i \in (k + 1)..Len(rows) : scan[i].row = rows[i].row /\ rows[i].row \in 1..MaxRows
    BY <1>5, <1>6, <2>1, PageRowTyped
  <2>3. QED
    BY <1>6, <2>2
<1>11. /\ index' = [index EXCEPT ![n][c] = new]
       /\ missed' = [missed EXCEPT ![n][c] = out]
  BY <1>4, <1>10 DEF read
<1> HIDE DEF new, out
<1>12. /\ index'[n][c] = new /\ missed'[n][c] = out
       /\ \A m \in Names, d \in Columns : m # n \/ d # c => index'[m][d] = index[m][d] /\ missed'[m][d] = missed[m][d]
       /\ index' \in [Names -> [Columns -> {NoIndex} \cup [Buckets -> Seq(IndexRow)]]]
       /\ missed' \in [Names -> [Columns -> SUBSET (1..MaxRows)]]
  <2>1. /\ index \in [Names -> [Columns -> {NoIndex} \cup [Buckets -> Seq(IndexRow)]]]
        /\ missed \in [Names -> [Columns -> SUBSET (1..MaxRows)]]
    BY <1>1 DEF TypeOK
  <2>2. /\ index'[n][c] = new /\ \A m \in Names, d \in Columns : m # n \/ d # c => index'[m][d] = index[m][d]
        /\ index' \in [Names -> [Columns -> {NoIndex} \cup [Buckets -> Seq(IndexRow)]]]
    BY <1>9, <1>11, <2>1
  <2>3. /\ missed'[n][c] = out /\ \A m \in Names, d \in Columns : m # n \/ d # c => missed'[m][d] = missed[m][d]
        /\ missed' \in [Names -> [Columns -> SUBSET (1..MaxRows)]]
    BY <1>10, <1>11, <2>1
  <2>4. QED
    BY <2>2, <2>3
<1>13. TypeOK' /\ HeapOK' /\ ThreadOK'
  BY <1>1, <1>2, <1>12 DEF TypeOK, HeapOK, ThreadOK
<1>14. \A m \in Names : OpenRows(m)' = {} /\ OpenRows(m) = {} /\ Registered(m)' = Registered(m)
  BY <1>2 DEF OpenRows, Registered
<1>15. ASSUME NEW m \in Names, NEW d \in Columns, index'[m][d] # NoIndex
       PROVE  Registered(m)' /\ IndexFits(bucketOf', index'[m][d], d, heap'[m], missed'[m][d], OpenRows(m)')
  <2>1. CASE m = n /\ d = c
    BY <1>2, <1>9, <1>12, <1>14, <2>1 DEF rows
  <2>2. CASE m # n \/ d # c
    <3>1. index'[m][d] = index[m][d] /\ missed'[m][d] = missed[m][d]
      BY <1>12, <2>2
    <3>2. Registered(m) /\ IndexFits(bucketOf, index[m][d], d, heap[m], missed[m][d], OpenRows(m))
      BY <1>1, <1>15, <3>1 DEF IndexOK
    <3>3. QED
      BY <1>2, <1>14, <3>1, <3>2
  <2>3. QED
    BY <2>1, <2>2
<1>16. IndexOK'
  BY <1>15 DEF IndexOK
<1>17. QED
  BY <1>13, <1>16 DEF IndexInv

\* insert: the row is in the heap file.
LEMMA InsertStoresKeeps ==
  ASSUME IsInjective(SchemaOf), IndexInv, NEW n \in Names,
         NEW v \in [Columns -> Values], InsertStores(n, v)
  PROVE  IndexInv'
<1>1. TypeOK /\ HeapOK /\ ThreadOK /\ IndexOK
  BY DEF IndexInv
<1>2. thread = Idle /\ Registered(n) /\ lastRow < MaxRows /\ UNCHANGED <<catalog, index, missed, bucketOf>>
  BY DEF InsertStores
<1>3. NameOfSchema(n) = n
  BY <1>1, <1>2, NameOfSchemaIs
<1> DEFINE r == [row |-> lastRow + 1, value |-> v]
           rows == heap[n]
<1>4. /\ heap' = [heap EXCEPT ![n] = Append(rows, r)]
      /\ thread' = [step |-> "callback", name |-> n, record |-> r]
      /\ lastRow' = lastRow + 1
  BY <1>3 DEF InsertStores
<1>5. r \in IndexRow /\ r.row = lastRow + 1 /\ lastRow \in Nat /\ lastRow' \in 0..MaxRows
  BY <1>1, <1>2, <1>4, IndexAssumption DEF TypeOK, IndexRow
<1>6. rows \in Seq(IndexRow) /\ Increasing(rows) /\ \A i \in DOMAIN rows : rows[i].row <= lastRow /\ rows[i].row \in Nat
  <2>1. rows \in Seq(IndexRow) /\ Increasing(rows) /\ \A i \in DOMAIN rows : rows[i].row <= lastRow
    BY <1>1 DEF TypeOK, HeapOK
  <2>2. \A i \in DOMAIN rows : rows[i] \in IndexRow
    BY <2>1, SeqElements
  <2>3. \A i \in DOMAIN rows : rows[i].row \in Nat
    BY <2>2, PageRowTyped, IndexAssumption
  <2>4. QED
    BY <2>1, <2>3
<1> HIDE DEF r
<1>7. \A i \in DOMAIN rows : rows[i].row < r.row
  BY <1>5, <1>6
<1>8. /\ Append(rows, r) \in Seq(IndexRow) /\ Len(rows) \in Nat
      /\ DOMAIN Append(rows, r) = 1..(Len(rows) + 1) /\ DOMAIN rows = 1..Len(rows)
      /\ Len(Append(rows, r)) = Len(rows) + 1 /\ Append(rows, r)[Len(rows) + 1] = r
      /\ \A i \in 1..Len(rows) : Append(rows, r)[i] = rows[i]
  BY <1>5, <1>6, SeqAppend, SeqElements
<1>9. Increasing(Append(rows, r))
  BY <1>5, <1>6, <1>7, IncreasingOn
<1>10. /\ heap'[n] = Append(rows, r) /\ heap' \in [Names -> Seq(IndexRow)]
       /\ \A m \in Names : m # n => heap'[m] = heap[m]
  BY <1>1, <1>4, <1>8 DEF TypeOK
<1> HIDE DEF rows
<1>11. TypeOK'
  BY <1>1, <1>2, <1>4, <1>5, <1>10 DEF TypeOK
<1>12. HeapOK'
  <2>1. ASSUME NEW m \in Names, NEW i \in DOMAIN heap'[m]
        PROVE  heap'[m][i].row <= lastRow'
    <3>1. CASE m = n /\ i = Len(rows) + 1
      BY <1>4, <1>5, <1>8, <1>10, <3>1
    <3>2. CASE m = n /\ i # Len(rows) + 1
      <4>1. i \in DOMAIN rows /\ heap'[m][i] = rows[i]
        BY <1>8, <1>10, <2>1, <3>2
      <4>2. QED
        BY <1>4, <1>5, <1>6, <4>1
    <3>3. CASE m # n
      <4>1. heap[m] \in Seq(IndexRow) /\ i \in DOMAIN heap[m] /\ heap'[m][i] = heap[m][i]
        BY <1>1, <1>10, <2>1, <3>3 DEF TypeOK
      <4>2. heap[m][i].row <= lastRow /\ heap[m][i] \in IndexRow
        BY <1>1, <4>1, SeqElements DEF HeapOK
      <4>3. heap[m][i].row \in Nat
        BY <4>2, PageRowTyped, IndexAssumption
      <4>4. QED
        BY <1>4, <1>5, <4>1, <4>2, <4>3
    <3>4. QED
      BY <3>1, <3>2, <3>3
  <2>2. ASSUME NEW m \in Names PROVE Increasing(heap'[m])
    <3>1. CASE m = n
      BY <1>9, <1>10, <3>1
    <3>2. CASE m # n
      BY <1>1, <1>10, <3>2 DEF HeapOK
    <3>3. QED
      BY <3>1, <3>2
  <2>3. QED
    BY <2>1, <2>2 DEF HeapOK
<1>13. ThreadOK'
  <2>1. thread'.name = n /\ thread'.record = r /\ Registered(n)'
    BY <1>2, <1>4 DEF Registered
  <2>2. Len(heap'[n]) # 0 /\ heap'[n][Len(heap'[n])] = r
    BY <1>8, <1>10
  <2>3. \E i \in DOMAIN catalog' : catalog'[i] = thread'.name
    BY <1>2, <2>1 DEF Registered
  <2>4. QED
    BY <1>4, <1>5, <2>1, <2>2, <2>3 DEF ThreadOK, Registered
<1>14. \A m \in Names : /\ OpenRows(m) = {} /\ OpenRows(m)' = IF m = n THEN {r.row} ELSE {}
                        /\ Registered(m)' = Registered(m)
  <2>1. thread' # Idle /\ thread'.name = n /\ thread'.record = r
    <3>1. DOMAIN thread' # DOMAIN Idle
      BY <1>4 DEF Idle
    <3>2. QED
      BY <1>4, <3>1
  <2>2. QED
    BY <1>2, <2>1 DEF OpenRows, Registered
<1>15. ASSUME NEW m \in Names, NEW d \in Columns, index'[m][d] # NoIndex
       PROVE  Registered(m)' /\ IndexFits(bucketOf', index'[m][d], d, heap'[m], missed'[m][d], OpenRows(m)')
  <2>1. Registered(m) /\ IndexFits(bucketOf, index[m][d], d, heap[m], missed[m][d], {})
    BY <1>1, <1>2, <1>14, <1>15 DEF IndexOK
  <2>2. CASE m = n
    <3>1. IndexFits(bucketOf, index[m][d], d, rows, missed[m][d], {})
      BY <2>1, <2>2 DEF rows
    <3>2. IndexFits(bucketOf, index[m][d], d, Append(rows, r), missed[m][d], {r.row})
      BY <1>5, <1>6, <1>7, <3>1, NewRowFits
    <3>3. QED
      BY <1>2, <1>10, <1>14, <2>1, <2>2, <3>2
  <2>3. CASE m # n
    BY <1>2, <1>10, <1>14, <2>1, <2>3
  <2>4. QED
    BY <2>2, <2>3
<1>16. IndexOK'
  BY <1>15 DEF IndexOK
<1>17. QED
  BY <1>11, <1>12, <1>13, <1>16 DEF IndexInv

\* _update_indexes_for_insert.
LEMMA InsertCallbackKeeps ==
  ASSUME IndexInv, InsertCallback
  PROVE  IndexInv'
<1>1. TypeOK /\ HeapOK /\ ThreadOK /\ IndexOK
  BY DEF IndexInv
<1>2. thread' = Idle /\ UNCHANGED <<catalog, heap, missed, bucketOf, lastRow>> /\ thread # Idle
  BY DEF InsertCallback, Idle
<1> DEFINE n == thread.name
           r == thread.record
           new == [c \in Columns |-> IF index[n][c] = NoIndex THEN NoIndex ELSE IndexInsert(index[n][c], c, r)]
<1>3. n \in Names /\ r \in IndexRow
  BY <1>1, <1>2 DEF TypeOK
<1>4. index' = [index EXCEPT ![n] = new]
  BY DEF InsertCallback
<1>5. /\ heap[n] \in Seq(IndexRow) /\ Increasing(heap[n]) /\ Len(heap[n]) # 0
      /\ r = heap[n][Len(heap[n])] /\ bucketOf \in [Values -> Buckets]
  BY <1>1, <1>2, <1>3 DEF TypeOK, HeapOK, ThreadOK
<1>6. \A m \in Names : /\ OpenRows(m)' = {} /\ Registered(m)' = Registered(m)
                       /\ OpenRows(m) = IF m = n THEN {r.row} ELSE {}
  BY <1>2 DEF OpenRows, Registered
<1> HIDE DEF n, r
<1>7. ASSUME NEW c \in Columns, index[n][c] # NoIndex
      PROVE  /\ IndexInsert(index[n][c], c, r) \in [Buckets -> Seq(IndexRow)]
             /\ IndexFits(bucketOf, IndexInsert(index[n][c], c, r), c, heap[n], missed[n][c], {})
  <2> DEFINE ix == index[n][c]
  <2>1. ix \in [Buckets -> Seq(IndexRow)]
    BY <1>1, <1>3, <1>7 DEF TypeOK
  <2>2. IndexFits(bucketOf, ix, c, heap[n], missed[n][c], {r.row})
    BY <1>1, <1>3, <1>6, <1>7 DEF IndexOK
  <2> HIDE DEF ix
  <2>3. /\ IndexInsert(ix, c, r) \in [Buckets -> Seq(IndexRow)]
        /\ IndexFits(bucketOf, IndexInsert(ix, c, r), c, heap[n], missed[n][c], {})
    BY <1>5, <2>1, <2>2, InsertFits
  <2>4. QED
    BY <2>3 DEF ix
<1>8. \A c \in Columns : new[c] = IF index[n][c] = NoIndex THEN NoIndex ELSE IndexInsert(index[n][c], c, r)
  OBVIOUS
<1>9. new \in [Columns -> {NoIndex} \cup [Buckets -> Seq(IndexRow)]]
  BY <1>7
<1> HIDE DEF new
<1>10. /\ index'[n] = new /\ \A m \in Names : m # n => index'[m] = index[m]
       /\ index' \in [Names -> [Columns -> {NoIndex} \cup [Buckets -> Seq(IndexRow)]]]
  BY <1>1, <1>3, <1>4, <1>9 DEF TypeOK
<1>11. TypeOK' /\ HeapOK' /\ ThreadOK'
  BY <1>1, <1>2, <1>10 DEF TypeOK, HeapOK, ThreadOK
<1>12. ASSUME NEW m \in Names, NEW c \in Columns, index'[m][c] # NoIndex
       PROVE  Registered(m)' /\ IndexFits(bucketOf', index'[m][c], c, heap'[m], missed'[m][c], OpenRows(m)')
  <2>1. CASE m = n
    <3>1. index[n][c] # NoIndex /\ index'[m][c] = IndexInsert(index[n][c], c, r)
      BY <1>8, <1>10, <1>12, <2>1
    <3>2. Registered(m)
      BY <1>1, <1>3, <2>1, <3>1 DEF IndexOK
    <3>3. QED
      BY <1>2, <1>6, <1>7, <2>1, <3>1, <3>2
  <2>2. CASE m # n
    <3>1. Registered(m) /\ IndexFits(bucketOf, index[m][c], c, heap[m], missed[m][c], OpenRows(m))
      BY <1>1, <1>10, <1>12, <2>2 DEF IndexOK
    <3>2. QED
      BY <1>2, <1>6, <1>10, <2>2, <3>1
  <2>3. QED
    BY <2>1, <2>2
<1>13. IndexOK'
  BY <1>12 DEF IndexOK
<1>14. QED
  BY <1>11, <1>13 DEF IndexInv

\* A restart forgets schemas and indexes.
LEMMA RestartKeeps ==
  ASSUME IndexInv, Restart
  PROVE  IndexInv'
<1>1. TypeOK /\ HeapOK /\ thread = Idle
  BY DEF IndexInv, Restart
<1>2. catalog' = <<>> /\ index' = NoIndexes /\ missed' = NoneMissed /\ UNCHANGED <<heap, thread, bucketOf, lastRow>>
  BY DEF Restart
<1>3. catalog' \in Seq(Names) /\ IsInjective(catalog')
  <2>1. << >> \in Seq(Names) /\ DOMAIN << >> = {}
    OBVIOUS
  <2>2. QED
    BY <1>2, <2>1 DEF IsInjective
<1>4. /\ index' \in [Names -> [Columns -> {NoIndex} \cup [Buckets -> Seq(IndexRow)]]]
      /\ missed' \in [Names -> [Columns -> SUBSET (1..MaxRows)]]
  BY <1>2 DEF NoIndexes, NoneMissed
<1>5. TypeOK' /\ HeapOK' /\ ThreadOK'
  BY <1>1, <1>2, <1>3, <1>4 DEF TypeOK, HeapOK, ThreadOK
<1>6. IndexOK'
  BY <1>2 DEF IndexOK, NoIndexes
<1>7. QED
  BY <1>5, <1>6 DEF IndexInv

\* A step that changes nothing.
LEMMA StutterKeeps ==
  ASSUME IndexInv, UNCHANGED vars
  PROVE  IndexInv'
<1>1. UNCHANGED <<catalog, heap, index, missed, thread, bucketOf, lastRow>>
  BY DEF vars
<1>2. TypeOK' /\ HeapOK'
  BY <1>1 DEF IndexInv, TypeOK, HeapOK
<1>3. \A m : Registered(m)' = Registered(m) /\ OpenRows(m)' = OpenRows(m)
  BY <1>1 DEF Registered, OpenRows
<1>4. ThreadOK'
  <2>1. ThreadOK
    BY DEF IndexInv
  <2>2. QED
    BY <1>1, <2>1 DEF ThreadOK, Registered
<1>5. ASSUME NEW m \in Names, NEW c \in Columns, index'[m][c] # NoIndex
      PROVE  Registered(m)' /\ IndexFits(bucketOf', index'[m][c], c, heap'[m], missed'[m][c], OpenRows(m)')
  <2>1. Registered(m) /\ IndexFits(bucketOf, index[m][c], c, heap[m], missed[m][c], OpenRows(m))
    BY <1>1, <1>5 DEF IndexInv, IndexOK
  <2>2. QED
    BY <1>1, <1>3, <2>1
<1>6. IndexOK'
  BY <1>5 DEF IndexOK
<1>7. QED
  BY <1>2, <1>4, <1>6 DEF IndexInv

\* While no two tables have equal schemas, indexes and heap files are always as
\* IndexInv says: Catalog, HashIndex, create_hash_index and the insert callback.
THEOREM IndexInvariance ==
  ASSUME IsInjective(SchemaOf)
  PROVE  Spec => []IndexInv
<1>1. ASSUME IndexInv, [Next]_vars PROVE IndexInv'
  <2>1. CASE \E n \in Names : AddSchema(n)
    BY <1>1, <2>1, AddSchemaKeeps
  <2>2. CASE \E n \in Names, c \in Columns : CreateHashIndex(n, c)
    BY <1>1, <2>2, CreateHashIndexKeeps
  <2>3. CASE \E n \in Names, v \in [Columns -> Values] : InsertStores(n, v)
    BY <1>1, <2>3, InsertStoresKeeps
  <2>4. CASE InsertCallback
    BY <1>1, <2>4, InsertCallbackKeeps
  <2>5. CASE Restart
    BY <1>1, <2>5, RestartKeeps
  <2>6. CASE UNCHANGED vars
    BY <1>1, <2>6, StutterKeeps
  <2>7. QED
    BY <1>1, <2>1, <2>2, <2>3, <2>4, <2>5, <2>6 DEF Next
<1>2. QED
  BY <1>1, InitIsInv, PTL DEF Spec

\* Tables, indexes and callbacks are always what TypeOK says: no name is twice
\* in the catalog, and an index is complete or not there.
THEOREM IndexesTyped ==
  ASSUME IsInjective(SchemaOf)
  PROVE  Spec => []TypeOK
<1>1. IndexInv => TypeOK
  BY DEF IndexInv
<1>2. QED
  BY <1>1, IndexInvariance, PTL

\* What HashIndex.lookup returns for a key between two inserts is what a filter
\* over the heap file returns, in its order, each row once, but for the rows that
\* the scan which built the index did not come to, and rows written in another way.
THEOREM LookupsAgree ==
  ASSUME IsInjective(SchemaOf)
  PROVE  Spec => []IndexAgreesWithScan
<1>1. ASSUME IndexInv, thread = Idle, NEW n \in Names, NEW c \in Columns, index[n][c] # NoIndex,
             NEW key \in ValuesOf[c]
      PROVE  LookupAgrees(n, c, key)
  <2>1. TypeOK /\ HeapOK /\ IndexOK
    BY <1>1 DEF IndexInv
  <2> DEFINE ix == index[n][c]
             b == bucketOf[key]
             bucket == ix[b]
             stored == heap[n]
             rows == ScanRows(n)
             found == Lookup(ix, c, key)
  <2>2. Registered(n) /\ IndexFits(bucketOf, ix, c, stored, missed[n][c], {})
    BY <1>1, <2>1 DEF IndexOK, OpenRows
  <2>3. NameOfSchema(n) = n
    BY <2>1, <2>2, NameOfSchemaIs
  <2>4. /\ stored \in Seq(IndexRow) /\ Increasing(stored) /\ Len(stored) \in Nat /\ DOMAIN stored = 1..Len(stored)
        /\ \A i \in DOMAIN stored : stored[i] \in IndexRow
    BY <2>1, SeqElements DEF TypeOK, HeapOK
  <2>5. DOMAIN rows = DOMAIN stored /\ \A i \in DOMAIN stored : rows[i] = PageRow(stored[i])
    BY DEF ScanRows
  <2>6. key \in Values /\ b \in Buckets
    <3>1. key \in Values
      BY DEF Values, Range, Columns
    <3>2. QED
      BY <2>1, <3>1 DEF TypeOK
  <2>7. bucket \in Seq(IndexRow) /\ DOMAIN bucket = 1..Len(bucket) /\ Len(bucket) \in Nat
    <3>1. ix \in [Buckets -> Seq(IndexRow)]
      BY <1>1, <2>1 DEF TypeOK
    <3>2. QED
      BY <2>6, <3>1, SeqElements
  <2>8. found = {j \in DOMAIN bucket : Same[bucket[j].value[c]] = Same[key]}
    BY DEF Lookup
  <2>9. Increasing(bucket) /\ \A j \in DOMAIN bucket : \E i \in DOMAIN stored : IsCopy(stored[i], bucket[j])
    BY <2>2, <2>6 DEF IndexFits, BucketsHold
  <2> HIDE DEF ix, b, bucket, stored, rows, found
  <2> DEFINE at == [j \in found |-> CHOOSE i \in DOMAIN stored : IsCopy(stored[i], bucket[j])]
  <2>10. ASSUME NEW j \in found
         PROVE  /\ j \in DOMAIN bucket /\ at[j] \in DOMAIN stored /\ IsCopy(stored[at[j]], bucket[j])
                /\ bucket[j].row = stored[at[j]].row /\ rows[at[j]] = PageRow(stored[at[j]])
    <3>1. j \in DOMAIN bucket
      BY <2>8
    <3>2. \E i \in DOMAIN stored : IsCopy(stored[i], bucket[j])
      BY <2>9, <3>1
    <3>3. at[j] \in DOMAIN stored /\ IsCopy(stored[at[j]], bucket[j])
      BY <3>2
    <3> HIDE DEF at
    <3>4. QED
      BY <2>4, <2>5, <3>1, <3>3, CopyIs
  <2>11. DOMAIN at = found /\ at = [j \in found |-> at[j]]
    OBVIOUS
  <2> HIDE DEF at
  <2>12. ASSUME NEW j \in found
         PROVE  SameRow(bucket[j], rows[at[j]])
    <3>1. stored[at[j]] \in IndexRow
      BY <2>4, <2>10
    <3>2. /\ rows[at[j]].row = bucket[j].row
          /\ \A d \in Columns : Same[rows[at[j]].value[d]] = Same[bucket[j].value[d]]
      BY <2>10, <3>1, PageRowTyped DEF IsCopy
    <3>3. QED
      BY <3>2 DEF SameRow
  <2>13. at \in [found -> Matching(rows, c, key)]
    <3>1. ASSUME NEW j \in found PROVE at[j] \in Matching(rows, c, key)
      <4>1. Same[rows[at[j]].value[c]] = Same[bucket[j].value[c]]
        BY <2>12 DEF SameRow
      <4>2. Same[bucket[j].value[c]] = Same[key]
        BY <2>8
      <4>3. at[j] \in DOMAIN rows
        BY <2>5, <2>10
      <4>4. QED
        BY <4>1, <4>2, <4>3 DEF Matching
    <3>2. QED
      BY <2>11, <3>1
  <2>14. ASSUME NEW i \in found, NEW j \in found, i < j
         PROVE  at[i] < at[j]
    <3>1. bucket[i].row < bucket[j].row
      BY <2>9, <2>10, <2>14 DEF Increasing
    <3>2. stored[at[i]].row < stored[at[j]].row
      BY <2>10, <3>1
    <3>3. QED
      BY <2>4, <2>10, <3>2, RowsApart
  <2>15. ASSUME NEW k \in WrittenAs(stored, c, key), stored[k].row \notin missed[n][c]
         PROVE  \E i \in found : at[i] = k
    <3>1. k \in DOMAIN stored /\ stored[k].value[c] = key /\ ReadBack[key] = key /\ stored[k] \in IndexRow
      BY <2>4 DEF WrittenAs
    <3>2. Holds(ix, stored[k])
      BY <2>2, <2>15, <3>1 DEF IndexFits
    <3>3. PICK a \in Buckets : \E j \in DOMAIN ix[a] : IsCopy(stored[k], ix[a][j])
      BY <3>2 DEF Holds
    <3>4. PICK j \in DOMAIN ix[a] : IsCopy(stored[k], ix[a][j])
      BY <3>3
    <3>5. ix[a][j].value[c] = key /\ ix[a][j].row = stored[k].row
      BY <3>1, <3>4, PageRowTyped DEF IsCopy
    <3>6. a = b
      BY <2>2, <3>5 DEF IndexFits, BucketsHold, b
    <3>7. j \in found /\ bucket[j].row = stored[k].row
      BY <2>8, <3>5, <3>6 DEF bucket
    <3>8. at[j] = k
      BY <2>4, <2>10, <3>1, <3>7, RowsApart
    <3>9. QED
      BY <3>7, <3>8
  <2>16. QED
    BY <2>3, <2>12, <2>13, <2>14, <2>15 DEF LookupAgrees, ix, b, bucket, stored, rows, found
<1>2. IndexInv => IndexAgreesWithScan
  BY <1>1 DEF IndexAgreesWithScan
<1>3. QED
  BY <1>2, IndexInvariance, PTL
==============================================================================
