---------------------------- MODULE DataPageProofs ----------------------------
(***************************************************************************)
(* Deductive proofs about DataPage, for every page size, schema and set of *)
(* values the assumptions allow.                                           *)
(***************************************************************************)
EXTENDS DataPage, SeqLemmas, FiniteSetTheorems, TLAPS

------------------------------------------------------------------------------
(* Where the columns of a record are *)

\* `sum` of ColumnOffset.
IsSum(s, f) == f = [n \in 0..Len(s) |-> IF n = 0 THEN 0 ELSE f[n - 1] + LenOf(s[n])]

\* A column takes room.
LEMMA ColumnLength ==
  ASSUME NEW type \in Type
  PROVE  LenOf(type) \in Nat \ {0}
BY SchemaAssumption DEF Type, LenOf

\* The recursion of ColumnOffset has a solution.
LEMMA SumExists ==
  ASSUME NEW s \in Schemas
  PROVE  \E f : IsSum(s, f) /\ f \in [0..Len(s) -> Nat]
<1> DEFINE step == [x \in (1..Len(s)) \X Nat |-> x[2] + LenOf(s[x[1]])]
<1>1. s \in Seq(Type) /\ Len(s) \in Nat /\ \A i \in 1..Len(s) : s[i] \in Type
  BY SchemaAssumption, SeqElements
<1>2. \A i \in 1..Len(s) : LenOf(s[i]) \in Nat
  BY <1>1, ColumnLength
<1>3. /\ step \in [(1..Len(s)) \X Nat -> Nat]
      /\ \A k \in 1..Len(s), x \in Nat : step[<<k, x>>] = x + LenOf(s[k])
  BY <1>2
<1> HIDE DEF step
<1>4. PICK f \in [0..Len(s) -> Nat] : Recursion(f, Len(s), 0, step)
  <2>1. Len(s) \in Nat /\ 0 \in Nat /\ step \in [(1..Len(s)) \X Nat -> Nat]
    BY <1>1, <1>3
  <2>2. QED
    BY <2>1, RecursionUpTo, Zenon
<1>5. ASSUME NEW n \in 0..Len(s)
      PROVE  f[n] = IF n = 0 THEN 0 ELSE f[n - 1] + LenOf(s[n])
  <2>1. CASE n = 0
    BY <1>4, <2>1 DEF Recursion
  <2>2. CASE n # 0
    <3>1. n \in 1..Len(s) /\ n - 1 \in 0..Len(s)
      BY <1>1, <2>2
    <3>2. f[n - 1] \in Nat
      BY <3>1
    <3>3. QED
      BY <1>3, <1>4, <2>2, <3>1, <3>2 DEF Recursion
  <2>3. QED
    BY <2>1, <2>2
<1>6. f = [n \in 0..Len(s) |-> IF n = 0 THEN 0 ELSE f[n - 1] + LenOf(s[n])]
  BY <1>5
<1>7. QED
  BY <1>6 DEF IsSum

\* Columns lie one behind the other.
LEMMA OffsetSteps ==
  ASSUME NEW s \in Schemas
  PROVE  /\ Len(s) \in Nat \ {0}
         /\ \A i \in 1..Len(s) : s[i] \in Type /\ LenOf(s[i]) \in Nat \ {0}
         /\ ColumnOffset(s, 1) = 0
         /\ \A i \in 1..(Len(s) + 1) : ColumnOffset(s, i) \in Nat
         /\ \A i \in 1..Len(s) : ColumnOffset(s, i + 1) = ColumnOffset(s, i) + LenOf(s[i])
         /\ RecordLength(s) = ColumnOffset(s, Len(s) + 1)
<1> DEFINE f == CHOOSE g : IsSum(s, g)
<1>1. s \in Seq(Type) /\ Len(s) \in Nat /\ \A i \in 1..Len(s) : s[i] \in Type
  BY SchemaAssumption, SeqElements
<1>2. Len(s) # 0
  BY <1>1, SchemaAssumption, EmptySeq
<1>3. \A i \in 1..Len(s) : LenOf(s[i]) \in Nat \ {0}
  BY <1>1, ColumnLength
<1>4. IsSum(s, f)
  BY SumExists
<1>5. \A i : ColumnOffset(s, i) = f[i - 1]
  BY DEF ColumnOffset, IsSum
<1> HIDE DEF f
<1>6. f[0] = 0 /\ \A i \in 1..Len(s) : f[i] = f[i - 1] + LenOf(s[i])
  <2>1. 0 \in 0..Len(s) /\ \A i \in 1..Len(s) : i \in 0..Len(s) /\ i # 0
    BY <1>1
  <2>2. \A n \in 0..Len(s) : f[n] = IF n = 0 THEN 0 ELSE f[n - 1] + LenOf(s[n])
    BY <1>4 DEF IsSum
  <2>3. QED
    BY <2>1, <2>2
<1>7. \A n \in 0..Len(s) : f[n] \in Nat
  <2> DEFINE T == {n \in 0..Len(s) : f[n] \in Nat}
  <2>1. 0 \in T
    BY <1>1, <1>6
  <2>2. ASSUME NEW i \in 1..Len(s), i - 1 \in T PROVE i \in T
    <3>1. f[i - 1] \in Nat /\ LenOf(s[i]) \in Nat /\ f[i] = f[i - 1] + LenOf(s[i]) /\ i \in 0..Len(s)
      BY <1>1, <1>3, <1>6, <2>2
    <3>2. QED
      BY <3>1
  <2> HIDE DEF T
  <2>3. 0..Len(s) \subseteq T
    BY <1>1, <2>1, <2>2, UpTo
  <2>4. QED
    BY <2>3 DEF T
<1>8. ColumnOffset(s, 1) = 0
  BY <1>5, <1>6
<1>9. \A i \in 1..(Len(s) + 1) : ColumnOffset(s, i) \in Nat
  BY <1>1, <1>5, <1>7
<1>10. \A i \in 1..Len(s) : ColumnOffset(s, i + 1) = ColumnOffset(s, i) + LenOf(s[i])
  <2>1. \A i \in 1..Len(s) : (i + 1) - 1 = i
    OBVIOUS
  <2>2. QED
    BY <1>5, <1>6, <2>1
<1>11. QED
  BY <1>1, <1>2, <1>3, <1>8, <1>9, <1>10 DEF RecordLength

\* A column ends before each later one begins, and all within the record.
LEMMA ColumnsApart ==
  ASSUME NEW s \in Schemas
  PROVE  /\ RecordLength(s) \in Nat \ {0}
         /\ \A i \in 1..Len(s), j \in 1..(Len(s) + 1) :
              i < j => ColumnOffset(s, i) + LenOf(s[i]) <= ColumnOffset(s, j)
         /\ \A i \in 1..Len(s) : ColumnOffset(s, i) + LenOf(s[i]) <= RecordLength(s)
<1> DEFINE C(i) == ColumnOffset(s, i)
           L(i) == LenOf(s[i])
<1>1. /\ Len(s) \in Nat \ {0} /\ C(1) = 0
      /\ \A i \in 1..Len(s) : L(i) \in Nat \ {0} /\ C(i + 1) = C(i) + L(i)
      /\ \A i \in 1..(Len(s) + 1) : C(i) \in Nat
      /\ RecordLength(s) = C(Len(s) + 1)
  BY OffsetSteps
<1> HIDE DEF C, L
<1>2. ASSUME NEW i \in 1..Len(s), NEW j \in 1..(Len(s) + 1), i < j
      PROVE  C(i) + L(i) <= C(j)
  <2> DEFINE T == {k \in 0..(Len(s) - i) : C(i) + L(i) <= C(i + 1 + k)}
  <2>1. 0 \in T
    <3>1. i + 1 + 0 = i + 1 /\ 0 \in 0..(Len(s) - i) /\ C(i) \in Nat /\ L(i) \in Nat
      BY <1>1
    <3>2. QED
      BY <1>1, <3>1
  <2>2. ASSUME NEW k \in 1..(Len(s) - i), k - 1 \in T PROVE k \in T
    <3>1. C(i) + L(i) <= C(i + 1 + (k - 1))
      BY <2>2
    <3>2. i + k \in 1..Len(s) /\ i + 1 + (k - 1) = i + k /\ (i + k) + 1 = i + 1 + k /\ k \in 0..(Len(s) - i)
      BY <1>1
    <3>3. C(i + 1 + k) = C(i + k) + L(i + k) /\ L(i + k) \in Nat
      BY <1>1, <3>2
    <3>4. C(i) \in Nat /\ L(i) \in Nat /\ C(i + k) \in Nat
      BY <1>1, <3>2
    <3>5. QED
      BY <3>1, <3>2, <3>3, <3>4
  <2> HIDE DEF T
  <2>3. 0..(Len(s) - i) \subseteq T
    <3>1. Len(s) - i \in Nat
      BY <1>1
    <3>2. QED
      BY <2>1, <2>2, <3>1, UpTo
  <2>4. j - i - 1 \in 0..(Len(s) - i) /\ i + 1 + (j - i - 1) = j
    BY <1>1, <1>2
  <2>5. j - i - 1 \in T
    BY <2>3, <2>4
  <2>6. QED
    BY <2>4, <2>5 DEF T
<1>3. ASSUME NEW i \in 1..Len(s) PROVE C(i) + L(i) <= RecordLength(s)
  <2>1. Len(s) + 1 \in 1..(Len(s) + 1) /\ i < Len(s) + 1
    BY <1>1
  <2>2. QED
    BY <1>1, <1>2, <2>1
<1>4. RecordLength(s) \in Nat \ {0}
  <2>1. 1 \in 1..Len(s) /\ Len(s) + 1 \in 1..(Len(s) + 1)
    BY <1>1
  <2>2. C(1) + L(1) <= RecordLength(s) /\ L(1) \in Nat \ {0} /\ RecordLength(s) \in Nat
    BY <1>1, <1>3, <2>1
  <2>3. QED
    BY <1>1, <2>2
<1>5. QED
  BY <1>2, <1>3, <1>4 DEF C, L

------------------------------------------------------------------------------
(* Bytes of a page *)

\* A value takes at least one byte, and each byte knows its place in it.
LEMMA BytesOf ==
  ASSUME NEW v \in Value
  PROVE  /\ Width(v) \in Nat \ {0}
         /\ Bytes(v) \in Seq(Byte) /\ Len(Bytes(v)) = Width(v)
         /\ DOMAIN Bytes(v) = 1..Width(v)
         /\ \A k \in 1..Width(v) :
              Bytes(v)[k] = IF v.id = 0 THEN ZeroByte ELSE [of |-> v, at |-> k]
<1>1. v.class \in {"str", "float", "int", "bool", "short"} /\ v.len \in Nat
  BY DEF Value
<1>2. Width(v) \in Nat \ {0}
  BY <1>1 DEF Width
<1>3. ZeroByte \in Byte /\ \A k \in 1..Width(v) : [of |-> v, at |-> k] \in Byte
  <2>1. Short(0) \in Value
    BY DEF Short, Value
  <2>2. \A k \in 1..Width(v) : k \in Nat
    BY <1>2
  <2>3. QED
    BY <2>1, <2>2 DEF ZeroByte, Byte
<1>4. Bytes(v) \in [1..Width(v) -> Byte]
  BY <1>3 DEF Bytes
<1>5. Bytes(v) \in Seq(Byte) /\ Len(Bytes(v)) = Width(v) /\ DOMAIN Bytes(v) = 1..Width(v)
  <2>1. Width(v) \in Nat
    BY <1>2
  <2>2. QED
    BY <1>4, <2>1, FunctionIsSeq
<1>6. QED
  BY <1>2, <1>5 DEF Bytes

\* A setter changes the bytes of its value and no other, and never makes the
\* page shorter.
LEMMA PutAt ==
  ASSUME NEW d \in Seq(Byte), NEW v \in Value, NEW offset \in 0..Len(d)
  PROVE  /\ Put(Bytes(v), offset, d) \in Seq(Byte)
         /\ Len(Put(Bytes(v), offset, d)) >= Len(d)
         /\ Len(Put(Bytes(v), offset, d)) >= offset + Width(v)
         /\ offset + Width(v) <= Len(d) => Len(Put(Bytes(v), offset, d)) = Len(d)
         /\ \A k \in 1..Width(v) : Put(Bytes(v), offset, d)[offset + k] = Bytes(v)[k]
         /\ \A k \in 1..Len(d) :
              k <= offset \/ k > offset + Width(v) => Put(Bytes(v), offset, d)[k] = d[k]
<1> DEFINE p == Put(Bytes(v), offset, d)
           w == Width(v)
           m == IF offset + w > Len(d) THEN offset + w ELSE Len(d)
<1>1. /\ w \in Nat \ {0} /\ Bytes(v) \in Seq(Byte) /\ Len(Bytes(v)) = w
      /\ DOMAIN Bytes(v) = 1..w /\ \A k \in 1..w : Bytes(v)[k] \in Byte
  <2>1. w \in Nat \ {0} /\ Bytes(v) \in Seq(Byte) /\ Len(Bytes(v)) = w /\ DOMAIN Bytes(v) = 1..w
    BY BytesOf
  <2>2. QED
    BY <2>1, SeqElements
<1>2. Len(d) \in Nat /\ DOMAIN d = 1..Len(d) /\ \A k \in 1..Len(d) : d[k] \in Byte
  BY SeqElements
<1> HIDE DEF w
<1>3. DOMAIN d \cup (offset + 1)..(offset + Len(Bytes(v))) = 1..m /\ m \in Nat
  <2>1. (1..Len(d)) \cup ((offset + 1)..(offset + w)) = 1..m /\ m \in Nat
    BY <1>1, <1>2
  <2>2. QED
    BY <1>1, <1>2, <2>1
<1>4. p = [k \in 1..m |-> IF k - offset \in DOMAIN Bytes(v) THEN Bytes(v)[k - offset] ELSE d[k]]
  BY <1>3 DEF Put
<1> HIDE DEF p
<1>5. \A k \in 1..m : p[k] = IF k - offset \in 1..w THEN Bytes(v)[k - offset] ELSE d[k]
  BY <1>1, <1>4
<1>6. \A k \in 1..m : p[k] \in Byte
  <2>1. TAKE k \in 1..m
  <2>2. CASE k - offset \in 1..w
    BY <1>1, <1>5, <2>2
  <2>3. CASE k - offset \notin 1..w
    <3>1. k \in 1..Len(d)
      BY <1>1, <1>2, <2>3
    <3>2. QED
      BY <1>2, <1>5, <2>3, <3>1
  <2>4. QED
    BY <2>2, <2>3
<1>7. p \in Seq(Byte) /\ Len(p) = m
  <2>1. p \in [1..m -> Byte]
    BY <1>4, <1>6
  <2>2. QED
    BY <1>3, <2>1, FunctionIsSeq
<1>8. \A k \in 1..w : p[offset + k] = Bytes(v)[k]
  <2>1. \A k \in 1..w : offset + k \in 1..m /\ (offset + k) - offset = k
    BY <1>1, <1>2
  <2>2. QED
    BY <1>5, <2>1
<1>9. \A k \in 1..Len(d) : k <= offset \/ k > offset + w => p[k] = d[k]
  <2>1. \A k \in 1..Len(d) : k \in 1..m /\ (k <= offset \/ k > offset + w => k - offset \notin 1..w)
    BY <1>1, <1>2
  <2>2. QED
    BY <1>5, <2>1
<1>10. m >= Len(d) /\ m >= offset + w /\ (offset + w <= Len(d) => m = Len(d))
  <2>1. w \in Nat /\ Len(d) \in Nat /\ offset \in Nat
    BY <1>1, <1>2
  <2>2. QED
    BY <2>1
<1>11. QED
  BY <1>7, <1>8, <1>9, <1>10 DEF p, w

\* Setting a field of the header or the directory, reading it back, and
\* reading the others.
LEMMA SetShortAt ==
  ASSUME NEW d \in Seq(Byte), NEW pos \in Nat, pos + 2 <= Len(d), NEW n \in Nat
  PROVE  /\ SetShort(pos, n, d) \in Seq(Byte)
         /\ Len(SetShort(pos, n, d)) = Len(d)
         /\ ShortAt(SetShort(pos, n, d), pos) = n
         /\ \A k \in 1..Len(d) : k <= pos \/ k > pos + 2 => SetShort(pos, n, d)[k] = d[k]
         /\ \A other \in 0..(Len(d) - 1) :
              other + 2 <= pos \/ pos + 2 <= other =>
                ShortAt(SetShort(pos, n, d), other) = ShortAt(d, other)
<1> DEFINE v == Short(n)
<1>1. v \in Value /\ v.len \in Nat /\ Width(v) = 2 /\ v.id = n
  BY DEF Short, Value, Width
<1>2. pos \in 0..Len(d) /\ Len(d) \in Nat
  BY SeqElements
<1> HIDE DEF v
<1>3. SetShort(pos, n, d) = Put(Bytes(v), pos, d)
  BY DEF SetShort, v
<1>4. 1 \in 1..2 /\ Bytes(v)[1] = IF v.id = 0 THEN ZeroByte ELSE [of |-> v, at |-> 1]
  BY <1>1, BytesOf
<1>5. Bytes(v)[1].of.id = n
  BY <1>1, <1>4 DEF ZeroByte, Short
<1>6. /\ Put(Bytes(v), pos, d) \in Seq(Byte)
      /\ pos + Width(v) <= Len(d) => Len(Put(Bytes(v), pos, d)) = Len(d)
      /\ \A k \in 1..Width(v) : Put(Bytes(v), pos, d)[pos + k] = Bytes(v)[k]
      /\ \A k \in 1..Len(d) : k <= pos \/ k > pos + Width(v) => Put(Bytes(v), pos, d)[k] = d[k]
  BY <1>1, <1>2, PutAt
<1>7. \A k \in 1..Len(d) : k <= pos \/ k > pos + 2 => SetShort(pos, n, d)[k] = d[k]
  BY <1>1, <1>3, <1>6
<1>8. \A other \in 0..(Len(d) - 1) :
        other + 2 <= pos \/ pos + 2 <= other =>
          other + 1 \in 1..Len(d) /\ (other + 1 <= pos \/ other + 1 > pos + 2)
  BY <1>2
<1>9. QED
  BY <1>1, <1>3, <1>4, <1>5, <1>6, <1>7, <1>8 DEF ShortAt

------------------------------------------------------------------------------
(* Header, directory and records of a page that holds n records *)

\* Where the nth record of length len starts, counted from the end of the page.
Start(n, len) == PageSize - n * len

\* What the fields of the page say when it holds n records of length len.
Directory(d, n, len) ==
  /\ d \in Seq(Byte) /\ Len(d) >= PageSize
  /\ n \in Nat /\ NumSlots(d) = n
  /\ ShortAt(d, FreeStartPos) = SlotPos(n + 1)
  /\ ShortAt(d, FreeEndPos) = Start(n, len)
  /\ SlotPos(n + 1) <= Start(n, len)
  /\ \A i \in 1..n : SlotOffset(d, i) = Start(i, len)

\* The product of natural numbers, as far as the layout needs it.
LEMMA Products ==
  ASSUME NEW a \in Nat, NEW b \in Nat, NEW c \in Nat
  PROVE  /\ a * c \in Nat
         /\ (a + b) * c = a * c + b * c
         /\ b >= 1 => b * c >= c
         /\ 0 * c = 0 /\ 1 * c = c
<1>1. a * c \in Nat /\ (a + b) * c = a * c + b * c /\ 0 * c = 0 /\ 1 * c = c
  OBVIOUS
<1>2. ASSUME b >= 1 PROVE b * c >= c
  <2>1. b - 1 \in Nat /\ (b - 1) * c >= 0
    BY <1>2
  <2>2. b * c = (b - 1) * c + c
    OBVIOUS
  <2>3. QED
    BY <2>1, <2>2
<1>3. QED
  BY <1>1, <1>2

\* The entries of the directory follow the header, each apart from the others.
LEMMA EntriesApart ==
  /\ SlotPos(1) = SlotDirStart
  /\ \A i \in Nat \ {0} : /\ SlotPos(i) \in Nat /\ SlotDirStart <= SlotPos(i)
                          /\ SlotPos(i + 1) = SlotPos(i) + SlotEntrySize
  /\ \A i, j \in Nat \ {0} : i < j => SlotPos(i) + SlotEntrySize <= SlotPos(j)
<1>1. SlotDirStart \in Nat /\ SlotEntrySize \in Nat
  BY HeaderAssumption
<1>2. \A i \in Nat \ {0} : SlotPos(i) = SlotDirStart + (i - 1) * SlotEntrySize /\ (i - 1) * SlotEntrySize \in Nat
  <2>1. TAKE i \in Nat \ {0}
  <2>2. i - 1 \in Nat
    OBVIOUS
  <2>3. QED
    BY <1>1, <2>2, Products DEF SlotPos
<1>3. SlotPos(1) = SlotDirStart
  BY <1>1, Products DEF SlotPos
<1>4. ASSUME NEW i \in Nat \ {0}, NEW j \in Nat \ {0}, i < j
      PROVE  /\ SlotPos(i) + SlotEntrySize <= SlotPos(j)
             /\ j = i + 1 => SlotPos(j) = SlotPos(i) + SlotEntrySize
  <2>1. i - 1 \in Nat /\ j - i \in Nat /\ j - i >= 1 /\ (i - 1) + (j - i) = j - 1
    BY <1>4
  <2>2. (j - 1) * SlotEntrySize = (i - 1) * SlotEntrySize + (j - i) * SlotEntrySize
        /\ (j - i) * SlotEntrySize >= SlotEntrySize /\ 1 * SlotEntrySize = SlotEntrySize
        /\ (j - i) * SlotEntrySize \in Nat
    <3>1. ((i - 1) + (j - i)) * SlotEntrySize = (i - 1) * SlotEntrySize + (j - i) * SlotEntrySize
      BY <1>1, <2>1, Products
    <3>2. QED
      BY <1>1, <2>1, <3>1, Products
  <2>3. j = i + 1 => j - i = 1
    OBVIOUS
  <2>4. /\ SlotPos(i) = SlotDirStart + (i - 1) * SlotEntrySize /\ (i - 1) * SlotEntrySize \in Nat
        /\ SlotPos(j) = SlotDirStart + (j - 1) * SlotEntrySize /\ (j - 1) * SlotEntrySize \in Nat
    BY <1>2
  <2>5. j = i + 1 => (j - i) * SlotEntrySize = SlotEntrySize
    BY <2>2, <2>3
  <2> DEFINE a == (i - 1) * SlotEntrySize
             b == (j - 1) * SlotEntrySize
             c == (j - i) * SlotEntrySize
  <2>6. /\ b = a + c /\ c >= SlotEntrySize /\ a \in Nat /\ b \in Nat /\ c \in Nat
        /\ j = i + 1 => c = SlotEntrySize
        /\ SlotPos(i) = SlotDirStart + a /\ SlotPos(j) = SlotDirStart + b
    BY <2>2, <2>4, <2>5
  <2> HIDE DEF a, b, c
  <2>7. QED
    BY <1>1, <2>6
<1>5. \A i \in Nat \ {0} : i + 1 \in Nat \ {0} /\ i < i + 1
  OBVIOUS
<1>6. QED
  BY <1>1, <1>2, <1>3, <1>4, <1>5

\* The records follow each other down from the end of the page.
LEMMA RecordsApart ==
  ASSUME NEW len \in Nat \ {0}
  PROVE  /\ Start(0, len) = PageSize
         /\ \A n \in Nat : Start(n, len) \in Int /\ Start(n + 1, len) = Start(n, len) - len
         /\ \A i, j \in Nat : i < j => Start(j, len) + len <= Start(i, len)
<1>1. PageSize \in Nat
  BY HeaderAssumption
<1>2. \A n \in Nat : Start(n, len) = PageSize - n * len /\ n * len \in Nat
  BY Products DEF Start
<1>3. ASSUME NEW i \in Nat, NEW j \in Nat, i < j
      PROVE  /\ Start(j, len) + len <= Start(i, len)
             /\ j = i + 1 => Start(j, len) = Start(i, len) - len
  <2>1. j - i \in Nat /\ j - i >= 1 /\ i + (j - i) = j
    BY <1>3
  <2> DEFINE a == i * len
             b == j * len
             c == (j - i) * len
  <2>2. /\ b = a + c /\ c >= len /\ a \in Nat /\ b \in Nat /\ c \in Nat
        /\ j = i + 1 => c = len
    <3>1. (i + (j - i)) * len = i * len + (j - i) * len
      BY <2>1, Products
    <3>2. (j - i) * len >= len /\ 1 * len = len /\ i * len \in Nat /\ j * len \in Nat /\ (j - i) * len \in Nat
      BY <2>1, Products
    <3>3. j = i + 1 => j - i = 1
      OBVIOUS
    <3>4. QED
      BY <2>1, <3>1, <3>2, <3>3
  <2>3. Start(i, len) = PageSize - a /\ Start(j, len) = PageSize - b
    BY <1>2
  <2> HIDE DEF a, b, c
  <2>4. QED
    BY <1>1, <2>2, <2>3
<1>4. Start(0, len) = PageSize
  <2>1. 0 * len = 0
    BY Products
  <2>2. QED
    BY <1>1, <2>1 DEF Start
<1>5. \A n \in Nat : n + 1 \in Nat /\ n < n + 1
  OBVIOUS
<1>6. \A n \in Nat : Start(n, len) \in Int
  BY <1>1, <1>2
<1>7. QED
  BY <1>3, <1>4, <1>5, <1>6

\* An empty page has an empty directory.
LEMMA EmptyDirectory ==
  ASSUME NEW len \in Nat \ {0},
         NEW d, d = SetShort(NumSlotsPos, 0,
                      SetShort(FreeStartPos, SlotDirStart,
                        SetShort(FreeEndPos, PageSize, [k \in 1..PageSize |-> ZeroByte])))
  PROVE  Directory(d, 0, len)
<1> DEFINE d0 == [k \in 1..PageSize |-> ZeroByte]
           d1 == SetShort(FreeEndPos, PageSize, d0)
           d2 == SetShort(FreeStartPos, SlotDirStart, d1)
<1>1. /\ PageSize \in Nat /\ SlotDirStart \in Nat /\ SlotDirStart <= PageSize
      /\ NumSlotsPos \in Nat /\ FreeStartPos \in Nat /\ FreeEndPos \in Nat
      /\ NumSlotsPos + 2 <= FreeStartPos /\ FreeStartPos + 2 <= FreeEndPos
      /\ FreeEndPos + 2 <= SlotDirStart
  BY HeaderAssumption
<1>2. d0 \in Seq(Byte) /\ Len(d0) = PageSize
  <2>1. ZeroByte \in Byte
    BY DEF ZeroByte, Byte, Short, Value
  <2>2. d0 \in [1..PageSize -> Byte]
    BY <2>1
  <2>3. QED
    BY <1>1, <2>2, FunctionIsSeq
<1> HIDE DEF d0, d1, d2
<1>3. d1 \in Seq(Byte) /\ Len(d1) = PageSize /\ ShortAt(d1, FreeEndPos) = PageSize
  BY <1>1, <1>2, SetShortAt DEF d1
<1>4. /\ d2 \in Seq(Byte) /\ Len(d2) = PageSize
      /\ ShortAt(d2, FreeStartPos) = SlotDirStart /\ ShortAt(d2, FreeEndPos) = PageSize
  <2>1. FreeStartPos + 2 <= Len(d1) /\ FreeEndPos \in 0..(Len(d1) - 1)
    BY <1>1, <1>3
  <2>2. QED
    BY <1>1, <1>3, <2>1, SetShortAt DEF d2
<1>5. d = SetShort(NumSlotsPos, 0, d2)
  BY DEF d2, d1, d0
<1>6. /\ d \in Seq(Byte) /\ Len(d) = PageSize /\ ShortAt(d, NumSlotsPos) = 0
      /\ ShortAt(d, FreeStartPos) = SlotDirStart /\ ShortAt(d, FreeEndPos) = PageSize
  <2>1. /\ NumSlotsPos + 2 <= Len(d2)
        /\ FreeStartPos \in 0..(Len(d2) - 1) /\ FreeEndPos \in 0..(Len(d2) - 1)
        /\ NumSlotsPos + 2 <= FreeEndPos
    BY <1>1, <1>4
  <2>2. d \in Seq(Byte) /\ Len(d) = Len(d2) /\ ShortAt(d, NumSlotsPos) = 0
    BY <1>1, <1>4, <1>5, <2>1, SetShortAt
  <2>3. ShortAt(d, FreeStartPos) = ShortAt(d2, FreeStartPos)
    BY <1>1, <1>4, <1>5, <2>1, SetShortAt
  <2>4. ShortAt(d, FreeEndPos) = ShortAt(d2, FreeEndPos)
    BY <1>1, <1>4, <1>5, <2>1, SetShortAt
  <2>5. QED
    BY <1>4, <2>2, <2>3, <2>4
<1>7. SlotPos(0 + 1) = SlotDirStart /\ Start(0, len) = PageSize
  BY EntriesApart, RecordsApart
<1>8. QED
  BY <1>1, <1>6, <1>7 DEF Directory, NumSlots

\* Bytes behind the directory do not matter to it.
LEMMA DirectoryStays ==
  ASSUME NEW len \in Nat \ {0}, NEW n \in Nat, NEW d, Directory(d, n, len),
         NEW e \in Seq(Byte), Len(e) >= PageSize, \A k \in 1..SlotPos(n + 1) : e[k] = d[k]
  PROVE  Directory(e, n, len)
<1>1. n + 1 \in Nat \ {0} /\ SlotPos(n + 1) \in Nat /\ SlotDirStart <= SlotPos(n + 1)
  <2>1. n + 1 \in Nat \ {0}
    OBVIOUS
  <2>2. QED
    BY <2>1, EntriesApart
<1>2. /\ NumSlotsPos \in Nat /\ FreeStartPos \in Nat /\ FreeEndPos \in Nat
      /\ NumSlotsPos + 2 <= SlotDirStart /\ FreeStartPos + 2 <= SlotDirStart
      /\ FreeEndPos + 2 <= SlotDirStart /\ SlotDirStart \in Nat /\ SlotEntrySize \in Nat /\ SlotEntrySize >= 2
  BY HeaderAssumption
<1>3. \A pos \in Nat : pos + 1 <= SlotPos(n + 1) => ShortAt(e, pos) = ShortAt(d, pos)
  <2>1. \A pos \in Nat : pos + 1 <= SlotPos(n + 1) => pos + 1 \in 1..SlotPos(n + 1)
    BY <1>1
  <2>2. QED
    BY <2>1 DEF ShortAt
<1>4. /\ ShortAt(e, NumSlotsPos) = ShortAt(d, NumSlotsPos)
      /\ ShortAt(e, FreeStartPos) = ShortAt(d, FreeStartPos)
      /\ ShortAt(e, FreeEndPos) = ShortAt(d, FreeEndPos)
  BY <1>1, <1>2, <1>3
<1>5. \A i \in 1..n : SlotOffset(e, i) = SlotOffset(d, i)
  <2>1. TAKE i \in 1..n
  <2>2. i \in Nat \ {0} /\ i < n + 1
    OBVIOUS
  <2>3. SlotPos(i) \in Nat /\ SlotPos(i) + SlotEntrySize <= SlotPos(n + 1)
    BY <1>1, <2>2, EntriesApart
  <2>4. SlotPos(i) + 1 <= SlotPos(n + 1)
    BY <1>1, <1>2, <2>3
  <2>5. QED
    BY <1>3, <2>3, <2>4 DEF SlotOffset
<1>6. QED
  BY <1>4, <1>5 DEF Directory, NumSlots

\* What is known of the places when a record is added.
LEMMA RoomForRecord ==
  ASSUME NEW len \in Nat \ {0}, NEW n, Directory(data, n, len), Fits(len)
  PROVE  /\ n \in Nat /\ freeEnd = Start(n, len) /\ freeStart = SlotPos(n + 1)
         /\ Start(n + 1, len) = Start(n, len) - len
         /\ SlotPos(n + 2) = SlotPos(n + 1) + SlotEntrySize
         /\ SlotPos(n + 2) <= Start(n + 1, len)
         /\ Start(n + 1, len) \in Nat /\ Start(n, len) <= PageSize
         /\ SlotPos(n + 1) \in Nat
<1>1. n \in Nat /\ freeEnd = Start(n, len) /\ freeStart = SlotPos(n + 1)
  BY DEF Directory, freeEnd, freeStart
<1>2. Start(n + 1, len) = Start(n, len) - len /\ Start(n, len) \in Int
  BY <1>1, RecordsApart
<1>3. SlotPos(n + 1) \in Nat /\ SlotPos(n + 2) = SlotPos(n + 1) + SlotEntrySize /\ SlotEntrySize \in Nat
  <2>1. n + 1 \in Nat \ {0} /\ (n + 1) + 1 = n + 2
    BY <1>1
  <2>2. SlotPos((n + 1) + 1) = SlotPos(n + 1) + SlotEntrySize /\ SlotPos(n + 1) \in Nat
    BY <2>1, EntriesApart
  <2>3. QED
    BY <2>1, <2>2, HeaderAssumption
<1>4. Start(n, len) <= PageSize
  <2>1. CASE n = 0
    BY <2>1, RecordsApart, HeaderAssumption
  <2>2. CASE n # 0
    <3>1. Start(n, len) + len <= Start(0, len) /\ Start(0, len) = PageSize
      BY <1>1, <2>2, RecordsApart
    <3>2. QED
      BY <1>2, <3>1, HeaderAssumption
  <2>3. QED
    BY <2>1, <2>2
<1>5. freeEnd - len - SlotEntrySize >= freeStart
  BY DEF Fits
<1> DEFINE a == Start(n, len)
           b == Start(n + 1, len)
           c == SlotPos(n + 1)
           e == SlotPos(n + 2)
<1>6. a - len - SlotEntrySize >= c /\ b = a - len /\ a \in Int /\ c \in Nat /\ e = c + SlotEntrySize
  BY <1>1, <1>2, <1>3, <1>5
<1> HIDE DEF a, b, c, e
<1>7. e <= b /\ b \in Nat
  BY <1>3, <1>6
<1>8. QED
  BY <1>1, <1>2, <1>3, <1>4, <1>7 DEF b, e

\* allocate_slot takes the next entry and notes it in the header.
LEMMA AllocatedDirectory ==
  ASSUME NEW len \in Nat \ {0}, NEW n, Directory(data, n, len), Fits(len)
  PROVE  /\ FreeSlotOf(data) = n + 1
         /\ Directory(Allocated(len, data), n + 1, len)
         /\ Len(Allocated(len, data)) = Len(data)
         /\ \A k \in 1..Len(data) : k > Start(n + 1, len) => Allocated(len, data)[k] = data[k]
<1>1. /\ n \in Nat /\ freeEnd = Start(n, len) /\ freeStart = SlotPos(n + 1)
      /\ Start(n + 1, len) = Start(n, len) - len
      /\ SlotPos(n + 2) = SlotPos(n + 1) + SlotEntrySize
      /\ SlotPos(n + 2) <= Start(n + 1, len)
      /\ Start(n + 1, len) \in Nat /\ Start(n, len) <= PageSize /\ SlotPos(n + 1) \in Nat
  BY RoomForRecord
<1>2. /\ data \in Seq(Byte) /\ Len(data) >= PageSize /\ NumSlots(data) = n
      /\ \A i \in 1..n : SlotOffset(data, i) = Start(i, len)
  BY DEF Directory
<1>3. /\ NumSlotsPos \in Nat /\ FreeStartPos \in Nat /\ FreeEndPos \in Nat
      /\ NumSlotsPos + 2 <= FreeStartPos /\ FreeStartPos + 2 <= FreeEndPos
      /\ FreeEndPos + 2 <= SlotDirStart /\ SlotDirStart \in Nat /\ SlotEntrySize \in Nat /\ SlotEntrySize >= 2
      /\ PageSize \in Nat
  BY HeaderAssumption
<1>4. Len(data) \in Nat
  BY <1>2, SeqElements
<1>5. /\ \A i \in 1..n : SlotPos(i) \in Nat /\ SlotDirStart <= SlotPos(i)
                         /\ SlotPos(i) + SlotEntrySize <= SlotPos(n + 1)
      /\ SlotDirStart <= SlotPos(n + 1)
  <2>1. n + 1 \in Nat \ {0} /\ \A i \in 1..n : i \in Nat \ {0} /\ i < n + 1
    BY <1>1
  <2>2. QED
    BY <2>1, EntriesApart
<1>6. FreeSlotOf(data) = n + 1
  <2>1. ASSUME NEW i \in 1..n PROVE SlotOffset(data, i) # 0
    <3>1. Start(i, len) \in Int /\ (i < n => Start(n, len) + len <= Start(i, len)) /\ Start(n, len) \in Int
      <4>1. i \in Nat /\ n \in Nat
        BY <1>1
      <4>2. QED
        BY <4>1, RecordsApart
    <3>2. Start(n, len) > 0
      <4>1. Start(n, len) = Start(n + 1, len) + len
        BY <1>1, <3>1
      <4>2. QED
        BY <1>1, <4>1
    <3>3. Start(i, len) > 0
      <4>1. CASE i = n
        BY <3>2, <4>1
      <4>2. CASE i # n
        <5>1. i < n
          BY <1>1, <4>2
        <5>2. QED
          BY <3>1, <3>2, <5>1
      <4>3. QED
        BY <4>1, <4>2
    <3>4. QED
      BY <1>2, <3>3
  <2>2. {i \in 1..NumSlots(data) : SlotOffset(data, i) = 0} = {}
    BY <1>2, <2>1
  <2>3. QED
    BY <1>2, <2>2 DEF FreeSlotOf
<1> DEFINE pos == SlotPos(n + 1)
           offset == Start(n + 1, len)
           d1 == SetShort(NumSlotsPos, n + 1, data)
           d2 == SetShort(FreeStartPos, SlotPos(n + 2), d1)
           d3 == SetShort(pos, offset, d2)
           d4 == SetShort(FreeEndPos, offset, d3)
<1>7. Allocated(len, data) = d4
  <2>1. ~(n + 1 <= n)
    BY <1>1
  <2>2. QED
    BY <1>1, <1>2, <1>6, <2>1 DEF Allocated
<1>8. /\ n + 1 \in Nat /\ SlotPos(n + 2) \in Nat /\ pos \in Nat /\ offset \in Nat
      /\ pos + 2 <= offset /\ offset <= Len(data) /\ SlotDirStart <= pos /\ pos + 2 <= Len(data)
  <2>1. offset <= PageSize /\ len \in Nat /\ Start(n, len) \in Int
    BY <1>1, <1>3, RecordsApart
  <2>2. QED
    BY <1>1, <1>2, <1>3, <1>4, <1>5, <2>1
<1> HIDE DEF pos, offset, d1, d2, d3, d4
<1> DEFINE L == Len(data)
<1>9. /\ NumSlotsPos + 2 <= L /\ FreeStartPos + 2 <= L /\ FreeEndPos + 2 <= L /\ L \in Nat
      /\ \A p \in {NumSlotsPos, FreeStartPos, FreeEndPos, pos} : p \in 0..(L - 1)
  BY <1>3, <1>4, <1>8
<1>10. /\ NumSlotsPos + 2 <= FreeStartPos /\ NumSlotsPos + 2 <= FreeEndPos /\ FreeStartPos + 2 <= FreeEndPos
       /\ NumSlotsPos + 2 <= pos /\ FreeStartPos + 2 <= pos /\ FreeEndPos + 2 <= pos
  BY <1>3, <1>8
<1> HIDE DEF L
<1>11. /\ d1 \in Seq(Byte) /\ Len(d1) = L /\ ShortAt(d1, NumSlotsPos) = n + 1
       /\ \A k \in 1..L : k > NumSlotsPos + 2 => d1[k] = data[k]
  <2>1. NumSlotsPos + 2 <= Len(data)
    BY <1>9 DEF L
  <2>2. QED
    BY <1>2, <1>3, <1>8, <2>1, SetShortAt DEF d1, L
<1>12. /\ d2 \in Seq(Byte) /\ Len(d2) = L /\ ShortAt(d2, FreeStartPos) = SlotPos(n + 2)
       /\ \A k \in 1..L : k > FreeStartPos + 2 => d2[k] = d1[k]
       /\ ShortAt(d2, NumSlotsPos) = ShortAt(d1, NumSlotsPos)
  <2>1. FreeStartPos + 2 <= Len(d1) /\ NumSlotsPos \in 0..(Len(d1) - 1)
    BY <1>9, <1>11
  <2>2. QED
    BY <1>3, <1>8, <1>10, <1>11, <2>1, SetShortAt DEF d2
<1>13. /\ d3 \in Seq(Byte) /\ Len(d3) = L /\ ShortAt(d3, pos) = offset
       /\ \A k \in 1..L : k <= pos \/ k > pos + 2 => d3[k] = d2[k]
       /\ ShortAt(d3, NumSlotsPos) = ShortAt(d2, NumSlotsPos)
       /\ ShortAt(d3, FreeStartPos) = ShortAt(d2, FreeStartPos)
  <2>1. pos + 2 <= Len(d2) /\ NumSlotsPos \in 0..(Len(d2) - 1) /\ FreeStartPos \in 0..(Len(d2) - 1)
    BY <1>8, <1>9, <1>12 DEF L
  <2>2. QED
    BY <1>8, <1>10, <1>12, <2>1, SetShortAt DEF d3
<1>14. /\ d4 \in Seq(Byte) /\ Len(d4) = L /\ ShortAt(d4, FreeEndPos) = offset
       /\ \A k \in 1..L : k > FreeEndPos + 2 => d4[k] = d3[k]
       /\ ShortAt(d4, NumSlotsPos) = ShortAt(d3, NumSlotsPos)
       /\ ShortAt(d4, FreeStartPos) = ShortAt(d3, FreeStartPos)
       /\ ShortAt(d4, pos) = ShortAt(d3, pos)
  <2>1. /\ FreeEndPos + 2 <= Len(d3) /\ NumSlotsPos \in 0..(Len(d3) - 1)
        /\ FreeStartPos \in 0..(Len(d3) - 1) /\ pos \in 0..(Len(d3) - 1)
    BY <1>9, <1>13
  <2>2. QED
    BY <1>3, <1>8, <1>10, <1>13, <2>1, SetShortAt DEF d4
<1>15. \A k \in 1..L : k > SlotDirStart /\ (k <= pos \/ k > pos + 2) => d4[k] = data[k]
  <2>1. TAKE k \in 1..L
  <2>2. HAVE k > SlotDirStart /\ (k <= pos \/ k > pos + 2)
  <2>3. k > FreeEndPos + 2 /\ k > FreeStartPos + 2 /\ k > NumSlotsPos + 2
    BY <1>3, <2>2
  <2>4. QED
    BY <1>11, <1>12, <1>13, <1>14, <2>2, <2>3
<1>16. \A i \in 1..(n + 1) : SlotOffset(d4, i) = Start(i, len)
  <2>1. TAKE i \in 1..(n + 1)
  <2>2. CASE i = n + 1
    BY <1>13, <1>14, <2>2 DEF SlotOffset, pos, offset
  <2>3. CASE i # n + 1
    <3>1. i \in 1..n
      BY <1>1, <2>3
    <3>2. SlotPos(i) + 1 \in 1..L /\ SlotPos(i) + 1 > SlotDirStart /\ SlotPos(i) + 1 <= pos
      <4>1. SlotPos(i) \in Nat /\ SlotDirStart <= SlotPos(i) /\ SlotPos(i) + SlotEntrySize <= pos
        BY <1>5, <3>1 DEF pos
      <4>2. QED
        BY <1>3, <1>8, <1>9, <4>1
    <3>3. SlotOffset(d4, i) = SlotOffset(data, i)
      BY <1>15, <3>2 DEF SlotOffset, ShortAt
    <3>4. QED
      BY <1>2, <3>1, <3>3
  <2>4. QED
    BY <2>2, <2>3
<1>17. Directory(d4, n + 1, len)
  <2>1. (n + 1) + 1 = n + 2 /\ Len(d4) >= PageSize
    BY <1>1, <1>2, <1>14 DEF L
  <2>2. QED
    BY <1>1, <1>8, <1>11, <1>12, <1>13, <1>14, <1>16, <2>1 DEF Directory, NumSlots, offset
<1>18. \A k \in 1..L : k > offset => d4[k] = data[k]
  <2>1. \A k \in 1..L : k > offset => k > SlotDirStart /\ k > pos + 2
    BY <1>3, <1>8
  <2>2. QED
    BY <1>15, <2>1
<1>19. QED
  BY <1>6, <1>7, <1>14, <1>17, <1>18 DEF L, offset
------------------------------------------------------------------------------
(* Values and columns *)

\* What a column holds of a value, and which values are too long for it.
LEMMA StoredValue ==
  ASSUME NEW type \in Type, NEW v \in Values, Accepts(type, v)
  PROVE  LET w == AsStored(type, v)
         IN  /\ w \in Value /\ w.class = ClassOf(type)
             /\ w.id = v.id /\ w.len = v.len /\ w.ok = v.ok /\ v.len \in Nat
             /\ Width(w) \in Nat \ {0}
             /\ \/ Width(w) <= LenOf(type)
                \/ /\ v.class = "str" /\ ~(v.len <= MaxStringLength) /\ v.id # 0
                   /\ Width(w) = 2 + v.len /\ LenOf(type) >= 2
             /\ v.class = "str" /\ v.len <= MaxStringLength => Width(w) <= LenOf(type)
<1> DEFINE w == AsStored(type, v)
<1>1. v \in Value /\ (v.id = 0 => v.len = 0)
  BY ValueAssumption
<1>2. ClassOf(type) \in {"str", "float", "int", "bool"}
  BY DEF Type, ClassOf
<1>3. /\ w \in Value /\ w.class = ClassOf(type) /\ w.id = v.id /\ w.len = v.len /\ w.ok = v.ok
      /\ v.len \in Nat
  BY <1>1, <1>2 DEF Value, AsStored
<1> HIDE DEF w
<1>4. CASE type = "STRING"
  <2>1. v.class = "str" /\ w.class = "str" /\ LenOf(type) = 2 + MaxStringLength
    BY <1>3, <1>4 DEF Accepts, ClassOf, LenOf
  <2>2. Width(w) = 2 + v.len
    BY <1>3, <2>1 DEF Width
  <2>3. MaxStringLength \in Nat
    BY SchemaAssumption
  <2>4. QED
    BY <1>1, <1>3, <2>1, <2>2, <2>3 DEF w
<1>5. CASE type # "STRING"
  <2>1. Width(w) = LenOf(type) /\ v.class # "str" /\ Width(w) \in Nat \ {0}
    BY <1>3, <1>5 DEF Type, Accepts, ClassOf, LenOf, Width
  <2>2. QED
    BY <1>3, <2>1 DEF w
<1>6. QED
  BY <1>4, <1>5

\* The longest string of the values.
Longest == Max({v.len : v \in Values} \cup {0})

LEMMA LongestString ==
  Longest \in Nat /\ (\A v \in Values : v.len <= Longest) /\ (Longest = 0 \/ \E v \in Values : Longest = v.len)
<1> DEFINE S == {v.len : v \in Values} \cup {0}
<1>1. S \subseteq Nat
  BY ValueAssumption DEF Value
<1>2. IsFiniteSet(S)
  BY ValueAssumption, FS_AddElement
<1>3. Longest \in S /\ \A y \in S : Longest >= y
  BY <1>1, <1>2, GreatestIn DEF Longest
<1>4. QED
  BY <1>1, <1>3

------------------------------------------------------------------------------
(* Writing a row *)

\* Column c of the row is on the page, as far as the column reaches.
ColumnBytes(d, s, offset, row, c) ==
  \A k \in 1..Width(AsStored(s[c], row[c])) :
    k <= LenOf(s[c]) =>
      d[offset + ColumnOffset(s, c) + k] = Bytes(AsStored(s[c], row[c]))[k]

\* Page d after the first i columns of the row were written at offset: nothing
\* below it has changed, nothing behind some e either, and between the end of
\* the record and e lie bytes that begin no value.
Written(p, d, s, offset, row, i) ==
  LET top == offset + RecordLength(s)
  IN  /\ p \in Seq(Byte) /\ Len(p) >= Len(d)
      /\ \A k \in 1..offset : p[k] = d[k]
      /\ \E e \in top..(top + Longest) :
           /\ FitsColumns(row) => e = top
           /\ e <= Len(p)
           /\ \A k \in (e + 1)..Len(d) : p[k] = d[k]
           /\ \A k \in (top + 1)..e : p[k].at > 1
      /\ Encodable(row) => \A c \in 1..i : ColumnBytes(p, s, offset, row, c)

\* What the rows of a schema are.
LEMMA RowColumns ==
  ASSUME NEW s \in Schemas, NEW row \in Rows(s)
  PROVE  /\ DOMAIN row = 1..Len(s) /\ Len(row) = Len(s) /\ Len(s) \in Nat /\ DOMAIN s = 1..Len(s)
         /\ \A i \in 1..Len(s) : row[i] \in Values /\ Accepts(s[i], row[i]) /\ s[i] \in Type
<1>1. s \in Seq(Type)
  BY SchemaAssumption
<1>2. DOMAIN s = 1..Len(s) /\ Len(s) \in Nat /\ \A i \in 1..Len(s) : s[i] \in Type
  BY <1>1, SeqElements
<1>3. row \in [1..Len(s) -> Values] /\ \A i \in 1..Len(s) : Accepts(s[i], row[i])
  BY <1>2 DEF Rows
<1>4. Len(row) = Len(s)
  BY <1>2, <1>3, FunctionIsSeq
<1>5. QED
  BY <1>2, <1>3, <1>4

\* One column more.
LEMMA ColumnWritten ==
  ASSUME NEW s \in Schemas, NEW row \in Rows(s), NEW d \in Seq(Byte), NEW offset \in Nat,
         offset + RecordLength(s) <= Len(d),
         NEW i \in 1..Len(s), NEW p, Written(p, d, s, offset, row, i - 1)
  PROVE  Written(Put(Bytes(AsStored(s[i], row[i])), offset + ColumnOffset(s, i), p),
                 d, s, offset, row, i)
<1> DEFINE w == AsStored(s[i], row[i])
           o == offset + ColumnOffset(s, i)
           top == offset + RecordLength(s)
           q == Put(Bytes(w), o, p)
           W == Width(w)
           room == LenOf(s[i])
<1>1. /\ row[i] \in Values /\ Accepts(s[i], row[i]) /\ s[i] \in Type /\ Len(s) \in Nat
      /\ DOMAIN row = 1..Len(s)
  BY RowColumns
<1>2. /\ w \in Value /\ w.id = row[i].id /\ W \in Nat \ {0} /\ row[i].len \in Nat
      /\ \/ W <= room
         \/ /\ row[i].class = "str" /\ ~(row[i].len <= MaxStringLength) /\ w.id # 0
            /\ W = 2 + row[i].len /\ room >= 2
  BY <1>1, StoredValue
<1>3. /\ o \in Nat /\ offset <= o /\ o + room <= top /\ top \in Nat /\ room \in Nat \ {0} /\ top <= Len(d)
  <2>1. /\ ColumnOffset(s, i) \in Nat /\ RecordLength(s) \in Nat /\ room \in Nat \ {0}
        /\ ColumnOffset(s, i) + room <= RecordLength(s)
    <3>1. i \in 1..(Len(s) + 1)
      BY <1>1
    <3>2. QED
      BY <3>1, OffsetSteps, ColumnsApart
  <2>2. QED
    BY <2>1
<1>4. /\ p \in Seq(Byte) /\ Len(p) >= Len(d)
      /\ \A k \in 1..offset : p[k] = d[k]
      /\ Encodable(row) => \A c \in 1..(i - 1) : ColumnBytes(p, s, offset, row, c)
  BY DEF Written
<1>5. PICK e \in top..(top + Longest) :
           /\ FitsColumns(row) => e = top
           /\ e <= Len(p)
           /\ \A k \in (e + 1)..Len(d) : p[k] = d[k]
           /\ \A k \in (top + 1)..e : p[k].at > 1
  BY DEF Written
<1>6. Len(p) \in Nat /\ Len(d) \in Nat /\ o \in 0..Len(p)
  <2>1. Len(p) \in Nat /\ Len(d) \in Nat
    BY <1>4, SeqElements
  <2>2. QED
    BY <1>3, <1>4, <2>1
<1> HIDE DEF w, o, q, W, top, room
<1>7. /\ q \in Seq(Byte) /\ Len(q) >= Len(p) /\ Len(q) >= o + W
      /\ \A k \in 1..W : q[o + k] = Bytes(w)[k]
      /\ \A k \in 1..Len(p) : k <= o \/ k > o + W => q[k] = p[k]
  BY <1>2, <1>4, <1>6, PutAt DEF q, W
<1>8. Len(q) \in Nat
  BY <1>7, SeqElements
<1>9. /\ \A k \in 1..W : Bytes(w)[k] = IF w.id = 0 THEN ZeroByte ELSE [of |-> w, at |-> k]
  BY <1>2, BytesOf DEF W
<1>10. \A k \in 1..offset : q[k] = d[k]
  <2>1. \A k \in 1..offset : k \in 1..Len(p) /\ k <= o
    BY <1>3, <1>6
  <2>2. QED
    BY <1>4, <1>7, <2>1
<1>11. \E f \in top..(top + Longest) :
           /\ FitsColumns(row) => f = top
           /\ f <= Len(q)
           /\ \A k \in (f + 1)..Len(d) : q[k] = d[k]
           /\ \A k \in (top + 1)..f : q[k].at > 1
  <2>1. Longest \in Nat /\ row[i].len <= Longest
    BY <1>1, LongestString
  <2>2. ASSUME NEW k \in (top + 1)..Len(p), k <= o + W
        PROVE  q[k].at > 1
    <3>1. k - o \in 1..W /\ o + (k - o) = k /\ k - o > 1 /\ ~(W <= room)
      BY <1>2, <1>3, <1>6, <2>2
    <3>2. q[k] = [of |-> w, at |-> k - o]
      BY <1>2, <1>7, <1>9, <3>1
    <3>3. QED
      BY <3>1, <3>2
  <2>3. CASE o + W <= e
    <3>1. e <= Len(q)
      BY <1>5, <1>6, <1>7, <1>8
    <3>2. ASSUME NEW k \in (e + 1)..Len(d) PROVE q[k] = d[k]
      <4>1. k \in 1..Len(p) /\ k > o + W
        BY <1>2, <1>3, <1>4, <1>5, <1>6, <2>3
      <4>2. QED
        BY <1>5, <1>7, <4>1
    <3>3. ASSUME NEW k \in (top + 1)..e PROVE q[k].at > 1
      <4>1. k \in (top + 1)..Len(p) /\ k \in 1..Len(p)
        BY <1>3, <1>5, <1>6
      <4>2. CASE k <= o + W
        BY <2>2, <4>1, <4>2
      <4>3. CASE ~(k <= o + W)
        <5>1. k > o + W
          BY <1>2, <1>3, <4>3
        <5>2. QED
          BY <1>5, <1>7, <4>1, <5>1
      <4>4. QED
        BY <4>2, <4>3
    <3>4. QED
      BY <1>5, <3>1, <3>2, <3>3
  <2>4. CASE ~(o + W <= e)
    <3>1. ~(W <= room)
      BY <1>2, <1>3, <1>5, <2>4
    <3>2. row[i].class = "str" /\ ~(row[i].len <= MaxStringLength) /\ W = 2 + row[i].len /\ room >= 2
      BY <1>2, <3>1
    <3>3. ~FitsColumns(row)
      BY <1>1, <3>2 DEF FitsColumns
    <3>4. o + W \in top..(top + Longest) /\ o + W <= Len(q)
      <4>1. top <= e /\ e \in Nat
        BY <1>3, <1>5, <2>1
      <4>2. o \in Nat /\ W \in Nat /\ top \in Nat /\ room \in Nat /\ row[i].len \in Nat /\ o + room <= top
        BY <1>2, <1>3
      <4>3. o + W <= top + Longest
        <5>1. W <= 2 + Longest
          BY <2>1, <3>2, <4>2
        <5>2. W <= room + Longest
          BY <2>1, <3>2, <4>2, <5>1
        <5>3. QED
          BY <2>1, <4>2, <5>2
      <4>4. QED
        BY <1>7, <2>1, <2>4, <4>1, <4>2, <4>3
    <3>5. ASSUME NEW k \in (o + W + 1)..Len(d) PROVE q[k] = d[k]
      <4>1. k \in 1..Len(p) /\ k > o + W /\ k \in (e + 1)..Len(d)
        BY <1>2, <1>3, <1>4, <1>5, <1>6, <2>1, <2>4
      <4>2. QED
        BY <1>5, <1>7, <4>1
    <3>6. ASSUME NEW k \in (top + 1)..(o + W) PROVE q[k].at > 1
      <4>1. k - o \in 1..W /\ o + (k - o) = k /\ k - o > 1
        BY <1>2, <1>3
      <4>2. q[k] = [of |-> w, at |-> k - o]
        BY <1>2, <1>7, <1>9, <3>1, <4>1
      <4>3. QED
        BY <4>1, <4>2
    <3>7. QED
      BY <3>3, <3>4, <3>5, <3>6
  <2>5. QED
    BY <2>3, <2>4
<1>12. ASSUME Encodable(row), NEW c \in 1..i PROVE ColumnBytes(q, s, offset, row, c)
  <2>1. CASE c = i
    <3>1. \A k \in 1..W : q[o + k] = Bytes(w)[k]
      BY <1>7
    <3>2. QED
      BY <2>1, <3>1 DEF ColumnBytes, W, w, o
  <2>2. CASE c # i
    <3>1. c \in 1..(i - 1) /\ c \in 1..Len(s) /\ i \in 1..(Len(s) + 1) /\ c < i /\ c \in 1..(Len(s) + 1)
      BY <1>1, <2>2
    <3>2. ColumnBytes(p, s, offset, row, c)
      BY <1>4, <1>12, <3>1
    <3>3. /\ ColumnOffset(s, c) \in Nat /\ LenOf(s[c]) \in Nat
          /\ ColumnOffset(s, c) + LenOf(s[c]) <= ColumnOffset(s, i) /\ ColumnOffset(s, i) \in Nat
      BY <3>1, OffsetSteps, ColumnsApart
    <3>4. ASSUME NEW k \in 1..Width(AsStored(s[c], row[c])), k <= LenOf(s[c])
          PROVE  offset + ColumnOffset(s, c) + k \in 1..Len(p) /\ offset + ColumnOffset(s, c) + k <= o
      BY <1>6, <3>3, <3>4 DEF o
    <3>5. QED
      BY <1>7, <3>2, <3>4 DEF ColumnBytes
  <2>3. QED
    BY <2>1, <2>2
<1>13. Len(q) >= Len(d)
  BY <1>4, <1>6, <1>7, <1>8
<1>14. QED
  BY <1>7, <1>10, <1>11, <1>12, <1>13 DEF Written, q, w, o, top

\* `page` of WriteRow.
IsPage(f, row, offset, d) ==
  f = [i \in 0..Len(row) |->
         IF i = 0 THEN d
         ELSE IF \E j \in 1..i : ~row[j].ok THEN f[i - 1]
         ELSE Put(Bytes(AsStored(schema[i], row[i])), offset + ColumnOffset(schema, i), f[i - 1])]

\* The recursion of WriteRow has a solution.
LEMMA PageExists ==
  ASSUME schema \in Schemas, NEW row \in Rows(schema), NEW d \in Seq(Byte), NEW offset \in Nat,
         offset + RecordLength(schema) <= Len(d)
  PROVE  \E f : IsPage(f, row, offset, d)
<1> DEFINE n == Len(row)
           S == {p \in Seq(Byte) : Len(p) >= Len(d)}
           put(i, p) == IF \E j \in 1..i : ~row[j].ok THEN p
                        ELSE Put(Bytes(AsStored(schema[i], row[i])), offset + ColumnOffset(schema, i), p)
           step == [x \in (1..n) \X S |-> put(x[1], x[2])]
<1>1. /\ n \in Nat /\ n = Len(schema)
      /\ \A i \in 1..n : row[i] \in Values /\ Accepts(schema[i], row[i]) /\ schema[i] \in Type
  BY RowColumns
<1>2. ASSUME NEW i \in 1..n, NEW p \in S PROVE put(i, p) \in S
  <2> DEFINE w == AsStored(schema[i], row[i])
             o == offset + ColumnOffset(schema, i)
  <2>1. w \in Value
    BY <1>1, StoredValue
  <2>2. p \in Seq(Byte) /\ Len(p) \in Nat /\ Len(d) \in Nat /\ Len(p) >= Len(d)
    BY SeqElements
  <2>3. o \in 0..Len(p)
    <3>1. i \in 1..Len(schema) /\ i \in 1..(Len(schema) + 1)
      BY <1>1
    <3>2. /\ ColumnOffset(schema, i) \in Nat /\ LenOf(schema[i]) \in Nat /\ RecordLength(schema) \in Nat
          /\ ColumnOffset(schema, i) + LenOf(schema[i]) <= RecordLength(schema)
      BY <3>1, OffsetSteps, ColumnsApart
    <3>3. QED
      BY <2>2, <3>2
  <2> HIDE DEF w, o
  <2>4. Put(Bytes(w), o, p) \in Seq(Byte) /\ Len(Put(Bytes(w), o, p)) >= Len(p)
    BY <2>1, <2>2, <2>3, PutAt
  <2>5. Len(Put(Bytes(w), o, p)) \in Nat
    BY <2>4, SeqElements
  <2>6. Put(Bytes(w), o, p) \in S
    BY <2>2, <2>4, <2>5
  <2>7. QED
    BY <2>6 DEF w, o
<1> HIDE DEF put
<1>3. step \in [(1..n) \X S -> S] /\ \A i \in 1..n, p \in S : step[<<i, p>>] = put(i, p)
  BY <1>2
<1>4. d \in S
  BY SeqElements
<1> HIDE DEF S, step
<1>5. PICK f \in [0..n -> S] : Recursion(f, n, d, step)
  BY <1>1, <1>3, <1>4, RecursionUpTo
<1>6. ASSUME NEW i \in 0..n PROVE f[i] = IF i = 0 THEN d ELSE put(i, f[i - 1])
  <2>1. CASE i = 0
    BY <1>5, <2>1 DEF Recursion
  <2>2. CASE i # 0
    <3>1. i \in 1..n /\ i - 1 \in 0..n
      BY <1>1, <2>2
    <3>2. f[i - 1] \in S
      BY <3>1
    <3>3. QED
      BY <1>3, <1>5, <2>2, <3>1, <3>2 DEF Recursion
  <2>3. QED
    BY <2>1, <2>2
<1>7. f = [i \in 0..n |-> IF i = 0 THEN d ELSE put(i, f[i - 1])]
  BY <1>6
<1>8. QED
  BY <1>7 DEF put, IsPage

\* All columns, up to the first that raises.
LEMMA RowWritten ==
  ASSUME schema \in Schemas, NEW row \in Rows(schema), NEW d \in Seq(Byte), NEW offset \in Nat,
         offset + RecordLength(schema) <= Len(d)
  PROVE  Written(WriteRow(row, offset, d), d, schema, offset, row, Len(schema))
<1> DEFINE f == CHOOSE g : IsPage(g, row, offset, d)
           n == Len(schema)
<1>1. Len(row) = n /\ n \in Nat /\ DOMAIN row = 1..n
  BY RowColumns
<1>2. WriteRow(row, offset, d) = f[Len(row)]
  BY DEF WriteRow, IsPage
<1>3. IsPage(f, row, offset, d)
  BY PageExists
<1> HIDE DEF f
<1>4. /\ f[0] = d
      /\ \A i \in 1..n :
           f[i] = IF \E j \in 1..i : ~row[j].ok THEN f[i - 1]
                  ELSE Put(Bytes(AsStored(schema[i], row[i])), offset + ColumnOffset(schema, i), f[i - 1])
  <2>1. 0 \in 0..n /\ \A i \in 1..n : i \in 0..n /\ i # 0
    BY <1>1
  <2>2. QED
    BY <1>1, <1>3, <2>1 DEF IsPage
<1> DEFINE T == {i \in 0..n : Written(f[i], d, schema, offset, row, i)}
<1>5. 0 \in T
  <2> DEFINE top == offset + RecordLength(schema)
  <2>1. Longest \in Nat /\ RecordLength(schema) \in Nat /\ Len(d) \in Nat
    BY LongestString, ColumnsApart, SeqElements
  <2>2. top \in top..(top + Longest) /\ top <= Len(d)
    BY <2>1
  <2>3. \A k \in (top + 1)..top : FALSE
    BY <2>1
  <2>4. \A c \in 1..0 : FALSE
    OBVIOUS
  <2> HIDE DEF top
  <2>5. Len(d) >= Len(d)
    BY <2>1
  <2>6. Written(d, d, schema, offset, row, 0)
    BY <2>2, <2>3, <2>4, <2>5 DEF Written, top
  <2>7. QED
    BY <1>1, <1>4, <2>6
<1>6. ASSUME NEW i \in 1..n, i - 1 \in T PROVE i \in T
  <2>1. Written(f[i - 1], d, schema, offset, row, i - 1) /\ i \in 0..n
    BY <1>1, <1>6
  <2>2. CASE \E j \in 1..i : ~row[j].ok
    <3>1. ~Encodable(row)
      BY <1>1, <2>2 DEF Encodable
    <3>2. f[i] = f[i - 1]
      BY <1>4, <2>2
    <3>3. QED
      BY <2>1, <3>1, <3>2 DEF Written
  <2>3. CASE ~\E j \in 1..i : ~row[j].ok
    <3>1. f[i] = Put(Bytes(AsStored(schema[i], row[i])), offset + ColumnOffset(schema, i), f[i - 1])
      BY <1>4, <2>3
    <3>2. QED
      BY <2>1, <3>1, ColumnWritten
  <2>4. QED
    BY <2>2, <2>3
<1> HIDE DEF T
<1>7. n \in T
  <2>1. 0..n \subseteq T
    BY <1>1, <1>5, <1>6, UpTo
  <2>2. QED
    BY <1>1, <2>1
<1>8. QED
  BY <1>1, <1>2, <1>7 DEF T

------------------------------------------------------------------------------
(* Reading a row *)

\* Functions are equal when their values are.
LEMMA SameFunction ==
  ASSUME NEW D, NEW S, NEW f \in [D -> S], NEW g \in [D -> S], \A x \in D : f[x] = g[x]
  PROVE  f = g
OBVIOUS

\* The bytes of a page at an offset.
LEMMA SliceOf ==
  ASSUME NEW d \in Seq(Byte), NEW offset \in Nat, NEW width \in Nat, offset + width <= Len(d)
  PROVE  /\ Slice(d, offset, width) \in [1..width -> Byte]
         /\ \A k \in 1..width : Slice(d, offset, width)[k] = d[offset + k]
<1>1. Len(d) \in Nat /\ \A i \in 1..Len(d) : d[i] \in Byte
  BY SeqElements
<1>2. offset + 1 \in Int /\ offset + width \in Int /\ \A i \in (offset + 1)..(offset + width) : d[i] \in Byte
  BY <1>1
<1> DEFINE t == SubSeq(d, offset + 1, offset + width)
<1>3. /\ t \in Seq(Byte)
      /\ Len(t) = IF offset + 1 <= offset + width THEN (offset + width) - (offset + 1) + 1 ELSE 0
      /\ \A i \in 1..((offset + width) - (offset + 1) + 1) : t[i] = d[(offset + 1) + i - 1]
  BY <1>2, SubSeqProperties
<1> HIDE DEF t
<1>4. Len(t) = width /\ (offset + width) - (offset + 1) + 1 = width
  BY <1>3
<1>5. \A k \in 1..width : (offset + 1) + k - 1 = offset + k
  OBVIOUS
<1>6. t \in [1..width -> Byte] /\ \A k \in 1..width : t[k] = d[offset + k]
  BY <1>3, <1>4, <1>5, SeqElements
<1>7. QED
  BY <1>6 DEF Slice, t

\* A value whose bytes are all there is read back.
LEMMA ColumnRead ==
  ASSUME NEW d \in Seq(Byte), NEW type \in Type, NEW v \in Values, Accepts(type, v), v.ok,
         NEW offset \in Nat, offset + LenOf(type) <= Len(d),
         Width(AsStored(type, v)) <= LenOf(type),
         \A k \in 1..Width(AsStored(type, v)) : d[offset + k] = Bytes(AsStored(type, v))[k]
  PROVE  ReadColumn(d, type, offset) = AsStored(type, v)
<1> DEFINE w == AsStored(type, v)
           W == Width(w)
           first == d[offset + 1]
           u == IF first = ZeroByte THEN Zero(ClassOf(type)) ELSE first.of
<1>1. /\ w \in Value /\ w.class = ClassOf(type) /\ w.id = v.id /\ w.len = v.len /\ w.ok = v.ok
      /\ W \in Nat \ {0}
  BY StoredValue
<1>2. v.id = 0 => v.len = 0
  BY ValueAssumption
<1>3. /\ Bytes(w) \in [1..W -> Byte]
      /\ \A k \in 1..W : Bytes(w)[k] = IF w.id = 0 THEN ZeroByte ELSE [of |-> w, at |-> k]
  <2>1. /\ Bytes(w) \in Seq(Byte) /\ Len(Bytes(w)) = W
        /\ \A k \in 1..W : Bytes(w)[k] = IF w.id = 0 THEN ZeroByte ELSE [of |-> w, at |-> k]
    BY <1>1, BytesOf
  <2>2. QED
    BY <2>1, SeqElements
<1>4. LenOf(type) \in Nat /\ Len(d) \in Nat
  BY ColumnLength, SeqElements
<1> HIDE DEF w, W
<1>5. \A k \in 1..W : d[offset + k] = Bytes(w)[k]
  BY DEF w, W
<1>6. Slice(d, offset, W) = Bytes(w)
  <2>1. W \in Nat /\ offset + W <= Len(d)
    BY <1>1, <1>4 DEF W, w
  <2>2. /\ Slice(d, offset, W) \in [1..W -> Byte]
        /\ \A k \in 1..W : Slice(d, offset, W)[k] = d[offset + k]
    BY <2>1, SliceOf
  <2> DEFINE a == Slice(d, offset, W)
             b == Bytes(w)
             D == 1..W
  <2>3. a \in [D -> Byte]
    BY <2>2
  <2>4. b \in [D -> Byte]
    BY <1>3
  <2>5. \A k \in D : a[k] = b[k]
    BY <1>5, <2>2
  <2> HIDE DEF a, b, D
  <2>6. a = b
    BY <2>3, <2>4, <2>5, SameFunction
  <2>7. QED
    BY <2>6 DEF a, b
<1>7. first = IF w.id = 0 THEN ZeroByte ELSE [of |-> w, at |-> 1]
  <2>1. 1 \in 1..W
    BY <1>1
  <2>2. QED
    BY <1>3, <1>5, <2>1
<1>8. (first = ZeroByte) <=> w.id = 0
  BY <1>7 DEF ZeroByte
<1>9. u = w
  <2>1. CASE w.id = 0
    <3>1. w = [class |-> ClassOf(type), id |-> 0, len |-> 0, ok |-> TRUE]
      <4>1. w.len = 0 /\ w.ok = TRUE
        BY <1>1, <1>2, <2>1 DEF Value
      <4>2. QED
        BY <1>1, <2>1, <4>1 DEF Value
    <3>2. QED
      BY <1>8, <2>1, <3>1 DEF Zero
  <2>2. CASE w.id # 0
    BY <1>7, <1>8, <2>2
  <2>3. QED
    BY <2>1, <2>2
<1>10. CASE type = "BOOLEAN"
  <2>1. v.class = "bool" /\ ClassOf(type) = "bool"
    BY <1>10 DEF Accepts, ClassOf
  <2>2. v.id \in {0, 1} /\ v.len = 0 /\ v.ok
    BY <2>1, ValueAssumption
  <2>3. w = [class |-> "bool", id |-> IF first = ZeroByte THEN 0 ELSE 1, len |-> 0, ok |-> TRUE]
    <3>1. w.len = 0 /\ w.ok = TRUE /\ w.class = "bool" /\ w.id = IF first = ZeroByte THEN 0 ELSE 1
      BY <1>1, <1>8, <2>1, <2>2 DEF Value
    <3>2. QED
      BY <1>1, <3>1 DEF Value
  <2> DEFINE bit == IF first = ZeroByte THEN 0 ELSE 1
  <2>4. ReadColumn(d, type, offset) = [Zero("bool") EXCEPT !.id = bit]
    BY <1>10 DEF ReadColumn
  <2>5. w = [class |-> "bool", id |-> bit, len |-> 0, ok |-> TRUE]
    BY <2>3
  <2> HIDE DEF bit
  <2>6. [Zero("bool") EXCEPT !.id = bit] = [class |-> "bool", id |-> bit, len |-> 0, ok |-> TRUE]
    <3> DEFINE z == Zero("bool")
    <3>1. z \in Value /\ z.class = "bool" /\ z.len = 0 /\ z.ok = TRUE
      BY DEF Zero, Value
    <3> HIDE DEF z
    <3>2. [z EXCEPT !.id = bit] = [class |-> z.class, id |-> bit, len |-> z.len, ok |-> z.ok]
      BY <3>1 DEF Value
    <3>3. QED
      BY <3>1, <3>2 DEF z
  <2>7. QED
    BY <2>4, <2>5, <2>6 DEF w
<1>11. CASE type # "BOOLEAN"
  <2>1. u.class = ClassOf(type) /\ Slice(d, offset, Width(u)) = Bytes(u)
    BY <1>1, <1>6, <1>9 DEF W
  <2>2. ReadColumn(d, type, offset) = u
    BY <1>11, <2>1 DEF ReadColumn
  <2>3. QED
    BY <1>9, <2>2 DEF w
<1>12. QED
  BY <1>10, <1>11

\* A row whose columns are all there, and fit, is read back.
LEMMA RowRead ==
  ASSUME schema \in Schemas, NEW row \in Rows(schema), NEW d \in Seq(Byte), NEW slot,
         SlotOffset(d, slot) \in Nat, SlotOffset(d, slot) + RecordLength(schema) <= Len(d),
         Encodable(row), FitsColumns(row),
         \A c \in 1..Len(schema) : ColumnBytes(d, schema, SlotOffset(d, slot), row, c)
  PROVE  ReadRow(d, slot) = Inserted(row)
<1> DEFINE n == Len(schema)
<1>1. /\ DOMAIN row = 1..n /\ DOMAIN schema = 1..n /\ n \in Nat
      /\ \A i \in 1..n : row[i] \in Values /\ Accepts(schema[i], row[i]) /\ schema[i] \in Type
  BY RowColumns
<1>2. ASSUME NEW i \in 1..n
      PROVE  ReadColumn(d, schema[i], SlotOffset(d, slot) + ColumnOffset(schema, i)) = AsStored(schema[i], row[i])
  <2> DEFINE w == AsStored(schema[i], row[i])
             o == SlotOffset(d, slot) + ColumnOffset(schema, i)
  <2>1. row[i].ok /\ (row[i].class = "str" => row[i].len <= MaxStringLength)
    BY <1>1 DEF Encodable, FitsColumns
  <2>2. Width(w) <= LenOf(schema[i]) /\ Width(w) \in Nat \ {0}
    BY <1>1, <2>1, StoredValue
  <2>3. /\ ColumnOffset(schema, i) \in Nat /\ LenOf(schema[i]) \in Nat /\ RecordLength(schema) \in Nat
        /\ ColumnOffset(schema, i) + LenOf(schema[i]) <= RecordLength(schema)
    <3>1. i \in 1..(n + 1)
      BY <1>1
    <3>2. QED
      BY <3>1, OffsetSteps, ColumnsApart
  <2>4. o \in Nat /\ o + LenOf(schema[i]) <= Len(d)
    <3>1. Len(d) \in Nat
      BY SeqElements
    <3>2. QED
      BY <2>3, <3>1
  <2>5. \A k \in 1..Width(w) : d[o + k] = Bytes(w)[k]
    <3>1. \A k \in 1..Width(w) : k <= LenOf(schema[i])
      BY <2>2, <2>3
    <3>2. QED
      BY <3>1 DEF ColumnBytes
  <2>6. QED
    BY <1>1, <2>1, <2>2, <2>4, <2>5, ColumnRead
<1>3. ReadRow(d, slot) = [i \in 1..n |-> AsStored(schema[i], row[i])]
  BY <1>1, <1>2 DEF ReadRow
<1>4. QED
  BY <1>1, <1>3 DEF Inserted

------------------------------------------------------------------------------
(* The inductive invariant *)

\* The columns of an encodable row are on the page while no row inserted
\* since is too long for its columns.
ColumnsThere ==
  \A i \in 1..Len(stored) :
    Encodable(stored[i].row) /\ (\A j \in i..Len(stored) : FitsColumns(stored[j].row)) =>
      \A c \in 1..Len(schema) :
        ColumnBytes(data, schema, Start(i, RecordLength(schema)), stored[i].row, c)

\* A whole record begins with the first byte of a value; a string that was
\* written past its column has put later bytes of it there.
WholeBegins ==
  \A i \in 1..Len(stored) :
    stored[i].whole => data[Start(i, RecordLength(schema)) + 1].at <= 1

BytesInv ==
  /\ schema \in Schemas
  /\ stored \in Seq([row : Rows(schema), whole : BOOLEAN])
  /\ result \in [op : {"none", "stored", "failed", "full"}, size : Nat]
  /\ Directory(data, Len(stored), RecordLength(schema))
  /\ ColumnsThere
  /\ WholeBegins

\* An empty page.
LEMMA BytesInit ==
  ASSUME Init
  PROVE  BytesInv
<1>1. schema \in Schemas /\ stored = <<>> /\ result = [op |-> "none", size |-> 0]
  BY DEF Init
<1>2. Len(stored) = 0 /\ stored \in Seq([row : Rows(schema), whole : BOOLEAN])
  BY <1>1
<1>3. Directory(data, 0, RecordLength(schema))
  BY <1>1, ColumnsApart, EmptyDirectory DEF Init
<1>4. \A i \in 1..0 : FALSE
  OBVIOUS
<1>5. QED
  BY <1>1, <1>2, <1>3, <1>4 DEF BytesInv, ColumnsThere, WholeBegins

\* Where the records of a page are.
LEMMA RecordPlaces ==
  ASSUME NEW len \in Nat \ {0}, NEW n, NEW d, Directory(d, n, len)
  PROVE  /\ n \in Nat /\ d \in Seq(Byte) /\ Len(d) \in Nat /\ PageSize <= Len(d) /\ PageSize \in Nat
         /\ Start(n, len) \in Nat \ {0}
         /\ \A i \in 1..n : /\ Start(i, len) \in Nat \ {0} /\ Start(n, len) <= Start(i, len)
                            /\ Start(i, len) + len <= PageSize /\ SlotOffset(d, i) = Start(i, len)
<1>1. n \in Nat /\ d \in Seq(Byte) /\ Len(d) >= PageSize /\ SlotPos(n + 1) <= Start(n, len)
      /\ \A i \in 1..n : SlotOffset(d, i) = Start(i, len)
  BY DEF Directory
<1>2. PageSize \in Nat /\ SlotDirStart \in Nat \ {0}
  BY HeaderAssumption
<1>3. Len(d) \in Nat
  BY <1>1, SeqElements
<1>4. Start(n, len) \in Nat \ {0}
  <2>1. n + 1 \in Nat \ {0}
    BY <1>1
  <2>2. SlotPos(n + 1) \in Nat /\ SlotDirStart <= SlotPos(n + 1) /\ Start(n, len) \in Int
    BY <1>1, <2>1, EntriesApart, RecordsApart
  <2>3. QED
    BY <1>1, <1>2, <2>2
<1>5. ASSUME NEW i \in 1..n
      PROVE  /\ Start(i, len) \in Nat \ {0} /\ Start(n, len) <= Start(i, len)
             /\ Start(i, len) + len <= PageSize
  <2>1. i \in Nat /\ 0 < i /\ Start(i, len) \in Int
    BY RecordsApart
  <2>2. Start(i, len) + len <= PageSize
    BY <2>1, RecordsApart
  <2>3. Start(n, len) <= Start(i, len)
    <3>1. CASE i = n
      BY <1>4, <3>1
    <3>2. CASE i # n
      <4>1. i < n
        BY <1>1, <3>2
      <4>2. Start(n, len) + len <= Start(i, len)
        BY <1>1, <2>1, <4>1, RecordsApart
      <4>3. QED
        BY <1>4, <2>1, <4>2
    <3>3. QED
      BY <3>1, <3>2
  <2>4. QED
    BY <1>4, <2>1, <2>2, <2>3
<1>6. QED
  BY <1>1, <1>2, <1>3, <1>4, <1>5

\* What insert_record does to the bytes: the new record is written below the
\* others, and bytes of a string that is too long run into those above it.
LEMMA InsertWrites ==
  ASSUME BytesInv, NEW row \in Rows(schema), InsertRecord(row)
  PROVE  LET len == RecordLength(schema)
             n == Len(stored)
         IN  /\ Directory(data', n + 1, len)
             /\ \E e \in Start(n, len)..(Start(n, len) + Longest) :
                  /\ FitsColumns(row) => e = Start(n, len)
                  /\ e <= Len(data')
                  /\ \A k \in (e + 1)..Len(data) : data'[k] = data[k]
                  /\ \A k \in (Start(n, len) + 1)..e : data'[k].at > 1
             /\ Encodable(row) =>
                  \A c \in 1..Len(schema) : ColumnBytes(data', schema, Start(n + 1, len), row, c)
             /\ Len(data') >= Len(data) /\ FreeSlotOf(data) = n + 1
<1> DEFINE len == RecordLength(schema)
           n == Len(stored)
           a == Allocated(len, data)
           offset == Start(n + 1, len)
<1>1. schema \in Schemas /\ Directory(data, n, len) /\ len \in Nat \ {0}
  BY ColumnsApart DEF BytesInv
<1>2. Fits(len) /\ data' = WriteRow(row, freeEnd - len, a)
  BY DEF InsertRecord
<1> HIDE DEF len, n, a
<1>3. /\ n \in Nat /\ freeEnd = Start(n, len) /\ offset = Start(n, len) - len
      /\ SlotPos(n + 2) <= offset /\ offset \in Nat /\ Start(n, len) <= PageSize
  BY <1>1, <1>2, RoomForRecord
<1>4. /\ FreeSlotOf(data) = n + 1 /\ Directory(a, n + 1, len) /\ Len(a) = Len(data)
      /\ \A k \in 1..Len(data) : k > offset => a[k] = data[k]
  BY <1>1, <1>2, AllocatedDirectory DEF a
<1>5. a \in Seq(Byte) /\ Len(a) >= PageSize /\ Len(a) \in Nat /\ PageSize \in Nat
  BY <1>1, <1>4, RecordPlaces, HeaderAssumption DEF Directory
<1>6. Start(n, len) \in Nat /\ offset + len = Start(n, len)
  BY <1>1, <1>3, RecordPlaces
<1> HIDE DEF offset
<1>7. Written(data', a, schema, offset, row, Len(schema))
  <2>1. offset + RecordLength(schema) <= Len(a) /\ freeEnd - len = offset
    BY <1>3, <1>5, <1>6 DEF len
  <2>2. QED
    BY <1>1, <1>2, <1>3, <1>5, <2>1, RowWritten
<1>8. data' \in Seq(Byte) /\ Len(data') >= Len(a) /\ \A k \in 1..offset : data'[k] = a[k]
  BY <1>7 DEF Written
<1>9. Len(data') \in Nat
  BY <1>8, SeqElements
<1>10. Directory(data', n + 1, len)
  <2>1. n + 1 \in Nat /\ (n + 1) + 1 = n + 2 /\ Len(data') >= PageSize
    BY <1>3, <1>5, <1>8, <1>9
  <2>2. SlotPos(n + 2) \in Nat
    <3>1. n + 2 \in Nat \ {0}
      BY <1>3
    <3>2. QED
      BY <3>1, EntriesApart
  <2>3. \A k \in 1..SlotPos((n + 1) + 1) : k \in 1..offset
    BY <1>3, <2>1, <2>2
  <2>4. QED
    BY <1>1, <1>4, <1>8, <2>1, <2>3, DirectoryStays
<1>11. \E e \in Start(n, len)..(Start(n, len) + Longest) :
           /\ FitsColumns(row) => e = Start(n, len)
           /\ e <= Len(data')
           /\ \A k \in (e + 1)..Len(data) : data'[k] = data[k]
           /\ \A k \in (Start(n, len) + 1)..e : data'[k].at > 1
  <2>1. offset + RecordLength(schema) = Start(n, len)
    BY <1>6 DEF len
  <2>2. PICK e \in Start(n, len)..(Start(n, len) + Longest) :
           /\ FitsColumns(row) => e = Start(n, len)
           /\ e <= Len(data')
           /\ \A k \in (e + 1)..Len(a) : data'[k] = a[k]
           /\ \A k \in (Start(n, len) + 1)..e : data'[k].at > 1
    BY <1>7, <2>1 DEF Written
  <2>3. \A k \in (e + 1)..Len(data) : k \in 1..Len(data) /\ k > offset /\ k \in (e + 1)..Len(a)
    <3>1. e \in Nat /\ offset <= e
      BY <1>1, <1>3, <1>6, LongestString
    <3>2. QED
      BY <1>3, <1>4, <3>1
  <2>4. \A k \in (e + 1)..Len(data) : data'[k] = data[k]
    BY <1>4, <2>2, <2>3
  <2>5. QED
    BY <2>2, <2>4
<1>12. Encodable(row) => \A c \in 1..Len(schema) : ColumnBytes(data', schema, offset, row, c)
  BY <1>7 DEF Written
<1>13. QED
  BY <1>4, <1>8, <1>10, <1>11, <1>12 DEF len, n, offset

\* What insert_record does to the records: one is added, and those that begin
\* before e are no longer whole.
LEMMA InsertOutcome ==
  ASSUME BytesInv, NEW row \in Rows(schema), InsertRecord(row)
  PROVE  LET len == RecordLength(schema)
             n == Len(stored)
         IN  \E e \in Start(n, len)..(Start(n, len) + Longest), w \in BOOLEAN :
               /\ FitsColumns(row) => e = Start(n, len)
               /\ \A k \in (e + 1)..Len(data) : data'[k] = data[k]
               /\ stored' \in Seq([row : Rows(schema), whole : BOOLEAN]) /\ Len(stored') = n + 1
               /\ stored'[n + 1] = [row |-> row, whole |-> w]
               /\ w => Encodable(row)
               /\ Encodable(row) /\ FitsColumns(row) => w
               /\ \A i \in 1..n : /\ stored'[i].row = stored[i].row
                                  /\ stored'[i].whole = (stored[i].whole /\ Start(i, len) >= e)
<1> DEFINE len == RecordLength(schema)
           n == Len(stored)
           Item == [row : Rows(schema), whole : BOOLEAN]
           intact(i) == stored[i].whole /\ Extent(data', i) = Extent(data, i)
           kept == [i \in DOMAIN stored |-> [stored[i] EXCEPT !.whole = intact(i)]]
           w == Encodable(row) /\ ReadRow(data', FreeSlotOf(data)) = Inserted(row)
<1>1. /\ schema \in Schemas /\ stored \in Seq(Item) /\ Directory(data, n, len) /\ len \in Nat \ {0}
      /\ WholeBegins
  BY ColumnsApart DEF BytesInv
<1>2. stored' = Append(kept, [row |-> row, whole |-> w])
  BY DEF InsertRecord
<1>3. n \in Nat /\ DOMAIN stored = 1..n /\ \A i \in 1..n : stored[i] \in Item
  BY <1>1, SeqElements
<1>4. \A i \in 1..n : [stored[i] EXCEPT !.whole = intact(i)] = [row |-> stored[i].row, whole |-> intact(i)]
  BY <1>3
<1>5. kept \in Seq(Item) /\ Len(kept) = n /\ \A i \in 1..n : kept[i] = [row |-> stored[i].row, whole |-> intact(i)]
  <2>1. kept \in [1..n -> Item]
    BY <1>3, <1>4
  <2>2. kept \in Seq(Item) /\ Len(kept) = n
    BY <1>3, <2>1, FunctionIsSeq
  <2>3. QED
    BY <1>3, <1>4, <2>2
<1>6. w \in BOOLEAN /\ [row |-> row, whole |-> w] \in Item
  OBVIOUS
<1>7. /\ Directory(data', n + 1, len)
      /\ \E e \in Start(n, len)..(Start(n, len) + Longest) :
           /\ FitsColumns(row) => e = Start(n, len)
           /\ e <= Len(data')
           /\ \A k \in (e + 1)..Len(data) : data'[k] = data[k]
           /\ \A k \in (Start(n, len) + 1)..e : data'[k].at > 1
      /\ Encodable(row) =>
           \A c \in 1..Len(schema) : ColumnBytes(data', schema, Start(n + 1, len), row, c)
      /\ Len(data') >= Len(data) /\ FreeSlotOf(data) = n + 1
  BY InsertWrites
<1> HIDE DEF len, n, intact, kept, w, Item
<1>8. PICK e \in Start(n, len)..(Start(n, len) + Longest) :
           /\ FitsColumns(row) => e = Start(n, len)
           /\ e <= Len(data')
           /\ \A k \in (e + 1)..Len(data) : data'[k] = data[k]
           /\ \A k \in (Start(n, len) + 1)..e : data'[k].at > 1
  BY <1>7
<1>9. /\ data \in Seq(Byte) /\ Len(data) \in Nat /\ PageSize <= Len(data) /\ PageSize \in Nat
      /\ Start(n, len) \in Nat \ {0}
      /\ \A i \in 1..n : /\ Start(i, len) \in Nat \ {0} /\ Start(n, len) <= Start(i, len)
                         /\ Start(i, len) + len <= PageSize /\ SlotOffset(data, i) = Start(i, len)
  BY <1>1, RecordPlaces
<1>10. /\ data' \in Seq(Byte) /\ Len(data') \in Nat
       /\ \A i \in 1..(n + 1) : /\ SlotOffset(data', i) = Start(i, len)
                                /\ Start(i, len) \in Nat /\ Start(i, len) + len <= Len(data')
  <2>1. /\ data' \in Seq(Byte) /\ Len(data') \in Nat /\ PageSize <= Len(data')
        /\ \A i \in 1..(n + 1) : /\ Start(i, len) \in Nat \ {0} /\ Start(i, len) + len <= PageSize
                                 /\ SlotOffset(data', i) = Start(i, len)
    BY <1>1, <1>7, RecordPlaces
  <2>2. \A i \in 1..(n + 1) : Start(i, len) + len <= Len(data')
    BY <1>1, <1>9, <2>1
  <2>3. QED
    BY <2>1, <2>2
<1>11. e \in Nat /\ Start(n, len) <= e
  BY <1>8, <1>9, LongestString
<1>12. ASSUME NEW i \in 1..n
       PROVE  intact(i) = (stored[i].whole /\ Start(i, len) >= e)
  <2> DEFINE off == Start(i, len)
             x == Extent(data, i)
             y == Extent(data', i)
             D == 1..len
  <2>1. /\ off \in Nat /\ off + len <= Len(data) /\ SlotOffset(data, i) = off
        /\ off + len <= Len(data') /\ SlotOffset(data', i) = off /\ Start(n, len) <= off /\ len \in Nat
    <3>1. i \in 1..(n + 1)
      BY <1>3 DEF n
    <3>2. QED
      BY <1>1, <1>9, <1>10, <3>1
  <2>2. x = Slice(data, off, len) /\ y = Slice(data', off, len)
    BY <2>1 DEF Extent, len
  <2> HIDE DEF x, y, off
  <2>3. x \in [1..len -> Byte] /\ \A k \in 1..len : x[k] = data[off + k]
    <3>1. /\ Slice(data, off, len) \in [1..len -> Byte]
          /\ \A k \in 1..len : Slice(data, off, len)[k] = data[off + k]
      BY <1>9, <2>1, SliceOf
    <3>2. QED
      BY <2>2, <3>1
  <2>4. y \in [1..len -> Byte] /\ \A k \in 1..len : y[k] = data'[off + k]
    <3>1. /\ Slice(data', off, len) \in [1..len -> Byte]
          /\ \A k \in 1..len : Slice(data', off, len)[k] = data'[off + k]
      BY <1>10, <2>1, SliceOf
    <3>2. QED
      BY <2>2, <3>1
  <2>5. CASE off >= e
    <3>1. \A k \in 1..len : off + k \in (e + 1)..Len(data)
      BY <1>9, <1>11, <2>1, <2>5
    <3>2. \A k \in D : x[k] = y[k]
      BY <1>8, <2>3, <2>4, <3>1
    <3>3. x \in [D -> Byte] /\ y \in [D -> Byte]
      BY <2>3, <2>4
    <3> HIDE DEF D
    <3>4. x = y
      BY <3>2, <3>3, SameFunction
    <3>5. QED
      BY <2>5, <3>4 DEF intact, x, y, off
  <2>6. CASE ~(off >= e)
    <3>1. 1 \in 1..len /\ off + 1 \in (Start(n, len) + 1)..e
      BY <1>1, <1>9, <1>11, <2>1, <2>6
    <3>2. data'[off + 1].at > 1 /\ x[1] = data[off + 1] /\ y[1] = data'[off + 1]
      BY <1>8, <2>3, <2>4, <3>1
    <3>3. stored[i].whole => data[off + 1].at <= 1
      BY <1>1 DEF WholeBegins, off, len, n
    <3>4. stored[i].whole => x # y
      <4>1. off + 1 \in 1..Len(data) /\ off + 1 \in 1..Len(data')
        BY <1>1, <1>9, <1>10, <2>1
      <4>2. data[off + 1] \in Byte /\ data'[off + 1] \in Byte
        BY <1>9, <1>10, <4>1, SeqElements
      <4>3. data[off + 1].at \in Nat /\ data'[off + 1].at \in Nat
        BY <4>2 DEF Byte
      <4>4. QED
        BY <3>2, <3>3, <4>3
    <3>5. stored[i].whole \in BOOLEAN
      BY <1>3 DEF Item, n
    <3>6. QED
      BY <2>6, <3>4, <3>5 DEF intact, x, y, off
  <2>7. QED
    BY <2>5, <2>6
<1>13. ASSUME Encodable(row), FitsColumns(row) PROVE w
  <2>1. n + 1 \in 1..(n + 1)
    BY <1>3 DEF n
  <2>2. /\ SlotOffset(data', n + 1) = Start(n + 1, len) /\ Start(n + 1, len) \in Nat
        /\ Start(n + 1, len) + len <= Len(data')
    BY <1>10, <2>1
  <2>3. \A c \in 1..Len(schema) : ColumnBytes(data', schema, Start(n + 1, len), row, c)
    BY <1>7, <1>13
  <2>4. ReadRow(data', n + 1) = Inserted(row)
    BY <1>1, <1>10, <1>13, <2>2, <2>3, RowRead DEF len
  <2>5. QED
    BY <1>7, <1>13, <2>4 DEF w
<1>14. /\ stored' \in Seq(Item) /\ Len(stored') = n + 1 /\ stored'[n + 1] = [row |-> row, whole |-> w]
       /\ \A i \in 1..n : stored'[i] = kept[i]
  BY <1>2, <1>5, <1>6, SeqAppend DEF n
<1>15. \A i \in 1..n : /\ stored'[i].row = stored[i].row
                       /\ stored'[i].whole = (stored[i].whole /\ Start(i, len) >= e)
  <2>1. TAKE i \in 1..n
  <2>2. stored'[i] = [row |-> stored[i].row, whole |-> intact(i)]
    BY <1>5, <1>14
  <2>3. QED
    BY <1>12, <2>2
<1>16. w => Encodable(row)
  BY DEF w
<1>17. QED
  BY <1>6, <1>8, <1>13, <1>14, <1>15, <1>16 DEF len, n, Item

\* The bytes at the start and in the columns of a record, when all of its
\* bytes are the same on another page.
LEMMA RecordStays ==
  ASSUME NEW s \in Schemas, NEW row \in Rows(s), NEW d, NEW e, NEW off \in Nat,
         \A k \in (off + 1)..(off + RecordLength(s)) : e[k] = d[k]
  PROVE  /\ e[off + 1] = d[off + 1]
         /\ \A c \in 1..Len(s) : ColumnBytes(d, s, off, row, c) => ColumnBytes(e, s, off, row, c)
<1>1. RecordLength(s) \in Nat \ {0}
  BY ColumnsApart
<1>2. off + 1 \in (off + 1)..(off + RecordLength(s))
  BY <1>1
<1>3. ASSUME NEW c \in 1..Len(s), NEW k \in 1..Width(AsStored(s[c], row[c])), k <= LenOf(s[c])
      PROVE  off + ColumnOffset(s, c) + k \in (off + 1)..(off + RecordLength(s))
  <2>1. Len(s) \in Nat /\ c \in 1..(Len(s) + 1)
    BY OffsetSteps
  <2>2. /\ ColumnOffset(s, c) \in Nat /\ LenOf(s[c]) \in Nat
        /\ ColumnOffset(s, c) + LenOf(s[c]) <= RecordLength(s)
    BY <2>1, OffsetSteps, ColumnsApart
  <2>3. k \in Nat \ {0}
    OBVIOUS
  <2>4. QED
    BY <1>1, <1>3, <2>2, <2>3
<1>4. QED
  BY <1>2, <1>3 DEF ColumnBytes

\* A record that is added.
LEMMA InsertPreserves ==
  ASSUME BytesInv, NEW row \in Rows(schema), InsertRecord(row)
  PROVE  BytesInv'
<1> DEFINE len == RecordLength(schema)
           n == Len(stored)
<1>1. /\ schema \in Schemas /\ Directory(data, n, len) /\ len \in Nat \ {0}
      /\ stored \in Seq([row : Rows(schema), whole : BOOLEAN])
      /\ ColumnsThere /\ WholeBegins
  BY ColumnsApart DEF BytesInv
<1>2. schema' = schema /\ result' \in [op : {"none", "stored", "failed", "full"}, size : Nat]
  <2>1. schema' = schema /\ result' = [op |-> IF Encodable(row) THEN "stored" ELSE "failed", size |-> len]
    BY DEF InsertRecord
  <2>2. len \in Nat
    BY <1>1
  <2> HIDE DEF len
  <2>3. QED
    BY <2>1, <2>2
<1>3. PICK e \in Start(n, len)..(Start(n, len) + Longest), w \in BOOLEAN :
               /\ FitsColumns(row) => e = Start(n, len)
               /\ \A k \in (e + 1)..Len(data) : data'[k] = data[k]
               /\ stored' \in Seq([row : Rows(schema), whole : BOOLEAN]) /\ Len(stored') = n + 1
               /\ stored'[n + 1] = [row |-> row, whole |-> w]
               /\ w => Encodable(row)
               /\ Encodable(row) /\ FitsColumns(row) => w
               /\ \A i \in 1..n : /\ stored'[i].row = stored[i].row
                                  /\ stored'[i].whole = (stored[i].whole /\ Start(i, len) >= e)
  BY InsertOutcome
<1>4. /\ Directory(data', n + 1, len)
      /\ Encodable(row) =>
           \A c \in 1..Len(schema) : ColumnBytes(data', schema, Start(n + 1, len), row, c)
  BY InsertWrites
<1>5. /\ n \in Nat /\ Len(data) \in Nat /\ PageSize <= Len(data) /\ PageSize \in Nat /\ Start(n, len) \in Nat
      /\ \A i \in 1..n : /\ Start(i, len) \in Nat /\ Start(n, len) <= Start(i, len)
                         /\ Start(i, len) + len <= PageSize
  BY <1>1, RecordPlaces
<1>6. \A i \in 1..n : stored[i] \in [row : Rows(schema), whole : BOOLEAN]
  BY <1>1, SeqElements
<1> HIDE DEF len, n
<1>7. e \in Nat /\ Start(n, len) <= e
  BY <1>3, <1>5, LongestString
<1>8. ASSUME NEW i \in 1..n, Start(i, len) >= e
      PROVE  /\ data'[Start(i, len) + 1] = data[Start(i, len) + 1]
             /\ \A c \in 1..Len(schema) : ColumnBytes(data, schema, Start(i, len), stored[i].row, c) =>
                                            ColumnBytes(data', schema, Start(i, len), stored[i].row, c)
  <2>1. Start(i, len) \in Nat /\ Start(i, len) + len <= PageSize /\ stored[i].row \in Rows(schema)
    BY <1>5, <1>6
  <2>2. \A k \in (Start(i, len) + 1)..(Start(i, len) + len) : k \in (e + 1)..Len(data)
    BY <1>1, <1>5, <1>7, <1>8, <2>1
  <2>3. \A k \in (Start(i, len) + 1)..(Start(i, len) + RecordLength(schema)) : data'[k] = data[k]
    BY <1>3, <2>2 DEF len
  <2>4. QED
    BY <1>1, <2>1, <2>3, RecordStays
<1>9. ASSUME NEW i \in 1..(n + 1), Encodable(stored'[i].row),
             \A j \in i..(n + 1) : FitsColumns(stored'[j].row),
             NEW c \in 1..Len(schema)
      PROVE  ColumnBytes(data', schema, Start(i, len), stored'[i].row, c)
  <2>1. CASE i = n + 1
    BY <1>3, <1>4, <1>9, <2>1
  <2>2. CASE i # n + 1
    <3>1. i \in 1..n /\ n + 1 \in i..(n + 1) /\ \A j \in i..n : j \in i..(n + 1) /\ j \in 1..n
      BY <1>5, <2>2
    <3>2. FitsColumns(row) /\ e = Start(n, len)
      BY <1>3, <1>9, <3>1
    <3>3. Encodable(stored[i].row) /\ \A j \in i..n : FitsColumns(stored[j].row)
      BY <1>3, <1>9, <3>1
    <3>4. ColumnBytes(data, schema, Start(i, len), stored[i].row, c)
      BY <1>1, <3>1, <3>3 DEF ColumnsThere, len, n
    <3>5. Start(i, len) >= e
      BY <1>5, <3>1, <3>2
    <3>6. QED
      BY <1>3, <1>8, <3>1, <3>4, <3>5
  <2>3. QED
    BY <2>1, <2>2
<1>10. ASSUME NEW i \in 1..(n + 1), stored'[i].whole
       PROVE  data'[Start(i, len) + 1].at <= 1
  <2>1. CASE i = n + 1
    <3>1. Encodable(row)
      BY <1>3, <1>10, <2>1
    <3>2. 1 \in 1..Len(schema) /\ row[1] \in Values /\ Accepts(schema[1], row[1]) /\ schema[1] \in Type
      <4>1. Len(schema) \in Nat \ {0}
        BY <1>1, OffsetSteps
      <4>2. QED
        BY <1>1, <4>1, RowColumns
    <3> DEFINE v == AsStored(schema[1], row[1])
    <3>3. v \in Value /\ Width(v) \in Nat \ {0} /\ LenOf(schema[1]) \in Nat \ {0}
      BY <3>2, StoredValue, ColumnLength
    <3>4. 1 \in 1..Width(v) /\ 1 <= LenOf(schema[1])
      BY <3>3
    <3>5. data'[Start(n + 1, len) + ColumnOffset(schema, 1) + 1] = Bytes(v)[1]
      BY <1>4, <3>1, <3>2, <3>4 DEF ColumnBytes
    <3>6. ColumnOffset(schema, 1) = 0 /\ Start(n + 1, len) \in Int
      <4>1. n + 1 \in Nat
        BY <1>5
      <4>2. QED
        BY <1>1, <4>1, OffsetSteps, RecordsApart
    <3>7. Bytes(v)[1].at <= 1
      <4>1. Bytes(v)[1] = IF v.id = 0 THEN ZeroByte ELSE [of |-> v, at |-> 1]
        BY <3>3, <3>4, BytesOf
      <4>2. ZeroByte.at = 0
        BY DEF ZeroByte
      <4>3. CASE v.id = 0
        BY <4>1, <4>2, <4>3
      <4>4. CASE v.id # 0
        <5>1. Bytes(v)[1].at = 1
          BY <4>1, <4>4
        <5>2. QED
          BY <5>1
      <4>5. QED
        BY <4>3, <4>4
    <3>8. Start(n + 1, len) + ColumnOffset(schema, 1) + 1 = Start(n + 1, len) + 1
      BY <3>6
    <3>9. QED
      BY <2>1, <3>5, <3>7, <3>8
  <2>2. CASE i # n + 1
    <3>1. i \in 1..n
      BY <1>5, <2>2
    <3>2. stored[i].whole /\ Start(i, len) >= e
      BY <1>3, <1>10, <3>1
    <3>3. data[Start(i, len) + 1].at <= 1
      BY <1>1, <3>1, <3>2 DEF WholeBegins, len, n
    <3>4. QED
      BY <1>8, <3>1, <3>2, <3>3
  <2>3. QED
    BY <2>1, <2>2
<1>11. ColumnsThere' /\ WholeBegins'
  BY <1>2, <1>3, <1>9, <1>10 DEF ColumnsThere, WholeBegins, len
<1>12. QED
  BY <1>1, <1>2, <1>3, <1>4, <1>11 DEF BytesInv, len

\* A page that is reloaded.
LEMMA ReloadPreserves ==
  ASSUME BytesInv, PageReloaded
  PROVE  BytesInv'
<1> DEFINE len == RecordLength(schema)
           n == Len(stored)
<1>1. /\ schema \in Schemas /\ Directory(data, n, len) /\ len \in Nat \ {0}
      /\ stored \in Seq([row : Rows(schema), whole : BOOLEAN])
      /\ ColumnsThere /\ WholeBegins
  BY ColumnsApart DEF BytesInv
<1>2. data' = SubSeq(data, 1, PageSize) /\ schema' = schema /\ stored' = stored /\ result' = result
  BY DEF PageReloaded
<1>3. /\ n \in Nat /\ data \in Seq(Byte) /\ Len(data) \in Nat /\ PageSize <= Len(data) /\ PageSize \in Nat
      /\ \A i \in 1..n : Start(i, len) \in Nat /\ Start(i, len) + len <= PageSize
      /\ Start(n, len) \in Nat
  BY <1>1, RecordPlaces
<1>4. \A i \in 1..n : stored[i] \in [row : Rows(schema), whole : BOOLEAN]
  BY <1>1, SeqElements
<1>5. data' \in Seq(Byte) /\ Len(data') = PageSize /\ \A k \in 1..PageSize : data'[k] = data[k]
  <2>1. PageSize \in 0..Len(data)
    BY <1>3
  <2>2. /\ SubSeq(data, 1, PageSize) \in Seq(Byte) /\ DOMAIN SubSeq(data, 1, PageSize) = 1..PageSize
        /\ \A k \in 1..PageSize : SubSeq(data, 1, PageSize)[k] = data[k]
    BY <1>3, <2>1, SeqPrefix
  <2>3. Len(SubSeq(data, 1, PageSize)) = PageSize
    BY <1>3, <2>2
  <2>4. QED
    BY <1>2, <2>2, <2>3
<1> HIDE DEF len, n
<1>6. Directory(data', n, len)
  <2>1. SlotPos(n + 1) <= Start(n, len) /\ Start(n, len) <= PageSize /\ SlotPos(n + 1) \in Nat
    <3>1. n + 1 \in Nat \ {0}
      BY <1>3
    <3>2. SlotPos(n + 1) \in Nat
      BY <3>1, EntriesApart
    <3>3. Start(n, len) <= PageSize
      <4>1. CASE n = 0
        BY <1>1, <1>3, <4>1, RecordsApart
      <4>2. CASE n # 0
        <5>1. n \in 1..n
          BY <1>3, <4>2
        <5>2. QED
          BY <1>1, <1>3, <5>1
      <4>3. QED
        BY <4>1, <4>2
    <3>4. QED
      BY <1>1, <3>2, <3>3 DEF Directory
  <2>2. \A k \in 1..SlotPos(n + 1) : k \in 1..PageSize
    BY <1>3, <2>1
  <2>3. Len(data') >= PageSize
    BY <1>3, <1>5
  <2>4. QED
    BY <1>1, <1>3, <1>5, <2>2, <2>3, DirectoryStays
<1>7. ASSUME NEW i \in 1..n
      PROVE  /\ data'[Start(i, len) + 1] = data[Start(i, len) + 1]
             /\ \A c \in 1..Len(schema) : ColumnBytes(data, schema, Start(i, len), stored[i].row, c) =>
                                            ColumnBytes(data', schema, Start(i, len), stored[i].row, c)
  <2>1. Start(i, len) \in Nat /\ Start(i, len) + len <= PageSize /\ stored[i].row \in Rows(schema)
    BY <1>3, <1>4
  <2>2. \A k \in (Start(i, len) + 1)..(Start(i, len) + len) : k \in 1..PageSize
    BY <1>1, <1>3, <2>1
  <2>3. \A k \in (Start(i, len) + 1)..(Start(i, len) + RecordLength(schema)) : data'[k] = data[k]
    BY <1>5, <2>2 DEF len
  <2>4. QED
    BY <1>1, <2>1, <2>3, RecordStays
<1>8. ColumnsThere' /\ WholeBegins'
  BY <1>1, <1>2, <1>7 DEF ColumnsThere, WholeBegins, len, n
<1>9. QED
  BY <1>1, <1>2, <1>6, <1>8 DEF BytesInv, len, n

\* BytesInv is inductive.
LEMMA BytesStep ==
  ASSUME BytesInv, [Next]_vars
  PROVE  BytesInv'
<1>1. ASSUME NEW row \in Rows(schema), InsertRecord(row) PROVE BytesInv'
  BY <1>1, InsertPreserves
<1>2. CASE RecordRefused
  <2>1. /\ data' = data /\ schema' = schema /\ stored' = stored
        /\ result' = [op |-> "full", size |-> RecordLength(schema)]
    BY <1>2 DEF RecordRefused
  <2>2. RecordLength(schema) \in Nat
    BY ColumnsApart DEF BytesInv
  <2>3. QED
    BY <2>1, <2>2 DEF BytesInv, ColumnsThere, WholeBegins
<1>3. CASE PageReloaded
  BY <1>3, ReloadPreserves
<1>4. CASE UNCHANGED vars
  BY <1>4 DEF vars, BytesInv, ColumnsThere, WholeBegins
<1>5. QED
  BY <1>1, <1>2, <1>3, <1>4 DEF Next

\* What the invariant says of the properties the runs check.
LEMMA BytesImply ==
  ASSUME BytesInv
  PROVE  TypeOK /\ RowsReadBack
<1> DEFINE len == RecordLength(schema)
           n == Len(stored)
<1>1. /\ schema \in Schemas /\ Directory(data, n, len) /\ len \in Nat \ {0}
      /\ stored \in Seq([row : Rows(schema), whole : BOOLEAN]) /\ ColumnsThere
  BY ColumnsApart DEF BytesInv
<1>2. TypeOK
  BY DEF BytesInv, TypeOK, Directory
<1>3. /\ data \in Seq(Byte) /\ Len(data) \in Nat /\ PageSize <= Len(data) /\ PageSize \in Nat
      /\ \A i \in 1..n : /\ Start(i, len) \in Nat /\ Start(i, len) + len <= PageSize
                         /\ SlotOffset(data, i) = Start(i, len)
  BY <1>1, RecordPlaces
<1>4. n \in Nat /\ DOMAIN stored = 1..n /\ \A i \in 1..n : stored[i] \in [row : Rows(schema), whole : BOOLEAN]
  BY <1>1, SeqElements
<1>5. ASSUME NEW i \in 1..n, Encodable(stored[i].row), \A j \in i..n : FitsColumns(stored[j].row)
      PROVE  ReadRow(data, i) = Inserted(stored[i].row)
  <2>1. stored[i].row \in Rows(schema) /\ i \in i..n
    BY <1>4
  <2>2. \A c \in 1..Len(schema) : ColumnBytes(data, schema, Start(i, len), stored[i].row, c)
    BY <1>1, <1>5 DEF ColumnsThere
  <2>3. SlotOffset(data, i) \in Nat /\ SlotOffset(data, i) + RecordLength(schema) <= Len(data)
    BY <1>1, <1>3
  <2>4. FitsColumns(stored[i].row)
    BY <1>5, <2>1
  <2>5. QED
    BY <1>1, <1>3, <1>5, <2>1, <2>2, <2>3, <2>4, RowRead
<1>6. QED
  BY <1>2, <1>4, <1>5 DEF RowsReadBack

\* The page stays well-formed: its header counts the rows it took, and it is
\* never shorter than a page.
THEOREM BytesTypeOK == Spec => []TypeOK
<1>1. Init => BytesInv
  BY BytesInit
<1>2. BytesInv /\ [Next]_vars => BytesInv'
  BY BytesStep
<1>3. BytesInv => TypeOK
  BY BytesImply
<1>4. QED
  BY <1>1, <1>2, <1>3, PTL DEF Spec

\* What insert_record was given is what get_record returns, for every schema,
\* page size and string length, as long as no string is too long.
THEOREM RowsAreReadBack == Spec => []RowsReadBack
<1>1. Init => BytesInv
  BY BytesInit
<1>2. BytesInv /\ [Next]_vars => BytesInv'
  BY BytesStep
<1>3. BytesInv => RowsReadBack
  BY BytesImply
<1>4. QED
  BY <1>1, <1>2, <1>3, PTL DEF Spec

------------------------------------------------------------------------------
(* The bytes implement module SlottedPage *)

\* The slots of a page, as SlottedPage has them.
LEMMA SlotsOf ==
  ASSUME BytesInv
  PROVE  LET len == RecordLength(schema)
             n == Len(stored)
         IN  /\ n \in Nat /\ slots = [i \in 1..n |-> [offset |-> Start(i, len), size |-> len, whole |-> stored[i].whole]]
             /\ freeStart = SlotPos(n + 1) /\ freeEnd = Start(n, len)
<1> DEFINE len == RecordLength(schema)
           n == Len(stored)
<1>1. Directory(data, n, len)
  BY DEF BytesInv
<1>2. /\ n \in Nat /\ NumSlots(data) = n /\ freeStart = SlotPos(n + 1) /\ freeEnd = Start(n, len)
      /\ \A i \in 1..n : SlotOffset(data, i) = Start(i, len)
  BY <1>1 DEF Directory, freeStart, freeEnd
<1>3. QED
  BY <1>2 DEF slots

\* A record that is inserted, completely or not, is one in SlottedPage.
LEMMA InsertImplements ==
  ASSUME BytesInv, NEW row \in Rows(schema), InsertRecord(row)
  PROVE  Layout!Next
<1> DEFINE len == RecordLength(schema)
           n == Len(stored)
<1>1. /\ schema \in Schemas /\ Directory(data, n, len) /\ len \in Nat \ {0}
  BY ColumnsApart DEF BytesInv
<1>2. PICK e \in Start(n, len)..(Start(n, len) + Longest), w \in BOOLEAN :
               /\ FitsColumns(row) => e = Start(n, len)
               /\ \A k \in (e + 1)..Len(data) : data'[k] = data[k]
               /\ stored' \in Seq([row : Rows(schema), whole : BOOLEAN]) /\ Len(stored') = n + 1
               /\ stored'[n + 1] = [row |-> row, whole |-> w]
               /\ w => Encodable(row)
               /\ Encodable(row) /\ FitsColumns(row) => w
               /\ \A i \in 1..n : /\ stored'[i].row = stored[i].row
                                  /\ stored'[i].whole = (stored[i].whole /\ Start(i, len) >= e)
  BY InsertOutcome
<1> DEFINE old == [i \in 1..n |-> [offset |-> Start(i, len), size |-> len, whole |-> stored[i].whole]]
           new == [i \in 1..(n + 1) |-> [offset |-> Start(i, len), size |-> len, whole |-> stored'[i].whole]]
           extra == e - Start(n, len)
           others == [i \in 1..n |-> [offset |-> Start(i, len), size |-> len,
                                      whole |-> stored[i].whole /\ Start(i, len) >= e]]
           record == [offset |-> Start(n + 1, len), size |-> len, whole |-> w]
<1>3. n \in Nat /\ slots = old /\ freeStart = SlotPos(n + 1) /\ freeEnd = Start(n, len)
  BY SlotsOf
<1>4. schema' = schema /\ Fits(len) /\ result' = [op |-> IF Encodable(row) THEN "stored" ELSE "failed", size |-> len]
  BY DEF InsertRecord
<1>5. slots' = new /\ freeStart' = SlotPos((n + 1) + 1) /\ freeEnd' = Start(n + 1, len)
  <2>1. Directory(data', n + 1, len)
    BY InsertWrites
  <2>2. /\ NumSlots(data') = n + 1
        /\ ShortAt(data', FreeStartPos) = SlotPos((n + 1) + 1)
        /\ ShortAt(data', FreeEndPos) = Start(n + 1, len)
        /\ \A i \in 1..(n + 1) : SlotOffset(data', i) = Start(i, len)
    BY <2>1 DEF Directory
  <2>3. slots' = [i \in 1..NumSlots(data') |->
                    [offset |-> SlotOffset(data', i), size |-> len, whole |-> stored'[i].whole]]
    BY <1>4 DEF slots
  <2>4. QED
    BY <2>2, <2>3 DEF freeStart, freeEnd
<1>6. /\ Start(n, len) \in Nat /\ Start(n + 1, len) = Start(n, len) - len /\ Start(n + 1, len) \in Int
      /\ \A i \in 1..n : Start(i, len) \in Nat \ {0} /\ Start(n, len) <= Start(i, len)
      /\ SlotPos((n + 1) + 1) = SlotPos(n + 1) + SlotEntrySize
  <2>1. n + 1 \in Nat \ {0}
    BY <1>3
  <2>2. QED
    BY <1>1, <1>3, <2>1, RecordPlaces, RecordsApart, EntriesApart
<1>7. extra \in 0..Longest /\ e = Start(n, len) + extra /\ e \in Nat
  BY <1>2, <1>6, LongestString
<1> DEFINE Rec == [offset : Int, size : Nat, whole : BOOLEAN]
<1>8. \A i \in 1..n : stored[i].whole \in BOOLEAN
  <2>1. stored \in Seq([row : Rows(schema), whole : BOOLEAN])
    BY DEF BytesInv
  <2>2. \A i \in 1..n : stored[i] \in [row : Rows(schema), whole : BOOLEAN]
    BY <2>1, SeqElements
  <2>3. QED
    BY <2>2
<1>9. /\ DOMAIN old = 1..n /\ Len(old) = n
      /\ \A i \in 1..n : /\ old[i] \in Rec /\ old[i].offset = Start(i, len) /\ old[i].size = len
                         /\ old[i].whole = stored[i].whole
  <2>1. len \in Nat /\ \A i \in 1..n : Start(i, len) \in Int
    BY <1>1, <1>6
  <2> HIDE DEF len, n
  <2>2. old \in [1..n -> Rec]
    BY <1>8, <2>1
  <2>3. DOMAIN old = 1..n /\ Len(old) = n
    BY <1>3, <2>2, FunctionIsSeq
  <2>4. QED
    BY <1>8, <2>1, <2>3
<1>10. others \in Seq(Rec) /\ Len(others) = n /\ record \in Rec
  <2>1. len \in Nat /\ \A i \in 1..n : Start(i, len) \in Int
    BY <1>1, <1>6
  <2> HIDE DEF len, n
  <2>2. others \in [1..n -> Rec]
    BY <1>8, <2>1
  <2>3. record \in Rec
    BY <1>6, <2>1
  <2>4. QED
    BY <1>3, <2>2, <2>3, FunctionIsSeq
<1>11. Append(others, record) = new
  <2> DEFINE D == 1..(n + 1)
  <2>1. /\ Append(others, record) \in Seq(Rec) /\ Len(Append(others, record)) = n + 1
        /\ Append(others, record)[n + 1] = record
        /\ \A i \in 1..n : Append(others, record)[i] = others[i]
    BY <1>10, SeqAppend
  <2>2. Append(others, record) \in [D -> Rec]
    BY <2>1, SeqElements
  <2>3. \A i \in D : Append(others, record)[i] = new[i]
    <3>1. TAKE i \in D
    <3>2. CASE i = n + 1
      <4>1. stored'[n + 1].whole = w
        BY <1>2
      <4>2. new[n + 1] = [offset |-> Start(n + 1, len), size |-> len, whole |-> stored'[n + 1].whole]
        BY <3>2
      <4>3. QED
        BY <2>1, <3>2, <4>1, <4>2
    <3>3. CASE i # n + 1
      <4>1. i \in 1..n
        BY <1>3, <3>3
      <4>2. stored'[i].whole = (stored[i].whole /\ Start(i, len) >= e)
        BY <1>2, <4>1
      <4>3. new[i] = [offset |-> Start(i, len), size |-> len, whole |-> stored'[i].whole]
        OBVIOUS
      <4>4. others[i] = [offset |-> Start(i, len), size |-> len, whole |-> (stored[i].whole /\ Start(i, len) >= e)]
        BY <4>1
      <4>5. QED
        BY <2>1, <4>1, <4>2, <4>3, <4>4
    <3>4. QED
      BY <3>2, <3>3
  <2>4. new \in [D -> Rec]
    <3>1. \A i \in D : new[i] \in Rec
      BY <2>2, <2>3
    <3>2. QED
      BY <3>1
  <2> HIDE DEF D, others, record, new, Rec
  <2>5. QED
    BY <2>2, <2>3, <2>4, SameFunction
<1>12. Layout!Damage(old, Start(n, len), Start(n, len) + extra) = others
  <2> DEFINE kept(i) == old[i].offset >= Start(n, len) + extra \/ old[i].offset + old[i].size <= Start(n, len)
  <2>1. \A i \in 1..n : others[i] = [offset |-> Start(i, len), size |-> len,
                                     whole |-> stored[i].whole /\ Start(i, len) >= e]
    OBVIOUS
  <2>2. others = [i \in 1..n |-> others[i]]
    OBVIOUS
  <2> HIDE DEF others, old
  <2>3. Layout!Damage(old, Start(n, len), Start(n, len) + extra) =
          [i \in 1..n |-> [old[i] EXCEPT !.whole = @ /\ kept(i)]]
    BY <1>9 DEF Layout!Damage
  <2> HIDE DEF kept
  <2>4. ASSUME NEW i \in 1..n PROVE [old[i] EXCEPT !.whole = @ /\ kept(i)] = others[i]
    <3>1. /\ old[i] \in Rec /\ old[i].offset = Start(i, len) /\ old[i].size = len
          /\ old[i].whole = stored[i].whole /\ stored[i].whole \in BOOLEAN
      BY <1>8, <1>9
    <3>2. ~(Start(i, len) + len <= Start(n, len))
      BY <1>1, <1>6
    <3>3. kept(i) = (Start(i, len) >= e)
      BY <1>7, <3>1, <3>2 DEF kept
    <3>4. [old[i] EXCEPT !.whole = @ /\ kept(i)] =
            [offset |-> old[i].offset, size |-> old[i].size, whole |-> old[i].whole /\ kept(i)]
      BY <3>1
    <3>5. QED
      BY <2>1, <3>1, <3>3, <3>4
  <2>5. QED
    BY <2>2, <2>3, <2>4
<1> HIDE DEF extra, others, record, old, new
<1>13. Layout!AllocateSlot(len, extra, w)
  <2>1. Layout!Fits(len)
    BY <1>4 DEF Layout!Fits, Fits
  <2>2. Layout!FindFreeSlot(Len(slots) + 1)
    <3>1. \A i \in 1..n : slots[i].offset # 0
      BY <1>3, <1>6, <1>9
    <3>2. Len(slots) = n /\ DOMAIN slots = 1..n /\ (n + 1) - 1 = n /\ n + 1 \notin 1..n
      BY <1>3, <1>9
    <3>3. QED
      BY <3>1, <3>2 DEF Layout!FindFreeSlot
  <2>3. Layout!Damage(slots, freeEnd, freeEnd + extra) = others
    BY <1>3, <1>12
  <2>4. slots' = Append(others, [offset |-> freeEnd - len, size |-> len, whole |-> w])
    BY <1>3, <1>5, <1>6, <1>11 DEF record
  <2>5. freeEnd' = freeEnd - len /\ freeStart' = freeStart + SlotEntrySize
    BY <1>3, <1>5, <1>6
  <2>6. QED
    BY <2>1, <2>2, <2>3, <2>4, <2>5 DEF Layout!AllocateSlot
<1>14. len \in {RecordLength(s) : s \in Schemas}
  BY <1>1
<1>15. Max({v.len : v \in Values} \cup {0}) = Longest
  BY DEF Longest
<1>16. CASE Encodable(row)
  <2>1. w \/ 0..Longest # {0}
    <3>1. SUFFICES ASSUME ~w PROVE 0..Longest # {0}
      OBVIOUS
    <3>2. ~FitsColumns(row)
      BY <1>2, <1>16, <3>1
    <3>3. PICK i \in DOMAIN row : row[i].class = "str" /\ ~(row[i].len <= MaxStringLength)
      BY <3>2 DEF FitsColumns
    <3>4. row[i] \in Values
      BY <1>1, <3>3, RowColumns
    <3>5. row[i].len \in Nat /\ row[i].len <= Longest /\ Longest \in Nat /\ MaxStringLength \in Nat
      BY <3>4, LongestString, ValueAssumption, SchemaAssumption DEF Value
    <3>6. Longest # 0 /\ Longest \in 0..Longest
      BY <3>3, <3>5
    <3>7. QED
      BY <3>6
  <2>2. Layout!Insert(len, extra, w)
    BY <1>4, <1>13, <1>15, <1>16, <2>1 DEF Layout!Insert
  <2>3. QED
    BY <1>7, <1>14, <1>15, <2>2 DEF Layout!Next
<1>17. CASE ~Encodable(row)
  <2>1. w = FALSE
    BY <1>2, <1>17
  <2>2. Layout!InsertFails(len, extra)
    BY <1>4, <1>13, <1>17, <2>1 DEF Layout!InsertFails
  <2>3. QED
    BY <1>7, <1>14, <1>15, <2>2 DEF Layout!Next
<1>18. QED
  BY <1>16, <1>17

\* The bytes of a page implement the slots and extents of SlottedPage: every
\* row that is inserted is a record of it, a string that is too long damages
\* the records SlottedPage says, and writing the page to disk and reading it
\* back changes none.
THEOREM BytesImplementLayout == Spec => ImplementsLayout
<1>1. Init => BytesInv
  BY BytesInit
<1>2. BytesInv /\ [Next]_vars => BytesInv'
  BY BytesStep
<1>3. Init => Layout!Init
  <2>1. SUFFICES ASSUME Init PROVE Layout!Init
    OBVIOUS
  <2>2. BytesInv /\ stored = <<>> /\ result = [op |-> "none", size |-> 0]
    BY <2>1, BytesInit DEF Init
  <2>3. Len(stored) = 0 /\ RecordLength(schema) \in Nat \ {0}
    BY <2>2, ColumnsApart DEF BytesInv
  <2>4. SlotPos(1) = SlotDirStart /\ Start(0, RecordLength(schema)) = PageSize
    BY <2>3, EntriesApart, RecordsApart
  <2>5. slots = [i \in 1..0 |-> [offset |-> Start(i, RecordLength(schema)), size |-> RecordLength(schema),
                                 whole |-> stored[i].whole]]
        /\ freeStart = SlotPos(0 + 1) /\ freeEnd = Start(0, RecordLength(schema))
    BY <2>2, <2>3, SlotsOf
  <2>6. slots = <<>>
    BY <2>5
  <2>7. QED
    BY <2>2, <2>4, <2>5, <2>6 DEF Layout!Init
<1>4. BytesInv /\ BytesInv' /\ [Next]_vars => [Layout!Next]_(Layout!vars)
  <2>1. SUFFICES ASSUME BytesInv, BytesInv', [Next]_vars PROVE [Layout!Next]_(Layout!vars)
    OBVIOUS
  <2>2. ASSUME NEW row \in Rows(schema), InsertRecord(row) PROVE [Layout!Next]_(Layout!vars)
    BY <2>1, <2>2, InsertImplements
  <2>3. CASE RecordRefused
    <3>1. /\ data' = data /\ schema' = schema /\ stored' = stored /\ ~Fits(RecordLength(schema))
          /\ result' = [op |-> "full", size |-> RecordLength(schema)]
      BY <2>3 DEF RecordRefused
    <3>2. slots' = slots /\ freeStart' = freeStart /\ freeEnd' = freeEnd
      BY <3>1 DEF slots, freeStart, freeEnd
    <3>3. Layout!InsertRefused(RecordLength(schema))
      BY <3>1, <3>2 DEF Layout!InsertRefused, Layout!Fits, Fits
    <3>4. schema \in Schemas
      BY <2>1 DEF BytesInv
    <3>5. QED
      BY <3>3, <3>4 DEF Layout!Next
  <2>4. CASE PageReloaded
    <3>1. schema' = schema /\ stored' = stored /\ result' = result
      BY <2>4 DEF PageReloaded
    <3>2. /\ Directory(data, Len(stored), RecordLength(schema))
          /\ Directory(data', Len(stored), RecordLength(schema))
      BY <2>1, <3>1 DEF BytesInv
    <3>3. slots' = slots /\ freeStart' = freeStart /\ freeEnd' = freeEnd
      <4>1. NumSlots(data') = NumSlots(data) /\ \A i \in 1..NumSlots(data) : SlotOffset(data', i) = SlotOffset(data, i)
        BY <3>2 DEF Directory
      <4>2. QED
        BY <3>1, <3>2, <4>1 DEF Directory, slots, freeStart, freeEnd
    <3>4. QED
      BY <3>1, <3>3 DEF Layout!vars
  <2>5. CASE UNCHANGED vars
    BY <2>5 DEF vars, Layout!vars, slots, freeStart, freeEnd
  <2>6. QED
    BY <2>1, <2>2, <2>3, <2>4, <2>5 DEF Next
<1>5. QED
  BY <1>1, <1>2, <1>3, <1>4, PTL DEF Spec, ImplementsLayout, Layout!Spec
==============================================================================
