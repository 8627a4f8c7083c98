----------------------------- MODULE QueryProofs -----------------------------
(***************************************************************************)
(* Deductive proofs about QueryText and QueryPlanning, for every text of   *)
(* the modelled shape, every schema and every choice of indexes: the query *)
(* that runs says what was typed, and its plan does the query.             *)
(***************************************************************************)
EXTENDS QueryPlanning, SeqLemmas, FiniteSetTheorems

------------------------------------------------------------------------------
(* Flattening sequences of at most one element *)

LEMMA FlatTyped ==
  ASSUME NEW S, NEW ss \in Seq(Seq(S))
  PROVE  /\ Len(ss) \in Nat /\ Len(ss) \in 0..Len(ss)
         /\ FlatTo(ss, 0) = <<>> /\ Len(FlatTo(ss, 0)) = 0
         /\ FlattenSeq(ss) = FlatTo(ss, Len(ss))
         /\ \A k \in 0..Len(ss) : FlatTo(ss, k) \in Seq(S) /\ Len(FlatTo(ss, k)) \in Nat
         /\ \A k \in 1..Len(ss) : ss[k] \in Seq(S) /\ Len(ss[k]) \in Nat /\ k - 1 \in 0..Len(ss)
<1>1. Len(ss) \in Nat /\ \A k \in 1..Len(ss) : ss[k] \in Seq(S)
  BY SeqElements
<1>2. /\ FlatTo(ss, 0) = <<>> /\ FlattenSeq(ss) = FlatTo(ss, Len(ss))
      /\ \A k \in 0..Len(ss) : FlatTo(ss, k) \in Seq(S)
  BY FlatSteps
<1>3. \A f \in Seq(S) : Len(f) \in Nat
  BY LenProperties
<1>4. Len(<<>>) = 0
  BY EmptySeq
<1>5. QED
  BY <1>1, <1>2, <1>3, <1>4

\* When nothing is left nothing comes out.
LEMMA FlatNone ==
  ASSUME NEW S, NEW ss \in Seq(Seq(S)), \A i \in 1..Len(ss) : ss[i] = <<>>
  PROVE  FlattenSeq(ss) = <<>>
<1> DEFINE flat == FlatTo(ss, Len(ss))
<1>1. /\ Len(ss) \in Nat /\ Len(ss) \in 0..Len(ss)
      /\ flat \in Seq(S) /\ FlattenSeq(ss) = flat /\ Len(flat) \in Nat
  BY FlatTyped
<1>2. \A i \in 1..Len(ss) : Len(ss[i]) = 0
  BY EmptySeq
<1>3. \A y \in 1..Len(flat) : FALSE
  <2>1. SUFFICES ASSUME NEW y \in 1..Len(flat) PROVE FALSE
    OBVIOUS
  <2>2. \E k \in 1..Len(ss) : \E x \in 1..Len(ss[k]) : y = Len(FlatTo(ss, k - 1)) + x
    BY <1>1, FlatFrom
  <2>3. QED
    BY <1>2, <2>2
<1>4. Len(flat) = 0
  BY <1>1, <1>3
<1>5. QED
  BY <1>1, <1>4, EmptySeq

\* When one element is left it is the result.
LEMMA FlatOnly ==
  ASSUME NEW S, NEW ss \in Seq(Seq(S)), NEW k \in 1..Len(ss),
         \A i \in 1..Len(ss) : i # k => ss[i] = <<>>
  PROVE  FlattenSeq(ss) = ss[k]
<1> DEFINE T == {j \in 0..Len(ss) : FlatTo(ss, j) = IF j < k THEN <<>> ELSE ss[k]}
<1>1. Len(ss) \in Nat /\ ss[k] \in Seq(S) /\ FlatTo(ss, 0) = <<>> /\ <<>> \in Seq(S)
  BY FlatTyped, EmptySeq
<1>2. 0 \in T
  BY <1>1
<1>3. ASSUME NEW j \in 1..Len(ss), j - 1 \in T PROVE j \in T
  <2>1. FlatTo(ss, j) = FlatTo(ss, j - 1) \o ss[j]
    BY FlatSteps
  <2>2. FlatTo(ss, j - 1) = IF j - 1 < k THEN <<>> ELSE ss[k]
    BY <1>3
  <2>3. CASE j < k
    <3>1. ss[j] = <<>> /\ FlatTo(ss, j - 1) = <<>>
      BY <1>1, <2>2, <2>3
    <3>2. FlatTo(ss, j) = <<>>
      BY <1>1, <2>1, <3>1, ConcatEmptySeq
    <3>3. QED
      BY <1>1, <2>3, <3>2
  <2>4. CASE j = k
    <3>1. FlatTo(ss, j - 1) = <<>>
      BY <1>1, <2>2, <2>4
    <3>2. FlatTo(ss, j) = ss[k]
      BY <1>1, <2>1, <2>4, <3>1, ConcatEmptySeq
    <3>3. QED
      BY <1>1, <2>4, <3>2
  <2>5. CASE j > k
    <3>1. ss[j] = <<>> /\ FlatTo(ss, j - 1) = ss[k]
      BY <1>1, <2>2, <2>5
    <3>2. FlatTo(ss, j) = ss[k]
      BY <1>1, <2>1, <3>1, ConcatEmptySeq
    <3>3. QED
      BY <1>1, <2>5, <3>2
  <2>6. QED
    BY <1>1, <2>3, <2>4, <2>5
<1> HIDE DEF T
<1>4. 0..Len(ss) \subseteq T
  BY <1>1, <1>2, <1>3, UpTo
<1>5. Len(ss) \in T
  <2>1. Len(ss) \in 0..Len(ss)
    BY <1>1
  <2>2. QED
    BY <1>4, <2>1
<1>6. FlatTo(ss, Len(ss)) = ss[k]
  BY <1>1, <1>5 DEF T
<1>7. QED
  BY <1>6, FlatSteps

\* When every element is left the result is the sequence of them.
LEMMA FlatSingles ==
  ASSUME NEW S, NEW g \in Seq(S), NEW ss \in Seq(Seq(S)), Len(ss) = Len(g),
         \A i \in 1..Len(g) : ss[i] = <<g[i]>>
  PROVE  FlattenSeq(ss) = g
<1> DEFINE T == {j \in 0..Len(ss) : Len(FlatTo(ss, j)) = j}
           flat == FlatTo(ss, Len(ss))
<1>1. /\ Len(ss) \in Nat /\ Len(FlatTo(ss, 0)) = 0 /\ FlattenSeq(ss) = flat /\ flat \in Seq(S)
      /\ \A i \in 1..Len(ss) : Len(ss[i]) = 1 /\ 1 \in 1..Len(ss[i]) /\ ss[i][1] = g[i]
  <2>1. \A e : Len(<<e>>) = 1 /\ 1 \in 1..Len(<<e>>) /\ <<e>>[1] = e
    OBVIOUS
  <2>2. QED
    BY <2>1, FlatTyped
<1>2. 0 \in T
  BY <1>1
<1>3. ASSUME NEW j \in 1..Len(ss), j - 1 \in T PROVE j \in T
  <2>1. /\ j \in 0..Len(ss) /\ Len(ss[j]) = 1
        /\ Len(FlatTo(ss, j)) = Len(FlatTo(ss, j - 1)) + Len(ss[j])
    BY <1>1, FlatNext
  <2>2. Len(FlatTo(ss, j - 1)) = j - 1
    BY <1>3
  <2>3. QED
    BY <1>1, <2>1, <2>2
<1>4. \A j \in 0..Len(ss) : Len(FlatTo(ss, j)) = j
  <2> HIDE DEF T
  <2>1. 0..Len(ss) \subseteq T
    BY <1>1, <1>2, <1>3, UpTo
  <2>2. QED
    BY <2>1 DEF T
<1>5. ASSUME NEW y \in 1..Len(g) PROVE flat[y] = g[y]
  <2>1. y \in 1..Len(ss) /\ Len(ss) \in y..Len(ss) /\ y - 1 \in 0..Len(ss)
    BY <1>1
  <2>2. FlatTo(ss, Len(ss))[Len(FlatTo(ss, y - 1)) + 1] = ss[y][1]
    <3>1. 1 \in 1..Len(ss[y])
      BY <1>1, <2>1
    <3>2. \A x \in 1..Len(ss[y]) : FlatTo(ss, Len(ss))[Len(FlatTo(ss, y - 1)) + x] = ss[y][x]
      BY <2>1, FlatPlace
    <3>3. QED
      BY <3>1, <3>2
  <2>3. Len(FlatTo(ss, y - 1)) + 1 = y
    BY <1>4, <2>1
  <2>4. QED
    BY <1>1, <2>1, <2>2, <2>3
<1>6. Len(flat) = Len(g)
  BY <1>1, <1>4
<1> HIDE DEF flat
<1>7. flat = g
  BY <1>1, <1>5, <1>6, SeqEqual
<1>8. QED
  BY <1>1, <1>7

\* s is made of the elements of t at growing places.
Picks(from, s, t) ==
  /\ from \in [1..Len(s) -> 1..Len(t)]
  /\ \A i, j \in 1..Len(s) : i < j => from[i] < from[j]

\* In general the results come from growing places.
LEMMA FlatPicks ==
  ASSUME NEW S, NEW ss \in Seq(Seq(S)), \A i \in 1..Len(ss) : Len(ss[i]) <= 1
  PROVE  /\ FlattenSeq(ss) \in Seq(S)
         /\ \E from : /\ Picks(from, FlattenSeq(ss), ss)
                      /\ \A y \in 1..Len(FlattenSeq(ss)) :
                           Len(ss[from[y]]) = 1 /\ FlattenSeq(ss)[y] = ss[from[y]][1]
<1> DEFINE flat == FlatTo(ss, Len(ss))
           From(y, k) == Len(ss[k]) = 1 /\ y = Len(FlatTo(ss, k - 1)) + 1
           from == [y \in 1..Len(flat) |-> CHOOSE k \in 1..Len(ss) : From(y, k)]
<1>1. /\ Len(ss) \in Nat /\ Len(ss) \in 0..Len(ss) /\ Len(FlatTo(ss, 0)) = 0
      /\ FlattenSeq(ss) = flat /\ flat \in Seq(S) /\ Len(flat) \in Nat
      /\ \A k \in 1..Len(ss) : Len(ss[k]) \in Nat /\ k - 1 \in 0..Len(ss)
      /\ \A k \in 0..Len(ss) : Len(FlatTo(ss, k)) \in Nat
  BY FlatTyped
<1>2. ASSUME NEW y \in 1..Len(flat) PROVE \E k \in 1..Len(ss) : From(y, k)
  <2>1. PICK k \in 1..Len(ss) : \E x \in 1..Len(ss[k]) : y = Len(FlatTo(ss, k - 1)) + x
    BY <1>1, FlatFrom
  <2>2. Len(ss[k]) \in Nat /\ Len(ss[k]) <= 1
    BY <1>1
  <2>3. PICK x \in 1..Len(ss[k]) : y = Len(FlatTo(ss, k - 1)) + x
    BY <2>1
  <2>4. x = 1 /\ Len(ss[k]) = 1
    <3>1. \A n \in Nat : n <= 1 => \A i \in 1..n : i = 1 /\ n = 1
      OBVIOUS
    <3>2. QED
      BY <2>2, <3>1
  <2>5. QED
    BY <2>3, <2>4
<1>3. \A y \in 1..Len(flat) : from[y] \in 1..Len(ss) /\ From(y, from[y])
  BY <1>2
<1> HIDE DEF from
<1>4. \A y \in 1..Len(flat) : flat[y] = ss[from[y]][1]
  <2>1. SUFFICES ASSUME NEW y \in 1..Len(flat) PROVE flat[y] = ss[from[y]][1]
    OBVIOUS
  <2> DEFINE k == from[y]
  <2>2. k \in 1..Len(ss) /\ From(y, k) /\ Len(ss) \in k..Len(ss) /\ 1 \in 1..Len(ss[k])
    <3>1. k \in 1..Len(ss) /\ From(y, k)
      BY <1>3
    <3> HIDE DEF k
    <3>2. QED
      BY <1>1, <3>1
  <2> HIDE DEF k
  <2>3. FlatTo(ss, Len(ss))[Len(FlatTo(ss, k - 1)) + 1] = ss[k][1]
    BY <2>2, FlatPlace
  <2>4. QED
    BY <2>2, <2>3 DEF k
<1>5. ASSUME NEW y \in 1..Len(flat), NEW z \in 1..Len(flat), y < z PROVE from[y] < from[z]
  <2> DEFINE k == from[y]
             m == from[z]
  <2>1. /\ k \in 1..Len(ss) /\ m \in 1..Len(ss)
        /\ y = Len(FlatTo(ss, k - 1)) + 1 /\ z = Len(FlatTo(ss, m - 1)) + 1
    BY <1>3
  <2> HIDE DEF k, m
  <2>2. CASE m <= k
    <3>1. CASE m = 1
      <4>1. Len(FlatTo(ss, m - 1)) = 0 /\ Len(FlatTo(ss, k - 1)) >= 0
        BY <1>1, <2>1, <3>1
      <4>2. QED
        BY <1>5, <2>1, <4>1
    <3>2. CASE m # 1
      <4>1. m - 1 \in 1..Len(ss) /\ k - 1 \in (m - 1)..Len(ss)
        BY <1>1, <2>1, <2>2, <3>2
      <4>2. Len(FlatTo(ss, m - 1)) <= Len(FlatTo(ss, k - 1))
        BY <4>1, FlatPlace
      <4>3. Len(FlatTo(ss, m - 1)) \in Nat /\ Len(FlatTo(ss, k - 1)) \in Nat
        BY <1>1, <2>1
      <4>4. QED
        BY <1>5, <2>1, <4>2, <4>3
    <3>3. QED
      BY <3>1, <3>2
  <2>3. QED
    BY <1>1, <2>1, <2>2 DEF k, m
<1>6. from \in [1..Len(flat) -> 1..Len(ss)]
  BY <1>3 DEF from
<1>7. Picks(from, flat, ss)
  BY <1>5, <1>6 DEF Picks
<1>8. QED
  BY <1>1, <1>3, <1>4, <1>7

------------------------------------------------------------------------------
(* The clauses of one kind *)

KindFlags(clauses, kind) ==
  [i \in DOMAIN clauses |-> IF clauses[i].kind = kind THEN <<clauses[i]>> ELSE <<>>]

LEMMA KindTyped ==
  ASSUME NEW S, NEW clauses \in Seq(S), NEW kind
  PROVE  /\ KindFlags(clauses, kind) \in Seq(Seq(S))
         /\ Len(KindFlags(clauses, kind)) = Len(clauses)
         /\ OfKind(clauses, kind) = FlattenSeq(KindFlags(clauses, kind))
<1>1. DOMAIN clauses = 1..Len(clauses) /\ Len(clauses) \in Nat /\ \A i \in 1..Len(clauses) : clauses[i] \in S
  BY SeqElements
<1>2. \A e \in S : <<e>> \in Seq(S)
  OBVIOUS
<1>3. <<>> \in Seq(S)
  BY EmptySeq
<1>4. KindFlags(clauses, kind) \in [1..Len(clauses) -> Seq(S)]
  BY <1>1, <1>2, <1>3 DEF KindFlags
<1>5. QED
  BY <1>1, <1>4, FunctionIsSeq DEF OfKind, KindFlags

LEMMA OfKindNone ==
  ASSUME NEW S, NEW clauses \in Seq(S), NEW kind, \A i \in 1..Len(clauses) : clauses[i].kind # kind
  PROVE  OfKind(clauses, kind) = <<>>
<1>1. DOMAIN clauses = 1..Len(clauses)
  BY SeqElements
<1>2. \A i \in 1..Len(clauses) : KindFlags(clauses, kind)[i] = <<>>
  BY <1>1 DEF KindFlags
<1>3. QED
  BY <1>2, KindTyped, FlatNone

LEMMA OfKindOne ==
  ASSUME NEW S, NEW clauses \in Seq(S), NEW kind, NEW k \in 1..Len(clauses),
         clauses[k].kind = kind, \A i \in 1..Len(clauses) : clauses[i].kind = kind => i = k
  PROVE  OfKind(clauses, kind) = <<clauses[k]>>
<1>1. DOMAIN clauses = 1..Len(clauses)
  BY SeqElements
<1>2. \A i \in 1..Len(clauses) : i # k => KindFlags(clauses, kind)[i] = <<>>
  BY <1>1 DEF KindFlags
<1>3. KindFlags(clauses, kind)[k] = <<clauses[k]>>
  BY <1>1 DEF KindFlags
<1>4. FlattenSeq(KindFlags(clauses, kind)) = KindFlags(clauses, kind)[k]
  <2>1. KindFlags(clauses, kind) \in Seq(Seq(S)) /\ k \in 1..Len(KindFlags(clauses, kind))
    BY KindTyped
  <2>2. \A i \in 1..Len(KindFlags(clauses, kind)) : i # k => KindFlags(clauses, kind)[i] = <<>>
    BY <1>2, KindTyped
  <2>3. QED
    BY <2>1, <2>2, FlatOnly
<1>5. QED
  BY <1>3, <1>4, KindTyped

\* No clause follows one of its own kind.
Distinct(clauses) ==
  \A i, j \in 1..Len(clauses) : clauses[i].kind = clauses[j].kind => i = j

LEMMA OfKindFew ==
  ASSUME NEW S, NEW clauses \in Seq(S), NEW kind, Distinct(clauses)
  PROVE  \/ /\ OfKind(clauses, kind) = <<>>
            /\ \A i \in 1..Len(clauses) : clauses[i].kind # kind
         \/ \E k \in 1..Len(clauses) :
              /\ clauses[k].kind = kind /\ OfKind(clauses, kind) = <<clauses[k]>>
              /\ \A i \in 1..Len(clauses) : clauses[i].kind = kind => i = k
<1>1. CASE \A i \in 1..Len(clauses) : clauses[i].kind # kind
  BY <1>1, OfKindNone
<1>2. CASE \E k \in 1..Len(clauses) : clauses[k].kind = kind
  <2>1. PICK k \in 1..Len(clauses) : clauses[k].kind = kind
    BY <1>2
  <2>2. \A i \in 1..Len(clauses) : clauses[i].kind = kind => i = k
    BY <2>1 DEF Distinct
  <2>3. OfKind(clauses, kind) = <<clauses[k]>>
    BY <2>1, <2>2, OfKindOne
  <2>4. QED
    BY <2>1, <2>2, <2>3
<1>3. QED
  BY <1>1, <1>2

------------------------------------------------------------------------------
(* The longest prefix *)

LEMMA WholePrefix ==
  ASSUME NEW S, NEW s \in Seq(S)
  PROVE  SubSeq(s, 1, Len(s)) = s
<1>1. Len(s) \in Nat /\ Len(s) \in 0..Len(s) /\ DOMAIN s = 1..Len(s)
  BY SeqElements
<1>2. /\ SubSeq(s, 1, Len(s)) \in Seq(S) /\ DOMAIN SubSeq(s, 1, Len(s)) = 1..Len(s)
      /\ \A i \in 1..Len(s) : SubSeq(s, 1, Len(s))[i] = s[i]
  BY <1>1, SeqPrefix
<1>3. Len(SubSeq(s, 1, Len(s))) = Len(s)
  BY <1>1, <1>2, SubSeqProperties
<1>4. QED
  BY <1>2, <1>3, SeqEqual

LEMMA PrefixRead ==
  ASSUME NEW S, NEW s \in Seq(S), NEW good
  PROVE  \E n \in 0..Len(s) :
           /\ LongestPrefix(s, good) = SubSeq(s, 1, n) /\ 1..n \subseteq good
           /\ 1..Len(s) \subseteq good => n = Len(s)
<1> DEFINE T == {n \in 0..Len(s) : 1..n \subseteq good}
           n == Max(T)
<1>1. Len(s) \in Nat
  BY SeqElements
<1>2. T \subseteq Nat /\ 0 \in T /\ T \subseteq 0..Len(s)
  BY <1>1
<1>3. IsFiniteSet(T)
  <2>1. IsFiniteSet(0..Len(s))
    BY <1>1, FS_Interval
  <2>2. QED
    BY <1>2, <2>1, FS_Subset
<1>4. n \in T /\ \A m \in T : n >= m
  <2> HIDE DEF T
  <2>1. QED
    BY <1>2, <1>3, GreatestIn
<1>5. 1..Len(s) \subseteq good => n = Len(s)
  <2>1. SUFFICES ASSUME 1..Len(s) \subseteq good PROVE n = Len(s)
    OBVIOUS
  <2>2. Len(s) \in T
    BY <1>1, <2>1
  <2>3. n \in 0..Len(s) /\ n >= Len(s)
    BY <1>4, <2>2
  <2> HIDE DEF n
  <2>4. QED
    BY <1>1, <2>3
<1>6. QED
  BY <1>4, <1>5 DEF LongestPrefix

------------------------------------------------------------------------------
(* What is read of a text *)

Growing(clauses) ==
  \A i, j \in 1..Len(clauses) : i < j => Place(clauses[i]) < Place(clauses[j])

LEMMA PlaceOf ==
  ASSUME NEW c \in Clauses
  PROVE  Place(c) \in Nat
<1>1. c.kind \in {"join", "where", "order", "limit", "other"}
  BY DEF Clauses
<1>2. QED
  BY <1>1 DEF Place

LEMMA GrowingClauses ==
  ASSUME NEW clauses \in Seq(Clauses),
         \A i \in 1..Len(clauses) : i > 1 => Place(clauses[i - 1]) < Place(clauses[i])
  PROVE  Growing(clauses) /\ Distinct(clauses)
<1> DEFINE T == {j \in 0..Len(clauses) : \A i \in 1..(j - 1) : Place(clauses[i]) < Place(clauses[j])}
<1>1. Len(clauses) \in Nat /\ \A i \in 1..Len(clauses) : Place(clauses[i]) \in Nat
  BY SeqElements, PlaceOf
<1>2. 0 \in T
  BY <1>1
<1>3. ASSUME NEW j \in 1..Len(clauses), j - 1 \in T PROVE j \in T
  <2>1. j \in 0..Len(clauses)
    BY <1>1
  <2>2. ASSUME NEW i \in 1..(j - 1) PROVE Place(clauses[i]) < Place(clauses[j])
    <3>1. /\ j > 1 /\ i \in 1..Len(clauses) /\ j - 1 \in 1..Len(clauses)
          /\ i = j - 1 \/ i \in 1..(j - 1 - 1)
      BY <1>1
    <3>2. Place(clauses[j - 1]) < Place(clauses[j])
      BY <3>1
    <3>3. i \in 1..(j - 1 - 1) => Place(clauses[i]) < Place(clauses[j - 1])
      BY <1>3
    <3>4. /\ Place(clauses[i]) \in Nat /\ Place(clauses[j]) \in Nat
          /\ Place(clauses[j - 1]) \in Nat
      BY <1>1, <3>1
    <3>5. QED
      BY <3>1, <3>2, <3>3, <3>4
  <2>3. QED
    BY <2>1, <2>2
<1>4. Growing(clauses)
  <2>1. \A j \in 1..Len(clauses) : \A i \in 1..Len(clauses) : i < j => i \in 1..(j - 1)
    BY <1>1
  <2>2. 1..Len(clauses) \subseteq 0..Len(clauses)
    BY <1>1
  <2> HIDE DEF T
  <2>3. 0..Len(clauses) \subseteq T
    BY <1>1, <1>2, <1>3, UpTo
  <2>4. \A j \in 1..Len(clauses) : j \in T
    BY <2>2, <2>3
  <2>5. QED
    BY <2>1, <2>4 DEF T, Growing
<1>5. Distinct(clauses)
  <2>1. SUFFICES ASSUME NEW i \in 1..Len(clauses), NEW j \in 1..Len(clauses),
                        clauses[i].kind = clauses[j].kind
                 PROVE  i = j
    BY DEF Distinct
  <2>2. Place(clauses[i]) = Place(clauses[j])
    BY <2>1 DEF Place
  <2>3. ~(i < j) /\ ~(j < i)
    BY <1>1, <1>4, <2>2 DEF Growing
  <2>4. QED
    BY <1>1, <2>3
<1>6. QED
  BY <1>4, <1>5

LEMMA FlatOfOne ==
  ASSUME NEW S, NEW ss \in [1..1 -> Seq(S)]
  PROVE  FlattenSeq(ss) = ss[1]
<1>1. ss \in Seq(Seq(S)) /\ Len(ss) = 1
  BY FunctionIsSeq
<1>2. 1 \in 1..Len(ss) /\ \A i \in 1..Len(ss) : i # 1 => ss[i] = <<>>
  BY <1>1
<1>3. QED
  BY <1>1, <1>2, FlatOnly

\* What the parts of a clause are.
LEMMA ItemsOf ==
  ASSUME NEW c \in Clauses
  PROVE  /\ c.items \in Seq(Conditions) \/ c.items \in Seq(Words) \/ c.items \in Seq(Counts)
         /\ c.kind = "where" => c.items \in Seq(Conditions)
<1>1. CASE c.kind = "where"
  BY <1>1 DEF Clauses
<1>2. CASE c.kind = "order"
  BY <1>2 DEF Clauses
<1>3. CASE c.kind = "join"
  <2>1. c.items \in [1..1 -> Words]
    BY <1>3 DEF Clauses
  <2>2. c.items \in Seq(Words)
    BY <2>1, FunctionIsSeq
  <2>3. QED
    BY <1>3, <2>2
<1>4. CASE c.kind = "limit"
  <2>1. c.items \in [1..1 -> Counts]
    BY <1>4 DEF Clauses
  <2>2. c.items \in Seq(Counts)
    BY <2>1, FunctionIsSeq
  <2>3. QED
    BY <1>4, <2>2
<1>5. CASE c.kind = "other"
  <2>1. c.items = <<>>
    BY <1>5 DEF Clauses
  <2>2. QED
    BY <1>5, <2>1, EmptySeq
<1>6. c.kind \in {"join", "where", "order", "limit", "other"}
  BY DEF Clauses
<1>7. QED
  BY <1>1, <1>2, <1>3, <1>4, <1>5, <1>6

\* What is read to its end is read as it was written.
LEMMA ReadAsWritten ==
  ASSUME NEW item, item \in Conditions \/ item \in Words \/ item \in Counts,
         item.form \notin {"part", "unread"}
  PROVE  AsWritten(item) = item
<1>1. CASE item \in Conditions
  <2>1. item.form \in {"whole", "open"} /\ item.read = item.written
    BY <1>1 DEF Conditions, Token, Forms
  <2>2. QED
    BY <1>1, <2>1 DEF Conditions, AsWritten
<1>2. CASE item \in Words
  <2>1. item.form = "whole" /\ item.read = item.written
    BY <1>2 DEF Words, Token, Forms
  <2>2. QED
    BY <1>2, <2>1 DEF Words, AsWritten
<1>3. CASE item \in Counts
  <2>1. item.form = "whole" /\ item.read = item.written
    BY <1>3 DEF Counts, Token, Forms
  <2>2. QED
    BY <1>3, <2>1 DEF Counts, AsWritten
<1>4. QED
  BY <1>1, <1>2, <1>3

\* The first m items of a clause, the last as it was read.
CutItems(items, m) == [i \in 1..m |-> IF i = m THEN items[i] ELSE AsWritten(items[i])]
WrittenItems(items) == [i \in 1..Len(items) |-> AsWritten(items[i])]

\* The item is in the grammar of its clause.
PlainItem(kind, item) == Readable(kind, item) /\ item.form = "whole" /\ item.by \in {"AND", ","}

\* What is read of a clause is a beginning of it.
LEMMA ReadItems ==
  ASSUME NEW S, NEW c, c.items \in Seq(S),
         \A item \in S : item \in Conditions \/ item \in Words \/ item \in Counts
  PROVE  /\ ItemsRead(c) \in Seq(S)
         /\ \E m \in 0..Len(c.items) :
              /\ ItemsRead(c) = CutItems(c.items, m)
              /\ ItemsRead(c) # <<>> => m > 0
              /\ (\A i \in 1..Len(c.items) : PlainItem(c.kind, c.items[i]))
                    => ItemsRead(c) = c.items /\ m = Len(c.items)
         /\ ItemsRead(c) = c.items /\ c.items # <<>> /\ Last(c.items).form # "part"
              => ItemsRead(c) = WrittenItems(c.items)
<1> DEFINE items == c.items
           good == {i \in DOMAIN items :
                      /\ Readable(c.kind, items[i])
                      /\ i > 1 => items[i].by \notin {"OR", " ,"} /\ items[i - 1].form # "part"}
<1>1. /\ Len(items) \in Nat /\ DOMAIN items = 1..Len(items) /\ items \in [1..Len(items) -> S]
      /\ \A i \in 1..Len(items) : items[i] \in S
  <2> HIDE DEF items
  <2>1. QED
    BY SeqElements DEF items
<1>2. PICK m \in 0..Len(items) :
        /\ LongestPrefix(items, good) = SubSeq(items, 1, m) /\ 1..m \subseteq good
        /\ 1..Len(items) \subseteq good => m = Len(items)
  <2> HIDE DEF good
  <2>1. QED
    BY PrefixRead
<1> DEFINE read == SubSeq(items, 1, m)
<1>3. ItemsRead(c) = read
  BY <1>2 DEF ItemsRead
<1>4. /\ read \in Seq(S) /\ DOMAIN read = 1..m /\ \A i \in 1..m : read[i] = items[i]
  <2> HIDE DEF items
  <2>1. QED
    BY SeqPrefix DEF items
<1>5. \A i \in 1..m : i \in 1..Len(items) /\ Readable(c.kind, items[i])
  BY <1>1, <1>2
<1>6. \A i \in 1..m : i # m => items[i].form # "part"
  <2>1. SUFFICES ASSUME NEW i \in 1..m, i # m PROVE items[i].form # "part"
    OBVIOUS
  <2>2. i + 1 \in 1..m /\ i + 1 > 1 /\ (i + 1) - 1 = i
    BY <1>1, <2>1
  <2>3. i + 1 \in good
    BY <1>2, <2>2
  <2>4. QED
    BY <2>2, <2>3
<1>7. \A i \in 1..m : items[i].form # "part" => AsWritten(items[i]) = items[i]
  <2>1. SUFFICES ASSUME NEW i \in 1..m, items[i].form # "part" PROVE AsWritten(items[i]) = items[i]
    OBVIOUS
  <2>2. items[i].form # "unread"
    BY <1>5 DEF Readable
  <2>3. items[i] \in S
    BY <1>1, <1>5
  <2>4. QED
    BY <2>1, <2>2, <2>3, ReadAsWritten
<1> HIDE DEF good, read
<1>8. read = CutItems(items, m)
  <2>1. read = [i \in 1..m |-> read[i]]
    BY <1>4, SeqElements
  <2>2. \A i \in 1..m : read[i] = IF i = m THEN items[i] ELSE AsWritten(items[i])
    BY <1>4, <1>6, <1>7
  <2>3. QED
    BY <2>1, <2>2 DEF CutItems
<1>9. read # <<>> => m > 0
  <2>1. SUFFICES ASSUME ~(m > 0) PROVE read = <<>>
    OBVIOUS
  <2>2. Len(read) = 0
    BY <1>1, <1>4, <2>1, SeqElements
  <2>3. QED
    BY <1>4, <2>2, EmptySeq
<1>10. ASSUME \A i \in 1..Len(items) : PlainItem(c.kind, items[i])
       PROVE  read = items /\ m = Len(items)
  <2>1. 1..Len(items) \subseteq good
    <3>1. SUFFICES ASSUME NEW i \in 1..Len(items) PROVE i \in good
      OBVIOUS
    <3>2. PlainItem(c.kind, items[i]) /\ (i > 1 => PlainItem(c.kind, items[i - 1]))
      BY <1>1, <1>10
    <3>3. QED
      BY <1>1, <3>2 DEF good, PlainItem
  <2>2. m = Len(items)
    BY <1>2, <2>1
  <2>3. QED
    BY <1>3, <2>2, WholePrefix DEF read, items
<1>11. ASSUME read = items, items # <<>>, Last(items).form # "part"
       PROVE  read = WrittenItems(items)
  <2>1. m = Len(items)
    BY <1>1, <1>4, <1>11
  <2>2. Len(items) \in 1..Len(items)
    BY <1>1, <1>11, EmptySeq
  <2>3. \A i \in 1..Len(items) : AsWritten(items[i]) = items[i]
    BY <1>6, <1>7, <1>11, <2>1 DEF Last
  <2> HIDE DEF items
  <2>4. items = [i \in 1..Len(items) |-> items[i]]
    BY <1>1
  <2>5. QED
    BY <1>11, <2>3, <2>4 DEF WrittenItems
<1>12. QED
  BY <1>2, <1>3, <1>4, <1>8, <1>9, <1>10, <1>11 DEF items

\* The same of each kind of clause.
LEMMA ReadClause ==
  ASSUME NEW c \in Clauses
  PROVE  /\ \E m \in 0..Len(c.items) :
              /\ ItemsRead(c) = CutItems(c.items, m)
              /\ ItemsRead(c) # <<>> => m > 0
              /\ (\A i \in 1..Len(c.items) : PlainItem(c.kind, c.items[i]))
                    => ItemsRead(c) = c.items /\ m = Len(c.items)
         /\ ItemsRead(c) = c.items /\ c.items # <<>> /\ Last(c.items).form # "part"
              => ItemsRead(c) = WrittenItems(c.items)
         /\ c.kind = "where" => ItemsRead(c) \in Seq(Conditions)
<1>1. PICK S \in {Conditions, Words, Counts} : c.items \in Seq(S) /\ (c.kind = "where" => S = Conditions)
  BY ItemsOf
<1>2. \A item \in S : item \in Conditions \/ item \in Words \/ item \in Counts
  BY <1>1
<1>3. QED
  BY <1>1, <1>2, ReadItems

\* A clause with other items.
LEMMA ClauseWith ==
  ASSUME NEW c \in Clauses, NEW items
  PROVE  [c EXCEPT !.items = items].items = items /\ [c EXCEPT !.items = items].kind = c.kind
BY DEF Clauses

ReadOf(c) == [c EXCEPT !.items = ItemsRead(c)]
ReadSet == {ReadOf(c) : c \in Clauses}

LEMMA ReadSetIs ==
  ASSUME NEW c \in ReadSet
  PROVE  c.kind = "where" => c.items \in Seq(Conditions)
<1>1. PICK raw \in Clauses : c = ReadOf(raw)
  BY DEF ReadSet
<1>2. c.kind = raw.kind /\ c.items = ItemsRead(raw)
  BY <1>1, ClauseWith DEF ReadOf
<1>3. QED
  BY <1>2, ReadClause

\* With at most one WHERE, the conditions are those of that clause.
LEMMA WhereTerms ==
  ASSUME NEW clauses \in Seq(ReadSet), Distinct(clauses)
  PROVE  /\ TermsOf(clauses) \in Seq(Conditions)
         /\ \/ TermsOf(clauses) = <<>>
            \/ \E k \in 1..Len(clauses) : clauses[k].kind = "where" /\ TermsOf(clauses) = clauses[k].items
<1>1. CASE OfKind(clauses, "where") = <<>>
  <2>1. FlattenSeq(<<>>) = <<>> /\ <<>> \in Seq(Conditions)
    BY EmptySeq DEF FlattenSeq
  <2>2. TermsOf(clauses) = FlattenSeq(<<>>)
    BY <1>1 DEF TermsOf
  <2>3. QED
    BY <2>1, <2>2
<1>2. CASE \E k \in 1..Len(clauses) :
             clauses[k].kind = "where" /\ OfKind(clauses, "where") = <<clauses[k]>>
  <2>1. PICK k \in 1..Len(clauses) :
               clauses[k].kind = "where" /\ OfKind(clauses, "where") = <<clauses[k]>>
    BY <1>2
  <2> DEFINE c == clauses[k]
  <2>2. c \in ReadSet
    BY SeqElements
  <2>3. c.items \in Seq(Conditions)
    BY <2>1, <2>2, ReadSetIs
  <2> HIDE DEF c
  <2>4. DOMAIN <<c>> = 1..1 /\ <<c>>[1] = c
    OBVIOUS
  <2>5. /\ [i \in DOMAIN <<c>> |-> <<c>>[i].items] \in [1..1 -> Seq(Conditions)]
        /\ [i \in DOMAIN <<c>> |-> <<c>>[i].items][1] = c.items
    BY <2>3, <2>4
  <2>6. TermsOf(clauses) = c.items
    BY <2>1, <2>5, FlatOfOne DEF TermsOf, c
  <2>7. QED
    BY <2>1, <2>3, <2>6 DEF c
<1>3. QED
  BY <1>1, <1>2, OfKindFew

\* What is read of a text is a beginning of it, with one clause of a kind at most;
\* a plain text is read whole.
LEMMA ReadBeginning ==
  ASSUME NEW text \in Commands
  PROVE  \E n \in 0..Len(text.clauses) : \E m \in 0..Whole(text, n) :
           /\ ClausesRead(text) = Beginning(text, n, m)
           /\ n > 0 => m > 0 /\ text.table.form = "whole"
           /\ \A i, j \in 1..n : text.clauses[i].kind = text.clauses[j].kind => i = j
           /\ ClausesRead(text) \in Seq(ReadSet) /\ Distinct(ClausesRead(text))
           /\ Plain(text) =>
                /\ n = Len(text.clauses) /\ m = Whole(text, n)
                /\ \A k \in 1..Len(ClausesRead(text)) :
                     ClausesRead(text)[k].items = text.clauses[k].items
<1> DEFINE clauses == text.clauses
           Follows(before, c) == Place(before) < Place(c) /\ ReadWhole(before)
           good == {i \in DOMAIN clauses :
                      /\ text.table.form = "whole" /\ Starts(clauses[i])
                      /\ i > 1 => Follows(clauses[i - 1], clauses[i])}
<1>1. clauses \in Seq(Clauses)
  BY TextAssumption
<1>2. /\ Len(clauses) \in Nat /\ DOMAIN clauses = 1..Len(clauses)
      /\ \A i \in 1..Len(clauses) : clauses[i] \in Clauses
  <2> HIDE DEF clauses
  <2>1. QED
    BY <1>1, SeqElements
<1>3. PICK n \in 0..Len(clauses) :
        /\ LongestPrefix(clauses, good) = SubSeq(clauses, 1, n) /\ 1..n \subseteq good
        /\ 1..Len(clauses) \subseteq good => n = Len(clauses)
  <2> HIDE DEF clauses, good
  <2>1. QED
    BY <1>1, PrefixRead
<1> DEFINE raw == SubSeq(clauses, 1, n)
           read == [i \in DOMAIN raw |-> [raw[i] EXCEPT !.items = ItemsRead(raw[i])]]
<1>4. ClausesRead(text) = read
  BY <1>3 DEF ClausesRead
<1>5. /\ raw \in Seq(Clauses) /\ DOMAIN raw = 1..n /\ \A i \in 1..n : raw[i] = clauses[i]
  <2> HIDE DEF clauses
  <2>1. QED
    BY <1>1, SeqPrefix
<1>6. Len(raw) = n
  <2> HIDE DEF raw
  <2>1. QED
    BY <1>2, <1>5, LenProperties
<1>7. \A i \in 1..n : /\ i \in 1..Len(clauses) /\ clauses[i] \in Clauses
                      /\ text.table.form = "whole" /\ Starts(clauses[i])
                      /\ i > 1 => Follows(clauses[i - 1], clauses[i])
  BY <1>2, <1>3
<1> HIDE DEF raw, good, clauses
<1>8. Distinct(raw)
  <2>1. ASSUME NEW i \in 1..Len(raw), i > 1 PROVE Place(raw[i - 1]) < Place(raw[i])
    <3>1. i \in 1..n /\ i - 1 \in 1..n
      BY <1>2, <1>6, <2>1
    <3>2. Place(clauses[i - 1]) < Place(clauses[i])
      BY <1>7, <2>1, <3>1
    <3>3. QED
      BY <1>5, <3>1, <3>2
  <2>2. QED
    BY <1>5, <2>1, GrowingClauses
<1>9. read = [i \in 1..n |-> ReadOf(clauses[i])]
  BY <1>5 DEF ReadOf
<1>10. /\ read \in Seq(ReadSet) /\ Len(read) = n
       /\ \A i \in 1..n : /\ read[i] = ReadOf(clauses[i])
                          /\ read[i].kind = clauses[i].kind
                          /\ read[i].items = ItemsRead(clauses[i])
  <2>1. \A i \in 1..n : ReadOf(clauses[i]) \in ReadSet
    BY <1>7 DEF ReadSet
  <2> HIDE DEF read
  <2>2. read \in [1..n -> ReadSet] /\ n \in Nat
    BY <1>2, <1>9, <2>1
  <2>3. read \in Seq(ReadSet) /\ Len(read) = n
    BY <2>2, FunctionIsSeq
  <2>4. \A i \in 1..n : read[i] = ReadOf(clauses[i])
    BY <1>9
  <2>5. ASSUME NEW i \in 1..n
        PROVE  read[i].kind = clauses[i].kind /\ read[i].items = ItemsRead(clauses[i])
    <3>1. clauses[i] \in Clauses /\ read[i] = ReadOf(clauses[i])
      BY <1>7, <2>4
    <3>2. QED
      BY <3>1, ClauseWith DEF ReadOf
  <2>6. QED
    BY <2>3, <2>4, <2>5
<1> HIDE DEF read
<1>11. Distinct(read) /\ \A i, j \in 1..n : clauses[i].kind = clauses[j].kind => i = j
  BY <1>5, <1>6, <1>8, <1>10 DEF Distinct
<1>12. \A i \in 1..n : clauses[i].items # <<>> /\ ItemsRead(clauses[i]) # <<>>
  <2>1. SUFFICES ASSUME NEW i \in 1..n PROVE clauses[i].items # <<>> /\ ItemsRead(clauses[i]) # <<>>
    OBVIOUS
  <2> DEFINE c == clauses[i]
  <2>2. c \in Clauses /\ ItemsRead(c) # <<>>
    BY <1>7 DEF Starts
  <2> HIDE DEF c
  <2>3. PICK m \in 0..Len(c.items) : ItemsRead(c) = CutItems(c.items, m) /\ m > 0
    BY <2>2, ReadClause
  <2>4. c.items # <<>>
    BY <2>3, EmptySeq
  <2>5. QED
    BY <2>2, <2>4 DEF c
<1>13. ASSUME NEW i \in 1..n, i < n
       PROVE  ItemsRead(clauses[i]) = WrittenItems(clauses[i].items)
  <2>1. i + 1 \in 1..n /\ i + 1 > 1 /\ (i + 1) - 1 = i
    BY <1>2, <1>13
  <2>2. ReadWhole(clauses[i])
    BY <1>7, <2>1
  <2>3. QED
    BY <1>7, <1>12, <2>2, ReadClause DEF ReadWhole
<1>14. \E m \in 0..Whole(text, n) :
         /\ n > 0 => /\ m > 0 /\ ItemsRead(clauses[n]) = CutItems(clauses[n].items, m)
                     /\ (\A i \in 1..Len(clauses[n].items) : PlainItem(clauses[n].kind, clauses[n].items[i]))
                           => m = Whole(text, n)
         /\ n = 0 => m = Whole(text, n)
  <2>1. CASE n = 0
    BY <2>1 DEF Whole
  <2>2. CASE n > 0
    <3>1. n \in 1..n /\ Whole(text, n) = Len(clauses[n].items)
      BY <1>2, <2>2 DEF Whole, clauses
    <3>2. PICK m \in 0..Len(clauses[n].items) :
            /\ ItemsRead(clauses[n]) = CutItems(clauses[n].items, m)
            /\ ItemsRead(clauses[n]) # <<>> => m > 0
            /\ (\A i \in 1..Len(clauses[n].items) : PlainItem(clauses[n].kind, clauses[n].items[i]))
                  => ItemsRead(clauses[n]) = clauses[n].items /\ m = Len(clauses[n].items)
      BY <1>7, <3>1, ReadClause
    <3>3. QED
      BY <1>12, <2>2, <3>1, <3>2
  <2>3. QED
    BY <1>2, <2>1, <2>2
<1>15. PICK m \in 0..Whole(text, n) :
         /\ n > 0 => /\ m > 0 /\ ItemsRead(clauses[n]) = CutItems(clauses[n].items, m)
                     /\ (\A i \in 1..Len(clauses[n].items) : PlainItem(clauses[n].kind, clauses[n].items[i]))
                           => m = Whole(text, n)
         /\ n = 0 => m = Whole(text, n)
  BY <1>14
<1>16. read = Beginning(text, n, m)
  <2> DEFINE items(k) == [i \in 1..(IF k < n THEN Len(clauses[k].items) ELSE m) |->
                            IF k = n /\ i = m THEN clauses[k].items[i] ELSE AsWritten(clauses[k].items[i])]
  <2>1. ASSUME NEW k \in 1..n PROVE ItemsRead(clauses[k]) = items(k)
    <3>1. CASE k < n
      <4>1. items(k) = WrittenItems(clauses[k].items)
        BY <1>2, <3>1 DEF WrittenItems
      <4>2. QED
        BY <1>13, <3>1, <4>1
    <3>2. CASE k = n
      <4>1. items(k) = CutItems(clauses[k].items, m)
        BY <1>2, <3>2 DEF CutItems
      <4>2. QED
        BY <1>2, <1>15, <3>2, <4>1
    <3>3. QED
      BY <1>2, <3>1, <3>2
  <2>2. Beginning(text, n, m) = [k \in 1..n |-> [clauses[k] EXCEPT !.items = items(k)]]
    BY DEF Beginning, clauses
  <2> HIDE DEF items
  <2>3. QED
    BY <1>9, <2>1, <2>2 DEF ReadOf
<1>17. ASSUME Plain(text)
       PROVE  /\ n = Len(clauses) /\ m = Whole(text, n)
              /\ \A k \in 1..Len(read) : read[k].items = clauses[k].items
  <2>1. \A k \in 1..Len(clauses) :
          /\ clauses[k].kind # "other" /\ (clauses[k].kind = "join" => clauses[k].named)
          /\ k > 1 => Place(clauses[k - 1]) < Place(clauses[k])
          /\ \A i \in DOMAIN clauses[k].items : PlainItem(clauses[k].kind, clauses[k].items[i])
    BY <1>2, <1>17 DEF Plain, PlainItem, clauses
  <2>2. \A k \in 1..Len(clauses) :
          \A i \in 1..Len(clauses[k].items) : PlainItem(clauses[k].kind, clauses[k].items[i])
    <3>1. SUFFICES ASSUME NEW k \in 1..Len(clauses)
                   PROVE  DOMAIN clauses[k].items = 1..Len(clauses[k].items)
      BY <2>1
    <3>2. QED
      BY <1>2, ItemsOf, SeqElements
  <2>3. \A k \in 1..Len(clauses) : ItemsRead(clauses[k]) = clauses[k].items
    <3>1. SUFFICES ASSUME NEW k \in 1..Len(clauses) PROVE ItemsRead(clauses[k]) = clauses[k].items
      OBVIOUS
    <3>2. QED
      BY <1>2, <2>2, ReadClause
  <2>4. \A k \in 1..Len(clauses) :
          clauses[k].items # <<>> /\ ReadWhole(clauses[k]) /\ Starts(clauses[k])
    <3>1. SUFFICES ASSUME NEW k \in 1..Len(clauses)
                   PROVE  clauses[k].items # <<>> /\ ReadWhole(clauses[k]) /\ Starts(clauses[k])
      OBVIOUS
    <3> DEFINE c == clauses[k]
    <3>2. c \in Clauses /\ c.kind # "other"
      BY <1>2, <2>1
    <3>3. c.items # <<>>
      <4> HIDE DEF c
      <4>1. CASE c.kind \in {"join", "limit"}
        <5>1. c.items \in [1..1 -> Words] \/ c.items \in [1..1 -> Counts]
          BY <3>2, <4>1 DEF Clauses
        <5>2. DOMAIN c.items = 1..1 /\ 1 \in 1..1
          BY <5>1
        <5>3. DOMAIN <<>> = {}
          OBVIOUS
        <5>4. QED
          BY <5>2, <5>3
      <4>2. CASE c.kind \in {"where", "order"}
        BY <3>2, <4>2 DEF Clauses
      <4>3. c.kind \in {"join", "where", "order", "limit"}
        BY <3>2 DEF Clauses
      <4>4. QED
        BY <4>1, <4>2, <4>3
    <3>4. Last(c.items).form # "part"
      <4>1. Len(c.items) \in 1..Len(c.items)
        <5> HIDE DEF c
        <5>1. Len(c.items) \in Nat /\ Len(c.items) # 0
          BY <3>2, <3>3, ItemsOf, SeqElements, EmptySeq
        <5>2. QED
          BY <5>1
      <4>2. PlainItem(c.kind, c.items[Len(c.items)])
        BY <2>2, <4>1
      <4>3. QED
        BY <4>2 DEF Last, PlainItem
    <3>5. QED
      BY <2>1, <2>3, <3>3, <3>4 DEF Starts, ReadWhole
  <2>5. 1..Len(clauses) \subseteq good
    <3>1. SUFFICES ASSUME NEW k \in 1..Len(clauses) PROVE k \in good
      OBVIOUS
    <3>2. text.table.form = "whole"
      BY <1>17 DEF Plain
    <3>3. k > 1 => k - 1 \in 1..Len(clauses)
      BY <1>2
    <3>4. k > 1 => Follows(clauses[k - 1], clauses[k])
      BY <2>1, <2>4, <3>3
    <3>5. QED
      BY <1>2, <2>4, <3>2, <3>4 DEF good
  <2>6. n = Len(clauses)
    BY <1>3, <2>5
  <2>7. m = Whole(text, n)
    <3>1. CASE n = 0
      BY <1>15, <3>1
    <3>2. CASE n > 0
      <4>1. n \in 1..Len(clauses)
        BY <1>2, <3>2
      <4>2. QED
        BY <1>15, <2>2, <3>2, <4>1
    <3>3. QED
      BY <1>2, <3>1, <3>2
  <2>8. \A k \in 1..Len(read) : read[k].items = clauses[k].items
    BY <1>10, <2>3, <2>6
  <2>9. QED
    BY <2>6, <2>7, <2>8
<1>18. n > 0 => m > 0 /\ text.table.form = "whole"
  <2>1. n > 0 => 1 \in 1..n
    BY <1>2
  <2>2. QED
    BY <1>7, <1>15, <2>1
<1>19. QED
  BY <1>4, <1>10, <1>11, <1>16, <1>17, <1>18 DEF clauses

------------------------------------------------------------------------------
(* The conditions of the query *)

Filter == {FilterArgs(term) : term \in Conditions}

LEMMA FilterOf ==
  ASSUME NEW term \in Conditions
  PROVE  /\ FilterArgs(term) \in Filter /\ FilterArgs(term).column = term.column
         /\ FilterArgs(term).column \in DOMAIN Lower
         /\ Lower[term.column] = term.column => FilterArgs(term) = WrittenFilter(term)
<1>1. term.column \in DOMAIN Lower
  BY DEF Conditions
<1>2. Find(term.comparison) = IF term.comparison = "!=" THEN "<>" ELSE term.comparison
  BY DEF Find
<1>3. QED
  BY <1>1, <1>2 DEF Filter, FilterArgs, WrittenFilter

PartFlags(terms) ==
  [i \in DOMAIN terms |-> IF i \in BeginsPart(terms) THEN <<FilterArgs(terms[i])>> ELSE <<>>]

LEMMA PartsTyped ==
  ASSUME NEW terms \in Seq(Conditions)
  PROVE  /\ PartFlags(terms) \in Seq(Seq(Filter)) /\ Len(PartFlags(terms)) = Len(terms)
         /\ ParsedFilters(terms) = FlattenSeq(PartFlags(terms))
         /\ \A i \in 1..Len(terms) :
              /\ Len(PartFlags(terms)[i]) <= 1
              /\ Len(PartFlags(terms)[i]) = 1 => PartFlags(terms)[i][1] = FilterArgs(terms[i])
<1>1. Len(terms) \in Nat /\ DOMAIN terms = 1..Len(terms) /\ \A i \in 1..Len(terms) : terms[i] \in Conditions
  BY SeqElements
<1>2. \A i \in 1..Len(terms) : FilterArgs(terms[i]) \in Filter
  BY <1>1, FilterOf
<1>3. \A f \in Filter : <<f>> \in Seq(Filter)
  OBVIOUS
<1>4. <<>> \in Seq(Filter) /\ Len(<<>>) = 0
  BY EmptySeq
<1>5. \A i \in 1..Len(terms) :
        \/ PartFlags(terms)[i] = <<FilterArgs(terms[i])>>
        \/ PartFlags(terms)[i] = <<>>
  BY <1>1 DEF PartFlags
<1>6. DOMAIN PartFlags(terms) = 1..Len(terms) /\ PartFlags(terms) \in [1..Len(terms) -> Seq(Filter)]
  <2>1. \A i \in 1..Len(terms) : PartFlags(terms)[i] \in Seq(Filter)
    BY <1>2, <1>3, <1>4, <1>5
  <2>2. QED
    BY <1>1, <2>1 DEF PartFlags
<1>7. PartFlags(terms) \in Seq(Seq(Filter)) /\ Len(PartFlags(terms)) = Len(terms)
  BY <1>1, <1>6, FunctionIsSeq
<1>8. \A f : Len(<<f>>) = 1 /\ <<f>>[1] = f
  OBVIOUS
<1>9. \A i \in 1..Len(terms) :
        /\ Len(PartFlags(terms)[i]) <= 1
        /\ Len(PartFlags(terms)[i]) = 1 => PartFlags(terms)[i][1] = FilterArgs(terms[i])
  <2>1. SUFFICES ASSUME NEW i \in 1..Len(terms)
                 PROVE  /\ Len(PartFlags(terms)[i]) <= 1
                        /\ Len(PartFlags(terms)[i]) = 1 => PartFlags(terms)[i][1] = FilterArgs(terms[i])
    OBVIOUS
  <2>2. CASE PartFlags(terms)[i] = <<FilterArgs(terms[i])>>
    BY <1>8, <2>2
  <2>3. CASE PartFlags(terms)[i] = <<>>
    BY <1>4, <2>3
  <2>4. QED
    BY <1>5, <2>2, <2>3
<1>10. QED
  BY <1>7, <1>9 DEF ParsedFilters, PartFlags

LowerCase(filters) == \A y \in 1..Len(filters) : Lower[filters[y].column] = filters[y].column

\* The filters that are parsed are filters that were written.
LEMMA FiltersPicked ==
  ASSUME NEW terms \in Seq(Conditions), LowerCase(ParsedFilters(terms))
  PROVE  PickedFrom(ParsedFilters(terms), [i \in DOMAIN terms |-> WrittenFilter(terms[i])])
<1> DEFINE parsed == ParsedFilters(terms)
           written == [i \in DOMAIN terms |-> WrittenFilter(terms[i])]
           flags == PartFlags(terms)
<1>1. /\ Len(terms) \in Nat /\ DOMAIN terms = 1..Len(terms)
      /\ \A i \in 1..Len(terms) : terms[i] \in Conditions
  BY SeqElements
<1>2. /\ flags \in Seq(Seq(Filter)) /\ Len(flags) = Len(terms) /\ parsed = FlattenSeq(flags)
      /\ \A i \in 1..Len(terms) :
           /\ Len(flags[i]) <= 1
           /\ Len(flags[i]) = 1 => flags[i][1] = FilterArgs(terms[i])
  BY PartsTyped
<1> HIDE DEF parsed, flags
<1>3. /\ parsed \in Seq(Filter)
      /\ \E from : /\ Picks(from, parsed, flags)
                   /\ \A y \in 1..Len(parsed) : Len(flags[from[y]]) = 1 /\ parsed[y] = flags[from[y]][1]
  BY <1>2, FlatPicks
<1>4. PICK from : /\ Picks(from, parsed, flags)
                  /\ \A y \in 1..Len(parsed) : Len(flags[from[y]]) = 1 /\ parsed[y] = flags[from[y]][1]
  BY <1>3
<1>5. /\ from \in [1..Len(parsed) -> 1..Len(terms)]
      /\ \A i, j \in 1..Len(parsed) : i < j => from[i] < from[j]
  BY <1>2, <1>4 DEF Picks
<1>6. ASSUME NEW y \in 1..Len(parsed) PROVE parsed[y] = written[from[y]]
  <2>1. from[y] \in 1..Len(terms)
    BY <1>5
  <2>2. parsed[y] = FilterArgs(terms[from[y]])
    BY <1>2, <1>4, <2>1
  <2>3. terms[from[y]] \in Conditions
    BY <1>1, <2>1
  <2>4. Lower[parsed[y].column] = parsed[y].column
    BY DEF LowerCase, parsed
  <2>5. FilterArgs(terms[from[y]]) = WrittenFilter(terms[from[y]])
    BY <2>2, <2>3, <2>4, FilterOf
  <2>6. QED
    BY <1>1, <2>1, <2>2, <2>5
<1>7. DOMAIN parsed = 1..Len(parsed) /\ DOMAIN written = 1..Len(terms)
  BY <1>1, <1>3, SeqElements
<1>8. from \in [DOMAIN parsed -> DOMAIN written]
  BY <1>5, <1>7
<1> HIDE DEF written
<1>9. PickedFrom(parsed, written)
  BY <1>5, <1>6, <1>7, <1>8 DEF PickedFrom
<1>10. QED
  BY <1>9 DEF parsed, written

\* Conditions joined by AND between blanks are all parsed.
LEMMA FiltersAll ==
  ASSUME NEW terms \in Seq(Conditions), \A i \in 1..Len(terms) : terms[i].by = "AND",
         LowerCase(ParsedFilters(terms))
  PROVE  ParsedFilters(terms) = [i \in DOMAIN terms |-> WrittenFilter(terms[i])]
<1> DEFINE parsed == [i \in 1..Len(terms) |-> FilterArgs(terms[i])]
<1>1. /\ Len(terms) \in Nat /\ DOMAIN terms = 1..Len(terms)
      /\ \A i \in 1..Len(terms) : terms[i] \in Conditions
  BY SeqElements
<1>2. parsed \in [1..Len(terms) -> Filter]
  BY <1>1, FilterOf
<1>3. parsed \in Seq(Filter) /\ Len(parsed) = Len(terms) /\ DOMAIN parsed = 1..Len(terms)
  <2> HIDE DEF parsed
  <2>1. QED
    BY <1>1, <1>2, FunctionIsSeq
<1>4. \A i \in 1..Len(terms) : PartFlags(terms)[i] = <<parsed[i]>>
  BY <1>1 DEF PartFlags, BeginsPart
<1>5. ParsedFilters(terms) = parsed
  <2> HIDE DEF parsed
  <2>1. QED
    BY <1>3, <1>4, PartsTyped, FlatSingles
<1>6. ASSUME NEW i \in 1..Len(terms) PROVE FilterArgs(terms[i]) = WrittenFilter(terms[i])
  <2>1. parsed[i] = FilterArgs(terms[i])
    OBVIOUS
  <2> HIDE DEF parsed
  <2>2. Lower[parsed[i].column] = parsed[i].column
    BY <1>3, <1>5 DEF LowerCase
  <2>3. QED
    BY <1>1, <2>1, <2>2, FilterOf
<1>7. QED
  BY <1>1, <1>5, <1>6

------------------------------------------------------------------------------
(* The query says what was typed *)

LEMMA QueryParts ==
  ASSUME NEW table, NEW list, NEW clauses, NEW filters, NEW others
  PROVE  /\ QueryOf(table, list, clauses, filters).filters = filters
         /\ \A part \in {"table", "columns", "join", "order", "limit"} :
              QueryOf(table, list, clauses, filters)[part] = QueryOf(table, list, clauses, others)[part]
BY DEF QueryOf

\* Columns that are found in a schema are in lower case.
LEMMA ValidFilters ==
  ASSUME NEW q, q.filters \in Seq(Filter), Validate(q)
  PROVE  LowerCase(q.filters)
<1>1. SUFFICES ASSUME NEW y \in 1..Len(q.filters)
               PROVE  Lower[q.filters[y].column] = q.filters[y].column
  BY DEF LowerCase
<1> DEFINE f == q.filters[y]
<1>2. f \in Filter /\ f \in Range(q.filters)
  BY SeqElements DEF Range
<1>3. f.column \in DOMAIN Lower
  BY <1>2, FilterOf DEF Filter
<1> HIDE DEF f
<1>4. PICK t \in Sources(q) : Has(t, f.column)
  BY <1>2 DEF Validate
<1>5. t \in DOMAIN Columns /\ f.column \in Range(Columns[t])
  BY <1>4 DEF Validate, Has
<1>6. QED
  BY <1>3, <1>5, PlanningAssumption DEF f

LEMMA QuerySaid ==
  ASSUME NEW text \in Commands, Validate(GenerateQuery(text))
  PROVE  Says(GenerateQuery(text), text)
<1> DEFINE q == GenerateQuery(text)
           read == ClausesRead(text)
           terms == TermsOf(read)
           meant == [i \in DOMAIN terms |-> WrittenFilter(terms[i])]
<1>1. PICK n \in 0..Len(text.clauses) : \E m \in 0..Whole(text, n) :
        /\ read = Beginning(text, n, m)
        /\ n > 0 => m > 0 /\ text.table.form = "whole"
        /\ \A i, j \in 1..n : text.clauses[i].kind = text.clauses[j].kind => i = j
        /\ read \in Seq(ReadSet) /\ Distinct(read)
        /\ Plain(text) => /\ n = Len(text.clauses) /\ m = Whole(text, n)
                          /\ \A k \in 1..Len(read) : read[k].items = text.clauses[k].items
  BY ReadBeginning
<1>2. PICK m \in 0..Whole(text, n) :
        /\ read = Beginning(text, n, m)
        /\ n > 0 => m > 0 /\ text.table.form = "whole"
        /\ \A i, j \in 1..n : text.clauses[i].kind = text.clauses[j].kind => i = j
        /\ read \in Seq(ReadSet) /\ Distinct(read)
        /\ Plain(text) => /\ n = Len(text.clauses) /\ m = Whole(text, n)
                          /\ \A k \in 1..Len(read) : read[k].items = text.clauses[k].items
  BY <1>1
<1>3. text.clauses \in Seq(Clauses) /\ text.table \in Tables
  BY TextAssumption
<1>4. (IF n = 0 THEN text.table.read ELSE text.table.written) = text.table.read
  <2>1. n # 0 => n > 0
    BY <1>3, LenProperties
  <2>2. text.table.form = "whole" => text.table.read = text.table.written
    BY <1>3 DEF Tables, Token
  <2>3. QED
    BY <1>2, <2>1, <2>2
<1>5. q = QueryOf(text.table.read, text.list, read, ParsedFilters(terms))
  BY DEF GenerateQuery
<1>6. Meaning(text, n, m) = QueryOf(text.table.read, text.list, read, meant)
  BY <1>2, <1>4 DEF Meaning
<1>7. q.filters = ParsedFilters(terms) /\ Meaning(text, n, m).filters = meant
  BY <1>5, <1>6, QueryParts
<1> HIDE DEF read
<1>8. /\ terms \in Seq(Conditions)
      /\ \/ terms = <<>>
         \/ \E k \in 1..Len(read) : read[k].kind = "where" /\ terms = read[k].items
  BY <1>2, WhereTerms
<1> HIDE DEF terms, q, meant
<1>9. LowerCase(ParsedFilters(terms))
  <2>1. ParsedFilters(terms) \in Seq(Filter)
    BY <1>8, PartsTyped, FlatPicks
  <2>2. Validate(q)
    BY DEF q
  <2>3. QED
    BY <1>7, <2>1, <2>2, ValidFilters
<1>10. PickedFrom(ParsedFilters(terms), meant)
  BY <1>8, <1>9, FiltersPicked DEF meant
<1>11. SaysTo(q, text, n, m)
  <2>1. \A part \in {"table", "columns", "join", "order", "limit"} : q[part] = Meaning(text, n, m)[part]
    BY <1>5, <1>6, QueryParts
  <2>2. QED
    BY <1>2, <1>7, <1>10, <2>1 DEF SaysTo
<1>12. ASSUME Plain(text) PROVE q = Meaning(text, Len(text.clauses), Whole(text, Len(text.clauses)))
  <2>1. \A i \in 1..Len(terms) : terms[i].by = "AND"
    <3>1. CASE terms = <<>>
      BY <3>1, EmptySeq
    <3>2. CASE \E k \in 1..Len(read) : read[k].kind = "where" /\ terms = read[k].items
      <4>1. PICK k \in 1..Len(read) : read[k].kind = "where" /\ terms = read[k].items
        BY <3>2
      <4>2. terms = text.clauses[k].items
        BY <1>2, <1>12, <4>1
      <4>3. DOMAIN terms = 1..Len(terms) /\ \A i \in 1..Len(terms) : terms[i] \in Conditions
        BY <1>8, SeqElements
      <4>4. k \in DOMAIN text.clauses
        <5>1. Len(read) = n
          <6>1. DOMAIN read = 1..n
            BY <1>2 DEF Beginning
          <6>2. n \in Nat
            BY <1>3, LenProperties
          <6>3. QED
            BY <1>2, <6>1, <6>2, LenProperties
        <5>2. QED
          BY <1>2, <1>3, <1>12, <4>1, <5>1, SeqElements
      <4>5. \A i \in 1..Len(terms) : terms[i].by \in {"AND", ","}
        BY <1>12, <4>2, <4>3, <4>4 DEF Plain
      <4>6. QED
        BY <4>3, <4>5 DEF Conditions
    <3>3. QED
      BY <1>8, <3>1, <3>2
  <2>2. ParsedFilters(terms) = meant
    BY <1>8, <1>9, <2>1, FiltersAll DEF meant
  <2>3. QED
    BY <1>2, <1>5, <1>6, <1>12, <2>2
<1>13. QED
  BY <1>2, <1>11, <1>12 DEF Says, q

------------------------------------------------------------------------------
(* The order of the filters *)

\* t is s in the order of place.
Rearranged(s, t, place) ==
  /\ place \in [1..Len(s) -> 1..Len(t)]
  /\ \A i, j \in 1..Len(s) : place[i] = place[j] => i = j
  /\ \A k \in 1..Len(t) : \E i \in 1..Len(s) : place[i] = k
  /\ \A i \in 1..Len(s) : t[place[i]] = s[i]

LEMMA FirstMoved ==
  ASSUME NEW S, NEW s \in Seq(S), NEW k \in 1..Len(s)
  PROVE  /\ <<s[k]>> \o RemoveAt(s, k) \in Seq(S)
         /\ \E place : Rearranged(s, <<s[k]>> \o RemoveAt(s, k), place)
<1> DEFINE a == SubSeq(s, 1, k - 1)
           b == SubSeq(s, k + 1, Len(s))
           r == a \o b
           t == <<s[k]>> \o r
           place == [i \in 1..Len(s) |-> IF i = k THEN 1 ELSE IF i < k THEN i + 1 ELSE i]
<1>1. Len(s) \in Nat /\ k \in Nat /\ k >= 1 /\ k <= Len(s) /\ \A i \in 1..Len(s) : s[i] \in S
  BY SeqElements
<1>2. a \in Seq(S) /\ Len(a) = k - 1 /\ \A i \in 1..(k - 1) : a[i] = s[i]
  <2>1. \A i \in 1..(k - 1) : s[i] \in S /\ 1 + i - 1 = i
    BY <1>1
  <2>2. /\ a \in Seq(S) /\ Len(a) = IF 1 <= k - 1 THEN k - 1 - 1 + 1 ELSE 0
        /\ \A i \in 1..(k - 1 - 1 + 1) : a[i] = s[1 + i - 1]
    BY <1>1, <2>1, SubSeqProperties
  <2> HIDE DEF a
  <2>3. QED
    BY <1>1, <2>1, <2>2
<1>3. b \in Seq(S) /\ Len(b) = Len(s) - k /\ \A i \in 1..(Len(s) - k) : b[i] = s[k + i]
  <2>1. \A i \in (k + 1)..Len(s) : s[i] \in S
    BY <1>1
  <2>2. /\ b \in Seq(S) /\ Len(b) = IF k + 1 <= Len(s) THEN Len(s) - (k + 1) + 1 ELSE 0
        /\ \A i \in 1..(Len(s) - (k + 1) + 1) : b[i] = s[k + 1 + i - 1]
    BY <1>1, <2>1, SubSeqProperties
  <2>3. /\ \A i \in Nat : k + 1 + i - 1 = k + i
        /\ Len(s) - (k + 1) + 1 = Len(s) - k
        /\ ~(k + 1 <= Len(s)) => Len(s) - k = 0
        /\ \A i \in 1..(Len(s) - k) : i \in Nat
    BY <1>1
  <2> HIDE DEF b
  <2>4. QED
    BY <1>1, <2>2, <2>3
<1> HIDE DEF a, b
<1>4. /\ r \in Seq(S) /\ Len(r) = Len(s) - 1
      /\ \A i \in 1..(Len(s) - 1) : r[i] = IF i < k THEN s[i] ELSE s[i + 1]
  <2>1. /\ r \in Seq(S) /\ Len(r) = Len(a) + Len(b)
        /\ \A i \in 1..(Len(a) + Len(b)) : r[i] = IF i <= Len(a) THEN a[i] ELSE b[i - Len(a)]
    BY <1>2, <1>3, ConcatProperties
  <2> HIDE DEF r
  <2>2. ASSUME NEW i \in 1..(Len(s) - 1) PROVE r[i] = IF i < k THEN s[i] ELSE s[i + 1]
    <3>1. CASE i < k
      <4>1. i \in 1..(k - 1) /\ i <= Len(a) /\ i \in 1..(Len(a) + Len(b))
        BY <1>1, <1>2, <1>3, <3>1
      <4>2. QED
        BY <1>2, <2>1, <3>1, <4>1
    <3>2. CASE ~(i < k)
      <4>1. /\ ~(i <= Len(a)) /\ i \in 1..(Len(a) + Len(b)) /\ i - Len(a) \in 1..(Len(s) - k)
            /\ k + (i - Len(a)) = i + 1
        BY <1>1, <1>2, <1>3, <3>2
      <4>2. QED
        BY <1>3, <2>1, <3>2, <4>1
    <3>3. QED
      BY <3>1, <3>2
  <2>3. QED
    BY <1>1, <1>2, <1>3, <2>1, <2>2
<1> HIDE DEF r
<1>5. /\ t \in Seq(S) /\ Len(t) = Len(s) /\ t[1] = s[k]
      /\ \A i \in 2..Len(s) : t[i] = r[i - 1]
  <2>1. <<s[k]>> \in Seq(S) /\ Len(<<s[k]>>) = 1 /\ <<s[k]>>[1] = s[k]
    BY <1>1
  <2>2. /\ t \in Seq(S) /\ Len(t) = 1 + Len(r)
        /\ \A i \in 1..(1 + Len(r)) : t[i] = IF i <= 1 THEN <<s[k]>>[i] ELSE r[i - 1]
    BY <1>4, <2>1, ConcatProperties
  <2> HIDE DEF t
  <2>3. QED
    BY <1>1, <1>4, <2>1, <2>2
<1> HIDE DEF t
<1>6. /\ place \in [1..Len(s) -> 1..Len(t)]
      /\ \A i, j \in 1..Len(s) : place[i] = place[j] => i = j
  BY <1>1, <1>5
<1>7. \A n \in 1..Len(t) : \E i \in 1..Len(s) : place[i] = n
  <2>1. SUFFICES ASSUME NEW n \in 1..Len(t) PROVE \E i \in 1..Len(s) : place[i] = n
    OBVIOUS
  <2>2. CASE n = 1
    BY <1>1, <2>2
  <2>3. CASE n > 1 /\ n <= k
    <3>1. n - 1 \in 1..Len(s) /\ n - 1 # k /\ n - 1 < k
      BY <1>1, <1>5, <2>3
    <3>2. place[n - 1] = n
      BY <3>1
    <3>3. QED
      BY <3>1, <3>2
  <2>4. CASE n > k
    <3>1. n \in 1..Len(s) /\ n # k /\ ~(n < k)
      BY <1>1, <1>5, <2>4
    <3>2. QED
      BY <3>1
  <2>5. QED
    BY <1>1, <1>5, <2>2, <2>3, <2>4
<1>8. ASSUME NEW i \in 1..Len(s) PROVE t[place[i]] = s[i]
  <2>1. CASE i = k
    BY <1>5, <2>1
  <2>2. CASE i < k
    <3>1. /\ place[i] = i + 1 /\ i + 1 \in 2..Len(s) /\ i + 1 - 1 = i /\ i \in 1..(Len(s) - 1)
      BY <1>1, <2>2
    <3> HIDE DEF place
    <3>2. QED
      BY <1>4, <1>5, <2>2, <3>1
  <2>3. CASE i > k
    <3>1. /\ place[i] = i /\ i \in 2..Len(s) /\ i - 1 \in 1..(Len(s) - 1) /\ ~(i - 1 < k)
          /\ i - 1 + 1 = i
      BY <1>1, <2>3
    <3> HIDE DEF place
    <3>2. QED
      BY <1>4, <1>5, <3>1
  <2>4. QED
    BY <1>1, <2>1, <2>2, <2>3
<1> HIDE DEF place
<1>9. Rearranged(s, t, place)
  BY <1>6, <1>7, <1>8 DEF Rearranged
<1>10. t = <<s[k]>> \o RemoveAt(s, k)
  BY DEF t, r, a, b, RemoveAt
<1>11. QED
  BY <1>5, <1>9, <1>10

LEMMA NoneMoved ==
  ASSUME NEW S, NEW s \in Seq(S)
  PROVE  \E place : Rearranged(s, s, place)
<1> DEFINE place == [i \in 1..Len(s) |-> i]
<1>1. Rearranged(s, s, place)
  BY DEF Rearranged
<1>2. QED
  BY <1>1

LEMMA FiltersRearranged ==
  ASSUME NEW S, NEW q, q.filters \in Seq(S)
  PROVE  /\ OrderedFilters(q) \in Seq(S)
         /\ \E place : Rearranged(q.filters, OrderedFilters(q), place)
<1> DEFINE I == {i \in 1..Len(q.filters) : Indexable(q, q.filters[i])}
           first == IF I # {} THEN Min(I) ELSE 0
<1>1. OrderedFilters(q) = IF q.join # <<>> \/ first = 0 THEN q.filters
                          ELSE <<q.filters[first]>> \o RemoveAt(q.filters, first)
  BY DEF OrderedFilters, SelectInSeq
<1>2. first = 0 \/ first \in 1..Len(q.filters)
  <2>1. CASE I # {}
    <3>1. I \subseteq Nat
      OBVIOUS
    <3> HIDE DEF I
    <3>2. \E n \in I : \A m \in I : n <= m
      BY <2>1, <3>1, LeastIn
    <3>3. Min(I) \in I
      BY <3>2 DEF Min
    <3>4. QED
      BY <2>1, <3>3 DEF I
  <2>2. QED
    BY <2>1
<1> HIDE DEF first
<1>3. CASE q.join # <<>> \/ first = 0
  BY <1>1, <1>3, NoneMoved
<1>4. CASE ~(q.join # <<>> \/ first = 0)
  BY <1>1, <1>2, <1>4, FirstMoved
<1>5. QED
  BY <1>3, <1>4

------------------------------------------------------------------------------
(* The stages of a plan *)

Ops == {"scan", "index", "join", "filter", "order", "project", "limit"}
Stage(B) == [op : Ops, by : B]

\* What the planner uses: one join and one limit at most, and arguments in B.
Plannable(q, B) ==
  /\ q.filters \in Seq(B) /\ q.join \in Seq(B) /\ q.limit \in Seq(B)
  /\ Len(q.join) <= 1 /\ Len(q.limit) <= 1
  /\ q.order \in B /\ q.columns \in B /\ <<>> \in B

LEMMA StagesAre ==
  ASSUME NEW B, NEW op \in Ops, NEW args \in Seq(B)
  PROVE  /\ Stages(op, args) \in Seq(Stage(B)) /\ Len(Stages(op, args)) = Len(args)
         /\ \A i \in 1..Len(args) : Stages(op, args)[i] = [op |-> op, by |-> args[i]]
<1>1. Len(args) \in Nat /\ DOMAIN args = 1..Len(args) /\ \A i \in 1..Len(args) : args[i] \in B
  BY SeqElements
<1>2. Stages(op, args) \in [1..Len(args) -> Stage(B)]
  BY <1>1 DEF Stages, Stage
<1>3. QED
  BY <1>1, <1>2, FunctionIsSeq DEF Stages

LEMMA StageIfIs ==
  ASSUME NEW B, NEW op \in Ops, NEW args \in B
  PROVE  /\ StageIf(op, args) \in Seq(Stage(B))
         /\ \/ args = <<>> /\ Len(StageIf(op, args)) = 0
            \/ /\ args # <<>> /\ Len(StageIf(op, args)) = 1
               /\ StageIf(op, args)[1] = [op |-> op, by |-> args]
<1>1. CASE args = <<>>
  BY <1>1, EmptySeq DEF StageIf
<1>2. CASE args # <<>>
  <2>1. [op |-> op, by |-> args] \in Stage(B)
    BY DEF Stage
  <2>2. \A e \in Stage(B) : <<e>> \in Seq(Stage(B)) /\ Len(<<e>>) = 1 /\ <<e>>[1] = e
    OBVIOUS
  <2>3. QED
    BY <1>2, <2>1, <2>2 DEF StageIf
<1>3. QED
  BY <1>1, <1>2

\* a begins with d stages that are no condition, and applies the filters.
Applies(q, a, filters, d) ==
  /\ d \in {0, 1} /\ Len(a) = Len(filters) + d /\ Len(a) >= 1
  /\ \A i \in 1..Len(filters) :
       a[i + d] = [op |-> IF i + d = 1 THEN "index" ELSE "filter", by |-> filters[i]]
  /\ d = 0 => q.join = <<>> /\ Indexable(q, filters[1])
  /\ d = 1 => /\ a[1].op = IF q.join # <<>> THEN "join" ELSE "scan"
              /\ q.join # <<>> => <<a[1].by>> = q.join

LEMMA OneStage ==
  ASSUME NEW B, NEW s \in Seq(Stage(B)), Len(s) = 1, NEW filters \in Seq(B)
  PROVE  LET a == s \o Stages("filter", filters)
         IN  /\ a \in Seq(Stage(B)) /\ Len(a) = Len(filters) + 1 /\ a[1] = s[1]
             /\ \A i \in 1..Len(filters) : a[i + 1] = [op |-> "filter", by |-> filters[i]]
<1> DEFINE t == Stages("filter", filters)
           a == s \o t
<1>1. /\ t \in Seq(Stage(B)) /\ Len(t) = Len(filters) /\ Len(filters) \in Nat
      /\ \A i \in 1..Len(filters) : t[i] = [op |-> "filter", by |-> filters[i]]
  BY StagesAre, SeqElements DEF Ops
<1> HIDE DEF t
<1>2. /\ a \in Seq(Stage(B)) /\ Len(a) = 1 + Len(filters)
      /\ \A i \in 1..(1 + Len(filters)) : a[i] = IF i <= 1 THEN s[i] ELSE t[i - 1]
  BY <1>1, ConcatProperties
<1> HIDE DEF a
<1>3. a[1] = s[1]
  BY <1>1, <1>2
<1>4. \A i \in 1..Len(filters) : a[i + 1] = t[i]
  BY <1>1, <1>2
<1>5. QED
  BY <1>1, <1>2, <1>3, <1>4 DEF a, t

LEMMA AccessShape ==
  ASSUME NEW B, NEW q, Plannable(q, B)
  PROVE  /\ Access(q) \in Seq(Stage(B))
         /\ \E d : Applies(q, Access(q), OrderedFilters(q), d)
<1> DEFINE filters == OrderedFilters(q)
<1>1. filters \in Seq(B)
  BY FiltersRearranged DEF Plannable
<1> HIDE DEF filters
<1>2. Len(filters) \in Nat /\ \A i \in 1..Len(filters) : filters[i] \in B
  BY <1>1, SeqElements
<1>3. \A e \in Stage(B) : <<e>> \in Seq(Stage(B)) /\ Len(<<e>>) = 1 /\ <<e>>[1] = e
  OBVIOUS
<1>4. CASE q.join # <<>>
  <2>1. q.join \in Seq(B) /\ Len(q.join) = 1
    <3>1. q.join \in Seq(B) /\ Len(q.join) \in Nat /\ Len(q.join) <= 1
      BY LenProperties DEF Plannable
    <3>2. Len(q.join) # 0
      BY <1>4, <3>1, EmptySeq
    <3>3. \A n \in Nat : n <= 1 /\ n # 0 => n = 1
      OBVIOUS
    <3> DEFINE n == Len(q.join)
    <3>4. n \in Nat /\ n <= 1 /\ n # 0
      BY <3>1, <3>2
    <3> HIDE DEF n
    <3>5. n = 1
      BY <3>3, <3>4
    <3>6. QED
      BY <3>1, <3>5 DEF n
  <2>2. q.join = <<q.join[1]>>
    BY <2>1
  <2> DEFINE s == Stages("join", q.join)
  <2>9. "join" \in Ops /\ 1 \in 1..1
    BY DEF Ops
  <2>10. /\ s \in Seq(Stage(B)) /\ Len(s) = Len(q.join)
         /\ \A i \in 1..Len(q.join) : s[i] = [op |-> "join", by |-> q.join[i]]
    BY <2>1, <2>9, StagesAre
  <2>3. s \in Seq(Stage(B)) /\ Len(s) = 1 /\ s[1] = [op |-> "join", by |-> q.join[1]]
    BY <2>1, <2>9, <2>10
  <2>4. Access(q) = s \o Stages("filter", filters)
    BY <1>4 DEF Access, filters
  <2> HIDE DEF s
  <2>5. /\ Access(q) \in Seq(Stage(B)) /\ Len(Access(q)) = Len(filters) + 1 /\ Access(q)[1] = s[1]
        /\ \A i \in 1..Len(filters) : Access(q)[i + 1] = [op |-> "filter", by |-> filters[i]]
    BY <1>1, <2>3, <2>4, OneStage
  <2>6. \A i \in 1..Len(filters) : i + 1 # 1
    BY <1>2
  <2>7. Applies(q, Access(q), filters, 1)
    BY <1>2, <1>4, <2>2, <2>3, <2>5, <2>6 DEF Applies
  <2>8. QED
    BY <2>5, <2>7 DEF filters
<1>5. CASE q.join = <<>> /\ filters # <<>> /\ Indexable(q, Head(filters))
  <2> DEFINE rest == Tail(filters)
             e == [op |-> "index", by |-> Head(filters)]
  <2>1. /\ rest \in Seq(B) /\ Len(rest) = Len(filters) - 1
        /\ \A i \in 1..Len(rest) : rest[i] = filters[i + 1]
    BY <1>1, <1>5, HeadTailProperties
  <2>2. Len(filters) >= 1 /\ Head(filters) = filters[1]
    BY <1>1, <1>2, <1>5, EmptySeq
  <2>3. e \in Stage(B)
    BY <1>2, <2>2 DEF Stage, Ops
  <2>12. e.op = "index" /\ e.by = Head(filters) /\ e = [op |-> "index", by |-> Head(filters)]
    OBVIOUS
  <2> HIDE DEF e
  <2> DEFINE s == <<e>>
  <2>4. Access(q) = s \o Stages("filter", rest)
    BY <1>5 DEF Access, filters, e
  <2>11. s \in Seq(Stage(B)) /\ Len(s) = 1 /\ s[1] = e
    BY <1>3, <2>3
  <2>13. rest \in Seq(B)
    BY <2>1
  <2> HIDE DEF rest, s
  <2>5. /\ Access(q) \in Seq(Stage(B)) /\ Len(Access(q)) = Len(rest) + 1 /\ Access(q)[1] = s[1]
        /\ \A i \in 1..Len(rest) : Access(q)[i + 1] = [op |-> "filter", by |-> rest[i]]
    BY <2>13, <2>11, <2>4, OneStage
  <2>6. ASSUME NEW i \in 1..Len(filters)
        PROVE  Access(q)[i + 0] = [op |-> IF i + 0 = 1 THEN "index" ELSE "filter", by |-> filters[i]]
    <3>1. CASE i = 1
      BY <2>2, <2>5, <2>11, <2>12, <3>1
    <3>2. CASE i # 1
      <4>1. i - 1 \in 1..Len(rest) /\ i - 1 + 1 = i /\ i + 0 = i
        BY <1>2, <2>1, <3>2
      <4>2. Access(q)[i] = [op |-> "filter", by |-> rest[i - 1]] /\ rest[i - 1] = filters[i]
        BY <2>1, <2>5, <4>1
      <4>3. QED
        BY <3>2, <4>1, <4>2
    <3>3. QED
      BY <3>1, <3>2
  <2>7. Len(Access(q)) = Len(filters) + 0 /\ Len(Access(q)) >= 1
    BY <1>2, <2>1, <2>2, <2>5
  <2>8. Applies(q, Access(q), filters, 0)
    BY <1>5, <2>2, <2>6, <2>7 DEF Applies
  <2>9. QED
    BY <2>5, <2>8 DEF filters
<1>6. CASE q.join = <<>> /\ ~(filters # <<>> /\ Indexable(q, Head(filters)))
  <2> DEFINE e == [op |-> "scan", by |-> <<>>]
  <2>1. e \in Stage(B)
    BY DEF Stage, Ops, Plannable
  <2>3. e.op = "scan"
    OBVIOUS
  <2> DEFINE s == <<e>>
  <2>2. Access(q) = s \o Stages("filter", filters)
    BY <1>6 DEF Access, filters
  <2> HIDE DEF e
  <2>8. s \in Seq(Stage(B)) /\ Len(s) = 1 /\ s[1] = e
    BY <1>3, <2>1
  <2> HIDE DEF s
  <2>4. /\ Access(q) \in Seq(Stage(B)) /\ Len(Access(q)) = Len(filters) + 1 /\ Access(q)[1] = e
        /\ \A i \in 1..Len(filters) : Access(q)[i + 1] = [op |-> "filter", by |-> filters[i]]
    BY <1>1, <2>2, <2>8, OneStage
  <2>5. \A i \in 1..Len(filters) : i + 1 # 1
    BY <1>2
  <2>6. Applies(q, Access(q), filters, 1)
    BY <1>2, <1>6, <2>3, <2>4, <2>5 DEF Applies
  <2>7. QED
    BY <2>4, <2>6 DEF filters
<1>7. QED
  BY <1>4, <1>5, <1>6
------------------------------------------------------------------------------
(* The parts of a plan *)

LEMMA TwoParts ==
  ASSUME NEW S, NEW a \in Seq(S), NEW b \in Seq(S)
  PROVE  /\ a \o b \in Seq(S) /\ Len(a \o b) = Len(a) + Len(b)
         /\ Len(a) \in Nat /\ Len(b) \in Nat
         /\ \A i \in 1..Len(a) : i \in 1..Len(a \o b) /\ (a \o b)[i] = a[i]
         /\ \A i \in 1..Len(b) : (a \o b)[Len(a) + i] = b[i]
<1>1. Len(a) \in Nat /\ Len(b) \in Nat
  BY SeqElements
<1> DEFINE t == a \o b
<1>2. /\ t \in Seq(S) /\ Len(t) = Len(a) + Len(b)
      /\ \A i \in 1..(Len(a) + Len(b)) : t[i] = IF i <= Len(a) THEN a[i] ELSE b[i - Len(a)]
  BY ConcatProperties
<1> HIDE DEF t
<1>3. \A i \in 1..Len(a) : i \in 1..Len(t) /\ t[i] = a[i]
  BY <1>1, <1>2
<1>4. \A i \in 1..Len(b) : t[Len(a) + i] = b[i]
  <2>1. SUFFICES ASSUME NEW i \in 1..Len(b) PROVE t[Len(a) + i] = b[i]
    OBVIOUS
  <2>2. /\ Len(a) + i \in 1..(Len(a) + Len(b)) /\ ~(Len(a) + i <= Len(a))
        /\ Len(a) + i - Len(a) = i
    BY <1>1
  <2>3. QED
    BY <1>2, <2>2
<1>5. QED
  BY <1>1, <1>2, <1>3, <1>4 DEF t

\* s is the access a and then o sorts, p projections and l limits, as q says.
Parts(q, a, s, o, p, l) ==
  /\ {o, p, l} \subseteq {0, 1} /\ Len(s) = Len(a) + o + p + l
  /\ \A k \in 1..Len(a) : s[k] = a[k]
  /\ o = 0 => q.order = <<>>
  /\ o = 1 => q.order # <<>> /\ s[Len(a) + 1] = [op |-> "order", by |-> q.order]
  /\ p = 0 => q.columns = <<>>
  /\ p = 1 => q.columns # <<>> /\ s[Len(a) + o + 1] = [op |-> "project", by |-> q.columns]
  /\ l = 0 => q.limit = <<>>
  /\ l = 1 => /\ s[Len(a) + o + p + 1] = [op |-> "limit", by |-> q.limit[1]]
              /\ q.limit = <<q.limit[1]>>

LEMMA LimitStages ==
  ASSUME NEW B, NEW args \in Seq(B), Len(args) <= 1
  PROVE  /\ Stages("limit", args) \in Seq(Stage(B))
         /\ \/ args = <<>> /\ Len(Stages("limit", args)) = 0
            \/ /\ args = <<args[1]>> /\ Len(Stages("limit", args)) = 1
               /\ Stages("limit", args)[1] = [op |-> "limit", by |-> args[1]]
<1> DEFINE n == Len(args)
<1>1. n \in Nat /\ n <= 1
  BY SeqElements
<1>2. "limit" \in Ops
  BY DEF Ops
<1>3. /\ Stages("limit", args) \in Seq(Stage(B)) /\ Len(Stages("limit", args)) = n
      /\ \A i \in 1..n : Stages("limit", args)[i] = [op |-> "limit", by |-> args[i]]
  BY <1>2, StagesAre
<1>4. n = 0 => args = <<>>
  BY EmptySeq
<1>5. n = 1 => args = <<args[1]>>
  OBVIOUS
<1> HIDE DEF n
<1>8. \A k \in Nat : k <= 1 => k = 0 \/ k = 1
  OBVIOUS
<1>9. n = 0 \/ n = 1
  BY <1>1, <1>8
<1>6. n = 0 \/ (n = 1 /\ 1 \in 1..n)
  BY <1>9
<1>7. QED
  BY <1>3, <1>4, <1>5, <1>6

LEMMA PlanParts ==
  ASSUME NEW B, NEW q, Plannable(q, B)
  PROVE  /\ Planned(q) \in Seq(Stage(B))
         /\ \E o, p, l : Parts(q, Access(q), Planned(q), o, p, l)
<1> DEFINE a == Access(q)
           so == StageIf("order", q.order)
           sp == StageIf("project", q.columns)
           sl == Stages("limit", q.limit)
           S == Stage(B)
<1>1. a \in Seq(S)
  BY AccessShape
<1>2. "order" \in Ops /\ "project" \in Ops
  BY DEF Ops
<1>3. /\ so \in Seq(S)
      /\ \/ q.order = <<>> /\ Len(so) = 0
         \/ q.order # <<>> /\ Len(so) = 1 /\ so[1] = [op |-> "order", by |-> q.order]
  BY <1>2, StageIfIs DEF Plannable
<1>4. /\ sp \in Seq(S)
      /\ \/ q.columns = <<>> /\ Len(sp) = 0
         \/ q.columns # <<>> /\ Len(sp) = 1 /\ sp[1] = [op |-> "project", by |-> q.columns]
  BY <1>2, StageIfIs DEF Plannable
<1>5. /\ sl \in Seq(S)
      /\ \/ q.limit = <<>> /\ Len(sl) = 0
         \/ /\ q.limit = <<q.limit[1]>> /\ Len(sl) = 1
            /\ sl[1] = [op |-> "limit", by |-> q.limit[1]]
  BY LimitStages DEF Plannable
<1>6. Planned(q) = ((a \o so) \o sp) \o sl
  BY DEF Planned
<1> HIDE DEF a, so, sp, sl, S
<1> DEFINE s1 == a \o so
           s2 == s1 \o sp
           s3 == s2 \o sl
           n == Len(a)
           o == Len(so)
           p == Len(sp)
           l == Len(sl)
<1>7. /\ s1 \in Seq(S) /\ Len(s1) = n + o /\ n \in Nat
      /\ \A i \in 1..n : i \in 1..Len(s1) /\ s1[i] = a[i]
      /\ \A i \in 1..o : s1[n + i] = so[i]
  BY <1>1, <1>3, TwoParts
<1> HIDE DEF s1
<1>8. /\ s2 \in Seq(S) /\ Len(s2) = Len(s1) + p
      /\ \A i \in 1..Len(s1) : i \in 1..Len(s2) /\ s2[i] = s1[i]
      /\ \A i \in 1..p : s2[Len(s1) + i] = sp[i]
  <2>1. s1 \in Seq(S) /\ sp \in Seq(S)
    BY <1>4, <1>7
  <2> QED
    BY <2>1, TwoParts
<1> HIDE DEF s2
<1>9. /\ s3 \in Seq(S) /\ Len(s3) = Len(s2) + l
      /\ \A i \in 1..Len(s2) : s3[i] = s2[i]
      /\ \A i \in 1..l : s3[Len(s2) + i] = sl[i]
  BY <1>5, <1>8, TwoParts
<1> HIDE DEF s3
<1>10. {o, p, l} \subseteq {0, 1}
  BY <1>3, <1>4, <1>5
<1> HIDE DEF n, o, p, l
<1>11. Len(s1) = n + o /\ Len(s2) = n + o + p /\ Len(s3) = n + o + p + l
  BY <1>7, <1>8, <1>9, <1>10
<1>12. \A k \in 1..n : s3[k] = a[k]
  BY <1>7, <1>8, <1>9
<1>13. ASSUME o = 1 PROVE s3[n + 1] = so[1]
  <2>1. 1 \in 1..o /\ n + 1 \in 1..Len(s1)
    BY <1>7, <1>11, <1>13
  <2>2. QED
    BY <1>7, <1>8, <1>9, <2>1
<1>14. ASSUME p = 1 PROVE s3[n + o + 1] = sp[1]
  <2>1. 1 \in 1..p /\ n + o + 1 \in 1..Len(s2)
    BY <1>7, <1>10, <1>11, <1>14
  <2>2. s2[n + o + 1] = sp[1]
    BY <1>8, <1>11, <2>1
  <2>3. QED
    BY <1>9, <2>1, <2>2
<1>15. ASSUME l = 1 PROVE s3[n + o + p + 1] = sl[1]
  <2>1. 1 \in 1..l
    BY <1>15
  <2>2. QED
    BY <1>9, <1>11, <2>1
<1>16. /\ o = 0 => q.order = <<>>
       /\ o = 1 => q.order # <<>> /\ so[1] = [op |-> "order", by |-> q.order]
  BY <1>3 DEF o
<1>17. /\ p = 0 => q.columns = <<>>
       /\ p = 1 => q.columns # <<>> /\ sp[1] = [op |-> "project", by |-> q.columns]
  BY <1>4 DEF p
<1>18. /\ l = 0 => q.limit = <<>>
       /\ l = 1 => /\ sl[1] = [op |-> "limit", by |-> q.limit[1]]
                   /\ q.limit = <<q.limit[1]>>
  BY <1>5 DEF l
<1>19. Parts(q, a, s3, o, p, l)
  BY <1>10, <1>11, <1>12, <1>13, <1>14, <1>15, <1>16, <1>17, <1>18 DEF Parts, n
<1>20. Planned(q) = s3
  BY <1>6 DEF s1, s2, s3
<1>21. QED
  BY <1>9, <1>19, <1>20 DEF a, S
------------------------------------------------------------------------------
(* What a plan does *)

LEMMA Ranks ==
  /\ Rank("scan") = 1 /\ Rank("index") = 1 /\ Rank("join") = 1 /\ Rank("filter") = 2
  /\ Rank("order") = 3 /\ Rank("project") = 4 /\ Rank("limit") = 5
BY DEF Rank

\* The stage at each place of a plan.
Placed(q, a, s, o, p, k) ==
  \/ k = 1 /\ s[k] = a[k] /\ s[k].op \in {"scan", "index", "join"} /\ Rank(s[k].op) = 1
  \/ k \in 2..Len(a) /\ s[k] = a[k] /\ s[k].op = "filter" /\ Rank(s[k].op) = 2
  \/ /\ k = Len(a) + 1 /\ o = 1 /\ Rank(s[k].op) = 3
     /\ q.order # <<>> /\ s[k] = [op |-> "order", by |-> q.order]
  \/ /\ k = Len(a) + o + 1 /\ p = 1 /\ Rank(s[k].op) = 4
     /\ q.columns # <<>> /\ s[k] = [op |-> "project", by |-> q.columns]
  \/ /\ k = Len(a) + o + p + 1 /\ Rank(s[k].op) = 5
     /\ s[k] = [op |-> "limit", by |-> q.limit[1]] /\ q.limit = <<q.limit[1]>>

LEMMA AccessPlaces ==
  ASSUME NEW q, NEW a, NEW f, Len(f) \in Nat, NEW d, Applies(q, a, f, d)
  PROVE  /\ Len(a) \in Nat /\ Len(a) >= 1
         /\ a[1].op \in {"scan", "index", "join"}
         /\ \A k \in 2..Len(a) : a[k].op = "filter"
         /\ \A k \in 1..Len(a) : (a[k].op \in {"index", "filter"} <=> k > d)
<1> DEFINE n == Len(a)
           m == Len(f)
<1>1. /\ d \in {0, 1} /\ n = m + d /\ n >= 1 /\ m \in Nat
      /\ \A i \in 1..m : a[i + d].op = IF i + d = 1 THEN "index" ELSE "filter"
      /\ d = 1 => a[1].op \in {"join", "scan"}
  <2>1. /\ d \in {0, 1} /\ n = m + d /\ n >= 1 /\ m \in Nat
        /\ \A i \in 1..m : a[i + d] = [op |-> IF i + d = 1 THEN "index" ELSE "filter", by |-> f[i]]
    BY DEF Applies
  <2>2. d = 1 => a[1].op \in {"join", "scan"}
    BY DEF Applies
  <2> HIDE DEF n, m
  <2>3. ASSUME NEW i \in 1..m PROVE a[i + d].op = IF i + d = 1 THEN "index" ELSE "filter"
    <3> DEFINE x == IF i + d = 1 THEN "index" ELSE "filter"
               e == a[i + d]
    <3>1. e = [op |-> x, by |-> f[i]]
      BY <2>1
    <3> HIDE DEF x, e
    <3>2. e.op = x
      BY <3>1
    <3>3. QED
      BY <3>2 DEF x, e
  <2>4. QED
    BY <2>1, <2>2, <2>3
<1> HIDE DEF n, m
<1>2. ASSUME NEW k \in 1..n, k > d PROVE a[k].op = IF k = 1 THEN "index" ELSE "filter"
  <2>1. k - d \in 1..m /\ k - d + d = k
    BY <1>1, <1>2
  <2>2. QED
    BY <1>1, <2>1
<1>3. 1 \in 1..n /\ n \in Nat
  BY <1>1
<1>4. d = 0 => 1 > d
  OBVIOUS
<1>5. a[1].op \in {"scan", "index", "join"}
  BY <1>1, <1>2, <1>3, <1>4
<1>6. \A k \in 2..n : k \in 1..n /\ k > d /\ k # 1
  BY <1>1
<1>7. \A k \in 2..n : a[k].op = "filter"
  BY <1>2, <1>6
<1>8. ASSUME NEW k \in 1..n PROVE a[k].op \in {"index", "filter"} <=> k > d
  <2>1. CASE k > d
    BY <1>2, <2>1
  <2>2. CASE ~(k > d)
    <3>1. k = 1 /\ d = 1
      BY <1>1, <2>2
    <3>2. QED
      BY <1>1, <2>2, <3>1
  <2>3. QED
    BY <2>1, <2>2
<1>9. QED
  BY <1>1, <1>3, <1>5, <1>7, <1>8 DEF n

LEMMA PlanPlaces ==
  ASSUME NEW q, NEW a, NEW f, Len(f) \in Nat, NEW d, Applies(q, a, f, d),
         NEW s, NEW o, NEW p, NEW l, Parts(q, a, s, o, p, l), NEW k \in 1..Len(s)
  PROVE  Placed(q, a, s, o, p, k)
<1> DEFINE n == Len(a)
<1>1. /\ n \in Nat /\ n >= 1 /\ a[1].op \in {"scan", "index", "join"}
      /\ \A i \in 2..n : a[i].op = "filter"
  BY AccessPlaces
<1>2. Len(s) = n + o + p + l /\ o \in {0, 1} /\ p \in {0, 1} /\ l \in {0, 1}
  BY DEF Parts
<1> HIDE DEF n
<1>3. \/ k = 1 /\ k \in 1..n
      \/ k \in 2..n /\ k \in 1..n
      \/ k = n + 1 /\ o = 1
      \/ k = n + o + 1 /\ p = 1
      \/ k = n + o + p + 1 /\ l = 1
  BY <1>1, <1>2
<1>4. CASE k = 1 /\ k \in 1..n
  <2>1. s[k] = a[k]
    BY <1>4 DEF Parts, n
  <2>2. Rank(a[1].op) = 1
    BY <1>1, Ranks
  <2>3. QED
    BY <1>1, <1>4, <2>1, <2>2 DEF Placed
<1>5. CASE k \in 2..n /\ k \in 1..n
  <2>1. s[k] = a[k]
    BY <1>5 DEF Parts, n
  <2>2. s[k].op = "filter"
    BY <1>1, <1>5, <2>1
  <2>3. QED
    BY <1>5, <2>1, <2>2, Ranks DEF Placed, n
<1>6. CASE k = n + 1 /\ o = 1
  <2>1. q.order # <<>> /\ s[k] = [op |-> "order", by |-> q.order]
    BY <1>6 DEF Parts, n
  <2>2. s[k].op = "order"
    BY <2>1
  <2>3. QED
    BY <1>6, <2>1, <2>2, Ranks DEF Placed, n
<1>7. CASE k = n + o + 1 /\ p = 1
  <2>1. q.columns # <<>> /\ s[k] = [op |-> "project", by |-> q.columns]
    BY <1>7 DEF Parts, n
  <2>2. s[k].op = "project"
    BY <2>1
  <2>3. QED
    BY <1>7, <2>1, <2>2, Ranks DEF Placed, n
<1>8. CASE k = n + o + p + 1 /\ l = 1
  <2>1. s[k] = [op |-> "limit", by |-> q.limit[1]] /\ q.limit = <<q.limit[1]>>
    BY <1>8 DEF Parts, n
  <2>2. s[k].op = "limit"
    BY <2>1
  <2>3. QED
    BY <1>8, <2>1, <2>2, Ranks DEF Placed, n
<1>9. QED
  BY <1>3, <1>4, <1>5, <1>6, <1>7, <1>8

\* The stages of a plan come in the order of their ranks.
LEMMA StagesInOrder ==
  ASSUME NEW q, NEW a, NEW f, Len(f) \in Nat, NEW d, Applies(q, a, f, d),
         NEW s, NEW o, NEW p, NEW l, Parts(q, a, s, o, p, l),
         NEW i \in 1..Len(s), NEW j \in 1..Len(s), i < j
  PROVE  \/ Rank(s[i].op) < Rank(s[j].op)
         \/ s[i].op = "filter" /\ s[j].op = "filter"
<1> DEFINE n == Len(a)
           R(k) == Rank(s[k].op)
           At(k) == \/ k = 1 /\ R(k) = 1
                    \/ k \in 2..n /\ s[k].op = "filter" /\ R(k) = 2
                    \/ k = n + 1 /\ o = 1 /\ R(k) = 3
                    \/ k = n + o + 1 /\ p = 1 /\ R(k) = 4
                    \/ k = n + o + p + 1 /\ R(k) = 5
<1>1. At(i) /\ At(j)
  <2>1. Placed(q, a, s, o, p, i) /\ Placed(q, a, s, o, p, j)
    BY PlanPlaces
  <2>2. QED
    BY <2>1 DEF Placed
<1>2. n \in Nat /\ n >= 1
  BY AccessPlaces
<1>3. o \in {0, 1} /\ p \in {0, 1}
  BY DEF Parts
<1>4. i \in Int /\ j \in Int
  OBVIOUS
<1> DEFINE ri == R(i)
           rj == R(j)
           fi == s[i].op = "filter"
           fj == s[j].op = "filter"
<1>5. /\ \/ i = 1 /\ ri = 1
         \/ i \in 2..n /\ fi /\ ri = 2
         \/ i = n + 1 /\ o = 1 /\ ri = 3
         \/ i = n + o + 1 /\ p = 1 /\ ri = 4
         \/ i = n + o + p + 1 /\ ri = 5
      /\ \/ j = 1 /\ rj = 1
         \/ j \in 2..n /\ fj /\ rj = 2
         \/ j = n + 1 /\ o = 1 /\ rj = 3
         \/ j = n + o + 1 /\ p = 1 /\ rj = 4
         \/ j = n + o + p + 1 /\ rj = 5
  BY <1>1
<1> HIDE DEF n, ri, rj, fi, fj
<1>6. ri < rj \/ (fi /\ fj)
  BY <1>2, <1>3, <1>4, <1>5
<1>7. QED
  BY <1>6 DEF ri, rj, fi, fj

\* Every condition is used once.
Applied(q, s) ==
  \E uses \in Bijection(DOMAIN q.filters, {k \in DOMAIN s : s[k].op \in {"index", "filter"}}) :
    \A i \in DOMAIN uses : s[uses[i]].by = q.filters[i]

\* What a plan is to do: PlanDoesTheQuery, of any query and plan.
PlanDoes(q, s) ==
  LET does(op, arg) == \E k \in DOMAIN s : s[k].op = op /\ s[k].by = arg
  IN
  /\ \A i, j \in DOMAIN s :
       i < j => \/ Rank(s[i].op) < Rank(s[j].op)
                \/ s[i].op = "filter" /\ s[j].op = "filter"
  /\ Applied(q, s)
  /\ \A k \in DOMAIN s :
       /\ s[k].op = "index" => q.join = <<>> /\ Indexable(q, s[k].by)
       /\ s[k].op = "join" => <<s[k].by>> = q.join
       /\ s[k].op = "order" => q.order # <<>> /\ s[k].by = q.order
       /\ s[k].op = "project" => q.columns # <<>> /\ s[k].by = q.columns
       /\ s[k].op = "limit" => <<s[k].by>> = q.limit
  /\ DOMAIN s # {} /\ Rank(s[1].op) = 1
  /\ q.join # <<>> => s[1].op = "join"
  /\ q.order # <<>> => does("order", q.order)
  /\ q.columns # <<>> => does("project", q.columns)
  /\ q.limit # <<>> => does("limit", q.limit[1])

LEMMA ConditionsUsed ==
  ASSUME NEW B, NEW q, q.filters \in Seq(B), NEW f \in Seq(B), NEW place, Rearranged(q.filters, f, place),
         NEW a, NEW d, Applies(q, a, f, d),
         NEW s, NEW o, NEW p, NEW l, Parts(q, a, s, o, p, l), DOMAIN s = 1..Len(s)
  PROVE  Applied(q, s)
<1> DEFINE m == Len(q.filters)
           n == Len(a)
           mf == Len(f)
           C == {k \in DOMAIN s : s[k].op \in {"index", "filter"}}
           uses == [i \in 1..m |-> place[i] + d]
<1>1. m \in Nat /\ DOMAIN q.filters = 1..m /\ mf \in Nat
  BY SeqElements
<1>2. /\ n \in Nat /\ n >= 1
      /\ \A k \in 1..n : (a[k].op \in {"index", "filter"} <=> k > d)
  BY <1>1, AccessPlaces
<1>3. n = mf + d /\ d \in {0, 1} /\ \A i \in 1..mf : a[i + d].by = f[i]
  <2>1. /\ n = mf + d /\ d \in {0, 1}
        /\ \A i \in 1..mf : a[i + d] = [op |-> IF i + d = 1 THEN "index" ELSE "filter", by |-> f[i]]
    BY DEF Applies
  <2> HIDE DEF n, mf
  <2>2. ASSUME NEW i \in 1..mf PROVE a[i + d].by = f[i]
    <3> DEFINE x == IF i + d = 1 THEN "index" ELSE "filter"
               e == a[i + d]
    <3>1. e = [op |-> x, by |-> f[i]]
      BY <2>1
    <3> HIDE DEF x, e
    <3>2. e.by = f[i]
      BY <3>1
    <3>3. QED
      BY <3>2 DEF e
  <2>3. QED
    BY <2>1, <2>2
<1>4. /\ \A k \in 1..n : s[k] = a[k]
      /\ Len(s) = n + o + p + l /\ o \in {0, 1} /\ p \in {0, 1} /\ l \in {0, 1}
  BY DEF Parts
<1>5. /\ place \in [1..m -> 1..mf]
      /\ \A i, j \in 1..m : place[i] = place[j] => i = j
      /\ \A k \in 1..mf : \E i \in 1..m : place[i] = k
      /\ \A i \in 1..m : f[place[i]] = q.filters[i]
  BY DEF Rearranged
<1> HIDE DEF m, n, mf
<1>6. C = {k \in 1..n : k > d}
  <2>1. ASSUME NEW k \in 1..n PROVE k \in DOMAIN s /\ (k \in C <=> k > d)
    <3>1. k \in 1..Len(s)
      BY <1>2, <1>4
    <3>2. QED
      BY <1>2, <1>4, <3>1
  <2>2. ASSUME NEW k \in C PROVE k \in 1..n
    <3>1. k \in 1..Len(s) /\ s[k].op \in {"index", "filter"}
      OBVIOUS
    <3>2. Placed(q, a, s, o, p, k)
      BY <1>1, <3>1, PlanPlaces DEF mf
    <3>3. k = 1 \/ k \in 2..n
      BY <3>1, <3>2 DEF Placed, n
    <3>4. QED
      BY <1>2, <3>3
  <2>3. QED
    BY <2>1, <2>2
<1> HIDE DEF C
<1>7. uses \in [1..m -> C]
  <2>1. ASSUME NEW i \in 1..m PROVE place[i] + d \in C
    <3>1. place[i] \in 1..mf
      BY <1>5
    <3> DEFINE x == place[i]
    <3> HIDE DEF x
    <3>2. x \in 1..mf
      BY <3>1 DEF x
    <3>3. x + d \in 1..n /\ x + d > d
      BY <1>1, <1>3, <3>2
    <3>4. QED
      BY <1>6, <3>3 DEF x
  <2>2. QED
    BY <2>1
<1>8. \A i, j \in 1..m : uses[i] = uses[j] => i = j
  <2>1. SUFFICES ASSUME NEW i \in 1..m, NEW j \in 1..m, uses[i] = uses[j] PROVE i = j
    OBVIOUS
  <2>2. place[i] \in 1..mf /\ place[j] \in 1..mf /\ place[i] + d = place[j] + d
    BY <1>5, <2>1
  <2>3. \A x, y \in 1..mf : x + d = y + d => x = y
    BY <1>1, <1>3
  <2>4. place[i] = place[j]
    BY <2>2, <2>3
  <2>5. QED
    BY <1>5, <2>4
<1>9. \A k \in C : \E i \in 1..m : uses[i] = k
  <2>1. SUFFICES ASSUME NEW k \in C PROVE \E i \in 1..m : uses[i] = k
    OBVIOUS
  <2>2. k \in 1..n /\ k > d
    BY <1>6
  <2>3. k - d \in 1..mf /\ k - d + d = k
    BY <1>1, <1>2, <1>3, <2>2
  <2>4. PICK i \in 1..m : place[i] = k - d
    BY <1>5, <2>3
  <2>5. uses[i] = k
    BY <2>3, <2>4
  <2>6. QED
    BY <2>5
<1>10. uses \in Bijection(1..m, C)
  <2>1. IsInjective(uses)
    BY <1>7, <1>8 DEF IsInjective
  <2>2. QED
    BY <1>7, <1>9, <2>1 DEF Bijection, Injection, Surjection
<1>11. ASSUME NEW i \in 1..m PROVE s[uses[i]].by = q.filters[i]
  <2>1. place[i] \in 1..mf /\ uses[i] = place[i] + d /\ f[place[i]] = q.filters[i]
    BY <1>5
  <2>2. uses[i] \in 1..n
    BY <1>6, <1>7
  <2>3. a[uses[i]].by = f[place[i]]
    BY <1>3, <2>1
  <2>4. QED
    BY <1>4, <2>1, <2>2, <2>3
<1>12. DOMAIN uses = 1..m
  OBVIOUS
<1> HIDE DEF uses
<1>13. QED
  BY <1>1, <1>10, <1>11, <1>12 DEF C, Applied
LEMMA PlannedDoes ==
  ASSUME NEW B, NEW q, Plannable(q, B)
  PROVE  PlanDoes(q, Planned(q))
<1> DEFINE s == Planned(q)
           a == Access(q)
           f == OrderedFilters(q)
<1>1. PICK d : Applies(q, a, f, d)
  BY AccessShape
<1>2. s \in Seq(Stage(B)) /\ \E o, p, l : Parts(q, a, s, o, p, l)
  BY PlanParts
<1>3. PICK o, p, l : Parts(q, a, s, o, p, l)
  BY <1>2
<1>4. q.filters \in Seq(B) /\ f \in Seq(B) /\ \E place : Rearranged(q.filters, f, place)
  BY FiltersRearranged DEF Plannable
<1>5. Len(f) \in Nat /\ DOMAIN s = 1..Len(s) /\ Len(s) \in Nat
  BY <1>2, <1>4, SeqElements
<1> DEFINE n == Len(a)
<1> HIDE DEF s, a, f
<1>6. n \in Nat /\ n >= 1 /\ a[1].op \in {"scan", "index", "join"}
  BY <1>1, <1>5, AccessPlaces
<1>7. Len(s) = n + o + p + l /\ o \in {0, 1} /\ p \in {0, 1} /\ l \in {0, 1}
  BY <1>3 DEF Parts
<1>8. 1 \in 1..Len(s) /\ s[1] = a[1]
  <2> HIDE DEF n
  <2>1. 1 \in 1..Len(s) /\ 1 \in 1..n
    BY <1>6, <1>7
  <2>2. QED
    BY <1>3, <2>1 DEF Parts, n
<1>9. Rank(s[1].op) = 1
  BY <1>6, <1>8, Ranks
\* The first stage.
<1>10. /\ s[1].op = "index" => q.join = <<>> /\ Indexable(q, s[1].by)
       /\ s[1].op = "join" => <<s[1].by>> = q.join
       /\ q.join # <<>> => s[1].op = "join"
  <2>1. CASE d = 0
    <3>1. q.join = <<>> /\ Indexable(q, f[1]) /\ Len(a) = Len(f) + 0 /\ Len(a) >= 1
      BY <1>1, <2>1 DEF Applies
    <3>2. 1 \in 1..Len(f) /\ 1 + d = 1
      BY <1>5, <2>1, <3>1
    <3>3. a[1] = [op |-> "index", by |-> f[1]]
      BY <1>1, <3>2 DEF Applies
    <3>4. a[1].op = "index" /\ a[1].by = f[1]
      BY <3>3
    <3>5. QED
      BY <1>8, <3>1, <3>4
  <2>2. CASE d = 1
    <3>1. /\ a[1].op = IF q.join # <<>> THEN "join" ELSE "scan"
          /\ q.join # <<>> => <<a[1].by>> = q.join
      BY <1>1, <2>2 DEF Applies
    <3>2. QED
      BY <1>8, <3>1
  <2>3. QED
    BY <1>1, <2>1, <2>2 DEF Applies
<1>11. ASSUME NEW k \in DOMAIN s
       PROVE  /\ s[k].op = "index" => q.join = <<>> /\ Indexable(q, s[k].by)
              /\ s[k].op = "join" => <<s[k].by>> = q.join
              /\ s[k].op = "order" => q.order # <<>> /\ s[k].by = q.order
              /\ s[k].op = "project" => q.columns # <<>> /\ s[k].by = q.columns
              /\ s[k].op = "limit" => <<s[k].by>> = q.limit
  <2>1. Placed(q, a, s, o, p, k)
    BY <1>1, <1>3, <1>5, PlanPlaces
  <2> DEFINE op == s[k].op
             by == s[k].by
  <2>2. \/ k = 1 /\ op \in {"scan", "index", "join"}
        \/ op = "filter"
        \/ op = "order" /\ q.order # <<>> /\ by = q.order
        \/ op = "project" /\ q.columns # <<>> /\ by = q.columns
        \/ op = "limit" /\ <<by>> = q.limit
    BY <2>1 DEF Placed
  <2>3. CASE k = 1 /\ op \in {"scan", "index", "join"}
    BY <1>10, <2>3
  <2>4. CASE ~(k = 1 /\ op \in {"scan", "index", "join"})
    <3> HIDE DEF op, by
    <3>1. /\ op # "index" /\ op # "join"
          /\ op = "order" => q.order # <<>> /\ by = q.order
          /\ op = "project" => q.columns # <<>> /\ by = q.columns
          /\ op = "limit" => <<by>> = q.limit
      BY <2>2, <2>4
    <3>2. QED
      BY <3>1 DEF op, by
  <2>5. QED
    BY <2>3, <2>4
<1>12. q.order # <<>> => \E k \in DOMAIN s : s[k].op = "order" /\ s[k].by = q.order
  <2>1. SUFFICES ASSUME q.order # <<>>
                 PROVE  \E k \in DOMAIN s : s[k].op = "order" /\ s[k].by = q.order
    OBVIOUS
  <2>2. o = 1 /\ s[n + 1] = [op |-> "order", by |-> q.order]
    BY <1>3, <1>7, <2>1 DEF Parts
  <2>3. n + 1 \in DOMAIN s
    <3> HIDE DEF n
    <3>1. QED
      BY <1>5, <1>6, <1>7, <2>2
  <2>4. s[n + 1].op = "order" /\ s[n + 1].by = q.order
    BY <2>2
  <2>5. QED
    BY <2>3, <2>4
<1>13. q.columns # <<>> => \E k \in DOMAIN s : s[k].op = "project" /\ s[k].by = q.columns
  <2>1. SUFFICES ASSUME q.columns # <<>>
                 PROVE  \E k \in DOMAIN s : s[k].op = "project" /\ s[k].by = q.columns
    OBVIOUS
  <2>2. p = 1 /\ s[n + o + 1] = [op |-> "project", by |-> q.columns]
    BY <1>3, <1>7, <2>1 DEF Parts
  <2>3. n + o + 1 \in DOMAIN s
    <3> HIDE DEF n
    <3>1. QED
      BY <1>5, <1>6, <1>7, <2>2
  <2>4. s[n + o + 1].op = "project" /\ s[n + o + 1].by = q.columns
    BY <2>2
  <2>5. QED
    BY <2>3, <2>4
<1>14. q.limit # <<>> => \E k \in DOMAIN s : s[k].op = "limit" /\ s[k].by = q.limit[1]
  <2>1. SUFFICES ASSUME q.limit # <<>>
                 PROVE  \E k \in DOMAIN s : s[k].op = "limit" /\ s[k].by = q.limit[1]
    OBVIOUS
  <2>2. l = 1 /\ s[n + o + p + 1] = [op |-> "limit", by |-> q.limit[1]]
    BY <1>3, <1>7, <2>1 DEF Parts
  <2>3. n + o + p + 1 \in DOMAIN s
    <3> HIDE DEF n
    <3>1. QED
      BY <1>5, <1>6, <1>7, <2>2
  <2>4. s[n + o + p + 1].op = "limit" /\ s[n + o + p + 1].by = q.limit[1]
    BY <2>2
  <2>5. QED
    BY <2>3, <2>4
<1>15. \A i, j \in DOMAIN s :
         i < j => \/ Rank(s[i].op) < Rank(s[j].op)
                  \/ s[i].op = "filter" /\ s[j].op = "filter"
  BY <1>1, <1>3, <1>5, StagesInOrder
<1>16. Applied(q, s)
  <2>1. PICK place : Rearranged(q.filters, f, place)
    BY <1>4
  <2>2. QED
    BY <1>1, <1>3, <1>4, <1>5, <2>1, ConditionsUsed
<1>17. DOMAIN s # {}
  BY <1>5, <1>8
<1>18. PlanDoes(q, s)
  BY <1>9, <1>10, <1>11, <1>12, <1>13, <1>14, <1>15, <1>16, <1>17 DEF PlanDoes
<1>19. QED
  BY <1>18 DEF s

------------------------------------------------------------------------------
(* Every query that is read can be planned *)

LEMMA FewOfKind ==
  ASSUME NEW S, NEW clauses \in Seq(S), NEW kind, Distinct(clauses)
  PROVE  /\ Len(OfKind(clauses, kind)) \in {0, 1}
         /\ DOMAIN OfKind(clauses, kind) = 1..Len(OfKind(clauses, kind))
<1>1. CASE OfKind(clauses, kind) = <<>>
  BY <1>1, EmptySeq
<1>2. CASE \E k \in 1..Len(clauses) : OfKind(clauses, kind) = <<clauses[k]>>
  <2>1. PICK k \in 1..Len(clauses) : OfKind(clauses, kind) = <<clauses[k]>>
    BY <1>2
  <2>2. \A e : Len(<<e>>) = 1 /\ DOMAIN <<e>> = 1..1
    OBVIOUS
  <2>3. QED
    BY <2>1, <2>2
<1>3. QED
  BY <1>1, <1>2, OfKindFew

LEMMA FiltersTyped ==
  ASSUME NEW clauses \in Seq(ReadSet), Distinct(clauses)
  PROVE  ParsedFilters(TermsOf(clauses)) \in Seq(Filter)
<1> DEFINE terms == TermsOf(clauses)
<1>1. terms \in Seq(Conditions)
  BY WhereTerms
<1> HIDE DEF terms
<1>2. /\ PartFlags(terms) \in Seq(Seq(Filter)) /\ Len(PartFlags(terms)) = Len(terms)
      /\ ParsedFilters(terms) = FlattenSeq(PartFlags(terms))
      /\ \A i \in 1..Len(PartFlags(terms)) : Len(PartFlags(terms)[i]) <= 1
  BY <1>1, PartsTyped
<1>3. QED
  BY <1>2, FlatPicks DEF terms

LEMMA ReadPlannable ==
  ASSUME NEW text \in Commands
  PROVE  \E B : Plannable(GenerateQuery(text), B)
<1> DEFINE q == GenerateQuery(text)
           read == ClausesRead(text)
           filters == ParsedFilters(TermsOf(read))
           joins == OfKind(read, "join")
           limits == OfKind(read, "limit")
           B == Filter \cup Range(q.join) \cup Range(q.limit) \cup {q.order, q.columns, <<>>}
<1>1. read \in Seq(ReadSet) /\ Distinct(read)
  BY ReadBeginning
<1>3. q = QueryOf(text.table.read, text.list, read, filters)
  BY DEF GenerateQuery
<1> HIDE DEF q, read
<1>4. q.filters = filters
  BY <1>3, QueryParts
<1>5. filters \in Seq(Filter)
  BY <1>1, FiltersTyped
<1>6. /\ q.join = [i \in DOMAIN joins |-> [table |-> joins[i].table, left |-> Lower[joins[i].left],
                                           right |-> Lower[joins[i].items[1].read]]]
      /\ q.limit = [i \in DOMAIN limits |-> limits[i].items[1].read]
  BY <1>3 DEF QueryOf
<1>7. /\ Len(joins) \in {0, 1} /\ DOMAIN joins = 1..Len(joins)
      /\ Len(limits) \in {0, 1} /\ DOMAIN limits = 1..Len(limits)
  BY <1>1, FewOfKind
<1> HIDE DEF filters, joins, limits
<1>8. q.filters \in Seq(B)
  <2>1. Len(filters) \in Nat /\ filters \in [1..Len(filters) -> Filter]
    BY <1>5, SeqElements
  <2>2. Filter \subseteq B
    OBVIOUS
  <2> HIDE DEF B
  <2>3. filters \in [1..Len(filters) -> B]
    BY <2>1, <2>2
  <2>4. QED
    BY <1>4, <2>1, <2>3, FunctionIsSeq
<1>9. q.join \in [1..Len(joins) -> B]
  <2>1. q.join \in [1..Len(joins) -> Range(q.join)]
    BY <1>6, <1>7 DEF Range
  <2>2. QED
    BY <2>1
<1>10. q.limit \in [1..Len(limits) -> B]
  <2>1. q.limit \in [1..Len(limits) -> Range(q.limit)]
    BY <1>6, <1>7 DEF Range
  <2>2. QED
    BY <2>1
<1>11. q.order \in B /\ q.columns \in B /\ <<>> \in B
  OBVIOUS
<1> HIDE DEF B
<1>12. Len(joins) \in Nat /\ Len(joins) <= 1 /\ Len(limits) \in Nat /\ Len(limits) <= 1
  <2>1. \A k \in {0, 1} : k \in Nat /\ k <= 1
    OBVIOUS
  <2>2. QED
    BY <1>7, <2>1
<1>13. /\ q.join \in Seq(B) /\ Len(q.join) = Len(joins)
       /\ q.limit \in Seq(B) /\ Len(q.limit) = Len(limits)
  BY <1>9, <1>10, <1>12, FunctionIsSeq
<1>14. Plannable(q, B)
  BY <1>8, <1>11, <1>12, <1>13 DEF Plannable
<1>15. QED
  BY <1>14 DEF q

------------------------------------------------------------------------------
(* The life of a query *)

Phases == {"prompt", "rejected", "parsed", "unplanned", "open", "closed", "failed"}

\* The query in hand is what was read from the command, and once it runs it is
\* a valid one, with the plan that was made of it.
PlanningInv ==
  /\ phase \in Phases
  /\ phase = "parsed" \/ Accepted => command \in Commands /\ query = GenerateQuery(command)
  /\ Accepted => Validate(query) /\ plan = Planned(query)

LEMMA PlannedAgain ==
  ASSUME indexed' = indexed, query' = query
  PROVE  Planned(query)' = Planned(query)
<1>1. OrderedFilters(query)' = OrderedFilters(query)
  BY DEF OrderedFilters, Indexable, SelectInSeq
<1>2. Access(query)' = Access(query)
  BY <1>1 DEF Access, Indexable, Stages
<1>3. QED
  BY <1>2 DEF Planned, Stages, StageIf

\* While a query is read, validated, planned and run the query in hand is the
\* one of the command, and the pipeline that runs is the plan of a valid query
\* (QueryEngine.run, _execute_query).
THEOREM PlanningInvariance == PlanningSpec => []PlanningInv
<1>1. PlanningInit => PlanningInv
  BY DEF PlanningInit, PlanningInv, Phases, Accepted
<1>2. PlanningInv /\ [PlanningNext]_planningVars => PlanningInv'
  <2>1. SUFFICES ASSUME PlanningInv, [PlanningNext]_planningVars PROVE PlanningInv'
    OBVIOUS
  <2>2. CASE Prompt
    BY <2>2 DEF Prompt, PlanningInv, Phases, Accepted
  <2>3. CASE Read
    <3>1. command' \in Commands /\ phase' \in {"rejected", "parsed"}
          /\ (phase' = "parsed" => query' = GenerateQuery(command'))
      BY <2>3 DEF Read, QueryOfText
    <3>2. query' = GenerateQuery(command') => query' = GenerateQuery(command)'
      BY DEF GenerateQuery
    <3>3. QED
      BY <3>1, <3>2 DEF PlanningInv, Phases, Accepted
  <2>4. CASE Reject
    BY <2>4 DEF Reject, PlanningInv, Phases, Accepted
  <2>5. CASE Plan
    BY <2>1, <2>5, PlannedAgain DEF Plan, PlanningInv, Phases, Accepted
  <2>6. CASE PlanRaises
    BY <2>1, <2>6 DEF PlanRaises, PlanningInv, Phases, Accepted
  <2>7. CASE End
    BY <2>1, <2>7, PlannedAgain DEF End, PlanningInv, Phases, Accepted
  <2>8. CASE UNCHANGED planningVars
    BY <2>1, <2>8, PlannedAgain DEF planningVars, PlanningInv, Phases, Accepted
  <2>9. QED
    BY <2>1, <2>2, <2>3, <2>4, <2>5, <2>6, <2>7, <2>8 DEF PlanningNext
<1>3. QED
  BY <1>1, <1>2, PTL DEF PlanningSpec

\* The query that runs says nothing the command does not say, and all that a
\* command says that keeps to the grammar (generate_query, FilterArgs.parse).
THEOREM QueriesSayTheText == PlanningSpec => []QueryWasWritten
<1>1. PlanningInv => QueryWasWritten
  BY QuerySaid DEF PlanningInv, QueryWasWritten
<1>2. QED
  BY <1>1, PlanningInvariance, PTL

\* A plan applies each condition once and nothing the query does not ask for,
\* in the one order its operators may have (create_logical_plan,
\* _build_iterator, _order_filters_for_access).
THEOREM PlansDoTheQuery == PlanningSpec => []PlanDoesTheQuery
<1>1. PlanningInv => PlanDoesTheQuery
  <2>1. SUFFICES ASSUME PlanningInv, Accepted PROVE PlanDoesTheQuery
    BY DEF PlanDoesTheQuery
  <2>2. PlanDoes(query, plan)
    BY <2>1, ReadPlannable, PlannedDoes DEF PlanningInv
  <2>3. QED
    BY <2>2 DEF PlanDoes, Applied, PlanDoesTheQuery, Conditional, Does
<1>2. QED
  BY <1>1, PlanningInvariance, PTL
==============================================================================
