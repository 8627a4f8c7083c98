------------------------------ MODULE SeqLemmas ------------------------------
(***************************************************************************)
(* Facts about finite sequences that the proofs of several components use. *)
(***************************************************************************)
EXTENDS Integers, SequencesExt, SequenceTheorems, FiniteSetTheorems,
        WellFoundedInduction, TLAPS

\* A function on 1..n is a sequence of length n.
LEMMA FunctionIsSeq ==
  ASSUME NEW S, NEW n \in Nat, NEW f \in [1..n -> S]
  PROVE  f \in Seq(S) /\ Len(f) = n /\ DOMAIN f = 1..n
<1>1. f \in Seq(S)
  BY SeqDef
<1>2. DOMAIN f = 1..n /\ DOMAIN f = 1..Len(f) /\ Len(f) \in Nat
  BY <1>1, LenProperties
<1>3. Len(f) = n
  <2>1. \A k \in Nat : k \in 1..n <=> k \in 1..Len(f)
    BY <1>2
  <2>2. QED
    BY <1>2, <2>1
<1>4. QED
  BY <1>1, <1>2, <1>3

\* What a sequence is made of.
LEMMA SeqElements ==
  ASSUME NEW S, NEW s \in Seq(S)
  PROVE  /\ Len(s) \in Nat
         /\ DOMAIN s = 1..Len(s)
         /\ s \in [1..Len(s) -> S]
         /\ \A i \in 1..Len(s) : s[i] \in S
BY LenProperties, ElementOfSeq

\* Replacing one element.
LEMMA SeqExcept ==
  ASSUME NEW S, NEW s \in Seq(S), NEW k \in 1..Len(s), NEW e \in S
  PROVE  /\ [s EXCEPT ![k] = e] \in Seq(S)
         /\ Len([s EXCEPT ![k] = e]) = Len(s)
         /\ DOMAIN [s EXCEPT ![k] = e] = 1..Len(s)
         /\ [s EXCEPT ![k] = e][k] = e
         /\ \A i \in 1..Len(s) : i # k => [s EXCEPT ![k] = e][i] = s[i]
<1>1. [s EXCEPT ![k] = e] \in [1..Len(s) -> S] /\ Len(s) \in Nat
  BY SeqElements
<1>2. QED
  BY <1>1, FunctionIsSeq, ExceptSeq, SeqElements

\* Adding one element at the end.
LEMMA SeqAppend ==
  ASSUME NEW S, NEW s \in Seq(S), NEW e \in S
  PROVE  /\ Append(s, e) \in Seq(S)
         /\ Len(Append(s, e)) = Len(s) + 1
         /\ DOMAIN Append(s, e) = 1..(Len(s) + 1)
         /\ Append(s, e)[Len(s) + 1] = e
         /\ \A i \in 1..Len(s) : Append(s, e)[i] = s[i]
BY AppendProperties, LenProperties

\* The first k elements.
LEMMA SeqPrefix ==
  ASSUME NEW S, NEW s \in Seq(S), NEW k \in 0..Len(s)
  PROVE  /\ SubSeq(s, 1, k) \in Seq(S)
         /\ DOMAIN SubSeq(s, 1, k) = 1..k
         /\ \A i \in 1..k : SubSeq(s, 1, k)[i] = s[i]
<1>1. Len(s) \in Nat /\ \A i \in 1..Len(s) : s[i] \in S
  BY SeqElements
<1>2. SubSeq(s, 1, k) = [i \in 1..k |-> s[i]]
  BY <1>1
<1>3. [i \in 1..k |-> s[i]] \in [1..k -> S] /\ k \in Nat
  BY <1>1
<1>4. QED
  BY <1>2, <1>3, FunctionIsSeq

------------------------------------------------------------------------------
(* Induction up to a number, by way of the least counterexample *)

\* Every set of natural numbers has a least element.
LEMMA LeastIn ==
  ASSUME NEW T, T \subseteq Nat, T # {}
  PROVE  \E n \in T : \A m \in T : n <= m
<1> DEFINE R == OpToRel(<, Nat)
<1>1. IsWellFoundedOn(R, Nat)
  BY NatLessThanWellFounded
<1> HIDE DEF R
<1>2. PICK n \in T : \A m \in T : ~(<<m, n>> \in R)
  BY <1>1, WFMin
<1>3. \A m \in T : ~(m < n)
  BY <1>2 DEF R, OpToRel
<1>4. QED
  BY <1>3

\* A set of numbers up to n that has 0 and with each number the next one is all of 0..n.
LEMMA UpTo ==
  ASSUME NEW n \in Nat, NEW T, 0 \in T, \A i \in 1..n : i - 1 \in T => i \in T
  PROVE  0..n \subseteq T
<1> DEFINE Bad == {i \in 0..n : i \notin T}
<1>1. SUFFICES ASSUME Bad # {} PROVE FALSE
  OBVIOUS
<1>2. Bad \subseteq Nat
  OBVIOUS
<1> HIDE DEF Bad
<1>3. PICK m \in Bad : \A i \in Bad : m <= i
  BY <1>1, <1>2, LeastIn
<1>4. m \in 0..n /\ m \notin T
  BY <1>3 DEF Bad
<1>5. m \in 1..n /\ ~(m <= m - 1) /\ m - 1 \in 0..n
  BY <1>4
<1>6. m - 1 \notin Bad
  BY <1>3, <1>5
<1>7. QED
  BY <1>4, <1>5, <1>6 DEF Bad

\* A finite set of numbers that is not empty has a greatest one.
LEMMA GreatestIn ==
  ASSUME NEW S, S \subseteq Nat, IsFiniteSet(S), S # {}
  PROVE  Max(S) \in S /\ \A y \in S : Max(S) >= y
<1> DEFINE HasMax(U) == \E x \in U : \A y \in U : x >= y
           T == {k \in 0..Cardinality(S) :
                   \A U \in SUBSET S : IsFiniteSet(U) /\ Cardinality(U) = k /\ U # {} => HasMax(U)}
<1>1. Cardinality(S) \in Nat
  BY FS_CardinalityType
<1>2. 0 \in T
  BY <1>1, FS_EmptySet
<1>3. ASSUME NEW k \in 1..Cardinality(S), k - 1 \in T PROVE k \in T
  <2>1. SUFFICES ASSUME NEW U \in SUBSET S, IsFiniteSet(U), Cardinality(U) = k, U # {} PROVE HasMax(U)
    BY <1>1
  <2>2. PICK x \in U : TRUE
    BY <2>1
  <2>3. IsFiniteSet(U \ {x}) /\ Cardinality(U \ {x}) = k - 1
    BY <2>1, FS_RemoveElement
  <2>4. CASE U \ {x} = {}
    <3>1. \A y \in U : y = x /\ x \in Nat
      BY <2>2, <2>4
    <3>2. QED
      BY <2>2, <3>1
  <2>5. CASE U \ {x} # {}
    <3>1. PICK z \in U \ {x} : \A y \in U \ {x} : z >= y
      BY <1>3, <2>3, <2>5
    <3>2. z \in Nat /\ x \in Nat /\ \A y \in U : y \in Nat
      BY <2>2
    <3>3. CASE z >= x
      BY <3>1, <3>3
    <3>4. CASE ~(z >= x)
      <4>1. \A y \in U : x >= y
        BY <3>1, <3>2, <3>4
      <4>2. QED
        BY <2>2, <4>1
    <3>5. QED
      BY <3>3, <3>4
  <2>6. QED
    BY <2>4, <2>5
<1> HIDE DEF T, HasMax
<1>4. Cardinality(S) \in T
  <2>1. 0..Cardinality(S) \subseteq T
    BY <1>1, <1>2, <1>3, UpTo
  <2>2. QED
    BY <1>1, <2>1
<1>5. HasMax(S)
  BY <1>4 DEF T
<1>6. QED
  BY <1>5 DEF Max, HasMax

------------------------------------------------------------------------------
(* Recursion up to a number *)

\* f starts with base and makes each value from the one before.
Recursion(f, n, base, step) == f[0] = base /\ \A k \in 1..n : f[k] = step[<<k, f[k - 1]>>]

\* A function can be defined from 0 to n, each value by the one before.
LEMMA RecursionUpTo ==
  ASSUME NEW n \in Nat, NEW S, NEW base \in S, NEW step \in [(1..n) \X S -> S]
  PROVE  \E f \in [0..n -> S] : Recursion(f, n, base, step)
<1> DEFINE Upto(m, f) == f[0] = base /\ \A k \in 1..m : f[k] = step[<<k, f[k - 1]>>]
           T == {m \in 0..n : \E f \in [0..m -> S] : Upto(m, f)}
<1>1. 0 \in T
  <2> DEFINE f == [k \in 0..0 |-> base]
  <2>1. f \in [0..0 -> S] /\ Upto(0, f)
    OBVIOUS
  <2> HIDE DEF f, Upto
  <2>2. QED
    BY <2>1
<1>2. ASSUME NEW m \in 1..n, m - 1 \in T PROVE m \in T
  <2>1. PICK f \in [0..(m - 1) -> S] : Upto(m - 1, f)
    BY <1>2
  <2> DEFINE g == [k \in 0..m |-> IF k = m THEN step[<<m, f[m - 1]>>] ELSE f[k]]
  <2>2. /\ \A k \in 1..m : k - 1 \in 0..(m - 1) /\ k \in 0..m /\ k - 1 \in 0..m /\ k - 1 # m
        /\ \A k \in 1..m : k # m => k \in 1..(m - 1) /\ k \in 0..(m - 1)
        /\ m - 1 \in 0..(m - 1) /\ 0 \in 0..m /\ 0 # m /\ 0 \in 0..(m - 1) /\ m \in 0..n
        /\ \A k \in 0..m : k # m => k \in 0..(m - 1)
    OBVIOUS
  <2>3. step[<<m, f[m - 1]>>] \in S
    BY <2>2
  <2>4. g \in [0..m -> S]
    BY <2>2, <2>3
  <2>5. g[0] = base
    BY <2>1, <2>2
  <2>6. \A k \in 1..m : g[k - 1] = f[k - 1]
    BY <2>2
  <2>7. \A k \in 1..m : g[k] = step[<<k, g[k - 1]>>]
    BY <2>1, <2>2, <2>6
  <2>8. Upto(m, g)
    BY <2>5, <2>7
  <2> HIDE DEF g, Upto
  <2>9. QED
    BY <2>2, <2>4, <2>8
<1> HIDE DEF T
<1>3. 0..n \subseteq T
  BY <1>1, <1>2, UpTo
<1>4. n \in T
  BY <1>3
<1>5. QED
  BY <1>4 DEF T, Recursion

------------------------------------------------------------------------------
(* FlattenSeq *)

\* `flatten` of FlattenSeq on the first n elements.
IsFlat(ss, n, f) == f = [i \in 1..n |-> IF i = 1 THEN ss[i] ELSE f[i - 1] \o ss[i]]

\* FlattenSeq's recursion has a solution.
LEMMA FlatExists ==
  ASSUME NEW ss, NEW n \in Nat
  PROVE  \E f : IsFlat(ss, n, f)
<1> DEFINE T == {k \in 0..n : \E f : IsFlat(ss, k, f)}
<1>1. 0 \in T
  <2> DEFINE f == [i \in 1..0 |-> <<>>]
  <2>1. IsFlat(ss, 0, f)
    BY DEF IsFlat
  <2>2. QED
    BY <2>1
<1>2. ASSUME NEW k \in 1..n, k - 1 \in T PROVE k \in T
  <2>1. PICK f : IsFlat(ss, k - 1, f)
    BY <1>2
  <2> DEFINE g == [i \in 1..k |-> IF i = 1 THEN ss[i] ELSE f[i - 1] \o ss[i]]
  <2>2. ASSUME NEW i \in 1..(k - 1) PROVE g[i] = f[i]
    <3>1. f[i] = IF i = 1 THEN ss[i] ELSE f[i - 1] \o ss[i]
      BY <2>1 DEF IsFlat
    <3>2. i \in 1..k
      OBVIOUS
    <3>3. QED
      BY <3>1, <3>2
  <2>3. \A i \in 1..k : i # 1 => i - 1 \in 1..(k - 1)
    OBVIOUS
  <2>4. IsFlat(ss, k, g)
    BY <2>2, <2>3 DEF IsFlat
  <2>5. k \in 0..n
    OBVIOUS
  <2> HIDE DEF g
  <2>6. QED
    BY <2>4, <2>5
<1> HIDE DEF T
<1>3. 0..n \subseteq T
  BY <1>1, <1>2, UpTo
<1>4. n \in T
  BY <1>3
<1>5. QED
  BY <1>4 DEF T

\* The elements of the first k elements of ss.
FlatTo(ss, k) == IF k = 0 THEN <<>> ELSE (CHOOSE f : IsFlat(ss, Len(ss), f))[k]

\* FlattenSeq element by element, and its type.
LEMMA FlatSteps ==
  ASSUME NEW S, NEW ss \in Seq(Seq(S))
  PROVE  /\ FlatTo(ss, 0) = <<>>
         /\ \A k \in 1..Len(ss) : FlatTo(ss, k) = FlatTo(ss, k - 1) \o ss[k]
         /\ \A k \in 0..Len(ss) : FlatTo(ss, k) \in Seq(S)
         /\ FlattenSeq(ss) = FlatTo(ss, Len(ss))
<1> DEFINE f == CHOOSE g : IsFlat(ss, Len(ss), g)
           T == {k \in 0..Len(ss) : FlatTo(ss, k) \in Seq(S)}
<1>1. Len(ss) \in Nat /\ \A i \in 1..Len(ss) : ss[i] \in Seq(S)
  BY SeqElements
<1>2. IsFlat(ss, Len(ss), f)
  BY <1>1, FlatExists
<1>3. \A k \in 0..Len(ss) : FlatTo(ss, k) = IF k = 0 THEN <<>> ELSE f[k]
  BY DEF FlatTo
<1>4. FlattenSeq(ss) = FlatTo(ss, Len(ss))
  <2>1. Len(ss) = 0 => ss = <<>>
    BY EmptySeq
  <2>2. FlattenSeq(ss) = IF Len(ss) = 0 THEN ss ELSE f[Len(ss)]
    BY DEF FlattenSeq, IsFlat
  <2> HIDE DEF f
  <2>3. QED
    BY <1>1, <1>3, <2>1, <2>2
<1> HIDE DEF f
<1>5. ASSUME NEW k \in 1..Len(ss)
      PROVE  FlatTo(ss, k) = FlatTo(ss, k - 1) \o ss[k]
  <2>1. f[k] = IF k = 1 THEN ss[k] ELSE f[k - 1] \o ss[k]
    BY <1>2 DEF IsFlat
  <2>2. CASE k = 1
    <3>1. FlatTo(ss, k - 1) = <<>> /\ FlatTo(ss, k) = ss[k]
      BY <1>1, <1>3, <2>1, <2>2
    <3>2. <<>> \o ss[k] = ss[k]
      BY <1>1, ConcatEmptySeq
    <3>3. QED
      BY <3>1, <3>2
  <2>3. CASE k # 1
    <3>1. k - 1 \in 0..Len(ss) /\ k - 1 # 0 /\ k # 0 /\ k \in 0..Len(ss)
      BY <1>1, <2>3
    <3>2. QED
      BY <1>3, <2>1, <2>3, <3>1
  <2>4. QED
    BY <2>2, <2>3
<1>6. 0 \in T /\ FlatTo(ss, 0) = <<>>
  <2>1. FlatTo(ss, 0) = <<>> /\ <<>> \in Seq(S)
    BY DEF FlatTo
  <2>2. 0 \in 0..Len(ss)
    BY <1>1
  <2>3. FlatTo(ss, 0) \in Seq(S)
    BY <2>1
  <2>4. QED
    BY <2>1, <2>2, <2>3
<1>7. ASSUME NEW k \in 1..Len(ss), k - 1 \in T PROVE k \in T
  <2>1. FlatTo(ss, k - 1) \in Seq(S) /\ ss[k] \in Seq(S) /\ k \in 0..Len(ss)
    BY <1>1, <1>7
  <2>2. FlatTo(ss, k - 1) \o ss[k] \in Seq(S)
    BY <2>1, ConcatProperties
  <2>3. FlatTo(ss, k) \in Seq(S)
    BY <1>5, <2>2
  <2>4. QED
    BY <2>1, <2>3
<1> HIDE DEF T
<1>8. 0..Len(ss) \subseteq T
  BY <1>1, <1>6, <1>7, UpTo
<1>9. \A k \in 0..Len(ss) : FlatTo(ss, k) \in Seq(S)
  BY <1>8 DEF T
<1>10. QED
  BY <1>4, <1>5, <1>6, <1>9

\* The first elements decide.
LEMMA FlatPrefix ==
  ASSUME NEW S, NEW ss \in Seq(Seq(S)), NEW tt \in Seq(Seq(S)),
         NEW n \in Nat, n <= Len(ss), n <= Len(tt), \A i \in 1..n : ss[i] = tt[i]
  PROVE  \A k \in 0..n : FlatTo(ss, k) = FlatTo(tt, k)
<1> DEFINE T == {k \in 0..n : FlatTo(ss, k) = FlatTo(tt, k)}
<1>1. Len(ss) \in Nat /\ Len(tt) \in Nat
  BY SeqElements
<1>2. 0 \in T
  BY DEF FlatTo
<1>3. ASSUME NEW k \in 1..n, k - 1 \in T PROVE k \in T
  <2>1. k \in 1..Len(ss) /\ k \in 1..Len(tt) /\ k \in 0..n
    BY <1>1
  <2>2. FlatTo(ss, k - 1) = FlatTo(tt, k - 1)
    BY <1>3
  <2>3. FlatTo(ss, k) = FlatTo(ss, k - 1) \o ss[k] /\ FlatTo(tt, k) = FlatTo(tt, k - 1) \o tt[k]
    BY <2>1, FlatSteps
  <2>4. QED
    BY <2>1, <2>2, <2>3
<1> HIDE DEF T
<1>4. 0..n \subseteq T
  BY <1>2, <1>3, UpTo
<1>5. QED
  BY <1>4 DEF T

\* The elements before an element stay in place.
LEMMA FlatKeeps ==
  ASSUME NEW S, NEW ss \in Seq(Seq(S)), NEW k \in 1..Len(ss)
  PROVE  \A y \in 1..Len(FlatTo(ss, k - 1)) : FlatTo(ss, k)[y] = FlatTo(ss, k - 1)[y]
<1>1. k - 1 \in 0..Len(ss) /\ ss[k] \in Seq(S)
  BY SeqElements
<1> DEFINE a == FlatTo(ss, k - 1)
           b == ss[k]
<1>2. a \in Seq(S) /\ b \in Seq(S) /\ FlatTo(ss, k) = a \o b
  BY <1>1, FlatSteps
<1> HIDE DEF a, b
<1>3. /\ Len(a) \in Nat /\ Len(b) \in Nat
      /\ \A y \in 1..Len(a) + Len(b) : (a \o b)[y] = IF y <= Len(a) THEN a[y] ELSE b[y - Len(a)]
  BY <1>2, ConcatProperties, SeqElements
<1>4. ASSUME NEW y \in 1..Len(a) PROVE FlatTo(ss, k)[y] = a[y]
  <2>1. y \in 1..Len(a) + Len(b) /\ y <= Len(a)
    BY <1>3
  <2>2. QED
    BY <1>2, <1>3, <2>1
<1>5. QED
  BY <1>4 DEF a

\* One element after another.
LEMMA FlatNext ==
  ASSUME NEW S, NEW ss \in Seq(Seq(S)), NEW k \in 1..Len(ss)
  PROVE  /\ k - 1 \in 0..Len(ss) /\ k \in 0..Len(ss)
         /\ Len(FlatTo(ss, k - 1)) \in Nat /\ Len(ss[k]) \in Nat
         /\ Len(FlatTo(ss, k)) = Len(FlatTo(ss, k - 1)) + Len(ss[k])
         /\ \A y \in 1..Len(FlatTo(ss, k - 1)) : FlatTo(ss, k)[y] = FlatTo(ss, k - 1)[y]
         /\ \A x \in 1..Len(ss[k]) : FlatTo(ss, k)[Len(FlatTo(ss, k - 1)) + x] = ss[k][x]
<1>1. k - 1 \in 0..Len(ss) /\ k \in 0..Len(ss) /\ ss[k] \in Seq(S)
  BY SeqElements
<1> DEFINE a == FlatTo(ss, k - 1)
           b == ss[k]
<1>2. a \in Seq(S) /\ b \in Seq(S) /\ FlatTo(ss, k) = a \o b
  BY <1>1, FlatSteps
<1> HIDE DEF a, b
<1>3. /\ Len(a) \in Nat /\ Len(b) \in Nat /\ Len(a \o b) = Len(a) + Len(b)
      /\ \A y \in 1..Len(a) + Len(b) : (a \o b)[y] = IF y <= Len(a) THEN a[y] ELSE b[y - Len(a)]
  BY <1>2, ConcatProperties, SeqElements
<1>4. ASSUME NEW x \in 1..Len(b) PROVE (a \o b)[Len(a) + x] = b[x]
  <2>1. Len(a) + x \in 1..Len(a) + Len(b) /\ ~(Len(a) + x <= Len(a)) /\ (Len(a) + x) - Len(a) = x
    BY <1>3
  <2>2. QED
    BY <1>3, <2>1
<1>5. ASSUME NEW y \in 1..Len(a) PROVE (a \o b)[y] = a[y]
  <2>1. y \in 1..Len(a) + Len(b) /\ y <= Len(a)
    BY <1>3
  <2>2. QED
    BY <1>3, <2>1
<1>6. QED
  BY <1>1, <1>2, <1>3, <1>4, <1>5 DEF a, b

\* Where the elements of element k are.
LEMMA FlatPlace ==
  ASSUME NEW S, NEW ss \in Seq(Seq(S)), NEW k \in 1..Len(ss), NEW j \in k..Len(ss)
  PROVE  /\ Len(FlatTo(ss, j)) \in Nat
         /\ Len(FlatTo(ss, k)) <= Len(FlatTo(ss, j))
         /\ \A x \in 1..Len(ss[k]) :
              FlatTo(ss, j)[Len(FlatTo(ss, k - 1)) + x] = ss[k][x]
<1> DEFINE b == Len(FlatTo(ss, k - 1))
           d == Len(ss[k])
           Good(n) == /\ Len(FlatTo(ss, n)) \in Nat
                      /\ b + d <= Len(FlatTo(ss, n))
                      /\ \A x \in 1..d : FlatTo(ss, n)[b + x] = ss[k][x]
           T == {i \in 0..(j - k) : Good(k + i)}
<1>1. /\ Len(ss) \in Nat /\ k \in Nat /\ j \in Nat /\ j - k \in Nat /\ k + 0 = k
      /\ k + (j - k) = j /\ j <= Len(ss) /\ 0 \in 0..(j - k) /\ j - k \in 0..(j - k)
  BY SeqElements
<1>2. /\ b \in Nat /\ d \in Nat /\ Len(FlatTo(ss, k)) = b + d
      /\ \A x \in 1..d : FlatTo(ss, k)[b + x] = ss[k][x]
  BY FlatNext
<1>3. Good(k)
  <2> HIDE DEF b, d
  <2>1. Len(FlatTo(ss, k)) \in Nat /\ b + d <= Len(FlatTo(ss, k))
    BY <1>2
  <2>2. QED
    BY <1>2, <2>1
<1>4. 0 \in T
  BY <1>1, <1>3
<1>5. ASSUME NEW i \in 1..(j - k), i - 1 \in T PROVE i \in T
  <2> DEFINE n == k + i
             v == Len(FlatTo(ss, n - 1))
  <2>1. n \in 1..Len(ss) /\ n - 1 = k + (i - 1) /\ i \in 0..(j - k)
    BY <1>1
  <2>2. Good(n - 1)
    BY <1>5, <2>1
  <2> HIDE DEF n
  <2>3. /\ v \in Nat /\ Len(ss[n]) \in Nat
        /\ Len(FlatTo(ss, n)) = v + Len(ss[n])
        /\ \A y \in 1..v : FlatTo(ss, n)[y] = FlatTo(ss, n - 1)[y]
    <3>1. n \in 1..Len(ss)
      BY <2>1
    <3>2. Len(FlatTo(ss, n - 1)) \in Nat /\ Len(ss[n]) \in Nat
      BY <3>1, FlatNext
    <3>3. Len(FlatTo(ss, n)) = Len(FlatTo(ss, n - 1)) + Len(ss[n])
      BY <3>1, FlatNext
    <3>4. \A y \in 1..Len(FlatTo(ss, n - 1)) : FlatTo(ss, n)[y] = FlatTo(ss, n - 1)[y]
      BY <3>1, FlatKeeps
    <3>5. QED
      BY <3>2, <3>3, <3>4
  <2>4. b + d <= v /\ \A x \in 1..d : FlatTo(ss, n - 1)[b + x] = ss[k][x]
    BY <2>2
  <2> HIDE DEF v, b, d
  <2>5. Len(FlatTo(ss, n)) \in Nat /\ b + d <= Len(FlatTo(ss, n))
    BY <1>2, <2>3, <2>4
  <2>6. \A x \in 1..d : b + x \in 1..v
    BY <1>2, <2>3, <2>4
  <2>7. \A x \in 1..d : FlatTo(ss, n)[b + x] = ss[k][x]
    BY <2>3, <2>4, <2>6
  <2>8. Good(n)
    BY <2>5, <2>7
  <2> HIDE DEF Good
  <2>9. QED
    BY <2>1, <2>8 DEF n
<1> HIDE DEF T, Good
<1>6. 0..(j - k) \subseteq T
  BY <1>1, <1>4, <1>5, UpTo
<1>7. Good(j)
  BY <1>1, <1>6 DEF T
<1>8. QED
  BY <1>2, <1>7 DEF Good

\* Every element of a concatenation is an element of one of its parts.
LEMMA FlatFrom ==
  ASSUME NEW S, NEW ss \in Seq(Seq(S)), NEW n \in 0..Len(ss), NEW y \in 1..Len(FlatTo(ss, n))
  PROVE  \E k \in 1..n : \E x \in 1..Len(ss[k]) : y = Len(FlatTo(ss, k - 1)) + x
<1> DEFINE At(k, z) == \E x \in 1..Len(ss[k]) : z = Len(FlatTo(ss, k - 1)) + x
           T == {m \in 0..n : \A z \in 1..Len(FlatTo(ss, m)) : \E k \in 1..m : At(k, z)}
<1>1. Len(ss) \in Nat /\ n \in Nat /\ n <= Len(ss)
  BY SeqElements
<1>2. 0 \in T
  <2>1. FlatTo(ss, 0) = << >>
    BY FlatSteps
  <2>2. \A z : z \notin 1..Len(FlatTo(ss, 0))
    BY <2>1
  <2> HIDE DEF At
  <2>3. QED
    BY <1>1, <2>2
<1>3. ASSUME NEW m \in 1..n, m - 1 \in T
      PROVE  m \in T
  <2>1. m \in 1..Len(ss) /\ m \in 0..n
    BY <1>1
  <2>2. /\ Len(FlatTo(ss, m - 1)) \in Nat /\ Len(ss[m]) \in Nat
        /\ Len(FlatTo(ss, m)) = Len(FlatTo(ss, m - 1)) + Len(ss[m])
    BY <2>1, FlatNext
  <2>3. ASSUME NEW z \in 1..Len(FlatTo(ss, m))
        PROVE  \E k \in 1..m : At(k, z)
    <3>1. CASE z <= Len(FlatTo(ss, m - 1))
      <4>1. z \in 1..Len(FlatTo(ss, m - 1))
        BY <2>2, <3>1
      <4> HIDE DEF At
      <4>2. PICK k \in 1..(m - 1) : At(k, z)
        BY <1>3, <4>1
      <4>3. k \in 1..m
        BY <1>1
      <4>4. QED
        BY <4>2, <4>3
    <3>2. CASE z > Len(FlatTo(ss, m - 1))
      <4> DEFINE a == Len(FlatTo(ss, m - 1))
                 b == Len(ss[m])
                 x == z - a
      <4>1. a \in Nat /\ b \in Nat /\ z \in 1..(a + b) /\ z > a
        BY <2>2, <3>2
      <4> HIDE DEF a, b
      <4>2. x \in 1..b /\ z = a + x
        BY <4>1
      <4> HIDE DEF x
      <4>3. At(m, z) /\ m \in 1..m
        BY <4>2 DEF a, b
      <4> HIDE DEF At
      <4>4. QED
        BY <4>3
    <3>3. QED
      BY <2>2, <3>1, <3>2
  <2> HIDE DEF At
  <2>4. QED
    BY <2>1, <2>3
<1> HIDE DEF T
<1>4. 0..n \subseteq T
  BY <1>1, <1>2, <1>3, UpTo
<1>5. n \in T
  BY <1>1, <1>4
<1>6. QED
  BY <1>5 DEF T
==============================================================================
