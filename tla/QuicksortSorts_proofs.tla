----------------------- MODULE QuicksortSorts_proofs -----------------------
(* Proofs about ParallelQuicksort, continued: that a sort sorts, whatever   *)
(* its parts are handed to and however they come to be partitioned.         *)
EXTENDS ParallelQuicksort_proofs, FunctionTheorems

-----------------------------------------------------------------------------
(* The operators that rearrange a range.                                     *)

Element == Int \X Int

Below(a, x, y, p) == \A i \in x .. y - 1 : Key(a[i]) < p

NotBelow(a, x, y, p) == \A i \in x .. y - 1 : ~(Key(a[i]) < p)

\* b is a, with the elements from lo to hi in another order: what was at f[i] is now at i.
Shuffles(a, b, lo, hi, f) ==
    /\ f \in Bijection(DOMAIN a, DOMAIN a)
    /\ b = Rearranged(a, f)
    /\ \A i \in DOMAIN a : IF i \in lo .. hi - 1 THEN f[i] \in lo .. hi - 1 ELSE f[i] = i

\* Elements comp finds equivalent stay in their order.
KeepsOrder(b, f) == \A i, j \in DOMAIN b : i < j /\ Key(b[i]) = Key(b[j]) => f[i] < f[j]

LEMMA KeyType == ASSUME NEW e \in Element PROVE Key(e) \in Int
BY DEF Element, Key

LEMMA BijectionOn ==
    ASSUME NEW S, NEW f
    PROVE  f \in Bijection(S, S) <=>
             /\ f \in [S -> S]
             /\ \A x, y \in S : f[x] = f[y] => x = y
             /\ \A y \in S : \E x \in S : f[x] = y
BY DEF Bijection, Injection, Surjection, IsInjective

LEMMA RearrangedItems ==
    ASSUME NEW a, NEW S, NEW f \in [S -> S]
    PROVE  /\ DOMAIN Rearranged(a, f) = DOMAIN a
           /\ \A i \in DOMAIN a : Rearranged(a, f)[i] = IF i \in S THEN a[f[i]] ELSE a[i]
<1>1. DOMAIN f = S
  OBVIOUS
<1> QED BY <1>1 DEF Rearranged

\* What is done to a part of the range is done to the range.
LEMMA PartShuffles ==
    ASSUME NEW a \in Seq(Element), NEW lo \in Int, NEW hi \in Int, lo .. hi - 1 \subseteq DOMAIN a,
           NEW g \in Bijection(lo .. hi - 1, lo .. hi - 1)
    PROVE  \E f : /\ Shuffles(a, Rearranged(a, g), lo, hi, f)
                  /\ \A i \in lo .. hi - 1 : f[i] = g[i]
<1> DEFINE S == lo .. hi - 1
           f == [i \in DOMAIN a |-> IF i \in S THEN g[i] ELSE i]
<1>0. g \in Bijection(S, S) /\ S \subseteq DOMAIN a
  OBVIOUS
<1>1. g \in [S -> S] /\ (\A x, y \in S : g[x] = g[y] => x = y) /\ \A y \in S : \E x \in S : g[x] = y
  <2> HIDE DEF S
  <2> QED BY <1>0, BijectionOn
<1>2. f \in Bijection(DOMAIN a, DOMAIN a)
  <2>1. f \in [DOMAIN a -> DOMAIN a]
    BY <1>1
  <2>2. \A x, y \in DOMAIN a : f[x] = f[y] => x = y
    <3> HIDE DEF S
    <3> QED BY <1>1
  <2>3. ASSUME NEW y \in DOMAIN a PROVE \E x \in DOMAIN a : f[x] = y
    <3>1. CASE y \in S
      BY <1>1, <3>1
    <3>2. CASE y \notin S
      BY <3>2
    <3> QED BY <3>1, <3>2
  <2> HIDE DEF f
  <2> QED BY <2>1, <2>2, <2>3, BijectionOn
<1>3. Rearranged(a, g) = Rearranged(a, f)
  <2>1. DOMAIN g = S /\ DOMAIN f = DOMAIN a
    BY <1>1
  <2>2. \A i \in DOMAIN a : (IF i \in DOMAIN g THEN a[g[i]] ELSE a[i]) = (IF i \in DOMAIN f THEN a[f[i]] ELSE a[i])
    BY <2>1
  <2> HIDE DEF f
  <2> QED BY <2>2 DEF Rearranged
<1>4. \A i \in DOMAIN a : IF i \in S THEN f[i] \in S ELSE f[i] = i
  BY <1>1
<1>5. \A i \in S : f[i] = g[i]
  OBVIOUS
<1> HIDE DEF f
<1> QED BY <1>2, <1>3, <1>4, <1>5 DEF Shuffles

\* std::swap_ranges on ranges that do not overlap.
LEMMA SwapShuffles ==
    ASSUME NEW a \in Seq(Element), NEW lo \in Int, NEW hi \in Int, lo .. hi - 1 \subseteq DOMAIN a,
           NEW x \in Int, NEW y \in Int, NEW n \in Nat, x + n <= y \/ y + n <= x,
           lo <= x, lo <= y, x + n <= hi, y + n <= hi
    PROVE  \E f : Shuffles(a, SwapRanges(a, x, y, n), lo, hi, f)
<1> DEFINE X == x .. x + n - 1
           Y == y .. y + n - 1
           f == [i \in DOMAIN a |-> IF i \in X THEN i - x + y ELSE IF i \in Y THEN i - y + x ELSE i]
<1>1. DOMAIN a = 1 .. Len(a) /\ Len(a) \in Nat
  OBVIOUS
<1>2. \A i \in X : i \in DOMAIN a /\ i \in lo .. hi - 1 /\ i - x + y \in Y /\ i \notin Y
  BY <1>1
<1>3. \A i \in Y : i \in DOMAIN a /\ i \in lo .. hi - 1 /\ i - y + x \in X /\ i \notin X
  BY <1>1
<1>4. /\ \A i \in X : f[i] = i - x + y
      /\ \A i \in Y : f[i] = i - y + x
      /\ \A i \in DOMAIN a : i \notin X /\ i \notin Y => f[i] = i
      /\ DOMAIN f = DOMAIN a
  BY <1>2, <1>3
<1>5. \A i \in X : i \in Int
  OBVIOUS
<1>6. \A i \in Y : i \in Int
  OBVIOUS
<1>7. \A i \in DOMAIN a : f[i] \in DOMAIN a
  <2> HIDE DEF f, X, Y
  <2> QED BY <1>2, <1>3, <1>4
<1>8. \A i \in DOMAIN a : f[i] \in DOMAIN a /\ f[f[i]] = i
  <2>1. ASSUME NEW i \in X PROVE f[f[i]] = i
    <3>1. f[i] = i - x + y /\ i - x + y \in Y
      BY <1>2, <1>4
    <3>2. f[i - x + y] = (i - x + y) - y + x
      BY <1>4, <3>1
    <3>3. (i - x + y) - y + x = i
      BY <1>5
    <3> QED BY <3>1, <3>2, <3>3
  <2>2. ASSUME NEW i \in Y PROVE f[f[i]] = i
    <3>1. f[i] = i - y + x /\ i - y + x \in X
      BY <1>3, <1>4
    <3>2. f[i - y + x] = (i - y + x) - x + y
      BY <1>4, <3>1
    <3>3. (i - y + x) - x + y = i
      BY <1>6
    <3> QED BY <3>1, <3>2, <3>3
  <2> HIDE DEF f, X, Y
  <2> QED BY <1>4, <1>7, <2>1, <2>2
<1>9. f \in [DOMAIN a -> DOMAIN a]
  BY <1>7
<1>10. f \in Bijection(DOMAIN a, DOMAIN a)
  <2> HIDE DEF f, X, Y
  <2>1. \A u, v \in DOMAIN a : f[u] = f[v] => u = v
    BY <1>8
  <2>2. \A v \in DOMAIN a : \E u \in DOMAIN a : f[u] = v
    BY <1>8
  <2> QED BY <1>9, <2>1, <2>2, BijectionOn
<1>11. SwapRanges(a, x, y, n) = Rearranged(a, f)
  <2> DEFINE e(i) == CASE i \in X -> a[i - x + y] [] i \in Y -> a[i - y + x] [] OTHER -> a[i]
  <2>1. ASSUME NEW i \in DOMAIN a PROVE e(i) = a[f[i]]
    <3>1. CASE i \in X
      BY <1>2, <1>4, <3>1
    <3>2. CASE i \in Y
      BY <1>3, <1>4, <3>2
    <3>3. CASE i \notin X /\ i \notin Y
      BY <1>4, <3>3
    <3> QED BY <3>1, <3>2, <3>3
  <2>2. SwapRanges(a, x, y, n) = [i \in DOMAIN a |-> e(i)]
    BY DEF SwapRanges
  <2>3. Rearranged(a, f) = [i \in DOMAIN a |-> a[f[i]]]
    <3> HIDE DEF f
    <3> QED BY <1>4 DEF Rearranged
  <2> HIDE DEF e, f
  <2> QED BY <2>1, <2>2, <2>3
<1>12. \A i \in DOMAIN a : IF i \in lo .. hi - 1 THEN f[i] \in lo .. hi - 1 ELSE f[i] = i
  <2> HIDE DEF f, X, Y
  <2> QED BY <1>2, <1>3, <1>4
<1> HIDE DEF f
<1> QED BY <1>10, <1>11, <1>12 DEF Shuffles

\* A shuffle of one part keeps what the elements of another have in common, be it around
\* that part or apart from it.
LEMMA ShuffleStays ==
    ASSUME NEW a, NEW b, NEW lo \in Int, NEW hi \in Int, NEW f, Shuffles(a, b, lo, hi, f),
           NEW x \in Int, NEW y \in Int, x .. y - 1 \subseteq DOMAIN a,
           hi <= x \/ y <= lo \/ (x <= lo /\ hi <= y),
           NEW i \in x .. y - 1
    PROVE  f[i] \in x .. y - 1 /\ b[i] = a[f[i]]
<1>1. /\ f \in [DOMAIN a -> DOMAIN a] /\ i \in DOMAIN a
      /\ IF i \in lo .. hi - 1 THEN f[i] \in lo .. hi - 1 ELSE f[i] = i
  BY BijectionOn DEF Shuffles
<1>2. b[i] = a[f[i]]
  BY <1>1 DEF Shuffles, Rearranged
<1>3. CASE i \in lo .. hi - 1
  <2>1. x <= lo /\ hi <= y
    BY <1>3
  <2> QED BY <1>1, <1>2, <1>3, <2>1
<1>4. CASE i \notin lo .. hi - 1
  BY <1>1, <1>2, <1>4
<1> QED BY <1>3, <1>4

\* A set of the first of some positions is known by their number.
LEMMA FirstOnes ==
    ASSUME NEW lo \in Int, NEW hi \in Int, NEW D \in SUBSET (lo .. hi - 1),
           \A i \in lo .. hi - 1, j \in D : i < j => i \in D
    PROVE  IsFiniteSet(D) /\ Cardinality(D) \in Nat /\ \A i \in lo .. hi - 1 : i \in D <=> i < lo + Cardinality(D)
<1>1. IsFiniteSet(D) /\ Cardinality(D) \in Nat
  <2> DEFINE m == hi - 1
  <2>1. m \in Int
    OBVIOUS
  <2>2. D \in SUBSET (lo .. m)
    OBVIOUS
  <2> HIDE DEF m
  <2> QED BY <2>1, <2>2, FS_Interval, FS_Subset, FS_CardinalityType
<1>2. ASSUME NEW i \in D PROVE i < lo + Cardinality(D)
  <2>1. lo .. i \subseteq D
    OBVIOUS
  <2>2. i \in Int /\ lo <= i
    OBVIOUS
  <2>3. IsFiniteSet(lo .. i) /\ Cardinality(lo .. i) = i - lo + 1
    BY <2>2, FS_Interval
  <2>4. Cardinality(lo .. i) <= Cardinality(D)
    BY <1>1, <2>1, FS_Subset
  <2> QED BY <1>1, <2>2, <2>3, <2>4
<1>3. ASSUME NEW i \in lo .. hi - 1, i \notin D PROVE i >= lo + Cardinality(D)
  <2> DEFINE m == i - 1
  <2>1. D \subseteq lo .. m
    <3>1. ASSUME NEW j \in D PROVE j < i
      <4>1. j \in lo .. hi - 1
        OBVIOUS
      <4>2. ~(i < j) /\ j # i
        BY <1>3
      <4> QED BY <4>1, <4>2
    <3>2. ASSUME NEW j \in D PROVE j \in lo .. m
      BY <3>1
    <3> QED BY <3>2
  <2>2. m \in Int /\ i \in Int /\ i = m + 1 /\ lo <= i
    OBVIOUS
  <2> HIDE DEF m
  <2>3. IsFiniteSet(lo .. m) /\ Cardinality(lo .. m) = IF lo > m THEN 0 ELSE m - lo + 1
    BY <2>2, FS_Interval
  <2>4. Cardinality(D) <= Cardinality(lo .. m)
    BY <2>1, <2>3, FS_Subset
  <2> QED BY <1>1, <2>2, <2>3, <2>4
<1> QED BY <1>1, <1>2, <1>3

\* std::partition puts the elements less than p before the point it returns, and the others
\* from there on; std::stable_partition keeps equivalent elements in their order.
LEMMA PartitionSplits ==
    ASSUME NEW a \in Seq(Element), NEW lo \in Int, NEW hi \in Int, lo .. hi - 1 \subseteq DOMAIN a,
           <<lo, hi>> \in Spans, NEW p \in Int, NEW stable \in BOOLEAN, NEW b \in Partitions(a, lo, hi, p, stable)
    PROVE  /\ \A i \in lo .. hi - 1 : Key(b[i]) < p <=> i < PartitionPoint(a, lo, hi, p)
           /\ \A i \in DOMAIN a : b[i] \in Element
           /\ \E f : Shuffles(a, b, lo, hi, f) /\ (stable => KeepsOrder(b, f))
<1> DEFINE S == lo .. hi - 1
<1>1. PICK g \in Orders[<<lo, hi>>] :
          /\ b = Rearranged(a, g)
          /\ \A i, j \in S : i < j =>
               /\ Key(a[g[j]]) < p => Key(a[g[i]]) < p
               /\ stable /\ (Key(a[g[i]]) < p <=> Key(a[g[j]]) < p) => g[i] < g[j]
  BY DEF Partitions
<1>2. g \in Bijection(S, S) /\ g \in [S -> S]
  BY OrdersArePermutations
<1>3. \A i \in S : b[i] = a[g[i]] /\ g[i] \in S
  <2> HIDE DEF S
  <2>1. S \subseteq DOMAIN a
    BY DEF S
  <2> QED BY <1>1, <1>2, <2>1, RearrangedItems
<1>4. \A i \in DOMAIN a : b[i] \in Element
  <2> HIDE DEF S
  <2>1. S \in SUBSET DOMAIN a
    BY DEF S
  <2>2. b \in Seq(Element) /\ Len(b) = Len(a)
    BY <1>1, <1>2, <2>1, RearrangedType
  <2> QED BY <2>2
<1> DEFINE less == {i \in S : Key(a[i]) < p}
           D == {i \in S : Key(b[i]) < p}
           h == [i \in D |-> g[i]]
<1>5. h \in Bijection(D, less)
  <2>1. (\A x, y \in S : g[x] = g[y] => x = y) /\ \A y \in S : \E x \in S : g[x] = y
    <3> HIDE DEF S
    <3> QED BY <1>2, BijectionOn
  <2>2. h \in [D -> less]
    BY <1>3
  <2>3. \A x, y \in D : h[x] = h[y] => x = y
    BY <2>1
  <2>4. ASSUME NEW y \in less PROVE \E x \in D : h[x] = y
    <3>1. PICK x \in S : g[x] = y
      BY <2>1
    <3>2. x \in D
      BY <1>3, <3>1
    <3> QED BY <3>1, <3>2
  <2> HIDE DEF h, D, less
  <2> QED BY <2>2, <2>3, <2>4 DEF Bijection, Injection, Surjection, IsInjective
<1>6. \A i \in S, j \in D : i < j => i \in D
  BY <1>1, <1>3
<1>7. IsFiniteSet(D) /\ \A i \in S : i \in D <=> i < lo + Cardinality(D)
  <2>1. D \in SUBSET S
    OBVIOUS
  <2> HIDE DEF D
  <2> QED BY <1>6, <2>1, FirstOnes
<1>8. Cardinality(less) = Cardinality(D)
  <2> HIDE DEF h, D, less
  <2> QED BY <1>5, <1>7, FS_Bijection DEF ExistsBijection
<1>9. PartitionPoint(a, lo, hi, p) = lo + Cardinality(D)
  BY <1>8 DEF PartitionPoint
<1>10. \A i \in S : Key(b[i]) < p <=> i < PartitionPoint(a, lo, hi, p)
  <2>1. \A i \in S : Key(b[i]) < p <=> i \in D
    OBVIOUS
  <2> HIDE DEF D
  <2> QED BY <1>7, <1>9, <2>1
<1>11. PICK f : Shuffles(a, b, lo, hi, f) /\ \A i \in S : f[i] = g[i]
  <2>1. g \in Bijection(lo .. hi - 1, lo .. hi - 1)
    BY <1>2
  <2>2. \E f : Shuffles(a, Rearranged(a, g), lo, hi, f) /\ \A i \in lo .. hi - 1 : f[i] = g[i]
    BY <2>1, PartShuffles
  <2> QED BY <1>1, <2>2
<1>12. ASSUME stable, NEW i \in DOMAIN b, NEW j \in DOMAIN b, i < j, Key(b[i]) = Key(b[j])
       PROVE  f[i] < f[j]
  <2>1. DOMAIN b = DOMAIN a /\ DOMAIN a = 1 .. Len(a) /\ Len(a) \in Nat
    <3>1. DOMAIN b = DOMAIN a
      BY <1>1 DEF Rearranged
    <3> QED BY <3>1
  <2>2. \A k \in DOMAIN a : IF k \in S THEN f[k] \in S ELSE f[k] = k
    BY <1>11 DEF Shuffles
  <2>3. CASE i \in S /\ j \in S
    BY <1>1, <1>3, <1>11, <1>12, <2>3
  <2>4. CASE ~(i \in S /\ j \in S)
    BY <1>12, <2>1, <2>2, <2>4
  <2> QED BY <2>3, <2>4
<1> QED BY <1>4, <1>10, <1>11, <1>12 DEF KeepsOrder

\* std::sort and std::stable_sort.
LEMMA LeafSorts ==
    ASSUME NEW a \in Seq(Element), NEW lo \in Int, NEW hi \in Int, lo .. hi - 1 \subseteq DOMAIN a,
           <<lo, hi>> \in Spans, NEW stable \in BOOLEAN, NEW b \in SortedFrom(a, lo, hi, stable)
    PROVE  /\ \A i, j \in lo .. hi - 1 : i < j => Key(b[i]) <= Key(b[j])
           /\ \E f : Shuffles(a, b, lo, hi, f) /\ (stable => KeepsOrder(b, f))
<1> DEFINE S == lo .. hi - 1
<1>1. PICK g \in Orders[<<lo, hi>>] :
          /\ b = Rearranged(a, g)
          /\ \A i, j \in S : i < j =>
               /\ Key(a[g[i]]) <= Key(a[g[j]])
               /\ stable /\ Key(a[g[i]]) = Key(a[g[j]]) => g[i] < g[j]
  BY DEF SortedFrom
<1>2. g \in Bijection(S, S) /\ g \in [S -> S]
  BY OrdersArePermutations
<1>3. \A i \in S : b[i] = a[g[i]] /\ g[i] \in S
  <2> HIDE DEF S
  <2>1. S \subseteq DOMAIN a
    BY DEF S
  <2> QED BY <1>1, <1>2, <2>1, RearrangedItems
<1>4. PICK f : Shuffles(a, b, lo, hi, f) /\ \A i \in S : f[i] = g[i]
  <2>1. g \in Bijection(lo .. hi - 1, lo .. hi - 1)
    BY <1>2
  <2>2. \E f : Shuffles(a, Rearranged(a, g), lo, hi, f) /\ \A i \in lo .. hi - 1 : f[i] = g[i]
    BY <2>1, PartShuffles
  <2> QED BY <1>1, <2>2
<1>5. ASSUME stable, NEW i \in DOMAIN b, NEW j \in DOMAIN b, i < j, Key(b[i]) = Key(b[j])
       PROVE  f[i] < f[j]
  <2>1. DOMAIN b = DOMAIN a /\ DOMAIN a = 1 .. Len(a) /\ Len(a) \in Nat
    <3>1. DOMAIN b = DOMAIN a
      BY <1>1 DEF Rearranged
    <3> QED BY <3>1
  <2>2. \A k \in DOMAIN a : IF k \in S THEN f[k] \in S ELSE f[k] = k
    BY <1>4 DEF Shuffles
  <2>3. CASE i \in S /\ j \in S
    BY <1>1, <1>3, <1>4, <1>5, <2>3
  <2>4. CASE ~(i \in S /\ j \in S)
    BY <1>5, <2>1, <2>2, <2>4
  <2> QED BY <2>3, <2>4
<1>6. \A i, j \in S : i < j => Key(b[i]) <= Key(b[j])
  BY <1>1, <1>3
<1> QED BY <1>4, <1>5, <1>6 DEF KeepsOrder

\* A shuffle of what was shuffled is a shuffle of what it was at first.
LEMMA ShufflesCompose ==
    ASSUME NEW a \in Seq(Element), NEW f \in Bijection(DOMAIN a, DOMAIN a),
           NEW b \in Seq(Element), b = Rearranged(a, f),
           NEW c, NEW lo \in Int, NEW hi \in Int, NEW g, Shuffles(b, c, lo, hi, g)
    PROVE  \E h \in Bijection(DOMAIN a, DOMAIN a) :
               /\ c = Rearranged(a, h)
               /\ KeepsOrder(b, f) /\ KeepsOrder(c, g) => KeepsOrder(c, h)
<1> DEFINE N == DOMAIN a
           h == [i \in N |-> f[g[i]]]
<1>1. f \in [N -> N] /\ (\A x, y \in N : f[x] = f[y] => x = y) /\ \A y \in N : \E x \in N : f[x] = y
  BY BijectionOn
<1>2. DOMAIN b = N /\ \A i \in N : b[i] = a[f[i]]
  BY <1>1, RearrangedItems
<1>3. g \in [N -> N] /\ (\A x, y \in N : g[x] = g[y] => x = y) /\ \A y \in N : \E x \in N : g[x] = y
  BY <1>2, BijectionOn DEF Shuffles
<1>4. DOMAIN c = N /\ \A i \in N : c[i] = b[g[i]]
  BY <1>2, <1>3, RearrangedItems DEF Shuffles
<1>5. h \in Bijection(N, N)
  <2>1. h \in [N -> N]
    BY <1>1, <1>3
  <2>2. \A x, y \in N : h[x] = h[y] => x = y
    BY <1>1, <1>3
  <2>3. ASSUME NEW y \in N PROVE \E x \in N : h[x] = y
    <3>1. PICK z \in N : f[z] = y
      BY <1>1
    <3>2. PICK x \in N : g[x] = z
      BY <1>3
    <3> QED BY <3>1, <3>2
  <2> HIDE DEF h
  <2> QED BY <2>1, <2>2, <2>3, BijectionOn
<1>6. c = Rearranged(a, h)
  <2>1. \A i \in N : c[i] = a[h[i]]
    BY <1>2, <1>3, <1>4
  <2>2. DOMAIN h = N
    OBVIOUS
  <2>3. c = [i \in N |-> c[i]]
    <3>1. c = Rearranged(b, g)
      BY DEF Shuffles
    <3> QED BY <1>2, <3>1 DEF Rearranged
  <2> HIDE DEF h
  <2> QED BY <2>1, <2>2, <2>3 DEF Rearranged
<1>7. ASSUME KeepsOrder(b, f), KeepsOrder(c, g), NEW i \in N, NEW j \in N, i < j, Key(c[i]) = Key(c[j])
      PROVE  h[i] < h[j]
  <2>1. g[i] < g[j] /\ g[i] \in N /\ g[j] \in N
    BY <1>3, <1>4, <1>7 DEF KeepsOrder
  <2>2. Key(b[g[i]]) = Key(b[g[j]])
    BY <1>4, <1>7
  <2> QED BY <1>2, <1>7, <2>1, <2>2 DEF KeepsOrder
<1>8. KeepsOrder(b, f) /\ KeepsOrder(c, g) => KeepsOrder(c, h)
  <2> HIDE DEF h
  <2> QED BY <1>4, <1>7 DEF KeepsOrder
<1> HIDE DEF h
<1> QED BY <1>5, <1>6, <1>8

LEMMA SwapItems ==
    ASSUME NEW a, NEW x \in Int, NEW y \in Int, NEW n \in Nat, x + n <= y \/ y + n <= x,
           NEW i \in DOMAIN a, NEW b, b = SwapRanges(a, x, y, n)
    PROVE  /\ i \in x .. x + n - 1 => \E j \in y .. y + n - 1 : b[i] = a[j]
           /\ i \in y .. y + n - 1 => \E j \in x .. x + n - 1 : b[i] = a[j]
           /\ i \notin x .. x + n - 1 /\ i \notin y .. y + n - 1 => b[i] = a[i]
<1> DEFINE X == x .. x + n - 1
           Y == y .. y + n - 1
<1>1. b[i] = CASE i \in X -> a[i - x + y] [] i \in Y -> a[i - y + x] [] OTHER -> a[i]
  BY DEF SwapRanges
<1>2. i \in X => i - x + y \in Y /\ i \notin Y
  OBVIOUS
<1>3. i \in Y => i - y + x \in X /\ i \notin X
  OBVIOUS
<1> HIDE DEF X, Y
<1>4. CASE i \in X
  BY <1>1, <1>2, <1>4 DEF X, Y
<1>5. CASE i \in Y
  BY <1>1, <1>3, <1>5 DEF X, Y
<1>6. CASE i \notin X /\ i \notin Y
  BY <1>1, <1>6 DEF X, Y
<1> QED BY <1>4, <1>5, <1>6

\* The halves of a range are partitioned at lm and at m.
Parted(a, lo, lm, half, m, hi, p) ==
    /\ lo <= lm /\ lm <= half /\ half <= m /\ m <= hi
    /\ Below(a, lo, lm, p) /\ NotBelow(a, lm, half, p) /\ Below(a, half, m, p) /\ NotBelow(a, m, hi, p)

\* The highs of the left half and the lows of the right one, as many as there are of both, have
\* changed places.
Merged(a, b, lm, half, m) ==
    \E n \in Int : /\ n = half - lm \/ n = m - half
                   /\ n <= half - lm /\ n <= m - half
                   /\ b = SwapRanges(a, lm, m - n, n) \/ b = SwapRanges(a, m - n, lm, n)

\* Where an element is before and after the highs of the left half and the lows of the right
\* one have changed places.
LEMMA SwappedPlaces ==
    ASSUME NEW lo \in Int, NEW lm \in Int, NEW half \in Int, NEW m \in Int, NEW hi \in Int, NEW n \in Int,
           lo <= lm, lm <= half, half <= m, m <= hi, n = half - lm \/ n = m - half, n <= half - lm, n <= m - half,
           NEW i \in Int, lo <= i, i < hi
    PROVE  /\ lm <= i /\ i < lm + n => i < lm + (m - half)
           /\ m - n <= i /\ i < m => ~(i < lm + (m - half))
           /\ ~(lm <= i /\ i < lm + n) /\ ~(m - n <= i /\ i < m) =>
                \/ i < lm /\ i < lm + (m - half)
                \/ lm <= i /\ i < half /\ ~(i < lm + (m - half))
                \/ half <= i /\ i < m /\ i < lm + (m - half)
                \/ m <= i /\ ~(i < lm + (m - half))
OBVIOUS

\* partition_p2: two halves that are partitioned, the highs of the one swapped with the lows of
\* the other, make a range that is partitioned where MergeHalves says.
LEMMA MergeShuffles ==
    ASSUME NEW a \in Seq(Element), NEW lo \in Int, NEW lm \in Int, NEW v \in Int, NEW hi \in Int, NEW n \in Nat,
           lo <= lm, lm + n <= v, v + n <= hi, lo .. hi - 1 \subseteq DOMAIN a,
           NEW b, b = SwapRanges(a, lm, v, n) \/ b = SwapRanges(a, v, lm, n)
    PROVE  \E f : Shuffles(a, b, lo, hi, f)
<1>1. lo <= v /\ lm + n <= hi
  OBVIOUS
<1>2. CASE b = SwapRanges(a, lm, v, n)
  BY <1>1, <1>2, SwapShuffles
<1>3. CASE b = SwapRanges(a, v, lm, n)
  BY <1>1, <1>3, SwapShuffles
<1> QED BY <1>2, <1>3

LEMMA SwapFitsHalves ==
    ASSUME NEW lm \in Int, NEW half \in Int, NEW m \in Int, NEW hi \in Int, NEW n \in Int,
           lm <= half, half <= m, m <= hi, n = half - lm \/ n = m - half, n <= half - lm, n <= m - half
    PROVE  n \in Nat /\ m - n \in Int /\ lm + n <= m - n /\ (m - n) + n <= hi
OBVIOUS

LEMMA MergedSplits ==
    ASSUME NEW a \in Seq(Element), NEW lo \in Int, NEW lm \in Int, NEW half \in Int, NEW m \in Int,
           NEW hi \in Int, lo .. hi - 1 \subseteq DOMAIN a, NEW p \in Int, Parted(a, lo, lm, half, m, hi, p),
           NEW b, Merged(a, b, lm, half, m)
    PROVE  /\ \A i \in lo .. hi - 1 : Key(b[i]) < p <=> i < lm + (m - half)
           /\ \E f : Shuffles(a, b, lo, hi, f)
<1>0. lo <= lm /\ lm <= half /\ half <= m /\ m <= hi
  BY DEF Parted
<1>1. PICK n \in Int : /\ n = half - lm \/ n = m - half
                       /\ n <= half - lm /\ n <= m - half
                       /\ b = SwapRanges(a, lm, m - n, n) \/ b = SwapRanges(a, m - n, lm, n)
  BY DEF Merged
<1>2. PICK v \in Int : v = m - n
  OBVIOUS
<1>3. b = SwapRanges(a, lm, v, n) \/ b = SwapRanges(a, v, lm, n)
  BY <1>1, <1>2
<1>4. n = half - lm \/ n = m - half
  BY <1>1
<1>5. n <= half - lm /\ n <= m - half
  BY <1>1
<1>6. n \in Nat /\ lm + n <= v /\ v + n <= hi
  BY <1>0, <1>2, <1>4, <1>5, SwapFitsHalves
<1>7. ASSUME NEW i \in lo .. hi - 1 PROVE Key(b[i]) < p <=> i < lm + (m - half)
  <2>0. i \in DOMAIN a /\ i \in Int /\ lo <= i /\ i < hi
    OBVIOUS
  <2>1. /\ lm <= i /\ i < lm + n => i < lm + (m - half)
        /\ m - n <= i /\ i < m => ~(i < lm + (m - half))
        /\ ~(lm <= i /\ i < lm + n) /\ ~(m - n <= i /\ i < m) =>
             \/ i < lm /\ i < lm + (m - half)
             \/ lm <= i /\ i < half /\ ~(i < lm + (m - half))
             \/ half <= i /\ i < m /\ i < lm + (m - half)
             \/ m <= i /\ ~(i < lm + (m - half))
    <3>1. n \in Int /\ i \in Int /\ lo <= i /\ i < hi
      BY <2>0
    <3> QED BY ONLY <1>0, <1>4, <1>5, <3>1, SwappedPlaces, lo \in Int, lm \in Int, half \in Int, m \in Int, hi \in Int
  <2>2. /\ i \in lm .. lm + n - 1 => \E j \in v .. v + n - 1 : b[i] = a[j]
        /\ i \in v .. v + n - 1 => \E j \in lm .. lm + n - 1 : b[i] = a[j]
        /\ i \notin lm .. lm + n - 1 /\ i \notin v .. v + n - 1 => b[i] = a[i]
    <3>1. CASE b = SwapRanges(a, lm, v, n)
      BY <1>6, <2>0, <3>1, SwapItems, SMTT(60)
    <3>2. CASE b = SwapRanges(a, v, lm, n)
      BY <1>6, <2>0, <3>2, SwapItems
    <3> QED BY <1>3, <3>1, <3>2
  <2>3. CASE i \in lm .. lm + n - 1
    <3>1. PICK j \in v .. v + n - 1 : b[i] = a[j]
      BY <2>2, <2>3
    <3>2. j \in half .. m - 1
      BY <1>2, <1>5
    <3>3. i < lm + (m - half)
      BY <2>0, <2>1, <2>3
    <3>4. Key(a[j]) < p
      BY <3>2 DEF Parted, Below
    <3> QED BY <3>1, <3>3, <3>4
  <2>4. CASE i \in v .. v + n - 1
    <3>1. PICK j \in lm .. lm + n - 1 : b[i] = a[j]
      BY <2>2, <2>4
    <3>2. j \in lm .. half - 1
      BY <1>5
    <3>3. ~(i < lm + (m - half))
      BY <1>2, <2>0, <2>1, <2>4
    <3>4. ~(Key(a[j]) < p)
      BY <3>2 DEF Parted, NotBelow
    <3> QED BY <3>1, <3>3, <3>4
  <2>5. CASE i \notin lm .. lm + n - 1 /\ i \notin v .. v + n - 1
    <3>1. b[i] = a[i]
      BY <2>2, <2>5
    <3>2. ~(lm <= i /\ i < lm + n) /\ ~(m - n <= i /\ i < m)
      BY <1>2, <1>6, <2>0, <2>5
    <3>3. \/ i < lm /\ i < lm + (m - half)
          \/ lm <= i /\ i < half /\ ~(i < lm + (m - half))
          \/ half <= i /\ i < m /\ i < lm + (m - half)
          \/ m <= i /\ ~(i < lm + (m - half))
      BY <2>1, <3>2
    <3>4. CASE i < lm /\ i < lm + (m - half)
      <4>1. i \in lo .. lm - 1
        BY <2>0, <3>4
      <4> QED BY <3>1, <3>4, <4>1 DEF Parted, Below
    <3>5. CASE lm <= i /\ i < half /\ ~(i < lm + (m - half))
      <4>1. i \in lm .. half - 1
        BY <2>0, <3>5
      <4> QED BY <3>1, <3>5, <4>1 DEF Parted, NotBelow
    <3>6. CASE half <= i /\ i < m /\ i < lm + (m - half)
      <4>1. i \in half .. m - 1
        BY <2>0, <3>6
      <4> QED BY <3>1, <3>6, <4>1 DEF Parted, Below
    <3>7. CASE m <= i /\ ~(i < lm + (m - half))
      <4>1. i \in m .. hi - 1
        BY <2>0, <3>7
      <4> QED BY <3>1, <3>7, <4>1 DEF Parted, NotBelow
    <3> QED BY <3>3, <3>4, <3>5, <3>6, <3>7
  <2> QED BY <2>3, <2>4, <2>5
<1>8. \E f : Shuffles(a, b, lo, hi, f)
  BY <1>0, <1>3, <1>6, MergeShuffles
<1> QED BY <1>7, <1>8

LEMMA MergeSplits ==
    ASSUME NEW a, NEW lm \in Int, NEW half \in Int, NEW m \in Int,
           NEW n, n = Least(half - lm, m - half),
           NEW b, b = IF half - lm <= m - half THEN SwapRanges(a, lm, m - n, n) ELSE SwapRanges(a, half, lm, n)
    PROVE  Merged(a, b, lm, half, m)
<1>1. n \in Int /\ (n = half - lm \/ n = m - half) /\ n <= half - lm /\ n <= m - half
  BY DEF Least
<1>2. b = SwapRanges(a, lm, m - n, n) \/ b = SwapRanges(a, m - n, lm, n)
  <2>1. CASE half - lm <= m - half
    BY <2>1
  <2>2. CASE ~(half - lm <= m - half)
    <3>1. half = m - n
      BY <2>2 DEF Least
    <3> QED BY <2>2, <3>1
  <2> QED BY <2>1, <2>2
<1> QED BY <1>1, <1>2 DEF Merged

-----------------------------------------------------------------------------
(* What the parts of a range look like.                                      *)

Inside(c, d) == d.lo <= c.lo /\ c.hi <= d.hi

\* Nothing in progress straddles a call that was ever submitted: it is inside it or apart.
Nested ==
    \A s \in Sort : \A c \in Live, d \in InFutures(s) :
        c.sort = s => Apart(c, d) \/ Inside(c, d)

\* A call between its two submissions has submitted the first.
FirstSubmitted ==
    \A t \in Running : pc[t] = "spawning" =>
        QuicksortTask(job[t].sort, job[t].lo, mid[t]) \in InFutures(job[t].sort)

\* A half that has been partitioned stays so until the halves are merged.
RightParted(t) ==
    LET a == arr[job[t].sort]
    IN  Below(a, Halfway(t), mid[t], pivot[t]) /\ NotBelow(a, mid[t], job[t].hi, pivot[t])

LeftParted(t) ==
    LET a == arr[job[t].sort]
        left_mid == ready[LeftHalf(t)].at
    IN  Below(a, job[t].lo, left_mid, pivot[t]) /\ NotBelow(a, left_mid, Halfway(t), pivot[t])

HalvesParted ==
    \A t \in Joiners :
        /\ pc[t] = "joining" => RightParted(t)
        /\ LeftHalf(t) \in DOMAIN ready /\ ready[LeftHalf(t)].ok => LeftParted(t)

\* Only std::sort partitions in parallel; the others have nothing to spend.
Budgets ==
    /\ \A s \in Sort : call[s].by # "sort" => allowed[s] <= 0
    /\ \A t \in Joiners : call[job[t].sort].by = "sort"
    /\ \A h \in LeftHalves : call[h.sort].by = "sort"

\* An exception, which the caller will come upon, has left some call undone.
Failed(s) ==
    \/ Excess(s) > 0 \/ pc[s] = "threw"
    \/ \E c \in DOMAIN ready : c.sort = s /\ c.part = "impl" /\ ~ready[c].ok

Holds(c, i) == c.lo <= i /\ i < c.hi

\* What is not in order is inside one of the calls still to be done.
InOrder(s) ==
    \A i, j \in DOMAIN arr[s] : i < j =>
        \/ Key(arr[s][i]) <= Key(arr[s][j])
        \/ \E c \in Live : c.sort = s /\ c.part = "impl" /\ Holds(c, i) /\ Holds(c, j)

Ordered == \A s \in Sort : pc[s] \in {"idle", "called"} \/ Failed(s) \/ InOrder(s)

\* The futures get_futures has been through hold values, and every result is in the vector.
ResultsHold ==
    /\ \A c \in DOMAIN ready : c.part = "impl" => c \in InFutures(c.sort)
    /\ \A s \in Sort : \A i \in 1 .. got[s] : ready[futures[s][i]].ok

\* The range holds the elements it was given.
Permuted ==
    \A s \in Sort : \E f \in Bijection(DOMAIN call[s].range, DOMAIN call[s].range) :
        /\ arr[s] = Rearranged(call[s].range, f)
        /\ Stable(s) => KeepsOrder(arr[s], f)

-----------------------------------------------------------------------------
(* How the parts and the range change.                                       *)

First(t) == QuicksortTask(job[t].sort, job[t].lo, mid[t])

Second(t) == QuicksortTask(job[t].sort, mid[t], job[t].hi)

Leaves(t) == SortLeaf(t) \/ ThrowAlone(t) \/ Throw(t) \/ PartitionLeftHalf(t)

LEMMA QuietLive ==
    ASSUME UNCHANGED <<queue, job>>,
           \A u \in Running : /\ pc'[u] = "spawning" <=> pc[u] = "spawning"
                              /\ pc[u] = "spawning" => mid'[u] = mid[u]
    PROVE  Live' = Live
<1>1. Running' = Running /\ InQueue' = InQueue
  BY DEF Running, InQueue
<1>2. \A u \in Running : Call(u)' = Call(u)
  BY DEF Call
<1> QED BY <1>1, <1>2 DEF Live

LEMMA SetUpLive ==
    ASSUME Fits, NEW s \in Sort, SetUp(s)
    PROVE  Live' = Live \union {QuicksortTask(s, 1, Len(arr[s]) + 1)}
<1> DEFINE root == QuicksortTask(s, 1, Len(arr[s]) + 1)
<1>1. /\ UNCHANGED <<queue, mid>> /\ pc[s] = "called"
      /\ pc' = [pc EXCEPT ![s] = "entered"] /\ job' = [job EXCEPT ![s] = root]
  BY DEF SetUp, Goto, pool
<1>2. s \in Thread /\ s \notin Running /\ root # NoTask
  <2>1. s \in Thread /\ Len(arr[s]) \in Nat
    BY ThreadsApart DEF Fits, TypeOK
  <2>2. root \in TaskType
    BY <2>1 DEF TaskType, QuicksortTask
  <2>3. s \notin Running
    BY <1>1, <2>1 DEF Fits, PlacesFit, PlaceFits, Busy
  <2> QED BY <2>1, <2>2, <2>3, NoTaskAssumption
<1> HIDE DEF root
<1>3. /\ Running' = Running \union {s} /\ InQueue' = InQueue
      /\ job'[s] = root /\ pc'[s] = "entered"
      /\ \A u \in Running : job'[u] = job[u] /\ pc'[u] = pc[u] /\ u # s
  BY <1>1, <1>2 DEF Running, InQueue, Fits, TypeOK
<1>4. Call(s)' = root /\ \A u \in Running : Call(u)' = Call(u)
  BY <1>1, <1>3 DEF Call
<1>5. Live' = Live \union {root}
  BY <1>3, <1>4 DEF Live
<1> QED BY <1>5 DEF root

LEMMA TakeTaskLive == ASSUME Fits, NEW w \in Worker, TakeTask(w) PROVE Live' = Live
<1>1. /\ mid' = mid
      /\ InQueue = InQueue' \union {job'[w]} /\ Running' = Running \union {w}
      /\ pc'[w] = (IF job'[w].part = "impl" THEN "entered" ELSE "left")
      /\ \A u \in Running : job'[u] = job[u] /\ pc'[u] = pc[u] /\ u # w
  BY TakeFits DEF Running
<1>2. Call(w)' = job'[w] /\ \A u \in Running : Call(u)' = Call(u)
  BY <1>1 DEF Call
<1> QED BY <1>1, <1>2 DEF Live

LEMMA SubmitLeftLive ==
    ASSUME Fits, Next, NEW t \in Thread, SubmitLeftHalf(t)
    PROVE  t \in Running /\ Call(t) = job[t] /\ job[t].part = "impl" /\ Live' = Live \union {LeftHalf(t)'}
<1> DEFINE c == LeftTask(job[t].sort, job[t].lo, Halfway(t), Pivot(t))
<1>1. /\ UNCHANGED <<ready, job, mid>> /\ pc[t] = "entered"
      /\ pc' = [pc EXCEPT ![t] = "right"] /\ pivot' = [pivot EXCEPT ![t] = Pivot(t)]
  BY DEF SubmitLeftHalf, MustPartition, Goto
<1>2. t \in Running /\ job[t].part = "impl" /\ InQueue' = InQueue \union {c}
  BY SubmitFits
<1>3. LeftHalf(t)' = c
  BY <1>1, <1>2 DEF LeftHalf, Halfway, Size, Fits, TypeOK
<1> HIDE DEF c
<1>4. Running' = Running /\ \A u \in Running : Call(u)' = Call(u)
  BY <1>1 DEF Running, Call, Fits, TypeOK
<1>5. Call(t) = job[t]
  BY <1>1 DEF Call
<1> QED BY <1>2, <1>3, <1>4, <1>5 DEF Live

LEMMA SpawnFirstLive ==
    ASSUME Fits, Owned, Next, NEW t \in Thread, SpawnFirst(t)
    PROVE  /\ t \in Running /\ Call(t) = job[t] /\ job[t].part = "impl"
           /\ Live' = (Live \ {job[t]}) \union {First(t), Second(t)}
<1>1. /\ UNCHANGED <<job, mid>> /\ pc[t] = "split" /\ pc' = [pc EXCEPT ![t] = "spawning"]
  BY DEF SpawnFirst, Goto, frames
<1>2. t \in Running /\ job[t].part = "impl" /\ InQueue' = InQueue \union {First(t)}
  BY SubmitFits DEF First
<1>3. Call(t) = job[t] /\ Call(t)' = Second(t)
  BY <1>1, <1>2 DEF Call, Second, Fits, TypeOK
<1>4. Running' = Running /\ \A u \in Running \ {t} : Call(u)' = Call(u) /\ Call(u) # job[t]
  <2>1. \A u \in Running \ {t} : Call(u) # Call(t)
    BY <1>2 DEF Owned, OnePlace
  <2> QED BY <2>1, <1>1, <1>3 DEF Running, Call, Fits, TypeOK
<1>5. job[t] \notin InQueue
  BY <1>2, <1>3 DEF Owned, OnePlace
<1> QED BY <1>2, <1>3, <1>4, <1>5 DEF Live

LEMMA SpawnSecondLive ==
    ASSUME Fits, Next, NEW t \in Thread, SpawnSecond(t)
    PROVE  Live' = Live
<1>1. UNCHANGED mid /\ pc[t] = "spawning"
  BY DEF SpawnSecond
<1>2. t \in Running /\ InQueue' = InQueue \union {Second(t)}
  BY SubmitFits DEF Second
<1>3. Call(t) = Second(t)
  BY <1>1, <1>2 DEF Call, Second
<1>4. Running' = Running \ {t} /\ \A u \in Thread \ {t} : job'[u] = job[u] /\ pc'[u] = pc[u]
  BY EndsLeave DEF Ends
<1>5. \A u \in Running' : Call(u)' = Call(u) /\ u \in Running
  BY <1>1, <1>4 DEF Call, Running
<1> QED BY <1>2, <1>3, <1>4, <1>5 DEF Live

LEMMA LeavesLive ==
    ASSUME Fits, Owned, NEW t \in Thread, Leaves(t)
    PROVE  t \in Running /\ Call(t) = job[t] /\ Live' = Live \ {job[t]}
<1>1. /\ t \in Running /\ Running' = Running \ {t}
      /\ \A u \in Thread \ {t} : job'[u] = job[u] /\ pc'[u] = pc[u]
  BY EndsLeave DEF Ends, Leaves
<1>2. UNCHANGED <<queue, mid>> /\ pc[t] # "spawning"
  BY DEF Leaves, SortLeaf, ThrowAlone, MustPartition, Throw, LeftHalfThrew, PartitionLeftHalf
<1>3. InQueue' = InQueue /\ \A u \in Running' : Call(u)' = Call(u) /\ u \in Running /\ u # t
  BY <1>1, <1>2 DEF InQueue, Call, Running
<1>4. Call(t) = job[t]
  BY <1>2 DEF Call
<1>5. job[t] \notin InQueue /\ \A u \in Running : u # t => Call(u) # job[t]
  BY <1>1, <1>4 DEF Owned, OnePlace
<1> QED BY <1>1, <1>3, <1>4, <1>5 DEF Live

LEMMA LocalLive ==
    ASSUME Fits, NEW t \in Thread,
           PartitionAlone(t) \/ PartitionRightHalf(t) \/ MergeHalves(t) \/ CountLeaf(t) \/ NotifyCaller(t)
    PROVE  Live' = Live
<1>1. /\ UNCHANGED <<queue, job>> /\ pc[t] # "spawning" /\ pc'[t] # "spawning"
      /\ \A u \in Thread \ {t} : /\ pc'[u] = pc[u] \/ (pc[u] = "asleep" /\ pc'[u] = "waiting")
                                 /\ mid'[u] = mid[u]
  <2>1. CASE PartitionAlone(t)
    BY <2>1 DEF PartitionAlone, MustPartition, AfterPartition, Goto, pool, Fits, TypeOK
  <2>2. CASE PartitionRightHalf(t)
    BY <2>2 DEF PartitionRightHalf, Goto, pool, Fits, TypeOK
  <2>3. CASE MergeHalves(t)
    BY <2>3 DEF MergeHalves, AfterPartition, Goto, Fits, TypeOK
  <2>4. CASE CountLeaf(t)
    BY <2>4 DEF CountLeaf, AtLeaf, Goto, pool, frames, Fits, TypeOK
  <2>5. CASE NotifyCaller(t)
    BY <2>5 DEF NotifyCaller, pool, frames, Fits, TypeOK
  <2> QED BY <2>1, <2>2, <2>3, <2>4, <2>5
<1> QED BY <1>1, QuietLive DEF Running

LEMMA LiveStep ==
    ASSUME Fits, Owned, [Next]_vars
    PROVE  \/ Live' = Live
           \/ \E s \in Sort : SetUp(s) /\ Live' = Live \union {QuicksortTask(s, 1, Len(arr[s]) + 1)}
           \/ \E t \in Running : SubmitLeftHalf(t) /\ Live' = Live \union {LeftHalf(t)'}
           \/ \E t \in Running : SpawnFirst(t) /\ Live' = (Live \ {job[t]}) \union {First(t), Second(t)}
           \/ \E t \in Running : Leaves(t) /\ Live' = Live \ {job[t]}
<1>0. Sort \subseteq Thread /\ Worker \subseteq Thread /\ Sort \intersect Worker = {}
  BY ThreadsApart
<1>1. CASE UNCHANGED vars
  BY <1>1, QuietLive DEF vars
<1>2. ASSUME NEW s \in Sort, CallerStep(s) \/ SpuriousWake(s), ~SetUp(s) PROVE Live' = Live
  <2>1. /\ UNCHANGED <<queue, job, mid>>
        /\ pc[s] \in {"idle", "called", "waiting", "asleep", "gathering"}
        /\ \A u \in Thread \ {s} : pc'[u] = pc[u]
    BY <1>2 DEF CallerStep, SetBudget, SortWithoutBudget, SortNothing, WaitForSpawns, GetFuture,
       Return, SpuriousWake, Goto, pool, frames, Fits, TypeOK
  <2>2. s \notin Running
    BY <1>0, <2>1 DEF Fits, PlacesFit, PlaceFits, Busy
  <2>3. \A u \in Running : pc'[u] = pc[u]
    BY <2>1, <2>2 DEF Running
  <2> QED BY <2>1, <2>3, QuietLive
<1>3. ASSUME NEW t \in Thread,
             PartitionAlone(t) \/ PartitionRightHalf(t) \/ MergeHalves(t) \/ CountLeaf(t) \/ NotifyCaller(t)
      PROVE  Live' = Live
  BY <1>3, LocalLive
<1>4. CASE Resize \/ Restart
  <2>1. UNCHANGED <<queue, pc, job, mid>>
    BY <1>4 DEF Resize, Contract, Expand, Restart, frames
  <2> QED BY <2>1, QuietLive
<1>5. CASE Next
  <2>1. CASE \E s \in Sort : CallerStep(s) \/ SpuriousWake(s)
    BY <1>2, <2>1, SetUpLive
  <2>2. CASE \E t \in Thread : QuicksortStep(t)
    BY <1>3, <1>5, <2>2, SubmitLeftLive, SpawnFirstLive, SpawnSecondLive, LeavesLive DEF QuicksortStep, Leaves
  <2>3. CASE \E w \in Worker : WorkerStep(w)
    BY <1>0, <2>3, TakeTaskLive, LeavesLive DEF WorkerStep, Leaves
  <2> QED BY <1>4, <1>5, <2>1, <2>2, <2>3 DEF Next
<1> QED BY <1>1, <1>5

\* What is in progress is apart from a call in progress, but for the left half it waits for.
LEMMA LiveApart ==
    ASSUME Fits, Owned, NEW t \in Running, job[t].part = "impl", NEW c \in Live, c.sort = job[t].sort,
           c # Call(t), t \in Joiners => c # LeftHalf(t)
    PROVE  Apart(c, Call(t)) /\ Apart(Call(t), c)
<1>1. Call(t) \in Live /\ Call(t).part = "impl" /\ Call(t).sort = job[t].sort
  BY DEF Live, Call, QuicksortTask
<1>2. CASE c.part = "impl"
  BY <1>1, <1>2 DEF Owned, CallsApart, Apart
<1>3. CASE c.part = "left"
  <2>1. c \in Halves
    BY <1>3 DEF Halves
  <2>2. SUFFICES ASSUME NEW u \in Joiners, Call(t) = job[u], c = LeftHalf(u) PROVE FALSE
    BY <1>1, <2>1 DEF Owned, HalvesApart, Apart
  <2>3. u \in Running /\ Call(u) = job[u]
    BY DEF Joiners, Call
  <2>4. u = t
    BY <2>2, <2>3 DEF Owned, OnePlace
  <2> QED BY <2>2, <2>4
<1> QED BY <1>2, <1>3, PartsFit

\* The two parts of a call that is between its submissions or about to make them.
LEMMA ChildrenFit ==
    ASSUME Fits, NEW t \in Running, pc[t] \in {"split", "spawning"}
    PROVE  /\ job[t].part = "impl" /\ t \notin Joiners
           /\ job[t].lo \in Nat /\ mid[t] \in Nat /\ job[t].hi \in Nat
           /\ job[t].lo < mid[t] /\ mid[t] < job[t].hi
           /\ First(t).sort = job[t].sort /\ First(t).part = "impl" /\ First(t).lo = job[t].lo /\ First(t).hi = mid[t]
           /\ Second(t).sort = job[t].sort /\ Second(t).part = "impl" /\ Second(t).lo = mid[t] /\ Second(t).hi = job[t].hi
           /\ Call(t) = IF pc[t] = "split" THEN job[t] ELSE Second(t)
<1>1. t \in Thread /\ job[t].lo \in Nat /\ job[t].hi \in Nat /\ job[t].part \in {"impl", "left"} /\ mid[t] \in Nat
  BY JobFits DEF Running, Fits, TypeOK
<1>2. job[t].part = "impl" /\ job[t].lo < mid[t] /\ mid[t] < job[t].hi
  BY <1>1 DEF Fits, PlacesFit, PlaceFits
<1>3. t \notin Joiners
  BY DEF Joiners
<1>4. Call(t) = IF pc[t] = "split" THEN job[t] ELSE Second(t)
  BY DEF Call, Second
<1> QED BY <1>1, <1>2, <1>3, <1>4 DEF First, Second, QuicksortTask

LEMMA StepNested == ASSUME Inv, Nested, [Next]_vars PROVE Nested'
<1> SUFFICES ASSUME NEW s \in Sort, NEW c \in Live', NEW d \in InFutures(s)', c.sort = s
             PROVE  Apart(c, d) \/ Inside(c, d)
  BY DEF Nested
<1>0. Fits /\ Owned /\ \A x \in Live : x.lo \in Nat /\ x.hi \in Nat /\ x.lo < x.hi
  BY PartsFit DEF Inv
<1>1. CASE d \in InFutures(s)
  <2>0. d.lo \in Nat /\ d.hi \in Nat
    <3>1. futures[s] \in Seq(TaskType)
      BY <1>0 DEF Fits, TypeOK
    <3>2. d \in TaskType
      BY <1>1, <3>1 DEF InFutures
    <3> QED BY <3>2 DEF TaskType
  <2>1. CASE c \in Live
    BY <1>1, <2>1 DEF Nested
  <2>2. ASSUME NEW r \in Sort, SetUp(r), c = QuicksortTask(r, 1, Len(arr[r]) + 1) PROVE FALSE
    <3>1. r = s /\ pc[s] = "called"
      BY <2>2 DEF SetUp, QuicksortTask
    <3>2. futures[s] = <<>>
      BY <1>0, <3>1 DEF Fits, FreshSorts
    <3> QED BY <1>1, <3>2 DEF InFutures
  <2>3. ASSUME NEW x \in Live, x.sort = s, Inside(c, x), c.lo \in Nat, c.hi \in Nat PROVE Apart(c, d) \/ Inside(c, d)
    <3>1. Apart(x, d) \/ Inside(x, d)
      BY <1>1, <2>3 DEF Nested
    <3> QED BY <1>0, <2>0, <2>3, <3>1 DEF Apart, Inside
  <2>4. ASSUME NEW t \in Running, SubmitLeftHalf(t), c = LeftHalf(t)' PROVE Apart(c, d) \/ Inside(c, d)
    <3>1. Next /\ t \in Thread
      BY <2>4 DEF Next, QuicksortStep, Running
    <3>2. Call(t) = job[t] /\ job[t] \in Live
      BY <1>0, <2>4, <3>1, SubmitLeftLive DEF Live
    <3>3. c.sort = job[t].sort /\ c.lo = job[t].lo /\ c.hi = Halfway(t)
      BY <2>4 DEF SubmitLeftHalf, LeftHalf, LeftTask, Halfway, Size
    <3>4. Halfway(t) \in job[t].lo + 1 .. job[t].hi /\ job[t].lo \in Nat
      BY <1>0, <2>4, <3>1, JobFits DEF SubmitLeftHalf, MayPartitionInParallel
    <3> QED BY <1>0, <2>3, <3>2, <3>3, <3>4 DEF Inside
  <2>5. ASSUME NEW t \in Running, SpawnFirst(t), c \in {First(t), Second(t)} PROVE Apart(c, d) \/ Inside(c, d)
    <3>1. pc[t] = "split"
      BY <2>5 DEF SpawnFirst
    <3>2. job[t] \in Live /\ c.sort = job[t].sort /\ Inside(c, job[t]) /\ c.lo \in Nat /\ c.hi \in Nat
      BY <1>0, <2>5, <3>1, ChildrenFit DEF Live, Inside
    <3> QED BY <2>3, <3>2
  <2> QED BY <1>0, <2>1, <2>2, <2>4, <2>5, LiveStep
<1>2. CASE d \notin InFutures(s)
  <2>1. PICK t \in Deciding(s) :
            \/ SpawnFirst(t) /\ futures'[s] = Append(futures[s], First(t))
            \/ SpawnSecond(t) /\ futures'[s] = Append(futures[s], Second(t))
    <3>1. futures'[s] # futures[s]
      BY <1>2 DEF InFutures
    <3> QED BY <1>0, <3>1, FuturesStep DEF Deciding, First, Second
  <2>2. Next /\ t \in Thread /\ pc[t] \in {"split", "spawning"} /\ job[t].sort = s
    BY <2>1 DEF Next, QuicksortStep, Deciding, SpawnFirst, SpawnSecond
  <2>3. t \in Running
    BY <1>0, <2>2 DEF Fits, PlacesFit, PlaceFits, Busy
  <2>4. futures[s] \in Seq(TaskType) /\ First(t) \in TaskType /\ Second(t) \in TaskType
    <3>1. futures[s] \in Seq(TaskType)
      BY <1>0 DEF Fits, TypeOK
    <3>2. First(t) \in TaskType /\ Second(t) \in TaskType
      BY <1>0, <2>2, <2>3, ChildrenFit DEF TaskType, First, Second, QuicksortTask
    <3> QED BY <3>1, <3>2
  <2>5. CASE SpawnFirst(t) /\ futures'[s] = Append(futures[s], First(t))
    <3>1. d = First(t)
      BY <1>2, <2>4, <2>5, AppendItems DEF InFutures
    <3>2. pc[t] = "split" /\ Live' = (Live \ {job[t]}) \union {First(t), Second(t)}
      BY <1>0, <2>2, <2>5, SpawnFirstLive DEF SpawnFirst
    <3>3. CASE c \in Live /\ c # job[t]
      <4>1. Apart(c, job[t])
        BY <1>0, <2>2, <2>3, <3>2, <3>3, LiveApart, ChildrenFit
      <4> QED BY <1>0, <2>2, <2>3, <3>1, <3>3, <4>1, ChildrenFit DEF Apart
    <3>4. CASE c \in {First(t), Second(t)}
      BY <1>0, <2>2, <2>3, <3>1, <3>4, ChildrenFit DEF Apart, Inside
    <3> QED BY <3>2, <3>3, <3>4
  <2>6. CASE SpawnSecond(t) /\ futures'[s] = Append(futures[s], Second(t))
    <3>1. d = Second(t)
      BY <1>2, <2>4, <2>6, AppendItems DEF InFutures
    <3>2. pc[t] = "spawning" /\ Live' = Live
      BY <1>0, <2>2, <2>6, SpawnSecondLive DEF SpawnSecond
    <3>3. CASE c # d
      BY <1>0, <2>2, <2>3, <3>1, <3>2, <3>3, LiveApart, ChildrenFit
    <3>4. CASE c = d
      BY <1>0, <2>2, <2>3, <3>1, <3>4, ChildrenFit DEF Inside
    <3> QED BY <3>3, <3>4
  <2> QED BY <2>1, <2>5, <2>6
<1> QED BY <1>1, <1>2

\* A thread that runs a task has its place, its call, its pivot and its mid changed by its own
\* steps, or has just begun.
LEMMA ThreadStep ==
    ASSUME Fits, [Next]_vars, NEW t \in Running'
    PROVE  \/ t \in Running /\ QuicksortStep(t) /\ ~Ends(t)
           \/ t \in Running /\ pc'[t] = pc[t] /\ job'[t] = job[t] /\ pivot'[t] = pivot[t] /\ mid'[t] = mid[t]
           \/ pc'[t] \in {"entered", "left"} /\ arr' = arr /\ UNCHANGED <<pivot, mid>>
<1>0. Sort \subseteq Thread /\ Worker \subseteq Thread /\ Sort \intersect Worker = {} /\ t \in Thread /\ job'[t] # NoTask
  BY ThreadsApart DEF Running
<1>1. t \in Running => pc[t] \in Busy
  BY <1>0 DEF Fits, PlacesFit, PlaceFits
<1> DEFINE Same == t \in Running /\ pc'[t] = pc[t] /\ job'[t] = job[t] /\ pivot'[t] = pivot[t] /\ mid'[t] = mid[t]
<1>2. CASE UNCHANGED vars
  BY <1>0, <1>2 DEF vars, Running
<1>3. ASSUME NEW r \in Sort, CallerStep(r) \/ SpuriousWake(r), ~SetUp(r) PROVE Same
  <2>1. /\ UNCHANGED <<job, pivot, mid>> /\ pc[r] \in {"idle", "called", "waiting", "asleep", "gathering"}
        /\ \A u \in Thread \ {r} : pc'[u] = pc[u]
    BY <1>3 DEF CallerStep, SetBudget, SortWithoutBudget, SortNothing, WaitForSpawns, GetFuture,
       Return, SpuriousWake, Goto, frames, Fits, TypeOK
  <2>2. t \in Running /\ t # r
    BY <1>0, <1>1, <2>1 DEF Running, Busy
  <2> QED BY <1>0, <2>1, <2>2
<1>4. ASSUME NEW r \in Sort, SetUp(r) PROVE Same \/ (pc'[t] \in {"entered", "left"} /\ arr' = arr /\ UNCHANGED <<pivot, mid>>)
  BY <1>0, <1>4 DEF SetUp, Goto, data, Running, Fits, TypeOK
<1>5. ASSUME NEW u \in Thread, Ends(u) PROVE Same
  <2>1. /\ Running' = Running \ {u} /\ \A v \in Thread \ {u} : job'[v] = job[v] /\ pc'[v] = pc[v]
    BY <1>5, EndsLeave
  <2>2. UNCHANGED <<pivot, mid>>
    BY <1>5 DEF Ends, SpawnSecond, SortLeaf, ThrowAlone, Throw, PartitionLeftHalf
  <2> QED BY <1>0, <2>1, <2>2
<1>6. ASSUME NEW u \in Thread, QuicksortStep(u), ~Ends(u), u # t PROVE Same
  <2>1. job' = job /\ t \in Running
    BY <1>0, <1>6 DEF QuicksortStep, Ends, PartitionAlone, SubmitLeftHalf, PartitionRightHalf,
       MergeHalves, SpawnFirst, CountLeaf, NotifyCaller, frames, Running
  <2>2. pc[t] # "asleep"
    BY <1>1, <2>1 DEF Busy
  <2>3. pivot'[t] = pivot[t] /\ mid'[t] = mid[t]
    BY <1>0, <1>6 DEF QuicksortStep, Ends, PartitionAlone, SubmitLeftHalf, PartitionRightHalf,
       MergeHalves, SpawnFirst, CountLeaf, NotifyCaller, AfterPartition, frames, Fits, TypeOK
  <2>4. pc'[t] = pc[t]
    BY <1>0, <1>6, <2>2 DEF QuicksortStep, Ends, PartitionAlone, SubmitLeftHalf, PartitionRightHalf,
       MergeHalves, SpawnFirst, CountLeaf, NotifyCaller, AfterPartition, Goto, Fits, TypeOK
  <2> QED BY <2>1, <2>3, <2>4
<1>7. ASSUME NEW u \in Thread, QuicksortStep(u), ~Ends(u), u = t PROVE t \in Running
  <2>1. pc[u] \in Busy
    BY <1>7 DEF QuicksortStep, Ends, PartitionAlone, MustPartition, SubmitLeftHalf, PartitionRightHalf,
       MergeHalves, SpawnFirst, CountLeaf, AtLeaf, NotifyCaller, Busy
  <2> QED BY <1>0, <1>7, <2>1 DEF Fits, PlacesFit, PlaceFits
<1>8. ASSUME NEW w \in Worker, TakeTask(w) PROVE Same \/ (pc'[t] \in {"entered", "left"} /\ arr' = arr /\ UNCHANGED <<pivot, mid>>)
  BY <1>0, <1>8, TakeFits DEF Running
<1>9. CASE Resize \/ Restart
  BY <1>0, <1>9 DEF Resize, Contract, Expand, Restart, frames, Running
<1> QED BY <1>0, <1>2, <1>3, <1>4, <1>5, <1>6, <1>7, <1>8, <1>9 DEF Next, WorkerStep, Ends

LEMMA StepFirstSubmitted == ASSUME Inv, FirstSubmitted, [Next]_vars PROVE FirstSubmitted'
<1> SUFFICES ASSUME NEW t \in Running', pc'[t] = "spawning", NEW s, s = job'[t].sort
             PROVE  First(t)' \in InFutures(s)'
  BY DEF FirstSubmitted, First, InFutures
<1>0. Fits /\ t \in Thread /\ job[t] \in TaskType \union {NoTask} /\ futures \in [Sort -> Seq(TaskType)]
  BY DEF Inv, Fits, TypeOK, Running
<1>1. CASE SpawnFirst(t)
  <2>1. pc[t] = "split" /\ UNCHANGED <<job, mid>> /\ s = job[t].sort
    BY <1>1 DEF SpawnFirst, frames
  <2>2. t \in Running /\ s \in Sort
    BY <1>0, <2>1, JobFits DEF Fits, PlacesFit, PlaceFits, Busy
  <2>3. First(t) \in TaskType
    BY <1>0, <2>1, <2>2, ChildrenFit DEF TaskType, First, QuicksortTask
  <2>4. futures'[s] = Append(futures[s], First(t))
    BY <1>0, <1>1, <2>1, <2>2 DEF SpawnFirst, First
  <2>5. First(t) \in {Append(futures[s], First(t))[i] : i \in DOMAIN Append(futures[s], First(t))}
    BY <1>0, <2>2, <2>3, AppendItems
  <2>6. First(t)' = First(t)
    BY <2>1 DEF First
  <2> QED BY <2>4, <2>5, <2>6 DEF InFutures
<1>2. CASE ~SpawnFirst(t)
  <2>1. t \in Running /\ pc[t] = "spawning" /\ job'[t] = job[t] /\ mid'[t] = mid[t]
    <3>1. ASSUME QuicksortStep(t), ~Ends(t) PROVE FALSE
      BY <1>0, <1>2, <3>1 DEF QuicksortStep, Ends, PartitionAlone, SubmitLeftHalf,
         PartitionRightHalf, MergeHalves, CountLeaf, NotifyCaller, AfterPartition, Goto, Fits, TypeOK
    <3> QED BY <1>0, <3>1, ThreadStep
  <2>2. s \in Sort /\ First(t) \in InFutures(s)
    BY <1>0, <2>1, JobFits DEF FirstSubmitted, First
  <2>3. First(t) \in InFutures(s)'
    BY <1>0, <2>2, FuturesGrow
  <2>4. First(t)' = First(t)
    BY <2>1 DEF First
  <2> QED BY <2>3, <2>4
<1> QED BY <1>1, <1>2

LEMMA RangeOf ==
    ASSUME Fits, NEW t \in Running
    PROVE  /\ t \in Thread /\ job[t].sort \in Sort /\ arr \in [Sort -> Seq(Element)] /\ arr[job[t].sort] \in Seq(Element)
           /\ job[t].lo \in Int /\ job[t].hi \in Int /\ job[t].lo < job[t].hi
           /\ job[t].lo .. job[t].hi - 1 \subseteq DOMAIN arr[job[t].sort]
           /\ <<job[t].lo, job[t].hi>> \in Spans
           /\ Pivot(t) \in Int
           /\ Size(t) >= MinParallel =>
                /\ Halfway(t) \in Int /\ job[t].lo < Halfway(t) /\ Halfway(t) <= job[t].hi
                /\ Halfway(t) .. job[t].hi - 1 \subseteq DOMAIN arr[job[t].sort]
                /\ <<Halfway(t), job[t].hi>> \in Spans
<1> DEFINE s == job[t].sort
           len == Len(arr[s])
<1>1. /\ t \in Thread /\ s \in Sort /\ arr[s] \in Seq(Element)
      /\ job[t].lo \in Nat \ {0} /\ job[t].hi \in Nat /\ job[t].lo < job[t].hi /\ job[t].hi <= len + 1
      /\ Size(t) \in Nat \ {0}
      /\ Size(t) >= MinParallel => Halfway(t) \in job[t].lo + 1 .. job[t].hi
  BY JobFits DEF Running, Element
<1>2. DOMAIN arr[s] = 1 .. len /\ len \in Nat
  BY <1>1
<1>3. <<job[t].lo, job[t].hi>> \in Spans
  <2>1. job[t].lo \in 1 .. len + 1 /\ job[t].hi \in 1 .. len + 1
    BY <1>1, <1>2
  <2> QED BY <1>1, <2>1, SpanFits
<1>4. Size(t) >= MinParallel => <<Halfway(t), job[t].hi>> \in Spans
  <2> SUFFICES ASSUME Size(t) >= MinParallel PROVE <<Halfway(t), job[t].hi>> \in Spans
    OBVIOUS
  <2>1. Halfway(t) \in 1 .. len + 1 /\ job[t].hi \in 1 .. len + 1
    BY <1>1, <1>2
  <2> QED BY <1>1, <2>1, SpanFits
<1>5. Pivot(t) \in Int
  <2>1. Size(t) \div 2 \in Nat /\ 2 * (Size(t) \div 2) <= Size(t)
    BY <1>1, HalfOf
  <2>2. Size(t) = job[t].hi - job[t].lo
    BY DEF Size
  <2>3. job[t].lo + Size(t) \div 2 \in 1 .. len
    BY <1>1, <1>2, <2>1, <2>2, MiddleInside
  <2>4. arr[s][job[t].lo + Size(t) \div 2] \in Element
    BY <1>1, <1>2, <2>3
  <2> QED BY <2>4, KeyType DEF Pivot
<1>6. ASSUME NEW lo \in Int, 1 <= lo PROVE lo .. job[t].hi - 1 \subseteq DOMAIN arr[s]
  BY <1>1, <1>2, <1>6
<1>7. arr \in [Sort -> Seq(Element)]
  BY DEF Fits, TypeOK, Element
<1> HIDE DEF len
<1> QED BY SMTT(30), <1>1, <1>3, <1>4, <1>5, <1>6, <1>7

\* The steps that write to the range, from where on, and what they leave.
Writes(t) ==
    PartitionAlone(t) \/ PartitionRightHalf(t) \/ MergeHalves(t) \/ SortLeaf(t) \/ PartitionLeftHalf(t)

From(t) == IF pc[t] = "right" THEN Halfway(t) ELSE job[t].lo

LEMMA WritersRun == ASSUME Fits, NEW t \in Thread, Writes(t) PROVE t \in Running
<1>1. pc[t] \in Busy
  BY DEF Writes, PartitionAlone, MustPartition, PartitionRightHalf, MergeHalves, SortLeaf, PartitionLeftHalf, Busy
<1> QED BY <1>1 DEF Fits, PlacesFit, PlaceFits

LEMMA AloneWrites ==
    ASSUME Fits, NEW t \in Running, PartitionAlone(t), NEW s, s = job[t].sort
    PROVE  /\ \A r \in Sort \ {s} : arr'[r] = arr[r]
           /\ \E p \in Int : \A i \in job[t].lo .. job[t].hi - 1 : Key(arr'[s][i]) < p <=> i < mid'[t]
           /\ \E f : Shuffles(arr[s], arr'[s], job[t].lo, job[t].hi, f) /\ (Stable(s) => KeepsOrder(arr'[s], f))
<1> DEFINE p == Pivot(t)
<1>1. /\ t \in Thread /\ s \in Sort /\ arr \in [Sort -> Seq(Element)] /\ arr[s] \in Seq(Element)
      /\ job[t].lo \in Int /\ job[t].hi \in Int /\ job[t].lo .. job[t].hi - 1 \subseteq DOMAIN arr[s]
      /\ <<job[t].lo, job[t].hi>> \in Spans /\ p \in Int
  BY RangeOf
<1>2. PICK b \in Partitions(arr[s], job[t].lo, job[t].hi, p, Stable(s)) : arr' = [arr EXCEPT ![s] = b]
  BY DEF PartitionAlone
<1>3. mid'[t] = PartitionPoint(arr[s], job[t].lo, job[t].hi, p)
  BY <1>1 DEF PartitionAlone, AfterPartition, Fits, TypeOK
<1>4. Stable(s) \in BOOLEAN
  BY DEF Stable
<1> HIDE DEF p
<1>5. /\ \A i \in job[t].lo .. job[t].hi - 1 : Key(b[i]) < p <=> i < PartitionPoint(arr[s], job[t].lo, job[t].hi, p)
      /\ \E f : Shuffles(arr[s], b, job[t].lo, job[t].hi, f) /\ (Stable(s) => KeepsOrder(b, f))
  BY <1>1, <1>4, PartitionSplits
<1>6. arr'[s] = b /\ \A r \in Sort \ {s} : arr'[r] = arr[r]
  BY <1>1, <1>2
<1>7. \A i \in job[t].lo .. job[t].hi - 1 : Key(arr'[s][i]) < p <=> i < mid'[t]
  BY <1>3, <1>5, <1>6
<1>8. \E f : Shuffles(arr[s], arr'[s], job[t].lo, job[t].hi, f) /\ (Stable(s) => KeepsOrder(arr'[s], f))
  BY <1>5, <1>6
<1> QED BY <1>1, <1>6, <1>7, <1>8

LEMMA RightWrites ==
    ASSUME Fits, NEW t \in Running, PartitionRightHalf(t), NEW s, s = job[t].sort
    PROVE  /\ \A r \in Sort \ {s} : arr'[r] = arr[r]
           /\ \A i \in Halfway(t) .. job[t].hi - 1 : Key(arr'[s][i]) < pivot[t] <=> i < mid'[t]
           /\ \E f : Shuffles(arr[s], arr'[s], Halfway(t), job[t].hi, f)
<1>0. pc[t] = "right" /\ Size(t) >= MinParallel
  BY RangeOf DEF PartitionRightHalf, Fits, PlacesFit, PlaceFits
<1>1. /\ t \in Thread /\ s \in Sort /\ arr \in [Sort -> Seq(Element)] /\ arr[s] \in Seq(Element)
      /\ Halfway(t) \in Int /\ job[t].hi \in Int /\ Halfway(t) .. job[t].hi - 1 \subseteq DOMAIN arr[s]
      /\ <<Halfway(t), job[t].hi>> \in Spans /\ pivot[t] \in Int
  BY <1>0, RangeOf DEF Fits, TypeOK
<1>2. PICK b \in Partitions(arr[s], Halfway(t), job[t].hi, pivot[t], FALSE) : arr' = [arr EXCEPT ![s] = b]
  BY DEF PartitionRightHalf
<1>3. mid'[t] = PartitionPoint(arr[s], Halfway(t), job[t].hi, pivot[t])
  BY <1>1 DEF PartitionRightHalf, Fits, TypeOK
<1>5. /\ \A i \in Halfway(t) .. job[t].hi - 1 : Key(b[i]) < pivot[t] <=> i < PartitionPoint(arr[s], Halfway(t), job[t].hi, pivot[t])
      /\ \E f : Shuffles(arr[s], b, Halfway(t), job[t].hi, f)
  <2>1. FALSE \in BOOLEAN
    OBVIOUS
  <2> QED BY <1>1, <2>1, PartitionSplits
<1>6. arr'[s] = b /\ \A r \in Sort \ {s} : arr'[r] = arr[r]
  BY <1>1, <1>2
<1> QED BY <1>1, <1>3, <1>5, <1>6

LEMMA LeftWrites ==
    ASSUME Fits, NEW t \in Running, PartitionLeftHalf(t), NEW s, s = job[t].sort
    PROVE  /\ \A r \in Sort \ {s} : arr'[r] = arr[r]
           /\ t \in Worker => \A i \in job[t].lo .. job[t].hi - 1 :
                                  Key(arr'[s][i]) < job[t].pivot <=> i < ready'[job[t]].at
           /\ \E f : Shuffles(arr[s], arr'[s], job[t].lo, job[t].hi, f)
<1> DEFINE p == job[t].pivot
<1>1. /\ t \in Thread /\ s \in Sort /\ arr \in [Sort -> Seq(Element)] /\ arr[s] \in Seq(Element)
      /\ job[t].lo \in Int /\ job[t].hi \in Int /\ job[t].lo .. job[t].hi - 1 \subseteq DOMAIN arr[s]
      /\ <<job[t].lo, job[t].hi>> \in Spans /\ p \in Int
  BY RangeOf, JobFits DEF Running
<1>2. PICK b \in Partitions(arr[s], job[t].lo, job[t].hi, p, FALSE) : arr' = [arr EXCEPT ![s] = b]
  BY DEF PartitionLeftHalf
<1>3. t \in Worker => ready'[job[t]].at = PartitionPoint(arr[s], job[t].lo, job[t].hi, p)
  BY DEF PartitionLeftHalf, Finish, Resolve
<1> HIDE DEF p
<1>5. /\ \A i \in job[t].lo .. job[t].hi - 1 : Key(b[i]) < p <=> i < PartitionPoint(arr[s], job[t].lo, job[t].hi, p)
      /\ \E f : Shuffles(arr[s], b, job[t].lo, job[t].hi, f)
  <2>1. FALSE \in BOOLEAN
    OBVIOUS
  <2> QED BY <1>1, <2>1, PartitionSplits
<1>6. arr'[s] = b /\ \A r \in Sort \ {s} : arr'[r] = arr[r]
  BY <1>1, <1>2
<1> QED BY <1>1, <1>3, <1>5, <1>6 DEF p

LEMMA LeafWrites ==
    ASSUME Fits, NEW t \in Running, SortLeaf(t), NEW s, s = job[t].sort
    PROVE  /\ \A r \in Sort \ {s} : arr'[r] = arr[r]
           /\ \A i, j \in job[t].lo .. job[t].hi - 1 : i < j => Key(arr'[s][i]) <= Key(arr'[s][j])
           /\ \E f : Shuffles(arr[s], arr'[s], job[t].lo, job[t].hi, f) /\ (Stable(s) => KeepsOrder(arr'[s], f))
<1>1. /\ t \in Thread /\ s \in Sort /\ arr \in [Sort -> Seq(Element)] /\ arr[s] \in Seq(Element)
      /\ job[t].lo \in Int /\ job[t].hi \in Int /\ job[t].lo .. job[t].hi - 1 \subseteq DOMAIN arr[s]
      /\ <<job[t].lo, job[t].hi>> \in Spans
  BY RangeOf
<1>2. PICK b \in SortedFrom(arr[s], job[t].lo, job[t].hi, Stable(s)) : arr' = [arr EXCEPT ![s] = b]
  BY DEF SortLeaf
<1>4. Stable(s) \in BOOLEAN
  BY DEF Stable
<1>5. /\ \A i, j \in job[t].lo .. job[t].hi - 1 : i < j => Key(b[i]) <= Key(b[j])
      /\ \E f : Shuffles(arr[s], b, job[t].lo, job[t].hi, f) /\ (Stable(s) => KeepsOrder(b, f))
  BY <1>1, <1>4, LeafSorts
<1>6. arr'[s] = b /\ \A r \in Sort \ {s} : arr'[r] = arr[r]
  BY <1>1, <1>2
<1> QED BY <1>1, <1>5, <1>6

LEMMA MergeWrites ==
    ASSUME Fits, HalvesParted, NEW t \in Running, MergeHalves(t), NEW s, s = job[t].sort
    PROVE  /\ \A r \in Sort \ {s} : arr'[r] = arr[r]
           /\ \A i \in job[t].lo .. job[t].hi - 1 : Key(arr'[s][i]) < pivot[t] <=> i < mid'[t]
           /\ \E f : Shuffles(arr[s], arr'[s], job[t].lo, job[t].hi, f)
<1> DEFINE lo == job[t].lo
           lm == ready[LeftHalf(t)].at
           half == Halfway(t)
           m == mid[t]
           hi == job[t].hi
           n == Least(half - lm, m - half)
           a == arr[s]
           b == IF half - lm <= m - half THEN SwapRanges(a, lm, m - n, n) ELSE SwapRanges(a, half, lm, n)
<1>1. /\ t \in Thread /\ s \in Sort /\ arr \in [Sort -> Seq(Element)] /\ a \in Seq(Element)
      /\ lo \in Int /\ hi \in Int /\ lo .. hi - 1 \subseteq DOMAIN a /\ pivot[t] \in Int
  BY RangeOf DEF Fits, TypeOK
<1>2. /\ lm \in lo .. half /\ m \in half .. hi /\ half \in lo + 1 .. hi
  BY <1>1, SwapFits
<1>3. lm \in Int /\ half \in Int /\ m \in Int /\ lo <= lm /\ lm <= half /\ half <= m /\ m <= hi
  BY <1>1, <1>2
<1>4. Parted(a, lo, lm, half, m, hi, pivot[t])
  <2>1. t \in Joiners /\ pc[t] = "joining" /\ LeftHalf(t) \in DOMAIN ready /\ ready[LeftHalf(t)].ok
    BY DEF MergeHalves, Joiners
  <2>2. RightParted(t) /\ LeftParted(t)
    BY <2>1 DEF HalvesParted
  <2> QED BY <1>3, <2>2 DEF Parted, RightParted, LeftParted
<1>5. arr' = [arr EXCEPT ![s] = b]
  BY <1>1 DEF MergeHalves
<1>6. mid'[t] = lm + (m - half)
  BY <1>1 DEF MergeHalves, AfterPartition, Fits, TypeOK
<1> HIDE DEF lo, lm, half, m, hi, a
<1>7. Merged(a, b, lm, half, m)
  BY <1>3, MergeSplits
<1> HIDE DEF n, b
<1>8. /\ \A i \in lo .. hi - 1 : Key(b[i]) < pivot[t] <=> i < lm + (m - half)
      /\ \E f : Shuffles(a, b, lo, hi, f)
  BY <1>1, <1>3, <1>4, <1>7, MergedSplits
<1>9. arr'[s] = b /\ \A r \in Sort \ {s} : arr'[r] = arr[r]
  BY <1>1, <1>5
<1> QED BY <1>6, <1>8, <1>9 DEF lo, hi, a

\* Whatever changes the range changes the order in one part of it, that of a task that runs.
LEMMA WriteStep ==
    ASSUME Fits, HalvesParted, Budgets, [Next]_vars, NEW s \in Sort, arr'[s] # arr[s]
    PROVE  \E t \in Running :
              /\ Writes(t) /\ job[t].sort = s
              /\ \E f : Shuffles(arr[s], arr'[s], From(t), job[t].hi, f) /\ (Stable(s) => KeepsOrder(arr'[s], f))
<1>1. PICK t \in Thread : Writes(t)
  <2>1. ASSUME NEW r \in Sort, CallerStep(r) \/ SpuriousWake(r) PROVE FALSE
    BY <2>1 DEF CallerStep, SetBudget, SortWithoutBudget, SetUp, SortNothing, WaitForSpawns,
       GetFuture, Return, SpuriousWake, data
  <2>2. ASSUME NEW t \in Thread, QuicksortStep(t) PROVE Writes(t)
    BY <2>2 DEF QuicksortStep, Writes, SubmitLeftHalf, SpawnFirst, SpawnSecond, CountLeaf, NotifyCaller,
       ThrowAlone, Throw, data
  <2>3. ASSUME NEW w \in Worker, WorkerStep(w) PROVE Writes(w)
    BY <2>3 DEF WorkerStep, TakeTask, Writes, data
  <2>4. ~(Resize \/ Restart \/ UNCHANGED vars)
    BY DEF Resize, Contract, Expand, Restart, data, vars
  <2> QED BY <2>1, <2>2, <2>3, <2>4, ThreadsApart DEF Next
<1>2. t \in Running
  BY <1>1, WritersRun
<1>3. job[t].sort = s
  BY <1>1, <1>2, AloneWrites, RightWrites, LeftWrites, LeafWrites, MergeWrites DEF Writes
<1>4. CASE PartitionAlone(t) \/ SortLeaf(t)
  <2>1. From(t) = job[t].lo
    BY <1>4 DEF PartitionAlone, MustPartition, SortLeaf, From
  <2> QED BY <1>1, <1>2, <1>3, <1>4, <2>1, AloneWrites, LeafWrites
<1>5. CASE PartitionRightHalf(t) \/ MergeHalves(t)
  <2>1. t \in Joiners
    BY <1>2, <1>5 DEF PartitionRightHalf, MergeHalves, Joiners
  <2>2. ~Stable(s)
    BY <1>3, <2>1 DEF Budgets, Stable
  <2>3. CASE PartitionRightHalf(t)
    <3>1. From(t) = Halfway(t)
      BY <2>3 DEF PartitionRightHalf, From
    <3> QED BY <1>1, <1>2, <1>3, <2>2, <2>3, <3>1, RightWrites
  <2>4. CASE MergeHalves(t)
    <3>1. From(t) = job[t].lo
      BY <2>4 DEF MergeHalves, From
    <3> QED BY <1>1, <1>2, <1>3, <2>2, <2>4, <3>1, MergeWrites
  <2> QED BY <1>5, <2>3, <2>4
<1>6. CASE PartitionLeftHalf(t)
  <2>1. From(t) = job[t].lo
    BY <1>6 DEF PartitionLeftHalf, From
  <2>2. job[t] \in LeftHalves
    BY <1>2, <1>6 DEF PartitionLeftHalf, LeftHalves, Running, Fits, PlacesFit, PlaceFits
  <2>3. ~Stable(s)
    BY <1>3, <2>2 DEF Budgets, Stable
  <2> QED BY <1>1, <1>2, <1>3, <1>6, <2>1, <2>3, LeftWrites
<1> QED BY <1>1, <1>4, <1>5, <1>6 DEF Writes

\* A result stays as it is, and a new one is that of the task a worker ends.
LEMMA ReadyStep ==
    ASSUME Fits, Owned, [Next]_vars, NEW c \in DOMAIN ready'
    PROVE  \/ c \in DOMAIN ready /\ ready'[c] = ready[c]
           \/ \E w \in Worker : /\ w \in Running /\ c = job[w] /\ Ends(w)
                                /\ ready'[c].ok => SpawnSecond(w) \/ SortLeaf(w) \/ PartitionLeftHalf(w)
                                /\ ~ready'[c].ok => Throws(w)
<1>1. ASSUME NEW t \in Thread, Ends(t)
      PROVE  \/ c \in DOMAIN ready /\ ready'[c] = ready[c]
             \/ \E w \in Worker : /\ w \in Running /\ c = job[w] /\ Ends(w)
                                  /\ ready'[c].ok => SpawnSecond(w) \/ SortLeaf(w) \/ PartitionLeftHalf(w)
                                  /\ ~ready'[c].ok => Throws(w)
  <2>1. t \in Running
    BY <1>1, EndsFinish
  <2>2. PICK ok \in BOOLEAN, at \in Nat :
            /\ Finish(t, ok, at)
            /\ ok => SpawnSecond(t) \/ SortLeaf(t) \/ PartitionLeftHalf(t)
            /\ ~ok => Throws(t)
    <3>1. CASE SpawnSecond(t)
      BY <3>1 DEF SpawnSecond, Finish
    <3>2. CASE SortLeaf(t)
      BY <3>2 DEF SortLeaf
    <3>3. CASE Throws(t)
      BY <3>3 DEF Throws, ThrowAlone, Throw
    <3>4. CASE PartitionLeftHalf(t)
      <4>1. PartitionPoint(arr[job[t].sort], job[t].lo, job[t].hi, job[t].pivot) \in Nat
        <5>1. PartitionPoint(arr[job[t].sort], job[t].lo, job[t].hi, job[t].pivot) \in job[t].lo .. job[t].hi
          BY <1>1, <2>1, JobFits, PartitionPointType
        <5> QED BY <1>1, <2>1, <5>1, JobFits
      <4> QED BY <3>4, <4>1 DEF PartitionLeftHalf
    <3> QED BY <1>1, <3>1, <3>2, <3>3, <3>4 DEF Ends, Throws
  <2>3. /\ DOMAIN ready' = DOMAIN ready \union (IF t \in Worker THEN {job[t]} ELSE {})
        /\ \A d \in DOMAIN ready : (t \in Worker /\ d = job[t]) \/ ready'[d] = ready[d]
        /\ t \in Worker => ready'[job[t]] = [ok |-> ok, at |-> at]
    BY SMTT(30), <1>1, <2>1, <2>2, FinishFits
  <2> QED BY <1>1, <2>1, <2>2, <2>3
<1>2. ASSUME NEW t \in Thread, QuicksortStep(t), ~Ends(t) PROVE c \in DOMAIN ready /\ ready'[c] = ready[c]
  BY <1>2 DEF QuicksortStep, Ends, PartitionAlone, SubmitLeftHalf, PartitionRightHalf, MergeHalves, SpawnFirst,
     CountLeaf, NotifyCaller, pool
<1>3. ASSUME NEW r \in Sort, CallerStep(r) \/ SpuriousWake(r) PROVE ready' = ready
  BY <1>3 DEF CallerStep, SetBudget, SortWithoutBudget, SetUp, SortNothing, WaitForSpawns,
     GetFuture, Return, SpuriousWake, pool
<1>4. ASSUME NEW w \in Worker, TakeTask(w) PROVE ready' = ready
  BY <1>4 DEF TakeTask
<1>5. ASSUME Resize \/ Restart \/ UNCHANGED vars PROVE ready' = ready
  BY <1>5 DEF Resize, Contract, Expand, Restart, vars
<1> QED BY <1>1, <1>2, <1>3, <1>4, <1>5, ThreadsApart DEF Next, WorkerStep, Ends

\* Where a task that runs writes from.
LEMMA FromFits ==
    ASSUME Fits, NEW u \in Running, Writes(u)
    PROVE  /\ From(u) \in Int /\ job[u].hi \in Int /\ job[u].lo \in Int /\ job[u].lo <= From(u)
           /\ Call(u) = job[u] /\ job[u] \in Live
<1>1. pc[u] = "right" => Size(u) >= MinParallel
  BY RangeOf DEF Fits, PlacesFit, PlaceFits
<1>2. pc[u] # "spawning"
  BY DEF Writes, PartitionAlone, MustPartition, PartitionRightHalf, MergeHalves, SortLeaf, PartitionLeftHalf
<1>3. Call(u) = job[u] /\ job[u] \in Live
  BY <1>2 DEF Call, Live
<1>4. /\ job[u].lo \in Int /\ job[u].hi \in Int
      /\ pc[u] = "right" => Halfway(u) \in Int /\ job[u].lo < Halfway(u)
  BY <1>1, RangeOf
<1>5. From(u) \in Int /\ job[u].lo <= From(u)
  <2>1. CASE pc[u] = "right"
    BY <1>4, <2>1 DEF From
  <2>2. CASE pc[u] # "right"
    BY <1>4, <2>2 DEF From
  <2> QED BY <2>1, <2>2
<1> QED BY <1>3, <1>4, <1>5

\* Elements of a part that no task straddles come from that part.
LEMMA PartShuffled ==
    ASSUME Fits, HalvesParted, Budgets, [Next]_vars, NEW s \in Sort, NEW x \in Int, NEW y \in Int,
           x .. y - 1 \subseteq DOMAIN arr[s],
           \A u \in Running : Writes(u) /\ job[u].sort = s =>
               job[u].hi <= x \/ y <= From(u) \/ (x <= From(u) /\ job[u].hi <= y),
           NEW i \in x .. y - 1
    PROVE  \E k \in x .. y - 1 : arr'[s][i] = arr[s][k]
<1>1. CASE arr'[s] = arr[s]
  BY <1>1
<1>2. CASE arr'[s] # arr[s]
  <2>1. PICK u \in Running : /\ Writes(u) /\ job[u].sort = s
                             /\ \E f : Shuffles(arr[s], arr'[s], From(u), job[u].hi, f)
    BY <1>2, WriteStep
  <2>2. PICK f : Shuffles(arr[s], arr'[s], From(u), job[u].hi, f)
    BY <2>1
  <2>3. From(u) \in Int /\ job[u].hi \in Int
    BY <2>1, FromFits
  <2>4. job[u].hi <= x \/ y <= From(u) \/ (x <= From(u) /\ job[u].hi <= y)
    BY <2>1
  <2>5. f[i] \in x .. y - 1 /\ arr'[s][i] = arr[s][f[i]]
    BY <2>2, <2>3, <2>4, ShuffleStays
  <2> QED BY <2>5
<1> QED BY <1>1, <1>2

LEMMA BelowStays ==
    ASSUME Fits, HalvesParted, Budgets, [Next]_vars, NEW s \in Sort, NEW x \in Int, NEW y \in Int,
           x .. y - 1 \subseteq DOMAIN arr[s],
           \A u \in Running : Writes(u) /\ job[u].sort = s =>
               job[u].hi <= x \/ y <= From(u) \/ (x <= From(u) /\ job[u].hi <= y),
           NEW p
    PROVE  /\ Below(arr[s], x, y, p) => Below(arr'[s], x, y, p)
           /\ NotBelow(arr[s], x, y, p) => NotBelow(arr'[s], x, y, p)
<1>1. \A i \in x .. y - 1 : \E k \in x .. y - 1 : arr'[s][i] = arr[s][k]
  BY PartShuffled
<1>2. ASSUME Below(arr[s], x, y, p), NEW i \in x .. y - 1 PROVE Key(arr'[s][i]) < p
  BY <1>1, <1>2 DEF Below
<1>3. ASSUME NotBelow(arr[s], x, y, p), NEW i \in x .. y - 1 PROVE ~(Key(arr'[s][i]) < p)
  BY <1>1, <1>3 DEF NotBelow
<1> QED BY <1>2, <1>3 DEF Below, NotBelow

\* What stays of a thread that waits for a left half.
LEMMA JoinerStep ==
    ASSUME Fits, [Next]_vars, NEW t \in Joiners'
    PROVE  \/ SubmitLeftHalf(t) /\ pc'[t] = "right"
           \/ /\ t \in Joiners /\ job'[t] = job[t] /\ pivot'[t] = pivot[t]
              /\ \/ PartitionRightHalf(t)
                 \/ pc'[t] = pc[t] /\ mid'[t] = mid[t]
<1>1. t \in Running' /\ t \in Thread /\ pc'[t] \in {"right", "joining"}
  BY DEF Joiners, Running
<1>2. ASSUME QuicksortStep(t), ~Ends(t) PROVE SubmitLeftHalf(t) \/ PartitionRightHalf(t)
  BY <1>1, <1>2 DEF QuicksortStep, Ends, PartitionAlone, MergeHalves, SpawnFirst, CountLeaf, NotifyCaller,
     AfterPartition, Goto, Fits, TypeOK
<1>3. CASE SubmitLeftHalf(t)
  BY <1>1, <1>3 DEF SubmitLeftHalf, Goto, Fits, TypeOK
<1>4. CASE PartitionRightHalf(t) /\ t \in Running
  <2>1. pc[t] = "right" /\ UNCHANGED <<job, pivot>>
    BY <1>4 DEF PartitionRightHalf
  <2> QED BY <1>4, <2>1 DEF Joiners
<1>5. CASE t \in Running /\ pc'[t] = pc[t] /\ job'[t] = job[t] /\ pivot'[t] = pivot[t] /\ mid'[t] = mid[t]
  BY <1>1, <1>5 DEF Joiners
<1> QED BY <1>1, <1>2, <1>3, <1>4, <1>5, ThreadStep

\* Only the two threads that partition its halves write to the range of a call that waits.
LEMMA JoinerApart ==
    ASSUME Fits, Owned, NEW t \in Joiners, NEW u \in Running, Writes(u), job[u].sort = job[t].sort
    PROVE  u = t \/ job[u] = LeftHalf(t) \/ job[u].hi <= job[t].lo \/ job[t].hi <= From(u)
<1>1. t \in Running /\ t \in Thread /\ pc[t] \in {"right", "joining"} /\ Call(t) = job[t]
  BY DEF Joiners, Running, Call
<1>2. job[t].part = "impl"
  BY <1>1, JobFits DEF Fits, PlacesFit, PlaceFits
<1>3. /\ Call(u) = job[u] /\ job[u] \in Live /\ From(u) \in Int /\ job[u].lo \in Int /\ job[u].lo <= From(u)
      /\ job[t].hi \in Int
  BY <1>1, FromFits, RangeOf
<1>4. u # t => job[u] # Call(t)
  BY <1>1, <1>3 DEF Owned, OnePlace
<1>5. u # t /\ job[u] # LeftHalf(t) => Apart(job[u], job[t])
  BY <1>1, <1>2, <1>3, <1>4, LiveApart
<1> QED BY <1>3, <1>5 DEF Apart

LEMMA PartWithin ==
    ASSUME Fits, NEW t \in Running, NEW x \in Int, NEW y \in Int, job[t].lo <= x, y <= job[t].hi
    PROVE  x .. y - 1 \subseteq DOMAIN arr[job[t].sort]
<1>1. /\ job[t].lo \in Int /\ job[t].hi \in Int
      /\ job[t].lo .. job[t].hi - 1 \subseteq DOMAIN arr[job[t].sort]
  BY RangeOf
<1>2. \A i \in x .. y - 1 : i \in job[t].lo .. job[t].hi - 1
  BY <1>1
<1> QED BY <1>1, <1>2

LEMMA RightStays ==
    ASSUME Inv, HalvesParted, Budgets, [Next]_vars, NEW t \in Joiners, pc[t] = "joining", pc'[t] = "joining",
           job'[t] = job[t], pivot'[t] = pivot[t], mid'[t] = mid[t]
    PROVE  RightParted(t)'
<1> DEFINE s == job[t].sort
<1>0. Fits /\ Owned /\ t \in Running /\ t \in Thread
  BY DEF Inv, Joiners, Running
<1>1. /\ s \in Sort /\ job[t].lo \in Int /\ job[t].hi \in Int /\ Halfway(t) \in Int /\ mid[t] \in Int
      /\ job[t].lo <= Halfway(t) /\ Halfway(t) <= mid[t] /\ mid[t] <= job[t].hi /\ job[t].lo <= mid[t]
  <2>1. Size(t) >= MinParallel /\ mid[t] \in Halfway(t) .. job[t].hi
    BY <1>0 DEF Fits, PlacesFit, PlaceFits
  <2>2. /\ s \in Sort /\ job[t].lo \in Int /\ job[t].hi \in Int /\ Halfway(t) \in Int
        /\ job[t].lo < Halfway(t) /\ Halfway(t) <= job[t].hi
    BY <1>0, <2>1, RangeOf
  <2> QED BY <2>1, <2>2
<1>2. Below(arr[s], Halfway(t), mid[t], pivot[t]) /\ NotBelow(arr[s], mid[t], job[t].hi, pivot[t])
  BY DEF HalvesParted, RightParted
<1>3. ~Writes(t)
  <2>1. ~MergeHalves(t)
    BY <1>0 DEF MergeHalves, AfterPartition, Goto, Fits, TypeOK
  <2> QED BY <2>1 DEF Writes, PartitionAlone, MustPartition, PartitionRightHalf, SortLeaf, PartitionLeftHalf
<1>4. ASSUME NEW u \in Running, Writes(u), job[u].sort = s
      PROVE  job[u].hi <= Halfway(t) \/ job[t].hi <= From(u)
  <2>1. job[u] = LeftHalf(t) \/ job[u].hi <= job[t].lo \/ job[t].hi <= From(u)
    BY <1>0, <1>3, <1>4, JoinerApart
  <2>2. job[u].hi \in Int /\ From(u) \in Int
    BY <1>0, <1>4, FromFits
  <2>3. job[u] = LeftHalf(t) => job[u].hi = Halfway(t)
    BY DEF LeftHalf, LeftTask
  <2> QED BY <1>1, <2>1, <2>2, <2>3
<1>5. ASSUME NEW x \in Int, NEW y \in Int, Halfway(t) <= x, y <= job[t].hi, NEW p
      PROVE  /\ Below(arr[s], x, y, p) => Below(arr'[s], x, y, p)
             /\ NotBelow(arr[s], x, y, p) => NotBelow(arr'[s], x, y, p)
  <2>1. x .. y - 1 \subseteq DOMAIN arr[s]
    <3>1. job[t].lo <= x
      BY <1>1, <1>5
    <3> QED BY <1>0, <1>5, <3>1, PartWithin
  <2>2. ASSUME NEW u \in Running, Writes(u), job[u].sort = s PROVE job[u].hi <= x \/ y <= From(u)
    <3>1. job[u].hi \in Int /\ From(u) \in Int
      BY <1>0, <2>2, FromFits
    <3>2. job[u].hi <= Halfway(t) \/ job[t].hi <= From(u)
      BY <1>4, <2>2
    <3> QED BY <1>1, <1>5, <3>1, <3>2
  <2> HIDE DEF s
  <2> QED BY <1>0, <1>1, <2>1, <2>2, BelowStays
<1>6. Below(arr'[s], Halfway(t), mid[t], pivot[t]) /\ NotBelow(arr'[s], mid[t], job[t].hi, pivot[t])
  <2>1. Halfway(t) <= Halfway(t) /\ job[t].hi <= job[t].hi
    BY <1>1
  <2> HIDE DEF s
  <2> QED BY <1>1, <1>2, <1>5, <2>1
<1>7. Halfway(t)' = Halfway(t)
  BY DEF Halfway, Size
<1> QED BY <1>6, <1>7 DEF RightParted

LEMMA RightBegins ==
    ASSUME Fits, NEW t \in Running, PartitionRightHalf(t), Fits'
    PROVE  RightParted(t)'
<1> DEFINE s == job[t].sort
<1>1. \A i \in Halfway(t) .. job[t].hi - 1 : Key(arr'[s][i]) < pivot[t] <=> i < mid'[t]
  BY RightWrites
<1>2. UNCHANGED <<job, pivot>> /\ pc'[t] = "joining" /\ t \in Thread /\ t \in Running' /\ Halfway(t)' = Halfway(t)
  <2>1. t \in Thread
    BY DEF Running
  <2>2. UNCHANGED <<job, pivot>> /\ pc'[t] = "joining"
    BY <2>1 DEF PartitionRightHalf, Goto, Fits, TypeOK
  <2> QED BY <2>1, <2>2 DEF Running, Halfway, Size
<1>3. mid'[t] \in Halfway(t) .. job[t].hi
  BY <1>2 DEF Fits, PlacesFit, PlaceFits
<1>4. Halfway(t) \in Int /\ job[t].hi \in Int
  <2>1. pc[t] = "right"
    BY DEF PartitionRightHalf
  <2>2. Size(t) >= MinParallel
    BY <1>2, <2>1 DEF Fits, PlacesFit, PlaceFits
  <2> QED BY <2>2, RangeOf
<1>5. Below(arr'[s], Halfway(t), mid'[t], pivot[t]) /\ NotBelow(arr'[s], mid'[t], job[t].hi, pivot[t])
  <2> HIDE DEF s
  <2>1. \A i \in Halfway(t) .. mid'[t] - 1 : i \in Halfway(t) .. job[t].hi - 1 /\ i < mid'[t]
    BY <1>3, <1>4
  <2>2. \A i \in mid'[t] .. job[t].hi - 1 : i \in Halfway(t) .. job[t].hi - 1 /\ ~(i < mid'[t])
    BY <1>3, <1>4
  <2> QED BY <1>1, <2>1, <2>2 DEF Below, NotBelow
<1> QED BY <1>2, <1>5 DEF RightParted

LEMMA LeftStays ==
    ASSUME Inv, HalvesParted, Budgets, [Next]_vars, NEW t \in Joiners, t \in Joiners',
           job'[t] = job[t], pivot'[t] = pivot[t],
           LeftHalf(t) \in DOMAIN ready, ready[LeftHalf(t)].ok, ready'[LeftHalf(t)] = ready[LeftHalf(t)]
    PROVE  LeftParted(t)'
<1> DEFINE s == job[t].sort
           left_mid == ready[LeftHalf(t)].at
<1>0. Fits /\ Owned /\ t \in Running /\ t \in Thread /\ pc[t] \in {"right", "joining"}
  BY DEF Inv, Joiners, Running
<1>1. /\ s \in Sort /\ job[t].lo \in Int /\ job[t].hi \in Int /\ Halfway(t) \in Int /\ left_mid \in Int
      /\ job[t].lo <= left_mid /\ left_mid <= Halfway(t) /\ Halfway(t) <= job[t].hi
  <2>1. Size(t) >= MinParallel
    BY <1>0 DEF Fits, PlacesFit, PlaceFits
  <2>2. /\ s \in Sort /\ job[t].lo \in Int /\ job[t].hi \in Int /\ Halfway(t) \in Int
        /\ job[t].lo < Halfway(t) /\ Halfway(t) <= job[t].hi
    BY <1>0, <2>1, RangeOf
  <2>3. LeftHalf(t).part = "left" /\ LeftHalf(t).lo = job[t].lo /\ LeftHalf(t).hi = Halfway(t)
    BY DEF LeftHalf, LeftTask
  <2>4. left_mid \in job[t].lo .. Halfway(t)
    BY <1>0, <2>3 DEF Fits, RangesFit
  <2> QED BY <2>2, <2>4
<1>2. Below(arr[s], job[t].lo, left_mid, pivot[t]) /\ NotBelow(arr[s], left_mid, Halfway(t), pivot[t])
  BY DEF HalvesParted, LeftParted
<1>3. Writes(t) => From(t) = Halfway(t)
  <2>1. ~MergeHalves(t)
    <3>1. ASSUME MergeHalves(t) PROVE pc'[t] \in {"leaf", "split"}
      BY <1>0, <3>1 DEF MergeHalves, AfterPartition, Goto, Fits, TypeOK
    <3> QED BY <3>1 DEF Joiners
  <2>2. Writes(t) => pc[t] = "right"
    BY <1>0, <2>1 DEF Writes, PartitionAlone, MustPartition, PartitionRightHalf, SortLeaf, PartitionLeftHalf
  <2> QED BY <2>2 DEF From
<1>4. ASSUME NEW u \in Running, Writes(u), job[u].sort = s
      PROVE  job[u].hi <= job[t].lo \/ Halfway(t) <= From(u)
  <2>1. u = t \/ job[u] = LeftHalf(t) \/ job[u].hi <= job[t].lo \/ job[t].hi <= From(u)
    BY <1>0, <1>4, JoinerApart
  <2>2. job[u].hi \in Int /\ From(u) \in Int /\ job[u] \in Live
    BY <1>0, <1>4, FromFits
  <2>3. job[u] # LeftHalf(t)
    BY <1>0, <2>2 DEF Owned, NotReady
  <2>4. Halfway(t) <= Halfway(t)
    BY <1>1
  <2> QED BY <1>1, <1>3, <1>4, <2>1, <2>2, <2>3, <2>4
<1>5. ASSUME NEW x \in Int, NEW y \in Int, job[t].lo <= x, y <= Halfway(t), NEW p
      PROVE  /\ Below(arr[s], x, y, p) => Below(arr'[s], x, y, p)
             /\ NotBelow(arr[s], x, y, p) => NotBelow(arr'[s], x, y, p)
  <2>1. x .. y - 1 \subseteq DOMAIN arr[s]
    <3>1. y <= job[t].hi
      BY <1>1, <1>5
    <3> QED BY <1>0, <1>5, <3>1, PartWithin
  <2>2. ASSUME NEW u \in Running, Writes(u), job[u].sort = s PROVE job[u].hi <= x \/ y <= From(u)
    <3>1. job[u].hi \in Int /\ From(u) \in Int
      BY <1>0, <2>2, FromFits
    <3>2. job[u].hi <= job[t].lo \/ Halfway(t) <= From(u)
      BY <1>4, <2>2
    <3> QED BY <1>1, <1>5, <3>1, <3>2
  <2> HIDE DEF s
  <2> QED BY <1>0, <1>1, <2>1, <2>2, BelowStays
<1>6. Below(arr'[s], job[t].lo, left_mid, pivot[t]) /\ NotBelow(arr'[s], left_mid, Halfway(t), pivot[t])
  <2>1. Halfway(t) <= Halfway(t) /\ job[t].lo <= job[t].lo
    BY <1>1
  <2> HIDE DEF s, left_mid
  <2> QED BY <1>1, <1>2, <1>5, <2>1
<1>7. Halfway(t)' = Halfway(t) /\ LeftHalf(t)' = LeftHalf(t)
  BY DEF LeftHalf, Halfway, Size
<1> QED BY <1>6, <1>7 DEF LeftParted

LEMMA LeftBegins ==
    ASSUME Fits, Fits', NEW t \in Joiners, job'[t] = job[t], pivot'[t] = pivot[t],
           NEW w \in Worker, w \in Running, job[w] = LeftHalf(t), PartitionLeftHalf(w),
           LeftHalf(t) \in DOMAIN ready', ready'[LeftHalf(t)].ok
    PROVE  LeftParted(t)'
<1> DEFINE s == job[t].sort
           h == LeftHalf(t)
           at == ready'[LeftHalf(t)].at
<1>1. h.sort = s /\ h.lo = job[t].lo /\ h.hi = Halfway(t) /\ h.pivot = pivot[t] /\ h.part = "left"
  BY DEF LeftHalf, LeftTask
<1>2. \A i \in h.lo .. h.hi - 1 : Key(arr'[s][i]) < h.pivot <=> i < at
  BY <1>1, LeftWrites
<1>3. h.lo \in Int /\ h.hi \in Int
  BY RangeOf
<1>4. at \in h.lo .. h.hi
  BY <1>1 DEF Fits, RangesFit
<1>5. Below(arr'[s], h.lo, at, h.pivot) /\ NotBelow(arr'[s], at, h.hi, h.pivot)
  <2> HIDE DEF s, h, at
  <2>1. \A i \in h.lo .. at - 1 : i \in h.lo .. h.hi - 1 /\ i < at
    BY <1>3, <1>4
  <2>2. \A i \in at .. h.hi - 1 : i \in h.lo .. h.hi - 1 /\ ~(i < at)
    BY <1>3, <1>4
  <2> QED BY <1>2, <2>1, <2>2 DEF Below, NotBelow
<1>6. Halfway(t)' = Halfway(t) /\ LeftHalf(t)' = LeftHalf(t)
  BY DEF LeftHalf, Halfway, Size
<1> QED BY <1>1, <1>5, <1>6 DEF LeftParted

LEMMA StepHalvesParted == ASSUME Inv, HalvesParted, Budgets, [Next]_vars PROVE HalvesParted'
<1>0. Fits /\ Owned /\ Fits' /\ Owned'
  BY StepFits, StepOwned DEF Inv
<1> SUFFICES ASSUME NEW t \in Joiners'
             PROVE  /\ pc'[t] = "joining" => RightParted(t)'
                    /\ LeftHalf(t)' \in DOMAIN ready' /\ ready'[LeftHalf(t)'].ok => LeftParted(t)'
  BY DEF HalvesParted
<1>1. ASSUME pc'[t] = "joining" PROVE RightParted(t)'
  <2>1. CASE PartitionRightHalf(t) /\ t \in Joiners
    BY <1>0, <2>1, RightBegins DEF Joiners
  <2>2. CASE t \in Joiners /\ job'[t] = job[t] /\ pivot'[t] = pivot[t] /\ pc'[t] = pc[t] /\ mid'[t] = mid[t]
    BY <1>1, <2>2, RightStays
  <2> QED BY <1>0, <1>1, <2>1, <2>2, JoinerStep
<1>2. ASSUME NEW h, h = LeftHalf(t)', h \in DOMAIN ready', ready'[h].ok PROVE LeftParted(t)'
  <2>1. t \in Joiners /\ job'[t] = job[t] /\ pivot'[t] = pivot[t]
    <3>1. ASSUME SubmitLeftHalf(t), pc'[t] = "right" PROVE FALSE
      <4>1. Next /\ t \in Thread
        BY <3>1 DEF Next, QuicksortStep, Joiners, Running
      <4>2. h \in Live'
        BY <1>0, <1>2, <3>1, <4>1, SubmitLeftLive
      <4> QED BY <1>0, <1>2, <4>2 DEF Owned, NotReady
    <3> QED BY <1>0, <3>1, JoinerStep
  <2>2. h = LeftHalf(t) /\ h.part = "left"
    BY <1>2, <2>1 DEF LeftHalf, LeftTask, Halfway, Size
  <2>3. CASE h \in DOMAIN ready /\ ready'[h] = ready[h]
    BY <1>2, <2>1, <2>2, <2>3, LeftStays
  <2>4. CASE \E w \in Worker : w \in Running /\ h = job[w] /\ (SpawnSecond(w) \/ SortLeaf(w) \/ PartitionLeftHalf(w))
    <3>1. PICK w \in Worker : w \in Running /\ h = job[w] /\ (SpawnSecond(w) \/ SortLeaf(w) \/ PartitionLeftHalf(w))
      BY <2>4
    <3>2. PartitionLeftHalf(w)
      <4>1. pc[w] = "left"
        BY <1>0, <2>2, <3>1 DEF Fits, PlacesFit, PlaceFits, Running
      <4> QED BY <3>1, <4>1 DEF SpawnSecond, SortLeaf
    <3> QED BY <1>0, <1>2, <2>1, <2>2, <3>1, <3>2, LeftBegins
  <2> QED BY <1>0, <1>2, <2>3, <2>4, ReadyStep
<1> QED BY <1>1, <1>2

LEMMA StepBudgets == ASSUME Fits, Budgets, [Next]_vars PROVE Budgets'
<1>0. Fits' /\ allowed \in [Sort -> Int] /\ Cardinality(alive) \in Nat
  <2>1. allowed \in [Sort -> Int] /\ alive \in SUBSET Worker
    BY DEF Fits, TypeOK
  <2>2. Cardinality(alive) \in Nat
    BY <2>1, SortAssumption, FS_Subset, FS_CardinalityType DEF SortAssumption
  <2> QED BY <2>1, <2>2, StepFits
<1>1. ASSUME NEW s \in Sort, call'[s].by # "sort" PROVE allowed'[s] <= 0
  <2>1. call'[s] = call[s] /\ ~SetBudget(s)
    BY <1>1, AllowedStep DEF SetBudget
  <2>2. allowed[s] <= 0 /\ allowed[s] \in Int
    BY <1>0, <1>1, <2>1 DEF Budgets
  <2>3. allowed'[s] = allowed[s] \/ allowed'[s] = allowed[s] - 1
    BY <2>1, AllowedStep
  <2> QED BY <2>2, <2>3
<1>2. ASSUME NEW t \in Joiners' PROVE call'[job'[t].sort].by = "sort"
  <2>1. CASE SubmitLeftHalf(t)
    <3>1. job' = job /\ call' = call /\ allowed[job[t].sort] > 0
      BY <2>1 DEF SubmitLeftHalf, MayPartitionInParallel, data
    <3>2. t \in Running' /\ t \in Thread
      BY DEF Joiners, Running
    <3>3. job[t].sort \in Sort
      BY <1>0, <3>1, <3>2, JobFits DEF Running
    <3> QED BY <1>0, <3>1, <3>3 DEF Budgets
  <2>2. CASE t \in Joiners /\ job'[t] = job[t]
    <3>1. job[t].sort \in Sort
      BY <2>2, JobFits DEF Joiners, Running
    <3> QED BY <2>2, <3>1, AllowedStep DEF Budgets
  <2> QED BY <2>1, <2>2, JoinerStep
<1>3. ASSUME NEW h \in LeftHalves' PROVE call'[h.sort].by = "sort"
  <2>1. CASE h \in LeftHalves
    BY <2>1, LeftHalvesStep, AllowedStep DEF Budgets
  <2>2. ASSUME NEW t \in Joiners', h = LeftHalf(t)' PROVE call'[h.sort].by = "sort"
    <3>1. h.sort = job'[t].sort
      BY <2>2 DEF LeftHalf, LeftTask
    <3> QED BY <1>2, <3>1
  <2> QED BY <2>1, <2>2, LeftHalvesStep
<1> QED BY <1>1, <1>2, <1>3 DEF Budgets

\* Nobody writes across the point where a call is about to be split.
LEMMA SplitterApart ==
    ASSUME Fits, Owned, Nested, FirstSubmitted, NEW t \in Running, pc[t] \in {"split", "spawning"},
           NEW u \in Running, Writes(u), job[u].sort = job[t].sort
    PROVE  /\ job[u].hi <= job[t].lo \/ mid[t] <= From(u) \/ (job[t].lo <= From(u) /\ job[u].hi <= mid[t])
           /\ job[u].hi <= mid[t] \/ job[t].hi <= From(u)
<1>1. /\ job[t].part = "impl" /\ t \notin Joiners
      /\ job[t].lo \in Nat /\ mid[t] \in Nat /\ job[t].hi \in Nat
      /\ job[t].lo < mid[t] /\ mid[t] < job[t].hi
      /\ First(t).lo = job[t].lo /\ First(t).hi = mid[t]
      /\ Second(t).lo = mid[t] /\ Second(t).hi = job[t].hi
      /\ Call(t) = IF pc[t] = "split" THEN job[t] ELSE Second(t)
  BY ChildrenFit
<1>2. /\ Call(u) = job[u] /\ job[u] \in Live /\ From(u) \in Int /\ job[u].lo \in Int /\ job[u].hi \in Int
      /\ job[u].lo <= From(u)
  BY FromFits
<1>3. u # t
  BY DEF Writes, PartitionAlone, MustPartition, PartitionRightHalf, MergeHalves, SortLeaf, PartitionLeftHalf
<1>4. job[u] # Call(t)
  BY <1>2, <1>3 DEF Owned, OnePlace
<1>5. Apart(job[u], Call(t))
  BY <1>1, <1>2, <1>4, LiveApart
<1>6. CASE pc[t] = "split"
  <2>1. job[u].hi <= job[t].lo \/ job[t].hi <= job[u].lo
    BY <1>1, <1>5, <1>6 DEF Apart
  <2> QED BY <1>1, <1>2, <2>1
<1>7. CASE pc[t] = "spawning"
  <2>1. job[u].hi <= mid[t] \/ job[t].hi <= job[u].lo
    BY <1>1, <1>5, <1>7 DEF Apart
  <2>2. job[t].sort \in Sort
    BY RangeOf
  <2>3. First(t) \in InFutures(job[t].sort)
    BY <1>7 DEF FirstSubmitted, First
  <2>4. Apart(job[u], First(t)) \/ Inside(job[u], First(t))
    BY <1>2, <2>2, <2>3 DEF Nested
  <2>5. \/ job[u].hi <= job[t].lo \/ mid[t] <= job[u].lo
        \/ job[t].lo <= job[u].lo /\ job[u].hi <= mid[t]
    BY <1>1, <2>4 DEF Apart, Inside
  <2> QED BY <1>1, <1>2, <2>1, <2>5
<1> QED BY <1>6, <1>7

\* The elements from lo on are less than those from m on.
Split(a, lo, m, hi) == \A i \in lo .. m - 1, j \in m .. hi - 1 : Key(a[i]) < Key(a[j])

LEMMA SplitBegins ==
    ASSUME NEW a \in Seq(Element), NEW lo \in Int, NEW m \in Int, NEW hi \in Int, lo <= m, m <= hi,
           lo .. hi - 1 \subseteq DOMAIN a, NEW p \in Int, \A i \in lo .. hi - 1 : Key(a[i]) < p <=> i < m
    PROVE  Split(a, lo, m, hi)
<1> SUFFICES ASSUME NEW i \in lo .. m - 1, NEW j \in m .. hi - 1 PROVE Key(a[i]) < Key(a[j])
  BY DEF Split
<1>1. i \in lo .. hi - 1 /\ j \in lo .. hi - 1 /\ i < m /\ ~(j < m)
  OBVIOUS
<1>2. a[i] \in Element /\ a[j] \in Element
  BY <1>1
<1>3. Key(a[i]) \in Int /\ Key(a[j]) \in Int
  BY <1>2, KeyType
<1>4. Key(a[i]) < p /\ ~(Key(a[j]) < p)
  BY <1>1
<1> QED BY <1>3, <1>4

LEMMA StepSplitsApart ==
    ASSUME Inv, Nested, FirstSubmitted, HalvesParted, Budgets, SplitsApart, [Next]_vars
    PROVE  SplitsApart'
<1>0. Fits /\ Owned /\ Fits'
  BY StepFits DEF Inv
<1> SUFFICES ASSUME NEW t \in Thread, pc'[t] \in {"split", "spawning"}
             PROVE  /\ job'[t].lo < mid'[t] /\ mid'[t] < job'[t].hi
                    /\ Split(arr'[job'[t].sort], job'[t].lo, mid'[t], job'[t].hi)
  BY DEF SplitsApart, Split
<1>1. t \in Running'
  BY <1>0 DEF Fits, PlacesFit, PlaceFits, Busy
<1>2. job'[t].lo < mid'[t] /\ mid'[t] < job'[t].hi
  BY <1>0, <1>1 DEF Fits, PlacesFit, PlaceFits
<1> DEFINE s == job[t].sort
<1>3. ASSUME t \in Running, job'[t] = job[t],
             \E p \in Int : \A i \in job[t].lo .. job[t].hi - 1 : Key(arr'[s][i]) < p <=> i < mid'[t]
      PROVE  Split(arr'[s], job[t].lo, mid'[t], job[t].hi)
  <2>1. PICK p \in Int : \A i \in job[t].lo .. job[t].hi - 1 : Key(arr'[s][i]) < p <=> i < mid'[t]
    BY <1>3
  <2>2. /\ s \in Sort /\ job[t].lo \in Int /\ job[t].hi \in Int
    BY <1>0, <1>3, RangeOf
  <2>3. arr'[s] \in Seq(Element) /\ job[t].lo .. job[t].hi - 1 \subseteq DOMAIN arr'[s]
    <3>1. arr'[s] \in Seq(Element)
      BY <1>0, <2>2 DEF Fits, TypeOK, Element
    <3>2. 1 <= job[t].lo /\ job[t].hi <= Len(arr'[s]) + 1
      BY <1>0, <1>1, <1>3 DEF Fits, RangesFit, InRange
    <3>3. DOMAIN arr'[s] = 1 .. Len(arr'[s]) /\ Len(arr'[s]) \in Nat
      BY <3>1
    <3>4. \A i \in job[t].lo .. job[t].hi - 1 : i \in 1 .. Len(arr'[s])
      BY <2>2, <3>2, <3>3
    <3> QED BY <3>1, <3>3, <3>4
  <2>4. mid'[t] \in Int
    BY <1>0 DEF Fits, TypeOK
  <2>5. job[t].lo <= mid'[t] /\ mid'[t] <= job[t].hi
    BY <1>2, <1>3, <2>2, <2>4
  <2> HIDE DEF s
  <2> QED BY <2>1, <2>2, <2>3, <2>4, <2>5, SplitBegins
<1>4. CASE t \in Running /\ PartitionAlone(t)
  <2>1. job' = job
    BY <1>4 DEF PartitionAlone
  <2> QED BY <1>0, <1>2, <1>3, <1>4, <2>1, AloneWrites
<1>5. CASE t \in Running /\ MergeHalves(t)
  <2>1. job' = job /\ pivot[t] \in Int
    BY <1>0, <1>5 DEF MergeHalves, Fits, TypeOK
  <2> QED BY <1>0, <1>2, <1>3, <1>5, <2>1, MergeWrites
<1>6. CASE SpawnFirst(t)
  <2>1. pc[t] = "split" /\ UNCHANGED <<arr, job, mid>>
    BY <1>6 DEF SpawnFirst, data, frames
  <2> QED BY <1>2, <2>1 DEF SplitsApart, Split
<1>7. CASE t \in Running /\ pc'[t] = pc[t] /\ job'[t] = job[t] /\ mid'[t] = mid[t]
  <2>1. Split(arr[s], job[t].lo, mid[t], job[t].hi)
    BY <1>7 DEF SplitsApart, Split
  <2>2. /\ s \in Sort /\ job[t].lo \in Int /\ job[t].hi \in Int /\ mid[t] \in Int
        /\ job[t].lo <= mid[t] /\ mid[t] <= job[t].hi
        /\ job[t].lo <= job[t].lo /\ job[t].hi <= job[t].hi
    <3>1. s \in Sort /\ job[t].lo \in Int /\ job[t].hi \in Int
      BY <1>0, <1>7, RangeOf
    <3>2. mid[t] \in Int
      BY <1>0 DEF Fits, TypeOK
    <3> QED BY <1>2, <1>7, <3>1, <3>2
  <2>3. ASSUME NEW i \in job[t].lo .. mid[t] - 1 PROVE \E k \in job[t].lo .. mid[t] - 1 : arr'[s][i] = arr[s][k]
    <3>1. job[t].lo .. mid[t] - 1 \subseteq DOMAIN arr[s]
      BY <1>0, <1>7, <2>2, PartWithin
    <3>2. \A u \in Running : Writes(u) /\ job[u].sort = s =>
              job[u].hi <= job[t].lo \/ mid[t] <= From(u) \/ (job[t].lo <= From(u) /\ job[u].hi <= mid[t])
      BY <1>0, <1>7, SplitterApart
    <3> HIDE DEF s
    <3> QED BY <1>0, <2>2, <3>1, <3>2, PartShuffled
  <2>4. ASSUME NEW j \in mid[t] .. job[t].hi - 1 PROVE \E k \in mid[t] .. job[t].hi - 1 : arr'[s][j] = arr[s][k]
    <3>1. mid[t] .. job[t].hi - 1 \subseteq DOMAIN arr[s]
      BY <1>0, <1>7, <2>2, PartWithin
    <3>2. \A u \in Running : Writes(u) /\ job[u].sort = s =>
              job[u].hi <= mid[t] \/ job[t].hi <= From(u) \/ (mid[t] <= From(u) /\ job[u].hi <= job[t].hi)
      BY <1>0, <1>7, SplitterApart
    <3> HIDE DEF s
    <3> QED BY <1>0, <2>2, <3>1, <3>2, PartShuffled
  <2>5. Split(arr'[s], job[t].lo, mid[t], job[t].hi)
    <3> HIDE DEF s
    <3> QED BY <2>1, <2>3, <2>4 DEF Split
  <2> QED BY <1>2, <1>7, <2>5
<1>8. ASSUME QuicksortStep(t), ~Ends(t) PROVE PartitionAlone(t) \/ MergeHalves(t) \/ SpawnFirst(t)
  BY <1>0, <1>8 DEF QuicksortStep, Ends, SubmitLeftHalf, PartitionRightHalf, CountLeaf, NotifyCaller, Goto, Fits, TypeOK
<1> QED BY <1>0, <1>1, <1>4, <1>5, <1>6, <1>7, <1>8, ThreadStep

LEMMA InitParts == Init => Nested /\ FirstSubmitted /\ HalvesParted /\ Budgets /\ SplitsApart
<1> SUFFICES ASSUME Init PROVE Nested /\ FirstSubmitted /\ HalvesParted /\ Budgets /\ SplitsApart
  OBVIOUS
<1>1. Running = {} /\ InQueue = {} /\ \A t \in Thread : pc[t] = "idle"
  BY DEF Init, Running, InQueue
<1>2. Live = {} /\ Joiners = {} /\ LeftHalves = {}
  BY <1>1 DEF Live, Joiners, LeftHalves
<1>3. \A s \in Sort : allowed[s] = 0
  BY DEF Init
<1> QED BY <1>1, <1>2, <1>3 DEF Nested, FirstSubmitted, HalvesParted, Budgets, SplitsApart

Parts == Inv /\ Nested /\ FirstSubmitted /\ HalvesParted /\ Budgets /\ SplitsApart

LEMMA AlwaysParts == Spec => []Parts
<1>1. Init => Parts
  BY InitFits, InitOwned, InitCounts, InitFutures, InitParts DEF Inv, Parts
<1>2. Parts /\ [Next]_vars => Parts'
  BY StepFits, StepOwned, StepCounts, StepFutures, StepNested, StepFirstSubmitted, StepHalvesParted,
     StepBudgets, StepSplitsApart DEF Inv, Parts
<1> QED BY <1>1, <1>2, PTL DEF Spec

\* However a call came to partition its range, alone or with a worker on the left half, and
\* whoever works on the parts of it that it has handed out already, what it splits is split:
\* neither part is empty, and every element of the one is less than every element of the other.
THEOREM PartsComeApart == Spec => []SplitsApart
<1>1. Parts => SplitsApart
  BY DEF Parts
<1> QED BY <1>1, AlwaysParts, PTL

-----------------------------------------------------------------------------
(* What a sort that returns has done.                                        *)

\* A call that runs has no result yet, also between its two submissions.
Unready == \A t \in Running : job[t] \notin DOMAIN ready

Sorting == Parts /\ Unready /\ ResultsHold /\ Permuted /\ Ordered

\* The place of a thread that runs no task is changed by its own steps, or by a notification.
LEMMA CallerMoves ==
    ASSUME Fits, [Next]_vars, NEW s \in Sort, pc[s] \notin Busy, pc'[s] # pc[s]
    PROVE  CallerStep(s) \/ SpuriousWake(s) \/ pc[s] = "asleep"
<1>0. Sort \subseteq Thread /\ Worker \subseteq Thread /\ Sort \intersect Worker = {} /\ pc \in [Thread -> Pc]
  BY ThreadsApart DEF Fits, TypeOK
<1>1. ASSUME NEW r \in Sort, CallerStep(r) \/ SpuriousWake(r) PROVE r = s
  BY <1>0, <1>1 DEF CallerStep, SetBudget, SortWithoutBudget, SetUp, SortNothing, WaitForSpawns,
     GetFuture, Return, SpuriousWake, Goto
<1>2. ASSUME NEW t \in Thread, Ends(t) PROVE FALSE
  <2>1. t \in Running /\ \A u \in Thread \ {t} : pc'[u] = pc[u]
    BY <1>2, EndsLeave
  <2>2. t # s
    BY <2>1 DEF Running, Fits, PlacesFit, PlaceFits
  <2> QED BY <1>0, <2>1, <2>2
<1>3. ASSUME NEW t \in Thread, QuicksortStep(t), ~Ends(t), ~NotifyCaller(t) PROVE FALSE
  <2>1. pc[t] \in Busy /\ \E l \in Pc : pc' = [pc EXCEPT ![t] = l]
    BY <1>3 DEF QuicksortStep, Ends, PartitionAlone, MustPartition, SubmitLeftHalf, PartitionRightHalf,
       MergeHalves, SpawnFirst, CountLeaf, AtLeaf, AfterPartition, Goto, Busy, Pc
  <2> QED BY <1>0, <2>1
<1>4. ASSUME NEW t \in Thread, NotifyCaller(t) PROVE pc[s] = "asleep"
  <2>1. t # s
    BY <1>4 DEF NotifyCaller, Busy
  <2> QED BY <1>0, <1>4, <2>1 DEF NotifyCaller
<1>5. ASSUME NEW w \in Worker, TakeTask(w) PROVE FALSE
  BY <1>0, <1>5 DEF TakeTask, Goto
<1>6. ~(Resize \/ Restart \/ UNCHANGED vars)
  BY DEF Resize, Contract, Expand, Restart, vars
<1> QED BY <1>0, <1>1, <1>2, <1>3, <1>4, <1>5, <1>6 DEF Next, WorkerStep, Ends

LEMMA StartStep ==
    ASSUME Fits, [Next]_vars, NEW s \in Sort, pc[s] \in {"idle", "called"}, pc'[s] \notin {"idle", "called"}
    PROVE  SetUp(s) \/ SortNothing(s)
<1>0. s \in Thread /\ pc \in [Thread -> Pc]
  BY ThreadsApart DEF Fits, TypeOK
<1>1. CallerStep(s) \/ SpuriousWake(s)
  <2>1. pc[s] \notin Busy /\ pc'[s] # pc[s] /\ pc[s] # "asleep"
    BY DEF Busy
  <2> QED BY <2>1, CallerMoves
<1> QED BY <1>0, <1>1 DEF CallerStep, SetBudget, SortWithoutBudget, WaitForSpawns, GetFuture,
        Return, SpuriousWake, Goto

\* No two threads run the same call, even if one has handed out its first part.
LEMMA OneRun ==
    ASSUME Fits, Owned, NEW t \in Running, NEW u \in Running, pc[t] = "spawning", job[u] = job[t]
    PROVE  u = t
<1>1. /\ Call(t) \in Live /\ Call(u) \in Live
      /\ job[t].sort \in Sort /\ job[t].lo \in Int /\ job[t].hi \in Int /\ job[t].lo < job[t].hi
  BY RangeOf DEF Live
<1>2. Call(t) = Second(t) /\ Call(t).part = "impl" /\ job[t].part = "impl"
  BY ChildrenFit
<1>3. CASE pc[u] = "spawning"
  <2>1. Call(u) = Second(u) /\ Call(u).part = "impl"
    BY <1>3, ChildrenFit
  <2>2. Call(t).hi = job[t].hi /\ Call(u).hi = job[t].hi /\ Call(t).sort = Call(u).sort
    BY <1>2, <2>1 DEF Second, QuicksortTask
  <2>3. ~Apart(Call(t), Call(u))
    <3>1. Call(t).lo \in Int /\ Call(u).lo \in Int /\ Call(t).lo < Call(t).hi /\ Call(u).lo < Call(u).hi
      BY <1>1, PartsFit
    <3> QED BY <1>1, <2>2, <3>1 DEF Apart
  <2>4. Call(t) = Call(u)
    BY <1>1, <1>2, <2>1, <2>2, <2>3 DEF Owned, CallsApart
  <2> QED BY <2>4 DEF Owned, OnePlace
<1>4. CASE pc[u] # "spawning"
  <2>1. Call(u) = job[t] /\ job[t] \in Over
    BY <1>4 DEF Call, Over
  <2>2. Apart(job[t], job[t]) \/ Within(job[t], job[t])
    BY <1>1, <1>2, <2>1 DEF Owned, OverApart
  <2> QED BY <1>1, <2>2 DEF Apart, Within
<1> QED BY <1>3, <1>4

LEMMA StepUnready == ASSUME Fits, Owned, Unready, [Next]_vars PROVE Unready'
<1>0. Fits' /\ Owned'
  BY StepFits, StepOwned
<1> SUFFICES ASSUME NEW t \in Running', NEW c, c = job'[t], c \in DOMAIN ready' PROVE FALSE
  BY DEF Unready
<1>1. pc'[t] = "spawning"
  <2>1. ASSUME pc'[t] # "spawning" PROVE c \in Live'
    BY <2>1 DEF Live, Call
  <2> QED BY <1>0, <2>1 DEF Owned, NotReady
<1>2. CASE t \in Running /\ QuicksortStep(t) /\ ~Ends(t)
  <2>0. t \in Thread /\ pc \in [Thread -> Pc]
    BY <1>2 DEF Fits, TypeOK, Running
  <2>1. SpawnFirst(t)
    BY <1>1, <1>2, <2>0 DEF QuicksortStep, Ends, PartitionAlone, SubmitLeftHalf, PartitionRightHalf, MergeHalves,
       CountLeaf, NotifyCaller, AfterPartition, Goto
  <2>2. ready' = ready /\ c = job[t]
    BY <2>1 DEF SpawnFirst, frames
  <2> QED BY <1>2, <2>2 DEF Unready
<1>3. CASE t \in Running /\ pc'[t] = pc[t] /\ job'[t] = job[t]
  <2>1. c \notin DOMAIN ready
    BY <1>3 DEF Unready
  <2>2. PICK w \in Worker : w \in Running /\ c = job[w] /\ Ends(w)
    BY <2>1, ReadyStep
  <2>3. w = t
    BY <1>1, <1>3, <2>2, OneRun
  <2> QED BY <2>2, <2>3, EndsLeave DEF Running
<1> QED BY <1>1, <1>2, <1>3, ThreadStep

\* A result that is there stays the same.
LEMMA ResultKept ==
    ASSUME Fits, Owned, Unready, [Next]_vars, NEW c \in DOMAIN ready, c.part = "impl"
    PROVE  c \in DOMAIN ready' /\ ready'[c] = ready[c]
<1>1. c \in DOMAIN ready'
  BY ReadyStays
<1> QED BY <1>1, ReadyStep DEF Unready

LEMMA StepResultsHold == ASSUME Inv, Unready, ResultsHold, [Next]_vars PROVE ResultsHold'
<1>0. Fits /\ Owned /\ FuturesHold
  BY DEF Inv
<1>1. ASSUME NEW c \in DOMAIN ready', c.part = "impl", NEW r, r = c.sort PROVE c \in InFutures(r)'
  <2>1. r \in Sort /\ c \in InFutures(r)
    <3>1. CASE c \in DOMAIN ready
      BY <1>0, <1>1, <3>1, PartsFit DEF ResultsHold
    <3>2. ASSUME NEW w \in Worker, w \in Running, c = job[w] PROVE r \in Sort /\ c \in InFutures(r)
      <4>1. r \in Sort
        BY <1>0, <1>1, <3>2, RangeOf
      <4> QED BY <1>0, <1>1, <3>2, <4>1 DEF FuturesHold
    <3> QED BY <1>0, <3>1, <3>2, ReadyStep
  <2> QED BY <1>0, <2>1, FuturesGrow
<1>2. ASSUME NEW s \in Sort, NEW i \in 1 .. got'[s] PROVE ready'[futures'[s][i]].ok
  <2>1. /\ Len(futures[s]) \in Nat /\ DOMAIN futures[s] = 1 .. Len(futures[s])
        /\ \A k \in 1 .. Len(futures[s]) : futures'[s][k] = futures[s][k]
    BY <1>0, FuturesGrow
  <2>2. /\ got[s] \in Nat /\ got[s] <= Len(futures[s])
        /\ \A k \in 1 .. got[s] : futures[s][k] \in DOMAIN ready /\ ready[futures[s][k]].ok
    BY <1>0 DEF FuturesHold, ResultsHold, Fits, TypeOK
  <2>3. i \in 1 .. Len(futures[s]) /\ futures[s][i] \in DOMAIN ready /\ ready[futures[s][i]].ok
    <3>1. CASE got'[s] = got[s]
      BY <2>1, <2>2, <3>1
    <3>2. CASE got'[s] # got[s]
      <4>1. /\ GetFuture(s) /\ got'[s] = got[s] + 1 /\ got[s] < Len(futures[s])
            /\ futures[s][got[s] + 1] \in DOMAIN ready
        BY <1>0, <3>2, GotStep
      <4>2. ready[futures[s][got[s] + 1]].ok
        BY <3>2, <4>1 DEF GetFuture
      <4>3. i \in 1 .. got[s] \/ i = got[s] + 1
        BY <2>2, <4>1
      <4> QED BY <2>1, <2>2, <4>1, <4>2, <4>3
    <3> QED BY <3>1, <3>2
  <2>4. futures[s][i].part = "impl"
    BY <1>0, <2>1, <2>3 DEF FuturesHold, InFutures
  <2> QED BY <1>0, <2>1, <2>3, <2>4, ResultKept
<1> QED BY <1>1, <1>2 DEF ResultsHold

\* A sort that cannot succeed any more does not come to.
LEMMA FailedStays == ASSUME Inv, Unready, [Next]_vars, NEW s \in Sort, Failed(s) PROVE Failed(s)'
<1>0. Fits /\ Owned
  BY DEF Inv
<1>1. Excess(s) > 0 => Excess(s)' > 0
  <2>1. Excess(s) \in Int
    BY <1>0, CountsFinite
  <2>2. Excess(s)' = Excess(s) \/ Excess(s)' = Excess(s) + 1
    BY <1>0, <2>1, SameExcess, MoreExcess
  <2> QED BY <2>1, <2>2
<1>2. ASSUME pc[s] = "threw" PROVE pc'[s] = "threw"
  <2>1. ~(CallerStep(s) \/ SpuriousWake(s)) /\ pc[s] \notin Busy
    BY <1>2 DEF CallerStep, SetBudget, SortWithoutBudget, SetUp, SortNothing, WaitForSpawns, GetFuture,
       Return, SpuriousWake, Busy
  <2> QED BY <1>0, <1>2, <2>1, CallerMoves
<1>3. ASSUME NEW c \in DOMAIN ready, c.sort = s, c.part = "impl", ~ready[c].ok
      PROVE  c \in DOMAIN ready' /\ ~ready'[c].ok
  BY <1>0, <1>3, ResultKept
<1> QED BY <1>1, <1>2, <1>3 DEF Failed

\* A call that throws leaves its sort failed: on the count, in its caller or in its future.
LEMMA ThrowFails ==
    ASSUME Fits, Counts, NEW t \in Running, Throws(t), job[t].part = "impl", NEW s, s = job[t].sort
    PROVE  Failed(s)'
<1>1. s \in Sort /\ t \in Thread /\ PlaceFits(t)
  BY RangeOf DEF Fits, PlacesFit
<1>2. CASE t \in Deciding(s)
  <2>1. Excess(s) \in Int /\ Excess(s) >= 0 /\ Excess(s)' = Excess(s) + 1
    BY <1>1, <1>2, CountsFinite, MoreExcess DEF Counts
  <2>2. Excess(s)' > 0
    BY <2>1
  <2> QED BY <2>2 DEF Failed
<1>3. CASE t \notin Deciding(s)
  <2>1. pc[t] = "sorting"
    BY <1>1, <1>3 DEF Deciding, Throws, ThrowAlone, MustPartition, Throw, LeftHalfThrew, PlaceFits
  <2>2. Finish(t, FALSE, 0)
    BY <2>1 DEF Throws, ThrowAlone, MustPartition, Throw
  <2>3. CASE t \in Worker
    <3>1. job[t] \in DOMAIN ready' /\ ~ready'[job[t]].ok
      <4>1. ready' = [c \in DOMAIN ready \union {job[t]} |->
                         IF c = job[t] THEN [ok |-> FALSE, at |-> 0] ELSE ready[c]]
        BY <2>2, <2>3 DEF Finish, Resolve
      <4> QED BY <4>1
    <3> QED BY <3>1 DEF Failed
  <2>4. CASE t \notin Worker
    <3>1. t = s
      BY <1>1, <2>4 DEF PlaceFits, Thread
    <3>2. pc'[t] = "threw"
      BY <1>1, <2>2, <2>4 DEF Finish, Goto, Fits, TypeOK
    <3> QED BY <3>1, <3>2 DEF Failed
  <2> QED BY <2>3, <2>4
<1> QED BY <1>2, <1>3

\* Whoever writes does so inside a call that is still to be done, and that a leaf ends.
LEMMA WriterInside ==
    ASSUME Fits, Owned, Counts, NEW u \in Running, Writes(u), NEW s, s = job[u].sort, ~(Excess(s) > 0)
    PROVE  \E d \in Live :
              /\ d.sort = s /\ d.part = "impl" /\ d.lo \in Int /\ d.hi \in Int
              /\ d.lo <= From(u) /\ job[u].hi <= d.hi
              /\ Live \ {d} \subseteq Live' \union {c \in Live : c.part = "left"}
              /\ d \in Live' \/ (SortLeaf(u) /\ d = job[u])
<1>1. /\ u \in Thread /\ s \in Sort /\ PlaceFits(u) /\ job[u].part \in {"impl", "left"}
      /\ job[u].lo \in Int /\ job[u].hi \in Int
      /\ job[u] \in Live /\ From(u) \in Int /\ job[u].lo <= From(u)
  BY RangeOf, FromFits, JobFits DEF Fits, PlacesFit
<1>2. /\ SortLeaf(u) \/ PartitionLeftHalf(u) => Live' = Live \ {job[u]}
      /\ ~(SortLeaf(u) \/ PartitionLeftHalf(u)) => Live' = Live
  BY <1>1, LeavesLive, LocalLive DEF Writes, Leaves
<1>3. CASE job[u].part = "impl"
  <2>1. ~PartitionLeftHalf(u)
    BY <1>1, <1>3 DEF PartitionLeftHalf, PlaceFits
  <2>2. job[u].hi <= job[u].hi
    BY <1>1
  <2> QED BY <1>1, <1>2, <1>3, <2>1, <2>2
<1>4. CASE job[u].part = "left"
  <2>1. PartitionLeftHalf(u) /\ job[u] \in LeftHalves
    BY <1>1, <1>4 DEF PlaceFits, Writes, PartitionAlone, MustPartition, PartitionRightHalf, MergeHalves,
       SortLeaf, LeftHalves
  <2>2. PICK t \in Joiners : job[u] = LeftHalf(t)
    BY <2>1 DEF Counts
  <2>3. t \in Running /\ t \in Thread /\ pc[t] \in {"right", "joining"} /\ Call(t) = job[t]
    BY DEF Joiners, Running, Call
  <2>4. job[t] \in Live /\ job[t].part = "impl" /\ job[t].sort = s
    BY <2>2, <2>3, JobFits DEF Live, Fits, PlacesFit, PlaceFits, LeftHalf, LeftTask
  <2>5. /\ job[t].lo \in Int /\ job[t].hi \in Int
        /\ job[t].lo = job[u].lo /\ job[u].hi <= job[t].hi
    <3>1. Size(t) >= MinParallel
      BY <2>3 DEF Fits, PlacesFit, PlaceFits
    <3>2. job[t].lo \in Int /\ job[t].hi \in Int /\ Halfway(t) <= job[t].hi
      BY <2>3, <3>1, RangeOf
    <3> QED BY <2>2, <3>2 DEF LeftHalf, LeftTask
  <2>6. job[t] \in Live' /\ Live \ {job[t]} \subseteq Live' \union {c \in Live : c.part = "left"}
    BY <1>1, <1>2, <1>4, <2>1, <2>4
  <2> QED BY <1>1, <2>4, <2>5, <2>6
<1> QED BY <1>1, <1>3, <1>4

LEMMA ShuffledPair ==
    ASSUME NEW a \in Seq(Element), NEW b, NEW lo \in Int, NEW hi \in Int, NEW f, Shuffles(a, b, lo, hi, f),
           NEW d, d.lo \in Int, d.hi \in Int, d.lo <= lo, hi <= d.hi,
           NEW i \in DOMAIN a, NEW j \in DOMAIN a, i < j, ~(Holds(d, i) /\ Holds(d, j))
    PROVE  /\ f[i] \in DOMAIN a /\ f[j] \in DOMAIN a /\ f[i] < f[j]
           /\ b[i] = a[f[i]] /\ b[j] = a[f[j]]
           /\ ~(Holds(d, f[i]) /\ Holds(d, f[j]))
           /\ ~Holds(d, f[i]) /\ ~Holds(d, f[j]) => f[i] = i /\ f[j] = j
<1>0. DOMAIN a = 1 .. Len(a) /\ Len(a) \in Nat
  OBVIOUS
<1>1. ASSUME NEW k \in DOMAIN a
      PROVE  /\ f[k] \in DOMAIN a /\ b[k] = a[f[k]]
             /\ Holds(d, k) => Holds(d, f[k])
             /\ ~Holds(d, k) => f[k] = k
  <2>1. f \in [DOMAIN a -> DOMAIN a] /\ DOMAIN f = DOMAIN a
    BY BijectionOn DEF Shuffles
  <2>2. b[k] = a[f[k]]
    BY <2>1 DEF Shuffles, Rearranged
  <2>3. IF k \in lo .. hi - 1 THEN f[k] \in lo .. hi - 1 ELSE f[k] = k
    BY DEF Shuffles
  <2>4. k \in Int /\ f[k] \in Int
    BY <1>0, <2>1
  <2>5. CASE k \in lo .. hi - 1
    BY <2>3, <2>4, <2>5, <2>1, <2>2 DEF Holds
  <2>6. CASE k \notin lo .. hi - 1
    BY <2>1, <2>2, <2>3, <2>6
  <2> QED BY <2>5, <2>6
<1>2. /\ f[i] \in DOMAIN a /\ b[i] = a[f[i]] /\ (Holds(d, i) => Holds(d, f[i])) /\ (~Holds(d, i) => f[i] = i)
      /\ f[j] \in DOMAIN a /\ b[j] = a[f[j]] /\ (Holds(d, j) => Holds(d, f[j])) /\ (~Holds(d, j) => f[j] = j)
  BY <1>1
<1>3. i \in Int /\ j \in Int /\ f[i] \in Int /\ f[j] \in Int
  BY <1>0, <1>2
<1>4. CASE Holds(d, i) /\ ~Holds(d, j)
  <2>1. d.hi <= j
    BY <1>3, <1>4 DEF Holds
  <2>2. f[i] < d.hi
    BY <1>2, <1>4 DEF Holds
  <2> QED BY <1>2, <1>3, <1>4, <2>1, <2>2
<1>5. CASE ~Holds(d, i) /\ Holds(d, j)
  <2>1. i < d.lo
    BY <1>3, <1>5 DEF Holds
  <2>2. d.lo <= f[j]
    BY <1>2, <1>5 DEF Holds
  <2> QED BY <1>2, <1>3, <1>5, <2>1, <2>2
<1>6. CASE ~Holds(d, i) /\ ~Holds(d, j)
  BY <1>2, <1>6
<1> QED BY <1>4, <1>5, <1>6

LEMMA StepOrdered == ASSUME Sorting, [Next]_vars PROVE Ordered'
<1>0. /\ Inv /\ Fits /\ Owned /\ Counts /\ HalvesParted /\ Budgets /\ SplitsApart
      /\ Unready /\ Ordered /\ Fits'
  BY StepFits DEF Sorting, Parts, Inv
<1> SUFFICES ASSUME NEW s \in Sort, pc'[s] \notin {"idle", "called"}, ~Failed(s)'
             PROVE  InOrder(s)'
  BY DEF Ordered
<1>1. ~Failed(s) /\ arr[s] \in Seq(Element) /\ DOMAIN arr'[s] = DOMAIN arr[s]
  <2>1. ~Failed(s)
    BY <1>0, FailedStays
  <2>2. arr[s] \in Seq(Element)
    BY <1>0 DEF Fits, TypeOK, Element
  <2>3. DOMAIN arr'[s] = DOMAIN arr[s]
    <3>1. CASE Next
      <4>1. arr'[s] \in Seq(Int \X Int) /\ Len(arr'[s]) = Len(arr[s])
        BY <1>0, <3>1, ArrStep
      <4> QED BY <2>2, <4>1
    <3>2. CASE UNCHANGED vars
      BY <3>2 DEF vars
    <3> QED BY <3>1, <3>2
  <2> QED BY <2>1, <2>2, <2>3
<1>2. CASE pc[s] \in {"idle", "called"}
  <2>1. CASE SortNothing(s)
    <3>1. arr[s] = <<>> /\ arr' = arr
      BY <2>1 DEF SortNothing, data
    <3> QED BY <3>1 DEF InOrder
  <2>2. CASE SetUp(s)
    <3> DEFINE root == QuicksortTask(s, 1, Len(arr[s]) + 1)
    <3>1. root \in Live' /\ root.sort = s /\ root.part = "impl"
      BY <1>0, <2>2, SetUpLive DEF QuicksortTask
    <3>2. \A i \in DOMAIN arr[s] : Holds(root, i)
      <4>1. root.lo = 1 /\ root.hi = Len(arr[s]) + 1
        BY DEF QuicksortTask
      <4>2. DOMAIN arr[s] = 1 .. Len(arr[s]) /\ Len(arr[s]) \in Nat
        BY <1>1
      <4> HIDE DEF root
      <4> QED BY <4>1, <4>2 DEF Holds
    <3> HIDE DEF root
    <3> QED BY <1>1, <3>1, <3>2 DEF InOrder
  <2> QED BY <1>0, <1>2, <2>1, <2>2, StartStep
<1>3. CASE pc[s] \notin {"idle", "called"}
  <2>0. InOrder(s)
    BY <1>0, <1>1, <1>3 DEF Ordered
  <2> SUFFICES ASSUME NEW i \in DOMAIN arr[s], NEW j \in DOMAIN arr[s], i < j
               PROVE  \/ Key(arr'[s][i]) <= Key(arr'[s][j])
                      \/ \E c \in Live' : c.sort = s /\ c.part = "impl" /\ Holds(c, i) /\ Holds(c, j)
    BY <1>1 DEF InOrder
  <2>1. ASSUME NEW u \in Running, SortLeaf(u), job[u].sort = s, Holds(job[u], i), Holds(job[u], j)
        PROVE  Key(arr'[s][i]) <= Key(arr'[s][j])
    <3>1. i \in job[u].lo .. job[u].hi - 1 /\ j \in job[u].lo .. job[u].hi - 1
      <4>1. i \in Int /\ j \in Int
        BY <1>1
      <4>2. job[u].lo \in Int /\ job[u].hi \in Int
        BY <1>0, RangeOf
      <4> QED BY <2>1, <4>1, <4>2 DEF Holds
    <3> QED BY <1>0, <2>1, <3>1, LeafWrites
  <2>2. CASE arr'[s] = arr[s]
    <3>1. CASE Key(arr[s][i]) <= Key(arr[s][j])
      BY <2>2, <3>1
    <3>2. CASE \E c \in Live : c.sort = s /\ c.part = "impl" /\ Holds(c, i) /\ Holds(c, j)
      <4>1. PICK c \in Live : c.sort = s /\ c.part = "impl" /\ Holds(c, i) /\ Holds(c, j)
        BY <3>2
      <4>2. CASE c \in Live'
        BY <4>1, <4>2
      <4>3. ASSUME NEW t \in Running, SpawnFirst(t), c = job[t], First(t) \in Live', Second(t) \in Live'
            PROVE  \/ Key(arr'[s][i]) <= Key(arr'[s][j])
                   \/ \E x \in Live' : x.sort = s /\ x.part = "impl" /\ Holds(x, i) /\ Holds(x, j)
        <5>1. pc[t] = "split" /\ t \in Thread
          BY <4>3 DEF SpawnFirst, Running
        <5>2. /\ job[t].lo \in Nat /\ mid[t] \in Nat /\ job[t].hi \in Nat
              /\ First(t).sort = s /\ First(t).part = "impl" /\ First(t).lo = job[t].lo /\ First(t).hi = mid[t]
              /\ Second(t).sort = s /\ Second(t).part = "impl" /\ Second(t).lo = mid[t] /\ Second(t).hi = job[t].hi
          BY <1>0, <4>1, <4>3, <5>1, ChildrenFit
        <5>3. i \in Int /\ j \in Int /\ job[t].lo <= i /\ i < job[t].hi /\ job[t].lo <= j /\ j < job[t].hi
          BY <1>1, <4>1, <4>3 DEF Holds
        <5>4. CASE j < mid[t]
          <6>1. Holds(First(t), i) /\ Holds(First(t), j)
            BY <5>2, <5>3, <5>4 DEF Holds
          <6> QED BY <4>3, <5>2, <6>1
        <5>5. CASE mid[t] <= i
          <6>1. Holds(Second(t), i) /\ Holds(Second(t), j)
            BY <5>2, <5>3, <5>5 DEF Holds
          <6> QED BY <4>3, <5>2, <6>1
        <5>6. CASE i < mid[t] /\ mid[t] <= j
          <6>1. i \in job[t].lo .. mid[t] - 1 /\ j \in mid[t] .. job[t].hi - 1
            BY <5>2, <5>3, <5>6
          <6>2. Key(arr[s][i]) < Key(arr[s][j])
            BY <1>0, <4>1, <4>3, <5>1, <6>1 DEF SplitsApart
          <6>3. arr[s][i] \in Element /\ arr[s][j] \in Element
            BY <1>1
          <6> QED BY <2>2, <6>2, <6>3, KeyType
        <5> QED BY <5>2, <5>3, <5>4, <5>5, <5>6
      <4>4. ASSUME NEW t \in Running, Leaves(t), c = job[t] PROVE Key(arr'[s][i]) <= Key(arr'[s][j])
        <5>1. CASE SortLeaf(t)
          BY <2>1, <4>1, <4>4, <5>1
        <5>2. CASE Throws(t)
          BY <1>0, <4>1, <4>4, <5>2, ThrowFails
        <5>3. CASE PartitionLeftHalf(t)
          BY <1>0, <4>1, <4>4, <5>3 DEF PartitionLeftHalf, Fits, PlacesFit, PlaceFits, Running
        <5> QED BY <4>4, <5>1, <5>2, <5>3 DEF Leaves, Throws
      <4> QED BY <1>0, <4>1, <4>2, <4>3, <4>4, LiveStep
    <3> QED BY <2>0, <3>1, <3>2 DEF InOrder
  <2>3. CASE arr'[s] # arr[s]
    <3>1. PICK u \in Running : /\ Writes(u) /\ job[u].sort = s
                               /\ \E f : Shuffles(arr[s], arr'[s], From(u), job[u].hi, f)
      BY <1>0, <2>3, WriteStep
    <3>2. PICK f : Shuffles(arr[s], arr'[s], From(u), job[u].hi, f)
      BY <3>1
    <3>3. From(u) \in Int /\ job[u].hi \in Int
      BY <1>0, <3>1, FromFits
    <3>4. PICK d \in Live :
              /\ d.sort = s /\ d.part = "impl" /\ d.lo \in Int /\ d.hi \in Int
              /\ d.lo <= From(u) /\ job[u].hi <= d.hi
              /\ Live \ {d} \subseteq Live' \union {c \in Live : c.part = "left"}
              /\ d \in Live' \/ (SortLeaf(u) /\ d = job[u])
      <4>1. ~(Excess(s) > 0)
        BY <1>1 DEF Failed
      <4> QED BY <1>0, <3>1, <4>1, WriterInside
    <3>5. CASE Holds(d, i) /\ Holds(d, j)
      BY <2>1, <3>1, <3>4, <3>5
    <3>6. CASE ~(Holds(d, i) /\ Holds(d, j))
      <4>1. /\ f[i] \in DOMAIN arr[s] /\ f[j] \in DOMAIN arr[s] /\ f[i] < f[j]
            /\ arr'[s][i] = arr[s][f[i]] /\ arr'[s][j] = arr[s][f[j]]
            /\ ~(Holds(d, f[i]) /\ Holds(d, f[j]))
            /\ ~Holds(d, f[i]) /\ ~Holds(d, f[j]) => f[i] = i /\ f[j] = j
        BY SMTT(30), <1>1, <3>2, <3>3, <3>4, <3>6, ShuffledPair
      <4>2. CASE Key(arr[s][f[i]]) <= Key(arr[s][f[j]])
        BY <4>1, <4>2
      <4>3. ASSUME NEW c \in Live, c.sort = s, c.part = "impl", Holds(c, f[i]), Holds(c, f[j])
            PROVE  c \in Live' /\ Holds(c, i) /\ Holds(c, j)
        <5>1. c # d
          BY <4>1, <4>3
        <5>2. Apart(c, d)
          BY <1>0, <3>4, <4>3, <5>1 DEF Owned, CallsApart
        <5>3. ~Holds(d, f[i]) /\ ~Holds(d, f[j])
          <6>1. f[i] \in Int /\ f[j] \in Int
            BY <1>1, <4>1
          <6>2. c.lo \in Int /\ c.hi \in Int
            BY <1>0, PartsFit
          <6> QED BY <3>4, <4>3, <5>2, <6>1, <6>2 DEF Apart, Holds
        <5>4. c \in Live'
          BY <3>4, <4>3, <5>1
        <5> QED BY <4>1, <4>3, <5>3, <5>4
      <4> QED BY <2>0, <4>1, <4>2, <4>3 DEF InOrder
    <3> QED BY <3>5, <3>6
  <2> QED BY <2>2, <2>3
<1> QED BY <1>2, <1>3

LEMMA StepPermuted == ASSUME Fits, HalvesParted, Budgets, Permuted, [Next]_vars PROVE Permuted'
<1> SUFFICES ASSUME NEW s \in Sort
             PROVE  \E f \in Bijection(DOMAIN call'[s].range, DOMAIN call'[s].range) :
                        arr'[s] = Rearranged(call'[s].range, f) /\ (Stable(s)' => KeepsOrder(arr'[s], f))
  BY DEF Permuted
<1> DEFINE a == call[s].range
<1>1. call'[s] = call[s]
  BY AllowedStep
<1>2. Stable(s)' = Stable(s)
  BY <1>1 DEF Stable
<1>3. PICK f \in Bijection(DOMAIN a, DOMAIN a) : arr[s] = Rearranged(a, f) /\ (Stable(s) => KeepsOrder(arr[s], f))
  BY DEF Permuted
<1>4. arr[s] \in Seq(Element) /\ a \in Seq(Element)
  <2>1. call[s] \in Calls /\ arr[s] \in Seq(Element)
    BY DEF Fits, TypeOK, Element
  <2> QED BY <2>1, SortAssumption DEF SortAssumption, Element
<1>5. CASE arr'[s] = arr[s]
  BY <1>1, <1>2, <1>3, <1>5
<1>6. CASE arr'[s] # arr[s]
  <2>1. PICK u \in Running :
            /\ Writes(u) /\ job[u].sort = s
            /\ \E g : Shuffles(arr[s], arr'[s], From(u), job[u].hi, g) /\ (Stable(s) => KeepsOrder(arr'[s], g))
    BY <1>6, WriteStep
  <2>2. PICK g : Shuffles(arr[s], arr'[s], From(u), job[u].hi, g) /\ (Stable(s) => KeepsOrder(arr'[s], g))
    BY <2>1
  <2>3. From(u) \in Int /\ job[u].hi \in Int
    BY <2>1, FromFits
  <2>4. PICK h \in Bijection(DOMAIN a, DOMAIN a) :
            /\ arr'[s] = Rearranged(a, h)
            /\ KeepsOrder(arr[s], f) /\ KeepsOrder(arr'[s], g) => KeepsOrder(arr'[s], h)
    <3> HIDE DEF a
    <3> QED BY <1>3, <1>4, <2>2, <2>3, ShufflesCompose
  <2> QED BY <1>1, <1>2, <1>3, <2>2, <2>4
<1> QED BY <1>5, <1>6

LEMMA InitSorting == Init => Unready /\ ResultsHold /\ Permuted /\ Ordered
<1> SUFFICES ASSUME Init PROVE Unready /\ ResultsHold /\ Permuted /\ Ordered
  OBVIOUS
<1>1. Running = {} /\ DOMAIN ready = {} /\ \A s \in Sort : got[s] = 0 /\ pc[s] = "idle"
  BY ThreadsApart DEF Init, Running
<1>2. Unready /\ ResultsHold /\ Ordered
  BY <1>1 DEF Unready, ResultsHold, Ordered
<1>3. ASSUME NEW s \in Sort
      PROVE  \E f \in Bijection(DOMAIN call[s].range, DOMAIN call[s].range) :
                 arr[s] = Rearranged(call[s].range, f) /\ (Stable(s) => KeepsOrder(arr[s], f))
  <2> DEFINE a == call[s].range
             f == [i \in DOMAIN a |-> i]
  <2>1. arr[s] = a /\ a \in Seq(Int \X Int)
    BY SortAssumption DEF Init, SortAssumption
  <2>2. f \in Bijection(DOMAIN a, DOMAIN a)
    <3>1. /\ f \in [DOMAIN a -> DOMAIN a]
          /\ \A x, y \in DOMAIN a : f[x] = f[y] => x = y
          /\ \A y \in DOMAIN a : \E x \in DOMAIN a : f[x] = y
      OBVIOUS
    <3> HIDE DEF a, f
    <3> QED BY <3>1, BijectionOn
  <2>3. a = Rearranged(a, f)
    <3>1. Rearranged(a, f) = [i \in DOMAIN a |-> a[i]]
      BY DEF Rearranged
    <3> HIDE DEF f
    <3> QED BY <2>1, <3>1
  <2>4. KeepsOrder(arr[s], f)
    BY <2>1 DEF KeepsOrder
  <2> HIDE DEF f
  <2> QED BY <2>1, <2>2, <2>3, <2>4
<1> QED BY <1>2, <1>3 DEF Permuted

LEMMA AlwaysSorting == Spec => []Sorting
<1>1. Init => Sorting
  BY InitFits, InitOwned, InitCounts, InitFutures, InitParts, InitSorting DEF Inv, Parts, Sorting
<1>2. Sorting /\ [Next]_vars => Sorting'
  <2> SUFFICES ASSUME Sorting, [Next]_vars PROVE Sorting'
    OBVIOUS
  <2>1. Inv /\ Parts /\ Fits /\ Owned /\ HalvesParted /\ Budgets /\ Unready /\ ResultsHold /\ Permuted
    BY DEF Sorting, Parts, Inv
  <2>2. Inv'
    BY <2>1, StepFits, StepOwned, StepCounts, StepFutures DEF Inv
  <2>3. Parts'
    BY <2>1, <2>2, StepNested, StepFirstSubmitted, StepHalvesParted, StepBudgets, StepSplitsApart DEF Parts
  <2>4. Unready' /\ ResultsHold'
    BY <2>1, StepUnready, StepResultsHold
  <2>5. Permuted' /\ Ordered'
    BY <2>1, StepPermuted, StepOrdered
  <2> QED BY <2>3, <2>4, <2>5 DEF Sorting
<1> QED BY <1>1, <1>2, PTL DEF Spec

LEMMA ReturnedSorted ==
    ASSUME Sorting, NEW s \in Sort, pc[s] = "returned"
    PROVE  \A i, j \in DOMAIN arr[s] : i < j => Key(arr[s][i]) <= Key(arr[s][j])
<1>0. Inv /\ Fits /\ Owned /\ Counts /\ FuturesHold /\ ResultsHold /\ Ordered
  BY DEF Sorting, Parts, Inv
<1>1. ~Failed(s)
  <2>1. inflight[s] = 0
    BY <1>0 DEF Counts
  <2>2. ~(Excess(s) > 0)
    <3>1. Excess(s) = 0
      BY <1>0, <2>1, NothingCounted
    <3> QED BY <3>1
  <2>3. ASSUME NEW c \in DOMAIN ready, c.sort = s, c.part = "impl" PROVE ready[c].ok
    <3>1. futures[s] \in Seq(TaskType) /\ got[s] = Len(futures[s])
      BY <1>0 DEF Fits, TypeOK, FuturesHold
    <3>2. c \in InFutures(s)
      BY <1>0, <2>3 DEF ResultsHold
    <3>3. PICK i \in 1 .. got[s] : c = futures[s][i]
      BY <3>1, <3>2 DEF InFutures
    <3> QED BY <1>0, <3>3 DEF ResultsHold
  <2> QED BY <2>2, <2>3 DEF Failed
<1>2. ASSUME NEW c \in Live PROVE c.sort # s
  <2>1. /\ \A i \in DOMAIN queue : queue[i].sort # s
        /\ \A t \in Thread : job[t] # NoTask => job[t].sort # s
    BY <1>0, NothingLeft DEF ReturnsClean
  <2> QED BY <2>1 DEF Live, InQueue, Running, Call, QuicksortTask
<1>3. InOrder(s)
  BY <1>0, <1>1 DEF Ordered
<1> QED BY <1>2, <1>3 DEF InOrder

\* What was sorted in parts, by whichever threads and in whatever order they came to it, is
\* sorted when std::sort, stable_sort or pluggable_quicksort returns: the range holds the
\* elements it was given, in order, and after stable_sort those that comp finds equivalent in
\* the order they were given in.
THEOREM SortsWhatItWasGiven == Spec => []SortedOnReturn
<1>1. ASSUME Sorting, NEW s \in Sort, pc[s] = "returned", NEW n, n = Len(call[s].range)
      PROVE  \E f \in Orders[<<1, n + 1>>] :
                /\ arr[s] = Rearranged(call[s].range, f)
                /\ \A i, j \in 1 .. n : i < j =>
                      \/ Key(arr[s][i]) < Key(arr[s][j])
                      \/ Key(arr[s][i]) = Key(arr[s][j]) /\ (Stable(s) => f[i] < f[j])
  <2>1. Fits /\ Permuted
    BY <1>1 DEF Sorting, Parts, Inv
  <2>2. arr[s] \in Seq(Element) /\ n = Len(arr[s]) /\ n \in Nat /\ DOMAIN arr[s] = 1 .. n
    <3>1. arr[s] \in Seq(Element) /\ Len(arr[s]) = Len(call[s].range)
      BY <2>1 DEF Fits, TypeOK, LengthsKept, Element
    <3> QED BY <1>1, <3>1
  <2>3. DOMAIN call[s].range = 1 .. n
    <3>1. call[s].range \in Seq(Int \X Int)
      BY <2>1, SortAssumption DEF SortAssumption, Fits, TypeOK
    <3> QED BY <1>1, <3>1
  <2>4. PICK f \in Bijection(1 .. n, 1 .. n) :
            arr[s] = Rearranged(call[s].range, f) /\ (Stable(s) => KeepsOrder(arr[s], f))
    BY <2>1, <2>3 DEF Permuted
  <2>5. f \in Orders[<<1, n + 1>>]
    <3>1. <<1, n + 1>> \in Spans
      <4>1. 1 \in 1 .. Len(arr[s]) + 1 /\ n + 1 \in 1 .. Len(arr[s]) + 1
        BY <2>2
      <4> QED BY <2>1, <4>1, SpanFits
    <3>2. (n + 1) - 1 = n
      BY <2>2
    <3>3. Orders[<<1, n + 1>>] = Bijection(1 .. n, 1 .. n)
      BY <3>1, <3>2 DEF Orders
    <3> QED BY <2>4, <3>3
  <2>6. ASSUME NEW i \in 1 .. n, NEW j \in 1 .. n, i < j
        PROVE  \/ Key(arr[s][i]) < Key(arr[s][j])
               \/ Key(arr[s][i]) = Key(arr[s][j]) /\ (Stable(s) => f[i] < f[j])
    <3>1. Key(arr[s][i]) <= Key(arr[s][j])
      BY <1>1, <2>2, <2>6, ReturnedSorted
    <3>2. Key(arr[s][i]) \in Int /\ Key(arr[s][j]) \in Int
      <4>1. arr[s][i] \in Element /\ arr[s][j] \in Element
        BY <2>2
      <4> QED BY <4>1, KeyType
    <3>3. Key(arr[s][i]) = Key(arr[s][j]) /\ Stable(s) => f[i] < f[j]
      BY <2>2, <2>4, <2>6 DEF KeepsOrder
    <3> QED BY <3>1, <3>2, <3>3
  <2> QED BY <2>4, <2>5, <2>6
<1>2. Sorting => SortedOnReturn
  BY <1>1 DEF SortedOnReturn
<1> QED BY <1>2, AlwaysSorting, PTL
=============================================================================
