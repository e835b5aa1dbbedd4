------------------------ MODULE ChunkedResults_proofs ------------------------
(* Proofs about what the chunked algorithms compute: Mergesort and Numeric. *)
EXTENDS ChunkedAlgorithms_proofs

(***************************************************************************)
(* The mergesort: what m holds in the first range, with k the keys.        *)
(***************************************************************************)
\* Where the element at position p came from.
Origin(m, p) == m[<<"first1", p>>][1][2]

\* m holds every element of the range of length l once.
Shuffled(m, l) ==
    /\ \A p \in 0 .. l - 1 : /\ Origin(m, p) \in 0 .. l - 1
                             /\ m[<<"first1", p>>] = <<<<"first1", Origin(m, p)>>>>
    /\ \A p, q \in 0 .. l - 1 : p # q => Origin(m, p) # Origin(m, q)
    /\ \A q \in 0 .. l - 1 : \E p \in 0 .. l - 1 : Origin(m, p) = q

Raw(m, lo, hi) == \A p \in lo .. hi - 1 : Origin(m, p) = p

Own(m, lo, hi) == \A p \in lo .. hi - 1 : Origin(m, p) \in lo .. hi - 1

InOrder(m, k, lo, hi) ==
    \A p, q \in lo .. hi - 1 : p < q => k[Origin(m, p)] <= k[Origin(m, q)]

\* Elements with equal keys are as they came.
AsTheyCame(m, k, lo, hi) ==
    \A p, q \in lo .. hi - 1 :
        p < q /\ k[Origin(m, p)] = k[Origin(m, q)] => Origin(m, p) < Origin(m, q)

IsStable == algorithm = "stable_mergesort"

\* The elements of [lo, hi) are in it, sorted, and stably if stable.
Piece(m, k, stable, lo, hi) ==
    /\ InOrder(m, k, lo, hi)
    /\ Own(m, lo, hi)
    /\ stable => AsTheyCame(m, k, lo, hi)

\* What a task that is over has sorted is sorted, what a task has yet to sort is as it was,
\* and what it has yet to merge is two sorted pieces.
FutureFits(m, k, stable, t) ==
    /\ t.state = "ready" => Piece(m, k, stable, t.first, t.last)
    /\ t.state # "ready" /\ t.part = "chunk" => Raw(m, t.first, t.last)
    /\ t.state # "ready" /\ t.part = "merge" => /\ t.mid \in t.first .. t.last
                                               /\ Piece(m, k, stable, t.first, t.mid)
                                               /\ Piece(m, k, stable, t.mid, t.last)

PiecesSorted ==
    Mergesort =>
        /\ Shuffled(mem, n)
        /\ caller # "returned" => Raw(mem, first, n)
        /\ caller = "returned" => Piece(mem, key, IsStable, 0, n)
        /\ \A f \in DOMAIN futures : FutureFits(mem, key, IsStable, futures[f])
        /\ caller = "merging" =>
              \A k \in DOMAIN ranges :
                 k >= i => Piece(mem, key, IsStable, ranges[k][1], ranges[k][2])

-----------------------------------------------------------------------------
\* What permuting the elements of [lo, hi) makes of them.
LEMMA Arranged ==
    ASSUME TypeOK, Shuffled(mem, n), NEW lo \in 0 .. n, NEW hi \in lo .. n,
           NEW m \in Arrangements(lo, hi)
    PROVE  \E f \in Bijection(lo .. hi - 1, lo .. hi - 1) :
              /\ \A p \in lo .. hi - 1 : /\ m[<<"first1", p>>] = mem[<<"first1", f[p]>>]
                                         /\ Written(m)[<<"first1", p>>] = mem[<<"first1", f[p]>>]
              /\ \A p \in 0 .. n - 1 : p \notin lo .. hi - 1 =>
                    Written(m)[<<"first1", p>>] = mem[<<"first1", p>>]
<1>0. n \in Nat /\ n \in Lengths /\ mem \in [Cell -> Words]
  BY InputFits
<1>1. PICK f \in Orders[<<lo, hi>>] :
          m = [c \in Span("first1", lo, hi - lo) |-> mem[<<"first1", f[c[2]]>>]]
  BY DEF Arrangements
<1>2. <<lo, hi>> \in UNION {(0 .. l) \X (0 .. l) : l \in Lengths}
  <2>1. <<lo, hi>> \in (0 .. n) \X (0 .. n)
    BY <1>0
  <2> QED BY <1>0, <2>1
<1>3. f \in Bijection(lo .. hi - 1, lo .. hi - 1)
  BY <1>1, <1>2 DEF Orders
<1>4. \A p : <<"first1", p>> \in Span("first1", lo, hi - lo) <=> p \in lo .. hi - 1
  <2>1. lo + (hi - lo) - 1 = hi - 1
    BY <1>0
  <2> QED BY <2>1 DEF Span
<1>5. \A p \in lo .. hi - 1 : m[<<"first1", p>>] = mem[<<"first1", f[p]>>]
  BY <1>1, <1>4
<1>6. \A p \in 0 .. n - 1 : /\ <<"first1", p>> \in Cell
                            /\ <<"first1", p>> \in DOMAIN m <=> p \in lo .. hi - 1
  BY <1>1, <1>4, CellAt DEF Buffer
<1>7. \A p \in 0 .. n - 1 : Written(m)[<<"first1", p>>] =
                               IF p \in lo .. hi - 1 THEN m[<<"first1", p>>]
                               ELSE mem[<<"first1", p>>]
  BY <1>6 DEF Written
<1>8. \A p \in lo .. hi - 1 : p \in 0 .. n - 1
  BY <1>0
<1> QED BY <1>3, <1>5, <1>7, <1>8

LEMMA BijectionIs ==
    ASSUME NEW S, NEW f \in Bijection(S, S)
    PROVE  /\ \A p \in S : f[p] \in S
           /\ \A p, q \in S : p # q => f[p] # f[q]
           /\ \A q \in S : \E p \in S : f[p] = q
<1>1. f \in Injection(S, S) /\ f \in Surjection(S, S)
  BY DEF Bijection
<1>2. f \in [S -> S] /\ \A p, q \in S : p # q => f[p] # f[q]
  BY <1>1 DEF Injection, IsInjective
<1>3. \A q \in S : \E p \in S : f[p] = q
  BY <1>1 DEF Surjection
<1> QED BY <1>2, <1>3

\* What holds of the elements of a span depends on nothing else.
LEMMA SamePiece ==
    ASSUME NEW m, NEW w, NEW k, NEW stable, NEW lo \in Int, NEW hi \in Int,
           \A p \in lo .. hi - 1 : w[<<"first1", p>>] = m[<<"first1", p>>]
    PROVE  /\ Raw(m, lo, hi) => Raw(w, lo, hi)
           /\ Piece(m, k, stable, lo, hi) => Piece(w, k, stable, lo, hi)
<1>1. \A p \in lo .. hi - 1 : Origin(w, p) = Origin(m, p)
  BY DEF Origin
<1>2. Raw(m, lo, hi) => Raw(w, lo, hi)
  BY <1>1 DEF Raw
<1>3. InOrder(m, k, lo, hi) => InOrder(w, k, lo, hi)
  BY <1>1 DEF InOrder
<1>4. Own(m, lo, hi) => Own(w, lo, hi)
  BY <1>1 DEF Own
<1>5. AsTheyCame(m, k, lo, hi) => AsTheyCame(w, k, lo, hi)
  BY <1>1 DEF AsTheyCame
<1> QED BY <1>2, <1>3, <1>4, <1>5 DEF Piece

LEMMA ShuffledKept ==
    ASSUME TypeOK, Shuffled(mem, n), NEW lo \in 0 .. n, NEW hi \in lo .. n,
           NEW m \in Arrangements(lo, hi)
    PROVE  Shuffled(Written(m), n)
<1>0. n \in Nat
  BY InputFits
<1> DEFINE S == lo .. hi - 1
           w == Written(m)
<1>1. PICK f \in Bijection(S, S) :
              /\ \A p \in S : w[<<"first1", p>>] = mem[<<"first1", f[p]>>]
              /\ \A p \in 0 .. n - 1 : p \notin S => w[<<"first1", p>>] = mem[<<"first1", p>>]
  BY Arranged
<1> DEFINE from(p) == IF p \in S THEN f[p] ELSE p
<1>2. S \subseteq 0 .. n - 1
  BY <1>0
<1> HIDE DEF w, S
<1>3. /\ \A p \in S : f[p] \in S
      /\ \A p, q \in S : p # q => f[p] # f[q]
      /\ \A q \in S : \E p \in S : f[p] = q
  BY BijectionIs
<1>4. \A p \in 0 .. n - 1 : from(p) \in 0 .. n - 1 /\ w[<<"first1", p>>] = mem[<<"first1", from(p)>>]
  BY <1>1, <1>2, <1>3
<1>5. \A p, q \in 0 .. n - 1 : p # q => from(p) # from(q)
  BY <1>3
<1>6. \A q \in 0 .. n - 1 : \E p \in 0 .. n - 1 : from(p) = q
  <2> TAKE q \in 0 .. n - 1
  <2>1. CASE q \in S
    <3>1. PICK p \in S : f[p] = q
      BY <1>3, <2>1
    <3> QED BY <1>2, <3>1
  <2>2. CASE q \notin S
    BY <2>2
  <2> QED BY <2>1, <2>2
<1>7. \A p \in 0 .. n - 1 : Origin(w, p) = Origin(mem, from(p))
  BY <1>4 DEF Origin
<1> HIDE DEF from
<1>8. \A p \in 0 .. n - 1 : /\ Origin(w, p) \in 0 .. n - 1
                            /\ w[<<"first1", p>>] = <<<<"first1", Origin(w, p)>>>>
  BY <1>4, <1>7 DEF Shuffled
<1>9. \A p, q \in 0 .. n - 1 : p # q => Origin(w, p) # Origin(w, q)
  <2> TAKE p, q \in 0 .. n - 1
  <2> HAVE p # q
  <2>1. from(p) # from(q) /\ from(p) \in 0 .. n - 1 /\ from(q) \in 0 .. n - 1
    BY <1>4, <1>5
  <2>2. Origin(mem, from(p)) # Origin(mem, from(q))
    BY <2>1 DEF Shuffled
  <2> QED BY <1>7, <2>2
<1>10. ASSUME NEW q \in 0 .. n - 1 PROVE \E p \in 0 .. n - 1 : Origin(w, p) = q
  <2>1. PICK r \in 0 .. n - 1 : Origin(mem, r) = q
    BY DEF Shuffled
  <2>2. PICK p \in 0 .. n - 1 : from(p) = r
    BY <1>6
  <2>3. Origin(w, p) = q
    BY <1>7, <2>1, <2>2
  <2> QED BY <2>3
<1>11. Shuffled(w, n)
  BY <1>8, <1>9, <1>10 DEF Shuffled
<1> QED BY <1>11 DEF w

\* Permuted among themselves, sorted, and stably when they have to be.
LEMMA PieceArranged ==
    ASSUME TypeOK, Shuffled(mem, n), NEW lo \in 0 .. n, NEW hi \in lo .. n,
           NEW m \in Arrangements(lo, hi), NEW stable \in BOOLEAN,
           Own(mem, lo, hi), SortedIn(m, lo, hi),
           stable => StableIn(m, lo, hi) /\ AsTheyCame(mem, key, lo, hi)
    PROVE  Piece(Written(m), key, stable, lo, hi)
<1>0. n \in Nat
  BY InputFits
<1> DEFINE S == lo .. hi - 1
           w == Written(m)
<1>1. PICK f \in Bijection(S, S) :
              \A p \in S : /\ m[<<"first1", p>>] = mem[<<"first1", f[p]>>]
                           /\ w[<<"first1", p>>] = mem[<<"first1", f[p]>>]
  BY Arranged
<1>2. S \subseteq 0 .. n - 1 /\ S \subseteq Int
  BY <1>0
<1> HIDE DEF w
<1>3. /\ \A p \in S : f[p] \in S
      /\ \A p, q \in S : p # q => f[p] # f[q]
  <2> HIDE DEF S
  <2> QED BY ONLY f \in Bijection(S, S), BijectionIs
<1>4. \A p \in S : Origin(w, p) = Origin(mem, f[p]) /\ Origin(m, p) = Origin(mem, f[p])
  BY <1>1 DEF Origin
<1>5. InOrder(w, key, lo, hi)
  <2> SUFFICES ASSUME NEW p \in S, NEW q \in S, p < q
               PROVE  key[Origin(w, p)] <= key[Origin(w, q)]
    BY DEF InOrder
  <2>1. KeyAt(m, p) <= KeyAt(m, q)
    BY DEF SortedIn
  <2> QED BY <1>4, <2>1 DEF KeyAt, Origin
<1>6. Own(w, lo, hi)
  BY <1>3, <1>4 DEF Own
<1>7. ASSUME stable PROVE AsTheyCame(w, key, lo, hi)
  <2> SUFFICES ASSUME NEW p \in S, NEW q \in S, p < q, key[Origin(w, p)] = key[Origin(w, q)]
               PROVE  Origin(w, p) < Origin(w, q)
    BY DEF AsTheyCame
  <2>1. \A x \in S : PlaceIn(m, f[x], lo, hi) = x
    <3> TAKE x \in S
    <3>1. ASSUME NEW y \in S, m[<<"first1", y>>] = mem[<<"first1", f[x]>>] PROVE y = x
      <4>1. mem[<<"first1", f[y]>>] = mem[<<"first1", f[x]>>]
        BY <1>1, <3>1
      <4>2. Origin(mem, f[y]) = Origin(mem, f[x]) /\ f[y] \in 0 .. n - 1 /\ f[x] \in 0 .. n - 1
        BY <1>2, <1>3, <4>1 DEF Origin
      <4>3. f[y] = f[x]
        BY <4>2 DEF Shuffled
      <4> QED BY <1>3, <4>3
    <3>2. m[<<"first1", x>>] = mem[<<"first1", f[x]>>]
      BY <1>1
    <3> QED BY <3>1, <3>2 DEF PlaceIn
  <2>2. f[p] \in S /\ f[q] \in S /\ f[p] # f[q] /\ p \in Int /\ q \in Int
        /\ f[p] \in Int /\ f[q] \in Int
    BY <1>2, <1>3
  <2>3. key[Origin(mem, f[p])] = key[Origin(mem, f[q])]
    BY <1>4
  <2>4. f[p] < f[q]
    <3> SUFFICES ASSUME f[q] < f[p] PROVE FALSE
      BY <2>2
    <3>1. KeyAt(mem, f[q]) = KeyAt(mem, f[p])
      BY <2>3 DEF KeyAt, Origin
    <3>2. PlaceIn(m, f[q], lo, hi) < PlaceIn(m, f[p], lo, hi)
      BY <1>7, <2>2, <3>1 DEF StableIn
    <3>3. q < p
      BY <2>1, <3>2
    <3> QED BY <2>2, <3>3
  <2>5. Origin(mem, f[p]) < Origin(mem, f[q])
    BY <1>7, <2>2, <2>3, <2>4 DEF AsTheyCame
  <2> QED BY <1>4, <2>5
<1>8. Piece(w, key, stable, lo, hi)
  BY <1>5, <1>6, <1>7 DEF Piece
<1> QED BY <1>8 DEF w

\* A chunk's sort, and the sort of a whole range.
LEMMA Sorts ==
    ASSUME TypeOK, Shuffled(mem, n), NEW t, t.first \in 0 .. n, t.last \in t.first .. n,
           Raw(mem, t.first, t.last), NEW m \in SortEffects(t)
    PROVE  Piece(Written(m), key, IsStable, t.first, t.last)
<1>1. /\ m \in Arrangements(t.first, t.last) /\ SortedIn(m, t.first, t.last)
      /\ IsStable => StableIn(m, t.first, t.last)
  BY DEF SortEffects, IsStable
<1>2. Own(mem, t.first, t.last) /\ AsTheyCame(mem, key, t.first, t.last)
  BY DEF Raw, Own, AsTheyCame
<1>3. IsStable \in BOOLEAN
  BY DEF IsStable
<1> QED BY <1>1, <1>2, <1>3, PieceArranged

\* A merge of two neighbouring sorted pieces.
LEMMA Merges ==
    ASSUME TypeOK, Shuffled(mem, n), NEW t, t.first \in 0 .. n, t.last \in t.first .. n,
           t.mid \in t.first .. t.last,
           Piece(mem, key, IsStable, t.first, t.mid), Piece(mem, key, IsStable, t.mid, t.last),
           NEW m \in MergeEffects(t)
    PROVE  Piece(Written(m), key, IsStable, t.first, t.last)
<1>0. n \in Nat /\ t.first \in Int /\ t.last \in Int /\ t.mid \in Int
  BY InputFits
<1>1. SortedIn(mem, t.first, t.mid) /\ SortedIn(mem, t.mid, t.last)
  BY DEF Piece, InOrder, SortedIn, KeyAt, Origin
<1>2. m \in Arrangements(t.first, t.last) /\ SortedIn(m, t.first, t.last)
      /\ StableIn(m, t.first, t.last)
  BY <1>1 DEF MergeEffects
<1>3. \A p \in t.first .. t.last - 1 : p \in t.first .. t.mid - 1 \/ p \in t.mid .. t.last - 1
  BY <1>0
<1>4. Own(mem, t.first, t.last)
  <2> SUFFICES ASSUME NEW p \in t.first .. t.last - 1
               PROVE  Origin(mem, p) \in t.first .. t.last - 1
    BY DEF Own
  <2>1. Origin(mem, p) \in t.first .. t.mid - 1 \/ Origin(mem, p) \in t.mid .. t.last - 1
    BY <1>3 DEF Piece, Own
  <2> QED BY <1>0, <2>1
<1>5. ASSUME IsStable PROVE AsTheyCame(mem, key, t.first, t.last)
  <2> SUFFICES ASSUME NEW p \in t.first .. t.last - 1, NEW q \in t.first .. t.last - 1,
                      p < q, key[Origin(mem, p)] = key[Origin(mem, q)]
               PROVE  Origin(mem, p) < Origin(mem, q)
    BY DEF AsTheyCame
  <2>1. AsTheyCame(mem, key, t.first, t.mid) /\ AsTheyCame(mem, key, t.mid, t.last)
    BY <1>5 DEF Piece
  <2>2. CASE p \in t.first .. t.mid - 1 /\ q \in t.first .. t.mid - 1
    BY <2>1, <2>2 DEF AsTheyCame
  <2>3. CASE p \in t.mid .. t.last - 1 /\ q \in t.mid .. t.last - 1
    BY <2>1, <2>3 DEF AsTheyCame
  <2>4. CASE p \in t.first .. t.mid - 1 /\ q \in t.mid .. t.last - 1
    <3>1. Origin(mem, p) \in t.first .. t.mid - 1 /\ Origin(mem, q) \in t.mid .. t.last - 1
      BY <2>4 DEF Piece, Own
    <3> QED BY <1>0, <3>1
  <2>5. ~(p \in t.mid .. t.last - 1 /\ q \in t.first .. t.mid - 1)
    BY <1>0
  <2> QED BY <1>3, <2>2, <2>3, <2>4, <2>5
<1>6. IsStable \in BOOLEAN
  BY DEF IsStable
<1> QED BY <1>2, <1>4, <1>5, <1>6, PieceArranged

-----------------------------------------------------------------------------
LEMMA PiecesInit == Init => PiecesSorted
<1> SUFFICES ASSUME Init, Mergesort PROVE PiecesSorted
  BY DEF PiecesSorted
<1>1. /\ mem = Given /\ futures = <<>> /\ DOMAIN futures = {} /\ caller = "called" /\ first = 0
  BY DEF Init
<1>2. \A p \in 0 .. n - 1 : mem[<<"first1", p>>] = <<<<"first1", p>>>>
  <2> TAKE p \in 0 .. n - 1
  <2>1. <<"first1", p>> \in Cell
    BY CellAt DEF Buffer
  <2> QED BY <1>1, <2>1 DEF Given
<1>3. \A p \in 0 .. n - 1 : Origin(mem, p) = p
  <2> TAKE p \in 0 .. n - 1
  <2>1. mem[<<"first1", p>>][1] = <<"first1", p>>
    BY <1>2
  <2> QED BY <2>1 DEF Origin
<1>4. Shuffled(mem, n)
  BY <1>2, <1>3 DEF Shuffled
<1>5. Raw(mem, first, n)
  BY <1>1, <1>3 DEF Raw
<1> QED BY <1>1, <1>4, <1>5 DEF PiecesSorted

\* A step that leaves the elements alone.
LEMMA PiecesKept ==
    ASSUME Inv, PiecesSorted, Mergesort, UNCHANGED <<input, mem>>,
           caller # "returned" \/ caller' = "returned",
           first' \in Int, first <= first',
           caller' = "returned" => Piece(mem, key, IsStable, 0, n),
           \A f \in DOMAIN futures' : FutureFits(mem, key, IsStable, futures'[f]),
           caller' = "merging" =>
              \A k \in DOMAIN ranges' :
                 k >= i' => Piece(mem, key, IsStable, ranges'[k][1], ranges'[k][2])
    PROVE  PiecesSorted'
<1>1. key' = key /\ n' = n /\ IsStable' = IsStable /\ Mergesort' /\ mem' = mem
  BY DEF input, IsStable, Mergesort
<1>2. Shuffled(mem', n')
  BY <1>1 DEF PiecesSorted
<1>3. caller' # "returned" => Raw(mem', first', n')
  <2> SUFFICES ASSUME caller' # "returned" PROVE Raw(mem, first', n)
    BY <1>1
  <2>1. Raw(mem, first, n) /\ first \in Int /\ n \in Int
    BY Facts DEF PiecesSorted, Inv
  <2>2. \A p \in first' .. n - 1 : p \in first .. n - 1
    BY <2>1
  <2> QED BY <2>1, <2>2 DEF Raw
<1> QED BY <1>1, <1>2, <1>3 DEF PiecesSorted

\* A future's task and the ranges that the round has not come to.
LEMMA RangesApart ==
    ASSUME Inv, caller = "merging", NEW f \in DOMAIN futures, NEW k \in DOMAIN ranges, k >= i
    PROVE  futures[f].last <= ranges[k][1]
<1>1. /\ Tiles(ranges, n) /\ i \in Nat \ {0} /\ Len(ranges) \in Nat
      /\ DOMAIN ranges = 1 .. Len(ranges) /\ n \in Nat
      /\ \A j \in DOMAIN ranges : /\ ranges[j][1] \in 0 .. n /\ ranges[j][2] \in 0 .. n
                                  /\ ranges[j][1] < ranges[j][2]
  BY RangesFacts
<1>2. i \in DOMAIN ranges
  BY <1>1
<1>3. PairedUp = ranges[i][1]
  BY <1>1, <1>2 DEF PairedUp
<1>4. Spans[f][2] <= PairedUp /\ Spans[f][2] = futures[f].last
  <2>1. Tiles(Spans, PairedUp) /\ DOMAIN Spans = DOMAIN futures
    BY SpansType DEF Inv, Shape, ListsFit
  <2> QED BY <2>1, SpansType DEF Tiles, Inv
<1>5. ranges[i][1] <= ranges[k][1]
  <2>1. CASE k = i
    BY <1>1, <1>2, <2>1
  <2>2. CASE i < k
    <3>1. ranges[i][2] <= ranges[k][1]
      BY <1>1, <1>2, <2>2 DEF Tiles
    <3> QED BY <1>1, <1>2, <3>1
  <2>3. k = i \/ i < k
    BY <1>1
  <2> QED BY <2>1, <2>2, <2>3
<1>6. futures[f].last \in Int /\ ranges[i][1] \in Int /\ ranges[k][1] \in Int
  BY <1>1, <1>2, TaskFacts DEF Inv
<1> QED BY <1>3, <1>4, <1>5, <1>6

\* A task sorts or merges its elements.
LEMMA PiecesRun ==
    ASSUME Inv, PiecesSorted, NEW f \in DOMAIN futures, RunSort(f) \/ RunMerge(f)
    PROVE  PiecesSorted'
<1> DEFINE t == futures[f]
<1>1. /\ Mergesort /\ t.state = "running" /\ UNCHANGED <<input, caller, loop, got, lists>>
      /\ futures' = [futures EXCEPT ![f].state = "ready", ![f].value = <<>>]
  BY DEF RunSort, RunMerge, Finish
<1>2. PICK m : /\ mem' = Written(m)
               /\ \/ t.part = "chunk" /\ m \in SortEffects(t)
                  \/ t.part = "merge" /\ m \in MergeEffects(t)
  BY DEF RunSort, RunMerge, Finish
<1>3. /\ t.first \in 0 .. n /\ t.last \in t.first .. n /\ TypeOK /\ n \in Nat /\ t \in TaskRecord
      /\ t.first < t.last
  BY SpanFits, TaskFacts DEF Inv, Typed
<1>4. Shuffled(mem, n) /\ FutureFits(mem, key, IsStable, t)
  BY <1>1 DEF PiecesSorted
<1>5. m \in Arrangements(t.first, t.last)
  BY <1>2 DEF SortEffects, MergeEffects
<1>6. Shuffled(mem', n)
  BY <1>2, <1>3, <1>4, <1>5, ShuffledKept
<1>7. Piece(mem', key, IsStable, t.first, t.last)
  <2>1. CASE t.part = "chunk" /\ m \in SortEffects(t)
    <3>1. Raw(mem, t.first, t.last)
      BY <1>1, <1>4, <2>1 DEF FutureFits
    <3> QED BY <1>2, <1>3, <1>4, <2>1, <3>1, Sorts
  <2>2. CASE t.part = "merge" /\ m \in MergeEffects(t)
    <3>1. /\ t.mid \in t.first .. t.last
          /\ Piece(mem, key, IsStable, t.first, t.mid) /\ Piece(mem, key, IsStable, t.mid, t.last)
      BY <1>1, <1>4, <2>2 DEF FutureFits
    <3> QED BY <1>2, <1>3, <1>4, <2>2, <3>1, Merges
  <2> QED BY <1>2, <2>1, <2>2
<1>8. \A p \in 0 .. n - 1 : p \notin t.first .. t.last - 1 =>
                               mem'[<<"first1", p>>] = mem[<<"first1", p>>]
  BY <1>2, <1>3, <1>4, <1>5, Arranged
<1>9. key' = key /\ n' = n /\ IsStable' = IsStable /\ Mergesort' /\ caller' = caller
      /\ first' = first /\ ranges' = ranges /\ i' = i
  BY <1>1 DEF input, IsStable, Mergesort, loop, lists
<1>10. ASSUME NEW lo \in 0 .. n, NEW hi \in 0 .. n,
              \A p \in lo .. hi - 1 : p \notin t.first .. t.last - 1
       PROVE  /\ Raw(mem, lo, hi) => Raw(mem', lo, hi)
              /\ Piece(mem, key, IsStable, lo, hi) => Piece(mem', key, IsStable, lo, hi)
  <2>1. \A p \in lo .. hi - 1 : mem'[<<"first1", p>>] = mem[<<"first1", p>>]
    <3> TAKE p \in lo .. hi - 1
    <3>1. p \in 0 .. n - 1
      BY <1>3
    <3> QED BY <1>8, <1>10, <3>1
  <2>2. lo \in Int /\ hi \in Int
    OBVIOUS
  <2> QED BY <2>1, <2>2, SamePiece
<1>11. /\ DOMAIN futures' = DOMAIN futures
       /\ futures'[f].state = "ready" /\ futures'[f].first = t.first /\ futures'[f].last = t.last
       /\ \A g \in DOMAIN futures \ {f} : futures'[g] = futures[g]
  BY <1>1, <1>3, Facts DEF Inv, TaskRecord
<1>12. ASSUME NEW g \in DOMAIN futures PROVE FutureFits(mem', key, IsStable, futures'[g])
  <2>1. CASE g = f
    BY <1>7, <1>11, <2>1 DEF FutureFits
  <2>2. CASE g # f
    <3> DEFINE u == futures[g]
    <3>1. /\ u.first \in 0 .. n /\ u.last \in u.first .. n /\ u.last \in 0 .. n /\ u.mid \in 0 .. n
      BY <1>3, SpanFits, TaskFacts DEF Inv
    <3>2. \A p \in u.first .. u.last - 1 : p \notin t.first .. t.last - 1
      BY <2>2, SpansApart
    <3>3. FutureFits(mem, key, IsStable, u) /\ futures'[g] = u
      BY <1>1, <1>11, <2>2 DEF PiecesSorted
    <3> HIDE DEF u, t
    <3>4. /\ Raw(mem, u.first, u.last) => Raw(mem', u.first, u.last)
          /\ Piece(mem, key, IsStable, u.first, u.last)
                => Piece(mem', key, IsStable, u.first, u.last)
      BY <1>10, <3>1, <3>2
    <3>5. ASSUME u.mid \in u.first .. u.last
          PROVE  /\ Piece(mem, key, IsStable, u.first, u.mid)
                       => Piece(mem', key, IsStable, u.first, u.mid)
                 /\ Piece(mem, key, IsStable, u.mid, u.last)
                       => Piece(mem', key, IsStable, u.mid, u.last)
      <4>1. /\ \A p \in u.first .. u.mid - 1 : p \in u.first .. u.last - 1
            /\ \A p \in u.mid .. u.last - 1 : p \in u.first .. u.last - 1
        BY <1>3, <3>1, <3>5
      <4> QED BY <1>10, <3>1, <3>2, <4>1
    <3> QED BY <3>3, <3>4, <3>5 DEF FutureFits
  <2> QED BY <2>1, <2>2
<1>13. caller # "returned"
  BY <1>1 DEF Inv, Shape, GotReady
<1>14. Raw(mem', first, n)
  <2>1. \A p \in first .. n - 1 : p \notin t.first .. t.last - 1
    <3>1. CASE caller \in {"applying", "merging"}
      <4>1. first = n
        BY <3>1 DEF Inv, Shape, StagesFit
      <4> QED BY <1>3, <4>1
    <3>2. CASE caller \notin {"applying", "merging"}
      <4>1. Tiles(Spans, first) /\ DOMAIN Spans = DOMAIN futures /\ Spans[f][2] = t.last
        BY <3>2, SpansType DEF Inv, Shape, ListsFit
      <4>2. t.last <= first
        BY <4>1 DEF Tiles
      <4>3. first \in Int
        BY Facts DEF Inv
      <4> QED BY <1>3, <4>2, <4>3
    <3> QED BY <3>1, <3>2
  <2>2. first \in 0 .. n /\ n \in 0 .. n /\ Raw(mem, first, n)
    BY <1>1, <1>13, Facts DEF Inv, PiecesSorted
  <2> HIDE DEF t
  <2> QED BY <1>10, <2>1, <2>2
<1>15. ASSUME caller = "merging", NEW k \in DOMAIN ranges, k >= i
       PROVE  Piece(mem', key, IsStable, ranges[k][1], ranges[k][2])
  <2>1. ranges[k][1] \in 0 .. n /\ ranges[k][2] \in 0 .. n /\ t.last <= ranges[k][1]
    BY <1>15, RangesFacts, RangesApart
  <2>2. \A p \in ranges[k][1] .. ranges[k][2] - 1 : p \notin t.first .. t.last - 1
    BY <1>3, <2>1
  <2>3. Piece(mem, key, IsStable, ranges[k][1], ranges[k][2])
    BY <1>1, <1>15 DEF PiecesSorted
  <2> HIDE DEF t
  <2> QED BY <1>10, <2>1, <2>2, <2>3
<1> QED BY <1>6, <1>9, <1>11, <1>12, <1>13, <1>14, <1>15 DEF PiecesSorted

\* The step of a task in its future, but for the end of the task.
LEMMA PiecesStart ==
    ASSUME Inv, PiecesSorted, Mergesort, NEW f \in DOMAIN futures, Start(f) \/ Throw(f)
    PROVE  PiecesSorted'
<1>1. /\ UNCHANGED <<input, mem, first, ranges, i>> /\ caller' \in {caller, "terminated"}
      /\ futures[f].state \in {"queued", "running"}
      /\ \/ futures' = [futures EXCEPT ![f].state = "running"]
         \/ futures' = [futures EXCEPT ![f].state = "broken"]
         \/ futures' = futures
  BY DEF Start, Throw, Goto, loop, lists
<1>2. futures[f] \in TaskRecord /\ caller # "returned" /\ first \in Int
  BY <1>1, TaskFacts, Facts DEF Inv, Shape, GotReady
<1>3. /\ DOMAIN futures' = DOMAIN futures /\ futures'[f].state # "ready"
      /\ futures'[f].part = futures[f].part /\ futures'[f].first = futures[f].first
      /\ futures'[f].mid = futures[f].mid /\ futures'[f].last = futures[f].last
      /\ \A g \in DOMAIN futures \ {f} : futures'[g] = futures[g]
  BY <1>1, <1>2 DEF TaskRecord
<1>4. \A g \in DOMAIN futures' : FutureFits(mem, key, IsStable, futures'[g])
  <2> TAKE g \in DOMAIN futures'
  <2>1. FutureFits(mem, key, IsStable, futures[g])
    BY <1>3 DEF PiecesSorted
  <2>2. CASE g = f
    BY <1>1, <1>3, <2>1, <2>2 DEF FutureFits
  <2>3. CASE g # f
    BY <1>3, <2>1, <2>3
  <2> QED BY <2>2, <2>3
<1>5. caller' = "merging" =>
         \A k \in DOMAIN ranges' :
            k >= i' => Piece(mem, key, IsStable, ranges'[k][1], ranges'[k][2])
  BY <1>1 DEF PiecesSorted
<1>6. first' \in Int /\ first <= first' /\ caller' # "returned"
  BY <1>1, <1>2
<1> QED BY <1>1, <1>2, <1>4, <1>5, <1>6, PiecesKept

\* A future is appended.
LEMMA PiecesAppend ==
    ASSUME Inv, PiecesSorted, Mergesort, UNCHANGED <<input, caller, mem, ranges>>,
           caller # "returned", first' \in Int, first <= first',
           NEW t, FutureFits(mem, key, IsStable, t), futures' = Append(futures, t),
           caller = "merging" => i' \in Int /\ i <= i'
    PROVE  PiecesSorted'
<1>1. futures \in Seq(TaskRecord) /\ Len(futures) \in Nat /\ DOMAIN futures = 1 .. Len(futures)
      /\ i \in Int /\ DOMAIN ranges = 1 .. Len(ranges) /\ Len(ranges) \in Nat
  BY Facts DEF Inv
<1>2. \A g \in DOMAIN futures' : FutureFits(mem, key, IsStable, futures'[g])
  <2> TAKE g \in DOMAIN futures'
  <2>1. DOMAIN futures' = 1 .. Len(futures) + 1
    BY <1>1
  <2>2. CASE g = Len(futures) + 1
    <3>1. futures'[g] = t
      BY <1>1, <2>2
    <3> QED BY <3>1
  <2>3. CASE g \in 1 .. Len(futures)
    <3>1. futures'[g] = futures[g]
      BY <1>1, <2>3
    <3> QED BY <1>1, <2>3, <3>1 DEF PiecesSorted
  <2> QED BY <1>1, <2>1, <2>2, <2>3
<1>3. caller' = "merging" =>
         \A k \in DOMAIN ranges' :
            k >= i' => Piece(mem, key, IsStable, ranges'[k][1], ranges'[k][2])
  <2> SUFFICES ASSUME caller = "merging", NEW k \in DOMAIN ranges, k >= i'
               PROVE  Piece(mem, key, IsStable, ranges[k][1], ranges[k][2])
    OBVIOUS
  <2>1. k >= i
    BY <1>1
  <2> QED BY <2>1 DEF PiecesSorted
<1> QED BY <1>2, <1>3, PiecesKept

LEMMA PiecesSubmit == ASSUME Inv, PiecesSorted, SubmitSort PROVE PiecesSorted'
<1> DEFINE e == LoopEnd(first, n, ChunkSize(n, num_threads))
           t == Task("chunk", first, e, e, other, <<>>)
<1>1. /\ Mergesort /\ caller = "chunking" /\ first < n /\ first' = e
      /\ futures' = Append(futures, t)
      /\ UNCHANGED <<input, caller, mem, ranges>>
  BY DEF SubmitSort, SubmitChunk, lists
<1>2. first \in 0 .. n /\ n \in Nat /\ num_threads \in Nat \ {0}
  BY Facts DEF Inv
<1>3. e \in first + 1 .. n
  BY <1>1, <1>2, LoopEndFits
<1> HIDE DEF e
<1>4. Raw(mem, first, n)
  BY <1>1 DEF PiecesSorted
<1>5. Raw(mem, first, e)
  <2>1. \A p \in first .. e - 1 : p \in first .. n - 1
    BY <1>2, <1>3
  <2> QED BY <1>4, <2>1 DEF Raw
<1>6. FutureFits(mem, key, IsStable, t)
  BY <1>5 DEF Task, FutureFits
<1> HIDE DEF t
<1>7. first' \in Int /\ first <= first'
  BY <1>1, <1>2, <1>3
<1> QED BY <1>1, <1>6, <1>7, PiecesAppend

LEMMA PiecesPairUp == ASSUME Inv, PiecesSorted, PairUp \/ ForwardLast PROVE PiecesSorted'
<1>1. /\ Mergesort /\ caller = "merging" /\ UNCHANGED <<input, caller, mem, ranges, first>>
      /\ i <= Len(ranges)
  <2>1. /\ Mergesort /\ caller = "merging" /\ UNCHANGED <<input, caller, mem, ranges, first>>
        /\ i < Len(ranges) \/ i = Len(ranges)
    BY DEF PairUp, ForwardLast, loop
  <2> QED BY <2>1, RangesFacts
<1>2. /\ i \in Nat \ {0} /\ Len(ranges) \in Nat /\ DOMAIN ranges = 1 .. Len(ranges)
      /\ Tiles(ranges, n) /\ i \in DOMAIN ranges /\ n \in Nat
      /\ \A j \in DOMAIN ranges : /\ ranges[j][1] \in 0 .. n /\ ranges[j][2] \in 0 .. n
                                  /\ ranges[j][1] < ranges[j][2]
  BY <1>1, RangesFacts
<1>3. \A k \in DOMAIN ranges : k >= i => Piece(mem, key, IsStable, ranges[k][1], ranges[k][2])
  BY <1>1 DEF PiecesSorted
<1>4. first' \in Int /\ first <= first'
  BY <1>1, Facts DEF Inv
<1>5. CASE PairUp
  <2> DEFINE t == MergeTask(ranges[i], ranges[i + 1])
  <2>1. futures' = Append(futures, t) /\ i' = i + 2 /\ i < Len(ranges)
    BY <1>5 DEF PairUp, NextPair
  <2>2. i + 1 \in DOMAIN ranges /\ i + 1 >= i /\ i \in 1 .. Len(ranges) - 1
    BY <1>2, <2>1
  <2>3. ranges[i][2] = ranges[i + 1][1]
    BY <1>2, <2>2 DEF Tiles
  <2>4. /\ t.state = "queued" /\ t.part = "merge" /\ t.first = ranges[i][1]
        /\ t.mid = ranges[i][2] /\ t.last = ranges[i + 1][2]
    BY DEF MergeTask, Task
  <2>5. t.mid \in t.first .. t.last
    BY <1>2, <2>2, <2>3, <2>4
  <2>6. /\ Piece(mem, key, IsStable, ranges[i][1], ranges[i][2])
        /\ Piece(mem, key, IsStable, ranges[i + 1][1], ranges[i + 1][2])
    BY <1>2, <1>3, <2>2
  <2>7. FutureFits(mem, key, IsStable, t)
    BY <2>3, <2>4, <2>5, <2>6 DEF FutureFits
  <2> HIDE DEF t
  <2>8. i' \in Int /\ i <= i'
    BY <1>2, <2>1
  <2> QED BY <1>1, <1>4, <2>1, <2>7, <2>8, PiecesAppend
<1>6. CASE ForwardLast
  <2> DEFINE t == [Task("forwarded", ranges[i][1], ranges[i][2], ranges[i][2], 0, <<>>)
                      EXCEPT !.state = "ready"]
  <2>1. futures' = Append(futures, t) /\ i' = i + 1
    BY <1>6 DEF ForwardLast
  <2>2. t.state = "ready" /\ t.first = ranges[i][1] /\ t.last = ranges[i][2]
    BY DEF Task
  <2>3. Piece(mem, key, IsStable, ranges[i][1], ranges[i][2])
    BY <1>2, <1>3
  <2>4. FutureFits(mem, key, IsStable, t)
    BY <2>2, <2>3 DEF FutureFits
  <2> HIDE DEF t
  <2>5. i' \in Int /\ i <= i'
    BY <1>2, <2>1
  <2> QED BY <1>1, <1>4, <2>1, <2>4, <2>5, PiecesAppend
<1> QED BY <1>5, <1>6

\* The futures of a round are all got, and its pieces are the ranges of the next.
LEMMA PiecesBeginRound == ASSUME Inv, PiecesSorted, BeginRound PROVE PiecesSorted'
<1>1. /\ Mergesort /\ caller \in {"getting", "joining"} /\ got = Len(futures)
      /\ caller' = "merging" /\ futures' = <<>> /\ i' = 1
      /\ UNCHANGED <<input, mem, ranges, first>>
  BY DEF BeginRound, Gathered, ClearedTo, loop
<1>2. /\ Len(ranges) = Len(futures) /\ \A k \in DOMAIN ranges : ranges[k] = Spans[k]
  BY <1>1, Kinds DEF Inv, Shape, StagesFit, ListsFit
<1>3. /\ DOMAIN ranges = 1 .. Len(ranges) /\ DOMAIN futures = 1 .. Len(futures) /\ first \in Int
      /\ \A f \in DOMAIN futures : futures[f].state = "ready"
  BY <1>1, Facts DEF Inv, Shape, GotReady
<1>4. ASSUME NEW k \in DOMAIN ranges
      PROVE  Piece(mem, key, IsStable, ranges[k][1], ranges[k][2])
  <2>1. k \in DOMAIN futures /\ ranges[k] = Spans[k]
    BY <1>2, <1>3
  <2>2. ranges[k][1] = futures[k].first /\ ranges[k][2] = futures[k].last
    BY <2>1, SpansType DEF Inv
  <2>3. FutureFits(mem, key, IsStable, futures[k])
    BY <1>1, <2>1 DEF PiecesSorted
  <2> QED BY <1>3, <2>1, <2>2, <2>3 DEF FutureFits
<1>5. first' \in Int /\ first <= first' /\ caller' # "returned" /\ caller # "returned"
  BY <1>1, <1>3
<1>6. DOMAIN futures' = {}
  BY <1>1
<1> QED BY <1>1, <1>4, <1>5, <1>6, PiecesKept

\* The caller's steps that change no task.
LEMMA PiecesMove ==
    ASSUME Inv, PiecesSorted, Mergesort, UNCHANGED <<input, mem, futures, first>>,
           caller # "returned", caller' # "merging",
           caller' = "returned" => Piece(mem, key, IsStable, 0, n)
    PROVE  PiecesSorted'
<1>1. first' \in Int /\ first <= first'
  BY Facts DEF Inv
<1>2. \A f \in DOMAIN futures' : FutureFits(mem, key, IsStable, futures'[f])
  BY DEF PiecesSorted
<1> QED BY <1>1, <1>2, PiecesKept

\* The last future holds the whole range.
LEMMA PiecesGetLast == ASSUME Inv, PiecesSorted, GetLast PROVE PiecesSorted'
<1>1. /\ Mergesort /\ caller = "last" /\ futures[1].state = "ready" /\ caller' = "returned"
      /\ UNCHANGED <<input, mem, futures, first>>
  BY DEF GetLast, Arrived, Goto, loop
<1>2. Len(futures) = 1 /\ DOMAIN futures = 1 .. Len(futures) /\ Len(Spans) = Len(futures)
      /\ 1 \in DOMAIN futures
  BY <1>1, Facts, SpansType DEF Inv, Shape, GotReady
<1>3. Tiles(Spans, n) /\ Spans # <<>>
  <2>1. Tiles(Spans, n)
    BY <1>1 DEF Inv, Shape, StagesFit, ListsFit
  <2> QED BY <1>2, <2>1
<1>4. futures[1].first = 0 /\ futures[1].last = n
  BY <1>2, <1>3, SpansType DEF Tiles, Inv
<1>5. FutureFits(mem, key, IsStable, futures[1])
  BY <1>1, <1>2 DEF PiecesSorted
<1>6. Piece(mem, key, IsStable, 0, n)
  BY <1>1, <1>4, <1>5 DEF FutureFits
<1> QED BY <1>1, <1>6, PiecesMove

\* The sequential sort sorts the whole range.
LEMMA PiecesSequentially == ASSUME Inv, PiecesSorted, SortSequentially PROVE PiecesSorted'
<1> DEFINE t == WholeRange(<<>>)
<1>1. PICK m \in SortEffects(t) : Sequentially(m, <<>>)
  BY DEF SortSequentially
<1>2. /\ Mergesort /\ caller = "called" /\ caller' = "returned" /\ mem' = Written(m)
      /\ UNCHANGED <<input, futures>>
  BY <1>1 DEF SortSequentially, Sequentially, Goto
<1>3. TypeOK /\ n \in Nat /\ first = 0 /\ futures = <<>>
  BY <1>2, Facts DEF Inv, Typed, Shape, StagesFit
<1>4. t.first = 0 /\ t.last = n /\ t.first \in 0 .. n /\ t.last \in t.first .. n
  BY <1>3 DEF WholeRange, Task
<1>5. Shuffled(mem, n) /\ Raw(mem, t.first, t.last)
  BY <1>2, <1>3, <1>4 DEF PiecesSorted
<1>6. m \in SortEffects(t) /\ m \in Arrangements(t.first, t.last)
  BY <1>1 DEF SortEffects
<1> HIDE DEF t
<1>7. Piece(mem', key, IsStable, 0, n) /\ Shuffled(mem', n)
  <2>1. Piece(Written(m), key, IsStable, t.first, t.last)
    BY <1>3, <1>4, <1>5, <1>6, Sorts
  <2>2. Shuffled(Written(m), n)
    BY <1>3, <1>4, <1>5, <1>6, ShuffledKept
  <2> QED BY <1>2, <1>4, <2>1, <2>2
<1>8. key' = key /\ n' = n /\ IsStable' = IsStable /\ DOMAIN futures' = {}
  BY <1>2, <1>3 DEF input, IsStable
<1> QED BY <1>2, <1>7, <1>8 DEF PiecesSorted

LEMMA PiecesStep == Inv /\ PiecesSorted /\ [Next]_vars => PiecesSorted'
<1> SUFFICES ASSUME Inv, PiecesSorted, [Next]_vars PROVE PiecesSorted'
  OBVIOUS
<1> SUFFICES ASSUME Mergesort PROVE PiecesSorted'
  <2>1. algorithm' = algorithm
    BY AlgorithmStays
  <2>2. Mergesort' = Mergesort
    BY <2>1 DEF Mergesort
  <2> QED BY <2>2 DEF PiecesSorted
<1>0. ~Elementwise /\ ~Reduction /\ ~Scan
  BY Kinds
<1>1. CASE SortSequentially
  BY <1>1, PiecesSequentially
<1>2. CASE SubmitSort \/ PairUp \/ ForwardLast \/ BeginRound \/ GetLast
  BY <1>2, PiecesSubmit, PiecesPairUp, PiecesBeginRound, PiecesGetLast
<1>3. CASE CallMergesort
  <2>1. /\ UNCHANGED <<input, mem, futures, first>> /\ caller = "called"
        /\ caller' = IF n = 0 THEN "returned" ELSE "chunking"
    BY <1>3 DEF CallMergesort, Goto, loop
  <2>2. ASSUME n = 0 PROVE Piece(mem, key, IsStable, 0, n)
    <3>1. 0 .. n - 1 = {}
      BY <2>2
    <3> QED BY <3>1 DEF Piece, InOrder, Own, AsTheyCame
  <2> QED BY <2>1, <2>2, PiecesMove
<1>4. CASE Chunked \/ Rethrow \/ ThrowSequentially \/ GetSubrange \/ EndRound
  <2>1. UNCHANGED <<input, mem, futures, first>>
    BY <1>4 DEF Chunked, Rethrow, ThrowSequentially, GetSubrange, EndRound, loop
  <2>2. caller # "returned" /\ caller' \notin {"merging", "returned"}
    BY <1>4 DEF Chunked, Rethrow, ThrowSequentially, GetSubrange, NextArrived, EndRound, Goto
  <2> QED BY <2>1, <2>2, PiecesMove
<1>5. CASE \E f \in DOMAIN futures : Start(f) \/ Throw(f)
  BY <1>5, PiecesStart
<1>6. CASE \E f \in DOMAIN futures : RunSort(f) \/ RunMerge(f)
  BY <1>6, PiecesRun
<1>7. CASE UNCHANGED vars
  BY <1>7 DEF vars, PiecesSorted, Mergesort, IsStable
<1>8. CASE Next
  <2>1. CASE ElementwiseStep
    BY <2>1, <1>0 DEF ElementwiseStep, ElementsSequentially, CallElementwise, SubmitElements,
       GetElements, ReturnElements, RunElements
  <2>2. CASE NumericStep
    BY <2>2, <1>0 DEF NumericStep, ReduceSequentially, ScanSequentially, CallReduction,
       SubmitReduction, GetReduction, ReturnReduction, CallScan, SubmitSum, GetSum, ScanSums,
       SubmitScan, ScansSubmitted, JoinScan, ReturnScan, RunReduction, RunSum, RunScan
  <2>3. CASE MergesortStep
    BY <2>3, <1>1, <1>2, <1>3, <1>4, <1>6 DEF MergesortStep
  <2> QED BY <1>8, <2>1, <2>2, <2>3, <1>4, <1>5 DEF Next
<1> QED BY <1>7, <1>8

LEMMA PiecesAlways == Spec => [](Inv /\ PiecesSorted)
<1>1. Init => Inv /\ PiecesSorted
  BY InitInv, PiecesInit
<1>2. (Inv /\ PiecesSorted) /\ [Next]_vars => (Inv /\ PiecesSorted)'
  BY StepInv, PiecesStep
<1> QED BY <1>1, <1>2, PTL DEF Spec

\* What inplace_merge requires: when parallel_mergesort hands two subranges to a merge, and
\* until that merge is done, both are sorted, each by a task that is over.
THEOREM MergesSortedHalves == Spec => []MergesReady
<1>1. Inv /\ PiecesSorted => MergesReady
  <2> SUFFICES ASSUME Inv, PiecesSorted, NEW f \in DOMAIN futures, Mergesort,
                      futures[f].part = "merge", futures[f].state \in {"queued", "running"}
               PROVE  /\ SortedIn(mem, futures[f].first, futures[f].mid)
                      /\ SortedIn(mem, futures[f].mid, futures[f].last)
    BY DEF MergesReady
  <2>1. FutureFits(mem, key, IsStable, futures[f]) /\ futures[f].state # "ready"
    BY DEF PiecesSorted
  <2>2. /\ InOrder(mem, key, futures[f].first, futures[f].mid)
        /\ InOrder(mem, key, futures[f].mid, futures[f].last)
    BY <2>1 DEF FutureFits, Piece
  <2> QED BY <2>2 DEF InOrder, SortedIn, KeyAt, Origin
<1> QED BY <1>1, PiecesAlways, PTL

\* Whatever the chunks, the rounds and the order of the tasks, a mergesort that returns has
\* sorted its range: it holds the elements it was given, in the order of their keys, and with a
\* stable sort_func those with equal keys in the order they came in.
THEOREM MergesortSorts == Spec => []SortsRange
<1>1. Inv /\ PiecesSorted => SortsRange
  <2> SUFFICES ASSUME Inv, PiecesSorted, Mergesort, caller = "returned"
               PROVE  /\ \A p \in 0 .. n - 1 : \E q \in 0 .. n - 1 :
                            mem[<<"first1", q>>] = Given[<<"first1", p>>]
                      /\ SortedIn(mem, 0, n)
                      /\ algorithm = "stable_mergesort" =>
                            \A p, q \in 0 .. n - 1 :
                               p < q /\ KeyAt(mem, p) = KeyAt(mem, q)
                                  => mem[<<"first1", p>>][1][2] < mem[<<"first1", q>>][1][2]
    BY DEF SortsRange
  <2>1. Shuffled(mem, n) /\ Piece(mem, key, IsStable, 0, n)
    BY DEF PiecesSorted
  <2>2. ASSUME NEW p \in 0 .. n - 1
        PROVE  \E q \in 0 .. n - 1 : mem[<<"first1", q>>] = Given[<<"first1", p>>]
    <3>1. PICK q \in 0 .. n - 1 : Origin(mem, q) = p
      BY <2>1 DEF Shuffled
    <3>2. mem[<<"first1", q>>] = <<<<"first1", p>>>>
      BY <2>1, <3>1 DEF Shuffled
    <3>3. <<"first1", p>> \in Cell
      BY CellAt DEF Buffer
    <3>4. Given[<<"first1", p>>] = <<<<"first1", p>>>>
      BY <3>3 DEF Given
    <3> QED BY <3>2, <3>4
  <2>3. SortedIn(mem, 0, n)
    BY <2>1 DEF Piece, InOrder, SortedIn, KeyAt, Origin
  <2>4. ASSUME algorithm = "stable_mergesort", NEW p \in 0 .. n - 1, NEW q \in 0 .. n - 1,
               p < q, KeyAt(mem, p) = KeyAt(mem, q)
        PROVE  mem[<<"first1", p>>][1][2] < mem[<<"first1", q>>][1][2]
    <3>1. AsTheyCame(mem, key, 0, n)
      BY <2>1, <2>4 DEF Piece, IsStable
    <3> QED BY <2>4, <3>1 DEF AsTheyCame, KeyAt, Origin
  <2> QED BY <2>2, <2>3, <2>4
<1> QED BY <1>1, PiecesAlways, PTL

(***************************************************************************)
(* Reductions and scans: what the elements from a position to another one, *)
(* as they were given, add to a result.                                    *)
(***************************************************************************)
Spelled == [s \in (0 .. n) \X (0 .. n) |->
               FlattenSeq([k \in 1 .. s[2] - s[1] |->
                              Term(Given, s[1] + k - 1, s[1] + k - 1)])]

\* How far the futures got so far reach.
Reached == IF got = 0 THEN 0 ELSE futures[got].last

\* A future that is set holds what its chunk adds, and the result what the chunks got add.
ReductionFits ==
    Reduction =>
        /\ mem = Given
        /\ \A f \in DOMAIN futures :
              /\ futures[f].init = InitOfChunk
              /\ futures[f].state = "ready" =>
                    futures[f].value = InitOfChunk \o Spelled[<<futures[f].first, futures[f].last>>]
        /\ caller \in {"chunking", "getting"} => Without(result, TheInit) = Spelled[<<0, Reached>>]
        /\ caller = "returned" => Without(result, TheInit) = Spelled[<<0, n>>]

\* The positions the second pass of a scan is through with.
Scanned(p) ==
    \E f \in DOMAIN futures : /\ futures[f].part = "scan" /\ futures[f].state = "ready"
                              /\ p \in futures[f].first .. futures[f].last - 1

\* word is what a scan makes of the elements before a position.
IsScanOf(word, before) == Without(word, Zero) = <<TheInit>> \o before

\* What the tasks of the two passes hold, s being Spelled.
SumFits(s, t) ==
    t.part = "chunk" => /\ t.init = <<Zero>>
                        /\ t.state = "ready" => t.value = <<Zero>> \o s[<<t.first, t.last>>]

StartFits(s, t) == t.part = "scan" => IsScanOf(t.init, s[<<0, t.first>>])

\* The first pass holds the words of the chunks, the second one starts each chunk from the
\* words before it and finds its elements as they were given.
ScanFits ==
    Scan =>
        /\ caller # "returned" =>
              \A p \in 0 .. n - 1 :
                 dest # "first1" \/ ~Scanned(p) => mem[<<"first1", p>>] = <<<<"first1", p>>>>
        /\ caller \in {"chunking", "getting"} =>
              \A f \in DOMAIN futures : futures[f].part = "chunk"
        /\ caller \in {"applying", "joining"} =>
              \A f \in DOMAIN futures : futures[f].part = "scan"
        /\ \A f \in DOMAIN futures : SumFits(Spelled, futures[f]) /\ StartFits(Spelled, futures[f])
        /\ caller = "getting" =>
              \A k \in DOMAIN sums : sums[k] = <<Zero>> \o Spelled[<<ranges[k][1], ranges[k][2]>>]
        /\ caller = "applying" =>
              \A k \in DOMAIN sums : IsScanOf(sums[k], Spelled[<<0, ranges[k][1]>>])
        /\ \A p \in 0 .. n - 1 :
              caller = "returned" \/ Scanned(p) => IsScanOf(mem[<<dest, p>>], Spelled[<<0, p>>])

-----------------------------------------------------------------------------
(* Words. *)

\* f[k] is what the first k words of s make, one after the other.
Grows(f, s) ==
    /\ f[0] = <<>>
    /\ \A k \in 0 .. Len(s) - 1 : f[k + 1] = f[k] \o s[k + 1]

LEMMA FlattenGrows ==
    ASSUME NEW S, NEW s \in Seq(Seq(S))
    PROVE  \E f \in [0 .. Len(s) -> Seq(S)] : Grows(f, s) /\ FlattenSeq(s) = f[Len(s)]
<1> DEFINE len == Len(s)
<1>1. PICK g : IsFlattening(g, s) /\ FlattenSeq(s) = IF len = 0 THEN <<>> ELSE g[len]
  BY Flattened
<1>2. len \in Nat /\ \A k \in 1 .. len : s[k] \in Seq(S)
  BY LenProperties
<1>3. ASSUME NEW k \in 1 .. len
      PROVE  g[k] \in Seq(S) /\ g[k] = IF k = 1 THEN s[k] ELSE g[k - 1] \o s[k]
  BY <1>1, <1>3, FlatteningType DEF IsFlattening
<1> DEFINE f == [k \in 0 .. len |-> IF k = 0 THEN <<>> ELSE g[k]]
<1>4. f \in [0 .. len -> Seq(S)]
  <2> HIDE DEF len
  <2> QED BY <1>2, <1>3
<1>5. Grows(f, s)
  <2>0. ASSUME NEW k \in 0 .. len - 1 PROVE f[k + 1] = f[k] \o s[k + 1]
    <3> HIDE DEF len
    <3>1. k + 1 \in 1 .. len /\ k \in 0 .. len
      BY <1>2
    <3>2. f[k + 1] = IF k = 0 THEN s[k + 1] ELSE g[k] \o s[k + 1]
      BY <1>3, <3>1
    <3>3. CASE k = 0
      <4>1. f[k] = <<>>
        BY <3>1, <3>3
      <4>2. s[k + 1] \in Seq(S)
        BY <1>2, <3>1
      <4> QED BY <3>2, <3>3, <4>1, <4>2, ConcatEmptySeq
    <3>4. CASE k # 0
      BY <3>1, <3>2, <3>4
    <3> QED BY <3>3, <3>4
  <2>1. f[0] = <<>>
    <3> HIDE DEF len
    <3> QED BY <1>2
  <2> HIDE DEF f
  <2> QED BY <2>0, <2>1 DEF Grows
<1>6. FlattenSeq(s) = f[len]
  <2> HIDE DEF len
  <2> QED BY <1>1, <1>2
<1> HIDE DEF f
<1> QED BY <1>4, <1>5, <1>6

LEMMA GrowsToOne ==
    ASSUME NEW S, NEW s \in Seq(Seq(S)), NEW f, Grows(f, s)
    PROVE  f[Len(s)] = FlattenSeq(s)
<1> DEFINE len == Len(s)
<1>1. PICK g \in [0 .. len -> Seq(S)] : Grows(g, s) /\ FlattenSeq(s) = g[len]
  BY FlattenGrows
<1> DEFINE P == {k \in Nat : k <= len => f[k] = g[k]}
<1>2. len \in Nat
  BY LenProperties
<1>3. 0 \in P
  BY <1>1 DEF Grows
<1>4. ASSUME NEW k \in Nat, k \in P PROVE k + 1 \in P
  <2> SUFFICES ASSUME k + 1 <= len PROVE f[k + 1] = g[k + 1]
    OBVIOUS
  <2>1. k \in 0 .. len - 1 /\ k <= len
    BY <1>2
  <2>2. f[k] = g[k]
    BY <1>4, <2>1
  <2>3. f[k + 1] = f[k] \o s[k + 1] /\ g[k + 1] = g[k] \o s[k + 1]
    BY <1>1, <2>1 DEF Grows
  <2> QED BY <2>2, <2>3
<1>5. Nat \subseteq P
  <2> HIDE DEF P
  <2> QED BY <1>3, <1>4, Induction
<1> QED BY <1>1, <1>2, <1>5

\* v \o w, whose definition the provers had better not see.
Joined(v, w) == v \o w

LEMMA JoinedAnyway ==
    ASSUME NEW S, NEW u \in Seq(S), NEW v \in Seq(S), NEW w \in Seq(S)
    PROVE  Joined(Joined(u, v), w) = Joined(u, Joined(v, w))
BY ConcatAssociative DEF Joined

LEMMA FlattenConcat ==
    ASSUME NEW S, NEW s \in Seq(Seq(S)), NEW r \in Seq(Seq(S))
    PROVE  FlattenSeq(s \o r) = FlattenSeq(s) \o FlattenSeq(r)
<1> DEFINE a == Len(s)
           b == Len(r)
<1>1. PICK f \in [0 .. a -> Seq(S)] : Grows(f, s) /\ FlattenSeq(s) = f[a]
  BY FlattenGrows
<1>2. PICK g \in [0 .. b -> Seq(S)] : Grows(g, r) /\ FlattenSeq(r) = g[b]
  BY FlattenGrows
<1>3. /\ a \in Nat /\ b \in Nat /\ s \o r \in Seq(Seq(S)) /\ Len(s \o r) = a + b
      /\ \A k \in 1 .. a + b : (s \o r)[k] = IF k <= a THEN s[k] ELSE r[k - a]
      /\ \A k \in 1 .. b : r[k] \in Seq(S)
  BY ConcatProperties, LenProperties
<1>4. f[0] = <<>> /\ \A k \in 0 .. a - 1 : f[k + 1] = f[k] \o s[k + 1]
  BY <1>1 DEF Grows
<1>5. g[0] = <<>> /\ \A k \in 0 .. b - 1 : g[k + 1] = g[k] \o r[k + 1]
  BY <1>2 DEF Grows
<1>6. a \in Nat /\ b \in Nat
  BY <1>3
<1> DEFINE u == s \o r
<1>7. /\ u \in Seq(Seq(S)) /\ Len(u) = a + b
      /\ \A k \in 1 .. a : u[k] = s[k]
      /\ \A k \in 1 .. b : u[a + k] = r[k]
  BY <1>3
<1> HIDE DEF a, b, u
<1> DEFINE h == [k \in 0 .. a + b |-> IF k <= a THEN f[k] ELSE f[a] \o g[k - a]]
<1>8. \A k \in 0 .. a : h[k] = f[k]
  BY <1>6
<1>9. ASSUME NEW k \in 0 .. b PROVE h[a + k] = f[a] \o g[k]
  <2>1. CASE k = 0
    <3>1. h[a + k] = f[a] /\ f[a] \in Seq(S)
      BY <1>1, <1>6, <1>8, <2>1
    <3> HIDE DEF h
    <3> QED BY <1>5, <2>1, <3>1, ConcatEmptySeq
  <2>2. CASE k # 0
    <3>1. a + k \in 0 .. a + b /\ ~(a + k <= a) /\ (a + k) - a = k
      BY <1>6, <2>2
    <3> QED BY <3>1
  <2> QED BY <2>1, <2>2
<1> HIDE DEF h
<1>10. ASSUME NEW k \in 0 .. a + b - 1 PROVE h[k + 1] = h[k] \o u[k + 1]
  <2>1. CASE k < a
    <3>1. k \in 0 .. a - 1 /\ k \in 0 .. a /\ k + 1 \in 0 .. a /\ k + 1 \in 1 .. a
      BY <1>6, <2>1
    <3> QED BY <1>4, <1>7, <1>8, <3>1
  <2>2. CASE ~(k < a)
    <3>1. PICK j \in 0 .. b - 1 : k = a + j
      <4>1. k - a \in 0 .. b - 1 /\ k = a + (k - a)
        BY <1>6, <2>2
      <4> QED BY <4>1
    <3>2. j \in 0 .. b /\ j + 1 \in 0 .. b /\ j + 1 \in 1 .. b /\ k + 1 = a + (j + 1)
      BY <1>6, <3>1
    <3>3. h[k] = f[a] \o g[j] /\ h[k + 1] = f[a] \o g[j + 1] /\ u[k + 1] = r[j + 1]
      BY <1>7, <1>9, <3>1, <3>2
    <3>4. g[j + 1] = g[j] \o r[j + 1]
      BY <1>5, <3>1
    <3>5. f[a] \in Seq(S) /\ g[j] \in Seq(S) /\ r[j + 1] \in Seq(S)
      <4>1. a \in 0 .. a /\ f \in [0 .. a -> Seq(S)] /\ g \in [0 .. b -> Seq(S)]
        BY <1>1, <1>2, <1>6
      <4>2. f[a] \in Seq(S) /\ g[j] \in Seq(S)
        BY <3>2, <4>1
      <4>3. r[j + 1] \in Seq(S)
        BY <3>2 DEF b
      <4> QED BY <4>2, <4>3
    <3>6. Joined(Joined(f[a], g[j]), r[j + 1]) = Joined(f[a], Joined(g[j], r[j + 1]))
      BY <3>5, JoinedAnyway
    <3>7. (f[a] \o g[j]) \o r[j + 1] = f[a] \o (g[j] \o r[j + 1])
      BY <3>6 DEF Joined
    <3> QED BY <3>3, <3>4, <3>7
  <2> QED BY <1>6, <2>1, <2>2
<1>11. h[0] = <<>>
  BY <1>4, <1>6, <1>8
<1>12. Grows(h, u)
  <2> SUFFICES ASSUME NEW k \in 0 .. Len(u) - 1 PROVE h[k + 1] = h[k] \o u[k + 1]
    BY <1>11 DEF Grows
  <2>1. Len(u) = a + b
    BY <1>7
  <2>2. k \in 0 .. a + b - 1
    BY <1>6, <2>1
  <2> QED BY <1>10, <2>2
<1>13. h[a + b] = FlattenSeq(u)
  BY <1>7, <1>12, GrowsToOne
<1>14. h[a + b] = f[a] \o g[b]
  BY <1>6, <1>9
<1> QED BY <1>1, <1>2, <1>13, <1>14 DEF u

LEMMA FlattenOne ==
    ASSUME NEW S, NEW w \in Seq(S)
    PROVE  FlattenSeq(<<w>>) = w
<1>1. <<w>> \in Seq(Seq(S)) /\ Len(<<w>>) = 1
  OBVIOUS
<1> DEFINE f == [k \in 0 .. 1 |-> IF k = 0 THEN <<>> ELSE w]
<1>2. <<>> \o w = w
  BY ConcatEmptySeq
<1>3. Grows(f, <<w>>)
  <2> SUFFICES ASSUME NEW k \in 0 .. 0 PROVE f[k + 1] = f[k] \o <<w>>[k + 1]
    BY <1>1 DEF Grows
  <2>1. k = 0
    OBVIOUS
  <2> QED BY <1>2, <2>1
<1>4. f[Len(<<w>>)] = FlattenSeq(<<w>>)
  <2> HIDE DEF f
  <2> QED BY <1>1, <1>3, GrowsToOne
<1> QED BY <1>1, <1>4

LEMMA FlattenNothing == FlattenSeq(<<>>) = <<>>
BY DEF FlattenSeq

-----------------------------------------------------------------------------
\* The letters of word, each as a word of its own, but mark.
LettersBut(word, mark) ==
    [k \in 1 .. Len(word) |-> IF word[k] = mark THEN <<>> ELSE <<word[k]>>]

LEMMA LettersButType ==
    ASSUME NEW S, NEW w \in Seq(S), NEW x
    PROVE  LettersBut(w, x) \in Seq(Seq(S)) /\ Len(LettersBut(w, x)) = Len(w)
<1>1. Len(w) \in Nat /\ \A k \in 1 .. Len(w) : w[k] \in S
  BY LenProperties
<1>2. ASSUME NEW k \in 1 .. Len(w)
      PROVE  (IF w[k] = x THEN <<>> ELSE <<w[k]>>) \in Seq(S)
  BY <1>1
<1> DEFINE len == Len(w)
<1> HIDE DEF len
<1> QED BY <1>1, <1>2 DEF LettersBut

\* The function of which Without takes the last value.
IsKept(kept, word, mark) ==
    kept = [p \in 0 .. Len(word) |->
               IF p = 0 THEN <<>>
               ELSE IF word[p] = mark THEN kept[p - 1] ELSE Append(kept[p - 1], word[p])]

LEMMA WithoutIs ==
    ASSUME NEW S, NEW w \in Seq(S), NEW x
    PROVE  Without(w, x) = FlattenSeq(LettersBut(w, x))
<1> DEFINE s == LettersBut(w, x)
           len == Len(w)
<1>1. s \in Seq(Seq(S)) /\ Len(s) = len /\ len \in Nat /\ \A k \in 1 .. len : w[k] \in S
  BY LettersButType, LenProperties
<1>2. \A k \in 1 .. len : s[k] = IF w[k] = x THEN <<>> ELSE <<w[k]>>
  BY DEF LettersBut
<1> HIDE DEF s, len
<1>3. PICK f \in [0 .. len -> Seq(S)] : Grows(f, s) /\ FlattenSeq(s) = f[len]
  BY <1>1, FlattenGrows
<1>4. f[0] = <<>> /\ \A k \in 0 .. len - 1 : f[k + 1] = f[k] \o s[k + 1]
  BY <1>1, <1>3 DEF Grows
<1>5. \A p \in 1 .. len :
         f[p] = IF w[p] = x THEN f[p - 1] ELSE Append(f[p - 1], w[p])
  <2> SUFFICES ASSUME NEW p \in 1 .. len
               PROVE  f[p] = IF w[p] = x THEN f[p - 1] ELSE Append(f[p - 1], w[p])
    OBVIOUS
  <2>1. p - 1 \in 0 .. len - 1 /\ (p - 1) + 1 = p /\ p - 1 \in 0 .. len
    BY <1>1
  <2>2. f[p] = f[p - 1] \o s[p] /\ f[p - 1] \in Seq(S) /\ w[p] \in S
    BY <1>1, <1>3, <1>4, <2>1
  <2>3. CASE w[p] = x
    BY <1>2, <2>2, <2>3, ConcatEmptySeq
  <2>4. CASE w[p] # x
    BY <1>2, <2>2, <2>4, AppendIsConcat
  <2> QED BY <2>3, <2>4
<1>6. IsKept(f, w, x)
  <2>1. f = [p \in 0 .. len |-> f[p]]
    BY <1>3
  <2>2. ASSUME NEW p \in 0 .. len
        PROVE  f[p] = IF p = 0 THEN <<>>
                      ELSE IF w[p] = x THEN f[p - 1] ELSE Append(f[p - 1], w[p])
    <3>1. p = 0 \/ p \in 1 .. len
      BY <1>1
    <3> QED BY <1>4, <1>5, <3>1
  <2>3. f = [p \in 0 .. len |-> IF p = 0 THEN <<>>
                               ELSE IF w[p] = x THEN f[p - 1] ELSE Append(f[p - 1], w[p])]
    BY <2>1, <2>2
  <2> QED BY <2>3 DEF IsKept, len
<1> DEFINE kept == CHOOSE g : IsKept(g, w, x)
<1>7. IsKept(kept, w, x)
  BY <1>6
<1>8. Without(w, x) = kept[len]
  BY DEF Without, IsKept, len
<1> HIDE DEF kept
<1>9. Grows(kept, s)
  <2>1. kept = [p \in 0 .. len |-> IF p = 0 THEN <<>>
                  ELSE IF w[p] = x THEN kept[p - 1] ELSE Append(kept[p - 1], w[p])]
    BY <1>7 DEF IsKept, len
  <2>2. kept[0] = <<>>
    BY <1>1, <2>1
  <2>3. \A p \in 1 .. len : kept[p] = IF w[p] = x THEN kept[p - 1] ELSE Append(kept[p - 1], w[p])
    <3> SUFFICES ASSUME NEW p \in 1 .. len
                 PROVE  kept[p] = IF w[p] = x THEN kept[p - 1] ELSE Append(kept[p - 1], w[p])
      OBVIOUS
    <3>1. p \in 0 .. len /\ p # 0
      BY <1>1
    <3> QED BY <2>1, <3>1
  <2> DEFINE P == {k \in Nat : k <= len => kept[k] = f[k]}
  <2>4. 0 \in P
    BY <1>4, <2>2
  <2>5. ASSUME NEW k \in Nat, k \in P PROVE k + 1 \in P
    <3> SUFFICES ASSUME k + 1 <= len PROVE kept[k + 1] = f[k + 1]
      OBVIOUS
    <3>1. k + 1 \in 1 .. len /\ (k + 1) - 1 = k /\ kept[k] = f[k]
      BY <1>1, <2>5
    <3> QED BY <1>5, <2>3, <3>1
  <2>6. Nat \subseteq P
    <3> HIDE DEF P
    <3> QED BY <2>4, <2>5, Induction
  <2>7. \A k \in 0 .. len : kept[k] = f[k]
    BY <1>1, <2>6
  <2>8. ASSUME NEW k \in 0 .. len - 1 PROVE kept[k + 1] = kept[k] \o s[k + 1]
    <3>1. k \in 0 .. len /\ k + 1 \in 0 .. len
      BY <1>1
    <3> QED BY <1>4, <2>7, <3>1
  <2> QED BY <1>1, <2>2, <2>8 DEF Grows
<1>10. kept[len] = FlattenSeq(s)
  BY <1>1, <1>9, GrowsToOne
<1> QED BY <1>8, <1>10 DEF s

LEMMA WithoutType ==
    ASSUME NEW S, NEW w \in Seq(S), NEW x
    PROVE  Without(w, x) \in Seq(S)
BY WithoutIs, LettersButType, FlattenType

LEMMA WithoutConcat ==
    ASSUME NEW S, NEW v \in Seq(S), NEW w \in Seq(S), NEW x
    PROVE  Without(v \o w, x) = Without(v, x) \o Without(w, x)
<1> DEFINE a == Len(v)
           b == Len(w)
           s == LettersBut(v, x)
           r == LettersBut(w, x)
           u == LettersBut(v \o w, x)
<1>1. /\ a \in Nat /\ b \in Nat /\ v \o w \in Seq(S) /\ Len(v \o w) = a + b
      /\ \A k \in 1 .. a + b : (v \o w)[k] = IF k <= a THEN v[k] ELSE w[k - a]
  BY ConcatProperties, LenProperties
<1>2. /\ s \in Seq(Seq(S)) /\ Len(s) = a /\ r \in Seq(Seq(S)) /\ Len(r) = b
      /\ u \in Seq(Seq(S)) /\ Len(u) = a + b
  BY <1>1, LettersButType
<1>3. /\ \A k \in 1 .. a : s[k] = IF v[k] = x THEN <<>> ELSE <<v[k]>>
      /\ \A k \in 1 .. b : r[k] = IF w[k] = x THEN <<>> ELSE <<w[k]>>
      /\ \A k \in 1 .. a + b : u[k] = IF (v \o w)[k] = x THEN <<>> ELSE <<(v \o w)[k]>>
  BY <1>1 DEF LettersBut
<1> HIDE DEF s, r, u
<1>4. /\ s \o r \in Seq(Seq(S)) /\ Len(s \o r) = Len(s) + Len(r)
      /\ \A k \in 1 .. Len(s) + Len(r) : (s \o r)[k] = IF k <= Len(s) THEN s[k] ELSE r[k - Len(s)]
  <2>1. \A y, z \in Seq(Seq(S)) :
           /\ y \o z \in Seq(Seq(S)) /\ Len(y \o z) = Len(y) + Len(z)
           /\ \A k \in 1 .. Len(y) + Len(z) :
                 (y \o z)[k] = IF k <= Len(y) THEN y[k] ELSE z[k - Len(y)]
    BY ConcatProperties
  <2> QED BY <1>2, <2>1
<1>5. \A k \in 1 .. a + b : (s \o r)[k] = IF k <= a THEN s[k] ELSE r[k - a]
  BY <1>2, <1>4
<1>6. Len(s \o r) = a + b
  BY <1>2, <1>4
<1> DEFINE vw == v \o w
           sr == s \o r
<1>7. /\ \A k \in 1 .. a + b : vw[k] = IF k <= a THEN v[k] ELSE w[k - a]
      /\ \A k \in 1 .. a + b : sr[k] = IF k <= a THEN s[k] ELSE r[k - a]
      /\ \A k \in 1 .. a + b : u[k] = IF vw[k] = x THEN <<>> ELSE <<vw[k]>>
      /\ a \in Nat /\ b \in Nat
  BY <1>1, <1>3, <1>5
<1> HIDE DEF a, b, vw, sr
<1>8. ASSUME NEW k \in 1 .. a + b PROVE u[k] = sr[k]
  <2>1. CASE k <= a
    <3>1. k \in 1 .. a
      BY <1>7, <2>1
    <3> QED BY <1>3, <1>7, <2>1, <3>1
  <2>2. CASE ~(k <= a)
    <3>1. k - a \in 1 .. b
      BY <1>7, <2>2
    <3>2. vw[k] = w[k - a] /\ sr[k] = r[k - a]
      BY <1>7, <2>2
    <3> QED BY <1>3, <1>7, <3>1, <3>2
  <2> QED BY <2>1, <2>2
<1>9. u = s \o r
  BY <1>2, <1>4, <1>6, <1>8, SeqEqual DEF sr
<1>10. FlattenSeq(u) = FlattenSeq(s) \o FlattenSeq(r)
  BY <1>2, <1>9, FlattenConcat
<1> QED BY <1>1, <1>10, WithoutIs DEF s, r, u

LEMMA WithoutNone ==
    ASSUME NEW S, NEW w \in Seq(S), NEW x, x \notin S
    PROVE  Without(w, x) = w
<1> DEFINE len == Len(w)
           s == LettersBut(w, x)
<1>1. len \in Nat /\ \A k \in 1 .. len : w[k] \in S
  BY LenProperties
<1>2. s \in Seq(Seq(S)) /\ Len(s) = len
  BY LettersButType
<1>3. \A k \in 1 .. len : s[k] = <<w[k]>>
  BY <1>1 DEF LettersBut
<1> HIDE DEF len, s
<1> DEFINE f == [k \in 0 .. len |-> SubSeq(w, 1, k)]
<1>4. Grows(f, s)
  <2>1. f[0] = <<>>
    BY <1>1, SubSeqEmpty
  <2> SUFFICES ASSUME NEW k \in 0 .. len - 1 PROVE f[k + 1] = f[k] \o s[k + 1]
    BY <1>2, <2>1 DEF Grows
  <2>2. k + 1 \in 1 .. len /\ k \in 0 .. len /\ k + 1 \in 0 .. len
    BY <1>1
  <2>3. /\ SubSeq(w, 1, k) \in Seq(S) /\ Len(SubSeq(w, 1, k)) = k
        /\ \A j \in 1 .. k : SubSeq(w, 1, k)[j] = w[j]
    <3>1. \A j \in 1 .. k : w[j] \in S
      BY <1>1, <2>2
    <3> QED BY <2>2, <3>1, SubSeqProperties
  <2>4. /\ SubSeq(w, 1, k + 1) \in Seq(S) /\ Len(SubSeq(w, 1, k + 1)) = k + 1
        /\ \A j \in 1 .. k + 1 : SubSeq(w, 1, k + 1)[j] = w[j]
    <3>1. \A j \in 1 .. k + 1 : w[j] \in S
      BY <1>1, <2>2
    <3> QED BY <2>2, <3>1, SubSeqProperties
  <2>5. w[k + 1] \in S /\ s[k + 1] = <<w[k + 1]>>
    BY <1>1, <1>3, <2>2
  <2>6. /\ Append(SubSeq(w, 1, k), w[k + 1]) \in Seq(S)
        /\ Len(Append(SubSeq(w, 1, k), w[k + 1])) = k + 1
        /\ \A j \in 1 .. k : Append(SubSeq(w, 1, k), w[k + 1])[j] = w[j]
        /\ Append(SubSeq(w, 1, k), w[k + 1])[k + 1] = w[k + 1]
    BY <2>3, <2>5, AppendProperties
  <2>7. \A j \in 1 .. k + 1 : Append(SubSeq(w, 1, k), w[k + 1])[j] = SubSeq(w, 1, k + 1)[j]
    BY <2>2, <2>4, <2>6
  <2>8. Append(SubSeq(w, 1, k), w[k + 1]) = SubSeq(w, 1, k + 1)
    BY <2>4, <2>6, <2>7, SeqEqual
  <2>9. Append(SubSeq(w, 1, k), w[k + 1]) = SubSeq(w, 1, k) \o <<w[k + 1]>>
    BY <2>3, <2>5, AppendIsConcat
  <2> QED BY <2>2, <2>5, <2>8, <2>9
<1>5. f[len] = FlattenSeq(s)
  <2> HIDE DEF f
  <2> QED BY <1>2, <1>4, GrowsToOne
<1>6. SubSeq(w, 1, len) = w
  <2>1. /\ SubSeq(w, 1, len) \in Seq(S) /\ Len(SubSeq(w, 1, len)) = len
        /\ \A j \in 1 .. len : SubSeq(w, 1, len)[j] = w[j]
    BY <1>1, SubSeqProperties
  <2> QED BY <2>1, SeqEqual DEF len
<1> QED BY <1>1, <1>5, <1>6, WithoutIs DEF s

LEMMA WithoutNothing == ASSUME NEW x PROVE Without(<<>>, x) = <<>>
<1>1. <<>> \in Seq({x}) /\ LettersBut(<<>>, x) = <<>>
  BY DEF LettersBut
<1>2. Without(<<>>, x) = FlattenSeq(LettersBut(<<>>, x))
  BY <1>1, WithoutIs
<1> QED BY <1>1, <1>2, FlattenNothing

LEMMA WithoutMark == ASSUME NEW x PROVE Without(<<x>>, x) = <<>>
<1>1. <<x>> \in Seq({x}) /\ Len(<<x>>) = 1 /\ <<x>>[1] = x
  OBVIOUS
<1>2. LettersBut(<<x>>, x) = [k \in 1 .. 1 |-> <<>>]
  BY <1>1 DEF LettersBut
<1>3. [k \in 1 .. 1 |-> <<>>] = <<<<>>>>
  OBVIOUS
<1>4. Without(<<x>>, x) = FlattenSeq(<<<<>>>>)
  BY <1>1, <1>2, <1>3, WithoutIs
<1>5. <<>> \in Seq({x})
  OBVIOUS
<1> QED BY <1>4, <1>5, FlattenOne

-----------------------------------------------------------------------------
(* What the elements of a span add to a result. *)

\* The letters such a word is made of.
Plain == Cell \union {Applied}

LEMMA NoMark == TheInit \notin Plain /\ Zero \notin Plain
BY DEF TheInit, Zero, Plain, Cell, Buffer, Applied

LEMMA PlainWords == Seq(Plain) \subseteq Words
<1>1. Plain \subseteq Letter
  BY DEF Plain, Letter
<1> QED BY <1>1 DEF Words

LEMMA GivenIs ==
    ASSUME NEW p \in 0 .. n - 1, NEW b \in {"first1", "first2"}
    PROVE  Given[<<b, p>>] = <<<<b, p>>>> /\ <<b, p>> \in Plain
<1>1. <<b, p>> \in Cell
  BY CellAt DEF Buffer
<1> QED BY <1>1 DEF Given, Plain

LEMMA GivenTermType ==
    ASSUME Reduction \/ Scan, NEW p \in 0 .. n - 1
    PROVE  Term(Given, p, p) \in Seq(Plain)
<1> DEFINE x == Given[<<"first1", p>>]
           y == Given[<<"first2", p>>]
<1>1. x \in Seq(Plain) /\ y \in Seq(Plain) /\ <<Applied>> \in Seq(Plain) /\ <<>> \in Seq(Plain)
  <2>1. x = <<<<"first1", p>>>> /\ <<"first1", p>> \in Plain
    BY GivenIs
  <2>2. y = <<<<"first2", p>>>> /\ <<"first2", p>> \in Plain
    BY GivenIs
  <2>3. Applied \in Plain
    BY DEF Plain
  <2> HIDE DEF x, y
  <2> QED BY <2>1, <2>2, <2>3
<1>2. Term(Given, p, p) \in {x, x \o <<Applied>>, (x \o y) \o <<Applied>>, <<>>}
  BY DEF Term, Reduction, Reductions, Scan
<1> HIDE DEF x, y
<1>3. x \o y \in Seq(Plain)
  BY <1>1
<1>4. x \o <<Applied>> \in Seq(Plain)
  BY <1>1
<1>5. (x \o y) \o <<Applied>> \in Seq(Plain)
  BY <1>1, <1>3
<1> QED BY <1>1, <1>2, <1>4, <1>5

\* The terms of the elements from a to b - 1.
TermsFrom(a, b) == [k \in 1 .. b - a |-> Term(Given, a + k - 1, a + k - 1)]

LEMMA TermsFromType ==
    ASSUME n \in Nat, Reduction \/ Scan, NEW a \in 0 .. n, NEW b \in a .. n
    PROVE  /\ TermsFrom(a, b) \in Seq(Seq(Plain))
           /\ Len(TermsFrom(a, b)) = b - a
           /\ Spelled[<<a, b>>] = FlattenSeq(TermsFrom(a, b))
<1>1. ASSUME NEW k \in 1 .. b - a PROVE Term(Given, a + k - 1, a + k - 1) \in Seq(Plain)
  <2>1. a + k - 1 \in 0 .. n - 1
    OBVIOUS
  <2> QED BY <2>1, GivenTermType
<1>2. b - a \in Nat
  OBVIOUS
<1>3. TermsFrom(a, b) \in Seq(Seq(Plain)) /\ Len(TermsFrom(a, b)) = b - a
  BY <1>1, <1>2 DEF TermsFrom
<1>4. Spelled[<<a, b>>] = FlattenSeq(TermsFrom(a, b))
  <2>1. <<a, b>> \in (0 .. n) \X (0 .. n)
    OBVIOUS
  <2> QED BY <2>1 DEF Spelled, TermsFrom
<1> QED BY <1>3, <1>4

LEMMA SpelledType ==
    ASSUME n \in Nat, Reduction \/ Scan, NEW a \in 0 .. n, NEW b \in a .. n
    PROVE  Spelled[<<a, b>>] \in Seq(Plain) /\ Spelled[<<a, b>>] \in Words
BY TermsFromType, FlattenType, PlainWords

LEMMA SpelledNothing ==
    ASSUME n \in Nat, Reduction \/ Scan, NEW a \in 0 .. n
    PROVE  Spelled[<<a, a>>] = <<>>
<1>1. TermsFrom(a, a) = <<>>
  BY DEF TermsFrom
<1> QED BY <1>1, TermsFromType, FlattenNothing

LEMMA SpelledJoined ==
    ASSUME n \in Nat, Reduction \/ Scan, NEW a \in 0 .. n, NEW b \in a .. n, NEW c \in b .. n
    PROVE  Spelled[<<a, c>>] = Spelled[<<a, b>>] \o Spelled[<<b, c>>]
<1> DEFINE s == TermsFrom(a, b)
           r == TermsFrom(b, c)
           u == TermsFrom(a, c)
<1>0. b \in 0 .. n /\ c \in 0 .. n /\ c \in a .. n
  OBVIOUS
<1>1. s \in Seq(Seq(Plain)) /\ Len(s) = b - a /\ Spelled[<<a, b>>] = FlattenSeq(s)
  BY TermsFromType
<1>2. r \in Seq(Seq(Plain)) /\ Len(r) = c - b /\ Spelled[<<b, c>>] = FlattenSeq(r)
  BY <1>0, TermsFromType
<1>3. u \in Seq(Seq(Plain)) /\ Len(u) = c - a /\ Spelled[<<a, c>>] = FlattenSeq(u)
  BY <1>0, TermsFromType
<1>4. /\ \A k \in 1 .. b - a : s[k] = Term(Given, a + k - 1, a + k - 1)
      /\ \A k \in 1 .. c - b : r[k] = Term(Given, b + k - 1, b + k - 1)
      /\ \A k \in 1 .. c - a : u[k] = Term(Given, a + k - 1, a + k - 1)
  BY DEF TermsFrom
<1> HIDE DEF s, r, u
<1>5. /\ s \o r \in Seq(Seq(Plain)) /\ Len(s \o r) = Len(s) + Len(r)
      /\ \A k \in 1 .. Len(s) + Len(r) : (s \o r)[k] = IF k <= Len(s) THEN s[k] ELSE r[k - Len(s)]
  <2>1. \A y, z \in Seq(Seq(Plain)) :
           /\ y \o z \in Seq(Seq(Plain)) /\ Len(y \o z) = Len(y) + Len(z)
           /\ \A k \in 1 .. Len(y) + Len(z) :
                 (y \o z)[k] = IF k <= Len(y) THEN y[k] ELSE z[k - Len(y)]
    BY ConcatProperties
  <2> QED BY <1>1, <1>2, <2>1
<1> DEFINE sr == s \o r
<1>6. /\ sr \in Seq(Seq(Plain)) /\ Len(sr) = c - a
      /\ \A k \in 1 .. c - a : sr[k] = IF k <= b - a THEN s[k] ELSE r[k - (b - a)]
  <2>1. Len(s) + Len(r) = c - a
    BY <1>0, <1>1, <1>2
  <2> QED BY <1>1, <1>5, <2>1
<1> HIDE DEF sr
<1>7. ASSUME NEW k \in 1 .. c - a PROVE u[k] = sr[k]
  <2>1. CASE k <= b - a
    <3>1. k \in 1 .. b - a
      BY <1>0, <2>1
    <3> QED BY <1>4, <1>6, <2>1, <3>1
  <2>2. CASE ~(k <= b - a)
    <3>1. k - (b - a) \in 1 .. c - b /\ b + (k - (b - a)) - 1 = a + k - 1
      BY <1>0, <2>2
    <3>2. sr[k] = r[k - (b - a)]
      BY <1>6, <2>2
    <3>3. r[k - (b - a)] = Term(Given, a + k - 1, a + k - 1)
      BY <1>4, <3>1
    <3> QED BY <1>4, <3>2, <3>3
  <2> QED BY <2>1, <2>2
<1>8. u = sr
  BY <1>3, <1>6, <1>7, SeqEqual
<1>9. FlattenSeq(u) = FlattenSeq(s) \o FlattenSeq(r)
  BY <1>1, <1>2, <1>8, FlattenConcat DEF sr
<1> QED BY <1>1, <1>2, <1>3, <1>9

LEMMA SpelledIs ==
    ASSUME n \in Nat, NEW p \in 0 .. n
    PROVE  GivenTerms(p) = Spelled[<<0, p>>]
<1>1. [k \in 1 .. p |-> Term(Given, k - 1, k - 1)] = TermsFrom(0, p)
  <2>1. p - 0 = p /\ \A k \in 1 .. p : 0 + k - 1 = k - 1
    OBVIOUS
  <2> QED BY <2>1 DEF TermsFrom
<1>2. Spelled[<<0, p>>] = FlattenSeq(TermsFrom(0, p))
  <2>1. <<0, p>> \in (0 .. n) \X (0 .. n)
    OBVIOUS
  <2> QED BY <2>1 DEF Spelled, TermsFrom
<1> QED BY <1>1, <1>2 DEF GivenTerms

LEMMA SpelledStays == ASSUME UNCHANGED input PROVE Spelled' = Spelled
<1>1. n' = n /\ algorithm' = algorithm /\ key' = key
  BY DEF input
<1> QED BY <1>1 DEF Spelled, Term, Given, Cell

\* A task that finds its elements as they were given adds what they add.
LEMMA TermsSpelled ==
    ASSUME n \in Nat, Reduction \/ Scan, NEW t, t.first \in 0 .. n, NEW p \in t.first .. n,
           Moves => t.other = t.first,
           \A q \in t.first .. p - 1 :
              /\ mem[<<"first1", q>>] = Given[<<"first1", q>>]
              /\ Moves => mem[<<"first2", q>>] = Given[<<"first2", q>>]
    PROVE  Terms(t, p) = Spelled[<<t.first, p>>]
<1>1. ASSUME NEW k \in 1 .. p - t.first
      PROVE  Term(mem, t.first + k - 1, t.other + k - 1)
                 = Term(Given, t.first + k - 1, t.first + k - 1)
  <2>1. t.first + k - 1 \in t.first .. p - 1
    OBVIOUS
  <2>2. /\ mem[<<"first1", t.first + k - 1>>] = Given[<<"first1", t.first + k - 1>>]
        /\ Moves => mem[<<"first2", t.first + k - 1>>] = Given[<<"first2", t.first + k - 1>>]
    BY <2>1
  <2>3. CASE algorithm = "transform_reduce_2"
    <3>1. Moves
      BY <2>3 DEF Moves
    <3> QED BY <2>2, <2>3, <3>1 DEF Term
  <2>4. CASE algorithm # "transform_reduce_2"
    BY <2>2, <2>4 DEF Term
  <2> QED BY <2>3, <2>4
<1>2. Terms(t, p) = FlattenSeq(TermsFrom(t.first, p))
  BY <1>1 DEF Terms, TermsFrom
<1>3. <<t.first, p>> \in (0 .. n) \X (0 .. n)
  OBVIOUS
<1> QED BY <1>2, <1>3 DEF Spelled, TermsFrom

-----------------------------------------------------------------------------
(* Reductions. *)

LEMMA InitVanishes ==
    /\ InitOfChunk \in Words /\ Without(InitOfChunk, TheInit) = <<>>
    /\ \A v \in Words, w \in Seq(Plain) :
          Without(v \o (InitOfChunk \o w), TheInit) = Without(v, TheInit) \o w
<1>1. InitOfChunk \in Words /\ Without(InitOfChunk, TheInit) = <<>>
  BY Letters, WithoutMark, WithoutNothing DEF InitOfChunk
<1>2. ASSUME NEW v \in Words, NEW w \in Seq(Plain)
      PROVE  Without(v \o (InitOfChunk \o w), TheInit) = Without(v, TheInit) \o w
  <2> DEFINE x == InitOfChunk
  <2>1. w \in Words /\ x \in Words
    BY <1>1, PlainWords
  <2>2. Without(w, TheInit) = w /\ Without(w, TheInit) \in Seq(Plain)
    BY WithoutNone, NoMark
  <2> HIDE DEF x
  <2>3. Without(x \o w, TheInit) = Without(x, TheInit) \o Without(w, TheInit)
    BY <2>1, WithoutConcat DEF Words
  <2>4. Without(x \o w, TheInit) = w
    BY <1>1, <2>2, <2>3, ConcatEmptySeq DEF x
  <2>5. x \o w \in Words
    BY <2>1, Letters
  <2>6. Without(v \o (x \o w), TheInit) = Without(v, TheInit) \o Without(x \o w, TheInit)
    <3> DEFINE y == x \o w
    <3> HIDE DEF y
    <3>0. y \in Words
      BY <2>5 DEF y
    <3>1. Without(v \o y, TheInit) = Without(v, TheInit) \o Without(y, TheInit)
      BY <3>0, WithoutConcat DEF Words
    <3> QED BY <3>1 DEF y
  <2> QED BY <2>4, <2>6 DEF x
<1> QED BY <1>1, <1>2

LEMMA ReductionKept ==
    ASSUME Reduction, mem = Given, UNCHANGED <<input, mem>>,
           \A f \in DOMAIN futures' :
              /\ futures'[f].init = InitOfChunk
              /\ futures'[f].state = "ready" =>
                    futures'[f].value = InitOfChunk \o Spelled[<<futures'[f].first, futures'[f].last>>],
           caller' \in {"chunking", "getting"} =>
              Without(result', TheInit) = Spelled[<<0, Reached'>>],
           caller' = "returned" => Without(result', TheInit) = Spelled[<<0, n>>]
    PROVE  ReductionFits'
<1>1. n' = n /\ algorithm' = algorithm /\ key' = key
  BY DEF input
<1>2. Spelled' = Spelled
  BY SpelledStays
<1>3. Given' = Given
  BY <1>1 DEF Given, Cell
<1>4. InitOfChunk' = InitOfChunk
  BY <1>1 DEF InitOfChunk
<1> QED BY <1>1, <1>2, <1>3, <1>4 DEF ReductionFits

LEMMA ReductionInit == Init => ReductionFits
<1> SUFFICES ASSUME Init PROVE ReductionFits
  OBVIOUS
<1>1. mem = Given /\ DOMAIN futures = {} /\ caller = "called"
  BY DEF Init
<1> QED BY <1>1 DEF ReductionFits

LEMMA WrittenNothing == ASSUME TypeOK PROVE Written(<<>>) = mem
<1>1. DOMAIN <<>> = {}
  OBVIOUS
<1>2. mem = [c \in Cell |-> mem[c]]
  BY InputFits
<1> QED BY <1>1, <1>2 DEF Written

\* Steps of tasks.
LEMMA ReductionTask ==
    ASSUME Inv, ReductionFits, Reduction, UNCHANGED <<input, mem, result, got>>,
           caller' \in {caller, "terminated"},
           DOMAIN futures' = DOMAIN futures,
           \A f \in DOMAIN futures :
              /\ futures'[f].init = futures[f].init
              /\ futures'[f].first = futures[f].first /\ futures'[f].last = futures[f].last
              /\ futures'[f].state = "ready" =>
                    \/ futures[f].state = "ready" /\ futures'[f].value = futures[f].value
                    \/ futures'[f].value = InitOfChunk \o Spelled[<<futures[f].first, futures[f].last>>]
    PROVE  ReductionFits'
<1>1. Reached' = Reached
  <2>1. got = 0 \/ got \in DOMAIN futures
    BY Facts DEF Inv
  <2> QED BY <2>1 DEF Reached
<1>2. \A f \in DOMAIN futures' :
              /\ futures'[f].init = InitOfChunk
              /\ futures'[f].state = "ready" =>
                    futures'[f].value = InitOfChunk \o Spelled[<<futures'[f].first, futures'[f].last>>]
  BY DEF ReductionFits
<1> QED BY <1>1, <1>2, ReductionKept DEF ReductionFits

LEMMA ReductionRun ==
    ASSUME Inv, ReductionFits, NEW f \in DOMAIN futures, Start(f) \/ Throw(f) \/ RunReduction(f)
    PROVE  ReductionFits'
<1> SUFFICES ASSUME Reduction PROVE ReductionFits'
  <2>1. algorithm' = algorithm
    BY DEF Start, Throw, RunReduction, Finish, input
  <2> QED BY <2>1 DEF ReductionFits, Reduction
<1> DEFINE t == futures[f]
<1>1. DOMAIN futures = 1 .. Len(futures) /\ futures \in Seq(TaskRecord) /\ t \in TaskRecord
  BY Facts, TaskFacts DEF Inv
<1>2. CASE Start(f)
  <2>1. /\ UNCHANGED <<input, mem, result, got, caller>>
        /\ futures' = [futures EXCEPT ![f].state = "running"]
    BY <1>2 DEF Start
  <2> QED BY <1>1, <2>1, ReductionTask
<1>3. CASE Throw(f)
  <2>1. /\ UNCHANGED <<input, mem, result, got>> /\ caller' \in {caller, "terminated"}
        /\ futures' = [futures EXCEPT ![f].state = "broken"] \/ futures' = futures
    BY <1>3 DEF Throw, Goto
  <2>2. DOMAIN futures' = DOMAIN futures
    BY <1>1, <2>1
  <2>3. \A g \in DOMAIN futures : \/ futures'[g] = futures[g]
                                  \/ futures'[g] = [futures[g] EXCEPT !.state = "broken"]
    BY <1>1, <2>1
  <2>4. ASSUME NEW g \in DOMAIN futures
        PROVE  /\ futures'[g].init = futures[g].init
               /\ futures'[g].first = futures[g].first /\ futures'[g].last = futures[g].last
               /\ futures'[g].state = "ready" =>
                     futures[g].state = "ready" /\ futures'[g].value = futures[g].value
    <3>1. futures[g] \in TaskRecord
      BY TaskFacts DEF Inv
    <3>2. CASE futures'[g] = futures[g]
      BY <3>2
    <3>3. CASE futures'[g] = [futures[g] EXCEPT !.state = "broken"]
      BY <3>1, <3>3 DEF TaskRecord
    <3> QED BY <2>3, <3>2, <3>3
  <2> QED BY <2>1, <2>2, <2>4, ReductionTask
<1>4. CASE RunReduction(f)
  <2>1. Finish(f, <<>>, t.init \o Terms(t, t.last))
    BY <1>4 DEF RunReduction
  <2>2. /\ UNCHANGED <<input, result, got, caller>> /\ mem' = Written(<<>>)
        /\ futures' = [futures EXCEPT ![f].state = "ready", ![f].value = t.init \o Terms(t, t.last)]
    BY <2>1 DEF Finish
  <2>3. mem' = mem
    BY <2>2, WrittenNothing DEF Inv, Typed
  <2>4. /\ n \in Nat /\ t.first \in 0 .. n /\ t.last \in t.first .. n
        /\ (Moves => t.other = t.first)
    BY TaskShape, SpanFits
  <2>5. Terms(t, t.last) = Spelled[<<t.first, t.last>>]
    <3>1. mem = Given
      BY DEF ReductionFits
    <3> HIDE DEF t
    <3> QED BY <2>4, <3>1, TermsSpelled
  <2>6. t.init = InitOfChunk
    BY DEF ReductionFits
  <2>7. /\ DOMAIN futures' = DOMAIN futures
        /\ futures'[f] = [t EXCEPT !.state = "ready", !.value = t.init \o Terms(t, t.last)]
        /\ \A g \in DOMAIN futures : g # f => futures'[g] = futures[g]
    BY <1>1, <2>2
  <2>8. /\ futures'[f].init = t.init /\ futures'[f].first = t.first /\ futures'[f].last = t.last
        /\ futures'[f].value = InitOfChunk \o Spelled[<<t.first, t.last>>]
    BY <1>1, <2>5, <2>6, <2>7 DEF TaskRecord
  <2> QED BY <2>2, <2>3, <2>7, <2>8, ReductionTask
<1> QED BY <1>2, <1>3, <1>4

\* The chunks before future k reach to where it starts.
LEMMA ReachedIs ==
    ASSUME Inv, caller \notin {"applying", "merging"}
    PROVE  /\ Reached \in 0 .. n
           /\ got < Len(futures) => Reached = futures[got + 1].first
           /\ got = Len(futures) => Reached = first
<1> DEFINE s == Spans
<1>1. Tiles(s, first) /\ Len(s) = Len(futures) /\ DOMAIN s = DOMAIN futures
  BY SpansType DEF Inv, Shape, ListsFit
<1>2. \A f \in DOMAIN futures : s[f][1] = futures[f].first /\ s[f][2] = futures[f].last
  BY SpansType DEF Inv
<1>3. /\ got \in 0 .. Len(futures) /\ Len(futures) \in Nat /\ DOMAIN futures = 1 .. Len(futures)
      /\ n \in Nat
  BY Facts DEF Inv
<1>4. s \in Seq(Nat \X Nat)
  BY SpansType DEF Inv
<1> HIDE DEF s
<1>5. CASE got = 0
  <2>1. got < Len(futures) => futures[1].first = 0
    <3>1. ASSUME got < Len(futures) PROVE s[1][1] = 0 /\ 1 \in DOMAIN futures
      <4>1. Len(s) # 0
        BY <1>1, <1>3, <1>5, <3>1
      <4>2. s # <<>>
        BY <4>1
      <4> QED BY <1>1, <1>3, <1>5, <3>1, <4>2 DEF Tiles
    <3> QED BY <1>2, <3>1
  <2>2. got = Len(futures) => first = 0
    <3>1. ASSUME got = Len(futures) PROVE s = <<>>
      BY <1>1, <1>4, <1>5, <3>1, EmptySeq
    <3> QED BY <1>1, <3>1 DEF Tiles
  <2> QED BY <1>3, <1>5, <2>1, <2>2 DEF Reached
<1>6. CASE got # 0
  <2>1. got \in DOMAIN futures /\ Reached = futures[got].last /\ Reached = s[got][2]
    BY <1>2, <1>3, <1>6 DEF Reached
  <2>2. Reached \in 0 .. n
    BY <2>1, TaskFacts DEF Inv
  <2>3. got < Len(futures) => s[got][2] = s[got + 1][1] /\ got + 1 \in DOMAIN futures
    BY <1>1, <1>3, <1>6 DEF Tiles
  <2>4. got = Len(futures) => s[got][2] = first
    <3>1. s # <<>>
      BY <1>1, <1>3, <1>6
    <3> QED BY <1>1, <3>1 DEF Tiles
  <2> QED BY <1>2, <2>1, <2>2, <2>3, <2>4
<1> QED BY <1>5, <1>6

LEMMA ReductionSubmit == ASSUME Inv, ReductionFits, SubmitReduction PROVE ReductionFits'
<1> DEFINE e == LoopEnd(first, n, ChunkSize(n, num_threads))
           t == Task("chunk", first, e, e, other, InitOfChunk)
<1>1. /\ Reduction /\ caller = "chunking" /\ futures' = Append(futures, t)
      /\ UNCHANGED <<input, caller, got, mem, result>>
  BY DEF SubmitReduction, SubmitChunk, lists
<1>2. got = 0 /\ got' = 0 /\ Reached = 0 /\ Reached' = 0
  BY <1>1 DEF Inv, Shape, GotReady, Reached
<1>3. t.init = InitOfChunk /\ t.state = "queued"
  BY DEF Task
<1> HIDE DEF t
<1>4. /\ futures \in Seq(TaskRecord) /\ Len(futures) \in Nat /\ DOMAIN futures = 1 .. Len(futures)
  BY Facts DEF Inv
<1>5. /\ DOMAIN futures' = 1 .. Len(futures) + 1
      /\ \A g \in 1 .. Len(futures) : futures'[g] = futures[g]
      /\ futures'[Len(futures) + 1] = t
  BY <1>1, <1>4
<1>6. \A f \in DOMAIN futures' :
              /\ futures'[f].init = InitOfChunk
              /\ futures'[f].state = "ready" =>
                    futures'[f].value = InitOfChunk \o Spelled[<<futures'[f].first, futures'[f].last>>]
  <2> SUFFICES ASSUME NEW f \in DOMAIN futures'
               PROVE  /\ futures'[f].init = InitOfChunk
                      /\ futures'[f].state = "ready" =>
                            futures'[f].value
                               = InitOfChunk \o Spelled[<<futures'[f].first, futures'[f].last>>]
    OBVIOUS
  <2>1. CASE f \in DOMAIN futures
    <3>1. futures'[f] = futures[f]
      BY <1>4, <1>5, <2>1
    <3> QED BY <1>1, <2>1, <3>1 DEF ReductionFits
  <2>2. CASE f = Len(futures) + 1
    BY <1>3, <1>5, <2>2
  <2>3. f \in DOMAIN futures \/ f = Len(futures) + 1
    BY <1>4, <1>5
  <2> QED BY <2>1, <2>2, <2>3
<1> QED BY <1>1, <1>2, <1>6, ReductionKept DEF ReductionFits

LEMMA ReductionGet == ASSUME Inv, ReductionFits, GetReduction PROVE ReductionFits'
<1> DEFINE t == futures[got + 1]
<1>1. /\ Reduction /\ caller \in {"getting", "joining"} /\ got < Len(futures) /\ t.state = "ready"
      /\ got' = got + 1 /\ result' = result \o t.value
      /\ UNCHANGED <<input, caller, futures, mem>>
  BY DEF GetReduction, NextArrived, Arrived, ReduceInto
<1>2. caller = "getting"
  BY <1>1, Kinds DEF Inv, Shape, StagesFit
<1>3. /\ got \in 0 .. Len(futures) /\ Len(futures) \in Nat /\ DOMAIN futures = 1 .. Len(futures)
      /\ n \in Nat /\ result \in Words
  BY Facts DEF Inv
<1>4. got + 1 \in DOMAIN futures
  BY <1>1, <1>3
<1>5. t.first \in 0 .. n /\ t.last \in t.first .. n
  BY <1>4, SpanFits
<1>6. t.value = InitOfChunk \o Spelled[<<t.first, t.last>>]
  BY <1>1, <1>4 DEF ReductionFits
<1>7. Without(result, TheInit) = Spelled[<<0, t.first>>]
  <2>1. Reached = t.first
    BY <1>1, <1>2, ReachedIs
  <2> QED BY <1>1, <1>2, <2>1 DEF ReductionFits
<1>8. Reached' = t.last
  BY <1>1, <1>3 DEF Reached
<1> HIDE DEF t
<1>9. Spelled[<<t.first, t.last>>] \in Seq(Plain)
  BY <1>1, <1>3, <1>5, SpelledType
<1>10. Without(result', TheInit) = Without(result, TheInit) \o Spelled[<<t.first, t.last>>]
  BY <1>1, <1>3, <1>6, <1>9, InitVanishes
<1>11. Spelled[<<0, t.last>>] = Spelled[<<0, t.first>>] \o Spelled[<<t.first, t.last>>]
  <2>1. 0 \in 0 .. n /\ t.first \in 0 .. n /\ t.last \in t.first .. n
    BY <1>3, <1>5
  <2> QED BY <1>1, <1>3, <2>1, SpelledJoined
<1> QED BY <1>1, <1>2, <1>7, <1>8, <1>10, <1>11, ReductionKept DEF ReductionFits

LEMMA ReductionCaller ==
    ASSUME Inv, ReductionFits,
           \/ CallReduction \/ ReduceSequentially \/ Chunked \/ ReturnReduction
           \/ Rethrow \/ ThrowSequentially
    PROVE  ReductionFits'
<1> SUFFICES ASSUME Reduction PROVE ReductionFits'
  <2>1. algorithm' = algorithm
    BY DEF CallReduction, ReduceSequentially, Sequentially, Chunked, ReturnReduction, Return,
       Rethrow, ThrowSequentially, input
  <2> QED BY <2>1 DEF ReductionFits, Reduction
<1>0. n \in Nat /\ TypeOK /\ 0 \in 0 .. n
  BY Facts DEF Inv, Typed
<1>1. CASE CallReduction
  <2>1. /\ caller = "called" /\ caller' = "chunking" /\ result' = InitOfChunk
        /\ UNCHANGED <<input, futures, got, mem>>
    BY <1>1 DEF CallReduction, Goto
  <2>2. got = 0
    BY <2>1 DEF Inv, Shape, GotReady
  <2>3. Reached' = 0
    BY <2>1, <2>2 DEF Reached
  <2>4. Without(result', TheInit) = Spelled[<<0, 0>>]
    BY <1>0, <2>1, InitVanishes, SpelledNothing
  <2> QED BY <2>1, <2>3, <2>4, ReductionKept DEF ReductionFits
<1>2. CASE ReduceSequentially
  <2> DEFINE t == WholeRange(<<>>)
  <2>1. /\ caller = "called" /\ mem' = Written(<<>>) /\ result' = InitOfChunk \o Terms(t, n)
        /\ caller' = "returned" /\ UNCHANGED <<input, futures, got>>
    BY <1>2 DEF ReduceSequentially, Sequentially, Goto
  <2>2. mem' = mem /\ mem = Given
    BY <1>0, <2>1, WrittenNothing DEF ReductionFits
  <2>3. t.first = 0 /\ t.other = 0
    BY DEF WholeRange, Task
  <2> HIDE DEF t
  <2>4. Terms(t, n) = Spelled[<<t.first, n>>]
    <3>1. t.first \in 0 .. n /\ n \in t.first .. n /\ (Moves => t.other = t.first)
      BY <1>0, <2>3
    <3> QED BY <1>0, <2>2, <3>1, TermsSpelled
  <2>5. Spelled[<<0, n>>] \in Seq(Plain)
    <3>1. 0 \in 0 .. n /\ n \in 0 .. n
      BY <1>0
    <3> QED BY <1>0, <3>1, SpelledType
  <2>6. Without(InitOfChunk \o Spelled[<<0, n>>], TheInit) = Spelled[<<0, n>>]
    <3> DEFINE w == Spelled[<<0, n>>]
    <3> HIDE DEF w
    <3>1. w \in Seq(Plain) /\ w \in Words /\ InitOfChunk \in Words
      BY <2>5, PlainWords, InitVanishes DEF w
    <3>2. Without(InitOfChunk \o w, TheInit) = Without(InitOfChunk, TheInit) \o Without(w, TheInit)
      BY <3>1, WithoutConcat DEF Words
    <3>3. Without(w, TheInit) = w
      BY <3>1, WithoutNone, NoMark
    <3>4. <<>> \o w = w
      BY <3>1, ConcatEmptySeq
    <3>5. Without(InitOfChunk, TheInit) = <<>>
      BY InitVanishes
    <3> QED BY <3>2, <3>3, <3>4, <3>5 DEF w
  <2>7. Without(result', TheInit) = Spelled[<<0, n>>]
    BY <2>1, <2>3, <2>4, <2>6
  <2> QED BY <2>1, <2>2, <2>7, ReductionKept DEF ReductionFits
<1>3. CASE Chunked \/ Rethrow \/ ThrowSequentially
  <2>1. /\ caller' \in {"getting", "threw"} /\ (caller' = "getting" => caller = "chunking")
        /\ UNCHANGED <<input, futures, got, mem, result>>
    BY <1>3 DEF Chunked, Rethrow, ThrowSequentially, Goto
  <2>2. Reached' = Reached
    BY <2>1 DEF Reached
  <2> QED BY <2>1, <2>2, ReductionKept DEF ReductionFits
<1>4. CASE ReturnReduction
  <2>1. /\ caller \in {"getting", "joining"} /\ got = Len(futures) /\ caller' = "returned"
        /\ UNCHANGED <<input, futures, got, mem, result>>
    BY <1>4 DEF ReturnReduction, Return, Gathered, Goto
  <2>2. caller = "getting" /\ first = n
    BY <2>1, Kinds DEF Inv, Shape, StagesFit
  <2>3. Reached = n
    BY <2>1, <2>2, ReachedIs
  <2> QED BY <2>1, <2>2, <2>3, ReductionKept DEF ReductionFits
<1> QED BY <1>1, <1>2, <1>3, <1>4

LEMMA ReductionStep == Inv /\ ReductionFits /\ [Next]_vars => ReductionFits'
<1> SUFFICES ASSUME Inv, ReductionFits, [Next]_vars PROVE ReductionFits'
  OBVIOUS
<1> SUFFICES ASSUME Reduction PROVE ReductionFits'
  <2>1. algorithm' = algorithm
    BY AlgorithmStays
  <2>2. Reduction' = Reduction
    BY <2>1 DEF Reduction
  <2> QED BY <2>2 DEF ReductionFits
<1>0. ~Elementwise /\ ~Mergesort /\ ~Scan
  BY Kinds
<1>1. CASE \/ CallReduction \/ ReduceSequentially \/ Chunked \/ ReturnReduction
           \/ Rethrow \/ ThrowSequentially
  BY <1>1, ReductionCaller
<1>2. CASE SubmitReduction \/ GetReduction
  BY <1>2, ReductionSubmit, ReductionGet
<1>3. CASE \E f \in DOMAIN futures : Start(f) \/ Throw(f) \/ RunReduction(f)
  BY <1>3, ReductionRun
<1>4. CASE UNCHANGED vars
  <2>1. UNCHANGED <<input, caller, futures, got, mem, result>>
    BY <1>4 DEF vars, input
  <2>2. Reached' = Reached
    BY <2>1 DEF Reached
  <2> QED BY <2>1, <2>2, ReductionKept DEF ReductionFits
<1>5. CASE Next
  <2>1. CASE ElementwiseStep
    BY <2>1, <1>0 DEF ElementwiseStep, ElementsSequentially, CallElementwise, SubmitElements,
       GetElements, ReturnElements, RunElements
  <2>2. CASE MergesortStep
    BY <2>2, <1>0 DEF MergesortStep, SortSequentially, CallMergesort, SubmitSort, GetSubrange,
       BeginRound, PairUp, ForwardLast, EndRound, GetLast, RunSort, RunMerge
  <2>3. CASE NumericStep
    BY <2>3, <1>0, <1>1, <1>2, <1>3 DEF NumericStep, ScanSequentially, CallScan, SubmitSum, GetSum,
       ScanSums, SubmitScan, ScansSubmitted, JoinScan, ReturnScan, RunSum, RunScan
  <2> QED BY <1>5, <2>1, <2>2, <2>3, <1>1, <1>3 DEF Next
<1> QED BY <1>4, <1>5

\* However reduce, transform_reduce or count_if cuts its range and whenever its tasks end,
\* every element goes into the result once and in its place; only init may be in it more than
\* once.
THEOREM ReducesEveryElement == Spec => []ReducesAll
<1>1. Init => Inv /\ ReductionFits
  BY InitInv, ReductionInit
<1>2. (Inv /\ ReductionFits) /\ [Next]_vars => (Inv /\ ReductionFits)'
  BY StepInv, ReductionStep
<1>3. Inv /\ ReductionFits => ReducesAll
  <2> SUFFICES ASSUME Inv, ReductionFits, Reduction, caller = "returned"
               PROVE  Without(result, TheInit) = GivenTerms(n)
    BY DEF ReducesAll
  <2>1. n \in Nat /\ n \in 0 .. n
    BY Facts DEF Inv
  <2> QED BY <2>1, SpelledIs DEF ReductionFits
<1> QED BY <1>1, <1>2, <1>3, PTL DEF Spec

-----------------------------------------------------------------------------
(* Scans. *)

LEMMA ZeroVanishes ==
    /\ \A v \in Words, w \in Seq(Plain) :
          Without(v \o (<<Zero>> \o w), Zero) = Without(v, Zero) \o w
    /\ Without(<<TheInit>>, Zero) = <<TheInit>>
<1>1. ASSUME NEW v \in Words, NEW w \in Seq(Plain)
      PROVE  Without(v \o (<<Zero>> \o w), Zero) = Without(v, Zero) \o w
  <2> DEFINE x == <<Zero>>
  <2>1. w \in Words /\ x \in Words
    BY Letters, PlainWords
  <2>2. Without(w, Zero) = w /\ Without(x, Zero) = <<>>
    BY WithoutNone, WithoutMark, NoMark
  <2> HIDE DEF x
  <2>3. Without(x \o w, Zero) = Without(x, Zero) \o Without(w, Zero)
    BY <2>1, WithoutConcat DEF Words
  <2>4. Without(x \o w, Zero) = w
    BY <2>2, <2>3, ConcatEmptySeq
  <2> DEFINE y == x \o w
  <2>5. y \in Words
    BY <2>1, Letters
  <2> HIDE DEF y
  <2>6. Without(v \o y, Zero) = Without(v, Zero) \o Without(y, Zero)
    BY <2>5, WithoutConcat DEF Words
  <2> QED BY <2>4, <2>6 DEF x, y
<1>2. Without(<<TheInit>>, Zero) = <<TheInit>>
  <2>1. <<TheInit>> \in Seq({TheInit}) /\ Zero \notin {TheInit}
    BY DEF Zero, TheInit
  <2> QED BY <2>1, WithoutNone
<1> QED BY <1>1, <1>2

\* From the word before a chunk to the word before one of its elements.
LEMMA ScanGoesOn ==
    ASSUME n \in Nat, Scan, NEW a \in 0 .. n, NEW b \in a .. n,
           NEW v \in Words, IsScanOf(v, Spelled[<<0, a>>])
    PROVE  IsScanOf(v \o Spelled[<<a, b>>], Spelled[<<0, b>>])
<1> DEFINE x == Spelled[<<0, a>>]
           y == Spelled[<<a, b>>]
<1>1. 0 \in 0 .. n /\ a \in 0 .. n /\ b \in 0 .. n /\ a \in 0 .. n /\ b \in a .. n
  OBVIOUS
<1>2. x \in Seq(Plain) /\ x \in Words /\ y \in Seq(Plain) /\ y \in Words
  BY <1>1, SpelledType
<1>3. Spelled[<<0, b>>] = x \o y
  BY <1>1, SpelledJoined
<1>4. Without(v, Zero) = <<TheInit>> \o x
  BY DEF IsScanOf
<1> HIDE DEF x, y
<1>5. Without(v \o y, Zero) = Without(v, Zero) \o Without(y, Zero)
  <2>1. v \in Seq(Letter) /\ y \in Seq(Letter)
    BY <1>2 DEF Words
  <2> QED BY <2>1, WithoutConcat
<1>6. Without(y, Zero) = y
  BY <1>2, WithoutNone, NoMark
<1>7. Joined(Joined(<<TheInit>>, x), y) = Joined(<<TheInit>>, Joined(x, y))
  <2> DEFINE w == <<TheInit>>
  <2>1. w \in Seq(Letter) /\ x \in Seq(Letter) /\ y \in Seq(Letter)
    BY <1>2, Letters DEF Words
  <2> HIDE DEF w
  <2>2. Joined(Joined(w, x), y) = Joined(w, Joined(x, y))
    BY <2>1, JoinedAnyway
  <2> QED BY <2>2 DEF w
<1>8. (<<TheInit>> \o x) \o y = <<TheInit>> \o (x \o y)
  BY <1>7 DEF Joined
<1>9. Without(v \o y, Zero) = <<TheInit>> \o (x \o y)
  BY <1>4, <1>5, <1>6, <1>8
<1> QED BY <1>3, <1>9 DEF IsScanOf, y

LEMMA ScanKept ==
    ASSUME Scan, UNCHANGED input,
           caller' # "returned" =>
              \A p \in 0 .. n - 1 :
                 dest # "first1" \/ ~Scanned(p)' => mem'[<<"first1", p>>] = <<<<"first1", p>>>>,
           caller' \in {"chunking", "getting"} =>
              \A f \in DOMAIN futures' : futures'[f].part = "chunk",
           caller' \in {"applying", "joining"} =>
              \A f \in DOMAIN futures' : futures'[f].part = "scan",
           \A f \in DOMAIN futures' : SumFits(Spelled, futures'[f]) /\ StartFits(Spelled, futures'[f]),
           caller' = "getting" =>
              \A k \in DOMAIN sums' : sums'[k] = <<Zero>> \o Spelled[<<ranges'[k][1], ranges'[k][2]>>],
           caller' = "applying" =>
              \A k \in DOMAIN sums' : IsScanOf(sums'[k], Spelled[<<0, ranges'[k][1]>>]),
           \A p \in 0 .. n - 1 :
              caller' = "returned" \/ Scanned(p)' => IsScanOf(mem'[<<dest, p>>], Spelled[<<0, p>>])
    PROVE  ScanFits'
<1>1. n' = n /\ dest' = dest
  BY DEF input, dest
<1>2. Spelled' = Spelled
  BY SpelledStays
<1> QED BY <1>1, <1>2 DEF ScanFits

\* Steps that write nothing, after which the same tasks are done.
LEMMA ScanQuiet ==
    ASSUME Scan, ScanFits, UNCHANGED <<input, mem>>, caller # "returned",
           \A p \in 0 .. n - 1 : Scanned(p)' <=> Scanned(p),
           caller' \in {"chunking", "getting"} =>
              \A f \in DOMAIN futures' : futures'[f].part = "chunk",
           caller' \in {"applying", "joining"} =>
              \A f \in DOMAIN futures' : futures'[f].part = "scan",
           \A f \in DOMAIN futures' : SumFits(Spelled, futures'[f]) /\ StartFits(Spelled, futures'[f]),
           caller' = "getting" =>
              \A k \in DOMAIN sums' : sums'[k] = <<Zero>> \o Spelled[<<ranges'[k][1], ranges'[k][2]>>],
           caller' = "applying" =>
              \A k \in DOMAIN sums' : IsScanOf(sums'[k], Spelled[<<0, ranges'[k][1]>>]),
           caller' = "returned" => \A p \in 0 .. n - 1 : Scanned(p)
    PROVE  ScanFits'
<1>1. /\ \A p \in 0 .. n - 1 : Scanned(p) => IsScanOf(mem[<<dest, p>>], Spelled[<<0, p>>])
      /\ \A p \in 0 .. n - 1 :
            dest # "first1" \/ ~Scanned(p) => mem[<<"first1", p>>] = <<<<"first1", p>>>>
  BY DEF ScanFits
<1>2. /\ \A p \in 0 .. n - 1 :
            caller' = "returned" \/ Scanned(p)' => IsScanOf(mem'[<<dest, p>>], Spelled[<<0, p>>])
      /\ \A p \in 0 .. n - 1 :
            dest # "first1" \/ ~Scanned(p)' => mem'[<<"first1", p>>] = <<<<"first1", p>>>>
  BY <1>1
<1> QED BY <1>2, ScanKept

LEMMA ScanInit == Init => ScanFits
<1> SUFFICES ASSUME Init, Scan PROVE ScanFits
  BY DEF ScanFits
<1>1. mem = Given /\ DOMAIN futures = {} /\ caller = "called"
  BY DEF Init
<1>2. \A p \in 0 .. n - 1 : ~Scanned(p)
  BY <1>1 DEF Scanned
<1>3. \A p \in 0 .. n - 1 : mem[<<"first1", p>>] = <<<<"first1", p>>>>
  BY <1>1, GivenIs
<1> QED BY <1>1, <1>2, <1>3 DEF ScanFits

\* A task that is not done is alone with its elements.
LEMMA NotYetScanned ==
    ASSUME Inv, Scan, NEW f \in DOMAIN futures, futures[f].state # "ready" \/ futures[f].part # "scan",
           NEW p \in futures[f].first .. futures[f].last - 1
    PROVE  ~Scanned(p) /\ p \in 0 .. n - 1
<1>1. ASSUME NEW g \in DOMAIN futures, g # f PROVE p \notin futures[g].first .. futures[g].last - 1
  BY <1>1, SpansApart
<1>2. p \in 0 .. n - 1
  <2>1. n \in Nat /\ futures[f].first \in 0 .. n /\ futures[f].last \in futures[f].first .. n
    BY SpanFits
  <2> QED BY <2>1
<1> QED BY <1>1, <1>2 DEF Scanned

\* It finds them as they were given.
LEMMA FindsGiven ==
    ASSUME Inv, ScanFits, Scan, NEW f \in DOMAIN futures, futures[f].state = "running",
           NEW p \in futures[f].first .. futures[f].last
    PROVE  Terms(futures[f], p) = Spelled[<<futures[f].first, p>>]
<1> DEFINE t == futures[f]
<1>1. n \in Nat /\ t.first \in 0 .. n /\ t.last \in t.first .. n /\ ~Moves
  BY SpanFits DEF Scan, Moves
<1>2. caller # "returned"
  BY DEF Inv, Shape, GotReady
<1>3. ASSUME NEW q \in t.first .. p - 1 PROVE mem[<<"first1", q>>] = Given[<<"first1", q>>]
  <2>1. q \in t.first .. t.last - 1
    BY <1>1
  <2>2. ~Scanned(q) /\ q \in 0 .. n - 1
    BY <2>1, NotYetScanned
  <2>3. mem[<<"first1", q>>] = <<<<"first1", q>>>>
    BY <1>2, <2>2 DEF ScanFits
  <2> QED BY <2>2, <2>3, GivenIs
<1>4. p \in t.first .. n
  BY <1>1
<1> HIDE DEF t
<1>5. Terms(t, p) = Spelled[<<t.first, p>>]
  BY <1>1, <1>3, <1>4, TermsSpelled
<1> QED BY <1>5 DEF t

\* The steps of the tasks of the first pass, and of any task that starts or throws.
LEMMA ScanTask ==
    ASSUME Inv, ScanFits, Scan, NEW f \in DOMAIN futures, Start(f) \/ Throw(f) \/ RunSum(f)
    PROVE  ScanFits'
<1> DEFINE t == futures[f]
           x == futures'[f]
<1>1. DOMAIN futures = 1 .. Len(futures) /\ futures \in Seq(TaskRecord) /\ t \in TaskRecord
  BY Facts, TaskFacts DEF Inv
<1>2. /\ UNCHANGED <<input, sums, ranges>> /\ caller' \in {caller, "terminated"}
      /\ t.state # "ready" /\ DOMAIN futures' = DOMAIN futures
      /\ \A g \in DOMAIN futures : g # f => futures'[g] = futures[g]
  <2>1. CASE Start(f)
    BY <1>1, <2>1 DEF Start, lists
  <2>2. CASE Throw(f)
    BY <1>1, <2>2 DEF Throw, lists, Goto
  <2>3. CASE RunSum(f)
    <3>1. Finish(f, <<>>, t.init \o Terms(t, t.last))
      BY <2>3 DEF RunSum
    <3>2. /\ futures' = [futures EXCEPT ![f].state = "ready", ![f].value = t.init \o Terms(t, t.last)]
          /\ UNCHANGED <<input, sums, ranges, caller>> /\ t.state = "running"
      BY <3>1 DEF Finish, lists
    <3> QED BY <1>1, <3>2
  <2> QED BY <2>1, <2>2, <2>3
<1>3. mem' = mem
  <2>1. CASE Start(f) \/ Throw(f)
    BY <2>1 DEF Start, Throw
  <2>2. CASE RunSum(f)
    <3>1. mem' = Written(<<>>)
      BY <2>2 DEF RunSum, Finish
    <3> QED BY <3>1, WrittenNothing DEF Inv, Typed
  <2> QED BY <2>1, <2>2
<1>4. SumFits(Spelled, t) /\ StartFits(Spelled, t)
  BY DEF ScanFits
<1>5. /\ x.part = t.part /\ x.first = t.first /\ x.last = t.last /\ x.init = t.init
      /\ x.state = "ready" =>
            t.part = "chunk" /\ x.value = <<Zero>> \o Spelled[<<t.first, t.last>>]
  <2>1. CASE Start(f)
    <3>1. x = [t EXCEPT !.state = "running"]
      BY <1>1, <2>1 DEF Start
    <3> HIDE DEF x, t
    <3> QED BY <1>1, <3>1 DEF TaskRecord
  <2>2. CASE Throw(f)
    <3>1. x = [t EXCEPT !.state = "broken"] \/ x = t
      BY <1>1, <2>2 DEF Throw
    <3> HIDE DEF x, t
    <3>2. CASE x = t
      BY <1>2, <3>2
    <3>3. CASE x = [t EXCEPT !.state = "broken"]
      BY <1>1, <3>3 DEF TaskRecord
    <3> QED BY <3>1, <3>2, <3>3
  <2>3. CASE RunSum(f)
    <3>1. t.part = "chunk" /\ Finish(f, <<>>, t.init \o Terms(t, t.last))
      BY <2>3 DEF RunSum
    <3>2. x = [t EXCEPT !.state = "ready", !.value = t.init \o Terms(t, t.last)]
      BY <1>1, <3>1 DEF Finish
    <3>3. t.init = <<Zero>>
      BY <1>4, <3>1 DEF SumFits
    <3>4. Terms(t, t.last) = Spelled[<<t.first, t.last>>]
      <4>1. t.last \in t.first .. t.last
        BY SpanFits
      <4>2. t.state = "running"
        BY <3>1 DEF Finish
      <4> QED BY <4>1, <4>2, FindsGiven
    <3> HIDE DEF x, t
    <3>5. x.value = <<Zero>> \o Spelled[<<t.first, t.last>>]
      BY <1>1, <3>2, <3>3, <3>4 DEF TaskRecord
    <3>6. x.part = t.part /\ x.first = t.first /\ x.last = t.last /\ x.init = t.init
      BY <1>1, <3>2 DEF TaskRecord
    <3> QED BY <3>1, <3>5, <3>6
  <2> QED BY <2>1, <2>2, <2>3
<1>6. SumFits(Spelled, x) /\ StartFits(Spelled, x)
  <2> HIDE DEF x, t
  <2>1. SumFits(Spelled, x)
    BY <1>4, <1>5 DEF SumFits
  <2>2. StartFits(Spelled, x)
    BY <1>4, <1>5 DEF StartFits
  <2> QED BY <2>1, <2>2
<1>7. ASSUME NEW p \in 0 .. n - 1 PROVE Scanned(p)' <=> Scanned(p)
  <2>1. ~(t.part = "scan" /\ t.state = "ready") /\ ~(x.part = "scan" /\ x.state = "ready")
    BY <1>2, <1>5
  <2> HIDE DEF x
  <2>2. Scanned(p) <=> \E g \in DOMAIN futures \ {f} :
                          /\ futures[g].part = "scan" /\ futures[g].state = "ready"
                          /\ p \in futures[g].first .. futures[g].last - 1
    BY <2>1 DEF Scanned
  <2>3. Scanned(p)' <=> \E g \in DOMAIN futures \ {f} :
                          /\ futures'[g].part = "scan" /\ futures'[g].state = "ready"
                          /\ p \in futures'[g].first .. futures'[g].last - 1
    BY <1>2, <2>1 DEF Scanned, x
  <2> QED BY <1>2, <2>2, <2>3
<1>8. caller # "returned" /\ caller' # "returned"
  BY <1>2 DEF Inv, Shape, GotReady
<1>9. \A g \in DOMAIN futures' :
         /\ SumFits(Spelled, futures'[g]) /\ StartFits(Spelled, futures'[g])
         /\ futures'[g].part = futures[g].part
  BY <1>2, <1>5, <1>6 DEF ScanFits
<1> HIDE DEF x, t
<1> QED BY <1>2, <1>3, <1>7, <1>8, <1>9, ScanQuiet DEF ScanFits

\* What the scan of a chunk, or of the whole range, writes.
LEMMA ScanWrites ==
    ASSUME TypeOK, Scan, NEW t, t.first \in 0 .. n, t.last \in t.first .. n, t.other = t.first,
           t.init \in Words, StartFits(Spelled, t), t.part = "scan",
           \A p \in t.first .. t.last : Terms(t, p) = Spelled[<<t.first, p>>]
    PROVE  /\ \A p \in t.first .. t.last - 1 :
                 IsScanOf(Written(ScanEffect(t))[<<dest, p>>], Spelled[<<0, p>>])
           /\ \A b \in Buffer, p \in 0 .. n - 1 :
                 b # dest \/ p \notin t.first .. t.last - 1
                    => Written(ScanEffect(t))[<<b, p>>] = mem[<<b, p>>]
<1>0. n \in Nat /\ dest \in Buffer
  BY InputFits
<1>1. DOMAIN ScanEffect(t) = {dest} \X (t.first .. t.last - 1)
  <2>1. t.other + (t.last - t.first) - 1 = t.last - 1
    BY <1>0
  <2>2. DOMAIN ScanEffect(t) = Span(dest, t.other, Length(t))
    BY DEF ScanEffect
  <2> QED BY <2>1, <2>2 DEF Span, Length
<1>2. ASSUME NEW p \in t.first .. t.last - 1
      PROVE  IsScanOf(Written(ScanEffect(t))[<<dest, p>>], Spelled[<<0, p>>])
  <2>1. <<dest, p>> \in Cell /\ <<dest, p>> \in DOMAIN ScanEffect(t)
    <3>1. p \in 0 .. n - 1
      BY <1>0
    <3> QED BY <1>0, <1>1, <3>1, CellAt
  <2>2. Written(ScanEffect(t))[<<dest, p>>] = ScanEffect(t)[<<dest, p>>]
    BY <2>1 DEF Written
  <2>3. ScanEffect(t)[<<dest, p>>] = t.init \o Terms(t, t.first + (p - t.other))
    BY <2>1 DEF ScanEffect
  <2>4. t.first + (p - t.other) = p
    BY <1>0
  <2>5. ScanEffect(t)[<<dest, p>>] = t.init \o Spelled[<<t.first, p>>]
    <3>1. Terms(t, p) = Spelled[<<t.first, p>>]
      BY <1>0
    <3> QED BY <2>3, <2>4, <3>1
  <2>6. IsScanOf(t.init \o Spelled[<<t.first, p>>], Spelled[<<0, p>>])
    <3>1. p \in t.first .. n
      BY <1>0
    <3>2. IsScanOf(t.init, Spelled[<<0, t.first>>])
      BY DEF StartFits
    <3> QED BY <1>0, <3>1, <3>2, ScanGoesOn
  <2> QED BY <2>2, <2>5, <2>6
<1>3. ASSUME NEW b \in Buffer, NEW p \in 0 .. n - 1, b # dest \/ p \notin t.first .. t.last - 1
      PROVE  Written(ScanEffect(t))[<<b, p>>] = mem[<<b, p>>]
  <2>1. <<b, p>> \in Cell /\ <<b, p>> \notin DOMAIN ScanEffect(t)
    BY <1>1, <1>3, CellAt
  <2> QED BY <2>1 DEF Written
<1> QED BY <1>2, <1>3

\* A task of the second pass.
LEMMA ScanRun ==
    ASSUME Inv, ScanFits, Scan, NEW f \in DOMAIN futures, RunScan(f)
    PROVE  ScanFits'
<1> DEFINE t == futures[f]
           x == futures'[f]
<1>1. DOMAIN futures = 1 .. Len(futures) /\ futures \in Seq(TaskRecord) /\ t \in TaskRecord /\ TypeOK
  BY Facts, TaskFacts DEF Inv, Typed
<1>2. t.part = "scan" /\ t.state = "running" /\ mem' = Written(ScanEffect(t))
      /\ UNCHANGED <<input, caller, sums, ranges>>
      /\ futures' = [futures EXCEPT ![f].state = "ready", ![f].value = <<>>]
  BY DEF RunScan, Finish, lists
<1>3. DOMAIN futures' = DOMAIN futures
      /\ \A g \in DOMAIN futures : g # f => futures'[g] = futures[g]
  BY <1>1, <1>2
<1>4. x = [t EXCEPT !.state = "ready", !.value = <<>>]
  BY <1>1, <1>2
<1>5. x.part = "scan" /\ x.first = t.first /\ x.last = t.last /\ x.init = t.init /\ x.state = "ready"
  <2> HIDE DEF x, t
  <2> QED BY <1>1, <1>2, <1>4 DEF TaskRecord
<1>6. StartFits(Spelled, t)
  BY DEF ScanFits
<1>7. SumFits(Spelled, x) /\ StartFits(Spelled, x)
  <2> HIDE DEF x, t
  <2> QED BY <1>2, <1>5, <1>6 DEF SumFits, StartFits
<1>8. n \in Nat /\ t.first \in 0 .. n /\ t.last \in t.first .. n /\ t.other = t.first /\ t.init \in Words
  BY <1>2, TaskShape, SpanFits
<1>9. \A p \in t.first .. t.last : Terms(t, p) = Spelled[<<t.first, p>>]
  BY <1>2, FindsGiven
<1>10. ASSUME NEW p \in 0 .. n - 1
       PROVE  Scanned(p)' <=> Scanned(p) \/ p \in t.first .. t.last - 1
  <2> HIDE DEF x
  <2>1. Scanned(p) <=> \E g \in DOMAIN futures \ {f} :
                          /\ futures[g].part = "scan" /\ futures[g].state = "ready"
                          /\ p \in futures[g].first .. futures[g].last - 1
    BY <1>2 DEF Scanned
  <2>2. Scanned(p)' <=> \/ p \in x.first .. x.last - 1
                        \/ \E g \in DOMAIN futures \ {f} :
                              /\ futures'[g].part = "scan" /\ futures'[g].state = "ready"
                              /\ p \in futures'[g].first .. futures'[g].last - 1
    BY <1>3, <1>5 DEF Scanned, x
  <2> QED BY <1>3, <1>5, <2>1, <2>2
<1>11. caller # "returned" /\ caller' # "returned"
  BY <1>2 DEF Inv, Shape, GotReady
<1>12. /\ \A p \in t.first .. t.last - 1 : IsScanOf(mem'[<<dest, p>>], Spelled[<<0, p>>])
       /\ \A b \in Buffer, p \in 0 .. n - 1 :
             b # dest \/ p \notin t.first .. t.last - 1 => mem'[<<b, p>>] = mem[<<b, p>>]
  <2> HIDE DEF t
  <2> QED BY <1>1, <1>2, <1>6, <1>8, <1>9, ScanWrites
<1>13. \A g \in DOMAIN futures' :
         /\ SumFits(Spelled, futures'[g]) /\ StartFits(Spelled, futures'[g])
         /\ futures'[g].part = futures[g].part
  BY <1>2, <1>3, <1>5, <1>7 DEF ScanFits
<1>14. ASSUME NEW p \in 0 .. n - 1, dest # "first1" \/ ~Scanned(p)'
       PROVE  mem'[<<"first1", p>>] = <<<<"first1", p>>>>
  <2>1. dest # "first1" \/ ~Scanned(p)
    BY <1>10, <1>14
  <2>2. mem[<<"first1", p>>] = <<<<"first1", p>>>>
    BY <1>11, <2>1 DEF ScanFits
  <2>3. mem'[<<"first1", p>>] = mem[<<"first1", p>>]
    BY <1>10, <1>12, <1>14 DEF Buffer
  <2> QED BY <2>2, <2>3
<1>15. ASSUME NEW p \in 0 .. n - 1, Scanned(p)'
       PROVE  IsScanOf(mem'[<<dest, p>>], Spelled[<<0, p>>])
  <2>1. CASE p \in t.first .. t.last - 1
    BY <1>12, <2>1
  <2>2. CASE p \notin t.first .. t.last - 1
    <3>1. IsScanOf(mem[<<dest, p>>], Spelled[<<0, p>>])
      BY <1>10, <1>15, <2>2 DEF ScanFits
    <3>2. mem'[<<dest, p>>] = mem[<<dest, p>>]
      BY <1>1, <1>12, <2>2, InputFits
    <3> QED BY <3>1, <3>2
  <2> QED BY <2>1, <2>2
<1> HIDE DEF x, t
<1> QED BY <1>2, <1>3, <1>11, <1>13, <1>14, <1>15, ScanKept DEF ScanFits

\* A pass submits a task.
LEMMA ScanSubmit == ASSUME Inv, ScanFits, SubmitSum \/ SubmitScan PROVE ScanFits'
<1>1. PICK t \in TaskRecord :
         /\ futures' = Append(futures, t) /\ t.state = "queued"
         /\ SumFits(Spelled, t) /\ StartFits(Spelled, t)
         /\ \/ caller = "chunking" /\ t.part = "chunk"
            \/ caller = "applying" /\ t.part = "scan"
  <2>0. n \in Nat /\ first \in 0 .. n /\ other \in 0 .. n /\ num_threads \in Nat \ {0}
    BY Facts DEF Inv
  <2>1. CASE SubmitSum
    <3> DEFINE e == LoopEnd(first, n, ChunkSize(n, num_threads))
               t == Task("chunk", first, e, e, other, <<Zero>>)
    <3>1. caller = "chunking" /\ first < n /\ futures' = Append(futures, t)
      BY <2>1 DEF SubmitSum, SubmitChunk
    <3>2. e \in first + 1 .. n
      BY <2>0, <3>1, LoopEndFits
    <3> HIDE DEF e
    <3>3. e \in 0 .. n
      BY <2>0, <3>2
    <3>4. t \in TaskRecord
      BY <2>0, <3>3, Letters DEF Task, TaskRecord
    <3>5. t.part = "chunk" /\ t.state = "queued" /\ t.init = <<Zero>>
      BY DEF Task
    <3> HIDE DEF t
    <3>6. SumFits(Spelled, t) /\ StartFits(Spelled, t)
      BY <3>5 DEF SumFits, StartFits
    <3> WITNESS t \in TaskRecord
    <3>7. caller = "chunking" /\ futures' = Append(futures, t)
      BY <3>1
    <3> QED BY <3>5, <3>6, <3>7
  <2>2. CASE SubmitScan
    <3> DEFINE r == ranges[i]
               t == Task("scan", r[1], r[2], r[2], r[1], sums[i])
    <3>1. Scan /\ caller = "applying" /\ i <= Len(ranges) /\ futures' = Append(futures, t)
      BY <2>2 DEF SubmitScan
    <3>2. i \in DOMAIN ranges /\ i \in DOMAIN sums
      BY <3>1, Facts DEF Inv, Shape, ListsFit
    <3>3. r[1] \in 0 .. n /\ r[2] \in 0 .. n /\ sums[i] \in Words
      <4>1. ranges[i] \in (0 .. n) \X (0 .. n)
        BY <3>2, Facts DEF Inv
      <4>2. sums[i] \in Words
        BY <3>2, Facts DEF Inv
      <4> QED BY <4>1, <4>2
    <3>4. IsScanOf(sums[i], Spelled[<<0, r[1]>>])
      BY <3>1, <3>2 DEF ScanFits
    <3> HIDE DEF r
    <3>5. t \in TaskRecord
      BY <3>3, Letters DEF Task, TaskRecord
    <3>6. t.part = "scan" /\ t.state = "queued" /\ t.init = sums[i] /\ t.first = r[1]
      BY DEF Task
    <3> HIDE DEF t
    <3> QED BY <3>1, <3>4, <3>5, <3>6 DEF SumFits, StartFits
  <2> QED BY <2>1, <2>2
<1>2. Scan /\ UNCHANGED <<input, caller, mem, ranges, sums>>
  BY DEF SubmitSum, SubmitScan, SubmitChunk, lists
<1>3. /\ futures \in Seq(TaskRecord) /\ Len(futures) \in Nat /\ DOMAIN futures = 1 .. Len(futures)
  BY Facts DEF Inv
<1>4. /\ DOMAIN futures' = 1 .. Len(futures) + 1
      /\ \A g \in 1 .. Len(futures) : futures'[g] = futures[g]
      /\ futures'[Len(futures) + 1] = t
  BY <1>1, <1>3, AppendIs
<1>5. DOMAIN futures' = DOMAIN futures \union {Len(futures) + 1}
  BY <1>3, <1>4
<1>6. ASSUME NEW p \in 0 .. n - 1 PROVE Scanned(p)' <=> Scanned(p)
  <2>1. Scanned(p)' <=> \E g \in DOMAIN futures :
                          /\ futures'[g].part = "scan" /\ futures'[g].state = "ready"
                          /\ p \in futures'[g].first .. futures'[g].last - 1
    BY <1>1, <1>4, <1>5 DEF Scanned
  <2> QED BY <1>3, <1>4, <2>1 DEF Scanned
<1>7. \A g \in DOMAIN futures' :
         /\ SumFits(Spelled, futures'[g]) /\ StartFits(Spelled, futures'[g])
         /\ caller \in {"chunking", "getting"} => futures'[g].part = "chunk"
         /\ caller \in {"applying", "joining"} => futures'[g].part = "scan"
  <2>1. \A g \in DOMAIN futures :
           /\ SumFits(Spelled, futures[g]) /\ StartFits(Spelled, futures[g])
           /\ caller \in {"chunking", "getting"} => futures[g].part = "chunk"
           /\ caller \in {"applying", "joining"} => futures[g].part = "scan"
    BY <1>2 DEF ScanFits
  <2> QED BY <1>1, <1>3, <1>4, <1>5, <2>1
<1> QED BY <1>1, <1>2, <1>6, <1>7, ScanQuiet DEF ScanFits

\* The caller gets the sum of a chunk.
LEMMA ScanGet == ASSUME Inv, ScanFits, GetSum PROVE ScanFits'
<1> DEFINE t == futures[got + 1]
<1>1. /\ Scan /\ caller = "getting" /\ got < Len(futures) /\ t.state = "ready"
      /\ UNCHANGED <<input, caller, futures, mem>>
      /\ ranges' = Append(ranges, <<t.first, t.last>>) /\ sums' = Append(sums, t.value)
  BY DEF GetSum, NextArrived, Arrived
<1>2. got + 1 \in DOMAIN futures
  BY <1>1, Facts DEF Inv
<1>3. t.value = <<Zero>> \o Spelled[<<t.first, t.last>>] /\ t.value \in Words
      /\ t.first \in 0 .. n /\ t.last \in 0 .. n
  <2>1. t.part = "chunk"
    BY <1>1, <1>2 DEF ScanFits
  <2> QED BY <1>1, <1>2, <2>1, TaskFacts DEF ScanFits, SumFits, Inv
<1> HIDE DEF t
<1> DEFINE len == Len(ranges)
<1>4. /\ len \in Nat /\ Len(sums) = len /\ sums \in Seq(Words) /\ ranges \in Seq((0 .. n) \X (0 .. n))
      /\ DOMAIN sums = 1 .. len
  BY <1>1, Facts DEF Inv, Shape, ListsFit
<1>5. /\ DOMAIN sums' = 1 .. len + 1
      /\ \A k \in 1 .. len : sums'[k] = sums[k] /\ ranges'[k] = ranges[k]
      /\ sums'[len + 1] = t.value /\ ranges'[len + 1] = <<t.first, t.last>>
  <2>1. /\ DOMAIN sums' = 1 .. len + 1 /\ \A k \in 1 .. len : sums'[k] = sums[k]
        /\ sums'[len + 1] = t.value
    BY <1>1, <1>3, <1>4, AppendIs
  <2>2. <<t.first, t.last>> \in (0 .. n) \X (0 .. n)
    BY <1>3
  <2>3. /\ \A k \in 1 .. len : ranges'[k] = ranges[k]
        /\ ranges'[len + 1] = <<t.first, t.last>>
    BY <1>1, <1>4, <2>2, AppendIs
  <2> QED BY <2>1, <2>3
<1> HIDE DEF len
<1>6. \A k \in DOMAIN sums' : sums'[k] = <<Zero>> \o Spelled[<<ranges'[k][1], ranges'[k][2]>>]
  <2> SUFFICES ASSUME NEW k \in DOMAIN sums'
               PROVE  sums'[k] = <<Zero>> \o Spelled[<<ranges'[k][1], ranges'[k][2]>>]
    OBVIOUS
  <2>1. CASE k \in 1 .. len
    <3>1. sums[k] = <<Zero>> \o Spelled[<<ranges[k][1], ranges[k][2]>>]
      BY <1>1, <1>4, <2>1 DEF ScanFits
    <3> QED BY <1>5, <2>1, <3>1
  <2>2. CASE k = len + 1
    <3>1. sums'[k] = t.value /\ ranges'[k] = <<t.first, t.last>>
      BY <1>5, <2>2
    <3>2. ranges'[k][1] = t.first /\ ranges'[k][2] = t.last
      BY <3>1
    <3> QED BY <1>3, <3>1, <3>2
  <2>3. k \in 1 .. len \/ k = len + 1
    BY <1>4, <1>5
  <2> QED BY <2>1, <2>2, <2>3
<1>7. \A p \in 0 .. n - 1 : Scanned(p)' <=> Scanned(p)
  BY <1>1 DEF Scanned
<1> QED BY <1>1, <1>6, <1>7, ScanQuiet DEF ScanFits

LEMMA SubSeqGrows ==
    ASSUME NEW S, NEW s \in Seq(S), NEW l \in Nat, l + 1 \in 1 .. Len(s)
    PROVE  SubSeq(s, 1, l + 1) = Append(SubSeq(s, 1, l), s[l + 1])
<1>1. Len(s) \in Nat /\ DOMAIN s = 1 .. Len(s)
  OBVIOUS
<1>2. /\ SubSeq(s, 1, l + 1) \in Seq(S) /\ Len(SubSeq(s, 1, l + 1)) = l + 1
      /\ \A k \in 1 .. l + 1 : SubSeq(s, 1, l + 1)[k] = s[k]
  BY <1>1
<1> DEFINE v == SubSeq(s, 1, l)
           u == SubSeq(s, 1, l + 1)
           x == s[l + 1]
<1>3. v \in Seq(S) /\ Len(v) = l /\ \A k \in 1 .. l : v[k] = s[k]
  BY <1>1
<1>4. x \in S
  BY <1>1
<1> HIDE DEF v, u, x
<1>5. /\ Append(v, x) \in Seq(S) /\ Len(Append(v, x)) = l + 1
      /\ \A k \in 1 .. l : Append(v, x)[k] = v[k]
      /\ Append(v, x)[l + 1] = x
  BY <1>3, <1>4, AppendIs
<1>6. ASSUME NEW k \in 1 .. l + 1 PROVE u[k] = Append(v, x)[k]
  <2>1. CASE k = l + 1
    BY <1>2, <1>5, <2>1 DEF u, x
  <2>2. CASE k \in 1 .. l
    BY <1>2, <1>3, <1>5, <2>2 DEF u
  <2>3. k = l + 1 \/ k \in 1 .. l
    OBVIOUS
  <2> QED BY <2>1, <2>2, <2>3
<1>7. u = Append(v, x)
  BY <1>2, <1>5, <1>6, SeqEqual DEF u
<1> QED BY <1>7 DEF u, v, x

\* The sums of the first chunks, one after the other.
LEMMA SumsSpelled ==
    ASSUME n \in Nat, Scan, NEW s \in Seq(Words), NEW r \in Seq((0 .. n) \X (0 .. n)),
           Len(s) = Len(r), Tiles(r, n),
           \A k \in DOMAIN s : s[k] = <<Zero>> \o Spelled[<<r[k][1], r[k][2]>>],
           NEW k \in 1 .. Len(s)
    PROVE  /\ FlattenSeq(SubSeq(s, 1, k - 1)) \in Words
           /\ Without(FlattenSeq(SubSeq(s, 1, k - 1)), Zero) = Spelled[<<0, r[k][1]>>]
<1> DEFINE End(l) == IF l = 0 THEN 0 ELSE r[l][2]
           w(l) == FlattenSeq(SubSeq(s, 1, l))
           P == {l \in Nat : l <= Len(s) => w(l) \in Words /\ Without(w(l), Zero) = Spelled[<<0, End(l)>>]}
<1>0. /\ Len(s) \in Nat /\ DOMAIN s = 1 .. Len(s) /\ DOMAIN r = 1 .. Len(s)
      /\ \A l \in 1 .. Len(s) : /\ r[l][1] \in 0 .. n /\ r[l][2] \in 0 .. n /\ s[l] \in Words
                                /\ r[l][1] < r[l][2]
  <2>1. Len(s) \in Nat /\ DOMAIN s = 1 .. Len(s) /\ DOMAIN r = 1 .. Len(s)
        /\ \A l \in 1 .. Len(s) : s[l] \in Words
    OBVIOUS
  <2>2. \A l \in 1 .. Len(s) : r[l] \in (0 .. n) \X (0 .. n)
    BY <2>1
  <2>3. \A l \in 1 .. Len(s) : r[l][1] < r[l][2]
    BY <2>1 DEF Tiles
  <2> QED BY <2>1, <2>2, <2>3
<1>1. 0 \in P
  <2>1. SubSeq(s, 1, 0) = <<>>
    OBVIOUS
  <2>2. w(0) = <<>> /\ w(0) \in Words
    BY <2>1, FlattenNothing, Letters
  <2>3. 0 \in 0 .. n
    OBVIOUS
  <2>4. Spelled[<<0, End(0)>>] = <<>>
    BY <2>3, SpelledNothing
  <2> HIDE DEF w, End
  <2> QED BY <2>2, <2>4, WithoutNothing
<1>2. ASSUME NEW l \in Nat, l \in P PROVE l + 1 \in P
  <2> SUFFICES ASSUME l + 1 <= Len(s)
               PROVE  w(l + 1) \in Words /\ Without(w(l + 1), Zero) = Spelled[<<0, End(l + 1)>>]
    OBVIOUS
  <2> DEFINE a == r[l + 1][1]
             b == r[l + 1][2]
             y == Spelled[<<a, b>>]
             c == s[l + 1]
  <2>1. l + 1 \in 1 .. Len(s) /\ l <= Len(s)
    BY <1>0
  <2>2. w(l) \in Words /\ Without(w(l), Zero) = Spelled[<<0, End(l)>>]
    BY <1>2, <2>1
  <2>3. a \in 0 .. n /\ b \in a .. n /\ c \in Words
    BY <1>0, <2>1
  <2>4. End(l) = a
    <3>1. CASE l = 0
      <4>1. r # <<>>
        BY <1>0, <2>1
      <4> QED BY <3>1, <4>1 DEF Tiles
    <3>2. CASE l # 0
      <4>1. l \in 1 .. Len(r) - 1
        BY <1>0, <2>1, <3>2
      <4> QED BY <3>2, <4>1 DEF Tiles
    <3> QED BY <3>1, <3>2
  <2>5. End(l + 1) = b
    OBVIOUS
  <2>6. c = <<Zero>> \o y
    BY <1>0, <2>1
  <2>7. w(l + 1) = w(l) \o c
    <3> DEFINE v == SubSeq(s, 1, l)
    <3>1. v \in Seq(Words) /\ <<c>> \in Seq(Words)
      BY <1>0, <2>1, <2>3
    <3>2. SubSeq(s, 1, l + 1) = v \o <<c>>
      <4>1. SubSeq(s, 1, l + 1) = Append(v, c)
        BY <2>1, SubSeqGrows
      <4>2. Append(v, c) = v \o <<c>>
        <5> HIDE DEF v, c
        <5> QED BY <2>3, <3>1, AppendIsConcat
      <4> QED BY <4>1, <4>2
    <3> HIDE DEF v, c
    <3>3. FlattenSeq(v \o <<c>>) = FlattenSeq(v) \o FlattenSeq(<<c>>)
      BY <3>1, FlattenConcat DEF Words
    <3>4. FlattenSeq(<<c>>) = c
      BY <2>3, FlattenOne DEF Words
    <3> QED BY <3>2, <3>3, <3>4 DEF v
  <2>8. y \in Seq(Plain)
    BY <2>3, SpelledType
  <2>9. Spelled[<<0, b>>] = Spelled[<<0, a>>] \o y
    <3>1. 0 \in 0 .. n
      OBVIOUS
    <3>2. a \in 0 .. n /\ b \in a .. n
      BY <2>3
    <3> HIDE DEF a, b
    <3> QED BY <3>1, <3>2, SpelledJoined
  <2> HIDE DEF w, End, a, b, y, c
  <2>10. Without(w(l + 1), Zero) = Without(w(l), Zero) \o y
    BY <2>2, <2>6, <2>7, <2>8, ZeroVanishes
  <2>11. w(l + 1) \in Words
    BY <2>2, <2>3, <2>7, Letters
  <2> QED BY <2>2, <2>4, <2>5, <2>9, <2>10, <2>11
<1>3. k - 1 \in P
  <2> HIDE DEF P
  <2>1. Nat \subseteq P
    BY <1>1, <1>2, Induction
  <2> QED BY <1>0, <2>1
<1>4. End(k - 1) = r[k][1]
  <2>1. CASE k = 1
    <3>1. r # <<>>
      BY <1>0
    <3> QED BY <2>1, <3>1 DEF Tiles
  <2>2. CASE k # 1
    <3>1. k - 1 \in 1 .. Len(r) - 1 /\ (k - 1) + 1 = k
      BY <1>0, <2>2
    <3> QED BY <2>2, <3>1 DEF Tiles
  <2> QED BY <2>1, <2>2
<1>5. k - 1 <= Len(s)
  BY <1>0
<1> HIDE DEF End
<1> QED BY <1>3, <1>4, <1>5

\* The caller scans the sums.
LEMMA ScanOfSums == ASSUME Inv, ScanFits, ScanSums PROVE ScanFits'
<1>1. /\ Scan /\ caller = "getting" /\ got = Len(futures) /\ caller' = "applying" /\ futures' = <<>>
      /\ UNCHANGED <<input, ranges, mem>>
      /\ sums' = [k \in 1 .. Len(sums) |-> SumBefore(k)]
  BY DEF ScanSums, Gathered, ClearedTo
<1>2. /\ sums \in Seq(Words) /\ ranges \in Seq((0 .. n) \X (0 .. n)) /\ Len(sums) = Len(ranges)
      /\ n \in Nat
  BY <1>1, Facts DEF Inv, Shape, ListsFit
<1>3. Tiles(ranges, n)
  <2>1. Tiles(Spans, n) /\ Spans \in Seq(Nat \X Nat) /\ Len(Spans) = Len(futures)
    BY <1>1, SpansType DEF Inv, Shape, ListsFit, StagesFit
  <2>2. Len(ranges) = got
    BY <1>1 DEF Inv, Shape, ListsFit
  <2>3. \A k \in DOMAIN ranges : ranges[k] = Spans[k]
    BY <1>1 DEF Inv, Shape, ListsFit
  <2>4. DOMAIN ranges = 1 .. Len(ranges) /\ ranges \in Seq(Nat \X Nat)
    BY <1>2, Facts DEF Inv
  <2> DEFINE s == Spans
  <2>5. ranges = s
    <3>1. s \in Seq(Nat \X Nat) /\ Len(ranges) = Len(s) /\ \A k \in 1 .. Len(ranges) : ranges[k] = s[k]
      BY <1>1, <2>1, <2>2, <2>3, <2>4
    <3> HIDE DEF s
    <3> QED BY <2>4, <3>1, SeqEqual
  <2> QED BY <2>1, <2>5
<1>4. \A k \in DOMAIN sums : sums[k] = <<Zero>> \o Spelled[<<ranges[k][1], ranges[k][2]>>]
  BY <1>1 DEF ScanFits
<1>5. ASSUME NEW k \in 1 .. Len(sums) PROVE IsScanOf(SumBefore(k), Spelled[<<0, ranges[k][1]>>])
  <2> DEFINE w == FlattenSeq(SubSeq(sums, 1, k - 1))
             v == <<TheInit>>
  <2>1. w \in Words /\ Without(w, Zero) = Spelled[<<0, ranges[k][1]>>]
    BY <1>1, <1>2, <1>3, <1>4, SumsSpelled
  <2>2. v \in Words /\ Without(v, Zero) = v
    BY Letters, ZeroVanishes
  <2>3. SumBefore(k) = v \o w
    BY DEF SumBefore
  <2> HIDE DEF w, v
  <2>4. v \in Seq(Letter) /\ w \in Seq(Letter)
    BY <2>1, <2>2 DEF Words
  <2>5. Without(v \o w, Zero) = Without(v, Zero) \o Without(w, Zero)
    BY <2>4, WithoutConcat
  <2> QED BY <2>1, <2>2, <2>3, <2>5 DEF IsScanOf, v
<1>6. \A k \in DOMAIN sums' : IsScanOf(sums'[k], Spelled[<<0, ranges'[k][1]>>])
  BY <1>1, <1>5
<1>7. \A p \in 0 .. n - 1 : ~Scanned(p) /\ ~Scanned(p)'
  <2>1. \A f \in DOMAIN futures : futures[f].part = "chunk"
    BY <1>1 DEF ScanFits
  <2> QED BY <1>1, <2>1 DEF Scanned
<1>8. DOMAIN futures' = {}
  BY <1>1
<1> QED BY <1>1, <1>6, <1>7, <1>8, ScanQuiet

\* The other steps of the caller.
LEMMA ScanCaller ==
    ASSUME Inv, ScanFits, Scan,
           \/ CallScan \/ Chunked \/ ScansSubmitted \/ JoinScan \/ ReturnScan
           \/ Rethrow \/ ThrowSequentially
    PROVE  ScanFits'
<1>0. n \in Nat
  BY Facts DEF Inv
<1>1. /\ UNCHANGED <<input, futures, mem, ranges, sums>> /\ caller # "returned"
      /\ \/ caller = "called" /\ caller' = "chunking" /\ futures = <<>>
         \/ caller = "called" /\ caller' = "returned" /\ n = 0
         \/ caller = "chunking" /\ caller' = "getting"
         \/ caller = "applying" /\ caller' = "joining"
         \/ caller = "joining" /\ caller' = "joining"
         \/ caller = "joining" /\ caller' = "returned" /\ got = Len(futures)
         \/ caller' = "threw"
  <2>1. CASE CallScan
    <3>1. caller = "called" /\ caller' \in {"chunking", "returned"} /\ (caller' = "returned" => n = 0)
          /\ UNCHANGED <<input, futures, mem, ranges, sums>>
      BY <2>1 DEF CallScan, Goto, lists
    <3>2. futures = <<>>
      BY <3>1 DEF Inv, Shape, StagesFit
    <3> QED BY <3>1, <3>2
  <2>2. CASE Chunked
    BY <2>2 DEF Chunked, Goto, lists
  <2>3. CASE ScansSubmitted \/ JoinScan
    BY <2>3 DEF ScansSubmitted, JoinScan, NextArrived, Goto, lists
  <2>4. CASE ReturnScan
    BY <2>4 DEF ReturnScan, Return, Gathered, Goto, lists
  <2>5. CASE Rethrow \/ ThrowSequentially
    BY <2>5 DEF Rethrow, ThrowSequentially, Goto, lists
  <2> QED BY <2>1, <2>2, <2>3, <2>4, <2>5
<1>2. \A p \in 0 .. n - 1 : Scanned(p)' <=> Scanned(p)
  BY <1>1 DEF Scanned
<1>3. caller' = "returned" => \A p \in 0 .. n - 1 : Scanned(p)
  <2>1. CASE n = 0
    BY <2>1
  <2>2. CASE caller = "joining" /\ got = Len(futures)
    <3> SUFFICES ASSUME NEW p \in 0 .. n - 1 PROVE Scanned(p)
      OBVIOUS
    <3>1. \A f \in DOMAIN futures : futures[f].part = "scan" /\ futures[f].state = "ready"
      <4>1. DOMAIN futures = 1 .. got
        BY <2>2, Facts DEF Inv
      <4> QED BY <2>2, <4>1 DEF Inv, Shape, GotReady, ScanFits
    <3>2. Tiles(Spans, n) /\ DOMAIN Spans = DOMAIN futures
      BY <2>2, SpansType DEF Inv, Shape, StagesFit, ListsFit
    <3>3. PICK f \in DOMAIN futures : Spans[f][1] <= p /\ p < Spans[f][2]
      BY <3>2 DEF Tiles
    <3>4. futures[f].first <= p /\ p < futures[f].last
      BY <3>3, SpansType DEF Inv
    <3>5. futures[f].first \in 0 .. n /\ futures[f].last \in 0 .. n
      BY TaskFacts DEF Inv
    <3>6. p \in futures[f].first .. futures[f].last - 1
      BY <1>0, <3>4, <3>5
    <3> QED BY <3>1, <3>6 DEF Scanned
  <2> QED BY <1>1, <2>1, <2>2
<1>4. /\ caller' \in {"chunking", "getting"} => \A f \in DOMAIN futures' : futures'[f].part = "chunk"
      /\ caller' \in {"applying", "joining"} => \A f \in DOMAIN futures' : futures'[f].part = "scan"
      /\ \A f \in DOMAIN futures' : SumFits(Spelled, futures'[f]) /\ StartFits(Spelled, futures'[f])
  BY <1>1 DEF ScanFits
<1>5. caller' = "getting" =>
         \A k \in DOMAIN sums' : sums'[k] = <<Zero>> \o Spelled[<<ranges'[k][1], ranges'[k][2]>>]
  <2> SUFFICES ASSUME caller' = "getting" PROVE sums' = <<>>
    OBVIOUS
  <2>1. caller = "chunking"
    BY <1>1
  <2>2. ranges = <<>> /\ Len(sums) = Len(ranges) /\ sums \in Seq(Words)
    BY <2>1, Facts DEF Inv, Shape, ListsFit
  <2> QED BY <1>1, <2>2
<1> QED BY <1>1, <1>2, <1>3, <1>4, <1>5, ScanQuiet

LEMMA ScanAtOnce == ASSUME Inv, ScanFits, ScanSequentially PROVE ScanFits'
<1> DEFINE w == WholeRange(<<TheInit>>)
           t == [w EXCEPT !.part = "scan"]
<1>0. n \in Nat /\ 0 \in 0 .. n /\ TypeOK
  BY Facts DEF Inv, Typed
<1>1. /\ Scan /\ caller = "called" /\ caller' = "returned" /\ mem' = Written(ScanEffect(w))
      /\ UNCHANGED <<input, futures>>
  BY DEF ScanSequentially, Sequentially, Goto
<1>2. futures = <<>>
  BY <1>1 DEF Inv, Shape, StagesFit
<1>3. t.first = 0 /\ t.last = n /\ t.other = 0 /\ t.init = <<TheInit>> /\ t.part = "scan"
      /\ w.first = 0 /\ w.last = n /\ w.other = 0 /\ w.init = <<TheInit>>
  BY DEF WholeRange, Task
<1> HIDE DEF w, t
<1>4. ScanEffect(w) = ScanEffect(t)
  BY <1>3 DEF ScanEffect, Terms, Length
<1>5. ASSUME NEW p \in t.first .. t.last PROVE Terms(t, p) = Spelled[<<t.first, p>>]
  <2>1. \A q \in 0 .. n - 1 : mem[<<"first1", q>>] = Given[<<"first1", q>>]
    <3>1. \A q \in 0 .. n - 1 : ~Scanned(q)
      BY <1>2 DEF Scanned
    <3> QED BY <1>1, <3>1, GivenIs DEF ScanFits
  <2>2. t.first \in 0 .. n /\ p \in t.first .. n /\ ~Moves /\ \A q \in t.first .. p - 1 : q \in 0 .. n - 1
    BY <1>0, <1>1, <1>3 DEF Scan, Moves
  <2> QED BY <1>0, <1>1, <2>1, <2>2, TermsSpelled
<1>6. StartFits(Spelled, t)
  <2>1. Spelled[<<0, 0>>] = <<>>
    BY <1>0, <1>1, SpelledNothing
  <2>2. Without(<<TheInit>>, Zero) = <<TheInit>> \o <<>>
    BY Letters, ZeroVanishes, ConcatEmptySeq DEF Words
  <2> QED BY <1>3, <2>1, <2>2 DEF StartFits, IsScanOf
<1>7. \A p \in 0 .. n - 1 : IsScanOf(mem'[<<dest, p>>], Spelled[<<0, p>>])
  <2>1. t.first \in 0 .. n /\ t.last \in t.first .. n /\ t.other = t.first /\ t.init \in Words
    BY <1>0, <1>3, Letters
  <2>2. \A p \in t.first .. t.last - 1 : IsScanOf(Written(ScanEffect(t))[<<dest, p>>], Spelled[<<0, p>>])
    BY <1>0, <1>1, <1>3, <1>5, <1>6, <2>1, ScanWrites
  <2> QED BY <1>1, <1>3, <1>4, <2>2
<1>8. DOMAIN futures' = {}
  BY <1>1, <1>2
<1> QED BY <1>1, <1>7, <1>8, ScanKept

LEMMA ScanStep == Inv /\ ScanFits /\ [Next]_vars => ScanFits'
<1> SUFFICES ASSUME Inv, ScanFits, [Next]_vars PROVE ScanFits'
  OBVIOUS
<1> SUFFICES ASSUME Scan PROVE ScanFits'
  <2>1. algorithm' = algorithm
    BY AlgorithmStays
  <2>2. Scan' = Scan
    BY <2>1 DEF Scan
  <2> QED BY <2>2 DEF ScanFits
<1>0. ~Elementwise /\ ~Mergesort /\ ~Reduction
  BY Kinds
<1>1. CASE \/ CallScan \/ Chunked \/ ScansSubmitted \/ JoinScan \/ ReturnScan
           \/ Rethrow \/ ThrowSequentially
  BY <1>1, ScanCaller
<1>2. CASE SubmitSum \/ GetSum \/ ScanSums \/ SubmitScan \/ ScanSequentially
  BY <1>2, ScanSubmit, ScanGet, ScanOfSums, ScanAtOnce
<1>3. CASE \E f \in DOMAIN futures : Start(f) \/ Throw(f) \/ RunSum(f) \/ RunScan(f)
  BY <1>3, ScanTask, ScanRun
<1>4. CASE UNCHANGED vars
  <2>1. UNCHANGED <<input, caller, futures, ranges, sums, mem>>
    BY <1>4 DEF vars, input
  <2>2. /\ n' = n /\ dest' = dest /\ Scan' = Scan /\ Spelled' = Spelled
        /\ \A p \in 0 .. n - 1 : Scanned(p)' <=> Scanned(p)
    BY <2>1, Constants, SpelledStays DEF Scanned, input
  <2> QED BY <2>1, <2>2 DEF ScanFits
<1>5. CASE Next
  <2>1. CASE ElementwiseStep
    BY <2>1, <1>0 DEF ElementwiseStep, ElementsSequentially, CallElementwise, SubmitElements,
       GetElements, ReturnElements, RunElements
  <2>2. CASE MergesortStep
    BY <2>2, <1>0 DEF MergesortStep, SortSequentially, CallMergesort, SubmitSort, GetSubrange,
       BeginRound, PairUp, ForwardLast, EndRound, GetLast, RunSort, RunMerge
  <2>3. CASE NumericStep
    BY <2>3, <1>0, <1>1, <1>2, <1>3 DEF NumericStep, ReduceSequentially, CallReduction,
       SubmitReduction, GetReduction, ReturnReduction, RunReduction
  <2> QED BY <1>5, <2>1, <2>2, <2>3, <1>1, <1>3 DEF Next
<1> QED BY <1>4, <1>5

\* When exclusive_scan returns, in place or not, every position of the output holds init and
\* the elements before it: no task of the second pass reads what another one has written.
THEOREM ScansEveryPrefix == Spec => []ScansPrefixes
<1>1. Init => Inv /\ ScanFits
  BY InitInv, ScanInit
<1>2. (Inv /\ ScanFits) /\ [Next]_vars => (Inv /\ ScanFits)'
  BY StepInv, ScanStep
<1>3. Inv /\ ScanFits => ScansPrefixes
  <2> SUFFICES ASSUME Inv, ScanFits, Scan, caller = "returned", NEW p \in 0 .. n - 1
               PROVE  Without(mem[<<dest, p>>], Zero) = <<TheInit>> \o GivenTerms(p)
    BY DEF ScansPrefixes
  <2>1. n \in Nat /\ p \in 0 .. n
    BY Facts DEF Inv
  <2>2. IsScanOf(mem[<<dest, p>>], Spelled[<<0, p>>])
    BY DEF ScanFits
  <2>3. GivenTerms(p) = Spelled[<<0, p>>]
    BY <2>1, SpelledIs
  <2> QED BY <2>2, <2>3 DEF IsScanOf
<1> QED BY <1>1, <1>2, <1>3, PTL DEF Spec
=============================================================================
