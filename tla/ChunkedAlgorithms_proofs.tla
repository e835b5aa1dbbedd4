----------------------- MODULE ChunkedAlgorithms_proofs -----------------------
(* Proofs about ChunkedAlgorithms, for every algorithm, range and number of threads. *)
EXTENDS ChunkedAlgorithms, FiniteSetTheorems, SequenceTheorems, TLAPS

(***************************************************************************)
(* Induction over the natural numbers, for a set: were m the first number  *)
(* that is not in P, adding 1 would map the numbers below it that are in P *)
(* into themselves, one to one, but not onto 0.                            *)
(***************************************************************************)
LEMMA Induction ==
    ASSUME NEW P, 0 \in P, \A k \in Nat : k \in P => k + 1 \in P
    PROVE  Nat \subseteq P
<1> SUFFICES ASSUME NEW m \in Nat, m \notin P PROVE FALSE
  OBVIOUS
<1> DEFINE A == {k \in 0 .. m : k \in P}
           next == [k \in A |-> k + 1]
<1>1. IsFiniteSet(A)
  <2>1. IsFiniteSet(0 .. m)
    BY FS_Interval
  <2>2. A \in SUBSET (0 .. m)
    OBVIOUS
  <2> QED BY <2>1, <2>2, FS_Subset
<1>2. next \in [A -> A]
  <2> SUFFICES ASSUME NEW k \in A PROVE k + 1 \in A
    OBVIOUS
  <2>1. k # m
    OBVIOUS
  <2> QED BY <2>1
<1>3. next \in Injection(A, A)
  BY <1>2 DEF Injection, IsInjective
<1>4. next \in Surjection(A, A)
  <2> HIDE DEF A, next
  <2> QED BY <1>1, <1>3, FS_Injection
<1>5. 0 \in A
  OBVIOUS
<1>6. \E k \in A : next[k] = 0
  <2> HIDE DEF next, A
  <2> QED BY <1>4, <1>5 DEF Surjection
<1> QED BY <1>6

(***************************************************************************)
(* What FlattenSeq makes of a sequence of words, one after the other.      *)
(***************************************************************************)
IsFlattening(f, s) ==
    f = [j \in 1 .. Len(s) |-> IF j = 1 THEN s[j] ELSE f[j - 1] \o s[j]]

LEMMA FlatteningExists == ASSUME NEW S, NEW s \in Seq(Seq(S)) PROVE \E f : IsFlattening(f, s)
<1> DEFINE Upto(f, m) == f = [j \in 1 .. m |-> IF j = 1 THEN s[j] ELSE f[j - 1] \o s[j]]
           P == {m \in Nat : \E f : Upto(f, m)}
<1>1. 0 \in P
  <2>1. Upto([j \in 1 .. 0 |-> 0], 0)
    OBVIOUS
  <2> QED BY <2>1
<1>2. ASSUME NEW m \in Nat, m \in P PROVE m + 1 \in P
  <2>1. PICK f : Upto(f, m)
    BY <1>2
  <2> DEFINE g == [j \in 1 .. m + 1 |-> IF j = 1 THEN s[j] ELSE f[j - 1] \o s[j]]
  <2>2. ASSUME NEW j \in 1 .. m PROVE g[j] = f[j]
    <3>1. f[j] = IF j = 1 THEN s[j] ELSE f[j - 1] \o s[j]
      BY <2>1
    <3> QED BY <3>1
  <2>3. Upto(g, m + 1)
    <3> SUFFICES ASSUME NEW j \in 1 .. m + 1, j # 1 PROVE g[j - 1] = f[j - 1]
      OBVIOUS
    <3>1. j - 1 \in 1 .. m
      OBVIOUS
    <3> QED BY <2>2, <3>1
  <2> HIDE DEF g, Upto
  <2> QED BY <2>3
<1> HIDE DEF P
<1>3. Len(s) \in P
  <2>1. Nat \subseteq P
    BY <1>1, <1>2, Induction
  <2> QED BY <2>1
<1> QED BY <1>3 DEF P, IsFlattening

LEMMA Flattened ==
    ASSUME NEW S, NEW s \in Seq(Seq(S))
    PROVE  \E f : IsFlattening(f, s) /\ FlattenSeq(s) = IF Len(s) = 0 THEN <<>> ELSE f[Len(s)]
<1> DEFINE f == CHOOSE g : IsFlattening(g, s)
<1>1. IsFlattening(f, s)
  BY FlatteningExists
<1>2. CASE Len(s) = 0
  <2>1. FlattenSeq(s) = <<>>
    BY <1>2 DEF FlattenSeq
  <2> QED BY <1>1, <1>2, <2>1
<1>3. CASE Len(s) # 0
  <2>1. FlattenSeq(s) =
           (CHOOSE g : g = [j \in 1 .. Len(s) |-> IF j = 1 THEN s[j] ELSE g[j - 1] \o s[j]])[Len(s)]
    BY <1>3 DEF FlattenSeq
  <2>2. FlattenSeq(s) = f[Len(s)]
    BY <2>1 DEF IsFlattening
  <2> HIDE DEF f
  <2> QED BY <1>1, <1>3, <2>2
<1> QED BY <1>2, <1>3

LEMMA FlatteningType ==
    ASSUME NEW S, NEW s \in Seq(Seq(S)), NEW f, IsFlattening(f, s), NEW m \in 1 .. Len(s)
    PROVE  f[m] \in Seq(S)
<1> DEFINE P == {k \in Nat : k \in 1 .. Len(s) => f[k] \in Seq(S)}
<1>1. 0 \in P
  OBVIOUS
<1>2. ASSUME NEW k \in Nat, k \in P PROVE k + 1 \in P
  <2> SUFFICES ASSUME k + 1 \in 1 .. Len(s) PROVE f[k + 1] \in Seq(S)
    OBVIOUS
  <2>1. s[k + 1] \in Seq(S)
    OBVIOUS
  <2>2. f[k + 1] = IF k + 1 = 1 THEN s[k + 1] ELSE f[(k + 1) - 1] \o s[k + 1]
    BY DEF IsFlattening
  <2>3. CASE k = 0
    BY <2>1, <2>2, <2>3
  <2>4. CASE k # 0
    <3>1. f[k] \in Seq(S)
      BY <1>2, <2>4
    <3> QED BY <2>1, <2>2, <2>4, <3>1
  <2> QED BY <2>3, <2>4
<1>3. Nat \subseteq P
  <2> HIDE DEF P
  <2> QED BY <1>1, <1>2, Induction
<1> QED BY <1>3 DEF P

LEMMA FlattenType == ASSUME NEW S, NEW s \in Seq(Seq(S)) PROVE FlattenSeq(s) \in Seq(S)
<1>1. PICK f : IsFlattening(f, s) /\ FlattenSeq(s) = IF Len(s) = 0 THEN <<>> ELSE f[Len(s)]
  BY Flattened
<1>2. CASE Len(s) = 0
  BY <1>1, <1>2
<1>3. CASE Len(s) # 0
  <2>1. Len(s) \in 1 .. Len(s)
    BY <1>3
  <2> QED BY <1>1, <1>3, <2>1, FlatteningType
<1> QED BY <1>2, <1>3

-----------------------------------------------------------------------------
(* The inductive invariant. *)

TaskRecord == [part : {"chunk", "scan", "merge", "forwarded"},
               first : 0 .. n, mid : 0 .. n, last : 0 .. n, other : 0 .. n,
               init : Words, state : {"queued", "running", "ready", "broken"}, value : Words]

Typed == TypeOK /\ futures \in Seq(TaskRecord)

\* The algorithms whose tasks go through a second range, or through dest.
Moves == algorithm \in {"copy", "transform_1", "transform_2", "transform_reduce_2"}

\* Where the call may be.
StagesFit ==
    /\ caller = "called" => /\ first = 0 /\ other = 0 /\ futures = <<>> /\ got = 0
                            /\ ranges = <<>> /\ sums = <<>> /\ i = 1
    /\ caller \in {"applying", "joining"} => Scan
    /\ caller \in {"merging", "last"} => Mergesort
    /\ Scan \/ Mergesort => n # 0 \/ caller \in {"called"} \union Finished
    /\ policy = "pure_threads" => algorithm \in {"for_each", "fill"}
    /\ is_seq => caller \in {"called", "returned", "threw"} /\ futures = <<>>
    /\ caller \in {"getting", "applying", "joining", "merging", "last"} => first = n
    /\ caller = "returned" => is_seq \/ first = n

\* The tasks go through their ranges in step.
Aligned ==
    /\ other = IF Moves THEN first ELSE 0
    /\ \A f \in DOMAIN futures :
          /\ futures[f].part = "chunk"
                => futures[f].other = IF Moves THEN futures[f].first ELSE 0
          /\ futures[f].part = "scan" => Scan /\ futures[f].other = futures[f].first
          /\ futures[f].part \in {"merge", "forwarded"} => Mergesort
          /\ futures[f].part = "forwarded" => futures[f].state = "ready"

\* The futures that the caller is through with are ready.
GotReady ==
    /\ caller \in {"called", "chunking", "applying", "merging", "last"} => got = 0
    /\ \A f \in 1 .. got : futures[f].state = "ready"
    /\ caller = "returned" => \A f \in DOMAIN futures : futures[f].state = "ready"
    /\ caller = "last" => Len(futures) = 1

Spans == [f \in DOMAIN futures |-> <<futures[f].first, futures[f].last>>]

\* The spans of s cut the positions below m, in their order.
Tiles(s, m) ==
    /\ s = <<>> => m = 0
    /\ s # <<>> => s[1][1] = 0 /\ s[Len(s)][2] = m
    /\ \A k \in DOMAIN s : s[k][1] < s[k][2] /\ s[k][2] <= m
    /\ \A k \in 1 .. Len(s) - 1 : s[k][2] = s[k + 1][1]
    /\ \A k, l \in DOMAIN s : k < l => s[k][2] <= s[l][1]
    /\ \A p \in 0 .. m - 1 : \E k \in DOMAIN s : s[k][1] <= p /\ p < s[k][2]

\* How far the loop over the ranges has paired them up.
PairedUp == IF i > Len(ranges) THEN n ELSE ranges[i][1]

\* The futures and the lists made of them cut the range, in every stage.
ListsFit ==
    /\ caller \notin {"applying", "merging"} =>
          /\ Tiles(Spans, first)
          /\ Len(ranges) <= Len(futures)
          /\ \A k \in DOMAIN ranges : ranges[k] = Spans[k]
    /\ caller \in {"chunking", "last"} => ranges = <<>>
    /\ caller = "getting" => Len(ranges) = IF Scan \/ Mergesort THEN got ELSE 0
    /\ caller \in {"applying", "merging"} => Tiles(ranges, n)
    /\ caller = "applying" =>
          /\ Len(futures) = i - 1
          /\ \A k \in DOMAIN futures : Spans[k] = ranges[k]
    /\ caller = "merging" => Tiles(Spans, PairedUp)
    /\ Scan => Len(sums) = Len(ranges)

Shape == StagesFit /\ Aligned /\ GotReady /\ ListsFit

Inv == Typed /\ Shape

-----------------------------------------------------------------------------
(* Chunks and spans. *)

\* The chunking loop moves on in every iteration, and not past the end.
LEMMA LoopEndFits ==
    ASSUME NEW m \in Nat, NEW t \in Nat \ {0}, NEW p \in 0 .. m, p < m
    PROVE  LoopEnd(p, m, ChunkSize(m, t)) \in p + 1 .. m
<1>1. /\ m \div t \in Nat /\ m % t \in Nat
      /\ m = t * (m \div t) + (m % t)
  OBVIOUS
<1>2. ChunkSize(m, t) \in Nat \ {0}
  <2>1. CASE m \div t = 0
    <3>1. m % t > 0
      BY <1>1, <2>1
    <3> QED BY <1>1, <2>1, <3>1 DEF ChunkSize
  <2>2. CASE m \div t # 0
    BY <1>1, <2>2 DEF ChunkSize
  <2> QED BY <2>1, <2>2
<1> DEFINE size == ChunkSize(m, t)
<1> HIDE DEF size
<1>3. size \in Nat \ {0}
  BY <1>2 DEF size
<1>4. LoopEnd(p, m, size) \in p + 1 .. m
  BY <1>3 DEF LoopEnd, IterChunkSize
<1> QED BY <1>4 DEF size

LEMMA TilesNothing == Tiles(<<>>, 0)
BY DEF Tiles

LEMMA TilesAppend ==
    ASSUME NEW s \in Seq(Nat \X Nat), NEW m \in Nat, NEW e \in Nat, Tiles(s, m), m < e
    PROVE  Tiles(Append(s, <<m, e>>), e)
<1> DEFINE u == Append(s, <<m, e>>)
<1>1. /\ Len(u) = Len(s) + 1 /\ Len(s) \in Nat /\ u # <<>>
      /\ DOMAIN u = 1 .. Len(s) + 1 /\ DOMAIN s = 1 .. Len(s)
      /\ \A k \in 1 .. Len(s) : u[k] = s[k] /\ u[k][1] \in Nat /\ u[k][2] \in Nat
      /\ u[Len(s) + 1] = <<m, e>>
  OBVIOUS
<1> HIDE DEF u
<1>2. u[1][1] = 0 /\ u[Len(u)][2] = e
  <2>1. CASE s = <<>>
    BY <1>1, <2>1 DEF Tiles
  <2>2. CASE s # <<>>
    <3>1. 1 \in 1 .. Len(s)
      BY <1>1, <2>2
    <3> QED BY <1>1, <2>2, <3>1 DEF Tiles
  <2> QED BY <2>1, <2>2
<1>3. \A k \in DOMAIN u : u[k][1] < u[k][2] /\ u[k][2] <= e
  <2> SUFFICES ASSUME NEW k \in 1 .. Len(s) + 1 PROVE u[k][1] < u[k][2] /\ u[k][2] <= e
    BY <1>1
  <2>1. CASE k \in 1 .. Len(s)
    <3>1. s[k][1] < s[k][2] /\ s[k][2] <= m
      BY <1>1, <2>1 DEF Tiles
    <3> QED BY <1>1, <2>1, <3>1
  <2>2. CASE k = Len(s) + 1
    BY <1>1, <2>2
  <2> QED BY <1>1, <2>1, <2>2
<1>4. ASSUME NEW k \in 1 .. Len(u) - 1 PROVE u[k][2] = u[k + 1][1]
  <2>0. k \in 1 .. Len(s) /\ s # <<>>
    BY <1>1
  <2>1. CASE k = Len(s)
    <3>1. s[k][2] = m
      BY <2>0, <2>1 DEF Tiles
    <3> QED BY <1>1, <2>0, <2>1, <3>1
  <2>2. CASE k # Len(s)
    <3>1. k \in 1 .. Len(s) - 1 /\ k + 1 \in 1 .. Len(s)
      <4> DEFINE len == Len(s)
      <4>1. len \in Nat /\ k \in 1 .. len /\ k # len
        BY <1>1, <2>0, <2>2
      <4> HIDE DEF len
      <4>2. k \in 1 .. len - 1 /\ k + 1 \in 1 .. len
        BY <4>1
      <4> QED BY <4>2 DEF len
    <3>2. s[k][2] = s[k + 1][1]
      BY <3>1 DEF Tiles
    <3> QED BY <1>1, <2>0, <3>1, <3>2
  <2> QED BY <2>1, <2>2
<1>5. ASSUME NEW k \in DOMAIN u, NEW l \in DOMAIN u, k < l PROVE u[k][2] <= u[l][1]
  <2>0. k \in 1 .. Len(s)
    BY <1>1, <1>5
  <2>1. CASE l = Len(s) + 1
    <3>1. s[k][2] <= m
      BY <1>1, <2>0 DEF Tiles
    <3> QED BY <1>1, <2>0, <2>1, <3>1
  <2>2. CASE l \in 1 .. Len(s)
    <3>1. s[k][2] <= s[l][1]
      BY <1>1, <1>5, <2>0, <2>2 DEF Tiles
    <3> QED BY <1>1, <2>0, <2>2, <3>1
  <2> QED BY <1>1, <2>1, <2>2
<1>6. ASSUME NEW p \in 0 .. e - 1 PROVE \E k \in DOMAIN u : u[k][1] <= p /\ p < u[k][2]
  <2>1. CASE p < m
    <3>0. p \in 0 .. m - 1
      BY <2>1
    <3>1. PICK k \in DOMAIN s : s[k][1] <= p /\ p < s[k][2]
      BY <3>0 DEF Tiles
    <3>2. k \in DOMAIN u
      BY <1>1, <3>1
    <3>3. u[k] = s[k]
      BY <1>1, <3>1
    <3>4. u[k][1] <= p /\ p < u[k][2]
      BY <3>1, <3>3
    <3> QED BY <3>2, <3>4
  <2>2. CASE p >= m
    <3>1. Len(s) + 1 \in DOMAIN u
      BY <1>1
    <3> QED BY <1>1, <2>2, <3>1
  <2> QED BY <2>1, <2>2
<1>7. Tiles(u, e)
  BY <1>1, <1>2, <1>3, <1>4, <1>5, <1>6 DEF Tiles
<1> QED BY <1>7 DEF u

-----------------------------------------------------------------------------
(* What the variables hold. *)

LEMMA Constants ==
    ASSUME UNCHANGED input
    PROVE  /\ Cell' = Cell /\ Letter' = Letter /\ Words' = Words /\ TaskRecord' = TaskRecord
           /\ dest' = dest /\ Moves' = Moves /\ is_seq' = is_seq /\ Elementwise' = Elementwise
           /\ Reduction' = Reduction /\ Scan' = Scan /\ Mergesort' = Mergesort
<1>1. UNCHANGED <<algorithm, n, policy, in_place>>
  BY DEF input
<1>2. Cell' = Cell /\ Letter' = Letter /\ Words' = Words
  BY <1>1 DEF Cell, Letter, Words
<1> QED BY <1>1, <1>2 DEF TaskRecord, dest, Moves, is_seq, Elementwise, Reduction, Scan, Mergesort

\* The algorithms have nothing in common.
LEMMA Kinds ==
    /\ ~(Elementwise /\ Reduction) /\ ~(Elementwise /\ Scan) /\ ~(Elementwise /\ Mergesort)
    /\ ~(Reduction /\ Scan) /\ ~(Reduction /\ Mergesort) /\ ~(Scan /\ Mergesort)
BY DEF Elementwise, ElementwiseAlgorithms, Reduction, Reductions, Scan, Mergesort, Mergesorts

LEMMA Letters ==
    /\ <<Applied>> \in Words /\ <<TheInit>> \in Words /\ <<Zero>> \in Words /\ <<TheValue>> \in Words
    /\ <<>> \in Words /\ \A c \in Cell : <<c>> \in Words
    /\ \A v, w \in Words : v \o w \in Words
BY DEF Words, Letter

LEMMA CellAt ==
    ASSUME NEW b \in Buffer, NEW p \in 0 .. n - 1
    PROVE  <<b, p>> \in Cell
BY DEF Cell

\* The values the constants may have, and what they say of n.
LEMMA InputFits ==
    ASSUME TypeOK
    PROVE  /\ n \in Nat /\ n \in Lengths /\ num_threads \in Nat \ {0} /\ first \in 0 .. n
           /\ dest \in Buffer /\ mem \in [Cell -> Words]
BY ForkJoinAssumption DEF TypeOK, ForkJoinAssumption, dest, Buffer

LEMMA SpanInCell ==
    ASSUME NEW b \in Buffer, NEW lo \in Nat, NEW len \in Nat, n \in Nat, lo + len <= n
    PROVE  Span(b, lo, len) \subseteq Cell
BY DEF Span, Cell

LEMMA TermType ==
    ASSUME TypeOK, NEW m \in [Cell -> Words], NEW p \in 0 .. n - 1, NEW q,
           Moves => q \in 0 .. n - 1, Reduction \/ Scan
    PROVE  Term(m, p, q) \in Words
<1>1. m[<<"first1", p>>] \in Words
  BY CellAt DEF Buffer
<1>2. Moves => m[<<"first2", q>>] \in Words
  BY CellAt DEF Buffer
<1>3. CASE algorithm \in {"reduce", "exclusive_scan"}
  BY <1>1, <1>3 DEF Term
<1>4. CASE algorithm = "transform_reduce_1"
  BY <1>1, <1>4, Letters DEF Term
<1>5. CASE algorithm = "transform_reduce_2"
  BY <1>1, <1>2, <1>5, Letters DEF Term, Moves
<1>6. CASE algorithm = "count_if"
  BY <1>1, <1>6, Letters DEF Term
<1> QED BY <1>3, <1>4, <1>5, <1>6 DEF Reduction, Reductions, Scan

LEMMA TermsType ==
    ASSUME TypeOK, NEW t, t.first \in 0 .. n, NEW p \in t.first .. n,
           Moves => t.other = t.first, Reduction \/ Scan
    PROVE  Terms(t, p) \in Words
<1> DEFINE s == [k \in 1 .. p - t.first |-> Term(mem, t.first + k - 1, t.other + k - 1)]
<1>0. n \in Nat /\ mem \in [Cell -> Words]
  BY InputFits
<1>1. ASSUME NEW k \in 1 .. p - t.first
      PROVE  Term(mem, t.first + k - 1, t.other + k - 1) \in Words
  <2>1. t.first + k - 1 \in 0 .. n - 1
    BY <1>0
  <2>2. Moves => t.other + k - 1 \in 0 .. n - 1
    BY <2>1
  <2> QED BY <1>0, <2>1, <2>2, TermType
<1>2. p - t.first \in Nat
  BY <1>0
<1>3. s \in Seq(Words)
  BY <1>1, <1>2
<1>4. FlattenSeq(s) \in Words
  <2> HIDE DEF s
  <2> QED BY <1>3, FlattenType DEF Words
<1> QED BY <1>4 DEF Terms

LEMMA ImageType ==
    ASSUME Elementwise, NEW x \in Words, NEW y \in Words
    PROVE  Image(x, y) \in Words
<1>1. CASE algorithm \in {"for_each", "transform_1"}
  BY <1>1, Letters DEF Image
<1>2. CASE algorithm = "transform_2"
  BY <1>2, Letters DEF Image
<1>3. CASE algorithm = "fill"
  BY <1>3, Letters DEF Image
<1>4. CASE algorithm = "copy"
  BY <1>4 DEF Image
<1> QED BY <1>1, <1>2, <1>3, <1>4 DEF Elementwise, ElementwiseAlgorithms

\* What the task of an element-wise algorithm writes.
LEMMA ElementEffectIs ==
    ASSUME TypeOK, Elementwise, NEW t, t.first \in 0 .. n, t.last \in t.first .. n,
           Moves => t.other = t.first
    PROVE  /\ DOMAIN ElementEffect(t) = Span(Output, t.first, Length(t))
           /\ \A c \in Span(Output, t.first, Length(t)) :
                 ElementEffect(t)[c] = Image(mem[<<"first1", c[2]>>], mem[<<"first2", c[2]>>])
<1>0. n \in Nat
  BY InputFits
<1>1. Begin(t) = t.first
  BY DEF Begin, Moves, Elementwise, ElementwiseAlgorithms
<1>2. ElementEffect(t) =
         [c \in Span(Output, t.first, Length(t)) |->
             Image(mem[<<"first1", t.first + (c[2] - t.first)>>],
                   mem[<<"first2", t.other + (c[2] - t.first)>>])]
  BY <1>1 DEF ElementEffect
<1>3. ASSUME NEW c \in Span(Output, t.first, Length(t))
      PROVE  Image(mem[<<"first1", t.first + (c[2] - t.first)>>],
                   mem[<<"first2", t.other + (c[2] - t.first)>>])
                = Image(mem[<<"first1", c[2]>>], mem[<<"first2", c[2]>>])
  <2>1. c[2] \in Int /\ t.first \in Int
    BY <1>0 DEF Span, Length
  <2>2. t.first + (c[2] - t.first) = c[2]
    BY <2>1
  <2>3. CASE Moves
    <3>1. t.other + (c[2] - t.first) = c[2]
      BY <2>1, <2>3
    <3> QED BY <2>2, <3>1
  <2>4. CASE ~Moves
    <3>1. algorithm \in {"for_each", "fill"}
      BY <2>4 DEF Moves, Elementwise, ElementwiseAlgorithms
    <3> QED BY <2>2, <3>1 DEF Image
  <2> QED BY <2>3, <2>4
<1> QED BY <1>2, <1>3

LEMMA OutputSpan ==
    ASSUME TypeOK, NEW t, t.first \in 0 .. n, t.last \in t.first .. n, NEW b \in Buffer,
           NEW c \in Span(b, t.first, Length(t))
    PROVE  c = <<b, c[2]>> /\ c[2] \in t.first .. t.last - 1 /\ c[2] \in 0 .. n - 1 /\ c \in Cell
<1>0. n \in Nat
  BY InputFits
<1>1. c = <<b, c[2]>> /\ c[2] \in t.first .. t.first + (t.last - t.first) - 1
  BY DEF Span, Length
<1>2. c[2] \in t.first .. t.last - 1 /\ c[2] \in 0 .. n - 1
  BY <1>0, <1>1
<1> QED BY <1>1, <1>2, CellAt

LEMMA OutputType == in_place \in BOOLEAN => Output \in Buffer
BY DEF Output, dest, Buffer

LEMMA ElementEffectType ==
    ASSUME TypeOK, Elementwise, NEW t, t.first \in 0 .. n, t.last \in t.first .. n,
           Moves => t.other = t.first
    PROVE  \A c \in DOMAIN ElementEffect(t) : ElementEffect(t)[c] \in Words
<1>0. /\ DOMAIN ElementEffect(t) = Span(Output, t.first, Length(t))
      /\ \A c \in Span(Output, t.first, Length(t)) :
            ElementEffect(t)[c] = Image(mem[<<"first1", c[2]>>], mem[<<"first2", c[2]>>])
  BY ElementEffectIs
<1> SUFFICES ASSUME NEW c \in Span(Output, t.first, Length(t))
             PROVE  Image(mem[<<"first1", c[2]>>], mem[<<"first2", c[2]>>]) \in Words
  BY <1>0
<1>1. c[2] \in 0 .. n - 1
  BY OutputSpan, OutputType DEF TypeOK
<1>2. mem \in [Cell -> Words]
  BY InputFits
<1>3. mem[<<"first1", c[2]>>] \in Words /\ mem[<<"first2", c[2]>>] \in Words
  BY <1>1, <1>2, CellAt DEF Buffer
<1> QED BY <1>3, ImageType

LEMMA WrittenType ==
    ASSUME TypeOK, NEW effect, \A c \in DOMAIN effect : effect[c] \in Words
    PROVE  Written(effect) \in [Cell -> Words]
BY InputFits DEF Written

\* The second pass of a scan, and the scan of a range.
LEMMA ScanEffectType ==
    ASSUME TypeOK, Scan, NEW t, t.first \in 0 .. n, t.last \in t.first .. n,
           t.other = t.first, t.init \in Words
    PROVE  \A c \in DOMAIN ScanEffect(t) : ScanEffect(t)[c] \in Words
<1>0. n \in Nat
  BY InputFits
<1> SUFFICES ASSUME NEW c \in Span(dest, t.first, Length(t))
             PROVE  t.init \o Terms(t, t.first + (c[2] - t.first)) \in Words
  BY DEF ScanEffect
<1>1. c[2] \in t.first .. t.last - 1
  BY OutputSpan, InputFits
<1>2. t.first + (c[2] - t.first) \in t.first .. n
  BY <1>0, <1>1
<1>3. Terms(t, t.first + (c[2] - t.first)) \in Words
  BY <1>2, TermsType
<1> QED BY <1>3, Letters

LEMMA ArrangementType ==
    ASSUME TypeOK, NEW lo \in 0 .. n, NEW hi \in lo .. n, NEW m \in Arrangements(lo, hi)
    PROVE  \A c \in DOMAIN m : m[c] \in Words
<1>0. n \in Nat /\ n \in Lengths /\ mem \in [Cell -> Words]
  BY InputFits
<1>1. PICK f \in Orders[<<lo, hi>>] :
          m = [c \in Span("first1", lo, hi - lo) |-> mem[<<"first1", f[c[2]]>>]]
  BY DEF Arrangements
<1>2. <<lo, hi>> \in UNION {(0 .. l) \X (0 .. l) : l \in Lengths}
  <2>1. <<lo, hi>> \in (0 .. n) \X (0 .. n)
    BY <1>0
  <2> QED BY <1>0, <2>1
<1>3. f \in Bijection(lo .. hi - 1, lo .. hi - 1)
  BY <1>1, <1>2 DEF Orders
<1>4. f \in [lo .. hi - 1 -> lo .. hi - 1]
  BY <1>3 DEF Bijection, Injection
<1> SUFFICES ASSUME NEW c \in Span("first1", lo, hi - lo) PROVE mem[<<"first1", f[c[2]]>>] \in Words
  BY <1>1
<1>5. c[2] \in lo .. hi - 1
  BY <1>0 DEF Span
<1>6. f[c[2]] \in 0 .. n - 1
  BY <1>0, <1>4, <1>5
<1> QED BY <1>0, <1>6, CellAt DEF Buffer

-----------------------------------------------------------------------------
(* The invariant holds to begin with, and every step keeps it. *)

LEMMA AppendIs ==
    ASSUME NEW S, NEW s \in Seq(S), NEW x \in S
    PROVE  /\ Append(s, x) \in Seq(S) /\ Len(Append(s, x)) = Len(s) + 1
           /\ DOMAIN Append(s, x) = 1 .. Len(s) + 1
           /\ \A k \in 1 .. Len(s) : Append(s, x)[k] = s[k]
           /\ Append(s, x)[Len(s) + 1] = x
OBVIOUS

LEMMA Facts ==
    ASSUME Typed
    PROVE  /\ n \in Nat /\ num_threads \in Nat \ {0} /\ first \in 0 .. n /\ other \in {0, first}
           /\ caller \in Stages
           /\ futures \in Seq(TaskRecord) /\ DOMAIN futures = 1 .. Len(futures) /\ Len(futures) \in Nat
           /\ got \in 0 .. Len(futures)
           /\ ranges \in Seq((0 .. n) \X (0 .. n)) /\ DOMAIN ranges = 1 .. Len(ranges) /\ Len(ranges) \in Nat
           /\ sums \in Seq(Words) /\ i \in 1 .. Len(ranges) + 1
           /\ mem \in [Cell -> Words] /\ result \in Words
<1>1. n \in Nat
  BY InputFits DEF Typed
<1> QED BY <1>1 DEF Typed, TypeOK

LEMMA TaskFacts ==
    ASSUME Typed, NEW f \in DOMAIN futures
    PROVE  /\ futures[f] \in TaskRecord
           /\ futures[f].part \in {"chunk", "scan", "merge", "forwarded"}
           /\ futures[f].first \in 0 .. n /\ futures[f].mid \in 0 .. n /\ futures[f].last \in 0 .. n
           /\ futures[f].other \in 0 .. n /\ futures[f].init \in Words /\ futures[f].value \in Words
           /\ futures[f].state \in {"queued", "running", "ready", "broken"}
<1>1. futures[f] \in TaskRecord
  BY DEF Typed
<1> QED BY <1>1 DEF TaskRecord

LEMMA TypedStep ==
    ASSUME Typed, UNCHANGED input, caller' \in Stages,
           first' \in 0 .. n, other' \in {0, first'}, futures' \in Seq(TaskRecord),
           got' \in 0 .. Len(futures'), ranges' \in Seq((0 .. n) \X (0 .. n)),
           sums' \in Seq(Words), i' \in 1 .. Len(ranges') + 1,
           mem' \in [Cell -> Words], result' \in Words
    PROVE  Typed'
<1>1. Cell' = Cell /\ Words' = Words /\ TaskRecord' = TaskRecord
  BY Constants
<1>2. n' = n /\ algorithm' \in Calls /\ n' \in Lengths /\ num_threads' \in Nat \ {0}
      /\ policy' \in {"par", "pure_threads", "seq"} /\ in_place' \in BOOLEAN
      /\ key' \in [0 .. n' - 1 -> Keys]
  BY DEF Typed, TypeOK, input
<1>3. \A f \in DOMAIN futures' : futures'[f] \in TaskRecord'
  BY <1>1
<1>4. futures' \in Seq(TaskRecord') /\ mem' \in [Cell' -> Words'] /\ sums' \in Seq(Words')
      /\ result' \in Words' /\ ranges' \in Seq((0 .. n') \X (0 .. n')) /\ first' \in 0 .. n'
  BY <1>1, <1>2
<1>5. TypeOK'
  BY <1>2, <1>3, <1>4 DEF TypeOK, TaskRecord
<1> QED BY <1>4, <1>5 DEF Typed

LEMMA SpansType ==
    ASSUME Typed
    PROVE  /\ Spans \in Seq(Nat \X Nat) /\ Len(Spans) = Len(futures) /\ DOMAIN Spans = DOMAIN futures
           /\ \A f \in DOMAIN futures :
                 /\ Spans[f] = <<futures[f].first, futures[f].last>>
                 /\ Spans[f][1] = futures[f].first /\ Spans[f][2] = futures[f].last
<1>1. \A f \in 1 .. Len(futures) : <<futures[f].first, futures[f].last>> \in Nat \X Nat
  <2> TAKE f \in 1 .. Len(futures)
  <2>1. f \in DOMAIN futures /\ n \in Nat
    BY Facts
  <2>2. futures[f].first \in 0 .. n /\ futures[f].last \in 0 .. n
    BY <2>1, TaskFacts
  <2> QED BY <2>1, <2>2
<1>2. DOMAIN futures = 1 .. Len(futures) /\ Len(futures) \in Nat
  BY Facts
<1> QED BY <1>1, <1>2 DEF Spans

LEMMA SpansAppend ==
    ASSUME Typed, NEW t \in TaskRecord, futures' = Append(futures, t)
    PROVE  Spans' = Append(Spans, <<t.first, t.last>>)
<1> DEFINE len == Len(futures)
<1>1. /\ futures \in Seq(TaskRecord) /\ len \in Nat /\ DOMAIN futures = 1 .. len
      /\ DOMAIN futures' = 1 .. len + 1
      /\ \A f \in 1 .. len : futures'[f] = futures[f]
      /\ futures'[len + 1] = t
  BY Facts
<1>2. Spans \in Seq(Nat \X Nat) /\ Len(Spans) = len
  BY SpansType
<1>3. /\ DOMAIN Append(Spans, <<t.first, t.last>>) = 1 .. len + 1
      /\ \A f \in 1 .. len : Append(Spans, <<t.first, t.last>>)[f] = Spans[f]
      /\ Append(Spans, <<t.first, t.last>>)[len + 1] = <<t.first, t.last>>
  BY <1>2
<1>4. /\ DOMAIN Spans' = 1 .. len + 1
      /\ \A f \in 1 .. len + 1 : Spans'[f] = <<futures'[f].first, futures'[f].last>>
      /\ Spans' = [f \in 1 .. len + 1 |-> Spans'[f]]
  BY <1>1 DEF Spans
<1>5. \A f \in 1 .. len : Spans[f] = <<futures[f].first, futures[f].last>>
  BY <1>1 DEF Spans
<1> HIDE DEF len
<1>6. ASSUME NEW f \in 1 .. len + 1 PROVE Spans'[f] = Append(Spans, <<t.first, t.last>>)[f]
  <2>1. CASE f \in 1 .. len
    BY <1>1, <1>3, <1>4, <1>5, <2>1
  <2>2. CASE f = len + 1
    BY <1>1, <1>3, <1>4, <2>2
  <2>3. f \in 1 .. len \/ f = len + 1
    <3>1. len \in Nat
      BY <1>1
    <3> QED BY <3>1
  <2> QED BY <2>1, <2>2, <2>3
<1>7. Append(Spans, <<t.first, t.last>>)
         = [f \in 1 .. len + 1 |-> Append(Spans, <<t.first, t.last>>)[f]]
  BY <1>2, <1>3
<1> QED BY <1>4, <1>6, <1>7

LEMMA InitInv == Init => Inv
<1> SUFFICES ASSUME Init PROVE Inv
  OBVIOUS
<1>1. n \in Nat /\ n \in Lengths /\ num_threads \in Nat \ {0}
  BY ForkJoinAssumption DEF Init, ForkJoinAssumption, GetNumThreads
<1>2. key \in [0 .. n - 1 -> Keys]
  BY <1>1, ForkJoinAssumption DEF Init, ForkJoinAssumption
<1>3. Given \in [Cell -> Words]
  BY Letters DEF Given
<1>4. TypeOK
  <2>1. algorithm \in Calls /\ policy \in {"par", "pure_threads", "seq"} /\ in_place \in BOOLEAN
    BY DEF Init
  <2>2. /\ caller \in Stages /\ first \in 0 .. n /\ other \in {0, first} /\ i \in 1 .. 1
        /\ futures = <<>> /\ ranges = <<>> /\ sums = <<>> /\ got = 0
    BY <1>1 DEF Init, Stages
  <2>3. mem \in [Cell -> Words] /\ result \in Words
    BY <1>3, Letters DEF Init
  <2> QED BY <1>1, <1>2, <2>1, <2>2, <2>3 DEF TypeOK
<1>5. Typed
  BY <1>4 DEF Init, Typed
<1>6. StagesFit
  BY DEF Init, StagesFit, is_seq, Finished
<1>7. Aligned /\ GotReady
  BY DEF Init, Aligned, GotReady
<1>8. Spans = <<>>
  BY SpansType, <1>5 DEF Init
<1>9. ListsFit
  BY <1>8, TilesNothing DEF Init, ListsFit
<1> QED BY <1>5, <1>6, <1>7, <1>9 DEF Inv, Shape

\* The call returns or is left.
LEMMA LeaveInv ==
    ASSUME Inv, UNCHANGED <<input, loop, futures, got, lists>>,
           mem' \in [Cell -> Words], result' \in Words,
           caller \notin {"applying", "merging"}, caller' \in Finished,
           caller' = "returned" => \A f \in DOMAIN futures : futures[f].state = "ready",
           caller' = "returned" => is_seq \/ first = n,
           caller' = "terminated" => ~is_seq
    PROVE  Inv'
<1>1. UNCHANGED <<first, other, futures, got, ranges, sums, i>>
  BY DEF loop, lists
<1>2. Typed'
  BY <1>1, TypedStep, Facts DEF Inv, Stages
<1>3. Moves' = Moves /\ is_seq' = is_seq /\ Scan' = Scan /\ Mergesort' = Mergesort
      /\ n' = n /\ policy' = policy /\ algorithm' = algorithm
  BY Constants DEF input
<1>4. StagesFit'
  BY <1>1, <1>3 DEF Inv, Shape, StagesFit, Finished
<1>5. Aligned'
  BY <1>1, <1>3 DEF Inv, Shape, Aligned
<1>6. GotReady'
  BY <1>1 DEF Inv, Shape, GotReady, Finished
<1>7. Spans' = Spans
  BY <1>1 DEF Spans
<1>8. ListsFit'
  BY <1>1, <1>3, <1>7 DEF Inv, Shape, ListsFit, Finished
<1> QED BY <1>2, <1>4, <1>5, <1>6, <1>8 DEF Inv, Shape

\* The call goes in parallel.
LEMMA CallInv ==
    ASSUME Inv, caller = "called", ~is_seq, caller' = "chunking", Scan \/ Mergesort => n # 0,
           UNCHANGED <<input, loop, futures, got, lists, mem>>, result' \in Words
    PROVE  Inv'
<1>1. UNCHANGED <<first, other, futures, got, ranges, sums, i, mem>>
  BY DEF loop, lists
<1>2. Typed'
  BY <1>1, TypedStep, Facts DEF Inv, Stages
<1>3. Moves' = Moves /\ is_seq' = is_seq /\ Scan' = Scan /\ Mergesort' = Mergesort
      /\ n' = n /\ policy' = policy /\ algorithm' = algorithm
  BY Constants DEF input
<1>4. StagesFit'
  BY <1>1, <1>3 DEF Inv, Shape, StagesFit, Finished
<1>5. Aligned'
  BY <1>1, <1>3 DEF Inv, Shape, Aligned
<1>6. GotReady'
  BY <1>1 DEF Inv, Shape, GotReady, Finished, StagesFit
<1>7. Spans' = Spans
  BY <1>1 DEF Spans
<1>8. ListsFit'
  BY <1>1, <1>3, <1>7 DEF Inv, Shape, ListsFit, StagesFit
<1> QED BY <1>2, <1>4, <1>5, <1>6, <1>8 DEF Inv, Shape

\* A chunk is submitted.
LEMMA SubmitInv == ASSUME Inv, NEW init \in Words, SubmitChunk(init) PROVE Inv'
<1> DEFINE e == LoopEnd(first, n, ChunkSize(n, num_threads))
           t == Task("chunk", first, e, e, other, init)
<1>1. /\ caller = "chunking" /\ caller' = caller /\ first < n /\ first' = e
      /\ futures' = Append(futures, t)
      /\ UNCHANGED <<input, got, ranges, sums, i, mem, result>>
      /\ other' = IF Moves THEN other + (e - first) ELSE other
  BY DEF SubmitChunk, AdvanceOther, Moves, lists
<1>2. e \in first + 1 .. n /\ first \in 0 .. n /\ n \in Nat /\ other \in 0 .. n
  <2>1. first \in 0 .. n /\ n \in Nat /\ num_threads \in Nat \ {0} /\ other \in {0, first}
    BY Facts DEF Inv
  <2>2. e \in first + 1 .. n
    BY <1>1, <2>1, LoopEndFits
  <2> HIDE DEF e
  <2> QED BY <2>1, <2>2
<1> HIDE DEF e
<1>3. t \in TaskRecord
  BY <1>2, Letters DEF Task, TaskRecord
<1>4. /\ t.part = "chunk" /\ t.first = first /\ t.last = e /\ t.other = other /\ t.state = "queued"
  BY DEF Task
<1> HIDE DEF t
<1>5. Moves' = Moves /\ is_seq' = is_seq /\ Scan' = Scan /\ Mergesort' = Mergesort
      /\ n' = n /\ policy' = policy /\ algorithm' = algorithm
  BY <1>1, Constants DEF input
<1>6. other = (IF Moves THEN first ELSE 0) /\ other' = (IF Moves THEN first' ELSE 0)
  BY <1>1, <1>2 DEF Inv, Shape, Aligned
<1>7. /\ futures \in Seq(TaskRecord) /\ Len(futures) \in Nat /\ DOMAIN futures = 1 .. Len(futures)
      /\ futures' \in Seq(TaskRecord) /\ Len(futures') = Len(futures) + 1
      /\ DOMAIN futures' = 1 .. Len(futures) + 1
      /\ \A f \in DOMAIN futures : futures'[f] = futures[f]
      /\ futures'[Len(futures) + 1] = t
  BY <1>1, <1>3, Facts DEF Inv
<1>8. Typed'
  <2>1. first' \in 0 .. n /\ other' \in {0, first'}
    BY <1>1, <1>2, <1>6
  <2>2. got \in 0 .. Len(futures) + 1
    BY <1>7, Facts DEF Inv
  <2> QED BY <1>1, <1>7, <2>1, <2>2, TypedStep, Facts DEF Inv
<1>9. StagesFit'
  BY <1>1, <1>5 DEF Inv, Shape, StagesFit
<1>10. Aligned'
  <2>1. ASSUME NEW f \in DOMAIN futures', f \in DOMAIN futures \/ f = Len(futures) + 1
        PROVE  /\ futures'[f].part = "chunk"
                     => futures'[f].other = IF Moves THEN futures'[f].first ELSE 0
               /\ futures'[f].part = "scan" => Scan /\ futures'[f].other = futures'[f].first
               /\ futures'[f].part \in {"merge", "forwarded"} => Mergesort
               /\ futures'[f].part = "forwarded" => futures'[f].state = "ready"
    <3>1. CASE f \in DOMAIN futures
      BY <1>7, <3>1 DEF Inv, Shape, Aligned
    <3>2. CASE f = Len(futures) + 1
      BY <1>4, <1>6, <1>7, <3>2
    <3> QED BY <2>1, <3>1, <3>2
  <2>2. \A f \in DOMAIN futures' : f \in DOMAIN futures \/ f = Len(futures) + 1
    BY <1>7
  <2> QED BY <1>5, <1>6, <2>1, <2>2 DEF Aligned
<1>11. GotReady'
  BY <1>1 DEF Inv, Shape, GotReady
<1>12. Tiles(Spans', first')
  <2>1. Spans' = Append(Spans, <<first, e>>)
    BY <1>1, <1>3, <1>4, SpansAppend DEF Inv
  <2>2. Tiles(Spans, first) /\ Spans \in Seq(Nat \X Nat) /\ first \in Nat /\ e \in Nat /\ first < e
    BY <1>1, <1>2, SpansType DEF Inv, Shape, ListsFit
  <2> QED BY <1>1, <2>1, <2>2, TilesAppend
<1>13. ListsFit'
  <2>1. ranges' = <<>>
    BY <1>1 DEF Inv, Shape, ListsFit
  <2> QED BY <1>1, <1>5, <1>7, <1>12, <2>1 DEF Inv, Shape, ListsFit
<1> QED BY <1>8, <1>9, <1>10, <1>11, <1>13 DEF Inv, Shape

LEMMA ChunkedInv == ASSUME Inv, Chunked PROVE Inv'
<1>1. /\ caller = "chunking" /\ caller' = "getting" /\ first >= n
      /\ UNCHANGED <<input, first, other, futures, got, ranges, sums, i, mem, result>>
  BY DEF Chunked, Goto, loop, lists
<1>2. Typed'
  BY <1>1, TypedStep, Facts DEF Inv, Stages
<1>3. Moves' = Moves /\ is_seq' = is_seq /\ Scan' = Scan /\ Mergesort' = Mergesort
      /\ n' = n /\ policy' = policy /\ algorithm' = algorithm
  BY <1>1, Constants DEF input
<1>4. first = n
  BY <1>1, Facts DEF Inv
<1>5. StagesFit'
  BY <1>1, <1>3, <1>4 DEF Inv, Shape, StagesFit, Finished
<1>6. Aligned'
  BY <1>1, <1>3 DEF Inv, Shape, Aligned
<1>7. GotReady'
  BY <1>1 DEF Inv, Shape, GotReady
<1>8. Spans' = Spans
  BY <1>1 DEF Spans
<1>9. ListsFit'
  <2>1. ranges = <<>> /\ got = 0
    BY <1>1 DEF Inv, Shape, ListsFit, GotReady
  <2> QED BY <1>1, <1>3, <1>8, <2>1 DEF Inv, Shape, ListsFit
<1> QED BY <1>2, <1>5, <1>6, <1>7, <1>9 DEF Inv, Shape

\* A task starts or ends, and its future becomes x.
LEMMA TaskInv ==
    ASSUME Inv, UNCHANGED <<input, caller, loop, got, lists>>,
           NEW f \in DOMAIN futures, futures[f].state # "ready", NEW x \in TaskRecord,
           x.part = futures[f].part, x.first = futures[f].first, x.last = futures[f].last,
           x.other = futures[f].other,
           futures' = [futures EXCEPT ![f] = x], mem' \in [Cell -> Words], result' \in Words
    PROVE  Inv'
<1>1. UNCHANGED <<first, other, got, ranges, sums, i>>
  BY DEF loop, lists
<1>2. /\ futures \in Seq(TaskRecord) /\ futures' \in Seq(TaskRecord)
      /\ Len(futures') = Len(futures) /\ DOMAIN futures' = DOMAIN futures
      /\ DOMAIN futures = 1 .. Len(futures)
      /\ futures'[f] = x /\ \A g \in DOMAIN futures \ {f} : futures'[g] = futures[g]
  BY Facts DEF Inv
<1>3. Typed'
  BY <1>1, <1>2, TypedStep, Facts DEF Inv, Stages
<1>4. Moves' = Moves /\ is_seq' = is_seq /\ Scan' = Scan /\ Mergesort' = Mergesort
      /\ n' = n /\ policy' = policy /\ algorithm' = algorithm
  BY Constants DEF input
<1>5. StagesFit'
  <2>1. caller # "called"
    BY <1>2 DEF Inv, Shape, StagesFit
  <2> QED BY <1>1, <1>4, <2>1 DEF Inv, Shape, StagesFit
<1>6. futures[f].part # "forwarded"
  BY DEF Inv, Shape, Aligned
<1>7. Aligned'
  <2>1. ASSUME NEW g \in DOMAIN futures
        PROVE  /\ futures'[g].part = "chunk"
                     => futures'[g].other = IF Moves THEN futures'[g].first ELSE 0
               /\ futures'[g].part = "scan" => Scan /\ futures'[g].other = futures'[g].first
               /\ futures'[g].part \in {"merge", "forwarded"} => Mergesort
               /\ futures'[g].part = "forwarded" => futures'[g].state = "ready"
    <3>1. CASE g = f
      BY <1>2, <1>6, <3>1 DEF Inv, Shape, Aligned
    <3>2. CASE g # f
      BY <1>2, <3>2 DEF Inv, Shape, Aligned
    <3> QED BY <3>1, <3>2
  <2>2. other' = IF Moves' THEN first' ELSE 0
    BY <1>1, <1>4 DEF Inv, Shape, Aligned
  <2> QED BY <1>2, <1>4, <2>1, <2>2 DEF Aligned
<1>8. GotReady'
  <2>1. f \notin 1 .. got /\ caller # "returned"
    BY DEF Inv, Shape, GotReady
  <2>2. 1 .. got \subseteq DOMAIN futures
    BY <1>2, Facts DEF Inv
  <2> QED BY <1>1, <1>2, <2>1, <2>2 DEF Inv, Shape, GotReady
<1>9. Spans' = Spans
  BY <1>2 DEF Spans
<1>10. ListsFit'
  <2>1. PairedUp' = PairedUp
    BY <1>1, <1>4 DEF PairedUp
  <2> QED BY <1>1, <1>2, <1>4, <1>9, <2>1 DEF Inv, Shape, ListsFit
<1> QED BY <1>3, <1>5, <1>7, <1>8, <1>10 DEF Inv, Shape

\* The caller gets a future, or joins a thread, and adds nothing to its lists.
LEMMA GetInv ==
    ASSUME Inv, NextArrived, UNCHANGED <<input, caller, loop, futures, lists, mem>>,
           result' \in Words, caller = "getting" => ~Scan /\ ~Mergesort
    PROVE  Inv'
<1>1. /\ UNCHANGED <<caller, first, other, futures, ranges, sums, i>> /\ got' = got + 1
      /\ caller \in {"getting", "joining"} /\ got < Len(futures)
      /\ futures[got + 1].state = "ready"
  BY DEF loop, lists, NextArrived, Arrived
<1>2. got \in 0 .. Len(futures) /\ Len(futures) \in Nat
  BY Facts DEF Inv
<1>3. got' \in 0 .. Len(futures)
  BY <1>1, <1>2
<1>4. Typed'
  BY <1>1, <1>3, TypedStep, Facts DEF Inv
<1>5. Moves' = Moves /\ is_seq' = is_seq /\ Scan' = Scan /\ Mergesort' = Mergesort
      /\ n' = n /\ policy' = policy /\ algorithm' = algorithm
  BY Constants DEF input
<1>6. StagesFit'
  BY <1>1, <1>5 DEF Inv, Shape, StagesFit, Finished
<1>7. Aligned'
  BY <1>1, <1>5 DEF Inv, Shape, Aligned
<1>8. GotReady'
  <2>1. \A f \in 1 .. got + 1 : f \in 1 .. got \/ f = got + 1
    BY <1>2
  <2> QED BY <1>1, <2>1 DEF Inv, Shape, GotReady
<1>9. Spans' = Spans
  BY <1>1 DEF Spans
<1>10. ListsFit'
  BY <1>1, <1>5, <1>9 DEF Inv, Shape, ListsFit
<1> QED BY <1>4, <1>6, <1>7, <1>8, <1>10 DEF Inv, Shape

\* The caller gets a future and adds its span to ranges.
LEMMA GetRangeInv ==
    ASSUME Inv, NextArrived, caller = "getting", Scan \/ Mergesort,
           ranges' = Append(ranges, <<futures[got + 1].first, futures[got + 1].last>>),
           sums' = IF Scan THEN Append(sums, futures[got + 1].value) ELSE sums,
           UNCHANGED <<input, caller, loop, futures, i, mem, result>>
    PROVE  Inv'
<1>1. /\ UNCHANGED <<caller, first, other, futures, i>> /\ got' = got + 1
      /\ got < Len(futures) /\ futures[got + 1].state = "ready"
  BY DEF loop, NextArrived, Arrived
<1>2. got \in 0 .. Len(futures) /\ Len(futures) \in Nat /\ DOMAIN futures = 1 .. Len(futures)
  BY Facts DEF Inv
<1>3. got' \in 0 .. Len(futures) /\ got + 1 \in DOMAIN futures
  BY <1>1, <1>2
<1> DEFINE x == <<futures[got + 1].first, futures[got + 1].last>>
<1>4. x \in (0 .. n) \X (0 .. n) /\ x = Spans[got + 1] /\ futures[got + 1].value \in Words
  BY <1>3, TaskFacts, SpansType DEF Inv
<1> HIDE DEF x
<1>5. /\ ranges \in Seq((0 .. n) \X (0 .. n)) /\ Len(ranges) = got
      /\ i \in 1 .. Len(ranges) + 1 /\ sums \in Seq(Words)
  BY Facts DEF Inv, Shape, ListsFit
<1>6. /\ ranges' = Append(ranges, x) /\ ranges' \in Seq((0 .. n) \X (0 .. n))
      /\ Len(ranges') = got + 1 /\ DOMAIN ranges' = 1 .. got + 1
      /\ \A k \in 1 .. got : ranges'[k] = ranges[k]
      /\ ranges'[got + 1] = x
  <2>1. ranges' = Append(ranges, x)
    BY DEF x
  <2>2. /\ Append(ranges, x) \in Seq((0 .. n) \X (0 .. n))
        /\ Len(Append(ranges, x)) = Len(ranges) + 1
        /\ DOMAIN Append(ranges, x) = 1 .. Len(ranges) + 1
        /\ \A k \in 1 .. Len(ranges) : Append(ranges, x)[k] = ranges[k]
        /\ Append(ranges, x)[Len(ranges) + 1] = x
    BY <1>4, <1>5, AppendIs
  <2> QED BY <1>5, <2>1, <2>2
<1>7. sums' \in Seq(Words) /\ Len(sums') = IF Scan THEN Len(sums) + 1 ELSE Len(sums)
  <2>1. CASE Scan
    BY <1>4, <1>5, <2>1
  <2>2. CASE ~Scan
    BY <1>5, <2>2
  <2> QED BY <2>1, <2>2
<1>8. i' \in 1 .. Len(ranges') + 1
  BY <1>1, <1>2, <1>5, <1>6
<1>9. Typed'
  BY <1>1, <1>3, <1>6, <1>7, <1>8, TypedStep, Facts DEF Inv
<1>10. Moves' = Moves /\ is_seq' = is_seq /\ Scan' = Scan /\ Mergesort' = Mergesort
       /\ n' = n /\ policy' = policy /\ algorithm' = algorithm
  BY Constants DEF input
<1>11. StagesFit'
  BY <1>1, <1>10 DEF Inv, Shape, StagesFit
<1>12. Aligned'
  BY <1>1, <1>10 DEF Inv, Shape, Aligned
<1>13. GotReady'
  <2>1. \A f \in 1 .. got + 1 : f \in 1 .. got \/ f = got + 1
    BY <1>2
  <2> QED BY <1>1, <2>1 DEF Inv, Shape, GotReady
<1>14. Spans' = Spans
  BY <1>1 DEF Spans
<1>15. ListsFit'
  <2>1. ASSUME NEW k \in DOMAIN ranges' PROVE ranges'[k] = Spans[k]
    <3>1. CASE k = got + 1
      BY <1>4, <1>6, <3>1
    <3>2. CASE k \in 1 .. got
      <4>1. k \in DOMAIN ranges
        BY <1>5, <3>2
      <4> QED BY <1>6, <3>2, <4>1 DEF Inv, Shape, ListsFit
    <3>3. k \in 1 .. got \/ k = got + 1
      BY <1>2, <1>6
    <3> QED BY <3>1, <3>2, <3>3
  <2>2. Len(ranges') <= Len(futures) /\ Len(ranges') = got'
    BY <1>1, <1>2, <1>6
  <2>3. Scan => Len(sums') = Len(ranges')
    BY <1>5, <1>6, <1>7 DEF Inv, Shape, ListsFit
  <2>4. Tiles(Spans', first')
    BY <1>1, <1>14 DEF Inv, Shape, ListsFit
  <2> QED BY <1>1, <1>10, <1>14, <2>1, <2>2, <2>3, <2>4 DEF ListsFit
<1> QED BY <1>9, <1>11, <1>12, <1>13, <1>15 DEF Inv, Shape

\* The caller is through with the futures, and starts over with the ranges.
LEMMA ClearInv ==
    ASSUME Inv, caller = "getting", got = Len(futures), Scan \/ Mergesort,
           ClearedTo(IF Scan THEN "applying" ELSE "merging"), i' = 1,
           sums' \in Seq(Words), Len(sums') = Len(sums),
           UNCHANGED <<input, loop, ranges, mem, result>>
    PROVE  Inv'
<1>1. /\ UNCHANGED <<first, other, ranges>> /\ got' = 0 /\ futures' = <<>> /\ i' = 1
      /\ caller' = IF Scan THEN "applying" ELSE "merging"
  BY DEF loop, ClearedTo
<1>2. futures' \in Seq(TaskRecord) /\ got' \in 0 .. Len(futures') /\ DOMAIN futures' = {}
  BY <1>1
<1>3. i' \in 1 .. Len(ranges') + 1
  BY <1>1, Facts DEF Inv
<1>4. caller' \in Stages
  BY <1>1 DEF Stages
<1>5. Typed'
  BY <1>1, <1>2, <1>3, <1>4, TypedStep, Facts DEF Inv
<1>6. Moves' = Moves /\ is_seq' = is_seq /\ Scan' = Scan /\ Mergesort' = Mergesort
      /\ n' = n /\ policy' = policy /\ algorithm' = algorithm
  BY Constants DEF input
<1>7. first = n /\ n # 0
  BY DEF Inv, Shape, StagesFit, Finished
<1>8. StagesFit'
  BY <1>1, <1>6, <1>7 DEF Inv, Shape, StagesFit, Finished
<1>9. Aligned'
  BY <1>1, <1>2, <1>6 DEF Inv, Shape, Aligned
<1>10. GotReady'
  BY <1>1 DEF GotReady
<1>11. ranges = Spans
  <2>1. Spans \in Seq(Nat \X Nat) /\ Len(Spans) = Len(futures) /\ DOMAIN Spans = DOMAIN futures
    BY SpansType DEF Inv
  <2>2. Len(ranges) = Len(futures) /\ \A k \in DOMAIN ranges : ranges[k] = Spans[k]
    BY DEF Inv, Shape, ListsFit
  <2>3. /\ ranges \in Seq((0 .. n) \X (0 .. n)) /\ DOMAIN ranges = 1 .. Len(ranges)
        /\ DOMAIN futures = 1 .. Len(futures)
    BY Facts DEF Inv
  <2>4. /\ Spans = [k \in 1 .. Len(futures) |-> Spans[k]]
        /\ ranges = [k \in 1 .. Len(futures) |-> ranges[k]]
    BY <2>1, <2>2, <2>3
  <2> QED BY <2>2, <2>3, <2>4
<1>12. Tiles(ranges, n)
  BY <1>7, <1>11 DEF Inv, Shape, ListsFit
<1>13. Spans' = <<>>
  BY <1>1 DEF Spans
<1>14. PairedUp' = 0
  <2>1. Len(ranges) \in Nat /\ DOMAIN ranges = 1 .. Len(ranges)
    BY Facts DEF Inv
  <2>2. Len(ranges) # 0
    <3>1. ranges # <<>>
      BY <1>7, <1>12 DEF Tiles
    <3> QED BY <3>1, Facts DEF Inv
  <2>3. ranges[1][1] = 0
    BY <1>7, <1>12 DEF Tiles
  <2> QED BY <1>1, <2>1, <2>2, <2>3 DEF PairedUp
<1>15. ListsFit'
  <2>1. Tiles(Spans', PairedUp')
    BY <1>13, <1>14, TilesNothing
  <2>2. Len(futures') = i' - 1
    BY <1>1
  <2> QED BY <1>1, <1>2, <1>6, <1>12, <2>1, <2>2 DEF Inv, Shape, ListsFit
<1> QED BY <1>5, <1>8, <1>9, <1>10, <1>15 DEF Inv, Shape

\* A task for ranges is submitted.
LEMMA AppendAligned ==
    ASSUME Inv, NEW t \in TaskRecord, futures' = Append(futures, t), UNCHANGED <<input, loop>>,
           \/ t.part = "scan" /\ Scan /\ t.other = t.first
           \/ t.part = "merge" /\ Mergesort
           \/ t.part = "forwarded" /\ Mergesort /\ t.state = "ready"
    PROVE  Aligned'
<1>1. /\ DOMAIN futures = 1 .. Len(futures) /\ DOMAIN futures' = 1 .. Len(futures) + 1
      /\ \A f \in DOMAIN futures : futures'[f] = futures[f]
      /\ futures'[Len(futures) + 1] = t /\ Len(futures) \in Nat
  BY Facts, AppendIs DEF Inv
<1>2. Moves' = Moves /\ Scan' = Scan /\ Mergesort' = Mergesort
  BY Constants
<1>3. ASSUME NEW f \in DOMAIN futures', f \in DOMAIN futures \/ f = Len(futures) + 1
      PROVE  /\ futures'[f].part = "chunk"
                   => futures'[f].other = IF Moves THEN futures'[f].first ELSE 0
             /\ futures'[f].part = "scan" => Scan /\ futures'[f].other = futures'[f].first
             /\ futures'[f].part \in {"merge", "forwarded"} => Mergesort
             /\ futures'[f].part = "forwarded" => futures'[f].state = "ready"
  <2>1. CASE f \in DOMAIN futures
    BY <1>1, <2>1 DEF Inv, Shape, Aligned
  <2>2. CASE f = Len(futures) + 1
    BY <1>1, <2>2
  <2> QED BY <1>3, <2>1, <2>2
<1>4. \A f \in DOMAIN futures' : f \in DOMAIN futures \/ f = Len(futures) + 1
  BY <1>1
<1>5. other' = IF Moves' THEN first' ELSE 0
  BY <1>2 DEF Inv, Shape, Aligned, loop
<1> QED BY <1>2, <1>3, <1>4, <1>5 DEF Aligned

LEMMA AppendInv ==
    ASSUME Inv, NEW t \in TaskRecord, futures' = Append(futures, t), Aligned',
           caller \in {"applying", "merging"}, i' \in 1 .. Len(ranges) + 1,
           UNCHANGED <<input, caller, loop, got, ranges, sums, mem, result>>,
           caller = "applying" => i' = i + 1 /\ i \in DOMAIN ranges
                                  /\ <<t.first, t.last>> = ranges[i],
           caller = "merging" => t.first = PairedUp /\ t.last = PairedUp' /\ t.first < t.last
    PROVE  Inv'
<1>1. UNCHANGED <<caller, first, other, got, ranges, sums>>
  BY DEF loop
<1>2. /\ DOMAIN futures = 1 .. Len(futures) /\ DOMAIN futures' = 1 .. Len(futures) + 1
      /\ \A f \in DOMAIN futures : futures'[f] = futures[f]
      /\ futures'[Len(futures) + 1] = t /\ Len(futures) \in Nat
      /\ futures' \in Seq(TaskRecord) /\ Len(futures') = Len(futures) + 1
  BY Facts, AppendIs DEF Inv
<1>3. got' \in 0 .. Len(futures')
  BY <1>1, <1>2, Facts DEF Inv
<1>4. Typed'
  BY <1>1, <1>2, <1>3, TypedStep, Facts DEF Inv
<1>5. Moves' = Moves /\ is_seq' = is_seq /\ Scan' = Scan /\ Mergesort' = Mergesort
      /\ n' = n /\ policy' = policy /\ algorithm' = algorithm
  BY Constants DEF input
<1>6. StagesFit'
  BY <1>1, <1>5 DEF Inv, Shape, StagesFit
<1>7. GotReady'
  <2>1. got = 0
    BY DEF Inv, Shape, GotReady
  <2> QED BY <1>1, <2>1 DEF GotReady
<1>8. Spans' = Append(Spans, <<t.first, t.last>>)
  BY SpansAppend DEF Inv
<1>9. Spans \in Seq(Nat \X Nat) /\ Len(Spans) = Len(futures) /\ DOMAIN Spans = DOMAIN futures
  BY SpansType DEF Inv
<1>10. t.first \in Nat /\ t.last \in Nat
  <2>1. n \in Nat
    BY Facts DEF Inv
  <2>2. t.first \in 0 .. n /\ t.last \in 0 .. n
    BY DEF TaskRecord
  <2> QED BY <2>1, <2>2
<1>11. CASE caller = "applying"
  <2>1. /\ Len(futures) = i - 1 /\ Tiles(ranges, n)
        /\ \A k \in DOMAIN futures : Spans[k] = ranges[k]
    BY <1>11 DEF Inv, Shape, ListsFit
  <2>2. Len(futures') = i' - 1 /\ Len(futures) + 1 = i
    <3>1. i \in Int
      BY Facts DEF Inv
    <3>2. i' = i + 1
      BY <1>11
    <3>3. Len(futures') = Len(futures) + 1 /\ Len(futures) = i - 1
      BY <1>2, <2>1
    <3>4. Len(futures) + 1 = i
      BY <3>1, <3>3
    <3>5. Len(futures') = i' - 1
      BY <3>1, <3>2, <3>3
    <3> QED BY <3>4, <3>5
  <2>3. ASSUME NEW k \in DOMAIN futures' PROVE Spans'[k] = ranges[k]
    <3>1. CASE k \in DOMAIN futures
      <4>1. k \in 1 .. Len(Spans)
        BY <1>2, <1>9, <3>1
      <4>2. <<t.first, t.last>> \in Nat \X Nat
        BY <1>10
      <4>3. Spans'[k] = Spans[k]
        BY <1>8, <1>9, <4>1, <4>2, AppendIs
      <4> QED BY <2>1, <3>1, <4>3
    <3>2. CASE k = i
      <4>1. Spans'[i] = <<t.first, t.last>>
        BY <1>8, <1>9, <1>10, <2>2, AppendIs
      <4> QED BY <1>11, <3>2, <4>1
    <3>3. k \in DOMAIN futures \/ k = i
      BY <1>2, <2>2
    <3> QED BY <3>1, <3>2, <3>3
  <2>4. Scan' => Len(sums') = Len(ranges')
    BY <1>1, <1>5 DEF Inv, Shape, ListsFit
  <2>5. caller' = "applying" /\ Tiles(ranges', n')
        /\ \A k \in DOMAIN futures' : Spans'[k] = ranges'[k]
    BY <1>1, <1>5, <1>11, <2>1, <2>3
  <2>6. ListsFit'
    BY <2>2, <2>4, <2>5 DEF ListsFit
  <2> QED BY <1>4, <1>6, <1>7, <2>6 DEF Inv, Shape
<1>12. CASE caller = "merging"
  <2>1. Tiles(ranges, n) /\ Tiles(Spans, t.first)
    BY <1>12 DEF Inv, Shape, ListsFit
  <2>2. Tiles(Spans', t.last)
    BY <1>8, <1>9, <1>10, <1>12, <2>1, TilesAppend
  <2>3. Tiles(Spans', PairedUp')
    BY <1>12, <2>2
  <2>4. Scan' => Len(sums') = Len(ranges')
    BY <1>1, <1>5 DEF Inv, Shape, ListsFit
  <2>5. ListsFit'
    BY <1>1, <1>5, <1>12, <2>1, <2>3, <2>4 DEF ListsFit
  <2> QED BY <1>4, <1>6, <1>7, <2>5 DEF Inv, Shape
<1> QED BY <1>11, <1>12

\* Where the loop over the ranges is, in them.
LEMMA RangesFacts ==
    ASSUME Inv, caller \in {"applying", "merging"}
    PROVE  /\ first = n /\ n \in Nat /\ Tiles(ranges, n) /\ i \in Nat \ {0}
           /\ Len(ranges) \in Nat /\ DOMAIN ranges = 1 .. Len(ranges)
           /\ \A k \in DOMAIN ranges : /\ ranges[k] = <<ranges[k][1], ranges[k][2]>>
                                       /\ ranges[k][1] \in 0 .. n /\ ranges[k][2] \in 0 .. n
                                       /\ ranges[k][1] < ranges[k][2]
<1>1. /\ n \in Nat /\ i \in 1 .. Len(ranges) + 1 /\ ranges \in Seq((0 .. n) \X (0 .. n))
      /\ Len(ranges) \in Nat /\ DOMAIN ranges = 1 .. Len(ranges)
  BY Facts DEF Inv
<1>2. first = n /\ Tiles(ranges, n)
  BY DEF Inv, Shape, StagesFit, ListsFit
<1>3. ASSUME NEW k \in DOMAIN ranges
      PROVE  /\ ranges[k] = <<ranges[k][1], ranges[k][2]>>
             /\ ranges[k][1] \in 0 .. n /\ ranges[k][2] \in 0 .. n /\ ranges[k][1] < ranges[k][2]
  <2>1. ranges[k] \in (0 .. n) \X (0 .. n)
    BY <1>1
  <2>2. ranges[k][1] < ranges[k][2]
    BY <1>2 DEF Tiles
  <2> QED BY <2>1, <2>2
<1> QED BY <1>1, <1>2, <1>3

LEMMA SubmitScanInv == ASSUME Inv, SubmitScan PROVE Inv'
<1> DEFINE t == Task("scan", ranges[i][1], ranges[i][2], ranges[i][2], ranges[i][1], sums[i])
<1>1. /\ Scan /\ caller = "applying" /\ i <= Len(ranges) /\ futures' = Append(futures, t)
      /\ i' = i + 1 /\ UNCHANGED <<input, caller, loop, got, ranges, sums, mem, result>>
  BY DEF SubmitScan
<1>2. i \in DOMAIN ranges /\ i' \in 1 .. Len(ranges) + 1
  BY <1>1, RangesFacts
<1>3. sums[i] \in Words
  <2>1. sums \in Seq(Words) /\ Len(sums) = Len(ranges)
    BY <1>1, Facts DEF Inv, Shape, ListsFit
  <2>2. i \in 1 .. Len(sums)
    BY <1>1, <1>2, <2>1, RangesFacts
  <2> QED BY <2>1, <2>2
<1>4. ranges[i][1] \in 0 .. n /\ ranges[i][2] \in 0 .. n /\ ranges[i] = <<ranges[i][1], ranges[i][2]>>
  BY <1>1, <1>2, RangesFacts
<1>5. t \in TaskRecord
  BY <1>3, <1>4, Letters DEF Task, TaskRecord
<1>6. t.part = "scan" /\ t.other = t.first /\ <<t.first, t.last>> = ranges[i]
  BY <1>4 DEF Task
<1> HIDE DEF t
<1>7. Aligned'
  BY <1>1, <1>5, <1>6, AppendAligned
<1> QED BY <1>1, <1>2, <1>5, <1>6, <1>7, AppendInv

LEMMA ScansSubmittedInv == ASSUME Inv, ScansSubmitted PROVE Inv'
<1>1. /\ Scan /\ caller = "applying" /\ i > Len(ranges) /\ caller' = "joining"
      /\ UNCHANGED <<input, first, other, futures, got, ranges, sums, i, mem, result>>
  BY DEF ScansSubmitted, Goto, loop, lists
<1>2. Typed'
  BY <1>1, TypedStep, Facts DEF Inv, Stages
<1>3. Moves' = Moves /\ is_seq' = is_seq /\ Scan' = Scan /\ Mergesort' = Mergesort
      /\ n' = n /\ policy' = policy /\ algorithm' = algorithm
  BY <1>1, Constants DEF input
<1>4. StagesFit'
  BY <1>1, <1>3 DEF Inv, Shape, StagesFit, Finished
<1>5. Aligned'
  BY <1>1, <1>3 DEF Inv, Shape, Aligned
<1>6. GotReady'
  BY <1>1 DEF Inv, Shape, GotReady
<1>7. Spans' = Spans
  BY <1>1 DEF Spans
<1>8. first = n /\ n \in Nat /\ Tiles(ranges, n) /\ Len(ranges) \in Nat /\ DOMAIN ranges = 1 .. Len(ranges)
  BY <1>1, RangesFacts
<1>9. Len(futures) = Len(ranges)
  <2>1. Len(futures) = i - 1 /\ i \in 1 .. Len(ranges) + 1
    BY <1>1, Facts DEF Inv, Shape, ListsFit
  <2> QED BY <1>1, <1>8, <2>1
<1>10. Spans = ranges
  <2>1. Spans \in Seq(Nat \X Nat) /\ Len(Spans) = Len(futures) /\ DOMAIN Spans = DOMAIN futures
    BY SpansType DEF Inv
  <2>2. \A k \in DOMAIN futures : Spans[k] = ranges[k]
    BY <1>1 DEF Inv, Shape, ListsFit
  <2>3. /\ ranges \in Seq((0 .. n) \X (0 .. n)) /\ DOMAIN ranges = 1 .. Len(ranges)
        /\ DOMAIN futures = 1 .. Len(futures)
    BY Facts DEF Inv
  <2>4. /\ Spans = [k \in 1 .. Len(futures) |-> Spans[k]]
        /\ ranges = [k \in 1 .. Len(futures) |-> ranges[k]]
    BY <1>9, <2>1, <2>3
  <2> QED BY <2>2, <2>3, <2>4
<1>11. ListsFit'
  <2>1. Tiles(Spans', first') /\ Len(ranges') <= Len(futures') /\ ranges' = Spans'
    BY <1>1, <1>7, <1>8, <1>9, <1>10
  <2>2. Scan' => Len(sums') = Len(ranges')
    BY <1>1, <1>3 DEF Inv, Shape, ListsFit
  <2> QED BY <1>1, <2>1, <2>2 DEF ListsFit
<1> QED BY <1>2, <1>4, <1>5, <1>6, <1>11 DEF Inv, Shape

LEMMA PairUpInv == ASSUME Inv, PairUp PROVE Inv'
<1> DEFINE t == MergeTask(ranges[i], ranges[i + 1])
<1>1. /\ Mergesort /\ caller = "merging" /\ i < Len(ranges) /\ futures' = Append(futures, t)
      /\ i' = i + 2 /\ UNCHANGED <<input, caller, loop, got, ranges, sums, mem, result>>
  BY DEF PairUp, NextPair
<1>2. i \in DOMAIN ranges /\ i + 1 \in DOMAIN ranges /\ i' \in 1 .. Len(ranges) + 1
  BY <1>1, RangesFacts
<1>3. /\ ranges[i][1] \in 0 .. n /\ ranges[i][2] \in 0 .. n /\ ranges[i + 1][2] \in 0 .. n
      /\ ranges[i][1] < ranges[i][2] /\ ranges[i + 1][1] < ranges[i + 1][2]
      /\ ranges[i + 1][1] \in 0 .. n /\ n \in Nat
  BY <1>1, <1>2, RangesFacts
<1>4. t \in TaskRecord
  BY <1>3, Letters DEF MergeTask, Task, TaskRecord
<1>5. t.part = "merge" /\ t.first = ranges[i][1] /\ t.last = ranges[i + 1][2]
  BY DEF MergeTask, Task
<1> HIDE DEF t
<1>6. Aligned'
  BY <1>1, <1>4, <1>5, AppendAligned
<1>7. Tiles(ranges, n) /\ Len(ranges) \in Nat /\ i \in Nat \ {0} /\ DOMAIN ranges = 1 .. Len(ranges)
  BY <1>1, RangesFacts
<1>8. t.first < t.last
  <2>1. ranges[i][2] = ranges[i + 1][1]
    <3>1. i \in 1 .. Len(ranges) - 1
      BY <1>1, <1>7
    <3> QED BY <1>7, <3>1 DEF Tiles
  <2> QED BY <1>3, <1>5, <2>1
<1>9. t.first = PairedUp
  BY <1>1, <1>5, <1>7 DEF PairedUp
<1>10. t.last = PairedUp'
  <2>1. ranges' = ranges /\ n' = n
    BY <1>1 DEF input
  <2>2. CASE i + 1 = Len(ranges)
    <3>1. ranges[Len(ranges)][2] = n
      <4>1. ranges # <<>>
        BY <1>2
      <4> QED BY <1>7, <4>1 DEF Tiles
    <3>2. PairedUp' = n
      BY <1>1, <1>7, <2>1, <2>2 DEF PairedUp
    <3> QED BY <1>5, <2>2, <3>1, <3>2
  <2>3. CASE i + 1 # Len(ranges)
    <3>1. i + 1 \in 1 .. Len(ranges) - 1 /\ i + 2 <= Len(ranges) /\ (i + 1) + 1 = i + 2
      <4> DEFINE len == Len(ranges)
      <4>1. i < len /\ len \in Nat /\ i \in Nat \ {0} /\ i + 1 # len
        BY <1>1, <1>7, <2>3
      <4> HIDE DEF len
      <4>2. i + 1 \in 1 .. len - 1 /\ i + 2 <= len /\ (i + 1) + 1 = i + 2
        BY <4>1
      <4> QED BY <4>2 DEF len
    <3>2. ranges[i + 1][2] = ranges[i + 2][1]
      BY <1>7, <3>1 DEF Tiles
    <3>3. PairedUp' = ranges[i + 2][1]
      BY <1>1, <1>7, <2>1, <3>1 DEF PairedUp
    <3> QED BY <1>5, <3>2, <3>3
  <2> QED BY <2>2, <2>3
<1> QED BY <1>1, <1>2, <1>4, <1>6, <1>8, <1>9, <1>10, AppendInv

LEMMA ForwardLastInv == ASSUME Inv, ForwardLast PROVE Inv'
<1> DEFINE t == [Task("forwarded", ranges[i][1], ranges[i][2], ranges[i][2], 0, <<>>)
                    EXCEPT !.state = "ready"]
<1>1. /\ Mergesort /\ caller = "merging" /\ i = Len(ranges) /\ futures' = Append(futures, t)
      /\ i' = i + 1 /\ UNCHANGED <<input, caller, loop, got, ranges, sums, mem, result>>
  BY DEF ForwardLast
<1>2. i \in DOMAIN ranges /\ i' \in 1 .. Len(ranges) + 1
  BY <1>1, RangesFacts
<1>3. /\ ranges[i][1] \in 0 .. n /\ ranges[i][2] \in 0 .. n
      /\ ranges[i][1] < ranges[i][2] /\ n \in Nat
  BY <1>1, <1>2, RangesFacts
<1>4. t \in TaskRecord
  BY <1>3, Letters DEF Task, TaskRecord
<1>5. /\ t.part = "forwarded" /\ t.first = ranges[i][1] /\ t.last = ranges[i][2]
      /\ t.state = "ready"
  BY DEF Task
<1> HIDE DEF t
<1>6. Aligned'
  BY <1>1, <1>4, <1>5, AppendAligned
<1>7. Tiles(ranges, n) /\ Len(ranges) \in Nat /\ i \in Nat \ {0}
  BY <1>1, RangesFacts
<1>8. t.first = PairedUp
  BY <1>1, <1>5, <1>7 DEF PairedUp
<1>9. t.last = PairedUp'
  <2>1. ranges' = ranges /\ n' = n
    BY <1>1 DEF input
  <2>2. ranges # <<>>
    BY <1>2
  <2>3. ranges[Len(ranges)][2] = n
    BY <1>7, <2>2 DEF Tiles
  <2>4. PairedUp' = n
    BY <1>1, <1>7, <2>1 DEF PairedUp
  <2> QED BY <1>1, <1>5, <2>3, <2>4
<1> QED BY <1>1, <1>2, <1>3, <1>4, <1>5, <1>6, <1>8, <1>9, AppendInv

LEMMA EndRoundInv == ASSUME Inv, EndRound PROVE Inv'
<1>1. /\ Mergesort /\ caller = "merging" /\ i > Len(ranges)
      /\ caller' = IF Len(futures) > 1 THEN "getting" ELSE "last"
      /\ ranges' = <<>> /\ i' = 1
      /\ UNCHANGED <<input, first, other, futures, got, sums, mem, result>>
  BY DEF EndRound, Goto, loop, MoreRounds
<1>2. ranges' \in Seq((0 .. n) \X (0 .. n)) /\ i' \in 1 .. Len(ranges') + 1
  BY <1>1
<1>3. Typed'
  BY <1>1, <1>2, TypedStep, Facts DEF Inv, Stages
<1>4. Moves' = Moves /\ is_seq' = is_seq /\ Scan' = Scan /\ Mergesort' = Mergesort
      /\ n' = n /\ policy' = policy /\ algorithm' = algorithm
  BY <1>1, Constants DEF input
<1>5. StagesFit'
  BY <1>1, <1>4 DEF Inv, Shape, StagesFit, Finished
<1>6. Aligned'
  BY <1>1, <1>4 DEF Inv, Shape, Aligned
<1>7. Spans' = Spans
  BY <1>1 DEF Spans
<1>8. first = n /\ n \in Nat /\ n # 0
  BY <1>1, RangesFacts DEF Inv, Shape, StagesFit, Finished
<1>9. Tiles(Spans, n)
  <2>1. PairedUp = n
    BY <1>1 DEF PairedUp
  <2> QED BY <1>1, <2>1 DEF Inv, Shape, ListsFit
<1>10. Len(futures) \in Nat \ {0}
  <2>1. Spans # <<>>
    BY <1>8, <1>9 DEF Tiles
  <2>2. Spans \in Seq(Nat \X Nat) /\ Len(Spans) = Len(futures)
    BY SpansType DEF Inv
  <2> QED BY <2>1, <2>2
<1>11. GotReady'
  <2>1. got = 0
    BY <1>1 DEF Inv, Shape, GotReady
  <2>2. caller' = "last" => Len(futures') = 1
    <3>1. Len(futures) > 1 \/ Len(futures) = 1
      <4> DEFINE len == Len(futures)
      <4>1. len \in Nat \ {0}
        BY <1>10
      <4> HIDE DEF len
      <4>2. len > 1 \/ len = 1
        BY <4>1
      <4> QED BY <4>2 DEF len
    <3> QED BY <1>1, <3>1
  <2>3. caller' \in {"getting", "last"} /\ got' = 0
    BY <1>1, <2>1
  <2> QED BY <2>2, <2>3 DEF GotReady
<1>12. ListsFit'
  <2>1. Len(ranges') = 0 /\ DOMAIN ranges' = {} /\ ~Scan' /\ got' = 0
    BY <1>1, <1>4, Kinds DEF Inv, Shape, GotReady
  <2>2. Tiles(Spans', first')
    BY <1>1, <1>7, <1>8, <1>9
  <2> QED BY <1>1, <1>10, <2>1, <2>2 DEF ListsFit
<1> QED BY <1>3, <1>5, <1>6, <1>11, <1>12 DEF Inv, Shape

\* The futures cut a part of the range, which in the scan's second pass is in ranges.
LEMMA FuturesInRanges ==
    ASSUME Inv
    PROVE  \/ Tiles(Spans, IF caller = "merging" THEN PairedUp ELSE first)
           \/ /\ Tiles(ranges, n) /\ DOMAIN futures \subseteq DOMAIN ranges
              /\ \A k \in DOMAIN futures : Spans[k] = ranges[k]
<1>1. caller = "applying" => DOMAIN futures \subseteq DOMAIN ranges
  <2> SUFFICES ASSUME caller = "applying" PROVE DOMAIN futures \subseteq DOMAIN ranges
    OBVIOUS
  <2>1. Len(futures) = i - 1 /\ i \in 1 .. Len(ranges) + 1 /\ Len(ranges) \in Nat
        /\ DOMAIN ranges = 1 .. Len(ranges) /\ DOMAIN futures = 1 .. Len(futures)
    BY Facts DEF Inv, Shape, ListsFit
  <2> QED BY <2>1
<1> QED BY <1>1 DEF Inv, Shape, ListsFit

\* The spans of the futures are in the range.
LEMMA SpanFits ==
    ASSUME Inv, NEW f \in DOMAIN futures
    PROVE  /\ n \in Nat /\ futures[f].first \in 0 .. n /\ futures[f].last \in futures[f].first .. n
           /\ futures[f].first < futures[f].last
<1>1. Spans[f][1] < Spans[f][2]
  <2>1. DOMAIN Spans = DOMAIN futures
    BY SpansType DEF Inv
  <2>2. \/ Tiles(Spans, IF caller = "merging" THEN PairedUp ELSE first)
        \/ /\ Tiles(ranges, n) /\ DOMAIN futures \subseteq DOMAIN ranges
           /\ \A k \in DOMAIN futures : Spans[k] = ranges[k]
    BY FuturesInRanges
  <2> QED BY <2>1, <2>2 DEF Tiles
<1>2. Spans[f][1] = futures[f].first /\ Spans[f][2] = futures[f].last
  BY SpansType DEF Inv
<1>3. futures[f].first \in 0 .. n /\ futures[f].last \in 0 .. n /\ n \in Nat
  BY TaskFacts, Facts DEF Inv
<1> QED BY <1>1, <1>2, <1>3

LEMMA StartInv == ASSUME Inv, NEW f \in DOMAIN futures, Start(f) PROVE Inv'
<1> DEFINE x == [futures[f] EXCEPT !.state = "running"]
<1>1. /\ UNCHANGED <<input, caller, loop, got, lists, mem, result>>
      /\ futures[f].state # "ready" /\ futures' = [futures EXCEPT ![f] = x]
  BY DEF Start
<1>2. futures[f] \in TaskRecord
  BY TaskFacts DEF Inv
<1>3. /\ x \in TaskRecord /\ x.part = futures[f].part /\ x.first = futures[f].first
      /\ x.last = futures[f].last /\ x.other = futures[f].other
  BY <1>2 DEF TaskRecord
<1>4. mem' \in [Cell -> Words] /\ result' \in Words
  BY <1>1, Facts DEF Inv
<1> HIDE DEF x
<1> QED BY <1>1, <1>3, <1>4, TaskInv

LEMMA FinishInv ==
    ASSUME Inv, NEW f \in DOMAIN futures, NEW effect, NEW value \in Words,
           \A c \in DOMAIN effect : effect[c] \in Words, Finish(f, effect, value)
    PROVE  Inv'
<1> DEFINE x == [futures[f] EXCEPT !.state = "ready", !.value = value]
<1>1. /\ UNCHANGED <<input, caller, loop, got, lists, result>>
      /\ futures[f].state # "ready" /\ mem' = Written(effect)
      /\ futures' = [futures EXCEPT ![f].state = "ready", ![f].value = value]
  BY DEF Finish
<1>2. futures[f] \in TaskRecord /\ futures \in Seq(TaskRecord)
  BY TaskFacts, Facts DEF Inv
<1>3. /\ x \in TaskRecord /\ x.part = futures[f].part /\ x.first = futures[f].first
      /\ x.last = futures[f].last /\ x.other = futures[f].other
  BY <1>2 DEF TaskRecord
<1>4. mem' \in [Cell -> Words] /\ result' \in Words
  BY <1>1, WrittenType, Facts DEF Inv, Typed
<1>5. futures' = [futures EXCEPT ![f] = x]
  BY <1>1, <1>2
<1> HIDE DEF x
<1> QED BY <1>1, <1>3, <1>4, <1>5, TaskInv

LEMMA ThrowInv == ASSUME Inv, NEW f \in DOMAIN futures, Throw(f) PROVE Inv'
<1>1. /\ UNCHANGED <<input, loop, got, lists, mem, result>> /\ futures[f].state = "running"
  BY DEF Throw
<1>2. CASE policy = "par"
  <2> DEFINE x == [futures[f] EXCEPT !.state = "broken"]
  <2>1. UNCHANGED caller /\ futures' = [futures EXCEPT ![f] = x]
    BY <1>2 DEF Throw
  <2>2. futures[f] \in TaskRecord
    BY TaskFacts DEF Inv
  <2>3. /\ x \in TaskRecord /\ x.part = futures[f].part /\ x.first = futures[f].first
        /\ x.last = futures[f].last /\ x.other = futures[f].other
    BY <2>2 DEF TaskRecord
  <2>4. mem' \in [Cell -> Words] /\ result' \in Words
    BY <1>1, Facts DEF Inv
  <2> HIDE DEF x
  <2> QED BY <1>1, <2>1, <2>3, <2>4, TaskInv
<1>3. CASE policy # "par"
  <2>1. caller' = "terminated" /\ futures' = futures
    BY <1>3 DEF Throw, Goto
  <2>2. ~is_seq
    <3>1. futures # <<>>
      BY Facts DEF Inv
    <3> QED BY <3>1 DEF Inv, Shape, StagesFit
  <2>3. ~Scan /\ ~Mergesort
    <3>1. policy = "pure_threads"
      BY <1>3, <2>2 DEF Inv, Typed, TypeOK, is_seq
    <3> QED BY <3>1 DEF Inv, Shape, StagesFit, Scan, Mergesort, Mergesorts
  <2>4. caller \notin {"applying", "merging"}
    BY <2>3 DEF Inv, Shape, StagesFit
  <2>5. mem' \in [Cell -> Words] /\ result' \in Words
    BY <1>1, Facts DEF Inv
  <2> QED BY <1>1, <2>1, <2>2, <2>4, <2>5, LeaveInv DEF Finished
<1> QED BY <1>2, <1>3

\* What a task's algorithm may write and return.
LEMMA TaskShape ==
    ASSUME Inv, NEW f \in DOMAIN futures
    PROVE  /\ futures[f].first \in 0 .. n /\ futures[f].last \in futures[f].first .. n
           /\ futures[f].part \in {"chunk", "scan"} =>
                 (Moves => futures[f].other = futures[f].first)
           /\ Scan /\ futures[f].part = "scan" => futures[f].other = futures[f].first
           /\ futures[f].init \in Words /\ futures[f].value \in Words
           /\ Elementwise \/ Reduction => futures[f].part = "chunk"
<1>1. futures[f].part \in {"chunk", "scan", "merge", "forwarded"}
      /\ futures[f].init \in Words /\ futures[f].value \in Words
  BY TaskFacts DEF Inv
<1>2. Scan => ~Moves
  BY DEF Scan, Moves
<1> QED BY <1>1, <1>2, SpanFits, Kinds DEF Inv, Shape, Aligned

LEMMA RunInv ==
    ASSUME Inv, NEW f \in DOMAIN futures,
           \/ RunElements(f) \/ RunReduction(f) \/ RunSum(f) \/ RunScan(f)
           \/ RunSort(f) \/ RunMerge(f)
    PROVE  Inv'
<1> DEFINE t == futures[f]
<1>1. /\ t.first \in 0 .. n /\ t.last \in t.first .. n /\ t.init \in Words
      /\ TypeOK /\ <<>> \in Words /\ n \in Nat
  BY TaskShape, SpanFits, Letters DEF Inv, Typed
<1>2. CASE RunElements(f)
  <2>1. Elementwise /\ Finish(f, ElementEffect(t), <<>>)
    BY <1>2 DEF RunElements
  <2>2. \A c \in DOMAIN ElementEffect(t) : ElementEffect(t)[c] \in Words
    BY <1>1, <2>1, TaskShape, ElementEffectType
  <2> QED BY <1>1, <2>1, <2>2, FinishInv
<1>3. CASE RunReduction(f) \/ RunSum(f)
  <2>1. (Reduction \/ Scan) /\ t.part = "chunk" /\ Finish(f, <<>>, t.init \o Terms(t, t.last))
    BY <1>3, TaskShape DEF RunReduction, RunSum
  <2>2. Terms(t, t.last) \in Words
    BY <1>1, <2>1, TaskShape, TermsType
  <2>3. t.init \o Terms(t, t.last) \in Words
    BY <1>1, <2>2, Letters
  <2> QED BY <2>1, <2>3, FinishInv
<1>4. CASE RunScan(f)
  <2>1. Scan /\ t.part = "scan" /\ Finish(f, ScanEffect(t), <<>>)
    BY <1>4 DEF RunScan
  <2>2. t.other = t.first
    BY <2>1, TaskShape
  <2>3. \A c \in DOMAIN ScanEffect(t) : ScanEffect(t)[c] \in Words
    BY <1>1, <2>1, <2>2, ScanEffectType
  <2> QED BY <1>1, <2>1, <2>3, FinishInv
<1>5. CASE RunSort(f) \/ RunMerge(f)
  <2>1. PICK m \in Arrangements(t.first, t.last) : Finish(f, m, <<>>)
    BY <1>5 DEF RunSort, RunMerge, SortEffects, MergeEffects
  <2>2. \A c \in DOMAIN m : m[c] \in Words
    BY <1>1, ArrangementType
  <2> QED BY <1>1, <2>1, <2>2, FinishInv
<1> QED BY <1>2, <1>3, <1>4, <1>5

\* A call that is run sequentially, and one that does nothing.
LEMMA EndInv ==
    ASSUME Inv,
           \/ ElementsSequentially \/ ReduceSequentially \/ ScanSequentially \/ SortSequentially
           \/ ThrowSequentially
           \/ CallScan /\ n = 0
           \/ CallMergesort /\ n = 0
    PROVE  Inv'
<1> DEFINE whole == WholeRange(<<>>)
           scanned == WholeRange(<<TheInit>>)
<1>1. /\ caller = "called" /\ futures = <<>> /\ caller \notin {"applying", "merging"}
      /\ DOMAIN futures = {} /\ TypeOK /\ n \in Nat
      /\ mem \in [Cell -> Words] /\ result \in Words
  <2>1. caller = "called"
    BY DEF ElementsSequentially, ReduceSequentially, ScanSequentially, SortSequentially,
           ThrowSequentially, CallScan, CallMergesort, Sequentially
  <2>2. futures = <<>>
    BY <2>1 DEF Inv, Shape, StagesFit
  <2> QED BY <2>1, <2>2, Facts DEF Inv, Typed
<1>2. /\ whole.first = 0 /\ whole.last = n /\ whole.other = 0
      /\ scanned.first = 0 /\ scanned.last = n /\ scanned.other = 0 /\ scanned.init = <<TheInit>>
      /\ 0 \in 0 .. n /\ n \in 0 .. n
  BY <1>1 DEF WholeRange, Task
<1> HIDE DEF whole, scanned
<1>3. ASSUME NEW effect, NEW value \in Words, \A c \in DOMAIN effect : effect[c] \in Words,
             Sequentially(effect, value)
      PROVE  Inv'
  <2>1. mem' \in [Cell -> Words] /\ result' \in Words
    BY <1>1, <1>3, WrittenType DEF Sequentially
  <2>2. caller' = "returned" /\ is_seq /\ UNCHANGED <<input, loop, futures, got, lists>>
    BY <1>3 DEF Sequentially, Goto
  <2> QED BY <1>1, <2>1, <2>2, LeaveInv DEF Finished
<1>4. CASE ElementsSequentially
  <2>1. Elementwise /\ Sequentially(ElementEffect(whole), <<>>)
    BY <1>4 DEF ElementsSequentially, whole
  <2>2. \A c \in DOMAIN ElementEffect(whole) : ElementEffect(whole)[c] \in Words
    BY <1>1, <1>2, <2>1, ElementEffectType
  <2> QED BY <1>3, <2>1, <2>2, Letters
<1>5. CASE ReduceSequentially
  <2>1. Reduction /\ Sequentially(<<>>, InitOfChunk \o Terms(whole, n))
    BY <1>5 DEF ReduceSequentially, whole
  <2>2. Terms(whole, n) \in Words
    BY <1>1, <1>2, <2>1, TermsType
  <2>3. InitOfChunk \in Words
    BY Letters DEF InitOfChunk
  <2>4. InitOfChunk \o Terms(whole, n) \in Words
    BY <2>2, <2>3, Letters
  <2> QED BY <1>3, <2>1, <2>4
<1>6. CASE ScanSequentially
  <2>1. Scan /\ Sequentially(ScanEffect(scanned), <<>>)
    BY <1>6 DEF ScanSequentially, scanned
  <2>2. \A c \in DOMAIN ScanEffect(scanned) : ScanEffect(scanned)[c] \in Words
    BY <1>1, <1>2, <2>1, ScanEffectType, Letters
  <2> QED BY <1>3, <2>1, <2>2, Letters
<1>7. CASE SortSequentially
  <2>1. PICK m \in Arrangements(whole.first, whole.last) : Sequentially(m, <<>>)
    BY <1>7 DEF SortSequentially, SortEffects, whole
  <2>2. \A c \in DOMAIN m : m[c] \in Words
    BY <1>1, <1>2, ArrangementType
  <2> QED BY <1>3, <2>1, <2>2, Letters
<1>8. CASE ThrowSequentially
  <2>1. /\ caller' = "threw"
        /\ UNCHANGED <<input, loop, futures, got, lists, mem, result>>
    BY <1>8 DEF ThrowSequentially, Goto
  <2> QED BY <1>1, <2>1, LeaveInv DEF Finished
<1>9. CASE (CallScan /\ n = 0) \/ (CallMergesort /\ n = 0)
  <2>1. /\ caller' = "returned"
        /\ UNCHANGED <<input, loop, futures, got, lists, mem, result>>
    BY <1>9 DEF CallScan, CallMergesort, Goto
  <2>2. first = n
    BY <1>1, <1>9 DEF Inv, Shape, StagesFit
  <2> QED BY <1>1, <2>1, <2>2, LeaveInv DEF Finished
<1> QED BY <1>4, <1>5, <1>6, <1>7, <1>8, <1>9

\* The call returns, or what it gets from a future throws.
LEMMA ReturnInv ==
    ASSUME Inv,
           \/ ReturnElements \/ ReturnReduction \/ ReturnScan \/ GetLast \/ Rethrow
    PROVE  Inv'
<1>1. /\ mem \in [Cell -> Words] /\ result \in Words /\ DOMAIN futures = 1 .. Len(futures)
  BY Facts DEF Inv
<1>2. /\ UNCHANGED <<input, loop, futures, got, lists, mem, result>>
      /\ caller \notin {"applying", "merging"} /\ caller' \in {"returned", "threw"}
  BY DEF ReturnElements, ReturnReduction, ReturnScan, GetLast, Rethrow, Return, Gathered, Goto
<1>3. caller' = "returned" => \A f \in DOMAIN futures : futures[f].state = "ready"
  <2>1. CASE ReturnElements \/ ReturnReduction \/ ReturnScan
    <3>1. got = Len(futures)
      BY <2>1 DEF ReturnElements, ReturnReduction, ReturnScan, Return, Gathered
    <3> QED BY <1>1, <3>1 DEF Inv, Shape, GotReady
  <2>2. CASE GetLast
    <3>1. caller = "last" /\ futures[1].state = "ready"
      BY <2>2 DEF GetLast, Arrived
    <3>2. Len(futures) = 1
      BY <3>1 DEF Inv, Shape, GotReady
    <3> QED BY <1>1, <3>1, <3>2
  <2>3. CASE Rethrow
    BY <2>3 DEF Rethrow, Goto
  <2> QED BY <2>1, <2>2, <2>3
<1>4. caller' = "returned" => first = n
  BY DEF ReturnElements, ReturnReduction, ReturnScan, GetLast, Rethrow, Return, Gathered, Goto,
         Inv, Shape, StagesFit
<1> QED BY <1>1, <1>2, <1>3, <1>4, LeaveInv DEF Finished

LEMMA StepInv == Inv /\ [Next]_vars => Inv'
<1> SUFFICES ASSUME Inv, [Next]_vars PROVE Inv'
  OBVIOUS
<1>1. mem \in [Cell -> Words] /\ result \in Words /\ sums \in Seq(Words)
  BY Facts DEF Inv
<1>2. CASE \/ ElementsSequentially \/ ReduceSequentially \/ ScanSequentially \/ SortSequentially
           \/ ThrowSequentially
  BY <1>2, EndInv
<1>3. CASE CallElementwise \/ CallReduction \/ CallScan \/ CallMergesort
  <2>1. CASE (CallScan /\ n = 0) \/ (CallMergesort /\ n = 0)
    BY <2>1, EndInv
  <2>2. CASE ~((CallScan /\ n = 0) \/ (CallMergesort /\ n = 0))
    <3>1. /\ caller = "called" /\ ~is_seq /\ caller' = "chunking"
          /\ UNCHANGED <<input, loop, futures, got, lists, mem>>
      BY <1>3, <2>2 DEF CallElementwise, CallReduction, CallScan, CallMergesort, Goto
    <3>2. Scan \/ Mergesort => n # 0
      BY <1>3, <2>2, Kinds DEF CallElementwise, CallReduction, CallScan, CallMergesort
    <3>3. result' \in Words
      BY <1>1, <1>3, Letters
         DEF CallElementwise, CallReduction, CallScan, CallMergesort, InitOfChunk
    <3> QED BY <3>1, <3>2, <3>3, CallInv
  <2> QED BY <2>1, <2>2
<1>4. CASE SubmitElements \/ SubmitReduction \/ SubmitSum \/ SubmitSort
  <2>1. PICK init \in Words : SubmitChunk(init)
    BY <1>4, Letters DEF SubmitElements, SubmitReduction, SubmitSum, SubmitSort, InitOfChunk
  <2> QED BY <2>1, SubmitInv
<1>5. CASE Chunked
  BY <1>5, ChunkedInv
<1>6. CASE GetElements \/ GetReduction \/ JoinScan
  <2>1. NextArrived /\ UNCHANGED <<input, caller, loop, futures, lists, mem>>
    BY <1>6 DEF GetElements, GetReduction, JoinScan
  <2>2. caller = "getting" => ~Scan /\ ~Mergesort
    BY <1>6, Kinds DEF GetElements, GetReduction, JoinScan
  <2>3. result' \in Words
    <3>1. CASE GetReduction
      <4>1. got + 1 \in DOMAIN futures
        <5>1. got < Len(futures) /\ got \in 0 .. Len(futures) /\ Len(futures) \in Nat
              /\ DOMAIN futures = 1 .. Len(futures)
          BY <2>1, Facts DEF Inv, NextArrived
        <5> QED BY <5>1
      <4>2. futures[got + 1].value \in Words
        BY <4>1, TaskFacts DEF Inv
      <4> QED BY <1>1, <3>1, <4>2, Letters DEF GetReduction, ReduceInto
    <3>2. CASE GetElements \/ JoinScan
      BY <1>1, <3>2 DEF GetElements, JoinScan
    <3> QED BY <1>6, <3>1, <3>2
  <2> QED BY <2>1, <2>2, <2>3, GetInv
<1>7. CASE GetSum
  BY <1>7, GetRangeInv DEF GetSum
<1>8. CASE GetSubrange
  <2>1. Mergesort /\ ~Scan /\ NextArrived /\ caller = "getting"
    BY <1>8, Kinds DEF GetSubrange, NextArrived, Inv, Shape, StagesFit
  <2> QED BY <1>8, <2>1, GetRangeInv DEF GetSubrange
<1>9. CASE ScanSums
  <2>1. /\ Scan /\ caller = "getting" /\ got = Len(futures) /\ ClearedTo("applying") /\ i' = 1
        /\ sums' = [k \in 1 .. Len(sums) |-> SumBefore(k)]
        /\ UNCHANGED <<input, loop, ranges, mem, result>>
    BY <1>9 DEF ScanSums, Gathered
  <2>2. ASSUME NEW k \in 1 .. Len(sums) PROVE SumBefore(k) \in Words
    <3>1. SubSeq(sums, 1, k - 1) \in Seq(Words)
      BY <1>1
    <3>2. FlattenSeq(SubSeq(sums, 1, k - 1)) \in Words
      BY <3>1, FlattenType DEF Words
    <3> QED BY <3>2, Letters DEF SumBefore
  <2>3. sums' \in Seq(Words) /\ Len(sums') = Len(sums)
    BY <1>1, <2>1, <2>2
  <2> QED BY <2>1, <2>3, ClearInv
<1>10. CASE BeginRound
  <2>1. Mergesort /\ ~Scan /\ caller = "getting"
    BY <1>10, Kinds DEF BeginRound, Gathered, Inv, Shape, StagesFit
  <2>2. /\ got = Len(futures) /\ ClearedTo("merging") /\ i' = 1
        /\ UNCHANGED <<input, loop, ranges, sums, mem, result>>
    BY <1>10 DEF BeginRound, Gathered
  <2> QED BY <1>1, <2>1, <2>2, ClearInv
<1>11. CASE SubmitScan \/ ScansSubmitted
  BY <1>11, SubmitScanInv, ScansSubmittedInv
<1>12. CASE PairUp \/ ForwardLast \/ EndRound
  BY <1>12, PairUpInv, ForwardLastInv, EndRoundInv
<1>13. CASE ReturnElements \/ ReturnReduction \/ ReturnScan \/ GetLast \/ Rethrow
  BY <1>13, ReturnInv
<1>14. CASE \E f \in DOMAIN futures :
               \/ RunElements(f) \/ RunReduction(f) \/ RunSum(f) \/ RunScan(f)
               \/ RunSort(f) \/ RunMerge(f) \/ Start(f) \/ Throw(f)
  BY <1>14, RunInv, StartInv, ThrowInv
<1>15. CASE UNCHANGED vars
  <2>1. UNCHANGED <<input, caller, loop, futures, got, lists, mem, result>>
    BY <1>15 DEF vars, input, loop, lists
  <2>2. UNCHANGED <<caller, first, other, futures, got, ranges, sums, i, mem, result>>
    BY <1>15 DEF vars
  <2>3. Moves' = Moves /\ is_seq' = is_seq /\ Scan' = Scan /\ Mergesort' = Mergesort
        /\ n' = n /\ policy' = policy /\ algorithm' = algorithm
    BY <2>1, Constants DEF input
  <2>4. Typed'
    BY <2>1, <2>2, TypedStep, Facts DEF Inv
  <2>5. Spans' = Spans /\ PairedUp' = PairedUp
    BY <2>2, <2>3 DEF Spans, PairedUp
  <2>6. StagesFit' /\ Aligned' /\ GotReady'
    BY <2>2, <2>3 DEF Inv, Shape, StagesFit, Aligned, GotReady
  <2>7. ListsFit'
    BY <2>2, <2>3, <2>5 DEF Inv, Shape, ListsFit
  <2> QED BY <2>4, <2>6, <2>7 DEF Inv, Shape
<1>16. CASE Next
  <2>1. CASE ElementwiseStep
    BY <2>1, <1>2, <1>3, <1>4, <1>6, <1>13, <1>14 DEF ElementwiseStep
  <2>2. CASE NumericStep
    BY <2>2, <1>2, <1>3, <1>4, <1>6, <1>7, <1>9, <1>11, <1>13, <1>14 DEF NumericStep
  <2>3. CASE MergesortStep
    BY <2>3, <1>2, <1>3, <1>4, <1>8, <1>10, <1>12, <1>13, <1>14 DEF MergesortStep
  <2> QED BY <1>16, <2>1, <2>2, <2>3, <1>2, <1>5, <1>13, <1>14 DEF Next
<1> QED BY <1>15, <1>16

\* The conditions above hold in every state of every call.
THEOREM Invariance == Spec => []Inv
BY InitInv, StepInv, PTL DEF Spec

-----------------------------------------------------------------------------
(* The theorems. *)

\* The variables of a call keep their types: the chunking loop and the loops over the lists
\* of parallel_chunk_for_*, parallel_mergesort and exclusive_scan stay inside their bounds.
THEOREM TypeCorrect == Spec => []TypeOK
<1>1. Inv => TypeOK
  BY DEF Inv, Typed
<1> QED BY <1>1, Invariance, PTL

\* A call that returns has got all its futures: no task of it is left in the pool, or in a
\* thread, with references to what the caller's frame held.
THEOREM NothingLeftBehind == Spec => []LeavesNothing
<1>1. Inv => LeavesNothing
  BY DEF Inv, Shape, GotReady, LeavesNothing
<1> QED BY <1>1, Invariance, PTL

\* Two tasks of a call have no position in common.
LEMMA SpansApart ==
    ASSUME Inv, NEW f \in DOMAIN futures, NEW g \in DOMAIN futures, f # g,
           NEW p \in futures[f].first .. futures[f].last - 1
    PROVE  p \notin futures[g].first .. futures[g].last - 1
<1> DEFINE Before(k, l) == futures[k].last <= futures[l].first
<1>1. ASSUME NEW k \in DOMAIN futures, NEW l \in DOMAIN futures, k < l
      PROVE  Before(k, l)
  <2>1. DOMAIN Spans = DOMAIN futures
    BY SpansType DEF Inv
  <2>2. \/ Tiles(Spans, IF caller = "merging" THEN PairedUp ELSE first)
        \/ /\ Tiles(ranges, n) /\ DOMAIN futures \subseteq DOMAIN ranges
           /\ \A j \in DOMAIN futures : Spans[j] = ranges[j]
    BY FuturesInRanges
  <2>3. Spans[k][2] <= Spans[l][1]
    BY <1>1, <2>1, <2>2 DEF Tiles
  <2> QED BY <2>3, SpansType DEF Inv
<1>2. /\ futures[f].first \in Int /\ futures[f].last \in Int
      /\ futures[g].first \in Int /\ futures[g].last \in Int
  BY SpanFits
<1>3. f \in Nat /\ g \in Nat
  BY Facts DEF Inv
<1>4. Before(f, g) \/ Before(g, f)
  <2>1. f < g \/ g < f
    BY <1>3
  <2> HIDE DEF Before
  <2> QED BY <1>1, <2>1
<1> QED BY <1>2, <1>4

\* A task reads and writes at the positions of its own chunk.
LEMMA TouchesOwn ==
    ASSUME Inv, NEW f \in DOMAIN futures, NEW c \in Reads(futures[f]) \union Writes(futures[f])
    PROVE  c[2] \in futures[f].first .. futures[f].last - 1
<1> DEFINE t == futures[f]
<1>1. /\ t.first \in 0 .. n /\ t.last \in t.first .. n /\ TypeOK /\ n \in Nat
  BY TaskShape, SpanFits DEF Inv, Typed
<1>2. ASSUME NEW b, c \in Span(b, t.first, Length(t))
      PROVE  c[2] \in t.first .. t.last - 1
  BY <1>1, <1>2 DEF Span, Length
<1>3. CASE Elementwise
  <2>1. t.part = "chunk" /\ (Moves => t.other = t.first)
    BY <1>3, TaskShape
  <2>2. DOMAIN ElementEffect(t) = Span(Output, t.first, Length(t))
    BY <1>1, <1>3, <2>1, ElementEffectIs
  <2>3. \E b : c \in Span(b, t.first, Length(t))
    BY <1>3, <2>1, <2>2 DEF Reads, Writes, ElementReads, Moves
  <2> QED BY <1>2, <2>3
<1>4. CASE Mergesort
  <2>1. ~Elementwise
    BY <1>4, Kinds
  <2>2. c \in Span("first1", t.first, Length(t))
    BY <1>4, <2>1 DEF Reads, Writes, MergesortReads
  <2> QED BY <1>2, <2>2
<1>5. CASE ~Elementwise /\ ~Mergesort
  <2>1. t.part = "scan" => Scan /\ t.other = t.first
    BY DEF Inv, Shape, Aligned
  <2>2. algorithm = "transform_reduce_2" => t.other = t.first
    BY TaskShape DEF Reduction, Reductions, Moves
  <2>3. \E b : c \in Span(b, t.first, Length(t))
    BY <1>5, <2>1, <2>2 DEF Reads, Writes, NumericReads, ScanEffect
  <2> QED BY <1>2, <2>3
<1> QED BY <1>3, <1>4, <1>5

\* Two tasks of a call that run at once never touch the same element of a range unless both
\* only read it, in any pass of a scan and in any round of a mergesort.
THEOREM TasksDoNotRace == Spec => []NoDataRace
<1>1. Inv => NoDataRace
  <2> SUFFICES ASSUME Inv, NEW f \in Running, NEW g \in Running, f # g,
                      NEW c \in Writes(futures[f]),
                      c \in Reads(futures[g]) \union Writes(futures[g])
               PROVE  FALSE
    BY DEF NoDataRace
  <2>1. f \in DOMAIN futures /\ g \in DOMAIN futures
    BY DEF Running
  <2>2. c[2] \in futures[f].first .. futures[f].last - 1
    BY <2>1, TouchesOwn
  <2>3. c[2] \in futures[g].first .. futures[g].last - 1
    BY <2>1, TouchesOwn
  <2> QED BY <2>1, <2>2, <2>3, SpansApart
<1> QED BY <1>1, Invariance, PTL

-----------------------------------------------------------------------------
\* What PiecesTile says of the pieces p of the positions below m.
Cut(p, m) ==
    /\ p = <<>> <=> m = 0
    /\ p # <<>> => p[1][1] = 0 /\ p[Len(p)][2] = m
    /\ \A k \in DOMAIN p : p[k][1] < p[k][2]
    /\ \A k \in 1 .. Len(p) - 1 : p[k][2] = p[k + 1][1]

LEMMA CutOfTiles ==
    ASSUME NEW s \in Seq(Nat \X Nat), NEW m \in Nat, Tiles(s, m)
    PROVE  Cut(s, m)
<1>1. s # <<>> => m # 0
  <2> SUFFICES ASSUME s # <<>> PROVE m # 0
    OBVIOUS
  <2>1. Len(s) \in DOMAIN s
    OBVIOUS
  <2>2. s[Len(s)] \in Nat \X Nat
    BY <2>1
  <2>3. s[Len(s)][1] < s[Len(s)][2] /\ s[Len(s)][2] = m
    BY <2>1 DEF Tiles
  <2> QED BY <2>2, <2>3
<1> QED BY <1>1 DEF Tiles, Cut

\* A sequence with its first elements replaced by themselves.
LEMMA Rejoined ==
    ASSUME NEW s \in Seq(Nat \X Nat), NEW r \in Seq(Nat \X Nat), Len(s) <= Len(r),
           \A k \in DOMAIN s : s[k] = r[k]
    PROVE  s \o SubSeq(r, Len(s) + 1, Len(r)) = r
<1> DEFINE u == s \o SubSeq(r, Len(s) + 1, Len(r))
           a == Len(s)
           b == Len(r)
<1>1. /\ a \in Nat /\ b \in Nat /\ a <= b /\ DOMAIN s = 1 .. a /\ DOMAIN r = 1 .. b
      /\ r = [k \in 1 .. b |-> r[k]]
  OBVIOUS
<1>2. /\ SubSeq(r, a + 1, b) \in Seq(Nat \X Nat) /\ Len(SubSeq(r, a + 1, b)) = b - a
      /\ \A k \in 1 .. b - a : SubSeq(r, a + 1, b)[k] = r[a + k]
  <2>1. a + 1 \in Int /\ b \in Int /\ \A k \in a + 1 .. b : r[k] \in Nat \X Nat
    BY <1>1
  <2>2. /\ SubSeq(r, a + 1, b) \in Seq(Nat \X Nat)
        /\ Len(SubSeq(r, a + 1, b)) = IF a + 1 <= b THEN b - (a + 1) + 1 ELSE 0
        /\ \A k \in 1 .. b - (a + 1) + 1 : SubSeq(r, a + 1, b)[k] = r[a + 1 + k - 1]
    BY <2>1, SubSeqProperties
  <2> HIDE DEF a, b
  <2>3. (IF a + 1 <= b THEN b - (a + 1) + 1 ELSE 0) = b - a /\ b - (a + 1) + 1 = b - a
    BY <1>1
  <2>4. \A k \in 1 .. b - a : a + 1 + k - 1 = a + k
    BY <1>1
  <2> QED BY <2>2, <2>3, <2>4
<1>3. /\ u \in Seq(Nat \X Nat) /\ Len(u) = b
      /\ \A k \in 1 .. b : u[k] = IF k <= a THEN s[k] ELSE SubSeq(r, a + 1, b)[k - a]
  <2>1. /\ u \in Seq(Nat \X Nat) /\ Len(u) = a + Len(SubSeq(r, a + 1, b))
        /\ \A k \in 1 .. a + Len(SubSeq(r, a + 1, b)) :
              u[k] = IF k <= a THEN s[k] ELSE SubSeq(r, a + 1, b)[k - a]
    BY <1>2, ConcatProperties
  <2>2. a + Len(SubSeq(r, a + 1, b)) = b
    <3>1. a + (b - a) = b
      <4> HIDE DEF a, b
      <4> QED BY <1>1
    <3> QED BY <1>2, <3>1
  <2> QED BY <2>1, <2>2
<1>4. ASSUME NEW k \in 1 .. b PROVE u[k] = r[k]
  <2>1. CASE k <= a
    <3>1. k \in 1 .. a
      <4> HIDE DEF a, b
      <4> QED BY <1>1, <2>1
    <3>2. s[k] = r[k]
      BY <1>1, <3>1
    <3> QED BY <1>3, <2>1, <3>2
  <2>2. CASE k > a
    <3>1. k - a \in 1 .. b - a /\ a + (k - a) = k
      <4> HIDE DEF a, b
      <4> QED BY <1>1, <2>2
    <3>2. SubSeq(r, a + 1, b)[k - a] = r[k]
      BY <1>2, <3>1
    <3>3. ~(k <= a)
      <4> HIDE DEF a, b
      <4> QED BY <1>1, <2>2
    <3> QED BY <1>3, <3>2, <3>3
  <2>3. k <= a \/ k > a
    <3> HIDE DEF a, b
    <3> QED BY <1>1
  <2> QED BY <2>1, <2>2, <2>3
<1>5. Len(u) = Len(r) /\ \A k \in 1 .. Len(u) : u[k] = r[k]
  BY <1>3, <1>4
<1>6. u \in Seq(Nat \X Nat)
  BY <1>3
<1> HIDE DEF u
<1>7. u = r
  BY <1>5, <1>6, SeqEqual
<1> QED BY <1>7 DEF u

\* The pieces merged so far, with those that are left.
LEMMA CutJoined ==
    ASSUME NEW s \in Seq(Nat \X Nat), NEW r \in Seq(Nat \X Nat), NEW e \in Nat,
           NEW k \in 1 .. Len(r) + 1, Tiles(s, IF k > Len(r) THEN e ELSE r[k][1]), Tiles(r, e)
    PROVE  Cut(s \o SubSeq(r, k, Len(r)), e)
<1> DEFINE a == Len(s)
           b == Len(r)
           u == s \o SubSeq(r, k, Len(r))
<1>1. /\ a \in Nat /\ b \in Nat /\ DOMAIN s = 1 .. a /\ DOMAIN r = 1 .. b /\ k \in 1 .. b + 1
      /\ \A j \in 1 .. a : s[j] \in Nat \X Nat
      /\ \A j \in 1 .. b : r[j] \in Nat \X Nat
  OBVIOUS
<1>2. CASE k = b + 1
  <2>1. SubSeq(r, k, b) = <<>>
    BY <1>1, <1>2
  <2>2. u = s
    BY <2>1
  <2>3. Tiles(s, e)
    BY <1>1, <1>2
  <2> QED BY <2>2, <2>3, CutOfTiles
<1>3. CASE k \in 1 .. b
  <2>1. /\ SubSeq(r, k, b) \in Seq(Nat \X Nat) /\ Len(SubSeq(r, k, b)) = b - k + 1
        /\ \A j \in 1 .. b - k + 1 : SubSeq(r, k, b)[j] = r[k + j - 1]
    <3>1. k \in Int /\ b \in Int /\ k <= b /\ \A j \in k .. b : r[j] \in Nat \X Nat
      BY <1>1, <1>3
    <3> HIDE DEF b
    <3> QED BY <3>1, SubSeqProperties
  <2>2. /\ u \in Seq(Nat \X Nat) /\ Len(u) = a + (b - k + 1)
        /\ \A j \in 1 .. a : u[j] = s[j]
        /\ \A j \in 1 .. b - k + 1 : u[a + j] = SubSeq(r, k, b)[j]
    <3> DEFINE x == SubSeq(r, k, b)
    <3>1. /\ u \in Seq(Nat \X Nat) /\ Len(u) = a + Len(x)
          /\ \A j \in 1 .. a + Len(x) : u[j] = IF j <= a THEN s[j] ELSE x[j - a]
      BY <2>1, ConcatProperties
    <3>2. Len(x) = b - k + 1
      BY <2>1
    <3> HIDE DEF u, x, a, b
    <3>3. b - k + 1 \in Nat /\ a \in Nat /\ b \in Nat /\ k \in Nat
      BY <1>1, <1>3
    <3>4. ASSUME NEW j \in 1 .. a PROVE u[j] = s[j]
      <4>1. j \in 1 .. a + Len(x) /\ j <= a
        BY <3>2, <3>3
      <4> QED BY <3>1, <4>1
    <3>5. ASSUME NEW j \in 1 .. b - k + 1 PROVE u[a + j] = x[j]
      <4>1. a + j \in 1 .. a + Len(x) /\ ~(a + j <= a) /\ (a + j) - a = j
        BY <3>2, <3>3
      <4> QED BY <3>1, <4>1
    <3> QED BY <3>1, <3>2, <3>4, <3>5 DEF x
  <2>3. \A j \in k .. b : u[a + (j - k + 1)] = r[j]
    <3> TAKE j \in k .. b
    <3>1. j - k + 1 \in 1 .. b - k + 1 /\ k + (j - k + 1) - 1 = j
      BY <1>1, <1>3
    <3> QED BY <2>1, <2>2, <3>1
  <2>4. \A j \in 1 .. Len(u) : j \in 1 .. a \/ \E l \in k .. b : j = a + (l - k + 1)
    <3> TAKE j \in 1 .. Len(u)
    <3>1. CASE j <= a
      BY <1>1, <2>2, <3>1
    <3>2. CASE j > a
      <4>1. (j - a) + k - 1 \in k .. b /\ j = a + (((j - a) + k - 1) - k + 1)
        BY <1>1, <1>3, <2>2, <3>2
      <4> QED BY <4>1
    <3> QED BY <1>1, <2>2, <3>1, <3>2
  <2>5. Tiles(s, r[k][1]) /\ Tiles(r, e) /\ r[k][1] \in Nat
    BY <1>1, <1>3
  <2> DEFINE len == Len(u)
  <2>6. len = a + (b - k + 1) /\ len \in Nat \ {0} /\ DOMAIN u = 1 .. len /\ u # <<>>
    <3>1. u \in Seq(Nat \X Nat) /\ len = a + (b - k + 1)
      BY <2>2
    <3>2. DOMAIN u = 1 .. len /\ (u # <<>> <=> len # 0)
      <4> HIDE DEF u
      <4> QED BY <3>1
    <3>3. a + (b - k + 1) \in Nat \ {0}
      <4> HIDE DEF a, b
      <4> QED BY <1>1, <1>3
    <3> QED BY <3>1, <3>2, <3>3
  <2> HIDE DEF u, a, b
  <2>7. u[1][1] = 0
    <3>1. CASE s = <<>>
      <4>1. a = 0 /\ r[k][1] = 0
        BY <2>5, <3>1 DEF Tiles, a
      <4>2. u[a + (k - k + 1)] = r[k]
        <5>1. k \in k .. b
          BY <1>1, <1>3
        <5> QED BY <2>3, <5>1
      <4> QED BY <1>1, <1>3, <4>1, <4>2
    <3>2. CASE s # <<>>
      <4>1. 1 \in 1 .. a
        BY <1>1, <3>2 DEF a
      <4> QED BY <2>2, <2>5, <3>2, <4>1 DEF Tiles
    <3> QED BY <3>1, <3>2
  <2>8. u[len][2] = e
    <3>1. u[a + (b - k + 1)] = r[b]
      BY <1>1, <1>3, <2>3
    <3>2. r[b][2] = e
      <4>1. r # <<>>
        BY <1>1, <1>3
      <4> QED BY <2>5, <4>1 DEF Tiles, b
    <3> QED BY <2>6, <3>1, <3>2
  <2>9. ASSUME NEW j \in 1 .. len PROVE u[j][1] < u[j][2]
    <3>1. CASE j \in 1 .. a
      BY <1>1, <2>2, <2>5, <3>1 DEF Tiles
    <3>2. CASE \E l \in k .. b : j = a + (l - k + 1)
      <4>1. PICK l \in k .. b : j = a + (l - k + 1)
        BY <3>2
      <4>2. l \in 1 .. b /\ u[j] = r[l]
        BY <1>1, <1>3, <2>3, <4>1
      <4> QED BY <1>1, <2>5, <4>2 DEF Tiles
    <3> QED BY <2>4, <3>1, <3>2 DEF len
  <2>10. ASSUME NEW j \in 1 .. len - 1 PROVE u[j][2] = u[j + 1][1]
    <3>0. len \in Nat /\ j \in 1 .. len /\ j + 1 \in 1 .. len
      BY <2>6
    <3>1. CASE j + 1 \in 1 .. a
      <4>1. j \in 1 .. a - 1 /\ j \in 1 .. a
        BY <1>1, <3>0, <3>1
      <4>2. s[j][2] = s[j + 1][1]
        BY <2>5, <4>1 DEF Tiles, a
      <4> QED BY <2>2, <3>1, <4>1, <4>2
    <3>2. CASE j = a
      <4>1. j \in 1 .. a /\ s # <<>>
        BY <1>1, <3>0, <3>2 DEF a
      <4>2. s[a][2] = r[k][1]
        BY <2>5, <4>1 DEF Tiles, a
      <4>3. u[a + (k - k + 1)] = r[k]
        <5>1. k \in k .. b
          BY <1>1, <1>3
        <5> QED BY <2>3, <5>1
      <4>4. a + (k - k + 1) = j + 1
        BY <1>1, <1>3, <3>2
      <4> QED BY <2>2, <3>2, <4>1, <4>2, <4>3, <4>4
    <3>3. CASE j > a
      <4> DEFINE l == (j - a) + k - 1
      <4>1. l \in k .. b /\ l + 1 \in k .. b /\ l \in 1 .. b - 1
            /\ a + (l - k + 1) = j /\ a + ((l + 1) - k + 1) = j + 1
        BY <1>1, <1>3, <2>6, <3>0, <3>3
      <4> HIDE DEF l
      <4>2. u[j] = r[l] /\ u[j + 1] = r[l + 1]
        BY <2>3, <4>1
      <4>3. r[l][2] = r[l + 1][1]
        BY <2>5, <4>1 DEF Tiles, b
      <4> QED BY <4>2, <4>3
    <3> QED BY <1>1, <3>0, <3>1, <3>2, <3>3
  <2>11. e # 0
    <3>1. r # <<>> /\ r \in Seq(Nat \X Nat)
      BY <1>1, <1>3
    <3> QED BY <2>5, <3>1, CutOfTiles DEF Cut
  <2>12. Cut(u, e)
    BY <2>6, <2>7, <2>8, <2>9, <2>10, <2>11 DEF Cut, len
  <2> QED BY <2>12 DEF u
<1>4. k = b + 1 \/ k \in 1 .. b
  BY <1>1
<1> QED BY <1>2, <1>3, <1>4

\* In every stage the pieces of the range that the call has in its lists, those taken from
\* futures and those in one, cut what has been chunked without a gap or an overlap, in order:
\* parallel_mergesort's pairing and forwarding, and the two passes of exclusive_scan, lose
\* nothing and take nothing twice.
THEOREM PiecesCutTheRange == Spec => []PiecesTile
<1>1. Inv => PiecesTile
  <2> SUFFICES ASSUME Inv PROVE PiecesTile
    OBVIOUS
  <2>1. /\ Spans \in Seq(Nat \X Nat) /\ Len(Spans) = Len(futures) /\ DOMAIN Spans = DOMAIN futures
        /\ DOMAIN Spans = 1 .. Len(Spans)
    BY SpansType, Facts DEF Inv
  <2>2. /\ n \in Nat /\ first \in 0 .. n /\ first \in Nat
        /\ DOMAIN ranges = 1 .. Len(ranges) /\ Len(ranges) \in Nat
        /\ i \in 1 .. Len(ranges) + 1 /\ i \in Nat
    BY Facts DEF Inv
  <2>3. ranges \in Seq(Nat \X Nat)
    BY Facts DEF Inv
  <2>4. Pieces = IF caller \in {"applying", "merging"}
                 THEN Spans \o SubSeq(ranges, i, Len(ranges))
                 ELSE ranges \o SubSeq(Spans, Len(ranges) + 1, Len(Spans))
    BY DEF Pieces, Spans
  <2>5. CASE caller \notin {"applying", "merging"}
    <3>1. Tiles(Spans, first) /\ Len(ranges) <= Len(Spans)
          /\ \A k \in DOMAIN ranges : ranges[k] = Spans[k]
      BY <2>1, <2>5 DEF Inv, Shape, ListsFit
    <3>2. Pieces = Spans
      <4>1. ranges \o SubSeq(Spans, Len(ranges) + 1, Len(Spans)) = Spans
        <5>1. Spans \in Seq(Nat \X Nat)
          BY <2>1
        <5> QED BY ONLY <2>3, <3>1, <5>1, Rejoined
      <4> QED BY <2>4, <2>5, <4>1
    <3>3. Cut(Pieces, first)
      BY <2>1, <2>2, <3>1, <3>2, CutOfTiles
    <3> QED BY <3>3 DEF Cut, PiecesTile
  <2>6. CASE caller = "applying"
    <3>1. Tiles(ranges, n) /\ Len(Spans) = i - 1 /\ first = n
          /\ \A k \in DOMAIN Spans : Spans[k] = ranges[k]
      BY <2>1, <2>6 DEF Inv, Shape, StagesFit, ListsFit
    <3>2. Len(Spans) <= Len(ranges) /\ i = Len(Spans) + 1
      BY <2>2, <3>1
    <3>3. Pieces = ranges
      BY <2>1, <2>3, <2>4, <2>6, <3>1, <3>2, Rejoined
    <3>4. Cut(Pieces, first)
      BY <2>2, <2>3, <3>1, <3>3, CutOfTiles
    <3> QED BY <3>4 DEF Cut, PiecesTile
  <2>7. CASE caller = "merging"
    <3>1. Tiles(ranges, n) /\ Tiles(Spans, PairedUp) /\ first = n
      BY <2>7 DEF Inv, Shape, StagesFit, ListsFit
    <3>2. Cut(Pieces, first)
      BY <2>1, <2>2, <2>3, <2>4, <2>7, <3>1, CutJoined DEF PairedUp
    <3> QED BY <3>2 DEF Cut, PiecesTile
  <2> QED BY <2>5, <2>6, <2>7
<1> QED BY <1>1, Invariance, PTL

-----------------------------------------------------------------------------
(* What the element-wise algorithms write. *)

\* A future whose task is done covers the position of c.
Done(f, p) == futures[f].state = "ready" /\ p \in futures[f].first .. futures[f].last - 1

Treated(c) == c[1] = Output /\ \E f \in DOMAIN futures : Done(f, c[2])

After(c) == Image(Given[<<"first1", c[2]>>], Given[<<"first2", c[2]>>])

\* The elements of the chunks that are done have become what they should, the others are
\* as they were.
ElementsFit ==
    Elementwise =>
        /\ ~is_seq => \A c \in Cell : mem[c] = IF Treated(c) THEN After(c) ELSE Given[c]
        /\ is_seq /\ caller = "called" => mem = Given
        /\ is_seq /\ caller = "returned" =>
              \A c \in Cell : mem[c] = IF c[1] = Output THEN After(c) ELSE Given[c]

LEMMA ElementsInit == Init => ElementsFit
<1> SUFFICES ASSUME Init PROVE ElementsFit
  OBVIOUS
<1>1. mem = Given /\ futures = <<>> /\ DOMAIN futures = {} /\ caller = "called"
  BY DEF Init
<1>2. \A c : ~Treated(c)
  BY <1>1 DEF Treated
<1> QED BY <1>1, <1>2 DEF ElementsFit

\* A step that writes nothing, after which the same tasks are done.
LEMMA ElementsKept ==
    ASSUME Inv, ElementsFit, Elementwise, UNCHANGED <<input, mem>>,
           caller' = "returned" => ~is_seq, caller' = "called" => caller = "called",
           \A p \in 0 .. n - 1 : (\E f \in DOMAIN futures : Done(f, p))
                                    <=> (\E f \in DOMAIN futures' : Done(f, p)')
    PROVE  ElementsFit'
<1>1. is_seq' = is_seq /\ Elementwise' = Elementwise /\ Cell' = Cell /\ dest' = dest
  BY Constants
<1>2. algorithm' = algorithm /\ n' = n /\ mem' = mem
  BY DEF input
<1>3. Given' = Given /\ Output' = Output
  BY <1>1, <1>2 DEF Given, Output
<1>4. ASSUME NEW c \in Cell PROVE Treated(c)' = Treated(c)
  <2>1. c[2] \in 0 .. n - 1
    BY DEF Cell
  <2> QED BY <1>3, <2>1 DEF Treated
<1>5. \A c : After(c)' = After(c)
  BY <1>2, <1>3 DEF After, Image
<1> QED BY <1>1, <1>2, <1>3, <1>4, <1>5 DEF ElementsFit

LEMMA ElementsRun ==
    ASSUME Inv, ElementsFit, NEW f \in DOMAIN futures, RunElements(f)
    PROVE  ElementsFit'
<1> DEFINE t == futures[f]
           effect == ElementEffect(t)
           span == Span(Output, t.first, Length(t))
<1>1. /\ Elementwise /\ UNCHANGED <<input, caller>> /\ t.state = "running"
      /\ futures' = [futures EXCEPT ![f].state = "ready", ![f].value = <<>>]
      /\ mem' = Written(effect)
  BY DEF RunElements, Finish
<1>2. /\ t.first \in 0 .. n /\ t.last \in t.first .. n /\ TypeOK /\ n \in Nat
      /\ (Moves => t.other = t.first) /\ t \in TaskRecord
  BY <1>1, TaskShape, SpanFits, TaskFacts DEF Inv, Typed
<1>3. is_seq' = is_seq /\ Elementwise' = Elementwise /\ Cell' = Cell /\ dest' = dest
  BY <1>1, Constants
<1>4. algorithm' = algorithm /\ n' = n /\ caller' = caller
  BY <1>1 DEF input
<1>5. Given' = Given /\ Output' = Output
  BY <1>3, <1>4 DEF Given, Output
<1>6. \A c : After(c)' = After(c)
  BY <1>4, <1>5 DEF After, Image
<1>7. ~is_seq
  <2>1. futures # <<>>
    BY Facts DEF Inv
  <2> QED BY <2>1 DEF Inv, Shape, StagesFit
<1>8. /\ DOMAIN effect = span
      /\ \A c \in span : effect[c] = Image(mem[<<"first1", c[2]>>], mem[<<"first2", c[2]>>])
  BY <1>1, <1>2, ElementEffectIs
<1>9. \A c \in span : /\ c = <<Output, c[2]>> /\ c[2] \in t.first .. t.last - 1
                      /\ c[2] \in 0 .. n - 1 /\ c \in Cell
  BY <1>2, OutputSpan, OutputType DEF TypeOK
<1>10. ASSUME NEW c \in span PROVE effect[c] = After(c)
  <2>1. c[2] \in 0 .. n - 1 /\ c[2] \in t.first .. t.last - 1
    BY <1>9
  <2>2. <<"first1", c[2]>> \in Cell /\ <<"first2", c[2]>> \in Cell
    BY <2>1, CellAt DEF Buffer
  <2>3. ~Treated(<<"first2", c[2]>>)
    BY DEF Treated, Output, dest
  <2>4. ~Treated(<<"first1", c[2]>>)
    <3> SUFFICES ASSUME NEW g \in DOMAIN futures, Done(g, c[2]) PROVE FALSE
      BY DEF Treated
    <3>1. g # f
      BY <1>1 DEF Done
    <3> QED BY <2>1, <3>1, SpansApart DEF Done
  <2>5. \A d \in Cell : mem[d] = IF Treated(d) THEN After(d) ELSE Given[d]
    BY <1>1, <1>7 DEF ElementsFit
  <2>6. /\ mem[<<"first1", c[2]>>] = Given[<<"first1", c[2]>>]
        /\ mem[<<"first2", c[2]>>] = Given[<<"first2", c[2]>>]
    BY <2>2, <2>3, <2>4, <2>5
  <2> QED BY <1>8, <2>6 DEF After
<1>11. /\ DOMAIN futures' = DOMAIN futures
       /\ futures'[f].state = "ready" /\ futures'[f].first = t.first /\ futures'[f].last = t.last
       /\ \A g \in DOMAIN futures \ {f} : futures'[g] = futures[g]
  BY <1>1, <1>2, Facts DEF Inv, TaskRecord
<1>12. ASSUME NEW c \in Cell PROVE Treated(c)' <=> Treated(c) \/ c \in span
  <2>1. c \in span <=> c[1] = Output /\ c[2] \in t.first .. t.last - 1
    <3>1. c = <<c[1], c[2]>>
      BY DEF Cell
    <3>2. t.first + (t.last - t.first) - 1 = t.last - 1
      BY <1>2
    <3> QED BY <3>1, <3>2 DEF Span, Length
  <2>2. \A g \in DOMAIN futures \ {f} : Done(g, c[2])' <=> Done(g, c[2])
    BY <1>11 DEF Done
  <2>3. Done(f, c[2])' <=> c[2] \in t.first .. t.last - 1
    BY <1>11 DEF Done
  <2>4. ~Done(f, c[2])
    BY <1>1 DEF Done
  <2>5. (\E g \in DOMAIN futures' : Done(g, c[2])')
            <=> (\E g \in DOMAIN futures : Done(g, c[2])) \/ c[2] \in t.first .. t.last - 1
    BY <1>11, <2>2, <2>3, <2>4
  <2> QED BY <1>5, <2>1, <2>5 DEF Treated
<1>13. ASSUME NEW c \in Cell PROVE mem'[c] = IF Treated(c)' THEN After(c) ELSE Given[c]
  <2>1. mem'[c] = IF c \in span THEN effect[c] ELSE mem[c]
    BY <1>1, <1>8 DEF Written
  <2>2. mem[c] = IF Treated(c) THEN After(c) ELSE Given[c]
    BY <1>1, <1>7 DEF ElementsFit
  <2> HIDE DEF effect, span
  <2> QED BY <1>10, <1>12, <2>1, <2>2
<1> QED BY <1>3, <1>5, <1>6, <1>7, <1>13 DEF ElementsFit

LEMMA AlgorithmStays == [Next]_vars => algorithm' = algorithm
BY DEF Next, vars, input, ElementwiseStep, NumericStep, MergesortStep,
       ElementsSequentially, CallElementwise, SubmitElements, RunElements, GetElements,
       ReturnElements, ReduceSequentially, ScanSequentially, CallReduction, SubmitReduction,
       GetReduction, ReturnReduction, CallScan, SubmitSum, GetSum, ScanSums, SubmitScan,
       ScansSubmitted, JoinScan, ReturnScan, RunReduction, RunSum, RunScan, SortSequentially,
       CallMergesort, SubmitSort, GetSubrange, BeginRound, PairUp, ForwardLast, EndRound,
       GetLast, RunSort, RunMerge, Chunked, Rethrow, ThrowSequentially, Start, Throw,
       Sequentially, SubmitChunk, Finish, Return

LEMMA ElementsStep == Inv /\ ElementsFit /\ [Next]_vars => ElementsFit'
<1> SUFFICES ASSUME Inv, ElementsFit, [Next]_vars PROVE ElementsFit'
  OBVIOUS
<1> SUFFICES ASSUME Elementwise PROVE ElementsFit'
  <2>1. algorithm' = algorithm
    BY AlgorithmStays
  <2>2. Elementwise' = Elementwise
    BY <2>1 DEF Elementwise
  <2> QED BY <2>2 DEF ElementsFit
<1>0. ~Reduction /\ ~Scan /\ ~Mergesort
  BY Kinds
<1>1. CASE ElementsSequentially
  <2> DEFINE whole == WholeRange(<<>>)
  <2>1. /\ UNCHANGED input /\ caller = "called" /\ is_seq /\ caller' = "returned"
        /\ mem' = Written(ElementEffect(whole)) /\ mem = Given
    BY <1>1 DEF ElementsSequentially, Sequentially, Goto, ElementsFit
  <2>2. TypeOK /\ n \in Nat
    BY InputFits DEF Inv, Typed
  <2>3. whole.first = 0 /\ whole.last = n /\ whole.other = 0 /\ whole.first \in 0 .. n
        /\ whole.last \in whole.first .. n
    BY <2>2 DEF WholeRange, Task
  <2> HIDE DEF whole
  <2>4. /\ DOMAIN ElementEffect(whole) = Span(Output, whole.first, Length(whole))
        /\ \A c \in Span(Output, whole.first, Length(whole)) : ElementEffect(whole)[c] = After(c)
    BY <2>1, <2>2, <2>3, ElementEffectIs DEF After
  <2>5. \A c \in Cell : c \in Span(Output, whole.first, Length(whole)) <=> c[1] = Output
    BY <2>2, <2>3 DEF Cell, Span, Length
  <2>6. \A c \in Cell : mem'[c] = IF c[1] = Output THEN After(c) ELSE Given[c]
    BY <2>1, <2>4, <2>5 DEF Written
  <2>7. is_seq' = is_seq /\ Cell' = Cell /\ dest' = dest /\ algorithm' = algorithm /\ n' = n
    BY <2>1, Constants DEF input
  <2>8. Given' = Given /\ Output' = Output
    BY <2>7 DEF Given, Output
  <2>9. \A c : After(c)' = After(c)
    BY <2>7, <2>8 DEF After, Image
  <2> QED BY <2>1, <2>6, <2>7, <2>8, <2>9 DEF ElementsFit
<1>2. CASE \E f \in DOMAIN futures : RunElements(f)
  BY <1>2, ElementsRun
<1>3. CASE \E init : SubmitChunk(init)
  <2>1. PICK init : SubmitChunk(init)
    BY <1>3
  <2> DEFINE t == Task("chunk", first, LoopEnd(first, n, ChunkSize(n, num_threads)),
                       LoopEnd(first, n, ChunkSize(n, num_threads)), other, init)
  <2>2. /\ UNCHANGED <<input, mem, caller>> /\ caller = "chunking" /\ futures' = Append(futures, t)
        /\ t.state = "queued"
    BY <2>1 DEF SubmitChunk, Task
  <2> HIDE DEF t
  <2>3. /\ futures \in Seq(TaskRecord) /\ Len(futures) \in Nat /\ DOMAIN futures = 1 .. Len(futures)
    BY Facts DEF Inv
  <2>4. /\ DOMAIN futures' = 1 .. Len(futures) + 1 /\ futures'[Len(futures) + 1] = t
        /\ \A f \in DOMAIN futures : futures'[f] = futures[f]
    BY <2>2, <2>3
  <2>5. ASSUME NEW p \in 0 .. n - 1
        PROVE  (\E f \in DOMAIN futures : Done(f, p)) <=> (\E f \in DOMAIN futures' : Done(f, p)')
    <3>1. DOMAIN futures' = DOMAIN futures \union {Len(futures) + 1}
      BY <2>3, <2>4
    <3>2. \A f \in DOMAIN futures : Done(f, p)' <=> Done(f, p)
      BY <2>4 DEF Done
    <3>3. \A k \in {Len(futures) + 1} : ~Done(k, p)'
      BY <2>2, <2>4 DEF Done
    <3> QED BY <3>1, <3>2, <3>3
  <2> QED BY <2>2, <2>5, ElementsKept
<1>4. ASSUME NEW f \in DOMAIN futures, Start(f) \/ Throw(f) PROVE ElementsFit'
  <2>1. /\ UNCHANGED <<input, mem>> /\ caller' \in {caller, "terminated"}
        /\ \/ futures' = [futures EXCEPT ![f].state = "running"]
           \/ futures' = [futures EXCEPT ![f].state = "broken"]
           \/ futures' = futures
        /\ futures[f].state # "ready"
    BY <1>4 DEF Start, Throw, Goto
  <2>2. futures[f] \in TaskRecord /\ futures # <<>> /\ ~is_seq
    <3>1. futures # <<>> /\ futures[f] \in TaskRecord
      BY Facts, TaskFacts DEF Inv
    <3> QED BY <3>1 DEF Inv, Shape, StagesFit
  <2>3. /\ DOMAIN futures' = DOMAIN futures /\ futures'[f].state # "ready"
        /\ \A g \in DOMAIN futures \ {f} : futures'[g] = futures[g]
    BY <2>1, <2>2 DEF TaskRecord
  <2>4. ASSUME NEW p \in 0 .. n - 1
        PROVE  (\E g \in DOMAIN futures : Done(g, p)) <=> (\E g \in DOMAIN futures' : Done(g, p)')
    <3>1. \A g \in DOMAIN futures \ {f} : Done(g, p)' <=> Done(g, p)
      BY <2>3 DEF Done
    <3>2. ~Done(f, p) /\ ~Done(f, p)'
      BY <2>1, <2>3 DEF Done
    <3> QED BY <2>3, <3>1, <3>2
  <2> QED BY <2>1, <2>2, <2>4, ElementsKept
<1>5. ASSUME UNCHANGED <<input, mem, futures>>, caller' = "returned" => ~is_seq \/ caller = "returned",
             caller' = "called" => caller = "called"
      PROVE  ElementsFit'
  <2>1. \A p : (\E f \in DOMAIN futures : Done(f, p)) <=> (\E f \in DOMAIN futures' : Done(f, p)')
    BY <1>5 DEF Done
  <2>2. CASE caller' = "returned" => ~is_seq
    BY <1>5, <2>1, <2>2, ElementsKept
  <2>3. CASE is_seq /\ caller = "returned"
    <3>1. is_seq' = is_seq /\ Cell' = Cell /\ dest' = dest /\ algorithm' = algorithm /\ n' = n
      BY <1>5, Constants DEF input
    <3>2. Given' = Given /\ Output' = Output
      BY <3>1 DEF Given, Output
    <3>3. \A c : After(c)' = After(c)
      BY <3>1, <3>2 DEF After, Image
    <3>4. caller # "called"
      BY <2>3
    <3> QED BY <1>5, <2>3, <3>1, <3>2, <3>3, <3>4 DEF ElementsFit
  <2> QED BY <1>5, <2>2, <2>3
<1>6. CASE \/ CallElementwise \/ Chunked \/ GetElements \/ ReturnElements \/ Rethrow
           \/ ThrowSequentially \/ UNCHANGED vars
  <2>1. UNCHANGED <<input, mem, futures>>
    BY <1>6 DEF CallElementwise, Chunked, GetElements, ReturnElements, Return, Rethrow,
                ThrowSequentially, vars, input
  <2>2. caller' = "called" => caller = "called"
    BY <1>6 DEF CallElementwise, Chunked, GetElements, ReturnElements, Return, Rethrow,
                ThrowSequentially, vars, Goto
  <2>3. caller' = "returned" => ~is_seq \/ caller = "returned"
    <3>1. CASE ReturnElements
      <4>1. caller \in {"getting", "joining"}
        BY <3>1 DEF ReturnElements, Return, Gathered
      <4> QED BY <4>1 DEF Inv, Shape, StagesFit
    <3>2. CASE ~ReturnElements
      BY <1>6, <3>2 DEF CallElementwise, Chunked, GetElements, NextArrived, Rethrow,
                        ThrowSequentially, vars, Goto
    <3> QED BY <3>1, <3>2
  <2> QED BY <1>5, <2>1, <2>2, <2>3
<1>7. CASE Next
  <2>1. CASE ElementwiseStep
    BY <2>1, <1>1, <1>2, <1>3, <1>6 DEF ElementwiseStep, SubmitElements
  <2>2. CASE NumericStep
    BY <2>2, <1>0 DEF NumericStep, ReduceSequentially, ScanSequentially, CallReduction,
       SubmitReduction, GetReduction, ReturnReduction, CallScan, SubmitSum, GetSum, ScanSums,
       SubmitScan, ScansSubmitted, JoinScan, ReturnScan, RunReduction, RunSum, RunScan
  <2>3. CASE MergesortStep
    BY <2>3, <1>0 DEF MergesortStep, SortSequentially, CallMergesort, SubmitSort, GetSubrange,
       BeginRound, PairUp, ForwardLast, EndRound, GetLast, RunSort, RunMerge
  <2> QED BY <1>7, <2>1, <2>2, <2>3, <1>4, <1>6 DEF Next
<1> QED BY <1>6, <1>7

\* Whatever the chunks, the threads and their order, an element-wise algorithm that returns
\* has treated every element of its range once and left its result at its place, in place or
\* not, and nothing else has changed.
THEOREM TreatsEveryElement == Spec => []EveryElement
<1>1. Inv /\ ElementsFit => EveryElement
  <2> SUFFICES ASSUME Inv, ElementsFit, Elementwise, caller = "returned" PROVE EveryElement
    BY DEF EveryElement
  <2>1. ASSUME NEW c \in Cell PROVE mem[c] = IF c[1] = Output THEN After(c) ELSE Given[c]
    <3>1. CASE is_seq
      BY <3>1 DEF ElementsFit
    <3>2. CASE ~is_seq
      <4>1. \A f \in DOMAIN futures : futures[f].state = "ready"
        BY DEF Inv, Shape, GotReady
      <4>2. Tiles(Spans, n)
        BY <3>2 DEF Inv, Shape, StagesFit, ListsFit
      <4>3. c[2] \in 0 .. n - 1
        BY DEF Cell
      <4>4. PICK f \in DOMAIN Spans : Spans[f][1] <= c[2] /\ c[2] < Spans[f][2]
        BY <4>2, <4>3 DEF Tiles
      <4>5. /\ f \in DOMAIN futures /\ Spans[f][1] = futures[f].first
            /\ Spans[f][2] = futures[f].last
        BY <4>4, SpansType DEF Inv
      <4>6. c[2] \in futures[f].first .. futures[f].last - 1
        <5>1. /\ n \in Nat /\ futures[f].first \in 0 .. n
              /\ futures[f].last \in futures[f].first .. n
          BY <4>5, SpanFits
        <5> QED BY <4>3, <4>4, <4>5, <5>1
      <4>7. Treated(c) <=> c[1] = Output
        BY <4>1, <4>5, <4>6 DEF Treated, Done
      <4> QED BY <3>2, <4>7 DEF ElementsFit
    <3> QED BY <3>1, <3>2
  <2>2. mem = [c \in Cell |-> mem[c]]
    BY Facts DEF Inv
  <2>3. mem = [c \in Cell |-> IF c[1] = Output THEN After(c) ELSE Given[c]]
    BY <2>1, <2>2
  <2> QED BY <2>3 DEF EveryElement, After
<1>2. Spec => [](Inv /\ ElementsFit)
  <2>1. Init => Inv /\ ElementsFit
    BY InitInv, ElementsInit
  <2>2. (Inv /\ ElementsFit) /\ [Next]_vars => (Inv /\ ElementsFit)'
    BY StepInv, ElementsStep
  <2> QED BY <2>1, <2>2, PTL DEF Spec
<1> QED BY <1>1, <1>2, PTL
=============================================================================
