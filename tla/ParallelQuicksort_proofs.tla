---------------------- MODULE ParallelQuicksort_proofs ----------------------
(* Proofs about ParallelQuicksort: who works on which part of which range,  *)
(* what inflight_spawns counts and what the futures vector holds, for every *)
(* number of threads, sorts and elements.                                   *)
EXTENDS ParallelQuicksort, FiniteSetTheorems, TLAPS

(***************************************************************************)
(* What each place of the program looks like.                              *)
(***************************************************************************)
Busy == {"entered", "right", "joining", "split", "spawning", "leaf",
         "notifying", "sorting", "left"}

Running == {t \in Thread : job[t] # NoTask}

InQueue == {queue[i] : i \in DOMAIN queue}

\* A thread runs a task of the kind its place is for, and has computed what its place needs.
PlaceFits(t) ==
    /\ t \in Running <=> pc[t] \in Busy
    /\ t \in Worker => pc[t] \in Busy \union {"idle"}
    /\ t \in Running =>
        /\ job[t].part = "left" <=> pc[t] = "left"
        /\ t \in Sort => job[t].sort = t /\ job[t].part = "impl"
        /\ pc[t] \in {"right", "joining"} => Size(t) >= MinParallel
        /\ pc[t] = "joining" => mid[t] \in Halfway(t) .. job[t].hi
        /\ pc[t] \in {"split", "spawning"} => job[t].lo < mid[t] /\ mid[t] < job[t].hi

PlacesFit == \A t \in Thread : PlaceFits(t)

InRange(c) == 1 <= c.lo /\ c.lo < c.hi /\ c.hi <= Len(arr[c.sort]) + 1

\* No task is for an empty part, and a left half knows where its highs begin.
RangesFit ==
    /\ \A c \in InQueue : InRange(c)
    /\ \A t \in Running : InRange(job[t])
    /\ \A c \in DOMAIN ready :
          /\ InRange(c)
          /\ c.part = "left" /\ ready[c].ok => ready[c].at \in c.lo .. c.hi

\* A sort that has not begun has no task anywhere.
FreshSorts ==
    \A s \in Sort : pc[s] \in {"idle", "called"} =>
        /\ futures[s] = <<>> /\ inflight[s] = 0 /\ got[s] = 0
        /\ \A c \in InQueue : c.sort # s
        /\ \A t \in Running : job[t].sort # s
        /\ \A c \in DOMAIN ready : c.sort # s

\* get_num_threads is never 0.
PoolFits == alive # {}

LengthsKept == \A s \in Sort : Len(arr[s]) = Len(call[s].range)

Fits == TypeOK /\ PlacesFit /\ RangesFit /\ FreshSorts /\ PoolFits /\ LengthsKept

(***************************************************************************)
(* The parts of a range that are being worked on.                          *)
(***************************************************************************)
\* What t has still to do: once it has submitted one child, the other.
Call(t) == IF pc[t] = "spawning"
           THEN QuicksortTask(job[t].sort, mid[t], job[t].hi)
           ELSE job[t]

Live == InQueue \union {Call(t) : t \in Running}

Joiners == {t \in Running : pc[t] \in {"right", "joining"}}

\* The left halves some thread waits for, may still run on, or has given up.
Halves == {c \in Live \union DOMAIN ready : c.part = "left"}

Apart(c, d) == c.hi <= d.lo \/ d.hi <= c.lo

Within(c, d) == d.lo <= c.lo /\ c.hi <= d.hi /\ c.hi - c.lo < d.hi - d.lo

\* No task is in two places.
OnePlace ==
    /\ \A i, j \in DOMAIN queue : queue[i] = queue[j] => i = j
    /\ \A t, u \in Running : Call(t) = Call(u) => t = u
    /\ \A t \in Running : Call(t) \notin InQueue

CallsApart ==
    \A c, d \in Live :
        c # d /\ c.sort = d.sort /\ c.part = "impl" /\ d.part = "impl" => Apart(c, d)

\* Only the call that submitted it covers a left half.
HalvesApart ==
    /\ \A h \in Halves, c \in Live : h.sort = c.sort /\ c.part = "impl" =>
          Apart(h, c) \/ \E t \in Joiners : c = job[t] /\ h = LeftHalf(t)
    /\ \A h \in Halves, g \in Live : h.sort = g.sort /\ g.part = "left" /\ h # g => Apart(h, g)

\* The calls that are over, or that only have their second child to submit.
Over == {c \in DOMAIN ready : c.part = "impl"} \union {job[t] : t \in {u \in Running : pc[u] = "spawning"}}

\* What is left of a call that is over is smaller.
OverApart ==
    \A d \in Over, c \in Live : d.sort = c.sort /\ c.part = "impl" =>
        Apart(c, d) \/ Within(c, d)

NotReady == \A c \in Live : c \notin DOMAIN ready

Owned == OnePlace /\ CallsApart /\ HalvesApart /\ OverApart /\ NotReady

(***************************************************************************)
(* The count.                                                              *)
(***************************************************************************)
Counted(s) == Cardinality(Waiting(s)) + Cardinality(Deciding(s))

\* What exceptions have left on the count.
Excess(s) == inflight[s] - Counted(s)

\* The left halves that are queued or being partitioned.
LeftHalves == {h \in InQueue \union {job[u] : u \in Running} : h.part = "left"}

\* The count covers every call that may still append to the vector; a left half is only
\* given up by an exception, which leaves its call on the count for good.
Counts ==
    /\ \A s \in Sort : Excess(s) >= 0
    /\ \A h \in LeftHalves : Excess(h.sort) > 0 \/ \E t \in Joiners : h = LeftHalf(t)
    /\ \A s \in Sort : pc[s] \in {"gathering", "returned"} => inflight[s] = 0

(***************************************************************************)
(* The futures vector.                                                     *)
(***************************************************************************)
InFutures(s) == {futures[s][i] : i \in DOMAIN futures[s]}

FuturesHold ==
    /\ \A s \in Sort, c \in InQueue : c.sort = s /\ c.part = "impl" => c \in InFutures(s)
    /\ \A s \in Sort, w \in Worker :
          w \in Running /\ job[w].sort = s /\ job[w].part = "impl" => job[w] \in InFutures(s)
    /\ \A s \in Sort : \A c \in InFutures(s) : c.part = "impl"
    /\ \A s \in Sort : /\ got[s] <= Len(futures[s])
                       /\ \A i \in 1 .. got[s] : futures[s][i] \in DOMAIN ready
                       /\ pc[s] = "returned" => got[s] = Len(futures[s])

Inv == Fits /\ Owned /\ Counts /\ FuturesHold

-----------------------------------------------------------------------------
(* The operators that work on a range.                                     *)

LEMMA OrdersArePermutations ==
    ASSUME NEW lo \in Int, NEW hi \in Int, <<lo, hi>> \in Spans, NEW f \in Orders[<<lo, hi>>]
    PROVE  f \in Bijection(lo .. hi - 1, lo .. hi - 1) /\ f \in [lo .. hi - 1 -> lo .. hi - 1]
BY DEF Orders, Bijection, Injection

LEMMA HalfOf == ASSUME NEW n \in Nat PROVE n \div 2 \in Nat /\ 2 * (n \div 2) <= n
OBVIOUS

LEMMA MiddleInside ==
    ASSUME NEW lo \in Nat \ {0}, NEW hi \in Nat, lo < hi, NEW len \in Nat, hi <= len + 1,
           NEW h \in Nat, 2 * h <= hi - lo
    PROVE  lo + h \in 1 .. len
OBVIOUS

LEMMA RearrangedType ==
    ASSUME NEW E, NEW a \in Seq(E), NEW S \in SUBSET DOMAIN a, NEW f \in [S -> S]
    PROVE  Rearranged(a, f) \in Seq(E) /\ Len(Rearranged(a, f)) = Len(a)
<1>1. DOMAIN a = 1 .. Len(a) /\ Len(a) \in Nat
  OBVIOUS
<1>3. \A i \in 1 .. Len(a) : (IF i \in DOMAIN f THEN a[f[i]] ELSE a[i]) \in E
  BY <1>1
<1>4. Rearranged(a, f) \in [1 .. Len(a) -> E]
  BY <1>1, <1>3 DEF Rearranged
<1> QED BY <1>1, <1>4

LEMMA AppendItems ==
    ASSUME NEW T, NEW q \in Seq(T), NEW c \in T
    PROVE  /\ Append(q, c) \in Seq(T) /\ Len(Append(q, c)) = Len(q) + 1
           /\ DOMAIN q = 1 .. Len(q) /\ DOMAIN Append(q, c) = DOMAIN q \union {Len(q) + 1}
           /\ \A i \in DOMAIN q : Append(q, c)[i] = q[i]
           /\ Append(q, c)[Len(q) + 1] = c
           /\ {Append(q, c)[i] : i \in DOMAIN Append(q, c)} = {q[i] : i \in DOMAIN q} \union {c}
<1>1. /\ Append(q, c) \in Seq(T) /\ Len(Append(q, c)) = Len(q) + 1 /\ Len(q) \in Nat
      /\ DOMAIN q = 1 .. Len(q) /\ DOMAIN Append(q, c) = 1 .. Len(q) + 1
      /\ \A i \in 1 .. Len(q) : Append(q, c)[i] = q[i]
      /\ Append(q, c)[Len(q) + 1] = c
  OBVIOUS
<1>2. 1 .. Len(q) + 1 = 1 .. Len(q) \union {Len(q) + 1}
  BY <1>1
<1> QED BY <1>1, <1>2

LEMMA TailItems ==
    ASSUME NEW T, NEW q \in Seq(T), q # <<>>
    PROVE  /\ Head(q) \in T /\ Tail(q) \in Seq(T) /\ Len(q) \in Nat \ {0}
           /\ DOMAIN q = 1 .. Len(q) /\ DOMAIN Tail(q) = 1 .. Len(q) - 1
           /\ q[1] = Head(q) /\ \A i \in 1 .. Len(q) - 1 : Tail(q)[i] = q[i + 1]
           /\ {q[i] : i \in DOMAIN q} = {Tail(q)[i] : i \in DOMAIN Tail(q)} \union {Head(q)}
<1>1. /\ Head(q) \in T /\ Tail(q) \in Seq(T) /\ Len(q) \in Nat \ {0}
      /\ DOMAIN q = 1 .. Len(q) /\ DOMAIN Tail(q) = 1 .. Len(q) - 1
      /\ q[1] = Head(q) /\ \A i \in 1 .. Len(q) - 1 : Tail(q)[i] = q[i + 1]
  OBVIOUS
<1>2. ASSUME NEW i \in DOMAIN q PROVE q[i] \in {Tail(q)[j] : j \in DOMAIN Tail(q)} \union {Head(q)}
  <2>1. CASE i = 1
    BY <1>1, <2>1
  <2>2. CASE i # 1
    <3>1. i - 1 \in 1 .. Len(q) - 1 /\ q[i] = Tail(q)[i - 1]
      BY <1>1, <2>2
    <3> QED BY <1>1, <3>1
  <2> QED BY <2>1, <2>2
<1>3. ASSUME NEW j \in DOMAIN Tail(q) PROVE Tail(q)[j] \in {q[i] : i \in DOMAIN q}
  <2>1. j + 1 \in 1 .. Len(q) /\ Tail(q)[j] = q[j + 1]
    BY <1>1
  <2> QED BY <1>1, <2>1
<1>4. Head(q) \in {q[i] : i \in DOMAIN q}
  BY <1>1
<1> QED BY <1>1, <1>2, <1>3, <1>4

LEMMA SwapRangesType ==
    ASSUME NEW E, NEW a \in Seq(E), NEW x \in Int, NEW y \in Int, NEW n \in Nat,
           1 <= x, x + n <= Len(a) + 1, 1 <= y, y + n <= Len(a) + 1
    PROVE  SwapRanges(a, x, y, n) \in Seq(E) /\ Len(SwapRanges(a, x, y, n)) = Len(a)
<1> DEFINE e(i) == CASE i \in x .. x + n - 1 -> a[i - x + y]
                     [] i \in y .. y + n - 1 -> a[i - y + x]
                     [] OTHER -> a[i]
<1>1. DOMAIN a = 1 .. Len(a) /\ Len(a) \in Nat
  OBVIOUS
<1>2. ASSUME NEW i \in 1 .. Len(a) PROVE e(i) \in E
  <2>1. i \in x .. x + n - 1 => a[i - x + y] \in E
    <3>1. i \in x .. x + n - 1 => i - x + y \in 1 .. Len(a)
      OBVIOUS
    <3> QED BY <1>1, <3>1
  <2>2. i \in y .. y + n - 1 => a[i - y + x] \in E
    <3>1. i \in y .. y + n - 1 => i - y + x \in 1 .. Len(a)
      OBVIOUS
    <3> QED BY <1>1, <3>1
  <2>3. a[i] \in E
    BY <1>1
  <2> QED BY <2>1, <2>2, <2>3
<1>3. SwapRanges(a, x, y, n) = [i \in 1 .. Len(a) |-> e(i)]
  BY <1>1 DEF SwapRanges
<1> HIDE DEF e
<1>4. SwapRanges(a, x, y, n) \in [1 .. Len(a) -> E]
  BY <1>2, <1>3
<1> QED BY <1>1, <1>4

LEMMA PartitionPointType ==
    ASSUME NEW a, NEW lo \in Int, NEW hi \in Int, lo <= hi, NEW p
    PROVE  PartitionPoint(a, lo, hi, p) \in lo .. hi
<1> DEFINE less == {i \in lo .. hi - 1 : Key(a[i]) < p}
<1>1. IsFiniteSet(lo .. hi - 1) /\ Cardinality(lo .. hi - 1) = hi - lo
  <2> DEFINE m == hi - 1
  <2>1. m \in Int /\ (IF lo > m THEN 0 ELSE m - lo + 1) = hi - lo
    OBVIOUS
  <2> HIDE DEF m
  <2>2. IsFiniteSet(lo .. m) /\ Cardinality(lo .. m) = IF lo > m THEN 0 ELSE m - lo + 1
    BY <2>1, FS_Interval
  <2> QED BY <2>1, <2>2 DEF m
<1>2. IsFiniteSet(less) /\ Cardinality(less) <= hi - lo
  BY <1>1, FS_Subset
<1>3. Cardinality(less) \in Nat
  BY <1>2, FS_CardinalityType
<1>4. PartitionPoint(a, lo, hi, p) = lo + Cardinality(less)
  BY DEF PartitionPoint
<1> HIDE DEF less
<1> QED BY <1>2, <1>3, <1>4

-----------------------------------------------------------------------------
(* The places of the program fit at every step.                            *)

\* What is known of a thread that runs a task.
LEMMA JobFits ==
    ASSUME Fits, NEW t \in Thread, t \in Running
    PROVE  /\ job[t] \in TaskType /\ job[t] # NoTask
           /\ job[t].sort \in Sort /\ job[t].part \in {"impl", "left"} /\ job[t].pivot \in Int
           /\ job[t].lo \in Nat \ {0} /\ job[t].hi \in Nat /\ job[t].lo < job[t].hi
           /\ arr[job[t].sort] \in Seq(Int \X Int)
           /\ job[t].hi <= Len(arr[job[t].sort]) + 1
           /\ Size(t) \in Nat \ {0} /\ Halfway(t) \in job[t].lo + 1 .. job[t].hi + 1
           /\ Size(t) >= MinParallel => Halfway(t) \in job[t].lo + 1 .. job[t].hi
<1>1. job[t] \in TaskType
  BY DEF Fits, TypeOK, Running
<1>2. /\ job[t].sort \in Sort /\ job[t].part \in {"impl", "left"} /\ job[t].pivot \in Int
      /\ job[t].lo \in Nat /\ job[t].hi \in Nat
  BY <1>1 DEF TaskType
<1>3. arr[job[t].sort] \in Seq(Int \X Int)
  BY <1>2 DEF Fits, TypeOK
<1>4. 1 <= job[t].lo /\ job[t].lo < job[t].hi /\ job[t].hi <= Len(arr[job[t].sort]) + 1
  BY DEF Fits, RangesFit, InRange
<1>5. Size(t) \in Nat \ {0} /\ job[t].hi = job[t].lo + Size(t)
  BY <1>2, <1>4 DEF Size
<1>6. Size(t) \div 2 \in Nat /\ 2 * (Size(t) \div 2) <= Size(t)
  BY <1>5, HalfOf
<1>7. Halfway(t) = job[t].lo + Size(t) \div 2 + 1
  BY DEF Halfway
<1>8. Halfway(t) \in job[t].lo + 1 .. job[t].hi + 1
  BY <1>2, <1>5, <1>6, <1>7
<1>9. Size(t) >= MinParallel => Halfway(t) \in job[t].lo + 1 .. job[t].hi
  BY SMTT(30), <1>2, <1>5, <1>6, <1>7, SortAssumption DEF SortAssumption
<1> QED BY <1>1, <1>2, <1>3, <1>4, <1>5, <1>8, <1>9 DEF Running

LEMMA InitFits == Init => Fits
<1> SUFFICES ASSUME Init PROVE Fits
  OBVIOUS
<1>1. TypeOK
  <2>1. \A s \in Sort : call[s] \in Calls /\ call[s].range \in Seq(Int \X Int)
    BY SortAssumption DEF Init, SortAssumption
  <2>2. DOMAIN ready = {}
    BY DEF Init
  <2> QED BY <2>1, <2>2 DEF Init, TypeOK, Pc, Thread
<1>2. InQueue = {} /\ Running = {} /\ DOMAIN ready = {}
  BY DEF Init, InQueue, Running, Thread
<1>3. PlacesFit
  BY <1>2 DEF Init, PlacesFit, PlaceFits, Thread, Busy
<1>4. RangesFit /\ FreshSorts
  BY <1>2 DEF Init, RangesFit, FreshSorts
<1>5. PoolFits
  <2>1. InitThreads \in 1 .. Cardinality(Worker) /\ Cardinality(Worker) \in Nat
    BY SortAssumption, FS_CardinalityType DEF SortAssumption
  <2>2. Cardinality(alive) = InitThreads
    BY DEF Init
  <2> QED BY <2>1, <2>2, FS_EmptySet DEF PoolFits
<1>6. LengthsKept
  BY DEF Init, LengthsKept
<1> QED BY <1>1, <1>3, <1>4, <1>5, <1>6 DEF Fits

\* The swap of MergeHalves stays inside the range of the call.
LEMMA SwapFits ==
    ASSUME Fits, NEW t \in Thread, MergeHalves(t)
    PROVE  LET left_mid == ready[LeftHalf(t)].at
               n == Least(Halfway(t) - left_mid, mid[t] - Halfway(t))
           IN  /\ t \in Running /\ LeftHalf(t) \in DOMAIN ready
               /\ left_mid \in job[t].lo .. Halfway(t)
               /\ mid[t] \in Halfway(t) .. job[t].hi
               /\ Halfway(t) \in job[t].lo + 1 .. job[t].hi
               /\ n \in Nat /\ n <= Halfway(t) - left_mid /\ n <= mid[t] - Halfway(t)
<1>1. t \in Running /\ Size(t) >= MinParallel /\ mid[t] \in Halfway(t) .. job[t].hi
  BY DEF MergeHalves, Fits, PlacesFit, PlaceFits, Busy
<1>2. Halfway(t) \in job[t].lo + 1 .. job[t].hi /\ job[t].lo \in Nat
  BY <1>1, JobFits
<1>3. LeftHalf(t) \in DOMAIN ready /\ ready[LeftHalf(t)].ok
  BY DEF MergeHalves
<1>4. ready[LeftHalf(t)].at \in LeftHalf(t).lo .. LeftHalf(t).hi
  BY <1>3 DEF Fits, RangesFit, LeftHalf, LeftTask
<1>5. ready[LeftHalf(t)].at \in job[t].lo .. Halfway(t)
  BY <1>4 DEF LeftHalf, LeftTask
<1> QED BY <1>1, <1>2, <1>3, <1>5 DEF Least

LEMMA SpanFits ==
    ASSUME Fits, NEW s \in Sort, NEW lo \in 1 .. Len(arr[s]) + 1, NEW hi \in 1 .. Len(arr[s]) + 1
    PROVE  <<lo, hi>> \in Spans
<1>1. call[s] \in Calls /\ Len(arr[s]) = Len(call[s].range)
  BY DEF Fits, TypeOK, LengthsKept
<1>2. <<lo, hi>> \in (1 .. Len(call[s].range) + 1) \X (1 .. Len(call[s].range) + 1)
  BY <1>1
<1> QED BY <1>1, <1>2 DEF Spans

LEMMA ArrStep ==
    ASSUME Fits, Next
    PROVE  /\ arr' \in [Sort -> Seq(Int \X Int)]
           /\ \A s \in Sort : Len(arr'[s]) = Len(arr[s])
<1>0. arr \in [Sort -> Seq(Int \X Int)]
  BY DEF Fits, TypeOK
<1>1. ASSUME NEW s \in Sort, NEW b \in Seq(Int \X Int), Len(b) = Len(arr[s]),
             arr' = [arr EXCEPT ![s] = b]
      PROVE  /\ arr' \in [Sort -> Seq(Int \X Int)]
             /\ \A r \in Sort : Len(arr'[r]) = Len(arr[r])
  BY <1>0, <1>1
<1>2. ASSUME NEW t \in Thread, PartitionAlone(t) \/ PartitionRightHalf(t) \/ SortLeaf(t)
                               \/ PartitionLeftHalf(t)
      PROVE  /\ arr' \in [Sort -> Seq(Int \X Int)]
             /\ \A r \in Sort : Len(arr'[r]) = Len(arr[r])
  <2> DEFINE s == job[t].sort
  <2>1. t \in Running
    BY <1>2 DEF PartitionAlone, MustPartition, PartitionRightHalf, SortLeaf, PartitionLeftHalf,
                Fits, PlacesFit, PlaceFits, Busy
  <2>2. /\ s \in Sort /\ arr[s] \in Seq(Int \X Int)
        /\ job[t].lo \in Int /\ job[t].hi \in Int /\ Halfway(t) \in Int
        /\ 1 <= job[t].lo /\ job[t].hi <= Len(arr[s]) + 1 /\ 1 <= Halfway(t)
    BY <2>1, JobFits
  <2>3. PICK lo \in {job[t].lo, Halfway(t)} :
            /\ lo = job[t].lo \/ pc[t] = "right"
            /\ \E f \in Orders[<<lo, job[t].hi>>] : arr' = [arr EXCEPT ![s] = Rearranged(arr[s], f)]
    <3>1. CASE PartitionAlone(t)
      BY <3>1 DEF PartitionAlone, Partitions
    <3>2. CASE PartitionRightHalf(t)
      BY <3>2 DEF PartitionRightHalf, Partitions
    <3>3. CASE SortLeaf(t)
      BY <3>3 DEF SortLeaf, SortedFrom
    <3>4. CASE PartitionLeftHalf(t)
      BY <3>4 DEF PartitionLeftHalf, Partitions
    <3> QED BY <1>2, <3>1, <3>2, <3>3, <3>4
  <2>4. PICK f \in Orders[<<lo, job[t].hi>>] : arr' = [arr EXCEPT ![s] = Rearranged(arr[s], f)]
    BY <2>3
  <2>5. lo .. job[t].hi - 1 \in SUBSET DOMAIN arr[s]
    <3>1. lo \in Int /\ 1 <= lo
      BY <2>2
    <3>2. DOMAIN arr[s] = 1 .. Len(arr[s]) /\ Len(arr[s]) \in Nat
      BY <2>2
    <3>3. ASSUME NEW i \in lo .. job[t].hi - 1 PROVE i \in 1 .. Len(arr[s])
      BY <2>2, <3>1, <3>2
    <3> QED BY <3>2, <3>3
  <2>6. Rearranged(arr[s], f) \in Seq(Int \X Int) /\ Len(Rearranged(arr[s], f)) = Len(arr[s])
    <3>1. lo \in 1 .. Len(arr[s]) + 1 /\ job[t].hi \in 1 .. Len(arr[s]) + 1
      <4>1. lo <= job[t].hi
        <5>1. CASE pc[t] = "right"
          BY <2>1, <2>3, <5>1, JobFits DEF Fits, PlacesFit, PlaceFits
        <5> QED BY <2>1, <2>2, <2>3, <5>1, JobFits
      <4> QED BY <2>2, <4>1
    <3>2. f \in [lo .. job[t].hi - 1 -> lo .. job[t].hi - 1]
      BY <2>2, <3>1, SpanFits, OrdersArePermutations
    <3> QED BY <2>2, <2>5, <3>2, RearrangedType
  <2> QED BY <1>1, <2>2, <2>4, <2>6
<1>3. ASSUME NEW t \in Thread, MergeHalves(t)
      PROVE  /\ arr' \in [Sort -> Seq(Int \X Int)]
             /\ \A r \in Sort : Len(arr'[r]) = Len(arr[r])
  <2> DEFINE s == job[t].sort
             x == ready[LeftHalf(t)].at
             n == Least(Halfway(t) - x, mid[t] - Halfway(t))
  <2>1. /\ t \in Running /\ x \in job[t].lo .. Halfway(t) /\ mid[t] \in Halfway(t) .. job[t].hi
        /\ n \in Nat /\ n <= Halfway(t) - x /\ n <= mid[t] - Halfway(t)
    BY <1>3, SwapFits
  <2>2. /\ s \in Sort /\ arr[s] \in Seq(Int \X Int)
        /\ job[t].lo \in Nat \ {0} /\ job[t].hi \in Nat /\ Halfway(t) \in Nat
        /\ job[t].hi <= Len(arr[s]) + 1
    BY <2>1, JobFits
  <2>3. arr' = [arr EXCEPT ![s] = SwapRanges(arr[s], x, mid[t] - n, n)]
        \/ arr' = [arr EXCEPT ![s] = SwapRanges(arr[s], Halfway(t), x, n)]
    BY <1>3, <2>2 DEF MergeHalves
  <2> HIDE DEF n, x, s
  <2>4. /\ x \in Int /\ mid[t] - n \in Int /\ Halfway(t) \in Int
        /\ 1 <= x /\ x + n <= Len(arr[s]) + 1
        /\ 1 <= mid[t] - n /\ mid[t] - n + n <= Len(arr[s]) + 1
        /\ 1 <= Halfway(t) /\ Halfway(t) + n <= Len(arr[s]) + 1
    <3> DEFINE half == Halfway(t)
               m == mid[t]
               len == Len(arr[s])
    <3>1. /\ x \in job[t].lo .. half /\ m \in half .. job[t].hi /\ n \in Nat
          /\ n <= half - x /\ n <= m - half
      BY <2>1
    <3>2. job[t].lo \in Nat \ {0} /\ job[t].hi \in Nat /\ half \in Nat /\ job[t].hi <= len + 1 /\ len \in Nat
      BY <2>2
    <3> HIDE DEF half, m, len
    <3>3. /\ x \in Int /\ m - n \in Int /\ half \in Int
          /\ 1 <= x /\ x + n <= len + 1
          /\ 1 <= m - n /\ m - n + n <= len + 1
          /\ 1 <= half /\ half + n <= len + 1
      BY <3>1, <3>2
    <3> QED BY <3>3 DEF half, m, len
  <2>5. /\ SwapRanges(arr[s], x, mid[t] - n, n) \in Seq(Int \X Int)
        /\ Len(SwapRanges(arr[s], x, mid[t] - n, n)) = Len(arr[s])
    <3> DEFINE y == mid[t] - n
    <3>1. y \in Int /\ 1 <= y /\ y + n <= Len(arr[s]) + 1
      BY <2>4
    <3> HIDE DEF y
    <3>2. SwapRanges(arr[s], x, y, n) \in Seq(Int \X Int) /\ Len(SwapRanges(arr[s], x, y, n)) = Len(arr[s])
      BY SMTT(30), <2>1, <2>2, <2>4, <3>1, SwapRangesType
    <3> QED BY <3>2 DEF y
  <2>6. /\ SwapRanges(arr[s], Halfway(t), x, n) \in Seq(Int \X Int)
        /\ Len(SwapRanges(arr[s], Halfway(t), x, n)) = Len(arr[s])
    BY SMTT(30), <2>1, <2>2, <2>4, SwapRangesType
  <2> QED BY <1>1, <2>2, <2>3, <2>5, <2>6
<1>4. CASE UNCHANGED arr
  BY <1>0, <1>4
<1>5. ASSUME NEW s \in Sort, CallerStep(s) \/ SpuriousWake(s) PROVE UNCHANGED arr
  BY <1>5 DEF CallerStep, SetBudget, SortWithoutBudget, SetUp, SortNothing, WaitForSpawns,
              GetFuture, Return, SpuriousWake, data
<1>6. ASSUME NEW t \in Thread, SubmitLeftHalf(t) \/ SpawnFirst(t) \/ SpawnSecond(t) \/ CountLeaf(t)
                \/ NotifyCaller(t) \/ ThrowAlone(t) \/ Throw(t) \/ TakeTask(t) PROVE UNCHANGED arr
  BY <1>6 DEF SubmitLeftHalf, SpawnFirst, SpawnSecond, CountLeaf, NotifyCaller, ThrowAlone,
              Throw, TakeTask, data
<1>7. CASE Resize \/ Restart
  BY <1>4, <1>7 DEF Resize, Contract, Expand, Restart, data
<1>8. Worker \subseteq Thread
  BY DEF Thread
<1> QED BY <1>2, <1>3, <1>4, <1>5, <1>6, <1>7, <1>8 DEF Next, QuicksortStep, WorkerStep

LEMMA ThreadsApart == Worker \intersect Sort = {} /\ Thread = Worker \union Sort
BY SortAssumption DEF SortAssumption, Thread

LEMMA InRangeStep == ASSUME Fits, Next, NEW c \in TaskType PROVE InRange(c)' <=> InRange(c)
<1>1. c.sort \in Sort
  BY DEF TaskType
<1>2. Len(arr'[c.sort]) = Len(arr[c.sort])
  BY <1>1, ArrStep
<1>3. InRange(c)' <=> (1 <= c.lo /\ c.lo < c.hi /\ c.hi <= Len(arr'[c.sort]) + 1)
  BY DEF InRange
<1> QED BY <1>2, <1>3 DEF InRange

LEMMA LengthStep == ASSUME Fits, Next PROVE LengthsKept'
<1>1. call' = call
  BY DEF Next, CallerStep, SetBudget, SortWithoutBudget, SetUp, SortNothing, WaitForSpawns,
     GetFuture, Return, SpuriousWake, QuicksortStep, PartitionAlone, SubmitLeftHalf,
     PartitionRightHalf, MergeHalves, SpawnFirst, SpawnSecond, CountLeaf, NotifyCaller, SortLeaf,
     ThrowAlone, Throw, WorkerStep, TakeTask, PartitionLeftHalf, Resize, Contract, Expand, Restart,
     data
<1> QED BY <1>1, ArrStep DEF LengthsKept, Fits

\* A step that only moves the caller of one sort.
LEMMA CallerFits ==
    ASSUME Fits, Next, NEW s \in Sort,
           SetBudget(s) \/ SortWithoutBudget(s) \/ SortNothing(s) \/ WaitForSpawns(s)
               \/ SpuriousWake(s) \/ GetFuture(s) \/ Return(s)
    PROVE  Fits'
<1>1. /\ UNCHANGED <<arr, call, leaf, inflight, futures, queue, ready, alive, target, job, pivot, mid>>
      /\ pc[s] \in {"idle", "called", "waiting", "asleep", "gathering"}
  BY DEF SetBudget, SortWithoutBudget, SortNothing, WaitForSpawns, SpuriousWake, GetFuture,
         Return, data, counts, pool, frames
<1>2. PICK label \in {"called", "returned", "gathering", "asleep", "waiting", "threw"} :
          pc' = [pc EXCEPT ![s] = label] \/ (pc' = pc /\ pc[s] = "gathering")
  BY DEF SetBudget, SortWithoutBudget, SortNothing, WaitForSpawns, SpuriousWake, GetFuture,
         Return, Goto
<1>3. allowed' \in [Sort -> Int]
  <2>1. IsFiniteSet(alive)
    BY SortAssumption, FS_Subset DEF Fits, TypeOK, SortAssumption
  <2>2. Cardinality(alive) \div 2 \in Int
    BY <2>1, FS_CardinalityType, HalfOf
  <2> QED BY <2>2 DEF Fits, TypeOK, SetBudget, SortWithoutBudget, SortNothing, WaitForSpawns,
                      SpuriousWake, GetFuture, Return, counts
<1>4. got' \in [Sort -> Nat] /\ (pc[s] \in {"idle", "called"} => got' = got)
      /\ \A r \in Sort \ {s} : got'[r] = got[r]
  <2>1. CASE GetFuture(s)
    <3>1. got' = [got EXCEPT ![s] = @ + 1] \/ got' = got
      BY <2>1 DEF GetFuture
    <3>2. pc[s] = "gathering" /\ got \in [Sort -> Nat]
      BY <2>1 DEF GetFuture, Fits, TypeOK
    <3> QED BY <3>1, <3>2
  <2>2. CASE ~GetFuture(s)
    BY <2>2 DEF Fits, TypeOK, SetBudget, SortWithoutBudget, SortNothing, WaitForSpawns,
                SpuriousWake, Return, counts
  <2> QED BY <2>1, <2>2
<1>5. pc' \in [Thread -> Pc] /\ s \in Thread /\ s \notin Worker
  <2>1. pc \in [Thread -> Pc]
    BY DEF Fits, TypeOK
  <2> QED BY <1>2, <2>1, ThreadsApart DEF Pc
<1>6. TypeOK'
  BY <1>1, <1>3, <1>4, <1>5 DEF Fits, TypeOK
<1>7. InQueue' = InQueue /\ Running' = Running
  BY <1>1 DEF InQueue, Running
<1>8. PlacesFit'
  <2> SUFFICES ASSUME NEW t \in Thread PROVE PlaceFits(t)'
    BY DEF PlacesFit
  <2>1. PlaceFits(t) /\ PlaceFits(s) /\ pc \in [Thread -> Pc]
    BY <1>5 DEF Fits, PlacesFit, TypeOK
  <2>2. CASE t = s
    BY <2>1, <2>2, <1>1, <1>2, <1>5, <1>7 DEF PlaceFits, Busy
  <2>3. CASE t # s
    BY <2>1, <2>3, <1>1, <1>2, <1>7 DEF PlaceFits, Size, Halfway
  <2> QED BY <2>2, <2>3
<1>9. RangesFit'
  BY <1>1, <1>7 DEF Fits, RangesFit, InRange
<1>10. FreshSorts'
  <2> SUFFICES ASSUME NEW r \in Sort, pc'[r] \in {"idle", "called"}
               PROVE  /\ futures[r] = <<>> /\ inflight[r] = 0 /\ got'[r] = 0
                      /\ \A c \in InQueue : c.sort # r
                      /\ \A t \in Running : job[t].sort # r
                      /\ \A c \in DOMAIN ready : c.sort # r
    BY <1>1, <1>7 DEF FreshSorts
  <2>1. pc[r] \in {"idle", "called"}
    BY SMTT(30), <1>1, <1>2, ThreadsApart DEF Fits, TypeOK, SetBudget, SortWithoutBudget, SortNothing,
       WaitForSpawns, SpuriousWake, GetFuture, Return, Goto
  <2> QED BY <2>1, <1>4 DEF Fits, FreshSorts
<1> QED BY <1>1, <1>6, <1>8, <1>9, <1>10, LengthStep DEF Fits, PoolFits

\* The root call covers the whole range.
LEMMA SetUpFits == ASSUME Fits, Next, NEW s \in Sort, SetUp(s) PROVE Fits'
<1> DEFINE root == QuicksortTask(s, 1, Len(arr[s]) + 1)
<1>1. /\ UNCHANGED <<arr, call, allowed, futures, got, queue, ready, alive, target, pivot, mid>>
      /\ pc[s] = "called" /\ Len(arr[s]) > 0
      /\ pc' = [pc EXCEPT ![s] = "entered"] /\ job' = [job EXCEPT ![s] = root]
      /\ inflight' = [inflight EXCEPT ![s] = 1]
  BY DEF SetUp, Goto, data, pool
<1>2. s \in Thread /\ s \notin Worker /\ Len(arr[s]) \in Nat
  BY ThreadsApart DEF Fits, TypeOK
<1>3. /\ root \in TaskType /\ root # NoTask /\ root.sort = s /\ root.part = "impl"
      /\ root.lo = 1 /\ root.hi = Len(arr[s]) + 1
  BY <1>2, NoTaskAssumption DEF QuicksortTask, TaskType
<1> HIDE DEF root
<1>4. leaf' \in [Sort -> Nat]
  <2>1. IsFiniteSet(alive)
    BY SortAssumption, FS_Subset DEF Fits, TypeOK, SortAssumption
  <2>2. Cardinality(alive) \in Nat \ {0}
    BY <2>1, FS_CardinalityType, FS_EmptySet DEF Fits, PoolFits
  <2>3. \A m \in Nat, n \in Nat \ {0} : m \div n \in Int
    OBVIOUS
  <2> DEFINE share == Len(arr[s]) \div (Cardinality(alive) * 2)
  <2>4. share \in Int
    <3>1. Cardinality(alive) * 2 \in Nat \ {0}
      BY <2>2
    <3> QED BY <1>2, <3>1, <2>3
  <2>5. leaf' = [leaf EXCEPT ![s] = IF Cardinality(alive) = 1 THEN Len(arr[s])
                                    ELSE IF share > MinLeaf THEN share ELSE MinLeaf]
    BY DEF SetUp
  <2> HIDE DEF share
  <2> QED BY <1>2, <2>4, <2>5, SortAssumption DEF Fits, TypeOK, SortAssumption
<1>5. TypeOK'
  <2>1. pc' \in [Thread -> Pc] /\ job' \in [Thread -> TaskType \union {NoTask}]
    BY <1>1, <1>2, <1>3 DEF Fits, TypeOK, Pc
  <2>2. inflight' \in [Sort -> Int]
    BY <1>1 DEF Fits, TypeOK
  <2> QED BY <1>1, <1>4, <2>1, <2>2 DEF Fits, TypeOK
<1>6. /\ InQueue' = InQueue /\ Running' = Running \union {s}
      /\ job'[s] = root /\ pc'[s] = "entered"
      /\ \A t \in Thread \ {s} : job'[t] = job[t] /\ pc'[t] = pc[t]
  BY <1>1, <1>2, <1>3 DEF InQueue, Running, Fits, TypeOK
<1>7. PlacesFit'
  <2> SUFFICES ASSUME NEW t \in Thread PROVE PlaceFits(t)'
    BY DEF PlacesFit
  <2>1. PlaceFits(t)
    BY DEF Fits, PlacesFit
  <2>2. CASE t = s
    BY <2>2, <1>2, <1>3, <1>6 DEF PlaceFits, Busy
  <2>3. CASE t # s
    BY <2>1, <2>3, <1>1, <1>6 DEF PlaceFits, Size, Halfway
  <2> QED BY <2>2, <2>3
<1>8. RangesFit'
  <2>1. \A c : InRange(c)' <=> InRange(c)
    BY <1>1 DEF InRange
  <2>2. InRange(root)
    BY <1>1, <1>2, <1>3 DEF InRange
  <2>3. \A t \in Running : InRange(job[t])
    BY DEF Fits, RangesFit
  <2>4. \A t \in Running' : InRange(job'[t])
    BY <2>2, <2>3, <1>6 DEF Running
  <2> QED BY <2>1, <2>4, <1>1, <1>6 DEF Fits, RangesFit
<1>9. FreshSorts'
  <2> SUFFICES ASSUME NEW r \in Sort, pc'[r] \in {"idle", "called"}
               PROVE  /\ futures[r] = <<>> /\ inflight'[r] = 0 /\ got[r] = 0
                      /\ \A c \in InQueue : c.sort # r
                      /\ \A t \in Running' : job'[t].sort # r
                      /\ \A c \in DOMAIN ready : c.sort # r
    BY <1>1, <1>6 DEF FreshSorts
  <2>1. r # s
    BY <1>6
  <2>2. pc[r] \in {"idle", "called"}
    BY <2>1, <1>6, ThreadsApart
  <2>3. inflight'[r] = inflight[r]
    BY <2>1, <1>1 DEF Fits, TypeOK
  <2>4. \A t \in Running : job[t].sort # r
    BY <2>2 DEF Fits, FreshSorts
  <2>5. \A t \in Running' : job'[t].sort # r
    BY <2>1, <2>4, <1>3, <1>6 DEF Running
  <2> QED BY <2>2, <2>3, <2>5 DEF Fits, FreshSorts
<1> QED BY <1>1, <1>5, <1>7, <1>8, <1>9, LengthStep DEF Fits, PoolFits

\* A step of a call that neither takes nor ends nor submits a task.
LEMMA LocalFits ==
    ASSUME Fits, Next, NEW t \in Thread,
           PartitionAlone(t) \/ PartitionRightHalf(t) \/ CountLeaf(t) \/ NotifyCaller(t)
    PROVE  Fits'
<1>1. /\ UNCHANGED <<call, leaf, futures, got, queue, ready, alive, target, job>>
      /\ pc[t] \in {"entered", "right", "leaf", "notifying"}
  BY DEF PartitionAlone, MustPartition, PartitionRightHalf, CountLeaf, AtLeaf, NotifyCaller,
         data, counts, pool, frames
<1>2. t \in Running /\ PlaceFits(t) /\ pc \in [Thread -> Pc] /\ mid \in [Thread -> Nat]
  BY <1>1 DEF Fits, PlacesFit, PlaceFits, Busy, TypeOK
<1> DEFINE s == job[t].sort
<1>3. /\ s \in Sort /\ s \in Thread /\ job[t].lo \in Nat /\ job[t].hi \in Nat /\ job[t].lo < job[t].hi
      /\ Halfway(t) \in Int /\ (pc[t] = "right" => Halfway(t) \in job[t].lo + 1 .. job[t].hi)
      /\ job[t].part = "impl"
  BY <1>1, <1>2, JobFits, ThreadsApart DEF PlaceFits
<1>4. allowed' \in [Sort -> Int] /\ inflight' \in [Sort -> Int]
  <2>1. allowed' = allowed \/ allowed' = [allowed EXCEPT ![s] = @ - 1]
    BY DEF PartitionAlone, TakeFromBudget, PartitionRightHalf, CountLeaf, NotifyCaller, counts
  <2>2. inflight' = inflight \/ inflight' = [inflight EXCEPT ![s] = @ - 1]
    BY DEF PartitionAlone, PartitionRightHalf, CountLeaf, UncountCall, NotifyCaller, counts
  <2>3. allowed \in [Sort -> Int] /\ inflight \in [Sort -> Int]
    BY DEF Fits, TypeOK
  <2> QED BY <2>1, <2>2, <2>3
<1>5. UNCHANGED pivot
  BY DEF PartitionAlone, PartitionRightHalf, CountLeaf, NotifyCaller, frames
<1>6. /\ pc'[t] \in Busy \ {"left", "right", "spawning"}
      /\ \A u \in Thread \ {t} : pc'[u] = pc[u] \/ (u = s /\ pc[u] = "asleep" /\ pc'[u] = "waiting")
      /\ pc' \in [Thread -> Pc]
      /\ mid' \in [Thread -> Nat] /\ \A u \in Thread \ {t} : mid'[u] = mid[u]
      /\ pc'[t] = "joining" => mid'[t] \in Halfway(t) .. job[t].hi /\ pc[t] = "right"
      /\ pc'[t] = "split" => job[t].lo < mid'[t] /\ mid'[t] < job[t].hi
  <2>1. CASE PartitionAlone(t)
    <3> DEFINE m == PartitionPoint(arr[s], job[t].lo, job[t].hi, Pivot(t))
    <3>1. m \in job[t].lo .. job[t].hi
      BY <1>3, PartitionPointType
    <3>2. /\ mid' = [mid EXCEPT ![t] = m]
          /\ pc' = [pc EXCEPT ![t] = IF m \in {job[t].lo, job[t].hi} THEN "leaf" ELSE "split"]
      BY <2>1 DEF PartitionAlone, AfterPartition, Goto
    <3> HIDE DEF m
    <3> QED BY <3>1, <3>2, <1>2, <1>3 DEF Busy, Pc
  <2>2. CASE PartitionRightHalf(t)
    <3> DEFINE m == PartitionPoint(arr[s], Halfway(t), job[t].hi, pivot[t])
    <3>1. m \in Halfway(t) .. job[t].hi /\ Halfway(t) \in Nat
      BY <2>2, <1>3, PartitionPointType DEF PartitionRightHalf
    <3>2. /\ mid' = [mid EXCEPT ![t] = m] /\ pc' = [pc EXCEPT ![t] = "joining"] /\ pc[t] = "right"
      BY <2>2 DEF PartitionRightHalf, Goto
    <3> HIDE DEF m
    <3> QED BY <3>1, <3>2, <1>2, <1>3 DEF Busy, Pc
  <2>3. CASE CountLeaf(t)
    BY <2>3, <1>2 DEF CountLeaf, Goto, frames, Busy, Pc
  <2>4. CASE NotifyCaller(t)
    BY <2>4, <1>2 DEF NotifyCaller, frames, Busy, Pc
  <2> QED BY <2>1, <2>2, <2>3, <2>4
<1>7. TypeOK'
  BY <1>1, <1>4, <1>5, <1>6, ArrStep DEF Fits, TypeOK
<1>8. InQueue' = InQueue /\ Running' = Running
  BY <1>1 DEF InQueue, Running
<1>9. PlacesFit'
  <2> SUFFICES ASSUME NEW u \in Thread PROVE PlaceFits(u)'
    BY DEF PlacesFit
  <2>1. PlaceFits(u)
    BY DEF Fits, PlacesFit
  <2>2. CASE u = t
    <3>1. pc[t] # "left" /\ (pc'[t] = "joining" => Size(t) >= MinParallel)
      BY <1>1, <1>2, <1>6 DEF PlaceFits
    <3> QED BY <2>2, <3>1, <1>1, <1>2, <1>6, <1>8 DEF PlaceFits, Busy, Size, Halfway
  <2>3. CASE u # t
    BY <2>1, <2>3, <1>1, <1>6, <1>8, ThreadsApart DEF PlaceFits, Size, Halfway, Busy
  <2> QED BY <2>2, <2>3
<1>10. RangesFit'
  <2>1. \A c \in TaskType : InRange(c)' <=> InRange(c)
    BY InRangeStep
  <2>2. InQueue \subseteq TaskType /\ DOMAIN ready \subseteq TaskType /\ \A u \in Running : job[u] \in TaskType
    BY DEF Fits, TypeOK, InQueue, Running
  <2> QED BY <2>1, <2>2, <1>1, <1>8 DEF Fits, RangesFit
<1>11. FreshSorts'
  <2> SUFFICES ASSUME NEW r \in Sort, pc'[r] \in {"idle", "called"}
               PROVE  /\ futures[r] = <<>> /\ inflight'[r] = 0 /\ got[r] = 0
                      /\ \A c \in InQueue : c.sort # r
                      /\ \A u \in Running : job[u].sort # r
                      /\ \A c \in DOMAIN ready : c.sort # r
    BY <1>1, <1>8 DEF FreshSorts
  <2>1. pc[r] \in {"idle", "called"}
    BY <1>6, ThreadsApart DEF Busy
  <2>2. s # r
    BY <2>1, <1>2 DEF Fits, FreshSorts
  <2>3. inflight'[r] = inflight[r]
    BY <2>2, <1>3 DEF PartitionAlone, PartitionRightHalf, CountLeaf, UncountCall, NotifyCaller, counts,
                 Fits, TypeOK
  <2> QED BY <2>1, <2>3 DEF Fits, FreshSorts
<1> QED BY <1>1, <1>7, <1>9, <1>10, <1>11, LengthStep DEF Fits, PoolFits

\* A thread that runs a call of quicksort_impl puts a task of the same sort on the queue.
LEMMA SubmitFits ==
    ASSUME Fits, Next, NEW t \in Thread, NEW c,
           \/ SubmitLeftHalf(t) /\ c = LeftTask(job[t].sort, job[t].lo, Halfway(t), Pivot(t))
           \/ SpawnFirst(t) /\ c = QuicksortTask(job[t].sort, job[t].lo, mid[t])
           \/ SpawnSecond(t) /\ c = QuicksortTask(job[t].sort, mid[t], job[t].hi)
    PROVE  /\ t \in Running /\ job[t].part = "impl" /\ job[t].sort \in Sort /\ InRange(c)
           /\ c \in TaskType /\ c.sort = job[t].sort
           /\ job[t].lo <= c.lo /\ c.hi <= job[t].hi
           /\ queue' = Append(queue, c) /\ queue' \in Seq(TaskType) /\ InQueue' = InQueue \union {c}
<1>1. t \in Running /\ PlaceFits(t) /\ pc[t] # "left"
  BY DEF SubmitLeftHalf, MustPartition, SpawnFirst, SpawnSecond, Fits, PlacesFit, PlaceFits, Busy
<1>2. /\ job[t].sort \in Sort /\ job[t].part = "impl"
      /\ job[t].lo \in Nat \ {0} /\ job[t].hi \in Nat /\ job[t].lo < job[t].hi
      /\ job[t].hi <= Len(arr[job[t].sort]) + 1
      /\ arr[job[t].sort] \in Seq(Int \X Int)
      /\ Size(t) \in Nat \ {0} /\ Size(t) = job[t].hi - job[t].lo
      /\ Halfway(t) \in Nat /\ job[t].lo < Halfway(t)
      /\ Size(t) >= MinParallel => Halfway(t) <= job[t].hi
  BY <1>1, JobFits DEF PlaceFits, Size
<1>0. ASSUME c \in TaskType, queue' = Append(queue, c)
      PROVE  queue' \in Seq(TaskType) /\ InQueue' = InQueue \union {c}
  <2>1. queue \in Seq(TaskType)
    BY DEF Fits, TypeOK
  <2>2. InQueue' = {queue'[i] : i \in DOMAIN queue'}
    BY DEF InQueue
  <2> QED BY <1>0, <2>1, <2>2, AppendItems DEF InQueue
<1>3. CASE SubmitLeftHalf(t) /\ c = LeftTask(job[t].sort, job[t].lo, Halfway(t), Pivot(t))
  <2>1. Pivot(t) \in Int
    <3>1. Size(t) \div 2 \in Nat /\ 2 * (Size(t) \div 2) <= Size(t)
      BY <1>2, HalfOf
    <3> DEFINE h == Size(t) \div 2
               len == Len(arr[job[t].sort])
    <3>2. job[t].lo + h \in 1 .. len
      <4>1. h \in Nat /\ 2 * h <= Size(t) /\ len \in Nat /\ job[t].hi <= len + 1
        BY <3>1, <1>2
      <4>2. 2 * h <= job[t].hi - job[t].lo
        BY <4>1, <1>2
      <4> HIDE DEF h, len
      <4> QED BY <4>1, <4>2, <1>2, MiddleInside
    <3>3. arr[job[t].sort][job[t].lo + Size(t) \div 2] \in Int \X Int
      BY <3>2, <1>2
    <3> QED BY <3>3 DEF Pivot, Key
  <2>2. Halfway(t) <= job[t].hi /\ queue' = Append(queue, c)
    BY <1>2, <1>3 DEF SubmitLeftHalf, MayPartitionInParallel
  <2>3. /\ c.sort = job[t].sort /\ c.lo = job[t].lo /\ c.hi = Halfway(t)
        /\ c = [sort |-> job[t].sort, part |-> "left", lo |-> job[t].lo, hi |-> Halfway(t), pivot |-> Pivot(t)]
    BY <1>3 DEF LeftTask
  <2>4. c \in TaskType /\ InRange(c)
    BY <1>2, <2>1, <2>2, <2>3 DEF TaskType, InRange
  <2>5. queue' \in Seq(TaskType) /\ InQueue' = InQueue \union {c}
    BY <1>0, <2>2, <2>4
  <2> QED BY <1>1, <1>2, <2>2, <2>3, <2>4, <2>5
<1>4. CASE SpawnFirst(t) /\ c = QuicksortTask(job[t].sort, job[t].lo, mid[t])
  <2>1. queue' = Append(queue, c) /\ job[t].lo < mid[t] /\ mid[t] < job[t].hi /\ mid[t] \in Nat
    BY <1>1, <1>4 DEF SpawnFirst, PlaceFits, Fits, TypeOK
  <2>2. /\ c.sort = job[t].sort /\ c.lo = job[t].lo /\ c.hi = mid[t]
        /\ c = [sort |-> job[t].sort, part |-> "impl", lo |-> job[t].lo, hi |-> mid[t], pivot |-> 0]
    BY <1>4 DEF QuicksortTask
  <2>3. c \in TaskType /\ InRange(c)
    <3>1. c \in TaskType
      BY <1>2, <2>1, <2>2 DEF TaskType
    <3>2. Len(arr[job[t].sort]) \in Nat
      BY <1>2
    <3>3. 1 <= job[t].lo /\ mid[t] <= Len(arr[job[t].sort]) + 1
      <4> DEFINE len == Len(arr[job[t].sort])
      <4>1. len \in Nat /\ job[t].hi \in Nat /\ mid[t] \in Nat /\ mid[t] < job[t].hi /\ job[t].hi <= len + 1
        BY <3>2, <1>2, <2>1
      <4> HIDE DEF len
      <4>2. mid[t] <= len + 1
        BY <4>1
      <4> QED BY <4>2, <1>2 DEF len
    <3> QED BY <3>1, <3>3, <2>1, <2>2 DEF InRange
  <2>4. queue' \in Seq(TaskType) /\ InQueue' = InQueue \union {c}
    BY <1>0, <2>1, <2>3
  <2> QED BY <1>1, <1>2, <2>1, <2>2, <2>3, <2>4
<1>5. CASE SpawnSecond(t) /\ c = QuicksortTask(job[t].sort, mid[t], job[t].hi)
  <2>1. queue' = Append(queue, c) /\ job[t].lo < mid[t] /\ mid[t] < job[t].hi /\ mid[t] \in Nat
    BY <1>1, <1>5 DEF SpawnSecond, PlaceFits, Fits, TypeOK
  <2>2. /\ c.sort = job[t].sort /\ c.lo = mid[t] /\ c.hi = job[t].hi
        /\ c = [sort |-> job[t].sort, part |-> "impl", lo |-> mid[t], hi |-> job[t].hi, pivot |-> 0]
    BY <1>5 DEF QuicksortTask
  <2>3. c \in TaskType /\ InRange(c)
    <3>1. c \in TaskType
      BY <1>2, <2>1, <2>2 DEF TaskType
    <3>2. Len(arr[job[t].sort]) \in Nat
      BY <1>2
    <3> QED BY <3>1, <3>2, <1>2, <2>1, <2>2 DEF InRange
  <2>4. queue' \in Seq(TaskType) /\ InQueue' = InQueue \union {c}
    BY <1>0, <2>1, <2>3
  <2> QED BY SMTT(30), <1>1, <1>2, <2>1, <2>2, <2>3, <2>4
<1> QED BY <1>3, <1>4, <1>5

\* What is left when t ends its task.
LEMMA FinishFits ==
    ASSUME Fits, NEW t \in Thread, t \in Running, NEW ok \in BOOLEAN, NEW at \in Nat, Finish(t, ok, at)
    PROVE  /\ job' \in [Thread -> TaskType \union {NoTask}] /\ pc' \in [Thread -> Pc]
           /\ Running' = Running \ {t} /\ job'[t] = NoTask
           /\ \A u \in Thread \ {t} : job'[u] = job[u] /\ pc'[u] = pc[u]
           /\ t \in Worker => pc'[t] = "idle"
           /\ t \notin Worker => pc'[t] \in {"waiting", "threw"}
           /\ DOMAIN ready' = DOMAIN ready \union (IF t \in Worker THEN {job[t]} ELSE {})
           /\ \A c \in DOMAIN ready : (t \in Worker /\ c = job[t]) \/ ready'[c] = ready[c]
           /\ t \in Worker => ready'[job[t]] = [ok |-> ok, at |-> at]
<1>1. /\ job \in [Thread -> TaskType \union {NoTask}] /\ pc \in [Thread -> Pc]
      /\ job' = [job EXCEPT ![t] = NoTask]
  BY DEF Fits, TypeOK, Finish
<1>2. Running' = Running \ {t} /\ job'[t] = NoTask /\ \A u \in Thread \ {t} : job'[u] = job[u]
  BY <1>1 DEF Running
<1>3. CASE t \in Worker
  <2>1. /\ pc' = [pc EXCEPT ![t] = "idle"]
        /\ ready' = [d \in DOMAIN ready \union {job[t]} |->
                        IF d = job[t] THEN [ok |-> ok, at |-> at] ELSE ready[d]]
    BY <1>3 DEF Finish, Goto, Resolve
  <2> QED BY <1>1, <1>2, <1>3, <2>1 DEF Pc
<1>4. CASE t \notin Worker
  <2>1. ready' = ready /\ pc' = [pc EXCEPT ![t] = IF ok THEN "waiting" ELSE "threw"]
    BY <1>4 DEF Finish, Goto
  <2> QED BY <1>1, <1>2, <1>4, <2>1 DEF Pc
<1> QED BY <1>3, <1>4

\* The steps that end a task.
Ends(t) == SpawnSecond(t) \/ SortLeaf(t) \/ ThrowAlone(t) \/ Throw(t) \/ PartitionLeftHalf(t)

LEMMA EndsFinish ==
    ASSUME Fits, NEW t \in Thread, Ends(t)
    PROVE  /\ t \in Running
           /\ \E ok \in BOOLEAN, at \in Nat :
                 /\ Finish(t, ok, at)
                 /\ job[t].part = "left" /\ ok => at \in job[t].lo .. job[t].hi
<1>1. t \in Running
  <2>1. pc[t] \in Busy
    BY DEF Ends, SpawnSecond, SortLeaf, ThrowAlone, MustPartition, Throw, LeftHalfThrew,
           PartitionLeftHalf, Busy
  <2> QED BY <2>1 DEF Fits, PlacesFit, PlaceFits
<1>2. PlaceFits(t)
  BY DEF Fits, PlacesFit
<1>3. CASE SpawnSecond(t)
  <2>1. Finish(t, TRUE, 0)
    BY <1>3 DEF SpawnSecond, Finish
  <2>2. job[t].part # "left"
    BY <1>1, <1>2, <1>3 DEF SpawnSecond, PlaceFits
  <2> QED BY <1>1, <2>1, <2>2
<1>4. CASE SortLeaf(t)
  <2>1. Finish(t, TRUE, 0)
    BY <1>4 DEF SortLeaf
  <2>2. job[t].part # "left"
    BY <1>1, <1>2, <1>4 DEF SortLeaf, PlaceFits
  <2> QED BY <1>1, <2>1, <2>2
<1>5. CASE ThrowAlone(t) \/ Throw(t)
  <2>1. Finish(t, FALSE, 0)
    BY <1>5 DEF ThrowAlone, Throw
  <2> QED BY <1>1, <2>1
<1>6. CASE PartitionLeftHalf(t)
  <2> DEFINE m == PartitionPoint(arr[job[t].sort], job[t].lo, job[t].hi, job[t].pivot)
  <2>1. Finish(t, TRUE, m)
    BY <1>6 DEF PartitionLeftHalf
  <2>2. m \in job[t].lo .. job[t].hi /\ m \in Nat
    BY <1>1, JobFits, PartitionPointType
  <2> HIDE DEF m
  <2> QED BY <1>1, <2>1, <2>2
<1> QED BY <1>3, <1>4, <1>5, <1>6 DEF Ends

LEMMA EndsLeave ==
    ASSUME Fits, NEW t \in Thread, Ends(t)
    PROVE  /\ t \in Running /\ Running' = Running \ {t} /\ job'[t] = NoTask
           /\ \A u \in Thread \ {t} : job'[u] = job[u] /\ pc'[u] = pc[u]
           /\ t \in Worker => pc'[t] = "idle"
           /\ t \notin Worker => pc'[t] \in {"waiting", "threw"}
           /\ DOMAIN ready' = DOMAIN ready \union (IF t \in Worker THEN {job[t]} ELSE {})
<1>1. t \in Running
  BY EndsFinish
<1>2. PICK ok \in BOOLEAN, at \in Nat : Finish(t, ok, at)
  BY EndsFinish
<1>3. /\ Running' = Running \ {t} /\ job'[t] = NoTask
      /\ \A u \in Thread \ {t} : job'[u] = job[u] /\ pc'[u] = pc[u]
      /\ t \in Worker => pc'[t] = "idle"
      /\ t \notin Worker => pc'[t] \in {"waiting", "threw"}
      /\ DOMAIN ready' = DOMAIN ready \union (IF t \in Worker THEN {job[t]} ELSE {})
      /\ t \in Worker => ready'[job[t]] = [ok |-> ok, at |-> at]
  BY <1>1, <1>2, FinishFits
<1> QED BY <1>1, <1>3

LEMMA EndsFits ==
    ASSUME Fits, Next, NEW t \in Thread, Ends(t)
    PROVE  Fits'
<1>1. t \in Running
  BY EndsFinish
<1>2. PICK ok \in BOOLEAN, at \in Nat :
          Finish(t, ok, at) /\ (job[t].part = "left" /\ ok => at \in job[t].lo .. job[t].hi)
  BY EndsFinish
<1>3. /\ job' \in [Thread -> TaskType \union {NoTask}] /\ pc' \in [Thread -> Pc]
      /\ Running' = Running \ {t} /\ job'[t] = NoTask
      /\ \A u \in Thread \ {t} : job'[u] = job[u] /\ pc'[u] = pc[u]
      /\ t \in Worker => pc'[t] = "idle"
      /\ t \notin Worker => pc'[t] \in {"waiting", "threw"}
      /\ DOMAIN ready' = DOMAIN ready \union (IF t \in Worker THEN {job[t]} ELSE {})
      /\ \A c \in DOMAIN ready : (t \in Worker /\ c = job[t]) \/ ready'[c] = ready[c]
      /\ t \in Worker => ready'[job[t]] = [ok |-> ok, at |-> at]
  BY <1>1, <1>2, FinishFits
<1> DEFINE s == job[t].sort
<1>4. s \in Sort /\ job[t] \in TaskType
  BY <1>1, JobFits
<1>5. /\ UNCHANGED <<call, leaf, inflight, got, alive, target, pivot, mid>>
      /\ allowed' = allowed \/ allowed' = [allowed EXCEPT ![s] = @ - 1]
      /\ UNCHANGED <<queue, futures>> \/ SpawnSecond(t)
  BY DEF Ends, SpawnSecond, SortLeaf, ThrowAlone, Throw, PartitionLeftHalf, TakeFromBudget,
         data, counts
<1> DEFINE c == QuicksortTask(s, mid[t], job[t].hi)
<1>6. /\ queue' \in Seq(TaskType) /\ futures' \in [Sort -> Seq(TaskType)]
      /\ \/ InQueue' = InQueue
         \/ InQueue' = InQueue \union {c} /\ InRange(c) /\ c \in TaskType /\ c.sort = s
      /\ \A r \in Sort : r # s => futures'[r] = futures[r]
  <2>1. queue \in Seq(TaskType) /\ futures \in [Sort -> Seq(TaskType)]
    BY DEF Fits, TypeOK
  <2>2. CASE UNCHANGED <<queue, futures>>
    BY <2>1, <2>2 DEF InQueue
  <2>3. CASE SpawnSecond(t)
    <3>1. /\ InRange(c) /\ c \in TaskType /\ c.sort = s
          /\ queue' \in Seq(TaskType) /\ InQueue' = InQueue \union {c}
      BY <2>3, SubmitFits
    <3>2. futures' = [futures EXCEPT ![s] = Append(futures[s], c)]
      BY <2>1, <1>4, <2>3 DEF SpawnSecond
    <3> HIDE DEF c
    <3>3. Append(futures[s], c) \in Seq(TaskType)
      BY <2>1, <1>4, <3>1, AppendItems
    <3> QED BY <2>1, <3>1, <3>2, <3>3
  <2> QED BY <1>5, <2>2, <2>3
<1> HIDE DEF c
<1>7. TypeOK'
  <2>1. allowed' \in [Sort -> Int]
    <3>1. allowed \in [Sort -> Int]
      BY DEF Fits, TypeOK
    <3> QED BY <3>1, <1>4, <1>5
  <2>2. DOMAIN ready' \subseteq TaskType
    BY <1>3, <1>4 DEF Fits, TypeOK
  <2>3. \A d \in DOMAIN ready' : ready'[d] \in [ok : BOOLEAN, at : Nat]
    BY <1>2, <1>3 DEF Fits, TypeOK
  <2>4. arr' \in [Sort -> Seq(Int \X Int)]
    BY ArrStep
  <2> QED BY <1>3, <1>5, <1>6, <2>1, <2>2, <2>3, <2>4 DEF Fits, TypeOK
<1>8. PlacesFit'
  <2> SUFFICES ASSUME NEW u \in Thread PROVE PlaceFits(u)'
    BY DEF PlacesFit
  <2>1. PlaceFits(u)
    BY DEF Fits, PlacesFit
  <2>2. CASE u = t
    BY <2>2, <1>3, ThreadsApart DEF PlaceFits, Busy
  <2>3. CASE u # t
    BY <2>1, <2>3, <1>3, <1>5 DEF PlaceFits, Size, Halfway
  <2> QED BY <2>2, <2>3
<1>9. RangesFit'
  <2>1. \A d \in TaskType : InRange(d)' <=> InRange(d)
    BY InRangeStep
  <2>2. InQueue \subseteq TaskType /\ DOMAIN ready \subseteq TaskType /\ \A u \in Running : job[u] \in TaskType
    BY DEF Fits, TypeOK, InQueue, Running
  <2>3. \A d \in InQueue' : InRange(d)'
    BY <2>1, <2>2, <1>6 DEF Fits, RangesFit
  <2>4. \A u \in Running' : InRange(job[u])'
    <3> SUFFICES ASSUME NEW u \in Running' PROVE InRange(job[u])'
      OBVIOUS
    <3>1. u \in Running /\ job'[u] = job[u] /\ job[u] \in TaskType /\ InRange(job[u])
      BY <2>2, <1>3 DEF Fits, RangesFit, Running
    <3>2. PICK d \in TaskType : d = job[u] /\ d = job'[u] /\ InRange(d)
      BY <3>1
    <3>3. InRange(d)'
      BY <2>1, <3>2
    <3> QED BY <3>2, <3>3 DEF InRange
  <2>5. \A d \in DOMAIN ready' : InRange(d)'
    BY <2>1, <2>2, <1>1, <1>3, <1>4 DEF Fits, RangesFit
  <2>6. \A d \in DOMAIN ready' : d.part = "left" /\ ready'[d].ok => ready'[d].at \in d.lo .. d.hi
    BY <1>2, <1>3 DEF Fits, RangesFit
  <2> QED BY <2>3, <2>4, <2>5, <2>6 DEF RangesFit
<1>10. FreshSorts'
  <2> SUFFICES ASSUME NEW r \in Sort, pc'[r] \in {"idle", "called"}
               PROVE  /\ futures'[r] = <<>> /\ inflight'[r] = 0 /\ got'[r] = 0
                      /\ \A d \in InQueue' : d.sort # r
                      /\ \A u \in Running' : job'[u].sort # r
                      /\ \A d \in DOMAIN ready' : d.sort # r
    BY DEF FreshSorts
  <2>1. pc[r] \in {"idle", "called"}
    BY <1>3, ThreadsApart
  <2>2. s # r
    BY <1>1, <2>1 DEF Fits, FreshSorts
  <2>3. /\ futures[r] = <<>> /\ inflight[r] = 0 /\ got[r] = 0
        /\ \A d \in InQueue : d.sort # r
        /\ \A u \in Running : job[u].sort # r
        /\ \A d \in DOMAIN ready : d.sort # r
    BY <2>1 DEF Fits, FreshSorts
  <2>4. \A d \in InQueue' : d.sort # r
    BY <2>2, <2>3, <1>6
  <2>5. \A u \in Running' : job'[u].sort # r
    BY <2>3, <1>3 DEF Running
  <2>6. \A d \in DOMAIN ready' : d.sort # r
    BY <2>2, <2>3, <1>3
  <2> QED BY <2>2, <2>3, <2>4, <2>5, <2>6, <1>5, <1>6
<1> QED BY <1>5, <1>7, <1>8, <1>9, <1>10, LengthStep DEF Fits, PoolFits

LEMMA HandOutFits ==
    ASSUME Fits, Next, NEW t \in Thread, SubmitLeftHalf(t) \/ SpawnFirst(t)
    PROVE  Fits'
<1> DEFINE s == job[t].sort
<1>1. /\ UNCHANGED <<arr, call, leaf, got, ready, alive, target, job, mid>>
      /\ allowed' = allowed \/ allowed' = [allowed EXCEPT ![s] = @ - 1]
      /\ inflight' = inflight \/ inflight' = [inflight EXCEPT ![s] = @ + 1]
  BY DEF SubmitLeftHalf, SpawnFirst, TakeFromBudget, CountSpawn, data, frames
<1>2. PICK c : \/ SubmitLeftHalf(t) /\ c = LeftTask(s, job[t].lo, Halfway(t), Pivot(t))
               \/ SpawnFirst(t) /\ c = QuicksortTask(s, job[t].lo, mid[t])
  OBVIOUS
<1>3. /\ t \in Running /\ job[t].part = "impl" /\ s \in Sort /\ InRange(c)
      /\ c \in TaskType /\ c.sort = s
      /\ queue' \in Seq(TaskType) /\ InQueue' = InQueue \union {c}
  BY <1>2, SubmitFits
<1>4. Running' = Running /\ \A d : InRange(d)' <=> InRange(d)
  BY <1>1 DEF Running, InRange
<1>5. futures' \in [Sort -> Seq(TaskType)] /\ \A r \in Sort \ {s} : futures'[r] = futures[r]
  <2>1. futures \in [Sort -> Seq(TaskType)]
    BY DEF Fits, TypeOK
  <2>2. CASE UNCHANGED futures
    BY <2>1, <2>2
  <2>3. CASE SpawnFirst(t) /\ c = QuicksortTask(s, job[t].lo, mid[t])
    <3>1. futures' = [futures EXCEPT ![s] = Append(futures[s], c)]
      BY <2>1, <2>3, <1>3 DEF SpawnFirst
    <3>2. Append(futures[s], c) \in Seq(TaskType)
      BY <2>1, <1>3, AppendItems
    <3> QED BY <2>1, <3>1, <3>2
  <2> QED BY <1>2, <2>2, <2>3 DEF SubmitLeftHalf
<1>6. /\ pivot' \in [Thread -> Int] /\ pc' \in [Thread -> Pc]
      /\ pc[t] \in {"entered", "split"} /\ pc'[t] \in {"right", "spawning"}
      /\ pc'[t] = "right" => Size(t) >= MinParallel
      /\ pc'[t] = "spawning" => pc[t] = "split"
      /\ \A u \in Thread \ {t} : pc'[u] = pc[u]
  <2>1. pivot \in [Thread -> Int] /\ pc \in [Thread -> Pc]
    BY DEF Fits, TypeOK
  <2>2. CASE SubmitLeftHalf(t) /\ c = LeftTask(s, job[t].lo, Halfway(t), Pivot(t))
    <3>1. c.pivot \in Int /\ c.pivot = Pivot(t)
      BY <2>2, <1>3 DEF TaskType, LeftTask
    <3> QED BY <2>1, <2>2, <3>1 DEF SubmitLeftHalf, MustPartition, MayPartitionInParallel, Goto, Pc
  <2>3. CASE SpawnFirst(t)
    BY <2>1, <2>3 DEF SpawnFirst, Goto, Pc, frames
  <2> QED BY <1>2, <2>2, <2>3
<1>7. TypeOK'
  <2>1. allowed' \in [Sort -> Int] /\ inflight' \in [Sort -> Int]
    <3>1. allowed \in [Sort -> Int] /\ inflight \in [Sort -> Int]
      BY DEF Fits, TypeOK
    <3> QED BY <3>1, <1>1, <1>3
  <2> QED BY <2>1, <1>1, <1>3, <1>5, <1>6 DEF Fits, TypeOK
<1>8. PlacesFit'
  <2> SUFFICES ASSUME NEW u \in Thread PROVE PlaceFits(u)'
    BY DEF PlacesFit
  <2>1. PlaceFits(u)
    BY DEF Fits, PlacesFit
  <2>2. CASE u = t
    BY <2>1, <2>2, <1>1, <1>3, <1>4, <1>6 DEF PlaceFits, Busy, Size
  <2>3. CASE u # t
    BY <2>1, <2>3, <1>1, <1>4, <1>6 DEF PlaceFits, Size, Halfway
  <2> QED BY <2>2, <2>3
<1>9. RangesFit'
  BY <1>1, <1>3, <1>4 DEF Fits, RangesFit, InRange
<1>10. FreshSorts'
  <2> SUFFICES ASSUME NEW r \in Sort, pc'[r] \in {"idle", "called"}
               PROVE  /\ futures'[r] = <<>> /\ inflight'[r] = 0 /\ got[r] = 0
                      /\ \A d \in InQueue' : d.sort # r
                      /\ \A u \in Running : job[u].sort # r
                      /\ \A d \in DOMAIN ready : d.sort # r
    BY <1>1, <1>4 DEF FreshSorts
  <2>1. pc[r] \in {"idle", "called"}
    BY <1>6, ThreadsApart
  <2>2. s # r
    BY <1>3, <2>1 DEF Fits, FreshSorts
  <2>3. /\ futures[r] = <<>> /\ inflight[r] = 0 /\ got[r] = 0
        /\ \A d \in InQueue : d.sort # r
        /\ \A u \in Running : job[u].sort # r
        /\ \A d \in DOMAIN ready : d.sort # r
    BY <2>1 DEF Fits, FreshSorts
  <2>4. inflight'[r] = inflight[r]
    BY <2>2, <1>1, <1>3 DEF Fits, TypeOK
  <2> QED BY <2>2, <2>3, <2>4, <1>3, <1>5
<1> QED BY <1>1, <1>7, <1>8, <1>9, <1>10, LengthStep DEF Fits, PoolFits

LEMMA MergeFits ==
    ASSUME Fits, Next, NEW t \in Thread, MergeHalves(t)
    PROVE  Fits'
<1> DEFINE x == ready[LeftHalf(t)].at
           m == x + (mid[t] - Halfway(t))
<1>1. /\ UNCHANGED <<call, allowed, leaf, inflight, futures, got, queue, alive, target, job, pivot>>
      /\ pc[t] = "joining"
      /\ mid' = [mid EXCEPT ![t] = m]
      /\ pc' = [pc EXCEPT ![t] = IF m \in {job[t].lo, job[t].hi} THEN "leaf" ELSE "split"]
      /\ ready' = [c \in DOMAIN ready \ {LeftHalf(t)} |-> ready[c]]
  BY DEF MergeHalves, AfterPartition, Goto, counts
<1>2. /\ t \in Running /\ PlaceFits(t) /\ job[t].lo \in Nat /\ job[t].hi \in Nat
      /\ job[t].lo < job[t].hi
      /\ pc \in [Thread -> Pc] /\ mid \in [Thread -> Nat]
  BY <1>1, SwapFits, JobFits DEF Fits, PlacesFit, TypeOK
<1>3. m \in job[t].lo .. job[t].hi
  <2>1. /\ x \in job[t].lo .. Halfway(t) /\ mid[t] \in Halfway(t) .. job[t].hi
        /\ Halfway(t) \in job[t].lo + 1 .. job[t].hi
    BY SwapFits
  <2> HIDE DEF x
  <2> QED BY <2>1, <1>2
<1> HIDE DEF m, x
<1>4. /\ pc' \in [Thread -> Pc] /\ mid' \in [Thread -> Nat]
      /\ pc'[t] \in {"leaf", "split"}
      /\ pc'[t] = "split" => job[t].lo < mid'[t] /\ mid'[t] < job[t].hi
      /\ \A u \in Thread \ {t} : pc'[u] = pc[u] /\ mid'[u] = mid[u]
  BY <1>1, <1>2, <1>3 DEF Pc
<1>5. /\ DOMAIN ready' \subseteq DOMAIN ready
      /\ \A c \in DOMAIN ready' : ready'[c] = ready[c]
  BY <1>1
<1>6. TypeOK'
  BY <1>1, <1>4, <1>5, ArrStep DEF Fits, TypeOK
<1>7. InQueue' = InQueue /\ Running' = Running
  BY <1>1 DEF InQueue, Running
<1>8. PlacesFit'
  <2> SUFFICES ASSUME NEW u \in Thread PROVE PlaceFits(u)'
    BY DEF PlacesFit
  <2>1. PlaceFits(u)
    BY DEF Fits, PlacesFit
  <2>2. CASE u = t
    BY <2>1, <2>2, <1>1, <1>2, <1>4, <1>7 DEF PlaceFits, Busy
  <2>3. CASE u # t
    BY <2>1, <2>3, <1>1, <1>4, <1>7 DEF PlaceFits, Size, Halfway
  <2> QED BY <2>2, <2>3
<1>9. RangesFit'
  <2>1. \A c \in TaskType : InRange(c)' <=> InRange(c)
    BY InRangeStep
  <2>2. InQueue \subseteq TaskType /\ DOMAIN ready \subseteq TaskType /\ \A u \in Running : job[u] \in TaskType
    BY DEF Fits, TypeOK, InQueue, Running
  <2>3. \A c \in InQueue' \union DOMAIN ready' : InRange(c)'
    BY <2>1, <2>2, <1>5, <1>7 DEF Fits, RangesFit
  <2>4. \A u \in Running' : InRange(job[u])'
    BY <2>1, <2>2, <1>1, <1>7 DEF Fits, RangesFit
  <2> QED BY <2>3, <2>4, <1>5 DEF Fits, RangesFit
<1>10. FreshSorts'
  <2> SUFFICES ASSUME NEW r \in Sort, pc'[r] \in {"idle", "called"} PROVE pc[r] \in {"idle", "called"}
    BY <1>1, <1>5, <1>7 DEF Fits, FreshSorts
  <2> QED BY <1>4, ThreadsApart
<1> QED BY <1>1, <1>6, <1>8, <1>9, <1>10, LengthStep DEF Fits, PoolFits

LEMMA TakeFits ==
    ASSUME Fits, NEW w \in Worker, TakeTask(w)
    PROVE  /\ UNCHANGED <<arr, call, allowed, leaf, inflight, futures, got, ready, alive, target, pivot, mid>>
           /\ w \in Thread /\ w \notin Running /\ w \notin Sort /\ pc[w] = "idle"
           /\ queue # <<>> /\ queue' = Tail(queue) /\ queue' \in Seq(TaskType)
           /\ job'[w] = Head(queue) /\ Head(queue) \in InQueue
           /\ Head(queue) \in TaskType /\ Head(queue) # NoTask
           /\ InQueue = InQueue' \union {job'[w]} /\ Running' = Running \union {w}
           /\ pc'[w] = (IF job'[w].part = "impl" THEN "entered" ELSE "left")
           /\ job' \in [Thread -> TaskType \union {NoTask}] /\ pc' \in [Thread -> Pc]
           /\ \A u \in Thread \ {w} : job'[u] = job[u] /\ pc'[u] = pc[u]
<1>1. /\ UNCHANGED <<arr, call, allowed, leaf, inflight, futures, got, ready, alive, target, pivot, mid>>
      /\ pc[w] = "idle" /\ queue # <<>> /\ queue' = Tail(queue)
      /\ job' = [job EXCEPT ![w] = Head(queue)]
      /\ pc' = [pc EXCEPT ![w] = IF Head(queue).part = "impl" THEN "entered" ELSE "left"]
  BY DEF TakeTask, data, counts, Goto
<1>2. /\ queue \in Seq(TaskType) /\ pc \in [Thread -> Pc]
      /\ job \in [Thread -> TaskType \union {NoTask}]
      /\ w \in Thread /\ w \notin Sort
  BY ThreadsApart DEF Fits, TypeOK
<1>3. w \notin Running
  BY <1>1, <1>2 DEF Fits, PlacesFit, PlaceFits, Busy
<1>4. /\ Head(queue) \in TaskType /\ Tail(queue) \in Seq(TaskType)
      /\ InQueue = {Tail(queue)[i] : i \in DOMAIN Tail(queue)} \union {Head(queue)}
  BY <1>1, <1>2, TailItems DEF InQueue
<1>5. InQueue' = {Tail(queue)[i] : i \in DOMAIN Tail(queue)}
  BY <1>1 DEF InQueue
<1>6. Head(queue) # NoTask
  BY <1>4, NoTaskAssumption
<1>7. /\ job'[w] = Head(queue) /\ pc'[w] = (IF job'[w].part = "impl" THEN "entered" ELSE "left")
      /\ \A u \in Thread \ {w} : job'[u] = job[u] /\ pc'[u] = pc[u]
  BY <1>1, <1>2
<1>8. job' \in [Thread -> TaskType \union {NoTask}] /\ pc' \in [Thread -> Pc]
  BY <1>1, <1>2, <1>4 DEF Pc
<1>9. Running' = Running \union {w}
  BY <1>2, <1>6, <1>7 DEF Running
<1> QED BY <1>1, <1>2, <1>3, <1>4, <1>5, <1>6, <1>7, <1>8, <1>9

LEMMA TakeTaskFits == ASSUME Fits, Next, NEW w \in Worker, TakeTask(w) PROVE Fits'
<1>1. /\ UNCHANGED <<arr, call, allowed, leaf, inflight, futures, got, ready, alive, target, pivot, mid>>
      /\ w \in Thread /\ w \notin Running /\ w \notin Sort
      /\ queue' \in Seq(TaskType)
      /\ job'[w] \in TaskType /\ job'[w] \in InQueue
      /\ InQueue = InQueue' \union {job'[w]} /\ Running' = Running \union {w}
      /\ pc'[w] = (IF job'[w].part = "impl" THEN "entered" ELSE "left")
      /\ job' \in [Thread -> TaskType \union {NoTask}] /\ pc' \in [Thread -> Pc]
      /\ \A u \in Thread \ {w} : job'[u] = job[u] /\ pc'[u] = pc[u]
  BY TakeFits
<1>2. TypeOK'
  BY <1>1 DEF Fits, TypeOK
<1>3. PlacesFit'
  <2> SUFFICES ASSUME NEW u \in Thread PROVE PlaceFits(u)'
    BY DEF PlacesFit
  <2>1. PlaceFits(u)
    BY DEF Fits, PlacesFit
  <2>2. CASE u = w
    <3>1. job'[w].part \in {"impl", "left"}
      BY <1>1 DEF TaskType
    <3> QED BY <2>2, <3>1, <1>1 DEF PlaceFits, Busy
  <2>3. CASE u # w
    BY <2>1, <2>3, <1>1 DEF PlaceFits, Size, Halfway
  <2> QED BY <2>2, <2>3
<1>4. RangesFit'
  <2>1. \A c : InRange(c)' <=> InRange(c)
    BY <1>1 DEF InRange
  <2>2. \A u \in Running' : InRange(job'[u])
    BY <1>1 DEF Fits, RangesFit, Running
  <2>3. \A u \in Running' : InRange(job[u])'
    BY <2>2, <1>1 DEF InRange
  <2> QED BY <2>1, <2>3, <1>1 DEF Fits, RangesFit
<1>5. FreshSorts'
  <2> SUFFICES ASSUME NEW r \in Sort, pc'[r] \in {"idle", "called"}
               PROVE  /\ pc[r] \in {"idle", "called"}
                      /\ \A u \in Running' : job'[u].sort # r
    BY <1>1 DEF Fits, FreshSorts
  <2>1. pc[r] \in {"idle", "called"}
    BY <1>1, ThreadsApart
  <2> QED BY <2>1, <1>1 DEF Fits, FreshSorts, Running
<1> QED BY <1>1, <1>2, <1>3, <1>4, <1>5, LengthStep DEF Fits, PoolFits

LEMMA PoolStepFits == ASSUME Fits, Resize \/ Restart PROVE Fits'
<1>1. UNCHANGED <<arr, call, allowed, leaf, inflight, futures, got, queue, ready, pc, job, pivot, mid>>
  BY DEF Resize, Contract, Expand, Restart, data, counts, frames
<1>2. alive \subseteq Worker /\ target \in Sizes \union {0} /\ alive # {}
      /\ Sizes \subseteq Nat \ {0} /\ Cardinality(alive) \in Nat
  <2>1. alive \subseteq Worker /\ target \in Sizes \union {0} /\ alive # {}
    BY DEF Fits, TypeOK, PoolFits
  <2>2. IsFiniteSet(alive)
    BY <2>1, SortAssumption, FS_Subset DEF SortAssumption
  <2> QED BY <2>1, <2>2, FS_CardinalityType, SortAssumption DEF SortAssumption
<1>3. alive' \subseteq Worker /\ target' \in Sizes \union {0} /\ alive' # {}
  <2>1. CASE Resize
    <3>1. PICK n \in Sizes : Contract(n) \/ Expand(n)
      BY <2>1 DEF Resize
    <3> QED BY <3>1, <1>2 DEF Contract, Expand
  <2>2. CASE Restart
    <3>1. /\ alive' \in SUBSET alive /\ Cardinality(alive') = target /\ target # 0 /\ target' = 0
      BY <2>2 DEF Restart
    <3> QED BY <3>1, <1>2, FS_EmptySet
  <2> QED BY <2>1, <2>2
<1> QED BY <1>1, <1>3 DEF Fits, TypeOK, PlacesFit, PlaceFits, Size, Halfway, Running, RangesFit,
           InRange, FreshSorts, InQueue, PoolFits, LengthsKept

LEMMA StepFits == ASSUME Fits, [Next]_vars PROVE Fits'
<1>1. CASE UNCHANGED vars
  BY <1>1 DEF vars, Fits, TypeOK, PlacesFit, PlaceFits, Size, Halfway, Running, RangesFit,
              InRange, FreshSorts, InQueue, PoolFits, LengthsKept
<1>2. ASSUME Next, NEW s \in Sort, CallerStep(s) \/ SpuriousWake(s) PROVE Fits'
  BY <1>2, CallerFits, SetUpFits DEF CallerStep
<1>3. ASSUME Next, NEW t \in Thread, QuicksortStep(t) \/ PartitionLeftHalf(t) PROVE Fits'
  BY <1>3, LocalFits, HandOutFits, MergeFits, EndsFits DEF QuicksortStep, Ends
<1>4. ASSUME Next, NEW w \in Worker, WorkerStep(w) PROVE Fits'
  BY <1>3, <1>4, TakeTaskFits, ThreadsApart DEF WorkerStep
<1>5. CASE Resize \/ Restart
  BY <1>5, PoolStepFits
<1> QED BY <1>1, <1>2, <1>3, <1>4, <1>5 DEF Next

(***************************************************************************)
(* Every variable keeps its type: in particular the part a call works on   *)
(* is never empty, neither a distance nor the size of the pool is ever 0   *)
(* where it is divided by, and a place holds what its code needs.          *)
(***************************************************************************)
LEMMA AlwaysFits == Spec => []Fits
<1>1. Init => Fits
  BY InitFits
<1>2. Fits /\ [Next]_vars => Fits'
  BY StepFits
<1> QED BY <1>1, <1>2, PTL DEF Spec

\* Every variable keeps its type: nothing but calls and left halves is queued, run or waited
\* for, every position they hold is a natural number, and the pool has none but its workers.
THEOREM TypeCorrect == Spec => []TypeOK
<1>1. Fits => TypeOK
  BY DEF Fits
<1> QED BY <1>1, AlwaysFits, PTL

-----------------------------------------------------------------------------
(* No two tasks are for the same part of a range.                          *)

LEMMA PartsFit ==
    ASSUME Fits
    PROVE  /\ \A c \in Live \union DOMAIN ready \union Over :
                 /\ c \in TaskType /\ c # NoTask
                 /\ c.sort \in Sort /\ c.lo \in Nat /\ c.hi \in Nat /\ c.lo < c.hi
                 /\ c.part \in {"impl", "left"}
           /\ \A c \in Over : c.part = "impl"
<1>1. \A c \in TaskType : /\ c # NoTask /\ c.sort \in Sort /\ c.lo \in Nat /\ c.hi \in Nat
                          /\ c.part \in {"impl", "left"}
  BY NoTaskAssumption DEF TaskType
<1>2. \A c \in DOMAIN ready : c \in TaskType /\ c.lo < c.hi
  BY DEF Fits, TypeOK, RangesFit, InRange
<1>3. \A c \in InQueue : c \in TaskType /\ c.lo < c.hi
  <2>1. InQueue \subseteq TaskType
    BY DEF Fits, TypeOK, InQueue
  <2>2. \A c \in InQueue : c.lo < c.hi
    BY DEF Fits, RangesFit, InRange
  <2> QED BY <2>1, <2>2
<1>4. ASSUME NEW t \in Running
      PROVE  /\ Call(t) \in TaskType /\ Call(t).lo < Call(t).hi
             /\ job[t] \in TaskType /\ job[t].lo < job[t].hi
             /\ pc[t] = "spawning" => job[t].part = "impl"
  <2>1. /\ job[t] \in TaskType /\ job[t].lo < job[t].hi /\ job[t].sort \in Sort
        /\ job[t].part \in {"impl", "left"} /\ job[t].hi \in Nat
        /\ t \in Thread
    BY JobFits DEF Running
  <2>2. PlaceFits(t) /\ mid[t] \in Nat
    BY <2>1 DEF Fits, PlacesFit, TypeOK
  <2>3. pc[t] = "spawning" => job[t].part = "impl" /\ mid[t] < job[t].hi
    BY <2>1, <2>2 DEF PlaceFits
  <2>4. CASE pc[t] = "spawning"
    <3>1. Call(t) = [sort |-> job[t].sort, part |-> "impl", lo |-> mid[t], hi |-> job[t].hi, pivot |-> 0]
      BY <2>4 DEF Call, QuicksortTask
    <3> QED BY <2>1, <2>2, <2>3, <2>4, <3>1 DEF TaskType
  <2>5. CASE pc[t] # "spawning"
    BY <2>1, <2>5 DEF Call
  <2> QED BY <2>4, <2>5
<1>5. \A c \in Live : c \in TaskType /\ c.lo < c.hi
  BY <1>3, <1>4 DEF Live
<1>6. \A c \in Over : c \in TaskType /\ c.lo < c.hi /\ c.part = "impl"
  BY <1>2, <1>4 DEF Over
<1> QED BY <1>1, <1>2, <1>5, <1>6

\* A left half is given back to the call that covers it, and to no other.
LEMMA OneOwner ==
    ASSUME Fits, Owned, NEW t \in Running, pc[t] # "spawning", NEW u \in Joiners, job[u] = job[t]
    PROVE  u = t
<1>1. Call(t) = job[t] /\ Call(u) = job[u] /\ u \in Running
  BY DEF Call, Joiners
<1> QED BY <1>1 DEF Owned, OnePlace

LEMMA QuietOwned ==
    ASSUME Fits, Owned, UNCHANGED <<queue, job, pivot>>, DOMAIN ready' = DOMAIN ready,
           \A u \in Running :
               /\ pc'[u] = "spawning" <=> pc[u] = "spawning"
               /\ pc'[u] \in {"right", "joining"} <=> pc[u] \in {"right", "joining"}
               /\ pc[u] = "spawning" => mid'[u] = mid[u]
    PROVE  Owned'
<1>1. Running' = Running /\ InQueue' = InQueue
  BY DEF Running, InQueue
<1>2. \A u \in Running : Call(u)' = Call(u)
  BY DEF Call
<1>3. Live' = Live
  BY <1>1, <1>2 DEF Live
<1>4. Joiners' = Joiners /\ \A u \in Joiners : LeftHalf(u)' = LeftHalf(u)
  BY <1>1 DEF Joiners, LeftHalf, Halfway, Size
<1>5. Over' = Over /\ Halves' = Halves
  BY <1>1, <1>3 DEF Over, Halves
<1>6. OnePlace'
  BY <1>1, <1>2 DEF Owned, OnePlace
<1>7. CallsApart' /\ OverApart' /\ NotReady'
  BY <1>3, <1>5 DEF Owned, CallsApart, OverApart, NotReady
<1>8. HalvesApart'
  BY <1>3, <1>4, <1>5 DEF Owned, HalvesApart
<1> QED BY <1>6, <1>7, <1>8 DEF Owned

LEMMA SetUpOwned == ASSUME Fits, Owned, NEW s \in Sort, SetUp(s) PROVE Owned'
<1> DEFINE root == QuicksortTask(s, 1, Len(arr[s]) + 1)
<1>1. /\ UNCHANGED <<queue, ready, pivot, mid>> /\ pc[s] = "called"
      /\ pc' = [pc EXCEPT ![s] = "entered"] /\ job' = [job EXCEPT ![s] = root]
      /\ root.sort = s /\ root.part = "impl"
  BY DEF SetUp, Goto, pool, QuicksortTask
<1>2. /\ s \in Thread /\ s \notin Running
      /\ root # NoTask
  <2>1. s \in Thread /\ Len(arr[s]) \in Nat
    BY ThreadsApart DEF Fits, TypeOK
  <2>2. root \in TaskType
    BY <2>1 DEF TaskType, QuicksortTask
  <2>3. s \notin Running
    BY <1>1, <2>1 DEF Fits, PlacesFit, PlaceFits, Busy
  <2> QED BY <2>1, <2>2, <2>3, NoTaskAssumption
<1> HIDE DEF root
<1>3. /\ Running' = Running \union {s} /\ InQueue' = InQueue
      /\ job'[s] = root /\ pc'[s] = "entered"
      /\ \A u \in Running : job'[u] = job[u] /\ pc'[u] = pc[u] /\ u # s
  BY <1>1, <1>2 DEF Running, InQueue, Fits, TypeOK
<1>4. Call(s)' = root /\ \A u \in Running : Call(u)' = Call(u)
  BY <1>1, <1>3 DEF Call
<1>5. Live' = Live \union {root}
  BY <1>3, <1>4 DEF Live
<1>6. Joiners' = Joiners /\ \A u \in Joiners : LeftHalf(u)' = LeftHalf(u) /\ job'[u] = job[u]
  BY <1>1, <1>3 DEF Joiners, LeftHalf, Halfway, Size
<1>7. Over' = Over /\ Halves' = Halves
  BY <1>1, <1>3, <1>5 DEF Over, Halves
<1>8. /\ \A c \in InQueue : c.sort # s
      /\ \A u \in Running : job[u].sort # s
      /\ \A c \in DOMAIN ready : c.sort # s
  BY <1>1 DEF Fits, FreshSorts
<1>9. \A u \in Running : Call(u).sort # s
  BY <1>8 DEF Call, QuicksortTask
<1>10. \A c \in Live \union Halves \union Over : c.sort # s
  BY <1>8, <1>9 DEF Live, Halves, Over
<1>11. OnePlace'
  BY <1>1, <1>3, <1>4, <1>8, <1>9 DEF Owned, OnePlace
<1>12. CallsApart' /\ OverApart' /\ NotReady'
  BY <1>1, <1>5, <1>7, <1>8, <1>10 DEF Owned, CallsApart, OverApart, NotReady
<1>13. HalvesApart'
  BY <1>1, <1>5, <1>6, <1>7, <1>10 DEF Owned, HalvesApart
<1> QED BY <1>11, <1>12, <1>13 DEF Owned

LEMMA TakeTaskOwned == ASSUME Fits, Owned, NEW w \in Worker, TakeTask(w) PROVE Owned'
<1>1. /\ UNCHANGED <<ready, pivot, mid>>
      /\ w \in Thread /\ w \notin Running /\ pc[w] = "idle"
      /\ queue # <<>> /\ queue' = Tail(queue) /\ queue \in Seq(TaskType)
      /\ job'[w] = Head(queue)
      /\ InQueue = InQueue' \union {job'[w]} /\ Running' = Running \union {w}
      /\ pc'[w] = (IF job'[w].part = "impl" THEN "entered" ELSE "left")
      /\ \A u \in Running : job'[u] = job[u] /\ pc'[u] = pc[u] /\ u # w
  BY TakeFits DEF Fits, TypeOK, Running
<1>2. Call(w)' = job'[w] /\ \A u \in Running : Call(u)' = Call(u)
  BY <1>1 DEF Call
<1>3. Live' = Live
  BY <1>1, <1>2 DEF Live
<1>4. Joiners' = Joiners /\ \A u \in Joiners : LeftHalf(u)' = LeftHalf(u) /\ job'[u] = job[u]
  BY <1>1 DEF Joiners, LeftHalf, Halfway, Size
<1>5. Over' = Over /\ Halves' = Halves
  BY <1>1, <1>3 DEF Over, Halves
<1>6. OnePlace'
  <2>1. /\ DOMAIN queue = 1 .. Len(queue) /\ DOMAIN queue' = 1 .. Len(queue) - 1 /\ Len(queue) \in Nat \ {0}
        /\ queue[1] = job'[w] /\ \A i \in 1 .. Len(queue) - 1 : queue'[i] = queue[i + 1]
    BY <1>1, TailItems
  <2>2. \A i, j \in DOMAIN queue' : queue'[i] = queue'[j] => i = j
    <3> SUFFICES ASSUME NEW i \in DOMAIN queue', NEW j \in DOMAIN queue', queue'[i] = queue'[j]
                 PROVE  i = j
      OBVIOUS
    <3>1. i + 1 \in DOMAIN queue /\ j + 1 \in DOMAIN queue /\ queue[i + 1] = queue[j + 1]
      BY <2>1
    <3>2. i + 1 = j + 1
      BY <3>1 DEF Owned, OnePlace
    <3> QED BY <2>1, <3>2
  <2>3. job'[w] \notin InQueue'
    <3> SUFFICES ASSUME NEW i \in DOMAIN queue', queue'[i] = queue[1] PROVE FALSE
      BY <2>1 DEF InQueue
    <3>1. i + 1 \in DOMAIN queue /\ 1 \in DOMAIN queue /\ queue[i + 1] = queue[1]
      BY <2>1
    <3>2. i + 1 = 1
      BY <3>1 DEF Owned, OnePlace
    <3> QED BY <2>1, <3>2
  <2>4. \A u \in Running : Call(u) \notin InQueue
    BY DEF Owned, OnePlace
  <2>5. job'[w] \in InQueue
    BY <1>1
  <2> QED BY <2>2, <2>3, <2>4, <2>5, <1>1, <1>2 DEF Owned, OnePlace
<1>7. CallsApart' /\ OverApart' /\ NotReady'
  BY <1>1, <1>3, <1>5 DEF Owned, CallsApart, OverApart, NotReady
<1>8. HalvesApart'
  BY <1>3, <1>4, <1>5 DEF Owned, HalvesApart
<1> QED BY <1>6, <1>7, <1>8 DEF Owned

LEMMA SubmitLeftOwned ==
    ASSUME Fits, Next, Owned, NEW t \in Thread, SubmitLeftHalf(t) PROVE Owned'
<1> DEFINE c == LeftTask(job[t].sort, job[t].lo, Halfway(t), Pivot(t))
<1>1. /\ UNCHANGED <<ready, job, mid>> /\ pc[t] = "entered"
      /\ pc' = [pc EXCEPT ![t] = "right"] /\ pivot' = [pivot EXCEPT ![t] = Pivot(t)]
      /\ queue' = Append(queue, c)
      /\ c.sort = job[t].sort /\ c.part = "left" /\ c.lo = job[t].lo /\ c.hi = Halfway(t)
  BY DEF SubmitLeftHalf, MustPartition, Goto, LeftTask
<1>2. /\ t \in Running /\ job[t].part = "impl" /\ InRange(c) /\ c \in TaskType
      /\ InQueue' = InQueue \union {c} /\ job[t].lo <= c.lo /\ c.hi <= job[t].hi
  BY SubmitFits
<1>3. c.lo \in Nat /\ c.hi \in Nat /\ c.lo < c.hi
  BY <1>2 DEF TaskType, InRange
<1>4. LeftHalf(t)' = c
  BY <1>1, <1>2 DEF LeftHalf, Halfway, Size, Fits, TypeOK
<1> HIDE DEF c
<1>5. Running' = Running /\ \A u \in Running : Call(u)' = Call(u)
  BY <1>1 DEF Running, Call, Fits, TypeOK
<1>6. Live' = Live \union {c}
  BY <1>2, <1>5 DEF Live
<1>7. /\ Joiners' = Joiners \union {t} /\ t \notin Joiners
      /\ \A u \in Joiners : LeftHalf(u)' = LeftHalf(u)
  BY <1>1, <1>2, <1>5 DEF Joiners, LeftHalf, Halfway, Size, Fits, TypeOK
<1>8. Over' = Over /\ Halves' = Halves \union {c}
  BY <1>1, <1>5, <1>6 DEF Over, Halves, Fits, TypeOK
<1>9. job[t] \in Live /\ Call(t) = job[t] /\ job[t].lo \in Nat /\ job[t].hi \in Nat
  BY <1>1, <1>2, JobFits DEF Live, Call
<1>10. \A h \in Halves : h.sort = c.sort => Apart(h, job[t])
  <2> SUFFICES ASSUME NEW h \in Halves, h.sort = c.sort, NEW u \in Joiners, job[t] = job[u] PROVE FALSE
    BY <1>1, <1>2, <1>9 DEF Owned, HalvesApart
  <2> QED BY <1>1, <1>2, <1>7, OneOwner
<1>11. /\ \A h \in Halves : h.lo \in Nat /\ h.hi \in Nat /\ h.lo < h.hi
       /\ \A d \in Live : d.lo \in Nat /\ d.hi \in Nat /\ d.lo < d.hi
       /\ \A d \in Live : d \in Halves <=> d.part = "left"
  BY PartsFit DEF Halves
<1>12. \A h \in Halves : h.sort = c.sort => Apart(h, c) /\ Apart(c, h) /\ h # c
  BY <1>2, <1>3, <1>9, <1>10, <1>11 DEF Apart
<1>13. \A d \in Live : d.sort = c.sort /\ d.part = "impl" => Apart(c, d) \/ d = job[t]
  BY <1>1, <1>2, <1>3, <1>9, <1>11 DEF Owned, CallsApart, Apart
<1>14. c \notin Live /\ c \notin Halves
  BY <1>1, <1>11, <1>12 DEF Halves
<1>15. OnePlace'
  <2>1. /\ DOMAIN queue' = DOMAIN queue \union {Len(queue) + 1}
        /\ \A i \in DOMAIN queue : queue'[i] = queue[i]
        /\ queue'[Len(queue) + 1] = c
    BY <1>1, <1>2, AppendItems DEF Fits, TypeOK
  <2>2. \A i \in DOMAIN queue : queue[i] # c
    BY <1>14 DEF Live, InQueue
  <2>3. \A u \in Running : Call(u) # c
    BY <1>14 DEF Live
  <2> QED BY <2>1, <2>2, <2>3, <1>2, <1>5 DEF Owned, OnePlace
<1>16. CallsApart' /\ OverApart'
  BY <1>1, <1>6, <1>8 DEF Owned, CallsApart, OverApart
<1>17. NotReady'
  BY <1>1, <1>6, <1>14 DEF Owned, NotReady, Halves
<1>18. HalvesApart'
  <2>1. \A h \in Halves', d \in Live' : h.sort = d.sort /\ d.part = "impl" =>
          Apart(h, d) \/ \E u \in Joiners' : d = job'[u] /\ h = LeftHalf(u)'
    BY <1>1, <1>4, <1>6, <1>7, <1>8, <1>13 DEF Owned, HalvesApart
  <2>2. \A h \in Halves', g \in Live' : h.sort = g.sort /\ g.part = "left" /\ h # g => Apart(h, g)
    BY <1>6, <1>8, <1>11, <1>12 DEF Owned, HalvesApart
  <2> QED BY <2>1, <2>2 DEF HalvesApart
<1> QED BY <1>15, <1>16, <1>17, <1>18 DEF Owned

LEMMA MergeOwned ==
    ASSUME Fits, Next, Owned, NEW t \in Thread, MergeHalves(t) PROVE Owned'
<1>1. /\ UNCHANGED <<queue, job, pivot>> /\ t \in Running /\ LeftHalf(t) \in DOMAIN ready
      /\ pc[t] = "joining" /\ pc'[t] \in {"leaf", "split"}
      /\ \A u \in Thread \ {t} : pc'[u] = pc[u] /\ mid'[u] = mid[u]
      /\ DOMAIN ready' = DOMAIN ready \ {LeftHalf(t)}
  BY SwapFits DEF MergeHalves, AfterPartition, Goto, counts, Fits, TypeOK
<1>2. Running' = Running /\ InQueue' = InQueue /\ \A u \in Running : Call(u)' = Call(u)
  BY <1>1 DEF Running, InQueue, Call
<1>3. Live' = Live
  BY <1>2 DEF Live
<1>4. /\ t \in Joiners /\ Joiners' = Joiners \ {t}
      /\ \A u \in Joiners : LeftHalf(u)' = LeftHalf(u)
  BY <1>1, <1>2 DEF Joiners, LeftHalf, Halfway, Size, Running
<1>5. LeftHalf(t).part = "left" /\ LeftHalf(t) \notin Live
  BY <1>1 DEF LeftHalf, LeftTask, Owned, NotReady
<1>6. Over' = Over /\ Halves' = Halves \ {LeftHalf(t)}
  <2>1. {c \in DOMAIN ready' : c.part = "impl"} = {c \in DOMAIN ready : c.part = "impl"}
    BY <1>1, <1>5
  <2>2. {u \in Running' : pc'[u] = "spawning"} = {u \in Running : pc[u] = "spawning"}
    BY <1>1, <1>2 DEF Running
  <2>3. Over' = Over
    BY <2>1, <2>2, <1>1 DEF Over
  <2> QED BY <2>3, <1>1, <1>3, <1>5 DEF Halves
<1>7. OnePlace'
  BY <1>1, <1>2 DEF Owned, OnePlace
<1>8. CallsApart' /\ OverApart' /\ NotReady'
  BY <1>1, <1>3, <1>6 DEF Owned, CallsApart, OverApart, NotReady
<1>9. HalvesApart'
  BY <1>1, <1>3, <1>4, <1>6 DEF Owned, HalvesApart
<1> QED BY <1>7, <1>8, <1>9 DEF Owned

\* The two parts of a call are apart from whatever the call was apart from.
LEMMA SpawnFirstOwned ==
    ASSUME Fits, Next, Owned, NEW t \in Thread, SpawnFirst(t) PROVE Owned'
<1> DEFINE c == QuicksortTask(job[t].sort, job[t].lo, mid[t])
           e == QuicksortTask(job[t].sort, mid[t], job[t].hi)
<1>1. /\ UNCHANGED <<ready, job, mid, pivot>> /\ pc[t] = "split"
      /\ pc' = [pc EXCEPT ![t] = "spawning"] /\ queue' = Append(queue, c)
      /\ c.sort = job[t].sort /\ c.part = "impl" /\ c.lo = job[t].lo /\ c.hi = mid[t]
      /\ e.sort = job[t].sort /\ e.part = "impl" /\ e.lo = mid[t] /\ e.hi = job[t].hi
  BY DEF SpawnFirst, Goto, QuicksortTask, frames
<1>2. /\ t \in Running /\ job[t].part = "impl" /\ c \in TaskType /\ InQueue' = InQueue \union {c}
  BY SubmitFits
<1>3. /\ Call(t) = job[t] /\ Call(t)' = e
      /\ job[t].lo < mid[t] /\ mid[t] < job[t].hi /\ mid[t] \in Nat
      /\ job[t].lo \in Nat /\ job[t].hi \in Nat /\ job[t] \in Live
  BY SMTT(30), <1>1, <1>2, JobFits DEF Call, Fits, TypeOK, PlacesFit, PlaceFits, Live
<1> HIDE DEF c, e
<1>4. Running' = Running /\ \A u \in Running \ {t} : Call(u)' = Call(u) /\ Call(u) # job[t]
  <2>1. \A u \in Running \ {t} : Call(u) # Call(t)
    BY <1>2 DEF Owned, OnePlace
  <2> QED BY <2>1, <1>1, <1>3 DEF Running, Call, Fits, TypeOK
<1>5. Live' \subseteq (Live \ {job[t]}) \union {c, e}
  <2>1. \A d \in InQueue : d # job[t]
    BY <1>2, <1>3 DEF Owned, OnePlace
  <2> QED BY <2>1, <1>2, <1>3, <1>4 DEF Live
<1>6. /\ Joiners' = Joiners /\ t \notin Joiners
      /\ \A u \in Joiners : LeftHalf(u)' = LeftHalf(u)
  BY <1>1, <1>2, <1>4 DEF Joiners, LeftHalf, Halfway, Size, Fits, TypeOK
<1>7. Over' \subseteq Over \union {job[t]}
  BY <1>1, <1>4 DEF Over, Fits, TypeOK
<1>8. Halves' \subseteq Halves
  BY <1>1, <1>5 DEF Halves
<1>9. /\ \A d \in Live \union Halves \union Over : d.lo \in Nat /\ d.hi \in Nat /\ d.lo < d.hi
      /\ \A d \in Live : d.part = "left" => d \in Halves
  BY PartsFit DEF Halves
<1>10. \A d \in Live : d # job[t] /\ d.sort = job[t].sort /\ d.part = "impl" => Apart(d, job[t]) /\ Apart(job[t], d)
  BY <1>2, <1>3 DEF Owned, CallsApart, Apart
<1>11. \A h \in Halves : h.sort = job[t].sort => Apart(h, job[t])
  BY <1>1, <1>2, <1>3, <1>6, OneOwner DEF Owned, HalvesApart
<1>12. /\ \A d \in Live : d # job[t] /\ d.sort = job[t].sort /\ d.part = "impl" =>
            Apart(c, d) /\ Apart(d, c) /\ Apart(e, d) /\ Apart(d, e)
       /\ \A h \in Halves : h.sort = job[t].sort => Apart(h, c) /\ Apart(h, e)
  BY <1>1, <1>3, <1>9, <1>10, <1>11 DEF Apart
<1>13. c \notin Live /\ e \notin Live /\ c # e
  <2>1. c # e /\ c # job[t] /\ e # job[t]
    BY <1>1, <1>3
  <2>2. ~Apart(c, c) /\ ~Apart(e, e)
    BY <1>1, <1>3 DEF Apart
  <2> QED BY <1>1, <1>12, <2>1, <2>2
<1>14. OnePlace'
  <2>1. /\ DOMAIN queue' = DOMAIN queue \union {Len(queue) + 1}
        /\ \A i \in DOMAIN queue : queue'[i] = queue[i]
        /\ queue'[Len(queue) + 1] = c
    BY <1>1, <1>2, AppendItems DEF Fits, TypeOK
  <2>2. \A i \in DOMAIN queue : queue[i] # c /\ queue[i] # e
    BY <1>13 DEF Live, InQueue
  <2>3. \A u \in Running : Call(u) # c /\ Call(u) # e
    BY <1>13 DEF Live
  <2>4. \A i, j \in DOMAIN queue' : queue'[i] = queue'[j] => i = j
    BY <2>1, <2>2 DEF Owned, OnePlace
  <2>5. \A u, v \in Running' : Call(u)' = Call(v)' => u = v
    BY <2>3, <1>3, <1>4 DEF Owned, OnePlace
  <2>6. \A u \in Running' : Call(u)' \notin InQueue'
    BY <2>2, <2>3, <1>2, <1>3, <1>4, <1>13 DEF Owned, OnePlace, InQueue
  <2> QED BY <2>4, <2>5, <2>6 DEF OnePlace
<1>15. CallsApart'
  <2>1. Apart(c, e) /\ Apart(e, c)
    BY <1>1, <1>3 DEF Apart
  <2> QED BY <2>1, <1>1, <1>5, <1>12 DEF Owned, CallsApart
<1>16. HalvesApart'
  <2>1. \A h \in Halves', d \in Live' : h.sort = d.sort /\ d.part = "impl" =>
          Apart(h, d) \/ \E u \in Joiners' : d = job'[u] /\ h = LeftHalf(u)'
    <3> SUFFICES ASSUME NEW h \in Halves', NEW d \in Live', h.sort = d.sort, d.part = "impl"
                 PROVE  Apart(h, d) \/ \E u \in Joiners' : d = job'[u] /\ h = LeftHalf(u)'
      OBVIOUS
    <3>1. CASE d \in {c, e}
      BY <3>1, <1>1, <1>8, <1>12
    <3>2. CASE d \in Live
      BY <3>2, <1>1, <1>6, <1>8 DEF Owned, HalvesApart
    <3> QED BY <3>1, <3>2, <1>5
  <2>2. \A h \in Halves', g \in Live' : h.sort = g.sort /\ g.part = "left" /\ h # g => Apart(h, g)
    BY <1>1, <1>5, <1>8 DEF Owned, HalvesApart
  <2> QED BY <2>1, <2>2 DEF HalvesApart
<1>17. OverApart'
  <2> SUFFICES ASSUME NEW d \in Over', NEW x \in Live', d.sort = x.sort, x.part = "impl"
               PROVE  Apart(x, d) \/ Within(x, d)
    BY DEF OverApart
  <2>1. CASE d = job[t] /\ x \in {c, e}
    BY <2>1, <1>1, <1>3 DEF Within
  <2>2. CASE d = job[t] /\ x \in Live \ {job[t]}
    BY <2>2, <1>10
  <2>3. CASE d \in Over /\ x \in {c, e}
    <3>1. Apart(job[t], d) \/ Within(job[t], d)
      BY <2>3, <1>1, <1>2, <1>3 DEF Owned, OverApart
    <3>2. d.lo \in Nat /\ d.hi \in Nat
      BY <2>3, <1>9
    <3> QED BY SMTT(30), <2>3, <3>1, <3>2, <1>1, <1>3 DEF Apart, Within
  <2>4. CASE d \in Over /\ x \in Live
    BY <2>4 DEF Owned, OverApart
  <2> QED BY <2>1, <2>2, <2>3, <2>4, <1>5, <1>7
<1>18. NotReady'
  <2>1. \A x \in {c, e} : x \notin DOMAIN ready
    <3> SUFFICES ASSUME NEW x \in {c, e}, x \in DOMAIN ready PROVE FALSE
      OBVIOUS
    <3>1. x \in Over
      BY <1>1 DEF Over
    <3>2. Apart(job[t], x) \/ Within(job[t], x)
      BY <3>1, <1>1, <1>2, <1>3 DEF Owned, OverApart
    <3> QED BY <3>2, <1>1, <1>3 DEF Apart, Within
  <2> QED BY <2>1, <1>1, <1>5 DEF Owned, NotReady
<1> QED BY <1>14, <1>15, <1>16, <1>17, <1>18 DEF Owned

LEMMA SpawnSecondOwned ==
    ASSUME Fits, Next, Owned, NEW t \in Thread, SpawnSecond(t) PROVE Owned'
<1> DEFINE e == QuicksortTask(job[t].sort, mid[t], job[t].hi)
<1>1. /\ UNCHANGED <<mid, pivot>> /\ pc[t] = "spawning" /\ queue' = Append(queue, e)
      /\ e.sort = job[t].sort /\ e.part = "impl" /\ e.lo = mid[t] /\ e.hi = job[t].hi
  BY DEF SpawnSecond, QuicksortTask
<1>2. t \in Running /\ job[t].part = "impl" /\ e \in TaskType /\ InQueue' = InQueue \union {e}
  BY SubmitFits
<1>3. Call(t) = e /\ e \in Live /\ job[t] \in Over
  BY <1>1, <1>2 DEF Call, Live, Over
<1>4. /\ Running' = Running \ {t} /\ \A u \in Thread \ {t} : job'[u] = job[u] /\ pc'[u] = pc[u]
      /\ DOMAIN ready \subseteq DOMAIN ready' /\ DOMAIN ready' \subseteq DOMAIN ready \union {job[t]}
      /\ pc'[t] # "spawning"
  BY EndsLeave, ThreadsApart DEF Ends
<1> HIDE DEF e
<1>5. \A u \in Running' : Call(u)' = Call(u) /\ u \in Running /\ u # t
  BY <1>1, <1>4 DEF Call, Running
<1>6. Live' = Live
  BY <1>2, <1>3, <1>4, <1>5 DEF Live
<1>7. /\ Joiners' = Joiners /\ \A u \in Joiners : LeftHalf(u)' = LeftHalf(u) /\ job'[u] = job[u]
  BY <1>1, <1>4 DEF Joiners, LeftHalf, Halfway, Size, Running
<1>8. Over' \subseteq Over /\ Halves' = Halves
  BY <1>2, <1>3, <1>4, <1>6 DEF Over, Halves, Running
<1>9. OnePlace'
  <2>1. /\ DOMAIN queue' = DOMAIN queue \union {Len(queue) + 1}
        /\ \A i \in DOMAIN queue : queue'[i] = queue[i]
        /\ queue'[Len(queue) + 1] = e
    BY <1>1, <1>2, AppendItems DEF Fits, TypeOK
  <2>2. e \notin InQueue /\ \A u \in Running' : Call(u) # e
    BY <1>2, <1>3, <1>5 DEF Owned, OnePlace
  <2>3. \A i \in DOMAIN queue : queue[i] # e
    BY <2>2 DEF InQueue
  <2> QED BY <2>1, <2>2, <2>3, <1>2, <1>4, <1>5 DEF Owned, OnePlace
<1>10. CallsApart' /\ OverApart'
  BY <1>6, <1>8 DEF Owned, CallsApart, OverApart
<1>11. HalvesApart'
  BY <1>6, <1>7, <1>8 DEF Owned, HalvesApart
<1>12. NotReady'
  <2>1. job[t] \notin Live
    <3> SUFFICES ASSUME job[t] \in Live PROVE FALSE
      OBVIOUS
    <3>1. Apart(job[t], job[t]) \/ Within(job[t], job[t])
      BY <1>2, <1>3 DEF Owned, OverApart
    <3>2. job[t].lo \in Nat /\ job[t].hi \in Nat /\ job[t].lo < job[t].hi
      BY <1>2, JobFits DEF Running
    <3> QED BY <3>1, <3>2 DEF Apart, Within
  <2> QED BY <2>1, <1>4, <1>6 DEF Owned, NotReady
<1> QED BY <1>9, <1>10, <1>11, <1>12 DEF Owned

LEMMA LeaveOwned ==
    ASSUME Fits, Next, Owned, NEW t \in Thread,
           SortLeaf(t) \/ ThrowAlone(t) \/ Throw(t) \/ PartitionLeftHalf(t)
    PROVE  Owned'
<1>1. t \in Running
  BY EndsFinish DEF Ends
<1>2. /\ Running' = Running \ {t} /\ \A u \in Thread \ {t} : job'[u] = job[u] /\ pc'[u] = pc[u]
      /\ DOMAIN ready' = DOMAIN ready \union (IF t \in Worker THEN {job[t]} ELSE {})
  BY EndsLeave, ThreadsApart DEF Ends
<1>3. UNCHANGED <<queue, mid, pivot>> /\ pc[t] # "spawning"
  BY DEF SortLeaf, ThrowAlone, MustPartition, Throw, LeftHalfThrew, PartitionLeftHalf
<1>4. InQueue' = InQueue /\ \A u \in Running' : Call(u)' = Call(u) /\ u \in Running /\ u # t
  BY <1>2, <1>3 DEF InQueue, Call, Running
<1>5. Call(t) = job[t] /\ job[t] \in Live
  BY <1>1, <1>3 DEF Call, Live
<1>6. Live' = Live \ {job[t]}
  <2>1. job[t] \notin InQueue /\ \A u \in Running : u # t => Call(u) # job[t]
    BY <1>1, <1>5 DEF Owned, OnePlace
  <2> QED BY <2>1, <1>1, <1>2, <1>4, <1>5 DEF Live
<1>7. /\ Joiners' = Joiners \ {t}
      /\ \A u \in Joiners' : LeftHalf(u)' = LeftHalf(u) /\ job'[u] = job[u]
  BY <1>2, <1>3 DEF Joiners, LeftHalf, Halfway, Size, Running
<1>8. Over' \subseteq Over \union {c \in {job[t]} : c.part = "impl"}
  BY <1>1, <1>2 DEF Over, Running
<1>9. Halves' \subseteq Halves
  BY <1>2, <1>5, <1>6 DEF Halves
<1>10. OnePlace'
  BY <1>3, <1>4 DEF Owned, OnePlace
<1>11. CallsApart'
  BY <1>6 DEF Owned, CallsApart
<1>12. HalvesApart'
  <2>1. \A h \in Halves', c \in Live' : h.sort = c.sort /\ c.part = "impl" =>
          Apart(h, c) \/ \E u \in Joiners' : c = job'[u] /\ h = LeftHalf(u)'
    <3> SUFFICES ASSUME NEW h \in Halves', NEW c \in Live', h.sort = c.sort, c.part = "impl", ~Apart(h, c)
                 PROVE  \E u \in Joiners' : c = job'[u] /\ h = LeftHalf(u)'
      OBVIOUS
    <3>1. PICK u \in Joiners : c = job[u] /\ h = LeftHalf(u)
      BY <1>6, <1>9 DEF Owned, HalvesApart
    <3>2. u # t
      BY <3>1, <1>6
    <3> QED BY <3>1, <3>2, <1>7
  <2>2. \A h \in Halves', g \in Live' : h.sort = g.sort /\ g.part = "left" /\ h # g => Apart(h, g)
    BY <1>6, <1>9 DEF Owned, HalvesApart
  <2> QED BY <2>1, <2>2 DEF HalvesApart
<1>13. OverApart'
  BY <1>5, <1>6, <1>8 DEF Owned, CallsApart, OverApart
<1>14. NotReady'
  BY <1>2, <1>6 DEF Owned, NotReady
<1> QED BY <1>10, <1>11, <1>12, <1>13, <1>14 DEF Owned

LEMMA StepOwned == ASSUME Fits, Owned, [Next]_vars PROVE Owned'
<1>1. CASE UNCHANGED vars
  BY <1>1, QuietOwned DEF vars
<1>2. ASSUME Next, NEW s \in Sort, CallerStep(s) \/ SpuriousWake(s) PROVE Owned'
  <2>1. CASE SetUp(s)
    BY <2>1, SetUpOwned
  <2>2. CASE SetBudget(s) \/ SortWithoutBudget(s) \/ SortNothing(s) \/ WaitForSpawns(s)
             \/ GetFuture(s) \/ Return(s) \/ SpuriousWake(s)
    <3>1. /\ UNCHANGED <<queue, ready, job, pivot, mid>>
          /\ pc[s] \in {"idle", "called", "waiting", "asleep", "gathering"}
          /\ \A u \in Thread \ {s} : pc'[u] = pc[u]
      BY <2>2 DEF SetBudget, SortWithoutBudget, SortNothing, WaitForSpawns, GetFuture, Return,
                  SpuriousWake, Goto, pool, frames, Fits, TypeOK
    <3>2. s \notin Running
      BY <3>1, ThreadsApart DEF Fits, PlacesFit, PlaceFits, Busy
    <3>3. \A u \in Running : pc'[u] = pc[u]
      BY <3>1, <3>2 DEF Running
    <3> QED BY <3>1, <3>3, QuietOwned
  <2> QED BY <1>2, <2>1, <2>2 DEF CallerStep
<1>3. ASSUME Next, NEW t \in Thread, QuicksortStep(t) \/ PartitionLeftHalf(t) PROVE Owned'
  <2>1. CASE PartitionAlone(t) \/ PartitionRightHalf(t) \/ CountLeaf(t) \/ NotifyCaller(t)
    <3>1. /\ UNCHANGED <<queue, ready, job, pivot>>
          /\ pc[t] # "spawning" /\ pc'[t] # "spawning"
          /\ pc'[t] \in {"right", "joining"} <=> pc[t] \in {"right", "joining"}
          /\ \A u \in Thread \ {t} : /\ pc'[u] = pc[u] \/ (pc[u] = "asleep" /\ pc'[u] = "waiting")
                                     /\ mid'[u] = mid[u]
      <4>1. CASE PartitionAlone(t)
        BY <4>1 DEF PartitionAlone, MustPartition, AfterPartition, Goto, pool, Fits, TypeOK
      <4>2. CASE PartitionRightHalf(t)
        BY <4>2 DEF PartitionRightHalf, Goto, pool, Fits, TypeOK
      <4>3. CASE CountLeaf(t)
        BY <4>3 DEF CountLeaf, AtLeaf, Goto, pool, frames, Fits, TypeOK
      <4>4. CASE NotifyCaller(t)
        BY <4>4 DEF NotifyCaller, pool, frames, Fits, TypeOK
      <4> QED BY <2>1, <4>1, <4>2, <4>3, <4>4
    <3> QED BY <3>1, QuietOwned DEF Running
  <2>2. CASE SubmitLeftHalf(t) \/ MergeHalves(t) \/ SpawnFirst(t) \/ SpawnSecond(t)
    BY <1>3, <2>2, SubmitLeftOwned, MergeOwned, SpawnFirstOwned, SpawnSecondOwned
  <2>3. CASE SortLeaf(t) \/ ThrowAlone(t) \/ Throw(t) \/ PartitionLeftHalf(t)
    BY <1>3, <2>3, LeaveOwned
  <2> QED BY <1>3, <2>1, <2>2, <2>3 DEF QuicksortStep
<1>4. ASSUME Next, NEW w \in Worker, WorkerStep(w) PROVE Owned'
  BY <1>3, <1>4, TakeTaskOwned, ThreadsApart DEF WorkerStep
<1>5. CASE Resize \/ Restart
  <2>1. UNCHANGED <<queue, ready, pc, job, pivot, mid>>
    BY <1>5 DEF Resize, Contract, Expand, Restart, frames
  <2> QED BY <2>1, QuietOwned
<1> QED BY <1>1, <1>2, <1>3, <1>4, <1>5 DEF Next

LEMMA InitOwned == Init => Owned
<1> SUFFICES ASSUME Init PROVE Owned
  OBVIOUS
<1>1. InQueue = {} /\ Running = {} /\ DOMAIN ready = {} /\ DOMAIN queue = {}
  BY DEF Init, InQueue, Running, Thread
<1>2. Live = {} /\ Over = {}
  BY <1>1 DEF Live, Over
<1> QED BY <1>1, <1>2 DEF Owned, OnePlace, CallsApart, HalvesApart, OverApart, NotReady

LEMMA AlwaysOwned == Spec => [](Fits /\ Owned)
<1>1. Init => Fits /\ Owned
  BY InitFits, InitOwned
<1>2. Fits /\ Owned /\ [Next]_vars => (Fits /\ Owned)'
  BY StepFits, StepOwned
<1> QED BY <1>1, <1>2, PTL DEF Spec

(***************************************************************************)
(* Two threads never read or write the same element: not the calls of      *)
(* quicksort_impl, however they split their ranges, and not the two halves *)
(* partition_p2 partitions at once, even when an exception leaves a left   *)
(* half behind that nobody waits for, and not the call that swaps elements *)
(* of both halves once the left one is partitioned.                        *)
(***************************************************************************)
THEOREM NobodyInTheWay == Spec => []ElementsExclusive
<1>1. Fits /\ Owned => ElementsExclusive
  <2> SUFFICES ASSUME Fits, Owned, NEW t \in Running, NEW u \in Running, t # u,
                      NEW i \in Touches(t) \intersect Touches(u), job[t].sort = job[u].sort
               PROVE  FALSE
    BY DEF ElementsExclusive, Running
  <2> DEFINE Part(v) == IF pc[v] = "right" THEN Halfway(v) ELSE job[v].lo
  <2>1. ASSUME NEW v \in Running, i \in Touches(v)
        PROVE  /\ i \in Part(v) .. job[v].hi - 1 /\ Part(v) \in Int /\ job[v].lo <= Part(v)
               /\ Call(v) = job[v] /\ job[v] \in Live
               /\ pc[v] = "joining" => LeftHalf(v) \in DOMAIN ready
               /\ job[v].lo \in Nat /\ job[v].hi \in Nat /\ job[v].part \in {"impl", "left"}
    <3>1. /\ job[v].lo \in Nat /\ job[v].hi \in Nat /\ job[v].part \in {"impl", "left"}
          /\ Halfway(v) \in job[v].lo + 1 .. job[v].hi + 1
      BY JobFits DEF Running
    <3>2. /\ pc[v] \in {"entered", "leaf", "notifying", "sorting", "left", "right", "joining"}
          /\ pc[v] = "joining" => LeftHalf(v) \in DOMAIN ready
      BY <2>1 DEF Touches
    <3>3. i \in Part(v) .. job[v].hi - 1
      BY <2>1, <3>2 DEF Touches
    <3>4. Call(v) = job[v] /\ job[v] \in Live
      BY <3>2 DEF Call, Live
    <3> QED BY <3>1, <3>2, <3>3, <3>4
  <2>2. ASSUME NEW v \in Running, NEW x \in Running, v # x, i \in Touches(v), i \in Touches(x),
               job[v].sort = job[x].sort, job[x].part = "impl"
        PROVE  FALSE
    <3>1. /\ job[v] \in Live /\ job[x] \in Live /\ job[v] # job[x]
          /\ i \in Int /\ job[v].lo <= i /\ i < job[v].hi /\ job[x].lo <= i /\ i < job[x].hi
          /\ job[v].lo \in Nat /\ job[v].hi \in Nat /\ job[x].lo \in Nat /\ job[x].hi \in Nat
      BY <2>1, <2>2 DEF Owned, OnePlace
    <3>2. ~Apart(job[v], job[x])
      BY <3>1 DEF Apart
    <3>3. job[v].part = "left"
      BY <2>1, <2>2, <3>1, <3>2 DEF Owned, CallsApart
    <3>4. PICK y \in Joiners : job[x] = job[y] /\ job[v] = LeftHalf(y)
      BY <2>2, <3>1, <3>2, <3>3 DEF Owned, HalvesApart, Halves
    <3>5. pc[x] # "spawning"
      BY <2>2 DEF Touches
    <3>6. y = x
      BY <3>4, <3>5, OneOwner
    <3>7. pc[x] = "right"
      <4>1. job[v] \notin DOMAIN ready
        BY <3>1 DEF Owned, NotReady
      <4> QED BY <4>1, <3>4, <3>6, <2>1, <2>2 DEF Joiners
    <3>8. job[v].hi = Halfway(x)
      BY <3>4, <3>6 DEF LeftHalf, LeftTask
    <3> QED BY <3>1, <3>7, <3>8, <2>1, <2>2
  <2>3. CASE job[t].part = "left" /\ job[u].part = "left"
    <3>1. /\ job[t] \in Live /\ job[u] \in Live /\ job[t] # job[u]
          /\ i \in Int /\ job[t].lo <= i /\ i < job[t].hi /\ job[u].lo <= i /\ i < job[u].hi
          /\ job[t].lo \in Nat /\ job[t].hi \in Nat /\ job[u].lo \in Nat /\ job[u].hi \in Nat
      BY <2>1 DEF Owned, OnePlace
    <3>2. Apart(job[t], job[u])
      BY <2>3, <3>1 DEF Owned, HalvesApart, Halves
    <3> QED BY <3>1, <3>2 DEF Apart
  <2>4. CASE job[t].part = "impl" \/ job[u].part = "impl"
    BY <2>2, <2>4
  <2> QED BY <2>1, <2>3, <2>4
<1> QED BY <1>1, AlwaysOwned, PTL

-----------------------------------------------------------------------------
(* The count.                                                              *)

LEMMA ThreadsFinite == IsFiniteSet(Thread)
BY SortAssumption, FS_Union DEF SortAssumption, Thread

LEMMA CountsFinite ==
    ASSUME Fits, NEW s \in Sort
    PROVE  /\ IsFiniteSet(Waiting(s)) /\ Cardinality(Waiting(s)) \in Nat
           /\ IsFiniteSet(Deciding(s)) /\ Cardinality(Deciding(s)) \in Nat
           /\ inflight[s] \in Int /\ Excess(s) \in Int
<1>1. IsFiniteSet(Deciding(s))
  BY ThreadsFinite, FS_Subset DEF Deciding
<1>2. IsFiniteSet(Waiting(s))
  <2>1. DOMAIN queue = 1 .. Len(queue) /\ Len(queue) \in Nat
    BY DEF Fits, TypeOK
  <2>2. IsFiniteSet(1 .. Len(queue))
    BY <2>1, FS_Interval
  <2> QED BY <2>1, <2>2, FS_Subset DEF Waiting
<1>3. Cardinality(Waiting(s)) \in Nat /\ Cardinality(Deciding(s)) \in Nat
  BY <1>1, <1>2, FS_CardinalityType
<1>4. inflight[s] \in Int
  BY DEF Fits, TypeOK
<1> QED BY <1>1, <1>2, <1>3, <1>4 DEF Excess, Counted

\* One thread may start or stop to count.
LEMMA DecidingMoves ==
    ASSUME Fits, NEW s \in Sort, NEW t \in Thread,
           \A u \in Thread \ {t} : u \in Deciding(s)' <=> u \in Deciding(s)
    PROVE  Cardinality(Deciding(s)') = Cardinality(Deciding(s))
                                       + (IF t \in Deciding(s)' THEN 1 ELSE 0)
                                       - (IF t \in Deciding(s) THEN 1 ELSE 0)
<1>1. IsFiniteSet(Deciding(s)) /\ Cardinality(Deciding(s)) \in Nat
  BY CountsFinite
<1>2. Deciding(s) \subseteq Thread /\ Deciding(s)' \subseteq Thread
  BY DEF Deciding, Thread
<1>3. CASE t \in Deciding(s)' <=> t \in Deciding(s)
  <2>1. Deciding(s)' = Deciding(s)
    BY <1>2, <1>3
  <2> QED BY <1>1, <1>3, <2>1
<1>4. CASE t \in Deciding(s)' /\ t \notin Deciding(s)
  <2>1. Deciding(s)' = Deciding(s) \union {t}
    BY <1>2, <1>4
  <2>2. Cardinality(Deciding(s) \union {t}) = Cardinality(Deciding(s)) + 1
    BY <1>1, <1>4, FS_AddElement
  <2> QED BY <1>1, <1>4, <2>1, <2>2
<1>5. CASE t \notin Deciding(s)' /\ t \in Deciding(s)
  <2>1. Deciding(s)' = Deciding(s) \ {t}
    BY <1>2, <1>5
  <2>2. Cardinality(Deciding(s) \ {t}) = Cardinality(Deciding(s)) - 1
    BY <1>1, <1>5, FS_RemoveElement
  <2> QED BY <1>1, <1>5, <2>1, <2>2
<1> QED BY <1>3, <1>4, <1>5

LEMMA WaitingAppend ==
    ASSUME Fits, NEW s \in Sort, NEW c \in TaskType, queue' = Append(queue, c)
    PROVE  Cardinality(Waiting(s)') = Cardinality(Waiting(s))
                                      + (IF c.sort = s /\ c.part = "impl" THEN 1 ELSE 0)
<1>1. /\ DOMAIN queue = 1 .. Len(queue) /\ DOMAIN queue' = DOMAIN queue \union {Len(queue) + 1}
      /\ \A i \in DOMAIN queue : queue'[i] = queue[i]
      /\ queue'[Len(queue) + 1] = c /\ Len(queue) \in Nat
  BY AppendItems DEF Fits, TypeOK
<1>2. IsFiniteSet(Waiting(s)) /\ Len(queue) + 1 \notin Waiting(s) /\ Cardinality(Waiting(s)) \in Nat
  <2>1. Len(queue) + 1 \notin Waiting(s)
    BY <1>1 DEF Waiting
  <2> QED BY <2>1, CountsFinite
<1>3. CASE c.sort = s /\ c.part = "impl"
  <2>1. Waiting(s)' = Waiting(s) \union {Len(queue) + 1}
    BY <1>1, <1>3 DEF Waiting
  <2> QED BY <1>2, <1>3, <2>1, FS_AddElement
<1>4. CASE ~(c.sort = s /\ c.part = "impl")
  <2>1. Waiting(s)' = Waiting(s)
    BY <1>1, <1>4 DEF Waiting
  <2> QED BY <1>2, <1>4, <2>1
<1> QED BY <1>3, <1>4

\* Taking the first task moves the others up by one.
LEMMA WaitingTail ==
    ASSUME Fits, NEW s \in Sort, queue # <<>>, queue' = Tail(queue)
    PROVE  Cardinality(Waiting(s)') = Cardinality(Waiting(s))
               - (IF Head(queue).sort = s /\ Head(queue).part = "impl" THEN 1 ELSE 0)
<1>1. /\ DOMAIN queue = 1 .. Len(queue) /\ DOMAIN queue' = 1 .. Len(queue) - 1 /\ Len(queue) \in Nat \ {0}
      /\ queue[1] = Head(queue) /\ \A i \in 1 .. Len(queue) - 1 : queue'[i] = queue[i + 1]
  BY TailItems DEF Fits, TypeOK
<1>2. IsFiniteSet(Waiting(s)) /\ Cardinality(Waiting(s)) \in Nat
  BY CountsFinite
<1> DEFINE Rest == Waiting(s) \ {1}
           up == [i \in Rest |-> i - 1]
<1>3. /\ IsFiniteSet(Rest)
      /\ Cardinality(Rest) = Cardinality(Waiting(s))
                             - (IF Head(queue).sort = s /\ Head(queue).part = "impl" THEN 1 ELSE 0)
  <2>1. 1 \in Waiting(s) <=> (Head(queue).sort = s /\ Head(queue).part = "impl")
    BY <1>1 DEF Waiting
  <2>2. /\ IsFiniteSet(Rest)
        /\ Cardinality(Rest) = IF 1 \in Waiting(s) THEN Cardinality(Waiting(s)) - 1
                               ELSE Cardinality(Waiting(s))
    BY <1>2, FS_RemoveElement
  <2> HIDE DEF Rest
  <2> QED BY <1>2, <2>1, <2>2
<1>4. Waiting(s)' = {i \in 1 .. Len(queue) - 1 : queue[i + 1].sort = s /\ queue[i + 1].part = "impl"}
  BY <1>1 DEF Waiting
<1>5. Rest = {i \in 2 .. Len(queue) : queue[i].sort = s /\ queue[i].part = "impl"}
  BY <1>1 DEF Waiting
<1>6. up \in Bijection(Rest, Waiting(s)')
  <2>1. \A i \in Rest : i - 1 \in Waiting(s)'
    BY <1>4, <1>5
  <2>2. \A i, j \in Rest : i - 1 = j - 1 => i = j
    BY <1>5
  <2>3. \A j \in Waiting(s)' : j + 1 \in Rest /\ (j + 1) - 1 = j
    BY <1>1, <1>4, <1>5
  <2> HIDE DEF Rest
  <2>4. up \in [Rest -> Waiting(s)']
    BY <2>1
  <2>5. up \in Injection(Rest, Waiting(s)')
    BY <2>2, <2>4 DEF Injection, IsInjective
  <2>6. up \in Surjection(Rest, Waiting(s)')
    BY <2>3, <2>4 DEF Surjection
  <2> QED BY <2>5, <2>6 DEF Bijection
<1>7. Cardinality(Waiting(s)') = Cardinality(Rest)
  BY <1>3, <1>6, FS_Bijection DEF ExistsBijection
<1> QED BY <1>3, <1>7

LEMMA QuietExcess ==
    ASSUME Fits, NEW s \in Sort, UNCHANGED <<inflight, queue>>,
           \A u \in Thread : u \in Deciding(s)' <=> u \in Deciding(s)
    PROVE  Excess(s)' = Excess(s)
<1>1. Deciding(s)' = Deciding(s)
  BY DEF Deciding, Thread
<1>2. Waiting(s)' = Waiting(s)
  BY DEF Waiting
<1> QED BY <1>1, <1>2 DEF Excess, Counted

Throws(t) == ThrowAlone(t) \/ Throw(t)

\* Whatever runs to its end counts exactly what it adds and what it takes away.
LEMMA SameExcess ==
    ASSUME Fits, [Next]_vars, ~ \E t \in Thread : Throws(t), NEW s \in Sort
    PROVE  Excess(s)' = Excess(s)
<1>0. Sort \subseteq Thread /\ Worker \subseteq Thread /\ Sort \intersect Worker = {}
  BY ThreadsApart
<1>1. CASE UNCHANGED vars
  BY <1>1, QuietExcess DEF vars, Deciding
<1>2. ASSUME NEW r \in Sort,
             SetBudget(r) \/ SortWithoutBudget(r) \/ SortNothing(r) \/ WaitForSpawns(r)
                 \/ GetFuture(r) \/ Return(r) \/ SpuriousWake(r)
      PROVE  Excess(s)' = Excess(s)
  <2>1. /\ UNCHANGED <<inflight, queue, job>>
        /\ pc[r] \in {"idle", "called", "waiting", "asleep", "gathering"}
        /\ pc'[r] \in {"called", "returned", "waiting", "asleep", "gathering", "threw"}
        /\ \A u \in Thread \ {r} : pc'[u] = pc[u]
    BY <1>0, <1>2 DEF SetBudget, SortWithoutBudget, SortNothing, WaitForSpawns, GetFuture, Return,
                SpuriousWake, Goto, counts, pool, frames, Fits, TypeOK
  <2> QED BY <2>1, QuietExcess DEF Deciding
<1>3. ASSUME NEW r \in Sort, SetUp(r) PROVE Excess(s)' = Excess(s)
  <2>1. /\ UNCHANGED queue /\ inflight' = [inflight EXCEPT ![r] = 1]
        /\ pc[r] = "called" /\ pc' = [pc EXCEPT ![r] = "entered"]
        /\ job'[r].sort = r /\ \A u \in Thread \ {r} : job'[u] = job[u]
    BY <1>0, <1>3 DEF SetUp, Goto, pool, QuicksortTask, Fits, TypeOK
  <2>2. inflight[r] = 0
    BY <2>1 DEF Fits, FreshSorts
  <2>3. /\ \A u \in Thread \ {r} : u \in Deciding(s)' <=> u \in Deciding(s)
        /\ r \in Deciding(s)' <=> r = s
        /\ r \notin Deciding(s) /\ r \in Thread
    BY <1>0, <2>1 DEF Deciding, Fits, TypeOK
  <2>4. Cardinality(Deciding(s)') = Cardinality(Deciding(s)) + (IF r = s THEN 1 ELSE 0)
    BY <2>3, DecidingMoves, CountsFinite
  <2>5. inflight'[s] = inflight[s] + (IF r = s THEN 1 ELSE 0)
    BY <2>1, <2>2 DEF Fits, TypeOK
  <2>6. Waiting(s)' = Waiting(s)
    BY <2>1 DEF Waiting
  <2> QED BY <2>4, <2>5, <2>6, CountsFinite DEF Excess, Counted
<1>4. ASSUME NEW t \in Thread, PartitionAlone(t) \/ PartitionRightHalf(t) \/ MergeHalves(t) \/ NotifyCaller(t)
      PROVE  Excess(s)' = Excess(s)
  <2> DEFINE D == {"entered", "right", "joining", "split", "spawning", "leaf"}
  <2>1. /\ UNCHANGED <<inflight, queue, job>>
        /\ pc'[t] \in D <=> pc[t] \in D
        /\ \A u \in Thread \ {t} : pc'[u] = pc[u] \/ (pc[u] = "asleep" /\ pc'[u] = "waiting")
    <3>1. CASE PartitionAlone(t)
      BY <3>1 DEF PartitionAlone, MustPartition, AfterPartition, Goto, pool, Fits, TypeOK
    <3>2. CASE PartitionRightHalf(t)
      BY <3>2 DEF PartitionRightHalf, Goto, counts, pool, Fits, TypeOK
    <3>3. CASE MergeHalves(t)
      BY <3>3 DEF MergeHalves, AfterPartition, Goto, counts, Fits, TypeOK
    <3>4. CASE NotifyCaller(t)
      BY <3>4 DEF NotifyCaller, counts, pool, frames, Fits, TypeOK
    <3> QED BY <1>4, <3>1, <3>2, <3>3, <3>4
  <2> QED BY <2>1, QuietExcess DEF Deciding
<1>5. ASSUME NEW t \in Thread, CountLeaf(t) PROVE Excess(s)' = Excess(s)
  <2>1. /\ UNCHANGED <<queue, job>> /\ inflight' = [inflight EXCEPT ![job[t].sort] = @ - 1]
        /\ pc[t] \in {"entered", "leaf"} /\ pc'[t] = "notifying"
        /\ \A u \in Thread \ {t} : pc'[u] = pc[u]
    BY <1>5 DEF CountLeaf, AtLeaf, UncountCall, Goto, pool, frames, Fits, TypeOK
  <2>2. /\ \A u \in Thread \ {t} : u \in Deciding(s)' <=> u \in Deciding(s)
        /\ t \notin Deciding(s)'
        /\ t \in Deciding(s) <=> job[t].sort = s
    BY <2>1 DEF Deciding
  <2>3. Cardinality(Deciding(s)') = Cardinality(Deciding(s)) - (IF job[t].sort = s THEN 1 ELSE 0)
    BY <2>2, DecidingMoves, CountsFinite
  <2>4. inflight'[s] = inflight[s] - (IF job[t].sort = s THEN 1 ELSE 0)
    <3>1. inflight \in [Sort -> Int]
      BY DEF Fits, TypeOK
    <3> QED BY <2>1, <3>1
  <2>5. Waiting(s)' = Waiting(s)
    BY <2>1 DEF Waiting
  <2> QED BY <2>3, <2>4, <2>5, CountsFinite DEF Excess, Counted
<1>6. ASSUME Next, NEW t \in Thread, SubmitLeftHalf(t) PROVE Excess(s)' = Excess(s)
  <2> DEFINE c == LeftTask(job[t].sort, job[t].lo, Halfway(t), Pivot(t))
  <2>1. /\ UNCHANGED <<inflight, job>> /\ queue' = Append(queue, c) /\ c.part = "left"
        /\ pc[t] = "entered" /\ pc'[t] = "right"
        /\ \A u \in Thread \ {t} : pc'[u] = pc[u]
    BY <1>6 DEF SubmitLeftHalf, MustPartition, Goto, LeftTask, Fits, TypeOK
  <2>2. c \in TaskType
    BY <1>6, SubmitFits
  <2> HIDE DEF c
  <2>3. Cardinality(Waiting(s)') = Cardinality(Waiting(s))
    BY <2>1, <2>2, WaitingAppend, CountsFinite
  <2>4. Deciding(s)' = Deciding(s)
    BY <2>1 DEF Deciding, Thread
  <2> QED BY <2>1, <2>3, <2>4 DEF Excess, Counted
<1>7. ASSUME Next, NEW t \in Thread, SpawnFirst(t) PROVE Excess(s)' = Excess(s)
  <2> DEFINE c == QuicksortTask(job[t].sort, job[t].lo, mid[t])
  <2>1. /\ UNCHANGED job /\ queue' = Append(queue, c) /\ c.part = "impl" /\ c.sort = job[t].sort
        /\ inflight' = [inflight EXCEPT ![job[t].sort] = @ + 1]
        /\ pc[t] = "split" /\ pc'[t] = "spawning"
        /\ \A u \in Thread \ {t} : pc'[u] = pc[u]
    BY <1>7 DEF SpawnFirst, CountSpawn, Goto, QuicksortTask, frames, Fits, TypeOK
  <2>2. c \in TaskType
    BY <1>7, SubmitFits
  <2> HIDE DEF c
  <2>3. Cardinality(Waiting(s)') = Cardinality(Waiting(s)) + (IF job[t].sort = s THEN 1 ELSE 0)
    BY <2>1, <2>2, WaitingAppend, CountsFinite
  <2>4. Deciding(s)' = Deciding(s)
    BY <2>1 DEF Deciding, Thread
  <2>5. inflight'[s] = inflight[s] + (IF job[t].sort = s THEN 1 ELSE 0)
    BY SMTT(30), <2>1, CountsFinite DEF Fits, TypeOK
  <2> QED BY <2>3, <2>4, <2>5, CountsFinite DEF Excess, Counted
<1>8. ASSUME Next, NEW t \in Thread, SpawnSecond(t) PROVE Excess(s)' = Excess(s)
  <2> DEFINE c == QuicksortTask(job[t].sort, mid[t], job[t].hi)
  <2>1. /\ UNCHANGED inflight /\ queue' = Append(queue, c) /\ c.part = "impl" /\ c.sort = job[t].sort
        /\ pc[t] = "spawning"
    BY <1>8 DEF SpawnSecond, QuicksortTask
  <2>2. c \in TaskType
    BY <1>8, SubmitFits
  <2>3. /\ \A u \in Thread \ {t} : job'[u] = job[u] /\ pc'[u] = pc[u]
        /\ pc'[t] \in {"idle", "waiting", "threw"}
    BY <1>8, EndsLeave DEF Ends
  <2> HIDE DEF c
  <2>4. Cardinality(Waiting(s)') = Cardinality(Waiting(s)) + (IF job[t].sort = s THEN 1 ELSE 0)
    BY <2>1, <2>2, WaitingAppend, CountsFinite
  <2>5. /\ \A u \in Thread \ {t} : u \in Deciding(s)' <=> u \in Deciding(s)
        /\ t \notin Deciding(s)'
        /\ t \in Deciding(s) <=> job[t].sort = s
    BY <2>1, <2>3 DEF Deciding
  <2>6. Cardinality(Deciding(s)') = Cardinality(Deciding(s)) - (IF job[t].sort = s THEN 1 ELSE 0)
    BY <2>5, DecidingMoves, CountsFinite
  <2> QED BY <2>1, <2>4, <2>6, CountsFinite DEF Excess, Counted
<1>9. ASSUME NEW t \in Thread, SortLeaf(t) \/ PartitionLeftHalf(t) PROVE Excess(s)' = Excess(s)
  <2>1. UNCHANGED <<inflight, queue>> /\ pc[t] \in {"sorting", "left"}
    BY <1>9 DEF SortLeaf, PartitionLeftHalf, counts
  <2>2. /\ \A u \in Thread \ {t} : job'[u] = job[u] /\ pc'[u] = pc[u]
        /\ pc'[t] \in {"idle", "waiting", "threw"}
    BY <1>9, EndsLeave DEF Ends
  <2> QED BY <2>1, <2>2, QuietExcess DEF Deciding
<1>10. ASSUME NEW w \in Worker, TakeTask(w) PROVE Excess(s)' = Excess(s)
  <2> DEFINE c == Head(queue)
  <2>1. /\ UNCHANGED inflight /\ queue # <<>> /\ queue' = Tail(queue)
        /\ w \in Thread /\ pc[w] = "idle" /\ job'[w] = c
        /\ pc'[w] = (IF job'[w].part = "impl" THEN "entered" ELSE "left")
        /\ \A u \in Thread \ {w} : job'[u] = job[u] /\ pc'[u] = pc[u]
    BY <1>10, TakeFits
  <2>2. Cardinality(Waiting(s)') = Cardinality(Waiting(s)) - (IF c.sort = s /\ c.part = "impl" THEN 1 ELSE 0)
    BY <2>1, WaitingTail
  <2> HIDE DEF c
  <2>3. /\ \A u \in Thread \ {w} : u \in Deciding(s)' <=> u \in Deciding(s)
        /\ w \in Deciding(s)' <=> (c.sort = s /\ c.part = "impl")
        /\ w \notin Deciding(s)
    BY <2>1 DEF Deciding
  <2>4. Cardinality(Deciding(s)') = Cardinality(Deciding(s)) + (IF c.sort = s /\ c.part = "impl" THEN 1 ELSE 0)
    BY <2>1, <2>3, DecidingMoves, CountsFinite
  <2> QED BY <2>1, <2>2, <2>4, CountsFinite DEF Excess, Counted
<1>11. CASE Resize \/ Restart
  <2>1. UNCHANGED <<inflight, queue, pc, job>>
    BY <1>11 DEF Resize, Contract, Expand, Restart, counts, frames
  <2> QED BY <2>1, QuietExcess DEF Deciding
<1>12. CASE Next
  <2>1. ASSUME NEW r \in Sort, CallerStep(r) \/ SpuriousWake(r) PROVE Excess(s)' = Excess(s)
    BY <2>1, <1>2, <1>3 DEF CallerStep
  <2>2. ASSUME NEW t \in Thread, QuicksortStep(t) PROVE Excess(s)' = Excess(s)
    BY <2>2, <1>12, <1>4, <1>5, <1>6, <1>7, <1>8, <1>9 DEF QuicksortStep, Throws
  <2>3. ASSUME NEW w \in Worker, WorkerStep(w) PROVE Excess(s)' = Excess(s)
    BY <2>3, <1>0, <1>9, <1>10 DEF WorkerStep
  <2> QED BY <1>12, <1>11, <2>1, <2>2, <2>3 DEF Next
<1> QED BY <1>1, <1>12

\* An exception takes a call away that stays on the count.
LEMMA MoreExcess ==
    ASSUME Fits, NEW t \in Thread, Throws(t), NEW s \in Sort
    PROVE  Excess(s)' = Excess(s) + (IF t \in Deciding(s) THEN 1 ELSE 0)
<1>1. UNCHANGED <<inflight, queue>>
  BY DEF Throws, ThrowAlone, Throw, counts
<1>2. /\ \A u \in Thread \ {t} : job'[u] = job[u] /\ pc'[u] = pc[u]
      /\ pc'[t] \in {"idle", "waiting", "threw"}
  BY EndsLeave DEF Ends, Throws
<1>3. /\ \A u \in Thread \ {t} : u \in Deciding(s)' <=> u \in Deciding(s)
      /\ t \notin Deciding(s)'
  BY <1>2 DEF Deciding
<1>4. Cardinality(Deciding(s)') = Cardinality(Deciding(s)) - (IF t \in Deciding(s) THEN 1 ELSE 0)
  BY <1>3, DecidingMoves, CountsFinite
<1>5. Waiting(s)' = Waiting(s)
  BY <1>1 DEF Waiting
<1> QED BY <1>1, <1>4, <1>5, CountsFinite DEF Excess, Counted

LEMMA LeftHalvesStep ==
    ASSUME Fits, [Next]_vars, NEW h \in LeftHalves'
    PROVE  /\ h.sort \in Sort
           /\ \/ h \in LeftHalves
              \/ \E t \in Thread : SubmitLeftHalf(t) /\ t \in Joiners' /\ h = LeftHalf(t)'
<1>0. Sort \subseteq Thread /\ Worker \subseteq Thread /\ Sort \intersect Worker = {}
  BY ThreadsApart
<1> DEFINE Goal == h \in LeftHalves \/ \E t \in Thread : SubmitLeftHalf(t) /\ t \in Joiners' /\ h = LeftHalf(t)'
<1>1. h.sort \in Sort
  <2>1. Fits'
    BY StepFits
  <2>2. h \in TaskType
    BY <2>1 DEF Fits, TypeOK, LeftHalves, InQueue, Running
  <2> QED BY <2>2 DEF TaskType
<1>2. ASSUME UNCHANGED <<queue, job>> PROVE Goal
  BY <1>2 DEF LeftHalves, InQueue, Running
<1>3. ASSUME NEW s \in Sort, SetUp(s) PROVE Goal
  <2>1. /\ UNCHANGED queue /\ job'[s].part = "impl" /\ \A u \in Thread \ {s} : job'[u] = job[u]
    BY <1>0, <1>3 DEF SetUp, pool, QuicksortTask, Fits, TypeOK
  <2> QED BY <2>1 DEF LeftHalves, InQueue, Running
<1>4. ASSUME Next, NEW t \in Thread, SubmitLeftHalf(t) PROVE Goal
  <2> DEFINE c == LeftTask(job[t].sort, job[t].lo, Halfway(t), Pivot(t))
  <2>1. /\ UNCHANGED job /\ pc'[t] = "right" /\ pivot'[t] = Pivot(t)
    BY <1>4 DEF SubmitLeftHalf, Goto, Fits, TypeOK
  <2>2. t \in Running /\ InQueue' = InQueue \union {c}
    BY <1>4, SubmitFits
  <2>3. t \in Joiners' /\ c = LeftHalf(t)'
    BY <2>1, <2>2 DEF Joiners, Running, LeftHalf, Halfway, Size
  <2> HIDE DEF c
  <2>4. h \in LeftHalves \/ h = c
    BY <2>1, <2>2 DEF LeftHalves, Running
  <2> QED BY <1>4, <2>3, <2>4
<1>5. ASSUME Next, NEW t \in Thread, SpawnFirst(t) PROVE Goal
  <2> DEFINE c == QuicksortTask(job[t].sort, job[t].lo, mid[t])
  <2>1. UNCHANGED job /\ c.part = "impl" /\ InQueue' = InQueue \union {c}
    BY <1>5, SubmitFits DEF SpawnFirst, frames, QuicksortTask
  <2> HIDE DEF c
  <2> QED BY <2>1 DEF LeftHalves, Running
<1>6. ASSUME Next, NEW t \in Thread, Ends(t) PROVE Goal
  <2> DEFINE c == QuicksortTask(job[t].sort, mid[t], job[t].hi)
  <2>1. Running' \subseteq Running \ {t} /\ \A u \in Thread \ {t} : job'[u] = job[u]
    BY <1>6, EndsLeave
  <2>2. InQueue' \subseteq InQueue \union {c}
    <3>1. CASE SpawnSecond(t)
      BY <1>6, <3>1, SubmitFits
    <3>2. CASE ~SpawnSecond(t)
      BY <1>6, <3>2 DEF Ends, SortLeaf, ThrowAlone, Throw, PartitionLeftHalf, InQueue
    <3> QED BY <3>1, <3>2
  <2>3. c.part = "impl"
    BY DEF QuicksortTask
  <2> HIDE DEF c
  <2> QED BY <2>1, <2>2, <2>3 DEF LeftHalves, Running
<1>7. ASSUME NEW w \in Worker, TakeTask(w) PROVE Goal
  <2>1. /\ InQueue = InQueue' \union {job'[w]} /\ Running' = Running \union {w}
        /\ \A u \in Thread \ {w} : job'[u] = job[u]
    BY <1>7, TakeFits
  <2> QED BY <2>1 DEF LeftHalves, Running
<1>8. ASSUME Next PROVE Goal
  <2>1. ASSUME NEW s \in Sort, CallerStep(s) \/ SpuriousWake(s) PROVE Goal
    BY <2>1, <1>2, <1>3 DEF CallerStep, SetBudget, SortWithoutBudget, SortNothing, WaitForSpawns,
       GetFuture, Return, SpuriousWake, pool, frames
  <2>2. ASSUME NEW t \in Thread, QuicksortStep(t) \/ PartitionLeftHalf(t) PROVE Goal
    <3>1. CASE PartitionAlone(t) \/ PartitionRightHalf(t) \/ MergeHalves(t) \/ CountLeaf(t) \/ NotifyCaller(t)
      BY <3>1, <1>2 DEF PartitionAlone, PartitionRightHalf, MergeHalves, CountLeaf, NotifyCaller, pool, frames
    <3> QED BY <2>2, <3>1, <1>4, <1>5, <1>6, <1>8 DEF QuicksortStep, Ends
  <2>3. ASSUME NEW w \in Worker, WorkerStep(w) PROVE Goal
    BY <2>2, <2>3, <1>0, <1>7 DEF WorkerStep
  <2>4. CASE Resize \/ Restart
    BY <2>4, <1>2 DEF Resize, Contract, Expand, Restart, frames
  <2> QED BY <1>8, <2>1, <2>2, <2>3, <2>4 DEF Next
<1> QED BY <1>1, <1>2, <1>8 DEF vars

\* A thread stops waiting for its left half when it has it, or by an exception.
LEMMA JoinersStep ==
    ASSUME Fits, [Next]_vars, NEW u \in Joiners, ~MergeHalves(u), ~Throws(u)
    PROVE  u \in Joiners' /\ LeftHalf(u)' = LeftHalf(u)
<1>0. Sort \subseteq Thread /\ Worker \subseteq Thread /\ Sort \intersect Worker = {}
  BY ThreadsApart
<1>1. u \in Thread /\ u \in Running /\ pc[u] \in {"right", "joining"} /\ job[u] # NoTask
  BY DEF Joiners, Running
<1>2. SUFFICES pc'[u] \in {"right", "joining"} /\ job'[u] = job[u] /\ pivot'[u] = pivot[u]
  BY <1>1 DEF Joiners, Running, LeftHalf, Halfway, Size
<1>3. CASE UNCHANGED vars
  BY <1>1, <1>3 DEF vars
<1>4. ASSUME NEW s \in Sort, CallerStep(s) \/ SpuriousWake(s)
      PROVE  pc'[u] \in {"right", "joining"} /\ job'[u] = job[u] /\ pivot'[u] = pivot[u]
  <2>1. pc[s] \in {"idle", "called", "waiting", "asleep", "gathering"}
    BY <1>4 DEF CallerStep, SetBudget, SortWithoutBudget, SetUp, SortNothing, WaitForSpawns,
       GetFuture, Return, SpuriousWake
  <2>2. /\ pivot' = pivot
        /\ \A v \in Thread \ {s} : pc'[v] = pc[v] /\ job'[v] = job[v]
    BY <1>4 DEF CallerStep, SetBudget, SortWithoutBudget, SetUp, SortNothing, WaitForSpawns,
       GetFuture, Return, SpuriousWake, Goto, frames, Fits, TypeOK
  <2> QED BY <2>1, <2>2, <1>1
<1>5. ASSUME NEW t \in Thread, QuicksortStep(t) \/ PartitionLeftHalf(t)
      PROVE  pc'[u] \in {"right", "joining"} /\ job'[u] = job[u] /\ pivot'[u] = pivot[u]
  <2>1. CASE PartitionAlone(t) \/ SubmitLeftHalf(t) \/ PartitionRightHalf(t) \/ MergeHalves(t)
             \/ SpawnFirst(t) \/ CountLeaf(t) \/ NotifyCaller(t)
    <3>1. CASE PartitionAlone(t)
      BY <3>1, <1>1 DEF PartitionAlone, MustPartition, AfterPartition, Goto, Fits, TypeOK
    <3>2. CASE SubmitLeftHalf(t)
      BY <3>2, <1>1 DEF SubmitLeftHalf, MustPartition, Goto, Fits, TypeOK
    <3>3. CASE PartitionRightHalf(t)
      BY <3>3, <1>1 DEF PartitionRightHalf, Goto, Fits, TypeOK
    <3>4. CASE MergeHalves(t)
      BY <3>4, <1>1 DEF MergeHalves, AfterPartition, Goto, Fits, TypeOK
    <3>5. CASE SpawnFirst(t)
      BY <3>5, <1>1 DEF SpawnFirst, Goto, frames, Fits, TypeOK
    <3>6. CASE CountLeaf(t)
      BY <3>6, <1>1 DEF CountLeaf, AtLeaf, Goto, frames, Fits, TypeOK
    <3>7. CASE NotifyCaller(t)
      BY <3>7, <1>1 DEF NotifyCaller, frames, Fits, TypeOK
    <3> QED BY <2>1, <3>1, <3>2, <3>3, <3>4, <3>5, <3>6, <3>7
  <2>2. CASE Ends(t)
    <3>1. t # u
      BY <2>2, <1>1 DEF Ends, Throws, SpawnSecond, SortLeaf, PartitionLeftHalf
    <3>2. job'[u] = job[u] /\ pc'[u] = pc[u]
      BY <2>2, <3>1, <1>1, EndsLeave
    <3>3. pivot' = pivot
      BY <2>2 DEF Ends, SpawnSecond, SortLeaf, ThrowAlone, Throw, PartitionLeftHalf
    <3> QED BY <3>2, <3>3, <1>1
  <2> QED BY <1>5, <2>1, <2>2 DEF QuicksortStep, Ends
<1>6. ASSUME NEW w \in Worker, WorkerStep(w)
      PROVE  pc'[u] \in {"right", "joining"} /\ job'[u] = job[u] /\ pivot'[u] = pivot[u]
  <2>1. CASE TakeTask(w)
    <3>1. pc[w] = "idle" /\ pivot' = pivot /\ \A v \in Thread \ {w} : job'[v] = job[v] /\ pc'[v] = pc[v]
      BY <2>1, TakeFits
    <3> QED BY <3>1, <1>1
  <2> QED BY <1>0, <1>5, <1>6, <2>1 DEF WorkerStep
<1>7. CASE Resize \/ Restart
  BY <1>1, <1>7 DEF Resize, Contract, Expand, Restart, frames
<1> QED BY <1>3, <1>4, <1>5, <1>6, <1>7 DEF Next

\* Only a call that is counted changes the count, and only a sort that has not begun sets it.
LEMMA InflightStep ==
    ASSUME Fits, [Next]_vars, NEW s \in Sort, inflight'[s] # inflight[s]
    PROVE  (pc[s] = "called" /\ pc'[s] = "entered") \/ Deciding(s) # {}
<1>1. ASSUME NEW r \in Sort, CallerStep(r) \/ SpuriousWake(r)
      PROVE  (pc[s] = "called" /\ pc'[s] = "entered") \/ Deciding(s) # {}
  <2>1. SetUp(r)
    BY <1>1 DEF CallerStep, SetBudget, SortWithoutBudget, SortNothing, WaitForSpawns, GetFuture,
       Return, SpuriousWake, counts
  <2>2. r = s
    BY <2>1 DEF SetUp, Fits, TypeOK
  <2> QED BY <2>1, <2>2, ThreadsApart DEF SetUp, Goto, Fits, TypeOK
<1>2. ASSUME NEW t \in Thread, QuicksortStep(t) PROVE Deciding(s) # {}
  <2>1. SpawnFirst(t) \/ CountLeaf(t)
    BY <1>2 DEF QuicksortStep, PartitionAlone, SubmitLeftHalf, PartitionRightHalf, MergeHalves,
       SpawnSecond, NotifyCaller, SortLeaf, ThrowAlone, Throw, counts
  <2>2. pc[t] \in {"split", "entered", "leaf"} /\ job[t].sort = s
    BY <2>1 DEF SpawnFirst, CountSpawn, CountLeaf, AtLeaf, UncountCall, Fits, TypeOK
  <2> QED BY <2>2 DEF Deciding
<1>3. ASSUME NEW w \in Worker, WorkerStep(w) PROVE FALSE
  BY <1>3 DEF WorkerStep, TakeTask, PartitionLeftHalf, counts
<1>4. ~(Resize \/ Restart) /\ ~UNCHANGED vars
  BY DEF Resize, Contract, Expand, Restart, counts, vars
<1> QED BY <1>1, <1>2, <1>3, <1>4 DEF Next

\* A sort comes to its futures when it has found the count at 0.
LEMMA GatheringStep ==
    ASSUME Fits, [Next]_vars, NEW s \in Sort, pc'[s] \in {"gathering", "returned"},
           pc[s] \notin {"gathering", "returned"}
    PROVE  inflight'[s] = 0 /\ (WaitForSpawns(s) \/ SortNothing(s))
<1>0. Sort \subseteq Thread /\ Worker \subseteq Thread /\ Sort \intersect Worker = {}
  BY ThreadsApart
<1>1. ASSUME NEW r \in Sort, CallerStep(r) \/ SpuriousWake(r)
      PROVE  inflight'[s] = 0 /\ (WaitForSpawns(s) \/ SortNothing(s))
  <2>1. r = s
    BY <1>0, <1>1 DEF CallerStep, SetBudget, SortWithoutBudget, SetUp, SortNothing, WaitForSpawns,
       GetFuture, Return, SpuriousWake, Goto, Fits, TypeOK
  <2>2. ~ (SetBudget(s) \/ SortWithoutBudget(s) \/ SetUp(s) \/ SpuriousWake(s) \/ GetFuture(s) \/ Return(s))
    BY <1>0 DEF SetBudget, SortWithoutBudget, SetUp, GetFuture, Return, SpuriousWake, Goto, Fits, TypeOK
  <2>3. CASE WaitForSpawns(s)
    BY <1>0, <2>3 DEF WaitForSpawns, SpawnsDone, counts, Goto, Fits, TypeOK
  <2>4. CASE SortNothing(s)
    BY <1>0, <2>4 DEF SortNothing, counts, Fits, FreshSorts
  <2> QED BY <1>1, <2>1, <2>2, <2>3, <2>4 DEF CallerStep
<1>2. ASSUME NEW t \in Thread, QuicksortStep(t) \/ PartitionLeftHalf(t) PROVE FALSE
  <2>1. CASE PartitionAlone(t) \/ SubmitLeftHalf(t) \/ PartitionRightHalf(t) \/ MergeHalves(t)
             \/ SpawnFirst(t) \/ CountLeaf(t)
    <3>1. PICK l \in {"leaf", "split", "right", "joining", "spawning", "notifying"} : pc' = [pc EXCEPT ![t] = l]
      BY <2>1 DEF PartitionAlone, SubmitLeftHalf, PartitionRightHalf, MergeHalves, SpawnFirst,
         CountLeaf, AfterPartition, Goto
    <3> QED BY <1>0, <3>1 DEF Fits, TypeOK
  <2>2. CASE NotifyCaller(t)
    BY <1>0, <2>2 DEF NotifyCaller
  <2>3. CASE Ends(t)
    BY <1>0, <2>3, EndsLeave
  <2> QED BY <1>2, <2>1, <2>2, <2>3 DEF QuicksortStep, Ends
<1>3. ASSUME NEW w \in Worker, WorkerStep(w) PROVE FALSE
  <2>1. CASE TakeTask(w)
    BY <1>0, <2>1, TakeFits
  <2> QED BY <1>0, <1>2, <1>3, <2>1 DEF WorkerStep
<1>4. ~(Resize \/ Restart) /\ ~UNCHANGED vars
  BY DEF Resize, Contract, Expand, Restart, vars
<1> QED BY <1>1, <1>2, <1>3, <1>4 DEF Next

\* A count of 0 leaves no call that may still append to the vector.
LEMMA NothingCounted ==
    ASSUME Fits, Counts, NEW s \in Sort, inflight[s] = 0
    PROVE  Waiting(s) = {} /\ Deciding(s) = {} /\ Excess(s) = 0
<1>1. Excess(s) >= 0 /\ Excess(s) = 0 - (Cardinality(Waiting(s)) + Cardinality(Deciding(s)))
  BY DEF Counts, Excess, Counted
<1>2. Cardinality(Waiting(s)) = 0 /\ Cardinality(Deciding(s)) = 0 /\ Excess(s) = 0
  BY <1>1, CountsFinite
<1> QED BY <1>2, CountsFinite, FS_EmptySet

LEMMA InitCounts == Init => Counts
<1> SUFFICES ASSUME Init PROVE Counts
  OBVIOUS
<1>1. InQueue = {} /\ Running = {} /\ DOMAIN queue = {}
  BY DEF Init, InQueue, Running, Thread
<1>2. ASSUME NEW s \in Sort PROVE Excess(s) = 0 /\ pc[s] = "idle"
  <2>1. pc[s] = "idle" /\ inflight[s] = 0
    BY DEF Init, Thread
  <2>2. Waiting(s) = {} /\ Deciding(s) = {}
    BY <1>1 DEF Waiting, Deciding, Init
  <2> QED BY <2>1, <2>2, FS_EmptySet DEF Excess, Counted
<1>3. LeftHalves = {}
  BY <1>1 DEF LeftHalves
<1> QED BY <1>2, <1>3 DEF Counts

LEMMA StepCounts == ASSUME Fits, Owned, Counts, [Next]_vars PROVE Counts'
<1>1. ASSUME NEW s \in Sort
      PROVE  Excess(s) \in Int /\ Excess(s)' \in Int /\ Excess(s)' >= Excess(s) /\ Excess(s)' >= 0
  <2>1. Excess(s) \in Int /\ Excess(s) >= 0
    BY CountsFinite DEF Counts
  <2>2. CASE \E t \in Thread : Throws(t)
    BY <2>1, <2>2, MoreExcess
  <2>3. CASE ~ \E t \in Thread : Throws(t)
    BY <2>1, <2>3, SameExcess
  <2> QED BY <2>2, <2>3
<1>2. ASSUME NEW h \in LeftHalves'
      PROVE  Excess(h.sort)' > 0 \/ \E t \in Joiners' : h = LeftHalf(t)'
  <2>1. h.sort \in Sort
    BY LeftHalvesStep
  <2>2. CASE h \in LeftHalves /\ Excess(h.sort) > 0
    BY <1>1, <2>1, <2>2
  <2>3. ASSUME h \in LeftHalves, NEW u \in Joiners, h = LeftHalf(u)
        PROVE  Excess(h.sort)' > 0 \/ \E t \in Joiners' : h = LeftHalf(t)'
    <3>1. u \in Thread /\ u \in Deciding(h.sort) /\ pc[u] \in {"right", "joining"}
      BY <2>3 DEF Joiners, Running, Deciding, LeftHalf, LeftTask
    <3>2. h \notin DOMAIN ready
      <4>1. h \in Live
        BY <2>3 DEF Live, LeftHalves, Call, Fits, PlacesFit, PlaceFits, Running
      <4> QED BY <4>1 DEF Owned, NotReady
    <3>3. ~MergeHalves(u)
      BY <2>3, <3>2 DEF MergeHalves
    <3>4. CASE Throws(u)
      <4>1. Excess(h.sort)' = Excess(h.sort) + 1
        BY <2>1, <3>1, <3>4, MoreExcess
      <4> QED BY <4>1, <2>1, CountsFinite DEF Counts
    <3>5. CASE ~Throws(u)
      BY <2>3, <3>3, <3>5, JoinersStep
    <3> QED BY <3>4, <3>5
  <2> QED BY <2>2, <2>3, LeftHalvesStep DEF Counts
<1>3. ASSUME NEW s \in Sort, pc'[s] \in {"gathering", "returned"} PROVE inflight'[s] = 0
  <2>1. CASE pc[s] \in {"gathering", "returned"}
    <3>1. inflight[s] = 0
      BY <2>1 DEF Counts
    <3>2. Deciding(s) = {}
      BY <3>1, NothingCounted
    <3> QED BY <2>1, <3>1, <3>2, InflightStep
  <2>2. CASE pc[s] \notin {"gathering", "returned"}
    BY <1>3, <2>2, GatheringStep
  <2> QED BY <2>1, <2>2
<1> QED BY <1>1, <1>2, <1>3 DEF Counts

LEMMA AlwaysCounts == Spec => [](Fits /\ Owned /\ Counts)
<1>1. Init => Fits /\ Owned /\ Counts
  BY InitFits, InitOwned, InitCounts
<1>2. Fits /\ Owned /\ Counts /\ [Next]_vars => (Fits /\ Owned /\ Counts)'
  BY StepFits, StepOwned, StepCounts
<1> QED BY <1>1, <1>2, PTL DEF Spec

\* inflight_spawns counts every call of quicksort_impl that may still append to the futures
\* vector, from parallel_quicksort's first statement on, whatever throws.
THEOREM EveryCallCounted == Spec => []CountCovers
<1>1. Fits /\ Counts => CountCovers
  <2> SUFFICES ASSUME Fits, Counts, NEW s \in Sort
               PROVE  Cardinality(Waiting(s)) + Cardinality(Deciding(s)) <= inflight[s]
    BY DEF CountCovers
  <2> QED BY CountsFinite DEF Counts, Excess, Counted
<1> QED BY <1>1, AlwaysCounts, PTL

-----------------------------------------------------------------------------
(* The futures vector holds every call, and get_futures waits for them all.  *)

LEMMA FuturesStep ==
    ASSUME Fits, [Next]_vars, NEW s \in Sort
    PROVE  \/ futures'[s] = futures[s]
           \/ \E t \in Deciding(s) :
                 \/ /\ SpawnFirst(t)
                    /\ futures'[s] = Append(futures[s], QuicksortTask(s, job[t].lo, mid[t]))
                 \/ /\ SpawnSecond(t)
                    /\ futures'[s] = Append(futures[s], QuicksortTask(s, mid[t], job[t].hi))
<1>1. ASSUME NEW t \in Thread, SpawnFirst(t) \/ SpawnSecond(t), job[t].sort = s
      PROVE  \E u \in Deciding(s) :
                 \/ /\ SpawnFirst(u)
                    /\ futures'[s] = Append(futures[s], QuicksortTask(s, job[u].lo, mid[u]))
                 \/ /\ SpawnSecond(u)
                    /\ futures'[s] = Append(futures[s], QuicksortTask(s, mid[u], job[u].hi))
  <2>1. t \in Deciding(s)
    BY <1>1 DEF SpawnFirst, SpawnSecond, Deciding
  <2>2. CASE SpawnFirst(t)
    BY <1>1, <2>1, <2>2 DEF SpawnFirst, Fits, TypeOK
  <2>3. CASE SpawnSecond(t)
    BY <1>1, <2>1, <2>3 DEF SpawnSecond, Fits, TypeOK
  <2> QED BY <1>1, <2>2, <2>3
<1>2. ASSUME NEW t \in Thread, SpawnFirst(t) \/ SpawnSecond(t), job[t].sort # s
      PROVE  futures'[s] = futures[s]
  BY <1>2 DEF SpawnFirst, SpawnSecond, Fits, TypeOK
<1>3. ASSUME NEW t \in Thread, QuicksortStep(t), ~SpawnFirst(t), ~SpawnSecond(t)
      PROVE  futures'[s] = futures[s]
  BY <1>3 DEF QuicksortStep, PartitionAlone, SubmitLeftHalf, PartitionRightHalf, MergeHalves,
     CountLeaf, NotifyCaller, SortLeaf, ThrowAlone, Throw, counts
<1>4. ASSUME NEW r \in Sort, CallerStep(r) \/ SpuriousWake(r) PROVE futures'[s] = futures[s]
  BY <1>4 DEF CallerStep, SetBudget, SortWithoutBudget, SetUp, SortNothing, WaitForSpawns,
     GetFuture, Return, SpuriousWake, counts
<1>5. ASSUME NEW w \in Worker, WorkerStep(w) PROVE futures'[s] = futures[s]
  BY <1>5 DEF WorkerStep, TakeTask, PartitionLeftHalf, counts
<1>6. ASSUME Resize \/ Restart \/ UNCHANGED vars PROVE futures'[s] = futures[s]
  BY <1>6 DEF Resize, Contract, Expand, Restart, counts, vars
<1> QED BY <1>1, <1>2, <1>3, <1>4, <1>5, <1>6 DEF Next

LEMMA FuturesGrow ==
    ASSUME Fits, [Next]_vars, NEW s \in Sort
    PROVE  /\ Len(futures[s]) \in Nat /\ Len(futures'[s]) \in Nat
           /\ DOMAIN futures[s] = 1 .. Len(futures[s])
           /\ Len(futures[s]) <= Len(futures'[s])
           /\ \A i \in 1 .. Len(futures[s]) : futures'[s][i] = futures[s][i]
           /\ InFutures(s) \subseteq InFutures(s)'
           /\ \A c \in InFutures(s)' : c \in InFutures(s) \/ c.part = "impl"
<1>1. futures[s] \in Seq(TaskType)
  BY DEF Fits, TypeOK
<1>2. CASE futures'[s] = futures[s]
  BY <1>1, <1>2 DEF InFutures
<1>3. ASSUME NEW c \in TaskType, c.part = "impl", futures'[s] = Append(futures[s], c)
      PROVE  /\ Len(futures[s]) \in Nat /\ Len(futures'[s]) \in Nat
             /\ DOMAIN futures[s] = 1 .. Len(futures[s])
             /\ Len(futures[s]) <= Len(futures'[s])
             /\ \A i \in 1 .. Len(futures[s]) : futures'[s][i] = futures[s][i]
             /\ InFutures(s)' = InFutures(s) \union {c}
  <2>1. Len(futures[s]) \in Nat
    BY <1>1
  <2>2. /\ Len(futures'[s]) = Len(futures[s]) + 1 /\ DOMAIN futures[s] = 1 .. Len(futures[s])
        /\ \A i \in DOMAIN futures[s] : futures'[s][i] = futures[s][i]
    BY <1>1, <1>3, AppendItems
  <2>3. InFutures(s)' = InFutures(s) \union {c}
    BY <1>1, <1>3, AppendItems DEF InFutures
  <2> QED BY <2>1, <2>2, <2>3
<1>4. ASSUME NEW t \in Deciding(s), NEW c, futures'[s] = Append(futures[s], c),
             \/ SpawnFirst(t) /\ c = QuicksortTask(s, job[t].lo, mid[t])
             \/ SpawnSecond(t) /\ c = QuicksortTask(s, mid[t], job[t].hi)
      PROVE  c \in TaskType /\ c.part = "impl"
  <2>1. t \in Thread /\ job[t].sort = s
    BY DEF Deciding
  <2>2. c.part = "impl"
    BY <1>4 DEF QuicksortTask
  <2>3. Next
    BY <1>4, <2>1 DEF Next, QuicksortStep
  <2> QED BY <1>4, <2>1, <2>2, <2>3, SubmitFits
<1>5. futures'[s] = futures[s] \/ \E c \in TaskType : c.part = "impl" /\ futures'[s] = Append(futures[s], c)
  <2>1. CASE futures'[s] # futures[s]
    <3>1. PICK t \in Deciding(s) :
             \/ /\ SpawnFirst(t)
                /\ futures'[s] = Append(futures[s], QuicksortTask(s, job[t].lo, mid[t]))
             \/ /\ SpawnSecond(t)
                /\ futures'[s] = Append(futures[s], QuicksortTask(s, mid[t], job[t].hi))
      BY <2>1, FuturesStep
    <3> QED BY <1>4, <3>1
  <2> QED BY <2>1
<1>6. CASE futures'[s] # futures[s]
  <2>1. PICK c \in TaskType : c.part = "impl" /\ futures'[s] = Append(futures[s], c)
    BY <1>5, <1>6
  <2> QED BY <1>3, <2>1
<1> QED BY <1>2, <1>6

\* The caller walks the vector while nobody else changes it.
LEMMA FuturesStayed ==
    ASSUME Fits, Counts, [Next]_vars, NEW s \in Sort, pc[s] \in {"gathering", "returned"}
    PROVE  futures'[s] = futures[s]
<1>1. Deciding(s) = {}
  BY NothingCounted DEF Counts
<1> QED BY <1>1, FuturesStep

\* The caller's walk over the futures vector meets no change of it.
THEOREM FuturesNeverChange == Spec => FuturesStable
<1>1. Fits /\ Counts /\ [Next]_vars =>
        [\A s \in Sort : pc[s] \in {"gathering", "returned"} => futures'[s] = futures[s]]_vars
  BY FuturesStayed
<1> QED BY <1>1, AlwaysCounts, PTL DEF Spec, FuturesStable

\* Only the left half that was waited for is forgotten.
LEMMA ReadyStays ==
    ASSUME Fits, [Next]_vars, NEW c \in DOMAIN ready, c.part = "impl"
    PROVE  c \in DOMAIN ready'
<1>1. ASSUME NEW t \in Thread, MergeHalves(t) PROVE c \in DOMAIN ready'
  <2>1. DOMAIN ready' = DOMAIN ready \ {LeftHalf(t)} /\ LeftHalf(t).part = "left"
    BY <1>1 DEF MergeHalves, LeftHalf, LeftTask
  <2> QED BY <2>1
<1>2. ASSUME NEW t \in Thread, Ends(t) PROVE c \in DOMAIN ready'
  BY <1>2, EndsLeave
<1>3. ASSUME NEW t \in Thread, QuicksortStep(t), ~MergeHalves(t), ~Ends(t) PROVE c \in DOMAIN ready'
  BY <1>3 DEF QuicksortStep, Ends, PartitionAlone, SubmitLeftHalf, PartitionRightHalf, SpawnFirst,
     CountLeaf, NotifyCaller, pool
<1>4. ASSUME NEW r \in Sort, CallerStep(r) \/ SpuriousWake(r) PROVE c \in DOMAIN ready'
  BY <1>4 DEF CallerStep, SetBudget, SortWithoutBudget, SetUp, SortNothing, WaitForSpawns,
     GetFuture, Return, SpuriousWake, pool
<1>5. ASSUME NEW w \in Worker, WorkerStep(w) PROVE c \in DOMAIN ready'
  BY <1>2, <1>5, ThreadsApart DEF WorkerStep, TakeTask, Ends
<1>6. ASSUME Resize \/ Restart \/ UNCHANGED vars PROVE c \in DOMAIN ready'
  BY <1>6 DEF Resize, Contract, Expand, Restart, vars
<1> QED BY <1>1, <1>2, <1>3, <1>4, <1>5, <1>6 DEF Next

LEMMA GotStep ==
    ASSUME Fits, [Next]_vars, NEW s \in Sort, got'[s] # got[s]
    PROVE  /\ GetFuture(s) /\ pc[s] = "gathering" /\ got'[s] = got[s] + 1 /\ pc' = pc
           /\ got[s] < Len(futures[s]) /\ futures[s][got[s] + 1] \in DOMAIN ready
<1>1. ASSUME NEW r \in Sort, GetFuture(r)
      PROVE  /\ GetFuture(s) /\ pc[s] = "gathering" /\ got'[s] = got[s] + 1 /\ pc' = pc
             /\ got[s] < Len(futures[s]) /\ futures[s][got[s] + 1] \in DOMAIN ready
  <2>1. r = s
    BY <1>1 DEF GetFuture, Fits, TypeOK
  <2> QED BY <1>1, <2>1 DEF GetFuture, Fits, TypeOK
<1>2. ASSUME NEW r \in Sort, CallerStep(r) \/ SpuriousWake(r), ~GetFuture(r) PROVE FALSE
  BY <1>2 DEF CallerStep, SetBudget, SortWithoutBudget, SetUp, SortNothing, WaitForSpawns,
     Return, SpuriousWake, counts
<1>3. ASSUME NEW t \in Thread, QuicksortStep(t) PROVE FALSE
  BY <1>3 DEF QuicksortStep, PartitionAlone, SubmitLeftHalf, PartitionRightHalf, MergeHalves,
     SpawnFirst, SpawnSecond, CountLeaf, NotifyCaller, SortLeaf, ThrowAlone, Throw, counts
<1>4. ASSUME NEW w \in Worker, WorkerStep(w) PROVE FALSE
  BY <1>4 DEF WorkerStep, TakeTask, PartitionLeftHalf, counts
<1>5. ~(Resize \/ Restart \/ UNCHANGED vars)
  BY DEF Resize, Contract, Expand, Restart, counts, vars
<1> QED BY <1>1, <1>2, <1>3, <1>4, <1>5 DEF Next

\* A queued call was queued before, or its future has just joined the vector.
LEMMA QueuedCallsStep ==
    ASSUME Fits, [Next]_vars, NEW c \in InQueue', c.part = "impl", c \notin InQueue
    PROVE  c.sort \in Sort /\ c \in InFutures(c.sort)'
<1>1. PICK t \in Thread : SpawnFirst(t) \/ SpawnSecond(t)
  <2>1. ASSUME NEW r \in Sort, CallerStep(r) \/ SpuriousWake(r) PROVE FALSE
    BY <2>1 DEF CallerStep, SetBudget, SortWithoutBudget, SetUp, SortNothing, WaitForSpawns,
       GetFuture, Return, SpuriousWake, pool, InQueue
  <2>2. ASSUME NEW t \in Thread, SubmitLeftHalf(t) PROVE FALSE
    <3>1. Next
      BY <2>2 DEF Next, QuicksortStep
    <3>2. c = LeftTask(job[t].sort, job[t].lo, Halfway(t), Pivot(t))
      BY <2>2, <3>1, SubmitFits
    <3> QED BY <3>2 DEF LeftTask
  <2>3. ASSUME NEW t \in Thread, QuicksortStep(t), ~SubmitLeftHalf(t), ~SpawnFirst(t), ~SpawnSecond(t)
        PROVE FALSE
    BY <2>3 DEF QuicksortStep, PartitionAlone, PartitionRightHalf, MergeHalves,
       CountLeaf, NotifyCaller, SortLeaf, ThrowAlone, Throw, pool, InQueue
  <2>4. ASSUME NEW w \in Worker, TakeTask(w) PROVE FALSE
    BY <2>4, TakeFits
  <2>5. ASSUME NEW w \in Worker, PartitionLeftHalf(w) PROVE FALSE
    BY <2>5 DEF PartitionLeftHalf, InQueue
  <2>6. ~(Resize \/ Restart \/ UNCHANGED vars)
    BY DEF Resize, Contract, Expand, Restart, vars, InQueue
  <2> QED BY <2>1, <2>2, <2>3, <2>4, <2>5, <2>6 DEF Next, WorkerStep
<1>2. Next
  BY <1>1 DEF Next, QuicksortStep
<1>3. job[t].sort \in Sort /\ futures \in [Sort -> Seq(TaskType)]
  BY <1>1, <1>2, SubmitFits DEF Fits, TypeOK
<1>4. ASSUME NEW d \in TaskType, d.sort = job[t].sort, InQueue' = InQueue \union {d},
             futures' = [futures EXCEPT ![job[t].sort] = Append(@, d)]
      PROVE  c.sort \in Sort /\ c \in InFutures(c.sort)'
  <2>1. c = d /\ c.sort = job[t].sort
    BY <1>4
  <2>2. futures'[c.sort] = Append(futures[c.sort], d)
    BY <1>3, <1>4, <2>1
  <2> QED BY <1>3, <2>1, <2>2, AppendItems DEF InFutures
<1>5. CASE SpawnFirst(t)
  <2> DEFINE d == QuicksortTask(job[t].sort, job[t].lo, mid[t])
  <2>1. d \in TaskType /\ d.sort = job[t].sort /\ InQueue' = InQueue \union {d}
    BY <1>2, <1>5, SubmitFits
  <2>2. futures' = [futures EXCEPT ![job[t].sort] = Append(@, d)]
    BY <1>5 DEF SpawnFirst
  <2> HIDE DEF d
  <2> QED BY <1>4, <2>1, <2>2
<1>6. CASE SpawnSecond(t)
  <2> DEFINE d == QuicksortTask(job[t].sort, mid[t], job[t].hi)
  <2>1. d \in TaskType /\ d.sort = job[t].sort /\ InQueue' = InQueue \union {d}
    BY <1>2, <1>6, SubmitFits
  <2>2. futures' = [futures EXCEPT ![job[t].sort] = Append(@, d)]
    BY <1>6 DEF SpawnSecond
  <2> HIDE DEF d
  <2> QED BY <1>4, <2>1, <2>2
<1> QED BY <1>1, <1>5, <1>6

\* A worker runs the task it ran before, or the first in the queue.
LEMMA WorkersJobStep ==
    ASSUME Fits, [Next]_vars, NEW w \in Worker, job'[w] # NoTask
    PROVE  job'[w] \in InQueue \/ (w \in Running /\ job'[w] = job[w])
<1>0. Sort \subseteq Thread /\ Worker \subseteq Thread /\ Sort \intersect Worker = {}
  BY ThreadsApart
<1>1. ASSUME NEW r \in Sort, CallerStep(r) \/ SpuriousWake(r) PROVE job'[w] = job[w]
  BY <1>0, <1>1 DEF CallerStep, SetBudget, SortWithoutBudget, SetUp, SortNothing, WaitForSpawns,
     GetFuture, Return, SpuriousWake, frames, Fits, TypeOK
<1>2. ASSUME NEW t \in Thread, Ends(t) PROVE job'[w] = job[w]
  BY <1>0, <1>2, EndsLeave
<1>3. ASSUME NEW t \in Thread, QuicksortStep(t), ~Ends(t) PROVE job'[w] = job[w]
  BY <1>3 DEF QuicksortStep, Ends, PartitionAlone, SubmitLeftHalf, PartitionRightHalf, MergeHalves,
     SpawnFirst, CountLeaf, NotifyCaller, frames
<1>4. ASSUME NEW v \in Worker, TakeTask(v) PROVE job'[w] \in InQueue \/ job'[w] = job[w]
  BY <1>0, <1>4, TakeFits
<1>5. ASSUME Resize \/ Restart \/ UNCHANGED vars PROVE job'[w] = job[w]
  BY <1>5 DEF Resize, Contract, Expand, Restart, vars, frames
<1>6. job'[w] \in InQueue \/ job'[w] = job[w]
  BY <1>0, <1>1, <1>2, <1>3, <1>4, <1>5 DEF Next, WorkerStep, Ends
<1> QED BY <1>0, <1>6 DEF Running

LEMMA InitFutures == Init => FuturesHold
<1> SUFFICES ASSUME Init PROVE FuturesHold
  OBVIOUS
<1>1. InQueue = {} /\ Running = {}
  BY DEF Init, InQueue, Running, Thread
<1>2. ASSUME NEW s \in Sort PROVE InFutures(s) = {} /\ got[s] = 0 /\ futures[s] = <<>> /\ pc[s] = "idle"
  BY DEF Init, InFutures, Thread
<1> QED BY <1>1, <1>2 DEF FuturesHold

LEMMA StepFutures == ASSUME Fits, Counts, FuturesHold, [Next]_vars PROVE FuturesHold'
<1>0. Sort \subseteq Thread /\ Worker \subseteq Thread /\ Sort \intersect Worker = {}
  BY ThreadsApart
<1>1. ASSUME NEW s \in Sort, NEW c \in InQueue', c.sort = s, c.part = "impl" PROVE c \in InFutures(s)'
  <2>1. CASE c \in InQueue
    BY <1>1, <2>1, FuturesGrow DEF FuturesHold
  <2>2. CASE c \notin InQueue
    BY <1>1, <2>2, QueuedCallsStep
  <2> QED BY <2>1, <2>2
<1>2. ASSUME NEW s \in Sort, NEW w \in Worker, w \in Running', job'[w].sort = s, job'[w].part = "impl"
      PROVE  job'[w] \in InFutures(s)'
  <2>1. job'[w] # NoTask
    BY <1>2 DEF Running
  <2>2. job'[w] \in InFutures(s)
    BY <1>2, <2>1, WorkersJobStep DEF FuturesHold
  <2> QED BY <2>2, FuturesGrow
<1>3. ASSUME NEW s \in Sort, NEW c \in InFutures(s)' PROVE c.part = "impl"
  BY <1>3, FuturesGrow DEF FuturesHold
<1>4. ASSUME NEW s \in Sort
      PROVE  /\ got'[s] <= Len(futures'[s])
             /\ \A i \in 1 .. got'[s] : futures'[s][i] \in DOMAIN ready'
  <2>1. /\ Len(futures[s]) \in Nat /\ Len(futures'[s]) \in Nat /\ Len(futures[s]) <= Len(futures'[s])
        /\ DOMAIN futures[s] = 1 .. Len(futures[s])
        /\ \A i \in 1 .. Len(futures[s]) : futures'[s][i] = futures[s][i]
    BY FuturesGrow
  <2>2. /\ got[s] \in Nat /\ got[s] <= Len(futures[s])
        /\ \A i \in 1 .. got[s] : futures[s][i] \in DOMAIN ready
    BY DEF FuturesHold, Fits, TypeOK
  <2>3. ASSUME NEW i \in 1 .. Len(futures[s]), futures[s][i] \in DOMAIN ready
        PROVE  futures'[s][i] \in DOMAIN ready'
    <3>1. futures[s][i].part = "impl"
      BY <2>1 DEF FuturesHold, InFutures
    <3> QED BY <2>1, <2>3, <3>1, ReadyStays
  <2>4. got'[s] = got[s] \/ (got'[s] = got[s] + 1 /\ got[s] < Len(futures[s]) /\ futures[s][got[s] + 1] \in DOMAIN ready)
    BY GotStep
  <2>5. got'[s] \in Nat /\ got'[s] <= Len(futures[s])
        /\ \A i \in 1 .. got'[s] : i \in 1 .. Len(futures[s]) /\ futures[s][i] \in DOMAIN ready
    BY <2>1, <2>2, <2>4
  <2> QED BY <2>1, <2>3, <2>5
<1>5. ASSUME NEW s \in Sort, pc'[s] = "returned" PROVE got'[s] = Len(futures'[s])
  <2>1. CASE pc[s] = "returned"
    BY <2>1, FuturesStayed, GotStep DEF FuturesHold
  <2>2. CASE pc[s] = "gathering"
    <3>1. futures'[s] = futures[s]
      BY <2>2, FuturesStayed
    <3>2. got'[s] = got[s]
      BY <1>5, <2>2, GotStep
    <3>3. got[s] = Len(futures[s])
      <4>1. ASSUME NEW r \in Sort, CallerStep(r) \/ SpuriousWake(r) PROVE Return(s)
        <5>1. r = s
          BY <1>0, <1>5, <2>2, <4>1 DEF CallerStep, SetBudget, SortWithoutBudget, SetUp, SortNothing,
             WaitForSpawns, GetFuture, Return, SpuriousWake, Goto, Fits, TypeOK
        <5> QED BY <1>0, <1>5, <2>2, <4>1, <5>1 DEF CallerStep, SetBudget, SortWithoutBudget, SetUp,
               SortNothing, WaitForSpawns, GetFuture, SpuriousWake, Goto, Fits, TypeOK
      <4>2. ASSUME NEW t \in Thread, Ends(t) PROVE FALSE
        BY <1>0, <1>5, <2>2, <4>2, EndsLeave
      <4>3. ASSUME NEW t \in Thread, QuicksortStep(t), ~Ends(t) PROVE FALSE
        <5>1. CASE NotifyCaller(t)
          BY <1>0, <1>5, <2>2, <5>1 DEF NotifyCaller
        <5>2. CASE ~NotifyCaller(t)
          <6>1. PICK l \in {"leaf", "split", "right", "joining", "spawning", "notifying"} : pc' = [pc EXCEPT ![t] = l]
            BY <4>3, <5>2 DEF QuicksortStep, Ends, PartitionAlone, SubmitLeftHalf, PartitionRightHalf,
               MergeHalves, SpawnFirst, CountLeaf, AfterPartition, Goto
          <6> QED BY <1>0, <1>5, <2>2, <6>1 DEF Fits, TypeOK
        <5> QED BY <5>1, <5>2
      <4>4. ASSUME NEW w \in Worker, TakeTask(w) PROVE FALSE
        BY <1>0, <1>5, <2>2, <4>4, TakeFits
      <4>5. ~(Resize \/ Restart \/ UNCHANGED vars)
        BY <1>5, <2>2 DEF Resize, Contract, Expand, Restart, vars
      <4>6. Return(s)
        BY <1>0, <4>1, <4>2, <4>3, <4>4, <4>5 DEF Next, WorkerStep, Ends
      <4> QED BY <4>6 DEF Return, Gathered
    <3> QED BY <3>1, <3>2, <3>3
  <2>3. CASE pc[s] \notin {"gathering", "returned"}
    <3>1. SortNothing(s)
      BY <1>0, <1>5, <2>3, GatheringStep DEF WaitForSpawns, Goto, Fits, TypeOK
    <3> QED BY <3>1 DEF SortNothing, counts, Fits, FreshSorts
  <2> QED BY <2>1, <2>2, <2>3
<1> QED BY <1>1, <1>2, <1>3, <1>4, <1>5 DEF FuturesHold

LEMMA AlwaysInv == Spec => []Inv
<1>1. Init => Inv
  BY InitFits, InitOwned, InitCounts, InitFutures DEF Inv
<1>2. Inv /\ [Next]_vars => Inv'
  BY StepFits, StepOwned, StepCounts, StepFutures DEF Inv
<1> QED BY <1>1, <1>2, PTL DEF Spec

LEMMA NothingLeft == ASSUME Inv PROVE ReturnsClean
<1>1. ASSUME NEW s \in Sort, pc[s] = "returned"
      PROVE  /\ \A i \in DOMAIN queue : queue[i].sort # s
             /\ \A t \in Thread : job[t] # NoTask => job[t].sort # s
  <2>1. inflight[s] = 0 /\ Deciding(s) = {} /\ Waiting(s) = {} /\ Excess(s) = 0
    BY <1>1, NothingCounted DEF Inv, Counts
  <2>2. ASSUME NEW h \in LeftHalves, h.sort = s PROVE FALSE
    <3>1. PICK t \in Joiners : h = LeftHalf(t)
      BY <1>1, <2>1, <2>2 DEF Inv, Counts
    <3>2. t \in Deciding(s)
      BY <2>2, <3>1 DEF Joiners, Running, Deciding, LeftHalf, LeftTask
    <3> QED BY <2>1, <3>2
  <2>3. ASSUME NEW c \in InFutures(s) PROVE c \in DOMAIN ready
    <3>1. got[s] = Len(futures[s]) /\ \A i \in 1 .. got[s] : futures[s][i] \in DOMAIN ready
      BY <1>1 DEF Inv, FuturesHold
    <3>2. DOMAIN futures[s] = 1 .. Len(futures[s])
      BY <1>1 DEF Inv, Fits, TypeOK
    <3> QED BY <3>1, <3>2 DEF InFutures
  <2>4. ASSUME NEW c \in Live PROVE c \in TaskType /\ c.part \in {"impl", "left"} /\ c \notin DOMAIN ready
    BY <1>1, PartsFit DEF Inv, Owned, NotReady
  <2>5. ASSUME NEW i \in DOMAIN queue, queue[i].sort = s PROVE FALSE
    <3>1. queue[i] \in InQueue /\ queue[i] \in Live
      BY DEF InQueue, Live
    <3>2. CASE queue[i].part = "impl"
      BY <1>1, <2>3, <2>4, <2>5, <3>1, <3>2 DEF Inv, FuturesHold
    <3>3. CASE queue[i].part = "left"
      BY <2>2, <2>5, <3>1, <3>3 DEF LeftHalves
    <3> QED BY <2>4, <3>1, <3>2, <3>3
  <2>6. ASSUME NEW t \in Thread, job[t] # NoTask, job[t].sort = s PROVE FALSE
    <3>1. t \in Running /\ pc[t] # "spawning"
      BY <2>1, <2>6 DEF Running, Deciding
    <3>2. job[t] \in Live
      BY <3>1 DEF Live, Call
    <3>3. t \in Worker
      <4>1. t \notin Sort
        BY <1>1, <2>6, <3>1 DEF Inv, Fits, PlacesFit, PlaceFits, Busy
      <4> QED BY <4>1 DEF Thread
    <3>4. CASE job[t].part = "impl"
      BY <1>1, <2>3, <2>4, <2>6, <3>1, <3>2, <3>3, <3>4 DEF Inv, FuturesHold
    <3>5. CASE job[t].part = "left"
      BY <2>2, <2>6, <3>1, <3>5 DEF LeftHalves
    <3> QED BY <2>4, <3>2, <3>4, <3>5
  <2> QED BY <2>5, <2>6
<1> QED BY <1>1 DEF ReturnsClean

\* A sort that returns leaves no task behind: none that is counted, as the count is 0, no
\* left half, as nothing was thrown, and no call whose future it has not been through.
THEOREM LeavesClean == Spec => []ReturnsClean
<1>1. Inv => ReturnsClean
  BY NothingLeft
<1> QED BY <1>1, AlwaysInv, PTL

-----------------------------------------------------------------------------
(* When nothing throws.                                                     *)

NoneThrew == (\A c \in DOMAIN ready : ready[c].ok) /\ \A s \in Sort : Excess(s) = 0

\* Without exceptions inflight_spawns is the number of calls still to come to a leaf or to
\* split, neither more nor less.
THEOREM CountsNothingElse == ASSUME MayThrow = FALSE PROVE Spec => []CountExact
<1>1. Init => NoneThrew
  <2> SUFFICES ASSUME Init PROVE NoneThrew
    OBVIOUS
  <2>1. DOMAIN ready = {} /\ DOMAIN queue = {}
    BY DEF Init
  <2>2. ASSUME NEW s \in Sort PROVE Waiting(s) = {} /\ Deciding(s) = {} /\ inflight[s] = 0
    BY <2>1 DEF Waiting, Deciding, Init
  <2>3. Cardinality({}) = 0
    BY FS_EmptySet
  <2>4. ASSUME NEW s \in Sort PROVE Excess(s) = 0
    BY <2>2, <2>3 DEF Excess, Counted
  <2> QED BY <2>1, <2>4 DEF NoneThrew
<1>2. ASSUME Fits, NoneThrew, NEW t \in Thread, Throws(t) PROVE FALSE
  BY <1>2 DEF Throws, ThrowAlone, Throw, LeftHalfThrew, NoneThrew
<1>3. ASSUME Fits, NoneThrew, [Next]_vars PROVE NoneThrew'
  <2>1. ASSUME NEW s \in Sort PROVE Excess(s)' = 0
    BY <1>2, <1>3, SameExcess DEF NoneThrew
  <2>2. ASSUME NEW c \in DOMAIN ready' PROVE ready'[c].ok
    <3>1. ASSUME NEW t \in Thread, Ends(t) PROVE ready'[c].ok
      <4>1. t \in Running
        BY <1>3, <3>1, EndsFinish
      <4>2. PICK at \in Nat : Finish(t, TRUE, at)
        <5>1. CASE SpawnSecond(t)
          BY <5>1 DEF SpawnSecond, Finish
        <5>2. CASE SortLeaf(t)
          BY <5>2 DEF SortLeaf
        <5>3. CASE PartitionLeftHalf(t)
          <6> DEFINE at == PartitionPoint(arr[job[t].sort], job[t].lo, job[t].hi, job[t].pivot)
          <6>1. job[t].lo \in Nat /\ job[t].hi \in Nat /\ job[t].lo < job[t].hi
            BY <1>3, <4>1, JobFits
          <6>2. at \in job[t].lo .. job[t].hi
            BY <6>1, PartitionPointType
          <6>3. Finish(t, TRUE, at)
            BY <5>3 DEF PartitionLeftHalf
          <6> HIDE DEF at
          <6>4. at \in Nat
            BY <6>1, <6>2
          <6> QED BY <6>3, <6>4
        <5> QED BY <1>2, <1>3, <3>1, <5>1, <5>2, <5>3 DEF Ends, Throws
      <4>3. /\ DOMAIN ready' = DOMAIN ready \union (IF t \in Worker THEN {job[t]} ELSE {})
            /\ \A d \in DOMAIN ready : (t \in Worker /\ d = job[t]) \/ ready'[d] = ready[d]
            /\ t \in Worker => ready'[job[t]] = [ok |-> TRUE, at |-> at]
        BY <1>3, <4>1, <4>2, FinishFits
      <4> QED BY <1>3, <4>3 DEF NoneThrew
    <3>2. ASSUME NEW t \in Thread, QuicksortStep(t), ~Ends(t) PROVE ready'[c].ok
      BY <1>3, <3>2 DEF QuicksortStep, Ends, PartitionAlone, SubmitLeftHalf, PartitionRightHalf,
         MergeHalves, SpawnFirst, CountLeaf, NotifyCaller, pool, NoneThrew
    <3>3. ASSUME NEW r \in Sort, CallerStep(r) \/ SpuriousWake(r) PROVE ready'[c].ok
      BY <1>3, <3>3 DEF CallerStep, SetBudget, SortWithoutBudget, SetUp, SortNothing, WaitForSpawns,
         GetFuture, Return, SpuriousWake, pool, NoneThrew
    <3>4. ASSUME NEW w \in Worker, TakeTask(w) PROVE ready'[c].ok
      BY <1>3, <3>4 DEF TakeTask, NoneThrew
    <3>5. ASSUME Resize \/ Restart \/ UNCHANGED vars PROVE ready'[c].ok
      BY <1>3, <3>5 DEF Resize, Contract, Expand, Restart, vars, NoneThrew
    <3> QED BY <1>3, <3>1, <3>2, <3>3, <3>4, <3>5, ThreadsApart DEF Next, WorkerStep, Ends
  <2> QED BY <2>1, <2>2 DEF NoneThrew
<1>4. Fits /\ NoneThrew => CountExact
  BY CountsFinite DEF NoneThrew, CountExact, Excess, Counted
<1> QED BY <1>1, <1>3, <1>4, AlwaysFits, PTL DEF Spec

-----------------------------------------------------------------------------
(* The budget: partitions in parallel leave a worker for the left halves.    *)

PoolSizes == Sizes \union {InitThreads}

\* The workers in partition_p2 for s.
Helpers(s) == {w \in Worker : pc[w] \in {"right", "joining"} /\ job[w].sort = s}

\* The root call, which is the caller's, has taken from the budget.
Spent(s) == futures[s] # <<>> \/ pc[s] \in {"right", "joining", "split", "spawning"}

Stake(s) == Cardinality(Helpers(s)) + (IF allowed[s] > 0 THEN allowed[s] ELSE 0)

\* What s got when it began, for some size of the pool, of which the root call, that runs in
\* no worker, takes one.
Budgeted(s) ==
    /\ allowed[s] > 0 => call[s].by = "sort"
    /\ \E n \in PoolSizes : /\ Stake(s) <= n \div 2
                            /\ Spent(s) /\ Stake(s) > 0 => Stake(s) < n \div 2

BudgetKept == Cardinality(alive) \in PoolSizes /\ \A s \in Sort : Budgeted(s)

LEMMA StakeType ==
    ASSUME Fits, NEW s \in Sort
    PROVE  IsFiniteSet(Helpers(s)) /\ Cardinality(Helpers(s)) \in Nat /\ allowed[s] \in Int /\ Stake(s) \in Nat
<1>1. IsFiniteSet(Helpers(s)) /\ Cardinality(Helpers(s)) \in Nat
  BY SortAssumption, FS_Subset, FS_CardinalityType DEF SortAssumption, Helpers
<1>2. allowed[s] \in Int
  BY DEF Fits, TypeOK
<1> QED BY <1>1, <1>2 DEF Stake

LEMMA PoolSizesFit == ASSUME NEW n \in PoolSizes PROVE n \in Nat /\ n \div 2 \in Nat
<1>1. Cardinality(Worker) \in Nat
  BY SortAssumption, FS_CardinalityType DEF SortAssumption
<1>2. n \in Nat
  BY <1>1, SortAssumption DEF SortAssumption, PoolSizes
<1> QED BY <1>2, HalfOf

\* A worker only has calls to run once the root call has split.
LEMMA WorkersSpent ==
    ASSUME Fits, FuturesHold, NEW s \in Sort, NEW w \in Worker, w \in Running,
           job[w].sort = s, job[w].part = "impl"
    PROVE  Spent(s)
<1>1. job[w] \in InFutures(s)
  BY DEF FuturesHold
<1> QED BY <1>1 DEF InFutures, Spent

LEMMA HelpersSpent ==
    ASSUME Fits, FuturesHold, NEW s \in Sort, Helpers(s) # {} PROVE Spent(s)
<1>1. PICK w \in Worker : pc[w] \in {"right", "joining"} /\ job[w].sort = s
  BY DEF Helpers
<1>2. w \in Thread
  BY ThreadsApart
<1>3. w \in Running /\ job[w].part # "left"
  BY <1>1, <1>2 DEF Fits, PlacesFit, PlaceFits, Busy
<1>4. job[w].part = "impl"
  BY <1>2, <1>3, JobFits
<1> QED BY <1>1, <1>3, <1>4, WorkersSpent

LEMMA HelpersStep ==
    ASSUME Fits, [Next]_vars, NEW s \in Sort, NEW w \in Helpers(s)'
    PROVE  /\ w \in Worker
           /\ w \in Helpers(s) \/ (SubmitLeftHalf(w) /\ job[w].sort = s)
<1>0. w \in Worker /\ w \in Thread /\ w \notin Sort /\ pc'[w] \in {"right", "joining"} /\ job'[w].sort = s
  BY ThreadsApart DEF Helpers
<1> DEFINE Kept == w \in Helpers(s) \/ (SubmitLeftHalf(w) /\ job[w].sort = s)
<1>1. ASSUME pc'[w] = pc[w], job'[w] = job[w] PROVE Kept
  BY <1>0, <1>1 DEF Helpers
<1>2. ASSUME NEW r \in Sort, CallerStep(r) \/ SpuriousWake(r) PROVE Kept
  <2>1. pc'[w] = pc[w] /\ job'[w] = job[w]
    BY <1>0, <1>2 DEF CallerStep, SetBudget, SortWithoutBudget, SetUp, SortNothing, WaitForSpawns,
       GetFuture, Return, SpuriousWake, Goto, frames, Fits, TypeOK
  <2> QED BY <1>1, <2>1
<1>3. ASSUME NEW t \in Thread, Ends(t) PROVE Kept
  <2>1. w # t
    BY <1>0, <1>3, EndsLeave
  <2> QED BY <1>0, <1>1, <1>3, <2>1, EndsLeave
<1>4. ASSUME NEW t \in Thread, QuicksortStep(t), ~Ends(t), t # w PROVE Kept
  <2>1. job'[w] = job[w]
    BY <1>4 DEF QuicksortStep, Ends, PartitionAlone, SubmitLeftHalf, PartitionRightHalf,
       MergeHalves, SpawnFirst, CountLeaf, NotifyCaller, frames
  <2>2. pc'[w] = pc[w]
    <3>1. CASE NotifyCaller(t)
      BY <1>0, <1>4, <3>1 DEF NotifyCaller
    <3>2. CASE ~NotifyCaller(t)
      <4>1. PICK l \in {"leaf", "split", "right", "joining", "spawning", "notifying"} : pc' = [pc EXCEPT ![t] = l]
        BY <1>4, <3>2 DEF QuicksortStep, Ends, PartitionAlone, SubmitLeftHalf, PartitionRightHalf,
           MergeHalves, SpawnFirst, CountLeaf, AfterPartition, Goto
      <4> QED BY <1>0, <1>4, <4>1 DEF Fits, TypeOK
    <3> QED BY <3>1, <3>2
  <2> QED BY <1>1, <2>1, <2>2
<1>5. ASSUME QuicksortStep(w), ~Ends(w) PROVE Kept
  <2>1. job'[w] = job[w]
    BY <1>5 DEF QuicksortStep, Ends, PartitionAlone, SubmitLeftHalf, PartitionRightHalf,
       MergeHalves, SpawnFirst, CountLeaf, NotifyCaller, frames
  <2>2. SubmitLeftHalf(w) \/ PartitionRightHalf(w)
    <3>1. ~NotifyCaller(w)
      BY <1>0 DEF NotifyCaller
    <3>2. ~PartitionAlone(w) /\ ~MergeHalves(w) /\ ~SpawnFirst(w) /\ ~CountLeaf(w)
      BY <1>0 DEF PartitionAlone, MergeHalves, SpawnFirst, CountLeaf, AfterPartition, Goto, Fits, TypeOK
    <3> QED BY <1>5, <3>1, <3>2 DEF QuicksortStep, Ends
  <2>3. SubmitLeftHalf(w) \/ pc[w] = "right"
    BY <2>2 DEF PartitionRightHalf
  <2> QED BY <1>0, <2>1, <2>3 DEF Helpers
<1>6. ASSUME NEW v \in Worker, TakeTask(v) PROVE Kept
  <2>1. w # v
    BY <1>0, <1>6, TakeFits
  <2> QED BY <1>0, <1>1, <1>6, <2>1, TakeFits
<1>7. ASSUME Resize \/ Restart \/ UNCHANGED vars PROVE Kept
  BY <1>1, <1>7 DEF Resize, Contract, Expand, Restart, vars, frames
<1> QED BY <1>0, <1>2, <1>3, <1>4, <1>5, <1>6, <1>7, ThreadsApart DEF Next, WorkerStep, Ends

LEMMA AllowedStep ==
    ASSUME Fits, [Next]_vars, NEW s \in Sort
    PROVE  /\ call'[s] = call[s]
           /\ \/ allowed'[s] = allowed[s]
              \/ allowed'[s] = allowed[s] - 1
              \/ SetBudget(s) /\ allowed'[s] = Cardinality(alive) \div 2
<1>0. allowed \in [Sort -> Int]
  BY DEF Fits, TypeOK
<1>1. ASSUME NEW r \in Sort, TakeFromBudget(r)
      PROVE  allowed'[s] = allowed[s] \/ allowed'[s] = allowed[s] - 1
  BY <1>0, <1>1 DEF TakeFromBudget
<1>2. ASSUME NEW t \in Thread, PartitionAlone(t) \/ SubmitLeftHalf(t) \/ ThrowAlone(t)
      PROVE  call' = call /\ (allowed'[s] = allowed[s] \/ allowed'[s] = allowed[s] - 1)
  <2>1. t \in Running
    BY <1>2 DEF PartitionAlone, SubmitLeftHalf, ThrowAlone, MustPartition, Fits, PlacesFit, PlaceFits, Busy
  <2>2. job[t].sort \in Sort
    BY <2>1, JobFits
  <2> QED BY <1>1, <1>2, <2>2 DEF PartitionAlone, SubmitLeftHalf, ThrowAlone, data
<1>3. ASSUME NEW t \in Thread, QuicksortStep(t), ~(PartitionAlone(t) \/ SubmitLeftHalf(t) \/ ThrowAlone(t))
      PROVE  call' = call /\ allowed' = allowed
  BY <1>3 DEF QuicksortStep, PartitionRightHalf, MergeHalves, SpawnFirst, SpawnSecond, CountLeaf,
     NotifyCaller, SortLeaf, Throw, data, counts
<1>4. ASSUME NEW r \in Sort, SetBudget(r)
      PROVE  /\ call' = call
             /\ allowed'[s] = allowed[s] \/ (SetBudget(s) /\ allowed'[s] = Cardinality(alive) \div 2)
  BY <1>0, <1>4 DEF SetBudget, data
<1>5. ASSUME NEW r \in Sort, CallerStep(r) \/ SpuriousWake(r), ~SetBudget(r)
      PROVE  call' = call /\ allowed' = allowed
  BY <1>5 DEF CallerStep, SortWithoutBudget, SetUp, SortNothing, WaitForSpawns, GetFuture,
     Return, SpuriousWake, data, counts
<1>6. ASSUME NEW w \in Worker, WorkerStep(w) PROVE call' = call /\ allowed' = allowed
  BY <1>6 DEF WorkerStep, TakeTask, PartitionLeftHalf, data, counts
<1>7. ASSUME Resize \/ Restart \/ UNCHANGED vars PROVE call' = call /\ allowed' = allowed
  BY <1>7 DEF Resize, Contract, Expand, Restart, vars, data, counts
<1> QED BY <1>2, <1>3, <1>4, <1>5, <1>6, <1>7 DEF Next

LEMMA SpentStep ==
    ASSUME Fits, FuturesHold, [Next]_vars, NEW s \in Sort, Spent(s)', ~Spent(s)
    PROVE  PartitionAlone(s) \/ SubmitLeftHalf(s)
<1>0. Sort \subseteq Thread /\ Worker \subseteq Thread /\ Sort \intersect Worker = {}
  BY ThreadsApart
<1>1. futures'[s] = futures[s]
  <2>1. SUFFICES ASSUME futures'[s] # futures[s] PROVE FALSE
    OBVIOUS
  <2>2. PICK t \in Deciding(s) : SpawnFirst(t) \/ SpawnSecond(t)
    BY <2>1, FuturesStep
  <2>3. pc[t] \in {"split", "spawning"} /\ job[t].sort = s /\ t \in Thread
    BY <2>2 DEF SpawnFirst, SpawnSecond, Deciding
  <2>4. t \in Running /\ job[t].part = "impl" /\ (t \in Sort => t = s)
    BY <2>3, JobFits DEF Fits, PlacesFit, PlaceFits, Busy
  <2>5. CASE t \in Worker
    BY <2>3, <2>4, <2>5, WorkersSpent
  <2>6. CASE t \in Sort
    BY <2>3, <2>4, <2>6 DEF Spent
  <2> QED BY <2>3, <2>5, <2>6 DEF Thread
<1>2. /\ pc'[s] \in {"right", "joining", "split", "spawning"}
      /\ pc[s] \notin {"right", "joining", "split", "spawning"}
  BY <1>1 DEF Spent
<1>3. ASSUME NEW r \in Sort, CallerStep(r) \/ SpuriousWake(r) PROVE FALSE
  BY <1>0, <1>2, <1>3 DEF CallerStep, SetBudget, SortWithoutBudget, SetUp, SortNothing, WaitForSpawns,
     GetFuture, Return, SpuriousWake, Goto, Fits, TypeOK
<1>4. ASSUME NEW t \in Thread, Ends(t) PROVE FALSE
  BY <1>0, <1>2, <1>4, EndsLeave
<1>5. ASSUME NEW t \in Thread, QuicksortStep(t), ~Ends(t) PROVE t = s /\ (PartitionAlone(s) \/ SubmitLeftHalf(s))
  <2>1. ~NotifyCaller(t)
    BY <1>0, <1>2 DEF NotifyCaller
  <2>2. PICK l \in {"leaf", "split", "right", "joining", "spawning", "notifying"} : pc' = [pc EXCEPT ![t] = l]
    BY <1>5, <2>1 DEF QuicksortStep, Ends, PartitionAlone, SubmitLeftHalf, PartitionRightHalf,
       MergeHalves, SpawnFirst, CountLeaf, AfterPartition, Goto
  <2>3. t = s
    BY <1>0, <1>2, <2>2 DEF Fits, TypeOK
  <2>4. ~PartitionRightHalf(t) /\ ~MergeHalves(t) /\ ~SpawnFirst(t)
    BY <1>2, <2>3 DEF PartitionRightHalf, MergeHalves, SpawnFirst
  <2>5. ~CountLeaf(t)
    BY <1>0, <1>2, <2>3 DEF CountLeaf, Goto, Fits, TypeOK
  <2> QED BY <1>5, <2>1, <2>3, <2>4, <2>5 DEF QuicksortStep, Ends
<1>6. ASSUME NEW w \in Worker, TakeTask(w) PROVE FALSE
  BY <1>0, <1>2, <1>6, TakeFits
<1>7. ~(Resize \/ Restart \/ UNCHANGED vars)
  BY <1>2 DEF Resize, Contract, Expand, Restart, vars
<1> QED BY <1>0, <1>3, <1>4, <1>5, <1>6, <1>7 DEF Next, WorkerStep, Ends

LEMMA BudgetSpentStep ==
    ASSUME Fits, FuturesHold, [Next]_vars, NEW s \in Sort, Budgeted(s), ~SetBudget(s)
    PROVE  Budgeted(s)'
<1>0. Sort \subseteq Thread /\ Worker \subseteq Thread /\ Sort \intersect Worker = {}
  BY ThreadsApart
<1>1. PICK n \in PoolSizes : /\ Stake(s) <= n \div 2
                             /\ Spent(s) /\ Stake(s) > 0 => Stake(s) < n \div 2
  BY DEF Budgeted
<1>2. n \div 2 \in Nat
  BY PoolSizesFit
<1>3. /\ Cardinality(Helpers(s)) \in Nat /\ Cardinality(Helpers(s)') \in Nat
      /\ IsFiniteSet(Helpers(s))
      /\ allowed[s] \in Int /\ Stake(s) \in Nat /\ allowed'[s] \in Int /\ Stake(s)' \in Nat
  <2>1. Cardinality(Helpers(s)') \in Nat
    BY SortAssumption, FS_Subset, FS_CardinalityType DEF SortAssumption, Helpers
  <2>2. allowed'[s] \in Int
    BY StepFits DEF Fits, TypeOK
  <2>3. Stake(s)' \in Nat
    BY <2>1, <2>2 DEF Stake
  <2> QED BY <2>1, <2>2, <2>3, StakeType
<1>4. call'[s] = call[s] /\ (allowed'[s] = allowed[s] \/ allowed'[s] = allowed[s] - 1)
  BY AllowedStep
<1>5. (allowed[s] > 0 => call[s].by = "sort") /\ (allowed'[s] > 0 => call'[s].by = "sort")
  BY <1>3, <1>4 DEF Budgeted
<1> SUFFICES /\ Stake(s)' <= n \div 2
             /\ Spent(s)' /\ Stake(s)' > 0 => Stake(s)' < n \div 2
  BY <1>5 DEF Budgeted
<1>6. ASSUME NEW t \in Thread, TakeFromBudget(job[t].sort), job[t].sort = s, allowed[s] > 0
      PROVE  allowed'[s] = allowed[s] - 1
  BY <1>5, <1>6 DEF TakeFromBudget, Fits, TypeOK
<1>7. ASSUME NEW t \in Worker, SubmitLeftHalf(t), job[t].sort = s
      PROVE  Stake(s)' = Stake(s) /\ Spent(s)
  <2>1. pc[t] = "entered" /\ allowed[s] > 0 /\ allowed'[s] = allowed[s] - 1
    BY <1>0, <1>6, <1>7 DEF SubmitLeftHalf, MustPartition, MayPartitionInParallel
  <2>2. t \in Running /\ job[t].part = "impl"
    BY <1>0, <2>1, JobFits DEF Fits, PlacesFit, PlaceFits, Busy
  <2>3. Spent(s)
    BY <1>7, <2>2, WorkersSpent
  <2>4. Helpers(s)' = Helpers(s) \union {t} /\ t \notin Helpers(s)
    <3>1. pc' = [pc EXCEPT ![t] = "right"] /\ job' = job
      BY <1>7 DEF SubmitLeftHalf, Goto
    <3> QED BY <1>0, <1>7, <2>1, <3>1 DEF Helpers, Fits, TypeOK
  <2>5. Cardinality(Helpers(s)') = Cardinality(Helpers(s)) + 1
    BY <1>3, <2>4, FS_AddElement
  <2> QED BY <1>3, <2>1, <2>3, <2>5 DEF Stake
<1>8. CASE \E t \in Worker : SubmitLeftHalf(t) /\ job[t].sort = s
  BY <1>1, <1>7, <1>8
<1>9. ASSUME ~ \E t \in Worker : SubmitLeftHalf(t) /\ job[t].sort = s
      PROVE  Cardinality(Helpers(s)') <= Cardinality(Helpers(s))
  <2>1. Helpers(s)' \subseteq Helpers(s)
    BY <1>9, HelpersStep
  <2> QED BY <1>3, <2>1, FS_Subset
<1>10. CASE /\ ~ \E t \in Worker : SubmitLeftHalf(t) /\ job[t].sort = s
            /\ Spent(s)' => Spent(s)
  <2>1. Stake(s)' <= Stake(s)
    BY <1>3, <1>4, <1>9, <1>10 DEF Stake
  <2> QED BY <1>1, <1>2, <1>3, <1>10, <2>1
<1>11. CASE /\ ~ \E t \in Worker : SubmitLeftHalf(t) /\ job[t].sort = s
            /\ Spent(s)' /\ ~Spent(s)
  <2>1. PartitionAlone(s) \/ SubmitLeftHalf(s)
    BY <1>11, SpentStep
  <2>2. s \in Running /\ job[s].sort = s
    BY <1>0, <2>1 DEF PartitionAlone, SubmitLeftHalf, MustPartition, Fits, PlacesFit, PlaceFits, Busy
  <2>3. TakeFromBudget(job[s].sort)
    BY <2>1 DEF PartitionAlone, SubmitLeftHalf
  <2>4. Cardinality(Helpers(s)) = 0
    BY <1>11, HelpersSpent, FS_EmptySet
  <2>5. Cardinality(Helpers(s)') = 0
    BY <1>3, <1>9, <1>11, <2>4
  <2>6. CASE allowed[s] > 0
    <3>1. allowed'[s] = allowed[s] - 1
      BY <1>0, <1>6, <2>2, <2>3, <2>6
    <3>2. Stake(s)' < Stake(s)
      BY <1>3, <2>4, <2>5, <2>6, <3>1 DEF Stake
    <3> QED BY <1>1, <1>2, <1>3, <3>2
  <2>7. CASE ~(allowed[s] > 0)
    <3>1. Stake(s)' = 0
      BY <1>3, <1>4, <2>5, <2>7 DEF Stake
    <3> QED BY <1>2, <3>1
  <2> QED BY <2>6, <2>7
<1> QED BY <1>8, <1>10, <1>11

LEMMA SetBudgetStep ==
    ASSUME Fits, NEW s \in Sort, SetBudget(s), Cardinality(alive) \in PoolSizes, [Next]_vars, FuturesHold
    PROVE  Budgeted(s)'
<1>0. Sort \subseteq Thread /\ Worker \subseteq Thread /\ Sort \intersect Worker = {}
  BY ThreadsApart
<1> DEFINE n == Cardinality(alive)
<1>1. n \div 2 \in Nat
  BY PoolSizesFit
<1>2. call'[s].by = "sort" /\ allowed'[s] = n \div 2 /\ pc'[s] = "called" /\ futures'[s] = <<>>
  BY <1>0 DEF SetBudget, data, Goto, Fits, TypeOK, FreshSorts
<1>3. Helpers(s) = {} /\ Helpers(s)' = {}
  <2>1. ~Spent(s)
    BY <1>0 DEF SetBudget, Spent, Fits, FreshSorts
  <2>2. Helpers(s) = {}
    BY <2>1, HelpersSpent
  <2>3. \A w \in Worker : ~SubmitLeftHalf(w)
    BY <1>0 DEF SetBudget, SubmitLeftHalf, Goto, MustPartition, Fits, TypeOK
  <2> QED BY <2>2, <2>3, HelpersStep
<1>4. Stake(s)' = n \div 2 /\ ~Spent(s)'
  BY <1>1, <1>2, <1>3, FS_EmptySet DEF Stake, Spent
<1> HIDE DEF n
<1>5. n \in PoolSizes
  BY DEF n
<1> QED BY <1>1, <1>2, <1>4, <1>5 DEF Budgeted

LEMMA AlwaysBudget == Spec => [](Inv /\ BudgetKept)
<1>1. Init => BudgetKept
  <2> SUFFICES ASSUME Init PROVE BudgetKept
    OBVIOUS
  <2>1. Cardinality(alive) \in PoolSizes
    BY DEF Init, PoolSizes
  <2>2. ASSUME NEW s \in Sort PROVE Budgeted(s)
    <3>1. Helpers(s) = {} /\ allowed[s] = 0
      BY ThreadsApart DEF Init, Helpers
    <3>2. Stake(s) = 0
      BY <3>1, FS_EmptySet DEF Stake
    <3>3. InitThreads \in PoolSizes /\ InitThreads \div 2 \in Nat
      BY PoolSizesFit DEF PoolSizes
    <3> QED BY <3>1, <3>2, <3>3 DEF Budgeted
  <2> QED BY <2>1, <2>2 DEF BudgetKept
<1>2. ASSUME Inv, BudgetKept, [Next]_vars PROVE BudgetKept'
  <2>1. Cardinality(alive') \in PoolSizes
    <3>1. CASE Restart
      BY <1>2, <3>1 DEF Restart, Inv, Fits, TypeOK, PoolSizes
    <3>2. CASE Resize
      BY <1>2, <3>2 DEF Resize, Contract, Expand, BudgetKept, PoolSizes
    <3>3. CASE ~Restart /\ ~Resize
      <4>1. alive' = alive
        BY <1>2, <3>3 DEF Next, CallerStep, SetBudget, SortWithoutBudget, SetUp, SortNothing,
           WaitForSpawns, GetFuture, Return, SpuriousWake, QuicksortStep, PartitionAlone,
           SubmitLeftHalf, PartitionRightHalf, MergeHalves, SpawnFirst, SpawnSecond, CountLeaf,
           NotifyCaller, SortLeaf, ThrowAlone, Throw, WorkerStep, TakeTask, PartitionLeftHalf,
           pool, vars
      <4> QED BY <1>2, <4>1 DEF BudgetKept
    <3> QED BY <3>1, <3>2, <3>3
  <2>2. ASSUME NEW s \in Sort PROVE Budgeted(s)'
    <3>1. Fits /\ FuturesHold /\ Budgeted(s) /\ Cardinality(alive) \in PoolSizes
      BY <1>2 DEF Inv, BudgetKept
    <3>2. CASE SetBudget(s)
      BY <1>2, <3>1, <3>2, SetBudgetStep
    <3>3. CASE ~SetBudget(s)
      BY <1>2, <3>1, <3>3, BudgetSpentStep
    <3> QED BY <3>2, <3>3
  <2> QED BY <2>1, <2>2 DEF BudgetKept
<1> QED BY <1>1, <1>2, AlwaysInv, PTL DEF Spec

\* A finite set cut into parts of at most k elements has at most k for each part.
LEMMA PartsBound ==
    ASSUME NEW A, IsFiniteSet(A), NEW S, IsFiniteSet(S), NEW f \in [A -> S], NEW k \in Nat,
           \A s \in S : Cardinality({a \in A : f[a] = s}) <= k
    PROVE  Cardinality(A) <= Cardinality(S) * k
<1> DEFINE Part(s) == {a \in A : f[a] = s}
           number == [s \in S |-> CHOOSE h : h \in [Part(s) -> 1 .. k] /\ IsInjective(h)]
           place == [a \in A |-> <<f[a], number[f[a]][a]>>]
<1>1. ASSUME NEW s \in S PROVE \E h : h \in [Part(s) -> 1 .. k] /\ IsInjective(h)
  <2>1. IsFiniteSet(Part(s)) /\ Cardinality(Part(s)) \in Nat /\ Cardinality(Part(s)) <= k
    BY FS_Subset, FS_CardinalityType
  <2> DEFINE n == Cardinality(Part(s))
  <2>2. IsFiniteSet(1 .. n) /\ Cardinality(1 .. n) = n
    BY <2>1, FS_Interval
  <2> HIDE DEF Part
  <2>3. ExistsBijection(Part(s), 1 .. n)
    BY <2>1, <2>2, FS_SameCardinalityBij
  <2>4. PICK h : h \in Bijection(Part(s), 1 .. n)
    BY <2>3 DEF ExistsBijection
  <2>5. h \in [Part(s) -> 1 .. n] /\ IsInjective(h)
    BY <2>4 DEF Bijection, Injection
  <2>6. 1 .. n \subseteq 1 .. k
    BY <2>1
  <2>7. h \in [Part(s) -> 1 .. k]
    <3> HIDE DEF n
    <3> QED BY <2>5, <2>6
  <2> QED BY <2>5, <2>7
<1>2. \A s \in S : number[s] \in [Part(s) -> 1 .. k] /\ IsInjective(number[s])
  BY <1>1
<1>3. \A a \in A : f[a] \in S /\ a \in Part(f[a])
  OBVIOUS
<1> HIDE DEF Part, number
<1>4. place \in [A -> S \X (1 .. k)]
  BY <1>2, <1>3
<1>5. ASSUME NEW a \in A, NEW b \in A, place[a] = place[b] PROVE a = b
  <2>1. f[a] = f[b] /\ number[f[a]][a] = number[f[a]][b]
    BY <1>5
  <2>2. a \in Part(f[a]) /\ b \in Part(f[a]) /\ f[a] \in S
    BY <1>3, <2>1
  <2>3. IsInjective(number[f[a]]) /\ DOMAIN number[f[a]] = Part(f[a])
    BY <1>2, <2>2
  <2> QED BY <2>1, <2>2, <2>3 DEF IsInjective
<1>6. place \in Injection(A, S \X (1 .. k))
  <2> HIDE DEF place
  <2>1. DOMAIN place = A
    BY <1>4
  <2> QED BY <1>4, <1>5, <2>1 DEF Injection, IsInjective
<1>7. IsFiniteSet(1 .. k) /\ Cardinality(1 .. k) = k
  BY FS_Interval
<1>8. /\ IsFiniteSet(S \X (1 .. k))
      /\ Cardinality(S \X (1 .. k)) = Cardinality(S) * k
  BY <1>7, FS_Product
<1> HIDE DEF place
<1> QED BY <1>6, <1>8, FS_Injection

\* Sorts that run at once have a budget each, of which one goes to the root call, which runs
\* in no worker.  As long as what is left of these budgets, made for whatever size the pool
\* had, is less than the threads it may be left with, they cannot put every worker to waiting
\* for a left half.  For one sort that is a pool that never has fewer threads than half of
\* what it ever had; for m sorts on n threads it is m * (n / 2 - 1) < n.
THEOREM WorkersSuffice ==
    ASSUME NEW k \in Nat,
           \A n \in PoolSizes : n \div 2 <= k + 1 /\ Cardinality(Sort) * k < n
    PROVE  Spec => []SomeWorkerFree
<1>1. ASSUME Inv, BudgetKept, NEW w \in alive, \A v \in alive : Joining(v) PROVE FALSE
  <2>1. alive \subseteq Worker /\ Worker \subseteq Thread /\ IsFiniteSet(alive)
    BY <1>1, ThreadsApart, SortAssumption, FS_Subset DEF Inv, Fits, TypeOK, SortAssumption
  <2>2. ASSUME NEW v \in alive PROVE v \in Worker /\ pc[v] = "joining" /\ job[v].sort \in Sort
    <3>1. pc[v] = "joining" /\ v \in Thread
      BY <1>1, <2>1 DEF Joining
    <3>2. v \in Running
      BY <1>1, <3>1 DEF Inv, Fits, PlacesFit, PlaceFits, Busy
    <3> QED BY <1>1, <2>1, <3>1, <3>2, JobFits DEF Inv
  <2> DEFINE f == [v \in alive |-> job[v].sort]
  <2>3. f \in [alive -> Sort]
    BY <2>2
  <2>4. ASSUME NEW s \in Sort PROVE Cardinality({v \in alive : f[v] = s}) <= k
    <3>1. {v \in alive : f[v] = s} \subseteq Helpers(s)
      BY <2>2 DEF Helpers
    <3>2. /\ IsFiniteSet(Helpers(s)) /\ Cardinality(Helpers(s)) \in Nat /\ Stake(s) \in Nat
          /\ Cardinality(Helpers(s)) <= Stake(s)
      BY <1>1, StakeType DEF Inv, Stake
    <3>3. PICK n \in PoolSizes : Stake(s) <= n \div 2 /\ (Spent(s) /\ Stake(s) > 0 => Stake(s) < n \div 2)
      BY <1>1 DEF BudgetKept, Budgeted
    <3>4. n \div 2 <= k + 1 /\ n \div 2 \in Nat
      BY PoolSizesFit
    <3>5. Cardinality(Helpers(s)) > 0 => Spent(s)
      BY <1>1, <3>2, HelpersSpent, FS_EmptySet DEF Inv
    <3>6. Cardinality(Helpers(s)) <= k
      BY <3>2, <3>3, <3>4, <3>5
    <3>7. /\ Cardinality({v \in alive : f[v] = s}) <= Cardinality(Helpers(s))
          /\ Cardinality({v \in alive : f[v] = s}) \in Nat
      BY <3>1, <3>2, FS_Subset, FS_CardinalityType
    <3> HIDE DEF f
    <3> QED BY <3>2, <3>6, <3>7
  <2>5. Cardinality(alive) <= Cardinality(Sort) * k
    <3> HIDE DEF f
    <3> QED BY <2>1, <2>3, <2>4, PartsBound, SortAssumption DEF SortAssumption
  <2>6. Cardinality(Sort) * k < Cardinality(alive)
    BY <1>1 DEF BudgetKept
  <2>7. Cardinality(alive) \in Nat /\ Cardinality(Sort) \in Nat
    BY <2>1, SortAssumption, FS_CardinalityType DEF SortAssumption
  <2>8. Cardinality(Sort) * k \in Nat
    BY <2>7
  <2> QED BY <2>5, <2>6, <2>7, <2>8
<1>2. Inv /\ BudgetKept => SomeWorkerFree
  BY <1>1 DEF SomeWorkerFree
<1> QED BY <1>2, AlwaysBudget, PTL
=============================================================================
