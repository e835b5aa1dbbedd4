-------------------------- MODULE ParallelQuicksort --------------------------
(***************************************************************************)
(* pluggable_sort, which is std::sort with a parallel policy, stable_sort  *)
(* and pluggable_quicksort (src/include/poolstl/algorithm), and the        *)
(* parallel_quicksort, quicksort_impl and partition_p2 they run            *)
(* (src/include/poolstl/internal/ttp_impl.hpp).                            *)
(*                                                                         *)
(* An element is a pair: comp looks at the key that comes first, the mark  *)
(* that follows tells apart elements comp finds equivalent.  A call names  *)
(* the algorithm and the range it is given; by "quicksort", that is        *)
(* pluggable_quicksort, the range is sorted with the functions that are    *)
(* its defaults, by "stable_sort" with stable ones.                        *)
(*                                                                         *)
(* Each sort is called from a thread of its own, the caller, which also    *)
(* runs the root quicksort_impl and then waits for the others.  The pool   *)
(* is what TaskThreadPool is shown to implement: a FIFO queue of tasks     *)
(* taken by worker threads.  A pool that contracts lets its workers finish *)
(* the task they are in, joins them all and starts again with fewer.       *)
(***************************************************************************)
EXTENDS Integers, Sequences, FiniteSets, Functions

CONSTANTS Worker,      \* identities for worker threads
          Sort,        \* the sorts, each the name of its caller
          NoTask,
          Calls,       \* the calls that may be made
          InitThreads, \* the pool's threads to begin with
          Sizes,       \* the arguments given to set_num_threads
          MinLeaf,     \* the smallest target_leaf_size: 5 in the code
          MinParallel, \* the smallest range partition_p2 splits: 4 in the code
          MayThrow     \* whether the comparator and sort_func may throw

ASSUME SortAssumption ==
    /\ IsFiniteSet(Worker) /\ IsFiniteSet(Sort)
    /\ Worker \intersect Sort = {}
    /\ \A c \in Calls : /\ c.by \in {"sort", "stable_sort", "quicksort"}
                        /\ c.range \in Seq(Int \X Int)
    /\ InitThreads \in 1..Cardinality(Worker)
    /\ Sizes \subseteq 1..Cardinality(Worker)
    /\ MinLeaf \in Nat \ {0}
    /\ MinParallel \in Nat \ {0, 1}
    /\ MayThrow \in BOOLEAN

VARIABLES
    arr,      \* arr[s]: the range s sorts
    call,     \* call[s]: the algorithm that sorts it, and what it held to begin with
    allowed,  \* allowed[s]: allowed_parallel_partitions
    leaf,     \* leaf[s]: target_leaf_size
    inflight, \* inflight[s]: inflight_spawns
    futures,  \* futures[s]: the futures vector, as the tasks they are for
    got,      \* got[s]: how many of them get_futures has been through
    queue,    \* the pool's task queue
    ready,    \* the tasks that have run, with what their futures hold
    alive,    \* the pool's worker threads
    target,   \* the size a contracting pool is to restart with, else 0
    pc,       \* pc[t]: where thread t is
    job,      \* job[t]: the call it is running
    pivot,    \* pivot[t]: the pivot of that call
    mid       \* mid[t]: right_mid, then mid

vars == <<arr, call, allowed, leaf, inflight, futures, got, queue, ready,
          alive, target, pc, job, pivot, mid>>

data == <<arr, call>>
counts == <<allowed, leaf, inflight, futures, got>>
pool == <<queue, ready, alive, target>>
frames == <<job, pivot, mid>>

Thread == Worker \union Sort

Init == /\ call \in [Sort -> Calls]
        /\ arr = [s \in Sort |-> call[s].range]
        /\ allowed = [s \in Sort |-> 0]
        /\ leaf = [s \in Sort |-> 0]
        /\ inflight = [s \in Sort |-> 0]
        /\ futures = [s \in Sort |-> <<>>]
        /\ got = [s \in Sort |-> 0]
        /\ queue = <<>>
        /\ ready = <<>>
        /\ alive \in {W \in SUBSET Worker : Cardinality(W) = InitThreads}
        /\ target = 0
        /\ pc = [t \in Thread |-> "idle"]
        /\ job = [t \in Thread |-> NoTask]
        /\ pivot = [t \in Thread |-> 0]
        /\ mid = [t \in Thread |-> 0]

(***************************************************************************)
(* Ranges are half open: lo is first and hi is last.                       *)
(***************************************************************************)
QuicksortTask(s, lo, hi) ==
    [sort |-> s, part |-> "impl", lo |-> lo, hi |-> hi, pivot |-> 0]

\* Mutant of LeftTask: the left half runs one element into the right one.
LeftTaskOver(s, lo, hi, p) ==
    [sort |-> s, part |-> "left", lo |-> lo, hi |-> hi + 1, pivot |-> p]

LeftTask(s, lo, hi, p) ==
    [sort |-> s, part |-> "left", lo |-> lo, hi |-> hi, pivot |-> p]

Size(t) == job[t].hi - job[t].lo

\* partition_p2 puts one element more than half of them in the left half.
Halfway(t) == job[t].lo + Size(t) \div 2 + 1

Key(element) == element[1]

\* The pivot, of which only the key matters.
Pivot(t) == Key(arr[job[t].sort][job[t].lo + Size(t) \div 2])

Stable(s) == call[s].by = "stable_sort"

\* The orders the elements from lo to hi may be put in, for each <<lo, hi>> a call may
\* come to work on.
Spans == UNION {(1 .. Len(c.range) + 1) \X (1 .. Len(c.range) + 1) : c \in Calls}

Orders == [span \in Spans |-> LET S == span[1] .. span[2] - 1 IN Bijection(S, S)]

Rearranged(a, f) == [i \in DOMAIN a |-> IF i \in DOMAIN f THEN a[f[i]] ELSE a[i]]

\* Mutant of Partitions: stable_sort partitions with std::partition too.
PartitionsUnstable(a, lo, hi, p, stable) ==
    {Rearranged(a, f) : f \in {g \in Orders[<<lo, hi>>] :
        \A i, j \in lo .. hi - 1 : i < j /\ Key(a[g[j]]) < p => Key(a[g[i]]) < p}}

\* The outcomes of part_func on the elements from lo to hi: std::partition, or
\* std::stable_partition, which keeps the order on either side of p.
Partitions(a, lo, hi, p, stable) ==
    {Rearranged(a, f) : f \in {g \in Orders[<<lo, hi>>] :
        \A i, j \in lo .. hi - 1 : i < j =>
            LET x == Key(a[g[i]]) < p
                y == Key(a[g[j]]) < p
            IN  (y => x) /\ (stable /\ (x <=> y) => g[i] < g[j])}}

\* Mutant of PartitionPoint: the distance is taken the wrong way round.
PointBelow(a, lo, hi, p) == lo - Cardinality({i \in lo .. hi - 1 : Key(a[i]) < p})

\* Mutant of PartitionPoint: elements equal to the pivot count as less.
PointAfter(a, lo, hi, p) == lo + Cardinality({i \in lo .. hi - 1 : Key(a[i]) <= p})

PartitionPoint(a, lo, hi, p) == lo + Cardinality({i \in lo .. hi - 1 : Key(a[i]) < p})

\* The outcomes of sort_func: std::sort, or std::stable_sort.
SortedFrom(a, lo, hi, stable) ==
    {Rearranged(a, f) : f \in {g \in Orders[<<lo, hi>>] :
        \A i, j \in lo .. hi - 1 : i < j =>
            /\ Key(a[g[i]]) <= Key(a[g[j]])
            /\ stable /\ Key(a[g[i]]) = Key(a[g[j]]) => g[i] < g[j]}}

\* Mutant of SwapRanges: the two halves are left as they are.
NoSwap(a, x, y, n) == a

SwapRanges(a, x, y, n) ==
    [i \in DOMAIN a |-> CASE i \in x .. x + n - 1 -> a[i - x + y]
                          [] i \in y .. y + n - 1 -> a[i - y + x]
                          [] OTHER -> a[i]]

Least(m, n) == IF m <= n THEN m ELSE n

\* Some thread holds the mutex of s across a step.
Locked(s) == \E t \in Thread : pc[t] = "spawning" /\ job[t].sort = s

Goto(t, label) == pc' = [pc EXCEPT ![t] = label]

\* The future of task c is set.
Resolve(c, ok, at) ==
    ready' = [d \in DOMAIN ready \union {c} |->
                 IF d = c THEN [ok |-> ok, at |-> at] ELSE ready[d]]

\* Thread t leaves its task: its future, if it has one, holds what came of it.
Finish(t, ok, at) ==
    /\ job' = [job EXCEPT ![t] = NoTask]
    /\ IF t \in Worker
       THEN /\ Resolve(job[t], ok, at)
            /\ Goto(t, "idle")
       ELSE /\ UNCHANGED ready
            /\ Goto(t, IF ok THEN "waiting" ELSE "threw")

(***************************************************************************)
(* The caller, up to the root call.                                        *)
(***************************************************************************)
\* Only pluggable_sort has a budget.  get_num_threads blocks while set_num_threads
\* holds thread_mutex.
SetBudget(s) ==
    /\ pc[s] = "idle" /\ call[s].by = "sort" /\ target = 0
    /\ allowed' = [allowed EXCEPT ![s] = Cardinality(alive) \div 2]
    /\ Goto(s, "called")
    /\ UNCHANGED <<data, leaf, inflight, futures, got, pool, frames>>

SortWithoutBudget(s) ==
    /\ pc[s] = "idle" /\ call[s].by # "sort"
    /\ Goto(s, "called")
    /\ UNCHANGED <<data, counts, pool, frames>>

SetUp(s) ==
    LET len == Len(arr[s])
        n == Cardinality(alive)
    IN  /\ pc[s] = "called" /\ len > 0 /\ target = 0
        /\ leaf' = [leaf EXCEPT ![s] =
                        IF n = 1 THEN len
                        ELSE IF len \div (n * 2) > MinLeaf THEN len \div (n * 2)
                        ELSE MinLeaf]
        /\ inflight' = [inflight EXCEPT ![s] = 1]
        /\ job' = [job EXCEPT ![s] = QuicksortTask(s, 1, len + 1)]
        /\ Goto(s, "entered")
        /\ UNCHANGED <<data, allowed, futures, got, pool, pivot, mid>>

SortNothing(s) ==
    /\ pc[s] = "called" /\ arr[s] = <<>>
    /\ Goto(s, "returned")
    /\ UNCHANGED <<data, counts, pool, frames>>

(***************************************************************************)
(* quicksort_impl, in the caller or in a worker.                           *)
(***************************************************************************)
MustPartition(t) == pc[t] = "entered" /\ Size(t) > leaf[job[t].sort]

\* Where t goes once its range is partitioned at m.
AfterPartition(t, m) ==
    /\ mid' = [mid EXCEPT ![t] = m]
    /\ Goto(t, IF m \in {job[t].lo, job[t].hi} THEN "leaf" ELSE "split")

TakeFromBudget(s) ==
    allowed' = IF call[s].by = "sort" THEN [allowed EXCEPT ![s] = @ - 1] ELSE allowed

\* Mutant of MayPartitionInParallel: there is no limit to the parallel partitions.
Unlimited(t) == call[job[t].sort].by = "sort" /\ Size(t) >= MinParallel

\* Without a budget allowed stays 0.
MayPartitionInParallel(t) == allowed[job[t].sort] > 0 /\ Size(t) >= MinParallel

PartitionAlone(t) ==
    LET s == job[t].sort
        p == Pivot(t)
    IN  /\ MustPartition(t) /\ ~MayPartitionInParallel(t)
        /\ TakeFromBudget(s)
        /\ \E b \in Partitions(arr[s], job[t].lo, job[t].hi, p, Stable(s)) :
              arr' = [arr EXCEPT ![s] = b]
        /\ AfterPartition(t, PartitionPoint(arr[s], job[t].lo, job[t].hi, p))
        /\ UNCHANGED <<call, leaf, inflight, futures, got, pool, job, pivot>>

\* partition_p2 hands the left half to the pool ...
SubmitLeftHalf(t) ==
    /\ MustPartition(t) /\ MayPartitionInParallel(t)
    /\ TakeFromBudget(job[t].sort)
    /\ pivot' = [pivot EXCEPT ![t] = Pivot(t)]
    /\ queue' = Append(queue, LeftTask(job[t].sort, job[t].lo, Halfway(t), Pivot(t)))
    /\ Goto(t, "right")
    /\ UNCHANGED <<data, leaf, inflight, futures, got, ready, alive, target, job, mid>>

\* ... partitions the right half itself ...
PartitionRightHalf(t) ==
    LET s == job[t].sort
    IN  /\ pc[t] = "right"
        /\ \E b \in Partitions(arr[s], Halfway(t), job[t].hi, pivot[t], FALSE) :
              arr' = [arr EXCEPT ![s] = b]
        /\ mid' = [mid EXCEPT
                     ![t] = PartitionPoint(arr[s], Halfway(t), job[t].hi, pivot[t])]
        /\ Goto(t, "joining")
        /\ UNCHANGED <<call, counts, pool, job, pivot>>

LeftHalf(t) == LeftTask(job[t].sort, job[t].lo, Halfway(t), pivot[t])

\* ... waits for the left half and swaps its highs with the lows of the right.
MergeHalves(t) ==
    LET s == job[t].sort
        left_mid == ready[LeftHalf(t)].at
        highs == Halfway(t) - left_mid
        lows == mid[t] - Halfway(t)
        n == Least(highs, lows)
    IN  /\ pc[t] = "joining" /\ LeftHalf(t) \in DOMAIN ready
        /\ ready[LeftHalf(t)].ok
        /\ ready' = [c \in DOMAIN ready \ {LeftHalf(t)} |-> ready[c]]
        /\ arr' = [arr EXCEPT ![s] = IF highs <= lows
                                     THEN SwapRanges(@, left_mid, mid[t] - n, n)
                                     ELSE SwapRanges(@, Halfway(t), left_mid, n)]
        /\ AfterPartition(t, left_mid + lows)
        /\ UNCHANGED <<call, counts, queue, alive, target, job, pivot>>

\* Mutant of CountSpawn: the extra call is not counted.
SpawnUncounted(s) == UNCHANGED inflight

CountSpawn(s) == inflight' = [inflight EXCEPT ![s] = @ + 1]

\* Under the mutex of s: count the extra call, submit one child ...
SpawnFirst(t) ==
    LET s == job[t].sort
        child == QuicksortTask(s, job[t].lo, mid[t])
    IN  /\ pc[t] = "split" /\ ~Locked(s)
        /\ CountSpawn(s)
        /\ queue' = Append(queue, child)
        /\ futures' = [futures EXCEPT ![s] = Append(@, child)]
        /\ Goto(t, "spawning")
        /\ UNCHANGED <<data, allowed, leaf, got, ready, alive, target, frames>>

\* ... and the other.
SpawnSecond(t) ==
    LET s == job[t].sort
        child == QuicksortTask(s, mid[t], job[t].hi)
    IN  /\ pc[t] = "spawning"
        /\ queue' = Append(queue, child)
        /\ futures' = [futures EXCEPT ![s] = Append(@, child)]
        /\ IF t \in Worker
           THEN Resolve(job[t], TRUE, 0) /\ Goto(t, "idle")
           ELSE UNCHANGED ready /\ Goto(t, "waiting")
        /\ job' = [job EXCEPT ![t] = NoTask]
        /\ UNCHANGED <<data, allowed, leaf, inflight, got, alive, target, pivot, mid>>

AtLeaf(t) == pc[t] = "leaf" \/ (pc[t] = "entered" /\ Size(t) <= leaf[job[t].sort])

\* Mutant of UncountCall: a leaf stays counted.
LeafStaysCounted(s) == UNCHANGED inflight

UncountCall(s) == inflight' = [inflight EXCEPT ![s] = @ - 1]

CountLeaf(t) ==
    LET s == job[t].sort
    IN  /\ AtLeaf(t) /\ ~Locked(s)
        /\ UncountCall(s)
        /\ Goto(t, "notifying")
        /\ UNCHANGED <<data, allowed, leaf, futures, got, pool, frames>>

\* Mutant of NotifyCaller: the leaf does not notify.
SortUnannounced(t) ==
    /\ pc[t] = "notifying"
    /\ Goto(t, "sorting")
    /\ UNCHANGED <<data, counts, pool, frames>>

\* The notification comes after the unlock and wakes the caller if it waits.
NotifyCaller(t) ==
    LET s == job[t].sort
    IN  /\ pc[t] = "notifying"
        /\ pc' = [u \in Thread |-> IF u = t THEN "sorting"
                                   ELSE IF u = s /\ pc[s] = "asleep" THEN "waiting"
                                   ELSE pc[u]]
        /\ UNCHANGED <<data, counts, pool, frames>>

SortLeaf(t) ==
    LET s == job[t].sort
    IN  /\ pc[t] = "sorting"
        /\ \E b \in SortedFrom(arr[s], job[t].lo, job[t].hi, Stable(s)) :
              arr' = [arr EXCEPT ![s] = b]
        /\ Finish(t, TRUE, 0)
        /\ UNCHANGED <<call, counts, queue, alive, target, pivot, mid>>

\* The comparator throws in the partition of a whole range, its place in the budget taken.
ThrowAlone(t) ==
    /\ MayThrow /\ MustPartition(t) /\ ~MayPartitionInParallel(t)
    /\ TakeFromBudget(job[t].sort)
    /\ Finish(t, FALSE, 0)
    /\ UNCHANGED <<data, leaf, inflight, futures, got, queue, alive, target, pivot, mid>>

LeftHalfThrew(t) ==
    pc[t] = "joining" /\ LeftHalf(t) \in DOMAIN ready /\ ~ready[LeftHalf(t)].ok

\* It throws in one of the halves, or sort_func does, or get() rethrows what the left
\* half threw.  A left half nobody waits for any more is left to run.
Throw(t) ==
    /\ (MayThrow /\ pc[t] \in {"right", "left", "sorting"}) \/ LeftHalfThrew(t)
    /\ Finish(t, FALSE, 0)
    /\ UNCHANGED <<data, counts, queue, alive, target, pivot, mid>>

(***************************************************************************)
(* The caller, after the root call.                                        *)
(***************************************************************************)
\* Mutant of SpawnsDone: the last call is overlooked.
SpawnsNearlyDone(s) == inflight[s] <= 1

SpawnsDone(s) == inflight[s] = 0

WaitForSpawns(s) ==
    /\ pc[s] = "waiting" /\ ~Locked(s)
    /\ Goto(s, IF SpawnsDone(s) THEN "gathering" ELSE "asleep")
    /\ UNCHANGED <<data, counts, pool, frames>>

SpuriousWake(s) ==
    /\ pc[s] = "asleep"
    /\ Goto(s, "waiting")
    /\ UNCHANGED <<data, counts, pool, frames>>

\* get_futures: the next one is ready, with a value or an exception.
GetFuture(s) ==
    LET f == futures[s][got[s] + 1]
    IN  /\ pc[s] = "gathering" /\ got[s] < Len(futures[s]) /\ f \in DOMAIN ready
        /\ IF ready[f].ok
           THEN got' = [got EXCEPT ![s] = @ + 1] /\ UNCHANGED pc
           ELSE UNCHANGED got /\ Goto(s, "threw")
        /\ UNCHANGED <<data, allowed, leaf, inflight, futures, pool, frames>>

\* Mutant of Gathered: the futures are not waited for.
NotGathered(s) == TRUE

Gathered(s) == got[s] = Len(futures[s])

Return(s) ==
    /\ pc[s] = "gathering" /\ Gathered(s)
    /\ Goto(s, "returned")
    /\ UNCHANGED <<data, counts, pool, frames>>

(***************************************************************************)
(* The pool.                                                               *)
(***************************************************************************)
TakeTask(w) ==
    /\ pc[w] = "idle" /\ w \in alive /\ target = 0 /\ queue # <<>>
    /\ job' = [job EXCEPT ![w] = Head(queue)]
    /\ queue' = Tail(queue)
    /\ Goto(w, IF Head(queue).part = "impl" THEN "entered" ELSE "left")
    /\ UNCHANGED <<data, counts, ready, alive, target, pivot, mid>>

PartitionLeftHalf(w) ==
    LET s == job[w].sort
    IN  /\ pc[w] = "left"
        /\ \E b \in Partitions(arr[s], job[w].lo, job[w].hi, job[w].pivot, FALSE) :
              arr' = [arr EXCEPT ![s] = b]
        /\ Finish(w, TRUE, PartitionPoint(arr[s], job[w].lo, job[w].hi, job[w].pivot))
        /\ UNCHANGED <<call, counts, queue, alive, target, pivot, mid>>

\* set_num_threads, called from a thread that runs no sort.
Contract(n) ==
    /\ target = 0 /\ n < Cardinality(alive)
    /\ target' = n
    /\ UNCHANGED <<data, counts, queue, ready, alive, pc, frames>>

Expand(n) ==
    /\ target = 0 /\ n > Cardinality(alive)
    /\ alive' \in {W \in SUBSET Worker : alive \subseteq W /\ Cardinality(W) = n}
    /\ UNCHANGED <<data, counts, queue, ready, target, pc, frames>>

\* Every worker has left its task and been joined.
Restart ==
    /\ target # 0 /\ \A w \in alive : pc[w] = "idle"
    /\ alive' \in {W \in SUBSET alive : Cardinality(W) = target}
    /\ target' = 0
    /\ UNCHANGED <<data, counts, queue, ready, pc, frames>>

-----------------------------------------------------------------------------
CallerStep(s) ==
    \/ SetBudget(s) \/ SortWithoutBudget(s) \/ SetUp(s) \/ SortNothing(s)
    \/ WaitForSpawns(s) \/ GetFuture(s) \/ Return(s)

QuicksortStep(t) ==
    \/ PartitionAlone(t)
    \/ SubmitLeftHalf(t) \/ PartitionRightHalf(t) \/ MergeHalves(t)
    \/ SpawnFirst(t) \/ SpawnSecond(t)
    \/ CountLeaf(t) \/ NotifyCaller(t) \/ SortLeaf(t)
    \/ ThrowAlone(t) \/ Throw(t)

WorkerStep(w) == TakeTask(w) \/ PartitionLeftHalf(w)

Resize == \E n \in Sizes : Contract(n) \/ Expand(n)

Next == \/ \E s \in Sort : CallerStep(s) \/ SpuriousWake(s)
        \/ \E t \in Thread : QuicksortStep(t)
        \/ \E w \in Worker : WorkerStep(w)
        \/ Resize \/ Restart

Spec == Init /\ [][Next]_vars

\* Threads that can run do; nobody has to call a sort, and nobody resizes the pool
\* forever, which could keep get_num_threads from its mutex.
FairSpec == /\ Spec
            /\ \A s \in Sort : WF_vars(CallerStep(s) /\ pc[s] # "idle")
            /\ \A t \in Thread : WF_vars(QuicksortStep(t))
            /\ \A w \in Worker : WF_vars(WorkerStep(w))
            /\ WF_vars(Restart)
            /\ <>[][~Resize]_vars

-----------------------------------------------------------------------------
Pc == {"idle", "called", "entered", "right", "joining", "split", "spawning", "leaf",
       "notifying", "sorting", "left", "waiting", "asleep", "gathering", "returned", "threw"}

TaskType == [sort : Sort, part : {"impl", "left"}, lo : Nat, hi : Nat, pivot : Int]

ASSUME NoTaskAssumption == NoTask \notin TaskType

TypeOK == /\ arr \in [Sort -> Seq(Int \X Int)] /\ call \in [Sort -> Calls]
          /\ allowed \in [Sort -> Int] /\ leaf \in [Sort -> Nat]
          /\ inflight \in [Sort -> Int]
          /\ futures \in [Sort -> Seq(TaskType)] /\ got \in [Sort -> Nat]
          /\ queue \in Seq(TaskType)
          /\ DOMAIN ready \subseteq TaskType
          /\ \A c \in DOMAIN ready : ready[c] \in [ok : BOOLEAN, at : Nat]
          /\ alive \subseteq Worker /\ target \in Sizes \union {0}
          /\ pc \in [Thread -> Pc]
          /\ job \in [Thread -> TaskType \union {NoTask}]
          /\ pivot \in [Thread -> Int] /\ mid \in [Thread -> Nat]

\* The calls of quicksort_impl for s that have still to split or to reach a leaf.
Waiting(s) == {i \in DOMAIN queue : queue[i].sort = s /\ queue[i].part = "impl"}
Deciding(s) ==
    {t \in Thread : /\ pc[t] \in {"entered", "right", "joining", "split", "spawning", "leaf"}
                    /\ job[t].sort = s}

\* "Number of quicksort_impl calls that haven't finished yet. Nonzero value means
\* futures vector may still be modified": the count covers every call that may still
\* append to the vector, exceptions or not ...
CountCovers ==
    \A s \in Sort : pc[s] \notin {"idle", "called"} =>
        Cardinality(Waiting(s)) + Cardinality(Deciding(s)) <= inflight[s]

\* ... and counts nothing else.
CountExact == \A s \in Sort : Cardinality(Waiting(s)) + Cardinality(Deciding(s)) = inflight[s]

\* The caller walks the futures vector without the mutex: nobody changes it then.
FuturesStable ==
    [][\A s \in Sort : pc[s] \in {"gathering", "returned"} => futures'[s] = futures[s]]_vars

\* The elements thread t may be reading or writing: with its left half partitioned, a call
\* that was waiting swaps elements of both halves.
Touches(t) ==
    CASE pc[t] \in {"entered", "leaf", "notifying", "sorting", "left"} -> job[t].lo .. job[t].hi - 1
      [] pc[t] = "right" -> Halfway(t) .. job[t].hi - 1
      [] pc[t] = "joining" /\ LeftHalf(t) \in DOMAIN ready -> job[t].lo .. job[t].hi - 1
      [] OTHER -> {}

\* No two threads are ever at the same element.
ElementsExclusive ==
    \A t, u \in Thread :
        t # u /\ job[t] # NoTask /\ job[u] # NoTask /\ Touches(t) \intersect Touches(u) # {}
            => job[t].sort # job[u].sort

\* Partitioning a range in two threads, whose halves need not be equal, leaves it as one
\* thread would: both parts hold elements, and those before mid are less than the rest,
\* also while the first child already works on its part.
SplitsApart ==
    \A t \in Thread : pc[t] \in {"split", "spawning"} =>
        LET a == arr[job[t].sort]
        IN  /\ job[t].lo < mid[t] /\ mid[t] < job[t].hi
            /\ \A i \in job[t].lo .. mid[t] - 1, j \in mid[t] .. job[t].hi - 1 : Key(a[i]) < Key(a[j])

\* A sort that returns leaves its range sorted, with the elements it was given, and
\* stable_sort the equivalent ones in the order it was given them in, however its parts
\* came to be partitioned and sorted.
SortedOnReturn ==
    \A s \in Sort : pc[s] = "returned" =>
        LET n == Len(call[s].range)
        IN  \E f \in Orders[<<1, n + 1>>] :
              /\ arr[s] = Rearranged(call[s].range, f)
              /\ \A i, j \in 1 .. n : i < j =>
                    \/ Key(arr[s][i]) < Key(arr[s][j])
                    \/ Key(arr[s][i]) = Key(arr[s][j]) /\ (Stable(s) => f[i] < f[j])

\* "Wait on all the parallel tasks": a sort that has left, by returning or by
\* throwing, leaves no task behind that uses its range, mutex, cv or futures.
NothingLeftBehind ==
    \A s \in Sort : pc[s] \in {"returned", "threw"} =>
        /\ \A i \in DOMAIN queue : queue[i].sort # s
        /\ \A t \in Thread : job[t] # NoTask => job[t].sort # s

ReturnsClean ==
    \A s \in Sort : pc[s] = "returned" =>
        /\ \A i \in DOMAIN queue : queue[i].sort # s
        /\ \A t \in Thread : job[t] # NoTask => job[t].sort # s

\* "A deadlock is possible if all worker threads are waiting for tasks that in turn
\* have no workers to execute them": never is every worker in partition_p2, waiting for
\* a left half that is still queued, or gone because the pool is contracting.
Joining(t) == pc[t] = "joining" /\ LeftHalf(t) \notin DOMAIN ready

NotAllWaiting ==
    (\E w \in alive : Joining(w)) =>
        \E w \in alive : ~Joining(w) /\ (pc[w] = "idle" => target = 0)

\* The same between resizes.  The budget of a sort begun on a larger pool is larger than
\* the pool it ends on would give it, and still some worker is free, as long as no pool has
\* fewer threads than half of another: with 4 threads to begin with and 1 to end with, that
\* one may be the worker that waits.
SomeWorkerFree ==
    target = 0 /\ (\E w \in alive : Joining(w)) => \E w \in alive : ~Joining(w)

\* A sort that is called comes back.
SortsReturn == \A s \in Sort : pc[s] = "called" ~> pc[s] \in {"returned", "threw"}
=============================================================================
