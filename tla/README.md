# A verification project for poolSTL

poolSTL implements the C++17 parallel algorithms (`std::for_each(par, ...)`, `std::sort(par, ...)`, ...) on a
thread pool. This directory holds TLA+ models of its concurrent parts, TLC configurations that check them on small
instances, and TLAPS proofs of their safety properties for every instance. Paths below are relative to the
repository's `include/poolstl` unless they begin with `tests/`.

    TaskService.tla            what the pool promises (abstract)
    TaskThreadPool.tla         the pool: workers, callers, mutexes, condition variables
      MCPool.tla  pool_*.cfg   constants and runs
      TaskThreadPool_proofs    inductive invariant
      PoolWaiters_proofs       no stranded waiter
      PoolService_proofs       the pool implements TaskService
    ParallelQuicksort.tla      sort, stable_sort and pluggable_quicksort on that pool
      MCQuicksort.tla  sort_*.cfg
      MCManySorts.tla          four sorts at once
      ParallelQuicksort_proofs who owns which elements, the count, the futures, the budget
      QuicksortSorts_proofs    partitions split, sorts sort
    Chunking.tla               how ranges are cut into chunks
    FindIf.tla  find.cfg       std::find_if over those chunks
      FindIf_proofs            leftmost match, tiling, priority update
    ForkJoin.tla               chunk loops, tasks and futures the other algorithms share
      Elementwise.tla          for_each, fill, copy, transform
      Numeric.tla              reduce, transform_reduce, count_if, exclusive_scan
      Mergesort.tla            pluggable_mergesort
      ChunkedAlgorithms.tla    the three together
      algorithms.cfg  reduce_init.cfg  scan_identity.cfg
      ChunkedAlgorithms_proofs pieces tile the range, no races, every element, nothing left behind
      ChunkedResults_proofs    mergesorts sort, reductions and scans equal the sequential ones

Run `tlc -config pool_all.cfg MCPool`, `tlapm TaskThreadPool_proofs.tla`, and so on.

## 1. Inventory

| Component | State | Operations | Hard behaviour | What makes it correct |
|---|---|---|---|---|
| **task_thread_pool** (`internal/task_thread_pool.hpp`) | task queue, thread vector, `pool_running`, `pool_paused`, `notify_task_finish`, `num_inflight_tasks`; `task_mutex`, `thread_mutex`; `task_cv`, `task_finished_cv` | submit, clear, pause, unpause, two waits, set_num_threads, constructor, destructor, worker_main | lost wakeups, two waiters, resizes racing tasks, joins under a mutex, tasks that use their own pool | counter exact; no wakeup lost; FIFO, once, never while paused; waits return, and not early; resize exact; destructor ends |
| **parallel quicksort** (`algorithm` `pluggable_sort`, `stable_sort`, `pluggable_quicksort`; `internal/ttp_impl.hpp` `parallel_quicksort`, `quicksort_impl`, `partition_p2`) | the range, `inflight_spawns`, `futures`, their mutex and cv, `allowed_parallel_partitions` | root call, recursive tasks, parallel partition, final wait, `get_futures` | tasks that spawn and wait for tasks; a vector read without its mutex; exceptions; a pool resized under it | sorted permutation; vector stable when read; elements exclusive; workers never all wait; returns; nothing left behind |
| **chunking** (`internal/utils.hpp`, `parallel_chunk_for_*` in `ttp_impl.hpp` and `thread_impl.hpp`) | loop position | chunk size, loop | fewer elements than threads, remainders | chunks tile the range, bounded in number |
| **find_if** and `find`, `find_if_not`, `all_of`, `any_of`, `none_of` (`algorithm`) | atomic `extremum` | chunk task with early exit and CAS loop | stale reads, spurious CAS failure, order of tasks | leftmost match; nothing missed; only lowered; returns |
| **element-wise**: copy, fill, for_each, for_each_chunk, transform (`algorithm`) | futures | chunk tasks | two or three ranges in step, in place | every element once, its result at its place |
| **partition** (`algorithm`) | none shared | `partition_p2` from the caller | uneven halves in two threads | partitioned permutation |
| **parallel mergesort** (`ttp_impl.hpp`) | `futures`, `subranges` | chunk sorts, rounds of merges | odd subrange passed on, merges in place side by side | merges join sorted neighbours; sorted, stably if `sort_func` is; ends |
| **numeric**: reduce, transform_reduce, exclusive_scan (`numeric`), count_if (`algorithm`) | futures, `ranges`, `sums` | one or two passes | init used per chunk, `T{}` as identity, second pass in place | equals the sequential result when init or `T{}` is an identity |
| **pure threads** (`internal/thread_impl.hpp`) | thread list | spawn, join | exceptions, `hardware_concurrency()` of 0 | as the others |
| **policies** (`execution`, `variant_policy.hpp`, `seq_fwd.hpp`) | the default pool, made under `call_once` | overload selection | first use from two threads | one pool |
| **iota_iter** | one value | arithmetic | overflow at the ends | random-access iterator laws |

Interaction: an algorithm, called by any thread, cuts its range, calls `pool.submit` for each chunk and then blocks
on the futures (`get_futures`). Quicksort also submits from inside tasks, and in `partition_p2` a *task* blocks on
another's future. All of them share the pool with each other, and with anyone who pauses, clears or resizes it.
The hazards, each at its line, are in `PROJECT.json`.

## 2. The pool

### TaskThreadPool

| Model | Code |
|---|---|
| `wpc[w]`, `threads` | where `worker_main` is in a thread; the vector is the set of workers with `wpc # "none"` |
| `current`, `tasks`, `status` | the popped `packaged_task`, the queue, what the future shows |
| the four flags and counters | the members of the same name |
| `thread_mutex` | its holder |
| `op`, `cpc`, `requested`, `to_start` | the blocking call a thread is in, where, and that call's locals |

*Atomicity.* Everything `task_mutex` protects is accessed only while it is held, so one critical section is one
action. Only the two `cv.wait` calls split one: they release the mutex where `WorkerSleep` and `WaitBlock` end, and
the re-evaluation of the predicate is a later action. A worker's pass from the end of a task, through the accounting
at the top of the loop, to its next sleep, exit or pop is one action since the code does not unlock in between.
`thread_mutex` is held across joins and is a variable. `submit`, `unpause` and `stop_all_threads` notify with the
mutex held, so the notification is part of their action. Both condition variables may wake spuriously.

A task either returns or throws; `packaged_task` stores either, so `TaskDone` is one action. Tasks may submit
tasks and ask for the number of threads of their own pool (`TaskCalls`); the destructor is not called while another
call is in progress, nor any call begun after it (C++'s rule for destructors, not the pool's).

### TaskService

What a caller may rely on: a FIFO queue whose tasks run once, none starting while paused; a wait that returns only
when its condition holds; a destructor that returns with no task running. It has no threads and no locks.
`ImplementsService` is the refinement (`queue <- tasks`, `paused <- pool_paused`, ...).

### Runs

| Run | Instance | Shows |
|---|---|---|
| `pool_all` | 3 workers, 3 tasks, 2 clients using *every* operation at once, sizes 0 (= hardware, 3) and 1, tasks that submit and query; symmetry | `TypeOK`, the inductive `Inv`, `InflightExact`, `WorkConserving`, `PoolLifecycle`, `ResizeExact`, `ImplementsService` |
| `pool_live` | 2 workers, 2 tasks, 2 clients; one waits, resizes and destroys, the other submits, pauses, resizes; fair | `NoStrandedWaiter`, `NotLeftWaiting`, `ResizeReturns`, `TasksAreRun`, `DestructorRunsQueue` |
| `pool_two_waiters`, `pool_clear` | as small as the behaviour allows | the disagreements of section 7 |

*Bounds.* Three workers allow one asleep, one running and one on its way at the same time, and sizes 1 and 3 give
contraction to one and expansion from it; three tasks allow a queue of two behind a running one, so the order of
starts matters. Two clients make two waits, two resizes or a wait and a clear overlap. `Task` bounds what is ever
submitted; each task is submitted once. `pool_live` has tasks that submit, but none that asks for `get_num_threads`:
with one, `ResizeReturns` fails. Its `DestructorRunsQueue` is about what is queued before the destructor's wait is over;
a task that another task submits after that may be dropped (both in section 7).

*Fairness.* `ThreadFairness` is weak fairness on each worker's steps and on the steps *inside* a call: the operating
system runs a thread that can run. Nobody has to make a call. A mutex might in principle starve a thread; critical
sections are short and each needs the mutex only once per step, and weak fairness says no more than that a thread whose
step stays possible takes it. `TasksEnd` is an assumption about the tasks, needed by every liveness property (a join
waits for tasks); it is strong because a task may go round `get_num_threads` before it ends.

`CHECK_DEADLOCK FALSE`, in all runs, because the system does stop: an idle or destroyed pool whose tasks have all been
submitted, or a sort that has returned, has nothing left to do. That nothing stops *too early* is what the liveness
properties check.

## 3. Parallel quicksort

`ParallelQuicksort` has one thread per caller (`Sort`) and the pool's workers; `quicksort_impl` runs in either. The
pool is reduced to what `TaskService` promises and section 2 shows it to keep: a FIFO queue served by workers. A
contracting pool (`Contract` ... `Restart`) lets workers finish their task, joins them all and starts the smaller
number; `get_num_threads` blocks meanwhile, and `alive` and `target` stand for the thread vector and that resize. Pause
and clear are left out here: with a paused pool a sort waits, and a cleared one breaks its promises.

A call is an algorithm and a range. Of the three that share this code only `pluggable_sort` has a budget, and so ever
runs `partition_p2`; `stable_sort` brings a stable partition and a stable sort of the leaves; `pluggable_quicksort` is
taken with its default functions. An element is a key, all that the comparator looks at, and a mark.

| Model | Code |
|---|---|
| `call` | the algorithm, and what the range holds to begin with |
| `arr` | the range; positions are 1-based, ranges half open |
| `allowed`, `leaf`, `inflight`, `futures` | `allowed_parallel_partitions`, `target_leaf_size`, `inflight_spawns`, `futures` |
| `got` | how far `get_futures` is |
| task records in `queue`, `ready` | the tasks, and the futures that are set with what they hold: a value or an exception |
| `pc`, `job`, `pivot`, `mid` | one stack frame per thread (neither function re-enters in one thread) |

`part_func` and `sort_func` may rearrange elements as they like: each is a nondeterministic choice among *all*
permutations of its range that meet its postcondition (for a stable one there is a single one), made in one step.
`Orders` holds those permutations, a table over the spans an algorithm can meet, so that TLC builds each set once. That
the step can be one is itself checked: `ElementsExclusive` says no other thread touches those elements meanwhile, those
of both halves included while `partition_p2` swaps. `partition_p2` is three actions (submit the left half, partition
the right, wait and swap); the two submissions under the mutex are two, since the first child may run before the second
exists; the decrement and the notification that follows the unlock are two.

| Run | Instance | Shows |
|---|---|---|
| `sort_all` | 4 workers resized between 2 and 4 at any moment, a comparator and `sort_func` that may throw anywhere, one `sort` of 5 or 6 elements with duplicates, one `stable_sort` of 6 told apart, one `pluggable_quicksort` of 4; symmetry | `CountCovers`, `FuturesStable`, `ElementsExclusive`, `SplitsApart`, `SortedOnReturn`, `ReturnsClean`, `SomeWorkerFree` |
| `sort_live` | 2 workers that may become 4 at any moment, 0 to 6 elements, each of the three, no exceptions; fair | `CountExact`, `SortsReturn` |
| `sort_many` | 4 sorts of 4 elements on 4 workers, no resize, no exception, callers in lock-step | `NotAllWaiting` fails: section 7 |
| `sort_throw` | | `NothingLeftBehind` fails: section 7 |

*Bounds.* The code's smallest leaf, 5, and smallest range to partition in parallel, 4, are `MinLeaf = 1` and
`MinParallel = 3` in the runs, so that six elements go through parallel partition, recursion and leaves, where the
code would need more. At 3 the right half of a parallel partition is still not empty, as at 4. With 4 workers the
budget is 2: one parallel partition in the caller and one in a worker, and then none left although the six elements
split into two ranges that are both large enough. The
inputs have repeated elements, so that a partition may fail (`mid` at an end of the range) and leave a leaf bigger
than `leaf`.

*Fairness.* Weak fairness for each caller's, worker's and call's steps, as for the pool; callers need not call. Resizes
stop in the end (`<>[][~Resize]_vars`): a thread that resizes for ever could keep `get_num_threads` from the mutex,
and that is not the sort's to prevent. Partitions, `sort_func` and the comparator end, as `std` requires.

`NotAllWaiting` is what the comment over the budget says: while a worker waits for a left half in the queue, another
can run it. The budget is computed once, before the sort, and the pool may contract later. `SomeWorkerFree` says that
between resizes a worker stays free on every pool of at least half the size the budget was made for, a budget from the
larger pool included. `sort_all` resizes between 2 and 4; with 1 among the sizes it fails, since the one worker left
may be the one that waits (section 7). While a contraction is *going on* no size is small enough, since the free worker
leaves instead of taking the half; that case has no run of its own. `sort_live` therefore has a pool that only grows,
and four workers, since on two the root call, which runs in the caller, takes the whole budget and no worker ever
waits.

With several sorts on one pool the budgets add up. k sorts on n threads may have k * (n / 2 - 1) workers waiting, one
parallel partition of each sort being its caller's; below n that leaves a worker free (`WorkersSuffice`), and four
sorts on four threads are the smallest case in which it is all of them. Their interleavings are too many for TLC, so
`MCManySorts` keeps only those in which the callers move from stage to stage together, in a fixed order (`InTurn`).
Restricting `Next` removes behaviours and adds none: a violation found there is one of `Spec`. Nothing is concluded
from what the restricted specification does *not* do.

`SortedOnReturn` asks of `stable_sort` that equivalent elements end in the order they began in. Each call keeps the
order of its own part only; that the parts lie apart by key, and are the right parts, is what makes the whole stable.

`SplitsApart` is the postcondition of `partition_p2`, in the caller (which is all `std::partition` with a parallel
policy does) and in workers.

`CountCovers` is the weaker, exception-proof form of `CountExact`: a call that throws while it partitions is never
uncounted, so the count may be too high (the caller then waits for ever), but never too low.

## 4. Chunking and find_if

`Chunking` holds `ChunkSize` (`get_chunk_size`), `IterChunkSize` and `LoopEnd`. `FindIf` uses them in `Submit`, one
iteration of the chunking loop; chunk tasks interleave with the loop and with each other at every access of
`extremum`: the early-exit load, the load in the update loop, and `compare_exchange_weak`, which may fail spuriously.
The memory order is sequentially consistent, as in the code. The sequential `std::find_if` inside a chunk is its
postcondition. Under `par`, tasks start in order, at most one per worker; under `pure_threads`, every chunk has a thread
of its own. `find`, `find_if_not`, `all_of`, `any_of` and `none_of` call it with another predicate.

`find` checks ranges of 0, 1, 4 and 5 elements with *every* set of matches, 1 and 2 threads, both policies:
`Leftmost`, `ChunksTile`, `ChunksBounded`, `NothingMissed`, `OnlyImproves`, `Returns`. `SplitFactor` is 2 where the
code has 8; with 2 threads that gives up to 4 chunks, of one element (4), and of two with a rest and fewer chunks than
asked for (5). Three or more chunks in flight let an update fail because of one faster task and succeed over another.

*Fairness.* `WF(Next)`: some thread runs while one can. `SF` of a successful compare-and-swap: it does not fail for no
reason every time, which the C++ standard asks of implementations.

## 5. The other chunked algorithms

`ForkJoin` is what they have in common. `SubmitChunk` is one iteration of the loop in `parallel_chunk_for_gen`, `_1`,
`_2` or `_3`; `futures` is the futures vector, each future a record with its task's arguments and what the future
holds; `Start`, `Finish` and `Throw` are the pool's threads, or those of `pure_threads_policy`; `NextArrived` is one
`get()` of `get_futures` or of `getting_iter`, or one `join()`; `Rethrow` is a `get()` that throws. Under
`pure_threads` an exception leaves the thread's function and ends the program. `Elementwise`, `Numeric` and
`Mergesort` say what each algorithm's tasks do and what the caller does with their futures, and `ChunkedAlgorithms`
is one call of any of them. With `par_if(false)`, `policy = "seq"`, the call is the sequential algorithm over the whole
range, one step (`Sequentially`): the same properties are asked of it, so the choice `par_if` makes may not show.

| Model | Code |
|---|---|
| `first`, `other` | `first` (`first1`) of the chunk loop; the iterators it moves along, all by the same amount |
| `futures`, `got` | the vector; how many of its futures the caller has been through |
| `ranges`, `sums`, `i` | `subranges`, or `ranges` and `sums` of the scan; the index of the loops over them |
| `result` | what `reduce` has accumulated of the futures |
| `mem` | the ranges; with `in_place`, `dest` is the first one |

*Values.* An element is a one-letter word and the operations passed in concatenate. The word of an expression is what
it evaluates to in the free monoid, so two equal words stand for equal values under every associative operation, and an
element lost, doubled or out of place shows, whatever it is; init and `T{}` are letters of their own, so using one too
often shows too. `std::reduce` may also permute its operands: the words are those of the order the implementation and
the fallback of `utils.hpp` keep. (`getting_iter` derives from the vector's iterator, but the difference of two is that
of their default-constructed bases: `std::reduce` never takes its unrolled path over the futures.) The mergesorts
compare elements by `key`, so equal ones stay distinguishable. What a sort or a merge may leave is chosen among the
permutations of the span (`Orders`, as for quicksort).

*Atomicity.* A task takes effect when it ends, in one action. `NoDataRace` is what makes that sound: no task that runs
reads or writes a cell another one writes. `Written(effect)` is `mem` after it.

| Run | Instance | Shows |
|---|---|---|
| `algorithms` | 12 algorithms, 0, 1, 3, 5 elements, 1, 3, 5 threads (2 from the hardware), par, pure threads or sequential, in place or not, every assignment of 2 keys, an exception in any task | `NoDataRace`, `PiecesTile`, `EveryElement`, `ReducesAll`, `ScansPrefixes`, `MergesReady`, `SortsRange`, `LeavesNothing`, `Ends` |
| `reduce_init`, `scan_identity` | two elements, one or two threads | the disagreements of section 7 |

`PiecesTile` is about all passes and rounds: what the caller has taken out of futures, and what is still or again in
one, cuts the range in order. `MergesReady` is `inplace_merge`'s precondition at the moment a task may run it; when it
does not hold, the model lets the merge produce any permutation. `ReducesAll` and `ScansPrefixes` compare with the
sequential definition after dropping init, or `T{}`, where the code has it too often; `InitUsedOnce` and `ScansExactly`
do not drop it, and fail: not on the sequential branch, so there the choice of `par_if` does show.

*Bounds.* Five elements on five threads are five chunks: the rounds of merges then have 5, 3, 2 and 1 subranges, so an
odd one is passed on twice. Five on three are chunks of 2, 2 and 1; three on five ask for more chunks than there are
elements; on one thread the only chunk is the range. No counter is capped: a call ends by itself.

*Fairness.* `WF(Next)`: some thread runs while one can. Nothing in these algorithms waits except for a task, and a
task waits for nothing but a thread; the README of the repository rules out calling them from a task.

## 6. What is proved

Every invariant and every action property that a passing run checks is also a theorem, for every value of the
constants: any number of workers, clients, tasks and sorts; any range, array, pool, thread count and split factor.

| Theorem | Module | Property |
|---|---|---|
| `Invariance`, `TypeCorrect` | `TaskThreadPool_proofs` | `Inv`, `TypeOK` |
| `CountCorrect`, `NoLostWakeup` | " | `InflightExact`, `WorkConserving` |
| `LifecycleCorrect`, `ResizeCorrect` | " | `PoolLifecycle`, `ResizeExact` |
| `WaitersServed` | `PoolWaiters_proofs` | `NoStrandedWaiter`, assuming `SingleWaiter` and `NoClear`, which `pool_two_waiters` and `pool_clear` show to be needed |
| `Refinement` | `PoolService_proofs` | `ImplementsService` |
| `TypeCorrect`, `NobodyInTheWay` | `ParallelQuicksort_proofs` | `TypeOK`, `ElementsExclusive` |
| `EveryCallCounted` | " | `CountCovers` |
| `FuturesNeverChange`, `LeavesClean` | " | `FuturesStable`, `ReturnsClean` |
| `CountsNothingElse` | " | `CountExact`, assuming `MayThrow = FALSE` |
| `WorkersSuffice` | " | `SomeWorkerFree`, assuming budgets that add up to less than the smallest pool |
| `PartsComeApart`, `SortsWhatItWasGiven` | `QuicksortSorts_proofs` | `SplitsApart`, `SortedOnReturn` |
| `TypeCorrect`, `MissesNothing` | `FindIf_proofs` | `TypeOK`, `NothingMissed` |
| `Tiling`, `FewChunks` | " | `ChunksTile`, `ChunksBounded` |
| `FindsLeftmost`, `Priority` | " | `Leftmost`, `OnlyImproves` |
| `TypeCorrect`, `PiecesCutTheRange` | `ChunkedAlgorithms_proofs` | `TypeOK`, `PiecesTile` |
| `TasksDoNotRace`, `NothingLeftBehind` | " | `NoDataRace`, `LeavesNothing` |
| `TreatsEveryElement` | " | `EveryElement` |
| `MergesSortedHalves`, `MergesortSorts` | `ChunkedResults_proofs` | `MergesReady`, `SortsRange` |
| `ReducesEveryElement`, `ScansEveryPrefix` | " | `ReducesAll`, `ScansPrefixes` |

*Assumptions.* `PoolAssumption`, `SortAssumption`, `FindIfAssumption`, `ForkJoinAssumption` and `CallsAssumption` say
what the constants are: finite sets of threads, at least one worker, keys that are integers, thread counts that are not
0. `MinLeaf` is positive and `MinParallel` at least 2, as the code's 5 and 4 are; with 1 a half could be empty.
`NoTaskAssumption` (and its like in `PoolAssumption`) keeps the value that stands for no task apart from the tasks.
Three theorems assume more. `CountsNothingElse` excludes exceptions, since one raises the count for good.
`WorkersSuffice` takes a number `k` that no budget, without its caller's share, exceeds (`n \div 2 <= k + 1` for every
size of the pool), such that `k` for each sort is less than every size: the budget is computed from one size and used
with another. `sort_many` shows that the number of sorts matters, and `sort_all` with `Sizes = {1}` would fail. The
runs that check the two properties satisfy these hypotheses: `sort_live` has no exceptions, and in `sort_all` one sort,
with `k = 1`, runs on 2 or 4 workers.

*The pool.* None of the properties is inductive alone. `WorkConserving` needs to know that sleeping
workers exist only while the pool runs (`RunningFlag`); that a stopped pool is stopped by exactly the client that
holds `thread_mutex` (`MutexHeld`) and is inside the matching part of its call (`ClientsConsistent`); `ResizeExact`
needs the running difference between threads and request (`ThreadCount`); the refinement needs queue, futures and
workers to agree on each task (`TasksConsistent`). `Inv` is their conjunction; TLC checks it in `pool_all`. The proof
has a lemma per conjunct, each with a case per action, and three lemmas on how the cardinality of a set of workers
changes when one worker's label does (`MoveIn`, `MoveOut`, `MoveWithin`).

*Quicksort: who owns what.* `Inv` in `ParallelQuicksort_proofs` is `Fits`, `Owned`, `Counts` and `FuturesHold`, one
upon the other. `Fits` says what each place of the code has computed and that no range is empty. `Owned` is about
everything still to be done (`Live`: the queue, and of each running call what is left of it): no task is in two
places, two calls on one array are apart, and a left half lies apart from every call but the one that waits for it.
The last clause must also cover the half whose call has thrown (a thread may still be on it, and its parent's range is
then in nobody's hands), and what a call that is over has left is smaller than it was (`OverApart`), or a task could be
submitted a second time. `Counts` compares `inflight_spawns` with the calls that may still append: the excess is never
negative, and positive wherever an exception has left a half behind. With that, a count of 0 means that nothing is
left that could touch the vector, and `FuturesHold` (what is queued, runs or has been got is in the vector) makes a
returning sort leave nothing behind. `NoneThrew` adds that the excess is 0; `BudgetKept` counts, for each sort, the
workers in `partition_p2` together with what is left of the budget, which the root call has drawn on first. `PartsBound`
adds these up over the sorts.

*Quicksort: what it does to the array.* `Parts` adds to `Inv` that nothing straddles a call that was ever submitted
(`Nested`), that a half that has been partitioned stays so while the other one is worked on (`HalvesParted`, which
needs the two halves in different hands: `Owned`), and that only `std::sort` has a budget (`Budgets`: a stable
partition is never made in two halves). From these, merging the halves splits the range, whichever half is the shorter:
`SplitsApart`. `Sorting` adds that the array is a permutation of what was given, a stable one for `stable_sort`
(`Permuted`), and `Ordered`: two elements out of order are inside one call still to be done, unless an exception has
left some call undone, which the caller then comes upon (`ResultsHold`). When nothing is left to do, nothing is out of
order.

*find_if.* Chunks are ordered and cover `0 .. first - 1`; a task past its search holds the first match of
its chunk; a task about to swap holds a value below what it loaded; a finished task leaves no match below `extremum`.
The early exit is safe because `extremum` never rises. `FewChunks` counts: every chunk but the last has `ChunkSize`
elements, and `SplitFactor * num_threads` of these reach the end.

*The chunked algorithms: shape.* `Inv` in `ChunkedAlgorithms_proofs` is `Typed` and `Shape`: where each algorithm's
call may be (`StagesFit`), that the iterators a loop moves stay in step (`Aligned`), that the futures the caller is
through with are ready (`GotReady`), and that futures and lists are made of pieces that cut the range (`ListsFit`, with
`Tiles`). `ListsFit` has a clause per stage, since what tiles the range is the futures, the list of ranges, or, while
subranges are being paired up, the futures up to the range that comes next (`PairedUp`). Two pieces of one tiling are
apart (`SpansApart`): that is `NoDataRace`, and it is used in everything below.

*The chunked algorithms: results.* `ElementsFit` says that what a task that is over has written is right, and all else
is as it was given. `PiecesSorted` says that the span of every ready future and of every range in the list is sorted,
and holds the elements it was given; a merge makes one such piece of two neighbours. `ReductionFits` and `ScanFits`
compare words with `Spelled`, a table of what the elements between two positions add: a ready future holds the word of
its chunk, the caller's result that of all it has got, each start of the second pass that of everything before the
chunk. A scan in place overwrites what it reads, so `ScanFits` keeps the elements that no task of the second pass is
through with (`Scanned`) as they were given: those include the whole span of any task that still runs.

*Induction over data.* The prover has no induction for operators, but facts about sets can be proved: `Induction`
(a set of numbers that holds 0 and, with each number, the next one, holds them all) follows from the pigeonhole
principle for finite sets. With sets of lengths for which a fact holds, it gives what is needed of `FlattenSeq` (its
definition has a solution, which distributes over concatenation) and of `Without` (which does, too). `Joined` is
concatenation under a name that hides it, where rewriting with associativity would not end.

*Only model-checked*: all liveness (`NotLeftWaiting`, `ResizeReturns`, `TasksAreRun`, `DestructorRunsQueue`,
`SortsReturn`, `Returns`, `Ends`), since `ENABLED` and fairness are beyond the prover; and the violations of section 7,
which are counterexamples.

## 7. Disagreements between the code and its comments

| Run | What happens | What the comment says |
|---|---|---|
| `pool_two_waiters` | the first of two waiting threads to return clears `notify_task_finish`; the other sleeps for ever | `task_thread_pool.hpp:333` "Block until all tasks have finished." |
| `pool_clear` | `clear_task_queue` empties the queue under a waiting thread and notifies nobody | the same |
| `sort_many` | four sorts on four threads, with a budget each: every worker waits in `partition_p2` for a left half in the queue | `algorithm:35`, the comment over the budget: "So ensure" |
| `sort_throw` | after an exception the sort leaves while its tasks still use its locals | `ttp_impl.hpp:305` "Wait on all the parallel tasks." |
| `reduce_init` | init is used for every chunk and once more | `numeric:85` "See std::reduce"; `tests/poolstl_test.cpp:591` |
| `scan_identity` | every chunk but the first is scanned from a value with `T{}` in it: with `std::multiplies`, 0 | `numeric:21` "See std::exclusive_scan"; `tests/poolstl_test.cpp:555` |

Of the same kind, without a run of their own:

- a wait for the queue to empty is notified when a task ends, not when the last one is taken (`task_thread_pool.hpp:355`);
- a contraction joins, with `thread_mutex` held (`:411`), workers whose tasks may ask for `get_num_threads`: neither ever
  ends, and `ResizeReturns` fails in `pool_live` with `get_num_threads` in `TaskCalls`;
- a task that another one submits between the destructor's wait and its stop (`:153`) is dropped, though the comment
  (`:147`) says "Finish all tasks left in the queue";
- a sort begun on four threads whose pool is contracted to one may have its only worker wait in `partition_p2` for a left
  half in the queue (`algorithm:40`): `SomeWorkerFree` fails in `sort_all` with `Sizes = {1}`;
- a contraction, even to half the threads, leaves nobody to run the left half a worker waits for until it is over, and it
  is not over before that worker is;
- a `quicksort_impl` that throws while it partitions stays counted (`ttp_impl.hpp:246`), so that the caller waits for ever.

## 8. Not modelled, and the plan

Done: the pool and its refinement; quicksort, and several at once; chunking with find_if; the element-wise, numeric
and mergesort algorithms; a proof of every safety property. What could still be added:

1. An abstract specification of a chunked call (one step from what was given to the result), which
   `ChunkedAlgorithms` refines; its content is proved as the invariants on `caller = "returned"`.
2. `NotAllWaiting` for one sort, with the resizes that are going on, where it holds: `SomeWorkerFree` is about the
   time between them.

Left out for good: overload selection, `variant_policy` and `seq_fwd` (they forward the call), and the sequential
branch of the sorts and of `find_if` (one call of the standard algorithm); the default pool, made once under
`std::call_once`; `iota_iter` (one arithmetic operator per operation); tests, benchmarks, the amalgamation script, and
the vendored test framework. `hardware_concurrency()` is assumed to be known: where it is 0, `pure_threads_policy`
without a thread count divides by it (`execution:109`).
