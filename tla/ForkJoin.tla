------------------------------ MODULE ForkJoin ------------------------------
(***************************************************************************)
(* What the chunked algorithms share: parallel_chunk_for_gen, _1, _2 and   *)
(* _3, which submit a task for each chunk of a range (ttp_impl.hpp), the   *)
(* futures vector they return, and the threads that run the tasks, those   *)
(* of a pool or, under pure_threads_policy (thread_impl.hpp), one for each *)
(* task.  Elementwise, Numeric and Mergesort add what each algorithm does  *)
(* with them; ChunkedAlgorithms puts them together.                        *)
(*                                                                         *)
(* Values are words.  The element at position i of a range starts as the   *)
(* word of one letter <<range, i>>, and an operation the user passes in    *)
(* concatenates: two expressions whose words are equal have equal values   *)
(* for every associative operation.                                        *)
(***************************************************************************)
EXTENDS Chunking, Sequences, FiniteSets

CONSTANTS Calls,               \* the algorithms that may be called
          Lengths,             \* the sizes of their ranges
          Threads,             \* the thread counts a pool or a policy may have
          HardwareConcurrency, \* std::thread::hardware_concurrency()
          Keys,                \* what comparators and predicates see of an element
          MayThrow             \* whether the operations passed in may throw

ASSUME ForkJoinAssumption ==
    /\ Lengths \subseteq Nat
    /\ Threads \subseteq Nat \ {0}
    /\ HardwareConcurrency \in Nat \ {0}
    /\ Keys \subseteq Int /\ Keys # {}
    /\ MayThrow \in BOOLEAN

VARIABLES
    algorithm,
    n,           \* the length of the range: its positions are 0 .. n - 1
    num_threads, \* get_num_threads() of the pool or the policy
    policy,      \* "par", "pure_threads", or either with par_if(false): "seq"
    in_place,    \* whether dest is first1
    key,         \* the key of each element of the first range
    caller,      \* where the call is
    first,       \* the chunking loop's position
    other,       \* the position of first2, first3 or dest in that loop
    futures,     \* the futures vector, each future with its task
    got,         \* how many of the futures the caller has got
    ranges,      \* subranges of the mergesort, ranges of the scan
    sums,        \* sums of the scan
    i,           \* the index in the loops over those
    mem,         \* what the ranges hold
    result       \* init and the futures reduced so far

vars == <<algorithm, n, num_threads, policy, in_place, key, caller, first, other,
          futures, got, ranges, sums, i, mem, result>>

input == <<algorithm, n, num_threads, policy, in_place, key>>
loop == <<first, other>>
lists == <<ranges, sums, i>>

Buffer == {"first1", "first2", "dest"}
Cell == Buffer \X (0 .. n - 1)

TheInit == <<"init", 0>>     \* the argument init
Zero == <<"zero", 0>>        \* T{}
Applied == <<"applied", 0>>  \* what the operation passed in makes of an element
TheValue == <<"value", 0>>   \* the argument value of fill
Letter == Cell \union {TheInit, Zero, Applied, TheValue}

\* What the ranges hold when the algorithm is called.
Given == [c \in Cell |-> IF c[1] = "dest" THEN <<>> ELSE <<c>>]

\* The len cells of a buffer from position lo on.
Span(buffer, lo, len) == {buffer} \X (lo .. lo + len - 1)

\* The ranges with what effect holds written to them.
Written(effect) == [c \in Cell |-> IF c \in DOMAIN effect THEN effect[c] ELSE mem[c]]

dest == IF in_place THEN "first1" ELSE "dest"

ClearedTo(stage) ==
    /\ caller' = stage
    /\ futures' = <<>>
    /\ got' = 0

Goto(stage) == caller' = stage

Finished == {"returned", "threw", "terminated"}

is_seq == policy = "seq"

(***************************************************************************)
(* Tasks and their futures.                                                *)
(***************************************************************************)
\* part tells a chunk's task from that of the second pass of a scan or of a merge.
Task(part, from, mid, to, at, init) ==
    [part |-> part, first |-> from, mid |-> mid, last |-> to, other |-> at,
     init |-> init, state |-> "queued", value |-> <<>>]

\* The whole range, as a sequential algorithm goes through it.
WholeRange(init) == Task("chunk", 0, n, n, 0, init)

Length(t) == t.last - t.first

\* std::terminate ends the program, its tasks with it.
Alive == caller # "terminated"

Running == {f \in DOMAIN futures : futures[f].state = "running"}

\* A pool starts its tasks in the order of their submission, one for each thread; without
\* a pool each task has a thread of its own.
ThreadFor(f) ==
    policy = "par" => /\ Cardinality(Running) < num_threads
                      /\ \A g \in 1 .. f - 1 : futures[g].state # "queued"

Start(f) ==
    /\ Alive /\ futures[f].state = "queued" /\ ThreadFor(f)
    /\ futures' = [futures EXCEPT ![f].state = "running"]
    /\ UNCHANGED <<input, caller, loop, got, lists, mem, result>>

\* The task of f ends, having written what effect holds, and f holds value.
Finish(f, effect, value) ==
    /\ Alive /\ futures[f].state = "running"
    /\ futures' = [futures EXCEPT ![f].state = "ready", ![f].value = value]
    /\ mem' = Written(effect)
    /\ UNCHANGED <<input, caller, loop, got, lists, result>>

\* An exception goes to the future, or out of the thread's function.  What the task has
\* written by then is left out: no result is expected any more.
Throw(f) ==
    /\ MayThrow /\ Alive /\ futures[f].state = "running"
    /\ IF policy = "par"
       THEN futures' = [futures EXCEPT ![f].state = "broken"] /\ UNCHANGED caller
       ELSE Goto("terminated") /\ UNCHANGED futures
    /\ UNCHANGED <<input, loop, got, lists, mem, result>>

(***************************************************************************)
(* The caller.                                                             *)
(***************************************************************************)
\* pure_threads_policy with no threads asked for takes the hardware's.
GetNumThreads(requested) == IF requested = 0 THEN HardwareConcurrency ELSE requested

\* The call runs the sequential algorithm, which writes what effect holds.
Sequentially(effect, value) ==
    /\ caller = "called" /\ is_seq
    /\ mem' = Written(effect)
    /\ result' = value
    /\ Goto("returned")
    /\ UNCHANGED <<input, loop, futures, got, lists>>

ThrowSequentially ==
    /\ MayThrow /\ caller = "called" /\ is_seq
    /\ Goto("threw")
    /\ UNCHANGED <<input, loop, futures, got, lists, mem, result>>

\* Mutant of AdvanceOther: the other iterators stay where they are.
OtherStays(loop_end) == UNCHANGED other

\* In parallel_chunk_for_2 and _3 the other iterators go along.
AdvanceOther(loop_end) ==
    other' = IF algorithm \in {"copy", "transform_1", "transform_2", "transform_reduce_2"}
             THEN other + (loop_end - first)
             ELSE other

\* One iteration of the loop in parallel_chunk_for_*.
SubmitChunk(init) ==
    LET loop_end == LoopEnd(first, n, ChunkSize(n, num_threads))
    IN  /\ caller = "chunking" /\ first < n
        /\ futures' = Append(futures, Task("chunk", first, loop_end, loop_end, other, init))
        /\ first' = loop_end
        /\ AdvanceOther(loop_end)
        /\ UNCHANGED <<input, caller, got, lists, mem, result>>

Chunked ==
    /\ caller = "chunking" /\ first >= n
    /\ Goto("getting")
    /\ UNCHANGED <<input, loop, futures, got, lists, mem, result>>

\* Mutant of Arrived: get() and join() do not wait.
Anyway(f) == TRUE

\* get() returns, or join() does.
Arrived(f) == futures[f].state = "ready"

\* The next future in the caller's loop over them.
NextArrived ==
    /\ caller \in {"getting", "joining"} /\ got < Len(futures) /\ Arrived(got + 1)
    /\ got' = got + 1

Gathered == caller \in {"getting", "joining"} /\ got = Len(futures)

\* get() rethrows what the task threw, and the call leaves with it.
Rethrow ==
    /\ caller \in {"getting", "joining", "last"}
    /\ got < Len(futures) /\ futures[got + 1].state = "broken"
    /\ Goto("threw")
    /\ UNCHANGED <<input, loop, futures, got, lists, mem, result>>

Return ==
    /\ Gathered
    /\ Goto("returned")
    /\ UNCHANGED <<input, loop, futures, got, lists, mem, result>>
=============================================================================
