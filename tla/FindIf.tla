------------------------------- MODULE FindIf -------------------------------
(***************************************************************************)
(* std::find_if with a parallel policy (src/include/poolstl/algorithm),    *)
(* on which find, find_if_not, all_of, any_of and none_of are built.       *)
(*                                                                         *)
(* The caller cuts the range into chunks and submits one task for each;    *)
(* the tasks share the atomic extremum, the position of the leftmost match *)
(* found so far, lower it with a compare-and-swap loop, and leave early    *)
(* when their chunk starts after it.  Each load of extremum and each       *)
(* compare-and-swap is an action.  A pool starts tasks in the order of     *)
(* their submission and runs at most one per thread; pure_threads_policy   *)
(* (thread_impl.hpp) gives each task a thread of its own.                  *)
(***************************************************************************)
EXTENDS Chunking, FiniteSets

CONSTANTS Lengths,     \* the sizes of the ranges searched
          Threads,     \* the sizes the pool may have
          Policies,    \* the execution policies, of "par" and "pure_threads"
          SplitFactor  \* extra_split_factor: 8 in the code

ASSUME FindIfAssumption ==
    /\ Lengths \subseteq Nat
    /\ Threads \subseteq Nat \ {0}
    /\ Policies \subseteq {"par", "pure_threads"}
    /\ SplitFactor \in Nat \ {0}

VARIABLES
    n,           \* the length of the range; positions are 0 .. n - 1
    matches,     \* the positions where the predicate holds
    num_threads, \* the pool's threads, or the policy's
    policy,
    extremum,
    first,       \* the chunking loop's position
    last,        \* last[c]: the end of the chunk that starts at c, once submitted
    pc,          \* pc[c]: where the task of that chunk is
    k,           \* k[c]: the first match in the chunk
    old,         \* old[c]: what the task last loaded from extremum
    caller       \* where find_if itself is

vars == <<n, matches, num_threads, policy, extremum, first, last, pc, k, old, caller>>
input == <<n, matches, num_threads, policy>>

Chunks == DOMAIN last

Init == /\ n \in Lengths
        /\ matches \in SUBSET (0 .. n - 1)
        /\ num_threads \in Threads
        /\ policy \in Policies
        /\ extremum = n
        /\ first = 0
        /\ last = [c \in {} |-> 0]
        /\ pc = [c \in {} |-> "queued"]
        /\ k = [c \in {} |-> 0]
        /\ old = [c \in {} |-> 0]
        /\ caller = "submitting"

Extend(f, c, v) == [d \in DOMAIN f \union {c} |-> IF d = c THEN v ELSE f[d]]

(***************************************************************************)
(* The caller: parallel_chunk_for_1, then get_futures (join, without a     *)
(* pool), then the result.                                                 *)
(***************************************************************************)
\* Mutant of Submit: the loop takes loop_end for the last position of the chunk.
SubmitInclusive ==
    /\ caller = "submitting" /\ first < n
    /\ LET loop_end == LoopEnd(first, n, ChunkSize(n, SplitFactor * num_threads))
       IN  last' = Extend(last, first, loop_end) /\ first' = loop_end + 1
    /\ pc' = Extend(pc, first, "queued")
    /\ k' = Extend(k, first, n) /\ old' = Extend(old, first, n)
    /\ UNCHANGED <<input, extremum, caller>>

Submit ==
    /\ caller = "submitting" /\ first < n
    /\ LET loop_end == LoopEnd(first, n, ChunkSize(n, SplitFactor * num_threads))
       IN  /\ last' = Extend(last, first, loop_end)
           /\ first' = loop_end
    /\ pc' = Extend(pc, first, "queued")
    /\ k' = Extend(k, first, n)
    /\ old' = Extend(old, first, n)
    /\ UNCHANGED <<input, extremum, caller>>

\* Mutant of Gathered: find_if does not wait for its tasks.
NotGathered == TRUE

Gathered == \A c \in Chunks : pc[c] = "done"

Return ==
    /\ caller = "submitting" /\ first >= n /\ Gathered
    /\ caller' = "returned"
    /\ UNCHANGED <<input, extremum, first, last, pc, k, old>>

\* extremum == n means last, and n is where last is.
result == extremum

(***************************************************************************)
(* The task of chunk c.                                                    *)
(***************************************************************************)
Goto(c, label) == pc' = [pc EXCEPT ![c] = label]

Running == {c \in Chunks : pc[c] \notin {"queued", "done"}}

ThreadFor(c) ==
    policy = "par" => /\ \A d \in Chunks : pc[d] = "queued" => c <= d
                      /\ Cardinality(Running) < num_threads

Start(c) ==
    /\ pc[c] = "queued" /\ ThreadFor(c)
    /\ Goto(c, "started")
    /\ UNCHANGED <<input, extremum, first, last, k, old, caller>>

\* Mutant of FoundEarlier: any match will do.
FoundAnywhere(c) == extremum < n

FoundEarlier(c) == c > extremum

LeaveEarly(c) ==
    /\ pc[c] = "started" /\ FoundEarlier(c)
    /\ Goto(c, "done")
    /\ UNCHANGED <<input, extremum, first, last, k, old, caller>>

GoOn(c) ==
    /\ pc[c] = "started" /\ ~FoundEarlier(c)
    /\ Goto(c, "searching")
    /\ UNCHANGED <<input, extremum, first, last, k, old, caller>>

Here(c) == matches \intersect (c .. last[c] - 1)

\* std::find_if on the chunk.
Search(c) ==
    /\ pc[c] = "searching"
    /\ IF Here(c) = {}
       THEN Goto(c, "done") /\ UNCHANGED k
       ELSE /\ \E i \in Here(c) : (\A j \in Here(c) : i <= j) /\ k' = [k EXCEPT ![c] = i]
            /\ Goto(c, "loading")
    /\ UNCHANGED <<input, extremum, first, last, old, caller>>

\* Mutant of Improves: an equal position counts as better.
ImprovesOrTies(c) == k[c] <= extremum

Improves(c) == k[c] < extremum

Load(c) ==
    /\ pc[c] = "loading"
    /\ old' = [old EXCEPT ![c] = extremum]
    /\ Goto(c, IF Improves(c) THEN "swapping" ELSE "done")
    /\ UNCHANGED <<input, extremum, first, last, k, caller>>

\* Mutant of Unchanged: a store in place of the compare-and-swap.
StoreAnyway(c) == TRUE

Unchanged(c) == extremum = old[c]

CompareExchange(c) ==
    /\ pc[c] = "swapping" /\ Unchanged(c)
    /\ extremum' = k[c]
    /\ Goto(c, "loading")
    /\ UNCHANGED <<input, first, last, k, old, caller>>

\* Another task was faster, or compare_exchange_weak failed for no reason.
CompareExchangeFails(c) ==
    /\ pc[c] = "swapping"
    /\ Goto(c, "loading")
    /\ UNCHANGED <<input, extremum, first, last, k, old, caller>>

-----------------------------------------------------------------------------
TaskStep(c) == Start(c) \/ LeaveEarly(c) \/ GoOn(c) \/ Search(c) \/ Load(c)

Next == \/ Submit \/ Return
        \/ \E c \in Chunks : TaskStep(c) \/ CompareExchange(c) \/ CompareExchangeFails(c)

Spec == Init /\ [][Next]_vars

\* Some thread runs as long as one can, and compare_exchange_weak does not fail for no
\* reason every time it could succeed.
FairSpec == Spec /\ WF_vars(Next) /\ SF_vars(\E c \in Chunks : CompareExchange(c))

-----------------------------------------------------------------------------
TypeOK == /\ n \in Lengths /\ matches \subseteq 0 .. n - 1 /\ num_threads \in Threads
          /\ policy \in Policies
          /\ extremum \in 0 .. n /\ first \in 0 .. n
          /\ Chunks \subseteq 0 .. n - 1
          /\ last \in [Chunks -> 0 .. n]
          /\ pc \in [Chunks -> {"queued", "started", "searching", "loading", "swapping", "done"}]
          /\ k \in [Chunks -> 0 .. n] /\ old \in [Chunks -> 0 .. n]
          /\ caller \in {"submitting", "returned"}

IsLeftmost(i) == IF matches = {} THEN i = n
                 ELSE i \in matches /\ \A j \in matches : i <= j

\* find_if returns the leftmost match, whatever order the tasks ran in, or last.
Leftmost == caller = "returned" => IsLeftmost(result)

\* The chunks submitted cut the range up to first without a gap or an overlap.
ChunksTile ==
    \A i \in 0 .. first - 1 :
        \E c \in Chunks : /\ i \in c .. last[c] - 1
                          /\ \A d \in Chunks : i \in d .. last[d] - 1 => d = c

\* There are no more chunks than SplitFactor for each thread.
ChunksBounded == Cardinality(Chunks) <= SplitFactor * num_threads

\* A task that has left, early or not, has left nothing better behind in its chunk.
NothingMissed ==
    \A c \in Chunks : pc[c] = "done" => \A i \in Here(c) : extremum <= i

\* A priority update only ever lowers extremum, and to a match.
OnlyImproves == [][extremum' # extremum => extremum' < extremum /\ extremum' \in matches]_vars

Returns == <>(caller = "returned")
=============================================================================
