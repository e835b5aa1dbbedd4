------------------------------ MODULE Mergesort ------------------------------
(***************************************************************************)
(* pluggable_mergesort with a parallel policy                              *)
(* (src/include/poolstl/algorithm) and parallel_mergesort                  *)
(* (.../internal/ttp_impl.hpp): the chunks are sorted in tasks, then       *)
(* merged two by two in rounds, one task for each merge, until one is      *)
(* left.  "stable_mergesort" is the same with a stable sort_func.          *)
(***************************************************************************)
EXTENDS ForkJoin, Functions

Mergesorts == {"mergesort", "stable_mergesort"}

Mergesort == algorithm \in Mergesorts

\* The key of the element that m holds at position p.
KeyAt(m, p) == key[m[<<"first1", p>>][1][2]]

\* The permutations of the positions between any two, in a table.
Orders == [span \in UNION {(0 .. m) \X (0 .. m) : m \in Lengths} |->
              LET S == span[1] .. span[2] - 1 IN Bijection(S, S)]

\* What may become of the memory when the elements of [lo, hi) are permuted.
Arrangements(lo, hi) ==
    {[c \in Span("first1", lo, hi - lo) |-> mem[<<"first1", f[c[2]]>>]] : f \in Orders[<<lo, hi>>]}

SortedIn(m, lo, hi) == \A p, q \in lo .. hi - 1 : p < q => KeyAt(m, p) <= KeyAt(m, q)

\* Where m holds what is at position p now.
PlaceIn(m, p, lo, hi) ==
    CHOOSE q \in lo .. hi - 1 : m[<<"first1", q>>] = mem[<<"first1", p>>]

\* Elements with equal keys are in m in the order they are in now.
StableIn(m, lo, hi) ==
    \A p, q \in lo .. hi - 1 :
        p < q /\ KeyAt(mem, p) = KeyAt(mem, q)
            => PlaceIn(m, p, lo, hi) < PlaceIn(m, q, lo, hi)

\* The outcomes of sort_func on a chunk.
SortEffects(t) ==
    {m \in Arrangements(t.first, t.last) :
        /\ SortedIn(m, t.first, t.last)
        /\ algorithm = "stable_mergesort" => StableIn(m, t.first, t.last)}

\* inplace_merge is stable; of halves that are not both sorted anything may become.
MergeEffects(t) ==
    {m \in Arrangements(t.first, t.last) :
        SortedIn(mem, t.first, t.mid) /\ SortedIn(mem, t.mid, t.last)
            => SortedIn(m, t.first, t.last) /\ StableIn(m, t.first, t.last)}

MergesortReads(t) == IF t.part = "forwarded" THEN {} ELSE Span("first1", t.first, Length(t))

SortSequentially ==
    /\ Mergesort /\ caller = "called" /\ is_seq
    /\ \E m \in SortEffects(WholeRange(<<>>)) : Sequentially(m, <<>>)

CallMergesort ==
    /\ Mergesort /\ caller = "called" /\ ~is_seq
    /\ Goto(IF n = 0 THEN "returned" ELSE "chunking")
    /\ UNCHANGED <<input, loop, futures, got, lists, mem, result>>

SubmitSort == Mergesort /\ SubmitChunk(<<>>)

RunSort(f) ==
    LET t == futures[f]
    IN  Mergesort /\ t.part = "chunk" /\ \E m \in SortEffects(t) : Finish(f, m, <<>>)

RunMerge(f) ==
    LET t == futures[f]
    IN  Mergesort /\ t.part = "merge" /\ \E m \in MergeEffects(t) : Finish(f, m, <<>>)

GetSubrange ==
    /\ Mergesort /\ NextArrived
    /\ ranges' = Append(ranges, <<futures[got + 1].first, futures[got + 1].last>>)
    /\ UNCHANGED <<input, caller, loop, futures, sums, i, mem, result>>

BeginRound ==
    /\ Mergesort /\ Gathered
    /\ i' = 1
    /\ ClearedTo("merging")
    /\ UNCHANGED <<input, loop, ranges, sums, mem, result>>

\* Mutant of MergeTask: the halves are taken to be equally long.
MergeTaskHalved(lhs, rhs) ==
    Task("merge", lhs[1], (lhs[1] + rhs[2]) \div 2, rhs[2], 0, <<>>)

MergeTask(lhs, rhs) == Task("merge", lhs[1], lhs[2], rhs[2], 0, <<>>)

\* Mutant of NextPair: the loop goes on with the range just merged.
NextRange == i' = i + 1

NextPair == i' = i + 2

PairUp ==
    /\ Mergesort /\ caller = "merging" /\ i < Len(ranges)
    /\ futures' = Append(futures, MergeTask(ranges[i], ranges[i + 1]))
    /\ NextPair
    /\ UNCHANGED <<input, caller, loop, got, ranges, sums, mem, result>>

\* Mutant of ForwardLast: an odd subrange is left out.
LeaveLast ==
    /\ Mergesort /\ caller = "merging" /\ i = Len(ranges)
    /\ i' = i + 1
    /\ UNCHANGED <<input, caller, loop, futures, got, ranges, sums, mem, result>>

\* An odd subrange goes to the next round as a future that is ready.
ForwardLast ==
    /\ Mergesort /\ caller = "merging" /\ i = Len(ranges)
    /\ LET odd == ranges[i]
       IN  futures' = Append(futures,
                             [Task("forwarded", odd[1], odd[2], odd[2], 0, <<>>)
                                 EXCEPT !.state = "ready"])
    /\ i' = i + 1
    /\ UNCHANGED <<input, caller, loop, got, ranges, sums, mem, result>>

\* Mutant of MoreRounds: the last merge is forgotten.
UntilTwo == Len(futures) > 2

\* Mutant of MoreRounds: a single subrange is merged again.
AnyLeft == Len(futures) >= 1

MoreRounds == Len(futures) > 1

EndRound ==
    /\ Mergesort /\ caller = "merging" /\ i > Len(ranges)
    /\ ranges' = <<>>
    /\ i' = 1
    /\ Goto(IF MoreRounds THEN "getting" ELSE "last")
    /\ UNCHANGED <<input, loop, futures, got, sums, mem, result>>

\* futures.front().get()
GetLast ==
    /\ Mergesort /\ caller = "last" /\ Arrived(1)
    /\ Goto("returned")
    /\ UNCHANGED <<input, loop, futures, got, lists, mem, result>>

MergesortStep ==
    \/ SortSequentially
    \/ CallMergesort \/ SubmitSort \/ GetSubrange \/ BeginRound
    \/ PairUp \/ ForwardLast \/ EndRound \/ GetLast
    \/ \E f \in DOMAIN futures : RunSort(f) \/ RunMerge(f)

-----------------------------------------------------------------------------
\* inplace_merge needs two neighbouring sorted ranges: when a merge may run, both of its
\* halves are sorted, each by a task that is over.
MergesReady ==
    \A f \in DOMAIN futures :
        Mergesort /\ futures[f].part = "merge" /\ futures[f].state \in {"queued", "running"} =>
            /\ SortedIn(mem, futures[f].first, futures[f].mid)
            /\ SortedIn(mem, futures[f].mid, futures[f].last)

\* A mergesort that returns leaves its range sorted, with the elements it was given and,
\* when sort_func is stable, equal ones in the order they were in.
SortsRange ==
    Mergesort /\ caller = "returned" =>
        /\ \A p \in 0 .. n - 1 : \E q \in 0 .. n - 1 : mem[<<"first1", q>>] = Given[<<"first1", p>>]
        /\ SortedIn(mem, 0, n)
        /\ algorithm = "stable_mergesort" =>
               \A p, q \in 0 .. n - 1 :
                   p < q /\ KeyAt(mem, p) = KeyAt(mem, q)
                       => mem[<<"first1", p>>][1][2] < mem[<<"first1", q>>][1][2]
=============================================================================
