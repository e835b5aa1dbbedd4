---------------------------- MODULE MCQuicksort ----------------------------
(* Constants and symmetry for the model-checking runs of ParallelQuicksort. *)
EXTENDS ParallelQuicksort, TLC

Alike(keys) == [i \in DOMAIN keys |-> <<keys[i], 0>>]

Marked(keys) == [i \in DOMAIN keys |-> <<keys[i], i>>]

\* Splits into three and two elements, each of which is split or tried again.
FiveElements == [by : {"sort"}, range : {Alike(<<1, 3, 2, 1, 1>>)}]

\* The second splits into twice three, which may be partitioned in parallel again.
SortTwoRanges == FiveElements \union [by : {"sort"}, range : {Alike(<<1, 2, 1, 2, 2, 1>>)}]

\* Each of its leaves holds two elements or more that are equivalent, in both orders of key.
StableSorts == [by : {"stable_sort"},
                range : {Marked(<<2, 1, 3, 2, 1, 3>>), Marked(<<1, 2, 1, 2, 2, 1>>)}]

Quicksorts == [by : {"quicksort"}, range : {Alike(<<2, 3, 3, 1>>)}]

AllSorts == SortTwoRanges \union StableSorts \union Quicksorts

SomeSorts == SortTwoRanges \union StableSorts
    \union [by : {"sort", "quicksort"},
            range : {<<>>, Alike(<<1>>), Alike(<<2, 3, 3, 1>>)}]

Symmetry == Permutations(Worker) \union Permutations(Sort)
=============================================================================
