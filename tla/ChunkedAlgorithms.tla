-------------------------- MODULE ChunkedAlgorithms --------------------------
(***************************************************************************)
(* One call of any of the chunked algorithms, with every range, number of  *)
(* threads and policy it may be called with.                               *)
(***************************************************************************)
EXTENDS Elementwise, Numeric, Mergesort

ASSUME CallsAssumption ==
    Calls \subseteq ElementwiseAlgorithms \union Reductions \union {"exclusive_scan"}
                        \union Mergesorts

\* pure_threads_policy is for the algorithms that call parallel_chunk_for_1_wait.  With
\* par_if(false) nobody asks for the threads.
Init ==
    /\ algorithm \in Calls
    /\ n \in Lengths
    /\ policy \in {"par", "seq"}
                  \union (IF algorithm \in {"for_each", "fill"} THEN {"pure_threads"} ELSE {})
    /\ num_threads \in CASE policy = "par" -> Threads
                         [] policy = "pure_threads" ->
                                {GetNumThreads(requested) : requested \in Threads \union {0}}
                         [] policy = "seq" -> {1}
    /\ in_place \in IF algorithm \in {"transform_1", "transform_2", "exclusive_scan"} THEN BOOLEAN
                    ELSE {FALSE}
    /\ key \in IF algorithm \in Mergesorts \union {"count_if"} THEN [0 .. n - 1 -> Keys]
               ELSE {[p \in 0 .. n - 1 |-> CHOOSE k \in Keys : TRUE]}
    /\ caller = "called"
    /\ first = 0 /\ other = 0
    /\ futures = <<>> /\ got = 0
    /\ ranges = <<>> /\ sums = <<>> /\ i = 1
    /\ mem = Given
    /\ result = <<>>

Next ==
    \/ ElementwiseStep \/ NumericStep \/ MergesortStep
    \/ Chunked \/ Rethrow \/ ThrowSequentially
    \/ \E f \in DOMAIN futures : Start(f) \/ Throw(f)

Spec == Init /\ [][Next]_vars

\* Some thread runs as long as one can.
FairSpec == Spec /\ WF_vars(Next)

-----------------------------------------------------------------------------
Stages == {"called", "chunking", "getting", "applying", "joining", "merging", "last"} \union Finished

Words == Seq(Letter)

TypeOK ==
    /\ algorithm \in Calls /\ n \in Lengths /\ num_threads \in Nat \ {0}
    /\ policy \in {"par", "pure_threads", "seq"} /\ in_place \in BOOLEAN
    /\ key \in [0 .. n - 1 -> Keys]
    /\ caller \in Stages
    /\ first \in 0 .. n /\ other \in {0, first}
    /\ \A f \in DOMAIN futures :
          /\ futures[f] \in [part : {"chunk", "scan", "merge", "forwarded"},
                             first : 0 .. n, mid : 0 .. n, last : 0 .. n, other : 0 .. n,
                             init : Words, state : {"queued", "running", "ready", "broken"},
                             value : Words]
    /\ got \in 0 .. Len(futures)
    /\ ranges \in Seq((0 .. n) \X (0 .. n)) /\ sums \in Seq(Words)
    /\ i \in 1 .. Len(ranges) + 1
    /\ mem \in [Cell -> Words]
    /\ result \in Words

\* What a running task reads and writes.
Reads(t) == IF Elementwise THEN ElementReads(t)
            ELSE IF Mergesort THEN MergesortReads(t) ELSE NumericReads(t)

Writes(t) == IF Elementwise THEN DOMAIN ElementEffect(t)
             ELSE IF Mergesort THEN MergesortReads(t)
             ELSE IF t.part = "scan" THEN DOMAIN ScanEffect(t) ELSE {}

\* Two tasks that run at once never touch the same element, unless both only read it.
NoDataRace ==
    \A f, g \in Running :
        f # g => Writes(futures[f]) \intersect (Reads(futures[g]) \union Writes(futures[g])) = {}

\* The pieces of the range that the call has in its lists, in their order: those taken
\* from futures, and those still or again in one.
Pieces ==
    LET span(f) == <<futures[f].first, futures[f].last>>
        spans == [f \in DOMAIN futures |-> span(f)]
    IN  IF caller \in {"applying", "merging"}
        THEN spans \o SubSeq(ranges, i, Len(ranges))
        ELSE ranges \o SubSeq(spans, Len(ranges) + 1, Len(spans))

\* In every pass and every round these pieces cut the range, up to where the chunking
\* loop is, without a gap or an overlap, and stay in order.
PiecesTile ==
    LET p == Pieces
    IN  /\ p = <<>> <=> first = 0
        /\ p # <<>> => p[1][1] = 0 /\ p[Len(p)][2] = first
        /\ \A k \in DOMAIN p : p[k][1] < p[k][2]
        /\ \A k \in 1 .. Len(p) - 1 : p[k][2] = p[k + 1][1]

\* A call that returns has no task left queued or running, and none of them threw.
LeavesNothing ==
    caller = "returned" => \A f \in DOMAIN futures : futures[f].state = "ready"

\* Every call ends.
Ends == <>(caller \in Finished)
=============================================================================
