------------------------------- MODULE Numeric -------------------------------
(***************************************************************************)
(* reduce, transform_reduce and exclusive_scan                             *)
(* (src/include/poolstl/numeric) and count_if (.../algorithm).             *)
(*                                                                         *)
(* The first three and count_if reduce each chunk in a task and the        *)
(* chunks' results in the caller, as their futures arrive.  exclusive_scan *)
(* makes two passes: the sum of each chunk, then the scan of each chunk    *)
(* from the sum of all before it.                                          *)
(***************************************************************************)
EXTENDS ForkJoin, SequencesExt

Reductions == {"reduce", "transform_reduce_1", "transform_reduce_2", "count_if"}

Reduction == algorithm \in Reductions
Scan == algorithm = "exclusive_scan"

\* What the element that m holds at position p of the first range, and at q of the second,
\* adds to the result.  A count is the word of what is counted; the predicate holds of the
\* elements with the largest key.
Term(m, p, q) ==
    CASE algorithm \in {"reduce", "exclusive_scan"} -> m[<<"first1", p>>]
      [] algorithm = "transform_reduce_1" -> m[<<"first1", p>>] \o <<Applied>>
      [] algorithm = "transform_reduce_2" ->
             m[<<"first1", p>>] \o m[<<"first2", q>>] \o <<Applied>>
      [] algorithm = "count_if" ->
             IF \A k \in Keys : k <= key[p] THEN m[<<"first1", p>>] ELSE <<>>

\* The elements of the chunk of t before position p, reduced.
Terms(t, p) ==
    FlattenSeq([k \in 1 .. p - t.first |-> Term(mem, t.first + k - 1, t.other + k - 1)])

NumericReads(t) ==
    Span("first1", t.first, Length(t))
        \union (IF algorithm = "transform_reduce_2" THEN Span("first2", t.other, Length(t))
                ELSE {})

(***************************************************************************)
(* reduce, transform_reduce and count_if.                                  *)
(***************************************************************************)
\* init goes to the task of each chunk and to the reduction of their results; a count
\* starts from 0 in both.
InitOfChunk == IF algorithm = "count_if" THEN <<>> ELSE <<TheInit>>

ReduceSequentially ==
    Reduction /\ Sequentially(<<>>, InitOfChunk \o Terms(WholeRange(<<>>), n))

CallReduction ==
    /\ Reduction /\ caller = "called" /\ ~is_seq
    /\ result' = InitOfChunk
    /\ Goto("chunking")
    /\ UNCHANGED <<input, loop, futures, got, lists, mem>>

SubmitReduction == Reduction /\ SubmitChunk(InitOfChunk)

RunReduction(f) ==
    LET t == futures[f]
    IN  Reduction /\ Finish(f, <<>>, t.init \o Terms(t, t.last))

\* Mutant of ReduceInto: the reduction keeps only the last chunk.
Overwrite(value) == value

ReduceInto(value) == result \o value

\* getting_iter: reduce dereferences one future after the other.
GetReduction ==
    /\ Reduction /\ NextArrived
    /\ result' = ReduceInto(futures[got + 1].value)
    /\ UNCHANGED <<input, caller, loop, futures, lists, mem>>

ReturnReduction == Reduction /\ Return

(***************************************************************************)
(* exclusive_scan.                                                         *)
(***************************************************************************)
CallScan ==
    /\ Scan /\ caller = "called" /\ ~is_seq
    /\ Goto(IF n = 0 THEN "returned" ELSE "chunking")
    /\ UNCHANGED <<input, loop, futures, got, lists, mem, result>>

SubmitSum == Scan /\ SubmitChunk(<<Zero>>)

RunSum(f) ==
    LET t == futures[f]
    IN  Scan /\ t.part = "chunk" /\ Finish(f, <<>>, t.init \o Terms(t, t.last))

GetSum ==
    /\ Scan /\ caller = "getting" /\ NextArrived
    /\ ranges' = Append(ranges, <<futures[got + 1].first, futures[got + 1].last>>)
    /\ sums' = Append(sums, futures[got + 1].value)
    /\ UNCHANGED <<input, caller, loop, futures, i, mem, result>>

\* Mutant of SumBefore: an inclusive scan of the sums.
SumUpTo(k) == <<TheInit>> \o FlattenSeq(SubSeq(sums, 1, k))

\* What the scan of the sums leaves at k.
SumBefore(k) == <<TheInit>> \o FlattenSeq(SubSeq(sums, 1, k - 1))

ScanSums ==
    /\ Scan /\ caller = "getting" /\ Gathered
    /\ sums' = [k \in 1 .. Len(sums) |-> SumBefore(k)]
    /\ i' = 1
    /\ ClearedTo("applying")
    /\ UNCHANGED <<input, loop, ranges, mem, result>>

\* parallel_apply: one task for the arguments of each range.
SubmitScan ==
    /\ Scan /\ caller = "applying" /\ i <= Len(ranges)
    /\ LET from == ranges[i][1]
           to == ranges[i][2]
       IN  futures' = Append(futures, Task("scan", from, to, to, from, sums[i]))
    /\ i' = i + 1
    /\ UNCHANGED <<input, caller, loop, got, ranges, sums, mem, result>>

ScansSubmitted ==
    /\ Scan /\ caller = "applying" /\ i > Len(ranges)
    /\ Goto("joining")
    /\ UNCHANGED <<input, loop, futures, got, lists, mem, result>>

\* The sequential exclusive_scan of a chunk, or of the whole range.
ScanEffect(t) ==
    [c \in Span(dest, t.other, Length(t)) |-> t.init \o Terms(t, t.first + (c[2] - t.other))]

ScanSequentially ==
    Scan /\ Sequentially(ScanEffect(WholeRange(<<TheInit>>)), <<>>)

RunScan(f) ==
    LET t == futures[f]
    IN  Scan /\ t.part = "scan" /\ Finish(f, ScanEffect(t), <<>>)

JoinScan ==
    /\ Scan /\ caller = "joining" /\ NextArrived
    /\ UNCHANGED <<input, caller, loop, futures, lists, mem, result>>

ReturnScan == Scan /\ caller = "joining" /\ Return

NumericStep ==
    \/ ReduceSequentially \/ ScanSequentially
    \/ CallReduction \/ SubmitReduction \/ GetReduction \/ ReturnReduction
    \/ CallScan \/ SubmitSum \/ GetSum \/ ScanSums \/ SubmitScan \/ ScansSubmitted
    \/ JoinScan \/ ReturnScan
    \/ \E f \in DOMAIN futures : RunReduction(f) \/ RunSum(f) \/ RunScan(f)

-----------------------------------------------------------------------------
\* The first p elements, reduced by the sequential algorithm.
GivenTerms(p) == FlattenSeq([k \in 1 .. p |-> Term(Given, k - 1, k - 1)])

\* word without the letter mark.
Without(word, mark) ==
    LET kept[p \in 0 .. Len(word)] ==
            IF p = 0 THEN <<>>
            ELSE IF word[p] = mark THEN kept[p - 1] ELSE Append(kept[p - 1], word[p])
    IN  kept[Len(word)]

\* Every element goes into the result once, in its place, whatever the chunks and the
\* order in which they are done: the result is right when init is an identity ...
ReducesAll ==
    Reduction /\ caller = "returned" => Without(result, TheInit) = GivenTerms(n)

\* ... "See std::reduce", which uses init once.
InitUsedOnce ==
    Reduction /\ caller = "returned" =>
        result = (IF algorithm = "count_if" THEN <<>> ELSE <<TheInit>>) \o GivenTerms(n)

\* Every position of dest holds init and the elements before it, in place or not: the
\* scan is right when T{} is an identity ...
ScansPrefixes ==
    Scan /\ caller = "returned" =>
        \A p \in 0 .. n - 1 :
            Without(mem[<<dest, p>>], Zero) = <<TheInit>> \o GivenTerms(p)

\* ... "See std::exclusive_scan", which does not use T{}.
ScansExactly ==
    Scan /\ caller = "returned" =>
        \A p \in 0 .. n - 1 : mem[<<dest, p>>] = <<TheInit>> \o GivenTerms(p)
=============================================================================
