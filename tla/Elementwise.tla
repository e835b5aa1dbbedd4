----------------------------- MODULE Elementwise -----------------------------
(***************************************************************************)
(* for_each, fill, copy and transform with a parallel policy               *)
(* (src/include/poolstl/algorithm): each chunk's task runs the sequential  *)
(* algorithm, and the call waits for all of them.  for_each_n, fill_n and  *)
(* copy_n call these, and for_each_chunk is for_each with something that   *)
(* each chunk constructs for itself.                                       *)
(***************************************************************************)
EXTENDS ForkJoin

ElementwiseAlgorithms == {"for_each", "fill", "copy", "transform_1", "transform_2"}

Elementwise == algorithm \in ElementwiseAlgorithms

\* The range written to, and where the chunk of t is in it.
Output == IF algorithm \in {"for_each", "fill"} THEN "first1" ELSE dest

Begin(t) == IF algorithm \in {"for_each", "fill"} THEN t.first ELSE t.other

\* What becomes of x, and of y in a second range.
Image(x, y) == CASE algorithm \in {"for_each", "transform_1"} -> x \o <<Applied>>
                 [] algorithm = "transform_2" -> x \o y \o <<Applied>>
                 [] algorithm = "fill" -> <<TheValue>>
                 [] algorithm = "copy" -> x

ElementReads(t) ==
    CASE algorithm = "fill" -> {}
      [] algorithm = "transform_2" -> Span("first1", t.first, Length(t))
                                          \union Span("first2", t.other, Length(t))
      [] OTHER -> Span("first1", t.first, Length(t))

ElementEffect(t) ==
    [c \in Span(Output, Begin(t), Length(t)) |->
        LET k == c[2] - Begin(t)
        IN  Image(mem[<<"first1", t.first + k>>], mem[<<"first2", t.other + k>>])]

ElementsSequentially == Elementwise /\ Sequentially(ElementEffect(WholeRange(<<>>)), <<>>)

CallElementwise ==
    /\ Elementwise /\ caller = "called" /\ ~is_seq
    /\ Goto("chunking")
    /\ UNCHANGED <<input, loop, futures, got, lists, mem, result>>

SubmitElements == Elementwise /\ SubmitChunk(<<>>)

RunElements(f) == Elementwise /\ Finish(f, ElementEffect(futures[f]), <<>>)

GetElements ==
    /\ Elementwise /\ NextArrived
    /\ UNCHANGED <<input, caller, loop, futures, lists, mem, result>>

ReturnElements == Elementwise /\ Return

ElementwiseStep ==
    \/ ElementsSequentially
    \/ CallElementwise \/ SubmitElements \/ GetElements \/ ReturnElements
    \/ \E f \in DOMAIN futures : RunElements(f)

-----------------------------------------------------------------------------
\* Every element of one, two or three ranges is treated once and its result is at its
\* place, whatever the chunks, with dest the first range or not; nothing else changes.
EveryElement ==
    Elementwise /\ caller = "returned" =>
        mem = [c \in Cell |-> IF c[1] = Output
                              THEN Image(Given[<<"first1", c[2]>>], Given[<<"first2", c[2]>>])
                              ELSE Given[c]]
=============================================================================
