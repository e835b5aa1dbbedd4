--------------------------- MODULE FindIf_proofs ---------------------------
(* Proofs about FindIf, for ranges and pools of every size. *)
EXTENDS FindIf, FiniteSetTheorems, TLAPS

(***************************************************************************)
(* A chunk of a range that is not empty is not empty: the chunking loop    *)
(* moves on in every iteration.                                            *)
(***************************************************************************)
LEMMA ChunkSizePositive ==
    ASSUME NEW m \in Nat \ {0}, NEW t \in Nat \ {0}
    PROVE  ChunkSize(m, t) \in Nat \ {0}
<1>1. /\ m \div t \in Nat /\ m % t \in Nat
      /\ m = t * (m \div t) + (m % t)
  OBVIOUS
<1>2. CASE m \div t = 0
  <2>1. m % t > 0
    BY <1>1, <1>2
  <2> QED BY <1>1, <1>2, <2>1 DEF ChunkSize
<1>3. CASE m \div t # 0
  BY <1>1, <1>3 DEF ChunkSize
<1> QED BY <1>2, <1>3

(***************************************************************************)
(* Leftmost is not inductive: that nothing better is left needs the chunks *)
(* to tile the range, and what a task that is still at work holds.         *)
(***************************************************************************)
ChunksOrdered ==
    /\ \A c \in Chunks : c < last[c] /\ last[c] <= first
    /\ \A c, d \in Chunks : c < d => last[c] <= d

ChunksCover == \A i \in 0 .. first - 1 : \E c \in Chunks : i \in c .. last[c] - 1

\* A task that has found a match holds the first one of its chunk.
FirstHere ==
    \A c \in Chunks : pc[c] \in {"loading", "swapping"} =>
        k[c] \in Here(c) /\ \A j \in Here(c) : k[c] <= j

SwapImproves == \A c \in Chunks : pc[c] = "swapping" => k[c] < old[c]

ExtremumIsMatch == extremum \in matches \union {n}

ReturnedAfterAll == caller = "returned" => first = n /\ Gathered

Inv == /\ TypeOK
       /\ ChunksOrdered
       /\ ChunksCover
       /\ FirstHere
       /\ SwapImproves
       /\ NothingMissed
       /\ ExtremumIsMatch
       /\ ReturnedAfterAll

LEMMA InitInv == Init => Inv
<1> SUFFICES ASSUME Init PROVE Inv
  OBVIOUS
<1> USE FindIfAssumption DEF FindIfAssumption
<1>1. n \in Nat /\ Chunks = {}
  BY DEF Init, Chunks
<1>2. TypeOK
  BY <1>1 DEF Init, TypeOK, Chunks
<1> QED
  BY <1>1, <1>2 DEF Init, Inv, ChunksOrdered, ChunksCover, FirstHere, SwapImproves,
     NothingMissed, ExtremumIsMatch, ReturnedAfterAll, Gathered

\* One iteration of the chunking loop.
LEMMA SubmitInv == ASSUME Inv, Submit PROVE Inv'
<1> DEFINE e == LoopEnd(first, n, ChunkSize(n, SplitFactor * num_threads))
<1> USE FindIfAssumption DEF FindIfAssumption
<1>1. /\ n \in Nat \ {0} /\ first \in 0 .. n - 1 /\ num_threads \in Nat \ {0}
      /\ SplitFactor * num_threads \in Nat \ {0}
  BY DEF Inv, TypeOK, Submit
<1>2. ChunkSize(n, SplitFactor * num_threads) \in Nat \ {0}
  BY <1>1, ChunkSizePositive
<1>3. e \in first + 1 .. n
  BY <1>1, <1>2 DEF LoopEnd, IterChunkSize
<1>4. first \notin Chunks
  BY <1>1 DEF Inv, TypeOK, ChunksOrdered
<1> HIDE DEF e
<1>5. /\ Chunks' = Chunks \union {first}
      /\ first' = e /\ last'[first] = e /\ pc'[first] = "queued"
      /\ \A c \in Chunks : /\ last'[c] = last[c] /\ pc'[c] = pc[c]
                           /\ k'[c] = k[c] /\ old'[c] = old[c]
  BY <1>4 DEF Submit, Extend, Chunks, Inv, TypeOK, e
<1>6. UNCHANGED <<n, matches, num_threads, policy, extremum, caller>>
      /\ caller = "submitting"
  BY DEF Submit, input
<1>7. TypeOK'
  <2>1. /\ last' \in [Chunks' -> 0 .. n'] /\ k' \in [Chunks' -> 0 .. n']
        /\ old' \in [Chunks' -> 0 .. n']
        /\ pc' \in [Chunks' -> {"queued", "started", "searching", "loading",
                               "swapping", "done"}]
    BY <1>1, <1>3, <1>5, <1>6 DEF Submit, Extend, Chunks, Inv, TypeOK, e
  <2>2. Chunks' \subseteq 0 .. n' - 1 /\ first' \in 0 .. n'
    BY <1>1, <1>3, <1>5, <1>6 DEF Inv, TypeOK
  <2> QED BY <2>1, <2>2, <1>6 DEF Inv, TypeOK
<1>8. \A c \in Chunks : Here(c)' = Here(c)
  BY <1>5, <1>6 DEF Here
<1>9. ChunksOrdered'
  BY <1>1, <1>3, <1>5 DEF Inv, TypeOK, ChunksOrdered
<1>10. ChunksCover'
  <2> SUFFICES ASSUME NEW i \in 0 .. e - 1
               PROVE  \E c \in Chunks' : i \in c .. last'[c] - 1
    BY <1>5 DEF ChunksCover
  <2>1. CASE i < first
    BY <2>1, <1>1, <1>3, <1>5 DEF Inv, ChunksCover
  <2>2. CASE i >= first
    BY <2>2, <1>1, <1>3, <1>5
  <2> QED BY <2>1, <2>2, <1>1, <1>3
<1>11. FirstHere' /\ SwapImproves' /\ NothingMissed'
  BY <1>5, <1>6, <1>8 DEF Inv, FirstHere, SwapImproves, NothingMissed
<1>12. ExtremumIsMatch' /\ ReturnedAfterAll'
  BY <1>6 DEF Inv, ExtremumIsMatch, ReturnedAfterAll
<1> QED BY <1>7, <1>9, <1>10, <1>11, <1>12 DEF Inv

\* A step of a task leaves the chunks alone.
LEMMA TaskInv ==
    ASSUME Inv, NEW c \in Chunks,
           TaskStep(c) \/ CompareExchange(c) \/ CompareExchangeFails(c)
    PROVE  Inv'
<1> USE FindIfAssumption DEF FindIfAssumption
<1>1. UNCHANGED <<n, matches, num_threads, policy, first, last, caller>>
  BY DEF TaskStep, Start, LeaveEarly, GoOn, Search, Load, CompareExchange,
     CompareExchangeFails, input
<1>2. Chunks' = Chunks /\ \A d \in Chunks : Here(d)' = Here(d)
  BY <1>1 DEF Chunks, Here
<1>3. pc[c] # "done" /\ pc'[c] # "queued"
      /\ \A d \in Chunks : d # c => pc'[d] = pc[d] /\ k'[d] = k[d] /\ old'[d] = old[d]
  BY DEF TaskStep, Start, LeaveEarly, GoOn, Search, Load, CompareExchange,
     CompareExchangeFails, Goto, Inv, TypeOK
<1>4. ReturnedAfterAll'
  BY <1>1, <1>3 DEF Inv, ReturnedAfterAll, Gathered
<1>5. ChunksOrdered' /\ ChunksCover'
  BY <1>1, <1>2 DEF Inv, ChunksOrdered, ChunksCover
<1>6. n \in Nat /\ matches \subseteq 0 .. n - 1 /\ extremum \in 0 .. n
      /\ c \in 0 .. n - 1 /\ k[c] \in 0 .. n /\ old[c] \in 0 .. n /\ last[c] \in 0 .. n
      /\ Here(c) \subseteq matches
  BY DEF Inv, TypeOK, Here
<1>7. CASE Start(c) \/ GoOn(c)
  <2>1. TypeOK'
    BY <1>7, <1>1, <1>2 DEF Inv, TypeOK, Start, GoOn, Goto
  <2>2. pc'[c] \in {"started", "searching"} /\ UNCHANGED <<extremum, k, old>>
    BY <1>7 DEF Inv, TypeOK, Start, GoOn, Goto
  <2> QED BY <2>1, <2>2, <1>1, <1>2, <1>3, <1>4, <1>5 DEF Inv, FirstHere, SwapImproves,
             NothingMissed, ExtremumIsMatch
<1>8. CASE LeaveEarly(c)
  <2>1. TypeOK'
    BY <1>8, <1>1, <1>2 DEF Inv, TypeOK, LeaveEarly, Goto
  <2>2. pc'[c] = "done" /\ UNCHANGED <<extremum, k, old>> /\ c > extremum
    BY <1>8 DEF Inv, TypeOK, LeaveEarly, Goto, FoundEarlier
  <2>3. \A i \in Here(c) : extremum <= i
    BY <2>2, <1>6 DEF Here
  <2> QED BY <2>1, <2>2, <2>3, <1>1, <1>2, <1>3, <1>4, <1>5 DEF Inv, FirstHere, SwapImproves,
             NothingMissed, ExtremumIsMatch
<1>9. CASE Search(c) /\ Here(c) = {}
  <2>1. TypeOK'
    BY <1>9, <1>1, <1>2 DEF Inv, TypeOK, Search, Goto
  <2>2. pc'[c] = "done" /\ UNCHANGED <<extremum, k, old>>
    BY <1>9 DEF Inv, TypeOK, Search, Goto
  <2> QED BY <1>9, <2>1, <2>2, <1>1, <1>2, <1>3, <1>4, <1>5 DEF Inv, FirstHere, SwapImproves,
             NothingMissed, ExtremumIsMatch
<1>10. CASE Search(c) /\ Here(c) # {}
  <2>1. PICK i \in Here(c) : (\A j \in Here(c) : i <= j) /\ k' = [k EXCEPT ![c] = i]
    BY <1>10 DEF Search
  <2>2. pc' = [pc EXCEPT ![c] = "loading"] /\ UNCHANGED <<extremum, old>>
    BY <1>10 DEF Search, Goto
  <2>3. i \in 0 .. n
    <3>1. i \in 0 .. n - 1
      BY <1>6
    <3> QED BY <3>1, <1>6
  <2>4. TypeOK'
    BY <2>1, <2>2, <2>3, <1>1, <1>2 DEF Inv, TypeOK
  <2>5. pc'[c] = "loading" /\ k'[c] = i
    BY <2>1, <2>2 DEF Inv, TypeOK
  <2> QED BY <2>1, <2>2, <2>4, <2>5, <1>1, <1>2, <1>3, <1>4, <1>5 DEF Inv, FirstHere,
             SwapImproves, NothingMissed, ExtremumIsMatch
<1>11. CASE Load(c)
  <2>1. /\ old' = [old EXCEPT ![c] = extremum]
        /\ pc' = [pc EXCEPT ![c] = IF Improves(c) THEN "swapping" ELSE "done"]
        /\ UNCHANGED <<extremum, k>> /\ pc[c] = "loading"
    BY <1>11 DEF Load, Goto
  <2>2. TypeOK'
    BY <2>1, <1>1, <1>2, <1>6 DEF Inv, TypeOK
  <2>3. old'[c] = extremum /\ pc'[c] = IF Improves(c) THEN "swapping" ELSE "done"
    BY <2>1 DEF Inv, TypeOK
  <2>4. k[c] \in Here(c) /\ \A j \in Here(c) : k[c] <= j
    BY <2>1 DEF Inv, FirstHere
  <2>5. ASSUME ~Improves(c), NEW j \in Here(c) PROVE extremum <= j
    <3>1. j \in matches /\ k[c] <= j
      BY <2>4, <2>5, <1>6
    <3>2. j \in 0 .. n - 1
      BY <3>1, <1>6
    <3>3. extremum <= k[c]
      BY <2>5, <1>6 DEF Improves
    <3> QED BY <3>1, <3>2, <3>3, <1>6
  <2>6. SwapImproves'
    BY <2>1, <2>3, <1>2, <1>3 DEF Inv, SwapImproves, Improves
  <2>7. FirstHere' /\ NothingMissed' /\ ExtremumIsMatch'
    BY <2>1, <2>3, <2>4, <2>5, <1>1, <1>2, <1>3 DEF Inv, FirstHere,
       NothingMissed, ExtremumIsMatch
  <2> QED BY <2>2, <2>6, <2>7, <1>4, <1>5 DEF Inv
<1>12. CASE CompareExchange(c)
  <2>1. /\ pc' = [pc EXCEPT ![c] = "loading"] /\ extremum' = k[c]
        /\ UNCHANGED <<k, old>> /\ pc[c] = "swapping" /\ extremum = old[c]
    BY <1>12 DEF CompareExchange, Goto, Unchanged
  <2>2. TypeOK'
    BY <2>1, <1>1, <1>2, <1>6 DEF Inv, TypeOK
  <2>3. pc'[c] = "loading"
    BY <2>1 DEF Inv, TypeOK
  <2>4. k[c] \in Here(c) /\ k[c] < extremum /\ \A j \in Here(c) : k[c] <= j
    BY <2>1 DEF Inv, FirstHere, SwapImproves
  <2>5. NothingMissed'
    <3> SUFFICES ASSUME NEW d \in Chunks, pc'[d] = "done", NEW i \in Here(d)
                 PROVE  k[c] <= i
      BY <2>1, <1>2 DEF NothingMissed
    <3>1. d # c /\ pc[d] = "done"
      BY <2>3, <1>3
    <3>2. extremum <= i /\ i \in 0 .. n
      BY <3>1, <1>6 DEF Inv, NothingMissed, Here
    <3> QED BY <3>2, <2>4, <1>6
  <2>6. FirstHere' /\ SwapImproves' /\ ExtremumIsMatch'
    BY <2>1, <2>3, <2>4, <1>1, <1>2, <1>3, <1>6 DEF Inv, FirstHere, SwapImproves,
       ExtremumIsMatch
  <2> QED BY <2>2, <2>5, <2>6, <1>4, <1>5 DEF Inv
<1>13. CASE CompareExchangeFails(c)
  <2>1. /\ pc' = [pc EXCEPT ![c] = "loading"] /\ pc[c] = "swapping"
        /\ UNCHANGED <<extremum, k, old>>
    BY <1>13 DEF CompareExchangeFails, Goto
  <2>2. TypeOK' /\ pc'[c] = "loading"
    BY <2>1, <1>1, <1>2 DEF Inv, TypeOK
  <2> QED BY <2>1, <2>2, <1>1, <1>2, <1>3, <1>4, <1>5 DEF Inv, FirstHere, SwapImproves,
             NothingMissed, ExtremumIsMatch
<1> QED BY <1>7, <1>8, <1>9, <1>10, <1>11, <1>12, <1>13 DEF TaskStep

LEMMA ReturnInv == ASSUME Inv, Return PROVE Inv'
<1>1. caller' = "returned" /\ first >= n /\ Gathered
      /\ UNCHANGED <<n, matches, num_threads, policy, extremum, first, last, pc, k, old>>
  BY DEF Return, input
<1>2. first = n
  BY <1>1, FindIfAssumption DEF Inv, TypeOK, FindIfAssumption
<1>3. TypeOK' /\ ReturnedAfterAll'
  BY <1>1, <1>2 DEF Inv, TypeOK, ReturnedAfterAll, Gathered, Chunks
<1> QED BY <1>1, <1>3 DEF Inv, ChunksOrdered, ChunksCover, FirstHere, SwapImproves,
           NothingMissed, ExtremumIsMatch, Chunks, Here

LEMMA StepInv == Inv /\ [Next]_vars => Inv'
<1> SUFFICES ASSUME Inv, [Next]_vars PROVE Inv'
  OBVIOUS
<1>1. CASE UNCHANGED vars
  BY <1>1 DEF vars, Inv, TypeOK, ChunksOrdered, ChunksCover, FirstHere, SwapImproves,
     NothingMissed, ExtremumIsMatch, ReturnedAfterAll, Gathered, Chunks, Here
<1>2. CASE Next
  BY <1>2, SubmitInv, ReturnInv, TaskInv DEF Next
<1> QED BY <1>1, <1>2

\* The chunks, the tasks and extremum agree in every state: what a task has found and what it
\* has compared stays true while the other tasks go on.
THEOREM Invariance == Spec => []Inv
BY InitInv, StepInv, PTL DEF Spec

(***************************************************************************)
(* Every variable keeps its type: extremum stays a position of the range,  *)
(* and the chunking loop does not run past its end.                        *)
(***************************************************************************)
THEOREM TypeCorrect == Spec => []TypeOK
<1>1. Inv => TypeOK
  BY DEF Inv
<1> QED BY <1>1, Invariance, PTL

(***************************************************************************)
(* A task that is done, whether it searched its chunk, left early or gave  *)
(* up its update to a better one, leaves no match below extremum.          *)
(***************************************************************************)
THEOREM MissesNothing == Spec => []NothingMissed
<1>1. Inv => NothingMissed
  BY DEF Inv
<1> QED BY <1>1, Invariance, PTL

(***************************************************************************)
(* The chunks tile what has been submitted of the range, for every length, *)
(* split factor and number of threads.                                     *)
(***************************************************************************)
THEOREM Tiling == Spec => []ChunksTile
<1>1. Inv => ChunksTile
  <2> SUFFICES ASSUME Inv, NEW i \in 0 .. first - 1
               PROVE  \E c \in Chunks : /\ i \in c .. last[c] - 1
                                        /\ \A d \in Chunks : i \in d .. last[d] - 1 => d = c
    BY DEF ChunksTile
  <2>1. PICK c \in Chunks : i \in c .. last[c] - 1
    BY DEF Inv, ChunksCover
  <2>2. ASSUME NEW d \in Chunks, i \in d .. last[d] - 1 PROVE d = c
    <3>1. /\ c \in Int /\ d \in Int /\ last[c] \in Int /\ last[d] \in Int /\ i \in Int
          /\ c <= i /\ i < last[c] /\ d <= i /\ i < last[d]
      BY <2>1, <2>2, FindIfAssumption DEF Inv, TypeOK, FindIfAssumption
    <3> QED BY <3>1 DEF Inv, ChunksOrdered
  <2> QED BY <2>1, <2>2
<1> QED BY <1>1, Invariance, PTL

(***************************************************************************)
(* find_if returns the leftmost match, or last when there is none, however *)
(* its tasks interleave and however often compare_exchange_weak fails.     *)
(***************************************************************************)
THEOREM FindsLeftmost == Spec => []Leftmost
<1>1. Inv => Leftmost
  <2> SUFFICES ASSUME Inv, caller = "returned" PROVE IsLeftmost(extremum)
    BY DEF Leftmost, result
  <2>1. first = n /\ n \in Nat /\ extremum \in 0 .. n /\ matches \subseteq 0 .. n - 1
        /\ \A c \in Chunks : pc[c] = "done"
    BY FindIfAssumption DEF Inv, TypeOK, ReturnedAfterAll, Gathered, FindIfAssumption
  <2>2. ASSUME NEW j \in matches PROVE extremum <= j
    <3>1. PICK c \in Chunks : j \in c .. last[c] - 1
      BY <2>1 DEF Inv, ChunksCover
    <3> QED BY <3>1, <2>1 DEF Inv, NothingMissed, Here
  <2>3. ASSUME NEW j \in matches PROVE extremum \in matches
    <3>1. extremum # n
      BY <2>1, <2>2, <2>3
    <3> QED BY <3>1 DEF Inv, ExtremumIsMatch
  <2> QED BY <2>1, <2>2, <2>3 DEF IsLeftmost, Inv, ExtremumIsMatch
<1> QED BY <1>1, Invariance, PTL

(***************************************************************************)
(* The compare-and-swap loop never raises extremum, although a task may    *)
(* swap long after it compared.                                            *)
(***************************************************************************)
THEOREM Priority == Spec => OnlyImproves
<1>1. Inv /\ [Next]_vars =>
        [extremum' # extremum => extremum' < extremum /\ extremum' \in matches]_vars
  <2> SUFFICES ASSUME Inv, Next, extremum' # extremum
               PROVE  extremum' < extremum /\ extremum' \in matches
    BY DEF vars
  <2>1. PICK c \in Chunks : CompareExchange(c)
    BY DEF Next, Submit, Return, TaskStep, Start, LeaveEarly, GoOn, Search, Load,
       CompareExchangeFails
  <2> QED BY <2>1 DEF CompareExchange, Unchanged, Inv, FirstHere, SwapImproves, Here
<1> QED BY <1>1, Invariance, PTL DEF Spec, OnlyImproves

(***************************************************************************)
(* How many chunks there are.                                              *)
(***************************************************************************)
LEMMA ChunksSuffice ==
    ASSUME NEW m \in Nat, NEW t \in Nat \ {0}
    PROVE  m <= t * ChunkSize(m, t)
<1>1. /\ m \div t \in Nat /\ m % t \in 0 .. t - 1
      /\ m = t * (m \div t) + (m % t)
  OBVIOUS
<1>2. CASE m % t = 0
  BY <1>1, <1>2 DEF ChunkSize
<1>3. CASE m % t > 0
  <2>1. ChunkSize(m, t) = (m \div t) + 1
    BY <1>3 DEF ChunkSize
  <2>2. t * ((m \div t) + 1) = t * (m \div t) + t
    BY <1>1
  <2> QED BY <1>1, <2>1, <2>2
<1> QED BY <1>1, <1>2, <1>3

LEMMA ProductMonotone ==
    ASSUME NEW a \in Nat, NEW b \in Nat, NEW s \in Nat, a * s < b * s
    PROVE  a < b
<1> SUFFICES ASSUME a >= b PROVE FALSE
  OBVIOUS
<1>1. PICK i \in Nat : a = b + i
  <2> WITNESS a - b \in Nat
  <2> QED OBVIOUS
<1>2. a * s = b * s + i * s /\ i * s >= 0
  BY <1>1
<1> QED BY <1>2

Split == SplitFactor * num_threads

\* Every chunk but the last is a whole one.
ChunksCounted ==
    LET size == ChunkSize(n, Split)
    IN  /\ IsFiniteSet(Chunks)
        /\ first < n => first = Cardinality(Chunks) * size
        /\ first = n => Chunks = {} \/ (Cardinality(Chunks) - 1) * size < n

LEMMA InitCounted == Init => ChunksCounted
<1> SUFFICES ASSUME Init PROVE ChunksCounted
  OBVIOUS
<1>1. Chunks = {} /\ first = 0 /\ n \in Nat /\ num_threads \in Nat \ {0}
  BY FindIfAssumption DEF Init, Chunks, FindIfAssumption
<1>2. IsFiniteSet(Chunks) /\ Cardinality(Chunks) = 0
  BY <1>1, FS_EmptySet
<1>3. n > 0 => ChunkSize(n, Split) \in Nat
  BY <1>1, ChunkSizePositive, FindIfAssumption DEF Split, FindIfAssumption
<1> QED BY <1>1, <1>2, <1>3 DEF ChunksCounted

LEMMA StepCounted == ASSUME Inv, ChunksCounted, [Next]_vars PROVE ChunksCounted'
<1>1. CASE Submit
  <2> DEFINE size == ChunkSize(n, Split)
             e == LoopEnd(first, n, size)
  <2>1. /\ n \in Nat \ {0} /\ first \in 0 .. n - 1 /\ Split \in Nat \ {0}
        /\ first \notin Chunks
    BY <1>1, FindIfAssumption
    DEF Inv, TypeOK, ChunksOrdered, Submit, Split, FindIfAssumption
  <2>2. size \in Nat \ {0}
    BY <2>1, ChunkSizePositive
  <2>3. Chunks' = Chunks \union {first} /\ first' = e /\ n' = n /\ Split' = Split
    BY <1>1 DEF Submit, Extend, Chunks, input, Split
  <2>4. /\ IsFiniteSet(Chunks') /\ Cardinality(Chunks) \in Nat
        /\ Cardinality(Chunks') = Cardinality(Chunks) + 1
    BY <2>1, <2>3, FS_AddElement, FS_CardinalityType DEF ChunksCounted
  <2>5. first = Cardinality(Chunks) * size
    BY <2>1 DEF ChunksCounted
  <2>6. e = IF size < n - first THEN first + size ELSE n
    BY <2>1, <2>2 DEF LoopEnd, IterChunkSize
  <2> HIDE DEF size, e
  <2>7. first + size = Cardinality(Chunks') * size
    BY <2>2, <2>4, <2>5
  <2>8. (Cardinality(Chunks') - 1) * size < n
    BY <2>1, <2>4, <2>5
  <2>9. ChunkSize(n, Split)' = size
    BY <2>3 DEF size, ChunkSize
  <2> QED BY <2>1, <2>2, <2>3, <2>4, <2>6, <2>7, <2>8, <2>9 DEF ChunksCounted
<1>2. CASE ~Submit
  <2>1. UNCHANGED <<n, num_threads, first, last>>
    BY <1>2 DEF Next, vars, Return, TaskStep, Start, LeaveEarly, GoOn, Search, Load,
       CompareExchange, CompareExchangeFails, input
  <2> QED BY <2>1 DEF ChunksCounted, Chunks, Split, ChunkSize
<1> QED BY <1>1, <1>2

(***************************************************************************)
(* However a range is cut, no more tasks are submitted than                *)
(* extra_split_factor for each thread.                                     *)
(***************************************************************************)
THEOREM FewChunks == Spec => []ChunksBounded
<1>1. Spec => []ChunksCounted
  BY InitCounted, StepCounted, Invariance, PTL DEF Spec
<1>2. Inv /\ ChunksCounted => ChunksBounded
  <2> SUFFICES ASSUME Inv, ChunksCounted PROVE Cardinality(Chunks) <= Split
    BY DEF ChunksBounded, Split
  <2> DEFINE size == ChunkSize(n, Split)
  <2>1. n \in Nat /\ first \in 0 .. n /\ Split \in Nat \ {0} /\ Cardinality(Chunks) \in Nat
    BY FindIfAssumption, FS_CardinalityType
    DEF Inv, TypeOK, ChunksCounted, Split, FindIfAssumption
  <2>2. n <= Split * size
    BY <2>1, ChunksSuffice
  <2>3. CASE n = 0
    <3>1. Chunks = {}
      BY <2>3 DEF Inv, TypeOK
    <3> QED BY <3>1, <2>1, FS_EmptySet
  <2>4. CASE n > 0 /\ first < n
    <3>1. size \in Nat
      BY <2>1, <2>4, ChunkSizePositive
    <3>2. Cardinality(Chunks) * size < Split * size
      BY <3>1, <2>1, <2>2, <2>4 DEF ChunksCounted
    <3> HIDE DEF size
    <3>3. Cardinality(Chunks) < Split
      BY <3>1, <3>2, <2>1, ProductMonotone
    <3> QED BY <3>3, <2>1
  <2>5. CASE n > 0 /\ first = n
    <3>1. size \in Nat
      BY <2>1, <2>5, ChunkSizePositive
    <3>2. CASE Chunks = {}
      BY <3>2, <2>1, FS_EmptySet
    <3>3. CASE Chunks # {}
      <4>1. Cardinality(Chunks) - 1 \in Nat
        BY <3>3, <2>1, FS_EmptySet DEF ChunksCounted
      <4>2. (Cardinality(Chunks) - 1) * size < Split * size
        BY <3>1, <3>3, <4>1, <2>1, <2>2, <2>5 DEF ChunksCounted
      <4> HIDE DEF size
      <4>3. Cardinality(Chunks) - 1 < Split
        BY <3>1, <4>1, <4>2, <2>1, ProductMonotone
      <4> QED BY <4>3, <2>1
    <3> QED BY <3>2, <3>3
  <2> QED BY <2>1, <2>3, <2>4, <2>5
<1> QED BY <1>1, <1>2, Invariance, PTL
=============================================================================
