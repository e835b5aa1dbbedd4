----------------------------- MODULE MCManySorts -----------------------------
(***************************************************************************)
(* Four sorts at once on one pool.  All their interleavings are too many   *)
(* to check, so this specification keeps those in which the callers go     *)
(* from stage to stage together, in the order of Turn.  Each of its        *)
(* behaviours is one of ParallelQuicksort's: what it violates, they do.    *)
(***************************************************************************)
EXTENDS MCQuicksort

CONSTANTS s1, s2, s3, s4

Turn == <<s1, s2, s3, s4>>

FourElements == [by : {"sort"}, range : {Alike(<<2, 1, 2, 2>>)}]

\* The stages of a caller until it sleeps; those that come after are never behind.
Stages == <<"idle", "called", "entered", "right", "joining", "split", "spawning",
            "waiting", "asleep">>

Stage(s) == IF \E i \in DOMAIN Stages : Stages[i] = pc[s]
            THEN CHOOSE i \in DOMAIN Stages : Stages[i] = pc[s]
            ELSE Len(Stages) + 1

\* A caller moves only when those before it are ahead and none after it is behind.
InTurn ==
    \A i \in DOMAIN Turn : pc'[Turn[i]] # pc[Turn[i]] =>
        /\ \A j \in 1 .. i - 1 : Stage(Turn[j]) > Stage(Turn[i])
        /\ \A j \in i + 1 .. Len(Turn) : Stage(Turn[j]) >= Stage(Turn[i])

SpecInTurn == Init /\ [][Next /\ InTurn]_vars

WorkersAlike == Permutations(Worker)
=============================================================================
