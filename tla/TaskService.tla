---------------------------- MODULE TaskService ----------------------------
(***************************************************************************)
(* What task_thread_pool promises to its callers, with no threads, mutexes *)
(* or condition variables: a first-in first-out queue of tasks, each run   *)
(* at most once, that can be paused, cleared, waited for and closed.       *)
(* TaskThreadPool is shown to implement this specification.                *)
(***************************************************************************)
EXTENDS Sequences

CONSTANTS Task,    \* the callables ever submitted
          Client   \* the threads that use the pool

VARIABLES status,  \* status[t]: where task t is in its life
          queue,   \* the tasks submitted and not yet started, oldest first
          paused,  \* pause() was called without an intervening unpause()
          open,    \* FALSE once the destructor has returned
          waiting  \* waiting[c]: which wait_for_* call c is blocked in

vars == <<status, queue, paused, open, waiting>>

Status == {"new", "queued", "running", "done", "dropped"}

InState(s) == {t \in Task : status[t] = s}

Init == /\ status = [t \in Task |-> "new"]
        /\ queue = <<>>
        /\ paused = FALSE
        /\ open = TRUE
        /\ waiting = [c \in Client |-> "none"]

Submit(t) == /\ open
             /\ status[t] = "new"
             /\ status' = [status EXCEPT ![t] = "queued"]
             /\ queue' = Append(queue, t)
             /\ UNCHANGED <<paused, open, waiting>>

\* A paused pool starts nothing; otherwise the oldest task goes first.
Start == /\ open
         /\ ~paused
         /\ queue # <<>>
         /\ status' = [status EXCEPT ![Head(queue)] = "running"]
         /\ queue' = Tail(queue)
         /\ UNCHANGED <<paused, open, waiting>>

Finish(t) == /\ open
             /\ status[t] = "running"
             /\ status' = [status EXCEPT ![t] = "done"]
             /\ UNCHANGED <<queue, paused, open, waiting>>

Drop == status' = [t \in Task |-> IF status[t] = "queued" THEN "dropped"
                                                          ELSE status[t]]

Clear == /\ open
         /\ Drop
         /\ queue' = <<>>
         /\ UNCHANGED <<paused, open, waiting>>

SetPaused(b) == /\ open
                /\ paused' = b
                /\ UNCHANGED <<status, queue, open, waiting>>

Call(c, what) == /\ open
                 /\ waiting[c] = "none"
                 /\ waiting' = [waiting EXCEPT ![c] = what]
                 /\ UNCHANGED <<status, queue, paused, open>>

\* A wait returns only when nothing is queued and, for "all", nothing runs.
Return(c) == /\ waiting[c] # "none"
             /\ queue = <<>>
             /\ waiting[c] = "all" => InState("running") = {}
             /\ waiting' = [waiting EXCEPT ![c] = "none"]
             /\ UNCHANGED <<status, queue, paused, open>>

\* The destructor returns only once no task is running; what it leaves in
\* the queue never runs.
Close == /\ open
         /\ InState("running") = {}
         /\ open' = FALSE
         /\ Drop
         /\ queue' = <<>>
         /\ UNCHANGED <<paused, waiting>>

Next == \/ \E t \in Task : Submit(t) \/ Finish(t)
        \/ Start
        \/ Clear
        \/ \E b \in BOOLEAN : SetPaused(b)
        \/ \E c \in Client : \/ \E what \in {"queued", "all"} : Call(c, what)
                             \/ Return(c)
        \/ Close

Spec == Init /\ [][Next]_vars
=============================================================================
