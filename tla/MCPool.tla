------------------------------- MODULE MCPool -------------------------------
(* Constants and symmetry for the model-checking runs of TaskThreadPool.   *)
EXTENDS TaskThreadPool, TLC

CONSTANTS main, other

EveryCall == [c \in Client |-> Operations]

\* One thread waits, at most; the other submits, pauses and resizes.
OneWaiter == (main :> (Operations \ {"clear_task_queue", "pause", "unpause"})) @@
             (other :> {"submit", "pause", "unpause", "set_num_threads"})

TwoWaiters == [c \in Client |-> Waits \union {"submit"}]

WaitAndClear == (main :> {"submit", "pause", "wait_for_tasks"}) @@
                (other :> {"clear_task_queue"})

Symmetry == Permutations(Worker) \union Permutations(Task) \union Permutations(Client)
=============================================================================
