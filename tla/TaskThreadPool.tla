--------------------------- MODULE TaskThreadPool ---------------------------
(***************************************************************************)
(* task_thread_pool (src/include/poolstl/internal/task_thread_pool.hpp):   *)
(* worker threads, the threads that call the pool, its two mutexes and its *)
(* two condition variables.                                                *)
(*                                                                         *)
(* Every access to the variables task_mutex protects happens inside one    *)
(* critical section, so a critical section is one action; only the two     *)
(* condition-variable waits split one, at the point where they release the *)
(* mutex.  thread_mutex is held across many steps and is a variable.       *)
(***************************************************************************)
EXTENDS Integers, Sequences, FiniteSets

CONSTANTS Worker,              \* identities for worker threads
          Task,                \* the callables submitted, each once
          Client,              \* the threads that use the pool
          NoTask, NoClient,
          InitThreads,         \* the constructor's argument
          HardwareConcurrency, \* what std::thread::hardware_concurrency() returns
          Sizes,               \* the arguments given to set_num_threads
          Calls,               \* Calls[c]: the operations client c uses
          TaskCalls            \* the operations tasks use on their own pool

Waits == {"wait_for_queued_tasks", "wait_for_tasks"}

Operations == Waits \union {"submit", "clear_task_queue", "pause", "unpause",
                            "set_num_threads", "destroy"}

\* The number of threads a request for n means: 0 asks for the hardware's.
NumThreads(n) == LET asked == IF n < 1 THEN HardwareConcurrency ELSE n
                 IN  IF asked < 1 THEN 1 ELSE asked

ASSUME PoolAssumption ==
    /\ IsFiniteSet(Worker)
    /\ NoTask \notin Task
    /\ NoClient \notin Client
    /\ HardwareConcurrency \in Nat
    /\ InitThreads \in Nat
    /\ Sizes \subseteq Nat
    /\ \A n \in Sizes \union {InitThreads} : NumThreads(n) <= Cardinality(Worker)
    /\ Calls \in [Client -> SUBSET Operations]
    /\ TaskCalls \subseteq {"submit", "get_num_threads"}

VARIABLES
    wpc,                \* wpc[w]: where worker_main is in thread w
    current,            \* current[w]: the packaged_task thread w has popped
    tasks,              \* the task queue
    status,             \* status[t]: what t's future shows
    pool_running,
    pool_paused,
    notify_task_finish,
    num_inflight_tasks,
    thread_mutex,       \* the client that holds it, or NoClient
    op,                 \* op[c]: the blocking operation client c is inside
    cpc,                \* cpc[c]: where it is in that operation
    requested,          \* num_threads of the resize that holds thread_mutex
    to_start            \* the iterations start_threads has left in it

vars == <<wpc, current, tasks, status, pool_running, pool_paused,
          notify_task_finish, num_inflight_tasks, thread_mutex, op, cpc,
          requested, to_start>>

taskVars == <<tasks, status>>
flags    == <<pool_running, pool_paused, notify_task_finish>>
resize   == <<thread_mutex, requested, to_start>>

(***************************************************************************)
(* A worker is "fresh" before its first pass of the loop, "finished" at the *)
(* top of the loop with finished_task set, "asleep" in task_cv.wait,        *)
(* "woken" when that wait must re-evaluate its predicate, "running" in a    *)
(* task, "query" when that task is inside get_num_threads, and "exited"     *)
(* when worker_main has returned and nobody has joined it.                  *)
(***************************************************************************)
WorkerPC == {"none", "fresh", "finished", "asleep", "woken", "running",
             "query", "exited"}

ClientPC == {"idle", "enter", "asleep", "woken", "stop", "join", "restart",
             "start", "dead"}

Status == {"new", "queued", "running", "done", "dropped"}

threads == {w \in Worker : wpc[w] # "none"}

AtWorker(labels) == {w \in Worker : wpc[w] \in labels}

\* Workers whose task num_inflight_tasks counts.
Inflight == AtWorker({"running", "query", "finished"})

Open == \A c \in Client : cpc[c] # "dead"

-----------------------------------------------------------------------------

Init == /\ \E W \in SUBSET Worker :
              /\ Cardinality(W) = NumThreads(InitThreads)
              /\ wpc = [w \in Worker |-> IF w \in W THEN "fresh" ELSE "none"]
        /\ current = [w \in Worker |-> NoTask]
        /\ tasks = <<>>
        /\ status = [t \in Task |-> "new"]
        /\ pool_running = TRUE
        /\ pool_paused = FALSE
        /\ notify_task_finish = FALSE
        /\ num_inflight_tasks = 0
        /\ thread_mutex = NoClient
        /\ op = [c \in Client |-> "none"]
        /\ cpc = [c \in Client |-> "idle"]
        /\ requested = 0
        /\ to_start = 0

\* The C++ rule for destructors: no call begins once destruction has begun.
MayCall(c, o) == /\ op[c] = "none"
                 /\ o \in Calls[c]
                 /\ \A d \in Client : op[d] # "destroy"

TaskMayCall(w, o) == wpc[w] = "running" /\ o \in TaskCalls

\* Mutant of the two notifications: no sleeper wakes.
NotifyNobody == UNCHANGED wpc

NotifyOneWorker ==
    \/ AtWorker({"asleep"}) = {} /\ UNCHANGED wpc
    \/ \E w \in AtWorker({"asleep"}) : wpc' = [wpc EXCEPT ![w] = "woken"]

\* Mutant of NotifyAllWorkers: task_cv.notify_one().
NotifyOneOfAll == NotifyOneWorker

NotifyAllWorkers ==
    wpc' = [w \in Worker |-> IF wpc[w] = "asleep" THEN "woken" ELSE wpc[w]]

DropQueue ==
    /\ tasks' = <<>>
    /\ status' = [t \in Task |-> IF status[t] = "queued" THEN "dropped"
                                                         ELSE status[t]]

-----------------------------------------------------------------------------
(* Calls that finish in one critical section.                              *)

Submit(t) == /\ \/ \E c \in Client : MayCall(c, "submit")
                \/ \E w \in Worker : TaskMayCall(w, "submit")
             /\ status[t] = "new"
             /\ tasks' = Append(tasks, t)
             /\ status' = [status EXCEPT ![t] = "queued"]
             /\ NotifyOneWorker
             /\ UNCHANGED <<current, flags, num_inflight_tasks, resize, op, cpc>>

ClearTaskQueue(c) == /\ MayCall(c, "clear_task_queue")
                     /\ DropQueue
                     /\ UNCHANGED <<wpc, current, flags, num_inflight_tasks,
                                    resize, op, cpc>>

Pause(c) == /\ MayCall(c, "pause")
            /\ pool_paused' = TRUE
            /\ UNCHANGED <<wpc, current, taskVars, pool_running,
                           notify_task_finish, num_inflight_tasks, resize,
                           op, cpc>>

Unpause(c) == /\ MayCall(c, "unpause")
              /\ pool_paused' = FALSE
              /\ NotifyAllWorkers
              /\ UNCHANGED <<current, taskVars, pool_running,
                             notify_task_finish, num_inflight_tasks, resize,
                             op, cpc>>

-----------------------------------------------------------------------------
(* wait_for_queued_tasks and wait_for_tasks.                               *)

CallWait(c, o) == /\ o \in Waits
                  /\ MayCall(c, o)
                  /\ op' = [op EXCEPT ![c] = o]
                  /\ cpc' = [cpc EXCEPT ![c] = "enter"]
                  /\ UNCHANGED <<wpc, current, taskVars, flags,
                                 num_inflight_tasks, resize>>

\* Mutant of Ready: wait_for_tasks does not look at the running tasks.
ReadyWhenEmpty(c) == tasks = <<>>

\* The predicate c's wait on task_finished_cv re-evaluates.
Ready(c) == /\ tasks = <<>>
            /\ op[c] = "wait_for_tasks" => num_inflight_tasks = 0

WaitBlock(c) == /\ cpc[c] \in {"enter", "woken"}
                /\ ~Ready(c)
                /\ cpc' = [cpc EXCEPT ![c] = "asleep"]
                /\ notify_task_finish' = (cpc[c] = "enter" \/ notify_task_finish)
                /\ UNCHANGED <<wpc, current, taskVars, pool_running,
                               pool_paused, num_inflight_tasks, resize, op>>

WaitReturn(c) ==
    /\ cpc[c] \in {"enter", "woken"}
    /\ Ready(c)
    /\ notify_task_finish' = FALSE
    /\ IF op[c] = "destroy"
       THEN /\ cpc' = [cpc EXCEPT ![c] = "stop"]
            /\ UNCHANGED op
       ELSE /\ cpc' = [cpc EXCEPT ![c] = "idle"]
            /\ op' = [op EXCEPT ![c] = "none"]
    /\ UNCHANGED <<wpc, current, taskVars, pool_running, pool_paused,
                   num_inflight_tasks, resize>>

-----------------------------------------------------------------------------
(* set_num_threads and the destructor.                                     *)

SetNumThreads(c, n) ==
    /\ MayCall(c, "set_num_threads")
    /\ thread_mutex = NoClient
    /\ thread_mutex' = c
    /\ op' = [op EXCEPT ![c] = "set_num_threads"]
    /\ requested' = NumThreads(n)
    /\ IF Cardinality(threads) <= requested'
       THEN /\ to_start' = requested' - Cardinality(threads)
            /\ cpc' = [cpc EXCEPT ![c] = "start"]
       ELSE /\ to_start' = requested'
            /\ cpc' = [cpc EXCEPT ![c] = "stop"]
    /\ UNCHANGED <<wpc, current, taskVars, flags, num_inflight_tasks>>

\* The destructor's unpause(), after which it waits for the queue to empty.
Destroy(c) == /\ MayCall(c, "destroy")
              /\ \A d \in Client : op[d] = "none"
              /\ op' = [op EXCEPT ![c] = "destroy"]
              /\ cpc' = [cpc EXCEPT ![c] = "enter"]
              /\ pool_paused' = FALSE
              /\ NotifyAllWorkers
              /\ UNCHANGED <<current, taskVars, pool_running,
                             notify_task_finish, num_inflight_tasks, resize>>

SignalStop(c) == /\ cpc[c] = "stop"
                 /\ thread_mutex \in {NoClient, c}
                 /\ thread_mutex' = c
                 /\ pool_running' = FALSE
                 /\ NotifyAllWorkers
                 /\ cpc' = [cpc EXCEPT ![c] = "join"]
                 /\ UNCHANGED <<current, taskVars, pool_paused,
                                notify_task_finish, num_inflight_tasks,
                                requested, to_start, op>>

\* Mutant of ClearThreads: the joined threads stay in the vector.
KeepThreads == UNCHANGED wpc

ClearThreads == wpc' = [w \in Worker |-> "none"]

\* All the joins and threads.clear(); a destructor then frees the members,
\* and with them the tasks still in the queue.
JoinAll(c) ==
    /\ cpc[c] = "join"
    /\ \A w \in threads : wpc[w] = "exited"
    /\ ClearThreads
    /\ IF op[c] = "destroy"
       THEN /\ cpc' = [cpc EXCEPT ![c] = "dead"]
            /\ thread_mutex' = NoClient
            /\ DropQueue
       ELSE /\ cpc' = [cpc EXCEPT ![c] = "restart"]
            /\ UNCHANGED <<taskVars, thread_mutex>>
    /\ UNCHANGED <<current, flags, num_inflight_tasks, requested, to_start, op>>

\* Mutant of Restart: pool_running stays FALSE after a contraction.
RestartStopped(c) ==
    /\ cpc[c] = "restart"
    /\ cpc' = [cpc EXCEPT ![c] = "start"]
    /\ UNCHANGED <<wpc, current, taskVars, flags, num_inflight_tasks, resize, op>>

Restart(c) == /\ cpc[c] = "restart"
              /\ pool_running' = TRUE
              /\ cpc' = [cpc EXCEPT ![c] = "start"]
              /\ UNCHANGED <<wpc, current, taskVars, pool_paused,
                             notify_task_finish, num_inflight_tasks, resize, op>>

StartThread(c) == /\ cpc[c] = "start"
                  /\ to_start > 0
                  /\ \E w \in Worker \ threads :
                        wpc' = [wpc EXCEPT ![w] = "fresh"]
                  /\ to_start' = to_start - 1
                  /\ UNCHANGED <<current, taskVars, flags, num_inflight_tasks,
                                 thread_mutex, requested, op, cpc>>

SetNumThreadsReturn(c) == /\ cpc[c] = "start"
                          /\ to_start = 0
                          /\ thread_mutex' = NoClient
                          /\ op' = [op EXCEPT ![c] = "none"]
                          /\ cpc' = [cpc EXCEPT ![c] = "idle"]
                          /\ UNCHANGED <<wpc, current, taskVars, flags,
                                         num_inflight_tasks, requested, to_start>>

-----------------------------------------------------------------------------
(* worker_main.                                                            *)

\* About to evaluate the predicate of task_cv.wait, with task_mutex held.
AtPredicate(w) == wpc[w] \in {"fresh", "finished", "woken"}

\* Mutants of InflightAtTop: decrements on every pass; never decrements.
DecrementAlways(w) == num_inflight_tasks - 1
DecrementNever(w) == num_inflight_tasks

\* The count of tasks after the top of the loop has accounted for w's last.
InflightAtTop(w) ==
    IF wpc[w] = "finished" THEN num_inflight_tasks - 1 ELSE num_inflight_tasks

WakeClients == [c \in Client |-> IF cpc[c] = "asleep" THEN "woken" ELSE cpc[c]]

\* Mutants of NotifyFinished: never notifies; not when it is about to exit.
NotifyNever(w) == UNCHANGED cpc
NotifyUnlessStopping(w) ==
    cpc' = IF wpc[w] = "finished" /\ notify_task_finish /\ pool_running
           THEN WakeClients ELSE cpc

NotifyFinished(w) ==
    cpc' = IF wpc[w] = "finished" /\ notify_task_finish THEN WakeClients ELSE cpc

WorkerSleep(w) == /\ AtPredicate(w)
                  /\ pool_running
                  /\ pool_paused \/ tasks = <<>>
                  /\ num_inflight_tasks' = InflightAtTop(w)
                  /\ NotifyFinished(w)
                  /\ wpc' = [wpc EXCEPT ![w] = "asleep"]
                  /\ UNCHANGED <<current, taskVars, flags, resize, op>>

WorkerExit(w) == /\ AtPredicate(w)
                 /\ ~pool_running
                 /\ num_inflight_tasks' = InflightAtTop(w)
                 /\ NotifyFinished(w)
                 /\ wpc' = [wpc EXCEPT ![w] = "exited"]
                 /\ UNCHANGED <<current, taskVars, flags, resize, op>>

WorkerTake(w) == /\ AtPredicate(w)
                 /\ pool_running
                 /\ ~pool_paused
                 /\ tasks # <<>>
                 /\ num_inflight_tasks' = InflightAtTop(w) + 1
                 /\ NotifyFinished(w)
                 /\ wpc' = [wpc EXCEPT ![w] = "running"]
                 /\ current' = [current EXCEPT ![w] = Head(tasks)]
                 /\ status' = [status EXCEPT ![Head(tasks)] = "running"]
                 /\ tasks' = Tail(tasks)
                 /\ UNCHANGED <<flags, resize, op>>

\* The callable returns, or throws: packaged_task stores either.
TaskDone(w) == /\ wpc[w] = "running"
               /\ status' = [status EXCEPT ![current[w]] = "done"]
               /\ current' = [current EXCEPT ![w] = NoTask]
               /\ wpc' = [wpc EXCEPT ![w] = "finished"]
               /\ UNCHANGED <<tasks, flags, num_inflight_tasks, resize, op, cpc>>

\* A task asks for get_num_threads(), which locks thread_mutex.
QueryBegin(w) == /\ TaskMayCall(w, "get_num_threads")
                 /\ wpc' = [wpc EXCEPT ![w] = "query"]
                 /\ UNCHANGED <<current, taskVars, flags, num_inflight_tasks,
                                resize, op, cpc>>

QueryEnd(w) == /\ wpc[w] = "query"
               /\ thread_mutex = NoClient
               /\ wpc' = [wpc EXCEPT ![w] = "running"]
               /\ UNCHANGED <<current, taskVars, flags, num_inflight_tasks,
                              resize, op, cpc>>

\* A condition variable may wake a waiter that nobody notified.
SpuriousWakeWorker(w) == /\ wpc[w] = "asleep"
                         /\ wpc' = [wpc EXCEPT ![w] = "woken"]
                         /\ UNCHANGED <<current, taskVars, flags,
                                        num_inflight_tasks, resize, op, cpc>>

SpuriousWakeClient(c) == /\ cpc[c] = "asleep"
                         /\ cpc' = [cpc EXCEPT ![c] = "woken"]
                         /\ UNCHANGED <<wpc, current, taskVars, flags,
                                        num_inflight_tasks, resize, op>>

-----------------------------------------------------------------------------

\* What a client does next inside an operation it has begun.
ClientStep(c) == \/ WaitBlock(c)
                 \/ WaitReturn(c)
                 \/ SignalStop(c)
                 \/ JoinAll(c)
                 \/ Restart(c)
                 \/ StartThread(c)
                 \/ SetNumThreadsReturn(c)

ClientCall(c) == \/ ClearTaskQueue(c)
                 \/ Pause(c)
                 \/ Unpause(c)
                 \/ \E o \in Waits : CallWait(c, o)
                 \/ \E n \in Sizes : SetNumThreads(c, n)
                 \/ Destroy(c)

WorkerStep(w) == \/ WorkerSleep(w)
                 \/ WorkerExit(w)
                 \/ WorkerTake(w)
                 \/ QueryEnd(w)

Next == \/ \E t \in Task : Submit(t)
        \/ \E c \in Client : \/ ClientCall(c)
                             \/ ClientStep(c)
                             \/ SpuriousWakeClient(c)
        \/ \E w \in Worker : \/ WorkerStep(w)
                             \/ TaskDone(w)
                             \/ QueryBegin(w)
                             \/ SpuriousWakeWorker(w)

Spec == Init /\ [][Next]_vars

\* The scheduler runs every thread that can take a step, and a call made goes
\* on; nobody has to call.
ThreadFairness == /\ \A w \in Worker : WF_vars(WorkerStep(w))
                  /\ \A c \in Client : WF_vars(ClientStep(c))

\* Tasks end.  Strong, for a task may ask for get_num_threads any number of
\* times before it does.
TasksEnd == \A w \in Worker : SF_vars(TaskDone(w))

FairSpec == Spec /\ ThreadFairness /\ TasksEnd

-----------------------------------------------------------------------------
(* Properties.                                                             *)

TypeOK ==
    /\ wpc \in [Worker -> WorkerPC]
    /\ current \in [Worker -> Task \union {NoTask}]
    /\ tasks \in Seq(Task)
    /\ status \in [Task -> Status]
    /\ pool_running \in BOOLEAN
    /\ pool_paused \in BOOLEAN
    /\ notify_task_finish \in BOOLEAN
    /\ num_inflight_tasks \in Nat
    /\ thread_mutex \in Client \union {NoClient}
    /\ op \in [Client -> Waits \union {"none", "set_num_threads", "destroy"}]
    /\ cpc \in [Client -> ClientPC]
    /\ requested \in Nat
    /\ to_start \in Nat

\* num_inflight_tasks is exactly the number of tasks popped and not yet
\* accounted for at the top of worker_main's loop, whichever way the worker
\* leaves it: what wait_for_tasks and get_num_running_tasks rely on.
InflightExact == num_inflight_tasks = Cardinality(Inflight)

\* No wakeup of task_cv is lost.  As long as a worker sleeps in an active
\* pool, each queued task has a worker of its own on its way to the predicate.
WorkConserving ==
    /\ pool_running
    /\ ~pool_paused
    /\ AtWorker({"asleep"}) # {}
    => Len(tasks) <= Cardinality(AtWorker({"fresh", "finished", "woken"}))

\* Whenever thread_mutex is free the pool is whole: it runs, it has a thread,
\* and no worker has left its loop.  While it is stopped no worker sleeps, so
\* the join ends.  A destroyed pool has no thread left.
PoolLifecycle ==
    /\ thread_mutex = NoClient /\ Open
       => pool_running /\ threads # {} /\ AtWorker({"exited"}) = {}
    /\ ~pool_running => AtWorker({"asleep"}) = {}
    /\ ~Open => threads = {}

\* set_num_threads leaves the number of threads it was asked for, whatever
\* other resizes wait for thread_mutex.
ResizeExact ==
    \A c \in Client : cpc[c] = "start" /\ to_start = 0
                      => Cardinality(threads) = requested

\* A thread asleep in a wait has a finishing task still to come, and that
\* worker will see notify_task_finish.  (For one waiter at a time and without
\* clear_task_queue.)
NoStrandedWaiter ==
    \A c \in Client :
        cpc[c] = "asleep" => /\ notify_task_finish
                             /\ tasks # <<>> \/ num_inflight_tasks > 0

\* What is queued when the destructor is called, or submitted by a task while
\* it waits for the queue, is run to its end.
DestructorRunsQueue ==
    \A c \in Client, t \in Task :
        /\ op[c] = "destroy" /\ cpc[c] \in {"enter", "asleep", "woken"}
        /\ status[t] = "queued"
        ~> status[t] = "done"

\* No thread stays inside wait_for_* although what it waits for is true.
NotLeftWaiting ==
    \A c \in Client :
        []<> ~(cpc[c] \in {"enter", "asleep", "woken"} /\ Ready(c))

\* set_num_threads and the destructor come to an end.
ResizeReturns ==
    \A c \in Client :
        /\ op[c] = "set_num_threads" ~> op[c] = "none"
        /\ op[c] = "destroy" ~> cpc[c] = "dead"

\* Once nobody pauses or resizes the pool any more, every queued task is run
\* to its end (or dropped): whatever pauses and resizes went before, they have
\* lost no worker and no notification.
TasksAreRun ==
    <>[](~pool_paused /\ \A c \in Client : op[c] # "set_num_threads")
    => \A t \in Task : status[t] = "queued" ~> status[t] \in {"done", "dropped"}

-----------------------------------------------------------------------------
(* The inductive invariant behind the safety properties.                   *)

\* The operation a client is in says where in it the client can be, and a
\* destructor has the pool to itself.
ClientsConsistent ==
    \A c \in Client :
        /\ op[c] = "none" => cpc[c] = "idle"
        /\ op[c] \in Waits => cpc[c] \in {"enter", "asleep", "woken"}
        /\ op[c] = "set_num_threads" =>
              cpc[c] \in {"stop", "join", "restart", "start"}
        /\ op[c] = "destroy" =>
              /\ cpc[c] \in {"enter", "asleep", "woken", "stop", "join", "dead"}
              /\ \A d \in Client \ {c} : op[d] = "none"

\* thread_mutex is held from the start of a resize, and from the destructor's
\* stop_all_threads, to their end; and by nobody else.
MutexHeld ==
    \A c \in Client :
          /\ op[c] = "set_num_threads" \/ cpc[c] = "join" => thread_mutex = c
          /\ thread_mutex = c => cpc[c] \in {"stop", "join", "restart", "start"}

\* pool_running is FALSE just between stop_all_threads and the restart, and
\* only then have workers left their loop; none of them sleeps.
RunningFlag ==
    /\ ~pool_running <=> \E c \in Client : cpc[c] \in {"join", "restart", "dead"}
    /\ ~pool_running => AtWorker({"asleep"}) = {}
    /\ pool_running => AtWorker({"exited"}) = {}

\* The number of threads: none between the join and the start, at least one
\* at rest, and on the way to the number requested during a resize.
ThreadCount ==
    /\ \A c \in Client :
          /\ cpc[c] \in {"restart", "dead"} => threads = {}
          /\ op[c] = "set_num_threads" =>
                /\ requested > 0
                /\ cpc[c] \in {"stop", "join", "restart"} => to_start = requested
                /\ cpc[c] = "start" => Cardinality(threads) + to_start = requested
    /\ threads # {} \/ \E c \in Client : cpc[c] \in {"restart", "start", "dead"}

\* The queue, the futures and the workers agree about every task.
TasksConsistent ==
    /\ \A i \in 1..Len(tasks) : status[tasks[i]] = "queued"
    /\ \A i, j \in 1..Len(tasks) : tasks[i] = tasks[j] => i = j
    /\ \A w \in Worker : IF wpc[w] \in {"running", "query"}
                         THEN current[w] \in Task /\ status[current[w]] = "running"
                         ELSE current[w] = NoTask
    /\ \A v, w \in Worker : current[v] = current[w] /\ current[v] # NoTask => v = w
    /\ \A t \in Task : status[t] = "running" => \E w \in Worker : current[w] = t

Inv == /\ TypeOK
       /\ InflightExact
       /\ WorkConserving
       /\ ClientsConsistent
       /\ MutexHeld
       /\ RunningFlag
       /\ ThreadCount
       /\ TasksConsistent

\* Under which no waiter is stranded: one thread at most uses wait_for_*, and
\* nobody clears the queue under it.
SingleWaiter == \A c, d \in Client : /\ Calls[c] \cap Waits # {}
                                     /\ Calls[d] \cap Waits # {}
                                     => c = d

NoClear == \A c \in Client : "clear_task_queue" \notin Calls[c]

\* What keeps NoStrandedWaiter inductive.
WaitersInv ==
    /\ \A c \in Client : op[c] \in Waits => op[c] \in Calls[c]
    /\ \A c \in Client : cpc[c] \in {"asleep", "woken"} => notify_task_finish
    /\ NoStrandedWaiter

-----------------------------------------------------------------------------
(* The abstract specification.                                             *)

waiting == [c \in Client |->
              CASE op[c] = "wait_for_queued_tasks" -> "queued"
                [] op[c] = "wait_for_tasks"        -> "all"
                [] OTHER                           -> "none"]

Service == INSTANCE TaskService WITH queue  <- tasks,
                                     paused <- pool_paused,
                                     open   <- Open

\* The pool implements TaskService: tasks start in submission order and never
\* while paused, no wait returns before what it promises holds, and the
\* destructor leaves no task running.
ImplementsService == Service!Spec
=============================================================================
