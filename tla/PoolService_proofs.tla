------------------------- MODULE PoolService_proofs -------------------------
(***************************************************************************)
(* TaskThreadPool implements TaskService: each of its steps is a step of   *)
(* the abstract service or leaves it alone.                                *)
(***************************************************************************)
EXTENDS TaskThreadPool_proofs

\* What the abstract variables other than the queue and the futures depend on.
LEMMA WaitingUnchanged ==
    ASSUME UNCHANGED op
    PROVE  UNCHANGED waiting
BY DEF waiting

LEMMA WaitingTyped ==
    ASSUME TypeOK, NEW c \in Client
    PROVE  /\ op[c] = "wait_for_queued_tasks" <=> waiting[c] = "queued"
           /\ op[c] = "wait_for_tasks" <=> waiting[c] = "all"
           /\ op[c] \notin Waits <=> waiting[c] = "none"
BY DEF waiting, TypeOK, Waits

\* The operation c enters or leaves shows in waiting[c], and only there.
LEMMA WaitingSet ==
    ASSUME TypeOK, NEW c \in Client, NEW o, op' = [op EXCEPT ![c] = o]
    PROVE  /\ o = "wait_for_queued_tasks" =>
                 waiting' = [waiting EXCEPT ![c] = "queued"]
           /\ o = "wait_for_tasks" => waiting' = [waiting EXCEPT ![c] = "all"]
           /\ o \notin Waits => waiting' = [waiting EXCEPT ![c] = "none"]
BY DEF waiting, TypeOK, Waits

\* The pool is open until the destructor's last step.
LEMMA OpenStep ==
    ASSUME TypeOK, NEW c \in Client, NEW a, a # "dead",
           cpc[c] # "dead", cpc' = [cpc EXCEPT ![c] = a]
    PROVE  Open' = Open
BY DEF Open, TypeOK

LEMMA CallerOpen ==
    ASSUME Inv, NEW c \in Client, NEW o, MayCall(c, o)
    PROVE  Open /\ cpc[c] # "dead"
BY DEF Inv, TypeOK, MayCall, Open, ClientsConsistent, Waits

LEMMA WorkerOpen ==
    ASSUME Inv, NEW w \in Worker, wpc[w] # "none"
    PROVE  Open
BY DEF Inv, ThreadCount, Open, threads

\* No task is running when no worker is inside one.
LEMMA NoneRunning ==
    ASSUME Inv, \A w \in Worker : wpc[w] \notin {"running", "query"}
    PROVE  Service!InState("running") = {}
<1>1. \A w \in Worker : current[w] = NoTask
  BY DEF Inv, TasksConsistent
<1> QED BY <1>1, PoolAssumption DEF PoolAssumption, Inv, TasksConsistent,
                                    Service!InState

LEMMA DropsTheSame == DropQueue <=> Service!Drop /\ tasks' = <<>>
BY DEF DropQueue, Service!Drop

LEMMA SubmitRefines ==
    ASSUME Inv, NEW t \in Task, Submit(t)
    PROVE  Service!Submit(t)
<1>1. Open
  <2>1. CASE \E c \in Client : MayCall(c, "submit")
    BY <2>1, CallerOpen
  <2>2. CASE \E w \in Worker : TaskMayCall(w, "submit")
    BY <2>2, WorkerOpen DEF TaskMayCall
  <2> QED BY <2>1, <2>2 DEF Submit
<1>2. UNCHANGED <<op, cpc, pool_paused>>
  BY DEF Submit, flags
<1>3. Open' = Open /\ waiting' = waiting
  BY <1>2, WaitingUnchanged DEF Open
<1> QED BY <1>1, <1>2, <1>3 DEF Submit, Service!Submit

LEMMA CallRefines ==
    ASSUME Inv, NEW c \in Client, ClientCall(c)
    PROVE  Service!Next \/ UNCHANGED Service!vars
<1> USE DEF taskVars, flags, resize
<1>0. TypeOK
  BY DEF Inv
<1>1. CASE ClearTaskQueue(c)
  <2>1. Open /\ Open' = Open /\ waiting' = waiting /\ pool_paused' = pool_paused
    BY <1>1, CallerOpen, WaitingUnchanged DEF ClearTaskQueue, Open
  <2>2. Service!Clear
    BY <1>1, <2>1, DropsTheSame DEF ClearTaskQueue, Service!Clear
  <2> QED BY <2>2 DEF Service!Next
<1>2. CASE Pause(c) \/ Unpause(c)
  <2>1. /\ Open /\ Open' = Open /\ waiting' = waiting
        /\ UNCHANGED <<status, tasks>>
    BY <1>2, CallerOpen, WaitingUnchanged DEF Pause, Unpause, Open
  <2>2. Service!SetPaused(TRUE) \/ Service!SetPaused(FALSE)
    BY <1>2, <2>1 DEF Pause, Unpause, Service!SetPaused
  <2> QED BY <2>2 DEF Service!Next
<1>3. ASSUME NEW o \in Waits, CallWait(c, o)
      PROVE  Service!Next
  <2>1. /\ Open /\ op[c] = "none" /\ cpc[c] # "dead"
        /\ cpc' = [cpc EXCEPT ![c] = "enter"]
        /\ op' = [op EXCEPT ![c] = o]
        /\ UNCHANGED <<status, tasks, pool_paused>>
    BY <1>3, CallerOpen DEF CallWait, MayCall
  <2>2. Open' = Open
    BY <1>0, <2>1, OpenStep
  <2>3. waiting[c] = "none"
    BY <1>0, <2>1, WaitingTyped DEF Waits
  <2>4. \E what \in {"queued", "all"} : waiting' = [waiting EXCEPT ![c] = what]
    BY <1>0, <2>1, WaitingSet DEF Waits
  <2>5. \E what \in {"queued", "all"} : Service!Call(c, what)
    BY <2>1, <2>2, <2>3, <2>4 DEF Service!Call
  <2> QED BY <2>5 DEF Service!Next
<1>4. ASSUME NEW n \in Sizes, SetNumThreads(c, n)
      PROVE  UNCHANGED Service!vars
  <2>1. /\ Open /\ op[c] = "none" /\ cpc[c] # "dead"
        /\ \E a \in {"start", "stop"} : cpc' = [cpc EXCEPT ![c] = a]
        /\ op' = [op EXCEPT ![c] = "set_num_threads"]
        /\ UNCHANGED <<status, tasks, pool_paused>>
    BY <1>4, CallerOpen DEF SetNumThreads, MayCall
  <2>2. Open' = Open
    BY <1>0, <2>1, OpenStep
  <2>3. waiting' = waiting
    BY <1>0, <2>1, WaitingTyped, WaitingSet DEF Waits, waiting
  <2> QED BY <2>1, <2>2, <2>3 DEF Service!vars
<1>5. CASE Destroy(c)
  <2>1. /\ Open /\ op[c] = "none" /\ cpc[c] # "dead"
        /\ cpc' = [cpc EXCEPT ![c] = "enter"]
        /\ op' = [op EXCEPT ![c] = "destroy"]
        /\ UNCHANGED <<status, tasks>> /\ pool_paused' = FALSE
    BY <1>5, CallerOpen DEF Destroy, MayCall
  <2>2. Open' = Open
    BY <1>0, <2>1, OpenStep
  <2>3. waiting' = waiting
    BY <1>0, <2>1, WaitingTyped, WaitingSet DEF Waits, waiting
  <2>4. Service!SetPaused(FALSE)
    BY <2>1, <2>2, <2>3 DEF Service!SetPaused
  <2> QED BY <2>4 DEF Service!Next
<1> QED BY <1>1, <1>2, <1>3, <1>4, <1>5 DEF ClientCall

LEMMA ClientStepRefines ==
    ASSUME Inv, NEW c \in Client, ClientStep(c) \/ SpuriousWakeClient(c)
    PROVE  Service!Next \/ UNCHANGED Service!vars
<1> USE DEF taskVars, flags, resize
<1>0. TypeOK
  BY DEF Inv
<1>1. CASE \/ WaitBlock(c) \/ SignalStop(c) \/ Restart(c) \/ StartThread(c)
           \/ SpuriousWakeClient(c)
  <2>1. /\ \E a \in {"asleep", "join", "start", "woken"} : cpc' = [cpc EXCEPT ![c] = a]
        /\ cpc[c] # "dead"
    BY <1>0, <1>1 DEF WaitBlock, SignalStop, Restart, StartThread,
                      SpuriousWakeClient, TypeOK
  <2>2. UNCHANGED <<status, tasks, pool_paused, op>>
    BY <1>1 DEF WaitBlock, SignalStop, Restart, StartThread, SpuriousWakeClient
  <2>3. Open' = Open /\ waiting' = waiting
    BY <1>0, <2>1, <2>2, OpenStep, WaitingUnchanged
  <2> QED BY <2>2, <2>3 DEF Service!vars
<1>2. CASE WaitReturn(c)
  <2>1. /\ Ready(c) /\ cpc[c] \in {"enter", "woken"}
        /\ UNCHANGED <<status, tasks, pool_paused, num_inflight_tasks>>
    BY <1>2 DEF WaitReturn
  <2>2. CASE op[c] = "destroy"
    <3>1. cpc' = [cpc EXCEPT ![c] = "stop"] /\ op' = op
      BY <1>2, <2>2 DEF WaitReturn
    <3>2. Open' = Open /\ waiting' = waiting
      BY <1>0, <2>1, <3>1, OpenStep, WaitingUnchanged
    <3> QED BY <2>1, <3>2 DEF Service!vars
  <2>3. CASE op[c] # "destroy"
    <3>1. cpc' = [cpc EXCEPT ![c] = "idle"] /\ op' = [op EXCEPT ![c] = "none"]
      BY <1>2, <2>3 DEF WaitReturn
    <3>2. op[c] \in Waits
      BY <2>1, <2>3 DEF Inv, TypeOK, ClientsConsistent
    <3>3. Open' = Open
      BY <1>0, <2>1, <3>1, OpenStep
    <3>4. waiting[c] # "none" /\ waiting' = [waiting EXCEPT ![c] = "none"]
      <4>1. waiting[c] # "none"
        BY <1>0, <3>2, WaitingTyped
      <4>2. "none" \notin Waits
        BY DEF Waits
      <4>3. waiting' = [waiting EXCEPT ![c] = "none"]
        BY <1>0, <3>1, <4>2, WaitingSet
      <4> QED BY <4>1, <4>3
    <3>5. ASSUME waiting[c] = "all"
          PROVE  Service!InState("running") = {}
      <4>1. num_inflight_tasks = 0
        BY <1>0, <2>1, <3>5, WaitingTyped DEF Ready
      <4>2. Inflight = {}
        BY <4>1, AtWorkerFinite, FS_EmptySet DEF Inv, InflightExact, Inflight
      <4>3. \A w \in Worker : wpc[w] \notin {"running", "query"}
        BY <4>2 DEF Inflight, AtWorker
      <4> QED BY <4>3, NoneRunning
    <3>6. Service!Return(c)
      BY <2>1, <3>3, <3>4, <3>5 DEF Service!Return, Ready
    <3> QED BY <3>6 DEF Service!Next
  <2> QED BY <2>2, <2>3
<1>3. CASE JoinAll(c)
  <2>1. /\ cpc[c] = "join" /\ op' = op /\ pool_paused' = pool_paused
        /\ \A w \in threads : wpc[w] = "exited"
    BY <1>3 DEF JoinAll
  <2>2. waiting' = waiting
    BY <2>1, WaitingUnchanged
  <2>3. CASE op[c] = "destroy"
    <3>1. cpc' = [cpc EXCEPT ![c] = "dead"] /\ DropQueue
      BY <1>3, <2>3 DEF JoinAll
    <3>2. Open /\ Open' = FALSE
      <4>1. Open
        BY <2>1, <2>3 DEF Inv, ClientsConsistent, Open
      <4>2. ~Open'
        BY <1>0, <3>1 DEF Open, TypeOK
      <4> QED BY <4>1, <4>2 DEF Open
    <3>3. Service!InState("running") = {}
      <4>1. \A w \in Worker : wpc[w] \notin {"running", "query"}
        BY <2>1 DEF threads
      <4> QED BY <4>1, NoneRunning
    <3>4. Service!Close
      BY <2>1, <2>2, <3>1, <3>2, <3>3, DropsTheSame DEF Service!Close
    <3> QED BY <3>4 DEF Service!Next
  <2>4. CASE op[c] # "destroy"
    <3>1. cpc' = [cpc EXCEPT ![c] = "restart"] /\ UNCHANGED <<status, tasks>>
      BY <1>3, <2>4 DEF JoinAll
    <3>2. Open' = Open
      BY <1>0, <2>1, <3>1, OpenStep
    <3> QED BY <2>1, <2>2, <3>1, <3>2 DEF Service!vars
  <2> QED BY <2>3, <2>4
<1>4. CASE SetNumThreadsReturn(c)
  <2>1. /\ cpc[c] = "start" /\ cpc' = [cpc EXCEPT ![c] = "idle"]
        /\ op' = [op EXCEPT ![c] = "none"]
        /\ UNCHANGED <<status, tasks, pool_paused>>
    BY <1>4 DEF SetNumThreadsReturn
  <2>2. op[c] = "set_num_threads"
    BY <2>1 DEF Inv, TypeOK, ClientsConsistent
  <2>3. Open' = Open
    BY <1>0, <2>1, OpenStep
  <2>4. waiting' = waiting
    BY <1>0, <2>1, <2>2, WaitingTyped, WaitingSet DEF Waits, waiting
  <2> QED BY <2>1, <2>3, <2>4 DEF Service!vars
<1> QED BY <1>1, <1>2, <1>3, <1>4 DEF ClientStep

LEMMA WorkerRefines ==
    ASSUME Inv, NEW w \in Worker,
           WorkerStep(w) \/ TaskDone(w) \/ QueryBegin(w) \/ SpuriousWakeWorker(w)
    PROVE  Service!Next \/ UNCHANGED Service!vars
<1> USE DEF taskVars, flags, resize
<1>1. UNCHANGED <<op, pool_paused>> /\ Open' = Open /\ waiting' = waiting
  <2>1. /\ UNCHANGED <<op, pool_paused>>
        /\ \A c \in Client : \/ cpc'[c] = cpc[c]
                             \/ cpc[c] = "asleep" /\ cpc'[c] = "woken"
    BY WorkersKeepClients DEF Inv
  <2> QED BY <2>1, WaitingUnchanged DEF Open
<1>2. Open
  BY WorkerOpen DEF WorkerStep, WorkerSleep, WorkerExit, WorkerTake, QueryEnd,
                    TaskDone, QueryBegin, SpuriousWakeWorker, AtPredicate, TaskMayCall
<1>3. CASE WorkerTake(w)
  <2>1. Service!Start
    BY <1>1, <1>2, <1>3 DEF WorkerTake, Service!Start
  <2> QED BY <2>1 DEF Service!Next
<1>4. CASE TaskDone(w)
  <2>1. current[w] \in Task /\ status[current[w]] = "running"
    BY <1>4 DEF TaskDone, Inv, TasksConsistent
  <2>2. Service!Finish(current[w])
    BY <1>1, <1>2, <1>4, <2>1 DEF TaskDone, Service!Finish
  <2> QED BY <2>1, <2>2 DEF Service!Next
<1>5. CASE WorkerSleep(w) \/ WorkerExit(w) \/ QueryEnd(w) \/ QueryBegin(w)
           \/ SpuriousWakeWorker(w)
  <2>1. UNCHANGED <<status, tasks>>
    BY <1>5 DEF WorkerSleep, WorkerExit, QueryEnd, QueryBegin, SpuriousWakeWorker
  <2> QED BY <1>1, <2>1 DEF Service!vars
<1> QED BY <1>3, <1>4, <1>5 DEF WorkerStep

LEMMA NextRefines ==
    ASSUME Inv, [Next]_vars
    PROVE  Service!Next \/ UNCHANGED Service!vars
<1>1. CASE UNCHANGED vars
  BY <1>1 DEF vars, Service!vars, Open, waiting
<1>2. CASE \E t \in Task : Submit(t)
  BY <1>2, SubmitRefines DEF Service!Next
<1>3. CASE \E c \in Client : ClientCall(c) \/ ClientStep(c) \/ SpuriousWakeClient(c)
  BY <1>3, CallRefines, ClientStepRefines
<1>4. CASE \E w \in Worker : \/ WorkerStep(w) \/ TaskDone(w) \/ QueryBegin(w)
                             \/ SpuriousWakeWorker(w)
  BY <1>4, WorkerRefines
<1> QED BY <1>1, <1>2, <1>3, <1>4 DEF Next

\* The pool implements the service: first in first out, no task twice, none
\* while paused, waits that return only when they may, and a destructor that
\* leaves none running.
THEOREM Refinement == Spec => ImplementsService
<1>1. Init => Service!Init
  BY DEF Init, Service!Init, Open, waiting
<1>2. Inv /\ [Next]_vars => [Service!Next]_(Service!vars)
  BY NextRefines
<1> QED BY <1>1, <1>2, Invariance, PTL DEF Spec, ImplementsService, Service!Spec
=============================================================================
