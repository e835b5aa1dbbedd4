------------------------- MODULE PoolWaiters_proofs -------------------------
(***************************************************************************)
(* With one waiting thread and no clear_task_queue, notify_task_finish and *)
(* the notification at the top of worker_main strand nobody.  Neither      *)
(* assumption can be dropped: TLC refutes NotLeftWaiting without them.     *)
(***************************************************************************)
EXTENDS TaskThreadPool_proofs

\* When c waits, no other client is inside a wait or a destructor's wait.
LEMMA OnlyOneWaits ==
    ASSUME SingleWaiter, Inv, WaitersInv, NEW c \in Client, NEW d \in Client,
           cpc[c] \in {"enter", "asleep", "woken"},
           cpc[d] \in {"enter", "asleep", "woken"}
    PROVE  c = d
<1>1. op[c] \in Waits \union {"destroy"} /\ op[d] \in Waits \union {"destroy"}
  BY DEF Inv, TypeOK, ClientsConsistent
<1>2. CASE op[c] = "destroy" \/ op[d] = "destroy"
  BY <1>1, <1>2 DEF Inv, ClientsConsistent, Waits
<1>3. CASE op[c] \in Waits /\ op[d] \in Waits
  BY <1>3 DEF SingleWaiter, WaitersInv
<1> QED BY <1>1, <1>2, <1>3

LEMMA WaitersStep ==
    ASSUME SingleWaiter, NoClear, Inv, Inv', WaitersInv, [Next]_vars
    PROVE  WaitersInv'
<1> USE DEF taskVars, flags, resize
<1>0. /\ cpc \in [Client -> ClientPC]
      /\ op \in [Client -> Waits \union {"none", "set_num_threads", "destroy"}]
      /\ tasks \in Seq(Task) /\ num_inflight_tasks \in Nat
  BY DEF Inv, TypeOK
<1>1. CASE UNCHANGED vars
  BY <1>1 DEF vars, WaitersInv, NoStrandedWaiter
<1>2. ASSUME NEW t \in Task, Submit(t)
      PROVE  WaitersInv'
  <2>1. UNCHANGED <<op, cpc, notify_task_finish>> /\ tasks' # <<>>
    BY <1>0, <1>2 DEF Submit
  <2> QED BY <2>1 DEF WaitersInv, NoStrandedWaiter
<1>3. ASSUME NEW c \in Client, ClientCall(c)
      PROVE  WaitersInv'
  <2>1. CASE ClearTaskQueue(c)
    BY <2>1 DEF ClearTaskQueue, MayCall, NoClear
  <2>2. CASE Pause(c) \/ Unpause(c)
    BY <2>2 DEF Pause, Unpause, WaitersInv, NoStrandedWaiter
  <2>3. ASSUME NEW o \in Waits, CallWait(c, o)
        PROVE  WaitersInv'
    <3>1. /\ o \in Calls[c] /\ op' = [op EXCEPT ![c] = o]
          /\ cpc' = [cpc EXCEPT ![c] = "enter"]
          /\ UNCHANGED <<tasks, num_inflight_tasks, notify_task_finish>>
      BY <2>3 DEF CallWait, MayCall
    <3> QED BY <1>0, <3>1 DEF WaitersInv, NoStrandedWaiter
  <2>4. CASE Destroy(c) \/ \E n \in Sizes : SetNumThreads(c, n)
    <3>1. /\ \E o \in {"destroy", "set_num_threads"} : op' = [op EXCEPT ![c] = o]
          /\ \E a \in {"enter", "start", "stop"} : cpc' = [cpc EXCEPT ![c] = a]
          /\ UNCHANGED <<tasks, num_inflight_tasks, notify_task_finish>>
      BY <2>4 DEF Destroy, SetNumThreads
    <3> QED BY <1>0, <3>1 DEF WaitersInv, NoStrandedWaiter, Waits
  <2> QED BY <1>3, <2>1, <2>2, <2>3, <2>4 DEF ClientCall
<1>4. ASSUME NEW c \in Client, ClientStep(c) \/ SpuriousWakeClient(c)
      PROVE  WaitersInv'
  <2>1. CASE WaitBlock(c)
    <3>1. notify_task_finish'
      BY <2>1 DEF WaitBlock, WaitersInv
    <3>2. tasks' # <<>> \/ num_inflight_tasks' > 0
      BY <1>0, <2>1 DEF WaitBlock, Ready
    <3>3. op' = op
      BY <2>1 DEF WaitBlock
    <3> QED BY <3>1, <3>2, <3>3 DEF WaitersInv, NoStrandedWaiter
  <2>2. CASE WaitReturn(c)
    <3>1. \A d \in Client \ {c} : cpc[d] \notin {"asleep", "woken"}
      BY <2>2, OnlyOneWaits DEF WaitReturn
    <3>2. /\ \E a \in {"stop", "idle"} : cpc' = [cpc EXCEPT ![c] = a]
          /\ op' = op \/ op' = [op EXCEPT ![c] = "none"]
      BY <2>2 DEF WaitReturn
    <3> QED BY <1>0, <3>1, <3>2 DEF WaitersInv, NoStrandedWaiter, Waits
  <2>3. CASE SignalStop(c) \/ Restart(c) \/ StartThread(c)
    BY <1>0, <2>3 DEF SignalStop, Restart, StartThread, WaitersInv, NoStrandedWaiter
  <2>4. CASE JoinAll(c)
    <3>1. CASE op[c] = "destroy"
      <4>1. \A d \in Client \ {c} : cpc[d] \notin {"asleep", "woken"}
        BY <3>1 DEF Inv, ClientsConsistent
      <4>2. cpc' = [cpc EXCEPT ![c] = "dead"] /\ op' = op
        BY <2>4, <3>1 DEF JoinAll
      <4> QED BY <1>0, <4>1, <4>2 DEF WaitersInv, NoStrandedWaiter
    <3>2. CASE op[c] # "destroy"
      BY <1>0, <2>4, <3>2 DEF JoinAll, WaitersInv, NoStrandedWaiter
    <3> QED BY <3>1, <3>2
  <2>5. CASE SetNumThreadsReturn(c)
    BY <1>0, <2>5 DEF SetNumThreadsReturn, WaitersInv, NoStrandedWaiter, Waits
  <2>6. CASE SpuriousWakeClient(c)
    BY <1>0, <2>6 DEF SpuriousWakeClient, WaitersInv, NoStrandedWaiter
  <2> QED BY <1>4, <2>1, <2>2, <2>3, <2>4, <2>5, <2>6 DEF ClientStep
<1>5. ASSUME NEW w \in Worker,
             WorkerStep(w) \/ TaskDone(w) \/ QueryBegin(w) \/ SpuriousWakeWorker(w)
      PROVE  WaitersInv'
  <2>1. UNCHANGED <<op, notify_task_finish>>
    BY <1>5 DEF WorkerStep, WorkerSleep, WorkerExit, WorkerTake, QueryEnd,
                TaskDone, QueryBegin, SpuriousWakeWorker
  <2>2. \A c \in Client : \/ cpc'[c] = cpc[c]
                          \/ cpc[c] = "asleep" /\ cpc'[c] = "woken"
    BY <1>5, WorkersKeepClients DEF Inv
  <2>3. ASSUME NEW c \in Client, cpc'[c] = "asleep"
        PROVE  tasks' # <<>> \/ num_inflight_tasks' > 0
    <3>1. cpc[c] = "asleep" /\ notify_task_finish
      BY <2>2, <2>3 DEF WaitersInv
    <3>2. tasks # <<>> \/ num_inflight_tasks > 0
      BY <3>1 DEF WaitersInv, NoStrandedWaiter
    <3>3. CASE WorkerSleep(w) \/ WorkerExit(w) \/ WorkerTake(w)
      <4>1. wpc[w] # "finished"
        BY <2>3, <3>1, <3>3 DEF WorkerSleep, WorkerExit, WorkerTake, NotifyFinished,
                                    WakeClients
      <4>2. InflightAtTop(w) = num_inflight_tasks
        BY <4>1 DEF InflightAtTop
      <4> QED BY <1>0, <3>2, <3>3, <4>2 DEF WorkerSleep, WorkerExit, WorkerTake
    <3>4. CASE QueryEnd(w) \/ TaskDone(w) \/ QueryBegin(w) \/ SpuriousWakeWorker(w)
      BY <3>2, <3>4 DEF QueryEnd, TaskDone, QueryBegin, SpuriousWakeWorker
    <3> QED BY <1>5, <3>3, <3>4 DEF WorkerStep
  <2> QED BY <2>1, <2>2, <2>3 DEF WaitersInv, NoStrandedWaiter
<1> QED BY <1>1, <1>2, <1>3, <1>4, <1>5 DEF Next

\* A thread asleep in wait_for_tasks or wait_for_queued_tasks, or in the
\* destructor's, always has a worker to come that will notify it.
THEOREM WaitersServed ==
    ASSUME SingleWaiter, NoClear
    PROVE  Spec => []NoStrandedWaiter
<1>1. Init => WaitersInv
  BY DEF Init, WaitersInv, NoStrandedWaiter, Waits
<1>2. Inv /\ Inv' /\ WaitersInv /\ [Next]_vars => WaitersInv'
  BY WaitersStep
<1>3. WaitersInv => NoStrandedWaiter
  BY DEF WaitersInv
<1> QED BY <1>1, <1>2, <1>3, Invariance, PTL DEF Spec
=============================================================================
