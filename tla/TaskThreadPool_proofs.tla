------------------------ MODULE TaskThreadPool_proofs ------------------------
(***************************************************************************)
(* The safety properties of TaskThreadPool, proved for any number of       *)
(* workers, clients and tasks.                                             *)
(***************************************************************************)
EXTENDS TaskThreadPool, FiniteSetTheorems, TLAPS

Movers == {"fresh", "finished", "woken"}

\* A set of workers is finite: there are finitely many workers.
LEMMA AtWorkerFinite ==
    ASSUME NEW L
    PROVE  /\ IsFiniteSet(AtWorker(L))
           /\ Cardinality(AtWorker(L)) \in Nat
<1>1. AtWorker(L) \subseteq Worker
  BY DEF AtWorker
<1>2. IsFiniteSet(AtWorker(L))
  BY <1>1, FS_Subset, PoolAssumption DEF PoolAssumption
<1> QED BY <1>2, FS_CardinalityType

\* How the workers at the labels L change when one worker's label does.
LEMMA MoveIn ==
    ASSUME wpc \in [Worker -> WorkerPC], NEW w \in Worker, NEW a, NEW L,
           wpc' = [wpc EXCEPT ![w] = a], a \in L, wpc[w] \notin L
    PROVE  Cardinality(AtWorker(L)') = Cardinality(AtWorker(L)) + 1
<1>1. AtWorker(L)' = AtWorker(L) \union {w}
  BY DEF AtWorker
<1>2. w \notin AtWorker(L)
  BY DEF AtWorker
<1> QED BY <1>1, <1>2, AtWorkerFinite, FS_AddElement

LEMMA MoveOut ==
    ASSUME wpc \in [Worker -> WorkerPC], NEW w \in Worker, NEW a, NEW L,
           wpc' = [wpc EXCEPT ![w] = a], a \notin L, wpc[w] \in L
    PROVE  Cardinality(AtWorker(L)') = Cardinality(AtWorker(L)) - 1
<1>1. AtWorker(L)' = AtWorker(L) \ {w}
  BY DEF AtWorker
<1>2. w \in AtWorker(L)
  BY DEF AtWorker
<1> QED BY <1>1, <1>2, AtWorkerFinite, FS_RemoveElement

LEMMA MoveWithin ==
    ASSUME wpc \in [Worker -> WorkerPC], NEW w \in Worker, NEW a, NEW L,
           wpc' = [wpc EXCEPT ![w] = a], a \in L <=> wpc[w] \in L
    PROVE  AtWorker(L)' = AtWorker(L)
BY DEF AtWorker

\* A request is always for at least one thread.
LEMMA NumThreadsPositive ==
    ASSUME NEW n \in Nat
    PROVE  NumThreads(n) \in Nat /\ NumThreads(n) > 0
BY PoolAssumption DEF PoolAssumption, NumThreads

-----------------------------------------------------------------------------
(* The count of in-flight tasks.                                           *)

\* Whatever NotifyOneWorker and NotifyAllWorkers do, they wake sleepers only.
LEMMA NotifyKeepsCounts ==
    ASSUME wpc \in [Worker -> WorkerPC], NotifyOneWorker \/ NotifyAllWorkers
    PROVE  /\ wpc' \in [Worker -> WorkerPC]
           /\ Inflight' = Inflight
           /\ threads' = threads
           /\ \A w \in Worker : wpc'[w] = wpc[w]
                                \/ (wpc[w] = "asleep" /\ wpc'[w] = "woken")
<1>1. /\ wpc' \in [Worker -> WorkerPC]
      /\ \A w \in Worker : wpc'[w] = wpc[w]
                           \/ (wpc[w] = "asleep" /\ wpc'[w] = "woken")
  BY DEF NotifyOneWorker, NotifyAllWorkers, AtWorker, WorkerPC
<1> QED BY <1>1 DEF Inflight, AtWorker, threads

LEMMA CountStep ==
    ASSUME TypeOK, InflightExact, [Next]_vars
    PROVE  InflightExact'
<1> USE DEF TypeOK, taskVars, flags, resize
<1>1. CASE UNCHANGED vars
  BY <1>1 DEF vars, InflightExact, Inflight, AtWorker
<1>2. CASE \E t \in Task : Submit(t)
  BY <1>2, NotifyKeepsCounts DEF Submit, InflightExact
<1>3. ASSUME NEW c \in Client, ClientCall(c)
      PROVE  InflightExact'
  <2>1. CASE \/ ClearTaskQueue(c) \/ Pause(c)
             \/ \E o \in Waits : CallWait(c, o)
             \/ \E n \in Sizes : SetNumThreads(c, n)
    BY <2>1 DEF ClearTaskQueue, Pause, CallWait, SetNumThreads, InflightExact,
                Inflight, AtWorker
  <2>2. CASE Unpause(c) \/ Destroy(c)
    BY <2>2, NotifyKeepsCounts DEF Unpause, Destroy, InflightExact
  <2> QED BY <1>3, <2>1, <2>2 DEF ClientCall
<1>4. ASSUME NEW c \in Client, ClientStep(c) \/ SpuriousWakeClient(c)
      PROVE  InflightExact'
  <2>1. CASE \/ WaitBlock(c) \/ WaitReturn(c) \/ Restart(c)
             \/ SetNumThreadsReturn(c) \/ SpuriousWakeClient(c)
    BY <2>1 DEF WaitBlock, WaitReturn, Restart, SetNumThreadsReturn,
                SpuriousWakeClient, InflightExact, Inflight, AtWorker
  <2>2. CASE SignalStop(c)
    BY <2>2, NotifyKeepsCounts DEF SignalStop, InflightExact
  <2>3. CASE JoinAll(c)
    BY <2>3 DEF JoinAll, ClearThreads, InflightExact, Inflight, AtWorker, threads
  <2>4. CASE StartThread(c)
    BY <2>4 DEF StartThread, InflightExact, Inflight, AtWorker, threads
  <2> QED BY <1>4, <2>1, <2>2, <2>3, <2>4 DEF ClientStep
<1>5. ASSUME NEW w \in Worker,
             WorkerStep(w) \/ TaskDone(w) \/ QueryBegin(w) \/ SpuriousWakeWorker(w)
      PROVE  InflightExact'
  <2> DEFINE L == {"running", "query", "finished"}
  <2>1. CASE WorkerSleep(w) \/ WorkerExit(w)
    <3>1. PICK a \in {"asleep", "exited"} : wpc' = [wpc EXCEPT ![w] = a]
      BY <2>1 DEF WorkerSleep, WorkerExit
    <3>2. wpc[w] \in Movers /\ num_inflight_tasks' = InflightAtTop(w)
      BY <2>1 DEF WorkerSleep, WorkerExit, AtPredicate, Movers
    <3>3. CASE wpc[w] = "finished"
      <4>1. Cardinality(AtWorker(L)') = Cardinality(AtWorker(L)) - 1
        BY <3>1, <3>3, MoveOut
      <4> QED BY <3>2, <3>3, <4>1 DEF InflightAtTop, InflightExact, Inflight
    <3>4. CASE wpc[w] # "finished"
      <4>1. AtWorker(L)' = AtWorker(L)
        BY <3>1, <3>2, <3>4, MoveWithin DEF Movers
      <4> QED BY <3>2, <3>4, <4>1 DEF InflightAtTop, InflightExact, Inflight
    <3> QED BY <3>3, <3>4
  <2>2. CASE WorkerTake(w)
    <3>1. /\ wpc[w] \in Movers
          /\ wpc' = [wpc EXCEPT ![w] = "running"]
          /\ num_inflight_tasks' = InflightAtTop(w) + 1
      BY <2>2 DEF WorkerTake, AtPredicate, Movers
    <3>2. CASE wpc[w] = "finished"
      <4>1. AtWorker(L)' = AtWorker(L)
        BY <3>1, <3>2, MoveWithin
      <4> QED BY <3>1, <3>2, <4>1 DEF InflightAtTop, InflightExact, Inflight
    <3>3. CASE wpc[w] # "finished"
      <4>1. Cardinality(AtWorker(L)') = Cardinality(AtWorker(L)) + 1
        BY <3>1, <3>3, MoveIn DEF Movers
      <4> QED BY <3>1, <3>3, <4>1 DEF InflightAtTop, InflightExact, Inflight
    <3> QED BY <3>2, <3>3
  <2>3. CASE TaskDone(w) \/ QueryBegin(w) \/ QueryEnd(w) \/ SpuriousWakeWorker(w)
    BY <2>3 DEF TaskDone, QueryBegin, QueryEnd, SpuriousWakeWorker, TaskMayCall,
                InflightExact, Inflight, AtWorker
  <2> QED BY <1>5, <2>1, <2>2, <2>3 DEF WorkerStep
<1> QED BY <1>1, <1>2, <1>3, <1>4, <1>5 DEF Next

-----------------------------------------------------------------------------
(* Types.                                                                  *)

LEMMA ThreadsFinite == IsFiniteSet(threads) /\ Cardinality(threads) \in Nat
<1>1. threads \subseteq Worker
  BY DEF threads
<1>2. IsFiniteSet(threads)
  BY <1>1, FS_Subset, PoolAssumption DEF PoolAssumption
<1> QED BY <1>2, FS_CardinalityType

LEMMA TypeStep ==
    ASSUME TypeOK, InflightExact', [Next]_vars
    PROVE  TypeOK'
<1> USE DEF taskVars, flags, resize
<1>0. num_inflight_tasks' \in Nat
  <2>1. AtWorker({"running", "query", "finished"})' \subseteq Worker
    BY DEF AtWorker
  <2>2. IsFiniteSet(AtWorker({"running", "query", "finished"})')
    BY <2>1, FS_Subset, PoolAssumption DEF PoolAssumption
  <2> QED BY <2>2, FS_CardinalityType DEF InflightExact, Inflight
<1>1. CASE UNCHANGED vars
  BY <1>1 DEF vars, TypeOK
<1>2. ASSUME NEW t \in Task, Submit(t)
      PROVE  TypeOK'
  <2>1. wpc' \in [Worker -> WorkerPC]
    BY <1>2, NotifyKeepsCounts DEF Submit, TypeOK
  <2>2. tasks' \in Seq(Task) /\ status' \in [Task -> Status]
    BY <1>2 DEF Submit, TypeOK, Status
  <2> QED BY <1>0, <1>2, <2>1, <2>2 DEF Submit, TypeOK
<1>3. ASSUME NEW c \in Client, ClientCall(c)
      PROVE  TypeOK'
  <2>1. CASE ClearTaskQueue(c)
    BY <1>0, <2>1 DEF ClearTaskQueue, DropQueue, TypeOK, Status
  <2>2. CASE Pause(c)
    BY <1>0, <2>2 DEF Pause, TypeOK
  <2>3. CASE \E o \in Waits : CallWait(c, o)
    BY <1>0, <2>3 DEF CallWait, TypeOK, ClientPC
  <2>4. ASSUME NEW n \in Sizes, SetNumThreads(c, n)
        PROVE  TypeOK'
    <3>1. NumThreads(n) \in Nat /\ Cardinality(threads) \in Nat
      BY NumThreadsPositive, ThreadsFinite, PoolAssumption DEF PoolAssumption
    <3>2. requested' \in Nat /\ to_start' \in Nat /\ thread_mutex' \in Client
      BY <2>4, <3>1 DEF SetNumThreads
    <3> QED BY <1>0, <2>4, <3>2 DEF SetNumThreads, TypeOK, ClientPC
  <2>5. CASE Unpause(c) \/ Destroy(c)
    <3>1. wpc' \in [Worker -> WorkerPC]
      BY <2>5, NotifyKeepsCounts DEF Unpause, Destroy, TypeOK
    <3> QED BY <1>0, <2>5, <3>1 DEF Unpause, Destroy, TypeOK, ClientPC
  <2> QED BY <1>3, <2>1, <2>2, <2>3, <2>4, <2>5 DEF ClientCall
<1>4. ASSUME NEW c \in Client, ClientStep(c) \/ SpuriousWakeClient(c)
      PROVE  TypeOK'
  <2>1. CASE WaitBlock(c) \/ WaitReturn(c) \/ SpuriousWakeClient(c)
    BY <1>0, <2>1 DEF WaitBlock, WaitReturn, SpuriousWakeClient, TypeOK, ClientPC
  <2>2. CASE Restart(c) \/ SetNumThreadsReturn(c)
    BY <1>0, <2>2 DEF Restart, SetNumThreadsReturn, TypeOK, ClientPC
  <2>3. CASE SignalStop(c)
    <3>1. wpc' \in [Worker -> WorkerPC]
      BY <2>3, NotifyKeepsCounts DEF SignalStop, TypeOK
    <3> QED BY <1>0, <2>3, <3>1 DEF SignalStop, TypeOK, ClientPC
  <2>4. CASE JoinAll(c)
    <3>1. tasks' \in Seq(Task) /\ status' \in [Task -> Status]
      <4>1. CASE op[c] = "destroy"
        <5>1. DropQueue
          BY <2>4, <4>1 DEF JoinAll, ClearThreads
        <5> QED BY <5>1 DEF DropQueue, TypeOK, Status
      <4>2. CASE op[c] # "destroy"
        <5>1. UNCHANGED <<tasks, status>>
          BY <2>4, <4>2 DEF JoinAll, ClearThreads
        <5> QED BY <5>1 DEF TypeOK
      <4> QED BY <4>1, <4>2
    <3>2. /\ wpc' \in [Worker -> WorkerPC]
          /\ cpc' \in [Client -> ClientPC]
          /\ thread_mutex' \in Client \union {NoClient}
      BY <2>4 DEF JoinAll, ClearThreads, TypeOK, ClientPC, WorkerPC
    <3> QED BY <1>0, <2>4, <3>1, <3>2 DEF JoinAll, ClearThreads, TypeOK
  <2>5. CASE StartThread(c)
    BY <1>0, <2>5 DEF StartThread, TypeOK, WorkerPC
  <2> QED BY <1>4, <2>1, <2>2, <2>3, <2>4, <2>5 DEF ClientStep
<1>5. ASSUME NEW w \in Worker,
             WorkerStep(w) \/ TaskDone(w) \/ QueryBegin(w) \/ SpuriousWakeWorker(w)
      PROVE  TypeOK'
  <2>1. CASE WorkerSleep(w) \/ WorkerExit(w)
    BY <1>0, <2>1 DEF WorkerSleep, WorkerExit, NotifyFinished, WakeClients, TypeOK, WorkerPC,
                      ClientPC
  <2>2. CASE WorkerTake(w)
    <3>1. Head(tasks) \in Task /\ tasks' \in Seq(Task)
      BY <2>2 DEF WorkerTake, TypeOK
    <3>2. cpc' \in [Client -> ClientPC]
      BY <2>2 DEF WorkerTake, NotifyFinished, WakeClients, TypeOK, ClientPC
    <3> QED BY <1>0, <2>2, <3>1, <3>2 DEF WorkerTake, TypeOK, WorkerPC, Status
  <2>3. CASE TaskDone(w)
    BY <1>0, <2>3 DEF TaskDone, TypeOK, WorkerPC, Status
  <2>4. CASE QueryBegin(w) \/ QueryEnd(w) \/ SpuriousWakeWorker(w)
    BY <1>0, <2>4 DEF QueryBegin, QueryEnd, SpuriousWakeWorker, TypeOK, WorkerPC
  <2> QED BY <1>5, <2>1, <2>2, <2>3, <2>4 DEF WorkerStep
<1> QED BY <1>1, <1>2, <1>3, <1>4, <1>5 DEF Next

-----------------------------------------------------------------------------
(* No lost wakeup.                                                         *)

LEMMA ConserveStep ==
    ASSUME TypeOK, TypeOK', WorkConserving, RunningFlag, [Next]_vars
    PROVE  WorkConserving'
<1> USE DEF taskVars, flags, resize
<1> SUFFICES ASSUME pool_running', ~pool_paused', AtWorker({"asleep"})' # {}
             PROVE  Len(tasks') <= Cardinality(AtWorker(Movers)')
  BY DEF WorkConserving, Movers
<1>0. /\ Cardinality(AtWorker(Movers)) \in Nat
      /\ wpc \in [Worker -> WorkerPC]
      /\ tasks \in Seq(Task)
      /\ pool_running /\ ~pool_paused /\ AtWorker({"asleep"}) # {}
         => Len(tasks) <= Cardinality(AtWorker(Movers))
  BY AtWorkerFinite DEF WorkConserving, Movers, TypeOK
<1>1. CASE UNCHANGED vars
  BY <1>0, <1>1 DEF vars, AtWorker
<1>2. ASSUME NEW t \in Task, Submit(t)
      PROVE  Len(tasks') <= Cardinality(AtWorker(Movers)')
  <2>1. PICK w \in AtWorker({"asleep"}) : wpc' = [wpc EXCEPT ![w] = "woken"]
    BY <1>2 DEF Submit, NotifyOneWorker, AtWorker
  <2>2. Cardinality(AtWorker(Movers)') = Cardinality(AtWorker(Movers)) + 1
    <3>1. w \in Worker /\ wpc[w] \notin Movers /\ "woken" \in Movers
      BY DEF AtWorker, Movers
    <3> QED BY <1>0, <2>1, <3>1, MoveIn
  <2>3. Len(tasks') = Len(tasks) + 1
    BY <1>0, <1>2 DEF Submit
  <2> QED BY <1>0, <1>2, <2>1, <2>2, <2>3 DEF Submit
<1>3. ASSUME NEW c \in Client, ClientCall(c)
      PROVE  Len(tasks') <= Cardinality(AtWorker(Movers)')
  <2>1. CASE ClearTaskQueue(c)
    <3>1. Len(tasks') = 0
      BY <2>1 DEF ClearTaskQueue, DropQueue
    <3>2. AtWorker(Movers)' = AtWorker(Movers)
      BY <2>1 DEF ClearTaskQueue, AtWorker
    <3> QED BY <1>0, <3>1, <3>2
  <2>2. CASE \E o \in Waits : CallWait(c, o)
    BY <1>0, <2>2 DEF CallWait, AtWorker
  <2>3. CASE \E n \in Sizes : SetNumThreads(c, n)
    BY <1>0, <2>3 DEF SetNumThreads, AtWorker
  <2>4. CASE Unpause(c) \/ Destroy(c)
    BY <1>0, <2>4 DEF Unpause, Destroy, NotifyAllWorkers, AtWorker
  <2>5. CASE Pause(c)
    BY <2>5 DEF Pause
  <2> QED BY <1>3, <2>1, <2>2, <2>3, <2>4, <2>5 DEF ClientCall
<1>4. ASSUME NEW c \in Client, ClientStep(c) \/ SpuriousWakeClient(c)
      PROVE  Len(tasks') <= Cardinality(AtWorker(Movers)')
  <2>1. CASE WaitBlock(c) \/ WaitReturn(c) \/ SetNumThreadsReturn(c)
             \/ SpuriousWakeClient(c)
    BY <1>0, <2>1 DEF WaitBlock, WaitReturn, SetNumThreadsReturn,
                      SpuriousWakeClient, AtWorker
  <2>2. CASE SignalStop(c)
    BY <2>2 DEF SignalStop
  <2>3. CASE JoinAll(c)
    BY <2>3 DEF JoinAll, ClearThreads, AtWorker
  <2>4. CASE Restart(c)
    BY <2>4 DEF Restart, RunningFlag, AtWorker
  <2>5. CASE StartThread(c)
    <3>1. PICK w \in Worker \ threads : wpc' = [wpc EXCEPT ![w] = "fresh"]
      BY <2>5 DEF StartThread
    <3>2. wpc[w] \notin Movers /\ "fresh" \in Movers
      BY DEF threads, Movers
    <3>3. Cardinality(AtWorker(Movers)') = Cardinality(AtWorker(Movers)) + 1
      BY <1>0, <3>1, <3>2, MoveIn
    <3>4. AtWorker({"asleep"})' = AtWorker({"asleep"})
      BY <1>0, <3>1, MoveWithin DEF threads
    <3> QED BY <1>0, <2>5, <3>3, <3>4 DEF StartThread
  <2> QED BY <1>4, <2>1, <2>2, <2>3, <2>4, <2>5 DEF ClientStep
<1>5. ASSUME NEW w \in Worker,
             WorkerStep(w) \/ TaskDone(w) \/ QueryBegin(w) \/ SpuriousWakeWorker(w)
      PROVE  Len(tasks') <= Cardinality(AtWorker(Movers)')
  <2>1. CASE WorkerSleep(w)
    <3>1. tasks' = <<>>
      BY <2>1 DEF WorkerSleep
    <3>2. Cardinality(AtWorker(Movers)') \in Nat
      <4>1. AtWorker(Movers)' \subseteq Worker
        BY DEF AtWorker
      <4> QED BY <4>1, FS_Subset, FS_CardinalityType, PoolAssumption DEF PoolAssumption
    <3> QED BY <3>1, <3>2
  <2>2. CASE WorkerExit(w)
    BY <2>2 DEF WorkerExit
  <2>3. CASE WorkerTake(w)
    <3>1. wpc[w] \in Movers /\ "running" \notin Movers
      BY <2>3 DEF WorkerTake, AtPredicate, Movers
    <3>2. Cardinality(AtWorker(Movers)') = Cardinality(AtWorker(Movers)) - 1
      BY <1>0, <2>3, <3>1, MoveOut DEF WorkerTake
    <3>3. AtWorker({"asleep"})' = AtWorker({"asleep"})
      BY <1>0, <2>3, <3>1 DEF WorkerTake, AtWorker, Movers
    <3>4. Len(tasks') = Len(tasks) - 1
      BY <1>0, <2>3 DEF WorkerTake
    <3> QED BY <1>0, <2>3, <3>2, <3>3, <3>4 DEF WorkerTake
  <2>4. CASE QueryBegin(w) \/ QueryEnd(w)
    <3>1. AtWorker(Movers)' = AtWorker(Movers)
      BY <1>0, <2>4 DEF QueryBegin, QueryEnd, TaskMayCall, AtWorker, Movers
    <3>2. AtWorker({"asleep"})' = AtWorker({"asleep"})
      BY <1>0, <2>4 DEF QueryBegin, QueryEnd, TaskMayCall, AtWorker
    <3> QED BY <1>0, <2>4, <3>1, <3>2 DEF QueryBegin, QueryEnd
  <2>5. CASE TaskDone(w) \/ SpuriousWakeWorker(w)
    <3>1. PICK a \in Movers : wpc' = [wpc EXCEPT ![w] = a]
      BY <2>5 DEF TaskDone, SpuriousWakeWorker, Movers
    <3>2. wpc[w] \notin Movers
      BY <2>5 DEF TaskDone, SpuriousWakeWorker, Movers
    <3>3. Cardinality(AtWorker(Movers)') = Cardinality(AtWorker(Movers)) + 1
      BY <1>0, <3>1, <3>2, MoveIn
    <3>4. AtWorker({"asleep"})' \subseteq AtWorker({"asleep"})
      BY <1>0, <3>1 DEF AtWorker, Movers
    <3>5. UNCHANGED <<tasks, pool_running, pool_paused>>
      BY <2>5 DEF TaskDone, SpuriousWakeWorker
    <3>6. Len(tasks) <= Cardinality(AtWorker(Movers)) /\ Len(tasks) \in Nat
      BY <1>0, <3>4, <3>5
    <3> QED BY <1>0, <3>3, <3>5, <3>6
  <2> QED BY <1>5, <2>1, <2>2, <2>3, <2>4, <2>5 DEF WorkerStep
<1> QED BY <1>1, <1>2, <1>3, <1>4, <1>5 DEF Next

-----------------------------------------------------------------------------
(* Clients, thread_mutex and the resize in progress.                       *)

\* What a step of a worker, or a submission, leaves alone.
LEMMA WorkersKeepClients ==
    ASSUME TypeOK,
           \/ \E t \in Task : Submit(t)
           \/ \E w \in Worker : WorkerStep(w) \/ TaskDone(w) \/ QueryBegin(w)
                               \/ SpuriousWakeWorker(w)
    PROVE  /\ UNCHANGED <<op, thread_mutex, pool_running, pool_paused,
                          requested, to_start>>
           /\ DOMAIN cpc' = Client
           /\ \A c \in Client : \/ cpc'[c] = cpc[c]
                                \/ cpc[c] = "asleep" /\ cpc'[c] = "woken"
<1> USE DEF taskVars, flags, resize
<1>0. DOMAIN cpc = Client
  BY DEF TypeOK
<1>1. ASSUME NEW t \in Task, Submit(t)
      PROVE  UNCHANGED <<op, cpc, thread_mutex, pool_running, pool_paused,
                         requested, to_start>>
  BY <1>1 DEF Submit
<1>2. ASSUME NEW w \in Worker, \/ WorkerSleep(w) \/ WorkerExit(w) \/ WorkerTake(w)
      PROVE  /\ UNCHANGED <<op, thread_mutex, pool_running, pool_paused,
                            requested, to_start>>
             /\ NotifyFinished(w)
  BY <1>2 DEF WorkerSleep, WorkerExit, WorkerTake
<1>3. ASSUME NEW w \in Worker,
             QueryEnd(w) \/ TaskDone(w) \/ QueryBegin(w) \/ SpuriousWakeWorker(w)
      PROVE  UNCHANGED <<op, cpc, thread_mutex, pool_running, pool_paused,
                         requested, to_start>>
  BY <1>3 DEF QueryEnd, TaskDone, QueryBegin, SpuriousWakeWorker
<1>4. ASSUME NEW w \in Worker, NotifyFinished(w)
      PROVE  /\ DOMAIN cpc' = Client
             /\ \A c \in Client : \/ cpc'[c] = cpc[c]
                                  \/ cpc[c] = "asleep" /\ cpc'[c] = "woken"
  <2>1. CASE wpc[w] = "finished" /\ notify_task_finish
    <3>1. cpc' = [c \in Client |-> IF cpc[c] = "asleep" THEN "woken" ELSE cpc[c]]
      BY <1>4, <2>1 DEF NotifyFinished, WakeClients
    <3> QED BY <3>1
  <2>2. CASE ~(wpc[w] = "finished" /\ notify_task_finish)
    <3>1. cpc' = cpc
      BY <1>4, <2>2 DEF NotifyFinished, WakeClients
    <3> QED BY <1>0, <3>1
  <2> QED BY <2>1, <2>2
<1>5. ASSUME NEW w \in Worker,
             WorkerStep(w) \/ TaskDone(w) \/ QueryBegin(w) \/ SpuriousWakeWorker(w)
      PROVE  /\ UNCHANGED <<op, thread_mutex, pool_running, pool_paused,
                            requested, to_start>>
             /\ UNCHANGED cpc \/ NotifyFinished(w)
  BY <1>2, <1>3, <1>5 DEF WorkerStep
<1>6. CASE \E t \in Task : Submit(t)
  BY <1>0, <1>1, <1>6
<1>7. CASE \E w \in Worker : WorkerStep(w) \/ TaskDone(w) \/ QueryBegin(w)
                          \/ SpuriousWakeWorker(w)
  BY <1>0, <1>4, <1>5, <1>7
<1> QED BY <1>6, <1>7

LEMMA ClientsStep ==
    ASSUME TypeOK, ClientsConsistent, [Next]_vars
    PROVE  ClientsConsistent'
<1> USE DEF taskVars, flags, resize
<1>1. CASE UNCHANGED vars
  BY <1>1 DEF vars, ClientsConsistent
<1>2. CASE \/ \E t \in Task : Submit(t)
           \/ \E w \in Worker : WorkerStep(w) \/ TaskDone(w) \/ QueryBegin(w)
                               \/ SpuriousWakeWorker(w)
  BY <1>2, WorkersKeepClients DEF ClientsConsistent, TypeOK, Waits
<1>3. ASSUME NEW c \in Client, ClientCall(c)
      PROVE  ClientsConsistent'
  <2>1. CASE ClearTaskQueue(c) \/ Pause(c) \/ Unpause(c)
    BY <2>1 DEF ClearTaskQueue, Pause, Unpause, ClientsConsistent
  <2>2. CASE \E o \in Waits : CallWait(c, o)
    BY <2>2 DEF CallWait, MayCall, Waits, ClientsConsistent, TypeOK, Waits
  <2>3. ASSUME NEW n \in Sizes, SetNumThreads(c, n)
        PROVE  ClientsConsistent'
    <3>1. \E a \in {"start", "stop"} : cpc' = [cpc EXCEPT ![c] = a]
      BY <2>3 DEF SetNumThreads
    <3>2. op' = [op EXCEPT ![c] = "set_num_threads"]
      BY <2>3 DEF SetNumThreads
    <3>3. \A d \in Client : op[d] # "destroy"
      BY <2>3 DEF SetNumThreads, MayCall
    <3> QED BY <3>1, <3>2, <3>3 DEF ClientsConsistent, TypeOK, Waits
  <2>4. CASE Destroy(c)
    BY <2>4 DEF Destroy, MayCall, ClientsConsistent, TypeOK, Waits
  <2> QED BY <1>3, <2>1, <2>2, <2>3, <2>4 DEF ClientCall
<1>4. ASSUME NEW c \in Client, ClientStep(c) \/ SpuriousWakeClient(c)
      PROVE  ClientsConsistent'
  <2>1. CASE WaitBlock(c) \/ SpuriousWakeClient(c)
    BY <2>1 DEF WaitBlock, SpuriousWakeClient, ClientsConsistent, TypeOK, Waits,
                Waits
  <2>2. CASE WaitReturn(c)
    <3>1. CASE op[c] = "destroy"
      BY <2>2, <3>1 DEF WaitReturn, ClientsConsistent, TypeOK, Waits
    <3>2. CASE op[c] # "destroy"
      BY <2>2, <3>2 DEF WaitReturn, ClientsConsistent, TypeOK, Waits
    <3> QED BY <3>1, <3>2
  <2>3. CASE SignalStop(c) \/ Restart(c) \/ StartThread(c)
    BY <2>3 DEF SignalStop, Restart, StartThread, ClientsConsistent, TypeOK, Waits
  <2>4. CASE JoinAll(c)
    <3>1. CASE op[c] = "destroy"
      BY <2>4, <3>1 DEF JoinAll, ClearThreads, ClientsConsistent, TypeOK, Waits
    <3>2. CASE op[c] # "destroy"
      BY <2>4, <3>2 DEF JoinAll, ClearThreads, ClientsConsistent, TypeOK, Waits
    <3> QED BY <3>1, <3>2
  <2>5. CASE SetNumThreadsReturn(c)
    BY <2>5 DEF SetNumThreadsReturn, ClientsConsistent, TypeOK, Waits
  <2> QED BY <1>4, <2>1, <2>2, <2>3, <2>4, <2>5 DEF ClientStep
<1> QED BY <1>1, <1>2, <1>3, <1>4 DEF Next

LEMMA MutexStep ==
    ASSUME TypeOK, ClientsConsistent, ClientsConsistent', MutexHeld, [Next]_vars
    PROVE  MutexHeld'
<1> USE DEF taskVars, flags, resize
<1>0. NoClient \notin Client
  BY PoolAssumption DEF PoolAssumption
<1>1. CASE UNCHANGED vars
  BY <1>1 DEF vars, MutexHeld
<1>2. CASE \/ \E t \in Task : Submit(t)
           \/ \E w \in Worker : WorkerStep(w) \/ TaskDone(w) \/ QueryBegin(w)
                               \/ SpuriousWakeWorker(w)
  BY <1>2, WorkersKeepClients DEF MutexHeld
<1>3. ASSUME NEW c \in Client, ClientCall(c)
      PROVE  MutexHeld'
  <2>1. CASE ClearTaskQueue(c) \/ Pause(c) \/ Unpause(c)
    BY <2>1 DEF ClearTaskQueue, Pause, Unpause, MutexHeld
  <2>2. CASE \E o \in Waits : CallWait(c, o)
    BY <2>2 DEF CallWait, MayCall, Waits, ClientsConsistent, TypeOK, Waits, MutexHeld
  <2>3. ASSUME NEW n \in Sizes, SetNumThreads(c, n)
        PROVE  MutexHeld'
    <3>1. \E a \in {"start", "stop"} : cpc' = [cpc EXCEPT ![c] = a]
      BY <2>3 DEF SetNumThreads
    <3>2. /\ op' = [op EXCEPT ![c] = "set_num_threads"]
          /\ thread_mutex = NoClient /\ thread_mutex' = c
      BY <2>3 DEF SetNumThreads
    <3> QED BY <1>0, <3>1, <3>2 DEF MutexHeld, TypeOK
  <2>4. CASE Destroy(c)
    BY <2>4 DEF Destroy, MayCall, MutexHeld, ClientsConsistent, TypeOK, Waits
  <2> QED BY <1>3, <2>1, <2>2, <2>3, <2>4 DEF ClientCall
<1>4. ASSUME NEW c \in Client, ClientStep(c) \/ SpuriousWakeClient(c)
      PROVE  MutexHeld'
  <2>1. CASE WaitBlock(c) \/ SpuriousWakeClient(c)
    BY <2>1 DEF WaitBlock, SpuriousWakeClient, MutexHeld, TypeOK
  <2>2. CASE WaitReturn(c)
    <3>1. CASE op[c] = "destroy"
      BY <2>2, <3>1 DEF WaitReturn, MutexHeld, TypeOK
    <3>2. CASE op[c] # "destroy"
      BY <2>2, <3>2 DEF WaitReturn, MutexHeld, TypeOK
    <3> QED BY <3>1, <3>2
  <2>3. CASE SignalStop(c)
    BY <1>0, <2>3 DEF SignalStop, MutexHeld, TypeOK
  <2>4. CASE Restart(c) \/ StartThread(c)
    BY <1>0, <2>4 DEF Restart, StartThread, MutexHeld, TypeOK
  <2>5. CASE JoinAll(c)
    <3>1. CASE op[c] = "destroy"
      <4>1. \A d \in Client \ {c} : op[d] = "none" /\ cpc[d] = "idle"
        BY <3>1 DEF ClientsConsistent, TypeOK, Waits
      <4>2. /\ cpc' = [cpc EXCEPT ![c] = "dead"] /\ op' = op
            /\ thread_mutex' = NoClient
        BY <2>5, <3>1 DEF JoinAll, ClearThreads
      <4> QED BY <1>0, <3>1, <4>1, <4>2 DEF MutexHeld, TypeOK
    <3>2. CASE op[c] # "destroy"
      BY <2>5, <3>2 DEF JoinAll, ClearThreads, MutexHeld, TypeOK
    <3> QED BY <3>1, <3>2
  <2>6. CASE SetNumThreadsReturn(c)
    <3>1. thread_mutex = c
      BY <2>6 DEF SetNumThreadsReturn, MutexHeld, ClientsConsistent, TypeOK, Waits
    <3> QED BY <1>0, <2>6, <3>1 DEF SetNumThreadsReturn, MutexHeld, TypeOK
  <2> QED BY <1>4, <2>1, <2>2, <2>3, <2>4, <2>5, <2>6 DEF ClientStep
<1> QED BY <1>1, <1>2, <1>3, <1>4 DEF Next

\* Two clients are never both inside a resize or a destruction.
LEMMA OneResizer ==
    ASSUME TypeOK, ClientsConsistent, MutexHeld, NEW c \in Client, NEW d \in Client,
           cpc[c] \in {"stop", "join", "restart", "start"},
           cpc[d] \in {"stop", "join", "restart", "start", "dead"}
    PROVE  c = d
<1>1. op[c] \in {"set_num_threads", "destroy"}
  BY DEF TypeOK, ClientsConsistent
<1>2. op[d] \in {"set_num_threads", "destroy"}
  BY DEF TypeOK, ClientsConsistent
<1>3. CASE op[c] = "set_num_threads" /\ op[d] = "set_num_threads"
  BY <1>3 DEF MutexHeld
<1>4. CASE op[c] = "destroy" \/ op[d] = "destroy"
  BY <1>1, <1>2, <1>4 DEF ClientsConsistent
<1> QED BY <1>1, <1>2, <1>3, <1>4

LEMMA RunningStep ==
    ASSUME TypeOK, TypeOK', ClientsConsistent, MutexHeld, RunningFlag,
           ThreadCount, [Next]_vars
    PROVE  RunningFlag'
<1> USE DEF taskVars, flags, resize
<1> DEFINE Stopped(c) == cpc[c] \in {"join", "restart", "dead"}
<1>1. CASE UNCHANGED vars
  BY <1>1 DEF vars, RunningFlag, AtWorker
<1>2. ASSUME NEW t \in Task, Submit(t)
      PROVE  RunningFlag'
  <2>1. pool_running' = pool_running /\ cpc' = cpc
    BY <1>2 DEF Submit
  <2>2. NotifyOneWorker
    BY <1>2 DEF Submit
  <2> QED BY <2>1, <2>2, NotifyKeepsCounts DEF RunningFlag, AtWorker, TypeOK
<1>3. ASSUME NEW c \in Client, ClientCall(c)
      PROVE  RunningFlag'
  <2>1. op[c] = "none" /\ cpc[c] = "idle"
    BY <1>3 DEF ClientCall, ClearTaskQueue, Pause, Unpause, CallWait,
                SetNumThreads, Destroy, MayCall, ClientsConsistent
  <2>2. pool_running' = pool_running
    BY <1>3 DEF ClientCall, ClearTaskQueue, Pause, Unpause, CallWait,
                SetNumThreads, Destroy
  <2>3. \E a \in {"idle", "enter", "stop", "start"} : cpc' = [cpc EXCEPT ![c] = a]
    BY <1>3, <2>1 DEF ClientCall, ClearTaskQueue, Pause, Unpause, CallWait,
                      SetNumThreads, Destroy, TypeOK
  <2>4. \A d \in Client : Stopped(d)' <=> Stopped(d)
    BY <2>1, <2>3 DEF TypeOK
  <2>5. UNCHANGED wpc \/ NotifyAllWorkers
    BY <1>3 DEF ClientCall, ClearTaskQueue, Pause, Unpause, CallWait,
                SetNumThreads, Destroy
  <2> QED BY <2>2, <2>4, <2>5, NotifyKeepsCounts DEF RunningFlag, AtWorker, TypeOK
<1>4. ASSUME NEW c \in Client, ClientStep(c) \/ SpuriousWakeClient(c)
      PROVE  RunningFlag'
  <2>1. CASE WaitBlock(c) \/ WaitReturn(c) \/ SetNumThreadsReturn(c)
             \/ SpuriousWakeClient(c)
    <3>1. cpc[c] \in {"enter", "asleep", "woken", "start"}
      BY <2>1 DEF WaitBlock, WaitReturn, SetNumThreadsReturn, SpuriousWakeClient
    <3>2. \E a \in {"idle", "asleep", "woken", "stop"} : cpc' = [cpc EXCEPT ![c] = a]
      BY <2>1 DEF WaitBlock, WaitReturn, SetNumThreadsReturn, SpuriousWakeClient
    <3>3. \A d \in Client : Stopped(d)' <=> Stopped(d)
      BY <3>1, <3>2 DEF TypeOK
    <3>4. UNCHANGED <<wpc, pool_running>>
      BY <2>1 DEF WaitBlock, WaitReturn, SetNumThreadsReturn, SpuriousWakeClient
    <3> QED BY <3>3, <3>4 DEF RunningFlag, AtWorker
  <2>2. CASE SignalStop(c)
    <3>1. Stopped(c)' /\ ~pool_running'
      BY <2>2 DEF SignalStop, TypeOK
    <3>2. AtWorker({"asleep"})' = {}
      BY <2>2 DEF SignalStop, NotifyAllWorkers, AtWorker, TypeOK
    <3> QED BY <3>1, <3>2 DEF RunningFlag
  <2>3. CASE JoinAll(c)
    <3>1. Stopped(c) /\ Stopped(c)' /\ UNCHANGED pool_running
      BY <2>3 DEF JoinAll, ClearThreads, TypeOK
    <3>2. AtWorker({"asleep"})' = {}
      BY <2>3 DEF JoinAll, ClearThreads, AtWorker
    <3> QED BY <3>1, <3>2 DEF RunningFlag
  <2>4. CASE Restart(c)
    <3>1. pool_running' /\ UNCHANGED wpc /\ cpc' = [cpc EXCEPT ![c] = "start"]
      BY <2>4 DEF Restart
    <3>2. \A d \in Client : d # c => ~Stopped(d)
      BY <2>4, OneResizer DEF Restart
    <3>3. \A d \in Client : ~Stopped(d)'
      BY <3>1, <3>2 DEF TypeOK
    <3>4. threads = {}
      BY <2>4 DEF Restart, ThreadCount
    <3>5. AtWorker({"exited"})' = {}
      BY <3>1, <3>4 DEF AtWorker, threads
    <3> QED BY <3>1, <3>3, <3>5 DEF RunningFlag
  <2>5. CASE StartThread(c)
    BY <2>5 DEF StartThread, RunningFlag, AtWorker, TypeOK
  <2> QED BY <1>4, <2>1, <2>2, <2>3, <2>4, <2>5 DEF ClientStep
<1>5. ASSUME NEW w \in Worker,
             WorkerStep(w) \/ TaskDone(w) \/ QueryBegin(w) \/ SpuriousWakeWorker(w)
      PROVE  RunningFlag'
  <2>1. UNCHANGED pool_running /\ \A d \in Client : Stopped(d)' <=> Stopped(d)
    BY <1>5, WorkersKeepClients
  <2>2. \E a \in WorkerPC :
            /\ wpc' = [wpc EXCEPT ![w] = a]
            /\ a = "asleep" => pool_running
            /\ a = "exited" => ~pool_running
    BY <1>5 DEF WorkerStep, WorkerSleep, WorkerExit, WorkerTake, QueryEnd, TaskDone,
                QueryBegin, SpuriousWakeWorker, WorkerPC
  <2> QED BY <2>1, <2>2 DEF RunningFlag, AtWorker, TypeOK
<1> QED BY <1>1, <1>2, <1>3, <1>4, <1>5 DEF Next

\* Only a resize and the destructor change which threads there are.
LEMMA WorkersKeepThreads ==
    ASSUME TypeOK, NEW w \in Worker,
           WorkerStep(w) \/ TaskDone(w) \/ QueryBegin(w) \/ SpuriousWakeWorker(w)
    PROVE  threads' = threads
<1>1. wpc[w] # "none" /\ \E a \in WorkerPC \ {"none"} : wpc' = [wpc EXCEPT ![w] = a]
  BY DEF WorkerStep, WorkerSleep, WorkerExit, WorkerTake, QueryEnd, TaskDone,
         QueryBegin, SpuriousWakeWorker, AtPredicate, TaskMayCall, WorkerPC
<1> QED BY <1>1 DEF threads, TypeOK

LEMMA ThreadCountStep ==
    ASSUME TypeOK, TypeOK', ClientsConsistent, MutexHeld, ThreadCount, [Next]_vars
    PROVE  ThreadCount'
<1> USE DEF taskVars, flags, resize
<1>0. Cardinality(threads) \in Nat
  BY ThreadsFinite
<1>1. CASE UNCHANGED vars
  BY <1>1 DEF vars, ThreadCount, threads
<1>2. CASE \E t \in Task : Submit(t)
  <2>1. threads' = threads /\ UNCHANGED <<op, cpc, requested, to_start>>
    BY <1>2, NotifyKeepsCounts DEF Submit, TypeOK
  <2> QED BY <2>1 DEF ThreadCount
<1>3. ASSUME NEW c \in Client, ClientCall(c)
      PROVE  ThreadCount'
  <2>1. op[c] = "none" /\ cpc[c] = "idle"
    BY <1>3 DEF ClientCall, ClearTaskQueue, Pause, Unpause, CallWait,
                SetNumThreads, Destroy, MayCall, ClientsConsistent
  <2>2. threads' = threads
    <3>1. UNCHANGED wpc \/ NotifyAllWorkers
      BY <1>3 DEF ClientCall, ClearTaskQueue, Pause, Unpause, CallWait,
                  SetNumThreads, Destroy
    <3> QED BY <3>1, NotifyKeepsCounts DEF threads, TypeOK
  <2>3. CASE ClearTaskQueue(c) \/ Pause(c) \/ Unpause(c)
    BY <2>2, <2>3 DEF ClearTaskQueue, Pause, Unpause, ThreadCount
  <2>4. CASE Destroy(c) \/ \E o \in Waits : CallWait(c, o)
    <3>1. /\ UNCHANGED <<requested, to_start>>
          /\ cpc' = [cpc EXCEPT ![c] = "enter"]
          /\ \E o \in Waits \union {"destroy"} : op' = [op EXCEPT ![c] = o]
      BY <2>4 DEF Destroy, CallWait
    <3> QED BY <2>1, <2>2, <3>1 DEF ThreadCount, TypeOK, Waits
  <2>5. ASSUME NEW n \in Sizes, SetNumThreads(c, n)
        PROVE  ThreadCount'
    <3>1. requested' \in Nat /\ requested' > 0
      BY <2>5, NumThreadsPositive, PoolAssumption DEF PoolAssumption, SetNumThreads
    <3>2. \A d \in Client \ {c} : op[d] # "set_num_threads"
      BY <2>5, PoolAssumption DEF PoolAssumption, SetNumThreads, MutexHeld
    <3>3. op' = [op EXCEPT ![c] = "set_num_threads"]
      BY <2>5 DEF SetNumThreads
    <3>4. CASE Cardinality(threads) <= requested'
      <4>1. /\ to_start' = requested' - Cardinality(threads)
            /\ cpc' = [cpc EXCEPT ![c] = "start"]
        BY <2>5, <3>4 DEF SetNumThreads
      <4> QED BY <1>0, <2>1, <2>2, <3>1, <3>2, <3>3, <4>1 DEF ThreadCount, TypeOK
    <3>5. CASE ~(Cardinality(threads) <= requested')
      <4>1. to_start' = requested' /\ cpc' = [cpc EXCEPT ![c] = "stop"]
        BY <2>5, <3>5 DEF SetNumThreads
      <4> QED BY <2>1, <2>2, <3>1, <3>2, <3>3, <4>1 DEF ThreadCount, TypeOK
    <3> QED BY <3>4, <3>5
  <2> QED BY <1>3, <2>3, <2>4, <2>5 DEF ClientCall
<1>4. ASSUME NEW c \in Client, ClientStep(c) \/ SpuriousWakeClient(c)
      PROVE  ThreadCount'
  <2>1. CASE WaitBlock(c) \/ WaitReturn(c) \/ SpuriousWakeClient(c)
    <3>1. /\ cpc[c] \in {"enter", "asleep", "woken"}
          /\ \E a \in {"idle", "asleep", "woken", "stop"} : cpc' = [cpc EXCEPT ![c] = a]
          /\ op' = op \/ op' = [op EXCEPT ![c] = "none"]
          /\ UNCHANGED <<requested, to_start, wpc>>
      BY <2>1 DEF WaitBlock, WaitReturn, SpuriousWakeClient
    <3>2. threads' = threads
      BY <3>1 DEF threads
    <3>3. op[c] # "set_num_threads"
      BY <3>1 DEF ClientsConsistent
    <3> QED BY <3>1, <3>2, <3>3 DEF ThreadCount, TypeOK
  <2>2. CASE SignalStop(c)
    <3>1. /\ cpc[c] = "stop" /\ cpc' = [cpc EXCEPT ![c] = "join"]
          /\ UNCHANGED <<op, requested, to_start>>
      BY <2>2 DEF SignalStop
    <3>2. threads' = threads
      BY <2>2, NotifyKeepsCounts DEF SignalStop, TypeOK
    <3> QED BY <3>1, <3>2 DEF ThreadCount, TypeOK
  <2>3. CASE JoinAll(c)
    <3>1. threads' = {}
      BY <2>3 DEF JoinAll, ClearThreads, threads
    <3>2. /\ cpc[c] = "join"
          /\ \E a \in {"restart", "dead"} : cpc' = [cpc EXCEPT ![c] = a]
          /\ UNCHANGED <<op, requested, to_start>>
      BY <2>3 DEF JoinAll, ClearThreads
    <3>3. \A d \in Client : cpc[d] \in {"stop", "join", "restart", "start"} => d = c
      BY <3>2, OneResizer
    <3>4. \A d \in Client \ {c} : cpc[d] # "start" /\ op[d] # "set_num_threads"
      BY <3>3 DEF ClientsConsistent
    <3> QED BY <3>1, <3>2, <3>4 DEF ThreadCount, TypeOK
  <2>4. CASE Restart(c)
    <3>1. /\ cpc[c] = "restart" /\ cpc' = [cpc EXCEPT ![c] = "start"]
          /\ UNCHANGED <<op, requested, to_start, wpc>>
      BY <2>4 DEF Restart
    <3>2. threads = {} /\ threads' = {}
      BY <3>1 DEF ThreadCount, threads
    <3>3. Cardinality(threads') = 0
      BY <3>2, FS_EmptySet
    <3> QED BY <3>1, <3>2, <3>3 DEF ThreadCount, TypeOK
  <2>5. CASE StartThread(c)
    <3>1. PICK w \in Worker \ threads : wpc' = [wpc EXCEPT ![w] = "fresh"]
      BY <2>5 DEF StartThread
    <3>2. threads' = threads \union {w} /\ w \notin threads
      BY <3>1 DEF threads, TypeOK
    <3>3. Cardinality(threads') = Cardinality(threads) + 1
      BY <3>2, ThreadsFinite, FS_AddElement
    <3>4. /\ cpc[c] = "start" /\ UNCHANGED <<op, cpc, requested>>
          /\ to_start' = to_start - 1
      BY <2>5 DEF StartThread
    <3>5. \A d \in Client : cpc[d] \in {"stop", "join", "restart", "start", "dead"} => d = c
      BY <3>4, OneResizer
    <3>6. \A d \in Client \ {c} : op[d] # "set_num_threads"
      BY <3>5 DEF ClientsConsistent
    <3>7. to_start \in Nat /\ requested \in Nat
      BY DEF TypeOK
    <3> QED BY <1>0, <3>2, <3>3, <3>4, <3>5, <3>6, <3>7 DEF ThreadCount
  <2>6. CASE SetNumThreadsReturn(c)
    <3>1. /\ cpc[c] = "start" /\ cpc' = [cpc EXCEPT ![c] = "idle"]
          /\ op' = [op EXCEPT ![c] = "none"]
          /\ to_start = 0
          /\ UNCHANGED <<requested, to_start, wpc>>
      BY <2>6 DEF SetNumThreadsReturn
    <3>2. op[c] = "set_num_threads"
      BY <3>1 DEF ClientsConsistent, TypeOK
    <3>3. Cardinality(threads) > 0
      BY <1>0, <3>1, <3>2 DEF ThreadCount, TypeOK
    <3>4. threads # {} /\ threads' = threads
      BY <3>1, <3>3, FS_EmptySet DEF threads
    <3> QED BY <3>1, <3>4 DEF ThreadCount, TypeOK
  <2> QED BY <1>4, <2>1, <2>2, <2>3, <2>4, <2>5, <2>6 DEF ClientStep
<1>5. ASSUME NEW w \in Worker,
             WorkerStep(w) \/ TaskDone(w) \/ QueryBegin(w) \/ SpuriousWakeWorker(w)
      PROVE  ThreadCount'
  <2>1. threads' = threads
    BY <1>5, WorkersKeepThreads
  <2>2. /\ UNCHANGED <<op, requested, to_start>>
        /\ \A d \in Client : \/ cpc'[d] = cpc[d]
                             \/ cpc[d] = "asleep" /\ cpc'[d] = "woken"
    BY <1>5, WorkersKeepClients
  <2> QED BY <2>1, <2>2 DEF ThreadCount
<1> QED BY <1>1, <1>2, <1>3, <1>4, <1>5 DEF Next

-----------------------------------------------------------------------------
(* The queue, the futures and the workers.                                 *)

\* A step that neither moves a task nor starts or ends one keeps the tasks
\* consistent, whatever it wakes or starts.
LEMMA TasksUntouched ==
    ASSUME TasksConsistent,
           UNCHANGED <<tasks, status, current>>,
           \A w \in Worker : wpc[w] \in {"running", "query"}
                             <=> wpc'[w] \in {"running", "query"}
    PROVE  TasksConsistent'
BY DEF TasksConsistent

\* Emptying the queue keeps them consistent too.
LEMMA TasksDropped ==
    ASSUME TypeOK, TasksConsistent, DropQueue, UNCHANGED current,
           \A w \in Worker : wpc[w] \in {"running", "query"}
                             <=> wpc'[w] \in {"running", "query"}
    PROVE  TasksConsistent'
<1>1. tasks' = <<>> /\ \A t \in Task : status[t] = "running" <=> status'[t] = "running"
  BY DEF DropQueue, TypeOK
<1>2. Len(tasks') = 0
  BY <1>1
<1> QED BY <1>1, <1>2 DEF TasksConsistent

LEMMA TasksStep ==
    ASSUME TypeOK, TypeOK', TasksConsistent, [Next]_vars
    PROVE  TasksConsistent'
<1> USE DEF taskVars, flags, resize
<1> DEFINE Busy(w) == wpc[w] \in {"running", "query"}
<1>0. /\ tasks \in Seq(Task) /\ status \in [Task -> Status]
      /\ current \in [Worker -> Task \union {NoTask}]
      /\ wpc \in [Worker -> WorkerPC] /\ NoTask \notin Task
  BY PoolAssumption DEF PoolAssumption, TypeOK
<1>1. CASE UNCHANGED vars
  BY <1>1, TasksUntouched DEF vars
<1>2. ASSUME NEW t \in Task, Submit(t)
      PROVE  TasksConsistent'
  <2>1. /\ status[t] = "new" /\ tasks' = Append(tasks, t)
        /\ status' = [status EXCEPT ![t] = "queued"] /\ current' = current
    BY <1>2 DEF Submit
  <2>2. \A w \in Worker : Busy(w) <=> Busy(w)'
    BY <1>0, <1>2, NotifyKeepsCounts DEF Submit
  <2>3. \A i \in 1..Len(tasks) : tasks[i] # t /\ status[tasks[i]] = "queued"
    BY <2>1 DEF TasksConsistent
  <2>4. /\ Len(tasks') = Len(tasks) + 1
        /\ \A i \in 1..Len(tasks') : IF i <= Len(tasks) THEN tasks'[i] = tasks[i]
                                                        ELSE tasks'[i] = t
    BY <1>0, <2>1
  <2>5. \A i \in 1..Len(tasks') : status'[tasks'[i]] = "queued"
    BY <1>0, <2>1, <2>3, <2>4
  <2>6. \A i, j \in 1..Len(tasks') : tasks'[i] = tasks'[j] => i = j
    BY <1>0, <2>3, <2>4 DEF TasksConsistent
  <2>7. \A s \in Task : status[s] = "running" <=> status'[s] = "running"
    BY <1>0, <2>1
  <2> QED BY <1>0, <2>1, <2>2, <2>5, <2>6, <2>7 DEF TasksConsistent
<1>3. ASSUME NEW c \in Client, ClientCall(c)
      PROVE  TasksConsistent'
  <2>1. \A w \in Worker : Busy(w) <=> Busy(w)'
    <3>1. UNCHANGED wpc \/ NotifyAllWorkers
      BY <1>3 DEF ClientCall, ClearTaskQueue, Pause, Unpause, CallWait,
                  SetNumThreads, Destroy
    <3> QED BY <1>0, <3>1, NotifyKeepsCounts
  <2>2. CASE ClearTaskQueue(c)
    BY <2>1, <2>2, TasksDropped DEF ClearTaskQueue
  <2>3. CASE ~ClearTaskQueue(c)
    <3>1. UNCHANGED <<tasks, status, current>>
      BY <1>3, <2>3 DEF ClientCall, Pause, Unpause, CallWait, SetNumThreads, Destroy
    <3> QED BY <2>1, <3>1, TasksUntouched
  <2> QED BY <2>2, <2>3
<1>4. ASSUME NEW c \in Client, ClientStep(c) \/ SpuriousWakeClient(c)
      PROVE  TasksConsistent'
  <2>1. CASE WaitBlock(c) \/ WaitReturn(c) \/ Restart(c) \/ SetNumThreadsReturn(c)
             \/ SpuriousWakeClient(c)
    <3>1. UNCHANGED <<tasks, status, current, wpc>>
      BY <2>1 DEF WaitBlock, WaitReturn, Restart, SetNumThreadsReturn,
                  SpuriousWakeClient
    <3> QED BY <3>1, TasksUntouched
  <2>2. CASE SignalStop(c)
    <3>1. UNCHANGED <<tasks, status, current>> /\ NotifyAllWorkers
      BY <2>2 DEF SignalStop
    <3>2. \A w \in Worker : Busy(w) <=> Busy(w)'
      BY <1>0, <3>1, NotifyKeepsCounts
    <3> QED BY <3>1, <3>2, TasksUntouched
  <2>3. CASE JoinAll(c)
    <3>1. UNCHANGED current /\ \A w \in Worker : Busy(w) <=> Busy(w)'
      BY <1>0, <2>3 DEF JoinAll, ClearThreads, threads
    <3>2. DropQueue \/ UNCHANGED <<tasks, status>>
      BY <2>3 DEF JoinAll, ClearThreads
    <3> QED BY <3>1, <3>2, TasksDropped, TasksUntouched
  <2>4. CASE StartThread(c)
    <3>1. UNCHANGED <<tasks, status, current>>
      BY <2>4 DEF StartThread
    <3>2. \A w \in Worker : Busy(w) <=> Busy(w)'
      BY <1>0, <2>4 DEF StartThread, threads
    <3> QED BY <3>1, <3>2, TasksUntouched
  <2> QED BY <1>4, <2>1, <2>2, <2>3, <2>4 DEF ClientStep
<1>5. ASSUME NEW w \in Worker,
             WorkerStep(w) \/ TaskDone(w) \/ QueryBegin(w) \/ SpuriousWakeWorker(w)
      PROVE  TasksConsistent'
  <2>1. CASE WorkerSleep(w) \/ WorkerExit(w) \/ QueryEnd(w) \/ QueryBegin(w)
             \/ SpuriousWakeWorker(w)
    <3>1. UNCHANGED <<tasks, status, current>>
      BY <2>1 DEF WorkerSleep, WorkerExit, QueryEnd, QueryBegin, SpuriousWakeWorker
    <3>2. \A v \in Worker : Busy(v) <=> Busy(v)'
      BY <1>0, <2>1 DEF WorkerSleep, WorkerExit, QueryEnd, QueryBegin,
                        SpuriousWakeWorker, AtPredicate, TaskMayCall
    <3> QED BY <3>1, <3>2, TasksUntouched
  <2>2. CASE WorkerTake(w)
    <3> DEFINE h == Head(tasks)
    <3>1. /\ tasks # <<>> /\ tasks' = Tail(tasks)
          /\ wpc[w] \in Movers /\ wpc' = [wpc EXCEPT ![w] = "running"]
          /\ current' = [current EXCEPT ![w] = h]
          /\ status' = [status EXCEPT ![h] = "running"]
      BY <2>2 DEF WorkerTake, AtPredicate, Movers
    <3>2. /\ h \in Task /\ h = tasks[1] /\ status[h] = "queued"
          /\ Len(tasks') = Len(tasks) - 1 /\ Len(tasks) > 0
          /\ \A i \in 1..Len(tasks') : tasks'[i] = tasks[i + 1]
      BY <1>0, <3>1 DEF TasksConsistent
    <3>3. \A i \in 1..Len(tasks') : /\ i + 1 \in 1..Len(tasks)
                                    /\ tasks'[i] # h
      BY <1>0, <3>2 DEF TasksConsistent
    <3>4. \A i \in 1..Len(tasks') : status'[tasks'[i]] = "queued"
      BY <1>0, <3>1, <3>2, <3>3 DEF TasksConsistent
    <3>5. \A i, j \in 1..Len(tasks') : tasks'[i] = tasks'[j] => i = j
      BY SMTT(30), <1>0, <3>2, <3>3 DEF TasksConsistent
    <3>6. \A v \in Worker : current[v] # h
      BY <1>0, <3>2 DEF TasksConsistent
    <3>7. \A v \in Worker : IF Busy(v)'
                            THEN current'[v] \in Task /\ status'[current'[v]] = "running"
                            ELSE current'[v] = NoTask
      BY <1>0, <3>1, <3>2, <3>6 DEF TasksConsistent
    <3>8. \A u, v \in Worker : current'[u] = current'[v] /\ current'[u] # NoTask => u = v
      BY <1>0, <3>1, <3>6 DEF TasksConsistent
    <3>9. current[w] = NoTask
      BY <1>0, <3>1 DEF TasksConsistent, Movers
    <3>10. \A t \in Task : status'[t] = "running" => \E v \in Worker : current'[v] = t
      BY <1>0, <3>1, <3>2, <3>9 DEF TasksConsistent
    <3> QED BY <3>4, <3>5, <3>7, <3>8, <3>10 DEF TasksConsistent
  <2>3. CASE TaskDone(w)
    <3> DEFINE k == current[w]
    <3>1. /\ tasks' = tasks /\ wpc[w] = "running"
          /\ wpc' = [wpc EXCEPT ![w] = "finished"]
          /\ current' = [current EXCEPT ![w] = NoTask]
          /\ status' = [status EXCEPT ![k] = "done"]
      BY <2>3 DEF TaskDone
    <3>2. k \in Task /\ status[k] = "running"
      BY <3>1 DEF TasksConsistent
    <3>3. \A v \in Worker : v # w => current[v] # k
      BY <1>0, <3>2 DEF TasksConsistent
    <3>4. \A i \in 1..Len(tasks') : status'[tasks'[i]] = "queued"
      BY <1>0, <3>1, <3>2 DEF TasksConsistent
    <3>5. \A v \in Worker : IF Busy(v)'
                            THEN current'[v] \in Task /\ status'[current'[v]] = "running"
                            ELSE current'[v] = NoTask
      BY <1>0, <3>1, <3>2, <3>3 DEF TasksConsistent
    <3>6. \A u, v \in Worker : current'[u] = current'[v] /\ current'[u] # NoTask => u = v
      BY <1>0, <3>1 DEF TasksConsistent
    <3>7. \A t \in Task : status'[t] = "running" => \E v \in Worker : current'[v] = t
      BY <1>0, <3>1, <3>2 DEF TasksConsistent
    <3> QED BY <3>1, <3>4, <3>5, <3>6, <3>7 DEF TasksConsistent
  <2> QED BY <1>5, <2>1, <2>2, <2>3 DEF WorkerStep
<1> QED BY <1>1, <1>2, <1>3, <1>4, <1>5 DEF Next

-----------------------------------------------------------------------------
(* The invariant holds, and what follows from it.                          *)

LEMMA InitInv == Init => Inv
<1> SUFFICES ASSUME Init PROVE Inv
  OBVIOUS
<1>1. PICK W \in SUBSET Worker :
          /\ Cardinality(W) = NumThreads(InitThreads)
          /\ wpc = [w \in Worker |-> IF w \in W THEN "fresh" ELSE "none"]
  BY DEF Init
<1>2. threads = W /\ AtWorker({"asleep"}) = {} /\ AtWorker({"exited"}) = {}
      /\ Inflight = {}
  BY <1>1 DEF threads, AtWorker, Inflight
<1>3. TypeOK
  <2>1. wpc \in [Worker -> WorkerPC]
    BY <1>1 DEF WorkerPC
  <2>2. tasks \in Seq(Task) /\ status \in [Task -> Status]
    BY DEF Init, Status
  <2>3. cpc \in [Client -> ClientPC]
    BY DEF Init, ClientPC
  <2> QED BY <2>1, <2>2, <2>3 DEF Init, TypeOK
<1>4. InflightExact
  BY <1>2, FS_EmptySet DEF Init, InflightExact
<1>5. WorkConserving /\ RunningFlag
  BY <1>2 DEF Init, WorkConserving, RunningFlag
<1>6. MutexHeld
  BY PoolAssumption DEF PoolAssumption, Init, MutexHeld
<1>7. ThreadCount
  <2>1. threads # {}
    <3>1. Cardinality(threads) > 0
      BY <1>1, <1>2, NumThreadsPositive, PoolAssumption DEF PoolAssumption
    <3> QED BY <3>1, FS_EmptySet
  <2> QED BY <2>1 DEF Init, ThreadCount
<1>8. ClientsConsistent
  BY DEF Init, ClientsConsistent, Waits
<1>9. TasksConsistent
  BY <1>1 DEF Init, TasksConsistent
<1> QED BY <1>3, <1>4, <1>5, <1>6, <1>7, <1>8, <1>9 DEF Inv

LEMMA InvStep == Inv /\ [Next]_vars => Inv'
<1> SUFFICES ASSUME Inv, [Next]_vars PROVE Inv'
  OBVIOUS
<1>1. InflightExact' /\ TypeOK'
  BY CountStep, TypeStep DEF Inv
<1>2. WorkConserving' /\ ClientsConsistent'
  BY <1>1, ConserveStep, ClientsStep DEF Inv
<1>3. MutexHeld' /\ RunningFlag' /\ ThreadCount'
  BY <1>1, <1>2, MutexStep, RunningStep, ThreadCountStep DEF Inv
<1>4. TasksConsistent'
  BY <1>1, TasksStep DEF Inv
<1> QED BY <1>1, <1>2, <1>3, <1>4 DEF Inv

\* The inductive invariant: the flags, the counters, the queue, the futures,
\* the workers and the clients of the pool agree in every reachable state.
THEOREM Invariance == Spec => []Inv
BY InitInv, InvStep, PTL DEF Spec

\* Every variable keeps its type; num_inflight_tasks never goes negative.
THEOREM TypeCorrect == Spec => []TypeOK
<1>1. Inv => TypeOK
  BY DEF Inv
<1> QED BY <1>1, Invariance, PTL

\* num_inflight_tasks counts the popped tasks not yet accounted for.
THEOREM CountCorrect == Spec => []InflightExact
<1>1. Inv => InflightExact
  BY DEF Inv
<1> QED BY <1>1, Invariance, PTL

\* task_cv loses no wakeup: submit_detach's notify_one is enough.
THEOREM NoLostWakeup == Spec => []WorkConserving
<1>1. Inv => WorkConserving
  BY DEF Inv
<1> QED BY <1>1, Invariance, PTL

\* A pool at rest runs and has workers, a stopped one can be joined, a
\* destroyed one has no thread.
THEOREM LifecycleCorrect == Spec => []PoolLifecycle
<1>1. Inv => PoolLifecycle
  <2> SUFFICES ASSUME Inv PROVE PoolLifecycle
    OBVIOUS
  <2>1. ASSUME thread_mutex = NoClient, Open
        PROVE  pool_running /\ threads # {} /\ AtWorker({"exited"}) = {}
    <3>1. \A c \in Client : cpc[c] \notin {"join", "restart", "start", "dead"}
      <4>1. NoClient \notin Client
        BY PoolAssumption DEF PoolAssumption
      <4> QED BY <2>1, <4>1 DEF Inv, Open, MutexHeld, ClientsConsistent, TypeOK
    <3> QED BY <3>1 DEF Inv, RunningFlag, ThreadCount, TypeOK
  <2>2. ~pool_running => AtWorker({"asleep"}) = {}
    BY DEF Inv, RunningFlag
  <2>3. ~Open => threads = {}
    BY DEF Inv, ThreadCount, Open
  <2> QED BY <2>1, <2>2, <2>3 DEF PoolLifecycle
<1> QED BY <1>1, Invariance, PTL

\* A resize returns with as many threads as it was asked for.
THEOREM ResizeCorrect == Spec => []ResizeExact
<1>1. Inv => ResizeExact
  <2> SUFFICES ASSUME Inv, NEW c \in Client, cpc[c] = "start", to_start = 0
               PROVE  Cardinality(threads) = requested
    BY DEF ResizeExact
  <2>1. op[c] = "set_num_threads"
    BY DEF Inv, ClientsConsistent, TypeOK
  <2>2. Cardinality(threads) \in Nat
    BY ThreadsFinite
  <2> QED BY <2>1, <2>2 DEF Inv, ThreadCount
<1> QED BY <1>1, Invariance, PTL
=============================================================================
