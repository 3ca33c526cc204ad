-------------------------- MODULE QueueLeaseProofs ---------------------------
(***************************************************************************)
(* Proofs about TaskQueue, for every set of chats, every finite set of     *)
(* queue ids and every bound, and about ChannelLease, for any processes,   *)
(* loops, clocks, intervals and delays.                                    *)
(***************************************************************************)
EXTENDS TaskQueue, ChannelLease, FiniteSetTheorems, TLAPS

\* The semaphore counts the workers between acquire and release.
SlotInv == sem = Cardinality(Holders)

\* The map is injective, and its queues are open and have a goroutine.
MapInv ==
    /\ \A c, d \in Chats : chatQueues[c] # NoQueue /\ chatQueues[c] = chatQueues[d]
                             => c = d
    /\ \A c \in Chats : chatQueues[c] # NoQueue
         => ~closed[chatQueues[c]] /\ worker[chatQueues[c]] # "none"

\* The queue the router is about to send to is open, has a goroutine, and was
\* touched within idleTimeout unless the router is parked.
RouterInv ==
    router.pc = "send" =>
        /\ router.task \in Tasks
        /\ router.queue \in QueueIds
        /\ ~closed[router.queue]
        /\ worker[router.queue] # "none"
        /\ stale[router.queue] => Len(buf[router.queue]) = ChanCap

\* Tasks exist in the order of Queue.seq.
SeqInv == \A t \in Tasks : status[t] = "none" <=> t > seq

\* The task a worker holds, by its control point; no two hold the same.
HoldInv ==
    /\ \A q \in QueueIds :
         /\ worker[q] \in {"acquire", "start"}
              => wtask[q] \in Tasks /\ status[wtask[q]] = "pending"
         /\ worker[q] = "run"
              => wtask[q] \in Tasks /\ status[wtask[q]] = "running"
         /\ worker[q] \notin Busy => wtask[q] = NoTask
    /\ \A p, q \in QueueIds : wtask[p] = wtask[q] /\ wtask[p] # NoTask => p = q

\* A running task is in the hands of a worker that runs it.
RunInv ==
    \A t \in Tasks : status[t] = "running"
        => \E q \in QueueIds : worker[q] = "run" /\ wtask[q] = t

\* Buffered tasks are pending, in one place of one channel, and not held.
BufInv ==
    \A q \in QueueIds : \A i \in 1..Len(buf[q]) :
        /\ status[buf[q][i]] = "pending"
        /\ \A p \in QueueIds : wtask[p] # buf[q][i]
        /\ \A p \in QueueIds : \A j \in 1..Len(buf[p]) :
             buf[p][j] = buf[q][i] => p = q /\ j = i

\* So is the task in the router's hands.
HandInv ==
    router.pc = "send" =>
        /\ status[router.task] = "pending"
        /\ \A p \in QueueIds : wtask[p] # router.task
        /\ \A p \in QueueIds : \A j \in 1..Len(buf[p]) :
             buf[p][j] # router.task

IInv ==
    /\ TypeOK /\ SlotInv /\ MapInv /\ RouterInv /\ SeqInv
    /\ HoldInv /\ RunInv /\ BufInv /\ HandInv /\ BufferedHasWorker
-----------------------------------------------------------------------------
(* The types, given the invariant before the step.                         *)

\* The slot holders are finitely many, so they can be counted.
LEMMA HoldersFinite ==
    ASSUME TypeOK
    PROVE  IsFiniteSet(Holders) /\ Cardinality(Holders) \in Nat
<1>1. Holders \subseteq QueueIds
  BY DEF Holders
<1>2. IsFiniteSet(Holders)
  BY <1>1, TaskQueueAssumption, FS_Subset
<1>3. QED
  BY <1>2, FS_CardinalityType

\* The value for 'no task' is no task id.
LEMMA NoTaskNotTask == NoTask \notin Tasks
BY TaskQueueAssumption DEF Tasks

\* The initial states satisfy the invariant.
LEMMA InitIInv == Init => IInv
<1> SUFFICES ASSUME Init PROVE IInv
  OBVIOUS
<1> USE TaskQueueAssumption
<1>1. TypeOK
  <2>1. chatOf \in [Tasks -> Chats]
    BY DEF Init
  <2>2. seq \in 0..MaxTasks /\ sem \in 0..MaxConcurrent
    BY DEF Init
  <2>3. buf \in [QueueIds -> Seq(Tasks)]
    BY DEF Init
  <2>4. router \in [pc : {"idle", "send", "exited"}, task : Tasks \cup {NoTask},
                    queue : QueueIds \cup {NoQueue}]
    BY DEF Init, Idle
  <2>5. status \in [Tasks -> Status] /\ worker \in [QueueIds -> Pcs]
    BY DEF Init, Status, Pcs
  <2>6. QED
    BY <2>1, <2>2, <2>3, <2>4, <2>5 DEF Init, TypeOK
<1>2. SlotInv
  <2>1. Holders = {}
    BY DEF Init, Holders, Holding
  <2>2. QED
    BY <2>1, FS_EmptySet DEF SlotInv, Init
<1>3. MapInv /\ RouterInv
  BY DEF Init, MapInv, RouterInv, Idle
<1>4. SeqInv /\ RunInv
  BY DEF Init, SeqInv, RunInv, Tasks
<1>5. HoldInv /\ BufInv /\ HandInv /\ BufferedHasWorker
  BY DEF Init, HoldInv, BufInv, HandInv, BufferedHasWorker, Busy, Idle
<1>6. QED
  BY <1>1, <1>2, <1>3, <1>4, <1>5 DEF IInv

\* The record of a new task has its types.
LEMMA NewTaskTypes ==
    ASSUME IInv, NEW c \in Chats, NewTask(c)
    PROVE  /\ seq' \in 0..MaxTasks /\ table' \subseteq Tasks
           /\ status' \in [Tasks -> Status] /\ chatOf' \in [Tasks -> Chats]
           /\ seq + 1 \in Tasks /\ status[seq + 1] = "none"
BY TaskQueueAssumption DEF IInv, TypeOK, NewTask, Tasks, Status, Finished, SeqInv

\* Every step keeps the types.
LEMMA TypeStep == IInv /\ [Next]_vars => TypeOK'
<1> SUFFICES ASSUME IInv, [Next]_vars PROVE TypeOK'
  OBVIOUS
<1> USE TaskQueueAssumption DEF IInv, TypeOK, Pcs, Busy, Holding
<1>1. ASSUME NEW c \in Chats, SubmitExisting(c) PROVE TypeOK'
  BY <1>1, NewTaskTypes DEF SubmitExisting
<1>2. ASSUME NEW c \in Chats, NEW q \in QueueIds, SubmitFresh(c, q) PROVE TypeOK'
  BY <1>2, NewTaskTypes DEF SubmitFresh
<1>3. ASSUME SendTask PROVE TypeOK'
  <2>1. buf' \in [QueueIds -> Seq(Tasks)]
    <3>1. router.task \in Tasks /\ router.queue \in QueueIds
      BY <1>3 DEF SendTask, RouterInv
    <3>2. Append(buf[router.queue], router.task) \in Seq(Tasks)
      BY <3>1
    <3>3. QED
      BY <1>3, <3>2 DEF SendTask
  <2>2. QED
    BY <1>3, <2>1 DEF SendTask, taskVars, Idle
<1>4. ASSUME RouterExit PROVE TypeOK'
  BY <1>4 DEF RouterExit, taskVars, queueVars, Idle
<1>5. ASSUME NEW q \in QueueIds, WorkerReceive(q) PROVE TypeOK'
  <2>1. Head(buf[q]) \in Tasks /\ Tail(buf[q]) \in Seq(Tasks)
    BY <1>5 DEF WorkerReceive
  <2>2. buf' \in [QueueIds -> Seq(Tasks)]
    <3>1. CASE Parked(q)
      <4>1. router.task \in Tasks
        BY <3>1 DEF Parked, RouterInv
      <4>2. Append(Tail(buf[q]), router.task) \in Seq(Tasks)
        BY <2>1, <4>1
      <4>3. QED
        BY <1>5, <3>1, <4>2 DEF WorkerReceive
    <3>2. CASE ~Parked(q)
      BY <1>5, <2>1, <3>2 DEF WorkerReceive
    <3>3. QED
      BY <3>1, <3>2
  <2>3. wtask' \in [QueueIds -> Tasks \cup {NoTask}]
    BY <1>5, <2>1 DEF WorkerReceive
  <2>4. worker' \in [QueueIds -> Pcs]
    BY <1>5 DEF WorkerReceive
  <2>5. router' \in [pc : {"idle", "send", "exited"},
                     task : Tasks \cup {NoTask},
                     queue : QueueIds \cup {NoQueue}]
    BY <1>5 DEF WorkerReceive, Idle
  <2>6. QED
    BY <1>5, <2>2, <2>3, <2>4, <2>5 DEF WorkerReceive, taskVars
<1>6. ASSUME NEW q \in QueueIds, WorkerReturn(q) PROVE TypeOK'
  BY <1>6 DEF WorkerReturn, taskVars, queueVars
<1>7. ASSUME NEW q \in QueueIds, AcquireSlot(q) PROVE TypeOK'
  BY <1>7 DEF AcquireSlot, taskVars, queueVars
<1>8. ASSUME NEW q \in QueueIds, AbandonTask(q) PROVE TypeOK'
  BY <1>8 DEF AbandonTask, taskVars, queueVars
<1>9. ASSUME NEW q \in QueueIds, StartTask(q) PROVE TypeOK'
  BY <1>9 DEF StartTask, queueVars, Status
<1>10. ASSUME NEW q \in QueueIds, FinishTask(q) PROVE TypeOK'
  <2>1. PICK outcome \in Finished :
          status' = [status EXCEPT ![wtask[q]] = outcome]
    BY <1>10 DEF FinishTask
  <2>2. status' \in [Tasks -> Status]
    BY <2>1 DEF Status
  <2>3. QED
    BY <1>10, <2>2 DEF FinishTask, queueVars
<1>11. ASSUME NEW q \in QueueIds, ReleaseSlot(q) PROVE TypeOK'
  <2>1. q \in Holders
    BY <1>11 DEF ReleaseSlot, Holders
  <2>2. Cardinality(Holders) # 0
    BY <2>1, HoldersFinite, FS_EmptySet
  <2>3. sem - 1 \in 0..MaxConcurrent
    BY <2>2 DEF SlotInv
  <2>4. QED
    BY <1>11, <2>3 DEF ReleaseSlot, taskVars, queueVars
<1>12. ASSUME NEW q \in QueueIds, TouchQueue(q) PROVE TypeOK'
  BY <1>12 DEF TouchQueue, taskVars
<1>13. ASSUME NEW q \in QueueIds, Age(q) PROVE TypeOK'
  BY <1>13 DEF Age, taskVars
<1>14. ASSUME CleanupIdle PROVE TypeOK'
  <2>1. closed' \in [QueueIds -> BOOLEAN]
    BY <1>14 DEF CleanupIdle
  <2>2. chatQueues' \in [Chats -> QueueIds \cup {NoQueue}]
    BY <1>14 DEF CleanupIdle
  <2>3. reapedBusy' \in BOOLEAN
    BY <1>14 DEF CleanupIdle
  <2>4. QED
    BY <1>14, <2>1, <2>2, <2>3 DEF CleanupIdle, taskVars
<1>15. ASSUME PruneOldTasks PROVE TypeOK'
  BY <1>15 DEF PruneOldTasks, queueVars
<1>16. ASSUME Stop PROVE TypeOK'
  BY <1>16 DEF Stop, taskVars, queueVars
<1>17. ASSUME UNCHANGED vars PROVE TypeOK'
  BY <1>17 DEF vars
<1>18. QED
  BY <1>1, <1>2, <1>3, <1>4, <1>5, <1>6, <1>7, <1>8, <1>9, <1>10, <1>11,
     <1>12, <1>13, <1>14, <1>15, <1>16, <1>17 DEF Next, WorkerStep
-----------------------------------------------------------------------------
(* The slots of the semaphore.                                             *)

\* Every step keeps the semaphore equal to the number of holders.
LEMMA SlotStep == IInv /\ [Next]_vars => SlotInv'
<1> SUFFICES ASSUME IInv, [Next]_vars PROVE SlotInv'
  OBVIOUS
<1> USE TaskQueueAssumption DEF IInv, TypeOK
<1>0. IsFiniteSet(Holders)
  BY HoldersFinite
<1>1. ASSUME NEW q \in QueueIds, AcquireSlot(q) PROVE SlotInv'
  <2>1. Holders' = Holders \cup {q} /\ q \notin Holders
    BY <1>1 DEF AcquireSlot, Holders, Holding
  <2>2. Cardinality(Holders') = Cardinality(Holders) + 1
    BY <1>0, <2>1, FS_AddElement
  <2>3. QED
    BY <1>1, <2>2 DEF AcquireSlot, SlotInv
<1>2. ASSUME NEW q \in QueueIds, ReleaseSlot(q) PROVE SlotInv'
  <2>1. Holders' = Holders \ {q} /\ q \in Holders
    BY <1>2 DEF ReleaseSlot, Holders, Holding
  <2>2. Cardinality(Holders') = Cardinality(Holders) - 1
    BY <1>0, <2>1, FS_RemoveElement
  <2>3. QED
    BY <1>2, <2>2 DEF ReleaseSlot, SlotInv
<1>3. ASSUME UNCHANGED sem, Holders' = Holders PROVE SlotInv'
  BY <1>3 DEF SlotInv
<1>4. ASSUME NEW c \in Chats, NEW q \in QueueIds, SubmitFresh(c, q) PROVE SlotInv'
  BY <1>3, <1>4 DEF SubmitFresh, Holders, Holding
<1>5. ASSUME NEW c \in Chats, SubmitExisting(c) PROVE SlotInv'
  BY <1>3, <1>5 DEF SubmitExisting, Holders
<1>6. ASSUME NEW q \in QueueIds,
             \/ WorkerReceive(q) \/ WorkerReturn(q) \/ AbandonTask(q)
             \/ StartTask(q) \/ FinishTask(q) \/ TouchQueue(q)
      PROVE  SlotInv'
  <2>1. /\ UNCHANGED sem
        /\ worker' = [worker EXCEPT ![q] = worker'[q]]
        /\ worker[q] \in Holding <=> worker'[q] \in Holding
    BY <1>6 DEF WorkerReceive, WorkerReturn, AbandonTask, StartTask,
                FinishTask, TouchQueue, Holding
  <2>2. Holders' = Holders
    BY <2>1 DEF Holders
  <2>3. QED
    BY <1>3, <2>1, <2>2
<1>7. ASSUME \/ SendTask \/ RouterExit \/ CleanupIdle \/ PruneOldTasks \/ Stop
             \/ \E q \in QueueIds : Age(q)
             \/ UNCHANGED vars
      PROVE  SlotInv'
  BY <1>3, <1>7 DEF SendTask, RouterExit, CleanupIdle, PruneOldTasks, Stop, Age,
                    vars, Holders
<1>8. QED
  BY <1>1, <1>2, <1>4, <1>5, <1>6, <1>7 DEF Next, WorkerStep
-----------------------------------------------------------------------------
(* The map of chat queues and the router's target.                         *)

\* Every step keeps the map of open queues one-to-one.
LEMMA MapStep == IInv /\ [Next]_vars => MapInv'
<1> SUFFICES ASSUME IInv, [Next]_vars PROVE MapInv'
  OBVIOUS
<1> USE TaskQueueAssumption DEF IInv, TypeOK, MapInv
<1>1. ASSUME NEW c \in Chats, SubmitExisting(c) PROVE MapInv'
  BY <1>1 DEF SubmitExisting
<1>2. ASSUME NEW c \in Chats, NEW q \in QueueIds, SubmitFresh(c, q) PROVE MapInv'
  <2>1. \A d \in Chats : chatQueues[d] # q
    BY <1>2 DEF SubmitFresh
  <2>2. QED
    BY <1>2, <2>1 DEF SubmitFresh
<1>3. ASSUME NEW q \in QueueIds, WorkerStep(q) PROVE MapInv'
  <2>1. /\ UNCHANGED <<chatQueues, closed>>
        /\ \A p \in QueueIds :
             worker'[p] = "none" => worker[p] = "none" \/ closed[p]
    BY <1>3 DEF WorkerStep, WorkerReceive, WorkerReturn, AcquireSlot, AbandonTask,
                StartTask, FinishTask, ReleaseSlot, TouchQueue, queueVars
  <2>2. QED
    BY <2>1
<1>4. ASSUME CleanupIdle PROVE MapInv'
  <2>1. ASSUME NEW c \in Chats, chatQueues'[c] # NoQueue
        PROVE  chatQueues'[c] = chatQueues[c] /\ ~closed'[chatQueues[c]]
    BY <1>4, <2>1 DEF CleanupIdle, IdleChats
  <2>2. QED
    BY <1>4, <2>1 DEF CleanupIdle
<1>5. ASSUME \/ SendTask \/ RouterExit \/ PruneOldTasks \/ Stop
             \/ \E q \in QueueIds : Age(q)
             \/ UNCHANGED vars
      PROVE  MapInv'
  BY <1>5 DEF SendTask, RouterExit, PruneOldTasks, Stop, Age, vars, queueVars
<1>6. QED
  BY <1>1, <1>2, <1>3, <1>4, <1>5 DEF Next

\* Every step leaves the router's queue open while it sends.
LEMMA RouterStep == IInv /\ [Next]_vars => RouterInv'
<1> SUFFICES ASSUME IInv, [Next]_vars PROVE RouterInv'
  OBVIOUS
<1> USE TaskQueueAssumption DEF IInv, TypeOK, RouterInv
<1>1. ASSUME NEW c \in Chats, SubmitExisting(c) PROVE RouterInv'
  BY <1>1, NewTaskTypes DEF SubmitExisting, MapInv
<1>2. ASSUME NEW c \in Chats, NEW q \in QueueIds, SubmitFresh(c, q)
      PROVE  RouterInv'
  BY <1>2, NewTaskTypes DEF SubmitFresh
<1>3. ASSUME NEW q \in QueueIds, WorkerReceive(q) PROVE RouterInv'
  <2>1. CASE Parked(q)
    BY <1>3, <2>1 DEF WorkerReceive, Idle
  <2>2. CASE ~Parked(q)
    BY <1>3, <2>2 DEF WorkerReceive, Parked
  <2>3. QED
    BY <2>1, <2>2
<1>4. ASSUME NEW q \in QueueIds, WorkerStep(q), ~WorkerReceive(q) PROVE RouterInv'
  <2>1. /\ UNCHANGED <<router, closed, buf>>
        /\ \A p \in QueueIds : stale'[p] => stale[p]
        /\ \A p \in QueueIds :
             worker'[p] = "none" => worker[p] = "none" \/ closed[p]
    BY <1>4 DEF WorkerStep, WorkerReturn, AcquireSlot, AbandonTask,
                StartTask, FinishTask, ReleaseSlot, TouchQueue, queueVars
  <2>2. QED
    BY <2>1
<1>5. ASSUME CleanupIdle PROVE RouterInv'
  <2>1. ASSUME router.pc = "send", closed'[router.queue] PROVE FALSE
    <3>1. PICK c \in IdleChats : chatQueues[c] = router.queue
      BY <1>5, <2>1 DEF CleanupIdle
    <3>2. stale[router.queue] /\ buf[router.queue] = <<>>
      BY <3>1 DEF IdleChats
    <3>3. QED
      BY <2>1, <3>2
  <2>2. QED
    BY <1>5, <2>1 DEF CleanupIdle
<1>6. ASSUME NEW q \in QueueIds, Age(q) PROVE RouterInv'
  BY <1>6 DEF Age
<1>7. ASSUME SendTask \/ RouterExit \/ PruneOldTasks \/ Stop \/ UNCHANGED vars
      PROVE  RouterInv'
  BY <1>7 DEF SendTask, RouterExit, PruneOldTasks, Stop, vars, queueVars, Idle
<1>8. QED
  BY <1>1, <1>2, <1>3, <1>4, <1>5, <1>6, <1>7 DEF Next

\* Every step keeps a worker behind every buffered task.
LEMMA BufferedStep == IInv /\ [Next]_vars => BufferedHasWorker'
<1> SUFFICES ASSUME IInv, [Next]_vars PROVE BufferedHasWorker'
  OBVIOUS
<1> USE TaskQueueAssumption DEF IInv, TypeOK, BufferedHasWorker
<1>1. ASSUME NEW c \in Chats, SubmitExisting(c) PROVE BufferedHasWorker'
  BY <1>1 DEF SubmitExisting
<1>2. ASSUME NEW c \in Chats, NEW q \in QueueIds, SubmitFresh(c, q)
      PROVE  BufferedHasWorker'
  BY <1>2 DEF SubmitFresh
<1>3. ASSUME SendTask PROVE BufferedHasWorker'
  BY <1>3 DEF SendTask, RouterInv
<1>4. ASSUME NEW q \in QueueIds, WorkerReceive(q) PROVE BufferedHasWorker'
  BY <1>4 DEF WorkerReceive
<1>5. ASSUME NEW q \in QueueIds, WorkerStep(q), ~WorkerReceive(q)
      PROVE  BufferedHasWorker'
  <2>1. /\ UNCHANGED <<closed, buf>>
        /\ \A p \in QueueIds :
             worker'[p] = "none" => worker[p] = "none" \/ closed[p]
    BY <1>5 DEF WorkerStep, WorkerReturn, AcquireSlot, AbandonTask,
                StartTask, FinishTask, ReleaseSlot, TouchQueue, queueVars
  <2>2. QED
    BY <2>1
<1>6. ASSUME CleanupIdle PROVE BufferedHasWorker'
  BY <1>6 DEF CleanupIdle, IdleChats
<1>7. ASSUME \/ RouterExit \/ PruneOldTasks \/ Stop
             \/ \E q \in QueueIds : Age(q)
             \/ UNCHANGED vars
      PROVE  BufferedHasWorker'
  BY <1>7 DEF RouterExit, PruneOldTasks, Stop, Age, vars, queueVars
<1>8. QED
  BY <1>1, <1>2, <1>3, <1>4, <1>5, <1>6, <1>7 DEF Next

\* Every step keeps unused ids unused.
LEMMA SeqStep == IInv /\ [Next]_vars => SeqInv'
<1> SUFFICES ASSUME IInv, [Next]_vars PROVE SeqInv'
  OBVIOUS
<1> USE TaskQueueAssumption DEF IInv, TypeOK, SeqInv
<1>1. ASSUME NEW c \in Chats, NewTask(c) PROVE SeqInv'
  BY <1>1 DEF NewTask, Tasks
<1>2. ASSUME NEW q \in QueueIds, StartTask(q) PROVE SeqInv'
  BY <1>2 DEF StartTask, HoldInv
<1>3. ASSUME NEW q \in QueueIds, FinishTask(q) PROVE SeqInv'
  BY <1>3 DEF FinishTask, HoldInv, Finished
<1>4. ASSUME UNCHANGED <<seq, status>> PROVE SeqInv'
  BY <1>4
<1>5. QED
  BY <1>1, <1>2, <1>3, <1>4
  DEF Next, SubmitExisting, SubmitFresh, SendTask, RouterExit, WorkerStep,
      WorkerReceive, WorkerReturn, AcquireSlot, AbandonTask, ReleaseSlot,
      TouchQueue, Age, CleanupIdle, PruneOldTasks, Stop, vars, taskVars
-----------------------------------------------------------------------------
(* Where the tasks are.                                                    *)

\* A task given out by NewTask was in no place before.
LEMMA FreshTask ==
    ASSUME IInv, NEW c \in Chats, NewTask(c)
    PROVE  /\ \A q \in QueueIds : wtask[q] # seq + 1
           /\ \A q \in QueueIds : \A i \in 1..Len(buf[q]) : buf[q][i] # seq + 1
           /\ \A t \in Tasks : status[t] # "none" => status'[t] = status[t]
           /\ status'[seq + 1] = "pending"
           /\ \A t \in Tasks : status'[t] = "running" => status[t] = "running"
           /\ seq + 1 \in Tasks
<1> USE TaskQueueAssumption DEF IInv, TypeOK
<1>1. seq + 1 \in Tasks /\ status[seq + 1] = "none"
  BY NewTaskTypes
<1>2. \A q \in QueueIds : wtask[q] # seq + 1
  BY <1>1, NoTaskNotTask DEF HoldInv, Busy
<1>3. \A q \in QueueIds : \A i \in 1..Len(buf[q]) : buf[q][i] # seq + 1
  BY <1>1 DEF BufInv
<1>4. QED
  BY <1>1, <1>2, <1>3 DEF NewTask

\* Every step keeps the status of a held task that of its worker.
LEMMA HoldStep == IInv /\ [Next]_vars => HoldInv' /\ RunInv'
<1> SUFFICES ASSUME IInv, [Next]_vars PROVE HoldInv' /\ RunInv'
  OBVIOUS
<1> USE TaskQueueAssumption DEF IInv, TypeOK
<1>1. ASSUME NEW c \in Chats, SubmitExisting(c) PROVE HoldInv' /\ RunInv'
  <2>1. NewTask(c) /\ UNCHANGED <<worker, wtask>>
    BY <1>1 DEF SubmitExisting
  <2>2. HoldInv'
    BY <2>1, FreshTask DEF HoldInv
  <2>3. RunInv'
    BY <2>1, FreshTask DEF RunInv
  <2>4. QED
    BY <2>2, <2>3
<1>2. ASSUME NEW c \in Chats, NEW q \in QueueIds, SubmitFresh(c, q)
      PROVE  HoldInv' /\ RunInv'
  <2>1. /\ NewTask(c) /\ UNCHANGED wtask
        /\ worker[q] = "none" /\ worker' = [worker EXCEPT ![q] = "recv"]
    BY <1>2 DEF SubmitFresh
  <2>2. HoldInv'
    BY <2>1, FreshTask DEF HoldInv, Busy
  <2>3. RunInv'
    BY <2>1, FreshTask DEF RunInv
  <2>4. QED
    BY <2>2, <2>3
<1>3. ASSUME NEW q \in QueueIds, WorkerReceive(q) PROVE HoldInv' /\ RunInv'
  <2>1. /\ Head(buf[q]) = buf[q][1] /\ 1 \in 1..Len(buf[q])
        /\ Head(buf[q]) \in Tasks
    BY <1>3 DEF WorkerReceive
  <2>2. /\ status[Head(buf[q])] = "pending"
        /\ \A p \in QueueIds : wtask[p] # Head(buf[q])
    BY <2>1 DEF BufInv
  <2>3. /\ UNCHANGED status /\ worker[q] = "recv"
        /\ wtask' = [wtask EXCEPT ![q] = Head(buf[q])]
        /\ worker' = [worker EXCEPT ![q] = "acquire"]
    BY <1>3 DEF WorkerReceive, taskVars
  <2>4. HoldInv'
    BY <2>1, <2>2, <2>3 DEF HoldInv, Busy
  <2>5. RunInv'
    BY <2>3 DEF RunInv
  <2>6. QED
    BY <2>4, <2>5
<1>4. ASSUME NEW q \in QueueIds, AbandonTask(q) PROVE HoldInv' /\ RunInv'
  BY <1>4 DEF AbandonTask, HoldInv, RunInv, taskVars, Busy
<1>5. ASSUME NEW q \in QueueIds, StartTask(q) PROVE HoldInv' /\ RunInv'
  <2>1. /\ worker[q] = "start" /\ wtask[q] \in Tasks
        /\ UNCHANGED wtask /\ worker' = [worker EXCEPT ![q] = "run"]
        /\ status' = [status EXCEPT ![wtask[q]] = "running"]
    BY <1>5 DEF StartTask, HoldInv
  <2>2. HoldInv'
    BY <2>1, NoTaskNotTask DEF HoldInv, Busy
  <2>3. RunInv'
    BY <2>1 DEF RunInv
  <2>4. QED
    BY <2>2, <2>3
<1>6. ASSUME NEW q \in QueueIds, FinishTask(q) PROVE HoldInv' /\ RunInv'
  <2>1. PICK outcome \in Finished :
          status' = [status EXCEPT ![wtask[q]] = outcome]
    BY <1>6 DEF FinishTask
  <2>2. /\ worker[q] = "run" /\ wtask[q] \in Tasks
        /\ wtask' = [wtask EXCEPT ![q] = NoTask]
        /\ worker' = [worker EXCEPT ![q] = "release"]
    BY <1>6 DEF FinishTask, HoldInv
  <2>3. HoldInv'
    BY <2>1, <2>2, NoTaskNotTask DEF HoldInv, Busy
  <2>4. RunInv'
    BY <2>1, <2>2, NoTaskNotTask DEF RunInv, Finished
  <2>5. QED
    BY <2>3, <2>4
<1>7. ASSUME NEW q \in QueueIds,
             WorkerReturn(q) \/ AcquireSlot(q) \/ ReleaseSlot(q) \/ TouchQueue(q)
      PROVE  HoldInv' /\ RunInv'
  <2>1. /\ UNCHANGED <<status, wtask>>
        /\ \A p \in QueueIds : /\ worker'[p] \in Busy <=> worker[p] \in Busy
                               /\ worker'[p] = "run" <=> worker[p] = "run"
    BY <1>7 DEF WorkerReturn, AcquireSlot, ReleaseSlot, TouchQueue, taskVars, Busy
  <2>2. QED
    BY <2>1 DEF HoldInv, RunInv, Busy
<1>8. ASSUME UNCHANGED <<status, worker, wtask>> PROVE HoldInv' /\ RunInv'
  BY <1>8 DEF HoldInv, RunInv
<1>9. QED
  BY <1>1, <1>2, <1>3, <1>4, <1>5, <1>6, <1>7, <1>8
  DEF Next, SendTask, RouterExit, WorkerStep, Age, CleanupIdle, PruneOldTasks,
      Stop, vars, taskVars

\* Every step keeps buffered and handed-over tasks pending and in one place.
LEMMA PlaceStep == IInv /\ [Next]_vars => BufInv' /\ HandInv'
<1> SUFFICES ASSUME IInv, [Next]_vars PROVE BufInv' /\ HandInv'
  OBVIOUS
<1> USE TaskQueueAssumption DEF IInv, TypeOK
<1>1. ASSUME NEW c \in Chats, SubmitExisting(c) PROVE BufInv' /\ HandInv'
  <2>1. /\ NewTask(c) /\ UNCHANGED <<buf, wtask>>
        /\ router'.task = seq + 1
    BY <1>1 DEF SubmitExisting
  <2>2. QED
    BY <2>1, FreshTask DEF BufInv, HandInv
<1>2. ASSUME NEW c \in Chats, NEW q \in QueueIds, SubmitFresh(c, q)
      PROVE  BufInv' /\ HandInv'
  <2>1. /\ NewTask(c) /\ UNCHANGED wtask
        /\ buf' = [buf EXCEPT ![q] = <<>>] /\ router'.task = seq + 1
    BY <1>2 DEF SubmitFresh
  <2>2. \A p \in QueueIds : \A i \in 1..Len(buf'[p]) :
           p # q /\ buf'[p] = buf[p] /\ i \in 1..Len(buf[p])
    BY <2>1
  <2>3. BufInv'
    BY <2>1, <2>2, FreshTask DEF BufInv
  <2>4. HandInv'
    BY <2>1, <2>2, FreshTask DEF HandInv
  <2>5. QED
    BY <2>3, <2>4
<1>3. ASSUME SendTask PROVE BufInv' /\ HandInv'
  <2> DEFINE q == router.queue
             n == Len(buf[q])
  <2>1. /\ UNCHANGED <<status, wtask>> /\ router.pc = "send"
        /\ buf' = [buf EXCEPT ![q] = Append(@, router.task)]
        /\ q \in QueueIds /\ router.task \in Tasks /\ n \in Nat
        /\ router'.pc = "idle"
    BY <1>3 DEF SendTask, taskVars, Idle, RouterInv
  <2>2. \A p \in QueueIds : \A i \in 1..Len(buf'[p]) :
          \/ i \in 1..Len(buf[p]) /\ buf'[p][i] = buf[p][i]
          \/ p = q /\ i = n + 1 /\ buf'[p][i] = router.task
    BY <2>1
  <2>3. BufInv'
    BY <2>1, <2>2 DEF BufInv, HandInv
  <2>4. QED
    BY <2>1, <2>3 DEF HandInv
<1>4. ASSUME NEW q \in QueueIds, WorkerReceive(q) PROVE BufInv' /\ HandInv'
  <2> DEFINE n == Len(buf[q])
  <2>1. /\ UNCHANGED status
        /\ wtask' = [wtask EXCEPT ![q] = buf[q][1]]
        /\ n \in Nat \ {0} /\ 1 \in 1..n
    BY <1>4 DEF WorkerReceive, taskVars
  <2>2. CASE Parked(q)
    <3>1. /\ buf' = [buf EXCEPT ![q] = Append(Tail(@), router.task)]
          /\ router.pc = "send" /\ router' = Idle /\ router.task \in Tasks
      BY <1>4, <2>2 DEF WorkerReceive, Parked, RouterInv
    <3>2. \A p \in QueueIds : \A i \in 1..Len(buf'[p]) :
            \/ p # q /\ i \in 1..Len(buf[p]) /\ buf'[p][i] = buf[p][i]
            \/ p = q /\ i + 1 \in 1..n /\ buf'[p][i] = buf[q][i + 1]
            \/ p = q /\ i = n /\ buf'[p][i] = router.task
      BY <2>1, <3>1
    <3>3. BufInv'
      BY <2>1, <3>1, <3>2 DEF BufInv, HandInv
    <3>4. QED
      BY <3>1, <3>3 DEF HandInv, Idle
  <2>3. CASE ~Parked(q)
    <3>1. buf' = [buf EXCEPT ![q] = Tail(@)] /\ UNCHANGED router
      BY <1>4, <2>3 DEF WorkerReceive
    <3>2. \A p \in QueueIds : \A i \in 1..Len(buf'[p]) :
            \/ p # q /\ i \in 1..Len(buf[p]) /\ buf'[p][i] = buf[p][i]
            \/ p = q /\ i + 1 \in 1..n /\ buf'[p][i] = buf[q][i + 1]
      BY <2>1, <3>1
    <3>3. BufInv'
      <4> SUFFICES ASSUME NEW p \in QueueIds, NEW i \in 1..Len(buf'[p])
                   PROVE  /\ status[buf'[p][i]] = "pending"
                          /\ \A r \in QueueIds : wtask'[r] # buf'[p][i]
                          /\ \A r \in QueueIds : \A j \in 1..Len(buf'[r]) :
                               buf'[r][j] = buf'[p][i] => r = p /\ j = i
        BY <2>1 DEF BufInv
      <4>1. PICK k \in 1..Len(buf[p]) :
              /\ buf'[p][i] = buf[p][k]
              /\ k = IF p = q THEN i + 1 ELSE i
        BY <3>2
      <4>2. p = q => k # 1
        BY <4>1
      <4>3. \A r \in QueueIds : wtask'[r] # buf'[p][i]
        BY <2>1, <4>1, <4>2 DEF BufInv
      <4>4. ASSUME NEW r \in QueueIds, NEW j \in 1..Len(buf'[r]),
                   buf'[r][j] = buf'[p][i]
            PROVE  r = p /\ j = i
        BY <3>2, <4>1, <4>4 DEF BufInv
      <4>5. QED
        BY <4>1, <4>3, <4>4 DEF BufInv
    <3>4. HandInv'
      BY <2>1, <3>1, <3>2 DEF HandInv
    <3>5. QED
      BY <3>3, <3>4
  <2>4. QED
    BY <2>2, <2>3
<1>5. ASSUME NEW q \in QueueIds, StartTask(q) \/ FinishTask(q)
      PROVE  BufInv' /\ HandInv'
  <2>1. /\ UNCHANGED <<buf, router>>
        /\ wtask[q] \in Tasks
        /\ \A t \in Tasks : t # wtask[q] => status'[t] = status[t]
        /\ \A p \in QueueIds : wtask'[p] = wtask[p] \/ wtask'[p] = NoTask
    BY <1>5 DEF StartTask, FinishTask, queueVars, HoldInv
  <2>2. \A p \in QueueIds : \A i \in 1..Len(buf[p]) : buf[p][i] \in Tasks
    OBVIOUS
  <2>3. BufInv'
    BY <2>1, <2>2, NoTaskNotTask DEF BufInv
  <2>4. HandInv'
    BY <2>1, NoTaskNotTask DEF HandInv, RouterInv
  <2>5. QED
    BY <2>3, <2>4
<1>6. ASSUME NEW q \in QueueIds, AbandonTask(q) PROVE BufInv' /\ HandInv'
  <2>1. \A p \in QueueIds : \A i \in 1..Len(buf[p]) : buf[p][i] \in Tasks
    OBVIOUS
  <2>2. QED
    BY <1>6, <2>1, NoTaskNotTask DEF AbandonTask, BufInv, HandInv, RouterInv,
                                     taskVars, queueVars
<1>7. ASSUME UNCHANGED <<status, wtask, buf>>, router'.pc = "send" => UNCHANGED router
      PROVE  BufInv' /\ HandInv'
  BY <1>7 DEF BufInv, HandInv
<1>8. ASSUME NEW q \in QueueIds,
             \/ WorkerReturn(q) \/ AcquireSlot(q) \/ ReleaseSlot(q)
             \/ TouchQueue(q) \/ Age(q)
      PROVE  BufInv' /\ HandInv'
  BY <1>7, <1>8 DEF WorkerReturn, AcquireSlot, ReleaseSlot, TouchQueue, Age,
                    taskVars, queueVars
<1>9. ASSUME RouterExit \/ CleanupIdle \/ PruneOldTasks \/ Stop \/ UNCHANGED vars
      PROVE  BufInv' /\ HandInv'
  BY <1>7, <1>9 DEF RouterExit, CleanupIdle, PruneOldTasks, Stop, vars, taskVars,
                    queueVars, Idle
<1>10. QED
  BY <1>1, <1>2, <1>3, <1>4, <1>5, <1>6, <1>8, <1>9 DEF Next, WorkerStep
-----------------------------------------------------------------------------
(* Each task is in one place, and those of a chat are in order.            *)

\* Retention keeps the records of unfinished tasks.
TableInv == InFlight \subseteq table

\* A pending task is with the router, in a channel or with a worker.
InPlace(t) ==
    \/ router.pc = "send" /\ router.task = t
    \/ \E q \in QueueIds : wtask[q] = t
    \/ \E q \in QueueIds : \E i \in 1..Len(buf[q]) : buf[q][i] = t

PlacedInv == ~stopped => \A t \in Tasks : status[t] = "pending" => InPlace(t)

\* It is the newest one, or it is with the queue that the map has for its chat;
\* a worker's task too, unless the ticker has closed the queue of a busy one.
OwnInv ==
    /\ router.pc = "send" => /\ router.task = seq
                             /\ chatQueues[chatOf[router.task]] = router.queue
    /\ \A q \in QueueIds : \A i \in 1..Len(buf[q]) : chatQueues[chatOf[buf[q][i]]] = q
    /\ \/ reapedBusy
       \/ \A q \in QueueIds : worker[q] \in Busy => chatQueues[chatOf[wtask[q]]] = q

\* A channel is sorted, and its worker's task is older than what it holds.
SortInv ==
    \A q \in QueueIds : \A i \in 1..Len(buf[q]) :
        /\ worker[q] \in Busy => wtask[q] < buf[q][i]
        /\ \A j \in 1..Len(buf[q]) : i < j => buf[q][i] < buf[q][j]

OrderInv == TableInv /\ PlacedInv /\ OwnInv /\ SortInv /\ FifoUnlessReaped

LEMMA InitOrder == Init => OrderInv
<1> SUFFICES ASSUME Init PROVE OrderInv
  OBVIOUS
<1>1. TableInv /\ PlacedInv
  BY DEF Init, TableInv, PlacedInv, InFlight
<1>2. OwnInv /\ SortInv
  BY DEF Init, OwnInv, SortInv, Idle, Busy
<1>3. FifoUnlessReaped
  BY DEF Init, FifoUnlessReaped
<1>4. QED
  BY <1>1, <1>2, <1>3 DEF OrderInv

\* A receive moves the head to the worker, the others up, and a parked send in.
LEMMA ReceiveMoves ==
    ASSUME IInv, NEW q \in QueueIds, WorkerReceive(q)
    PROVE  /\ 1 \in 1..Len(buf[q]) /\ wtask' = [wtask EXCEPT ![q] = buf[q][1]]
           /\ \A p \in QueueIds : \A i \in 1..Len(buf'[p]) :
                \/ p # q /\ i \in 1..Len(buf[p]) /\ buf'[p][i] = buf[p][i]
                \/ p = q /\ i + 1 \in 1..Len(buf[q]) /\ buf'[p][i] = buf[q][i + 1]
                \/ /\ p = q /\ i = Len(buf[q]) /\ buf'[p][i] = router.task
                   /\ router.pc = "send" /\ router.queue = q
           /\ \A p \in QueueIds \ {q} : buf'[p] = buf[p]
           /\ \A i \in 1..Len(buf[q]) : i # 1
                => i - 1 \in 1..Len(buf'[q]) /\ buf'[q][i - 1] = buf[q][i]
           /\ \/ UNCHANGED router
              \/ /\ Len(buf[q]) \in 1..Len(buf'[q]) /\ buf'[q][Len(buf[q])] = router.task
                 /\ router.pc = "send" /\ router' = Idle
<1> USE DEF IInv, TypeOK
<1> DEFINE n == Len(buf[q])
<1>1. /\ n \in Nat \ {0} /\ 1 \in 1..n
      /\ wtask' = [wtask EXCEPT ![q] = buf[q][1]]
  BY DEF WorkerReceive
<1>2. CASE Parked(q)
  <2>1. /\ buf' = [buf EXCEPT ![q] = Append(Tail(@), router.task)]
        /\ router.pc = "send" /\ router.queue = q /\ router' = Idle
        /\ router.task \in Tasks
    BY <1>2 DEF WorkerReceive, Parked, RouterInv
  <2>2. QED
    BY <1>1, <2>1
<1>3. CASE ~Parked(q)
  <2>1. buf' = [buf EXCEPT ![q] = Tail(@)] /\ UNCHANGED router
    BY <1>3 DEF WorkerReceive
  <2>2. QED
    BY <1>1, <2>1
<1>4. QED
  BY <1>2, <1>3

\* Every step keeps the records of unfinished tasks.
LEMMA TableStep == IInv /\ TableInv /\ [Next]_vars => TableInv'
<1> SUFFICES ASSUME IInv, TableInv, [Next]_vars PROVE TableInv'
  OBVIOUS
<1> USE DEF IInv, TypeOK, TableInv, InFlight
<1>1. ASSUME NEW c \in Chats, NewTask(c) PROVE TableInv'
  BY <1>1, NewTaskTypes DEF NewTask
<1>2. ASSUME NEW q \in QueueIds, StartTask(q) PROVE TableInv'
  BY <1>2 DEF StartTask, HoldInv
<1>3. ASSUME NEW q \in QueueIds, FinishTask(q) PROVE TableInv'
  BY <1>3 DEF FinishTask, HoldInv, Finished
<1>4. ASSUME PruneOldTasks PROVE TableInv'
  BY <1>4 DEF PruneOldTasks, Prunable, Finished
<1>5. ASSUME UNCHANGED <<table, status>> PROVE TableInv'
  BY <1>5
<1>6. QED
  BY <1>1, <1>2, <1>3, <1>4, <1>5
  DEF Next, SubmitExisting, SubmitFresh, SendTask, RouterExit, WorkerStep,
      WorkerReceive, WorkerReturn, AcquireSlot, AbandonTask, ReleaseSlot,
      TouchQueue, Age, CleanupIdle, Stop, vars, taskVars

\* Every step keeps a pending task in a place.
LEMMA PlacedStep == IInv /\ PlacedInv /\ [Next]_vars => PlacedInv'
<1> SUFFICES ASSUME IInv, PlacedInv, [Next]_vars, ~stopped',
                    NEW t \in Tasks, status'[t] = "pending"
             PROVE  InPlace(t)'
  BY DEF PlacedInv
<1>0. ~stopped
  BY DEF Next, SubmitExisting, SubmitFresh, SendTask, RouterExit, WorkerStep,
         WorkerReceive, WorkerReturn, AcquireSlot, AbandonTask, StartTask, FinishTask,
         ReleaseSlot, TouchQueue, Age, CleanupIdle, PruneOldTasks, Stop, vars
<1> DEFINE Was == status[t] = "pending" /\ InPlace(t)
<1>a. status[t] = "pending" => Was
  BY <1>0 DEF PlacedInv
<1> USE TaskQueueAssumption DEF IInv, TypeOK
<1>1. ASSUME NEW c \in Chats, SubmitExisting(c) PROVE InPlace(t)'
  <2>1. /\ NewTask(c) /\ UNCHANGED <<buf, wtask>> /\ router.pc = "idle"
        /\ router'.pc = "send" /\ router'.task = seq + 1
    BY <1>1 DEF SubmitExisting
  <2>2. t # seq + 1 => status'[t] = status[t]
    BY <2>1 DEF NewTask
  <2>3. QED
    BY <1>a, <2>1, <2>2 DEF InPlace
<1>2. ASSUME NEW c \in Chats, NEW q \in QueueIds, SubmitFresh(c, q) PROVE InPlace(t)'
  <2>1. /\ NewTask(c) /\ UNCHANGED wtask /\ router.pc = "idle"
        /\ router'.pc = "send" /\ router'.task = seq + 1
        /\ worker[q] = "none" /\ buf' = [buf EXCEPT ![q] = <<>>]
    BY <1>2 DEF SubmitFresh
  <2>2. t # seq + 1 => status'[t] = status[t]
    BY <2>1 DEF NewTask
  <2>3. buf' = buf
    BY <2>1 DEF BufferedHasWorker
  <2>4. QED
    BY <1>a, <2>1, <2>2, <2>3 DEF InPlace
<1>3. ASSUME SendTask PROVE InPlace(t)'
  <2> DEFINE q == router.queue
             n == Len(buf[q])
  <2>1. /\ UNCHANGED <<status, wtask>> /\ q \in QueueIds
        /\ buf' = [buf EXCEPT ![q] = Append(@, router.task)]
        /\ router.task \in Tasks
    BY <1>3 DEF SendTask, RouterInv, taskVars
  <2>2. n + 1 \in 1..Len(buf'[q]) /\ buf'[q][n + 1] = router.task
    BY <2>1
  <2>3. \A p \in QueueIds : \A i \in 1..Len(buf[p]) :
          i \in 1..Len(buf'[p]) /\ buf'[p][i] = buf[p][i]
    BY <2>1
  <2> HIDE DEF q, n
  <2>4. QED
    BY <1>a, <2>1, <2>2, <2>3 DEF InPlace, q
<1>4. ASSUME NEW q \in QueueIds, WorkerReceive(q) PROVE InPlace(t)'
  <2>1. UNCHANGED status /\ worker[q] = "recv"
    BY <1>4 DEF WorkerReceive, taskVars
  <2>2. wtask' = [wtask EXCEPT ![q] = buf[q][1]] /\ wtask[q] = NoTask
    BY <1>4, <2>1, ReceiveMoves DEF HoldInv, Busy
  <2>3. \A p \in QueueIds : wtask[p] = t => wtask'[p] = t
    BY <2>2, NoTaskNotTask
  <2>4. /\ \A p \in QueueIds \ {q} : buf'[p] = buf[p]
        /\ \A i \in 1..Len(buf[q]) : i # 1
             => i - 1 \in 1..Len(buf'[q]) /\ buf'[q][i - 1] = buf[q][i]
    BY <1>4, ReceiveMoves
  <2>5. ASSUME NEW p \in QueueIds, NEW i \in 1..Len(buf[p]), buf[p][i] = t
        PROVE  InPlace(t)'
    <3>1. CASE p # q
      BY <2>4, <2>5, <3>1 DEF InPlace
    <3>2. CASE p = q /\ i = 1
      <4>1. wtask'[q] = t
        BY <2>2, <2>5, <3>2
      <4>2. QED
        BY <4>1 DEF InPlace
    <3>3. CASE p = q /\ i # 1
      <4>1. i - 1 \in 1..Len(buf'[q]) /\ buf'[q][i - 1] = t
        BY <2>4, <2>5, <3>3
      <4>2. QED
        BY <4>1 DEF InPlace
    <3>4. QED
      BY <3>1, <3>2, <3>3
  <2>6. router.pc = "send" =>
          \/ UNCHANGED router
          \/ \E j \in 1..Len(buf'[q]) : buf'[q][j] = router.task
    BY <1>4, ReceiveMoves
  <2>7. CASE router.pc = "send" /\ router.task = t
    BY <2>6, <2>7 DEF InPlace
  <2>8. CASE \E p \in QueueIds : wtask[p] = t
    BY <2>3, <2>8 DEF InPlace
  <2>9. CASE \E p \in QueueIds : \E i \in 1..Len(buf[p]) : buf[p][i] = t
    BY <2>5, <2>9
  <2>10. InPlace(t)
    BY <1>a, <2>1
  <2>11. QED
    BY <2>7, <2>8, <2>9, <2>10 DEF InPlace
<1>5. ASSUME NEW q \in QueueIds, AbandonTask(q) PROVE InPlace(t)'
  BY <1>0, <1>5 DEF AbandonTask
<1>6. ASSUME NEW q \in QueueIds, StartTask(q) PROVE InPlace(t)'
  <2>1. UNCHANGED <<buf, wtask, router>> /\ status[t] = "pending"
    BY <1>6 DEF StartTask, queueVars
  <2>2. QED
    BY <1>a, <2>1 DEF InPlace
<1>7. ASSUME NEW q \in QueueIds, FinishTask(q) PROVE InPlace(t)'
  <2>1. /\ UNCHANGED <<buf, router>> /\ status[wtask[q]] = "running"
        /\ wtask[q] \in Tasks /\ wtask' = [wtask EXCEPT ![q] = NoTask]
        /\ status[t] = "pending"
    BY <1>7 DEF FinishTask, queueVars, Finished, HoldInv
  <2>2. \A p \in QueueIds : wtask[p] = t => wtask'[p] = t
    BY <2>1
  <2>3. QED
    BY <1>a, <2>1, <2>2 DEF InPlace
<1>8. ASSUME UNCHANGED <<status, buf, wtask>>, router.pc = "send" => UNCHANGED router
      PROVE  InPlace(t)'
  BY <1>a, <1>8 DEF InPlace
<1>9. QED
  BY <1>1, <1>2, <1>3, <1>4, <1>5, <1>6, <1>7, <1>8
  DEF Next, RouterExit, WorkerStep, WorkerReturn, AcquireSlot, ReleaseSlot,
      TouchQueue, Age, CleanupIdle, PruneOldTasks, Stop, vars, taskVars, queueVars

\* The tasks in channels, and the one that the router is about to send.
LEMMA Newest ==
    ASSUME IInv, OwnInv, router.pc = "send"
    PROVE  /\ seq \in Tasks
           /\ \A q \in QueueIds : \A i \in 1..Len(buf[q]) : buf[q][i] < seq
           /\ \A q \in QueueIds : worker[q] \in Busy => wtask[q] < seq
<1> USE TaskQueueAssumption DEF IInv, TypeOK
<1>1. seq \in Tasks /\ router.task = seq
  BY DEF OwnInv, RouterInv
<1>2. \A t \in Tasks : status[t] \in {"pending", "running"} => t <= seq
  BY <1>1 DEF SeqInv, Tasks
<1>3. ASSUME NEW q \in QueueIds, NEW i \in 1..Len(buf[q]) PROVE buf[q][i] < seq
  <2>1. /\ buf[q][i] \in Tasks /\ status[buf[q][i]] = "pending"
        /\ buf[q][i] # router.task
    BY DEF BufInv, HandInv
  <2>2. QED
    BY <1>1, <1>2, <2>1 DEF Tasks
<1>4. ASSUME NEW q \in QueueIds, worker[q] \in Busy PROVE wtask[q] < seq
  <2>1. /\ wtask[q] \in Tasks /\ status[wtask[q]] \in {"pending", "running"}
        /\ wtask[q] # router.task
    BY <1>4 DEF HoldInv, HandInv, Busy
  <2>2. QED
    BY <1>1, <1>2, <2>1 DEF Tasks
<1>5. QED
  BY <1>1, <1>3, <1>4

\* Every step keeps a task with the queue of its chat.
LEMMA OwnStep == IInv /\ OwnInv /\ [Next]_vars => OwnInv'
<1> SUFFICES ASSUME IInv, OwnInv, [Next]_vars PROVE OwnInv'
  OBVIOUS
<1> USE TaskQueueAssumption DEF IInv, TypeOK
<1>b. \A q \in QueueIds : \A i \in 1..Len(buf[q]) : buf[q][i] \in Tasks
  OBVIOUS
<1>h. \A q \in QueueIds : worker[q] \in Busy => wtask[q] \in Tasks
  BY DEF HoldInv, Busy
<1>1. ASSUME NEW c \in Chats, SubmitExisting(c) PROVE OwnInv'
  <2>1. /\ NewTask(c) /\ UNCHANGED <<chatQueues, buf, worker, wtask, reapedBusy>>
        /\ router' = [pc |-> "send", task |-> seq + 1, queue |-> chatQueues[c]]
    BY <1>1 DEF SubmitExisting
  <2>2. /\ seq' = seq + 1 /\ chatOf'[seq + 1] = c
        /\ \A t \in Tasks : t # seq + 1 => chatOf'[t] = chatOf[t]
    BY <2>1, FreshTask DEF NewTask
  <2>3. router'.task = seq' /\ chatQueues'[chatOf'[router'.task]] = router'.queue
    BY <2>1, <2>2
  <2>4. ASSUME NEW q \in QueueIds, NEW i \in 1..Len(buf[q])
        PROVE  chatQueues[chatOf'[buf[q][i]]] = q
    BY <1>b, <2>1, <2>2, FreshTask DEF OwnInv
  <2>5. ASSUME ~reapedBusy, NEW q \in QueueIds, worker[q] \in Busy
        PROVE  chatQueues[chatOf'[wtask[q]]] = q
    BY <1>h, <2>1, <2>2, <2>5, FreshTask DEF OwnInv
  <2>6. QED
    BY <2>1, <2>3, <2>4, <2>5 DEF OwnInv
<1>2. ASSUME NEW c \in Chats, NEW k \in QueueIds, SubmitFresh(c, k) PROVE OwnInv'
  <2>1. /\ NewTask(c) /\ UNCHANGED <<wtask, reapedBusy>>
        /\ router' = [pc |-> "send", task |-> seq + 1, queue |-> k]
        /\ buf' = [buf EXCEPT ![k] = <<>>] /\ worker' = [worker EXCEPT ![k] = "recv"]
        /\ chatQueues[c] = NoQueue /\ chatQueues' = [chatQueues EXCEPT ![c] = k]
    BY <1>2 DEF SubmitFresh
  <2>2. /\ seq' = seq + 1 /\ chatOf'[seq + 1] = c
        /\ \A t \in Tasks : t # seq + 1 => chatOf'[t] = chatOf[t]
    BY <2>1, FreshTask DEF NewTask
  <2>3. router'.task = seq' /\ chatQueues'[chatOf'[router'.task]] = router'.queue
    BY <2>1, <2>2
  <2>m. ASSUME NEW t \in Tasks, t # seq + 1, NEW q \in QueueIds,
               chatQueues[chatOf[t]] = q
        PROVE  chatQueues'[chatOf'[t]] = q
    BY <2>1, <2>2, <2>m
  <2>4. ASSUME NEW q \in QueueIds, NEW i \in 1..Len(buf'[q])
        PROVE  chatQueues'[chatOf'[buf'[q][i]]] = q
    <3>1. buf'[q] = buf[q] /\ i \in 1..Len(buf[q])
      BY <2>1
    <3>2. chatQueues[chatOf[buf[q][i]]] = q /\ buf[q][i] # seq + 1
      BY <2>1, <3>1, FreshTask DEF OwnInv
    <3>3. QED
      BY <1>b, <2>m, <3>1, <3>2
  <2>5. ASSUME ~reapedBusy, NEW q \in QueueIds, worker'[q] \in Busy
        PROVE  chatQueues'[chatOf'[wtask[q]]] = q
    <3>1. worker[q] \in Busy
      BY <2>1, <2>5 DEF Busy
    <3>2. chatQueues[chatOf[wtask[q]]] = q /\ wtask[q] # seq + 1
      BY <2>1, <2>5, <3>1, FreshTask DEF OwnInv
    <3>3. QED
      BY <1>h, <2>m, <3>1, <3>2
  <2>6. QED
    BY <2>1, <2>3, <2>4, <2>5 DEF OwnInv
<1>3. ASSUME SendTask PROVE OwnInv'
  <2> DEFINE q == router.queue
             n == Len(buf[q])
  <2>1. /\ UNCHANGED <<seq, chatOf, chatQueues, worker, wtask, reapedBusy>>
        /\ buf' = [buf EXCEPT ![q] = Append(@, router.task)] /\ router' = Idle
        /\ q \in QueueIds /\ router.task \in Tasks /\ router.pc = "send"
    BY <1>3 DEF SendTask, taskVars, RouterInv
  <2>2. \A p \in QueueIds : \A i \in 1..Len(buf'[p]) :
          \/ i \in 1..Len(buf[p]) /\ buf'[p][i] = buf[p][i]
          \/ p = q /\ i = n + 1 /\ buf'[p][i] = router.task
    BY <2>1
  <2>3. \A p \in QueueIds : \A i \in 1..Len(buf'[p]) :
          chatQueues[chatOf[buf'[p][i]]] = p
    BY <2>1, <2>2 DEF OwnInv
  <2>4. QED
    BY <2>1, <2>3 DEF OwnInv, Idle
<1>4. ASSUME NEW q \in QueueIds, WorkerReceive(q) PROVE OwnInv'
  <2>1. /\ UNCHANGED <<seq, chatOf, chatQueues, reapedBusy>>
        /\ worker' = [worker EXCEPT ![q] = "acquire"]
    BY <1>4 DEF WorkerReceive, taskVars
  <2>2. wtask' = [wtask EXCEPT ![q] = buf[q][1]] /\ 1 \in 1..Len(buf[q])
    BY <1>4, ReceiveMoves
  <2>3. \A p \in QueueIds : \A i \in 1..Len(buf'[p]) :
          \/ p # q /\ i \in 1..Len(buf[p]) /\ buf'[p][i] = buf[p][i]
          \/ p = q /\ i + 1 \in 1..Len(buf[q]) /\ buf'[p][i] = buf[q][i + 1]
          \/ p = q /\ buf'[p][i] = router.task /\ router.pc = "send" /\ router.queue = q
    BY <1>4, ReceiveMoves
  <2>4. \A p \in QueueIds : \A i \in 1..Len(buf'[p]) :
          chatQueues[chatOf[buf'[p][i]]] = p
    <3>1. \A p \in QueueIds : \A i \in 1..Len(buf[p]) : chatQueues[chatOf[buf[p][i]]] = p
      BY DEF OwnInv
    <3>2. router.pc = "send" => chatQueues[chatOf[router.task]] = router.queue
      BY DEF OwnInv
    <3>3. ASSUME NEW p \in QueueIds, NEW i \in 1..Len(buf'[p])
          PROVE  chatQueues[chatOf[buf'[p][i]]] = p
      <4>1. CASE p # q /\ i \in 1..Len(buf[p]) /\ buf'[p][i] = buf[p][i]
        BY <3>1, <4>1
      <4>2. CASE p = q /\ i + 1 \in 1..Len(buf[q]) /\ buf'[p][i] = buf[q][i + 1]
        BY <3>1, <4>2
      <4>3. CASE p = q /\ buf'[p][i] = router.task /\ router.pc = "send"
                   /\ router.queue = q
        BY <3>2, <4>3
      <4>4. QED
        BY <2>3, <4>1, <4>2, <4>3
    <3>4. QED
      BY <3>3
  <2>5. router'.pc = "send" => UNCHANGED router
    BY <1>4, ReceiveMoves DEF Idle
  <2>6. ASSUME ~reapedBusy, NEW p \in QueueIds, worker'[p] \in Busy
        PROVE  chatQueues[chatOf[wtask'[p]]] = p
    BY <2>1, <2>2, <2>6 DEF OwnInv
  <2>7. QED
    BY <2>1, <2>4, <2>5, <2>6 DEF OwnInv
<1>5. ASSUME CleanupIdle PROVE OwnInv'
  <2>1. /\ UNCHANGED <<seq, chatOf, buf, worker, wtask, router>>
        /\ \A c \in Chats : chatQueues'[c] = chatQueues[c] \/ c \in IdleChats
        /\ reapedBusy' = (reapedBusy \/ \E c \in IdleChats :
                                          worker[chatQueues[c]] \in Busy)
    BY <1>5 DEF CleanupIdle, taskVars
  <2>2. ASSUME NEW q \in QueueIds, NEW t \in Tasks, chatQueues[chatOf[t]] = q,
               \/ buf[q] # <<>>
               \/ ~reapedBusy' /\ worker[q] \in Busy
               \/ ~stale[q]
        PROVE  chatQueues'[chatOf[t]] = q
    <3>1. chatOf[t] \notin IdleChats
      BY <2>1, <2>2 DEF IdleChats
    <3>2. QED
      BY <2>1, <2>2, <3>1
  <2>3. ASSUME router.pc = "send" PROVE chatQueues'[chatOf[router.task]] = router.queue
    <3>1. /\ router.task \in Tasks /\ router.queue \in QueueIds
          /\ stale[router.queue] => buf[router.queue] # <<>>
      BY <2>3 DEF RouterInv
    <3>2. QED
      BY <2>2, <2>3, <3>1 DEF OwnInv
  <2>4. ASSUME NEW q \in QueueIds, NEW i \in 1..Len(buf[q])
        PROVE  chatQueues'[chatOf[buf[q][i]]] = q
    <3>1. buf[q] # <<>>
      OBVIOUS
    <3>2. QED
      BY <1>b, <2>2, <3>1 DEF OwnInv
  <2>5. ASSUME ~reapedBusy', NEW q \in QueueIds, worker[q] \in Busy
        PROVE  chatQueues'[chatOf[wtask[q]]] = q
    <3>1. ~reapedBusy
      BY <2>1, <2>5
    <3>2. QED
      BY <1>h, <2>2, <2>5, <3>1 DEF OwnInv
  <2>6. QED
    BY <2>1, <2>3, <2>4, <2>5 DEF OwnInv
<1>6. ASSUME UNCHANGED <<seq, chatOf, chatQueues, buf, reapedBusy>>,
             router'.pc = "send" => UNCHANGED router,
             \A q \in QueueIds : worker'[q] \in Busy
               => worker[q] \in Busy /\ wtask'[q] = wtask[q]
      PROVE  OwnInv'
  BY <1>6 DEF OwnInv
<1>7. ASSUME NEW q \in QueueIds, WorkerStep(q), ~WorkerReceive(q) PROVE OwnInv'
  <2>1. UNCHANGED <<seq, chatOf, chatQueues, buf, reapedBusy, router>>
    BY <1>7 DEF WorkerStep, WorkerReturn, AcquireSlot, AbandonTask, StartTask,
                FinishTask, ReleaseSlot, TouchQueue, taskVars, queueVars
  <2>2. \A p \in QueueIds : worker'[p] \in Busy
          => worker[p] \in Busy /\ wtask'[p] = wtask[p]
    BY <1>7 DEF WorkerStep, WorkerReturn, AcquireSlot, AbandonTask, StartTask,
                FinishTask, ReleaseSlot, TouchQueue, Busy
  <2>3. QED
    BY <1>6, <2>1, <2>2
<1>8. ASSUME \/ RouterExit \/ PruneOldTasks \/ Stop
             \/ \E q \in QueueIds : Age(q)
             \/ UNCHANGED vars
      PROVE  OwnInv'
  BY <1>6, <1>8 DEF RouterExit, PruneOldTasks, Stop, Age, vars, taskVars, queueVars,
                    Idle
<1>9. QED
  BY <1>1, <1>2, <1>3, <1>4, <1>5, <1>7, <1>8 DEF Next

\* Every step keeps the channels sorted.
LEMMA SortStep == IInv /\ OwnInv /\ SortInv /\ [Next]_vars => SortInv'
<1> SUFFICES ASSUME IInv, OwnInv, SortInv, [Next]_vars PROVE SortInv'
  OBVIOUS
<1>t. /\ buf \in [QueueIds -> Seq(Tasks)] /\ wtask \in [QueueIds -> Tasks \cup {NoTask}]
      /\ worker \in [QueueIds -> Pcs]
  BY DEF IInv, TypeOK
<1>b. \A q \in QueueIds : \A i \in 1..Len(buf[q]) : buf[q][i] \in Nat
  BY <1>t, TaskQueueAssumption DEF Tasks
<1>1. ASSUME UNCHANGED buf,
             \A q \in QueueIds : worker'[q] \in Busy
               => worker[q] \in Busy /\ wtask'[q] = wtask[q]
      PROVE  SortInv'
  BY <1>1 DEF SortInv
<1>2. ASSUME NEW c \in Chats, NEW q \in QueueIds, SubmitFresh(c, q) PROVE SortInv'
  <2>1. /\ buf' = [buf EXCEPT ![q] = <<>>] /\ worker' = [worker EXCEPT ![q] = "recv"]
        /\ UNCHANGED wtask
    BY <1>2 DEF SubmitFresh
  <2>2. QED
    BY <1>t, <2>1 DEF SortInv, Busy
<1>3. ASSUME SendTask PROVE SortInv'
  <2> DEFINE q == router.queue
             n == Len(buf[q])
  <2>1. /\ q \in QueueIds /\ router.task = seq /\ UNCHANGED <<worker, wtask>>
        /\ buf' = [buf EXCEPT ![q] = Append(@, seq)] /\ seq \in Tasks
        /\ \A p \in QueueIds : \A i \in 1..Len(buf[p]) : buf[p][i] < seq
        /\ \A p \in QueueIds : worker[p] \in Busy => wtask[p] < seq
    BY <1>3, Newest DEF SendTask, IInv, RouterInv, OwnInv
  <2>2. \A p \in QueueIds : \A i \in 1..Len(buf'[p]) :
          \/ i \in 1..Len(buf[p]) /\ buf'[p][i] = buf[p][i]
          \/ p = q /\ i = n + 1 /\ buf'[p][i] = seq
    BY <1>t, <2>1
  <2>3. ASSUME NEW p \in QueueIds, NEW i \in 1..Len(buf'[p]), worker'[p] \in Busy
        PROVE  wtask'[p] < buf'[p][i]
    BY <2>1, <2>2, <2>3 DEF SortInv
  <2>4. ASSUME NEW p \in QueueIds, NEW i \in 1..Len(buf'[p]),
               NEW j \in 1..Len(buf'[p]), i < j
        PROVE  buf'[p][i] < buf'[p][j]
    <3>1. i \in 1..Len(buf[p]) /\ buf'[p][i] = buf[p][i]
      BY <1>t, <2>1, <2>4
    <3>2. \/ j \in 1..Len(buf[p]) /\ buf'[p][j] = buf[p][j]
          \/ buf'[p][j] = seq
      BY <2>2
    <3>3. QED
      BY <2>1, <2>4, <3>1, <3>2 DEF SortInv
  <2>5. QED
    BY <2>3, <2>4 DEF SortInv
<1>4. ASSUME NEW q \in QueueIds, WorkerReceive(q) PROVE SortInv'
  <2> DEFINE n == Len(buf[q])
  <2>1. /\ 1 \in 1..n /\ wtask' = [wtask EXCEPT ![q] = buf[q][1]]
        /\ \A p \in QueueIds \ {q} : buf'[p] = buf[p]
        /\ \A i \in 1..Len(buf'[q]) :
             \/ i + 1 \in 1..n /\ buf'[q][i] = buf[q][i + 1]
             \/ i = n /\ buf'[q][i] = router.task /\ router.pc = "send"
    BY <1>4, ReceiveMoves
  <2>2. worker' = [worker EXCEPT ![q] = "acquire"]
    BY <1>4 DEF WorkerReceive
  <2>3. router.pc = "send" =>
          router.task = seq /\ \A i \in 1..n : buf[q][i] < seq
    BY Newest DEF OwnInv
  <2>4. \A i, j \in 1..n : i < j => buf[q][i] < buf[q][j]
    BY DEF SortInv
  <2>5. n \in Nat
    BY <1>t
  <2> HIDE DEF n
  <2>6. ASSUME NEW i \in 1..Len(buf'[q]) PROVE wtask'[q] < buf'[q][i]
    <3>1. wtask'[q] = buf[q][1]
      BY <1>t, <2>1
    <3>2. CASE i + 1 \in 1..n /\ buf'[q][i] = buf[q][i + 1]
      BY <2>1, <2>4, <3>1, <3>2
    <3>3. CASE buf'[q][i] = router.task /\ router.pc = "send"
      BY <2>1, <2>3, <3>1, <3>3
    <3>4. QED
      BY <2>1, <3>2, <3>3
  <2>7. ASSUME NEW i \in 1..Len(buf'[q]), NEW j \in 1..Len(buf'[q]), i < j
        PROVE  buf'[q][i] < buf'[q][j]
    <3>1. i + 1 \in 1..n /\ buf'[q][i] = buf[q][i + 1]
      BY <2>1, <2>5, <2>7
    <3>2. CASE j + 1 \in 1..n /\ buf'[q][j] = buf[q][j + 1]
      BY <2>4, <2>7, <3>1, <3>2
    <3>3. CASE buf'[q][j] = router.task /\ router.pc = "send"
      BY <2>3, <3>1, <3>3
    <3>4. QED
      BY <2>1, <3>2, <3>3
  <2>8. ASSUME NEW p \in QueueIds \ {q}, NEW i \in 1..Len(buf'[p])
        PROVE  /\ worker'[p] \in Busy => wtask'[p] < buf'[p][i]
               /\ \A j \in 1..Len(buf'[p]) : i < j => buf'[p][i] < buf'[p][j]
    <3>1. buf'[p] = buf[p] /\ worker'[p] = worker[p] /\ wtask'[p] = wtask[p]
      BY <1>t, <2>1, <2>2
    <3>2. QED
      BY <3>1 DEF SortInv
  <2>9. QED
    BY <2>6, <2>7, <2>8 DEF SortInv
<1>5. ASSUME NEW q \in QueueIds, WorkerStep(q), ~WorkerReceive(q) PROVE SortInv'
  <2>1. UNCHANGED buf
    BY <1>5 DEF WorkerStep, WorkerReturn, AcquireSlot, AbandonTask, StartTask,
                FinishTask, ReleaseSlot, TouchQueue, queueVars
  <2>2. \A p \in QueueIds : worker'[p] \in Busy
          => worker[p] \in Busy /\ wtask'[p] = wtask[p]
    BY <1>t, <1>5 DEF WorkerStep, WorkerReturn, AcquireSlot, AbandonTask, StartTask,
                      FinishTask, ReleaseSlot, TouchQueue, Busy
  <2>3. QED
    BY <1>1, <2>1, <2>2
<1>6. ASSUME \/ \E c \in Chats : SubmitExisting(c)
             \/ RouterExit \/ PruneOldTasks \/ Stop \/ CleanupIdle
             \/ \E q \in QueueIds : Age(q)
             \/ UNCHANGED vars
      PROVE  SortInv'
  BY <1>1, <1>6 DEF SubmitExisting, RouterExit, PruneOldTasks, Stop, CleanupIdle, Age,
                    vars, taskVars, queueVars
<1>7. QED
  BY <1>2, <1>3, <1>4, <1>5, <1>6 DEF Next

\* A task that is about to start is the oldest unfinished one of its chat.
LEMMA StartsOldest ==
    ASSUME IInv, OrderInv, ~reapedBusy, ~stopped, NEW q \in QueueIds, StartTask(q),
           NEW u \in Tasks, u < wtask[q], chatOf[u] = chatOf[wtask[q]]
    PROVE  status[u] \in Finished
<1>t. /\ worker \in [QueueIds -> Pcs] /\ status \in [Tasks -> Status]
      /\ seq \in 0..MaxTasks /\ wtask \in [QueueIds -> Tasks \cup {NoTask}]
      /\ buf \in [QueueIds -> Seq(Tasks)]
  BY DEF IInv, TypeOK
<1> DEFINE t == wtask[q]
<1>1. /\ worker[q] = "start" /\ t \in Tasks /\ status[t] = "pending"
  BY DEF StartTask, IInv, HoldInv
<1>2. t <= seq /\ status[u] # "none"
  BY <1>t, <1>1, TaskQueueAssumption DEF IInv, SeqInv, Tasks
<1>3. \A p \in QueueIds : worker[p] \in Busy => chatQueues[chatOf[wtask[p]]] = p
  BY DEF OrderInv, OwnInv
<1>4. chatQueues[chatOf[u]] = q
  BY <1>1, <1>3 DEF Busy
<1>5. ASSUME NEW p \in QueueIds, wtask[p] = u PROVE FALSE
  <2>1. worker[p] \in Busy
    BY <1>5, NoTaskNotTask DEF IInv, HoldInv
  <2>2. p = q
    BY <1>3, <1>4, <1>5, <2>1
  <2>3. QED
    BY <1>1, <1>5, <2>2 DEF Tasks
<1>6. ASSUME NEW p \in QueueIds, NEW i \in 1..Len(buf[p]), buf[p][i] = u PROVE FALSE
  <2>1. p = q
    BY <1>4, <1>6 DEF OrderInv, OwnInv
  <2>2. t < u
    BY <1>1, <1>6, <2>1 DEF OrderInv, SortInv, Busy
  <2>3. QED
    BY <1>1, <2>2 DEF Tasks
<1>7. ASSUME router.pc = "send", router.task = u PROVE FALSE
  <2>1. u = seq
    BY <1>7 DEF OrderInv, OwnInv
  <2>2. QED
    BY <1>t, <1>1, <1>2, <2>1 DEF Tasks
<1>8. status[u] # "running"
  BY <1>5 DEF IInv, RunInv
<1>9. status[u] # "pending"
  BY <1>5, <1>6, <1>7 DEF OrderInv, PlacedInv, InPlace
<1>10. QED
  BY <1>t, <1>2, <1>8, <1>9 DEF Status

\* Every step keeps the order of starts.
LEMMA FifoStep == IInv /\ OrderInv /\ [Next]_vars => FifoUnlessReaped'
<1> SUFFICES ASSUME IInv, OrderInv, [Next]_vars, ~reapedBusy', ~stopped',
                    NEW t \in Tasks, NEW u \in Tasks, u < t,
                    chatOf'[u] = chatOf'[t], status'[t] \notin {"none", "pending"}
             PROVE  status'[u] \in Finished
  BY DEF FifoUnlessReaped
<1>0. ~reapedBusy /\ ~stopped
  <2>1. UNCHANGED stopped \/ Stop
    BY DEF Next, SubmitExisting, SubmitFresh, SendTask, RouterExit, WorkerStep,
           WorkerReceive, WorkerReturn, AcquireSlot, AbandonTask, StartTask, FinishTask,
           ReleaseSlot, TouchQueue, Age, CleanupIdle, PruneOldTasks, vars
  <2>2. UNCHANGED reapedBusy \/ CleanupIdle
    BY DEF Next, SubmitExisting, SubmitFresh, SendTask, RouterExit, WorkerStep,
           WorkerReceive, WorkerReturn, AcquireSlot, AbandonTask, StartTask, FinishTask,
           ReleaseSlot, TouchQueue, Age, PruneOldTasks, Stop, vars
  <2>3. ~stopped
    BY <2>1 DEF Stop
  <2>4. ~reapedBusy
    BY <2>2, Zenon DEF CleanupIdle
  <2>5. QED
    BY <2>3, <2>4
<1>a. /\ chatOf[u] = chatOf[t] /\ status[t] \notin {"none", "pending"}
        => status[u] \in Finished
  BY <1>0 DEF OrderInv, FifoUnlessReaped
<1>t. /\ status \in [Tasks -> Status] /\ chatOf \in [Tasks -> Chats]
      /\ seq \in 0..MaxTasks
  BY DEF IInv, TypeOK
<1>1. ASSUME NEW c \in Chats, NewTask(c) PROVE status'[u] \in Finished
  <2>1. /\ status' = [status EXCEPT ![seq + 1] = "pending"]
        /\ chatOf' = [chatOf EXCEPT ![seq + 1] = c]
    BY <1>1 DEF NewTask
  <2>2. t # seq + 1 /\ status[t] # "none"
    BY <1>t, <2>1
  <2>3. u # seq + 1
    BY <1>t, <2>2, TaskQueueAssumption DEF IInv, SeqInv, Tasks
  <2>4. QED
    BY <1>a, <1>t, <2>1, <2>2, <2>3
<1>2. ASSUME NEW q \in QueueIds, StartTask(q) PROVE status'[u] \in Finished
  <2>1. /\ status' = [status EXCEPT ![wtask[q]] = "running"] /\ UNCHANGED chatOf
        /\ wtask[q] \in Tasks /\ status[wtask[q]] = "pending"
    BY <1>2 DEF StartTask, IInv, HoldInv
  <2>2. status[u] \in Finished
    <3>1. CASE t = wtask[q]
      BY <1>0, <1>2, <2>1, <3>1, StartsOldest
    <3>2. CASE t # wtask[q]
      BY <1>a, <1>t, <2>1, <3>2
    <3>3. QED
      BY <3>1, <3>2
  <2>3. u # wtask[q]
    BY <2>1, <2>2 DEF Finished
  <2>4. QED
    BY <1>t, <2>1, <2>2, <2>3
<1>3. ASSUME NEW q \in QueueIds, FinishTask(q) PROVE status'[u] \in Finished
  <2>1. PICK o \in Finished : status' = [status EXCEPT ![wtask[q]] = o]
    BY <1>3 DEF FinishTask
  <2>2. UNCHANGED chatOf /\ wtask[q] \in Tasks /\ status[wtask[q]] = "running"
    BY <1>3 DEF FinishTask, IInv, HoldInv
  <2>3. status[u] \in Finished
    BY <1>a, <1>t, <2>1, <2>2
  <2>4. QED
    BY <1>t, <2>1, <2>2, <2>3
<1>4. ASSUME UNCHANGED <<status, chatOf>> PROVE status'[u] \in Finished
  BY <1>a, <1>4
<1>5. QED
  BY <1>1, <1>2, <1>3, <1>4
  DEF Next, SubmitExisting, SubmitFresh, SendTask, RouterExit, WorkerStep,
      WorkerReceive, WorkerReturn, AcquireSlot, AbandonTask, ReleaseSlot,
      TouchQueue, Age, CleanupIdle, PruneOldTasks, Stop, vars, taskVars

\* A task in a place is unfinished, and it is in that one only.
LEMMA PlacesCount ==
    ASSUME IInv, NEW t \in Tasks
    PROVE  /\ InPlace(t) => t \in InFlight /\ Places(t) = 1
           /\ ~InPlace(t) => Places(t) = 0
<1> DEFINE W == {q \in QueueIds : wtask[q] = t}
           B == {q \in QueueIds : \E i \in DOMAIN buf[q] : buf[q][i] = t}
           R == router.pc = "send" /\ router.task = t
<1>d. Places(t) = Cardinality(W) + Cardinality(B) + (IF R THEN 1 ELSE 0)
  BY DEF Places
<1>t. buf \in [QueueIds -> Seq(Tasks)]
  BY DEF IInv, TypeOK
<1>1. InPlace(t) <=> W # {} \/ B # {} \/ R
  BY <1>t DEF InPlace
<1>2. ASSUME NEW q \in QueueIds, wtask[q] = t
      PROVE  W = {q} /\ B = {} /\ ~R /\ t \in InFlight
  <2>1. \A p \in QueueIds : wtask[p] = t => p = q
    BY <1>2, NoTaskNotTask DEF IInv, HoldInv
  <2>2. B = {}
    BY <1>t, <1>2 DEF IInv, BufInv
  <2>3. ~R
    BY <1>2 DEF IInv, HandInv
  <2>4. t \in InFlight
    <3>1. worker[q] \in Busy
      BY <1>2, NoTaskNotTask DEF IInv, HoldInv
    <3>2. QED
      BY <1>2, <3>1 DEF IInv, HoldInv, Busy, InFlight
  <2>5. QED
    BY <1>2, <2>1, <2>2, <2>3, <2>4
<1>3. ASSUME NEW q \in QueueIds, NEW i \in 1..Len(buf[q]), buf[q][i] = t
      PROVE  W = {} /\ B = {q} /\ ~R /\ t \in InFlight
  <2>1. status[t] = "pending" /\ W = {}
    BY <1>3 DEF IInv, BufInv
  <2>2. \A p \in QueueIds : \A j \in 1..Len(buf[p]) : buf[p][j] = t => p = q
    BY <1>3 DEF IInv, BufInv
  <2>3. ~R
    BY <1>3 DEF IInv, HandInv
  <2>4. QED
    BY <1>t, <1>3, <2>1, <2>2, <2>3 DEF InFlight
<1>4. ASSUME R PROVE W = {} /\ B = {} /\ t \in InFlight
  BY <1>t, <1>4 DEF IInv, HandInv, InFlight
<1>5. Cardinality({}) = 0 /\ \A q \in QueueIds : Cardinality({q}) = 1
  BY FS_EmptySet, FS_Singleton
<1> HIDE DEF W, B, R
<1>6. CASE \E q \in QueueIds : W = {q} /\ B = {} /\ ~R /\ t \in InFlight
  BY <1>1, <1>d, <1>5, <1>6
<1>7. CASE \E q \in QueueIds : W = {} /\ B = {q} /\ ~R /\ t \in InFlight
  BY <1>1, <1>d, <1>5, <1>7
<1>8. CASE R
  BY <1>1, <1>d, <1>4, <1>5, <1>8
<1>9. CASE W = {} /\ B = {} /\ ~R
  BY <1>1, <1>d, <1>5, <1>9
<1>10. W # {} => \E q \in QueueIds : W = {q} /\ B = {} /\ ~R /\ t \in InFlight
  BY <1>2 DEF W
<1>11. B # {} => \E q \in QueueIds : W = {} /\ B = {q} /\ ~R /\ t \in InFlight
  <2>1. SUFFICES ASSUME NEW q \in B
                 PROVE  q \in QueueIds /\ W = {} /\ B = {q} /\ ~R /\ t \in InFlight
    OBVIOUS
  <2>2. q \in QueueIds /\ DOMAIN buf[q] = 1..Len(buf[q])
    BY <1>t DEF B
  <2>3. PICK i \in 1..Len(buf[q]) : buf[q][i] = t
    BY <2>2 DEF B
  <2>4. QED
    BY <1>3, <2>2, <2>3
<1>12. QED
  BY <1>6, <1>7, <1>8, <1>9, <1>10, <1>11

\* The invariants say where each task is, and in which order they start.
LEMMA InOrder == IInv /\ OrderInv => TasksInOrder
<1> SUFFICES ASSUME IInv, OrderInv PROVE TasksInOrder
  OBVIOUS
<1>1. InFlight \subseteq table
  BY DEF OrderInv, TableInv
<1>2. ASSUME NEW t \in Tasks
      PROVE  \/ Places(t) = (IF t \in InFlight THEN 1 ELSE 0)
             \/ stopped /\ status[t] = "pending" /\ Places(t) = 0
  <2>1. CASE InPlace(t) \/ t \notin InFlight
    BY <2>1, PlacesCount
  <2>2. CASE ~InPlace(t) /\ t \in InFlight
    <3>1. Places(t) = 0
      BY <2>2, PlacesCount
    <3>2. status[t] # "running"
      BY <2>2 DEF IInv, RunInv, InPlace
    <3>3. status[t] = "pending"
      BY <2>2, <3>2 DEF InFlight
    <3>4. stopped
      BY <2>2, <3>3 DEF OrderInv, PlacedInv
    <3>5. QED
      BY <3>1, <3>3, <3>4
  <2>3. QED
    BY <2>1, <2>2
<1>3. ASSUME NEW q \in QueueIds, NEW t \in Tasks PROVE Occurrences(buf[q], t) <= 1
  <2> DEFINE P == {i \in DOMAIN buf[q] : buf[q][i] = t}
  <2>1. DOMAIN buf[q] = 1..Len(buf[q])
    BY DEF IInv, TypeOK
  <2>2. P = {} \/ \E i \in DOMAIN buf[q] : P = {i}
    BY <2>1 DEF IInv, BufInv
  <2> HIDE DEF P
  <2>3. CASE P = {}
    BY <2>3, FS_EmptySet DEF P, Occurrences
  <2>4. ASSUME NEW i, P = {i} PROVE Occurrences(buf[q], t) <= 1
    <3>1. Occurrences(buf[q], t) = Cardinality({i})
      BY <2>4, Zenon DEF P, Occurrences
    <3>2. QED
      BY <3>1, FS_Singleton
  <2>5. QED
    BY <2>2, <2>3, <2>4
<1>4. SerialUnlessReaped
  BY DEF OrderInv, OwnInv, SerialUnlessReaped
<1>5. FifoUnlessReaped
  BY DEF OrderInv
<1>6. QED
  BY <1>1, <1>2, <1>3, <1>4, <1>5 DEF TasksInOrder, HeldOnce, ChatOrder
-----------------------------------------------------------------------------
(* Theorems.                                                               *)

\* The strengthened invariant holds in every reachable state.
THEOREM Invariance == Spec => []IInv
<1>1. Init => IInv
  BY InitIInv
<1>2. IInv /\ [Next]_vars => IInv'
  BY TypeStep, SlotStep, MapStep, RouterStep, SeqStep, HoldStep, PlaceStep,
     BufferedStep DEF IInv
<1>3. QED
  BY <1>1, <1>2, PTL DEF Spec

\* Queue keeps its variables in their types; in particular the semaphore is
\* never released below zero nor taken beyond its capacity.
THEOREM TypeCorrect == Spec => []TypeOK
<1>1. IInv => TypeOK
  BY DEF IInv
<1>2. QED
  BY <1>1, Invariance, PTL

\* Submit never sends on a channel that cleanupIdleQueues has closed.
THEOREM SendSafe == Spec => []NoSendOnClosed
<1>1. IInv => NoSendOnClosed
  BY DEF IInv, RouterInv, NoSendOnClosed
<1>2. QED
  BY <1>1, Invariance, PTL

\* No buffered task is left without an open channel and a goroutine.
THEOREM BufferedServed == Spec => []BufferedHasWorker
<1>1. IInv => BufferedHasWorker
  BY DEF IInv
<1>2. QED
  BY <1>1, Invariance, PTL

\* A task is in one place from Submit until it has finished, never lost and
\* never run twice; the tasks of a chat run one at a time and in the order of
\* Submit, unless the ticker has closed the queue of a busy worker.
THEOREM TasksKeptInOrder == Spec => []TasksInOrder
<1>1. Init => OrderInv
  BY InitOrder
<1>2. IInv /\ OrderInv /\ [Next]_vars => OrderInv'
  BY TableStep, PlacedStep, OwnStep, SortStep, FifoStep DEF OrderInv
<1>3. IInv /\ OrderInv => TasksInOrder
  BY InOrder
<1>4. QED
  BY <1>1, <1>2, <1>3, Invariance, PTL DEF Spec

\* Running tasks are no more than the workers that run one, a subset of the
\* holders.
LEMMA RunningBound ==
    ASSUME IInv, NEW S \in SUBSET Holders,
           \A q \in QueueIds : worker[q] = "run" => q \in S
    PROVE  IsFiniteSet(S) /\ IsFiniteSet(Running)
           /\ Cardinality(Running) <= Cardinality(S)
<1> DEFINE R == {q \in S : worker[q] = "run"}
           Image == {wtask[q] : q \in R}
<1>1. IsFiniteSet(S)
  BY HoldersFinite, FS_Subset DEF IInv
<1>2. /\ IsFiniteSet(R) /\ Cardinality(R) <= Cardinality(S)
      /\ Cardinality(R) \in Nat /\ Cardinality(S) \in Nat
  BY <1>1, FS_Subset, FS_CardinalityType
<1>3. IsFiniteSet(Image) /\ Cardinality(Image) <= Cardinality(R)
  <2> DEFINE f == [q \in R |-> wtask[q]]
  <2>1. f \in Surjection(R, Image)
    BY DEF Surjection
  <2> HIDE DEF R, f, Image
  <2>2. QED
    BY <1>2, <2>1, FS_Surjection
<1>4. Running \subseteq Image
  BY DEF IInv, RunInv, Running
<1>5. /\ IsFiniteSet(Running) /\ Cardinality(Running) <= Cardinality(Image)
      /\ Cardinality(Running) \in Nat /\ Cardinality(Image) \in Nat
  <2> HIDE DEF Image
  <2>1. QED
    BY <1>3, <1>4, FS_Subset, FS_CardinalityType
<1>6. QED
  BY <1>1, <1>2, <1>3, <1>5

\* At most MaxConcurrent handlers run, whichever queues are closed or created.
THEOREM ConcurrencyBounded == Spec => []BoundedConcurrency
<1>1. ASSUME IInv PROVE BoundedConcurrency
  <2>1. \A q \in QueueIds : worker[q] = "run" => q \in Holders
    BY DEF Holders, Holding
  <2>2. Cardinality(Running) <= Cardinality(Holders)
    BY <1>1, <2>1, RunningBound
  <2>3. sem = Cardinality(Holders) /\ sem \in 0..MaxConcurrent
    BY <1>1 DEF IInv, SlotInv, TypeOK
  <2>4. IsFiniteSet(Running)
    BY <1>1, <2>1, RunningBound
  <2>5. Cardinality(Running) \in Nat
    BY <2>4, FS_CardinalityType
  <2>6. QED
    BY <2>2, <2>3, <2>5, TaskQueueAssumption DEF BoundedConcurrency
<1>2. QED
  BY <1>1, Invariance, PTL

\* The queue implements TaskPool: tasks go from none to pending to running to
\* an outcome, each at most once, MaxConcurrent at a time.
THEOREM Refinement == Spec => RefinesPool
<1> USE TaskQueueAssumption
<1>1. Init => Pool!PoolInit
  BY DEF Init, Pool!PoolInit, Tasks, Pool!Tasks
<1>2. ASSUME IInv, [Next]_vars PROVE [Pool!PoolNext]_status
  <2> USE <1>2
  <2>0. Tasks = Pool!Tasks /\ Finished = Pool!Finished
    BY DEF Tasks, Pool!Tasks, Finished, Pool!Finished
  <2>1. ASSUME NEW c \in Chats, NewTask(c) PROVE Pool!PoolNext
    <3>1. seq + 1 \in Tasks /\ status[seq + 1] = "none"
      BY <2>1, NewTaskTypes
    <3>2. Pool!PoolSubmit(seq + 1)
      BY <2>1, <3>1 DEF NewTask, Pool!PoolSubmit
    <3>3. QED
      BY <2>0, <3>1, <3>2 DEF Pool!PoolNext
  <2>2. ASSUME NEW q \in QueueIds, StartTask(q) PROVE Pool!PoolNext
    <3> DEFINE S == Holders \ {q}
    <3>1. /\ worker[q] = "start" /\ wtask[q] \in Tasks
          /\ status[wtask[q]] = "pending"
      BY <2>2 DEF StartTask, IInv, HoldInv
    <3>2. \A p \in QueueIds : worker[p] = "run" => p \in S
      BY <3>1 DEF Holders, Holding
    <3>3. /\ IsFiniteSet(Running) /\ Cardinality(Running) <= Cardinality(S)
      <4> HIDE DEF S
      <4>1. S \in SUBSET Holders
        BY DEF S
      <4>2. QED
        BY <3>2, <4>1, RunningBound
    <3>4. q \in Holders /\ IsFiniteSet(Holders)
      BY <3>1, HoldersFinite DEF IInv, Holders, Holding
    <3>5. Cardinality(S) = Cardinality(Holders) - 1
      BY <3>4, FS_RemoveElement
    <3>6. Cardinality(Running) < MaxConcurrent
      <4>1. sem = Cardinality(Holders) /\ sem \in 0..MaxConcurrent
        BY DEF IInv, SlotInv, TypeOK
      <4>2. Cardinality(Running) \in Nat
        BY <3>3, FS_CardinalityType
      <4>3. QED
        BY <3>3, <3>5, <4>1, <4>2
    <3>7. Pool!PoolRunning = Running
      BY <2>0 DEF Running, Pool!PoolRunning
    <3>8. Pool!PoolStart(wtask[q])
      <4>1. Pool!Cardinality(Pool!PoolRunning) = Cardinality(Running)
        BY <3>7 DEF Pool!Cardinality, Cardinality
      <4>2. QED
        BY <2>2, <3>1, <3>6, <4>1 DEF StartTask, Pool!PoolStart
    <3>9. QED
      BY <2>0, <3>1, <3>8 DEF Pool!PoolNext
  <2>3. ASSUME NEW q \in QueueIds, FinishTask(q) PROVE Pool!PoolNext
    <3>1. wtask[q] \in Tasks /\ status[wtask[q]] = "running"
      BY <2>3 DEF FinishTask, IInv, HoldInv
    <3>2. Pool!PoolFinish(wtask[q])
      BY <2>0, <2>3, <3>1 DEF FinishTask, Pool!PoolFinish
    <3>3. QED
      BY <2>0, <3>1, <3>2 DEF Pool!PoolNext
  <2>4. QED
    BY <2>1, <2>2, <2>3
    DEF Next, SubmitExisting, SubmitFresh, SendTask, RouterExit, WorkerStep,
        WorkerReceive, WorkerReturn, AcquireSlot, AbandonTask, ReleaseSlot,
        TouchQueue, Age, CleanupIdle, PruneOldTasks, Stop, vars, taskVars
<1>3. QED
  BY <1>1, <1>2, Invariance, PTL DEF Spec, RefinesPool, Pool!PoolSpec
-----------------------------------------------------------------------------
(* ChannelLease: the lease excludes, as long as an adapter is entitled to  *)
(* the account.                                                            *)

\* What the last good write of g's lease has left at the next tick of its
\* ticker: the TTL less the time from that write to the tick.
Backlog(g) == timer[g] + TTL - RenewInterval * (misses[g] + 1)

\* An entitled loop has the row, and the row has at least that long to live.
Covered ==
    \A g \in Loops : Entitled(g) =>
        holder = PodOf[g] /\ left - Offset[PodOf[g]] >= Backlog(g)

OnTime == \A g \in Loops : timer[g] >= -MaxLate

LeaseInv == LeaseTypeOK /\ OnTime /\ Covered
-----------------------------------------------------------------------------
\* The quantities of the arithmetic below are integers.
LEMMA BacklogInt ==
    ASSUME LeaseTypeOK, NEW g \in Loops
    PROVE  /\ RenewInterval * (misses[g] + 1) \in Int
           /\ Backlog(g) \in Int /\ timer[g] \in Int /\ left \in Int
           /\ misses[g] \in Nat /\ PodOf[g] \in Pods
           /\ Offset[PodOf[g]] \in Int
<1>1. misses[g] \in Nat /\ timer[g] \in Int /\ left \in Int
  BY LeaseAssumption DEF LeaseTypeOK, Floor
<1>2. PodOf[g] \in Pods /\ Offset[PodOf[g]] \in Int
  BY LeaseAssumption
<1>3. RenewInterval * (misses[g] + 1) \in Int
  BY <1>1, LeaseAssumption
<1>4. QED
  BY <1>1, <1>2, <1>3, LeaseAssumption DEF Backlog

\* What an entitled loop has left is more than the clocks are apart.
LEMMA Outlives ==
    ASSUME LeaseInv, NEW g \in Loops, Entitled(g)
    PROVE  /\ left >= Offset[PodOf[g]] + Skew
           /\ \A p \in Pods : left >= Offset[p]
<1>1. left - Offset[PodOf[g]] >= Backlog(g) /\ timer[g] >= -MaxLate
  BY DEF LeaseInv, Covered, OnTime
<1>2. RenewInterval * (misses[g] + 1) + MaxLate + Skew <= TTL
  BY DEF Entitled
<1>3. /\ RenewInterval * (misses[g] + 1) \in Int /\ timer[g] \in Int
      /\ left \in Int /\ Offset[PodOf[g]] \in Int /\ PodOf[g] \in Pods
  BY BacklogInt DEF LeaseInv
<1>4. left >= Offset[PodOf[g]] + Skew
  BY <1>1, <1>2, <1>3, LeaseAssumption DEF Backlog
<1>5. \A p \in Pods : Offset[p] \in 0..Skew
  BY LeaseAssumption
<1>6. QED
  BY <1>3, <1>4, <1>5, LeaseAssumption

\* Nobody else may take the row of an entitled loop.
LEMMA NotTaken ==
    ASSUME LeaseInv, NEW g \in Loops, Entitled(g), NEW p \in Pods, MayTake(p)
    PROVE  p = PodOf[g]
<1>1. holder = PodOf[g] /\ PodOf[g] \in Pods
  BY LeaseAssumption DEF LeaseInv, Covered
<1>2. ~(left < Offset[p])
  <2>1. left >= Offset[p] /\ left \in Int /\ Offset[p] \in Int
    BY Outlives, BacklogInt, LeaseAssumption DEF LeaseInv
  <2>2. QED
    BY <2>1
<1>3. QED
  BY <1>1, <1>2, LeaseAssumption DEF MayTake

\* A freshly written lease covers its loop.
LEMMA Written ==
    ASSUME NEW g \in Loops, WriteLease(PodOf[g]),
           timer'[g] \in Int, timer'[g] <= RenewInterval, misses'[g] = 0
    PROVE  holder' = PodOf[g] /\ left' - Offset[PodOf[g]] >= Backlog(g)'
<1>1. left' = TTL + Offset[PodOf[g]] /\ Offset[PodOf[g]] \in Int
  BY LeaseAssumption DEF WriteLease
<1>2. RenewInterval * (0 + 1) = RenewInterval
  BY LeaseAssumption
<1>3. Backlog(g)' = timer'[g] + TTL - RenewInterval
  BY <1>2 DEF Backlog
<1>4. QED
  BY <1>1, <1>3, LeaseAssumption DEF WriteLease

\* A loop that is started is not the other loop of an entitled one's process.
LEMMA OtherProcess ==
    ASSUME NEW g \in Loops, pc[g] # "off", NEW h \in Loops, h # g, Entitled(h)
    PROVE  PodOf[h] # PodOf[g]
BY DEF Entitled

\* Writing and releasing the row keep its type.
LEMMA RowType ==
    /\ \A p \in Pods : WriteLease(p) =>
          holder' \in Pods \cup {NoPod} /\ left' \in Floor..(TTL + Skew)
    /\ \A p \in Pods : LeaseTypeOK /\ ReleaseChannelLease(p) =>
          holder' \in Pods \cup {NoPod} /\ left' \in Floor..(TTL + Skew)
BY LeaseAssumption DEF WriteLease, ReleaseChannelLease, LeaseTypeOK, Floor

\* No step switches a loop off again, so what is entitled after a step that
\* neither starts an adapter nor renews was entitled before it.
LEMMA EntitledBefore ==
    ASSUME NEW h \in Loops, Serving(h)' => Serving(h), misses'[h] = misses[h],
           \A k \in Loops : pc'[k] = "off" => pc[k] = "off"
    PROVE  Entitled(h)' => Entitled(h)
BY DEF Entitled

\* A step that leaves the row and every entitled loop as they are.
LEMMA QuietStep ==
    ASSUME LeaseInv, UNCHANGED row,
           \A g \in Loops : Entitled(g)' =>
               Entitled(g) /\ timer'[g] = timer[g] /\ misses'[g] = misses[g]
    PROVE  Covered'
BY DEF LeaseInv, Covered, Backlog, row

\* Initially no loop serves.
LEMMA InitLease == LeaseInit => LeaseInv
<1> SUFFICES ASSUME LeaseInit PROVE LeaseInv
  OBVIOUS
<1>1. LeaseTypeOK
  BY LeaseAssumption DEF LeaseInit, LeaseTypeOK, Floor, Points
<1>2. OnTime /\ Covered
  BY LeaseAssumption DEF LeaseInit, OnTime, Covered, Entitled, Serving
<1>3. QED
  BY <1>1, <1>2 DEF LeaseInv

\* The steps of the loop that touch neither the row nor a serving loop.
LEMMA OwnLeaseStep ==
    ASSUME LeaseInv, NEW g \in Loops,
           \/ RegisterAndStart(g) \/ AcquireFails(g) \/ Wake(g)
           \/ AdapterExits(g) \/ OnShutdown(g) \/ Stopped(g)
    PROVE  LeaseInv'
<1>1. UNCHANGED <<row, env, misses>>
  BY DEF RegisterAndStart, AcquireFails, Wake, AdapterExits, OnShutdown, Stopped
<1>2. pc' \in [Loops -> Points]
  BY DEF RegisterAndStart, AcquireFails, Wake, AdapterExits,
     OnShutdown, Stopped, SleepOrDone, Goto, LeaseInv, LeaseTypeOK, Points
<1>3. timer' = timer \/ timer' = [timer EXCEPT ![g] = RetryInterval]
  BY DEF RegisterAndStart, AcquireFails, Wake, AdapterExits,
     OnShutdown, Stopped, SleepOrDone
<1>4. timer' \in [Loops -> Int] /\ OnTime'
  BY <1>3, LeaseAssumption DEF LeaseInv, LeaseTypeOK, OnTime
<1>5. polling' \in [Loops -> BOOLEAN]
  <2>1. polling' = polling \/ polling' = [polling EXCEPT ![g] = FALSE]
    BY DEF RegisterAndStart, AcquireFails, Wake, AdapterExits, OnShutdown, Stopped
  <2>2. QED
    BY <2>1 DEF LeaseInv, LeaseTypeOK
<1>6. LeaseTypeOK'
  BY <1>1, <1>2, <1>4, <1>5 DEF LeaseInv, LeaseTypeOK, row, env
<1>7. \A h \in Loops : Serving(h)' => Serving(h) /\ timer'[h] = timer[h]
  BY <1>1 DEF RegisterAndStart, AcquireFails, Wake, AdapterExits, OnShutdown,
     Stopped, SleepOrDone, Goto, LeaseInv, LeaseTypeOK, Serving, Up, env
<1>8. \A k \in Loops : pc'[k] = "off" => pc[k] = "off"
  BY DEF RegisterAndStart, AcquireFails, Wake, AdapterExits, OnShutdown,
     Stopped, SleepOrDone, Goto, LeaseInv, LeaseTypeOK
<1>9. \A h \in Loops : Entitled(h)' => Entitled(h) /\ timer'[h] = timer[h]
  BY <1>1, <1>7, <1>8, EntitledBefore DEF Entitled
<1>10. QED
  BY <1>1, <1>4, <1>6, <1>9, QuietStep DEF LeaseInv

\* A loop that takes the row is covered, and nobody was entitled besides it.
LEMMA AcquireStep ==
    ASSUME LeaseInv, NEW g \in Loops, Acquire(g)
    PROVE  LeaseInv'
<1>1. /\ pc' = [pc EXCEPT ![g] = "hold"]
      /\ timer' = [timer EXCEPT ![g] = RenewInterval]
      /\ misses' = [misses EXCEPT ![g] = 0]
      /\ polling' = [polling EXCEPT ![g] = TRUE]
      /\ UNCHANGED env /\ WriteLease(PodOf[g]) /\ MayTake(PodOf[g])
      /\ pc[g] = "try"
  BY DEF Acquire, Goto
<1>2. PodOf[g] \in Pods
  BY LeaseAssumption
<1>3. LeaseTypeOK'
  <2>1. polling' \in [Loops -> BOOLEAN]
    BY <1>1 DEF LeaseInv, LeaseTypeOK
  <2>2. pc' \in [Loops -> Points]
    BY <1>1 DEF LeaseInv, LeaseTypeOK, Points
  <2>3. timer' \in [Loops -> Int] /\ misses' \in [Loops -> 0..MaxMisses]
    BY <1>1, LeaseAssumption DEF LeaseInv, LeaseTypeOK
  <2>4. QED
    BY <1>1, <1>2, <2>1, <2>2, <2>3, RowType DEF LeaseInv, LeaseTypeOK, env
<1>4. OnTime'
  BY <1>1, LeaseAssumption DEF LeaseInv, OnTime, LeaseTypeOK
<1>5. \A h \in Loops : h # g => ~Entitled(h)'
  <2> SUFFICES ASSUME NEW h \in Loops, h # g, Entitled(h)' PROVE FALSE
    OBVIOUS
  <2>1. Serving(h)' => Serving(h)
    BY <1>1 DEF Serving, Up, LeaseInv, LeaseTypeOK, env
  <2>2. misses'[h] = misses[h] /\ \A k \in Loops : pc'[k] = "off" => pc[k] = "off"
    BY <1>1 DEF LeaseInv, LeaseTypeOK
  <2>3. Entitled(h)
    BY <2>1, <2>2, EntitledBefore
  <2>4. PodOf[g] = PodOf[h]
    BY <1>1, <1>2, <2>3, NotTaken
  <2>5. QED
    BY <1>1, <2>3, <2>4, OtherProcess
<1>6. holder' = PodOf[g] /\ left' - Offset[PodOf[g]] >= Backlog(g)'
  <2>1. timer'[g] = RenewInterval /\ misses'[g] = 0
    BY <1>1 DEF LeaseInv, LeaseTypeOK
  <2>2. QED
    BY <1>1, <2>1, Written, LeaseAssumption
<1>7. QED
  BY <1>3, <1>4, <1>5, <1>6 DEF LeaseInv, Covered

\* A renewal covers its loop anew, or ends it.
LEMMA RenewStep ==
    ASSUME LeaseInv, NEW g \in Loops, Renew(g)
    PROVE  LeaseInv'
<1>1. CASE holder = PodOf[g]
  <2>1. /\ WriteLease(PodOf[g]) /\ RenewDue(g)
        /\ timer' = [timer EXCEPT ![g] = @ + RenewInterval]
        /\ misses' = [misses EXCEPT ![g] = 0]
        /\ UNCHANGED <<pc, polling, env>>
    BY <1>1 DEF Renew
  <2>2. PodOf[g] \in Pods
    BY LeaseAssumption
  <2>3. timer[g] \in Int /\ timer[g] <= 0 /\ pc[g] = "hold"
    BY <2>1 DEF RenewDue, LeaseInv, LeaseTypeOK
  <2>4. LeaseTypeOK'
    <3>1. timer' \in [Loops -> Int] /\ misses' \in [Loops -> 0..MaxMisses]
      BY <2>1, <2>3, LeaseAssumption DEF LeaseInv, LeaseTypeOK
    <3>2. pc' \in [Loops -> Points] /\ polling' \in [Loops -> BOOLEAN]
      BY <2>1 DEF LeaseInv, LeaseTypeOK
    <3>3. QED
      BY <2>1, <2>2, <3>1, <3>2, RowType DEF LeaseInv, LeaseTypeOK, env
  <2>5. OnTime'
    BY <2>1, <2>3, LeaseAssumption DEF LeaseInv, OnTime, LeaseTypeOK
  <2>6. \A h \in Loops : h # g => ~Entitled(h)'
    <3> SUFFICES ASSUME NEW h \in Loops, h # g, Entitled(h)' PROVE FALSE
      OBVIOUS
    <3>1. Serving(h)' => Serving(h)
      BY <2>1 DEF Serving, Up, env
    <3>2. misses'[h] = misses[h] /\ pc' = pc
      BY <2>1 DEF LeaseInv, LeaseTypeOK
    <3>3. Entitled(h)
      BY <3>1, <3>2, EntitledBefore
    <3>4. holder = PodOf[h]
      BY <3>3 DEF LeaseInv, Covered
    <3>5. QED
      BY <1>1, <2>3, <3>3, <3>4, OtherProcess
  <2>7. holder' = PodOf[g] /\ left' - Offset[PodOf[g]] >= Backlog(g)'
    <3>1. /\ timer'[g] = timer[g] + RenewInterval /\ misses'[g] = 0
          /\ timer[g] + RenewInterval \in Int
          /\ timer[g] + RenewInterval <= RenewInterval
      BY <2>1, <2>3, LeaseAssumption DEF LeaseInv, LeaseTypeOK
    <3>2. QED
      BY <2>1, <3>1, Written
  <2>8. QED
    BY <2>4, <2>5, <2>6, <2>7 DEF LeaseInv, Covered
<1>2. CASE holder # PodOf[g]
  <2>1. /\ pc' = [pc EXCEPT ![g] = "lost"]
        /\ UNCHANGED <<row, timer, misses, polling, env>>
    BY <1>2 DEF Renew, Goto
  <2>2. LeaseTypeOK'
    BY <2>1 DEF LeaseInv, LeaseTypeOK, Points, row, env
  <2>3. \A h \in Loops : Serving(h)' => Serving(h)
    BY <2>1 DEF LeaseInv, LeaseTypeOK, Serving, Up, env
  <2>4. \A k \in Loops : pc'[k] = "off" => pc[k] = "off"
    BY <2>1 DEF LeaseInv, LeaseTypeOK
  <2>5. \A h \in Loops : Entitled(h)' => Entitled(h)
    BY <2>1, <2>3, <2>4, EntitledBefore
  <2>6. QED
    BY <2>1, <2>2, <2>5, QuietStep DEF LeaseInv, OnTime
<1>3. QED
  BY <1>1, <1>2

\* A failed renewal moves the next tick by what it takes from the backlog.
LEMMA RenewFailsStep ==
    ASSUME LeaseInv, NEW g \in Loops, RenewFails(g)
    PROVE  LeaseInv'
<1>1. /\ timer' = [timer EXCEPT ![g] = @ + RenewInterval]
      /\ misses' = [misses EXCEPT ![g] = @ + 1]
      /\ misses[g] < MaxMisses
      /\ UNCHANGED <<row, pc, polling, env>>
  BY DEF RenewFails
<1>2. timer[g] \in Int /\ misses[g] \in 0..MaxMisses
  BY DEF LeaseInv, LeaseTypeOK
<1>3. LeaseTypeOK'
  <2>1. timer' \in [Loops -> Int] /\ misses' \in [Loops -> 0..MaxMisses]
    BY <1>1, <1>2, LeaseAssumption DEF LeaseInv, LeaseTypeOK
  <2>2. pc' \in [Loops -> Points] /\ polling' \in [Loops -> BOOLEAN]
    BY <1>1 DEF LeaseInv, LeaseTypeOK
  <2>3. QED
    BY <1>1, <2>1, <2>2 DEF LeaseInv, LeaseTypeOK, row, env
<1>4. OnTime'
  BY <1>1, <1>2, LeaseAssumption DEF LeaseInv, OnTime, LeaseTypeOK
<1>5. \A h \in Loops : Serving(h)' <=> Serving(h)
  BY <1>1 DEF Serving, Up, env
<1>6. timer'[g] = timer[g] + RenewInterval /\ misses'[g] = misses[g] + 1
  BY <1>1 DEF LeaseInv, LeaseTypeOK
<1>7. /\ RenewInterval * (misses[g] + 1 + 1)
             = RenewInterval * (misses[g] + 1) + RenewInterval
      /\ RenewInterval * (misses[g] + 1) \in Int
  BY <1>2, LeaseAssumption
<1>8. Backlog(g)' = Backlog(g)
  BY <1>2, <1>6, <1>7, LeaseAssumption DEF Backlog
<1>9. Entitled(g)' => Entitled(g)
  BY <1>1, <1>2, <1>5, <1>6, <1>7, LeaseAssumption DEF Entitled
<1>10. \A h \in Loops : h # g => timer'[h] = timer[h] /\ misses'[h] = misses[h]
  BY <1>1 DEF LeaseInv, LeaseTypeOK
<1>11. \A h \in Loops : h # g =>
          (Entitled(h)' => Entitled(h)) /\ Backlog(h)' = Backlog(h)
  BY <1>1, <1>5, <1>10, EntitledBefore DEF Backlog
<1>12. Covered'
  BY <1>1, <1>8, <1>9, <1>11 DEF LeaseInv, Covered, row
<1>13. QED
  BY <1>3, <1>4, <1>12 DEF LeaseInv

\* A loop that releases the row does not serve, and the row of an entitled
\* loop is not its process's.
LEMMA ReleaseStep ==
    ASSUME LeaseInv, NEW g \in Loops, OnDone(g) \/ Closed(g)
    PROVE  LeaseInv'
<1>1. /\ ReleaseChannelLease(PodOf[g]) /\ UNCHANGED <<misses, env>>
      /\ ~Serving(g) /\ pc[g] # "off"
  BY DEF OnDone, Closed, Serving
<1>2. PodOf[g] \in Pods
  BY LeaseAssumption
<1>3. timer' = timer \/ timer' = [timer EXCEPT ![g] = RetryInterval]
  BY DEF OnDone, Closed, SleepOrDone
<1>4. timer' \in [Loops -> Int] /\ OnTime'
  BY <1>3, LeaseAssumption DEF LeaseInv, LeaseTypeOK, OnTime
<1>5. LeaseTypeOK'
  <2>1. pc' \in [Loops -> Points]
    BY DEF OnDone, Closed, SleepOrDone, Goto, LeaseInv, LeaseTypeOK, Points
  <2>2. polling' \in [Loops -> BOOLEAN]
    BY DEF OnDone, Closed, LeaseInv, LeaseTypeOK
  <2>3. QED
    BY <1>1, <1>2, <1>4, <2>1, <2>2, RowType DEF LeaseInv, LeaseTypeOK, env
<1>6. \A h \in Loops : Serving(h)' => Serving(h) /\ timer'[h] = timer[h] /\ h # g
  BY <1>1 DEF OnDone, Closed, SleepOrDone, Goto, LeaseInv, LeaseTypeOK, Serving, Up, env
<1>7. \A k \in Loops : pc'[k] = "off" => pc[k] = "off"
  BY DEF OnDone, Closed, SleepOrDone, Goto, LeaseInv, LeaseTypeOK
<1>8. \A h \in Loops : Entitled(h)' =>
          Entitled(h) /\ timer'[h] = timer[h] /\ h # g
  BY <1>1, <1>6, <1>7, EntitledBefore DEF Entitled
<1>9. \A h \in Loops : Entitled(h)' => holder' = holder /\ left' = left
  <2> SUFFICES ASSUME NEW h \in Loops, Entitled(h)'
               PROVE  holder' = holder /\ left' = left
    OBVIOUS
  <2>1. Entitled(h) /\ h # g /\ holder = PodOf[h]
    BY <1>8 DEF LeaseInv, Covered
  <2>2. holder # PodOf[g]
    BY <1>1, <2>1, OtherProcess
  <2>3. QED
    BY <1>1, <2>2 DEF ReleaseChannelLease
<1>10. Covered'
  BY <1>1, <1>8, <1>9 DEF LeaseInv, Covered, Backlog
<1>11. QED
  BY <1>4, <1>5, <1>10 DEF LeaseInv

\* A process that goes down or crashes serves less than before.
LEMMA EnvStep ==
    ASSUME LeaseInv, NEW p \in Pods, Shutdown(p) \/ Crash(p)
    PROVE  LeaseInv'
<1>1. UNCHANGED <<row, timer, misses>> /\ down \subseteq down'
  BY DEF Shutdown, Crash, loop
<1>2. LeaseTypeOK'
  <2>1. pc' \in [Loops -> Points]
    BY DEF Shutdown, Crash, loop, LeaseInv, LeaseTypeOK, Points
  <2>2. polling' \in [Loops -> BOOLEAN]
    <3>1. polling' = polling
          \/ polling' = [g \in Loops |-> polling[g] /\ PodOf[g] # p]
      BY DEF Shutdown, Crash, loop
    <3>2. QED
      BY <3>1, Zenon DEF LeaseInv, LeaseTypeOK
  <2>3. down' \in SUBSET Pods /\ dead' \in SUBSET down'
    BY DEF Shutdown, Crash, LeaseInv, LeaseTypeOK
  <2>4. QED
    BY <1>1, <2>1, <2>2, <2>3 DEF LeaseInv, LeaseTypeOK, row
<1>3. \A h \in Loops : Serving(h)' => Serving(h)
  <2>1. CASE Shutdown(p)
    BY <2>1 DEF Shutdown, loop, Serving, Up
  <2>2. CASE Crash(p)
    <3> SUFFICES ASSUME NEW h \in Loops, Serving(h)' PROVE Serving(h)
      OBVIOUS
    <3>1. PodOf[h] # p /\ Up(h)
      BY <2>2 DEF Crash, Serving, Up
    <3>2. pc'[h] = pc[h]
      BY <2>2, <3>1 DEF Crash
    <3>3. polling'[h] => polling[h]
      BY <2>2, Zenon DEF Crash
    <3>4. QED
      BY <3>1, <3>2, <3>3 DEF Serving
  <2>3. QED
    BY <2>1, <2>2
<1>4. \A k \in Loops : pc'[k] = "off" => pc[k] = "off"
  BY DEF Shutdown, Crash, loop
<1>5. \A h \in Loops : Entitled(h)' => Entitled(h)
  BY <1>1, <1>3, <1>4, EntitledBefore
<1>6. QED
  BY <1>1, <1>2, <1>5, QuietStep DEF LeaseInv, OnTime

\* Time takes as much from the lease as from the backlog.
LEMMA TickStep ==
    ASSUME LeaseInv, Tick
    PROVE  LeaseInv'
<1>1. UNCHANGED <<holder, pc, misses, polling, env>>
  BY DEF Tick
<1>2. timer' \in [Loops -> Int]
  BY LeaseAssumption DEF Tick, LeaseInv, LeaseTypeOK
<1>3. left' \in Floor..(TTL + Skew)
  BY LeaseAssumption DEF Tick, LeaseInv, LeaseTypeOK, Floor
<1>4. LeaseTypeOK'
  <2>1. pc' \in [Loops -> Points] /\ polling' \in [Loops -> BOOLEAN]
    BY <1>1 DEF LeaseInv, LeaseTypeOK
  <2>2. QED
    BY <1>1, <1>2, <1>3, <2>1 DEF LeaseInv, LeaseTypeOK, env
<1>5. OnTime'
  BY LeaseAssumption DEF Tick, LeaseInv, LeaseTypeOK, OnTime
<1>6. Covered'
  <2> SUFFICES ASSUME NEW g \in Loops, Entitled(g)'
               PROVE  /\ holder' = PodOf[g]
                      /\ left' - Offset[PodOf[g]] >= Backlog(g)'
    BY DEF Covered
  <2>1. Entitled(g) /\ Serving(g)
    <3>1. Serving(g)' => Serving(g)
      BY <1>1 DEF Serving, Up, env
    <3>2. QED
      BY <1>1, <3>1, EntitledBefore DEF Entitled
  <2>2. timer'[g] = timer[g] - 1
    BY <2>1 DEF Tick, Serving
  <2>3. /\ Backlog(g) \in Int /\ timer[g] \in Int /\ left \in Int
        /\ RenewInterval * (misses[g] + 1) \in Int
        /\ Offset[PodOf[g]] \in Int /\ PodOf[g] \in Pods
    BY BacklogInt DEF LeaseInv
  <2>4. left' = left - 1
    <3>1. left >= Offset[PodOf[g]] /\ Offset[PodOf[g]] \in Nat
      BY <2>1, Outlives, LeaseAssumption
    <3>2. left > Floor
      BY <2>3, <3>1 DEF Floor
    <3>3. QED
      BY <3>2 DEF Tick
  <2>5. Backlog(g)' = Backlog(g) - 1
    BY <1>1, <2>2, <2>3, LeaseAssumption DEF Backlog
  <2>6. left - Offset[PodOf[g]] >= Backlog(g) /\ holder = PodOf[g]
    BY <2>1 DEF LeaseInv, Covered
  <2>7. QED
    BY <1>1, <2>3, <2>4, <2>5, <2>6
<1>7. QED
  BY <1>4, <1>5, <1>6 DEF LeaseInv
-----------------------------------------------------------------------------
\* Every step of the system preserves the invariant.
LEMMA NextLease == LeaseInv /\ [LeaseNext]_leaseVars => LeaseInv'
<1> SUFFICES ASSUME LeaseInv, [LeaseNext]_leaseVars PROVE LeaseInv'
  OBVIOUS
<1>1. ASSUME NEW g \in Loops,
             \/ LoopStep(g) \/ Renew(g)
             \/ RegisterAndStart(g) \/ Acquire(g) \/ AcquireFails(g)
             \/ RenewFails(g) \/ AdapterExits(g)
      PROVE  LeaseInv'
  BY <1>1, OwnLeaseStep, AcquireStep, RenewStep, RenewFailsStep, ReleaseStep DEF LoopStep
<1>2. CASE \E p \in Pods : Shutdown(p) \/ Crash(p)
  BY <1>2, EnvStep
<1>3. CASE Tick
  BY <1>3, TickStep
<1>4. CASE UNCHANGED leaseVars
  <2>1. LeaseTypeOK' /\ OnTime'
    BY <1>4 DEF LeaseInv, LeaseTypeOK, OnTime, leaseVars, row, loop, env
  <2>2. Covered'
    BY <1>4, QuietStep DEF leaseVars, row, loop, env, Entitled, Serving, Up
  <2>3. QED
    BY <2>1, <2>2 DEF LeaseInv
<1>5. QED
  BY <1>1, <1>2, <1>3, <1>4 DEF LeaseNext

\* The invariant holds in every reachable state.
THEOREM LeaseInvariance == LeaseSpec => []LeaseInv
<1>1. LeaseInv /\ [LeaseNext]_leaseVars => LeaseInv'
  BY NextLease
<1>2. QED
  BY <1>1, InitLease, PTL DEF LeaseSpec

\* Every variable of the row, the loops and the processes keeps its type.
THEOREM LeaseTypeCorrect == LeaseSpec => []LeaseTypeOK
<1>1. LeaseInv => LeaseTypeOK
  BY DEF LeaseInv
<1>2. QED
  BY <1>1, LeaseInvariance, PTL

\* No two adapters that are entitled to the account serve it at once.
THEOREM OnePollerHolds == LeaseSpec => []OnePoller
<1>1. LeaseInv => OnePoller
  <2> SUFFICES ASSUME LeaseInv, NEW g \in Loops, NEW h \in Loops,
                      Entitled(g), Entitled(h), g # h
               PROVE  FALSE
    BY DEF OnePoller
  <2>1. PodOf[g] = PodOf[h]
    BY DEF LeaseInv, Covered
  <2>2. pc[g] # "off"
    BY DEF Entitled, Serving
  <2>3. QED
    BY <2>1, <2>2, OtherProcess
<1>2. QED
  BY <1>1, LeaseInvariance, PTL

\* The lease of an entitled adapter is live on every clock.
THEOREM LeaseCoversHolds == LeaseSpec => []LeaseCovers
<1>1. LeaseInv => LeaseCovers
  BY Outlives DEF LeaseInv, Covered, LeaseCovers
<1>2. QED
  BY <1>1, LeaseInvariance, PTL

\* LeaseExcludes: both of the above.
THEOREM LeaseExcludesHolds == LeaseSpec => []LeaseExcludes
<1>1. OnePoller /\ LeaseCovers => LeaseExcludes
  BY DEF LeaseExcludes
<1>2. QED
  BY <1>1, OnePollerHolds, LeaseCoversHolds, PTL
=============================================================================
