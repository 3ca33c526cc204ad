----------------------------- MODULE TaskQueue ------------------------------
(***************************************************************************)
(* The task queue of the gateway (internal/taskqueue/queue.go): a FIFO     *)
(* channel and a worker goroutine per chat, one counting semaphore for all *)
(* of them, a ticker that closes idle chat queues, and the retention of    *)
(* finished task records.  Submit has one caller, the goroutine of         *)
(* Gateway.processInbound, here the router.                                *)
(*                                                                         *)
(* A chat queue and its worker are named by an element of QueueIds; an id  *)
(* whose worker has returned may name a later queue.  Task ids are the     *)
(* values of Queue.seq.  "stale[q]" stands for now - lastUsed >            *)
(* idleTimeout: time passing sets it, assigning lastUsed clears it.        *)
(***************************************************************************)
EXTENDS Integers, Sequences, FiniteSets

CONSTANTS
    Chats,          \* chat keys "channel:account:chat"
    QueueIds,       \* bound on chat queues alive at the same time
    MaxTasks,       \* bound on Submit calls
    MaxConcurrent,  \* capacity of the semaphore
    ChanCap,        \* capacity of a chat channel (100 in the code)
    RetentionLimit, \* task records kept by pruneOldTasks (200 in the code)
    NoQueue, NoTask

ASSUME TaskQueueAssumption ==
    /\ IsFiniteSet(QueueIds)
    /\ MaxTasks \in Nat
    /\ MaxConcurrent \in Nat \ {0}
    /\ ChanCap \in Nat \ {0}
    /\ RetentionLimit \in Nat
    /\ NoQueue \notin QueueIds
    /\ NoTask \notin Nat

VARIABLES
    seq,        \* Queue.seq, the last task id given out
    table,      \* keys of Queue.tasks
    status,     \* task -> Task.Status, "none" before it exists
    chatOf,     \* task -> Task.ChatKey (any value before it exists)
    chatQueues, \* chat -> its queue in Queue.chatQueues, or NoQueue
    buf,        \* queue -> tasks buffered in its channel
    closed,     \* queue -> the channel was closed
    stale,      \* queue -> lastUsed is older than idleTimeout
    worker,     \* queue -> control point of its goroutine
    wtask,      \* queue -> task its goroutine holds, or NoTask
    sem,        \* len(Queue.sem)
    router,     \* control point and locals of the submitting goroutine
    stopped,    \* Queue.ctx is cancelled
    reapedBusy  \* history: a queue was closed while its worker held a task

vars == <<seq, table, status, chatOf, chatQueues, buf, closed, stale, worker,
          wtask, sem, router, stopped, reapedBusy>>

queueVars == <<chatQueues, buf, closed, stale>>
taskVars  == <<seq, table, status, chatOf>>

Tasks    == 1..MaxTasks
Finished == {"done", "failed"}
Status   == {"none", "pending", "running"} \cup Finished

\* The worker holds a task it has not finished / holds a semaphore slot.
Busy    == {"acquire", "start", "run"}
Holding == {"start", "run", "release"}
Pcs     == {"none", "recv", "touch", "gone"} \cup Busy \cup Holding

Holders  == {q \in QueueIds : worker[q] \in Holding}
Running  == {t \in Tasks : status[t] = "running"}
InFlight == {t \in Tasks : status[t] \in {"pending", "running"}}

Idle == [pc |-> "idle", task |-> NoTask, queue |-> NoQueue]

Init ==
    /\ seq = 0
    /\ table = {}
    /\ status = [t \in Tasks |-> "none"]
    /\ chatOf \in {[t \in Tasks |-> c] : c \in Chats}
    /\ chatQueues = [c \in Chats |-> NoQueue]
    /\ buf = [q \in QueueIds |-> <<>>]
    /\ closed = [q \in QueueIds |-> FALSE]
    /\ stale = [q \in QueueIds |-> FALSE]
    /\ worker = [q \in QueueIds |-> "none"]
    /\ wtask = [q \in QueueIds |-> NoTask]
    /\ sem = 0
    /\ router = Idle
    /\ stopped = FALSE
    /\ reapedBusy = FALSE
-----------------------------------------------------------------------------
(* Submit: the part under q.mu, then the channel send outside the lock.    *)

\* The record of the new task, filed under the id Queue.seq + 1.
NewTask(c) ==
    /\ seq < MaxTasks
    /\ seq' = seq + 1
    /\ table' = table \cup {seq + 1}
    /\ status' = [status EXCEPT ![seq + 1] = "pending"]
    /\ chatOf' = [chatOf EXCEPT ![seq + 1] = c]

\* Mutant: the lookup of an existing queue does not refresh lastUsed.
SubmitExisting_NoTouch(c) ==
    LET q == chatQueues[c] IN
    /\ router.pc = "idle"
    /\ q # NoQueue
    /\ NewTask(c)
    /\ router' = [pc |-> "send", task |-> seq + 1, queue |-> q]
    /\ UNCHANGED <<queueVars, worker, wtask, sem, stopped, reapedBusy>>

SubmitExisting(c) ==
    LET q == chatQueues[c] IN
    /\ router.pc = "idle"
    /\ q # NoQueue
    /\ NewTask(c)
    /\ stale' = [stale EXCEPT ![q] = FALSE]
    /\ router' = [pc |-> "send", task |-> seq + 1, queue |-> q]
    /\ UNCHANGED <<chatQueues, buf, closed, worker, wtask, sem, stopped,
                   reapedBusy>>

\* Mutant: the new queue is not stored in the map.
SubmitFresh_NotStored(c, q) ==
    /\ router.pc = "idle"
    /\ chatQueues[c] = NoQueue
    /\ worker[q] = "none"
    /\ NewTask(c)
    /\ buf' = [buf EXCEPT ![q] = <<>>]
    /\ closed' = [closed EXCEPT ![q] = FALSE]
    /\ stale' = [stale EXCEPT ![q] = FALSE]
    /\ worker' = [worker EXCEPT ![q] = "recv"]
    /\ router' = [pc |-> "send", task |-> seq + 1, queue |-> q]
    /\ UNCHANGED <<chatQueues, wtask, sem, stopped, reapedBusy>>

\* make(chan), the map entry and "go processChatQueue".
SubmitFresh(c, q) ==
    /\ router.pc = "idle"
    /\ chatQueues[c] = NoQueue
    /\ worker[q] = "none"
    /\ NewTask(c)
    /\ chatQueues' = [chatQueues EXCEPT ![c] = q]
    /\ buf' = [buf EXCEPT ![q] = <<>>]
    /\ closed' = [closed EXCEPT ![q] = FALSE]
    /\ stale' = [stale EXCEPT ![q] = FALSE]
    /\ worker' = [worker EXCEPT ![q] = "recv"]
    /\ router' = [pc |-> "send", task |-> seq + 1, queue |-> q]
    /\ UNCHANGED <<wtask, sem, stopped, reapedBusy>>

\* Mutant: a send that gives up when the channel is full.
SendTask_DropsWhenFull ==
    /\ router.pc = "send"
    /\ buf' = IF Len(buf[router.queue]) < ChanCap
                THEN [buf EXCEPT ![router.queue] = Append(@, router.task)]
                ELSE buf
    /\ router' = Idle
    /\ UNCHANGED <<taskVars, chatQueues, closed, stale, worker, wtask, sem,
                   stopped, reapedBusy>>

\* cq.ch <- task: blocks while the channel is full, panics once it is closed
\* (NoSendOnClosed shows that it never is).
SendTask ==
    /\ router.pc = "send"
    /\ Len(buf[router.queue]) < ChanCap
    /\ buf' = [buf EXCEPT ![router.queue] = Append(@, router.task)]
    /\ router' = Idle
    /\ UNCHANGED <<taskVars, chatQueues, closed, stale, worker, wtask, sem,
                   stopped, reapedBusy>>

\* processInbound returns when the gateway's context is cancelled.
RouterExit ==
    /\ router.pc = "idle"
    /\ router' = [Idle EXCEPT !.pc = "exited"]
    /\ UNCHANGED <<taskVars, queueVars, worker, wtask, sem, stopped,
                   reapedBusy>>
-----------------------------------------------------------------------------
(* processChatQueue and executeTask, the goroutine of queue q.             *)

\* The receive also lets a send parked on the full channel through, as the Go
\* runtime does under the channel's lock.
Parked(q) == router.pc = "send" /\ router.queue = q /\ Len(buf[q]) = ChanCap

WorkerReceive(q) ==
    /\ worker[q] = "recv"
    /\ buf[q] # <<>>
    /\ wtask' = [wtask EXCEPT ![q] = Head(buf[q])]
    /\ \/ /\ Parked(q)
          /\ buf' = [buf EXCEPT ![q] = Append(Tail(@), router.task)]
          /\ router' = Idle
       \/ /\ ~Parked(q)
          /\ buf' = [buf EXCEPT ![q] = Tail(@)]
          /\ UNCHANGED router
    /\ worker' = [worker EXCEPT ![q] = "acquire"]
    /\ UNCHANGED <<taskVars, chatQueues, closed, stale, sem, stopped,
                   reapedBusy>>

\* The goroutine returns: its channel is closed and drained, or the queue's
\* context is done.
WorkerReturn(q) ==
    /\ worker[q] = "recv"
    /\ (closed[q] /\ buf[q] = <<>>) \/ stopped
    /\ worker' = [worker EXCEPT ![q] = IF closed[q] THEN "none" ELSE "gone"]
    /\ UNCHANGED <<taskVars, queueVars, wtask, sem, router, stopped,
                   reapedBusy>>

\* Mutant: one slot too many.
AcquireSlot_OneTooMany(q) ==
    /\ worker[q] = "acquire"
    /\ sem <= MaxConcurrent
    /\ sem' = sem + 1
    /\ worker' = [worker EXCEPT ![q] = "start"]
    /\ UNCHANGED <<taskVars, queueVars, wtask, router, stopped, reapedBusy>>

AcquireSlot(q) ==
    /\ worker[q] = "acquire"
    /\ sem < MaxConcurrent
    /\ sem' = sem + 1
    /\ worker' = [worker EXCEPT ![q] = "start"]
    /\ UNCHANGED <<taskVars, queueVars, wtask, router, stopped, reapedBusy>>

\* The other case of the same select: the task stays pending.
AbandonTask(q) ==
    /\ worker[q] = "acquire"
    /\ stopped
    /\ wtask' = [wtask EXCEPT ![q] = NoTask]
    /\ worker' = [worker EXCEPT ![q] = "touch"]
    /\ UNCHANGED <<taskVars, queueVars, sem, router, stopped, reapedBusy>>

StartTask(q) ==
    /\ worker[q] = "start"
    /\ status' = [status EXCEPT ![wtask[q]] = "running"]
    /\ worker' = [worker EXCEPT ![q] = "run"]
    /\ UNCHANGED <<seq, table, chatOf, queueVars, wtask, sem, router, stopped,
                   reapedBusy>>

\* The handler returns, at the latest when the task's context times out.
FinishTask(q) ==
    /\ worker[q] = "run"
    /\ \E outcome \in Finished :
          status' = [status EXCEPT ![wtask[q]] = outcome]
    /\ wtask' = [wtask EXCEPT ![q] = NoTask]
    /\ worker' = [worker EXCEPT ![q] = "release"]
    /\ UNCHANGED <<seq, table, chatOf, queueVars, sem, router, stopped,
                   reapedBusy>>

\* Mutant: the slot is kept until the chat has no more tasks.
ReleaseSlot_WhenDrained(q) ==
    /\ worker[q] = "release" /\ buf[q] = <<>>
    /\ sem' = sem - 1
    /\ worker' = [worker EXCEPT ![q] = "touch"]
    /\ UNCHANGED <<taskVars, queueVars, wtask, router, stopped, reapedBusy>>

ReleaseSlot(q) ==
    /\ worker[q] = "release"
    /\ sem' = sem - 1
    /\ worker' = [worker EXCEPT ![q] = "touch"]
    /\ UNCHANGED <<taskVars, queueVars, wtask, router, stopped, reapedBusy>>

\* lastUsed = now after the task.
TouchQueue(q) ==
    /\ worker[q] = "touch"
    /\ stale' = [stale EXCEPT ![q] = FALSE]
    /\ worker' = [worker EXCEPT ![q] = "recv"]
    /\ UNCHANGED <<taskVars, chatQueues, buf, closed, wtask, sem, router,
                   stopped, reapedBusy>>
-----------------------------------------------------------------------------
(* Time, the idle ticker, retention and Stop.                              *)

\* idleTimeout (5 minutes) passes without an assignment to lastUsed.  The
\* router's few instructions between unlock and send do not take that long
\* unless the send is parked on a full channel.
Age(q) ==
    /\ worker[q] \notin {"none", "gone"}
    /\ ~stale[q]
    /\ (router.pc = "send" /\ router.queue = q) => Len(buf[q]) = ChanCap
    /\ stale' = [stale EXCEPT ![q] = TRUE]
    /\ UNCHANGED <<taskVars, chatQueues, buf, closed, worker, wtask, sem,
                   router, stopped, reapedBusy>>

IdleChats == {c \in Chats : /\ chatQueues[c] # NoQueue
                            /\ stale[chatQueues[c]]
                            /\ buf[chatQueues[c]] = <<>>}

\* One tick of cleanupIdleQueues: close and forget every idle chat queue.
CleanupIdle ==
    LET idle == {chatQueues[c] : c \in IdleChats} IN
    /\ idle # {}
    /\ closed' = [q \in QueueIds |-> closed[q] \/ q \in idle]
    /\ chatQueues' = [c \in Chats |->
                        IF c \in IdleChats THEN NoQueue ELSE chatQueues[c]]
    /\ reapedBusy' = (reapedBusy \/ \E q \in idle : worker[q] \in Busy)
    /\ UNCHANGED <<taskVars, buf, stale, worker, wtask, sem, router, stopped>>

\* Finished records, oldest first, until RetentionLimit records remain.
Prunable ==
    {t \in table : /\ status[t] \in Finished
                   /\ Cardinality({u \in table : /\ status[u] \in Finished
                                                 /\ u < t})
                        < Cardinality(table) - RetentionLimit}

PruneOldTasks ==
    /\ Prunable # {}
    /\ table' = table \ Prunable
    /\ UNCHANGED <<seq, status, chatOf, queueVars, worker, wtask, sem, router,
                   stopped, reapedBusy>>

\* Gateway.Run calls Stop after processInbound has returned.
Stop ==
    /\ router.pc = "exited"
    /\ ~stopped
    /\ stopped' = TRUE
    /\ UNCHANGED <<taskVars, queueVars, worker, wtask, sem, router,
                   reapedBusy>>
-----------------------------------------------------------------------------
WorkerStep(q) ==
    \/ WorkerReceive(q) \/ WorkerReturn(q) \/ AcquireSlot(q)
    \/ AbandonTask(q) \/ StartTask(q) \/ FinishTask(q) \/ ReleaseSlot(q)
    \/ TouchQueue(q)

Next ==
    \/ \E c \in Chats : SubmitExisting(c)
    \/ \E c \in Chats, q \in QueueIds : SubmitFresh(c, q)
    \/ SendTask
    \/ RouterExit
    \/ \E q \in QueueIds : WorkerStep(q)
    \/ \E q \in QueueIds : Age(q)
    \/ CleanupIdle
    \/ PruneOldTasks
    \/ Stop

Spec == Init /\ [][Next]_vars

\* Goroutines that can run do run; a handler returns because its context has
\* a timeout; parked semaphore sends are served in order.  Nothing forces time
\* to pass, the ticker to fire, messages to arrive or the gateway to stop.
Fairness ==
    /\ WF_vars(SendTask)
    /\ \A q \in QueueIds : WF_vars(WorkerStep(q)) /\ SF_vars(AcquireSlot(q))

FairSpec == Spec /\ Fairness
-----------------------------------------------------------------------------
(* Properties.                                                             *)

\* Types of all variables.
TypeOK ==
    /\ seq \in 0..MaxTasks
    /\ table \subseteq Tasks
    /\ status \in [Tasks -> Status]
    /\ chatOf \in [Tasks -> Chats]
    /\ chatQueues \in [Chats -> QueueIds \cup {NoQueue}]
    /\ buf \in [QueueIds -> Seq(Tasks)]
    /\ closed \in [QueueIds -> BOOLEAN]
    /\ stale \in [QueueIds -> BOOLEAN]
    /\ worker \in [QueueIds -> Pcs]
    /\ wtask \in [QueueIds -> Tasks \cup {NoTask}]
    /\ sem \in 0..MaxConcurrent
    /\ router \in [pc : {"idle", "send", "exited"}, task : Tasks \cup {NoTask},
                   queue : QueueIds \cup {NoQueue}]
    /\ stopped \in BOOLEAN
    /\ reapedBusy \in BOOLEAN

\* The slots taken are those of the workers between acquire and release, and
\* no more handlers run than the semaphore allows, however queues come and go.
BoundedConcurrency ==
    /\ sem = Cardinality(Holders)
    /\ Cardinality(Running) <= MaxConcurrent

\* Submit never sends on a channel the idle ticker has closed (a panic in Go),
\* although it sends after releasing the lock the ticker closes under.
NoSendOnClosed == router.pc = "send" => ~closed[router.queue]

Occurrences(s, t) == Cardinality({i \in DOMAIN s : s[i] = t})

\* The number of places that hold task t: the router's hands, the channels
\* and the workers.
Places(t) ==
    Cardinality({q \in QueueIds : wtask[q] = t})
    + Cardinality({q \in QueueIds : \E i \in DOMAIN buf[q] : buf[q][i] = t})
    + (IF router.pc = "send" /\ router.task = t THEN 1 ELSE 0)

\* No task is lost or duplicated on its way to the handler: until Stop, an
\* unfinished task is in exactly one place and a finished one in none; and
\* retention never forgets the record of one that is queued or running.
HeldOnce ==
    /\ InFlight \subseteq table
    /\ \A t \in Tasks :
          \/ Places(t) = (IF t \in InFlight THEN 1 ELSE 0)
          \/ stopped /\ status[t] = "pending" /\ Places(t) = 0
    /\ \A q \in QueueIds, t \in Tasks : Occurrences(buf[q], t) <= 1

\* Every buffered task has a live worker to receive it: no chat queue is
\* forgotten with tasks in it.
BufferedHasWorker ==
    \A q \in QueueIds : buf[q] # <<>> => worker[q] # "none" /\ ~closed[q]

\* The tasks of one chat run one after the other, as the comment of chatKey
\* says: no two workers hold, queued for a slot or in the handler, tasks of one
\* chat.  The ticker closing a queue whose worker holds a task is the only way
\* to break that: the next Submit of the chat makes a second worker.
SerialUnlessReaped ==
    \/ reapedBusy
    \/ \A p, q \in QueueIds :
          (/\ worker[p] \in Busy
           /\ worker[q] \in Busy
           /\ chatOf[wtask[p]] = chatOf[wtask[q]]) => p = q

\* ... and the only way, Stop apart, for a task to start before every earlier
\* task of its chat has finished.
FifoUnlessReaped ==
    \/ reapedBusy
    \/ stopped
    \/ \A t, u \in Tasks :
          (u < t /\ chatOf[u] = chatOf[t] /\ status[t] \notin {"none", "pending"})
            => status[u] \in Finished

\* So the tasks of a chat are answered one by one and in order, as Submit's
\* callers expect, except for what the ticker does.
ChatOrder == SerialUnlessReaped /\ FifoUnlessReaped

\* The queue at any time: every task in one place, and those of a chat in order.
TasksInOrder == HeldOnce /\ ChatOrder

\* A submitted task is run to its end, unless the gateway stops.
EveryTaskEnds ==
    \A t \in Tasks :
        status[t] = "pending" ~> (status[t] \in Finished \/ stopped)

\* The queue implements the pool it promises.
Pool == INSTANCE TaskPool WITH
            status <- status, MaxTasks <- MaxTasks, MaxConcurrent <- MaxConcurrent
RefinesPool == Pool!PoolSpec
=============================================================================
