------------------------------ MODULE TaskPool ------------------------------
(***************************************************************************)
(* What internal/taskqueue promises its callers, with the chat queues, the *)
(* worker goroutines and the semaphore hidden: a submitted task waits,     *)
(* runs at most once, and then keeps its outcome; no more than             *)
(* MaxConcurrent handlers run at the same time.                            *)
(***************************************************************************)
EXTENDS Integers, FiniteSets

CONSTANTS
    MaxTasks,       \* bound on the number of tasks ever submitted
    MaxConcurrent   \* concurrent handlers allowed

Tasks    == 1..MaxTasks
Finished == {"done", "failed"}
Status   == {"none", "pending", "running"} \cup Finished

VARIABLE status     \* task -> its Status

PoolRunning == {t \in Tasks : status[t] = "running"}

PoolInit == status = [t \in Tasks |-> "none"]

PoolSubmit(t) ==
    /\ status[t] = "none"
    /\ status' = [status EXCEPT ![t] = "pending"]

PoolStart(t) ==
    /\ status[t] = "pending"
    /\ Cardinality(PoolRunning) < MaxConcurrent
    /\ status' = [status EXCEPT ![t] = "running"]

PoolFinish(t) ==
    /\ status[t] = "running"
    /\ \E outcome \in Finished : status' = [status EXCEPT ![t] = outcome]

PoolNext == \E t \in Tasks : PoolSubmit(t) \/ PoolStart(t) \/ PoolFinish(t)

PoolSpec == PoolInit /\ [][PoolNext]_status
=============================================================================
