------------------------ MODULE CronSchedulerProofs ------------------------
(***************************************************************************)
(* Proofs about CronScheduler, for any processes, jobs, intervals and      *)
(* thresholds, about CronNext, for any expressions and windows, and about  *)
(* Wiki, for any agents, sources, pages, jobs and plans.                   *)
(***************************************************************************)
EXTENDS CronScheduler, CronNext, Wiki, TLAPS, WellFoundedInduction

\* What the assumptions say of the intervals as numbers.
LEMMA Bounds ==
    /\ Period \in Nat \ {0} /\ LockTTL \in Nat \ {0} /\ Idle \in Nat \ {0}
    /\ MaxFailures \in Nat \ {0} /\ MaxHold \in Nat
    /\ MaxTroubles \in Nat
    /\ Never \in Nat /\ Period < Never /\ Idle < Never
BY CronAssumption DEF Never

\* Types: the initial states.
LEMMA InitType == Init => TypeOK
BY Bounds DEF Init, TypeOK, TableOK, PollerOK, ProcessOK, ToggleOK, HistoryOK, Points,
   Holding
-----------------------------------------------------------------------------
(* One lemma for the steps that change the same part of the state. *)

\* Types: GetNextDueTime and the listing of due jobs.
LEMMA PollType ==
    ASSUME TypeOK, NEW p \in Pods, Poll(p) PROVE TypeOK'
<1>1. PollerOK'
  BY Bounds DEF TypeOK, TableOK, PollerOK, Poll, Goto, DueJobs, Points, Holding, table
<1>2. TableOK' /\ ProcessOK' /\ ToggleOK'
  BY Zenon DEF TypeOK, TableOK, ProcessOK, ToggleOK, Poll, table, process, toggle
<1>9. HistoryOK'
  BY Bounds DEF TypeOK, TableOK, PollerOK, HistoryOK, Fault, Poll, Holding, table
<1> QED
  BY <1>9, <1>1, <1>2, Zenon DEF TypeOK

\* Types: the claim of a due job.
LEMMA LockType ==
    ASSUME TypeOK, NEW p \in Pods, NEW j \in Jobs, LockCronJob(p, j) PROVE TypeOK'
<1>1. j \in born
  BY DEF TypeOK, PollerOK, LockCronJob
<1>2. TableOK'
  BY Bounds DEF TypeOK, TableOK, LockCronJob
<1>3. PollerOK'
  BY <1>1, Bounds, CronAssumption DEF TypeOK, TableOK, PollerOK, LockCronJob, Goto, Points, Holding
<1>4. ProcessOK' /\ ToggleOK'
  BY Zenon DEF TypeOK, ProcessOK, ToggleOK, LockCronJob, process, toggle
<1>9. HistoryOK'
  BY Bounds DEF TypeOK, TableOK, PollerOK, HistoryOK, Fault, LockCronJob, Holding
<1> QED
  BY <1>9, <1>2, <1>3, <1>4, Zenon DEF TypeOK

\* Types: the look-up of the adapter before a fire.
LEMMA CheckType ==
    ASSUME TypeOK, NEW p \in Pods, Check(p) PROVE TypeOK'
<1>1. PollerOK'
  BY DEF TypeOK, PollerOK, Check, Goto, Points, Holding, table
<1>2. TableOK' /\ ProcessOK' /\ ToggleOK'
  BY Zenon DEF TypeOK, TableOK, ProcessOK, ToggleOK, Check, table, process, toggle
<1>9. HistoryOK'
  BY Zenon DEF TypeOK, TableOK, HistoryOK, Check, history, table
<1> QED
  BY <1>9, <1>1, <1>2, Zenon DEF TypeOK

\* Types: a miss is counted.
LEMMA FailureType ==
    ASSUME TypeOK, NEW p \in Pods, IncrementFailure(p) PROVE TypeOK'
<1>1. cur[p] \in Jobs
  BY CronAssumption DEF TypeOK, TableOK, PollerOK, IncrementFailure, Holding
<1>2. TableOK'
  BY <1>1, Bounds DEF TypeOK, TableOK, IncrementFailure
<1>3. PollerOK'
  BY Bounds DEF TypeOK, TableOK, PollerOK, IncrementFailure, Leave, Goto, Points, Holding
<1>4. ProcessOK' /\ ToggleOK'
  BY Zenon DEF TypeOK, ProcessOK, ToggleOK, IncrementFailure, process, toggle
<1>9. HistoryOK'
  BY Bounds DEF TypeOK, TableOK, PollerOK, HistoryOK, Fault, IncrementFailure, Holding
<1> QED
  BY <1>9, <1>2, <1>3, <1>4, Zenon DEF TypeOK

\* Types: a dead job is deleted.
LEMMA DropType ==
    ASSUME TypeOK, NEW p \in Pods, Drop(p) PROVE TypeOK'
<1>1. TableOK'
  BY DEF TypeOK, TableOK, Drop, RemoveRow
<1>2. PollerOK'
  BY Bounds DEF TypeOK, TableOK, PollerOK, Drop, Leave, Goto, Points, Holding
<1>3. ProcessOK' /\ ToggleOK'
  BY Zenon DEF TypeOK, ProcessOK, ToggleOK, Drop, process, toggle
<1>9. HistoryOK'
  BY Bounds DEF TypeOK, TableOK, PollerOK, HistoryOK, Fault, Drop, Holding
<1> QED
  BY <1>9, <1>1, <1>2, <1>3, Zenon DEF TypeOK

\* Types: the send on the bus.
LEMMA SendType ==
    ASSUME TypeOK, NEW p \in Pods, Send(p) PROVE TypeOK'
<1>1. TableOK'
  <2>1. cur[p] \in Jobs
    BY CronAssumption DEF TypeOK, TableOK, PollerOK, Send, Holding
  <2>2. sent' \in [Jobs -> 0..2]
    BY <2>1 DEF TypeOK, TableOK, Send
  <2> QED
    BY <2>2, Zenon DEF TypeOK, TableOK, Send
<1>2. PollerOK'
  BY DEF TypeOK, TableOK, PollerOK, Send, Goto, Points, Holding
<1>3. ProcessOK' /\ ToggleOK'
  BY Zenon DEF TypeOK, ProcessOK, ToggleOK, Send, process, toggle
<1>9. HistoryOK'
  BY Zenon DEF TypeOK, TableOK, HistoryOK, Send, history
<1> QED
  BY <1>9, <1>1, <1>2, <1>3, Zenon DEF TypeOK

\* Types: the completion statement.
LEMMA FinishType ==
    ASSUME TypeOK, NEW p \in Pods, Finish(p) PROVE TypeOK'
<1>1. cur[p] \in Jobs /\ NextRun(p) \in 0..Period
  BY CronAssumption, Bounds DEF TypeOK, TableOK, PollerOK, Finish, Holding, NextRun
<1>2. TableOK'
  <2>1. /\ rows' \in SUBSET born' /\ enabled' \in SUBSET rows' /\ born' \in SUBSET Jobs
        /\ once' \in SUBSET born'
    BY DEF TypeOK, TableOK, Finish, RemoveRow
  <2>2. due' \in [Jobs -> 0..Never]
    BY <1>1, Bounds DEF TypeOK, TableOK, Finish, UpdateCronJobRun
  <2>3. lock' \in [Jobs -> 0..LockTTL] /\ failures' \in [Jobs -> 0..MaxFailures]
    BY <1>1, Bounds DEF TypeOK, TableOK, Finish, UpdateCronJobRun
  <2>4. sent' \in [Jobs -> 0..2]
    BY <1>1, Bounds DEF TypeOK, TableOK, Finish, UpdateCronJobRun
  <2> QED
    BY <2>1, <2>2, <2>3, <2>4, Zenon DEF TableOK
<1>3. PollerOK'
  BY Bounds DEF TypeOK, TableOK, PollerOK, Finish, Leave, Goto, Points, Holding
<1>4. ProcessOK' /\ ToggleOK'
  BY Zenon DEF TypeOK, ProcessOK, ToggleOK, Finish, process, toggle
<1>9. HistoryOK'
  BY Bounds DEF TypeOK, TableOK, PollerOK, HistoryOK, Fault, Finish, Holding
<1> QED
  BY <1>9, <1>2, <1>3, <1>4, Zenon DEF TypeOK

\* Types: the choice of the sleep.
LEMMA LookType ==
    ASSUME TypeOK, NEW p \in Pods, Look(p) PROVE TypeOK'
<1>1. PollerOK'
  <2>1. \A j \in Wanted : due[j] \in 0..Never
    BY DEF TypeOK, TableOK, Wanted
  <2>2. timer' \in [Pods -> 0..Never] /\ pc' \in [Pods -> Points]
    BY <2>1, Bounds DEF TypeOK, PollerOK, Look, Sleep, Goto, Points
  <2> QED
    BY <2>2, Bounds DEF TypeOK, PollerOK, Look, Sleep, Goto, Holding, table
<1>2. TableOK' /\ ProcessOK' /\ ToggleOK'
  BY Zenon DEF TypeOK, TableOK, ProcessOK, ToggleOK, Look, table, process, toggle
<1>9. HistoryOK'
  BY Bounds DEF TypeOK, TableOK, PollerOK, HistoryOK, Fault, Look, Holding, table
<1> QED
  BY <1>9, <1>1, <1>2, Zenon DEF TypeOK

\* Types: the end of a sleep.
LEMMA WakeType ==
    ASSUME TypeOK, NEW p \in Pods, Wake(p) PROVE TypeOK'
<1>1. PollerOK'
  BY Bounds DEF TypeOK, PollerOK, Wake, Goto, Points, Holding, table
<1>2. ProcessOK'
  BY Zenon DEF TypeOK, ProcessOK, Wake
<1>3. TableOK' /\ ToggleOK'
  BY Zenon DEF TypeOK, TableOK, ToggleOK, Wake, table, toggle
<1>9. HistoryOK'
  BY Zenon DEF TypeOK, TableOK, HistoryOK, Wake, history, table
<1> QED
  BY <1>9, <1>1, <1>2, <1>3, Zenon DEF TypeOK

\* Types: a job is created.
LEMMA CreateType ==
    ASSUME TypeOK, NEW p \in Pods, NEW j \in Jobs, Create(p, j) PROVE TypeOK'
<1>1. TableOK'
  BY Bounds DEF TypeOK, TableOK, Create
<1>2. PollerOK'
  BY DEF TypeOK, PollerOK, Create, poller
<1>3. ProcessOK'
  BY Zenon DEF TypeOK, ProcessOK, Create
<1>4. ToggleOK'
  BY DEF TypeOK, ToggleOK, Create, toggle
<1>9. HistoryOK'
  BY DEF TypeOK, TableOK, HistoryOK, Create, history
<1> QED
  BY <1>9, <1>1, <1>2, <1>3, <1>4, Zenon DEF TypeOK

\* Types: the statements of the cron tool.
LEMMA ToolType ==
    ASSUME TypeOK, (\E p \in Pods : NotifyJobCreated(p)) \/ \E j \in Jobs : Delete(j)
    PROVE  TypeOK'
<1>1. ASSUME NEW p \in Pods, NotifyJobCreated(p) PROVE TypeOK'
  BY <1>1, Zenon DEF NotifyJobCreated, TypeOK, TableOK, PollerOK, ProcessOK, ToggleOK,
     HistoryOK, table, poller, toggle, history
<1>2. ASSUME NEW j \in Jobs, Delete(j) PROVE TypeOK'
  <2>1. TableOK'
    BY <1>2 DEF TypeOK, TableOK, Delete, RemoveRow
  <2> QED
    BY <1>2, <2>1, Zenon DEF TypeOK, PollerOK, ProcessOK, ToggleOK, HistoryOK, Delete,
       poller, process, toggle, history
<1> QED
  BY <1>1, <1>2, Zenon

\* Types: the dashboard's read and write.
LEMMA ToggleType ==
    ASSUME TypeOK,
           (\E j \in Jobs : ToggleRead(j)) \/ \E on \in BOOLEAN : ToggleWrite(on)
    PROVE  TypeOK'
<1>1. ASSUME NEW j \in Jobs, ToggleRead(j) PROVE TypeOK'
  <2>1. ToggleOK' /\ HistoryOK'
    BY <1>1, Bounds DEF TypeOK, TableOK, ToggleOK, HistoryOK, ToggleRead, table
  <2> QED
    BY <1>1, <2>1, Zenon DEF TypeOK, TableOK, PollerOK, ProcessOK, ToggleRead,
       table, poller, process
<1>2. ASSUME NEW on \in BOOLEAN, ToggleWrite(on) PROVE TypeOK'
  <2>1. TableOK'
    BY <1>2, Bounds DEF TypeOK, TableOK, ToggleOK, ToggleWrite
  <2>2. ToggleOK'
    BY <1>2, Bounds DEF TypeOK, ToggleOK, ToggleWrite
  <2>3. HistoryOK'
    BY <1>2, Bounds DEF TypeOK, ToggleOK, HistoryOK, ToggleWrite
  <2> QED
    BY <1>2, <2>1, <2>2, <2>3, Zenon DEF TypeOK, PollerOK, ProcessOK, ToggleWrite,
       poller, process
<1> QED
  BY <1>1, <1>2, Zenon

\* Types: faults, adapters that come and go.
LEMMA WorldType ==
    ASSUME TypeOK, NEW p \in Pods,
           Crash(p) \/ \E j \in Jobs : AdapterGone(p, j) \/ AdapterBack(p, j)
    PROVE  TypeOK'
<1>1. ASSUME NEW j \in Jobs, AdapterGone(p, j) \/ AdapterBack(p, j) PROVE TypeOK'
  <2>1. away' \in [Pods -> SUBSET Jobs]
    BY <1>1 DEF TypeOK, ProcessOK, AdapterGone, AdapterBack
  <2> QED
    BY <1>1, <2>1, Zenon DEF TypeOK, TableOK, PollerOK, ProcessOK, ToggleOK, HistoryOK,
       AdapterGone, AdapterBack, table, poller, toggle, history
<1>2. CASE Crash(p)
  <2>1. PollerOK'
    BY <1>2, Bounds DEF TypeOK, TableOK, PollerOK, Crash, Goto, Points, Holding, table
  <2>2. ProcessOK'
    BY <1>2, Zenon DEF TypeOK, ProcessOK, Crash
  <2>3. HistoryOK'
    BY <1>2, Bounds DEF TypeOK, PollerOK, HistoryOK, Crash, Fault, table, Holding
  <2> QED
    BY <1>2, <2>1, <2>2, <2>3, Zenon DEF TypeOK, TableOK, ToggleOK, Crash, table, toggle
<1> QED
  BY <1>1, <1>2, Zenon

\* Types: time passes.
LEMMA TickType ==
    ASSUME TypeOK, Tick PROVE TypeOK'
<1>1. TableOK'
  BY Bounds DEF TypeOK, TableOK, Tick, Later, Less
<1>2. PollerOK'
  <2>1. age' \in [Pods -> 0..Period]
    <3>1. \A p \in Pods : age[p] \in 0..Period /\ (age[p] # Period => age[p] + 1 \in 0..Period)
      BY Bounds DEF TypeOK, PollerOK
    <3> DEFINE older(p) == IF pc[p] \in {"poll", "sleep"} \/ age[p] = Period
                             THEN age[p] ELSE age[p] + 1
    <3>2. \A p \in Pods : older(p) \in 0..Period
      BY <3>1
    <3>3. age' = [p \in Pods |-> older(p)]
      BY DEF Tick
    <3> QED
      BY <3>2, <3>3, Zenon
  <2>2. held' \in [Pods -> 0..MaxHold]
    BY Bounds DEF TypeOK, PollerOK, Tick
  <2>3. timer' \in [Pods -> 0..Never]
    BY Bounds DEF TypeOK, PollerOK, Tick, Less
  <2> QED
    BY <2>1, <2>2, <2>3, Zenon DEF TypeOK, PollerOK, Tick
<1>4. ProcessOK' /\ HistoryOK'
  BY Zenon DEF TypeOK, TableOK, ProcessOK, HistoryOK, Tick, history
<1>5. ToggleOK'
  BY Bounds DEF TypeOK, ToggleOK, Tick, Later, Less
<1> QED
  BY <1>1, <1>2, <1>4, <1>5, Zenon DEF TypeOK

\* Every step keeps the types.
LEMMA NextType == TypeOK /\ [Next]_vars => TypeOK'
<1> SUFFICES ASSUME TypeOK, [Next]_vars PROVE TypeOK'
  OBVIOUS
<1>1. CASE UNCHANGED vars
  BY <1>1, Zenon DEF vars, table, poller, process, toggle, history, TypeOK, TableOK,
     PollerOK, ProcessOK, ToggleOK, HistoryOK
<1>2. ASSUME NEW p \in Pods, PollerStep(p) PROVE TypeOK'
  BY <1>2, PollType, CheckType, FailureType, DropType, SendType, FinishType, LookType,
     WakeType, LockType, Zenon DEF PollerStep
<1>3. CASE Next
  BY <1>2, <1>3, ToolType, WorldType, CreateType, ToggleType, TickType, Zenon DEF Next
<1> QED
  BY <1>1, <1>3, Zenon

\* Every variable of the table, of the pollers and of the toggle keeps its type.
THEOREM TypeCorrect == Spec => []TypeOK
<1> QED
  BY InitType, NextType, PTL DEF Spec
-----------------------------------------------------------------------------
(* The locks exclude: what is left of a holder's lock and how long it has   *)
(* held it add up to LockTTL, so that the lock outlives the hold when no    *)
(* job stays at the blocking send until its lock has expired.               *)

Margin == MaxHold < LockTTL

\* p works on a job that no toggle has written back.
Safe(p) == pc[p] \in Holding /\ cur[p] \notin toggled

LockRuns == \A p \in Pods : Safe(p) => lock[cur[p]] = LockTTL - held[p]

IInv == TypeOK /\ LockRuns /\ LockExcludes

\* A job that a poller is entitled to hold has its lock in the row.
LEMMA HeldIsLocked ==
    ASSUME Margin, IInv, NEW p \in Pods, Safe(p)
    PROVE  cur[p] \in Jobs /\ lock[cur[p]] > 0
<1>1. cur[p] \in Jobs
  BY CronAssumption DEF IInv, TypeOK, TableOK, PollerOK, Safe
<1>2. held[p] \in 0..MaxHold /\ lock[cur[p]] = LockTTL - held[p]
  BY DEF IInv, TypeOK, PollerOK, LockRuns
<1> QED
  BY <1>1, <1>2, Bounds DEF Margin

\* Two pollers that are both entitled hold different jobs.
LEMMA SafeExcludes ==
    ASSUME IInv, NEW p \in Pods, NEW q \in Pods, Safe(p), pc[q] \in Holding,
           cur[q] = cur[p]
    PROVE  p = q
<1>1. cur[p] \in Jobs
  BY CronAssumption DEF IInv, TypeOK, TableOK, PollerOK, Safe
<1> QED
  BY <1>1 DEF IInv, LockExcludes, Holds, Safe

\* Steps that take no lock and leave the locks of the holders alone.
LEMMA QuietStep ==
    ASSUME IInv, TypeOK', toggled \subseteq toggled',
           \A p \in Pods : pc'[p] \in Holding /\ cur'[p] \notin toggled' =>
               /\ pc[p] \in Holding /\ cur'[p] = cur[p] /\ held'[p] = held[p]
               /\ lock'[cur[p]] = lock[cur[p]]
    PROVE  IInv'
<1>1. \A p \in Pods : Safe(p)' =>
          /\ Safe(p) /\ cur'[p] = cur[p] /\ held'[p] = held[p]
          /\ lock'[cur[p]] = lock[cur[p]]
  BY DEF Safe
<1>2. LockRuns'
  <2> SUFFICES ASSUME NEW p \in Pods, Safe(p)'
               PROVE  lock'[cur'[p]] = LockTTL - held'[p]
    BY Zenon DEF LockRuns
  <2>1. lock[cur[p]] = LockTTL - held[p]
    BY <1>1, Zenon DEF IInv, LockRuns
  <2>2. cur'[p] = cur[p] /\ held'[p] = held[p] /\ lock'[cur[p]] = lock[cur[p]]
    BY <1>1, Zenon
  <2> QED
    BY <2>1, <2>2, Zenon
<1>3. LockExcludes'
  <2> SUFFICES ASSUME NEW p \in Pods, NEW q \in Pods, NEW j \in Jobs \ toggled',
                      Holds(p, j)', Holds(q, j)'
               PROVE  p = q
    BY Zenon DEF LockExcludes
  <2>1. Safe(p)' /\ Safe(q)'
    BY DEF Holds, Safe
  <2> QED
    BY <1>1, <2>1, SafeExcludes DEF Holds, Safe
<1> QED
  BY <1>2, <1>3, Zenon DEF IInv

\* A claim keeps the lock invariant: the row was free, so nobody entitled held the job.
LEMMA LockStep ==
    ASSUME Margin, IInv, NEW p \in Pods, NEW j \in Jobs, LockCronJob(p, j)
    PROVE  IInv'
<1>1. TypeOK'
  BY LockType, Zenon DEF IInv
<1>2. CASE UNCHANGED <<lock, cur, held, pc>>
  BY <1>1, <1>2, QuietStep, Zenon DEF LockCronJob
<1>3. CASE /\ LockFree(j)
           /\ lock' = [lock EXCEPT ![j] = LockTTL]
           /\ cur' = [cur EXCEPT ![p] = j]
           /\ held' = [held EXCEPT ![p] = 0]
           /\ Goto(p, "check")
  <2>1. \A q \in Pods : Safe(q) => cur[q] # j
    BY <1>3, HeldIsLocked DEF LockFree
  <2>2. \A q \in Pods \ {p} :
           /\ Safe(q)' <=> Safe(q)
           /\ pc'[q] = pc[q] /\ cur'[q] = cur[q] /\ held'[q] = held[q]
           /\ Safe(q) => lock'[cur[q]] = lock[cur[q]]
    BY <1>3, <2>1 DEF Goto, IInv, TypeOK, TableOK, PollerOK, Safe, LockCronJob
  <2>3. cur'[p] = j /\ held'[p] = 0 /\ lock'[j] = LockTTL
    BY <1>3 DEF IInv, TypeOK, TableOK, PollerOK
  <2>4. LockRuns'
    BY <2>2, <2>3, Bounds DEF IInv, LockRuns
  <2>5. LockExcludes'
    <3> SUFFICES ASSUME NEW q \in Pods, NEW r \in Pods, NEW k \in Jobs \ toggled',
                        Holds(q, k)', Holds(r, k)', q # p
                 PROVE  q = r
      BY Zenon DEF LockExcludes
    <3>1. Safe(q) /\ cur[q] = k
      BY <2>2 DEF Holds, Safe
    <3>2. r # p
      BY <2>1, <2>3, <3>1 DEF Holds
    <3> QED
      BY <2>2, <3>1, <3>2, SafeExcludes DEF Holds
  <2> QED
    BY <1>1, <2>4, <2>5, Zenon DEF IInv
<1> QED
  BY <1>2, <1>3, Zenon DEF LockCronJob

\* A process that gives its row up is the only one that held it.
LEMMA ReleaseStep ==
    ASSUME IInv, NEW p \in Pods, IncrementFailure(p) \/ Finish(p)
    PROVE  IInv'
<1>1. TypeOK'
  BY FailureType, FinishType, Zenon DEF IInv
<1>2. pc[p] \in Holding
  BY DEF Holding, IncrementFailure, Finish
<1>3. \A q \in Pods \ {p} : Safe(q) => cur[q] # cur[p]
  BY <1>2, SafeExcludes
<1>4. \A q \in Pods \ {p} : Safe(q) => lock'[cur[q]] = lock[cur[q]]
  <2>1. \A q \in Pods : Safe(q) => cur[q] \in Jobs
    BY CronAssumption DEF Safe, IInv, TypeOK, TableOK, PollerOK
  <2>2. \A k \in Jobs : k # cur[p] => lock'[k] = lock[k]
    BY DEF IncrementFailure, Finish, UpdateCronJobRun, IInv, TypeOK, TableOK
  <2> QED
    BY <1>3, <2>1, <2>2
<1>5. pc'[p] \notin Holding
  BY DEF IncrementFailure, Finish, Leave, Goto, Holding, IInv, TypeOK, PollerOK
<1>6. \A q \in Pods \ {p} : pc'[q] = pc[q] /\ cur'[q] = cur[q] /\ held'[q] = held[q]
  BY DEF IncrementFailure, Finish, Leave, Goto, IInv, TypeOK, PollerOK
<1>7. toggled' = toggled
  BY Zenon DEF IncrementFailure, Finish
<1> QED
  BY <1>1, <1>4, <1>5, <1>6, <1>7, QuietStep DEF Safe

\* Steps of a poller that touch no lock keep the invariant.
LEMMA PollerQuiet ==
    ASSUME IInv, NEW p \in Pods,
           \/ Poll(p) \/ Check(p) \/ Drop(p) \/ Send(p) \/ Look(p) \/ Wake(p)
    PROVE  IInv'
<1>1. TypeOK'
  BY PollType, CheckType, DropType, SendType, LookType, WakeType, Zenon DEF IInv
<1>2. UNCHANGED <<lock, toggled>>
  BY Zenon DEF Poll, Check, Drop, Send, Look, Wake, table, history
<1>3. \A q \in Pods : pc'[q] \in Holding =>
          pc[q] \in Holding /\ cur'[q] = cur[q] /\ held'[q] = held[q]
  <2>1. CASE Poll(p) \/ Look(p) \/ Wake(p)
    BY <2>1 DEF Poll, Look, Wake, Sleep, Goto, Holding, IInv, TypeOK, PollerOK
  <2>2. CASE Check(p) \/ Send(p)
    BY <2>2 DEF Check, Send, Goto, Holding, IInv, TypeOK, PollerOK
  <2>3. CASE Drop(p)
    BY <2>3 DEF Drop, Leave, Goto, Holding, IInv, TypeOK, PollerOK
  <2> QED
    BY <2>1, <2>2, <2>3, Zenon
<1> QED
  BY <1>1, <1>2, <1>3, QuietStep, Zenon

\* A toggle touches the lock of the job it writes, which is toggled from then on.
LEMMA ToggleStep ==
    ASSUME IInv,
           (\E j \in Jobs : ToggleRead(j)) \/ \E on \in BOOLEAN : ToggleWrite(on)
    PROVE  IInv'
<1>1. TypeOK'
  BY ToggleType, Zenon DEF IInv
<1>2. ASSUME NEW j \in Jobs, ToggleRead(j) PROVE IInv'
  BY <1>1, <1>2, QuietStep, Zenon DEF ToggleRead, table, poller
<1>3. ASSUME NEW on \in BOOLEAN, ToggleWrite(on) PROVE IInv'
  <2>1. toggled' = toggled \cup {editing} /\ UNCHANGED <<pc, cur, held>>
    BY <1>3, Zenon DEF ToggleWrite, poller
  <2>2. \A p \in Pods : pc[p] \in Holding => cur[p] \in Jobs
    BY CronAssumption DEF IInv, TypeOK, TableOK, PollerOK
  <2>3. \A j \in Jobs : j # editing => lock'[j] = lock[j]
    BY <1>3 DEF ToggleWrite, IInv, TypeOK, TableOK
  <2> QED
    BY <1>1, <2>1, <2>2, <2>3, QuietStep
<1> QED
  BY <1>2, <1>3, Zenon

\* Time keeps the invariant: a hold ends before its lock does.
LEMMA TickStep ==
    ASSUME IInv, Margin, Tick PROVE IInv'
<1>1. TypeOK' /\ UNCHANGED <<pc, cur, toggled>>
  BY TickType, Zenon DEF IInv, Tick, history
<1>2. LockRuns'
  <2> SUFFICES ASSUME NEW p \in Pods, Safe(p)
               PROVE  lock'[cur[p]] = LockTTL - held'[p]
    BY <1>1, Zenon DEF LockRuns, Safe
  <2>1. cur[p] \in Jobs /\ lock[cur[p]] > 0
    BY HeldIsLocked, Zenon
  <2>2. lock'[cur[p]] = lock[cur[p]] - 1 /\ held'[p] = held[p] + 1
    BY <2>1 DEF Tick, Less, IInv, TypeOK, TableOK, PollerOK, Safe
  <2>3. lock[cur[p]] = LockTTL - held[p] /\ held[p] \in 0..MaxHold
    BY DEF IInv, LockRuns, TypeOK, PollerOK
  <2> QED
    BY <2>2, <2>3, Bounds
<1>3. LockExcludes'
  BY <1>1, Zenon DEF IInv, LockExcludes, Holds
<1> QED
  BY <1>1, <1>2, <1>3, Zenon DEF IInv

\* Every step keeps the lock invariant.
LEMMA NextStep ==
    ASSUME Margin, IInv, [Next]_vars PROVE IInv'
<1>1. CASE UNCHANGED vars
  BY <1>1, NextType, QuietStep, Zenon DEF IInv, vars, table, poller, history
<1>2. ASSUME NEW p \in Pods, PollerStep(p) PROVE IInv'
  BY <1>2, PollerQuiet, ReleaseStep, LockStep, Zenon DEF PollerStep
<1>3. ASSUME NEW p \in Pods, Crash(p) PROVE IInv'
  <2>1. \A q \in Pods : pc'[q] \in Holding =>
            /\ pc[q] \in Holding /\ cur'[q] = cur[q] /\ held'[q] = held[q]
            /\ lock'[cur[q]] = lock[cur[q]]
    BY <1>3 DEF Crash, Goto, Holding, table, IInv, TypeOK, PollerOK
  <2> QED
    BY <1>3, <2>1, WorldType, QuietStep, Zenon DEF IInv, Crash
<1>4. ASSUME NEW p \in Pods, NEW j \in Jobs, Create(p, j) PROVE IInv'
  BY <1>4, CreateType, QuietStep, Zenon DEF IInv, Create, poller, history
<1>5. ASSUME NEW p \in Pods, NEW j \in Jobs, AdapterGone(p, j) \/ AdapterBack(p, j)
      PROVE  IInv'
  BY <1>5, WorldType, QuietStep, Zenon DEF IInv, AdapterGone, AdapterBack, table, poller,
     history
<1>6. ASSUME NEW p \in Pods, NotifyJobCreated(p) PROVE IInv'
  BY <1>6, ToolType, QuietStep, Zenon DEF IInv, NotifyJobCreated, table, poller, history
<1>7. ASSUME NEW j \in Jobs, Delete(j) PROVE IInv'
  BY <1>7, ToolType, QuietStep, Zenon DEF IInv, Delete, poller, history
<1>8. ASSUME NEW p \in Pods,
              \/ PollerStep(p) \/ NotifyJobCreated(p) \/ Crash(p)
              \/ \E j \in Jobs : Create(p, j) \/ AdapterGone(p, j) \/ AdapterBack(p, j)
       PROVE  IInv'
  BY <1>8, <1>2, <1>3, <1>4, <1>5, <1>6, Zenon
<1> QED
  BY <1>1, <1>7, <1>8, TickStep, ToggleStep, Zenon DEF Next

\* With Margin, two processes never work at once on a job that no toggle wrote
\* back, whatever fails, crashes or is created and deleted meanwhile.
THEOREM LockExcludesHolds == ASSUME Margin PROVE Spec => []LockExcludes
<1>1. Init => IInv
  <2> SUFFICES ASSUME Init PROVE IInv
    OBVIOUS
  <2>1. \A p \in Pods : pc[p] \notin Holding
    BY DEF Init, Holding
  <2> QED
    BY <2>1, InitType, Zenon DEF IInv, LockRuns, Safe, LockExcludes, Holds
<1>2. IInv /\ [Next]_vars => IInv'
  BY NextStep
<1>3. IInv => LockExcludes
  BY Zenon DEF IInv
<1> QED
  BY <1>1, <1>2, <1>3, PTL DEF Spec
-----------------------------------------------------------------------------
(* What a job may count on.  Both halves of JobsKept are inductive with the *)
(* types alone: no lock is needed for them.                                 *)

\* Where a process stands with the job it is about to delete does not change,
\* and neither does the job's count, unless the job was toggled or overtaken.
LEMMA DeadStays ==
    ASSUME TypeOK, TypeOK', DropsOnlyDead,
           \A p \in Pods : pc'[p] = "drop" => pc[p] = "drop" /\ cur'[p] = cur[p],
           toggled \subseteq toggled', \A p \in Pods : overtaken[p] \subseteq overtaken'[p],
           \A p \in Pods : pc[p] = "drop" /\ cur[p] \in rows' \ (toggled' \cup overtaken'[p]) =>
               cur[p] \in rows /\ (failures[cur[p]] = MaxFailures =>
                                     failures'[cur[p]] = MaxFailures)
    PROVE  DropsOnlyDead'
<1> SUFFICES ASSUME NEW p \in Pods, pc'[p] = "drop",
                    cur'[p] \in rows' \ (toggled' \cup overtaken'[p])
             PROVE  failures'[cur'[p]] = MaxFailures
  BY Zenon DEF DropsOnlyDead
<1>1. pc[p] = "drop" /\ cur'[p] = cur[p]
  OBVIOUS
<1>2. cur[p] \in rows \ (toggled \cup overtaken[p])
  BY <1>1
<1>3. failures[cur[p]] = MaxFailures
  BY <1>1, <1>2, Zenon DEF DropsOnlyDead
<1> QED
  BY <1>1, <1>3

\* A miss that condemns a job leaves its count at the threshold.
LEMMA DeadByMiss ==
    ASSUME TypeOK, TypeOK', DropsOnlyDead, NEW p \in Pods, IncrementFailure(p)
    PROVE  DropsOnlyDead'
<1> SUFFICES ASSUME NEW q \in Pods, pc'[q] = "drop",
                    cur'[q] \in rows' \ (toggled' \cup overtaken'[q])
             PROVE  failures'[cur'[q]] = MaxFailures
  BY Zenon DEF DropsOnlyDead
<1>1. cur[p] \in Jobs /\ failures[cur[p]] \in 0..MaxFailures
  BY CronAssumption DEF TypeOK, TableOK, PollerOK, IncrementFailure, Holding
<1>2. UNCHANGED <<rows, toggled, overtaken>>
  BY DEF IncrementFailure
<1>3. CASE q = p
  <2>1. /\ Dead(failures[cur[p]] + 1) /\ cur'[p] = cur[p]
        /\ failures'[cur[p]] = IF failures[cur[p]] = MaxFailures THEN failures[cur[p]]
                                 ELSE failures[cur[p]] + 1
    BY <1>1, <1>3 DEF IncrementFailure, Leave, Goto, TypeOK, TableOK, PollerOK
  <2> QED
    BY <1>1, <1>3, <2>1, Bounds DEF Dead
<1>4. CASE q # p
  <2>1. pc[q] = "drop" /\ cur'[q] = cur[q]
    BY <1>4 DEF IncrementFailure, Leave, Goto, TypeOK, PollerOK
  <2>2. failures[cur[q]] = MaxFailures /\ cur[q] \in Jobs
    BY <1>2, <2>1 DEF DropsOnlyDead, TypeOK, TableOK
  <2>3. failures'[cur[q]] = failures[cur[q]] \/ cur[q] = cur[p]
    BY <2>2 DEF IncrementFailure, TypeOK, TableOK
  <2>4. failures[cur[p]] = MaxFailures => failures'[cur[p]] = MaxFailures
    BY <1>1 DEF IncrementFailure, TypeOK, TableOK
  <2> QED
    BY <2>1, <2>2, <2>3, <2>4
<1> QED
  BY <1>3, <1>4

\* A fire that resets a count overtakes every other process.
LEMMA DeadByFinish ==
    ASSUME TypeOK, TypeOK', DropsOnlyDead, NEW p \in Pods, Finish(p)
    PROVE  DropsOnlyDead'
<1>1. pc'[p] = "next" /\ \A q \in Pods \ {p} : pc'[q] = pc[q] /\ cur'[q] = cur[q]
  BY DEF Finish, Leave, Goto, TypeOK, PollerOK
<1>2. \A j \in Jobs : j # cur[p] => failures'[j] = failures[j]
  BY DEF Finish, UpdateCronJobRun, TypeOK, TableOK
<1>3. rows' \subseteq rows /\ toggled' = toggled
  BY DEF Finish, RemoveRow
<1>4. \A q \in Pods \ {p} : overtaken'[q] = overtaken[q] \cup {cur[p]}
  BY DEF Finish
<1>5. overtaken'[p] = overtaken[p]
  BY DEF Finish
<1>6. rows' \subseteq Jobs
  BY DEF TypeOK, TableOK
<1>7. \A q \in Pods : pc'[q] = "drop" => pc[q] = "drop" /\ cur'[q] = cur[q]
  BY <1>1
<1>8. \A q \in Pods : overtaken[q] \subseteq overtaken'[q]
  BY <1>4, <1>5
<1>9. pc[p] # "drop"
  BY DEF Finish
<1> QED
  BY <1>2, <1>3, <1>4, <1>6, <1>7, <1>8, <1>9, DeadStays

\* Every step keeps the first half.
LEMMA DropsStep ==
    ASSUME TypeOK, [Next]_vars, DropsOnlyDead PROVE DropsOnlyDead'
<1>0. TypeOK'
  BY NextType
<1>1. CASE UNCHANGED vars
  BY <1>1, Zenon DEF DropsOnlyDead, vars, table, poller, history
<1>2. ASSUME NEW p \in Pods, Poll(p) \/ Check(p) \/ Send(p) \/ Look(p) \/ Wake(p)
      PROVE  DropsOnlyDead'
  <2>1. \A q \in Pods : pc'[q] = "drop" => pc[q] = "drop" /\ q # p
    BY <1>2 DEF Poll, Check, Send, Look, Wake, Sleep, Goto, TypeOK, PollerOK
  <2>2. UNCHANGED <<rows, failures, toggled, cur>>
    BY <1>2, Zenon DEF Poll, Check, Send, Look, Wake, table, history
  <2>3. \A q \in Pods \ {p} : overtaken'[q] = overtaken[q]
    BY <1>2 DEF Poll, Check, Send, Look, Wake, history, TypeOK, HistoryOK
  <2> QED
    BY <2>1, <2>2, <2>3, Zenon DEF DropsOnlyDead
<1>3. ASSUME NEW p \in Pods, Drop(p) \/ Crash(p) PROVE DropsOnlyDead'
  <2>1. /\ \A q \in Pods : pc'[q] = "drop" => pc[q] = "drop" /\ cur'[q] = cur[q]
        /\ UNCHANGED <<failures, toggled, overtaken>> /\ rows' \subseteq rows
    BY <1>3 DEF Drop, Crash, RemoveRow, Leave, Goto, table, TypeOK, PollerOK
  <2> QED
    BY <1>0, <2>1, DeadStays, Zenon
<1>4. ASSUME NEW p \in Pods, NEW j \in Jobs, LockCronJob(p, j) PROVE DropsOnlyDead'
  <2>1. /\ \A q \in Pods : pc'[q] = "drop" => pc[q] = "drop" /\ cur'[q] = cur[q]
        /\ UNCHANGED <<rows, failures, toggled, overtaken>>
    BY <1>4 DEF LockCronJob, Goto, TypeOK, PollerOK
  <2> QED
    BY <1>0, <2>1, DeadStays, Zenon
<1>5. ASSUME NEW p \in Pods, NEW j \in Jobs, Create(p, j) PROVE DropsOnlyDead'
  <2>1. \A q \in Pods : pc[q] = "drop" => cur[q] \in born
    BY DEF TypeOK, PollerOK
  <2>2. UNCHANGED <<failures, pc, cur, toggled, overtaken>> /\ rows' = rows \cup {j}
        /\ j \notin born
    BY <1>5, Zenon DEF Create, poller, history
  <2> QED
    BY <1>0, <2>1, <2>2, DeadStays
<1>6. ASSUME NEW p \in Pods, NEW j \in Jobs, AdapterGone(p, j) \/ AdapterBack(p, j)
      PROVE  DropsOnlyDead'
  BY <1>6, Zenon DEF DropsOnlyDead, AdapterGone, AdapterBack, table, poller, history
<1>7. ASSUME NEW j \in Jobs, Delete(j) \/ ToggleRead(j) PROVE DropsOnlyDead'
  <2>1. /\ UNCHANGED <<failures, pc, cur, toggled, overtaken>> /\ rows' \subseteq rows
    BY <1>7 DEF Delete, ToggleRead, RemoveRow, table, poller, history
  <2> QED
    BY <1>0, <2>1, DeadStays, Zenon
<1>8. ASSUME NEW on \in BOOLEAN, ToggleWrite(on) PROVE DropsOnlyDead'
  <2>1. /\ UNCHANGED <<pc, cur, overtaken>> /\ rows' = rows \cup {editing}
        /\ toggled' = toggled \cup {editing}
    BY <1>8, Zenon DEF ToggleWrite, poller
  <2>2. \A j \in Jobs : j # editing => failures'[j] = failures[j]
    BY <1>8 DEF ToggleWrite, TypeOK, TableOK
  <2>3. rows \subseteq Jobs
    BY DEF TypeOK, TableOK
  <2> QED
    BY <1>0, <2>1, <2>2, <2>3, DeadStays
<1>9. CASE Tick
  BY <1>9, Zenon DEF DropsOnlyDead, Tick, history
<1>10. ASSUME NEW p \in Pods, PollerStep(p) PROVE DropsOnlyDead'
  BY <1>0, <1>10, <1>2, <1>3, <1>4, DeadByMiss, DeadByFinish, Zenon DEF PollerStep
<1>11. ASSUME NEW p \in Pods,
              \/ PollerStep(p) \/ NotifyJobCreated(p) \/ Crash(p)
              \/ \E j \in Jobs : Create(p, j) \/ AdapterGone(p, j) \/ AdapterBack(p, j)
       PROVE  DropsOnlyDead'
  <2>1. CASE NotifyJobCreated(p)
    BY <2>1, Zenon DEF DropsOnlyDead, NotifyJobCreated, table, poller, history
  <2> QED
    BY <2>1, <1>11, <1>10, <1>3, <1>5, <1>6, Zenon
<1> QED
  BY <1>1, <1>7, <1>8, <1>9, <1>11, Zenon DEF Next
\* A process that answers for the job: it is awake, about to be woken, or up in time.
Watches(p, j) == pc[p] # "sleep" \/ notify[p] \/ saving[p] \/ timer[p] <= due[j]

\* What keeps the second half: a job that was wanted stays watched by the same process.
LEMMA WatchStays ==
    ASSUME NotOverslept, faults' = 0 => faults = 0,
           Wanted' \ toggled' \subseteq Wanted \ toggled,
           \A p \in Pods, j \in Wanted' \ toggled' : Watches(p, j) => Watches(p, j)'
    PROVE  NotOverslept'
<1> SUFFICES ASSUME faults' = 0, NEW j \in Wanted' \ toggled'
             PROVE  \E p \in Pods : Watches(p, j)'
  BY Zenon DEF NotOverslept, Watches
<1>1. PICK p \in Pods : Watches(p, j)
  BY Zenon DEF NotOverslept, Watches
<1> QED
  BY <1>1, Zenon

\* A process that is not asleep after the step watches every job.
LEMMA AwakeWatches ==
    ASSUME NEW p \in Pods, pc'[p] # "sleep" \/ saving'[p] \/ notify'[p] PROVE NotOverslept'
BY Zenon DEF NotOverslept

\* The look for the next due time: the sleep ends with the first wanted job.
LEMMA WatchByLook ==
    ASSUME TypeOK, NEW p \in Pods, Look(p) PROVE NotOverslept'
<1>1. Wanted' = Wanted /\ UNCHANGED <<due, toggled>>
  BY Zenon DEF Look, Wanted, table
<1>2. CASE Fault
  BY <1>2, Bounds DEF Fault, NotOverslept, TypeOK, HistoryOK
<1>3. CASE Wanted = {}
  BY <1>1, <1>3, Zenon DEF NotOverslept
<1>4. ASSUME NEW j \in Wanted, \A k \in Wanted : due[j] <= due[k],
             IF due[j] = 0 THEN Goto(p, "poll") /\ UNCHANGED timer ELSE Sleep(p, due[j])
      PROVE  NotOverslept'
  <2>1. CASE due[j] = 0
    <3>1. pc'[p] = "poll"
      BY <1>4, <2>1 DEF Goto, TypeOK, PollerOK
    <3> QED
      BY <3>1, AwakeWatches
  <2>2. CASE due[j] # 0
    <3>1. timer'[p] = due[j]
      BY <1>4, <2>2 DEF Sleep, TypeOK, PollerOK
    <3>2. \A k \in Wanted' \ toggled' : timer'[p] <= due'[k]
      BY <1>1, <1>4, <3>1
    <3> QED
      BY <3>2, Zenon DEF NotOverslept
  <2> QED
    BY <2>1, <2>2
<1> QED
  BY <1>2, <1>3, <1>4, Zenon DEF Look

\* Time: a sleep and the wait for a job grow shorter together.
LEMMA WatchByTick ==
    ASSUME TypeOK, Tick, NotOverslept PROVE NotOverslept'
<1>1. Wanted' = Wanted /\ UNCHANGED <<pc, notify, saving, toggled, faults>>
  BY Zenon DEF Tick, Wanted, history
<1>2. \A p \in Pods, j \in Jobs : timer[p] <= due[j] => timer'[p] <= due'[j]
  <2> SUFFICES ASSUME NEW p \in Pods, NEW j \in Jobs, timer[p] <= due[j]
               PROVE  timer'[p] <= due'[j]
    OBVIOUS
  <2>1. timer'[p] = Less(timer[p]) /\ due'[j] = Later(due[j])
    BY DEF Tick
  <2>2. timer[p] \in 0..Never /\ due[j] \in 0..Never
    BY DEF TypeOK, TableOK, PollerOK
  <2> QED
    BY <2>1, <2>2, Bounds DEF Later, Less
<1>3. Wanted \subseteq Jobs
  BY DEF Wanted, TypeOK, TableOK
<1>4. \A p \in Pods, j \in Wanted' \ toggled' : Watches(p, j) => Watches(p, j)'
  <2> SUFFICES ASSUME NEW p \in Pods, NEW j \in Wanted, Watches(p, j) PROVE Watches(p, j)'
    BY <1>1, Zenon
  <2>1. CASE timer[p] <= due[j]
    BY <1>2, <1>3, <2>1, Zenon DEF Watches
  <2> QED
    BY <1>1, <2>1, Zenon DEF Watches
<1> QED
  BY <1>1, <1>4, WatchStays, Zenon

\* The statements of the tools and of the dashboard: a new job comes with a
\* token to leave, and a toggle takes its job out of the promise.
LEMMA WatchByTools ==
    ASSUME TypeOK, NotOverslept,
           \/ \E p \in Pods : NotifyJobCreated(p)
           \/ \E p \in Pods, j \in Jobs : Create(p, j) \/ AdapterGone(p, j) \/ AdapterBack(p, j)
           \/ \E j \in Jobs : Delete(j) \/ ToggleRead(j)
           \/ \E on \in BOOLEAN : ToggleWrite(on)
    PROVE  NotOverslept'
<1>1. ASSUME NEW p \in Pods, NotifyJobCreated(p) PROVE NotOverslept'
  <2>1. notify' = [notify EXCEPT ![p] = TRUE]
    BY <1>1, Zenon DEF NotifyJobCreated
  <2>2. notify'[p]
    BY <2>1 DEF TypeOK, ProcessOK
  <2> QED
    BY <2>2, AwakeWatches
<1>2. ASSUME NEW p \in Pods, NEW j \in Jobs, Create(p, j) PROVE NotOverslept'
  <2>1. saving' = [saving EXCEPT ![p] = TRUE]
    BY <1>2, Zenon DEF Create
  <2>2. saving'[p]
    BY <2>1 DEF TypeOK, ProcessOK
  <2> QED
    BY <2>2, AwakeWatches
<1>3. ASSUME NEW p \in Pods, NEW j \in Jobs, AdapterGone(p, j) \/ AdapterBack(p, j)
      PROVE  NotOverslept'
  BY <1>3, Zenon DEF AdapterGone, AdapterBack, NotOverslept, Wanted, table, poller, history
<1>4. ASSUME NEW j \in Jobs, Delete(j) PROVE NotOverslept'
  <2>1. Wanted' \subseteq Wanted
    BY <1>4 DEF Delete, RemoveRow, Wanted
  <2>2. UNCHANGED <<due, pc, timer, notify, saving, toggled, faults>>
    BY <1>4, Zenon DEF Delete, poller, process, history
  <2> QED
    BY <2>1, <2>2, Zenon DEF NotOverslept
<1>5. ASSUME NEW j \in Jobs, ToggleRead(j) PROVE NotOverslept'
  BY <1>5, Zenon DEF ToggleRead, NotOverslept, Wanted, table, poller, process
<1>6. ASSUME NEW on \in BOOLEAN, ToggleWrite(on) PROVE NotOverslept'
  <2>1. Wanted' \ toggled' \subseteq Wanted \ toggled
    BY <1>6 DEF ToggleWrite, Wanted
  <2>2. \A j \in Jobs : j # editing => due'[j] = due[j]
    BY <1>6 DEF ToggleWrite, TypeOK, TableOK
  <2>3. toggled' = toggled \cup {editing} /\ UNCHANGED <<pc, timer, notify, saving, faults>>
    BY <1>6, Zenon DEF ToggleWrite, poller, process
  <2>4. \A p \in Pods, j \in Wanted' \ toggled' : Watches(p, j) => Watches(p, j)'
    <3>1. \A j \in Wanted' \ toggled' : due'[j] = due[j]
      BY <2>1, <2>2, <2>3 DEF Wanted, TypeOK, TableOK
    <3> QED
      BY <2>3, <3>1, Zenon DEF Watches
  <2> QED
    BY <2>1, <2>3, <2>4, WatchStays, Zenon
<1> QED
  BY <1>1, <1>2, <1>3, <1>4, <1>5, <1>6, Zenon

\* Every step keeps the second half.
LEMMA WatchStep ==
    ASSUME TypeOK, [Next]_vars, NotOverslept PROVE NotOverslept'
<1>1. CASE UNCHANGED vars
  BY <1>1, Zenon DEF NotOverslept, Wanted, vars, table, poller, process, history
<1>2. ASSUME NEW p \in Pods,
             \/ Poll(p) \/ Check(p) \/ IncrementFailure(p) \/ Drop(p) \/ Send(p) \/ Finish(p)
             \/ Wake(p) \/ \E j \in Jobs : LockCronJob(p, j)
      PROVE  NotOverslept'
  <2>1. pc'[p] # "sleep"
    BY <1>2 DEF Poll, Check, IncrementFailure, Drop, Send, Finish, Wake, LockCronJob, Leave,
       Goto, TypeOK, PollerOK
  <2> QED
    BY <2>1, AwakeWatches
<1>3. ASSUME NEW p \in Pods, Crash(p) PROVE NotOverslept'
  BY <1>3 DEF Crash, Fault, NotOverslept, TypeOK, HistoryOK
<1>4. ASSUME NEW p \in Pods, PollerStep(p) PROVE NotOverslept'
  BY <1>4, <1>2, WatchByLook, Zenon DEF PollerStep
<1> QED
  BY <1>1, <1>3, <1>4, WatchByTick, WatchByTools, Zenon DEF Next

\* A job is dropped only at the threshold of misses unless another process
\* fired it since, and, while no statement has failed and no process died,
\* every enabled job is watched by a process that is awake or will be in time.
THEOREM JobsKeptHolds == Spec => []JobsKept
<1>1. Init => JobsKept
  BY Zenon DEF Init, JobsKept, DropsOnlyDead, NotOverslept, Wanted
<1>2. TypeOK /\ JobsKept /\ [Next]_vars => JobsKept'
  BY DropsStep, WatchStep, Zenon DEF JobsKept
<1> QED
  BY <1>1, <1>2, TypeCorrect, PTL DEF Spec
-----------------------------------------------------------------------------
(* One send for an occurrence.  FiresOnce looks at one step; what makes it  *)
(* true is what a process knows when it is about to send, all the way from  *)
(* the list of due jobs it read: that the row was not sent before (nobody   *)
(* else held the lock, and a sender keeps it) and that it is still due      *)
(* (only a fire moves next_run, and a fire of another process overtakes).   *)

\* Jobs whose history holds no toggle and no statement lost after a send.
Clean == Jobs \ (toggled \cup unstored)

\* p has locked the row and has not sent yet.
Aiming(p, j) == pc[p] \in {"check", "miss", "send"} /\ cur[p] = j

\* Only a job with an id was ever sent.
SentBorn == \A j \in Jobs : sent[j] > 0 => j \in born

\* A row that was sent and not moved on is held by the process that sent it.
SentHeld ==
    \A j \in Clean \cap rows : sent[j] > 0 => \E q \in Pods : pc[q] = "sent" /\ cur[q] = j

\* A process that aims at a job is the first to.
AimFresh == \A p \in Pods, j \in Clean : Aiming(p, j) => sent[j] = 0

\* p read the job as due, or is at it, and no fire of a recurring one intervened.
Current(p, j) ==
    /\ j \in once \/ j \notin overtaken[p]
    /\ j \in batch[p] \/ Aiming(p, j)

ListDue == \A p \in Pods, j \in Clean : Current(p, j) => due[j] = 0

\* The job at hand was taken off the list.
CurLeft == \A p \in Pods : pc[p] \in Holding => cur[p] \notin batch[p]

FireInv == SentBorn /\ SentHeld /\ AimFresh /\ ListDue /\ CurLeft

\* Steps that send nothing, finish nothing and take up no job: what they do to
\* rows that exist and are not toggled is to delete them or to let time pass.
LEMMA FireQuiet ==
    ASSUME TypeOK, FireInv, sent' = sent, born \subseteq born', Clean' \subseteq Clean,
           \A j \in Clean' \cap born :
               /\ j \in rows' => j \in rows
               /\ j \in once' => j \in once
               /\ due[j] = 0 => due'[j] = 0,
           \A p \in Pods :
               /\ pc[p] = "sent" => (pc'[p] = "sent" /\ cur'[p] = cur[p]) \/ cur[p] \notin Clean'
               /\ pc'[p] \in Holding => pc[p] \in Holding /\ cur'[p] = cur[p]
               /\ pc'[p] \in {"check", "miss", "send"} => pc[p] \in {"check", "miss", "send"}
               /\ batch'[p] \subseteq batch[p] /\ overtaken[p] \subseteq overtaken'[p]
    PROVE  FireInv'
<1>1. SentBorn'
  BY DEF FireInv, SentBorn
<1>2. SentHeld'
  <2> SUFFICES ASSUME NEW j \in Clean' \cap rows', sent[j] > 0
               PROVE  \E q \in Pods : pc'[q] = "sent" /\ cur'[q] = j
    BY Zenon DEF SentHeld
  <2>1. j \in born
    BY DEF FireInv, SentBorn, Clean
  <2>2. PICK q \in Pods : pc[q] = "sent" /\ cur[q] = j
    BY <2>1 DEF FireInv, SentHeld
  <2> QED
    BY <2>2
<1>3. \A p \in Pods, j \in Clean' : Aiming(p, j)' => Aiming(p, j)
  BY DEF Aiming, Holding
<1>4. AimFresh'
  BY <1>3, Zenon DEF FireInv, AimFresh
<1>5. \A p \in Pods, j \in Clean' : Current(p, j)' => Current(p, j) /\ j \in born
  <2> SUFFICES ASSUME NEW p \in Pods, NEW j \in Clean', Current(p, j)'
               PROVE  Current(p, j) /\ j \in born
    OBVIOUS
  <2>1. j \in batch[p] \/ Aiming(p, j)
    BY <1>3 DEF Current
  <2>2. j \in born
    BY <2>1, CronAssumption DEF Aiming, TypeOK, PollerOK, Clean
  <2> QED
    BY <2>1, <2>2 DEF Current
<1>6. ListDue'
  BY <1>5 DEF FireInv, ListDue
<1>7. CurLeft'
  BY DEF FireInv, CurLeft
<1> QED
  BY <1>1, <1>2, <1>4, <1>6, <1>7, Zenon DEF FireInv

\* The list of due jobs.
LEMMA FireByPoll ==
    ASSUME TypeOK, FireInv, NEW p \in Pods, Poll(p) PROVE FireInv'
<1>1. /\ UNCHANGED <<rows, once, due, born, sent, cur, toggled, unstored>>
      /\ pc[p] = "poll" /\ pc'[p] = "next"
  BY DEF Poll, Goto, table, TypeOK, PollerOK
<1>2. \A q \in Pods \ {p} : pc'[q] = pc[q]
  BY DEF Poll, Goto, TypeOK, PollerOK
<1>3. CASE UNCHANGED <<batch, overtaken>>
  BY <1>1, <1>2, <1>3, FireQuiet DEF Clean, Holding
<1>4. CASE batch' = [batch EXCEPT ![p] = DueJobs] /\ overtaken' = [overtaken EXCEPT ![p] = {}]
  <2>1. SentBorn'
    BY <1>1, Zenon DEF FireInv, SentBorn
  <2>2. \A q \in Pods : /\ pc[q] = "sent" <=> pc'[q] = "sent"
                        /\ pc'[q] \in Holding => q # p /\ pc[q] \in Holding
    BY <1>1, <1>2 DEF Holding
  <2>3. SentHeld'
    BY <1>1, <2>2, Zenon DEF FireInv, SentHeld, Clean
  <2>4. \A q \in Pods, j \in Jobs : Aiming(q, j)' => q # p /\ Aiming(q, j)
    BY <1>1, <1>2 DEF Aiming
  <2>5. AimFresh'
    BY <1>1, <2>4, Zenon DEF FireInv, AimFresh, Clean
  <2>6. \A q \in Pods \ {p} : batch'[q] = batch[q] /\ overtaken'[q] = overtaken[q]
    BY <1>4 DEF TypeOK, PollerOK, HistoryOK
  <2>7. batch'[p] = DueJobs
    BY <1>4 DEF TypeOK, PollerOK
  <2>8. ListDue'
    <3> SUFFICES ASSUME NEW q \in Pods, NEW j \in Clean', Current(q, j)' PROVE due[j] = 0
      BY <1>1, Zenon DEF ListDue
    <3>1. j \in Clean /\ j \in Jobs
      BY <1>1 DEF Clean
    <3>2. CASE q = p
      BY <2>4, <2>7, <3>1, <3>2 DEF Current, DueJobs
    <3>3. CASE q # p
      <4>1. Current(q, j)
        BY <1>1, <2>4, <2>6, <3>1, <3>3, Zenon DEF Current
      <4> QED
        BY <3>1, <4>1, Zenon DEF FireInv, ListDue
    <3> QED
      BY <3>2, <3>3
  <2>9. CurLeft'
    BY <1>1, <2>2, <2>6 DEF FireInv, CurLeft
  <2> QED
    BY <2>1, <2>3, <2>5, <2>8, <2>9, Zenon DEF FireInv
<1> QED
  BY <1>3, <1>4, Zenon DEF Poll

\* The claim: a free row is one that nobody has sent, for a sender holds it.
LEMMA FireByLock ==
    ASSUME Margin, IInv, FireInv, NEW p \in Pods, NEW j \in Jobs, LockCronJob(p, j)
    PROVE  FireInv'
<1>1. /\ UNCHANGED <<rows, once, due, born, sent, toggled, unstored, overtaken>>
      /\ pc[p] = "next" /\ j \in batch[p] /\ batch' = [batch EXCEPT ![p] = @ \ {j}]
  BY Zenon DEF LockCronJob
<1>2. batch'[p] = batch[p] \ {j} /\ \A q \in Pods \ {p} : batch'[q] = batch[q]
  BY <1>1 DEF IInv, TypeOK, PollerOK
<1>3. CASE UNCHANGED <<cur, pc>>
  <2>1. \A q \in Pods : batch'[q] \subseteq batch[q]
    BY <1>2
  <2> QED
    BY <1>1, <1>3, <2>1, FireQuiet, Zenon DEF Clean, IInv
<1>4. CASE LockFree(j) /\ cur' = [cur EXCEPT ![p] = j] /\ Goto(p, "check")
  <2>1. cur'[p] = j /\ pc'[p] = "check"
    BY <1>4 DEF Goto, IInv, TypeOK, PollerOK
  <2>2. \A q \in Pods \ {p} : pc'[q] = pc[q] /\ cur'[q] = cur[q]
    BY <1>4 DEF Goto, IInv, TypeOK, PollerOK
  <2>3. SentBorn'
    BY <1>1, Zenon DEF FireInv, SentBorn
  <2>4. \A q \in Pods : pc[q] = "sent" => q # p
    BY <1>1
  <2>5. SentHeld'
    BY <1>1, <2>2, <2>4 DEF FireInv, SentHeld, Clean
  <2>6. j \in Clean => sent[j] = 0
    <3> SUFFICES ASSUME j \in Clean PROVE sent[j] = 0
      OBVIOUS
    <3>1. lock[j] = 0 /\ j \in rows
      BY <1>4 DEF LockFree
    <3>2. ASSUME NEW q \in Pods, pc[q] = "sent", cur[q] = j PROVE FALSE
      <4>1. Safe(q)
        BY <3>2 DEF Safe, Holding, Clean
      <4> QED
        BY <3>1, <3>2, <4>1, HeldIsLocked
    <3>3. sent[j] \in 0..2
      BY DEF IInv, TypeOK, TableOK
    <3> QED
      BY <3>1, <3>2, <3>3 DEF FireInv, SentHeld
  <2>7. \A q \in Pods, k \in Jobs : Aiming(q, k)' => (q = p /\ k = j) \/ (q # p /\ Aiming(q, k))
    BY <2>1, <2>2 DEF Aiming
  <2>8. AimFresh'
    BY <1>1, <2>6, <2>7, Zenon DEF FireInv, AimFresh, Clean
  <2>9. \A q \in Pods, k \in Jobs : Current(q, k)' => Current(q, k)
    BY <1>1, <1>2, <2>7 DEF Current
  <2>10. ListDue'
    BY <1>1, <2>9 DEF FireInv, ListDue, Clean
  <2>11. CurLeft'
    BY <1>2, <2>1, <2>2 DEF FireInv, CurLeft
  <2> QED
    BY <2>3, <2>5, <2>8, <2>10, <2>11, Zenon DEF FireInv
<1> QED
  BY <1>3, <1>4, Zenon DEF LockCronJob

\* The send: no other process aims at the job, so none finds it sent.
LEMMA FireBySend ==
    ASSUME IInv, FireInv, NEW p \in Pods, Send(p) PROVE FireInv'
<1>1. /\ UNCHANGED <<rows, once, due, born, cur, batch, toggled, unstored, overtaken>>
      /\ pc[p] = "send" /\ pc' = [pc EXCEPT ![p] = "sent"]
      /\ sent' = [sent EXCEPT ![cur[p]] = IF @ = 2 THEN 2 ELSE @ + 1]
  BY Zenon DEF Send, Goto, history
<1>2. pc'[p] = "sent" /\ \A q \in Pods \ {p} : pc'[q] = pc[q]
  BY <1>1 DEF IInv, TypeOK, PollerOK
<1>3. \A j \in Jobs : j # cur[p] => sent'[j] = sent[j]
  BY <1>1 DEF IInv, TypeOK, TableOK
<1>4. cur[p] \in born /\ pc[p] \in Holding
  BY <1>1 DEF IInv, TypeOK, PollerOK, Holding
<1>5. SentBorn'
  BY <1>1, <1>3, <1>4 DEF FireInv, SentBorn
<1>6. SentHeld'
  <2> SUFFICES ASSUME NEW j \in Clean \cap rows, sent'[j] > 0
               PROVE  \E q \in Pods : pc'[q] = "sent" /\ cur[q] = j
    BY <1>1, Zenon DEF SentHeld, Clean
  <2>1. CASE j = cur[p]
    BY <1>2, <2>1
  <2>2. CASE j # cur[p]
    <3>1. sent[j] > 0
      BY <1>3, <2>2 DEF Clean
    <3>2. PICK q \in Pods : pc[q] = "sent" /\ cur[q] = j
      BY <3>1, Zenon DEF FireInv, SentHeld
    <3> QED
      BY <1>2, <2>2, <3>2
  <2> QED
    BY <2>1, <2>2
<1>7. \A q \in Pods, j \in Jobs : Aiming(q, j)' => q # p /\ Aiming(q, j)
  BY <1>1, <1>2 DEF Aiming
<1>8. AimFresh'
  <2> SUFFICES ASSUME NEW q \in Pods, NEW j \in Clean, Aiming(q, j)' PROVE sent'[j] = 0
    BY <1>1, Zenon DEF AimFresh, Clean
  <2>1. q # p /\ Aiming(q, j) /\ j \in Jobs /\ j \notin toggled
    BY <1>7 DEF Clean
  <2>2. Safe(q) /\ cur[q] = j
    BY <2>1 DEF Aiming, Safe, Holding
  <2>3. cur[p] # j
    BY <1>4, <2>1, <2>2, SafeExcludes
  <2>4. sent[j] = 0
    BY <2>1, Zenon DEF FireInv, AimFresh
  <2> QED
    BY <1>3, <2>1, <2>3, <2>4
<1>9. \A q \in Pods, j \in Jobs : Current(q, j)' => Current(q, j)
  BY <1>1, <1>7, Zenon DEF Current
<1>10. ListDue'
  BY <1>1, <1>9 DEF FireInv, ListDue, Clean
<1>11. CurLeft'
  BY <1>1, <1>2, <1>4 DEF FireInv, CurLeft
<1> QED
  BY <1>5, <1>6, <1>8, <1>10, <1>11, Zenon DEF FireInv
\* The end of a fire: a one-shot job has no row any more, a recurring one is
\* unsent again and every other process that had listed it is overtaken, or the
\* statement was lost and the job is on record as such.
LEMMA FireByFinish ==
    ASSUME IInv, FireInv, NEW p \in Pods, Finish(p) PROVE FireInv'
<1> DEFINE j == cur[p]
<1>1. /\ UNCHANGED <<once, born, batch, toggled>> /\ pc[p] = "sent"
      /\ \A q \in Pods \ {p} : overtaken'[q] = overtaken[q] \cup {j}
      /\ overtaken'[p] = overtaken[p]
  BY DEF Finish
<1>2. pc'[p] = "next" /\ \A q \in Pods \ {p} : pc'[q] = pc[q] /\ cur'[q] = cur[q]
  BY DEF Finish, Leave, Goto, IInv, TypeOK, PollerOK
<1>3. \A k \in Jobs : k # j => sent'[k] = sent[k] /\ due'[k] = due[k]
  BY DEF Finish, UpdateCronJobRun, IInv, TypeOK, TableOK
<1>4. j \in Jobs => sent'[j] \in {sent[j], 0}
  BY DEF Finish, UpdateCronJobRun, IInv, TypeOK, TableOK
<1>5. Clean' \subseteq Clean /\ rows' \subseteq rows
  BY DEF Finish, Clean, RemoveRow
<1>6. j \in Clean' => j \notin rows' \/ sent'[j] = 0
  BY DEF Finish, UpdateCronJobRun, RemoveRow, Clean, IInv, TypeOK, TableOK
<1>7. j \in Clean' => due'[j] = due[j] \/ j \notin once
  BY DEF Finish, UpdateCronJobRun, Clean, IInv, TypeOK, TableOK
<1>8. j \notin batch[p]
  BY <1>1 DEF FireInv, CurLeft, Holding
<1>9. \A q \in Pods, k \in Jobs : Aiming(q, k)' => q # p /\ Aiming(q, k)
  BY <1>2 DEF Aiming
<1> HIDE DEF j
<1>10. SentBorn'
  <2>1. \A k \in Jobs : sent'[k] \in {sent[k], 0} /\ sent[k] \in 0..2
    BY <1>3, <1>4 DEF IInv, TypeOK, TableOK
  <2> QED
    BY <1>1, <2>1 DEF FireInv, SentBorn
<1>11. SentHeld'
  <2> SUFFICES ASSUME NEW k \in Clean' \cap rows', sent'[k] > 0
               PROVE  \E q \in Pods : pc'[q] = "sent" /\ cur'[q] = k
    BY Zenon DEF SentHeld
  <2>1. k # j /\ k \in Jobs
    BY <1>6 DEF Clean
  <2>2. PICK q \in Pods : pc[q] = "sent" /\ cur[q] = k
    BY <1>3, <1>5, <2>1 DEF FireInv, SentHeld
  <2> QED
    BY <1>2, <2>1, <2>2 DEF j
<1>12. AimFresh'
  <2> SUFFICES ASSUME NEW q \in Pods, NEW k \in Clean', Aiming(q, k)' PROVE sent'[k] = 0
    BY Zenon DEF AimFresh
  <2>1. k \in Clean /\ k \in Jobs
    BY <1>5 DEF Clean
  <2>2. sent[k] = 0
    BY <1>9, <2>1, Zenon DEF FireInv, AimFresh
  <2> QED
    BY <1>3, <1>4, <2>1, <2>2
<1>13. ListDue'
  <2> SUFFICES ASSUME NEW q \in Pods, NEW k \in Clean', Current(q, k)' PROVE due'[k] = 0
    BY Zenon DEF ListDue
  <2>1. k \in Clean /\ k \in Jobs
    BY <1>5 DEF Clean
  <2>2. Current(q, k)
    BY <1>1, <1>9, <2>1 DEF Current
  <2>3. due[k] = 0
    BY <2>1, <2>2, Zenon DEF FireInv, ListDue
  <2>4. CASE k = j
    <3>1. q # p
      BY <1>1, <1>8, <1>9, <2>1, <2>4 DEF Current
    <3>2. k \in once
      BY <1>1, <2>4, <3>1 DEF Current
    <3> QED
      BY <1>7, <2>3, <2>4, <3>2
  <2> QED
    BY <1>3, <2>1, <2>3, <2>4
<1>14. CurLeft'
  BY <1>1, <1>2 DEF FireInv, CurLeft, Holding
<1> QED
  BY <1>10, <1>11, <1>12, <1>13, <1>14, Zenon DEF FireInv

\* The other steps of a poller.
LEMMA FireByPoller ==
    ASSUME IInv, FireInv, NEW p \in Pods,
           Check(p) \/ IncrementFailure(p) \/ Drop(p) \/ Look(p) \/ Wake(p)
    PROVE  FireInv'
<1>1. UNCHANGED <<due, born, once, sent, batch, toggled, unstored, overtaken>> /\ rows' \subseteq rows
  BY DEF Check, IncrementFailure, Drop, Look, Wake, RemoveRow, table, history
<1>2. \A q \in Pods : /\ pc[q] = "sent" => pc'[q] = "sent" /\ cur'[q] = cur[q]
                      /\ pc'[q] \in Holding => pc[q] \in Holding /\ cur'[q] = cur[q]
                      /\ pc'[q] \in {"check", "miss", "send"} => pc[q] \in {"check", "miss", "send"}
  BY DEF Check, IncrementFailure, Drop, Look, Wake, Sleep, Leave, Goto, Holding, IInv, TypeOK,
     PollerOK
<1> QED
  BY <1>1, <1>2, FireQuiet DEF Clean, IInv

\* A process dies: a send whose statement did not follow is on record.
LEMMA FireByCrash ==
    ASSUME IInv, FireInv, NEW p \in Pods, Crash(p) PROVE FireInv'
<1>1. /\ UNCHANGED <<rows, due, born, once, sent, toggled, overtaken>>
      /\ unstored' = IF pc[p] = "sent" THEN unstored \cup {cur[p]} ELSE unstored
  BY Zenon DEF Crash, table
<1>2. /\ pc'[p] = "poll" /\ batch'[p] = {}
      /\ \A q \in Pods \ {p} : pc'[q] = pc[q] /\ cur'[q] = cur[q] /\ batch'[q] = batch[q]
  BY DEF Crash, Goto, IInv, TypeOK, PollerOK
<1>3. Clean' \subseteq Clean /\ (pc[p] = "sent" => cur[p] \notin Clean')
  BY <1>1 DEF Clean
<1> QED
  BY <1>1, <1>2, <1>3, FireQuiet DEF IInv, Holding

\* The tools, the dashboard and the adapters.
LEMMA FireByTools ==
    ASSUME IInv, FireInv,
           \/ \E p \in Pods : NotifyJobCreated(p)
           \/ \E p \in Pods, j \in Jobs : Create(p, j) \/ AdapterGone(p, j) \/ AdapterBack(p, j)
           \/ \E j \in Jobs : Delete(j) \/ ToggleRead(j)
           \/ \E on \in BOOLEAN : ToggleWrite(on)
    PROVE  FireInv'
<1>1. UNCHANGED <<sent, pc, cur, batch, unstored, overtaken>> /\ born \subseteq born'
  BY DEF NotifyJobCreated, Create, AdapterGone, AdapterBack, Delete, ToggleRead, ToggleWrite,
     table, poller, history
<1>2. toggled \subseteq toggled'
  BY DEF NotifyJobCreated, Create, AdapterGone, AdapterBack, Delete, ToggleRead, ToggleWrite,
     history
<1>3. \A j \in Clean' \cap born :
          (j \in rows' => j \in rows) /\ (j \in once' => j \in once) /\ due'[j] = due[j]
  <2>1. ASSUME NEW p \in Pods, NEW k \in Jobs, Create(p, k),
               NEW j \in Jobs, j \in born
        PROVE  (j \in rows' => j \in rows) /\ (j \in once' => j \in once) /\ due'[j] = due[j]
    <3>1. j # k /\ rows' = rows \cup {k} /\ once' \subseteq once \cup {k}
      BY <2>1 DEF Create
    <3>2. \E d \in 1..Period : due' = [due EXCEPT ![k] = d]
      BY <2>1, Zenon DEF Create
    <3> QED
      BY <3>1, <3>2 DEF IInv, TypeOK, TableOK
  <2>2. ASSUME NEW on \in BOOLEAN, ToggleWrite(on), NEW j \in Clean'
        PROVE  (j \in rows' => j \in rows) /\ (j \in once' => j \in once) /\ due'[j] = due[j]
    BY <2>2 DEF ToggleWrite, Clean, IInv, TypeOK, TableOK
  <2>3. ASSUME NEW k \in Jobs, Delete(k) \/ ToggleRead(k)
        PROVE  rows' \subseteq rows /\ UNCHANGED <<once, due>>
    BY <2>3 DEF Delete, ToggleRead, RemoveRow, table
  <2>4. ASSUME NEW p \in Pods, NEW k \in Jobs, AdapterGone(p, k) \/ AdapterBack(p, k)
        PROVE  UNCHANGED <<rows, once, due>>
    BY <2>4, Zenon DEF AdapterGone, AdapterBack, table
  <2>5. ASSUME NEW p \in Pods, NotifyJobCreated(p) PROVE UNCHANGED <<rows, once, due>>
    BY <2>5, Zenon DEF NotifyJobCreated, table
  <2> SUFFICES ASSUME NEW j \in Clean', j \in born
               PROVE  (j \in rows' => j \in rows) /\ (j \in once' => j \in once)
                      /\ due'[j] = due[j]
    OBVIOUS
  <2> QED
    BY <2>1, <2>2, <2>3, <2>4, <2>5 DEF Clean
<1>4. Clean' \subseteq Clean
  BY <1>1, <1>2 DEF Clean
<1> QED
  BY <1>1, <1>3, <1>4, FireQuiet DEF IInv

\* Time: what is due stays due.
LEMMA FireByTick ==
    ASSUME IInv, FireInv, Tick PROVE FireInv'
<1>1. UNCHANGED <<rows, once, born, sent, pc, cur, batch, toggled, unstored, overtaken>>
  BY Zenon DEF Tick, history
<1>2. \A j \in Jobs : due[j] = 0 => due'[j] = 0
  BY Bounds DEF Tick, Later, Less
<1> QED
  BY <1>1, <1>2, FireQuiet DEF Clean, IInv

\* Every step keeps what a process knows of the jobs it lists.
LEMMA FireStep ==
    ASSUME Margin, IInv, FireInv, [Next]_vars PROVE FireInv'
<1>1. CASE UNCHANGED vars
  BY <1>1, FireQuiet DEF Clean, IInv, vars, table, poller, process, history
<1>2. ASSUME NEW p \in Pods, PollerStep(p) PROVE FireInv'
  BY <1>2, FireByPoll, FireByLock, FireBySend, FireByFinish, FireByPoller, Zenon DEF PollerStep, IInv
<1> QED
  BY <1>1, <1>2, FireByCrash, FireByTools, FireByTick, Zenon DEF Next

\* With Margin, an occurrence is sent once and when it is due: a second send
\* needs a toggle, a statement lost after a send or, for a recurring job, a list
\* of due jobs that the fire of another process has overtaken.
THEOREM FiresOnceHolds == ASSUME Margin PROVE Spec => FiresOnce
<1> DEFINE Once == \A p \in Pods, j \in Jobs \ (toggled \cup unstored) :
                      (j \in once \/ j \notin overtaken[p]) => ~Again(p, j)
<1>1. Init => IInv /\ FireInv
  <2> SUFFICES ASSUME Init PROVE IInv /\ FireInv
    OBVIOUS
  <2>1. \A p \in Pods : pc[p] \notin Holding /\ pc[p] = "poll" /\ batch[p] = {}
    BY DEF Init, Holding
  <2>2. IInv
    BY <2>1, InitType, Zenon DEF IInv, LockRuns, Safe, LockExcludes, Holds
  <2>3. FireInv
    BY <2>1 DEF Init, FireInv, SentBorn, SentHeld, AimFresh, ListDue, CurLeft, Current, Aiming
  <2> QED
    BY <2>2, <2>3
<1>2. IInv /\ FireInv /\ [Next]_vars => (IInv /\ FireInv)'
  BY NextStep, FireStep, Zenon
<1>3. IInv /\ FireInv /\ [Next]_vars => [Once]_vars
  <2> SUFFICES ASSUME FireInv PROVE Once
    OBVIOUS
  <2> SUFFICES ASSUME NEW p \in Pods, NEW j \in Clean, j \in once \/ j \notin overtaken[p],
                      Again(p, j)
               PROVE  FALSE
    BY Zenon DEF Clean
  <2>1. Aiming(p, j)
    BY DEF Again, Aiming
  <2>2. sent[j] = 0 /\ due[j] = 0
    BY <2>1, Zenon DEF FireInv, AimFresh, ListDue, Current
  <2> QED
    BY <2>2, Zenon DEF Again
<1> QED
  BY <1>1, <1>2, <1>3, PTL DEF Spec, FiresOnce
-----------------------------------------------------------------------------
(* CronNext: NextOccurrenceIn returns the least match of its window, for every *)
(* expression; what that gives for the run times of a job.                   *)

\* A non-empty set of naturals has a least element.
LEMMA LeastNatural ==
    ASSUME NEW S \in SUBSET Nat, S # {}
    PROVE  \E t \in S : \A u \in S : t <= u
<1>1. PICK t \in S : \A u \in S : <<u, t>> \notin OpToRel(<, Nat)
  BY WFMin, NatLessThanWellFounded, Zenon
<1>2. \A u \in S : ~(u < t)
  BY <1>1, Zenon DEF OpToRel
<1> QED
  BY <1>2

\* What NextOccurrenceIn computes: a time after the poll; the least match, when
\* the window has one.
LEMMA NextIsLeast ==
    ASSUME NEW s, NEW after \in Nat
    PROVE  /\ NextOccurrenceIn(s, after) \in Nat
           /\ NextOccurrenceIn(s, after) > after
           /\ Matches(s, after) # {} =>
                /\ NextOccurrenceIn(s, after) \in Matches(s, after)
                /\ \A u \in Matches(s, after) : NextOccurrenceIn(s, after) <= u
<1> DEFINE found == Matches(s, after)
           next  == NextOccurrenceIn(s, after)
<1>1. found \in SUBSET Nat /\ \A t \in found : t > after
  BY ScheduleAssumption DEF Matches
<1>2. CASE found = {}
  <2>1. next = after + Fallback
    BY <1>2, Zenon DEF NextOccurrenceIn
  <2> QED
    BY <1>2, <2>1, ScheduleAssumption
<1>3. CASE found # {}
  <2>1. \E t \in found : \A u \in found : t <= u
    BY <1>1, <1>3, LeastNatural, Zenon
  <2>2. next = CHOOSE t \in found : \A u \in found : t <= u
    BY <1>3, Zenon DEF NextOccurrenceIn
  <2>3. next \in found /\ \A u \in found : next <= u
    BY <2>1, <2>2, Zenon
  <2> QED
    BY <1>1, <2>3, Zenon
<1> QED
  BY <1>2, <1>3

\* The poll time and the due time are tied by NextOccurrenceIn at every step.
Computed == nextRun = NextOccurrenceIn(fields, now)

ScheduleInv == fields \in Schedules /\ now \in Nat /\ Computed

\* The inductive invariant holds in every reachable state.
LEMMA ScheduleInductive == ScheduleSpec => []ScheduleInv
<1>1. ScheduleInit => ScheduleInv
  <2> SUFFICES ASSUME ScheduleInit PROVE now \in Nat
    BY Zenon DEF ScheduleInit, ScheduleInv, Computed
  <2> QED
    BY ScheduleAssumption DEF ScheduleInit
<1>2. ScheduleInv /\ [ScheduleNext]_scheduleVars => ScheduleInv'
  <2> SUFFICES ASSUME ScheduleInv, [ScheduleNext]_scheduleVars PROVE ScheduleInv'
    OBVIOUS
  <2>1. CASE Fire
    <3>1. nextRun \in Nat
      BY NextIsLeast, Zenon DEF ScheduleInv, Computed
    <3>2. now' \in Nat
      BY <2>1, <3>1, ScheduleAssumption DEF Fire
    <3> QED
      BY <2>1, <3>2, Zenon DEF Fire, ScheduleInv, Computed
  <2>2. CASE UNCHANGED scheduleVars
    BY <2>2, Zenon DEF scheduleVars, ScheduleInv, Computed
  <2> QED
    BY <2>1, <2>2, Zenon DEF ScheduleNext
<1> QED
  BY <1>1, <1>2, PTL DEF ScheduleSpec

\* Every next run lies after the poll that computed it, so a fired job does not
\* fall due again at once.
THEOREM NextRunAhead == ScheduleSpec => []ScheduleTypeOK
<1>1. ScheduleInv => ScheduleTypeOK
  BY NextIsLeast, Zenon DEF ScheduleInv, Computed, ScheduleTypeOK
<1> QED
  BY <1>1, ScheduleInductive, PTL

\* Whenever a match lies within the window the job is due at a match, and no
\* matching instant is passed over.
THEOREM FirstMatchHolds == ScheduleSpec => []FirstMatch
<1>1. ASSUME ScheduleInv, Matches(fields, now) # {}
      PROVE  CronMatch(fields, nextRun)
  <2>1. nextRun \in Matches(fields, now)
    BY <1>1, NextIsLeast, Zenon DEF ScheduleInv, Computed
  <2> QED
    BY <2>1, Zenon DEF Matches
<1>2. ASSUME ScheduleInv, NEW t \in (now + 1)..(nextRun - 1), CronMatch(fields, t)
      PROVE  FALSE
  <2>1. now \in Nat /\ nextRun \in Nat /\ nextRun = NextOccurrenceIn(fields, now)
    BY <1>2, NextIsLeast, Zenon DEF ScheduleInv, Computed
  <2>2. nextRun <= now + Window
    <3>1. CASE Matches(fields, now) = {}
      <4>1. nextRun = now + Fallback
        BY <2>1, <3>1, Zenon DEF NextOccurrenceIn
      <4> QED
        BY <2>1, <4>1, ScheduleAssumption
    <3>2. CASE Matches(fields, now) # {}
      <4>1. nextRun \in Matches(fields, now)
        BY <2>1, <3>2, NextIsLeast, Zenon
      <4>2. nextRun \in (now + 1)..(now + Window)
        BY <4>1, Zenon DEF Matches
      <4> QED
        BY <2>1, <4>2, ScheduleAssumption
    <3> QED
      BY <3>1, <3>2, Zenon
  <2>3. t \in (now + 1)..(now + Window) /\ t < nextRun /\ t \in Nat
    BY <2>1, <2>2, ScheduleAssumption
  <2>4. t \in Matches(fields, now)
    BY <1>2, <2>3, Zenon DEF Matches
  <2>5. nextRun <= t
    BY <2>1, <2>4, NextIsLeast, Zenon
  <2> QED
    BY <2>1, <2>3, <2>5
<1>3. ScheduleInv => FirstMatch
  BY <1>1, <1>2, Zenon DEF FirstMatch
<1> QED
  BY <1>3, ScheduleInductive, PTL
-----------------------------------------------------------------------------
(* Wiki.                                                                   *)

Entries == [id : Pages, title : STRING]

\* A job has a source of its agent in hand from its reading on.
JobTyped(x) ==
    /\ DOMAIN x = {"pc", "by", "agent", "todo", "src", "rest", "found"}
    /\ x.pc \notin {"new", "over"} => x.agent \in Agents /\ x.by \in {"user", "force", "sweep"}
    /\ x.todo \subseteq {s \in Sources : AgentOf[s] = x.agent}
    /\ IF x.pc \in {"read", "find", "merge", "write", "mark"}
       THEN x.src \in Sources /\ AgentOf[x.src] = x.agent ELSE x.src = NoSource
    /\ IF x.pc = "merge" THEN x.found.id \in Pages ELSE x.found = NotFound
    /\ x.rest \in Seq(Entries)
    /\ x.pc \in {"find", "merge", "write"} => x.rest # <<>>

JobsTyped  == job = [j \in WikiJobs |-> job[j]] /\ \A j \in WikiJobs : JobTyped(job[j])
PageShapes == page = [i \in Pages |-> page[i]]

\* A deletion has emptied its source, and then removed it.
DelTyped ==
    /\ DOMAIN del = {"src", "via", "at"}
    /\ \/ del = NoDel
       \/ del.at = "row" /\ del.via \in {"http", "tool"} /\ del.src \in Sources /\ source[del.src] = "gutted"
       \/ del.at = "pages" /\ del.src \in Sources /\ source[del.src] = "gone"

SourcesTyped ==
    /\ source = [s \in Sources |-> source[s]]
    /\ \A s \in marked : s \in Sources /\ source[s] \in {"here", "gutted"}

WikiTyped == JobsTyped /\ PageShapes /\ DelTyped /\ SourcesTyped

JobStep(j) ==
    \/ HandleWikiGenerate(j) \/ RunWikiAutoGenCycle(j) \/ SetWikiAutoGenLastRun(j)
    \/ ListSources(j) \/ EndJob(j) \/ (\E s \in Sources : CleanSource(j, s)) \/ Analyse(j)
    \/ FindPageByTitle(j) \/ MergeSource(j) \/ WritePage(j) \/ MarkSourceGenerated(j)

UserStep ==
    \/ \E s \in Sources : IngestText(s) \/ DeleteEntries(s)
    \/ DeleteRow \/ Cascade
    \/ \E i \in Pages : DeletePage(i)
    \/ \E a \in Agents : WikiIntervalPasses(a)

LEMMA WikiSteps ==
    ASSUME [WikiNext]_wikiVars
    PROVE  \/ \E j \in WikiJobs : JobStep(j) \/ PodDies(JobPod[j])
           \/ UserStep
           \/ UNCHANGED wikiVars
  BY DEF WikiNext, JobStep, UserStep
-----------------------------------------------------------------------------
(* The jobs.                                                               *)

\* A job goes on, and no other one.
JobGoes(j) ==
    /\ job' = [k \in WikiJobs |-> job'[k]] /\ JobTyped(job'[j])
    /\ \A k \in WikiJobs \ {j} : job'[k] = job[k]

\* It has no source in hand, and takes none.
JobWaits(j) == JobGoes(j) /\ job[j].src = NoSource /\ job'[j].src = NoSource
               /\ job'[j].pc \in {"stamp", "list", "next", "over"}

LEMMA JobSet ==
    ASSUME JobsTyped, NEW j \in WikiJobs, NEW x, job' = [job EXCEPT ![j] = x], JobTyped(x)
    PROVE  JobGoes(j) /\ job'[j] = x
  BY DEF JobsTyped, JobGoes

LEMMA NewTyped ==
    ASSUME NEW p, NEW b, NEW a, NEW S,
           p \notin {"read", "find", "merge", "write", "mark"},
           p \notin {"new", "over"} => a \in Agents /\ b \in {"user", "force", "sweep"},
           S \subseteq {s \in Sources : AgentOf[s] = a}
    PROVE  JobTyped([NoRun EXCEPT !.pc = p, !.by = b, !.agent = a, !.todo = S])
<1> DEFINE x == [NoRun EXCEPT !.pc = p, !.by = b, !.agent = a, !.todo = S]
<1>1. /\ DOMAIN x = {"pc", "by", "agent", "todo", "src", "rest", "found"}
      /\ x.pc = p /\ x.by = b /\ x.agent = a /\ x.todo = S /\ x.src = NoSource /\ x.found = NotFound /\ x.rest = <<>>
  BY DEF NoRun
<1>2. <<>> \in Seq(Entries)
  OBVIOUS
<1> HIDE DEF x
<1>3. JobTyped(x)
  BY <1>1, <1>2 DEF JobTyped
<1> QED
  BY <1>3 DEF x

LEMMA HandleGoes ==
    ASSUME JobsTyped, NEW j \in WikiJobs, HandleWikiGenerate(j)
    PROVE  JobWaits(j)
<1>1. PICK a \in Agents, by \in {"user", "force"}, S \in Requests :
         /\ \A s \in S : AgentOf[s] = a
         /\ job' = [job EXCEPT ![j] = [NoRun EXCEPT !.pc = "list", !.by = by, !.agent = a, !.todo = S]]
  BY DEF HandleWikiGenerate
<1> DEFINE x == [NoRun EXCEPT !.pc = "list", !.by = by, !.agent = a, !.todo = S]
<1>2. S \subseteq {s \in Sources : AgentOf[s] = a}
  BY <1>1, WikiAssumption
<1>3. JobTyped(x)
  BY <1>2, NewTyped
<1>4. x.pc = "list" /\ x.src = NoSource
  BY DEF NoRun
<1> HIDE DEF x
<1>5. job' = [job EXCEPT ![j] = x]
  BY <1>1 DEF x
<1>6. JobGoes(j) /\ job'[j] = x
  BY <1>3, <1>5, JobSet
<1>7. job[j].src = NoSource
  BY DEF HandleWikiGenerate, JobAt, JobsTyped, JobTyped
<1> QED
  BY <1>4, <1>6, <1>7 DEF JobWaits

LEMMA CycleGoes ==
    ASSUME JobsTyped, NEW j \in WikiJobs, RunWikiAutoGenCycle(j)
    PROVE  JobWaits(j)
<1>1. PICK a \in Agents :
         job' = [job EXCEPT ![j] = [NoRun EXCEPT !.pc = "stamp", !.by = "sweep", !.agent = a]]
  BY DEF RunWikiAutoGenCycle
<1> DEFINE x == [NoRun EXCEPT !.pc = "stamp", !.by = "sweep", !.agent = a]
<1>2. /\ DOMAIN x = {"pc", "by", "agent", "todo", "src", "rest", "found"}
      /\ x.pc = "stamp" /\ x.by = "sweep" /\ x.agent = a /\ x.todo = {} /\ x.src = NoSource
      /\ x.found = NotFound /\ x.rest = <<>>
  BY DEF NoRun
<1>3. job' = [job EXCEPT ![j] = x]
  BY <1>1 DEF x
<1> HIDE DEF x
<1>4. JobTyped(x)
  BY <1>2 DEF JobTyped
<1>5. JobGoes(j) /\ job'[j] = x
  BY <1>3, <1>4, JobSet
<1>6. job[j].src = NoSource
  BY DEF RunWikiAutoGenCycle, JobAt, JobsTyped, JobTyped
<1> QED
  BY <1>2, <1>5, <1>6 DEF JobWaits

LEMMA EndGoes ==
    ASSUME JobsTyped, NEW j \in WikiJobs, EndJob(j)
    PROVE  JobWaits(j)
<1> DEFINE x == [NoRun EXCEPT !.pc = "over"]
<1>1. job' = [job EXCEPT ![j] = x] /\ job[j].pc = "next"
  BY DEF EndJob, JobAt
<1>2. /\ DOMAIN x = {"pc", "by", "agent", "todo", "src", "rest", "found"}
      /\ x.pc = "over" /\ x.todo = {} /\ x.src = NoSource /\ x.found = NotFound /\ x.rest = <<>>
  BY DEF NoRun
<1> HIDE DEF x
<1>3. JobTyped(x)
  BY <1>2 DEF JobTyped
<1>4. JobGoes(j) /\ job'[j] = x
  BY <1>1, <1>3, JobSet
<1>5. job[j].src = NoSource
  BY <1>1 DEF JobsTyped, JobTyped
<1> QED
  BY <1>2, <1>4, <1>5 DEF JobWaits

LEMMA StampGoes ==
    ASSUME JobsTyped, NEW j \in WikiJobs, SetWikiAutoGenLastRun(j)
    PROVE  JobWaits(j)
<1>1. job' = [job EXCEPT ![j].pc = "list"] /\ job[j].pc = "stamp"
  BY DEF SetWikiAutoGenLastRun, JobTo, JobAt
<1> DEFINE x == [job[j] EXCEPT !.pc = "list"]
<1>2. job' = [job EXCEPT ![j] = x] /\ JobTyped(job[j])
  BY <1>1 DEF JobsTyped
<1>3. /\ DOMAIN x = {"pc", "by", "agent", "todo", "src", "rest", "found"}
      /\ x.pc = "list" /\ x.agent = job[j].agent /\ x.by = job[j].by /\ x.todo = job[j].todo
      /\ x.src = job[j].src /\ x.found = job[j].found /\ x.rest = job[j].rest
  BY <1>2 DEF JobTyped
<1> HIDE DEF x
<1>4. JobTyped(x)
  BY <1>1, <1>2, <1>3 DEF JobTyped
<1>5. JobGoes(j) /\ job'[j] = x
  BY <1>2, <1>4, JobSet
<1> QED
  BY <1>1, <1>2, <1>3, <1>5 DEF JobWaits, JobTyped

LEMMA ListGoes ==
    ASSUME JobsTyped, NEW j \in WikiJobs, ListSources(j)
    PROVE  JobWaits(j)
<1>1. PICK todo \in {PendingSources(j), {}} : job' = [job EXCEPT ![j].pc = "next", ![j].todo = todo]
  BY DEF ListSources
<1>2. job[j].pc = "list" /\ JobTyped(job[j])
  BY DEF ListSources, JobAt, JobsTyped
<1>3. todo \subseteq {s \in Sources : AgentOf[s] = job[j].agent}
  <2>1. CASE todo = {}
    BY <2>1
  <2>2. CASE todo = PendingSources(j)
    <3>1. job[j].todo \subseteq {s \in Sources : AgentOf[s] = job[j].agent}
      BY <1>2 DEF JobTyped
    <3>2. job[j].by \in {"user", "force", "sweep"}
      BY <1>2 DEF JobTyped
    <3>3. CASE job[j].by = "force"
      BY <2>2, <3>1, <3>3 DEF PendingSources
    <3>4. CASE job[j].by = "user"
      BY <2>2, <3>1, <3>4 DEF PendingSources
    <3>5. CASE job[j].by = "sweep"
      BY <2>2, <3>5 DEF PendingSources
    <3> QED
      BY <3>2, <3>3, <3>4, <3>5
  <2> QED
    BY <1>1, <2>1, <2>2
<1> DEFINE x == [job[j] EXCEPT !.pc = "next", !.todo = todo]
<1>4. job' = [job EXCEPT ![j] = x]
  BY <1>1 DEF JobsTyped
<1>5. /\ DOMAIN x = {"pc", "by", "agent", "todo", "src", "rest", "found"}
      /\ x.pc = "next" /\ x.agent = job[j].agent /\ x.by = job[j].by /\ x.todo = todo
      /\ x.src = job[j].src /\ x.found = job[j].found /\ x.rest = job[j].rest
  BY <1>2 DEF JobTyped
<1> HIDE DEF x
<1>6. JobTyped(x)
  BY <1>2, <1>3, <1>5 DEF JobTyped
<1>7. JobGoes(j) /\ job'[j] = x
  BY <1>4, <1>6, JobSet
<1> QED
  BY <1>2, <1>5, <1>7 DEF JobWaits, JobTyped

LEMMA CleanGoes ==
    ASSUME JobsTyped, NEW j \in WikiJobs, NEW s \in Sources, CleanSource(j, s)
    PROVE  /\ JobGoes(j) /\ job[j].src = NoSource
           /\ job'[j].pc = "read" /\ job'[j].src = s /\ AgentOf[s] = job[j].agent
<1>1. /\ job[j].pc = "next" /\ s \in job[j].todo /\ JobTyped(job[j])
      /\ job' = [job EXCEPT ![j].pc = "read", ![j].src = s, ![j].todo = @ \ {s}]
  BY DEF CleanSource, JobAt, JobsTyped
<1> DEFINE x == [job[j] EXCEPT !.pc = "read", !.src = s, !.todo = @ \ {s}]
<1>2. job' = [job EXCEPT ![j] = x]
  BY <1>1 DEF JobsTyped
<1>3. /\ DOMAIN x = {"pc", "by", "agent", "todo", "src", "rest", "found"}
      /\ x.pc = "read" /\ x.agent = job[j].agent /\ x.by = job[j].by /\ x.todo = job[j].todo \ {s}
      /\ x.src = s /\ x.found = job[j].found /\ x.rest = job[j].rest
  BY <1>1 DEF JobTyped
<1> HIDE DEF x
<1>4. AgentOf[s] = job[j].agent /\ job[j].src = NoSource
  BY <1>1 DEF JobTyped
<1>5. JobTyped(x)
  BY <1>1, <1>3, <1>4 DEF JobTyped
<1>6. JobGoes(j) /\ job'[j] = x
  BY <1>2, <1>5, JobSet
<1> QED
  BY <1>3, <1>4, <1>6

LEMMA GiveUpGoes ==
    ASSUME JobsTyped, NEW j \in WikiJobs, GiveUp(j), job[j].pc = "read"
    PROVE  JobGoes(j) /\ job'[j].pc = "next" /\ job'[j].src = NoSource
<1>1. /\ JobTyped(job[j])
      /\ job' = [job EXCEPT ![j].pc = "next", ![j].src = NoSource, ![j].rest = <<>>]
  BY DEF GiveUp, JobsTyped
<1> DEFINE x == [job[j] EXCEPT !.pc = "next", !.src = NoSource, !.rest = <<>>]
<1>2. job' = [job EXCEPT ![j] = x]
  BY <1>1 DEF JobsTyped
<1>3. /\ DOMAIN x = {"pc", "by", "agent", "todo", "src", "rest", "found"}
      /\ x.pc = "next" /\ x.agent = job[j].agent /\ x.by = job[j].by /\ x.todo = job[j].todo
      /\ x.src = NoSource /\ x.found = job[j].found /\ x.rest = <<>>
  BY <1>1 DEF JobTyped
<1>4. <<>> \in Seq(Entries)
  OBVIOUS
<1> HIDE DEF x
<1>5. JobTyped(x)
  BY <1>1, <1>3, <1>4 DEF JobTyped
<1>6. JobGoes(j) /\ job'[j] = x
  BY <1>2, <1>5, JobSet
<1> QED
  BY <1>3, <1>6

LEMMA PlanTyped ==
    ASSUME NEW s \in Sources, NEW plan \in PlansOf[s]
    PROVE  WithSourcePage(plan, s) \in Seq(Entries) /\ WithSourcePage(plan, s) # <<>>
<1>1. plan \in Seq(Entries) /\ OwnPage[s] \in Entries
  BY WikiAssumption DEF Entries
<1>2. Append(plan, OwnPage[s]) \in Seq(Entries) /\ Append(plan, OwnPage[s]) # <<>>
  BY <1>1
<1>3. CASE \E n \in 1..Len(plan) : plan[n].id \in SourcePages
  <2>1. plan # <<>>
    BY <1>3
  <2> QED
    BY <1>1, <1>3, <2>1 DEF WithSourcePage
<1>4. CASE ~\E n \in 1..Len(plan) : plan[n].id \in SourcePages
  BY <1>2, <1>4 DEF WithSourcePage
<1> QED
  BY <1>3, <1>4

LEMMA PlanGoes ==
    ASSUME JobsTyped, NEW j \in WikiJobs, job[j].pc = "read", NEW plan \in PlansOf[Source(j)],
           job' = [job EXCEPT ![j].pc = "find", ![j].rest = WithSourcePage(plan, Source(j))]
    PROVE  JobGoes(j) /\ job'[j].pc = "find" /\ job'[j].src = job[j].src
<1>1. JobTyped(job[j])
  BY DEF JobsTyped
<1>2. Source(j) \in Sources /\ Source(j) = job[j].src
  BY <1>1 DEF Source, JobTyped
<1> DEFINE rest == WithSourcePage(plan, Source(j))
           x == [job[j] EXCEPT !.pc = "find", !.rest = rest]
<1>3. rest \in Seq(Entries) /\ rest # <<>>
  BY <1>2, PlanTyped
<1> HIDE DEF rest
<1>4. job' = [job EXCEPT ![j] = x]
  BY DEF JobsTyped, rest
<1>5. /\ DOMAIN x = {"pc", "by", "agent", "todo", "src", "rest", "found"}
      /\ x.pc = "find" /\ x.agent = job[j].agent /\ x.by = job[j].by /\ x.todo = job[j].todo
      /\ x.src = job[j].src /\ x.found = job[j].found /\ x.rest = rest
  BY <1>1 DEF JobTyped
<1> HIDE DEF x
<1>6. JobTyped(x)
  BY <1>1, <1>3, <1>5 DEF JobTyped
<1>7. JobGoes(j) /\ job'[j] = x
  BY <1>4, <1>6, JobSet
<1> QED
  BY <1>5, <1>7

LEMMA FoundGoes ==
    ASSUME JobsTyped, NEW j \in WikiJobs, job[j].pc = "find", NEW f, f.id \in Pages,
           job' = [job EXCEPT ![j].pc = "merge", ![j].found = f]
    PROVE  /\ JobGoes(j) /\ job'[j].pc = "merge" /\ job'[j].src = job[j].src
           /\ job'[j].agent = job[j].agent /\ job'[j].found = f
<1>1. JobTyped(job[j])
  BY DEF JobsTyped
<1> DEFINE x == [job[j] EXCEPT !.pc = "merge", !.found = f]
<1>2. job' = [job EXCEPT ![j] = x]
  BY DEF JobsTyped
<1>3. /\ DOMAIN x = {"pc", "by", "agent", "todo", "src", "rest", "found"}
      /\ x.pc = "merge" /\ x.agent = job[j].agent /\ x.by = job[j].by /\ x.todo = job[j].todo
      /\ x.src = job[j].src /\ x.found = f /\ x.rest = job[j].rest
  BY <1>1 DEF JobTyped
<1> HIDE DEF x
<1>4. JobTyped(x)
  BY <1>1, <1>3 DEF JobTyped
<1>5. JobGoes(j) /\ job'[j] = x
  BY <1>2, <1>4, JobSet
<1> QED
  BY <1>3, <1>5

LEMMA NoneFoundGoes ==
    ASSUME JobsTyped, NEW j \in WikiJobs, job[j].pc = "find", JobTo(j, "write")
    PROVE  /\ JobGoes(j) /\ job'[j].pc = "write" /\ job'[j].src = job[j].src
<1>1. JobTyped(job[j])
  BY DEF JobsTyped
<1> DEFINE x == [job[j] EXCEPT !.pc = "write"]
<1>2. job' = [job EXCEPT ![j] = x]
  BY DEF JobsTyped, JobTo
<1>3. /\ DOMAIN x = {"pc", "by", "agent", "todo", "src", "rest", "found"}
      /\ x.pc = "write" /\ x.agent = job[j].agent /\ x.by = job[j].by /\ x.todo = job[j].todo
      /\ x.src = job[j].src /\ x.found = job[j].found /\ x.rest = job[j].rest
  BY <1>1 DEF JobTyped
<1> HIDE DEF x
<1>4. JobTyped(x)
  BY <1>1, <1>3 DEF JobTyped
<1>5. JobGoes(j) /\ job'[j] = x
  BY <1>2, <1>4, JobSet
<1> QED
  BY <1>3, <1>5

LEMMA DoneGoes ==
    ASSUME JobsTyped, NEW j \in WikiJobs, job[j].pc \in {"merge", "write"}, Done(j)
    PROVE  JobGoes(j) /\ job'[j].pc \in {"find", "mark"} /\ job'[j].src = job[j].src
<1>1. JobTyped(job[j])
  BY DEF JobsTyped
<1> DEFINE rest == job[j].rest
           to == IF Len(rest) = 1 THEN "mark" ELSE "find"
           x == [job[j] EXCEPT !.pc = to, !.rest = Tail(rest), !.found = NotFound]
<1>2. rest \in Seq(Entries) /\ rest # <<>>
  BY <1>1 DEF JobTyped
<1>4. job' = [job EXCEPT ![j] = x]
  BY DEF JobsTyped, Done
<1> HIDE DEF rest
<1>3. Tail(rest) \in Seq(Entries) /\ to \in {"mark", "find"} /\ (to = "find" => Tail(rest) # <<>>)
  <2>1. Tail(rest) \in Seq(Entries) /\ Len(Tail(rest)) = Len(rest) - 1 /\ Len(rest) \in Nat
    BY <1>2
  <2>2. Len(rest) # 0
    BY <1>2
  <2>3. Len(rest) # 1 => Tail(rest) # <<>>
    <3> DEFINE tail == Tail(rest)
    <3>1. Len(<<>>) = 0
      OBVIOUS
    <3>2. Len(rest) # 1 => Len(tail) # 0
      BY <2>1
    <3> HIDE DEF tail
    <3>3. Len(rest) # 1 => tail # <<>>
      BY <3>1, <3>2, Zenon
    <3> QED
      BY <3>3 DEF tail
  <2> QED
    BY <2>1, <2>3
<1> HIDE DEF to
<1>5. /\ DOMAIN x = {"pc", "by", "agent", "todo", "src", "rest", "found"}
      /\ x.pc = to /\ x.agent = job[j].agent /\ x.by = job[j].by /\ x.todo = job[j].todo
      /\ x.src = job[j].src /\ x.found = NotFound /\ x.rest = Tail(rest)
  BY <1>1 DEF JobTyped
<1> HIDE DEF x
<1>6. JobTyped(x)
  BY <1>1, <1>3, <1>5 DEF JobTyped
<1>7. JobGoes(j) /\ job'[j] = x
  BY <1>4, <1>6, JobSet
<1> QED
  BY <1>3, <1>5, <1>7

LEMMA MarkGoes ==
    ASSUME JobsTyped, NEW j \in WikiJobs, MarkSourceGenerated(j)
    PROVE  JobGoes(j) /\ job'[j].pc = "next" /\ job'[j].src = NoSource
<1>1. /\ JobTyped(job[j]) /\ job[j].pc = "mark"
      /\ job' = [job EXCEPT ![j].pc = "next", ![j].src = NoSource]
  BY DEF MarkSourceGenerated, JobsTyped, JobAt
<1> DEFINE x == [job[j] EXCEPT !.pc = "next", !.src = NoSource]
<1>2. job' = [job EXCEPT ![j] = x]
  BY <1>1 DEF JobsTyped
<1>3. /\ DOMAIN x = {"pc", "by", "agent", "todo", "src", "rest", "found"}
      /\ x.pc = "next" /\ x.agent = job[j].agent /\ x.by = job[j].by /\ x.todo = job[j].todo
      /\ x.src = NoSource /\ x.found = job[j].found /\ x.rest = job[j].rest
  BY <1>1 DEF JobTyped
<1> HIDE DEF x
<1>4. JobTyped(x)
  BY <1>1, <1>3 DEF JobTyped
<1>5. JobGoes(j) /\ job'[j] = x
  BY <1>2, <1>4, JobSet
<1> QED
  BY <1>3, <1>5

LEMMA GoesTyped ==
    ASSUME JobsTyped, NEW j \in WikiJobs, JobGoes(j) PROVE JobsTyped'
  BY DEF JobsTyped, JobGoes

LEMMA DiesTyped ==
    ASSUME JobsTyped, NEW p, PodDies(p)
    PROVE  /\ JobsTyped'
           /\ \A j \in WikiJobs : job'[j] # job[j] =>
                 JobPod[j] = p /\ job'[j].pc = "over" /\ job'[j].src = NoSource
<1> DEFINE x == [NoRun EXCEPT !.pc = "over"]
<1>1. /\ DOMAIN x = {"pc", "by", "agent", "todo", "src", "rest", "found"}
      /\ x.pc = "over" /\ x.todo = {} /\ x.src = NoSource /\ x.found = NotFound /\ x.rest = <<>>
  BY DEF NoRun
<1>2. job' = [j \in WikiJobs |-> IF JobPod[j] = p /\ ~JobAt(j, "new") THEN x ELSE job[j]]
  BY DEF PodDies
<1> HIDE DEF x
<1>3. x.pc = "over" /\ x.src = NoSource /\ JobTyped(x)
  <2>1. <<>> \in Seq(Entries)
    OBVIOUS
  <2> QED
    BY <1>1, <2>1 DEF JobTyped
<1>4. \A j \in WikiJobs : job'[j] = job[j] \/ (JobPod[j] = p /\ job'[j] = x)
  BY <1>2
<1>5. job' = [j \in WikiJobs |-> job'[j]]
  BY <1>2
<1>6. \A j \in WikiJobs : JobTyped(job'[j])
  BY <1>3, <1>4 DEF JobsTyped
<1>7. JobsTyped'
  BY <1>5, <1>6 DEF JobsTyped
<1>8. ASSUME NEW j \in WikiJobs, job'[j] # job[j]
      PROVE  JobPod[j] = p /\ job'[j].pc = "over" /\ job'[j].src = NoSource
  BY <1>3, <1>4, <1>8
<1> QED
  BY <1>7, <1>8
-----------------------------------------------------------------------------
(* The pages.                                                              *)

LEMMA Removed ==
    ASSUME PageShapes, NEW gone, page' = Without(gone)
    PROVE  /\ PageShapes' /\ There' \subseteq There \ gone /\ There \ gone \subseteq There'
           /\ \A i \in There' : page'[i] = page[i]
<1>1. /\ page' = [i \in Pages |-> page'[i]]
      /\ \A i \in Pages : page'[i] = IF i \in gone THEN NoRow ELSE page[i]
  BY DEF Without
<1>2. NoRow.agent = NoAgent
  BY DEF NoRow
<1> QED
  BY <1>1, <1>2 DEF PageShapes, There

LEMMA Upserted ==
    ASSUME PageShapes, NEW i \in Pages, NEW a \in Agents, NEW t, NEW S, Upsert(i, a, t, S)
    PROVE  /\ PageShapes' /\ There' = There \cup {i}
           /\ \A k \in Pages \ {i} : page'[k] = page[k]
           /\ page'[i].src = S
           /\ page'[i].agent = IF i \in There THEN page[i].agent ELSE a
<1> DEFINE b == IF page[i].agent = NoAgent THEN a ELSE page[i].agent
           x == [agent |-> b, title |-> t, src |-> S]
<1>1. page' = [page EXCEPT ![i] = x]
  BY DEF Upsert
<1>2. x.src = S /\ x.agent = b
  OBVIOUS
<1> HIDE DEF x
<1>3. /\ page' = [k \in Pages |-> page'[k]] /\ page'[i] = x
      /\ \A k \in Pages \ {i} : page'[k] = page[k]
  BY <1>1 DEF PageShapes
<1>4. page'[i].agent = b /\ page'[i].src = S
  BY <1>2, <1>3
<1>5. b # NoAgent
  BY WikiAssumption
<1>6. There' = There \cup {i}
  BY <1>3, <1>4, <1>5 DEF There
<1> QED
  BY <1>3, <1>4, <1>6 DEF PageShapes, There

\* A source has a page of its agent afterwards if it had one before.
PagesStay(s) == Lists(AgentOf[s], s) # {} => s \in stripped' \/ Lists(AgentOf[s], s)' # {}

LEMMA RemovedStay ==
    ASSUME PageShapes, NEW gone \in SUBSET There, page' = Without(gone), NEW s,
           s \in SourcesOf(gone) => s \in stripped'
    PROVE  PagesStay(s)
<1> SUFFICES ASSUME NEW i \in Lists(AgentOf[s], s), s \notin stripped'
             PROVE  i \in Lists(AgentOf[s], s)'
  BY DEF PagesStay
<1>1. i \in There /\ page[i].agent = AgentOf[s] /\ s \in page[i].src
  BY DEF Lists
<1>2. i \notin gone
  BY <1>1 DEF SourcesOf
<1> QED
  BY <1>1, <1>2, Removed DEF Lists

LEMMA UpsertStay ==
    ASSUME PageShapes, NEW i \in Pages, NEW a \in Agents, NEW t, NEW S, Upsert(i, a, t, S), NEW s,
           i \in There /\ s \in page[i].src \ S => s \in stripped'
    PROVE  PagesStay(s)
<1> SUFFICES ASSUME NEW k \in Lists(AgentOf[s], s), s \notin stripped'
             PROVE  k \in Lists(AgentOf[s], s)'
  BY DEF PagesStay
<1>1. k \in There /\ page[k].agent = AgentOf[s] /\ s \in page[k].src /\ k \in Pages
  BY DEF Lists, There
<1>2. k \in There'
  BY <1>1, Upserted
<1>3. CASE k = i
  <2>1. s \in S
    BY <1>1, <1>3
  <2> QED
    BY <1>1, <1>2, <1>3, <2>1, Upserted DEF Lists
<1>4. CASE k # i
  BY <1>1, <1>2, <1>4, Upserted DEF Lists
<1> QED
  BY <1>3, <1>4

LEMMA UpsertLists ==
    ASSUME PageShapes, NEW i \in Pages, NEW a \in Agents, NEW t, NEW S, Upsert(i, a, t, S),
           NEW s \in S, i \in There => page[i].agent = a
    PROVE  Lists(a, s)' # {}
<1>1. i \in There' /\ page'[i].agent = a /\ s \in page'[i].src
  BY Upserted
<1> QED
  BY <1>1 DEF Lists
-----------------------------------------------------------------------------
(* A page for every source that counts as done.                            *)

\* A source that is about to be marked has a page.
Marking ==
    \A j \in WikiJobs, s \in Sources : job[j].pc = "mark" /\ job[j].src = s =>
        s \in stripped \/ Lists(AgentOf[s], s) # {}

MarkingOn(j, s) ==
    job'[j].pc = "mark" /\ job'[j].src = s =>
        \/ job[j].pc = "mark" /\ job[j].src = s /\ PagesStay(s)
        \/ s \in stripped'
        \/ Lists(AgentOf[s], s)' # {}

\* A source that is done afterwards was so before, or has a page.
ServedOn(s) ==
    source'[s] = "here" /\ InHand(s)' = {} /\ s \notin stripped' =>
        \/ s \in marked /\ source[s] = "here" /\ InHand(s) = {} /\ PagesStay(s)
        \/ Lists(AgentOf[s], s)' # {}

LEMMA ServedKeeps ==
    ASSUME Served, Marking, stripped \subseteq stripped',
           \A j \in WikiJobs, s \in Sources : MarkingOn(j, s),
           \A s \in marked' : ServedOn(s)
    PROVE  Served' /\ Marking'
<1>1. Marking'
  <2> SUFFICES ASSUME NEW j \in WikiJobs, NEW s \in Sources, job'[j].pc = "mark", job'[j].src = s
               PROVE  s \in stripped' \/ Lists(AgentOf[s], s)' # {}
    BY DEF Marking
  <2>1. CASE job[j].pc = "mark" /\ job[j].src = s /\ PagesStay(s)
    <3>1. s \in stripped \/ Lists(AgentOf[s], s) # {}
      BY <2>1 DEF Marking
    <3> QED
      BY <2>1, <3>1 DEF PagesStay
  <2> QED
    BY <2>1 DEF MarkingOn
<1>2. Served'
  <2> SUFFICES ASSUME NEW s \in marked', source'[s] = "here", InHand(s)' = {}, s \notin stripped'
               PROVE  Lists(AgentOf[s], s)' # {}
    BY DEF Served
  <2>1. CASE s \in marked /\ source[s] = "here" /\ InHand(s) = {} /\ PagesStay(s)
    <3>1. Lists(AgentOf[s], s) # {}
      BY <2>1 DEF Served
    <3> QED
      BY <2>1, <3>1 DEF PagesStay
  <2> QED
    BY <2>1 DEF ServedOn
<1> QED
  BY <1>1, <1>2

\* Pages and what is stripped stay.
LEMMA PagesSame ==
    ASSUME UNCHANGED page, stripped \subseteq stripped', NEW s PROVE PagesStay(s)
  BY DEF PagesStay, Lists, There

\* A job that had no source in hand goes on.
LEMMA HandsAt ==
    ASSUME NEW j \in WikiJobs, JobGoes(j), NEW s, InHand(s)' = {}, job[j].src # s
    PROVE  InHand(s) = {}
  BY DEF JobGoes, InHand, Source
\* A job goes on: others keep theirs, and a page goes only of the source it takes.
LEMMA JobServed ==
    ASSUME WikiTyped, Served, Marking, NEW j \in WikiJobs, JobGoes(j),
           UNCHANGED <<source, marked>>, stripped \subseteq stripped',
           \A s \in Sources : MarkingOn(j, s),
           \A s \in Sources : PagesStay(s) \/ (job'[j].src = s /\ InHand(s) = {}),
           \A s \in Sources : job[j].src = s => job'[j].src = s \/ s \notin marked \/ s \in stripped'
    PROVE  Served' /\ Marking'
<1>1. ASSUME NEW k \in WikiJobs, NEW s \in Sources PROVE MarkingOn(k, s)
  <2>1. CASE k # j
    <3>1. job'[k] = job[k]
      BY <2>1 DEF JobGoes
    <3>2. job[k].src = s => PagesStay(s)
      BY DEF InHand, Source
    <3> QED
      BY <3>1, <3>2 DEF MarkingOn
  <2> QED
    BY <2>1
<1>2. ASSUME NEW s \in marked' PROVE ServedOn(s)
  <2> SUFFICES ASSUME InHand(s)' = {}, s \notin stripped', source'[s] = "here"
               PROVE  s \in marked /\ source[s] = "here" /\ InHand(s) = {} /\ PagesStay(s)
    BY DEF ServedOn
  <2>1. s \in marked /\ s \in Sources /\ source[s] = "here"
    BY DEF WikiTyped, SourcesTyped
  <2>2. job'[j].src # s
    BY DEF InHand, Source
  <2>3. job[j].src # s
    BY <2>1, <2>2
  <2> QED
    BY <2>1, <2>2, <2>3, HandsAt
<1> QED
  BY <1>1, <1>2, ServedKeeps

LEMMA WaitsServed ==
    ASSUME WikiTyped, Served, Marking, NEW j \in WikiJobs, JobWaits(j),
           UNCHANGED <<source, marked, page, stripped>>
    PROVE  Served' /\ Marking'
<1>1. \A s \in Sources : MarkingOn(j, s)
  BY DEF JobWaits, MarkingOn
<1>2. \A s \in Sources : PagesStay(s)
  BY PagesSame
<1>3. \A s \in Sources : job[j].src # s
  BY WikiAssumption DEF JobWaits
<1> QED
  BY <1>1, <1>2, <1>3, JobServed DEF JobWaits

LEMMA CleanServed ==
    ASSUME WikiTyped, Served, Marking, NEW j \in WikiJobs, NEW s \in Sources, CleanSource(j, s)
    PROVE  Served' /\ Marking' /\ PageShapes'
<1>1. /\ JobGoes(j) /\ job[j].src = NoSource
      /\ job'[j].pc = "read" /\ job'[j].src = s /\ AgentOf[s] = job[j].agent
  BY CleanGoes DEF WikiTyped
<1>2. UNCHANGED <<source, marked>>
  BY DEF CleanSource, Elsewhere
<1>3. \A t \in Sources : MarkingOn(j, t)
  BY <1>1 DEF MarkingOn
<1>4. \A t \in Sources : job[j].src # t
  BY <1>1, WikiAssumption
<1> DEFINE gone == Lists(job[j].agent, s)
<1>5. CASE /\ page' = Without(gone)
           /\ stripped' = stripped \cup (SourcesOf(gone) \ {s}) \cup (IF InHand(s) # {} THEN {s} ELSE {})
  <2>1. gone \in SUBSET There
    BY DEF Lists
  <2>2. ASSUME NEW t \in Sources PROVE PagesStay(t) \/ (job'[j].src = t /\ InHand(t) = {})
    <3>1. CASE t = s /\ InHand(s) = {}
      BY <1>1, <3>1
    <3>2. CASE ~(t = s /\ InHand(s) = {})
      <4>1. t \in SourcesOf(gone) => t \in stripped'
        BY <1>5, <3>2
      <4> HIDE DEF gone
      <4> QED
        BY <1>5, <2>1, <4>1, RemovedStay DEF WikiTyped
    <3> QED
      BY <3>1, <3>2
  <2>3. stripped \subseteq stripped'
    BY <1>5
  <2> HIDE DEF gone
  <2>4. PageShapes'
    BY <1>5, Removed DEF WikiTyped
  <2> QED
    BY <1>1, <1>2, <1>3, <1>4, <2>2, <2>3, <2>4, JobServed
<1>6. CASE UNCHANGED <<page, stripped>>
  <2>1. \A t \in Sources : PagesStay(t)
    BY <1>6, PagesSame
  <2>2. PageShapes'
    BY <1>6 DEF WikiTyped, PageShapes
  <2> QED
    BY <1>1, <1>2, <1>3, <1>4, <1>6, <2>1, <2>2, JobServed
<1> QED
  BY <1>5, <1>6 DEF CleanSource

LEMMA AnalyseServed ==
    ASSUME WikiTyped, Served, Marking, NEW j \in WikiJobs, Analyse(j)
    PROVE  Served' /\ Marking'
<1>1. job[j].pc = "read" /\ UNCHANGED <<source, marked, page>>
  BY DEF Analyse, JobAt, Elsewhere
<1>2. CASE GiveUp(j)
  <2>1. JobGoes(j) /\ job'[j].pc = "next" /\ job'[j].src = NoSource
    BY <1>1, <1>2, GiveUpGoes DEF WikiTyped
  <2>2. stripped \subseteq stripped' /\ (job[j].src \in marked => job[j].src \in stripped')
    BY <1>2 DEF GiveUp, Source
  <2>3. \A s \in Sources : PagesStay(s)
    BY <1>1, <2>2, PagesSame
  <2>4. \A s \in Sources : MarkingOn(j, s)
    BY <2>1 DEF MarkingOn
  <2> QED
    BY <1>1, <2>1, <2>2, <2>3, <2>4, JobServed
<1>3. CASE /\ UNCHANGED stripped
           /\ \E plan \in PlansOf[Source(j)] :
                job' = [job EXCEPT ![j].pc = "find", ![j].rest = WithSourcePage(plan, Source(j))]
  <2>1. JobGoes(j) /\ job'[j].pc = "find" /\ job'[j].src = job[j].src
    BY <1>1, <1>3, PlanGoes DEF WikiTyped
  <2>2. \A s \in Sources : PagesStay(s)
    BY <1>1, <1>3, PagesSame
  <2>3. \A s \in Sources : MarkingOn(j, s)
    BY <2>1 DEF MarkingOn
  <2> QED
    BY <1>1, <1>3, <2>1, <2>2, <2>3, JobServed
<1> QED
  BY <1>2, <1>3 DEF Analyse

LEMMA FindSteps ==
    ASSUME WikiTyped, NEW j \in WikiJobs, FindPageByTitle(j)
    PROVE  \/ \E i \in There :
                /\ JobGoes(j) /\ job'[j].pc = "merge" /\ job'[j].src = job[j].src
                /\ job'[j].agent = job[j].agent
                /\ job'[j].found.src = page[i].src /\ page[i].agent = job[j].agent
           \/ JobGoes(j) /\ job'[j].pc = "write" /\ job'[j].src = job[j].src
<1>1. job[j].pc = "find"
  BY DEF FindPageByTitle, JobAt
<1> DEFINE e    == Head(job[j].rest)
           same == {i \in There : page[i].agent = job[j].agent /\ page[i].title = e.title}
<1>2. CASE JobTo(j, "write")
  BY <1>1, <1>2, NoneFoundGoes DEF WikiTyped
<1>3. ASSUME NEW i \in same,
             job' = [job EXCEPT ![j].pc = "merge", ![j].found = [id |-> i, title |-> e.title, src |-> page[i].src]]
      PROVE  /\ JobGoes(j) /\ job'[j].pc = "merge" /\ job'[j].src = job[j].src
             /\ job'[j].agent = job[j].agent
             /\ job'[j].found.src = page[i].src /\ page[i].agent = job[j].agent /\ i \in There
  <2> DEFINE f == [id |-> i, title |-> e.title, src |-> page[i].src]
  <2>1. f.id \in Pages /\ f.src = page[i].src
    BY DEF There
  <2>2. job' = [job EXCEPT ![j].pc = "merge", ![j].found = f]
    BY <1>3
  <2> HIDE DEF f
  <2>3. /\ JobGoes(j) /\ job'[j].pc = "merge" /\ job'[j].src = job[j].src
        /\ job'[j].agent = job[j].agent /\ job'[j].found = f
    BY <1>1, <2>1, <2>2, FoundGoes DEF WikiTyped
  <2> QED
    BY <2>1, <2>3
<1> QED
  BY <1>2, <1>3 DEF FindPageByTitle

LEMMA FindServed ==
    ASSUME WikiTyped, Served, Marking, NEW j \in WikiJobs, FindPageByTitle(j)
    PROVE  Served' /\ Marking'
<1>1. JobGoes(j) /\ job'[j].pc \in {"merge", "write"} /\ job'[j].src = job[j].src
  BY FindSteps
<1>2. UNCHANGED <<source, marked, page, stripped>>
  BY DEF FindPageByTitle, Elsewhere
<1>3. \A s \in Sources : PagesStay(s)
  BY <1>2, PagesSame
<1>4. \A s \in Sources : MarkingOn(j, s)
  BY <1>1 DEF MarkingOn
<1> QED
  BY <1>1, <1>2, <1>3, <1>4, JobServed

\* A page is written, new or over another one, or nothing is.
Written(j, i, t, S) ==
    /\ Upsert(i, job[j].agent, t, S) /\ job[j].src \in S
    /\ stripped \subseteq stripped' /\ adrift \subseteq adrift'
    /\ i \in There => page[i].src \ S \subseteq stripped'
    /\ Foreign(j, i) => job[j].src \in stripped' /\ S \subseteq adrift'
    /\ \A s \in S : \/ s = job[j].src
                    \/ s \in job[j].found.src /\ (source[s] = "gone" => s \in adrift')

WriteFails(j) == stripped' = stripped \cup {job[j].src} /\ UNCHANGED <<page, adrift>>

LEMMA WriteSteps ==
    ASSUME WikiTyped, NEW j \in WikiJobs, MergeSource(j) \/ WritePage(j)
    PROVE  /\ JobGoes(j) /\ job'[j].pc \in {"find", "mark"} /\ job'[j].src = job[j].src
           /\ job[j].pc \in {"merge", "write"} /\ UNCHANGED <<source, marked, del>>
           /\ WriteFails(j) \/ \E i \in Pages : \E t, S : Written(j, i, t, S)
<1>1. job[j].pc \in {"merge", "write"} /\ Done(j) /\ UNCHANGED <<source, marked, del>>
  BY DEF MergeSource, WritePage, JobAt, Elsewhere
<1>2. JobGoes(j) /\ job'[j].pc \in {"find", "mark"} /\ job'[j].src = job[j].src
  BY <1>1, DoneGoes DEF WikiTyped
<1>3. JobTyped(job[j])
  BY DEF WikiTyped, JobsTyped
<1>4. CASE MergeSource(j)
  <2> DEFINE f == job[j].found
             S == f.src \cup {job[j].src}
  <2>1. CASE /\ Upsert(f.id, job[j].agent, f.title, f.src \cup {Source(j)})
             /\ stripped' = stripped \cup (IF f.id \in There THEN page[f.id].src \ f.src ELSE {})
                                     \cup (IF Foreign(j, f.id) THEN {Source(j)} ELSE {})
             /\ adrift' = adrift \cup {s \in f.src : source[s] = "gone"}
                                 \cup (IF Foreign(j, f.id) THEN f.src \cup {Source(j)} ELSE {})
    <3>1. f.id \in Pages
      BY <1>3, <1>4 DEF JobTyped, MergeSource, JobAt
    <3>2. Upsert(f.id, job[j].agent, f.title, S) /\ job[j].src \in S
      BY <2>1 DEF Source
    <3>3. /\ stripped \subseteq stripped' /\ adrift \subseteq adrift'
          /\ f.id \in There => page[f.id].src \ S \subseteq stripped'
      BY <2>1
    <3>4. Foreign(j, f.id) => job[j].src \in stripped' /\ S \subseteq adrift'
      BY <2>1 DEF Source
    <3>5. \A s \in S : s = job[j].src \/ (s \in f.src /\ (source[s] = "gone" => s \in adrift'))
      BY <2>1
    <3>6. Written(j, f.id, f.title, S)
      BY <3>2, <3>3, <3>4, <3>5 DEF Written
    <3> QED
      BY <1>1, <1>2, <3>1, <3>6
  <2>2. CASE stripped' = stripped \cup {Source(j)} /\ UNCHANGED <<page, adrift>>
    BY <1>1, <1>2, <2>2 DEF WriteFails, Source
  <2> QED
    BY <1>4, <2>1, <2>2 DEF MergeSource
<1>5. CASE WritePage(j)
  <2> DEFINE i == Head(job[j].rest).id
             t == Head(job[j].rest).title
             S == {job[j].src}
  <2>1. CASE /\ Upsert(i, job[j].agent, t, {Source(j)})
             /\ stripped' = stripped \cup (IF i \in There THEN page[i].src \ {Source(j)} ELSE {})
                                     \cup (IF Foreign(j, i) THEN {Source(j)} ELSE {})
             /\ adrift' = IF Foreign(j, i) THEN adrift \cup {Source(j)} ELSE adrift
    <3>1. Head(job[j].rest) \in Entries
      <4>1. job[j].pc = "write"
        BY <1>5 DEF WritePage, JobAt
      <4>2. job[j].rest \in Seq(Entries) /\ job[j].rest # <<>>
        BY <1>3, <4>1 DEF JobTyped
      <4> QED
        BY <4>2
    <3>2. i \in Pages
      BY <3>1 DEF Entries
    <3>3. Upsert(i, job[j].agent, t, S)
      BY <2>1 DEF Source
    <3> HIDE DEF i, t
    <3>4. /\ stripped \subseteq stripped' /\ adrift \subseteq adrift'
          /\ i \in There => page[i].src \ S \subseteq stripped'
          /\ Foreign(j, i) => job[j].src \in stripped' /\ S \subseteq adrift'
      BY <2>1 DEF Source
    <3>5. Written(j, i, t, S)
      BY <3>3, <3>4 DEF Written
    <3> QED
      BY <1>1, <1>2, <3>2, <3>5
  <2>2. CASE stripped' = stripped \cup {Source(j)} /\ UNCHANGED <<page, adrift>>
    BY <1>1, <1>2, <2>2 DEF WriteFails, Source
  <2> QED
    BY <1>5, <2>1, <2>2 DEF WritePage
<1> QED
  BY <1>4, <1>5

LEMMA WriteServed ==
    ASSUME WikiTyped, Served, Marking, NEW j \in WikiJobs, MergeSource(j) \/ WritePage(j)
    PROVE  Served' /\ Marking' /\ PageShapes'
<1>1. /\ JobGoes(j) /\ job'[j].src = job[j].src
      /\ job[j].pc \in {"merge", "write"} /\ UNCHANGED <<source, marked>>
  BY WriteSteps
<1>2. PICK s \in Sources, a \in Agents : s = job[j].src /\ a = job[j].agent /\ a = AgentOf[s]
  BY <1>1 DEF WikiTyped, JobsTyped, JobTyped
<1>3. CASE WriteFails(j)
  <2>1. \A r \in Sources : PagesStay(r)
    BY <1>3, PagesSame DEF WriteFails
  <2>2. \A r \in Sources : MarkingOn(j, r)
    BY <1>1, <1>3 DEF MarkingOn, WriteFails
  <2>3. stripped \subseteq stripped' /\ PageShapes'
    BY <1>3 DEF WriteFails, WikiTyped, PageShapes
  <2> QED
    BY <1>1, <2>1, <2>2, <2>3, JobServed
<1>4. ASSUME NEW i \in Pages, NEW t, NEW S, Written(j, i, t, S)
      PROVE  Served' /\ Marking' /\ PageShapes'
  <2>1. PageShapes /\ Upsert(i, a, t, S) /\ s \in S /\ stripped \subseteq stripped'
    BY <1>2, <1>4 DEF Written, WikiTyped
  <2>2. PageShapes'
    BY <2>1, Upserted
  <2>3. ASSUME NEW r \in Sources PROVE PagesStay(r)
    <3>1. i \in There /\ r \in page[i].src \ S => r \in stripped'
      BY <1>4 DEF Written
    <3> QED
      BY <2>1, <3>1, UpsertStay
  <2>4. s \in stripped' \/ Lists(AgentOf[s], s)' # {}
    <3>1. CASE Foreign(j, i)
      BY <1>2, <1>4, <3>1 DEF Written
    <3>2. CASE ~Foreign(j, i)
      <4>1. i \in There => page[i].agent = a
        BY <1>2, <3>2 DEF Foreign
      <4>2. Lists(a, s)' # {}
        BY <2>1, <4>1, UpsertLists
      <4> QED
        BY <1>2, <4>2
    <3> QED
      BY <3>1, <3>2
  <2>5. \A r \in Sources : MarkingOn(j, r)
    BY <1>1, <1>2, <2>4 DEF MarkingOn
  <2> QED
    BY <1>1, <2>1, <2>2, <2>3, <2>5, JobServed
<1> QED
  BY <1>3, <1>4, WriteSteps

LEMMA MarkServed ==
    ASSUME WikiTyped, Served, Marking, NEW j \in WikiJobs, MarkSourceGenerated(j)
    PROVE  Served' /\ Marking'
<1>1. JobGoes(j) /\ job'[j].pc = "next" /\ job'[j].src = NoSource /\ job[j].pc = "mark"
  BY MarkGoes DEF WikiTyped, MarkSourceGenerated, JobAt
<1>2. UNCHANGED <<source, page, stripped>> /\ marked' \subseteq marked \cup {job[j].src}
  BY DEF MarkSourceGenerated, Elsewhere, Source
<1>3. PICK s \in Sources : s = job[j].src
  BY <1>1 DEF WikiTyped, JobsTyped, JobTyped
<1>4. s \in stripped' \/ Lists(AgentOf[s], s)' # {}
  <2>1. s \in stripped \/ Lists(AgentOf[s], s) # {}
    BY <1>1, <1>3 DEF Marking
  <2>2. PagesStay(s)
    BY <1>2, PagesSame
  <2> QED
    BY <1>2, <2>1, <2>2 DEF PagesStay
<1>5. ASSUME NEW k \in WikiJobs, NEW r \in Sources PROVE MarkingOn(k, r)
  <2>1. CASE k # j
    <3>1. job'[k] = job[k] /\ PagesStay(r)
      BY <1>1, <1>2, <2>1, PagesSame DEF JobGoes
    <3> QED
      BY <3>1 DEF MarkingOn
  <2>2. CASE k = j
    BY <1>1, <2>2 DEF MarkingOn
  <2> QED
    BY <2>1, <2>2
<1>6. ASSUME NEW r \in marked' PROVE ServedOn(r)
  <2>1. CASE r = s
    BY <1>4, <2>1 DEF ServedOn
  <2>2. CASE r # s
    <3>1. r \in marked /\ r \in Sources /\ PagesStay(r)
      BY <1>2, <1>3, <2>2, PagesSame DEF WikiTyped, SourcesTyped
    <3>2. InHand(r)' = {} => InHand(r) = {}
      BY <1>1, <1>3, <2>2, HandsAt
    <3> QED
      BY <1>2, <3>1, <3>2 DEF ServedOn
  <2> QED
    BY <2>1, <2>2
<1> QED
  BY <1>2, <1>5, <1>6, ServedKeeps

\* A user's step: no job goes on.
LEMMA UserServed ==
    ASSUME WikiTyped, Served, Marking, UNCHANGED job, stripped \subseteq stripped', marked' \subseteq marked,
           \A s \in marked : source'[s] = "here" => source[s] = "here",
           \A s \in Sources : PagesStay(s)
    PROVE  Served' /\ Marking'
<1>1. \A k \in WikiJobs, s \in Sources : MarkingOn(k, s)
  BY DEF MarkingOn
<1>2. \A s : InHand(s)' = InHand(s)
  BY DEF InHand, Source
<1>3. \A s \in marked' : s \in Sources
  BY DEF WikiTyped, SourcesTyped
<1>4. \A s \in marked' : ServedOn(s)
  BY <1>2, <1>3 DEF ServedOn
<1> QED
  BY <1>1, <1>4, ServedKeeps

LEMMA DiesServed ==
    ASSUME WikiTyped, Served, Marking, NEW p, PodDies(p)
    PROVE  Served' /\ Marking'
<1>1. UNCHANGED <<source, marked, page>> /\ stripped \subseteq stripped'
  BY DEF PodDies
<1>2. ASSUME NEW j \in WikiJobs, job'[j] # job[j]
      PROVE  JobPod[j] = p /\ job'[j].pc = "over"
  BY <1>2, DiesTyped DEF WikiTyped
<1>3. ASSUME NEW k \in WikiJobs, NEW s \in Sources PROVE MarkingOn(k, s)
  <2>1. PagesStay(s)
    BY <1>1, PagesSame
  <2> QED
    BY <1>2, <2>1 DEF MarkingOn
<1>4. ASSUME NEW s \in marked' PROVE ServedOn(s)
  <2> SUFFICES ASSUME InHand(s)' = {}, s \notin stripped' PROVE InHand(s) = {} /\ PagesStay(s)
    BY <1>1 DEF ServedOn
  <2>1. PagesStay(s)
    BY <1>1, PagesSame
  <2>2. ASSUME NEW j \in InHand(s) PROVE FALSE
    <3>1. j \in WikiJobs /\ job[j].src = s
      BY DEF InHand, Source
    <3>2. CASE job'[j] = job[j]
      BY <3>1, <3>2 DEF InHand, Source
    <3>3. CASE job'[j] # job[j]
      <4>1. JobPod[j] = p
        BY <1>2, <3>1, <3>3
      <4> QED
        BY <1>1, <4>1 DEF PodDies
    <3> QED
      BY <3>2, <3>3
  <2> QED
    BY <2>1, <2>2
<1> QED
  BY <1>1, <1>3, <1>4, ServedKeeps

\* The rows of a source that is not marked, or no longer there.
LEMMA SourceSet ==
    ASSUME SourcesTyped, NEW s \in Sources, NEW v, source' = [source EXCEPT ![s] = v]
    PROVE  /\ source' = [t \in Sources |-> source'[t]] /\ source'[s] = v
           /\ \A t \in Sources \ {s} : source'[t] = source[t]
  BY DEF SourcesTyped

LEMMA IngestServed ==
    ASSUME WikiTyped, Served, Marking, NEW s \in Sources, IngestText(s)
    PROVE  WikiTyped' /\ Served' /\ Marking'
<1>1. /\ source[s] = "none" /\ source' = [source EXCEPT ![s] = "here"]
      /\ UNCHANGED <<marked, page, job, del, stripped>>
  BY DEF IngestText
<1>2. /\ source' = [t \in Sources |-> source'[t]]
      /\ \A t \in Sources \ {s} : source'[t] = source[t]
  BY <1>1, SourceSet DEF WikiTyped
<1>3. s \notin marked
  BY <1>1 DEF WikiTyped, SourcesTyped
<1>4. SourcesTyped'
  BY <1>1, <1>2, <1>3 DEF WikiTyped, SourcesTyped
<1>5. DelTyped'
  BY <1>1, <1>2 DEF WikiTyped, DelTyped
<1>6. JobsTyped' /\ PageShapes'
  BY <1>1 DEF WikiTyped, JobsTyped, PageShapes
<1>7. \A t \in Sources : PagesStay(t)
  BY <1>1, PagesSame
<1>8. \A t \in marked : source'[t] = "here" => source[t] = "here"
  BY <1>2, <1>3 DEF WikiTyped, SourcesTyped
<1> QED
  BY <1>1, <1>4, <1>5, <1>6, <1>7, <1>8, UserServed DEF WikiTyped

LEMMA EntriesServed ==
    ASSUME WikiTyped, Served, Marking, NEW s \in Sources, DeleteEntries(s)
    PROVE  WikiTyped' /\ Served' /\ Marking'
<1>1. /\ source' = [source EXCEPT ![s] = "gutted"]
      /\ UNCHANGED <<marked, page, job, stripped>>
  BY DEF DeleteEntries
<1>2. /\ source' = [t \in Sources |-> source'[t]] /\ source'[s] = "gutted"
      /\ \A t \in Sources \ {s} : source'[t] = source[t]
  BY <1>1, SourceSet DEF WikiTyped
<1>3. DelTyped'
  BY <1>2 DEF DeleteEntries, DelTyped
<1>4. SourcesTyped'
  BY <1>1, <1>2 DEF WikiTyped, SourcesTyped
<1>5. JobsTyped' /\ PageShapes'
  BY <1>1 DEF WikiTyped, JobsTyped, PageShapes
<1>6. \A t \in Sources : PagesStay(t)
  BY <1>1, PagesSame
<1>7. \A t \in marked : source'[t] = "here" => source[t] = "here"
  BY <1>2 DEF WikiTyped, SourcesTyped
<1> QED
  BY <1>1, <1>3, <1>4, <1>5, <1>6, <1>7, UserServed DEF WikiTyped

LEMMA RowServed ==
    ASSUME WikiTyped, Served, Marking, DeleteRow
    PROVE  WikiTyped' /\ Served' /\ Marking'
<1>1. UNCHANGED <<page, job, stripped>> /\ del.at = "row"
  BY DEF DeleteRow
<1>2. del.src \in Sources /\ DOMAIN del = {"src", "via", "at"}
  BY <1>1 DEF WikiTyped, DelTyped, NoDel
<1>3. JobsTyped' /\ PageShapes'
  BY <1>1 DEF WikiTyped, JobsTyped, PageShapes
<1>4. \A t \in Sources : PagesStay(t)
  BY <1>1, PagesSame
<1>5. DOMAIN NoDel = {"src", "via", "at"}
  BY DEF NoDel
<1>6. CASE del' = NoDel /\ UNCHANGED <<source, marked>>
  <2>1. DelTyped' /\ SourcesTyped'
    BY <1>5, <1>6 DEF WikiTyped, DelTyped, SourcesTyped
  <2> QED
    BY <1>1, <1>3, <1>4, <1>6, <2>1, UserServed DEF WikiTyped
<1>7. CASE /\ source' = [source EXCEPT ![del.src] = "gone"] /\ marked' = marked \ {del.src}
           /\ del' = IF del.via = "http" THEN [del EXCEPT !.at = "pages"] ELSE NoDel
  <2>1. /\ source' = [t \in Sources |-> source'[t]] /\ source'[del.src] = "gone"
        /\ \A t \in Sources \ {del.src} : source'[t] = source[t]
    BY <1>2, <1>7, SourceSet DEF WikiTyped
  <2>2. SourcesTyped'
    BY <1>7, <2>1 DEF WikiTyped, SourcesTyped
  <2>3. DelTyped'
    <3>1. CASE del.via = "http"
      <4>1. del' = [del EXCEPT !.at = "pages"]
        BY <1>7, <3>1
      <4>2. DOMAIN del' = {"src", "via", "at"} /\ del'.at = "pages" /\ del'.src = del.src
        BY <1>2, <4>1
      <4> QED
        BY <1>2, <2>1, <4>2 DEF DelTyped
    <3>2. CASE del.via # "http"
      BY <1>5, <1>7, <3>2 DEF DelTyped
    <3> QED
      BY <3>1, <3>2
  <2>4. \A t \in marked : source'[t] = "here" => source[t] = "here"
    BY <2>1 DEF WikiTyped, SourcesTyped
  <2> QED
    BY <1>1, <1>3, <1>4, <1>7, <2>2, <2>3, <2>4, UserServed DEF WikiTyped
<1> QED
  BY <1>6, <1>7 DEF DeleteRow

\* Pages are removed, and all that they list is stripped.
LEMMA StripServed ==
    ASSUME WikiTyped, Served, Marking, NEW gone \in SUBSET There, page' = Without(gone),
           stripped' = stripped \cup SourcesOf(gone), UNCHANGED <<source, marked, job>>, DelTyped'
    PROVE  WikiTyped' /\ Served' /\ Marking'
<1>1. \A t \in Sources : PagesStay(t)
  BY RemovedStay DEF WikiTyped
<1>2. PageShapes'
  BY Removed DEF WikiTyped
<1>3. JobsTyped' /\ SourcesTyped'
  BY DEF WikiTyped, JobsTyped, SourcesTyped
<1> QED
  BY <1>1, <1>2, <1>3, UserServed DEF WikiTyped

LEMMA CascadeServed ==
    ASSUME WikiTyped, Served, Marking, Cascade
    PROVE  WikiTyped' /\ Served' /\ Marking'
<1>1. UNCHANGED <<source, marked, job>> /\ del' = NoDel
  BY DEF Cascade
<1>2. DelTyped'
  BY <1>1 DEF DelTyped, NoDel
<1> DEFINE gone == Lists(AgentOf[del.src], del.src)
<1>3. CASE page' = Without(gone) /\ stripped' = stripped \cup SourcesOf(gone)
  <2>1. gone \in SUBSET There
    BY DEF Lists
  <2> HIDE DEF gone
  <2> QED
    BY <1>1, <1>2, <1>3, <2>1, StripServed
<1>4. CASE UNCHANGED <<page, stripped>>
  <2>1. \A t \in Sources : PagesStay(t)
    BY <1>4, PagesSame
  <2>2. JobsTyped' /\ SourcesTyped' /\ PageShapes'
    BY <1>1, <1>4 DEF WikiTyped, JobsTyped, SourcesTyped, PageShapes
  <2> QED
    BY <1>1, <1>2, <1>4, <2>1, <2>2, UserServed DEF WikiTyped
<1> QED
  BY <1>3, <1>4 DEF Cascade

LEMMA PageServed ==
    ASSUME WikiTyped, Served, Marking, NEW i \in Pages, DeletePage(i)
    PROVE  WikiTyped' /\ Served' /\ Marking'
<1>1. /\ {i} \in SUBSET There /\ page' = Without({i}) /\ UNCHANGED <<source, marked, job, del>>
      /\ stripped' = stripped \cup page[i].src
  BY DEF DeletePage
<1>2. SourcesOf({i}) = page[i].src
  BY DEF SourcesOf
<1>3. DelTyped'
  BY <1>1 DEF WikiTyped, DelTyped
<1> QED
  BY <1>1, <1>2, <1>3, StripServed

LEMMA StepServed ==
    ASSUME WikiTyped, Served, Marking, NEW j \in WikiJobs, JobStep(j)
    PROVE  WikiTyped' /\ Served' /\ Marking'
<1>1. UNCHANGED <<source, del>>
  BY DEF JobStep, HandleWikiGenerate, RunWikiAutoGenCycle, SetWikiAutoGenLastRun, ListSources, EndJob,
         CleanSource, Analyse, FindPageByTitle, MergeSource, WritePage, MarkSourceGenerated, Elsewhere
<1>2. DelTyped'
  BY <1>1 DEF WikiTyped, DelTyped
<1>3. ASSUME JobGoes(j), UNCHANGED marked, PageShapes' PROVE WikiTyped'
  <2>1. JobsTyped' /\ SourcesTyped'
    BY <1>1, <1>3, GoesTyped DEF WikiTyped, SourcesTyped
  <2> QED
    BY <1>2, <1>3, <2>1 DEF WikiTyped
<1>4. ASSUME UNCHANGED page PROVE PageShapes'
  BY <1>4 DEF WikiTyped, PageShapes
<1>5. CASE HandleWikiGenerate(j) \/ RunWikiAutoGenCycle(j) \/ SetWikiAutoGenLastRun(j)
           \/ ListSources(j) \/ EndJob(j)
  <2>1. JobWaits(j)
    BY <1>5, HandleGoes, CycleGoes, StampGoes, ListGoes, EndGoes DEF WikiTyped
  <2>2. UNCHANGED <<marked, page, stripped>>
    BY <1>5 DEF HandleWikiGenerate, RunWikiAutoGenCycle, SetWikiAutoGenLastRun, ListSources, EndJob
  <2>3. WikiTyped'
    BY <1>3, <1>4, <2>1, <2>2 DEF JobWaits
  <2> QED
    BY <1>1, <2>1, <2>2, <2>3, WaitsServed
<1>6. ASSUME NEW s \in Sources, CleanSource(j, s) PROVE WikiTyped' /\ Served' /\ Marking'
  <2>1. JobGoes(j) /\ UNCHANGED marked
    BY <1>6, CleanGoes DEF WikiTyped, CleanSource
  <2>2. Served' /\ Marking' /\ PageShapes'
    BY <1>6, CleanServed
  <2> QED
    BY <1>3, <2>1, <2>2
<1>7. CASE Analyse(j)
  <2>1. job[j].pc = "read" /\ UNCHANGED <<marked, page>>
    BY <1>7 DEF Analyse, JobAt
  <2>2. JobGoes(j)
    BY <1>7, <2>1, GiveUpGoes, PlanGoes DEF WikiTyped, Analyse
  <2>3. WikiTyped'
    BY <1>3, <1>4, <2>1, <2>2
  <2> QED
    BY <1>7, <2>3, AnalyseServed
<1>8. CASE FindPageByTitle(j)
  <2>1. JobGoes(j) /\ UNCHANGED <<marked, page>>
    BY <1>8, FindSteps DEF FindPageByTitle
  <2>2. WikiTyped'
    BY <1>3, <1>4, <2>1
  <2> QED
    BY <1>8, <2>2, FindServed
<1>9. CASE MergeSource(j) \/ WritePage(j)
  <2>1. JobGoes(j) /\ UNCHANGED marked
    BY <1>9, WriteSteps
  <2>2. Served' /\ Marking' /\ PageShapes'
    BY <1>9, WriteServed
  <2> QED
    BY <1>3, <2>1, <2>2
<1>10. CASE MarkSourceGenerated(j)
  <2>1. JobGoes(j) /\ UNCHANGED page
    BY <1>10, MarkGoes DEF WikiTyped, MarkSourceGenerated
  <2>2. job[j].src \in Sources
    BY <1>10 DEF MarkSourceGenerated, JobAt, WikiTyped, JobsTyped, JobTyped
  <2>3. \A s \in marked' : s \in Sources /\ source[s] \in {"here", "gutted"}
    BY <1>10, <2>2 DEF MarkSourceGenerated, Source, WikiTyped, SourcesTyped
  <2>4. SourcesTyped'
    BY <1>1, <2>3 DEF WikiTyped, SourcesTyped
  <2>5. WikiTyped'
    BY <1>2, <1>4, <2>1, <2>4, GoesTyped DEF WikiTyped
  <2> QED
    BY <1>10, <2>5, MarkServed
<1> QED
  BY <1>5, <1>6, <1>7, <1>8, <1>9, <1>10 DEF JobStep

LEMMA ServedNext ==
    ASSUME WikiTyped, Served, Marking, [WikiNext]_wikiVars
    PROVE  WikiTyped' /\ Served' /\ Marking'
<1>1. ASSUME NEW j \in WikiJobs, PodDies(JobPod[j]) PROVE WikiTyped' /\ Served' /\ Marking'
  <2>1. UNCHANGED <<source, marked, page, del>>
    BY <1>1 DEF PodDies
  <2>2. JobsTyped'
    BY <1>1, DiesTyped DEF WikiTyped
  <2>3. WikiTyped'
    BY <2>1, <2>2 DEF WikiTyped, DelTyped, SourcesTyped, PageShapes
  <2> QED
    BY <1>1, <2>3, DiesServed
<1>2. CASE (\E a \in Agents : WikiIntervalPasses(a)) \/ UNCHANGED wikiVars
  <2>1. UNCHANGED <<source, marked, page, job, del, stripped>>
    BY <1>2 DEF WikiIntervalPasses, wikiVars
  <2>2. WikiTyped'
    BY <2>1 DEF WikiTyped, JobsTyped, DelTyped, SourcesTyped, PageShapes
  <2>3. \A s \in Sources : PagesStay(s)
    BY <2>1, PagesSame
  <2> QED
    BY <2>1, <2>2, <2>3, UserServed
<1>3. CASE UserStep
  BY <1>2, <1>3, IngestServed, EntriesServed, RowServed, CascadeServed, PageServed DEF UserStep
<1> QED
  BY <1>1, <1>2, <1>3, StepServed, WikiSteps
-----------------------------------------------------------------------------
(* No page of a source that is gone.                                       *)

\* What a page lists is of its agent, and what a job has read of one too.
Owned ==
    /\ \A i \in There : \A s \in page[i].src :
         s \in Sources /\ (page[i].agent = AgentOf[s] \/ s \in adrift)
    /\ \A j \in WikiJobs : \A s \in job[j].found.src :
         s \in Sources /\ (job[j].agent = AgentOf[s] \/ s \in adrift)

\* A job that will write a source, its own or one it has read.
Carries(j, s) ==
    (job[j].src = s /\ job[j].pc \in {"find", "merge", "write"}) \/ s \in job[j].found.src

Known(s) == source[s] = "gone" => s \in adrift \/ del.src = s

Carried == \A j \in WikiJobs, s \in Sources : Carries(j, s) => Known(s)

GoneInv == Owned /\ Carried /\ NoOrphans

KnownStays == \A s \in Sources : Known(s) => Known(s)'

\* A job that has no page in hand afterwards.
LEMMA Unread ==
    ASSUME NEW x, JobTyped(x), x.pc # "merge" PROVE x.found.src = {}
<1>1. NotFound.src = {}
  BY DEF NotFound
<1> QED
  BY <1>1 DEF JobTyped

\* Jobs carry and pages list no more than before.
LEMMA GoneKeeps ==
    ASSUME GoneInv, KnownStays, adrift \subseteq adrift',
           \A i \in There' : i \in There /\ page'[i] = page[i],
           \A j \in WikiJobs : \/ job'[j].agent = job[j].agent /\ job'[j].found = job[j].found
                               \/ job'[j].found.src = {},
           \A j \in WikiJobs, s \in Sources : Carries(j, s)' => Carries(j, s)
    PROVE  GoneInv'
<1>1. Owned'
  BY DEF GoneInv, Owned
<1>2. Carried'
  BY DEF GoneInv, Carried, KnownStays
<1>3. NoOrphans'
  <2> SUFFICES ASSUME NEW i \in There', NEW s \in page'[i].src PROVE Known(s)'
    BY DEF NoOrphans, Known
  <2>1. s \in Sources /\ Known(s)
    BY DEF GoneInv, Owned, NoOrphans, Known
  <2> QED
    BY <2>1 DEF KnownStays
<1> QED
  BY <1>1, <1>2, <1>3 DEF GoneInv

\* The job of one step, and the pages stay.
LEMMA JobGone ==
    ASSUME GoneInv, NEW j \in WikiJobs, JobGoes(j), UNCHANGED <<source, del, adrift>>,
           \A i \in There' : i \in There /\ page'[i] = page[i],
           job'[j].found.src = {},
           \A s \in Sources : Carries(j, s)' => Known(s)
    PROVE  GoneInv'
<1>1. \A s \in Sources : Known(s) => Known(s)'
  BY DEF Known
<1>2. Owned'
  BY DEF GoneInv, Owned, JobGoes
<1>3. Carried'
  <2> SUFFICES ASSUME NEW k \in WikiJobs, NEW s \in Sources, Carries(k, s)' PROVE Known(s)
    BY <1>1 DEF Carried
  <2>1. CASE k = j
    BY <2>1
  <2>2. CASE k # j
    <3>1. Carries(k, s)
      BY <2>2 DEF JobGoes, Carries
    <3> QED
      BY <3>1 DEF GoneInv, Carried
  <2> QED
    BY <2>1, <2>2
<1>4. NoOrphans'
  BY DEF GoneInv, NoOrphans
<1> QED
  BY <1>2, <1>3, <1>4 DEF GoneInv

LEMMA FindGone ==
    ASSUME WikiTyped, GoneInv, NEW j \in WikiJobs, FindPageByTitle(j)
    PROVE  GoneInv'
<1>1. UNCHANGED <<source, del, adrift, page>> /\ job[j].pc = "find"
  BY DEF FindPageByTitle, Elsewhere, JobAt
<1>2. \A i \in There' : i \in There /\ page'[i] = page[i]
  BY <1>1 DEF There
<1>3. \A s \in Sources : s = job[j].src => Known(s)
  BY <1>1 DEF GoneInv, Carried, Carries
<1>4. CASE JobGoes(j) /\ job'[j].pc = "write" /\ job'[j].src = job[j].src
  <2>1. job'[j].found.src = {}
    BY <1>4, Unread DEF JobGoes
  <2>2. \A s \in Sources : Carries(j, s)' => Known(s)
    BY <1>3, <1>4, <2>1 DEF Carries
  <2> QED
    BY <1>1, <1>2, <1>4, <2>1, <2>2, JobGone
<1>5. ASSUME NEW i \in There, JobGoes(j), job'[j].src = job[j].src, job'[j].agent = job[j].agent,
             job'[j].found.src = page[i].src, page[i].agent = job[j].agent
      PROVE  GoneInv'
  <2>1. \A s \in page[i].src : s \in Sources /\ (page[i].agent = AgentOf[s] \/ s \in adrift) /\ Known(s)
    BY DEF GoneInv, Owned, NoOrphans, Known
  <2>2. Owned'
    <3>1. \A s \in job'[j].found.src : s \in Sources /\ (job'[j].agent = AgentOf[s] \/ s \in adrift')
      BY <1>1, <1>5, <2>1
    <3>2. \A k \in WikiJobs \ {j} : job'[k] = job[k]
      BY <1>5 DEF JobGoes
    <3>3. \A k \in WikiJobs : \A s \in job'[k].found.src :
             s \in Sources /\ (job'[k].agent = AgentOf[s] \/ s \in adrift')
      BY <1>1, <3>1, <3>2 DEF GoneInv, Owned
    <3> QED
      BY <1>1, <1>2, <3>3 DEF GoneInv, Owned
  <2>3. Carried'
    <3> SUFFICES ASSUME NEW k \in WikiJobs, NEW s \in Sources, Carries(k, s)' PROVE Known(s)
      BY <1>1 DEF Carried, Known
    <3>1. CASE k = j
      BY <1>3, <1>5, <2>1, <3>1 DEF Carries
    <3>2. CASE k # j
      <4>1. Carries(k, s)
        BY <1>5, <3>2 DEF JobGoes, Carries
      <4> QED
        BY <4>1 DEF GoneInv, Carried
    <3> QED
      BY <3>1, <3>2
  <2>4. NoOrphans'
    BY <1>1, <1>2 DEF GoneInv, NoOrphans
  <2> QED
    BY <2>2, <2>3, <2>4 DEF GoneInv
<1> QED
  BY <1>4, <1>5, FindSteps

LEMMA WriteGone ==
    ASSUME WikiTyped, GoneInv, NEW j \in WikiJobs, MergeSource(j) \/ WritePage(j)
    PROVE  GoneInv'
<1>1. /\ JobGoes(j) /\ job'[j].pc \in {"find", "mark"} /\ job'[j].src = job[j].src
      /\ job[j].pc \in {"merge", "write"} /\ UNCHANGED <<source, del>>
  BY WriteSteps
<1>2. PICK s \in Sources, a \in Agents : s = job[j].src /\ a = job[j].agent /\ a = AgentOf[s]
  BY <1>1 DEF WikiTyped, JobsTyped, JobTyped
<1>3. job'[j].found.src = {}
  BY <1>1, Unread DEF JobGoes
<1>4. Carries(j, s) /\ Known(s)
  BY <1>1, <1>2 DEF GoneInv, Carried, Carries
<1>5. \A r \in Sources : Carries(j, r)' => Known(r)
  BY <1>1, <1>2, <1>3, <1>4 DEF Carries
<1>6. CASE WriteFails(j)
  <2>1. UNCHANGED <<page, adrift>>
    BY <1>6 DEF WriteFails
  <2>2. \A i \in There' : i \in There /\ page'[i] = page[i]
    BY <2>1 DEF There
  <2> QED
    BY <1>1, <1>3, <1>5, <2>1, <2>2, JobGone
<1>7. ASSUME NEW i \in Pages, NEW t, NEW S, Written(j, i, t, S)
      PROVE  GoneInv'
  <2>1. PageShapes /\ Upsert(i, a, t, S) /\ adrift \subseteq adrift'
    BY <1>2, <1>7 DEF Written, WikiTyped
  <2>2. /\ There' = There \cup {i} /\ \A k \in Pages \ {i} : page'[k] = page[k]
        /\ page'[i].src = S
        /\ page'[i].agent = IF i \in There THEN page[i].agent ELSE a
    BY <2>1, Upserted
  <2>3. \A r \in Sources : Known(r) => Known(r)'
    BY <1>1, <2>1 DEF Known
  <2>4. ASSUME NEW r \in S PROVE r \in Sources /\ (a = AgentOf[r] \/ r \in adrift') /\ Known(r)'
    <3>1. CASE r = s
      BY <1>2, <1>4, <2>3, <3>1
    <3>2. CASE r # s
      <4>1. r \in job[j].found.src
        BY <1>2, <1>7, <3>2 DEF Written
      <4>2. r \in Sources /\ (a = AgentOf[r] \/ r \in adrift)
        BY <1>2, <4>1 DEF GoneInv, Owned
      <4>3. Carries(j, r)
        BY <4>1 DEF Carries
      <4> QED
        BY <2>1, <2>3, <4>2, <4>3 DEF GoneInv, Carried
    <3> QED
      BY <3>1, <3>2
  <2>5. \A r \in S : page'[i].agent = AgentOf[r] \/ r \in adrift'
    <3>1. CASE Foreign(j, i)
      BY <1>7, <3>1 DEF Written
    <3>2. CASE ~Foreign(j, i)
      <4>1. page'[i].agent = a
        BY <1>2, <2>2, <3>2 DEF Foreign
      <4> QED
        BY <2>4, <4>1
    <3> QED
      BY <3>1, <3>2
  <2>6. ASSUME NEW k \in There', NEW r \in page'[k].src
        PROVE  r \in Sources /\ (page'[k].agent = AgentOf[r] \/ r \in adrift') /\ Known(r)'
    <3>1. CASE k = i
      BY <2>2, <2>4, <2>5, <3>1
    <3>2. CASE k # i
      <4>1. k \in There /\ page'[k] = page[k]
        BY <2>2, <3>2 DEF There
      <4>2. r \in Sources /\ (page[k].agent = AgentOf[r] \/ r \in adrift) /\ Known(r)
        BY <4>1 DEF GoneInv, Owned, NoOrphans, Known
      <4> QED
        BY <2>1, <2>3, <4>1, <4>2
    <3> QED
      BY <3>1, <3>2
  <2>7. NoOrphans'
    BY <2>6 DEF NoOrphans, Known
  <2>8. \A k \in WikiJobs : job'[k] = job[k] \/ job'[k].found.src = {}
    BY <1>1, <1>3 DEF JobGoes
  <2>9. Owned'
    BY <2>1, <2>6, <2>8 DEF GoneInv, Owned
  <2>10. Carried'
    <3> SUFFICES ASSUME NEW k \in WikiJobs, NEW r \in Sources, Carries(k, r)' PROVE Known(r)
      BY <2>3 DEF Carried
    <3>1. CASE k = j
      BY <1>5, <3>1
    <3>2. CASE k # j
      <4>1. Carries(k, r)
        BY <1>1, <3>2 DEF JobGoes, Carries
      <4> QED
        BY <4>1 DEF GoneInv, Carried
    <3> QED
      BY <3>1, <3>2
  <2> QED
    BY <2>7, <2>9, <2>10 DEF GoneInv
<1> QED
  BY <1>6, <1>7, WriteSteps

LEMMA StepGone ==
    ASSUME WikiTyped, GoneInv, NEW j \in WikiJobs, JobStep(j)
    PROVE  GoneInv'
<1>1. ASSUME JobGoes(j), job'[j].pc \notin {"find", "merge", "write"}, UNCHANGED <<source, del, adrift>>,
             \A i \in There' : i \in There /\ page'[i] = page[i]
      PROVE  GoneInv'
  <2>1. job'[j].found.src = {}
    BY <1>1, Unread DEF JobGoes
  <2>2. \A s \in Sources : ~Carries(j, s)'
    BY <1>1, <2>1 DEF Carries
  <2> QED
    BY <1>1, <2>1, <2>2, JobGone
<1>2. ASSUME UNCHANGED page PROVE \A i \in There' : i \in There /\ page'[i] = page[i]
  BY <1>2 DEF There
<1>3. CASE HandleWikiGenerate(j) \/ RunWikiAutoGenCycle(j) \/ SetWikiAutoGenLastRun(j)
           \/ ListSources(j) \/ EndJob(j)
  <2>1. JobWaits(j)
    BY <1>3, HandleGoes, CycleGoes, StampGoes, ListGoes, EndGoes DEF WikiTyped
  <2>2. UNCHANGED <<source, del, adrift, page>>
    BY <1>3 DEF HandleWikiGenerate, RunWikiAutoGenCycle, SetWikiAutoGenLastRun, ListSources, EndJob, Elsewhere
  <2> QED
    BY <1>1, <1>2, <2>1, <2>2 DEF JobWaits
<1>4. ASSUME NEW s \in Sources, CleanSource(j, s) PROVE GoneInv'
  <2>1. JobGoes(j) /\ job'[j].pc = "read"
    BY <1>4, CleanGoes DEF WikiTyped
  <2>2. UNCHANGED <<source, del, adrift>>
    BY <1>4 DEF CleanSource, Elsewhere
  <2>3. page' = page \/ page' = Without(Lists(job[j].agent, s))
    BY <1>4 DEF CleanSource
  <2>4. \A i \in There' : i \in There /\ page'[i] = page[i]
    <3>1. CASE page' = page
      BY <1>2, <3>1
    <3> DEFINE gone == Lists(job[j].agent, s)
    <3>2. CASE page' = Without(gone)
      <4> HIDE DEF gone
      <4> QED
        BY <3>2, Removed DEF WikiTyped
    <3> QED
      BY <2>3, <3>1, <3>2
  <2> QED
    BY <1>1, <2>1, <2>2, <2>4
<1>5. CASE Analyse(j)
  <2>1. job[j].pc = "read" /\ UNCHANGED <<source, del, adrift, page>>
    BY <1>5 DEF Analyse, JobAt, Elsewhere
  <2>2. CASE GiveUp(j)
    <3>1. JobGoes(j) /\ job'[j].pc = "next"
      BY <2>1, <2>2, GiveUpGoes DEF WikiTyped
    <3> QED
      BY <1>1, <1>2, <2>1, <3>1
  <2>3. ASSUME NEW plan \in PlansOf[Source(j)], source[Source(j)] = "here",
               job' = [job EXCEPT ![j].pc = "find", ![j].rest = WithSourcePage(plan, Source(j))]
        PROVE  GoneInv'
    <3>1. JobGoes(j) /\ job'[j].pc = "find" /\ job'[j].src = job[j].src
      BY <2>1, <2>3, PlanGoes DEF WikiTyped
    <3>2. job'[j].found.src = {}
      BY <3>1, Unread DEF JobGoes
    <3>3. \A s \in Sources : Carries(j, s)' => Known(s)
      BY <2>3, <3>1, <3>2 DEF Carries, Known, Source
    <3> QED
      BY <1>2, <2>1, <3>1, <3>2, <3>3, JobGone
  <2> QED
    BY <1>5, <2>2, <2>3 DEF Analyse
<1>6. CASE MarkSourceGenerated(j)
  <2>1. JobGoes(j) /\ job'[j].pc = "next"
    BY <1>6, MarkGoes DEF WikiTyped
  <2>2. UNCHANGED <<source, del, adrift, page>>
    BY <1>6 DEF MarkSourceGenerated, Elsewhere
  <2> QED
    BY <1>1, <1>2, <2>1, <2>2
<1> QED
  BY <1>3, <1>4, <1>5, <1>6, FindGone, WriteGone DEF JobStep

\* Jobs and pages stay.
LEMMA KnownKeeps ==
    ASSUME GoneInv, KnownStays, adrift \subseteq adrift', UNCHANGED <<page, job>>
    PROVE  GoneInv'
<1>1. \A i \in There' : i \in There /\ page'[i] = page[i]
  BY DEF There
<1>2. \A j \in WikiJobs : job'[j].agent = job[j].agent /\ job'[j].found = job[j].found
  OBVIOUS
<1>3. \A j \in WikiJobs, s \in Sources : Carries(j, s)' => Carries(j, s)
  BY DEF Carries
<1> QED
  BY <1>1, <1>2, <1>3, GoneKeeps

LEMMA DiesGone ==
    ASSUME WikiTyped, GoneInv, NEW p, PodDies(p)
    PROVE  GoneInv'
<1>1. UNCHANGED <<source, del, adrift, page>>
  BY DEF PodDies
<1>2. KnownStays /\ \A i \in There' : i \in There /\ page'[i] = page[i]
  BY <1>1 DEF KnownStays, Known, There
<1>3. ASSUME NEW j \in WikiJobs, job'[j] # job[j]
      PROVE  job'[j].pc = "over" /\ job'[j].found.src = {}
  <2>1. job'[j].pc = "over" /\ JobTyped(job'[j])
    BY <1>3, DiesTyped DEF WikiTyped, JobsTyped
  <2> QED
    BY <2>1, Unread
<1>4. \A j \in WikiJobs : \/ job'[j].agent = job[j].agent /\ job'[j].found = job[j].found
                          \/ job'[j].found.src = {}
  BY <1>3
<1>5. \A j \in WikiJobs, s \in Sources : Carries(j, s)' => Carries(j, s)
  BY <1>3 DEF Carries
<1> QED
  BY <1>1, <1>2, <1>4, <1>5, GoneKeeps

LEMMA IngestGone ==
    ASSUME WikiTyped, GoneInv, NEW s \in Sources, IngestText(s)
    PROVE  GoneInv'
<1>1. source' = [source EXCEPT ![s] = "here"] /\ UNCHANGED <<page, job, del, adrift>>
  BY DEF IngestText
<1>2. source'[s] = "here" /\ \A t \in Sources \ {s} : source'[t] = source[t]
  BY <1>1, SourceSet DEF WikiTyped
<1>3. KnownStays
  BY <1>1, <1>2 DEF KnownStays, Known
<1> QED
  BY <1>1, <1>3, KnownKeeps

LEMMA EntriesGone ==
    ASSUME WikiTyped, GoneInv, NEW s \in Sources, DeleteEntries(s)
    PROVE  GoneInv'
<1>1. source' = [source EXCEPT ![s] = "gutted"] /\ del = NoDel /\ UNCHANGED <<page, job, adrift>>
  BY DEF DeleteEntries
<1>2. source'[s] = "gutted" /\ \A t \in Sources \ {s} : source'[t] = source[t]
  BY <1>1, SourceSet DEF WikiTyped
<1>3. \A t \in Sources : del.src # t
  BY <1>1, WikiAssumption DEF NoDel
<1>4. KnownStays
  BY <1>1, <1>2, <1>3 DEF KnownStays, Known
<1> QED
  BY <1>1, <1>4, KnownKeeps

LEMMA RowGone ==
    ASSUME WikiTyped, GoneInv, DeleteRow
    PROVE  GoneInv'
<1>1. UNCHANGED <<page, job>> /\ adrift \subseteq adrift' /\ del.at = "row"
  BY DEF DeleteRow
<1>2. del.src \in Sources /\ source[del.src] = "gutted" /\ DOMAIN del = {"src", "via", "at"}
  BY <1>1 DEF WikiTyped, DelTyped, NoDel
<1>3. CASE del' = NoDel /\ UNCHANGED <<source, adrift>>
  <2>1. KnownStays
    BY <1>2, <1>3 DEF KnownStays, Known
  <2> QED
    BY <1>1, <2>1, KnownKeeps
<1>4. CASE /\ source' = [source EXCEPT ![del.src] = "gone"]
           /\ del' = IF del.via = "http" THEN [del EXCEPT !.at = "pages"] ELSE NoDel
           /\ adrift' = IF del.via = "tool" \/ HasRead(del.src) # {}
                        THEN adrift \cup {del.src} ELSE adrift
           /\ del.via \in {"http", "tool"}
  <2>1. \A t \in Sources \ {del.src} : source'[t] = source[t]
    BY <1>2, <1>4, SourceSet DEF WikiTyped
  <2>2. del.via = "http" => del'.src = del.src
    BY <1>2, <1>4
  <2>3. del.src \in adrift' \/ del'.src = del.src
    BY <1>4, <2>2
  <2>4. ASSUME NEW t \in Sources, Known(t) PROVE Known(t)'
    <3>1. CASE t = del.src
      BY <2>3, <3>1 DEF Known
    <3>2. CASE t # del.src
      BY <1>1, <2>1, <2>4, <3>2 DEF Known
    <3> QED
      BY <3>1, <3>2
  <2>5. KnownStays
    BY <2>4 DEF KnownStays
  <2> QED
    BY <1>1, <2>5, KnownKeeps
<1>5. del.via \in {"http", "tool"}
  BY <1>1 DEF WikiTyped, DelTyped, NoDel
<1> QED
  BY <1>3, <1>4, <1>5 DEF DeleteRow

LEMMA CascadeGone ==
    ASSUME WikiTyped, GoneInv, Cascade
    PROVE  GoneInv'
<1>1. UNCHANGED <<source, job>> /\ del.at = "pages" /\ adrift \subseteq adrift'
  BY DEF Cascade
<1>2. PICK s \in Sources : s = del.src
  BY <1>1 DEF WikiTyped, DelTyped, NoDel
<1>3. CASE adrift' = adrift \cup {del.src} /\ UNCHANGED page
  <2>1. KnownStays
    BY <1>1, <1>2, <1>3 DEF KnownStays, Known
  <2> QED
    BY <1>1, <1>3, <2>1, KnownKeeps
<1> DEFINE gone == Lists(AgentOf[s], s)
<1>4. CASE /\ page' = Without(gone)
           /\ adrift' = IF HasRead(s) # {} THEN adrift \cup {s} ELSE adrift
  <2>1. There' \subseteq There \ gone /\ \A i \in There' : page'[i] = page[i]
    <3> HIDE DEF gone
    <3> QED
      BY <1>4, Removed DEF WikiTyped
  <2>2. Owned'
    BY <1>1, <2>1 DEF GoneInv, Owned
  <2>3. ASSUME NEW t \in Sources, t # s, Known(t) PROVE Known(t)'
    BY <1>1, <1>2, <2>3 DEF Known
  <2>4. Carried'
    <3> SUFFICES ASSUME NEW j \in WikiJobs, NEW t \in Sources, Carries(j, t)' PROVE Known(t)'
      BY DEF Carried
    <3>1. Carries(j, t) /\ Known(t)
      BY <1>1 DEF Carries, GoneInv, Carried
    <3>2. CASE t = s
      <4>1. j \in HasRead(s)
        BY <3>1, <3>2 DEF Carries, HasRead, Source
      <4> QED
        BY <1>4, <3>2, <4>1 DEF Known
    <3> QED
      BY <2>3, <3>1, <3>2
  <2>5. NoOrphans'
    <3> SUFFICES ASSUME NEW i \in There', NEW t \in page'[i].src PROVE Known(t)'
      BY DEF NoOrphans, Known
    <3>1. i \in There /\ i \notin gone /\ t \in page[i].src
      BY <2>1
    <3>2. t \in Sources /\ (page[i].agent = AgentOf[t] \/ t \in adrift) /\ Known(t)
      BY <3>1 DEF GoneInv, Owned, NoOrphans, Known
    <3>3. CASE t = s
      <4>1. t \in adrift
        BY <3>1, <3>2, <3>3 DEF Lists
      <4> QED
        BY <1>1, <4>1 DEF Known
    <3> QED
      BY <2>3, <3>2, <3>3
  <2> QED
    BY <2>2, <2>4, <2>5 DEF GoneInv
<1> QED
  BY <1>2, <1>3, <1>4 DEF Cascade

LEMMA PageGone ==
    ASSUME WikiTyped, GoneInv, NEW i \in Pages, DeletePage(i)
    PROVE  GoneInv'
<1>1. page' = Without({i}) /\ UNCHANGED <<source, job, del, adrift>>
  BY DEF DeletePage
<1>2. \A k \in There' : k \in There /\ page'[k] = page[k]
  BY <1>1, Removed DEF WikiTyped
<1>3. KnownStays
  BY <1>1 DEF KnownStays, Known
<1>4. \A j \in WikiJobs : job'[j].agent = job[j].agent /\ job'[j].found = job[j].found
  BY <1>1
<1>5. \A j \in WikiJobs, s \in Sources : Carries(j, s)' => Carries(j, s)
  BY <1>1 DEF Carries
<1> QED
  BY <1>1, <1>2, <1>3, <1>4, <1>5, GoneKeeps

LEMMA GoneNext ==
    ASSUME WikiTyped, GoneInv, [WikiNext]_wikiVars
    PROVE  GoneInv'
<1>1. CASE (\E a \in Agents : WikiIntervalPasses(a)) \/ UNCHANGED wikiVars
  <2>1. UNCHANGED <<source, page, job, del, adrift>>
    BY <1>1 DEF WikiIntervalPasses, wikiVars
  <2>2. KnownStays
    BY <2>1 DEF KnownStays, Known
  <2> QED
    BY <2>1, <2>2, KnownKeeps
<1>2. CASE UserStep
  BY <1>1, <1>2, IngestGone, EntriesGone, RowGone, CascadeGone, PageGone DEF UserStep
<1> QED
  BY <1>1, <1>2, DiesGone, StepGone, WikiSteps
-----------------------------------------------------------------------------
LEMMA WikiInvInit == ASSUME WikiInit PROVE WikiTyped /\ Served /\ Marking /\ GoneInv
<1>1. <<>> \in Seq(Entries)
  OBVIOUS
<1>2. /\ DOMAIN NoRun = {"pc", "by", "agent", "todo", "src", "rest", "found"}
      /\ NoRun.pc = "new" /\ NoRun.todo = {} /\ NoRun.src = NoSource /\ NoRun.rest = <<>>
      /\ NoRun.found = NotFound
  BY DEF NoRun
<1>3. JobTyped(NoRun)
  BY <1>1, <1>2 DEF JobTyped
<1>4. \A j \in WikiJobs : job[j] = NoRun
  BY DEF WikiInit
<1>5. JobsTyped
  BY <1>3, <1>4 DEF WikiInit, JobsTyped
<1>6. PageShapes /\ SourcesTyped /\ DelTyped
  BY DEF WikiInit, PageShapes, SourcesTyped, DelTyped, NoDel
<1>7. Served /\ Marking
  BY <1>2, <1>4 DEF WikiInit, Served, Marking
<1>8. There = {}
  BY DEF WikiInit, There, NoRow
<1>9. \A j \in WikiJobs : job[j].found.src = {}
  BY <1>2, <1>3, <1>4, Unread
<1>10. \A s \in Sources : source[s] # "gone"
  BY DEF WikiInit
<1>11. GoneInv
  BY <1>8, <1>9, <1>10 DEF GoneInv, Owned, Carried, Known, NoOrphans
<1> QED
  BY <1>5, <1>6, <1>7, <1>11 DEF WikiTyped

\* Whatever generations, sweeps, deletions and failures run side by side, a source
\* that counts as done has a page of its agent, and none outlives its source, but
\* for the ways named where stripped and adrift change (wiki/generate.go,
\* gateway/wiki_autogen.go, setup/handlers_kb.go).
THEOREM WikiKeptHolds == WikiSpec => []WikiKept
<1>1. WikiInit => WikiTyped /\ Served /\ Marking /\ GoneInv
  BY WikiInvInit
<1>2. WikiTyped /\ Served /\ Marking /\ GoneInv /\ [WikiNext]_wikiVars
        => (WikiTyped /\ Served /\ Marking /\ GoneInv)'
  BY ServedNext, GoneNext
<1>3. WikiTyped /\ Served /\ Marking /\ GoneInv => WikiKept
  BY DEF GoneInv, WikiKept
<1> QED
  BY <1>1, <1>2, <1>3, PTL DEF WikiSpec
=============================================================================
