--------------------------- MODULE CronScheduler ---------------------------
(***************************************************************************)
(* The scheduler of store-backed jobs: pollStore and processDueJobs        *)
(* (cron/scheduler.go), one goroutine in each process, the table cron_jobs *)
(* they share (store/database.go), the tools and the dashboard handlers    *)
(* that change it (agent/tools/cron.go, setup/handlers_cron.go).           *)
(*                                                                         *)
(* Time is discrete and kept relative: due[j] is next_run minus now (0:    *)
(* due), lock[j] what is left of the lock on the row.  The send on         *)
(* bus.Inbound blocks while the bus is full: a process may stay in it.  A  *)
(* job holds its row at most MaxHold.                                      *)
(***************************************************************************)
EXTENDS Integers, FiniteSets

CONSTANTS
    Pods, Jobs, NoJob,
    Period,         \* of an interval, and how far ahead a job is created
    LockTTL,        \* 5 minutes
    Idle,           \* 5 minutes
    MaxHold,
    MaxFailures,    \* cronMaxConsecutiveFailures
    MaxTroubles     \* bound on failing statements, crashes and toggles

Never == Period + Idle + 1      \* farFuture: a hundred years

ASSUME CronAssumption ==
    /\ NoJob \notin Jobs
    /\ {Period, LockTTL, Idle, MaxFailures} \subseteq Nat \ {0}
    /\ {MaxHold, MaxTroubles} \subseteq Nat

VARIABLES
    \* the table
    rows, enabled,      \* jobs that have a row, and those set enabled
    once,               \* jobs of type "once"; the others recur
    due,                \* next_run, relative
    lock,               \* time until locked_at is 5 minutes old
    failures,           \* failure_count
    born,               \* jobs whose id was used
    sent,               \* how often the current occurrence was sent
    \* processes
    pc,                 \* where processDueJobs and pollStore are
    batch,              \* due jobs of the poll not looked at yet
    cur,                \* the job at hand
    age,                \* time since the poll's time.Now()
    held,               \* time since the lock on cur
    timer,              \* of the sleep
    notify,             \* globalNotify holds a token
    saving,             \* create_cron_job is between its save and its notify
    away,               \* jobs whose adapter is not registered here
    \* the dashboard's toggle between its read and its write
    editing, copy,
    \* history
    faults, edits,      \* failures and crashes, toggles so far
    toggled,            \* jobs a toggle has written back
    unstored,           \* jobs whose delete or next_run after a fire failed
    overtaken           \* jobs that another process finished since the poll

table   == <<rows, enabled, once, due, lock, failures, born, sent>>
poller  == <<pc, batch, cur, age, held, timer>>
process == <<notify, saving, away>>
toggle  == <<editing, copy>>
history == <<faults, edits, toggled, unstored, overtaken>>
vars    == <<table, poller, process, toggle, history>>

Points  == {"poll", "next", "check", "miss", "drop", "send", "sent", "sleep"}
Holding == {"check", "miss", "send", "sent"}   \* with cur's lock
Holds(p, j) == pc[p] \in Holding /\ cur[p] = j

Init ==
    /\ rows = {} /\ enabled = {} /\ once = {} /\ born = {}
    /\ due = [j \in Jobs |-> 0] /\ lock = [j \in Jobs |-> 0]
    /\ failures = [j \in Jobs |-> 0] /\ sent = [j \in Jobs |-> 0]
    /\ pc = [p \in Pods |-> "poll"]
    /\ batch = [p \in Pods |-> {}]
    /\ cur = [p \in Pods |-> NoJob]
    /\ age = [p \in Pods |-> 0] /\ held = [p \in Pods |-> 0]
    /\ timer = [p \in Pods |-> 0]
    /\ notify = [p \in Pods |-> FALSE] /\ saving = [p \in Pods |-> FALSE]
    /\ away = [p \in Pods |-> {}]
    /\ editing = NoJob /\ copy = 0
    /\ faults = 0 /\ edits = 0 /\ toggled = {} /\ unstored = {}
    /\ overtaken = [p \in Pods |-> {}]
-----------------------------------------------------------------------------
(* processDueJobs. *)

\* A statement fails, or a process dies.
Fault == faults + edits < MaxTroubles /\ faults' = faults + 1

Goto(p, point) == pc' = [pc EXCEPT ![p] = point]

DueJobs == {j \in rows \cap enabled : due[j] = 0}

\* GetDueCronJobs, or its error.
Poll(p) ==
    /\ pc[p] = "poll"
    /\ Goto(p, "next")
    /\ \/ /\ batch' = [batch EXCEPT ![p] = DueJobs]
          /\ age' = [age EXCEPT ![p] = 0]
          /\ overtaken' = [overtaken EXCEPT ![p] = {}]
          /\ UNCHANGED faults
       \/ Fault /\ UNCHANGED <<batch, age, overtaken>>
    /\ UNCHANGED <<table, cur, held, timer, process, toggle, edits, toggled, unstored>>

\* Mutant: a locked row is taken.
LockFree_Ignored(j) == j \in rows

\* WHERE id = ? AND (locked_by IS NULL OR locked_at < five minutes ago)
LockFree(j) == j \in rows /\ lock[j] = 0

\* LockCronJob of the next job; a row that is gone or locked, or an error,
\* passes on to the job after it.
LockCronJob(p, j) ==
    /\ pc[p] = "next" /\ j \in batch[p]
    /\ batch' = [batch EXCEPT ![p] = @ \ {j}]
    /\ \/ /\ LockFree(j)
          /\ lock' = [lock EXCEPT ![j] = LockTTL]
          /\ cur' = [cur EXCEPT ![p] = j]
          /\ held' = [held EXCEPT ![p] = 0]
          /\ Goto(p, "check")
          /\ UNCHANGED faults
       \/ ~LockFree(j) /\ UNCHANGED <<lock, cur, held, pc, faults>>
       \/ Fault /\ UNCHANGED <<lock, cur, held, pc>>
    /\ UNCHANGED <<rows, enabled, once, due, failures, born, sent, age, timer, process,
                   toggle, edits, toggled, unstored, overtaken>>

\* Is the adapter registered?
Check(p) ==
    /\ pc[p] = "check"
    /\ Goto(p, IF cur[p] \in away[p] THEN "miss" ELSE "send")
    /\ UNCHANGED <<table, batch, cur, age, held, timer, process, toggle, history>>

Dead(count) == count >= MaxFailures

\* On to the next job of the batch.
Leave(p) ==
    /\ Goto(p, "next")
    /\ cur' = [cur EXCEPT ![p] = NoJob]
    /\ held' = [held EXCEPT ![p] = 0]

\* IncrementCronJobFailure clears the lock and leaves next_run alone.  A row
\* that is gone, or an error, ends the job.
IncrementFailure(p) ==
    LET j == cur[p]
        count == failures[j] + 1
    IN  /\ pc[p] = "miss"
        /\ \/ /\ j \in rows
              /\ failures' = [failures EXCEPT ![j] = IF @ = MaxFailures THEN @ ELSE count]
              /\ lock' = [lock EXCEPT ![j] = 0]
              /\ IF Dead(count)
                   THEN Goto(p, "drop") /\ held' = [held EXCEPT ![p] = 0] /\ UNCHANGED cur
                   ELSE Leave(p)
              /\ UNCHANGED faults
           \/ /\ (j \notin rows /\ UNCHANGED faults) \/ Fault
              /\ Leave(p) /\ UNCHANGED <<failures, lock>>
        /\ UNCHANGED <<rows, enabled, once, due, born, sent, batch, age, timer, process,
                       toggle, edits, toggled, unstored, overtaken>>

RemoveRow(j) == rows' = rows \ {j} /\ enabled' = enabled \ {j}

\* DeleteCronJob of a job whose adapter is missing.
Drop(p) ==
    /\ pc[p] = "drop"
    /\ \/ RemoveRow(cur[p]) /\ UNCHANGED faults
       \/ Fault /\ UNCHANGED <<rows, enabled>>
    /\ Leave(p)
    /\ UNCHANGED <<once, due, lock, failures, born, sent, batch, age, timer, process,
                   toggle, edits, toggled, unstored, overtaken>>

\* s.bus.Inbound <- InboundMessage
Send(p) ==
    /\ pc[p] = "send"
    /\ sent' = [sent EXCEPT ![cur[p]] = IF @ = 2 THEN 2 ELSE @ + 1]
    /\ Goto(p, "sent")
    /\ UNCHANGED <<rows, enabled, once, due, lock, failures, born, batch, cur, age, held,
                   timer, process, toggle, history>>

\* Mutant: next_run is left alone.
UpdateCronJobRun_LeavesNext(j, next, count) ==
    /\ lock' = [lock EXCEPT ![j] = 0]
    /\ failures' = [failures EXCEPT ![j] = 0]
    /\ UNCHANGED <<due, sent>>

\* The next occurrence starts with `count` sends.
UpdateCronJobRun(j, next, count) ==
    IF j \in rows
      THEN /\ due' = [due EXCEPT ![j] = next]
           /\ lock' = [lock EXCEPT ![j] = 0]
           /\ failures' = [failures EXCEPT ![j] = 0]
           /\ sent' = [sent EXCEPT ![j] = count]
      ELSE UNCHANGED <<due, lock, failures, sent>>

\* Computed from the poll's time.
NextRun(p) == Period - age[p]

\* A one-shot job is deleted, or, when that fails, put off for a hundred years;
\* errors of UpdateCronJobRun are ignored.
Finish(p) ==
    LET j == cur[p]
    IN  /\ pc[p] = "sent"
        /\ \/ /\ j \in once /\ RemoveRow(j)
              /\ UNCHANGED <<due, lock, failures, sent, faults, unstored>>
           \/ /\ j \in once /\ Fault
              /\ UpdateCronJobRun(j, Never, sent[j])
              /\ unstored' = unstored \cup {j}
              /\ UNCHANGED <<rows, enabled>>
           \/ /\ j \notin once /\ UpdateCronJobRun(j, NextRun(p), 0)
              /\ UNCHANGED <<rows, enabled, faults, unstored>>
           \/ /\ Fault /\ unstored' = unstored \cup {j}
              /\ UNCHANGED <<rows, enabled, due, lock, failures, sent>>
        /\ overtaken' = [q \in Pods |-> IF q = p THEN overtaken[p]
                                        ELSE overtaken[q] \cup {j}]
        /\ Leave(p)
        /\ UNCHANGED <<once, born, batch, age, timer, process, toggle, edits, toggled>>
-----------------------------------------------------------------------------
(* pollStore. *)

Sleep(p, d) == Goto(p, "sleep") /\ timer' = [timer EXCEPT ![p] = d]

Wanted == rows \cap enabled

\* GetNextDueTime, after the batch: MIN(next_run) over the enabled rows, the
\* locked ones too.  A time that has passed starts the next poll at once.
Look(p) ==
    /\ pc[p] = "next" /\ batch[p] = {}
    /\ \/ \E j \in Wanted :
            /\ \A k \in Wanted : due[j] <= due[k]
            /\ IF due[j] = 0 THEN Goto(p, "poll") /\ UNCHANGED timer
               ELSE Sleep(p, due[j])
            /\ UNCHANGED faults
       \/ Wanted = {} /\ Sleep(p, Idle) /\ UNCHANGED faults
       \/ Fault /\ Sleep(p, Idle)
    /\ age' = [age EXCEPT ![p] = 0]
    /\ UNCHANGED <<table, batch, cur, held, process, toggle, edits, toggled, unstored,
                   overtaken>>

\* Mutant: the timer's channel is not in the select.
Wake_OnlyToken(p) ==
    /\ pc[p] = "sleep" /\ notify[p]
    /\ notify' = [notify EXCEPT ![p] = FALSE]
    /\ Goto(p, "poll")
    /\ timer' = [timer EXCEPT ![p] = 0]
    /\ UNCHANGED <<table, batch, cur, age, held, saving, away, toggle, history>>

Wake(p) ==
    /\ pc[p] = "sleep"
    /\ \/ timer[p] = 0 /\ UNCHANGED notify
       \/ notify[p] /\ notify' = [notify EXCEPT ![p] = FALSE]
    /\ Goto(p, "poll")
    /\ timer' = [timer EXCEPT ![p] = 0]
    /\ UNCHANGED <<table, batch, cur, age, held, saving, away, toggle, history>>
-----------------------------------------------------------------------------
(* The tools and the dashboard. *)

\* create_cron_job saves a row with a new id ...
Create(p, j) ==
    /\ j \notin born /\ ~saving[p]
    /\ born' = born \cup {j}
    /\ rows' = rows \cup {j} /\ enabled' = enabled \cup {j}
    /\ once' \in {once, once \cup {j}}
    /\ \E d \in 1..Period : due' = [due EXCEPT ![j] = d]
    /\ saving' = [saving EXCEPT ![p] = TRUE]
    /\ UNCHANGED <<lock, failures, sent, poller, notify, away, toggle, history>>

\* Mutant: the token is not left.
NotifyJobCreated_Lost(p) ==
    /\ saving[p]
    /\ saving' = [saving EXCEPT ![p] = FALSE]
    /\ UNCHANGED <<table, poller, notify, away, toggle, history>>

\* ... and then wakes the scheduler of its process.
NotifyJobCreated(p) ==
    /\ saving[p]
    /\ saving' = [saving EXCEPT ![p] = FALSE]
    /\ notify' = [notify EXCEPT ![p] = TRUE]
    /\ UNCHANGED <<table, poller, away, toggle, history>>

\* delete_cron_job, and the dashboard's delete
Delete(j) ==
    /\ j \in rows
    /\ RemoveRow(j)
    /\ UNCHANGED <<once, due, lock, failures, born, sent, poller, process, toggle, history>>

\* handleToggleAgentCronJob reads the row ...
ToggleRead(j) ==
    /\ faults + edits < MaxTroubles /\ editing = NoJob /\ j \in rows
    /\ editing' = j /\ copy' = due[j] /\ edits' = edits + 1
    /\ UNCHANGED <<table, poller, process, faults, toggled, unstored, overtaken>>

\* ... and upserts what it read, with `enabled` as asked.
ToggleWrite(on) ==
    /\ editing # NoJob
    /\ rows' = rows \cup {editing}
    /\ enabled' = IF on THEN enabled \cup {editing} ELSE enabled \ {editing}
    /\ due' = [due EXCEPT ![editing] = copy]
    /\ lock' = [lock EXCEPT ![editing] = IF editing \in rows THEN @ ELSE 0]
    /\ failures' = [failures EXCEPT ![editing] = IF editing \in rows THEN @ ELSE 0]
    /\ editing' = NoJob /\ copy' = 0
    /\ toggled' = toggled \cup {editing}
    /\ UNCHANGED <<once, born, sent, poller, process, faults, edits, unstored, overtaken>>
-----------------------------------------------------------------------------
(* Adapters, processes, time. *)

AdapterGone(p, j) ==
    /\ j \notin away[p]
    /\ away' = [away EXCEPT ![p] = @ \cup {j}]
    /\ UNCHANGED <<table, poller, notify, saving, toggle, history>>

AdapterBack(p, j) ==
    /\ j \in away[p]
    /\ away' = [away EXCEPT ![p] = @ \ {j}]
    /\ UNCHANGED <<table, poller, notify, saving, toggle, history>>

\* A process dies and starts again.
Crash(p) ==
    /\ Fault
    /\ unstored' = IF pc[p] = "sent" THEN unstored \cup {cur[p]} ELSE unstored
    /\ Goto(p, "poll")
    /\ batch' = [batch EXCEPT ![p] = {}]
    /\ cur' = [cur EXCEPT ![p] = NoJob]
    /\ age' = [age EXCEPT ![p] = 0] /\ held' = [held EXCEPT ![p] = 0]
    /\ timer' = [timer EXCEPT ![p] = 0]
    /\ notify' = [notify EXCEPT ![p] = FALSE]
    /\ saving' = [saving EXCEPT ![p] = FALSE]
    /\ UNCHANGED <<table, away, toggle, edits, toggled, overtaken>>

Less(n) == IF n > 0 THEN n - 1 ELSE 0
Later(d) == IF d = Never THEN Never ELSE Less(d)

Tick ==
    /\ \A p \in Pods : pc[p] \in Holding => held[p] < MaxHold
    /\ due' = [j \in Jobs |-> Later(due[j])]
    /\ lock' = [j \in Jobs |-> Less(lock[j])]
    /\ copy' = Later(copy)
    /\ age' = [p \in Pods |-> IF pc[p] \in {"poll", "sleep"} \/ age[p] = Period
                                THEN age[p] ELSE age[p] + 1]
    /\ held' = [p \in Pods |-> IF pc[p] \in Holding THEN held[p] + 1 ELSE held[p]]
    /\ timer' = [p \in Pods |-> Less(timer[p])]
    /\ UNCHANGED <<rows, enabled, once, failures, born, sent, pc, batch, cur, notify,
                   saving, away, editing, history>>
-----------------------------------------------------------------------------
PollerStep(p) ==
    \/ Poll(p) \/ Check(p) \/ IncrementFailure(p) \/ Drop(p) \/ Send(p) \/ Finish(p)
    \/ Look(p) \/ Wake(p)
    \/ \E j \in Jobs : LockCronJob(p, j)

Next ==
    \/ \E p \in Pods :
         \/ PollerStep(p) \/ NotifyJobCreated(p) \/ Crash(p)
         \/ \E j \in Jobs : Create(p, j) \/ AdapterGone(p, j) \/ AdapterBack(p, j)
    \/ \E j \in Jobs : Delete(j) \/ ToggleRead(j)
    \/ \E on \in BOOLEAN : ToggleWrite(on)
    \/ Tick

Spec == Init /\ [][Next]_vars

\* The poller's goroutine is scheduled, the tool call that saved goes on, and
\* time passes.
FairSpec ==
    /\ Spec /\ WF_vars(Tick)
    /\ \A p \in Pods : WF_vars(PollerStep(p)) /\ WF_vars(NotifyJobCreated(p))
-----------------------------------------------------------------------------
TableOK ==
    /\ rows \in SUBSET born /\ enabled \in SUBSET rows /\ born \in SUBSET Jobs
    /\ once \in SUBSET born
    /\ due \in [Jobs -> 0..Never]
    /\ lock \in [Jobs -> 0..LockTTL]
    /\ failures \in [Jobs -> 0..MaxFailures]
    /\ sent \in [Jobs -> 0..2]

PollerOK ==
    /\ pc \in [Pods -> Points]
    /\ batch \in [Pods -> SUBSET born]
    /\ cur \in [Pods -> born \cup {NoJob}]
    /\ age \in [Pods -> 0..Period]
    /\ held \in [Pods -> 0..MaxHold]
    /\ timer \in [Pods -> 0..Never]
    /\ \A p \in Pods : pc[p] \in Holding \cup {"drop"} => cur[p] # NoJob

ProcessOK ==
    /\ notify \in [Pods -> BOOLEAN] /\ saving \in [Pods -> BOOLEAN]
    /\ away \in [Pods -> SUBSET Jobs]

ToggleOK == editing \in born \cup {NoJob} /\ copy \in 0..Never

HistoryOK ==
    /\ faults \in Nat /\ edits \in Nat
    /\ toggled \in SUBSET born /\ unstored \in SUBSET born
    /\ overtaken \in [Pods -> SUBSET born]

\* Types of all variables.
TypeOK == TableOK /\ PollerOK /\ ProcessOK /\ ToggleOK /\ HistoryOK

\* Two processes never work on one job at a time, whatever fails or crashes:
\* the lock outlives the longest hold.  (A toggle may write a deleted row back
\* without its lock.)
LockExcludes ==
    \A p, q \in Pods : \A j \in Jobs \ toggled : Holds(p, j) /\ Holds(q, j) => p = q

\* The send of process p is not the first of an occurrence that is due.
Again(p, j) == /\ pc[p] = "send" /\ pc'[p] = "sent" /\ cur[p] = j
               /\ ~(sent[j] = 0 /\ due[j] = 0)

\* An occurrence is sent once, and when it is due, by whichever process: "it
\* fires once and stops" (create_cron_job on type once), as the delete after
\* the fire holds against every other process.  It may be sent again when the
\* statement after the send failed, when a toggle wrote the row back, and, for
\* a recurring job, by a process whose list of due jobs was overtaken by the
\* fire of another one: the lock does not look at next_run.
FiresOnce ==
    [][\A p \in Pods, j \in Jobs \ (toggled \cup unstored) :
         (j \in once \/ j \notin overtaken[p]) => ~Again(p, j)]_vars

\* A row that is about to be deleted for its missing adapter has missed
\* MaxFailures ticks in a row by the row's own count, unless another process
\* fired the job after the count freed the row.
DropsOnlyDead ==
    \A p \in Pods : pc[p] = "drop" /\ cur[p] \in rows \ (toggled \cup overtaken[p])
                     => failures[cur[p]] = MaxFailures

\* pollStore sleeps "until the next job is due": while no statement has failed,
\* every enabled job has a process that is awake, is about to be woken, or
\* wakes up no later than the job is due.  (A toggle wakes no one.)
NotOverslept ==
    faults = 0 =>
        \A j \in Wanted \ toggled :
            \E p \in Pods : pc[p] # "sleep" \/ notify[p] \/ saving[p] \/ timer[p] <= due[j]

\* What a job may count on: it is not dropped early and not overslept.
JobsKept == DropsOnlyDead /\ NotOverslept

\* A due job is sent, deleted or disabled, however its row is locked, missed
\* or left behind by a process that died.
DueFires ==
    \A j \in Jobs :
        (j \in Wanted /\ due[j] = 0) ~> (sent[j] > 0 \/ j \notin Wanted)
=============================================================================
