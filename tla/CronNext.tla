------------------------------ MODULE CronNext ------------------------------
(***************************************************************************)
(* When a cron job with a 5-field expression falls due: cronMatch,         *)
(* fieldMatch and NextOccurrenceIn (cron/scheduler.go), called when the    *)
(* job is created (agent/tools/cron.go) and after every fire.              *)
(*                                                                         *)
(* The grain of time is the hour (schedules whose minute field is 0), a    *)
(* day has 24 of them and, to keep the calendar short, a month has         *)
(* MonthDays days.  Time zones shift the fields by a constant and are left *)
(* out.                                                                    *)
(***************************************************************************)
EXTENDS Integers

CONSTANTS
    Schedules,      \* expressions: [day, hour, weekday], each a field
    MonthDays,
    Window,         \* how far the scan looks ahead: 48 hours
    Fallback,       \* used when it finds nothing: one hour
    MaxDelay,       \* how late a poll may be
    Horizon         \* bound on time, for TLC

Star       == [kind |-> "any", n |-> 0]          \* *
Every(n)  == [kind |-> "every", n |-> n]        \* */n
Exact(n)  == [kind |-> "exact", n |-> n]        \* n
Other     == [kind |-> "other", n |-> 0]        \* what Atoi refuses: 1-5, 1,3

Field == [kind : {"any", "every", "exact", "other"}, n : Nat]

ASSUME ScheduleAssumption ==
    /\ Schedules \subseteq [day : Field, hour : Field, weekday : Field]
    /\ MonthDays \in Nat \ {0} /\ Window \in Nat \ {0}
    /\ Fallback \in Nat \ {0} /\ MaxDelay \in Nat /\ Horizon \in Nat
    /\ Fallback <= Window

VARIABLES
    fields,     \* the job's expression
    now,        \* the poll that last computed its next run
    nextRun     \* cron_jobs.next_run

scheduleVars == <<fields, now, nextRun>>
-----------------------------------------------------------------------------
FieldMatch(f, value) ==
    \/ f.kind = "any"
    \/ f.kind = "every" /\ f.n > 0 /\ value % f.n = 0
    \/ f.kind = "exact" /\ value = f.n

Hour(t)    == t % 24
Day(t)     == ((t \div 24) % MonthDays) + 1
Weekday(t) == (t \div 24) % 7

CronMatch(s, t) ==
    /\ FieldMatch(s.hour, Hour(t))
    /\ FieldMatch(s.day, Day(t))
    /\ FieldMatch(s.weekday, Weekday(t))

Matches(s, after) == {t \in (after + 1)..(after + Window) : CronMatch(s, t)}

\* Mutant: the scan starts an hour late.
NextOccurrenceIn_Late(s, after) ==
    LET found == Matches(s, after) \ {after + 1}
    IN  IF found = {} THEN after + Fallback
        ELSE CHOOSE t \in found : \A u \in found : t <= u

\* The first match after the given time, if the scan meets one.
NextOccurrenceIn(s, after) ==
    LET found == Matches(s, after)
    IN  IF found = {} THEN after + Fallback
        ELSE CHOOSE t \in found : \A u \in found : t <= u
-----------------------------------------------------------------------------
\* create_cron_job
ScheduleInit ==
    /\ fields \in Schedules
    /\ now \in 0..(24 * MonthDays)
    /\ nextRun = NextOccurrenceIn(fields, now)

\* processDueJobs fires the job and moves next_run on from the poll's time.
Fire ==
    /\ \E delay \in 0..MaxDelay : now' = nextRun + delay
    /\ now' <= Horizon
    /\ nextRun' = NextOccurrenceIn(fields, now')
    /\ UNCHANGED fields

ScheduleNext == Fire

ScheduleSpec == ScheduleInit /\ [][ScheduleNext]_scheduleVars
-----------------------------------------------------------------------------
\* Types; the next run lies after the poll that computed it.
ScheduleTypeOK ==
    /\ fields \in Schedules
    /\ now \in Nat
    /\ nextRun \in Nat /\ nextRun > now

\* NextOccurrenceIn "finds the next instant matching a 5-field cron
\* expression": a job is due only when its expression says so, as far as the
\* scan's window holds a match, and no instant that matches is passed over
\* between a poll and the next run, whether the scan finds one or falls back.
FirstMatch ==
    /\ Matches(fields, now) # {} => CronMatch(fields, nextRun)
    /\ \A t \in (now + 1)..(nextRun - 1) : ~CronMatch(fields, t)
=============================================================================
