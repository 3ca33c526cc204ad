-------------------------- MODULE MCCronScheduler --------------------------
(***************************************************************************)
(* TLC instances of CronScheduler and of CronNext in one run.  A behaviour *)
(* is of one of them, which scene says; the other's variables rest in an   *)
(* initial state, where its properties hold.                               *)
(*                                                                         *)
(* pods: two processes, a job of either type.  The unit of time is a       *)
(* minute; the lock and the idle sleep are 2 of them.                      *)
(* next: five kinds of expressions, months of 14 days, a horizon of two of *)
(* them.                                                                   *)
(***************************************************************************)
EXTENDS CronScheduler, CronNext, TLC

CONSTANTS p1, p2, j1, j2

TwoPods == {p1, p2}
OneJob  == {j1}

Daily   == [day |-> Star, hour |-> Exact(9), weekday |-> Star]
Shift   == [day |-> Star, hour |-> Every(5), weekday |-> Star]
OddDays == [day |-> Every(3), hour |-> Exact(0), weekday |-> Star]
Monday  == [day |-> Star, hour |-> Exact(9), weekday |-> Exact(1)]
Workday == [day |-> Star, hour |-> Exact(9), weekday |-> Other]

AllKinds == {Daily, Shift, OddDays, Monday, Workday}

VARIABLE scene

CronInit ==
    /\ Init /\ ScheduleInit
    /\ \/ scene = "pods" /\ fields = Daily /\ now = 0
       \/ scene = "next"

CronStep ==
    \/ scene = "pods" /\ Next /\ UNCHANGED <<scene, scheduleVars>>
    \/ scene = "next" /\ ScheduleNext /\ UNCHANGED <<scene, vars>>
    \/ scene = "next" /\ nextRun > Horizon /\ UNCHANGED <<scene, vars, scheduleVars>>

CronSpec == CronInit /\ [][CronStep]_<<scene, vars, scheduleVars>>

\* The processes are interchangeable.
Symmetry == Permutations(TwoPods)
=============================================================================
