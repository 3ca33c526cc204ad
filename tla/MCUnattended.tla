---------------------------- MODULE MCUnattended ----------------------------
(***************************************************************************)
(* TLC instances of what goes on with nobody there: CronScheduler in one   *)
(* process, and Goals.  A behaviour is of one of them, which scene says;   *)
(* the others' variables rest in an initial state.                         *)
(*                                                                         *)
(* poll: one job; the unit of time is a minute, the lock and the idle      *)
(* sleep are 2 of them.                                                    *)
(* solo: the goals of one chat, three messages or commands, turns of one   *)
(* round, room for one message on the bus.                                 *)
(* duo: the goals of two chats of one agent, one of them also served by    *)
(* the dashboard, two messages or commands.                                *)
(***************************************************************************)
EXTENDS Goals

CONSTANTS p1, j1, NoJob, Period, LockTTL, Idle, MaxHold, MaxFailures, MaxTroubles, c1, c2

VARIABLES scene,
          rows, enabled, once, due, lock, failures, born, fired, at, batch, cur, age, held, timer,
          notify, saving, away, editing, copy, faults, edits, toggled, unstored, overtaken

Poller == INSTANCE CronScheduler WITH pc <- at, sent <- fired, Pods <- {p1}, Jobs <- {j1}

poller == <<rows, enabled, once, due, lock, failures, born, fired, at, batch, cur, age, held,
            timer, notify, saving, away, editing, copy, faults, edits, toggled, unstored,
            overtaken>>

LiveInit == scene \in {"poll", "solo", "duo"} /\ Poller!Init /\ Init

\* A user of c1 writes, and on the bus; two messages or commands of anybody.
Solo == sent' > sent => bus' # bus /\ bus'[Len(bus')].chat = c1
Duo  == sent' <= 2

LiveNext ==
    \/ scene = "poll" /\ Poller!Next /\ UNCHANGED <<scene, vars>>
    \/ scene = "solo" /\ Next /\ Solo /\ UNCHANGED <<scene, poller>>
    \/ scene = "duo" /\ Next /\ Duo /\ UNCHANGED <<scene, poller>>

\* The fairness of the poller, for its scene.  Fairness is that of Goals.
PollFair ==
    /\ WF_poller(scene = "poll" /\ Poller!Tick)
    /\ WF_poller(scene = "poll" /\ Poller!PollerStep(p1))
    /\ WF_poller(scene = "poll" /\ Poller!NotifyJobCreated(p1))

LiveSpec ==
    /\ LiveInit /\ [][LiveNext]_<<scene, poller, vars>>
    /\ PollFair /\ Fairness

DueFires == Poller!DueFires
=============================================================================
