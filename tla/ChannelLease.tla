---------------------------- MODULE ChannelLease ----------------------------
(***************************************************************************)
(* The lease that lets one process at a time poll a bot account:           *)
(* runWithLease and renewUntilLost (channels/lease.go), the row            *)
(* channel_leases (store/database.go), and the goroutines that             *)
(* channels/manager.go starts for one (channel, account).                  *)
(*                                                                         *)
(* Time is discrete.  Expiry is kept relative: `left` is expires_at minus  *)
(* the true time, Offset[p] is how far the clock of process p is ahead, so *)
(* that p sees the row as expired when left < Offset[p].  A timer may fire *)
(* up to MaxLate late (a busy process, a slow query).  At most MaxMisses   *)
(* renewals of an adapter fail in a row.                                   *)
(***************************************************************************)
EXTENDS Integers, FiniteSets

CONSTANTS
    Pods,           \* processes, each with a holderID of its own
    Loops,          \* goroutines in runWithLease
    PodOf,          \* the process of each loop
    HotLoops,       \* loops that registerAndStart launches later
    Offset,         \* clock offset of each process
    TTL, RenewInterval, RetryInterval,
    MaxLate, MaxMisses,
    Skew,           \* bounds how far two clocks are apart
    NoPod

ASSUME LeaseAssumption ==
    /\ PodOf \in [Loops -> Pods] /\ HotLoops \subseteq Loops
    /\ Offset \in [Pods -> 0..Skew]
    /\ TTL \in Nat /\ RenewInterval \in Nat \ {0} /\ RetryInterval \in Nat \ {0}
    /\ MaxLate \in 0..(RenewInterval - 1) /\ MaxMisses \in Nat /\ Skew \in Nat
    /\ NoPod \notin Pods

VARIABLES
    holder,     \* channel_leases.holder_id, NoPod when there is no row
    left,       \* time until expires_at
    pc,         \* where each loop is
    timer,      \* time until its sleep or its renewal ticker is due
    misses,     \* renewals that failed since the last good one
    polling,    \* its adapter is in Start
    down,       \* processes whose root context is cancelled
    dead        \* processes that crashed

row  == <<holder, left>>
loop == <<pc, timer, misses, polling>>
env  == <<down, dead>>
leaseVars == <<row, loop, env>>

Floor  == -1
Points == {"off", "try", "sleep", "hold", "lost", "closing", "quit"}

LeaseInit ==
    /\ holder = NoPod /\ left = Floor
    /\ pc = [g \in Loops |-> IF g \in HotLoops THEN "off" ELSE "try"]
    /\ timer = [g \in Loops |-> 0]
    /\ misses = [g \in Loops |-> 0]
    /\ polling = [g \in Loops |-> FALSE]
    /\ down = {} /\ dead = {}

Up(g)      == PodOf[g] \notin down
Serving(g) == pc[g] = "hold" /\ polling[g] /\ Up(g)
-----------------------------------------------------------------------------
(* The row. *)

\* Mutant: an expired row is not taken over.
MayTake_NoExpiry(p) == holder \in {NoPod, p}

MayTake(p) == holder \in {NoPod, p} \/ left < Offset[p]

WriteLease(p) == holder' = p /\ left' = TTL + Offset[p]

\* Mutant: the row is deleted whoever holds it.
ReleaseChannelLease_Any(p) == holder' = NoPod /\ UNCHANGED left

ReleaseChannelLease(p) ==
    holder' = (IF holder = p THEN NoPod ELSE holder) /\ UNCHANGED left
-----------------------------------------------------------------------------
(* runWithLease. *)

Goto(g, point) == pc' = [pc EXCEPT ![g] = point]

\* sleepOrDone: a cancelled context ends the loop.
SleepOrDone(g) ==
    /\ Goto(g, IF Up(g) THEN "sleep" ELSE "quit")
    /\ timer' = [timer EXCEPT ![g] = RetryInterval]

RegisterAndStart(g) ==
    /\ pc[g] = "off" /\ Up(g)
    /\ Goto(g, "try")
    /\ UNCHANGED <<row, timer, misses, polling, env>>

Acquire(g) ==
    /\ pc[g] = "try" /\ Up(g) /\ MayTake(PodOf[g])
    /\ WriteLease(PodOf[g])
    /\ Goto(g, "hold")
    /\ polling' = [polling EXCEPT ![g] = TRUE]
    /\ timer' = [timer EXCEPT ![g] = RenewInterval]
    /\ misses' = [misses EXCEPT ![g] = 0]
    /\ UNCHANGED env

\* Another process has the row, or the database does not answer.
AcquireFails(g) ==
    /\ pc[g] = "try" /\ Up(g)
    /\ SleepOrDone(g)
    /\ UNCHANGED <<row, misses, polling, env>>

Wake(g) ==
    \/ /\ pc[g] = "sleep" /\ timer[g] <= 0 /\ Up(g)
       /\ Goto(g, "try")
       /\ UNCHANGED <<row, timer, misses, polling, env>>
    \/ /\ pc[g] \in {"sleep", "try"} /\ ~Up(g)
       /\ Goto(g, "quit")
       /\ UNCHANGED <<row, timer, misses, polling, env>>

\* A tick of the renewal goroutine, whose context is the adapter's.
RenewDue(g) == pc[g] = "hold" /\ Up(g) /\ timer[g] <= 0

\* Mutant: a lost lease is treated like an error.
Renew(g) ==
    /\ RenewDue(g)
    /\ IF holder = PodOf[g]
         THEN /\ WriteLease(PodOf[g])
              /\ timer' = [timer EXCEPT ![g] = @ + RenewInterval]
              /\ misses' = [misses EXCEPT ![g] = 0]
              /\ UNCHANGED <<pc, polling>>
         ELSE Goto(g, "lost") /\ UNCHANGED <<row, timer, misses, polling>>
    /\ UNCHANGED env

RenewFails(g) ==
    /\ RenewDue(g) /\ misses[g] < MaxMisses
    /\ timer' = [timer EXCEPT ![g] = @ + RenewInterval]
    /\ misses' = [misses EXCEPT ![g] = @ + 1]
    /\ UNCHANGED <<row, pc, polling, env>>

\* Start returns: on its own, or because its context ended.
AdapterExits(g) ==
    /\ pc[g] = "hold" /\ polling[g]
    /\ polling' = [polling EXCEPT ![g] = FALSE]
    /\ UNCHANGED <<row, pc, timer, misses, env>>

\* case <-done
OnDone(g) ==
    /\ pc[g] = "hold" /\ ~polling[g]
    /\ ReleaseChannelLease(PodOf[g])
    /\ SleepOrDone(g)
    /\ UNCHANGED <<misses, polling, env>>

\* case <-ctx.Done() and case <-renewExit are both ready once the root
\* context ends, and select takes either.
OnShutdown(g) ==
    /\ pc[g] = "hold" /\ ~Up(g)
    /\ Goto(g, "closing") \/ Goto(g, "lost")
    /\ UNCHANGED <<row, timer, misses, polling, env>>

\* childCancel and <-done of the two.
Closed(g) ==
    /\ pc[g] = "closing"
    /\ polling' = [polling EXCEPT ![g] = FALSE]
    /\ ReleaseChannelLease(PodOf[g])
    /\ Goto(g, "quit")
    /\ UNCHANGED <<timer, misses, env>>

Stopped(g) ==
    /\ pc[g] = "lost"
    /\ polling' = [polling EXCEPT ![g] = FALSE]
    /\ SleepOrDone(g)
    /\ UNCHANGED <<row, misses, env>>
-----------------------------------------------------------------------------
(* Processes and time. *)

Shutdown(p) ==
    /\ p \in Pods \ down
    /\ down' = down \cup {p}
    /\ UNCHANGED <<row, loop, dead>>

Crash(p) ==
    /\ p \in Pods \ dead
    /\ dead' = dead \cup {p} /\ down' = down \cup {p}
    /\ pc' = [g \in Loops |-> IF PodOf[g] = p THEN "quit" ELSE pc[g]]
    /\ polling' = [g \in Loops |-> polling[g] /\ PodOf[g] # p]
    /\ UNCHANGED <<row, timer, misses>>

\* Renewals are at most MaxLate late; how long a sleep overruns, or an
\* adapter takes to stop, is not bounded.
Tick ==
    /\ \A g \in Loops : pc[g] = "hold" /\ Up(g) => timer[g] > -MaxLate
    /\ left' = IF left > Floor THEN left - 1 ELSE left
    /\ timer' = [g \in Loops |-> IF pc[g] = "hold" \/ timer[g] > 0
                                   THEN IF timer[g] > -MaxLate THEN timer[g] - 1
                                        ELSE timer[g]
                                   ELSE timer[g]]
    /\ UNCHANGED <<holder, pc, misses, polling, env>>
-----------------------------------------------------------------------------
\* The goroutine of runWithLease; the renewal goroutine is another one.
LoopStep(g) ==
    \/ Wake(g) \/ OnDone(g) \/ OnShutdown(g) \/ Closed(g) \/ Stopped(g)

LeaseNext ==
    \/ \E g \in Loops :
         \/ LoopStep(g) \/ Renew(g)
         \/ RegisterAndStart(g) \/ Acquire(g) \/ AcquireFails(g)
         \/ RenewFails(g) \/ AdapterExits(g)
    \/ \E p \in Pods : Shutdown(p) \/ Crash(p)
    \/ Tick

LeaseSpec == LeaseInit /\ [][LeaseNext]_leaseVars

\* Goroutines are scheduled and time passes; the database answers an Acquire
\* now and then.
LeaseFairness ==
    /\ WF_leaseVars(Tick)
    /\ \A g \in Loops :
         WF_leaseVars(LoopStep(g)) /\ WF_leaseVars(Renew(g)) /\ SF_leaseVars(Acquire(g))

LeaseFairSpec == LeaseSpec /\ LeaseFairness
-----------------------------------------------------------------------------
\* Types of all variables.
LeaseTypeOK ==
    /\ holder \in Pods \cup {NoPod}
    /\ left \in Floor..(TTL + Skew)
    /\ pc \in [Loops -> Points]
    /\ timer \in [Loops -> Int]
    /\ misses \in [Loops -> 0..MaxMisses]
    /\ polling \in [Loops -> BOOLEAN]
    /\ down \in SUBSET Pods /\ dead \in SUBSET down

\* The adapter of g has the account: it serves, no other loop of its process
\* has been started (the lease does not tell loops of one process apart), and
\* the gap that its failed renewals have opened, plus the delay of its ticker
\* and the skew of the clocks, still fits into the TTL.
Entitled(g) ==
    /\ Serving(g)
    /\ \A h \in Loops \ {g} : PodOf[h] = PodOf[g] => pc[h] = "off"
    /\ RenewInterval * (misses[g] + 1) + MaxLate + Skew <= TTL

\* manager.go:86: only one replica's Start runs at a time.  Two adapters serve
\* the account at once only when one of them is not entitled to it: its
\* renewals failed too often in a row, or its process started it twice.
OnePoller == \A g, h \in Loops : Entitled(g) /\ Entitled(h) => g = h

\* An adapter that is entitled to the account holds a lease that no other
\* process, by its own clock, sees as expired.
LeaseCovers ==
    \A g \in Loops : Entitled(g) =>
        /\ holder = PodOf[g]
        /\ \A p \in Pods : left >= Offset[p]

\* What a lease is for: one adapter at a time, and the row to show for it.
LeaseExcludes == OnePoller /\ LeaseCovers

\* A loop that serves without its process having the row does not go on like
\* that, and whatever crashes or shuts down, as long as one loop is up the
\* account has an adapter: again and again both hold at once.
Settled ==
    /\ \A g \in Loops : Serving(g) => holder = PodOf[g]
    /\ \/ \E g \in Loops : Serving(g)
       \/ \A g \in Loops : ~Up(g) \/ pc[g] = "off"

LeaseSettles == []<>Settled
=============================================================================
