---------------------------- MODULE MCQueueLease ----------------------------
(***************************************************************************)
(* TLC instances of TaskQueue and of ChannelLease in one run.  A behaviour *)
(* is of one of them, which scene says; the other's variables rest in an   *)
(* initial state.                                                          *)
(*                                                                         *)
(* queue: one chat that can fill its channel, and two queues, which the    *)
(* idle ticker can make it use at the same time.                           *)
(* lease: the unit of time is 5 seconds: a TTL of 30 s is 6, renewals and  *)
(* retries every 10 s are 2.                                               *)
(***************************************************************************)
EXTENDS TaskQueue, ChannelLease, TLC

CONSTANTS c1, q1, q2, p1, p2, g1, g2

OneChat     == {c1}
TwoQueueIds == {q1, q2}

TwoPods  == {p1, p2}
TwoLoops == {g1, g2}
LastHot  == {g2}
OneEach  == (g1 :> p1) @@ (g2 :> p2)
LastFast == (p1 :> 0) @@ (p2 :> 1)

VARIABLE scene

BothInit == Init /\ LeaseInit /\ scene \in {"queue", "lease"}

BothNext ==
    \/ scene = "queue" /\ Next /\ UNCHANGED <<scene, leaseVars>>
    \/ scene = "lease" /\ LeaseNext /\ UNCHANGED <<scene, vars>>

\* The fairness of the lease, in its scene; that of the queue asks for nothing
\* there, as no task is ever submitted.
LeaseFair ==
    /\ WF_leaseVars(scene = "lease" /\ Tick)
    /\ \A g \in Loops :
         /\ WF_leaseVars(scene = "lease" /\ LoopStep(g))
         /\ WF_leaseVars(scene = "lease" /\ Renew(g))
         /\ SF_leaseVars(scene = "lease" /\ Acquire(g))

BothSpec ==
    /\ BothInit /\ [][BothNext]_<<scene, vars, leaseVars>>
    /\ Fairness /\ LeaseFair

AccountServed == scene = "lease" => LeaseSettles
=============================================================================
