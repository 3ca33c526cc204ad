------------------------------- MODULE MCTurn -------------------------------
(***************************************************************************)
(* TLC instances of Steering and of ToolRound for the turns of one chat,   *)
(* one after the other.  A behaviour is of one of them, which scene says;  *)
(* the other's variables rest in the initial state.                        *)
(*                                                                         *)
(* steer: four messages, one ambient, that arrive in every step of turns.  *)
(* tools: rounds of up to three of four calls, two at a time.              *)
(***************************************************************************)
EXTENDS Steering, TLC

CONSTANTS m1, m2, m3, m4, t1, c1, x1, x2, x3, x4, NoChat, MaxRound, MaxParallel

VARIABLES scene,
          authMode, pendingCalls, approvedPending, bypassPaths, bound, chatPc, round, blocked,
          running, unused, runs, answer, parked, consented, denied, shed, chatsOverlap

Tools == INSTANCE ToolRound WITH
    pc <- chatPc, overlapped <- chatsOverlap,
    Chats <- {c1}, Calls <- {x1, x2, x3, x4},
    Class <- x1 :> "write" @@ x2 :> "exec" @@ x3 :> "hard" @@ x4 :> "free",
    Sandboxed <- FALSE, PlanTurns <- FALSE

tools == <<authMode, pendingCalls, approvedPending, bypassPaths, bound, chatPc, round, blocked,
           running, unused, runs, answer, parked, consented, denied, shed, chatsOverlap>>

TurnInit == Init /\ Tools!Init /\ scene \in {"steer", "tools"}

TurnNext ==
    \/ scene = "steer" /\ Next /\ UNCHANGED <<scene, tools>>
    \/ scene = "tools" /\ Tools!Next /\ UNCHANGED <<scene, vars>>

\* Neither fairness asks anything of a component at rest.
TurnSpec ==
    /\ TurnInit /\ [][TurnNext]_<<scene, vars, tools>>
    /\ Fairness /\ WF_tools(Tools!TurnStep(c1))

ApprovedRuns  == Tools!ApprovedRuns
ResultsPaired == Tools!ResultsPaired
=============================================================================
