----------------------------- MODULE MCOverlap -----------------------------
(***************************************************************************)
(* TLC instances of ToolRound and of Steering for turns that overlap, and  *)
(* of Plugin, which overlapping turns call.  A behaviour is of one of them,*)
(* which scene says; the others' variables rest in an initial state.       *)
(*                                                                         *)
(* tools: two chats of one agent.                                          *)
(* steer: two turns of one session, over all four paths of a turn.         *)
(* plugin: the hook of a turn, pipes that hold one message, two calls or   *)
(* notifications, one message from the plugin, room for one on the bus.    *)
(***************************************************************************)
EXTENDS ToolRound, Plugin, TLC

CONSTANTS c1, c2, x1, x2, x3, m1, m2, m3, t1, t2, MaxIter, h1

CallClass == x1 :> "write" @@ x2 :> "exec" @@ x3 :> "hard"

VARIABLES scene,
          fresh, refused, queue, steerBuf, turnDepth, hist, nextCall, turnPc, kind, own, iter,
          call, held, accepted, lost, turnsOverlap

Steer == INSTANCE Steering WITH
    pc <- turnPc, overlapped <- turnsOverlap,
    Messages <- {m1, m2, m3}, WebMsgs <- {m1}, AmbientMsgs <- {},
    Turns <- {t1, t2}, Kinds <- {"loop", "plan", "hook", "slash"}, QueueOverlap <- TRUE

steer == <<fresh, refused, queue, steerBuf, turnDepth, hist, nextCall, turnPc, kind, own, iter,
           call, held, accepted, lost, turnsOverlap>>

OverlapInit ==
    /\ Init /\ Steer!Init /\ PluginInit
    /\ \/ scene \in {"steer", "tools"} /\ ~attentive /\ made = 0
       \/ scene = "plugin"

OverlapNext ==
    \/ scene = "tools" /\ Next /\ UNCHANGED <<scene, steer, pluginVars>>
    \/ scene = "steer" /\ Steer!Next /\ UNCHANGED <<scene, vars, pluginVars>>
    \/ scene = "plugin" /\ PluginNext /\ UNCHANGED <<scene, vars, steer>>

OverlapSpec == OverlapInit /\ [][OverlapNext]_<<scene, vars, steer, pluginVars>>

\* However the turns overlap, no message is lost or doubled but by the hook path,
\* and one that is buffered has a turn to take it.
NoneLost == Steer!NoneLost /\ []Steer!SteerHasTurn

\* Chats are interchangeable, messages that come by the same way, and slots.
Symmetry == Permutations({c1, c2}) \cup Permutations({m2, m3}) \cup Permutations({t1, t2})
=============================================================================
