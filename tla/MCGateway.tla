----------------------------- MODULE MCGateway -----------------------------
(***************************************************************************)
(* TLC instances of UserSpaces, of Channels and of Runtime in one run.  A  *)
(* behaviour is of one of them, which scene says; the others' variables    *)
(* rest in an initial state, where their properties hold.                  *)
(*                                                                         *)
(* spaces: an agent, its owner and another user.                           *)
(* bots: one user with two agents and another one with one agent, two      *)
(* bots, a direct message, a mention in a group of both bots.              *)
(* apps: three operations on the app of a project, at most two at a time,  *)
(* which begin in a fixed order as they are interchangeable.               *)
(* upset: two of them, a context or a container that ends, a restart.      *)
(***************************************************************************)
EXTENDS UserSpaces, Runtime, Channels, TLC

CONSTANTS u1, u2, ag, c1, c2, a1, a2,
          g1, g2, g3, b1, b2, s1, s2, s3, dm, ask, o1, o2, o3

AgentOwner == ag :> u1
KindsOf    == c1 :> {"route"} @@ c2 :> {"direct", "web"}

UserOfSlot   == s1 :> u1 @@ s2 :> u1 @@ s3 :> u2
AgentOfSlot  == s1 :> g1 @@ s2 :> g2 @@ s3 :> g3
AgentsOfUser == u1 :> {g1, g2} @@ u2 :> {g3}
LeadOfUser   == u1 :> g2 @@ u2 :> NoAgent

MessageInfo ==
    dm  :> [group |-> FALSE, to |-> {b1}, at |-> {}, isBot |-> FALSE, key |-> "dm"] @@
    ask :> [group |-> TRUE, to |-> {b1, b2}, at |-> {b1}, isBot |-> FALSE, key |-> "ask"]

\* An empty table, or the first bot connected.
NoRows == [s \in Slots |-> NoBot]
Tables == {NoRows, [NoRows EXCEPT ![s1] = b1]}

VARIABLE scene

TwoAtATime ==
    /\ Cardinality(Running) <= 2
    /\ at[o2] # "new" => at[o1] # "new"
    /\ at[o3] # "new" => at[o2] # "new"

NoBots == sort = "telegram" /\ table = NoRows

GatewayInit ==
    /\ Init /\ ChannelsInit /\ RuntimeInit
    /\ \/ scene = "spaces" /\ NoBots /\ ~scaffolded
       \/ scene = "bots" /\ exists = Agents /\ ~scaffolded
       \/ scene \in {"apps", "upset"} /\ NoBots /\ exists = Agents

GatewayNext ==
    \/ scene = "spaces" /\ Next /\ UNCHANGED <<scene, channelsVars, runtimeVars>>
    \/ scene = "bots" /\ ChannelsNext /\ UNCHANGED <<scene, vars, runtimeVars>>
    \/ /\ scene = "apps" /\ RuntimeNext /\ troubles' = 0 /\ restarts' = 0 /\ TwoAtATime'
       /\ UNCHANGED <<scene, vars, channelsVars>>
    \/ /\ scene = "upset" /\ RuntimeNext /\ at'[o3] = "new"
       /\ UNCHANGED <<scene, vars, channelsVars>>

GatewaySpec == GatewayInit /\ [][GatewayNext]_<<scene, vars, channelsVars, runtimeVars>>
=============================================================================
