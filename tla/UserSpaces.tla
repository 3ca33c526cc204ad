----------------------------- MODULE UserSpaces -----------------------------
(***************************************************************************)
(* The cache of user spaces: a user's configuration, agents and heartbeats *)
(* as built from the database (gateway/userspace.go, reload.go), the calls *)
(* that use it (gateway/routing.go, the task handler of gateway.go,        *)
(* resolveAgent of setup/handlers.go) and the dashboard's handlers, which  *)
(* write rows and then drop the spaces built from them                     *)
(* (setup/handlers_agents.go, handlers_scoped.go).                         *)
(*                                                                         *)
(* An item is what rows are written about: a user, an agent, the system.   *)
(* ver counts the writes to it and a space remembers which it was built    *)
(* from.  An agent of another user is attached to a space on first use.    *)
(***************************************************************************)
EXTENDS Integers, FiniteSets

CONSTANTS
    Users, Agents, System,
    OwnerOf,    \* agent -> user whose ListAgents has it
    Callers,    \* messages and requests at work at once
    Kinds,      \* caller -> what it may be: route, direct, web
    Admins,     \* handlers at work at once
    MaxSpaces, MaxCalls, MaxWrites, MaxFaults,  \* bounds
    Free

ASSUME UserSpacesAssumption ==
    /\ Users # {} /\ Agents # {}
    /\ Agents \cap Users = {} /\ System \notin Users \cup Agents
    /\ OwnerOf \in [Agents -> Users]
    /\ Kinds \in [Callers -> SUBSET {"route", "direct", "web"}]
    /\ MaxSpaces \in Nat /\ MaxCalls \in Nat /\ MaxWrites \in Nat
    /\ MaxFaults \in Nat
    /\ Free \notin Callers

Items  == Users \cup Agents \cup {System}
Spaces == 1..MaxSpaces
None   == 0

VARIABLES
    exists,     \* agents that have a row
    ver,        \* item -> writes to its rows
    cached,     \* user -> space in userSpaceRegistry.spaces, or None
    idle,       \* users whose entry was not used for idleTTL
    alive,      \* spaces whose ctx is not cancelled: heartbeats run
    built,      \* space -> item -> version it was built from
    rmu,        \* caller that holds userSpaceRegistry.mu to load
    smu,        \* space -> caller that holds UserSpace.mu
    pc, kind, user, agent,  \* locals of each caller
    stage,      \* what the caller wants the space for: match, ensure, task
    sp, own,    \* the space it got last, and the one it asks for the agent
    draft,      \* what it has read from the database
    op,         \* admin -> handler it is in
    calls, writes, faults,  \* for the bounds
    dropped,    \* history: callers whose user's space was dropped since
    moved,      \* history: callers whose agent was made or deleted since
    half,       \* history: items of handlers that failed half-way
    raced       \* history: <<space, agent>> attached from rows that changed

db     == <<exists, ver>>
reg    == <<cached, idle, alive>>
locals == <<pc, kind, user, agent, stage, sp, own, draft>>
ghosts == <<dropped, moved, half, raced>>
vars   == <<db, reg, built, rmu, smu, locals, op, calls, writes, faults, ghosts>>

Holds(s, i) == i \in DOMAIN built[s]
Cached == {cached[u] : u \in Users} \ {None}
HolderOf(s) == CHOOSE u \in Users : Holds(s, u)
Over   == {"idle", "done", "notfound", "failed"}
Active == {c \in Callers : pc[c] \notin Over}

\* A number for a new space: that of one that nobody refers to any more.
Used   == alive \cup (UNION {{sp[c], own[c]} : c \in Active})
                \cup (UNION {op[a].todo : a \in Admins})
Unused == CHOOSE s \in Spaces \ Used : TRUE

Init ==
    /\ exists \in SUBSET Agents /\ ver = [i \in Items |-> 0]
    /\ cached = [u \in Users |-> None] /\ idle = {} /\ alive = {}
    /\ built = [s \in Spaces |-> << >>]
    /\ rmu = Free /\ smu = [s \in Spaces |-> Free]
    /\ pc = [c \in Callers |-> "idle"]
    /\ kind = [c \in Callers |-> "route"]
    /\ user = [c \in Callers |-> CHOOSE u \in Users : TRUE]
    /\ agent = [c \in Callers |-> CHOOSE g \in Agents : TRUE]
    /\ stage = [c \in Callers |-> "match"]
    /\ sp = [c \in Callers |-> None] /\ own = [c \in Callers |-> None]
    /\ draft = [c \in Callers |-> << >>]
    /\ op = [a \in Admins |-> [pc |-> "idle", kind |-> "save", item |-> System,
                             todo |-> {}]]
    /\ calls = 0 /\ writes = 0 /\ faults = 0
    /\ dropped = {} /\ moved = {} /\ half = {} /\ raced = {}
-----------------------------------------------------------------------------
(* getOrLoad. *)

Goto(c, p) == pc' = [pc EXCEPT ![c] = p]

\* The call is over: its references are gone.
End(c, p) == /\ Goto(c, p)
             /\ sp' = [sp EXCEPT ![c] = None]
             /\ own' = [own EXCEPT ![c] = None]
Fault == faults < MaxFaults /\ faults' = faults + 1

\* A message or request of user u about agent g: a binding leads to g
\* (route), it names g (direct), or it comes from the dashboard (web).
Begin(c, k, u, g) ==
    /\ pc[c] \in Over /\ calls < MaxCalls /\ calls' = calls + 1
    /\ kind' = [kind EXCEPT ![c] = k]
    /\ user' = [user EXCEPT ![c] = u]
    /\ agent' = [agent EXCEPT ![c] = g]
    /\ stage' = [stage EXCEPT ![c] = "match"]
    /\ Goto(c, "get")
    /\ dropped' = dropped \ {c}
    /\ moved' = IF g \notin exists \/ \E a \in Admins : op[a].pc # "idle" /\ op[a].item = g
                THEN moved \cup {c} ELSE moved \ {c}
    /\ UNCHANGED <<db, reg, built, rmu, smu, sp, own, draft, op, writes, faults,
                   half, raced>>

\* get, under the read lock.
Get(c) ==
    /\ pc[c] = "get" /\ rmu = Free
    /\ sp' = [sp EXCEPT ![c] = cached[user[c]]]
    /\ Goto(c, IF cached[user[c]] = None THEN "lock" ELSE "touch")
    /\ UNCHANGED <<db, reg, built, rmu, smu, kind, user, agent, stage, own,
                   draft, op, calls, writes, faults, ghosts>>

\* The entry's lastUsed; the entry may have left the map meanwhile.
Touch(c) ==
    /\ pc[c] = "touch" /\ rmu = Free
    /\ idle' = IF cached[user[c]] = sp[c] THEN idle \ {user[c]} ELSE idle
    /\ Goto(c, "use")
    /\ UNCHANGED <<db, cached, alive, built, rmu, smu, kind, user, agent,
                   stage, sp, own, draft, op, calls, writes, faults, ghosts>>

\* The write lock, and the second look.
Lock(c) ==
    LET u == user[c]
    IN /\ pc[c] = "lock" /\ rmu = Free
       /\ IF cached[u] # None
          THEN /\ sp' = [sp EXCEPT ![c] = cached[u]]
               /\ idle' = idle \ {u}
               /\ Goto(c, "use") /\ UNCHANGED rmu
          ELSE rmu' = c /\ Goto(c, "load") /\ UNCHANGED <<sp, idle>>
       /\ UNCHANGED <<db, cached, alive, built, smu, kind, user, agent, stage,
                      own, draft, op, calls, writes, faults, ghosts>>

\* loadUserSpace reads the rows of the system, the user and its agents; an
\* error ends the call.
Load(c) ==
    LET u == user[c]
        mine == {g \in exists : OwnerOf[g] = u}
    IN /\ pc[c] = "load"
       /\ \/ /\ draft' = [draft EXCEPT ![c] = [i \in {u, System} \cup mine |-> ver[i]]]
             /\ Goto(c, "publish") /\ UNCHANGED <<rmu, faults, sp, own>>
          \/ Fault /\ rmu' = Free /\ End(c, "failed") /\ UNCHANGED draft
       /\ UNCHANGED <<db, reg, built, smu, kind, user, agent, stage, op, calls,
                      writes, ghosts>>

\* The heartbeats start, the space enters the map, the lock is released.  A
\* space without a number is the bound MaxSpaces.
Publish(c) ==
    /\ pc[c] = "publish" /\ Spaces \ Used # {}
    /\ LET s == Unused
       IN /\ built' = [t \in Spaces |-> IF t = s THEN draft[c]
                                   ELSE IF t \in Used THEN built[t] ELSE << >>]
          /\ cached' = [cached EXCEPT ![user[c]] = s]
          /\ alive' = alive \cup {s}
          /\ sp' = [sp EXCEPT ![c] = s]
          /\ raced' = {r \in raced : r[1] # s}
    /\ idle' = idle \ {user[c]}
    /\ rmu' = Free
    /\ draft' = [draft EXCEPT ![c] = << >>]
    /\ Goto(c, "use")
    /\ UNCHANGED <<db, smu, kind, user, agent, stage, own, op, calls, writes,
                   faults, dropped, moved, half>>
-----------------------------------------------------------------------------
(* What a call does with the space. *)

Again(c, st) == /\ stage' = [stage EXCEPT ![c] = st]
                /\ Goto(c, "get")
                /\ UNCHANGED sp

\* The agent is found in the caller's space: the message is queued, and the
\* task handler looks both up again; a request of the dashboard goes on.
Found(c) == IF kind[c] = "web" THEN End(c, "done") /\ UNCHANGED stage
            ELSE Again(c, "task") /\ own' = [own EXCEPT ![c] = None]

\* AgentByID of matchAgent and resolveAgent.  What is not there is attached
\* for a binding, and for a super admin's or an API key's request, which
\* gets the space anew for it.
Match(c) ==
    LET mayAttach == \/ kind[c] = "route"
                     \/ kind[c] = "web" /\ OwnerOf[agent[c]] # user[c]
    IN /\ pc[c] = "use" /\ stage[c] = "match"
       /\ \/ Holds(sp[c], agent[c]) /\ Found(c)
          \/ /\ ~Holds(sp[c], agent[c]) /\ ~mayAttach
             /\ End(c, "notfound") /\ UNCHANGED stage
          \/ /\ ~Holds(sp[c], agent[c]) /\ mayAttach
             /\ own' = [own EXCEPT ![c] = sp[c]]
             /\ IF kind[c] = "web" THEN Again(c, "ensure")
                ELSE Goto(c, "ensure") /\ UNCHANGED <<stage, sp>>
       /\ UNCHANGED <<db, reg, built, rmu, smu, kind, user, agent, draft, op,
                      calls, writes, faults, ghosts>>

Ensuring(c) == pc[c] = "ensure" \/ (pc[c] = "use" /\ stage[c] = "ensure")

\* EnsureAgent takes UserSpace.mu and looks whether the agent is there.
EnsureLock(c) ==
    /\ Ensuring(c) /\ smu[sp[c]] = Free
    /\ IF Holds(sp[c], agent[c]) THEN Goto(c, "attached") /\ UNCHANGED smu
       ELSE Goto(c, "getagent") /\ smu' = [smu EXCEPT ![sp[c]] = c]
    /\ UNCHANGED <<db, reg, built, rmu, kind, user, agent, stage, sp, own,
                   draft, op, calls, writes, faults, ghosts>>

\* It reads the agent's rows; an agent that is gone is an error.
GetAgent(c) ==
    LET g == agent[c]
    IN /\ pc[c] = "getagent"
       /\ IF g \in exists
          THEN /\ draft' = [draft EXCEPT ![c] = [i \in {g} |-> ver[i]]]
               /\ Goto(c, "attach") /\ UNCHANGED <<smu, sp, own>>
          ELSE /\ smu' = [smu EXCEPT ![sp[c]] = Free]
               /\ End(c, "notfound") /\ UNCHANGED draft
       /\ UNCHANGED <<db, reg, built, rmu, kind, user, agent, stage, op, calls,
                      writes, faults, ghosts>>

\* AddAgentWithSkillsCfg.
Attach(c) ==
    LET g == agent[c]
        s == sp[c]
    IN /\ pc[c] = "attach"
       /\ built' = [built EXCEPT ![s] =
                      [i \in DOMAIN @ \cup {g} |-> IF i = g THEN draft[c][g] ELSE @[i]]]
       /\ raced' = IF g \in exists /\ draft[c][g] = ver[g] THEN raced
                   ELSE raced \cup {<<s, g>>}
       /\ smu' = [smu EXCEPT ![s] = Free]
       /\ draft' = [draft EXCEPT ![c] = << >>]
       /\ Goto(c, "attached")
       /\ UNCHANGED <<db, reg, rmu, kind, user, agent, stage, sp, own, op,
                      calls, writes, faults, dropped, moved, half>>

\* AgentByID again, of the space that the caller had first.
Attached(c) ==
    /\ pc[c] = "attached"
    /\ IF Holds(own[c], agent[c]) THEN Found(c)
       ELSE End(c, "notfound") /\ UNCHANGED stage
    /\ UNCHANGED <<db, reg, built, rmu, smu, kind, user, agent, draft, op,
                   calls, writes, faults, ghosts>>

\* The task handler: the turn runs, or "agent not found".
RunTask(c) ==
    /\ pc[c] = "use" /\ stage[c] = "task"
    /\ End(c, IF Holds(sp[c], agent[c]) THEN "done" ELSE "notfound")
    /\ UNCHANGED <<db, reg, built, rmu, smu, kind, user, agent, stage, draft,
                   op, calls, writes, faults, ghosts>>
-----------------------------------------------------------------------------
(* The registry drops spaces. *)

\* invalidate and evictIdle: the ctx is cancelled, the entries leave the map;
\* who has the space keeps it.
DropUsers(us) ==
    /\ rmu = Free
    /\ alive' = alive \ {cached[u] : u \in us}
    /\ cached' = [u \in Users |-> IF u \in us THEN None ELSE cached[u]]
    /\ idle' = idle \ us
    /\ dropped' = dropped \cup {c \in Active : user[c] \in us}

\* Half an hour without a lookup; a turn may run for all of it.
Age(u) ==
    /\ cached[u] # None /\ u \notin idle
    /\ idle' = idle \cup {u}
    /\ UNCHANGED <<db, cached, alive, built, rmu, smu, locals, op, calls,
                   writes, faults, ghosts>>

EvictIdle ==
    /\ idle # {} /\ DropUsers(idle)
    /\ UNCHANGED <<db, built, rmu, smu, locals, op, calls, writes, faults,
                   moved, half, raced>>
-----------------------------------------------------------------------------
(* Handlers of the dashboard. *)

Write(a, k, i) ==
    /\ op[a].pc = "idle" /\ writes < MaxWrites /\ writes' = writes + 1
    /\ op' = [op EXCEPT ![a] = [pc |-> "tell", kind |-> k, item |-> i, todo |-> {}]]
    /\ ver' = [ver EXCEPT ![i] = @ + 1]
    /\ UNCHANGED <<reg, built, rmu, smu, locals, calls, faults, dropped, half,
                   raced>>

\* A provider, setting or field is written.
Save(a, i) ==
    /\ i \in Agents => i \in exists
    /\ Write(a, "save", i)
    /\ UNCHANGED <<exists, moved>>

\* handleCreateAgent, handleDeleteAgent.
CreateAgent(a, g) ==
    /\ g \notin exists /\ Write(a, "create", g)
    /\ exists' = exists \cup {g}
    /\ moved' = moved \cup {c \in Active : agent[c] = g}

DeleteAgent(a, g) ==
    /\ g \in exists /\ Write(a, "delete", g)
    /\ exists' = exists \ {g}
    /\ moved' = moved \cup {c \in Active : agent[c] = g}

Idle(a) == op' = [op EXCEPT ![a] = [pc |-> "idle", kind |-> "save",
                                    item |-> System, todo |-> {}]]

\* A later write of handleCreateAgent or handleUpdateAgent fails: they
\* return the error, and tell no cache of the first write.
FailHalfway(a) ==
    /\ op[a].pc = "tell" /\ op[a].item \in Agents /\ op[a].kind # "delete"
    /\ Fault /\ Idle(a)
    /\ half' = half \cup {op[a].item}
    /\ UNCHANGED <<db, reg, built, rmu, smu, locals, calls, writes, dropped,
                   moved, raced>>

\* Mutant: a new agent is expected to be found without a reload.
NewIn_Nobody(g) == {}

\* Whose space a new agent belongs in.
NewIn(g) == {OwnerOf[g]}

\* InvalidateUser, for the user's rows and for a new agent.
TellUser(a) ==
    LET i == op[a].item
    IN /\ op[a].pc = "tell" /\ (i \in Users \/ op[a].kind = "create")
       /\ DropUsers(IF i \in Users THEN {i} ELSE NewIn(i))
       /\ Idle(a)
       /\ UNCHANGED <<db, built, rmu, smu, locals, calls, writes, faults,
                      moved, half, raced>>

\* InvalidateAgent, ReloadAgents: the list of all spaces.
TellAll(a) ==
    /\ op[a].pc = "tell" /\ rmu = Free
    /\ op[a].item \notin Users /\ op[a].kind # "create"
    /\ IF Cached = {} THEN Idle(a)
       ELSE op' = [op EXCEPT ![a].pc = "drop", ![a].todo = Cached]
    /\ UNCHANGED <<db, reg, built, rmu, smu, locals, calls, writes, faults,
                   ghosts>>

\* Mutant: only the owner's space is taken to have the agent.
Concerns_Owner(s, i) == i = System \/ (i \in Agents /\ HolderOf(s) = OwnerOf[i])

\* Whether space s of the list is to be dropped.
Concerns(s, i) == i = System \/ Holds(s, i)

\* Each in turn; what is dropped is the user's space of now.
Drop(a, s) ==
    /\ op[a].pc = "drop" /\ s \in op[a].todo
    /\ IF Concerns(s, op[a].item) THEN DropUsers({HolderOf(s)})
       ELSE UNCHANGED <<reg, dropped>>
    /\ IF op[a].todo = {s} THEN Idle(a) ELSE op' = [op EXCEPT ![a].todo = @ \ {s}]
    /\ UNCHANGED <<db, built, rmu, smu, locals, calls, writes, faults, moved,
                   half, raced>>
-----------------------------------------------------------------------------
CallerStep(c) ==
    \/ Get(c) \/ Touch(c) \/ Lock(c) \/ Load(c) \/ Publish(c)
    \/ Match(c) \/ EnsureLock(c) \/ GetAgent(c) \/ Attach(c) \/ Attached(c)
    \/ RunTask(c)

AdminStep(a) ==
    \/ TellUser(a) \/ TellAll(a)
    \/ \E s \in op[a].todo : Drop(a, s)

Next ==
    \/ \E c \in Callers, u \in Users, g \in Agents : \E k \in Kinds[c] : Begin(c, k, u, g)
    \/ \E c \in Callers : CallerStep(c)
    \/ \E u \in Users : Age(u)
    \/ EvictIdle
    \/ \E a \in Admins, i \in Items : Save(a, i)
    \/ \E a \in Admins, g \in Agents : CreateAgent(a, g) \/ DeleteAgent(a, g)
    \/ \E a \in Admins : FailHalfway(a) \/ AdminStep(a)

Spec == Init /\ [][Next]_vars
-----------------------------------------------------------------------------
(* Properties. *)

\* The spaces whose heartbeats run are those in the registry: loading,
\* dropping and evicting at the same time leave no second set behind.
NoOrphan == alive = Cached

\* An item that a space was built from has not changed since, unless its
\* handler is still to drop the space, has failed half-way, or the change
\* fell between the read and the attach of EnsureAgent.
Fresh ==
    \A s \in Cached : \A i \in DOMAIN built[s] :
        \/ built[s][i] = ver[i]
        \/ i \in half \/ <<s, i>> \in raced
        \/ \E a \in Admins : op[a].pc # "idle" /\ op[a].item = i

\* The registry's spaces are the running ones, and are up to date.
SpacesSound == NoOrphan /\ Fresh

\* A call does not find its agent only if the agent was made or deleted
\* since, or a handler left it half-made, or if the agent is another user's
\* and had to be attached, and the user's space was dropped since or the
\* message named the agent, for which matchAgent attaches nothing.
Reaches ==
    \A c \in Callers : pc[c] = "notfound" =>
        \/ c \in moved \/ agent[c] \in half
        \/ OwnerOf[agent[c]] # user[c] /\ (c \in dropped \/ kind[c] = "direct")
=============================================================================
