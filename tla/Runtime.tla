------------------------------- MODULE Runtime -------------------------------
(***************************************************************************)
(* The live app of one project (runtime/runtime.go): its row in            *)
(* project_runtimes, the manager's map from the project to the sandbox     *)
(* that serves it, the containers, and the operations that the dashboard   *)
(* (setup/handlers_runtime.go) and the tool start_app_preview run side by  *)
(* side: Up, Wake, Sleep and Stop.                                         *)
(*                                                                         *)
(* A DockerSandbox is named by the Up that made it.  Exec makes another    *)
(* container for a sandbox that was closed (sandbox/docker.go).  The       *)
(* manager's lock covers single reads and writes of the map, so that each  *)
(* is a step.  A statement fails when its context has ended.               *)
(***************************************************************************)
EXTENDS Integers, FiniteSets

CONSTANTS
    Ops,        \* operations
    MaxBoxes,   \* bound on the containers
    MaxTroubles, MaxRestarts,   \* bounds on ended contexts and containers, on restarts
    NoOp

ASSUME RuntimeAssumption == NoOp \notin Ops /\ MaxBoxes \in Nat

VARIABLES
    row,        \* status in project_runtimes, "absent" without a row
    live,       \* Manager.live: the sandbox, by its maker
    holds,      \* DockerSandbox.containerID, 0 for none
    up, booted, answered, scaffolded,   \* containers; those where the dev server
                \* was started, has answered; package.json is in the workspace
    at, what, sb,       \* the operations, and the sandbox each works with
    ctx,        \* operations whose context goes on
    ok,         \* operations that ended without an error
    made, troubles, restarts,
    by,         \* history: the operation that made each container
    astray,     \* history: containers not started, or of an earlier process
    died,       \* history: containers that ended by themselves
    mixed,      \* history: operations that ran beside another
    last        \* history: the operation that ended last

docker == <<up, booted, answered, scaffolded, made, by>>
ops    == <<at, what, sb, ok, last>>
env    == <<ctx, troubles, restarts, died, mixed>>
runtimeVars   == <<row, live, holds, docker, ops, env, astray>>

Statuses == {"absent", "starting", "scaffolding", "running", "sleeping", "crashed"}
Boxes    == 1..MaxBoxes
Running  == {o \in Ops : at[o] \notin {"new", "end"}}

RuntimeInit ==
    /\ row = "absent" /\ live = NoOp
    /\ holds = [s \in Ops |-> 0]
    /\ up = {} /\ booted = {} /\ answered = {} /\ scaffolded \in BOOLEAN
    /\ at = [o \in Ops |-> "new"] /\ what = [o \in Ops |-> "up"]
    /\ sb = [o \in Ops |-> NoOp]
    /\ ctx = Ops /\ ok = {}
    /\ made = 0 /\ troubles = 0 /\ restarts = 0
    /\ by = [b \in Boxes |-> NoOp]
    /\ astray = {} /\ died = {} /\ mixed = {} /\ last = NoOp

GoOn(o, p) == at' = [at EXCEPT ![o] = p] /\ UNCHANGED <<what, ok, last>>

\* The operation returns.
Return(o, good) ==
    /\ at' = [at EXCEPT ![o] = "end"]
    /\ last' = o /\ ok' = IF good THEN ok \cup {o} ELSE ok
    /\ UNCHANGED what

SaveStatus(o, status) == row' = IF o \in ctx THEN status ELSE row
-----------------------------------------------------------------------------
(* Up. *)

BeginOp(o, k) ==
    /\ at[o] = "new"
    /\ what' = [what EXCEPT ![o] = k]
    /\ at' = [at EXCEPT ![o] = IF k \in {"up", "wake"} THEN "get" ELSE "evict"]
    /\ mixed' = IF Running = {} THEN mixed ELSE mixed \cup Running \cup {o}
    /\ UNCHANGED <<row, live, holds, docker, sb, ok, last, ctx, troubles, restarts, died, astray>>

\* The row has the template; without a row it must be in the request.
GetRow(o) ==
    /\ at[o] = "get"
    /\ IF o \notin ctx \/ (row = "absent" /\ what[o] = "wake")
         THEN Return(o, FALSE) ELSE GoOn(o, "map")
    /\ UNCHANGED <<row, live, holds, docker, sb, env, astray>>

\* Already live, if its port is published.
ReadLive(o) ==
    /\ at[o] = "map"
    /\ sb' = [sb EXCEPT ![o] = live]
    /\ GoOn(o, IF live = NoOp THEN "dir" ELSE IF holds[live] \in up THEN "fast" ELSE "evict")
    /\ UNCHANGED <<row, live, holds, docker, env, astray>>

AlreadyLive(o) ==
    /\ at[o] = "fast"
    /\ SaveStatus(o, "running") /\ Return(o, TRUE)
    /\ UNCHANGED <<live, holds, docker, sb, env, astray>>

\* evict: what is in the map now, which Up need not have looked at.
After(o) == CASE what[o] = "sleep" -> "mark" [] what[o] = "stop" -> "delete" [] OTHER -> "dir"

\* Mutant: the sandbox is forgotten and left open.
Evict_Forgets(o) ==
    /\ at[o] = "evict"
    /\ live' = NoOp /\ UNCHANGED sb
    /\ GoOn(o, After(o))
    /\ UNCHANGED <<row, holds, docker, env, astray>>

Evict(o) ==
    /\ at[o] = "evict"
    /\ live' = NoOp /\ sb' = [sb EXCEPT ![o] = live]
    /\ GoOn(o, IF live = NoOp THEN After(o) ELSE "close")
    /\ UNCHANGED <<row, holds, docker, env, astray>>

Close(o) ==
    /\ at[o] = "close"
    /\ up' = up \ {holds[sb[o]]} /\ holds' = [holds EXCEPT ![sb[o]] = 0]
    /\ sb' = [sb EXCEPT ![o] = NoOp]
    /\ GoOn(o, After(o))
    /\ UNCHANGED <<row, live, booted, answered, scaffolded, made, by, env, astray>>

\* The directory and the first status; a new sandbox.
MakeDir(o) ==
    /\ at[o] = "dir"
    /\ \/ SaveStatus(o, "starting") /\ sb' = [sb EXCEPT ![o] = o] /\ GoOn(o, "create")
       \/ SaveStatus(o, "crashed") /\ Return(o, FALSE) /\ UNCHANGED sb
    /\ UNCHANGED <<live, holds, docker, env, astray>>

\* docker create and docker start, for the sandbox of the operation.
NewBox(o) ==
    /\ made < MaxBoxes /\ made' = made + 1
    /\ holds' = [holds EXCEPT ![sb[o]] = made + 1]
    /\ up' = up \cup {made + 1}
    /\ by' = [by EXCEPT ![made + 1] = o]

Create(o) ==
    /\ at[o] = "create"
    /\ \/ NewBox(o) /\ GoOn(o, "install") /\ UNCHANGED <<row, astray>>
       \/ \* it is there, but does not start
          /\ NewBox(o) /\ astray' = astray \cup {made + 1}
          /\ SaveStatus(o, "crashed") /\ Return(o, FALSE)
       \/ /\ SaveStatus(o, "crashed") /\ Return(o, FALSE)
          /\ UNCHANGED <<holds, up, made, by, astray>>
    /\ UNCHANGED <<live, booted, answered, scaffolded, sb, env>>

Install(o) ==
    /\ at[o] = "install"
    /\ live' = o
    /\ GoOn(o, "probe")
    /\ UNCHANGED <<row, holds, docker, sb, env, astray>>

\* Exec on a sandbox that another operation has closed opens it again.
Reopen(o) ==
    /\ at[o] \in {"probe", "scaffold", "boot", "await"} /\ holds[o] = 0
    /\ NewBox(o)
    /\ UNCHANGED <<row, live, booted, answered, scaffolded, ops, env, astray>>

CanExec(o) == holds[o] \in up
Works(o)   == CanExec(o) /\ o \in ctx

\* needsScaffold: yes, if it cannot tell.
Probe(o) ==
    /\ at[o] = "probe" /\ holds[o] # 0
    /\ IF Works(o) /\ scaffolded
         THEN GoOn(o, "boot") /\ UNCHANGED row
         ELSE SaveStatus(o, "scaffolding") /\ GoOn(o, "scaffold")
    /\ UNCHANGED <<live, holds, docker, sb, env, astray>>

Scaffold(o) ==
    /\ at[o] = "scaffold" /\ holds[o] # 0
    /\ \/ Works(o) /\ scaffolded' = TRUE /\ GoOn(o, "boot")
       \/ scaffolded' \in {scaffolded, TRUE} /\ GoOn(o, "crash")
    /\ UNCHANGED <<row, live, holds, up, booted, answered, made, by, sb, env, astray>>

StartDevServer(o) ==
    /\ at[o] = "boot" /\ holds[o] # 0
    /\ \/ Works(o) /\ booted' = booted \cup {holds[o]} /\ GoOn(o, "await")
       \/ GoOn(o, "crash") /\ UNCHANGED booted
    /\ UNCHANGED <<row, live, holds, up, answered, scaffolded, made, by, sb, env, astray>>

\* The polls until the server answers, or the time is over.
WaitForDevServer(o) ==
    /\ at[o] = "await" /\ holds[o] # 0
    /\ \/ /\ Works(o) /\ holds[o] \in booted
          /\ answered' = answered \cup {holds[o]}
          /\ GoOn(o, "port")
       \/ GoOn(o, "crash") /\ UNCHANGED answered
    /\ UNCHANGED <<row, live, holds, up, booted, scaffolded, made, by, sb, env, astray>>

HostPortFor(o) ==
    /\ at[o] = "port"
    /\ GoOn(o, IF CanExec(o) THEN "finish" ELSE "crash")
    /\ UNCHANGED <<row, live, holds, docker, sb, env, astray>>

Finish(o) ==
    /\ at[o] = "finish"
    /\ SaveStatus(o, "running") /\ Return(o, o \in ctx)
    /\ UNCHANGED <<live, holds, docker, sb, env, astray>>

Crash(o) ==
    /\ at[o] = "crash"
    /\ SaveStatus(o, "crashed") /\ Return(o, FALSE)
    /\ UNCHANGED <<live, holds, docker, sb, env, astray>>
-----------------------------------------------------------------------------
(* Sleep and Stop, from evict on. *)

ReadToSleep(o) ==
    /\ at[o] = "mark"
    /\ IF o \in ctx /\ row # "absent" THEN GoOn(o, "sleep") ELSE Return(o, o \in ctx)
    /\ UNCHANGED <<row, live, holds, docker, sb, env, astray>>

SaveSleeping(o) ==
    /\ at[o] = "sleep"
    /\ SaveStatus(o, "sleeping") /\ Return(o, o \in ctx)
    /\ UNCHANGED <<live, holds, docker, sb, env, astray>>

DeleteRow(o) ==
    /\ at[o] = "delete"
    /\ SaveStatus(o, "absent") /\ Return(o, o \in ctx)
    /\ UNCHANGED <<live, holds, docker, sb, env, astray>>
-----------------------------------------------------------------------------
(* The rest of the world. *)

Trouble == troubles < MaxTroubles /\ troubles' = troubles + 1

\* The request is given up, or its ten minutes are over.
EndCtx(o) ==
    /\ Trouble /\ o \in Running \cap ctx
    /\ ctx' = ctx \ {o}
    /\ UNCHANGED <<row, live, holds, docker, ops, restarts, died, mixed, astray>>

BoxDies(b) ==
    /\ Trouble /\ b \in up
    /\ up' = up \ {b} /\ died' = died \cup {b}
    /\ UNCHANGED <<row, live, holds, booted, answered, scaffolded, made, by, ops, ctx, restarts,
                   mixed, astray>>

\* The process ends and starts again: nobody calls CloseAll.
Restart ==
    /\ restarts < MaxRestarts /\ restarts' = restarts + 1
    /\ live' = NoOp /\ holds' = [s \in Ops |-> 0]
    /\ astray' = astray \cup up
    /\ at' = [o \in Ops |-> IF o \in Running THEN "end" ELSE at[o]]
    /\ last' = NoOp
    /\ UNCHANGED <<row, docker, what, sb, ok, ctx, troubles, died, mixed>>
-----------------------------------------------------------------------------
Step(o) ==
    \/ GetRow(o) \/ ReadLive(o) \/ AlreadyLive(o) \/ Evict(o) \/ Close(o)
    \/ MakeDir(o) \/ Create(o) \/ Install(o) \/ Reopen(o)
    \/ Probe(o) \/ Scaffold(o) \/ StartDevServer(o) \/ WaitForDevServer(o)
    \/ HostPortFor(o) \/ Finish(o) \/ Crash(o)
    \/ ReadToSleep(o) \/ SaveSleeping(o) \/ DeleteRow(o)

RuntimeNext ==
    \/ \E o \in Ops :
         Step(o) \/ EndCtx(o) \/ \E k \in {"up", "wake", "sleep", "stop"} : BeginOp(o, k)
    \/ \E b \in Boxes : BoxDies(b)
    \/ Restart

RuntimeSpec == RuntimeInit /\ [][RuntimeNext]_runtimeVars
-----------------------------------------------------------------------------
(* What should hold. *)

\* The type of the state.
RuntimeTypeOK ==
    /\ row \in Statuses /\ live \in Ops \cup {NoOp} /\ holds \in [Ops -> 0..MaxBoxes]
    /\ up \subseteq 1..made /\ booted \subseteq 1..made /\ answered \subseteq booted
    /\ scaffolded \in BOOLEAN /\ what \in [Ops -> {"up", "wake", "sleep", "stop"}]
    /\ sb \in [Ops -> Ops \cup {NoOp}] /\ ctx \subseteq Ops /\ ok \subseteq Ops
    /\ by \in [Boxes -> Ops \cup {NoOp}] /\ astray \cup died \subseteq 1..made
    /\ mixed \subseteq Ops /\ last \in Ops \cup {NoOp}

\* Containers that the map, or an operation, will close or hand on.
Known == {holds[s] : s \in ({live} \cup {sb[o] : o \in Running}) \ {NoOp}}

\* A container that nobody can close any more was made by an Up that ran beside
\* another operation (the second Up's entry replaced its own, or it reopened a
\* sandbox that Sleep or Stop had closed), never started, or is from before a
\* restart of the process.
NoneAdrift == \A b \in up : b \in Known \cup astray \/ by[b] \in mixed

\* What an operation that ran alone leaves, whatever state others had left:
\* after Up the app has its container and the row says so, after Sleep and Stop
\* it has none; and if Up fails, the row says that, unless its context had ended.
\* The dev server of an Up that made the app has answered; one that found a live
\* container, of an Up that failed too, does not ask.
Alone(o) == o # NoOp /\ Running = {} /\ o \notin mixed
Served   == live # NoOp /\ holds[live] \in up \cup died

LeavesOwn ==
    Alone(last) =>
        CASE last \in ok /\ what[last] \in {"up", "wake"} ->
                 /\ Served /\ (row = "running" \/ last \notin ctx)
                 /\ live = last => holds[last] \in answered \cup died
          [] last \in ok /\ what[last] = "sleep" -> live = NoOp /\ row \in {"absent", "sleeping"}
          [] last \in ok /\ what[last] = "stop"  -> live = NoOp /\ row = "absent"
          [] last \notin ok -> last \in ctx /\ what[last] = "up" => row = "crashed"

AppsKept == RuntimeTypeOK /\ NoneAdrift /\ LeavesOwn
=============================================================================
