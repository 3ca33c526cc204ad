------------------------------- MODULE Sandbox -------------------------------
(***************************************************************************)
(* The remote sandbox of one scope (agent, project, session): the tools    *)
(* that use it (agent/tools/file.go, exec.go), the pool with lazy creation *)
(* and idle eviction (sandbox/lifecycle.go), the pool of executors and the *)
(* executor that replaces its box when it is gone                          *)
(* (sandbox/e2b_executor.go; boxlite_executor.go has the same shape), and  *)
(* one file of the workspace, which lives in the box and in the durable    *)
(* workspace store.                                                        *)
(*                                                                         *)
(* Contents of the file are version numbers in the order of the writes;    *)
(* 0 is no file.  An executor is named by the first box it had.  What the  *)
(* provider does (a box ends, a request is refused) is an environment with *)
(* at most MaxFaults faults.  docker's bind mount needs none of this.      *)
(***************************************************************************)
EXTENDS Integers, FiniteSets

CONSTANTS
    Callers,        \* tool calls of the scope that run at the same time
    Kinds,          \* caller -> what it does: exec, write, read, put
    MaxBoxes,       \* boxes the provider grants
    MaxWrites,      \* bound on versions of the file
    MaxCalls,       \* bound on tool calls
    MaxFaults,      \* bound on faults of the provider and the store
    Moves,          \* MoveWebChatSession may release the sandbox
    Size,           \* version -> length of the content
    Sweeper, Handler, Free

ASSUME SandboxAssumption ==
    /\ Kinds \in [Callers -> SUBSET {"exec", "write", "read", "put"}]
    /\ MaxBoxes \in Nat /\ MaxWrites \in Nat /\ MaxCalls \in Nat
    /\ MaxFaults \in Nat /\ Moves \in BOOLEAN
    /\ Size \in [0..MaxWrites -> Nat]
    /\ Sweeper # Handler /\ {Sweeper, Handler} \cap Callers = {}
    /\ Free \notin Callers \cup {Sweeper, Handler}

Boxes    == 1..MaxBoxes
Versions == 0..MaxWrites
Actors   == Callers \cup {Sweeper, Handler}

VARIABLES
    lastUsed,   \* LifecyclePool.lastUsed of the scope: none, fresh, stale
    pool,       \* E2BExecutorPool.executors of the scope, 0 = no entry
    mutex,      \* who holds E2BExecutorPool.mu
    boxOf,      \* executor -> E2BExecutor.sandboxID
    life,       \* box -> none, live, gone
    ready,      \* boxes whose /workspace was made writable and filled
    file,       \* box -> version of the file in it
    store,      \* version in the workspace store
    stopped,    \* CloseAll has run
    pc, kind, ex, got, wrote, tried,    \* locals of each actor
    calls, writes, faults,              \* for the bounds
    stray,      \* history: boxes a recreate or a failed delete left behind
    half,       \* history: boxes whose replay of the hydration failed
    direct,     \* history: versions put into the store past the box
    late,       \* history: the pooled executor is not in lastUsed
    crossed     \* history: two actors were at work at once

maps   == <<lastUsed, pool, mutex>>
boxes  == <<boxOf, life, ready, file>>
locals == <<kind, ex, got, wrote, tried>>
bounds == <<calls, writes, faults>>
ghosts == <<stray, half, direct, late, crossed>>
vars   == <<maps, boxes, store, stopped, pc, locals, bounds, ghosts>>

Init ==
    /\ lastUsed = "none" /\ pool = 0 /\ mutex = Free
    /\ boxOf = [e \in Boxes |-> 0]
    /\ life = [b \in Boxes |-> "none"]
    /\ ready = {} /\ file = [b \in Boxes |-> 0]
    /\ store = 0 /\ stopped = FALSE
    /\ pc = [a \in Actors |-> "idle"]
    /\ kind = [a \in Actors |-> "exec"]
    /\ ex = [a \in Actors |-> 0]
    /\ got = [a \in Actors |-> 0]
    /\ wrote = [a \in Actors |-> 0]
    /\ tried = [a \in Actors |-> FALSE]
    /\ calls = 0 /\ writes = 0 /\ faults = 0
    /\ stray = {} /\ half = {} /\ direct = {}
    /\ late = FALSE /\ crossed = FALSE
-----------------------------------------------------------------------------
Goto(a, p) == pc' = [pc EXCEPT ![a] = p]

Busy(a)  == pc[a] # "idle"
Begin(a) == crossed' = (crossed \/ \E o \in Actors \ {a} : Busy(o))

\* A request that the provider or the store fails.
Fault == faults < MaxFaults /\ faults' = faults + 1

\* A request to a box, failed by the provider or for want of the box.
BoxRefuses(b) == \/ Fault
                 \/ life[b] # "live" /\ UNCHANGED faults

Box(a)    == boxOf[ex[a]]
Unused    == {b \in Boxes : life[b] = "none"}
NextBox   == CHOOSE b \in Unused : TRUE

\* newE2BExecutor is refused: by a fault, or as the quota is used up.
Refused == \/ Unused = {} /\ UNCHANGED faults
           \/ Fault

\* Where an executor, and the end of its use, leads.
Served(a) == IF a = Sweeper THEN "snap" ELSE "run"
Done(a)   == IF a = Sweeper THEN "release" ELSE "ret"
-----------------------------------------------------------------------------
(* Tools. *)

\* read_file, write_file and exec of the sandboxed registry: a relative path
\* of write_file goes to the store, everything else to the executor.
Start(c, k) ==
    /\ pc[c] = "idle" /\ calls < MaxCalls
    /\ calls' = calls + 1
    /\ kind' = [kind EXCEPT ![c] = k]
    /\ Goto(c, IF k = "put" THEN "putrel" ELSE "touch")
    /\ Begin(c)
    /\ UNCHANGED <<maps, boxes, store, stopped, ex, got, wrote, tried, writes,
                   faults, stray, half, direct, late>>

\* workspaceStore.Put of write_file: the box is not told.
PutRelative(c) ==
    /\ pc[c] = "putrel"
    /\ \/ /\ writes < MaxWrites
          /\ writes' = writes + 1
          /\ store' = writes + 1
          /\ direct' = direct \cup {writes + 1}
          /\ UNCHANGED faults
       \/ Fault /\ UNCHANGED <<writes, store, direct>>
       \/ writes = MaxWrites /\ UNCHANGED <<writes, store, direct, faults>>
    /\ Goto(c, "ret")
    /\ UNCHANGED <<maps, boxes, stopped, locals, calls, stray, half, late,
                   crossed>>

\* getInner, under LifecyclePool.mu.
Touch(c) ==
    /\ pc[c] = "touch"
    /\ lastUsed' = "fresh" /\ late' = FALSE
    /\ Goto(c, "get")
    /\ UNCHANGED <<pool, mutex, boxes, store, stopped, locals, bounds, stray,
                   half, direct, crossed>>
-----------------------------------------------------------------------------
(* E2BExecutorPool.Get: a hit, or a creation under the pool's mutex. *)

GetPooled(a) ==
    /\ pc[a] = "get" /\ mutex = Free /\ pool # 0
    /\ ex' = [ex EXCEPT ![a] = pool]
    /\ Goto(a, Served(a))
    /\ UNCHANGED <<maps, boxes, store, stopped, kind, got, wrote, tried,
                   bounds, ghosts>>

CreateBox(a) ==
    /\ pc[a] = "get" /\ mutex = Free /\ pool = 0
    /\ Unused # {}
    /\ mutex' = a
    /\ life' = [life EXCEPT ![NextBox] = "live"]
    /\ boxOf' = [boxOf EXCEPT ![NextBox] = NextBox]
    /\ ex' = [ex EXCEPT ![a] = NextBox]
    /\ Goto(a, "hydrate")
    /\ UNCHANGED <<lastUsed, pool, ready, file, store, stopped, kind, got,
                   wrote, tried, bounds, ghosts>>

CreateRefused(a) ==
    /\ pc[a] = "get" /\ mutex = Free /\ pool = 0
    /\ Refused
    /\ Goto(a, Done(a))
    /\ UNCHANGED <<maps, boxes, store, stopped, locals, calls, writes, ghosts>>

\* Hydrate reads the store into a bundle; a failed List is only logged.
HydrateRead(a) ==
    /\ pc[a] \in {"hydrate", "rehydrate"}
    /\ \/ got' = [got EXCEPT ![a] = store] /\ UNCHANGED faults
       \/ got' = [got EXCEPT ![a] = 0] /\ Fault
    /\ Goto(a, IF pc[a] = "hydrate" THEN "extract" ELSE "reextract")
    /\ UNCHANGED <<maps, boxes, store, stopped, kind, ex, wrote, tried, calls,
                   writes, ghosts>>

\* The bundle is unpacked in the box, which is then writable.
Unpack(b, v) ==
    /\ life[b] = "live"
    /\ file' = IF v = 0 THEN file ELSE [file EXCEPT ![b] = v]
    /\ ready' = ready \cup {b}

\* Mutant: the box that was not hydrated is not closed.
HydrateWrite_Leaks(a) ==
    /\ pc[a] = "extract"
    /\ \/ /\ Unpack(Box(a), got[a])
          /\ pool' = ex[a]
          /\ Goto(a, Served(a))
          /\ UNCHANGED faults
       \/ /\ BoxRefuses(Box(a))
          /\ Goto(a, Done(a))
          /\ UNCHANGED <<pool, ready, file>>
    /\ mutex' = Free
    /\ UNCHANGED <<lastUsed, boxOf, life, store, stopped, locals, calls,
                   writes, ghosts>>

\* Hydrate's upload and verifyWorkspaceWritable: without both the box is
\* closed, if the provider answers, and the caller gets an error.
HydrateWrite(a) ==
    /\ pc[a] = "extract"
    /\ \/ /\ Unpack(Box(a), got[a])
          /\ pool' = ex[a]
          /\ Goto(a, Served(a))
          /\ late' = (late \/ (a \in Callers /\ lastUsed = "none"))
          /\ UNCHANGED <<life, faults, stray>>
       \/ /\ BoxRefuses(Box(a))
          /\ \/ /\ life' = [life EXCEPT ![Box(a)] = "gone"]
                /\ UNCHANGED stray
             \/ stray' = stray \cup {Box(a)} /\ UNCHANGED life
          /\ Goto(a, Done(a))
          /\ UNCHANGED <<pool, ready, file, late>>
    /\ mutex' = Free
    /\ UNCHANGED <<lastUsed, boxOf, store, stopped, locals, calls, writes,
                   half, direct, crossed>>
-----------------------------------------------------------------------------
(* Exec, WriteFile and ReadFile of the executor. *)

\* After an error exec still synchronises; the file operations return.
Failed(c) == IF kind[c] = "exec" THEN "snap" ELSE "ret"

\* HTTP 502 or 404.  A read of a file that is not there is a 404 as well.
LooksGone(c) == \/ life[Box(c)] # "live"
                \/ kind[c] = "read" /\ file[Box(c)] = 0

RunFails(c) ==
    /\ pc[c] = "run"
    /\ \/ LooksGone(c) /\ tried[c]
       \/ ~LooksGone(c) /\ Box(c) \notin ready /\ kind[c] # "read"
    /\ Goto(c, Failed(c))
    /\ UNCHANGED <<maps, boxes, store, stopped, locals, bounds, ghosts>>

\* A command that leaves the file alone, or a read.
RunQuiet(c) ==
    /\ pc[c] = "run" /\ ~LooksGone(c)
    /\ \/ kind[c] = "exec" /\ Box(c) \in ready /\ Goto(c, "snap")
       \/ kind[c] = "read" /\ Goto(c, "ret")
    /\ UNCHANGED <<maps, boxes, store, stopped, locals, bounds, ghosts>>

\* A command that writes the file, or write_file with an absolute path.
RunWrites(c) ==
    /\ pc[c] = "run" /\ ~LooksGone(c)
    /\ Box(c) \in ready /\ kind[c] \in {"exec", "write"}
    /\ writes < MaxWrites
    /\ writes' = writes + 1
    /\ wrote' = [wrote EXCEPT ![c] = writes + 1]
    /\ file' = [file EXCEPT ![Box(c)] = writes + 1]
    /\ Goto(c, IF kind[c] = "exec" THEN "snap" ELSE "mirror")
    /\ UNCHANGED <<maps, boxOf, life, ready, store, stopped, kind, ex, got,
                   tried, calls, faults, ghosts>>

\* recreate, first part: the executor has a new box, the old one is left as
\* it is, and an executor that is no longer pooled has nobody to close it.
Recreate(c) ==
    /\ pc[c] = "run" /\ LooksGone(c) /\ ~tried[c]
    /\ \/ /\ Unused # {}
          /\ life' = [life EXCEPT ![NextBox] = "live"]
          /\ boxOf' = [boxOf EXCEPT ![ex[c]] = NextBox]
          /\ tried' = [tried EXCEPT ![c] = TRUE]
          /\ stray' = stray \cup {b \in {Box(c)} : life[b] = "live"}
                            \cup {b \in {NextBox} : pool # ex[c]}
          /\ Goto(c, "rehydrate")
          /\ UNCHANGED faults
       \/ /\ Refused
          /\ Goto(c, Failed(c))
          /\ UNCHANGED <<boxOf, life, tried, stray>>
    /\ UNCHANGED <<maps, ready, file, store, stopped, kind, ex, got, wrote,
                   calls, writes, half, direct, late, crossed>>

\* ... second part: the hydration is replayed in what is now the box; if it
\* fails the executor keeps that box.
RehydrateWrite(c) ==
    /\ pc[c] = "reextract"
    /\ \/ /\ Unpack(Box(c), got[c])
          /\ Goto(c, "run")
          /\ UNCHANGED <<faults, half>>
       \/ /\ BoxRefuses(Box(c))
          /\ half' = half \cup {Box(c)}
          /\ Goto(c, Failed(c))
          /\ UNCHANGED <<ready, file>>
    /\ UNCHANGED <<maps, boxOf, life, store, stopped, locals, calls, writes,
                   stray, direct, late, crossed>>
-----------------------------------------------------------------------------
(* Back to the store: syncSnapshot after exec and before an eviction, and   *)
(* mirrorSandboxWrite after write_file.                                     *)

SnapshotWorkspace(a) ==
    /\ pc[a] = "snap"
    /\ \/ /\ life[Box(a)] = "live"
          /\ got' = [got EXCEPT ![a] = file[Box(a)]]
          /\ Goto(a, "stat")
          /\ UNCHANGED <<faults, wrote>>
       \/ /\ BoxRefuses(Box(a))
          /\ Goto(a, Done(a))
          /\ wrote' = [wrote EXCEPT ![a] = 0]
          /\ UNCHANGED got
    /\ UNCHANGED <<maps, boxes, store, stopped, kind, ex, tried, calls,
                   writes, ghosts>>

\* Mutant: a file the store already has is not put again.
StatStored_AnySize(a) ==
    /\ pc[a] = "stat"
    /\ Goto(a, IF got[a] = 0 \/ store # 0 THEN Done(a) ELSE "putsnap")
    /\ UNCHANGED <<maps, boxes, store, stopped, locals, bounds, ghosts>>

\* Files of the same length are taken to be the same.
StatStored(a) ==
    /\ pc[a] = "stat"
    /\ Goto(a, IF got[a] = 0 \/ (store # 0 /\ Size[store] = Size[got[a]])
                 THEN Done(a) ELSE "putsnap")
    /\ UNCHANGED <<maps, boxes, store, stopped, locals, bounds, ghosts>>

\* Best effort: a failed Put is logged.
PutBack(a, v) ==
    /\ \/ store' = v /\ UNCHANGED <<faults, wrote>>
       \/ Fault /\ wrote' = [wrote EXCEPT ![a] = 0] /\ UNCHANGED store
    /\ Goto(a, Done(a))
    /\ UNCHANGED <<maps, boxes, stopped, kind, ex, got, tried, calls, writes,
                   ghosts>>

PutSnapshot(a) == pc[a] = "putsnap" /\ PutBack(a, got[a])

MirrorWrite(a) == pc[a] = "mirror" /\ PutBack(a, wrote[a])
-----------------------------------------------------------------------------
(* The sweeper, explicit release, shutdown. *)

Age ==
    /\ lastUsed = "fresh"
    /\ lastUsed' = "stale"
    /\ UNCHANGED <<pool, mutex, boxes, store, stopped, pc, locals, bounds,
                   ghosts>>

\* evictIdle up to the unlock; flushIfSupported then gets the executor, and
\* creates one if there is none.
EvictIdle ==
    /\ pc[Sweeper] = "idle" /\ ~stopped
    /\ lastUsed = "stale"
    /\ lastUsed' = "none"
    /\ Goto(Sweeper, "get")
    /\ Begin(Sweeper)
    /\ UNCHANGED <<pool, mutex, boxes, store, stopped, locals, bounds, stray,
                   half, direct, late>>

\* LifecyclePool.Release, as MoveWebChatSession calls it: without a flush.
MoveSession ==
    /\ Moves /\ pc[Handler] = "idle" /\ calls < MaxCalls
    /\ calls' = calls + 1
    /\ lastUsed' = "none"
    /\ Goto(Handler, "release")
    /\ Begin(Handler)
    /\ UNCHANGED <<pool, mutex, boxes, store, stopped, locals, writes, faults,
                   stray, half, direct, late>>

\* Mutant: the executor stays in the pool.
ReleaseExecutor_Keeps(a) ==
    /\ pc[a] = "release" /\ mutex = Free
    /\ Goto(a, "ret")
    /\ UNCHANGED <<maps, boxes, store, stopped, locals, bounds, ghosts>>

\* E2BExecutorPool.Release takes the executor out under the mutex and closes
\* it after the unlock.
ReleaseExecutor(a) ==
    /\ pc[a] = "release" /\ mutex = Free
    /\ pool' = 0 /\ late' = FALSE
    /\ ex' = [ex EXCEPT ![a] = pool]
    /\ Goto(a, IF pool = 0 THEN "ret" ELSE "close")
    /\ UNCHANGED <<lastUsed, mutex, boxes, store, stopped, kind, got, wrote,
                   tried, bounds, stray, half, direct, crossed>>

CloseBox(a) ==
    /\ pc[a] = "close"
    /\ \/ /\ life' = [life EXCEPT ![Box(a)] = "gone"]
          /\ UNCHANGED <<faults, stray>>
       \/ Fault /\ stray' = stray \cup {Box(a)} /\ UNCHANGED life
    /\ Goto(a, "ret")
    /\ UNCHANGED <<maps, boxOf, ready, file, store, stopped, locals, calls,
                   writes, half, direct, late, crossed>>

\* The call, or the sweep, returns.
Return(a) ==
    /\ pc[a] = "ret"
    /\ Goto(a, "idle")
    /\ kind' = [kind EXCEPT ![a] = "exec"]
    /\ ex' = [ex EXCEPT ![a] = 0]
    /\ got' = [got EXCEPT ![a] = 0]
    /\ wrote' = [wrote EXCEPT ![a] = 0]
    /\ tried' = [tried EXCEPT ![a] = FALSE]
    /\ UNCHANGED <<maps, boxes, store, stopped, bounds, ghosts>>

\* CloseAll waits for the sweeper, then empties the pool under its mutex.
CloseAll ==
    /\ ~stopped /\ pc[Sweeper] = "idle" /\ mutex = Free
    /\ stopped' = TRUE
    /\ life' = [b \in Boxes |->
                  IF pool # 0 /\ b = boxOf[pool] THEN "gone" ELSE life[b]]
    /\ pool' = 0 /\ lastUsed' = "none" /\ late' = FALSE
    /\ UNCHANGED <<mutex, boxOf, ready, file, store, pc, locals, bounds,
                   stray, half, direct, crossed>>

\* A box reaches its lifetime, or the provider loses it.
BoxEnds(b) ==
    /\ life[b] = "live" /\ Fault
    /\ life' = [life EXCEPT ![b] = "gone"]
    /\ UNCHANGED <<maps, boxOf, ready, file, store, stopped, pc, locals,
                   calls, writes, ghosts>>
-----------------------------------------------------------------------------
ActorStep(a) ==
    \/ PutRelative(a) \/ Touch(a)
    \/ GetPooled(a) \/ CreateBox(a) \/ CreateRefused(a)
    \/ HydrateRead(a) \/ HydrateWrite(a)
    \/ RunFails(a) \/ RunQuiet(a) \/ RunWrites(a)
    \/ Recreate(a) \/ RehydrateWrite(a)
    \/ SnapshotWorkspace(a) \/ StatStored(a) \/ PutSnapshot(a) \/ MirrorWrite(a)
    \/ ReleaseExecutor(a) \/ CloseBox(a) \/ Return(a)

Next ==
    \/ \E a \in Actors : ActorStep(a)
    \/ \E c \in Callers : \E k \in Kinds[c] : Start(c, k)
    \/ EvictIdle \/ MoveSession \/ CloseAll \/ Age
    \/ \E b \in Boxes : BoxEnds(b)

Spec == Init /\ [][Next]_vars

\* Each request has a time-out, mutexes are handed on, and the sweeper ticks.
FairSpec ==
    /\ Spec
    /\ \A a \in Actors : WF_vars(ActorStep(a))
    /\ WF_vars(Age) /\ WF_vars(EvictIdle)
-----------------------------------------------------------------------------
Points == {"idle", "putrel", "touch", "get", "hydrate", "extract", "run",
           "rehydrate", "reextract", "snap", "stat", "putsnap", "mirror",
           "release", "close", "ret"}

\* Types of the pool, the boxes and the actors.
TypeOK ==
    /\ lastUsed \in {"none", "fresh", "stale"}
    /\ pool \in Boxes \cup {0} /\ mutex \in Actors \cup {Free}
    /\ boxOf \in [Boxes -> Boxes \cup {0}]
    /\ life \in [Boxes -> {"none", "live", "gone"}]
    /\ ready \in SUBSET Boxes /\ file \in [Boxes -> Versions]
    /\ store \in Versions /\ stopped \in BOOLEAN
    /\ pc \in [Actors -> Points]
    /\ kind \in [Actors -> {"exec", "write", "read", "put"}]
    /\ ex \in [Actors -> Boxes \cup {0}] /\ got \in [Actors -> Versions]
    /\ wrote \in [Actors -> Versions] /\ tried \in [Actors -> BOOLEAN]
    /\ calls \in 0..MaxCalls /\ writes \in Versions /\ faults \in 0..MaxFaults
    /\ stray \in SUBSET Boxes /\ half \in SUBSET Boxes
    /\ direct \in SUBSET Versions /\ late \in BOOLEAN /\ crossed \in BOOLEAN

\* The boxes somebody will still close: the pooled executor's, and those in
\* the hands of an actor that is filling or closing one.
Owned == {boxOf[e] : e \in {pool} \ {0}}
         \cup {Box(a) : a \in {o \in Actors : pc[o] \in {"hydrate", "extract",
                                                         "close"}}}

\* CloseAll's comment: a box that is skipped costs money until its maximal
\* lifetime.  However creation, failures, eviction and release interleave, a
\* live box is owned, or was left behind by recreate, which replaces the id
\* of a box that may be alive (a read of a missing file answers 404 too) and
\* makes a new one for an executor that was released meanwhile.
NoBoxLost == \A b \in Boxes : life[b] = "live" => b \in Owned \cup stray

\* recreate's comment: a box whose hydration failed is silently broken.  The
\* pool hands out none, except in the middle of a recreate and after one that
\* failed, which leaves the new box in the pool.
PooledUsable ==
    pool # 0 =>
        LET b == boxOf[pool]
        IN  \/ life[b] = "gone" \/ b \in ready \cup half
            \/ \E c \in Callers : ex[c] = pool /\ pc[c] \in {"rehydrate", "reextract"}

\* Each live box has an owner that can release it, and the pool's can be used.
BoxesSound == NoBoxLost /\ PooledUsable

\* The store is never set back to an older version, except over a version
\* that write_file put there past the box (the next snapshot takes the box's
\* older file for news), or by actors that overlap: calls of one round, and
\* the snapshot before an eviction.
NeverSetBack == [][store' < store => store \in direct \/ crossed]_vars

\* A call that wrote the file in its box has it in the store when it returns,
\* in that or a later version, unless the store failed or takes an equal
\* length for equality.
CallSaved ==
    [][\A c \in Callers :
         (pc[c] = "ret" /\ pc'[c] = "idle" /\ wrote[c] # 0 /\ ~crossed) =>
            \/ store >= wrote[c]
            \/ store # 0 /\ Size[store] = Size[wrote[c]]]_vars

Durable == NeverSetBack /\ CallSaved

\* A sandbox nobody uses is released in the end, however calls, sweeps and
\* failures interleave on the pool's mutex, unless the gateway stops or a
\* release came between a call's Touch and the end of its Get: that call's new
\* executor has no entry in lastUsed.
Settles == pool # 0 ~> (pool = 0 \/ stopped \/ late)
=============================================================================
