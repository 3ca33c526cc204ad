---------------------------- MODULE SandboxProofs ----------------------------
(***************************************************************************)
(* A live box has an owner or is one a recreate left behind, the pool's    *)
(* box can be used, and the store is not set back: for any callers, boxes, *)
(* calls, versions and faults.  And about Skills, for any pods, skills,    *)
(* operations and rounds.                                                  *)
(***************************************************************************)
EXTENDS Sandbox, Skills, TLAPS

\* Where the sweeper and MoveWebChatSession can be.
Ways ==
    /\ pc[Handler] \in {"idle", "release", "close", "ret"}
    /\ pc[Sweeper] \in {"idle", "get", "hydrate", "extract", "snap", "stat",
                        "putsnap", "release", "close", "ret"}

\* What a's place in its call says of its locals: a box is filled under the
\* pool's mutex with the pool empty, and a call has written the file at most
\* once.
Path(a) ==
    /\ pc[a] \in {"hydrate", "extract"} => mutex = a /\ pool = 0
    /\ pc[a] \in {"idle", "putrel", "touch", "get"} => ex[a] = 0
    /\ pc[a] \in {"hydrate", "extract", "run", "rehydrate", "reextract",
                  "snap", "stat", "putsnap", "mirror", "close"} => ex[a] # 0
    /\ pc[a] \notin {"snap", "stat", "putsnap", "mirror", "ret"} => wrote[a] = 0
    /\ a \notin Callers => wrote[a] = 0
    /\ pc[a] = "mirror" => wrote[a] # 0
    /\ pc[a] = "putsnap" => got[a] # 0

PathInv == Ways /\ \A a \in Actors : Path(a)

\* An executor in use has had a box and has one now.
Boxed(e, l, of) == l[e] # "none" /\ of[e] # 0 /\ l[of[e]] # "none"

Granted(e) == Boxed(e, life, boxOf)

BoxInv ==
    /\ pool # 0 => Granted(pool)
    /\ \A a \in Actors : ex[a] # 0 => Granted(ex[a])
    /\ \A b \in Boxes : life[b] = "none" => file[b] = 0

PoolInv == TypeOK /\ PathInv /\ BoxInv

\* No version is newer than the last write.
VersionInv ==
    /\ store <= writes
    /\ \A b \in Boxes : file[b] <= writes
    /\ \A a \in Actors : got[a] <= writes /\ wrote[a] <= writes

\* A version that may replace the store's.
Newest(v) == v = 0 \/ v >= store \/ store \in direct

InStore(v) == store >= v \/ (store # 0 /\ Size[store] = Size[v])

\* What a, alone, knows of the file in its box and in the store.
Fresh(a) ==
    /\ ex[a] # 0 => pool \in {0, ex[a]} /\ Newest(file[Box(a)])
    /\ pc[a] \in {"extract", "reextract"} => Newest(got[a])
    /\ pc[a] \in {"stat", "putsnap"} => got[a] = file[Box(a)]
    /\ pc[a] \in {"snap", "stat", "putsnap", "mirror"} /\ wrote[a] # 0
           => wrote[a] = file[Box(a)]
    /\ pc[a] = "ret" /\ wrote[a] # 0 => InStore(wrote[a])

\* While actors have not overlapped, each copy of the file is at least as new
\* as the store's, but for what write_file put past the box.
FreshInv ==
    ~crossed => /\ \A a, o \in Actors : Busy(a) /\ Busy(o) => a = o
                /\ pool # 0 => Newest(file[boxOf[pool]])
                /\ \A a \in Actors : Fresh(a)

StoreInv == PoolInv /\ VersionInv /\ FreshInv
-----------------------------------------------------------------------------
\* The box a creation gets.
LEMMA Granting ==
    ASSUME Unused # {}
    PROVE  NextBox \in Boxes /\ life[NextBox] = "none" /\ NextBox # 0
<1>1. NextBox \in Unused
  BY DEF NextBox
<1>2. \A b \in Unused : b \in Boxes /\ life[b] = "none"
  BY DEF Unused
<1>3. QED
  BY <1>1, <1>2, SandboxAssumption DEF Boxes

LEMMA ActorsApart == Sweeper \notin Callers /\ Handler \notin Callers
                     /\ Sweeper # Handler /\ Free \notin Actors
  BY SandboxAssumption DEF Actors
-----------------------------------------------------------------------------
(* Types. *)

LEMMA TypeInit == Init => TypeOK
<1> SUFFICES ASSUME Init PROVE TypeOK
  OBVIOUS
<1>1. /\ 0 \in Versions /\ 0 \in 0..MaxCalls /\ 0 \in 0..MaxFaults
      /\ "idle" \in Points /\ {} \in SUBSET Versions
  BY SandboxAssumption DEF Versions, Points
<1>2. QED
  BY <1>1 DEF Init, TypeOK

\* Each step's effect on the types, from its helpers' effects.
LEMMA FaultType ==
    ASSUME TypeOK
    PROVE  /\ Fault => faults' \in 0..MaxFaults
           /\ \A b : BoxRefuses(b) => faults' \in 0..MaxFaults
           /\ Refused => faults' \in 0..MaxFaults
<1>1. faults \in 0..MaxFaults /\ MaxFaults \in Nat
  BY SandboxAssumption DEF TypeOK
<1>2. Fault => faults' \in 0..MaxFaults
  BY <1>1 DEF Fault
<1>3. QED
  BY <1>1, <1>2 DEF BoxRefuses, Refused

LEMMA GotoType ==
    ASSUME TypeOK, NEW a, NEW p, p \in Points, Goto(a, p)
    PROVE  pc' \in [Actors -> Points]
  BY DEF TypeOK, Goto

LEMMA VersionType ==
    /\ 0 \in Versions
    /\ TypeOK /\ writes < MaxWrites => writes + 1 \in Versions
  BY SandboxAssumption DEF Versions, TypeOK

LEMMA PointType ==
    /\ \A a : Served(a) \in Points /\ Done(a) \in Points /\ Failed(a) \in Points
    /\ "idle" \in Points /\ "get" \in Points /\ "hydrate" \in Points
    /\ "extract" \in Points /\ "run" \in Points /\ "rehydrate" \in Points
    /\ "reextract" \in Points /\ "snap" \in Points /\ "stat" \in Points
    /\ "putsnap" \in Points /\ "mirror" \in Points /\ "release" \in Points
    /\ "close" \in Points /\ "ret" \in Points
    /\ "putrel" \in Points /\ "touch" \in Points
  BY DEF Points, Served, Done, Failed

\* An actor at a point where it uses its executor's box.
LEMMA InUse ==
    ASSUME PoolInv, NEW a \in Actors, ex[a] # 0
    PROVE  /\ ex[a] \in Boxes /\ Box(a) \in Boxes /\ Box(a) = boxOf[ex[a]]
           /\ life[Box(a)] # "none" /\ life[ex[a]] # "none"
  BY DEF PoolInv, TypeOK, BoxInv, Granted, Boxed, Box

LEMMA TypeActor ==
    ASSUME PoolInv, NEW a \in Actors, ActorStep(a)
    PROVE  TypeOK'
<1>a. TypeOK
  BY DEF PoolInv
<1>b. pc[a] \in {"extract", "run", "reextract", "snap", "close"}
          => ex[a] \in Boxes /\ Box(a) \in Boxes
  BY InUse DEF PoolInv, PathInv, Path
<1> USE <1>a, FaultType, GotoType, VersionType, PointType
    DEF TypeOK, maps, boxes, locals, bounds, ghosts
<1>1. CASE PutRelative(a)
  BY <1>1 DEF PutRelative
<1>2. CASE Touch(a)
  BY <1>2 DEF Touch
<1>3. CASE GetPooled(a)
  BY <1>3 DEF GetPooled
<1>4. CASE CreateBox(a)
  BY <1>4, Granting DEF CreateBox
<1>5. CASE CreateRefused(a)
  BY <1>5 DEF CreateRefused
<1>6. CASE HydrateRead(a)
  BY <1>6 DEF HydrateRead
<1>7. CASE HydrateWrite(a)
  BY <1>7, <1>b DEF HydrateWrite, Unpack
<1>8. CASE RunFails(a)
  BY <1>8 DEF RunFails
<1>9. CASE RunQuiet(a)
  BY <1>9 DEF RunQuiet
<1>10. CASE RunWrites(a)
  BY <1>10 DEF RunWrites
<1>11. CASE Recreate(a)
  <2>1. ex[a] \in Boxes /\ Box(a) \in Boxes
    BY <1>11, <1>b DEF Recreate
  <2>2. stray' \in SUBSET Boxes
    <3>1. Unused # {} => NextBox \in Boxes
      BY Granting
    <3>2. CASE UNCHANGED stray
      BY <3>2
    <3>3. CASE Unused # {} /\ stray' = stray
                 \cup {b \in {Box(a)} : life[b] = "live"}
                 \cup {b \in {NextBox} : pool # ex[a]}
      BY <2>1, <3>1, <3>3
    <3>4. QED
      BY <1>11, <3>2, <3>3 DEF Recreate
  <2>3. pc' \in [Actors -> Points] /\ faults' \in 0..MaxFaults
    BY <1>11 DEF Recreate
  <2>4. /\ life' \in [Boxes -> {"none", "live", "gone"}]
        /\ boxOf' \in [Boxes -> Boxes \cup {0}]
        /\ tried' \in [Actors -> BOOLEAN]
    <3>1. CASE UNCHANGED <<life, boxOf, tried>>
      BY <3>1
    <3>2. CASE /\ Unused # {}
               /\ life' = [life EXCEPT ![NextBox] = "live"]
               /\ boxOf' = [boxOf EXCEPT ![ex[a]] = NextBox]
               /\ tried' = [tried EXCEPT ![a] = TRUE]
      BY <3>2, Granting
    <3>3. QED
      BY <1>11, <3>1, <3>2 DEF Recreate
  <2>5. QED
    BY <1>11, <2>2, <2>3, <2>4 DEF Recreate
<1>12. CASE RehydrateWrite(a)
  BY <1>12, <1>b DEF RehydrateWrite, Unpack
<1>13. CASE SnapshotWorkspace(a)
  BY <1>13, <1>b DEF SnapshotWorkspace
<1>14. CASE StatStored(a)
  BY <1>14 DEF StatStored
<1>15. CASE PutSnapshot(a)
  BY <1>15 DEF PutSnapshot, PutBack
<1>16. CASE MirrorWrite(a)
  BY <1>16 DEF MirrorWrite, PutBack
<1>17. CASE ReleaseExecutor(a)
  BY <1>17 DEF ReleaseExecutor
<1>18. CASE CloseBox(a)
  BY <1>18, <1>b DEF CloseBox
<1>19. CASE Return(a)
  BY <1>19 DEF Return
<1>20. QED
  BY <1>1, <1>2, <1>3, <1>4, <1>5, <1>6, <1>7, <1>8, <1>9, <1>10, <1>11,
     <1>12, <1>13, <1>14, <1>15, <1>16, <1>17, <1>18, <1>19 DEF ActorStep

LEMMA TypeNext ==
    ASSUME PoolInv, [Next]_vars
    PROVE  TypeOK'
<1>a. TypeOK
  BY DEF PoolInv
<1> USE <1>a, FaultType, GotoType, VersionType, PointType
    DEF TypeOK, maps, boxes, locals, bounds, ghosts
<1>1. CASE \E a \in Actors : ActorStep(a)
  BY <1>1, TypeActor
<1>2. ASSUME NEW c \in Callers, NEW k \in Kinds[c], Start(c, k)
      PROVE  TypeOK'
  <2>1. c \in Actors /\ k \in {"exec", "write", "read", "put"}
    BY SandboxAssumption DEF Actors
  <2>2. calls' \in 0..MaxCalls
    BY <1>2, SandboxAssumption DEF Start
  <2>3. QED
    BY <1>2, <2>1, <2>2 DEF Start, Begin
<1>3. CASE EvictIdle
  BY <1>3 DEF EvictIdle, Begin, Actors
<1>4. CASE MoveSession
  <2>1. calls' \in 0..MaxCalls
    BY <1>4, SandboxAssumption DEF MoveSession
  <2>2. QED
    BY <1>4, <2>1 DEF MoveSession, Begin, Actors
<1>5. CASE CloseAll
  BY <1>5 DEF CloseAll
<1>6. CASE Age
  BY <1>6 DEF Age
<1>7. ASSUME NEW b \in Boxes, BoxEnds(b)
      PROVE  TypeOK'
  BY <1>7 DEF BoxEnds
<1>8. CASE UNCHANGED vars
  BY <1>8 DEF vars
<1>9. QED
  BY <1>1, <1>2, <1>3, <1>4, <1>5, <1>6, <1>7, <1>8 DEF Next
-----------------------------------------------------------------------------
(* Where the actors are. *)

LEMMA PathInit == Init => PathInv
<1> SUFFICES ASSUME Init PROVE PathInv
  OBVIOUS
<1>1. Handler \in Actors /\ Sweeper \in Actors
  BY DEF Actors
<1>2. QED
  BY <1>1 DEF Init, PathInv, Path, Ways

\* Another actor's step leaves a's locals alone, and the pool's mutex, and
\* what it guards, if a has it.
LEMMA OthersPath ==
    ASSUME PoolInv, NEW a \in Actors, NEW o \in Actors, o # a, ActorStep(a)
    PROVE  /\ UNCHANGED <<pc[o], kind[o], ex[o], got[o], wrote[o], tried[o]>>
           /\ mutex = o => UNCHANGED <<mutex, pool>>
<1>1. pc[a] = "extract" => mutex = a
  BY DEF PoolInv, PathInv, Path
<1>2. Free \notin Actors
  BY ActorsApart
<1>3. TypeOK
  BY DEF PoolInv
<1> USE <1>1, <1>2, <1>3 DEF TypeOK, Goto, maps, locals
<1>11. CASE PutRelative(a)
  BY <1>11 DEF PutRelative
<1>12. CASE Touch(a)
  BY <1>12 DEF Touch
<1>13. CASE GetPooled(a)
  BY <1>13 DEF GetPooled
<1>14. CASE CreateBox(a)
  BY <1>14 DEF CreateBox
<1>15. CASE CreateRefused(a)
  BY <1>15 DEF CreateRefused
<1>16. CASE HydrateRead(a)
  BY <1>16 DEF HydrateRead
<1>17. CASE HydrateWrite(a)
  BY <1>17 DEF HydrateWrite
<1>18. CASE RunFails(a)
  BY <1>18 DEF RunFails
<1>19. CASE RunQuiet(a)
  BY <1>19 DEF RunQuiet
<1>20. CASE RunWrites(a)
  BY <1>20 DEF RunWrites
<1>21. CASE Recreate(a)
  BY <1>21 DEF Recreate
<1>22. CASE RehydrateWrite(a)
  BY <1>22 DEF RehydrateWrite
<1>23. CASE SnapshotWorkspace(a)
  BY <1>23 DEF SnapshotWorkspace
<1>24. CASE StatStored(a)
  BY <1>24 DEF StatStored
<1>25. CASE PutSnapshot(a)
  BY <1>25 DEF PutSnapshot, PutBack
<1>26. CASE MirrorWrite(a)
  BY <1>26 DEF MirrorWrite, PutBack
<1>27. CASE ReleaseExecutor(a)
  BY <1>27 DEF ReleaseExecutor
<1>28. CASE CloseBox(a)
  BY <1>28 DEF CloseBox
<1>29. CASE Return(a)
  BY <1>29 DEF Return
<1>30. QED
  BY <1>11, <1>12, <1>13, <1>14, <1>15, <1>16, <1>17, <1>18, <1>19, <1>20, <1>21, <1>22, <1>23, <1>24, <1>25, <1>26, <1>27, <1>28, <1>29
     DEF ActorStep

\* The actor that moves keeps to its path.
LEMMA OwnPath ==
    ASSUME PoolInv, NEW a \in Actors, ActorStep(a)
    PROVE  Path(a)'
<1>a. TypeOK /\ Path(a) /\ (pool # 0 => pool \in Boxes)
  BY DEF PoolInv, PathInv, TypeOK
<1>b. a \notin Callers => pc[a] # "run"
  BY DEF PoolInv, PathInv, Ways, Actors
<1> USE <1>a, <1>b DEF TypeOK, Goto, maps, locals, Path
<1>1. CASE PutRelative(a)
  BY <1>1 DEF PutRelative
<1>2. CASE Touch(a)
  BY <1>2 DEF Touch
<1>3. CASE GetPooled(a)
  BY <1>3 DEF GetPooled, Served
<1>4. CASE CreateBox(a)
  BY <1>4, Granting DEF CreateBox
<1>5. CASE CreateRefused(a)
  BY <1>5 DEF CreateRefused, Done
<1>6. CASE HydrateRead(a)
  BY <1>6 DEF HydrateRead
<1>7. CASE HydrateWrite(a)
  BY <1>7 DEF HydrateWrite, Served, Done
<1>8. CASE RunFails(a)
  BY <1>8 DEF RunFails, Failed
<1>9. CASE RunQuiet(a)
  BY <1>9 DEF RunQuiet
<1>10. CASE RunWrites(a)
  <2>1. writes + 1 # 0
    BY <1>a, SandboxAssumption DEF Versions
  <2>2. QED
    BY <1>10, <2>1 DEF RunWrites
<1>11. CASE Recreate(a)
  BY <1>11 DEF Recreate, Failed
<1>12. CASE RehydrateWrite(a)
  BY <1>12 DEF RehydrateWrite, Failed
<1>13. CASE SnapshotWorkspace(a)
  BY <1>13 DEF SnapshotWorkspace, Done
<1>14. CASE StatStored(a)
  BY <1>14, ActorsApart DEF StatStored, Done
<1>15. CASE PutSnapshot(a)
  BY <1>15, ActorsApart DEF PutSnapshot, PutBack, Done
<1>16. CASE MirrorWrite(a)
  BY <1>16, ActorsApart DEF MirrorWrite, PutBack, Done
<1>17. CASE ReleaseExecutor(a)
  BY <1>17 DEF ReleaseExecutor
<1>18. CASE CloseBox(a)
  BY <1>18 DEF CloseBox
<1>19. CASE Return(a)
  BY <1>19 DEF Return
<1>20. QED
  BY <1>1, <1>2, <1>3, <1>4, <1>5, <1>6, <1>7, <1>8, <1>9, <1>10, <1>11,
     <1>12, <1>13, <1>14, <1>15, <1>16, <1>17, <1>18, <1>19 DEF ActorStep

LEMMA ActorWays ==
    ASSUME PoolInv, NEW a \in Actors, ActorStep(a)
    PROVE  Ways'
<1>a. TypeOK /\ Ways /\ Sweeper \in Actors /\ Handler \in Actors
  BY DEF PoolInv, PathInv, Actors
<1>b. Sweeper # Handler
  BY ActorsApart
<1> USE <1>a, <1>b DEF TypeOK, Goto, maps, locals, Ways
<1>1. CASE PutRelative(a)
  BY <1>1 DEF PutRelative
<1>2. CASE Touch(a)
  BY <1>2 DEF Touch
<1>3. CASE GetPooled(a)
  BY <1>3 DEF GetPooled, Served
<1>4. CASE CreateBox(a)
  BY <1>4 DEF CreateBox
<1>5. CASE CreateRefused(a)
  BY <1>5 DEF CreateRefused, Done
<1>6. CASE HydrateRead(a)
  BY <1>6 DEF HydrateRead
<1>7. CASE HydrateWrite(a)
  BY <1>7 DEF HydrateWrite, Served, Done
<1>8. CASE RunFails(a)
  BY <1>8 DEF RunFails, Failed
<1>9. CASE RunQuiet(a)
  BY <1>9 DEF RunQuiet
<1>10. CASE RunWrites(a)
  BY <1>10 DEF RunWrites
<1>11. CASE Recreate(a)
  BY <1>11 DEF Recreate, Failed
<1>12. CASE RehydrateWrite(a)
  BY <1>12 DEF RehydrateWrite, Failed
<1>13. CASE SnapshotWorkspace(a)
  BY <1>13 DEF SnapshotWorkspace, Done
<1>14. CASE StatStored(a)
  BY <1>14 DEF StatStored, Done
<1>15. CASE PutSnapshot(a)
  BY <1>15 DEF PutSnapshot, PutBack, Done
<1>16. CASE MirrorWrite(a)
  BY <1>16 DEF MirrorWrite, PutBack, Done
<1>17. CASE ReleaseExecutor(a)
  BY <1>17 DEF ReleaseExecutor
<1>18. CASE CloseBox(a)
  BY <1>18 DEF CloseBox
<1>19. CASE Return(a)
  BY <1>19 DEF Return
<1>20. QED
  BY <1>1, <1>2, <1>3, <1>4, <1>5, <1>6, <1>7, <1>8, <1>9, <1>10, <1>11,
     <1>12, <1>13, <1>14, <1>15, <1>16, <1>17, <1>18, <1>19 DEF ActorStep

LEMMA PathNext ==
    ASSUME PoolInv, [Next]_vars
    PROVE  PathInv'
<1>a. TypeOK /\ Ways /\ \A a \in Actors : Path(a)
  BY DEF PoolInv, PathInv
<1>b. Sweeper \in Actors /\ Handler \in Actors /\ Sweeper # Handler
      /\ Free \notin Actors
  BY ActorsApart DEF Actors
<1>1. ASSUME NEW a \in Actors, ActorStep(a)
      PROVE  PathInv'
  <2>1. ASSUME NEW o \in Actors PROVE Path(o)'
    <3>1. CASE o = a
      BY <1>1, <3>1, OwnPath
    <3>2. CASE o # a
      <4>1. /\ UNCHANGED <<pc[o], kind[o], ex[o], got[o], wrote[o], tried[o]>>
            /\ mutex = o => UNCHANGED <<mutex, pool>>
        BY <1>1, <3>2, OthersPath
      <4>2. Path(o)
        BY <1>a
      <4>3. QED
        BY <4>1, <4>2 DEF Path
    <3>3. QED
      BY <3>1, <3>2
  <2>2. QED
    BY <1>1, <2>1, ActorWays DEF PathInv
<1>2. ASSUME NEW c \in Callers, NEW k \in Kinds[c], Start(c, k)
      PROVE  PathInv'
  <2>1. c \in Actors /\ c # Sweeper /\ c # Handler
    BY ActorsApart DEF Actors
  <2>2. QED
    BY <1>a, <1>b, <1>2, <2>1
       DEF Start, Goto, TypeOK, PathInv, Ways, Path, maps
<1>3. CASE EvictIdle
  BY <1>a, <1>b, <1>3 DEF EvictIdle, Goto, TypeOK, PathInv, Ways, Path, locals
<1>4. CASE MoveSession
  BY <1>a, <1>b, <1>4 DEF MoveSession, Goto, TypeOK, PathInv, Ways, Path, locals
<1>5. CASE CloseAll
  BY <1>a, <1>b, <1>5 DEF CloseAll, PathInv, Ways, Path, locals
<1>6. CASE Age
  BY <1>a, <1>6 DEF Age, PathInv, Ways, Path, locals
<1>7. ASSUME NEW b \in Boxes, BoxEnds(b)
      PROVE  PathInv'
  BY <1>a, <1>7 DEF BoxEnds, PathInv, Ways, Path, locals, maps
<1>8. CASE UNCHANGED vars
  BY <1>a, <1>8 DEF vars, PathInv, Ways, Path, locals, maps
<1>9. QED
  BY <1>1, <1>2, <1>3, <1>4, <1>5, <1>6, <1>7, <1>8 DEF Next
-----------------------------------------------------------------------------
(* Executors have a box. *)

LEMMA BoxInit == Init => BoxInv
  BY DEF Init, BoxInv

\* No step takes the box of an executor back, but for a newer one.
LEMMA StaysGranted ==
    ASSUME PoolInv, NEW a \in Actors, ActorStep(a), NEW e \in Boxes, Granted(e)
    PROVE  Granted(e)'
<1>a. TypeOK /\ boxOf[e] \in Boxes
  BY DEF PoolInv, TypeOK, Granted, Boxed
<1> USE <1>a DEF TypeOK, Goto, maps, boxes, Granted, Boxed
<1>1. CASE PutRelative(a)
  BY <1>1 DEF PutRelative
<1>2. CASE Touch(a)
  BY <1>2 DEF Touch
<1>3. CASE GetPooled(a)
  BY <1>3 DEF GetPooled
<1>4. CASE CreateBox(a)
  BY <1>4, Granting DEF CreateBox
<1>5. CASE CreateRefused(a)
  BY <1>5 DEF CreateRefused
<1>6. CASE HydrateRead(a)
  BY <1>6 DEF HydrateRead
<1>7. CASE HydrateWrite(a)
  BY <1>7 DEF HydrateWrite
<1>8. CASE RunFails(a)
  BY <1>8 DEF RunFails
<1>9. CASE RunQuiet(a)
  BY <1>9 DEF RunQuiet
<1>10. CASE RunWrites(a)
  BY <1>10 DEF RunWrites
<1>11. CASE Recreate(a)
  BY <1>11, Granting DEF Recreate
<1>12. CASE RehydrateWrite(a)
  BY <1>12 DEF RehydrateWrite
<1>13. CASE SnapshotWorkspace(a)
  BY <1>13 DEF SnapshotWorkspace
<1>14. CASE StatStored(a)
  BY <1>14 DEF StatStored
<1>15. CASE PutSnapshot(a)
  BY <1>15 DEF PutSnapshot, PutBack
<1>16. CASE MirrorWrite(a)
  BY <1>16 DEF MirrorWrite, PutBack
<1>17. CASE ReleaseExecutor(a)
  BY <1>17 DEF ReleaseExecutor
<1>18. CASE CloseBox(a)
  BY <1>18 DEF CloseBox
<1>19. CASE Return(a)
  BY <1>19 DEF Return
<1>20. QED
  BY <1>1, <1>2, <1>3, <1>4, <1>5, <1>6, <1>7, <1>8, <1>9, <1>10, <1>11,
     <1>12, <1>13, <1>14, <1>15, <1>16, <1>17, <1>18, <1>19 DEF ActorStep

\* The executors an actor's step brings into use: those it or the pool has,
\* or a new one.
LEMMA UsesGranted ==
    ASSUME PoolInv, NEW a \in Actors, ActorStep(a)
    PROVE  /\ pool' \in {0, pool, ex[a]}
           /\ ex'[a] \in {0, pool, ex[a]} \/ Boxed(ex'[a], life', boxOf')
<1>a. TypeOK
  BY DEF PoolInv
<1> USE <1>a DEF TypeOK, maps, boxes, locals
<1>1. CASE PutRelative(a)
  BY <1>1 DEF PutRelative
<1>2. CASE Touch(a)
  BY <1>2 DEF Touch
<1>3. CASE GetPooled(a)
  BY <1>3 DEF GetPooled
<1>4. CASE CreateBox(a)
  <2>1. /\ ex'[a] = NextBox /\ life'[NextBox] = "live"
        /\ boxOf'[NextBox] = NextBox /\ NextBox # 0 /\ pool' = pool
    BY <1>4, Granting DEF CreateBox
  <2>2. QED
    BY <2>1 DEF Boxed
<1>5. CASE CreateRefused(a)
  BY <1>5 DEF CreateRefused
<1>6. CASE HydrateRead(a)
  BY <1>6 DEF HydrateRead
<1>7. CASE HydrateWrite(a)
  BY <1>7 DEF HydrateWrite
<1>8. CASE RunFails(a)
  BY <1>8 DEF RunFails
<1>9. CASE RunQuiet(a)
  BY <1>9 DEF RunQuiet
<1>10. CASE RunWrites(a)
  BY <1>10 DEF RunWrites
<1>11. CASE Recreate(a)
  BY <1>11 DEF Recreate
<1>12. CASE RehydrateWrite(a)
  BY <1>12 DEF RehydrateWrite
<1>13. CASE SnapshotWorkspace(a)
  BY <1>13 DEF SnapshotWorkspace
<1>14. CASE StatStored(a)
  BY <1>14 DEF StatStored
<1>15. CASE PutSnapshot(a)
  BY <1>15 DEF PutSnapshot, PutBack
<1>16. CASE MirrorWrite(a)
  BY <1>16 DEF MirrorWrite, PutBack
<1>17. CASE ReleaseExecutor(a)
  BY <1>17 DEF ReleaseExecutor
<1>18. CASE CloseBox(a)
  BY <1>18 DEF CloseBox
<1>19. CASE Return(a)
  BY <1>19 DEF Return
<1>20. QED
  BY <1>1, <1>2, <1>3, <1>4, <1>5, <1>6, <1>7, <1>8, <1>9, <1>10, <1>11,
     <1>12, <1>13, <1>14, <1>15, <1>16, <1>17, <1>18, <1>19 DEF ActorStep

LEMMA Unfilled ==
    ASSUME PoolInv, NEW a \in Actors, ActorStep(a), NEW b \in Boxes,
           life'[b] = "none"
    PROVE  file'[b] = 0
<1>a. TypeOK /\ (life[b] = "none" => file[b] = 0)
  BY DEF PoolInv, BoxInv
<1>b. pc[a] \in {"extract", "run", "reextract", "snap", "close"}
          => Box(a) \in Boxes
  BY InUse DEF PoolInv, PathInv, Path
<1> USE <1>a, <1>b DEF TypeOK, boxes
<1>1. CASE PutRelative(a)
  BY <1>1 DEF PutRelative
<1>2. CASE Touch(a)
  BY <1>2 DEF Touch
<1>3. CASE GetPooled(a)
  BY <1>3 DEF GetPooled
<1>4. CASE CreateBox(a)
  BY <1>4, Granting DEF CreateBox
<1>5. CASE CreateRefused(a)
  BY <1>5 DEF CreateRefused
<1>6. CASE HydrateRead(a)
  BY <1>6 DEF HydrateRead
<1>7. CASE HydrateWrite(a)
  BY <1>7 DEF HydrateWrite, Unpack
<1>8. CASE RunFails(a)
  BY <1>8 DEF RunFails
<1>9. CASE RunQuiet(a)
  BY <1>9 DEF RunQuiet
<1>10. CASE RunWrites(a)
  BY <1>10 DEF RunWrites, LooksGone
<1>11. CASE Recreate(a)
  BY <1>11, Granting DEF Recreate
<1>12. CASE RehydrateWrite(a)
  BY <1>12 DEF RehydrateWrite, Unpack
<1>13. CASE SnapshotWorkspace(a)
  BY <1>13 DEF SnapshotWorkspace
<1>14. CASE StatStored(a)
  BY <1>14 DEF StatStored
<1>15. CASE PutSnapshot(a)
  BY <1>15 DEF PutSnapshot, PutBack
<1>16. CASE MirrorWrite(a)
  BY <1>16 DEF MirrorWrite, PutBack
<1>17. CASE ReleaseExecutor(a)
  BY <1>17 DEF ReleaseExecutor
<1>18. CASE CloseBox(a)
  BY <1>18 DEF CloseBox
<1>19. CASE Return(a)
  BY <1>19 DEF Return
<1>20. QED
  BY <1>1, <1>2, <1>3, <1>4, <1>5, <1>6, <1>7, <1>8, <1>9, <1>10, <1>11,
     <1>12, <1>13, <1>14, <1>15, <1>16, <1>17, <1>18, <1>19 DEF ActorStep

LEMMA BoxNext ==
    ASSUME PoolInv, [Next]_vars
    PROVE  BoxInv'
<1>a. TypeOK /\ BoxInv
  BY DEF PoolInv
<1>b. /\ pool # 0 => pool \in Boxes /\ Granted(pool)
      /\ \A a \in Actors : ex[a] # 0 => ex[a] \in Boxes /\ Granted(ex[a])
  BY <1>a DEF BoxInv, TypeOK
<1>1. ASSUME NEW a \in Actors, ActorStep(a)
      PROVE  BoxInv'
  <2>1. \A e \in Boxes : Granted(e) => Granted(e)'
    BY <1>1, StaysGranted
  <2>2. pool' # 0 => Boxed(pool', life', boxOf')
    BY <1>b, <1>1, <2>1, UsesGranted DEF Granted
  <2>3. ASSUME NEW o \in Actors, ex'[o] # 0
        PROVE  Boxed(ex'[o], life', boxOf')
    <3>1. CASE o = a
      BY <1>b, <1>1, <2>1, <2>3, <3>1, UsesGranted DEF Granted
    <3>2. CASE o # a
      <4>1. ex'[o] = ex[o]
        BY <1>1, <3>2, OthersPath
      <4>2. QED
        BY <1>b, <2>1, <2>3, <4>1 DEF Granted
    <3>3. QED
      BY <3>1, <3>2
  <2>4. \A b \in Boxes : life'[b] = "none" => file'[b] = 0
    BY <1>1, Unfilled
  <2>5. QED
    BY <2>2, <2>3, <2>4 DEF BoxInv, Granted
<1>2. ASSUME NEW c \in Callers, NEW k \in Kinds[c], Start(c, k)
      PROVE  BoxInv'
  BY <1>a, <1>2 DEF Start, BoxInv, Granted, boxes, maps
<1>3. CASE EvictIdle
  BY <1>a, <1>3 DEF EvictIdle, BoxInv, Granted, boxes, locals
<1>4. CASE MoveSession
  BY <1>a, <1>4 DEF MoveSession, BoxInv, Granted, boxes, locals
<1>5. CASE CloseAll
  <2>1. \A e \in Boxes : Granted(e) => Granted(e)'
    BY <1>a, <1>5 DEF CloseAll, Granted, Boxed, TypeOK
  <2>2. \A b \in Boxes : life'[b] = "none" => life[b] = "none"
    BY <1>a, <1>5 DEF CloseAll
  <2>3. QED
    BY <1>a, <1>b, <1>5, <2>1, <2>2 DEF CloseAll, BoxInv, locals
<1>6. CASE Age
  BY <1>a, <1>6 DEF Age, BoxInv, Granted, boxes, locals
<1>7. ASSUME NEW b \in Boxes, BoxEnds(b)
      PROVE  BoxInv'
  <2>1. \A e \in Boxes : Granted(e) => Granted(e)'
    BY <1>a, <1>7 DEF BoxEnds, Granted, Boxed, TypeOK
  <2>2. \A o \in Boxes : life'[o] = "none" => life[o] = "none"
    BY <1>a, <1>7 DEF BoxEnds, TypeOK
  <2>3. QED
    BY <1>a, <1>b, <1>7, <2>1, <2>2 DEF BoxEnds, BoxInv, locals, maps
<1>8. CASE UNCHANGED vars
  BY <1>a, <1>8 DEF vars, BoxInv, Granted, boxes, locals, maps
<1>9. QED
  BY <1>1, <1>2, <1>3, <1>4, <1>5, <1>6, <1>7, <1>8 DEF Next

THEOREM PoolHolds == Spec => []PoolInv
<1>1. Init => PoolInv
  BY TypeInit, PathInit, BoxInit DEF PoolInv
<1>2. PoolInv /\ [Next]_vars => PoolInv'
  <2> SUFFICES ASSUME PoolInv, [Next]_vars PROVE PoolInv'
    OBVIOUS
  <2> QED
    BY TypeNext, PathNext, BoxNext DEF PoolInv
<1>3. QED
  BY <1>1, <1>2, PTL DEF Spec

\* The pool, the boxes and the actors keep their types.
THEOREM TypeCorrect == Spec => []TypeOK
<1>1. PoolInv => TypeOK
  BY DEF PoolInv
<1>2. QED
  BY <1>1, PoolHolds, PTL
-----------------------------------------------------------------------------
(* Live boxes have an owner. *)

InPool(b)   == pool # 0 /\ boxOf[pool] = b
Held(o, b)  == pc[o] \in {"hydrate", "extract", "close"} /\ Box(o) = b
HasOwner(b) == b \in stray \/ InPool(b) \/ \E o \in Actors : Held(o, b)

LEMMA OwnersAre ==
    ASSUME NEW b
    PROVE  HasOwner(b) <=> b \in Owned \cup stray
  BY DEF HasOwner, InPool, Held, Owned

\* Which steps touch what makes an owner.
LEMMA OwnersFrame ==
    ASSUME PoolInv, NEW a \in Actors, ActorStep(a)
    PROVE  /\ stray \subseteq stray'
           /\ \/ CreateBox(a) \/ Recreate(a)
              \/ UNCHANGED boxOf
                 /\ \A b \in Boxes : life'[b] = "live" => life[b] = "live"
           /\ HydrateWrite(a) \/ ReleaseExecutor(a) \/ UNCHANGED pool
           /\ pc[a] \in {"hydrate", "extract", "close"}
                  => HydrateRead(a) \/ HydrateWrite(a) \/ CloseBox(a)
<1>a. TypeOK
  BY DEF PoolInv
<1> USE <1>a DEF TypeOK, maps, boxes, ghosts
<1>1. CASE PutRelative(a)
  BY <1>1 DEF PutRelative
<1>2. CASE Touch(a)
  BY <1>2 DEF Touch
<1>3. CASE GetPooled(a)
  BY <1>3 DEF GetPooled
<1>4. CASE CreateBox(a)
  BY <1>4 DEF CreateBox
<1>5. CASE CreateRefused(a)
  BY <1>5 DEF CreateRefused
<1>6. CASE HydrateRead(a)
  BY <1>6 DEF HydrateRead
<1>7. CASE HydrateWrite(a)
  BY <1>7 DEF HydrateWrite
<1>8. CASE RunFails(a)
  BY <1>8 DEF RunFails
<1>9. CASE RunQuiet(a)
  BY <1>9 DEF RunQuiet
<1>10. CASE RunWrites(a)
  BY <1>10 DEF RunWrites
<1>11. CASE Recreate(a)
  BY <1>11 DEF Recreate
<1>12. CASE RehydrateWrite(a)
  BY <1>12 DEF RehydrateWrite
<1>13. CASE SnapshotWorkspace(a)
  BY <1>13 DEF SnapshotWorkspace
<1>14. CASE StatStored(a)
  BY <1>14 DEF StatStored
<1>15. CASE PutSnapshot(a)
  BY <1>15 DEF PutSnapshot, PutBack
<1>16. CASE MirrorWrite(a)
  BY <1>16 DEF MirrorWrite, PutBack
<1>17. CASE ReleaseExecutor(a)
  BY <1>17 DEF ReleaseExecutor
<1>18. CASE CloseBox(a)
  BY <1>18 DEF CloseBox
<1>19. CASE Return(a)
  BY <1>19 DEF Return
<1>20. QED
  BY <1>1, <1>2, <1>3, <1>4, <1>5, <1>6, <1>7, <1>8, <1>9, <1>10, <1>11,
     <1>12, <1>13, <1>14, <1>15, <1>16, <1>17, <1>18, <1>19 DEF ActorStep

\* The box of an actor other than the one that moves.
LEMMA OtherHolds ==
    ASSUME PoolInv, NEW a \in Actors, ActorStep(a), NEW o \in Actors, o # a,
           NEW b \in Boxes, Held(o, b), life'[b] = "live"
    PROVE  Held(o, b)' \/ b \in stray'
<1>1. UNCHANGED <<pc[o], ex[o]>>
  BY OthersPath
<1>2. ex[o] \in Boxes /\ life[ex[o]] # "none" /\ boxOf[ex[o]] = b
      /\ life[b] # "none"
  BY InUse DEF Held, PoolInv, PathInv, Path
<1>3. boxOf'[ex[o]] = b => Held(o, b)'
  BY <1>1 DEF Held, Box
<1>4. CASE UNCHANGED boxOf
  BY <1>2, <1>3, <1>4
<1>5. CASE CreateBox(a)
  <2>1. boxOf'[ex[o]] = boxOf[ex[o]]
    BY <1>2, <1>5, Granting DEF CreateBox, PoolInv, TypeOK
  <2>2. QED
    BY <1>2, <1>3, <2>1
<1>6. CASE Recreate(a)
  <2>1. CASE boxOf'[ex[o]] = boxOf[ex[o]]
    BY <1>2, <1>3, <2>1
  <2>2. CASE boxOf'[ex[o]] # boxOf[ex[o]]
    <3>1. ex[o] = ex[a] /\ life' = [life EXCEPT ![NextBox] = "live"]
          /\ Unused # {}
          /\ \A x \in {y \in {Box(a)} : life[y] = "live"} : x \in stray'
      BY <1>2, <1>6, <2>2 DEF Recreate, PoolInv, TypeOK
    <3>2. Box(a) = b
      BY <1>2, <3>1 DEF Box
    <3>3. life[b] = "live"
      BY <1>2, <3>1, Granting DEF PoolInv, TypeOK
    <3>4. QED
      BY <3>1, <3>2, <3>3
  <2>3. QED
    BY <2>1, <2>2
<1>7. QED
  BY <1>4, <1>5, <1>6, OwnersFrame

\* The box in the hands of the actor that moves.
LEMMA OwnHolds ==
    ASSUME PoolInv, NEW a \in Actors, ActorStep(a),
           NEW b \in Boxes, Held(a, b), life'[b] = "live"
    PROVE  HasOwner(b)'
<1>1. ex[a] \in Boxes /\ ex[a] # 0 /\ boxOf[ex[a]] = b /\ Box(a) = b
  BY InUse DEF Held, PoolInv, PathInv, Path, Box
<1>2. CASE HydrateRead(a)
  <2>1. Held(a, b)'
    BY <1>1, <1>2 DEF HydrateRead, Held, Box, Goto, PoolInv, TypeOK, boxes
  <2>2. QED
    BY <2>1 DEF HasOwner
<1>3. CASE HydrateWrite(a)
  <2>1. InPool(b)' \/ b \in stray'
    BY <1>1, <1>3 DEF HydrateWrite, InPool, PoolInv, TypeOK
  <2>2. QED
    BY <2>1 DEF HasOwner
<1>4. CASE CloseBox(a)
  <2>1. b \in stray'
    BY <1>1, <1>4 DEF CloseBox, PoolInv, TypeOK
  <2>2. QED
    BY <2>1 DEF HasOwner
<1>5. QED
  BY <1>2, <1>3, <1>4, OwnersFrame DEF Held

\* The box of the pool's executor.
LEMMA PoolHoldsIt ==
    ASSUME PoolInv, NEW a \in Actors, ActorStep(a),
           NEW b \in Boxes, InPool(b), life'[b] = "live"
    PROVE  HasOwner(b)'
<1>1. TypeOK /\ pool \in Boxes /\ life[pool] # "none" /\ life[b] # "none"
  BY DEF PoolInv, BoxInv, Granted, Boxed, InPool, TypeOK
<1>2. CASE HydrateWrite(a)
  BY <1>2 DEF HydrateWrite, PoolInv, PathInv, Path, InPool
<1>3. CASE ReleaseExecutor(a)
  <2>1. pc'[a] = "close" /\ ex'[a] = pool /\ boxOf'[pool] = b
    BY <1>1, <1>3 DEF ReleaseExecutor, InPool, Goto, TypeOK, boxes
  <2>2. Held(a, b)'
    BY <2>1 DEF Held, Box
  <2>3. QED
    BY <2>2 DEF HasOwner
<1>4. CASE Recreate(a)
  <2>1. CASE boxOf'[pool] = boxOf[pool]
    BY <1>4, <2>1 DEF Recreate, InPool, HasOwner, maps
  <2>2. CASE boxOf'[pool] # boxOf[pool]
    <3>1. pool = ex[a] /\ life' = [life EXCEPT ![NextBox] = "live"]
          /\ Unused # {}
          /\ \A x \in {y \in {Box(a)} : life[y] = "live"} : x \in stray'
      BY <1>1, <1>4, <2>2 DEF Recreate, TypeOK
    <3>2. Box(a) = b
      BY <3>1 DEF Box, InPool
    <3>3. life[b] = "live"
      BY <1>1, <3>1, Granting DEF TypeOK
    <3>4. QED
      BY <3>1, <3>2, <3>3 DEF HasOwner
  <2>3. QED
    BY <2>1, <2>2
<1>5. CASE CreateBox(a)
  BY <1>5 DEF CreateBox, InPool
<1>6. CASE UNCHANGED pool /\ UNCHANGED boxOf
  BY <1>6 DEF HasOwner, InPool
<1>7. QED
  BY <1>2, <1>3, <1>4, <1>5, <1>6, OwnersFrame

\* A box that starts to live.
LEMMA NewHasOwner ==
    ASSUME PoolInv, NEW a \in Actors, ActorStep(a),
           NEW b \in Boxes, life[b] # "live", life'[b] = "live"
    PROVE  HasOwner(b)'
<1>1. TypeOK
  BY DEF PoolInv
<1>2. CASE CreateBox(a)
  <2>1. b = NextBox /\ pc'[a] = "hydrate" /\ ex'[a] = b /\ boxOf'[b] = b
    BY <1>1, <1>2, Granting DEF CreateBox, Goto, TypeOK
  <2>2. Held(a, b)'
    BY <2>1 DEF Held, Box
  <2>3. QED
    BY <2>2 DEF HasOwner
<1>3. CASE Recreate(a)
  <2>1. ex[a] \in Boxes
    BY <1>3, InUse DEF Recreate, PoolInv, PathInv, Path
  <2>2. b = NextBox /\ boxOf'[ex[a]] = b /\ pool' = pool
        /\ \A x \in {y \in {NextBox} : pool # ex[a]} : x \in stray'
    BY <1>1, <1>3, <2>1, Granting DEF Recreate, TypeOK, maps
  <2>3. CASE pool = ex[a]
    <3>1. pool # 0
      BY <2>1, <2>3 DEF Boxes
    <3>2. QED
      BY <2>2, <2>3, <3>1 DEF HasOwner, InPool
  <2>4. CASE pool # ex[a]
    BY <2>2, <2>4 DEF HasOwner
  <2>5. QED
    BY <2>3, <2>4
<1>4. QED
  BY <1>2, <1>3, OwnersFrame

Owners == \A b \in Boxes : life[b] = "live" => HasOwner(b)

LEMMA OwnersNext ==
    ASSUME PoolInv, Owners, [Next]_vars
    PROVE  Owners'
<1>1. ASSUME NEW a \in Actors, ActorStep(a), NEW b \in Boxes, life'[b] = "live"
      PROVE  HasOwner(b)'
  <2>1. CASE life[b] # "live"
    BY <1>1, <2>1, NewHasOwner
  <2>2. CASE b \in stray
    BY <1>1, <2>2, OwnersFrame DEF HasOwner
  <2>3. CASE InPool(b)
    BY <1>1, <2>3, PoolHoldsIt
  <2>4. CASE Held(a, b)
    BY <1>1, <2>4, OwnHolds
  <2>5. ASSUME NEW o \in Actors, Held(o, b), o # a PROVE HasOwner(b)'
    <3>1. Held(o, b)' \/ b \in stray'
      BY <1>1, <2>5, OtherHolds
    <3>2. QED
      BY <3>1 DEF HasOwner
  <2>6. QED
    BY <2>1, <2>2, <2>3, <2>4, <2>5 DEF Owners, HasOwner
<1>2. ASSUME NEW c \in Callers, NEW k \in Kinds[c], Start(c, k)
      PROVE  Owners'
  <2>1. \A o \in Actors, b \in Boxes : Held(o, b) => Held(o, b)'
    BY <1>2 DEF Start, Held, Box, Goto, PoolInv, TypeOK, boxes
  <2>2. QED
    BY <1>2, <2>1 DEF Start, Owners, HasOwner, InPool, boxes, maps
<1>3. CASE EvictIdle
  <2>1. \A o \in Actors, b \in Boxes : Held(o, b) => Held(o, b)'
    BY <1>3 DEF EvictIdle, Held, Box, Goto, PoolInv, TypeOK, boxes, locals
  <2>2. QED
    BY <1>3, <2>1 DEF EvictIdle, Owners, HasOwner, InPool, boxes
<1>4. CASE MoveSession
  <2>1. \A o \in Actors, b \in Boxes : Held(o, b) => Held(o, b)'
    BY <1>4 DEF MoveSession, Held, Box, Goto, PoolInv, TypeOK, boxes, locals
  <2>2. QED
    BY <1>4, <2>1 DEF MoveSession, Owners, HasOwner, InPool, boxes
<1>5. CASE CloseAll
  <2>1. \A o \in Actors, b \in Boxes : Held(o, b) => Held(o, b)'
    BY <1>5 DEF CloseAll, Held, Box, locals
  <2>2. ASSUME NEW b \in Boxes, life'[b] = "live"
        PROVE  life[b] = "live" /\ ~InPool(b)
    BY <1>5, <2>2 DEF CloseAll, InPool
  <2>3. stray' = stray
    BY <1>5 DEF CloseAll
  <2>4. QED
    BY <2>1, <2>2, <2>3 DEF Owners, HasOwner
<1>6. CASE Age
  BY <1>6 DEF Age, Owners, HasOwner, InPool, Held, Box, boxes, locals, ghosts
<1>7. ASSUME NEW b \in Boxes, BoxEnds(b)
      PROVE  Owners'
  <2>1. \A o \in Boxes : life'[o] = "live" => life[o] = "live"
    BY <1>7 DEF BoxEnds, PoolInv, TypeOK
  <2>2. QED
    BY <1>7, <2>1
       DEF BoxEnds, Owners, HasOwner, InPool, Held, Box, locals, maps, ghosts
<1>8. CASE UNCHANGED vars
  BY <1>8 DEF vars, Owners, HasOwner, InPool, Held, Box, boxes, locals, maps, ghosts
<1>9. QED
  BY <1>1, <1>2, <1>3, <1>4, <1>5, <1>6, <1>7, <1>8 DEF Next, Owners
-----------------------------------------------------------------------------
(* The pool's box can be used. *)

Replaces(c) == ex[c] = pool /\ pc[c] \in {"rehydrate", "reextract"}

Usable == \/ life[boxOf[pool]] = "gone"
          \/ boxOf[pool] \in ready \cup half
          \/ \E c \in Callers : Replaces(c)

\* Which steps touch what makes a box usable.
LEMMA UsableFrame ==
    ASSUME PoolInv, NEW a \in Actors, ActorStep(a)
    PROVE  /\ ready \subseteq ready' /\ half \subseteq half'
           /\ \A b \in Boxes : life[b] = "gone" => life'[b] = "gone"
           /\ pc[a] \in {"rehydrate", "reextract"}
                  => (HydrateRead(a) \/ RehydrateWrite(a))
<1>a. TypeOK
  BY DEF PoolInv
<1> USE <1>a DEF TypeOK, maps, boxes, ghosts
<1>1. CASE PutRelative(a)
  BY <1>1 DEF PutRelative
<1>2. CASE Touch(a)
  BY <1>2 DEF Touch
<1>3. CASE GetPooled(a)
  BY <1>3 DEF GetPooled
<1>4. CASE CreateBox(a)
  BY <1>4, Granting DEF CreateBox
<1>5. CASE CreateRefused(a)
  BY <1>5 DEF CreateRefused
<1>6. CASE HydrateRead(a)
  BY <1>6 DEF HydrateRead
<1>7. CASE HydrateWrite(a)
  BY <1>7 DEF HydrateWrite, Unpack
<1>8. CASE RunFails(a)
  BY <1>8 DEF RunFails
<1>9. CASE RunQuiet(a)
  BY <1>9 DEF RunQuiet
<1>10. CASE RunWrites(a)
  BY <1>10 DEF RunWrites
<1>11. CASE Recreate(a)
  BY <1>11, Granting DEF Recreate
<1>12. CASE RehydrateWrite(a)
  BY <1>12 DEF RehydrateWrite, Unpack
<1>13. CASE SnapshotWorkspace(a)
  BY <1>13 DEF SnapshotWorkspace
<1>14. CASE StatStored(a)
  BY <1>14 DEF StatStored
<1>15. CASE PutSnapshot(a)
  BY <1>15 DEF PutSnapshot, PutBack
<1>16. CASE MirrorWrite(a)
  BY <1>16 DEF MirrorWrite, PutBack
<1>17. CASE ReleaseExecutor(a)
  BY <1>17 DEF ReleaseExecutor
<1>18. CASE CloseBox(a)
  BY <1>18 DEF CloseBox
<1>19. CASE Return(a)
  BY <1>19 DEF Return
<1>20. QED
  BY <1>1, <1>2, <1>3, <1>4, <1>5, <1>6, <1>7, <1>8, <1>9, <1>10, <1>11,
     <1>12, <1>13, <1>14, <1>15, <1>16, <1>17, <1>18, <1>19 DEF ActorStep

LEMMA UsableActor ==
    ASSUME PoolInv, NEW a \in Actors, ActorStep(a), pool # 0, pool' # 0, Usable
    PROVE  Usable'
<1>1. TypeOK /\ pool \in Boxes /\ boxOf[pool] \in Boxes
      /\ life[boxOf[pool]] # "none"
  BY DEF PoolInv, BoxInv, Granted, Boxed, TypeOK
<1>2. CASE CreateBox(a) \/ HydrateWrite(a)
  BY <1>2 DEF CreateBox, HydrateWrite, PoolInv, PathInv, Path
<1>3. CASE ReleaseExecutor(a)
  BY <1>3 DEF ReleaseExecutor
<1>4. CASE Recreate(a)
  <2>1. a \in Callers
    BY <1>4 DEF Recreate, PoolInv, PathInv, Ways, Actors
  <2>2. CASE boxOf' = boxOf /\ pc'[a] # "rehydrate"
    <3>1. pool' = pool /\ \A c \in Callers : Replaces(c) => Replaces(c)'
      <4>1. pool' = pool /\ pc[a] = "run"
        BY <1>4 DEF Recreate, maps
      <4>2. ASSUME NEW c \in Callers, Replaces(c) PROVE Replaces(c)'
        <5>1. c # a /\ c \in Actors
          BY <4>1, <4>2 DEF Replaces, Actors
        <5>2. QED
          BY <4>1, <4>2, <5>1, OthersPath DEF Replaces
      <4>3. QED
        BY <4>1, <4>2
    <3>2. QED
      BY <1>1, <2>2, <3>1, UsableFrame DEF Usable
  <2>3. CASE pc'[a] = "rehydrate" /\ ex[a] = pool
    <3>1. Replaces(a)'
      BY <1>4, <2>3 DEF Recreate, Replaces, maps
    <3>2. QED
      BY <2>1, <3>1 DEF Usable
  <2>4. CASE boxOf' = [boxOf EXCEPT ![ex[a]] = NextBox] /\ ex[a] # pool
    <3>1. pool' = pool /\ pc[a] = "run" /\ boxOf'[pool] = boxOf[pool]
      BY <1>1, <1>4, <2>4 DEF Recreate, maps, TypeOK
    <3>2. ASSUME NEW c \in Callers, Replaces(c) PROVE Replaces(c)'
      <4>1. c # a /\ c \in Actors
        BY <3>1, <3>2 DEF Replaces, Actors
      <4>2. QED
        BY <3>1, <3>2, <4>1, OthersPath DEF Replaces
    <3>3. QED
      BY <1>1, <3>1, <3>2, UsableFrame DEF Usable
  <2>5. QED
    <3>1. \/ boxOf' = [boxOf EXCEPT ![ex[a]] = NextBox] /\ pc'[a] = "rehydrate"
          \/ boxOf' = boxOf /\ pc'[a] = Failed(a)
      BY <1>1, <1>4 DEF Recreate, Goto, TypeOK
    <3>2. Failed(a) # "rehydrate"
      BY DEF Failed
    <3>3. QED
      BY <2>2, <2>3, <2>4, <3>1, <3>2
<1>5. ASSUME pool' = pool, boxOf' = boxOf
      PROVE  Usable'
  <2>1. CASE life[boxOf[pool]] = "gone" \/ boxOf[pool] \in ready \cup half
    BY <1>1, <1>5, <2>1, UsableFrame DEF Usable
  <2>2. ASSUME NEW c \in Callers, Replaces(c) PROVE Usable'
    <3>1. c \in Actors
      BY DEF Actors
    <3>2. CASE c # a
      <4>1. Replaces(c)'
        BY <1>5, <2>2, <3>1, <3>2, OthersPath DEF Replaces
      <4>2. QED
        BY <4>1 DEF Usable
    <3>3. CASE c = a /\ HydrateRead(a)
      <4>1. Replaces(a)'
        BY <1>1, <1>5, <2>2, <3>3 DEF HydrateRead, Replaces, Goto, TypeOK
      <4>2. QED
        BY <3>3, <4>1 DEF Usable
    <3>4. CASE c = a /\ RehydrateWrite(a)
      <4>1. Box(a) \in ready' \cup half'
        BY <3>4 DEF RehydrateWrite, Unpack
      <4>2. Box(a) = boxOf[pool]
        BY <2>2, <3>4 DEF Replaces, Box
      <4>3. QED
        BY <1>5, <4>1, <4>2 DEF Usable
    <3>5. QED
      BY <2>2, <3>2, <3>3, <3>4, UsableFrame DEF Replaces
  <2>3. QED
    BY <2>1, <2>2 DEF Usable
<1>6. QED
  BY <1>2, <1>3, <1>4, <1>5, OwnersFrame

LEMMA UsableNew ==
    ASSUME PoolInv, NEW a \in Actors, ActorStep(a), pool = 0, pool' # 0
    PROVE  Usable'
<1>1. HydrateWrite(a)
  BY OwnersFrame DEF ReleaseExecutor
<1>2. pool' = ex[a] /\ Box(a) \in ready' /\ boxOf' = boxOf
  BY <1>1 DEF HydrateWrite, Unpack
<1>3. QED
  BY <1>2 DEF Usable, Box

LEMMA PooledNext ==
    ASSUME PoolInv, pool # 0 => Usable, [Next]_vars
    PROVE  (pool # 0 => Usable)'
<1> DEFINE P == pool # 0 => Usable
<1>a. P /\ TypeOK
  BY DEF PoolInv
<1>1. ASSUME NEW a \in Actors, ActorStep(a) PROVE P'
  BY <1>a, <1>1, UsableActor, UsableNew
<1>2. ASSUME NEW c \in Callers, NEW k \in Kinds[c], Start(c, k) PROVE P'
  <2>1. \A o \in Callers : Replaces(o) => Replaces(o)'
    BY <1>a, <1>2 DEF Start, Replaces, Goto, TypeOK, maps
  <2>2. QED
    BY <1>a, <1>2, <2>1 DEF Start, Usable, boxes, maps
<1>3. CASE EvictIdle
  <2>1. \A o \in Callers : Replaces(o) => Replaces(o)'
    BY <1>a, <1>3, ActorsApart DEF EvictIdle, Replaces, Goto, TypeOK, locals
  <2>2. QED
    BY <1>a, <1>3, <2>1 DEF EvictIdle, Usable, boxes
<1>4. CASE MoveSession
  <2>1. \A o \in Callers : Replaces(o) => Replaces(o)'
    BY <1>a, <1>4, ActorsApart DEF MoveSession, Replaces, Goto, TypeOK, locals
  <2>2. QED
    BY <1>a, <1>4, <2>1 DEF MoveSession, Usable, boxes
<1>5. CASE CloseAll
  BY <1>5 DEF CloseAll
<1>6. CASE Age
  BY <1>a, <1>6 DEF Age, Usable, Replaces, boxes, locals, ghosts
<1>7. ASSUME NEW b \in Boxes, BoxEnds(b) PROVE P'
  <2>1. \A o \in Boxes : life[o] = "gone" => life'[o] = "gone"
    BY <1>a, <1>7 DEF BoxEnds, TypeOK
  <2>2. pool # 0 => boxOf[pool] \in Boxes
    BY DEF PoolInv, BoxInv, Granted, Boxed, TypeOK
  <2>3. QED
    BY <1>a, <1>7, <2>1, <2>2 DEF BoxEnds, Usable, Replaces, locals, maps, ghosts
<1>8. CASE UNCHANGED vars
  BY <1>a, <1>8 DEF vars, Usable, Replaces, boxes, locals, maps, ghosts
<1>9. QED
  BY <1>1, <1>2, <1>3, <1>4, <1>5, <1>6, <1>7, <1>8 DEF Next

\* Each live box has an owner that can release it or was left behind by
\* recreate or a failed delete, and the pool's box can be used.
THEOREM BoxesSoundHolds == Spec => []BoxesSound
<1> DEFINE I == PoolInv /\ Owners /\ (pool # 0 => Usable)
<1>1. Init => I
  <2>1. Init => Owners /\ pool = 0
    BY DEF Init, Owners
  <2>2. QED
    BY <2>1, TypeInit, PathInit, BoxInit DEF PoolInv
<1>2. I /\ [Next]_vars => I'
  <2> SUFFICES ASSUME I, [Next]_vars PROVE I'
    OBVIOUS
  <2>1. PoolInv'
    BY TypeNext, PathNext, BoxNext DEF PoolInv
  <2>2. QED
    BY <2>1, OwnersNext, PooledNext
<1>3. I => BoxesSound
  <2> SUFFICES ASSUME I PROVE BoxesSound
    OBVIOUS
  <2>1. NoBoxLost
    BY OwnersAre DEF Owners, NoBoxLost
  <2>2. PooledUsable
    BY DEF PooledUsable, Usable, Replaces
  <2>3. QED
    BY <2>1, <2>2 DEF BoxesSound
<1>4. QED
  BY <1>1, <1>2, <1>3, PTL DEF Spec
-----------------------------------------------------------------------------
(* The store is not set back. *)

LEMMA Numbers ==
    ASSUME TypeOK
    PROVE  /\ store \in Nat /\ writes \in Nat
           /\ \A b \in Boxes : file[b] \in Nat
           /\ \A a \in Actors : got[a] \in Nat /\ wrote[a] \in Nat
<1>1. Versions \subseteq Nat
  BY SandboxAssumption DEF Versions
<1>2. QED
  BY <1>1 DEF TypeOK

LEMMA VersionInit == Init => VersionInv
<1> SUFFICES ASSUME Init PROVE VersionInv
  OBVIOUS
<1>1. QED
  BY DEF Init, VersionInv

LEMMA VersionActor ==
    ASSUME PoolInv, VersionInv, NEW a \in Actors, ActorStep(a)
    PROVE  VersionInv'
<1>a. TypeOK
  BY DEF PoolInv
<1>b. pc[a] \in {"extract", "run", "reextract", "snap"}
          => ex[a] \in Boxes /\ Box(a) \in Boxes
  BY InUse DEF PoolInv, PathInv, Path
<1> USE <1>a, <1>b, Numbers DEF TypeOK, VersionInv, maps, boxes, locals, bounds
<1>1. CASE PutRelative(a)
  BY <1>1 DEF PutRelative
<1>2. CASE Touch(a)
  BY <1>2 DEF Touch
<1>3. CASE GetPooled(a)
  BY <1>3 DEF GetPooled
<1>4. CASE CreateBox(a)
  BY <1>4 DEF CreateBox
<1>5. CASE CreateRefused(a)
  BY <1>5 DEF CreateRefused
<1>6. CASE HydrateRead(a)
  BY <1>6 DEF HydrateRead
<1>7. CASE HydrateWrite(a)
  BY <1>7 DEF HydrateWrite, Unpack
<1>8. CASE RunFails(a)
  BY <1>8 DEF RunFails
<1>9. CASE RunQuiet(a)
  BY <1>9 DEF RunQuiet
<1>10. CASE RunWrites(a)
  BY <1>10 DEF RunWrites
<1>11. CASE Recreate(a)
  BY <1>11 DEF Recreate
<1>12. CASE RehydrateWrite(a)
  BY <1>12 DEF RehydrateWrite, Unpack
<1>13. CASE SnapshotWorkspace(a)
  BY <1>13 DEF SnapshotWorkspace
<1>14. CASE StatStored(a)
  BY <1>14 DEF StatStored
<1>15. CASE PutSnapshot(a)
  BY <1>15 DEF PutSnapshot, PutBack
<1>16. CASE MirrorWrite(a)
  BY <1>16 DEF MirrorWrite, PutBack
<1>17. CASE ReleaseExecutor(a)
  BY <1>17 DEF ReleaseExecutor
<1>18. CASE CloseBox(a)
  BY <1>18 DEF CloseBox
<1>19. CASE Return(a)
  BY <1>19 DEF Return
<1>20. QED
  BY <1>1, <1>2, <1>3, <1>4, <1>5, <1>6, <1>7, <1>8, <1>9, <1>10, <1>11,
     <1>12, <1>13, <1>14, <1>15, <1>16, <1>17, <1>18, <1>19 DEF ActorStep

LEMMA VersionNext ==
    ASSUME PoolInv, VersionInv, [Next]_vars
    PROVE  VersionInv'
<1> USE DEF VersionInv, boxes, locals, bounds
<1>1. ASSUME NEW a \in Actors, ActorStep(a) PROVE VersionInv'
  BY <1>1, VersionActor
<1>2. ASSUME NEW c \in Callers, NEW k \in Kinds[c], Start(c, k)
      PROVE  VersionInv'
  BY <1>2 DEF Start
<1>3. CASE EvictIdle
  BY <1>3 DEF EvictIdle
<1>4. CASE MoveSession
  BY <1>4 DEF MoveSession
<1>5. CASE CloseAll
  BY <1>5 DEF CloseAll
<1>6. CASE Age
  BY <1>6 DEF Age
<1>7. ASSUME NEW b \in Boxes, BoxEnds(b) PROVE VersionInv'
  BY <1>7 DEF BoxEnds
<1>8. CASE UNCHANGED vars
  BY <1>8 DEF vars
<1>9. QED
  BY <1>1, <1>2, <1>3, <1>4, <1>5, <1>6, <1>7, <1>8 DEF Next

\* A step of the only actor at work, with the pool's file.
LEMMA OwnFresh ==
    ASSUME StoreInv, ~crossed, NEW a \in Actors, ActorStep(a)
    PROVE  Fresh(a)' /\ (pool' # 0 => Newest(file[boxOf[pool]])')
<1>a. TypeOK /\ VersionInv /\ Fresh(a) /\ Path(a)
      /\ (pool # 0 => Newest(file[boxOf[pool]]))
  BY DEF StoreInv, PoolInv, FreshInv, PathInv
<1>b. ex[a] # 0 => /\ ex[a] \in Boxes /\ Box(a) \in Boxes
                   /\ life[Box(a)] # "none" /\ life[ex[a]] # "none"
  BY InUse DEF StoreInv
<1>c. pool # 0 => pool \in Boxes /\ boxOf[pool] \in Boxes
  BY DEF StoreInv, PoolInv, BoxInv, Granted, Boxed, TypeOK
<1>d. a = Sweeper => wrote[a] = 0
  BY <1>a, ActorsApart DEF Path
<1>e. \A b \in Boxes : life[b] = "none" => file[b] = 0
  BY DEF StoreInv, PoolInv, BoxInv
<1> USE <1>a, <1>b, <1>c, <1>d, Numbers DEF TypeOK, Fresh, Path, Newest, Box, Goto, maps, boxes, locals, ghosts
<1>1. CASE PutRelative(a)
  BY <1>1 DEF PutRelative, VersionInv
<1>2. CASE Touch(a)
  BY <1>2 DEF Touch
<1>3. CASE GetPooled(a)
  BY <1>3 DEF GetPooled, Served
<1>4. CASE CreateBox(a)
  BY <1>4, <1>e, Granting DEF CreateBox
<1>5. CASE CreateRefused(a)
  BY <1>5 DEF CreateRefused, Done
<1>6. CASE HydrateRead(a)
  BY <1>6 DEF HydrateRead
<1>7. CASE HydrateWrite(a)
  BY <1>7 DEF HydrateWrite, Unpack, Served, Done
<1>8. CASE RunFails(a)
  BY <1>8 DEF RunFails, Failed
<1>9. CASE RunQuiet(a)
  BY <1>9 DEF RunQuiet
<1>10. CASE RunWrites(a)
  BY <1>10 DEF RunWrites, VersionInv
<1>11. CASE Recreate(a)
  BY <1>11, <1>e, Granting DEF Recreate, Failed
<1>12. CASE RehydrateWrite(a)
  BY <1>12 DEF RehydrateWrite, Unpack, Failed
<1>13. CASE SnapshotWorkspace(a)
  BY <1>13 DEF SnapshotWorkspace, Done
<1>14. CASE StatStored(a)
  BY <1>14 DEF StatStored, Done, InStore
<1>15. CASE PutSnapshot(a)
  BY <1>15 DEF PutSnapshot, PutBack, Done, InStore
<1>16. CASE MirrorWrite(a)
  BY <1>16 DEF MirrorWrite, PutBack, Done, InStore
<1>17. CASE ReleaseExecutor(a)
  BY <1>17 DEF ReleaseExecutor
<1>18. CASE CloseBox(a)
  BY <1>18 DEF CloseBox
<1>19. CASE Return(a)
  BY <1>19 DEF Return
<1>20. QED
  BY <1>1, <1>2, <1>3, <1>4, <1>5, <1>6, <1>7, <1>8, <1>9, <1>10, <1>11,
     <1>12, <1>13, <1>14, <1>15, <1>16, <1>17, <1>18, <1>19 DEF ActorStep

\* Where an actor relies on nothing but its executor.
Rest == {"idle", "putrel", "touch", "get", "release"}

\* A step that leaves the files, the store and the executors alone.
LEMMA FreshFrame ==
    ASSUME FreshInv, ~crossed,
           UNCHANGED <<store, direct, file, boxOf, got, wrote, ex>>,
           pool' \in {0, pool},
           \A o \in Actors : pc'[o] \in Rest \/ pc'[o] = pc[o],
           \A a, o \in Actors : Busy(a)' /\ Busy(o)' => a = o
    PROVE  FreshInv'
<1>1. /\ pool # 0 => Newest(file[boxOf[pool]])
      /\ \A a \in Actors : Fresh(a)
  BY DEF FreshInv
<1>2. pool' # 0 => Newest(file[boxOf[pool]])'
  BY <1>1 DEF Newest
<1>3. ASSUME NEW o \in Actors PROVE Fresh(o)'
  BY <1>1 DEF Fresh, Newest, InStore, Box, Rest
<1>4. QED
  BY <1>2, <1>3 DEF FreshInv

LEMMA FreshActor ==
    ASSUME StoreInv, NEW a \in Actors, ActorStep(a)
    PROVE  FreshInv'
<1> SUFFICES ASSUME ~crossed' PROVE FreshInv'
  BY DEF FreshInv
<1>1. ~crossed
  BY SMT DEF ActorStep, PutRelative, Touch, GetPooled, CreateBox, CreateRefused,
     HydrateRead, HydrateWrite, RunFails, RunQuiet, RunWrites, Recreate,
     RehydrateWrite, SnapshotWorkspace, StatStored, PutSnapshot, MirrorWrite,
     PutBack, ReleaseExecutor, CloseBox, Return, ghosts
<1>2. Busy(a)
  BY DEF ActorStep, PutRelative, Touch, GetPooled, CreateBox, CreateRefused,
     HydrateRead, HydrateWrite, RunFails, RunQuiet, RunWrites, Recreate,
     RehydrateWrite, SnapshotWorkspace, StatStored, PutSnapshot, MirrorWrite,
     ReleaseExecutor, CloseBox, Return, Busy
<1>3. Fresh(a)' /\ (pool' # 0 => Newest(file[boxOf[pool]])')
  BY <1>1, OwnFresh
<1>4. ASSUME NEW o \in Actors, o # a PROVE ~Busy(o)' /\ Fresh(o)'
  <2>1. ~Busy(o)
    BY <1>1, <1>2, <1>4 DEF StoreInv, FreshInv
  <2>2. pc[o] = "idle" /\ ex[o] = 0 /\ wrote[o] = 0
    BY <2>1 DEF Busy, StoreInv, PoolInv, PathInv, Path
  <2>3. pc'[o] = "idle" /\ ex'[o] = 0 /\ wrote'[o] = 0
    BY <1>4, <2>2, OthersPath DEF StoreInv
  <2>4. QED
    BY <2>3 DEF Busy, Fresh
<1>5. \A x, o \in Actors : Busy(x)' /\ Busy(o)' => x = o
  BY <1>4
<1>6. \A o \in Actors : Fresh(o)'
  BY <1>3, <1>4
<1>7. QED
  BY <1>3, <1>5, <1>6 DEF FreshInv

\* An actor that begins, alone.
LEMMA BeginsAlone ==
    ASSUME TypeOK, FreshInv, NEW a \in Actors, Begin(a), ~crossed',
           NEW p \in Points, Goto(a, p)
    PROVE  /\ ~crossed
           /\ \A x, o \in Actors : Busy(x)' /\ Busy(o)' => x = o
           /\ \A o \in Actors : pc'[o] = p \/ pc'[o] = pc[o]
<1>1. ~crossed /\ \A o \in Actors \ {a} : ~Busy(o)
  BY DEF Begin
<1>2. pc'[a] = p /\ \A o \in Actors \ {a} : pc'[o] = pc[o]
  BY DEF Goto, TypeOK
<1>3. \A o \in Actors \ {a} : ~Busy(o)'
  BY <1>1, <1>2 DEF Busy
<1>4. QED
  BY <1>1, <1>2, <1>3

LEMMA FreshNext ==
    ASSUME StoreInv, [Next]_vars
    PROVE  FreshInv'
<1>a. TypeOK /\ FreshInv /\ Sweeper \in Actors /\ Handler \in Actors
  BY DEF StoreInv, PoolInv, Actors
<1>b. SUFFICES ASSUME ~crossed' PROVE FreshInv'
  BY DEF FreshInv
<1>1. ASSUME NEW a \in Actors, ActorStep(a) PROVE FreshInv'
  BY <1>1, FreshActor
<1>2. ASSUME NEW c \in Callers, NEW k \in Kinds[c], Start(c, k)
      PROVE  FreshInv'
  <2>1. \/ Goto(c, "touch") /\ "touch" \in Rest \cap Points
        \/ Goto(c, "putrel") /\ "putrel" \in Rest \cap Points
    BY <1>2 DEF Start, Rest, Points
  <2>2. /\ UNCHANGED <<store, direct, file, boxOf, got, wrote, ex, pool>>
        /\ Begin(c) /\ c \in Actors
    BY <1>2 DEF Start, boxes, maps, Actors
  <2>3. /\ ~crossed
        /\ \A x, o \in Actors : Busy(x)' /\ Busy(o)' => x = o
        /\ \A o \in Actors : pc'[o] \in Rest \/ pc'[o] = pc[o]
    BY <1>a, <1>b, <2>1, <2>2, BeginsAlone
  <2>4. QED
    BY <1>a, <2>2, <2>3, FreshFrame
<1>3. CASE EvictIdle
  <2>1. /\ UNCHANGED <<store, direct, file, boxOf, got, wrote, ex, pool>>
        /\ Begin(Sweeper) /\ Goto(Sweeper, "get") /\ "get" \in Rest \cap Points
    BY <1>3 DEF EvictIdle, boxes, locals, Rest, Points
  <2>2. /\ ~crossed
        /\ \A x, o \in Actors : Busy(x)' /\ Busy(o)' => x = o
        /\ \A o \in Actors : pc'[o] \in Rest \/ pc'[o] = pc[o]
    BY <1>a, <1>b, <2>1, BeginsAlone
  <2>3. QED
    BY <1>a, <2>1, <2>2, FreshFrame
<1>4. CASE MoveSession
  <2>1. /\ UNCHANGED <<store, direct, file, boxOf, got, wrote, ex, pool>>
        /\ Begin(Handler) /\ Goto(Handler, "release")
        /\ "release" \in Rest \cap Points
    BY <1>4 DEF MoveSession, boxes, locals, Rest, Points
  <2>2. /\ ~crossed
        /\ \A x, o \in Actors : Busy(x)' /\ Busy(o)' => x = o
        /\ \A o \in Actors : pc'[o] \in Rest \/ pc'[o] = pc[o]
    BY <1>a, <1>b, <2>1, BeginsAlone
  <2>3. QED
    BY <1>a, <2>1, <2>2, FreshFrame
<1>5. ASSUME UNCHANGED <<store, direct, file, boxOf, got, wrote, ex, pc, crossed>>,
             pool' \in {0, pool}
      PROVE  FreshInv'
  <2>1. ~crossed /\ \A x, o \in Actors : Busy(x)' /\ Busy(o)' => x = o
    BY <1>a, <1>b, <1>5 DEF FreshInv, Busy
  <2>2. \A o \in Actors : pc'[o] = pc[o]
    BY <1>5
  <2>3. QED
    BY <1>a, <1>5, <2>1, <2>2, FreshFrame
<1>6. CASE CloseAll
  BY <1>5, <1>6 DEF CloseAll, locals
<1>7. CASE Age
  BY <1>5, <1>7 DEF Age, boxes, locals, ghosts
<1>8. ASSUME NEW b \in Boxes, BoxEnds(b) PROVE FreshInv'
  BY <1>5, <1>8 DEF BoxEnds, locals, maps, ghosts
<1>9. CASE UNCHANGED vars
  BY <1>5, <1>9 DEF vars, boxes, locals, maps, ghosts
<1>10. QED
  BY <1>1, <1>2, <1>3, <1>4, <1>6, <1>7, <1>8, <1>9 DEF Next

THEOREM StoreHolds == Spec => []StoreInv
<1>1. Init => StoreInv
  <2>1. Init => FreshInv
    <3> SUFFICES ASSUME Init PROVE FreshInv
      OBVIOUS
    <3>1. \A a \in Actors : ~Busy(a) /\ Fresh(a)
      BY DEF Init, Busy, Fresh
    <3>2. pool = 0
      BY DEF Init
    <3>3. QED
      BY <3>1, <3>2 DEF FreshInv
  <2>2. QED
    BY <2>1, TypeInit, PathInit, BoxInit, VersionInit DEF PoolInv, StoreInv
<1>2. StoreInv /\ [Next]_vars => StoreInv'
  <2> SUFFICES ASSUME StoreInv, [Next]_vars PROVE StoreInv'
    OBVIOUS
  <2> QED
    BY TypeNext, PathNext, BoxNext, VersionNext, FreshNext DEF PoolInv, StoreInv
<1>3. QED
  BY <1>1, <1>2, PTL DEF Spec

\* The actors' steps that write the store.
LEMMA StoreFrame ==
    ASSUME NEW a \in Actors, ActorStep(a)
    PROVE  UNCHANGED store \/ PutRelative(a) \/ PutSnapshot(a) \/ MirrorWrite(a)
  BY DEF ActorStep, Touch, GetPooled, CreateBox, CreateRefused,
     HydrateRead, HydrateWrite, RunFails, RunQuiet, RunWrites, Recreate,
     RehydrateWrite, SnapshotWorkspace, StatStored, ReleaseExecutor, CloseBox,
     Return

LEMMA OnlyForward ==
    ASSUME StoreInv, [Next]_vars, store' < store
    PROVE  store \in direct \/ crossed
<1> SUFFICES ASSUME ~crossed PROVE store \in direct
  OBVIOUS
<1>a. TypeOK /\ VersionInv /\ store \in Nat /\ writes \in Nat
  BY Numbers DEF StoreInv, PoolInv
<1>1. ASSUME NEW a \in Actors, ActorStep(a) PROVE store \in direct
  <2>a. Fresh(a) /\ Path(a) /\ (ex[a] # 0 => Box(a) \in Boxes)
        /\ got[a] \in Nat /\ wrote[a] \in Nat
    BY <1>a, InUse, Numbers DEF StoreInv, PoolInv, FreshInv, PathInv
  <2>1. CASE PutRelative(a)
    BY <1>a, <2>1 DEF PutRelative, VersionInv
  <2>2. CASE PutSnapshot(a)
    BY <1>a, <2>a, <2>2 DEF PutSnapshot, PutBack, Fresh, Path, Newest
  <2>3. CASE MirrorWrite(a)
    BY <1>a, <2>a, <2>3 DEF MirrorWrite, PutBack, Fresh, Path, Newest
  <2>4. CASE UNCHANGED store
    BY <1>a, <2>4
  <2>5. QED
    BY <1>1, <2>1, <2>2, <2>3, <2>4, StoreFrame
<1>2. CASE UNCHANGED store
  BY <1>a, <1>2
<1>3. QED
  BY <1>1, <1>2
     DEF Next, Start, EvictIdle, MoveSession, CloseAll, Age, BoxEnds, vars

LEMMA ReturnSaved ==
    ASSUME StoreInv, NEW c \in Callers, pc[c] = "ret", wrote[c] # 0, ~crossed
    PROVE  \/ store >= wrote[c]
           \/ store # 0 /\ Size[store] = Size[wrote[c]]
  BY DEF StoreInv, FreshInv, Fresh, InStore, Actors

\* The store is set back over nothing but a write past the box, and a call
\* that wrote the file has it in the store when it returns: unless actors
\* overlap, a Put fails, or two contents have the same length.
THEOREM DurableHolds == Spec => Durable
<1>1. StoreInv /\ [Next]_vars => [store' < store => store \in direct \/ crossed]_vars
  BY OnlyForward
<1>2. StoreInv /\ [Next]_vars =>
        [\A c \in Callers :
           (pc[c] = "ret" /\ pc'[c] = "idle" /\ wrote[c] # 0 /\ ~crossed) =>
              \/ store >= wrote[c]
              \/ store # 0 /\ Size[store] = Size[wrote[c]]]_vars
  BY ReturnSaved
<1>3. QED
  BY <1>1, <1>2, StoreHolds, PTL DEF Durable, NeverSetBack, CallSaved, Spec
-----------------------------------------------------------------------------
(* Skills.                                                                 *)

\* Functions and records have their domains and fields.
OpShape(x)    == DOMAIN x = {"pc", "pod", "skill", "prop", "todo"}
RoundShape(x) == DOMAIN x = {"pc", "saw", "todo", "in", "have", "beside"}
PropShape(x)  == DOMAIN x = {"status", "sources", "target", "by"}

OpShapes    == op = [o \in Ops |-> op[o]] /\ \A o \in Ops : OpShape(op[o])
DiskShapes  == disk = [p \in Pods |-> disk[p]] /\ archive = [p \in Pods |-> archive[p]]
RoundShapes == round = [r \in Rounds |-> round[r]] /\ \A r \in Rounds : RoundShape(round[r])
PropShapes  == proposal = [x \in Props |-> proposal[x]] /\ \A x \in Props : PropShape(proposal[x])

\* With an object store, a skill is in it, or known not to be.
Mirrored == cloud => \A k \in written \ deleted : k \in remote \/ k \in local \/ k \in Syncing

\* An operation is on a pod, and a hydrate on one with an object store.
Hydrating ==
    \A o \in Ops : /\ op[o].pc = "mirror" => cloud
                   /\ op[o].pc \in {"mirror", "target", "sources"} => op[o].pod \in Pods

FilesInv == OpShapes /\ DiskShapes /\ SkillsStay /\ Mirrored /\ Hydrating

OpStep(o) ==
    \/ SyncSkillUp(o) \/ DeleteSkillUp(o) \/ Mirror(o)
    \/ \E p \in Pods : Install(o, p) \/ DeleteSkill(o, p) \/ HydrateSkillsDown(o, p)
    \/ WriteTarget(o) \/ ArchiveSource(o) \/ SetApplied(o)
    \/ \E p \in Pods : ApplyProposal(o, p)

RoundStep(r) ==
    \/ MaybeSkillEvolution(r) \/ SetLastRun(r) \/ HasVerdict(r) \/ RecordPairVerdict(r)
    \/ ListRelatedPairs(r) \/ ListPendingProposals(r) \/ ReadSkillBodies(r)
    \/ CreateProposal(r) \/ EndRun(r)

LEMMA SkillSteps ==
    ASSUME [SkillsNext]_skillVars
    PROVE  \/ \E o \in Ops : OpStep(o)
           \/ \E p \in Pods : DeleteArchivedSkill(p) \/ \E k \in Skills : ArchiveSkill(p, k)
           \/ \E x \in Props : Reject(x)
           \/ IntervalPasses \/ \E r \in Rounds : RoundStep(r)
           \/ UNCHANGED skillVars
  BY DEF SkillsNext, FilesNext, ProposalsNext, CuratorNext, OpStep, RoundStep
-----------------------------------------------------------------------------
(* Files.                                                                  *)

\* An operation goes on, and no other one.
OpGoes(o, x) == op' = [op EXCEPT ![o] = x] /\ OpShape(x)

LEMMA OpGoesShapes ==
    ASSUME OpShapes, NEW o \in Ops, NEW x, OpGoes(o, x)
    PROVE  OpShapes' /\ op'[o] = x /\ \A q \in Ops \ {o} : op'[q] = op[q]
  BY DEF OpShapes, OpGoes

LEMMA EndsGoes ==
    ASSUME NEW o \in Ops, Ends(o) PROVE \E x : OpGoes(o, x) /\ x.pc = "over"
<1>1. OpGoes(o, [NoOp EXCEPT !.pc = "over"]) /\ [NoOp EXCEPT !.pc = "over"].pc = "over"
  BY DEF Ends, OpGoes, OpShape, NoOp
<1> QED
  BY <1>1

LEMMA OpEnds ==
    ASSUME OpShapes, NEW o \in Ops, Ends(o)
    PROVE  OpShapes' /\ op'[o].pc = "over" /\ \A q \in Ops \ {o} : op'[q] = op[q]
  BY EndsGoes, OpGoesShapes

\* The skills on a disk and in an archive of a pod, after a step that touches one pod.
LEMMA DiskAt ==
    ASSUME DiskShapes, NEW p \in Pods, NEW S, disk' = [disk EXCEPT ![p] = S]
    PROVE  disk' = [q \in Pods |-> disk'[q]] /\ disk'[p] = S /\ \A q \in Pods \ {p} : disk'[q] = disk[q]
  BY DEF DiskShapes

LEMMA ArchiveAt ==
    ASSUME DiskShapes, NEW p \in Pods, NEW S, archive' = [archive EXCEPT ![p] = S]
    PROVE  archive' = [q \in Pods |-> archive'[q]] /\ archive'[p] = S
           /\ \A q \in Pods \ {p} : archive'[q] = archive[q]
  BY DEF DiskShapes

\* Skills that wait for their mirror after a step of one operation.
LEMMA SyncingAt ==
    ASSUME NEW o \in Ops, NEW k, k \in Syncing, \A q \in Ops \ {o} : op'[q] = op[q]
    PROVE  k \in Syncing' \/ (op[o].pc = "sync" /\ op[o].skill = k)
  BY DEF Syncing

\* A step that writes no file.
LEMMA FilesQuiet ==
    ASSUME FilesInv, UNCHANGED <<cloud, remote, disk, archive, written, deleted, local, pruned>>,
           OpShapes', Syncing \subseteq Syncing', Hydrating'
    PROVE  FilesInv'
<1>1. DiskShapes'
  BY DEF FilesInv, DiskShapes
<1>2. SkillsStay'
  BY DEF FilesInv, SkillsStay, Somewhere
<1>3. Mirrored'
  BY DEF FilesInv, Mirrored
<1> QED
  BY <1>1, <1>2, <1>3 DEF FilesInv

LEMMA WriteKeeps ==
    ASSUME FilesInv, NEW o \in Ops, NEW p \in Pods, NEW k, Write(o, p, k), op[o].pc = "new",
           UNCHANGED <<cloud, remote, archive, local, pruned>>
    PROVE  FilesInv'
<1> DEFINE s == IF cloud THEN "sync" ELSE "over"
           x == [NoOp EXCEPT !.pc = s, !.pod = p, !.skill = k]
<1>y. op' = [op EXCEPT ![o] = x] /\ s = IF cloud THEN "sync" ELSE "over"
  BY DEF Write
<1> HIDE DEF s
<1>x. OpShape(x) /\ x.pc = s /\ x.skill = k /\ x.pod = p
  BY DEF NoOp, OpShape
<1> HIDE DEF x
<1>1. OpGoes(o, x) /\ x.skill = k /\ x.pc = IF cloud THEN "sync" ELSE "over"
  BY <1>x, <1>y DEF OpGoes, OpShape
<1>2. OpShapes' /\ op'[o] = x /\ \A q \in Ops \ {o} : op'[q] = op[q]
  BY <1>1, OpGoesShapes DEF FilesInv
<1>3. disk' = [disk EXCEPT ![p] = disk[p] \cup {k}]
  BY DEF Write
<1>4. disk' = [q \in Pods |-> disk'[q]] /\ disk'[p] = disk[p] \cup {k}
      /\ \A q \in Pods \ {p} : disk'[q] = disk[q]
  BY <1>3, DiskAt DEF FilesInv
<1>5. DiskShapes'
  BY <1>4 DEF FilesInv, DiskShapes
<1>6. written' = written \cup {k} /\ deleted' = deleted \ {k}
  BY DEF Write
<1>7. SkillsStay'
  <2> SUFFICES ASSUME NEW m \in written' \ deleted' PROVE Somewhere(m)' \/ m \in pruned'
    BY DEF SkillsStay
  <2>1. CASE m = k
    BY <1>4, <2>1 DEF Somewhere
  <2>2. CASE m # k
    <3>1. Somewhere(m) \/ m \in pruned
      BY <1>6, <2>2 DEF FilesInv, SkillsStay
    <3> QED
      BY <1>4, <3>1 DEF Somewhere
  <2> QED
    BY <2>1, <2>2
<1>8. Mirrored'
  <2> SUFFICES ASSUME cloud, NEW m \in written' \ deleted' PROVE m \in remote \/ m \in local \/ m \in Syncing'
    BY DEF Mirrored
  <2>1. CASE m = k
    BY <1>1, <1>2, <2>1 DEF Syncing
  <2>2. CASE m # k
    <3>1. m \in remote \/ m \in local \/ m \in Syncing
      BY <1>6, <2>2 DEF FilesInv, Mirrored
    <3>2. m \in Syncing => m \in Syncing'
      BY <1>2, SyncingAt
    <3> QED
      BY <3>1, <3>2
  <2> QED
    BY <2>1, <2>2
<1>9. Hydrating'
  BY <1>1, <1>2 DEF FilesInv, Hydrating
<1> QED
  BY <1>2, <1>5, <1>7, <1>8, <1>9 DEF FilesInv

LEMMA SyncKeeps ==
    ASSUME FilesInv, NEW o \in Ops, SyncSkillUp(o) PROVE FilesInv'
<1>1. /\ op[o].pc = "sync" /\ Ends(o)
      /\ UNCHANGED <<cloud, disk, archive, written, deleted, pruned>>
  BY DEF SyncSkillUp, Fixed
<1>2. OpShapes' /\ op'[o].pc = "over" /\ \A q \in Ops \ {o} : op'[q] = op[q]
  BY <1>1, OpEnds DEF FilesInv
<1>3. /\ remote \subseteq remote' /\ local \subseteq local' \cup remote'
      /\ op[o].skill \in remote' \/ op[o].skill \in local'
  BY DEF SyncSkillUp
<1>4. DiskShapes' /\ Hydrating'
  BY <1>1, <1>2 DEF FilesInv, DiskShapes, Hydrating
<1>5. SkillsStay'
  BY <1>1, <1>3 DEF FilesInv, SkillsStay, Somewhere
<1>6. Mirrored'
  <2> SUFFICES ASSUME cloud, NEW m \in written \ deleted
               PROVE  m \in remote' \/ m \in local' \/ m \in Syncing'
    BY <1>1 DEF Mirrored
  <2>1. m \in remote \/ m \in local \/ m \in Syncing
    BY DEF FilesInv, Mirrored
  <2>2. m \in Syncing => m \in Syncing' \/ op[o].skill = m
    BY <1>2, SyncingAt
  <2> QED
    BY <1>3, <2>1, <2>2
<1> QED
  BY <1>2, <1>4, <1>5, <1>6 DEF FilesInv

LEMMA DeleteKeeps ==
    ASSUME FilesInv, NEW o \in Ops, NEW p \in Pods, DeleteSkill(o, p) PROVE FilesInv'
<1>1. PICK k \in disk[p] :
         /\ disk' = [disk EXCEPT ![p] = disk[p] \ {k}] /\ deleted' = deleted \cup {k}
         /\ op' = [op EXCEPT ![o] = [NoOp EXCEPT !.pc = IF cloud THEN "unsync" ELSE "over", !.skill = k]]
  BY DEF DeleteSkill
<1>2. op[o].pc = "new" /\ UNCHANGED <<cloud, remote, archive, written, local, pruned>>
  BY DEF DeleteSkill, Fixed
<1> DEFINE s == IF cloud THEN "unsync" ELSE "over"
           x == [NoOp EXCEPT !.pc = s, !.skill = k]
<1>y. op' = [op EXCEPT ![o] = x] /\ s = IF cloud THEN "unsync" ELSE "over"
  BY <1>1
<1> HIDE DEF s
<1>x. OpShape(x) /\ x.pc = s
  BY DEF NoOp, OpShape
<1> HIDE DEF x
<1>3. OpGoes(o, x) /\ x.pc \in {"unsync", "over"}
  BY <1>x, <1>y DEF OpGoes, OpShape
<1>4. OpShapes' /\ op'[o] = x /\ \A q \in Ops \ {o} : op'[q] = op[q]
  BY <1>3, OpGoesShapes DEF FilesInv
<1>5. disk' = [q \in Pods |-> disk'[q]] /\ disk'[p] = disk[p] \ {k}
      /\ \A q \in Pods \ {p} : disk'[q] = disk[q]
  BY <1>1, DiskAt DEF FilesInv
<1>6. DiskShapes' /\ Hydrating'
  BY <1>2, <1>3, <1>4, <1>5 DEF FilesInv, DiskShapes, Hydrating
<1>7. SkillsStay'
  <2> SUFFICES ASSUME NEW m \in written \ deleted, m # k PROVE Somewhere(m)' \/ m \in pruned
    BY <1>1, <1>2 DEF SkillsStay
  <2>1. Somewhere(m) \/ m \in pruned
    BY DEF FilesInv, SkillsStay
  <2> QED
    BY <1>2, <1>5, <2>1 DEF Somewhere
<1>8. Mirrored'
  <2> SUFFICES ASSUME cloud, NEW m \in written \ deleted PROVE m \in remote \/ m \in local \/ m \in Syncing'
    BY <1>1, <1>2 DEF Mirrored
  <2>1. m \in remote \/ m \in local \/ m \in Syncing
    BY DEF FilesInv, Mirrored
  <2> QED
    BY <1>2, <1>4, <2>1, SyncingAt
<1> QED
  BY <1>4, <1>6, <1>7, <1>8 DEF FilesInv

LEMMA UnsyncKeeps ==
    ASSUME FilesInv, NEW o \in Ops, DeleteSkillUp(o) PROVE FilesInv'
<1>1. /\ op[o].pc = "unsync" /\ Ends(o) /\ UNCHANGED <<cloud, disk, archive, written, deleted>>
  BY DEF DeleteSkillUp, Fixed
<1>2. OpShapes' /\ op'[o].pc = "over" /\ \A q \in Ops \ {o} : op'[q] = op[q]
  BY <1>1, OpEnds DEF FilesInv
<1>3. Syncing \subseteq Syncing'
  BY <1>1, <1>2, SyncingAt
<1>4. DiskShapes' /\ Hydrating'
  BY <1>1, <1>2 DEF FilesInv, DiskShapes, Hydrating
<1>5. CASE UNCHANGED <<remote, local, pruned>>
  BY <1>1, <1>2, <1>3, <1>4, <1>5, FilesQuiet
<1>6. CASE LET k   == op[o].skill
               new == {k} \cap (written \ deleted) IN
           /\ remote' = remote \ {k} /\ local' = local \cup new
           /\ pruned' = pruned \cup {m \in new : \A p \in Pods : m \notin disk[p] \cup archive[p]}
  <2> DEFINE k == op[o].skill
  <2>1. /\ remote' = remote \ {k} /\ local \subseteq local' /\ pruned \subseteq pruned'
        /\ k \in written \ deleted =>
             /\ k \in local'
             /\ (\A p \in Pods : k \notin disk[p] \cup archive[p]) => k \in pruned'
    BY <1>6
  <2> HIDE DEF k
  <2>2. SkillsStay'
    <3> SUFFICES ASSUME NEW m \in written \ deleted PROVE Somewhere(m)' \/ m \in pruned'
      BY <1>1 DEF SkillsStay
    <3>1. Somewhere(m) \/ m \in pruned
      BY DEF FilesInv, SkillsStay
    <3> QED
      BY <1>1, <2>1, <3>1 DEF Somewhere
  <2>3. Mirrored'
    <3> SUFFICES ASSUME cloud, NEW m \in written \ deleted
                 PROVE  m \in remote' \/ m \in local' \/ m \in Syncing'
      BY <1>1 DEF Mirrored
    <3>1. m \in remote \/ m \in local \/ m \in Syncing
      BY DEF FilesInv, Mirrored
    <3> QED
      BY <1>3, <2>1, <3>1
  <2> QED
    BY <1>2, <1>4, <2>2, <2>3 DEF FilesInv
<1> QED
  BY <1>5, <1>6 DEF DeleteSkillUp

LEMMA MirrorKeeps ==
    ASSUME FilesInv, NEW o \in Ops, Mirror(o) PROVE FilesInv'
<1> DEFINE p == op[o].pod
           kept == op[o].todo \cap (disk[p] \cup remote)
<1>1. /\ op[o].pc = "mirror" /\ Ends(o) /\ UNCHANGED <<cloud, remote, written, deleted, local>> /\ p \in Pods
  BY DEF Mirror, Fixed, FilesInv, Hydrating
<1>2. OpShapes' /\ op'[o].pc = "over" /\ \A q \in Ops \ {o} : op'[q] = op[q]
  BY <1>1, OpEnds DEF FilesInv
<1>3. Syncing \subseteq Syncing' /\ Hydrating' /\ cloud
  BY <1>1, <1>2, SyncingAt DEF FilesInv, Hydrating
<1>4. CASE UNCHANGED <<disk, archive, pruned>>
  BY <1>1, <1>2, <1>3, <1>4, FilesQuiet
<1>5. CASE /\ disk' = [disk EXCEPT ![p] = kept] /\ archive' = [archive EXCEPT ![p] = {}]
           /\ pruned' = pruned \cup (((disk[p] \ kept) \cup archive[p]) \cap (local \cup Syncing))
  <2> HIDE DEF p, kept
  <2>1. disk' = [q \in Pods |-> disk'[q]] /\ disk'[p] = kept /\ \A q \in Pods \ {p} : disk'[q] = disk[q]
    BY <1>1, <1>5, DiskAt DEF FilesInv
  <2>2. archive' = [q \in Pods |-> archive'[q]] /\ archive'[p] = {}
        /\ \A q \in Pods \ {p} : archive'[q] = archive[q]
    BY <1>1, <1>5, ArchiveAt DEF FilesInv
  <2>3. DiskShapes'
    BY <2>1, <2>2 DEF DiskShapes
  <2>4. SkillsStay'
    <3> SUFFICES ASSUME NEW m \in written \ deleted PROVE Somewhere(m)' \/ m \in pruned'
      BY <1>1 DEF SkillsStay
    <3>1. Somewhere(m) \/ m \in pruned
      BY DEF FilesInv, SkillsStay
    <3>2. m \in remote \/ m \in local \/ m \in Syncing
      BY <1>3 DEF FilesInv, Mirrored
    <3>3. CASE m \in remote \/ m \in pruned
      BY <1>1, <1>5, <3>3 DEF Somewhere
    <3>4. CASE m \notin remote /\ m \notin pruned
      <4>1. PICK q \in Pods : m \in disk[q] \/ m \in archive[q]
        BY <3>1, <3>4 DEF Somewhere
      <4>2. CASE q # p
        BY <2>1, <2>2, <4>1, <4>2 DEF Somewhere
      <4>3. CASE q = p
        BY <1>5, <2>1, <3>2, <3>4, <4>1, <4>3, <1>1 DEF Somewhere
      <4> QED
        BY <4>2, <4>3
    <3> QED
      BY <3>3, <3>4
  <2>5. Mirrored'
    BY <1>1, <1>3 DEF FilesInv, Mirrored
  <2> QED
    BY <1>2, <1>3, <2>3, <2>4, <2>5 DEF FilesInv
<1> QED
  BY <1>4, <1>5 DEF Mirror

LEMMA HydrateKeeps ==
    ASSUME FilesInv, NEW o \in Ops, NEW p \in Pods, HydrateSkillsDown(o, p) PROVE FilesInv'
<1> DEFINE x == [NoOp EXCEPT !.pc = "mirror", !.pod = p, !.todo = remote]
<1>1. OpShape(x) /\ x.pc = "mirror" /\ x.pod = p
  BY DEF NoOp, OpShape
<1>2. /\ op' = [op EXCEPT ![o] = x] /\ cloud /\ op[o].pc = "new"
      /\ UNCHANGED <<cloud, remote, disk, archive, written, deleted, local, pruned>>
  BY DEF HydrateSkillsDown, Fixed, Files, History
<1> HIDE DEF x
<1>3. OpShapes' /\ op'[o] = x /\ \A q \in Ops \ {o} : op'[q] = op[q]
  BY <1>1, <1>2, OpGoesShapes DEF FilesInv, OpGoes
<1>4. Syncing \subseteq Syncing'
  BY <1>2, <1>3, SyncingAt
<1>5. Hydrating'
  BY <1>1, <1>2, <1>3 DEF FilesInv, Hydrating
<1> QED
  BY <1>2, <1>3, <1>4, <1>5, FilesQuiet

LEMMA ApplyKeeps ==
    ASSUME FilesInv, NEW o \in Ops, NEW p \in Pods, ApplyProposal(o, p) PROVE FilesInv'
<1>1. PICK y \in Props : \E keep \in SUBSET proposal[y].sources :
         op' = [op EXCEPT ![o] = [NoOp EXCEPT !.pc = "target", !.pod = p, !.prop = y,
                                              !.todo = proposal[y].sources \ keep]]
  BY DEF ApplyProposal
<1>k. PICK keep \in SUBSET proposal[y].sources :
         op' = [op EXCEPT ![o] = [NoOp EXCEPT !.pc = "target", !.pod = p, !.prop = y,
                                              !.todo = proposal[y].sources \ keep]]
  BY <1>1
<1> DEFINE some == proposal[y].sources \ keep
           x == [NoOp EXCEPT !.pc = "target", !.pod = p, !.prop = y, !.todo = some]
<1>2. op' = [op EXCEPT ![o] = x]
  BY <1>k
<1> HIDE DEF some
<1>3. OpShape(x) /\ x.pc = "target" /\ x.pod = p
  BY DEF NoOp, OpShape
<1> HIDE DEF x
<1>4. op[o].pc = "new" /\ UNCHANGED <<cloud, remote, disk, archive, written, deleted, local, pruned>>
  BY DEF ApplyProposal, Fixed, Files, History
<1>5. OpShapes' /\ op'[o] = x /\ \A q \in Ops \ {o} : op'[q] = op[q]
  BY <1>2, <1>3, OpGoesShapes DEF FilesInv, OpGoes
<1>6. Syncing \subseteq Syncing'
  BY <1>4, <1>5, SyncingAt
<1>7. Hydrating'
  BY <1>3, <1>4, <1>5 DEF FilesInv, Hydrating
<1> QED
  BY <1>4, <1>5, <1>6, <1>7, FilesQuiet

LEMMA NextSourceGoes ==
    ASSUME FilesInv, NEW o \in Ops, NEW some, NextSource(o, some), op[o].pc \in {"target", "sources"}
    PROVE  /\ OpShapes' /\ Syncing \subseteq Syncing' /\ (UNCHANGED cloud => Hydrating')
<1> DEFINE s == IF some = {} THEN "status" ELSE "sources"
           x == [op[o] EXCEPT !.todo = some, !.pc = s]
<1>1. op' = [op EXCEPT ![o] = x] /\ s \in {"status", "sources"}
  BY DEF NextSource
<1> HIDE DEF s
<1>2. OpShape(x) /\ x.pc = s /\ x.pod = op[o].pod
  BY DEF FilesInv, OpShapes, OpShape
<1> HIDE DEF x
<1>3. OpShapes' /\ op'[o] = x /\ \A q \in Ops \ {o} : op'[q] = op[q]
  BY <1>1, <1>2, OpGoesShapes DEF FilesInv, OpGoes
<1>4. Syncing \subseteq Syncing'
  BY <1>3, SyncingAt
<1>5. UNCHANGED cloud => Hydrating'
  BY <1>1, <1>2, <1>3 DEF FilesInv, Hydrating
<1> QED
  BY <1>3, <1>4, <1>5

LEMMA EndsQuiet ==
    ASSUME FilesInv, NEW o \in Ops, Ends(o), op[o].pc # "sync"
    PROVE  /\ OpShapes' /\ Syncing \subseteq Syncing' /\ (UNCHANGED cloud => Hydrating')
<1>1. OpShapes' /\ op'[o].pc = "over" /\ \A q \in Ops \ {o} : op'[q] = op[q]
  BY OpEnds DEF FilesInv
<1>2. Syncing \subseteq Syncing'
  BY <1>1, SyncingAt
<1>3. UNCHANGED cloud => Hydrating'
  BY <1>1 DEF FilesInv, Hydrating
<1> QED
  BY <1>1, <1>2, <1>3

LEMMA TargetKeeps ==
    ASSUME FilesInv, NEW o \in Ops, WriteTarget(o) PROVE FilesInv'
<1> DEFINE p == op[o].pod
           k == Mine(o).target
<1>1. op[o].pc = "target" /\ UNCHANGED <<cloud, remote, archive, deleted, pruned>> /\ p \in Pods
  BY DEF WriteTarget, Fixed, FilesInv, Hydrating
<1>2. \/ /\ disk' = [disk EXCEPT ![p] = disk[p] \cup {k}] /\ written' = written \cup {k}
         /\ local' = IF cloud THEN local \cup {k} ELSE local
         /\ NextSource(o, op[o].todo)
      \/ Ends(o) /\ UNCHANGED <<disk, written, local>>
      \/ /\ Ends(o) /\ UNCHANGED <<written, local>>
         /\ disk' \in {disk, [disk EXCEPT ![p] = disk[p] \cup {k}]}
  BY DEF WriteTarget
<1> HIDE DEF p, k
<1>3. OpShapes' /\ Syncing \subseteq Syncing' /\ Hydrating'
  BY <1>1, <1>2, NextSourceGoes, EndsQuiet
<1>4. /\ disk' = [q \in Pods |-> disk'[q]] /\ archive' = [q \in Pods |-> archive'[q]]
      /\ \A q \in Pods : disk[q] \subseteq disk'[q]
  <2>1. CASE disk' = disk
    BY <1>1, <2>1 DEF FilesInv, DiskShapes
  <2>2. CASE disk' = [disk EXCEPT ![p] = disk[p] \cup {k}]
    <3>1. disk' = [q \in Pods |-> disk'[q]] /\ disk'[p] = disk[p] \cup {k}
          /\ \A q \in Pods \ {p} : disk'[q] = disk[q]
      BY <1>1, <2>2, DiskAt DEF FilesInv
    <3> QED
      BY <1>1, <3>1 DEF FilesInv, DiskShapes
  <2> QED
    BY <1>2, <2>1, <2>2
<1>5. \A m \in written' : m \in written \/ (m = k /\ k \in disk'[p] /\ (cloud => k \in local'))
  <2>1. CASE disk' = [disk EXCEPT ![p] = disk[p] \cup {k}] /\ written' = written \cup {k}
             /\ local' = IF cloud THEN local \cup {k} ELSE local
    <3>1. disk'[p] = disk[p] \cup {k}
      BY <1>1, <2>1, DiskAt DEF FilesInv
    <3> QED
      BY <2>1, <3>1
  <2>2. CASE written' = written
    BY <2>2
  <2> QED
    BY <1>2, <2>1, <2>2
<1>6. local \subseteq local'
  BY <1>2
<1>7. SkillsStay'
  <2> SUFFICES ASSUME NEW m \in written' \ deleted PROVE Somewhere(m)' \/ m \in pruned
    BY <1>1 DEF SkillsStay
  <2>1. CASE m \in written
    <3>1. Somewhere(m) \/ m \in pruned
      BY <2>1 DEF FilesInv, SkillsStay
    <3> QED
      BY <1>1, <1>4, <3>1 DEF Somewhere
  <2>2. CASE m \notin written
    BY <1>1, <1>5, <2>2 DEF Somewhere
  <2> QED
    BY <2>1, <2>2
<1>8. Mirrored'
  <2> SUFFICES ASSUME cloud, NEW m \in written' \ deleted
               PROVE  m \in remote \/ m \in local' \/ m \in Syncing'
    BY <1>1 DEF Mirrored
  <2>1. CASE m \in written
    BY <1>3, <1>6, <2>1 DEF FilesInv, Mirrored
  <2>2. CASE m \notin written
    BY <1>5, <2>2
  <2> QED
    BY <2>1, <2>2
<1> QED
  BY <1>3, <1>4, <1>7, <1>8 DEF FilesInv, DiskShapes

\* A skill that is moved to the archive of its pod is there.
LEMMA ArchivedKeeps ==
    ASSUME FilesInv, NEW p \in Pods, NEW k, k \in disk[p], Archived(p, k),
           UNCHANGED <<cloud, remote, written, deleted, local, pruned>>,
           OpShapes', Syncing \subseteq Syncing', Hydrating'
    PROVE  FilesInv'
<1>1. disk' = [disk EXCEPT ![p] = disk[p] \ {k}] /\ archive' = [archive EXCEPT ![p] = archive[p] \cup {k}]
  BY DEF Archived
<1>2. disk' = [q \in Pods |-> disk'[q]] /\ disk'[p] = disk[p] \ {k}
      /\ \A q \in Pods \ {p} : disk'[q] = disk[q]
  BY <1>1, DiskAt DEF FilesInv
<1>3. archive' = [q \in Pods |-> archive'[q]] /\ archive'[p] = archive[p] \cup {k}
      /\ \A q \in Pods \ {p} : archive'[q] = archive[q]
  BY <1>1, ArchiveAt DEF FilesInv
<1>4. \A q \in Pods : \A m : m \in disk[q] \/ m \in archive[q] => m \in disk'[q] \/ m \in archive'[q]
  BY <1>2, <1>3
<1>5. SkillsStay'
  <2> SUFFICES ASSUME NEW m \in written \ deleted PROVE Somewhere(m)' \/ m \in pruned
    BY DEF SkillsStay
  <2>1. Somewhere(m) \/ m \in pruned
    BY DEF FilesInv, SkillsStay
  <2> QED
    BY <1>4, <2>1 DEF Somewhere
<1>6. Mirrored'
  BY DEF FilesInv, Mirrored
<1> QED
  BY <1>2, <1>3, <1>5, <1>6 DEF FilesInv, DiskShapes

LEMMA SourceKeeps ==
    ASSUME FilesInv, NEW o \in Ops, ArchiveSource(o) PROVE FilesInv'
<1>1. /\ op[o].pc = "sources" /\ op[o].pod \in Pods
      /\ UNCHANGED <<cloud, remote, written, deleted, local, pruned>>
  BY DEF ArchiveSource, Fixed, History, FilesInv, Hydrating
<1>2. PICK k \in op[o].todo :
         \/ k \in disk[op[o].pod] /\ Archived(op[o].pod, k) /\ NextSource(o, op[o].todo \ {k})
         \/ NextSource(o, op[o].todo \ {k}) /\ UNCHANGED <<disk, archive>>
         \/ Ends(o) /\ UNCHANGED <<disk, archive>>
  BY DEF ArchiveSource
<1>3. OpShapes' /\ Syncing \subseteq Syncing' /\ Hydrating'
  BY <1>1, <1>2, NextSourceGoes, EndsQuiet
<1>4. CASE k \in disk[op[o].pod] /\ Archived(op[o].pod, k)
  BY <1>1, <1>3, <1>4, ArchivedKeeps
<1>5. CASE UNCHANGED <<disk, archive>>
  BY <1>1, <1>3, <1>5, FilesQuiet
<1> QED
  BY <1>2, <1>4, <1>5

LEMMA OpsIdle ==
    ASSUME FilesInv, UNCHANGED <<op, cloud>> PROVE OpShapes' /\ Syncing \subseteq Syncing' /\ Hydrating'
  BY DEF FilesInv, OpShapes, Syncing, Hydrating

LEMMA DropKeeps ==
    ASSUME FilesInv, NEW p \in Pods, DeleteArchivedSkill(p) PROVE FilesInv'
<1>1. PICK k : archive' = [archive EXCEPT ![p] = archive[p] \ {k}] /\ deleted' = deleted \cup {k}
  BY DEF DeleteArchivedSkill
<1>2. UNCHANGED <<cloud, remote, disk, op, written, local, pruned>>
  BY DEF DeleteArchivedSkill, Fixed
<1>3. archive' = [q \in Pods |-> archive'[q]] /\ archive'[p] = archive[p] \ {k}
      /\ \A q \in Pods \ {p} : archive'[q] = archive[q]
  BY <1>1, ArchiveAt DEF FilesInv
<1>4. SkillsStay'
  <2> SUFFICES ASSUME NEW m \in written \ deleted, m # k PROVE Somewhere(m)' \/ m \in pruned
    BY <1>1, <1>2 DEF SkillsStay
  <2>1. Somewhere(m) \/ m \in pruned
    BY DEF FilesInv, SkillsStay
  <2> QED
    BY <1>2, <1>3, <2>1 DEF Somewhere
<1>5. OpShapes' /\ Syncing \subseteq Syncing' /\ Hydrating'
  BY <1>2, OpsIdle
<1>6. Mirrored'
  BY <1>1, <1>2, <1>5 DEF FilesInv, Mirrored
<1> QED
  BY <1>2, <1>3, <1>4, <1>5, <1>6 DEF FilesInv, DiskShapes

LEMMA RoundQuiet ==
    ASSUME NEW r \in Rounds, RoundStep(r)
    PROVE  UNCHANGED <<op, cloud, remote, disk, archive, written, deleted, local, pruned>>
  BY DEF RoundStep, Curates, Fixed, Files, History, MaybeSkillEvolution, SetLastRun, HasVerdict,
         RecordPairVerdict, ListRelatedPairs, ListPendingProposals, ReadSkillBodies, CreateProposal, EndRun

LEMMA FilesNextInv ==
    ASSUME FilesInv, [SkillsNext]_skillVars PROVE FilesInv'
<1>1. ASSUME NEW o \in Ops, OpStep(o) PROVE FilesInv'
  <2>1. CASE SyncSkillUp(o) \/ DeleteSkillUp(o) \/ Mirror(o)
    BY <2>1, SyncKeeps, UnsyncKeeps, MirrorKeeps
  <2>2. ASSUME NEW p \in Pods, Install(o, p) PROVE FilesInv'
    <3>1. /\ op[o].pc = "new" /\ UNCHANGED <<cloud, remote, archive, local, pruned>>
          /\ \E k \in Installs : Write(o, p, k)
      BY <2>2 DEF Install, Fixed
    <3> QED
      BY <3>1, WriteKeeps
  <2>3. ASSUME NEW p \in Pods, DeleteSkill(o, p) \/ HydrateSkillsDown(o, p) \/ ApplyProposal(o, p)
        PROVE  FilesInv'
    BY <2>3, DeleteKeeps, HydrateKeeps, ApplyKeeps
  <2>4. CASE WriteTarget(o) \/ ArchiveSource(o)
    BY <2>4, TargetKeeps, SourceKeeps
  <2>5. CASE SetApplied(o)
    <3>1. /\ Ends(o) /\ op[o].pc = "status"
          /\ UNCHANGED <<cloud, remote, disk, archive, written, deleted, local, pruned>>
      BY <2>5 DEF SetApplied, Fixed, Files, History
    <3> QED
      BY <3>1, EndsQuiet, FilesQuiet
  <2> QED
    BY <1>1, <2>1, <2>2, <2>3, <2>4, <2>5 DEF OpStep
<1>2. ASSUME NEW p \in Pods, DeleteArchivedSkill(p) \/ \E k \in Skills : ArchiveSkill(p, k)
      PROVE  FilesInv'
  <2>1. ASSUME NEW k \in Skills, ArchiveSkill(p, k) PROVE FilesInv'
    <3>1. /\ k \in disk[p] /\ Archived(p, k)
          /\ UNCHANGED <<op, cloud, remote, written, deleted, local, pruned>>
      BY <2>1 DEF ArchiveSkill, Fixed, History
    <3>2. OpShapes' /\ Syncing \subseteq Syncing' /\ Hydrating'
      BY <3>1, OpsIdle
    <3> QED
      BY <3>1, <3>2, ArchivedKeeps
  <2> QED
    BY <1>2, <2>1, DropKeeps
<1>3. ASSUME UNCHANGED <<op, cloud, remote, disk, archive, written, deleted, local, pruned>> PROVE FilesInv'
  <2>1. OpShapes' /\ Syncing \subseteq Syncing' /\ Hydrating'
    BY <1>3, OpsIdle
  <2> QED
    BY <1>3, <2>1, FilesQuiet
<1>4. ASSUME \/ \E x \in Props : Reject(x)
             \/ IntervalPasses \/ UNCHANGED skillVars
      PROVE  FilesInv'
  <2>1. UNCHANGED <<op, cloud, remote, disk, archive, written, deleted, local, pruned>>
    BY <1>4 DEF Reject, IntervalPasses, Curates, Fixed, Files, History, skillVars
  <2> QED
    BY <1>3, <2>1
<1> QED
  BY <1>1, <1>2, <1>3, <1>4, RoundQuiet, SkillSteps
-----------------------------------------------------------------------------
(* Proposals.                                                              *)

\* Rounds that are active side by side have each other beside them.
Apart == \A r, q \in Active : r # q => q \in round[r].beside

\* A proposal is of rounds that have read the queue.
Authored == \A x \in Props : \A r \in proposal[x].by : r \in Rounds /\ round[r].pc \in {"synth", "over"}

\* What a round that proposes knows of a proposal: it has read it, or made it
\* before, or it is of a round beside it.
Knows(n, r, x) ==
    \/ proposal[x].sources \in n.have
    \/ \E q \in proposal[x].by : q \in n.beside
    \/ r \in proposal[x].by /\ proposal[x].sources \notin n.todo \cup {n.in, {}}

Proposing(n, r) ==
    /\ n.pc = "pending" => n.in = {}
    /\ n.pc = "synth" => /\ \A x \in Props : Pending(x) => Knows(n, r, x)
                         /\ n.in # {} => n.in \notin n.have \cup n.todo

RoundsInv ==
    /\ RoundShapes /\ PropShapes /\ Apart /\ Authored /\ OneProposal
    /\ \A r \in Rounds : Proposing(round[r], r)

RoundBusy(n) == n.pc \notin {"new", "gate", "over"}

\* Proposals are decided, and the rounds stay.
LEMMA DecidedKeeps ==
    ASSUME RoundsInv, round' = round, PropShapes',
           \A x \in Props : /\ proposal'[x].sources = proposal[x].sources
                            /\ proposal'[x].by = proposal[x].by
                            /\ Pending(x)' => Pending(x)
    PROVE  RoundsInv'
<1>1. RoundShapes' /\ Apart' /\ Authored'
  BY DEF RoundsInv, RoundShapes, Apart, Active, Authored
<1>2. OneProposal'
  BY DEF RoundsInv, OneProposal
<1>3. \A r \in Rounds : Proposing(round[r], r)'
  BY DEF RoundsInv, Proposing, Knows
<1> QED
  BY <1>1, <1>2, <1>3 DEF RoundsInv

\* A round goes on, and no proposal is made.
LEMMA RoundGoes ==
    ASSUME RoundsInv, NEW r \in Rounds, NEW n, round' = [round EXCEPT ![r] = n], RoundShape(n),
           UNCHANGED proposal,
           round[r].pc \in {"synth", "over"} => n.pc \in {"synth", "over"} /\ n.beside = round[r].beside,
           RoundBusy(n) => RoundBusy(round[r]) /\ n.beside = round[r].beside,
           Proposing(n, r)
    PROVE  RoundsInv'
<1>1. /\ round' = [q \in Rounds |-> round'[q]] /\ round'[r] = n
      /\ \A q \in Rounds \ {r} : round'[q] = round[q]
  BY DEF RoundsInv, RoundShapes
<1>2. RoundShapes' /\ PropShapes'
  BY <1>1 DEF RoundsInv, RoundShapes, PropShapes
<1>3. Apart'
  BY <1>1 DEF RoundsInv, Apart, Active, RoundBusy
<1>4. Authored'
  BY <1>1 DEF RoundsInv, Authored
<1>5. OneProposal'
  <2> SUFFICES ASSUME NEW x \in Props, NEW y \in Props, x # y, Pending(x), Pending(y),
                      proposal[x].sources = proposal[y].sources
               PROVE  \E t \in proposal[x].by, q \in proposal[y].by :
                         t \in round'[q].beside \/ q \in round'[t].beside
    BY DEF OneProposal, Pending
  <2>1. PICK t \in proposal[x].by, q \in proposal[y].by : t \in round[q].beside \/ q \in round[t].beside
    BY DEF RoundsInv, OneProposal
  <2>2. /\ t \in Rounds /\ round[t].pc \in {"synth", "over"}
        /\ q \in Rounds /\ round[q].pc \in {"synth", "over"}
    BY DEF RoundsInv, Authored
  <2>3. round'[t].beside = round[t].beside /\ round'[q].beside = round[q].beside
    BY <1>1, <2>2
  <2> QED
    BY <2>1, <2>3
<1>6. ASSUME NEW q \in Rounds PROVE Proposing(round[q], q)'
  <2>1. CASE q = r
    BY <1>1, <2>1 DEF Proposing, Knows, Pending
  <2>2. CASE q # r
    BY <1>1, <2>2 DEF RoundsInv, Proposing, Knows, Pending
  <2> QED
    BY <2>1, <2>2
<1> QED
  BY <1>2, <1>3, <1>4, <1>5, <1>6 DEF RoundsInv

LEMMA RoundEnds ==
    ASSUME RoundsInv, NEW r \in Rounds, round[r].pc \notin {"synth", "over"},
           round' = [round EXCEPT ![r] = Ended], UNCHANGED proposal
    PROVE  RoundsInv'
<1>1. Ended.pc = "over" /\ RoundShape(Ended)
  BY DEF Ended, NoRound, RoundShape
<1>2. Proposing(Ended, r) /\ ~RoundBusy(Ended)
  BY <1>1 DEF Proposing, RoundBusy
<1> HIDE DEF Ended
<1> QED
  BY <1>1, <1>2, RoundGoes

\* A round begins beside those that are active.
LEMMA BeginsKeeps ==
    ASSUME RoundsInv, NEW r \in Rounds, SetLastRun(r) PROVE RoundsInv'
<1>1. round[r].pc = "gate" /\ UNCHANGED proposal
  BY DEF SetLastRun
<1>2. CASE round' = [round EXCEPT ![r] = Ended]
  BY <1>1, <1>2, RoundEnds
<1>3. CASE round' = [q \in Rounds |->
             IF q = r THEN [NoRound EXCEPT !.pc = "judge", !.todo = Candidates, !.beside = Active]
             ELSE IF q \in Active THEN [round[q] EXCEPT !.beside = @ \cup {r}] ELSE round[q]]
  <2> DEFINE n == [NoRound EXCEPT !.pc = "judge", !.todo = Candidates, !.beside = Active]
  <2>1. n.pc = "judge" /\ n.beside = Active /\ RoundShape(n)
    BY DEF NoRound, RoundShape
  <2>2. round'[r] = n /\ round' = [q \in Rounds |-> round'[q]]
    BY <1>3
  <2> HIDE DEF n
  <2>3. ASSUME NEW q \in Rounds, q # r
        PROVE  /\ RoundShape(round'[q]) /\ round'[q].pc = round[q].pc
               /\ round'[q].todo = round[q].todo /\ round'[q].in = round[q].in
               /\ round'[q].have = round[q].have
               /\ round'[q].beside = IF q \in Active THEN round[q].beside \cup {r} ELSE round[q].beside
    <3>1. RoundShape(round[q])
      BY DEF RoundsInv, RoundShapes
    <3>2. round'[q] = IF q \in Active THEN [round[q] EXCEPT !.beside = @ \cup {r}] ELSE round[q]
      BY <1>3, <2>3
    <3> QED
      BY <3>1, <3>2 DEF RoundShape
  <2>4. RoundShapes' /\ PropShapes'
    BY <1>1, <2>1, <2>2, <2>3 DEF RoundsInv, RoundShapes, PropShapes
  <2>5. Active' = Active \cup {r} /\ r \notin Active /\ Active \subseteq Rounds
    BY <1>1, <2>1, <2>2, <2>3 DEF Active
  <2>6. Apart'
    <3> SUFFICES ASSUME NEW t \in Active', NEW q \in Active', t # q PROVE q \in round'[t].beside
      BY DEF Apart
    <3>1. CASE t = r
      BY <2>1, <2>2, <2>5, <3>1
    <3>2. CASE t # r /\ q = r
      BY <2>3, <2>5, <3>2
    <3>3. CASE t # r /\ q # r
      BY <2>3, <2>5, <3>3 DEF RoundsInv, Apart
    <3> QED
      BY <3>1, <3>2, <3>3
  <2>7. Authored'
    BY <1>1, <2>3 DEF RoundsInv, Authored
  <2>8. OneProposal'
    <3> SUFFICES ASSUME NEW x \in Props, NEW y \in Props, x # y, Pending(x), Pending(y),
                        proposal[x].sources = proposal[y].sources
                 PROVE  \E t \in proposal[x].by, q \in proposal[y].by :
                           t \in round'[q].beside \/ q \in round'[t].beside
      BY <1>1 DEF OneProposal, Pending
    <3>1. PICK t \in proposal[x].by, q \in proposal[y].by : t \in round[q].beside \/ q \in round[t].beside
      BY DEF RoundsInv, OneProposal
    <3>2. t \in Rounds /\ t # r /\ q \in Rounds /\ q # r
      BY <1>1 DEF RoundsInv, Authored
    <3>3. round[t].beside \subseteq round'[t].beside /\ round[q].beside \subseteq round'[q].beside
      BY <2>3, <3>2
    <3> QED
      BY <3>1, <3>3
  <2>9. ASSUME NEW q \in Rounds PROVE Proposing(round[q], q)'
    <3>1. CASE q = r
      BY <2>1, <2>2, <3>1 DEF Proposing
    <3>2. CASE q # r
      <4>1. Proposing(round[q], q)
        BY DEF RoundsInv
      <4>2. round[q].beside \subseteq round'[q].beside
        BY <2>3, <3>2
      <4> QED
        BY <1>1, <2>3, <3>2, <4>1, <4>2 DEF Proposing, Knows, Pending
    <3> QED
      BY <3>1, <3>2
  <2> QED
    BY <2>4, <2>6, <2>7, <2>8, <2>9 DEF RoundsInv
<1> QED
  BY <1>2, <1>3 DEF SetLastRun

LEMMA JudgeKeeps ==
    ASSUME RoundsInv, NEW r \in Rounds,
           MaybeSkillEvolution(r) \/ HasVerdict(r) \/ RecordPairVerdict(r) \/ ListRelatedPairs(r)
    PROVE  RoundsInv'
<1>1. UNCHANGED proposal /\ RoundShape(round[r])
  BY DEF MaybeSkillEvolution, HasVerdict, RecordPairVerdict, ListRelatedPairs, RoundsInv, RoundShapes
<1>2. CASE MaybeSkillEvolution(r)
  <2> DEFINE s == IF last = "recent" THEN "over" ELSE "gate"
             n == [round[r] EXCEPT !.pc = s, !.saw = last]
  <2>1. round' = [round EXCEPT ![r] = n] /\ s \in {"over", "gate"} /\ round[r].pc = "new"
    BY <1>2 DEF MaybeSkillEvolution
  <2> HIDE DEF s
  <2>2. RoundShape(n) /\ n.pc = s
    BY <1>1 DEF RoundShape
  <2>3. Proposing(n, r) /\ ~RoundBusy(n)
    BY <2>1, <2>2 DEF Proposing, RoundBusy
  <2> HIDE DEF n
  <2> QED
    BY <1>1, <2>1, <2>2, <2>3, RoundGoes
<1>3. ASSUME NEW n, round' = [round EXCEPT ![r] = n], RoundShape(n), round[r].pc = "judge",
             n.pc \in {"judge", "pending"}, n.pc = "pending" => n.in = {}, n.beside = round[r].beside
      PROVE  RoundsInv'
  <2>1. Proposing(n, r) /\ RoundBusy(round[r])
    BY <1>3 DEF Proposing, RoundBusy
  <2> QED
    BY <1>1, <1>3, <2>1, RoundGoes
<1>4. CASE HasVerdict(r)
  <2>1. PICK c : round' = [round EXCEPT ![r].todo = @ \ {c}, ![r].in = IF verdict[c] = "none" THEN {c} ELSE {}]
    BY <1>4 DEF HasVerdict
  <2> DEFINE i == IF verdict[c] = "none" THEN {c} ELSE {}
             n == [round[r] EXCEPT !.todo = @ \ {c}, !.in = i]
  <2>2. round' = [round EXCEPT ![r] = n] /\ round[r].pc = "judge"
    BY <1>4, <2>1 DEF HasVerdict
  <2> HIDE DEF i
  <2>3. RoundShape(n) /\ n.pc = round[r].pc /\ n.beside = round[r].beside
    BY <1>1 DEF RoundShape
  <2> HIDE DEF n
  <2> QED
    BY <1>3, <2>2, <2>3
<1>5. CASE RecordPairVerdict(r)
  <2> DEFINE n == [round[r] EXCEPT !.in = {}]
  <2>2. round' = [round EXCEPT ![r] = n] /\ round[r].pc = "judge"
    BY <1>5 DEF RecordPairVerdict
  <2>3. RoundShape(n) /\ n.pc = round[r].pc /\ n.beside = round[r].beside
    BY <1>1 DEF RoundShape
  <2> HIDE DEF n
  <2> QED
    BY <1>3, <2>2, <2>3
<1>6. CASE ListRelatedPairs(r)
  <2>1. CASE round' = [round EXCEPT ![r] = Ended]
    BY <1>1, <1>6, <2>1, RoundEnds DEF ListRelatedPairs
  <2>2. CASE round' = [round EXCEPT ![r].pc = "pending", ![r].todo = Clusters]
    <3> DEFINE some == Clusters
               n == [round[r] EXCEPT !.pc = "pending", !.todo = some]
    <3>1. round' = [round EXCEPT ![r] = n] /\ round[r].pc = "judge" /\ round[r].in = {}
      BY <1>6, <2>2 DEF ListRelatedPairs
    <3> HIDE DEF some
    <3>2. RoundShape(n) /\ n.pc = "pending" /\ n.in = {} /\ n.beside = round[r].beside
      BY <1>1, <3>1 DEF RoundShape
    <3> HIDE DEF n
    <3> QED
      BY <1>3, <3>1, <3>2
  <2> QED
    BY <1>6, <2>1, <2>2 DEF ListRelatedPairs
<1> QED
  BY <1>2, <1>4, <1>5, <1>6

LEMMA ReadsKeeps ==
    ASSUME RoundsInv, NEW r \in Rounds,
           ListPendingProposals(r) \/ ReadSkillBodies(r) \/ EndRun(r)
    PROVE  RoundsInv'
<1>1. UNCHANGED proposal /\ RoundShape(round[r]) /\ Proposing(round[r], r)
  BY DEF ListPendingProposals, ReadSkillBodies, EndRun, RoundsInv, RoundShapes
<1>2. CASE ListPendingProposals(r)
  <2>0. round[r].pc = "pending"
    BY <1>2 DEF ListPendingProposals
  <2>1. CASE round' = [round EXCEPT ![r] = Ended]
    BY <1>1, <2>0, <2>1, RoundEnds
  <2>2. CASE round' = [round EXCEPT ![r].pc = "synth",
                                    ![r].have = {proposal[x].sources : x \in {y \in Props : Pending(y)}}]
    <3> DEFINE some == {proposal[x].sources : x \in {y \in Props : Pending(y)}}
               n == [round[r] EXCEPT !.pc = "synth", !.have = some]
    <3>1. round' = [round EXCEPT ![r] = n]
      BY <2>2
    <3>2. \A x \in Props : Pending(x) => proposal[x].sources \in some
      OBVIOUS
    <3> HIDE DEF some
    <3>3. /\ RoundShape(n) /\ n.pc = "synth" /\ n.have = some /\ n.beside = round[r].beside
          /\ n.in = round[r].in
      BY <1>1 DEF RoundShape
    <3> HIDE DEF n
    <3>4. Proposing(n, r)
      BY <1>1, <2>0, <3>2, <3>3 DEF Proposing, Knows
    <3> QED
      BY <1>1, <2>0, <3>1, <3>3, <3>4, RoundGoes DEF RoundBusy
  <2> QED
    BY <1>2, <2>1, <2>2 DEF ListPendingProposals
<1>3. CASE ReadSkillBodies(r)
  <2>1. PICK c \in round[r].todo :
           round' = [round EXCEPT ![r].todo = @ \ {c},
                                  ![r].in = IF c \in round[r].have \/ ~(c \subseteq disk[RoundPod[r]]) THEN {} ELSE c]
    BY <1>3 DEF ReadSkillBodies
  <2> DEFINE i == IF c \in round[r].have \/ ~(c \subseteq disk[RoundPod[r]]) THEN {} ELSE c
             n == [round[r] EXCEPT !.todo = @ \ {c}, !.in = i]
  <2>2. round' = [round EXCEPT ![r] = n] /\ round[r].pc = "synth" /\ round[r].in = {}
    BY <1>3, <2>1 DEF ReadSkillBodies
  <2>3. i = {} \/ (i = c /\ c \notin round[r].have)
    OBVIOUS
  <2> HIDE DEF i
  <2>4. /\ RoundShape(n) /\ n.pc = "synth" /\ n.beside = round[r].beside
        /\ n.have = round[r].have /\ n.todo = round[r].todo \ {c} /\ n.in = i
    BY <1>1, <2>2 DEF RoundShape
  <2> HIDE DEF n
  <2>5. Proposing(n, r)
    <3>1. ASSUME NEW x \in Props, Pending(x) PROVE Knows(n, r, x)
      <4>1. Knows(round[r], r, x)
        BY <1>1, <2>2, <3>1 DEF Proposing
      <4> QED
        BY <2>1, <2>3, <2>4, <4>1 DEF Knows
    <3> QED
      BY <2>3, <2>4, <3>1 DEF Proposing
  <2> QED
    BY <1>1, <2>2, <2>4, <2>5, RoundGoes DEF RoundBusy
<1>4. CASE EndRun(r)
  <2> DEFINE n == [round[r] EXCEPT !.pc = "over"]
  <2>1. round' = [round EXCEPT ![r] = n] /\ round[r].pc = "synth"
    BY <1>4 DEF EndRun
  <2>2. RoundShape(n) /\ n.pc = "over" /\ n.beside = round[r].beside
    BY <1>1 DEF RoundShape
  <2> HIDE DEF n
  <2>3. Proposing(n, r) /\ ~RoundBusy(n)
    BY <2>2 DEF Proposing, RoundBusy
  <2> QED
    BY <1>1, <2>1, <2>2, <2>3, RoundGoes
<1> QED
  BY <1>2, <1>3, <1>4

LEMMA CreateKeeps ==
    ASSUME RoundsInv, NEW r \in Rounds, CreateProposal(r) PROVE RoundsInv'
<1>1. /\ round[r].pc = "synth" /\ round[r].in # {} /\ RoundShape(round[r])
      /\ Proposing(round[r], r)
  BY DEF CreateProposal, RoundsInv, RoundShapes
<1> DEFINE n == [round[r] EXCEPT !.in = {}]
<1>2. round' = [round EXCEPT ![r] = n]
  BY DEF CreateProposal
<1>3. /\ RoundShape(n) /\ n.pc = "synth" /\ n.beside = round[r].beside
      /\ n.have = round[r].have /\ n.todo = round[r].todo /\ n.in = {}
  BY <1>1 DEF RoundShape
<1> HIDE DEF n
<1>4. Proposing(n, r)
  <2>1. ASSUME NEW x \in Props, Pending(x) PROVE Knows(n, r, x)
    <3>1. Knows(round[r], r, x)
      BY <1>1, <2>1 DEF Proposing
    <3> QED
      BY <1>3, <3>1 DEF Knows
  <2> QED
    BY <1>3, <2>1 DEF Proposing
<1>5. CASE UNCHANGED proposal
  BY <1>1, <1>2, <1>3, <1>4, <1>5, RoundGoes DEF RoundBusy
<1>6. ASSUME NEW k, NEW x \in Props, proposal[x] = None,
             proposal' = [proposal EXCEPT ![x] =
                 [status |-> "pending", sources |-> round[r].in, target |-> k, by |-> {r}]]
      PROVE  RoundsInv'
  <2>1. /\ proposal' = [y \in Props |-> proposal'[y]] /\ PropShape(proposal'[x])
        /\ proposal'[x].sources = round[r].in /\ proposal'[x].by = {r}
        /\ \A y \in Props \ {x} : proposal'[y] = proposal[y]
    BY <1>6 DEF RoundsInv, PropShapes, PropShape
  <2>2. /\ round' = [q \in Rounds |-> round'[q]] /\ round'[r] = n
        /\ \A q \in Rounds \ {r} : round'[q] = round[q]
    BY <1>2 DEF RoundsInv, RoundShapes
  <2>3. PropShapes' /\ RoundShapes'
    BY <1>3, <2>1, <2>2 DEF RoundsInv, PropShapes, RoundShapes
  <2>4. \A q \in Rounds : round'[q].pc = round[q].pc /\ round'[q].beside = round[q].beside
    BY <1>1, <1>3, <2>2
  <2>5. Apart' /\ Active' = Active
    BY <2>4 DEF RoundsInv, Apart, Active
  <2>6. Authored'
    BY <1>1, <2>1, <2>4 DEF RoundsInv, Authored
  <2>7. ASSUME NEW y \in Props \ {x}, Pending(y)', proposal'[y].sources = round[r].in
        PROVE  \E q \in proposal'[y].by : q \in round'[r].beside
    <3>1. Pending(y) /\ proposal[y] = proposal'[y]
      BY <2>1, <2>7 DEF Pending
    <3>2. Knows(round[r], r, y)
      BY <1>1, <3>1 DEF Proposing
    <3>3. round[r].in \notin round[r].have
      BY <1>1 DEF Proposing
    <3> QED
      BY <2>4, <2>7, <3>1, <3>2, <3>3 DEF Knows
  <2>8. OneProposal'
    <3> SUFFICES ASSUME NEW y \in Props, NEW z \in Props, y # z, Pending(y)', Pending(z)',
                        proposal'[y].sources = proposal'[z].sources
                 PROVE  \E t \in proposal'[y].by, q \in proposal'[z].by :
                           t \in round'[q].beside \/ q \in round'[t].beside
      BY DEF OneProposal
    <3>1. CASE y = x
      BY <2>1, <2>7, <3>1
    <3>2. CASE z = x
      BY <2>1, <2>7, <3>2
    <3>3. CASE y # x /\ z # x
      <4>1. PICK t \in proposal[y].by, q \in proposal[z].by : t \in round[q].beside \/ q \in round[t].beside
        BY <2>1, <3>3 DEF RoundsInv, OneProposal, Pending
      <4>2. t \in Rounds /\ q \in Rounds
        BY DEF RoundsInv, Authored
      <4> QED
        BY <2>1, <2>4, <3>3, <4>1, <4>2
    <3> QED
      BY <3>1, <3>2, <3>3
  <2>9. ASSUME NEW q \in Rounds PROVE Proposing(round[q], q)'
    <3>1. ASSUME round'[q].pc = "synth", NEW y \in Props, Pending(y)' PROVE Knows(round[q], q, y)'
      <4>1. CASE y = x /\ q = r
        <5>1. round[r].in \notin round[r].todo
          BY <1>1 DEF Proposing
        <5> QED
          BY <1>1, <1>3, <2>1, <2>2, <4>1, <5>1 DEF Knows
      <4>2. CASE y = x /\ q # r
        <5>1. q \in Active /\ r \in Active
          BY <1>1, <2>4, <3>1 DEF Active
        <5>2. r \in round[q].beside
          BY <4>2, <5>1 DEF RoundsInv, Apart
        <5> QED
          BY <2>1, <2>4, <4>2, <5>2 DEF Knows
      <4>3. CASE y # x /\ q = r
        BY <1>3, <1>4, <2>1, <2>2, <3>1, <4>3 DEF Proposing, Knows, Pending
      <4>4. CASE y # x /\ q # r
        BY <2>1, <2>2, <3>1, <4>4 DEF RoundsInv, Proposing, Knows, Pending
      <4> QED
        BY <4>1, <4>2, <4>3, <4>4
    <3>2. round'[q].pc = "synth" /\ round'[q].in # {} => round'[q].in \notin round'[q].have \cup round'[q].todo
      <4>1. CASE q = r
        BY <1>3, <2>2, <4>1
      <4>2. CASE q # r
        BY <2>2, <4>2 DEF RoundsInv, Proposing
      <4> QED
        BY <4>1, <4>2
    <3>3. round'[q].pc = "pending" => round'[q].in = {}
      BY <1>1, <1>3, <2>2 DEF RoundsInv, Proposing
    <3> QED
      BY <3>1, <3>2, <3>3 DEF Proposing
  <2> QED
    BY <2>3, <2>5, <2>6, <2>8, <2>9 DEF RoundsInv
<1> QED
  BY <1>5, <1>6 DEF CreateProposal

LEMMA RoundsStay ==
    ASSUME RoundsInv, UNCHANGED <<round, proposal>> PROVE RoundsInv'
<1>1. PropShapes'
  BY DEF RoundsInv, PropShapes
<1> QED
  BY <1>1, DecidedKeeps DEF Pending

LEMMA StatusKeeps ==
    ASSUME RoundsInv, NEW x, NEW s \in {"applied", "rejected"}, UNCHANGED round,
           proposal' = [proposal EXCEPT ![x].status = s]
    PROVE  RoundsInv'
<1>1. PropShapes'
  BY DEF RoundsInv, PropShapes, PropShape
<1>2. ASSUME NEW y \in Props
      PROVE  /\ proposal'[y].sources = proposal[y].sources /\ proposal'[y].by = proposal[y].by
             /\ Pending(y)' => Pending(y)
  BY DEF RoundsInv, PropShapes, PropShape, Pending
<1> QED
  BY <1>1, <1>2, DecidedKeeps

LEMMA RoundsNextInv ==
    ASSUME RoundsInv, [SkillsNext]_skillVars PROVE RoundsInv'
<1>1. ASSUME NEW o \in Ops, OpStep(o) PROVE RoundsInv'
  <2>1. CASE SetApplied(o)
    BY <2>1, RoundsStay, StatusKeeps DEF SetApplied
  <2>2. CASE ~SetApplied(o)
    <3>1. UNCHANGED <<round, proposal>>
      BY <1>1, <2>2 DEF OpStep, Tables, SyncSkillUp, DeleteSkillUp, Mirror, Install, DeleteSkill,
                        HydrateSkillsDown, WriteTarget, ArchiveSource, ApplyProposal
    <3> QED
      BY <3>1, RoundsStay
  <2> QED
    BY <2>1, <2>2
<1>2. ASSUME NEW x \in Props, Reject(x) PROVE RoundsInv'
  BY <1>2, StatusKeeps DEF Reject
<1>3. ASSUME \/ \E p \in Pods : DeleteArchivedSkill(p) \/ \E k \in Skills : ArchiveSkill(p, k)
             \/ IntervalPasses \/ UNCHANGED skillVars
      PROVE  RoundsInv'
  <2>1. UNCHANGED <<round, proposal>>
    BY <1>3 DEF DeleteArchivedSkill, ArchiveSkill, Tables, IntervalPasses, skillVars
  <2> QED
    BY <2>1, RoundsStay
<1>4. ASSUME NEW r \in Rounds, RoundStep(r) PROVE RoundsInv'
  BY <1>4, BeginsKeeps, JudgeKeeps, ReadsKeeps, CreateKeeps DEF RoundStep
<1> QED
  BY <1>1, <1>2, <1>3, <1>4, SkillSteps
-----------------------------------------------------------------------------
LEMMA SkillsInvInit == ASSUME SkillsInit PROVE FilesInv /\ RoundsInv
<1>1. OpShapes /\ DiskShapes /\ Hydrating
  BY DEF SkillsInit, OpShapes, OpShape, NoOp, DiskShapes, Hydrating
<1>2. \A k \in written \ deleted : \A p \in Pods : k \in disk[p]
  BY DEF SkillsInit
<1>3. SkillsStay
  BY <1>2, SkillsAssumption DEF SkillsStay, Somewhere
<1>4. Mirrored
  BY DEF SkillsInit, Mirrored
<1>5. proposal \in [Props -> Proposals] /\ \A x \in Props : proposal[x].by = {}
  BY SkillsAssumption DEF SkillsInit
<1>6. PropShapes
  BY <1>5 DEF PropShapes, PropShape, Proposals
<1>7. \A r \in Rounds : round[r].pc = "new" /\ RoundShape(round[r])
  BY DEF SkillsInit, NoRound, RoundShape
<1>8. RoundShapes /\ Apart /\ Authored /\ \A r \in Rounds : Proposing(round[r], r)
  BY <1>5, <1>7 DEF SkillsInit, RoundShapes, Apart, Active, Authored, Proposing
<1>9. OneProposal
  BY SkillsAssumption DEF SkillsInit, OneProposal, Pending
<1> QED
  BY <1>1, <1>3, <1>4, <1>6, <1>8, <1>9 DEF FilesInv, RoundsInv

\* Whatever is installed, merged, archived, swept and hydrated side by side, a
\* skill that nobody deleted exists somewhere, but for those that a hydrate or a
\* late delete found in no copy of the object store (skills/objectstore.go); and a
\* cluster has two proposals only of rounds that overlapped (agent/skill_evolution.go).
THEOREM SkillsKeptHolds == SkillsSpec => []SkillsKept
<1>1. SkillsInit => FilesInv /\ RoundsInv
  BY SkillsInvInit
<1>2. FilesInv /\ RoundsInv /\ [SkillsNext]_skillVars => (FilesInv /\ RoundsInv)'
  BY FilesNextInv, RoundsNextInv
<1>3. FilesInv /\ RoundsInv => SkillsKept
  BY DEF FilesInv, RoundsInv, SkillsKept
<1> QED
  BY <1>1, <1>2, <1>3, PTL DEF SkillsSpec
=============================================================================
