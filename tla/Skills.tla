------------------------------- MODULE Skills -------------------------------
(***************************************************************************)
(* The skills of one agent: directories on the disk of each pod, their     *)
(* mirror in the object store if there is one (skills/objectstore.go), the *)
(* archive beside them (agent/skill_executor.go, gateway/stale_archive.go) *)
(* and the curator, which asks a model for pairs that belong together and  *)
(* proposes to merge them (agent/skill_evolution*.go); the owner accepts   *)
(* or rejects (setup/handlers_skill_evolution.go).                         *)
(*                                                                         *)
(* An operation that runs beside others has a name in Ops, a round of the  *)
(* curator one in Rounds.  A death of the process is like the failure of   *)
(* the step it dies in.  Pins, notices, and the layers of global and of    *)
(* user skills are left out.                                               *)
(***************************************************************************)
EXTENDS Mishaps, FiniteSets

CONSTANTS
    Pods, Skills,
    Installs,           \* skills that users install, upload or have written
    Candidates,         \* pairs of skills that were used together often enough
    Targets(_),         \* names that the model may give to the merger of a cluster
    Ops, Rounds, RoundPod,  \* at most one operation or round per name and behaviour
    Props, Queues,      \* ids of proposals; what the queue may hold at the start
    MaxSkillDeletes,
    NoPod, NoSkill, NoProp

Proposals == [status : {"none", "pending", "applied", "rejected"}, sources : SUBSET Skills,
              target : Skills \cup {NoSkill}, by : SUBSET Rounds]

\* The proposals of the start are of rounds that are over, and one for a cluster.
ASSUME SkillsAssumption ==
    /\ Pods # {}
    /\ \A queue \in Queues :
         /\ queue \in [Props -> Proposals] /\ \A x \in Props : queue[x].by = {}
         /\ \A x, y \in Props : x # y /\ queue[x].status = "pending" /\ queue[y].status = "pending" =>
                                   queue[x].sources # queue[y].sources

VARIABLES
    cloud, remote,      \* an object store is configured; the skills in it
    disk, archive,      \* of each pod
    proposal,           \* skill_proposals
    verdict,            \* skill_pair_verdict
    last,               \* last_run_at of the curator
    op, round,          \* locals of operations and of rounds
    written, deleted,   \* history: skills that were whole once, that a user deleted,
    local, pruned       \*   of which a copy was never mirrored, and what that has lost

skillVars == <<cloud, remote, disk, archive, proposal, verdict, last, op, round, mishap,
               written, deleted, local, pruned>>

NoOp  == [pc |-> "new", pod |-> NoPod, skill |-> NoSkill, prop |-> NoProp, todo |-> {}]
NoRound == [pc |-> "new", saw |-> "none", todo |-> {}, in |-> {}, have |-> {}, beside |-> {}]
None  == [status |-> "none", sources |-> {}, target |-> NoSkill, by |-> {}]

\* The skills of the start are everywhere, or were put on the disks by hand.
SkillsInit ==
    /\ cloud \in BOOLEAN
    /\ written \in SUBSET Installs /\ disk = [p \in Pods |-> written]
    /\ remote \in {{}, written} /\ (~cloud => remote = {})
    /\ archive = [p \in Pods |-> {}] /\ proposal \in Queues
    /\ verdict = [c \in Candidates |-> "none"] /\ last \in {"zero", "due"}
    /\ op = [o \in Ops |-> NoOp] /\ round = [r \in Rounds |-> NoRound]
    /\ mishap = 0 /\ deleted = {} /\ pruned = {}
    /\ local = IF cloud THEN written \ remote ELSE {}
-----------------------------------------------------------------------------
Ends(o) == op' = [op EXCEPT ![o] = [NoOp EXCEPT !.pc = "over"]]
Files   == UNCHANGED <<remote, disk, archive>>
History == UNCHANGED <<written, deleted, local, pruned>>
Tables  == UNCHANGED <<proposal, verdict, last, round>>
Fixed   == UNCHANGED cloud
Syncing == {op[o].skill : o \in {q \in Ops : op[q].pc = "sync"}}

\* Mutant: an upload stays on the disk of its pod.
Write_NotMirrored(o, p, k) ==
    /\ disk' = [disk EXCEPT ![p] = @ \cup {k}] /\ written' = written \cup {k}
    /\ deleted' = deleted \ {k} /\ Ends(o)

\* The files are on disk; the mirror comes next.
Write(o, p, k) ==
    /\ disk' = [disk EXCEPT ![p] = @ \cup {k}] /\ written' = written \cup {k}
    /\ deleted' = deleted \ {k}
    /\ op' = [op EXCEPT ![o] = [NoOp EXCEPT !.pc = IF cloud THEN "sync" ELSE "over",
                                            !.pod = p, !.skill = k]]

Install(o, p) ==
    /\ op[o].pc = "new"
    /\ \E k \in Installs : Write(o, p, k)
    /\ Works /\ Fixed /\ Tables /\ UNCHANGED <<remote, archive, local, pruned>>

\* What a concurrent hydrate took for a deleted skill cannot be uploaded any more.
SyncSkillUp(o) ==
    /\ op[o].pc = "sync"
    /\ LET k == op[o].skill IN
       \/ /\ Works /\ k \in disk[op[o].pod]
          /\ remote' = remote \cup {k} /\ local' = local \ {k}
       \/ /\ IF k \in disk[op[o].pod] THEN Fails ELSE Works
          /\ local' = local \cup {k} /\ UNCHANGED remote
    /\ Ends(o)
    /\ Fixed /\ Tables /\ UNCHANGED <<disk, archive, written, deleted, pruned>>

DeleteSkill(o, p) ==
    /\ op[o].pc = "new" /\ Cardinality(deleted) < MaxSkillDeletes
    /\ \E k \in disk[p] :
         /\ disk' = [disk EXCEPT ![p] = @ \ {k}] /\ deleted' = deleted \cup {k}
         /\ op' = [op EXCEPT ![o] = [NoOp EXCEPT !.pc = IF cloud THEN "unsync" ELSE "over", !.skill = k]]
    /\ Works /\ Fixed /\ Tables /\ UNCHANGED <<remote, archive, written, local, pruned>>

\* It may come after the mirror of a new skill of the name, and take that.
DeleteSkillUp(o) ==
    /\ op[o].pc = "unsync"
    /\ LET k   == op[o].skill
           new == {k} \cap (written \ deleted) IN
       \/ /\ Works /\ remote' = remote \ {k} /\ local' = local \cup new
          /\ pruned' = pruned \cup {m \in new : \A p \in Pods : m \notin disk[p] \cup archive[p]}
       \/ Fails /\ UNCHANGED <<remote, local, pruned>>
    /\ Ends(o)
    /\ Fixed /\ Tables /\ UNCHANGED <<disk, archive, written, deleted>>

HydrateSkillsDown(o, p) ==
    /\ cloud /\ op[o].pc = "new"
    /\ op' = [op EXCEPT ![o] = [NoOp EXCEPT !.pc = "mirror", !.pod = p, !.todo = remote]]
    /\ Works /\ Fixed /\ Tables /\ Files /\ History

\* An empty listing prunes nothing.  Another one removes every directory that it
\* does not name, .archive too.
Mirror(o) ==
    /\ op[o].pc = "mirror"
    /\ LET p == op[o].pod
           view == op[o].todo
           kept == view \cap (disk[p] \cup remote) IN
       \/ /\ Works /\ view # {}
          /\ disk' = [disk EXCEPT ![p] = kept] /\ archive' = [archive EXCEPT ![p] = {}]
          /\ pruned' = pruned \cup (((disk[p] \ kept) \cup archive[p]) \cap (local \cup Syncing))
       \/ /\ IF view = {} THEN Works ELSE Fails
          /\ UNCHANGED <<disk, archive, pruned>>
    /\ Ends(o)
    /\ Fixed /\ Tables /\ UNCHANGED <<remote, written, deleted, local>>
-----------------------------------------------------------------------------
(* The archive.                                                            *)

Archived(p, k) ==
    /\ disk' = [disk EXCEPT ![p] = @ \ {k}]
    /\ archive' = [archive EXCEPT ![p] = @ \cup {k}]

\* By the owner, or by a sweep, which looks up once what was not used for long and
\* moves it without a second look: any skill may be on its list.
ArchiveSkill(p, k) ==
    /\ k \in disk[p] /\ Archived(p, k)
    /\ Works /\ Fixed /\ Tables /\ History /\ UNCHANGED <<remote, op>>

DeleteArchivedSkill(p) ==
    /\ Cardinality(deleted) < MaxSkillDeletes
    /\ \E k \in archive[p] :
         archive' = [archive EXCEPT ![p] = @ \ {k}] /\ deleted' = deleted \cup {k}
    /\ Works /\ Fixed /\ Tables /\ UNCHANGED <<remote, disk, op, written, local, pruned>>
-----------------------------------------------------------------------------
(* Proposals.                                                              *)

Mine(o) == proposal[op[o].prop]

ApplyProposal(o, p) ==
    /\ op[o].pc = "new"
    /\ \E x \in Props : \E keep \in SUBSET proposal[x].sources :
         /\ proposal[x].status = "pending"
         /\ op' = [op EXCEPT ![o] = [NoOp EXCEPT !.pc = "target", !.pod = p, !.prop = x,
                                                 !.todo = proposal[x].sources \ keep]]
    /\ Works /\ Fixed /\ Tables /\ Files /\ History

NextSource(o, todo) ==
    op' = [op EXCEPT ![o].todo = todo, ![o].pc = IF todo = {} THEN "status" ELSE "sources"]

\* The merger is not mirrored.  A directory that is there, of an attempt that failed
\* half-way too, ends the attempt.
WriteTarget(o) ==
    /\ op[o].pc = "target"
    /\ LET p == op[o].pod
           k == Mine(o).target IN
       \/ /\ Works /\ k \notin disk[p]
          /\ disk' = [disk EXCEPT ![p] = @ \cup {k}] /\ written' = written \cup {k}
          /\ local' = IF cloud THEN local \cup {k} ELSE local
          /\ NextSource(o, op[o].todo)
       \/ Works /\ k \in disk[p] /\ Ends(o) /\ UNCHANGED <<disk, written, local>>
       \/ /\ Fails /\ k \notin disk[p] /\ Ends(o)
          /\ disk' \in {disk, [disk EXCEPT ![p] = @ \cup {k}]} /\ UNCHANGED <<written, local>>
    /\ Fixed /\ Tables /\ UNCHANGED <<remote, archive, deleted, pruned>>

ArchiveSource(o) ==
    /\ op[o].pc = "sources"
    /\ \E k \in op[o].todo :
         \/ Works /\ k \in disk[op[o].pod] /\ Archived(op[o].pod, k) /\ NextSource(o, op[o].todo \ {k})
         \/ Works /\ k \notin disk[op[o].pod] /\ NextSource(o, op[o].todo \ {k}) /\ UNCHANGED <<disk, archive>>
         \/ Fails /\ k \in disk[op[o].pod] /\ Ends(o) /\ UNCHANGED <<disk, archive>>
    /\ Fixed /\ Tables /\ History /\ UNCHANGED <<remote>>

SetApplied(o) ==
    /\ op[o].pc = "status"
    /\ \/ Works /\ proposal' = [proposal EXCEPT ![op[o].prop].status = "applied"]
       \/ Fails /\ UNCHANGED proposal
    /\ Ends(o)
    /\ Fixed /\ Files /\ History /\ UNCHANGED <<verdict, last, round>>

\* Whatever its status is by then.
Reject(x) ==
    /\ proposal[x].status = "pending" \/ \E o \in Ops : op[o].prop = x
    /\ proposal' = [proposal EXCEPT ![x].status = "rejected"]
    /\ Works /\ Fixed /\ Files /\ History /\ UNCHANGED <<verdict, last, op, round>>
-----------------------------------------------------------------------------
(* The curator, after a turn.                                              *)

Curates == Fixed /\ Files /\ History /\ UNCHANGED <<op>>
Ended   == [NoRound EXCEPT !.pc = "over"]
Active  == {r \in Rounds : round[r].pc \notin {"new", "gate", "over"}}

IntervalPasses ==
    /\ last = "recent" /\ last' = "due"
    /\ Works /\ Curates /\ UNCHANGED <<proposal, verdict, round>>

\* The mutex is one of the process.
MaybeSkillEvolution(r) ==
    /\ round[r].pc = "new" /\ \A q \in Rounds : round[q].pc = "gate" => RoundPod[q] # RoundPod[r]
    /\ round' = [round EXCEPT ![r].pc = IF last = "recent" THEN "over" ELSE "gate",
                          ![r].saw = last]
    /\ Works /\ Curates /\ UNCHANGED <<proposal, verdict, last>>

SetLastRun(r) ==
    /\ round[r].pc = "gate"
    /\ \/ /\ Works /\ last' = "recent"
          /\ round' = IF round[r].saw = "zero" THEN [round EXCEPT ![r] = Ended]
                    ELSE [q \in Rounds |->
                            IF q = r THEN [NoRound EXCEPT !.pc = "judge", !.todo = Candidates, !.beside = Active]
                            ELSE IF q \in Active THEN [round[q] EXCEPT !.beside = @ \cup {r}] ELSE round[q]]
       \/ Fails /\ round' = [round EXCEPT ![r] = Ended] /\ UNCHANGED last
    /\ Curates /\ UNCHANGED <<proposal, verdict>>

HasVerdict(r) ==
    /\ round[r].pc = "judge" /\ round[r].in = {}
    /\ \E c \in round[r].todo :
         round' = [round EXCEPT ![r].todo = @ \ {c}, ![r].in = IF verdict[c] = "none" THEN {c} ELSE {}]
    /\ Works /\ Curates /\ UNCHANGED <<proposal, verdict, last>>

RecordPairVerdict(r) ==
    /\ round[r].pc = "judge"
    /\ \E c \in round[r].in :
         \/ Works /\ \E v \in {"related", "not_related"} : verdict' = [verdict EXCEPT ![c] = v]
         \/ Fails /\ UNCHANGED verdict
    /\ round' = [round EXCEPT ![r].in = {}]
    /\ Curates /\ UNCHANGED <<proposal, last>>

\* BuildClusters: the components of the graph of related pairs.
Related      == {c \in Candidates : verdict[c] = "related"}
Closed(S)    == \A c \in Related : c \cap S # {} => c \subseteq S
Cluster(k)   == {m \in UNION Related : \A S \in SUBSET Skills : k \in S /\ Closed(S) => m \in S}
Clusters     == {Cluster(k) : k \in UNION Related}

ListRelatedPairs(r) ==
    /\ round[r].pc = "judge" /\ round[r].todo = {} /\ round[r].in = {}
    /\ \/ Works /\ round' = [round EXCEPT ![r].pc = "pending", ![r].todo = Clusters]
       \/ Fails /\ round' = [round EXCEPT ![r] = Ended]
    /\ Curates /\ UNCHANGED <<proposal, verdict, last>>

Pending(x) == proposal[x].status = "pending"

\* Mutant: the queue is not looked at.
ListPendingProposals_None(r) ==
    /\ round[r].pc = "pending"
    /\ round' = [round EXCEPT ![r].pc = "synth"]
    /\ Works /\ Curates /\ UNCHANGED <<proposal, verdict, last>>

ListPendingProposals(r) ==
    /\ round[r].pc = "pending"
    /\ \/ Works /\ round' = [round EXCEPT ![r].pc = "synth",
                                      ![r].have = {proposal[x].sources : x \in {y \in Props : Pending(y)}}]
       \/ Fails /\ round' = [round EXCEPT ![r] = Ended]
    /\ Curates /\ UNCHANGED <<proposal, verdict, last>>

\* A cluster with a member that is not on this disk is passed over, in every round.
ReadSkillBodies(r) ==
    /\ round[r].pc = "synth" /\ round[r].in = {}
    /\ \E c \in round[r].todo :
         round' = [round EXCEPT ![r].todo = @ \ {c},
                            ![r].in = IF c \in round[r].have \/ ~(c \subseteq disk[RoundPod[r]]) THEN {} ELSE c]
    /\ Works /\ Curates /\ UNCHANGED <<proposal, verdict, last>>

CreateProposal(r) ==
    /\ round[r].pc = "synth" /\ round[r].in # {}
    /\ \/ /\ Works
          /\ \E k \in Targets(round[r].in) : \E x \in Props :
               /\ proposal[x] = None
               /\ proposal' = [proposal EXCEPT ![x] =
                     [status |-> "pending", sources |-> round[r].in, target |-> k, by |-> {r}]]
       \/ Fails /\ UNCHANGED proposal
    /\ round' = [round EXCEPT ![r].in = {}]
    /\ Curates /\ UNCHANGED <<verdict, last>>

EndRun(r) ==
    /\ round[r].pc = "synth" /\ round[r].todo = {} /\ round[r].in = {}
    /\ round' = [round EXCEPT ![r].pc = "over"]
    /\ Works /\ Curates /\ UNCHANGED <<proposal, verdict, last>>

FilesNext ==
    \/ \E o \in Ops : SyncSkillUp(o) \/ DeleteSkillUp(o) \/ Mirror(o)
         \/ \E p \in Pods : Install(o, p) \/ DeleteSkill(o, p) \/ HydrateSkillsDown(o, p)
    \/ \E p \in Pods : DeleteArchivedSkill(p) \/ \E k \in Skills : ArchiveSkill(p, k)

ProposalsNext ==
    \/ \E o \in Ops : WriteTarget(o) \/ ArchiveSource(o) \/ SetApplied(o)
                      \/ \E p \in Pods : ApplyProposal(o, p)
    \/ \E x \in Props : Reject(x)

CuratorNext ==
    \/ IntervalPasses
    \/ \E r \in Rounds : MaybeSkillEvolution(r) \/ SetLastRun(r) \/ HasVerdict(r) \/ RecordPairVerdict(r)
         \/ ListRelatedPairs(r) \/ ListPendingProposals(r) \/ ReadSkillBodies(r)
         \/ CreateProposal(r) \/ EndRun(r)

SkillsNext == FilesNext \/ ProposalsNext \/ CuratorNext
SkillsSpec == SkillsInit /\ [][SkillsNext]_skillVars
-----------------------------------------------------------------------------
Somewhere(k) == k \in remote \/ \E p \in Pods : k \in disk[p] \/ k \in archive[p]

\* Whatever is merged, archived, swept, hydrated and uploaded side by side, a skill
\* that nobody deleted exists somewhere; pruned are those that a hydrate, or a late
\* delete, removed because no copy was in the object store.
SkillsStay == \A k \in written \ deleted : Somewhere(k) \/ k \in pruned

\* One cluster has one proposal to decide on, unless two rounds overlapped: of two
\* pods, or a round longer than the interval.
OneProposal ==
    \A x, y \in Props :
        x # y /\ Pending(x) /\ Pending(y) /\ proposal[x].sources = proposal[y].sources =>
            \E r \in proposal[x].by, q \in proposal[y].by : r \in round[q].beside \/ q \in round[r].beside

\* No skill is lost, and one cluster has one proposal.
SkillsKept == SkillsStay /\ OneProposal

\* The claim of ApplyProposal that it writes the new skill and archives the others:
\* the merger of an applied proposal is found until a user deletes it.
AppliedHolds ==
    \A x \in Props : proposal[x].status = "applied" /\ proposal[x].target \notin deleted =>
        Somewhere(proposal[x].target)
=============================================================================
