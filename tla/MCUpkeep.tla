------------------------------ MODULE MCUpkeep ------------------------------
(***************************************************************************)
(* TLC instances of Wiki, Summaries and Skills in one run.  A behaviour is *)
(* of one of them, which scene says; the others' variables rest in an      *)
(* initial state.  A scene keeps to a part of the constants, by a          *)
(* condition on its steps.                                                 *)
(*                                                                         *)
(* wiki: an agent with a source and one that is added; a request and a     *)
(* sweep.  agents: two agents with a source each, and no failures.         *)
(* memory: two runs, which begin in a fixed order as they are              *)
(* interchangeable, over a transcript of four messages; vectors: over one  *)
(* of three, with an embedder.                                             *)
(* files: two pods, two skills and a proposal to merge them, two           *)
(* operations, in a fixed order too.                                       *)
(* curator: a round on each of two pods over three skills.                 *)
(***************************************************************************)
EXTENDS Wiki, Summaries, Skills, TLC

CONSTANTS NoOne,
          a1, a2, s1, s2, s3, t1, t2, w1, w2, w3, g1, g2,
          r1, r2, k1, k2, k3, m1, o1, o2, p1, p2, x1, x2, x3

VARIABLE scene
-----------------------------------------------------------------------------
\* Each source has its page; either may go to a page on a topic of one title.
OwnPages    == s1 :> [id |-> w1, title |-> "1"] @@ s2 :> [id |-> w2, title |-> "2"]
                  @@ s3 :> [id |-> w3, title |-> "3"]
Topic(i)    == [id |-> i, title |-> "t"]
Plans       == [s \in Sources |-> {<<OwnPages[s]>>} \cup {<<Topic(i)>> : i \in {t1, t2}}]
AgentsOf    == s1 :> a1 @@ s2 :> a1 @@ s3 :> a2
JobPods     == g1 :> 1 @@ g2 :> 2
Asked       == {{s1}}

wiki == <<source, marked, page, recent, locks, job, del, deletes, stripped, adrift>>

\* One job serves a request and the other one is a sweep.
OneOfEach == job[g1].by # "sweep" /\ job[g2].by \in {"none", "sweep"}

\* What a job may have in the scene wiki, and in the scene agents.
Own     == source[s3] = "none" /\ \A g \in WikiJobs : job[g].agent # a2
Shared  == /\ source[s2] = "none" /\ mishap = 0 /\ deletes = 0
           /\ \A g \in WikiJobs : Topic(t2) \notin {job[g].rest[n] : n \in DOMAIN job[g].rest}
-----------------------------------------------------------------------------
summaries == <<top, lastSum, quiet, chatter, embeds, rows, vec, made, run, fill, lost, mistaken>>
-----------------------------------------------------------------------------
Name(cluster) == {m1}
RoundPods     == r1 :> p1 @@ r2 :> p2

Pairs   == {{k1, k2}, {k2, k3}}
NoQueue == [x \in Props |-> None]
WithOne == [NoQueue EXCEPT ![x1] = [status |-> "pending", sources |-> {k1, k2}, target |-> m1, by |-> {}]]
Starts  == {NoQueue, WithOne}

skills == <<cloud, remote, disk, archive, proposal, verdict, last, op, round,
            written, deleted, local, pruned>>
-----------------------------------------------------------------------------
WikiRests   == WikiInit /\ source = [s \in Sources |-> "none"] /\ recent = {}
MemoryRests == MemoryInit /\ ~chatter /\ ~embeds
SkillsRest  == SkillsInit /\ ~cloud /\ written = {} /\ last = "due" /\ proposal = WithOne

UpkeepInit ==
    \/ /\ scene = "wiki" /\ MemoryRests /\ SkillsRest
       /\ WikiInit /\ source = (s1 :> "here" @@ s2 :> "none" @@ s3 :> "none") /\ recent = {}
    \/ /\ scene = "agents" /\ MemoryRests /\ SkillsRest
       /\ WikiInit /\ source[s2] = "none" /\ recent = {}
    \/ scene = "memory" /\ WikiRests /\ MemoryInit /\ ~embeds /\ SkillsRest
    \/ scene = "vectors" /\ WikiRests /\ MemoryInit /\ embeds /\ SkillsRest
    \/ /\ scene = "files" /\ WikiRests /\ MemoryRests
       /\ SkillsInit /\ written \in {{k1}, {k1, k2}} /\ last = "zero" /\ proposal = WithOne
    \/ /\ scene = "curator" /\ WikiRests /\ MemoryRests
       /\ SkillsInit /\ ~cloud /\ written = {k1, k2, k3}

RunsInOrder == run[r2].pc # "new" => run[r1].pc # "new"
OpsInOrder  == op[o2].pc # "new" => op[o1].pc # "new"

UpkeepNext ==
    \/ /\ scene = "wiki" /\ WikiNext /\ OneOfEach' /\ Own'
       /\ UNCHANGED <<scene, summaries, skills>>
    \/ /\ scene = "agents" /\ WikiNext /\ OneOfEach' /\ Shared'
       /\ UNCHANGED <<scene, summaries, skills>>
    \/ /\ scene = "memory" /\ MemoryNext /\ RunsInOrder'
       /\ UNCHANGED <<scene, wiki, skills>>
    \/ /\ scene = "vectors" /\ MemoryNext /\ RunsInOrder' /\ top' <= 2
       /\ UNCHANGED <<scene, wiki, skills>>
    \/ /\ scene = "files" /\ (FilesNext \/ ProposalsNext) /\ OpsInOrder' /\ k3 \notin written'
       /\ UNCHANGED <<scene, wiki, summaries>>
    \/ /\ scene = "curator" /\ (CuratorNext \/ \E x \in Props : Reject(x))
       /\ UNCHANGED <<scene, wiki, summaries>>

all == <<scene, mishap, wiki, summaries, skills>>

UpkeepSpec == UpkeepInit /\ [][UpkeepNext]_all
=============================================================================
