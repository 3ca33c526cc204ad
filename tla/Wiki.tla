-------------------------------- MODULE Wiki --------------------------------
(***************************************************************************)
(* The knowledge base of the agents and the wiki pages that a model makes  *)
(* from its sources (kb/store.go, wiki/, gateway/wiki_autogen.go,          *)
(* setup/handlers_wiki.go, handlers_kb.go).  A job is the goroutine of one *)
(* request to generate, or of one sweep of the ticker of a pod, and takes  *)
(* sources one by one: the pages that list a source are removed, and made  *)
(* again from its text.  Sources are added and deleted and pages deleted   *)
(* meanwhile.  The model is external; a plan is one of PlansOf the source. *)
(*                                                                         *)
(* Texts, links between pages and progress counters are left out, and so   *)
(* are the limits of the listings (100 to 10000 rows).                     *)
(***************************************************************************)
EXTENDS Mishaps, FiniteSets, Sequences

CONSTANTS
    Agents, Sources, AgentOf,   \* AgentOf[s]: the agent whose source s is
    Pages, SourcePages,         \* ids of pages, and of those of the type source
    PlansOf, OwnPage,           \* PlansOf[s]: sequences of [id, title]; OwnPage[s]: made if none is
    WikiJobs, JobPod,           \* at most one run per job and behaviour
    Requests,                   \* the sets of sources that a request may name
    MaxDeletes,                 \* a bound on deletions by users
    NoAgent, NoSource, NoPage

ASSUME WikiAssumption ==
    /\ NoAgent \notin Agents /\ NoSource \notin Sources
    /\ AgentOf \in [Sources -> Agents] /\ Requests \subseteq SUBSET Sources
    /\ \A s \in Sources : /\ PlansOf[s] \subseteq Seq([id : Pages, title : STRING])
                          /\ OwnPage[s] \in [id : Pages, title : STRING]

VARIABLES
    source, marked,             \* kb_sources and kb_entries; wiki_generated_at is set
    page,                       \* wiki_pages
    recent,                     \* agents whose last sweep is not Interval ago
    locks,                      \* wikiGenLocks of each pod
    job, del,                   \* the jobs' locals; a deletion in progress
    deletes,
    stripped, adrift            \* history: sources whose pages went, or that a page may outlive,
                                \*   in one of the ways named where these change

wikiVars == <<source, marked, page, recent, locks, job, del, mishap, deletes, stripped, adrift>>

NoRow    == [agent |-> NoAgent, title |-> "", src |-> {}]
NotFound == [id |-> NoPage, title |-> "", src |-> {}]

NoDel    == [src |-> NoSource, via |-> "none", at |-> "none"]
NoRun    == [pc |-> "new", by |-> "none", agent |-> NoAgent, todo |-> {}, src |-> NoSource,
             rest |-> <<>>, found |-> NotFound]

WikiInit ==
    /\ source \in [Sources -> {"none", "here"}]
    /\ marked = {} /\ page = [i \in Pages |-> NoRow]
    /\ recent \in {{}, Agents} /\ locks = {}
    /\ job = [j \in WikiJobs |-> NoRun] /\ del = NoDel
    /\ mishap = 0 /\ deletes = 0 /\ stripped = {} /\ adrift = {}
-----------------------------------------------------------------------------
There         == {i \in Pages : page[i].agent # NoAgent}
JobAt(j, p)   == job[j].pc = p
JobTo(j, p)   == job' = [job EXCEPT ![j].pc = p]
Elsewhere     == UNCHANGED <<source, del, deletes>>
Source(j)     == job[j].src
InHand(s)     == {j \in WikiJobs : job[j].src = s}
Foreign(j, i) == i \in There /\ page[i].agent # job[j].agent
\* The jobs that have a source in hand, or have read it on a page of another title.
HasRead(s)    == {j \in WikiJobs : Source(j) = s \/ s \in job[j].found.src}

\* DeletePagesBySource, one transaction: the pages of this agent that list s,
\* whoever else they list.
Lists(a, s)     == {i \in There : page[i].agent = a /\ s \in page[i].src}
Without(gone)   == [i \in Pages |-> IF i \in gone THEN NoRow ELSE page[i]]
SourcesOf(some) == UNION {page[i].src : i \in some}

\* UpsertPage: a row that is there keeps its agent.
Upsert(i, a, t, S) ==
    page' = [page EXCEPT ![i] = [agent |-> IF @.agent = NoAgent THEN a ELSE @.agent,
                                 title |-> t, src |-> S]]
-----------------------------------------------------------------------------
(* What starts a job.  The lock is one of the process that serves the      *)
(* request; a sweep does not take it.                                      *)

HandleWikiGenerate(j) ==
    /\ JobAt(j, "new")
    /\ \E a \in Agents, by \in {"user", "force"}, S \in Requests :
         /\ \A s \in S : AgentOf[s] = a /\ source[s] # "none"
         /\ <<JobPod[j], a>> \notin locks
         /\ locks' = locks \cup {<<JobPod[j], a>>}
         /\ job' = [job EXCEPT ![j] = [NoRun EXCEPT !.pc = "list", !.by = by, !.agent = a, !.todo = S]]
    /\ Works /\ Elsewhere /\ UNCHANGED <<marked, page, recent, stripped, adrift>>

\* The tickers of two pods may both find that the interval has passed.
RunWikiAutoGenCycle(j) ==
    /\ JobAt(j, "new") /\ \A k \in WikiJobs : JobAt(k, "stamp") => JobPod[k] # JobPod[j]
    /\ \E a \in Agents :
         /\ a \notin recent
         /\ job' = [job EXCEPT ![j] = [NoRun EXCEPT !.pc = "stamp", !.by = "sweep", !.agent = a]]
    /\ Works /\ Elsewhere /\ UNCHANGED <<marked, page, recent, locks, stripped, adrift>>

SetWikiAutoGenLastRun(j) ==
    /\ JobAt(j, "stamp")
    /\ \/ Works /\ recent' = recent \cup {job[j].agent}
       \/ Fails /\ UNCHANGED recent
    /\ JobTo(j, "list")
    /\ Elsewhere /\ UNCHANGED <<marked, page, locks, stripped, adrift>>

PendingSources(j) ==
    CASE job[j].by = "force" -> job[j].todo
      [] job[j].by = "user"  -> {s \in job[j].todo : source[s] \in {"here", "gutted"} => s \notin marked}
      [] job[j].by = "sweep" -> {s \in Sources \ marked : AgentOf[s] = job[j].agent
                                                          /\ source[s] \in {"here", "gutted"}}

ListSources(j) ==
    /\ JobAt(j, "list")
    /\ \E todo \in {PendingSources(j), {}} :
         /\ IF todo = PendingSources(j) THEN Works ELSE Fails /\ job[j].by # "force"
         /\ job' = [job EXCEPT ![j].pc = "next", ![j].todo = todo]
    /\ Elsewhere /\ UNCHANGED <<marked, page, recent, locks, stripped, adrift>>

EndJob(j) ==
    /\ JobAt(j, "next") /\ job[j].todo = {}
    /\ job' = [job EXCEPT ![j] = [NoRun EXCEPT !.pc = "over"]]
    /\ locks' = IF job[j].by = "sweep" THEN locks ELSE locks \ {<<JobPod[j], job[j].agent>>}
    /\ Works /\ Elsewhere /\ UNCHANGED <<marked, page, recent, stripped, adrift>>
-----------------------------------------------------------------------------
(* Generate, for one source.                                               *)

\* What others have on the pages that go is lost to them, and what another job
\* has made of the same source.
CleanSource(j, s) ==
    /\ JobAt(j, "next") /\ s \in job[j].todo
    /\ LET gone == Lists(job[j].agent, s) IN
       \/ /\ Works /\ page' = Without(gone)
          /\ stripped' = stripped \cup (SourcesOf(gone) \ {s})
                                  \cup (IF InHand(s) # {} THEN {s} ELSE {})
       \/ Fails /\ UNCHANGED <<page, stripped>>
    /\ job' = [job EXCEPT ![j].pc = "read", ![j].src = s, ![j].todo = @ \ {s}]
    /\ Elsewhere /\ UNCHANGED <<marked, recent, locks, adrift>>

\* Mutant: a failed generation is marked like a complete one.
GiveUp_Marks(j) ==
    /\ job' = [job EXCEPT ![j].pc = "mark", ![j].rest = <<>>]
    /\ stripped' = IF Source(j) \in marked THEN stripped \cup {Source(j)} ELSE stripped

\* A source that was marked before stays so, and is skipped from now on.
GiveUp(j) ==
    /\ job' = [job EXCEPT ![j].pc = "next", ![j].src = NoSource, ![j].rest = <<>>]
    /\ stripped' = IF Source(j) \in marked THEN stripped \cup {Source(j)} ELSE stripped

WithSourcePage(plan, s) ==
    IF \E n \in 1..Len(plan) : plan[n].id \in SourcePages THEN plan ELSE Append(plan, OwnPage[s])

\* The text is read and the model asked for a plan.
Analyse(j) ==
    /\ JobAt(j, "read")
    /\ \/ /\ source[Source(j)] = "here"
          /\ \E plan \in PlansOf[Source(j)] :
               job' = [job EXCEPT ![j].pc = "find", ![j].rest = WithSourcePage(plan, Source(j))]
          /\ Works /\ UNCHANGED stripped
       \/ Works /\ source[Source(j)] # "here" /\ GiveUp(j)
       \/ Fails /\ GiveUp(j)
    /\ Elsewhere /\ UNCHANGED <<marked, page, recent, locks, adrift>>

FindPageByTitle(j) ==
    /\ JobAt(j, "find")
    /\ LET e    == Head(job[j].rest)
           same == {i \in There : page[i].agent = job[j].agent /\ page[i].title = e.title} IN
       \/ /\ Works
          /\ \E i \in same : i # e.id
               /\ job' = [job EXCEPT ![j].pc = "merge",
                                     ![j].found = [id |-> i, title |-> e.title, src |-> page[i].src]]
       \/ /\ Works /\ (same = {} \/ e.id \in same)
          /\ JobTo(j, "write")
       \/ Fails /\ JobTo(j, "write")
    /\ Elsewhere /\ UNCHANGED <<marked, page, recent, locks, stripped, adrift>>

Done(j) ==
    job' = [job EXCEPT ![j].pc = IF Len(job[j].rest) = 1 THEN "mark" ELSE "find",
                       ![j].rest = Tail(@), ![j].found = NotFound]

\* The page is written back as it was read, with this source: what was added
\* in between goes, and a page that was deleted returns.  The row may be another
\* agent's by then.
MergeSource(j) ==
    /\ JobAt(j, "merge")
    /\ LET f == job[j].found
           foreign == Foreign(j, f.id) IN
       \/ /\ Works /\ Upsert(f.id, job[j].agent, f.title, f.src \cup {Source(j)})
          /\ stripped' = stripped \cup (IF f.id \in There THEN page[f.id].src \ f.src ELSE {})
                                  \cup (IF foreign THEN {Source(j)} ELSE {})
          /\ adrift' = adrift \cup {s \in f.src : source[s] = "gone"}
                              \cup (IF foreign THEN f.src \cup {Source(j)} ELSE {})
       \/ Fails /\ stripped' = stripped \cup {Source(j)} /\ UNCHANGED <<page, adrift>>
    /\ Done(j)
    /\ Elsewhere /\ UNCHANGED <<marked, recent, locks>>

\* The id of a page has no agent in it, so the row may be another agent's.
WritePage(j) ==
    /\ JobAt(j, "write")
    /\ LET i == Head(job[j].rest).id
           foreign == Foreign(j, i) IN
       \/ /\ Works /\ Upsert(i, job[j].agent, Head(job[j].rest).title, {Source(j)})
          /\ stripped' = stripped \cup (IF i \in There THEN page[i].src \ {Source(j)} ELSE {})
                                  \cup (IF foreign THEN {Source(j)} ELSE {})
          /\ adrift' = IF foreign THEN adrift \cup {Source(j)} ELSE adrift
       \/ Fails /\ stripped' = stripped \cup {Source(j)} /\ UNCHANGED <<page, adrift>>
    /\ Done(j)
    /\ Elsewhere /\ UNCHANGED <<marked, recent, locks>>

\* An update of a row that is gone changes nothing.
MarkSourceGenerated(j) ==
    /\ JobAt(j, "mark")
    /\ \/ /\ Works
          /\ marked' = IF source[Source(j)] \in {"here", "gutted"} THEN marked \cup {Source(j)} ELSE marked
       \/ Fails /\ UNCHANGED marked
    /\ job' = [job EXCEPT ![j].pc = "next", ![j].src = NoSource]
    /\ Elsewhere /\ UNCHANGED <<page, recent, locks, stripped, adrift>>
-----------------------------------------------------------------------------
(* Users, the agent's tools, the clock.                                    *)

IngestText(s) ==
    /\ source[s] = "none"
    /\ source' = [source EXCEPT ![s] = "here"]
    /\ Works /\ UNCHANGED <<marked, page, recent, locks, job, del, deletes, stripped, adrift>>

\* DeleteSource, two statements.
DeleteEntries(s) ==
    /\ source[s] \in {"here", "gutted"} /\ del = NoDel /\ deletes < MaxDeletes
    /\ deletes' = deletes + 1
    /\ source' = [source EXCEPT ![s] = "gutted"]
    /\ \E via \in {"http", "tool"} : del' = [src |-> s, via |-> via, at |-> "row"]
    /\ Works /\ UNCHANGED <<marked, page, recent, locks, job, stripped, adrift>>

\* The tool and the MCP server leave the pages; a job that has the source in
\* hand writes them again.
DeleteRow ==
    /\ del.at = "row"
    /\ \/ /\ Works
          /\ source' = [source EXCEPT ![del.src] = "gone"] /\ marked' = marked \ {del.src}
          /\ del' = IF del.via = "http" THEN [del EXCEPT !.at = "pages"] ELSE NoDel
          /\ adrift' = IF del.via = "tool" \/ HasRead(del.src) # {}
                       THEN adrift \cup {del.src} ELSE adrift
       \/ Fails /\ del' = NoDel /\ UNCHANGED <<source, marked, adrift>>
    /\ UNCHANGED <<page, recent, locks, job, deletes, stripped>>

\* Mutant: the handler deletes the source and its entries only.
Cascade_Nothing ==
    /\ del.at = "pages" /\ del' = NoDel
    /\ Works /\ UNCHANGED <<source, marked, page, recent, locks, job, deletes, stripped, adrift>>

Cascade ==
    /\ del.at = "pages"
    /\ LET gone == Lists(AgentOf[del.src], del.src) IN
       \/ /\ Works /\ page' = Without(gone)
          /\ stripped' = stripped \cup SourcesOf(gone)
          /\ adrift' = IF HasRead(del.src) # {} THEN adrift \cup {del.src} ELSE adrift
       \/ Fails /\ adrift' = adrift \cup {del.src} /\ UNCHANGED <<page, stripped>>
    /\ del' = NoDel
    /\ UNCHANGED <<source, marked, recent, locks, job, deletes>>

DeletePage(i) ==
    /\ i \in There /\ deletes < MaxDeletes /\ deletes' = deletes + 1
    /\ page' = Without({i}) /\ stripped' = stripped \cup page[i].src
    /\ Works /\ UNCHANGED <<source, marked, recent, locks, job, del, adrift>>

WikiIntervalPasses(a) ==
    /\ a \in recent /\ recent' = recent \ {a}
    /\ Works /\ UNCHANGED <<source, marked, page, locks, job, del, deletes, stripped, adrift>>

\* A pod dies with its jobs and its locks.
PodDies(p) ==
    /\ Fails
    /\ locks' = {l \in locks : l[1] # p}
    /\ job' = [j \in WikiJobs |-> IF JobPod[j] = p /\ ~JobAt(j, "new")
                                 THEN [NoRun EXCEPT !.pc = "over"] ELSE job[j]]
    /\ stripped' = stripped \cup {s \in marked : \E j \in InHand(s) : JobPod[j] = p}
    /\ UNCHANGED <<source, marked, page, recent, del, deletes, adrift>>

WikiNext ==
    \/ \E j \in WikiJobs :
         \/ HandleWikiGenerate(j) \/ RunWikiAutoGenCycle(j) \/ SetWikiAutoGenLastRun(j)
         \/ ListSources(j) \/ EndJob(j) \/ (\E s \in Sources : CleanSource(j, s)) \/ Analyse(j)
         \/ FindPageByTitle(j) \/ MergeSource(j) \/ WritePage(j) \/ MarkSourceGenerated(j)
         \/ PodDies(JobPod[j])
    \/ \E s \in Sources : IngestText(s) \/ DeleteEntries(s)
    \/ DeleteRow \/ Cascade
    \/ \E i \in Pages : DeletePage(i)
    \/ \E a \in Agents : WikiIntervalPasses(a)

WikiSpec == WikiInit /\ [][WikiNext]_wikiVars
-----------------------------------------------------------------------------
\* A source that both sweeps and requests skip, since it is marked as done, has a
\* page of its own agent: a failed generation is not taken for a complete one.
\* stripped names the ways in which the code loses it all the same.
Served ==
    \A s \in marked : source[s] = "here" /\ InHand(s) = {} /\ s \notin stripped =>
        Lists(AgentOf[s], s) # {}

\* Deleting a source leaves no page that still lists it, whatever runs beside it:
\* only those of a deletion by a tool, a failed statement, a job that had the
\* source in hand, and a row of another agent.
NoOrphans ==
    \A i \in There : \A s \in page[i].src :
        source[s] = "gone" => s \in adrift \/ del.src = s

\* A page for every source that counts as done, and none for one that is gone.
WikiKept == Served /\ NoOrphans
=============================================================================
