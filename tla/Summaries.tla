----------------------------- MODULE Summaries -----------------------------
(***************************************************************************)
(* The summaries of one session by which later sessions remember it        *)
(* (agent/summary_extract.go, store/conversation_summaries.go,             *)
(* memoryindex/): a run takes the messages after last_summarized_seq and   *)
(* the topics so far to a model, replaces the topics by its answer and     *)
(* advances the number; a pass gives a vector to the topics without one.   *)
(* A run is of a compaction, a /new or a /compact, or of the idle sweep of *)
(* a pod; nothing keeps two runs of a session apart.                       *)
(*                                                                         *)
(* The model is external.  It keeps to its prompt, which is to return all  *)
(* topics, or joins an old segment with the new one, or fails.  A topic is *)
(* its segments and the run that worded it; a model lists them in any      *)
(* order.  The store is SQLite.                                            *)
(***************************************************************************)
EXTENDS Mishaps, Integers, FiniteSetsExt

CONSTANTS
    Plain,          \* seqs of the messages of the transcript: no system, no injected ones
    MaxSeq, MinMessages,
    Runs            \* at most one run per name and behaviour

ASSUME MemoryAssumption == MaxSeq \in Nat /\ Plain \subseteq 0..MaxSeq

VARIABLES
    top,            \* highest seq of session_messages
    lastSum,        \* sessions.last_summarized_seq
    quiet,          \* updated_at is before the sweep's cutoff
    chatter,        \* the session names who talks
    embeds,         \* an embedder is configured
    rows, vec,      \* conversation_summaries; <<id, run>> of conversation_summaries_vec
    made,           \* ids given out
    run,            \* the locals of a run: from is where its window begins
    fill,           \* the topics that a pass of the indexer has yet to do
    lost, mistaken     \* history: seqs, and ids, that one of the ways named below spoils

summaryVars == <<top, lastSum, quiet, chatter, embeds, rows, vec, made, run, fill, mishap, lost, mistaken>>

Fresh == [pc |-> "new", who |-> "none", max |-> 0, from |-> 0, merges |-> FALSE,
          read |-> {}, topics |-> {}, id |-> 0, joined |-> FALSE]

MemoryInit ==
    /\ top = 1 /\ lastSum = 0 /\ quiet = FALSE
    /\ chatter \in BOOLEAN /\ embeds \in BOOLEAN
    /\ rows = {} /\ vec = {} /\ made = 0
    /\ run = [r \in Runs |-> Fresh] /\ fill = {}
    /\ mishap = 0 /\ lost = {} /\ mistaken = {}
-----------------------------------------------------------------------------
RunAt(r, p) == run[r].pc = p
RunTo(r, p) == run' = [run EXCEPT ![r].pc = p]
End(r)   == run' = [run EXCEPT ![r] = [Fresh EXCEPT !.pc = "over"]]
SessionStays == UNCHANGED <<top, quiet, chatter, embeds>>
Table    == UNCHANGED <<rows, vec, made, lost, mistaken>>

Covered(segments) == UNION {g[1]..g[2] : g \in segments}
ToldBy(topics)      == Covered(UNION topics)
SegmentsOf(some)  == {x.segs : x \in some}

Least(segs)    == CHOOSE q \in {g[1] : g \in segs} : \A g \in segs : q <= g[1]
Greatest(segs) == CHOOSE q \in {g[2] : g \in segs} : \A g \in segs : q >= g[2]
Key(who, segs) == <<who, Least(segs), Greatest(segs)>>

NewMessage ==
    /\ top < MaxSeq /\ top' = top + 1 /\ quiet' = FALSE
    /\ Works /\ Table /\ UNCHANGED <<lastSum, chatter, embeds, run, fill>>

TimePasses ==
    /\ ~quiet /\ quiet' = TRUE
    /\ Works /\ Table /\ UNCHANGED <<top, lastSum, chatter, embeds, run, fill>>

\* After a compaction, at /new and /compact.
MaybeExtractSummary(r) ==
    /\ RunAt(r, "new")
    /\ run' = [run EXCEPT ![r].pc = "load", ![r].who = IF chatter THEN "chatter" ELSE "none"]
    /\ Works /\ SessionStays /\ Table /\ UNCHANGED <<lastSum, fill>>

\* The second look at updated_at is at the value that was listed.
SummarizeIdleSessions(r) ==
    /\ RunAt(r, "new") /\ quiet /\ top + 1 >= MinMessages
    /\ run' = [run EXCEPT ![r].pc = "load", ![r].who = IF chatter THEN "chatter" ELSE "owner"]
    /\ Works /\ SessionStays /\ Table /\ UNCHANGED <<lastSum, fill>>
-----------------------------------------------------------------------------
(* persistConversationSummary.                                             *)

ListSessionMessages(r) ==
    /\ RunAt(r, "load")
    /\ \/ Works /\ run' = [run EXCEPT ![r].pc = "session", ![r].max = top]
       \/ Fails /\ End(r)
    /\ SessionStays /\ Table /\ UNCHANGED <<lastSum, fill>>

\* A row that cannot be read counts as one never summarized.
GetSession(r) ==
    /\ RunAt(r, "session")
    /\ \E last \in {lastSum, 0} :
         /\ IF last = lastSum THEN Works ELSE Fails
         /\ \/ last = 0 /\ RunTo(r, "ask")
            \/ last > 0 /\ run[r].max <= last /\ End(r)
            \/ /\ last > 0 /\ run[r].max > last
               /\ run' = [run EXCEPT ![r].pc = "existing", ![r].from = last + 1, ![r].merges = TRUE]
    /\ SessionStays /\ Table /\ UNCHANGED <<lastSum, fill>>

\* Without the topics so far, all is extracted again.
ListExisting(r) ==
    /\ RunAt(r, "existing")
    /\ \/ Works /\ run' = [run EXCEPT ![r].pc = "ask", ![r].read = rows]
       \/ Fails /\ run' = [run EXCEPT ![r].pc = "ask", ![r].from = 0]
    /\ SessionStays /\ Table /\ UNCHANGED <<lastSum, fill>>

\* What the model may say of a window with the plain messages P: a topic of its
\* own, one that an old topic goes on to, or two topics for the first time.
Answers(r, P) ==
    LET new == <<Min(P), Max(P)>>
        old == SegmentsOf(run[r].read) IN
    {old \cup {{new}}} \cup {(old \ {t}) \cup {t \cup {new}} : t \in old}
      \cup IF old = {} /\ new[1] < new[2]
           THEN {{{<<new[1], new[1]>>}, {<<new[1] + 1, new[2]>>}}} ELSE {}

JoinedAnswers(r, P) ==
    LET old == SegmentsOf(run[r].read) IN
    {(old \ {t}) \cup {{<<Least(t), Max(P)>>}} : t \in old}

\* validateTopics: a segment is one of the window, or an old one.
Validate(r, answer) ==
    LET Known(g) == \/ run[r].from <= g[1] /\ g[2] <= run[r].max
                    \/ \E segs \in SegmentsOf(run[r].read) : g \in segs
        Kept(segs) == {g \in segs : Known(g)}
    IN  {Kept(segs) : segs \in answer} \ {{}}

CallExtractTopics(r) ==
    /\ RunAt(r, "ask")
    /\ LET P == {q \in Plain : run[r].from <= q /\ q <= run[r].max}
           Takes(answer, joined) ==
               LET topics == Validate(r, answer) IN
               IF topics = {} THEN End(r)
               ELSE run' = [run EXCEPT ![r].pc = IF run[r].merges THEN "delete" ELSE "insert",
                                       ![r].topics = topics, ![r].joined = joined]
       IN  \/ Works /\ P = {} /\ End(r)
           \/ Works /\ P # {} /\ \E answer \in Answers(r, P) : Takes(answer, FALSE)
           \/ Fails /\ P # {} /\ (End(r) \/ \E answer \in JoinedAnswers(r, P) : Takes(answer, TRUE))
    /\ SessionStays /\ Table /\ UNCHANGED <<lastSum, fill>>

\* Topics that another run wrote since this one read them go unseen; where an old
\* segment was joined with the new one, so may any topic and the new messages.
DeleteBySession(r) ==
    /\ RunAt(r, "delete")
    /\ \/ /\ Works /\ rows' = {} /\ vec' = {}
          /\ LET gone == IF run[r].joined THEN ToldBy(SegmentsOf(rows)) \cup 0..run[r].max
                         ELSE ToldBy(SegmentsOf(rows \ run[r].read))
             IN  lost' = lost \cup (gone \ ToldBy(run[r].topics))
          /\ RunTo(r, "insert")
       \/ Fails /\ End(r) /\ UNCHANGED <<rows, vec, lost>>
    /\ SessionStays /\ UNCHANGED <<lastSum, made, fill, mistaken>>

\* On to the next topic, if there is one.
NextTopic(r, rest) ==
    run' = [run EXCEPT ![r].topics = rest, ![r].id = 0,
                       ![r].pc = IF rest = {} THEN "stamp" ELSE "insert"]

\* An upsert under chatter and range.  Without a chatter it is refused; a failed
\* insert is passed over, and the number advances all the same.
InsertConversationSummary(r) ==
    /\ RunAt(r, "insert")
    /\ \E segs \in run[r].topics :
         LET same == {x \in rows : Key(x.who, x.segs) = Key(run[r].who, segs)}
             id   == IF same = {} THEN made + 1 ELSE (CHOOSE x \in same : TRUE).id
             rest == run[r].topics \ {segs}
         IN  \/ /\ Works /\ run[r].who # "none"
                /\ rows' = (rows \ same) \cup {[who |-> run[r].who, segs |-> segs, by |-> r, id |-> id]}
                /\ made' = IF same = {} THEN made + 1 ELSE made
                /\ lost' = lost \cup (ToldBy(SegmentsOf(same)) \ Covered(segs))
                /\ IF embeds
                     THEN run' = [run EXCEPT ![r].pc = "embed", ![r].topics = rest, ![r].id = id]
                     ELSE NextTopic(r, rest)
             \/ /\ IF run[r].who = "none" THEN Works ELSE Fails
                /\ lost' = lost \cup Covered(segs) /\ NextTopic(r, rest)
                /\ UNCHANGED <<rows, made>>
    /\ SessionStays /\ UNCHANGED <<lastSum, vec, fill, mistaken>>

Vectors(id) == {v \in vec : v[1] = id}
Words(id)   == {x.by : x \in {y \in rows : y.id = id}}

\* Mutant: vec0 keeps the row that is there.
PutVector_Ignored(id, by) == vec' = IF Vectors(id) = {} THEN vec \cup {<<id, by>>} ELSE vec

\* InsertConversationSummaryVector.  One of a topic that is gone is found by no search.
PutVector(id, by) ==
    vec' = IF Words(id) = {} THEN vec ELSE (vec \ Vectors(id)) \cup {<<id, by>>}

\* A topic that another run has reworded gets the vector of the old words, and
\* one that has a vector keeps it when its embedding fails.
Embed(r) ==
    /\ RunAt(r, "embed")
    /\ \/ /\ Works /\ PutVector(run[r].id, r)
          /\ mistaken' = IF Words(run[r].id) = {r} THEN mistaken ELSE mistaken \cup {run[r].id}
       \/ /\ Fails /\ mistaken' = mistaken \cup {run[r].id} /\ UNCHANGED vec
    /\ NextTopic(r, run[r].topics)
    /\ SessionStays /\ UNCHANGED <<lastSum, rows, made, fill, lost>>

\* Mutant: the number is that of the newest message.
SetLastSummarizedSeq_Newest(r) ==
    /\ RunAt(r, "stamp") /\ Works /\ lastSum' = top /\ End(r)
    /\ SessionStays /\ Table /\ UNCHANGED fill

SetLastSummarizedSeq(r) ==
    /\ RunAt(r, "stamp")
    /\ \/ Works /\ lastSum' = run[r].max
       \/ Fails /\ UNCHANGED lastSum
    /\ End(r)
    /\ SessionStays /\ Table /\ UNCHANGED fill

\* The process dies.  What a merge has deleted and not yet written is lost.
Dies(r) ==
    /\ run[r].pc \notin {"new", "over"} /\ Fails /\ End(r)
    /\ lost' = IF run[r].merges /\ run[r].pc \in {"insert", "embed"}
               THEN lost \cup ToldBy(run[r].topics) ELSE lost
    /\ mistaken' = IF RunAt(r, "embed") THEN mistaken \cup {run[r].id} ELSE mistaken
    /\ SessionStays /\ UNCHANGED <<lastSum, rows, vec, made, fill>>
-----------------------------------------------------------------------------
(* The indexer: a periodic pass over what has no vector, or a rebuild.     *)

RunOnce ==
    /\ embeds /\ fill = {}
    /\ fill' = {x \in rows : Vectors(x.id) = {}} /\ fill' # {}
    /\ Works /\ SessionStays /\ Table /\ UNCHANGED <<lastSum, run>>

Reindex ==
    /\ embeds /\ fill = {} /\ vec # {}
    /\ vec' = {} /\ fill' = rows
    /\ Works /\ SessionStays /\ UNCHANGED <<lastSum, rows, made, run, lost, mistaken>>

VectorizeSummary(x) ==
    /\ x \in fill /\ fill' = fill \ {x}
    /\ \/ /\ Works /\ PutVector(x.id, x.by)
          /\ mistaken' = IF Words(x.id) = {x.by} THEN mistaken ELSE mistaken \cup {x.id}
       \/ Fails /\ UNCHANGED <<vec, mistaken>>
    /\ SessionStays /\ UNCHANGED <<lastSum, rows, made, run, lost>>

MemoryNext ==
    \/ NewMessage \/ TimePasses \/ RunOnce \/ Reindex \/ (\E x \in fill : VectorizeSummary(x))
    \/ \E r \in Runs :
         \/ MaybeExtractSummary(r) \/ SummarizeIdleSessions(r)
         \/ ListSessionMessages(r) \/ GetSession(r) \/ ListExisting(r) \/ CallExtractTopics(r)
         \/ DeleteBySession(r) \/ InsertConversationSummary(r) \/ Embed(r)
         \/ SetLastSummarizedSeq(r) \/ Dies(r)

MemorySpec == MemoryInit /\ [][MemoryNext]_summaryVars
-----------------------------------------------------------------------------
\* No message that counts as summarized is forgotten: when no run is between its
\* deletion and its last insert, a topic speaks of it.  lost names the exceptions.
Remembered ==
    lastSum > 0 /\ (\A r \in Runs : ~(run[r].merges /\ run[r].pc \in {"insert", "embed"})) =>
        \A q \in Plain : q <= lastSum /\ q \notin lost => q \in ToldBy(SegmentsOf(rows))

\* A topic is found by the vector of its own words, or has none and the next pass
\* gives it one; mistaken names the exceptions.
VectorsTrue ==
    \A x \in rows : \A v \in Vectors(x.id) :
        v[2] # x.by => x.id \in mistaken \/ \E r \in Runs : RunAt(r, "embed") /\ run[r].id = x.id

\* What counts as summarized is remembered, and found by its own words.
MemoryKept == Remembered /\ VectorsTrue
=============================================================================
