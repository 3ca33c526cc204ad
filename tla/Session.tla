------------------------------ MODULE Session ------------------------------
(***************************************************************************)
(* The working set of one IM conversation, store-backed                    *)
(* (session/manager.go, session/store_adapter.go, the session tables of    *)
(* store/database.go, and what agent/loop.go and agent/slash.go do with    *)
(* them).                                                                  *)
(*                                                                         *)
(* A conversation is a (channel, account, chat) triple.  The database      *)
(* keeps a row per session key of the triple, holding the array of         *)
(* messages, and an append-only archive.  Every pod caches a Session       *)
(* object per key; each Get reloads the object from the row, each write    *)
(* saves the whole array.  A request is one goroutine that runs a script   *)
(* of such steps.  Queued requests come through the chat's task queue, one *)
(* at a time on a pod; the others (web streams, steer probes, group        *)
(* messages, the dashboard) run beside them.                               *)
(*                                                                         *)
(* What a step does between two accesses of shared state (the model, the   *)
(* tools) is left out: the interleaving covers its duration.  A request    *)
(* stands for one tool-free turn; steering is the subject of Steering.     *)
(***************************************************************************)
EXTENDS Integers, Sequences, FiniteSets, SequencesExt, FiniteSetsExt

CONSTANTS
    Requests, Pods,
    Scenes,                \* the requests that come, and how; see Scene
    PruneTurnAge,          \* messages a compression keeps
    MaxKey,                \* bound on the keys minted
    Past, NoRow, NoSnap

Kinds == {"turn", "peek", "inject", "retry", "undo", "compact", "yolo",
          "new", "delete"}

\* queue: requests that come one after the other, in this order; side: those
\* that come at any time; fresh: the conversation has no row yet.
Scene == [queue : Seq(Requests), kinds : SUBSET Kinds,
          side : SUBSET Requests, sideKinds : SUBSET Kinds,
          podOf : [Requests -> Pods], fresh : BOOLEAN]

ASSUME SessionAssumption ==
    /\ Past \notin Requests
    /\ Scenes \subseteq Scene
    /\ \A c \in Scenes : IsInjective(c.queue) /\ ToSet(c.queue) \cap c.side = {}
    /\ PruneTurnAge \in Nat \ {0} /\ MaxKey \in Nat \ {0}

Keys  == 1..MaxKey
Summary  == <<Past, "summary">>    \* "[Conversation Summary]", role user
Messages == (Requests \cup {Past}) \X {"user", "reply"} \cup {Summary}

\* A read that finds no row (sql.ErrNoRows) is none that finds messages.
ASSUME NoRowAssumption == NoRow \notin Seq(Messages)

VARIABLES
    scene,    \* the one this behaviour plays; never changes
    recent,   \* keys of the triple's rows, the latest updated_at first
    row,      \* sessions.messages of each key
    archive,  \* session_messages of each key: <<seq, message>>
    minted,   \* generateSessionKey: keys handed out so far
    objs,     \* Session objects created by each pod for each key
    cur,      \* Manager.sessions: which of them the map holds, 0 for none
    kind, todo, key, idx, got, num, \* locals of each request
    opened,   \* history: the key the latest /new opened, until deleted
    seen,     \* history: the messages each request last read
    stale     \* history: keys given messages read before their last write

db     == <<recent, row, archive, minted>>
pods   == <<objs, cur>>
hist   == <<scene, opened, seen, stale>>
vars   == <<db, pods, kind, todo, key, idx, got, num, hist>>

Object == [msgs : Seq(Messages), snap : Seq(Messages) \cup {NoSnap},
           yolo : BOOLEAN]
-----------------------------------------------------------------------------
(* Scripts: the accesses to shared session state of each kind of request. *)

GetByKey == <<"load", "install">>
Get      == <<"resolve">> \o GetByKey
Say(m)   == <<m, "number", "insert">>
Slash(body) == Get \o body \o Get \o Say("user") \o Say("reply")

Script(k) ==
    CASE k = "turn"    -> Get \o Get \o Say("user") \o <<"ask", "replace">>
                              \o Say("reply")
      [] k = "peek"    -> Get
      [] k = "inject"  -> Get \o Say("user")
      [] k = "retry"   -> Slash(Get \o <<"lastUser", "snapshot", "replace">>)
      [] k = "undo"    -> Slash(Get \o <<"hasSnap", "lastTurn", "replace">>)
      [] k = "compact" -> Slash(Get \o <<"ask", "replace">>)
      [] k = "yolo"    -> Slash(Get \o <<"setMode">>)
      [] k = "new"     -> Slash(Get \o GetByKey \o <<"open", "publish">>)
      [] k = "delete"  -> <<"drop", "purge", "deleteRow">>

Ops == {"start", "resolve", "load", "install", "user", "reply", "number",
        "insert", "ask", "replace", "lastUser", "snapshot", "hasSnap",
        "lastTurn", "restore", "setMode", "open", "publish", "drop", "purge",
        "deleteRow"}

PodOf(r)  == scene.podOf[r]
Queued    == ToSet(scene.queue)
At(r, op) == todo[r] # <<>> /\ Head(todo[r]) = op
Done(r)   == todo[r] = <<>>
InFlight(r) == ~Done(r) /\ ~At(r, "start")
Rows      == ToSet(recent)
Obj(r)    == objs[PodOf(r)][key[r]][idx[r]]

\* Manager.mu: getByKey holds it from the read of the row to the assignment.
MapFree(p) == \A q \in Requests : PodOf(q) = p => ~At(q, "install")

\* Session.mu of object i: Append holds it until the archive has the message.
ObjFree(p, k, i) ==
    \A q \in Requests :
        (PodOf(q) = p /\ key[q] = k /\ idx[q] = i)
            => ~At(q, "number") /\ ~At(q, "insert")
MyObjFree(r) == ObjFree(PodOf(r), key[r], idx[r])

Next1(r)   == todo' = [todo EXCEPT ![r] = Tail(@)]
Skip(r, n) == todo' = [todo EXCEPT ![r] = SubSeq(@, n + 1, Len(@))]

Init ==
    /\ scene \in Scenes
    /\ recent = IF scene.fresh THEN <<>> ELSE <<1>>
    /\ row = [k \in Keys |->
                IF k = 1 /\ ~scene.fresh THEN <<<<Past, "user">>, <<Past, "reply">>>>
                                   ELSE <<>>]
    /\ archive = [k \in Keys |->
                    {<<i - 1, row[k][i]>> : i \in DOMAIN row[k]}]
    /\ minted = IF scene.fresh THEN 0 ELSE 1
    /\ objs = [p \in Pods |-> [k \in Keys |-> <<>>]]
    /\ cur = [p \in Pods |-> [k \in Keys |-> 0]]
    /\ kind = [r \in Requests |-> "turn"]
    /\ todo = [r \in Requests |-> <<"start">>]
    /\ key = [r \in Requests |-> 1]
    /\ idx = [r \in Requests |-> 0]
    /\ got = [r \in Requests |-> NoRow]
    /\ num = [r \in Requests |-> 0]
    /\ opened = 0 /\ stale = {} /\ seen = [r \in Requests |-> <<>>]

\* A task of the chat starts when the one before it is done, on the pod that
\* holds the channel by then; the dashboard deletes a session it lists.
Start(r) ==
    /\ At(r, "start") /\ r \in Queued \cup scene.side
    /\ \A i \in DOMAIN scene.queue :
         scene.queue[i] = r => \A j \in 1..i - 1 : Done(scene.queue[j])
    /\ \E k \in IF r \in Queued THEN scene.kinds ELSE scene.sideKinds :
         /\ kind' = [kind EXCEPT ![r] = k]
         /\ todo' = [todo EXCEPT ![r] = Script(k)]
         /\ IF k = "delete" THEN \E s \in Rows : key' = [key EXCEPT ![r] = s]
                            ELSE UNCHANGED key
    /\ UNCHANGED <<db, pods, idx, got, num, hist>>
-----------------------------------------------------------------------------
(* Manager.Get *)

\* The freshest row of the triple, or a new key that no row has yet.
ResolveOrMintKey(r) ==
    /\ At(r, "resolve")
    /\ IF recent # <<>>
         THEN key' = [key EXCEPT ![r] = Head(recent)] /\ UNCHANGED minted
         ELSE /\ minted < MaxKey
              /\ minted' = minted + 1
              /\ key' = [key EXCEPT ![r] = minted + 1]
    /\ Next1(r)
    /\ UNCHANGED <<recent, row, archive, pods, kind, idx, got, num, hist>>

Load(r) ==
    /\ At(r, "load") /\ MapFree(PodOf(r))
    /\ got' = [got EXCEPT ![r] = IF key[r] \in Rows THEN row[key[r]] ELSE NoRow]
    /\ Next1(r)
    /\ seen' = [seen EXCEPT ![r] = row[key[r]]]
    /\ UNCHANGED <<db, pods, kind, key, idx, num, scene, opened, stale>>

MarkStale(r) == stale' = stale \cup {key[r]}

Blank == [msgs |-> <<>>, snap |-> NoSnap, yolo |-> FALSE]

\* Mutant: a Get makes a new Session although the map has one.
Install_NoCache(r) ==
    /\ At(r, "install")
    /\ LET p == PodOf(r)  k == key[r]
           read == IF got[r] = NoRow THEN <<>> ELSE got[r]
           i == Len(objs[p][k]) + 1 IN
       /\ objs' = [objs EXCEPT ![p][k] = Append(@, [Blank EXCEPT !.msgs = read])]
       /\ cur' = [cur EXCEPT ![p][k] = i]
       /\ idx' = [idx EXCEPT ![r] = i]
    /\ Next1(r)
    /\ UNCHANGED <<db, kind, key, got, num, hist>>

\* A cached object takes over the messages read; a read that found no row
\* leaves them alone.  A new object starts with them.
Install(r) ==
    /\ At(r, "install")
    /\ LET p == PodOf(r)  k == key[r]
           read == IF got[r] = NoRow THEN <<>> ELSE got[r]
           new == Len(objs[p][k]) + 1 IN
       \/ /\ cur[p][k] = 0
          /\ objs' = [objs EXCEPT ![p][k] = Append(@, [Blank EXCEPT !.msgs = read])]
          /\ cur' = [cur EXCEPT ![p][k] = new]
          /\ idx' = [idx EXCEPT ![r] = new]
       \/ /\ cur[p][k] # 0
          /\ ObjFree(p, k, cur[p][k])
          /\ objs' = IF got[r] = NoRow THEN objs
                     ELSE [objs EXCEPT ![p][k][cur[p][k]].msgs = got[r]]
          /\ idx' = [idx EXCEPT ![r] = cur[p][k]]
          /\ UNCHANGED cur
    /\ IF row[key[r]] # seen[r] THEN MarkStale(r) ELSE UNCHANGED stale
    /\ Next1(r)
    /\ UNCHANGED <<db, kind, key, got, num, scene, opened, seen>>
-----------------------------------------------------------------------------
(* Writes of the working set *)

Touch(k) == recent' = <<k>> \o RemoveFirst(recent, k)

\* SaveSession: the whole array, inserting the row if it is not there.
SaveSession(k, ms) == row' = [row EXCEPT ![k] = ms] /\ Touch(k)

SetMsgs(r, ms) == objs' = [objs EXCEPT ![PodOf(r)][key[r]][idx[r]].msgs = ms]

\* Mutant: the row gets the new message instead of the array.
AppendMsg_SavesOne(r) ==
    \E part \in {"user", "reply"} :
        /\ At(r, part) /\ MyObjFree(r)
        /\ SetMsgs(r, Append(Obj(r).msgs, <<r, part>>))
        /\ SaveSession(key[r], <<<<r, part>>>>)
        /\ Next1(r)
        /\ UNCHANGED <<archive, minted, cur, kind, key, idx, got, num, hist>>

\* Session.Append up to the archive insert.
AppendMsg(r) ==
    \E part \in {"user", "reply"} :
        LET ms == Append(Obj(r).msgs, <<r, part>>) IN
        /\ At(r, part) /\ MyObjFree(r)
        /\ SetMsgs(r, ms)
        /\ SaveSession(key[r], ms)
        /\ Next1(r)
        /\ UNCHANGED <<archive, minted, cur, kind, key, idx, got, num, hist>>

\* INSERT ... SELECT COALESCE(MAX(seq), -1) + 1: the statement reads the rows
\* committed when it starts; of two with the same number the primary key
\* lets one in, the other fails and is only logged.
Number(r) ==
    /\ At(r, "number")
    /\ num' = [num EXCEPT ![r] = Max({e[1] : e \in archive[key[r]]} \cup {-1}) + 1]
    /\ Next1(r)
    /\ UNCHANGED <<db, pods, kind, key, idx, got, hist>>

Taken(r) == \E e \in archive[key[r]] : e[1] = num[r]

\* Mutant: Append takes the manager's lock under the session's.
Insert_WaitsMap(r) ==
    /\ At(r, "insert") /\ MapFree(PodOf(r))
    /\ archive' = IF Taken(r) THEN archive
                  ELSE [archive EXCEPT ![key[r]] =
                          @ \cup {<<num[r], Last(Obj(r).msgs)>>}]
    /\ Next1(r)
    /\ UNCHANGED <<recent, row, minted, pods, kind, key, idx, got, num, hist>>

Insert(r) ==
    /\ At(r, "insert")
    /\ archive' = IF Taken(r) THEN archive
                  ELSE [archive EXCEPT ![key[r]] =
                          @ \cup {<<num[r], Last(Obj(r).msgs)>>}]
    /\ Next1(r)
    /\ UNCHANGED <<recent, row, minted, pods, kind, key, idx, got, num, hist>>

\* The array was made of messages that are not the latest: appended to while
\* a compaction waited for its summary.
Outdated(r) == seen[r] # Obj(r).msgs

ReplaceMessages(r) ==
    /\ At(r, "replace") /\ MyObjFree(r)
    /\ SetMsgs(r, got[r])
    /\ SaveSession(key[r], got[r])
    /\ IF Outdated(r) THEN MarkStale(r) ELSE UNCHANGED stale
    /\ Next1(r)
    /\ UNCHANGED <<archive, minted, cur, kind, key, idx, got, num, scene, opened, seen>>
-----------------------------------------------------------------------------
(* What the scripts compute from a copy of the messages (GetMessages) *)

\* compressOlderMessages: a summary and the newest PruneTurnAge messages.
Compressed(ms) ==
    <<Summary>> \o SubSeq(ms, Len(ms) - PruneTurnAge + 1, Len(ms))

Reads(r) == seen' = [seen EXCEPT ![r] = Obj(r).msgs]

\* CompactMessages, by the size of the contents: nothing to do, old tool
\* results blanked (the same messages), or older messages summarised.
Ask(r) ==
    /\ At(r, "ask") /\ MyObjFree(r)
    /\ LET ms == Obj(r).msgs IN
       \/ got' = [got EXCEPT ![r] = ms] /\ Skip(r, 2)
       \/ got' = [got EXCEPT ![r] = ms] /\ Next1(r)
       \/ /\ Len(ms) > PruneTurnAge
          /\ got' = [got EXCEPT ![r] = Compressed(ms)] /\ Next1(r)
    /\ Reads(r)
    /\ UNCHANGED <<db, pods, kind, key, idx, num, scene, opened, stale>>

UserAt(ms) == {i \in DOMAIN ms : ms[i][2] # "reply"}

\* slashRetry: the messages before the last user message.
LastUser(r) ==
    /\ At(r, "lastUser") /\ MyObjFree(r)
    /\ LET ms == Obj(r).msgs IN
       \/ /\ UserAt(ms) # {} /\ Next1(r)
          /\ got' = [got EXCEPT ![r] = SubSeq(ms, 1, Max(UserAt(ms)) - 1)]
       \/ UserAt(ms) = {} /\ Skip(r, 3) /\ UNCHANGED got
    /\ Reads(r)
    /\ UNCHANGED <<db, pods, kind, key, idx, num, scene, opened, stale>>

Snapshot(r) ==
    /\ At(r, "snapshot") /\ MyObjFree(r)
    /\ objs' = [objs EXCEPT ![PodOf(r)][key[r]][idx[r]].snap = Obj(r).msgs]
    /\ Next1(r)
    /\ UNCHANGED <<db, cur, kind, key, idx, got, num, hist>>

HasSnapshot(r) ==
    /\ At(r, "hasSnap") /\ MyObjFree(r)
    /\ IF Obj(r).snap = NoSnap THEN Next1(r)
       ELSE todo' = [todo EXCEPT ![r] = <<"restore">> \o SubSeq(@, 4, Len(@))]
    /\ UNCHANGED <<db, pods, kind, key, idx, got, num, hist>>

\* slashUndo without a snapshot: drop the trailing replies and the user
\* message before them.
LastTurn(r) ==
    /\ At(r, "lastTurn") /\ MyObjFree(r)
    /\ LET ms  == Obj(r).msgs
           end == Max(UserAt(ms) \cup {0}) IN   \* replies only behind it
       \/ Len(ms) < 2 /\ Skip(r, 2) /\ UNCHANGED got
       \/ /\ Len(ms) >= 2 /\ Next1(r)
          /\ got' = [got EXCEPT ![r] = SubSeq(ms, 1, Max({end - 1, 0}))]
    /\ Reads(r)
    /\ UNCHANGED <<db, pods, kind, key, idx, num, scene, opened, stale>>

\* Undo writes the session file, which a store-backed pod never reads.
Undo(r) ==
    /\ At(r, "restore") /\ MyObjFree(r)
    /\ objs' = IF Obj(r).snap = NoSnap THEN objs
               ELSE [objs EXCEPT ![PodOf(r)][key[r]][idx[r]] =
                       [@ EXCEPT !.msgs = Obj(r).snap, !.snap = NoSnap]]
    /\ Next1(r)
    /\ UNCHANGED <<db, cur, kind, key, idx, got, num, hist>>

SetAuthMode(r) ==
    /\ At(r, "setMode") /\ MyObjFree(r)
    /\ objs' = [objs EXCEPT ![PodOf(r)][key[r]][idx[r]].yolo = TRUE]
    /\ Next1(r)
    /\ UNCHANGED <<db, cur, kind, key, idx, got, num, hist>>
-----------------------------------------------------------------------------
(* /new and the dashboard's delete *)

\* Mutant: no empty row is persisted for the new key.
OpenRow_NoSave(r) ==
    /\ At(r, "open") /\ minted < MaxKey
    /\ minted' = minted + 1
    /\ key' = [key EXCEPT ![r] = minted + 1]
    /\ Next1(r)
    /\ UNCHANGED <<recent, row, archive, pods, kind, idx, got, num, hist>>

\* OpenNewSession: the row first, without a lock ...
OpenRow(r) ==
    /\ At(r, "open") /\ minted < MaxKey
    /\ minted' = minted + 1
    /\ key' = [key EXCEPT ![r] = minted + 1]
    /\ SaveSession(minted + 1, <<>>)
    /\ Next1(r)
    /\ UNCHANGED <<archive, pods, kind, idx, got, num, hist>>

\* ... then the map, over whatever it holds for the key.
Publish(r) ==
    /\ At(r, "publish") /\ MapFree(PodOf(r))
    /\ LET p == PodOf(r)  k == key[r]  i == Len(objs[p][k]) + 1 IN
       /\ objs' = [objs EXCEPT ![p][k] = Append(@, Blank)]
       /\ cur' = [cur EXCEPT ![p][k] = i]
       /\ idx' = [idx EXCEPT ![r] = i]
    /\ Next1(r)
    /\ opened' = key[r]
    /\ UNCHANGED <<db, kind, key, got, num, scene, seen, stale>>

Drop(r) ==
    /\ At(r, "drop") /\ MapFree(PodOf(r))
    /\ cur' = [cur EXCEPT ![PodOf(r)][key[r]] = 0]
    /\ Next1(r)
    /\ UNCHANGED <<db, objs, kind, key, idx, got, num, hist>>

Purge(r) ==
    /\ At(r, "purge")
    /\ archive' = [archive EXCEPT ![key[r]] = {}]
    /\ Next1(r)
    /\ UNCHANGED <<recent, row, minted, pods, kind, key, idx, got, num, hist>>

DeleteRow(r) ==
    /\ At(r, "deleteRow")
    /\ row' = [row EXCEPT ![key[r]] = <<>>]
    /\ recent' = RemoveFirst(recent, key[r])
    /\ Next1(r)
    /\ opened' = IF opened = key[r] THEN 0 ELSE opened
    /\ UNCHANGED <<archive, minted, pods, kind, key, idx, got, num, scene, seen, stale>>
-----------------------------------------------------------------------------
Step(r) ==
    \/ ResolveOrMintKey(r) \/ Load(r) \/ Install(r)
    \/ AppendMsg(r) \/ Number(r) \/ Insert(r) \/ ReplaceMessages(r)
    \/ Ask(r) \/ LastUser(r) \/ Snapshot(r) \/ HasSnapshot(r) \/ LastTurn(r)
    \/ Undo(r) \/ SetAuthMode(r) \/ OpenRow(r) \/ Publish(r)
    \/ Drop(r) \/ Purge(r) \/ DeleteRow(r)

Next == \E r \in Requests : Start(r) \/ Step(r)

Spec == Init /\ [][Next]_vars

\* Each request has a goroutine; the database answers.
FairSpec == Spec /\ \A r \in Requests : WF_vars(Step(r))
-----------------------------------------------------------------------------
(* Properties *)

\* Every variable of the tables, the pods' maps and the requests has its type.
TypeOK ==
    /\ recent \in Seq(Keys) /\ IsInjective(recent)
    /\ row \in [Keys -> Seq(Messages)]
    /\ \A k \in Keys : \A e \in archive[k] : e[1] \in Nat /\ e[2] \in Messages
    /\ minted \in 0..MaxKey
    /\ \A p \in Pods, k \in Keys :
         /\ cur[p][k] \in 0..Len(objs[p][k])
         /\ \A i \in DOMAIN objs[p][k] : objs[p][k][i] \in Object
    /\ scene \in Scenes /\ opened \in 0..MaxKey /\ stale \subseteq Keys
    /\ kind \in [Requests -> Kinds] /\ todo \in [Requests -> Seq(Ops)]
    /\ key \in [Requests -> Keys] /\ num \in [Requests -> Nat]
    /\ seen \in [Requests -> Seq(Messages)]
    /\ \A r \in Requests : idx[r] \in Nat /\ got[r] \in Seq(Messages) \cup {NoRow}

\* A request drops messages it has just seen: /retry, /undo, a compaction;
\* or the session is deleted.
Drops(r) ==
    /\ todo'[r] # todo[r]
    /\ \/ At(r, "replace") /\ ~Outdated(r)
       \/ At(r, "deleteRow")

Lost(k) == ToSet(row[k]) \ ToSet(row'[k])

\* manager.go:375: a Get sees what was written before it.  So nothing that
\* was saved leaves the row unless a request drops it.
NothingLost ==
    [][\A k \in Keys : Lost(k) # {} => \E r \in Requests : key[r] = k /\ Drops(r)]_vars

\* The only other ways to lose a saved message are the two windows of
\* MarkStale: a reload of the object (manager.go:510), or an array to replace the
\* messages (compaction.go:47), that is older than the last write.
LostOnlyStale ==
    [][\A k \in Keys \ stale' :
         Lost(k) # {} => \E r \in Requests : key[r] = k /\ Drops(r)]_vars

\* What was dropped from a session does not come back, on any pod that serves
\* the next request, unless an outdated array was put over the object: the
\* only message a step adds to a row is the one its request says (or a
\* summary).
NothingReturns ==
    [][\A k \in Keys \ stale' : \A m \in ToSet(row'[k]) \ ToSet(row[k]) :
         \/ m = Summary
         \/ \E r \in Requests : m[1] = r /\ At(r, m[2]) /\ todo'[r] # todo[r]]_vars

\* What is in a session is what its requests put there and left there.
HistoryExact == LostOnlyStale /\ NothingReturns

\* The prompt of a queued turn has everything that the queue's requests, on
\* whichever pod, left in the row; with nobody beside the queue it is the
\* row's history with the user's message at its end.
PromptComplete ==
    \A r \in Queued :
        (kind[r] = "turn" /\ At(r, "reply") /\ key[r] \in Rows \ stale) =>
            LET asked == ToSet(got[r])  saved == ToSet(row[key[r]]) IN
            /\ \A m \in saved : m[1] \notin scene.side => m \in asked \cup {Summary}
            /\ scene.side = {} => Last(got[r]) = <<r, "user">> /\ asked = saved

\* database.go:2819: the archive takes every message once: concurrent appends
\* to a session do not collide on the number.
ArchiveKeeps == \A r \in Requests : At(r, "insert") => ~Taken(r)

\* The history that a turn reads and the archive that the dashboard reads
\* are both complete.
HistoryComplete == PromptComplete /\ ArchiveKeeps

\* The two sides of it: nothing is missing where it is used, and no step takes
\* away what was saved or brings back what was dropped.
HistoryKept == []HistoryComplete /\ HistoryExact

\* manager.go:474: the next Get after /new picks up the session it opened.
NewIsActive ==
    [][\A r \in Requests :
         At(r, "resolve") /\ todo'[r] # todo[r] => key'[r] >= opened]_vars

\* loop.go:561: the Get of a steering message lands on the Session object the
\* running turn of the same pod holds.
SteerFindsTurn ==
    [][\A s, t \in Requests :
         (/\ kind[s] = "peek" /\ At(s, "install") /\ todo'[s] = <<>>
          /\ kind[t] = "turn" /\ PodOf(t) = PodOf(s)
          /\ At(t, "user") \/ At(t, "number") \/ At(t, "insert")
               \/ At(t, "ask") \/ At(t, "replace") \/ At(t, "reply"))
            => key[s] = key[t] /\ idx'[s] = idx[t]]_vars

\* manager.go:65: /yolo holds for the session: a turn of the pod that asks
\* the model after it runs in that mode.
ModeHolds ==
    \A r, q \in Requests :
        (/\ kind[r] = "turn" /\ At(r, "ask")
         /\ kind[q] = "yolo" /\ Done(q) /\ PodOf(q) = PodOf(r))
            => Obj(r).yolo

\* manager.go:947: a deleted session is gone: no row, no archive.
DeletedGone ==
    \A r \in Requests :
        (kind[r] = "delete" /\ Done(r))
            => key[r] \notin Rows /\ archive[key[r]] = {}

\* A steer probe, a turn and /yolo of one pod mean the same Session object.
SameObject == []ModeHolds /\ SteerFindsTurn

\* The commands that open and delete a session have taken effect when they
\* are done.
CommandsHold == []DeletedGone /\ NewIsActive

\* Manager.mu and the sessions' locks never wait in a circle: a request that
\* has started comes to its end.
Finishes == \A r \in Requests : InFlight(r) ~> Done(r)
=============================================================================
