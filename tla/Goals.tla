-------------------------------- MODULE Goals --------------------------------
(***************************************************************************)
(* Goals of one agent (agent/goal, agent/goal_hook.go, agent/slash_goal.go *)
(* and the tool update_goal): a chat has at most one goal row; while it is *)
(* active each turn of the chat ends with a continuation message on the    *)
(* bus, which the router steers into a turn in flight or submits, and      *)
(* whose turn sends the next one.                                          *)
(*                                                                         *)
(* Every change of a row is a read of the record and a write of all of it. *)
(* The hook, the tool and the end of a turn address the row by a session   *)
(* key in the tool registry, which all chats of the agent share.           *)
(*                                                                         *)
(* A goal has no token budget: no caller sets one, so the status           *)
(* budget_limited and its prompt are not reached.                          *)
(***************************************************************************)
EXTENDS Integers, Sequences, FiniteSets

CONSTANTS
    Chats,      \* sessions of the agent, finitely many
    WebChats,   \* those the dashboard writes into, which does not use the bus
    BusSize,    \* capacity of the inbound channel, not 0
    MaxRounds,  \* maxToolIterations, not 0
    MaxSends,   \* bound on the messages and commands of users
    MaxTokens,  \* bound on the model calls that report usage, per goal
    NoChat

ASSUME GoalsAssumption ==
    /\ NoChat \notin Chats /\ WebChats \subseteq Chats
    /\ BusSize \in Nat /\ MaxRounds \in Nat /\ MaxSends \in Nat /\ MaxTokens \in Nat

VARIABLES
    row,        \* agent_goals by session
    bus,        \* bus.Inbound
    queue,      \* the chat's tasks in the task queue
    steerBuf,   \* Session.steerBuf
    bound,      \* Registry.goalSessionKey
    pc, task, rec, iter,    \* locals of the goroutines that handle messages
    sent, made, \* messages and commands, and goals so far
    kicks,      \* history: what may start a chain of continuations, so far
    broken,     \* history: the chat's last continuation was lost
    crossed     \* history: the chat's goal was in two goroutines' hands

vars == <<row, bus, queue, steerBuf, bound, pc, task, rec, iter, sent, made, kicks, broken, crossed>>

Commands == {"create", "pause", "resume", "clear"}
Kinds    == Commands \cup {"user", "goal"}
NoGoal   == [id |-> 0, status |-> "none", tokens |-> 0]

\* The chat's worker, and a request of the dashboard beside it.
Threads  == (Chats \X {"worker"}) \cup (WebChats \X {"web"})
ChatOf(g) == g[1]
Of(c)     == {g \in Threads : ChatOf(g) = c}
Busy      == {g \in Threads : pc[g] # "idle"}
InTurn(c) == \E g \in Of(c) \cap Busy : task[g] \notin Commands

Active(c) == row[c].status = "active"
Read(c)   == [chat |-> c, id |-> row[c].id, status |-> row[c].status, tokens |-> row[c].tokens]
NoRecord  == [chat |-> NoChat, id |-> 0, status |-> "none", tokens |-> 0]

Init ==
    /\ row = [c \in Chats |-> NoGoal]
    /\ bus = <<>> /\ queue = [c \in Chats |-> <<>>]
    /\ steerBuf = [c \in Chats |-> <<>>]
    /\ bound = NoChat
    /\ pc = [g \in Threads |-> "idle"]
    /\ task = [g \in Threads |-> "user"]
    /\ rec = [g \in Threads |-> NoRecord]
    /\ iter = [g \in Threads |-> 0]
    /\ sent = 0 /\ made = 0 /\ kicks = 0
    /\ broken = [c \in Chats |-> FALSE]
    /\ crossed = {}
-----------------------------------------------------------------------------
(* Messages arrive. *)

locals == <<pc, task, rec, iter>>
ghosts == <<kicks, broken, crossed>>
Quiet  == UNCHANGED <<queue, bound, task, sent>>
Local  == Quiet /\ UNCHANGED <<row, bus, steerBuf, made, kicks, crossed>>

Send(c, k) ==
    /\ sent < MaxSends /\ Len(bus) < BusSize
    /\ sent' = sent + 1
    /\ bus' = Append(bus, [chat |-> c, kind |-> k])
    /\ UNCHANGED <<row, queue, steerBuf, bound, locals, made, ghosts>>

Steer(c, k) == steerBuf' = [steerBuf EXCEPT ![c] = Append(@, k)]

Route ==
    /\ bus # <<>>
    /\ bus' = Tail(bus)
    /\ LET c == Head(bus).chat  k == Head(bus).kind IN
       IF InTurn(c) THEN Steer(c, k) /\ UNCHANGED queue
       ELSE queue' = [queue EXCEPT ![c] = Append(@, k)] /\ UNCHANGED steerBuf
    /\ UNCHANGED <<row, bound, locals, sent, made, ghosts>>

\* A turn of another chat rebinds the registry under the turns that run; two
\* goroutines of one chat read and write its row by turns.
Crosses(g) ==
    {c \in Chats : \E h \in Busy \ {g} :
        /\ c \in {ChatOf(g), ChatOf(h)}
        /\ \/ ChatOf(h) = ChatOf(g)
           \/ task'[g] \notin Commands /\ task[h] \notin Commands}

Enter(g, k) ==
    /\ task' = [task EXCEPT ![g] = k]
    /\ crossed' = crossed \cup Crosses(g)
    /\ UNCHANGED broken
    /\ IF k \in Commands
         THEN pc' = [pc EXCEPT ![g] = "load"] /\ UNCHANGED <<bound, kicks>>
         ELSE \/ /\ pc' = [pc EXCEPT ![g] = "model"]
                 /\ bound' = ChatOf(g)
                 /\ kicks' = kicks + (IF k = "user" THEN 1 ELSE 0)
              \/ \* a regex hook answers, or a plan is drafted: no loop, no PostTurn
                 /\ k = "user"
                 /\ pc' = [pc EXCEPT ![g] = "end"]
                 /\ UNCHANGED <<bound, kicks>>

HandleTask(c) ==
    LET g == <<c, "worker">> IN
    /\ pc[g] = "idle" /\ queue[c] # <<>>
    /\ queue' = [queue EXCEPT ![c] = Tail(@)]
    /\ Enter(g, Head(queue[c]))
    /\ UNCHANGED <<row, bus, steerBuf, rec, iter, sent, made>>

\* The dashboard offers a message to the turn in flight before it starts one.
WebRequest(c, k) ==
    /\ c \in WebChats /\ sent < MaxSends
    /\ sent' = sent + 1
    /\ IF InTurn(c)
         THEN Steer(c, k) /\ UNCHANGED <<bound, pc, task, ghosts>>
         ELSE pc[<<c, "web">>] = "idle" /\ Enter(<<c, "web">>, k) /\ UNCHANGED steerBuf
    /\ UNCHANGED <<row, bus, queue, rec, iter, made>>
-----------------------------------------------------------------------------
(* The row.  A statement may fail; a write finds the row by its id. *)

Goto(g, p) == pc' = [pc EXCEPT ![g] = p]
Forget(g)  == rec' = [rec EXCEPT ![g] = NoRecord]
Holds(g)   == {c \in Chats : row[c].id = rec[g].id}

UpdateGoal(g, status, tokens) ==
    row' = [c \in Chats |->
              IF c \in Holds(g)
                THEN [row[c] EXCEPT !.status = status, !.tokens = tokens]
                ELSE row[c]]
-----------------------------------------------------------------------------
(* A turn: model calls and their accounting, the tool, drains, PostTurn. *)

ModelFails(g) ==
    /\ pc[g] = "model" /\ iter[g] < MaxRounds
    /\ Goto(g, "end")
    /\ broken' = [broken EXCEPT ![ChatOf(g)] = TRUE]
    /\ Local /\ UNCHANGED <<rec, iter>>

\* NewTokenAccountingHook up to its write; a failing read and an answer
\* without usage change nothing.
ModelAnswers(g) ==
    /\ pc[g] = "model" /\ iter[g] < MaxRounds
    /\ \/ Goto(g, "answer") /\ UNCHANGED rec
       \/ /\ Active(bound) /\ row[bound].tokens < MaxTokens
          /\ rec' = [rec EXCEPT ![g] = Read(bound)]
          /\ Goto(g, "account")
    /\ Local /\ UNCHANGED <<iter, broken>>

FoldUsage(g) ==
    /\ pc[g] = "account"
    /\ \/ UpdateGoal(g, rec[g].status, rec[g].tokens + 1)
       \/ UNCHANGED row
    /\ Goto(g, "answer") /\ Forget(g)
    /\ Quiet /\ UNCHANGED <<bus, steerBuf, iter, made, ghosts>>

\* makeUpdateGoal reads the row of the registry's session.
CallsUpdateGoal_AnyStatus(g) ==
    /\ pc[g] = "answer" /\ row[bound].id # 0
    /\ rec' = [rec EXCEPT ![g] = Read(bound)]
    /\ Goto(g, "complete")
    /\ Local /\ UNCHANGED <<iter, broken>>

CallsUpdateGoal(g) ==
    /\ pc[g] = "answer" /\ Active(bound)
    /\ rec' = [rec EXCEPT ![g] = Read(bound)]
    /\ Goto(g, "complete")
    /\ Local /\ UNCHANGED <<iter, broken>>

Complete(g) ==
    /\ pc[g] = "complete"
    /\ UpdateGoal(g, "complete", rec[g].tokens) \/ UNCHANGED row
    /\ Goto(g, "drain") /\ Forget(g)
    /\ Quiet /\ UNCHANGED <<bus, steerBuf, iter, made, ghosts>>

\* Other tools, or no goal to complete; or an answer without a call.
CallsTools(g) ==
    /\ pc[g] = "answer"
    /\ Goto(g, "drain") \/ Goto(g, "last")
    /\ Local /\ UNCHANGED <<rec, iter, broken>>

DrainSteer(g) ==
    /\ pc[g] \in {"drain", "last"}
    /\ steerBuf' = [steerBuf EXCEPT ![ChatOf(g)] = <<>>]
    /\ IF pc[g] = "last" /\ steerBuf[ChatOf(g)] = <<>>
         THEN Goto(g, "post") /\ UNCHANGED iter
         ELSE Goto(g, "model") /\ iter' = [iter EXCEPT ![g] = @ + 1]
    /\ Quiet /\ UNCHANGED <<row, bus, rec, made, ghosts>>

ForcedDelivery(g) ==
    /\ pc[g] = "model" /\ iter[g] >= MaxRounds
    /\ Goto(g, "post")
    /\ Local /\ UNCHANGED <<rec, iter, broken>>

\* TryFireContinuation: the read, and the send that does not wait.
TryFire_AnyStatus(g, c, after) ==
    \/ /\ row[c].id # 0
       /\ rec' = [rec EXCEPT ![g] = Read(c)]
       /\ Goto(g, "publish")
       /\ UNCHANGED broken
    \/ /\ row[c].id = 0
       /\ Goto(g, after)
       /\ UNCHANGED <<rec, broken>>

TryFire(g, c, after) ==
    \/ /\ Active(c)
       /\ rec' = [rec EXCEPT ![g] = Read(c)]
       /\ Goto(g, "publish")
       /\ UNCHANGED broken
    \/ /\ ~Active(c)
       /\ Goto(g, after)
       /\ UNCHANGED <<rec, broken>>
    \/ \* the read fails
       /\ Goto(g, after)
       /\ broken' = [broken EXCEPT ![c] = TRUE]
       /\ UNCHANGED rec

PostTurn(g) ==
    /\ pc[g] = "post"
    /\ TryFire(g, bound, "end")
    /\ Local /\ UNCHANGED iter

Publish(g) ==
    /\ pc[g] = "publish"
    /\ IF Len(bus) < BusSize
         THEN /\ bus' = Append(bus, [chat |-> rec[g].chat, kind |-> "goal"])
              /\ broken' = [broken EXCEPT ![rec[g].chat] = FALSE]
         ELSE /\ broken' = [broken EXCEPT ![rec[g].chat] = TRUE]
              /\ UNCHANGED bus
    /\ Goto(g, IF task[g] \in Commands THEN "idle" ELSE "end") /\ Forget(g)
    /\ Quiet /\ UNCHANGED <<row, steerBuf, iter, made, kicks, crossed>>

\* EndTurn hands what is left in the buffer to the history (or, on the path of
\* a regex hook, to nobody); no turn is started for it.
LeftBehind(c) == \E i \in 1..Len(steerBuf[c]) : steerBuf[c][i] = "goal"

EndTurn(g) ==
    LET c == ChatOf(g)
        last == \A h \in (Of(c) \cap Busy) \ {g} : task[h] \in Commands IN
    /\ pc[g] = "end"
    /\ Goto(g, "idle") /\ iter' = [iter EXCEPT ![g] = 0]
    /\ steerBuf' = [steerBuf EXCEPT ![c] = IF last THEN <<>> ELSE @]
    /\ broken' = [broken EXCEPT ![c] = @ \/ (last /\ LeftBehind(c))]
    /\ Quiet /\ UNCHANGED <<row, bus, rec, made, kicks, crossed>>
-----------------------------------------------------------------------------
(* The commands. *)

SlashGoalCreate(g) ==
    /\ pc[g] = "load" /\ task[g] = "create"
    /\ \/ /\ row[ChatOf(g)].id = 0
          /\ row' = [row EXCEPT ![ChatOf(g)] = [id |-> made + 1, status |-> "active", tokens |-> 0]]
          /\ made' = made + 1
          /\ kicks' = kicks + 1
          /\ Goto(g, "fire")
       \/ \* there is one already, or the insert fails
          Goto(g, "idle") /\ UNCHANGED <<row, made, kicks>>
    /\ Quiet /\ UNCHANGED <<bus, steerBuf, rec, iter, broken, crossed>>

From == [pause |-> "active", resume |-> "paused"]
To   == [pause |-> "paused", resume |-> "active"]

\* transitionGoal and slashGoalClear up to their writes.
LoadGoal(g) ==
    /\ pc[g] = "load" /\ task[g] # "create"
    /\ \/ /\ IF task[g] = "clear" THEN row[ChatOf(g)].id # 0
             ELSE row[ChatOf(g)].status = From[task[g]]
          /\ rec' = [rec EXCEPT ![g] = Read(ChatOf(g))]
          /\ Goto(g, "write")
       \/ \* no goal, the wrong state, or the read fails
          Goto(g, "idle") /\ UNCHANGED rec
    /\ Local /\ UNCHANGED <<iter, broken>>

TransitionGoal(g) ==
    /\ pc[g] = "write" /\ task[g] # "clear"
    /\ \/ /\ Holds(g) # {}
          /\ UpdateGoal(g, To[task[g]], rec[g].tokens)
          /\ kicks' = kicks + (IF task[g] = "resume" THEN 1 ELSE 0)
          /\ Goto(g, IF task[g] = "resume" THEN "fire" ELSE "idle")
       \/ Goto(g, "idle") /\ UNCHANGED <<row, kicks>>
    /\ Forget(g) /\ Quiet /\ UNCHANGED <<bus, steerBuf, iter, made, broken, crossed>>

SlashGoalClear(g) ==
    /\ pc[g] = "write" /\ task[g] = "clear"
    /\ \/ row' = [c \in Chats |-> IF c \in Holds(g) THEN NoGoal ELSE row[c]]
       \/ UNCHANGED row
    /\ Goto(g, "idle") /\ Forget(g)
    /\ Quiet /\ UNCHANGED <<bus, steerBuf, iter, made, ghosts>>

Fire_Skips(g) ==
    /\ pc[g] = "fire" /\ Goto(g, "idle")
    /\ Local /\ UNCHANGED <<rec, iter, broken>>

Fire(g) ==
    /\ pc[g] = "fire"
    /\ TryFire(g, ChatOf(g), "idle")
    /\ Local /\ UNCHANGED iter
-----------------------------------------------------------------------------
TurnStep(g) ==
    \/ ModelFails(g) \/ ModelAnswers(g) \/ FoldUsage(g)
    \/ CallsUpdateGoal(g) \/ Complete(g) \/ CallsTools(g)
    \/ DrainSteer(g) \/ ForcedDelivery(g) \/ PostTurn(g) \/ Publish(g) \/ EndTurn(g)

SlashStep(g) ==
    \/ SlashGoalCreate(g) \/ LoadGoal(g) \/ TransitionGoal(g) \/ SlashGoalClear(g)
    \/ Fire(g)

Next ==
    \/ \E c \in Chats, k \in Commands \cup {"user"} : Send(c, k) \/ WebRequest(c, k)
    \/ Route
    \/ \E c \in Chats : HandleTask(c)
    \/ \E g \in Threads : TurnStep(g) \/ SlashStep(g)

Spec == Init /\ [][Next]_vars

\* The router, the workers and the requests go on: each model call, tool and
\* statement has a time-out.
Fairness ==
    /\ WF_vars(Route)
    /\ \A c \in Chats : WF_vars(HandleTask(c))
    /\ \A g \in Threads : WF_vars(TurnStep(g)) /\ WF_vars(SlashStep(g))

FairSpec == Spec /\ Fairness
-----------------------------------------------------------------------------
(* What should hold. *)

\* The type of the state.
TypeOK ==
    /\ row \in [Chats -> [id : 0..made, status : {"none", "active", "paused", "complete"},
                          tokens : 0..MaxTokens]]
    /\ bus \in Seq([chat : Chats, kind : Kinds]) /\ Len(bus) <= BusSize
    /\ queue \in [Chats -> Seq(Kinds)] /\ steerBuf \in [Chats -> Seq(Kinds)]
    /\ bound \in Chats \cup {NoChat}
    /\ task \in [Threads -> Kinds] /\ iter \in [Threads -> 0..MaxRounds]
    /\ sent \in 0..MaxSends /\ made \in Nat /\ kicks \in Nat /\ crossed \subseteq Chats

Waiting(c, k) ==
    Cardinality({i \in 1..Len(bus) : bus[i] = [chat |-> c, kind |-> k]})
    + Cardinality({i \in 1..Len(queue[c]) : queue[c][i] = k})

\* What will run for the chat by itself, and has not sent its continuation yet.
Unattended(c) ==
    /\ \A g \in Of(c) : pc[g] = "idle"
    /\ Waiting(c, "goal") = 0 /\ Waiting(c, "user") = 0

\* An active goal is never left without a turn or a message that starts one,
\* unless the last continuation was lost in one of the ways the code has: the
\* bus was full (continue.go:71), the message was steered into a turn past its
\* last drain (loop.go:1816), the model failed and the turn ended without PostTurn
\* (loop.go:2199), the read failed, or another chat's turn rebound the registry.
NotStalled == \A c \in Chats : Active(c) /\ Unattended(c) => broken[c] \/ c \in crossed

Sends(g) == pc[g] \in {"fire", "publish"}
            \/ (task[g] \notin Commands /\ pc[g] \notin {"idle", "end"})

\* Continuations under way and what will send one, each by its place.
OnBus   == {<<"bus", NoChat, i>> : i \in {j \in 1..Len(bus) : bus[j].kind = "goal"}}
Held(where, q) ==
    UNION {{<<where, c, i>> : i \in {j \in 1..Len(q[c]) : q[c][j] = "goal"}} : c \in Chats}
Senders == {<<"turn", g[1], g[2]>> : g \in {h \in Threads : Sends(h)}}
Outstanding == OnBus \cup Held("queue", queue) \cup Held("steered", steerBuf) \cup Senders

\* A goal does not run away: a turn sends one continuation at most, so there are
\* never more of them, with the turns that will send one, than there were
\* /goal, /goal resume and turns of the user (loop.go:884).
NoRunaway == Cardinality(Outstanding) <= kicks

GoalDriven == TypeOK /\ NotStalled /\ NoRunaway

\* One step of the goals of chats that one goroutine at a time had in its hands.
KeptStep ==
    \A c \in Chats \ crossed' :
      row'[c].id = row[c].id =>
        /\ row'[c].tokens >= row[c].tokens
        /\ row[c].status = "complete" => row'[c].status = "complete"
        /\ row[c].status = "paused" /\ row'[c].status # "paused" =>
             \E g \in Of(c) : task[g] = "resume" /\ TransitionGoal(g)

\* Where a chat's goal was in one goroutine's hands at a time, a complete goal
\* stays so, a paused one is made active by /goal resume alone, and no accounted
\* call is taken back (goal_hook.go:77, tools/goal.go:80, slash_goal.go:153).
GoalKept == [][KeptStep]_vars

\* A goal that stays paused, complete or cleared comes to rest: its chain of
\* continuations ends (continue.go:37).
Wanted(c) == Active(c) \/ Waiting(c, "goal") = 0
ChainEnds == \A c \in Chats : []<>Wanted(c)
=============================================================================
