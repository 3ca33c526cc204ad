------------------------------ MODULE Steering ------------------------------
(***************************************************************************)
(* One session and the turns that run on it: how a message that arrives    *)
(* while a turn is in flight is steered into it instead of starting a turn *)
(* of its own (session/manager.go, agent/loop.go, gateway/routing.go,      *)
(* setup/handlers.go).                                                     *)
(*                                                                         *)
(* A message reaches the session by the gateway's routing goroutine (IM),  *)
(* by an HTTP request (WebMsgs: POST steer, on a 409 POST stream), or as a *)
(* group message that is only injected into the history (AmbientMsgs).     *)
(* Messages of the gateway that no turn takes wait in the chat's task      *)
(* queue; QueueOverlap says whether that queue may run two tasks of the    *)
(* chat at once (see SerialUnlessReaped of TaskQueue).  A slot of Turns is one     *)
(* goroutine in HandleMessage.                                             *)
(*                                                                         *)
(* The tool calls of one round are one call id here; which result belongs  *)
(* to which call of a round is the subject of ToolRound.                   *)
(***************************************************************************)
EXTENDS Integers, Sequences, FiniteSets

CONSTANTS
    Messages, WebMsgs, AmbientMsgs,
    Turns,          \* goroutines in HandleMessage at the same time
    Kinds,          \* which of the paths of HandleMessage the messages take
    MaxIter,        \* maxToolIterations
    QueueOverlap,
    NoMsg, NoCall

ASSUME SteeringAssumption ==
    /\ WebMsgs \subseteq Messages
    /\ AmbientMsgs \subseteq Messages \ WebMsgs
    /\ IsFiniteSet(Turns)
    /\ Kinds \subseteq {"loop", "plan", "hook", "slash"}
    /\ MaxIter \in Nat
    /\ QueueOverlap \in BOOLEAN
    /\ NoMsg \notin Messages
    /\ NoCall \notin Nat

VARIABLES
    fresh,      \* messages that have not arrived yet
    refused,    \* PushSteerIfActive returned false, no turn asked for yet
    queue,      \* the chat's tasks in the task queue
    steerBuf,   \* Session.steerBuf
    turnDepth,  \* Session.turnDepth
    hist,       \* Session.Messages, without the plain answers of the model
    nextCall,   \* the id the next tool call of the model gets
    pc, kind, own, iter, call, held,  \* locals of each turn
    accepted,   \* history: messages PushSteerIfActive took, in order
    lost,       \* history: messages a turn took from steerBuf and dropped
    overlapped  \* history: two turns were in HandleMessage at once

session == <<steerBuf, turnDepth>>
locals  == <<pc, kind, own, iter, call, held>>
ghosts  == <<accepted, lost, overlapped>>
arrival == <<fresh, refused, queue>>
vars    == <<arrival, session, hist, nextCall, locals, ghosts>>

Roles   == {"user", "call", "tool", "note"}
HookCall == 0   \* the constant id "regex-hook-0"
Points  == {"idle", "begin", "user", "model", "draft", "tool", "lastDrain",
            "roundDrain", "fold", "note", "final", "pad", "padAppend", "end",
            "park", "hookCall", "hookTool", "hookAnswer", "hookEnd", "reply"}

\* Between BeginTurn and EndTurn: what turnDepth counts.
InTurn(t) == kind[t] # "slash" /\ pc[t] \notin {"idle", "begin", "park"}
InFlight  == {t \in Turns : InTurn(t)}
Running   == {t \in Turns : pc[t] # "idle"}

Init ==
    /\ fresh = Messages /\ refused = {} /\ queue = <<>>
    /\ steerBuf = <<>> /\ turnDepth = 0
    /\ hist = <<>> /\ nextCall = 1
    /\ pc = [t \in Turns |-> "idle"]
    /\ kind = [t \in Turns |-> "loop"]
    /\ own = [t \in Turns |-> NoMsg]
    /\ iter = [t \in Turns |-> 0]
    /\ call = [t \in Turns |-> NoCall]
    /\ held = [t \in Turns |-> <<>>]
    /\ accepted = <<>> /\ lost = {} /\ overlapped = FALSE
-----------------------------------------------------------------------------
(* Arrival: trySteer, handleChatSteer and InjectGroupMessage. *)

\* The gateway has one routing goroutine: it submits the message it failed
\* to steer before it reads the next one.  HTTP requests do not wait.
MayArrive(m) == m \in WebMsgs \/ refused \subseteq WebMsgs

PushSteerIfActive(m) ==
    /\ m \in fresh \ AmbientMsgs /\ MayArrive(m)
    /\ fresh' = fresh \ {m}
    /\ IF turnDepth > 0
         THEN /\ steerBuf' = Append(steerBuf, m)
              /\ accepted' = Append(accepted, m)
              /\ UNCHANGED refused
         ELSE /\ refused' = refused \cup {m}
              /\ UNCHANGED <<steerBuf, accepted>>
    /\ UNCHANGED <<queue, turnDepth, hist, nextCall, locals, lost, overlapped>>

\* Session.Append: one entry at the end of the history.
Record(role, id) == hist' = Append(hist, [role |-> role, id |-> id])

InjectGroupMessage(m) ==
    /\ m \in fresh \cap AmbientMsgs /\ MayArrive(m)
    /\ fresh' = fresh \ {m}
    /\ Record("user", m)
    /\ UNCHANGED <<refused, queue, session, nextCall, locals, ghosts>>

\* Mutant: a message that finds others waiting is dropped.
Submit_Drops(m) ==
    /\ m \in refused \ WebMsgs
    /\ refused' = refused \ {m}
    /\ queue' = IF queue = <<>> THEN <<m>> ELSE queue
    /\ UNCHANGED <<fresh, session, hist, nextCall, locals, ghosts>>

Submit(m) ==
    /\ m \in refused \ WebMsgs
    /\ refused' = refused \ {m}
    /\ queue' = Append(queue, m)
    /\ UNCHANGED <<fresh, session, hist, nextCall, locals, ghosts>>
-----------------------------------------------------------------------------
(* A turn.  Its kind is what the text of its message makes of it. *)

Goto(t, p) == pc' = [pc EXCEPT ![t] = p]

Enter(t, m, k) ==
    /\ kind' = [kind EXCEPT ![t] = k]
    /\ own' = [own EXCEPT ![t] = m]
    /\ iter' = [iter EXCEPT ![t] = 0]
    /\ Goto(t, IF k = "slash" THEN "user" ELSE "begin")
    /\ overlapped' = (overlapped \/ Running # {})
    /\ UNCHANGED <<fresh, session, hist, nextCall, call, held, accepted, lost>>

\* A worker of the task queue calls the handler with the head of the queue.
HandleTask(t, k) ==
    /\ pc[t] = "idle" /\ queue # <<>>
    /\ QueueOverlap \/ \A u \in Running : own[u] \in WebMsgs
    /\ queue' = Tail(queue)
    /\ UNCHANGED refused
    /\ Enter(t, Head(queue), k)

HandleWebChatStream(t, m, k) ==
    /\ pc[t] = "idle" /\ m \in refused \cap WebMsgs
    /\ refused' = refused \ {m}
    /\ UNCHANGED queue
    /\ Enter(t, m, k)

BeginTurn(t) ==
    /\ pc[t] = "begin"
    /\ turnDepth' = turnDepth + 1
    /\ Goto(t, "user")
    /\ UNCHANGED <<arrival, steerBuf, hist, nextCall, kind, own, iter, call,
                   held, ghosts>>

\* The steps below that touch neither the arrivals nor the steer buffer.
Quiet == UNCHANGED <<arrival, session, kind, own, ghosts>>

FirstStep == [loop |-> "model", plan |-> "draft",
              hook |-> "hookCall", slash |-> "reply"]

AppendUser(t) ==
    /\ pc[t] = "user"
    /\ Record("user", own[t])
    /\ Goto(t, FirstStep[kind[t]])
    /\ Quiet /\ UNCHANGED <<nextCall, iter, call, held>>

\* No provider, a failed LLM call, or a BeforeModelCall hook that skips it.
ModelFails(t) ==
    /\ pc[t] = "draft" \/ (pc[t] = "model" /\ iter[t] < MaxIter)
    /\ Goto(t, "pad")
    /\ Quiet /\ UNCHANGED <<hist, nextCall, iter, call, held>>

ModelAnswers(t) ==
    /\ \/ pc[t] = "model" /\ iter[t] < MaxIter /\ Goto(t, "lastDrain")
       \/ pc[t] = "draft" /\ Goto(t, "pad")
    /\ Quiet /\ UNCHANGED <<hist, nextCall, iter, call, held>>

\* The assistant message with its tool calls is persisted before they run;
\* the loop detector may then end the loop instead of running them.
ModelCallsTools(t) ==
    /\ pc[t] = "model" /\ iter[t] < MaxIter
    /\ Record("call", nextCall)
    /\ call' = [call EXCEPT ![t] = nextCall]
    /\ nextCall' = nextCall + 1
    /\ Goto(t, "tool") \/ Goto(t, "note")
    /\ Quiet /\ UNCHANGED <<iter, held>>

LoopDetected(t) ==
    /\ pc[t] = "note"
    /\ Record("note", call[t])
    /\ Goto(t, "final")
    /\ Quiet /\ UNCHANGED <<nextCall, iter, call, held>>

ToolsReturn(t) ==
    /\ pc[t] = "tool"
    /\ Record("tool", call[t])
    /\ Goto(t, "roundDrain")
    /\ Quiet /\ UNCHANGED <<nextCall, iter, call, held>>

\* Mutant: the drain also happens while the tools of the round run.
DrainSteer_InRound(t) ==
    /\ pc[t] \in {"lastDrain", "roundDrain", "tool"}
    /\ steerBuf # <<>> \/ pc[t] # "tool"
    /\ IF pc[t] = "tool"
         THEN /\ hist' = hist \o [i \in 1..Len(steerBuf) |->
                                   [role |-> "user", id |-> steerBuf[i]]]
              /\ UNCHANGED <<held, pc, iter>>
         ELSE /\ held' = [held EXCEPT ![t] = steerBuf]
              /\ IF steerBuf # <<>> THEN Goto(t, "fold") /\ UNCHANGED iter
                 ELSE IF pc[t] = "lastDrain" THEN Goto(t, "pad") /\ UNCHANGED iter
                 ELSE Goto(t, "model") /\ iter' = [iter EXCEPT ![t] = @ + 1]
              /\ UNCHANGED hist
    /\ steerBuf' = <<>>
    /\ UNCHANGED <<arrival, turnDepth, nextCall, kind, own, call, ghosts>>

\* Before the turn is declared done and between rounds.
DrainSteer(t) ==
    /\ pc[t] \in {"lastDrain", "roundDrain"}
    /\ held' = [held EXCEPT ![t] = steerBuf]
    /\ steerBuf' = <<>>
    /\ IF steerBuf # <<>> THEN Goto(t, "fold") /\ UNCHANGED iter
       ELSE IF pc[t] = "lastDrain" THEN Goto(t, "pad") /\ UNCHANGED iter
       ELSE Goto(t, "model") /\ iter' = [iter EXCEPT ![t] = @ + 1]
    /\ UNCHANGED <<arrival, turnDepth, hist, nextCall, kind, own, call, ghosts>>

\* appendSteer: one Append per message, then the next iteration.
AppendSteer(t) ==
    /\ pc[t] = "fold"
    /\ Record("user", Head(held[t]))
    /\ held' = [held EXCEPT ![t] = Tail(@)]
    /\ IF Len(held[t]) = 1
         THEN Goto(t, "model") /\ iter' = [iter EXCEPT ![t] = @ + 1]
         ELSE UNCHANGED <<pc, iter>>
    /\ Quiet /\ UNCHANGED <<nextCall, call>>

\* The iteration budget is spent, or a loop was detected: one last answer.
ForcedDelivery(t) ==
    /\ pc[t] = "final" \/ (pc[t] = "model" /\ iter[t] >= MaxIter)
    /\ Goto(t, "pad")
    /\ Quiet /\ UNCHANGED <<hist, nextCall, iter, call, held>>
-----------------------------------------------------------------------------
(* The end of a turn: the deferred calls, last registered first. *)

\* The tool calls of the latest assistant message that has some, if no result
\* follows.
CallsAt(h)  == {i \in 1..Len(h) : h[i].role = "call"}
LatestAt(h) == {i \in CallsAt(h) : \A j \in CallsAt(h) : j <= i}
Orphans(h) ==
    {h[i].id : i \in {j \in LatestAt(h) : \A k \in j..Len(h) :
                        ~(h[k].role = "tool" /\ h[k].id = h[j].id)}}

\* padOrphanToolResults reads a copy of the history ...
PadScan(t) ==
    /\ pc[t] = "pad"
    /\ \/ Orphans(hist) = {} /\ Goto(t, "end") /\ UNCHANGED call
       \/ \E c \in Orphans(hist) :
            call' = [call EXCEPT ![t] = c] /\ Goto(t, "padAppend")
    /\ Quiet /\ UNCHANGED <<hist, nextCall, iter, held>>

\* ... and appends the missing results to the history of that moment.
PadAppend(t) ==
    /\ pc[t] = "padAppend"
    /\ Record("tool", call[t])
    /\ Goto(t, "end")
    /\ Quiet /\ UNCHANGED <<nextCall, iter, call, held>>

\* Mutant: what the last turn takes stays in the buffer.
EndTurn_KeepsBuffer ==
    /\ turnDepth' = IF turnDepth > 0 THEN turnDepth - 1 ELSE 0
    /\ UNCHANGED steerBuf

\* Session.EndTurn: the last turn in flight takes what is still buffered.
EndTurn ==
    /\ turnDepth' = IF turnDepth > 0 THEN turnDepth - 1 ELSE 0
    /\ steerBuf' = IF turnDepth' = 0 THEN <<>> ELSE steerBuf
Leftover == IF turnDepth <= 1 THEN steerBuf ELSE <<>>

\* Mutant: the turn ends without looking at what EndTurn returns.
FlushLeftoverSteer_Ignores(t) ==
    /\ pc[t] = "end"
    /\ EndTurn
    /\ lost' = lost \cup {Leftover[i] : i \in 1..Len(Leftover)}
    /\ Goto(t, "idle")
    /\ UNCHANGED <<arrival, hist, nextCall, kind, own, iter, call, held,
                   accepted, overlapped>>

FlushLeftoverSteer(t) ==
    /\ pc[t] = "end"
    /\ EndTurn
    /\ held' = [held EXCEPT ![t] = Leftover]
    /\ Goto(t, IF Leftover = <<>> THEN "idle" ELSE "park")
    /\ UNCHANGED <<arrival, hist, nextCall, kind, own, iter, call, ghosts>>

ParkLeftover(t) ==
    /\ pc[t] = "park"
    /\ Record("user", Head(held[t]))
    /\ held' = [held EXCEPT ![t] = Tail(@)]
    /\ Goto(t, IF Len(held[t]) = 1 THEN "idle" ELSE "park")
    /\ Quiet /\ UNCHANGED <<nextCall, iter, call>>
-----------------------------------------------------------------------------
(* The regex-hook path and the slash path: no loop, no deferred calls. *)

HookRecords(t) ==
    /\ \/ pc[t] = "hookCall" /\ Record("call", HookCall) /\ Goto(t, "hookTool")
       \/ pc[t] = "hookTool" /\ Record("tool", HookCall) /\ Goto(t, "hookAnswer")
       \/ pc[t] = "hookAnswer" /\ UNCHANGED hist /\ Goto(t, "hookEnd")
    /\ Quiet /\ UNCHANGED <<nextCall, iter, call, held>>

\* What EndTurn returns is not used on this path.
HookEndTurn(t) ==
    /\ pc[t] = "hookEnd"
    /\ EndTurn
    /\ lost' = lost \cup {Leftover[i] : i \in 1..Len(Leftover)}
    /\ Goto(t, "idle")
    /\ UNCHANGED <<arrival, hist, nextCall, kind, own, iter, call, held,
                   accepted, overlapped>>

SlashReply(t) ==
    /\ pc[t] = "reply"
    /\ Goto(t, "idle")
    /\ Quiet /\ UNCHANGED <<hist, nextCall, iter, call, held>>
-----------------------------------------------------------------------------
TurnStep(t) ==
    \/ BeginTurn(t) \/ AppendUser(t)
    \/ ModelFails(t) \/ ModelAnswers(t) \/ ModelCallsTools(t)
    \/ LoopDetected(t) \/ ToolsReturn(t)
    \/ DrainSteer(t) \/ AppendSteer(t) \/ ForcedDelivery(t)
    \/ PadScan(t) \/ PadAppend(t) \/ FlushLeftoverSteer(t) \/ ParkLeftover(t)
    \/ HookRecords(t) \/ HookEndTurn(t) \/ SlashReply(t)

Start(t) == \E k \in Kinds : \/ HandleTask(t, k)
                             \/ \E m \in WebMsgs : HandleWebChatStream(t, m, k)

Next ==
    \/ \E m \in Messages : PushSteerIfActive(m) \/ InjectGroupMessage(m) \/ Submit(m)
    \/ \E t \in Turns : Start(t) \/ TurnStep(t)

Spec == Init /\ [][Next]_vars

\* Every LLM call, tool and hook command has a timeout, so a turn goes on; a
\* submitted task is picked up and a refused request is sent again.
Fairness ==
    /\ \A t \in Turns : WF_vars(TurnStep(t)) /\ WF_vars(Start(t))
    /\ \A m \in Messages : WF_vars(Submit(m))

FairSpec == Spec /\ Fairness
-----------------------------------------------------------------------------
(* Properties. *)

Elems(s) == {s[i] : i \in 1..Len(s)}
Recorded == {hist[i].id : i \in {j \in 1..Len(hist) : hist[j].role = "user"}}
Quiescent == Running = {}

TypeOK ==
    /\ fresh \subseteq Messages /\ refused \subseteq Messages
    /\ lost \subseteq Messages
    /\ queue \in Seq(Messages) /\ steerBuf \in Seq(Messages)
    /\ accepted \in Seq(Messages)
    /\ turnDepth \in Nat /\ nextCall \in Nat \ {0}
    /\ hist \in Seq([role : Roles, id : Messages \cup Nat])
    /\ pc \in [Turns -> Points] /\ kind \in [Turns -> Kinds \cup {"loop"}]
    /\ own \in [Turns -> Messages \cup {NoMsg}]
    /\ iter \in [Turns -> Nat]
    /\ call \in [Turns -> Nat \cup {NoCall}]
    /\ held \in [Turns -> Seq(Messages)]
    /\ overlapped \in BOOLEAN

\* The in-flight flag is exact although turns of one session overlap: the
\* depth is the number of turns between BeginTurn and EndTurn, and a message
\* waits in the buffer only while one of them is there to take it.
SteerHasTurn ==
    /\ turnDepth = Cardinality(InFlight)
    /\ steerBuf # <<>> => InFlight # {}

\* No message is duplicated or forgotten: it is at one place from its arrival
\* to the history, and the history holds it once.  (The lost ones are those
\* of LostOnlyByHook.)
Places(m) ==
    (IF m \in fresh THEN 1 ELSE 0) + (IF m \in refused THEN 1 ELSE 0)
    + (IF m \in lost THEN 1 ELSE 0)
    + Cardinality({i \in 1..Len(queue) : queue[i] = m})
    + Cardinality({i \in 1..Len(steerBuf) : steerBuf[i] = m})
    + Cardinality({i \in 1..Len(hist) : hist[i] = [role |-> "user", id |-> m]})
    + Cardinality({t \in Turns : pc[t] \in {"begin", "user"} /\ own[t] = m})
    + Cardinality(UNION {{<<t, i>> : i \in {j \in 1..Len(held[t]) :
                                               held[t][j] = m}} : t \in Turns})
OnePlace == \A m \in Messages : Places(m) = 1

\* A steered message never comes between the tool calls of a round and their
\* results, also not when the round is padded at the end of the turn: the
\* drains are between rounds and the pad runs before the leftovers are parked.
SteerNeverSplitsRound ==
    ~overlapped =>
        \A i, j \in 1..Len(hist) :
            /\ hist[i].role = "call" /\ hist[j].role = "user" /\ i < j
            /\ hist[j].id \in Elems(accepted)
            => \E k \in i..j : hist[k] = [role |-> "tool", id |-> hist[i].id]

\* While the turns of the session run one after the other, steered messages
\* enter the history in the order they were accepted, each once and none that
\* was dropped: before one is there, those before it are or are lost.
SaidAt(m) == {i \in 1..Len(hist) : hist[i] = [role |-> "user", id |-> m]}
SteerInOrder ==
    ~overlapped =>
        \A b \in 1..Len(accepted) :
            /\ Cardinality(SaidAt(accepted[b])) <= (IF accepted[b] \in lost THEN 0 ELSE 1)
            /\ \A a \in 1..(b - 1), j \in SaidAt(accepted[b]) :
                 accepted[a] \in lost \/ \E i \in SaidAt(accepted[a]) : i < j

\* When turns do not overlap, a session at rest holds one result for every
\* tool call, whichever way its turn ended.
CallsAnsweredOnce ==
    ~overlapped /\ Quiescent =>
        \A i \in 1..Len(hist) : hist[i].role = "call" /\ hist[i].id # HookCall =>
            Cardinality({j \in 1..Len(hist) :
                hist[j] = [role |-> "tool", id |-> hist[i].id]}) = 1

\* What a turn leaves in the history is a sequence that a provider accepts:
\* each tool call is followed by its one result, and by no steer before it;
\* and it holds the steers in the order they were sent.
RoundsWhole == SteerNeverSplitsRound /\ CallsAnsweredOnce /\ SteerInOrder

\* A message leaves the buffer for good without reaching the history only in
\* a step of a regex-hook turn.
LostOnlyByHook ==
    [][lost' # lost => \E t \in Turns : kind[t] = "hook" /\ pc[t] = "hookEnd"
                                        /\ pc'[t] = "idle"]_vars

\* However turns overlap, no message is lost or doubled between the arrival
\* and the history, except by the hook path.
NoneLost == []OnePlace /\ LostOnlyByHook

\* Every message that arrives is answered for: it gets into the history, or
\* is one of those of LostOnlyByHook.
EveryMessageRecorded ==
    \A m \in Messages : (m \notin fresh) ~> (m \in Recorded \cup lost)
=============================================================================
