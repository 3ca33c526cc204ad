------------------------------ MODULE ToolRound ------------------------------
(***************************************************************************)
(* The tool rounds of one agent: the authorization gate of a chat          *)
(* (agent/authgate.go, the pending and approved calls of                   *)
(* session/manager.go, the /yes /no /ask /auto /yolo of agent/slash.go),   *)
(* the execution of a round (agent/loop.go, agent/sdkbridge.go), and the   *)
(* part of the tool registry that belongs to the agent and not to the chat *)
(* (agent/tools/registry.go).                                              *)
(*                                                                         *)
(* An agent serves several chats, each with at most one turn at a time.    *)
(* A turn here is what HandleMessage does between two messages that start  *)
(* one; a message steered into a turn, a /yes included, is text to the     *)
(* model and changes nothing here.                                         *)
(* A call stands for its own arguments: a file write has a path of its     *)
(* own, and that path is written as the call.                              *)
(***************************************************************************)
EXTENDS Integers, Sequences, FiniteSets

CONSTANTS
    Chats,          \* chats with a session on this agent
    Calls,          \* tool calls the models may emit
    Class,          \* what evaluateCall sees in the arguments of a call
    Sandboxed,      \* authGate.sandboxed
    MaxRound,       \* calls in one answer of the model
    MaxParallel,    \* maxParallelToolCalls, 0 = unlimited
    PlanTurns,      \* a message may carry the planMode flag
    NoChat, NoCall

\* "free": neither exec nor write, or inside the workspace; "listed": a write
\* outside the workspace that policy.json allows; "hard": a hardline command.
Classes == {"free", "listed", "write", "exec", "hard"}
Modes   == {"ask", "auto", "yolo"}

ASSUME ToolRoundAssumption ==
    /\ IsFiniteSet(Calls) /\ Class \in [Calls -> Classes]
    /\ Sandboxed \in BOOLEAN /\ PlanTurns \in BOOLEAN
    /\ MaxRound \in Nat /\ MaxParallel \in Nat
    /\ NoChat \notin Chats /\ NoCall \notin Calls

VARIABLES
    authMode, pendingCalls, approvedPending,    \* Session, one per chat
    bypassPaths,    \* Registry.bypassPaths, one per agent
    bound,          \* Registry.sessionID, chatterUserID, ...: one per agent
    pc,             \* where the turn of each chat is
    round,          \* resp.ToolCalls of the round in progress
    blocked,        \* the calls of that round with a synthetic result
    running,        \* calls handed to the executor that have not run yet
    unused,         \* calls no model has emitted yet
    runs,           \* history: how often each call ran
    answer,         \* history: whose result was recorded under each call's id
    parked,         \* history: calls a user was asked about
    consented,      \* history: calls a user let run
    denied,         \* history: calls that waited when the user said /no
    shed,           \* history: calls a mode change dropped
    overlapped      \* history: chats with a turn beside another chat's turn

gate    == <<authMode, pendingCalls, approvedPending>>
shared  == <<bypassPaths, bound>>
work    == <<round, blocked, running, unused>>
verdict == <<parked, consented, denied, shed>>
outcome == <<runs, answer, overlapped>>
vars    == <<gate, shared, pc, work, verdict, outcome>>

Elems(s) == {s[i] : i \in DOMAIN s}

Init ==
    /\ authMode = [c \in Chats |-> "ask"]
    /\ pendingCalls = [c \in Chats |-> {}]
    /\ approvedPending = [c \in Chats |-> {}]
    /\ bypassPaths = {} /\ bound = NoChat
    /\ pc = [c \in Chats |-> "idle"]
    /\ round = [c \in Chats |-> <<>>]
    /\ blocked = [c \in Chats |-> {}]
    /\ running = [c \in Chats |-> {}]
    /\ unused = Calls
    /\ runs = [x \in Calls |-> 0]
    /\ answer = [x \in Calls |-> NoCall]
    /\ parked = {} /\ consented = {} /\ denied = {} /\ shed = {}
    /\ overlapped = {}
-----------------------------------------------------------------------------
(* The gate. *)

ModeGate(mode) == CASE mode = "yolo" -> "allow"
                    [] mode = "auto" -> "block"
                    [] OTHER         -> "prompt"

\* Mutant: the mode is asked before the hardline patterns.
EvaluateCall_ModeFirst(x, mode) ==
    IF Class[x] \in {"free", "listed"} \/ Sandboxed THEN "allow"
    ELSE ModeGate(mode)

EvaluateCall(x, mode) ==
    IF Class[x] = "hard" THEN "block"
    ELSE IF Class[x] \in {"free", "listed"} \/ Sandboxed THEN "allow"
    ELSE ModeGate(mode)

WriteTargetOutsideWorkspace(x) == ~Sandboxed /\ Class[x] \in {"listed", "write"}

\* The calls of S that the gate answers with the given verdict.
Judged(S, mode, what) == {x \in S : EvaluateCall(x, mode) = what}

\* Only a round with a write outside the workspace touches the shared list.
SetSandboxBypassPaths(S) ==
    LET paths == {x \in S : WriteTargetOutsideWorkspace(x)}
    IN  bypassPaths' = IF paths = {} THEN bypassPaths ELSE paths
-----------------------------------------------------------------------------
(* A turn. *)

Goto(c, p) == pc' = [pc EXCEPT ![c] = p]

\* A message that is neither a command nor a plan request starts a turn.
Message(c) ==
    /\ pc[c] = "idle"
    /\ Goto(c, "bind")
    /\ UNCHANGED <<gate, shared, work, verdict, outcome>>

BindSession(c) ==
    /\ pc[c] = "bind"
    /\ bound' = c
    /\ Goto(c, "drain")
    /\ LET others == {d \in Chats \ {c} : pc[d] \notin {"idle", "bind"}}
       IN  overlapped' = IF others = {} THEN overlapped \ {c}
                         ELSE overlapped \cup others \cup {c}
    /\ UNCHANGED <<gate, bypassPaths, work, verdict, runs, answer>>

\* Mutant: the approved writes run without relaxing the file sandbox.
DrainApprovedPending_NoBypass(c) ==
    /\ pc[c] = "drain"
    /\ approvedPending' = [approvedPending EXCEPT ![c] = {}]
    /\ running' = [running EXCEPT ![c] = approvedPending[c]]
    /\ Goto(c, IF approvedPending[c] = {} THEN "model" ELSE "approved")
    /\ UNCHANGED <<authMode, pendingCalls, shared, round, blocked, unused,
                   verdict, outcome>>

\* Mutant: the approved calls are cleared and not executed.
DrainApprovedPending_Forgets(c) ==
    /\ pc[c] = "drain"
    /\ approvedPending' = [approvedPending EXCEPT ![c] = {}]
    /\ Goto(c, "model")
    /\ UNCHANGED <<authMode, pendingCalls, shared, work, verdict, outcome>>

DrainApprovedPending(c) ==
    /\ pc[c] = "drain"
    /\ approvedPending' = [approvedPending EXCEPT ![c] = {}]
    /\ running' = [running EXCEPT ![c] = approvedPending[c]]
    /\ SetSandboxBypassPaths(approvedPending[c])
    /\ Goto(c, IF approvedPending[c] = {} THEN "model" ELSE "approved")
    /\ UNCHANGED <<authMode, pendingCalls, bound, round, blocked, unused,
                   verdict, outcome>>

\* The executor runs the calls of a batch concurrently; each reads the
\* agent's registry when it runs.
RunTool(c, x) ==
    /\ x \in running[c]
    /\ running' = [running EXCEPT ![c] = @ \ {x}]
    /\ runs' = [runs EXCEPT ![x] = @ + 1]
    /\ UNCHANGED <<gate, shared, pc, round, blocked, unused, verdict, answer,
                   overlapped>>

\* Results of approved calls are recorded under new ids, in call order.
FinishApproved(c) ==
    /\ pc[c] = "approved" /\ running[c] = {}
    /\ bypassPaths' = {}
    /\ Goto(c, "model")
    /\ UNCHANGED <<gate, bound, work, verdict, outcome>>

\* The calls of an answer that run this round: the cap defers the others.
ExecuteCalls(s) == IF MaxParallel > 0 /\ Len(s) > MaxParallel
                     THEN SubSeq(s, 1, MaxParallel) ELSE s
DeferredCalls(s) == SubSeq(s, Len(ExecuteCalls(s)) + 1, Len(s))

\* Mutant: a new prompt replaces the calls that already wait.
PushPendingCalls_Replaces(c, waiting) ==
    pendingCalls' = IF waiting = {} THEN pendingCalls
                    ELSE [pendingCalls EXCEPT ![c] = waiting]

PushPendingCalls(c, waiting) ==
    pendingCalls' = [pendingCalls EXCEPT ![c] = @ \cup waiting]

Answers == {s \in UNION {[1..n -> unused] : n \in 1..MaxRound} :
                \A i, j \in DOMAIN s : s[i] = s[j] => i = j}

FilterAuthorizedCalls(c, S, allowed, waiting) ==
    /\ PushPendingCalls(c, waiting)
    /\ SetSandboxBypassPaths(allowed)
    /\ running' = [running EXCEPT ![c] = allowed]
    /\ blocked' = [blocked EXCEPT ![c] = S \ allowed]

ModelCallsTools(c, s) ==
    LET S       == Elems(ExecuteCalls(s))
        allowed == Judged(S, authMode[c], "allow")
        waiting == Judged(S, authMode[c], "prompt")
    IN  /\ pc[c] = "model"
        /\ FilterAuthorizedCalls(c, S, allowed, waiting)
        /\ round' = [round EXCEPT ![c] = s]
        /\ unused' = unused \ Elems(s)
        /\ parked' = parked \cup waiting
        /\ consented' = IF authMode[c] = "yolo" THEN consented \cup S
                        ELSE consented
        /\ Goto(c, "tools")
        /\ UNCHANGED <<authMode, approvedPending, bound, denied, shed, outcome>>

\* Go iterates over a map in any order ...
MapOrders(S) == {f \in [1..Cardinality(S) -> S] :
                    \A i, j \in 1..Cardinality(S) : f[i] = f[j] => i = j}

\* ... the executor's results are in the order of the calls s.
CallOrders(S, s) == {f \in MapOrders(S) :
    \A i, j \in DOMAIN s : \A k, l \in DOMAIN f :
        (f[k] = s[i] /\ f[l] = s[j] /\ i < j) => k < l}

\* Mutant: the deferred results are appended before the blocked ones.
RoundResults_DeferredFirst(e, b, s) == e \o DeferredCalls(s) \o b

\* Whose results the slice holds: the executor's, the blocked ones, the
\* deferred ones.
RoundResults(e, b, s) == e \o b \o DeferredCalls(s)

\* The result at index i is recorded under the id of the i-th call.
FinishRound(c) ==
    /\ pc[c] = "tools" /\ running[c] = {}
    /\ bypassPaths' = {}
    /\ \E b \in MapOrders(blocked[c]) :
       \E e \in CallOrders(Elems(ExecuteCalls(round[c])) \ blocked[c], round[c]) :
         LET results == RoundResults(e, b, round[c])
         IN  answer' = [x \in Calls |->
                 IF \E i \in DOMAIN results : round[c][i] = x
                   THEN results[CHOOSE i \in DOMAIN results : round[c][i] = x]
                   ELSE answer[x]]
    /\ round' = [round EXCEPT ![c] = <<>>]
    /\ blocked' = [blocked EXCEPT ![c] = {}]
    /\ Goto(c, "model")
    /\ UNCHANGED <<gate, bound, running, unused, verdict, runs, overlapped>>

EndTurn(c) ==
    /\ pc[c] = "model"
    /\ Goto(c, "idle")
    /\ UNCHANGED <<gate, shared, work, verdict, outcome>>
-----------------------------------------------------------------------------
(* What the user says.  A command starts no turn while one is in flight. *)

\* After approving something the message goes on into the loop, unless it
\* carries the planMode flag.
ContinueToLoop(c) == \/ Goto(c, "bind")
                     \/ PlanTurns /\ UNCHANGED pc

SlashYes(c) ==
    /\ pc[c] = "idle" /\ pendingCalls[c] # {}
    /\ approvedPending' = [approvedPending EXCEPT ![c] = pendingCalls[c]]
    /\ pendingCalls' = [pendingCalls EXCEPT ![c] = {}]
    /\ consented' = consented \cup pendingCalls[c]
    /\ ContinueToLoop(c)
    /\ UNCHANGED <<authMode, shared, work, parked, denied, shed, outcome>>

\* Mutant: /no is acknowledged and the calls stay on the session.
SlashNo_Keeps(c) ==
    /\ pc[c] = "idle" /\ pendingCalls[c] # {}
    /\ denied' = denied \cup pendingCalls[c]
    /\ UNCHANGED <<gate, shared, pc, work, parked, consented, shed, outcome>>

SlashNo(c) ==
    /\ pc[c] = "idle" /\ pendingCalls[c] # {}
    /\ pendingCalls' = [pendingCalls EXCEPT ![c] = {}]
    /\ denied' = denied \cup pendingCalls[c]
    /\ UNCHANGED <<authMode, approvedPending, shared, pc, work, parked,
                   consented, shed, outcome>>

SlashSetAuthMode(c, mode) ==
    LET approved == Judged(pendingCalls[c], mode, "allow")
    IN  /\ pc[c] = "idle"
        /\ authMode' = [authMode EXCEPT ![c] = mode]
        /\ pendingCalls' = [pendingCalls EXCEPT ![c] = {}]
        /\ consented' = consented \cup approved
        /\ shed' = shed \cup (pendingCalls[c] \ approved)
        /\ IF approved = {}
             THEN UNCHANGED <<approvedPending, pc>>
             ELSE /\ approvedPending' = [approvedPending EXCEPT ![c] = approved]
                  /\ ContinueToLoop(c)
        /\ UNCHANGED <<shared, work, parked, denied, outcome>>

-----------------------------------------------------------------------------
TurnStep(c) ==
    \/ BindSession(c) \/ DrainApprovedPending(c)
    \/ \E x \in Calls : RunTool(c, x)
    \/ FinishApproved(c) \/ FinishRound(c) \/ EndTurn(c)

Next ==
    \E c \in Chats :
        \/ TurnStep(c)
        \/ Message(c) \/ \E s \in Answers : ModelCallsTools(c, s)
        \/ SlashYes(c) \/ SlashNo(c)
        \/ \E mode \in Modes : SlashSetAuthMode(c, mode)

Spec == Init /\ [][Next]_vars

\* Nothing in a turn waits for a user, and its iterations are bounded.
FairSpec == Spec /\ \A c \in Chats : WF_vars(TurnStep(c))
-----------------------------------------------------------------------------
Done == {x \in Calls : runs[x] > 0}
AllOf(f) == UNION {f[c] : c \in Chats}
Points == {"idle", "bind", "drain", "approved", "model", "tools"}

\* Types of the session, the registry and the turns.
TypeOK ==
    /\ authMode \in [Chats -> Modes]
    /\ pendingCalls \in [Chats -> SUBSET Calls]
    /\ approvedPending \in [Chats -> SUBSET Calls]
    /\ bypassPaths \in SUBSET Calls
    /\ bound \in Chats \cup {NoChat}
    /\ pc \in [Chats -> Points]
    /\ round \in [Chats -> Seq(Calls)]
    /\ blocked \in [Chats -> SUBSET Calls]
    /\ running \in [Chats -> SUBSET Calls]
    /\ unused \in SUBSET Calls
    /\ runs \in [Calls -> Nat]
    /\ answer \in [Calls -> Calls \cup {NoCall}]
    /\ parked \in SUBSET Calls /\ consented \in SUBSET Calls
    /\ denied \in SUBSET Calls /\ shed \in SUBSET Calls
    /\ overlapped \in SUBSET Chats

\* A command or an outside write runs only after its own chat's user said
\* /yes to it, or put that chat into yolo, which judges waiting calls again;
\* a hardline command never runs, whatever the mode and whoever approved it.
ConsentBeforeRun ==
    \A x \in Done :
        /\ Class[x] # "hard"
        /\ ~Sandboxed /\ Class[x] \in {"write", "exec"} => x \in consented

\* However rounds, approvals and mode changes follow each other, no call runs
\* twice: the session parks, approves, drains each call once.
RunOnce == \A x \in Calls : runs[x] <= 1

\* Every call a user was asked about is still on the session, in execution,
\* run, denied, or dropped by a mode change: SetApprovedPending, which
\* overwrites, and PushPendingCalls never lose one.
PromptAccounted ==
    parked \subseteq AllOf(pendingCalls) \cup AllOf(approvedPending)
                     \cup AllOf(running) \cup Done \cup denied \cup shed

\* So the gate keeps each call exactly: it is run at most once, and never
\* forgotten between the prompt and the user's answer.
CallsKept == RunOnce /\ PromptAccounted

\* What waited when the user said /no does not run later, whatever is approved
\* or emitted after it.  (What a /yes with the planMode flag has approved waits
\* no more: /no says that nothing was waiting, and the next turn runs it.)
DenialHolds == denied \cap Done = {}

\* The results of a round whose only blocked call, if any, is the last one it
\* executes are recorded under the ids of their own calls: neither the
\* concurrent executor nor the parallel cap disturbs the pairing by index.
PairedUnlessBlocked ==
    [][\A c \in Chats :
         LET e == ExecuteCalls(round[c])
         IN  (pc[c] = "tools" /\ pc'[c] = "model"
                /\ blocked[c] \subseteq {e[Len(e)]}) =>
             \A i \in DOMAIN round[c] : answer'[round[c][i]] = round[c][i]]_vars

\* The registry belongs to the agent: loop.go:215 claims that turns of an
\* agent come one at a time.  A turn that no other chat's turn runs beside
\* has each tool run under its own binding, and finds the bypass list up for
\* each of its writes outside the workspace, whatever turns came before.
RegistryOwn ==
    [][\A c \in Chats \ overlapped : \A x \in running[c] \ running'[c] :
         bound = c /\ (WriteTargetOutsideWorkspace(x) => x \in bypassPaths)]_vars

\* A call the user approved, or let through by changing the mode, is run.
ApprovedRuns ==
    \A x \in Calls : (x \in AllOf(approvedPending)) ~> (runs[x] > 0)

\* loop.go:2366: blocked results "land at the right index".
ResultsPaired == \A x \in Calls : answer[x] \in {NoCall, x}
=============================================================================
