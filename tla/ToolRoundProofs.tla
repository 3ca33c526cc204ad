-------------------------- MODULE ToolRoundProofs --------------------------
(***************************************************************************)
(* Proofs about ToolRound, for any chats, calls, classes of calls, round   *)
(* sizes and parallel caps, with or without plan turns and the sandbox;    *)
(* and about Plugin, which the hooks of turns call, for any hooks, calls   *)
(* and messages and any room in the pipes and on the bus.                  *)
(***************************************************************************)
EXTENDS ToolRound, Plugin, FiniteSetTheorems, SequenceTheorems, TLAPS

Held(c) == pendingCalls[c] \cup approvedPending[c] \cup running[c]

\* A call is in one place of one chat, or not emitted, or has run.
OnePlace ==
    /\ \A c \in Chats : /\ pendingCalls[c] \cap running[c] = {}
                        /\ Held(c) \cap Done = {}
                        /\ Held(c) \cap unused = {}
    /\ \A c, d \in Chats : c # d => Held(c) \cap Held(d) = {}
    /\ unused \cap Done = {}

\* What the control point of a chat says of its calls.
Waits ==
    \A c \in Chats :
        /\ approvedPending[c] # {} =>
               pendingCalls[c] = {} /\ pc[c] \in {"idle", "bind", "drain"}
        /\ running[c] # {} => pc[c] \in {"approved", "tools"}

\* A call the gate may let run.
Safe(x) == /\ Class[x] # "hard"
           /\ ~Sandboxed /\ Class[x] \in {"write", "exec"} => x \in consented

Gated ==
    /\ \A c \in Chats :
         /\ \A x \in pendingCalls[c] : Class[x] # "hard"
         /\ \A x \in approvedPending[c] \cup running[c] : Safe(x)
    /\ \A x \in Done : Safe(x)

IInv == TypeOK /\ OnePlace /\ Waits /\ Gated /\ RunOnce /\ PromptAccounted
-----------------------------------------------------------------------------
\* Which verdict the gate gives, and when.
LEMMA Verdicts ==
    ASSUME NEW x \in Calls, NEW m \in Modes
    PROVE  /\ EvaluateCall(x, m) = "allow" =>
                /\ Class[x] # "hard"
                /\ ~Sandboxed /\ Class[x] \in {"write", "exec"} => m = "yolo"
           /\ EvaluateCall(x, m) = "prompt" => Class[x] # "hard"
BY ToolRoundAssumption DEF EvaluateCall, ModeGate, Modes, Classes

\* The bypass list keeps its type.
LEMMA BypassType ==
    ASSUME TypeOK, NEW S \in SUBSET Calls, SetSandboxBypassPaths(S)
    PROVE  bypassPaths' \in SUBSET Calls
BY DEF TypeOK, SetSandboxBypassPaths

\* The executed and the deferred calls are calls of the answer.
LEMMA ElemsType ==
    ASSUME NEW s \in Seq(Calls)
    PROVE  /\ ExecuteCalls(s) \in Seq(Calls) /\ DeferredCalls(s) \in Seq(Calls)
           /\ Elems(s) \in SUBSET Calls
           /\ Elems(ExecuteCalls(s)) \subseteq Elems(s)
<1>1. /\ ExecuteCalls(s) \in Seq(Calls) /\ Len(ExecuteCalls(s)) <= Len(s)
      /\ \A i \in 1..Len(ExecuteCalls(s)) : ExecuteCalls(s)[i] = s[i]
  BY ToolRoundAssumption DEF ExecuteCalls
<1>2. DeferredCalls(s) \in Seq(Calls)
  BY <1>1 DEF DeferredCalls
<1>3. QED
  BY <1>1, <1>2 DEF Elems

\* The initial states satisfy the invariant.
LEMMA InitIInv == Init => IInv
<1> SUFFICES ASSUME Init PROVE IInv
  OBVIOUS
<1>1. TypeOK
  <2>1. round \in [Chats -> Seq(Calls)]
    <3>1. <<>> \in Seq(Calls)
      OBVIOUS
    <3>2. QED
      BY <3>1 DEF Init
  <2>2. QED
    BY <2>1 DEF Init, TypeOK, Modes, Points
<1>2. Done = {}
  BY DEF Init, Done
<1>3. OnePlace /\ Waits /\ Gated /\ RunOnce
  BY <1>2 DEF Init, OnePlace, Held, Waits, Gated, RunOnce
<1>4. PromptAccounted
  BY DEF Init, PromptAccounted
<1>5. QED
  BY <1>1, <1>3, <1>4 DEF IInv

\* Steps that leave the calls of every chat where they are.
LEMMA QuietStep ==
    ASSUME IInv, UNCHANGED <<pendingCalls, approvedPending, running, unused,
                             runs, parked, consented, denied, shed>>,
           \A c \in Chats :
               /\ approvedPending[c] # {} => pc'[c] \in {"idle", "bind", "drain"}
               /\ running[c] # {} => pc'[c] \in {"approved", "tools"}
    PROVE  OnePlace' /\ Waits' /\ Gated' /\ RunOnce' /\ PromptAccounted'
<1>1. Done' = Done
  BY DEF Done
<1>2. OnePlace' /\ RunOnce' /\ PromptAccounted'
  BY <1>1 DEF IInv, OnePlace, Held, RunOnce, PromptAccounted, AllOf
<1>3. Waits'
  BY DEF IInv, Waits
<1>4. Gated'
  BY <1>1 DEF IInv, Gated, Safe
<1>5. QED
  BY <1>2, <1>3, <1>4

\* Steps that only move a turn on.
LEMMA TurnStarts ==
    ASSUME IInv, NEW c \in Chats,
           Message(c) \/ BindSession(c) \/ EndTurn(c)
    PROVE  IInv'
<1>1. TypeOK'
  BY DEF IInv, TypeOK, Message, BindSession, EndTurn, Goto, Points,
         gate, shared, work, verdict, outcome
<1>2. UNCHANGED <<pendingCalls, approvedPending, running, unused,
                  runs, parked, consented, denied, shed>>
  BY DEF Message, BindSession, EndTurn, gate, shared, work, verdict,
         outcome
<1>3. \A d \in Chats :
        /\ approvedPending[d] # {} => pc'[d] \in {"idle", "bind", "drain"}
        /\ running[d] # {} => pc'[d] \in {"approved", "tools"}
  BY DEF IInv, TypeOK, Waits, Message, BindSession, EndTurn, Goto
<1>4. QED
  BY <1>1, <1>2, <1>3, QuietStep DEF IInv

\* The approved batch ends.
LEMMA FinishApprovedStep ==
    ASSUME IInv, NEW c \in Chats, FinishApproved(c)
    PROVE  IInv'
<1>1. TypeOK'
  BY DEF IInv, TypeOK, FinishApproved, Goto, Points, gate, work, verdict, outcome
<1>2. \A d \in Chats :
        /\ approvedPending[d] # {} => pc'[d] \in {"idle", "bind", "drain"}
        /\ running[d] # {} => pc'[d] \in {"approved", "tools"}
  BY DEF IInv, TypeOK, Waits, FinishApproved, Goto
<1>3. QED
  BY <1>1, <1>2, QuietStep DEF IInv, FinishApproved, gate, work, verdict, outcome

\* A round ends: its results keep their type in every order.
LEMMA FinishRoundStep ==
    ASSUME IInv, NEW c \in Chats, FinishRound(c)
    PROVE  IInv'
<1>1. answer' \in [Calls -> Calls \cup {NoCall}]
  <2>1. PICK b \in MapOrders(blocked[c]),
             e \in CallOrders(Elems(ExecuteCalls(round[c])) \ blocked[c], round[c]) :
          answer' = [x \in Calls |->
              IF \E i \in DOMAIN RoundResults(e, b, round[c]) : round[c][i] = x
                THEN RoundResults(e, b, round[c])
                       [CHOOSE i \in DOMAIN RoundResults(e, b, round[c]) :
                            round[c][i] = x]
                ELSE answer[x]]
    BY DEF FinishRound
  <2>2. round[c] \in Seq(Calls) /\ blocked[c] \in SUBSET Calls
    BY DEF IInv, TypeOK
  <2>3. \A S \in SUBSET Calls : \A f \in MapOrders(S) : f \in Seq(Calls)
    <3> SUFFICES ASSUME NEW S \in SUBSET Calls, NEW f \in MapOrders(S)
                 PROVE  f \in Seq(Calls)
      OBVIOUS
    <3>1. Cardinality(S) \in Nat
      BY ToolRoundAssumption, FS_Subset, FS_CardinalityType
    <3>2. f \in [1..Cardinality(S) -> Calls]
      BY DEF MapOrders
    <3>3. QED
      BY <3>1, <3>2
  <2>4. b \in Seq(Calls) /\ e \in Seq(Calls) /\ DeferredCalls(round[c]) \in Seq(Calls)
    BY <2>2, <2>3, ElemsType DEF CallOrders
  <2>5. RoundResults(e, b, round[c]) \in Seq(Calls)
    BY <2>4 DEF RoundResults
  <2>6. QED
    BY <2>1, <2>5 DEF IInv, TypeOK
<1>2. UNCHANGED <<gate, bound, running, unused, verdict, runs, overlapped>>
  BY DEF FinishRound
<1>3. /\ bypassPaths' \in SUBSET Calls /\ pc' \in [Chats -> Points]
      /\ round' \in [Chats -> Seq(Calls)] /\ blocked' \in [Chats -> SUBSET Calls]
  <2>1. <<>> \in Seq(Calls)
    OBVIOUS
  <2>2. QED
    BY <2>1 DEF FinishRound, IInv, TypeOK, Goto, Points
<1>4. TypeOK'
  BY <1>1, <1>2, <1>3 DEF IInv, TypeOK, gate, verdict
<1>5. \A d \in Chats :
        /\ approvedPending[d] # {} => pc'[d] \in {"idle", "bind", "drain"}
        /\ running[d] # {} => pc'[d] \in {"approved", "tools"}
  BY DEF IInv, TypeOK, Waits, FinishRound, Goto
<1>6. QED
  BY <1>2, <1>4, <1>5, QuietStep DEF IInv, gate, verdict

\* Approved calls move to the executor.
LEMMA DrainStep ==
    ASSUME IInv, NEW c \in Chats, DrainApprovedPending(c)
    PROVE  IInv'
<1>1. /\ pc[c] = "drain" /\ running[c] = {}
      /\ pendingCalls' = pendingCalls
      /\ approvedPending' = [approvedPending EXCEPT ![c] = {}]
      /\ running' = [running EXCEPT ![c] = approvedPending[c]]
      /\ UNCHANGED <<authMode, bound, round, blocked, unused, verdict, outcome>>
  BY DEF DrainApprovedPending, IInv, Waits
<1>2. TypeOK'
  <2>1. bypassPaths' \in SUBSET Calls
    BY BypassType DEF DrainApprovedPending, IInv, TypeOK
  <2>2. pc' \in [Chats -> Points]
    BY DEF DrainApprovedPending, IInv, TypeOK, Goto, Points
  <2>3. QED
    BY <1>1, <2>1, <2>2 DEF IInv, TypeOK, verdict, outcome
<1>3. Done' = Done
  BY <1>1 DEF Done, outcome
<1>4. \A d \in Chats : Held(d)' = Held(d)
  BY <1>1 DEF Held, IInv, TypeOK
<1>5. OnePlace'
  BY <1>1, <1>3, <1>4 DEF IInv, TypeOK, OnePlace, Waits
<1>6. Waits'
  BY <1>1 DEF DrainApprovedPending, IInv, TypeOK, Waits, Goto
<1>7. Gated'
  BY <1>1, <1>3 DEF IInv, TypeOK, Gated, Safe, verdict
<1>8. RunOnce'
  BY <1>1 DEF IInv, RunOnce, outcome
<1>9. PromptAccounted'
  <2>1. AllOf(pendingCalls') = AllOf(pendingCalls)
    BY <1>1
  <2>2. AllOf(approvedPending) \cup AllOf(running)
            \subseteq AllOf(approvedPending') \cup AllOf(running')
    BY <1>1 DEF AllOf, IInv, TypeOK
  <2>3. QED
    BY <1>1, <1>3, <2>1, <2>2 DEF IInv, PromptAccounted, verdict
<1>10. QED
  BY <1>2, <1>5, <1>6, <1>7, <1>8, <1>9 DEF IInv

\* A call runs: it leaves the executor for good.
LEMMA RunToolStep ==
    ASSUME IInv, NEW c \in Chats, NEW x \in Calls, RunTool(c, x)
    PROVE  IInv'
<1>1. /\ x \in running[c]
      /\ running' = [running EXCEPT ![c] = @ \ {x}]
      /\ runs' = [runs EXCEPT ![x] = @ + 1]
      /\ UNCHANGED <<gate, shared, pc, round, blocked, unused, verdict, answer,
                     overlapped>>
  BY DEF RunTool
<1>2. TypeOK'
  BY <1>1 DEF IInv, TypeOK, gate, shared, verdict
<1>3. x \notin Done /\ Done' = Done \cup {x}
  BY <1>1 DEF Done, IInv, TypeOK, OnePlace, Held
<1>4. /\ Held(c)' = Held(c) \ {x}
      /\ \A d \in Chats : d # c => Held(d)' = Held(d) /\ x \notin Held(d)
  <2>1. x \notin pendingCalls[c] /\ x \notin approvedPending[c]
    BY <1>1 DEF IInv, OnePlace, Waits
  <2>2. Held(c)' = Held(c) \ {x}
    BY <1>1, <2>1 DEF Held, IInv, TypeOK, gate
  <2>3. ASSUME NEW d \in Chats, d # c PROVE Held(d)' = Held(d) /\ x \notin Held(d)
    <3>1. Held(c) \cap Held(d) = {}
      BY <2>3 DEF IInv, OnePlace
    <3>2. QED
      BY <1>1, <2>3, <3>1 DEF Held, IInv, TypeOK, gate
  <2>4. QED
    BY <2>2, <2>3
<1>5. OnePlace'
  BY <1>1, <1>3, <1>4 DEF IInv, TypeOK, OnePlace, Held, gate
<1>6. Waits'
  BY <1>1 DEF IInv, TypeOK, Waits, gate
<1>7. Gated'
  <2>1. Safe(x)
    BY <1>1 DEF IInv, Gated
  <2>2. QED
    BY <1>1, <1>3, <2>1 DEF IInv, TypeOK, Gated, Safe, gate, verdict
<1>8. RunOnce'
  BY <1>1, <1>3 DEF IInv, TypeOK, RunOnce, Done
<1>9. PromptAccounted'
  <2>1. AllOf(running) \subseteq AllOf(running') \cup {x}
    BY <1>1 DEF AllOf, IInv, TypeOK
  <2>2. QED
    BY <1>1, <1>3, <2>1 DEF IInv, PromptAccounted, gate, verdict
<1>10. QED
  BY <1>2, <1>5, <1>6, <1>7, <1>8, <1>9 DEF IInv

\* An answer of the model is a sequence of calls not emitted before.
LEMMA AnswerType ==
    ASSUME IInv, NEW s \in Answers
    PROVE  s \in Seq(Calls) /\ Elems(s) \subseteq unused
<1>1. PICK n \in 1..MaxRound : s \in [1..n -> unused]
  BY DEF Answers
<1>2. n \in Nat
  BY ToolRoundAssumption
<1>3. s \in Seq(unused) /\ DOMAIN s = 1..n
  BY <1>1, <1>2
<1>4. s \in Seq(Calls)
  BY <1>1, <1>2 DEF IInv, TypeOK
<1>5. QED
  BY <1>1, <1>3, <1>4 DEF Elems

\* The gate sorts an answer into calls that run, wait or are blocked.
LEMMA ModelStep ==
    ASSUME IInv, NEW c \in Chats, NEW s \in Answers, ModelCallsTools(c, s)
    PROVE  IInv'
<1> DEFINE S       == Elems(ExecuteCalls(s))
           allowed == Judged(S, authMode[c], "allow")
           waiting == Judged(S, authMode[c], "prompt")
<1>1. s \in Seq(Calls) /\ Elems(s) \subseteq unused
  BY AnswerType
<1>2. S \subseteq Elems(s) /\ S \in SUBSET Calls
  BY <1>1, ElemsType
<1>3. allowed \subseteq S /\ waiting \subseteq S /\ allowed \cap waiting = {}
  BY DEF Judged
<1>4. /\ pc[c] = "model" /\ approvedPending[c] = {} /\ running[c] = {}
      /\ pendingCalls' = [pendingCalls EXCEPT ![c] = @ \cup waiting]
      /\ running' = [running EXCEPT ![c] = allowed]
      /\ blocked' = [blocked EXCEPT ![c] = S \ allowed]
      /\ round' = [round EXCEPT ![c] = s]
      /\ unused' = unused \ Elems(s)
      /\ parked' = parked \cup waiting
      /\ consented' = IF authMode[c] = "yolo" THEN consented \cup S
                      ELSE consented
      /\ pc' = [pc EXCEPT ![c] = "tools"]
      /\ SetSandboxBypassPaths(allowed)
      /\ UNCHANGED <<authMode, approvedPending, bound, denied, shed, outcome>>
  BY DEF ModelCallsTools, FilterAuthorizedCalls, PushPendingCalls, Goto, IInv, Waits
<1>5. \A x \in S : x \in unused /\ x \notin Done /\ \A d \in Chats : x \notin Held(d)
  BY <1>1, <1>2 DEF IInv, OnePlace
<1>6. \A x \in allowed : /\ Class[x] # "hard"
                         /\ ~Sandboxed /\ Class[x] \in {"write", "exec"} =>
                                x \in consented'
  BY <1>2, <1>3, <1>4, Verdicts DEF Judged, IInv, TypeOK
<1>7. \A x \in waiting : Class[x] # "hard"
  BY <1>2, Verdicts DEF Judged, IInv, TypeOK
<1> HIDE DEF S, allowed, waiting
<1>8. TypeOK'
  <2>1. bypassPaths' \in SUBSET Calls
    BY <1>2, <1>3, <1>4, BypassType DEF IInv
  <2>2. QED
    BY <1>1, <1>2, <1>3, <1>4, <2>1 DEF IInv, TypeOK, Points, outcome
<1>9. Done' = Done
  BY <1>4 DEF Done, outcome
<1>10. /\ Held(c)' \subseteq Held(c) \cup S
       /\ \A d \in Chats : d # c => Held(d)' = Held(d)
  BY <1>3, <1>4 DEF Held, IInv, TypeOK
<1>11. OnePlace'
  <2>1. \A d \in Chats : Held(d)' \cap Done = {} /\ Held(d)' \cap unused' = {}
    BY <1>2, <1>4, <1>5, <1>10 DEF IInv, OnePlace
  <2>2. \A d \in Chats : pendingCalls'[d] \cap running'[d] = {}
    BY <1>3, <1>4, <1>5 DEF IInv, TypeOK, OnePlace, Held
  <2>3. \A d, f \in Chats : d # f => Held(d)' \cap Held(f)' = {}
    BY <1>5, <1>10 DEF IInv, OnePlace
  <2>4. unused' \cap Done = {}
    BY <1>4 DEF IInv, OnePlace
  <2>5. QED
    BY <1>9, <2>1, <2>2, <2>3, <2>4 DEF OnePlace
<1>12. Waits'
  BY <1>4 DEF IInv, TypeOK, Waits
<1>13. Gated'
  <2>1. \A x \in Calls : Safe(x) => Safe(x)'
    BY <1>4 DEF Safe
  <2>2. \A x \in allowed : Safe(x)'
    BY <1>6 DEF Safe
  <2>3. \A d \in Chats : \A x \in pendingCalls'[d] : Class[x] # "hard"
    BY <1>4, <1>7 DEF IInv, TypeOK, Gated
  <2>4. \A d \in Chats : \A x \in approvedPending'[d] \cup running'[d] : Safe(x)'
    BY <1>4, <2>1, <2>2 DEF IInv, TypeOK, Gated
  <2>5. \A x \in Done : Safe(x)'
    BY <2>1 DEF IInv, Gated, Done
  <2>6. QED
    BY <1>9, <2>3, <2>4, <2>5 DEF Gated
<1>14. RunOnce'
  BY <1>4 DEF IInv, RunOnce, outcome
<1>15. PromptAccounted'
  <2>1. AllOf(pendingCalls') = AllOf(pendingCalls) \cup waiting
    BY <1>4 DEF AllOf, IInv, TypeOK
  <2>2. AllOf(running) \subseteq AllOf(running')
    BY <1>4 DEF AllOf, IInv, TypeOK
  <2>3. QED
    BY <1>4, <1>9, <2>1, <2>2 DEF IInv, PromptAccounted
<1>16. QED
  BY <1>8, <1>11, <1>12, <1>13, <1>14, <1>15 DEF IInv

\* What /yes, /no and a mode change do to the waiting calls of a chat: some go
\* to approvedPending, the others are denied or shed.
LEMMA PopStep ==
    ASSUME IInv, NEW c \in Chats, NEW approved \in SUBSET pendingCalls[c],
           pc[c] = "idle",
           pendingCalls' = [pendingCalls EXCEPT ![c] = {}],
           approvedPending' = IF approved = {} THEN approvedPending
                              ELSE [approvedPending EXCEPT ![c] = approved],
           consented' = consented \cup approved,
           denied \subseteq denied', shed \subseteq shed',
           pendingCalls[c] \ approved \subseteq denied' \cup shed',
           pc' = pc \/ pc' = [pc EXCEPT ![c] = "bind"],
           UNCHANGED <<running, unused, runs, parked>>
    PROVE  OnePlace' /\ Waits' /\ Gated' /\ RunOnce' /\ PromptAccounted'
<1>1. Done' = Done
  BY DEF Done
<1>2. approved # {} => approvedPending[c] = {}
  BY DEF IInv, Waits
<1>3. \A d \in Chats : /\ Held(d)' \subseteq Held(d)
                       /\ pendingCalls'[d] \subseteq pendingCalls[d]
                       /\ running'[d] = running[d]
  BY DEF Held, IInv, TypeOK
<1>4. OnePlace'
  BY <1>1, <1>3 DEF IInv, OnePlace
<1>5. Waits'
  BY DEF IInv, TypeOK, Waits
<1>6. Gated'
  <2>1. \A x \in Calls : Safe(x) => Safe(x)'
    BY DEF Safe
  <2>2. \A x \in approved : Safe(x)'
    BY DEF Safe, IInv, Gated
  <2>3. \A d \in Chats : approvedPending'[d] \subseteq approvedPending[d] \cup approved
    BY DEF IInv, TypeOK
  <2>4. \A d \in Chats : \A x \in approvedPending'[d] \cup running'[d] : Safe(x)'
    BY <1>3, <2>1, <2>2, <2>3 DEF IInv, TypeOK, Gated
  <2>5. QED
    BY <1>1, <1>3, <2>1, <2>4 DEF IInv, Gated, Done
<1>7. RunOnce'
  BY DEF IInv, RunOnce
<1>8. PromptAccounted'
  <2>1. AllOf(pendingCalls) \subseteq AllOf(pendingCalls') \cup pendingCalls[c]
    BY DEF AllOf, IInv, TypeOK
  <2>2. AllOf(approvedPending) \cup approved \subseteq AllOf(approvedPending')
    BY <1>2 DEF AllOf, IInv, TypeOK
  <2>3. QED
    BY <1>1, <2>1, <2>2 DEF IInv, PromptAccounted
<1>9. QED
  BY <1>4, <1>5, <1>6, <1>7, <1>8

\* The user's commands move or drop waiting calls.
LEMMA SlashStep ==
    ASSUME IInv, NEW c \in Chats,
           \/ SlashYes(c) \/ SlashNo(c)
           \/ \E mode \in Modes : SlashSetAuthMode(c, mode)
    PROVE  IInv'
<1>1. CASE SlashYes(c)
  <2>1. TypeOK'
    BY <1>1 DEF SlashYes, ContinueToLoop, Goto, Points, IInv, TypeOK, shared, work, outcome
  <2>2. OnePlace' /\ Waits' /\ Gated' /\ RunOnce' /\ PromptAccounted'
    BY <1>1, PopStep DEF SlashYes, ContinueToLoop, Goto, work, outcome
  <2>3. QED
    BY <2>1, <2>2 DEF IInv
<1>2. CASE SlashNo(c)
  <2>1. TypeOK'
    BY <1>2 DEF SlashNo, IInv, TypeOK, shared, work, outcome
  <2>2. {} \in SUBSET pendingCalls[c]
    OBVIOUS
  <2>3. OnePlace' /\ Waits' /\ Gated' /\ RunOnce' /\ PromptAccounted'
    BY <1>2, <2>2, PopStep DEF SlashNo, work, outcome
  <2>4. QED
    BY <2>1, <2>3 DEF IInv
<1>3. ASSUME NEW mode \in Modes, SlashSetAuthMode(c, mode)
      PROVE  IInv'
  <2> DEFINE approved == Judged(pendingCalls[c], mode, "allow")
  <2>1. approved \in SUBSET pendingCalls[c]
    BY DEF Judged
  <2>2. /\ pc[c] = "idle"
        /\ authMode' = [authMode EXCEPT ![c] = mode]
        /\ pendingCalls' = [pendingCalls EXCEPT ![c] = {}]
        /\ consented' = consented \cup approved
        /\ shed' = shed \cup (pendingCalls[c] \ approved)
        /\ approvedPending' = IF approved = {} THEN approvedPending
                              ELSE [approvedPending EXCEPT ![c] = approved]
        /\ pc' = pc \/ pc' = [pc EXCEPT ![c] = "bind"]
        /\ UNCHANGED <<shared, work, parked, denied, outcome>>
    BY <1>3 DEF SlashSetAuthMode, ContinueToLoop, Goto
  <2> HIDE DEF approved
  <2>3. TypeOK'
    <3>1. pc' \in [Chats -> Points]
      BY <2>2 DEF Points, IInv, TypeOK
    <3>2. QED
      BY <2>1, <2>2, <3>1 DEF IInv, TypeOK, shared, work, outcome
  <2>4. OnePlace' /\ Waits' /\ Gated' /\ RunOnce' /\ PromptAccounted'
    BY <2>1, <2>2, PopStep DEF work, outcome
  <2>5. QED
    BY <2>3, <2>4 DEF IInv
<1>4. QED
  BY <1>1, <1>2, <1>3
-----------------------------------------------------------------------------
\* Every step keeps the invariant.
LEMMA NextIInv == IInv /\ [Next]_vars => IInv'
<1> SUFFICES ASSUME IInv, [Next]_vars PROVE IInv'
  OBVIOUS
<1>1. ASSUME NEW c \in Chats, TurnStep(c) PROVE IInv'
  BY <1>1, TurnStarts, DrainStep, RunToolStep, FinishApprovedStep, FinishRoundStep
     DEF TurnStep
<1>2. ASSUME NEW c \in Chats, Message(c) PROVE IInv'
  BY <1>2, TurnStarts
<1>3. ASSUME NEW c \in Chats, NEW s \in Answers, ModelCallsTools(c, s) PROVE IInv'
  BY <1>3, ModelStep
<1>4. ASSUME NEW c \in Chats,
             \/ SlashYes(c) \/ SlashNo(c)
             \/ \E mode \in Modes : SlashSetAuthMode(c, mode)
      PROVE  IInv'
  BY <1>4, SlashStep
<1>5. CASE UNCHANGED vars
  <2>1. TypeOK'
    BY <1>5 DEF IInv, TypeOK, vars, gate, shared, work, verdict, outcome
  <2>2. QED
    BY <1>5, <2>1, QuietStep
       DEF IInv, Waits, vars, gate, shared, work, verdict, outcome
<1>6. QED
  BY <1>1, <1>2, <1>3, <1>4, <1>5 DEF Next

\* The inductive invariant of the gate holds in every reachable state.
THEOREM Invariance == Spec => []IInv
<1>1. QED
  BY InitIInv, NextIInv, PTL DEF Spec

\* Every variable of the gate, the registry and the turns keeps its type.
THEOREM TypeCorrect == Spec => []TypeOK
<1>1. IInv => TypeOK
  BY DEF IInv
<1>2. QED
  BY <1>1, Invariance, PTL

\* The gate: no hardline command runs, and no command or outside write runs
\* without the consent of its chat's user.
THEOREM GateHolds == Spec => []ConsentBeforeRun
<1>1. IInv => ConsentBeforeRun
  BY DEF IInv, Gated, Safe, ConsentBeforeRun
<1>2. QED
  BY <1>1, Invariance, PTL

\* No call runs twice, however approvals and rounds interleave.
THEOREM EachRunsOnce == Spec => []RunOnce
<1>1. IInv => RunOnce
  BY DEF IInv
<1>2. QED
  BY <1>1, Invariance, PTL

\* No call a user was asked about is forgotten.
THEOREM PromptsAccounted == Spec => []PromptAccounted
<1>1. IInv => PromptAccounted
  BY DEF IInv
<1>2. QED
  BY <1>1, Invariance, PTL

\* CallsKept: both of the above.
THEOREM CallsKeptHolds == Spec => []CallsKept
<1>1. RunOnce /\ PromptAccounted => CallsKept
  BY DEF CallsKept
<1>2. QED
  BY <1>1, EachRunsOnce, PromptsAccounted, PTL
-----------------------------------------------------------------------------
(* The registry, which all chats of the agent share. *)

\* The turn of chat d has bound the registry to itself.
Active(d) == pc[d] \notin {"idle", "bind"}

\* A turn that no other runs beside owns the registry.
Alone ==
    \A c \in Chats \ overlapped : Active(c) =>
        /\ bound = c
        /\ \A d \in Chats \ {c} : ~Active(d)
        /\ \A x \in running[c] : WriteTargetOutsideWorkspace(x) => x \in bypassPaths

\* A batch handed to the executor has the bypass list of its own writes.
LEMMA BypassCovers ==
    ASSUME NEW S \in SUBSET Calls, SetSandboxBypassPaths(S)
    PROVE  \A x \in S : WriteTargetOutsideWorkspace(x) => x \in bypassPaths'
<1>1. TAKE x \in S
<1>2. HAVE WriteTargetOutsideWorkspace(x)
<1>3. x \in {y \in S : WriteTargetOutsideWorkspace(y)}
  BY <1>2
<1>4. QED
  BY <1>3 DEF SetSandboxBypassPaths

\* Steps of a turn that leave the binding alone, its batch covered.
LEMMA AloneTurn ==
    ASSUME IInv, Alone, NEW c \in Chats, Active(c),
           UNCHANGED <<bound, overlapped>>,
           \A d \in Chats \ {c} : pc'[d] = pc[d],
           \A x \in running'[c] : WriteTargetOutsideWorkspace(x) => x \in bypassPaths'
    PROVE  Alone'
<1> SUFFICES ASSUME NEW d \in Chats \ overlapped, Active(d)'
             PROVE  /\ bound = d
                    /\ \A e \in Chats \ {d} : ~Active(e)'
                    /\ \A x \in running'[d] :
                          WriteTargetOutsideWorkspace(x) => x \in bypassPaths'
  BY DEF Alone, WriteTargetOutsideWorkspace
<1>1. d = c
  BY DEF Alone, Active
<1>2. bound = c /\ \A e \in Chats \ {c} : ~Active(e)
  BY <1>1 DEF Alone
<1>3. QED
  BY <1>1, <1>2 DEF Active

\* Steps in which no turn becomes active and no registry changes.
LEMMA AloneQuiet ==
    ASSUME IInv, Alone, UNCHANGED <<shared, overlapped, running>>,
           \A d \in Chats : Active(d)' => Active(d)
    PROVE  Alone'
BY DEF Alone, shared, WriteTargetOutsideWorkspace

\* A turn that binds the registry is alone or marks everybody it meets.
LEMMA BindAlone ==
    ASSUME IInv, Alone, NEW c \in Chats, BindSession(c)
    PROVE  Alone'
<1> DEFINE others == {d \in Chats \ {c} : pc[d] \notin {"idle", "bind"}}
<1>1. /\ pc[c] = "bind" /\ bound' = c /\ UNCHANGED <<bypassPaths, running>>
      /\ overlapped' = IF others = {} THEN overlapped \ {c}
                       ELSE overlapped \cup others \cup {c}
      /\ pc' = [pc EXCEPT ![c] = "drain"]
  BY DEF BindSession, Goto, work
<1>2. running[c] = {}
  BY <1>1 DEF IInv, Waits
<1>3. ASSUME NEW d \in Chats \ overlapped', Active(d)'
      PROVE  d = c /\ others = {}
  <2>1. pc'[d] = IF d = c THEN "drain" ELSE pc[d]
    BY <1>1 DEF IInv, TypeOK
  <2>2. d # c => d \in others
    BY <1>3, <2>1 DEF Active
  <2>3. others = {}
    BY <1>1, <2>2
  <2>4. QED
    BY <2>2, <2>3
<1>4. others = {} => \A e \in Chats \ {c} : ~Active(e)'
  BY <1>1 DEF Active, IInv, TypeOK
<1> HIDE DEF others
<1>5. QED
  BY <1>1, <1>2, <1>3, <1>4 DEF Alone

\* A round's bypass list covers the writes the gate let through.
LEMMA ModelAlone ==
    ASSUME IInv, Alone, NEW c \in Chats, NEW s \in Answers, ModelCallsTools(c, s)
    PROVE  Alone'
<1> DEFINE S       == Elems(ExecuteCalls(s))
           allowed == Judged(S, authMode[c], "allow")
<1>1. /\ pc[c] = "model" /\ UNCHANGED <<bound, overlapped>>
      /\ SetSandboxBypassPaths(allowed)
      /\ running' = [running EXCEPT ![c] = allowed]
      /\ pc' = [pc EXCEPT ![c] = "tools"]
  BY DEF ModelCallsTools, FilterAuthorizedCalls, Goto, outcome
<1>2. s \in Seq(Calls)
  BY AnswerType
<1>3. allowed \in SUBSET Calls
  BY <1>2, ElemsType DEF Judged
<1> HIDE DEF allowed
<1>4. \A x \in allowed : WriteTargetOutsideWorkspace(x) => x \in bypassPaths'
  BY <1>1, <1>3, BypassCovers
<1>5. QED
  BY <1>1, <1>4, AloneTurn DEF Active, IInv, TypeOK

\* The other steps of a turn keep its batch covered.
LEMMA TurnAlone ==
    ASSUME IInv, Alone, NEW c \in Chats,
           \/ DrainApprovedPending(c) \/ FinishApproved(c) \/ FinishRound(c)
           \/ \E x \in Calls : RunTool(c, x)
    PROVE  Alone'
<1>1. CASE DrainApprovedPending(c)
  <2>1. /\ pc[c] = "drain" /\ UNCHANGED <<bound, overlapped>>
        /\ SetSandboxBypassPaths(approvedPending[c])
        /\ running'[c] = approvedPending[c]
        /\ \A d \in Chats \ {c} : pc'[d] = pc[d]
    BY <1>1 DEF DrainApprovedPending, Goto, outcome, IInv, TypeOK
  <2>2. approvedPending[c] \in SUBSET Calls
    BY DEF IInv, TypeOK
  <2>3. \A x \in running'[c] : WriteTargetOutsideWorkspace(x) => x \in bypassPaths'
    BY <2>1, <2>2, BypassCovers
  <2>4. QED
    BY <2>1, <2>3, AloneTurn DEF Active
<1>2. CASE FinishApproved(c) \/ FinishRound(c)
  <2>1. /\ pc[c] \in {"approved", "tools"} /\ UNCHANGED <<bound, overlapped, running>>
        /\ running[c] = {}
        /\ \A d \in Chats \ {c} : pc'[d] = pc[d]
    BY <1>2 DEF FinishApproved, FinishRound, Goto, work, outcome, IInv, TypeOK
  <2>2. QED
    BY <2>1, AloneTurn DEF Active
<1>3. ASSUME NEW x \in Calls, RunTool(c, x) PROVE Alone'
  <2>1. /\ running[c] # {} /\ UNCHANGED <<shared, overlapped, pc>>
        /\ running'[c] \subseteq running[c]
        /\ \A d \in Chats : running'[d] \subseteq running[d]
    BY <1>3 DEF RunTool, IInv, TypeOK
  <2>2. QED
    BY <2>1 DEF Alone, Active, shared, WriteTargetOutsideWorkspace
<1>4. QED
  BY <1>1, <1>2, <1>3

\* Every step keeps the registry with the turn that is alone.
LEMMA AloneNext == IInv /\ Alone /\ [Next]_vars => Alone'
<1> SUFFICES ASSUME IInv, Alone, [Next]_vars PROVE Alone'
  OBVIOUS
<1>1. ASSUME NEW c \in Chats, TurnStep(c) PROVE Alone'
  <2>1. CASE EndTurn(c)
    <3>1. UNCHANGED <<shared, overlapped, running>>
          /\ \A d \in Chats : Active(d)' => Active(d)
      BY <2>1 DEF EndTurn, Goto, Active, outcome, work, IInv, TypeOK
    <3>2. QED
      BY <3>1, AloneQuiet
  <2>2. QED
    BY <1>1, <2>1, BindAlone, TurnAlone DEF TurnStep
<1>2. ASSUME NEW c \in Chats, Message(c) PROVE Alone'
  <2>1. UNCHANGED <<shared, overlapped, running>>
        /\ \A d \in Chats : Active(d)' => Active(d)
    BY <1>2 DEF Message, Goto, Active, outcome, work, IInv, TypeOK
  <2>2. QED
    BY <2>1, AloneQuiet
<1>3. ASSUME NEW c \in Chats, NEW s \in Answers, ModelCallsTools(c, s) PROVE Alone'
  BY <1>3, ModelAlone
<1>4. ASSUME NEW c \in Chats,
             \/ SlashYes(c) \/ SlashNo(c)
             \/ \E mode \in Modes : SlashSetAuthMode(c, mode)
      PROVE  Alone'
  <2>1. /\ UNCHANGED <<shared, work, outcome>>
        /\ pc' = pc \/ pc' = [pc EXCEPT ![c] = "bind"]
    BY <1>4 DEF SlashYes, SlashNo, SlashSetAuthMode, ContinueToLoop, Goto
  <2>2. UNCHANGED <<shared, overlapped, running>>
        /\ \A d \in Chats : Active(d)' => Active(d)
    BY <2>1 DEF Active, outcome, work, IInv, TypeOK
  <2>3. QED
    BY <2>2, AloneQuiet
<1>5. CASE UNCHANGED vars
  BY <1>5, AloneQuiet DEF vars, shared, outcome, work, Active
<1>6. QED
  BY <1>1, <1>2, <1>3, <1>4, <1>5 DEF Next

\* A tool runs only out of an alone turn's covered batch.
LEMMA RegistryStep ==
    ASSUME IInv, Alone, [Next]_vars,
           NEW c \in Chats \ overlapped, NEW x \in running[c] \ running'[c]
    PROVE  bound = c /\ (WriteTargetOutsideWorkspace(x) => x \in bypassPaths)
<1>1. pc[c] \in {"approved", "tools"}
  BY DEF IInv, Waits
<1>2. QED
  BY <1>1 DEF Alone, Active

\* A turn that no other chat's turn runs beside has each tool run under its
\* own binding and finds its writes on the bypass list.
THEOREM RegistryOwnHolds == Spec => RegistryOwn
<1>1. Init => Alone
  BY DEF Init, Alone, Active
<1>2. IInv /\ Alone /\ [Next]_vars =>
        [\A c \in Chats \ overlapped : \A x \in running[c] \ running'[c] :
            bound = c /\ (WriteTargetOutsideWorkspace(x) => x \in bypassPaths)]_vars
  BY RegistryStep
<1>3. QED
  BY <1>1, <1>2, AloneNext, Invariance, PTL DEF Spec, RegistryOwn
-----------------------------------------------------------------------------
(* What the user has denied is gone for good. *)

\* A call that no model can emit any more, that no chat holds and that has not run.
Gone(x) == /\ x \notin unused /\ x \notin Done
           /\ \A c \in Chats : x \notin Held(c)

DeniedGone == \A x \in denied : Gone(x)

\* No step brings such a call back.
LEMMA GoneStays ==
    ASSUME IInv, [Next]_vars, NEW x \in Calls, Gone(x)
    PROVE  Gone(x)'
<1>0. \A c \in Chats : /\ x \notin pendingCalls[c] /\ x \notin approvedPending[c]
                       /\ x \notin running[c]
  BY DEF Gone, Held
<1>1. ASSUME NEW c \in Chats, TurnStep(c) PROVE Gone(x)'
  <2>1. CASE DrainApprovedPending(c)
    <3>1. /\ pendingCalls' = pendingCalls /\ UNCHANGED <<unused, runs>>
          /\ approvedPending' = [approvedPending EXCEPT ![c] = {}]
          /\ running' = [running EXCEPT ![c] = approvedPending[c]]
      BY <2>1 DEF DrainApprovedPending, outcome
    <3>2. QED
      BY <1>0, <3>1 DEF Gone, Held, Done, IInv, TypeOK
  <2>2. ASSUME NEW y \in Calls, RunTool(c, y) PROVE Gone(x)'
    <3>1. /\ y # x /\ UNCHANGED <<pendingCalls, approvedPending, unused>>
          /\ running' = [running EXCEPT ![c] = @ \ {y}]
          /\ runs' = [runs EXCEPT ![y] = @ + 1]
      BY <1>0, <2>2 DEF RunTool, gate
    <3>2. x \notin Done'
      BY <3>1 DEF Gone, Done, IInv, TypeOK
    <3>3. QED
      BY <1>0, <3>1, <3>2 DEF Gone, Held, IInv, TypeOK
  <2>3. CASE BindSession(c) \/ FinishApproved(c) \/ FinishRound(c) \/ EndTurn(c)
    <3>1. UNCHANGED <<pendingCalls, approvedPending, running, unused, runs>>
      BY <2>3 DEF BindSession, FinishApproved, FinishRound, EndTurn, gate, work,
                  outcome
    <3>2. QED
      BY <3>1 DEF Gone, Held, Done
  <2>4. QED
    BY <1>1, <2>1, <2>2, <2>3 DEF TurnStep
<1>2. ASSUME NEW c \in Chats, NEW s \in Answers, ModelCallsTools(c, s) PROVE Gone(x)'
  <2> DEFINE S == Elems(ExecuteCalls(s))
  <2>1. S \subseteq unused
    BY AnswerType, ElemsType
  <2>2. /\ pendingCalls' = [pendingCalls EXCEPT ![c] = @ \cup Judged(S, authMode[c], "prompt")]
        /\ running' = [running EXCEPT ![c] = Judged(S, authMode[c], "allow")]
        /\ unused' = unused \ Elems(s) /\ UNCHANGED <<approvedPending, runs>>
    BY <1>2 DEF ModelCallsTools, FilterAuthorizedCalls, PushPendingCalls, outcome
  <2>3. \A what : x \notin Judged(S, authMode[c], what)
    BY <2>1 DEF Judged, Gone
  <2> HIDE DEF S
  <2>4. QED
    BY <1>0, <2>2, <2>3 DEF Gone, Held, Done, IInv, TypeOK
<1>3. ASSUME NEW c \in Chats,
             \/ SlashYes(c) \/ SlashNo(c)
             \/ \E mode \in Modes : SlashSetAuthMode(c, mode)
      PROVE  Gone(x)'
  <2>1. PICK approved \in SUBSET pendingCalls[c] :
          /\ pendingCalls' = [pendingCalls EXCEPT ![c] = {}]
          /\ \/ UNCHANGED approvedPending
             \/ approvedPending' = [approvedPending EXCEPT ![c] = approved]
          /\ UNCHANGED <<running, unused, runs>>
    BY <1>3 DEF SlashYes, SlashNo, SlashSetAuthMode, Judged, work, outcome
  <2>2. QED
    BY <1>0, <2>1 DEF Gone, Held, Done, IInv, TypeOK
<1>4. ASSUME NEW c \in Chats, Message(c) PROVE Gone(x)'
  BY <1>4 DEF Message, gate, work, outcome, Gone, Held, Done
<1>5. CASE UNCHANGED vars
  BY <1>5 DEF vars, gate, work, outcome, Gone, Held, Done
<1>6. QED
  BY <1>1, <1>2, <1>3, <1>4, <1>5 DEF Next

\* The calls that a /no takes from a session were there and nowhere else.
LEMMA DeniedStep == IInv /\ DeniedGone /\ [Next]_vars => DeniedGone'
<1> SUFFICES ASSUME IInv, DeniedGone, [Next]_vars, NEW x \in denied' PROVE Gone(x)'
  BY DEF DeniedGone
<1>1. CASE x \in denied
  BY <1>1, GoneStays DEF DeniedGone, IInv, TypeOK
<1>2. ASSUME NEW c \in Chats, SlashNo(c), x \in pendingCalls[c] PROVE Gone(x)'
  <2>1. /\ pendingCalls' = [pendingCalls EXCEPT ![c] = {}]
        /\ UNCHANGED <<approvedPending, running, unused, runs>>
    BY <1>2 DEF SlashNo, work, outcome
  <2>2. x \in Held(c) /\ x \notin running[c] /\ x \notin approvedPending[c]
    BY <1>2 DEF IInv, OnePlace, Waits, Held
  <2>3. x \notin unused /\ x \notin Done /\ \A d \in Chats : d # c => x \notin Held(d)
    BY <2>2 DEF IInv, OnePlace
  <2>4. QED
    BY <2>1, <2>2, <2>3 DEF Gone, Held, Done, IInv, TypeOK
<1>3. x \in denied \/ \E c \in Chats : SlashNo(c) /\ x \in pendingCalls[c]
  BY DEF Next, TurnStep, BindSession, DrainApprovedPending, RunTool, FinishApproved,
         FinishRound, EndTurn, Message, ModelCallsTools, SlashYes, SlashNo,
         SlashSetAuthMode, vars, verdict
<1>4. QED
  BY <1>1, <1>2, <1>3

\* What waited when the user said /no never runs, whatever comes after.
THEOREM DenialHoldsAlways == Spec => []DenialHolds
<1>1. Init => DeniedGone
  BY DEF Init, DeniedGone
<1>2. DeniedGone => DenialHolds
  BY DEF DeniedGone, Gone, DenialHolds
<1>3. QED
  BY <1>1, <1>2, DeniedStep, Invariance, PTL DEF Spec
-----------------------------------------------------------------------------
(* The results of a round. *)

\* The calls of a round are different ones; the gate blocks some that it executes.
RoundInv ==
    \A c \in Chats :
        /\ \A i, j \in DOMAIN round[c] : round[c][i] = round[c][j] => i = j
        /\ blocked[c] \subseteq Elems(ExecuteCalls(round[c]))

\* Counting: what goes up in 1..n and stays in it is the identity.
LEMMA MonotoneIdentity ==
    ASSUME NEW n \in Nat, NEW g \in [1..n -> 1..n],
           \A k, l \in 1..n : k < l => g[k] < g[l]
    PROVE  \A k \in 1..n : g[k] = k
<1> SUFFICES ASSUME NEW k \in 1..n PROVE g[k] = k
  OBVIOUS
<1>1. \A i, j \in 1..n : g[i] = g[j] => i = j
  OBVIOUS
<1>2. k <= g[k]
  <2> DEFINE f == [l \in 1..(k - 1) |-> g[l]]
  <2>1. f \in Injection(1..(k - 1), 1..(g[k] - 1))
    <3>1. \A l \in 1..(k - 1) : l \in 1..n /\ g[l] \in 1..(g[k] - 1)
      OBVIOUS
    <3>2. QED
      BY <1>1, <3>1 DEF Injection, IsInjective
  <2>2. Cardinality(1..(k - 1)) <= Cardinality(1..(g[k] - 1))
    BY <2>1, FS_Injection, FS_Interval
  <2>3. /\ Cardinality(1..(k - 1)) = k - 1
        /\ Cardinality(1..(g[k] - 1)) = g[k] - 1
    BY FS_Interval
  <2>4. QED
    BY <2>2, <2>3
<1>3. g[k] <= k
  <2> DEFINE f == [l \in (k + 1)..n |-> g[l]]
  <2>1. f \in Injection((k + 1)..n, (g[k] + 1)..n)
    BY <1>1 DEF Injection, IsInjective
  <2>2. Cardinality((k + 1)..n) <= Cardinality((g[k] + 1)..n)
    BY <2>1, FS_Injection, FS_Interval
  <2>3. /\ Cardinality((k + 1)..n) = n - k
        /\ Cardinality((g[k] + 1)..n) = n - g[k]
    BY FS_Interval
  <2>4. QED
    BY <2>2, <2>3
<1>4. QED
  BY <1>2, <1>3

\* The first m calls of an answer, in the order of the answer, are its prefix.
LEMMA PrefixOrder ==
    ASSUME NEW s \in Seq(Calls), \A i, j \in DOMAIN s : s[i] = s[j] => i = j,
           NEW m \in 0..Len(s), NEW S, S = {s[i] : i \in 1..m},
           NEW f \in CallOrders(S, s)
    PROVE  f \in Seq(Calls) /\ Len(f) = m /\ \A k \in 1..m : f[k] = s[k]
<1>1. Cardinality(S) = m
  <2> DEFINE h == [i \in 1..m |-> s[i]]
  <2>1. h \in Bijection(1..m, S)
    <3>1. h \in Injection(1..m, S)
      BY DEF Injection, IsInjective
    <3>2. h \in Surjection(1..m, S)
      BY DEF Surjection
    <3>3. QED
      BY <3>1, <3>2 DEF Bijection
  <2>2. ExistsBijection(1..m, S)
    BY <2>1 DEF ExistsBijection
  <2> HIDE DEF h
  <2>3. QED
    BY <2>2, FS_CountingElements
<1>2. /\ f \in [1..m -> S]
      /\ \A i, j \in 1..m : f[i] = f[j] => i = j
      /\ \A i, j \in DOMAIN s : \A k, l \in 1..m :
           (f[k] = s[i] /\ f[l] = s[j] /\ i < j) => k < l
  BY <1>1 DEF CallOrders, MapOrders
<1>a. m \in Nat /\ 1..m \subseteq DOMAIN s
  OBVIOUS
<1>b. \A k \in 1..m : \E i \in 1..m : f[k] = s[i]
  <2>1. ASSUME NEW k \in 1..m PROVE \E i \in 1..m : f[k] = s[i]
    <3>1. f[k] \in {s[i] : i \in 1..m}
      BY <1>2
    <3>2. QED
      BY <3>1
  <2>2. QED
    BY <2>1
<1> DEFINE g == [k \in 1..m |-> CHOOSE i \in 1..m : f[k] = s[i]]
<1>3. \A k \in 1..m : g[k] \in 1..m /\ f[k] = s[g[k]]
  BY <1>b
<1>4. g \in [1..m -> 1..m]
  BY <1>3
<1> HIDE DEF g
<1>5. ASSUME NEW k \in 1..m, NEW l \in 1..m, k < l PROVE g[k] < g[l]
  <2>a. k # l
    BY <1>a, <1>5
  <2>b. f[k] = f[l] => k = l
    BY <1>2
  <2>1. g[k] # g[l]
    <3>1. f[k] = s[g[k]] /\ f[l] = s[g[l]]
      BY <1>3
    <3>2. QED
      BY <2>a, <2>b, <3>1
  <2>2. g[k] \in DOMAIN s /\ g[l] \in DOMAIN s
    BY <1>3
  <2>3. ASSUME g[l] < g[k] PROVE FALSE
    <3>1. f[l] = s[g[l]] /\ f[k] = s[g[k]]
      BY <1>3
    <3>2. l < k
      BY <1>2, <2>2, <2>3, <3>1
    <3>3. QED
      BY <1>a, <1>5, <3>2
  <2>4. QED
    BY <1>3, <2>1, <2>3
<1>6. \A k \in 1..m : g[k] = k
  BY <1>a, <1>4, <1>5, MonotoneIdentity
<1>7. f \in [1..m -> Calls]
  BY <1>a, <1>2
<1>8. QED
  BY <1>a, <1>3, <1>6, <1>7

\* The lengths of what an answer is cut into.
LEMMA Cut ==
    ASSUME NEW s \in Seq(Calls)
    PROVE  LET n == Len(ExecuteCalls(s))
           IN  /\ n \in 0..Len(s) /\ DeferredCalls(s) \in Seq(Calls)
               /\ Len(DeferredCalls(s)) = Len(s) - n
               /\ \A i \in 1..n : ExecuteCalls(s)[i] = s[i]
               /\ \A i \in 1..(Len(s) - n) : DeferredCalls(s)[i] = s[n + i]
               /\ DOMAIN ExecuteCalls(s) = 1..n
<1>1. /\ Len(ExecuteCalls(s)) \in 0..Len(s)
      /\ DOMAIN ExecuteCalls(s) = 1..Len(ExecuteCalls(s))
      /\ \A i \in 1..Len(ExecuteCalls(s)) : ExecuteCalls(s)[i] = s[i]
  BY ToolRoundAssumption DEF ExecuteCalls
<1>2. QED
  BY <1>1 DEF DeferredCalls

\* When only the last executed call may be blocked, the results are in order.
LEMMA ResultsInOrder ==
    ASSUME NEW s \in Seq(Calls), \A i, j \in DOMAIN s : s[i] = s[j] => i = j,
           NEW B \in SUBSET Elems(ExecuteCalls(s)),
           B \subseteq {ExecuteCalls(s)[Len(ExecuteCalls(s))]},
           NEW b \in MapOrders(B),
           NEW e \in CallOrders(Elems(ExecuteCalls(s)) \ B, s)
    PROVE  RoundResults(e, b, s) = s
<1> DEFINE n == Len(ExecuteCalls(s))
           m == IF B = {} THEN n ELSE n - 1
<1>1. /\ n \in 0..Len(s) /\ DOMAIN ExecuteCalls(s) = 1..n
      /\ DeferredCalls(s) \in Seq(Calls) /\ Len(DeferredCalls(s)) = Len(s) - n
      /\ \A i \in 1..n : ExecuteCalls(s)[i] = s[i]
      /\ \A i \in 1..(Len(s) - n) : DeferredCalls(s)[i] = s[n + i]
  BY Cut
<1>2. Elems(ExecuteCalls(s)) = {s[i] : i \in 1..n}
  <2>1. Elems(ExecuteCalls(s)) = {ExecuteCalls(s)[i] : i \in 1..n}
    BY <1>1 DEF Elems
  <2> HIDE DEF n
  <2>2. QED
    BY <1>1, <2>1
<1>3. B # {} => n >= 1 /\ B = {s[n]}
  <2>1. B # {} => n # 0
    BY <1>1, <1>2
  <2>2. QED
    BY <1>1, <2>1
<1> HIDE DEF n
<1>4. /\ m \in 0..Len(s) /\ n - m \in Nat /\ m \in Nat
      /\ Elems(ExecuteCalls(s)) \ B = {s[i] : i \in 1..m}
  <2>1. CASE B = {}
    BY <1>1, <1>2, <2>1
  <2>2. CASE B # {}
    <3>1. m = n - 1 /\ m \in 0..Len(s) /\ B = {s[n]} /\ n \in 1..Len(s)
      BY <1>1, <1>3, <2>2
    <3>2. \A i \in 1..n : s[i] = s[n] <=> i = n
      BY <3>1
    <3>3. {s[i] : i \in 1..n} \ {s[n]} = {s[i] : i \in 1..(n - 1)}
      BY <3>1, <3>2
    <3> HIDE DEF m
    <3>4. Elems(ExecuteCalls(s)) \ B = {s[i] : i \in 1..m}
      BY <1>2, <3>1, <3>3, Zenon
    <3>5. n - m \in Nat /\ m \in Nat
      BY <3>1
    <3>6. QED
      BY <3>1, <3>4, <3>5
  <2>3. QED
    BY <2>1, <2>2
<1>5. b \in Seq(Calls) /\ Len(b) = n - m /\ \A k \in 1..(n - m) : b[k] = s[m + k]
  <2>1. CASE B = {}
    <3>1. b = <<>>
      BY <2>1, FS_EmptySet DEF MapOrders
    <3>2. QED
      BY <1>1, <2>1, <3>1
  <2>2. CASE B # {}
    <3>1. n \in 1..Len(s) /\ s[n] \in Calls /\ n - m = 1 /\ m + 1 = n
      BY <1>1, <1>3, <2>2
    <3>2. Cardinality(B) = 1
      BY <1>3, <2>2, FS_Singleton, Zenon
    <3>3. b \in [1..1 -> {s[n]}]
      BY <1>3, <2>2, <3>2 DEF MapOrders
    <3>4. b \in Seq(Calls) /\ Len(b) = 1 /\ b[1] = s[n]
      <4>1. b \in [1..Cardinality(B) -> Calls] /\ b[1] = s[n]
        BY <3>1, <3>2, <3>3
      <4>2. b \in Seq(Calls) /\ Len(b) = Cardinality(B)
        <5>1. Cardinality(B) \in Nat
          BY <3>2
        <5> DEFINE j == Cardinality(B)
        <5> HIDE DEF j
        <5>2. b \in [1..j -> Calls] /\ j \in Nat
          BY <4>1, <5>1 DEF j
        <5>3. b \in Seq(Calls) /\ Len(b) = j
          BY <5>2
        <5>4. QED
          BY <5>3 DEF j
      <4>3. QED
        BY <3>2, <4>1, <4>2
    <3> HIDE DEF m
    <3>5. QED
      BY <3>1, <3>4
  <2>3. QED
    BY <2>1, <2>2
<1> HIDE DEF m
<1>6. e \in Seq(Calls) /\ Len(e) = m /\ \A k \in 1..m : e[k] = s[k]
  <2> DEFINE S == Elems(ExecuteCalls(s)) \ B
  <2>1. S = {s[i] : i \in 1..m} /\ e \in CallOrders(S, s)
    BY <1>4
  <2> HIDE DEF S
  <2>2. QED
    BY <1>4, <2>1, PrefixOrder
<1> DEFINE eb == e \o b
           d  == DeferredCalls(s)
<1>7. /\ eb \in Seq(Calls) /\ Len(eb) = m + (n - m)
      /\ \A k \in 1..(m + (n - m)) : eb[k] = IF k <= m THEN e[k] ELSE b[k - m]
  <2>1. /\ eb \in Seq(Calls) /\ Len(eb) = Len(e) + Len(b)
        /\ \A k \in 1..(Len(e) + Len(b)) :
             eb[k] = IF k <= Len(e) THEN e[k] ELSE b[k - Len(e)]
    <3>1. e \in Seq(Calls) /\ b \in Seq(Calls)
      BY <1>5, <1>6
    <3>2. QED
      BY <3>1, ConcatProperties
  <2>2. QED
    BY <1>5, <1>6, <2>1
<1>8. ASSUME NEW k \in 1..n PROVE eb[k] = s[k]
  <2> HIDE DEF eb
  <2>1. CASE k <= m
    BY <1>1, <1>4, <1>6, <1>7, <2>1
  <2>2. CASE k > m
    <3>1. k - m \in 1..(n - m) /\ eb[k] = b[k - m] /\ m + (k - m) = k
      BY <1>1, <1>4, <1>7, <2>2
    <3>2. QED
      BY <1>5, <3>1
  <2>3. QED
    BY <1>1, <1>4, <2>1, <2>2
<1>9. /\ Len(eb) = n /\ d \in Seq(Calls) /\ Len(d) = Len(s) - n /\ n \in 0..Len(s)
      /\ \A k \in 1..(Len(s) - n) : d[k] = s[n + k]
      /\ RoundResults(e, b, s) = eb \o d
  BY <1>1, <1>4, <1>7 DEF RoundResults
<1> HIDE DEF eb, d
<1>10. /\ eb \o d \in Seq(Calls) /\ Len(eb \o d) = n + (Len(s) - n)
       /\ \A k \in 1..(n + (Len(s) - n)) :
            (eb \o d)[k] = IF k <= n THEN eb[k] ELSE d[k - n]
  <2>1. /\ eb \o d \in Seq(Calls) /\ Len(eb \o d) = Len(eb) + Len(d)
        /\ \A k \in 1..(Len(eb) + Len(d)) :
             (eb \o d)[k] = IF k <= Len(eb) THEN eb[k] ELSE d[k - Len(eb)]
    BY <1>7, <1>9, ConcatProperties
  <2>2. QED
    BY <1>9, <2>1
<1>11. ASSUME NEW k \in 1..Len(s) PROVE (eb \o d)[k] = s[k]
  <2>1. CASE k <= n
    BY <1>8, <1>9, <1>10, <2>1
  <2>2. CASE k > n
    <3>1. k - n \in 1..(Len(s) - n) /\ (eb \o d)[k] = d[k - n] /\ n + (k - n) = k
      BY <1>9, <1>10, <2>2
    <3>2. QED
      BY <1>9, <3>1
  <2>3. QED
    BY <1>9, <2>1, <2>2
<1>12. Len(eb \o d) = Len(s)
  BY <1>9, <1>10
<1>13. eb \o d = s
  BY <1>10, <1>11, <1>12, SeqEqual
<1>14. QED
  BY <1>9, <1>13

\* Every step keeps the rounds of different calls.
LEMMA RoundStep == IInv /\ RoundInv /\ [Next]_vars => RoundInv'
<1> SUFFICES ASSUME IInv, RoundInv, [Next]_vars PROVE RoundInv'
  OBVIOUS
<1>1. ASSUME NEW c \in Chats, NEW s \in Answers, ModelCallsTools(c, s) PROVE RoundInv'
  <2>1. /\ round' = [round EXCEPT ![c] = s]
        /\ blocked' = [blocked EXCEPT ![c] = Elems(ExecuteCalls(s)) \
                           Judged(Elems(ExecuteCalls(s)), authMode[c], "allow")]
    BY <1>1 DEF ModelCallsTools, FilterAuthorizedCalls
  <2>2. \A i, j \in DOMAIN s : s[i] = s[j] => i = j
    BY DEF Answers
  <2>3. QED
    BY <2>1, <2>2 DEF RoundInv, IInv, TypeOK
<1>2. ASSUME NEW c \in Chats, FinishRound(c) PROVE RoundInv'
  <2>1. /\ round' = [round EXCEPT ![c] = <<>>]
        /\ blocked' = [blocked EXCEPT ![c] = {}]
    BY <1>2 DEF FinishRound
  <2>2. QED
    BY <2>1 DEF RoundInv, IInv, TypeOK
<1>3. ASSUME UNCHANGED <<round, blocked>> PROVE RoundInv'
  BY <1>3 DEF RoundInv
<1>4. QED
  BY <1>1, <1>2, <1>3
     DEF Next, TurnStep, BindSession, DrainApprovedPending, RunTool, FinishApproved,
         EndTurn, Message, SlashYes, SlashNo, SlashSetAuthMode, vars, work

\* The end of a round records each of its results under its own call.
LEMMA PairedStep ==
    ASSUME IInv, RoundInv, [Next]_vars, NEW c \in Chats,
           pc[c] = "tools", pc'[c] = "model",
           blocked[c] \subseteq {ExecuteCalls(round[c])[Len(ExecuteCalls(round[c]))]}
    PROVE  \A i \in DOMAIN round[c] : answer'[round[c][i]] = round[c][i]
<1>1. FinishRound(c)
  <2>1. pc' # pc
    OBVIOUS
  <2>2. ASSUME NEW d \in Chats, NEW p, pc' = [pc EXCEPT ![d] = p] PROVE d = c /\ p = "model"
    BY <2>2 DEF IInv, TypeOK
  <2>3. ASSUME NEW d \in Chats, TurnStep(d) PROVE FinishRound(c)
    <3>1. CASE FinishRound(d)
      <4>1. pc' = [pc EXCEPT ![d] = "model"]
        BY <3>1 DEF FinishRound, Goto
      <4>2. d = c
        BY <2>2, <4>1
      <4>3. QED
        BY <3>1, <4>2
    <3>2. CASE BindSession(d) \/ DrainApprovedPending(d) \/ FinishApproved(d) \/ EndTurn(d)
      <4>1. pc[d] # "tools" /\ \E p : pc' = [pc EXCEPT ![d] = p]
        BY <3>2 DEF BindSession, DrainApprovedPending, FinishApproved, EndTurn, Goto
      <4>2. QED
        BY <2>2, <4>1
    <3>3. QED
      BY <2>1, <2>3, <3>1, <3>2 DEF TurnStep, RunTool
  <2>4. ASSUME NEW d \in Chats, Message(d) \/ \E s \in Answers : ModelCallsTools(d, s)
        PROVE  FALSE
    BY <2>2, <2>4 DEF Message, ModelCallsTools, Goto
  <2>5. ASSUME NEW d \in Chats,
               \/ SlashYes(d) \/ SlashNo(d)
               \/ \E mode \in Modes : SlashSetAuthMode(d, mode)
        PROVE  FALSE
    BY <2>1, <2>2, <2>5 DEF SlashYes, SlashNo, SlashSetAuthMode, ContinueToLoop, Goto
  <2>6. QED
    BY <2>1, <2>3, <2>4, <2>5 DEF Next, vars
<1> DEFINE s == round[c]
<1>2. /\ s \in Seq(Calls) /\ \A i, j \in DOMAIN s : s[i] = s[j] => i = j
      /\ blocked[c] \in SUBSET Elems(ExecuteCalls(s))
  BY DEF IInv, TypeOK, RoundInv
<1>3. PICK b \in MapOrders(blocked[c]),
           e \in CallOrders(Elems(ExecuteCalls(s)) \ blocked[c], s) :
        answer' = [x \in Calls |->
            IF \E i \in DOMAIN RoundResults(e, b, s) : s[i] = x
              THEN RoundResults(e, b, s)
                     [CHOOSE i \in DOMAIN RoundResults(e, b, s) : s[i] = x]
              ELSE answer[x]]
  BY <1>1 DEF FinishRound
<1>4. RoundResults(e, b, s) = s
  BY <1>2, ResultsInOrder
<1> HIDE DEF s
<1>5. ASSUME NEW i \in DOMAIN s PROVE answer'[s[i]] = s[i]
  <2>1. s[i] \in Calls /\ (CHOOSE j \in DOMAIN s : s[j] = s[i]) = i
    BY <1>2
  <2>2. QED
    BY <1>3, <1>4, <2>1
<1>6. QED
  BY <1>5 DEF s

\* The results of a round whose only blocked call, if any, is the last executed one
\* are recorded under the ids of their own calls, in whichever order they arrive.
THEOREM PairedHolds == Spec => PairedUnlessBlocked
<1>1. Init => RoundInv
  BY DEF Init, RoundInv
<1>2. IInv /\ RoundInv /\ [Next]_vars =>
        [\A c \in Chats :
           LET e == ExecuteCalls(round[c])
           IN  (pc[c] = "tools" /\ pc'[c] = "model"
                  /\ blocked[c] \subseteq {e[Len(e)]}) =>
               \A i \in DOMAIN round[c] : answer'[round[c][i]] = round[c][i]]_vars
  BY PairedStep
<1>3. QED
  BY <1>1, <1>2, RoundStep, Invariance, PTL DEF Spec, PairedUnlessBlocked
-----------------------------------------------------------------------------
(* Plugin. *)

\* The elements of a sequence.
In(q) == {q[i] : i \in 1..Len(q)}

Places == {"idle", "register", "write", "blocked", "wait", "drop", "failed"}

Sent == Requests \cup {NoMsg}

ProcTypes ==
    /\ up \in BOOLEAN /\ mu \in Callers \cup {NoCaller} /\ nextID \in Nat
    /\ pending \subseteq Nat /\ box \subseteq [id : Nat, of : {-1} \cup Nat] /\ hand \in Nat

PipeTypes ==
    /\ alive \in BOOLEAN /\ attentive \in BOOLEAN /\ inbound \in 0..MaxInbound
    /\ toChild \in Seq(Sent) /\ toHost \in Seq(Sent)
    /\ Len(toChild) <= PipeCap /\ Len(toHost) <= PipeCap
    /\ asked \subseteq Requests /\ writing \subseteq Sent

CallerTypes ==
    /\ where \in [Callers -> Places] /\ request \in [Callers -> Sent]
    /\ noting \in [Callers -> BOOLEAN] /\ got \in [Callers -> Int]

LoopTypes ==
    /\ reader \in {"scan", "look", "deliver", "inbound", "closing", "ended"} /\ msg \in Sent
    /\ stop \in {"idle", "check", "call", "reap", "drain", "send", "done"}
    /\ drained \in BOOLEAN /\ ctx \in {"live", "done"}
    /\ bus \in 0..BusSize /\ made \in 0..MaxCalls
    /\ reader = "deliver" => msg # NoMsg

PluginTypes == ProcTypes /\ PipeTypes /\ CallerTypes /\ LoopTypes

\* What is on the way to the plugin and back.
InFlight == (In(toChild) \cup asked \cup writing \cup In(toHost) \cup {msg}
                \cup {r \in box : r.of > 0}) \ {NoMsg}

Numbered ==
    /\ \A r \in InFlight : r.id = r.of /\ r.id <= nextID
    /\ \A r \in box : r.id <= nextID /\ r.of # 0
    /\ \A i \in pending : i <= nextID

Calling(c) == where[c] \in {"write", "blocked", "wait", "drop"} /\ ~noting[c]
Unsent(c)  == where[c] \in {"write", "blocked"} /\ ~noting[c]

\* Calls in progress have ids of their own.
Tracked ==
    /\ \A c \in Callers : Calling(c) =>
          request[c] # NoMsg /\ request[c].id = request[c].of /\ request[c].id <= nextID
    /\ \A c \in Callers : noting[c] => c \in Hooks /\ where[c] \in {"idle", "write", "blocked"}
    /\ \A c \in Callers :
          got[c] # 0 => where[c] = "drop" /\ (got[c] > 0 => got[c] = request[c].of)
    /\ \A c, d \in Callers : Calling(c) /\ Calling(d) /\ request[c].id = request[d].id => c = d

\* A call that waits is in the table or has its answer, and the table has no other.
Owed == \A c \in Callers :
    Calling(c) /\ where[c] # "drop" => request[c].id \in pending \/ Full(request[c].id)

Known == \A i \in pending : \E c \in Callers : Calling(c) /\ request[c].id = i

\* What is not sent has no answer.
NotYet == \A c \in Callers : Unsent(c) =>
    /\ \A r \in InFlight : r.id # request[c].id
    /\ Full(request[c].id) => request[c].id \notin pending

\* Who holds the lock: a writer at a full pipe, or Stop.
Locked ==
    /\ mu # NoCaller => where[mu] = "blocked" \/ (mu = "stop" /\ stop \in {"drain", "send"})
    /\ \A c \in Callers : where[c] = "blocked" => mu = c
    /\ stop = "send" => mu = "stop" /\ hand \in pending

\* The order of the end.
Stopped ==
    /\ where["stop"] # "idle" => stop = "call"
    /\ where["boot"] # "idle" => stop = "idle"
    /\ stop \in {"reap", "drain", "send"} \/ drained => ~up
    /\ drained => pending = {}
    /\ ctx = "done" => ~alive
    /\ ~alive => writing = {}

PluginInv == PluginTypes /\ Numbered /\ Tracked /\ Owed /\ Known /\ NotYet /\ Locked /\ Stopped

\* A step of the plugin.
ChildStep == ChildReads \/ ChildAnswers \/ ChildSpeaks \/ ChildWrites \/ ChildExits
-----------------------------------------------------------------------------
LEMMA InAppend ==
    ASSUME NEW S, NEW q \in Seq(S), NEW e \in S
    PROVE  In(Append(q, e)) = In(q) \cup {e}
  BY DEF In

LEMMA InTail ==
    ASSUME NEW S, NEW q \in Seq(S), q # <<>>
    PROVE  In(Tail(q)) \subseteq In(q) /\ Head(q) \in In(q) /\ Head(q) \in S
  BY DEF In

LEMMA InSeq == ASSUME NEW S, NEW q \in Seq(S) PROVE In(q) \subseteq S
  BY DEF In

LEMMA InEmpty == In(<<>>) = {}
  BY DEF In

LEMMA PluginSteps ==
    ASSUME [PluginNext]_pluginVars
    PROVE  \/ \E c \in Callers : Begin(c) \/ CallStep(c)
           \/ ReadLoop \/ ProcessInbound \/ Shutdown \/ StopStep \/ ChildStep
           \/ UNCHANGED pluginVars
  BY DEF PluginNext, ChildStep

\* readLoop and the bus change nothing of the callers nor of the end.
LEMMA LoopMoves ==
    ASSUME PluginTypes, ReadLoop \/ ProcessInbound
    PROVE  /\ UNCHANGED <<mu, nextID, pending, toChild, alive, asked, writing, attentive, inbound,
                          where, request, noting, got, stop, hand, drained, ctx, made>>
           /\ box' = box \/ (reader = "deliver" /\ msg.id \in pending /\ box' = box \cup {msg})
           /\ up' = up \/ up' = FALSE
  BY DEF ReadLoop, ProcessInbound, Scan, LookUp, Deliver, HandleNotification, ScanEnds,
         ReadLoopEnds, proc, child, locals, loop, ending

LEMMA ChildMoves ==
    ASSUME PluginTypes, ChildStep
    PROVE  /\ UNCHANGED <<up, mu, nextID, pending, box, where, request, noting, got, reader, msg,
                          stop, hand, drained, ctx, bus, made>>
           /\ alive' = alive \/ alive' = FALSE
           /\ (~alive => writing = {}) => (~alive' => writing' = {})
  BY DEF ChildStep, ChildReads, ChildAnswers, ChildSpeaks, ChildWrites, ChildExits, Dies, Parent,
         proc, child, locals, loop, ending, PluginTypes, PipeTypes, MayRead, MayPut

LEMMA PluginTypesInit == ASSUME PluginInit PROVE PluginTypes
<1>0. {MaxCalls, BusSize} \subseteq Nat /\ MaxCalls > 0
  BY PluginAssumption
<1>1. ProcTypes /\ LoopTypes
  <2>1. ProcTypes
    BY DEF PluginInit, ProcTypes
  <2>2. made \in 0..MaxCalls /\ bus \in 0..BusSize
    BY <1>0 DEF PluginInit
  <2>3. LoopTypes
    BY <2>2 DEF PluginInit, LoopTypes, Sent
  <2> QED
    BY <2>1, <2>3
<1>2. CallerTypes
  BY DEF PluginInit, CallerTypes, Places, Sent
<1>3. toChild = <<>> /\ toHost = <<>> /\ <<>> \in Seq(Sent) /\ Len(<<>>) = 0
  BY DEF PluginInit
<1>4. PipeTypes
  BY <1>3, PluginAssumption DEF PluginInit, PipeTypes
<1> QED
  BY <1>1, <1>2, <1>4 DEF PluginTypes

LEMMA PipesTyped ==
    ASSUME PluginTypes, [PluginNext]_pluginVars PROVE PipeTypes'
<1> USE PluginAssumption DEF PipeTypes, PluginTypes
<1>e. <<>> \in Seq(Sent) /\ Len(<<>>) = 0
  OBVIOUS
<1>1. CASE UNCHANGED child
  BY <1>1 DEF child
<1>2. ASSUME NEW c \in Callers, Write(c) PROVE PipeTypes'
  <2>1. CASE alive
    <3>1. PICK e \in Sent : toChild' = Append(toChild, e)
      BY <1>2, <2>1 DEF Write, CallerTypes, Sent
    <3>2. toChild' \in Seq(Sent) /\ Len(toChild') = Len(toChild) + 1 /\ Len(toChild) < PipeCap
      BY <1>2, <2>1, <3>1 DEF Write, HasRoom
    <3> QED
      BY <1>2, <3>2 DEF Write
  <2>2. CASE ~alive
    BY <1>2, <2>2 DEF Write
  <2> QED
    BY <2>1, <2>2
<1>3. CASE Scan \/ ChildReads
  <2>1. /\ toHost # <<>> => Tail(toHost) \in Seq(Sent) /\ Len(Tail(toHost)) = Len(toHost) - 1
        /\ toChild # <<>> =>
              /\ Tail(toChild) \in Seq(Sent) /\ Len(Tail(toChild)) = Len(toChild) - 1
              /\ Head(toChild) \in Sent
    OBVIOUS
  <2>2. CASE Scan
    BY <2>1, <2>2 DEF Scan
  <2>3. CASE ChildReads
    <3>1. {Head(toChild)} \ {NoMsg} \subseteq Requests
      BY <2>1, <2>3 DEF ChildReads, MayRead, Sent
    <3> QED
      BY <2>1, <2>3, <3>1 DEF ChildReads, MayRead
  <2> QED
    BY <1>3, <2>2, <2>3
<1>4. CASE Shutdown \/ StopCloses \/ StopWaits \/ ChildExits
  <2>1. CASE StopWaits
    BY <1>e, <2>1 DEF StopWaits
  <2>2. CASE Shutdown \/ StopCloses \/ ChildExits
    <3>1. Dies /\ UNCHANGED <<toHost, attentive, inbound>>
      BY <2>2 DEF Shutdown, StopCloses, ChildExits
    <3>2. toChild' = <<>> /\ alive' \in BOOLEAN
      BY <3>1, Zenon DEF Dies
    <3>4. toChild' \in Seq(Sent) /\ Len(toChild') <= PipeCap
      BY <1>e, <3>2
    <3>3. asked' \subseteq Requests /\ writing' \subseteq Sent
      BY <3>1 DEF Dies
    <3> QED
      BY <3>1, <3>2, <3>3, <3>4
  <2> QED
    BY <1>4, <2>1, <2>2
<1>5. CASE ChildAnswers \/ ChildSpeaks
  BY <1>5 DEF ChildAnswers, ChildSpeaks, Sent
<1>6. CASE ChildWrites
  <2>1. PICK e \in Sent : toHost' = Append(toHost, e)
    BY <1>6 DEF ChildWrites, MayPut
  <2>2. toHost' \in Seq(Sent) /\ Len(toHost') = Len(toHost) + 1 /\ Len(toHost) < PipeCap
    BY <1>6, <2>1 DEF ChildWrites, MayPut
  <2> QED
    BY <1>6, <2>2 DEF ChildWrites
<1>7. ASSUME NEW c \in Callers, Begin(c) \/ CallStep(c) PROVE UNCHANGED child \/ Write(c)
  BY <1>7 DEF CallStep, Begin, Register, WriteBlocks, NotifyRefused, Receive, Expire, Forget, Fail
<1>8. ASSUME ReadLoop \/ ProcessInbound \/ StopStep
      PROVE UNCHANGED child \/ Scan \/ StopCloses \/ StopWaits
  BY <1>8 DEF ReadLoop, LookUp, Deliver, HandleNotification, ScanEnds, ReadLoopEnds,
              ProcessInbound, StopStep, StopAll, StopChecks, StopTakes, StopSends
<1> QED
  BY <1>1, <1>2, <1>3, <1>4, <1>5, <1>6, <1>7, <1>8, PluginSteps DEF ChildStep, pluginVars

LEMMA CallersTyped ==
    ASSUME PluginTypes, [PluginNext]_pluginVars PROVE CallerTypes'
<1> USE DEF CallerTypes, PluginTypes, Places
<1>1. CASE UNCHANGED locals
  BY <1>1 DEF locals
<1>2. ASSUME NEW c \in Callers, Begin(c) PROVE CallerTypes'
  BY <1>2 DEF Begin, Advance
<1>3. ASSUME NEW c \in Callers, Register(c) PROVE CallerTypes'
  <2>1. [id |-> FreshID, of |-> nextID + 1] \in Sent
    BY DEF Sent, Requests, FreshID, ProcTypes
  <2> QED
    BY <1>3, <2>1 DEF Register, Advance
<1>4. ASSUME NEW c \in Callers, WriteBlocks(c) \/ Write(c) \/ NotifyRefused(c) \/ Expire(c) \/ Fail(c)
      PROVE  CallerTypes'
  BY <1>4 DEF WriteBlocks, Write, NotifyRefused, Expire, Fail, Advance
<1>5. ASSUME NEW c \in Callers, Receive(c) PROVE CallerTypes'
  BY <1>5 DEF Receive, Advance, ProcTypes
<1>6. ASSUME NEW c \in Callers, Forget(c) PROVE CallerTypes'
  BY <1>6 DEF Forget, Advance, Sent
<1>7. CASE StopStep
  BY <1>1, <1>7 DEF StopStep, StopAll, StopChecks, StopCloses, StopWaits, StopTakes, StopSends,
                    Advance, locals, Callers
<1>8. CASE ReadLoop \/ ProcessInbound \/ Shutdown \/ ChildStep \/ UNCHANGED pluginVars
  BY <1>1, <1>8, LoopMoves, ChildMoves DEF Shutdown, pluginVars, locals
<1> QED
  BY <1>2, <1>3, <1>4, <1>5, <1>6, <1>7, <1>8, PluginSteps DEF CallStep

LEMMA ProcTyped ==
    ASSUME PluginTypes, [PluginNext]_pluginVars PROVE ProcTypes'
<1> USE DEF ProcTypes, PluginTypes
<1>1. CASE UNCHANGED <<proc, hand>>
  BY <1>1 DEF proc
<1>2. ASSUME NEW c \in Callers, Register(c) PROVE ProcTypes'
  <2>1. nextID' = nextID + 1 /\ (pending' = pending \/ pending' = pending \cup {nextID + 1})
    BY <1>2 DEF Register, FreshID
  <2>2. UNCHANGED <<up, mu, box, hand>>
    BY <1>2 DEF Register, Elsewhere, ending
  <2>0. nextID + 1 \in Nat /\ pending \subseteq Nat
    OBVIOUS
  <2>3. nextID' \in Nat /\ pending' \subseteq Nat
    BY <2>0, <2>1 
  <2> QED
    BY <2>2, <2>3
<1>3. ASSUME NEW c \in Callers, WriteBlocks(c) \/ Write(c) PROVE ProcTypes'
  BY <1>3 DEF WriteBlocks, Write, Elsewhere, ending
<1>4. ASSUME NEW c \in Callers, Receive(c) \/ Forget(c) PROVE ProcTypes'
  BY <1>4 DEF Receive, Forget, Elsewhere, ending
<1>5. ASSUME NEW c \in Callers, Begin(c) \/ NotifyRefused(c) \/ Expire(c) \/ Fail(c) PROVE ProcTypes'
  BY <1>1, <1>5 DEF Begin, NotifyRefused, Expire, Fail, Elsewhere, ending
<1>6. CASE Deliver
  <2>1. msg \in [id : Nat, of : {-1} \cup Nat]
    BY <1>6 DEF Deliver, LoopTypes, Sent, Requests
  <2> QED
    BY <1>6, <2>1 DEF Deliver, ending
<1>7. CASE ReadLoopEnds
  BY <1>7 DEF ReadLoopEnds, ending
<1>8. CASE Scan \/ LookUp \/ HandleNotification \/ ScanEnds \/ ProcessInbound \/ Shutdown
  BY <1>1, <1>8 DEF Scan, LookUp, HandleNotification, ScanEnds, ProcessInbound, Shutdown, ending
<1>9. CASE StopAll \/ StopChecks \/ StopCloses \/ StopWaits
  BY <1>9 DEF StopAll, StopChecks, StopCloses, StopWaits, proc
<1>10. CASE StopTakes
  BY <1>10 DEF StopTakes, Callers
<1>11. CASE StopSends
  BY <1>11 DEF StopSends
<1>12. CASE ChildStep \/ UNCHANGED pluginVars
  BY <1>1, <1>12, ChildMoves DEF pluginVars, proc, ending
<1> QED
  BY <1>2, <1>3, <1>4, <1>5, <1>6, <1>7, <1>8, <1>9, <1>10, <1>11, <1>12, PluginSteps
     DEF CallStep, ReadLoop, StopStep

LEMMA LoopTyped ==
    ASSUME PluginTypes, [PluginNext]_pluginVars PROVE LoopTypes'
<1> USE DEF LoopTypes, PluginTypes
<1>1. CASE UNCHANGED <<loop, stop, drained, ctx, bus, made>>
  BY <1>1 DEF loop
<1>2. ASSUME NEW c \in Callers, Begin(c) \/ Fail(c) PROVE LoopTypes'
  <2>1. CASE Begin(c)
    <3>1. made' \in 0..MaxCalls
      BY <2>1, PluginAssumption DEF Begin
    <3> QED
      BY <2>1, <3>1 DEF Begin, loop, ending
  <2>2. CASE Fail(c)
    BY <2>2 DEF Fail, loop
  <2> QED
    BY <1>2, <2>1, <2>2
<1>3. ASSUME NEW c \in Callers, CallStep(c), ~Fail(c) PROVE LoopTypes'
  BY <1>1, <1>3 DEF CallStep, Register, WriteBlocks, Write, NotifyRefused, Receive, Expire, Forget,
                    Elsewhere, ending
<1>4. CASE Scan
  <2>1. Head(toHost) \in Sent
    BY <1>4 DEF Scan, PipeTypes
  <2> QED
    BY <1>4, <2>1 DEF Scan, ending
<1>5. CASE LookUp \/ Deliver \/ ScanEnds \/ ReadLoopEnds
  BY <1>5 DEF LookUp, Deliver, ScanEnds, ReadLoopEnds, ending, Sent
<1>6. CASE HandleNotification \/ ProcessInbound
  BY <1>6, PluginAssumption DEF HandleNotification, ProcessInbound, loop, ending
<1>7. CASE Shutdown
  BY <1>7 DEF Shutdown, loop
<1>8. CASE StopStep
  BY <1>8 DEF StopStep, StopAll, StopChecks, StopCloses, StopWaits, StopTakes, StopSends, loop
<1>9. CASE ChildStep \/ UNCHANGED pluginVars
  BY <1>1, <1>9, ChildMoves DEF pluginVars, loop, ending
<1> QED
  BY <1>2, <1>3, <1>4, <1>5, <1>6, <1>7, <1>8, <1>9, PluginSteps DEF CallStep, ReadLoop

LEMMA PluginTypesNext ==
    ASSUME PluginTypes, [PluginNext]_pluginVars PROVE PluginTypes'
  BY PipesTyped, CallersTyped, ProcTyped, LoopTyped DEF PluginTypes
-----------------------------------------------------------------------------
\* What is on the way comes from a call that was not sent, or was on the way.
LEMMA Carried ==
    ASSUME PluginTypes, [PluginNext]_pluginVars
    PROVE  \/ InFlight' \subseteq InFlight
           \/ \E c \in Callers : /\ Unsent(c) /\ Write(c) /\ alive
                                /\ InFlight' \subseteq InFlight \cup {request[c]}
<1>t. toChild \in Seq(Sent) /\ toHost \in Seq(Sent) /\ request \in [Callers -> Sent] /\ NoMsg \in Sent
  BY DEF PluginTypes, PipeTypes, CallerTypes, Sent
<1>1. ASSUME UNCHANGED <<child, msg>>, {r \in box' : r.of > 0} \subseteq {r \in box : r.of > 0}
      PROVE  InFlight' \subseteq InFlight
  BY <1>1 DEF child, InFlight
<1>2. ASSUME NEW c \in Callers, Write(c), ~alive \/ noting[c] PROVE InFlight' \subseteq InFlight
  <2>1. toChild' = toChild \/ toChild' = Append(toChild, NoMsg)
    BY <1>2 DEF Write
  <2>2. In(toChild') \subseteq In(toChild) \cup {NoMsg}
    BY <1>t, <2>1, InAppend
  <2> QED
    BY <1>2, <2>2 DEF Write, Elsewhere, loop, InFlight
<1>3. ASSUME NEW c \in Callers, Write(c), alive, ~noting[c]
      PROVE  Unsent(c) /\ InFlight' \subseteq InFlight \cup {request[c]}
  <2>1. toChild' = Append(toChild, request[c])
    BY <1>3 DEF Write
  <2>2. In(toChild') = In(toChild) \cup {request[c]}
    BY <1>t, <2>1, InAppend
  <2> QED
    BY <1>3, <2>2 DEF Write, MayWrite, AtLock, Elsewhere, loop, InFlight, Unsent
<1>4. ASSUME NEW c \in Callers, Begin(c) \/ CallStep(c), ~Write(c) PROVE InFlight' \subseteq InFlight
  <2>1. UNCHANGED <<child, msg>> /\ box' \subseteq box
    BY <1>4 DEF CallStep, Begin, Register, WriteBlocks, NotifyRefused, Receive, Expire, Forget, Fail,
                Elsewhere, loop, proc
  <2>2. {r \in box' : r.of > 0} \subseteq {r \in box : r.of > 0}
    BY <2>1
  <2> QED
    BY <1>1, <2>1, <2>2
<1>5. CASE Scan
  <2>1. In(toHost') \subseteq In(toHost) /\ msg' \in In(toHost)
    BY <1>5, <1>t, InTail DEF Scan
  <2> QED
    BY <1>5, <2>1 DEF Scan, proc, InFlight
<1>6. CASE Deliver
  BY <1>6 DEF Deliver, child, InFlight
<1>7. CASE LookUp \/ HandleNotification \/ ScanEnds \/ ReadLoopEnds \/ ProcessInbound
  BY <1>1, <1>7 DEF LookUp, HandleNotification, ScanEnds, ReadLoopEnds, ProcessInbound, proc, loop
<1>8. CASE Shutdown \/ StopCloses \/ ChildExits
  BY <1>8, InEmpty DEF Shutdown, StopCloses, ChildExits, Dies, Parent, proc, loop, InFlight
<1>9. CASE StopWaits
  BY <1>9, InEmpty DEF StopWaits, proc, loop, InFlight
<1>10. CASE StopAll \/ StopChecks \/ StopTakes
  BY <1>1, <1>10 DEF StopAll, StopChecks, StopTakes, proc, loop
<1>11. CASE StopSends
  <2>1. {r \in box' : r.of > 0} \subseteq {r \in box : r.of > 0}
    BY <1>11 DEF StopSends
  <2> QED
    BY <1>1, <1>11, <2>1 DEF StopSends, loop
<1>12. CASE ChildReads
  <2>1. In(toChild') \subseteq In(toChild) /\ Head(toChild) \in In(toChild)
    BY <1>12, <1>t, InTail DEF ChildReads, MayRead
  <2> QED
    BY <1>12, <2>1 DEF ChildReads, Parent, proc, loop, InFlight
<1>13. CASE ChildAnswers \/ ChildSpeaks
  BY <1>13 DEF ChildAnswers, ChildSpeaks, Parent, proc, loop, InFlight
<1>14. CASE ChildWrites
  <2>1. PICK e \in writing : toHost' = Append(toHost, e)
    BY <1>14 DEF ChildWrites, MayPut
  <2>2. In(toHost') = In(toHost) \cup {e}
    BY <1>t, <2>1, InAppend DEF PluginTypes, PipeTypes
  <2> QED
    BY <1>14, <2>2 DEF ChildWrites, Parent, proc, loop, InFlight
<1>15. CASE UNCHANGED pluginVars
  BY <1>1, <1>15 DEF pluginVars, proc, loop
<1> QED
  BY <1>2, <1>3, <1>4, <1>5, <1>6, <1>7, <1>8, <1>9, <1>10, <1>11, <1>12, <1>13, <1>14, <1>15,
     PluginSteps DEF CallStep, ReadLoop, StopStep, ChildStep

\* What becomes of the answers in the channels and of the table.
LEMMA BoxMoves ==
    ASSUME PluginTypes, [PluginNext]_pluginVars
    PROVE  /\ \A r \in box' : \/ r \in box
                              \/ Deliver /\ r = msg /\ msg # NoMsg /\ msg.id \in pending
                              \/ StopSends /\ r = [id |-> hand, of |-> -1]
           /\ \/ nextID' = nextID /\ pending' \subseteq pending
              \/ \E c \in Callers : Register(c) /\ up /\ nextID' = nextID + 1
                                   /\ pending' = pending \cup {nextID'}
              \/ nextID' = nextID + 1 /\ ~up /\ pending' = pending
<1>1. ASSUME NEW c \in Callers, Register(c)
      PROVE  box' = box /\ nextID' = nextID + 1
             /\ \/ up /\ pending' = pending \cup {nextID'}
                \/ ~up /\ pending' = pending
  BY <1>1 DEF Register, FreshID
<1>2. ASSUME NEW c \in Callers, Begin(c) \/ CallStep(c), ~Register(c)
      PROVE  box' \subseteq box /\ nextID' = nextID /\ pending' \subseteq pending
  BY <1>2 DEF CallStep, Begin, WriteBlocks, Write, NotifyRefused, Receive, Expire, Forget, Fail, proc
<1>3. CASE Deliver
  BY <1>3 DEF Deliver, PluginTypes, LoopTypes
<1>4. CASE StopSends
  BY <1>4 DEF StopSends
<1>5. CASE ~Deliver /\ (ReadLoop \/ ProcessInbound)
  BY <1>5 DEF ReadLoop, Scan, LookUp, HandleNotification, ScanEnds, ReadLoopEnds, ProcessInbound, proc
<1>6. CASE Shutdown \/ (StopStep /\ ~StopSends)
  BY <1>6 DEF Shutdown, StopStep, StopAll, StopChecks, StopCloses, StopWaits, StopTakes, proc
<1>7. CASE ChildStep \/ UNCHANGED pluginVars
  BY <1>7, ChildMoves DEF pluginVars, proc
<1> QED
  BY <1>1, <1>2, <1>3, <1>4, <1>5, <1>6, <1>7, PluginSteps

LEMMA FlightTypes == ASSUME PluginTypes PROVE InFlight \subseteq [id : Nat, of : Nat]
<1>1. In(toChild) \subseteq Sent /\ In(toHost) \subseteq Sent
  BY InSeq DEF PluginTypes, PipeTypes
<1>2. asked \subseteq Sent /\ writing \subseteq Sent /\ msg \in Sent
  BY DEF PluginTypes, PipeTypes, LoopTypes, Sent
<1>3. \A r \in box : r.of > 0 => r \in [id : Nat, of : Nat]
  BY DEF PluginTypes, ProcTypes
<1>4. Requests \subseteq [id : Nat, of : Nat]
  BY DEF Requests
<1> QED
  BY <1>1, <1>2, <1>3, <1>4 DEF InFlight, Sent

LEMMA NumberedNext ==
    ASSUME PluginTypes, Numbered, Tracked, Locked, [PluginNext]_pluginVars PROVE Numbered'
<1>t. nextID \in Nat /\ nextID' \in Nat /\ nextID' >= nextID
  BY BoxMoves DEF PluginTypes, ProcTypes
<1>i. InFlight \subseteq [id : Nat, of : Nat] /\ pending \subseteq Nat
  BY FlightTypes DEF PluginTypes, ProcTypes
<1>1. \A r \in InFlight' : r.id = r.of /\ r.id <= nextID'
  <2>1. \A r \in InFlight : r.id = r.of /\ r.id <= nextID'
    BY <1>t, <1>i DEF Numbered, Requests
  <2>2. ASSUME NEW c \in Callers, Unsent(c)
        PROVE  request[c].id = request[c].of /\ request[c].id <= nextID'
    <3>1. request[c] \in Requests /\ request[c].id = request[c].of /\ request[c].id <= nextID
      BY <2>2 DEF Unsent, Calling, Tracked, PluginTypes, CallerTypes, Sent
    <3> QED
      BY <1>t, <3>1 DEF Requests
  <2> QED
    BY <2>1, <2>2, Carried
<1>2. ASSUME NEW r \in box' PROVE r.id <= nextID' /\ r.of # 0
  <2>1. CASE r \in box
    BY <1>t, <2>1 DEF Numbered, PluginTypes, ProcTypes
  <2>2. CASE r = msg /\ msg # NoMsg
    <3>1. msg \in InFlight /\ msg \in Requests
      BY <2>2 DEF InFlight, PluginTypes, LoopTypes, Sent
    <3> QED
      BY <1>t, <2>2, <3>1 DEF Numbered, Requests
  <2>3. CASE StopSends /\ r = [id |-> hand, of |-> -1]
    <3>1. hand \in Nat /\ hand <= nextID
      BY <2>3 DEF StopSends, Locked, Numbered, PluginTypes, ProcTypes
    <3> QED
      BY <1>t, <2>3, <3>1
  <2> QED
    BY <2>1, <2>2, <2>3, BoxMoves
<1>3. \A i \in pending' : i <= nextID'
  <2>1. \A i \in pending : i \in Nat /\ i <= nextID
    BY <1>i DEF Numbered
  <2>2. pending' \subseteq pending \cup {nextID'}
    BY BoxMoves
  <2> QED
    BY <1>t, <2>1, <2>2
<1> QED
  BY <1>1, <1>2, <1>3 DEF Numbered

\* A step of c leaves the other callers where they are.
LEMMA OthersStay ==
    ASSUME PluginTypes, NEW c \in Callers, Begin(c) \/ CallStep(c), NEW d \in Callers, d # c
    PROVE  where'[d] = where[d] /\ request'[d] = request[d] /\ noting'[d] = noting[d]
           /\ got'[d] = got[d]
  BY DEF PluginTypes, CallerTypes, CallStep, Begin, Register, WriteBlocks, Write, NotifyRefused,
         Receive, Expire, Forget, Fail, Advance

\* readLoop, the plugin and Stop leave all of them, but for the call that Stop makes.
LEMMA LocalsStay ==
    ASSUME PluginTypes, ReadLoop \/ ProcessInbound \/ Shutdown \/ StopStep \/ ChildStep
                        \/ UNCHANGED pluginVars
    PROVE  /\ UNCHANGED <<request, noting, got>>
           /\ \/ where' = where
              \/ StopChecks /\ where' = [where EXCEPT !["stop"] = "register"]
<1>1. CASE StopChecks
  BY <1>1 DEF StopChecks, Advance
<1>2. CASE StopStep /\ ~StopChecks
  BY <1>2 DEF StopStep, StopAll, StopCloses, StopWaits, StopTakes, StopSends, locals
<1>3. CASE ReadLoop \/ ProcessInbound \/ Shutdown \/ ChildStep \/ UNCHANGED pluginVars
  BY <1>3, LoopMoves, ChildMoves DEF Shutdown, pluginVars, locals
<1> QED
  BY <1>1, <1>2, <1>3 DEF StopStep

Fresh(c) == /\ Register(c) /\ up /\ where'[c] = "write" /\ ~noting'[c]
            /\ request'[c] = [id |-> nextID + 1, of |-> nextID + 1]

\* A call begins at its registration, is sent, and ends when it is forgotten.
LEMMA CallingMoves ==
    ASSUME PluginTypes, Tracked, Stopped, [PluginNext]_pluginVars, NEW c \in Callers
    PROVE  /\ Calling(c)' => \/ Fresh(c)
                             \/ /\ Calling(c) /\ request'[c] = request[c]
                                /\ Unsent(c)' => Unsent(c) /\ ~Write(c)
                                /\ where'[c] # "drop" => where[c] # "drop" /\ ~Receive(c)
                                /\ ~Forget(c)
           /\ Calling(c) /\ ~Calling(c)' => Forget(c)
<1> USE DEF Calling, Unsent
<1>t. where \in [Callers -> Places] /\ request \in [Callers -> Sent]
      /\ noting \in [Callers -> BOOLEAN]
  BY DEF PluginTypes, CallerTypes
<1>1. CASE Begin(c)
  BY <1>1, <1>t DEF Begin, Advance, Forget, Receive, AtLock, Write, MayWrite
<1>2. CASE Register(c)
  <2>1. ~noting[c] /\ noting' = noting /\ where[c] = "register"
    BY <1>2 DEF Tracked, Register, AtLock
  <2>2. CASE up
    BY <1>2, <1>t, <2>1, <2>2 DEF Register, Advance, Fresh, FreshID
  <2>3. CASE ~up
    BY <1>2, <1>t, <2>1, <2>3 DEF Register, Advance
  <2> QED
    BY <2>2, <2>3
<1>3. CASE WriteBlocks(c)
  BY <1>3, <1>t DEF WriteBlocks, MayWrite, AtLock, Advance, Forget, Receive, Write, HasRoom
<1>4. CASE Write(c)
  BY <1>4, <1>t DEF Write, MayWrite, AtLock, Advance, Forget, Receive
<1>5. CASE NotifyRefused(c)
  BY <1>5, <1>t DEF NotifyRefused, AtLock, Advance
<1>6. CASE Receive(c) \/ Expire(c)
  BY <1>6, <1>t DEF Receive, Expire, Advance, Forget, AtLock
<1>7. CASE Forget(c)
  BY <1>7, <1>t DEF Forget, Advance, AtLock
<1>8. CASE Fail(c)
  BY <1>8, <1>t DEF Fail, Advance
<1>9. ASSUME NEW d \in Callers, d # c, Begin(d) \/ CallStep(d)
      PROVE  /\ Calling(c)' <=> Calling(c)
             /\ where'[c] = where[c] /\ request'[c] = request[c] /\ noting'[c] = noting[c]
  BY <1>9, OthersStay
<1>10. ASSUME ReadLoop \/ ProcessInbound \/ Shutdown \/ StopStep \/ ChildStep
              \/ UNCHANGED pluginVars
       PROVE  /\ request'[c] = request[c] /\ noting'[c] = noting[c]
              /\ where'[c] = where[c] \/ (where'[c] = "register" /\ where[c] = "idle")
  <2>1. UNCHANGED <<request, noting, got>>
    BY <1>10, LocalsStay
  <2>2. where' = where \/ (StopChecks /\ where' = [where EXCEPT !["stop"] = "register"])
    BY <1>10, LocalsStay
  <2>3. StopChecks => where["stop"] = "idle"
    BY DEF StopChecks, Stopped
  <2> QED
    BY <1>t, <2>1, <2>2, <2>3
<1>11. ASSUME where'[c] = where[c] PROVE ~Write(c) /\ ~Receive(c) /\ ~Forget(c)
  BY <1>11, <1>t DEF Write, MayWrite, Receive, Forget, AtLock, Advance
<1> QED
  BY <1>1, <1>2, <1>3, <1>4, <1>5, <1>6, <1>7, <1>8, <1>9, <1>10, <1>11, PluginSteps
     DEF CallStep

\* What leaves the table and the channels.
LEMMA EntriesLeave ==
    ASSUME PluginTypes, [PluginNext]_pluginVars
    PROVE  /\ \A i \in pending : \/ i \in pending'
                                 \/ StopSends /\ i = hand
                                 \/ \E c \in Callers : Forget(c) /\ i = request[c].id
           /\ \A r \in box : \/ r \in box'
                             \/ \E c \in Callers : (Receive(c) \/ Forget(c)) /\ r.id = request[c].id
<1>1. ASSUME NEW c \in Callers, Forget(c)
      PROVE  /\ pending' = pending \ {request[c].id}
             /\ \A r \in box : r \in box' \/ r.id = request[c].id
  BY <1>1 DEF Forget
<1>2. ASSUME NEW c \in Callers, Receive(c)
      PROVE  pending' = pending /\ \A r \in box : r \in box' \/ r.id = request[c].id
  BY <1>2 DEF Receive
<1>3. ASSUME NEW c \in Callers, Register(c) PROVE pending \subseteq pending' /\ box' = box
  BY <1>3 DEF Register
<1>4. ASSUME NEW c \in Callers,
             Begin(c) \/ WriteBlocks(c) \/ Write(c) \/ NotifyRefused(c) \/ Expire(c) \/ Fail(c)
      PROVE  pending' = pending /\ box' = box
  BY <1>4 DEF Begin, WriteBlocks, Write, NotifyRefused, Expire, Fail, proc
<1>5. CASE StopSends
  BY <1>5 DEF StopSends
<1>6. CASE StopStep /\ ~StopSends
  BY <1>6 DEF StopStep, StopAll, StopChecks, StopCloses, StopWaits, StopTakes, proc
<1>7. CASE ReadLoop \/ ProcessInbound \/ Shutdown \/ ChildStep \/ UNCHANGED pluginVars
  BY <1>7, LoopMoves, ChildMoves DEF Shutdown, pluginVars, proc
<1> QED
  BY <1>1, <1>2, <1>3, <1>4, <1>5, <1>6, <1>7, PluginSteps DEF CallStep

\* A fresh id is above the others.
LEMMA FreshIsNew ==
    ASSUME PluginTypes, Numbered, Tracked, NEW c \in Callers, Fresh(c)
    PROVE  /\ request'[c].id = nextID + 1 /\ nextID' = nextID + 1
           /\ pending' = pending \cup {nextID + 1} /\ box' = box
           /\ nextID + 1 \notin pending /\ \A r \in box : r.id # nextID + 1
           /\ \A r \in InFlight : r.id # nextID + 1
           /\ \A d \in Callers : Calling(d) => request[d].id # nextID + 1
           /\ \A d \in Callers : Fresh(d) => d = c
<1>1. nextID \in Nat /\ pending \subseteq Nat /\ \A r \in box : r.id \in Nat
  BY DEF PluginTypes, ProcTypes
<1>2. \A r \in InFlight : r.id \in Nat
  BY FlightTypes
<1>3. \A d \in Callers : Calling(d) => request[d].id \in Nat /\ request[d].id <= nextID
  BY DEF Tracked, PluginTypes, CallerTypes, Sent, Requests
<1>4. request'[c].id = nextID + 1 /\ nextID' = nextID + 1 /\ box' = box
      /\ pending' = pending \cup {nextID + 1}
  BY DEF Fresh, Register, FreshID
<1>5. ASSUME NEW d \in Callers, Fresh(d), d # c PROVE FALSE
  <2>1. where[d] = "register" /\ where'[d] = "write"
    BY <1>5 DEF Fresh, Register, AtLock
  <2>2. where'[d] = where[d]
    BY <1>5, OthersStay DEF Fresh, CallStep
  <2> QED
    BY <2>1, <2>2
<1> QED
  BY <1>1, <1>2, <1>3, <1>4, <1>5 DEF Numbered

\* An answer is received, and forgotten.
LEMMA GotMoves ==
    ASSUME PluginTypes, Tracked, Numbered, Stopped, [PluginNext]_pluginVars, NEW c \in Callers
    PROVE  got'[c] # 0 => /\ where'[c] = "drop"
                          /\ got'[c] > 0 => got'[c] = request'[c].of
<1>t. where \in [Callers -> Places] /\ request \in [Callers -> Sent] /\ got \in [Callers -> Int]
  BY DEF PluginTypes, CallerTypes
<1>1. CASE Receive(c)
  <2>1. PICK r \in box : r.id = request[c].id /\ got' = [got EXCEPT ![c] = r.of]
    BY <1>1 DEF Receive
  <2>2. where[c] = "wait" /\ where'[c] = "drop" /\ request'[c] = request[c]
    BY <1>1, <1>t DEF Receive, Advance
  <2>3. Calling(c) /\ request[c].id = request[c].of
    BY <2>2 DEF Calling, Tracked
  <2>4. ASSUME r.of > 0 PROVE r.id = r.of
    <3>1. r # NoMsg
      BY <2>4, PluginAssumption DEF PluginTypes, ProcTypes
    <3> QED
      BY <2>4, <3>1 DEF Numbered, InFlight
  <2> QED
    BY <1>t, <2>1, <2>2, <2>3, <2>4
<1>2. CASE Forget(c)
  BY <1>2, <1>t DEF Forget
<1>3. CASE Begin(c) \/ Register(c) \/ WriteBlocks(c) \/ Write(c) \/ NotifyRefused(c) \/ Expire(c)
           \/ Fail(c)
  <2>1. got' = got
    BY <1>3 DEF Begin, Register, WriteBlocks, Write, NotifyRefused, Expire, Fail
  <2>2. where[c] # "drop"
    BY <1>3 DEF Begin, Register, WriteBlocks, Write, NotifyRefused, Expire, Fail, MayWrite, AtLock
  <2> QED
    BY <2>1, <2>2 DEF Tracked
<1>4. ASSUME NEW d \in Callers, d # c, Begin(d) \/ CallStep(d)
      PROVE  got'[c] = got[c] /\ where'[c] = where[c] /\ request'[c] = request[c]
  BY <1>4, OthersStay
<1>5. CASE ReadLoop \/ ProcessInbound \/ Shutdown \/ StopStep \/ ChildStep \/ UNCHANGED pluginVars
  <2>1. UNCHANGED <<request, noting, got>>
    BY <1>5, LocalsStay
  <2>2. where' = where \/ (StopChecks /\ where' = [where EXCEPT !["stop"] = "register"])
    BY <1>5, LocalsStay
  <2>3. StopChecks => where["stop"] = "idle"
    BY DEF StopChecks, Stopped
  <2>4. where'[c] = where[c] \/ where[c] = "idle"
    BY <1>t, <2>2, <2>3
  <2> QED
    BY <2>1, <2>4 DEF Tracked
<1> QED
  BY <1>1, <1>2, <1>3, <1>4, <1>5, PluginSteps DEF CallStep, Tracked

\* Only a hook notifies.
LEMMA NotingMoves ==
    ASSUME PluginTypes, Tracked, Stopped, [PluginNext]_pluginVars, NEW c \in Callers
    PROVE  noting'[c] => c \in Hooks /\ where'[c] \in {"idle", "write", "blocked"}
<1>t. where \in [Callers -> Places] /\ noting \in [Callers -> BOOLEAN]
  BY DEF PluginTypes, CallerTypes
<1>1. CASE Begin(c)
  BY <1>1, <1>t DEF Begin, Advance, Tracked
<1>2. CASE WriteBlocks(c) \/ Write(c) \/ NotifyRefused(c) \/ Fail(c)
  BY <1>2, <1>t DEF WriteBlocks, Write, NotifyRefused, Fail, Advance, Tracked
<1>3. CASE Register(c) \/ Receive(c) \/ Expire(c) \/ Forget(c)
  BY <1>3, <1>t DEF Register, Receive, Expire, Forget, AtLock, Advance, Tracked
<1>4. ASSUME NEW d \in Callers, d # c, Begin(d) \/ CallStep(d)
      PROVE  noting'[c] = noting[c] /\ where'[c] = where[c]
  BY <1>4, OthersStay
<1>5. CASE ReadLoop \/ ProcessInbound \/ Shutdown \/ StopStep \/ ChildStep \/ UNCHANGED pluginVars
  <2>1. UNCHANGED <<request, noting, got>>
    BY <1>5, LocalsStay
  <2>2. where' = where \/ (StopChecks /\ where' = [where EXCEPT !["stop"] = "register"])
    BY <1>5, LocalsStay
  <2>3. "stop" \notin Hooks
    BY PluginAssumption
  <2>4. where'[c] = where[c] \/ c = "stop"
    BY <1>t, <2>2
  <2> QED
    BY <2>1, <2>3, <2>4 DEF Tracked
<1> QED
  BY <1>1, <1>2, <1>3, <1>4, <1>5, PluginSteps DEF CallStep, Tracked

LEMMA TrackedNext ==
    ASSUME PluginTypes, Numbered, Tracked, Stopped, [PluginNext]_pluginVars PROVE Tracked'
<1>t. nextID \in Nat /\ nextID' \in Nat /\ nextID' >= nextID /\ request \in [Callers -> Sent]
  BY BoxMoves DEF PluginTypes, ProcTypes, CallerTypes
<1>1. ASSUME NEW c \in Callers, Calling(c)'
      PROVE  request'[c] # NoMsg /\ request'[c].id = request'[c].of /\ request'[c].id <= nextID'
  <2>1. CASE Fresh(c)
    <3>1. request'[c] = [id |-> nextID + 1, of |-> nextID + 1] /\ nextID' = nextID + 1
      BY <2>1, FreshIsNew DEF Fresh
    <3>2. request'[c] # NoMsg
      BY <3>1, <1>t, PluginAssumption
    <3> QED
      BY <1>t, <3>1, <3>2
  <2>2. CASE Calling(c) /\ request'[c] = request[c]
    <3>1. request[c] \in Requests /\ request[c].id = request[c].of /\ request[c].id <= nextID
      BY <1>t, <2>2 DEF Tracked, Sent
    <3>2. request[c] # NoMsg
      BY <2>2 DEF Tracked
    <3> QED
      BY <1>t, <2>2, <3>1, <3>2 DEF Requests
  <2> QED
    BY <1>1, <2>1, <2>2, CallingMoves
<1>2. ASSUME NEW c \in Callers, NEW d \in Callers, Calling(c)', Calling(d)',
             request'[c].id = request'[d].id
      PROVE  c = d
  <2>1. CASE Fresh(c)
    <3>1. CASE Fresh(d)
      BY <2>1, <3>1, FreshIsNew
    <3>2. CASE ~Fresh(d)
      BY <1>2, <2>1, <3>2, FreshIsNew, CallingMoves
    <3> QED
      BY <3>1, <3>2
  <2>2. CASE Fresh(d) /\ ~Fresh(c)
    BY <1>2, <2>2, FreshIsNew, CallingMoves
  <2>3. CASE ~Fresh(c) /\ ~Fresh(d)
    <3>1. Calling(c) /\ Calling(d) /\ request'[c] = request[c] /\ request'[d] = request[d]
      BY <1>2, <2>3, CallingMoves
    <3> QED
      BY <1>2, <3>1 DEF Tracked
  <2> QED
    BY <2>1, <2>2, <2>3
<1> QED
  BY <1>1, <1>2, GotMoves, NotingMoves DEF Tracked

LEMMA OwedNext ==
    ASSUME PluginTypes, Numbered, Tracked, Owed, Stopped, [PluginNext]_pluginVars PROVE Owed'
<1> SUFFICES ASSUME NEW c \in Callers, Calling(c)', where'[c] # "drop"
             PROVE  request'[c].id \in pending' \/ Full(request[c].id)'
  BY DEF Owed
<1>1. CASE Fresh(c)
  BY <1>1, FreshIsNew
<1>2. CASE ~Fresh(c)
  <2>1. /\ Calling(c) /\ request'[c] = request[c] /\ where[c] # "drop"
        /\ ~Receive(c) /\ ~Forget(c)
    BY <1>2, CallingMoves
  <2>2. ASSUME NEW d \in Callers, Receive(d) \/ Forget(d) PROVE request[d].id # request[c].id
    <3>1. Calling(d)
      BY <2>2 DEF Receive, Forget, AtLock, Calling, Tracked
    <3> QED
      BY <2>1, <2>2, <3>1 DEF Tracked
  <2>3. CASE request[c].id \in pending
    <3>1. CASE StopSends /\ request[c].id = hand
      <4>1. [id |-> hand, of |-> -1] \in box'
        BY <3>1 DEF StopSends
      <4> QED
        BY <2>1, <3>1, <4>1 DEF Full
    <3>2. CASE ~(StopSends /\ request[c].id = hand)
      BY <2>1, <2>2, <2>3, <3>2, EntriesLeave
    <3> QED
      BY <3>1, <3>2
  <2>4. CASE Full(request[c].id)
    <3>1. PICK r \in box : r.id = request[c].id
      BY <2>4 DEF Full
    <3>2. r \in box'
      BY <2>2, <3>1, EntriesLeave
    <3> QED
      BY <2>1, <3>1, <3>2 DEF Full
  <2> QED
    BY <2>1, <2>3, <2>4 DEF Owed
<1> QED
  BY <1>1, <1>2

LEMMA KnownNext ==
    ASSUME PluginTypes, Numbered, Tracked, Known, Stopped, [PluginNext]_pluginVars PROVE Known'
<1> SUFFICES ASSUME NEW i \in pending'
             PROVE  \E c \in Callers : Calling(c)' /\ request'[c].id = i
  BY DEF Known
<1>1. ASSUME NEW c \in Callers, Fresh(c), i = nextID + 1 PROVE Calling(c)' /\ request'[c].id = i
  BY <1>1, FreshIsNew DEF Fresh, Calling
<1>2. CASE i \in pending
  <2>1. PICK c \in Callers : Calling(c) /\ request[c].id = i
    BY <1>2 DEF Known
  <2>2. ~Forget(c)
    BY <2>1 DEF Forget
  <2>3. Calling(c)'
    BY <2>1, <2>2, CallingMoves
  <2>4. CASE Fresh(c)
    BY <2>1, <2>4 DEF Fresh, Register, AtLock, Calling
  <2>5. CASE ~Fresh(c)
    BY <2>1, <2>3, <2>5, CallingMoves
  <2> QED
    BY <2>3, <2>4, <2>5
<1>3. CASE i \notin pending
  <2>1. PICK c \in Callers : Register(c) /\ up /\ nextID' = nextID + 1 /\ pending' = pending \cup {nextID'}
    BY <1>3, BoxMoves
  <2>2. i = nextID + 1
    BY <1>3, <2>1
  <2>3. ~noting[c] /\ where[c] = "register"
    BY <2>1 DEF Register, AtLock, Tracked
  <2>4. Fresh(c)
    BY <2>1, <2>3 DEF Register, Advance, Fresh, FreshID, PluginTypes, CallerTypes
  <2> QED
    BY <1>1, <2>2, <2>4
<1> QED
  BY <1>2, <1>3

LEMMA NotYetNext ==
    ASSUME PluginTypes, Numbered, Tracked, NotYet, Stopped, [PluginNext]_pluginVars PROVE NotYet'
<1> SUFFICES ASSUME NEW c \in Callers, Unsent(c)'
             PROVE  /\ \A r \in InFlight' : r.id # request'[c].id
                    /\ Full(request[c].id)' => request'[c].id \notin pending'
  BY DEF NotYet
<1>0. Calling(c)'
  BY DEF Unsent, Calling
<1>1. CASE Fresh(c)
  <2>1. InFlight' \subseteq InFlight
    <3>1. ASSUME NEW d \in Callers, Write(d) PROVE FALSE
      <4>1. d = c \/ where'[d] = where[d]
        BY <1>1, OthersStay DEF Fresh, CallStep
      <4> QED
        BY <1>1, <3>1, <4>1 DEF Fresh, Register, Write, MayWrite, AtLock, Advance, PluginTypes,
                                CallerTypes
    <3> QED
      BY <3>1, Carried
  <2> QED
    BY <1>1, <2>1, FreshIsNew DEF Full
<1>2. CASE ~Fresh(c)
  <2>1. Calling(c) /\ Unsent(c) /\ ~Write(c) /\ request'[c] = request[c]
    BY <1>0, <1>2, CallingMoves
  <2>2. \A r \in InFlight : r.id # request[c].id
    BY <2>1 DEF NotYet
  <2>3. ASSUME NEW d \in Callers, Unsent(d), Write(d) PROVE request[d].id # request[c].id
    <3>1. Calling(d) /\ d # c
      BY <2>1, <2>3 DEF Unsent, Calling
    <3> QED
      BY <2>1, <3>1 DEF Tracked
  <2>4. \A r \in InFlight' : r.id # request[c].id
    BY <2>2, <2>3, Carried
  <2>5. ASSUME NEW r \in box', r.id = request[c].id, request[c].id \in pending' PROVE FALSE
    <3>1. request[c].id \in pending
      <4>1. nextID \in Nat /\ request[c].id \in Nat /\ request[c].id <= nextID
        BY <2>1 DEF Tracked, PluginTypes, CallerTypes, ProcTypes, Sent, Requests
      <4>2. request[c].id # nextID + 1
        BY <4>1
      <4> QED
        BY <2>5, <4>2, BoxMoves
    <3>2. CASE r \in box
      BY <2>1, <2>5, <3>1, <3>2 DEF NotYet, Full
    <3>3. CASE r = msg /\ msg # NoMsg
      BY <2>2, <2>5, <3>3 DEF InFlight
    <3>4. CASE StopSends /\ r = [id |-> hand, of |-> -1]
      BY <2>5, <3>4 DEF StopSends
    <3> QED
      BY <2>5, <3>2, <3>3, <3>4, BoxMoves
  <2> QED
    BY <2>1, <2>4, <2>5 DEF Full
<1> QED
  BY <1>1, <1>2

LEMMA LockedNext ==
    ASSUME PluginTypes, Locked, Stopped, [PluginNext]_pluginVars PROVE Locked'
<1>t. where \in [Callers -> Places] /\ mu \in Callers \cup {NoCaller}
  BY DEF PluginTypes, CallerTypes, ProcTypes
<1>n. NoCaller \notin Callers
  BY PluginAssumption DEF Callers
<1>l. stop = "send" => mu = "stop" /\ mu # NoCaller
  BY <1>n DEF Locked, Callers
<1>f. Free => \A c \in Callers : where[c] # "blocked"
  BY <1>n DEF Free, Locked
<1>s. where["stop"] = "blocked" => stop = "call"
  BY DEF Stopped
<1>1. ASSUME NEW c \in Callers, Begin(c) PROVE Locked'
  <2>1. where[c] = "idle" /\ where'[c] \in {"register", "write"} /\ UNCHANGED <<mu, pending, stop, hand>>
    BY <1>1, <1>t DEF Begin, Advance, proc, ending
  <2>2. \A d \in Callers : d # c => where'[d] = where[d]
    BY <1>1, OthersStay
  <2> QED
    BY <1>t, <2>1, <2>2 DEF Locked
<1>2. ASSUME NEW c \in Callers, Register(c) \/ NotifyRefused(c) \/ Forget(c) PROVE Locked'
  <2>1. Free /\ mu' = mu /\ stop' = stop /\ where'[c] # "blocked"
    BY <1>2, <1>t DEF Register, NotifyRefused, Forget, AtLock, Advance, proc, Elsewhere, ending
  <2>2. \A d \in Callers : d # c => where'[d] = where[d]
    BY <1>2, OthersStay DEF CallStep
  <2> QED
    BY <1>f, <1>l, <2>1, <2>2 DEF Locked, Free
<1>3. ASSUME NEW c \in Callers, WriteBlocks(c) PROVE Locked'
  <2>1. Free /\ mu' = c /\ stop' = stop /\ where'[c] = "blocked"
    BY <1>3, <1>t DEF WriteBlocks, MayWrite, AtLock, Advance, Elsewhere, ending
  <2>2. \A d \in Callers : d # c => where'[d] = where[d]
    BY <1>3, OthersStay DEF CallStep
  <2> QED
    BY <1>f, <1>l, <2>1, <2>2 DEF Locked, Free
<1>4. ASSUME NEW c \in Callers, Write(c) PROVE Locked'
  <2>1. mu' = NoCaller /\ stop' = stop /\ where'[c] # "blocked"
    BY <1>4, <1>t DEF Write, Advance, Elsewhere, ending
  <2>2. \A d \in Callers : d # c => where'[d] = where[d]
    BY <1>4, OthersStay DEF CallStep
  <2>3. Free \/ (where[c] = "blocked" /\ mu = c)
    BY <1>4 DEF Write, MayWrite, AtLock, Locked
  <2>4. \A d \in Callers : where'[d] # "blocked"
    BY <1>f, <2>1, <2>2, <2>3 DEF Locked
  <2>5. stop # "send"
    BY <1>l, <1>s, <2>3 DEF Free
  <2> QED
    BY <2>1, <2>4, <2>5 DEF Locked
<1>5. ASSUME NEW c \in Callers, Receive(c) \/ Expire(c) PROVE Locked'
  <2>1. where[c] = "wait" /\ where'[c] = "drop" /\ UNCHANGED <<mu, pending, stop, hand>>
    BY <1>5, <1>t DEF Receive, Expire, Advance, proc, Elsewhere, ending
  <2>2. \A d \in Callers : d # c => where'[d] = where[d]
    BY <1>5, OthersStay DEF CallStep
  <2> QED
    BY <1>t, <2>1, <2>2 DEF Locked
<1>6. ASSUME NEW c \in Callers, Fail(c) PROVE Locked'
  <2>1. where[c] = "failed" /\ where'[c] = "idle" /\ UNCHANGED <<mu, pending, hand>>
    BY <1>6, <1>t DEF Fail, Advance, proc
  <2>2. \A d \in Callers : d # c => where'[d] = where[d]
    BY <1>6, OthersStay DEF CallStep
  <2>3. stop' = stop \/ (stop = "idle" /\ stop' = "check")
    BY <1>6, <2>1 DEF Fail, Stopped
  <2> QED
    BY <1>t, <2>1, <2>2, <2>3 DEF Locked
<1>7. ASSUME UNCHANGED <<mu, pending, stop, hand, where>> PROVE Locked'
  BY <1>7 DEF Locked
<1>8. CASE ReadLoop \/ ProcessInbound \/ Shutdown \/ ChildStep \/ UNCHANGED pluginVars
  BY <1>7, <1>8, LoopMoves, ChildMoves DEF Shutdown, pluginVars, proc, locals, ending
<1>9. CASE StopAll \/ StopWaits
  BY <1>9 DEF StopAll, Due, StopWaits, Locked, proc, locals
<1>10. CASE StopChecks
  <2>1. Free /\ mu' = mu /\ stop' # "send" /\ \A d \in Callers : where'[d] # "blocked"
    BY <1>10, <1>t, <1>f DEF StopChecks, Advance, proc, Callers
  <2> QED
    BY <2>1 DEF Locked, Free
<1>11. CASE StopCloses
  <2>1. Free /\ mu' = mu /\ stop' # "send" /\ where' = where
    BY <1>11 DEF StopCloses, AtLock, locals
  <2> QED
    BY <1>f, <2>1 DEF Locked, Free
<1>12. CASE StopTakes
  <2>1. \A c \in Callers : where[c] # "blocked"
    BY <1>12, <1>n, <1>s DEF StopTakes, Locked
  <2> QED
    BY <1>12, <2>1 DEF StopTakes, Locked, locals
<1>13. CASE StopSends
  BY <1>13 DEF StopSends, Locked, locals
<1> QED
  BY <1>1, <1>2, <1>3, <1>4, <1>5, <1>6, <1>8, <1>9, <1>10, <1>11, <1>12, <1>13, PluginSteps
     DEF CallStep, StopStep

LEMMA StoppedNext ==
    ASSUME PluginTypes, Stopped, [PluginNext]_pluginVars PROVE Stopped'
<1>t. where \in [Callers -> Places] /\ {"boot", "out", "stop"} \subseteq Callers
  BY DEF PluginTypes, CallerTypes, Callers
<1>1. ASSUME NEW c \in Callers, Begin(c) PROVE Stopped'
  <2>1. c # "stop" /\ c # "boot"
    BY <1>1, PluginAssumption DEF Begin
  <2>2. where'["stop"] = where["stop"] /\ where'["boot"] = where["boot"]
    BY <1>1, <1>t, <2>1, OthersStay
  <2> QED
    BY <1>1, <2>2 DEF Begin, Stopped, proc, child, ending
<1>2. ASSUME NEW c \in Callers, CallStep(c), ~Fail(c) PROVE Stopped'
  <2>1. where[c] # "idle"
    BY <1>2 DEF CallStep, Register, WriteBlocks, Write, NotifyRefused, Receive, Expire, Forget,
                MayWrite, AtLock
  <2>2. \A d \in Callers : where'[d] # "idle" => where[d] # "idle"
    BY <1>2, <2>1, OthersStay
  <2>3. UNCHANGED <<up, alive, writing, stop, drained, ctx>>
    BY <1>2 DEF CallStep, Register, WriteBlocks, Write, NotifyRefused, Receive, Expire, Forget,
                Elsewhere, proc, child, ending
  <2>4. ~up => pending' \subseteq pending
    BY <1>2 DEF CallStep, Register, WriteBlocks, Write, NotifyRefused, Receive, Expire, Forget, proc
  <2> QED
    BY <1>t, <2>2, <2>3, <2>4 DEF Stopped
<1>3. ASSUME NEW c \in Callers, Fail(c) PROVE Stopped'
  <2>1. where[c] = "failed" /\ where'[c] = "idle"
    BY <1>3, <1>t DEF Fail, Advance
  <2>2. \A d \in Callers : d # c => where'[d] = where[d]
    BY <1>3, OthersStay DEF CallStep
  <2>3. UNCHANGED <<up, pending, alive, writing, drained, ctx>>
    BY <1>3 DEF Fail, proc, child
  <2>4. stop' = stop \/ (c = "boot" /\ stop = "idle" /\ stop' = "check")
    BY <1>3, <2>1 DEF Fail, Stopped
  <2> QED
    BY <1>t, <2>1, <2>2, <2>3, <2>4 DEF Stopped
<1>4. CASE ReadLoop \/ ProcessInbound
  <2>1. UNCHANGED <<where, stop, drained, pending, ctx, alive, writing>> /\ (up' = up \/ up' = FALSE)
    BY <1>4, LoopMoves
  <2> QED
    BY <2>1 DEF Stopped
<1>5. CASE ChildStep
  <2>1. UNCHANGED <<where, stop, drained, pending, ctx, up>> /\ (alive' = alive \/ alive' = FALSE)
    BY <1>5, ChildMoves
  <2>2. ~alive' => writing' = {}
    BY <1>5, ChildMoves DEF Stopped
  <2> QED
    BY <2>1, <2>2 DEF Stopped
<1>6. CASE Shutdown
  BY <1>6 DEF Shutdown, Dies, Stopped, proc, locals
<1>7. CASE StopAll
  BY <1>7 DEF StopAll, Due, Stopped, proc, child, locals
<1>8. CASE StopChecks
  BY <1>8, <1>t DEF StopChecks, Advance, Stopped, proc, child
<1>9. CASE StopCloses
  BY <1>9 DEF StopCloses, AtLock, Dies, Stopped, locals
<1>10. CASE StopWaits \/ StopTakes
  BY <1>10 DEF StopWaits, StopTakes, Stopped, proc, child, locals
<1>11. CASE StopSends
  BY <1>11 DEF StopSends, Stopped, child, locals
<1>12. CASE UNCHANGED pluginVars
  BY <1>12 DEF pluginVars, Stopped, proc, child, locals, ending
<1> QED
  BY <1>1, <1>2, <1>3, <1>4, <1>5, <1>6, <1>7, <1>8, <1>9, <1>10, <1>11, <1>12, PluginSteps
     DEF StopStep

LEMMA PluginInvInit == ASSUME PluginInit PROVE PluginInv
<1>1. PluginTypes
  BY PluginTypesInit
<1>2. InFlight = {} /\ box = {} /\ pending = {} /\ nextID = 1
  BY InEmpty DEF PluginInit, InFlight
<1>3. \A c \in Callers : where[c] \in {"idle", "register"} /\ ~noting[c] /\ got[c] = 0
  BY DEF PluginInit
<1>4. Numbered /\ Known
  BY <1>2 DEF Numbered, Known
<1>5. Tracked /\ Owed /\ NotYet
  BY <1>3 DEF Tracked, Owed, NotYet, Calling, Unsent
<1>6. Locked
  BY <1>3 DEF PluginInit, Locked
<1>7. Stopped
  BY DEF PluginInit, Stopped, Callers
<1> QED
  BY <1>1, <1>4, <1>5, <1>6, <1>7 DEF PluginInv

LEMMA PluginInvNext == ASSUME PluginInv, [PluginNext]_pluginVars PROVE PluginInv'
  BY PluginTypesNext, NumberedNext, TrackedNext, OwedNext, KnownNext, NotYetNext, LockedNext,
     StoppedNext DEF PluginInv
-----------------------------------------------------------------------------
\* Where nothing goes on, the lock is free, or both pipes are full, or Stop is stuck.
LEMMA HeldForGood ==
    ASSUME PluginInv, ~GoesOn
    PROVE  mu = NoCaller \/ (Wedged /\ alive) \/ Jammed
<1> USE DEF PluginInv
<1>1. CASE mu \in Callers /\ where[mu] = "blocked"
  <2>1. ~HasRoom /\ ~MayRead /\ ~MayPut
    BY <1>1 DEF GoesOn, CallerGoes, ChildGoes
  <2>2. toChild \in Seq(Sent) /\ toHost \in Seq(Sent) /\ Len(toHost) <= PipeCap
        /\ PipeCap \in Nat /\ PipeCap > 0 /\ attentive \in BOOLEAN /\ alive \in BOOLEAN
    BY PluginAssumption DEF PluginTypes, PipeTypes
  <2>3. alive /\ Len(toChild) > 0
    BY <2>1, <2>2 DEF HasRoom
  <2>4. toChild # <<>>
    BY <2>2, <2>3
  <2>5. ~attentive /\ writing # {}
    BY <2>1, <2>3, <2>4 DEF MayRead
  <2>6. Len(toHost) = PipeCap
    BY <2>1, <2>2, <2>3, <2>5 DEF MayPut
  <2> QED
    BY <1>1, <2>3, <2>5, <2>6 DEF Wedged
<1>2. CASE mu = "stop" /\ stop = "drain"
  BY <1>2 DEF GoesOn, StopGoes
<1>3. CASE mu = "stop" /\ stop = "send"
  <2>1. Full(hand) /\ hand \in pending
    BY <1>3 DEF GoesOn, StopGoes, Locked
  <2>2. PICK c \in Callers : Calling(c) /\ request[c].id = hand
    BY <2>1 DEF Known
  <2>3. where[c] # "wait"
    BY <2>1, <2>2 DEF GoesOn, CallerGoes
  <2>4. ~Unsent(c)
    BY <2>1, <2>2 DEF NotYet
  <2>5. where[c] = "drop"
    BY <2>2, <2>3, <2>4 DEF Calling, Unsent
  <2> QED
    BY <1>3, <2>2, <2>5 DEF Jammed
<1> QED
  BY <1>1, <1>2, <1>3 DEF Locked, PluginTypes, ProcTypes

\* With the lock free, each caller is through or waits for good.
LEMMA LeftAlone ==
    ASSUME PluginInv, ~GoesOn, mu = NoCaller, NEW c \in Callers
    PROVE  where[c] = "idle" \/ Stays(c)
<1>1. where[c] \in Places /\ ~CallerGoes(c) /\ ctx \in {"live", "done"}
  BY DEF PluginInv, PluginTypes, CallerTypes, LoopTypes, GoesOn
<1>2. where[c] # "blocked"
  BY PluginAssumption DEF PluginInv, Locked, Callers
<1>3. where[c] \in {"idle", "wait"}
  BY <1>1, <1>2 DEF CallerGoes, AtLock, Free, Places
<1>4. CASE where[c] = "wait"
  BY <1>1, <1>4 DEF CallerGoes, Deadline, Stays
<1> QED
  BY <1>3, <1>4

LEMMA CallsEndKept == ASSUME PluginInv PROVE CallsEnd
<1> SUFFICES ASSUME ~GoesOn
             PROVE  /\ \A c \in Callers : where[c] = "idle" \/ Stays(c) \/ Wedged \/ Jammed
                    /\ ctx = "live" \/ stop = "done" \/ Stays("out") \/ Jammed
  BY DEF CallsEnd
<1>1. \A c \in Callers : where[c] = "idle" \/ Stays(c) \/ Wedged \/ Jammed
  BY HeldForGood, LeftAlone
<1>2. ASSUME ctx = "done", ~Jammed PROVE stop = "done" \/ Stays("out")
  <2>1. mu = NoCaller
    BY <1>2, HeldForGood DEF PluginInv, Stopped
  <2>2. \A c \in Callers : where[c] = "idle" \/ Stays(c)
    BY <2>1, LeftAlone
  <2>3. where["boot"] = "idle" /\ where["stop"] = "idle"
    BY <1>2, <2>2 DEF Stays, Patient, Callers
  <2>4. where["out"] = "idle" \/ Stays("out")
    BY <2>2 DEF Callers
  <2>5. stop # "send"
    BY <2>1, PluginAssumption DEF PluginInv, Locked
  <2>6. stop \in {"idle", "check", "call", "reap", "drain", "send", "done"}
    BY DEF PluginInv, PluginTypes, LoopTypes
  <2>7. ~StopGoes
    BY DEF GoesOn
  <2> QED
    BY <1>2, <2>1, <2>3, <2>4, <2>5, <2>6, <2>7 DEF StopGoes, Due, AtLock, Free
<1> QED
  BY <1>1, <1>2 DEF PluginInv, PluginTypes, LoopTypes

LEMMA PluginInvServes == ASSUME PluginInv PROVE PluginServes
<1> USE DEF PluginInv
<1>1. PluginTypeOK
  BY DEF PluginTypes, ProcTypes, PipeTypes, CallerTypes, LoopTypes, PluginTypeOK, Sent
<1>2. OwnAnswer
  BY DEF Tracked, OwnAnswer
<1>3. NoneLeft
  <2>1. ASSUME drained, NEW c \in Callers, where[c] = "wait" PROVE Full(request[c].id)
    <3>1. Calling(c) /\ pending = {}
      BY <2>1 DEF Tracked, Calling, Stopped
    <3> QED
      BY <2>1, <3>1 DEF Owed
  <2> QED
    BY <2>1 DEF NoneLeft
<1> QED
  BY <1>1, <1>2, <1>3, CallsEndKept DEF PluginServes

\* A call of a plugin gets the answer to its own request, Stop leaves none in the
\* table that waits, and whenever nothing goes on by itself each caller is through,
\* but in the named ways (Call, readLoop and Stop of process.go): for any number of
\* hooks, calls and messages, and any capacity of the pipes and of the bus.
THEOREM PluginServesHolds == PluginSpec => []PluginServes
<1>1. PluginInit => PluginInv
  BY PluginInvInit
<1>2. PluginInv /\ [PluginNext]_pluginVars => PluginInv'
  BY PluginInvNext
<1>3. PluginInv => PluginServes
  BY PluginInvServes
<1> QED
  BY <1>1, <1>2, <1>3, PTL DEF PluginSpec
=============================================================================
