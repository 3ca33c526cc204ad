--------------------------- MODULE SteeringProofs ---------------------------
(***************************************************************************)
(* Proofs about Steering, for every set of messages, every finite set of   *)
(* turns and every iteration budget.                                       *)
(***************************************************************************)
EXTENDS Steering, FiniteSetTheorems, SequenceTheorems, TLAPS

\* What a turn's control point says of its kind and of its locals.
PathInv ==
    \A t \in Turns :
        /\ pc[t] = "reply" => kind[t] = "slash"
        /\ pc[t] \notin {"idle", "user", "reply"} => kind[t] # "slash"
        /\ pc[t] # "idle" => own[t] \in Messages
        /\ pc[t] \in {"note", "tool", "padAppend"} => call[t] \in Nat
        /\ pc[t] \in {"fold", "park"} => held[t] # <<>>

CallIds == \A i \in 1..Len(hist) : hist[i].role = "call" => hist[i].id \in Nat

\* The depth counts the turns in flight.
DepthInv == turnDepth = Cardinality(InFlight)

\* A buffered message has a turn to take it.
BufferInv == steerBuf # <<>> => turnDepth > 0

IInv == TypeOK /\ PathInv /\ CallIds /\ DepthInv /\ BufferInv
-----------------------------------------------------------------------------
\* The turns in flight are finitely many, so they can be counted.
LEMMA InFlightFinite ==
    /\ IsFiniteSet(InFlight) /\ Cardinality(InFlight) \in Nat
    /\ Cardinality(InFlight) = 0 <=> InFlight = {}
<1>1. InFlight \subseteq Turns
  BY DEF InFlight
<1>2. IsFiniteSet(InFlight)
  BY <1>1, SteeringAssumption, FS_Subset
<1>3. QED
  BY <1>2, FS_CardinalityType, FS_EmptySet

\* The initial states satisfy the invariant.
LEMMA InitIInv == Init => IInv
<1> SUFFICES ASSUME Init PROVE IInv
  OBVIOUS
<1>1. TypeOK
  <2>1. /\ fresh \subseteq Messages /\ refused \subseteq Messages
        /\ lost \subseteq Messages
        /\ turnDepth \in Nat /\ nextCall \in Nat \ {0}
    BY DEF Init
  <2>8. overlapped \in BOOLEAN
    BY Zenon DEF Init
  <2>2. queue \in Seq(Messages) /\ steerBuf \in Seq(Messages)
        /\ accepted \in Seq(Messages)
    BY DEF Init
  <2>3. hist \in Seq([role : Roles, id : Messages \cup Nat])
    BY DEF Init
  <2>4. pc \in [Turns -> Points] /\ kind \in [Turns -> Kinds \cup {"loop"}]
    BY DEF Init, Points
  <2>5. /\ own \in [Turns -> Messages \cup {NoMsg}] /\ iter \in [Turns -> Nat]
        /\ call \in [Turns -> Nat \cup {NoCall}]
    BY DEF Init
  <2>6. held \in [Turns -> Seq(Messages)]
    <3>1. <<>> \in Seq(Messages)
      OBVIOUS
    <3>2. QED
      BY <3>1 DEF Init
  <2>7. QED
    BY <2>1, <2>2, <2>3, <2>4, <2>5, <2>6, <2>8 DEF TypeOK
<1>2. PathInv /\ CallIds /\ BufferInv
  BY DEF Init, PathInv, CallIds, BufferInv
<1>3. InFlight = {}
  BY DEF Init, InFlight, InTurn
<1>4. DepthInv
  BY <1>3, FS_EmptySet DEF Init, DepthInv
<1>5. QED
  BY <1>1, <1>2, <1>4 DEF IInv

\* A record of the history.
LEMMA RecordTypes ==
    ASSUME TypeOK, CallIds, NEW r \in Roles, NEW x \in Messages \cup Nat,
           r = "call" => x \in Nat, Record(r, x)
    PROVE  /\ hist' \in Seq([role : Roles, id : Messages \cup Nat])
           /\ CallIds'
BY DEF TypeOK, CallIds, Record

\* A step of a turn that stays where it is as far as the depth is concerned.
LEMMA SameInFlight ==
    ASSUME TypeOK, NEW t \in Turns, NEW p \in Points, Goto(t, p),
           UNCHANGED kind,
           kind[t] # "slash" =>
               (pc[t] \in {"idle", "begin", "park"} <=> p \in {"idle", "begin", "park"})
    PROVE  InFlight' = InFlight
BY DEF TypeOK, Goto, InFlight, InTurn

\* Arrivals: a message is steered only into a turn in flight.
LEMMA ArriveStep ==
    ASSUME IInv, NEW m \in Messages,
           PushSteerIfActive(m) \/ InjectGroupMessage(m) \/ Submit(m)
    PROVE  IInv'
<1> USE DEF IInv
<1>1. CASE PushSteerIfActive(m)
  <2>1. UNCHANGED <<queue, turnDepth, hist, nextCall, locals, lost, overlapped>>
    BY <1>1 DEF PushSteerIfActive
  <2>2. fresh' \subseteq Messages /\ refused' \subseteq Messages
    BY <1>1 DEF PushSteerIfActive, TypeOK
  <2>3. steerBuf' \in Seq(Messages) /\ accepted' \in Seq(Messages)
    <3>1. CASE turnDepth > 0
      <4>1. steerBuf' = Append(steerBuf, m) /\ accepted' = Append(accepted, m)
        BY <1>1, <3>1 DEF PushSteerIfActive
      <4>2. QED
        BY <4>1, AppendProperties DEF TypeOK
    <3>2. CASE ~(turnDepth > 0)
      BY <1>1, <3>2 DEF PushSteerIfActive, TypeOK
    <3>3. QED
      BY <3>1, <3>2
  <2>4. TypeOK'
    <3>1. overlapped' = overlapped
      BY <2>1
    <3>2. overlapped' \in BOOLEAN
      BY <3>1, Zenon DEF TypeOK
    <3>3. QED
      BY <2>1, <2>2, <2>3, <3>2 DEF TypeOK, locals
  <2>5. PathInv' /\ CallIds' /\ DepthInv'
    BY <2>1 DEF PathInv, CallIds, DepthInv, InFlight, InTurn, locals
  <2>6. BufferInv'
    BY <1>1 DEF PushSteerIfActive, BufferInv
  <2>7. QED
    BY <2>4, <2>5, <2>6
<1>2. CASE InjectGroupMessage(m)
  <2>1. Record("user", m) /\ "user" \in Roles /\ m \in Messages \cup Nat
    BY <1>2 DEF InjectGroupMessage, Roles
  <2>2. hist' \in Seq([role : Roles, id : Messages \cup Nat]) /\ CallIds'
    BY <2>1, RecordTypes
  <2>3. TypeOK' /\ PathInv' /\ BufferInv'
    BY <1>2, <2>2 DEF InjectGroupMessage, TypeOK, PathInv, BufferInv, locals,
                      session, ghosts
  <2>4. DepthInv'
    BY <1>2 DEF InjectGroupMessage, DepthInv, InFlight, InTurn, locals, session
  <2>5. QED
    BY <2>2, <2>3, <2>4
<1>3. CASE Submit(m)
  <2>1. TypeOK' /\ PathInv' /\ CallIds' /\ BufferInv'
    BY <1>3 DEF Submit, TypeOK, PathInv, CallIds, BufferInv, locals, session, ghosts
  <2>2. DepthInv'
    BY <1>3 DEF Submit, DepthInv, InFlight, InTurn, locals, session
  <2>3. QED
    BY <2>1, <2>2
<1>4. QED
  BY <1>1, <1>2, <1>3

\* A turn that enters HandleMessage is not counted yet.
LEMMA EnterStep ==
    ASSUME IInv, NEW t \in Turns, NEW k \in Kinds, NEW m \in Messages,
           pc[t] = "idle", Enter(t, m, k),
           refused' \subseteq Messages, queue' \in Seq(Messages)
    PROVE  IInv'
<1> USE DEF IInv
<1>1. TypeOK'
  BY DEF Enter, Goto, TypeOK, Points, session, Running
<1>2. PathInv' /\ CallIds' /\ BufferInv'
  BY SteeringAssumption DEF Enter, Goto, TypeOK, PathInv, CallIds, BufferInv, session
<1>3. InFlight' = InFlight
  BY SteeringAssumption DEF Enter, Goto, TypeOK, InFlight, InTurn
<1>4. DepthInv'
  BY <1>3 DEF DepthInv, Enter, session
<1>5. QED
  BY <1>1, <1>2, <1>4

\* Both ways for a turn to start.
LEMMA StartStep == ASSUME IInv, NEW t \in Turns, Start(t) PROVE IInv'
<1>1. PICK k \in Kinds : HandleTask(t, k)
                           \/ \E m \in WebMsgs : HandleWebChatStream(t, m, k)
  BY DEF Start
<1>2. CASE HandleTask(t, k)
  <2>1. Head(queue) \in Messages /\ queue' \in Seq(Messages)
    BY <1>2 DEF HandleTask, IInv, TypeOK
  <2>2. refused' \subseteq Messages /\ pc[t] = "idle" /\ Enter(t, Head(queue), k)
    BY <1>2 DEF HandleTask, IInv, TypeOK
  <2>3. QED
    BY <2>1, <2>2, EnterStep
<1>3. ASSUME NEW m \in WebMsgs, HandleWebChatStream(t, m, k) PROVE IInv'
  <2>1. m \in Messages /\ queue' \in Seq(Messages) /\ refused' \subseteq Messages
    BY <1>3, SteeringAssumption DEF HandleWebChatStream, IInv, TypeOK
  <2>2. pc[t] = "idle" /\ Enter(t, m, k)
    BY <1>3 DEF HandleWebChatStream
  <2>3. QED
    BY <2>1, <2>2, EnterStep
<1>4. QED
  BY <1>1, <1>2, <1>3

\* BeginTurn counts the turn once.
LEMMA BeginStep == ASSUME IInv, NEW t \in Turns, BeginTurn(t) PROVE IInv'
<1> USE DEF IInv
<1>1. TypeOK' /\ PathInv' /\ CallIds' /\ BufferInv'
  BY DEF BeginTurn, Goto, TypeOK, PathInv, CallIds, BufferInv, Points, arrival, ghosts
<1>2. t \notin InFlight /\ InFlight' = InFlight \cup {t}
  BY DEF BeginTurn, Goto, TypeOK, PathInv, InFlight, InTurn
<1>3. Cardinality(InFlight') = Cardinality(InFlight) + 1
  BY <1>2, InFlightFinite, FS_AddElement
<1>4. DepthInv'
  BY <1>3 DEF DepthInv, BeginTurn
<1>5. QED
  BY <1>1, <1>4

\* A step that records at most one entry and moves the turn within its path.
LEMMA QuietStep ==
    ASSUME IInv, NEW t \in Turns, NEW p \in Points, Goto(t, p), Quiet,
           nextCall' \in Nat \ {0},
           iter' \in [Turns -> Nat],
           call' \in [Turns -> Nat \cup {NoCall}],
           held' \in [Turns -> Seq(Messages)],
           \A u \in Turns \ {t} : call'[u] = call[u] /\ held'[u] = held[u],
           pc[t] # "idle",
           kind[t] # "slash" =>
               (pc[t] \in {"idle", "begin", "park"} <=> p \in {"idle", "begin", "park"}),
           p = "reply" => kind[t] = "slash",
           p \notin {"idle", "user", "reply"} => kind[t] # "slash",
           p \in {"note", "tool", "padAppend"} => call'[t] \in Nat,
           p \in {"fold", "park"} => held'[t] # <<>>,
           hist' \in Seq([role : Roles, id : Messages \cup Nat]), CallIds'
    PROVE  IInv'
<1> USE DEF IInv
<1>1. TypeOK'
  BY DEF Goto, Quiet, TypeOK, arrival, session, ghosts
<1>2. PathInv'
  <2>1. pc' = [pc EXCEPT ![t] = p] /\ kind' = kind /\ own' = own
    BY DEF Goto, Quiet
  <2>2. QED
    BY <2>1 DEF TypeOK, PathInv
<1>3. InFlight' = InFlight
  BY SameInFlight DEF Quiet
<1>4. DepthInv' /\ BufferInv'
  BY <1>3 DEF DepthInv, BufferInv, Quiet, session
<1>5. QED
  BY <1>1, <1>2, <1>4

\* Steps of the loop that touch neither the buffer nor the count.
LEMMA ModelSteps ==
    ASSUME IInv, NEW t \in Turns,
           \/ AppendUser(t) \/ ModelFails(t) \/ ModelAnswers(t)
           \/ LoopDetected(t) \/ ToolsReturn(t) \/ ForcedDelivery(t)
    PROVE  IInv'
<1> USE DEF IInv
<1>1. PICK p \in Points :
        /\ Goto(t, p) /\ Quiet /\ UNCHANGED <<nextCall, iter, call, held>>
        /\ \/ AppendUser(t) /\ p = FirstStep[kind[t]]
           \/ ModelFails(t) /\ p = "pad"
           \/ ModelAnswers(t) /\ p \in {"lastDrain", "pad"}
           \/ LoopDetected(t) /\ p = "final"
           \/ ToolsReturn(t) /\ p = "roundDrain"
           \/ ForcedDelivery(t) /\ p = "pad"
  <2>1. kind[t] \in {"loop", "plan", "hook", "slash"}
    BY SteeringAssumption DEF TypeOK
  <2>2. FirstStep[kind[t]] \in {"model", "draft", "hookCall", "reply"}
    BY <2>1 DEF FirstStep
  <2>3. QED
    BY <2>2 DEF AppendUser, ModelFails, ModelAnswers, LoopDetected, ToolsReturn,
                ForcedDelivery, Points
<1>2. PICK r \in Roles, x \in Messages \cup Nat :
        (r = "call" => x \in Nat) /\ (Record(r, x) \/ UNCHANGED hist)
  <2>1. CASE AppendUser(t)
    BY <2>1 DEF AppendUser, TypeOK, PathInv, Roles
  <2>2. CASE ModelFails(t)
    BY <2>2 DEF ModelFails, TypeOK, Roles
  <2>3. CASE ModelAnswers(t)
    BY <2>3 DEF ModelAnswers, TypeOK, PathInv, Roles
  <2>4. CASE LoopDetected(t)
    BY <2>4 DEF LoopDetected, TypeOK, PathInv, Roles
  <2>5. CASE ToolsReturn(t)
    BY <2>5 DEF ToolsReturn, TypeOK, PathInv, Roles
  <2>6. CASE ForcedDelivery(t)
    BY <2>6 DEF ForcedDelivery, TypeOK, PathInv, Roles
  <2>7. QED
    BY <2>1, <2>2, <2>3, <2>4, <2>5, <2>6
<1>3. hist' \in Seq([role : Roles, id : Messages \cup Nat]) /\ CallIds'
  <2>1. CASE Record(r, x)
    BY <2>1, <1>2, RecordTypes
  <2>2. CASE UNCHANGED hist
    BY <2>2 DEF TypeOK, CallIds
  <2>3. QED
    BY <1>2, <2>1, <2>2
<1>4. /\ pc[t] \notin {"idle", "begin", "park"}
      /\ p \notin {"idle", "begin", "park", "fold", "note", "tool", "padAppend"}
      /\ p = "reply" => kind[t] = "slash"
      /\ p \notin {"idle", "user", "reply"} => kind[t] # "slash"
  <2>1. CASE AppendUser(t)
    <3>1. kind[t] \in {"loop", "plan", "hook", "slash"}
      BY SteeringAssumption DEF TypeOK
    <3>2. p = FirstStep[kind[t]]
      BY <2>1, <1>1 DEF AppendUser, ModelFails, ModelAnswers, LoopDetected,
                        ToolsReturn, ForcedDelivery
    <3>3. QED
      BY <2>1, <3>1, <3>2 DEF AppendUser, FirstStep
  <2>2. CASE ~AppendUser(t)
    BY <2>2, <1>1 DEF ModelFails, ModelAnswers, LoopDetected, ToolsReturn,
                      ForcedDelivery, PathInv
  <2>3. QED
    BY <2>1, <2>2
<1>5. /\ nextCall' \in Nat \ {0} /\ iter' \in [Turns -> Nat]
      /\ call' \in [Turns -> Nat \cup {NoCall}] /\ held' \in [Turns -> Seq(Messages)]
  BY <1>1 DEF TypeOK
<1>6. QED
  BY <1>1, <1>3, <1>4, <1>5, QuietStep

\* A tool call gets a new id.
LEMMA CallStep == ASSUME IInv, NEW t \in Turns, ModelCallsTools(t) PROVE IInv'
<1> USE DEF IInv
<1>1. PICK p \in {"tool", "note"} : Goto(t, p)
  BY DEF ModelCallsTools
<1>2. "call" \in Roles /\ nextCall \in Messages \cup Nat /\ nextCall \in Nat
      /\ Record("call", nextCall)
  BY DEF ModelCallsTools, TypeOK, Roles
<1>3. hist' \in Seq([role : Roles, id : Messages \cup Nat]) /\ CallIds'
  BY <1>2, RecordTypes
<1>4. /\ call' \in [Turns -> Nat \cup {NoCall}] /\ call'[t] \in Nat
      /\ \A u \in Turns \ {t} : call'[u] = call[u] /\ held'[u] = held[u]
      /\ nextCall' \in Nat \ {0} /\ iter' \in [Turns -> Nat]
      /\ held' \in [Turns -> Seq(Messages)] /\ Quiet
  BY DEF ModelCallsTools, TypeOK
<1>5. pc[t] = "model" /\ kind[t] # "slash" /\ p \in Points
  BY DEF ModelCallsTools, PathInv, Points
<1>6. QED
  BY <1>1, <1>3, <1>4, <1>5, QuietStep

\* Messages held by a turn move into the history.
LEMMA FoldStep ==
    ASSUME IInv, NEW t \in Turns, AppendSteer(t) \/ ParkLeftover(t) PROVE IInv'
<1> USE DEF IInv
<1>1. held[t] \in Seq(Messages) /\ held[t] # <<>> /\ pc[t] \in {"fold", "park"}
  BY DEF AppendSteer, ParkLeftover, TypeOK, PathInv
<1>2. Head(held[t]) \in Messages /\ Tail(held[t]) \in Seq(Messages)
      /\ (Len(held[t]) # 1 => Tail(held[t]) # <<>>)
  <2>1. /\ Head(held[t]) \in Messages /\ Tail(held[t]) \in Seq(Messages)
        /\ Len(Tail(held[t])) = Len(held[t]) - 1
    BY <1>1, HeadTailProperties
  <2> DEFINE rest == Tail(held[t])
  <2> HIDE DEF rest
  <2>2. Len(held[t]) \in Nat \ {0} /\ Len(<<>>) = 0
    BY <1>1, EmptySeq
  <2>3. Len(rest) = Len(held[t]) - 1
    BY <2>1 DEF rest
  <2>4. Len(held[t]) # 1 => Len(rest) # 0
    BY <2>2, <2>3
  <2>5. Len(held[t]) # 1 => rest # <<>>
    BY <2>2, <2>4
  <2>6. QED
    BY <2>1, <2>5 DEF rest
<1>3. Record("user", Head(held[t])) /\ "user" \in Roles
  BY DEF AppendSteer, ParkLeftover, Roles
<1>4. hist' \in Seq([role : Roles, id : Messages \cup Nat]) /\ CallIds'
  BY <1>2, <1>3, RecordTypes
<1>5. /\ held' \in [Turns -> Seq(Messages)] /\ held'[t] = Tail(held[t])
      /\ \A u \in Turns \ {t} : call'[u] = call[u] /\ held'[u] = held[u]
      /\ nextCall' \in Nat \ {0} /\ iter' \in [Turns -> Nat]
      /\ call' \in [Turns -> Nat \cup {NoCall}] /\ Quiet
  <2>1. held' = [held EXCEPT ![t] = Tail(held[t])] /\ UNCHANGED <<nextCall, call>>
        /\ Quiet /\ (iter' = iter \/ iter' = [iter EXCEPT ![t] = iter[t] + 1])
    BY DEF AppendSteer, ParkLeftover
  <2>2. /\ nextCall' \in Nat \ {0} /\ iter' \in [Turns -> Nat]
        /\ call' \in [Turns -> Nat \cup {NoCall}] /\ Quiet
    BY <2>1 DEF TypeOK
  <2> DEFINE rest == Tail(held[t])
  <2>3. rest \in Seq(Messages) /\ held' = [held EXCEPT ![t] = rest]
    BY <2>1, <1>2
  <2> HIDE DEF rest
  <2>4. /\ held' \in [Turns -> Seq(Messages)] /\ held'[t] = rest
        /\ \A u \in Turns \ {t} : call'[u] = call[u] /\ held'[u] = held[u]
    BY <2>1, <2>3 DEF TypeOK
  <2>5. QED
    BY <2>2, <2>4 DEF rest
<1>6. CASE AppendSteer(t)
  <2>1. PICK p \in {"model", "fold"} : Goto(t, p) /\ (p = "fold" => Len(held[t]) # 1)
    BY <1>6 DEF AppendSteer, Goto, TypeOK
  <2>2. pc[t] = "fold" /\ kind[t] # "slash" /\ p \in Points
    BY <1>6 DEF AppendSteer, PathInv, Points
  <2>3. QED
    BY <1>2, <1>4, <1>5, <2>1, <2>2, QuietStep
<1>7. CASE ParkLeftover(t)
  <2>1. PICK p \in {"idle", "park"} : Goto(t, p) /\ (p = "park" => Len(held[t]) # 1)
    BY <1>7 DEF ParkLeftover
  <2>2. pc[t] = "park" /\ kind[t] # "slash" /\ p \in Points
    BY <1>7 DEF ParkLeftover, PathInv, Points
  <2>3. QED
    BY <1>2, <1>4, <1>5, <2>1, <2>2, QuietStep
<1>8. QED
  BY <1>6, <1>7

\* The buffer moves into the hands of the turn that drains it.
LEMMA DrainStep == ASSUME IInv, NEW t \in Turns, DrainSteer(t) PROVE IInv'
<1> USE DEF IInv
<1>1. pc[t] \in {"lastDrain", "roundDrain"} /\ kind[t] # "slash"
  BY DEF DrainSteer, PathInv
<1>2. PICK p \in {"fold", "pad", "model"} :
        Goto(t, p) /\ (p = "fold" => steerBuf # <<>>)
  BY DEF DrainSteer
<1>3. /\ steerBuf' = <<>> /\ held' = [held EXCEPT ![t] = steerBuf]
      /\ iter' = iter \/ iter' = [iter EXCEPT ![t] = iter[t] + 1]
      /\ UNCHANGED <<arrival, turnDepth, hist, nextCall, kind, own, call, ghosts>>
  BY DEF DrainSteer
<1>4. TypeOK'
  <2>1. steerBuf' \in Seq(Messages) /\ held' \in [Turns -> Seq(Messages)]
    BY <1>3 DEF TypeOK
  <2>2. pc' \in [Turns -> Points]
    BY <1>2 DEF Goto, TypeOK, Points
  <2>4. iter' \in [Turns -> Nat]
    <3>1. iter \in [Turns -> Nat]
      BY DEF TypeOK
    <3>2. iter' = iter \/ iter' = [iter EXCEPT ![t] = iter[t] + 1]
      BY <1>3
    <3>3. QED
      BY <3>1, <3>2
  <2>3. QED
    BY <1>3, <2>1, <2>2, <2>4 DEF TypeOK, arrival, ghosts
<1>5. PathInv' /\ CallIds'
  <2>1. pc' = [pc EXCEPT ![t] = p]
    BY <1>2 DEF Goto
  <2>2. QED
    BY <1>1, <1>2, <1>3, <2>1 DEF TypeOK, PathInv, CallIds
<1>6. InFlight' = InFlight
  <2>1. kind' = kind /\ p \in Points /\ Goto(t, p)
    BY <1>2, <1>3 DEF Points
  <2>2. pc[t] \notin {"idle", "begin", "park"} /\ p \notin {"idle", "begin", "park"}
    BY <1>1, <1>2
  <2>3. QED
    BY <2>1, <2>2, SameInFlight
<1>7. DepthInv' /\ BufferInv'
  BY <1>3, <1>6 DEF DepthInv, BufferInv
<1>8. QED
  BY <1>4, <1>5, <1>7

\* Padding appends results, nothing else.
LEMMA PadStep == ASSUME IInv, NEW t \in Turns, PadScan(t) \/ PadAppend(t) PROVE IInv'
<1> USE DEF IInv
<1>1. CASE PadScan(t)
  <2>1. Orphans(hist) \subseteq Nat
    BY DEF Orphans, LatestAt, CallsAt, CallIds
  <2>2. PICK p \in {"end", "padAppend"} :
          /\ Goto(t, p)
          /\ call' = call \/ \E c \in Orphans(hist) : call' = [call EXCEPT ![t] = c]
          /\ p = "padAppend" => \E c \in Orphans(hist) : call' = [call EXCEPT ![t] = c]
    BY <1>1 DEF PadScan
  <2>3. /\ call' \in [Turns -> Nat \cup {NoCall}]
        /\ p = "padAppend" => call'[t] \in Nat
        /\ \A u \in Turns \ {t} : call'[u] = call[u]
    BY <2>1, <2>2 DEF TypeOK
  <2>4. Quiet /\ UNCHANGED <<hist, nextCall, iter, held>> /\ pc[t] = "pad"
    BY <1>1 DEF PadScan
  <2>5. kind[t] # "slash" /\ p \in Points
    BY <2>4 DEF PathInv, Points
  <2>6. hist' \in Seq([role : Roles, id : Messages \cup Nat]) /\ CallIds'
    BY <2>4 DEF TypeOK, CallIds
  <2>7. /\ nextCall' \in Nat \ {0} /\ iter' \in [Turns -> Nat]
        /\ held' \in [Turns -> Seq(Messages)]
        /\ \A u \in Turns \ {t} : held'[u] = held[u]
    BY <2>4 DEF TypeOK
  <2>8. QED
    BY <2>2, <2>3, <2>4, <2>5, <2>6, <2>7, QuietStep
<1>2. CASE PadAppend(t)
  <2>1. /\ pc[t] = "padAppend" /\ Record("tool", call[t]) /\ Goto(t, "end") /\ Quiet
        /\ UNCHANGED <<nextCall, iter, call, held>>
    BY <1>2 DEF PadAppend
  <2>2. kind[t] # "slash" /\ call[t] \in Nat
    BY <2>1 DEF PathInv
  <2>3. hist' \in Seq([role : Roles, id : Messages \cup Nat]) /\ CallIds'
    BY <2>1, <2>2, RecordTypes DEF Roles
  <2>4. /\ nextCall' \in Nat \ {0} /\ iter' \in [Turns -> Nat]
        /\ call' \in [Turns -> Nat \cup {NoCall}]
        /\ held' \in [Turns -> Seq(Messages)]
        /\ \A u \in Turns \ {t} : call'[u] = call[u] /\ held'[u] = held[u]
    BY <2>1 DEF TypeOK
  <2>5. "end" \in Points
    BY DEF Points
  <2>6. QED
    BY <2>1, <2>2, <2>3, <2>4, <2>5, QuietStep
<1>3. QED
  BY <1>1, <1>2

\* EndTurn by a turn that is in flight, whatever it does with the leftovers.
LEMMA DepthFalls ==
    ASSUME IInv, NEW t \in Turns, InTurn(t), EndTurn, UNCHANGED kind,
           Goto(t, "idle") \/ Goto(t, "park")
    PROVE  /\ turnDepth' \in Nat /\ turnDepth' = turnDepth - 1
           /\ steerBuf' \in Seq(Messages)
           /\ DepthInv' /\ BufferInv'
<1> USE DEF IInv
<1>1. t \in InFlight /\ InFlight' = InFlight \ {t}
  BY DEF Goto, TypeOK, InFlight, InTurn
<1>2. Cardinality(InFlight') = Cardinality(InFlight) - 1
  BY <1>1, InFlightFinite, FS_RemoveElement
<1>3. turnDepth > 0
  BY <1>1, InFlightFinite DEF DepthInv
<1>4. turnDepth' = turnDepth - 1 /\ turnDepth' \in Nat
  BY <1>3 DEF EndTurn, TypeOK
<1>5. DepthInv'
  BY <1>2, <1>4 DEF DepthInv
<1>6. steerBuf' \in Seq(Messages) /\ BufferInv'
  BY <1>3, <1>4 DEF EndTurn, TypeOK, BufferInv
<1>7. QED
  BY <1>4, <1>5, <1>6

\* The last EndTurn takes what is left in the buffer.
LEMMA FlushStep == ASSUME IInv, NEW t \in Turns, FlushLeftoverSteer(t) PROVE IInv'
<1> USE DEF IInv
<1>1. PICK p \in {"idle", "park"} : Goto(t, p) /\ (p = "park" => Leftover # <<>>)
  BY DEF FlushLeftoverSteer
<1>2. /\ pc[t] = "end" /\ EndTurn /\ held' = [held EXCEPT ![t] = Leftover]
      /\ UNCHANGED <<arrival, hist, nextCall, kind, own, iter, call, ghosts>>
  BY DEF FlushLeftoverSteer
<1>3. InTurn(t) /\ kind[t] # "slash"
  BY <1>2 DEF InTurn, PathInv
<1>4. turnDepth' \in Nat /\ steerBuf' \in Seq(Messages) /\ DepthInv' /\ BufferInv'
  BY <1>1, <1>2, <1>3, DepthFalls
<1>5. Leftover \in Seq(Messages)
  BY DEF Leftover, TypeOK
<1>6. TypeOK'
  BY <1>1, <1>2, <1>4, <1>5 DEF TypeOK, Goto, Points, arrival, ghosts
<1>7. PathInv' /\ CallIds'
  <2>1. pc' = [pc EXCEPT ![t] = p]
    BY <1>1 DEF Goto
  <2>2. QED
    BY <1>1, <1>2, <1>3, <2>1 DEF TypeOK, PathInv, CallIds
<1>8. QED
  BY <1>4, <1>6, <1>7

\* The hook and slash paths.
LEMMA HookStep ==
    ASSUME IInv, NEW t \in Turns, HookRecords(t) \/ HookEndTurn(t) \/ SlashReply(t)
    PROVE  IInv'
<1> USE DEF IInv
<1>1. CASE HookRecords(t) \/ SlashReply(t)
  <2>1. PICK p \in {"hookTool", "hookAnswer", "hookEnd", "idle"} :
          /\ Goto(t, p) /\ Quiet /\ UNCHANGED <<nextCall, iter, call, held>>
          /\ \/ pc[t] \in {"hookCall", "hookTool", "hookAnswer"} /\ p # "idle"
             \/ pc[t] = "reply"
    BY <1>1 DEF HookRecords, SlashReply
  <2>2. pc[t] = "reply" => p = "idle"
    BY <1>1, <2>1 DEF HookRecords, SlashReply, Goto, TypeOK
  <2>3. \/ UNCHANGED hist
        \/ \E r \in {"call", "tool"} : Record(r, HookCall)
    BY <1>1 DEF HookRecords, SlashReply
  <2>4. hist' \in Seq([role : Roles, id : Messages \cup Nat]) /\ CallIds'
    <3>1. CASE UNCHANGED hist
      BY <3>1, <2>1 DEF TypeOK, CallIds
    <3>2. ASSUME NEW r \in {"call", "tool"}, Record(r, HookCall)
          PROVE  hist' \in Seq([role : Roles, id : Messages \cup Nat]) /\ CallIds'
      BY <3>2, RecordTypes DEF Roles, HookCall
    <3>3. QED
      BY <2>3, <3>1, <3>2
  <2>5. /\ pc[t] = "reply" => kind[t] = "slash"
        /\ pc[t] # "reply" => kind[t] # "slash"
        /\ p \in Points
    BY <2>1 DEF PathInv, Points
  <2>6. /\ nextCall' \in Nat \ {0} /\ iter' \in [Turns -> Nat]
        /\ call' \in [Turns -> Nat \cup {NoCall}]
        /\ held' \in [Turns -> Seq(Messages)]
        /\ \A u \in Turns \ {t} : call'[u] = call[u] /\ held'[u] = held[u]
    BY <2>1 DEF TypeOK
  <2>7. QED
    BY <2>1, <2>2, <2>4, <2>5, <2>6, QuietStep
<1>2. CASE HookEndTurn(t)
  <2>1. /\ pc[t] = "hookEnd" /\ EndTurn /\ Goto(t, "idle")
        /\ lost' = lost \cup {Leftover[i] : i \in 1..Len(Leftover)}
        /\ UNCHANGED <<arrival, hist, nextCall, kind, own, iter, call, held,
                       accepted, overlapped>>
    BY <1>2 DEF HookEndTurn
  <2>2. InTurn(t)
    BY <2>1 DEF InTurn, PathInv
  <2>3. turnDepth' \in Nat /\ steerBuf' \in Seq(Messages) /\ DepthInv' /\ BufferInv'
    BY <2>1, <2>2, DepthFalls
  <2>4. Leftover \in Seq(Messages)
    BY DEF Leftover, TypeOK
  <2>5. {Leftover[i] : i \in 1..Len(Leftover)} \subseteq Messages
    BY <2>4
  <2>6. TypeOK'
    BY <2>1, <2>3, <2>5 DEF TypeOK, Goto, Points, arrival
  <2>7. PathInv' /\ CallIds'
    BY <2>1 DEF TypeOK, PathInv, CallIds, Goto
  <2>8. QED
    BY <2>3, <2>6, <2>7
<1>3. QED
  BY <1>1, <1>2

\* Every step keeps the invariant.
LEMMA NextStep == IInv /\ [Next]_vars => IInv'
<1> SUFFICES ASSUME IInv, [Next]_vars PROVE IInv'
  OBVIOUS
<1>1. CASE UNCHANGED vars
  BY <1>1 DEF IInv, vars, arrival, session, locals, ghosts, TypeOK, PathInv,
              CallIds, DepthInv, BufferInv, InFlight, InTurn
<1>2. ASSUME NEW m \in Messages,
             PushSteerIfActive(m) \/ InjectGroupMessage(m) \/ Submit(m)
      PROVE  IInv'
  BY <1>2, ArriveStep
<1>3. ASSUME NEW t \in Turns, Start(t) PROVE IInv'
  BY <1>3, StartStep
<1>4. ASSUME NEW t \in Turns, TurnStep(t) PROVE IInv'
  <2>1. CASE BeginTurn(t)
    BY <2>1, BeginStep
  <2>2. CASE \/ AppendUser(t) \/ ModelFails(t) \/ ModelAnswers(t)
             \/ LoopDetected(t) \/ ToolsReturn(t) \/ ForcedDelivery(t)
    BY <2>2, ModelSteps
  <2>3. CASE ModelCallsTools(t)
    BY <2>3, CallStep
  <2>4. CASE DrainSteer(t)
    BY <2>4, DrainStep
  <2>5. CASE AppendSteer(t) \/ ParkLeftover(t)
    BY <2>5, FoldStep
  <2>6. CASE PadScan(t) \/ PadAppend(t)
    BY <2>6, PadStep
  <2>7. CASE FlushLeftoverSteer(t)
    BY <2>7, FlushStep
  <2>8. CASE HookRecords(t) \/ HookEndTurn(t) \/ SlashReply(t)
    BY <2>8, HookStep
  <2>9. QED
    BY <1>4, <2>1, <2>2, <2>3, <2>4, <2>5, <2>6, <2>7, <2>8 DEF TurnStep
<1>5. QED
  BY <1>1, <1>2, <1>3, <1>4 DEF Next
-----------------------------------------------------------------------------
\* The inductive invariant holds of every reachable state.
THEOREM Invariance == Spec => []IInv
<1>1. Init => IInv
  BY InitIInv
<1>2. IInv /\ [Next]_vars => IInv'
  BY NextStep
<1>3. QED
  BY <1>1, <1>2, PTL DEF Spec

\* Every variable keeps its type, for any number of turns and messages.
THEOREM TypeCorrect == Spec => []TypeOK
<1>1. IInv => TypeOK
  BY DEF IInv
<1>2. QED
  BY <1>1, Invariance, PTL

\* PushSteerIfActive never accepts a message that no turn will take out of the
\* buffer again, however many turns of the session overlap.
THEOREM SteerAccounted == Spec => []SteerHasTurn
<1>1. IInv => SteerHasTurn
  BY InFlightFinite DEF IInv, SteerHasTurn, DepthInv, BufferInv
<1>2. QED
  BY <1>1, Invariance, PTL
-----------------------------------------------------------------------------
(* Every message at one place, however turns overlap.  Places(m) is a sum of *)
(* eight counts; each step takes one from a count and gives it to another,   *)
(* so that the sum stays, and no two of the places need be compared.         *)

\* How often x is in s.
Count(s, x) == Cardinality({i \in 1..Len(s) : s[i] = x})

\* 1 if m is in the set.
In(S, m) == IF m \in S THEN 1 ELSE 0

Said(m) == [role |-> "user", id |-> m]

\* Turns that were called with m and have not recorded it, for their points p
\* and messages o.
Opening(p, o, m) == {t \in Turns : p[t] \in {"begin", "user"} /\ o[t] = m}

\* Where m is in the hands of turn t, and of all turns, if h is what they hold.
HandOf(h, t, m) == {<<t, i>> : i \in {j \in 1..Len(h[t]) : h[t][j] = m}}
Carried(h, m) == UNION {HandOf(h, t, m) : t \in Turns}

\* Places, term by term.
LEMMA PlacesSum ==
    ASSUME NEW m
    PROVE  Places(m) = In(fresh, m) + In(refused, m) + In(lost, m) + Count(queue, m)
                       + Count(steerBuf, m) + Count(hist, Said(m))
                       + Cardinality(Opening(pc, own, m)) + Cardinality(Carried(held, m))
BY Zenon DEF Places, In, Count, Said, Opening, Carried, HandOf

\* One more element, one less.
LEMMA OneMore ==
    ASSUME NEW S, NEW x, IsFiniteSet(S), x \notin S
    PROVE  IsFiniteSet(S \cup {x}) /\ Cardinality(S \cup {x}) = Cardinality(S) + 1
BY FS_AddElement, Zenon

LEMMA OneLess ==
    ASSUME NEW S, NEW x, IsFiniteSet(S), x \in S
    PROVE  IsFiniteSet(S \ {x}) /\ Cardinality(S) = Cardinality(S \ {x}) + 1
<1>1. IsFiniteSet(S \ {x}) /\ x \notin S \ {x} /\ S = (S \ {x}) \cup {x}
  BY FS_RemoveElement
<1> QED
  BY <1>1, OneMore, Zenon

\* A bijection keeps the number.
LEMMA SameNumber ==
    ASSUME NEW S, NEW T, IsFiniteSet(S), NEW f \in [S -> T],
           \A x, y \in S : f[x] = f[y] => x = y, \A y \in T : \E x \in S : f[x] = y
    PROVE  IsFiniteSet(T) /\ Cardinality(T) = Cardinality(S)
<1>1. f \in Bijection(S, T)
  BY Zenon DEF Bijection, Injection, Surjection, IsInjective
<1> QED
  BY <1>1, FS_Bijection, Zenon DEF ExistsBijection

\* A count is a number, and positive if there is something to count.
LEMMA CountNat ==
    ASSUME NEW S, NEW s \in Seq(S), NEW x
    PROVE  /\ Count(s, x) \in Nat
           /\ \A i \in 1..Len(s) : s[i] = x => Count(s, x) >= 1
           /\ \A i, j \in 1..Len(s) : s[i] = x /\ s[j] = x /\ i # j => Count(s, x) >= 2
           /\ IsFiniteSet({i \in 1..Len(s) : s[i] = x})
<1> DEFINE P == {i \in 1..Len(s) : s[i] = x}
<1>1. Len(s) \in Nat
  BY LenProperties
<1>2. IsFiniteSet(P)
  <2>1. IsFiniteSet(1..Len(s))
    BY <1>1, FS_Interval
  <2> QED
    BY <2>1, FS_Subset
<1>3. Cardinality(P) \in Nat
  BY <1>2, FS_CardinalityType
<1>4. ASSUME NEW i \in 1..Len(s), s[i] = x PROVE Cardinality(P) >= 1
  <2>1. {i} \in SUBSET P
    BY <1>4
  <2>2. Cardinality({i}) = 1 /\ Cardinality({i}) <= Cardinality(P)
    BY <1>2, <2>1, FS_Subset, FS_Singleton
  <2> QED
    BY <1>3, <2>2
<1>5. ASSUME NEW i \in 1..Len(s), NEW j \in 1..Len(s), s[i] = x, s[j] = x, i # j
      PROVE  Cardinality(P) >= 2
  <2> DEFINE pair == {i} \cup {j}
  <2>1. pair \in SUBSET P /\ j \notin {i}
    BY <1>5
  <2>2. Cardinality({i}) = 1 /\ IsFiniteSet({i})
    BY FS_Singleton
  <2>3. Cardinality(pair) = Cardinality({i}) + 1
    BY <2>1, <2>2, OneMore, Zenon
  <2>4. Cardinality(pair) <= Cardinality(P)
    BY <1>2, <2>1, FS_Subset
  <2> HIDE DEF pair, P
  <2> QED
    BY <1>3, <2>2, <2>3, <2>4
<1> QED
  BY <1>2, <1>3, <1>4, <1>5, Zenon DEF Count

\* Nothing is counted in the empty sequence.
LEMMA CountEmpty ==
    ASSUME NEW x PROVE Count(<<>>, x) = 0
<1>1. {i \in 1..Len(<<>>) : <<>>[i] = x} = {}
  OBVIOUS
<1> QED
  BY <1>1, FS_EmptySet DEF Count

\* An entry at the end counts for itself.
LEMMA CountAppend ==
    ASSUME NEW S, NEW s \in Seq(S), NEW e \in S, NEW x
    PROVE  Count(Append(s, e), x) = Count(s, x) + In({e}, x)
<1> DEFINE n == Len(s)
           r == Append(s, e)
           P == {i \in 1..n : s[i] = x}
           Q == {i \in 1..(n + 1) : r[i] = x}
<1>1. n \in Nat /\ Len(r) = n + 1 /\ (\A i \in 1..n : r[i] = s[i]) /\ r[n + 1] = e
  BY LenProperties, AppendProperties
<1>2. IsFiniteSet(P) /\ Cardinality(P) \in Nat
  BY CountNat, FS_CardinalityType
<1> HIDE DEF n, r
<1>3. Q = IF e = x THEN P \cup {n + 1} ELSE P
  BY <1>1
<1>4. n + 1 \notin P
  BY <1>1
<1>5. Cardinality(Q) = Cardinality(P) + In({e}, x)
  <2>1. Cardinality(P \cup {n + 1}) = Cardinality(P) + 1
    BY <1>2, <1>4, OneMore, Zenon
  <2> HIDE DEF P, Q
  <2> QED
    BY <1>2, <1>3, <2>1 DEF In
<1>6. Count(r, x) = Cardinality(Q) /\ Count(s, x) = Cardinality(P)
  BY <1>1 DEF Count, n
<1> QED
  BY <1>5, <1>6 DEF r

\* What leaves at the front is counted no more.
LEMMA CountTail ==
    ASSUME NEW S, NEW s \in Seq(S), s # <<>>, NEW x
    PROVE  Count(s, x) = Count(Tail(s), x) + In({Head(s)}, x)
<1> DEFINE n == Len(s)
           r == Tail(s)
           P == {i \in 1..n : s[i] = x}
           Q == {i \in 1..(n - 1) : r[i] = x}
           R == {i \in 2..n : s[i] = x}
<1>1. n \in Nat \ {0} /\ Len(r) = n - 1 /\ (\A i \in 1..(n - 1) : r[i] = s[i + 1])
  BY EmptySeq, LenProperties, HeadTailProperties
<1>2. Head(s) = s[1]
  BY EmptySeq
<1>3. IsFiniteSet(P) /\ Cardinality(P) \in Nat
  BY CountNat, FS_CardinalityType
<1>4. IsFiniteSet(Q)
  <2>1. IsFiniteSet(1..(n - 1))
    BY <1>1, FS_Interval
  <2> QED
    BY <2>1, FS_Subset
<1> HIDE DEF n, r
<1>5. Cardinality(R) = Cardinality(Q)
  <2> DEFINE f == [i \in Q |-> i + 1]
  <2>1. f \in [Q -> R]
    BY <1>1
  <2>2. \A i, k \in Q : f[i] = f[k] => i = k
    BY <1>1
  <2>3. \A k \in R : \E i \in Q : f[i] = k
    <3> SUFFICES ASSUME NEW k \in R PROVE \E i \in Q : f[i] = k
      OBVIOUS
    <3>1. k - 1 \in Q /\ (k - 1) + 1 = k
      BY <1>1
    <3> QED
      BY <3>1
  <2> HIDE DEF f, Q, R
  <2> QED
    BY <1>4, <2>1, <2>2, <2>3, SameNumber
<1>6. R \subseteq P /\ 1 \notin R /\ P = IF s[1] = x THEN R \cup {1} ELSE R
  BY <1>1
<1>7. IsFiniteSet(R) /\ Cardinality(R) \in Nat
  BY <1>3, <1>6, FS_Subset, FS_CardinalityType
<1> HIDE DEF P, Q, R
<1>8. Cardinality(P) = Cardinality(R) + In({s[1]}, x)
  <2>1. Cardinality(R \cup {1}) = Cardinality(R) + 1
    BY <1>6, <1>7, OneMore, Zenon
  <2> QED
    BY <1>6, <1>7, <2>1 DEF In
<1>9. Count(r, x) = Cardinality(Q) /\ Count(s, x) = Cardinality(P)
  BY <1>1 DEF Count, n, P, Q
<1> QED
  BY <1>2, <1>5, <1>8, <1>9 DEF r

\* A turn that has nothing to fold or to park holds no message.
HandsFree == \A t \in Turns : pc[t] \notin {"fold", "park"} => held[t] = <<>>

OneInv == OnePlace /\ HandsFree

Entries == [role : Roles, id : Messages \cup Nat]

\* The turns that are opening are finitely many.
LEMMA OpeningFinite ==
    ASSUME NEW p, NEW o, NEW m
    PROVE  IsFiniteSet(Opening(p, o, m)) /\ Cardinality(Opening(p, o, m)) \in Nat
<1>1. Opening(p, o, m) \subseteq Turns
  BY DEF Opening
<1> QED
  BY <1>1, SteeringAssumption, FS_Subset, FS_CardinalityType

\* What a turn has in its hands is what its sequence counts.
LEMMA HandCount ==
    ASSUME NEW t \in Turns, NEW h, h[t] \in Seq(Messages), NEW m
    PROVE  IsFiniteSet(HandOf(h, t, m)) /\ Cardinality(HandOf(h, t, m)) = Count(h[t], m)
<1> DEFINE P == {i \in 1..Len(h[t]) : h[t][i] = m}
           f == [i \in P |-> <<t, i>>]
<1>1. IsFiniteSet(P)
  BY CountNat, Zenon
<1>2. HandOf(h, t, m) = {<<t, i>> : i \in P}
  BY Zenon DEF HandOf
<1>3. f \in [P -> HandOf(h, t, m)] /\ \A y \in HandOf(h, t, m) : \E i \in P : f[i] = y
  BY <1>2, Zenon
<1>4. \A i, k \in P : f[i] = f[k] => i = k
  OBVIOUS
<1> HIDE DEF f, P
<1>5. IsFiniteSet(HandOf(h, t, m)) /\ Cardinality(HandOf(h, t, m)) = Cardinality(P)
  BY <1>1, <1>3, <1>4, SameNumber, Zenon
<1> QED
  BY <1>5, Zenon DEF Count, P

\* All hands are one turn's and the others'.
HandsBut(h, t, m) == UNION {HandOf(h, u, m) : u \in Turns \ {t}}

LEMMA CarrySplit ==
    ASSUME NEW h, \A u \in Turns : h[u] \in Seq(Messages), NEW t \in Turns, NEW m
    PROVE  /\ Cardinality(HandsBut(h, t, m)) \in Nat
           /\ Cardinality(Carried(h, m)) = Cardinality(HandsBut(h, t, m)) + Count(h[t], m)
<1> DEFINE rest == HandsBut(h, t, m)
           S == Turns \ {t}
           hands == {HandOf(h, u, m) : u \in S}
<1>1. IsFiniteSet(rest)
  <2>1. IsFiniteSet(hands)
    <3> DEFINE f == [u \in S |-> HandOf(h, u, m)]
    <3>1. IsFiniteSet(S)
      BY SteeringAssumption, FS_RemoveElement
    <3>2. f \in Surjection(S, hands)
      BY Zenon DEF Surjection
    <3> QED
      BY <3>1, <3>2, FS_Surjection, Zenon
  <2>2. \A T \in hands : IsFiniteSet(T)
    BY HandCount, Zenon
  <2> QED
    BY <2>1, <2>2, FS_UNION, Zenon DEF HandsBut
<1>2. rest \cap HandOf(h, t, m) = {}
  <2> SUFFICES ASSUME NEW u \in S, NEW y, y \in HandOf(h, u, m), y \in HandOf(h, t, m)
               PROVE  FALSE
    BY Zenon DEF HandsBut
  <2>1. y[1] = u /\ y[1] = t
    BY DEF HandOf
  <2> QED
    BY <2>1
<1>3. Carried(h, m) = rest \cup HandOf(h, t, m)
  BY Zenon DEF Carried, HandsBut
<1>4. IsFiniteSet(HandOf(h, t, m)) /\ Cardinality(HandOf(h, t, m)) = Count(h[t], m)
  BY HandCount, Zenon
<1>5. Cardinality(HandOf(h, t, m)) \in Nat /\ Cardinality(rest) \in Nat
  BY <1>1, <1>4, FS_CardinalityType, Zenon
<1>6. Cardinality(Carried(h, m)) = Cardinality(rest) + Cardinality(HandOf(h, t, m)) - Cardinality({})
  BY <1>1, <1>2, <1>3, <1>4, FS_Union, Zenon
<1> HIDE DEF rest
<1>7. Cardinality(Carried(h, m)) = Cardinality(rest) + Count(h[t], m)
  BY <1>4, <1>5, <1>6, FS_EmptySet
<1> QED
  BY <1>5, <1>7 DEF rest

\* The number of places in hands is a number.
LEMMA CarryNat ==
    ASSUME NEW h, \A u \in Turns : h[u] \in Seq(Messages), NEW m
    PROVE  Cardinality(Carried(h, m)) \in Nat
<1>1. CASE Turns = {}
  BY <1>1, FS_EmptySet DEF Carried
<1>2. ASSUME NEW t \in Turns PROVE Cardinality(Carried(h, m)) \in Nat
  <2>1. Count(h[t], m) \in Nat
    BY CountNat
  <2>2. /\ Cardinality(HandsBut(h, t, m)) \in Nat
        /\ Cardinality(Carried(h, m)) = Cardinality(HandsBut(h, t, m)) + Count(h[t], m)
    BY CarrySplit, Zenon
  <2> QED
    BY <2>1, <2>2
<1> QED
  BY <1>1, <1>2

\* The eight counts are numbers.
Numbered(m) ==
    /\ In(fresh, m) \in Nat /\ In(refused, m) \in Nat /\ In(lost, m) \in Nat
    /\ Count(queue, m) \in Nat /\ Count(steerBuf, m) \in Nat /\ Count(hist, Said(m)) \in Nat
    /\ Cardinality(Opening(pc, own, m)) \in Nat /\ Cardinality(Carried(held, m)) \in Nat

LEMMA Numbers ==
    ASSUME TypeOK, NEW m PROVE Numbered(m)
<1>1. queue \in Seq(Messages) /\ steerBuf \in Seq(Messages) /\ hist \in Seq(Entries)
      /\ \A u \in Turns : held[u] \in Seq(Messages)
  BY DEF TypeOK, Entries
<1>2. Cardinality(Carried(held, m)) \in Nat
  BY <1>1, CarryNat, Zenon
<1> QED
  BY <1>1, <1>2, CountNat, OpeningFinite DEF In, Numbered

\* What a turn takes into its hands or gives away changes the count by that.
LEMMA CarryChange ==
    ASSUME TypeOK, NEW t \in Turns, NEW s \in Seq(Messages),
           held' = [held EXCEPT ![t] = s], NEW m
    PROVE  /\ Cardinality(Carried(held', m)) \in Nat
           /\ Cardinality(Carried(held', m)) + Count(held[t], m)
                = Cardinality(Carried(held, m)) + Count(s, m)
<1>1. held'[t] = s /\ (\A u \in Turns \ {t} : held'[u] = held[u])
      /\ \A u \in Turns : held[u] \in Seq(Messages) /\ held'[u] \in Seq(Messages)
  BY DEF TypeOK
<1>2. \A u \in Turns \ {t} : HandOf(held', u, m) = HandOf(held, u, m)
  BY <1>1, Zenon DEF HandOf
<1>3. HandsBut(held', t, m) = HandsBut(held, t, m)
  BY <1>2, Zenon DEF HandsBut
<1>4. /\ Cardinality(HandsBut(held, t, m)) \in Nat
      /\ Cardinality(Carried(held, m)) = Cardinality(HandsBut(held, t, m)) + Count(held[t], m)
  BY <1>1, CarrySplit, Zenon
<1>5. Cardinality(Carried(held', m)) = Cardinality(HandsBut(held', t, m)) + Count(held'[t], m)
  BY <1>1, CarrySplit, Zenon
<1>6. Count(held[t], m) \in Nat /\ Count(s, m) \in Nat
  BY <1>1, CountNat
<1> QED
  BY <1>1, <1>3, <1>4, <1>5, <1>6

\* What one place loses another one gets.
Balanced(m) ==
    In(fresh', m) + In(refused', m) + In(lost', m) + Count(queue', m) + Count(steerBuf', m)
      + Count(hist', Said(m)) + Cardinality(Opening(pc', own', m)) + Cardinality(Carried(held', m))
    = In(fresh, m) + In(refused, m) + In(lost, m) + Count(queue, m) + Count(steerBuf, m)
      + Count(hist, Said(m)) + Cardinality(Opening(pc, own, m)) + Cardinality(Carried(held, m))

LEMMA Balance ==
    ASSUME NEW m, Places(m) = 1, Balanced(m) PROVE Places(m)' = 1
<1>1. Places(m)' = In(fresh', m) + In(refused', m) + In(lost', m) + Count(queue', m)
                     + Count(steerBuf', m) + Count(hist', Said(m))
                     + Cardinality(Opening(pc', own', m)) + Cardinality(Carried(held', m))
  BY Zenon DEF Places, In, Count, Said, Opening, Carried, HandOf
<1> QED
  BY <1>1, PlacesSum, Zenon DEF Balanced

\* A message in the history, or an entry that is none.
LEMMA SaidMore ==
    ASSUME TypeOK, NEW e \in Messages, Record("user", e), NEW m
    PROVE  Count(hist', Said(m)) = Count(hist, Said(m)) + In({e}, m)
<1>1. hist \in Seq(Entries) /\ Said(e) \in Entries /\ hist' = Append(hist, Said(e))
  BY DEF TypeOK, Entries, Record, Said, Roles
<1>2. Count(hist', Said(m)) = Count(hist, Said(m)) + In({Said(e)}, Said(m))
  BY <1>1, CountAppend
<1>3. Said(e) = Said(m) <=> e = m
  BY DEF Said
<1> QED
  BY <1>2, <1>3 DEF In

LEMMA SaidSame ==
    ASSUME TypeOK, NEW r \in Roles \ {"user"}, NEW c \in Messages \cup Nat, Record(r, c), NEW m
    PROVE  Count(hist', Said(m)) = Count(hist, Said(m))
<1> DEFINE e == [role |-> r, id |-> c]
<1>1. hist \in Seq(Entries) /\ e \in Entries /\ hist' = Append(hist, e) /\ e # Said(m)
  BY DEF TypeOK, Entries, Record, Said
<1>2. Count(hist', Said(m)) = Count(hist, Said(m)) + In({e}, Said(m))
  BY <1>1, CountAppend
<1>3. Count(hist, Said(m)) \in Nat
  BY Numbers DEF Numbered
<1> QED
  BY <1>1, <1>2, <1>3 DEF In

\* Arrivals: from fresh into the buffer, to the refused or into the history, and
\* from the refused into the queue.
LEMMA OneByArrival ==
    ASSUME TypeOK, OneInv, NEW m \in Messages,
           PushSteerIfActive(m) \/ InjectGroupMessage(m) \/ Submit(m)
    PROVE  OneInv'
<1>1. UNCHANGED <<pc, own, held, lost>>
  BY Zenon DEF PushSteerIfActive, InjectGroupMessage, Submit, locals, ghosts
<1>2. HandsFree'
  BY <1>1, Zenon DEF OneInv, HandsFree
<1>3. ASSUME NEW x \in Messages PROVE Balanced(x)
  <2>1. Places(x) = 1
    BY <1>3, Zenon DEF OneInv, OnePlace
  <2>0. Numbered(x) /\ \A S : In(S, x) \in Nat
    BY Numbers DEF In
  <2>2. CASE PushSteerIfActive(m) /\ turnDepth > 0
    <3>1. m \in fresh /\ fresh' = fresh \ {m} /\ UNCHANGED <<refused, queue, hist>>
      BY <2>2 DEF PushSteerIfActive
    <3>2. Count(steerBuf', x) = Count(steerBuf, x) + In({m}, x)
      <4>1. steerBuf' = Append(steerBuf, m)
        BY <2>2, Zenon DEF PushSteerIfActive
      <4> QED
        BY <4>1, CountAppend DEF TypeOK
    <3>3. In(fresh, x) = In(fresh', x) + In({m}, x)
      BY <3>1 DEF In
    <3> QED
      BY <2>0, <1>1, <3>1, <3>2, <3>3 DEF Numbered, Balanced
  <2>3. CASE PushSteerIfActive(m) /\ ~(turnDepth > 0)
    <3>1. /\ m \in fresh /\ fresh' = fresh \ {m} /\ refused' = refused \cup {m}
          /\ UNCHANGED <<steerBuf, queue, hist>>
      BY <2>3 DEF PushSteerIfActive
    <3>2. In(fresh, x) = In(fresh', x) + In({m}, x)
      BY <3>1 DEF In
    <3>3. In(fresh, x) + In(refused, x) <= 1
      BY <2>0, <2>1, PlacesSum DEF Numbered
    <3>4. In(refused', x) = In(refused, x) + In({m}, x)
      BY <3>1, <3>3 DEF In
    <3> QED
      BY <2>0, <1>1, <3>1, <3>2, <3>4 DEF Numbered, Balanced
  <2>4. CASE InjectGroupMessage(m)
    <3>1. /\ m \in fresh /\ fresh' = fresh \ {m} /\ Record("user", m)
          /\ UNCHANGED <<refused, queue, steerBuf>>
      BY <2>4 DEF InjectGroupMessage, session
    <3>2. In(fresh, x) = In(fresh', x) + In({m}, x)
      BY <3>1 DEF In
    <3>3. Count(hist', Said(x)) = Count(hist, Said(x)) + In({m}, x)
      BY <3>1, SaidMore
    <3> QED
      BY <2>0, <1>1, <3>1, <3>2, <3>3 DEF Numbered, Balanced
  <2>5. CASE Submit(m)
    <3>1. m \in refused /\ refused' = refused \ {m} /\ UNCHANGED <<fresh, steerBuf, hist>>
      BY <2>5 DEF Submit, session
    <3>2. In(refused, x) = In(refused', x) + In({m}, x)
      BY <3>1 DEF In
    <3>3. Count(queue', x) = Count(queue, x) + In({m}, x)
      BY <2>5, CountAppend DEF Submit, TypeOK
    <3> QED
      BY <2>0, <1>1, <3>1, <3>2, <3>3 DEF Numbered, Balanced
  <2> QED
    BY <2>2, <2>3, <2>4, <2>5
<1> QED
  BY <1>2, <1>3, Balance, Zenon DEF OneInv, OnePlace

\* A message is handed to a turn of its own.
LEMMA OneByStart ==
    ASSUME TypeOK, OneInv, NEW t \in Turns, Start(t) PROVE OneInv'
<1>1. PICK k \in Kinds, m \in Messages :
        /\ pc[t] = "idle" /\ Enter(t, m, k)
        /\ \/ queue # <<>> /\ m = Head(queue) /\ queue' = Tail(queue) /\ UNCHANGED refused
           \/ m \in refused /\ refused' = refused \ {m} /\ UNCHANGED queue
  <2>1. PICK k \in Kinds : HandleTask(t, k) \/ \E m \in WebMsgs : HandleWebChatStream(t, m, k)
    BY Zenon DEF Start
  <2>2. CASE HandleTask(t, k)
    <3>1. Head(queue) \in Messages
      BY <2>2 DEF HandleTask, TypeOK
    <3> QED
      BY <2>2, <3>1, Zenon DEF HandleTask
  <2>3. ASSUME NEW m \in WebMsgs, HandleWebChatStream(t, m, k) PROVE m \in Messages
    BY SteeringAssumption
  <2> QED
    BY <2>1, <2>2, <2>3 DEF HandleWebChatStream
<1>2. /\ pc'[t] \in {"begin", "user"} /\ own'[t] = m
      /\ \A u \in Turns \ {t} : pc'[u] = pc[u] /\ own'[u] = own[u]
      /\ UNCHANGED <<fresh, steerBuf, hist, held, lost>>
  BY <1>1 DEF Enter, Goto, session, TypeOK
<1>3. HandsFree'
  BY <1>1, <1>2 DEF OneInv, HandsFree
<1>4. ASSUME NEW x \in Messages PROVE Balanced(x)
  <2>1. Places(x) = 1
    BY <1>4, Zenon DEF OneInv, OnePlace
  <2>0. Numbered(x) /\ \A S : In(S, x) \in Nat
    BY Numbers DEF In
  <2>2. /\ t \notin Opening(pc, own, x)
        /\ Opening(pc', own', x) = IF m = x THEN Opening(pc, own, x) \cup {t} ELSE Opening(pc, own, x)
    BY <1>1, <1>2 DEF Opening
  <2>3. Cardinality(Opening(pc', own', x)) = Cardinality(Opening(pc, own, x)) + In({m}, x)
    <3>1. IsFiniteSet(Opening(pc, own, x)) /\ Cardinality(Opening(pc, own, x)) \in Nat
      BY OpeningFinite
    <3>2. Cardinality(Opening(pc, own, x) \cup {t}) = Cardinality(Opening(pc, own, x)) + 1
      BY <2>2, <3>1, OneMore, Zenon
    <3> QED
      BY <2>2, <3>1, <3>2 DEF In
  <2>4. CASE queue # <<>> /\ m = Head(queue) /\ queue' = Tail(queue) /\ UNCHANGED refused
    <3>1. Count(queue, x) = Count(queue', x) + In({m}, x)
      BY <2>4, CountTail DEF TypeOK
    <3>2. Count(queue', x) \in Nat
      <4>1. queue' \in Seq(Messages)
        BY <2>4, HeadTailProperties DEF TypeOK
      <4> QED
        BY <4>1, CountNat
    <3>3. refused' = refused
      BY <2>4
    <3> QED
      BY <2>0, <1>2, <2>3, <3>1, <3>2, <3>3 DEF Numbered, Balanced
  <2>5. CASE m \in refused /\ refused' = refused \ {m} /\ UNCHANGED queue
    <3>1. In(refused, x) = In(refused', x) + In({m}, x)
      BY <2>5 DEF In
    <3> QED
      BY <2>0, <1>2, <2>3, <2>5, <3>1 DEF Numbered, Balanced
  <2> QED
    BY <1>1, <2>4, <2>5
<1> QED
  BY <1>3, <1>4, Balance, Zenon DEF OneInv, OnePlace

\* A turn records the message it was called with.
LEMMA OneByUser ==
    ASSUME IInv, OneInv, NEW t \in Turns, AppendUser(t) PROVE OneInv'
<1>1. /\ pc[t] = "user" /\ pc'[t] \notin {"begin", "user"} /\ own[t] \in Messages
      /\ \A u \in Turns \ {t} : pc'[u] = pc[u]
      /\ UNCHANGED <<fresh, refused, queue, steerBuf, own, held, lost>>
  <2>1. kind[t] \in {"loop", "plan", "hook", "slash"}
    BY SteeringAssumption DEF IInv, TypeOK
  <2> QED
    BY <2>1 DEF AppendUser, Quiet, Goto, FirstStep, arrival, session, ghosts, IInv, TypeOK, PathInv
<1>2. HandsFree'
  BY <1>1 DEF OneInv, HandsFree
<1>3. ASSUME NEW x \in Messages PROVE Balanced(x)
  <2>0. Numbered(x) /\ \A S : In(S, x) \in Nat
    BY Numbers DEF In, IInv
  <2>1. Count(hist', Said(x)) = Count(hist, Said(x)) + In({own[t]}, x)
    BY <1>1, SaidMore DEF AppendUser, IInv
  <2>2. Cardinality(Opening(pc, own, x)) = Cardinality(Opening(pc', own', x)) + In({own[t]}, x)
    <3>1. IsFiniteSet(Opening(pc, own, x))
      BY OpeningFinite
    <3>2. CASE own[t] = x
      <4>1. t \in Opening(pc, own, x) /\ Opening(pc', own', x) = Opening(pc, own, x) \ {t}
        BY <1>1, <3>2 DEF Opening
      <4>2. Cardinality(Opening(pc, own, x)) = Cardinality(Opening(pc', own', x)) + 1
        BY <3>1, <4>1, OneLess, Zenon
      <4> QED
        BY <3>2, <4>2 DEF In
    <3>3. CASE own[t] # x
      <4>1. Opening(pc', own', x) = Opening(pc, own, x)
        BY <1>1, <3>3 DEF Opening
      <4> QED
        BY <2>0, <3>3, <4>1 DEF In, Numbered
    <3> QED
      BY <3>2, <3>3
  <2>3. Cardinality(Opening(pc', own', x)) \in Nat
    BY OpeningFinite
  <2> QED
    BY <1>1, <2>0, <2>1, <2>2, <2>3 DEF Numbered, Balanced
<1> QED
  BY <1>2, <1>3, Balance, Zenon DEF OneInv, OnePlace

\* The drain takes the buffer into the hands of the turn.
LEMMA OneByDrain ==
    ASSUME IInv, OneInv, NEW t \in Turns, DrainSteer(t) PROVE OneInv'
<1>1. /\ pc[t] \in {"lastDrain", "roundDrain"} /\ pc'[t] \in {"fold", "pad", "model"}
      /\ pc'[t] # "fold" => steerBuf = <<>>
      /\ \A u \in Turns \ {t} : pc'[u] = pc[u]
  BY DEF DrainSteer, Goto, IInv, TypeOK
<1>2. held' = [held EXCEPT ![t] = steerBuf] /\ steerBuf' = <<>>
  BY Zenon DEF DrainSteer
<1>3. UNCHANGED <<fresh, refused, queue, hist, own, lost>>
  BY Zenon DEF DrainSteer, arrival, ghosts
<1>4. held[t] = <<>>
  BY <1>1 DEF OneInv, HandsFree
<1>5. HandsFree'
  <2>1. held'[t] = steerBuf /\ \A u \in Turns \ {t} : held'[u] = held[u]
    BY <1>2 DEF IInv, TypeOK
  <2> QED
    BY <1>1, <2>1 DEF OneInv, HandsFree
<1>6. ASSUME NEW x \in Messages PROVE Balanced(x)
  <2>0. Numbered(x)
    BY Numbers DEF IInv
  <2>1. /\ Cardinality(Carried(held', x)) \in Nat
        /\ Cardinality(Carried(held', x)) + Count(held[t], x)
             = Cardinality(Carried(held, x)) + Count(steerBuf, x)
    BY <1>2, CarryChange DEF IInv, TypeOK
  <2>2. Count(held[t], x) = 0 /\ Count(steerBuf', x) = 0
    BY <1>2, <1>4, CountEmpty, Zenon
  <2>3. Opening(pc', own', x) = Opening(pc, own, x)
    BY <1>1, <1>3 DEF Opening
  <2> QED
    BY <1>3, <2>0, <2>1, <2>2, <2>3 DEF Numbered, Balanced
<1> QED
  BY <1>5, <1>6, Balance, Zenon DEF OneInv, OnePlace

\* A message goes from the hands of the turn into the history.
LEMMA OneByFold ==
    ASSUME IInv, OneInv, NEW t \in Turns, AppendSteer(t) \/ ParkLeftover(t) PROVE OneInv'
<1> DEFINE e == Head(held[t])
           rest == Tail(held[t])
<1>1. pc[t] \in {"fold", "park"} /\ held[t] # <<>> /\ held[t] \in Seq(Messages)
  BY DEF AppendSteer, ParkLeftover, IInv, PathInv, TypeOK
<1>2. /\ e \in Messages /\ rest \in Seq(Messages) /\ Len(rest) = Len(held[t]) - 1
      /\ Len(rest) = 0 => rest = <<>>
  BY <1>1, HeadTailProperties, EmptySeq
<1> HIDE DEF rest, e
<1>3. /\ held' = [held EXCEPT ![t] = rest] /\ Record("user", e)
      /\ UNCHANGED <<fresh, refused, queue, steerBuf, own, lost>>
  BY Zenon DEF AppendSteer, ParkLeftover, Quiet, arrival, session, ghosts, rest, e
<1>4. /\ pc'[t] \in {"fold", "park", "model", "idle"}
      /\ pc'[t] \notin {"fold", "park"} => Len(held[t]) = 1
      /\ \A u \in Turns \ {t} : pc'[u] = pc[u]
  BY <1>1 DEF AppendSteer, ParkLeftover, Goto, IInv, TypeOK
<1>5. HandsFree'
  <2>1. held'[t] = rest /\ \A u \in Turns \ {t} : held'[u] = held[u]
    BY <1>3 DEF IInv, TypeOK
  <2>2. pc'[t] \notin {"fold", "park"} => rest = <<>>
    BY <1>2, <1>4
  <2> QED
    BY <1>4, <2>1, <2>2, Zenon DEF OneInv, HandsFree
<1>6. ASSUME NEW x \in Messages PROVE Balanced(x)
  <2>0. Numbered(x) /\ In({e}, x) \in Nat
    BY Numbers DEF IInv, In
  <2>1. /\ Cardinality(Carried(held', x)) \in Nat
        /\ Cardinality(Carried(held', x)) + Count(held[t], x)
             = Cardinality(Carried(held, x)) + Count(rest, x)
    BY <1>2, <1>3, CarryChange DEF IInv
  <2>2. Count(held[t], x) = Count(rest, x) + In({e}, x) /\ Count(rest, x) \in Nat
    BY <1>1, <1>2, CountTail, CountNat DEF rest, e
  <2>3. Count(hist', Said(x)) = Count(hist, Said(x)) + In({e}, x)
    BY <1>2, <1>3, SaidMore DEF IInv
  <2>4. Opening(pc', own', x) = Opening(pc, own, x)
    BY <1>1, <1>3, <1>4 DEF Opening
  <2>5. UNCHANGED <<fresh, refused, queue, steerBuf, lost>>
    BY <1>3
  <2> QED
    BY <2>0, <2>1, <2>2, <2>3, <2>4, <2>5 DEF Numbered, Balanced
<1> QED
  BY <1>5, <1>6, Balance, Zenon DEF OneInv, OnePlace

\* What does not occur is not counted.
LEMMA CountZero ==
    ASSUME NEW s, NEW x, \A i \in 1..Len(s) : s[i] # x PROVE Count(s, x) = 0
<1>1. {i \in 1..Len(s) : s[i] = x} = {}
  OBVIOUS
<1> QED
  BY <1>1, FS_EmptySet, Zenon DEF Count

\* EndTurn: the buffer is left or taken whole.
LEMMA EndTakes ==
    ASSUME TypeOK, EndTurn
    PROVE  \/ Leftover = steerBuf /\ steerBuf' = <<>>
           \/ Leftover = <<>> /\ steerBuf' = steerBuf
BY DEF TypeOK, EndTurn, Leftover

\* The last turn takes what is left of the buffer into its hands.
LEMMA OneByFlush ==
    ASSUME IInv, OneInv, NEW t \in Turns, FlushLeftoverSteer(t) PROVE OneInv'
<1>1. /\ pc[t] = "end" /\ pc'[t] \in {"idle", "park"}
      /\ pc'[t] = "idle" => Leftover = <<>>
      /\ \A u \in Turns \ {t} : pc'[u] = pc[u]
  BY DEF FlushLeftoverSteer, Goto, IInv, TypeOK
<1>2. held' = [held EXCEPT ![t] = Leftover] /\ EndTurn
      /\ UNCHANGED <<fresh, refused, queue, hist, own, lost>>
  BY Zenon DEF FlushLeftoverSteer, arrival, ghosts
<1>3. held[t] = <<>> /\ Leftover \in Seq(Messages) /\ steerBuf \in Seq(Messages)
  <2>1. held[t] = <<>>
    BY <1>1 DEF OneInv, HandsFree
  <2>2. steerBuf \in Seq(Messages) /\ <<>> \in Seq(Messages)
    BY EmptySeq DEF IInv, TypeOK
  <2> QED
    BY <2>1, <2>2, Zenon DEF Leftover
<1>4. HandsFree'
  <2>1. held'[t] = Leftover /\ \A u \in Turns \ {t} : held'[u] = held[u]
    BY <1>2 DEF IInv, TypeOK
  <2> QED
    BY <1>1, <2>1 DEF OneInv, HandsFree
<1>5. ASSUME NEW x \in Messages PROVE Balanced(x)
  <2>0. Numbered(x)
    BY Numbers DEF IInv
  <2>1. /\ Cardinality(Carried(held', x)) \in Nat
        /\ Cardinality(Carried(held', x)) + Count(held[t], x)
             = Cardinality(Carried(held, x)) + Count(Leftover, x)
    BY <1>2, <1>3, CarryChange DEF IInv
  <2>2. Count(held[t], x) = 0
    BY <1>3, CountEmpty, Zenon
  <2>3. Opening(pc', own', x) = Opening(pc, own, x)
    BY <1>1, <1>2 DEF Opening
  <2>4. \/ Count(Leftover, x) = Count(steerBuf, x) /\ Count(steerBuf', x) = 0
        \/ Count(Leftover, x) = 0 /\ Count(steerBuf', x) = Count(steerBuf, x)
    BY <1>2, EndTakes, CountEmpty, Zenon DEF IInv
  <2>5. UNCHANGED <<fresh, refused, queue, hist, lost>>
    BY <1>2
  <2> QED
    BY <2>0, <2>1, <2>2, <2>3, <2>4, <2>5 DEF Numbered, Balanced
<1> QED
  BY <1>4, <1>5, Balance, Zenon DEF OneInv, OnePlace

\* A hook turn that ends last drops what is left of the buffer, once.
LEMMA OneByHookEnd ==
    ASSUME IInv, OneInv, NEW t \in Turns, HookEndTurn(t) PROVE OneInv'
<1>1. pc[t] = "hookEnd" /\ pc'[t] = "idle" /\ \A u \in Turns \ {t} : pc'[u] = pc[u]
  BY DEF HookEndTurn, Goto, IInv, TypeOK
<1>2. /\ lost' = lost \cup {Leftover[i] : i \in 1..Len(Leftover)} /\ EndTurn
      /\ UNCHANGED <<fresh, refused, queue, hist, own, held>>
  BY Zenon DEF HookEndTurn, arrival
<1>3. HandsFree'
  BY <1>1, <1>2 DEF OneInv, HandsFree
<1>4. ASSUME NEW x \in Messages PROVE Balanced(x)
  <2>0. Numbered(x) /\ \A S : In(S, x) \in {0, 1}
    BY Numbers DEF IInv, In
  <2>1. In(lost, x) + Count(steerBuf, x) <= 1
    <3>1. Places(x) = 1
      BY <1>4, Zenon DEF OneInv, OnePlace
    <3> QED
      BY <2>0, <3>1, PlacesSum DEF Numbered
  <2>2. Opening(pc', own', x) = Opening(pc, own, x)
    BY <1>1, <1>2 DEF Opening
  <2>3. UNCHANGED <<fresh, refused, queue, hist, held>>
    BY <1>2
  <2>4. CASE Leftover = steerBuf /\ steerBuf' = <<>>
    <3>1. Count(steerBuf', x) = 0
      BY <2>4, CountEmpty, Zenon
    <3>2. In(lost', x) = In(lost, x) + Count(steerBuf, x)
      <4>1. lost' = lost \cup {steerBuf[i] : i \in 1..Len(steerBuf)}
        BY <1>2, <2>4, Zenon
      <4>2. CASE \E i \in 1..Len(steerBuf) : steerBuf[i] = x
        <5>1. Count(steerBuf, x) >= 1 /\ x \in lost'
          BY <4>1, <4>2, CountNat DEF IInv, TypeOK
        <5> QED
          BY <2>0, <2>1, <5>1 DEF Numbered, In
      <4>3. CASE \A i \in 1..Len(steerBuf) : steerBuf[i] # x
        <5>1. Count(steerBuf, x) = 0
          BY <4>3, CountZero, Zenon
        <5>2. x \in lost' <=> x \in lost
          BY <4>1, <4>3, Zenon
        <5> QED
          BY <5>1, <5>2 DEF In
      <4> QED
        BY <4>2, <4>3
    <3> QED
      BY <2>0, <2>2, <2>3, <3>1, <3>2 DEF Numbered, Balanced
  <2>5. CASE Leftover = <<>> /\ steerBuf' = steerBuf
    <3>1. lost' = lost
      BY <1>2, <2>5
    <3>2. steerBuf' = steerBuf
      BY <2>5
    <3> QED
      BY <2>0, <2>2, <2>3, <3>1, <3>2 DEF Numbered, Balanced
  <2> QED
    BY <1>2, <2>4, <2>5, EndTakes, Zenon DEF IInv
<1> QED
  BY <1>3, <1>4, Balance, Zenon DEF OneInv, OnePlace

\* What the other steps of a turn record is no message.
LEMMA RecordedByOther ==
    ASSUME IInv, NEW t \in Turns,
           \/ BeginTurn(t) \/ ModelFails(t) \/ ModelAnswers(t) \/ ModelCallsTools(t)
           \/ LoopDetected(t) \/ ToolsReturn(t) \/ ForcedDelivery(t) \/ PadScan(t)
           \/ PadAppend(t) \/ HookRecords(t) \/ SlashReply(t)
    PROVE  hist' = hist \/ \E r \in Roles \ {"user"}, c \in Messages \cup Nat : Record(r, c)
<1>1. CASE ModelCallsTools(t)
  BY <1>1 DEF ModelCallsTools, Roles, IInv, TypeOK
<1>2. CASE LoopDetected(t) \/ ToolsReturn(t) \/ PadAppend(t)
  BY <1>2 DEF LoopDetected, ToolsReturn, PadAppend, Roles, IInv, PathInv
<1>3. CASE HookRecords(t)
  BY <1>3 DEF HookRecords, Roles, HookCall
<1>4. CASE \/ BeginTurn(t) \/ ModelFails(t) \/ ModelAnswers(t) \/ ForcedDelivery(t)
           \/ PadScan(t) \/ SlashReply(t)
  BY <1>4, Zenon DEF BeginTurn, ModelFails, ModelAnswers, ForcedDelivery, PadScan, SlashReply
<1> QED
  BY <1>1, <1>2, <1>3, <1>4, Zenon

\* The other steps of a turn move no message: they record no user entry.
LEMMA OneByOther ==
    ASSUME IInv, OneInv, NEW t \in Turns,
           \/ BeginTurn(t) \/ ModelFails(t) \/ ModelAnswers(t) \/ ModelCallsTools(t)
           \/ LoopDetected(t) \/ ToolsReturn(t) \/ ForcedDelivery(t) \/ PadScan(t)
           \/ PadAppend(t) \/ HookRecords(t) \/ SlashReply(t)
    PROVE  OneInv'
<1>1. /\ pc[t] \in {"begin", "user"} <=> pc'[t] \in {"begin", "user"}
      /\ pc[t] \notin {"fold", "park"} /\ pc'[t] \notin {"fold", "park"}
      /\ \A u \in Turns \ {t} : pc'[u] = pc[u]
  BY DEF BeginTurn, ModelFails, ModelAnswers, ModelCallsTools, LoopDetected, ToolsReturn,
     ForcedDelivery, PadScan, PadAppend, HookRecords, SlashReply, Goto, IInv, TypeOK
<1>2. UNCHANGED <<fresh, refused, queue, steerBuf, own, held, lost>>
  BY Zenon DEF BeginTurn, ModelFails, ModelAnswers, ModelCallsTools, LoopDetected, ToolsReturn,
     ForcedDelivery, PadScan, PadAppend, HookRecords, SlashReply, Quiet, arrival, session, ghosts
<1>3. hist' = hist \/ \E r \in Roles \ {"user"}, c \in Messages \cup Nat : Record(r, c)
  BY RecordedByOther
<1>4. HandsFree'
  BY <1>1, <1>2 DEF OneInv, HandsFree
<1>5. ASSUME NEW x \in Messages PROVE Balanced(x)
  <2>1. Opening(pc', own', x) = Opening(pc, own, x)
    BY <1>1, <1>2 DEF Opening
  <2>2. Count(hist', Said(x)) = Count(hist, Said(x))
    BY <1>3, SaidSame DEF IInv
  <2> QED
    BY <1>2, <2>1, <2>2, Zenon DEF Balanced
<1> QED
  BY <1>4, <1>5, Balance, Zenon DEF OneInv, OnePlace

\* At the start every message is fresh and nowhere else.
LEMMA OneAtStart == Init => OneInv
<1> SUFFICES ASSUME Init PROVE OneInv
  OBVIOUS
<1>1. HandsFree
  BY DEF Init, HandsFree
<1>2. ASSUME NEW x \in Messages PROVE Places(x) = 1
  <2>1. In(fresh, x) = 1 /\ In(refused, x) = 0 /\ In(lost, x) = 0
    BY DEF Init, In
  <2>2. Count(queue, x) = 0 /\ Count(steerBuf, x) = 0 /\ Count(hist, Said(x)) = 0
    BY CountEmpty, Zenon DEF Init
  <2>3. Opening(pc, own, x) = {}
    BY DEF Init, Opening
  <2>4. Carried(held, x) = {}
    <3>1. \A t \in Turns : HandOf(held, t, x) = {}
      BY DEF Init, HandOf
    <3> QED
      BY <3>1 DEF Carried
  <2> QED
    BY <2>1, <2>2, <2>3, <2>4, PlacesSum, FS_EmptySet
<1> QED
  BY <1>1, <1>2, Zenon DEF OneInv, OnePlace

\* Every step leaves every message at one place.
LEMMA OneStep == IInv /\ OneInv /\ [Next]_vars => OneInv'
<1> SUFFICES ASSUME IInv, OneInv, [Next]_vars PROVE OneInv'
  OBVIOUS
<1>1. CASE UNCHANGED vars
  <2>1. UNCHANGED <<fresh, refused, queue, steerBuf, hist, lost, pc, own, held>>
    BY <1>1, Zenon DEF vars, arrival, session, locals, ghosts
  <2>2. HandsFree' /\ \A x : Balanced(x)
    BY <2>1, Zenon DEF OneInv, HandsFree, Balanced
  <2> QED
    BY <2>2, Balance, Zenon DEF OneInv, OnePlace
<1>2. ASSUME NEW t \in Turns, TurnStep(t) PROVE OneInv'
  BY <1>2, OneByUser, OneByDrain, OneByFold, OneByFlush, OneByHookEnd, OneByOther, Zenon
     DEF TurnStep
<1>3. TypeOK
  BY DEF IInv
<1> QED
  BY <1>1, <1>2, <1>3, OneByArrival, OneByStart, Zenon DEF Next

\* The regex-hook points belong to turns of that kind.
HookPath ==
    \A t \in Turns : pc[t] \in {"hookCall", "hookTool", "hookAnswer", "hookEnd"} => kind[t] = "hook"

LEMMA HookPathStep == TypeOK /\ HookPath /\ [Next]_vars => HookPath'
<1> SUFFICES ASSUME TypeOK, HookPath, [Next]_vars PROVE HookPath'
  OBVIOUS
<1>1. CASE UNCHANGED vars
  BY <1>1, Zenon DEF vars, locals, HookPath
<1>2. ASSUME NEW m \in Messages, PushSteerIfActive(m) \/ InjectGroupMessage(m) \/ Submit(m)
      PROVE  HookPath'
  BY <1>2, Zenon DEF PushSteerIfActive, InjectGroupMessage, Submit, locals, HookPath
<1>3. ASSUME NEW t \in Turns, Start(t) PROVE HookPath'
  <2>1. PICK k, m : k \in Kinds /\ Enter(t, m, k)
    BY <1>3, Zenon DEF Start, HandleTask, HandleWebChatStream
  <2>2. pc'[t] \in {"begin", "user"} /\ \A u \in Turns \ {t} : pc'[u] = pc[u] /\ kind'[u] = kind[u]
    BY <2>1 DEF Enter, Goto, TypeOK
  <2> QED
    BY <2>2 DEF HookPath
<1>4. ASSUME NEW t \in Turns, TurnStep(t) PROVE HookPath'
  <2>1. kind' = kind
    BY <1>4, Zenon DEF TurnStep, BeginTurn, AppendUser, ModelFails, ModelAnswers, ModelCallsTools,
       LoopDetected, ToolsReturn, DrainSteer, AppendSteer, ForcedDelivery, PadScan, PadAppend,
       FlushLeftoverSteer, ParkLeftover, HookRecords, HookEndTurn, SlashReply, Quiet
  <2>2. \A u \in Turns \ {t} : pc'[u] = pc[u]
    BY <1>4 DEF TurnStep, BeginTurn, AppendUser, ModelFails, ModelAnswers, ModelCallsTools,
       LoopDetected, ToolsReturn, DrainSteer, AppendSteer, ForcedDelivery, PadScan, PadAppend,
       FlushLeftoverSteer, ParkLeftover, HookRecords, HookEndTurn, SlashReply, Goto, TypeOK
  <2>3. CASE HookRecords(t)
    <3>1. pc[t] \in {"hookCall", "hookTool", "hookAnswer"}
      BY <2>3 DEF HookRecords
    <3> QED
      BY <2>1, <2>2, <3>1 DEF HookPath
  <2>4. CASE AppendUser(t)
    <3>1. kind[t] \in {"loop", "plan", "hook", "slash"} /\ pc'[t] = FirstStep[kind[t]]
      BY <2>4, SteeringAssumption DEF AppendUser, Goto, TypeOK
    <3>2. pc'[t] = "hookCall" => kind[t] = "hook"
      BY <3>1 DEF FirstStep
    <3>3. pc'[t] \in {"model", "draft", "hookCall", "reply"}
      BY <3>1 DEF FirstStep
    <3> QED
      BY <2>1, <2>2, <3>2, <3>3 DEF HookPath
  <2>5. CASE ~HookRecords(t) /\ ~AppendUser(t)
    <3>1. pc'[t] \notin {"hookCall", "hookTool", "hookAnswer", "hookEnd"}
      BY <1>4, <2>5 DEF TurnStep, BeginTurn, ModelFails, ModelAnswers, ModelCallsTools,
       LoopDetected, ToolsReturn, DrainSteer, AppendSteer, ForcedDelivery, PadScan, PadAppend,
       FlushLeftoverSteer, ParkLeftover, HookEndTurn, SlashReply, Goto, TypeOK
    <3> QED
      BY <2>1, <2>2, <3>1 DEF HookPath
  <2> QED
    BY <2>3, <2>4, <2>5
<1> QED
  BY <1>1, <1>2, <1>3, <1>4, Zenon DEF Next

\* However many turns of the session overlap, every message is at exactly one
\* place from its arrival to the history, the history holds it once, and only
\* the end of a regex-hook turn drops any.
THEOREM NoneLostHolds == Spec => NoneLost
<1> DEFINE Dropped == lost' # lost => \E t \in Turns : kind[t] = "hook" /\ pc[t] = "hookEnd"
                                                       /\ pc'[t] = "idle"
<1>1. Init => OneInv /\ HookPath
  BY OneAtStart DEF Init, HookPath
<1>2. IInv /\ OneInv /\ HookPath /\ [Next]_vars => OneInv' /\ HookPath'
  BY OneStep, HookPathStep DEF IInv
<1>3. IInv /\ HookPath /\ [Next]_vars => [Dropped]_vars
  <2> SUFFICES ASSUME IInv, HookPath, [Next]_vars, lost' # lost
               PROVE  \E t \in Turns : kind[t] = "hook" /\ pc[t] = "hookEnd" /\ pc'[t] = "idle"
    OBVIOUS
  <2>1. PICK t \in Turns : HookEndTurn(t)
    BY Zenon DEF Next, vars, ghosts, PushSteerIfActive, InjectGroupMessage, Submit, Start,
       HandleTask, HandleWebChatStream, Enter, TurnStep, BeginTurn, AppendUser, ModelFails,
       ModelAnswers, ModelCallsTools, LoopDetected, ToolsReturn, DrainSteer, AppendSteer,
       ForcedDelivery, PadScan, PadAppend, FlushLeftoverSteer, ParkLeftover, HookRecords,
       SlashReply, Quiet
  <2>2. pc[t] = "hookEnd" /\ pc'[t] = "idle"
    BY <2>1 DEF HookEndTurn, Goto, IInv, TypeOK
  <2> QED
    BY <2>2, Zenon DEF HookPath
<1>4. OneInv => OnePlace
  BY DEF OneInv
<1> QED
  BY <1>1, <1>2, <1>3, <1>4, Invariance, PTL DEF Spec, NoneLost, LostOnlyByHook
-----------------------------------------------------------------------------
(* While turns run one after the other: the order of the steered messages. *)
(* A message that was accepted before another one is ahead of it wherever   *)
(* the other one is, in the buffer, in a turn's hands and in the history.   *)

\* Where the history h holds m; the hands d hold it; it is kept somewhere, if
\* s is the buffer and l the lost ones.
Heard(h, m) == {i \in 1..Len(h) : h[i] = Said(m)}
InHands(d, m) == \E t \in Turns : \E i \in 1..Len(d[t]) : d[t][i] = m
Kept(h, d, s, l, m) ==
    \/ m \in l \/ Heard(h, m) # {} \/ InHands(d, m)
    \/ \E i \in 1..Len(s) : s[i] = m

\* Message y is nowhere ahead of x.
Follows(h, d, s, x, y) ==
    /\ \A j \in Heard(h, y) : \E i \in Heard(h, x) : i < j
    /\ \A t \in Turns : \A j \in 1..Len(d[t]) :
         d[t][j] = y => Heard(h, x) # {} \/ \E i \in 1..(j - 1) : d[t][i] = x
    /\ \A j \in 1..Len(s) :
         s[j] = y => \/ Heard(h, x) # {} \/ InHands(d, x)
                     \/ \E i \in 1..(j - 1) : s[i] = x

KeptInv ==
    \A b \in 1..Len(accepted) : Kept(hist, held, steerBuf, lost, accepted[b])
FollowInv ==
    \A b \in 1..Len(accepted) : \A a \in 1..(b - 1) :
        accepted[a] \in lost \/ Follows(hist, held, steerBuf, accepted[a], accepted[b])

\* What an entry at the end of the history adds.
LEMMA HeardMore ==
    ASSUME NEW h \in Seq(Entries), NEW e \in Entries, NEW m
    PROVE  Heard(Append(h, e), m)
             = Heard(h, m) \cup (IF e = Said(m) THEN {Len(h) + 1} ELSE {})
<1> DEFINE r == Append(h, e)
           n == Len(h)
<1>1. n \in Nat /\ Len(r) = n + 1 /\ (\A i \in 1..n : r[i] = h[i]) /\ r[n + 1] = e
  BY LenProperties, AppendProperties
<1> HIDE DEF r, n
<1>2. {i \in 1..Len(r) : r[i] = Said(m)}
        = {i \in 1..n : h[i] = Said(m)} \cup (IF e = Said(m) THEN {n + 1} ELSE {})
  BY <1>1
<1> QED
  BY <1>2 DEF Heard, r, n

\* A turn without messages takes the buffer: nobody else holds any.
LEMMA FollowsTaken ==
    ASSUME NEW h, NEW d, NEW s, NEW t \in Turns, NEW d2, NEW x, NEW y,
           \A u \in Turns : d[u] = <<>>, d2[t] = s, \A u \in Turns \ {t} : d2[u] = d[u],
           Follows(h, d, s, x, y)
    PROVE  Follows(h, d2, <<>>, x, y)
<1>1. ~InHands(d, x)
  BY DEF InHands
<1> QED
  BY <1>1 DEF Follows

\* A turn records the first message of its hands.
LEMMA FollowsFolded ==
    ASSUME NEW h \in Seq(Entries), NEW d, NEW s, NEW t \in Turns, NEW d2, NEW x, NEW y,
           d[t] \in Seq(Messages), d[t] # <<>>, d2[t] = Tail(d[t]),
           \A u \in Turns \ {t} : d2[u] = d[u], Follows(h, d, s, x, y)
    PROVE  Follows(Append(h, Said(Head(d[t]))), d2, s, x, y)
<1> DEFINE e == Head(d[t])
           h2 == Append(h, Said(e))
           n == Len(h)
<1>1. /\ e \in Messages /\ e = d[t][1] /\ Len(d[t]) \in Nat /\ Len(d[t]) >= 1
      /\ Len(d2[t]) = Len(d[t]) - 1
      /\ \A i \in 1..Len(d2[t]) : d2[t][i] = d[t][i + 1]
  BY HeadTailProperties, LenProperties, EmptySeq
<1>2. Said(e) \in Entries /\ n \in Nat
  BY <1>1, LenProperties DEF Said, Entries, Roles
<1>3. \A m : Said(e) = Said(m) <=> e = m
  BY DEF Said
<1> HIDE DEF e
<1>4. \A m : Heard(h2, m) = Heard(h, m) \cup (IF e = m THEN {n + 1} ELSE {})
  BY <1>2, <1>3, HeardMore
<1>5. \A m : \A i \in Heard(h, m) : i \in 1..n
  BY DEF Heard
<1> HIDE DEF h2, n
<1>6. \A j \in Heard(h2, y) : \E i \in Heard(h2, x) : i < j
  <2>1. CASE e = y
    <3>1. Heard(h, x) # {}
      <4>1. 1 \in 1..Len(d[t]) /\ d[t][1] = y /\ 1..(1 - 1) = {}
        BY <1>1, <2>1
      <4> QED
        BY <4>1, Zenon DEF Follows
    <3> QED
      BY <1>2, <1>4, <1>5, <2>1, <3>1 DEF Follows
  <2>2. CASE e # y
    BY <1>4, <2>2 DEF Follows
  <2> QED
    BY <2>1, <2>2
<1>7. ASSUME NEW u \in Turns, NEW j \in 1..Len(d2[u]), d2[u][j] = y, Heard(h2, x) = {}
      PROVE  \E i \in 1..(j - 1) : d2[u][i] = x
  <2>1. Heard(h, x) = {} /\ e # x
    BY <1>4, <1>7
  <2>2. CASE u = t
    <3>1. j \in 1..Len(d2[t]) /\ d2[t][j] = y
      BY <1>7, <2>2
    <3>2. j + 1 \in 1..Len(d[t]) /\ d[t][j + 1] = y /\ (j + 1) - 1 = j
      BY <1>1, <3>1
    <3>3. PICK i \in 1..j : d[t][i] = x
      BY <2>1, <3>2 DEF Follows
    <3>4. i # 1
      BY <1>1, <2>1, <3>3
    <3>5. i - 1 \in 1..(j - 1) /\ i - 1 \in 1..Len(d2[t]) /\ (i - 1) + 1 = i
      BY <1>1, <3>1, <3>3, <3>4
    <3>6. d2[t][i - 1] = x
      BY <1>1, <3>3, <3>5
    <3> QED
      BY <2>2, <3>5, <3>6
  <2>3. CASE u # t
    BY <1>7, <2>1, <2>3 DEF Follows
  <2> QED
    BY <2>2, <2>3
<1>8. InHands(d, x) => Heard(h2, x) # {} \/ InHands(d2, x)
  <2> SUFFICES ASSUME NEW u \in Turns, NEW i \in 1..Len(d[u]), d[u][i] = x, e # x
               PROVE  InHands(d2, x)
    BY <1>4 DEF InHands
  <2>1. CASE u = t
    <3>1. i # 1
      BY <1>1, <2>1
    <3>2. i - 1 \in 1..Len(d2[t]) /\ d2[t][i - 1] = x
      BY <1>1, <2>1, <3>1
    <3> QED
      BY <3>2 DEF InHands
  <2>2. CASE u # t
    BY <2>2 DEF InHands
  <2> QED
    BY <2>1, <2>2
<1>9. Heard(h, x) # {} => Heard(h2, x) # {}
  BY <1>4
<1> QED
  BY <1>6, <1>7, <1>8, <1>9 DEF Follows, h2, e

LEMMA KeptFolded ==
    ASSUME NEW h \in Seq(Entries), NEW d, NEW s, NEW l, NEW t \in Turns, NEW d2, NEW x,
           d[t] \in Seq(Messages), d[t] # <<>>, d2[t] = Tail(d[t]),
           \A u \in Turns \ {t} : d2[u] = d[u], Kept(h, d, s, l, x)
    PROVE  Kept(Append(h, Said(Head(d[t]))), d2, s, l, x)
<1> DEFINE e == Head(d[t])
           h2 == Append(h, Said(e))
<1>1. /\ e \in Messages /\ e = d[t][1] /\ Len(d[t]) \in Nat
      /\ Len(d2[t]) = Len(d[t]) - 1
      /\ \A i \in 1..Len(d2[t]) : d2[t][i] = d[t][i + 1]
  BY HeadTailProperties, LenProperties
<1>2. Said(e) \in Entries
  BY <1>1 DEF Said, Entries, Roles
<1> HIDE DEF e
<1>3. Heard(h2, x) = Heard(h, x) \cup (IF Said(e) = Said(x) THEN {Len(h) + 1} ELSE {})
  BY <1>2, HeardMore
<1> HIDE DEF h2
<1>4. InHands(d, x) => e = x \/ InHands(d2, x)
  <2> SUFFICES ASSUME NEW u \in Turns, NEW i \in 1..Len(d[u]), d[u][i] = x, e # x
               PROVE  InHands(d2, x)
    BY DEF InHands
  <2>1. CASE u = t
    <3>1. i # 1
      BY <1>1, <2>1
    <3>2. i - 1 \in 1..Len(d2[t]) /\ d2[t][i - 1] = x
      BY <1>1, <2>1, <3>1
    <3> QED
      BY <3>2 DEF InHands
  <2>2. CASE u # t
    BY <2>2 DEF InHands
  <2> QED
    BY <2>1, <2>2
<1>5. Heard(h2, x) # {} \/ (Heard(h, x) = {} /\ e # x)
  <2>1. CASE e = x
    BY <1>3, <2>1
  <2>2. CASE e # x
    BY <1>3, <2>2
  <2> QED
    BY <2>1, <2>2
<1>6. Kept(h2, d2, s, l, x)
  BY <1>4, <1>5 DEF Kept
<1> QED
  BY <1>6 DEF h2, e

\* Another entry goes into the history.
LEMMA FollowsRecorded ==
    ASSUME NEW h \in Seq(Entries), NEW d, NEW s, NEW e \in Entries, NEW x, NEW y,
           e # Said(y), Follows(h, d, s, x, y)
    PROVE  Follows(Append(h, e), d, s, x, y)
<1> DEFINE h2 == Append(h, e)
<1>1. \A m : Heard(h2, m) = Heard(h, m) \cup (IF e = Said(m) THEN {Len(h) + 1} ELSE {})
  BY HeardMore, Zenon
<1>2. Heard(h, x) \subseteq Heard(h2, x) /\ Heard(h2, y) = Heard(h, y)
  BY <1>1
<1> HIDE DEF h2
<1> QED
  BY <1>2 DEF Follows, h2

LEMMA KeptRecorded ==
    ASSUME NEW h \in Seq(Entries), NEW d, NEW s, NEW l, NEW e \in Entries, NEW x,
           Kept(h, d, s, l, x)
    PROVE  Kept(Append(h, e), d, s, l, x)
<1>1. Heard(h, x) \subseteq Heard(Append(h, e), x)
  BY HeardMore
<1> QED
  BY <1>1 DEF Kept

\* A message that is fresh or that a turn is about to record is at no other
\* place, so it has not been accepted.
LEMMA NotAccepted ==
    ASSUME TypeOK, OnePlace, KeptInv, NEW m \in Messages,
           m \in fresh \/ Opening(pc, own, m) # {}
    PROVE  /\ Heard(hist, m) = {} /\ ~InHands(held, m)
           /\ \A i \in 1..Len(steerBuf) : steerBuf[i] # m
           /\ \A b \in 1..Len(accepted) : accepted[b] # m
<1>1. Numbered(m)
  BY Numbers
<1>2. In(fresh, m) + Cardinality(Opening(pc, own, m)) >= 1
  <2>1. m \in fresh => In(fresh, m) = 1
    BY DEF In
  <2>2. Opening(pc, own, m) # {} => Cardinality(Opening(pc, own, m)) # 0
    BY OpeningFinite, FS_EmptySet, Zenon
  <2> QED
    BY <1>1, <2>1, <2>2 DEF Numbered
<1>3. /\ In(lost, m) = 0 /\ Count(steerBuf, m) = 0 /\ Count(hist, Said(m)) = 0
      /\ Cardinality(Carried(held, m)) = 0
  <2>1. Places(m) = 1
    BY Zenon DEF OnePlace
  <2>2. In(fresh, m) + In(refused, m) + In(lost, m) + Count(queue, m)
          + Count(steerBuf, m) + Count(hist, Said(m))
          + Cardinality(Opening(pc, own, m)) + Cardinality(Carried(held, m)) = 1
    BY <2>1, PlacesSum
  <2> DEFINE a == In(fresh, m)   b == In(refused, m)   c == In(lost, m)   d == Count(queue, m)
             e == Count(steerBuf, m)   f == Count(hist, Said(m))
             g == Cardinality(Opening(pc, own, m))   h == Cardinality(Carried(held, m))
  <2>3. /\ a \in Nat /\ b \in Nat /\ c \in Nat /\ d \in Nat
        /\ e \in Nat /\ f \in Nat /\ g \in Nat /\ h \in Nat
    BY <1>1 DEF Numbered
  <2>4. a + b + c + d + e + f + g + h = 1 /\ a + g >= 1
    BY <1>2, <2>2
  <2> HIDE DEF a, b, c, d, e, f, g, h
  <2>5. c = 0 /\ e = 0 /\ f = 0 /\ h = 0
    BY <2>3, <2>4
  <2> QED
    BY <2>5 DEF c, e, f, h
<1>4. m \notin lost
  BY <1>3 DEF In
<1>5. \A i \in 1..Len(steerBuf) : steerBuf[i] # m
  <2>1. steerBuf \in Seq(Messages)
    BY DEF TypeOK
  <2>2. \A i \in 1..Len(steerBuf) : steerBuf[i] = m => Count(steerBuf, m) >= 1
    BY <2>1, CountNat, Zenon
  <2> QED
    BY <1>3, <2>2
<1>6. Heard(hist, m) = {}
  <2>1. hist \in Seq(Entries)
    BY DEF TypeOK, Entries
  <2>2. \A i \in 1..Len(hist) : hist[i] = Said(m) => Count(hist, Said(m)) >= 1
    BY <2>1, CountNat, Zenon
  <2> QED
    BY <1>3, <2>2 DEF Heard
<1>7. ~InHands(held, m)
  <2> SUFFICES ASSUME NEW t \in Turns, NEW i \in 1..Len(held[t]), held[t][i] = m
               PROVE  FALSE
    BY DEF InHands
  <2>1. \A u \in Turns : held[u] \in Seq(Messages)
    BY DEF TypeOK
  <2>2. Count(held[t], m) >= 1 /\ Count(held[t], m) \in Nat
    BY <2>1, CountNat
  <2>3. /\ Cardinality(HandsBut(held, t, m)) \in Nat
        /\ Cardinality(Carried(held, m)) = Cardinality(HandsBut(held, t, m)) + Count(held[t], m)
    BY <2>1, CarrySplit, Zenon
  <2> QED
    BY <1>3, <2>2, <2>3
<1>8. \A b \in 1..Len(accepted) : accepted[b] # m
  BY <1>4, <1>5, <1>6, <1>7, Zenon DEF KeptInv, Kept
<1> QED
  BY <1>5, <1>6, <1>7, <1>8

\* A message that is accepted goes to the end of the buffer, behind all others.
LEMMA FollowsSteered ==
    ASSUME NEW h, NEW d, NEW s \in Seq(Messages), NEW m \in Messages, NEW x, NEW y, y # m,
           Follows(h, d, s, x, y)
    PROVE  Follows(h, d, Append(s, m), x, y)
<1>1. /\ Len(s) \in Nat /\ Len(Append(s, m)) = Len(s) + 1 /\ Append(s, m)[Len(s) + 1] = m
      /\ \A i \in 1..Len(s) : Append(s, m)[i] = s[i]
  BY AppendProperties, LenProperties
<1> DEFINE s2 == Append(s, m)
<1> HIDE DEF s2
<1>2. \A j \in 1..Len(s2) : s2[j] = y => j \in 1..Len(s) /\ s[j] = y
  BY <1>1 DEF s2
<1>3. \A j \in 1..Len(s) : \A i \in 1..(j - 1) : i \in 1..Len(s) /\ s2[i] = s[i]
  BY <1>1 DEF s2
<1>4. \A j \in 1..Len(s2) :
         s2[j] = y => \/ Heard(h, x) # {} \/ InHands(d, x)
                      \/ \E i \in 1..(j - 1) : s2[i] = x
  BY <1>2, <1>3 DEF Follows
<1> QED
  BY <1>4 DEF Follows, s2

LEMMA KeptSteered ==
    ASSUME NEW h, NEW d, NEW s \in Seq(Messages), NEW l, NEW m \in Messages, NEW x,
           Kept(h, d, s, l, x) \/ x = m
    PROVE  Kept(h, d, Append(s, m), l, x)
<1>1. /\ Len(s) \in Nat /\ Len(Append(s, m)) = Len(s) + 1 /\ Append(s, m)[Len(s) + 1] = m
      /\ \A i \in 1..Len(s) : Append(s, m)[i] = s[i]
  BY AppendProperties, LenProperties
<1> DEFINE s2 == Append(s, m)
<1> HIDE DEF s2
<1>2. \A i \in 1..Len(s) : i \in 1..Len(s2) /\ s2[i] = s[i]
  BY <1>1 DEF s2
<1>3. Len(s) + 1 \in 1..Len(s2) /\ s2[Len(s) + 1] = m
  BY <1>1 DEF s2
<1> QED
  BY <1>2, <1>3 DEF Kept, s2

LEMMA FollowsNew ==
    ASSUME NEW h, NEW d, NEW s \in Seq(Messages), NEW l, NEW m \in Messages, NEW x, x # m,
           Heard(h, m) = {}, ~InHands(d, m), Kept(h, d, s, l, x),
           \A i \in 1..Len(s) : s[i] # m
    PROVE  x \in l \/ Follows(h, d, Append(s, m), x, m)
<1>1. /\ Len(s) \in Nat /\ Len(Append(s, m)) = Len(s) + 1 /\ Append(s, m)[Len(s) + 1] = m
      /\ \A i \in 1..Len(s) : Append(s, m)[i] = s[i]
  BY AppendProperties, LenProperties
<1> DEFINE s2 == Append(s, m)
<1> HIDE DEF s2
<1>2. \A j \in 1..Len(s2) : s2[j] = m => j - 1 = Len(s)
  BY <1>1 DEF s2
<1>3. \A i \in 1..Len(s) : s2[i] = s[i]
  BY <1>1 DEF s2
<1>4. ASSUME x \notin l, NEW j \in 1..Len(s2), s2[j] = m, Heard(h, x) = {}, ~InHands(d, x)
      PROVE  \E i \in 1..(j - 1) : s2[i] = x
  <2>1. PICK i \in 1..Len(s) : s[i] = x
    BY <1>4 DEF Kept
  <2> QED
    BY <1>2, <1>3, <1>4, <2>1
<1>5. \A t \in Turns : \A j \in 1..Len(d[t]) : d[t][j] # m
  BY DEF InHands
<1> QED
  BY <1>4, <1>5 DEF Follows, s2

\* While no two turns have been in HandleMessage at once.
Alone == \A t, u \in Turns : pc[t] # "idle" /\ pc[u] # "idle" => t = u

OrderInv == KeptInv /\ (~overlapped => FollowInv)

\* A turn begins when no other runs, or the overlap is recorded.
LEMMA AloneStep ==
    ASSUME TypeOK, ~overlapped => Alone, [Next]_vars, ~overlapped'
    PROVE  ~overlapped /\ Alone /\ Alone'
<1>1. CASE UNCHANGED vars
  BY <1>1, Zenon DEF vars, locals, ghosts, Alone
<1>2. ASSUME NEW m \in Messages, PushSteerIfActive(m) \/ InjectGroupMessage(m) \/ Submit(m)
      PROVE  ~overlapped /\ Alone /\ Alone'
  <2>1. pc' = pc /\ overlapped' = overlapped
    BY <1>2, Zenon DEF PushSteerIfActive, InjectGroupMessage, Submit, locals, ghosts
  <2> QED
    BY <2>1, Zenon DEF Alone
<1>3. ASSUME NEW t \in Turns, Start(t) PROVE ~overlapped /\ Alone /\ Alone'
  <2>1. PICK k, m : k \in Kinds /\ Enter(t, m, k)
    BY <1>3, Zenon DEF Start, HandleTask, HandleWebChatStream
  <2>2. ~overlapped /\ Running = {}
    BY <2>1, Zenon DEF Enter
  <2>3. \A u \in Turns \ {t} : pc'[u] = pc[u]
    BY <2>1 DEF Enter, Goto, TypeOK
  <2> QED
    BY <2>2, <2>3 DEF Alone, Running
<1>4. ASSUME NEW t \in Turns, TurnStep(t) PROVE ~overlapped /\ Alone /\ Alone'
  <2>1. overlapped' = overlapped
    BY <1>4, Zenon DEF TurnStep, BeginTurn, AppendUser, ModelFails, ModelAnswers, ModelCallsTools,
       LoopDetected, ToolsReturn, DrainSteer, AppendSteer, ForcedDelivery, PadScan, PadAppend,
       FlushLeftoverSteer, ParkLeftover, HookRecords, HookEndTurn, SlashReply, Quiet, ghosts
  <2>2. pc[t] # "idle" /\ \A u \in Turns \ {t} : pc'[u] = pc[u]
    BY <1>4 DEF TurnStep, BeginTurn, AppendUser, ModelFails, ModelAnswers, ModelCallsTools,
       LoopDetected, ToolsReturn, DrainSteer, AppendSteer, ForcedDelivery, PadScan, PadAppend,
       FlushLeftoverSteer, ParkLeftover, HookRecords, HookEndTurn, SlashReply, Goto, TypeOK
  <2>3. ~overlapped
    BY <2>1, Zenon
  <2> QED
    BY <2>2, <2>3 DEF Alone
<1> QED
  BY <1>1, <1>2, <1>3, <1>4, Zenon DEF Next

\* A step that keeps the accepted messages: what Kept and Follows become of one
\* message, and of two, they become of all.
LEMMA OrderCarries ==
    ASSUME OrderInv, accepted' = accepted, ~overlapped' => ~overlapped,
           \A b \in 1..Len(accepted) :
               Kept(hist, held, steerBuf, lost, accepted[b])
                 => Kept(hist', held', steerBuf', lost', accepted[b]),
           ~overlapped' => \A b \in 1..Len(accepted) : \A a \in 1..(b - 1) :
               accepted[a] \in lost \/ Follows(hist, held, steerBuf, accepted[a], accepted[b])
                 => \/ accepted[a] \in lost'
                    \/ Follows(hist', held', steerBuf', accepted[a], accepted[b])
    PROVE  OrderInv'
<1>1. KeptInv'
  BY Zenon DEF OrderInv, KeptInv
<1>2. ~overlapped' => FollowInv'
  BY Zenon DEF OrderInv, FollowInv
<1> QED
  BY <1>1, <1>2, Zenon DEF OrderInv

\* Arrivals: into the buffer, behind the others, or ambient into the history.
LEMMA OrderByArrival ==
    ASSUME TypeOK, OnePlace, OrderInv, NEW m \in Messages,
           PushSteerIfActive(m) \/ InjectGroupMessage(m) \/ Submit(m)
    PROVE  OrderInv'
<1>0. hist \in Seq(Entries) /\ steerBuf \in Seq(Messages) /\ accepted \in Seq(Messages)
  BY DEF TypeOK, Entries
<1>1. overlapped' = overlapped /\ UNCHANGED <<held, lost>>
  BY Zenon DEF PushSteerIfActive, InjectGroupMessage, Submit, locals, ghosts
<1>2. CASE \/ PushSteerIfActive(m) /\ ~(turnDepth > 0)
           \/ Submit(m)
  <2>1. UNCHANGED <<hist, steerBuf, accepted>>
    BY <1>2, Zenon DEF PushSteerIfActive, Submit, session, ghosts
  <2> QED
    BY <1>1, <2>1, Zenon DEF OrderInv, KeptInv, FollowInv
<1>3. CASE InjectGroupMessage(m)
  <2>1. m \in fresh /\ hist' = Append(hist, Said(m)) /\ UNCHANGED <<steerBuf, accepted>>
    BY <1>3, Zenon DEF InjectGroupMessage, Record, Said, session, ghosts
  <2>2. Said(m) \in Entries /\ \A b \in 1..Len(accepted) : Said(m) # Said(accepted[b])
    <3>1. \A b \in 1..Len(accepted) : accepted[b] # m
      BY <2>1, NotAccepted DEF OrderInv
    <3> QED
      BY <3>1 DEF Said, Entries, Roles
  <2>3. \A b \in 1..Len(accepted) :
          Kept(hist, held, steerBuf, lost, accepted[b])
            => Kept(hist', held', steerBuf', lost', accepted[b])
    BY <1>0, <1>1, <2>1, <2>2, KeptRecorded, Zenon
  <2>4. \A b \in 1..Len(accepted) : \A a \in 1..(b - 1) :
          accepted[a] \in lost \/ Follows(hist, held, steerBuf, accepted[a], accepted[b])
            => \/ accepted[a] \in lost'
               \/ Follows(hist', held', steerBuf', accepted[a], accepted[b])
    BY <1>0, <1>1, <2>1, <2>2, FollowsRecorded, Zenon
  <2> QED
    BY <1>1, <2>1, <2>3, <2>4, OrderCarries, Zenon
<1>4. CASE PushSteerIfActive(m) /\ turnDepth > 0
  <2> DEFINE n == Len(accepted)
             acc == accepted'
             s2 == Append(steerBuf, m)
  <2>1. m \in fresh /\ steerBuf' = s2 /\ accepted' = Append(accepted, m) /\ hist' = hist
    BY <1>4 DEF PushSteerIfActive
  <2>2. /\ n \in Nat /\ Len(acc) = n + 1 /\ acc[n + 1] = m
        /\ \A b \in 1..n : acc[b] = accepted[b] /\ acc[b] \in Messages
    BY <1>0, <2>1, AppendProperties, LenProperties, ElementOfSeq
  <2>3. /\ Heard(hist, m) = {} /\ ~InHands(held, m)
        /\ \A b \in 1..n : accepted[b] # m
    BY <2>1, NotAccepted DEF OrderInv
  <2>4. \A i \in 1..Len(steerBuf) : steerBuf[i] # m
    BY <2>1, NotAccepted DEF OrderInv
  <2> HIDE DEF n, acc, s2
  <2>5. ASSUME NEW b \in 1..n PROVE Kept(hist, held, s2, lost, acc[b])
    <3>1. Kept(hist, held, steerBuf, lost, accepted[b]) /\ acc[b] = accepted[b]
      BY <2>2, Zenon DEF OrderInv, KeptInv, n
    <3> QED
      BY <1>0, <3>1, KeptSteered, Zenon DEF s2
  <2>6. Kept(hist, held, s2, lost, m)
    BY <1>0, KeptSteered, Zenon DEF s2
  <2>7. \A b \in 1..(n + 1) : b \in 1..n \/ b = n + 1
    BY <2>2
  <2>8. KeptInv'
    BY <1>1, <2>1, <2>2, <2>5, <2>6, <2>7, Zenon DEF KeptInv, acc
  <2>9. ASSUME ~overlapped, NEW b \in 1..n, NEW a \in 1..(b - 1)
        PROVE  acc[a] \in lost \/ Follows(hist, held, s2, acc[a], acc[b])
    <3>1. a \in 1..n /\ acc[a] = accepted[a] /\ acc[b] = accepted[b] /\ accepted[b] # m
      BY <2>2, <2>3, <2>9
    <3>2. accepted[a] \in lost \/ Follows(hist, held, steerBuf, accepted[a], accepted[b])
      BY <2>9, Zenon DEF OrderInv, FollowInv, n
    <3> QED
      BY <1>0, <3>1, <3>2, FollowsSteered, Zenon DEF s2
  <2>10. ASSUME NEW a \in 1..n PROVE acc[a] \in lost \/ Follows(hist, held, s2, acc[a], m)
    <3>1. Kept(hist, held, steerBuf, lost, acc[a]) /\ acc[a] # m
      BY <2>2, <2>3, Zenon DEF OrderInv, KeptInv, n
    <3> QED
      BY <1>0, <2>3, <2>4, <3>1, FollowsNew, Zenon DEF s2
  <2>11. \A a \in 1..((n + 1) - 1) : a \in 1..n
    BY <2>2
  <2>12. ~overlapped' => FollowInv'
    BY <1>1, <2>1, <2>2, <2>7, <2>9, <2>10, <2>11, Zenon DEF FollowInv, acc
  <2> QED
    BY <2>8, <2>12, Zenon DEF OrderInv
<1> QED
  BY <1>2, <1>3, <1>4, Zenon

\* A turn records the message it was called with, which is none of the accepted.
LEMMA OrderByUser ==
    ASSUME IInv, OnePlace, OrderInv, NEW t \in Turns, AppendUser(t) PROVE OrderInv'
<1>1. hist \in Seq(Entries) /\ own[t] \in Messages /\ t \in Opening(pc, own, own[t])
  BY DEF AppendUser, IInv, TypeOK, PathInv, Entries, Opening
<1>2. /\ hist' = Append(hist, Said(own[t])) /\ overlapped' = overlapped
      /\ UNCHANGED <<held, steerBuf, lost, accepted>>
  BY Zenon DEF AppendUser, Record, Said, Quiet, session, ghosts
<1>3. Said(own[t]) \in Entries /\ \A b \in 1..Len(accepted) : Said(own[t]) # Said(accepted[b])
  <2>1. \A b \in 1..Len(accepted) : accepted[b] # own[t]
    BY <1>1, NotAccepted, Zenon DEF OrderInv, IInv
  <2> QED
    BY <1>1, <2>1 DEF Said, Entries, Roles
<1>4. \A b \in 1..Len(accepted) :
        Kept(hist, held, steerBuf, lost, accepted[b])
          => Kept(hist', held', steerBuf', lost', accepted[b])
  BY <1>1, <1>2, <1>3, KeptRecorded, Zenon
<1>5. \A b \in 1..Len(accepted) : \A a \in 1..(b - 1) :
        accepted[a] \in lost \/ Follows(hist, held, steerBuf, accepted[a], accepted[b])
          => \/ accepted[a] \in lost'
             \/ Follows(hist', held', steerBuf', accepted[a], accepted[b])
  BY <1>1, <1>2, <1>3, FollowsRecorded, Zenon
<1> QED
  BY <1>2, <1>4, <1>5, OrderCarries, Zenon

\* The buffer is taken whole into the hands of a turn, or left.
LEMMA OrderByTaking ==
    ASSUME TypeOK, HandsFree, ~overlapped => Alone, OrderInv, NEW t \in Turns, NEW s,
           pc[t] \notin {"idle", "fold", "park"},
           held' = [held EXCEPT ![t] = s],
           \/ s = steerBuf /\ steerBuf' = <<>>
           \/ s = <<>> /\ steerBuf' = steerBuf,
           overlapped' = overlapped, UNCHANGED <<hist, lost, accepted>>
    PROVE  OrderInv'
<1>1. held[t] = <<>> /\ held'[t] = s /\ \A u \in Turns \ {t} : held'[u] = held[u]
  BY DEF HandsFree, TypeOK
<1>2. CASE s = <<>> /\ steerBuf' = steerBuf
  <2>1. held' = held
    BY <1>1, <1>2 DEF TypeOK
  <2> QED
    BY <1>2, <2>1, Zenon DEF OrderInv, KeptInv, FollowInv
<1>3. CASE s = steerBuf /\ steerBuf' = <<>>
  <2>1. \A b \in 1..Len(accepted) :
          Kept(hist, held, steerBuf, lost, accepted[b])
            => Kept(hist', held', steerBuf', lost', accepted[b])
    <3> SUFFICES ASSUME NEW x, Kept(hist, held, steerBuf, lost, x)
                 PROVE  Kept(hist, held', <<>>, lost, x)
      BY <1>3, Zenon
    <3> QED
      BY <1>1, <1>3 DEF Kept, InHands
  <2>2. ~overlapped => \A u \in Turns : held[u] = <<>>
    BY <1>1 DEF Alone, HandsFree
  <2>3. ~overlapped' => \A b \in 1..Len(accepted) : \A a \in 1..(b - 1) :
          accepted[a] \in lost \/ Follows(hist, held, steerBuf, accepted[a], accepted[b])
            => \/ accepted[a] \in lost'
               \/ Follows(hist', held', steerBuf', accepted[a], accepted[b])
    BY <1>1, <1>3, <2>2, FollowsTaken, Zenon
  <2> QED
    BY <2>1, <2>3, OrderCarries, Zenon
<1> QED
  BY <1>2, <1>3

LEMMA OrderByDrain ==
    ASSUME TypeOK, HandsFree, ~overlapped => Alone, OrderInv, NEW t \in Turns,
           DrainSteer(t) \/ FlushLeftoverSteer(t)
    PROVE  OrderInv'
<1>1. CASE DrainSteer(t)
  <2>1. /\ pc[t] \in {"lastDrain", "roundDrain"} /\ held' = [held EXCEPT ![t] = steerBuf]
        /\ steerBuf' = <<>> /\ overlapped' = overlapped /\ UNCHANGED <<hist, lost, accepted>>
    BY <1>1, Zenon DEF DrainSteer, ghosts
  <2> QED
    BY <2>1, OrderByTaking
<1>2. CASE FlushLeftoverSteer(t)
  <2>1. /\ pc[t] = "end" /\ held' = [held EXCEPT ![t] = Leftover] /\ EndTurn
        /\ overlapped' = overlapped /\ UNCHANGED <<hist, lost, accepted>>
    BY <1>2, Zenon DEF FlushLeftoverSteer, ghosts
  <2>2. \/ Leftover = steerBuf /\ steerBuf' = <<>>
        \/ Leftover = <<>> /\ steerBuf' = steerBuf
    BY <2>1, EndTakes
  <2>3. pc[t] \notin {"idle", "fold", "park"}
    BY <2>1
  <2> QED
    BY <2>1, <2>2, <2>3, OrderByTaking, Zenon
<1> QED
  BY <1>1, <1>2

\* The messages of a turn go one by one from its hands into the history.
LEMMA OrderByFold ==
    ASSUME IInv, OrderInv, NEW t \in Turns, AppendSteer(t) \/ ParkLeftover(t) PROVE OrderInv'
<1>1. /\ hist \in Seq(Entries) /\ held[t] \in Seq(Messages) /\ held[t] # <<>>
  BY DEF AppendSteer, ParkLeftover, IInv, PathInv, TypeOK, Entries
<1>2. /\ held' = [held EXCEPT ![t] = Tail(@)] /\ hist' = Append(hist, Said(Head(held[t])))
      /\ overlapped' = overlapped /\ UNCHANGED <<steerBuf, lost, accepted>>
  BY Zenon DEF AppendSteer, ParkLeftover, Record, Said, Quiet, session, ghosts
<1>3. held'[t] = Tail(held[t]) /\ \A u \in Turns \ {t} : held'[u] = held[u]
  BY <1>2 DEF IInv, TypeOK
<1>4. \A b \in 1..Len(accepted) :
        Kept(hist, held, steerBuf, lost, accepted[b])
          => Kept(hist', held', steerBuf', lost', accepted[b])
  BY <1>1, <1>2, <1>3, KeptFolded, Zenon
<1>5. \A b \in 1..Len(accepted) : \A a \in 1..(b - 1) :
        accepted[a] \in lost \/ Follows(hist, held, steerBuf, accepted[a], accepted[b])
          => \/ accepted[a] \in lost'
             \/ Follows(hist', held', steerBuf', accepted[a], accepted[b])
  BY <1>1, <1>2, <1>3, FollowsFolded, Zenon
<1> QED
  BY <1>2, <1>4, <1>5, OrderCarries, Zenon

\* A hook turn drops the whole buffer, or nothing.
LEMMA OrderByHookEnd ==
    ASSUME TypeOK, OrderInv, NEW t \in Turns, HookEndTurn(t) PROVE OrderInv'
<1>1. /\ EndTurn /\ lost' = lost \cup {Leftover[i] : i \in 1..Len(Leftover)}
      /\ overlapped' = overlapped /\ UNCHANGED <<hist, held, accepted>>
  BY Zenon DEF HookEndTurn
<1>2. CASE Leftover = <<>> /\ steerBuf' = steerBuf
  <2>1. lost' = lost
    BY <1>1, <1>2
  <2> QED
    BY <1>1, <1>2, <2>1, Zenon DEF OrderInv, KeptInv, FollowInv
<1>3. CASE Leftover = steerBuf /\ steerBuf' = <<>>
  <2>1. lost' = lost \cup {steerBuf[i] : i \in 1..Len(steerBuf)}
    BY <1>1, <1>3
  <2>2. \A b \in 1..Len(accepted) :
          Kept(hist, held, steerBuf, lost, accepted[b])
            => Kept(hist', held', steerBuf', lost', accepted[b])
    BY <1>1, <2>1, Zenon DEF Kept
  <2>3. \A x, y : Follows(hist, held, steerBuf, x, y) => Follows(hist', held', steerBuf', x, y)
    BY <1>1, <1>3 DEF Follows
  <2>4. \A b \in 1..Len(accepted) : \A a \in 1..(b - 1) :
          accepted[a] \in lost \/ Follows(hist, held, steerBuf, accepted[a], accepted[b])
            => \/ accepted[a] \in lost'
               \/ Follows(hist', held', steerBuf', accepted[a], accepted[b])
    BY <2>1, <2>3, Zenon
  <2> QED
    BY <1>1, <2>2, <2>4, OrderCarries, Zenon
<1> QED
  BY <1>1, <1>2, <1>3, EndTakes

\* What the other steps of a turn put into the history is no message.
LEMMA OrderByOther ==
    ASSUME IInv, OrderInv, UNCHANGED <<held, steerBuf, lost, accepted>>,
           ~overlapped' => ~overlapped,
           hist' = hist \/ \E r \in Roles \ {"user"}, c \in Messages \cup Nat : Record(r, c)
    PROVE  OrderInv'
<1>1. CASE hist' = hist
  BY <1>1, Zenon DEF OrderInv, KeptInv, FollowInv
<1>2. ASSUME NEW r \in Roles \ {"user"}, NEW c \in Messages \cup Nat, Record(r, c)
      PROVE  OrderInv'
  <2> DEFINE e == [role |-> r, id |-> c]
  <2>1. hist \in Seq(Entries) /\ e \in Entries /\ hist' = Append(hist, e)
        /\ \A y : e # Said(y)
    BY <1>2 DEF IInv, TypeOK, Entries, Record, Said
  <2> HIDE DEF e
  <2>2. \A b \in 1..Len(accepted) :
          Kept(hist, held, steerBuf, lost, accepted[b])
            => Kept(hist', held', steerBuf', lost', accepted[b])
    BY <2>1, KeptRecorded, Zenon
  <2>3. \A b \in 1..Len(accepted) : \A a \in 1..(b - 1) :
          accepted[a] \in lost \/ Follows(hist, held, steerBuf, accepted[a], accepted[b])
            => \/ accepted[a] \in lost'
               \/ Follows(hist', held', steerBuf', accepted[a], accepted[b])
    BY <2>1, FollowsRecorded, Zenon
  <2> QED
    BY <2>2, <2>3, OrderCarries, Zenon
<1> QED
  BY <1>1, <1>2
-----------------------------------------------------------------------------
(* While turns run one after the other: every call gets its one result.     *)
(* Only the latest call can be without one, only while its turn is at one of *)
(* the points before it has seen to that, and no steer is folded there.      *)

Result(c) == [role |-> "tool", id |-> c]

\* The calls of the history h without a result.
Open(h) == {i \in CallsAt(h) : \A k \in i..Len(h) : h[k] # Result(h[i].id)}

\* Calls and results in the history h, if n is the next id.
Paired(h, n) ==
    /\ \A i \in CallsAt(h) : h[i].id = HookCall \/ h[i].id < n
    /\ \A i, j \in CallsAt(h) : h[i].id = h[j].id /\ h[i].id # HookCall => i = j
    /\ \A k \in 1..Len(h) :
         h[k].role = "tool" => \E i \in CallsAt(h) : i < k /\ h[i].id = h[k].id
    /\ \A k, l \in 1..Len(h) :
         h[k].role = "tool" /\ h[l] = h[k] /\ h[k].id # HookCall => k = l
    /\ \A i \in Open(h), j \in CallsAt(h) : j <= i

\* No message of A between a call of h and its result.
Unsplit(h, A) ==
    \A i, j \in 1..Len(h) :
        h[i].role = "call" /\ h[j].role = "user" /\ i < j /\ h[j].id \in A
            => \E k \in i..j : h[k] = Result(h[i].id)

\* Where a turn still sees to the result of its call, and where it is to record
\* it next.
Closing == {"tool", "note", "final", "pad", "padAppend", "hookTool"}
Pending == {"tool", "padAppend", "hookTool"}
Wants(t) == IF pc[t] = "hookTool" THEN HookCall ELSE call[t]

OpenInv ==
    /\ Open(hist) # {} => \E t \in Turns : pc[t] \in Closing
    /\ \A t \in Turns : pc[t] \in Pending => \E i \in Open(hist) : hist[i].id = Wants(t)

CallInv == Paired(hist, nextCall) /\ Unsplit(hist, Elems(accepted)) /\ OpenInv

\* What an entry at the end does to the calls.
LEMMA CallsMore ==
    ASSUME NEW h \in Seq(Entries), NEW e \in Entries
    PROVE  /\ Len(h) \in Nat /\ Len(Append(h, e)) = Len(h) + 1
           /\ \A i \in 1..Len(h) : Append(h, e)[i] = h[i] /\ h[i] \in Entries
           /\ Append(h, e)[Len(h) + 1] = e
           /\ CallsAt(h) \subseteq 1..Len(h)
           /\ CallsAt(Append(h, e))
                = CallsAt(h) \cup (IF e.role = "call" THEN {Len(h) + 1} ELSE {})
<1> DEFINE r == Append(h, e)
           n == Len(h)
<1>1. n \in Nat /\ Len(r) = n + 1 /\ (\A i \in 1..n : r[i] = h[i] /\ h[i] \in Entries)
      /\ r[n + 1] = e
  BY LenProperties, AppendProperties, ElementOfSeq
<1> HIDE DEF r, n
<1>2. {i \in 1..Len(r) : r[i].role = "call"}
        = {i \in 1..n : h[i].role = "call"} \cup (IF e.role = "call" THEN {n + 1} ELSE {})
  BY <1>1
<1> QED
  BY <1>1, <1>2 DEF CallsAt, r, n

\* A call that had a result keeps it.
LEMMA StaysClosed ==
    ASSUME NEW h \in Seq(Entries), NEW e \in Entries, NEW i \in CallsAt(h), i \notin Open(h)
    PROVE  i \notin Open(Append(h, e))
<1> DEFINE r == Append(h, e)
<1>1. /\ Len(h) \in Nat /\ Len(r) = Len(h) + 1 /\ i \in 1..Len(h)
      /\ \A k \in 1..Len(h) : r[k] = h[k]
  BY CallsMore
<1>2. PICK k \in i..Len(h) : h[k] = Result(h[i].id)
  BY DEF Open
<1> HIDE DEF r
<1>3. k \in i..Len(r) /\ r[k] = Result(r[i].id)
  BY <1>1, <1>2
<1> QED
  BY <1>3 DEF Open, r

\* A call is recorded when every other one has its result.
LEMMA PairedCall ==
    ASSUME NEW h \in Seq(Entries), NEW n \in Nat \ {0}, NEW n2 \in Nat, n <= n2,
           NEW c \in {HookCall, n}, c = n => n < n2,
           \A i \in CallsAt(h) : h[i].id \in Nat, Paired(h, n), Open(h) = {}
    PROVE  LET r == Append(h, [role |-> "call", id |-> c])
           IN  /\ Paired(r, n2) /\ Open(r) = {Len(h) + 1} /\ r[Len(h) + 1].id = c
<1> DEFINE e == [role |-> "call", id |-> c]
           r == Append(h, e)
           m == Len(h)
<1>1. e \in Entries /\ e.role = "call" /\ e.id = c /\ c \in Nat /\ \A d : e # Result(d)
  BY DEF Entries, Roles, HookCall, Result
<1> HIDE DEF e
<1>2. /\ m \in Nat /\ Len(r) = m + 1 /\ CallsAt(h) \subseteq 1..m
      /\ \A i \in 1..m : r[i] = h[i]
      /\ r[m + 1] = e /\ CallsAt(r) = CallsAt(h) \cup {m + 1}
  BY <1>1, CallsMore
<1>3. \A i \in CallsAt(h) : i \notin Open(r)
  BY <1>1, StaysClosed
<1> HIDE DEF r, m
<1>4. Open(r) = {m + 1}
  <2>1. \A k \in (m + 1)..Len(r) : k = m + 1
    BY <1>2
  <2>2. m + 1 \in Open(r)
    BY <1>1, <1>2, <2>1 DEF Open
  <2>3. Open(r) \subseteq CallsAt(r)
    BY DEF Open
  <2> QED
    BY <1>2, <1>3, <2>2, <2>3
<1>5. \A i \in CallsAt(h) : h[i].id # HookCall => h[i].id < n
  BY DEF Paired
<1>6. \A i \in CallsAt(r) : r[i].id = HookCall \/ r[i].id < n2
  BY <1>1, <1>2, <1>5
<1>7. \A i, j \in CallsAt(r) : r[i].id = r[j].id /\ r[i].id # HookCall => i = j
  <2>1. \A i \in CallsAt(h) : r[i].id # HookCall => r[i].id # c
    BY <1>1, <1>2, <1>5
  <2>2. \A i, j \in CallsAt(h) : r[i].id = r[j].id /\ r[i].id # HookCall => i = j
    BY <1>2 DEF Paired
  <2> QED
    BY <1>1, <1>2, <2>1, <2>2
<1>8. \A k \in 1..Len(r) : r[k].role = "tool" => k \in 1..m
  BY <1>1, <1>2
<1>9. \A k \in 1..Len(r) :
        r[k].role = "tool" => \E i \in CallsAt(r) : i < k /\ r[i].id = r[k].id
  <2> SUFFICES ASSUME NEW k \in 1..m, h[k].role = "tool"
               PROVE  \E i \in CallsAt(r) : i < k /\ r[i].id = h[k].id
    BY <1>2, <1>8
  <2>1. PICK i \in CallsAt(h) : i < k /\ h[i].id = h[k].id
    BY Zenon DEF Paired, m
  <2> QED
    BY <1>2, <2>1
<1>10. \A k, l \in 1..Len(r) :
         r[k].role = "tool" /\ r[l] = r[k] /\ r[k].id # HookCall => k = l
  <2> SUFFICES ASSUME NEW k \in 1..Len(r), NEW l \in 1..Len(r),
                      r[k].role = "tool", r[l] = r[k], r[k].id # HookCall
               PROVE  k = l
    OBVIOUS
  <2>1. k \in 1..m /\ l \in 1..m
    BY <1>8
  <2>2. h[k].role = "tool" /\ h[l] = h[k] /\ h[k].id # HookCall
    BY <1>2, <2>1
  <2> QED
    BY <2>1, <2>2, Zenon DEF Paired, m
<1>11. \A i \in Open(r), j \in CallsAt(r) : j <= i
  BY <1>2, <1>4
<1>12. Paired(r, n2)
  BY <1>6, <1>7, <1>9, <1>10, <1>11, Zenon DEF Paired
<1> QED
  BY <1>1, <1>2, <1>4, <1>12 DEF r, m, e

\* The result of the one open call is recorded.
LEMMA PairedResult ==
    ASSUME NEW h \in Seq(Entries), NEW n, Paired(h, n),
           NEW o \in Open(h), h[o].id \in Nat
    PROVE  LET r == Append(h, Result(h[o].id))
           IN  Paired(r, n) /\ Open(r) = {}
<1> DEFINE c == h[o].id
           e == Result(c)
           r == Append(h, e)
           m == Len(h)
<1>1. e \in Entries /\ e.role = "tool" /\ e.id = c /\ o \in CallsAt(h)
  BY DEF Entries, Roles, Result, Open
<1> HIDE DEF e
<1>2. /\ m \in Nat /\ Len(r) = m + 1 /\ CallsAt(h) \subseteq 1..m
      /\ \A i \in 1..m : r[i] = h[i]
      /\ r[m + 1] = e /\ CallsAt(r) = CallsAt(h)
  <2>1. CallsAt(h) \cup {} = CallsAt(h)
    OBVIOUS
  <2> QED
    BY <1>1, <2>1, CallsMore
<1>3. \A i \in CallsAt(h) : i \notin Open(h) => i \notin Open(r)
  BY <1>1, StaysClosed
<1>4. \A i \in Open(h) : i = o
  <2>1. \A i \in Open(h) : i \in CallsAt(h) /\ i <= o /\ o <= i
    BY <1>1, Zenon DEF Paired, Open
  <2> QED
    BY <1>2, <2>1
<1> HIDE DEF r, m
<1>5. Open(r) = {}
  <2>1. m + 1 \in o..Len(r) /\ r[m + 1] = Result(r[o].id)
    BY <1>1, <1>2 DEF e
  <2>2. o \notin Open(r)
    BY <2>1, Zenon DEF Open
  <2>3. Open(r) \subseteq CallsAt(r)
    BY DEF Open
  <2> QED
    BY <1>2, <1>3, <1>4, <2>2, <2>3
<1>6. \A i \in CallsAt(r) : r[i].id = HookCall \/ r[i].id < n
  BY <1>2 DEF Paired
<1>7. \A i, j \in CallsAt(r) : r[i].id = r[j].id /\ r[i].id # HookCall => i = j
  BY <1>2 DEF Paired
<1>8. \A k \in 1..Len(r) : k \in 1..m \/ k = m + 1
  BY <1>2
<1>9. \A k \in 1..m :
        h[k].role = "tool" => \E i \in CallsAt(h) : i < k /\ h[i].id = h[k].id
  BY Zenon DEF Paired, m
<1>10. \A k \in 1..Len(r) :
         r[k].role = "tool" => \E i \in CallsAt(r) : i < k /\ r[i].id = r[k].id
  <2> SUFFICES ASSUME NEW k \in 1..Len(r), r[k].role = "tool"
               PROVE  \E i \in CallsAt(r) : i < k /\ r[i].id = r[k].id
    OBVIOUS
  <2>1. CASE k \in 1..m
    <3>1. PICK i \in CallsAt(h) : i < k /\ h[i].id = h[k].id
      BY <1>2, <1>9, <2>1
    <3> QED
      BY <1>2, <2>1, <3>1
  <2>2. CASE k = m + 1
    BY <1>1, <1>2, <2>2
  <2> QED
    BY <1>8, <2>1, <2>2
<1>11. ASSUME c # HookCall, NEW k \in 1..m PROVE h[k] # e
  <2> SUFFICES ASSUME h[k] = e PROVE FALSE
    OBVIOUS
  <2>1. PICK i \in CallsAt(h) : i < k /\ h[i].id = c
    BY <1>1, <1>9
  <2>2. i = o
    BY <1>1, <1>11, <2>1, Zenon DEF Paired
  <2>3. k \in o..Len(h)
    BY <1>2, <2>1, <2>2 DEF m
  <2> QED
    BY <2>3, Zenon DEF Open, e
<1>12. \A k, l \in 1..Len(r) :
         r[k].role = "tool" /\ r[l] = r[k] /\ r[k].id # HookCall => k = l
  <2> SUFFICES ASSUME NEW k \in 1..Len(r), NEW l \in 1..Len(r),
                      r[k].role = "tool", r[l] = r[k], r[k].id # HookCall
               PROVE  k = l
    OBVIOUS
  <2>1. CASE k \in 1..m /\ l \in 1..m
    <3>1. h[k].role = "tool" /\ h[l] = h[k] /\ h[k].id # HookCall
      BY <1>2, <2>1
    <3> QED
      BY <2>1, <3>1, Zenon DEF Paired, m
  <2>2. CASE k = m + 1 /\ l \in 1..m
    BY <1>1, <1>2, <1>11, <2>2
  <2>3. CASE k \in 1..m /\ l = m + 1
    BY <1>1, <1>2, <1>11, <2>3
  <2> QED
    BY <1>8, <2>1, <2>2, <2>3
<1>13. Paired(r, n)
  BY <1>5, <1>6, <1>7, <1>10, <1>12, Zenon DEF Paired
<1> QED
  BY <1>5, <1>13 DEF r, e

\* An entry that is neither a call nor a result changes nothing.
LEMMA PairedOther ==
    ASSUME NEW h \in Seq(Entries), NEW n, Paired(h, n),
           NEW e \in Entries, e.role \notin {"call", "tool"}
    PROVE  LET r == Append(h, e)
           IN  /\ Paired(r, n) /\ Open(r) = Open(h)
               /\ \A i \in Open(h) : r[i] = h[i]
<1> DEFINE r == Append(h, e)
           m == Len(h)
<1>2. /\ m \in Nat /\ Len(r) = m + 1 /\ CallsAt(h) \subseteq 1..m
      /\ \A i \in 1..m : r[i] = h[i]
      /\ r[m + 1] = e /\ CallsAt(r) = CallsAt(h)
  <2>1. CallsAt(h) \cup {} = CallsAt(h)
    OBVIOUS
  <2> QED
    BY <2>1, CallsMore
<1>3. \A i \in CallsAt(h) : i \notin Open(h) => i \notin Open(r)
  BY StaysClosed
<1> HIDE DEF r, m
<1>4. \A k \in 1..Len(r) : k \in 1..m \/ k = m + 1
  BY <1>2
<1>5. Open(r) = Open(h)
  <2>1. ASSUME NEW i \in Open(h) PROVE i \in Open(r)
    <3>1. i \in CallsAt(h) /\ \A k \in i..m : h[k] # Result(h[i].id)
      BY <2>1, Zenon DEF Open, m
    <3>2. \A d : e # Result(d)
      BY DEF Result
    <3>3. \A k \in i..Len(r) : r[k] # Result(r[i].id)
      BY <1>2, <1>4, <3>1, <3>2
    <3> QED
      BY <1>2, <3>1, <3>3, Zenon DEF Open
  <2>2. Open(r) \subseteq CallsAt(r)
    BY DEF Open
  <2> QED
    BY <1>2, <1>3, <2>1, <2>2
<1>6. \A i \in CallsAt(r) : r[i].id = HookCall \/ r[i].id < n
  BY <1>2 DEF Paired
<1>7. \A i, j \in CallsAt(r) : r[i].id = r[j].id /\ r[i].id # HookCall => i = j
  BY <1>2 DEF Paired
<1>8. \A k \in 1..Len(r) : r[k].role = "tool" => k \in 1..m
  BY <1>2, <1>4
<1>10. \A k \in 1..Len(r) :
         r[k].role = "tool" => \E i \in CallsAt(r) : i < k /\ r[i].id = r[k].id
  <2> SUFFICES ASSUME NEW k \in 1..m, h[k].role = "tool"
               PROVE  \E i \in CallsAt(r) : i < k /\ r[i].id = h[k].id
    BY <1>2, <1>8
  <2>1. PICK i \in CallsAt(h) : i < k /\ h[i].id = h[k].id
    BY Zenon DEF Paired, m
  <2> QED
    BY <1>2, <2>1
<1>12. \A k, l \in 1..Len(r) :
         r[k].role = "tool" /\ r[l] = r[k] /\ r[k].id # HookCall => k = l
  <2> SUFFICES ASSUME NEW k \in 1..Len(r), NEW l \in 1..Len(r),
                      r[k].role = "tool", r[l] = r[k], r[k].id # HookCall
               PROVE  k = l
    OBVIOUS
  <2>1. k \in 1..m /\ l \in 1..m
    BY <1>8
  <2>2. h[k].role = "tool" /\ h[l] = h[k] /\ h[k].id # HookCall
    BY <1>2, <2>1
  <2> QED
    BY <2>1, <2>2, Zenon DEF Paired, m
<1>13. \A i \in Open(r), j \in CallsAt(r) : j <= i
  BY <1>2, <1>5, Zenon DEF Paired
<1>14. Paired(r, n)
  BY <1>6, <1>7, <1>10, <1>12, <1>13, Zenon DEF Paired
<1>15. \A i \in Open(h) : r[i] = h[i]
  BY <1>2 DEF Open
<1> QED
  BY <1>5, <1>14, <1>15 DEF r

\* A steer comes into the history only when every call has its result.
LEMMA UnsplitMore ==
    ASSUME NEW h \in Seq(Entries), NEW e \in Entries, NEW A, Unsplit(h, A),
           e.role = "user" /\ e.id \in A => Open(h) = {}
    PROVE  Unsplit(Append(h, e), A)
<1> DEFINE r == Append(h, e)
           m == Len(h)
<1>1. /\ m \in Nat /\ Len(r) = m + 1 /\ r[m + 1] = e
      /\ \A i \in 1..m : r[i] = h[i]
  BY CallsMore
<1>2. SUFFICES ASSUME NEW i \in 1..Len(r), NEW j \in 1..Len(r), r[i].role = "call",
                      r[j].role = "user", i < j, r[j].id \in A
               PROVE  \E k \in i..j : r[k] = Result(r[i].id)
  BY DEF Unsplit
<1> HIDE DEF r, m
<1>3. i \in 1..m /\ r[i] = h[i]
  BY <1>1, <1>2
<1>4. CASE j \in 1..m
  <2>1. PICK k \in i..j : h[k] = Result(h[i].id)
    BY <1>1, <1>2, <1>3, <1>4, Zenon DEF Unsplit, m
  <2>2. k \in 1..m
    BY <1>1, <1>2, <1>3, <1>4, <2>1
  <2> QED
    BY <1>1, <1>3, <2>1, <2>2
<1>5. CASE j = m + 1
  <2>1. i \in CallsAt(h) /\ i \notin Open(h)
    BY <1>1, <1>2, <1>3, <1>5 DEF CallsAt, m
  <2>2. PICK k \in i..m : h[k] = Result(h[i].id)
    BY <2>1 DEF Open, m
  <2>3. k \in 1..m /\ k \in i..j
    BY <1>1, <1>3, <1>5, <2>2
  <2> QED
    BY <1>1, <1>3, <2>2, <2>3
<1> QED
  BY <1>1, <1>4, <1>5

\* A turn past its call leaves none open; nobody else runs.
LEMMA NothingOpen ==
    ASSUME Alone, OpenInv, NEW t \in Turns, pc[t] \notin Closing, pc[t] # "idle"
    PROVE  Open(hist) = {}
BY DEF Alone, OpenInv, Closing

\* A step of one turn that changes no call.
LEMMA OpenSame ==
    ASSUME OpenInv, NEW t \in Turns,
           Open(hist') = Open(hist), \A i \in Open(hist) : hist'[i].id = hist[i].id,
           \A u \in Turns \ {t} : pc'[u] = pc[u] /\ call'[u] = call[u],
           pc[t] \in Closing => pc'[t] \in Closing \/ Open(hist) = {},
           pc'[t] \in Pending =>
               \E i \in Open(hist) : hist[i].id = (IF pc'[t] = "hookTool" THEN HookCall ELSE call'[t])
    PROVE  OpenInv'
<1>1. Open(hist') # {} => \E u \in Turns : pc'[u] \in Closing
  <2> SUFFICES ASSUME Open(hist) # {} PROVE \E u \in Turns : pc'[u] \in Closing
    OBVIOUS
  <2>1. PICK u \in Turns : pc[u] \in Closing
    BY Zenon DEF OpenInv
  <2> QED
    BY <2>1
<1>2. ASSUME NEW u \in Turns, pc'[u] \in Pending
      PROVE  \E i \in Open(hist') : hist'[i].id = (IF pc'[u] = "hookTool" THEN HookCall ELSE call'[u])
  <2>1. CASE u = t
    BY <1>2, <2>1
  <2>2. CASE u # t
    <3>1. pc[u] \in Pending /\ pc'[u] = pc[u] /\ call'[u] = call[u]
      BY <1>2, <2>2
    <3>2. PICK i \in Open(hist) : hist[i].id = Wants(u)
      BY <3>1 DEF OpenInv
    <3> QED
      BY <3>1, <3>2 DEF Wants
  <2> QED
    BY <2>1, <2>2
<1> QED
  BY <1>1, <1>2, Zenon DEF OpenInv, Wants

\* Arrivals: what is steered is not in the history yet; what goes there was not
\* steered.
LEMMA CallByArrival ==
    ASSUME TypeOK, OnePlace, KeptInv, CallInv, NEW m \in Messages,
           PushSteerIfActive(m) \/ InjectGroupMessage(m) \/ Submit(m)
    PROVE  CallInv'
<1>0. hist \in Seq(Entries) /\ accepted \in Seq(Messages)
  BY DEF TypeOK, Entries
<1>1. UNCHANGED <<pc, call, nextCall>>
  BY Zenon DEF PushSteerIfActive, InjectGroupMessage, Submit, locals
<1>2. CASE InjectGroupMessage(m)
  <2> DEFINE e == Said(m)
  <2>1. m \in fresh /\ hist' = Append(hist, e) /\ accepted' = accepted
    BY <1>2, Zenon DEF InjectGroupMessage, Record, Said, ghosts
  <2>2. e \in Entries /\ e.role = "user" /\ e.id = m
    BY DEF Said, Entries, Roles
  <2>3. m \notin Elems(accepted)
    BY <2>1, NotAccepted DEF Elems
  <2> HIDE DEF e
  <2>4. /\ Paired(hist', nextCall) /\ Open(hist') = Open(hist)
        /\ \A i \in Open(hist) : hist'[i] = hist[i]
    BY <1>0, <2>1, <2>2, PairedOther DEF CallInv
  <2>5. Unsplit(hist', Elems(accepted))
    BY <1>0, <2>1, <2>2, <2>3, UnsplitMore, Zenon DEF CallInv
  <2>6. OpenInv'
    BY <1>1, <2>4, Zenon DEF CallInv, OpenInv, Wants
  <2> QED
    BY <1>1, <2>1, <2>4, <2>5, <2>6, Zenon DEF CallInv
<1>3. CASE ~InjectGroupMessage(m)
  <2>1. hist' = hist
    BY <1>3, Zenon DEF PushSteerIfActive, Submit
  <2>2. OpenInv'
    BY <1>1, <2>1, Zenon DEF CallInv, OpenInv, Wants
  <2>3. Unsplit(hist, Elems(accepted'))
    <3>1. CASE accepted' = accepted
      BY <3>1, Zenon DEF CallInv
    <3>2. CASE accepted' # accepted
      <4>1. m \in fresh /\ accepted' = Append(accepted, m)
        BY <1>3, <3>2 DEF PushSteerIfActive, Submit, ghosts
      <4>2. Heard(hist, m) = {}
        BY <4>1, NotAccepted
      <4>3. \A x \in Elems(accepted') : x \in Elems(accepted) \/ x = m
        BY <1>0, <4>1, AppendProperties DEF Elems
      <4>4. \A j \in 1..Len(hist) : hist[j].role = "user" => hist[j].id # m
        <5> SUFFICES ASSUME NEW j \in 1..Len(hist), hist[j].role = "user", hist[j].id = m
                     PROVE  FALSE
          OBVIOUS
        <5>1. hist[j] \in Entries
          BY <1>0, ElementOfSeq
        <5>2. hist[j] = Said(m)
          BY <5>1 DEF Entries, Said
        <5> QED
          BY <4>2, <5>2 DEF Heard
      <4> QED
        BY <4>3, <4>4, Zenon DEF CallInv, Unsplit
    <3> QED
      BY <3>1, <3>2
  <2> QED
    BY <1>1, <2>1, <2>2, <2>3, Zenon DEF CallInv
<1> QED
  BY <1>2, <1>3

\* Steps that leave the history alone.
LEMMA CallBySilent ==
    ASSUME CallInv, NEW t \in Turns, UNCHANGED <<hist, nextCall, accepted>>,
           \A u \in Turns \ {t} : pc'[u] = pc[u] /\ call'[u] = call[u],
           pc[t] \in Closing => pc'[t] \in Closing \/ Open(hist) = {},
           pc'[t] \in Pending =>
               \E i \in Open(hist) : hist[i].id = (IF pc'[t] = "hookTool" THEN HookCall ELSE call'[t])
    PROVE  CallInv'
<1>1. OpenInv'
  BY OpenSame DEF CallInv
<1> QED
  BY <1>1, Zenon DEF CallInv

LEMMA CallByStart ==
    ASSUME TypeOK, CallInv, NEW t \in Turns, Start(t) PROVE CallInv'
<1>1. PICK k, m : k \in Kinds /\ Enter(t, m, k) /\ pc[t] = "idle"
  BY Zenon DEF Start, HandleTask, HandleWebChatStream
<1>2. UNCHANGED <<hist, nextCall, accepted, call>>
  BY <1>1, Zenon DEF Enter
<1>3. pc'[t] \in {"begin", "user"} /\ \A u \in Turns \ {t} : pc'[u] = pc[u]
  BY <1>1 DEF Enter, Goto, TypeOK
<1> QED
  BY <1>1, <1>2, <1>3, CallBySilent DEF Closing, Pending

\* The steps of a turn that record nothing: only the scan of the padding may
\* leave the points of an open call, when it finds none.
LEMMA CallByRest ==
    ASSUME TypeOK, CallInv, NEW t \in Turns,
           \/ BeginTurn(t) \/ ModelFails(t) \/ ModelAnswers(t) \/ DrainSteer(t)
           \/ ForcedDelivery(t) \/ FlushLeftoverSteer(t) \/ HookEndTurn(t) \/ SlashReply(t)
    PROVE  CallInv'
<1>1. UNCHANGED <<hist, nextCall, accepted, call>>
  BY Zenon DEF BeginTurn, ModelFails, ModelAnswers, DrainSteer, ForcedDelivery,
     FlushLeftoverSteer, HookEndTurn, SlashReply, Quiet, ghosts
<1>2. /\ pc[t] \in {"begin", "draft", "model", "lastDrain", "roundDrain", "final", "end",
                    "hookEnd", "reply"}
      /\ pc'[t] \in {"user", "pad", "lastDrain", "fold", "model", "idle", "park"}
      /\ pc[t] = "final" => pc'[t] = "pad"
      /\ \A u \in Turns \ {t} : pc'[u] = pc[u]
  BY DEF BeginTurn, ModelFails, ModelAnswers, DrainSteer, ForcedDelivery,
     FlushLeftoverSteer, HookEndTurn, SlashReply, Goto, TypeOK
<1>3. pc[t] \in Closing => pc'[t] \in Closing
  BY <1>2 DEF Closing
<1>4. pc'[t] \notin Pending
  BY <1>2 DEF Pending
<1> QED
  BY <1>1, <1>2, <1>3, <1>4, CallBySilent, Zenon

LEMMA CallByScan ==
    ASSUME TypeOK, CallInv, NEW t \in Turns, PadScan(t) PROVE CallInv'
<1>1. UNCHANGED <<hist, nextCall, accepted>> /\ pc[t] = "pad"
  BY Zenon DEF PadScan, Quiet, ghosts
<1>2. \A i : i \in Open(hist) <=> i \in LatestAt(hist) /\ \A k \in i..Len(hist) :
                                    ~(hist[k].role = "tool" /\ hist[k].id = hist[i].id)
  <2>1. \A i \in Open(hist) : i \in LatestAt(hist)
    BY Zenon DEF CallInv, Paired, LatestAt, Open
  <2>2. \A i \in CallsAt(hist) : \A k \in i..Len(hist) :
          hist[k] = Result(hist[i].id) <=> hist[k].role = "tool" /\ hist[k].id = hist[i].id
    <3> SUFFICES ASSUME NEW i \in CallsAt(hist), NEW k \in i..Len(hist)
                 PROVE  hist[k] = Result(hist[i].id)
                          <=> hist[k].role = "tool" /\ hist[k].id = hist[i].id
      OBVIOUS
    <3>1. hist \in Seq(Entries) /\ i \in 1..Len(hist)
      BY DEF TypeOK, Entries, CallsAt
    <3>2. k \in 1..Len(hist)
      BY <3>1, LenProperties
    <3>3. hist[k] \in Entries
      BY <3>1, <3>2, ElementOfSeq
    <3> QED
      BY <3>3 DEF Entries, Result
  <2>3. LatestAt(hist) \subseteq CallsAt(hist) /\ Open(hist) \subseteq CallsAt(hist)
    BY DEF LatestAt, Open
  <2> QED
    BY <2>1, <2>2, <2>3, Zenon DEF Open
<1>3. CASE Orphans(hist) = {} /\ Goto(t, "end") /\ UNCHANGED call
  <2>1. Open(hist) = {}
    BY <1>2, <1>3, Zenon DEF Orphans
  <2>2. pc'[t] = "end" /\ \A u \in Turns \ {t} : pc'[u] = pc[u] /\ call'[u] = call[u]
    BY <1>3 DEF Goto, TypeOK
  <2> QED
    BY <1>1, <2>1, <2>2, CallBySilent DEF Pending
<1>4. ASSUME NEW c \in Orphans(hist), call' = [call EXCEPT ![t] = c], Goto(t, "padAppend")
      PROVE  CallInv'
  <2>1. \E i \in Open(hist) : hist[i].id = c
    BY <1>2, <1>4, Zenon DEF Orphans
  <2>2. /\ pc'[t] = "padAppend" /\ call'[t] = c
        /\ \A u \in Turns \ {t} : pc'[u] = pc[u] /\ call'[u] = call[u]
    BY <1>4 DEF Goto, TypeOK
  <2> QED
    BY <1>1, <2>1, <2>2, CallBySilent DEF Closing, Pending
<1> QED
  BY <1>3, <1>4, Zenon DEF PadScan

\* A call is recorded, of the model or of the hook.
LEMMA CallByCall ==
    ASSUME TypeOK, CallIds, Alone, CallInv, NEW t \in Turns, NEW c \in {HookCall, nextCall},
           pc[t] \in {"model", "hookCall"}, Record("call", c), accepted' = accepted,
           c = nextCall => nextCall' = nextCall + 1,
           c # nextCall => nextCall' = nextCall,
           \/ pc'[t] \in {"tool", "note"} /\ call'[t] = c
           \/ pc'[t] = "hookTool" /\ c = HookCall,
           \A u \in Turns \ {t} : pc'[u] = pc[u]
    PROVE  CallInv'
<1> DEFINE e == [role |-> "call", id |-> c]
<1>0. /\ hist \in Seq(Entries) /\ nextCall \in Nat \ {0} /\ nextCall' \in Nat
      /\ nextCall <= nextCall' /\ (c = nextCall => nextCall < nextCall')
      /\ \A i \in CallsAt(hist) : hist[i].id \in Nat
  BY DEF TypeOK, Entries, CallIds, CallsAt
<1>1. hist' = Append(hist, e) /\ e.role # "user"
  BY DEF Record
<1>2. e \in Entries
  BY <1>0 DEF Entries, Roles, HookCall
<1>3. Open(hist) = {}
  BY NothingOpen DEF CallInv, Closing
<1>4. /\ Paired(hist', nextCall') /\ Open(hist') = {Len(hist) + 1}
      /\ hist'[Len(hist) + 1].id = c
  BY <1>0, <1>1, <1>3, PairedCall DEF CallInv
<1>5. Unsplit(hist', Elems(accepted))
  BY <1>0, <1>1, <1>2, UnsplitMore, Zenon DEF CallInv
<1>6. OpenInv'
  <2>1. \E u \in Turns : pc'[u] \in Closing
    BY DEF Closing
  <2>2. ASSUME NEW u \in Turns, pc'[u] \in Pending
        PROVE  \E i \in Open(hist') : hist'[i].id = (IF pc'[u] = "hookTool" THEN HookCall ELSE call'[u])
    <3>1. u = t
      <4> SUFFICES ASSUME u # t PROVE FALSE
        OBVIOUS
      <4>1. pc[u] # "idle" /\ pc[t] # "idle"
        BY <2>2 DEF Pending
      <4> QED
        BY <4>1 DEF Alone
    <3>2. c = (IF pc'[t] = "hookTool" THEN HookCall ELSE call'[t])
      OBVIOUS
    <3> QED
      BY <1>4, <3>1, <3>2
  <2> QED
    BY <2>1, <2>2, Zenon DEF OpenInv, Wants
<1> QED
  BY <1>4, <1>5, <1>6, Zenon DEF CallInv

\* The result a turn is to record is that of the one open call.
LEMMA CallByResult ==
    ASSUME TypeOK, CallIds, Alone, CallInv, NEW t \in Turns, pc[t] \in Pending,
           Record("tool", Wants(t)), UNCHANGED <<nextCall, accepted>>,
           pc'[t] \notin Pending, \A u \in Turns \ {t} : pc'[u] = pc[u]
    PROVE  CallInv'
<1>1. PICK o \in Open(hist) : hist[o].id = Wants(t)
  BY Zenon DEF CallInv, OpenInv
<1>2. hist \in Seq(Entries) /\ hist[o].id \in Nat
  BY DEF TypeOK, Entries, CallIds, Open, CallsAt
<1> DEFINE e == Result(hist[o].id)
<1>3. hist' = Append(hist, e)
  BY <1>1, Zenon DEF Record, Result
<1>4. e \in Entries /\ e.role # "user"
  BY <1>2 DEF Entries, Roles, Result
<1>5. Paired(hist', nextCall) /\ Open(hist') = {}
  BY <1>2, <1>3, PairedResult DEF CallInv
<1>6. Unsplit(hist', Elems(accepted))
  BY <1>2, <1>3, <1>4, UnsplitMore, Zenon DEF CallInv
<1>7. \A u \in Turns : pc'[u] \notin Pending
  <2> SUFFICES ASSUME NEW u \in Turns \ {t}, pc'[u] \in Pending PROVE FALSE
    OBVIOUS
  <2>1. pc[u] # "idle" /\ pc[t] # "idle"
    BY DEF Pending
  <2> QED
    BY <2>1 DEF Alone
<1>8. OpenInv'
  BY <1>5, <1>7, Zenon DEF OpenInv
<1> QED
  BY <1>5, <1>6, <1>8, Zenon DEF CallInv

\* Another entry: a note of an open call, or a message with no call open.
LEMMA CallByEntry ==
    ASSUME TypeOK, CallInv, NEW t \in Turns, NEW r \in {"user", "note"},
           NEW x \in Messages \cup Nat, Record(r, x), UNCHANGED <<nextCall, call, accepted>>,
           r = "user" /\ x \in Elems(accepted) => Open(hist) = {},
           pc'[t] \notin Pending, pc[t] \in Closing => pc'[t] \in Closing,
           \A u \in Turns \ {t} : pc'[u] = pc[u]
    PROVE  CallInv'
<1> DEFINE e == [role |-> r, id |-> x]
<1>1. hist \in Seq(Entries) /\ e \in Entries /\ e.role \notin {"call", "tool"}
      /\ e.role = r /\ e.id = x /\ hist' = Append(hist, e)
  BY DEF TypeOK, Entries, Roles, Record
<1> HIDE DEF e
<1>2. /\ Paired(hist', nextCall) /\ Open(hist') = Open(hist)
      /\ \A i \in Open(hist) : hist'[i] = hist[i]
  BY <1>1, PairedOther DEF CallInv
<1>3. Unsplit(hist', Elems(accepted))
  BY <1>1, UnsplitMore, Zenon DEF CallInv
<1>4. OpenInv'
  BY <1>2, OpenSame DEF CallInv
<1> QED
  BY <1>2, <1>3, <1>4, Zenon DEF CallInv

\* Every step of a turn keeps the calls and their results.
LEMMA CallByTurn ==
    ASSUME IInv, Alone, CallInv, OnePlace, KeptInv, NEW t \in Turns, TurnStep(t) PROVE CallInv'
<1>0. TypeOK /\ CallIds
  BY DEF IInv
<1>1. CASE \/ BeginTurn(t) \/ ModelFails(t) \/ ModelAnswers(t) \/ DrainSteer(t)
           \/ ForcedDelivery(t) \/ FlushLeftoverSteer(t) \/ HookEndTurn(t) \/ SlashReply(t)
  BY <1>0, <1>1, CallByRest
<1>2. CASE PadScan(t)
  BY <1>0, <1>2, CallByScan
<1>3. CASE ModelCallsTools(t)
  <2>1. /\ pc[t] = "model" /\ Record("call", nextCall) /\ nextCall' = nextCall + 1
        /\ accepted' = accepted
    BY <1>3, Zenon DEF ModelCallsTools, Quiet, ghosts
  <2>2. /\ pc'[t] \in {"tool", "note"} /\ call'[t] = nextCall
        /\ \A u \in Turns \ {t} : pc'[u] = pc[u]
    BY <1>3 DEF ModelCallsTools, Goto, IInv, TypeOK
  <2> QED
    BY <1>0, <2>1, <2>2, CallByCall
<1>4. CASE LoopDetected(t)
  <2>1. /\ pc[t] = "note" /\ Record("note", call[t]) /\ UNCHANGED <<nextCall, call, accepted>>
    BY <1>4, Zenon DEF LoopDetected, Quiet, ghosts
  <2>2. /\ pc'[t] = "final" /\ call[t] \in Nat /\ \A u \in Turns \ {t} : pc'[u] = pc[u]
    BY <1>4 DEF LoopDetected, Goto, IInv, TypeOK, PathInv
  <2>3. pc'[t] \notin Pending /\ pc'[t] \in Closing
    BY <2>2 DEF Pending, Closing
  <2> QED
    BY <1>0, <2>1, <2>2, <2>3, CallByEntry
<1>5. CASE ToolsReturn(t) \/ PadAppend(t)
  <2>1. /\ pc[t] \in {"tool", "padAppend"} /\ Record("tool", call[t])
        /\ UNCHANGED <<nextCall, accepted>>
    BY <1>5, Zenon DEF ToolsReturn, PadAppend, Quiet, ghosts
  <2>2. pc'[t] \in {"roundDrain", "end"} /\ \A u \in Turns \ {t} : pc'[u] = pc[u]
    BY <1>5 DEF ToolsReturn, PadAppend, Goto, IInv, TypeOK
  <2>3. pc[t] \in Pending /\ pc'[t] \notin Pending /\ Wants(t) = call[t]
    BY <2>1, <2>2 DEF Pending, Wants
  <2> QED
    BY <1>0, <2>1, <2>2, <2>3, CallByResult
<1>6. CASE AppendUser(t)
  <2>1. /\ pc[t] = "user" /\ Record("user", own[t]) /\ UNCHANGED <<nextCall, call, accepted>>
    BY <1>6, Zenon DEF AppendUser, Quiet, ghosts
  <2>2. own[t] \in Messages /\ t \in Opening(pc, own, own[t])
    BY <2>1 DEF IInv, PathInv, Opening
  <2>3. own[t] \notin Elems(accepted)
    BY <1>0, <2>2, NotAccepted DEF Elems
  <2>4. /\ pc'[t] \in {"model", "draft", "hookCall", "reply"}
        /\ \A u \in Turns \ {t} : pc'[u] = pc[u]
    <3>1. kind[t] \in {"loop", "plan", "hook", "slash"}
      BY <1>0, SteeringAssumption DEF TypeOK
    <3> QED
      BY <1>0, <1>6, <3>1 DEF AppendUser, Goto, FirstStep, TypeOK
  <2>5. pc'[t] \notin Pending /\ pc[t] \notin Closing
    BY <2>1, <2>4 DEF Pending, Closing
  <2> QED
    BY <1>0, <2>1, <2>2, <2>3, <2>4, <2>5, CallByEntry
<1>7. CASE AppendSteer(t) \/ ParkLeftover(t)
  <2> DEFINE m == Head(held[t])
  <2>1. /\ pc[t] \in {"fold", "park"} /\ Record("user", m) /\ UNCHANGED <<nextCall, call, accepted>>
    BY <1>7, Zenon DEF AppendSteer, ParkLeftover, Quiet, ghosts
  <2>2. m \in Messages
    <3>1. held[t] \in Seq(Messages) /\ held[t] # <<>>
      BY <2>1 DEF IInv, TypeOK, PathInv
    <3> QED
      BY <3>1, HeadTailProperties
  <2>3. /\ pc'[t] \in {"model", "fold", "park", "idle"}
        /\ \A u \in Turns \ {t} : pc'[u] = pc[u]
    BY <1>0, <1>7, <2>1 DEF AppendSteer, ParkLeftover, Goto, TypeOK
  <2>4. pc'[t] \notin Pending /\ pc[t] \notin Closing /\ pc[t] # "idle"
    BY <2>1, <2>3 DEF Pending, Closing
  <2>5. Open(hist) = {}
    BY <2>4, NothingOpen DEF CallInv
  <2> HIDE DEF m
  <2> QED
    BY <1>0, <2>1, <2>2, <2>3, <2>4, <2>5, CallByEntry
<1>8. CASE HookRecords(t)
  <2>0. \A u \in Turns \ {t} : pc'[u] = pc[u]
    BY <1>0, <1>8 DEF HookRecords, Goto, TypeOK
  <2>1. UNCHANGED <<nextCall, call, accepted>>
    BY <1>8, Zenon DEF HookRecords, Quiet, ghosts
  <2>2. CASE pc[t] = "hookCall" /\ Record("call", HookCall) /\ Goto(t, "hookTool")
    <3>1. pc'[t] = "hookTool" /\ HookCall # nextCall
      BY <1>0, <2>2 DEF Goto, TypeOK, HookCall
    <3> QED
      BY <1>0, <2>0, <2>1, <2>2, <3>1, CallByCall
  <2>3. CASE pc[t] = "hookTool" /\ Record("tool", HookCall) /\ Goto(t, "hookAnswer")
    <3>1. pc'[t] = "hookAnswer"
      BY <1>0, <2>3 DEF Goto, TypeOK
    <3>2. pc[t] \in Pending /\ pc'[t] \notin Pending /\ Wants(t) = HookCall
      BY <2>3, <3>1 DEF Pending, Wants
    <3> QED
      BY <1>0, <2>0, <2>1, <2>3, <3>2, CallByResult
  <2>4. CASE pc[t] = "hookAnswer" /\ UNCHANGED hist /\ Goto(t, "hookEnd")
    <3>1. pc'[t] = "hookEnd"
      BY <1>0, <2>4 DEF Goto, TypeOK
    <3> QED
      BY <2>0, <2>1, <2>4, <3>1, CallBySilent DEF Closing, Pending
  <2> QED
    BY <1>8, <2>2, <2>3, <2>4, Zenon DEF HookRecords
<1> QED
  BY <1>1, <1>2, <1>3, <1>4, <1>5, <1>6, <1>7, <1>8, Zenon DEF TurnStep

\* The invariant of a session whose turns run one after the other.
SerialInv == KeptInv /\ (~overlapped => Alone /\ FollowInv /\ CallInv)

LEMMA SerialAtStart == Init => SerialInv
<1> SUFFICES ASSUME Init PROVE SerialInv
  OBVIOUS
<1>1. KeptInv /\ FollowInv /\ Alone
  BY DEF Init, KeptInv, FollowInv, Alone
<1>2. CallsAt(hist) = {} /\ Len(hist) = 0
  BY DEF Init, CallsAt
<1>3. Open(hist) = {}
  BY <1>2 DEF Open
<1>4. Paired(hist, nextCall)
  BY <1>2, <1>3 DEF Paired
<1>5. Unsplit(hist, Elems(accepted))
  BY <1>2 DEF Unsplit
<1>6. OpenInv
  BY <1>3 DEF Init, OpenInv, Pending
<1> QED
  BY <1>1, <1>4, <1>5, <1>6, Zenon DEF SerialInv, CallInv

LEMMA SerialStep == IInv /\ OneInv /\ SerialInv /\ [Next]_vars => SerialInv'
<1> SUFFICES ASSUME IInv, OneInv, SerialInv, [Next]_vars PROVE SerialInv'
  OBVIOUS
<1>0. TypeOK /\ OnePlace /\ HandsFree /\ KeptInv /\ OrderInv /\ (~overlapped => Alone)
  BY Zenon DEF IInv, OneInv, SerialInv, OrderInv
<1>1. ~overlapped' => ~overlapped /\ Alone /\ Alone' /\ CallInv
  BY <1>0, AloneStep, Zenon DEF SerialInv
<1>2. CASE UNCHANGED vars
  BY <1>2, Zenon DEF vars, arrival, session, locals, ghosts, SerialInv, KeptInv, Alone,
     FollowInv, CallInv, OpenInv, Wants
<1>3. ASSUME NEW m \in Messages, PushSteerIfActive(m) \/ InjectGroupMessage(m) \/ Submit(m)
      PROVE  OrderInv' /\ (~overlapped' => CallInv')
  BY <1>0, <1>1, <1>3, OrderByArrival, CallByArrival, Zenon
<1>4. ASSUME NEW t \in Turns, Start(t) PROVE OrderInv' /\ (~overlapped' => CallInv')
  <2>1. UNCHANGED <<held, steerBuf, lost, accepted, hist>>
    BY <1>4, Zenon DEF Start, HandleTask, HandleWebChatStream, Enter, session
  <2> QED
    BY <1>0, <1>1, <1>4, <2>1, OrderByOther, CallByStart, Zenon
<1>5. ASSUME NEW t \in Turns, TurnStep(t) PROVE OrderInv' /\ (~overlapped' => CallInv')
  <2>1. ~overlapped' => CallInv'
    BY <1>0, <1>1, <1>5, CallByTurn, Zenon
  <2>2. CASE AppendUser(t)
    BY <1>0, <2>1, <2>2, OrderByUser, Zenon
  <2>3. CASE DrainSteer(t) \/ FlushLeftoverSteer(t)
    BY <1>0, <2>1, <2>3, OrderByDrain, Zenon
  <2>4. CASE AppendSteer(t) \/ ParkLeftover(t)
    BY <1>0, <2>1, <2>4, OrderByFold, Zenon
  <2>5. CASE HookEndTurn(t)
    BY <1>0, <2>1, <2>5, OrderByHookEnd, Zenon
  <2>6. CASE \/ BeginTurn(t) \/ ModelFails(t) \/ ModelAnswers(t) \/ ModelCallsTools(t)
             \/ LoopDetected(t) \/ ToolsReturn(t) \/ ForcedDelivery(t) \/ PadScan(t)
             \/ PadAppend(t) \/ HookRecords(t) \/ SlashReply(t)
    <3>1. UNCHANGED <<held, steerBuf, lost, accepted, overlapped>>
      BY <2>6, Zenon DEF BeginTurn, ModelFails, ModelAnswers, ModelCallsTools, LoopDetected,
         ToolsReturn, ForcedDelivery, PadScan, PadAppend, HookRecords, SlashReply, Quiet,
         session, ghosts
    <3>2. hist' = hist \/ \E r \in Roles \ {"user"}, c \in Messages \cup Nat : Record(r, c)
      BY <2>6, RecordedByOther
    <3> QED
      BY <1>0, <2>1, <3>1, <3>2, OrderByOther, Zenon
  <2> QED
    BY <1>5, <2>2, <2>3, <2>4, <2>5, <2>6, Zenon DEF TurnStep
<1> QED
  BY <1>1, <1>2, <1>3, <1>4, <1>5, Zenon DEF Next, SerialInv, OrderInv

\* What the invariant says of the history.
LEMMA SerialWhole == IInv /\ OneInv /\ SerialInv => RoundsWhole
<1> SUFFICES ASSUME IInv, OneInv, SerialInv PROVE RoundsWhole
  OBVIOUS
<1>0. hist \in Seq(Entries) /\ accepted \in Seq(Messages) /\ Len(hist) \in Nat
  BY LenProperties DEF IInv, TypeOK, Entries
<1>1. SteerNeverSplitsRound
  BY Zenon DEF SteerNeverSplitsRound, SerialInv, CallInv, Unsplit, Result
<1>2. CallsAnsweredOnce
  <2> SUFFICES ASSUME ~overlapped, Running = {}, NEW i \in 1..Len(hist),
                      hist[i].role = "call", hist[i].id # HookCall
               PROVE  Cardinality({j \in 1..Len(hist) : hist[j] = Result(hist[i].id)}) = 1
    BY Zenon DEF CallsAnsweredOnce, Quiescent, Result
  <2>1. Open(hist) = {} /\ Paired(hist, nextCall)
    BY DEF SerialInv, CallInv, OpenInv, Closing, Running
  <2>2. i \in CallsAt(hist) /\ i \notin Open(hist)
    BY <2>1 DEF CallsAt
  <2>3. PICK k \in i..Len(hist) : hist[k] = Result(hist[i].id)
    BY <2>2, Zenon DEF Open
  <2>4. k \in 1..Len(hist) /\ hist[k].role = "tool" /\ hist[k].id # HookCall
    BY <1>0, <2>3 DEF Result
  <2>5. \A j \in 1..Len(hist) : hist[j] = Result(hist[i].id) => j = k
    BY <2>1, <2>3, <2>4, Zenon DEF Paired
  <2>6. {j \in 1..Len(hist) : hist[j] = Result(hist[i].id)} = {k}
    BY <2>3, <2>4, <2>5, Zenon
  <2> QED
    BY <2>6, FS_Singleton, Zenon
<1>3. SteerInOrder
  <2>1. \A m : SaidAt(m) = Heard(hist, m)
    BY Zenon DEF SaidAt, Heard, Said
  <2>2. ASSUME NEW b \in 1..Len(accepted)
        PROVE  Cardinality(SaidAt(accepted[b])) <= (IF accepted[b] \in lost THEN 0 ELSE 1)
    <3> DEFINE m == accepted[b]
               c == Count(hist, Said(m))
    <3>1. m \in Messages
      BY <1>0, ElementOfSeq
    <3>2. Cardinality(SaidAt(m)) = c
      BY <2>1, Zenon DEF Heard, Count
    <3>3. Numbered(m) /\ Places(m) = 1
      BY <3>1, Numbers, Zenon DEF IInv, OneInv, OnePlace
    <3>4. c \in Nat /\ c + In(lost, m) <= 1
      BY <3>3, PlacesSum DEF Numbered
    <3> HIDE DEF c, m
    <3>5. c <= (IF m \in lost THEN 0 ELSE 1)
      BY <3>4 DEF In
    <3> QED
      BY <3>2, <3>5 DEF m
  <2>3. ASSUME ~overlapped, NEW b \in 1..Len(accepted), NEW a \in 1..(b - 1),
               NEW j \in SaidAt(accepted[b])
        PROVE  accepted[a] \in lost \/ \E i \in SaidAt(accepted[a]) : i < j
    BY <2>1, <2>3, Zenon DEF SerialInv, FollowInv, Follows
  <2> QED
    BY <2>2, <2>3, Zenon DEF SteerInOrder
<1> QED
  BY <1>1, <1>2, <1>3 DEF RoundsWhole

\* However many messages and turns: as long as the turns of the session run one
\* after the other, no steer comes between a call and its result, a session at
\* rest has one result for each call, and the steers stand in the history once
\* and in the order they were accepted.
THEOREM RoundsWholeHolds == Spec => []RoundsWhole
<1>1. Init => OneInv /\ SerialInv
  BY OneAtStart, SerialAtStart
<1>2. IInv /\ OneInv /\ SerialInv /\ [Next]_vars => OneInv' /\ SerialInv'
  BY OneStep, SerialStep
<1>3. IInv /\ OneInv /\ SerialInv => RoundsWhole
  BY SerialWhole
<1> QED
  BY <1>1, <1>2, <1>3, Invariance, PTL DEF Spec
=============================================================================
