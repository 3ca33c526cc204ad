----------------------------- MODULE GoalsProofs -----------------------------
(***************************************************************************)
(* The goals of an agent's chats take no step back, are not left behind    *)
(* and do not run away, for any number of chats, of messages and commands, *)
(* of rounds, of room on the bus and of reported usage.                    *)
(***************************************************************************)
EXTENDS Goals, FiniteSetTheorems, TLAPS

Statuses == {"none", "active", "paused", "complete"}
Writers  == {"account", "complete", "write"}
InLoop   == {"model", "account", "answer", "complete", "drain", "last", "post"}
Places   == {"idle", "load", "fire", "publish", "end"} \cup Writers \cup InLoop
Rows     == [id : Nat, status : Statuses, tokens : Nat]

\* The types that the proof needs: those of the rows, and of what the goroutines
\* have read of them.
GoalTypes ==
    /\ row \in [Chats -> Rows] /\ made \in Nat
    /\ bound \in Chats \cup {NoChat} /\ crossed \subseteq Chats
    /\ bus \in Seq([chat : Chats, kind : Kinds]) /\ queue \in [Chats -> Seq(Kinds)]
    /\ pc \in [Threads -> Places] /\ task \in [Threads -> Kinds]
    /\ rec \in [Threads -> [chat : Chats \cup {NoChat}, id : Nat, status : Statuses, tokens : Nat]]

\* Goals have numbers of their own, in the order in which they were made.
Numbered ==
    /\ \A c \in Chats : row[c].id <= made /\ (Active(c) \/ row[c].status = "paused" => row[c].id # 0)
    /\ \A c, d \in Chats : c # d /\ row[c].id = row[d].id => row[c].id = 0

\* Goroutines of one chat, and turns of any two chats, are not busy together but
\* in the chats that have crossed.
Apart ==
    \A g, h \in Busy : g # h =>
        \/ ChatOf(g) # ChatOf(h) /\ (task[g] \in Commands \/ task[h] \in Commands)
        \/ ChatOf(g) \in crossed

\* What a goroutine handles where.
Handles(g) ==
    /\ pc[g] \in {"load", "write", "fire"} => task[g] \in Commands
    /\ pc[g] \in InLoop => task[g] \notin Commands
    /\ pc[g] = "publish" => rec[g].chat \in Chats

\* A turn finds its own chat in the registry, but for crossed chats.
Bound ==
    \A g \in Threads : pc[g] \in InLoop =>
        /\ bound \in Chats
        /\ bound = ChatOf(g) \/ {bound, ChatOf(g)} \subseteq crossed

\* What a goroutine will write is about one goal, of its own chat but for crossed
\* ones, and in a chat that has not crossed it is what the row says.
Fresh(g) ==
    pc[g] \in Writers =>
        /\ rec[g].chat \in Chats /\ rec[g].id \in 1..made
        /\ rec[g].chat = ChatOf(g) \/ rec[g].chat \in crossed
        /\ \A c \in Chats : row[c].id = rec[g].id =>
             /\ c = rec[g].chat
             /\ c \in crossed \/ (rec[g].status = row[c].status /\ rec[g].tokens = row[c].tokens)
        /\ pc[g] \in {"account", "complete"} => rec[g].status = "active"
        /\ pc[g] = "write" =>
             task[g] = "clear" \/ (task[g] \in {"pause", "resume"} /\ rec[g].status = From[task[g]])

GoalInv == GoalTypes /\ Numbered /\ Apart /\ Bound /\ \A g \in Threads : Handles(g) /\ Fresh(g)
-----------------------------------------------------------------------------
LEMMA GoalInit == Init => GoalInv
<1> SUFFICES ASSUME Init PROVE GoalInv
  OBVIOUS
<1> USE DEF Init
<1>1. \A g \in Threads : pc[g] = "idle"
  OBVIOUS
<1>2. GoalTypes
  <2>1. row \in [Chats -> Rows] /\ made \in Nat
    BY DEF Rows, Statuses, NoGoal
  <2>2. pc \in [Threads -> Places] /\ task \in [Threads -> Kinds]
    BY DEF Kinds, Places
  <2>5. bound \in Chats \cup {NoChat} /\ crossed \subseteq Chats
    OBVIOUS
  <2>3. bus \in Seq([chat : Chats, kind : Kinds]) /\ queue \in [Chats -> Seq(Kinds)]
    OBVIOUS
  <2>4. rec \in [Threads -> [chat : Chats \cup {NoChat}, id : Nat, status : Statuses, tokens : Nat]]
    BY DEF NoRecord, Statuses
  <2> QED
    BY <2>1, <2>2, <2>3, <2>4, <2>5 DEF GoalTypes
<1>3. Numbered
  BY DEF Numbered, Active, NoGoal
<1>4. Apart /\ Bound /\ \A g \in Threads : Handles(g) /\ Fresh(g)
  BY <1>1 DEF Apart, Busy, Bound, InLoop, Handles, Fresh, Writers
<1> QED
  BY <1>2, <1>3, <1>4 DEF GoalInv

LEMMA ThreadChat ==
    ASSUME NEW g \in Threads PROVE ChatOf(g) \in Chats
  BY GoalsAssumption DEF Threads, ChatOf

\* What a step of a goroutine leaves alone.
Framed(g) ==
    /\ UNCHANGED <<queue, bound, task, crossed>> /\ pc[g] # "idle"
    /\ pc' = [pc EXCEPT ![g] = pc'[g]] /\ rec' = [rec EXCEPT ![g] = rec'[g]]

LEMMA GoalFrame ==
    ASSUME GoalTypes, NEW g \in Threads, TurnStep(g) \/ SlashStep(g)
    PROVE  Framed(g)
<1> USE DEF Framed, Goto, Forget, Quiet, Local, ghosts
<1>t. /\ pc \in [Threads -> Places]
      /\ rec \in [Threads -> [chat : Chats \cup {NoChat}, id : Nat, status : Statuses, tokens : Nat]]
  BY DEF GoalTypes
<1>1. ASSUME ModelFails(g) PROVE Framed(g)
  BY <1>t, <1>1 DEF ModelFails
<1>2. ASSUME ModelAnswers(g) PROVE Framed(g)
  BY <1>t, <1>2 DEF ModelAnswers
<1>3. ASSUME FoldUsage(g) PROVE Framed(g)
  BY <1>t, <1>3 DEF FoldUsage
<1>4. ASSUME CallsUpdateGoal(g) PROVE Framed(g)
  BY <1>t, <1>4 DEF CallsUpdateGoal
<1>5. ASSUME Complete(g) PROVE Framed(g)
  BY <1>t, <1>5 DEF Complete
<1>6. ASSUME CallsTools(g) PROVE Framed(g)
  BY <1>t, <1>6 DEF CallsTools
<1>7. ASSUME DrainSteer(g) PROVE Framed(g)
  BY <1>t, <1>7 DEF DrainSteer
<1>8. ASSUME ForcedDelivery(g) PROVE Framed(g)
  BY <1>t, <1>8 DEF ForcedDelivery
<1>9. ASSUME PostTurn(g) PROVE Framed(g)
  BY <1>t, <1>9 DEF PostTurn, TryFire
<1>10. ASSUME Publish(g) PROVE Framed(g)
  BY <1>t, <1>10 DEF Publish
<1>11. ASSUME EndTurn(g) PROVE Framed(g)
  BY <1>t, <1>11 DEF EndTurn
<1>12. ASSUME SlashGoalCreate(g) PROVE Framed(g)
  BY <1>t, <1>12 DEF SlashGoalCreate
<1>13. ASSUME LoadGoal(g) PROVE Framed(g)
  BY <1>t, <1>13 DEF LoadGoal
<1>14. ASSUME TransitionGoal(g) PROVE Framed(g)
  BY <1>t, <1>14 DEF TransitionGoal
<1>15. ASSUME SlashGoalClear(g) PROVE Framed(g)
  BY <1>t, <1>15 DEF SlashGoalClear
<1>16. ASSUME Fire(g) PROVE Framed(g)
  BY <1>t, <1>16 DEF Fire, TryFire
<1> QED
  BY <1>1, <1>2, <1>3, <1>4, <1>5, <1>6, <1>7, <1>8, <1>9, <1>10, <1>11, <1>12, <1>13, <1>14, <1>15, <1>16, Zenon DEF TurnStep, SlashStep

\* What a step of a goroutine does to the row of a chat.
Writes(g, c) ==
    \/ row'[c] = row[c]
    \/ /\ pc[g] = "account" /\ row[c].id = rec[g].id
       /\ row'[c] = [id |-> row[c].id, status |-> rec[g].status, tokens |-> rec[g].tokens + 1]
    \/ /\ pc[g] = "complete" /\ row[c].id = rec[g].id
       /\ row'[c] = [id |-> row[c].id, status |-> "complete", tokens |-> rec[g].tokens]
    \/ /\ pc[g] = "write" /\ task[g] # "clear" /\ row[c].id = rec[g].id /\ TransitionGoal(g)
       /\ row'[c] = [id |-> row[c].id, status |-> To[task[g]], tokens |-> rec[g].tokens]
    \/ /\ pc[g] = "write" /\ task[g] = "clear" /\ row[c].id = rec[g].id /\ row'[c] = NoGoal
    \/ /\ pc[g] = "load" /\ c = ChatOf(g) /\ row[c].id = 0 /\ made' = made + 1 /\ pc'[g] = "fire"
       /\ row'[c] = [id |-> made + 1, status |-> "active", tokens |-> 0]

LEMMA SameRow ==
    ASSUME NEW r \in Rows, NEW s \in Rows,
           r.id = s.id, r.status = s.status, r.tokens = s.tokens
    PROVE  r = s
  BY DEF Rows

LEMMA RowSet ==
    ASSUME NEW r \in Rows, NEW x \in Statuses, NEW y \in Nat
    PROVE  [r EXCEPT !.status = x, !.tokens = y] = [id |-> r.id, status |-> x, tokens |-> y]
<1> DEFINE s == [r EXCEPT !.status = x, !.tokens = y]
           t == [id |-> r.id, status |-> x, tokens |-> y]
<1>1. s \in Rows /\ t \in Rows /\ t.id = r.id /\ t.status = x /\ t.tokens = y
  BY DEF Rows
<1>2. s.id = r.id /\ s.status = x /\ s.tokens = y
  BY DEF Rows
<1> HIDE DEF s, t
<1>3. s = t
  BY <1>1, <1>2, SameRow
<1> QED
  BY <1>3 DEF s, t

LEMMA RowMoves ==
    ASSUME GoalTypes, NEW g \in Threads, Fresh(g), TurnStep(g) \/ SlashStep(g)
    PROVE  /\ row' = [c \in Chats |-> row'[c]] /\ made' \in {made, made + 1}
           /\ made' = made + 1 => pc[g] = "load" /\ row[ChatOf(g)].id = 0
                /\ row' = [row EXCEPT ![ChatOf(g)] =
                             [id |-> made + 1, status |-> "active", tokens |-> 0]]
           /\ \A c \in Chats : Writes(g, c)
<1> USE DEF Quiet, Local, ghosts
<1>t. /\ row \in [Chats -> Rows] /\ made \in Nat
      /\ \A c \in Chats : row[c] = [id |-> row[c].id, status |-> row[c].status, tokens |-> row[c].tokens]
  BY DEF GoalTypes, Rows
<1>r. rec[g].status \in Statuses /\ rec[g].tokens \in Nat /\ rec[g].tokens + 1 \in Nat
  BY DEF GoalTypes
<1>1. ASSUME row' = row /\ made' = made
      PROVE  /\ row' = [c \in Chats |-> row'[c]] /\ made' \in {made, made + 1}
             /\ made' = made + 1 => pc[g] = "load" /\ row[ChatOf(g)].id = 0
                  /\ row' = [row EXCEPT ![ChatOf(g)] =
                               [id |-> made + 1, status |-> "active", tokens |-> 0]]
             /\ \A c \in Chats : Writes(g, c)
  BY <1>t, <1>1 DEF Writes
<1>2. CASE ModelFails(g)
  BY <1>1, <1>2 DEF ModelFails
<1>3. CASE ModelAnswers(g)
  BY <1>1, <1>3 DEF ModelAnswers
<1>4. CASE CallsUpdateGoal(g)
  BY <1>1, <1>4 DEF CallsUpdateGoal
<1>5. CASE CallsTools(g)
  BY <1>1, <1>5 DEF CallsTools
<1>6. CASE DrainSteer(g)
  BY <1>1, <1>6 DEF DrainSteer
<1>7. CASE ForcedDelivery(g)
  BY <1>1, <1>7 DEF ForcedDelivery
<1>8. CASE PostTurn(g)
  BY <1>1, <1>8 DEF PostTurn
<1>9. CASE Publish(g)
  BY <1>1, <1>9 DEF Publish
<1>10. CASE EndTurn(g)
  BY <1>1, <1>10 DEF EndTurn
<1>11. CASE LoadGoal(g)
  BY <1>1, <1>11 DEF LoadGoal
<1>12. CASE Fire(g)
  BY <1>1, <1>12 DEF Fire
<1>13. CASE FoldUsage(g)
  <2>1. CASE row' = row
    BY <1>1, <1>13, <2>1 DEF FoldUsage
  <2>2. CASE row' = [c \in Chats |-> IF c \in Holds(g) THEN [row[c] EXCEPT !.status = rec[g].status, !.tokens = rec[g].tokens + 1]
                                ELSE row[c]]
    <3>1. made' = made /\ row' = [c \in Chats |-> row'[c]]
      BY <1>13, <2>2 DEF FoldUsage
    <3>2. \A c \in Chats : Writes(g, c)
      <4> SUFFICES ASSUME NEW c \in Chats, c \in Holds(g) PROVE Writes(g, c)
        BY <2>2 DEF Writes
      <4>1. row'[c] = [id |-> row[c].id, status |-> rec[g].status, tokens |-> rec[g].tokens + 1]
        <5>1. rec[g].status \in Statuses /\ "complete" \in Statuses
          BY <1>r DEF Statuses
        <5> QED
          BY <1>t, <1>r, <2>2, <5>1, RowSet
      <4>2. pc[g] = "account"
        BY <1>13 DEF FoldUsage
      <4>3. row[c].id = rec[g].id
        BY DEF Holds
      <4> QED
        BY <4>1, <4>2, <4>3, Zenon DEF Writes
    <3> QED
      BY <1>t, <3>1, <3>2
  <2> QED
    BY <1>13, <2>1, <2>2 DEF FoldUsage, UpdateGoal
<1>14. CASE Complete(g)
  <2>1. CASE row' = row
    BY <1>1, <1>14, <2>1 DEF Complete
  <2>2. CASE row' = [c \in Chats |-> IF c \in Holds(g) THEN [row[c] EXCEPT !.status = "complete", !.tokens = rec[g].tokens]
                                ELSE row[c]]
    <3>1. made' = made /\ row' = [c \in Chats |-> row'[c]]
      BY <1>14, <2>2 DEF Complete
    <3>2. \A c \in Chats : Writes(g, c)
      <4> SUFFICES ASSUME NEW c \in Chats, c \in Holds(g) PROVE Writes(g, c)
        BY <2>2 DEF Writes
      <4>1. row'[c] = [id |-> row[c].id, status |-> "complete", tokens |-> rec[g].tokens]
        <5>1. rec[g].status \in Statuses /\ "complete" \in Statuses
          BY <1>r DEF Statuses
        <5> QED
          BY <1>t, <1>r, <2>2, <5>1, RowSet
      <4>2. pc[g] = "complete"
        BY <1>14 DEF Complete
      <4>3. row[c].id = rec[g].id
        BY DEF Holds
      <4> QED
        BY <4>1, <4>2, <4>3, Zenon DEF Writes
    <3> QED
      BY <1>t, <3>1, <3>2
  <2> QED
    BY <1>14, <2>1, <2>2 DEF Complete, UpdateGoal
<1>15. CASE TransitionGoal(g)
  <2>1. CASE row' = row
    BY <1>1, <1>15, <2>1 DEF TransitionGoal
  <2>2. CASE row' = [c \in Chats |-> IF c \in Holds(g) THEN [row[c] EXCEPT !.status = To[task[g]], !.tokens = rec[g].tokens]
                                ELSE row[c]]
    <3>1. made' = made /\ row' = [c \in Chats |-> row'[c]]
      BY <1>15, <2>2 DEF TransitionGoal
    <3>2. \A c \in Chats : Writes(g, c)
      <4> SUFFICES ASSUME NEW c \in Chats, c \in Holds(g) PROVE Writes(g, c)
        BY <2>2 DEF Writes
      <4>1. row'[c] = [id |-> row[c].id, status |-> To[task[g]], tokens |-> rec[g].tokens]
        <5>1. To[task[g]] \in Statuses
          BY <1>15 DEF TransitionGoal, Fresh, Writers, To, Statuses
        <5>2. row[c] \in Rows
          BY <1>t
        <5>3. PICK x \in Statuses : x = To[task[g]]
          BY <5>1
        <5>4. row'[c] = [row[c] EXCEPT !.status = x, !.tokens = rec[g].tokens]
          BY <2>2, <5>3
        <5>5. rec[g].tokens \in Nat
          BY <1>r
        <5>6. [row[c] EXCEPT !.status = x, !.tokens = rec[g].tokens]
                = [id |-> row[c].id, status |-> x, tokens |-> rec[g].tokens]
          BY <5>2, <5>5, RowSet
        <5> QED
          BY <5>3, <5>4, <5>6
      <4>2. pc[g] = "write" /\ task[g] # "clear" /\ TransitionGoal(g)
        BY <1>15 DEF TransitionGoal
      <4>3. row[c].id = rec[g].id
        BY DEF Holds
      <4> QED
        BY <4>1, <4>2, <4>3, Zenon DEF Writes
    <3> QED
      BY <1>t, <3>1, <3>2
  <2> QED
    BY <1>15, <2>1, <2>2 DEF TransitionGoal, UpdateGoal
<1>16. CASE SlashGoalClear(g)
  <2>1. CASE row' = row
    BY <1>1, <1>16, <2>1 DEF SlashGoalClear
  <2>2. CASE row' = [c \in Chats |-> IF c \in Holds(g) THEN NoGoal
                                ELSE row[c]]
    <3>1. made' = made /\ row' = [c \in Chats |-> row'[c]]
      BY <1>16, <2>2 DEF SlashGoalClear
    <3>2. \A c \in Chats : Writes(g, c)
      BY <1>t, <1>16, <2>2 DEF SlashGoalClear, Writes, Holds
    <3> QED
      BY <1>t, <3>1, <3>2
  <2> QED
    BY <1>16, <2>1, <2>2 DEF SlashGoalClear, UpdateGoal
<1>17. CASE SlashGoalCreate(g)
  <2>1. CASE UNCHANGED <<row, made>>
    BY <1>1, <2>1
  <2>2. CASE made' = made + 1
    BY <1>t, <1>17, <2>2 DEF SlashGoalCreate, Writes, Goto, GoalTypes
  <2> QED
    BY <1>17, <2>1, <2>2 DEF SlashGoalCreate
<1> QED
  BY <1>2, <1>3, <1>4, <1>5, <1>6, <1>7, <1>8, <1>9, <1>10, <1>11, <1>12, <1>13, <1>14, <1>15, <1>16, <1>17, Zenon DEF TurnStep, SlashStep

\* Where a step of a goroutine leads, and what it has read then.
LEMMA GoalMoves ==
    ASSUME GoalTypes, NEW g \in Threads, TurnStep(g) \/ SlashStep(g)
    PROVE  /\ pc'[g] \in Places
           /\ pc'[g] \in InLoop => pc[g] \in InLoop
           /\ pc'[g] \in {"load", "write", "fire"} => pc[g] \in {"load", "write", "fire"}
           /\ pc'[g] \in {"account", "complete"} =>
                pc[g] \in InLoop /\ Active(bound) /\ rec'[g] = Read(bound) /\ row' = row
           /\ pc'[g] = "account" => row[bound].tokens < MaxTokens
           /\ pc'[g] = "write" =>
                /\ rec'[g] = Read(ChatOf(g)) /\ row' = row /\ task[g] # "create"
                /\ IF task[g] = "clear" THEN row[ChatOf(g)].id # 0
                   ELSE row[ChatOf(g)].status = From[task[g]]
           /\ \/ rec'[g] \in {rec[g], NoRecord} \/ rec'[g] = Read(ChatOf(g))
              \/ rec'[g] = Read(bound) /\ pc[g] \in InLoop
           /\ pc'[g] = "publish" =>
                rec'[g] = Read(ChatOf(g)) \/ (rec'[g] = Read(bound) /\ pc[g] \in InLoop)
           /\ \/ bus' = bus
              \/ pc[g] = "publish" /\ bus' = Append(bus, [chat |-> rec[g].chat, kind |-> "goal"])
<1> USE DEF Goto, Forget, Quiet, Local, ghosts, Places, Writers, InLoop
<1>t. /\ pc \in [Threads -> Places]
      /\ rec \in [Threads -> [chat : Chats \cup {NoChat}, id : Nat, status : Statuses, tokens : Nat]]
  BY DEF GoalTypes
<1>1. CASE ModelFails(g)
  BY <1>t, <1>1 DEF ModelFails
<1>2. CASE ModelAnswers(g)
  BY <1>t, <1>2 DEF ModelAnswers
<1>3. CASE FoldUsage(g)
  BY <1>t, <1>3 DEF FoldUsage
<1>4. CASE CallsUpdateGoal(g)
  BY <1>t, <1>4 DEF CallsUpdateGoal
<1>5. CASE Complete(g)
  BY <1>t, <1>5 DEF Complete
<1>6. CASE CallsTools(g)
  BY <1>t, <1>6 DEF CallsTools
<1>7. CASE DrainSteer(g)
  BY <1>t, <1>7 DEF DrainSteer
<1>8. CASE ForcedDelivery(g)
  BY <1>t, <1>8 DEF ForcedDelivery
<1>9. CASE PostTurn(g)
  BY <1>t, <1>9 DEF PostTurn, TryFire
<1>10. CASE Publish(g)
  BY <1>t, <1>10 DEF Publish
<1>11. CASE EndTurn(g)
  BY <1>t, <1>11 DEF EndTurn
<1>12. CASE SlashGoalCreate(g)
  BY <1>t, <1>12 DEF SlashGoalCreate
<1>13. CASE LoadGoal(g)
  BY <1>t, <1>13 DEF LoadGoal
<1>14. CASE TransitionGoal(g)
  BY <1>t, <1>14 DEF TransitionGoal
<1>15. CASE SlashGoalClear(g)
  BY <1>t, <1>15 DEF SlashGoalClear
<1>16. CASE Fire(g)
  BY <1>t, <1>16 DEF Fire, TryFire
<1> QED
  BY <1>1, <1>2, <1>3, <1>4, <1>5, <1>6, <1>7, <1>8, <1>9, <1>10, <1>11, <1>12, <1>13, <1>14, <1>15, <1>16, Zenon DEF TurnStep, SlashStep

\* A step of a goroutine changes the row of its own chat alone, or crossed ones,
\* and keeps the goal's number, or ends the goal, or makes one.
LEMMA RowStep ==
    ASSUME GoalInv, NEW g \in Threads, TurnStep(g) \/ SlashStep(g),
           NEW c \in Chats
    PROVE  /\ row'[c] \in Rows
           /\ row'[c] = row[c] \/ c = ChatOf(g) \/ c \in crossed
           /\ \/ row'[c] = row[c]
              \/ row'[c].id = row[c].id /\ row[c].id # 0
              \/ row'[c] = NoGoal
              \/ row'[c].id = made + 1 /\ made' = made + 1 /\ c = ChatOf(g)
<1>t. /\ GoalTypes /\ Fresh(g) /\ row[c] \in Rows /\ made \in Nat
      /\ rec[g].status \in Statuses /\ rec[g].tokens \in Nat /\ rec[g].id \in Nat
  BY DEF GoalInv, GoalTypes
<1>1. Writes(g, c)
  BY <1>t, RowMoves
<1>2. CASE row'[c] = row[c]
  BY <1>t, <1>2
<1>3. ASSUME pc[g] \in Writers, row[c].id = rec[g].id
      PROVE  row[c].id # 0 /\ (c = ChatOf(g) \/ c \in crossed)
  BY <1>t, <1>3 DEF Fresh
<1>4. ASSUME pc[g] = "write", task[g] # "clear" PROVE To[task[g]] \in Statuses
  BY <1>t, <1>4 DEF Fresh, Writers, To, Statuses
<1>5. CASE /\ pc[g] = "account" /\ row[c].id = rec[g].id
           /\ row'[c] = [id |-> row[c].id, status |-> rec[g].status, tokens |-> rec[g].tokens + 1]
  BY <1>t, <1>3, <1>5 DEF Rows, Writers
<1>6. CASE /\ pc[g] = "complete" /\ row[c].id = rec[g].id
           /\ row'[c] = [id |-> row[c].id, status |-> "complete", tokens |-> rec[g].tokens]
  BY <1>t, <1>3, <1>6 DEF Rows, Writers, Statuses
<1>7. CASE /\ pc[g] = "write" /\ task[g] # "clear" /\ row[c].id = rec[g].id
           /\ row'[c] = [id |-> row[c].id, status |-> To[task[g]], tokens |-> rec[g].tokens]
  <2>1. PICK x \in Statuses : x = To[task[g]]
    BY <1>4, <1>7
  <2>2. row'[c] = [id |-> row[c].id, status |-> x, tokens |-> rec[g].tokens]
    BY <1>7, <2>1
  <2> QED
    BY <1>t, <1>3, <1>7, <2>2 DEF Rows, Writers
<1>8. CASE pc[g] = "write" /\ row[c].id = rec[g].id /\ row'[c] = NoGoal
  BY <1>t, <1>3, <1>8 DEF Rows, Writers, Statuses, NoGoal
<1>9. CASE /\ c = ChatOf(g) /\ made' = made + 1
           /\ row'[c] = [id |-> made + 1, status |-> "active", tokens |-> 0]
  BY <1>t, <1>9 DEF Rows, Statuses
<1> QED
  BY <1>1, <1>2, <1>5, <1>6, <1>7, <1>8, <1>9, Zenon DEF Writes

\* What a goroutine reads is of the types of its record.
LEMMA ReadType ==
    ASSUME GoalTypes, NEW c \in Chats
    PROVE  /\ Read(c) \in [chat : Chats \cup {NoChat}, id : Nat, status : Statuses, tokens : Nat]
           /\ Read(c).chat = c /\ Read(c).id = row[c].id
           /\ Read(c).status = row[c].status /\ Read(c).tokens = row[c].tokens
<1>1. row[c] \in Rows
  BY DEF GoalTypes
<1> QED
  BY <1>1 DEF Read, Rows

LEMMA StepTypes ==
    ASSUME GoalInv, NEW g \in Threads, TurnStep(g) \/ SlashStep(g)
    PROVE  GoalTypes' /\ (pc'[g] = "publish" => rec'[g].chat \in Chats)
<1>t. /\ GoalTypes /\ Fresh(g) /\ Handles(g) /\ ChatOf(g) \in Chats
      /\ made \in Nat /\ row \in [Chats -> Rows]
      /\ pc \in [Threads -> Places]
      /\ rec \in [Threads -> [chat : Chats \cup {NoChat}, id : Nat, status : Statuses, tokens : Nat]]
      /\ pc[g] \in InLoop => bound \in Chats
  BY ThreadChat DEF GoalInv, GoalTypes, Bound
<1>1. row' \in [Chats -> Rows] /\ made' \in Nat
  <2>1. row' = [c \in Chats |-> row'[c]] /\ made' \in {made, made + 1}
    BY <1>t, RowMoves
  <2>2. \A c \in Chats : row'[c] \in Rows
    BY RowStep
  <2>3. made' \in Nat
    BY <1>t, <2>1
  <2> QED
    BY <2>1, <2>2, <2>3, Zenon
<1>2. Framed(g)
  BY <1>t, GoalFrame
<1>3. rec'[g] \in [chat : Chats \cup {NoChat}, id : Nat, status : Statuses, tokens : Nat]
  <2>1. CASE rec'[g] = Read(ChatOf(g))
    BY <1>t, <2>1, ReadType
  <2>2. CASE rec'[g] = Read(bound) /\ pc[g] \in InLoop
    BY <1>t, <2>2, ReadType
  <2>3. CASE rec'[g] \in {rec[g], NoRecord}
    BY <1>t, <2>3 DEF NoRecord, Statuses
  <2> QED
    BY <1>t, <2>1, <2>2, <2>3, GoalMoves
<1>4. pc' \in [Threads -> Places]
  <2>1. pc'[g] \in Places
    BY <1>t, GoalMoves, Zenon
  <2> QED
    BY <1>t, <1>2, <2>1 DEF Framed
<1>5. rec' \in [Threads -> [chat : Chats \cup {NoChat}, id : Nat, status : Statuses, tokens : Nat]]
  BY <1>t, <1>2, <1>3 DEF Framed
<1>6. bus' \in Seq([chat : Chats, kind : Kinds])
  <2>1. CASE bus' = bus
    BY <1>t, <2>1 DEF GoalTypes
  <2>2. CASE pc[g] = "publish" /\ bus' = Append(bus, [chat |-> rec[g].chat, kind |-> "goal"])
    <3>1. rec[g].chat \in Chats
      BY <1>t, <2>2 DEF Handles
    <3>2. bus \in Seq([chat : Chats, kind : Kinds])
      BY <1>t DEF GoalTypes
    <3>3. [chat |-> rec[g].chat, kind |-> "goal"] \in [chat : Chats, kind : Kinds]
      BY <3>1 DEF Kinds
    <3> QED
      BY <2>2, <3>2, <3>3
  <2> QED
    BY <1>t, <2>1, <2>2, GoalMoves
<1>7. ASSUME pc'[g] = "publish" PROVE rec'[g].chat \in Chats
  <2>1. rec'[g] = Read(ChatOf(g)) \/ (rec'[g] = Read(bound) /\ pc[g] \in InLoop)
    BY <1>t, <1>7, GoalMoves, Zenon
  <2> QED
    BY <1>t, <2>1, ReadType
<1> QED
  BY <1>t, <1>1, <1>2, <1>4, <1>5, <1>6, <1>7, Zenon DEF GoalTypes, Framed

LEMMA StepNumbered ==
    ASSUME GoalInv, NEW g \in Threads, TurnStep(g) \/ SlashStep(g)
    PROVE  Numbered'
<1>t. made \in Nat /\ made' \in {made, made + 1} /\ \A c \in Chats : row[c] \in Rows
  BY RowMoves DEF GoalInv, GoalTypes
<1>1. ASSUME NEW c \in Chats
      PROVE  row'[c].id <= made' /\ (Active(c)' \/ row'[c].status = "paused" => row'[c].id # 0)
  BY <1>t, RowStep DEF GoalInv, Numbered, Active, NoGoal, Rows
<1>2. ASSUME NEW c \in Chats, NEW d \in Chats, c # d, row'[c].id = row'[d].id
      PROVE  row'[c].id = 0
  <2>1. /\ row'[c].id \in {row[c].id, 0} \/ (row'[c].id = made + 1 /\ c = ChatOf(g))
        /\ row'[d].id \in {row[d].id, 0} \/ (row'[d].id = made + 1 /\ d = ChatOf(g))
    BY RowStep DEF NoGoal
  <2>2. /\ row[c].id <= made /\ row[d].id <= made /\ row[c].id \in Nat /\ row[d].id \in Nat
        /\ row[c].id = row[d].id => row[c].id = 0
    BY <1>t, <1>2 DEF GoalInv, Numbered, Rows
  <2> QED
    BY <1>t, <1>2, <2>1, <2>2
<1> QED
  BY <1>1, <1>2 DEF Numbered

LEMMA StepOthers ==
    ASSUME GoalInv, NEW g \in Threads, TurnStep(g) \/ SlashStep(g)
    PROVE  Apart' /\ Bound' /\ \A h \in Threads : Handles(h)'
<1>1. Framed(g) /\ \A h \in Threads \ {g} : pc'[h] = pc[h] /\ rec'[h] = rec[h]
  <2>1. Framed(g)
    BY GoalFrame DEF GoalInv
  <2> QED
    BY <2>1 DEF Framed, GoalInv, GoalTypes
<1>2. /\ pc'[g] \in InLoop => pc[g] \in InLoop
      /\ pc'[g] \in {"load", "write", "fire"} => pc[g] \in {"load", "write", "fire"}
  BY GoalMoves DEF GoalInv
<1>3. Apart'
  BY <1>1 DEF GoalInv, Apart, Busy, Framed
<1>4. Bound'
  <2>1. ASSUME NEW h \in Threads, pc'[h] \in InLoop PROVE pc[h] \in InLoop
    BY <1>1, <1>2, <2>1
  <2> QED
    BY <1>1, <2>1 DEF GoalInv, Bound, Framed
<1>5. ASSUME NEW h \in Threads PROVE Handles(h)'
  <2>1. CASE h = g
    <3>1. pc'[g] = "publish" => rec'[g].chat \in Chats
      BY StepTypes
    <3> QED
      BY <1>1, <1>2, <2>1, <3>1 DEF GoalInv, Handles, Framed
  <2>2. CASE h # g
    BY <1>1, <2>2 DEF GoalInv, Handles, Framed
  <2> QED
    BY <2>1, <2>2
<1> QED
  BY <1>3, <1>4, <1>5

\* What a goroutine has just read is what the row says.
LEMMA FreshRead ==
    ASSUME GoalInv, NEW g \in Threads, TurnStep(g) \/ SlashStep(g),
           pc'[g] \in Writers
    PROVE  Fresh(g)'
<1>1. /\ GoalTypes /\ Framed(g) /\ Handles(g) /\ ChatOf(g) \in Chats
      /\ pc[g] \in InLoop => bound \in Chats /\ (bound = ChatOf(g) \/ bound \in crossed)
  BY ThreadChat, GoalFrame DEF GoalInv, Bound
<1>2. /\ pc'[g] \in {"account", "complete"} =>
           pc[g] \in InLoop /\ Active(bound) /\ rec'[g] = Read(bound) /\ row' = row
      /\ pc'[g] = "write" =>
           /\ rec'[g] = Read(ChatOf(g)) /\ row' = row /\ task[g] # "create"
           /\ IF task[g] = "clear" THEN row[ChatOf(g)].id # 0
              ELSE row[ChatOf(g)].status = From[task[g]]
      /\ pc'[g] \in {"load", "write", "fire"} => pc[g] \in {"load", "write", "fire"}
  BY <1>1, GoalMoves, Zenon
<1>3. PICK c \in Chats :
        /\ rec'[g] = Read(c) /\ row' = row /\ (c = ChatOf(g) \/ c \in crossed)
        /\ pc'[g] \in {"account", "complete"} => Active(c)
        /\ pc'[g] = "write" =>
             \/ task[g] = "clear" /\ row[c].id # 0
             \/ task[g] \in {"pause", "resume"} /\ row[c].status = From[task[g]]
  <2>1. CASE pc'[g] \in {"account", "complete"}
    BY <1>1, <1>2, <2>1
  <2>2. CASE pc'[g] = "write"
    <3>1. task[g] \in {"pause", "resume", "clear"}
      BY <1>1, <1>2, <2>2 DEF Handles, Commands
    <3> QED
      BY <1>1, <1>2, <2>2, <3>1
  <2> QED
    BY <2>1, <2>2 DEF Writers
<1>4. row[c].id \in 1..made
  <2>1. row[c].id # 0
    BY <1>3 DEF GoalInv, Numbered, Active, From, Writers
  <2> QED
    BY <1>1, <2>1 DEF GoalInv, GoalTypes, Numbered, Rows
<1>5. \A d \in Chats : row[d].id = row[c].id => d = c
  BY <1>4 DEF GoalInv, Numbered
<1>6. made' \in {made, made + 1} /\ made \in Nat
  BY <1>1, RowMoves DEF GoalInv, GoalTypes
<1>7. /\ rec'[g].chat = c /\ rec'[g].id = row[c].id
      /\ rec'[g].status = row[c].status /\ rec'[g].tokens = row[c].tokens
  BY <1>1, <1>3, ReadType
<1>8. rec'[g].id \in 1..made'
  BY <1>4, <1>6, <1>7
<1> QED
  BY <1>1, <1>3, <1>5, <1>7, <1>8 DEF Fresh, Writers, Active, Framed

\* What the others have read stays what the row says, but for crossed chats: only
\* one goroutine of a chat that has not crossed is busy.
LEMMA FreshKept ==
    ASSUME GoalInv, NEW g \in Threads, TurnStep(g) \/ SlashStep(g),
           NEW h \in Threads, h # g, pc[h] \in Writers
    PROVE  Fresh(h)'
<1>1. /\ Framed(g) /\ pc'[h] = pc[h] /\ rec'[h] = rec[h] /\ ChatOf(h) \in Chats
  <2>1. Framed(g)
    BY GoalFrame DEF GoalInv
  <2> QED
    BY <2>1, ThreadChat DEF Framed, GoalInv, GoalTypes
<1>2. made \in Nat /\ made' \in {made, made + 1}
  BY RowMoves DEF GoalInv, GoalTypes
<1>3. /\ rec[h].chat \in Chats /\ rec[h].id \in 1..made
      /\ rec[h].chat = ChatOf(h) \/ rec[h].chat \in crossed
  BY DEF GoalInv, Fresh
<1>4. ASSUME NEW c \in Chats, row'[c].id = rec[h].id
      PROVE  /\ c = rec[h].chat
             /\ c \in crossed \/ (rec[h].status = row'[c].status /\ rec[h].tokens = row'[c].tokens)
  <2>1. row[c].id = rec[h].id /\ (row'[c] = row[c] \/ c = ChatOf(g) \/ c \in crossed)
    BY <1>2, <1>3, <1>4, RowStep DEF NoGoal
  <2>2. /\ c = rec[h].chat
        /\ c \in crossed \/ (rec[h].status = row[c].status /\ rec[h].tokens = row[c].tokens)
    BY <2>1 DEF GoalInv, Fresh
  <2>3. ASSUME c = ChatOf(g), c = ChatOf(h) PROVE c \in crossed
    <3>1. g \in Busy /\ h \in Busy
      BY <1>1 DEF Framed, Busy, Writers
    <3> QED
      BY <2>3, <3>1 DEF GoalInv, Apart
  <2> QED
    BY <1>3, <2>1, <2>2, <2>3
<1>5. rec[h].id \in 1..made'
  BY <1>2, <1>3
<1> QED
  BY <1>1, <1>3, <1>4, <1>5 DEF GoalInv, Fresh, Framed

LEMMA StepInv ==
    ASSUME GoalInv, NEW g \in Threads, TurnStep(g) \/ SlashStep(g)
    PROVE  GoalInv'
<1>1. ASSUME NEW h \in Threads PROVE Fresh(h)'
  <2>1. CASE h = g /\ pc'[g] \in Writers
    BY <2>1, FreshRead
  <2>2. CASE h # g /\ pc[h] \in Writers
    BY <2>2, FreshKept
  <2>3. CASE pc'[h] \notin Writers
    BY <2>3 DEF Fresh
  <2>4. h # g => pc'[h] = pc[h]
    BY GoalFrame DEF GoalInv, GoalTypes, Framed
  <2> QED
    BY <2>1, <2>2, <2>3, <2>4
<1> QED
  BY <1>1, StepTypes, StepNumbered, StepOthers DEF GoalInv
-----------------------------------------------------------------------------
\* A goroutine that takes up a message or a command.
Entered(g, k) ==
    /\ \A h \in Threads \ {g} : pc'[h] = pc[h] /\ task'[h] = task[h]
    /\ pc' \in [Threads -> Places] /\ task' \in [Threads -> Kinds]
    /\ pc'[g] \in {"load", "model", "end"} /\ task'[g] = k
    /\ pc'[g] = "load" => k \in Commands
    /\ pc'[g] = "model" => k \notin Commands /\ bound' = ChatOf(g)
    /\ pc'[g] # "model" => bound' = bound /\ kicks' = kicks
    /\ pc'[g] = "end" => k = "user"
    /\ crossed' = crossed \cup Crosses(g) /\ broken' = broken
    /\ kicks' = kicks \/ (kicks' = kicks + 1 /\ k = "user")
    /\ pc'[g] = "model" /\ k = "user" => kicks' = kicks + 1

LEMMA EnterMoves ==
    ASSUME GoalTypes, NEW g \in Threads, NEW k \in Kinds, Enter(g, k), kicks \in Nat
    PROVE  Entered(g, k)
<1>1. /\ task' = [task EXCEPT ![g] = k] /\ crossed' = crossed \cup Crosses(g)
      /\ pc \in [Threads -> Places] /\ task \in [Threads -> Kinds] /\ broken' = broken
  BY DEF Enter, GoalTypes
<1>2. CASE k \in Commands /\ pc' = [pc EXCEPT ![g] = "load"] /\ UNCHANGED <<bound, kicks>>
  BY <1>1, <1>2 DEF Entered, Places
<1>3. CASE /\ k \notin Commands /\ pc' = [pc EXCEPT ![g] = "model"] /\ bound' = ChatOf(g)
           /\ kicks' = kicks + (IF k = "user" THEN 1 ELSE 0)
  BY <1>1, <1>3 DEF Entered, Places, InLoop
<1>4. CASE k = "user" /\ pc' = [pc EXCEPT ![g] = "end"] /\ UNCHANGED <<bound, kicks>>
  BY <1>1, <1>4 DEF Entered, Places
<1> QED
  BY <1>2, <1>3, <1>4 DEF Enter

LEMMA EnterInv ==
    ASSUME GoalInv, kicks \in Nat, NEW g \in Threads, NEW k \in Kinds,
           pc[g] = "idle", Enter(g, k), UNCHANGED <<row, rec, made>>,
           bus' \in Seq([chat : Chats, kind : Kinds]), queue' \in [Chats -> Seq(Kinds)]
    PROVE  GoalInv'
<1>t. GoalTypes /\ ChatOf(g) \in Chats
  BY ThreadChat DEF GoalInv
<1>1. /\ \A h \in Threads \ {g} : pc'[h] = pc[h] /\ task'[h] = task[h]
      /\ pc'[g] \in {"load", "model", "end"} /\ task'[g] = k
      /\ pc'[g] = "load" => k \in Commands
      /\ pc'[g] = "model" => k \notin Commands /\ bound' = ChatOf(g)
      /\ pc'[g] # "model" => bound' = bound
      /\ pc' \in [Threads -> Places] /\ task' \in [Threads -> Kinds]
      /\ crossed' = crossed \cup Crosses(g)
  BY <1>t, EnterMoves DEF Entered
<1>2. ASSUME NEW h \in Busy \ {g},
             ChatOf(h) = ChatOf(g) \/ (k \notin Commands /\ task[h] \notin Commands)
      PROVE  ChatOf(g) \in crossed' /\ ChatOf(h) \in crossed'
  BY <1>1, <1>2, ThreadChat DEF Crosses, Busy
<1>3. GoalTypes'
  BY <1>t, <1>1 DEF GoalTypes, Crosses
<1>4. Numbered'
  BY DEF GoalInv, Numbered, Active
<1>5. Apart'
  <2> SUFFICES ASSUME NEW x \in Busy', NEW y \in Busy', x # y
               PROVE  \/ ChatOf(x) # ChatOf(y) /\ (task'[x] \in Commands \/ task'[y] \in Commands)
                      \/ ChatOf(x) \in crossed'
    BY DEF Apart
  <2>1. CASE x # g /\ y # g
    BY <1>1, <2>1 DEF GoalInv, Apart, Busy
  <2>2. CASE x = g
    BY <1>1, <1>2, <2>2 DEF Busy
  <2>3. CASE y = g
    BY <1>1, <1>2, <2>3 DEF Busy
  <2> QED
    BY <2>1, <2>2, <2>3
<1>6. Bound'
  <2> SUFFICES ASSUME NEW h \in Threads, pc'[h] \in InLoop
               PROVE  /\ bound' \in Chats
                      /\ bound' = ChatOf(h) \/ {bound', ChatOf(h)} \subseteq crossed'
    BY DEF Bound
  <2>1. CASE h = g
    BY <1>t, <1>1, <2>1 DEF InLoop
  <2>2. CASE h # g
    <3>1. pc[h] \in InLoop /\ h \in Busy \ {g} /\ task[h] \notin Commands
      BY <1>1, <2>2 DEF GoalInv, Handles, Busy, InLoop
    <3>2. CASE pc'[g] = "model"
      BY <1>t, <1>1, <1>2, <3>1, <3>2
    <3>3. CASE pc'[g] # "model"
      BY <1>1, <3>1, <3>3 DEF GoalInv, Bound
    <3> QED
      BY <3>2, <3>3
  <2> QED
    BY <2>1, <2>2
<1>7. ASSUME NEW h \in Threads PROVE Handles(h)' /\ Fresh(h)'
  <2>1. CASE h = g
    BY <1>1, <2>1 DEF Handles, Fresh, InLoop, Writers
  <2>2. CASE h # g
    BY <1>1, <2>2 DEF GoalInv, Handles, Fresh
  <2> QED
    BY <2>1, <2>2
<1> QED
  BY <1>3, <1>4, <1>5, <1>6, <1>7 DEF GoalInv

LEMMA FirstAndRest ==
    ASSUME NEW S, NEW q \in Seq(S), q # <<>> PROVE Head(q) \in S /\ Tail(q) \in Seq(S)
  OBVIOUS

LEMMA BusHead ==
    ASSUME GoalTypes, bus # <<>>
    PROVE  /\ Tail(bus) \in Seq([chat : Chats, kind : Kinds]) /\ Len(Tail(bus)) = Len(bus) - 1
           /\ Len(bus) \in Nat
           /\ Head(bus).chat \in Chats /\ Head(bus).kind \in Kinds
<1>1. bus \in Seq([chat : Chats, kind : Kinds])
  BY DEF GoalTypes
<1>2. Tail(bus) \in Seq([chat : Chats, kind : Kinds]) /\ Head(bus) \in [chat : Chats, kind : Kinds]
  BY <1>1, FirstAndRest
<1> QED
  BY <1>1, <1>2

LEMMA GoalNext == ASSUME GoalInv, kicks \in Nat, [Next]_vars PROVE GoalInv'
<1>t. GoalTypes
  BY DEF GoalInv
<1>s. ASSUME UNCHANGED <<row, made, bound, crossed, pc, task, rec>>,
             bus' \in Seq([chat : Chats, kind : Kinds]), queue' \in [Chats -> Seq(Kinds)]
      PROVE  GoalInv'
  BY <1>s DEF GoalInv, GoalTypes, Numbered, Active, Apart, Busy, Bound, Handles, Fresh
<1>1. ASSUME NEW c \in Chats, NEW k \in Commands \cup {"user"}, Send(c, k) PROVE GoalInv'
  <2>1. [chat |-> c, kind |-> k] \in [chat : Chats, kind : Kinds]
    BY DEF Kinds
  <2> QED
    BY <1>t, <1>s, <1>1, <2>1 DEF Send, GoalTypes, locals, ghosts
<1>2. ASSUME NEW c \in Chats, NEW k \in Commands \cup {"user"}, WebRequest(c, k) PROVE GoalInv'
  <2>1. CASE InTurn(c)
    BY <1>t, <1>s, <1>2, <2>1 DEF WebRequest, GoalTypes, ghosts
  <2>2. CASE ~InTurn(c)
    <3>1. <<c, "web">> \in Threads /\ k \in Kinds
      BY <1>2 DEF WebRequest, Threads, Kinds
    <3> QED
      BY <1>t, <1>2, <2>2, <3>1, EnterInv DEF WebRequest, GoalTypes
  <2> QED
    BY <2>1, <2>2
<1>3. CASE Route
  <2>1. bus \in Seq([chat : Chats, kind : Kinds]) /\ bus # <<>>
    BY <1>t, <1>3 DEF GoalTypes, Route
  <2>2. /\ Tail(bus) \in Seq([chat : Chats, kind : Kinds])
        /\ Head(bus).chat \in Chats /\ Head(bus).kind \in Kinds
    BY <1>t, <2>1, BusHead
  <2>3. queue' \in [Chats -> Seq(Kinds)]
    <3>1. Head(bus).chat \in Chats /\ Head(bus).kind \in Kinds /\ queue \in [Chats -> Seq(Kinds)]
      BY <1>t, <2>2 DEF GoalTypes
    <3>2. queue' = queue
          \/ queue' = [queue EXCEPT ![Head(bus).chat] = Append(@, Head(bus).kind)]
      BY <1>3 DEF Route
    <3>3. Append(queue[Head(bus).chat], Head(bus).kind) \in Seq(Kinds)
      BY <3>1
    <3> QED
      BY <3>1, <3>2, <3>3, Zenon
  <2> QED
    BY <1>s, <1>3, <2>2, <2>3 DEF Route, locals, ghosts
<1>4. ASSUME NEW c \in Chats, HandleTask(c) PROVE GoalInv'
  <2>1. queue[c] \in Seq(Kinds) /\ queue[c] # <<>> /\ queue' = [queue EXCEPT ![c] = Tail(@)]
    BY <1>t, <1>4 DEF GoalTypes, HandleTask
  <2>2. Head(queue[c]) \in Kinds /\ Tail(queue[c]) \in Seq(Kinds)
    BY <2>1
  <2>3. queue' \in [Chats -> Seq(Kinds)] /\ bus' \in Seq([chat : Chats, kind : Kinds])
    BY <1>t, <1>4, <2>1, <2>2 DEF GoalTypes, HandleTask
  <2>4. <<c, "worker">> \in Threads
    BY DEF Threads
  <2> QED
    BY <1>4, <2>2, <2>3, <2>4, EnterInv DEF HandleTask
<1>5. ASSUME NEW g \in Threads, TurnStep(g) \/ SlashStep(g) PROVE GoalInv'
  BY <1>5, StepInv
<1>6. CASE UNCHANGED vars
  BY <1>t, <1>s, <1>6 DEF vars, GoalTypes
<1> QED
  BY <1>1, <1>2, <1>3, <1>4, <1>5, <1>6 DEF Next

\* In a chat that has not crossed, what is written was read from the row as it is.
LEMMA KeptByStep ==
    ASSUME GoalInv, NEW g \in Threads, TurnStep(g) \/ SlashStep(g)
    PROVE  KeptStep
<1> SUFFICES ASSUME NEW c \in Chats \ crossed', row'[c].id = row[c].id
             PROVE  /\ row'[c].tokens >= row[c].tokens
                    /\ row[c].status = "complete" => row'[c].status = "complete"
                    /\ row[c].status = "paused" /\ row'[c].status # "paused" =>
                         \E h \in Of(c) : task[h] = "resume" /\ TransitionGoal(h)
  BY DEF KeptStep
<1>t. /\ GoalTypes /\ Fresh(g) /\ row[c] \in Rows /\ row[c].tokens \in Nat
      /\ made \in Nat /\ row[c].id <= made
  BY DEF GoalInv, GoalTypes, Numbered, Rows
<1>1. c \notin crossed
  BY <1>t, GoalFrame DEF Framed
<1>2. Writes(g, c)
  BY <1>t, RowMoves
<1>3. CASE row'[c] = row[c]
  BY <1>t, <1>3
<1>4. ASSUME pc[g] \in Writers, row[c].id = rec[g].id
      PROVE  /\ rec[g].status = row[c].status /\ rec[g].tokens = row[c].tokens
             /\ row[c].id # 0 /\ c = ChatOf(g)
             /\ pc[g] \in {"account", "complete"} => row[c].status = "active"
             /\ pc[g] = "write" =>
                  task[g] = "clear"
                  \/ (task[g] \in {"pause", "resume"} /\ row[c].status = From[task[g]])
  BY <1>t, <1>1, <1>4 DEF Fresh
<1>5. CASE /\ pc[g] = "account" /\ row[c].id = rec[g].id
           /\ row'[c] = [id |-> row[c].id, status |-> rec[g].status, tokens |-> rec[g].tokens + 1]
  BY <1>t, <1>4, <1>5 DEF Writers
<1>6. CASE /\ pc[g] = "complete" /\ row[c].id = rec[g].id
           /\ row'[c] = [id |-> row[c].id, status |-> "complete", tokens |-> rec[g].tokens]
  BY <1>t, <1>4, <1>6 DEF Writers
<1>7. CASE /\ pc[g] = "write" /\ task[g] # "clear" /\ row[c].id = rec[g].id /\ TransitionGoal(g)
           /\ row'[c] = [id |-> row[c].id, status |-> To[task[g]], tokens |-> rec[g].tokens]
  <2>1. row'[c].tokens >= row[c].tokens
    BY <1>t, <1>4, <1>7 DEF Writers
  <2>2. CASE task[g] = "pause"
    BY <1>4, <1>7, <2>1, <2>2 DEF Writers, From
  <2>3. CASE task[g] = "resume"
    <3>1. g \in Of(c) /\ row[c].status = "paused"
      BY <1>4, <1>7, <2>3 DEF Writers, From, Of
    <3> QED
      BY <1>7, <2>1, <2>3, <3>1
  <2> QED
    BY <1>4, <1>7, <2>2, <2>3 DEF Writers
<1>8. CASE pc[g] = "write" /\ row[c].id = rec[g].id /\ row'[c] = NoGoal
  BY <1>4, <1>8 DEF Writers, NoGoal
<1>9. CASE row'[c] = [id |-> made + 1, status |-> "active", tokens |-> 0]
  BY <1>t, <1>9 DEF Rows
<1> QED
  BY <1>2, <1>3, <1>5, <1>6, <1>7, <1>8, <1>9, Zenon DEF Writes

LEMMA KeptByNext == ASSUME GoalInv, [Next]_vars PROVE [KeptStep]_vars
<1>1. ASSUME row' = row PROVE KeptStep
  BY <1>1 DEF KeptStep, GoalInv, GoalTypes, Rows
<1>2. ASSUME NEW c \in Chats, NEW k \in Commands \cup {"user"}, Send(c, k) \/ WebRequest(c, k)
      PROVE  row' = row
  BY <1>2 DEF Send, WebRequest
<1>3. ASSUME Route \/ \E c \in Chats : HandleTask(c) PROVE row' = row
  BY <1>3 DEF Route, HandleTask
<1> QED
  BY <1>1, <1>2, <1>3, KeptByStep DEF Next

-----------------------------------------------------------------------------
\* The types of the other variables, and what bounds them.
RunTypes ==
    /\ Len(bus) <= BusSize /\ steerBuf \in [Chats -> Seq(Kinds)]
    /\ iter \in [Threads -> 0..MaxRounds]
    /\ sent \in 0..MaxSends /\ kicks \in Nat /\ broken \in [Chats -> BOOLEAN]
    /\ \A c \in Chats : row[c].tokens <= MaxTokens

\* A turn has a round left until it goes back to the model; a report is counted
\* while there is room for it; what it publishes is for its own chat.
Runs(g) ==
    /\ pc[g] \in InLoop \ {"model", "post"} => iter[g] < MaxRounds
    /\ rec[g].tokens <= MaxTokens /\ (pc[g] = "account" => rec[g].tokens < MaxTokens)
    /\ pc[g] = "publish" => rec[g].chat = ChatOf(g) \/ {rec[g].chat, ChatOf(g)} \subseteq crossed

RunInv == RunTypes /\ \A g \in Threads : Runs(g)

LEMMA RunInit == Init => RunInv
<1> SUFFICES ASSUME Init PROVE RunInv
  OBVIOUS
<1>1. RunTypes
  BY GoalsAssumption DEF Init, RunTypes, NoGoal
<1>2. \A g \in Threads : Runs(g)
  BY GoalsAssumption DEF Init, Runs, InLoop, NoRecord
<1> QED
  BY <1>1, <1>2 DEF RunInv

\* What a step of a goroutine does to the counters.
LEMMA RunMoves ==
    ASSUME GoalInv, RunInv, NEW g \in Threads, TurnStep(g) \/ SlashStep(g)
    PROVE  /\ sent' = sent /\ kicks' \in {kicks, kicks + 1} /\ Len(bus') <= BusSize
           /\ iter' \in [Threads -> 0..MaxRounds]
           /\ \A h \in Threads : h # g => iter'[h] = iter[h]
           /\ pc'[g] \in InLoop \ {"model", "post"} => iter'[g] < MaxRounds
<1> USE DEF Goto, Quiet, Local, ghosts, InLoop
<1>t. /\ pc \in [Threads -> Places] /\ iter \in [Threads -> 0..MaxRounds]
      /\ kicks \in Nat /\ Len(bus) <= BusSize /\ bus \in Seq([chat : Chats, kind : Kinds])
      /\ Runs(g) /\ MaxRounds \in Nat /\ BusSize \in Nat
  BY GoalsAssumption DEF GoalInv, GoalTypes, RunInv, RunTypes
<1>1. CASE ModelFails(g)
  BY <1>t, <1>1 DEF ModelFails
<1>2. CASE ModelAnswers(g)
  BY <1>t, <1>2 DEF ModelAnswers
<1>3. CASE FoldUsage(g)
  BY <1>t, <1>3 DEF FoldUsage, Runs
<1>4. CASE CallsUpdateGoal(g)
  BY <1>t, <1>4 DEF CallsUpdateGoal, Runs
<1>5. CASE Complete(g)
  BY <1>t, <1>5 DEF Complete, Runs
<1>6. CASE CallsTools(g)
  BY <1>t, <1>6 DEF CallsTools, Runs
<1>7. CASE DrainSteer(g)
  BY <1>t, <1>7 DEF DrainSteer, Runs
<1>8. CASE ForcedDelivery(g)
  BY <1>t, <1>8 DEF ForcedDelivery
<1>9. CASE PostTurn(g)
  BY <1>t, <1>9 DEF PostTurn, TryFire
<1>10. CASE Publish(g)
  BY <1>t, <1>10 DEF Publish
<1>11. CASE EndTurn(g)
  BY <1>t, <1>11 DEF EndTurn
<1>12. CASE SlashGoalCreate(g)
  BY <1>t, <1>12 DEF SlashGoalCreate
<1>13. CASE LoadGoal(g)
  BY <1>t, <1>13 DEF LoadGoal
<1>14. CASE TransitionGoal(g)
  BY <1>t, <1>14 DEF TransitionGoal
<1>15. CASE SlashGoalClear(g)
  BY <1>t, <1>15 DEF SlashGoalClear
<1>16. CASE Fire(g)
  BY <1>t, <1>16 DEF Fire, TryFire
<1> QED
  BY <1>1, <1>2, <1>3, <1>4, <1>5, <1>6, <1>7, <1>8, <1>9, <1>10, <1>11, <1>12, <1>13, <1>14, <1>15, <1>16, Zenon DEF TurnStep, SlashStep

\* The buffer of the chat alone is emptied, and one report of a loss is made.
LEMMA BufferMoves ==
    ASSUME GoalInv, RunInv, NEW g \in Threads, TurnStep(g) \/ SlashStep(g)
    PROVE  /\ steerBuf' \in [Chats -> Seq(Kinds)] /\ broken' \in [Chats -> BOOLEAN]
           /\ \A c \in Chats : steerBuf'[c] = steerBuf[c] \/ (steerBuf'[c] = <<>> /\ c = ChatOf(g))
<1> USE DEF Goto, Quiet, Local, ghosts
<1>t. /\ steerBuf \in [Chats -> Seq(Kinds)] /\ broken \in [Chats -> BOOLEAN]
      /\ ChatOf(g) \in Chats
  BY ThreadChat DEF RunInv, RunTypes
<1>1. CASE ModelFails(g)
  BY <1>t, <1>1 DEF ModelFails
<1>2. CASE ModelAnswers(g)
  BY <1>t, <1>2 DEF ModelAnswers
<1>3. CASE FoldUsage(g)
  BY <1>t, <1>3 DEF FoldUsage
<1>4. CASE CallsUpdateGoal(g)
  BY <1>t, <1>4 DEF CallsUpdateGoal
<1>5. CASE Complete(g)
  BY <1>t, <1>5 DEF Complete
<1>6. CASE CallsTools(g)
  BY <1>t, <1>6 DEF CallsTools
<1>7. CASE DrainSteer(g)
  BY <1>t, <1>7 DEF DrainSteer
<1>8. CASE ForcedDelivery(g)
  BY <1>t, <1>8 DEF ForcedDelivery
<1>9. CASE PostTurn(g)
  BY <1>t, <1>9 DEF PostTurn, TryFire
<1>10. CASE Publish(g)
  BY <1>t, <1>10 DEF Publish
<1>11. CASE EndTurn(g)
  BY <1>t, <1>11 DEF EndTurn
<1>12. CASE SlashGoalCreate(g)
  BY <1>t, <1>12 DEF SlashGoalCreate
<1>13. CASE LoadGoal(g)
  BY <1>t, <1>13 DEF LoadGoal
<1>14. CASE TransitionGoal(g)
  BY <1>t, <1>14 DEF TransitionGoal
<1>15. CASE SlashGoalClear(g)
  BY <1>t, <1>15 DEF SlashGoalClear
<1>16. CASE Fire(g)
  BY <1>t, <1>16 DEF Fire, TryFire
<1> QED
  BY <1>1, <1>2, <1>3, <1>4, <1>5, <1>6, <1>7, <1>8, <1>9, <1>10, <1>11, <1>12, <1>13, <1>14, <1>15, <1>16, Zenon DEF TurnStep, SlashStep

LEMMA RunTokens ==
    ASSUME GoalInv, RunInv, NEW g \in Threads, TurnStep(g) \/ SlashStep(g)
    PROVE  /\ \A c \in Chats : row'[c].tokens <= MaxTokens
           /\ rec'[g].tokens <= MaxTokens /\ (pc'[g] = "account" => rec'[g].tokens < MaxTokens)
<1>t. /\ GoalTypes /\ Fresh(g) /\ Runs(g) /\ ChatOf(g) \in Chats /\ MaxTokens \in Nat
      /\ pc[g] \in InLoop => bound \in Chats
      /\ \A c \in Chats : row[c].tokens <= MaxTokens
      /\ rec[g].tokens \in Nat
  BY ThreadChat, GoalsAssumption DEF GoalInv, GoalTypes, Bound, RunInv, RunTypes
<1>1. ASSUME NEW c \in Chats PROVE row'[c].tokens <= MaxTokens
  <2>1. Writes(g, c)
    BY <1>t, RowMoves
  <2>2. pc[g] = "account" => rec[g].tokens + 1 <= MaxTokens
    BY <1>t DEF Runs
  <2> QED
    BY <1>t, <2>1, <2>2 DEF Writes, Runs, NoGoal
<1>2. rec'[g].tokens <= MaxTokens
  <2>1. CASE rec'[g] = Read(ChatOf(g))
    BY <1>t, <2>1, ReadType
  <2>2. CASE rec'[g] = Read(bound) /\ pc[g] \in InLoop
    BY <1>t, <2>2, ReadType
  <2>3. CASE rec'[g] \in {rec[g], NoRecord}
    BY <1>t, <2>3 DEF NoRecord, Runs
  <2> QED
    BY <1>t, <2>1, <2>2, <2>3, GoalMoves
<1>3. ASSUME pc'[g] = "account" PROVE rec'[g].tokens < MaxTokens
  <2>1. pc[g] \in InLoop /\ rec'[g] = Read(bound) /\ row[bound].tokens < MaxTokens
    BY <1>t, <1>3, GoalMoves
  <2> QED
    BY <1>t, <2>1, ReadType
<1> QED
  BY <1>1, <1>2, <1>3

\* The record that a continuation is about, on either side of its read.
LEMMA RunStep ==
    ASSUME GoalInv, RunInv, NEW g \in Threads, TurnStep(g) \/ SlashStep(g)
    PROVE  RunInv'
<1>1. Framed(g) /\ \A h \in Threads \ {g} : pc'[h] = pc[h] /\ rec'[h] = rec[h]
  <2>1. Framed(g)
    BY GoalFrame DEF GoalInv
  <2> QED
    BY <2>1 DEF Framed, GoalInv, GoalTypes
<1>2. RunTypes'
  <2>1. kicks' \in Nat /\ sent' \in 0..MaxSends
    BY RunMoves DEF RunInv, RunTypes
  <2> QED
    BY <2>1, RunMoves, BufferMoves, RunTokens DEF RunTypes
<1>3. Runs(g)'
  <2>1. ASSUME pc'[g] = "publish"
        PROVE  rec'[g].chat = ChatOf(g) \/ {rec'[g].chat, ChatOf(g)} \subseteq crossed
    <3>1. rec'[g] = Read(ChatOf(g)) \/ (rec'[g] = Read(bound) /\ pc[g] \in InLoop)
      BY <2>1, GoalMoves DEF GoalInv
    <3> QED
      BY <3>1 DEF Read, GoalInv, Bound
  <2> QED
    BY <1>1, <2>1, RunMoves, RunTokens DEF Runs, Framed
<1>4. ASSUME NEW h \in Threads, h # g PROVE Runs(h)'
  BY <1>1, <1>4, RunMoves DEF RunInv, Runs, Framed
<1> QED
  BY <1>2, <1>3, <1>4 DEF RunInv

LEMMA RunNext == ASSUME GoalInv, RunInv, [Next]_vars PROVE RunInv'
<1>t. /\ GoalTypes /\ RunTypes /\ \A g \in Threads : Runs(g)
      /\ sent \in Nat /\ MaxSends \in Nat /\ kicks + 1 \in Nat
  BY GoalsAssumption DEF GoalInv, RunInv, RunTypes
<1>s. ASSUME UNCHANGED <<row, pc, rec, iter, broken>>, crossed \subseteq crossed', kicks' = kicks,
             Len(bus') <= BusSize, steerBuf' \in [Chats -> Seq(Kinds)], sent' \in 0..MaxSends
      PROVE  RunInv'
  BY <1>t, <1>s DEF RunInv, RunTypes, Runs
<1>e. ASSUME NEW g \in Threads, NEW k \in Kinds, pc[g] = "idle", Enter(g, k),
             UNCHANGED <<row, rec, iter, bus, steerBuf>>, sent' \in 0..MaxSends
      PROVE  RunInv'
  <2>1. /\ \A h \in Threads \ {g} : pc'[h] = pc[h]
        /\ pc'[g] \in {"load", "model", "end"}
        /\ crossed \subseteq crossed' /\ broken' = broken /\ kicks' \in {kicks, kicks + 1}
    BY <1>t, <1>e, EnterMoves DEF Entered, RunTypes
  <2>2. Runs(g)'
    BY <1>t, <1>e, <2>1 DEF Runs, InLoop
  <2>3. \A h \in Threads : h # g => Runs(h)'
    BY <1>t, <1>e, <2>1 DEF Runs
  <2> QED
    BY <1>t, <1>e, <2>1, <2>2, <2>3 DEF RunInv, RunTypes
<1>k. /\ \A k \in Commands \cup {"user"} : k \in Kinds
      /\ \A c \in Chats, k \in Kinds : Append(steerBuf[c], k) \in Seq(Kinds)
      /\ sent < MaxSends => sent + 1 \in 0..MaxSends
  BY <1>t DEF Kinds, RunTypes
<1>1. ASSUME NEW c \in Chats, NEW k \in Commands \cup {"user"}, Send(c, k) PROVE RunInv'
  <2>1. Len(bus') <= BusSize
    BY <1>t, <1>1, GoalsAssumption DEF Send, GoalTypes, RunTypes
  <2> QED
    BY <1>t, <1>k, <1>s, <1>1, <2>1 DEF Send, RunTypes, locals, ghosts
<1>2. ASSUME NEW c \in Chats, NEW k \in Commands \cup {"user"}, WebRequest(c, k) PROVE RunInv'
  <2>1. CASE InTurn(c)
    <3>1. steerBuf' = [steerBuf EXCEPT ![c] = Append(@, k)]
      BY <1>2, <2>1 DEF WebRequest, Steer
    <3>2. steerBuf' \in [Chats -> Seq(Kinds)]
      BY <1>t, <1>k, <3>1 DEF RunTypes
    <3> QED
      BY <1>t, <1>k, <1>s, <1>2, <2>1, <3>2 DEF WebRequest, RunTypes, ghosts
  <2>2. CASE ~InTurn(c)
    <3>1. <<c, "web">> \in Threads /\ k \in Kinds
      BY <1>2 DEF WebRequest, Threads, Kinds
    <3> QED
      BY <1>k, <1>e, <1>2, <2>2, <3>1 DEF WebRequest
  <2> QED
    BY <2>1, <2>2
<1>3. CASE Route
  <2>1. /\ bus \in Seq([chat : Chats, kind : Kinds]) /\ bus # <<>> /\ bus' = Tail(bus)
    BY <1>t, <1>3 DEF GoalTypes, Route
  <2>2. Head(bus).chat \in Chats /\ Head(bus).kind \in Kinds
    BY <1>t, <2>1, BusHead
  <2>3. Len(bus') <= BusSize
    BY <1>t, <2>1, BusHead, GoalsAssumption DEF RunTypes
  <2>4. steerBuf' \in [Chats -> Seq(Kinds)]
    <3>1. steerBuf' \in {steerBuf, [steerBuf EXCEPT ![Head(bus).chat] = Append(@, Head(bus).kind)]}
      BY <1>3 DEF Route, Steer
    <3> QED
      BY <1>t, <1>k, <2>2, <3>1 DEF RunTypes
  <2> QED
    BY <1>t, <1>s, <1>3, <2>3, <2>4 DEF Route, RunTypes, locals, ghosts
<1>4. ASSUME NEW c \in Chats, HandleTask(c) PROVE RunInv'
  <2>1. queue[c] \in Seq(Kinds) /\ queue[c] # <<>>
    BY <1>t, <1>4 DEF GoalTypes, HandleTask
  <2>2. Head(queue[c]) \in Kinds
    BY <2>1
  <2>3. <<c, "worker">> \in Threads
    BY DEF Threads
  <2> QED
    BY <1>t, <1>e, <1>4, <2>2, <2>3 DEF HandleTask, RunTypes
<1>5. ASSUME NEW g \in Threads, TurnStep(g) \/ SlashStep(g) PROVE RunInv'
  BY <1>5, RunStep
<1>6. CASE UNCHANGED vars
  BY <1>t, <1>s, <1>6 DEF vars, RunTypes, locals, ghosts
<1> QED
  BY <1>1, <1>2, <1>3, <1>4, <1>5, <1>6 DEF Next

\* Whatever the goroutines' order, the numbers of chats, messages and rounds and
\* the statements that fail: where a chat's goal was in one goroutine's hands at
\* a time, a complete goal stays complete, a paused one is made active by /goal
\* resume alone and no accounted call is taken back (goal_hook.go:77,
\* tools/goal.go:80, slash_goal.go:153).
THEOREM GoalKeptHolds == Spec => GoalKept
<1>1. Init => GoalInv /\ RunInv
  BY GoalInit, RunInit
<1>2. GoalInv /\ RunInv /\ [Next]_vars => (GoalInv /\ RunInv)' /\ [KeptStep]_vars
  BY GoalNext, RunNext, KeptByNext DEF RunInv, RunTypes
<1> QED
  BY <1>1, <1>2, PTL DEF Spec, GoalKept
-----------------------------------------------------------------------------
\* What goes on for a chat's goal by itself.
Has(q, x)  == \E i \in 1..Len(q) : q[i] = x
Goal(c)    == [chat |-> c, kind |-> "goal"]
Carried(c) ==
    \/ Has(bus, Goal(c)) \/ Has(queue[c], "goal")
    \/ \E g \in Of(c) : Sends(g)
    \/ Has(steerBuf[c], "goal") /\ InTurn(c)

Going == \A c \in Chats : Active(c) => broken[c] \/ c \in crossed \/ Carried(c)

LEMMA HasAppend ==
    ASSUME NEW S, NEW q \in Seq(S), NEW e \in S, NEW x, Has(q, x) \/ e = x
    PROVE  Has(Append(q, e), x)
<1>1. /\ Len(Append(q, e)) = Len(q) + 1 /\ Len(q) \in Nat
      /\ \A i \in 1..Len(q) : Append(q, e)[i] = q[i]
      /\ Append(q, e)[Len(q) + 1] = e
  OBVIOUS
<1> HIDE DEF Has
<1>2. CASE Has(q, x)
  BY <1>1, <1>2 DEF Has
<1>3. CASE e = x
  <2>1. Len(q) + 1 \in 1..Len(Append(q, e))
    BY <1>1
  <2> QED
    BY <1>1, <1>3, <2>1 DEF Has
<1> QED
  BY <1>2, <1>3

LEMMA BusAppend ==
    ASSUME NEW b \in Seq([chat : Chats, kind : Kinds]), NEW m \in [chat : Chats, kind : Kinds],
           NEW x, Has(b, x) \/ m = x
    PROVE  Has(Append(b, m), x)
<1> DEFINE M == [chat : Chats, kind : Kinds]
<1>1. b \in Seq(M) /\ m \in M
  OBVIOUS
<1> HIDE DEF M
<1> QED
  BY <1>1, HasAppend

LEMMA HasTail ==
    ASSUME NEW S, NEW q \in Seq(S), q # <<>>, NEW x, Has(q, x)
    PROVE  Head(q) = x \/ Has(Tail(q), x)
<1>1. PICK i \in 1..Len(q) : q[i] = x
  BY DEF Has
<1>2. /\ Len(Tail(q)) = Len(q) - 1 /\ Len(q) \in Nat /\ Head(q) = q[1]
      /\ \A j \in 1..Len(Tail(q)) : Tail(q)[j] = q[j + 1]
  OBVIOUS
<1>3. CASE i = 1
  BY <1>1, <1>2, <1>3
<1>4. CASE i # 1
  <2>1. i - 1 \in 1..Len(Tail(q)) /\ i - 1 + 1 = i
    BY <1>1, <1>2, <1>4
  <2>2. Tail(q)[i - 1] = x
    BY <1>1, <1>2, <2>1
  <2> QED
    BY <2>1, <2>2 DEF Has
<1> QED
  BY <1>3, <1>4

\* A goal becomes active in the hands of the command that then sends for it.
LEMMA ActiveBefore ==
    ASSUME GoalInv, NEW g \in Threads, TurnStep(g) \/ SlashStep(g),
           NEW c \in Chats \ crossed, Active(c)'
    PROVE  Active(c) \/ (ChatOf(g) = c /\ pc'[g] = "fire")
<1>t. GoalTypes /\ Fresh(g) /\ Writes(g, c) /\ row[c] \in Rows
  BY RowMoves DEF GoalInv, GoalTypes
<1>1. CASE row'[c] = row[c]
  BY <1>1 DEF Active
<1>2. CASE /\ pc[g] = "account" /\ row[c].id = rec[g].id
           /\ row'[c] = [id |-> row[c].id, status |-> rec[g].status, tokens |-> rec[g].tokens + 1]
  BY <1>t, <1>2 DEF Active, Fresh, Writers
<1>3. CASE row'[c] = [id |-> row[c].id, status |-> "complete", tokens |-> rec[g].tokens]
  BY <1>3 DEF Active
<1>4. CASE /\ pc[g] = "write" /\ task[g] # "clear" /\ row[c].id = rec[g].id /\ TransitionGoal(g)
           /\ row'[c] = [id |-> row[c].id, status |-> To[task[g]], tokens |-> rec[g].tokens]
  <2>1. To[task[g]] = "active"
    BY <1>4 DEF Active
  <2>2. task[g] \in {"pause", "resume"}
    BY <1>t, <1>4 DEF Fresh, Writers
  <2>3. task[g] = "resume"
    BY <2>1, <2>2 DEF To
  <2>4. c = rec[g].chat /\ rec[g].chat = ChatOf(g)
    BY <1>t, <1>4 DEF Fresh, Writers
  <2>5. CASE row' = row
    BY <2>5 DEF Active
  <2>6. CASE Goto(g, "fire")
    BY <1>t, <2>4, <2>6 DEF Goto, GoalTypes
  <2> QED
    BY <1>4, <2>3, <2>5, <2>6 DEF TransitionGoal
<1>5. CASE row'[c] = NoGoal
  BY <1>5 DEF Active, NoGoal
<1>6. CASE c = ChatOf(g) /\ pc'[g] = "fire"
  BY <1>6
<1> QED
  BY <1>t, <1>1, <1>2, <1>3, <1>4, <1>5, <1>6, Zenon DEF Writes

\* A loss is forgotten with the next continuation on the bus.
LEMMA BrokenMoves ==
    ASSUME GoalInv, RunInv, NEW g \in Threads, TurnStep(g) \/ SlashStep(g),
           NEW c \in Chats, broken[c]
    PROVE  broken'[c] \/ bus' = Append(bus, Goal(c))
<1> USE DEF Goto, Quiet, Local, ghosts
<1>t. /\ broken \in [Chats -> BOOLEAN] /\ ChatOf(g) \in Chats
      /\ pc[g] = "publish" => rec[g].chat \in Chats
  BY ThreadChat DEF RunInv, RunTypes, GoalInv, Handles
<1>1. CASE ModelFails(g)
  BY <1>t, <1>1 DEF ModelFails
<1>2. CASE ModelAnswers(g)
  BY <1>t, <1>2 DEF ModelAnswers
<1>3. CASE FoldUsage(g)
  BY <1>t, <1>3 DEF FoldUsage
<1>4. CASE CallsUpdateGoal(g)
  BY <1>t, <1>4 DEF CallsUpdateGoal
<1>5. CASE Complete(g)
  BY <1>t, <1>5 DEF Complete
<1>6. CASE CallsTools(g)
  BY <1>t, <1>6 DEF CallsTools
<1>7. CASE DrainSteer(g)
  BY <1>t, <1>7 DEF DrainSteer
<1>8. CASE ForcedDelivery(g)
  BY <1>t, <1>8 DEF ForcedDelivery
<1>9. CASE PostTurn(g)
  BY <1>t, <1>9 DEF PostTurn, TryFire
<1>10. CASE Publish(g)
  BY <1>t, <1>10 DEF Publish, Goal
<1>11. CASE EndTurn(g)
  BY <1>t, <1>11 DEF EndTurn
<1>12. CASE SlashGoalCreate(g)
  BY <1>t, <1>12 DEF SlashGoalCreate
<1>13. CASE LoadGoal(g)
  BY <1>t, <1>13 DEF LoadGoal
<1>14. CASE TransitionGoal(g)
  BY <1>t, <1>14 DEF TransitionGoal
<1>15. CASE SlashGoalClear(g)
  BY <1>t, <1>15 DEF SlashGoalClear
<1>16. CASE Fire(g)
  BY <1>t, <1>16 DEF Fire, TryFire
<1> QED
  BY <1>1, <1>2, <1>3, <1>4, <1>5, <1>6, <1>7, <1>8, <1>9, <1>10, <1>11, <1>12, <1>13, <1>14, <1>15, <1>16, Zenon DEF TurnStep, SlashStep

\* A goroutine that is to send a continuation goes on, sends it, finds that there
\* is no active goal, or loses it.
LEMMA SendsOn ==
    ASSUME GoalInv, RunInv, NEW g \in Threads, TurnStep(g) \/ SlashStep(g),
           Sends(g), ChatOf(g) \notin crossed
    PROVE  \/ Sends(g)' \/ broken'[ChatOf(g)] \/ ~Active(ChatOf(g))'
           \/ bus' = Append(bus, Goal(ChatOf(g)))
<1> USE DEF Goto, Quiet, Local, ghosts, Places, Writers, InLoop
<1>t. /\ broken \in [Chats -> BOOLEAN] /\ ChatOf(g) \in Chats
      /\ pc \in [Threads -> Places] /\ task' = task
      /\ pc[g] = "publish" => rec[g].chat = ChatOf(g)
      /\ pc[g] \in InLoop => bound = ChatOf(g) /\ task[g] \notin Commands
      /\ pc[g] \in {"load", "write"} => task[g] \in Commands
  BY ThreadChat, GoalFrame DEF RunInv, RunTypes, GoalInv, GoalTypes, Framed, Handles, Bound, Runs
<1>1. CASE ModelFails(g)
  BY <1>t, <1>1 DEF ModelFails, Sends
<1>2. CASE ModelAnswers(g)
  BY <1>t, <1>2 DEF ModelAnswers, Sends
<1>3. CASE FoldUsage(g)
  BY <1>t, <1>3 DEF FoldUsage, Sends
<1>4. CASE CallsUpdateGoal(g)
  BY <1>t, <1>4 DEF CallsUpdateGoal, Sends
<1>5. CASE Complete(g)
  BY <1>t, <1>5 DEF Complete, Sends
<1>6. CASE CallsTools(g)
  BY <1>t, <1>6 DEF CallsTools, Sends
<1>7. CASE DrainSteer(g)
  BY <1>t, <1>7 DEF DrainSteer, Sends
<1>8. CASE ForcedDelivery(g)
  BY <1>t, <1>8 DEF ForcedDelivery, Sends
<1>9. CASE PostTurn(g)
  BY <1>t, <1>9 DEF PostTurn, TryFire, Sends, Active
<1>10. CASE Publish(g)
  BY <1>t, <1>10 DEF Publish, Goal, Sends
<1>11. CASE EndTurn(g)
  BY <1>t, <1>11 DEF EndTurn, Sends
<1>12. CASE SlashGoalCreate(g)
  BY <1>t, <1>12 DEF SlashGoalCreate, Sends
<1>13. CASE LoadGoal(g)
  BY <1>t, <1>13 DEF LoadGoal, Sends
<1>14. CASE TransitionGoal(g)
  BY <1>t, <1>14 DEF TransitionGoal, Sends
<1>15. CASE SlashGoalClear(g)
  BY <1>t, <1>15 DEF SlashGoalClear, Sends
<1>16. CASE Fire(g)
  BY <1>t, <1>16 DEF Fire, TryFire, Sends, Active
<1> QED
  BY <1>1, <1>2, <1>3, <1>4, <1>5, <1>6, <1>7, <1>8, <1>9, <1>10, <1>11, <1>12, <1>13, <1>14, <1>15, <1>16, Zenon DEF TurnStep, SlashStep

\* What is in the buffer when a turn ends goes with the last turn of the chat.
LEMMA BufferSends ==
    ASSUME GoalInv, RunInv, NEW g \in Threads, TurnStep(g) \/ SlashStep(g), ~EndTurn(g)
    PROVE  /\ pc[g] # "end" /\ broken' = [c \in Chats |-> broken'[c]]
           /\ steerBuf' = steerBuf \/ Sends(g)'
<1> USE DEF Goto, Quiet, Local, ghosts, Places, Writers, InLoop
<1>t. /\ pc \in [Threads -> Places] /\ task' = task /\ broken' \in [Chats -> BOOLEAN]
      /\ pc[g] \in InLoop => task[g] \notin Commands
  BY BufferMoves, GoalFrame DEF GoalInv, GoalTypes, Framed, Handles
<1>1. CASE ModelFails(g)
  BY <1>t, <1>1 DEF ModelFails
<1>2. CASE ModelAnswers(g)
  BY <1>t, <1>2 DEF ModelAnswers
<1>3. CASE FoldUsage(g)
  BY <1>t, <1>3 DEF FoldUsage
<1>4. CASE CallsUpdateGoal(g)
  BY <1>t, <1>4 DEF CallsUpdateGoal
<1>5. CASE Complete(g)
  BY <1>t, <1>5 DEF Complete
<1>6. CASE CallsTools(g)
  BY <1>t, <1>6 DEF CallsTools
<1>7. CASE DrainSteer(g)
  BY <1>t, <1>7 DEF DrainSteer, Sends
<1>8. CASE ForcedDelivery(g)
  BY <1>t, <1>8 DEF ForcedDelivery
<1>9. CASE PostTurn(g)
  BY <1>t, <1>9 DEF PostTurn, TryFire
<1>10. CASE Publish(g)
  BY <1>t, <1>10 DEF Publish
<1>11. CASE EndTurn(g)
  BY <1>11
<1>12. CASE SlashGoalCreate(g)
  BY <1>t, <1>12 DEF SlashGoalCreate
<1>13. CASE LoadGoal(g)
  BY <1>t, <1>13 DEF LoadGoal
<1>14. CASE TransitionGoal(g)
  BY <1>t, <1>14 DEF TransitionGoal
<1>15. CASE SlashGoalClear(g)
  BY <1>t, <1>15 DEF SlashGoalClear
<1>16. CASE Fire(g)
  BY <1>t, <1>16 DEF Fire, TryFire
<1> QED
  BY <1>1, <1>2, <1>3, <1>4, <1>5, <1>6, <1>7, <1>8, <1>9, <1>10, <1>11, <1>12, <1>13, <1>14, <1>15, <1>16, Zenon DEF TurnStep, SlashStep

LEMMA EndLeaves ==
    ASSUME RunInv, NEW g \in Threads, EndTurn(g), NEW c \in Chats, c = ChatOf(g),
           Has(steerBuf[c], "goal")
    PROVE  \/ broken'[c]
           \/ /\ steerBuf'[c] = steerBuf[c]
              /\ \E h \in Of(c) \cap Busy : h # g /\ task[h] \notin Commands
<1>t. steerBuf \in [Chats -> Seq(Kinds)] /\ broken \in [Chats -> BOOLEAN]
  BY DEF RunInv, RunTypes
<1>1. LeftBehind(c)
  BY DEF LeftBehind, Has
<1> DEFINE last == \A h \in (Of(c) \cap Busy) \ {g} : task[h] \in Commands
<1>2. /\ steerBuf' = [steerBuf EXCEPT ![c] = IF last THEN <<>> ELSE @]
      /\ broken' = [broken EXCEPT ![c] = @ \/ (last /\ LeftBehind(c))]
  BY DEF EndTurn
<1>3. CASE last
  BY <1>t, <1>1, <1>2, <1>3
<1>4. CASE ~last
  BY <1>t, <1>2, <1>4
<1> QED
  BY <1>3, <1>4

LEMMA GoingStep ==
    ASSUME GoalInv, RunInv, Going, NEW g \in Threads, TurnStep(g) \/ SlashStep(g)
    PROVE  Going'
<1>f. /\ queue' = queue /\ task' = task /\ crossed' = crossed /\ pc[g] # "idle"
      /\ \A h \in Threads \ {g} : pc'[h] = pc[h]
      /\ ChatOf(g) \in Chats
  <2>1. Framed(g)
    BY GoalFrame DEF GoalInv
  <2> QED
    BY <2>1, ThreadChat DEF Framed, GoalInv, GoalTypes
<1> SUFFICES ASSUME NEW c \in Chats \ crossed, Active(c)', ~broken'[c] PROVE Carried(c)'
  BY <1>f DEF Going
<1>s. ASSUME c = ChatOf(g), Sends(g)' PROVE Carried(c)'
  BY <1>s DEF Carried, Of
<1>b. ASSUME bus' = Append(bus, Goal(c)) PROVE Carried(c)'
  <2>1. bus \in Seq([chat : Chats, kind : Kinds]) /\ Goal(c) \in [chat : Chats, kind : Kinds]
    BY DEF GoalInv, GoalTypes, Goal, Kinds
  <2>2. Has(Append(bus, Goal(c)), Goal(c))
    BY <2>1, HasAppend
  <2> QED
    BY <1>b, <2>2 DEF Carried, Has, Goal
<1>p. ASSUME Sends(g), c = ChatOf(g) PROVE Carried(c)'
  BY <1>p, <1>s, <1>b, SendsOn
<1>1. CASE ~Active(c)
  <2>1. ChatOf(g) = c /\ pc'[g] = "fire"
    BY <1>1, ActiveBefore
  <2> QED
    BY <1>s, <2>1 DEF Sends
<1>2. CASE broken[c]
  BY <1>2, <1>b, BrokenMoves
<1>3. CASE Has(bus, Goal(c))
  <2>1. CASE bus' = bus
    BY <1>3, <2>1 DEF Carried, Has, Goal
  <2>2. CASE pc[g] = "publish" /\ bus' = Append(bus, [chat |-> rec[g].chat, kind |-> "goal"])
    <3>1. /\ bus \in Seq([chat : Chats, kind : Kinds])
          /\ [chat |-> rec[g].chat, kind |-> "goal"] \in [chat : Chats, kind : Kinds]
      BY <2>2 DEF GoalInv, GoalTypes, Handles, Kinds
    <3>2. Has(Append(bus, [chat |-> rec[g].chat, kind |-> "goal"]), Goal(c))
      BY <1>3, <3>1, BusAppend
    <3> QED
      BY <2>2, <3>2 DEF Carried, Has, Goal
  <2> QED
    BY <2>1, <2>2, GoalMoves DEF GoalInv
<1>4. CASE Has(queue[c], "goal")
  BY <1>f, <1>4 DEF Carried, Has
<1>5. ASSUME NEW h \in Of(c), Sends(h) PROVE Carried(c)'
  <2>1. CASE h = g
    BY <1>p, <1>5, <2>1 DEF Of
  <2>2. CASE h # g
    <3>1. Sends(h)'
      BY <1>f, <1>5, <2>2 DEF Sends, Of
    <3> QED
      BY <3>1 DEF Carried, Of
  <2> QED
    BY <2>1, <2>2
<1>6. ASSUME Has(steerBuf[c], "goal"), NEW h \in Of(c) \cap Busy, task[h] \notin Commands
      PROVE  Carried(c)'
  <2>k. ASSUME steerBuf'[c] = steerBuf[c], NEW k \in Of(c) \cap Busy, k # g, task[k] \notin Commands
        PROVE  Carried(c)'
    <3>1. InTurn(c)'
      BY <1>f, <2>k DEF InTurn, Of, Busy
    <3>2. Has(steerBuf[c], "goal")'
      BY <1>6, <2>k DEF Has
    <3> QED
      BY <3>1, <3>2 DEF Carried
  <2>1. CASE EndTurn(g) /\ ChatOf(g) = c
    <3>1. \/ broken'[c]
          \/ /\ steerBuf'[c] = steerBuf[c]
             /\ \E k \in Of(c) \cap Busy : k # g /\ task[k] \notin Commands
      BY <1>6, <2>1, EndLeaves
    <3> QED
      BY <2>k, <3>1
  <2>2. CASE ChatOf(g) # c
    <3>1. steerBuf'[c] = steerBuf[c] /\ h # g
      BY <2>2, BufferMoves DEF Of
    <3> QED
      BY <1>6, <2>k, <3>1
  <2>3. CASE ~EndTurn(g) /\ ChatOf(g) = c
    <3>1. pc[g] # "end" /\ (steerBuf' = steerBuf \/ Sends(g)')
      BY <2>3, BufferSends
    <3>2. CASE h = g
      <4>1. Sends(g)
        BY <1>6, <1>f, <3>1, <3>2 DEF Sends
      <4> QED
        BY <1>p, <2>3, <4>1
    <3>3. CASE h # g
      BY <1>s, <1>6, <2>k, <2>3, <3>1, <3>3
    <3> QED
      BY <3>2, <3>3
  <2> QED
    BY <2>1, <2>2, <2>3
<1> QED
  BY <1>1, <1>2, <1>3, <1>4, <1>5, <1>6 DEF Going, Carried, InTurn

\* A message that the chat's worker or the dashboard takes up.
LEMMA GoingEnter ==
    ASSUME GoalInv, RunInv, Going, NEW g \in Threads, NEW k \in Kinds, pc[g] = "idle", Enter(g, k),
           UNCHANGED <<row, bus, steerBuf>>,
           \A c \in Chats : queue'[c] = queue[c] \/ (c = ChatOf(g) /\ (Has(queue[c], "goal") =>
                                                       k = "goal" \/ Has(queue'[c], "goal")))
    PROVE  Going'
<1>e. Entered(g, k)
  BY EnterMoves DEF GoalInv, RunInv, RunTypes
<1>f. /\ \A h \in Threads \ {g} : pc'[h] = pc[h] /\ task'[h] = task[h]
      /\ crossed \subseteq crossed' /\ broken' = broken
      /\ k = "goal" => pc'[g] = "model" /\ task'[g] = "goal"
  BY <1>e DEF Entered, Commands
<1> SUFFICES ASSUME NEW c \in Chats \ crossed', Active(c)', ~broken'[c] PROVE Carried(c)'
  BY DEF Going
<1>1. Active(c) /\ c \notin crossed /\ ~broken[c]
  BY <1>f DEF Active
<1>2. CASE Has(bus, Goal(c))
  BY <1>2 DEF Carried, Has, Goal
<1>3. CASE Has(queue[c], "goal")
  <2>1. CASE Has(queue'[c], "goal")
    BY <2>1 DEF Carried, Has
  <2>2. CASE c = ChatOf(g) /\ k = "goal"
    <3>1. Sends(g)'
      BY <1>f, <2>2 DEF Sends, Commands
    <3> QED
      BY <2>2, <3>1 DEF Carried, Of
  <2> QED
    BY <1>3, <2>1, <2>2
<1>4. ASSUME NEW h \in Of(c), Sends(h) PROVE Carried(c)'
  <2>1. h # g
    BY <1>4 DEF Sends
  <2>2. Sends(h)'
    BY <1>f, <1>4, <2>1 DEF Sends, Of
  <2> QED
    BY <2>2 DEF Carried, Of
<1>5. ASSUME Has(steerBuf[c], "goal"), NEW h \in Of(c) \cap Busy, task[h] \notin Commands
      PROVE  Carried(c)'
  <2>1. InTurn(c)'
    BY <1>f, <1>5 DEF InTurn, Of, Busy
  <2>2. Has(steerBuf[c], "goal")'
    BY <1>5 DEF Has
  <2> QED
    BY <2>1, <2>2 DEF Carried
<1> QED
  BY <1>1, <1>2, <1>3, <1>4, <1>5 DEF Going, Carried, InTurn

LEMMA GoingNext == ASSUME GoalInv, RunInv, Going, [Next]_vars PROVE Going'
<1>t. /\ bus \in Seq([chat : Chats, kind : Kinds]) /\ queue \in [Chats -> Seq(Kinds)]
      /\ steerBuf \in [Chats -> Seq(Kinds)]
  BY DEF GoalInv, GoalTypes, RunInv, RunTypes
<1>k. /\ \A k \in Commands \cup {"user"} : k \in Kinds
      /\ \A c \in Chats, k \in Kinds : [chat |-> c, kind |-> k] \in [chat : Chats, kind : Kinds]
  BY DEF Kinds
<1>s. ASSUME UNCHANGED <<row, pc, task, broken, crossed>>,
             \A c \in Chats :
               /\ Has(bus, Goal(c)) =>
                    \/ Has(bus', Goal(c)) \/ Has(queue'[c], "goal")
                    \/ Has(steerBuf'[c], "goal") /\ InTurn(c)
               /\ Has(queue[c], "goal") => Has(queue'[c], "goal")
               /\ Has(steerBuf[c], "goal") => Has(steerBuf'[c], "goal")
      PROVE  Going'
  <2> SUFFICES ASSUME NEW c \in Chats \ crossed', Active(c)', ~broken'[c] PROVE Carried(c)'
    BY DEF Going
  <2>1. Carried(c)
    BY <1>s DEF Going, Active
  <2>2. /\ InTurn(c) => InTurn(c)'
        /\ \A g \in Of(c) : Sends(g) => Sends(g)'
    BY <1>s DEF InTurn, Of, Busy, Sends
  <2>3. Carried(c)' <=> \/ Has(bus', Goal(c)) \/ Has(queue'[c], "goal")
                        \/ \E g \in Of(c) : Sends(g)'
                        \/ Has(steerBuf'[c], "goal") /\ InTurn(c)'
    BY DEF Carried, Has, Goal, Of
  <2> QED
    BY <1>s, <2>1, <2>2, <2>3 DEF Carried
<1>1. ASSUME NEW c \in Chats, NEW k \in Commands \cup {"user"}, Send(c, k) PROVE Going'
  <2>1. \A d \in Chats : Has(bus, Goal(d)) => Has(bus', Goal(d))
    <3>1. bus' = Append(bus, [chat |-> c, kind |-> k])
      BY <1>1 DEF Send
    <3> QED
      BY <1>t, <1>k, <3>1, BusAppend
  <2>2. UNCHANGED <<row, pc, task, broken, crossed, queue, steerBuf>>
    BY <1>1 DEF Send, locals, ghosts
  <2> QED
    BY <1>s, <2>1, <2>2
<1>p. ASSUME NEW c \in Chats, NEW k \in Kinds, Steer(c, k)
      PROVE  /\ \A d \in Chats : Has(steerBuf[d], "goal") => Has(steerBuf'[d], "goal")
             /\ k = "goal" => Has(steerBuf'[c], "goal")
  <2>1. \A d \in Chats : steerBuf'[d] = IF d = c THEN Append(steerBuf[d], k) ELSE steerBuf[d]
    BY <1>t, <1>p DEF Steer
  <2>2. \A d \in Chats : Has(steerBuf[d], "goal") => Has(Append(steerBuf[d], k), "goal")
    BY <1>t, HasAppend
  <2>3. k = "goal" => Has(Append(steerBuf[c], k), "goal")
    BY <1>t, HasAppend
  <2> QED
    BY <2>1, <2>2, <2>3
<1>2. ASSUME NEW c \in Chats, NEW k \in Commands \cup {"user"}, WebRequest(c, k) PROVE Going'
  <2>1. CASE InTurn(c)
    <3>1. UNCHANGED <<row, pc, task, broken, crossed, queue, bus>> /\ Steer(c, k)
      BY <1>2, <2>1 DEF WebRequest, ghosts
    <3> QED
      BY <1>k, <1>s, <1>p, <3>1
  <2>2. CASE ~InTurn(c)
    <3>1. <<c, "web">> \in Threads /\ k \in Kinds
      BY <1>2 DEF WebRequest, Threads, Kinds
    <3> QED
      BY <1>2, <2>2, <3>1, GoingEnter DEF WebRequest
  <2> QED
    BY <2>1, <2>2
<1>3. CASE Route
  <2> DEFINE c == Head(bus).chat  k == Head(bus).kind
  <2>1. /\ bus # <<>> /\ bus' = Tail(bus) /\ c \in Chats /\ k \in Kinds
        /\ UNCHANGED <<row, pc, task, broken, crossed>>
    BY <1>3, BusHead DEF Route, GoalInv, locals, ghosts
  <2>2. \A d \in Chats : Has(bus, Goal(d)) => (d = c /\ k = "goal") \/ Has(bus', Goal(d))
    BY <1>t, <2>1, HasTail DEF Goal
  <2>3. CASE InTurn(c)
    <3>1. Steer(c, k) /\ queue' = queue
      BY <1>3, <2>3 DEF Route
    <3> HIDE DEF c, k
    <3> QED
      BY <1>s, <1>p, <2>1, <2>2, <2>3, <3>1
  <2>4. CASE ~InTurn(c)
    <3>1. queue' = [queue EXCEPT ![c] = Append(@, k)] /\ steerBuf' = steerBuf
      BY <1>3, <2>4 DEF Route
    <3> HIDE DEF c, k
    <3>2. \A d \in Chats : queue'[d] = IF d = c THEN Append(queue[d], k) ELSE queue[d]
      BY <1>t, <3>1
    <3>3. \A d \in Chats : /\ Has(queue[d], "goal") => Has(queue'[d], "goal")
                           /\ d = c /\ k = "goal" => Has(queue'[d], "goal")
      BY <1>t, <2>1, <3>2, HasAppend
    <3> QED
      BY <1>s, <2>1, <2>2, <3>1, <3>3
  <2> QED
    BY <2>3, <2>4
<1>4. ASSUME NEW c \in Chats, HandleTask(c) PROVE Going'
  <2>1. /\ pc[<<c, "worker">>] = "idle" /\ queue[c] # <<>> /\ Enter(<<c, "worker">>, Head(queue[c]))
        /\ queue' = [queue EXCEPT ![c] = Tail(@)] /\ UNCHANGED <<row, bus, steerBuf>>
    BY <1>4 DEF HandleTask
  <2>2. <<c, "worker">> \in Threads /\ ChatOf(<<c, "worker">>) = c
    BY DEF Threads, ChatOf
  <2>3. Head(queue[c]) \in Kinds
    BY <1>t, <2>1, FirstAndRest
  <2>4. \A d \in Chats : d # c => queue'[d] = queue[d]
    BY <1>t, <2>1
  <2>5. Has(queue[c], "goal") => Head(queue[c]) = "goal" \/ Has(queue'[c], "goal")
    <3>1. queue'[c] = Tail(queue[c]) /\ queue[c] \in Seq(Kinds)
      BY <1>t, <2>1
    <3> QED
      BY <2>1, <3>1, HasTail
  <2> QED
    BY <2>1, <2>2, <2>3, <2>4, <2>5, GoingEnter
<1>5. ASSUME NEW g \in Threads, TurnStep(g) \/ SlashStep(g) PROVE Going'
  BY <1>5, GoingStep
<1>6. CASE UNCHANGED vars
  BY <1>s, <1>6 DEF vars, Has
<1> QED
  BY <1>1, <1>2, <1>3, <1>4, <1>5, <1>6 DEF Next

LEMMA NoneWait ==
    ASSUME NEW S, NEW q \in Seq(S), NEW x
    PROVE  /\ Cardinality({i \in 1..Len(q) : q[i] = x}) \in Nat
           /\ Cardinality({i \in 1..Len(q) : q[i] = x}) = 0 => ~Has(q, x)
<1>1. IsFiniteSet(1..Len(q))
  BY FS_Interval
<1>2. {i \in 1..Len(q) : q[i] = x} \in SUBSET (1..Len(q))
  OBVIOUS
<1>3. IsFiniteSet({i \in 1..Len(q) : q[i] = x})
  BY <1>1, <1>2, FS_Subset
<1>4. Cardinality({i \in 1..Len(q) : q[i] = x}) = 0 => {i \in 1..Len(q) : q[i] = x} = {}
  BY <1>3, FS_EmptySet
<1> QED
  BY <1>3, <1>4, FS_CardinalityType DEF Has

LEMMA GoingStalls == ASSUME GoalInv, RunInv, Going PROVE NotStalled
<1> SUFFICES ASSUME NEW c \in Chats, Active(c), Unattended(c), ~broken[c], c \notin crossed
             PROVE  FALSE
  BY DEF NotStalled
<1>1. Carried(c)
  BY DEF Going
<1>2. /\ ~InTurn(c) /\ \A g \in Of(c) : ~Sends(g)
  BY DEF Unattended, InTurn, Busy, Sends
<1> DEFINE M == [chat : Chats, kind : Kinds]
           A == Cardinality({i \in 1..Len(bus) : bus[i] = Goal(c)})
           B == Cardinality({i \in 1..Len(queue[c]) : queue[c][i] = "goal"})
<1>3. bus \in Seq(M) /\ queue[c] \in Seq(Kinds)
  BY DEF GoalInv, GoalTypes
<1>4. A + B = 0
  BY DEF Unattended, Waiting, Goal
<1>5. A \in Nat /\ (A = 0 => ~Has(bus, Goal(c)))
  <2> HIDE DEF M
  <2> QED
    BY <1>3, NoneWait
<1>6. B \in Nat /\ (B = 0 => ~Has(queue[c], "goal"))
  BY <1>3, NoneWait
<1> HIDE DEF A, B
<1>7. A = 0 /\ B = 0
  BY <1>4, <1>5, <1>6
<1> QED
  BY <1>1, <1>2, <1>5, <1>6, <1>7 DEF Carried
-----------------------------------------------------------------------------
\* Continuations under way are not more than what may start a chain of them.
Counted == IsFiniteSet(Outstanding) /\ Cardinality(Outstanding) <= kicks

LEMMA OneMore ==
    ASSUME NEW S, IsFiniteSet(S), NEW p, NEW T, T \subseteq S \cup {p}
    PROVE  IsFiniteSet(T) /\ Cardinality(T) <= Cardinality(S) + 1
<1>1. /\ IsFiniteSet(S \cup {p}) /\ Cardinality(S) \in Nat
      /\ Cardinality(S \cup {p}) <= Cardinality(S) + 1
  BY FS_AddElement, FS_CardinalityType
<1>2. /\ IsFiniteSet(T) /\ Cardinality(T) <= Cardinality(S \cup {p})
  BY <1>1, FS_Subset
<1>3. Cardinality(T) \in Nat /\ Cardinality(S \cup {p}) \in Nat
  BY <1>1, <1>2, FS_CardinalityType
<1> QED
  BY <1>1, <1>2, <1>3

LEMMA OneForOne ==
    ASSUME NEW S, IsFiniteSet(S), NEW t \in S, NEW p, NEW T, T \subseteq (S \ {t}) \cup {p}
    PROVE  IsFiniteSet(T) /\ Cardinality(T) <= Cardinality(S)
<1>1. IsFiniteSet(S \ {t}) /\ Cardinality(S \ {t}) = Cardinality(S) - 1 /\ Cardinality(S) \in Nat
  BY FS_RemoveElement, FS_CardinalityType
<1>2. IsFiniteSet(T) /\ Cardinality(T) <= Cardinality(S \ {t}) + 1
  BY <1>1, OneMore
<1>3. Cardinality(T) \in Nat
  BY <1>2, FS_CardinalityType
<1> QED
  BY <1>1, <1>2, <1>3

LEMMA NoMore ==
    ASSUME NEW S, IsFiniteSet(S), NEW T, NEW f \in [T -> S],
           \A x, y \in T : f[x] = f[y] => x = y
    PROVE  IsFiniteSet(T) /\ Cardinality(T) <= Cardinality(S)
<1>1. f \in Injection(T, S)
  BY DEF Injection, IsInjective
<1> QED
  BY <1>1, FS_Injection

TurnPlace(g) == <<"turn", g[1], g[2]>>

LEMMA TurnPlaces ==
    ASSUME NEW g \in Threads, NEW h \in Threads, TurnPlace(g) = TurnPlace(h) PROVE g = h
  BY DEF Threads, TurnPlace

\* The places, one by one.
LEMMA OutstandingIs ==
    \A x : x \in Outstanding <=>
      \/ \E i \in 1..Len(bus) : bus[i].kind = "goal" /\ x = <<"bus", NoChat, i>>
      \/ \E c \in Chats : \E i \in 1..Len(queue[c]) : queue[c][i] = "goal" /\ x = <<"queue", c, i>>
      \/ \E c \in Chats : \E i \in 1..Len(steerBuf[c]) :
           steerBuf[c][i] = "goal" /\ x = <<"steered", c, i>>
      \/ \E g \in Threads : Sends(g) /\ x = TurnPlace(g)
<1> TAKE x
<1>1. x \in OnBus <=> \E i \in 1..Len(bus) : bus[i].kind = "goal" /\ x = <<"bus", NoChat, i>>
  BY DEF OnBus
<1>2. ASSUME NEW where, NEW q
      PROVE  x \in Held(where, q) <=>
               \E c \in Chats : \E i \in 1..Len(q[c]) : q[c][i] = "goal" /\ x = <<where, c, i>>
  BY DEF Held
<1>3. x \in Senders <=> \E g \in Threads : Sends(g) /\ x = TurnPlace(g)
  BY DEF Senders, TurnPlace
<1>4. x \in Outstanding <=> \/ x \in OnBus \/ x \in Held("queue", queue)
                          \/ x \in Held("steered", steerBuf) \/ x \in Senders
  BY DEF Outstanding
<1> QED
  BY <1>1, <1>2, <1>3, <1>4

LEMMA OutstandingIsNext ==
    \A x : x \in Outstanding' <=>
      \/ \E i \in 1..Len(bus') : bus'[i].kind = "goal" /\ x = <<"bus", NoChat, i>>
      \/ \E c \in Chats : \E i \in 1..Len(queue'[c]) :
           queue'[c][i] = "goal" /\ x = <<"queue", c, i>>
      \/ \E c \in Chats : \E i \in 1..Len(steerBuf'[c]) :
           steerBuf'[c][i] = "goal" /\ x = <<"steered", c, i>>
      \/ \E g \in Threads : Sends(g)' /\ x = TurnPlace(g)
<1> TAKE x
<1>1. x \in OnBus' <=> \E i \in 1..Len(bus') : bus'[i].kind = "goal" /\ x = <<"bus", NoChat, i>>
  BY DEF OnBus
<1>2. ASSUME NEW where, NEW q
      PROVE  x \in Held(where, q) <=>
               \E c \in Chats : \E i \in 1..Len(q[c]) : q[c][i] = "goal" /\ x = <<where, c, i>>
  BY DEF Held
<1>3. x \in Senders' <=> \E g \in Threads : Sends(g)' /\ x = TurnPlace(g)
  BY DEF Senders, TurnPlace
<1>4. x \in Outstanding' <=> \/ x \in OnBus' \/ x \in Held("queue", queue')
                          \/ x \in Held("steered", steerBuf') \/ x \in Senders'
  BY DEF Outstanding, Held
<1> QED
  BY <1>1, <1>2, <1>3, <1>4

\* A goroutine comes to send a continuation with a kick, or sends it.
LEMMA SendsMoves ==
    ASSUME GoalInv, RunInv, NEW g \in Threads, TurnStep(g) \/ SlashStep(g)
    PROVE  \/ bus' = bus /\ (Sends(g)' => Sends(g) \/ kicks' = kicks + 1)
           \/ Sends(g) /\ ~Sends(g)' /\ kicks' = kicks /\ bus' = Append(bus, Goal(rec[g].chat))
<1> USE DEF Goto, Quiet, Local, ghosts, Sends, Places, InLoop, Writers
<1>t. /\ pc \in [Threads -> Places] /\ task' = task
      /\ pc[g] \in InLoop => task[g] \notin Commands
      /\ pc[g] \in {"load", "write", "fire"} => task[g] \in Commands
  BY GoalFrame DEF GoalInv, GoalTypes, Framed, Handles
<1>1. CASE ModelFails(g)
  BY <1>t, <1>1 DEF ModelFails
<1>2. CASE ModelAnswers(g)
  BY <1>t, <1>2 DEF ModelAnswers
<1>3. CASE FoldUsage(g)
  BY <1>t, <1>3 DEF FoldUsage
<1>4. CASE CallsUpdateGoal(g)
  BY <1>t, <1>4 DEF CallsUpdateGoal
<1>5. CASE Complete(g)
  BY <1>t, <1>5 DEF Complete
<1>6. CASE CallsTools(g)
  BY <1>t, <1>6 DEF CallsTools
<1>7. CASE DrainSteer(g)
  BY <1>t, <1>7 DEF DrainSteer
<1>8. CASE ForcedDelivery(g)
  BY <1>t, <1>8 DEF ForcedDelivery
<1>9. CASE PostTurn(g)
  BY <1>t, <1>9 DEF PostTurn, TryFire
<1>10. CASE Publish(g)
  BY <1>t, <1>10 DEF Publish, Goal
<1>11. CASE EndTurn(g)
  BY <1>t, <1>11 DEF EndTurn
<1>12. CASE SlashGoalCreate(g)
  BY <1>t, <1>12 DEF SlashGoalCreate
<1>13. CASE LoadGoal(g)
  BY <1>t, <1>13 DEF LoadGoal
<1>14. CASE TransitionGoal(g)
  BY <1>t, <1>14 DEF TransitionGoal
<1>15. CASE SlashGoalClear(g)
  BY <1>t, <1>15 DEF SlashGoalClear
<1>16. CASE Fire(g)
  BY <1>t, <1>16 DEF Fire, TryFire
<1> QED
  BY <1>1, <1>2, <1>3, <1>4, <1>5, <1>6, <1>7, <1>8, <1>9, <1>10, <1>11, <1>12, <1>13, <1>14, <1>15, <1>16, Zenon DEF TurnStep, SlashStep

LEMMA CountedStep ==
    ASSUME GoalInv, RunInv, Counted, NEW g \in Threads, TurnStep(g) \/ SlashStep(g)
    PROVE  Counted'
<1>f. /\ queue' = queue /\ task' = task /\ \A h \in Threads \ {g} : pc'[h] = pc[h]
      /\ kicks \in Nat /\ kicks' \in {kicks, kicks + 1} /\ kicks' \in Nat
      /\ \A c \in Chats : steerBuf'[c] = steerBuf[c] \/ steerBuf'[c] = <<>>
  <2>1. Framed(g)
    BY GoalFrame DEF GoalInv
  <2> QED
    BY <2>1, RunMoves, BufferMoves DEF Framed, GoalInv, GoalTypes, RunInv, RunTypes
<1>h. \A h \in Threads \ {g} : Sends(h)' => Sends(h)
  BY <1>f DEF Sends
<1>n. Cardinality(Outstanding) \in Nat /\ IsFiniteSet(Outstanding) /\ Cardinality(Outstanding) <= kicks
  BY FS_CardinalityType DEF Counted
<1>s. ASSUME NEW x \in Outstanding', x # TurnPlace(g),
             ~\E i \in 1..Len(bus') : bus'[i].kind = "goal" /\ x = <<"bus", NoChat, i>>
      PROVE  x \in Outstanding
  <2>1. CASE \E c \in Chats : \E i \in 1..Len(queue'[c]) :
               queue'[c][i] = "goal" /\ x = <<"queue", c, i>>
    BY <1>f, <2>1, OutstandingIs
  <2>2. CASE \E c \in Chats : \E i \in 1..Len(steerBuf'[c]) :
               steerBuf'[c][i] = "goal" /\ x = <<"steered", c, i>>
    <3>1. PICK c \in Chats : \E i \in 1..Len(steerBuf'[c]) :
            steerBuf'[c][i] = "goal" /\ x = <<"steered", c, i>>
      BY <2>2
    <3>2. steerBuf'[c] = steerBuf[c]
      BY <1>f, <3>1
    <3> QED
      BY <3>1, <3>2, OutstandingIs
  <2>3. CASE \E h \in Threads : Sends(h)' /\ x = TurnPlace(h)
    BY <1>h, <1>s, <2>3, OutstandingIs
  <2> QED
    BY <1>s, <2>1, <2>2, <2>3, OutstandingIsNext
<1>1. CASE bus' = bus /\ (Sends(g)' => Sends(g) \/ kicks' = kicks + 1)
  <2>1. ASSUME NEW x \in Outstanding' PROVE x \in Outstanding \cup {TurnPlace(g)}
    BY <1>1, <1>s, <2>1, OutstandingIs
  <2>2. CASE Sends(g)' => Sends(g)
    <3>1. TurnPlace(g) \in Outstanding' => TurnPlace(g) \in Outstanding
      <4>1. Sends(g) => TurnPlace(g) \in Outstanding
        BY OutstandingIs
      <4>2. TurnPlace(g) \in Outstanding' => \E h \in Threads : Sends(h)' /\ TurnPlace(g) = TurnPlace(h)
        BY OutstandingIsNext DEF TurnPlace
      <4> QED
        BY <2>2, <4>1, <4>2, TurnPlaces
    <3>2. Outstanding' \in SUBSET Outstanding
      BY <2>1, <3>1
    <3>3. IsFiniteSet(Outstanding') /\ Cardinality(Outstanding') <= Cardinality(Outstanding)
      BY <1>n, <3>2, FS_Subset
    <3>4. Cardinality(Outstanding') \in Nat
      BY <3>3, FS_CardinalityType
    <3> QED
      BY <1>f, <1>n, <3>3, <3>4 DEF Counted
  <2>3. CASE kicks' = kicks + 1
    <3>1. IsFiniteSet(Outstanding') /\ Cardinality(Outstanding') <= Cardinality(Outstanding) + 1
      BY <1>n, <2>1, OneMore
    <3>2. Cardinality(Outstanding') \in Nat
      BY <3>1, FS_CardinalityType
    <3> QED
      BY <1>f, <1>n, <2>3, <3>1, <3>2 DEF Counted
  <2> QED
    BY <1>1, <2>2, <2>3
<1>2. CASE Sends(g) /\ ~Sends(g)' /\ kicks' = kicks /\ bus' = Append(bus, Goal(rec[g].chat))
  <2> DEFINE p == <<"bus", NoChat, Len(bus) + 1>>
  <2>1. TurnPlace(g) \in Outstanding
    BY <1>2, OutstandingIs
  <2>2. TurnPlace(g) \notin Outstanding'
    <3>1. TurnPlace(g) \in Outstanding' => \E h \in Threads : Sends(h)' /\ TurnPlace(g) = TurnPlace(h)
      BY OutstandingIsNext DEF TurnPlace
    <3> QED
      BY <1>2, <3>1, TurnPlaces
  <2>3. ASSUME NEW x \in Outstanding', x # p PROVE x \in Outstanding
    <3>1. CASE \E i \in 1..Len(bus') : bus'[i].kind = "goal" /\ x = <<"bus", NoChat, i>>
      <4>1. PICK i \in 1..Len(bus') : bus'[i].kind = "goal" /\ x = <<"bus", NoChat, i>>
        BY <3>1
      <4>2. /\ Len(bus') = Len(bus) + 1 /\ Len(bus) \in Nat /\ \A j \in 1..Len(bus) : bus'[j] = bus[j]
        BY <1>2 DEF GoalInv, GoalTypes
      <4>3. i \in 1..Len(bus) /\ bus[i].kind = "goal"
        BY <2>3, <4>1, <4>2
      <4> QED
        BY <4>1, <4>3, OutstandingIs
    <3> QED
      BY <1>s, <2>2, <2>3, <3>1
  <2>4. Outstanding' \subseteq (Outstanding \ {TurnPlace(g)}) \cup {p}
    BY <2>2, <2>3
  <2>5. IsFiniteSet(Outstanding') /\ Cardinality(Outstanding') <= Cardinality(Outstanding)
    BY <1>n, <2>1, <2>4, OneForOne
  <2>6. Cardinality(Outstanding') \in Nat
    BY <2>5, FS_CardinalityType
  <2> QED
    BY <1>f, <1>n, <1>2, <2>5, <2>6 DEF Counted
<1> QED
  BY <1>1, <1>2, SendsMoves

\* The places of a queue move up by one, and one place may take the first's.
LEMMA Shifted ==
    ASSUME NEW S, IsFiniteSet(S), NEW T, NEW a, NEW b, NEW p,
           \A i \in Nat \ {0} : <<a, b, i>> \in T => <<a, b, i + 1>> \in S,
           p \in T => <<a, b, 1>> \in S /\ \A i \in Nat \ {0} : p # <<a, b, i>>,
           \A x \in T : x = p \/ x \in S \/ \E i \in Nat \ {0} : x = <<a, b, i>>
    PROVE  IsFiniteSet(T) /\ Cardinality(T) <= Cardinality(S)
<1> DEFINE Place(x) == \E i \in Nat \ {0} : x = <<a, b, i>>
           f == [x \in T |-> IF Place(x) THEN <<a, b, x[3] + 1>>
                             ELSE IF x = p THEN <<a, b, 1>> ELSE x]
<1>1. ASSUME NEW x \in T, Place(x)
      PROVE  /\ x[3] \in Nat \ {0} /\ x = <<a, b, x[3]>>
             /\ f[x] = <<a, b, x[3] + 1>> /\ f[x] \in S
  <2>1. PICK i \in Nat \ {0} : x = <<a, b, i>>
    BY <1>1
  <2> QED
    BY <1>1, <2>1
<1>2. ASSUME NEW x \in T, x = p
      PROVE  ~Place(x) /\ f[x] = <<a, b, 1>> /\ f[x] \in S
  BY <1>2
<1>3. ASSUME NEW x \in T, x # p, ~Place(x)
      PROVE  f[x] = x /\ f[x] \in S /\ \A i \in Nat \ {0} : f[x] # <<a, b, i>>
  BY <1>3
<1>4. f \in [T -> S]
  <2>1. \A x \in T : f[x] \in S
    BY <1>1, <1>2, <1>3
  <2>2. f = [x \in T |-> f[x]]
    OBVIOUS
  <2> HIDE DEF f
  <2> QED
    BY <2>1, <2>2
<1>5. ASSUME NEW x \in T, NEW y \in T, f[x] = f[y] PROVE x = y
  <2> HIDE DEF f, Place
  <2>1. CASE Place(x) /\ Place(y)
    <3>1. x[3] + 1 = y[3] + 1 /\ x[3] \in Nat /\ y[3] \in Nat
      BY <1>1, <1>5, <2>1
    <3>2. x[3] = y[3]
      BY <3>1
    <3> QED
      BY <1>1, <2>1, <3>2
  <2>2. ASSUME NEW u \in T, NEW v \in T, Place(u), v = p PROVE f[u] # f[v]
    <3>1. u[3] + 1 # 1
      BY <1>1, <2>2
    <3> QED
      BY <1>1, <1>2, <2>2, <3>1
  <2>3. ASSUME NEW u \in T, NEW v \in T, Place(u) \/ u = p, v # p, ~Place(v) PROVE f[u] # f[v]
    <3>1. Place(u) => u[3] + 1 \in Nat \ {0}
      BY <1>1
    <3> QED
      BY <1>1, <1>2, <1>3, <2>3, <3>1
  <2>4. CASE x = p /\ y = p
    BY <2>4
  <2>5. CASE x # p /\ ~Place(x) /\ y # p /\ ~Place(y)
    BY <1>3, <1>5, <2>5
  <2> QED
    BY <1>5, <2>1, <2>2, <2>3, <2>4, <2>5
<1> HIDE DEF f
<1> QED
  BY <1>4, <1>5, NoMore

LEMMA EnterSends ==
    ASSUME GoalInv, RunInv, NEW g \in Threads, NEW k \in Kinds, pc[g] = "idle", Enter(g, k)
    PROVE  /\ \A h \in Threads \ {g} : Sends(h)' => Sends(h)
           /\ Sends(g)' => k = "goal" \/ kicks' = kicks + 1
           /\ kicks' \in {kicks, kicks + 1}
<1>1. Entered(g, k)
  BY EnterMoves DEF GoalInv, RunInv, RunTypes
<1> QED
  BY <1>1 DEF Entered, Sends, Kinds

\* A goroutine takes up a message of the queue, or one of the dashboard.
LEMMA CountedEnter ==
    ASSUME GoalInv, RunInv, Counted, NEW g \in Threads, NEW k \in Kinds,
           pc[g] = "idle", Enter(g, k), UNCHANGED <<bus, steerBuf>>,
           NEW c \in Chats,
           \/ queue' = queue /\ k # "goal"
           \/ queue[c] # <<>> /\ k = Head(queue[c]) /\ queue' = [queue EXCEPT ![c] = Tail(@)]
    PROVE  Counted'
<1> DEFINE p == TurnPlace(g)
           T == IF k = "goal" THEN Outstanding' ELSE Outstanding' \ {p}
<1>t. /\ queue \in [Chats -> Seq(Kinds)] /\ kicks \in Nat /\ kicks' \in {kicks, kicks + 1}
  BY EnterSends DEF GoalInv, GoalTypes, RunInv, RunTypes
<1>n. Cardinality(Outstanding) \in Nat /\ IsFiniteSet(Outstanding) /\ Cardinality(Outstanding) <= kicks
  BY FS_CardinalityType DEF Counted
<1>r. ASSUME queue[c] # <<>>, k = Head(queue[c]), queue' = [queue EXCEPT ![c] = Tail(@)]
      PROVE  IsFiniteSet(T) /\ Cardinality(T) <= Cardinality(Outstanding)
  <2>1. /\ \A d \in Chats : d # c => queue'[d] = queue[d]
        /\ Len(queue'[c]) = Len(queue[c]) - 1 /\ Len(queue[c]) \in Nat \ {0} /\ k = queue[c][1]
        /\ \A i \in 1..Len(queue'[c]) : queue'[c][i] = queue[c][i + 1]
    <3>1. queue'[c] = Tail(queue[c]) /\ queue[c] \in Seq(Kinds)
      BY <1>t, <1>r
    <3>2. \A d \in Chats : d # c => queue'[d] = queue[d]
      BY <1>t, <1>r
    <3>3. queue[c] # <<>> /\ k = Head(queue[c])
      BY <1>r
    <3> HIDE DEF T, p
    <3>4. Len(queue[c]) \in Nat \ {0} /\ Head(queue[c]) = queue[c][1]
      BY <3>1, <3>3
    <3>5. /\ Len(Tail(queue[c])) = Len(queue[c]) - 1
          /\ \A i \in 1..Len(Tail(queue[c])) : Tail(queue[c])[i] = queue[c][i + 1]
      BY <3>1, <3>3
    <3> QED
      BY <3>1, <3>2, <3>3, <3>4, <3>5
  <2>2. ASSUME NEW i \in Nat \ {0}, <<"queue", c, i>> \in T
        PROVE  <<"queue", c, i + 1>> \in Outstanding
    <3>1. i \in 1..Len(queue'[c]) /\ queue'[c][i] = "goal"
      BY <2>2, OutstandingIsNext DEF TurnPlace
    <3>2. i + 1 \in 1..Len(queue[c]) /\ queue[c][i + 1] = "goal"
      BY <2>1, <3>1
    <3> QED
      BY <3>2, OutstandingIs
  <2>3. p \in T => <<"queue", c, 1>> \in Outstanding
    <3>1. p \in T => k = "goal"
      OBVIOUS
    <3>2. k = "goal" => 1 \in 1..Len(queue[c]) /\ queue[c][1] = "goal"
      BY <2>1
    <3> QED
      BY <3>1, <3>2, OutstandingIs
  <2>4. ASSUME NEW x \in T
        PROVE  x = p \/ x \in Outstanding \/ \E i \in Nat \ {0} : x = <<"queue", c, i>>
    <3>1. CASE \E d \in Chats : \E i \in 1..Len(queue'[d]) :
                 queue'[d][i] = "goal" /\ x = <<"queue", d, i>>
      <4>1. PICK d \in Chats : \E i \in 1..Len(queue'[d]) :
              queue'[d][i] = "goal" /\ x = <<"queue", d, i>>
        BY <3>1
      <4>2. CASE d # c
        BY <2>1, <4>1, <4>2, OutstandingIs
      <4>3. CASE d = c
        BY <2>1, <4>1, <4>3
      <4> QED
        BY <4>2, <4>3
    <3>2. (\E h \in Threads : Sends(h)' /\ x = TurnPlace(h)) => x = p \/ x \in Outstanding
      BY EnterSends, OutstandingIs
    <3>3. x \in Outstanding'
      OBVIOUS
    <3> HIDE DEF p, T
    <3> QED
      BY <3>1, <3>2, <3>3, OutstandingIs, OutstandingIsNext
  <2>5. \A i \in Nat \ {0} : p # <<"queue", c, i>>
    BY DEF TurnPlace
  <2> HIDE DEF p, T
  <2> QED
    BY <1>n, <2>2, <2>3, <2>4, <2>5, Shifted
<1>1. IsFiniteSet(T) /\ Cardinality(T) <= Cardinality(Outstanding)
  <2>1. CASE queue' = queue /\ k # "goal"
    <3>1. T \in SUBSET Outstanding
      <4> SUFFICES ASSUME NEW x \in Outstanding', x # p PROVE x \in Outstanding
        BY <2>1
      <4>1. (\E h \in Threads : Sends(h)' /\ x = TurnPlace(h)) => x \in Outstanding
        BY EnterSends, OutstandingIs
      <4> QED
        BY <2>1, <4>1, OutstandingIs, OutstandingIsNext
    <3> HIDE DEF T
    <3> QED
      BY <1>n, <3>1, FS_Subset
  <2> QED
    BY <1>r, <2>1
<1>2. Cardinality(T) \in Nat
  BY <1>1, FS_CardinalityType
<1>3. CASE k = "goal"
  BY <1>t, <1>n, <1>1, <1>2, <1>3 DEF Counted
<1>4. CASE ~Sends(g)'
  <2>1. p \notin Outstanding'
    <3>1. p \in Outstanding' => \E h \in Threads : Sends(h)' /\ p = TurnPlace(h)
      BY OutstandingIsNext DEF TurnPlace
    <3> QED
      BY <1>4, <3>1, TurnPlaces
  <2>2. T = Outstanding'
    BY <2>1
  <2>3. /\ IsFiniteSet(Outstanding') /\ Cardinality(Outstanding') \in Nat
        /\ Cardinality(Outstanding') <= Cardinality(Outstanding)
    BY <1>1, <1>2, <2>2
  <2> HIDE DEF T, p
  <2> QED
    BY <1>t, <1>n, <2>3 DEF Counted
<1>5. CASE kicks' = kicks + 1
  <2>1. Outstanding' \subseteq T \cup {p}
    OBVIOUS
  <2> HIDE DEF T, p
  <2>2. IsFiniteSet(Outstanding') /\ Cardinality(Outstanding') <= Cardinality(T) + 1
    BY <1>1, <2>1, OneMore
  <2>3. Cardinality(Outstanding') \in Nat
    BY <2>2, FS_CardinalityType
  <2> QED
    BY <1>n, <1>1, <1>2, <1>5, <1>t, <2>2, <2>3 DEF Counted
<1> QED
  BY <1>3, <1>4, <1>5, EnterSends

\* What does not come to be counted leaves the count as it is.
LEMMA CountedSame ==
    ASSUME Counted, kicks' = kicks, kicks \in Nat, Outstanding' \subseteq Outstanding
    PROVE  Counted'
<1>1. IsFiniteSet(Outstanding') /\ Cardinality(Outstanding') <= Cardinality(Outstanding)
  BY FS_Subset DEF Counted
<1>2. Cardinality(Outstanding') \in Nat /\ Cardinality(Outstanding) \in Nat
  BY <1>1, FS_CardinalityType DEF Counted
<1> QED
  BY <1>1, <1>2 DEF Counted

LEMMA CountedRoute == ASSUME GoalInv, RunInv, Counted, Route PROVE Counted'
<1> DEFINE c == Head(bus).chat  k == Head(bus).kind
           new == IF InTurn(c) THEN <<"steered", c, Len(steerBuf[c]) + 1>>
                  ELSE <<"queue", c, Len(queue[c]) + 1>>
<1>t. /\ bus \in Seq([chat : Chats, kind : Kinds]) /\ queue \in [Chats -> Seq(Kinds)]
      /\ steerBuf \in [Chats -> Seq(Kinds)] /\ kicks \in Nat
      /\ bus # <<>> /\ bus' = Tail(bus) /\ c \in Chats /\ k \in Kinds
      /\ UNCHANGED <<pc, task, kicks>>
  BY BusHead DEF Route, GoalInv, GoalTypes, RunInv, RunTypes, locals, ghosts
<1>n. Cardinality(Outstanding) \in Nat /\ IsFiniteSet(Outstanding) /\ Cardinality(Outstanding) <= kicks
  BY FS_CardinalityType DEF Counted
<1>1. /\ Len(bus') = Len(bus) - 1 /\ Len(bus) \in Nat \ {0} /\ k = bus[1].kind
      /\ \A i \in 1..Len(bus') : bus'[i] = bus[i + 1]
  BY <1>t
<1>2. ASSUME NEW x, NEW d \in Chats,
             \/ \E i \in 1..Len(queue'[d]) : queue'[d][i] = "goal" /\ x = <<"queue", d, i>>
             \/ \E i \in 1..Len(steerBuf'[d]) : steerBuf'[d][i] = "goal" /\ x = <<"steered", d, i>>
      PROVE  x \in Outstanding \/ (x = new /\ k = "goal")
  <2>1. CASE InTurn(c)
    <3>1. queue' = queue /\ steerBuf' = [steerBuf EXCEPT ![c] = Append(@, k)]
      BY <2>1 DEF Route, Steer
    <3>2. new = <<"steered", c, Len(steerBuf[c]) + 1>>
      BY <2>1
    <3> HIDE DEF c, k, new
    <3>3. /\ d # c => steerBuf'[d] = steerBuf[d]
          /\ Len(steerBuf'[c]) = Len(steerBuf[c]) + 1 /\ Len(steerBuf[c]) \in Nat
          /\ \A i \in 1..Len(steerBuf[c]) : steerBuf'[c][i] = steerBuf[c][i]
          /\ steerBuf'[c][Len(steerBuf[c]) + 1] = k
      <4>1. steerBuf[c] \in Seq(Kinds) /\ steerBuf'[c] = Append(steerBuf[c], k)
        BY <1>t, <3>1
      <4>2. d # c => steerBuf'[d] = steerBuf[d]
        BY <1>t, <3>1
      <4> QED
        BY <1>t, <4>1, <4>2
    <3>4. ASSUME NEW i \in 1..Len(steerBuf'[d]), steerBuf'[d][i] = "goal", x = <<"steered", d, i>>
          PROVE  x \in Outstanding \/ (x = new /\ k = "goal")
      <4>1. CASE d # c \/ i # Len(steerBuf[c]) + 1
        <5>1. i \in 1..Len(steerBuf[d]) /\ steerBuf[d][i] = "goal"
          BY <3>3, <3>4, <4>1
        <5> QED
          BY <3>4, <5>1, OutstandingIs
      <4>2. CASE d = c /\ i = Len(steerBuf[c]) + 1
        BY <3>2, <3>3, <3>4, <4>2
      <4> QED
        BY <4>1, <4>2
    <3>5. (\E i \in 1..Len(queue'[d]) : queue'[d][i] = "goal" /\ x = <<"queue", d, i>>) => x \in Outstanding
      BY <3>1, OutstandingIs
    <3> QED
      BY <1>2, <3>4, <3>5
  <2>2. CASE ~InTurn(c)
    <3>1. steerBuf' = steerBuf /\ queue' = [queue EXCEPT ![c] = Append(@, k)]
      BY <2>2 DEF Route
    <3>2. new = <<"queue", c, Len(queue[c]) + 1>>
      BY <2>2
    <3> HIDE DEF c, k, new
    <3>3. /\ d # c => queue'[d] = queue[d]
          /\ Len(queue'[c]) = Len(queue[c]) + 1 /\ Len(queue[c]) \in Nat
          /\ \A i \in 1..Len(queue[c]) : queue'[c][i] = queue[c][i]
          /\ queue'[c][Len(queue[c]) + 1] = k
      <4>1. queue[c] \in Seq(Kinds) /\ queue'[c] = Append(queue[c], k)
        BY <1>t, <3>1
      <4>2. d # c => queue'[d] = queue[d]
        BY <1>t, <3>1
      <4> QED
        BY <1>t, <4>1, <4>2
    <3>4. ASSUME NEW i \in 1..Len(queue'[d]), queue'[d][i] = "goal", x = <<"queue", d, i>>
          PROVE  x \in Outstanding \/ (x = new /\ k = "goal")
      <4>1. CASE d # c \/ i # Len(queue[c]) + 1
        <5>1. i \in 1..Len(queue[d]) /\ queue[d][i] = "goal"
          BY <3>3, <3>4, <4>1
        <5> QED
          BY <3>4, <5>1, OutstandingIs
      <4>2. CASE d = c /\ i = Len(queue[c]) + 1
        BY <3>2, <3>3, <3>4, <4>2
      <4> QED
        BY <4>1, <4>2
    <3>5. (\E i \in 1..Len(steerBuf'[d]) : steerBuf'[d][i] = "goal" /\ x = <<"steered", d, i>>)
            => x \in Outstanding
      BY <3>1, OutstandingIs
    <3> QED
      BY <1>2, <3>4, <3>5
  <2> QED
    BY <2>1, <2>2
<1>3. \A i : new # <<"bus", NoChat, i>>
  OBVIOUS
<1> DEFINE T == IF k = "goal" THEN Outstanding' ELSE Outstanding' \ {new}
<1> HIDE DEF c, k, new
<1>4. ASSUME NEW x \in Outstanding'
      PROVE  \/ x \in Outstanding \/ (x = new /\ k = "goal")
             \/ \E i \in Nat \ {0} : /\ x = <<"bus", NoChat, i>>
                                     /\ <<"bus", NoChat, i + 1>> \in Outstanding
  <2>1. ASSUME NEW i \in 1..Len(bus'), bus'[i].kind = "goal", x = <<"bus", NoChat, i>>
        PROVE  i \in Nat \ {0} /\ <<"bus", NoChat, i + 1>> \in Outstanding
    <3>1. i + 1 \in 1..Len(bus) /\ bus[i + 1].kind = "goal" /\ i \in Nat \ {0}
      BY <1>1, <2>1
    <3> QED
      BY <3>1, OutstandingIs
  <2>2. (\E h \in Threads : Sends(h)' /\ x = TurnPlace(h)) => x \in Outstanding
    <3>1. \A h \in Threads : Sends(h)' => Sends(h)
      BY <1>t DEF Sends
    <3> QED
      BY <3>1, OutstandingIs
  <2> QED
    BY <1>2, <2>1, <2>2, OutstandingIsNext
<1>5. ASSUME NEW i \in Nat \ {0}, <<"bus", NoChat, i>> \in Outstanding'
      PROVE  <<"bus", NoChat, i + 1>> \in Outstanding
  <2>1. i \in 1..Len(bus') /\ bus'[i].kind = "goal"
    BY <1>5, OutstandingIsNext DEF TurnPlace
  <2>2. i + 1 \in 1..Len(bus) /\ bus[i + 1].kind = "goal"
    BY <1>1, <2>1
  <2> QED
    BY <2>2, OutstandingIs
<1>6. k = "goal" => <<"bus", NoChat, 1>> \in Outstanding
  <2>1. 1 \in 1..Len(bus)
    BY <1>1
  <2> QED
    BY <1>1, <2>1, OutstandingIs
<1>7. IsFiniteSet(Outstanding') /\ Cardinality(Outstanding') <= Cardinality(Outstanding)
  <2>1. CASE k = "goal"
    BY <1>n, <1>3, <1>4, <1>5, <1>6, <2>1, Shifted
  <2>2. CASE k # "goal"
    <3> DEFINE none == <<"none", NoChat, 0>>
    <3>1. none \notin Outstanding'
      BY OutstandingIsNext DEF TurnPlace
    <3> HIDE DEF none
    <3> QED
      BY <1>n, <1>4, <1>5, <2>2, <3>1, Shifted
  <2> QED
    BY <2>1, <2>2
<1>8. Cardinality(Outstanding') \in Nat
  BY <1>7, FS_CardinalityType
<1> QED
  BY <1>t, <1>n, <1>7, <1>8 DEF Counted

LEMMA CountedNext == ASSUME GoalInv, RunInv, Counted, [Next]_vars PROVE Counted'
<1>t. /\ bus \in Seq([chat : Chats, kind : Kinds]) /\ queue \in [Chats -> Seq(Kinds)]
      /\ steerBuf \in [Chats -> Seq(Kinds)] /\ kicks \in Nat
      /\ \A k \in Commands \cup {"user"} : k \in Kinds /\ k # "goal"
  BY DEF GoalInv, GoalTypes, RunInv, RunTypes, Kinds, Commands
<1>1. ASSUME NEW c \in Chats, NEW k \in Commands \cup {"user"}, Send(c, k) PROVE Counted'
  <2>1. /\ bus' = Append(bus, [chat |-> c, kind |-> k]) /\ UNCHANGED <<queue, steerBuf, pc, task, kicks>>
    BY <1>1 DEF Send, locals, ghosts
  <2>2. /\ Len(bus') = Len(bus) + 1 /\ Len(bus) \in Nat
        /\ \A i \in 1..Len(bus) : bus'[i] = bus[i]
        /\ bus'[Len(bus) + 1].kind # "goal"
    <3>1. [chat |-> c, kind |-> k] \in [chat : Chats, kind : Kinds] /\ k # "goal"
      BY <1>t
    <3> QED
      BY <1>t, <2>1, <3>1
  <2>3. ASSUME NEW i \in 1..Len(bus'), bus'[i].kind = "goal" PROVE i \in 1..Len(bus) /\ bus[i].kind = "goal"
    BY <2>2, <2>3
  <2>4. \A h \in Threads : Sends(h)' => Sends(h)
    BY <2>1 DEF Sends
  <2>5. Outstanding' \subseteq Outstanding
    BY <2>1, <2>3, <2>4, OutstandingIs, OutstandingIsNext
  <2> QED
    BY <1>t, <2>1, <2>5, CountedSame
<1>2. ASSUME NEW c \in Chats, NEW k \in Commands \cup {"user"}, WebRequest(c, k) PROVE Counted'
  <2>1. CASE InTurn(c)
    <3>1. /\ steerBuf' = [steerBuf EXCEPT ![c] = Append(@, k)]
          /\ UNCHANGED <<queue, bus, pc, task, kicks>>
      BY <1>2, <2>1 DEF WebRequest, Steer, ghosts
    <3>2. \A d \in Chats : steerBuf'[d] = IF d = c THEN Append(steerBuf[d], k) ELSE steerBuf[d]
      BY <1>t, <3>1
    <3>3. ASSUME NEW d \in Chats, NEW i \in 1..Len(steerBuf'[d]), steerBuf'[d][i] = "goal"
          PROVE  i \in 1..Len(steerBuf[d]) /\ steerBuf[d][i] = "goal"
      <4>1. steerBuf[d] \in Seq(Kinds) /\ k \in Kinds /\ k # "goal"
        BY <1>t
      <4>2. CASE d # c
        BY <3>2, <3>3, <4>2
      <4>3. CASE d = c
        <5>1. steerBuf'[d] = Append(steerBuf[d], k)
          BY <3>2, <4>3
        <5> QED
          BY <3>3, <4>1, <5>1
      <4> QED
        BY <4>2, <4>3
    <3>4. \A h \in Threads : Sends(h)' => Sends(h)
      BY <3>1 DEF Sends
    <3>5. Outstanding' \subseteq Outstanding
      BY <3>1, <3>3, <3>4, OutstandingIs, OutstandingIsNext
    <3> QED
      BY <1>t, <3>1, <3>5, CountedSame
  <2>2. CASE ~InTurn(c)
    <3>1. <<c, "web">> \in Threads /\ k \in Kinds /\ k # "goal"
      BY <1>t, <1>2 DEF WebRequest, Threads
    <3>2. /\ pc[<<c, "web">>] = "idle" /\ Enter(<<c, "web">>, k)
          /\ UNCHANGED <<bus, steerBuf, queue>>
      BY <1>2, <2>2 DEF WebRequest
    <3>3. \/ queue' = queue /\ k # "goal"
          \/ queue[c] # <<>> /\ k = Head(queue[c]) /\ queue' = [queue EXCEPT ![c] = Tail(@)]
      BY <3>1, <3>2
    <3> QED
      BY <3>1, <3>2, <3>3, CountedEnter, Zenon
  <2> QED
    BY <2>1, <2>2
<1>3. CASE Route
  BY <1>3, CountedRoute
<1>4. ASSUME NEW c \in Chats, HandleTask(c) PROVE Counted'
  <2>1. /\ pc[<<c, "worker">>] = "idle" /\ queue[c] # <<>> /\ Enter(<<c, "worker">>, Head(queue[c]))
        /\ queue' = [queue EXCEPT ![c] = Tail(@)] /\ UNCHANGED <<bus, steerBuf>>
    BY <1>4 DEF HandleTask
  <2>2. <<c, "worker">> \in Threads
    BY DEF Threads
  <2>3. Head(queue[c]) \in Kinds
    BY <1>t, <2>1, FirstAndRest
  <2> QED
    BY <2>1, <2>2, <2>3, CountedEnter
<1>5. ASSUME NEW g \in Threads, TurnStep(g) \/ SlashStep(g) PROVE Counted'
  BY <1>5, CountedStep
<1>6. CASE UNCHANGED vars
  <2>1. Outstanding' = Outstanding /\ kicks' = kicks
    BY <1>6 DEF vars, locals, ghosts, Outstanding, OnBus, Held, Senders, Sends
  <2> QED
    BY <1>t, <2>1, CountedSame
<1> QED
  BY <1>1, <1>2, <1>3, <1>4, <1>5, <1>6 DEF Next
-----------------------------------------------------------------------------
LEMMA DrivenInit == Init => GoalInv /\ RunInv /\ Going /\ Counted
<1> SUFFICES ASSUME Init PROVE Going /\ Counted
  BY GoalInit, RunInit
<1>1. Going
  BY DEF Init, Going, Active, NoGoal
<1>2. Outstanding = {}
  <2>1. \A x : x \notin Outstanding
    BY OutstandingIs DEF Init, Sends
  <2> QED
    BY <2>1
<1>3. Counted
  BY <1>2, FS_EmptySet DEF Counted, Init
<1> QED
  BY <1>1, <1>3

LEMMA DrivenTypes == ASSUME GoalInv, RunInv PROVE TypeOK
<1>1. row \in [Chats -> [id : 0..made, status : {"none", "active", "paused", "complete"},
                         tokens : 0..MaxTokens]]
  <2>1. \A c \in Chats : row[c] \in Rows /\ row[c].id <= made /\ row[c].tokens <= MaxTokens
    BY DEF GoalInv, GoalTypes, Numbered, RunInv, RunTypes
  <2>2. \A c \in Chats : row[c] \in [id : 0..made, status : {"none", "active", "paused", "complete"},
                                     tokens : 0..MaxTokens]
    BY <2>1, GoalsAssumption DEF Rows, Statuses, GoalInv, GoalTypes
  <2> QED
    BY <2>2 DEF GoalInv, GoalTypes
<1> QED
  BY <1>1 DEF TypeOK, GoalInv, GoalTypes, RunInv, RunTypes

\* Whatever the number of chats, messages and rounds, the room on the bus and the
\* statements that fail: an active goal is never left without a turn or a message
\* that starts one, but where its last continuation was lost (continue.go:71,
\* loop.go:1816, loop.go:2199) or the chat crossed with another; and there are
\* never more continuations, with the turns that will send one, than there were
\* /goal, /goal resume and turns of the user (loop.go:884).
THEOREM GoalDrivenHolds == Spec => []GoalDriven
<1> DEFINE I == GoalInv /\ RunInv /\ Going /\ Counted
<1>1. Init => I
  BY DrivenInit
<1>2. I /\ [Next]_vars => I'
  BY GoalNext, RunNext, GoingNext, CountedNext DEF RunInv, RunTypes
<1>3. I => GoalDriven
  BY DrivenTypes, GoingStalls DEF GoalDriven, NoRunaway, Counted
<1> QED
  BY <1>1, <1>2, <1>3, PTL DEF Spec
=============================================================================
