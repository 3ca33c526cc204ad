--------------------------- MODULE GatewayProofs ---------------------------
(***************************************************************************)
(* UserSpaces: the registry's spaces are the running ones and up to date,  *)
(* and a call finds its agent, for any users, agents, callers and          *)
(* handlers.  Runtime: what operations on the app of a project leave       *)
(* behind, for any number of them, of containers, ended contexts and       *)
(* restarts.  Channels, at the end: the bots that are connected and the    *)
(* messages they get, for any of both, and any users, agents and handlers. *)
(***************************************************************************)
EXTENDS UserSpaces, Runtime, Channels, TLAPS, FiniteSetTheorems, SequenceTheorems

Places == {"get", "touch", "lock", "load", "publish", "use", "ensure",
           "getagent", "attach", "attached"} \cup Over

HandlerOps == [pc : {"idle", "tell", "drop"}, kind : {"save", "create", "delete"},
        item : Items, todo : SUBSET Spaces]

\* What a space is built from: versions of items.
Versioned(f) == DOMAIN f \subseteq Items /\ \A i \in DOMAIN f : f[i] \in Nat

DbTypes ==
    /\ exists \subseteq Agents /\ ver \in [Items -> Nat]
    /\ op \in [Admins -> HandlerOps]
    /\ half \subseteq Items

RegTypes ==
    /\ cached \in [Users -> Spaces \cup {None}] /\ idle \subseteq Users
    /\ alive \subseteq Spaces
    /\ rmu \in Callers \cup {Free} /\ smu \in [Spaces -> Callers \cup {Free}]

BuiltTypes ==
    /\ DOMAIN built = Spaces /\ \A s \in Spaces : Versioned(built[s])
    /\ DOMAIN draft = Callers /\ \A c \in Callers : Versioned(draft[c])
    /\ \A c \in Callers : pc[c] = "attach" => DOMAIN draft[c] = {agent[c]}

CallTypes ==
    /\ pc \in [Callers -> Places] /\ kind \in [Callers -> {"route", "direct", "web"}]
    /\ user \in [Callers -> Users] /\ agent \in [Callers -> Agents]
    /\ stage \in [Callers -> {"match", "ensure", "task"}]
    /\ sp \in [Callers -> Spaces \cup {None}]
    /\ own \in [Callers -> Spaces \cup {None}]
    /\ dropped \subseteq Callers /\ moved \subseteq Callers

TypeOK == DbTypes /\ RegTypes /\ BuiltTypes /\ CallTypes
-----------------------------------------------------------------------------
LEMMA Apart ==
    /\ \A u \in Users : u \in Items /\ u \notin Agents /\ u # System
    /\ \A g \in Agents : g \in Items /\ OwnerOf[g] \in Users
    /\ System \in Items /\ System \notin Agents /\ System \notin Users
    /\ None \notin Spaces /\ Free \notin Callers
  BY UserSpacesAssumption DEF Items, None, Spaces

\* The number of a new space.
LEMMA NewNumber ==
    ASSUME Spaces \ Used # {}
    PROVE  Unused \in Spaces /\ Unused \notin Used
  BY DEF Unused

LEMMA UsedHas ==
    /\ \A s \in alive : s \in Used
    /\ \A c \in Callers : pc[c] \notin Over => sp[c] \in Used /\ own[c] \in Used
    /\ \A a \in Admins : \A s \in op[a].todo : s \in Used
<1>1. \A s \in alive : s \in Used
  BY DEF Used
<1>2. ASSUME NEW c \in Callers, pc[c] \notin Over
      PROVE  sp[c] \in Used /\ own[c] \in Used
  <2>1. c \in Active
    BY <1>2 DEF Active
  <2>2. {sp[c], own[c]} \subseteq Used
    BY <2>1 DEF Used
  <2>3. QED
    BY <2>2
<1>3. ASSUME NEW a \in Admins PROVE op[a].todo \subseteq Used
  BY DEF Used
<1>4. QED
  BY <1>1, <1>2, <1>3
-----------------------------------------------------------------------------
(* Types. *)

LEMMA DbNext ==
    ASSUME TypeOK, [Next]_vars
    PROVE  DbTypes'
<1>a. DbTypes
  BY DEF TypeOK
<1> USE <1>a DEF DbTypes
<1>1. ASSUME NEW c \in Callers, CallerStep(c) PROVE DbTypes'
  BY <1>1 DEF CallerStep, Get, Touch, Lock, Load, Publish, Match, EnsureLock,
     GetAgent, Attach, Attached, RunTask, db, ghosts, End
<1>2. ASSUME NEW a \in Admins, Idle(a) PROVE op' \in [Admins -> HandlerOps]
  BY <1>2, Apart DEF Idle, HandlerOps
<1>3. ASSUME NEW a \in Admins, NEW k \in {"save", "create", "delete"}, NEW i \in Items,
             Write(a, k, i), exists' \subseteq Agents
      PROVE  DbTypes'
  BY <1>3 DEF Write, HandlerOps
<1>4. ASSUME NEW a \in Admins, FailHalfway(a) PROVE DbTypes'
  <2>1. op[a].item \in Items
    BY DEF HandlerOps
  <2>2. QED
    BY <1>2, <1>4, <2>1 DEF FailHalfway, db
<1>5. ASSUME NEW a \in Admins, TellUser(a) PROVE DbTypes'
  BY <1>2, <1>5 DEF TellUser, db
<1>6. ASSUME NEW a \in Admins, TellAll(a) PROVE DbTypes'
  <2>1. Cached \subseteq Spaces
    BY DEF Cached, TypeOK, RegTypes
  <2>2. CASE Idle(a)
    BY <1>2, <1>6, <2>2 DEF TellAll, db, ghosts
  <2>3. CASE op' = [op EXCEPT ![a].pc = "drop", ![a].todo = Cached]
    <3>1. op[a] \in HandlerOps
      OBVIOUS
    <3>2. [op[a] EXCEPT !.pc = "drop", !.todo = Cached] \in HandlerOps
      BY <2>1, <3>1 DEF HandlerOps
    <3>3. op' \in [Admins -> HandlerOps]
      BY <2>3, <3>2
    <3>4. QED
      BY <1>6, <3>3 DEF TellAll, db, ghosts
  <2>4. QED
    BY <1>6, <2>2, <2>3 DEF TellAll
<1>7. ASSUME NEW a \in Admins, NEW s \in op[a].todo, Drop(a, s) PROVE DbTypes'
  BY <1>2, <1>7 DEF Drop, db, HandlerOps
<1>8. ASSUME NEW a \in Admins, NEW i \in Items, Save(a, i) PROVE DbTypes'
  BY <1>3, <1>8 DEF Save
<1>9. ASSUME NEW a \in Admins, NEW g \in Agents, CreateAgent(a, g) \/ DeleteAgent(a, g)
      PROVE  DbTypes'
  BY <1>3, <1>9, Apart DEF CreateAgent, DeleteAgent
<1>10. ASSUME NEW c \in Callers, NEW u \in Users, NEW g \in Agents, NEW k \in Kinds[c],
              Begin(c, k, u, g)
       PROVE  DbTypes'
  BY <1>10 DEF Begin, db
<1>11. CASE EvictIdle \/ (\E u \in Users : Age(u)) \/ UNCHANGED vars
  BY <1>11 DEF EvictIdle, Age, db, ghosts, vars
<1>12. QED
  BY <1>1, <1>4, <1>5, <1>6, <1>7, <1>8, <1>9, <1>10, <1>11 DEF Next, AdminStep

LEMMA DropTypes ==
    ASSUME RegTypes, NEW us, DropUsers(us), UNCHANGED <<rmu, smu>>
    PROVE  RegTypes'
  BY DEF RegTypes, DropUsers

\* What a handler does to the registry.
LEMMA AdminDrops ==
    ASSUME NEW a \in Admins, AdminStep(a)
    PROVE  /\ UNCHANGED <<cached, idle, alive, dropped>> \/ \E us : DropUsers(us)
           /\ UNCHANGED <<exists, ver, built, rmu, smu, locals, moved, half, raced>>
<1>1. CASE TellUser(a)
  BY <1>1 DEF TellUser, db
<1>2. CASE TellAll(a)
  BY <1>2 DEF TellAll, reg, db, ghosts
<1>3. ASSUME NEW s \in op[a].todo, Drop(a, s)
      PROVE  /\ UNCHANGED <<cached, idle, alive, dropped>> \/ \E us : DropUsers(us)
             /\ UNCHANGED <<exists, ver, built, rmu, smu, locals, moved, half, raced>>
  BY <1>3 DEF Drop, reg, db
<1>4. QED
  BY <1>1, <1>2, <1>3 DEF AdminStep

LEMMA RegCaller ==
    ASSUME TypeOK, NEW c \in Callers, CallerStep(c)
    PROVE  RegTypes'
<1> USE DEF TypeOK, RegTypes, reg, CallTypes
<1>1. CASE Get(c)
  BY <1>1 DEF Get
<1>2. CASE Touch(c)
  BY <1>2 DEF Touch
<1>3. CASE Lock(c)
  BY <1>3 DEF Lock
<1>4. CASE Load(c)
  BY <1>4 DEF Load
<1>5. CASE Publish(c)
  BY <1>5, NewNumber DEF Publish
<1>6. CASE Match(c)
  BY <1>6 DEF Match
<1>7. CASE EnsureLock(c)
  BY <1>7 DEF EnsureLock
<1>8. CASE GetAgent(c)
  BY <1>8 DEF GetAgent
<1>9. CASE Attach(c)
  BY <1>9 DEF Attach
<1>10. CASE Attached(c)
  BY <1>10 DEF Attached
<1>11. CASE RunTask(c)
  BY <1>11 DEF RunTask
<1>12. QED
  BY <1>1, <1>2, <1>3, <1>4, <1>5, <1>6, <1>7, <1>8, <1>9, <1>10, <1>11
     DEF CallerStep

LEMMA RegNext ==
    ASSUME TypeOK, [Next]_vars
    PROVE  RegTypes'
<1>a. RegTypes
  BY DEF TypeOK
<1>1. ASSUME NEW c \in Callers, CallerStep(c) PROVE RegTypes'
  BY <1>1, RegCaller
<1>2. ASSUME UNCHANGED <<cached, idle, alive, rmu, smu>> PROVE RegTypes'
  BY <1>a, <1>2 DEF RegTypes
<1>3. ASSUME NEW a \in Admins, AdminStep(a) PROVE RegTypes'
  BY <1>a, <1>2, <1>3, AdminDrops, DropTypes
<1>4. CASE EvictIdle
  BY <1>a, <1>4, DropTypes DEF EvictIdle
<1>5. ASSUME NEW u \in Users, Age(u) PROVE RegTypes'
  BY <1>a, <1>5 DEF Age, RegTypes
<1>6. ASSUME NEW a \in Admins, NEW i \in Items, Save(a, i) PROVE RegTypes'
  BY <1>2, <1>6 DEF Save, Write, reg
<1>7. ASSUME NEW a \in Admins, NEW g \in Agents, CreateAgent(a, g) \/ DeleteAgent(a, g)
      PROVE  RegTypes'
  BY <1>2, <1>7 DEF CreateAgent, DeleteAgent, Write, reg
<1>8. ASSUME NEW a \in Admins, FailHalfway(a) PROVE RegTypes'
  BY <1>2, <1>8 DEF FailHalfway, reg
<1>9. ASSUME NEW c \in Callers, NEW u \in Users, NEW g \in Agents, NEW k \in Kinds[c],
             Begin(c, k, u, g)
      PROVE  RegTypes'
  BY <1>2, <1>9 DEF Begin, reg
<1>10. CASE UNCHANGED vars
  BY <1>2, <1>10 DEF vars, reg
<1>11. QED
  BY <1>1, <1>3, <1>4, <1>5, <1>6, <1>7, <1>8, <1>9, <1>10 DEF Next

\* The caller that moves leaves the others' locals alone.
LEMMA CallerFrame ==
    ASSUME TypeOK, NEW c \in Callers, CallerStep(c), NEW o \in Callers, o # c
    PROVE  UNCHANGED <<pc[o], kind[o], user[o], agent[o], stage[o], sp[o], own[o],
                       draft[o]>>
<1> USE DEF TypeOK, CallTypes, BuiltTypes, Goto, End, Found, Again
<1>1. CASE Get(c)
  BY <1>1 DEF Get
<1>2. CASE Touch(c)
  BY <1>2 DEF Touch
<1>3. CASE Lock(c)
  BY <1>3 DEF Lock
<1>4. CASE Load(c)
  BY <1>4 DEF Load
<1>5. CASE Publish(c)
  BY <1>5 DEF Publish
<1>6. CASE Match(c)
  BY <1>6 DEF Match
<1>7. CASE EnsureLock(c)
  BY <1>7 DEF EnsureLock
<1>8. CASE GetAgent(c)
  BY <1>8 DEF GetAgent
<1>9. CASE Attach(c)
  BY <1>9 DEF Attach
<1>10. CASE Attached(c)
  BY <1>10 DEF Attached
<1>11. CASE RunTask(c)
  BY <1>11 DEF RunTask
<1>12. QED
  BY <1>1, <1>2, <1>3, <1>4, <1>5, <1>6, <1>7, <1>8, <1>9, <1>10, <1>11
     DEF CallerStep

LEMMA CallCaller ==
    ASSUME TypeOK, NEW c \in Callers, CallerStep(c)
    PROVE  CallTypes'
<1> USE DEF TypeOK, CallTypes, RegTypes, Goto, End, Found, Again, Places, Over, ghosts
<1>1. CASE Get(c)
  BY <1>1 DEF Get
<1>2. CASE Touch(c)
  BY <1>2 DEF Touch
<1>3. CASE Lock(c)
  BY <1>3 DEF Lock
<1>4. CASE Load(c)
  BY <1>4 DEF Load
<1>5. CASE Publish(c)
  BY <1>5, NewNumber DEF Publish
<1>6. CASE Match(c)
  BY <1>6 DEF Match
<1>7. CASE EnsureLock(c)
  BY <1>7 DEF EnsureLock
<1>8. CASE GetAgent(c)
  BY <1>8 DEF GetAgent
<1>9. CASE Attach(c)
  BY <1>9 DEF Attach
<1>10. CASE Attached(c)
  BY <1>10 DEF Attached
<1>11. CASE RunTask(c)
  BY <1>11 DEF RunTask
<1>12. QED
  BY <1>1, <1>2, <1>3, <1>4, <1>5, <1>6, <1>7, <1>8, <1>9, <1>10, <1>11
     DEF CallerStep

LEMMA CallNext ==
    ASSUME TypeOK, [Next]_vars
    PROVE  CallTypes'
<1>a. CallTypes
  BY DEF TypeOK
<1>1. ASSUME NEW c \in Callers, CallerStep(c) PROVE CallTypes'
  BY <1>1, CallCaller
<1>2. ASSUME UNCHANGED locals, dropped' \subseteq Callers, moved' \subseteq Callers
      PROVE  CallTypes'
  BY <1>a, <1>2 DEF CallTypes, locals
<1>b. \A us : DropUsers(us) => dropped' \subseteq Callers
  BY <1>a DEF DropUsers, Active, CallTypes
<1>3. ASSUME NEW a \in Admins, AdminStep(a) PROVE CallTypes'
  BY <1>a, <1>b, <1>2, <1>3, AdminDrops DEF CallTypes
<1>4. CASE EvictIdle
  BY <1>a, <1>b, <1>2, <1>4 DEF EvictIdle, CallTypes
<1>5. ASSUME NEW u \in Users, Age(u) PROVE CallTypes'
  BY <1>a, <1>2, <1>5 DEF Age, CallTypes, ghosts
<1>6. ASSUME NEW a \in Admins, NEW i \in Items, Save(a, i) PROVE CallTypes'
  BY <1>a, <1>2, <1>6 DEF Save, Write, CallTypes
<1>7. ASSUME NEW a \in Admins, NEW g \in Agents, CreateAgent(a, g) \/ DeleteAgent(a, g)
      PROVE  CallTypes'
  BY <1>a, <1>2, <1>7 DEF CreateAgent, DeleteAgent, Write, Active, CallTypes
<1>8. ASSUME NEW a \in Admins, FailHalfway(a) PROVE CallTypes'
  BY <1>a, <1>2, <1>8 DEF FailHalfway, CallTypes
<1>9. ASSUME NEW c \in Callers, NEW u \in Users, NEW g \in Agents, NEW k \in Kinds[c],
             Begin(c, k, u, g)
      PROVE  CallTypes'
  <2>1. k \in {"route", "direct", "web"}
    BY UserSpacesAssumption
  <2>2. QED
    BY <1>a, <1>9, <2>1 DEF Begin, CallTypes, Goto, Places
<1>10. CASE UNCHANGED vars
  BY <1>a, <1>2, <1>10 DEF vars, CallTypes, ghosts
<1>11. QED
  BY <1>1, <1>3, <1>4, <1>5, <1>6, <1>7, <1>8, <1>9, <1>10 DEF Next

\* What is built and what is read.
LEMMA BuiltCaller ==
    ASSUME TypeOK, NEW c \in Callers, CallerStep(c)
    PROVE  BuiltTypes'
<1>a. BuiltTypes /\ DbTypes /\ CallTypes
  BY DEF TypeOK
<1>b. ASSUME NEW o \in Callers, o # c, pc'[o] = "attach"
      PROVE  DOMAIN draft'[o] = {agent'[o]}
  BY <1>a, <1>b, CallerFrame DEF BuiltTypes
<1>1. ASSUME UNCHANGED <<built, draft>>, pc'[c] # "attach" PROVE BuiltTypes'
  BY <1>a, <1>b, <1>1 DEF BuiltTypes
<1>2. CASE Load(c)
  <2>1. CASE UNCHANGED draft
    BY <1>a, <1>1, <1>2, <2>1 DEF Load, Goto, End, CallTypes
  <2> DEFINE D == {user[c], System} \cup {g \in exists : OwnerOf[g] = user[c]}
             d == [i \in D |-> ver[i]]
  <2>2. D \subseteq Items
    BY <1>a, Apart DEF DbTypes, CallTypes
  <2>3. Versioned(d)
    BY <1>a, <2>2 DEF Versioned, DbTypes
  <2>4. CASE draft' = [draft EXCEPT ![c] = d]
    <3> HIDE DEF d
    <3>1. built' = built /\ (pc'[c] = "publish" \/ pc'[c] = "failed")
      BY <1>a, <1>2 DEF Load, Goto, End, CallTypes
    <3>2. QED
      BY <1>a, <1>b, <2>3, <2>4, <3>1 DEF BuiltTypes
  <2>5. QED
    BY <1>2, <2>1, <2>4 DEF Load
<1>3. CASE Publish(c)
  <2>1. Versioned(<< >>)
    BY DEF Versioned
  <2>2. DOMAIN built' = Spaces /\ DOMAIN draft' = Callers
    BY <1>a, <1>3 DEF Publish, BuiltTypes
  <2>3. ASSUME NEW s \in Spaces PROVE Versioned(built'[s])
    <3>1. built'[s] \in {draft[c], built[s], << >>}
      BY <1>3 DEF Publish
    <3>2. QED
      BY <1>a, <2>1, <3>1 DEF BuiltTypes
  <2>4. ASSUME NEW o \in Callers PROVE Versioned(draft'[o])
    <3>1. draft'[o] \in {draft[o], << >>}
      BY <1>a, <1>3 DEF Publish, BuiltTypes
    <3>2. QED
      BY <1>a, <2>1, <3>1 DEF BuiltTypes
  <2>5. pc'[c] # "attach"
    BY <1>a, <1>3 DEF Publish, Goto, CallTypes
  <2>6. QED
    BY <1>b, <2>2, <2>3, <2>4, <2>5 DEF BuiltTypes
<1>4. CASE GetAgent(c)
  <2>1. CASE agent[c] \notin exists
    BY <1>a, <1>1, <1>4, <2>1 DEF GetAgent, End, Goto, CallTypes
  <2> DEFINE d == [i \in {agent[c]} |-> ver[i]]
  <2>2. Versioned(d)
    BY <1>a, Apart DEF Versioned, DbTypes, CallTypes
  <2>3. CASE agent[c] \in exists
    <3>0. draft' = [draft EXCEPT ![c] = d]
      BY <1>4, <2>3 DEF GetAgent
    <3>1. DOMAIN d = {agent[c]}
      OBVIOUS
    <3> HIDE DEF d
    <3>2. built' = built /\ agent' = agent
      BY <1>4 DEF GetAgent
    <3>3. QED
      BY <1>a, <1>b, <2>2, <3>0, <3>1, <3>2 DEF BuiltTypes
  <2>4. QED
    BY <2>1, <2>3
<1>5. CASE Attach(c)
  <2> DEFINE b == [i \in DOMAIN built[sp[c]] \cup {agent[c]} |->
                     IF i = agent[c] THEN draft[c][agent[c]] ELSE built[sp[c]][i]]
  <2>1. DOMAIN draft[c] = {agent[c]} /\ agent[c] \in Items
    BY <1>a, <1>5, Apart DEF Attach, BuiltTypes, CallTypes
  <2>2. built' = [built EXCEPT ![sp[c]] = b]
    BY <1>5 DEF Attach
  <2>3. sp[c] \in Spaces => Versioned(b)
    BY <1>a, <2>1 DEF BuiltTypes, Versioned
  <2>4. pc'[c] = "attached" /\ draft' = [draft EXCEPT ![c] = << >>]
    BY <1>a, <1>5 DEF Attach, Goto, CallTypes
  <2>5. Versioned(<< >>)
    BY DEF Versioned
  <2> HIDE DEF b
  <2>6. QED
    BY <1>a, <1>b, <2>2, <2>3, <2>4, <2>5 DEF BuiltTypes
<1>6. CASE Get(c) \/ Touch(c) \/ Lock(c) \/ Match(c) \/ EnsureLock(c) \/ Attached(c) \/ RunTask(c)
  <2>1. UNCHANGED <<built, draft>>
    BY <1>6 DEF Get, Touch, Lock, Match, EnsureLock, Attached, RunTask
  <2>2. pc'[c] # "attach"
    BY <1>a, <1>6 DEF Get, Touch, Lock, Match, EnsureLock, Attached, RunTask, Goto, End,
       Found, Again, CallTypes
  <2>3. QED
    BY <1>1, <2>1, <2>2
<1>7. QED
  BY <1>2, <1>3, <1>4, <1>5, <1>6 DEF CallerStep

LEMMA BuiltNext ==
    ASSUME TypeOK, [Next]_vars
    PROVE  BuiltTypes'
<1>a. BuiltTypes /\ CallTypes
  BY DEF TypeOK
<1>1. ASSUME NEW c \in Callers, CallerStep(c) PROVE BuiltTypes'
  BY <1>1, BuiltCaller
<1>2. ASSUME UNCHANGED <<built, draft, pc, agent>> PROVE BuiltTypes'
  BY <1>a, <1>2 DEF BuiltTypes
<1>3. ASSUME NEW a \in Admins, AdminStep(a) PROVE BuiltTypes'
  BY <1>2, <1>3, AdminDrops DEF locals
<1>4. CASE EvictIdle
  BY <1>2, <1>4 DEF EvictIdle, locals
<1>5. ASSUME NEW u \in Users, Age(u) PROVE BuiltTypes'
  BY <1>2, <1>5 DEF Age, locals
<1>6. ASSUME NEW a \in Admins, NEW i \in Items, Save(a, i) PROVE BuiltTypes'
  BY <1>2, <1>6 DEF Save, Write, locals
<1>7. ASSUME NEW a \in Admins, NEW g \in Agents, CreateAgent(a, g) \/ DeleteAgent(a, g)
      PROVE  BuiltTypes'
  BY <1>2, <1>7 DEF CreateAgent, DeleteAgent, Write, locals
<1>8. ASSUME NEW a \in Admins, FailHalfway(a) PROVE BuiltTypes'
  BY <1>2, <1>8 DEF FailHalfway, locals
<1>9. ASSUME NEW c \in Callers, NEW u \in Users, NEW g \in Agents, NEW k \in Kinds[c],
             Begin(c, k, u, g)
      PROVE  BuiltTypes'
  BY <1>a, <1>9 DEF Begin, BuiltTypes, CallTypes, Goto, Over
<1>10. CASE UNCHANGED vars
  BY <1>2, <1>10 DEF vars, locals
<1>11. QED
  BY <1>1, <1>3, <1>4, <1>5, <1>6, <1>7, <1>8, <1>9, <1>10 DEF Next

LEMMA TypeInit == Init => TypeOK
<1> SUFFICES ASSUME Init PROVE TypeOK
  OBVIOUS
<1>1. (CHOOSE u \in Users : TRUE) \in Users /\ (CHOOSE g \in Agents : TRUE) \in Agents
  BY UserSpacesAssumption
<1>2. CallTypes
  BY <1>1 DEF Init, CallTypes, Places, Over
<1>3. BuiltTypes
  BY DEF Init, BuiltTypes, Versioned
<1>4. RegTypes
  BY DEF Init, RegTypes
<1>5. DbTypes
  BY Apart DEF Init, DbTypes, HandlerOps
<1>6. QED
  BY <1>2, <1>3, <1>4, <1>5 DEF TypeOK

LEMMA TypeNext ==
    ASSUME TypeOK, [Next]_vars
    PROVE  TypeOK'
  BY DbNext, RegNext, CallNext, BuiltNext DEF TypeOK
-----------------------------------------------------------------------------
(* The registry and its spaces. *)

\* The running spaces are the registry's, each is built from the rows of the
\* user it is listed for and of no other.
RegSound ==
    /\ alive = Cached
    /\ \A u \in Users : cached[u] # None => Holds(cached[u], u)
    /\ \A s \in Spaces : \A u, v \in Users : Holds(s, u) /\ Holds(s, v) => u = v

\* A handler's list has spaces of users, and a new item is an agent.
OpSound ==
    \A a \in Admins :
        /\ \A s \in op[a].todo : \E u \in Users : Holds(s, u)
        /\ op[a].kind = "create" => op[a].item \in Agents

\* Where a caller is says who has the registry's lock and which spaces the
\* caller has.
At(c) ==
    /\ pc[c] \in {"load", "publish"} => rmu = c /\ cached[user[c]] = None
    /\ pc[c] = "publish" => \A u \in Users : u \in DOMAIN draft[c] <=> u = user[c]
    /\ pc[c] \in Over => sp[c] = None /\ own[c] = None
    /\ pc[c] \in {"touch", "use", "ensure", "getagent", "attach", "attached"}
           => sp[c] # None
    /\ pc[c] \in {"ensure", "getagent", "attach", "attached"} => own[c] # None
    /\ stage[c] = "ensure" /\ pc[c] \notin Over => own[c] # None

RegInv == TypeOK /\ RegSound /\ OpSound /\ \A c \in Callers : At(c)

LEMMA CachedHas == \A s : s \in Cached <=> s # None /\ \E u \in Users : s = cached[u]
  BY DEF Cached

\* Dropping users takes out their spaces, and those only.
LEMMA DropSound ==
    ASSUME TypeOK, RegSound, NEW us \in SUBSET Users, DropUsers(us), UNCHANGED built
    PROVE  /\ RegSound'
           /\ \A u \in Users : cached'[u] = IF u \in us THEN None ELSE cached[u]
           /\ rmu = Free
<1>1. /\ alive' = alive \ {cached[u] : u \in us} /\ rmu = Free
      /\ cached' = [u \in Users |-> IF u \in us THEN None ELSE cached[u]]
  BY DEF DropUsers
<1>2. \A u \in Users : cached'[u] = IF u \in us THEN None ELSE cached[u]
  BY <1>1
<1>3. ASSUME NEW s PROVE s \in alive' <=> s \in Cached'
  <2>1. s \in alive <=> s # None /\ \E u \in Users : s = cached[u]
    BY CachedHas DEF RegSound
  <2>2. s \in Cached' <=> s # None /\ \E u \in Users : s = cached'[u]
    BY DEF Cached
  <2>3. ASSUME s \in alive' PROVE s \in Cached'
    <3>1. PICK u \in Users : s = cached[u] /\ s # None
      BY <1>1, <2>1, <2>3
    <3>2. u \notin us
      BY <1>1, <2>3, <3>1
    <3>3. QED
      BY <1>2, <2>2, <3>1, <3>2
  <2>4. ASSUME s \in Cached' PROVE s \in alive'
    <3>1. PICK u \in Users : s = cached'[u] /\ s # None
      BY <2>2, <2>4
    <3>2. u \notin us /\ s = cached[u]
      BY <1>2, <3>1
    <3>3. ASSUME NEW v \in us, cached[v] = s PROVE FALSE
      <4>1. s \in Spaces
        BY <3>1, <3>2 DEF TypeOK, RegTypes
      <4>2. v = u
        BY <3>1, <3>2, <3>3, <4>1 DEF RegSound
      <4>3. QED
        BY <3>2, <3>3, <4>2
    <3>4. QED
      BY <1>1, <2>1, <3>1, <3>2, <3>3
  <2>5. QED
    BY <2>3, <2>4
<1>4. alive' = Cached'
  BY <1>3
<1>5. QED
  BY <1>1, <1>2, <1>4 DEF RegSound, Holds

LEMMA AdminDropsUsers ==
    ASSUME TypeOK, OpSound, NEW a \in Admins, AdminStep(a)
    PROVE  \/ UNCHANGED <<cached, idle, alive, dropped>>
           \/ \E us \in SUBSET Users : DropUsers(us)
<1>1. CASE TellUser(a)
  <2>1. op[a].item \in Users \/ op[a].kind = "create"
    BY <1>1 DEF TellUser
  <2>2. op[a].item \notin Users => NewIn(op[a].item) \in SUBSET Users
    BY <2>1, Apart DEF NewIn, OpSound
  <2>3. QED
    BY <1>1, <2>2 DEF TellUser
<1>2. CASE TellAll(a)
  BY <1>2 DEF TellAll, reg, ghosts
<1>3. ASSUME NEW s \in op[a].todo, Drop(a, s)
      PROVE  \/ UNCHANGED <<cached, idle, alive, dropped>>
             \/ \E us \in SUBSET Users : DropUsers(us)
  <2>1. HolderOf(s) \in Users
    BY DEF OpSound, HolderOf
  <2>2. QED
    BY <1>3, <2>1 DEF Drop, reg
<1>4. QED
  BY <1>1, <1>2, <1>3 DEF AdminStep

\* What a new space is, and that it hides none that is in use.
LEMMA Published ==
    ASSUME TypeOK, RegSound, NEW c \in Callers, Publish(c)
    PROVE  /\ Unused \in Spaces /\ Unused # None /\ Unused \notin Used
           /\ Unused \notin Cached
           /\ built'[Unused] = draft[c]
           /\ \A s \in Spaces : s \in Used => s # Unused /\ built'[s] = built[s]
           /\ \A s \in Spaces : s \notin Used /\ s # Unused => built'[s] = << >>
           /\ \A u \in Users : cached'[u] = IF u = user[c] THEN Unused ELSE cached[u]
           /\ alive' = alive \cup {Unused} /\ sp' = [sp EXCEPT ![c] = Unused]
           /\ pc' = [pc EXCEPT ![c] = "use"]
           /\ UNCHANGED <<exists, ver, op, half, moved, dropped, user, agent, kind, stage, own>>
<1>1. Unused \in Spaces /\ Unused \notin Used
  BY NewNumber DEF Publish
<1>2. Unused # None /\ Unused \notin Cached
  BY <1>1, Apart, UsedHas DEF RegSound
<1>3. QED
  BY <1>1, <1>2 DEF Publish, Goto, db, TypeOK, RegTypes

\* What an attached agent adds to a space.
LEMMA Attaches ==
    ASSUME TypeOK, NEW c \in Callers, Attach(c), NEW s \in Spaces
    PROVE  /\ s # sp[c] => built'[s] = built[s]
           /\ s = sp[c] =>
                /\ DOMAIN built'[s] = DOMAIN built[s] \cup {agent[c]}
                /\ built'[s][agent[c]] = draft[c][agent[c]]
                /\ \A i \in DOMAIN built[s] : i # agent[c] => built'[s][i] = built[s][i]
<1> DEFINE b == [i \in DOMAIN built[sp[c]] \cup {agent[c]} |->
                   IF i = agent[c] THEN draft[c][agent[c]] ELSE built[sp[c]][i]]
<1>1. built' = [built EXCEPT ![sp[c]] = b]
  BY DEF Attach
<1>2. /\ DOMAIN b = DOMAIN built[sp[c]] \cup {agent[c]}
      /\ b[agent[c]] = draft[c][agent[c]]
      /\ \A i \in DOMAIN built[sp[c]] : i # agent[c] => b[i] = built[sp[c]][i]
  OBVIOUS
<1> HIDE DEF b
<1>3. QED
  BY <1>1, <1>2 DEF TypeOK, BuiltTypes

\* The other steps of a caller.
LEMMA QuietCaller ==
    ASSUME NEW c \in Callers, CallerStep(c)
    PROVE  /\ Publish(c) \/ UNCHANGED <<cached, alive>>
           /\ Publish(c) \/ Attach(c) \/ UNCHANGED built
           /\ Publish(c) \/ Lock(c) \/ Load(c) \/ UNCHANGED rmu
           /\ UNCHANGED <<exists, ver, op, half, moved, dropped, user, agent, kind>>
           /\ Publish(c) \/ Attach(c) \/ UNCHANGED raced
<1> USE DEF reg, db, ghosts
<1>1. CASE Get(c)
  BY <1>1 DEF Get
<1>2. CASE Touch(c)
  BY <1>2 DEF Touch
<1>3. CASE Lock(c)
  BY <1>3 DEF Lock
<1>4. CASE Load(c)
  BY <1>4 DEF Load
<1>5. CASE Publish(c)
  BY <1>5 DEF Publish
<1>6. CASE Match(c)
  BY <1>6 DEF Match
<1>7. CASE EnsureLock(c)
  BY <1>7 DEF EnsureLock
<1>8. CASE GetAgent(c)
  BY <1>8 DEF GetAgent
<1>9. CASE Attach(c)
  BY <1>9 DEF Attach
<1>10. CASE Attached(c)
  BY <1>10 DEF Attached
<1>11. CASE RunTask(c)
  BY <1>11 DEF RunTask
<1>12. QED
  BY <1>1, <1>2, <1>3, <1>4, <1>5, <1>6, <1>7, <1>8, <1>9, <1>10, <1>11
     DEF CallerStep

LEMMA SoundCaller ==
    ASSUME RegInv, NEW c \in Callers, CallerStep(c)
    PROVE  RegSound' /\ OpSound'
<1>a. TypeOK /\ RegSound /\ OpSound /\ At(c)
  BY DEF RegInv
<1>b. op' = op
  BY QuietCaller
<1>1. CASE Publish(c)
  <2> DEFINE n == Unused
  <2>a. /\ n \in Spaces /\ n # None /\ n \notin Used /\ n \notin Cached
        /\ built'[n] = draft[c]
        /\ \A s \in Spaces : s \in Used => s # n /\ built'[s] = built[s]
        /\ \A s \in Spaces : s \notin Used /\ s # n => built'[s] = << >>
        /\ \A u \in Users : cached'[u] = IF u = user[c] THEN n ELSE cached[u]
        /\ alive' = alive \cup {n}
    BY <1>a, <1>1, Published
  <2>b. /\ cached[user[c]] = None /\ user[c] \in Users
        /\ \A u \in Users : u \in DOMAIN draft[c] <=> u = user[c]
    BY <1>a, <1>1 DEF At, Publish, TypeOK, CallTypes
  <2>c. \A s \in alive : s \in Used /\ s \in Spaces
    BY <1>a, UsedHas DEF TypeOK, RegTypes
  <2> HIDE DEF n
  <2>1. ASSUME NEW s PROVE s \in alive' <=> s \in Cached'
    <3>1. s \in Cached' <=> s # None /\ \E u \in Users : s = cached'[u]
      BY DEF Cached
    <3>2. s \in alive <=> s # None /\ \E u \in Users : s = cached[u]
      BY <1>a, CachedHas DEF RegSound
    <3>3. QED
      BY <2>a, <2>b, <3>1, <3>2
  <2>2. alive' = Cached'
    BY <2>1
  <2>3. ASSUME NEW u \in Users, cached'[u] # None
        PROVE  u \in DOMAIN built'[cached'[u]]
    <3>1. CASE u = user[c]
      BY <2>a, <2>b, <3>1
    <3>2. CASE u # user[c]
      <4>1. cached'[u] = cached[u] /\ u \in DOMAIN built[cached[u]]
        BY <1>a, <2>a, <2>3, <3>2 DEF RegSound, Holds
      <4>2. cached[u] \in Cached
        BY <2>3, <4>1, CachedHas
      <4>3. QED
        BY <1>a, <2>a, <2>c, <4>1, <4>2 DEF RegSound
    <3>3. QED
      BY <3>1, <3>2
  <2>4. ASSUME NEW s \in Spaces, NEW u \in Users, NEW v \in Users,
               u \in DOMAIN built'[s], v \in DOMAIN built'[s]
        PROVE  u = v
    <3>1. DOMAIN << >> = {}
      OBVIOUS
    <3>2. QED
      BY <1>a, <2>a, <2>b, <2>4, <3>1 DEF RegSound, Holds
  <2>5. OpSound'
    <3>1. ASSUME NEW a \in Admins, NEW s \in op[a].todo
          PROVE  \E u \in Users : u \in DOMAIN built'[s]
      <4>1. s \in Used /\ s \in Spaces
        BY <1>a, UsedHas DEF TypeOK, DbTypes, HandlerOps
      <4>2. QED
        BY <1>a, <2>a, <4>1 DEF OpSound, Holds
    <3>2. QED
      BY <1>a, <1>b, <3>1 DEF OpSound, Holds
  <2>6. QED
    BY <2>2, <2>3, <2>4, <2>5 DEF RegSound, Holds
<1>2. CASE Attach(c)
  <2>1. agent[c] \notin Users
    BY <1>a, Apart DEF TypeOK, CallTypes
  <2>2. \A s \in Spaces, u \in Users : u \in DOMAIN built'[s] <=> u \in DOMAIN built[s]
    BY <1>a, <1>2, <2>1, Attaches
  <2>3. UNCHANGED <<cached, alive>>
    BY <1>2 DEF Attach, reg
  <2>4. \A u \in Users : cached[u] # None => cached[u] \in Spaces
    BY <1>a DEF TypeOK, RegTypes
  <2>5. \A a \in Admins : op[a].todo \subseteq Spaces
    BY <1>a DEF TypeOK, DbTypes, HandlerOps
  <2>6. RegSound'
    BY <1>a, <2>2, <2>3, <2>4 DEF RegSound, Holds, Cached
  <2>7. OpSound'
    BY <1>a, <1>b, <2>2, <2>5 DEF OpSound, Holds
  <2>8. QED
    BY <2>6, <2>7
<1>3. CASE UNCHANGED <<cached, alive, built>>
  BY <1>a, <1>b, <1>3 DEF RegSound, OpSound, Holds, Cached
<1>4. QED
  BY <1>1, <1>2, <1>3, QuietCaller

LEMMA OwnAt ==
    ASSUME RegInv, NEW c \in Callers, CallerStep(c)
    PROVE  At(c)'
<1>a. TypeOK /\ CallTypes /\ At(c) /\ cached[user[c]] \in Spaces \cup {None}
  BY DEF RegInv, TypeOK, CallTypes, RegTypes
<1> USE <1>a DEF CallTypes, At, Goto, End, Found, Again, Over
<1>1. CASE Get(c)
  BY <1>1 DEF Get, reg
<1>2. CASE Touch(c)
  BY <1>2 DEF Touch
<1>3. CASE Lock(c)
  BY <1>3 DEF Lock, reg
<1>4. CASE Load(c)
  <2>1. \A u \in Users : u \in {user[c], System} \cup {g \in exists : OwnerOf[g] = user[c]}
                              <=> u = user[c]
    BY Apart DEF TypeOK, DbTypes
  <2>2. CASE pc'[c] = "failed"
    BY <1>4, <2>2 DEF Load
  <2>3. CASE pc'[c] # "failed"
    <3> DEFINE D == {user[c], System} \cup {g \in exists : OwnerOf[g] = user[c]}
               d == [i \in D |-> ver[i]]
    <3>1. draft' = [draft EXCEPT ![c] = d] /\ pc' = [pc EXCEPT ![c] = "publish"]
          /\ UNCHANGED <<user, cached, rmu, sp, own, stage>>
      BY <1>4, <2>3 DEF Load, reg
    <3>2. DOMAIN d = D
      OBVIOUS
    <3>3. draft'[c] = d
      BY <3>1 DEF TypeOK, BuiltTypes
    <3> HIDE DEF d
    <3>4. \A u \in Users : u \in DOMAIN draft'[c] <=> u = user[c]
      BY <2>1, <3>2, <3>3
    <3>5. pc[c] = "load"
      BY <1>4 DEF Load
    <3>6. QED
      BY <3>1, <3>4, <3>5
  <2>4. QED
    BY <2>2, <2>3
<1>5. CASE Publish(c)
  <2>1. pc' = [pc EXCEPT ![c] = "use"] /\ sp' = [sp EXCEPT ![c] = Unused]
        /\ Unused # None /\ UNCHANGED <<own, stage>>
    BY <1>5, Published DEF RegInv
  <2>2. pc[c] = "publish"
    BY <1>5 DEF Publish
  <2>3. QED
    BY <2>1, <2>2
<1>6. CASE Match(c)
  BY <1>6 DEF Match
<1>7. CASE EnsureLock(c)
  BY <1>7 DEF EnsureLock, Ensuring
<1>8. CASE GetAgent(c)
  BY <1>8 DEF GetAgent
<1>9. CASE Attach(c)
  BY <1>9 DEF Attach
<1>10. CASE Attached(c)
  BY <1>10 DEF Attached
<1>11. CASE RunTask(c)
  BY <1>11 DEF RunTask
<1>12. QED
  BY <1>1, <1>2, <1>3, <1>4, <1>5, <1>6, <1>7, <1>8, <1>9, <1>10, <1>11
     DEF CallerStep

LEMMA OtherAt ==
    ASSUME RegInv, NEW c \in Callers, CallerStep(c), NEW o \in Callers, o # c
    PROVE  At(o)'
<1>a. TypeOK /\ At(o) /\ At(c)
  BY DEF RegInv
<1>1. UNCHANGED <<pc[o], kind[o], user[o], agent[o], stage[o], sp[o], own[o], draft[o]>>
  BY <1>a, CallerFrame
<1>2. ASSUME pc[o] \in {"load", "publish"} PROVE rmu' = o /\ cached'[user[o]] = None
  <2>1. rmu = o /\ cached[user[o]] = None /\ rmu # Free
    BY <1>a, <1>2, Apart DEF At
  <2>2. ~Publish(c) /\ ~Load(c)
    BY <1>a, <2>1 DEF Publish, Load, At
  <2>3. ~Lock(c)
    BY <2>1 DEF Lock
  <2>4. QED
    BY <2>1, <2>2, <2>3, QuietCaller
<1>3. QED
  BY <1>a, <1>1, <1>2 DEF At

LEMMA RegInvInit == Init => RegInv
<1> SUFFICES ASSUME Init PROVE RegInv
  OBVIOUS
<1>1. RegSound
  BY DEF Init, RegSound, Cached, Holds
<1>2. OpSound
  BY DEF Init, OpSound
<1>3. \A c \in Callers : At(c)
  BY DEF Init, At, Over
<1>4. QED
  BY <1>1, <1>2, <1>3, TypeInit DEF RegInv

\* A handler's list is made of the registry's spaces, or gets shorter.
LEMMA AdminOps ==
    ASSUME TypeOK, RegSound, OpSound, NEW a \in Admins, AdminStep(a)
    PROVE  OpSound'
<1>a. \A s : s \in Cached => s \in Spaces /\ \E u \in Users : Holds(s, u)
  BY CachedHas DEF RegSound, TypeOK, RegTypes
<1>b. built' = built
  BY AdminDrops
<1>c. \A o \in Admins : op[o] \in HandlerOps
  BY DEF TypeOK, DbTypes
<1>1. ASSUME Idle(a) PROVE OpSound'
  BY <1>b, <1>1 DEF Idle, OpSound, Holds, TypeOK, DbTypes
<1>2. ASSUME NEW T, op' = [op EXCEPT ![a] = [op[a] EXCEPT !.todo = T]]
                    \/ op' = [op EXCEPT ![a] = [op[a] EXCEPT !.pc = "drop", !.todo = T]],
             \A s \in T : \E u \in Users : Holds(s, u)
      PROVE  OpSound'
  <2>1. op'[a].todo = T /\ op'[a].kind = op[a].kind /\ op'[a].item = op[a].item
    <3>1. op[a] \in HandlerOps /\ DOMAIN op = Admins
      BY <1>c DEF TypeOK, DbTypes
    <3>2. \/ op'[a] = [op[a] EXCEPT !.todo = T]
          \/ op'[a] = [op[a] EXCEPT !.pc = "drop", !.todo = T]
      BY <1>2, <3>1
    <3>3. QED
      BY <3>1, <3>2 DEF HandlerOps
  <2>2. \A o \in Admins : o # a => op'[o] = op[o]
    BY <1>2 DEF TypeOK, DbTypes
  <2>3. QED
    BY <1>b, <1>2, <2>1, <2>2 DEF OpSound, Holds
<1>3. CASE TellUser(a)
  BY <1>1, <1>3 DEF TellUser
<1>4. CASE TellAll(a)
  <2>1. CASE op' = [op EXCEPT ![a].pc = "drop", ![a].todo = Cached]
    <3>1. op' = [op EXCEPT ![a] = [op[a] EXCEPT !.pc = "drop", !.todo = Cached]]
      BY <2>1
    <3>2. QED
      BY <1>a, <1>2, <3>1
  <2>2. QED
    BY <1>1, <1>4, <2>1 DEF TellAll
<1>5. ASSUME NEW s \in op[a].todo, Drop(a, s) PROVE OpSound'
  <2>1. CASE op' = [op EXCEPT ![a].todo = @ \ {s}]
    <3>1. op' = [op EXCEPT ![a] = [op[a] EXCEPT !.todo = op[a].todo \ {s}]]
      BY <2>1
    <3>2. \A x \in op[a].todo \ {s} : \E u \in Users : Holds(x, u)
      BY DEF OpSound
    <3>3. QED
      BY <1>2, <3>1, <3>2
  <2>2. QED
    BY <1>1, <1>5, <2>1 DEF Drop
<1>6. QED
  BY <1>3, <1>4, <1>5 DEF AdminStep

LEMMA AtAfterDrop ==
    ASSUME TypeOK, NEW c \in Callers, At(c), NEW us \in SUBSET Users, DropUsers(us),
           UNCHANGED <<rmu, pc, user, draft, sp, own, stage>>
    PROVE  At(c)'
<1>1. pc[c] \notin {"load", "publish"}
  BY Apart DEF At, DropUsers
<1>2. QED
  BY <1>1 DEF At

LEMMA RegInvNext ==
    ASSUME RegInv, [Next]_vars
    PROVE  RegInv'
<1>a. TypeOK /\ RegSound /\ OpSound /\ \A c \in Callers : At(c)
  BY DEF RegInv
<1>b. TypeOK'
  BY <1>a, TypeNext
<1>1. ASSUME NEW c \in Callers, CallerStep(c) PROVE RegInv'
  <2>1. \A o \in Callers : At(o)'
    BY <1>1, OwnAt, OtherAt
  <2>2. QED
    BY <1>b, <1>1, <2>1, SoundCaller DEF RegInv
<1>2. ASSUME NEW us \in SUBSET Users, DropUsers(us), OpSound',
             UNCHANGED <<built, rmu, pc, user, draft, sp, own, stage>>
      PROVE  RegInv'
  BY <1>a, <1>b, <1>2, AtAfterDrop, DropSound DEF RegInv
<1>3. ASSUME UNCHANGED <<cached, alive, built, rmu, locals>>, OpSound'
      PROVE  RegInv'
  BY <1>a, <1>b, <1>3 DEF RegInv, RegSound, Cached, Holds, At, locals
<1>4. ASSUME NEW a \in Admins, AdminStep(a) PROVE RegInv'
  <2>1. OpSound'
    BY <1>a, <1>4, AdminOps
  <2>2. UNCHANGED <<built, rmu, locals>>
    BY <1>4, AdminDrops
  <2>3. UNCHANGED <<built, rmu, pc, user, draft, sp, own, stage>>
    BY <2>2 DEF locals
  <2>4. QED
    BY <1>a, <1>2, <1>3, <1>4, <2>1, <2>2, <2>3, AdminDropsUsers
<1>5. CASE EvictIdle
  <2>1. OpSound' /\ UNCHANGED <<built, rmu, pc, user, draft, sp, own, stage>>
    BY <1>a, <1>5 DEF EvictIdle, OpSound, Holds, locals
  <2>2. idle \in SUBSET Users
    BY <1>a DEF TypeOK, RegTypes
  <2>3. QED
    BY <1>2, <1>5, <2>1, <2>2 DEF EvictIdle
<1>6. ASSUME NEW u \in Users, Age(u) PROVE RegInv'
  <2>1. OpSound'
    BY <1>a, <1>6 DEF Age, OpSound, Holds
  <2>2. QED
    BY <1>3, <1>6, <2>1 DEF Age
<1>7. ASSUME NEW a \in Admins, NEW k, NEW i, Write(a, k, i), k = "create" => i \in Agents
      PROVE  RegInv'
  <2>1. op' = [op EXCEPT ![a] = [pc |-> "tell", kind |-> k, item |-> i, todo |-> {}]]
        /\ built' = built
    BY <1>7 DEF Write
  <2>2. OpSound'
    BY <1>a, <1>7, <2>1 DEF OpSound, Holds, TypeOK, DbTypes
  <2>3. QED
    BY <1>3, <1>7, <2>2 DEF Write, reg
<1>8. ASSUME NEW a \in Admins, FailHalfway(a) PROVE RegInv'
  <2>1. OpSound'
    BY <1>a, <1>8 DEF FailHalfway, Idle, OpSound, Holds, TypeOK, DbTypes
  <2>2. QED
    BY <1>3, <1>8, <2>1 DEF FailHalfway, reg
<1>9. ASSUME NEW c \in Callers, NEW u \in Users, NEW g \in Agents, NEW k \in Kinds[c],
             Begin(c, k, u, g)
      PROVE  RegInv'
  <2>1. RegSound' /\ OpSound'
    BY <1>a, <1>9 DEF Begin, RegSound, OpSound, Cached, Holds, reg
  <2>2. ASSUME NEW o \in Callers PROVE At(o)'
    <3>1. At(o)
      BY <1>a
    <3>2. QED
      BY <1>a, <1>9, <3>1 DEF Begin, At, Goto, TypeOK, CallTypes, Over, reg
  <2>3. QED
    BY <1>b, <2>1, <2>2 DEF RegInv
<1>10. CASE UNCHANGED vars
  <2>1. OpSound'
    BY <1>a, <1>10 DEF vars, OpSound, Holds
  <2>2. QED
    BY <1>3, <1>10, <2>1 DEF vars, reg
<1>11. QED
  BY <1>1, <1>4, <1>5, <1>6, <1>7, <1>8, <1>9, <1>10
     DEF Next, Save, CreateAgent, DeleteAgent

THEOREM RegHolds == Spec => []RegInv
  BY RegInvInit, RegInvNext, PTL DEF Spec
-----------------------------------------------------------------------------
(* The spaces are up to date. *)

\* What f was built from is not newer than the rows, and older than those of
\* an agent that was deleted.
Older(f) == \A i \in DOMAIN f : f[i] <= ver[i] /\ (i \in Agents \ exists => f[i] < ver[i])

OldInv == /\ \A s \in Spaces : Older(built[s])
          /\ \A c \in Callers : Older(draft[c])

\* A handler has written i, and is still to ask which spaces have it; or
\* failed before.
Pending(i) ==
    \/ i \in half
    \/ \E a \in Admins : op[a].item = i /\ op[a].kind # "create" /\ op[a].pc = "tell"

\* A handler that has written i is still to look at space s.
Listed(s, i) ==
    \E a \in Admins : /\ op[a].item = i /\ op[a].kind # "create"
                      /\ op[a].pc = "drop" /\ s \in op[a].todo

Current(s, i) == \/ built[s][i] = ver[i]
                 \/ Pending(i) \/ <<s, i>> \in raced \/ Listed(s, i)

\* Every space of the registry, and every draft of one, is current.  Fresh
\* alone is not kept: a handler excuses the spaces on its list only, and a
\* draft only before it has made one.
NewInv ==
    /\ \A s \in Cached : \A i \in DOMAIN built[s] : Current(s, i)
    /\ \A c \in Callers : pc[c] = "publish" =>
          \A i \in DOMAIN draft[c] : draft[c][i] = ver[i] \/ Pending(i)

FreshInv == OldInv /\ NewInv
-----------------------------------------------------------------------------
LEMMA OlderCaller ==
    ASSUME RegInv, OldInv, NEW c \in Callers, CallerStep(c)
    PROVE  OldInv'
<1>a. TypeOK /\ CallTypes /\ BuiltTypes /\ DbTypes
  BY DEF RegInv, TypeOK
<1>b. UNCHANGED <<exists, ver>>
  BY QuietCaller
<1>c. \A f : Older(f) => Older(f)'
  BY <1>b DEF Older
<1>d. \A i \in Items : ver[i] \in Nat
  BY <1>a DEF DbTypes
<1>e. Older(<< >>)
  BY DEF Older
<1>1. ASSUME NEW o \in Callers PROVE Older(draft'[o]) /\ Older(draft[o])
  <2>0. Older(draft[o])
    BY DEF OldInv
  <2>1. CASE o # c
    BY <1>a, <2>0, <2>1, CallerFrame
  <2>2. CASE Load(c) /\ o = c
    <3> DEFINE D == {user[c], System} \cup {g \in exists : OwnerOf[g] = user[c]}
               d == [i \in D |-> ver[i]]
    <3>1. draft'[c] = draft[c] \/ draft'[c] = d
      BY <1>a, <2>2 DEF Load, BuiltTypes
    <3>2. Older(d)
      <4>1. \A i \in D : i \in Items /\ i \notin Agents \ exists
        BY <1>a, Apart DEF CallTypes, DbTypes
      <4>2. QED
        BY <1>d, <4>1 DEF Older
    <3> HIDE DEF d
    <3>3. QED
      BY <2>0, <2>2, <3>1, <3>2
  <2>3. CASE GetAgent(c) /\ o = c
    <3> DEFINE d == [i \in {agent[c]} |-> ver[i]]
    <3>1. draft'[c] = draft[c] \/ (draft'[c] = d /\ agent[c] \in exists)
      BY <1>a, <2>3 DEF GetAgent, BuiltTypes
    <3>2. agent[c] \in exists => Older(d)
      BY <1>a, <1>d, Apart DEF CallTypes, Older
    <3> HIDE DEF d
    <3>3. QED
      BY <2>0, <2>3, <3>1, <3>2
  <2>4. CASE draft'[o] \in {draft[o], << >>}
    BY <1>e, <2>0, <2>4
  <2>5. QED
    BY <1>a, <2>1, <2>2, <2>3, <2>4
       DEF CallerStep, Get, Touch, Lock, Publish, Match, EnsureLock, Attach,
           Attached, RunTask, BuiltTypes
<1>2. ASSUME NEW s \in Spaces PROVE Older(built'[s])
  <2>0. Older(built[s])
    BY DEF OldInv
  <2>1. CASE Publish(c)
    <3>1. built'[s] \in {draft[c], built[s], << >>}
      BY <2>1 DEF Publish
    <3>2. QED
      BY <1>1, <1>e, <2>0, <3>1
  <2>2. CASE Attach(c)
    <3>1. CASE s = sp[c]
      <4>1. /\ DOMAIN built'[s] = DOMAIN built[s] \cup {agent[c]}
            /\ built'[s][agent[c]] = draft[c][agent[c]]
            /\ \A i \in DOMAIN built[s] : i # agent[c] => built'[s][i] = built[s][i]
        BY <1>a, <2>2, <3>1, Attaches
      <4>2. agent[c] \in DOMAIN draft[c]
        BY <1>a, <2>2 DEF Attach, BuiltTypes
      <4>3. Older(draft[c])
        BY <1>1
      <4>4. QED
        BY <2>0, <4>1, <4>2, <4>3 DEF Older
    <3>2. CASE s # sp[c]
      BY <1>a, <2>0, <2>2, <3>2, Attaches
    <3>3. QED
      BY <3>1, <3>2
  <2>3. QED
    BY <2>0, <2>1, <2>2, QuietCaller
<1>3. /\ \A s \in Spaces : Older(built[s])'
      /\ \A o \in Callers : Older(draft[o])'
  BY <1>1, <1>2, <1>b DEF Older
<1>4. QED
  BY <1>3 DEF OldInv

LEMMA OlderWrite ==
    ASSUME TypeOK, OldInv, NEW a \in Admins, NEW k, NEW i \in Items, Write(a, k, i),
           UNCHANGED draft,
           exists \subseteq exists' \/ (i \in Agents /\ exists' = exists \ {i})
    PROVE  OldInv'
<1>1. /\ \A j \in Items : ver'[j] = IF j = i THEN ver[j] + 1 ELSE ver[j]
      /\ \A j \in Items : ver[j] \in Nat
      /\ built' = built
  BY DEF Write, TypeOK, DbTypes
<1>2. ASSUME NEW f, Versioned(f), Older(f) PROVE Older(f)'
  <2>1. ASSUME NEW j \in DOMAIN f
        PROVE  f[j] <= ver'[j] /\ (j \in Agents \ exists' => f[j] < ver'[j])
    <3>1. f[j] \in Nat /\ j \in Items /\ f[j] <= ver[j]
          /\ (j \in Agents \ exists => f[j] < ver[j])
      BY <1>2 DEF Older, Versioned
    <3>2. CASE j = i
      BY <1>1, <3>1, <3>2
    <3>3. CASE j # i
      BY <1>1, <3>1, <3>3
    <3>4. QED
      BY <3>2, <3>3
  <2>2. QED
    BY <2>1 DEF Older
<1>3. QED
  BY <1>1, <1>2 DEF OldInv, TypeOK, BuiltTypes

LEMMA OlderNext ==
    ASSUME RegInv, OldInv, [Next]_vars
    PROVE  OldInv'
<1>a. TypeOK /\ TypeOK'
  BY TypeNext DEF RegInv
<1>1. ASSUME NEW c \in Callers, CallerStep(c) PROVE OldInv'
  BY <1>1, OlderCaller
<1>2. ASSUME UNCHANGED <<exists, ver, built, draft>> PROVE OldInv'
  BY <1>2 DEF OldInv, Older
<1>3. ASSUME NEW a \in Admins, AdminStep(a) PROVE OldInv'
  BY <1>2, <1>3, AdminDrops DEF locals
<1>4. CASE EvictIdle \/ \E u \in Users : Age(u)
  BY <1>2, <1>4 DEF EvictIdle, Age, db, locals
<1>5. ASSUME NEW a \in Admins, NEW i \in Items, Save(a, i) PROVE OldInv'
  <2>1. UNCHANGED draft /\ exists' = exists /\ Write(a, "save", i)
    BY <1>5 DEF Save, Write, locals
  <2>2. QED
    BY <1>a, <2>1, OlderWrite
<1>6. ASSUME NEW a \in Admins, NEW g \in Agents, CreateAgent(a, g) PROVE OldInv'
  <2>1. UNCHANGED draft /\ exists \subseteq exists' /\ Write(a, "create", g)
    BY <1>6 DEF CreateAgent, Write, locals
  <2>2. QED
    BY <1>a, <2>1, OlderWrite, Apart
<1>7. ASSUME NEW a \in Admins, NEW g \in Agents, DeleteAgent(a, g) PROVE OldInv'
  <2>1. UNCHANGED draft /\ exists' = exists \ {g} /\ Write(a, "delete", g)
    BY <1>7 DEF DeleteAgent, Write, locals
  <2>2. QED
    BY <1>a, <2>1, OlderWrite, Apart
<1>8. ASSUME NEW a \in Admins, FailHalfway(a) PROVE OldInv'
  BY <1>2, <1>8 DEF FailHalfway, db, locals
<1>9. ASSUME NEW c \in Callers, NEW u \in Users, NEW g \in Agents, NEW k \in Kinds[c],
             Begin(c, k, u, g)
      PROVE  OldInv'
  BY <1>2, <1>9 DEF Begin, db
<1>10. CASE UNCHANGED vars
  BY <1>2, <1>10 DEF vars, db, locals
<1>11. QED
  BY <1>1, <1>3, <1>4, <1>5, <1>6, <1>7, <1>8, <1>9, <1>10 DEF Next
-----------------------------------------------------------------------------
\* A step of handler a, which has not written i or is not still to tell of
\* it, leaves i's excuses.
LEMMA ExcusesStay ==
    ASSUME NEW a \in Admins, NEW i, \A o \in Admins : o # a => op'[o] = op[o],
           half \subseteq half',
           op[a].item # i \/ op[a].kind = "create" \/ op[a].pc = "idle"
    PROVE  /\ Pending(i) => Pending(i)'
           /\ \A s : Listed(s, i) => Listed(s, i)'
<1>1. ASSUME NEW o \in Admins, op[o].item = i, op[o].kind # "create",
             op[o].pc = "tell" \/ op[o].pc = "drop"
      PROVE  op'[o] = op[o]
  BY <1>1
<1>2. ASSUME Pending(i) PROVE Pending(i)'
  <2>1. CASE i \in half
    BY <2>1 DEF Pending
  <2>2. ASSUME NEW o \in Admins, op[o].item = i, op[o].kind # "create",
               op[o].pc = "tell"
        PROVE  Pending(i)'
    <3>1. op'[o] = op[o]
      BY <1>1, <2>2
    <3>2. QED
      BY <2>2, <3>1 DEF Pending
  <2>3. QED
    BY <1>2, <2>1, <2>2 DEF Pending
<1>3. ASSUME NEW s, Listed(s, i) PROVE Listed(s, i)'
  <2>1. PICK o \in Admins : /\ op[o].item = i /\ op[o].kind # "create"
                            /\ op[o].pc = "drop" /\ s \in op[o].todo
    BY <1>3 DEF Listed
  <2>2. op'[o] = op[o]
    BY <1>1, <2>1
  <2>3. QED
    BY <2>1, <2>2 DEF Listed
<1>4. QED
  BY <1>2, <1>3

\* A step that leaves rows, handlers and builds alone.
LEMMA NewFrame ==
    ASSUME NewInv, UNCHANGED <<ver, op, half, built, raced>>,
           \A s : s \in Cached' => s \in Cached,
           \A c \in Callers : pc'[c] = "publish" =>
               pc[c] = "publish" /\ draft'[c] = draft[c]
    PROVE  NewInv'
  BY DEF NewInv, Current, Pending, Listed

LEMMA NewCaller ==
    ASSUME RegInv, NewInv, NEW c \in Callers, CallerStep(c)
    PROVE  NewInv'
<1>a. TypeOK /\ CallTypes /\ BuiltTypes /\ RegSound /\ At(c)
  BY DEF RegInv, TypeOK
<1>b. UNCHANGED <<ver, op, half>>
  BY QuietCaller
<1>c. \A i : Pending(i)' <=> Pending(i)
  BY <1>b DEF Pending
<1>d. \A s, i : Listed(s, i)' <=> Listed(s, i)
  BY <1>b DEF Listed
<1>1. ASSUME NEW o \in Callers, pc'[o] = "publish", NEW i \in DOMAIN draft'[o]
      PROVE  draft'[o][i] = ver[i] \/ Pending(i)
  <2>1. CASE o # c
    BY <1>a, <1>1, <2>1, CallerFrame DEF NewInv
  <2>2. CASE o = c
    <3>1. Load(c)
      BY <1>a, <1>1, <2>2
         DEF CallerStep, Get, Touch, Lock, Publish, Match, EnsureLock, GetAgent, Attach,
             Attached, RunTask, Goto, End, Found, Again, CallTypes
    <3> DEFINE d == [j \in {user[c], System} \cup {g \in exists : OwnerOf[g] = user[c]}
                       |-> ver[j]]
    <3>2. draft'[c] = d
      BY <1>a, <1>1, <2>2, <3>1 DEF Load, BuiltTypes, CallTypes, End, Goto
    <3>3. QED
      BY <1>1, <2>2, <3>2
  <2>3. QED
    BY <2>1, <2>2
<1>2. ASSUME NEW s \in Cached', NEW i \in DOMAIN built'[s]
      PROVE  \/ built'[s][i] = ver[i]
             \/ Pending(i) \/ <<s, i>> \in raced' \/ Listed(s, i)
  <2>1. CASE Publish(c)
    <3>1. CASE s = Unused
      BY <1>a, <1>2, <2>1, <3>1, Published DEF NewInv, Publish
    <3>2. CASE s # Unused
      <4>1. s \in Cached
        <5>1. PICK u \in Users : s = cached'[u] /\ s # None
          BY <1>2 DEF Cached
        <5>2. s = cached[u]
          BY <1>a, <2>1, <3>2, <5>1, Published
        <5>3. QED
          BY <5>1, <5>2, CachedHas
      <4>2. s \in Used /\ s \in Spaces
        BY <1>a, <4>1, UsedHas DEF RegSound, TypeOK, RegTypes
      <4>3. built'[s] = built[s]
        BY <1>a, <2>1, <4>2, Published
      <4>4. <<s, i>> \in raced => <<s, i>> \in raced'
        BY <2>1, <3>2 DEF Publish
      <4>5. QED
        BY <1>2, <4>1, <4>3, <4>4 DEF NewInv, Current
    <3>3. QED
      BY <3>1, <3>2
  <2>2. CASE Attach(c)
    <3>1. s \in Cached /\ s \in Spaces
      BY <1>a, <1>2, <2>2 DEF Attach, reg, Cached, TypeOK, RegTypes
    <3>2. CASE s = sp[c] /\ i = agent[c]
      <4>1. built'[s][i] = draft[c][i]
        BY <1>a, <2>2, <3>1, <3>2, Attaches
      <4>2. draft[c][i] = ver[i] \/ <<s, i>> \in raced'
        BY <2>2, <3>2 DEF Attach
      <4>3. QED
        BY <4>1, <4>2
    <3>3. CASE s # sp[c] \/ i # agent[c]
      <4>1. i \in DOMAIN built[s] /\ built'[s][i] = built[s][i]
        BY <1>a, <1>2, <2>2, <3>1, <3>3, Attaches
      <4>2. raced \subseteq raced'
        BY <2>2 DEF Attach
      <4>3. QED
        BY <3>1, <4>1, <4>2 DEF NewInv, Current
    <3>4. QED
      BY <3>2, <3>3
  <2>3. CASE UNCHANGED <<cached, built, raced>>
    BY <1>2, <2>3 DEF Cached, NewInv, Current
  <2>4. QED
    BY <2>1, <2>2, <2>3, QuietCaller
<1>3. QED
  BY <1>1, <1>2, <1>b, <1>c, <1>d DEF NewInv, Current

\* A write makes the rows newer than what was built, and excuses that until
\* its handler has told; a new agent's are newer than those of any before it.
LEMMA NewWrite ==
    ASSUME TypeOK, OldInv, NewInv, NEW a \in Admins, NEW k, NEW i \in Items,
           Write(a, k, i), UNCHANGED <<pc, draft>>,
           k = "create" => i \in Agents \ exists
    PROVE  NewInv'
<1>1. /\ \A j \in Items : ver'[j] = IF j = i THEN ver[j] + 1 ELSE ver[j]
      /\ \A j \in Items : ver[j] \in Nat
      /\ UNCHANGED <<built, cached, raced, half>> /\ op[a].pc = "idle"
      /\ op' = [op EXCEPT ![a] = [pc |-> "tell", kind |-> k, item |-> i, todo |-> {}]]
  BY DEF Write, reg, TypeOK, DbTypes
<1>2. \A o \in Admins : o # a => op'[o] = op[o]
  BY <1>1 DEF TypeOK, DbTypes
<1>3. \A j : /\ Pending(j) => Pending(j)'
             /\ \A s : Listed(s, j) => Listed(s, j)'
  BY <1>1, <1>2, ExcusesStay
<1>4. k # "create" => Pending(i)'
  <2>1. op'[a].item = i /\ op'[a].kind = k /\ op'[a].pc = "tell"
    BY <1>1 DEF TypeOK, DbTypes
  <2>2. QED
    BY <2>1 DEF Pending
<1>5. ASSUME NEW f, Versioned(f), Older(f), NEW j \in DOMAIN f, f[j] = ver[j]
      PROVE  f[j] = ver'[j] \/ Pending(j)'
  <2>1. j \in Items
    BY <1>5 DEF Versioned
  <2>2. CASE j # i
    BY <1>1, <1>5, <2>1, <2>2
  <2>3. CASE j = i
    <3>1. k # "create"
      BY <1>1, <1>5, <2>1, <2>3 DEF Older
    <3>2. QED
      BY <1>4, <2>3, <3>1
  <2>4. QED
    BY <2>2, <2>3
<1>6. \A s \in Cached : s \in Spaces
  BY CachedHas DEF TypeOK, RegTypes
<1>7. ASSUME NEW s \in Cached, NEW j \in DOMAIN built[s] PROVE Current(s, j)'
  <2>1. Versioned(built[s]) /\ Older(built[s])
    BY <1>6 DEF OldInv, TypeOK, BuiltTypes
  <2>2. Current(s, j)
    BY DEF NewInv
  <2>3. QED
    BY <1>1, <1>3, <1>5, <2>1, <2>2 DEF Current
<1>8. ASSUME NEW c \in Callers, pc[c] = "publish", NEW j \in DOMAIN draft[c]
      PROVE  draft[c][j] = ver'[j] \/ Pending(j)'
  <2>1. Versioned(draft[c]) /\ Older(draft[c])
    BY DEF OldInv, TypeOK, BuiltTypes
  <2>2. QED
    BY <1>3, <1>5, <1>8, <2>1 DEF NewInv
<1>9. QED
  BY <1>1, <1>7, <1>8 DEF NewInv, Cached

LEMMA NewFail ==
    ASSUME TypeOK, NewInv, NEW a \in Admins, FailHalfway(a)
    PROVE  NewInv'
<1>i. PICK i : i = op[a].item
  OBVIOUS
<1>1. /\ \A o \in Admins : o # a => op'[o] = op[o]
      /\ half' = half \cup {i}
      /\ UNCHANGED <<ver, built, cached, raced, pc, draft>>
  BY <1>i DEF FailHalfway, Idle, db, reg, locals, TypeOK, DbTypes
<1>2. \A j : Pending(j) => Pending(j)'
  <2>1. \A j : j # i => (Pending(j) => Pending(j)')
    BY <1>i, <1>1, ExcusesStay
  <2>2. Pending(i)'
    BY <1>1 DEF Pending
  <2>3. QED
    BY <2>1, <2>2
<1>3. \A s, j : Listed(s, j) => Listed(s, j)' \/ Pending(j)'
  <2>1. \A j : j # i => \A s : Listed(s, j) => Listed(s, j)'
    BY <1>i, <1>1, ExcusesStay
  <2>2. Pending(i)'
    BY <1>1 DEF Pending
  <2>3. QED
    BY <2>1, <2>2
<1>4. QED
  BY <1>1, <1>2, <1>3 DEF NewInv, Current, Cached

\* The last of handler a's spaces is looked at: those that are left without
\* its excuse were dropped or do not have the item.
LEMMA NewTold ==
    ASSUME RegInv, NewInv, NEW a \in Admins, NEW i, i = op[a].item,
           UNCHANGED <<ver, half, built, raced, pc, draft>>,
           \A o \in Admins : o # a => op'[o] = op[o],
           \A s : s \in Cached' => s \in Cached,
           op[a].pc = "tell" => \A c \in Callers : pc[c] # "publish",
           op[a].kind # "create" =>
               \A s \in Cached' : i \in DOMAIN built[s] => Listed(s, i)'
                  \/ (op[a].pc = "drop" /\ s \notin op[a].todo)
    PROVE  NewInv'
<1>1. \A j : j # i \/ op[a].kind = "create" =>
          /\ Pending(j) => Pending(j)'
          /\ \A s : Listed(s, j) => Listed(s, j)'
  BY ExcusesStay
<1>2. \A o \in Admins : o # a => op'[o] = op[o]
  OBVIOUS
<1>3. ASSUME op[a].pc # "tell" PROVE \A j : Pending(j) => Pending(j)'
  <2>1. ASSUME NEW j, NEW o \in Admins, op[o].item = j, op[o].kind # "create",
               op[o].pc = "tell"
        PROVE  Pending(j)'
    <3>1. op'[o] = op[o]
      BY <1>2, <1>3, <2>1
    <3>2. QED
      BY <2>1, <3>1 DEF Pending
  <2>2. \A j : j \in half => Pending(j)'
    BY DEF Pending
  <2>3. QED
    BY <2>1, <2>2 DEF Pending
<1>4. ASSUME NEW s \in Cached', NEW j \in DOMAIN built[s] PROVE Current(s, j)'
  <2>1. Current(s, j)
    BY DEF NewInv
  <2>2. CASE j # i \/ op[a].kind = "create"
    BY <1>1, <2>1, <2>2 DEF Current
  <2>3. CASE j = i /\ op[a].kind # "create"
    <3>1. CASE Listed(s, i)'
      BY <2>3, <3>1 DEF Current
    <3>2. CASE op[a].pc = "drop" /\ s \notin op[a].todo
      <4>1. Listed(s, i) => Listed(s, i)'
        <5>1. ASSUME NEW o \in Admins, op[o].item = i, op[o].kind # "create",
                     op[o].pc = "drop", s \in op[o].todo
              PROVE  Listed(s, i)'
          <6>1. op'[o] = op[o]
            BY <1>2, <3>2, <5>1
          <6>2. QED
            BY <5>1, <6>1 DEF Listed
        <5>2. QED
          BY <5>1 DEF Listed
      <4>2. Pending(i) => Pending(i)'
        BY <1>3, <3>2
      <4>3. QED
        BY <2>1, <2>3, <4>1, <4>2 DEF Current
    <3>3. QED
      BY <2>3, <3>1, <3>2
  <2>4. QED
    BY <2>2, <2>3
<1>5. ASSUME NEW c \in Callers, pc[c] = "publish", NEW j \in DOMAIN draft[c]
      PROVE  draft[c][j] = ver[j] \/ Pending(j)'
  BY <1>3, <1>5 DEF NewInv
<1>6. QED
  BY <1>4, <1>5 DEF NewInv

LEMMA NewAdmin ==
    ASSUME RegInv, NewInv, NEW a \in Admins, AdminStep(a)
    PROVE  NewInv'
<1>i. PICK i : i = op[a].item
  OBVIOUS
<1>a. TypeOK /\ RegSound /\ OpSound /\ \A c \in Callers : At(c)
  BY DEF RegInv
<1>b. UNCHANGED <<ver, half, built, raced, pc, draft>>
  BY AdminDrops DEF locals
<1>c. rmu = Free => \A c \in Callers : pc[c] # "publish"
  BY <1>a, Apart DEF At
<1>d. DOMAIN op = Admins /\ op[a] \in HandlerOps
  BY <1>a DEF TypeOK, DbTypes
<1>e. \A o \in Admins : o # a => op'[o] = op[o]
  BY <1>d DEF AdminStep, TellUser, TellAll, Drop, Idle
<1>f. \A s : s \in Cached' => s \in Cached
  <2>1. CASE UNCHANGED cached
    BY <2>1 DEF Cached
  <2>2. ASSUME NEW us \in SUBSET Users, DropUsers(us) PROVE \A s : s \in Cached' => s \in Cached
    BY <1>a, <1>b, <2>2, DropSound DEF Cached
  <2>3. QED
    BY <1>a, <2>1, <2>2, AdminDropsUsers
<1>g. \A s \in Cached : s \in Spaces /\ \E v \in Users : s = cached[v] /\ Holds(s, v)
  BY <1>a, CachedHas DEF RegSound, TypeOK, RegTypes
<1>1. CASE TellUser(a)
  <2>1. op[a].kind # "create" => i \in Users /\ DropUsers({i})
    BY <1>i, <1>1 DEF TellUser
  <2>2. rmu = Free
    BY <1>1 DEF TellUser, DropUsers
  <2>3. ASSUME op[a].kind # "create", NEW s \in Cached', i \in DOMAIN built[s]
        PROVE  FALSE
    <3>1. PICK v \in Users : s = cached'[v] /\ s # None
      BY <2>3 DEF Cached
    <3>2. v # i /\ s = cached[v]
      BY <1>a, <1>b, <2>1, <2>3, <3>1, DropSound
    <3>3. s \in Spaces /\ Holds(s, v) /\ Holds(s, i)
      BY <1>a, <2>3, <3>1, <3>2 DEF RegSound, Holds, TypeOK, RegTypes
    <3>4. QED
      BY <1>a, <2>1, <2>3, <3>2, <3>3 DEF RegSound
  <2>4. QED
    BY <1>b, <1>c, <1>e, <1>f, <2>2, <2>3, <1>i, NewTold
<1>2. CASE TellAll(a)
  <2>1. rmu = Free /\ op[a].pc = "tell" /\ op[a].kind # "create" /\ UNCHANGED cached
    BY <1>2 DEF TellAll, reg
  <2>2. ASSUME NEW s \in Cached' PROVE Listed(s, i)'
    <3>1. s \in Cached
      BY <1>f
    <3>2. op' = [op EXCEPT ![a].pc = "drop", ![a].todo = Cached]
      BY <1>2, <3>1 DEF TellAll
    <3>3. op'[a] = [op[a] EXCEPT !.pc = "drop", !.todo = Cached]
      BY <1>d, <3>2
    <3>4. op'[a].item = i /\ op'[a].kind = op[a].kind
          /\ op'[a].pc = "drop" /\ op'[a].todo = Cached
      BY <1>i, <1>d, <3>3 DEF HandlerOps
    <3>5. QED
      BY <2>1, <3>1, <3>4 DEF Listed
  <2>3. QED
    BY <1>b, <1>c, <1>e, <1>f, <2>1, <2>2, <1>i, NewTold
<1>3. ASSUME NEW t \in op[a].todo, Drop(a, t) PROVE NewInv'
  <2>1. op[a].pc = "drop"
    BY <1>3 DEF Drop
  <2>2. ASSUME op[a].kind # "create", NEW s \in Cached', i \in DOMAIN built[s]
        PROVE  Listed(s, i)' \/ s \notin op[a].todo
    <3>1. CASE s = t
      <4>1. DropUsers({HolderOf(t)})
        BY <1>i, <1>3, <2>2, <3>1 DEF Drop, Concerns, Holds
      <4>2. PICK v \in Users : s = cached'[v] /\ s # None
        BY <2>2 DEF Cached
      <4>3. HolderOf(t) \in Users /\ Holds(t, HolderOf(t))
        BY <1>a DEF OpSound, HolderOf
      <4>4. v # HolderOf(t) /\ s = cached[v]
        BY <1>a, <1>b, <4>1, <4>2, <4>3, DropSound
      <4>5. s \in Spaces /\ Holds(s, v)
        BY <1>a, <4>2, <4>4 DEF RegSound, TypeOK, RegTypes
      <4>6. QED
        BY <1>a, <3>1, <4>3, <4>4, <4>5 DEF RegSound
    <3>2. CASE s # t /\ s \in op[a].todo
      <4>1. op' = [op EXCEPT ![a].todo = @ \ {t}]
        BY <1>3, <3>2 DEF Drop
      <4>2. op'[a] = [op[a] EXCEPT !.todo = op[a].todo \ {t}]
        BY <1>d, <4>1
      <4>3. op'[a].item = i /\ op'[a].kind = op[a].kind
            /\ op'[a].pc = "drop" /\ op'[a].todo = op[a].todo \ {t}
        BY <1>i, <1>d, <2>1, <4>2 DEF HandlerOps
      <4>4. QED
        BY <2>2, <3>2, <4>3 DEF Listed
    <3>3. QED
      BY <3>1, <3>2
  <2>3. QED
    BY <1>b, <1>e, <1>f, <2>1, <2>2, <1>i, NewTold
<1>4. QED
  BY <1>1, <1>2, <1>3 DEF AdminStep

LEMMA NewNext ==
    ASSUME RegInv, FreshInv, [Next]_vars
    PROVE  NewInv'
<1>a. TypeOK /\ RegSound /\ OldInv /\ NewInv
  BY DEF RegInv, FreshInv
<1>1. ASSUME NEW c \in Callers, CallerStep(c) PROVE NewInv'
  BY <1>a, <1>1, NewCaller
<1>2. ASSUME NEW a \in Admins, AdminStep(a) PROVE NewInv'
  BY <1>a, <1>2, NewAdmin
<1>3. CASE EvictIdle
  <2>1. idle \in SUBSET Users /\ DropUsers(idle) /\ UNCHANGED built
    BY <1>a, <1>3 DEF EvictIdle, TypeOK, RegTypes
  <2>2. \A u \in Users : cached'[u] \in {None, cached[u]}
    BY <1>a, <2>1, DropSound
  <2>3. \A s : s \in Cached' => s \in Cached
    BY <2>2 DEF Cached
  <2>4. QED
    BY <1>a, <1>3, <2>3, NewFrame DEF EvictIdle, db, locals
<1>4. ASSUME UNCHANGED <<ver, op, half, built, raced, cached, pc, draft>> PROVE NewInv'
  <2>1. Cached' = Cached
    BY <1>4 DEF Cached
  <2>2. QED
    BY <1>a, <1>4, <2>1, NewFrame
<1>5. ASSUME NEW u \in Users, Age(u) PROVE NewInv'
  BY <1>4, <1>5 DEF Age, db, locals, ghosts
<1>6. ASSUME NEW a \in Admins, NEW i \in Items, Save(a, i) PROVE NewInv'
  <2>1. Write(a, "save", i) /\ UNCHANGED <<pc, draft>>
    BY <1>6 DEF Save, Write, locals
  <2>2. QED
    BY <1>a, <2>1, NewWrite
<1>7. ASSUME NEW a \in Admins, NEW g \in Agents, CreateAgent(a, g) PROVE NewInv'
  <2>1. Write(a, "create", g) /\ UNCHANGED <<pc, draft>> /\ g \in Agents \ exists
    BY <1>7 DEF CreateAgent, Write, locals
  <2>2. QED
    BY <1>a, <2>1, NewWrite, Apart
<1>8. ASSUME NEW a \in Admins, NEW g \in Agents, DeleteAgent(a, g) PROVE NewInv'
  <2>1. Write(a, "delete", g) /\ UNCHANGED <<pc, draft>>
    BY <1>8 DEF DeleteAgent, Write, locals
  <2>2. QED
    BY <1>a, <2>1, NewWrite, Apart
<1>9. ASSUME NEW a \in Admins, FailHalfway(a) PROVE NewInv'
  BY <1>a, <1>9, NewFail
<1>10. ASSUME NEW c \in Callers, NEW u \in Users, NEW g \in Agents, NEW k \in Kinds[c],
              Begin(c, k, u, g)
       PROVE  NewInv'
  <2>1. Cached' = Cached
    BY <1>10 DEF Begin, Cached, reg
  <2>2. \A o \in Callers : pc'[o] = "publish" => pc[o] = "publish" /\ draft'[o] = draft[o]
    BY <1>a, <1>10 DEF Begin, Goto, TypeOK, CallTypes
  <2>3. QED
    BY <1>a, <1>10, <2>1, <2>2, NewFrame DEF Begin, db
<1>11. CASE UNCHANGED vars
  BY <1>4, <1>11 DEF vars, db, reg, locals, ghosts
<1>12. QED
  BY <1>1, <1>2, <1>3, <1>5, <1>6, <1>7, <1>8, <1>9, <1>10, <1>11 DEF Next

THEOREM FreshHolds == Spec => [](RegInv /\ FreshInv)
<1>1. Init => RegInv /\ FreshInv
  <2> SUFFICES ASSUME Init PROVE RegInv /\ FreshInv
    OBVIOUS
  <2>1. OldInv
    BY DEF Init, OldInv, Older
  <2>2. NewInv
    BY DEF Init, NewInv, Cached
  <2>3. QED
    BY <2>1, <2>2, RegInvInit DEF FreshInv
<1>2. RegInv /\ FreshInv /\ [Next]_vars => RegInv' /\ FreshInv'
  BY RegInvNext, OlderNext, NewNext DEF FreshInv
<1>3. QED
  BY <1>1, <1>2, PTL DEF Spec

\* The spaces whose heartbeats run are those in the registry, and what they
\* were built from has changed only where the handler of the change is still
\* to drop them, has failed half-way, or was passed by an attach.
THEOREM SpacesSoundHolds == Spec => []SpacesSound
<1>1. RegInv /\ FreshInv => SpacesSound
  <2> SUFFICES ASSUME RegInv, FreshInv PROVE SpacesSound
    OBVIOUS
  <2>1. NoOrphan
    BY DEF RegInv, RegSound, NoOrphan
  <2>2. ASSUME NEW s \in Cached, NEW i \in DOMAIN built[s], built[s][i] # ver[i],
               i \notin half, <<s, i>> \notin raced
        PROVE  \E a \in Admins : op[a].pc # "idle" /\ op[a].item = i
    <3>1. Current(s, i)
      BY DEF FreshInv, NewInv
    <3>2. Pending(i) \/ Listed(s, i)
      BY <2>2, <3>1 DEF Current
    <3>3. QED
      BY <2>2, <3>2 DEF Pending, Listed
  <2>3. Fresh
    BY <2>2 DEF Fresh
  <2>4. QED
    BY <2>1, <2>3 DEF SpacesSound
<1>2. QED
  BY <1>1, FreshHolds, PTL
-----------------------------------------------------------------------------
(* A call finds its agent. *)

\* The handler that made g is still to drop the space of its owner.
Creating(g) == \E a \in Admins : op[a].item = g /\ op[a].kind = "create" /\ op[a].pc = "tell"

Has(s, g) == s # None => Holds(s, g)

\* A space that its owner gets has g.
Complete(g) == g \in half \/ Creating(g) \/ Has(cached[OwnerOf[g]], g)

\* So will the space that c is about to publish.
Drawn(c, g) == pc[c] = "publish" /\ OwnerOf[g] = user[c]
                   => g \in half \/ Creating(g) \/ g \in DOMAIN draft[c]

\* A call whose agent nothing has happened to.
Whole(c) == pc[c] \notin Over /\ c \notin moved /\ agent[c] \notin half

\* Its agent is in the spaces it has; an agent of another user's is in the
\* user's space of now once it was attached, and that is the one it has.
OnWay(c) ==
    Whole(c) =>
        /\ agent[c] \in exists /\ ~Creating(agent[c])
        /\ OwnerOf[agent[c]] = user[c] => Has(sp[c], agent[c]) /\ Has(own[c], agent[c])
        /\ OwnerOf[agent[c]] # user[c] /\ c \notin dropped =>
              /\ sp[c] # None => cached[user[c]] = sp[c]
              /\ own[c] # None => cached[user[c]] = own[c]
              /\ stage[c] = "task" \/ pc[c] = "attached"
                    => sp[c] # None /\ Holds(sp[c], agent[c])

Excused(c) ==
    \/ c \in moved \/ agent[c] \in half
    \/ OwnerOf[agent[c]] # user[c] /\ (c \in dropped \/ kind[c] = "direct")

ReachInv ==
    /\ \A g \in exists : Complete(g)
    /\ \A c \in Callers : \A g \in exists : Drawn(c, g)
    /\ \A c \in Callers : OnWay(c)
    /\ \A c \in Callers : pc[c] = "notfound" => Excused(c)

\* A call that does not move stays on its way: its spaces keep their agents,
\* and a new space for its user hides none that it has.
LEMMA OnWayStays ==
    ASSUME NEW c \in Callers, OnWay(c),
           UNCHANGED <<pc[c], user[c], agent[c], stage[c], sp[c], own[c]>>,
           half \subseteq half', c \in moved => c \in moved',
           c \in dropped => c \in dropped',
           pc[c] \notin Over /\ c \notin moved' =>
               \A g : g = agent[c] => /\ g \in exists => g \in exists'
                                      /\ Creating(g)' => Creating(g),
           cached'[user[c]] = cached[user[c]] \/ cached[user[c]] = None
               \/ pc[c] \in Over \/ c \in dropped',
           pc[c] \notin Over => \A s \in {sp[c], own[c]} : s # None =>
               \A i : i \in DOMAIN built[s] => i \in DOMAIN built'[s]
    PROVE  OnWay(c)'
<1>1. PICK g : g = agent[c]
  OBVIOUS
<1>2. PICK u : u = user[c]
  OBVIOUS
<1> SUFFICES ASSUME Whole(c)' PROVE OnWay(c)'
  BY DEF OnWay
<1>3. Whole(c) /\ pc[c] \notin Over /\ c \notin moved'
  BY DEF Whole
<1>4. g \in exists' /\ ~Creating(g)'
  BY <1>1, <1>3 DEF OnWay
<1>5. ASSUME NEW s \in {sp[c], own[c]}, Has(s, g) PROVE Has(s, g)'
  BY <1>3, <1>5 DEF Has, Holds
<1>6. ASSUME OwnerOf[g] = u PROVE Has(sp[c], g)' /\ Has(own[c], g)'
  <2>1. Has(sp[c], g) /\ Has(own[c], g)
    BY <1>1, <1>2, <1>3, <1>6 DEF OnWay
  <2>2. QED
    BY <1>3, <2>1 DEF Has, Holds
<1>7. ASSUME OwnerOf[g] # u, c \notin dropped'
      PROVE  /\ sp[c] # None => cached'[u] = sp[c]
             /\ own[c] # None => cached'[u] = own[c]
             /\ stage[c] = "task" \/ pc[c] = "attached"
                   => sp[c] # None /\ g \in DOMAIN built'[sp[c]]
  <2>1. /\ sp[c] # None => cached[u] = sp[c]
        /\ own[c] # None => cached[u] = own[c]
        /\ stage[c] = "task" \/ pc[c] = "attached"
              => sp[c] # None /\ g \in DOMAIN built[sp[c]]
    BY <1>1, <1>2, <1>3, <1>7 DEF OnWay, Holds
  <2>2. cached'[u] = cached[u] \/ cached[u] = None
    BY <1>2, <1>3, <1>7
  <2>3. QED
    BY <1>3, <2>1, <2>2
<1>8. QED
  BY <1>1, <1>2, <1>4, <1>6, <1>7 DEF OnWay, Has, Holds

\* The space that a call gets from the registry.
LEMMA GetsWhole ==
    ASSUME ReachInv, NEW c \in Callers, Whole(c), TypeOK
    PROVE  OwnerOf[agent[c]] = user[c] => Has(cached[user[c]], agent[c])
<1>1. agent[c] \in exists /\ ~Creating(agent[c]) /\ agent[c] \notin half
  BY DEF ReachInv, OnWay, Whole
<1>2. Complete(agent[c])
  BY <1>1 DEF ReachInv
<1>3. QED
  BY <1>1, <1>2 DEF Complete

\* A call that moves stays on its way.
LEMMA OnWayCaller ==
    ASSUME RegInv, ReachInv, NEW c \in Callers, CallerStep(c)
    PROVE  OnWay(c)'
<1>a. TypeOK /\ CallTypes /\ At(c) /\ OnWay(c)
  BY DEF RegInv, TypeOK, ReachInv
<1> PICK g : g = agent[c]
  OBVIOUS
<1> PICK u : u = user[c]
  OBVIOUS
<1>b. UNCHANGED <<exists, ver, op, half, moved, dropped, user, agent, kind>>
  BY QuietCaller
<1> SUFFICES ASSUME Whole(c)' PROVE OnWay(c)'
  BY DEF OnWay
<1>c. Whole(c) => /\ g \in exists /\ ~Creating(g)
                  /\ OwnerOf[g] = u => Has(sp[c], g) /\ Has(own[c], g)
                  /\ OwnerOf[g] # u /\ c \notin dropped =>
                       /\ sp[c] # None => cached[u] = sp[c]
                       /\ own[c] # None => cached[u] = own[c]
                       /\ stage[c] = "task" \/ pc[c] = "attached"
                             => sp[c] # None /\ Holds(sp[c], g)
  BY <1>a DEF OnWay
<1>d. Creating(g)' <=> Creating(g)
  BY <1>b DEF Creating
<1>e. Whole(c) /\ OwnerOf[g] = u => Has(cached[u], g)
  BY <1>a, GetsWhole
\* What is left to show for a step that changes no space.
<1>f. ASSUME Whole(c), UNCHANGED <<built, cached>>,
             OwnerOf[g] = u => Has(sp'[c], g) /\ Has(own'[c], g),
             OwnerOf[g] # u /\ c \notin dropped =>
                 /\ sp'[c] # None => cached[u] = sp'[c]
                 /\ own'[c] # None => cached[u] = own'[c]
                 /\ stage'[c] = "task" \/ pc'[c] = "attached"
                       => sp'[c] # None /\ Holds(sp'[c], g)
      PROVE  OnWay(c)'
  BY <1>b, <1>c, <1>d, <1>f DEF OnWay, Has, Holds
<1>g. pc[c] \notin Over => Whole(c)
  BY <1>b DEF Whole
<1> USE DEF CallTypes, Over
<1>1. CASE Get(c)
  <2>1. /\ pc[c] \notin Over /\ UNCHANGED <<built, cached, stage, own>> /\ sp'[c] = cached[u]
        /\ pc'[c] # "attached"
    BY <1>a, <1>1 DEF Get, Goto, reg
  <2>2. QED
    BY <1>c, <1>e, <1>f, <1>g, <2>1
<1>2. CASE Touch(c)
  <2>1. /\ pc[c] \notin Over /\ UNCHANGED <<built, cached, stage, own, sp>>
        /\ pc'[c] # "attached"
    BY <1>a, <1>2 DEF Touch, Goto
  <2>2. QED
    BY <1>c, <1>e, <1>f, <1>g, <2>1
<1>3. CASE Lock(c)
  <2>1. /\ pc[c] \notin Over /\ UNCHANGED <<built, cached, stage, own>>
        /\ sp'[c] \in {cached[u], sp[c]} /\ pc'[c] # "attached"
    BY <1>a, <1>3 DEF Lock, Goto
  <2>2. QED
    BY <1>c, <1>e, <1>f, <1>g, <2>1
<1>4. CASE Load(c)
  <2>1. pc'[c] # "failed"
    BY DEF Whole
  <2>2. /\ pc[c] \notin Over /\ UNCHANGED <<built, cached, stage, own, sp>>
        /\ pc'[c] # "attached"
    BY <1>a, <1>4, <2>1 DEF Load, Goto, End, reg
  <2>3. QED
    BY <1>c, <1>e, <1>f, <1>g, <2>2
<1>5. CASE Publish(c)
  <2>1. /\ Unused \in Spaces /\ Unused # None /\ built'[Unused] = draft[c]
        /\ \A s \in Spaces : s \in Used => s # Unused /\ built'[s] = built[s]
        /\ cached'[u] = Unused /\ sp'[c] = Unused /\ pc'[c] = "use"
        /\ UNCHANGED <<stage, own>>
    BY <1>a, <1>5, Published DEF RegInv
  <2>2. pc[c] = "publish" /\ cached[u] = None
    BY <1>a, <1>5 DEF Publish, At
  <2>3. Whole(c)
    BY <1>g, <2>2
  <2>4. ASSUME OwnerOf[g] = u PROVE g \in DOMAIN draft[c]
    <3>1. Drawn(c, g) /\ g \notin half
      BY <1>c, <2>3 DEF ReachInv, Whole
    <3>2. QED
      BY <1>c, <2>2, <2>3, <2>4, <3>1 DEF Drawn
  <2>5. own[c] \in Used /\ own[c] \in Spaces \cup {None}
    BY <1>a, <2>2, UsedHas
  <2>6. ASSUME OwnerOf[g] # u, c \notin dropped
        PROVE  sp[c] = None /\ own[c] = None /\ stage[c] # "task"
    BY <1>c, <2>2, <2>3, <2>6
  <2>7. OwnerOf[g] = u => Has(sp[c], g)' /\ Has(own[c], g)'
    <3>1. SUFFICES ASSUME OwnerOf[g] = u PROVE Has(sp[c], g)' /\ Has(own[c], g)'
      OBVIOUS
    <3>2. Has(sp[c], g)'
      BY <2>1, <2>4, <3>1 DEF Has, Holds
    <3>3. Has(own[c], g)'
      BY <1>c, <2>1, <2>3, <2>5, <3>1 DEF Has, Holds
    <3>4. QED
      BY <3>2, <3>3
  <2>8. QED
    BY <1>b, <1>c, <1>d, <2>1, <2>3, <2>6, <2>7 DEF OnWay
<1>6. CASE Match(c)
  <2>1. pc[c] = "use" /\ stage[c] = "match" /\ sp[c] # None
        /\ UNCHANGED <<built, cached>>
    BY <1>a, <1>6 DEF Match, At, reg
  <2>2. CASE Holds(sp[c], g) /\ Found(c)
    <3>1. kind[c] # "web"
      BY <1>a, <2>2 DEF Found, End, Goto, Whole
    <3>2. own'[c] = None /\ sp' = sp /\ stage'[c] = "task" /\ pc'[c] = "get"
      BY <1>a, <2>2, <3>1 DEF Found, Again, Goto
    <3>3. QED
      BY <1>c, <1>f, <1>g, <2>1, <2>2, <3>2 DEF Has
  <2>3. CASE End(c, "notfound")
    BY <1>a, <2>3 DEF End, Goto, Whole
  <2>4. CASE own' = [own EXCEPT ![c] = sp[c]]
             /\ \/ Again(c, "ensure")
                \/ Goto(c, "ensure") /\ UNCHANGED <<stage, sp>>
    <3>1. own'[c] = sp[c] /\ sp' = sp /\ stage'[c] # "task" /\ pc'[c] # "attached"
      BY <1>a, <2>1, <2>4 DEF Again, Goto
    <3>2. QED
      BY <1>c, <1>f, <1>g, <2>1, <3>1
  <2>5. QED
    BY <1>6, <2>2, <2>3, <2>4 DEF Match
<1>7. CASE EnsureLock(c)
  <2>1. /\ pc[c] \notin Over /\ sp[c] # None
        /\ UNCHANGED <<built, cached, stage, own, sp>>
        /\ pc'[c] = "attached" => Holds(sp[c], g)
    BY <1>a, <1>7 DEF EnsureLock, Ensuring, Goto, At, reg
  <2>2. QED
    BY <1>c, <1>f, <1>g, <2>1
<1>8. CASE GetAgent(c)
  <2>1. g \in exists
    BY <1>a, <1>8 DEF GetAgent, End, Goto, Whole
  <2>2. /\ pc[c] \notin Over /\ pc'[c] # "attached"
        /\ UNCHANGED <<built, cached, stage, own, sp>>
    BY <1>a, <1>8, <2>1 DEF GetAgent, Goto, reg
  <2>3. QED
    BY <1>c, <1>f, <1>g, <2>2
<1>9. CASE Attach(c)
  <2>1. /\ pc[c] \notin Over /\ sp[c] # None /\ sp[c] \in Spaces
        /\ own[c] \in Spaces \cup {None}
        /\ UNCHANGED <<cached, stage, own, sp>>
    BY <1>a, <1>9 DEF Attach, At, reg
  <2>2. g \in DOMAIN built'[sp[c]]
    BY <1>a, <1>9, <2>1, Attaches
  <2>3. \A s \in Spaces : \A i \in DOMAIN built[s] : i \in DOMAIN built'[s]
    BY <1>a, <1>9, Attaches
  <2>4. Whole(c)
    BY <1>g, <2>1
  <2>5. OwnerOf[g] = u => Has(sp[c], g)' /\ Has(own[c], g)'
    BY <1>c, <2>1, <2>3, <2>4 DEF Has, Holds
  <2>6. QED
    BY <1>b, <1>c, <1>d, <2>1, <2>2, <2>4, <2>5 DEF OnWay, Holds
<1>10. CASE Attached(c)
  <2>1. Found(c)
    BY <1>a, <1>10 DEF Attached, End, Goto, Whole
  <2>2. kind[c] # "web"
    BY <1>a, <2>1 DEF Found, End, Goto, Whole
  <2>3. own'[c] = None /\ sp' = sp /\ stage'[c] = "task" /\ pc'[c] = "get"
    BY <1>a, <2>1, <2>2 DEF Found, Again, Goto
  <2>4. pc[c] = "attached" /\ UNCHANGED <<built, cached>>
    BY <1>10 DEF Attached, reg
  <2>5. QED
    BY <1>c, <1>f, <1>g, <2>3, <2>4 DEF Has
<1>11. CASE RunTask(c)
  BY <1>a, <1>11 DEF RunTask, End, Goto, Whole
<1>12. QED
  BY <1>1, <1>2, <1>3, <1>4, <1>5, <1>6, <1>7, <1>8, <1>9, <1>10, <1>11
     DEF CallerStep

\* The registry's spaces keep the agents of their users through a call.
LEMMA CompleteCaller ==
    ASSUME RegInv, ReachInv, NEW c \in Callers, CallerStep(c), NEW g \in exists'
    PROVE  Complete(g)'
<1>a. TypeOK /\ RegSound /\ At(c)
  BY DEF RegInv
<1>b. UNCHANGED <<exists, ver, op, half, moved, dropped, user, agent, kind>>
  BY QuietCaller
<1>c. g \in exists /\ Complete(g) /\ Drawn(c, g) /\ OwnerOf[g] \in Users
  BY <1>a, <1>b, Apart DEF ReachInv, TypeOK, DbTypes
<1> PICK u : u = OwnerOf[g]
  OBVIOUS
<1>d. Creating(g)' <=> Creating(g)
  BY <1>b DEF Creating
<1>e. cached[u] # None => cached[u] \in Spaces /\ cached[u] \in Used
  BY <1>a, <1>c, CachedHas, UsedHas DEF TypeOK, RegTypes, RegSound
<1>1. CASE Publish(c)
  <2>1. /\ Unused \in Spaces /\ built'[Unused] = draft[c]
        /\ \A s \in Spaces : s \in Used => built'[s] = built[s]
        /\ cached'[u] = IF u = user[c] THEN Unused ELSE cached[u]
    BY <1>a, <1>c, <1>1, Published
  <2>2. pc[c] = "publish"
    BY <1>1 DEF Publish
  <2>3. CASE u = user[c]
    BY <1>b, <1>c, <1>d, <2>1, <2>2, <2>3 DEF Complete, Drawn, Has, Holds
  <2>4. CASE u # user[c]
    BY <1>b, <1>c, <1>d, <1>e, <2>1, <2>4 DEF Complete, Has, Holds
  <2>5. QED
    BY <2>3, <2>4
<1>2. CASE Attach(c)
  <2>1. \A s \in Spaces : \A i \in DOMAIN built[s] : i \in DOMAIN built'[s]
    BY <1>a, <1>2, Attaches
  <2>2. cached' = cached
    BY <1>2 DEF Attach, reg
  <2>3. QED
    BY <1>b, <1>c, <1>d, <1>e, <2>1, <2>2 DEF Complete, Has, Holds
<1>3. CASE UNCHANGED <<cached, built>>
  BY <1>b, <1>c, <1>d, <1>3 DEF Complete, Has, Holds
<1>4. QED
  BY <1>1, <1>2, <1>3, QuietCaller

LEMMA DrawnCaller ==
    ASSUME RegInv, ReachInv, NEW c \in Callers, CallerStep(c), NEW o \in Callers,
           NEW g \in exists'
    PROVE  Drawn(o, g)'
<1>a. TypeOK /\ CallTypes /\ BuiltTypes
  BY DEF RegInv, TypeOK
<1>b. UNCHANGED <<exists, ver, op, half, moved, dropped, user, agent, kind>>
  BY QuietCaller
<1>c. g \in exists /\ Drawn(o, g)
  BY <1>b DEF ReachInv
<1>d. Creating(g)' <=> Creating(g)
  BY <1>b DEF Creating
<1>1. CASE o # c
  <2>1. UNCHANGED <<pc[o], draft[o]>>
    BY <1>a, <1>1, CallerFrame
  <2>2. QED
    BY <1>b, <1>c, <1>d, <2>1 DEF Drawn
<1>2. CASE o = c
  <2>1. SUFFICES ASSUME pc'[c] = "publish", OwnerOf[g] = user[c]
                 PROVE  g \in DOMAIN draft'[c]
    BY <1>2, <1>b DEF Drawn
  <2>2. Load(c)
    BY <1>a, <2>1 DEF CallerStep, Get, Touch, Lock, Publish, Match, EnsureLock,
       GetAgent, Attach, Attached, RunTask, Found, Again, Goto, End, CallTypes
  <2> DEFINE D == {user[c], System} \cup {h \in exists : OwnerOf[h] = user[c]}
             d == [i \in D |-> ver[i]]
  <2>3. draft' = [draft EXCEPT ![c] = d]
    BY <1>a, <2>1, <2>2 DEF Load, End, Goto, CallTypes
  <2>4. DOMAIN d = D
    OBVIOUS
  <2> HIDE DEF d
  <2>5. draft'[c] = d
    BY <1>a, <2>3 DEF BuiltTypes
  <2>6. QED
    BY <1>c, <2>1, <2>4, <2>5
<1>3. QED
  BY <1>1, <1>2

\* The steps that end a call without its agent.
LEMMA ExcusedCaller ==
    ASSUME RegInv, ReachInv, NEW c \in Callers, CallerStep(c), NEW o \in Callers,
           pc'[o] = "notfound"
    PROVE  Excused(o)'
<1>a. TypeOK /\ CallTypes /\ OnWay(c) /\ At(c)
  BY DEF RegInv, TypeOK, ReachInv
<1>b. UNCHANGED <<exists, ver, op, half, moved, dropped, user, agent, kind>>
  BY QuietCaller
<1>c. ASSUME NEW p \in Callers, Excused(p) PROVE Excused(p)'
  BY <1>b, <1>c DEF Excused
<1>1. CASE o # c
  <2>1. pc'[o] = pc[o]
    BY <1>a, <1>1, CallerFrame
  <2>2. QED
    BY <1>c, <2>1 DEF ReachInv
<1>2. CASE o = c
  <2>1. SUFFICES ASSUME Whole(c), ~Excused(c), pc'[c] = "notfound" PROVE FALSE
    <3>1. pc[c] \notin Over
      BY <1>a, <1>2 DEF CallerStep, Get, Touch, Lock, Load, Publish, Match,
         EnsureLock, GetAgent, Attach, Attached, RunTask, Ensuring, Over
    <3>2. Whole(c) \/ Excused(c)
      BY <3>1 DEF Whole, Excused
    <3>3. QED
      BY <1>2, <1>c, <2>1, <3>2
  <2>2. /\ agent[c] \in exists
        /\ OwnerOf[agent[c]] = user[c] => Has(sp[c], agent[c]) /\ Has(own[c], agent[c])
        /\ OwnerOf[agent[c]] # user[c] =>
             /\ kind[c] # "direct"
             /\ own[c] # None => cached[user[c]] = own[c]
             /\ sp[c] # None => cached[user[c]] = sp[c]
             /\ stage[c] = "task" \/ pc[c] = "attached"
                   => sp[c] # None /\ Holds(sp[c], agent[c])
    BY <1>a, <2>1 DEF OnWay, Excused
  <2>3. kind[c] \in {"route", "direct", "web"}
    BY <1>a DEF CallTypes
  <2>4. CASE Match(c)
    <3>1. sp[c] # None
      BY <1>a, <2>4 DEF Match, At
    <3>2. ~Holds(sp[c], agent[c])
      BY <1>a, <2>1, <2>4 DEF Match, Found, Again, End, Goto, CallTypes
    <3>3. OwnerOf[agent[c]] # user[c]
      BY <2>2, <3>1, <3>2 DEF Has
    <3>4. kind[c] = "route" \/ kind[c] = "web"
      BY <2>2, <2>3, <3>3
    <3>5. QED
      BY <1>a, <2>1, <2>4, <3>2, <3>3, <3>4 DEF Match, Again, Goto, CallTypes
  <2>5. CASE GetAgent(c)
    BY <1>a, <2>1, <2>2, <2>5 DEF GetAgent, Goto, CallTypes
  <2>6. CASE Attached(c)
    <3>1. pc[c] = "attached" /\ own[c] # None /\ sp[c] # None
      BY <1>a, <2>6 DEF Attached, At
    <3>2. Holds(own[c], agent[c])
      BY <2>2, <3>1 DEF Has
    <3>3. QED
      BY <1>a, <2>1, <2>6, <3>2 DEF Attached, Found, Again, End, Goto, CallTypes
  <2>7. CASE RunTask(c)
    <3>1. sp[c] # None /\ stage[c] = "task"
      BY <1>a, <2>7 DEF RunTask, At
    <3>2. Holds(sp[c], agent[c])
      BY <2>2, <3>1 DEF Has
    <3>3. QED
      BY <1>a, <2>1, <2>7, <3>2 DEF RunTask, End, Goto, CallTypes
  <2>8. QED
    BY <1>a, <2>1, <2>4, <2>5, <2>6, <2>7 DEF CallerStep, Get, Touch, Lock, Load,
       Publish, EnsureLock, Attach, Goto, End, CallTypes
<1>3. QED
  BY <1>1, <1>2

\* A handler's step begins or ends no other's new agent.
LEMMA CreatingElse ==
    ASSUME NEW a \in Admins, NEW g, \A o \in Admins : o # a => op'[o] = op[o]
    PROVE  /\ Creating(g)' =>
                Creating(g) \/ (op'[a].item = g /\ op'[a].kind = "create" /\ op'[a].pc = "tell")
           /\ Creating(g) =>
                Creating(g)' \/ (op[a].item = g /\ op[a].kind = "create" /\ op[a].pc = "tell")
<1>1. ASSUME Creating(g)'
      PROVE  Creating(g) \/ (op'[a].item = g /\ op'[a].kind = "create" /\ op'[a].pc = "tell")
  BY <1>1 DEF Creating
<1>2. ASSUME Creating(g)
      PROVE  Creating(g)' \/ (op[a].item = g /\ op[a].kind = "create" /\ op[a].pc = "tell")
  BY <1>2 DEF Creating
<1>3. QED
  BY <1>1, <1>2

\* A step that moves no call: agents come with their handler at work, and a
\* handler is done with a new one when its owner has no space.
LEMMA ReachFrame ==
    ASSUME RegInv, ReachInv, UNCHANGED <<built, locals>>,
           half \subseteq half', moved \subseteq moved', dropped \subseteq dropped',
           \A u \in Users : cached'[u] = cached[u] \/ cached'[u] = None,
           \A c \in Callers : cached'[user[c]] = cached[user[c]] \/ pc[c] \in Over
                                  \/ c \in dropped',
           \A g \in exists' : g \in exists \/ Creating(g)',
           \A g : (g \in exists \ exists' \/ (Creating(g)' /\ ~Creating(g))) =>
               \A c \in Callers : pc[c] \in Over \/ agent[c] # g \/ c \in moved',
           \A g : Creating(g) => \/ Creating(g)' \/ g \in half'
                                 \/ /\ cached'[OwnerOf[g]] = None
                                    /\ \A c \in Callers : pc[c] # "publish"
    PROVE  ReachInv'
<1>a. TypeOK
  BY DEF RegInv
<1>1. ASSUME NEW g \in exists' PROVE Complete(g)'
  <2>1. CASE Creating(g)'
    BY <2>1 DEF Complete
  <2>2. CASE ~Creating(g)'
    <3>1. g \in exists /\ Complete(g) /\ OwnerOf[g] \in Users
      BY <1>a, <2>2, Apart DEF ReachInv, TypeOK, DbTypes
    <3>2. cached'[OwnerOf[g]] = cached[OwnerOf[g]] \/ cached'[OwnerOf[g]] = None
      BY <3>1
    <3>3. Creating(g) => g \in half' \/ cached'[OwnerOf[g]] = None
      BY <2>2
    <3>4. QED
      BY <3>1, <3>2, <3>3 DEF Complete, Has, Holds
  <2>3. QED
    BY <2>1, <2>2
<1>2. ASSUME NEW c \in Callers, NEW g \in exists' PROVE Drawn(c, g)'
  <2>1. UNCHANGED <<pc, user, draft>>
    BY DEF locals
  <2>2. CASE Creating(g)'
    BY <2>2 DEF Drawn
  <2>3. CASE ~Creating(g)'
    <3>1. Drawn(c, g)
      BY <2>3 DEF ReachInv
    <3>2. Creating(g) => g \in half' \/ pc[c] # "publish"
      BY <2>3
    <3>3. QED
      BY <2>1, <3>1, <3>2 DEF Drawn
  <2>4. QED
    BY <2>2, <2>3
<1>3. ASSUME NEW c \in Callers PROVE OnWay(c)'
  <2>1. UNCHANGED <<pc[c], user[c], agent[c], stage[c], sp[c], own[c]>>
    BY DEF locals
  <2>2. ASSUME pc[c] \notin Over, c \notin moved', NEW g, g = agent[c]
        PROVE  /\ g \in exists => g \in exists'
               /\ Creating(g)' => Creating(g)
    <3>1. ~(g \in exists \ exists' \/ (Creating(g)' /\ ~Creating(g)))
      BY <2>2
    <3>2. QED
      BY <3>1
  <2>3. OnWay(c)
    BY DEF ReachInv
  <2>4. \A s \in {sp[c], own[c]} : s # None =>
            \A i : i \in DOMAIN built[s] => i \in DOMAIN built'[s]
    OBVIOUS
  <2>5. /\ c \in moved => c \in moved'
        /\ c \in dropped => c \in dropped'
        /\ \/ cached'[user[c]] = cached[user[c]] \/ cached[user[c]] = None
           \/ pc[c] \in Over \/ c \in dropped'
    OBVIOUS
  <2>6. pc[c] \notin Over /\ c \notin moved' =>
            \A g : g = agent[c] => /\ g \in exists => g \in exists'
                                   /\ Creating(g)' => Creating(g)
    BY <2>2
  <2>7. QED
    BY <2>1, <2>3, <2>4, <2>5, <2>6, OnWayStays
<1>4. ASSUME NEW c \in Callers, pc'[c] = "notfound" PROVE Excused(c)'
  <2>1. UNCHANGED <<pc, user, agent, kind>>
    BY DEF locals
  <2>2. Excused(c)
    BY <1>4, <2>1 DEF ReachInv
  <2>3. QED
    BY <2>1, <2>2 DEF Excused
<1>5. QED
  BY <1>1, <1>2, <1>3, <1>4 DEF ReachInv

\* The registry drops spaces.
LEMMA DropReach ==
    ASSUME TypeOK, RegSound, NEW us \in SUBSET Users, DropUsers(us), UNCHANGED built
    PROVE  /\ \A u \in Users : cached'[u] = cached[u] \/ cached'[u] = None
           /\ \A c \in Callers : cached'[user[c]] = cached[user[c]] \/ pc[c] \in Over
                                     \/ c \in dropped'
           /\ dropped \subseteq dropped' /\ rmu = Free
<1>1. /\ \A u \in Users : cached'[u] = IF u \in us THEN None ELSE cached[u]
      /\ rmu = Free
  BY DropSound
<1>2. dropped' = dropped \cup {c \in Active : user[c] \in us}
  BY DEF DropUsers
<1>3. \A c \in Callers : user[c] \in Users
  BY DEF TypeOK, CallTypes
<1>4. QED
  BY <1>1, <1>2, <1>3 DEF Active

LEMMA ReachAdmin ==
    ASSUME RegInv, ReachInv, NEW a \in Admins, AdminStep(a)
    PROVE  ReachInv'
<1>a. TypeOK /\ RegSound /\ OpSound
  BY DEF RegInv
<1>b. UNCHANGED <<exists, ver, built, rmu, smu, locals, moved, half, raced>>
  BY <1>a, AdminDrops
<1>c. /\ \A u \in Users : cached'[u] = cached[u] \/ cached'[u] = None
      /\ \A c \in Callers : cached'[user[c]] = cached[user[c]] \/ pc[c] \in Over
                                \/ c \in dropped'
      /\ dropped \subseteq dropped'
  BY <1>a, <1>b, AdminDropsUsers, DropReach
<1>d. \A o \in Admins : o # a => op'[o] = op[o]
  BY <1>a DEF AdminStep, TellUser, TellAll, Drop, Idle, TypeOK, DbTypes
<1>e. DOMAIN op = Admins /\ op[a] \in HandlerOps
  BY <1>a DEF TypeOK, DbTypes
\* The handler does not begin to make an agent, and is done with one when
\* the owner's space is dropped.
<1>1. ~(op'[a].kind = "create" /\ op'[a].pc = "tell")
  <2>1. CASE Idle(a)
    BY <1>e, <2>1 DEF Idle
  <2>2. CASE TellAll(a) /\ ~Idle(a)
    <3>1. op' = [op EXCEPT ![a] = [op[a] EXCEPT !.pc = "drop", !.todo = Cached]]
      BY <2>2 DEF TellAll
    <3>2. op'[a].pc = "drop"
      BY <1>e, <3>1 DEF HandlerOps
    <3>3. QED
      BY <3>2
  <2>3. ASSUME NEW s \in op[a].todo, Drop(a, s), ~Idle(a)
        PROVE  ~(op'[a].kind = "create" /\ op'[a].pc = "tell")
    <3>1. op' = [op EXCEPT ![a] = [op[a] EXCEPT !.todo = op[a].todo \ {s}]]
          /\ op[a].pc = "drop"
      BY <2>3 DEF Drop
    <3>2. op'[a].pc = "drop"
      BY <1>e, <3>1 DEF HandlerOps
    <3>3. QED
      BY <3>2
  <2>4. QED
    BY <2>1, <2>2, <2>3 DEF AdminStep, TellUser
<1>2. ASSUME NEW g, op[a].item = g, op[a].kind = "create", op[a].pc = "tell"
      PROVE  cached'[OwnerOf[g]] = None /\ \A c \in Callers : pc[c] # "publish"
  <2>1. TellUser(a)
    BY <1>2 DEF AdminStep, TellAll, Drop
  <2>2. g \in Agents /\ OwnerOf[g] \in Users /\ g \notin Users
    BY <1>a, <1>2, Apart DEF OpSound
  <2>3. DropUsers({OwnerOf[g]})
    BY <1>2, <2>1, <2>2 DEF TellUser, NewIn
  <2>4. cached'[OwnerOf[g]] = None /\ rmu = Free
    BY <1>a, <1>b, <2>2, <2>3, DropSound
  <2>5. \A c \in Callers : At(c) /\ c # Free
    BY Apart DEF RegInv
  <2>6. QED
    BY <2>4, <2>5 DEF At
<1>3. ASSUME NEW g
      PROVE  /\ Creating(g)' => Creating(g)
             /\ Creating(g) => \/ Creating(g)'
                               \/ /\ cached'[OwnerOf[g]] = None
                                  /\ \A c \in Callers : pc[c] # "publish"
  BY <1>d, <1>1, <1>2, CreatingElse
<1>4. QED
  BY <1>b, <1>c, <1>3, ReachFrame

\* A handler's write: only an agent that is made or deleted changes what a
\* call can find.
LEMMA ReachWrite ==
    ASSUME RegInv, ReachInv, NEW a \in Admins, NEW k, NEW i, Write(a, k, i),
           \/ k # "create" /\ exists' = exists /\ moved' = moved
           \/ /\ k \in {"create", "delete"}
              /\ exists' = (IF k = "create" THEN exists \cup {i} ELSE exists \ {i})
              /\ moved' = moved \cup {c \in Active : agent[c] = i}
    PROVE  ReachInv'
<1>a. TypeOK
  BY DEF RegInv
<1>1. /\ op' = [op EXCEPT ![a] = [pc |-> "tell", kind |-> k, item |-> i, todo |-> {}]]
      /\ op[a].pc = "idle"
      /\ UNCHANGED <<cached, built, locals, dropped, half>>
  BY DEF Write, reg
<1>2. \A o \in Admins : o # a => op'[o] = op[o]
  BY <1>a, <1>1 DEF TypeOK, DbTypes
<1>3. op'[a] = [pc |-> "tell", kind |-> k, item |-> i, todo |-> {}]
  BY <1>a, <1>1 DEF TypeOK, DbTypes
<1>4. ASSUME NEW g
      PROVE  /\ Creating(g)' => Creating(g) \/ (g = i /\ k = "create")
             /\ Creating(g) => Creating(g)'
  BY <1>1, <1>2, <1>3, CreatingElse
<1>5. k = "create" => Creating(i)'
  BY <1>3 DEF Creating
<1>6. moved \subseteq moved'
  OBVIOUS
<1>7. \A g \in exists' : g \in exists \/ Creating(g)'
  BY <1>5
<1>8. ASSUME NEW g, g \in exists \ exists' \/ (Creating(g)' /\ ~Creating(g)),
             NEW c \in Callers
      PROVE  pc[c] \in Over \/ agent[c] # g \/ c \in moved'
  <2>1. g = i /\ moved' = moved \cup {o \in Active : agent[o] = i}
    BY <1>4, <1>8
  <2>2. QED
    BY <2>1 DEF Active
<1>9. QED
  BY <1>1, <1>4, <1>6, <1>7, <1>8, ReachFrame

\* A call begins: unless its agent is being made or deleted, it is whole.
LEMMA ReachBegin ==
    ASSUME RegInv, ReachInv, NEW c \in Callers, NEW u \in Users, NEW g \in Agents,
           NEW k \in Kinds[c], Begin(c, k, u, g)
    PROVE  ReachInv'
<1>a. TypeOK /\ CallTypes /\ BuiltTypes /\ At(c)
  BY DEF RegInv, TypeOK
<1>b. UNCHANGED <<exists, op, cached, built, half, draft, sp, own>>
  BY DEF Begin, db, reg
<1>c. /\ pc[c] \in Over /\ pc'[c] = "get" /\ user'[c] = u /\ agent'[c] = g
      /\ stage'[c] = "match"
  BY <1>a DEF Begin, Goto, CallTypes
<1>d. \A o \in Callers : o # c =>
          /\ UNCHANGED <<pc[o], kind[o], user[o], agent[o], stage[o], sp[o], own[o]>>
          /\ o \in moved <=> o \in moved'
          /\ o \in dropped <=> o \in dropped'
  BY <1>a, <1>b DEF Begin, Goto, CallTypes
<1>e. \A h : Creating(h)' <=> Creating(h)
  BY <1>b DEF Creating
<1>1. \A h \in exists' : Complete(h)'
  BY <1>b, <1>e DEF ReachInv, Complete, Has, Holds
<1>2. ASSUME NEW o \in Callers, NEW h \in exists' PROVE Drawn(o, h)'
  <2>1. Drawn(o, h)
    BY <1>b DEF ReachInv
  <2>2. QED
    BY <1>b, <1>c, <1>d, <1>e, <2>1 DEF Drawn
<1>3. ASSUME NEW o \in Callers PROVE OnWay(o)'
  <2>1. CASE o # c
    <3>1. OnWay(o)
      BY DEF ReachInv
    <3>2. \A h : h = agent[o] => /\ h \in exists => h \in exists'
                                 /\ Creating(h)' => Creating(h)
      BY <1>b, <1>e
    <3>3. UNCHANGED <<pc[o], user[o], agent[o], stage[o], sp[o], own[o]>>
      BY <1>d, <2>1
    <3>4. /\ o \in moved => o \in moved'
          /\ o \in dropped => o \in dropped'
          /\ half \subseteq half' /\ cached'[user[o]] = cached[user[o]]
          /\ \A s \in {sp[o], own[o]} : s # None =>
                \A i : i \in DOMAIN built[s] => i \in DOMAIN built'[s]
      BY <1>b, <1>d, <2>1
    <3>5. QED
      BY <3>1, <3>2, <3>3, <3>4, OnWayStays
  <2>2. CASE o = c
    <3>1. SUFFICES ASSUME c \notin moved' PROVE OnWay(c)'
      BY <2>2 DEF OnWay, Whole
    <3>2. g \in exists /\ \A a \in Admins : ~(op[a].pc # "idle" /\ op[a].item = g)
      BY <1>a, <3>1 DEF Begin
    <3>3. ~Creating(g)
      BY <3>2 DEF Creating
    <3>4. sp'[c] = None /\ own'[c] = None
      BY <1>a, <1>b, <1>c DEF At
    <3>5. QED
      BY <1>b, <1>c, <1>e, <3>2, <3>3, <3>4 DEF OnWay, Has
  <2>3. QED
    BY <2>1, <2>2
<1>4. ASSUME NEW o \in Callers, pc'[o] = "notfound" PROVE Excused(o)'
  <2>1. o # c
    BY <1>4, <1>c
  <2>2. Excused(o)
    BY <1>4, <1>d, <2>1 DEF ReachInv
  <2>3. QED
    BY <1>b, <1>d, <2>1, <2>2 DEF Excused
<1>5. QED
  BY <1>1, <1>2, <1>3, <1>4 DEF ReachInv

LEMMA ReachCaller ==
    ASSUME RegInv, ReachInv, NEW c \in Callers, CallerStep(c)
    PROVE  ReachInv'
<1>a. TypeOK /\ CallTypes /\ RegSound /\ At(c)
  BY DEF RegInv, TypeOK
<1>b. UNCHANGED <<exists, ver, op, half, moved, dropped, user, agent, kind>>
  BY QuietCaller
<1>1. ASSUME NEW o \in Callers, o # c PROVE OnWay(o)'
  <2>1. UNCHANGED <<pc[o], kind[o], user[o], agent[o], stage[o], sp[o], own[o],
                    draft[o]>>
    BY <1>a, <1>1, CallerFrame
  <2>2. OnWay(o)
    BY DEF ReachInv
  <2>3. \A g : Creating(g)' => Creating(g)
    BY <1>b DEF Creating
  <2>4. cached'[user[o]] = cached[user[o]] \/ cached[user[o]] = None
    <3>1. CASE Publish(c)
      <4>1. cached[user[c]] = None
        BY <1>a, <3>1 DEF Publish, At
      <4>2. cached'[user[o]] = IF user[o] = user[c] THEN Unused ELSE cached[user[o]]
        BY <1>a, <3>1, Published DEF CallTypes
      <4>3. QED
        BY <4>1, <4>2
    <3>2. CASE UNCHANGED cached
      BY <3>2
    <3>3. QED
      BY <3>1, <3>2, QuietCaller
  <2>5. ASSUME pc[o] \notin Over, NEW s \in {sp[o], own[o]}, s # None,
               NEW i, i \in DOMAIN built[s]
        PROVE  i \in DOMAIN built'[s]
    <3>1. s \in Used /\ s \in Spaces
      BY <1>a, <2>5, UsedHas DEF CallTypes
    <3>2. CASE Publish(c)
      BY <1>a, <2>5, <3>1, <3>2, Published
    <3>3. CASE Attach(c)
      BY <1>a, <2>5, <3>1, <3>3, Attaches
    <3>4. CASE UNCHANGED built
      BY <2>5, <3>4
    <3>5. QED
      BY <3>2, <3>3, <3>4, QuietCaller
  <2>6. /\ half \subseteq half' /\ (o \in moved => o \in moved')
        /\ o \in dropped => o \in dropped'
        /\ \A g : g \in exists => g \in exists'
    BY <1>b
  <2>7. UNCHANGED <<pc[o], user[o], agent[o], stage[o], sp[o], own[o]>>
    BY <2>1
  <2>8. /\ pc[o] \notin Over /\ o \notin moved' =>
              \A g : g = agent[o] => /\ g \in exists => g \in exists'
                                     /\ Creating(g)' => Creating(g)
        /\ pc[o] \notin Over => \A s \in {sp[o], own[o]} : s # None =>
              \A i : i \in DOMAIN built[s] => i \in DOMAIN built'[s]
    BY <2>3, <2>5, <2>6
  <2>9. QED
    BY <2>2, <2>4, <2>6, <2>7, <2>8, OnWayStays
<1>2. \A o \in Callers : OnWay(o)'
  BY <1>1, OnWayCaller
<1>3. QED
  BY <1>2, CompleteCaller, DrawnCaller, ExcusedCaller DEF ReachInv

LEMMA ReachNext ==
    ASSUME RegInv, ReachInv, [Next]_vars
    PROVE  ReachInv'
<1>a. TypeOK /\ RegSound
  BY DEF RegInv
<1>1. ASSUME UNCHANGED <<built, locals, cached, exists, op, half, moved, dropped>>
      PROVE  ReachInv'
  <2>1. \A g : Creating(g)' <=> Creating(g)
    BY <1>1 DEF Creating
  <2>2. QED
    BY <1>1, <2>1, ReachFrame
<1>2. CASE EvictIdle
  <2>1. idle \in SUBSET Users /\ DropUsers(idle)
        /\ UNCHANGED <<exists, built, locals, op, moved, half>>
    BY <1>a, <1>2 DEF EvictIdle, TypeOK, RegTypes, db
  <2>2. /\ \A u \in Users : cached'[u] = cached[u] \/ cached'[u] = None
        /\ \A c \in Callers : cached'[user[c]] = cached[user[c]] \/ pc[c] \in Over
                                  \/ c \in dropped'
        /\ dropped \subseteq dropped'
    BY <1>a, <2>1, DropReach
  <2>3. \A g : Creating(g)' <=> Creating(g)
    BY <2>1 DEF Creating
  <2>4. QED
    BY <2>1, <2>2, <2>3, ReachFrame
<1>3. ASSUME NEW a \in Admins, FailHalfway(a) PROVE ReachInv'
  <2>1. /\ op' = [op EXCEPT ![a] = [pc |-> "idle", kind |-> "save",
                                    item |-> System, todo |-> {}]]
        /\ half' = half \cup {op[a].item}
        /\ UNCHANGED <<exists, cached, built, locals, moved, dropped>>
    BY <1>3 DEF FailHalfway, Idle, db, reg
  <2>2. \A o \in Admins : o # a => op'[o] = op[o]
    BY <1>a, <2>1 DEF TypeOK, DbTypes
  <2>3. op'[a].pc = "idle"
    BY <1>a, <2>1 DEF TypeOK, DbTypes
  <2>4. ASSUME NEW g
        PROVE  /\ Creating(g)' => Creating(g)
               /\ Creating(g) => Creating(g)' \/ g \in half'
    BY <2>1, <2>2, <2>3, CreatingElse
  <2>5. QED
    BY <2>1, <2>4, ReachFrame
<1>4. ASSUME NEW a \in Admins, NEW i \in Items, Save(a, i) PROVE ReachInv'
  BY <1>4, ReachWrite DEF Save
<1>5. ASSUME NEW a \in Admins, NEW g \in Agents, CreateAgent(a, g) \/ DeleteAgent(a, g)
      PROVE  ReachInv'
  BY <1>5, ReachWrite DEF CreateAgent, DeleteAgent
<1>6. ASSUME NEW u \in Users, Age(u) PROVE ReachInv'
  BY <1>1, <1>6 DEF Age, db, ghosts
<1>7. CASE UNCHANGED vars
  BY <1>1, <1>7 DEF vars, db, reg, ghosts
<1>8. QED
  BY <1>2, <1>3, <1>4, <1>5, <1>6, <1>7, ReachCaller, ReachAdmin, ReachBegin DEF Next

\* A call does not find its agent only if the agent was made or deleted since
\* or left half-made, or is another user's and the user's space was dropped
\* since, or the message named it.
THEOREM ReachesHolds == Spec => []Reaches
<1>1. Init => ReachInv
  <2> SUFFICES ASSUME Init PROVE ReachInv
    OBVIOUS
  <2>1. \A g \in exists : Complete(g)
    BY Apart DEF Init, Complete, Has
  <2>2. \A c \in Callers : pc[c] = "idle"
    BY DEF Init
  <2>3. QED
    BY <2>1, <2>2 DEF ReachInv, Drawn, OnWay, Whole, Over
<1>2. RegInv /\ ReachInv /\ [Next]_vars => ReachInv'
  BY ReachNext
<1>3. ReachInv => Reaches
  BY DEF ReachInv, Excused, Reaches
<1>4. QED
  BY <1>1, <1>2, <1>3, RegHolds, PTL DEF Spec
-----------------------------------------------------------------------------

Cleared == {"close", "dir", "create", "install", "mark", "sleep", "delete"}
Opened  == {"probe", "scaffold", "boot", "await", "port", "finish", "crash"}
Early   == {"new", "get", "map", "fast", "evict", "close", "dir", "create"}
AppPlaces  == {"end"} \cup Early \cup Cleared \cup Opened

AppTypes ==
    /\ RuntimeTypeOK /\ made \in 0..MaxBoxes /\ at \in [Ops -> AppPlaces]

\* The places of each kind of operation, and the sandbox it works with there.
Path(o) ==
    /\ at[o] \in {"get", "map", "fast", "dir", "create", "install"} \cup Opened
         => what[o] \in {"up", "wake"}
    /\ at[o] \in {"mark", "sleep"} => what[o] = "sleep"
    /\ at[o] = "delete" => what[o] = "stop"
    /\ at[o] \in {"fast", "close"} => sb[o] # NoOp
    /\ at[o] \in {"create", "install"} \cup Opened => sb[o] = o
    /\ o \in ok => at[o] = "end"

\* A sandbox holds a container that was made for it, and has none before its
\* operation has come to Create; nor is it in the map before Install.
Own(s) ==
    /\ holds[s] # 0 =>
         holds[s] \in 1..made /\ by[holds[s]] = s /\ holds[s] \in up \cup died
    /\ at[s] \in Early => holds[s] = 0
    /\ at[s] \in Early \cup {"install"} => live # s

Held == \A b \in up : b \in astray \/ \E s \in Ops : holds[s] = b

\* Operations that are under way together have run beside another.
Together == \A o, p \in Running : o # p => o \in mixed

\* From evict to Install the map is empty but for the entry of another one, and
\* then it keeps the operation's sandbox, but for another one.
Entry(o) ==
    /\ at[o] \in Cleared => live = NoOp \/ (live \in mixed /\ o \in mixed)
    /\ at[o] \in Opened => live = o \/ o \in mixed

\* What an operation that runs alone has found or made is there.
InPlace(o) ==
    o \in mixed \/
      /\ at[o] \in Opened \cup {"install"} => holds[o] # 0
      /\ at[o] = "fast" => live # NoOp /\ holds[live] # 0
      /\ at[o] \in {"port", "finish"} => holds[o] \in answered

\* Who will close the container of a sandbox.
Minded(s) ==
    \/ live = s \/ s \in mixed \/ at[s] = "install"
    \/ \E p \in Ops : at[p] = "close" /\ sb[p] = s

AppInv ==
    /\ AppTypes /\ Held /\ Together
    /\ \A o \in Ops : Path(o) /\ Own(o) /\ Entry(o) /\ InPlace(o)
    /\ \A s \in Ops : holds[s] \in up => holds[s] \in astray \/ Minded(s)
-----------------------------------------------------------------------------
\* What no step but those of the world outside changes.
LEMMA StepFrame ==
    ASSUME NEW o \in Ops, Step(o), AppTypes
    PROVE  /\ at[o] \notin {"new", "end"}
           /\ \A p \in Ops : p # o =>
                /\ at'[p] = at[p] /\ sb'[p] = sb[p]
                /\ p \in ok' <=> p \in ok
           /\ UNCHANGED <<what, mixed, ctx, died>>
<1>1. at \in [Ops -> AppPlaces] /\ sb \in [Ops -> Ops \cup {NoOp}]
  BY DEF AppTypes, RuntimeTypeOK
<1>2. CASE GetRow(o) \/ ReadLive(o) \/ AlreadyLive(o) \/ Evict(o) \/ Close(o)
  BY <1>1, <1>2 DEF GetRow, ReadLive, AlreadyLive, Evict, Close, GoOn, Return, env, docker
<1>3. CASE MakeDir(o) \/ Create(o) \/ Install(o) \/ Reopen(o) \/ Probe(o)
  BY <1>1, <1>3 DEF MakeDir, Create, Install, Reopen, Probe, GoOn, Return, env, ops
<1>4. CASE Scaffold(o) \/ StartDevServer(o) \/ WaitForDevServer(o) \/ HostPortFor(o)
  BY <1>1, <1>4 DEF Scaffold, StartDevServer, WaitForDevServer, HostPortFor, GoOn, Return, env
<1>5. CASE Finish(o) \/ Crash(o) \/ ReadToSleep(o) \/ SaveSleeping(o) \/ DeleteRow(o)
  BY <1>1, <1>5 DEF Finish, Crash, ReadToSleep, SaveSleeping, DeleteRow, GoOn, Return, env
<1> QED
  BY <1>2, <1>3, <1>4, <1>5, Zenon DEF Step

-----------------------------------------------------------------------------
LEMMA AppInitInv == RuntimeInit => AppInv
  BY RuntimeAssumption DEF RuntimeInit, AppInv, AppTypes, RuntimeTypeOK, AppPlaces, Early, Cleared, Opened, Boxes,
     Statuses, Path, Own, Held, Together, Running, Entry, InPlace, Minded

\* What docker create leaves.
LEMMA BoxTypes ==
    ASSUME AppTypes, NEW o \in Ops, NewBox(o)
    PROVE  /\ made' \in 1..MaxBoxes /\ made' = made + 1
           /\ holds' \in [Ops -> 0..MaxBoxes] /\ by' \in [1..MaxBoxes -> Ops \cup {NoOp}]
           /\ up' \subseteq 1..made' /\ booted \subseteq 1..made'
           /\ astray \cup {made + 1} \cup died \subseteq 1..made'
<1>1. /\ made \in 0..MaxBoxes /\ MaxBoxes \in Nat /\ holds \in [Ops -> 0..MaxBoxes]
      /\ by \in [1..MaxBoxes -> Ops \cup {NoOp}]
  BY RuntimeAssumption DEF AppTypes, RuntimeTypeOK, Boxes
<1>2. made' = made + 1 /\ made' \in 1..MaxBoxes /\ made + 1 \in 0..MaxBoxes
  BY <1>1 DEF NewBox
<1>3. up' \subseteq 1..made' /\ booted \subseteq 1..made'
      /\ astray \cup {made + 1} \cup died \subseteq 1..made'
  <2>1. /\ up \subseteq 1..made /\ booted \subseteq 1..made /\ astray \cup died \subseteq 1..made
        /\ up' = up \cup {made + 1}
    BY DEF AppTypes, RuntimeTypeOK, NewBox
  <2> QED
    BY <1>1, <1>2, <2>1
<1>4. holds' \in [Ops -> 0..MaxBoxes] /\ by' \in [1..MaxBoxes -> Ops \cup {NoOp}]
  BY <1>1, <1>2, Zenon DEF NewBox
<1> QED
  BY <1>2, <1>3, <1>4

LEMMA TypeStep ==
    ASSUME AppTypes, \A o \in Ops : Path(o), [RuntimeNext]_runtimeVars
    PROVE  AppTypes'
<1> USE DEF AppTypes, RuntimeTypeOK, AppPlaces, Cleared, Opened, Early, Statuses, Boxes, Running
<1>t. made \in 0..MaxBoxes /\ MaxBoxes \in Nat /\ at \in [Ops -> AppPlaces] /\ RuntimeTypeOK
  BY RuntimeAssumption
<1>1. ASSUME NEW o \in Ops, GetRow(o) PROVE AppTypes'
  BY <1>t, <1>1 DEF GetRow, GoOn, Return, docker, env, ops
<1>2. ASSUME NEW o \in Ops, ReadLive(o) PROVE AppTypes'
  BY <1>t, <1>2 DEF ReadLive, GoOn, docker, env, ops
<1>3. ASSUME NEW o \in Ops, AlreadyLive(o) PROVE AppTypes'
  BY <1>t, <1>3 DEF AlreadyLive, Return, SaveStatus, docker, env, ops
<1>4. ASSUME NEW o \in Ops, Evict(o) PROVE AppTypes'
  BY <1>t, <1>4 DEF Evict, GoOn, After, docker, env, ops
<1>5. ASSUME NEW o \in Ops, Close(o) PROVE AppTypes'
  <2>1. /\ up' \subseteq 1..made' /\ booted' \subseteq 1..made' /\ answered' \subseteq booted'
        /\ (astray \cup died)' \subseteq 1..made' /\ made' \in 0..MaxBoxes
    BY <1>t, <1>5 DEF Close, GoOn, After, docker, env, ops
  <2>2. holds' \in [Ops -> 0..MaxBoxes] /\ by' \in [1..MaxBoxes -> Ops \cup {NoOp}]
    <3>1. holds' = [holds EXCEPT ![sb[o]] = 0] /\ by' = by
      BY <1>5 DEF Close
    <3>2. holds \in [Ops -> 0..MaxBoxes] /\ by \in [1..MaxBoxes -> Ops \cup {NoOp}]
      BY <1>t
    <3>3. 0 \in 0..MaxBoxes
      BY <1>t
    <3> QED
      BY <3>1, <3>2, <3>3, Zenon
  <2>3. /\ at' \in [Ops -> AppPlaces] /\ sb' \in [Ops -> Ops \cup {NoOp}]
        /\ row' \in Statuses /\ ok' \subseteq Ops /\ last' \in Ops \cup {NoOp}
    BY <1>t, <1>5 DEF Close, GoOn, After, docker, env, ops
  <2> QED
    BY <1>t, <1>5, <2>1, <2>2, <2>3 DEF Close, GoOn, After, docker, env, ops
<1>6. ASSUME NEW o \in Ops, MakeDir(o) PROVE AppTypes'
  <2>1. /\ up' \subseteq 1..made' /\ booted' \subseteq 1..made' /\ answered' \subseteq booted'
        /\ (astray \cup died)' \subseteq 1..made' /\ made' \in 0..MaxBoxes
    BY <1>t, <1>6 DEF MakeDir, GoOn, Return, SaveStatus, docker, env, ops
  <2>2. holds' \in [Ops -> 0..MaxBoxes] /\ by' \in [1..MaxBoxes -> Ops \cup {NoOp}]
    BY <1>t, <1>6 DEF MakeDir, GoOn, Return, SaveStatus, docker, env, ops
  <2>3. /\ at' \in [Ops -> AppPlaces] /\ sb' \in [Ops -> Ops \cup {NoOp}]
        /\ row' \in Statuses /\ ok' \subseteq Ops /\ last' \in Ops \cup {NoOp}
    <3> HIDE DEF RuntimeTypeOK, AppTypes, Running
    <3>1. at' \in [Ops -> AppPlaces]
      BY <1>t, <1>6 DEF MakeDir, GoOn, Return
    <3>2. sb' \in [Ops -> Ops \cup {NoOp}] /\ row' \in Statuses
      <4> HIDE DEF AppPlaces
      <4> QED  BY <1>t, <1>6 DEF MakeDir, SaveStatus, RuntimeTypeOK
    <3>3. ok' \subseteq Ops /\ last' \in Ops \cup {NoOp}
      <4> HIDE DEF AppPlaces
      <4> QED  BY <1>t, <1>6 DEF MakeDir, GoOn, Return, RuntimeTypeOK
    <3> QED  BY <3>1, <3>2, <3>3
  <2> QED
    BY <1>t, <1>6, <2>1, <2>2, <2>3 DEF MakeDir, GoOn, Return, SaveStatus, docker, env, ops
<1>7. ASSUME NEW o \in Ops, Create(o) PROVE AppTypes'
  <2>1. /\ up' \subseteq 1..made' /\ booted' \subseteq 1..made' /\ answered' \subseteq booted'
        /\ (astray \cup died)' \subseteq 1..made' /\ made' \in 0..MaxBoxes
    <3> HIDE DEF RuntimeTypeOK, AppTypes, AppPlaces, Running
    <3>1. CASE NewBox(o)
      <4>1. /\ booted' = booted /\ answered' = answered /\ died' = died
            /\ astray' \subseteq astray \cup {made + 1}
        BY <1>7 DEF Create, env
      <4>2. answered \subseteq booted /\ MaxBoxes \in Nat
        BY <1>t DEF RuntimeTypeOK
      <4> QED
        BY <3>1, <4>1, <4>2, BoxTypes
    <3>2. CASE UNCHANGED <<up, made, astray>>
      BY <3>2, <1>t, <1>7 DEF Create, env, RuntimeTypeOK
    <3> QED
      BY <1>7, <3>1, <3>2, Zenon DEF Create
  <2>2. holds' \in [Ops -> 0..MaxBoxes] /\ by' \in [1..MaxBoxes -> Ops \cup {NoOp}]
    BY <1>t, <1>7 DEF Create, NewBox, GoOn, Return, SaveStatus, docker, env, ops
  <2>3. /\ at' \in [Ops -> AppPlaces] /\ sb' \in [Ops -> Ops \cup {NoOp}]
        /\ row' \in Statuses /\ ok' \subseteq Ops /\ last' \in Ops \cup {NoOp}
    BY <1>t, <1>7 DEF Create, NewBox, GoOn, Return, SaveStatus, docker, env, ops
  <2> QED
    BY <1>t, <1>7, <2>1, <2>2, <2>3 DEF Create, NewBox, GoOn, Return, SaveStatus, docker, env, ops
<1>8. ASSUME NEW o \in Ops, Install(o) PROVE AppTypes'
  BY <1>t, <1>8 DEF Install, GoOn, docker, env, ops
<1>9. ASSUME NEW o \in Ops, Reopen(o) PROVE AppTypes'
  <2>1. /\ up' \subseteq 1..made' /\ booted' \subseteq 1..made' /\ answered' \subseteq booted'
        /\ (astray \cup died)' \subseteq 1..made' /\ made' \in 0..MaxBoxes
    BY <1>t, <1>9 DEF Reopen, NewBox, docker, env, ops
  <2>2. holds' \in [Ops -> 0..MaxBoxes] /\ by' \in [1..MaxBoxes -> Ops \cup {NoOp}]
    BY <1>9, BoxTypes DEF Reopen
  <2>3. /\ at' \in [Ops -> AppPlaces] /\ sb' \in [Ops -> Ops \cup {NoOp}]
        /\ row' \in Statuses /\ ok' \subseteq Ops /\ last' \in Ops \cup {NoOp}
    BY <1>t, <1>9 DEF Reopen, NewBox, docker, env, ops
  <2> QED
    BY <1>t, <1>9, <2>1, <2>2, <2>3 DEF Reopen, NewBox, docker, env, ops
<1>10. ASSUME NEW o \in Ops, Probe(o) PROVE AppTypes'
  BY <1>t, <1>10 DEF Probe, GoOn, SaveStatus, docker, env, ops
<1>11. ASSUME NEW o \in Ops, Scaffold(o) PROVE AppTypes'
  BY <1>t, <1>11 DEF Scaffold, GoOn, docker, env, ops
<1>12. ASSUME NEW o \in Ops, StartDevServer(o) PROVE AppTypes'
  <2>1. /\ up' \subseteq 1..made' /\ booted' \subseteq 1..made' /\ answered' \subseteq booted'
        /\ (astray \cup died)' \subseteq 1..made' /\ made' \in 0..MaxBoxes
    <3> HIDE DEF AppPlaces, Cleared, Opened, Early, Statuses, Running
    <3> QED  BY <1>t, <1>12 DEF StartDevServer, Works, CanExec, env
  <2>2. holds' \in [Ops -> 0..MaxBoxes] /\ by' \in [1..MaxBoxes -> Ops \cup {NoOp}]
    BY <1>t, <1>12 DEF StartDevServer, GoOn, docker, env, ops
  <2>3. /\ at' \in [Ops -> AppPlaces] /\ sb' \in [Ops -> Ops \cup {NoOp}]
        /\ row' \in Statuses /\ ok' \subseteq Ops /\ last' \in Ops \cup {NoOp}
    BY <1>t, <1>12 DEF StartDevServer, GoOn, docker, env, ops
  <2> QED
    BY <1>t, <1>12, <2>1, <2>2, <2>3 DEF StartDevServer, GoOn, docker, env, ops
<1>13. ASSUME NEW o \in Ops, WaitForDevServer(o) PROVE AppTypes'
  BY <1>t, <1>13 DEF WaitForDevServer, GoOn, docker, env, ops
<1>14. ASSUME NEW o \in Ops, HostPortFor(o) PROVE AppTypes'
  BY <1>t, <1>14 DEF HostPortFor, GoOn, docker, env, ops
<1>15. ASSUME NEW o \in Ops, Finish(o) PROVE AppTypes'
  BY <1>t, <1>15 DEF Finish, Return, SaveStatus, docker, env, ops
<1>16. ASSUME NEW o \in Ops, Crash(o) PROVE AppTypes'
  BY <1>t, <1>16 DEF Crash, Return, SaveStatus, docker, env, ops
<1>17. ASSUME NEW o \in Ops, ReadToSleep(o) PROVE AppTypes'
  BY <1>t, <1>17 DEF ReadToSleep, GoOn, Return, docker, env, ops
<1>18. ASSUME NEW o \in Ops, SaveSleeping(o) PROVE AppTypes'
  BY <1>t, <1>18 DEF SaveSleeping, Return, SaveStatus, docker, env, ops
<1>19. ASSUME NEW o \in Ops, DeleteRow(o) PROVE AppTypes'
  BY <1>t, <1>19 DEF DeleteRow, Return, SaveStatus, docker, env, ops
<1>20. ASSUME NEW o \in Ops, NEW k \in {"up", "wake", "sleep", "stop"}, BeginOp(o, k)
      PROVE  AppTypes'
  BY <1>t, <1>20 DEF BeginOp, docker
<1>21. ASSUME NEW o \in Ops, EndCtx(o) PROVE AppTypes'
  BY <1>t, <1>21 DEF EndCtx, Trouble, docker, ops
<1>22. ASSUME NEW o \in Boxes, BoxDies(o) PROVE AppTypes'
  BY <1>t, <1>22 DEF BoxDies, Trouble, docker, ops
<1>23. CASE Restart
  <2>1. /\ up' \subseteq 1..made' /\ booted' \subseteq 1..made' /\ answered' \subseteq booted'
        /\ (astray \cup died)' \subseteq 1..made' /\ made' \in 0..MaxBoxes
    BY <1>t, <1>23 DEF Restart, docker
  <2>2. holds' \in [Ops -> 0..MaxBoxes] /\ by' \in [1..MaxBoxes -> Ops \cup {NoOp}]
    BY <1>t, <1>23 DEF Restart, docker
  <2>3. /\ at' \in [Ops -> AppPlaces] /\ sb' \in [Ops -> Ops \cup {NoOp}]
        /\ row' \in Statuses /\ ok' \subseteq Ops /\ last' \in Ops \cup {NoOp}
    BY <1>t, <1>23 DEF Restart, docker
  <2> QED
    BY <1>t, <1>23, <2>1, <2>2, <2>3 DEF Restart, docker
<1>24. CASE UNCHANGED runtimeVars
  BY <1>t, <1>24 DEF runtimeVars, docker, ops, env
<1> QED
  BY <1>1, <1>2, <1>3, <1>4, <1>5, <1>6, <1>7, <1>8, <1>9, <1>10, <1>11, <1>12, <1>13, <1>14, <1>15, <1>16, <1>17, <1>18, <1>19, <1>20, <1>21, <1>22, <1>23, <1>24, Zenon DEF RuntimeNext, Step

\* Each operation stays on its path.
LEMMA PathStep ==
    ASSUME AppTypes, \A o \in Ops : Path(o), [RuntimeNext]_runtimeVars
    PROVE  \A o \in Ops : Path(o)'
<1> USE DEF Cleared, Opened
<1>t. at \in [Ops -> AppPlaces] /\ sb \in [Ops -> Ops \cup {NoOp}] /\ NoOp \notin Ops
  BY RuntimeAssumption DEF AppTypes, RuntimeTypeOK
<1>k. what \in [Ops -> {"up", "wake", "sleep", "stop"}]
  BY DEF AppTypes, RuntimeTypeOK
<1>1. ASSUME NEW o \in Ops, Step(o), Path(o)' PROVE \A p \in Ops : Path(p)'
  <2>1. ASSUME NEW p \in Ops, p # o PROVE Path(p)'
    <3>1. at'[p] = at[p] /\ sb'[p] = sb[p] /\ what' = what /\ (p \in ok' <=> p \in ok)
      BY <1>1, <2>1, StepFrame
    <3> QED
      BY <3>1, Zenon DEF Path
  <2> QED
    BY <1>1, <2>1
<1>2. ASSUME NEW o \in Ops, GetRow(o) PROVE Path(o)'
  BY <1>t, <1>k, <1>2 DEF Path, GetRow, GoOn, Return, env, ops
<1>3. ASSUME NEW o \in Ops, ReadLive(o) PROVE Path(o)'
  BY <1>t, <1>k, <1>3 DEF Path, ReadLive, GoOn, env, ops
<1>4. ASSUME NEW o \in Ops, AlreadyLive(o) PROVE Path(o)'
  BY <1>t, <1>k, <1>4 DEF Path, AlreadyLive, Return, env, ops
<1>5. ASSUME NEW o \in Ops, Evict(o) PROVE Path(o)'
  BY <1>t, <1>k, <1>5 DEF Path, Evict, GoOn, After, env, ops
<1>6. ASSUME NEW o \in Ops, Close(o) PROVE Path(o)'
  BY <1>t, <1>k, <1>6 DEF Path, Close, GoOn, After, env, ops
<1>7. ASSUME NEW o \in Ops, MakeDir(o) PROVE Path(o)'
  BY <1>t, <1>k, <1>7 DEF Path, MakeDir, GoOn, Return, env, ops
<1>8. ASSUME NEW o \in Ops, Create(o) PROVE Path(o)'
  BY <1>t, <1>k, <1>8 DEF Path, Create, NewBox, GoOn, Return, env, ops
<1>9. ASSUME NEW o \in Ops, Install(o) PROVE Path(o)'
  BY <1>t, <1>k, <1>9 DEF Path, Install, GoOn, env, ops
<1>10. ASSUME NEW o \in Ops, Reopen(o) PROVE Path(o)'
  BY <1>t, <1>k, <1>10 DEF Path, Reopen, NewBox, env, ops
<1>11. ASSUME NEW o \in Ops, Probe(o) PROVE Path(o)'
  BY <1>t, <1>k, <1>11 DEF Path, Probe, GoOn, env, ops
<1>12. ASSUME NEW o \in Ops, Scaffold(o) PROVE Path(o)'
  BY <1>t, <1>k, <1>12 DEF Path, Scaffold, GoOn, env, ops
<1>13. ASSUME NEW o \in Ops, StartDevServer(o) PROVE Path(o)'
  BY <1>t, <1>k, <1>13 DEF Path, StartDevServer, GoOn, env, ops
<1>14. ASSUME NEW o \in Ops, WaitForDevServer(o) PROVE Path(o)'
  BY <1>t, <1>k, <1>14 DEF Path, WaitForDevServer, GoOn, env, ops
<1>15. ASSUME NEW o \in Ops, HostPortFor(o) PROVE Path(o)'
  BY <1>t, <1>k, <1>15 DEF Path, HostPortFor, GoOn, env, ops
<1>16. ASSUME NEW o \in Ops, Finish(o) PROVE Path(o)'
  BY <1>t, <1>k, <1>16 DEF Path, Finish, Return, env, ops
<1>17. ASSUME NEW o \in Ops, Crash(o) PROVE Path(o)'
  BY <1>t, <1>k, <1>17 DEF Path, Crash, Return, env, ops
<1>18. ASSUME NEW o \in Ops, ReadToSleep(o) PROVE Path(o)'
  BY <1>t, <1>k, <1>18 DEF Path, ReadToSleep, GoOn, Return, env, ops
<1>19. ASSUME NEW o \in Ops, SaveSleeping(o) PROVE Path(o)'
  BY <1>t, <1>k, <1>19 DEF Path, SaveSleeping, Return, env, ops
<1>20. ASSUME NEW o \in Ops, DeleteRow(o) PROVE Path(o)'
  BY <1>t, <1>k, <1>20 DEF Path, DeleteRow, Return, env, ops
<1>21. ASSUME NEW o \in Ops, NEW k \in {"up", "wake", "sleep", "stop"}, BeginOp(o, k)
      PROVE  \A p \in Ops : Path(p)'
  BY <1>t, <1>k, <1>21 DEF Path, BeginOp
<1>22. CASE (\E o \in Ops : EndCtx(o)) \/ (\E b \in Boxes : BoxDies(b)) \/ UNCHANGED runtimeVars
  BY <1>22 DEF Path, EndCtx, BoxDies, runtimeVars, ops
<1>23. CASE Restart
  BY <1>t, <1>23 DEF Path, Restart, Running
<1>24. ASSUME NEW o \in Ops, Step(o) PROVE Path(o)'
  BY <1>24, <1>2, <1>3, <1>4, <1>5, <1>6, <1>7, <1>8, <1>9, <1>10, <1>11, <1>12, <1>13, <1>14, <1>15, <1>16, <1>17, <1>18, <1>19, <1>20, Zenon DEF Step
<1> QED
  BY <1>1, <1>21, <1>22, <1>23, <1>24, Zenon DEF RuntimeNext
-----------------------------------------------------------------------------
Quiet(o) ==
    \/ GetRow(o) \/ ReadLive(o) \/ AlreadyLive(o) \/ MakeDir(o) \/ Probe(o) \/ Scaffold(o)
    \/ StartDevServer(o) \/ WaitForDevServer(o) \/ HostPortFor(o) \/ Finish(o) \/ Crash(o)
    \/ ReadToSleep(o) \/ SaveSleeping(o) \/ DeleteRow(o)

\* The steps that leave map and containers alone, and where they lead.
LEMMA QuietMoves ==
    ASSUME NEW o \in Ops, Quiet(o), AppTypes, Path(o)
    PROVE  /\ UNCHANGED <<live, holds, up, made, by, astray>>
           /\ answered \subseteq answered' /\ at[o] \notin {"close", "install"}
           /\ at'[o] \notin {"close", "install", "new"}
           /\ at'[o] \in Early => at[o] \in Early
           /\ at'[o] \in Cleared => at[o] \in Cleared \/ live = NoOp
           /\ at'[o] \in Opened => at[o] \in Opened
           /\ at'[o] = "fast" => live # NoOp /\ holds[live] \in up
           /\ at'[o] \in {"port", "finish"} =>
                at[o] \in {"port", "finish"} \/ holds[o] \in answered'
<1> USE DEF Cleared, Opened, Early
<1>t. at \in [Ops -> AppPlaces]
  BY DEF AppTypes
<1>1. CASE GetRow(o)
  BY <1>t, <1>1 DEF GetRow, GoOn, Return, docker, env
<1>2. CASE ReadLive(o)
  BY <1>t, <1>2 DEF ReadLive, GoOn, docker, env
<1>3. CASE AlreadyLive(o)
  BY <1>t, <1>3 DEF AlreadyLive, Return, docker, env
<1>4. CASE MakeDir(o)
  BY <1>t, <1>4 DEF MakeDir, GoOn, Return, docker, env
<1>5. CASE Probe(o)
  BY <1>t, <1>5 DEF Probe, GoOn, docker, env
<1>6. CASE Scaffold(o)
  BY <1>t, <1>6 DEF Scaffold, GoOn, docker, env
<1>7. CASE StartDevServer(o)
  BY <1>t, <1>7 DEF StartDevServer, GoOn, docker, env
<1>8. CASE WaitForDevServer(o)
  BY <1>t, <1>8 DEF WaitForDevServer, GoOn, docker, env
<1>9. CASE HostPortFor(o)
  BY <1>t, <1>9 DEF HostPortFor, GoOn, docker, env
<1>10. CASE Finish(o)
  BY <1>t, <1>10 DEF Finish, Return, docker, env
<1>11. CASE Crash(o)
  BY <1>t, <1>11 DEF Crash, Return, docker, env
<1>12. CASE ReadToSleep(o)
  BY <1>t, <1>12 DEF ReadToSleep, GoOn, Return, docker, env
<1>13. CASE SaveSleeping(o)
  BY <1>t, <1>13 DEF SaveSleeping, Return, docker, env
<1>14. CASE DeleteRow(o)
  BY <1>t, <1>14 DEF DeleteRow, Return, docker, env
<1> QED
  BY <1>1, <1>2, <1>3, <1>4, <1>5, <1>6, <1>7, <1>8, <1>9, <1>10, <1>11, <1>12, <1>13, <1>14, Zenon DEF Quiet

\* The other steps: what they do to the map, and where they lead.
LEMMA LoudMoves ==
    ASSUME NEW o \in Ops, AppTypes, Path(o)
    PROVE  /\ Evict(o) =>
                /\ at[o] = "evict" /\ live' = NoOp /\ sb'[o] = live
                /\ at'[o] \in {"close", "dir", "mark", "delete"} /\ (live = NoOp \/ at'[o] = "close")
                /\ UNCHANGED <<holds, up, made, by, astray, answered>>
           /\ Close(o) =>
                /\ at[o] = "close" /\ at'[o] \in {"dir", "mark", "delete"} /\ sb[o] \in Ops
                /\ UNCHANGED <<live, made, by, astray, answered>>
           /\ Create(o) =>
                /\ at[o] = "create" /\ at'[o] \in {"install", "end"} /\ sb[o] = o
                /\ \/ NewBox(o) /\ (at'[o] = "install" \/ made + 1 \in astray')
                   \/ at'[o] = "end" /\ UNCHANGED <<holds, up, made, by>>
                /\ astray \subseteq astray' /\ UNCHANGED <<live, answered>>
           /\ Install(o) =>
                /\ at[o] = "install" /\ at'[o] = "probe" /\ live' = o
                /\ UNCHANGED <<holds, up, made, by, astray, answered>>
           /\ Reopen(o) =>
                /\ at[o] \in Opened \ {"port", "finish"} /\ at' = at /\ sb' = sb /\ sb[o] = o
                /\ holds[o] = 0 /\ NewBox(o) /\ UNCHANGED <<live, astray, answered>>
<1> USE DEF Opened
<1>t. at \in [Ops -> AppPlaces] /\ sb \in [Ops -> Ops \cup {NoOp}]
  BY DEF AppTypes, RuntimeTypeOK
<1>1. ASSUME Evict(o)
      PROVE  /\ at[o] = "evict" /\ live' = NoOp /\ sb'[o] = live
             /\ at'[o] \in {"close", "dir", "mark", "delete"} /\ (live = NoOp \/ at'[o] = "close")
             /\ UNCHANGED <<holds, up, made, by, astray, answered>>
  BY <1>t, <1>1 DEF Evict, After, GoOn, docker
<1>2. ASSUME Close(o)
      PROVE  /\ at[o] = "close" /\ at'[o] \in {"dir", "mark", "delete"} /\ sb[o] \in Ops
             /\ UNCHANGED <<live, made, by, astray, answered>>
  BY <1>t, <1>2 DEF Close, After, GoOn, Path
<1>3. ASSUME Create(o)
      PROVE  /\ at[o] = "create" /\ at'[o] \in {"install", "end"} /\ sb[o] = o
             /\ \/ NewBox(o) /\ (at'[o] = "install" \/ made + 1 \in astray')
                \/ at'[o] = "end" /\ UNCHANGED <<holds, up, made, by>>
             /\ astray \subseteq astray' /\ UNCHANGED <<live, answered>>
  BY <1>t, <1>3 DEF Create, GoOn, Return, Path
<1>4. ASSUME Install(o)
      PROVE  /\ at[o] = "install" /\ at'[o] = "probe" /\ live' = o
             /\ UNCHANGED <<holds, up, made, by, astray, answered>>
  BY <1>t, <1>4 DEF Install, GoOn, docker
<1>5. ASSUME Reopen(o)
      PROVE  /\ at[o] \in Opened \ {"port", "finish"} /\ at' = at /\ sb' = sb /\ sb[o] = o
             /\ holds[o] = 0 /\ NewBox(o) /\ UNCHANGED <<live, astray, answered>>
  BY <1>t, <1>5 DEF Reopen, ops, Path
<1> QED
  BY <1>1, <1>2, <1>3, <1>4, <1>5, Zenon

\* The steps of the operations, and of the world.
LEMMA Steps ==
    ASSUME [RuntimeNext]_runtimeVars
    PROVE  \/ \E o \in Ops : Step(o) /\ (Quiet(o) \/ Evict(o) \/ Close(o) \/ Create(o)
                                        \/ Install(o) \/ Reopen(o))
           \/ \E o \in Ops, k \in {"up", "wake", "sleep", "stop"} : BeginOp(o, k)
           \/ \E o \in Ops : EndCtx(o)
           \/ \E b \in Boxes : BoxDies(b)
           \/ Restart \/ UNCHANGED runtimeVars
  BY Zenon DEF RuntimeNext, Step, Quiet

LEMMA TogetherStep ==
    ASSUME AppTypes, Together, [RuntimeNext]_runtimeVars PROVE Together'
<1>t. at \in [Ops -> AppPlaces]
  BY DEF AppTypes
<1>1. ASSUME NEW o \in Ops, Step(o) PROVE Together'
  BY <1>1, StepFrame DEF Together, Running
<1>2. ASSUME NEW o \in Ops, NEW k \in {"up", "wake", "sleep", "stop"}, BeginOp(o, k)
      PROVE  Together'
  BY <1>t, <1>2 DEF Together, Running, BeginOp
<1>3. CASE (\E o \in Ops : EndCtx(o)) \/ (\E b \in Boxes : BoxDies(b)) \/ UNCHANGED runtimeVars
  BY <1>3 DEF Together, Running, EndCtx, BoxDies, runtimeVars, ops, env
<1>4. CASE Restart
  BY <1>t, <1>4 DEF Together, Running, Restart
<1> QED
  BY <1>1, <1>2, <1>3, <1>4, Steps, Zenon

\* Two operations under way.
LEMMA Beside ==
    ASSUME Together, NEW o \in Ops, NEW p \in Ops, o # p,
           at[o] \notin {"new", "end"}, at[p] \notin {"new", "end"}
    PROVE  o \in mixed /\ p \in mixed
  BY DEF Together, Running

LEMMA EntryStep ==
    ASSUME AppInv, [RuntimeNext]_runtimeVars PROVE \A p \in Ops : Entry(p)'
<1>t. /\ AppTypes /\ Together /\ at \in [Ops -> AppPlaces]
      /\ \A p \in Ops : Path(p) /\ Entry(p)
  BY DEF AppInv, AppTypes
<1>1. ASSUME NEW o \in Ops, Step(o),
             Quiet(o) \/ Evict(o) \/ Close(o) \/ Create(o) \/ Install(o) \/ Reopen(o)
      PROVE  \A p \in Ops : Entry(p)'
  <2>1. mixed' = mixed /\ live' \in {live, NoOp, o}
    BY <1>1, <1>t, StepFrame, QuietMoves, LoudMoves
  <2>2. ASSUME NEW p \in Ops, p # o PROVE Entry(p)'
    <3>1. at'[p] = at[p] /\ at[o] \notin {"new", "end"}
      BY <1>1, <1>t, <2>2, StepFrame
    <3>2. at[p] \notin {"new", "end"} => o \in mixed /\ p \in mixed
      BY <1>t, <2>2, <3>1, Beside
    <3> QED
      BY <1>t, <2>1, <3>1, <3>2 DEF Entry, Cleared, Opened
  <2>3. Entry(o)'
    <3>1. CASE Quiet(o)
      BY <1>t, <2>1, <3>1, QuietMoves DEF Entry
    <3>2. CASE ~Quiet(o)
      BY <1>1, <1>t, <2>1, <3>2, LoudMoves DEF Entry, Cleared, Opened
    <3> QED
      BY <3>1, <3>2
  <2> QED
    BY <2>2, <2>3
<1>2. ASSUME NEW o \in Ops, NEW k \in {"up", "wake", "sleep", "stop"}, BeginOp(o, k)
      PROVE  \A p \in Ops : Entry(p)'
  BY <1>t, <1>2 DEF BeginOp, Entry, Cleared, Opened
<1>3. CASE (\E o \in Ops : EndCtx(o)) \/ (\E b \in Boxes : BoxDies(b)) \/ UNCHANGED runtimeVars
  BY <1>t, <1>3 DEF Entry, EndCtx, BoxDies, runtimeVars, ops, env
<1>4. CASE Restart
  BY <1>t, <1>4 DEF Entry, Restart, Running, Cleared, Opened
<1> QED
  BY <1>1, <1>2, <1>3, <1>4, Steps, Zenon

LEMMA FoundStep ==
    ASSUME AppInv, [RuntimeNext]_runtimeVars PROVE \A p \in Ops : InPlace(p)'
<1>t. /\ AppTypes /\ Together /\ at \in [Ops -> AppPlaces] /\ holds \in [Ops -> 0..MaxBoxes]
      /\ \A p \in Ops : Path(p) /\ InPlace(p)
  BY DEF AppInv, AppTypes, RuntimeTypeOK
<1>1. ASSUME NEW o \in Ops, Step(o),
             Quiet(o) \/ Evict(o) \/ Close(o) \/ Create(o) \/ Install(o) \/ Reopen(o)
      PROVE  \A p \in Ops : InPlace(p)'
  <2>1. mixed' = mixed /\ at[o] \notin {"new", "end"}
    BY <1>1, <1>t, StepFrame
  <2>2. ASSUME NEW p \in Ops, p # o PROVE InPlace(p)'
    <3>1. at'[p] = at[p]
      BY <1>1, <1>t, <2>2, StepFrame
    <3>2. at[p] \notin {"new", "end"} => p \in mixed
      BY <1>t, <2>1, <2>2, Beside
    <3> QED
      BY <2>1, <3>1, <3>2 DEF InPlace, Opened
  <2>3. InPlace(o)'
    <3>1. CASE Quiet(o)
      <4>1. up \subseteq 1..made /\ made \in Nat
        BY <1>t DEF AppTypes, RuntimeTypeOK
      <4> QED
        BY <1>t, <2>1, <3>1, <4>1, QuietMoves DEF InPlace
    <3>2. CASE Evict(o) \/ Close(o)
      BY <1>t, <3>2, LoudMoves DEF InPlace, Opened
    <3>3. CASE Create(o) \/ Reopen(o)
      <4>1. made + 1 # 0
        BY <1>t DEF AppTypes
      <4>2. NewBox(o) => holds'[sb[o]] = made + 1 \/ sb[o] \notin Ops
        BY <1>t DEF NewBox
      <4> QED
        BY <1>t, <3>3, <4>1, <4>2, LoudMoves DEF InPlace, Opened
    <3>4. CASE Install(o)
      BY <1>t, <2>1, <3>4, LoudMoves DEF InPlace, Opened
    <3> QED
      BY <1>1, <3>1, <3>2, <3>3, <3>4
  <2> QED
    BY <2>2, <2>3
<1>2. ASSUME NEW o \in Ops, NEW k \in {"up", "wake", "sleep", "stop"}, BeginOp(o, k)
      PROVE  \A p \in Ops : InPlace(p)'
  BY <1>t, <1>2 DEF BeginOp, InPlace, Opened, docker
<1>3. CASE (\E o \in Ops : EndCtx(o)) \/ (\E b \in Boxes : BoxDies(b)) \/ UNCHANGED runtimeVars
  BY <1>t, <1>3 DEF InPlace, EndCtx, BoxDies, runtimeVars, ops, env, docker
<1>4. CASE Restart
  BY <1>t, <1>4 DEF InPlace, Restart, Running, Opened
<1> QED
  BY <1>1, <1>2, <1>3, <1>4, Steps, Zenon

LEMMA MindedStep ==
    ASSUME AppInv, [RuntimeNext]_runtimeVars, NEW s \in Ops, holds'[s] \in up'
    PROVE  holds'[s] \in astray' \/ Minded(s)'
<1>t. /\ AppTypes /\ Together /\ at \in [Ops -> AppPlaces] /\ sb \in [Ops -> Ops \cup {NoOp}]
      /\ holds \in [Ops -> 0..MaxBoxes] /\ up \subseteq 1..made /\ made \in Nat
      /\ \A p \in Ops : Path(p) /\ Entry(p)
      /\ holds[s] \in up => holds[s] \in astray \/ Minded(s)
  BY DEF AppInv, AppTypes, RuntimeTypeOK
<1>1. ASSUME NEW o \in Ops, Step(o),
             Quiet(o) \/ Evict(o) \/ Close(o) \/ Create(o) \/ Install(o) \/ Reopen(o)
      PROVE  holds'[s] \in astray' \/ Minded(s)'
  <2>1. /\ mixed' = mixed /\ at[o] \notin {"new", "end"}
        /\ \A p \in Ops : p # o => at'[p] = at[p] /\ sb'[p] = sb[p]
    BY <1>1, <1>t, StepFrame
  <2>2. CASE Quiet(o)
    BY <1>t, <2>1, <2>2, QuietMoves DEF Minded
  <2>3. CASE Evict(o)
    BY <1>t, <2>1, <2>3, LoudMoves, RuntimeAssumption DEF Minded
  <2>4. CASE Close(o)
    <3>1. holds' = [holds EXCEPT ![sb[o]] = 0] /\ up' = up \ {holds[sb[o]]}
      BY <2>4 DEF Close
    <3>2. s # sb[o] /\ holds[s] \in up
      BY <1>t, <3>1, <2>4, LoudMoves
    <3> QED
      BY <1>t, <2>1, <2>4, <3>1, <3>2, LoudMoves DEF Minded
  <2>5. CASE Create(o) \/ Reopen(o)
    <3>1. (NewBox(o) /\ sb[o] = o) \/ UNCHANGED <<holds, up>>
      BY <1>t, <2>5, LoudMoves
    <3>2. CASE s # o
      <4>1. holds[s] \in up
        <5>1. holds'[s] = holds[s]
          BY <1>t, <3>1, <3>2 DEF NewBox
        <5>2. holds[s] # made + 1
          BY <1>t DEF AppInv, Own
        <5> QED
          BY <3>1, <5>1, <5>2 DEF NewBox
      <4>2. astray \subseteq astray' /\ live' = live /\ holds'[s] = holds[s]
        BY <1>t, <2>5, <3>1, <3>2, LoudMoves DEF NewBox
      <4> QED
        BY <1>t, <2>1, <2>5, <3>2, <4>1, <4>2, LoudMoves DEF Minded, Opened
    <3>3. CASE s = o /\ Create(o)
      <4>1. holds[o] = 0
        BY <1>t, <3>3, LoudMoves DEF AppInv, Own, Early
      <4> QED
        BY <1>t, <3>3, <4>1, LoudMoves DEF Minded, NewBox
    <3>4. CASE s = o /\ Reopen(o)
      BY <1>t, <2>1, <3>4, LoudMoves DEF Minded, Entry
    <3> QED
      BY <2>5, <3>2, <3>3, <3>4
  <2>6. CASE Install(o)
    <3>1. live = NoOp \/ live \in mixed
      BY <1>t, <2>6, LoudMoves DEF Entry, Cleared
    <3> QED
      BY <1>t, <2>1, <2>6, <3>1, LoudMoves, RuntimeAssumption DEF Minded
  <2> QED
    BY <1>1, <2>2, <2>3, <2>4, <2>5, <2>6
<1>2. ASSUME NEW o \in Ops, NEW k \in {"up", "wake", "sleep", "stop"}, BeginOp(o, k)
      PROVE  holds'[s] \in astray' \/ Minded(s)'
  BY <1>t, <1>2 DEF BeginOp, Minded, docker
<1>3. CASE (\E o \in Ops : EndCtx(o)) \/ (\E b \in Boxes : BoxDies(b)) \/ UNCHANGED runtimeVars
  BY <1>t, <1>3 DEF Minded, EndCtx, BoxDies, runtimeVars, ops, env, docker
<1>4. CASE Restart
  BY <1>t, <1>4 DEF Restart, docker
<1> QED
  BY <1>1, <1>2, <1>3, <1>4, Steps, Zenon

LEMMA OwnStep ==
    ASSUME AppInv, [RuntimeNext]_runtimeVars, NEW s \in Ops PROVE Own(s)'
<1>t. /\ AppTypes /\ Together /\ at \in [Ops -> AppPlaces] /\ sb \in [Ops -> Ops \cup {NoOp}]
      /\ holds \in [Ops -> 0..MaxBoxes] /\ made \in Nat /\ by \in [1..MaxBoxes -> Ops \cup {NoOp}]
      /\ \A p \in Ops : Path(p) /\ Own(p)
  BY DEF AppInv, AppTypes, RuntimeTypeOK, Boxes
<1>1. ASSUME NEW o \in Ops, Step(o),
             Quiet(o) \/ Evict(o) \/ Close(o) \/ Create(o) \/ Install(o) \/ Reopen(o)
      PROVE  Own(s)'
  <2>1. died' = died /\ \A p \in Ops : p # o => at'[p] = at[p]
    BY <1>1, <1>t, StepFrame
  <2>2. CASE Quiet(o)
    <3>1. /\ UNCHANGED <<live, holds, up, made, by>>
          /\ at'[o] \in Early => at[o] \in Early
          /\ at'[o] # "install"
      BY <1>t, <2>2, QuietMoves
    <3>2. at'[s] = at[s] \/ s = o
      BY <2>1
    <3> QED
      BY <1>t, <2>1, <3>1, <3>2 DEF Own
  <2>3. CASE Evict(o) \/ Install(o)
    BY <1>t, <2>1, <2>3, LoudMoves, RuntimeAssumption DEF Own, Early
  <2>4. CASE Close(o)
    <3>1. holds' = [holds EXCEPT ![sb[o]] = 0] /\ up' = up \ {holds[sb[o]]}
      BY <2>4 DEF Close
    <3>2. s # sb[o] /\ holds[s] # 0 => holds[s] # holds[sb[o]]
      BY <1>t, <2>4, LoudMoves DEF Own
    <3> QED
      <4>1. /\ UNCHANGED <<live, made, by>> /\ at[o] \in Early
            /\ sb[o] \in Ops /\ at'[o] # "install"
        BY <1>t, <2>4, LoudMoves DEF Early
      <4>2. s = sb[o] \/ holds'[s] = holds[s]
        BY <1>t, <3>1
      <4>3. s = sb[o] => holds'[s] = 0
        BY <1>t, <3>1
      <4>4. at'[s] = at[s] \/ s = o
        BY <2>1
      <4> QED
        BY <1>t, <2>1, <3>1, <3>2, <4>1, <4>2, <4>3, <4>4 DEF Own
  <2>5. CASE (Create(o) \/ Reopen(o)) /\ NewBox(o)
    <3>1. /\ made' = made + 1 /\ up' = up \cup {made + 1} /\ made + 1 \in 1..MaxBoxes
          /\ holds' = [holds EXCEPT ![o] = made + 1] /\ by' = [by EXCEPT ![made + 1] = o]
          /\ live' = live
      <4>1. sb[o] = o /\ live' = live
        BY <1>t, <2>5, LoudMoves
      <4> QED
        BY <1>t, <2>5, <4>1, RuntimeAssumption DEF NewBox
    <3>2. /\ at'[o] \notin Early
          /\ at'[o] \in Early \cup {"install"} => at[o] \in Early \cup {"install"}
      BY <1>t, <2>5, LoudMoves DEF Early, Opened
    <3>3. CASE s = o
      BY <1>t, <3>1, <3>2, <3>3 DEF Own
    <3>4. CASE s # o
      <4>1. holds'[s] = holds[s] /\ (holds[s] # 0 => holds[s] \in 1..made /\ holds[s] # made + 1)
        BY <1>t, <3>1, <3>4 DEF Own
      <4> QED
        BY <1>t, <2>1, <3>1, <3>4, <4>1 DEF Own
    <3> QED
      BY <3>3, <3>4
  <2>6. CASE Create(o) /\ ~NewBox(o)
    <3>1. at'[o] = "end" /\ UNCHANGED <<holds, up, made, by>> /\ live' = live
      BY <1>t, <2>6, LoudMoves, Zenon
    <3> QED
      BY <1>t, <2>1, <3>1 DEF Own, Early
  <2> QED
    BY <1>1, <1>t, <2>2, <2>3, <2>4, <2>5, <2>6, LoudMoves
<1>2. ASSUME NEW o \in Ops, NEW k \in {"up", "wake", "sleep", "stop"}, BeginOp(o, k)
      PROVE  Own(s)'
  BY <1>t, <1>2 DEF BeginOp, Own, Early, docker
<1>3. CASE (\E o \in Ops : EndCtx(o)) \/ (\E b \in Boxes : BoxDies(b)) \/ UNCHANGED runtimeVars
  BY <1>t, <1>3 DEF Own, EndCtx, BoxDies, runtimeVars, ops, env, docker
<1>4. CASE Restart
  BY <1>t, <1>4, RuntimeAssumption DEF Own, Restart, Running, Early
<1> QED
  BY <1>1, <1>2, <1>3, <1>4, Steps, Zenon

LEMMA HeldStep ==
    ASSUME AppInv, [RuntimeNext]_runtimeVars PROVE Held'
<1>t. /\ AppTypes /\ Held /\ sb \in [Ops -> Ops \cup {NoOp}]
      /\ holds \in [Ops -> 0..MaxBoxes] /\ up \subseteq 1..made /\ made \in Nat
      /\ \A p \in Ops : Path(p) /\ Own(p)
  BY DEF AppInv, AppTypes, RuntimeTypeOK
<1>1. ASSUME NEW o \in Ops,
             Quiet(o) \/ Evict(o) \/ Close(o) \/ Create(o) \/ Install(o) \/ Reopen(o)
      PROVE  Held'
  <2>1. CASE Quiet(o)
    BY <1>t, <2>1, QuietMoves DEF Held
  <2>2. CASE Evict(o) \/ Install(o)
    BY <1>t, <2>2, LoudMoves DEF Held
  <2>3. CASE Close(o)
    <3>1. /\ holds' = [holds EXCEPT ![sb[o]] = 0] /\ up' = up \ {holds[sb[o]]}
          /\ astray' = astray
      BY <1>t, <2>3, LoudMoves DEF Close
    <3> QED
      BY <1>t, <3>1 DEF Held
  <2>4. CASE (Create(o) \/ Reopen(o)) /\ NewBox(o)
    <3>1. sb[o] = o /\ holds[o] = 0 /\ astray \subseteq astray'
      BY <1>t, <2>4, LoudMoves DEF Own, Early
    <3>2. up' = up \cup {made + 1} /\ holds' = [holds EXCEPT ![o] = made + 1]
      BY <2>4, <3>1 DEF NewBox
    <3> QED
      BY <1>t, <3>1, <3>2 DEF Held
  <2>5. CASE Create(o) /\ ~NewBox(o)
    <3>1. UNCHANGED <<holds, up, made, by>> /\ astray \subseteq astray'
      BY <1>t, <2>5, LoudMoves, Zenon
    <3> QED
      BY <1>t, <3>1 DEF Held
  <2> QED
    BY <1>1, <1>t, <2>1, <2>2, <2>3, <2>4, <2>5, LoudMoves
<1>2. ASSUME NEW o \in Ops, NEW k \in {"up", "wake", "sleep", "stop"}, BeginOp(o, k)
      PROVE  Held'
  BY <1>t, <1>2 DEF BeginOp, Held, docker
<1>3. CASE (\E o \in Ops : EndCtx(o)) \/ (\E b \in Boxes : BoxDies(b)) \/ UNCHANGED runtimeVars
  BY <1>t, <1>3 DEF Held, EndCtx, BoxDies, runtimeVars, ops, env, docker
<1>4. CASE Restart
  BY <1>4 DEF Held, Restart, docker
<1> QED
  BY <1>1, <1>2, <1>3, <1>4, Steps, Zenon

LEMMA AppNextInv == AppInv /\ [RuntimeNext]_runtimeVars => AppInv'
<1> SUFFICES ASSUME AppInv, [RuntimeNext]_runtimeVars PROVE AppInv'
  OBVIOUS
<1>1. AppTypes' /\ Together' /\ Held'
  BY TypeStep, TogetherStep, HeldStep DEF AppInv
<1>2. \A o \in Ops : Path(o)' /\ Own(o)' /\ Entry(o)' /\ InPlace(o)'
  BY PathStep, OwnStep, EntryStep, FoundStep DEF AppInv
<1>3. \A s \in Ops : holds'[s] \in up' => holds'[s] \in astray' \/ Minded(s)'
  BY MindedStep
<1> QED
  BY <1>1, <1>2, <1>3 DEF AppInv

\* A container that nobody can close was made by an Up that ran beside another
\* operation, never started, or is from before a restart.
LEMMA Adrift == AppInv => NoneAdrift
<1> SUFFICES ASSUME AppInv, NEW b \in up, b \notin astray
             PROVE  b \in Known \/ by[b] \in mixed
  BY DEF NoneAdrift
<1>1. PICK s \in Ops : holds[s] = b
  BY DEF AppInv, Held
<1>2. by[b] = s
  BY <1>1 DEF AppInv, Own, AppTypes, RuntimeTypeOK
<1>3. CASE at[s] = "install"
  BY <1>1, <1>3, RuntimeAssumption DEF Known, Running, AppInv, Path
<1>4. CASE \E p \in Ops : at[p] = "close" /\ sb[p] = s
  BY <1>1, <1>4, RuntimeAssumption DEF Known, Running
<1>5. CASE live = s
  BY <1>1, <1>5, RuntimeAssumption DEF Known
<1> QED
  BY <1>1, <1>2, <1>3, <1>4, <1>5 DEF AppInv, Minded
-----------------------------------------------------------------------------
\* What an operation leaves, case by case.
Leaves(o) ==
    /\ o \in ok /\ what[o] \in {"up", "wake"} =>
         /\ Served /\ (row = "running" \/ o \notin ctx)
         /\ live = o => holds[o] \in answered \cup died
    /\ o \in ok /\ what[o] = "sleep" => live = NoOp /\ row \in {"absent", "sleeping"}
    /\ o \in ok /\ what[o] = "stop" => live = NoOp /\ row = "absent"
    /\ o \notin ok /\ o \in ctx /\ what[o] = "up" => row = "crashed"

LEMMA LeavesCases ==
    ASSUME AppTypes PROVE LeavesOwn <=> (Alone(last) => Leaves(last))
<1>1. CASE Alone(last)
  <2>1. what[last] \in {"up", "wake", "sleep", "stop"}
    BY <1>1 DEF AppTypes, RuntimeTypeOK, Alone
  <2> QED
    BY <1>1, <2>1 DEF LeavesOwn, Leaves
<1>2. CASE ~Alone(last)
  BY <1>2 DEF LeavesOwn
<1> QED
  BY <1>1, <1>2

\* The operation that returned is the one that ended last.
LEMMA Returns ==
    ASSUME NEW o \in Ops, Step(o), AppTypes, at'[o] = "end"
    PROVE  /\ last' = o /\ UNCHANGED <<live, answered>>
           /\ \/ GetRow(o) \/ AlreadyLive(o) \/ MakeDir(o) \/ Create(o) \/ Finish(o)
              \/ Crash(o) \/ ReadToSleep(o) \/ SaveSleeping(o) \/ DeleteRow(o)
<1>t. at \in [Ops -> AppPlaces] /\ at[o] \notin {"new", "end"}
  BY StepFrame DEF AppTypes
<1>1. CASE ReadLive(o) \/ Evict(o) \/ Close(o) \/ Install(o) \/ Reopen(o) \/ Probe(o)
  BY <1>t, <1>1 DEF ReadLive, Evict, After, Close, Install, Reopen, Probe, GoOn, ops
<1>2. CASE Scaffold(o) \/ StartDevServer(o) \/ WaitForDevServer(o) \/ HostPortFor(o)
  BY <1>t, <1>2 DEF Scaffold, StartDevServer, WaitForDevServer, HostPortFor, GoOn
<1>3. ASSUME \/ GetRow(o) \/ AlreadyLive(o) \/ Finish(o) \/ Crash(o)
             \/ ReadToSleep(o) \/ SaveSleeping(o) \/ DeleteRow(o)
      PROVE  last' = o /\ UNCHANGED <<live, answered>>
  BY <1>t, <1>3 DEF GetRow, AlreadyLive, Finish, Crash, ReadToSleep, SaveSleeping, DeleteRow,
     GoOn, Return, docker
<1>4. ASSUME MakeDir(o) \/ Create(o) PROVE last' = o /\ UNCHANGED <<live, answered>>
  BY <1>t, <1>4 DEF MakeDir, Create, GoOn, Return, docker
<1> QED
  BY <1>1, <1>2, <1>3, <1>4, Zenon DEF Step

\* What an operation leaves that ran alone.
LEMMA LeavesAlone ==
    ASSUME AppInv, NEW o \in Ops, Step(o), at'[o] = "end", o \notin mixed
    PROVE  Leaves(o)'
<1> USE DEF Leaves, Return, SaveStatus
<1>t. /\ ok \subseteq Ops /\ ctx' = ctx /\ what' = what /\ died' = died /\ live' = live
      /\ o \notin ok /\ at \in [Ops -> AppPlaces] /\ what[o] \in {"up", "wake", "sleep", "stop"}
  <2>1. AppTypes /\ Path(o) /\ at[o] # "end"
    BY StepFrame DEF AppInv
  <2> QED
    BY <2>1, StepFrame, Returns DEF AppTypes, RuntimeTypeOK, env, Path
<1>i. Path(o) /\ Own(o) /\ Entry(o) /\ InPlace(o)
  BY DEF AppInv
<1>1. CASE GetRow(o)
  BY <1>t, <1>i, <1>1 DEF GetRow, GoOn, Path
<1>2. CASE AlreadyLive(o)
  <2>1. live \in Ops /\ live # o /\ holds[live] \in up \cup died
    BY <1>t, <1>i, <1>2 DEF AlreadyLive, InPlace, Own, Early, AppInv, AppTypes, RuntimeTypeOK
  <2> QED
    BY <1>t, <1>i, <1>2, <2>1, RuntimeAssumption DEF AlreadyLive, Path, Served, docker
<1>3. CASE MakeDir(o)
  BY <1>t, <1>i, <1>3 DEF MakeDir, GoOn, Path
<1>4. CASE Create(o)
  BY <1>t, <1>i, <1>4 DEF Create, GoOn, Path
<1>5. CASE Finish(o)
  <2>1. live = o /\ holds[o] \in up \cup died /\ holds[o] \in answered
    BY <1>t, <1>i, <1>5 DEF Finish, Entry, InPlace, Own, Opened
  <2> QED
    BY <1>t, <1>i, <1>5, <2>1, RuntimeAssumption DEF Finish, Path, Served, docker, Opened
<1>6. CASE Crash(o)
  BY <1>t, <1>i, <1>6 DEF Crash, Path
<1>7. CASE ReadToSleep(o) \/ SaveSleeping(o)
  <2>1. live = NoOp /\ what[o] = "sleep"
    BY <1>t, <1>i, <1>7 DEF ReadToSleep, SaveSleeping, Entry, Cleared, Path
  <2> QED
    BY <1>t, <1>7, <2>1 DEF ReadToSleep, SaveSleeping, GoOn
<1>8. CASE DeleteRow(o)
  <2>1. live = NoOp /\ what[o] = "stop"
    BY <1>t, <1>i, <1>8 DEF DeleteRow, Entry, Cleared, Path
  <2> QED
    BY <1>t, <1>8, <2>1 DEF DeleteRow
<1> QED
  <2>1. AppTypes
    BY DEF AppInv
  <2> QED
    BY <2>1, <1>1, <1>2, <1>3, <1>4, <1>5, <1>6, <1>7, <1>8, Returns

LEMMA LeavesStep ==
    ASSUME AppInv, LeavesOwn, [RuntimeNext]_runtimeVars PROVE LeavesOwn'
<1>t. AppTypes /\ at \in [Ops -> AppPlaces] /\ AppTypes'
  BY AppNextInv DEF AppInv, AppTypes
<1> SUFFICES ASSUME Alone(last)' PROVE Leaves(last)'
  <2>1. Alone(last)' => what'[last'] \in {"up", "wake", "sleep", "stop"}
    BY <1>t DEF AppTypes, RuntimeTypeOK, Alone
  <2> QED
    BY <2>1 DEF LeavesOwn, Leaves
<1>1. ASSUME NEW o \in Ops, Step(o),
             Quiet(o) \/ Evict(o) \/ Close(o) \/ Create(o) \/ Install(o) \/ Reopen(o)
      PROVE  Leaves(last)'
  <2>1. at'[o] # "new" /\ mixed' = mixed
    <3>1. Path(o) /\ mixed' = mixed /\ at[o] # "new"
      BY <1>1, <1>t, StepFrame DEF AppInv
    <3> QED
      BY <1>1, <1>t, <3>1, QuietMoves, LoudMoves
  <2>2. at'[o] = "end"
    BY <2>1 DEF Alone, Running
  <2>3. last' = o
    BY <1>1, <1>t, <2>2, Returns
  <2>4. o \notin mixed
    BY <2>1, <2>3 DEF Alone
  <2>5. Leaves(o)'
    BY <1>1, <2>2, <2>4, LeavesAlone
  <2> QED
    BY <2>3, <2>5 DEF Leaves
<1>2. ASSUME NEW o \in Ops, NEW k \in {"up", "wake", "sleep", "stop"}, BeginOp(o, k)
      PROVE  FALSE
  BY <1>t, <1>2 DEF BeginOp, Alone, Running
<1>3. ASSUME NEW o \in Ops, EndCtx(o) PROVE FALSE
  BY <1>3 DEF EndCtx, Alone, Running, ops
<1>4. CASE (\E b \in Boxes : BoxDies(b)) \/ UNCHANGED runtimeVars
  <2>1. /\ UNCHANGED <<at, what, ok, last, ctx, row, live, holds, answered, mixed>>
        /\ up \cup died \subseteq up' \cup died' /\ died \subseteq died'
    BY <1>4 DEF BoxDies, runtimeVars, ops, env, docker
  <2>2. Alone(last) /\ Leaves(last)
    BY <1>t, <2>1, LeavesCases DEF Alone, Running
  <2> QED
    BY <2>1, <2>2 DEF Leaves, Served
<1>5. CASE Restart
  BY <1>5 DEF Restart, Alone
<1> QED
  BY <1>1, <1>2, <1>3, <1>4, <1>5, Steps, Zenon

\* The variables of an app keep their types, however many operations there are.
THEOREM RuntimeTypeCorrect == RuntimeSpec => []RuntimeTypeOK
<1>1. RuntimeInit => AppInv
  BY AppInitInv
<1>2. AppInv /\ [RuntimeNext]_runtimeVars => AppInv'
  BY AppNextInv
<1>3. AppInv => RuntimeTypeOK
  BY DEF AppInv, AppTypes
<1> QED
  BY <1>1, <1>2, <1>3, PTL DEF RuntimeSpec

\* An operation that ran alone leaves the app as it said, whatever state others
\* had left, and a container is lost only where operations ran side by side, at
\* a failed start or over a restart (runtime.go:280, :296, :381).
THEOREM AppsKeptHolds == RuntimeSpec => []AppsKept
<1>1. RuntimeInit => AppInv /\ LeavesOwn
  BY AppInitInv DEF RuntimeInit, LeavesOwn, Alone
<1>2. AppInv /\ LeavesOwn /\ [RuntimeNext]_runtimeVars => AppInv' /\ LeavesOwn'
  BY AppNextInv, LeavesStep
<1>3. AppInv /\ LeavesOwn => AppsKept
  BY Adrift DEF AppsKept, AppInv, AppTypes
<1> QED
  BY <1>1, <1>2, <1>3, PTL DEF RuntimeSpec
-----------------------------------------------------------------------------
(* Channels. *)

\* The agents that a message can be for.
Routable == {AgentOf[s] : s \in Slots} \cup UNION {Owned[u] : u \in Owners}
                \cup {Lead[u] : u \in Owners}

Jobs == [pc : {"idle", "check", "save", "list", "delete", "invalidate", "adapter"},
         kind : {"connect", "disconnect", "purge"}, bot : Bots \cup {NoBot},
         slot : Slots \cup {NoSlot}, id : Nat, raced : BOOLEAN]

RowTypes ==
    /\ table \in [Slots -> Bots \cup {NoBot}] /\ rowId \in [Slots -> Nat]
    /\ adapters \subseteq Bots /\ pollers \in [Bots -> Nat] /\ claimed \subseteq Bots
    /\ origin \in [Bots -> [slot : Slots \cup {NoSlot}, id : Nat]]
    /\ loaded \subseteq Owners /\ bind \in [Slots -> Bots \cup {NoBot}]

JobTypes ==
    /\ handler \in [Actors -> Jobs]
    /\ conn \in [Bots -> Slots \cup {NoSlot}]
    /\ mishaps \in Nat

MessageTypes ==
    /\ copies \subseteq [m : Messages, b : Bots, k : Nat]
    /\ cur \subseteq [m : Messages, b : Bots, user : Owners, steady : Slots \cup {NoSlot}]
    /\ \A c, d \in cur : c = d
    /\ turns \in [Messages -> Seq(Routable)] /\ heard \in [Messages -> SUBSET Routable]
    /\ seen \subseteq Keys /\ lapses \in [Keys -> Nat]

Working(a) == handler[a].pc # "idle"

\* What an operation at work is about.
JobOf(a, j) ==
    /\ j.bot \in Bots
    /\ j.kind = "purge" <=> a = Purger
    /\ a # Purger \/ j.pc = "delete" => j.slot \in Slots
    /\ j.pc \in {"check", "save"} => j.kind = "connect"
    /\ j.pc \in {"list", "delete"} => j.kind # "connect"
    /\ a = Purger => j.pc \in {"delete", "adapter"}

JobsSound == \A a \in Actors : Working(a) => JobOf(a, handler[a])

ChannelsTypes == RowTypes /\ JobTypes /\ MessageTypes /\ JobsSound

\* Two operations at once on a bot, or on a slot, contest the bots they are about.
Meeting ==
    /\ \A a, x \in Actors :
         /\ a # x /\ Working(a) /\ Working(x)
         /\ handler[a].bot = handler[x].bot \/ handler[a].slot = handler[x].slot
         => handler[a].bot \in contested /\ handler[x].bot \in contested
    /\ \A a \in Actors : Working(a) /\ handler[a].raced => handler[a].bot \in contested

\* Nobody works on a bot that counts as connected, nor on its slot.
Undisturbed ==
    \A b \in Bots \ contested : conn[b] # NoSlot =>
        \A a \in Actors : Working(a) => handler[a].bot # b /\ handler[a].slot # conn[b]

\* a has written the row of b.
Connecting(a, b, pcs) ==
    handler[a].kind = "connect" /\ handler[a].bot = b /\ handler[a].pc \in pcs

OneRow ==
    \A b \in Bots \ contested :
        /\ \A s, t \in Slots : table[s] = b /\ table[t] = b => s = t
        /\ \A a \in Actors : Connecting(a, b, {"save"}) =>
              \A t \in Slots : table[t] = b => t = handler[a].slot

Settled(b, s) ==
    \/ conn[b] = s
    \/ \E a \in Actors : handler[a].slot = s /\ Connecting(a, b, {"invalidate", "adapter"})

HasRow == \A b \in Bots \ contested, s \in Slots : Settled(b, s) => table[s] = b

Registered ==
    /\ \A b \in adapters : pollers[b] > 0
    /\ \A b \in Bots \ contested : conn[b] # NoSlot => Stuck(b) \/ b \in adapters

\* Where the space of the slot's user is loaded, b is bound to that slot alone.
SpaceOf(b, s) ==
    UserOf[s] \in loaded =>
        bind[s] = b /\ \A t \in SlotsOf(UserOf[s]) : bind[t] = b => t = s

InSpace ==
    \A b \in Bots \ contested, s \in Slots :
        (conn[b] = s \/ \E a \in Actors : handler[a].slot = s /\ Connecting(a, b, {"adapter"}))
        => SpaceOf(b, s)

SteadyCopy ==
    \A c \in cur : c.steady # NoSlot /\ c.b \notin contested =>
        conn[c.b] = c.steady /\ c.user = UserOf[c.steady]

\* Each turn, and the copy in hand, took the entry of the message's key.
KeyTaken ==
    \A m \in Messages : Info[m].key # NoKey =>
        Len(turns[m]) + (IF \E c \in cur : c.m = m THEN 1 ELSE 0)
            <= lapses[Info[m].key] + (IF Info[m].key \in seen THEN 1 ELSE 0)

BotsInv == Meeting /\ Undisturbed /\ OneRow /\ HasRow /\ Registered /\ InSpace

ChannelsInv == ChannelsTypes /\ BotsInv /\ SteadyCopy /\ KeyTaken
-----------------------------------------------------------------------------
\* A step of an operation under way.
Goes(a) ==
    \/ AssertUnique(a) \/ SaveChannel(a) \/ ListRows(a) \/ DeleteConfig(a)
    \/ InvalidateOwner(a) \/ ConnectAdapter(a) \/ Unregister(a)

\* An operation begins, and with the record r.
Opening(a, r) ==
    /\ handler[a].pc = "idle" /\ r \in Jobs /\ ~r.raced /\ JobOf(a, r)
    /\ r.pc \in {"check", "list"} \/ (r.kind = "purge" /\ r.pc \in {"delete", "adapter"})
    /\ Engage(a, r)
    /\ UNCHANGED <<sort, rows, registry, spaces, sent, mishaps>>

Messaging ==
    \/ \E m \in Messages : Send(m)
    \/ \E m \in Messages, b \in Bots : Redeliver(m, b)
    \/ \E c \in copies : Receive(c)
    \/ \E k \in Keys : Forget(k)

LEMMA Started_Opens ==
    ASSUME RowTypes, NEW a \in Actors, NEW k \in {"connect", "disconnect"},
           NEW b \in Bots, NEW s \in Slots, a # Purger, Start(a, k, b, s)
    PROVE  \E r \in Jobs : Opening(a, r)
<1> DEFINE p == IF k = "connect" THEN "check" ELSE "list"
           r == Job(p, k, b, s, 0)
<1>1. r \in Jobs
  BY DEF Job, Jobs
<1>2. JobOf(a, r)
  BY DEF JobOf, Job
<1> QED
  BY <1>1, <1>2 DEF Start, Opening, Job

LEMMA Expired_Opens ==
    ASSUME RowTypes, NEW b \in Bots, Expire(b)
    PROVE  \E r \in Jobs : Opening(Purger, r)
<1> DEFINE s == origin[b].slot
           p == IF StillHas(b, s) THEN "delete" ELSE "adapter"
           t == IF s \in RowsOf(b) THEN s ELSE NoSlot
           r == Job(p, "purge", b, t, origin[b].id)
<1>1. r \in Jobs
  <2>1. p \in {"delete", "adapter"} /\ t \in Slots \cup {NoSlot} /\ origin[b].id \in Nat
    BY DEF RowTypes, RowsOf
  <2> QED
    BY <2>1 DEF Job, Jobs
<1>2. p = "delete" => t \in Slots
  BY DEF StillHas, RowsOf, RowTypes
<1>3. JobOf(Purger, r)
  BY <1>2 DEF JobOf, Job
<1> QED
  BY <1>1, <1>3 DEF Expire, Opening, Job

\* The steps of the handlers, of the messages, and of the process.
LEMMA ChannelsSteps ==
    ASSUME RowTypes, [ChannelsNext]_channelsVars
    PROVE  \/ \E a \in Actors : Goes(a)
           \/ \E a \in Actors, r \in Jobs : Opening(a, r)
           \/ Messaging
           \/ \E c \in cur : Route(c)
           \/ \E u \in Owners : DropSpace(u)
           \/ Reboot \/ UNCHANGED channelsVars
<1>1. Purger \in Actors
  BY DEF Actors
<1>2. ASSUME NEW a \in Actors, HandlerStep(a)
      PROVE  Goes(a) \/ \E r \in Jobs : Opening(a, r)
  BY <1>2, Started_Opens DEF HandlerStep, Goes
<1> QED
  BY <1>1, <1>2, Expired_Opens DEF ChannelsNext, Messaging
-----------------------------------------------------------------------------
(* What the steps do. *)

\* One operation goes on, or is done.
LEMMA GoesMoves ==
    ASSUME RowTypes, JobTypes, JobsSound, NEW a \in Actors, Goes(a)
    PROVE  /\ Working(a) /\ handler[a] \in Jobs /\ JobOf(a, handler[a])
           /\ \A x \in Actors : x # a => handler'[x] = handler[x]
           /\ \/ handler'[a] = Resting
              \/ /\ handler'[a] \in Jobs /\ JobOf(a, handler'[a]) /\ handler'[a].pc # "idle"
                 /\ handler'[a].bot = handler[a].bot /\ handler'[a].slot = handler[a].slot
                 /\ handler'[a].kind = handler[a].kind /\ handler'[a].raced = handler[a].raced
           /\ handler' \in [Actors -> Jobs]
           /\ UNCHANGED <<sort, inb, sent, contested>>
<1>t. /\ handler \in [Actors -> Jobs] /\ handler[a] \in Jobs
      /\ NoSlot \in Slots \cup {NoSlot} /\ rowId \in [Slots -> Nat]
      /\ Resting \in Jobs
  BY DEF JobTypes, Resting, Job, Jobs, RowTypes
<1>1. CASE AssertUnique(a)
  BY <1>1, <1>t DEF AssertUnique, Proceed, Retire, Jobs, Working, JobsSound, JobOf, Jobs
<1>2. CASE SaveChannel(a)
  BY <1>2, <1>t DEF SaveChannel, Proceed, Working, JobsSound, JobOf, Jobs
<1>3. CASE ListRows(a)
  <2>1. CASE table[handler[a].slot] = handler[a].bot
    <3>1. handler[a].slot \in Slots /\ rowId[handler[a].slot] \in Nat
      BY <1>3, <2>1, <1>t DEF ListRows, JobsSound, JobOf, Working
    <3>2. handler' = [handler EXCEPT ![a].pc = "delete", ![a].id = rowId[handler[a].slot]]
      BY <1>3, <2>1 DEF ListRows
    <3>3. [handler[a] EXCEPT !.pc = "delete", !.id = rowId[handler[a].slot]] \in Jobs
      BY <1>t, <3>1 DEF Jobs
    <3>4. /\ handler' \in [Actors -> Jobs]
          /\ \A x \in Actors : x # a => handler'[x] = handler[x]
      BY <1>t, <3>2, <3>3
    <3>5. /\ handler'[a].pc = "delete" /\ handler'[a].bot = handler[a].bot
          /\ handler'[a].slot = handler[a].slot /\ handler'[a].kind = handler[a].kind
          /\ handler'[a].raced = handler[a].raced
      BY <1>t, <3>2 DEF Jobs
    <3> QED
      BY <1>3, <1>t, <3>1, <3>4, <3>5 DEF ListRows, Working, JobsSound, JobOf
  <2>2. CASE table[handler[a].slot] # handler[a].bot
    BY <1>3, <2>2, <1>t DEF ListRows, Retire, Working, JobsSound
  <2> QED
    BY <2>1, <2>2
<1>4. CASE DeleteConfig(a)
  BY <1>4, <1>t DEF DeleteConfig, Proceed, Working, JobsSound, JobOf, Jobs
<1>5. CASE InvalidateOwner(a)
  BY <1>5, <1>t DEF InvalidateOwner, Proceed, Working, JobsSound, JobOf, Jobs
<1>6. CASE ConnectAdapter(a)
  BY <1>6, <1>t DEF ConnectAdapter, Retire, Working, JobsSound
<1>7. CASE Unregister(a)
  BY <1>7, <1>t DEF Unregister, Retire, Working, JobsSound
<1> QED
  BY <1>1, <1>2, <1>3, <1>4, <1>5, <1>6, <1>7 DEF Goes

\* What it meets is contested, and what it is about no longer undisturbed.
LEMMA OpeningMoves ==
    ASSUME RowTypes, JobTypes, JobsSound, NEW a \in Actors, NEW r \in Jobs, Opening(a, r)
    PROVE  /\ ~Working(a) /\ handler' \in [Actors -> Jobs] /\ contested \subseteq contested'
           /\ handler'[a].pc = r.pc /\ handler'[a].bot = r.bot /\ handler'[a].slot = r.slot
           /\ handler'[a].kind = r.kind
           /\ handler'[a].raced => r.bot \in contested'
           /\ \A x \in Actors : x # a =>
                /\ handler'[x].pc = handler[x].pc /\ handler'[x].bot = handler[x].bot
                /\ handler'[x].slot = handler[x].slot /\ handler'[x].kind = handler[x].kind
                /\ handler'[x].raced => handler[x].raced \/ handler[x].bot \in contested'
                /\ Working(x) /\ (handler[x].bot = r.bot \/ handler[x].slot = r.slot)
                     => r.bot \in contested' /\ handler[x].bot \in contested'
           /\ conn' \in [Bots -> Slots \cup {NoSlot}]
           /\ \A b \in Bots : conn'[b] = IF b = r.bot \/ conn[b] = r.slot THEN NoSlot
                                         ELSE conn[b]
           /\ UNCHANGED <<sort, rows, registry, spaces, sent>>
<1> DEFINE met == {x \in Actors \ {a} : Meets(x, r.bot, r.slot)}
<1>t. handler \in [Actors -> Jobs] /\ conn \in [Bots -> Slots \cup {NoSlot}]
  BY DEF JobTypes
<1>1. /\ handler' = [x \in Actors |-> IF x = a THEN [r EXCEPT !.raced = met # {}]
                                ELSE [handler[x] EXCEPT !.raced = @ \/ x \in met]]
      /\ contested' = contested \cup
              (IF met = {} THEN {} ELSE {r.bot} \cup {handler[x].bot : x \in met})
      /\ conn' = [b \in Bots |-> IF b = r.bot \/ conn[b] = r.slot THEN NoSlot ELSE conn[b]]
  BY DEF Opening, Engage
<1>2. handler' \in [Actors -> Jobs]
  <2>1. ASSUME NEW x \in Actors PROVE handler'[x] \in Jobs
    <3>1. /\ [r EXCEPT !.raced = met # {}] \in Jobs
          /\ [handler[x] EXCEPT !.raced = @ \/ x \in met] \in Jobs
      BY <1>t DEF Jobs
    <3> QED
      BY <1>1, <3>1
  <2> QED
    BY <1>1, <2>1
<1>3. /\ handler'[a].pc = r.pc /\ handler'[a].bot = r.bot /\ handler'[a].slot = r.slot
      /\ handler'[a].kind = r.kind /\ handler'[a].raced = (met # {})
  BY <1>1 DEF Jobs
<1>4. ASSUME NEW x \in Actors, x # a
      PROVE  /\ handler'[x].pc = handler[x].pc /\ handler'[x].bot = handler[x].bot
             /\ handler'[x].slot = handler[x].slot /\ handler'[x].kind = handler[x].kind
             /\ handler'[x].raced = (handler[x].raced \/ x \in met)
             /\ x \in met => r.bot \in contested' /\ handler[x].bot \in contested'
             /\ Working(x) /\ (handler[x].bot = r.bot \/ handler[x].slot = r.slot) => x \in met
  BY <1>t, <1>1, <1>4 DEF Jobs, Meets, Working
<1> QED
  BY <1>t, <1>1, <1>2, <1>3, <1>4 DEF Opening, Working

\* Nothing of the handlers, the rows and the registry.
LEMMA MessagingMoves ==
    ASSUME Messaging
    PROVE  UNCHANGED <<sort, rows, registry, spaces, handler, conn, contested>>
  BY DEF Messaging, Send, Redeliver, Receive, Forget

LEMMA RouteMoves ==
    ASSUME NEW c \in cur, Route(c)
    PROVE  /\ cur = {c} /\ cur' = {} /\ GetOrLoad(c.user)
           /\ UNCHANGED <<sort, rows, registry, handler, copies, seen, lapses, sent, conn,
                          contested>>
  BY DEF Route

\* What a process starts with.
LEMMA BootMoves ==
    ASSUME Reboot
    PROVE  /\ \A a \in Actors : ~Working(a)' /\ handler'[a] = Resting
           /\ handler' = [a \in Actors |-> Resting]
           /\ loaded' = {} /\ cur' = {} /\ seen' = {}
           /\ UNCHANGED <<sort, rows, sent, conn, contested, turns, heard>>
           /\ copies' \subseteq copies
  BY DEF Reboot, Working, Resting, Job

\* The pollers that rows start.
LEMMA StartedCount ==
    ASSUME NEW r \in [Slots -> Bots \cup {NoBot}], NEW t
    PROVE  /\ Started(r, t) \in [Bots -> Nat]
           /\ \A b \in Bots : Started(r, t)[b] > 0 <=> \E s \in Slots : r[s] = b
<1> DEFINE rowsOf(b) == {s \in Slots : r[s] = b}
<1>1. ASSUME NEW b \in Bots
      PROVE  /\ IsFiniteSet(rowsOf(b)) /\ Cardinality(rowsOf(b)) \in Nat
             /\ Cardinality(rowsOf(b)) = 0 <=> rowsOf(b) = {}
  <2>1. IsFiniteSet(rowsOf(b))
    BY ChannelsAssumption, FS_Subset
  <2> QED
    BY <2>1, FS_EmptySet, FS_CardinalityType
<1>2. ASSUME NEW b \in Bots
      PROVE  Started(r, t)[b] = IF t = "telegram" /\ Cardinality(rowsOf(b)) > 1 THEN 1
                                ELSE Cardinality(rowsOf(b))
  BY DEF Started
<1>3. Started(r, t) = [b \in Bots |-> Started(r, t)[b]]
  BY DEF Started
<1>4. ASSUME NEW b \in Bots
      PROVE  /\ Started(r, t)[b] \in Nat
             /\ Started(r, t)[b] > 0 <=> \E s \in Slots : r[s] = b
  <2>1. rowsOf(b) # {} <=> \E s \in Slots : r[s] = b
    OBVIOUS
  <2> HIDE DEF rowsOf
  <2> QED
    BY <1>1, <1>2, <2>1
<1> QED
  BY <1>3, <1>4

LEMMA BootTypes ==
    ASSUME RowTypes, NEW ad, NEW po, NEW cl, BootRegistry(table, sort, ad, po, cl)
    PROVE  /\ po \in [Bots -> Nat] /\ ad \subseteq Bots /\ cl \subseteq Bots
           /\ \A b \in Bots : b \in ad <=> \E s \in Slots : table[s] = b
           /\ \A b \in ad : po[b] > 0
           /\ cl \subseteq ad
<1>1. table \in [Slots -> Bots \cup {NoBot}]
  BY DEF RowTypes
<1> QED
  BY <1>1, StartedCount DEF BootRegistry
-----------------------------------------------------------------------------
(* Types. *)

LEMMA RowsTyped ==
    ASSUME RowTypes, JobTypes, MessageTypes, JobsSound, [ChannelsNext]_channelsVars
    PROVE  RowTypes'
<1>1. ASSUME NEW a \in Actors, Goes(a) PROVE RowTypes'
  <2>1. /\ Working(a) /\ handler[a] \in Jobs /\ JobOf(a, handler[a])
        /\ handler[a].bot \in Bots
    BY <1>1, GoesMoves DEF JobOf
  <2>2. CASE AssertUnique(a) \/ ListRows(a)
    BY <2>2 DEF RowTypes, AssertUnique, ListRows, rows, registry, spaces
  <2>3. CASE SaveChannel(a)
    <3>1. handler[a].slot \in Slots
      BY <2>1, <2>3, ChannelsAssumption DEF SaveChannel, JobOf
    <3> QED
      BY <2>1, <2>3, <3>1 DEF RowTypes, SaveChannel, registry, spaces
  <2>4. CASE DeleteConfig(a)
    BY <2>1, <2>4 DEF RowTypes, DeleteConfig, registry, spaces
  <2>5. CASE InvalidateOwner(a)
    BY <2>5 DEF RowTypes, InvalidateOwner, rows, registry
  <2>6. CASE ConnectAdapter(a)
    <3>1. ASSUME NEW t \in RowsOf(handler[a].bot), NEW starts \in BOOLEAN,
                 HotRegister(handler[a].bot, t, starts)
          PROVE  /\ adapters' \subseteq Bots /\ pollers' \in [Bots -> Nat]
                 /\ claimed' \subseteq Bots
                 /\ origin' \in [Bots -> [slot : Slots \cup {NoSlot}, id : Nat]]
      <4>1. /\ t \in Slots
            /\ [slot |-> t, id |-> rowId[t]] \in [slot : Slots \cup {NoSlot}, id : Nat]
        BY DEF RowsOf, RowTypes
      <4> QED
        BY <2>1, <3>1, <4>1 DEF HotRegister, RowTypes
    <3>2. RowTypes' \/ \E t \in RowsOf(handler[a].bot), starts \in BOOLEAN :
                          HotRegister(handler[a].bot, t, starts)
      BY <2>6 DEF ConnectAdapter, RowTypes, rows, registry, spaces
    <3>3. UNCHANGED <<rows, spaces>>
      BY <2>6 DEF ConnectAdapter
    <3> QED
      BY <3>1, <3>2, <3>3 DEF RowTypes, rows, spaces
  <2>7. CASE Unregister(a)
    BY <2>7 DEF RowTypes, Unregister, rows, spaces
  <2> QED
    BY <1>1, <2>2, <2>3, <2>4, <2>5, <2>6, <2>7 DEF Goes
<1>2. ASSUME NEW a \in Actors, NEW r \in Jobs, Opening(a, r) PROVE RowTypes'
  BY <1>2, OpeningMoves DEF RowTypes, rows, registry, spaces
<1>3. ASSUME NEW c \in cur, Route(c) PROVE RowTypes'
  <2>1. c.user \in Owners
    BY <1>3 DEF MessageTypes
  <2> QED
    BY <1>3, <2>1, RouteMoves DEF RowTypes, rows, registry, GetOrLoad
<1>4. ASSUME NEW u \in Owners, DropSpace(u) PROVE RowTypes'
  BY <1>4 DEF RowTypes, DropSpace, rows, registry
<1>5. CASE Reboot
  <2>1. BootRegistry(table, sort, adapters', pollers', claimed')
    BY <1>5 DEF Reboot
  <2>2. ASSUME NEW b \in Bots
        PROVE  origin'[b] \in [slot : Slots \cup {NoSlot}, id : Nat]
    <3>1. origin'[b] = IF RowsOf(b) = {} THEN origin[b]
                       ELSE LET s == CHOOSE s \in RowsOf(b) : TRUE
                            IN [slot |-> s, id |-> rowId[s]]
      BY <1>5 DEF Reboot
    <3>2. RowsOf(b) # {} => (CHOOSE s \in RowsOf(b) : TRUE) \in Slots
      BY DEF RowsOf
    <3> QED
      BY <3>1, <3>2 DEF RowTypes
  <2>3. DOMAIN origin' = Bots /\ loaded' = {} /\ bind' = [s \in Slots |-> NoBot]
        /\ table' = table /\ rowId' = rowId /\ origin' = [b \in Bots |-> origin'[b]]
    BY <1>5 DEF Reboot, rows
  <2> QED
    BY <2>1, <2>2, <2>3, BootTypes DEF RowTypes
<1>6. CASE Messaging \/ UNCHANGED channelsVars
  BY <1>6, MessagingMoves DEF RowTypes, rows, registry, spaces, channelsVars
<1> QED
  BY <1>1, <1>2, <1>3, <1>4, <1>5, <1>6, ChannelsSteps

LEMMA MishapsCounted ==
    ASSUME RowTypes, mishaps \in Nat, [ChannelsNext]_channelsVars PROVE mishaps' \in Nat
<1>1. CASE mishaps' = mishaps \/ Mishap
  BY <1>1 DEF Mishap
<1>2. ASSUME NEW a \in Actors, Goes(a) PROVE mishaps' = mishaps \/ Mishap
  BY <1>2 DEF Goes, AssertUnique, SaveChannel, ListRows, DeleteConfig, InvalidateOwner,
              ConnectAdapter, Unregister
<1>3. ASSUME NEW a \in Actors, NEW r \in Jobs, Opening(a, r) PROVE mishaps' = mishaps
  BY <1>3 DEF Opening
<1>4. CASE Messaging
  BY <1>4 DEF Messaging, Send, Redeliver, Receive, Forget, Mishap
<1>5. CASE \/ \E c \in cur : Route(c)
           \/ \E u \in Owners : DropSpace(u)
           \/ Reboot \/ UNCHANGED channelsVars
  BY <1>5 DEF Route, DropSpace, Reboot, channelsVars, Mishap
<1> QED
  BY <1>1, <1>2, <1>3, <1>4, <1>5, ChannelsSteps DEF Mishap

LEMMA JobsTyped ==
    ASSUME RowTypes, JobTypes, MessageTypes, JobsSound, [ChannelsNext]_channelsVars
    PROVE  JobTypes' /\ JobsSound'
<1>c. mishaps' \in Nat
  BY MishapsCounted DEF JobTypes
<1>1. ASSUME NEW a \in Actors, Goes(a) PROVE JobTypes' /\ JobsSound'
  <2>1. JobsSound'
    <3>1. Resting.pc = "idle"
      BY DEF Resting, Job
    <3> QED
      BY <1>1, <3>1, GoesMoves DEF JobsSound, Working, JobOf
  <2>2. conn' = conn \/ \E b \in Bots, s \in Slots : conn' = [conn EXCEPT ![b] = s]
    <3>1. JobOf(a, handler[a])
      BY <1>1, GoesMoves
    <3>2. CASE ConnectAdapter(a)
      <4>1. handler[a].bot \in Bots /\ handler[a].slot \in Slots
        BY <3>1, <3>2 DEF ConnectAdapter, JobOf
      <4> QED
        BY <3>2, <4>1 DEF ConnectAdapter
    <3>3. CASE ~ConnectAdapter(a)
      BY <1>1, <3>3 DEF Goes, AssertUnique, SaveChannel, ListRows, DeleteConfig,
                        InvalidateOwner, Unregister
    <3> QED
      BY <3>2, <3>3
  <2> QED
    BY <1>1, <1>c, <2>1, <2>2, GoesMoves DEF JobTypes
<1>2. ASSUME NEW a \in Actors, NEW r \in Jobs, Opening(a, r) PROVE JobTypes' /\ JobsSound'
  <2>1. JobOf(a, r)
    BY <1>2 DEF Opening
  <2> QED
    BY <1>2, <1>c, <2>1, OpeningMoves DEF JobTypes, JobsSound, JobOf, Working
<1>3. CASE Reboot
  <2>1. Resting \in Jobs
    BY DEF Resting, Job, Jobs
  <2> QED
    BY <1>3, <1>c, <2>1, BootMoves DEF JobTypes, JobsSound
<1>4. CASE UNCHANGED <<handler, conn>>
  BY <1>4, <1>c DEF JobTypes, JobsSound, Working
<1>5. CASE Messaging \/ UNCHANGED channelsVars \/ (\E c \in cur : Route(c))
               \/ \E u \in Owners : DropSpace(u)
  BY <1>4, <1>5, MessagingMoves, RouteMoves DEF channelsVars, DropSpace
<1> QED
  BY <1>1, <1>2, <1>3, <1>5, ChannelsSteps

\* The copy in hand, when an operation begins.
LEMMA OpeningCur ==
    ASSUME MessageTypes, NEW a \in Actors, NEW r \in Jobs, Opening(a, r)
    PROVE  /\ \A d \in cur' : \E c \in cur :
                /\ d \in [m : Messages, b : Bots, user : Owners, steady : Slots \cup {NoSlot}]
                /\ d.m = c.m /\ d.b = c.b /\ d.user = c.user
                /\ d.steady = IF c.b = r.bot \/ c.steady = r.slot THEN NoSlot ELSE c.steady
           /\ \A c, d \in cur' : c = d
           /\ \A m \in Messages : (\E d \in cur' : d.m = m) <=> \E c \in cur : c.m = m
           /\ cur = {} <=> cur' = {}
           /\ UNCHANGED <<copies, seen, turns, heard, lapses>>
<1> DEFINE New(c) == [c EXCEPT !.steady = IF c.b = r.bot \/ @ = r.slot THEN NoSlot ELSE @]
<1>1. cur' = {New(c) : c \in cur}
  BY DEF Opening, Engage
<1>2. ASSUME NEW c \in cur
      PROVE  /\ New(c) \in [m : Messages, b : Bots, user : Owners,
                           steady : Slots \cup {NoSlot}]
             /\ New(c).m = c.m /\ New(c).b = c.b /\ New(c).user = c.user
             /\ New(c).steady = IF c.b = r.bot \/ c.steady = r.slot THEN NoSlot ELSE c.steady
  <2>1. c \in [m : Messages, b : Bots, user : Owners, steady : Slots \cup {NoSlot}]
    BY DEF MessageTypes
  <2> QED
    BY <2>1
<1>3. \A c, d \in cur : c = d
  BY DEF MessageTypes
<1> HIDE DEF New
<1> QED
  BY <1>1, <1>2, <1>3 DEF Opening, Engage

LEMMA BoundRoutable ==
    ASSUME RowTypes, NEW u \in Owners, NEW b \in Bots
    PROVE  /\ Bound(u, b) \subseteq Routable /\ DefaultAgent(u) \subseteq Routable
           /\ \A bound \in SUBSET Routable : LeadOf(u, bound) \subseteq Routable
  BY DEF Bound, DefaultAgent, LeadOf, Routable, SlotsOf

LEMMA RouteTurns ==
    ASSUME RowTypes, MessageTypes, NEW c \in cur, Route(c)
    PROVE  /\ heard' \in [Messages -> SUBSET Routable]
           /\ c.m \in Messages
           /\ \/ turns' = turns
              \/ \E g \in Routable : turns' = [turns EXCEPT ![c.m] = Append(@, g)]
<1>1. c.m \in Messages /\ c.user \in Owners /\ c.b \in Bots
  BY DEF MessageTypes
<1> DEFINE bound == AgentsBound(c.user, c.b)
           named == AgentByMention(c.m, c.user, c.b)
           lead  == LeadOf(c.user, bound)
<1>2. /\ bound \subseteq Routable /\ named \subseteq Routable
      /\ MatchAgent(c.user, c.b) \subseteq Routable
  BY <1>1, BoundRoutable DEF AgentsBound, AgentByMention, MatchAgent
<1>3. lead \subseteq Routable
  BY <1>1, <1>2, BoundRoutable
<1>4. ASSUME NEW g \in Routable, NEW hs \in SUBSET Routable, Turn(c.m, g, hs)
      PROVE  /\ heard' \in [Messages -> SUBSET Routable]
             /\ turns' = [turns EXCEPT ![c.m] = Append(@, g)]
  BY <1>1, <1>4 DEF Turn, MessageTypes
<1>5. ASSUME NEW hs \in SUBSET Routable, NoTurn(c.m, hs)
      PROVE  heard' \in [Messages -> SUBSET Routable] /\ turns' = turns
  BY <1>1, <1>5 DEF NoTurn, MessageTypes
<1>6. CASE RouteDM(c)
  BY <1>2, <1>4, <1>5, <1>1, <1>6 DEF RouteDM
<1>7. CASE RouteGroup(c)
  <2> HIDE DEF bound, named, lead
  <2>1. \/ NoTurn(c.m, bound)
        \/ \E g \in named : \/ Turn(c.m, g, bound) \/ Turn(c.m, g, bound \ {g})
        \/ \E g \in lead : Turn(c.m, g, bound \ {g})
    BY <1>7 DEF RouteGroup, bound, named, lead
  <2>2. bound \in SUBSET Routable /\ \A g : bound \ {g} \in SUBSET Routable
    BY <1>2
  <2>3. ASSUME NEW g \in named \cup lead, Turn(c.m, g, bound) \/ Turn(c.m, g, bound \ {g})
        PROVE  /\ heard' \in [Messages -> SUBSET Routable]
               /\ turns' = [turns EXCEPT ![c.m] = Append(@, g)] /\ g \in Routable
    BY <1>2, <1>3, <1>4, <2>2, <2>3
  <2> QED
    BY <1>1, <1>5, <2>1, <2>2, <2>3
<1> QED
  BY <1>6, <1>7 DEF Route

LEMMA MessagesTyped ==
    ASSUME RowTypes, JobTypes, MessageTypes, JobsSound, [ChannelsNext]_channelsVars
    PROVE  MessageTypes'
<1>1. ASSUME NEW a \in Actors, Goes(a) PROVE MessageTypes'
  BY <1>1, GoesMoves DEF MessageTypes, inb
<1>2. ASSUME NEW a \in Actors, NEW r \in Jobs, Opening(a, r) PROVE MessageTypes'
  BY <1>2, OpeningCur DEF MessageTypes
<1>3. ASSUME NEW c \in cur, Route(c) PROVE MessageTypes'
  <2>1. turns' \in [Messages -> Seq(Routable)]
    <3>1. ASSUME NEW g \in Routable, turns' = [turns EXCEPT ![c.m] = Append(@, g)]
          PROVE  turns' \in [Messages -> Seq(Routable)]
      <4>1. turns \in [Messages -> Seq(Routable)] /\ c.m \in Messages
        BY <1>3, RouteTurns DEF MessageTypes
      <4>2. Append(turns[c.m], g) \in Seq(Routable)
        BY <4>1
      <4> QED
        BY <3>1, <4>1, <4>2
    <3> QED
      BY <1>3, <3>1, RouteTurns DEF MessageTypes
  <2> QED
    BY <1>3, <2>1, RouteMoves, RouteTurns DEF MessageTypes
<1>4. CASE Reboot
  BY <1>4 DEF Reboot, MessageTypes
<1>5. ASSUME NEW m \in Messages, Send(m) PROVE MessageTypes'
  <2>1. 1..MaxOps + 1 \subseteq Nat
    BY ChannelsAssumption
  <2>2. {c \in [m : {m}, b : Info[m].to, k : 1..MaxOps + 1] :
           c.k <= IF sort = "discord" THEN pollers[c.b] ELSE 1}
          \subseteq [m : Messages, b : Bots, k : Nat]
    BY <2>1, ChannelsAssumption
  <2> QED
    BY <1>5, <2>2 DEF Send, MessageTypes
<1>6. ASSUME NEW m \in Messages, NEW b \in Bots, Redeliver(m, b) PROVE MessageTypes'
  BY <1>6 DEF Redeliver, MessageTypes
<1>7. ASSUME NEW c \in copies, Receive(c) PROVE MessageTypes'
  <2>1. c.m \in Messages /\ c.b \in Bots
    BY DEF MessageTypes
  <2>2. Info[c.m].key # NoKey => Info[c.m].key \in Keys
    BY <2>1 DEF Keys
  <2>3. ASSUME NEW s \in RowsOf(c.b)
        PROVE  [m |-> c.m, b |-> c.b, user |-> UserOf[s], steady |-> conn[c.b]]
                 \in [m : Messages, b : Bots, user : Owners, steady : Slots \cup {NoSlot}]
    BY <2>1, ChannelsAssumption DEF RowsOf, JobTypes
  <2> QED
    BY <1>7, <2>2, <2>3 DEF Receive, MessageTypes
<1>8. ASSUME NEW k \in Keys, Forget(k) PROVE MessageTypes'
  BY <1>8 DEF Forget, MessageTypes
<1>9. CASE UNCHANGED channelsVars \/ \E u \in Owners : DropSpace(u)
  BY <1>9 DEF channelsVars, DropSpace, inb, MessageTypes
<1> QED
  BY <1>1, <1>2, <1>3, <1>4, <1>5, <1>6, <1>7, <1>8, <1>9, ChannelsSteps DEF Messaging

LEMMA ChannelsTypesNext ==
    ASSUME ChannelsTypes, [ChannelsNext]_channelsVars PROVE ChannelsTypes'
  BY RowsTyped, JobsTyped, MessagesTyped DEF ChannelsTypes
-----------------------------------------------------------------------------
(* Operations on a bot. *)

\* The rows that a step of an operation changes, and how it goes on.
LEMMA RowMoves ==
    ASSUME ChannelsTypes, NEW a \in Actors, Goes(a)
    PROVE  /\ \A s \in Slots : table'[s] # table[s] =>
                /\ s = handler[a].slot /\ handler[a].pc \in {"save", "delete"}
                /\ \/ table'[s] = NoBot
                   \/ table'[s] = handler[a].bot /\ handler[a].pc = "save"
           /\ handler'[a].pc = "save" =>
                table' = table /\ MayConnect(handler[a].bot, handler[a].slot)
           /\ handler'[a].pc = "invalidate" /\ handler[a].kind = "connect" =>
                table'[handler[a].slot] = handler[a].bot
           /\ handler'[a].pc = "adapter" /\ handler[a].kind = "connect" =>
                /\ handler[a].pc = "invalidate" /\ table' = table
                /\ UserOf[handler[a].slot] \notin loaded'
           /\ \/ conn' = conn
              \/ /\ handler[a].pc = "adapter" /\ handler[a].kind = "connect"
                 /\ handler'[a] = Resting /\ handler[a].bot \notin contested
                 /\ conn' = [conn EXCEPT ![handler[a].bot] = handler[a].slot]
<1>t. /\ table \in [Slots -> Bots \cup {NoBot}]
      /\ handler \in [Actors -> Jobs] /\ handler[a] \in Jobs
      /\ JobOf(a, handler[a]) /\ Resting.pc = "idle"
  BY GoesMoves DEF ChannelsTypes, RowTypes, JobTypes, Resting, Job
<1>1. CASE AssertUnique(a)
  <2>1. table' = table /\ conn' = conn /\ handler[a].pc = "check"
    BY <1>1 DEF AssertUnique, rows
  <2>2. \/ handler'[a].pc = "save" /\ MayConnect(handler[a].bot, handler[a].slot)
        \/ handler'[a].pc = "idle"
    BY <1>1, <1>t DEF AssertUnique, Proceed, Retire, Jobs
  <2> QED
    BY <2>1, <2>2
<1>2. CASE SaveChannel(a)
  <2>1. handler[a].slot \in Slots
    BY <1>2, <1>t, ChannelsAssumption DEF SaveChannel, JobOf
  <2> QED
    BY <1>2, <1>t, <2>1 DEF SaveChannel, Proceed
<1>3. CASE ListRows(a)
  <2>1. table' = table /\ conn' = conn
    BY <1>3 DEF ListRows, rows
  <2>2. handler'[a].pc \in {"delete", "idle"}
    <3>1. CASE table[handler[a].slot] = handler[a].bot
      BY <1>3, <1>t, <3>1 DEF ListRows, Jobs
    <3>2. CASE table[handler[a].slot] # handler[a].bot
      BY <1>3, <1>t, <3>2 DEF ListRows, Retire
    <3> QED
      BY <3>1, <3>2
  <2> QED
    BY <2>1, <2>2
<1>4. CASE DeleteConfig(a)
  BY <1>4, <1>t DEF DeleteConfig, Proceed, JobOf
<1>5. CASE InvalidateOwner(a)
  BY <1>5, <1>t DEF InvalidateOwner, rows, Proceed
<1>6. CASE ConnectAdapter(a)
  BY <1>6, <1>t DEF ConnectAdapter, rows, Retire
<1>7. CASE Unregister(a)
  BY <1>7, <1>t DEF Unregister, rows, Retire
<1> QED
  BY <1>1, <1>2, <1>3, <1>4, <1>5, <1>6, <1>7 DEF Goes

LEMMA MeetingNext ==
    ASSUME ChannelsTypes, Meeting, [ChannelsNext]_channelsVars PROVE Meeting'
<1>t. RowTypes /\ JobTypes /\ MessageTypes /\ JobsSound /\ handler \in [Actors -> Jobs]
  BY DEF ChannelsTypes, JobTypes
<1>1. ASSUME NEW a \in Actors, Goes(a) PROVE Meeting'
  <2>1. Resting.pc = "idle"
    BY DEF Resting, Job
  <2> QED
    BY <1>1, <1>t, <2>1, GoesMoves DEF Meeting, Working
<1>2. ASSUME NEW a \in Actors, NEW r \in Jobs, Opening(a, r) PROVE Meeting'
  BY <1>2, <1>t, OpeningMoves DEF Meeting, Working
<1>3. CASE Reboot
  BY <1>3, BootMoves DEF Meeting
<1>4. CASE UNCHANGED <<handler, contested>>
  BY <1>4 DEF Meeting, Working
<1> QED
  BY <1>t, <1>1, <1>2, <1>3, <1>4, ChannelsSteps, MessagingMoves, RouteMoves
     DEF channelsVars, DropSpace

LEMMA UndisturbedNext ==
    ASSUME ChannelsTypes, Meeting, Undisturbed, [ChannelsNext]_channelsVars PROVE Undisturbed'
<1>t. /\ RowTypes /\ JobTypes /\ MessageTypes /\ JobsSound /\ handler \in [Actors -> Jobs]
      /\ conn \in [Bots -> Slots \cup {NoSlot}] /\ Resting.pc = "idle"
  BY DEF ChannelsTypes, JobTypes, Resting, Job
<1>1. ASSUME NEW a \in Actors, Goes(a) PROVE Undisturbed'
  <2>1. CASE conn' = conn
    BY <1>1, <1>t, <2>1, GoesMoves DEF Undisturbed, Working
  <2>2. CASE conn' # conn
    <3>1. /\ handler'[a] = Resting /\ handler[a].bot \notin contested
          /\ conn' = [conn EXCEPT ![handler[a].bot] = handler[a].slot]
          /\ Working(a)
      BY <1>1, <2>2, RowMoves, <1>t, GoesMoves
    <3>2. ASSUME NEW x \in Actors, Working(x)'
          PROVE  /\ handler'[x].bot # handler[a].bot /\ handler'[x].slot # handler[a].slot
                 /\ handler'[x] = handler[x] /\ Working(x)
      BY <1>1, <1>t, <3>1, <3>2, GoesMoves DEF Meeting, Working
    <3> QED
      BY <1>1, <1>t, <3>1, <3>2, GoesMoves DEF Undisturbed
  <2> QED
    BY <2>1, <2>2
<1>2. ASSUME NEW a \in Actors, NEW r \in Jobs, Opening(a, r) PROVE Undisturbed'
  BY <1>2, <1>t, OpeningMoves DEF Undisturbed, Working
<1>3. CASE Reboot
  BY <1>3, BootMoves DEF Undisturbed
<1>4. CASE UNCHANGED <<handler, contested, conn>>
  BY <1>4 DEF Undisturbed, Working
<1> QED
  BY <1>t, <1>1, <1>2, <1>3, <1>4, ChannelsSteps, MessagingMoves, RouteMoves
     DEF channelsVars, DropSpace

LEMMA OneRowNext ==
    ASSUME ChannelsTypes, Meeting, OneRow, [ChannelsNext]_channelsVars PROVE OneRow'
<1>t. /\ RowTypes /\ JobTypes /\ MessageTypes /\ JobsSound /\ handler \in [Actors -> Jobs]
      /\ table \in [Slots -> Bots \cup {NoBot}] /\ Resting.pc = "idle" /\ NoBot \notin Bots
  BY ChannelsAssumption DEF ChannelsTypes, JobTypes, RowTypes, Resting, Job
<1>1. ASSUME NEW a \in Actors, Goes(a), NEW b \in Bots \ contested
      PROVE  /\ \A s, t \in Slots : table'[s] = b /\ table'[t] = b => s = t
             /\ \A x \in Actors : Connecting(x, b, {"save"})' =>
                   \A t \in Slots : table'[t] = b => t = handler'[x].slot
  <2>1. /\ \A s, t \in Slots : table[s] = b /\ table[t] = b => s = t
        /\ \A x \in Actors : Connecting(x, b, {"save"}) =>
              \A t \in Slots : table[t] = b => t = handler[x].slot
    BY DEF OneRow
  <2>2. Working(a) /\ JobOf(a, handler[a])
    BY <1>1, <1>t, GoesMoves
  <2>3. ASSUME NEW t \in Slots, table'[t] = b, table[t] # b
        PROVE  Connecting(a, b, {"save"}) /\ t = handler[a].slot
    BY <1>1, <1>t, <2>2, <2>3, RowMoves DEF Connecting, JobOf
  <2>4. \A s, t \in Slots : table'[s] = b /\ table'[t] = b => s = t
    BY <2>1, <2>3
  <2>5. ASSUME NEW x \in Actors, Connecting(x, b, {"save"})', NEW t \in Slots, table'[t] = b
        PROVE  t = handler'[x].slot
    <3>1. CASE x # a
      <4>1. handler'[x] = handler[x] /\ Connecting(x, b, {"save"}) /\ Working(x)
        BY <1>1, <1>t, <2>5, <3>1, GoesMoves DEF Connecting, Working
      <4>2. ~Connecting(a, b, {"save"})
        BY <2>2, <3>1, <4>1 DEF Meeting, Connecting
      <4> QED
        BY <2>1, <2>3, <2>5, <4>1, <4>2
    <3>2. CASE x = a
      <4>1. /\ handler'[a].pc = "save" /\ handler'[a].bot = b
            /\ handler[a].bot = b /\ handler'[a].slot = handler[a].slot
        BY <1>1, <1>t, <2>5, <3>2, GoesMoves DEF Connecting
      <4>2. table' = table /\ MayConnect(b, handler[a].slot)
        BY <1>1, <4>1, RowMoves
      <4> QED
        BY <2>1, <2>5, <3>2, <4>1, <4>2 DEF MayConnect, RowsOf
    <3> QED
      BY <3>1, <3>2
  <2> QED
    BY <2>4, <2>5
<1>2. ASSUME NEW a \in Actors, NEW r \in Jobs, Opening(a, r) PROVE OneRow'
  <2>1. r.pc # "save" /\ table' = table
    BY <1>2 DEF Opening, rows
  <2>2. \A b, x : x \in Actors /\ Connecting(x, b, {"save"})' =>
            Connecting(x, b, {"save"}) /\ handler'[x].slot = handler[x].slot
    BY <1>2, <1>t, <2>1, OpeningMoves DEF Connecting
  <2> QED
    BY <1>2, <1>t, <2>1, <2>2, OpeningMoves DEF OneRow
<1>3. CASE Reboot
  BY <1>3, <1>t, BootMoves DEF OneRow, Connecting, rows
<1>4. CASE UNCHANGED <<handler, contested, rows>>
  BY <1>4 DEF OneRow, Connecting, rows
<1>5. ASSUME NEW a \in Actors, Goes(a) PROVE OneRow'
  <2>1. contested' = contested
    BY <1>5, <1>t, GoesMoves
  <2> QED
    BY <1>1, <1>5, <2>1 DEF OneRow
<1> QED
  BY <1>t, <1>5, <1>2, <1>3, <1>4, ChannelsSteps, MessagingMoves, RouteMoves
     DEF channelsVars, DropSpace

LEMMA HasRowNext ==
    ASSUME ChannelsTypes, BotsInv, [ChannelsNext]_channelsVars PROVE HasRow'
<1>t. /\ RowTypes /\ JobTypes /\ MessageTypes /\ JobsSound /\ handler \in [Actors -> Jobs]
      /\ conn \in [Bots -> Slots \cup {NoSlot}] /\ Resting.pc = "idle" /\ NoSlot \notin Slots
      /\ Meeting /\ Undisturbed /\ OneRow /\ HasRow
  BY ChannelsAssumption DEF ChannelsTypes, JobTypes, BotsInv, Resting, Job
<1>1. ASSUME NEW a \in Actors, Goes(a), NEW b \in Bots \ contested, NEW s \in Slots,
             Settled(b, s)'
      PROVE  table'[s] = b
  <2>1. Working(a) /\ JobOf(a, handler[a])
    BY <1>1, <1>t, GoesMoves
  <2>2. CASE Settled(b, s)
    <3>1. table[s] = b
      BY <1>t, <2>2 DEF HasRow
    <3>2. ASSUME s = handler[a].slot, handler[a].pc \in {"save", "delete"} PROVE FALSE
      <4>1. CASE conn[b] = s
        BY <1>t, <2>1, <3>2, <4>1 DEF Undisturbed
      <4>2. ASSUME NEW x \in Actors, handler[x].slot = s,
                   Connecting(x, b, {"invalidate", "adapter"})
            PROVE  FALSE
        BY <1>t, <2>1, <3>2, <4>2 DEF Meeting, Connecting, Working
      <4> QED
        BY <2>2, <4>1, <4>2 DEF Settled
    <3> QED
      BY <1>1, <3>1, <3>2, RowMoves
  <2>3. CASE ~Settled(b, s)
    <3>1. conn'[b] # s
      <4>1. conn'[b] = conn[b] \/ (Connecting(a, b, {"adapter"}) /\ conn'[b] = handler[a].slot)
        BY <1>1, <1>t, RowMoves DEF Connecting
      <4> QED
        BY <2>3, <4>1 DEF Settled, Connecting
    <3>2. PICK x \in Actors :
            handler'[x].slot = s /\ Connecting(x, b, {"invalidate", "adapter"})'
      BY <1>1, <3>1 DEF Settled
    <3>3. x = a
      BY <1>1, <1>t, <2>3, <3>2, GoesMoves DEF Settled, Connecting
    <3>4. /\ handler[a].slot = s /\ handler[a].bot = b /\ handler[a].kind = "connect"
          /\ handler'[a].pc \in {"invalidate", "adapter"}
      BY <1>1, <1>t, <3>2, <3>3, GoesMoves DEF Connecting
    <3>5. handler[a].pc # "invalidate"
      BY <2>3, <3>4 DEF Settled, Connecting
    <3> QED
      BY <1>1, <3>4, <3>5, RowMoves
  <2> QED
    BY <2>2, <2>3
<1>2. ASSUME NEW a \in Actors, NEW r \in Jobs, Opening(a, r) PROVE HasRow'
  <2>1. ASSUME NEW b \in Bots, NEW s \in Slots, Settled(b, s)' PROVE Settled(b, s)
    <3>1. conn'[b] = s => conn[b] = s
      BY <1>2, <1>t, OpeningMoves
    <3>2. ASSUME NEW x \in Actors, handler'[x].slot = s,
                 Connecting(x, b, {"invalidate", "adapter"})'
          PROVE  Settled(b, s)
      BY <1>2, <1>t, <3>2, OpeningMoves DEF Settled, Connecting, Opening
    <3> QED
      BY <2>1, <3>1, <3>2 DEF Settled
  <2>2. table' = table /\ contested \subseteq contested'
    BY <1>2, <1>t, OpeningMoves DEF rows
  <2> QED
    BY <1>t, <2>1, <2>2 DEF HasRow
<1>3. CASE Reboot
  BY <1>3, <1>t, BootMoves DEF HasRow, Settled, Connecting, rows
<1>4. CASE UNCHANGED <<handler, contested, rows, conn>>
  BY <1>4, <1>t DEF HasRow, Settled, Connecting, rows
<1>5. ASSUME NEW a \in Actors, Goes(a) PROVE HasRow'
  <2>1. contested' = contested
    BY <1>5, <1>t, GoesMoves
  <2> QED
    BY <1>1, <1>5, <2>1 DEF HasRow
<1> QED
  BY <1>t, <1>5, <1>2, <1>3, <1>4, ChannelsSteps, MessagingMoves, RouteMoves
     DEF channelsVars, DropSpace

\* What an operation does to the registry.
LEMMA RegistryMoves ==
    ASSUME ChannelsTypes, NEW a \in Actors, Goes(a)
    PROVE  /\ claimed \subseteq claimed'
           /\ \A b \in Bots : b # handler[a].bot =>
                /\ b \in adapters' <=> b \in adapters
                /\ b \in claimed' <=> b \in claimed
           /\ \A b \in Bots : pollers'[b] >= pollers[b]
           /\ \A b \in Bots : b \in adapters' => b \in adapters \/ pollers'[b] > 0
           /\ conn' # conn =>
                \A b \in Bots : b = handler[a].bot => b \in adapters' \/ Stuck(b)'
<1>t. /\ adapters \subseteq Bots /\ pollers \in [Bots -> Nat] /\ claimed \subseteq Bots
      /\ Working(a) /\ JobOf(a, handler[a]) /\ handler[a].bot \in Bots /\ sort' = sort
  BY GoesMoves DEF ChannelsTypes, RowTypes, JobOf
<1>1. CASE UNCHANGED <<registry, conn>>
  BY <1>t, <1>1 DEF registry
<1>2. ASSUME NEW t \in RowsOf(handler[a].bot), NEW starts \in BOOLEAN,
             HotRegister(handler[a].bot, t, starts)
      PROVE  /\ claimed \subseteq claimed'
             /\ \A b \in Bots : b # handler[a].bot =>
                  /\ b \in adapters' <=> b \in adapters
                  /\ b \in claimed' <=> b \in claimed
             /\ \A b \in Bots : pollers'[b] >= pollers[b]
             /\ \A b \in Bots : b \in adapters' => b \in adapters \/ pollers'[b] > 0
             /\ starts => \A b \in Bots : b = handler[a].bot => b \in adapters' \/ Stuck(b)'
  <2> DEFINE d == handler[a].bot
             fresh == starts /\ ~(sort = "telegram" /\ d \in claimed)
  <2>1. /\ claimed' = IF sort = "telegram" THEN claimed \cup {d} ELSE claimed
        /\ adapters' = IF fresh THEN adapters \cup {d} ELSE adapters
        /\ pollers' = IF fresh THEN [pollers EXCEPT ![d] = @ + 1] ELSE pollers
    BY <1>2 DEF HotRegister
  <2>2. starts => \A b \in Bots : b = d => b \in adapters' \/ Stuck(b)'
    BY <1>t, <2>1 DEF Stuck
  <2>3. /\ \A b \in Bots : pollers'[b] >= pollers[b]
        /\ \A b \in Bots : b \in adapters' => b \in adapters \/ pollers'[b] > 0
    BY <1>t, <2>1
  <2> QED
    BY <2>1, <2>2, <2>3
<1>3. CASE ConnectAdapter(a)
  BY <1>1, <1>2, <1>3 DEF ConnectAdapter
<1>4. CASE Unregister(a)
  BY <1>t, <1>4 DEF Unregister
<1> QED
  BY <1>1, <1>3, <1>4
     DEF Goes, AssertUnique, SaveChannel, ListRows, DeleteConfig, InvalidateOwner

LEMMA RegisteredNext ==
    ASSUME ChannelsTypes, BotsInv, [ChannelsNext]_channelsVars PROVE Registered'
<1>t. /\ RowTypes /\ JobTypes /\ MessageTypes /\ JobsSound /\ handler \in [Actors -> Jobs]
      /\ conn \in [Bots -> Slots \cup {NoSlot}] /\ Resting.pc = "idle" /\ NoSlot \notin Slots
      /\ adapters \subseteq Bots /\ pollers \in [Bots -> Nat] /\ pollers' \in [Bots -> Nat]
      /\ Meeting /\ Undisturbed /\ HasRow /\ Registered
      /\ adapters' \subseteq Bots
  BY ChannelsAssumption, RowsTyped DEF ChannelsTypes, JobTypes, RowTypes, BotsInv, Resting, Job
<1>1. ASSUME NEW a \in Actors, Goes(a) PROVE Registered'
  <2>1. \A b \in adapters' : pollers'[b] > 0
    BY <1>1, <1>t, RegistryMoves DEF Registered
  <2>2. ASSUME NEW b \in Bots \ contested, conn'[b] # NoSlot
        PROVE  Stuck(b)' \/ b \in adapters'
    <3>1. CASE conn' = conn
      <4>1. b # handler[a].bot
        BY <1>1, <1>t, <2>2, <3>1, GoesMoves DEF Undisturbed
      <4> QED
        BY <1>1, <1>t, <2>2, <3>1, <4>1, RegistryMoves, GoesMoves DEF Registered, Stuck
    <3>2. CASE conn' # conn
      <4>1. CASE b = handler[a].bot
        BY <1>1, <3>2, <4>1, RegistryMoves
      <4>2. CASE b # handler[a].bot
        <5>1. conn'[b] = conn[b]
          BY <1>1, <1>t, <4>2, RowMoves
        <5> QED
          BY <1>1, <1>t, <2>2, <4>2, <5>1, RegistryMoves, GoesMoves DEF Registered, Stuck
      <4> QED
        BY <4>1, <4>2
    <3> QED
      BY <3>1, <3>2
  <2>3. contested' = contested
    BY <1>1, <1>t, GoesMoves
  <2> QED
    BY <2>1, <2>2, <2>3 DEF Registered
<1>2. ASSUME NEW a \in Actors, NEW r \in Jobs, Opening(a, r) PROVE Registered'
  BY <1>2, <1>t, OpeningMoves DEF Registered, Stuck, registry
<1>3. CASE Reboot
  <2>1. /\ BootRegistry(table, sort, adapters', pollers', claimed')
        /\ UNCHANGED <<table, conn, contested>>
    BY <1>3 DEF Reboot, rows
  <2>2. ASSUME NEW b \in Bots \ contested, conn[b] # NoSlot PROVE b \in adapters'
    <3>1. conn[b] \in Slots /\ table[conn[b]] = b
      BY <1>t, <2>2 DEF HasRow, Settled
    <3> QED
      BY <1>t, <2>1, <3>1, BootTypes
  <2> QED
    BY <1>t, <2>1, <2>2, BootTypes DEF Registered
<1>4. CASE UNCHANGED <<sort, contested, registry, conn>>
  BY <1>4, <1>t DEF Registered, registry, Stuck
<1> QED
  BY <1>t, <1>1, <1>2, <1>3, <1>4, ChannelsSteps, MessagingMoves, RouteMoves
     DEF channelsVars, DropSpace
-----------------------------------------------------------------------------
(* The spaces, and the message in hand. *)

\* A space that is loaded now has the bindings of the rows.
LEMMA LoadedBinds ==
    ASSUME ChannelsTypes, BotsInv, NEW u \in Owners, GetOrLoad(u),
           NEW b \in Bots \ contested, NEW s \in Slots, Settled(b, s), SpaceOf(b, s)
    PROVE  SpaceOf(b, s)'
<1>1. table[s] = b /\ \A t \in Slots : table[t] = b => t = s
  BY DEF BotsInv, HasRow, OneRow
<1>2. bind \in [Slots -> Bots \cup {NoBot}] /\ UserOf[s] \in Owners
  BY ChannelsAssumption DEF ChannelsTypes, RowTypes
<1>3. CASE u \in loaded
  BY <1>3 DEF GetOrLoad, SpaceOf
<1>4. CASE u \notin loaded
  <2>1. /\ bind' = [t \in Slots |-> IF UserOf[t] = u THEN table[t] ELSE bind[t]]
        /\ loaded' = loaded \cup {u}
    BY <1>4 DEF GetOrLoad
  <2>2. CASE UserOf[s] = u
    BY <1>1, <2>1, <2>2 DEF SpaceOf, SlotsOf
  <2>3. CASE UserOf[s] # u
    BY <2>1, <2>3 DEF SpaceOf, SlotsOf
  <2> QED
    BY <2>2, <2>3
<1> QED
  BY <1>3, <1>4

\* Spaces that are dropped.
LEMMA DroppedBinds ==
    ASSUME NEW u \in Owners, NEW b \in Bots, NEW s \in Slots, SpaceOf(b, s),
           loaded' = loaded \ {u},
           bind' = [t \in Slots |-> IF UserOf[t] = u THEN NoBot ELSE bind[t]]
    PROVE  SpaceOf(b, s)'
<1>1. CASE UserOf[s] = u
  BY <1>1 DEF SpaceOf
<1>2. CASE UserOf[s] # u
  BY <1>2 DEF SpaceOf, SlotsOf
<1> QED
  BY <1>1, <1>2

\* The connect of b to s is at its end, or was the last that touched b.
Assigned(b, s) ==
    conn[b] = s \/ \E a \in Actors : handler[a].slot = s /\ Connecting(a, b, {"adapter"})

LEMMA InSpaceNext ==
    ASSUME ChannelsTypes, BotsInv, [ChannelsNext]_channelsVars PROVE InSpace'
<1>t. /\ RowTypes /\ JobTypes /\ MessageTypes /\ JobsSound /\ handler \in [Actors -> Jobs]
      /\ conn \in [Bots -> Slots \cup {NoSlot}] /\ Resting.pc = "idle" /\ NoSlot \notin Slots
      /\ Meeting /\ Undisturbed
      /\ \A b \in Bots \ contested, s \in Slots : Assigned(b, s) => SpaceOf(b, s)
  BY ChannelsAssumption DEF ChannelsTypes, JobTypes, BotsInv, InSpace, Assigned, Resting, Job
<1>m. \A b \in Bots, s \in Slots : Assigned(b, s) => Settled(b, s)
  BY DEF Assigned, Settled, Connecting
<1>1. ASSUME NEW a \in Actors, Goes(a), NEW b \in Bots \ contested, NEW s \in Slots,
             Assigned(b, s)'
      PROVE  SpaceOf(b, s)'
  <2>1. CASE Assigned(b, s)
    <3>1. CASE InvalidateOwner(a)
      <4>1. UserOf[handler[a].slot] \in Owners
        BY <1>t, <3>1, ChannelsAssumption DEF InvalidateOwner, JobsSound, JobOf, Working
      <4> QED
        BY <1>t, <2>1, <3>1, <4>1, DroppedBinds DEF InvalidateOwner
    <3>2. CASE ~InvalidateOwner(a)
      <4>1. UNCHANGED spaces
        BY <1>1, <3>2 DEF Goes, AssertUnique, SaveChannel, ListRows, DeleteConfig,
                          ConnectAdapter, Unregister
      <4> QED
        BY <1>t, <2>1, <4>1 DEF SpaceOf, spaces
    <3> QED
      BY <3>1, <3>2
  <2>2. CASE ~Assigned(b, s)
    <3>1. conn'[b] # s
      <4>1. conn'[b] = conn[b] \/ (Connecting(a, b, {"adapter"}) /\ conn'[b] = handler[a].slot)
        BY <1>1, <1>t, RowMoves DEF Connecting
      <4> QED
        BY <2>2, <4>1 DEF Assigned
    <3>2. PICK x \in Actors : handler'[x].slot = s /\ Connecting(x, b, {"adapter"})'
      BY <1>1, <3>1 DEF Assigned
    <3>3. x = a
      BY <1>1, <1>t, <2>2, <3>2, GoesMoves DEF Assigned, Connecting
    <3>4. /\ handler[a].slot = s /\ handler[a].bot = b /\ handler[a].kind = "connect"
          /\ handler'[a].pc = "adapter"
      BY <1>1, <1>t, <3>2, <3>3, GoesMoves DEF Connecting
    <3>5. UserOf[s] \notin loaded'
      BY <1>1, <3>4, RowMoves
    <3> QED
      BY <3>5 DEF SpaceOf
  <2> QED
    BY <2>1, <2>2
<1>2. ASSUME NEW a \in Actors, NEW r \in Jobs, Opening(a, r) PROVE InSpace'
  <2>1. ASSUME NEW b \in Bots, NEW s \in Slots, Assigned(b, s)' PROVE Assigned(b, s)
    <3>1. conn'[b] = s => conn[b] = s
      BY <1>2, <1>t, OpeningMoves
    <3>2. ASSUME NEW x \in Actors, handler'[x].slot = s, Connecting(x, b, {"adapter"})'
          PROVE  Assigned(b, s)
      BY <1>2, <1>t, <3>2, OpeningMoves DEF Assigned, Connecting, Opening
    <3> QED
      BY <2>1, <3>1, <3>2 DEF Assigned
  <2>2. UNCHANGED spaces /\ contested \subseteq contested'
    BY <1>2, <1>t, OpeningMoves
  <2> QED
    BY <1>t, <2>1, <2>2 DEF InSpace, Assigned, SpaceOf, spaces
<1>3. ASSUME NEW c \in cur, Route(c) PROVE InSpace'
  <2>1. c.user \in Owners /\ GetOrLoad(c.user) /\ UNCHANGED <<handler, conn, contested>>
    BY <1>t, <1>3, RouteMoves DEF MessageTypes
  <2>2. \A b \in Bots \ contested, s \in Slots : Assigned(b, s) => SpaceOf(b, s)'
    BY <1>t, <1>m, <2>1, LoadedBinds
  <2> QED
    BY <2>1, <2>2 DEF InSpace, Assigned, Connecting
<1>4. ASSUME NEW u \in Owners, DropSpace(u) PROVE InSpace'
  <2>1. UNCHANGED <<handler, conn, contested>>
    BY <1>4 DEF DropSpace
  <2>2. \A b \in Bots \ contested, s \in Slots : Assigned(b, s) => SpaceOf(b, s)'
    BY <1>t, <1>4, DroppedBinds DEF DropSpace
  <2> QED
    BY <2>1, <2>2 DEF InSpace, Assigned, Connecting
<1>5. CASE Reboot
  BY <1>5, BootMoves DEF InSpace, SpaceOf
<1>6. CASE UNCHANGED <<handler, contested, spaces, conn>>
  BY <1>6, <1>t DEF InSpace, Assigned, Connecting, SpaceOf, spaces
<1>7. ASSUME NEW a \in Actors, Goes(a) PROVE InSpace'
  <2>1. contested' = contested
    BY <1>7, <1>t, GoesMoves
  <2> QED
    BY <1>1, <1>7, <2>1 DEF InSpace, Assigned
<1> QED
  BY <1>t, <1>7, <1>2, <1>3, <1>4, <1>5, <1>6, ChannelsSteps, MessagingMoves
     DEF channelsVars

LEMMA BotsInvNext ==
    ASSUME ChannelsTypes, BotsInv, [ChannelsNext]_channelsVars PROVE BotsInv'
<1>1. Meeting' /\ Undisturbed' /\ OneRow'
  BY MeetingNext, UndisturbedNext, OneRowNext DEF BotsInv
<1> QED
  BY <1>1, HasRowNext, RegisteredNext, InSpaceNext DEF BotsInv

LEMMA SteadyCopyNext ==
    ASSUME ChannelsTypes, BotsInv, SteadyCopy, [ChannelsNext]_channelsVars PROVE SteadyCopy'
<1>t. /\ RowTypes /\ JobTypes /\ MessageTypes /\ JobsSound /\ handler \in [Actors -> Jobs]
      /\ conn \in [Bots -> Slots \cup {NoSlot}] /\ NoSlot \notin Slots
      /\ Undisturbed /\ HasRow /\ OneRow
  BY ChannelsAssumption DEF ChannelsTypes, JobTypes, BotsInv
<1>1. ASSUME NEW a \in Actors, Goes(a), NEW c \in cur', c.steady # NoSlot,
             c.b \notin contested'
      PROVE  conn'[c.b] = c.steady /\ c.user = UserOf[c.steady]
  <2>1. c \in cur /\ c.b \in Bots \ contested /\ Working(a)
    BY <1>1, <1>t, GoesMoves DEF inb, MessageTypes
  <2>2. conn[c.b] = c.steady /\ c.user = UserOf[c.steady]
    BY <1>1, <2>1 DEF SteadyCopy
  <2>3. handler[a].bot # c.b
    BY <1>1, <1>t, <2>1, <2>2 DEF Undisturbed
  <2> QED
    BY <1>1, <1>t, <2>1, <2>2, <2>3, RowMoves
<1>2. ASSUME NEW a \in Actors, NEW r \in Jobs, Opening(a, r),
             NEW d \in cur', d.steady # NoSlot, d.b \notin contested'
      PROVE  conn'[d.b] = d.steady /\ d.user = UserOf[d.steady]
  <2>1. PICK c \in cur :
          /\ d.m = c.m /\ d.b = c.b /\ d.user = c.user /\ c.b \in Bots
          /\ d.steady = IF c.b = r.bot \/ c.steady = r.slot THEN NoSlot ELSE c.steady
    BY <1>2, <1>t, OpeningCur DEF MessageTypes
  <2>2. conn[c.b] = c.steady /\ c.user = UserOf[c.steady]
    BY <1>2, <1>t, <2>1, OpeningMoves DEF SteadyCopy
  <2> QED
    BY <1>2, <1>t, <2>1, <2>2, OpeningMoves
<1>3. ASSUME NEW c \in copies, Receive(c) PROVE SteadyCopy'
  <2>1. ASSUME NEW d \in cur', d.steady # NoSlot, d.b \notin contested
        PROVE  conn[d.b] = d.steady /\ d.user = UserOf[d.steady]
    <3>1. PICK s \in RowsOf(c.b) :
            d = [m |-> c.m, b |-> c.b, user |-> UserOf[s], steady |-> conn[c.b]]
      BY <1>3, <2>1 DEF Receive
    <3>2. c.b \in Bots \ contested /\ conn[c.b] \in Slots
      BY <1>t, <2>1, <3>1 DEF MessageTypes
    <3>3. s = conn[c.b]
      BY <1>t, <3>1, <3>2 DEF HasRow, OneRow, Settled, RowsOf
    <3> QED
      BY <3>1, <3>3
  <2>2. UNCHANGED <<conn, contested>>
    BY <1>3 DEF Receive
  <2> QED
    BY <2>1, <2>2 DEF SteadyCopy
<1>4. CASE cur' = {}
  BY <1>4 DEF SteadyCopy
<1>5. CASE UNCHANGED <<cur, conn, contested>>
  BY <1>5 DEF SteadyCopy
<1>6. CASE Messaging
  BY <1>3, <1>5, <1>6 DEF Messaging, Send, Redeliver, Forget
<1>7. CASE \E u \in Owners : DropSpace(u)
  BY <1>5, <1>7 DEF DropSpace, inb
<1>8. CASE (\E c \in cur : Route(c)) \/ Reboot
  BY <1>4, <1>8, RouteMoves, BootMoves
<1>9. CASE (\E a \in Actors : Goes(a)) \/ (\E a \in Actors, r \in Jobs : Opening(a, r))
  BY <1>1, <1>2, <1>9 DEF SteadyCopy
<1>10. CASE UNCHANGED channelsVars
  BY <1>5, <1>10 DEF channelsVars, inb
<1> QED
  BY <1>t, <1>6, <1>7, <1>8, <1>9, <1>10, ChannelsSteps

\* The entries that key k has had, and the copies of m that took one.
Entries(k) == lapses[k] + (IF k \in seen THEN 1 ELSE 0)
Handled(m) == Len(turns[m]) + (IF \E c \in cur : c.m = m THEN 1 ELSE 0)

LEMMA KeyTakenNext ==
    ASSUME ChannelsTypes, KeyTaken, [ChannelsNext]_channelsVars PROVE KeyTaken'
<1>t. /\ RowTypes /\ JobTypes /\ MessageTypes /\ JobsSound
      /\ turns \in [Messages -> Seq(Routable)]
      /\ lapses \in [Keys -> Nat] /\ seen \subseteq Keys
      /\ \A m \in Messages : Len(turns[m]) \in Nat /\ Handled(m) \in Nat
      /\ \A k \in Keys : Entries(k) \in Nat
  <2>1. \A m \in Messages : Len(turns[m]) \in Nat
    <3>1. ASSUME NEW m \in Messages PROVE turns[m] \in Seq(Routable)
      BY DEF ChannelsTypes, MessageTypes
    <3> QED
      BY <3>1, LenProperties
  <2> QED
    BY <2>1 DEF ChannelsTypes, MessageTypes, Entries, Handled
<1>k. \A m \in Messages : Info[m].key # NoKey =>
          Info[m].key \in Keys /\ Handled(m) <= Entries(Info[m].key)
  BY DEF KeyTaken, Keys, Handled, Entries
<1>1. ASSUME \A m \in Messages : Handled(m)' <= Handled(m),
             \A k \in Keys : Entries(k)' >= Entries(k),
             \A k \in Keys : Entries(k)' \in Nat, \A m \in Messages : Handled(m)' \in Nat
      PROVE  KeyTaken'
  <2>1. ASSUME NEW m \in Messages, Info[m].key # NoKey
        PROVE  Handled(m)' <= Entries(Info[m].key)'
    BY <1>t, <1>k, <1>1, <2>1
  <2> QED
    BY <2>1 DEF KeyTaken, Handled, Entries
<1>2. ASSUME NEW c \in cur, Route(c) PROVE KeyTaken'
  <2>1. /\ c.m \in Messages /\ cur = {c} /\ cur' = {} /\ seen' = seen /\ lapses' = lapses
        /\ turns' = turns \/ \E g \in Routable : turns' = [turns EXCEPT ![c.m] = Append(@, g)]
    BY <1>2, <1>t, RouteTurns, RouteMoves
  <2>2. ASSUME NEW m \in Messages PROVE Handled(m)' \in Nat /\ Handled(m)' <= Handled(m)
    <3>0. turns[m] \in Seq(Routable)
      BY <1>t
    <3>1. CASE m = c.m
      <4>1. Len(turns'[m]) \in Nat /\ Len(turns'[m]) <= Len(turns[m]) + 1
        BY <1>t, <2>1, <3>0, <3>1
      <4> QED
        BY <1>t, <2>1, <3>1, <4>1 DEF Handled
    <3>2. CASE m # c.m
      BY <1>t, <2>1, <3>2 DEF Handled
    <3> QED
      BY <3>1, <3>2
  <2> QED
    BY <1>1, <1>t, <2>1, <2>2 DEF Entries
<1>3. ASSUME NEW c \in copies, Receive(c) PROVE KeyTaken'
  <2>1. /\ c.m \in Messages /\ cur = {} /\ turns' = turns /\ lapses' = lapses
        /\ \/ cur' = {} /\ seen' = seen
           \/ /\ Info[c.m].key \notin seen /\ seen' = seen \cup ({Info[c.m].key} \ {NoKey})
              /\ \A d \in cur' : d.m = c.m
    BY <1>3, <1>t DEF Receive, MessageTypes, IsDuplicate
  <2>2. ASSUME NEW m \in Messages, Info[m].key # NoKey
        PROVE  Handled(m)' <= Entries(Info[m].key)'
    <3>1. CASE cur' = {} /\ seen' = seen
      BY <1>t, <1>k, <2>1, <2>2, <3>1 DEF Handled, Entries
    <3>2. CASE /\ Info[c.m].key \notin seen
               /\ seen' = seen \cup ({Info[c.m].key} \ {NoKey})
               /\ \A d \in cur' : d.m = c.m
      <4>1. CASE m = c.m
        <5>1. Handled(m)' \in Nat /\ Handled(m)' <= Handled(m) + 1
          BY <1>t, <2>1 DEF Handled
        <5>2. Entries(Info[m].key)' = Entries(Info[m].key) + 1
          <6>1. Info[m].key \in Keys /\ Info[m].key \notin seen /\ Info[m].key \in seen'
            BY <1>k, <2>2, <3>2, <4>1
          <6> QED
            BY <1>t, <2>1, <6>1 DEF Entries
        <5> QED
          BY <1>t, <1>k, <2>2, <5>1, <5>2
      <4>2. CASE m # c.m
        <5>1. Handled(m)' = Handled(m) /\ Entries(Info[m].key)' >= Entries(Info[m].key)
          BY <1>t, <1>k, <2>1, <2>2, <3>2, <4>2 DEF Handled, Entries
        <5>2. Entries(Info[m].key)' \in Nat
          BY <1>t, <1>k, <2>1, <2>2 DEF Entries
        <5> QED
          BY <1>t, <1>k, <2>2, <5>1, <5>2
      <4> QED
        BY <4>1, <4>2
    <3> QED
      BY <2>1, <3>1, <3>2
  <2> QED
    BY <2>2 DEF KeyTaken, Handled, Entries
<1>4. ASSUME NEW k \in Keys, Forget(k) PROVE KeyTaken'
  <2>1. /\ k \in seen /\ seen' = seen \ {k} /\ lapses' = [lapses EXCEPT ![k] = @ + 1]
        /\ turns' = turns /\ cur' = cur
    BY <1>4 DEF Forget
  <2>2. ASSUME NEW j \in Keys PROVE Entries(j)' = Entries(j)
    BY <1>t, <2>1 DEF Entries
  <2>3. \A m \in Messages : Handled(m)' = Handled(m)
    BY <2>1 DEF Handled
  <2> QED
    BY <1>1, <1>t, <2>2, <2>3
<1>5. CASE Reboot
  <2>1. /\ cur' = {} /\ seen' = {} /\ turns' = turns
        /\ lapses' = [k \in Keys |-> lapses[k] + 1]
    BY <1>5 DEF Reboot
  <2>2. ASSUME NEW j \in Keys PROVE Entries(j)' \in Nat /\ Entries(j)' >= Entries(j)
    BY <1>t, <2>1 DEF Entries
  <2>3. \A m \in Messages : Handled(m)' \in Nat /\ Handled(m)' <= Handled(m)
    BY <1>t, <2>1 DEF Handled
  <2> QED
    BY <1>1, <2>2, <2>3
<1>6. CASE UNCHANGED <<cur, seen, turns, lapses>>
  BY <1>6 DEF KeyTaken
<1>7. ASSUME NEW a \in Actors, NEW r \in Jobs, Opening(a, r) PROVE KeyTaken'
  BY <1>7, <1>t, OpeningCur DEF KeyTaken
<1>8. ASSUME NEW a \in Actors, Goes(a) PROVE KeyTaken'
  BY <1>6, <1>8, <1>t, GoesMoves DEF inb
<1>9. CASE Messaging
  BY <1>3, <1>4, <1>6, <1>9 DEF Messaging, Send, Redeliver
<1>10. CASE UNCHANGED channelsVars \/ \E u \in Owners : DropSpace(u)
  BY <1>6, <1>10 DEF channelsVars, DropSpace, inb
<1> QED
  BY <1>t, <1>2, <1>5, <1>7, <1>8, <1>9, <1>10, ChannelsSteps
-----------------------------------------------------------------------------
(* The invariant, and what it says. *)

LEMMA ChannelsInvInit == ASSUME ChannelsInit PROVE ChannelsInv
<1>1. /\ table \in [Slots -> Bots \cup {NoBot}] /\ NoBot \notin Bots /\ NoSlot \notin Slots
      /\ \A a \in Actors : handler[a] = Resting
      /\ DOMAIN handler = Actors /\ handler = [a \in Actors |-> Resting]
      /\ Resting.pc = "idle" /\ Resting \in Jobs
  BY ChannelsAssumption DEF ChannelsInit, Resting, Job, Jobs
<1>2. ASSUME NEW b \in Bots
      PROVE  /\ RowsOf(b) # {} => (CHOOSE s \in RowsOf(b) : TRUE) \in RowsOf(b)
             /\ RowsOf(b) \subseteq Slots /\ IsFiniteSet(RowsOf(b))
             /\ Cardinality(RowsOf(b)) \in Nat
             /\ b \notin contested => \A s, t \in RowsOf(b) : s = t
  <2>1. IsFiniteSet(RowsOf(b)) /\ RowsOf(b) \subseteq Slots
    BY ChannelsAssumption, FS_Subset DEF RowsOf
  <2>2. Cardinality(RowsOf(b)) \in Nat
    BY <2>1, FS_CardinalityType
  <2>3. ASSUME b \notin contested, NEW s \in RowsOf(b), NEW t \in RowsOf(b), s # t PROVE FALSE
    <3>1. Cardinality(RowsOf(b)) <= 1
      BY <2>2, <2>3 DEF ChannelsInit
    <3>2. {s, t} \subseteq RowsOf(b) /\ Cardinality({s, t}) = 2
      <4>1. IsFiniteSet({s}) /\ Cardinality({s}) = 1 /\ t \notin {s}
        BY <2>3, FS_Singleton
      <4>2. Cardinality({s} \cup {t}) = 2
        <5>1. Cardinality({s} \cup {t}) = Cardinality({s}) + 1
          BY <4>1, FS_AddElement, Zenon
        <5> QED
          BY <4>1, <5>1
      <4>3. {s} \cup {t} = {s, t}
        OBVIOUS
      <4> QED
        BY <2>3, <4>2, <4>3
    <3>3. Cardinality({s, t}) <= Cardinality(RowsOf(b))
      BY <2>1, <3>2, FS_Subset
    <3> QED
      BY <2>2, <3>1, <3>2, <3>3
  <2> QED
    BY <2>1, <2>2, <2>3
<1>3. RowTypes
  <2>1. /\ BootRegistry(table, sort, adapters, pollers, claimed)
        /\ rowId = [s \in Slots |-> IF table[s] = NoBot THEN 0 ELSE 1]
        /\ loaded = {} /\ bind = [s \in Slots |-> NoBot]
        /\ origin = [b \in Bots |-> IF RowsOf(b) = {} THEN [slot |-> NoSlot, id |-> 0]
                     ELSE [slot |-> CHOOSE s \in RowsOf(b) : TRUE, id |-> 1]]
    BY DEF ChannelsInit
  <2>2. pollers \in [Bots -> Nat] /\ adapters \subseteq Bots /\ claimed \subseteq Bots
    BY <1>1, <2>1, StartedCount DEF BootRegistry
  <2>3. origin \in [Bots -> [slot : Slots \cup {NoSlot}, id : Nat]]
    BY <1>2, <2>1
  <2> QED
    BY <1>1, <2>1, <2>2, <2>3 DEF RowTypes
<1>4. JobTypes /\ JobsSound /\ \A a \in Actors : ~Working(a)
  BY <1>1, <1>2 DEF ChannelsInit, JobTypes, JobsSound, Working
<1>5. MessageTypes
  BY DEF ChannelsInit, MessageTypes
<1>6. \A b \in adapters : pollers[b] > 0
  BY DEF ChannelsInit, BootRegistry
<1>7. ASSUME NEW b \in Bots \ contested, conn[b] # NoSlot
      PROVE  conn[b] \in RowsOf(b) /\ b \in adapters
  <2>1. conn[b] \in RowsOf(b)
    BY <1>2, <1>7 DEF ChannelsInit
  <2>2. BootRegistry(table, sort, adapters, pollers, claimed)
    BY DEF ChannelsInit
  <2> QED
    BY <1>3, <2>1, <2>2, BootTypes DEF RowsOf
<1>8. Meeting /\ Undisturbed /\ Registered
  BY <1>4, <1>6, <1>7 DEF Meeting, Undisturbed, Registered
<1>9. OneRow /\ HasRow
  <2>1. ASSUME NEW a \in Actors, NEW b, NEW pcs, "idle" \notin pcs PROVE ~Connecting(a, b, pcs)
    BY <1>1, <2>1 DEF Connecting
  <2>2. OneRow
    BY <1>2, <2>1 DEF OneRow, RowsOf
  <2>3. HasRow
    BY <1>1, <1>7, <2>1 DEF HasRow, Settled, RowsOf
  <2> QED
    BY <2>2, <2>3
<1>10. InSpace /\ SteadyCopy /\ KeyTaken
  <2>1. /\ loaded = {} /\ cur = {} /\ seen = {} /\ turns = [m \in Messages |-> <<>>]
        /\ lapses = [k \in Keys |-> 0]
    BY DEF ChannelsInit
  <2>2. \A m \in Messages : Info[m].key # NoKey => Info[m].key \in Keys
    BY DEF Keys
  <2> QED
    BY <2>1, <2>2 DEF InSpace, SpaceOf, SteadyCopy, KeyTaken
<1> QED
  BY <1>3, <1>4, <1>5, <1>8, <1>9, <1>10 DEF ChannelsInv, BotsInv, ChannelsTypes

LEMMA ChannelsInvNext ==
    ASSUME ChannelsInv, [ChannelsNext]_channelsVars PROVE ChannelsInv'
  BY ChannelsTypesNext, BotsInvNext, SteadyCopyNext, KeyTakenNext DEF ChannelsInv

LEMMA ChannelsInvHolds == ChannelsSpec => []ChannelsInv
  BY ChannelsInvInit, ChannelsInvNext, PTL DEF ChannelsSpec

LEMMA ConnectedNow == ASSUME ChannelsInv PROVE Connected
<1>t. /\ RowTypes /\ conn \in [Bots -> Slots \cup {NoSlot}] /\ NoSlot \notin Slots
      /\ OneRow /\ HasRow /\ Registered /\ InSpace
  BY ChannelsAssumption DEF ChannelsInv, ChannelsTypes, JobTypes, BotsInv
<1>1. BoundOnce
  <2>1. ASSUME NEW b \in Bots \ contested PROVE Cardinality(RowsOf(b)) <= 1
    <3>1. CASE RowsOf(b) = {}
      BY <3>1, FS_EmptySet
    <3>2. ASSUME NEW s \in RowsOf(b) PROVE Cardinality(RowsOf(b)) <= 1
      <4>1. RowsOf(b) = {s}
        BY <1>t, <3>2 DEF OneRow, RowsOf
      <4> QED
        BY <4>1, FS_Singleton
    <3> QED
      BY <3>1, <3>2
  <2> QED
    BY <2>1 DEF BoundOnce
<1>2. ASSUME NEW b \in Bots \ contested, conn[b] # NoSlot
      PROVE  /\ table[conn[b]] = b
             /\ ~Stuck(b) => b \in adapters /\ pollers[b] > 0
             /\ UserOf[conn[b]] \in loaded => bind[conn[b]] = b
  BY <1>t, <1>2 DEF HasRow, Settled, Registered, InSpace, SpaceOf
<1> QED
  BY <1>1, <1>2 DEF Connected, ConnectedStays

\* A copy that is taken for a bot that counts as connected.
LEMMA TakenRight ==
    ASSUME ChannelsInv, [ChannelsNext]_channelsVars, NEW c \in copies, c \notin copies',
           mishaps' = mishaps, ~IsDuplicate(c.m), conn[c.b] # NoSlot, c.b \notin contested
    PROVE  \E d \in cur' : d.m = c.m /\ d.user = UserOf[conn[c.b]]
<1>t. /\ RowTypes /\ JobTypes /\ MessageTypes /\ JobsSound /\ OneRow /\ HasRow
      /\ conn \in [Bots -> Slots \cup {NoSlot}] /\ c.b \in Bots /\ mishaps \in Nat
  BY DEF ChannelsInv, ChannelsTypes, JobTypes, BotsInv, MessageTypes
<1>1. ASSUME NEW d \in copies, Receive(d) PROVE d = c
  BY <1>1 DEF Receive
<1>2. Receive(c)
  <2>1. ~\E a \in Actors : Goes(a)
    BY <1>t, GoesMoves DEF inb
  <2>2. ~\E a \in Actors, r \in Jobs : Opening(a, r)
    BY <1>t, OpeningCur
  <2>3. ~Reboot
    BY <1>t DEF Reboot, Mishap
  <2>4. ~(\/ UNCHANGED channelsVars \/ \E d \in cur : Route(d)
          \/ \E u \in Owners : DropSpace(u))
    BY RouteMoves DEF channelsVars, DropSpace, inb
  <2>5. Messaging
    BY <1>t, <2>1, <2>2, <2>3, <2>4, ChannelsSteps
  <2> QED
    BY <1>1, <2>5 DEF Messaging, Send, Redeliver, Forget
<1>3. RowsOf(c.b) = {conn[c.b]}
  BY <1>t DEF HasRow, OneRow, Settled, RowsOf
<1>4. PICK s \in RowsOf(c.b) :
        cur' = {[m |-> c.m, b |-> c.b, user |-> UserOf[s], steady |-> conn[c.b]]}
  <2>1. RowsOf(c.b) # {}
    BY <1>3
  <2> QED
    BY <1>2, <2>1 DEF Receive
<1>5. s = conn[c.b]
  BY <1>3, <1>4
<1> QED
  BY <1>4, <1>5

\* The agents that a bot is bound to, once the space is loaded.
LEMMA BoundRight ==
    ASSUME ChannelsInv, NEW b \in Bots \ contested, conn[b] # NoSlot,
           GetOrLoad(UserOf[conn[b]])
    PROVE  /\ Bound(UserOf[conn[b]], b) = {AgentOf[conn[b]]}
           /\ ~Unbound(UserOf[conn[b]])
<1>t. /\ ChannelsTypes /\ BotsInv /\ conn[b] \in Slots /\ b # NoBot /\ InSpace
      /\ UserOf \in [Slots -> Owners]
  BY ChannelsAssumption DEF ChannelsInv, ChannelsTypes, JobTypes, BotsInv
<1> SUFFICES ASSUME NEW s \in Slots, s = conn[b]
             PROVE  Bound(UserOf[s], b) = {AgentOf[s]} /\ ~Unbound(UserOf[s])
  BY <1>t
<1>1. Settled(b, s) /\ SpaceOf(b, s) /\ GetOrLoad(UserOf[s])
  BY <1>t DEF Settled, InSpace
<1>2. SpaceOf(b, s)'
  BY <1>t, <1>1, LoadedBinds
<1>3. UserOf[s] \in loaded'
  BY <1>1 DEF GetOrLoad
<1>4. s \in SlotsOf(UserOf[s]) /\ {t \in SlotsOf(UserOf[s]) : bind'[t] = b} = {s}
  BY <1>2, <1>3 DEF SpaceOf, SlotsOf
<1> QED
  BY <1>t, <1>4 DEF Bound, Unbound

LEMMA RoutesRight ==
    ASSUME ChannelsInv, [ChannelsNext]_channelsVars, NEW c \in cur, cur' = {},
           mishaps' = mishaps, c.steady # NoSlot, c.b \notin contested
    PROVE  LET g == AgentOf[c.steady]
               i == Info[c.m]
               turn == turns'[c.m] = Append(turns[c.m], g)
           IN IF ~i.group \/ (c.b \in i.at /\ ~Stuck(c.b)) THEN turn
              ELSE turn \/ g \in heard'[c.m]
<1>t. /\ RowTypes /\ JobTypes /\ MessageTypes /\ JobsSound
      /\ c.b \in Bots /\ c.m \in Messages /\ mishaps \in Nat
      /\ turns \in [Messages -> Seq(Routable)] /\ heard \in [Messages -> SUBSET Routable]
      /\ Registered /\ SteadyCopy
  BY DEF ChannelsInv, ChannelsTypes, JobTypes, BotsInv, MessageTypes
<1> DEFINE g == AgentOf[c.steady]
           turn == turns'[c.m] = Append(turns[c.m], g)
<1>1. Route(c)
  <2>1. ~\E a \in Actors : Goes(a)
    BY <1>t, GoesMoves DEF inb
  <2>2. ~\E a \in Actors, r \in Jobs : Opening(a, r)
    BY <1>t, OpeningCur
  <2>3. ~Reboot
    BY <1>t DEF Reboot, Mishap
  <2>4. ~(UNCHANGED channelsVars \/ Messaging \/ \E u \in Owners : DropSpace(u))
    BY DEF channelsVars, DropSpace, inb, Messaging, Send, Redeliver, Receive, Forget
  <2>5. PICK d \in cur : Route(d)
    BY <1>t, <2>1, <2>2, <2>3, <2>4, ChannelsSteps
  <2> QED
    BY <2>5 DEF Route
<1>2. conn[c.b] = c.steady /\ c.user = UserOf[conn[c.b]]
  BY <1>t DEF SteadyCopy
<1>3. Bound(c.user, c.b) = {g} /\ ~Unbound(c.user)
  BY <1>1, <1>2, <1>t, BoundRight DEF Route
<1>4. CASE ~Info[c.m].group
  <2>1. MatchAgent(c.user, c.b) = {g}
    BY <1>3 DEF MatchAgent
  <2>2. Turn(c.m, g, {})
    BY <1>1, <1>4, <2>1 DEF Route, RouteDM
  <2>3. turn
    BY <1>t, <2>2 DEF Turn
  <2> QED
    BY <1>4, <2>3
<1>5. CASE Info[c.m].group
  <2>1. AgentsBound(c.user, c.b) = {g} /\ RouteGroup(c)
    BY <1>1, <1>3, <1>5 DEF AgentsBound, Route
  <2>2. CASE c.b \in Info[c.m].at /\ ~Stuck(c.b)
    <3>1. AgentByMention(c.m, c.user, c.b) = {g}
      BY <1>2, <1>3, <1>t, <2>2 DEF AgentByMention, Registered
    <3>2. \E hs : Turn(c.m, g, hs)
      BY <2>1, <3>1 DEF RouteGroup
    <3>3. turn
      BY <1>t, <3>2 DEF Turn
    <3> QED
      BY <3>3
  <2>3. CASE ~(c.b \in Info[c.m].at /\ ~Stuck(c.b))
    <3>1. AgentByMention(c.m, c.user, c.b) \subseteq {g}
      BY <1>3 DEF AgentByMention
    <3>2. \/ NoTurn(c.m, {g})
          \/ \E hs : Turn(c.m, g, hs)
          \/ \E h : h # g /\ Turn(c.m, h, {g} \ {h})
      BY <2>1, <3>1 DEF RouteGroup
    <3>3. turn \/ g \in heard'[c.m]
      BY <1>t, <3>2 DEF Turn, NoTurn
    <3> QED
      BY <1>5, <2>3, <3>3
  <2> QED
    BY <2>2, <2>3
<1> QED
  BY <1>4, <1>5

\* The bot that the dashboard connected stays its agent's: a bot that no two
\* operations worked on at once has one row, and from an undisturbed connect on its
\* row, its adapter and poller, and a binding in the space of its user.
THEOREM ConnectedHolds == ChannelsSpec => []Connected
<1>1. ChannelsInv => Connected
  BY ConnectedNow
<1> QED
  BY <1>1, ChannelsInvHolds, PTL

\* A message makes no turn too many, and none in the wrong place.
THEOREM RoutedOnceHolds == ChannelsSpec => RoutedOnce
<1>1. ChannelsInv => OnceRouted
  <2>1. ASSUME ChannelsInv, NEW m \in Messages, Info[m].key # NoKey
        PROVE  TurnsOf(m) <= 1 + lapses[Info[m].key]
    <3> DEFINE k == Info[m].key
               held == IF \E c \in cur : c.m = m THEN 1 ELSE 0
               kept == IF k \in seen THEN 1 ELSE 0
    <3>1. /\ turns[m] \in Seq(Routable) /\ lapses[k] \in Nat
          /\ Len(turns[m]) + held <= lapses[k] + kept
      BY <2>1 DEF ChannelsInv, ChannelsTypes, MessageTypes, Keys, KeyTaken
    <3>2. Len(turns[m]) \in Nat
      BY <3>1, LenProperties
    <3>3. held \in {0, 1} /\ kept \in {0, 1}
      OBVIOUS
    <3> HIDE DEF held, kept
    <3>4. Len(turns[m]) <= 1 + lapses[k]
      BY <3>1, <3>2, <3>3
    <3> QED
      BY <3>4 DEF TurnsOf
  <2> QED
    BY <2>1 DEF OnceRouted
<1>2. ChannelsInv /\ [ChannelsNext]_channelsVars =>
        [/\ \A c \in copies :
              (c \notin copies' /\ mishaps' = mishaps /\ ~IsDuplicate(c.m)
                 /\ conn[c.b] # NoSlot /\ c.b \notin contested)
              => \E d \in cur' : d.m = c.m /\ d.user = UserOf[conn[c.b]]
         /\ \A c \in cur :
              (cur' = {} /\ mishaps' = mishaps /\ c.steady # NoSlot
                 /\ c.b \notin contested)
              => LET g == AgentOf[c.steady]
                     i == Info[c.m]
                     turn == turns'[c.m] = Append(turns[c.m], g)
                 IN IF ~i.group \/ (c.b \in i.at /\ ~Stuck(c.b)) THEN turn
                    ELSE turn \/ g \in heard'[c.m]]_channelsVars
  BY TakenRight, RoutesRight, Zenon
<1> QED
  BY <1>1, <1>2, ChannelsInvHolds, PTL DEF RoutedOnce, RoutedRight, ChannelsSpec
=============================================================================
