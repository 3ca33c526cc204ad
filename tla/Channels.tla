------------------------------ MODULE Channels ------------------------------
(***************************************************************************)
(* A chat bot from the dashboard to a turn: the handlers that connect and  *)
(* disconnect a bot (setup/handlers_agent_channels.go), its row in         *)
(* configs, the registry of adapters and their pollers                     *)
(* (channels/manager.go, gateway/channels.go), the purge of an expired     *)
(* WeChat account, and the inbound loop that finds the owner, drops        *)
(* duplicates and picks the agent (gateway/routing.go, dedup.go).          *)
(*                                                                         *)
(* A slot is the owner of a row, a (user, agent) pair: there is one row    *)
(* per slot and channel type, and a connect overwrites it.  A behaviour    *)
(* has one channel type, sort, and one process; ChannelLease has several.  *)
(* A copy [m, b, k] is message m as bot b's k-th connection receives it.   *)
(***************************************************************************)
EXTENDS Integers, FiniteSets, Sequences

CONSTANTS
    Owners, Bots, Slots,
    UserOf, AgentOf,    \* slot -> its user, its agent
    Owned,              \* user -> agents that ListAgents returns
    Lead,               \* user -> default agent of a team of all, or NoAgent
    Sorts,              \* of telegram, discord, wechat
    Messages,
    Info,       \* message -> [group, to, at, isBot, key]: bots that get it,
                \* bots it mentions, sent by a bot, what isDuplicate keys on
    NoKey,      \* a direct message without a MessageID
    Boots,      \* rows the process may find when it starts
    Handlers,   \* handlers at work at once
    MaxOps, MaxMishaps, MaxSent,    \* bounds
    NoBot, NoSlot, NoAgent, Purger

ASSUME ChannelsAssumption ==
    /\ IsFiniteSet(Slots) /\ NoSlot \notin Slots /\ UserOf \in [Slots -> Owners]
    /\ NoBot \notin Bots /\ Boots \subseteq [Slots -> Bots \cup {NoBot}]
    /\ \A m \in Messages : Info[m].to \subseteq Bots
    /\ Purger \notin Handlers /\ {MaxOps, MaxMishaps, MaxSent} \subseteq Nat

VARIABLES
    sort,
    table,      \* slot -> bot of its row
    rowId,      \* slot -> how often the row was created: its random id
    adapters,   \* keys of Manager.channels
    pollers,    \* bot -> goroutines in Start
    origin,     \* bot -> [slot, id] that its adapter's onExpired captured
    claimed,    \* Manager.tgTokens
    loaded,     \* users whose UserSpace is cached
    bind,       \* slot -> bot that the cached Config.Bindings name for it
    handler,    \* actor -> the handler or purge it is in
    copies,     \* copies at the platform or on the bus
    cur,        \* what processInbound is routing: a set of at most one
    seen,       \* keys of Gateway.dedup
    turns,      \* message -> the agents of the turns submitted or steered, in order
    heard,      \* message -> agents it was injected into
    sent, expired,  \* messages sent, WeChat tokens that are dead
    begun, mishaps, \* for the bounds: operations; crashes, retries, failed
                    \* registrations and forgotten entries together
    conn,       \* history: bot -> slot of its last undisturbed connect
    contested,  \* history: bots that two operations worked on at once, in this
                \* process or in one that left the bot two rows
    lapses      \* history: key -> times the dedupe entry was lost

rows     == <<table, rowId>>
registry == <<adapters, pollers, origin, claimed>>
spaces   == <<loaded, bind>>
inb      == <<copies, cur, seen, turns, heard, lapses>>
channelsVars == <<sort, rows, registry, spaces, handler, inb, sent, expired, begun,
                  mishaps, conn, contested>>

Actors == Handlers \cup {Purger}
Keys   == {Info[m].key : m \in Messages} \ {NoKey}
SlotsOf(u) == {s \in Slots : UserOf[s] = u}
RowsOf(b)  == {s \in Slots : table[s] = b}

Job(p, k, b, s, i) ==
    [pc |-> p, kind |-> k, bot |-> b, slot |-> s, id |-> i, raced |-> FALSE]

Resting == Job("idle", "connect", NoBot, NoSlot, 0)

\* The pollers that the rows r start: a second Telegram token is refused.
Started(r, t) == [b \in Bots |->
    LET n == Cardinality({s \in Slots : r[s] = b})
    IN IF t = "telegram" /\ n > 1 THEN 1 ELSE n]

\* registerChannelsFromStore, on a fresh manager.
BootRegistry(r, t, ad, po, cl) ==
    /\ po = Started(r, t)
    /\ ad = {b \in Bots : po[b] > 0}
    /\ cl = IF t = "telegram" THEN ad ELSE {}

ChannelsInit ==
    /\ sort \in Sorts /\ table \in Boots
    /\ rowId = [s \in Slots |-> IF table[s] = NoBot THEN 0 ELSE 1]
    /\ BootRegistry(table, sort, adapters, pollers, claimed)
    /\ origin = [b \in Bots |-> IF RowsOf(b) = {} THEN [slot |-> NoSlot, id |-> 0]
                 ELSE [slot |-> CHOOSE s \in RowsOf(b) : TRUE, id |-> 1]]
    /\ loaded = {} /\ bind = [s \in Slots |-> NoBot]
    /\ handler = [a \in Actors |-> Resting]
    /\ copies = {} /\ cur = {} /\ seen = {}
    /\ turns = [m \in Messages |-> <<>>]
    /\ heard = [m \in Messages |-> {}]
    /\ sent = {} /\ expired = {}
    /\ begun = 0 /\ mishaps = 0
    /\ conn = [b \in Bots |-> IF RowsOf(b) = {} THEN NoSlot
               ELSE CHOOSE s \in RowsOf(b) : TRUE]
    /\ contested = {b \in Bots : Cardinality(RowsOf(b)) > 1} /\ lapses = [k \in Keys |-> 0]
-----------------------------------------------------------------------------
(* Connect, disconnect and purge. *)

Meets(a, b, s) == /\ handler[a].pc # "idle"
                  /\ handler[a].bot = b \/ handler[a].slot = s

\* Actor a starts r; what it meets is raced, and the bots it is about are
\* no longer undisturbed.
Engage(a, r) ==
    LET met == {x \in Actors \ {a} : Meets(x, r.bot, r.slot)}
    IN /\ handler' = [x \in Actors |->
                 IF x = a THEN [r EXCEPT !.raced = met # {}]
                 ELSE [handler[x] EXCEPT !.raced = @ \/ x \in met]]
       /\ conn' = [b \in Bots |-> IF b = r.bot \/ conn[b] = r.slot THEN NoSlot
                                  ELSE conn[b]]
       /\ cur' = {[c EXCEPT !.steady = IF c.b = r.bot \/ @ = r.slot THEN NoSlot
                                       ELSE @] : c \in cur}
       /\ contested' = contested \cup
              (IF met = {} THEN {} ELSE {r.bot} \cup {handler[x].bot : x \in met})
       /\ UNCHANGED <<copies, seen, turns, heard, lapses>>

Proceed(a, p) == handler' = [handler EXCEPT ![a].pc = p]
Retire(a)  == handler' = [handler EXCEPT ![a] = Resting]

Mishap == mishaps < MaxMishaps /\ mishaps' = mishaps + 1

Start(a, k, b, s) ==
    /\ handler[a].pc = "idle" /\ begun < MaxOps /\ begun' = begun + 1
    /\ b \notin expired
    /\ Engage(a, Job(IF k = "connect" THEN "check" ELSE "list", k, b, s, 0))
    /\ UNCHANGED <<sort, rows, registry, spaces, sent, expired, mishaps>>

\* assertChannelCredentialUnique: one row is looked up, whichever comes first.
MayConnect(b, s) == RowsOf(b) = {} \/ s \in RowsOf(b)
MustRefuse(b, s) == RowsOf(b) \ {s} # {}

\* Mutant: a bot is not looked up before it is connected.
AssertUnique_Skips(a) ==
    /\ handler[a].pc = "check" /\ Proceed(a, "save")
    /\ UNCHANGED <<sort, rows, registry, spaces, inb, sent, expired, begun, mishaps,
                   conn, contested>>

AssertUnique(a) ==
    /\ handler[a].pc = "check"
    /\ \/ MayConnect(handler[a].bot, handler[a].slot) /\ Proceed(a, "save")
       \/ MustRefuse(handler[a].bot, handler[a].slot) /\ Retire(a)
    /\ UNCHANGED <<sort, rows, registry, spaces, inb, sent, expired, begun, mishaps,
                   conn, contested>>

\* SaveChannel: an upsert on (kind, user, agent, name) that keeps the id.
SaveChannel(a) ==
    LET s == handler[a].slot
    IN /\ handler[a].pc = "save"
       /\ table' = [table EXCEPT ![s] = handler[a].bot]
       /\ rowId' = [rowId EXCEPT ![s] = IF table[s] = NoBot THEN @ + 1 ELSE @]
       /\ Proceed(a, "invalidate")
       /\ UNCHANGED <<sort, registry, spaces, inb, sent, expired, begun, mishaps,
                   conn, contested>>

\* The rows of the slot are listed; without the account, 404.
ListRows(a) ==
    LET s == handler[a].slot
    IN /\ handler[a].pc = "list"
       /\ IF table[s] = handler[a].bot
          THEN handler' = [handler EXCEPT ![a].pc = "delete", ![a].id = rowId[s]]
          ELSE Retire(a)
       /\ UNCHANGED <<sort, rows, registry, spaces, inb, sent, expired, begun,
                      mishaps, conn, contested>>

\* DeleteConfig, by id; a purge does not invalidate the user's space.
DeleteConfig(a) ==
    LET s == handler[a].slot
    IN /\ handler[a].pc = "delete"
       /\ table' = IF table[s] # NoBot /\ rowId[s] = handler[a].id
                 THEN [table EXCEPT ![s] = NoBot] ELSE table
       /\ Proceed(a, IF a = Purger THEN "adapter" ELSE "invalidate")
       /\ UNCHANGED <<sort, rowId, registry, spaces, inb, sent, expired, begun,
                      mishaps, conn, contested>>

\* Mutant: the user's cached space is not dropped.
InvalidateOwner_Skips(a) ==
    /\ handler[a].pc = "invalidate"
    /\ Proceed(a, "adapter")
    /\ UNCHANGED <<sort, rows, registry, spaces, inb, sent, expired, begun, mishaps,
                   conn, contested>>

\* invalidateOwner.
InvalidateOwner(a) ==
    LET u == UserOf[handler[a].slot]
    IN /\ handler[a].pc = "invalidate"
       /\ loaded' = loaded \ {u}
       /\ bind' = [s \in Slots |-> IF UserOf[s] = u THEN NoBot ELSE bind[s]]
       /\ Proceed(a, "adapter")
       /\ UNCHANGED <<sort, rows, registry, inb, sent, expired, begun, mishaps,
                   conn, contested>>

\* hotRegisterChannel of the row at s: a claimed Telegram token registers
\* nothing, and a constructor that fails leaves the token claimed.
HotRegister(b, s, ok) ==
    LET fresh == ok /\ ~(sort = "telegram" /\ b \in claimed)
    IN /\ claimed' = IF sort = "telegram" THEN claimed \cup {b} ELSE claimed
       /\ adapters' = IF fresh THEN adapters \cup {b} ELSE adapters
       /\ pollers' = IF fresh THEN [pollers EXCEPT ![b] = @ + 1] ELSE pollers
       /\ origin' = IF fresh
                    THEN [origin EXCEPT ![b] = [slot |-> s, id |-> rowId[s]]]
                    ELSE origin

\* The end of a connect: LookupChannelByCredential and hotRegisterChannel.
ConnectAdapter(a) ==
    LET b == handler[a].bot
        s == handler[a].slot
    IN /\ handler[a].pc = "adapter" /\ handler[a].kind = "connect"
       /\ \/ /\ RowsOf(b) = {}
             /\ UNCHANGED <<registry, mishaps, conn>>
          \/ /\ \E t \in RowsOf(b) : HotRegister(b, t, TRUE)
             /\ conn' = IF handler[a].raced \/ b \in contested THEN conn
                        ELSE [conn EXCEPT ![b] = s]
             /\ UNCHANGED mishaps
          \/ /\ Mishap
             /\ \E t \in RowsOf(b) : HotRegister(b, t, FALSE)
             /\ UNCHANGED conn
       /\ Retire(a)
       /\ UNCHANGED <<sort, rows, spaces, inb, sent, expired, begun,
                      contested>>

\* Unregister; the goroutine of the adapter goes on.
Unregister(a) ==
    /\ handler[a].pc = "adapter" /\ handler[a].kind # "connect"
    /\ adapters' = adapters \ {handler[a].bot}
    /\ Retire(a)
    /\ UNCHANGED <<sort, rows, pollers, origin, claimed, spaces, inb, sent,
                   expired, begun, mishaps,
                   conn, contested>>

\* GetConfig by the captured id, and whether the account is still in it.
StillHas(b, s) == /\ s # NoSlot /\ table[s] # NoBot
                  /\ rowId[s] = origin[b].id /\ table[s] = b

\* The token of WeChat bot b is dead: its goroutine runs onExpired.
Expire(b) ==
    LET s == origin[b].slot
    IN /\ sort = "wechat" /\ handler[Purger].pc = "idle"
       /\ pollers[b] > 0 /\ (b \in expired => b \in adapters)
       /\ begun < MaxOps /\ begun' = begun + 1
       /\ expired' = expired \cup {b}
       /\ Engage(Purger, Job(IF StillHas(b, s) THEN "delete" ELSE "adapter", "purge", b,
                             IF s \in RowsOf(b) THEN s ELSE NoSlot, origin[b].id))
       /\ UNCHANGED <<sort, rows, registry, spaces, sent, mishaps>>
-----------------------------------------------------------------------------
(* Inbound. *)

\* The platform has m for the bots of the chat: Discord gives it to every
\* open connection, the others keep it until it is polled; WeChat bots are
\* in no groups.
Send(m) ==
    /\ m \notin sent /\ Cardinality(sent) < MaxSent
    /\ sort = "wechat" => ~Info[m].group
    /\ Info[m].to \cap expired = {}
    /\ \E b \in Info[m].to : pollers[b] > 0
    /\ sent' = sent \cup {m}
    /\ copies' = copies \cup
           {c \in [m : {m}, b : Info[m].to, k : 1..MaxOps + 1] :
              c.k <= IF sort = "discord" THEN pollers[c.b] ELSE 1}
    /\ UNCHANGED <<sort, rows, registry, spaces, handler, cur, seen, turns, heard,
                   lapses, expired, begun, mishaps, conn,
                   contested>>

\* A server that heard no acknowledgement sends a copy again.
Redeliver(m, b) ==
    /\ sort # "discord" /\ m \in sent /\ b \in Info[m].to \ expired
    /\ Mishap
    /\ copies' = copies \cup {[m |-> m, b |-> b, k |-> 1]}
    /\ UNCHANGED <<sort, rows, registry, spaces, handler, cur, seen, turns, heard,
                   lapses, sent, expired, begun, conn,
                   contested>>

\* isDuplicate: LoadOrStore of the key; without a MessageID there is none.
IsDuplicate(m) == Info[m].key \in seen

\* processInbound up to the dedupe: the owner is that of some row of the
\* bot; without one the copy is dropped.
Receive(c) ==
    /\ cur = {} /\ c \in copies /\ pollers[c.b] > 0
    /\ copies' = copies \ {c}
    /\ \/ /\ RowsOf(c.b) = {} \/ IsDuplicate(c.m)
          /\ UNCHANGED <<cur, seen>>
       \/ /\ ~IsDuplicate(c.m)
          /\ seen' = seen \cup ({Info[c.m].key} \ {NoKey})
          /\ \E s \in RowsOf(c.b) :
                cur' = {[m |-> c.m, b |-> c.b, user |-> UserOf[s],
                         steady |-> conn[c.b]]}
    /\ UNCHANGED <<sort, rows, registry, spaces, handler, turns, heard, lapses,
                   sent, expired, begun, mishaps,
                   conn, contested>>

\* getOrLoad, as bindingsFromChannelRows fills the bindings.
GetOrLoad(u) ==
    /\ loaded' = loaded \cup {u}
    /\ bind' = IF u \in loaded THEN bind
               ELSE [s \in Slots |-> IF UserOf[s] = u THEN table[s] ELSE bind[s]]

\* DefaultAgent: the only agent of the user, if there is only one.
DefaultAgent(u) == IF Cardinality(Owned[u]) = 1 THEN Owned[u] ELSE {}

Unbound(u)  == \A s \in SlotsOf(u) : bind'[s] = NoBot
Bound(u, b) == {AgentOf[s] : s \in {t \in SlotsOf(u) : bind'[t] = b}}

\* matchAgent.
MatchAgent(u, b) ==
    IF Bound(u, b) # {} THEN Bound(u, b) ELSE DefaultAgent(u)

\* agentsBoundToMessage.
AgentsBound(u, b) == IF Unbound(u) THEN DefaultAgent(u) ELSE Bound(u, b)

\* agentByMention: only the bot that received the copy is looked up.
AgentByMention(m, u, b) ==
    IF b \in Info[m].at /\ b \in adapters THEN Bound(u, b) ELSE {}

\* groupBehaviorFor "default-agent".
LeadOf(u, bound) ==
    IF Lead[u] \in Owned[u] \cup bound THEN {Lead[u]} ELSE bound

\* A turn of g, and those who only hear the message.
Turn(m, g, hs) == /\ turns' = [turns EXCEPT ![m] = Append(@, g)]
                  /\ heard' = [heard EXCEPT ![m] = @ \cup hs]

NoTurn(m, hs) == heard' = [heard EXCEPT ![m] = @ \cup hs] /\ UNCHANGED turns

\* routeDM; with no agent the message is dropped.
RouteDM(c) ==
    LET to == MatchAgent(c.user, c.b)
    IN \/ to = {} /\ NoTurn(c.m, {})
       \/ \E g \in to : Turn(c.m, g, {})

\* routeGroup.
RouteGroup(c) ==
    LET bound == AgentsBound(c.user, c.b)
        named == AgentByMention(c.m, c.user, c.b)
        lead  == LeadOf(c.user, bound)
    IN \/ /\ bound = {} \/ (named = {} /\ (Info[c.m].isBot \/ Lead[c.user] = NoAgent))
          /\ NoTurn(c.m, bound)
       \/ /\ bound # {}
          /\ \E g \in named :
                Turn(c.m, g, IF Info[c.m].isBot THEN bound ELSE bound \ {g})
       \/ /\ bound # {} /\ named = {}
          /\ ~Info[c.m].isBot /\ Lead[c.user] # NoAgent
          /\ \E g \in lead : Turn(c.m, g, bound \ {g})

Route(c) ==
    /\ cur = {c} /\ cur' = {}
    /\ GetOrLoad(c.user)
    /\ IF Info[c.m].group THEN RouteGroup(c) ELSE RouteDM(c)
    /\ UNCHANGED <<sort, rows, registry, handler, copies, seen, lapses, sent,
                   expired, begun, mishaps,
                   conn, contested>>

\* cleanupDedup: an entry older than dedupTTL goes.
Forget(k) ==
    /\ k \in seen /\ Mishap
    /\ seen' = seen \ {k}
    /\ lapses' = [lapses EXCEPT ![k] = @ + 1]
    /\ UNCHANGED <<sort, rows, registry, spaces, handler, copies, cur, turns, heard,
                   sent, expired, begun, conn,
                   contested>>

\* evictIdle, or an admin's write of something else, drops a space.
DropSpace(u) ==
    /\ u \in loaded /\ loaded' = loaded \ {u}
    /\ bind' = [s \in Slots |-> IF UserOf[s] = u THEN NoBot ELSE bind[s]]
    /\ UNCHANGED <<sort, rows, registry, handler, inb, sent, expired, begun,
                   mishaps, conn, contested>>
-----------------------------------------------------------------------------
\* The process ends and starts: what was in memory is lost, Discord gives
\* nothing again, the other platforms what was not taken from them.
Reboot ==
    /\ Mishap
    /\ BootRegistry(table, sort, adapters', pollers', claimed')
    /\ origin' = [b \in Bots |-> IF RowsOf(b) = {} THEN origin[b]
                  ELSE LET s == CHOOSE s \in RowsOf(b) : TRUE
                       IN [slot |-> s, id |-> rowId[s]]]
    /\ loaded' = {} /\ bind' = [s \in Slots |-> NoBot]
    /\ handler' = [a \in Actors |-> Resting]
    /\ cur' = {} /\ seen' = {}
    /\ copies' \in IF sort = "discord" THEN {{}} ELSE SUBSET copies
    /\ lapses' = [k \in Keys |-> lapses[k] + 1]
    /\ UNCHANGED <<sort, rows, turns, heard, sent, expired, begun,
                   conn, contested>>

HandlerStep(a) ==
    \/ \E k \in {"connect", "disconnect"}, b \in Bots, s \in Slots :
          a # Purger /\ Start(a, k, b, s)
    \/ AssertUnique(a) \/ SaveChannel(a) \/ ListRows(a) \/ DeleteConfig(a)
    \/ InvalidateOwner(a) \/ ConnectAdapter(a) \/ Unregister(a)

ChannelsNext ==
    \/ \E a \in Actors : HandlerStep(a)
    \/ \E b \in Bots : Expire(b)
    \/ \E m \in Messages : Send(m)
    \/ \E m \in Messages, b \in Bots : Redeliver(m, b)
    \/ \E c \in copies : Receive(c)
    \/ \E c \in cur : Route(c)
    \/ \E k \in Keys : Forget(k)
    \/ \E u \in Owners : DropSpace(u)
    \/ Reboot

ChannelsSpec == ChannelsInit /\ [][ChannelsNext]_channelsVars
-----------------------------------------------------------------------------
(* Properties. *)

TurnsOf(m) == Len(turns[m])

\* However many connections and retries bring it, a message that isDuplicate
\* can recognise makes one turn for each time its entry was forgotten, and
\* one more: the second poller of a bot that was reconnected goes unnoticed.
OnceRouted ==
    \A m \in Messages : Info[m].key # NoKey =>
        TurnsOf(m) <= 1 + lapses[Info[m].key]

\* Only connects that overlap can bind one bot twice.
BoundOnce == \A b \in Bots \ contested : Cardinality(RowsOf(b)) <= 1

\* The process refuses to poll again a Telegram token that it has polled.
Stuck(b) == sort = "telegram" /\ b \in claimed \ adapters

\* A bot whose last operation was a connect that met no other keeps its row,
\* adapter and poller, and no cached space contradicts the row, whatever
\* other bots, an expired account and restarts do.  Not so for a Telegram
\* bot that this process had unregistered: its token stays claimed.
ConnectedStays ==
    \A b \in Bots \ contested : conn[b] # NoSlot =>
        LET s == conn[b]
        IN /\ table[s] = b
           /\ ~Stuck(b) => b \in adapters /\ pollers[b] > 0
           /\ UserOf[s] \in loaded => bind[s] = b

\* What the dashboard's connect promises: the bot is the agent's, and only
\* that agent's, until somebody disconnects it.
Connected == BoundOnce /\ ConnectedStays

\* A copy received by such a bot is not dropped before the dedupe, and if no
\* operation disturbs the bot before it is routed, it makes a turn of the
\* agent the bot is connected to when it is a direct message or mentions the
\* bot, and that agent hears it or answers it when it is for the group.
RoutedRight ==
    [][/\ \A c \in copies :
            (c \notin copies' /\ mishaps' = mishaps /\ ~IsDuplicate(c.m)
               /\ conn[c.b] # NoSlot /\ c.b \notin contested)
            => \E d \in cur' : d.m = c.m /\ d.user = UserOf[conn[c.b]]
       /\ \A c \in cur :
            (cur' = {} /\ mishaps' = mishaps /\ c.steady # NoSlot
               /\ c.b \notin contested)
            => LET g == AgentOf[c.steady]
                   i == Info[c.m]
                   turn == turns'[c.m] = Append(turns[c.m], g)
               IN IF ~i.group \/ (c.b \in i.at /\ ~Stuck(c.b)) THEN turn
                  ELSE turn \/ g \in heard'[c.m]]_channelsVars

\* A message makes no turn too many, and none in the wrong place.
RoutedOnce == []OnceRouted /\ RoutedRight
=============================================================================
