------------------------------- MODULE Plugin -------------------------------
(***************************************************************************)
(* The process of one plugin (plugin/process.go) between the goroutines of *)
(* the gateway that call it: StartAll's initialize, the hooks of turns and *)
(* the dispatcher of outbound messages; readLoop; Stop; and the child at   *)
(* the other end of two pipes, which is external.                          *)
(*                                                                         *)
(* p.mu is held across a write to the child's stdin and across Stop's last *)
(* loop; its other uses are single steps here, which wait while it is held.*)
(* A message of the history that a hook sends is longer than the buffer of *)
(* a pipe, so a pipe holds few messages.                                   *)
(***************************************************************************)
EXTENDS Integers, Sequences, FiniteSets

CONSTANTS
    Hooks,      \* goroutines of turns: calls with a deadline, and notifications
    PipeCap,    \* messages in a pipe's buffer
    BusSize,    \* capacity of bus.Inbound
    MaxCalls,   \* bound on the calls of hooks and of the dispatcher
    MaxInbound, \* bound on the messages the child sends by itself
    NoCaller, NoMsg

ASSUME PluginAssumption ==
    /\ Hooks \cap {"boot", "out", "stop"} = {} /\ NoCaller \notin Hooks \cup {"boot", "out", "stop"}
    /\ {PipeCap, MaxCalls} \subseteq Nat \ {0} /\ {BusSize, MaxInbound} \subseteq Nat
    /\ NoMsg \notin [id : Nat, of : Nat]

Callers == Hooks \cup {"boot", "out", "stop"}
Patient == {"boot", "out"}   \* no deadline; that of boot is the gateway's context

VARIABLES
    up,                                     \* Process.running
    mu, nextID, pending, box,               \* Process; box: responses in the calls' channels
    toChild, toHost, alive,                 \* the pipes and the child
    asked, writing, attentive, inbound,     \*   its state; attentive: it reads while it writes
    where, request, noting, got,            \* the callers
    reader, msg,                            \* readLoop
    stop, hand, drained,                    \* Stop, the call it cancels; it has cancelled all
    ctx, bus, made

proc       == <<up, mu, nextID, pending, box>>
child      == <<toChild, toHost, alive, asked, writing, attentive, inbound>>
locals     == <<where, request, noting, got>>
loop       == <<reader, msg>>
ending     == <<stop, hand, drained, ctx>>
pluginVars == <<proc, child, locals, loop, ending, bus, made>>

PluginInit ==
    /\ up = TRUE /\ mu = NoCaller /\ nextID = 1 /\ pending = {} /\ box = {}
    /\ toChild = <<>> /\ toHost = <<>> /\ alive = TRUE
    /\ asked = {} /\ writing = {} /\ attentive \in BOOLEAN /\ inbound = 0
    /\ \/ where = [c \in Callers |-> IF c = "boot" THEN "register" ELSE "idle"] /\ made = 1
       \/ where = [c \in Callers |-> "idle"] /\ made = 0   \* initialize was answered
    /\ request = [c \in Callers |-> NoMsg]
    /\ noting = [c \in Callers |-> FALSE]
    /\ got = [c \in Callers |-> 0]
    /\ reader = "scan" /\ msg = NoMsg
    /\ stop = "idle" /\ hand = 0 /\ drained = FALSE
    /\ ctx = "live" /\ bus = 0
-----------------------------------------------------------------------------
(* Call and Notify. *)

Free          == mu = NoCaller
AtLock(c, p)  == where[c] = p /\ Free
Advance(c, p) == where' = [where EXCEPT ![c] = p]
Elsewhere     == UNCHANGED <<loop, ending, bus, made>>

\* The channel has room for one response; nobody reads that of a call that has gone.
Full(id) == \E r \in box : r.id = id

\* A hook of a turn calls or notifies; the dispatcher has a message for the
\* plugin's channel, which the gateway registers after initialize.
Begin(c) ==
    /\ where[c] = "idle" /\ made < MaxCalls
    /\ c \in Hooks \/ (c = "out" /\ where["boot"] = "idle" /\ stop = "idle" /\ ctx = "live")
    /\ made' = made + 1
    /\ \/ Advance(c, "register") /\ noting' = [noting EXCEPT ![c] = FALSE]
       \/ c \in Hooks /\ Advance(c, "write") /\ noting' = [noting EXCEPT ![c] = TRUE]
    /\ UNCHANGED <<proc, child, request, got, loop, ending, bus>>

\* Mutant: the least id that no call in progress has.
FreshID_Least == CHOOSE i \in 1..(Cardinality(pending) + 1) : i \notin pending

FreshID == nextID + 1

Register(c) ==
    /\ AtLock(c, "register")
    /\ nextID' = nextID + 1
    /\ IF up
         THEN /\ pending' = pending \cup {FreshID}
              /\ request' = [request EXCEPT ![c] = [id |-> FreshID, of |-> nextID + 1]]
              /\ Advance(c, "write")
         ELSE Advance(c, "failed") /\ UNCHANGED <<pending, request>>
    /\ UNCHANGED <<up, mu, box, child, noting, got>> /\ Elsewhere

\* A full pipe makes the writer wait with the lock in its hands.
HasRoom     == ~alive \/ Len(toChild) < PipeCap
MayWrite(c) == AtLock(c, "write") /\ (noting[c] => up)

WriteBlocks(c) ==
    /\ MayWrite(c) /\ ~HasRoom
    /\ Advance(c, "blocked") /\ mu' = c
    /\ UNCHANGED <<up, nextID, pending, box, child, request, noting, got>> /\ Elsewhere

Write(c) ==
    /\ (MayWrite(c) \/ where[c] = "blocked") /\ HasRoom
    /\ mu' = NoCaller
    /\ toChild' = IF alive THEN Append(toChild, IF noting[c] THEN NoMsg ELSE request[c])
                  ELSE toChild
    /\ Advance(c, IF noting[c] THEN "idle" ELSE IF alive THEN "wait" ELSE "drop")
    /\ UNCHANGED <<up, nextID, pending, box, toHost, alive, asked, writing, attentive,
                   inbound, request, noting, got>>
    /\ Elsewhere

NotifyRefused(c) ==
    /\ AtLock(c, "write") /\ noting[c] /\ ~up
    /\ Advance(c, "idle")
    /\ UNCHANGED <<proc, child, request, noting, got>> /\ Elsewhere

\* The two cases of the select.
Receive(c) ==
    /\ where[c] = "wait"
    /\ \E r \in box :
         /\ r.id = request[c].id
         /\ box' = box \ {r}
         /\ got' = [got EXCEPT ![c] = r.of]
    /\ Advance(c, "drop")
    /\ UNCHANGED <<up, mu, nextID, pending, child, request, noting>> /\ Elsewhere

\* Mutant: a hook is called with the context of its turn.
Deadline_OnlyStop(c) == c = "stop" \/ (c = "boot" /\ ctx = "done")

Deadline(c) == c \notin Patient \/ (c = "boot" /\ ctx = "done")

Expire(c) ==
    /\ where[c] = "wait" /\ Deadline(c)
    /\ Advance(c, "drop")
    /\ UNCHANGED <<proc, child, request, noting, got>> /\ Elsewhere

\* An answer to initialize may be an error.
Forget(c) ==
    /\ AtLock(c, "drop")
    /\ pending' = pending \ {request[c].id}
    /\ \/ got[c] > 0 /\ Advance(c, "idle")
       \/ (got[c] <= 0 \/ c = "boot") /\ Advance(c, "failed")
    /\ request' = [request EXCEPT ![c] = NoMsg] /\ got' = [got EXCEPT ![c] = 0]
    /\ box' = {r \in box : r.id # request[c].id \/ r.of < 0}   \* no second answer comes
    /\ UNCHANGED <<up, mu, nextID, child, noting>> /\ Elsewhere

\* A turn goes on without its hook, the dispatcher logs, Stop goes on; StartAll
\* stops a plugin whose initialize failed.
Fail(c) ==
    /\ where[c] = "failed" /\ Advance(c, "idle")
    /\ IF c = "boot" THEN stop' = "check" ELSE UNCHANGED stop
    /\ UNCHANGED <<proc, child, request, noting, got, loop, hand, drained, ctx, bus, made>>
-----------------------------------------------------------------------------
(* readLoop. *)

Scan ==
    /\ reader = "scan" /\ toHost # <<>>
    /\ msg' = Head(toHost) /\ toHost' = Tail(toHost)
    /\ reader' = "look"
    /\ UNCHANGED <<proc, toChild, alive, asked, writing, attentive, inbound, locals, ending,
                   bus, made>>

\* onNotify is read under the lock too.
LookUp ==
    /\ reader = "look" /\ Free
    /\ reader' = IF msg = NoMsg THEN "inbound"
                 ELSE IF msg.id \in pending THEN "deliver" ELSE "scan"
    /\ UNCHANGED <<proc, child, locals, msg, ending, bus, made>>

Deliver ==
    /\ reader = "deliver" /\ ~Full(msg.id)
    /\ box' = IF msg.id \in pending THEN box \cup {msg} ELSE box
    /\ reader' = "scan" /\ msg' = NoMsg
    /\ UNCHANGED <<up, mu, nextID, pending, child, locals, ending, bus, made>>

\* handleNotification, message.inbound: it waits for room on the bus.
HandleNotification ==
    /\ reader = "inbound" /\ bus < BusSize
    /\ bus' = bus + 1 /\ reader' = "scan"
    /\ UNCHANGED <<proc, child, locals, msg, ending, made>>

ProcessInbound ==
    /\ bus > 0 /\ bus' = bus - 1
    /\ UNCHANGED <<proc, child, locals, loop, ending, made>>

\* The end of the pipe, or a line that is too long.
ScanEnds ==
    /\ reader = "scan" /\ (toHost # <<>> \/ ~alive)
    /\ reader' = "closing"
    /\ UNCHANGED <<proc, child, locals, msg, ending, bus, made>>

\* The deferred function; calls that wait are not told.
ReadLoopEnds ==
    /\ reader = "closing" /\ Free
    /\ up' = FALSE /\ reader' = "ended"
    /\ UNCHANGED <<mu, nextID, pending, box, child, locals, msg, ending, bus, made>>
-----------------------------------------------------------------------------
(* Stop. *)

Dies == alive' = FALSE /\ toChild' = <<>> /\ asked' = {} /\ writing' = {}

\* The signal: the gateway's context ends, which kills the child.
Shutdown ==
    /\ ctx = "live" /\ ctx' = "done" /\ Dies
    /\ UNCHANGED <<proc, toHost, attentive, inbound, locals, loop, stop, hand, drained, bus, made>>

\* Run has waited for StartAll and for the dispatcher.
Due == ctx = "done" /\ stop = "idle" /\ where["boot"] = "idle" /\ where["out"] = "idle"

StopAll ==
    /\ Due /\ stop' = "check"
    /\ UNCHANGED <<proc, child, locals, loop, hand, drained, ctx, bus, made>>

StopChecks ==
    /\ stop = "check" /\ Free
    /\ IF up THEN stop' = "call" /\ Advance("stop", "register")
                  ELSE stop' = "done" /\ UNCHANGED where
    /\ UNCHANGED <<proc, child, request, noting, got, loop, hand, drained, ctx, bus, made>>

\* cancelFn kills the child, stdin is closed.
StopCloses ==
    /\ stop = "call" /\ AtLock("stop", "idle")
    /\ up' = FALSE /\ Dies /\ stop' = "reap"
    /\ UNCHANGED <<mu, nextID, pending, box, toHost, attentive, inbound,
                   locals, loop, hand, drained, ctx, bus, made>>

\* Wait closes the reading end: what readLoop has not read is gone.
StopWaits ==
    /\ stop = "reap" /\ stop' = "drain"
    /\ toHost' = <<>>
    /\ UNCHANGED <<proc, toChild, alive, asked, writing, attentive, inbound, locals, loop,
                   hand, drained, ctx, bus, made>>

\* The loop over the pending calls, with the lock held from first to last.
StopTakes ==
    /\ stop = "drain" /\ mu \in {NoCaller, "stop"}
    /\ \/ /\ pending = {}
          /\ mu' = NoCaller /\ stop' = "done" /\ drained' = TRUE /\ UNCHANGED hand
       \/ /\ \E id \in pending : hand' = id
          /\ mu' = "stop" /\ stop' = "send" /\ UNCHANGED drained
    /\ UNCHANGED <<up, nextID, pending, box, child, locals, loop, ctx, bus, made>>

StopSends ==
    /\ stop = "send" /\ ~Full(hand)
    /\ box' = box \cup {[id |-> hand, of |-> -1]}
    /\ pending' = pending \ {hand} /\ stop' = "drain"
    /\ UNCHANGED <<up, mu, nextID, child, locals, loop, hand, drained, ctx, bus, made>>
-----------------------------------------------------------------------------
(* The child: it answers a call once, or never, and speaks by itself. *)

Parent == UNCHANGED <<proc, locals, loop, ending, bus, made>>

MayRead == alive /\ toChild # <<>> /\ (attentive \/ writing = {})
MayPut  == alive /\ writing # {} /\ Len(toHost) < PipeCap

ChildReads ==
    /\ MayRead
    /\ toChild' = Tail(toChild)
    /\ asked' = asked \cup ({Head(toChild)} \ {NoMsg})
    /\ UNCHANGED <<toHost, alive, writing, attentive, inbound>> /\ Parent

ChildAnswers ==
    /\ alive /\ writing = {}
    /\ \E r \in asked : writing' = {r} /\ asked' = asked \ {r}
    /\ UNCHANGED <<toChild, toHost, alive, attentive, inbound>> /\ Parent

ChildSpeaks ==
    /\ alive /\ writing = {} /\ inbound < MaxInbound
    /\ writing' = {NoMsg} /\ inbound' = inbound + 1
    /\ UNCHANGED <<toChild, toHost, alive, asked, attentive>> /\ Parent

ChildWrites ==
    /\ MayPut
    /\ toHost' = Append(toHost, CHOOSE r \in writing : TRUE) /\ writing' = {}
    /\ UNCHANGED <<toChild, alive, asked, attentive, inbound>> /\ Parent

ChildExits ==
    /\ alive /\ Dies
    /\ UNCHANGED <<toHost, attentive, inbound>> /\ Parent
-----------------------------------------------------------------------------
CallStep(c) ==
    \/ Register(c) \/ WriteBlocks(c) \/ Write(c) \/ NotifyRefused(c)
    \/ Receive(c) \/ Expire(c) \/ Forget(c) \/ Fail(c)

ReadLoop == Scan \/ LookUp \/ Deliver \/ HandleNotification \/ ScanEnds \/ ReadLoopEnds
StopStep == StopAll \/ StopChecks \/ StopCloses \/ StopWaits \/ StopTakes \/ StopSends

PluginNext ==
    \/ \E c \in Callers : Begin(c) \/ CallStep(c)
    \/ ReadLoop \/ ProcessInbound \/ Shutdown \/ StopStep
    \/ ChildReads \/ ChildAnswers \/ ChildSpeaks \/ ChildWrites \/ ChildExits

PluginSpec == PluginInit /\ [][PluginNext]_pluginVars

\* What nobody has to wait for: the goroutines go on, timers run out, and the
\* child reads, but not while it writes unless it is attentive; whether it
\* answers, or ends, is its own affair.  None of these steps can recur without
\* one of the others.  These are their guards.
CallerGoes(c) ==
    \/ \E p \in {"register", "write", "drop"} : AtLock(c, p)
    \/ where[c] = "failed" \/ (where[c] = "blocked" /\ HasRoom)
    \/ where[c] = "wait" /\ (Full(request[c].id) \/ Deadline(c))

LoopGoes ==
    \/ reader = "scan" /\ (toHost # <<>> \/ ~alive)
    \/ reader \in {"look", "closing"} /\ Free
    \/ reader = "deliver" /\ ~Full(msg.id)
    \/ reader = "inbound" /\ bus < BusSize

StopGoes ==
    \/ Due \/ stop = "reap"
    \/ stop = "check" /\ Free
    \/ stop = "call" /\ AtLock("stop", "idle")
    \/ stop = "drain" /\ mu \in {NoCaller, "stop"}
    \/ stop = "send" /\ ~Full(hand)

ChildGoes == MayRead \/ MayPut

GoesOn ==
    LoopGoes \/ StopGoes \/ ChildGoes \/ bus > 0 \/ \E c \in Callers : CallerGoes(c)
-----------------------------------------------------------------------------
(* What should hold. *)

Requests == [id : Nat \ {0}, of : Nat \ {0}]

\* The type of the state.
PluginTypeOK ==
    /\ up \in BOOLEAN /\ alive \in BOOLEAN /\ attentive \in BOOLEAN /\ drained \in BOOLEAN
    /\ mu \in Callers \cup {NoCaller}
    /\ pending \subseteq Nat /\ box \subseteq [id : Nat, of : {-1} \cup Nat]
    /\ toChild \in Seq(Requests \cup {NoMsg}) /\ toHost \in Seq(Requests \cup {NoMsg})
    /\ asked \subseteq Requests /\ writing \subseteq Requests \cup {NoMsg}
    /\ request \in [Callers -> Requests \cup {NoMsg}] /\ noting \in [Callers -> BOOLEAN]
    /\ bus \in 0..BusSize /\ made \in 0..MaxCalls

\* A caller gets the answer to its own call, also when that of an earlier call
\* that ran out of time comes late.
OwnAnswer == \A c \in Callers : got[c] > 0 => got[c] = request[c].of

\* Stop leaves no call behind that waits for a plugin that is gone (process.go:232),
\* whichever calls were made while it waited for the child.
NoneLeft == drained => \A c \in Callers : where[c] = "wait" => Full(request[c].id)

\* Both pipes are full: the child writes, a caller does with the lock in its hands,
\* and readLoop needs the lock before it reads on (or has ended).
Wedged ==
    /\ ~attentive /\ writing # {} /\ Len(toHost) = PipeCap
    /\ \E c \in Callers : where[c] = "blocked"

\* Stop waits, with the lock, to tell a call that it was cancelled which has its
\* answer, no longer looks at it and waits for the lock.
Jammed == stop = "send" /\ \E c \in Callers : where[c] = "drop" /\ request[c].id = hand

\* A call without a deadline waits for a child that is silent or dead; only Stop
\* ends it, and Stop does nothing once readLoop has ended.
Stays(c) == c \in Patient /\ where[c] = "wait" /\ (c = "boot" => ctx = "live")

\* Each call and notification ends, and so does the shutdown, but for these cases:
\* where nothing goes on by itself, nobody is left in the middle.
CallsEnd ==
    ~GoesOn =>
        /\ \A c \in Callers : where[c] = "idle" \/ Stays(c) \/ Wedged \/ Jammed
        /\ ctx = "live" \/ stop = "done" \/ Stays("out") \/ Jammed

\* A call of a plugin gets its own answer and is not left waiting, but in the named
\* ways; Stop leaves none behind.
PluginServes == PluginTypeOK /\ OwnAnswer /\ NoneLeft /\ CallsEnd
=============================================================================
