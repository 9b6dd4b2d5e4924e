------------------------------- MODULE StreamHub -------------------------------
(***************************************************************************)
(* The live event stream of one tenant: the hub of an instance              *)
(* (internal/stream/hub.go), the SSE and gRPC readers of its subscriptions  *)
(* and the Valkey stream that every instance appends to.                    *)
(*                                                                         *)
(* Goroutines are interleaved at their lock releases.  push marks the event *)
(* as delivered under the subscription's lock and sends it after releasing  *)
(* it, Close marks the subscription closed and closes the channel after     *)
(* releasing its locks, and Subscribe replays after it has registered: each *)
(* is two or more actions here.  A send on a closed channel panics: in the  *)
(* tenant's loop this ends the process, in a request handler the server     *)
(* recovers it and only the call fails.                                     *)
(*                                                                         *)
(* Event ids are the numbers 1, 2, ... in the order of the stream; their    *)
(* timestamps are abstracted to cut, the newest id older than the replay    *)
(* window.  Types and payloads are left out.                                *)
(***************************************************************************)
EXTENDS Integers, FiniteSets, FiniteSetsExt, Sequences, SequencesExt

CONSTANTS
    Subs,          \* subscriptions, one per Subscribe call
    Users,
    UserOf,        \* the caller of each
    Resuming,      \* those that may come with a Last-Event-ID
    None,
    PerUser,       \* Config.StreamsPerUser
    PerTenant,     \* Config.StreamsPerTenant
    Buffer,        \* connBuffer
    MaxLen,        \* Config.MaxLen
    ReadCount,     \* the count of XRead
    MaxEvents,     \* bound on publications
    MaxLoad        \* bound on publications times Subscribe calls

ASSUME NoneAssumption == None \notin Subs /\ None \notin Users /\ None \notin Nat
ASSUME LimitAssumption ==
    {PerUser, PerTenant, Buffer, MaxLen, ReadCount} \subseteq Nat \ {0}
ASSUME UserAssumption == UserOf \in [Subs -> Users]
ASSUME EventsAssumption == MaxEvents \in Nat /\ MaxLoad \in Nat

VARIABLES
    tail,    \* id of the newest event ever appended
    first,   \* id of the oldest entry still in the stream
    cut,     \* newest id that is older than the replay window
    to,      \* the users each event is addressed to
    hub,     \* "up", "closing" (in Hub.Close), "closed" or "dead"
    tenant,  \* the tenantSub in Hub.tenants, named by its first subscription
    conns,   \* its connections
    byUser,  \* and their number per user
    sub,     \* the subscriptions
    loop,    \* the loop of each tenantSub
    lost     \* history: events trimmed before the loop had read them

streamVars == <<tail, first, cut, to>>
hubVars == <<hub, tenant, conns, byUser>>
vars == <<streamVars, hubVars, sub, loop, lost>>

Events == 1..MaxEvents
Reset == 0

\* st: where the call is - before Subscribe, about to read the entries to
\* replay, pushing them, being read, over.  ch: the channel is open, marked
\* closed, closed.  out is all that was queued to the channel, rd how much of
\* it was read.  send is the event a replay's push has marked and not sent.
Sub == [st : {"free", "range", "replay", "open", "end"},
        from : Events \cup {None}, since : Nat,
        last : Nat, ch : {"open", "closing", "closed"},
        out : Seq(Events \cup {Reset}), rd : Nat,
        todo : SUBSET Events, send : Events \cup {Reset, None}]

FreeSub == [st |-> "free", from |-> None, since |-> 0,
            last |-> 0, ch |-> "open", out |-> <<>>, rd |-> 0,
            todo |-> {}, send |-> None]

\* A loop has read up to hi and dispatched up to last; subs are those it has
\* yet to push event last to, send the one whose push is between its two
\* steps, stall the one it is closing.
Loop == [st : {"none", "run", "cancelled", "done"}, last : Nat, hi : Nat,
         subs : SUBSET Subs, send : Subs \cup {None}, stall : Subs \cup {None}]

NoLoop == [st |-> "none", last |-> 0, hi |-> 0, subs |-> {}, send |-> None,
           stall |-> None]

\* One type invariant for the module.
TypeOK ==
    /\ tail \in Nat /\ first \in Nat /\ cut \in Nat
    /\ to \in [Events -> SUBSET Users]
    /\ hub \in {"up", "closing", "closed", "dead"}
    /\ tenant \in Subs \cup {None}
    /\ conns \in SUBSET Subs
    /\ byUser \in [Users -> 0..PerUser]
    /\ sub \in [Subs -> Sub]
    /\ loop \in [Subs -> Loop]
    /\ lost \in SUBSET Events

Init ==
    /\ tail = 0 /\ first = 1 /\ cut = 0
    /\ to = [e \in Events |-> {}]
    /\ hub = "up"
    /\ tenant = None
    /\ conns = {}
    /\ byUser = [u \in Users |-> 0]
    /\ sub = [s \in Subs |-> FreeSub]
    /\ loop = [s \in Subs |-> NoLoop]
    /\ lost = {}

Alive == hub # "dead"

\* Ids are compared by their parts, as numbers.
Less(a, b) == a < b

\* The entries of the stream after id f, at most n.
After(f, n) ==
    LET es == {e \in Events : first <= e /\ e <= tail /\ Less(f, e)}
    IN  {e \in es : e < Min(es) + n}

XRange(f) == After(f, MaxLen)
XRead(f) == After(f, ReadCount)

\* The entries before f that a loop has still to read.
Unread(f) ==
    {e \in Events : e < f /\ \E l \in Subs : loop[l].st = "run" /\ loop[l].hi < e}

Opened == {s \in Subs : sub[s].st # "free"}

-------------------------------------------------------------------------------
(* The stream *)

\* XADD with MAXLEN, which the server may apply late ("~").
XAdd(T) ==
    /\ tail' = tail + 1
    /\ to' = [to EXCEPT ![tail + 1] = T]
    /\ first' \in {first, Max({first, tail + 2 - MaxLen})}
    /\ lost' = lost \cup Unread(first')

\* XTRIM MINID.
XTrimMinID(e) ==
    /\ first' = e
    /\ lost' = lost \cup Unread(e)

\* PublishID, by any instance, for the users T (all of them, or a list that is
\* not empty).
Publish(T) ==
    /\ Alive
    /\ tail < MaxEvents
    /\ (tail + 1) * Cardinality(Opened) <= MaxLoad
    /\ T # {}
    /\ XAdd(T)
    /\ UNCHANGED <<cut, hubVars, sub, loop>>

\* The oldest event leaves the replay window.
Age ==
    /\ Alive
    /\ cut < tail
    /\ cut' = cut + 1
    /\ UNCHANGED <<tail, first, to, hubVars, sub, loop, lost>>

-------------------------------------------------------------------------------
(* Subscribe and replay *)

\* XLast, or "0-0" when nothing is left in the stream.
XLast == IF first <= tail THEN tail ELSE 0

\* Altered Admitted: the user's connections are not limited.
Admitted_NoUserLimit(u) == tenant = None \/ Cardinality(conns) < PerTenant

\* Altered Admitted: the tenant's connections are not limited.
Admitted_NoTenantLimit(u) == tenant = None \/ byUser[u] < PerUser

\* The limits; a new tenantSub has no connections yet.
Admitted(u) ==
    tenant = None \/ (byUser[u] < PerUser /\ Cardinality(conns) < PerTenant)

\* Altered SubscribeOpen: the hub's context is not looked at.
SubscribeOpen_Always == Alive

\* The hub's context is not done.
SubscribeOpen == hub = "up"

\* The locked part of Subscribe.  f is the Last-Event-ID.
Subscribe(s, f) ==
    LET u == UserOf[s] IN
    /\ SubscribeOpen
    /\ sub[s].st = "free"
    /\ f # None => s \in Resuming
    /\ tail * (Cardinality(Opened) + 1) <= MaxLoad
    /\ Admitted(u)
    /\ IF tenant = None
       THEN /\ tenant' = s
            /\ loop' = [loop EXCEPT ![s] = [NoLoop EXCEPT !.st = "run",
                                              !.last = XLast, !.hi = XLast]]
       ELSE UNCHANGED <<tenant, loop>>
    /\ conns' = conns \cup {s}
    /\ byUser' = [byUser EXCEPT ![u] = @ + 1]
    /\ sub' = [sub EXCEPT ![s] =
                 [FreeSub EXCEPT !.st = IF f = None THEN "open" ELSE "range",
                                 !.from = f, !.since = tail]]
    /\ UNCHANGED <<streamVars, hub, lost>>

\* replay has pushed its last event: Subscribe returns.
Returned(r) == IF r.todo = {} /\ r.send = None THEN [r EXCEPT !.st = "open"] ELSE r

\* replay up to its XRange.  An id outside the window, or a failed XRange,
\* becomes a reset event.
ReplayRange(s) ==
    LET f == sub[s].from
        es == {e \in XRange(f) : UserOf[s] \in to[e]}
    IN
    /\ Alive
    /\ sub[s].st = "range"
    /\ \/ sub' = [sub EXCEPT ![s] =
                    Returned([@ EXCEPT !.st = "replay",
                                !.send = IF sub[s].ch = "open" THEN Reset ELSE None])]
       \/ /\ f > cut
          /\ sub' = [sub EXCEPT ![s] =
                       Returned([@ EXCEPT !.st = "replay", !.todo = es])]
    /\ UNCHANGED <<streamVars, hubVars, loop, lost>>

\* Altered Fresh: last is compared the wrong way at equality.
Fresh_OrEqual(s, e) == sub[s].ch = "open" /\ ~Less(e, sub[s].last)

\* The first half of push: is the subscription open and the event new to it.
Fresh(s, e) == sub[s].ch = "open" /\ Less(sub[s].last, e)

\* replay's push, first half.
ReplayMark(s) ==
    LET e == Min(sub[s].todo) IN
    /\ Alive
    /\ sub[s].st = "replay" /\ sub[s].send = None /\ sub[s].todo # {}
    /\ sub' = [sub EXCEPT ![s] =
                 Returned([@ EXCEPT !.todo = @ \ {e},
                                    !.last = IF Fresh(s, e) THEN e ELSE @,
                                    !.send = IF Fresh(s, e) THEN e ELSE None])]
    /\ UNCHANGED <<streamVars, hubVars, loop, lost>>

Full(s) == Len(sub[s].out) - sub[s].rd >= Buffer

\* replay's push, second half.  A full buffer drops the event (replay ignores
\* the result of push); a closed channel panics in the request's goroutine.
ReplaySend(s) ==
    /\ Alive
    /\ sub[s].send # None
    /\ sub' = [sub EXCEPT ![s] =
                 CASE sub[s].ch = "closed" ->
                        [@ EXCEPT !.st = "end", !.send = None, !.todo = {}]
                   [] sub[s].ch # "closed" /\ Full(s) ->
                        Returned([@ EXCEPT !.send = None])
                   [] OTHER ->
                        Returned([@ EXCEPT !.send = None,
                                           !.out = Append(@, sub[s].send)])]
    /\ UNCHANGED <<streamVars, hubVars, loop, lost>>

-------------------------------------------------------------------------------
(* Close *)

\* The locked part of Subscription.Close, whoever calls it first; st is where
\* it leaves the call that serves the subscription.  A count that reaches zero
\* is deleted.
CloseSub(s, st) ==
    /\ sub' = [sub EXCEPT ![s].ch = "closing", ![s].st = st]
    /\ conns' = conns \ {s}
    /\ byUser' = [byUser EXCEPT ![UserOf[s]] = IF @ > 1 THEN @ - 1 ELSE 0]
    /\ IF conns = {s}
       THEN /\ loop' = [loop EXCEPT ![tenant].st = "cancelled"]
            /\ tenant' = None
       ELSE UNCHANGED <<loop, tenant>>

\* Its close(s.ch).
CloseChannel(s) ==
    /\ Alive
    /\ sub[s].ch = "closing"
    /\ sub' = [sub EXCEPT ![s].ch = "closed"]
    /\ UNCHANGED <<streamVars, hubVars, loop, lost>>

-------------------------------------------------------------------------------
(* Readers: ServeSSE and AgentServer.Watch *)

Receive(s) ==
    /\ Alive
    /\ sub[s].st = "open"
    /\ IF sub[s].rd < Len(sub[s].out)
       THEN sub' = [sub EXCEPT ![s].rd = @ + 1]
       ELSE /\ sub[s].ch = "closed"
            /\ sub' = [sub EXCEPT ![s].st = "end"]
    /\ UNCHANGED <<streamVars, hubVars, loop, lost>>

\* The client goes away, the connection reaches its age, or a Send fails; the
\* deferred Close does nothing when the subscription is closed already.
Leave(s) ==
    /\ Alive
    /\ sub[s].st = "open"
    /\ IF sub[s].ch = "open"
       THEN CloseSub(s, "end")
       ELSE /\ sub' = [sub EXCEPT ![s].st = "end"]
            /\ UNCHANGED <<loop, tenant, conns, byUser>>
    /\ UNCHANGED <<streamVars, hub, lost>>

-------------------------------------------------------------------------------
(* The loop of a tenantSub *)

Between(l) ==
    /\ Alive
    /\ loop[l].subs = {} /\ loop[l].send = None /\ loop[l].stall = None

\* Altered ReadLoop: the first entry it reads is skipped.
ReadLoop_SkipsFirst(l) ==
    LET es == XRead(loop[l].last) IN
    /\ Between(l)
    /\ loop[l].st = "run" /\ loop[l].hi = loop[l].last
    /\ es # {}
    /\ loop' = [loop EXCEPT ![l].last = Min(es), ![l].hi = Max(es)]
    /\ UNCHANGED <<streamVars, hubVars, sub, lost>>

\* XREAD after the last entry; entries trimmed before are never seen.
ReadLoop(l) ==
    LET es == XRead(loop[l].last) IN
    /\ Between(l)
    /\ loop[l].st = "run" /\ loop[l].hi = loop[l].last
    /\ es # {}
    /\ loop' = [loop EXCEPT ![l].last = Min(es) - 1, ![l].hi = Max(es)]
    /\ UNCHANGED <<streamVars, hubVars, sub, lost>>

\* XTRIM MINID to the replay window, at the top of the loop.
TrimLoop(l) ==
    /\ Between(l)
    /\ loop[l].st = "run" /\ loop[l].hi = loop[l].last
    /\ first <= cut
    /\ XTrimMinID(cut + 1)
    /\ UNCHANGED <<tail, cut, to, hubVars, sub, loop>>

\* dispatch: the next entry of the batch, to a snapshot of the connections.
Dispatch(l) ==
    LET e == loop[l].last + 1 IN
    /\ Between(l)
    /\ loop[l].last < loop[l].hi
    /\ loop' = [loop EXCEPT ![l].last = e,
                            ![l].subs = IF tenant = l
                                        THEN {s \in conns : UserOf[s] \in to[e]}
                                        ELSE {}]
    /\ UNCHANGED <<streamVars, hubVars, sub, lost>>

\* push, first half.
LiveMark(l, s) ==
    LET e == loop[l].last IN
    /\ Alive
    /\ s \in loop[l].subs /\ loop[l].send = None /\ loop[l].stall = None
    /\ sub' = IF Fresh(s, e) THEN [sub EXCEPT ![s].last = e] ELSE sub
    /\ loop' = [loop EXCEPT ![l].subs = @ \ {s},
                            ![l].send = IF Fresh(s, e) THEN s ELSE None]
    /\ UNCHANGED <<streamVars, hubVars, lost>>

\* Altered LiveSend: a stalled reader is not closed.
LiveSend_KeepsStalled(l) ==
    LET s == loop[l].send IN
    /\ Alive
    /\ s # None
    /\ sub[s].ch # "closed"
    /\ sub' = IF Full(s) THEN sub
              ELSE [sub EXCEPT ![s].out = Append(@, loop[l].last)]
    /\ loop' = [loop EXCEPT ![l].send = None]
    /\ UNCHANGED <<streamVars, hubVars, lost>>

\* push, second half; a full buffer marks the reader as stalled.
LiveSend(l) ==
    LET s == loop[l].send IN
    /\ Alive
    /\ s # None
    /\ sub[s].ch # "closed"
    /\ sub' = IF Full(s) THEN sub
              ELSE [sub EXCEPT ![s].out = Append(@, loop[l].last)]
    /\ loop' = [loop EXCEPT ![l].send = None,
                            ![l].stall = IF Full(s) THEN s ELSE None]
    /\ UNCHANGED <<streamVars, hubVars, lost>>

\* push, second half, on a closed channel: the panic ends the process.
LivePanic(l) ==
    /\ Alive
    /\ loop[l].send # None
    /\ sub[loop[l].send].ch = "closed"
    /\ hub' = "dead"
    /\ UNCHANGED <<streamVars, tenant, conns, byUser, sub, loop, lost>>

\* The loop closes a stalled reader, if nobody else has begun to ...
StallClose(l) ==
    LET s == loop[l].stall IN
    /\ Alive
    /\ s # None
    /\ sub[s].ch = "open"
    /\ CloseSub(s, sub[s].st)
    /\ UNCHANGED <<streamVars, hub, lost>>

\* ... and goes on when the channel is closed.
StallDone(l) ==
    /\ Alive
    /\ loop[l].stall # None
    /\ sub[loop[l].stall].ch = "closed"
    /\ loop' = [loop EXCEPT ![l].stall = None]
    /\ UNCHANGED <<streamVars, hubVars, sub, lost>>

\* The loop's context is done: it returns at the top, or from XREAD.
EndLoop(l) ==
    /\ Between(l)
    /\ loop[l].st = "cancelled" /\ loop[l].hi = loop[l].last
    /\ loop' = [loop EXCEPT ![l].st = "done"]
    /\ UNCHANGED <<streamVars, hubVars, sub, lost>>

-------------------------------------------------------------------------------
(* Hub.Close *)

\* cancel, which every loop's context inherits.
HubCancel ==
    /\ hub = "up"
    /\ hub' = "closing"
    /\ loop' = [l \in Subs |-> IF loop[l].st = "run"
                               THEN [loop[l] EXCEPT !.st = "cancelled"]
                               ELSE loop[l]]
    /\ UNCHANGED <<streamVars, tenant, conns, byUser, sub, lost>>

\* Close of a subscription of its snapshot; none is added once the context is
\* done, so the snapshot is what is left of conns.
HubCloseSub(s) ==
    /\ hub = "closing"
    /\ s \in conns
    /\ CloseSub(s, sub[s].st)
    /\ UNCHANGED <<streamVars, hub, lost>>

\* The Close calls and wg.Wait return.
HubClosed ==
    /\ hub = "closing"
    /\ conns = {}
    /\ \A s \in Subs : sub[s].ch # "closing"
    /\ \A l \in Subs : loop[l].st \in {"none", "done"}
    /\ hub' = "closed"
    /\ UNCHANGED <<streamVars, tenant, conns, byUser, sub, loop, lost>>

-------------------------------------------------------------------------------
CallStep(s) ==
    ReplayRange(s) \/ ReplayMark(s) \/ ReplaySend(s)
      \/ CloseChannel(s) \/ Receive(s)

LoopStep(l) ==
    \/ ReadLoop(l) \/ Dispatch(l) \/ (\E s \in Subs : LiveMark(l, s))
    \/ LiveSend(l) \/ LivePanic(l) \/ StallClose(l) \/ StallDone(l) \/ EndLoop(l)

HubStep == (\E s \in Subs : HubCloseSub(s)) \/ HubClosed

Next ==
    \/ \E T \in SUBSET Users : Publish(T)
    \/ Age
    \/ \E s \in Subs, f \in {None} \cup {e \in Events : e <= tail} :
         Subscribe(s, f)
    \/ \E s \in Subs : CallStep(s) \/ Leave(s)
    \/ \E l \in Subs : LoopStep(l) \/ TrimLoop(l)
    \/ HubCancel \/ HubStep

Spec == Init /\ [][Next]_vars

\* Goroutines that can run do; readers read what is queued.  Nobody has to
\* publish, subscribe, leave or stop the hub.
Fairness ==
    /\ \A s \in Subs : WF_vars(CallStep(s)) /\ WF_vars(LoopStep(s))
    /\ WF_vars(HubStep)

FairSpec == Spec /\ Fairness

-------------------------------------------------------------------------------
(* Properties *)

\* Subscribe's limits hold for the connections themselves, because the counts
\* it compares stay equal to what they count, through every order of
\* Subscribe, Leave, stalled readers and Hub.Close; the tenantSub is there
\* exactly while it has a connection.
CountsMatch ==
    /\ \A u \in Users :
         Cardinality({s \in conns : UserOf[s] = u}) \in 0..PerUser
    /\ \A u \in Users : byUser[u] = Cardinality({s \in conns : UserOf[s] = u})
    /\ Cardinality(conns) <= PerTenant
    /\ tenant = None <=> conns = {}

\* "last: highest id delivered (dedupe between replay and live)": no event is
\* queued twice to a subscription, in whatever order its replay and the loop
\* push, and only events addressed to its user are.
QueuedOnce ==
    \A s \in Subs : \A i \in 1..Len(sub[s].out) :
        sub[s].out[i] # Reset =>
            /\ UserOf[s] \in to[sub[s].out[i]]
            /\ \A j \in 1..(i - 1) : sub[s].out[j] # sub[s].out[i]

\* The event is on its way to s: its loop has yet to push or send it, or is
\* closing s because it could not.
Underway(s, e) ==
    \E l \in Subs : loop[l].last = e
        /\ (s \in loop[l].subs \/ loop[l].send = s \/ loop[l].stall = s)

\* "nothing published once this call returns can be missed": an open
\* subscription that asked for no replay has been sent, in the order of the
\* stream, every event for its user that was published since it registered
\* and that the loop has passed, unless the stream lost it first.
LiveComplete ==
    \A s \in conns : sub[s].from = None =>
        /\ \A e \in Events :
              (sub[s].since < e /\ e <= loop[tenant].last /\ UserOf[s] \in to[e]) =>
                  (Contains(sub[s].out, e) \/ Underway(s, e) \/ e \in lost)
        /\ \A i \in 1..Len(sub[s].out) : \A j \in 1..(i - 1) :
              sub[s].out[j] < sub[s].out[i]

\* Hub.Close returns only when every subscription is closed, its channel too,
\* and every loop has ended; nothing is opened afterwards.
ClosedIsOver ==
    hub = "closed" =>
        /\ conns = {}
        /\ \A s \in Subs : sub[s].st \in {"range", "replay", "open"} =>
              sub[s].ch = "closed"
        /\ \A l \in Subs : loop[l].st \in {"none", "done"}

\* A published event reaches every reader that was subscribed without replay
\* and stays: it reads the event unless it is closed, the stream lost the
\* event, or the process died.
EventRead ==
    \A s \in Subs, e \in Events :
        (s \in conns /\ sub[s].from = None /\ sub[s].since < e /\ e <= tail
                     /\ UserOf[s] \in to[e])
            ~> \/ \E i \in 1..sub[s].rd : sub[s].out[i] = e
               \/ s \notin conns \/ ~Alive \/ e \in lost

\* "events published during the gap are replayed" (or the client is told to
\* re-sync): an open subscription whose Subscribe has returned was sent every
\* event for its user after its Last-Event-ID that the loop has passed, unless
\* a reset tells it otherwise.
GapReplayed ==
    \A s \in conns : (sub[s].from # None /\ sub[s].st = "open") =>
        \/ Contains(sub[s].out, Reset)
        \/ \A e \in Events :
              (sub[s].from < e /\ e <= loop[tenant].last /\ UserOf[s] \in to[e]
                               /\ e >= first) =>
                  (Contains(sub[s].out, e) \/ Underway(s, e) \/ e \in lost)

===============================================================================
