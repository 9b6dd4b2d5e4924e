------------------------------ MODULE Delivery ------------------------------
(***************************************************************************)
(* What lcm sends out: the webhook deliveries that hubPublisher starts for  *)
(* a lifecycle event (internal/app/adapters.go, internal/webhook) and the   *)
(* digest of expiring certificates that the scheduler asks for              *)
(* (internal/taskexec).  Endpoints and the notification module are          *)
(* external.                                                                *)
(*                                                                          *)
(* Time is counted in units of the HTTP client's 10 second timeout; the     *)
(* backoff of 50 and 100 ms is short against it.                            *)
(***************************************************************************)
EXTENDS Integers, Sequences, FiniteSets, SequencesExt

CONSTANTS
    Endpoints,    \* ids of webhook endpoints
    NameOf,       \* the name an endpoint is created with
    Types,        \* lifecycle event types published
    Pubs,         \* publications, each with a delivery goroutine
    Tries,        \* defaultTries
    Budget,       \* timeouts that fit in hubPublisher's 30 seconds
    Recipients,   \* addresses of a digest payload
    Payloads,     \* recipient lists the scheduler may send
    Fold,         \* strings.ToLower on the addresses
    MaxRecipients,
    MaxRetry,     \* retries of the scheduler
    MaxHooks      \* bound: calls of Create and Delete

VARIABLES
    hooks,   \* webhook_endpoints: event types of each row, {} when there is none
    jobs,    \* each delivery, see Idle
    edits,   \* Create and Delete calls so far
    task     \* the digest, see NoTask

deliveryVars == <<hooks, jobs, edits, task>>

-----------------------------------------------------------------------------
(* Webhooks.                                                                *)

\* hookEvent: the types webhooks can subscribe to
validEvent == {"issued", "renewed", "revoked", "failed"}

\* todo: endpoints still to serve, the first being served; left: what remains of
\* the context; posts, accepted and refused are what happened at each endpoint;
\* the joined error has one part for each endpoint in errs, which it names, and
\* bare parts that are only the context's error
Idle == [st |-> "idle", todo |-> <<>>, all |-> {}, try |-> 0, left |-> Budget,
         posts |-> [e \in Endpoints |-> 0], accepted |-> {}, refused |-> {}, errs |-> {},
         bare |-> 0]

CreateHook(e, types) ==
    /\ edits < MaxHooks /\ hooks[e] = {}
    /\ edits' = edits + 1
    /\ IF \/ types = {} \/ ~(types \subseteq validEvent)
          \/ \E o \in Endpoints : hooks[o] # {} /\ NameOf[o] = NameOf[e]
       THEN UNCHANGED hooks
       ELSE hooks' = [hooks EXCEPT ![e] = types]
    /\ UNCHANGED <<jobs, task>>

DeleteHook(e) ==
    /\ edits < MaxHooks /\ hooks[e] # {}
    /\ edits' = edits + 1
    /\ hooks' = [hooks EXCEPT ![e] = {}]
    /\ UNCHANGED <<jobs, task>>

\* the hub's own event is in StreamHub; the goroutine is started only for the
\* types webhooks know
PublishHook(p, type) ==
    /\ jobs[p].st = "idle"
    /\ jobs' = [jobs EXCEPT ![p].st = IF type \in validEvent THEN type ELSE "done"]
    /\ UNCHANGED <<hooks, edits, task>>

\* Deliver reads the subscribed rows once; the store may fail
ListHooks(p, ok) ==
    LET subscribed == {e \in Endpoints : jobs[p].st \in hooks[e]}
        order == SetToSortSeq(subscribed, LAMBDA a, b : NameOf[a] < NameOf[b])
    IN  /\ jobs[p].st \in validEvent
        /\ jobs' = [jobs EXCEPT ![p] =
              IF ok THEN [@ EXCEPT !.st = "post", !.todo = order, !.all = subscribed]
              ELSE [@ EXCEPT !.st = "unlisted"]]
        /\ UNCHANGED <<hooks, edits, task>>

\* deliverOne is over for the first endpoint
Served(j) == [j EXCEPT !.todo = Tail(@), !.try = 0]

\* with an error that names the endpoint, or with the bare error of wait, which
\* takes the place of the last attempt's
Named(j) == Served([j EXCEPT !.errs = @ \cup {j.todo[1]}])
Bare(j) == Served([j EXCEPT !.bare = @ + 1])

Again_KeepsNoError(j) ==
    CASE j.try + 1 = Tries -> Named(j)
      [] j.try + 1 < Tries /\ j.left = 0 -> Served(j)
      [] OTHER -> [j EXCEPT !.try = @ + 1]

\* the attempt failed: the last one's error is returned, otherwise wait returns
\* when the context has ended or the endpoint is tried again
Again(j) ==
    CASE j.try + 1 = Tries -> Named(j)
      [] j.try + 1 < Tries /\ j.left = 0 -> Bare(j)
      [] OTHER -> [j EXCEPT !.try = @ + 1]

Posted(j) == [j EXCEPT !.posts[j.todo[1]] = @ + 1]

\* the secret cannot be opened
Unopened(p) ==
    /\ jobs[p].st = "post" /\ jobs[p].todo # <<>> /\ jobs[p].try = 0
    /\ jobs' = [jobs EXCEPT ![p] = Named(@)]
    /\ UNCHANGED <<hooks, edits, task>>

\* 2xx; 4xx is final; 5xx, 3xx and transport errors are tried again; an answer
\* may come at once or use up a timeout's share of the context; with that over
\* the attempt fails and no request is sent
Outcomes(j) ==
    IF j.left = 0 THEN {Again(j)}
    ELSE UNION {{Served([q EXCEPT !.accepted = @ \cup {j.todo[1]}]),
                 Named([q EXCEPT !.refused = @ \cup {j.todo[1]}]),
                 Again(q)} : q \in {Posted(j), [Posted(j) EXCEPT !.left = @ - 1]}}

Post(p) ==
    /\ jobs[p].st = "post" /\ jobs[p].todo # <<>>
    /\ \E j \in Outcomes(jobs[p]) : jobs' = [jobs EXCEPT ![p] = j]
    /\ UNCHANGED <<hooks, edits, task>>

Delivered(p) ==
    /\ jobs[p].st = "post" /\ jobs[p].todo = <<>>
    /\ jobs' = [jobs EXCEPT ![p].st = "done"]
    /\ UNCHANGED <<hooks, edits, task>>

-----------------------------------------------------------------------------
(* The digest: one attempt of the task, and the scheduler's retries.        *)

NoTask == [st |-> "idle", payload |-> <<>>, todo |-> <<>>, attempt |-> 0, sent |-> {},
           retry |-> 0, failed |-> 0, count |-> 0, mails |-> [r \in Recipients |-> 0]]

Addresses(rs) == {Fold[rs[i]] : i \in DOMAIN rs}

parse_CaseSensitive(rs) ==
    FoldLeft(LAMBDA acc, r : IF r \in Range(acc) THEN acc ELSE Append(acc, r), <<>>, rs)

\* of addresses that differ only in case the first is kept
parse(rs) ==
    FoldLeft(LAMBDA acc, r : IF Fold[r] \in Addresses(acc) THEN acc ELSE Append(acc, r), <<>>, rs)

validPayload(rs) == Len(rs) \in 1..MaxRecipients /\ Range(rs) \subseteq Recipients

\* the scheduler starts the task
Execute(rs) ==
    /\ task.st = "idle"
    /\ task' = IF validPayload(rs)
               THEN [task EXCEPT !.st = "list", !.payload = rs, !.attempt = 1]
               ELSE [task EXCEPT !.st = "permanent"]
    /\ UNCHANGED <<hooks, jobs, edits>>

\* n certificates expire within the horizon; the listing or the lookup of their
\* issuers may fail
ListExpiring(n, ok) ==
    /\ task.st = "list"
    /\ task' = IF ~ok THEN [task EXCEPT !.st = "retry"]
               ELSE IF n = 0 THEN [task EXCEPT !.st = "ok", !.count = 0]
               ELSE [task EXCEPT !.st = "send", !.count = n, !.todo = parse(task.payload),
                                 !.sent = {}, !.retry = 0, !.failed = 0]
    /\ UNCHANGED <<hooks, jobs, edits>>

Mailed(t) == [t EXCEPT !.mails[Fold[t.todo[1]]] = @ + 1, !.sent = @ \cup {Fold[t.todo[1]]}]

Rest(t) == [t EXCEPT !.todo = Tail(@)]

\* SendKey: sent, to be retried (also when notification cannot be dialled),
\* failed for good, or refused, which ends the task; or the context is over
SendKey ==
    /\ task.st = "send" /\ task.todo # <<>>
    /\ task' \in {Rest(Mailed(task)),
                  Rest([task EXCEPT !.retry = @ + 1]),
                  Rest([task EXCEPT !.failed = @ + 1]),
                  [task EXCEPT !.st = "permanent"],
                  [task EXCEPT !.retry = @ + Len(task.todo), !.todo = <<>>]}
    /\ UNCHANGED <<hooks, jobs, edits>>

Result ==
    /\ task.st = "send" /\ task.todo = <<>>
    /\ task' = [task EXCEPT !.st = CASE task.retry > 0  -> "retry"
                                     [] task.retry = 0 /\ task.failed > 0 -> "permanent"
                                     [] OTHER -> "ok"]
    /\ UNCHANGED <<hooks, jobs, edits>>

\* the scheduler's retry runs the whole task again
Retried ==
    /\ task.st = "retry" /\ task.attempt <= MaxRetry
    /\ task' = [task EXCEPT !.st = "list", !.attempt = @ + 1]
    /\ UNCHANGED <<hooks, jobs, edits>>

-----------------------------------------------------------------------------
DeliveryInit ==
    /\ hooks = [e \in Endpoints |-> {}]
    /\ jobs = [p \in Pubs |-> Idle]
    /\ edits = 0
    /\ task = NoTask

HookNext ==
    \/ \E e \in Endpoints : DeleteHook(e) \/ \E types \in SUBSET Types : CreateHook(e, types)
    \/ \E p \in Pubs : \/ \E type \in Types : PublishHook(p, type)
                       \/ \E ok \in BOOLEAN : ListHooks(p, ok)
                       \/ Unopened(p) \/ Post(p) \/ Delivered(p)

DigestNext ==
    \/ \E rs \in Payloads : Execute(rs)
    \/ \E n \in 0..1, ok \in BOOLEAN : ListExpiring(n, ok)
    \/ SendKey \/ Result \/ Retried

DeliverySpec == DeliveryInit /\ [][HookNext \/ DigestNext]_deliveryVars

-----------------------------------------------------------------------------
\* Deliver's answer is the truth about the endpoints it listed: each one that did
\* not take the event adds one part to the joined error, so that nil means all of
\* them took it; an endpoint the error names did not take it, and a part names
\* none only when the context had ended; an endpoint is left alone once it has
\* answered 2xx or 4xx and none is called more than Tries times - also when
\* endpoints are created or removed meanwhile.
DeliveryTrue ==
    \A p \in Pubs : LET j == jobs[p] IN
        /\ j.st = "done" => Cardinality(j.all \ j.accepted) = Cardinality(j.errs) + j.bare
        /\ j.errs \cap j.accepted = {}
        /\ j.bare > 0 => j.left = 0
        /\ \A e \in Endpoints : j.posts[e] <= Tries /\ (j.posts[e] > 0 => e \in j.all)
        /\ Range(j.todo) \cap (j.accepted \cup j.refused) = {}

\* Deliver "posts payload to every enabled endpoint subscribed to eventType".
EveryEndpointPosted ==
    \A p \in Pubs : jobs[p].st = "done" => \A e \in jobs[p].all : jobs[p].posts[e] > 0

\* The digest (expiring.go, Handle) reports success only when every mailbox of
\* the payload was sent to, and mails a mailbox again only in another attempt.
DigestTrue ==
    /\ task.st = "ok" => task.count = 0 \/ task.sent = Addresses(task.payload)
    /\ \A r \in Recipients : task.mails[Fold[r]] <= task.attempt

=============================================================================
