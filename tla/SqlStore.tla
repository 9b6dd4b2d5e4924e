----------------------------- MODULE SqlStore ------------------------------
(***************************************************************************)
(* The SQL repositories (internal/store, bound by internal/repo/repodb):   *)
(* what each statement does to the tables and which answers it may give.   *)
(* A statement applies as a whole or is refused: the database checks every *)
(* unique index and foreign key of the migrations on the result.  A read   *)
(* is the set of the answers ORDER BY and LIMIT allow, because an ORDER BY *)
(* that ties leaves the order of the tied rows open.                       *)
(***************************************************************************)
EXTENDS StoreTables

VARIABLES db, op, args, answer, clock, calls, focus

----------------------------------------------------------------------------
(* The constraints of the migrations and what a statement does under them. *)

Distinct(t, Same(_, _)) == \A a, b \in DOMAIN t : Same(t[a], t[b]) => a = b
SameName(x, y) == x.tenant = y.tenant /\ lower(x.name) = lower(y.name)

\* The unique indexes and the foreign keys.
Integrity(d) ==
    /\ Distinct(d.cas, LAMBDA x, y : /\ x.tenant = y.tenant /\ x.domain = y.domain
                                     /\ x.state = "active" /\ y.state = "active")
    /\ Distinct(d.issuers, SameName)
    /\ Distinct(d.issuers, LAMBDA x, y : /\ x.tenant = y.tenant /\ x.domain = y.domain
                                         /\ x.default /\ y.default)
    /\ Distinct(d.certificates, LAMBDA x, y : x.tenant = y.tenant /\ x.serial = y.serial)
    /\ Distinct(d.revocations, LAMBDA x, y : x.tenant = y.tenant /\ x.cert = y.cert)
    /\ \A table \in {"targets", "secrets", "webhooks"} : Distinct(d[table], SameName)
    /\ \A id \in DOMAIN d.issuers : d.issuers[id].ca \in DOMAIN d.cas \cup {Null}
    /\ \A id \in DOMAIN d.requests : d.requests[id].issuer \in DOMAIN d.issuers \cup {Null}
    /\ \A id \in DOMAIN d.certificates : d.certificates[id].issuer \in DOMAIN d.issuers

Write(d, new) == IF Integrity(new) THEN Answer(new, "ok", {}) ELSE Answer(d, "conflict", {})
Insert(d, table, id, row) == Write(d, [d EXCEPT ![table] = Row(@, id, row)])
Update(d, table, tid, id, row) ==
    IF Has(d[table], tid, id) THEN Write(d, [d EXCEPT ![table][id] = row])
    ELSE Answer(d, "not found", {})
Delete(d, table, tid, id) ==
    IF Has(d[table], tid, id) THEN Write(d, [d EXCEPT ![table] = Without(@, {id})])
    ELSE Answer(d, "not found", {})

\* The answers of SELECT ... ORDER BY ... LIMIT k over a set of rows.
Select(rows, Before(_, _), k) ==
    LET n == IF Cardinality(rows) < k THEN Cardinality(rows) ELSE k
    IN  {s \in [1..n -> rows] :
            /\ \A i, j \in 1..n : i < j => s[i] # s[j] /\ ~Before(s[j], s[i])
            /\ \A x \in rows \ {s[i] : i \in 1..n}, i \in 1..n : ~Before(x, s[i])}

All == Cardinality(Ids)
First(rows) == IF rows = {} THEN {<<>>} ELSE {<<id>> : id \in rows}
Found(t, tid, id) == First(Scoped(t, tid) \cap {id})

NewestFirst(t) == [a, b \in DOMAIN t |-> \/ t[a].created > t[b].created
                                         \/ t[a].created = t[b].created /\ a > b]
ByName(t) == [a, b \in DOMAIN t |-> \/ lower(t[a].name) < lower(t[b].name)
                                    \/ lower(t[a].name) = lower(t[b].name) /\ a < b]

\* WHERE (created_at, id) < (cursor); a NULL cursor accepts every row.
Under(t, id, f) == \/ f.ts = 0
                   \/ t[id].created < f.ts
                   \/ t[id].created = f.ts /\ id < f.id

----------------------------------------------------------------------------
(* issuers *)

InsertIssuer(d, id, i) == Insert(d, "issuers", id, i)
GetIssuer(d, tid, id) == Found(d.issuers, tid, id)
CertificateCount(d, id) == Cardinality(Keep(d.certificates, LAMBDA c : c.issuer = id))
ListIssuers(d, tid, after, limit) ==
    Select({id \in Scoped(d.issuers, tid) : lower(d.issuers[id].name) > after},
           LAMBDA a, b : ByName(d.issuers)[a, b], limit)
IssuersByIDs(d, tid, ids) ==
    Select(Scoped(d.issuers, tid) \cap ids, LAMBDA a, b : ByName(d.issuers)[a, b], All)
DefaultIssuer(d, tid, dom) ==
    First({id \in Scoped(d.issuers, tid) : d.issuers[id].domain = dom /\ d.issuers[id].default})
UpdateIssuer(d, id, i) == Update(d, "issuers", i.tenant, id, i)
ClearDefaultIssuer(d, tid, dom, except) ==
    Write(d, [d EXCEPT !.issuers = [id \in DOMAIN @ |->
        IF id \in Scoped(d.issuers, tid) \ {except} /\ @[id].domain = dom
        THEN [@[id] EXCEPT !.default = FALSE] ELSE @[id]]])
\* The requests of a deleted issuer keep no reference to it (ON DELETE SET NULL).
DeleteIssuer(d, tid, id) ==
    Delete([d EXCEPT !.requests = [r \in DOMAIN @ |->
        IF @[r].issuer = id /\ Has(d.issuers, tid, id) /\ CertificateCount(d, id) = 0
        THEN [@[r] EXCEPT !.issuer = Null] ELSE @[r]]], "issuers", tid, id)

(* certificate authorities *)

InsertCA(d, id, c, now) == Insert(d, "cas", id, c @@ [created |-> now])
GetCA(d, tid, id) == Found(d.cas, tid, id)
Newer(t) == [a, b \in DOMAIN t |-> t[a].created > t[b].created]
CAByState(d, tid, dom, state) ==
    Select({id \in Scoped(d.cas, tid) : d.cas[id].domain = dom /\ d.cas[id].state = state},
           LAMBDA a, b : Newer(d.cas)[a, b], 1)
CAsForDomain(d, tid, dom) ==
    Select({id \in Scoped(d.cas, tid) : d.cas[id].domain = dom},
           LAMBDA a, b : Newer(d.cas)[a, b], All)
SetCAState(d, tid, id, state) ==
    Update(d, "cas", tid, id, IF Has(d.cas, tid, id) THEN [d.cas[id] EXCEPT !.state = state] ELSE Null)
DeleteCA(d, tid, id) == Delete(d, "cas", tid, id)

(* certificate requests *)

\* COALESCE($n, column): a NULL argument keeps the column.
Coalesce(new, old) == IF new = Null THEN old ELSE new

InsertRequest(d, id, r, now) == Insert(d, "requests", id, r @@ [created |-> now])
GetRequest(d, tid, id) == Found(d.requests, tid, id)
ListRequests(d, tid, f) ==
    Select({id \in Scoped(d.requests, tid) :
               f.status \in {Null, d.requests[id].status} /\ Under(d.requests, id, f)},
           LAMBDA a, b : NewestFirst(d.requests)[a, b], f.limit)
SetRequestStatus(d, tid, id, status, reason) ==
    Update(d, "requests", tid, id,
           IF Has(d.requests, tid, id)
           THEN [d.requests[id] EXCEPT !.status = status, !.reason = Coalesce(reason, @)] ELSE Null)
CompleteRequest(d, tid, id, status, cert, reason) ==
    Update(d, "requests", tid, id,
           IF Has(d.requests, tid, id)
           THEN [d.requests[id] EXCEPT !.status = status, !.cert = cert, !.reason = reason] ELSE Null)
DeleteRequest(d, tid, id) == Delete(d, "requests", tid, id)

(* certificate jobs *)

InsertJob(d, id, j, now) == Insert(d, "jobs", id, j @@ [created |-> now])
GetJob(d, tid, id) == Found(d.jobs, tid, id)
ListJobs(d, tid, f) ==
    Select({id \in Scoped(d.jobs, tid) :
               f.status \in {Null, d.jobs[id].status} /\ Under(d.jobs, id, f)},
           LAMBDA a, b : NewestFirst(d.jobs)[a, b], f.limit)
UpdateJob(d, id, j) ==
    Update(d, "jobs", j.tenant, id,
           IF Has(d.jobs, j.tenant, id)
           THEN [d.jobs[id] EXCEPT !.status = j.status, !.lease = j.lease,
                                   !.attempts = j.attempts, !.runAfter = j.runAfter] ELSE Null)
DeleteJob(d, tid, id) == Delete(d, "jobs", tid, id)
\* The claims the statement may make: ORDER BY run_after leaves ties open.
ClaimDueJobs(d, now, limit) ==
    LET due == Keep(d.jobs, LAMBDA j : /\ j.status = "queued" /\ j.runAfter <= now
                                       /\ j.lease = Null \/ j.lease < now)
        claim(won) == [d EXCEPT !.jobs = [id \in DOMAIN @ |->
            IF id \in won THEN [@[id] EXCEPT !.status = "processing", !.lease = now + 1,
                                             !.attempts = @ + 1] ELSE @[id]]]
    IN  {Answer(claim(Range(s)), "ok", Range(s)) :
            s \in Select(due, LAMBDA a, b : d.jobs[a].runAfter < d.jobs[b].runAfter, limit)}

(* issued certificates *)

InsertCertificate(d, id, c, now) == Insert(d, "certificates", id, c @@ [created |-> now])
GetCertificate(d, tid, id) == Found(d.certificates, tid, id)
ListCertificates(d, tid, f) ==
    Select({id \in Scoped(d.certificates, tid) :
               /\ f.issuer \in {Null, d.certificates[id].issuer}
               /\ f.status \in {Null, d.certificates[id].status}
               /\ Under(d.certificates, id, f)},
           LAMBDA a, b : NewestFirst(d.certificates)[a, b], f.limit)
CertificatesByIDs(d, tid, ids) ==
    Select(Scoped(d.certificates, tid) \cap ids,
           LAMBDA a, b : NewestFirst(d.certificates)[a, b], All)
UpdateCertificate(d, id, c) ==
    Update(d, "certificates", c.tenant, id,
           IF Has(d.certificates, c.tenant, id)
           THEN [d.certificates[id] EXCEPT !.status = c.status, !.key = c.key,
                                           !.succ = c.succ, !.auto = c.auto] ELSE Null)
SetCertificateStatus(d, tid, id, status, succ) ==
    Update(d, "certificates", tid, id,
           IF Has(d.certificates, tid, id)
           THEN [d.certificates[id] EXCEPT !.status = status, !.succ = Coalesce(succ, @)] ELSE Null)
MarkKeyDelivered(d, tid, id) ==
    Update(d, "certificates", tid, id,
           IF Has(d.certificates, tid, id)
           THEN [d.certificates[id] EXCEPT !.key = "delivered"] ELSE Null)
DeleteCertificate(d, tid, id) == Delete(d, "certificates", tid, id)
LiveBetween(c, now, before) ==
    c.status \in {"active", "expiring"} /\ c.succ = Null /\ c.notAfter > now /\ c.notAfter <= before
DueForRenewal(d, now, before, limit) ==
    Select(Keep(d.certificates, LAMBDA c : LiveBetween(c, now, before) /\ c.auto),
           LAMBDA a, b : d.certificates[a].notAfter < d.certificates[b].notAfter, limit)
ExpiringCertificates(d, tid, now, before, limit) ==
    Select(Keep(d.certificates, LAMBDA c : c.tenant = tid /\ LiveBetween(c, now, before)),
           LAMBDA a, b : \/ d.certificates[a].notAfter < d.certificates[b].notAfter
                         \/ d.certificates[a].notAfter = d.certificates[b].notAfter /\ a < b, limit)

(* revocations and reports of installed certificates *)

InsertRevocation(d, id, r) == Insert(d, "revocations", id, r)
ListRevocations(d, tid, cursor, limit) ==
    Select({id \in Scoped(d.revocations, tid) : cursor = 0 \/ d.revocations[id].at < cursor},
           LAMBDA a, b : d.revocations[a].at > d.revocations[b].at, limit)
UpsertInstalled(d, id, i) ==
    LET old == Keep(d.installed, LAMBDA x : /\ x.tenant = i.tenant /\ x.cert = i.cert
                                            /\ x.client = i.client)
    IN  IF old = {} THEN Insert(d, "installed", id, i)
        ELSE Write(d, [d EXCEPT !.installed = [x \in DOMAIN @ |->
                 IF x \in old THEN [@[x] EXCEPT !.reported = i.reported] ELSE @[x]]])
ListInstalled(d, tid, client, cursor, limit) ==
    Select({id \in Scoped(d.installed, tid) :
               /\ client \in {Null, d.installed[id].client}
               /\ cursor = 0 \/ d.installed[id].reported < cursor},
           LAMBDA a, b : d.installed[a].reported > d.installed[b].reported, limit)

(* deployment targets, secrets and webhook endpoints: tables keyed by name *)

Named(t, rows) == Select(rows, LAMBDA a, b : ByName(t)[a, b], All)
InsertTarget(d, id, t) == Insert(d, "targets", id, t)
GetTarget(d, tid, id) == Found(d.targets, tid, id)
ListTargets(d, tid) == Named(d.targets, Scoped(d.targets, tid))
DeleteTarget(d, tid, id) == Delete(d, "targets", tid, id)

InsertSecret(d, id, s) == Insert(d, "secrets", id, s)
GetSecret(d, tid, id) == Found(d.secrets, tid, id)
SecretByName(d, tid, name) ==
    First({id \in Scoped(d.secrets, tid) : lower(d.secrets[id].name) = lower(name)})
ListSecrets(d, tid) == Named(d.secrets, Scoped(d.secrets, tid))
UpdateSecret(d, id, s) == Update(d, "secrets", s.tenant, id, s)
DeleteSecret(d, tid, id) == Delete(d, "secrets", tid, id)

InsertWebhook(d, id, w) == Insert(d, "webhooks", id, w)
GetWebhook(d, tid, id) == Found(d.webhooks, tid, id)
ListWebhooks(d, tid) == Named(d.webhooks, Scoped(d.webhooks, tid))
WebhooksForEvent(d, tid, event) ==
    Named(d.webhooks, {id \in Scoped(d.webhooks, tid) :
                          d.webhooks[id].enabled /\ event \in d.webhooks[id].events})
DeleteWebhook(d, tid, id) == Delete(d, "webhooks", tid, id)

(* grants *)

Earlier(d) == [a, b \in DOMAIN d.grants |-> d.grants[a].at < d.grants[b].at]
UpsertGrant(d, id, g, now) ==
    LET old == Keep(d.grants, LAMBDA x : /\ x.tenant = g.tenant /\ x.resource = g.resource
                                         /\ x.kind = g.kind /\ x.subject = g.subject)
        at == IF old = {} THEN id ELSE CHOOSE x \in old : TRUE
    IN  Answer([d EXCEPT !.grants = Row(@, at, g @@ [at |-> now])], "ok", {at})
GetGrant(d, tid, id) == Found(d.grants, tid, id)
DeleteGrant(d, tid, id) == Delete(d, "grants", tid, id)
GrantsOnResource(d, tid, resource) ==
    Select({id \in Scoped(d.grants, tid) : d.grants[id].resource = resource},
           LAMBDA a, b : Earlier(d)[a, b], All)
GrantsForSubjects(d, tid, uid, roles, now) ==
    Select({id \in Scoped(d.grants, tid) :
               /\ \/ d.grants[id].kind = "user" /\ d.grants[id].subject = uid
                  \/ d.grants[id].kind = "role" /\ d.grants[id].subject \in roles
                  \/ d.grants[id].kind = "tenant"
               /\ d.grants[id].expires = Null \/ d.grants[id].expires > now},
           LAMBDA a, b : Earlier(d)[a, b], All)
DeleteGrantsOfResource(d, tid, resource) ==
    Write(d, [d EXCEPT !.grants =
        Without(@, {id \in Scoped(@, tid) : @[id].resource = resource})])

(* the certificate log, the audit trail and the statistics *)

InsertCertLog(d, rows) == Write(d, [d EXCEPT !.certlog = @ \o rows])
InsertAuditRows(d, rows) == Write(d, [d EXCEPT !.audit = @ \o rows])
\* The name a live subject resolves to; an id of another tenant, or of a row
\* that is gone, resolves to the empty name.
SubjectName(d, tid, subject) ==
    IF subject.kind \in DOMAIN d /\ Has(d[subject.kind], tid, subject.id)
    THEN IF subject.kind = "certificates" THEN "spiffe id" ELSE d[subject.kind][subject.id].name
    ELSE Null
\* The audit ids are the positions in the trail (a bigserial).
QueryAudit(d, tid, f) ==
    Select({n \in DOMAIN d.audit :
               /\ d.audit[n].tenant = tid
               /\ f.from = 0 \/ d.audit[n].ts >= f.from
               /\ f.to = 0 \/ d.audit[n].ts <= f.to
               /\ f.cursor = 0 \/ d.audit[n].ts < f.cursor},
           LAMBDA a, b : \/ d.audit[a].ts > d.audit[b].ts
                         \/ d.audit[a].ts = d.audit[b].ts /\ a > b, f.limit)
TenantStats(d, tid, now, window) ==
    [issuers |-> Cardinality(Scoped(d.issuers, tid)),
     clients |-> Cardinality({d.installed[id].client : id \in Scoped(d.installed, tid)}),
     expiring |-> Cardinality({id \in Scoped(d.certificates, tid) :
                     /\ d.certificates[id].status \in {"active", "expiring"}
                     /\ d.certificates[id].notAfter > now
                     /\ d.certificates[id].notAfter <= now + window}),
     errors |-> Cardinality({n \in DOMAIN d.certlog :
                   /\ d.certlog[n].tenant = tid /\ d.certlog[n].event = "failed"
                   /\ d.certlog[n].ts >= now - window}),
     operations |-> Cardinality({n \in DOMAIN d.audit :
                       d.audit[n].tenant = tid /\ d.audit[n].ts >= now - window}),
     certificates |-> [s \in CertStatuses |-> Cardinality({id \in Scoped(d.certificates, tid) :
                          d.certificates[id].status = s})],
     jobs |-> [s \in JobStatuses |-> Cardinality({id \in Scoped(d.jobs, tid) :
                  d.jobs[id].status = s})]]

----------------------------------------------------------------------------
(* list pages: count, clamp, then select under the same WHERE *)

\* The column a sort field stands for.
Column(t, field) ==
    [id \in DOMAIN t |-> CASE field = "name" -> lower(t[id].name)
                           [] field = "status" -> Alphabetical(t[id].status)
                           [] OTHER -> t[id][field]]
runPage(t, rows, list, req) ==
    LET total == Cardinality(rows)
        r == Clamp(ListRequest(req, list), total)
        col == Column(t, r.sort)
    IN  {[rows |-> SubSeq(s, Offset(r) + 1, Len(s)), total |-> total, page |-> r.page] :
            s \in Select(rows, LAMBDA a, b : SortsBefore(r, col[a], a, col[b], b),
                         Offset(r) + r.size)}
visibleCond(v, id) == v.all \/ id \in v.ids
uuidCond(col, v) == v = Null \/ (v \in Ids /\ col = v)
requestIssuerReadable(s, r) ==
    \/ IF s.allPinned THEN r.issuer # Null ELSE r.issuer \in s.issuers
    \/ r.issuer = Null /\ r.domain \in s.domains

PageCertificates(d, tid, f, req) ==
    LET t == d.certificates
        issuerName(id) == IF Has(d.issuers, tid, t[id].issuer)
                          THEN lower(d.issuers[t[id].issuer].name) ELSE Null
        joined == IF f.visible.all
                  THEN [id \in DOMAIN t |-> [t[id] EXCEPT !.issuer = issuerName(id)]] ELSE t
    IN  runPage(joined, {id \in Scoped(t, tid) : /\ uuidCond(t[id].issuer, f.issuer)
                                                 /\ f.status \in {Null, t[id].status}
                                                 /\ visibleCond(f.visible, id)},
                CertificateList, req)
PageIssuers(d, tid, v, req) ==
    runPage(d.issuers, {id \in Scoped(d.issuers, tid) : visibleCond(v, id)}, IssuerList, req)
PageRequests(d, tid, status, s, req) ==
    LET t == d.requests
    IN  runPage(t, {id \in Scoped(t, tid) : /\ status \in {Null, t[id].status}
                                            /\ \/ s.actor # Null /\ t[id].by = s.actor
                                               \/ requestIssuerReadable(s, t[id])},
                RequestList, req)
\* A job is read through the issuer of its request, pinned or by default.
PageJobs(d, tid, status, s, req) ==
    LET t == d.jobs
        scope == [s EXCEPT !.allPinned = FALSE]
    IN  runPage(t, {id \in Scoped(t, tid) : /\ status \in {Null, t[id].status}
                                            /\ \/ s.allJobs
                                               \/ /\ Has(d.requests, tid, t[id].request)
                                                  /\ requestIssuerReadable(scope, d.requests[t[id].request])},
                JobList, req)
PageSecrets(d, tid, req) ==
    runPage(d.secrets, Scoped(d.secrets, tid), NamedList, req)
PageWebhooks(d, tid, req) ==
    runPage(d.webhooks, Scoped(d.webhooks, tid), NamedList, req)
PageAudit(d, tid, f, req) ==
    runPage(d.audit, {n \in DOMAIN d.audit : /\ d.audit[n].tenant = tid
                                             /\ d.audit[n].ts >= f.from /\ d.audit[n].ts <= f.to},
            AuditList, req)

----------------------------------------------------------------------------
INSTANCE StoreCalls
============================================================================
