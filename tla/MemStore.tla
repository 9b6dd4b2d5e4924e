----------------------------- MODULE MemStore ------------------------------
(***************************************************************************)
(* The in-memory store of the unit tests (internal/memstore): maps of      *)
(* rows, where each method walks a map, filters it by hand, sorts what it  *)
(* found and cuts the page.  Its package comment says that it applies the  *)
(* same tenant scoping, uniqueness and paging rules as the SQL             *)
(* repositories; Sql is the model of those, and RefinesSql, ReadsAgree     *)
(* state the comment.  Sealed payloads and deep copies are left out.       *)
(***************************************************************************)
EXTENDS StoreTables, SequencesExt

VARIABLES db, op, args, answer, clock, calls, focus

----------------------------------------------------------------------------
Ok(d) == Answer(d, "ok", {})
Refused(d, err) == Answer(d, err, {})
Put(d, table, id, row) == Ok([d EXCEPT ![table] = Row(@, id, row)])
Change(d, table, id, row) == Ok([d EXCEPT ![table][id] = row])

\* delete(m.X, id) after the lookup that scopes every method to its tenant.
Drop(d, table, tid, id) ==
    IF Has(d[table], tid, id) THEN Ok([d EXCEPT ![table] = Without(@, {id})])
    ELSE Refused(d, "not found")
Get(t, tid, id) == IF Has(t, tid, id) THEN <<id>> ELSE <<>>

sqlLimit(out, limit) ==
    IF limit <= 0 THEN <<>> ELSE IF Len(out) > limit THEN SubSeq(out, 1, limit) ELSE out

\* Mutant: the cursor compares the creation time only.
beforeCursor_TimeOnly(ts, id, cursorTS, cursorID) == cursorTS = 0 \/ ts < cursorTS

beforeCursor(ts, id, cursorTS, cursorID) ==
    cursorTS = 0 \/ ts < cursorTS \/ (ts = cursorTS /\ id < cursorID)

sortByNameID(t, rows) ==
    SetToSortSeq(rows, LAMBDA a, b : \/ lower(t[a].name) < lower(t[b].name)
                                     \/ lower(t[a].name) = lower(t[b].name) /\ a < b)
sortDesc(t, rows, ts) ==
    SetToSortSeq(rows, LAMBDA a, b : t[a][ts] > t[b][ts] \/ (t[a][ts] = t[b][ts] /\ a > b))
sortAsc(t, rows, ts) ==
    SetToSortSeq(rows, LAMBDA a, b : t[a][ts] < t[b][ts] \/ (t[a][ts] = t[b][ts] /\ a < b))

\* Mutant: a name another tenant uses is refused too.
Clash_AnyTenant(t, row, except) ==
    \E x \in DOMAIN t \ {except} : lower(t[x].name) = lower(row.name)

Clash(t, row, except) ==
    \E x \in DOMAIN t \ {except} : t[x].tenant = row.tenant /\ lower(t[x].name) = lower(row.name)

----------------------------------------------------------------------------
(* issuers *)

certCountForIssuer(d, id) == Cardinality(Keep(d.certificates, LAMBDA c : c.issuer = id))

\* The checks InsertIssuer and UpdateIssuer share.
Rejects(d, id, i) ==
    \/ i.ca # Null /\ ~Has(d.cas, i.tenant, i.ca)
    \/ \E x \in DOMAIN d.issuers \ {id} :
          /\ d.issuers[x].tenant = i.tenant
          /\ \/ lower(d.issuers[x].name) = lower(i.name)
             \/ i.default /\ d.issuers[x].default /\ d.issuers[x].domain = i.domain

InsertIssuer(d, id, i) ==
    IF Rejects(d, id, i) THEN Refused(d, "conflict") ELSE Put(d, "issuers", id, i)
GetIssuer(d, tid, id) == Get(d.issuers, tid, id)
ListIssuers(d, tid, after, limit) ==
    sqlLimit(sortByNameID(d.issuers, {id \in Scoped(d.issuers, tid) :
                                         lower(d.issuers[id].name) > after}), limit)
IssuersByIDs(d, tid, ids) == sortByNameID(d.issuers, {id \in ids : Has(d.issuers, tid, id)})
DefaultIssuer(d, tid, dom) ==
    LET hits == {id \in Scoped(d.issuers, tid) : d.issuers[id].domain = dom /\ d.issuers[id].default}
    IN  IF hits = {} THEN <<>> ELSE <<CHOOSE id \in hits : TRUE>>
UpdateIssuer(d, id, i) ==
    IF ~Has(d.issuers, i.tenant, id) THEN Refused(d, "not found")
    ELSE IF Rejects(d, id, i) THEN Refused(d, "conflict") ELSE Change(d, "issuers", id, i)
ClearDefaultIssuer(d, tid, dom, except) ==
    Ok([d EXCEPT !.issuers = [id \in DOMAIN @ |->
        IF @[id].tenant = tid /\ @[id].domain = dom /\ @[id].default /\ id # except
        THEN [@[id] EXCEPT !.default = FALSE] ELSE @[id]]])
\* No step clears the reference that a request keeps to the issuer.
DeleteIssuer(d, tid, id) ==
    IF Has(d.issuers, tid, id) /\ certCountForIssuer(d, id) > 0 THEN Refused(d, "conflict")
    ELSE Drop(d, "issuers", tid, id)

(* certificate authorities *)

SecondActive(d, tid, dom, except) ==
    \E x \in DOMAIN d.cas \ {except} :
        d.cas[x].tenant = tid /\ d.cas[x].domain = dom /\ d.cas[x].state = "active"
InsertCA(d, id, c, now) ==
    IF c.state = "active" /\ SecondActive(d, c.tenant, c.domain, id) THEN Refused(d, "conflict")
    ELSE Put(d, "cas", id, c @@ [created |-> now])
GetCA(d, tid, id) == Get(d.cas, tid, id)
\* The newest; among equally new ones, whichever the walk of the map met first.
CAByState(d, tid, dom, state) ==
    LET hits == {id \in Scoped(d.cas, tid) : d.cas[id].domain = dom /\ d.cas[id].state = state}
        best == {id \in hits : \A x \in hits : d.cas[x].created <= d.cas[id].created}
    IN  IF hits = {} THEN {<<>>} ELSE {<<id>> : id \in best}
CAsForDomain(d, tid, dom) ==
    sortDesc(d.cas, {id \in Scoped(d.cas, tid) : d.cas[id].domain = dom}, "created")
SetCAState(d, tid, id, state) ==
    IF ~Has(d.cas, tid, id) THEN Refused(d, "not found")
    ELSE IF state = "active" /\ SecondActive(d, tid, d.cas[id].domain, id) THEN Refused(d, "conflict")
    ELSE Change(d, "cas", id, [d.cas[id] EXCEPT !.state = state])
DeleteCA(d, tid, id) ==
    IF Has(d.cas, tid, id) /\ \E i \in DOMAIN d.issuers : d.issuers[i].ca = id
    THEN Refused(d, "conflict") ELSE Drop(d, "cas", tid, id)

(* certificate requests *)

InsertRequest(d, id, r, now) ==
    IF r.issuer # Null /\ ~Has(d.issuers, r.tenant, r.issuer) THEN Refused(d, "conflict")
    ELSE Put(d, "requests", id, r @@ [created |-> now])
GetRequest(d, tid, id) == Get(d.requests, tid, id)
\* The page of a list filtered by status, newest first.
Page(t, tid, f) ==
    sqlLimit(sortDesc(t, {id \in Scoped(t, tid) : /\ f.status = Null \/ t[id].status = f.status
                                                  /\ beforeCursor(t[id].created, id, f.ts, f.id)},
                      "created"), f.limit)
ListRequests(d, tid, f) == Page(d.requests, tid, f)
SetRequestStatus(d, tid, id, status, reason) ==
    IF ~Has(d.requests, tid, id) THEN Refused(d, "not found")
    ELSE Change(d, "requests", id,
                [d.requests[id] EXCEPT !.status = status,
                                       !.reason = IF reason # Null THEN reason ELSE @])
CompleteRequest(d, tid, id, status, cert, reason) ==
    IF ~Has(d.requests, tid, id) THEN Refused(d, "not found")
    ELSE Change(d, "requests", id,
                [d.requests[id] EXCEPT !.status = status, !.cert = cert, !.reason = reason])
DeleteRequest(d, tid, id) == Drop(d, "requests", tid, id)

(* certificate jobs *)

InsertJob(d, id, j, now) == Put(d, "jobs", id, j @@ [created |-> now])
GetJob(d, tid, id) == Get(d.jobs, tid, id)
ListJobs(d, tid, f) == Page(d.jobs, tid, f)
UpdateJob(d, id, j) ==
    IF ~Has(d.jobs, j.tenant, id) THEN Refused(d, "not found")
    ELSE Change(d, "jobs", id,
                [d.jobs[id] EXCEPT !.status = j.status, !.lease = j.lease,
                                   !.attempts = j.attempts, !.runAfter = j.runAfter])
DeleteJob(d, tid, id) == Drop(d, "jobs", tid, id)
ClaimDueJobs(d, now, limit) ==
    LET due == Keep(d.jobs, LAMBDA j : /\ j.status = "queued" /\ j.runAfter <= now
                                       /\ j.lease = Null \/ j.lease < now)
        won == ToSet(sqlLimit(sortAsc(d.jobs, due, "runAfter"), limit))
    IN  {Answer([d EXCEPT !.jobs = [id \in DOMAIN @ |->
             IF id \in won THEN [@[id] EXCEPT !.status = "processing", !.lease = now + 1,
                                              !.attempts = @ + 1] ELSE @[id]]], "ok", won)}

(* issued certificates *)

InsertCertificate(d, id, c, now) ==
    IF \/ ~Has(d.issuers, c.tenant, c.issuer)
       \/ \E x \in Scoped(d.certificates, c.tenant) : d.certificates[x].serial = c.serial
    THEN Refused(d, "conflict") ELSE Put(d, "certificates", id, c @@ [created |-> now])
GetCertificate(d, tid, id) == Get(d.certificates, tid, id)
ListCertificates(d, tid, f) ==
    LET t == d.certificates
    IN  sqlLimit(sortDesc(t, {id \in Scoped(t, tid) : /\ f.issuer = Null \/ t[id].issuer = f.issuer
                                                      /\ f.status = Null \/ t[id].status = f.status
                                                      /\ beforeCursor(t[id].created, id, f.ts, f.id)},
                          "created"), f.limit)
CertificatesByIDs(d, tid, ids) ==
    sortDesc(d.certificates, {id \in ids : Has(d.certificates, tid, id)}, "created")
\* The auto-renew flag is not among the columns this method rewrites.
UpdateCertificate(d, id, c) ==
    IF ~Has(d.certificates, c.tenant, id) THEN Refused(d, "not found")
    ELSE Change(d, "certificates", id,
                [d.certificates[id] EXCEPT !.status = c.status, !.key = c.key, !.succ = c.succ])
SetCertificateStatus(d, tid, id, status, succ) ==
    IF ~Has(d.certificates, tid, id) THEN Refused(d, "not found")
    ELSE Change(d, "certificates", id,
                [d.certificates[id] EXCEPT !.status = status, !.succ = IF succ # Null THEN succ ELSE @])
MarkKeyDelivered(d, tid, id) ==
    IF ~Has(d.certificates, tid, id) THEN Refused(d, "not found")
    ELSE Change(d, "certificates", id, [d.certificates[id] EXCEPT !.key = "delivered"])
DeleteCertificate(d, tid, id) == Drop(d, "certificates", tid, id)
\* Mutant: the certificate that expires at the horizon is left out.
Expiring_Exclusive(c, now, before) ==
    c.status \in {"active", "expiring"} /\ c.succ = Null /\ c.notAfter > now /\ c.notAfter < before

Expiring(c, now, before) ==
    c.status \in {"active", "expiring"} /\ c.succ = Null /\ c.notAfter > now /\ ~(c.notAfter > before)
\* The auto-renew flag is not looked at.
DueForRenewal(d, now, before, limit) ==
    sqlLimit(sortAsc(d.certificates, Keep(d.certificates, LAMBDA c : Expiring(c, now, before)),
                     "notAfter"), limit)
ExpiringCertificates(d, tid, now, before, limit) ==
    sqlLimit(sortAsc(d.certificates, {id \in Scoped(d.certificates, tid) : Expiring(d.certificates[id], now, before)},
                     "notAfter"), limit)

(* revocations and reports of installed certificates *)

InsertRevocation(d, id, r) ==
    IF \E x \in Scoped(d.revocations, r.tenant) : d.revocations[x].cert = r.cert
    THEN Refused(d, "conflict") ELSE Put(d, "revocations", id, r)
ListRevocations(d, tid, cursor, limit) ==
    sqlLimit(sortDesc(d.revocations, {id \in Scoped(d.revocations, tid) : cursor = 0 \/ d.revocations[id].at < cursor},
                      "at"), limit)
UpsertInstalled(d, id, i) ==
    LET old == {x \in Scoped(d.installed, i.tenant) :
                   d.installed[x].cert = i.cert /\ d.installed[x].client = i.client}
    IN  IF old = {} THEN Put(d, "installed", id, i)
        ELSE LET x == CHOOSE x \in old : TRUE
             IN  Change(d, "installed", x, [d.installed[x] EXCEPT !.reported = i.reported])
ListInstalled(d, tid, client, cursor, limit) ==
    sqlLimit(sortDesc(d.installed, {id \in Scoped(d.installed, tid) :
                          /\ client = Null \/ d.installed[id].client = client
                          /\ cursor = 0 \/ d.installed[id].reported < cursor},
                      "reported"), limit)

(* deployment targets, secrets and webhook endpoints *)

InsertTarget(d, id, t) ==
    IF Clash(d.targets, t, id) THEN Refused(d, "conflict") ELSE Put(d, "targets", id, t)
GetTarget(d, tid, id) == Get(d.targets, tid, id)
ListTargets(d, tid) == sortByNameID(d.targets, Scoped(d.targets, tid))
DeleteTarget(d, tid, id) == Drop(d, "targets", tid, id)

InsertSecret(d, id, s) ==
    IF Clash(d.secrets, s, id) THEN Refused(d, "conflict") ELSE Put(d, "secrets", id, s)
GetSecret(d, tid, id) == Get(d.secrets, tid, id)
SecretByName(d, tid, name) ==
    LET hits == {id \in Scoped(d.secrets, tid) : lower(d.secrets[id].name) = lower(name)}
    IN  IF hits = {} THEN <<>> ELSE <<CHOOSE id \in hits : TRUE>>
ListSecrets(d, tid) == sortByNameID(d.secrets, Scoped(d.secrets, tid))
UpdateSecret(d, id, s) ==
    IF ~Has(d.secrets, s.tenant, id) THEN Refused(d, "not found")
    ELSE IF Clash(d.secrets, s, id) THEN Refused(d, "conflict") ELSE Change(d, "secrets", id, s)
DeleteSecret(d, tid, id) == Drop(d, "secrets", tid, id)

InsertWebhook(d, id, w) ==
    IF Clash(d.webhooks, w, id) THEN Refused(d, "conflict") ELSE Put(d, "webhooks", id, w)
GetWebhook(d, tid, id) == Get(d.webhooks, tid, id)
ListWebhooks(d, tid) == sortByNameID(d.webhooks, Scoped(d.webhooks, tid))
WebhooksForEvent(d, tid, event) ==
    sortByNameID(d.webhooks, {id \in Scoped(d.webhooks, tid) :
                                 d.webhooks[id].enabled /\ event \in d.webhooks[id].events})
DeleteWebhook(d, tid, id) == Drop(d, "webhooks", tid, id)

(* grants *)

sortGrants(d, rows) == sortAsc(d.grants, rows, "at")
UpsertGrant(d, id, g, now) ==
    LET old == {x \in Scoped(d.grants, g.tenant) :
                   /\ d.grants[x].resource = g.resource
                   /\ d.grants[x].kind = g.kind /\ d.grants[x].subject = g.subject}
        x == CHOOSE x \in old : TRUE
    IN  IF old = {} THEN Answer([d EXCEPT !.grants = Row(@, id, g @@ [at |-> now])], "ok", {id})
        ELSE Answer([d EXCEPT !.grants[x] = [@ EXCEPT !.relation = g.relation, !.at = now,
                                                      !.expires = g.expires]], "ok", {x})
GetGrant(d, tid, id) == Get(d.grants, tid, id)
DeleteGrant(d, tid, id) == Drop(d, "grants", tid, id)
GrantsOnResource(d, tid, resource) ==
    sortGrants(d, {id \in Scoped(d.grants, tid) : d.grants[id].resource = resource})
GrantsForSubjects(d, tid, uid, roles, now) ==
    sortGrants(d, {id \in Scoped(d.grants, tid) :
        LET g == d.grants[id]
        IN  /\ ~(g.expires # Null /\ g.expires <= now)
            /\ CASE g.kind = "user" -> uid # Null /\ g.subject = uid
                 [] g.kind = "role" -> g.subject \in roles
                 [] g.kind = "tenant" -> TRUE})
DeleteGrantsOfResource(d, tid, resource) ==
    Ok([d EXCEPT !.grants = Without(@, {id \in DOMAIN @ : /\ @[id].tenant = tid
                                                          /\ @[id].resource = resource})])

(* the certificate log, the audit trail and the statistics *)

InsertCertLog(d, rows) == Ok([d EXCEPT !.certlog = @ \o rows])
InsertAuditRows(d, rows) == Ok([d EXCEPT !.audit = @ \o rows])
subjectName(d, tid, subject) ==
    CASE subject.kind \in {"issuers", "secrets", "webhooks"} /\ Has(d[subject.kind], tid, subject.id)
           -> d[subject.kind][subject.id].name
      [] subject.kind = "certificates" /\ Has(d.certificates, tid, subject.id) -> "spiffe id"
      [] OTHER -> Null
\* A stable sort by time: events of one time stay in the order they came.
QueryAudit(d, tid, f) ==
    LET hits == {n \in DOMAIN d.audit : /\ d.audit[n].tenant = tid
                                        /\ ~(f.from # 0 /\ d.audit[n].ts < f.from)
                                        /\ ~(f.to # 0 /\ d.audit[n].ts > f.to)
                                        /\ ~(f.cursor # 0 /\ d.audit[n].ts >= f.cursor)}
    IN  sqlLimit(SetToSortSeq(hits, LAMBDA a, b : \/ d.audit[a].ts > d.audit[b].ts
                                                  \/ d.audit[a].ts = d.audit[b].ts /\ a < b), f.limit)
Count(S) == Cardinality(S)
TenantStats(d, tid, now, window) ==
    LET certs == Scoped(d.certificates, tid)
    IN  [issuers |-> Count(Scoped(d.issuers, tid)),
         clients |-> Count({d.installed[id].client : id \in Scoped(d.installed, tid)}),
         expiring |-> Count({id \in certs : /\ d.certificates[id].status \in {"active", "expiring"}
                                            /\ d.certificates[id].notAfter > now
                                            /\ ~(d.certificates[id].notAfter > now + window)}),
         errors |-> Count({n \in DOMAIN d.certlog : /\ d.certlog[n].tenant = tid
                                                    /\ d.certlog[n].event = "failed"
                                                    /\ ~(d.certlog[n].ts < now - window)}),
         operations |-> Count({n \in DOMAIN d.audit : /\ d.audit[n].tenant = tid
                                                      /\ ~(d.audit[n].ts < now - window)}),
         certificates |-> [s \in CertStatuses |-> Count({id \in certs : d.certificates[id].status = s})],
         jobs |-> [s \in JobStatuses |-> Count({id \in Scoped(d.jobs, tid) : d.jobs[id].status = s})]]

----------------------------------------------------------------------------
(* list pages: filter, sort, cut the window *)

\* The value a sort field picks from a row.
FieldOf(t, field) ==
    [id \in DOMAIN t |-> CASE field = "name" -> lower(t[id].name)
                           [] field = "status" -> Alphabetical(t[id].status)
                           [] OTHER -> t[id][field]]
window(t, items, list, req) ==
    LET r == ListRequest(req, list)
        col == FieldOf(t, r.sort)
        sorted == SetToSortSeq(items, LAMBDA a, b : SortsBefore(r, col[a], a, col[b], b))
        applied == Clamp(r, Len(sorted))
        end == Offset(applied) + applied.size
    IN  [rows |-> SubSeq(sorted, Offset(applied) + 1, IF end > Len(sorted) THEN Len(sorted) ELSE end),
         total |-> Len(sorted), page |-> applied.page]
visible(v, id) == v.all \/ id \in v.ids
requestIssuerReadable(s, r) ==
    IF r.issuer # Null THEN s.allPinned \/ r.issuer \in s.issuers
    ELSE r.domain # Null /\ r.domain \in s.domains

PageCertificates(d, tid, f, req) ==
    LET t == d.certificates
        issuerName(i) == IF Has(d.issuers, tid, i) THEN lower(d.issuers[i].name) ELSE Null
        sortable == IF f.visible.all
                    THEN [id \in DOMAIN t |-> [t[id] EXCEPT !.issuer = issuerName(@)]] ELSE t
    IN  window(sortable, {id \in Scoped(t, tid) : /\ f.issuer = Null \/ t[id].issuer = f.issuer
                                                  /\ f.status = Null \/ t[id].status = f.status
                                                  /\ visible(f.visible, id)},
               CertificateList, req)
PageIssuers(d, tid, v, req) ==
    window(d.issuers, {id \in Scoped(d.issuers, tid) : visible(v, id)}, IssuerList, req)
PageRequests(d, tid, status, s, req) ==
    LET t == d.requests
    IN  window(t, {id \in Scoped(t, tid) :
                   /\ status = Null \/ t[id].status = status
                   /\ (s.actor # Null /\ t[id].by = s.actor) \/ requestIssuerReadable(s, t[id])},
               RequestList, req)
PageJobs(d, tid, status, s, req) ==
    LET t == d.jobs
        readable(r) == Has(d.requests, tid, r)
                       /\ requestIssuerReadable([s EXCEPT !.allPinned = FALSE], d.requests[r])
    IN  window(t, {id \in Scoped(t, tid) : /\ status = Null \/ t[id].status = status
                                           /\ s.allJobs \/ readable(t[id].request)},
               JobList, req)
PageSecrets(d, tid, req) ==
    window(d.secrets, Scoped(d.secrets, tid), NamedList, req)
PageWebhooks(d, tid, req) ==
    window(d.webhooks, Scoped(d.webhooks, tid), NamedList, req)
PageAudit(d, tid, f, req) ==
    window(d.audit, {n \in DOMAIN d.audit : /\ d.audit[n].tenant = tid
                                            /\ ~(d.audit[n].ts < f.from) /\ ~(d.audit[n].ts > f.to)},
           AuditList, req)

----------------------------------------------------------------------------
INSTANCE StoreCalls

----------------------------------------------------------------------------
(* The double as an SQL store.  Two columns are read through a mapping: a   *)
(* request of a deleted issuer counts as one without issuer, and every      *)
(* certificate, stored or passed, as one that renews automatically, because *)
(* the double keeps the reference and ignores the flag.                     *)

AsSql(d) ==
    [d EXCEPT !.requests = [id \in DOMAIN @ |->
                  [@[id] EXCEPT !.issuer = IF @ \in DOMAIN d.issuers THEN @ ELSE Null]],
              !.certificates = [id \in DOMAIN @ |-> [@[id] EXCEPT !.auto = TRUE]]]

Passed == IF op \in {"InsertCertificate", "UpdateCertificate"} THEN [args EXCEPT ![2].auto = TRUE] ELSE args

Sql == INSTANCE SqlStore WITH db <- AsSql(db), args <- Passed

\* Every call the double answers, the SQL repositories could have answered the
\* same way, made with the same arguments, leaving the same rows: the double refuses a name, a serial, a
\* default issuer, an active CA or a revocation exactly when an index would,
\* refuses to drop what is referenced exactly when a foreign key would, and
\* touches another tenant's rows exactly when a WHERE clause would (memstore.go,
\* the package comment).
RefinesSql == Sql!Spec

\* In every reachable database each read of the double is an answer the SQL
\* read may give: the same rows of the same tenant, in an order its ORDER BY
\* allows, cut at the same LIMIT, for every filter, cursor and page size, and
\* for a page of a list the same total and page number, whatever the caller may
\* read.  A table is compared in the behaviours whose calls write it or a table
\* it refers to; the initial states compare the ones that no call has written.
\* Pages of requests are compared while no request refers to a deleted issuer.
ReadsAgree ==
    LET d == AsSql(db)
        writes(calling) == focus \cap calling # {}
        cas == {"InsertCA"}
        issuers == {"InsertIssuer", "DeleteCertificate"}
        requests == {"InsertRequest"}
        jobs == {"InsertJob"}
        certificates == {"InsertIssuer", "InsertCertificate"}
        reports == {"InsertRevocation"}
        targets == {"InsertTarget"}
        secrets == {"InsertSecret"}
        webhooks == {"InsertWebhook"}
        grants == {"UpsertGrant"}
        logs == {"InsertAuditRows", "InsertCertLog"}
    IN
    \A tid \in Tenants :
        /\ \A id \in Ids :
              /\ GetIssuer(db, tid, id) \in Sql!GetIssuer(d, tid, id)
              /\ certCountForIssuer(db, id) = Sql!CertificateCount(d, id)
              /\ GetCA(db, tid, id) \in Sql!GetCA(d, tid, id)
              /\ GetRequest(db, tid, id) \in Sql!GetRequest(d, tid, id)
              /\ GetJob(db, tid, id) \in Sql!GetJob(d, tid, id)
              /\ GetCertificate(db, tid, id) \in Sql!GetCertificate(d, tid, id)
              /\ GetTarget(db, tid, id) \in Sql!GetTarget(d, tid, id)
              /\ GetSecret(db, tid, id) \in Sql!GetSecret(d, tid, id)
              /\ GetWebhook(db, tid, id) \in Sql!GetWebhook(d, tid, id)
              /\ GetGrant(db, tid, id) \in Sql!GetGrant(d, tid, id)
        /\ writes(cas) => \A dom \in Domains :
              /\ CAsForDomain(db, tid, dom) \in Sql!CAsForDomain(d, tid, dom)
              /\ \A s \in {"active", "next", "retiring"} :
                    CAByState(db, tid, dom, s) \subseteq Sql!CAByState(d, tid, dom, s)
        /\ writes(issuers) =>
              /\ \A dom \in Domains : DefaultIssuer(db, tid, dom) \in Sql!DefaultIssuer(d, tid, dom)
              /\ \A ids \in {Ids, {1, 2}} : IssuersByIDs(db, tid, ids) \in Sql!IssuersByIDs(d, tid, ids)
              /\ \A k \in Limits \ {0}, after \in 0..MaxTime :
                    ListIssuers(db, tid, after, k) \in Sql!ListIssuers(d, tid, after, k)
              /\ \A v \in Visible, r \in Asked(IssuerList) :
                    PageIssuers(db, tid, v, r) \in Sql!PageIssuers(d, tid, v, r)
        /\ writes(requests) =>
              /\ \A f \in Filters("pending") : ListRequests(db, tid, f) \in Sql!ListRequests(d, tid, f)
              /\ db.requests = d.requests =>
                    \A s \in RequestScopes, r \in Asked(RequestList), status \in {Null, "pending"} :
                        PageRequests(db, tid, status, s, r) \in Sql!PageRequests(d, tid, status, s, r)
        /\ writes(jobs) =>
              /\ \A f \in Filters("queued") : ListJobs(db, tid, f) \in Sql!ListJobs(d, tid, f)
              /\ \A s \in RequestScopes, r \in Asked(JobList), status \in {Null, "queued"} :
                    PageJobs(db, tid, status, s, r) \in Sql!PageJobs(d, tid, status, s, r)
        /\ writes(certificates) =>
              /\ \A ids \in {Ids, {1, 2}} :
                    CertificatesByIDs(db, tid, ids) \in Sql!CertificatesByIDs(d, tid, ids)
              /\ \A f \in Filters("active") :
                    ListCertificates(db, tid, f) \in Sql!ListCertificates(d, tid, f)
              /\ \A k \in Limits \ {0}, t \in 0..MaxTime, u \in Now :
                    /\ DueForRenewal(db, t, u, k) \in Sql!DueForRenewal(d, t, u, k)
                    /\ ExpiringCertificates(db, tid, t, u, k)
                          \in Sql!ExpiringCertificates(d, tid, t, u, k)
              /\ \A f \in [issuer : {Null, 0, 1}, status : {Null}, visible : Visible]
                            \cup [issuer : {Null}, status : {"active"}, visible : Visible],
                    r \in Asked(CertificateList) :
                    PageCertificates(db, tid, f, r) \in Sql!PageCertificates(d, tid, f, r)
        /\ writes(reports) => \A k \in Limits \ {0}, t \in 0..MaxTime :
              /\ ListRevocations(db, tid, t, k) \in Sql!ListRevocations(d, tid, t, k)
              /\ \A c \in {Null, "w1"} :
                    ListInstalled(db, tid, c, t, k) \in Sql!ListInstalled(d, tid, c, t, k)
        /\ writes(targets) => ListTargets(db, tid) \in Sql!ListTargets(d, tid)
        /\ writes(secrets) =>
              /\ ListSecrets(db, tid) \in Sql!ListSecrets(d, tid)
              /\ \A n \in Names : SecretByName(db, tid, n) \in Sql!SecretByName(d, tid, n)
              /\ \A r \in Asked(NamedList) : PageSecrets(db, tid, r) \in Sql!PageSecrets(d, tid, r)
        /\ writes(webhooks) =>
              /\ ListWebhooks(db, tid) \in Sql!ListWebhooks(d, tid)
              /\ WebhooksForEvent(db, tid, "issued") \in Sql!WebhooksForEvent(d, tid, "issued")
              /\ \A r \in Asked(NamedList) : PageWebhooks(db, tid, r) \in Sql!PageWebhooks(d, tid, r)
        /\ writes(grants) =>
              /\ \A r \in {"r1", "r2"} : GrantsOnResource(db, tid, r) \in Sql!GrantsOnResource(d, tid, r)
              /\ \A t \in Now, roles \in {{}, {"s1"}}, uid \in {"s1", "s2"} :
                    GrantsForSubjects(db, tid, uid, roles, t) \in Sql!GrantsForSubjects(d, tid, uid, roles, t)
        /\ writes(logs) =>
              /\ \A n \in DOMAIN db.audit : subjectName(db, tid, db.audit[n].subject)
                                             = Sql!SubjectName(d, tid, db.audit[n].subject)
              /\ \A f \in [from : Now, to : Now], r \in Asked(AuditList) :
                    PageAudit(db, tid, f, r) \in Sql!PageAudit(d, tid, f, r)
        /\ \A t \in Now, w \in 0..1 : TenantStats(db, tid, t, w) = Sql!TenantStats(d, tid, t, w)

\* A caller who follows the cursor of each page to the next one, until a page
\* comes back short, has read every row of its tenant exactly once and newest
\* first (issuers: by name), whatever the page size and however many rows share
\* a creation time (the (created_at, id) cursors of the three cursor lists).
PagesComplete ==
    LET cursor(t, page, f) == [f EXCEPT !.ts = t[Last(page)].created, !.id = Last(page)]
        Walk(t, tid, k) ==
            LET walk[n \in 0..Cardinality(Ids), f \in [status : {Null}, issuer : {Null},
                          ts : 0..MaxTime, id : Ids \cup {0}, limit : {k}]] ==
                    LET page == Page(t, tid, f)
                    IN  IF Len(page) < k \/ n = 0 THEN page
                        ELSE page \o walk[n - 1, cursor(t, page, f)]
            IN  walk[Cardinality(Ids), [status |-> Null, issuer |-> Null, ts |-> 0,
                                        id |-> 0, limit |-> k]]
        names(tid, k) ==
            LET walk[n \in 0..Cardinality(Ids), after \in 0..Cardinality(Names)] ==
                    LET page == ListIssuers(db, tid, after, k)
                    IN  IF Len(page) < k \/ n = 0 THEN page
                        ELSE page \o walk[n - 1, lower(db.issuers[Last(page)].name)]
            IN  walk[Cardinality(Ids), 0]
    IN  \A tid \in Tenants, k \in Limits \ {0} :
            /\ \A t \in {db.requests, db.jobs, db.certificates} :
                  Walk(t, tid, k) = sortDesc(t, Scoped(t, tid), "created")
            /\ names(tid, k) = sortByNameID(db.issuers, Scoped(db.issuers, tid))

\* The audit page of the double is the page the SQL query gives.
AuditAgrees ==
    \A tid \in Tenants, k \in Limits \ {0}, c \in 0..MaxTime :
        LET f == [from |-> 0, to |-> 0, cursor |-> c, limit |-> k]
        IN  QueryAudit(db, tid, f) \in Sql!QueryAudit(AsSql(db), tid, f)
============================================================================
