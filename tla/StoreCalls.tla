----------------------------- MODULE StoreCalls ----------------------------
(***************************************************************************)
(* The calls of repo.Store that write, as steps over whichever             *)
(* implementation of them a module brings: each writing method of the      *)
(* interface is an operator from the tables and its arguments to an        *)
(* Answer.  Reads change nothing; they are compared in every state.        *)
(***************************************************************************)
EXTENDS Integers, Sequences

CONSTANTS
    Callers, Domains, Names, Ids, Null, Seeds, Focuses, MaxCalls, \* as in StoreTables
    Now, Limits, CertStatuses, RequestStatuses,                   \* its small sets
    InsertCA(_, _, _, _), SetCAState(_, _, _, _), DeleteCA(_, _, _),
    InsertIssuer(_, _, _), UpdateIssuer(_, _, _), ClearDefaultIssuer(_, _, _, _),
    DeleteIssuer(_, _, _), InsertRequest(_, _, _, _), SetRequestStatus(_, _, _, _, _),
    CompleteRequest(_, _, _, _, _, _), DeleteRequest(_, _, _),
    InsertJob(_, _, _, _), UpdateJob(_, _, _), DeleteJob(_, _, _), ClaimDueJobs(_, _, _),
    InsertCertificate(_, _, _, _), UpdateCertificate(_, _, _),
    SetCertificateStatus(_, _, _, _, _), MarkKeyDelivered(_, _, _), DeleteCertificate(_, _, _),
    InsertRevocation(_, _, _), UpsertInstalled(_, _, _),
    InsertTarget(_, _, _), DeleteTarget(_, _, _), InsertSecret(_, _, _), UpdateSecret(_, _, _),
    DeleteSecret(_, _, _), InsertWebhook(_, _, _), DeleteWebhook(_, _, _),
    UpsertGrant(_, _, _, _), DeleteGrant(_, _, _), DeleteGrantsOfResource(_, _, _),
    InsertCertLog(_, _), InsertAuditRows(_, _)

VARIABLES
    db,     \* the tables
    op,     \* the last call made
    args,   \* the arguments it was made with
    answer, \* what it answered: an error and the ids of the rows it returned
    clock,  \* the time of that call
    calls,  \* how many calls were made
    focus   \* the calls this behaviour is made of

vars == <<db, op, args, answer, clock, calls, focus>>

----------------------------------------------------------------------------
(* The rows callers pass.  A reference is the id of a row that the caller   *)
(* looked up in its own tenant, which may be gone by now.                   *)

Ref(t, tid) == {id \in Ids : id \in DOMAIN t => t[id].tenant = tid}

CARows == [tenant : Callers, domain : Domains, state : {"active", "next"}]
IssuerRows(d) ==
    {i \in [tenant : Callers, name : Names, domain : Domains, default : BOOLEAN,
            ca : Ids \cup {Null}] : i.ca \in Ref(d.cas, i.tenant) \cup {Null}}
RequestRows(d) ==
    {r \in [tenant : Callers, issuer : Ids \cup {Null}, status : {"pending"}, reason : {Null},
            cert : {Null}, by : {"u1"}, domain : {"d"}] : r.issuer \in Ref(d.issuers, r.tenant) \cup {Null}}
JobRows(statuses) ==
    [tenant : Callers, status : statuses, lease : {Null}, attempts : {0}, runAfter : Now,
     request : {2}]
CertRows(d) ==
    {c \in [tenant : Callers, issuer : Ids, serial : 1..2, status : {"active"},
            notAfter : {2, 3}, key : {"sealed"}, succ : {Null}, auto : BOOLEAN] :
        c.issuer \in Ref(d.issuers, c.tenant)}
RevocationRows == [tenant : Callers, cert : Ids, at : Now]
InstalledRows == [tenant : Callers, cert : {1}, client : {"w1", "w2"}, reported : Now]
TargetRows == [tenant : Callers, name : Names]
SecretRows == [tenant : Callers, name : Names, value : {1, 2}]
WebhookRows == [tenant : Callers, name : Names, enabled : BOOLEAN, events : {{}, {"issued"}}]
GrantRows == [tenant : Callers, resource : {"r1", "r2"}, kind : {"user", "role", "tenant"},
              subject : {"s1"}, relation : {"owner", "viewer"}, expires : {Null, 2}]
CertLogRows == [tenant : Callers, event : {"issued", "failed"}, ts : Now]
AuditRows == [tenant : Callers, ts : Now, subject : [kind : {"secrets", ""}, id : {1, 2}]]

----------------------------------------------------------------------------

Call(name) ==
    /\ name \in focus /\ calls < MaxCalls
    /\ op' = name /\ calls' = calls + 1
    /\ clock' \in {clock, clock + 1} \cap Now
    /\ UNCHANGED focus

Do(with, o) == args' = with /\ db' = o.db /\ answer' = [err |-> o.err, rows |-> o.rows]

\* Any call may fail: in the database, which undoes its transaction, or as the
\* test of the double asked with FailOn, before it does anything.
Fails == /\ calls < MaxCalls /\ calls' = calls + 1 /\ op' = "failed" /\ args' = <<>>
         /\ answer' = [err |-> "failed", rows |-> {}] /\ UNCHANGED <<db, clock, focus>>
Fresh(t) == Ids \ DOMAIN t

Init == /\ db \in Seeds /\ focus \in Focuses
        /\ op = "" /\ args = <<>> /\ answer = [err |-> "ok", rows |-> {}] /\ clock = 1 /\ calls = 0

CACalls ==
    \/ Call("InsertCA") /\ \E id \in Fresh(db.cas), c \in CARows :
           Do(<<id, c>>, InsertCA(db, id, c, clock'))
    \/ Call("SetCAState") /\ \E tid \in Callers, id \in Ids, s \in {"active", "next", "retiring"} :
           Do(<<tid, id, s>>, SetCAState(db, tid, id, s))
    \/ Call("DeleteCA") /\ \E tid \in Callers, id \in Ids : Do(<<tid, id>>, DeleteCA(db, tid, id))

IssuerCalls ==
    \/ Call("InsertIssuer") /\ \E id \in Fresh(db.issuers), i \in IssuerRows(db) :
           Do(<<id, i>>, InsertIssuer(db, id, i))
    \/ Call("UpdateIssuer") /\ \E id \in Ids, i \in IssuerRows(db) :
           Do(<<id, i>>, UpdateIssuer(db, id, i))
    \/ Call("ClearDefaultIssuer") /\ \E tid \in Callers, dom \in Domains, id \in Ids :
           Do(<<tid, dom, id>>, ClearDefaultIssuer(db, tid, dom, id))
    \/ Call("DeleteIssuer") /\ \E tid \in Callers, id \in Ids :
           Do(<<tid, id>>, DeleteIssuer(db, tid, id))

RequestCalls ==
    \/ Call("InsertRequest") /\ \E id \in Fresh(db.requests), r \in RequestRows(db) :
           Do(<<id, r>>, InsertRequest(db, id, r, clock'))
    \/ Call("SetRequestStatus") /\ \E tid \in Callers, id \in Ids, s \in RequestStatuses, why \in {Null, "why"} :
           Do(<<tid, id, s, why>>, SetRequestStatus(db, tid, id, s, why))
    \/ Call("CompleteRequest") /\ \E tid \in Callers, id \in Ids, c \in {Null, 1}, why \in {Null, "why"} :
           Do(<<tid, id, c, why>>, CompleteRequest(db, tid, id, "issued", c, why))
    \/ Call("DeleteRequest") /\ \E tid \in Callers, id \in Ids :
           Do(<<tid, id>>, DeleteRequest(db, tid, id))

JobCalls ==
    \/ Call("InsertJob") /\ \E id \in Fresh(db.jobs), j \in JobRows({"queued"}) :
           Do(<<id, j>>, InsertJob(db, id, j, clock'))
    \/ Call("UpdateJob") /\ \E id \in Ids, j \in JobRows({"queued", "failed"}) :
           Do(<<id, j>>, UpdateJob(db, id, j))
    \/ Call("DeleteJob") /\ \E tid \in Callers, id \in Ids : Do(<<tid, id>>, DeleteJob(db, tid, id))
    \/ Call("ClaimDueJobs") /\ \E k \in Limits : \E o \in ClaimDueJobs(db, clock', k) : Do(<<k>>, o)

CertCalls ==
    \/ Call("InsertCertificate") /\ \E id \in Fresh(db.certificates), c \in CertRows(db) :
           Do(<<id, c>>, InsertCertificate(db, id, c, clock'))
    \/ Call("UpdateCertificate") /\ \E id \in Ids, c \in CertRows(db) :
           Do(<<id, c>>, UpdateCertificate(db, id, c))
    \/ Call("SetCertificateStatus") /\ \E tid \in Callers, id \in Ids, s \in CertStatuses, succ \in {Null, 1} :
           Do(<<tid, id, s, succ>>, SetCertificateStatus(db, tid, id, s, succ))
    \/ Call("MarkKeyDelivered") /\ \E tid \in Callers, id \in Ids :
           Do(<<tid, id>>, MarkKeyDelivered(db, tid, id))
    \/ Call("DeleteCertificate") /\ \E tid \in Callers, id \in Ids :
           Do(<<tid, id>>, DeleteCertificate(db, tid, id))

ReportCalls ==
    \/ Call("InsertRevocation") /\ \E id \in Fresh(db.revocations), r \in RevocationRows :
           Do(<<id, r>>, InsertRevocation(db, id, r))
    \/ Call("UpsertInstalled") /\ \E id \in Fresh(db.installed), i \in InstalledRows :
           Do(<<id, i>>, UpsertInstalled(db, id, i))

NamedCalls ==
    \/ Call("InsertTarget") /\ \E id \in Fresh(db.targets), t \in TargetRows :
           Do(<<id, t>>, InsertTarget(db, id, t))
    \/ Call("DeleteTarget") /\ \E tid \in Callers, id \in Ids :
           Do(<<tid, id>>, DeleteTarget(db, tid, id))
    \/ Call("InsertSecret") /\ \E id \in Fresh(db.secrets), s \in SecretRows :
           Do(<<id, s>>, InsertSecret(db, id, s))
    \/ Call("UpdateSecret") /\ \E id \in Ids, s \in SecretRows : Do(<<id, s>>, UpdateSecret(db, id, s))
    \/ Call("DeleteSecret") /\ \E tid \in Callers, id \in Ids :
           Do(<<tid, id>>, DeleteSecret(db, tid, id))
    \/ Call("InsertWebhook") /\ \E id \in Fresh(db.webhooks), w \in WebhookRows :
           Do(<<id, w>>, InsertWebhook(db, id, w))
    \/ Call("DeleteWebhook") /\ \E tid \in Callers, id \in Ids :
           Do(<<tid, id>>, DeleteWebhook(db, tid, id))

GrantCalls ==
    \/ Call("UpsertGrant") /\ \E id \in Fresh(db.grants), g \in GrantRows :
           Do(<<id, g>>, UpsertGrant(db, id, g, clock'))
    \/ Call("DeleteGrant") /\ \E tid \in Callers, id \in Ids : Do(<<tid, id>>, DeleteGrant(db, tid, id))
    \/ Call("DeleteGrantsOfResource") /\ \E tid \in Callers, r \in {"r1", "r2"} :
           Do(<<tid, r>>, DeleteGrantsOfResource(db, tid, r))

LogCalls ==
    \/ Call("InsertCertLog") /\ \E r \in CertLogRows : Do(<<r>>, InsertCertLog(db, <<r>>))
    \/ Call("InsertAuditRows") /\ \E r \in AuditRows : Do(<<r>>, InsertAuditRows(db, <<r>>))

Next == \/ CACalls \/ IssuerCalls \/ RequestCalls \/ JobCalls \/ CertCalls
        \/ ReportCalls \/ NamedCalls \/ GrantCalls \/ LogCalls \/ Fails

Spec == Init /\ [][Next]_vars
============================================================================
