------------------------------ MODULE MCStore ------------------------------
(***************************************************************************)
(* The double and the SQL repositories on small databases: two tenants, of *)
(* which one makes calls, three ids per table, names that differ in case.  *)
(***************************************************************************)
EXTENDS MemStore

MCTenants == {"t1", "t2"}
MCCallers == {"t1"}
MCNames == {[rank |-> 1, upper |-> FALSE], [rank |-> 1, upper |-> TRUE], [rank |-> 2, upper |-> FALSE]}
a == [rank |-> 1, upper |-> FALSE]

\* Rows of both tenants in every table, with equal names, serials and times.
Cert(t, i) == [tenant |-> t, issuer |-> i, serial |-> 1, status |-> "active", notAfter |-> 2,
               key |-> "sealed", succ |-> Null, auto |-> TRUE, created |-> 1]
FullDB ==
    [cas |-> 1 :> [tenant |-> "t1", domain |-> "d", state |-> "active", created |-> 1]
             @@ 2 :> [tenant |-> "t2", domain |-> "d", state |-> "active", created |-> 1],
     issuers |-> 1 :> [tenant |-> "t1", name |-> a, domain |-> "d", default |-> TRUE, ca |-> 1]
                 @@ 2 :> [tenant |-> "t2", name |-> a, domain |-> "d", default |-> TRUE, ca |-> 2],
     requests |-> 2 :> [tenant |-> "t1", issuer |-> 1, status |-> "pending", reason |-> "why",
                        cert |-> Null, by |-> "u2", domain |-> Null, created |-> 1],
     jobs |-> 1 :> [tenant |-> "t2", status |-> "queued", lease |-> Null, attempts |-> 0,
                    runAfter |-> 1, request |-> 2, created |-> 1],
     certificates |-> 1 :> Cert("t1", 1) @@ 2 :> Cert("t2", 2),
     revocations |-> 2 :> [tenant |-> "t2", cert |-> 1, at |-> 1],
     installed |-> 2 :> [tenant |-> "t2", cert |-> 1, client |-> "w1", reported |-> 1],
     targets |-> 2 :> [tenant |-> "t2", name |-> a],
     secrets |-> 2 :> [tenant |-> "t2", name |-> a, value |-> 1],
     webhooks |-> 2 :> [tenant |-> "t2", name |-> a, enabled |-> TRUE, events |-> {"issued"}],
     grants |-> 2 :> [tenant |-> "t2", resource |-> "r1", kind |-> "tenant", subject |-> "s1",
                      relation |-> "owner", expires |-> Null, at |-> 1],
     certlog |-> <<>>, audit |-> <<>>]
\* A tenant with two rows of one age in every table.
Two(row) == 1 :> row @@ 3 :> row
TwinDB ==
    [cas |-> 1 :> FullDB.cas[1] @@ 3 :> [FullDB.cas[1] EXCEPT !.state = "next"],
     issuers |-> 1 :> FullDB.issuers[1]
                 @@ 3 :> [FullDB.issuers[1] EXCEPT !.name.rank = 2, !.default = FALSE, !.ca = 3],
     requests |-> Two(FullDB.requests[2]),
     jobs |-> Two([FullDB.jobs[1] EXCEPT !.tenant = "t1", !.request = 1]),
     certificates |-> 1 :> Cert("t1", 1) @@ 3 :> [Cert("t1", 1) EXCEPT !.serial = 2],
     revocations |-> 1 :> [tenant |-> "t1", cert |-> 1, at |-> 1]
                     @@ 3 :> [tenant |-> "t1", cert |-> 3, at |-> 1],
     installed |-> 1 :> [tenant |-> "t1", cert |-> 1, client |-> "w1", reported |-> 1]
                   @@ 3 :> [tenant |-> "t1", cert |-> 1, client |-> "w2", reported |-> 1],
     targets |-> 3 :> [tenant |-> "t1", name |-> a],
     secrets |-> 3 :> [tenant |-> "t1", name |-> a, value |-> 1],
     webhooks |-> 3 :> [tenant |-> "t1", name |-> a, enabled |-> TRUE, events |-> {"issued"}],
     grants |-> 1 :> [tenant |-> "t1", resource |-> "r1", kind |-> "user", subject |-> "s1",
                      relation |-> "owner", expires |-> 2, at |-> 1]
                @@ 3 :> [tenant |-> "t1", resource |-> "r1", kind |-> "role", subject |-> "s1",
                         relation |-> "owner", expires |-> Null, at |-> 1],
     certlog |-> <<>>, audit |-> <<[tenant |-> "t1", ts |-> 1, subject |-> [kind |-> "secrets", id |-> 3]]>>]
MCSeeds == {FullDB, TwinDB}

MCFocuses ==
    {{"InsertCA", "SetCAState", "DeleteCA", "InsertIssuer"},
     {"InsertIssuer", "UpdateIssuer", "ClearDefaultIssuer", "DeleteIssuer", "DeleteCertificate",
      "InsertRequest"},
     {"InsertRequest", "SetRequestStatus", "CompleteRequest", "DeleteRequest"},
     {"InsertJob", "UpdateJob", "DeleteJob", "ClaimDueJobs"},
     {"InsertCertificate", "UpdateCertificate", "SetCertificateStatus", "MarkKeyDelivered",
      "DeleteCertificate"},
     {"InsertRevocation", "UpsertInstalled"},
     {"InsertTarget", "DeleteTarget"},
     {"InsertSecret", "UpdateSecret", "DeleteSecret", "InsertAuditRows"},
     {"InsertWebhook", "DeleteWebhook", "InsertCertLog"},
     {"UpsertGrant", "DeleteGrant", "DeleteGrantsOfResource"}}

\* No step and no read depends on which call was made last, so states that
\* differ in it alone are explored once; steps to all of them are checked.
Explored == <<db, answer, clock, calls, focus>>
============================================================================
