------------------------------- MODULE Tenant -------------------------------
(***************************************************************************)
(* One tenant's authority: the certificate authorities of its trust domains *)
(* (internal/ca), its issuers (internal/issue/issuers.go), the grants on    *)
(* issuers and certificates (internal/authz), issuing and revoking          *)
(* (internal/issue) and the revocation list (internal/revoke), over the     *)
(* tables of internal/store.                                                *)
(*                                                                          *)
(* A call runs as one step per database transaction, so calls of several    *)
(* callers interleave between a read and the write decided on it.  Within a *)
(* PostgreSQL transaction a statement that fails makes every later one fail *)
(* and the commit a rollback.                                               *)
(***************************************************************************)
EXTENDS Integers, Sequences, FiniteSets

CONSTANTS
    Admins,         \* tenant administrators, who hold owner implicitly
    Users,          \* the other callers
    RolesOf,        \* roles of each caller
    Domains,        \* trust domains
    IssuerInputs,   \* bodies of POST and PUT /issuers
    GrantInputs,    \* [subj, rel, exp] bodies of POST /permissions
    MaxCalls, MaxTime,   \* bounds
    Seeds,          \* tables earlier calls may have left
    CRLPage,        \* the 1000 of revoke.CRL
    BadSerials,     \* serials, of imported rows, that are no decimal number
    None

ASSUME TenantAssumption == {MaxCalls, MaxTime} \subseteq Nat /\ CRLPage \in Nat \ {0}

Callers == Admins \cup Users

VARIABLES
    cas,      \* cas: trust domain of each row; the row's index is its id
    issuers,  \* issuers: row of each id, None once deleted
    certs,    \* issued_certificates: row of each id, None once deleted
    grants,   \* grants: [res, subj, rel, exp, src]; src is the permissions the
              \* granter held when Grant resolved them (history)
    revs,     \* revocations: [cert, serial, at]
    clock,
    calls,    \* what each caller's request is doing, see the pc values below
    started,  \* calls begun (bound)
    crl,      \* the last list CRL signed: [start, base, entries]
    secrets,  \* tenant_secrets: row of each id, None once deleted
    doc       \* the last document Export returned, None before

tables == <<cas, issuers, certs, grants, revs>>
rest == <<clock, crl, secrets, doc>>
vars == <<tables, rest, calls, started>>

-----------------------------------------------------------------------------
(* Sealed settings: a map from field to value; "marker" is what clients see *)
(* in place of a credential.                                                *)

secretFields == {"token"}    \* issuerSecretFields

Public(s) == [f \in DOMAIN s \ secretFields |-> s[f]]

\* the present, non-empty credential fields
onlyFields(s) == [f \in {g \in DOMAIN s \cap secretFields : s[g] # ""} |-> s[f]]

Overlay(s, t) == [f \in DOMAIN s \cup DOMAIN t |-> IF f \in DOMAIN t THEN t[f] ELSE s[f]]

\* marker or omitted keeps the stored value, "" clears it
Merge(stored, in, fields) ==
    LET kept == {f \in fields : f \notin DOMAIN in \/ in[f] = "marker"}
        gone == {f \in fields \ kept : in[f] = ""}
    IN  [f \in ((DOMAIN in \ kept) \ gone) \cup (kept \cap DOMAIN stored) |->
            IF f \in kept THEN stored[f] ELSE in[f]]

-----------------------------------------------------------------------------
(* Relations and permissions.                                               *)

Of(rel) ==
    CASE rel = "owner"  -> {"read", "write", "delete", "share", "use"}
      [] rel = "editor" -> {"read", "write", "use"}
      [] rel = "sharer" -> {"read", "share", "use"}
      [] rel = "viewer" -> {"read"}

rank_SharerFirst(rel) ==
    CASE rel = "owner" -> 4 [] rel = "sharer" -> 3 [] rel = "editor" -> 2 [] rel = "viewer" -> 1 [] OTHER -> 0

rank(rel) ==
    CASE rel = "owner" -> 4 [] rel = "editor" -> 3 [] rel = "sharer" -> 2 [] rel = "viewer" -> 1 [] OTHER -> 0

Relations == {"owner", "editor", "sharer", "viewer"}

matches(g, c) == /\ g.exp = None \/ g.exp > clock
                 /\ g.subj \in {c, "tenant"} \cup RolesOf[c]

\* decide: the relations that apply, administrators holding owner implicitly
Held(c, res) ==
    {g.rel : g \in {h \in grants : h.res = res /\ matches(h, c)}} \cup (IF c \in Admins THEN {"owner"} ELSE {})

Perms(c, res) == UNION {Of(r) : r \in Held(c, res)}

Strongest(c, res) ==
    IF Held(c, res) = {} THEN "" ELSE CHOOSE r \in Held(c, res) : \A q \in Held(c, res) : rank(q) <= rank(r)

IssuerRes(i) == <<"issuer", i>>
CertRes(k)   == <<"certificate", k>>

Live(tbl) == {i \in DOMAIN tbl : tbl[i] # None}

locate(res) == res[2] \in IF res[1] = "issuer" THEN Live(issuers) ELSE Live(certs)

Check(c, res, perm) == locate(res) /\ perm \in Perms(c, res)

UpsertGrant(gs, g) == {h \in gs : h.res # g.res \/ h.subj # g.subj} \cup {g}

GrantOwner(gs, res, c) ==
    UpsertGrant(gs, [res |-> res, subj |-> c, rel |-> "owner", exp |-> None, src |-> Of("owner")])

DropResource(gs, res) == {g \in gs : g.res # res}

-----------------------------------------------------------------------------
(* Calls.                                                                   *)

Goto(c, rec) == calls' = [calls EXCEPT ![c] = rec]

\* the call answers: with its result, a refusal or an error it reports
Return(c) == Goto(c, [pc |-> "idle", aborted |-> None])

\* it fails because the code goes on after a conflict in a transaction that
\* the conflict has aborted
Abort(c, op) == Goto(c, [pc |-> "idle", aborted |-> op])

Begin(c) == calls[c].pc = "idle" /\ started < MaxCalls /\ started' = started + 1

At(c, pc) == calls[c].pc = pc /\ UNCHANGED started

-----------------------------------------------------------------------------
(* Certificate authorities.                                                 *)

\* the active CA of a trust domain: no code retires or deletes one
CAByState(d) == IF \E k \in DOMAIN cas : cas[k] = d
                THEN CHOOSE k \in DOMAIN cas : cas[k] = d /\ \A m \in DOMAIN cas : cas[m] = d => m <= k
                ELSE None

\* EnsureCA as a call: then is what the caller does with the CA, None for
\* SignLeaf, which signs without writing a row
EnsureCA(d, then) == [pc |-> "ca", d |-> d, then |-> then]

Ensured(c, k) ==
    IF calls[c].then = None THEN Return(c) ELSE Goto(c, [calls[c].then EXCEPT !.row.ca = k])

\* the read before the transaction
ReadCA(c) ==
    /\ At(c, "ca")
    /\ IF CAByState(calls[c].d) # None THEN Ensured(c, CAByState(calls[c].d))
       ELSE Goto(c, [calls[c] EXCEPT !.pc = "ca.tx"])
    /\ UNCHANGED <<tables, rest>>

\* the read inside it, then the key and certificate are generated
RereadCA(c) ==
    /\ At(c, "ca.tx")
    /\ IF CAByState(calls[c].d) # None THEN Ensured(c, CAByState(calls[c].d))
       ELSE Goto(c, [calls[c] EXCEPT !.pc = "ca.insert"])
    /\ UNCHANGED <<tables, rest>>

InsertCA_NoIndex(c) ==
    LET d == calls[c].d
    IN  /\ At(c, "ca.insert")
        /\ cas' = Append(cas, d)
        /\ Ensured(c, Len(cas'))
        /\ UNCHANGED <<issuers, certs, grants, revs, rest>>

\* The unique index on active CAs refuses the second insert.  EnsureCA then
\* reads again in the same transaction, which the refusal has aborted.
InsertCA(c) ==
    LET d == calls[c].d
    IN  /\ At(c, "ca.insert")
        /\ IF CAByState(d) = None
           THEN cas' = Append(cas, d) /\ Ensured(c, Len(cas'))
           ELSE UNCHANGED cas /\ Abort(c, "EnsureCA")
        /\ UNCHANGED <<issuers, certs, grants, revs, rest>>

SignLeaf(c, d) ==
    /\ Begin(c)
    /\ Goto(c, EnsureCA(d, None))
    /\ UNCHANGED <<tables, rest>>

-----------------------------------------------------------------------------
(* Issuers.                                                                 *)

validate(in) == in.type = "acme" \/ in.domain # "*"

ensureACMEAccountKey(in) ==
    IF in.type = "acme" /\ ("token" \notin DOMAIN in.set \/ in.set["token"] = "")
    THEN Overlay(in.set, [token |-> "generated"]) ELSE in.set

\* ad is the id the settings are sealed under, by who wrote the row last, moved
\* whether an import has given the row another trust domain (history)
IssuerRow(id, in, set, ca, by) ==
    [name |-> in.name, type |-> in.type, domain |-> in.domain, default |-> in.default,
     set |-> set, ad |-> id, ca |-> ca, by |-> by, moved |-> FALSE]

DefaultOf(tbl, d) == {i \in Live(tbl) : tbl[i].domain = d /\ tbl[i].default}

\* the unique indexes on (tenant, lower(name)) and (tenant, trust_domain)
\* where is_default, for a write of row under id
IssuerConflict(tbl, id, row) ==
    \E i \in Live(tbl) \ {id} : \/ tbl[i].name = row.name
                                \/ row.default /\ i \in DefaultOf(tbl, row.domain)

ClearDefaultIssuer(tbl, ids) == [i \in DOMAIN tbl |-> IF i \in ids THEN [tbl[i] EXCEPT !.default = FALSE] ELSE tbl[i]]

\* Rows another transaction has updated and not committed, and rows it will have
\* written when it commits.  A statement waits for the former, and for the
\* latter when the unique indexes admit one of the two.
LockedBy(c) == IF calls[c].pc \in {"create", "update", "import.rest"} THEN calls[c].cleared ELSE {}
Locked(c, i) == \E o \in Callers \ {c} : i \in LockedBy(o)

Pending(c) == IF calls[c].pc = "import.rest" THEN calls[c].written ELSE {}
Awaits(c, row) ==
    \E o \in Callers \ {c} : \E p \in Pending(o) :
        p.name = row.name \/ (p.default /\ row.default /\ p.domain = row.domain)

CreateIssuer(c, in) ==
    LET row  == IssuerRow(0, in, ensureACMEAccountKey(in), None, "api")
        next == [pc |-> "create.tx", row |-> row, cleared |-> {}]
    IN  /\ Begin(c)
        /\ CASE ~validate(in)             -> Return(c)
             [] in.type = "self_signed"   -> Goto(c, EnsureCA(in.domain, next))
             [] OTHER                     -> Goto(c, next)
        /\ UNCHANGED <<tables, rest>>

\* First statement of the transactions of CreateIssuer and UpdateIssuer: the
\* defaults of the domain are cleared once no other transaction holds them.
ClearDefault(c) ==
    LET row == calls[c].row
        ids == IF row.default /\ (calls[c].pc = "create.tx" \/ ~calls[c].was)
               THEN DefaultOf(issuers, row.domain) \ {row.ad} ELSE {}
    IN  /\ calls[c].pc \in {"create.tx", "update.tx"}
        /\ \A i \in ids : ~Locked(c, i)
        /\ Goto(c, [calls[c] EXCEPT !.pc = IF @ = "create.tx" THEN "create" ELSE "update", !.cleared = ids])
        /\ UNCHANGED <<tables, rest, started>>

InsertIssuer_NoRollback(c) ==
    LET id  == Len(issuers) + 1
        tbl == ClearDefaultIssuer(issuers, calls[c].cleared)
        row == [calls[c].row EXCEPT !.ad = id]
    IN  /\ At(c, "create")
        /\ ~Awaits(c, row)
        /\ IF IssuerConflict(tbl, id, row)
           THEN Return(c) /\ issuers' = tbl /\ UNCHANGED grants
           ELSE /\ issuers' = Append(tbl, row)
                /\ grants' = GrantOwner(grants, IssuerRes(id), c)
                /\ Return(c)
        /\ UNCHANGED <<cas, certs, revs, rest>>

\* InsertIssuer, GrantOwner and the commit; a conflict rolls the clearing back
InsertIssuer(c) ==
    LET id  == Len(issuers) + 1
        tbl == ClearDefaultIssuer(issuers, calls[c].cleared)
        row == [calls[c].row EXCEPT !.ad = id]
    IN  /\ At(c, "create")
        /\ ~Awaits(c, row)
        /\ IF IssuerConflict(tbl, id, row)
           THEN Return(c) /\ UNCHANGED <<issuers, grants>>
           ELSE /\ issuers' = Append(tbl, row)
                /\ grants' = GrantOwner(grants, IssuerRes(id), c)
                /\ Return(c)
        /\ UNCHANGED <<cas, certs, revs, rest>>

\* Check, read and merge; type and trust domain stay those of the row read
UpdateIssuer(c, i, in) ==
    LET old == issuers[i]
        row == [old EXCEPT !.name = in.name, !.default = in.default, !.by = "api",
                           !.set = Merge(old.set, in.set, secretFields)]
    IN  /\ Begin(c)
        /\ IF ~Check(c, IssuerRes(i), "write") \/ in.type # old.type
           THEN Return(c)
           ELSE Goto(c, [pc |-> "update.tx", row |-> row, was |-> old.default, cleared |-> {}])
        /\ UNCHANGED <<tables, rest>>

\* the whole row is written
WriteIssuer(c) ==
    LET row == calls[c].row
        tbl == ClearDefaultIssuer(issuers, calls[c].cleared)
    IN  /\ At(c, "update")
        /\ ~Locked(c, row.ad) /\ ~Awaits(c, row)
        /\ IF issuers[row.ad] = None \/ IssuerConflict(tbl, row.ad, row)
           THEN Return(c) /\ UNCHANGED issuers
           ELSE Return(c) /\ issuers' = [tbl EXCEPT ![row.ad] = row]
        /\ UNCHANGED <<cas, certs, grants, revs, rest>>

CertificateCount(i) == Cardinality({k \in Live(certs) : certs[k].issuer = i})

DeleteIssuer(c, i) ==
    /\ Begin(c)
    /\ IF ~Check(c, IssuerRes(i), "delete") \/ CertificateCount(i) > 0
       THEN Return(c)
       ELSE Goto(c, [pc |-> "delete", id |-> i])
    /\ UNCHANGED <<tables, rest>>

DropIssuer_NoRestrict(c) ==
    LET i == calls[c].id
    IN  /\ At(c, "delete")
        /\ ~Locked(c, i)
        /\ issuers' = [issuers EXCEPT ![i] = None]
        /\ grants' = DropResource(grants, IssuerRes(i))
        /\ Return(c)
        /\ UNCHANGED <<cas, certs, revs, rest>>

\* the foreign key of issued_certificates refuses, else row and grants go
DropIssuer(c) ==
    LET i == calls[c].id
    IN  /\ At(c, "delete")
        /\ ~Locked(c, i)
        /\ IF issuers[i] = None \/ CertificateCount(i) > 0
           THEN Return(c) /\ UNCHANGED <<issuers, grants>>
           ELSE /\ issuers' = [issuers EXCEPT ![i] = None]
                /\ grants' = DropResource(grants, IssuerRes(i))
                /\ Return(c)
        /\ UNCHANGED <<cas, certs, revs, rest>>

-----------------------------------------------------------------------------
(* Issuing, revoking, the revocation list.                                  *)

\* the issuer given, or the default of the trust domain
resolveIssuer(d, i) ==
    IF i # None THEN {j \in Live(issuers) : j = i /\ issuers[j].domain = d} ELSE DefaultOf(issuers, d)

canSign(row) == row.type = "self_signed" /\ row.ca # None

Issue(c, d, i) ==
    /\ Begin(c)
    /\ IF \E j \in resolveIssuer(d, i) : Check(c, IssuerRes(j), "use") /\ canSign(issuers[j])
       THEN LET j == CHOOSE j \in resolveIssuer(d, i) : TRUE
            IN  Goto(c, [pc |-> "issue", id |-> j, d |-> d, ca |-> issuers[j].ca])
       ELSE Return(c)
    /\ UNCHANGED <<tables, rest>>

\* mint's transaction; the foreign key refuses an issuer deleted meanwhile
InsertCertificate(c) ==
    LET k == Len(certs) + 1
    IN  /\ At(c, "issue")
        /\ IF issuers[calls[c].id] = None
           THEN Return(c) /\ UNCHANGED <<certs, grants>>
           ELSE /\ certs' = Append(certs, [issuer |-> calls[c].id, serial |-> k, domain |-> calls[c].d,
                                           ca |-> calls[c].ca, status |-> "active"])
                /\ grants' = GrantOwner(grants, CertRes(k), c)
                /\ Return(c)
        /\ UNCHANGED <<cas, issuers, revs, rest>>

\* the revocation is stamped before its transaction
RevokeCertificate(c, k) ==
    /\ Begin(c)
    /\ IF Check(c, CertRes(k), "delete")
       THEN Goto(c, [pc |-> "revoke", id |-> k, serial |-> certs[k].serial, at |-> clock])
       ELSE Return(c)
    /\ UNCHANGED <<tables, rest>>

\* A certificate deleted meanwhile is not found, and the unique index on
\* (tenant, certificate) refuses a second revocation.
InsertRevocation(c) ==
    LET k == calls[c].id
    IN  /\ At(c, "revoke")
        /\ IF certs[k] = None \/ \E r \in revs : r.cert = k
           THEN Return(c) /\ UNCHANGED <<certs, revs>>
           ELSE /\ certs' = [certs EXCEPT ![k].status = "revoked"]
                /\ revs' = revs \cup {[cert |-> k, serial |-> calls[c].serial, at |-> calls[c].at]}
                /\ Return(c)
        /\ UNCHANGED <<cas, issuers, grants, rest>>

DeleteCertificate(c, k) ==
    /\ Begin(c)
    /\ IF Check(c, CertRes(k), "delete") THEN Goto(c, [pc |-> "delete.cert", id |-> k]) ELSE Return(c)
    /\ UNCHANGED <<tables, rest>>

\* the row and its grants go; nothing removes its revocation
DropCertificate(c) ==
    LET k == calls[c].id
    IN  /\ At(c, "delete.cert")
        /\ certs' = [certs EXCEPT ![k] = None]
        /\ grants' = IF certs[k] = None THEN grants ELSE DropResource(grants, CertRes(k))
        /\ Return(c)
        /\ UNCHANGED <<cas, issuers, revs, rest>>

ListRevocations_Inclusive(cursor, limit) ==
    LET older == {r \in revs : r.at <= cursor}
    IN  {P \in SUBSET older : /\ Cardinality(P) = IF Cardinality(older) < limit THEN Cardinality(older) ELSE limit
                              /\ \A p \in P, q \in older \ P : q.at <= p.at}

\* Pages ListRevocations may return: newest first, strictly before the cursor,
\* rows of one instant in any order.
ListRevocations(cursor, limit) ==
    LET older == {r \in revs : r.at < cursor}
    IN  {P \in SUBSET older : /\ Cardinality(P) = IF Cardinality(older) < limit THEN Cardinality(older) ELSE limit
                              /\ \A p \in P, q \in older \ P : q.at <= p.at}

CRL(c, d) ==
    /\ Begin(c)
    /\ IF CAByState(d) = None THEN Return(c)
       ELSE Goto(c, [pc |-> "crl", start |-> clock, base |-> revs, cursor |-> clock, entries |-> {}])
    /\ UNCHANGED <<tables, rest>>

Signed(start, base, entries) == [start |-> start, base |-> base, entries |-> entries]

LastPage_OrFull(P) == Cardinality(P) <= CRLPage

LastPage(P) == Cardinality(P) < CRLPage

\* the rows whose serial is a number: the others are no entries
Parsed(P) == {p \in P : p.serial \notin BadSerials}

\* the last row that became an entry; without one the cursor stays
NextCursor(cursor, P) ==
    IF Parsed(P) = {} THEN cursor ELSE (CHOOSE p \in Parsed(P) : \A q \in Parsed(P) : p.at <= q.at).at

CRLPageRead(c) ==
    LET call == calls[c]
    IN  /\ At(c, "crl")
        /\ \E P \in ListRevocations(call.cursor, CRLPage) :
             LET all == call.entries \cup Parsed(P)
             IN  IF LastPage(P)
                 THEN Return(c) /\ crl' = Signed(call.start, call.base, all)
                 ELSE Goto(c, [call EXCEPT !.entries = all, !.cursor = NextCursor(@, P)]) /\ UNCHANGED crl
        /\ UNCHANGED <<tables, clock, secrets, doc>>

-----------------------------------------------------------------------------
(* Grants.                                                                  *)

Grant(c, res, in) ==
    /\ Begin(c)
    /\ IF /\ in.exp = None \/ in.exp > clock
          /\ Check(c, res, "share")
          /\ rank(in.rel) <= rank(Strongest(c, res))
       THEN Goto(c, [pc |-> "grant", g |-> [res |-> res, subj |-> in.subj, rel |-> in.rel, exp |-> in.exp,
                                            src |-> Perms(c, res)]])
       ELSE Return(c)
    /\ UNCHANGED <<tables, rest>>

WriteGrant(c) ==
    /\ At(c, "grant")
    /\ grants' = UpsertGrant(grants, calls[c].g)
    /\ Return(c)
    /\ UNCHANGED <<cas, issuers, certs, revs, rest>>

RevokeGrant(c, g) ==
    /\ Begin(c)
    /\ IF Check(c, g.res, "share") THEN Goto(c, [pc |-> "ungrant", g |-> g]) ELSE Return(c)
    /\ UNCHANGED <<tables, rest>>

\* deletes by the row's id, which an upsert of the pair keeps
DeleteGrant(c) ==
    LET same == {g \in grants : g.res = calls[c].g.res /\ g.subj = calls[c].g.subj}
    IN  /\ At(c, "ungrant")
        /\ grants' = grants \ same
        /\ Return(c)
        /\ UNCHANGED <<cas, issuers, certs, revs, rest>>

Tick ==
    /\ clock < MaxTime
    /\ clock' = clock + 1
    /\ UNCHANGED <<tables, calls, started, crl, secrets, doc>>

-----------------------------------------------------------------------------

Empty == [cas |-> <<>>, issuers |-> <<>>, certs |-> <<>>, grants |-> {}, revs |-> {}]

TenantInit ==
    /\ \E s \in Seeds \cup {Empty} :
         cas = s.cas /\ issuers = s.issuers /\ certs = s.certs /\ grants = s.grants /\ revs = s.revs
    /\ clock = 1 /\ started = 0
    /\ calls = [c \in Callers |-> [pc |-> "idle", aborted |-> None]]
    /\ crl = Signed(0, {}, {}) /\ secrets = <<>> /\ doc = None

TenantRequest(c) ==
    \/ \E d \in Domains : SignLeaf(c, d) \/ CRL(c, d)
    \/ \E in \in IssuerInputs : CreateIssuer(c, in) \/ \E i \in Live(issuers) : UpdateIssuer(c, i, in)
    \/ \E i \in Live(issuers) : DeleteIssuer(c, i)
    \/ \E d \in Domains, i \in Live(issuers) \cup {None} : Issue(c, d, i)
    \/ \E k \in Live(certs) : RevokeCertificate(c, k) \/ DeleteCertificate(c, k)
    \/ \E res \in {g.res : g \in grants}, in \in GrantInputs : Grant(c, res, in)
    \/ \E g \in grants : RevokeGrant(c, g)

TenantStep(c) ==
    \/ ReadCA(c) \/ RereadCA(c) \/ InsertCA(c)
    \/ ClearDefault(c) \/ InsertIssuer(c) \/ WriteIssuer(c) \/ DropIssuer(c)
    \/ InsertCertificate(c) \/ InsertRevocation(c) \/ DropCertificate(c) \/ CRLPageRead(c)
    \/ WriteGrant(c) \/ DeleteGrant(c)

=============================================================================
