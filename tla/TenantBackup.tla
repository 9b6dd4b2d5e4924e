---------------------------- MODULE TenantBackup ----------------------------
(***************************************************************************)
(* Tenant secrets (internal/secrets) and the export and import of a tenant  *)
(* (internal/transfer), beside the calls of Tenant.  Export reads the       *)
(* tables one after the other; Import is one read committed transaction,    *)
(* whose reads come before the writes decided on them.                      *)
(***************************************************************************)
EXTENDS Tenant, SequencesExt

CONSTANTS
    SecretInputs,   \* [name, val] bodies of POST and PUT /secrets
    Backups         \* documents of other tenants an administrator may import

-----------------------------------------------------------------------------
(* Secrets.                                                                 *)

SecretConflict(tbl, id, name) == \E j \in Live(tbl) \ {id} : tbl[j].name = name

SecretRow(id, name, val) == [name |-> name, val |-> val, ad |-> id]

CreateSecret(c, in) ==
    /\ Begin(c)
    /\ IF DOMAIN in.val = {} \/ SecretConflict(secrets, 0, in.name)
       THEN Return(c) ELSE Goto(c, [pc |-> "secret.new", in |-> in])
    /\ UNCHANGED <<tables, rest>>

InsertSecret(c) ==
    LET in == calls[c].in
        id == Len(secrets) + 1
    IN  /\ At(c, "secret.new")
        /\ IF SecretConflict(secrets, id, in.name)
           THEN Return(c) /\ UNCHANGED secrets
           ELSE Return(c) /\ secrets' = Append(secrets, SecretRow(id, in.name, in.val))
        /\ UNCHANGED <<tables, clock, crl, doc>>

keysUnion(a, b) == DOMAIN a \cup DOMAIN b

UpdateSecret(c, j, in) ==
    LET val == Merge(secrets[j].val, in.val, keysUnion(secrets[j].val, in.val))
    IN  /\ Begin(c)
        /\ IF DOMAIN val = {} THEN Return(c)
           ELSE Goto(c, [pc |-> "secret.write", row |-> SecretRow(j, in.name, val)])
        /\ UNCHANGED <<tables, rest>>

\* the name written is the one read
RotateSecret(c, j, in) ==
    /\ Begin(c)
    /\ IF DOMAIN in.val = {} THEN Return(c)
       ELSE Goto(c, [pc |-> "secret.write", row |-> SecretRow(j, secrets[j].name, in.val)])
    /\ UNCHANGED <<tables, rest>>

WriteSecret(c) ==
    LET row == calls[c].row
    IN  /\ At(c, "secret.write")
        /\ IF secrets[row.ad] = None \/ SecretConflict(secrets, row.ad, row.name)
           THEN Return(c) /\ UNCHANGED secrets
           ELSE Return(c) /\ secrets' = [secrets EXCEPT ![row.ad] = row]
        /\ UNCHANGED <<tables, clock, crl, doc>>

\* nothing in the schema refers to a secret, so the store never refuses
DeleteSecret(c, j) ==
    /\ Begin(c)
    /\ secrets' = [secrets EXCEPT ![j] = None]
    /\ Return(c)
    /\ UNCHANGED <<tables, clock, crl, doc>>

-----------------------------------------------------------------------------
(* Export.  A document names an issuer by its name and a certificate by its *)
(* serial.                                                                  *)

issuerItem(i, creds) ==
    [name |-> issuers[i].name, type |-> issuers[i].type, domain |-> issuers[i].domain,
     default |-> issuers[i].default, set |-> Public(issuers[i].set),
     creds |-> IF creds THEN onlyFields(issuers[i].set) ELSE <<>>]

\* "" when the issuer came after the issuers were read
certItem(k, names) ==
    [serial |-> certs[k].serial, domain |-> certs[k].domain, status |-> certs[k].status,
     issuer |-> IF certs[k].issuer \in DOMAIN names THEN names[certs[k].issuer] ELSE ""]

permissionOf(g, names, serials) ==
    [type |-> g.res[1], subj |-> g.subj, rel |-> g.rel, exp |-> g.exp,
     ref |-> IF g.res[1] = "issuer" THEN names[g.res[2]] ELSE serials[g.res[2]]]

exportedPermissions(names, serials) ==
    {permissionOf(g, names, serials) :
        g \in {h \in grants : h.res \in {IssuerRes(i) : i \in DOMAIN names} \cup {CertRes(k) : k \in DOMAIN serials}}}

secretItem(j) == [name |-> secrets[j].name, val |-> secrets[j].val]

\* the rows of a table in one order
Listed(tbl) == SelectSeq([i \in DOMAIN tbl |-> i], LAMBDA i : tbl[i] # None)

issuerItems(creds) == [n \in DOMAIN Listed(issuers) |-> issuerItem(Listed(issuers)[n], creds)]
certItems(names) == [n \in DOMAIN Listed(certs) |-> certItem(Listed(certs)[n], names)]
secretItems == [n \in DOMAIN Listed(secrets) |-> secretItem(Listed(secrets)[n])]

issuerNameByID == [i \in Live(issuers) |-> issuers[i].name]
certSerialByID == [k \in Live(certs) |-> certs[k].serial]

Document(items, certs_, perms, secrets_) ==
    [issuers |-> items, certs |-> certs_, perms |-> perms, secrets |-> secrets_]

\* the issuers are read
Export(c, creds) ==
    /\ Begin(c)
    /\ Goto(c, [pc |-> "export", creds |-> creds, names |-> issuerNameByID, items |-> issuerItems(creds)])
    /\ UNCHANGED <<tables, rest>>

\* then the certificates, whose issuer names come from the first read
ExportCertificates(c) ==
    /\ At(c, "export")
    /\ Goto(c, [pc |-> "export.rest", creds |-> calls[c].creds, names |-> calls[c].names, items |-> calls[c].items,
                serials |-> certSerialByID, certs |-> certItems(calls[c].names)])
    /\ UNCHANGED <<tables, rest>>

\* then the grants of both and, with credentials, the secrets
ExportRest(c) ==
    LET call == calls[c]
    IN  /\ At(c, "export.rest")
        /\ doc' = Document(call.items, call.certs, exportedPermissions(call.names, call.serials),
                           IF call.creds THEN secretItems ELSE <<>>)
        /\ Return(c)
        /\ UNCHANGED <<tables, clock, crl, secrets>>

-----------------------------------------------------------------------------
(* Import.  A fold over the items gives the tables its writes leave; seen is *)
(* what it read before, and fail whether a statement was refused: reported,  *)
(* or met by code that goes on in the transaction the refusal has aborted.   *)

Loaded(seen) ==
    [issuers |-> issuers, certs |-> certs, grants |-> grants, secrets |-> secrets, seen |-> seen, fail |-> "no"]

idByName(tbl) == [n \in {tbl[i].name : i \in Live(tbl)} |-> CHOOSE i \in Live(tbl) : tbl[i].name = n]
idBySerial(tbl) == [n \in {tbl[k].serial : k \in Live(tbl)} |-> CHOOSE k \in Live(tbl) : tbl[k].serial = n]

sealIssuer(settings, creds) == Overlay(settings, creds)

Overwritten_DropsCredential(row, item) ==
    [row EXCEPT !.type = item.type, !.domain = item.domain, !.default = item.default, !.by = "import",
                !.moved = @ \/ row.domain # item.domain,
                !.set = sealIssuer(item.set, item.creds)]

\* an overwrite without credentials keeps the stored ones
Overwritten(row, item) ==
    [row EXCEPT !.type = item.type, !.domain = item.domain, !.default = item.default, !.by = "import",
                !.moved = @ \/ row.domain # item.domain,
                !.set = sealIssuer(item.set, IF DOMAIN item.creds = {} THEN onlyFields(row.set) ELSE item.creds)]

Imported_NotResealed(id, item) == IssuerRow(0, item, sealIssuer(item.set, item.creds), None, "import")

\* a new row, sealed under its own id, without a CA
Imported(id, item) == IssuerRow(id, item, sealIssuer(item.set, item.creds), None, "import")

Refused(found) == IF found THEN "reported" ELSE "aborted"

\* An existing issuer is overwritten from the row read.  An insert that meets a
\* conflict is counted as skipped, but the transaction has failed with it.
importIssuer(t, item, mode) ==
    LET found == item.name \in DOMAIN t.seen.names
        id    == IF found THEN t.seen.names[item.name] ELSE Len(t.issuers) + 1
        row   == IF found THEN Overwritten(t.seen.rows[id], item) ELSE Imported(id, item)
    IN  CASE t.fail # "no" \/ (found /\ mode = "skip") -> t
          [] found /\ t.issuers[id] = None             -> [t EXCEPT !.fail = "reported"]
          [] IssuerConflict(t.issuers, id, row)        -> [t EXCEPT !.fail = Refused(found)]
          [] OTHER -> [t EXCEPT !.issuers = IF found THEN [@ EXCEPT ![id] = row] ELSE Append(@, row),
                                !.seen.names = (item.name :> id) @@ @, !.seen.rows = (id :> row) @@ @]

importIssuers(t, items, mode) == FoldLeft(LAMBDA s, item : importIssuer(s, item, mode), t, items)

importedCert(t, item) ==
    [issuer |-> t.seen.names[item.issuer], serial |-> item.serial, domain |-> item.domain, ca |-> None,
     status |-> item.status]

importCertificate_NoMatch(t, item, mode) ==
    IF item.issuer \notin DOMAIN t.seen.names THEN t
    ELSE [t EXCEPT !.certs = Append(@, importedCert(t, item))]

\* Certificates of an issuer that is not there are skipped, a revocation is
\* never written.  The foreign key and the unique index on serials refuse an
\* insert for an issuer deleted or a certificate inserted meanwhile.
importCertificate(t, item, mode) ==
    LET found == item.serial \in DOMAIN t.seen.serials
        k     == IF found THEN t.seen.serials[item.serial] ELSE Len(t.certs) + 1
        row   == importedCert(t, item)
    IN  CASE t.fail # "no" \/ item.issuer \notin DOMAIN t.seen.names \/ (found /\ mode = "skip") -> t
          [] found /\ t.certs[k] = None -> [t EXCEPT !.fail = "reported"]
          [] found                      -> [t EXCEPT !.certs[k].status = item.status]
          [] t.issuers[row.issuer] = None \/ item.serial \in DOMAIN idBySerial(t.certs) -> [t EXCEPT !.fail = "aborted"]
          [] OTHER -> [t EXCEPT !.certs = Append(@, row), !.seen.serials = (item.serial :> k) @@ @]

importCertificates(t, items, mode) ==
    FoldLeft(LAMBDA s, item : importCertificate(s, item, mode), t, items)

\* the resources a permission of the document refers to, deleted ones included
Referred(t, p) ==
    IF p.type = "issuer" THEN {IssuerRes(t.seen.names[n]) : n \in {p.ref} \cap DOMAIN t.seen.names}
    ELSE {CertRes(t.seen.serials[n]) : n \in {p.ref} \cap DOMAIN t.seen.serials}

\* grants are replaced in both modes
importGrants(t, perms) ==
    LET new == UNION {{[res |-> res, subj |-> p.subj, rel |-> p.rel, exp |-> p.exp, src |-> Of("owner")] :
                         res \in Referred(t, p)} : p \in perms}
    IN  [t EXCEPT !.grants = {g \in @ : \A n \in new : g.res # n.res \/ g.subj # n.subj} \cup new]

importSecret(t, item, mode) ==
    LET found == item.name \in DOMAIN t.seen.secrets
        id    == IF found THEN t.seen.secrets[item.name] ELSE Len(t.secrets) + 1
        row   == SecretRow(id, item.name, item.val)
    IN  CASE t.fail # "no" \/ (found /\ mode = "skip")      -> t
          [] found /\ t.secrets[id] = None                  -> [t EXCEPT !.fail = "reported"]
          [] SecretConflict(t.secrets, id, item.name)       -> [t EXCEPT !.fail = Refused(found)]
          [] OTHER -> [t EXCEPT !.secrets = IF found THEN [@ EXCEPT ![id] = row] ELSE Append(@, row),
                                !.seen.secrets = (item.name :> id) @@ @]

importSecrets(t, items, mode) == FoldLeft(LAMBDA s, item : importSecret(s, item, mode), t, items)

importRest(t, d, mode) ==
    importSecrets(importGrants(importCertificates(t, d.certs, mode), d.perms), d.secrets, mode)

\* Only administrators hold backup:manage.  The issuers are listed ...
Import(c, d, mode) ==
    /\ Begin(c)
    /\ c \in Admins
    /\ Goto(c, [pc |-> "import", d |-> d, mode |-> mode, names |-> idByName(issuers)])
    /\ UNCHANGED <<tables, rest>>

\* the issuers of the document that are there, for an overwrite
Met(call) ==
    IF call.mode = "skip" THEN {}
    ELSE {call.names[n] : n \in {item.name : item \in ToSet(call.d.issuers)} \cap DOMAIN call.names} \cap Live(issuers)

\* ... those the document overwrites are read ...
ImportRead(c) ==
    LET call == calls[c]
    IN  /\ At(c, "import")
        /\ Goto(c, [pc |-> "import.issuers", d |-> call.d, mode |-> call.mode, cleared |-> Met(call),
                    seen |-> [names |-> call.names, rows |-> [i \in Met(call) |-> issuers[i]],
                              serials |-> <<>>, secrets |-> <<>>]])
        /\ UNCHANGED <<tables, rest>>

\* the rows its issuer statements write
Writes(call) ==
    LET there(item) == item.name \in DOMAIN call.seen.names
    IN  {Imported(0, item) : item \in {x \in ToSet(call.d.issuers) : ~there(x)}}
        \cup {Overwritten(call.seen.rows[call.seen.names[item.name]], item) :
                item \in {x \in ToSet(call.d.issuers) : there(x) /\ call.seen.names[x.name] \in call.cleared}}

End(c, fail) == IF fail = "aborted" THEN Abort(c, "Import") ELSE Return(c)

\* ... and the issuers are written once no other transaction holds a row or
\* index entry they need; then the certificates and the secrets are read.  The
\* rows stay locked, and unseen by others, until the commit.
ImportIssuers(c) ==
    LET call    == calls[c]
        t       == importIssuers(Loaded(call.seen), call.d.issuers, call.mode)
        written == Writes(call)
        needed  == call.cleared \cup UNION {DefaultOf(issuers, row.domain) : row \in {w \in written : w.default}}
    IN  /\ At(c, "import.issuers")
        /\ \A i \in needed : ~Locked(c, i)
        /\ \A row \in written : ~Awaits(c, row)
        /\ IF t.fail # "no" THEN End(c, t.fail)
           ELSE Goto(c, [pc |-> "import.rest", d |-> call.d, mode |-> call.mode, cleared |-> call.cleared, written |-> written,
                         seen |-> [call.seen EXCEPT !.serials = idBySerial(certs), !.secrets = idByName(secrets)]])
        /\ UNCHANGED <<tables, rest>>

\* Certificates, grants and secrets are written and the transaction commits;
\* what it wrote to the issuers is still as it left it.
ImportRest(c) ==
    LET call == calls[c]
        t    == importRest(importIssuers(Loaded(call.seen), call.d.issuers, call.mode), call.d, call.mode)
    IN  /\ At(c, "import.rest")
        /\ IF t.fail # "no" THEN UNCHANGED <<issuers, certs, grants, secrets>>
           ELSE issuers' = t.issuers /\ certs' = t.certs /\ grants' = t.grants /\ secrets' = t.secrets
        /\ End(c, t.fail)
        /\ UNCHANGED <<cas, revs, clock, crl, doc>>

-----------------------------------------------------------------------------

Init == TenantInit

SecretRequest(c) ==
    \E in \in SecretInputs : \/ CreateSecret(c, in)
                             \/ \E j \in Live(secrets) : UpdateSecret(c, j, in) \/ RotateSecret(c, j, in) \/ DeleteSecret(c, j)

BackupRequest(c) ==
    \/ c \in Admins /\ \E creds \in BOOLEAN : Export(c, creds)
    \/ \E d \in (Backups \cup {doc}) \ {None}, mode \in {"skip", "overwrite"} : Import(c, d, mode)

Next ==
    \/ Tick
    \/ \E c \in Callers : \/ TenantRequest(c) \/ TenantStep(c)
                          \/ SecretRequest(c) \/ BackupRequest(c)
                          \/ InsertSecret(c) \/ WriteSecret(c) \/ ExportCertificates(c) \/ ExportRest(c)
                          \/ ImportRead(c) \/ ImportIssuers(c) \/ ImportRest(c)

Spec == Init /\ [][Next]_vars

-----------------------------------------------------------------------------
(* Properties.                                                              *)

\* The tables hold rows of the schema's shape and the references its foreign
\* keys declare resolve: a certificate's issuer and an issuer's CA.  Revocations
\* and grants declare none, and may outlive the row they are of.
TypeOK ==
    /\ cas \in Seq(Domains)
    /\ \A i \in Live(issuers) : /\ issuers[i].type \in {"self_signed", "acme"}
                                /\ issuers[i].ca \in DOMAIN cas \cup {None}
    /\ \A k \in Live(certs) : certs[k].issuer \in Live(issuers) /\ certs[k].status \in {"active", "revoked"}
    /\ \A g \in grants : g.rel \in Relations
    /\ \A r \in revs : r.cert \in DOMAIN certs /\ r.at <= clock
    /\ started <= MaxCalls

\* A self-signed issuer references the CA that EnsureCA, Bundle and CRL use for
\* its trust domain, whatever calls raced to generate that CA or to write the
\* row.  The exception is an issuer that an import moved to another trust
\* domain: overwriting it, Import keeps the CA it had.
IssuerSigns ==
    \A i \in Live(issuers) :
        issuers[i].type = "self_signed" /\ issuers[i].ca # None /\ ~issuers[i].moved
            => issuers[i].ca = CAByState(issuers[i].domain)

\* A trust domain that has a default issuer (resolveIssuer) keeps one unless a
\* call deletes that issuer, imports over it, or rewrites it as not default (or
\* in the trust domain it read before an import moved it): a refused
\* CreateIssuer or UpdateIssuer never costs the domain its default.
DefaultKept ==
    [][\A d \in Domains : \A i \in DefaultOf(issuers, d) :
          DefaultOf(issuers', d) = {} =>
              \/ issuers'[i] = None
              \/ issuers'[i].by = "import"
              \/ \E c \in Callers : calls[c].pc = "update" /\ calls[c].row.ad = i
                                   /\ ~(calls[c].row.default /\ calls[c].row.domain = d)]_vars

\* No grant confers a permission that whoever gave it did not hold when Grant
\* resolved them, although sharer and editor are not ordered by permissions.
NoAmplification == \A g \in grants : Of(g.rel) \subseteq g.src

\* The signed list holds every revocation recorded when CRL started and
\* stamped before, whose serial is a number, save one stamped at the instant of
\* an entry it holds (a page may end between them).
CRLComplete ==
    \A r \in Parsed(crl.base) : r.at < crl.start => \E e \in crl.entries : e = r \/ e.at = r.at

\* CRL comes to its end: time and again no call is reading pages, save one that
\* may meet a full page of serials that are no number, which leaves the cursor
\* where it was.
CRLEnds ==
    []<>(\A c \in Callers :
            \/ calls[c].pc # "crl"
            \/ \E P \in ListRevocations(calls[c].cursor, CRLPage) : ~LastPage(P) /\ Parsed(P) = {})

\* Every sealed value opens: it is sealed under the id of the row it is in,
\* also after Import wrote it under a new id.
SealedUnderOwnId ==
    /\ \A i \in Live(issuers) : issuers[i].ad = i
    /\ \A j \in Live(secrets) : secrets[j].ad = j

Content(t) ==
    [issuers |-> {[n |-> t.issuers[i].name, d |-> t.issuers[i].domain, f |-> t.issuers[i].default, ca |-> t.issuers[i].ca,
                   p |-> Public(t.issuers[i].set), s |-> onlyFields(t.issuers[i].set)] : i \in Live(t.issuers)},
     certs   |-> t.certs,
     grants  |-> {[r |-> g.res, s |-> g.subj, l |-> g.rel, e |-> g.exp] : g \in t.grants},
     secrets |-> t.secrets, fail |-> t.fail]

\* what Export returns when nothing changes while it reads
Exported(creds) ==
    Document(issuerItems(creds), certItems(issuerNameByID), exportedPermissions(issuerNameByID, certSerialByID),
             IF creds THEN secretItems ELSE <<>>)

\* an import no other call disturbs
Applied(t, d, mode) ==
    LET seen == [names |-> idByName(t.issuers), rows |-> t.issuers, serials |-> idBySerial(t.certs),
                 secrets |-> idByName(t.secrets)]
        a    == importIssuers([t EXCEPT !.seen = seen], d.issuers, mode)
    IN  importRest(a, d, mode)

AsStored == Loaded(<<>>)

\* Importing what an export of the present tables holds changes nothing, in
\* either mode and with or without credentials.
RoundTrip ==
    \A creds \in BOOLEAN, mode \in {"skip", "overwrite"} :
        Content(Applied(AsStored, Exported(creds), mode)) = Content(AsStored)

\* Importing a document again with skip changes nothing (SC-008).
SkipAgain ==
    \A d \in (Backups \cup {doc}) \ {None}, mode \in {"skip", "overwrite"} :
        LET t == Applied(AsStored, d, mode)
        IN  t.fail = "no" => Content(Applied(t, d, "skip")) = Content(t)

\* EnsureCA is documented to answer the loser of the race to generate a CA with
\* the winner: "on a unique-active-CA conflict re-reads and returns the winner".
LoserGetsWinner == \A c \in Callers : calls[c].pc = "idle" => calls[c].aborted # "EnsureCA"

=============================================================================
