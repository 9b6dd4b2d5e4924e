----------------------------- MODULE CertLifecycle -----------------------------
(***************************************************************************)
(* The life of an issued certificate: issue.Service (internal/issue), the  *)
(* import of a backup (internal/transfer) and the renewal schedulers       *)
(* (internal/renew) over issued_certificates and revocations               *)
(* (internal/store).                                                       *)
(*                                                                         *)
(* API calls and the goroutines of a renewal pass are processes over the   *)
(* same table.  A process reads a certificate in one transaction and       *)
(* writes in later ones, so its snapshot of the row may be stale:          *)
(* UpdateCertificate and an import write every mutable column back, and a  *)
(* renewal writes back the status it read.                                 *)
(*                                                                         *)
(* Time is abstracted to the three cases the code tells apart: the renewal *)
(* window is not open, it is open, the certificate has expired.  Left out: *)
(* authorization and grants, audit events, the certificate log, the        *)
(* content of certificates, and the ACME order behind a generic renewal.   *)
(***************************************************************************)
EXTENDS Naturals, FiniteSets

CONSTANTS
    Certs,      \* issued_certificates ids; bounds the number of mints
    Instances,  \* renewal schedulers
    Callers,    \* concurrent API calls
    Importers,  \* the callers that may import a backup
    None,
    Workers,    \* renew.Config.Workers
    MaxCalls,   \* bound on API calls
    MaxFaults   \* bound on failed steps and crashes

ASSUME ProcessAssumption == Instances \cap Callers = {} /\ Importers \subseteq Callers
ASSUME NoneAssumption == None \notin Certs /\ None \notin Instances \cup Callers
ASSUME BoundsAssumption ==
    Workers \in Nat \ {0} /\ MaxCalls \in Nat \ {0} /\ MaxFaults \in Nat

VARIABLES
    row,       \* the mutable columns of issued_certificates
    kind,      \* issued_certificates.kind
    phase,     \* where now is relative to the certificate's window and expiry
    revoked,   \* the certificates that have a row in revocations
    task,      \* what each process is doing to each certificate
    parent,    \* history: the certificate each one was minted to renew
    by,        \* history: the process that minted it
    unlinked,  \* history: certificates that lost the link to a successor
    imported,  \* history: certificates an import marked revoked
    rekeyed,   \* history: renewals whose stored key could not be opened
    calls,     \* history: API calls so far
    faults     \* history: failed steps and crashes so far

vars == <<row, kind, phase, revoked, task, parent, by, unlinked, imported, rekeyed,
          calls, faults>>

Procs == Instances \cup Callers
Kinds == {"svid", "generic"}
Phases == {"unborn", "fresh", "due", "expired"}
Stages == {"none", "due", "read", "minted", "update", "import", "deliver"}

\* The status column.  "active" stands for 'expiring' too, which every
\* statement treats alike; only an import writes 'expired'.
Stored == {"active", "expired", "revoked"}
Statuses == Stored \cup {"absent"}

\* key names the certificate the sealed private key was generated for.
Row == [status     : Statuses,
        superseded : Certs \cup {None},
        key        : Certs \cup {None},
        autoRenew  : BOOLEAN]

AbsentRow == [status |-> "absent", superseded |-> None, key |-> None,
              autoRenew |-> FALSE]

Task == [stage : Stages, row : Row, new : Certs \cup {None}]

NoTask == [stage |-> "none", row |-> AbsentRow, new |-> None]

\* One type invariant for the module: every column, snapshot and history
\* variable stays in its domain.
TypeOK ==
    /\ row \in [Certs -> Row]
    /\ kind \in [Certs -> Kinds]
    /\ phase \in [Certs -> Phases]
    /\ revoked \in SUBSET Certs
    /\ task \in [Procs -> [Certs -> Task]]
    /\ parent \in [Certs -> Certs \cup {None}]
    /\ by \in [Certs -> Procs \cup {None}]
    /\ unlinked \in SUBSET Certs
    /\ imported \in SUBSET Certs
    /\ rekeyed \in SUBSET Certs
    /\ calls \in Nat
    /\ faults \in Nat

Init ==
    /\ row = [c \in Certs |-> AbsentRow]
    /\ kind = [c \in Certs |-> "svid"]
    /\ phase = [c \in Certs |-> "unborn"]
    /\ revoked = {}
    /\ task = [p \in Procs |-> [c \in Certs |-> NoTask]]
    /\ parent = [c \in Certs |-> None]
    /\ by = [c \in Certs |-> None]
    /\ unlinked = {}
    /\ imported = {}
    /\ rekeyed = {}
    /\ calls = 0
    /\ faults = 0

Exists(c) == row[c].status # "absent"
Busy(p) == {c \in Certs : task[p][c].stage # "none"}
Renewing(p) == {c \in Certs : task[p][c].stage \in {"read", "minted"}}

\* A process starts a new API call when its last one is over.
StartCall(a) ==
    /\ Busy(a) = {}
    /\ calls < MaxCalls
    /\ calls' = calls + 1

Finish(p, c) == task' = [task EXCEPT ![p][c] = NoTask]

-------------------------------------------------------------------------------
(* API calls *)

\* The insert of mint, obtainACME and ImportACME: an active row, its key
\* sealed unless the caller brought a CSR (or imported no key).  SVIDs
\* auto-renew; a generic certificate as asked.  An SVID key that is to be
\* delivered is still sealed in the row until MarkKeyDelivered.
InsertCertificate(a, c, k, key, auto, deliver) ==
    /\ StartCall(a)
    /\ phase[c] = "unborn"
    /\ k = "svid" => auto
    /\ deliver => k = "svid" /\ key = c
    /\ row' = [row EXCEPT ![c] = [status |-> "active", superseded |-> None,
                                  key |-> key, autoRenew |-> auto]]
    /\ kind' = [kind EXCEPT ![c] = k]
    /\ phase' = [phase EXCEPT ![c] = "fresh"]
    /\ by' = [by EXCEPT ![c] = a]
    /\ task' = [task EXCEPT ![a][c] =
                  IF deliver THEN [NoTask EXCEPT !.stage = "deliver"] ELSE NoTask]
    /\ UNCHANGED <<revoked, parent, unlinked, imported, rekeyed, faults>>

\* The second write of mint: the delivered key is cleared, if the row is
\* still there.
MarkKeyDelivered(a, c) ==
    /\ task[a][c].stage = "deliver"
    /\ row' = IF Exists(c) THEN [row EXCEPT ![c].key = None] ELSE row
    /\ Finish(a, c)
    /\ UNCHANGED <<kind, phase, revoked, parent, by, unlinked, imported,
                   rekeyed, calls, faults>>

\* The read of UpdateCertificate.
ReadForUpdate(a, c) ==
    /\ StartCall(a)
    /\ Exists(c)
    /\ task' = [task EXCEPT ![a][c] =
                  [stage |-> "update", row |-> row[c], new |-> None]]
    /\ UNCHANGED <<row, kind, phase, revoked, parent, by, unlinked, imported,
                   rekeyed, faults>>

\* Its write: every mutable column of the snapshot, with auto_renew as asked.
UpdateCertificate(a, c, auto) ==
    LET snap == task[a][c].row IN
    /\ task[a][c].stage = "update"
    /\ row' = IF Exists(c)
              THEN [row EXCEPT ![c] = [snap EXCEPT !.autoRenew = auto]]
              ELSE row
    /\ unlinked' = IF Exists(c) /\ snap.superseded = None
                                /\ row[c].superseded # None
                   THEN unlinked \cup {c} ELSE unlinked
    /\ Finish(a, c)
    /\ UNCHANGED <<kind, phase, revoked, parent, by, imported, rekeyed, calls,
                   faults>>

\* Altered Revoke: the revocation row is not inserted.
Revoke_Unlisted(a, c) ==
    /\ StartCall(a)
    /\ Exists(c)
    /\ c \notin revoked
    /\ row' = [row EXCEPT ![c].status = "revoked"]
    /\ UNCHANGED <<kind, phase, revoked, task, parent, by, unlinked, imported,
                   rekeyed, faults>>

\* Revoke: one transaction marks the row and records the revocation; the
\* unique index on revocations rolls a second one back.
Revoke(a, c) ==
    /\ StartCall(a)
    /\ Exists(c)
    /\ c \notin revoked
    /\ row' = [row EXCEPT ![c].status = "revoked"]
    /\ revoked' = revoked \cup {c}
    /\ UNCHANGED <<kind, phase, task, parent, by, unlinked, imported, rekeyed,
                   faults>>

\* DeleteCertificate: the row goes, its revocation stays.
DeleteCertificate(a, c) ==
    /\ StartCall(a)
    /\ Exists(c)
    /\ row' = [row EXCEPT ![c] = AbsentRow]
    /\ UNCHANGED <<kind, phase, revoked, task, parent, by, unlinked, imported,
                   rekeyed, faults>>

-------------------------------------------------------------------------------
(* The import of a backup: the transaction reads and writes one certificate  *)
(* after the other, at read committed and without locking what it reads, so  *)
(* each certificate of a document is a call of its own here.                 *)

\* importCertificates finds a certificate of the document's serial and reads
\* it, in mode overwrite (mode skip writes nothing).
ReadForImport(a, c) ==
    /\ a \in Importers
    /\ StartCall(a)
    /\ Exists(c)
    /\ task' = [task EXCEPT ![a][c] =
                  [stage |-> "import", row |-> row[c], new |-> None]]
    /\ UNCHANGED <<row, kind, phase, revoked, parent, by, unlinked, imported,
                   rekeyed, faults>>

\* Its write: the document's status over the snapshot, and every other
\* mutable column as it was read.  No revocation is recorded.
ImportOverwrite(a, c, status) ==
    LET snap == task[a][c].row IN
    /\ task[a][c].stage = "import"
    /\ row' = IF Exists(c)
              THEN [row EXCEPT ![c] = [snap EXCEPT !.status = status]]
              ELSE row
    /\ unlinked' = IF Exists(c) /\ snap.superseded = None
                                /\ row[c].superseded # None
                   THEN unlinked \cup {c} ELSE unlinked
    /\ imported' = IF Exists(c) /\ status = "revoked"
                   THEN imported \cup {c} ELSE imported
    /\ Finish(a, c)
    /\ UNCHANGED <<kind, phase, revoked, parent, by, rekeyed, calls, faults>>

\* A serial the tenant does not have: a row with the document's status and
\* validity, of the default kind, without key, link or auto_renew.
ImportInsert(a, c, status, when) ==
    /\ a \in Importers
    /\ StartCall(a)
    /\ phase[c] = "unborn"
    /\ row' = [row EXCEPT ![c] = [AbsentRow EXCEPT !.status = status]]
    /\ phase' = [phase EXCEPT ![c] = when]
    /\ by' = [by EXCEPT ![c] = a]
    /\ imported' = IF status = "revoked" THEN imported \cup {c} ELSE imported
    /\ UNCHANGED <<kind, revoked, task, parent, unlinked, rekeyed, faults>>

-------------------------------------------------------------------------------
(* Renewal *)

\* Altered Eligible: superseded_by is not looked at.
Eligible_IgnoresLink(c) ==
    /\ row[c].status = "active"
    /\ row[c].autoRenew
    /\ phase[c] = "due"

\* The WHERE clause of DueForRenewal and the per-certificate window of Due.
Eligible(c) ==
    /\ row[c].status = "active"
    /\ row[c].superseded = None
    /\ row[c].autoRenew
    /\ phase[c] = "due"

\* The scan of RunOnce, when the previous pass is over.  The row locks end
\* with the scan's own transaction; LIMIT and SKIP LOCKED may leave rows out.
DueForRenewal(i) ==
    /\ Busy(i) = {}
    /\ \E S \in SUBSET {c \in Certs : Eligible(c)} :
         /\ S # {}
         /\ task' = [task EXCEPT ![i] =
              [c \in Certs |-> IF c \in S THEN [NoTask EXCEPT !.stage = "due"]
                               ELSE NoTask]]
    /\ UNCHANGED <<row, kind, phase, revoked, parent, by, unlinked, imported,
                   rekeyed, calls, faults>>

\* Altered RenewSystem: the not-found check is inverted.
RenewSystem_Inverted(i, c) ==
    /\ task[i][c].stage = "due"
    /\ Cardinality(Renewing(i)) < Workers
    /\ task' = [task EXCEPT ![i][c] =
                  IF Exists(c)
                  THEN NoTask
                  ELSE [stage |-> "read", row |-> row[c], new |-> None]]
    /\ UNCHANGED <<row, kind, phase, revoked, parent, by, unlinked, imported,
                   rekeyed, calls, faults>>

\* GetCertificate of RenewSystem, by one of the pass's goroutines.  A row
\* that is gone ends the renewal; nothing else about it is looked at again.
RenewSystem(i, c) ==
    /\ task[i][c].stage = "due"
    /\ Cardinality(Renewing(i)) < Workers
    /\ task' = [task EXCEPT ![i][c] =
                  IF Exists(c)
                  THEN [stage |-> "read", row |-> row[c], new |-> None]
                  ELSE NoTask]
    /\ UNCHANGED <<row, kind, phase, revoked, parent, by, unlinked, imported,
                   rekeyed, calls, faults>>

\* GetCertificate of Renew, the API call.
Renew(a, c) ==
    /\ StartCall(a)
    /\ Exists(c)
    /\ task' = [task EXCEPT ![a][c] =
                  [stage |-> "read", row |-> row[c], new |-> None]]
    /\ UNCHANGED <<row, kind, phase, revoked, parent, by, unlinked, imported,
                   rekeyed, faults>>

\* Altered RenewedRow: a generic renewal never reuses the stored key.
RenewedRow_FreshKey(k, old, d, opened) ==
    [status |-> "active",
     superseded |-> None,
     key |-> d,
     autoRenew |-> k = "svid" \/ old.autoRenew]

\* The row a renewal inserts as d.  mint generates a key; renewACME reuses
\* the key it read, if there was one that could be opened and parsed, and
\* keeps auto_renew.
RenewedRow(k, old, d, opened) ==
    [status |-> "active",
     superseded |-> None,
     key |-> IF k = "generic" /\ old.key # None /\ opened THEN old.key ELSE d,
     autoRenew |-> k = "svid" \/ old.autoRenew]

\* renewCert and renewACME up to the insert of the new certificate.
MintRenewal(p, c, d, opened) ==
    /\ task[p][c].stage = "read"
    /\ phase[d] = "unborn"
    /\ opened \/ (kind[c] = "generic" /\ task[p][c].row.key # None)
    /\ row' = [row EXCEPT ![d] = RenewedRow(kind[c], task[p][c].row, d, opened)]
    /\ kind' = [kind EXCEPT ![d] = kind[c]]
    /\ phase' = [phase EXCEPT ![d] = "fresh"]
    /\ parent' = [parent EXCEPT ![d] = c]
    /\ by' = [by EXCEPT ![d] = p]
    /\ task' = [task EXCEPT ![p][c] = [@ EXCEPT !.stage = "minted", !.new = d]]
    /\ rekeyed' = IF opened THEN rekeyed ELSE rekeyed \cup {d}
    /\ UNCHANGED <<revoked, unlinked, imported, calls, faults>>

\* Altered Supersede: the old id is written instead of the new one.
Supersede_OldId(p, c) ==
    LET t == task[p][c] IN
    /\ t.stage = "minted"
    /\ row' = IF Exists(c)
              THEN [row EXCEPT ![c].status = t.row.status,
                               ![c].superseded = c]
              ELSE row
    /\ Finish(p, c)
    /\ UNCHANGED <<kind, phase, revoked, parent, by, unlinked, imported,
                   rekeyed, calls, faults>>

\* Altered Supersede: the status is one the table does not have.
Supersede_NewStatus(p, c) ==
    LET t == task[p][c] IN
    /\ t.stage = "minted"
    /\ row' = IF Exists(c)
              THEN [row EXCEPT ![c].status = "superseded",
                               ![c].superseded = t.new]
              ELSE row
    /\ Finish(p, c)
    /\ UNCHANGED <<kind, phase, revoked, parent, by, unlinked, imported,
                   rekeyed, calls, faults>>

\* Their last write, SetCertificateStatus: the status that was read, and the
\* link to the successor.
Supersede(p, c) ==
    LET t == task[p][c] IN
    /\ t.stage = "minted"
    /\ row' = IF Exists(c)
              THEN [row EXCEPT ![c].status = t.row.status,
                               ![c].superseded = t.new]
              ELSE row
    /\ Finish(p, c)
    /\ UNCHANGED <<kind, phase, revoked, parent, by, unlinked, imported,
                   rekeyed, calls, faults>>

-------------------------------------------------------------------------------
(* Failures and time *)

\* A step of a call or of a renewal returns an error.  Nothing that was
\* committed is undone; a minted successor stays without a link.
StepFails(p, c) ==
    /\ task[p][c].stage # "none"
    /\ faults < MaxFaults
    /\ faults' = faults + 1
    /\ unlinked' = IF task[p][c].stage = "minted" THEN unlinked \cup {c}
                                                  ELSE unlinked
    /\ Finish(p, c)
    /\ UNCHANGED <<row, kind, phase, revoked, parent, by, imported, rekeyed, calls>>

\* The instance stops in the middle of a pass and starts again.
Crash(i) ==
    /\ Busy(i) # {}
    /\ faults < MaxFaults
    /\ faults' = faults + 1
    /\ unlinked' = unlinked \cup {c \in Certs : task[i][c].stage = "minted"}
    /\ task' = [task EXCEPT ![i] = [c \in Certs |-> NoTask]]
    /\ UNCHANGED <<row, kind, phase, revoked, parent, by, imported, rekeyed, calls>>

\* Time passes the opening of the renewal window, or the expiry.
Age(c) ==
    /\ Exists(c)
    /\ \/ phase[c] = "fresh" /\ phase' = [phase EXCEPT ![c] = "due"]
       \/ phase[c] = "due" /\ phase' = [phase EXCEPT ![c] = "expired"]
    /\ UNCHANGED <<row, kind, revoked, task, parent, by, unlinked, imported,
                   rekeyed, calls, faults>>

-------------------------------------------------------------------------------
CallerStep(a, c) ==
    \/ \E k \in Kinds, key \in {c, None}, auto, deliver \in BOOLEAN :
         InsertCertificate(a, c, k, key, auto, deliver)
    \/ MarkKeyDelivered(a, c)
    \/ ReadForUpdate(a, c)
    \/ \E auto \in BOOLEAN : UpdateCertificate(a, c, auto)
    \/ Revoke(a, c)
    \/ DeleteCertificate(a, c)
    \/ Renew(a, c)
    \/ ReadForImport(a, c)
    \/ \E status \in Stored : ImportOverwrite(a, c, status)
    \/ \E status \in Stored, when \in Phases \ {"unborn"} :
         ImportInsert(a, c, status, when)

RenewStep(p, c) ==
    \/ \E d \in Certs, opened \in BOOLEAN : MintRenewal(p, c, d, opened)
    \/ Supersede(p, c)

\* The loop of Scheduler.Run.
InstanceStep(i) ==
    \/ DueForRenewal(i)
    \/ \E c \in Certs : RenewSystem(i, c) \/ RenewStep(i, c)

Next ==
    \/ \E a \in Callers, c \in Certs : CallerStep(a, c) \/ RenewStep(a, c)
    \/ \E i \in Instances : InstanceStep(i) \/ Crash(i)
    \/ \E p \in Procs, c \in Certs : StepFails(p, c)
    \/ \E c \in Certs : Age(c)

Spec == Init /\ [][Next]_vars

\* Run loops for as long as the process lives; callers and the passing of the
\* window promise nothing.
FairSpec == Spec /\ \A i \in Instances : WF_vars(InstanceStep(i))

-------------------------------------------------------------------------------
(* Properties *)

Successors(c) == {d \in Certs : parent[d] = c}

\* The lists of revoke.Feed and CRL are read from revocations alone: a row
\* that says revoked has its revocation, however stale the status that
\* UpdateCertificate, an import or a renewal wrote back, unless the status
\* came from an import's document.
RevokedIsListed ==
    \A c \in Certs : row[c].status = "revoked" => c \in revoked \cup imported

\* The same of every row.  An import breaks it: importCertificates writes the
\* document's status, revoked included, and no revocation.
AllRevokedListed == \A c \in Certs : row[c].status = "revoked" => c \in revoked

\* superseded_by, whoever wrote it last, names a certificate that was minted
\* to renew this one.
SupersededBySuccessor ==
    \A c \in Certs : row[c].superseded # None => row[c].superseded \in Successors(c)

\* "reusing old's stored private key when available (so pinned deployments
\* keep a stable key)" (renewACME): the stored keys of a generic certificate
\* and of its renewal are the same, unless the renewal could not open the old
\* one, and those of an SVID and its renewal are not.
RenewalKey ==
    \A c \in Certs : \A d \in Successors(c) \ rekeyed :
        (row[c].key # None /\ row[d].key # None) =>
            (row[d].key = row[c].key <=> kind[c] = "generic")

\* RunOnce stamps superseded_by "so the next scan skips the row": while no
\* link to a successor was lost (to a failed SetCertificateStatus, a crash
\* before it, or a stale UpdateCertificate, an import's included), one instance
\* never renews a certificate twice, over all its passes and whatever the other
\* instances and the API do meanwhile.
OncePerInstance ==
    \A c \in Certs \ unlinked : \A d, e \in Successors(c) :
        (by[d] = by[e] /\ by[d] \in Instances) => d = e

\* A certificate whose window is open does not stay eligible: it is renewed
\* (or revoked, removed, switched off or expired), unless the ids of the
\* model have run out.
EligibleIsRenewed ==
    \A c \in Certs : Eligible(c) ~>
        (~Eligible(c) \/ \A d \in Certs : phase[d] # "unborn")

\* "several service instances must renew a due certificate exactly once (a
\* lease claim)": the instances together mint at most one successor.
RenewedAtMostOnce ==
    \A c \in Certs :
        Cardinality({d \in Successors(c) : by[d] \in Instances}) <= 1

\* "a revoked certificate stays revoked" (deriveStatus): no step takes a
\* row from revoked back to another status.
RevokedStaysRevoked ==
    [][\A c \in Certs :
         row[c].status = "revoked" => row'[c].status \in {"revoked", "absent"}]_row

\* "record delivery so no later call can return it" (mint): the sealed key of
\* an existing row, once cleared, does not come back.
ClearedKeyStays ==
    [][\A c \in Certs : Exists(c) /\ row[c].key = None => row'[c].key = None]_row

-------------------------------------------------------------------------------
(* The strengthening of the safety properties that is inductive.            *)

\* What a process may write back to c: a status and a link that were sound
\* when it read them.
SnapshotSound(c, r) ==
    /\ r.status = "revoked" => c \in revoked \cup imported
    /\ r.superseded # None => r.superseded \in Successors(c)

TaskSound ==
    \A p \in Procs, c \in Certs :
        /\ SnapshotSound(c, task[p][c].row)
        /\ task[p][c].stage # "none" => phase[c] # "unborn"
        /\ task[p][c].stage = "minted" => task[p][c].new \in Successors(c)

\* An id is used once: nothing refers to it before, and its row never comes
\* back.
HistorySound ==
    \A c \in Certs :
        /\ phase[c] = "unborn" => parent[c] = None /\ ~Exists(c)
        /\ phase[c] = "unborn" => Successors(c) = {}

\* An instance that has renewed c holds no renewal of c that may still mint,
\* and the scan will not hand c to it again.
NotAgain ==
    \A c \in Certs \ unlinked : \A d \in Successors(c) : \A i \in Instances :
        by[d] = i =>
            /\ task[i][c].stage \notin {"due", "read"}
            /\ \/ task[i][c].stage = "minted"
               \/ ~Exists(c)
               \/ row[c].superseded # None

Linked == RevokedIsListed /\ SupersededBySuccessor

LifecycleInv == TaskSound /\ HistorySound /\ Linked /\ NotAgain /\ OncePerInstance

\* What RenewalKey rests on: an SVID row and its snapshots hold the SVID's own
\* key or none, a generic row keeps the key every snapshot of it has, and
\* nothing is read from, or left in, a row that is gone.
SvidKeys ==
    \A c \in Certs : kind[c] = "svid" =>
        /\ row[c].key \in {c, None}
        /\ \A p \in Procs : task[p][c].row.key \in {c, None}

\* The stages at which a process holds a snapshot of the row.
Snapped == {"read", "minted", "update", "import"}

GenericKeys ==
    \A c \in Certs, p \in Procs : kind[c] = "generic" =>
        /\ phase[c] # "unborn"
        /\ task[p][c].stage # "deliver"
        /\ (Exists(c) /\ task[p][c].stage \in Snapped) =>
              task[p][c].row.key = row[c].key

Present ==
    \A c \in Certs :
        /\ ~Exists(c) => row[c].key = None
        /\ \A p \in Procs :
             task[p][c].stage \in Snapped => task[p][c].row.status # "absent"

Family == \A c \in Certs : \A d \in Successors(c) : d # c /\ kind[d] = kind[c]

KeyInv == SvidKeys /\ GenericKeys /\ Present /\ Family /\ RenewalKey

===============================================================================
