# Verification of go-tangra-lcm

go-tangra-lcm is a certificate authority service: per tenant it issues SPIFFE
SVIDs and ACME certificates, renews them, revokes them and streams what happens.
Several instances of the service share one PostgreSQL database. This directory
holds TLA+ models of its parts, the TLC runs that check them on small instances
and the TLAPS proofs of the results that hold for every instance.

## The system and its parts

| Part | Source | State | Module |
|---|---|---|---|
| Requests and the job queue | `internal/enroll/requests.go`, `jobs.go` | `certificate_requests`, `certificate_jobs` | `EnrollJobs` |
| Certificate lifecycle | `internal/issue/certificates.go`, `issue.go` | `issued_certificates`, `revocations` | `CertLifecycle` |
| Renewal scheduler | `internal/renew` | a pass in memory, over `issued_certificates` | `CertLifecycle`, `RenewWindow` |
| CAs, issuers, grants, CRL | `internal/ca`, `internal/issue/issuers.go`, `internal/authz`, `internal/revoke` | `cas`, `issuers`, `grants`, `revocations` | `Tenant` |
| Secrets, backup | `internal/secrets`, `internal/transfer` | `tenant_secrets`, a document | `TenantBackup` |
| ACME orders | `internal/issue/acme*.go`, `importcert.go`, `internal/acme` | requests, goroutines, TXT records | `AcmeOrders` |
| Event stream hub | `internal/stream` | subscriptions, a Valkey stream | `StreamHub` |
| Audit writer | `internal/audit` | bounded channel, buffer | `AuditWriter` |
| Webhooks, expiry digest | `internal/webhook`, `internal/app/adapters.go`, `internal/taskexec` | deliveries, attempts | `Delivery` |
| Enrollment as a workload sees it; agent and identity providers | `internal/enroll/enroll.go`, `sdk/pkg/lcmclient`, `sdk/pkg/lcmidentity`, `internal/selfidentity` | current SVID, token, persisted file | `Workload` |
| SQL repositories | `internal/store`, `internal/repo/repodb` | all tables | `StoreTables`, `StoreCalls`, `SqlStore` |
| In-memory store | `internal/memstore` | the same tables as maps | `MemStore` |
| Parsing, sealing, HTTP/gRPC decoding, wiring, UI | the rest | none of their own | not modelled |

An approved request becomes a queued job; a scheduler instance claims it and
calls the issuance service, which inserts a certificate. The renewal scheduler
and the API act on that row from then on. Every call of the repository layer is
a transaction of its own unless it runs inside `Atomic`, at PostgreSQL's default
isolation level (read committed). A handler that reads a row, decides and
writes therefore works with a snapshot that may be stale, and this is where most
of the hazards lie: the models keep every such snapshot as state.

## EnrollJobs

One action per transaction. An operator call is a read (`ReadRequest`,
`ReadForCancel`, `ReadForRetry`, with the checks and early returns of the code)
and a write (`ApproveRequest`, `RejectRequest`, `CancelJob`, `RetryJob`); between
them `handler` holds what was read. `CancelJob` and `RetryJob` write the whole
mutable row back, as `UpdateJob` does. A scheduler instance claims a batch
(`ClaimDueJobs`, whose `Due` and `Claimed` are the WHERE and SET clauses), holds
the claimed rows in `batch`, and for each job commits a certificate (`Issue`) and
then completes job and request in a second transaction (`PersistResult`), or
fails it (`IssueFails`, `PersistFails`). `FailWriteLost` is the error `failJob`
drops, `Crash` the end of an instance between two steps.

`retries` and `faults` are history variables. Bounds: `Jobs` and `Certs` bound
approvals and mints, `MaxRetries`, `MaxFaults` and `MaxTime` the rest.

| Run | Checks | Shows |
|---|---|---|
| `jobs_safety` | `AttemptsBounded`, `LeaseIffProcessing`, `ResultIsOwnCertificate`, `IssuedHasCertificate`, `OneCertificatePerQueueing` | The rows stay consistent however stale the writes are, and one queueing is worth at most one certificate, crashes included. One request, two jobs, two operators and two instances are enough for double approval, cancel and retry in flight, and a job held twice. The count is per job: two approvals that read the request as pending queue two jobs, and nothing says they may not. |
| `jobs_liveness` | `JobSettles` | Every queued job ends completed or failed, if no instance crashes. |
| `jobs_crash` | `ExpiredLeaseReclaimed` | Violated: the claim looks at queued rows only, so a job whose instance died stays processing although its lease has expired. |
| `jobs_claim` | `ExclusiveUntilLeaseExpires` | Violated: cancel and retry during the lease let a second instance claim the job. |
| `jobs_reject` | `RejectsOnlyPending` | Violated: a rejection is written over an approval made since it read the request. |

`LeaseIffProcessing` explains `jobs_crash`: a queued row never has a lease, so
the lease condition of the claim never decides anything.

Fairness: the clock ticks and every instance keeps claiming and processing
(`Scheduler.Run` loops until its context ends). Operators promise nothing.

## CertLifecycle

Processes are API callers and renewal schedulers; `task[p][c]` is what process
`p` is doing to certificate `c`, with its snapshot of the row. A renewal is three
steps for both: the read (`Renew`, or `RenewSystem` for a certificate the pass
found due), the insert of the successor (`MintRenewal`), and `Supersede`, which
writes back the status that was read and the link. `DueForRenewal` is the scan of
`RunOnce`; its row locks end with its own transaction, so they are not state.
`InsertCertificate` and `MarkKeyDelivered` are the two writes of `mint`;
`UpdateCertificate` writes the whole snapshot; `Revoke` and `DeleteCertificate`
are one transaction each, their earlier read deciding nothing that the write does
not check again. `StepFails` and `Crash` end a task without undoing what it
committed.

An import of a backup also writes certificates: per certificate of the document
it reads the row and writes it back with the document's status (`ReadForImport`,
`ImportOverwrite`), or inserts a row (`ImportInsert`). Its transaction reads
committed rows without locking them, so between the two steps the snapshot goes
stale like the others. It records no revocation. `'expiring'` is not told apart
from `active`, because every statement treats the two alike.

A renewal of a generic certificate reuses the stored key if it can be opened and
parsed, else it makes a new one: `RenewedRow` has both, and the history variable
`rekeyed` remembers the second.

Time is `phase[c]`: before the renewal window, inside it, expired. The other
history variables are `parent` and `by` (who minted a certificate to renew
which), `imported` (certificates a document called revoked) and `unlinked`, the
certificates that lost the link to a successor: to a failed
`SetCertificateStatus`, a crash before it, or a stale `UpdateCertificate`, an
import's included.

| Run | Checks | Shows |
|---|---|---|
| `certs_safety` | `RevokedIsListed`, `SupersededBySuccessor`, `RenewalKey`, `OncePerInstance` | A row that says revoked is in the revocation list unless a document said so, a link always names a renewal of the certificate, generic renewals keep their key when it could be opened, and one instance renews a certificate once over all its passes unless a link was lost. Three certificates allow a second renewal, two callers a stale update or import against a revocation. |
| `certs_liveness` | `EligibleIsRenewed` | A due certificate does not stay eligible, in spite of one failed step or crash. |
| `certs_twice` | `RenewedAtMostOnce` | Violated with two instances: both scan the certificate before either supersedes it. The bound that does hold is one successor per instance. |
| `certs_revoked` | `RevokedStaysRevoked` | Violated: a renewal under way writes `active` over a revocation. The revocation itself stays listed: nothing deletes one. |

Bounds: `Certs` (ids), `MaxCalls` (API calls), `MaxFaults`. `certs_safety` has
three certificates, two calls and one fault: a stale update needs a second call
to be stale against, and a lost link one fault. `certs_liveness` has one call and
two faults. When the ids run out a renewal cannot mint; `EligibleIsRenewed` says
so explicitly. Fairness: only the loop of each scheduler.

`RenewWindow` is the arithmetic of the same pass: `window`, `Due` and
`maxWindow`, with the truncation of a float product to a Duration as integer
division. Both certs runs evaluate `ScanReachesAll` (the scan reaches every due
certificate) for lifetimes up to 40 units; the theorems below have no bound.

## Tenant, TenantBackup and AcmeOrders

`Tenant` runs an API call as one action per transaction; `calls[c]` holds what
caller `c` read so far. A statement refused inside a PostgreSQL transaction makes
all later ones of it fail and the commit a rollback, which is how `EnsureCA`
behaves when it loses the race for a CA. Grants carry, as history, the
permissions their granter held (`src`). `CRL` reads the revocations page by page
while others are written.

`CRL` skips a serial that is not a decimal number, which an import may bring in,
and moves its cursor only past entries it made. Deleting a certificate leaves its
revocation.

`TenantBackup` adds the secrets and the backup. `Export` is three reads. `Import`
is one transaction at read committed, in four steps: it lists the issuers
(`Import`), reads those it overwrites (`ImportRead`), writes the issuers and then
lists certificates and secrets (`ImportIssuers`), and writes the rest and commits
(`ImportRest`). Each step acts on what the earlier ones saw. Until the commit its
issuer rows are locked and its new names and defaults block other writers
(`LockedBy`, `Awaits`), which wait. What it wrote can end in three ways: committed,
refused and reported, or refused by an index and counted as skipped, after which
the transaction is aborted and the commit fails. Not split further: the window
between the read and the write of one certificate, which `CertLifecycle` has, and
the one between the reads of certificates and of secrets. When two transactions
wait for each other PostgreSQL fails one, which then changes nothing. A sealed
value is the plain value with the id it was sealed under, because opening it
under another id fails.

`AcmeOrders`: `BeginACME` validates the names and inserts a `processing` request,
then a goroutine runs one action per call it makes outside. Every external call
may succeed, fail, or take effect and be reported as failed. `Unwound` is the
deferred clean-up and `FinishACME` the end of the request on a context of its own.
`Timeout` ends the order's context, `Crash` the process. `ImportACME` of a
certificate that is already due starts a renewal of the same shape. Names are
sequences of labels, since wildcards depend on their number.

| `issuing` checks | Shows |
|---|---|
| `IssuingTypes` | Row shapes, and that the references with a foreign key resolve: a certificate's issuer and an issuer's CA. Revocations and grants have none and outlive a deleted certificate or issuer. |
| `IssuerSigns` | A self-signed issuer references the CA that signs for its domain, unless an import moved it: overwriting an issuer with another trust domain keeps its old CA. |
| `DefaultKept` | A refused create or update never costs a domain its default issuer. |
| `NoAmplification` | No grant gives a permission its granter did not hold when `Grant` resolved them. |
| `CRLComplete` | The list has every revocation with a numeric serial that was recorded and stamped before it was begun, except one that shares its instant with a listed one across a page boundary. |
| `CRLEnds` | Building the list ends, unless it meets a full page without a numeric serial, which it reads for ever. |
| `SealedUnderOwnId`, `RoundTrip`, `SkipAgain` | Imported values open under their new ids; importing one's own export changes nothing; importing twice with `skip` equals once. |
| `RecordsCleaned`, `ChallengeVisible` | TXT records are gone once an order has cleaned up (unless a provider call failed), and no clean-up removes the record another order waits on. |
| `OutcomeTrue`, `RequestEnds` | A request ends unless the process stops or the write fails; it is issued only with a stored certificate, and what is announced never contradicts what it says (a stored certificate whose request could not be ended is possible). |

Two callers with three calls in all (one an administrator, one a user who may
share an issuer) reach every pair of racing calls with a third that observes
them. There are two trust domains and a document that moves the tenant's issuer
to the second; the page of the CRL is two rows, and the first revocations have a
serial that is no number, a shared instant and a certificate deleted since, so
that full pages, ties and the page that is read for ever all occur. Two orders of
different DNS providers share names; one fault, a failed call or a crash.
The tenant's rows and the ACME rows belong to different issuers, so `MCIssuing`
moves one of the two parts in a behaviour instead of their product (219,938
states). Fairness: a goroutine keeps moving, since each of its calls is bounded by
a context, and `CRL`, a plain loop, keeps asking for its next page.

## StreamHub, AuditWriter, Delivery and Workload

`StreamHub` interleaves goroutines at lock releases. `push` is two actions: it
marks the event as delivered under the lock and sends after it; `Close` likewise
marks and then closes the channel; `Subscribe` registers and then replays. A send
on a closed channel is `LivePanic`, which ends the process when it happens in the
tenant's loop. The stream itself is external: append, trim, read failures.

`AuditWriter` numbers the rows, since channel and buffer are first in first out:
the rows up to `flushed` have left the buffer, each stored or in a batch that was
refused and reported. `Delivery` counts time in units of the HTTP timeout; a
publisher's context has a budget that all endpoints share. An endpoint that
failed adds an error that names it, or, when the wait for its next try is ended
by the context, one that names none (`Named`, `Bare`).
Its digest part is one scheduler task with retried attempts. `Workload` has the
four kinds of identity holder over one enrollment service; time is what the SVID
has left. The roots come in the order of `created_at`, equal times in either
order, and may change more than once between two renewals.

| `events` checks | Shows |
|---|---|
| `HubTypes`, `HubCounts` | Connections stay within the limits per user and per tenant, and the counts `Subscribe` compares are true, after any order of leaves, stalls and `Close`. |
| `QueuedOnce`, `LiveComplete` | No event is queued twice, and a subscription without replay is sent every live event, in order, or is closed. |
| `ClosedIsOver` | After `Hub.Close` no subscription, loop or channel is open, and none is opened. |
| `EventRead` | A published event is eventually read by each reader that stays. |
| `FlushSettles` | When `Flush` is told done, each row queued before it is stored or in a batch whose refusal was reported; a `Close` that waited leaves nothing unsettled. |
| `DeliveryTrue` | The joined error has one part for each endpoint that did not take the event; it names no endpoint that did, and a part is nameless only when the context had ended. An endpoint that answered 2xx or 4xx is not called again; tries are bounded. |
| `DigestTrue` | Success means every mailbox was mailed; one attempt mails a mailbox once. |
| `ServedAlive` | A served SVID does not expire while outages are shorter than the renewal window (the agent excepted, see below). |
| `VersionNamesRoots` | Each version lcm's own provider publishes names one set of roots, the one it serves, and consecutive versions differ. |

The four modules share no variable, so `MCEvents` moves one of them in a
behaviour. Two subscriptions of two users, a buffer of one and two events reach
the stall and the replay overlap. A second hub (`Limits`), without events, has
five connections of two users under limits of two per user and three per tenant,
so that both limits refuse and are left again. A queue of two and four records the drop and
two batches; three endpoints, two of one name, and a budget of three timeouts the
starved endpoint; a lifetime of six ticks and outages of two the late renewal.
Fairness: the steps of a call in progress, of the tenant's loop and of
`Hub.Close`; nothing makes a client subscribe, read late or leave.
206,318 states.

`Workload` is checked with `Tokened = FALSE`: a `Provider` that is given a token
sends it again with each renewal and is refused (see below).

## The two stores

`StoreTables` has the tables and the vocabulary of list pages, `StoreCalls` the
writing methods of `repo.Store` as steps over whichever implementation a module
brings. `SqlStore` is the specification: a statement applies as a whole or is
refused by an index or a foreign key, and a read is the set of answers that its
ORDER BY and LIMIT allow. `MemStore` is the double the unit tests run on, method
by method, and is shown to implement it:

| `store` checks | Shows |
|---|---|
| `RefinesSql` | `Sql!Spec` under the mapping `AsSql`: each write leaves the rows, and gives the answer, that SQL could have for the same method and arguments (`op`, `args`). |
| `ReadsAgree` | Each read, filter, cursor and list page of the double is one SQL allows. |
| `PagesComplete` | Following cursors reads every row once, newest first, also with equal times. |

`AsSql` hides two differences: a request keeps the id of a deleted issuer (SQL
sets it to NULL), and `auto_renew` is ignored by `UpdateCertificate` and
`DueForRenewal` of the double (`Passed` does the same to the arguments). Outside the modelled calls the double also differs
in these: references are checked within the tenant, while foreign keys are not
scoped; an insert of an existing id overwrites; `Atomic` neither isolates nor
rolls back; named lists have no limit of 1000; `QueryAudit` returns ties in the
other order (`AuditAgrees`, `MCStoreAudit.cfg`); `InsertCertificate` does not
default the kind and `UpdateIssuer` not the empty settings.

Bounds: two tenants, three ids per table, names that differ in case, two calls
from two populated databases. The calls of a behaviour come from one of ten
groups of related methods (`Focuses`), and reads are compared for the tables the
group can touch. `op` and `args` tell the steps apart and decide nothing later, so
the states are counted without them (`VIEW Explored`); every step is still
compared. Columns are kept where a method reads, writes or matches them, which
is why these modules are long: the comparison is about columns.

Deadlock is not checked in any run: with all bounds used up the models stop.

## Proofs

The theorems hold for any constants that meet the ASSUMEs.

`EnrollJobsProofs`:

* `TypeCorrect`, with one lemma that each action keeps the types.
* `SafetyCorrect`, and from it `AttemptsCorrect`, `LeaseCorrect`,
  `ResultsCorrect` and `IssuedCorrect`. The properties speak of table rows, but
  an action writes a snapshot; the inductive invariant adds `SnapshotInv`: every
  row held by an operator or a scheduler could be written now without harm (its
  attempts are within the maximum, below it when held for a retry, its result is
  the job's own certificate), and the scheduler's minted certificate belongs to
  its job.
* `CountCorrect`: certificates of a job, plus claims that may still mint, plus
  its place in the queue, never exceed approvals and retries. It is inductive
  given the above; the proof is about how each step moves one unit between the
  three counts.

`CertLifecycleProofs`:

* `TypeCorrect`.
* `LifecycleCorrect`, and from it `LinkedCorrect`, `SupersededCorrect` and
  `OncePerInstanceCorrect`. The invariant adds that snapshots are sound
  (`TaskSound`), that an id is used once (`HistorySound`) and `NotAgain`: an
  instance that has renewed a certificate holds no task that may mint for it
  again, and the row is linked, gone, or about to be linked by that same task.
  `QuietStep` shows once what every step that mints nothing has to respect;
  `MintStep` and `InsertStep` treat the others.
* `RenewalKeyCorrect`. A stale `UpdateCertificate` writes a key back, so the rows
  alone are not inductive. `KeyInv` adds that an SVID row and all its snapshots
  hold its own key or none, that a snapshot of an existing generic row has that
  row's key, that nothing is left in a row that is gone, and that a successor has
  the kind of its predecessor.

`AuditWriterProofs`: `WriterInvariant`, `FlushCorrect` (of `FlushSettles`) and
`AccountedCorrect`.
A Flush learns that it is done from the writer, so the invariant says what the
writer knows while it holds a done channel: past the drain loop, the asker's rows
are in the buffer; after the last write the closed channel stays empty.
`AccountedCorrect`: every valid event is counted as dropped, waiting, stored, or
in a batch whose failure was reported.

`RenewWindowProofs`: `WindowBound` and `ScanComplete`, for every fraction, window
and maximal lifetime, from three facts about integer division.

Only model-checked: the liveness properties (out of the prover's reach), the
violations, and the modules without a proof module: `Tenant`, `TenantBackup`,
`AcmeOrders`, `StreamHub`, `Delivery`, `Workload` and the refinement of the
stores.

## Where code and documentation disagree

Five disagreements are runs that expect a violation: `jobs_crash`, `jobs_claim`,
`jobs_reject`, `certs_twice` and `certs_revoked`. Eight more have a configuration
under which TLC finds the counterexample:

| Configuration | Property | What happens |
|---|---|---|
| `MCCertLifecycleKey.cfg` | `ClearedKeyStays` | An update that read the row before the key was delivered writes the sealed key back ("record delivery so no later call can return it"). |
| `MCCertLifecycleImport.cfg` | `AllRevokedListed` | An import writes the status `revoked` and no revocation, so the certificate is in neither the feed nor the CRL, which are built from revocation rows alone (`docs/operations.md:24`: "Revoking a certificate records a revocation row, which feeds"). |
| `MCEventsFlush.cfg` | `FlushStored` | A refused batch is reported to `onError` and dropped, and `Flush` returns as after a stored one (`audit.go:281`: "returns when it is stored or ctx is done"). |
| `MCEventsReplay.cfg` | `GapReplayed` | A live event pushed between registration and replay makes `push` drop the replayed ones. |
| `MCEventsAgent.cfg` | `AgentFresh` | `RunAgent` renews by serial (`agent.go:132`) where the service looks up an id, and its watch handler waits for "renewed" where the event is "certificate.renewed": the agent never renews. |
| `MCEventsEndpoints.cfg` | `EveryEndpointPosted` | Three tries of ten seconds use up the publisher's thirty; later endpoints are never posted to. |
| `MCIssuingConflict.cfg` | `LoserGetsWinner` | After the unique-index conflict the transaction is aborted, so the re-read at `ca.go:138` fails instead of returning the winner. |
| `MCIssuingProcessing.cfg` | `ProcessingWhileItRuns` | A restart leaves an ACME request `processing` with nothing working on it. |

Met while modelling and not stated as a property:

* `push` may send on a channel that `Close` has just closed; in the tenant's loop
  that panic ends the process (`LivePanic`).
* `lcmidentity.Provider` sends its single-use enrollment token with every renewal
  and is refused after the first; an expired SVID cannot renew in the process.
* A stop between the first enrollment and the write of its file leaves
  `NetProvider` with neither token nor state.
* `maxWindow` is called an upper bound for "every renewable certificate"; an
  imported certificate may live longer than the service's maximum and have a
  wider window. It is then found later, when it comes within `maxWindow`.
* A CRL whose page is full of serials that are no number is never finished: the
  cursor stays and the same page is read again (`revoke.go:94`).
* An overwriting import that moves a self-signed issuer to another trust domain
  keeps its CA, and no later call corrects it.
* An import counts a conflicting default issuer as skipped, though the
  transaction is aborted by then; in skip mode it still replaces grants; imported
  `self_signed` issuers have no CA reference, so minting with them is refused.
* `UpdateIssuer` and the secret updates overwrite concurrent ones; `Grant` racing
  `DeleteIssuer` leaves a grant without its resource; an issuer's `enabled` is
  never read.
* `secrets.Delete` speaks of a reference that refuses the deletion; no foreign
  key exists.
* A `Flush` that races `Close` waits until its own context ends.

## Not modelled

* Cryptography and encodings (`sealed`, `csr`, `certinfo`, PEM, JSON): a key, a
  certificate or a sealed value is an opaque value.
* HTTP and gRPC decoding, the OpenAPI schema, generated code, the web interface,
  wiring, configuration and statistics: they hold no state of the service.
* `internal/deploy`: each operation is one statement, modelled with the store, or
  an audit record.
* Row-level security, migrations and connection pools: every statement is scoped
  by the tenant it names.
* The limit of 256 rows per renewal scan: more rows than an instance of
  `CertLifecycle` can hold. Certificates not yet due can fill it before due ones.
* `Enroll`'s choice between issuing at once and queueing a request: `EnrollJobs`
  starts from the request, `Workload` from the answer.
* The composition of the queue with the lifecycle: they meet in the insert of a
  certificate, which each has as an action of its own.
