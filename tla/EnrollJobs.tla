------------------------------ MODULE EnrollJobs ------------------------------
(***************************************************************************)
(* The request and issuance-job queue of internal/enroll over the SQL      *)
(* statements of internal/store.                                           *)
(*                                                                         *)
(* API handlers read a row in one transaction, decide, and write in        *)
(* another, so each operator call is two actions (Read..., then the write) *)
(* with the handler's snapshot between them.  Scheduler instances claim a  *)
(* batch in one statement, then process it job by job, holding the row     *)
(* values the claim returned.  UpdateJob writes the whole mutable row of   *)
(* that snapshot and SetRequestStatus writes unconditionally.              *)
(*                                                                         *)
(* Left out: authorization (a refused call changes nothing), the job's     *)
(* error text, timestamps no statement compares, tenants (every statement  *)
(* but the claim is confined to one).                                      *)
(***************************************************************************)
EXTENDS Naturals, FiniteSets

CONSTANTS
    Requests,     \* certificate_requests ids
    Jobs,         \* certificate_jobs ids; bounds the number of approvals
    Certs,        \* issued_certificates ids; bounds the number of mints
    Handlers,     \* concurrent API calls by operators
    Workers,      \* scheduler instances
    None,
    MaxAttempts,  \* enroll.Config.MaxAttempts
    Batch,        \* SchedulerConfig.Batch
    Lease,        \* SchedulerConfig.Lease
    Skew,         \* how far an approving instance's clock may run ahead
    MaxTime,      \* bound on the clock
    MaxRetries,   \* bound on RetryJob writes per job
    MaxFaults     \* bound on scheduler crashes and lost failure writes

ASSUME NoneAssumption ==
    None \notin Requests /\ None \notin Jobs /\ None \notin Certs
ASSUME FiniteAssumption == IsFiniteSet(Certs) /\ IsFiniteSet(Workers)
ASSUME MaxAttemptsAssumption == MaxAttempts \in Nat \ {0}
ASSUME TimeAssumption ==
    /\ Lease \in Nat \ {0}
    /\ Skew \in Nat
    /\ MaxTime \in Nat \ {0}
ASSUME BoundsAssumption ==
    /\ Batch \in Nat \ {0}
    /\ MaxRetries \in Nat
    /\ MaxFaults \in Nat

VARIABLES
    now,      \* the schedulers' clock
    req,      \* certificate_requests.status
    job,      \* the mutable columns of certificate_jobs
    jobReq,   \* certificate_jobs.request_id
    cert,     \* the job each issued certificate was minted for
    handler,  \* the call in progress of each handler, with what it read
    batch,    \* the rows each scheduler holds from its last claim
    current,  \* the job each scheduler has minted for and not yet persisted
    minted,   \* and the certificate it minted
    retries,  \* history: how often RetryJob wrote each job
    faults    \* history: crashes and lost writes so far

workerVars == <<batch, current, minted>>
vars == <<now, req, job, jobReq, cert, handler, batch, current, minted,
          retries, faults>>

RequestStatus == {"absent", "pending", "approved", "rejected", "issued"}
JobStatus == {"absent", "queued", "processing", "completed", "failed"}

\* lease_until IS NULL; the clock starts at 1.
NoLease == 0

Row == [status   : JobStatus,
        lease    : Nat,
        attempts : Nat,
        result   : Certs \cup {None},
        runAfter : Nat]

AbsentRow == [status |-> "absent", lease |-> NoLease, attempts |-> 0,
              result |-> None, runAfter |-> 0]

Call == [op  : {"idle", "approve", "reject", "cancel", "retry"},
         req : Requests \cup {None},
         job : Jobs \cup {None},
         row : Row]

Idle == [op |-> "idle", req |-> None, job |-> None, row |-> AbsentRow]

\* One type invariant for the module: every column, snapshot and history
\* variable stays in its domain.
TypeOK ==
    /\ now \in Nat \ {0}
    /\ req \in [Requests -> RequestStatus]
    /\ job \in [Jobs -> Row]
    /\ jobReq \in [Jobs -> Requests \cup {None}]
    /\ cert \in [Certs -> Jobs \cup {None}]
    /\ handler \in [Handlers -> Call]
    /\ batch \in [Workers -> [Jobs -> Row]]
    /\ current \in [Workers -> Jobs \cup {None}]
    /\ minted \in [Workers -> Certs \cup {None}]
    /\ retries \in [Jobs -> Nat]
    /\ faults \in Nat

Init ==
    /\ now = 1
    /\ req = [r \in Requests |-> "absent"]
    /\ job = [j \in Jobs |-> AbsentRow]
    /\ jobReq = [j \in Jobs |-> None]
    /\ cert = [c \in Certs |-> None]
    /\ handler = [h \in Handlers |-> Idle]
    /\ batch = [w \in Workers |-> [j \in Jobs |-> AbsentRow]]
    /\ current = [w \in Workers |-> None]
    /\ minted = [w \in Workers |-> None]
    /\ retries = [j \in Jobs |-> 0]
    /\ faults = 0

-------------------------------------------------------------------------------
(* Requests *)

\* createRequest: a new request is pending.
CreateRequest(r) ==
    /\ req[r] = "absent"
    /\ req' = [req EXCEPT ![r] = "pending"]
    /\ UNCHANGED <<now, job, jobReq, cert, handler, workerVars, retries, faults>>

\* GetRequest and the status check of ApproveRequest and RejectRequest.
ReadRequest(h, r, op) ==
    /\ handler[h] = Idle
    /\ req[r] = "pending"
    /\ handler' = [handler EXCEPT ![h] = [Idle EXCEPT !.op = op, !.req = r]]
    /\ UNCHANGED <<now, req, job, jobReq, cert, workerVars, retries,
                   faults>>

\* The row InsertJob writes for an approved request.
QueuedRow(t) == [AbsentRow EXCEPT !.status = "queued", !.runAfter = t]

\* The transaction of ApproveRequest: the request becomes approved, whatever
\* it is by now, and a job is queued for it.
ApproveRequest(h) ==
    /\ handler[h].op = "approve"
    /\ req' = [req EXCEPT ![handler[h].req] = "approved"]
    /\ \E j \in Jobs, t \in now..(now + Skew) :
         /\ job[j].status = "absent"
         /\ t <= MaxTime
         /\ job' = [job EXCEPT ![j] = QueuedRow(t)]
         /\ jobReq' = [jobReq EXCEPT ![j] = handler[h].req]
    /\ handler' = [handler EXCEPT ![h] = Idle]
    /\ UNCHANGED <<now, cert, workerVars, retries, faults>>

\* Altered RejectRequest: a job's status is written to the request.
RejectRequest_Failed(h) ==
    /\ handler[h].op = "reject"
    /\ req' = [req EXCEPT ![handler[h].req] = "failed"]
    /\ handler' = [handler EXCEPT ![h] = Idle]
    /\ UNCHANGED <<now, job, jobReq, cert, workerVars, retries, faults>>

\* The write of RejectRequest, also unconditional.
RejectRequest(h) ==
    /\ handler[h].op = "reject"
    /\ req' = [req EXCEPT ![handler[h].req] = "rejected"]
    /\ handler' = [handler EXCEPT ![h] = Idle]
    /\ UNCHANGED <<now, job, jobReq, cert, workerVars, retries,
                   faults>>

-------------------------------------------------------------------------------
(* Operator calls on jobs *)

\* GetJob and the checks of CancelJob.
ReadForCancel(h, j) ==
    /\ handler[h] = Idle
    /\ job[j].status \in {"queued", "processing"}
    /\ handler' = [handler EXCEPT ![h] =
                     [Idle EXCEPT !.op = "cancel", !.job = j, !.row = job[j]]]
    /\ UNCHANGED <<now, req, job, jobReq, cert, workerVars, retries,
                   faults>>

\* Altered CancelJob: the lease is not cleared.
CancelJob_KeepsLease(h) ==
    /\ handler[h].op = "cancel"
    /\ job' = [job EXCEPT ![handler[h].job] =
                 [handler[h].row EXCEPT !.status = "failed"]]
    /\ handler' = [handler EXCEPT ![h] = Idle]
    /\ UNCHANGED <<now, req, jobReq, cert, workerVars, retries, faults>>

\* CancelJob writes back the row it read, failed and without a lease.
CancelJob(h) ==
    /\ handler[h].op = "cancel"
    /\ job' = [job EXCEPT ![handler[h].job] =
                 [handler[h].row EXCEPT !.status = "failed", !.lease = NoLease]]
    /\ handler' = [handler EXCEPT ![h] = Idle]
    /\ UNCHANGED <<now, req, jobReq, cert, workerVars, retries, faults>>

\* Altered ReadForRetry: the attempts are not compared with their maximum.
ReadForRetry_NoLimit(h, j) ==
    /\ handler[h] = Idle
    /\ job[j].status = "failed"
    /\ handler' = [handler EXCEPT ![h] =
                     [Idle EXCEPT !.op = "retry", !.job = j, !.row = job[j]]]
    /\ UNCHANGED <<now, req, job, jobReq, cert, workerVars, retries, faults>>

\* GetJob and the checks of RetryJob.
ReadForRetry(h, j) ==
    /\ handler[h] = Idle
    /\ job[j].status = "failed"
    /\ job[j].attempts < MaxAttempts
    /\ handler' = [handler EXCEPT ![h] =
                     [Idle EXCEPT !.op = "retry", !.job = j, !.row = job[j]]]
    /\ UNCHANGED <<now, req, job, jobReq, cert, workerVars, retries,
                   faults>>

\* RetryJob writes back the row it read, queued and due at once.
RetryJob(h) ==
    LET j == handler[h].job IN
    /\ handler[h].op = "retry"
    /\ retries[j] < MaxRetries
    /\ \E t \in now..(now + Skew) :
         /\ t <= MaxTime
         /\ job' = [job EXCEPT ![j] =
                      [handler[h].row EXCEPT !.status = "queued",
                                             !.lease = NoLease,
                                             !.runAfter = t]]
    /\ retries' = [retries EXCEPT ![j] = @ + 1]
    /\ handler' = [handler EXCEPT ![h] = Idle]
    /\ UNCHANGED <<now, req, jobReq, cert, workerVars, faults>>

\* The write of a call fails, or its client goes away: nothing is written.
CallFails(h) ==
    /\ handler[h] # Idle
    /\ handler' = [handler EXCEPT ![h] = Idle]
    /\ UNCHANGED <<now, req, job, jobReq, cert, workerVars, retries,
                   faults>>

-------------------------------------------------------------------------------
(* Scheduler instances *)

Held(w) == {j \in Jobs : batch[w][j] # AbsentRow}

\* The WHERE clause of ClaimDueJobs.
Due(j) ==
    /\ job[j].status = "queued"
    /\ job[j].runAfter <= now
    /\ job[j].lease = NoLease \/ job[j].lease < now

\* Altered Claimed: the row stays queued under its lease.
Claimed_StaysQueued(row) ==
    [row EXCEPT !.attempts = @ + 1]

\* Its SET clause.
Claimed(row) ==
    [row EXCEPT !.status = "processing",
                !.lease = now + Lease,
                !.attempts = @ + 1]

\* One claim by Scheduler.Once.  ORDER BY run_after LIMIT Batch over the rows
\* no other transaction has locked (SKIP LOCKED): any due rows, at most Batch.
ClaimDueJobs(w) ==
    /\ Held(w) = {}
    /\ \E S \in SUBSET {j \in Jobs : Due(j)} :
         /\ S # {}
         /\ Cardinality(S) <= Batch
         /\ job' = [j \in Jobs |-> IF j \in S THEN Claimed(job[j]) ELSE job[j]]
         /\ batch' = [batch EXCEPT ![w] =
              [j \in Jobs |-> IF j \in S THEN Claimed(job[j]) ELSE AbsentRow]]
    /\ UNCHANGED <<now, req, jobReq, cert, handler, current, minted, retries,
                   faults>>

\* The scheduler is done with job j of its batch.
Release(w, j) ==
    /\ batch' = [batch EXCEPT ![w][j] = AbsentRow]
    /\ current' = [current EXCEPT ![w] = None]
    /\ minted' = [minted EXCEPT ![w] = None]

\* ProcessJob, first half: the request is loaded (its status is not looked
\* at) and issue.Service.Issue commits a certificate.
Issue(w, j) ==
    /\ j \in Held(w)
    /\ current[w] = None
    /\ \E c \in Certs :
         /\ cert[c] = None
         /\ cert' = [cert EXCEPT ![c] = j]
         /\ minted' = [minted EXCEPT ![w] = c]
    /\ current' = [current EXCEPT ![w] = j]
    /\ UNCHANGED <<now, req, job, jobReq, handler, batch, retries,
                   faults>>

\* Altered FailJob: the row is written back without its new status.
FailJob_KeepsStatus(w, j, row) ==
    /\ job' = [job EXCEPT ![j] = row]
    /\ Release(w, j)
    /\ UNCHANGED <<now, req, jobReq, cert, handler, retries, faults>>

\* failJob: the row the claim returned is written back, failed.
FailJob(w, j, row) ==
    /\ job' = [job EXCEPT ![j] =
                 [row EXCEPT !.status = "failed", !.lease = NoLease]]
    /\ Release(w, j)
    /\ UNCHANGED <<now, req, jobReq, cert, handler, retries, faults>>

\* Altered IssueFails: the request is marked issued before the mint is known.
IssueFails_MarksIssued(w, j) ==
    /\ j \in Held(w)
    /\ current[w] = None
    /\ req' = [req EXCEPT ![jobReq[j]] = "issued"]
    /\ job' = [job EXCEPT ![j] =
                 [batch[w][j] EXCEPT !.status = "failed", !.lease = NoLease]]
    /\ Release(w, j)
    /\ UNCHANGED <<now, jobReq, cert, handler, retries, faults>>

\* The request cannot be loaded or Issue refuses: failJob.
IssueFails(w, j) ==
    /\ j \in Held(w)
    /\ current[w] = None
    /\ FailJob(w, j, batch[w][j])

\* Altered PersistResult: the job completes without its certificate id.
PersistResult_NoResult(w) ==
    LET j == current[w] IN
    /\ j # None
    /\ job' = [job EXCEPT ![j] =
                 [batch[w][j] EXCEPT !.status = "completed", !.lease = NoLease]]
    /\ req' = [req EXCEPT ![jobReq[j]] = "issued"]
    /\ Release(w, j)
    /\ UNCHANGED <<now, jobReq, cert, handler, retries, faults>>

\* ProcessJob, second half: one transaction completes the job with its
\* certificate and marks the request issued.
PersistResult(w) ==
    LET j == current[w] IN
    /\ j # None
    /\ job' = [job EXCEPT ![j] =
                 [batch[w][j] EXCEPT !.status = "completed", !.lease = NoLease,
                                     !.result = minted[w]]]
    /\ req' = [req EXCEPT ![jobReq[j]] = "issued"]
    /\ Release(w, j)
    /\ UNCHANGED <<now, jobReq, cert, handler, retries, faults>>

\* That transaction rolls back: failJob, on a row whose result is already set.
PersistFails(w) ==
    LET j == current[w] IN
    /\ j # None
    /\ FailJob(w, j, [batch[w][j] EXCEPT !.result = minted[w]])

\* failJob drops the error of its UpdateJob: the row stays as it was claimed.
FailWriteLost(w, j) ==
    /\ j \in Held(w)
    /\ current[w] \in {None, j}
    /\ faults < MaxFaults
    /\ faults' = faults + 1
    /\ Release(w, j)
    /\ UNCHANGED <<now, req, job, jobReq, cert, handler, retries>>

\* The instance stops between two steps and a new one takes its place.
Crash(w) ==
    /\ Held(w) # {}
    /\ faults < MaxFaults
    /\ faults' = faults + 1
    /\ batch' = [batch EXCEPT ![w] = [j \in Jobs |-> AbsentRow]]
    /\ current' = [current EXCEPT ![w] = None]
    /\ minted' = [minted EXCEPT ![w] = None]
    /\ UNCHANGED <<now, req, job, jobReq, cert, handler, retries>>

Tick ==
    /\ now < MaxTime
    /\ now' = now + 1
    /\ UNCHANGED <<req, job, jobReq, cert, handler, workerVars, retries, faults>>

-------------------------------------------------------------------------------
HandlerStep(h) ==
    \/ \E r \in Requests, op \in {"approve", "reject"} : ReadRequest(h, r, op)
    \/ ApproveRequest(h)
    \/ RejectRequest(h)
    \/ \E j \in Jobs : ReadForCancel(h, j)
    \/ CancelJob(h)
    \/ \E j \in Jobs : ReadForRetry(h, j)
    \/ RetryJob(h)
    \/ CallFails(h)

\* ProcessJob's steps, in the loop of Scheduler.Once.
ProcessJob(w) ==
    \/ \E j \in Jobs : Issue(w, j)
    \/ \E j \in Jobs : IssueFails(w, j)
    \/ PersistResult(w)
    \/ PersistFails(w)

Next ==
    \/ \E r \in Requests : CreateRequest(r)
    \/ \E h \in Handlers : HandlerStep(h)
    \/ \E w \in Workers : ClaimDueJobs(w)
    \/ \E w \in Workers : ProcessJob(w)
    \/ \E w \in Workers, j \in Jobs : FailWriteLost(w, j)
    \/ \E w \in Workers : Crash(w)
    \/ Tick

Spec == Init /\ [][Next]_vars

\* Scheduler.Run loops for as long as the process lives and time passes;
\* operators promise nothing.
Fairness ==
    /\ WF_vars(Tick)
    /\ \A w \in Workers : WF_vars(ClaimDueJobs(w))
    /\ \A w \in Workers : WF_vars(ProcessJob(w))

FairSpec == Spec /\ Fairness

-------------------------------------------------------------------------------
(* Properties *)

\* RetryJob refuses a job whose attempts are used up, and every claim adds one:
\* however stale the rows that CancelJob, RetryJob and the schedulers write
\* back, no job row ever counts more attempts than its maximum, and a queued
\* job always has one left.
AttemptsBounded ==
    \A j \in Jobs :
        /\ job[j].attempts <= MaxAttempts
        /\ job[j].status = "queued" => job[j].attempts < MaxAttempts

\* A row carries a lease exactly while it is processing.  A queued row never
\* has one, so the lease condition of ClaimDueJobs never decides a claim.
LeaseIffProcessing ==
    \A j \in Jobs : job[j].lease # NoLease <=> job[j].status = "processing"

\* The certificate a job names as its result was minted for that job, and a
\* completed job names one, whoever wrote the row last.
ResultIsOwnCertificate ==
    \A j \in Jobs :
        /\ job[j].result # None => cert[job[j].result] = j
        /\ job[j].status = "completed" => job[j].result # None

\* A request is marked issued only when a certificate was minted for one of
\* its own jobs (the second half of ProcessJob follows the first).
IssuedHasCertificate ==
    \A r \in Requests : req[r] = "issued" =>
        \E c \in Certs : cert[c] # None /\ jobReq[cert[c]] = r

CertsOf(j) == {c \in Certs : cert[c] = j}

\* The instances that hold job j from a claim and have not minted for it yet.
Unminted(j) == {w \in Workers : j \in Held(w) /\ current[w] # j}

\* Queueing a job is worth at most one certificate: the certificates minted
\* for a job, the claims that may still mint, and the job's place in the queue
\* together never exceed one for the approval and one per RetryJob.
OneCertificatePerQueueing ==
    \A j \in Jobs :
        Cardinality(CertsOf(j)) + Cardinality(Unminted(j))
          + (IF job[j].status = "queued" THEN 1 ELSE 0)
        <= retries[j] + (IF job[j].status = "absent" THEN 0 ELSE 1)

\* While no scheduler crashes and no failure write is lost, every queued job
\* is claimed, processed and ends completed or failed.
JobSettles ==
    \A j \in Jobs :
        job[j].status = "queued" ~> job[j].status \in {"completed", "failed"}

\* "a crash mid-issuance leaves the lease to expire and the job to be
\* reclaimed" (Scheduler): a processing job whose lease has run out does not
\* stay processing for ever.
ExpiredLeaseReclaimed ==
    \A j \in Jobs :
        (job[j].status = "processing" /\ job[j].lease < now)
            ~> job[j].status # "processing"

\* "each row is handed to exactly one claimer until the lease expires"
\* (ClaimDueJobs): two instances hold the same job only when the lease of one
\* of them has run out.
ExclusiveUntilLeaseExpires ==
    \A j \in Jobs : \A v, w \in Workers :
        (v # w /\ j \in Held(v) /\ j \in Held(w)) =>
            batch[v][j].lease < now \/ batch[w][j].lease < now

\* "RejectRequest moves a pending request to rejected": no other request
\* becomes rejected.
RejectsOnlyPending ==
    [][\A r \in Requests :
          (req'[r] = "rejected" /\ req[r] # "rejected") => req[r] = "pending"]_req

-------------------------------------------------------------------------------
(* The strengthening of the safety properties that is inductive: what the   *)
(* snapshots of handlers and schedulers may hold.                           *)

\* A row that may be written to job j.
RowSound(j, row) ==
    /\ row.attempts <= MaxAttempts
    /\ row.result # None => cert[row.result] = j

HandlerSound ==
    \A h \in Handlers :
        /\ handler[h].op \in {"approve", "reject"} => handler[h].req \in Requests
        /\ handler[h].op \in {"cancel", "retry"} =>
              /\ handler[h].job \in Jobs
              /\ job[handler[h].job].status # "absent"
              /\ RowSound(handler[h].job, handler[h].row)
        /\ handler[h].op = "retry" => handler[h].row.attempts < MaxAttempts

BatchSound ==
    \A w \in Workers : \A j \in Jobs :
        /\ RowSound(j, batch[w][j])
        /\ j \in Held(w) => job[j].status # "absent"

CurrentSound ==
    \A w \in Workers : current[w] # None =>
        /\ current[w] \in Held(w)
        /\ minted[w] \in Certs
        /\ cert[minted[w]] = current[w]

ReferencesSound ==
    /\ \A j \in Jobs : job[j].status # "absent" => jobReq[j] \in Requests
    /\ \A c \in Certs : cert[c] # None => job[cert[c]].status # "absent"

SnapshotInv == HandlerSound /\ BatchSound /\ CurrentSound /\ ReferencesSound

Safety ==
    /\ AttemptsBounded
    /\ LeaseIffProcessing
    /\ ResultIsOwnCertificate
    /\ IssuedHasCertificate

===============================================================================
