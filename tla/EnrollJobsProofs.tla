--------------------------- MODULE EnrollJobsProofs ---------------------------
(***************************************************************************)
(* Proofs about EnrollJobs, for any number of requests, jobs,              *)
(* certificates, handlers and scheduler instances and any value of the     *)
(* bounds.                                                                 *)
(***************************************************************************)
EXTENDS EnrollJobs, FiniteSetTheorems, TLAPS

USE DEF NoLease

\* The rows the statements write are rows.
LEMMA RowFacts ==
    /\ AbsentRow \in Row
    /\ \A t \in Nat : QueuedRow(t) \in Row
    /\ \A row \in Row :
         /\ [row EXCEPT !.status = "failed", !.lease = NoLease] \in Row
         /\ \A c \in Certs \cup {None} :
              /\ [row EXCEPT !.result = c] \in Row
              /\ [row EXCEPT !.status = "completed", !.lease = NoLease,
                             !.result = c] \in Row
         /\ \A t \in Nat :
              [row EXCEPT !.status = "queued", !.lease = NoLease,
                          !.runAfter = t] \in Row
  BY DEF Row, AbsentRow, QueuedRow, JobStatus

\* A handler between two calls holds a well-typed call.
LEMMA IdleType == Idle \in Call
  BY RowFacts DEF Idle, Call

\* The SET clause of ClaimDueJobs turns a row into a row.
LEMMA ClaimedType ==
    ASSUME now \in Nat, NEW row \in Row
    PROVE  Claimed(row) \in Row
<1>1. now + Lease \in Nat /\ row.attempts + 1 \in Nat
  BY TimeAssumption DEF Row
<1>2. QED
  BY <1>1 DEF Claimed, Row, JobStatus

\* What a claim changes in a row and what it keeps.
LEMMA ClaimedFields ==
    ASSUME now \in Nat, NEW row \in Row
    PROVE  /\ Claimed(row).status = "processing"
           /\ Claimed(row).lease # NoLease
           /\ Claimed(row).attempts = row.attempts + 1
           /\ Claimed(row).result = row.result
<1>1. now + Lease # 0
  BY TimeAssumption
<1>2. QED
  BY <1>1 DEF Claimed, Row

\* Clearing one held row, or all of them, leaves a batch a batch.
LEMMA BatchFacts ==
    ASSUME batch \in [Workers -> [Jobs -> Row]], NEW w \in Workers
    PROVE  /\ [batch EXCEPT ![w] = [j \in Jobs |-> AbsentRow]]
                \in [Workers -> [Jobs -> Row]]
           /\ \A j \in Jobs : [batch EXCEPT ![w][j] = AbsentRow]
                \in [Workers -> [Jobs -> Row]]
<1>1. [j \in Jobs |-> AbsentRow] \in [Jobs -> Row]
  BY RowFacts
<1>2. \A j \in Jobs : [batch[w] EXCEPT ![j] = AbsentRow] \in [Jobs -> Row]
  BY RowFacts
<1>3. QED
  BY <1>1, <1>2

\* The empty tables and idle processes have their types.
LEMMA TypeInit == Init => TypeOK
<1> SUFFICES ASSUME Init PROVE TypeOK
  OBVIOUS
<1>1. [j \in Jobs |-> AbsentRow] \in [Jobs -> Row]
  BY RowFacts
<1>2. batch \in [Workers -> [Jobs -> Row]]
  BY <1>1 DEF Init
<1>3. handler \in [Handlers -> Call]
  BY IdleType DEF Init
<1> QED BY <1>1, <1>2, <1>3 DEF Init, TypeOK, RequestStatus

\* No action takes a variable out of its domain.
LEMMA TypeStep == TypeOK /\ [Next]_vars => TypeOK'
<1> SUFFICES ASSUME TypeOK, [Next]_vars PROVE TypeOK'
  OBVIOUS
<1> USE DEF TypeOK, workerVars
<1>1. ASSUME NEW r \in Requests, CreateRequest(r) PROVE TypeOK'
  BY <1>1 DEF CreateRequest, RequestStatus
<1>2. ASSUME NEW h \in Handlers, NEW r \in Requests,
             NEW op \in {"approve", "reject"}, ReadRequest(h, r, op)
      PROVE  TypeOK'
  <2>1. [Idle EXCEPT !.op = op, !.req = r] \in Call
    BY RowFacts DEF Idle, Call
  <2> QED BY <1>2, <2>1 DEF ReadRequest
<1>3. ASSUME NEW h \in Handlers, ApproveRequest(h) PROVE TypeOK'
  <2>1. PICK j \in Jobs, t \in now..(now + Skew) :
           /\ job' = [job EXCEPT ![j] = QueuedRow(t)]
           /\ jobReq' = [jobReq EXCEPT ![j] = handler[h].req]
    BY <1>3 DEF ApproveRequest
  <2>2. t \in Nat
    BY TimeAssumption
  <2>3. job' \in [Jobs -> Row]
    BY <2>1, <2>2, RowFacts
  <2>4. jobReq' \in [Jobs -> Requests \cup {None}]
    BY <2>1 DEF Call
  <2>5. req' \in [Requests -> RequestStatus]
    BY <1>3 DEF ApproveRequest, RequestStatus
  <2> QED BY <1>3, <2>3, <2>4, <2>5, IdleType DEF ApproveRequest
<1>4. ASSUME NEW h \in Handlers, RejectRequest(h) PROVE TypeOK'
  BY <1>4, IdleType DEF RejectRequest, RequestStatus
<1>5. ASSUME NEW h \in Handlers, NEW j \in Jobs, ReadForCancel(h, j)
      PROVE  TypeOK'
  <2>1. [Idle EXCEPT !.op = "cancel", !.job = j, !.row = job[j]] \in Call
    BY DEF Idle, Call
  <2> QED BY <1>5, <2>1 DEF ReadForCancel
<1>6. ASSUME NEW h \in Handlers, CancelJob(h) PROVE TypeOK'
  <2>1. handler[h].row \in Row
    BY DEF Call
  <2> QED BY <1>6, <2>1, IdleType, RowFacts DEF CancelJob
<1>7. ASSUME NEW h \in Handlers, NEW j \in Jobs, ReadForRetry(h, j)
      PROVE  TypeOK'
  <2>1. [Idle EXCEPT !.op = "retry", !.job = j, !.row = job[j]] \in Call
    BY DEF Idle, Call
  <2> QED BY <1>7, <2>1 DEF ReadForRetry
<1>8. ASSUME NEW h \in Handlers, RetryJob(h) PROVE TypeOK'
  <2>1. handler[h].row \in Row
    BY DEF Call
  <2>2. PICK t \in now..(now + Skew) :
          job' = [job EXCEPT ![handler[h].job] =
                    [handler[h].row EXCEPT !.status = "queued",
                                           !.lease = NoLease,
                                           !.runAfter = t]]
    BY <1>8 DEF RetryJob
  <2>3. job' \in [Jobs -> Row]
    <3>1. t \in Nat
      BY TimeAssumption
    <3> QED BY <2>1, <2>2, <3>1, RowFacts
  <2>4. retries' \in [Jobs -> Nat]
    <3>1. CASE handler[h].job \in Jobs
      BY <1>8, <3>1 DEF RetryJob
    <3>2. CASE handler[h].job \notin Jobs
      BY <1>8, <3>2 DEF RetryJob
    <3> QED BY <3>1, <3>2
  <2> QED BY <1>8, <2>3, <2>4, IdleType DEF RetryJob
<1>9. ASSUME NEW h \in Handlers, CallFails(h) PROVE TypeOK'
  BY <1>9, IdleType DEF CallFails
<1>10. ASSUME NEW w \in Workers, ClaimDueJobs(w) PROVE TypeOK'
  <2>1. PICK S \in SUBSET {j \in Jobs : Due(j)} :
          /\ job' = [j \in Jobs |->
                       IF j \in S THEN Claimed(job[j]) ELSE job[j]]
          /\ batch' = [batch EXCEPT ![w] =
               [j \in Jobs |->
                  IF j \in S THEN Claimed(job[j]) ELSE AbsentRow]]
    BY <1>10 DEF ClaimDueJobs
  <2>2. \A j \in Jobs : Claimed(job[j]) \in Row
    BY ClaimedType
  <2>3. job' \in [Jobs -> Row] /\ batch' \in [Workers -> [Jobs -> Row]]
    BY <2>1, <2>2, RowFacts
  <2> QED BY <1>10, <2>3 DEF ClaimDueJobs
<1>11. ASSUME NEW w \in Workers, NEW j \in Jobs, Issue(w, j) PROVE TypeOK'
  BY <1>11 DEF Issue
<1>12. ASSUME NEW w \in Workers, NEW j \in Jobs, IssueFails(w, j)
       PROVE  TypeOK'
  <2>1. batch[w][j] \in Row
    OBVIOUS
  <2> QED BY <1>12, <2>1, RowFacts, BatchFacts
          DEF IssueFails, FailJob, Release
<1>13. ASSUME NEW w \in Workers, PersistResult(w) PROVE TypeOK'
  <2>1. current[w] \in Jobs /\ batch[w][current[w]] \in Row
    BY <1>13 DEF PersistResult
  <2>2. minted[w] \in Certs \cup {None}
    OBVIOUS
  <2>3. job' \in [Jobs -> Row]
    BY <1>13, <2>1, <2>2, RowFacts DEF PersistResult
  <2>4. req' \in [Requests -> RequestStatus]
    BY <1>13 DEF PersistResult, RequestStatus
  <2> QED BY <1>13, <2>3, <2>4, BatchFacts
          DEF PersistResult, Release
<1>14. ASSUME NEW w \in Workers, PersistFails(w) PROVE TypeOK'
  <2>1. current[w] \in Jobs /\ batch[w][current[w]] \in Row
    BY <1>14 DEF PersistFails
  <2>2. [batch[w][current[w]] EXCEPT !.result = minted[w]] \in Row
    BY <2>1, RowFacts
  <2> QED BY <1>14, <2>1, <2>2, RowFacts, BatchFacts
          DEF PersistFails, FailJob, Release
<1>15. ASSUME NEW w \in Workers, NEW j \in Jobs, FailWriteLost(w, j)
       PROVE  TypeOK'
  BY <1>15, BatchFacts DEF FailWriteLost, Release
<1>16. ASSUME NEW w \in Workers, Crash(w) PROVE TypeOK'
  BY <1>16, BatchFacts DEF Crash
<1>17. CASE Tick
  BY <1>17 DEF Tick
<1>18. CASE UNCHANGED vars
  BY <1>18 DEF vars
<1> QED
  BY <1>1, <1>2, <1>3, <1>4, <1>5, <1>6, <1>7, <1>8, <1>9, <1>10, <1>11,
     <1>12, <1>13, <1>14, <1>15, <1>16, <1>17, <1>18
     DEF Next, HandlerStep, ProcessJob

\* Type correctness: whatever the interleaving of API calls, scheduler
\* instances, crashes and failed writes, every row, snapshot and history
\* variable stays in its domain.
THEOREM TypeCorrect == Spec => []TypeOK
  BY TypeInit, TypeStep, PTL DEF Spec


\* What the induction for the safety theorem carries.
IInv == TypeOK /\ SnapshotInv /\ Safety

\* No step breaks the snapshots' soundness or the safety properties.  Each
\* action has a step for every conjunct it can disturb.
LEMMA SafetyStep == IInv /\ TypeOK' /\ [Next]_vars => (SnapshotInv /\ Safety)'
<1> SUFFICES ASSUME TypeOK, SnapshotInv, Safety, TypeOK', [Next]_vars
             PROVE  (SnapshotInv /\ Safety)'
  BY DEF IInv
<1> USE NoneAssumption, MaxAttemptsAssumption, TimeAssumption
    DEF TypeOK, workerVars, SnapshotInv, Safety
<1>1. ASSUME NEW r \in Requests, CreateRequest(r)
      PROVE  (SnapshotInv /\ Safety)'
  <2>1. IssuedHasCertificate'
    BY <1>1 DEF IssuedHasCertificate, CreateRequest
  <2>2. (HandlerSound /\ BatchSound /\ CurrentSound /\ ReferencesSound
        /\ AttemptsBounded /\ LeaseIffProcessing /\ ResultIsOwnCertificate)'
    BY <1>1 DEF HandlerSound, RowSound, BatchSound, Held, CurrentSound,
        ReferencesSound, AttemptsBounded, LeaseIffProcessing,
        ResultIsOwnCertificate, CreateRequest
  <2> QED BY <2>1, <2>2
<1>2. ASSUME NEW h \in Handlers, NEW r \in Requests,
             NEW op \in {"approve", "reject"}, ReadRequest(h, r, op)
      PROVE  (SnapshotInv /\ Safety)'
  <2>1. HandlerSound'
    BY <1>2 DEF HandlerSound, RowSound, Call, Row, ReadRequest, Idle
  <2>2. (BatchSound /\ CurrentSound /\ ReferencesSound /\ AttemptsBounded
        /\ LeaseIffProcessing /\ ResultIsOwnCertificate
        /\ IssuedHasCertificate)'
    BY <1>2 DEF BatchSound, RowSound, Held, CurrentSound, ReferencesSound,
        AttemptsBounded, LeaseIffProcessing, ResultIsOwnCertificate,
        IssuedHasCertificate, ReadRequest
  <2> QED BY <2>1, <2>2
<1>3. ASSUME NEW h \in Handlers, ApproveRequest(h)
      PROVE  (SnapshotInv /\ Safety)'
  <2>1. HandlerSound'
    BY <1>3 DEF HandlerSound, RowSound, Call, Row, ApproveRequest, Idle,
        QueuedRow, AbsentRow
  <2>2. BatchSound'
    BY <1>3 DEF BatchSound, RowSound, Held, Row, AbsentRow, ApproveRequest,
        QueuedRow
  <2>3. ReferencesSound'
    BY <1>3 DEF ReferencesSound, ApproveRequest, HandlerSound, QueuedRow,
        AbsentRow
  <2>4. AttemptsBounded'
    BY <1>3 DEF AttemptsBounded, ApproveRequest, QueuedRow, AbsentRow
  <2>5. LeaseIffProcessing'
    BY <1>3 DEF LeaseIffProcessing, ApproveRequest, QueuedRow, AbsentRow
  <2>6. ResultIsOwnCertificate'
    BY <1>3 DEF ResultIsOwnCertificate, ApproveRequest, QueuedRow, AbsentRow
  <2>7. IssuedHasCertificate'
    BY <1>3 DEF IssuedHasCertificate, ApproveRequest, ReferencesSound
  <2>8. (CurrentSound)'
    BY <1>3 DEF CurrentSound, Held, ApproveRequest
  <2> QED BY <2>1, <2>2, <2>3, <2>4, <2>5, <2>6, <2>7, <2>8
<1>4. ASSUME NEW h \in Handlers, RejectRequest(h)
      PROVE  (SnapshotInv /\ Safety)'
  <2>1. HandlerSound'
    BY <1>4 DEF HandlerSound, RowSound, Call, Row, RejectRequest, Idle
  <2>2. IssuedHasCertificate'
    BY <1>4 DEF IssuedHasCertificate, RejectRequest
  <2>3. (BatchSound /\ CurrentSound /\ ReferencesSound /\ AttemptsBounded
        /\ LeaseIffProcessing /\ ResultIsOwnCertificate)'
    BY <1>4 DEF BatchSound, RowSound, Held, CurrentSound, ReferencesSound,
        AttemptsBounded, LeaseIffProcessing, ResultIsOwnCertificate,
        RejectRequest
  <2> QED BY <2>1, <2>2, <2>3
<1>5. ASSUME NEW h \in Handlers, NEW j \in Jobs, ReadForCancel(h, j)
      PROVE  (SnapshotInv /\ Safety)'
  <2>1. HandlerSound'
    BY <1>5 DEF HandlerSound, RowSound, Call, Row, ReadForCancel, Idle,
        AttemptsBounded, ResultIsOwnCertificate
  <2>2. (BatchSound /\ CurrentSound /\ ReferencesSound /\ AttemptsBounded
        /\ LeaseIffProcessing /\ ResultIsOwnCertificate
        /\ IssuedHasCertificate)'
    BY <1>5 DEF BatchSound, RowSound, Held, CurrentSound, ReferencesSound,
        AttemptsBounded, LeaseIffProcessing, ResultIsOwnCertificate,
        IssuedHasCertificate, ReadForCancel
  <2> QED BY <2>1, <2>2
<1>6. ASSUME NEW h \in Handlers, CancelJob(h)
      PROVE  (SnapshotInv /\ Safety)'
  <2>1. HandlerSound'
    BY <1>6 DEF HandlerSound, RowSound, Call, Row, CancelJob, Idle
  <2>2. BatchSound'
    BY <1>6 DEF BatchSound, RowSound, Held, Row, AbsentRow, CancelJob
  <2>3. ReferencesSound'
    BY <1>6 DEF ReferencesSound, CancelJob, HandlerSound, RowSound, Call, Row
  <2>4. AttemptsBounded'
    BY <1>6 DEF AttemptsBounded, CancelJob, HandlerSound, RowSound, Call, Row
  <2>5. LeaseIffProcessing'
    BY <1>6 DEF LeaseIffProcessing, CancelJob, HandlerSound, RowSound, Call,
        Row
  <2>6. ResultIsOwnCertificate'
    BY <1>6 DEF ResultIsOwnCertificate, CancelJob, HandlerSound, RowSound,
        Call, Row
  <2>7. (CurrentSound /\ IssuedHasCertificate)'
    BY <1>6 DEF CurrentSound, Held, IssuedHasCertificate, CancelJob
  <2> QED BY <2>1, <2>2, <2>3, <2>4, <2>5, <2>6, <2>7
<1>7. ASSUME NEW h \in Handlers, NEW j \in Jobs, ReadForRetry(h, j)
      PROVE  (SnapshotInv /\ Safety)'
  <2>1. HandlerSound'
    BY <1>7 DEF HandlerSound, RowSound, Call, Row, ReadForRetry, Idle,
        AttemptsBounded, ResultIsOwnCertificate
  <2>2. (BatchSound /\ CurrentSound /\ ReferencesSound /\ AttemptsBounded
        /\ LeaseIffProcessing /\ ResultIsOwnCertificate
        /\ IssuedHasCertificate)'
    BY <1>7 DEF BatchSound, RowSound, Held, CurrentSound, ReferencesSound,
        AttemptsBounded, LeaseIffProcessing, ResultIsOwnCertificate,
        IssuedHasCertificate, ReadForRetry
  <2> QED BY <2>1, <2>2
<1>8. ASSUME NEW h \in Handlers, RetryJob(h)
      PROVE  (SnapshotInv /\ Safety)'
  <2>1. HandlerSound'
    BY <1>8 DEF HandlerSound, RowSound, Call, Row, RetryJob, Idle
  <2>2. BatchSound'
    BY <1>8 DEF BatchSound, RowSound, Held, Row, AbsentRow, RetryJob
  <2>3. ReferencesSound'
    BY <1>8 DEF ReferencesSound, RetryJob, HandlerSound, RowSound, Call, Row
  <2>4. AttemptsBounded'
    BY <1>8 DEF AttemptsBounded, RetryJob, HandlerSound, RowSound, Call, Row
  <2>5. LeaseIffProcessing'
    BY <1>8 DEF LeaseIffProcessing, RetryJob, HandlerSound, RowSound, Call,
        Row
  <2>6. ResultIsOwnCertificate'
    BY <1>8 DEF ResultIsOwnCertificate, RetryJob, HandlerSound, RowSound,
        Call, Row
  <2>7. (CurrentSound /\ IssuedHasCertificate)'
    BY <1>8 DEF CurrentSound, Held, IssuedHasCertificate, RetryJob
  <2> QED BY <2>1, <2>2, <2>3, <2>4, <2>5, <2>6, <2>7
<1>9. ASSUME NEW h \in Handlers, CallFails(h)
      PROVE  (SnapshotInv /\ Safety)'
  <2>1. HandlerSound'
    BY <1>9 DEF HandlerSound, RowSound, Call, Row, CallFails, Idle
  <2>2. (BatchSound /\ CurrentSound /\ ReferencesSound /\ AttemptsBounded
        /\ LeaseIffProcessing /\ ResultIsOwnCertificate
        /\ IssuedHasCertificate)'
    BY <1>9 DEF BatchSound, RowSound, Held, CurrentSound, ReferencesSound,
        AttemptsBounded, LeaseIffProcessing, ResultIsOwnCertificate,
        IssuedHasCertificate, CallFails
  <2> QED BY <2>1, <2>2
<1>10. ASSUME NEW w \in Workers, ClaimDueJobs(w)
      PROVE  (SnapshotInv /\ Safety)'
  <2>1. PICK S \in SUBSET {j \in Jobs : Due(j)} :
          /\ job' = [j \in Jobs |->
                       IF j \in S THEN Claimed(job[j]) ELSE job[j]]
          /\ batch' = [batch EXCEPT ![w] =
               [j \in Jobs |->
                  IF j \in S THEN Claimed(job[j]) ELSE AbsentRow]]
    BY <1>10 DEF ClaimDueJobs
  <2>2. \A j \in S :
          /\ j \in Jobs
          /\ job[j].status = "queued"
          /\ Claimed(job[j]).status = "processing"
          /\ Claimed(job[j]).lease # NoLease
          /\ Claimed(job[j]).attempts = job[j].attempts + 1
          /\ Claimed(job[j]).result = job[j].result
    BY ClaimedFields DEF Due
  <2>3. \A j \in Jobs : job[j].attempts \in Nat
    BY DEF Row
  <2>4. \A j \in Jobs : job[j].status # "absent" => job'[j].status # "absent"
    BY <2>1, <2>2
  <2>5. \A j \in Jobs : job'[j].status = "absent" \/ j \in S \/ job'[j] = job[j]
    BY <2>1
  <2>6. UNCHANGED <<req, jobReq, cert, handler, current, minted>>
    BY <1>10 DEF ClaimDueJobs
  <2>7. HandlerSound'
    BY <2>4, <2>6 DEF HandlerSound, RowSound
  <2>8. BatchSound'
    <3> SUFFICES ASSUME NEW v \in Workers, NEW j \in Jobs
                 PROVE  /\ RowSound(j, batch[v][j])'
                        /\ batch'[v][j] # AbsentRow => job'[j].status # "absent"
      BY DEF BatchSound, Held
    <3>1. CASE v # w
      BY <2>1, <2>4, <2>6, <3>1 DEF BatchSound, RowSound, Held
    <3>2. CASE v = w /\ j \in S
      <4>1. batch'[v][j] = Claimed(job[j]) /\ job'[j] = Claimed(job[j])
        BY <2>1, <3>2
      <4>2. job[j].attempts < MaxAttempts
        BY <2>2, <3>2 DEF AttemptsBounded
      <4>3. Claimed(job[j]).attempts <= MaxAttempts
        BY <2>2, <2>3, <3>2, <4>2
      <4> QED BY <2>2, <2>6, <3>2, <4>1, <4>3 DEF RowSound, ResultIsOwnCertificate
    <3>3. CASE v = w /\ j \notin S
      BY <2>1, <3>3 DEF RowSound, AbsentRow
    <3> QED BY <3>1, <3>2, <3>3
  <2>9. CurrentSound'
    <3>1. \A v \in Workers : v # w => batch'[v] = batch[v]
      BY <2>1
    <3>2. current[w] = None
      BY <1>10 DEF ClaimDueJobs, CurrentSound
    <3> QED BY <2>6, <3>1, <3>2 DEF CurrentSound, Held
  <2>10. ReferencesSound'
    BY <2>1, <2>2, <2>4, <2>6 DEF ReferencesSound
  <2>11. AttemptsBounded'
    BY <2>1, <2>2, <2>3 DEF AttemptsBounded
  <2>12. LeaseIffProcessing'
    BY <2>1, <2>2 DEF LeaseIffProcessing
  <2>13. ResultIsOwnCertificate'
    BY <2>1, <2>2, <2>6 DEF ResultIsOwnCertificate
  <2>14. IssuedHasCertificate'
    BY <2>6 DEF IssuedHasCertificate
  <2> QED BY <2>7, <2>8, <2>9, <2>10, <2>11, <2>12, <2>13, <2>14
<1>11. ASSUME NEW w \in Workers, NEW j \in Jobs, Issue(w, j)
      PROVE  (SnapshotInv /\ Safety)'
  <2>a. \A c \in Certs : cert[c] # None => cert'[c] = cert[c]
    BY <1>11 DEF Issue
  <2>b. UNCHANGED <<job, handler, batch>>
    BY <1>11 DEF Issue
  <2>c. ASSUME NEW i \in Jobs, NEW r \in Row, RowSound(i, r) PROVE RowSound(i, r)'
    <3>1. r.result \in Certs \cup {None}
      BY DEF Row
    <3> QED BY <2>a, <2>c, <3>1 DEF RowSound
  <2>1. HandlerSound'
    <3>1. \A h \in Handlers : handler[h].row \in Row
      BY DEF Call
    <3> QED BY <2>b, <2>c, <3>1 DEF HandlerSound
  <2>2. BatchSound'
    <3>1. \A v \in Workers, i \in Jobs : batch[v][i] \in Row
      OBVIOUS
    <3> QED BY <2>b, <2>c, <3>1 DEF BatchSound, Held
  <2>3. CurrentSound'
    BY <1>11 DEF CurrentSound, Held, Issue
  <2>4. ReferencesSound'
    BY <1>11 DEF ReferencesSound, Issue, BatchSound
  <2>5. ResultIsOwnCertificate'
    BY <1>11 DEF ResultIsOwnCertificate, Issue, Row
  <2>6. IssuedHasCertificate'
    BY <1>11 DEF IssuedHasCertificate, Issue
  <2>7. (AttemptsBounded /\ LeaseIffProcessing)'
    BY <1>11 DEF AttemptsBounded, LeaseIffProcessing, Issue
  <2> QED BY <2>1, <2>2, <2>3, <2>4, <2>5, <2>6, <2>7
<1>12. ASSUME NEW w \in Workers, NEW j \in Jobs, IssueFails(w, j)
      PROVE  (SnapshotInv /\ Safety)'
  <2>1. HandlerSound'
    BY <1>12 DEF HandlerSound, RowSound, Call, Row, IssueFails, FailJob,
        Release
  <2>2. BatchSound'
    BY <1>12 DEF BatchSound, RowSound, Held, Row, AbsentRow, IssueFails,
        FailJob, Release
  <2>3. CurrentSound'
    BY <1>12 DEF CurrentSound, Held, IssueFails, FailJob, Release
  <2>4. ReferencesSound'
    BY <1>12 DEF ReferencesSound, IssueFails, FailJob, Release, BatchSound,
        RowSound, Held, Row, AbsentRow
  <2>5. AttemptsBounded'
    BY <1>12 DEF AttemptsBounded, IssueFails, FailJob, Release, BatchSound,
        RowSound, Held, Row, AbsentRow
  <2>6. LeaseIffProcessing'
    BY <1>12 DEF LeaseIffProcessing, IssueFails, FailJob, Release, BatchSound,
        RowSound, Held, Row, AbsentRow
  <2>7. ResultIsOwnCertificate'
    BY <1>12 DEF ResultIsOwnCertificate, IssueFails, FailJob, Release,
        BatchSound, RowSound, Held, Row, AbsentRow
  <2>8. (IssuedHasCertificate)'
    BY <1>12 DEF IssuedHasCertificate, IssueFails, FailJob, Release
  <2> QED BY <2>1, <2>2, <2>3, <2>4, <2>5, <2>6, <2>7, <2>8
<1>13. ASSUME NEW w \in Workers, PersistResult(w)
      PROVE  (SnapshotInv /\ Safety)'
  <2>1. HandlerSound'
    BY <1>13 DEF HandlerSound, RowSound, Call, Row, PersistResult, Release
  <2>2. BatchSound'
    BY <1>13 DEF BatchSound, RowSound, Held, Row, AbsentRow, PersistResult,
        Release
  <2>3. CurrentSound'
    BY <1>13 DEF CurrentSound, Held, PersistResult, Release
  <2>4. ReferencesSound'
    BY <1>13 DEF ReferencesSound, PersistResult, Release, BatchSound,
        RowSound, Held, Row, AbsentRow, CurrentSound
  <2>5. AttemptsBounded'
    BY <1>13 DEF AttemptsBounded, PersistResult, Release, BatchSound,
        RowSound, Held, Row, AbsentRow
  <2>6. LeaseIffProcessing'
    BY <1>13 DEF LeaseIffProcessing, PersistResult, Release, BatchSound,
        RowSound, Held, Row, AbsentRow
  <2>7. ResultIsOwnCertificate'
    BY <1>13 DEF ResultIsOwnCertificate, PersistResult, Release, BatchSound,
        RowSound, Held, Row, AbsentRow, CurrentSound
  <2>8. IssuedHasCertificate'
    BY <1>13 DEF IssuedHasCertificate, PersistResult, Release, CurrentSound
  <2> QED BY <2>1, <2>2, <2>3, <2>4, <2>5, <2>6, <2>7, <2>8
<1>14. ASSUME NEW w \in Workers, PersistFails(w)
      PROVE  (SnapshotInv /\ Safety)'
  <2>1. HandlerSound'
    BY <1>14 DEF HandlerSound, RowSound, Call, Row, PersistFails, FailJob,
        Release
  <2>2. BatchSound'
    BY <1>14 DEF BatchSound, RowSound, Held, Row, AbsentRow, PersistFails,
        FailJob, Release
  <2>3. CurrentSound'
    BY <1>14 DEF CurrentSound, Held, PersistFails, FailJob, Release
  <2>4. ReferencesSound'
    BY <1>14 DEF ReferencesSound, PersistFails, FailJob, Release, BatchSound,
        RowSound, Held, Row, AbsentRow, CurrentSound
  <2>5. AttemptsBounded'
    BY <1>14 DEF AttemptsBounded, PersistFails, FailJob, Release, BatchSound,
        RowSound, Held, Row, AbsentRow
  <2>6. LeaseIffProcessing'
    BY <1>14 DEF LeaseIffProcessing, PersistFails, FailJob, Release,
        BatchSound, RowSound, Held, Row, AbsentRow
  <2>7. ResultIsOwnCertificate'
    BY <1>14 DEF ResultIsOwnCertificate, PersistFails, FailJob, Release,
        BatchSound, RowSound, Held, Row, AbsentRow, CurrentSound
  <2>8. (IssuedHasCertificate)'
    BY <1>14 DEF IssuedHasCertificate, PersistFails, FailJob, Release
  <2> QED BY <2>1, <2>2, <2>3, <2>4, <2>5, <2>6, <2>7, <2>8
<1>15. ASSUME NEW w \in Workers, NEW j \in Jobs, FailWriteLost(w, j)
      PROVE  (SnapshotInv /\ Safety)'
  <2>1. BatchSound'
    BY <1>15 DEF BatchSound, RowSound, Held, Row, AbsentRow, FailWriteLost,
        Release
  <2>2. CurrentSound'
    BY <1>15 DEF CurrentSound, Held, FailWriteLost, Release
  <2>3. (HandlerSound /\ ReferencesSound /\ AttemptsBounded
        /\ LeaseIffProcessing /\ ResultIsOwnCertificate
        /\ IssuedHasCertificate)'
    BY <1>15 DEF HandlerSound, RowSound, ReferencesSound, AttemptsBounded,
        LeaseIffProcessing, ResultIsOwnCertificate, IssuedHasCertificate,
        FailWriteLost, Release
  <2> QED BY <2>1, <2>2, <2>3
<1>16. ASSUME NEW w \in Workers, Crash(w)
      PROVE  (SnapshotInv /\ Safety)'
  <2>1. BatchSound'
    BY <1>16 DEF BatchSound, RowSound, Held, Row, AbsentRow, Crash
  <2>2. CurrentSound'
    BY <1>16 DEF CurrentSound, Held, Crash
  <2>3. (HandlerSound /\ ReferencesSound /\ AttemptsBounded
        /\ LeaseIffProcessing /\ ResultIsOwnCertificate
        /\ IssuedHasCertificate)'
    BY <1>16 DEF HandlerSound, RowSound, ReferencesSound, AttemptsBounded,
        LeaseIffProcessing, ResultIsOwnCertificate, IssuedHasCertificate,
        Crash
  <2> QED BY <2>1, <2>2, <2>3
<1>17. CASE Tick
  <2>1. UNCHANGED <<req, job, jobReq, cert, handler, batch, current, minted>>
    BY <1>17 DEF Tick
  <2>2. HandlerSound'
    BY <2>1 DEF HandlerSound, RowSound
  <2>3. BatchSound' /\ CurrentSound'
    BY <2>1 DEF BatchSound, CurrentSound, RowSound, Held
  <2>4. ReferencesSound' /\ AttemptsBounded' /\ LeaseIffProcessing'
    BY <2>1 DEF ReferencesSound, AttemptsBounded, LeaseIffProcessing
  <2>5. ResultIsOwnCertificate' /\ IssuedHasCertificate'
    BY <2>1 DEF ResultIsOwnCertificate, IssuedHasCertificate
  <2> QED BY <2>2, <2>3, <2>4, <2>5
<1>18. CASE UNCHANGED vars
  <2>1. UNCHANGED <<req, job, jobReq, cert, handler, batch, current, minted>>
    BY <1>18 DEF vars
  <2>2. HandlerSound'
    BY <2>1 DEF HandlerSound, RowSound
  <2>3. BatchSound' /\ CurrentSound'
    BY <2>1 DEF BatchSound, CurrentSound, RowSound, Held
  <2>4. ReferencesSound' /\ AttemptsBounded' /\ LeaseIffProcessing'
    BY <2>1 DEF ReferencesSound, AttemptsBounded, LeaseIffProcessing
  <2>5. ResultIsOwnCertificate' /\ IssuedHasCertificate'
    BY <2>1 DEF ResultIsOwnCertificate, IssuedHasCertificate
  <2> QED BY <2>2, <2>3, <2>4, <2>5
<1> HIDE DEF TypeOK, workerVars, SnapshotInv, Safety
<1>19. ASSUME NEW h \in Handlers, HandlerStep(h) PROVE (SnapshotInv /\ Safety)'
  BY <1>2, <1>3, <1>4, <1>5, <1>6, <1>7, <1>8, <1>9, <1>19 DEF HandlerStep
<1>20. ASSUME NEW w \in Workers, ProcessJob(w) PROVE (SnapshotInv /\ Safety)'
  BY <1>11, <1>12, <1>13, <1>14, <1>20 DEF ProcessJob
<1> QED
  BY <1>1, <1>10, <1>15, <1>16, <1>17, <1>18, <1>19, <1>20 DEF Next

\* The empty queue satisfies the inductive invariant.
LEMMA SafetyInit == Init => SnapshotInv /\ Safety
  BY NoneAssumption, MaxAttemptsAssumption
     DEF Init, SnapshotInv, Safety, HandlerSound, BatchSound, CurrentSound,
         ReferencesSound, RowSound, Held, AttemptsBounded, LeaseIffProcessing,
         ResultIsOwnCertificate, IssuedHasCertificate, AbsentRow, Idle

\* The safety of the queue for every instance: attempts never exceed their
\* maximum, a lease is held exactly while processing, a result is the job's
\* own certificate and an issued request has one.
THEOREM SafetyCorrect == Spec => []Safety
<1>1. Init => IInv
  BY SafetyInit, TypeInit DEF IInv
<1>2. IInv /\ [Next]_vars => IInv'
  BY TypeStep, SafetyStep DEF IInv
<1>3. IInv => Safety
  BY DEF IInv
<1>4. QED
  BY <1>1, <1>2, <1>3, PTL DEF Spec

\* However stale the rows written back, a job never counts more attempts than
\* its maximum, and a queued one has an attempt left.
THEOREM AttemptsCorrect == Spec => []AttemptsBounded
<1>1. Safety => AttemptsBounded
  BY DEF Safety
<1>2. QED
  BY <1>1, SafetyCorrect, PTL

\* A completed job names a certificate minted for it, and an issued request
\* has a certificate.
THEOREM ResultsCorrect == Spec => [](ResultIsOwnCertificate /\ IssuedHasCertificate)
<1>1. Safety => ResultIsOwnCertificate /\ IssuedHasCertificate
  BY DEF Safety
<1>2. QED
  BY <1>1, SafetyCorrect, PTL

\* A request marked issued (ProcessJob, SetRequestStatus) has a certificate
\* minted for it, also after rejections and failures written from stale reads.
THEOREM IssuedCorrect == Spec => []IssuedHasCertificate
  BY ResultsCorrect, PTL

\* A lease is held exactly while the row is processing.
THEOREM LeaseCorrect == Spec => []LeaseIffProcessing
<1>1. Safety => LeaseIffProcessing
  BY DEF Safety
<1>2. QED
  BY <1>1, SafetyCorrect, PTL

\* The sets the count ranges over are finite.
LEMMA CountFacts ==
    \A j \in Jobs :
        /\ IsFiniteSet(CertsOf(j)) /\ Cardinality(CertsOf(j)) \in Nat
        /\ IsFiniteSet(Unminted(j)) /\ Cardinality(Unminted(j)) \in Nat
<1> TAKE j \in Jobs
<1>1. CertsOf(j) \in SUBSET Certs /\ Unminted(j) \in SUBSET Workers
  BY DEF CertsOf, Unminted
<1>2. IsFiniteSet(CertsOf(j)) /\ IsFiniteSet(Unminted(j))
  BY <1>1, FiniteAssumption, FS_Subset
<1>3. QED
  BY <1>2, FS_CardinalityType

\* A step that mints nothing, queues nothing and gives no instance a job keeps
\* the count.
LEMMA CountKept ==
    ASSUME TypeOK, OneCertificatePerQueueing,
           cert' = cert, retries' = retries,
           \A j \in Jobs : Unminted(j)' \in SUBSET Unminted(j),
           \A j \in Jobs : job'[j].status = "queued" => job[j].status = "queued",
           \A j \in Jobs : job[j].status # "absent" => job'[j].status # "absent"
    PROVE  OneCertificatePerQueueing'
<1> SUFFICES ASSUME NEW j \in Jobs
             PROVE  (Cardinality(CertsOf(j)) + Cardinality(Unminted(j))
                       + (IF job[j].status = "queued" THEN 1 ELSE 0)
                     <= retries[j] + (IF job[j].status = "absent" THEN 0 ELSE 1))'
  BY DEF OneCertificatePerQueueing
<1>1. CertsOf(j)' = CertsOf(j)
  BY DEF CertsOf
<1>2. /\ Cardinality(Unminted(j)') <= Cardinality(Unminted(j))
      /\ Cardinality(Unminted(j)') \in Nat
  BY CountFacts, FS_Subset, FS_CardinalityType
<1>3. Cardinality(CertsOf(j)) \in Nat /\ Cardinality(Unminted(j)) \in Nat
  BY CountFacts
<1>4. retries[j] \in Nat
  BY DEF TypeOK
<1>5. Cardinality(CertsOf(j)) + Cardinality(Unminted(j))
        + (IF job[j].status = "queued" THEN 1 ELSE 0)
      <= retries[j] + (IF job[j].status = "absent" THEN 0 ELSE 1)
  BY DEF OneCertificatePerQueueing
<1>6. QED
  BY <1>1, <1>2, <1>3, <1>4, <1>5

\* One step keeps the count.
LEMMA CountStep ==
    IInv /\ OneCertificatePerQueueing /\ [Next]_vars => OneCertificatePerQueueing'
<1> SUFFICES ASSUME TypeOK, SnapshotInv, Safety, OneCertificatePerQueueing,
                    [Next]_vars
             PROVE  OneCertificatePerQueueing'
  BY DEF IInv
<1> USE NoneAssumption DEF TypeOK, workerVars, SnapshotInv
<1> DEFINE Bound(j) ==
             Cardinality(CertsOf(j)) + Cardinality(Unminted(j))
               + (IF job[j].status = "queued" THEN 1 ELSE 0)
             <= retries[j] + (IF job[j].status = "absent" THEN 0 ELSE 1)
<1>a. \A j \in Jobs : Bound(j) /\ retries[j] \in Nat
  BY DEF OneCertificatePerQueueing
<1>1. ASSUME NEW r \in Requests, CreateRequest(r) PROVE OneCertificatePerQueueing'
  BY <1>1, CountKept DEF CreateRequest, Unminted, Held
<1>2. ASSUME NEW h \in Handlers,
             \/ \E r \in Requests, op \in {"approve", "reject"} :
                  ReadRequest(h, r, op)
             \/ RejectRequest(h)
             \/ \E j \in Jobs : ReadForCancel(h, j) \/ ReadForRetry(h, j)
             \/ CallFails(h)
      PROVE  OneCertificatePerQueueing'
  <2>1. UNCHANGED <<job, cert, batch, current, retries>>
    BY <1>2 DEF ReadRequest, RejectRequest, ReadForCancel, ReadForRetry, CallFails
  <2> QED BY <2>1, CountKept DEF Unminted, Held
<1>3. ASSUME NEW h \in Handlers, ApproveRequest(h) PROVE OneCertificatePerQueueing'
  <2>1. PICK i \in Jobs, t \in now..(now + Skew) :
          job[i].status = "absent" /\ job' = [job EXCEPT ![i] = QueuedRow(t)]
    BY <1>3 DEF ApproveRequest
  <2>2. job'[i].status = "queued"
    BY <2>1 DEF QueuedRow, AbsentRow
  <2>3. UNCHANGED <<cert, batch, current, retries>>
    BY <1>3 DEF ApproveRequest
  <2>4. \A j \in Jobs : CertsOf(j)' = CertsOf(j) /\ Unminted(j)' = Unminted(j)
    BY <2>3 DEF CertsOf, Unminted, Held
  <2>5. ASSUME NEW j \in Jobs PROVE Bound(j)'
    <3>1. CASE j = i
      BY <1>a, <2>1, <2>2, <2>3, <2>4, <3>1, CountFacts
    <3>2. CASE j # i
      BY <1>a, <2>1, <2>3, <2>4, <3>2
    <3> QED BY <3>1, <3>2
  <2> QED BY <2>5 DEF OneCertificatePerQueueing
<1>4. ASSUME NEW h \in Handlers, CancelJob(h) PROVE OneCertificatePerQueueing'
  <2>1. /\ \A j \in Jobs : job'[j].status = "queued" => job[j].status = "queued"
        /\ \A j \in Jobs : job[j].status # "absent" => job'[j].status # "absent"
    BY <1>4 DEF CancelJob, Call, Row
  <2> QED BY <1>4, <2>1, CountKept DEF CancelJob, Unminted, Held
<1>5. ASSUME NEW h \in Handlers, RetryJob(h) PROVE OneCertificatePerQueueing'
  <2>1. handler[h].job \in Jobs /\ job[handler[h].job].status # "absent"
    BY <1>5 DEF RetryJob, HandlerSound
  <2>2. PICK i \in Jobs : i = handler[h].job
    BY <2>1
  <2>3. /\ job'[i].status = "queued"
        /\ \A j \in Jobs : j # i => job'[j] = job[j]
    BY <1>5, <2>2 DEF RetryJob, Call, Row
  <2>4. retries' = [retries EXCEPT ![i] = @ + 1]
    BY <1>5, <2>2 DEF RetryJob
  <2>5. \A j \in Jobs : CertsOf(j)' = CertsOf(j) /\ Unminted(j)' = Unminted(j)
    BY <1>5 DEF RetryJob, CertsOf, Unminted, Held
  <2>6. ASSUME NEW j \in Jobs PROVE Bound(j)'
    <3>1. CASE j = i
      <4>1. retries'[j] = retries[j] + 1
        BY <2>4, <3>1
      <4>2. job[j].status # "absent" /\ job'[j].status = "queued"
        BY <2>1, <2>2, <2>3, <3>1
      <4>3. /\ Cardinality(CertsOf(j)') = Cardinality(CertsOf(j))
            /\ Cardinality(Unminted(j)') = Cardinality(Unminted(j))
        BY <2>5
      <4> HIDE DEF TypeOK, SnapshotInv
      <4>4. /\ Cardinality(CertsOf(j)) \in Nat /\ Cardinality(Unminted(j)) \in Nat
            /\ Bound(j) /\ retries[j] \in Nat
        BY <1>a, CountFacts
      <4>5. Cardinality(CertsOf(j)) + Cardinality(Unminted(j)) <= retries[j] + 1
        BY <4>2, <4>4
      <4>6. Cardinality(CertsOf(j)') + Cardinality(Unminted(j)') + 1 <= retries'[j] + 1
        BY <4>1, <4>3, <4>4, <4>5
      <4> QED BY <4>2, <4>6
    <3>2. CASE j # i
      BY <1>a, <2>3, <2>4, <2>5, <3>2
    <3> QED BY <3>1, <3>2
  <2> QED BY <2>6 DEF OneCertificatePerQueueing
<1>6. ASSUME NEW w \in Workers, ClaimDueJobs(w) PROVE OneCertificatePerQueueing'
  <2>1. PICK S \in SUBSET {j \in Jobs : Due(j)} :
          /\ job' = [j \in Jobs |->
                       IF j \in S THEN Claimed(job[j]) ELSE job[j]]
          /\ batch' = [batch EXCEPT ![w] =
               [j \in Jobs |->
                  IF j \in S THEN Claimed(job[j]) ELSE AbsentRow]]
    BY <1>6 DEF ClaimDueJobs
  <2>2. UNCHANGED <<cert, current, retries>>
    BY <1>6 DEF ClaimDueJobs
  <2>3. \A j \in Jobs : CertsOf(j)' = CertsOf(j)
    BY <2>2 DEF CertsOf
  <2>4. ASSUME NEW j \in Jobs PROVE Bound(j)'
    <3>1. CASE j \in S
      <4>1. job[j].status = "queued" /\ job'[j].status = "processing"
        BY <2>1, <3>1, ClaimedFields DEF Due
      <4>2. Unminted(j)' \in SUBSET (Unminted(j) \cup {w})
        BY <2>1, <2>2 DEF Unminted, Held
      <4>3. /\ Cardinality(Unminted(j)') \in Nat
            /\ Cardinality(Unminted(j)') <= Cardinality(Unminted(j)) + 1
        <5>1. /\ IsFiniteSet(Unminted(j) \cup {w})
              /\ Cardinality(Unminted(j) \cup {w}) \in Nat
              /\ Cardinality(Unminted(j) \cup {w}) <= Cardinality(Unminted(j)) + 1
          <6>1. IsFiniteSet(Unminted(j)) /\ Cardinality(Unminted(j)) \in Nat
            BY CountFacts
          <6>2. /\ IsFiniteSet(Unminted(j) \cup {w})
                /\ Cardinality(Unminted(j) \cup {w}) =
                     IF w \in Unminted(j) THEN Cardinality(Unminted(j))
                                          ELSE Cardinality(Unminted(j)) + 1
            BY <6>1, FS_AddElement, Zenon
          <6> QED BY <6>1, <6>2
        <5>2. /\ Cardinality(Unminted(j)') <= Cardinality(Unminted(j) \cup {w})
              /\ Cardinality(Unminted(j)') \in Nat
          BY <4>2, <5>1, FS_Subset, FS_CardinalityType
        <5> QED BY <5>1, <5>2, CountFacts
      <4> HIDE DEF TypeOK, SnapshotInv
      <4>4. /\ Cardinality(CertsOf(j)) \in Nat /\ Cardinality(Unminted(j)) \in Nat
            /\ Bound(j) /\ retries[j] \in Nat
        BY <1>a, CountFacts
      <4>5. /\ Cardinality(CertsOf(j)') = Cardinality(CertsOf(j))
            /\ retries'[j] = retries[j]
        BY <2>2, <2>3
      <4>6. Cardinality(CertsOf(j)) + Cardinality(Unminted(j)) + 1 <= retries[j] + 1
        BY <4>1, <4>4
      <4>7. Cardinality(CertsOf(j)') + Cardinality(Unminted(j)') + 0 <= retries'[j] + 1
        BY <4>3, <4>4, <4>5, <4>6
      <4> QED BY <4>1, <4>7
    <3>2. CASE j \notin S
      <4>1. job'[j] = job[j]
        BY <2>1, <3>2
      <4>2. Unminted(j)' = Unminted(j)
        BY <1>6, <2>1, <2>2, <3>2 DEF ClaimDueJobs, Unminted, Held
      <4> QED BY <1>a, <2>2, <2>3, <4>1, <4>2
    <3> QED BY <3>1, <3>2
  <2> QED BY <2>4 DEF OneCertificatePerQueueing
<1>7. ASSUME NEW w \in Workers, NEW i \in Jobs, Issue(w, i)
      PROVE  OneCertificatePerQueueing'
  <2>1. PICK c \in Certs : cert[c] = None /\ cert' = [cert EXCEPT ![c] = i]
    BY <1>7 DEF Issue
  <2>2. UNCHANGED <<job, batch, retries>>
    BY <1>7 DEF Issue
  <2>3. ASSUME NEW j \in Jobs PROVE Bound(j)'
    <3>1. CASE j = i
      <4>1. CertsOf(j)' = CertsOf(j) \cup {c} /\ c \notin CertsOf(j)
        BY <2>1, <3>1 DEF CertsOf
      <4>2. Unminted(j)' = Unminted(j) \ {w} /\ w \in Unminted(j)
        BY <1>7, <2>2, <3>1 DEF Issue, Unminted, Held
      <4>3. Cardinality(CertsOf(j)') = Cardinality(CertsOf(j)) + 1
        BY <4>1, CountFacts, FS_AddElement
      <4>4. Cardinality(Unminted(j)') = Cardinality(Unminted(j)) - 1
        BY <4>2, CountFacts, FS_RemoveElement
      <4> QED BY <1>a, <2>2, <4>3, <4>4, CountFacts
    <3>2. CASE j # i
      <4>1. CertsOf(j)' = CertsOf(j)
        BY <2>1, <3>2 DEF CertsOf
      <4>2. Unminted(j)' = Unminted(j)
        BY <1>7, <2>2, <3>2 DEF Issue, Unminted, Held
      <4> QED BY <1>a, <2>2, <4>1, <4>2
    <3> QED BY <3>1, <3>2
  <2> QED BY <2>3 DEF OneCertificatePerQueueing
<1>8. ASSUME NEW w \in Workers, NEW i \in Jobs, Release(w, i),
             current[w] \in {None, i}, cert' = cert, retries' = retries,
             job' = job \/ \E row \in Row : /\ row.status # "queued"
                                          /\ row.status # "absent"
                                          /\ job' = [job EXCEPT ![i] = row]
      PROVE  OneCertificatePerQueueing'
  <2>1. \A j \in Jobs : Unminted(j)' \in SUBSET Unminted(j)
    BY <1>8 DEF Release, Unminted, Held
  <2>2. /\ \A j \in Jobs : job'[j].status = "queued" => job[j].status = "queued"
        /\ \A j \in Jobs : job[j].status # "absent" => job'[j].status # "absent"
    BY <1>8
  <2> QED BY <1>8, <2>1, <2>2, CountKept
<1>9. ASSUME NEW w \in Workers, NEW j \in Jobs, IssueFails(w, j)
      PROVE  OneCertificatePerQueueing'
  <2>1. PICK row \in Row :
          row = [batch[w][j] EXCEPT !.status = "failed", !.lease = NoLease]
    <3>1. batch[w][j] \in Row
      OBVIOUS
    <3> QED BY <3>1, RowFacts
  <2>2. row.status = "failed"
    BY <2>1 DEF Row
  <2> QED BY <1>8, <1>9, <2>1, <2>2 DEF IssueFails, FailJob
<1>10. ASSUME NEW w \in Workers, PersistResult(w) PROVE OneCertificatePerQueueing'
  <2>1. current[w] \in Jobs /\ minted[w] \in Certs \cup {None}
    BY <1>10 DEF PersistResult
  <2>2. PICK row \in Row :
          row = [batch[w][current[w]] EXCEPT !.status = "completed",
                                             !.lease = NoLease,
                                             !.result = minted[w]]
    <3>1. batch[w][current[w]] \in Row
      BY <2>1
    <3> QED BY <2>1, <3>1, RowFacts
  <2>3. row.status = "completed"
    BY <2>1, <2>2 DEF Row
  <2> QED BY <1>8, <1>10, <2>1, <2>2, <2>3 DEF PersistResult
<1>11. ASSUME NEW w \in Workers, PersistFails(w) PROVE OneCertificatePerQueueing'
  <2>1. current[w] \in Jobs /\ minted[w] \in Certs \cup {None}
    BY <1>11 DEF PersistFails
  <2>2. PICK held \in Row :
          held = [batch[w][current[w]] EXCEPT !.result = minted[w]]
    <3>1. batch[w][current[w]] \in Row
      BY <2>1
    <3> QED BY <2>1, <3>1, RowFacts
  <2>3. PICK row \in Row :
          row = [held EXCEPT !.status = "failed", !.lease = NoLease]
    BY <2>2, RowFacts
  <2>4. row.status = "failed"
    BY <2>2, <2>3 DEF Row
  <2> QED BY <1>8, <1>11, <2>1, <2>2, <2>3, <2>4 DEF PersistFails, FailJob
<1>12. ASSUME NEW w \in Workers, NEW j \in Jobs, FailWriteLost(w, j)
       PROVE  OneCertificatePerQueueing'
  BY <1>8, <1>12 DEF FailWriteLost
<1>13. ASSUME NEW w \in Workers, Crash(w) PROVE OneCertificatePerQueueing'
  BY <1>13, CountKept DEF Crash, Unminted, Held
<1>14. CASE Tick \/ UNCHANGED vars
  BY <1>14, CountKept DEF Tick, vars, Unminted, Held
<1>15. QED
  BY <1>1, <1>2, <1>3, <1>4, <1>5, <1>6, <1>7, <1>9, <1>10, <1>11, <1>12,
     <1>13, <1>14 DEF Next, HandlerStep, ProcessJob

\* Queueing is worth one certificate, for any number of operators, instances,
\* crashes and stale writes: a job approved once and retried k times has at
\* most k + 1 certificates, counting the claims still in flight.
THEOREM CountCorrect == Spec => []OneCertificatePerQueueing
<1>1. Init => IInv
  BY SafetyInit, TypeInit DEF IInv
<1>2. IInv /\ [Next]_vars => IInv'
  BY TypeStep, SafetyStep DEF IInv
<1>3. Init => OneCertificatePerQueueing
  <2> SUFFICES ASSUME Init, NEW j \in Jobs
               PROVE  /\ CertsOf(j) = {} /\ Unminted(j) = {}
                      /\ job[j].status = "absent" /\ retries[j] = 0
    <3>1. Cardinality({}) = 0
      BY FS_EmptySet
    <3> QED BY <3>1 DEF OneCertificatePerQueueing
  <2> QED BY NoneAssumption DEF Init, CertsOf, Unminted, Held, AbsentRow
<1>4. QED
  BY <1>1, <1>2, <1>3, CountStep, PTL DEF Spec

===============================================================================
