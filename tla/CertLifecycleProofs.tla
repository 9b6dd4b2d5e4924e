-------------------------- MODULE CertLifecycleProofs --------------------------
(***************************************************************************)
(* Proofs about CertLifecycle, for any number of certificates, scheduler   *)
(* instances and API callers and any value of the bounds.                  *)
(***************************************************************************)
EXTENDS CertLifecycle, TLAPS

\* The rows the statements write are rows, and the tasks are tasks.
LEMMA RowFacts ==
    /\ AbsentRow \in Row
    /\ NoTask \in Task
    /\ [NoTask EXCEPT !.stage = "due"] \in Task
    /\ [NoTask EXCEPT !.stage = "deliver"] \in Task
    /\ \A r \in Row, b \in BOOLEAN : [r EXCEPT !.autoRenew = b] \in Row
    /\ \A r \in Row, st \in Statuses, n \in Certs \cup {None} :
            [r EXCEPT !.status = st, !.superseded = n] \in Row
    /\ \A r \in Row, st \in Stored : [r EXCEPT !.status = st] \in Row
    /\ \A k \in Kinds, r \in Row, d \in Certs, b \in BOOLEAN :
            RenewedRow(k, r, d, b) \in Row
    /\ \A r \in Row : /\ [stage |-> "update", row |-> r, new |-> None] \in Task
                      /\ [stage |-> "read", row |-> r, new |-> None] \in Task
                      /\ [stage |-> "import", row |-> r, new |-> None] \in Task
<1> USE DEF Row, Statuses, Stored
<1>1. /\ AbsentRow \in Row
      /\ NoTask \in Task
      /\ [NoTask EXCEPT !.stage = "due"] \in Task
      /\ [NoTask EXCEPT !.stage = "deliver"] \in Task
  BY DEF AbsentRow, Task, NoTask, Stages
<1>2. /\ \A r \in Row, b \in BOOLEAN : [r EXCEPT !.autoRenew = b] \in Row
      /\ \A r \in Row, st \in Statuses, n \in Certs \cup {None} :
            [r EXCEPT !.status = st, !.superseded = n] \in Row
      /\ \A r \in Row, st \in Stored : [r EXCEPT !.status = st] \in Row
  OBVIOUS
<1>3. \A k \in Kinds, r \in Row, d \in Certs, b \in BOOLEAN :
            RenewedRow(k, r, d, b) \in Row
  BY DEF RenewedRow
<1>4. \A r \in Row : /\ [stage |-> "update", row |-> r, new |-> None] \in Task
                     /\ [stage |-> "read", row |-> r, new |-> None] \in Task
                     /\ [stage |-> "import", row |-> r, new |-> None] \in Task
  BY DEF Task, Stages
<1> QED
  BY <1>1, <1>2, <1>3, <1>4

\* Writing one task changes that task only.
LEMMA TaskWrite ==
    ASSUME task \in [Procs -> [Certs -> Task]],
           NEW p \in Procs, NEW c \in Certs, NEW t \in Task,
           task' = [task EXCEPT ![p][c] = t]
    PROVE  /\ task' \in [Procs -> [Certs -> Task]]
           /\ task'[p][c] = t
           /\ \A q \in Procs, e \in Certs :
                ~(q = p /\ e = c) => task'[q][e] = task[q][e]
<1>1. [task[p] EXCEPT ![c] = t] \in [Certs -> Task]
  OBVIOUS
<1>2. QED
  BY <1>1

\* The initial state has the types of the module.
LEMMA TypeInit == Init => TypeOK
<1> SUFFICES ASSUME Init PROVE TypeOK
  OBVIOUS
<1>1. [c \in Certs |-> NoTask] \in [Certs -> Task]
  BY RowFacts
<1>2. QED
  BY <1>1, RowFacts DEF Init, TypeOK, Kinds, Phases

\* No action takes a variable out of its domain.
LEMMA TypeStep == TypeOK /\ [Next]_vars => TypeOK'
<1> SUFFICES ASSUME TypeOK, [Next]_vars PROVE TypeOK'
  OBVIOUS
<1> USE DEF TypeOK
<1>1. ASSUME NEW a \in Callers, NEW c \in Certs, NEW k \in Kinds,
             NEW key \in {c, None}, NEW auto \in BOOLEAN, NEW deliver \in BOOLEAN,
             InsertCertificate(a, c, k, key, auto, deliver)
      PROVE  TypeOK'
  <2> DEFINE t == IF deliver THEN [NoTask EXCEPT !.stage = "deliver"] ELSE NoTask
  <2>1. t \in Task /\ a \in Procs
    BY RowFacts DEF Procs
  <2>2. task' \in [Procs -> [Certs -> Task]]
    BY <1>1, <2>1, TaskWrite DEF InsertCertificate
  <2>3. [status |-> "active", superseded |-> None, key |-> key,
         autoRenew |-> auto] \in Row
    BY DEF Row, Statuses, Stored
  <2>4. row' \in [Certs -> Row]
    BY <1>1, <2>3 DEF InsertCertificate
  <2>5. calls' \in Nat
    BY <1>1 DEF InsertCertificate, StartCall
  <2> QED BY <1>1, <2>1, <2>2, <2>4, <2>5 DEF InsertCertificate, Phases
<1>2. ASSUME NEW a \in Callers, NEW c \in Certs, MarkKeyDelivered(a, c)
      PROVE  TypeOK'
  <2>1. task' \in [Procs -> [Certs -> Task]]
    BY <1>2, RowFacts, TaskWrite DEF MarkKeyDelivered, Finish, Procs
  <2>2. row[c] \in Row
    OBVIOUS
  <2> HIDE DEF TypeOK
  <2>3. [row[c] EXCEPT !.key = None] \in Row
    BY <2>2 DEF Row
  <2> USE DEF TypeOK
  <2>4. row' \in [Certs -> Row]
    BY <1>2, <2>3 DEF MarkKeyDelivered
  <2> QED BY <1>2, <2>1, <2>4 DEF MarkKeyDelivered
<1>3. ASSUME NEW a \in Callers, NEW c \in Certs,
             ReadForUpdate(a, c) \/ Renew(a, c) \/ ReadForImport(a, c)
      PROVE  TypeOK'
  <2>1. task' \in [Procs -> [Certs -> Task]]
    BY <1>3, RowFacts, TaskWrite DEF ReadForUpdate, Renew, ReadForImport, Procs
  <2>2. calls' \in Nat
    BY <1>3 DEF ReadForUpdate, Renew, ReadForImport, StartCall
  <2> QED BY <1>3, <2>1, <2>2 DEF ReadForUpdate, Renew, ReadForImport
<1>4. ASSUME NEW a \in Callers, NEW c \in Certs, NEW auto \in BOOLEAN,
             UpdateCertificate(a, c, auto)
      PROVE  TypeOK'
  <2>1. task' \in [Procs -> [Certs -> Task]]
    BY <1>4, RowFacts, TaskWrite DEF UpdateCertificate, Finish, Procs
  <2>2. task[a][c] \in Task
    BY DEF Procs
  <2>3. task[a][c].row \in Row
    BY <2>2 DEF Task
  <2>4. [task[a][c].row EXCEPT !.autoRenew = auto] \in Row
    BY <2>3, RowFacts
  <2>5. row' \in [Certs -> Row]
    BY <1>4, <2>4 DEF UpdateCertificate
  <2> QED BY <1>4, <2>1, <2>5 DEF UpdateCertificate
<1>5. ASSUME NEW a \in Callers, NEW c \in Certs, Revoke(a, c) PROVE TypeOK'
  <2>1. row' \in [Certs -> Row]
    BY <1>5 DEF Revoke, Row, Statuses, Stored
  <2>2. calls' \in Nat
    BY <1>5 DEF Revoke, StartCall
  <2> QED BY <1>5, <2>1, <2>2 DEF Revoke
<1>6. ASSUME NEW a \in Callers, NEW c \in Certs, DeleteCertificate(a, c)
      PROVE  TypeOK'
  <2>1. row' \in [Certs -> Row]
    BY <1>6, RowFacts DEF DeleteCertificate
  <2>2. calls' \in Nat
    BY <1>6 DEF DeleteCertificate, StartCall
  <2> QED BY <1>6, <2>1, <2>2 DEF DeleteCertificate
<1>7. ASSUME NEW p \in Procs, NEW c \in Certs, NEW d \in Certs,
             NEW opened \in BOOLEAN, MintRenewal(p, c, d, opened)
      PROVE  TypeOK'
  <2>1. task[p][c] \in Task /\ task[p][c].row \in Row
    BY DEF Task
  <2>2. [task[p][c] EXCEPT !.stage = "minted", !.new = d] \in Task
    BY <2>1 DEF Task, Stages
  <2>3. task' = [task EXCEPT ![p][c] =
                   [task[p][c] EXCEPT !.stage = "minted", !.new = d]]
    BY <1>7 DEF MintRenewal
  <2>4. task' \in [Procs -> [Certs -> Task]]
    BY <2>2, <2>3, TaskWrite
  <2>5. row' \in [Certs -> Row]
    BY <1>7, <2>1, RowFacts DEF MintRenewal
  <2> QED BY <1>7, <2>4, <2>5 DEF MintRenewal, Phases
<1>8. ASSUME NEW p \in Procs, NEW c \in Certs, Supersede(p, c) PROVE TypeOK'
  <2>1. task[p][c] \in Task /\ task[p][c].row \in Row
    BY DEF Task
  <2>2. task[p][c].row.status \in Statuses
        /\ task[p][c].new \in Certs \cup {None}
    BY <2>1 DEF Task, Row
  <2>3. [row[c] EXCEPT !.status = task[p][c].row.status,
                       !.superseded = task[p][c].new] \in Row
    BY <2>2, RowFacts
  <2>5. row' \in [Certs -> Row]
    BY <1>8, <2>3 DEF Supersede
  <2>4. task' \in [Procs -> [Certs -> Task]]
    BY <1>8, RowFacts, TaskWrite DEF Supersede, Finish
  <2> QED BY <1>8, <2>4, <2>5 DEF Supersede
<1>9. ASSUME NEW i \in Instances, DueForRenewal(i) PROVE TypeOK'
  <2>1. PICK S \in SUBSET Certs :
          task' = [task EXCEPT ![i] =
              [c \in Certs |-> IF c \in S THEN [NoTask EXCEPT !.stage = "due"]
                               ELSE NoTask]]
    BY <1>9 DEF DueForRenewal
  <2>2. [c \in Certs |-> IF c \in S THEN [NoTask EXCEPT !.stage = "due"]
                         ELSE NoTask] \in [Certs -> Task]
    BY RowFacts
  <2>3. task' \in [Procs -> [Certs -> Task]]
    BY <2>1, <2>2 DEF Procs
  <2> QED BY <1>9, <2>3 DEF DueForRenewal
<1>10. ASSUME NEW i \in Instances, NEW c \in Certs, RenewSystem(i, c)
       PROVE  TypeOK'
  <2>1. (IF Exists(c) THEN [stage |-> "read", row |-> row[c], new |-> None]
                      ELSE NoTask) \in Task
    BY RowFacts
  <2>2. task' \in [Procs -> [Certs -> Task]]
    BY <1>10, <2>1, TaskWrite DEF RenewSystem, Procs
  <2> QED BY <1>10, <2>2 DEF RenewSystem
<1>11. ASSUME NEW p \in Procs, NEW c \in Certs, StepFails(p, c) PROVE TypeOK'
  <2>1. task' \in [Procs -> [Certs -> Task]]
    BY <1>11, RowFacts, TaskWrite DEF StepFails, Finish
  <2> QED BY <1>11, <2>1 DEF StepFails
<1>12. ASSUME NEW i \in Instances, Crash(i) PROVE TypeOK'
  <2>1. [c \in Certs |-> NoTask] \in [Certs -> Task]
    BY RowFacts
  <2>2. task' \in [Procs -> [Certs -> Task]]
    BY <1>12, <2>1 DEF Crash, Procs
  <2> QED BY <1>12, <2>2 DEF Crash
<1>13. ASSUME NEW c \in Certs, Age(c) PROVE TypeOK'
  BY <1>13 DEF Age, Phases
<1>14. CASE UNCHANGED vars
  BY <1>14 DEF vars
<1>19. ASSUME NEW a \in Callers, NEW c \in Certs, NEW status \in Stored,
              ImportOverwrite(a, c, status)
       PROVE  TypeOK'
  <2>1. task' \in [Procs -> [Certs -> Task]]
    BY <1>19, RowFacts, TaskWrite DEF ImportOverwrite, Finish, Procs
  <2>2. task[a][c] \in Task
    BY DEF Procs
  <2>3. task[a][c].row \in Row
    BY <2>2 DEF Task
  <2>4. [task[a][c].row EXCEPT !.status = status] \in Row
    BY <2>3, RowFacts
  <2>5. row' \in [Certs -> Row]
    BY <1>19, <2>4 DEF ImportOverwrite
  <2> QED BY <1>19, <2>1, <2>5 DEF ImportOverwrite
<1>20. ASSUME NEW a \in Callers, NEW c \in Certs, NEW status \in Stored,
              NEW when \in Phases \ {"unborn"}, ImportInsert(a, c, status, when)
       PROVE  TypeOK'
  <2>1. [AbsentRow EXCEPT !.status = status] \in Row
    BY RowFacts
  <2>2. row' \in [Certs -> Row]
    BY <1>20, <2>1 DEF ImportInsert
  <2>3. calls' \in Nat
    BY <1>20 DEF ImportInsert, StartCall
  <2> QED BY <1>20, <2>2, <2>3 DEF ImportInsert, Procs
<1>15. ASSUME NEW p \in Procs, NEW c \in Certs, RenewStep(p, c) PROVE TypeOK'
  BY <1>7, <1>8, <1>15 DEF RenewStep
<1>16. ASSUME NEW a \in Callers, NEW c \in Certs, CallerStep(a, c) PROVE TypeOK'
  BY <1>1, <1>2, <1>3, <1>4, <1>5, <1>6, <1>16, <1>19, <1>20 DEF CallerStep
<1>17. ASSUME NEW i \in Instances, InstanceStep(i) PROVE TypeOK'
  <2>1. i \in Procs
    BY DEF Procs
  <2> QED BY <1>9, <1>10, <1>15, <1>17, <2>1 DEF InstanceStep
<1>18. \A a \in Callers : a \in Procs
  BY DEF Procs
<1> QED
  BY <1>11, <1>12, <1>13, <1>14, <1>15, <1>16, <1>17, <1>18 DEF Next

\* Every column, snapshot and history variable of the certificate table keeps
\* its type, whatever the interleaving.
THEOREM TypeCorrect == Spec => []TypeOK
<1>1. Init => TypeOK
  BY TypeInit
<1>2. TypeOK /\ [Next]_vars => TypeOK'
  BY TypeStep
<1>3. QED
  BY <1>1, <1>2, PTL DEF Spec

-------------------------------------------------------------------------------
(* The invariant of the lifecycle *)

\* Nothing to write back.
LEMMA NoTaskFields ==
    /\ AbsentRow.status = "absent" /\ AbsentRow.superseded = None
    /\ NoTask.stage = "none" /\ NoTask.row = AbsentRow
    /\ [NoTask EXCEPT !.stage = "due"].stage = "due"
    /\ [NoTask EXCEPT !.stage = "due"].row = AbsentRow
    /\ [NoTask EXCEPT !.stage = "deliver"].stage = "deliver"
    /\ [NoTask EXCEPT !.stage = "deliver"].row = AbsentRow
  BY DEF NoTask, AbsentRow

\* The initial state satisfies the inductive invariant.
LEMMA LifecycleInit == Init => LifecycleInv
<1> SUFFICES ASSUME Init PROVE LifecycleInv
  OBVIOUS
<1>1. \A c \in Certs : row[c] = AbsentRow /\ parent[c] = None
  BY DEF Init
<1>2. \A p \in Procs, c \in Certs : task[p][c] = NoTask
  BY DEF Init
<1>3. \A c \in Certs : Successors(c) = {}
  BY <1>1, NoneAssumption DEF Successors
<1>4. TaskSound
  BY <1>2, NoTaskFields DEF TaskSound, SnapshotSound
<1>5. HistorySound
  BY <1>1, <1>3, NoTaskFields DEF HistorySound, Exists
<1>6. Linked
  BY <1>1, NoTaskFields DEF Linked, RevokedIsListed, SupersededBySuccessor
<1>7. NotAgain /\ OncePerInstance
  BY <1>3 DEF NotAgain, OncePerInstance
<1> QED
  BY <1>4, <1>5, <1>6, <1>7 DEF LifecycleInv

\* A step that mints nothing keeps the invariant when the rows and snapshots
\* it writes are sound, it takes a link away only by recording the loss, and
\* it hands c to an instance only while c has no link.
LEMMA QuietStep ==
    ASSUME TypeOK, LifecycleInv,
           parent' = parent, by' = by,
           revoked \subseteq revoked', unlinked \subseteq unlinked',
           imported \subseteq imported',
           \A c \in Certs : phase'[c] = "unborn" <=> phase[c] = "unborn",
           \A c \in Certs :
             /\ SnapshotSound(c, row[c])'
             /\ Exists(c)' => Exists(c)
             /\ (Exists(c)' /\ c \notin unlinked' /\ row[c].superseded # None)
                  => row'[c].superseded # None,
           \A p \in Procs, c \in Certs :
             /\ SnapshotSound(c, task[p][c].row)'
             /\ task'[p][c].stage # "none" => phase[c] # "unborn"
             /\ task'[p][c].stage = "minted" =>
                  task[p][c].stage = "minted" /\ task'[p][c].new = task[p][c].new
             /\ (p \in Instances /\ task'[p][c].stage \in {"due", "read"}) =>
                  \/ task[p][c].stage \in {"due", "read"}
                  \/ /\ task[p][c].stage = "none"
                     /\ Exists(c)
                     /\ row[c].superseded = None
             /\ (/\ p \in Instances
                 /\ task[p][c].stage = "minted"
                 /\ task'[p][c].stage # "minted") =>
                  \/ c \in unlinked'
                  \/ ~Exists(c)'
                  \/ row'[c].superseded # None
    PROVE  LifecycleInv'
<1> USE DEF Successors
<1>1. TaskSound'
  BY DEF LifecycleInv, TaskSound
<1>2. HistorySound'
  BY DEF LifecycleInv, HistorySound
<1>3. Linked'
  BY DEF Linked, RevokedIsListed, SupersededBySuccessor, SnapshotSound
<1>4. NotAgain'
  BY DEF LifecycleInv, NotAgain, Procs
<1>5. OncePerInstance'
  BY DEF LifecycleInv, OncePerInstance
<1> QED
  BY <1>1, <1>2, <1>3, <1>4, <1>5 DEF LifecycleInv

\* The statements of a call on one certificate: they write one task, and at
\* most the row of the same certificate.
LEMMA OneCertificateStep ==
    ASSUME TypeOK, LifecycleInv,
           NEW p \in Procs, NEW c \in Certs, NEW t \in Task,
           task' = [task EXCEPT ![p][c] = t],
           UNCHANGED <<phase, parent, by>>,
           revoked \subseteq revoked', unlinked \subseteq unlinked',
           imported \subseteq imported',
           \A e \in Certs : e # c => row'[e] = row[e],
           SnapshotSound(c, row[c])', SnapshotSound(c, t.row),
           Exists(c)' => Exists(c),
           (Exists(c)' /\ c \notin unlinked' /\ row[c].superseded # None)
              => row'[c].superseded # None,
           t.stage # "none" => phase[c] # "unborn",
           t.stage = "minted" => task[p][c].stage = "minted" /\ t.new = task[p][c].new,
           (p \in Instances /\ t.stage \in {"due", "read"}) =>
              task[p][c].stage \in {"due", "read"},
           (p \in Instances /\ task[p][c].stage = "minted" /\ t.stage # "minted") =>
              c \in unlinked' \/ ~Exists(c)' \/ row'[c].superseded # None
    PROVE  LifecycleInv'
<1>1. /\ task'[p][c] = t
      /\ \A q \in Procs, e \in Certs :
            ~(q = p /\ e = c) => task'[q][e] = task[q][e]
  BY TaskWrite DEF TypeOK
<1>2. \A e \in Certs :
         /\ SnapshotSound(e, row[e])'
         /\ Exists(e)' => Exists(e)
         /\ (Exists(e)' /\ e \notin unlinked' /\ row[e].superseded # None)
              => row'[e].superseded # None
  BY DEF LifecycleInv, Linked, RevokedIsListed, SupersededBySuccessor,
         SnapshotSound, Successors, Exists
<1>3. \A q \in Procs, e \in Certs :
         /\ SnapshotSound(e, task[q][e].row)'
         /\ task'[q][e].stage # "none" => phase[e] # "unborn"
  BY <1>1 DEF LifecycleInv, TaskSound, SnapshotSound, Successors
<1>4. \A q \in Procs, e \in Certs :
         /\ task'[q][e].stage = "minted" =>
              task[q][e].stage = "minted" /\ task'[q][e].new = task[q][e].new
         /\ (q \in Instances /\ task'[q][e].stage \in {"due", "read"}) =>
              task[q][e].stage \in {"due", "read"}
         /\ (/\ q \in Instances
             /\ task[q][e].stage = "minted"
             /\ task'[q][e].stage # "minted") =>
              e \in unlinked' \/ ~Exists(e)' \/ row'[e].superseded # None
  BY <1>1
<1> QED
  BY <1>2, <1>3, <1>4, QuietStep

\* The insert of an API call, mint's or an import's: the id is new, so no
\* link, snapshot or successor refers to it.
LEMMA InsertStep ==
    ASSUME TypeOK, LifecycleInv,
           NEW a \in Callers, NEW c \in Certs, NEW t \in Task,
           task' = [task EXCEPT ![a][c] = t],
           SnapshotSound(c, t.row), t.stage \in {"none", "deliver"},
           UNCHANGED <<revoked, parent, unlinked>>, imported \subseteq imported',
           \A e \in Certs : e # c => row'[e] = row[e] /\ phase'[e] = phase[e]
                                    /\ by'[e] = by[e],
           row'[c].status = "revoked" => c \in imported',
           row'[c].superseded = None,
           phase[c] = "unborn", phase'[c] # "unborn"
    PROVE  LifecycleInv'
<1>1. a \in Procs /\ a \notin Instances
  BY ProcessAssumption DEF Procs
<1>2. /\ task'[a][c] = t
      /\ \A q \in Procs, e \in Certs :
            ~(q = a /\ e = c) => task'[q][e] = task[q][e]
  BY <1>1, TaskWrite DEF TypeOK
<1>5. parent[c] = None /\ Successors(c) = {}
  BY DEF LifecycleInv, HistorySound
<1>6. \A e \in Certs : c \notin Successors(e)
  BY <1>5, NoneAssumption DEF Successors
<1>7. \A e \in Certs : Successors(e)' = Successors(e)
  BY DEF Successors
<1>8. TaskSound'
  <2> SUFFICES ASSUME NEW q \in Procs, NEW e \in Certs
               PROVE  /\ SnapshotSound(e, task[q][e].row)'
                      /\ task'[q][e].stage # "none" => phase'[e] # "unborn"
                      /\ task'[q][e].stage = "minted" =>
                            task'[q][e].new \in Successors(e)
    BY <1>7 DEF TaskSound
  <2>1. CASE q = a /\ e = c
    BY <1>2, <1>7, <2>1 DEF SnapshotSound
  <2>2. CASE ~(q = a /\ e = c)
    BY <1>2, <1>7, <2>2 DEF LifecycleInv, TaskSound, SnapshotSound
  <2> QED BY <2>1, <2>2
<1>9. HistorySound'
  BY <1>7 DEF LifecycleInv, HistorySound, Exists
<1>10. Linked'
  BY <1>7 DEF LifecycleInv, Linked, RevokedIsListed, SupersededBySuccessor
<1>11. NotAgain'
  <2> SUFFICES ASSUME NEW e \in Certs, e \notin unlinked, NEW d \in Successors(e),
                      NEW i \in Instances, by'[d] = i
               PROVE  /\ task'[i][e].stage \notin {"due", "read"}
                      /\ \/ task'[i][e].stage = "minted"
                         \/ ~Exists(e)'
                         \/ row'[e].superseded # None
    BY <1>7 DEF NotAgain
  <2>1. d # c /\ e # c /\ d \in Certs
    BY <1>5, <1>6 DEF Successors
  <2>2. by[d] = i /\ row'[e] = row[e] /\ task'[i][e] = task[i][e]
    BY <1>2, <2>1 DEF Procs
  <2> QED BY <2>2 DEF LifecycleInv, NotAgain, Exists
<1>12. OncePerInstance'
  <2>1. \A e \in Certs : \A d \in Successors(e) : by'[d] = by[d]
    BY <1>6 DEF Successors
  <2> QED BY <1>7, <2>1 DEF LifecycleInv, OncePerInstance
<1> QED
  BY <1>8, <1>9, <1>10, <1>11, <1>12 DEF LifecycleInv

\* A renewal's insert: the instance had not renewed c before, because it
\* still held c as due.
LEMMA MintStep ==
    ASSUME TypeOK, LifecycleInv,
           NEW p \in Procs, NEW c \in Certs, NEW d \in Certs,
           NEW opened \in BOOLEAN, MintRenewal(p, c, d, opened)
    PROVE  LifecycleInv'
<1> DEFINE t == [task[p][c] EXCEPT !.stage = "minted", !.new = d]
<1>1. task[p][c] \in Task
  BY DEF TypeOK
<1>2. t \in Task /\ t.stage = "minted" /\ t.new = d /\ t.row = task[p][c].row
  BY <1>1 DEF Task, Stages
<1>3. task' = [task EXCEPT ![p][c] = t]
  BY DEF MintRenewal
<1> HIDE DEF t
<1>4. /\ task'[p][c] = t
      /\ \A q \in Procs, e \in Certs :
            ~(q = p /\ e = c) => task'[q][e] = task[q][e]
  BY <1>2, <1>3, TaskWrite DEF TypeOK
<1>5. /\ UNCHANGED <<revoked, unlinked, imported>>
      /\ \A e \in Certs : e # d =>
           /\ row'[e] = row[e] /\ phase'[e] = phase[e]
           /\ parent'[e] = parent[e] /\ by'[e] = by[e]
      /\ row'[d].status = "active" /\ row'[d].superseded = None
      /\ phase'[d] = "fresh" /\ phase[d] = "unborn"
      /\ parent'[d] = c /\ by'[d] = p
      /\ task[p][c].stage = "read"
  BY DEF MintRenewal, RenewedRow, TypeOK
<1>6. parent[d] = None /\ Successors(d) = {}
  BY <1>5 DEF LifecycleInv, HistorySound
<1>7. phase[c] # "unborn" /\ c # d
  BY <1>5 DEF LifecycleInv, TaskSound
<1>8. /\ Successors(c)' = Successors(c) \cup {d}
      /\ \A e \in Certs : e # c => Successors(e)' = Successors(e)
      /\ \A e \in Certs : d \notin Successors(e)
  BY <1>5, <1>6, NoneAssumption DEF Successors
<1>9. TaskSound'
  <2> SUFFICES ASSUME NEW q \in Procs, NEW e \in Certs
               PROVE  /\ SnapshotSound(e, task[q][e].row)'
                      /\ task'[q][e].stage # "none" => phase'[e] # "unborn"
                      /\ task'[q][e].stage = "minted" =>
                            task'[q][e].new \in Successors(e)'
    BY DEF TaskSound
  <2>1. SnapshotSound(e, task[q][e].row)
    BY DEF LifecycleInv, TaskSound
  <2>2. task'[q][e].row = task[q][e].row
    BY <1>2, <1>4
  <2>3. SnapshotSound(e, task[q][e].row)'
    BY <1>5, <1>8, <2>1, <2>2 DEF SnapshotSound
  <2>4. CASE q = p /\ e = c
    BY <1>2, <1>4, <1>5, <1>7, <1>8, <2>3, <2>4
  <2>5. CASE ~(q = p /\ e = c)
    BY <1>4, <1>5, <1>8, <2>3, <2>5 DEF LifecycleInv, TaskSound
  <2> QED BY <2>4, <2>5
<1>10. HistorySound'
  BY <1>5, <1>7, <1>8 DEF LifecycleInv, HistorySound, Exists
<1>11. Linked'
  BY <1>5, <1>8 DEF LifecycleInv, Linked, RevokedIsListed, SupersededBySuccessor
<1>12. \A e \in Successors(c) : c \notin unlinked => ~(by[e] = p /\ p \in Instances)
  BY <1>5 DEF LifecycleInv, NotAgain
<1>13. NotAgain'
  <2> SUFFICES ASSUME NEW e \in Certs, e \notin unlinked, NEW f \in Successors(e)',
                      NEW i \in Instances, by'[f] = i
               PROVE  /\ task'[i][e].stage \notin {"due", "read"}
                      /\ \/ task'[i][e].stage = "minted"
                         \/ ~Exists(e)'
                         \/ row'[e].superseded # None
    BY <1>5 DEF NotAgain
  <2>1. CASE f = d
    <3>1. e = c /\ i = p
      BY <1>5, <1>8, <2>1
    <3> QED BY <1>2, <1>4, <3>1
  <2>2. CASE f # d
    <3>1. f \in Successors(e) /\ f \in Certs /\ by[f] = i /\ e # d
      BY <1>5, <1>6, <1>8, <2>2 DEF Successors
    <3>2. ~(i = p /\ e = c)
      BY <1>12, <3>1
    <3>3. task'[i][e] = task[i][e] /\ row'[e] = row[e]
      BY <1>4, <1>5, <3>1, <3>2 DEF Procs
    <3> QED BY <3>1, <3>3 DEF LifecycleInv, NotAgain, Exists
  <2> QED BY <2>1, <2>2
<1>14. OncePerInstance'
  <2> SUFFICES ASSUME NEW e \in Certs, e \notin unlinked,
                      NEW f \in Successors(e)', NEW g \in Successors(e)',
                      by'[f] = by'[g], by'[f] \in Instances
               PROVE  f = g
    BY <1>5 DEF OncePerInstance
  <2>1. CASE f # d /\ g # d
    <3>1. f \in Successors(e) /\ g \in Successors(e) /\ by'[f] = by[f] /\ by'[g] = by[g]
      BY <1>5, <1>8, <2>1 DEF Successors
    <3> QED BY <3>1 DEF LifecycleInv, OncePerInstance
  <2>2. CASE f = d /\ g # d
    <3>1. e = c /\ g \in Successors(c) /\ by[g] = p /\ p \in Instances
      BY <1>5, <1>8, <2>2 DEF Successors
    <3> QED BY <1>12, <3>1
  <2>3. CASE f # d /\ g = d
    <3>1. e = c /\ f \in Successors(c) /\ by[f] = p /\ p \in Instances
      BY <1>5, <1>8, <2>3 DEF Successors
    <3> QED BY <1>12, <3>1
  <2> QED BY <2>1, <2>2, <2>3
<1> QED
  BY <1>9, <1>10, <1>11, <1>13, <1>14 DEF LifecycleInv

\* Every step keeps the invariant.
LEMMA LifecycleStep ==
    TypeOK /\ LifecycleInv /\ [Next]_vars => LifecycleInv'
<1> SUFFICES ASSUME TypeOK, LifecycleInv, [Next]_vars PROVE LifecycleInv'
  OBVIOUS
<1>a. \A c \in Certs : SnapshotSound(c, row[c])
  BY DEF LifecycleInv, Linked, RevokedIsListed, SupersededBySuccessor, SnapshotSound
<1>b. \A p \in Procs, c \in Certs :
         /\ task[p][c] \in Task
         /\ SnapshotSound(c, task[p][c].row)
         /\ task[p][c].stage # "none" => phase[c] # "unborn"
         /\ task[p][c].stage = "minted" => task[p][c].new \in Successors(c)
  BY DEF TypeOK, LifecycleInv, TaskSound
<1>c. \A c \in Certs : row[c] \in Row /\ (Exists(c) => phase[c] # "unborn")
  BY DEF TypeOK, LifecycleInv, HistorySound
<1>d. \A a \in Callers : a \in Procs /\ a \notin Instances
  BY ProcessAssumption DEF Procs
<1>e. \A i \in Instances : i \in Procs
  BY DEF Procs
<1>1. ASSUME NEW a \in Callers, NEW c \in Certs, NEW k \in Kinds,
             NEW key \in {c, None}, NEW auto \in BOOLEAN, NEW deliver \in BOOLEAN,
             InsertCertificate(a, c, k, key, auto, deliver)
      PROVE  LifecycleInv'
  <2> DEFINE t == IF deliver THEN [NoTask EXCEPT !.stage = "deliver"] ELSE NoTask
  <2>1. t \in Task /\ t.row = AbsentRow /\ t.stage \in {"none", "deliver"}
    BY RowFacts, NoTaskFields
  <2>2. task' = [task EXCEPT ![a][c] = t]
    BY <1>1 DEF InsertCertificate
  <2>4. SnapshotSound(c, t.row)
    BY <2>1, NoTaskFields DEF SnapshotSound
  <2> HIDE DEF t
  <2>3. /\ UNCHANGED <<revoked, parent, unlinked, imported>>
        /\ \A e \in Certs : e # c => row'[e] = row[e] /\ phase'[e] = phase[e]
                                     /\ by'[e] = by[e]
        /\ row'[c].status = "active" /\ row'[c].superseded = None
        /\ phase'[c] = "fresh" /\ phase[c] = "unborn"
    BY <1>1 DEF InsertCertificate, TypeOK
  <2> QED BY <2>1, <2>2, <2>3, <2>4, InsertStep
<1>2. ASSUME NEW a \in Callers, NEW c \in Certs, MarkKeyDelivered(a, c)
      PROVE  LifecycleInv'
  <2>1. /\ task' = [task EXCEPT ![a][c] = NoTask]
        /\ UNCHANGED <<phase, parent, by, revoked, unlinked, imported>>
        /\ \A e \in Certs : e # c => row'[e] = row[e]
        /\ row'[c].status = row[c].status /\ row'[c].superseded = row[c].superseded
    BY <1>2, <1>c DEF MarkKeyDelivered, Finish, TypeOK, Row
  <2>2. SnapshotSound(c, row[c])' /\ SnapshotSound(c, NoTask.row)
    BY <1>a, <2>1, NoTaskFields DEF SnapshotSound, Successors
  <2>3. Exists(c)' <=> Exists(c)
    BY <2>1 DEF Exists
  <2>4. a \in Procs /\ a \notin Instances /\ NoTask \in Task
    BY <1>d, RowFacts
  <2> QED BY <2>1, <2>2, <2>3, <2>4, NoTaskFields, OneCertificateStep
<1>3. ASSUME NEW a \in Callers, NEW c \in Certs,
             ReadForUpdate(a, c) \/ Renew(a, c) \/ ReadForImport(a, c)
      PROVE  LifecycleInv'
  <2>1. PICK st \in {"update", "read", "import"} :
          task' = [task EXCEPT ![a][c] =
                     [stage |-> st, row |-> row[c], new |-> None]]
    BY <1>3 DEF ReadForUpdate, Renew, ReadForImport
  <2> DEFINE t == [stage |-> st, row |-> row[c], new |-> None]
  <2>2. t \in Task /\ t.stage = st /\ t.row = row[c]
    BY <1>c, RowFacts
  <2>3. UNCHANGED <<row, phase, parent, by, revoked, unlinked, imported>> /\ Exists(c)
    BY <1>3 DEF ReadForUpdate, Renew, ReadForImport
  <2>4. SnapshotSound(c, row[c])' /\ SnapshotSound(c, t.row)
    BY <1>a, <2>2, <2>3 DEF SnapshotSound, Successors
  <2> HIDE DEF t
  <2> QED BY <1>c, <1>d, <2>1, <2>2, <2>3, <2>4, OneCertificateStep DEF t, Exists
<1>6. ASSUME NEW a \in Callers, NEW c \in Certs,
             Finish(a, c), UNCHANGED <<phase, parent, by, revoked>>,
             imported \subseteq imported', unlinked \subseteq unlinked',
             \A e \in Certs : e # c => row'[e] = row[e],
             \/ row'[c] = row[c] /\ ~Exists(c)
             \/ /\ Exists(c)
                /\ \/ row'[c].status = task[a][c].row.status
                   \/ row'[c].status = "revoked" => c \in imported'
                /\ row'[c].superseded = task[a][c].row.superseded,
             (/\ Exists(c)
              /\ task[a][c].row.superseded = None
              /\ row[c].superseded # None) => c \in unlinked'
      PROVE  LifecycleInv'
  <2> DEFINE snap == task[a][c].row
  <2>1. snap \in Row /\ SnapshotSound(c, snap)
    BY <1>b, <1>d DEF Task
  <2>2. task' = [task EXCEPT ![a][c] = NoTask]
    BY <1>6 DEF Finish
  <2>3. SnapshotSound(c, NoTask.row)
    BY NoTaskFields DEF SnapshotSound
  <2>4. Successors(c)' = Successors(c)
    BY <1>6 DEF Successors
  <2>5. SnapshotSound(c, row[c])'
    BY <1>6, <1>a, <2>1, <2>4 DEF SnapshotSound
  <2>6. (Exists(c)' => Exists(c))
        /\ ((Exists(c)' /\ c \notin unlinked' /\ row[c].superseded # None)
              => row'[c].superseded # None)
    BY <1>6 DEF Exists
  <2> QED BY <1>d, <1>6, <2>2, <2>3, <2>5, <2>6, RowFacts, NoTaskFields,
             OneCertificateStep
<1>4. ASSUME NEW a \in Callers, NEW c \in Certs, NEW auto \in BOOLEAN,
             UpdateCertificate(a, c, auto)
      PROVE  LifecycleInv'
  <2> DEFINE snap == task[a][c].row
  <2>1. snap \in Row
    BY <1>b, <1>d DEF Task
  <2>2. /\ Finish(a, c) /\ UNCHANGED <<phase, parent, by, revoked, imported>>
        /\ unlinked \subseteq unlinked'
        /\ \A e \in Certs : e # c => row'[e] = row[e]
    BY <1>4 DEF UpdateCertificate, TypeOK
  <2>3. \/ row'[c] = row[c] /\ ~Exists(c)
        \/ row'[c].status = snap.status /\ row'[c].superseded = snap.superseded
           /\ Exists(c)
    BY <1>4, <2>1 DEF UpdateCertificate, TypeOK, Row
  <2>4. (Exists(c) /\ snap.superseded = None /\ row[c].superseded # None)
            => c \in unlinked'
    BY <1>4 DEF UpdateCertificate
  <2> QED BY <1>6, <2>2, <2>3, <2>4
<1>18. ASSUME NEW a \in Callers, NEW c \in Certs, NEW status \in Stored,
              ImportOverwrite(a, c, status)
       PROVE  LifecycleInv'
  <2> DEFINE snap == task[a][c].row
  <2>1. snap \in Row
    BY <1>b, <1>d DEF Task
  <2>2. /\ Finish(a, c) /\ UNCHANGED <<phase, parent, by, revoked>>
        /\ imported \subseteq imported' /\ unlinked \subseteq unlinked'
        /\ \A e \in Certs : e # c => row'[e] = row[e]
    BY <1>18 DEF ImportOverwrite, TypeOK
  <2>3. \/ row'[c] = row[c] /\ ~Exists(c)
        \/ /\ row'[c].status = status /\ row'[c].superseded = snap.superseded
           /\ Exists(c)
    BY <1>18, <2>1 DEF ImportOverwrite, TypeOK, Row
  <2>4. /\ (Exists(c) /\ snap.superseded = None /\ row[c].superseded # None)
            => c \in unlinked'
        /\ Exists(c) /\ status = "revoked" => c \in imported'
    BY <1>18 DEF ImportOverwrite
  <2> QED BY <1>6, <2>2, <2>3, <2>4
<1>19. ASSUME NEW a \in Callers, NEW c \in Certs, NEW status \in Stored,
              NEW when \in Phases \ {"unborn"}, ImportInsert(a, c, status, when)
       PROVE  LifecycleInv'
  <2>1. phase[c] = "unborn" /\ task' = task
        /\ UNCHANGED <<revoked, parent, unlinked>> /\ imported \subseteq imported'
    BY <1>19 DEF ImportInsert
  <2>2. task[a][c].stage = "none"
    BY <1>19 DEF ImportInsert, StartCall, Busy
  <2>3. /\ \A e \in Certs : e # c => row'[e] = row[e] /\ phase'[e] = phase[e]
                                     /\ by'[e] = by[e]
        /\ phase'[c] # "unborn"
    BY <1>19 DEF ImportInsert, TypeOK
  <2>4. row'[c].status = status /\ row'[c].superseded = None
    BY <1>19 DEF ImportInsert, TypeOK, AbsentRow
  <2>5. status = "revoked" => c \in imported'
    BY <1>19 DEF ImportInsert
  <2>6. task' = [task EXCEPT ![a][c] = task[a][c]]
    BY <1>d, <2>1 DEF TypeOK
  <2> QED BY <1>b, <1>d, <2>1, <2>2, <2>3, <2>4, <2>5, <2>6, InsertStep
<1>5. ASSUME NEW a \in Callers, NEW c \in Certs,
             Revoke(a, c) \/ DeleteCertificate(a, c)
      PROVE  LifecycleInv'
  <2>1. /\ UNCHANGED <<phase, task, parent, by, unlinked, imported>>
        /\ revoked \subseteq revoked'
        /\ \A e \in Certs : e # c => row'[e] = row[e]
        /\ Exists(c)
    BY <1>5 DEF Revoke, DeleteCertificate, TypeOK
  <2>2. \/ row'[c] = AbsentRow
        \/ c \in revoked' /\ row'[c].superseded = row[c].superseded
    BY <1>5, <1>c DEF Revoke, DeleteCertificate, TypeOK, Row
  <2>3. task' = [task EXCEPT ![a][c] = task[a][c]]
    BY <1>d, <2>1 DEF TypeOK
  <2>4. SnapshotSound(c, row[c])' /\ SnapshotSound(c, task[a][c].row)
    BY <1>a, <1>b, <1>d, <2>1, <2>2, NoTaskFields DEF SnapshotSound, Successors
  <2>5. (Exists(c)' => row'[c].superseded = row[c].superseded)
    BY <2>2, NoTaskFields DEF Exists
  <2> DEFINE t == task[a][c]
  <2>6. /\ t \in Task /\ task' = [task EXCEPT ![a][c] = t]
        /\ SnapshotSound(c, t.row) /\ (t.stage # "none" => phase[c] # "unborn")
    BY <1>b, <1>d, <2>3, <2>4
  <2> QED BY <1>d, <2>1, <2>4, <2>5, <2>6, OneCertificateStep
<1>7. ASSUME NEW p \in Procs, NEW c \in Certs, NEW d \in Certs,
             NEW opened \in BOOLEAN, MintRenewal(p, c, d, opened)
      PROVE  LifecycleInv'
  BY <1>7, MintStep
<1>8. ASSUME NEW p \in Procs, NEW c \in Certs, Supersede(p, c)
      PROVE  LifecycleInv'
  <2> DEFINE t == task[p][c]
  <2>1. t.new \in Successors(c) /\ SnapshotSound(c, t.row)
    BY <1>8, <1>b DEF Supersede
  <2>2. t.new # None
    BY <2>1, NoneAssumption DEF Successors
  <2>3. /\ task' = [task EXCEPT ![p][c] = NoTask]
        /\ UNCHANGED <<phase, parent, by, revoked, unlinked, imported>>
        /\ \A e \in Certs : e # c => row'[e] = row[e]
    BY <1>8 DEF Supersede, Finish, TypeOK
  <2>4. \/ row'[c] = row[c] /\ ~Exists(c)
        \/ row'[c].status = t.row.status /\ row'[c].superseded = t.new
           /\ Exists(c)
    BY <1>8, <1>c DEF Supersede, TypeOK, Row
  <2>5. SnapshotSound(c, row[c])' /\ SnapshotSound(c, NoTask.row)
    BY <1>a, <2>1, <2>3, <2>4, NoTaskFields DEF SnapshotSound, Successors
  <2>6. (Exists(c)' => Exists(c)) /\ (Exists(c)' => row'[c].superseded # None)
    BY <2>2, <2>4 DEF Exists
  <2> QED BY <2>3, <2>5, <2>6, RowFacts, NoTaskFields, OneCertificateStep
<1>9. ASSUME NEW i \in Instances, DueForRenewal(i) PROVE LifecycleInv'
  <2>1. PICK S \in SUBSET {c \in Certs : Eligible(c)} :
          task' = [task EXCEPT ![i] =
              [c \in Certs |-> IF c \in S THEN [NoTask EXCEPT !.stage = "due"]
                               ELSE NoTask]]
    BY <1>9 DEF DueForRenewal
  <2>2. /\ \A c \in S : /\ task'[i][c] = [NoTask EXCEPT !.stage = "due"]
                        /\ Exists(c) /\ row[c].superseded = None
        /\ \A c \in Certs \ S : task'[i][c] = NoTask
        /\ \A q \in Procs : q # i => task'[q] = task[q]
    BY <2>1, <1>e DEF TypeOK, Eligible, Exists
  <2>3. UNCHANGED <<row, phase, parent, by, revoked, unlinked, imported>>
        /\ \A c \in Certs : task[i][c].stage = "none"
    BY <1>9 DEF DueForRenewal, Busy
  <2>a. \A c \in Certs :
          /\ task'[i][c].row = AbsentRow
          /\ \/ task'[i][c].stage = "none"
             \/ /\ task'[i][c].stage = "due"
                /\ Exists(c) /\ row[c].superseded = None
    BY <2>2, NoTaskFields, Zenon
  <2>4. \A c \in Certs :
         /\ SnapshotSound(c, row[c])'
         /\ Exists(c)' => Exists(c)
         /\ (Exists(c)' /\ c \notin unlinked' /\ row[c].superseded # None)
              => row'[c].superseded # None
    BY <1>a, <2>3 DEF SnapshotSound, Successors, Exists
  <2>5. \A p \in Procs, c \in Certs :
         /\ SnapshotSound(c, task[p][c].row)'
         /\ task'[p][c].stage # "none" => phase[c] # "unborn"
    <3> SUFFICES ASSUME NEW p \in Procs, NEW c \in Certs
                 PROVE  /\ SnapshotSound(c, task[p][c].row)'
                        /\ task'[p][c].stage # "none" => phase[c] # "unborn"
      OBVIOUS
    <3>1. CASE p = i
      BY <1>c, <2>a, <3>1, NoTaskFields DEF SnapshotSound
    <3>2. CASE p # i
      BY <1>b, <2>2, <2>3, <3>2 DEF SnapshotSound, Successors
    <3> QED BY <3>1, <3>2
  <2>6. \A p \in Procs, c \in Certs :
             /\ task'[p][c].stage = "minted" =>
                  task[p][c].stage = "minted" /\ task'[p][c].new = task[p][c].new
             /\ (p \in Instances /\ task'[p][c].stage \in {"due", "read"}) =>
                  \/ task[p][c].stage \in {"due", "read"}
                  \/ /\ task[p][c].stage = "none"
                     /\ Exists(c)
                     /\ row[c].superseded = None
             /\ (/\ p \in Instances
                 /\ task[p][c].stage = "minted"
                 /\ task'[p][c].stage # "minted") => FALSE
    <3> SUFFICES ASSUME NEW p \in Procs, NEW c \in Certs
                 PROVE  \/ task'[p][c] = task[p][c]
                        \/ /\ task[p][c].stage = "none"
                           /\ task'[p][c].stage = "none"
                        \/ /\ task[p][c].stage = "none"
                           /\ task'[p][c].stage = "due"
                           /\ Exists(c) /\ row[c].superseded = None
      OBVIOUS
    <3> QED BY <2>2, <2>3, <2>a
  <2> QED BY <2>3, <2>4, <2>5, <2>6, QuietStep
<1>10. ASSUME NEW i \in Instances, NEW c \in Certs, RenewSystem(i, c)
       PROVE  LifecycleInv'
  <2> DEFINE t == IF Exists(c)
                  THEN [stage |-> "read", row |-> row[c], new |-> None]
                  ELSE NoTask
  <2>1. /\ t \in Task /\ t.stage \in {"none", "read"} /\ t.row \in {row[c], AbsentRow}
    BY <1>c, RowFacts, NoTaskFields
  <2>2. /\ task' = [task EXCEPT ![i][c] = t]
        /\ UNCHANGED <<row, phase, parent, by, revoked, unlinked, imported>>
        /\ task[i][c].stage = "due"
    BY <1>10 DEF RenewSystem
  <2>3. SnapshotSound(c, row[c])'
    BY <1>a, <2>2 DEF SnapshotSound, Successors
  <2> HIDE DEF t
  <2>4. SnapshotSound(c, t.row)
    BY <1>a, <2>1, NoTaskFields DEF SnapshotSound
  <2> QED BY <1>b, <1>e, <2>1, <2>2, <2>3, <2>4, OneCertificateStep DEF Exists
<1>11. ASSUME NEW p \in Procs, NEW c \in Certs, StepFails(p, c)
       PROVE  LifecycleInv'
  <2>1. /\ task' = [task EXCEPT ![p][c] = NoTask]
        /\ UNCHANGED <<row, phase, parent, by, revoked, imported>>
        /\ unlinked \subseteq unlinked'
        /\ task[p][c].stage = "minted" => c \in unlinked'
    BY <1>11 DEF StepFails, Finish
  <2>2. SnapshotSound(c, row[c])' /\ SnapshotSound(c, NoTask.row)
    BY <1>a, <2>1, NoTaskFields DEF SnapshotSound, Successors
  <2> QED BY <2>1, <2>2, RowFacts, NoTaskFields, OneCertificateStep DEF Exists
<1>12. ASSUME NEW i \in Instances, Crash(i) PROVE LifecycleInv'
  <2>1. /\ \A c \in Certs : task'[i][c] = NoTask
        /\ \A q \in Procs : q # i => task'[q] = task[q]
    BY <1>12, <1>e DEF Crash, TypeOK
  <2>2. /\ UNCHANGED <<row, phase, parent, by, revoked, imported>>
        /\ unlinked \subseteq unlinked'
        /\ \A c \in Certs : task[i][c].stage = "minted" => c \in unlinked'
    BY <1>12 DEF Crash
  <2>3. \A c \in Certs :
         /\ SnapshotSound(c, row[c])'
         /\ Exists(c)' => Exists(c)
         /\ (Exists(c)' /\ c \notin unlinked' /\ row[c].superseded # None)
              => row'[c].superseded # None
    BY <1>a, <2>2 DEF SnapshotSound, Successors, Exists
  <2>4. \A p \in Procs, c \in Certs :
         /\ SnapshotSound(c, task[p][c].row)'
         /\ task'[p][c].stage # "none" => phase[c] # "unborn"
    BY <1>b, <2>1, <2>2, NoTaskFields DEF SnapshotSound, Successors
  <2>5. \A p \in Procs, c \in Certs :
             /\ task'[p][c].stage = "minted" =>
                  task[p][c].stage = "minted" /\ task'[p][c].new = task[p][c].new
             /\ (p \in Instances /\ task'[p][c].stage \in {"due", "read"}) =>
                  task[p][c].stage \in {"due", "read"}
             /\ (/\ p \in Instances
                 /\ task[p][c].stage = "minted"
                 /\ task'[p][c].stage # "minted") => c \in unlinked'
    BY <2>1, <2>2, NoTaskFields
  <2> QED BY <2>2, <2>3, <2>4, <2>5, QuietStep
<1>13. ASSUME NEW c \in Certs, Age(c) PROVE LifecycleInv'
  <2>1. /\ UNCHANGED <<row, task, parent, by, revoked, unlinked, imported>>
        /\ \A e \in Certs : phase'[e] = "unborn" <=> phase[e] = "unborn"
    BY <1>13 DEF Age, TypeOK
  <2>2. TaskSound'
    BY <2>1 DEF LifecycleInv, TaskSound, SnapshotSound, Successors
  <2>3. HistorySound'
    BY <2>1 DEF LifecycleInv, HistorySound, Successors, Exists
  <2>4. NotAgain' /\ OncePerInstance'
    BY <2>1 DEF LifecycleInv, NotAgain, OncePerInstance, Successors, Exists
  <2>5. Linked'
    BY <2>1 DEF LifecycleInv, Linked, RevokedIsListed, SupersededBySuccessor,
           Successors, Exists
  <2> QED BY <2>2, <2>3, <2>4, <2>5 DEF LifecycleInv
<1>14. CASE UNCHANGED vars
  <2>1. UNCHANGED <<row, task, phase, parent, by, revoked, unlinked, imported>>
    BY <1>14 DEF vars
  <2>2. TaskSound' /\ HistorySound'
    BY <2>1 DEF LifecycleInv, TaskSound, HistorySound, SnapshotSound,
           Successors, Exists
  <2>3. NotAgain' /\ OncePerInstance'
    BY <2>1 DEF LifecycleInv, NotAgain, OncePerInstance, Successors, Exists
  <2>4. Linked'
    BY <2>1 DEF LifecycleInv, Linked, RevokedIsListed, SupersededBySuccessor,
           Successors, Exists
  <2> QED BY <2>2, <2>3, <2>4 DEF LifecycleInv
<1>15. ASSUME NEW p \in Procs, NEW c \in Certs, RenewStep(p, c) PROVE LifecycleInv'
  BY <1>7, <1>8, <1>15 DEF RenewStep
<1>16. ASSUME NEW a \in Callers, NEW c \in Certs, CallerStep(a, c)
       PROVE  LifecycleInv'
  BY <1>1, <1>2, <1>3, <1>4, <1>5, <1>16, <1>18, <1>19 DEF CallerStep
<1>17. ASSUME NEW i \in Instances, InstanceStep(i) PROVE LifecycleInv'
  BY <1>e, <1>9, <1>10, <1>15, <1>17 DEF InstanceStep
<1> QED
  BY <1>d, <1>11, <1>12, <1>13, <1>14, <1>15, <1>16, <1>17 DEF Next

\* The invariant of the lifecycle, from which the two results below follow.
THEOREM LifecycleCorrect == Spec => []LifecycleInv
<1>1. Init => TypeOK /\ LifecycleInv
  BY TypeInit, LifecycleInit
<1>2. TypeOK /\ LifecycleInv /\ [Next]_vars => TypeOK' /\ LifecycleInv'
  BY TypeStep, LifecycleStep
<1>3. QED
  BY <1>1, <1>2, PTL DEF Spec

\* A revoked row is always in the revocation list unless an import's document
\* said revoked, and superseded_by always names a renewal of its own
\* certificate, for any number of stale writers, imports included.
THEOREM LinkedCorrect == Spec => [](RevokedIsListed /\ SupersededBySuccessor)
<1>1. LifecycleInv => RevokedIsListed /\ SupersededBySuccessor
  BY DEF LifecycleInv, Linked
<1>2. QED
  BY <1>1, LifecycleCorrect, PTL

\* The superseded_by that SetCertificateStatus and UpdateCertificate write
\* always names a renewal of the row's own certificate.
THEOREM SupersededCorrect == Spec => []SupersededBySuccessor
  BY LinkedCorrect, PTL

\* However many instances and callers there are, no instance renews a
\* certificate twice unless a link to a successor was lost.
THEOREM OncePerInstanceCorrect == Spec => []OncePerInstance
<1>1. LifecycleInv => OncePerInstance
  BY DEF LifecycleInv
<1>2. QED
  BY <1>1, LifecycleCorrect, PTL

-------------------------------------------------------------------------------
(* The keys over a chain of renewals *)

\* No key in an absent row or in a task that has read nothing.
LEMMA NoKeys ==
    /\ AbsentRow.key = None
    /\ NoTask.row.key = None /\ NoTask.stage = "none"
    /\ [NoTask EXCEPT !.stage = "due"].row.key = None
    /\ [NoTask EXCEPT !.stage = "due"].stage = "due"
    /\ [NoTask EXCEPT !.stage = "deliver"].row.key = None
    /\ [NoTask EXCEPT !.stage = "deliver"].stage = "deliver"
  BY DEF NoTask, AbsentRow

\* A step that inserts no certificate keeps the keys when each row keeps its
\* key or loses it (a generic one only with the row itself), and each snapshot
\* is an old one, empty, or the row as it is.
LEMMA QuietKeys ==
    ASSUME TypeOK, KeyInv, kind' = kind, parent' = parent, rekeyed' = rekeyed,
           \A c \in Certs :
             /\ Exists(c)' => Exists(c)
             /\ phase'[c] = "unborn" => phase[c] = "unborn"
             /\ ~Exists(c)' => row'[c].key = None
             /\ \/ row'[c].key = row[c].key
                \/ row'[c].key = None /\ (kind[c] = "generic" => ~Exists(c)')
                \/ kind[c] = "svid" /\ row'[c].key \in {c, None},
           \A p \in Procs, c \in Certs :
             \/ task'[p][c] = task[p][c]
             \/ /\ task'[p][c].row.key = None
                /\ task'[p][c].stage \in {"none", "due"}
             \/ /\ task'[p][c].row = row[c] /\ Exists(c)
                /\ task'[p][c].stage \in {"read", "update", "import"}
    PROVE  KeyInv'
<1> USE DEF Successors, Snapped
<1>0. \A c \in Certs : kind[c] \in Kinds
  BY DEF TypeOK
<1>1. SvidKeys'
  <2> SUFFICES ASSUME NEW c \in Certs, kind[c] = "svid"
               PROVE  /\ row'[c].key \in {c, None}
                      /\ \A p \in Procs : task'[p][c].row.key \in {c, None}
    BY DEF SvidKeys
  <2>1. /\ row[c].key \in {c, None}
        /\ \A p \in Procs : task[p][c].row.key \in {c, None}
    BY DEF KeyInv, SvidKeys
  <2> QED BY <2>1
<1>2. GenericKeys'
  <2> SUFFICES ASSUME NEW c \in Certs, NEW p \in Procs, kind[c] = "generic"
               PROVE  /\ phase'[c] # "unborn"
                      /\ task'[p][c].stage # "deliver"
                      /\ (Exists(c)' /\ task'[p][c].stage \in Snapped)
                           => task'[p][c].row.key = row'[c].key
    BY DEF GenericKeys
  <2>1. /\ phase[c] # "unborn"
        /\ task[p][c].stage # "deliver"
        /\ (Exists(c) /\ task[p][c].stage \in Snapped) =>
              task[p][c].row.key = row[c].key
    BY DEF KeyInv, GenericKeys
  <2>2. Exists(c)' => Exists(c) /\ row'[c].key = row[c].key
    OBVIOUS
  <2> QED BY <2>1, <2>2
<1>3. Family'
  BY DEF KeyInv, Family
<1>4. RenewalKey'
  <2> SUFFICES ASSUME NEW c \in Certs, NEW d \in Successors(c) \ rekeyed,
                      row'[c].key # None, row'[d].key # None
               PROVE  row'[d].key = row'[c].key <=> kind[c] = "generic"
    BY DEF RenewalKey
  <2>1. d \in Certs /\ d # c /\ kind[d] = kind[c]
    BY DEF KeyInv, Family
  <2>2. CASE kind[c] = "svid"
    BY <1>1, <2>1, <2>2 DEF SvidKeys
  <2>3. CASE kind[c] = "generic"
    <3>1. row'[c].key = row[c].key /\ row'[d].key = row[d].key
      BY <2>1, <2>3
    <3> QED BY <2>3, <3>1 DEF KeyInv, RenewalKey
  <2> QED BY <1>0, <2>2, <2>3 DEF Kinds
<1>5. Present'
  BY DEF KeyInv, Present, Exists
<1> QED
  BY <1>1, <1>2, <1>3, <1>4, <1>5 DEF KeyInv

\* A call or a renewal that is over holds no snapshot.
LEMMA FinishKeys ==
    ASSUME TypeOK, NEW p \in Procs, NEW c \in Certs, Finish(p, c)
    PROVE  \A q \in Procs, e \in Certs :
             \/ task'[q][e] = task[q][e]
             \/ task'[q][e].row.key = None /\ task'[q][e].stage \in {"none", "due"}
<1>1. /\ task' = [task EXCEPT ![p][c] = NoTask] /\ NoTask \in Task
      /\ task \in [Procs -> [Certs -> Task]]
  BY RowFacts DEF Finish, TypeOK
<1>2. task'[p][c] = NoTask
      /\ \A q \in Procs, e \in Certs :
            ~(q = p /\ e = c) => task'[q][e] = task[q][e]
  BY <1>1, TaskWrite
<1>3. NoTask.row.key = None /\ NoTask.stage = "none"
  BY NoKeys
<1> QED
  BY <1>2, <1>3

\* A new row: nothing refers to its id yet, and its key is its own unless it
\* renews a generic certificate whose key could be opened.
LEMMA InsertKeys ==
    ASSUME TypeOK, LifecycleInv, KeyInv,
           NEW p \in Procs, NEW c \in Certs, NEW t \in Task,
           NEW d \in Certs, NEW k \in Kinds, NEW r \in Row,
           phase[d] = "unborn",
           task' = [task EXCEPT ![p][c] = t],
           row' = [row EXCEPT ![d] = r],
           kind' = [kind EXCEPT ![d] = k],
           \A e \in Certs : e # d => phase'[e] = phase[e], phase'[d] # "unborn",
           r.status # "absent", rekeyed \subseteq rekeyed',
           \/ /\ c = d /\ parent' = parent /\ r.key \in {d, None}
              /\ t.row.key = None \/ t.row = task[p][c].row
              /\ t.stage = "none" \/ (t.stage = "deliver" /\ k = "svid")
           \/ /\ phase[c] # "unborn" /\ parent' = [parent EXCEPT ![d] = c]
              /\ k = kind[c] /\ task[p][c].stage = "read"
              /\ t.row = task[p][c].row /\ t.stage = "minted"
              /\ r.key \in {t.row.key, d} /\ (k = "svid" => r.key = d)
              /\ r.key = t.row.key \/ t.row.key = None \/ k = "svid"
                                   \/ d \in rekeyed'
    PROVE  KeyInv'
<1> USE DEF Snapped
<1>1. /\ task'[p][c] = t
      /\ \A q \in Procs, e \in Certs :
            ~(q = p /\ e = c) => task'[q][e] = task[q][e]
  BY TaskWrite DEF TypeOK
<1>2. /\ row'[d] = r /\ kind'[d] = k /\ phase'[d] # "unborn"
      /\ \A e \in Certs : e # d =>
           row'[e] = row[e] /\ kind'[e] = kind[e] /\ phase'[e] = phase[e]
  BY DEF TypeOK
<1>3. /\ parent[d] = None /\ Successors(d) = {} /\ ~Exists(d)
      /\ \A q \in Procs : task[q][d].stage = "none"
  BY DEF LifecycleInv, HistorySound, TaskSound
<1>4. /\ \A e \in Certs : e # d => parent'[e] = parent[e]
      /\ parent'[d] = None \/ (parent'[d] = c /\ c # d)
  BY <1>3 DEF TypeOK
<1>5. Family'
  <2> SUFFICES ASSUME NEW e \in Certs, NEW f \in Certs, parent'[f] = e
               PROVE  f # e /\ kind'[f] = kind'[e]
    BY DEF Family, Successors
  <2>1. CASE f = d
    BY <1>2, <1>4, <2>1, NoneAssumption
  <2>2. CASE f # d
    <3>1. parent[f] = e /\ e # d
      BY <1>3, <1>4, <2>2 DEF Successors
    <3> QED BY <1>2, <2>2, <3>1 DEF KeyInv, Family, Successors
  <2> QED BY <2>1, <2>2
<1>6. SvidKeys'
  <2>0. kind[d] = "svid"
    BY DEF KeyInv, GenericKeys, TypeOK, Kinds
  <2> SUFFICES ASSUME NEW e \in Certs, kind'[e] = "svid"
               PROVE  /\ row'[e].key \in {e, None}
                      /\ \A q \in Procs : task'[q][e].row.key \in {e, None}
    BY DEF SvidKeys
  <2>1. kind[e] = "svid"
    BY <1>2, <2>0
  <2>2. /\ row[e].key \in {e, None}
        /\ \A q \in Procs : task[q][e].row.key \in {e, None}
    BY <2>1 DEF KeyInv, SvidKeys
  <2>3. row'[e].key \in {e, None}
    BY <1>2, <2>2
  <2>4. t.row.key = None \/ t.row = task[p][c].row
    OBVIOUS
  <2>5. \A q \in Procs : task'[q][e].row.key \in {e, None}
    BY <1>1, <2>2, <2>4
  <2> QED BY <2>3, <2>5
<1>7. GenericKeys'
  <2> SUFFICES ASSUME NEW e \in Certs, NEW q \in Procs, kind'[e] = "generic"
               PROVE  /\ phase'[e] # "unborn"
                      /\ task'[q][e].stage # "deliver"
                      /\ (Exists(e)' /\ task'[q][e].stage \in Snapped)
                           => task'[q][e].row.key = row'[e].key
    BY DEF GenericKeys
  <2>1. CASE e = d
    BY <1>1, <1>2, <1>3, <2>1
  <2>2. CASE e # d
    <3>1. /\ kind[e] = "generic" /\ row'[e] = row[e] /\ phase'[e] = phase[e]
          /\ Exists(e)' <=> Exists(e)
      BY <1>2, <2>2 DEF Exists
    <3>2. /\ phase[e] # "unborn" /\ task[q][e].stage # "deliver"
          /\ (Exists(e) /\ task[q][e].stage \in Snapped)
               => task[q][e].row.key = row[e].key
      BY <3>1 DEF KeyInv, GenericKeys
    <3>3. CASE q = p /\ e = c
      BY <1>1, <2>2, <3>1, <3>2, <3>3
    <3>4. CASE ~(q = p /\ e = c)
      BY <1>1, <3>1, <3>2, <3>4
    <3> QED BY <3>3, <3>4
  <2> QED BY <2>1, <2>2
<1>8. RenewalKey'
  <2> SUFFICES ASSUME NEW e \in Certs, NEW f \in Certs, parent'[f] = e,
                      f \notin rekeyed', row'[e].key # None, row'[f].key # None
               PROVE  row'[f].key = row'[e].key <=> kind'[e] = "generic"
    BY DEF RenewalKey, Successors
  <2>1. f # e /\ kind'[f] = kind'[e]
    BY <1>5 DEF Family, Successors
  <2>2. CASE kind'[e] = "svid"
    BY <1>6, <2>1, <2>2 DEF SvidKeys
  <2>3. CASE kind'[e] = "generic" /\ f = d
    <3>1. /\ e = c /\ c # d /\ k = kind[c] /\ task[p][c].stage = "read"
          /\ t.row = task[p][c].row /\ k = "generic"
          /\ r.key = t.row.key \/ t.row.key = None
      BY <1>2, <1>3, <1>4, <2>1, <2>3, NoneAssumption
    <3>2. row[c] \in Row /\ row'[c] = row[c] /\ row[c].key # None
      BY <1>2, <3>1 DEF TypeOK
    <3>3. CASE Exists(c)
      <4>1. kind[c] = "generic" /\ task[p][c].stage = "read"
        BY <3>1
      <4>2. GenericKeys
        BY DEF KeyInv
      <4>3. task[p][c].row.key = row[c].key
        BY <3>3, <4>1, <4>2, Zenon DEF GenericKeys
      <4> QED BY <1>2, <2>3, <3>1, <3>2, <4>3
    <3>4. CASE ~Exists(c)
      BY <3>2, <3>4 DEF KeyInv, Present
    <3> QED BY <3>3, <3>4
  <2>4. CASE kind'[e] = "generic" /\ f # d
    <3>1. parent[f] = e /\ e # d
      BY <1>3, <1>4, <2>4 DEF Successors
    <3> QED BY <1>2, <2>4, <3>1 DEF KeyInv, RenewalKey, Successors
  <2>5. kind'[e] \in Kinds
    BY <1>2 DEF TypeOK
  <2> QED BY <2>2, <2>3, <2>4, <2>5 DEF Kinds
<1>9. Present'
  BY <1>1, <1>2 DEF KeyInv, Present, Exists
<1> QED
  BY <1>5, <1>6, <1>7, <1>8, <1>9 DEF KeyInv

\* The table is empty at the start.
LEMMA KeyInit == Init => KeyInv
<1> SUFFICES ASSUME Init PROVE KeyInv
  OBVIOUS
<1>1. \A c \in Certs : row[c] = AbsentRow /\ kind[c] = "svid" /\ Successors(c) = {}
  BY NoneAssumption DEF Init, Successors
<1>2. \A p \in Procs, c \in Certs : task[p][c] = NoTask
  BY DEF Init
<1>3. SvidKeys
  BY <1>1, <1>2, NoKeys DEF SvidKeys
<1>4. GenericKeys
  BY <1>1 DEF GenericKeys
<1>5. Present
  BY <1>1, <1>2, NoKeys DEF Present, Snapped
<1>6. Family /\ RenewalKey
  BY <1>1 DEF Family, RenewalKey
<1> QED
  BY <1>3, <1>4, <1>5, <1>6 DEF KeyInv

\* Every action keeps the keys.
LEMMA KeyStep == TypeOK /\ LifecycleInv /\ KeyInv /\ [Next]_vars => KeyInv'
<1> SUFFICES ASSUME TypeOK, LifecycleInv, KeyInv, [Next]_vars PROVE KeyInv'
  OBVIOUS
<1>0. /\ \A a \in Callers : a \in Procs
      /\ \A i \in Instances : i \in Procs
      /\ \A e \in Certs : ~Exists(e) => row[e].key = None
  BY DEF Procs, KeyInv, Present
<1>1. ASSUME NEW a \in Callers, NEW c \in Certs, NEW k \in Kinds,
             NEW key \in {c, None}, NEW auto \in BOOLEAN, NEW deliver \in BOOLEAN,
             InsertCertificate(a, c, k, key, auto, deliver)
      PROVE  KeyInv'
  <2> DEFINE t == IF deliver THEN [NoTask EXCEPT !.stage = "deliver"] ELSE NoTask
             r == [status |-> "active", superseded |-> None, key |-> key,
                   autoRenew |-> auto]
  <2>1. t \in Task /\ a \in Procs
    BY RowFacts, <1>0
  <2>5. t.row.key = None
    BY NoKeys
  <2>6. t.stage = "none" \/ (t.stage = "deliver" /\ deliver)
    BY NoKeys
  <2>2. r \in Row /\ r.status # "absent" /\ r.key \in {c, None}
    BY DEF Row, Statuses, Stored
  <2>3. /\ task' = [task EXCEPT ![a][c] = t] /\ row' = [row EXCEPT ![c] = r]
        /\ kind' = [kind EXCEPT ![c] = k] /\ phase' = [phase EXCEPT ![c] = "fresh"]
        /\ parent' = parent /\ phase[c] = "unborn" /\ (deliver => k = "svid")
        /\ rekeyed' = rekeyed
    BY <1>1 DEF InsertCertificate
  <2> HIDE DEF t, r
  <2>7. t.stage = "none" \/ (t.stage = "deliver" /\ k = "svid")
    BY <2>3, <2>6
  <2>8. (\A e \in Certs : e # c => phase'[e] = phase[e]) /\ phase'[c] # "unborn"
    BY <2>3 DEF TypeOK
  <2> QED BY <2>1, <2>2, <2>3, <2>5, <2>7, <2>8, InsertKeys
<1>2. ASSUME NEW p \in Procs, NEW c \in Certs, NEW d \in Certs,
             NEW opened \in BOOLEAN, MintRenewal(p, c, d, opened)
      PROVE  KeyInv'
  <2> DEFINE t == [task[p][c] EXCEPT !.stage = "minted", !.new = d]
             r == RenewedRow(kind[c], task[p][c].row, d, opened)
  <2>1. task[p][c] \in Task /\ task[p][c].row \in Row /\ kind[c] \in Kinds
    BY DEF TypeOK, Task
  <2>6. task[p][c] \in Task
    BY <2>1
  <2>2. t \in Task /\ t.stage = "minted" /\ t.row = task[p][c].row
    BY <2>6 DEF Task, Stages
  <2>7. r \in Row
    BY <2>1, RowFacts
  <2>3. /\ r.status # "absent" /\ r.key \in {task[p][c].row.key, d}
        /\ kind[c] = "svid" => r.key = d
        /\ \/ r.key = task[p][c].row.key \/ task[p][c].row.key = None
           \/ kind[c] = "svid" \/ ~opened
    BY <2>1 DEF RenewedRow, Kinds
  <2>4. /\ task' = [task EXCEPT ![p][c] = t] /\ row' = [row EXCEPT ![d] = r]
        /\ kind' = [kind EXCEPT ![d] = kind[c]]
        /\ phase' = [phase EXCEPT ![d] = "fresh"]
        /\ parent' = [parent EXCEPT ![d] = c] /\ phase[d] = "unborn"
        /\ task[p][c].stage = "read"
        /\ rekeyed \subseteq rekeyed' /\ (opened \/ d \in rekeyed')
    BY <1>2 DEF MintRenewal
  <2>5. phase[c] # "unborn"
    BY <2>4 DEF LifecycleInv, TaskSound
  <2> HIDE DEF t, r
  <2>8. (\A e \in Certs : e # d => phase'[e] = phase[e]) /\ phase'[d] # "unborn"
    BY <2>4 DEF TypeOK
  <2> QED BY <2>1, <2>2, <2>3, <2>4, <2>5, <2>7, <2>8, InsertKeys
<1>3. ASSUME NEW a \in Callers, NEW c \in Certs, MarkKeyDelivered(a, c)
      PROVE  KeyInv'
  <2>2. \A q \in Procs, e \in Certs :
          \/ task'[q][e] = task[q][e]
          \/ task'[q][e].row.key = None /\ task'[q][e].stage \in {"none", "due"}
    BY <1>0, <1>3, FinishKeys DEF MarkKeyDelivered
  <2>3. kind[c] = "svid"
    BY <1>0, <1>3 DEF MarkKeyDelivered, KeyInv, GenericKeys, TypeOK, Kinds
  <2>4. row'[c].status = row[c].status /\ row'[c].key \in {None, row[c].key}
        /\ \A e \in Certs : e # c => row'[e] = row[e]
    BY <1>3 DEF MarkKeyDelivered, TypeOK, Row
  <2>5. \A e \in Certs :
          /\ Exists(e)' <=> Exists(e)
          /\ \/ row'[e].key = row[e].key
             \/ row'[e].key = None /\ kind[e] = "svid"
    BY <2>3, <2>4 DEF Exists
  <2>6. \A e \in Certs : ~Exists(e)' => row'[e].key = None
    <3> SUFFICES ASSUME NEW e \in Certs, ~Exists(e)' PROVE row'[e].key = None
      OBVIOUS
    <3>1. ~Exists(e)
      BY <2>5
    <3>2. row[e].key = None
      BY <1>0, <3>1
    <3> QED BY <2>5, <3>2
  <2>7. UNCHANGED <<kind, phase, parent, rekeyed>>
    BY <1>3 DEF MarkKeyDelivered
  <2> QED BY <2>2, <2>5, <2>6, <2>7, QuietKeys
<1>4. ASSUME NEW a \in Callers, NEW c \in Certs,
             ReadForUpdate(a, c) \/ Renew(a, c) \/ ReadForImport(a, c)
      PROVE  KeyInv'
  <2>1. PICK t \in Task : /\ task' = [task EXCEPT ![a][c] = t]
                          /\ t.row = row[c] /\ t.stage \in {"read", "update", "import"}
    <3>1. row[c] \in Row
      BY DEF TypeOK
    <3>2. CASE ReadForUpdate(a, c)
      BY <3>1, <3>2, RowFacts DEF ReadForUpdate
    <3>3. CASE Renew(a, c)
      BY <3>1, <3>3, RowFacts DEF Renew
    <3>4. CASE ReadForImport(a, c)
      BY <3>1, <3>4, RowFacts DEF ReadForImport
    <3> QED BY <1>4, <3>2, <3>3, <3>4
  <2>2. \A q \in Procs, e \in Certs :
          \/ task'[q][e] = task[q][e]
          \/ e = c /\ task'[q][e].row = row[e]
             /\ task'[q][e].stage \in {"read", "update", "import"}
    BY <1>0, <2>1, TaskWrite DEF TypeOK
  <2>3. Exists(c) /\ UNCHANGED <<row, kind, phase, parent, rekeyed>>
    BY <1>4 DEF ReadForUpdate, Renew, ReadForImport
  <2>4. \A e \in Certs : (Exists(e)' <=> Exists(e)) /\ (~Exists(e) => row[e].key = None)
    BY <2>3 DEF Exists, KeyInv, Present
  <2> QED BY <2>2, <2>3, <2>4, QuietKeys
<1>5. ASSUME NEW p \in Procs, NEW c \in Certs,
             UNCHANGED <<kind, phase, parent, rekeyed>>, Finish(p, c),
             \A e \in Certs : e # c \/ ~Exists(c) => row'[e] = row[e],
             Exists(c) => row'[c].status # "absent",
             Exists(c) => \/ row'[c].key = row[c].key
                          \/ kind[c] = "svid" /\ row'[c].key \in {c, None}
      PROVE  KeyInv'
  <2>1. \A e \in Certs : Exists(e)' <=> Exists(e)
    BY <1>5 DEF Exists
  <2>2. \A e \in Certs :
          \/ row'[e].key = row[e].key
          \/ kind[e] = "svid" /\ row'[e].key \in {e, None}
    <3> TAKE e \in Certs
    <3>1. CASE e = c /\ Exists(c)
      BY <1>5, <3>1
    <3>2. CASE e # c \/ ~Exists(c)
      BY <1>5, <3>2
    <3> QED BY <3>1, <3>2
  <2>3. \A e \in Certs : ~Exists(e)' => row'[e].key = None
    BY <1>0, <1>5 DEF Exists
  <2>4. \A q \in Procs, e \in Certs :
          \/ task'[q][e] = task[q][e]
          \/ task'[q][e].row.key = None /\ task'[q][e].stage \in {"none", "due"}
    BY <1>5, FinishKeys
  <2> QED BY <1>5, <2>1, <2>2, <2>3, <2>4, QuietKeys
<1>19. ASSUME NEW a \in Callers, NEW c \in Certs,
              task[a][c].stage \in {"update", "import"}
       PROVE  /\ task[a][c].row \in Row
              /\ task[a][c].row.status # "absent"
              /\ Exists(c) => \/ task[a][c].row.key = row[c].key
                              \/ /\ kind[c] = "svid"
                                 /\ task[a][c].row.key \in {c, None}
  <2>1. a \in Procs /\ task[a][c].row \in Row /\ task[a][c].stage \in Snapped
    BY <1>0, <1>19 DEF TypeOK, Task, Snapped
  <2>2. task[a][c].row.status # "absent"
    BY <2>1 DEF KeyInv, Present
  <2>3. CASE kind[c] = "svid"
    BY <2>1, <2>2, <2>3 DEF KeyInv, SvidKeys
  <2>4. CASE kind[c] = "generic"
    <3>1. GenericKeys
      BY DEF KeyInv
    <3>2. Exists(c) => task[a][c].row.key = row[c].key
      BY <2>1, <2>4, <3>1, Zenon DEF GenericKeys
    <3> QED BY <2>1, <2>2, <3>2
  <2> QED BY <2>3, <2>4 DEF TypeOK, Kinds
<1>6. ASSUME NEW a \in Callers, NEW c \in Certs, NEW auto \in BOOLEAN,
             UpdateCertificate(a, c, auto)
      PROVE  KeyInv'
  <2> DEFINE snap == task[a][c].row
  <2>1. /\ snap \in Row /\ snap.status # "absent"
        /\ Exists(c) => \/ snap.key = row[c].key
                        \/ kind[c] = "svid" /\ snap.key \in {c, None}
    BY <1>6, <1>19 DEF UpdateCertificate
  <2>4. /\ UNCHANGED <<kind, phase, parent, rekeyed>> /\ Finish(a, c)
        /\ \A e \in Certs : e # c \/ ~Exists(c) => row'[e] = row[e]
        /\ Exists(c) => row'[c] = [snap EXCEPT !.autoRenew = auto]
    BY <1>6 DEF UpdateCertificate, TypeOK
  <2>5. Exists(c) => row'[c].status = snap.status /\ row'[c].key = snap.key
    BY <2>1, <2>4 DEF Row
  <2> HIDE DEF snap
  <2> QED BY <1>0, <1>5, <2>1, <2>4, <2>5
<1>20. ASSUME NEW a \in Callers, NEW c \in Certs, NEW status \in Stored,
              ImportOverwrite(a, c, status)
       PROVE  KeyInv'
  <2> DEFINE snap == task[a][c].row
  <2>1. /\ snap \in Row
        /\ Exists(c) => \/ snap.key = row[c].key
                        \/ kind[c] = "svid" /\ snap.key \in {c, None}
    BY <1>19, <1>20 DEF ImportOverwrite
  <2>4. /\ UNCHANGED <<kind, phase, parent, rekeyed>> /\ Finish(a, c)
        /\ \A e \in Certs : e # c \/ ~Exists(c) => row'[e] = row[e]
        /\ Exists(c) => row'[c] = [snap EXCEPT !.status = status]
    BY <1>20 DEF ImportOverwrite, TypeOK
  <2>5. Exists(c) => row'[c].status # "absent" /\ row'[c].key = snap.key
    BY <2>1, <2>4 DEF Row, Stored
  <2> HIDE DEF snap
  <2> QED BY <1>0, <1>5, <2>1, <2>4, <2>5
<1>21. ASSUME NEW a \in Callers, NEW c \in Certs, NEW status \in Stored,
              NEW when \in Phases \ {"unborn"}, ImportInsert(a, c, status, when)
       PROVE  KeyInv'
  <2> DEFINE r == [AbsentRow EXCEPT !.status = status]
  <2>1. r \in Row
    BY RowFacts
  <2>2. r.status # "absent" /\ r.key = None
    BY DEF AbsentRow, Stored
  <2>3. /\ row' = [row EXCEPT ![c] = r] /\ phase' = [phase EXCEPT ![c] = when]
        /\ UNCHANGED <<kind, parent, rekeyed, task>> /\ phase[c] = "unborn"
        /\ Busy(a) = {}
    BY <1>21 DEF ImportInsert, StartCall
  <2> HIDE DEF r
  <2>4. kind[c] = "svid" /\ "svid" \in Kinds
    BY <1>0, <2>3 DEF KeyInv, GenericKeys, TypeOK, Kinds
  <2>5. kind' = [kind EXCEPT ![c] = "svid"]
    BY <2>3, <2>4 DEF TypeOK
  <2> DEFINE t == task[a][c]
  <2>6. a \in Procs /\ t \in Task /\ task' = [task EXCEPT ![a][c] = t]
    BY <1>0, <2>3 DEF TypeOK
  <2>7. t.stage = "none"
    BY <2>3 DEF Busy
  <2>8. (\A e \in Certs : e # c => phase'[e] = phase[e]) /\ phase'[c] # "unborn"
    BY <2>3 DEF TypeOK
  <2> HIDE DEF t
  <2>9. t.row = task[a][c].row
    BY DEF t
  <2>10. /\ row' = [row EXCEPT ![c] = r] /\ phase[c] = "unborn"
         /\ parent' = parent /\ rekeyed \subseteq rekeyed' /\ r.key \in {c, None}
    BY <2>2, <2>3
  <2> QED BY <2>1, <2>2, <2>4, <2>5, <2>6, <2>7, <2>8, <2>9, <2>10, InsertKeys
<1>7. ASSUME NEW p \in Procs, NEW c \in Certs, Supersede(p, c) PROVE KeyInv'
  <2> DEFINE snap == task[p][c].row
  <2>1. task[p][c].stage = "minted" /\ row[c] \in Row
    BY <1>7 DEF Supersede, TypeOK
  <2>2. snap.status # "absent"
    BY <2>1 DEF KeyInv, Present, Snapped
  <2>3. /\ UNCHANGED <<kind, phase, parent, rekeyed>> /\ Finish(p, c)
        /\ \A e \in Certs : e # c \/ ~Exists(c) => row'[e] = row[e]
        /\ Exists(c) => row'[c] = [row[c] EXCEPT !.status = snap.status,
                                                !.superseded = task[p][c].new]
    BY <1>7 DEF Supersede, TypeOK
  <2>4. Exists(c) => row'[c].status = snap.status /\ row'[c].key = row[c].key
    BY <2>1, <2>3 DEF Row
  <2> HIDE DEF snap
  <2> QED BY <1>5, <2>2, <2>3, <2>4
<1>8. ASSUME NEW a \in Callers, NEW c \in Certs,
             Revoke(a, c) \/ DeleteCertificate(a, c)
      PROVE  KeyInv'
  <2>1. /\ UNCHANGED <<kind, phase, parent, rekeyed, task>> /\ row[c] \in Row
        /\ \A e \in Certs : e # c => row'[e] = row[e]
        /\ Exists(c)
        /\ \/ row'[c] = [row[c] EXCEPT !.status = "revoked"]
           \/ row'[c] = AbsentRow
    BY <1>8 DEF Revoke, DeleteCertificate, TypeOK
  <2>2. AbsentRow.key = None /\ AbsentRow.status = "absent"
    BY NoKeys, NoTaskFields
  <2>3. \/ row'[c].status = "revoked" /\ row'[c].key = row[c].key
        \/ row'[c].status = "absent" /\ row'[c].key = None
    BY <2>1, <2>2 DEF Row
  <2>4. \A e \in Certs :
          /\ Exists(e)' => Exists(e)
          /\ ~Exists(e)' => row'[e].key = None
          /\ \/ row'[e].key = row[e].key
             \/ row'[e].key = None /\ ~Exists(e)'
    BY <1>0, <2>1, <2>3 DEF Exists
  <2> QED BY <2>1, <2>4, QuietKeys
<1>9. ASSUME UNCHANGED <<row, kind, parent, rekeyed>>,
             \A e \in Certs : phase'[e] = "unborn" => phase[e] = "unborn",
             \A q \in Procs, e \in Certs :
               \/ task'[q][e] = task[q][e]
               \/ task'[q][e].row.key = None /\ task'[q][e].stage \in {"none", "due"}
               \/ /\ task'[q][e].row = row[e] /\ Exists(e)
                  /\ task'[q][e].stage \in {"read", "update", "import"}
      PROVE  KeyInv'
  <2>1. \A e \in Certs : (Exists(e)' <=> Exists(e)) /\ (~Exists(e)' => row'[e].key = None)
    BY <1>0, <1>9 DEF Exists
  <2> QED BY <1>9, <2>1, QuietKeys
<1>10. ASSUME NEW i \in Instances, DueForRenewal(i) PROVE KeyInv'
  <2>1. PICK T \in SUBSET Certs :
          task' = [task EXCEPT ![i] =
              [c \in Certs |-> IF c \in T THEN [NoTask EXCEPT !.stage = "due"]
                               ELSE NoTask]]
    BY <1>10 DEF DueForRenewal
  <2>2. \A q \in Procs, e \in Certs :
          task'[q][e] = task[q][e]
          \/ task'[q][e] = [NoTask EXCEPT !.stage = "due"] \/ task'[q][e] = NoTask
    BY <2>1, Zenon DEF TypeOK
  <2>3. \A q \in Procs, e \in Certs :
          \/ task'[q][e] = task[q][e]
          \/ task'[q][e].row.key = None /\ task'[q][e].stage \in {"none", "due"}
    BY <2>2, NoKeys, Zenon
  <2>4. UNCHANGED <<row, kind, parent, rekeyed, phase>>
    BY <1>10 DEF DueForRenewal
  <2> QED BY <1>9, <2>3, <2>4
<1>11. ASSUME NEW i \in Instances, NEW c \in Certs, RenewSystem(i, c)
       PROVE  KeyInv'
  <2>1. UNCHANGED <<row, kind, parent, rekeyed, phase>>
    BY <1>11 DEF RenewSystem
  <2>2. CASE Exists(c)
    <3> DEFINE t == [stage |-> "read", row |-> row[c], new |-> None]
    <3>1. t \in Task /\ t.row = row[c] /\ t.stage = "read"
      BY RowFacts DEF TypeOK
    <3>2. task' = [task EXCEPT ![i][c] = t]
      BY <1>11, <2>2 DEF RenewSystem
    <3> HIDE DEF t
    <3>3. task'[i][c] = t /\ \A q \in Procs, e \in Certs :
            ~(q = i /\ e = c) => task'[q][e] = task[q][e]
      BY <1>0, <3>1, <3>2, TaskWrite DEF TypeOK
    <3> QED BY <1>9, <2>1, <2>2, <3>1, <3>3
  <2>3. CASE ~Exists(c)
    <3>1. Finish(i, c)
      BY <1>11, <2>3 DEF RenewSystem, Finish
    <3> QED BY <1>0, <1>9, <2>1, <3>1, FinishKeys
  <2> QED BY <2>2, <2>3
<1>12. ASSUME NEW p \in Procs, NEW c \in Certs, StepFails(p, c) PROVE KeyInv'
  BY <1>9, <1>12, FinishKeys DEF StepFails
<1>13. ASSUME NEW i \in Instances, Crash(i) PROVE KeyInv'
  <2>1. task' = [task EXCEPT ![i] = [c \in Certs |-> NoTask]]
        /\ UNCHANGED <<row, kind, parent, rekeyed, phase>>
    BY <1>13 DEF Crash
  <2>2. \A q \in Procs, e \in Certs :
          task'[q][e] = task[q][e] \/ task'[q][e] = NoTask
    BY <2>1 DEF TypeOK
  <2>3. NoTask.row.key = None /\ NoTask.stage = "none"
    BY NoKeys
  <2> QED BY <1>9, <2>1, <2>2, <2>3
<1>14. ASSUME NEW c \in Certs, Age(c) PROVE KeyInv'
  <2>1. UNCHANGED <<row, kind, parent, rekeyed, task>>
        /\ \A e \in Certs : phase'[e] = "unborn" => phase[e] = "unborn"
    BY <1>14 DEF Age, TypeOK
  <2> QED BY <1>9, <2>1
<1>15. CASE UNCHANGED vars
  BY <1>9, <1>15 DEF vars
<1>16. ASSUME NEW a \in Callers, NEW c \in Certs, CallerStep(a, c) PROVE KeyInv'
  BY <1>1, <1>3, <1>4, <1>6, <1>8, <1>16, <1>20, <1>21 DEF CallerStep
<1>17. ASSUME NEW p \in Procs, NEW c \in Certs, RenewStep(p, c) PROVE KeyInv'
  BY <1>2, <1>7, <1>17 DEF RenewStep
<1>18. ASSUME NEW i \in Instances, InstanceStep(i) PROVE KeyInv'
  BY <1>0, <1>10, <1>11, <1>17, <1>18 DEF InstanceStep
<1> QED
  BY <1>0, <1>12, <1>13, <1>14, <1>15, <1>16, <1>17, <1>18 DEF Next

\* However stale the snapshots that UpdateCertificate, imports and renewals
\* write back, a generic certificate and a renewal that could open its key hold
\* the same key whenever both hold one, and an SVID and its renewal never do
\* (renewACME, renewCert).
THEOREM RenewalKeyCorrect == Spec => []RenewalKey
<1>1. Init => TypeOK /\ LifecycleInv /\ KeyInv
  BY TypeInit, LifecycleInit, KeyInit
<1>2. TypeOK /\ LifecycleInv /\ KeyInv /\ [Next]_vars
        => TypeOK' /\ LifecycleInv' /\ KeyInv'
  BY TypeStep, LifecycleStep, KeyStep
<1>3. KeyInv => RenewalKey
  BY DEF KeyInv
<1> QED
  BY <1>1, <1>2, <1>3, PTL DEF Spec

===============================================================================
