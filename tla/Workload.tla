------------------------------ MODULE Workload ------------------------------
(***************************************************************************)
(* One workload that keeps an SVID fresh, and the enrollment service it     *)
(* gets it from.  The kinds are the NetProvider ("net") and the Provider    *)
(* ("conn") of sdk/pkg/lcmidentity, lcm's own provider ("self",             *)
(* internal/selfidentity) and the agent loop of sdk/pkg/lcmclient           *)
(* ("agent").  Keys, chains and the watch channel are left out.             *)
(*                                                                          *)
(* Time is the number of ticks an SVID has left.  A tick is long against    *)
(* the 2 to 5 seconds between two attempts, so it does not pass while a     *)
(* call is in flight or a due renewal has not been tried in it.             *)
(***************************************************************************)
EXTENDS Integers, Sequences, FiniteSets, SequencesExt

CONSTANTS
    Kinds,
    Life,          \* ticks an SVID is issued for
    RenewBefore,   \* Config.RenewBefore, 0 when not set
    Hour,          \* ticks of RunAgent's default window
    MaxOut,        \* ticks an outage of lcm lasts at most
    MaxAttempts,   \* attempts of NewNet
    MaxRotations,  \* bound: CA rotations while the workload runs
    Tokened,       \* whether Provider and agent are given an enrollment token
    AutoApprove,   \* enroll.Config.AutoApprove
    Granted,       \* whether the token's grant names the workload's SPIFFE id
    NoSVID

ASSUME WorkloadAssumption ==
    /\ {Life, RenewBefore, Hour, MaxOut, MaxAttempts, MaxRotations} \subseteq Nat
    /\ {Tokened, AutoApprove, Granted} \subseteq BOOLEAN

VARIABLES
    kind,
    pc,        \* "off", "enroll", "watch", "mint", "save"
    attempt,   \* attempts of the first enrollment that failed
    svid,      \* the state in memory: [left, roots, late]
    file,      \* the NetProvider's StateFile
    ver,       \* version of the trust bundle it reports; of the other kinds than
               \* "self", which raise it with every renewal, modulo 4
    told,      \* history: the root sets lcm's own provider has reported since
               \* its start, by version
    poked,     \* an update of the watch stream waits in the poke channel
    tried,     \* a renewal was tried in this tick
    token,     \* "fresh" or "used", kept by the auth service
    roots,     \* lcm's bundle, newest root first
    out        \* ticks lcm has been unreachable, 0 when it answers

workloadVars == <<kind, pc, attempt, svid, file, ver, told, poked, tried, token, roots, out>>
lcmVars == <<token, roots, out>>

Running == pc \in {"watch", "mint", "save"}

WorkloadInit ==
    /\ kind \in Kinds
    /\ pc = "off" /\ attempt = 0 /\ ver = 0
    /\ svid = NoSVID /\ file = NoSVID
    /\ poked = FALSE /\ tried = FALSE
    /\ token = "fresh" /\ roots = <<1>> /\ out = 0 /\ told = <<>>

-----------------------------------------------------------------------------
(* Enrollment as lcm answers it: whether the call burns the token and       *)
(* whether the workload receives a bundle.                                  *)

Answer(burn, ok) == [burn |-> burn, ok |-> ok]

\* VerifyEnrollment refuses a used token and may be unavailable without a
\* verdict; once it has burnt the token the issuance may still be refused, end
\* as a pending request, or its answer be lost
TokenAnswers ==
    IF token = "used" THEN {Answer(FALSE, FALSE)}
    ELSE {Answer(FALSE, FALSE), Answer(TRUE, FALSE), Answer(TRUE, Granted /\ AutoApprove)}

\* without a token the peer's own certificate is the identity
IdentityAnswers(alive) == {Answer(FALSE, alive /\ AutoApprove)}

Enroll(withToken, alive) ==
    IF out > 0 THEN {Answer(FALSE, FALSE)}
    ELSE IF withToken THEN TokenAnswers ELSE IdentityAnswers(alive)

\* POST /enroll refuses a call without a token and answers 202, which no client
\* takes for a bundle, when the request is pending
postEnroll == Enroll(TRUE, FALSE)

\* Enrollment.Enroll on the gRPC port, with the certificate of the connection
grpcEnroll(withToken, alive) == Enroll(withToken, alive)

\* SVID.Renew looks the certificate up by its id
grpcRenew(certID) == {Answer(FALSE, out = 0 /\ certID = "certificate id")}

-----------------------------------------------------------------------------
(* How each kind asks for an SVID.                                          *)

enrollHTTP == postEnroll

\* over a connection that presents the SVID it holds
renewMTLS == grpcEnroll(FALSE, svid.left > 0)

\* firstDone
mintNet == IF svid = NoSVID THEN enrollHTTP ELSE renewMTLS

\* the Provider sends its token with every call, on a connection of its own
enrollConn == grpcEnroll(Tokened, TRUE)

\* lcm signs for itself
mintSelf == {Answer(FALSE, out = 0)}

bundleFrom == [certID |-> "serial number"]

\* the agent renews what its bundle calls the serial number
renewAgent == grpcRenew(bundleFrom.certID)

FirstEnroll ==
    CASE kind = "net" -> mintNet [] kind = "self" -> mintSelf [] OTHER -> enrollConn

Renewal ==
    CASE kind = "net"  -> mintNet [] kind = "self" -> mintSelf
      [] kind = "conn" -> enrollConn [] kind = "agent" -> renewAgent

-----------------------------------------------------------------------------
\* CAsForDomain orders by created_at only: equal times come in either order
Bundle == {roots, Reverse(roots)}

Minted(rs) == [left |-> Life, roots |-> rs, late |-> FALSE]

\* the provider has published rs under version v
Told(rs, v) ==
    told' = IF kind = "self" /\ v > Len(told) THEN Append(told, Range(rs)) ELSE told

renewBefore_AtExpiry == 0

renewBefore == IF RenewBefore = 0 THEN Life \div 3 ELSE RenewBefore

\* the agent's default is an hour, whatever the lifetime
untilRenew == IF RenewBefore = 0 THEN Hour ELSE RenewBefore

Window == IF kind = "agent" THEN untilRenew ELSE renewBefore

Due == svid # NoSVID /\ svid.left <= Window

\* a file with less than a minute left is not used
loadPersisted == IF kind = "net" /\ file # NoSVID /\ file.left > 0 THEN file ELSE NoSVID

\* a process starts: New, NewNet or RunAgent
Start ==
    /\ pc = "off"
    /\ attempt' = 0
    /\ IF loadPersisted # NoSVID
       THEN /\ svid' = [loadPersisted EXCEPT !.late = loadPersisted.left <= Window]
            /\ ver' = 1 /\ pc' = "watch"
       ELSE pc' = "enroll" /\ svid' = NoSVID /\ ver' = 0
    /\ tried' = FALSE /\ poked' = FALSE
    /\ UNCHANGED <<kind, file, told, lcmVars>>

Burnt(a) == IF a.burn THEN "used" ELSE token

EnrollFirst ==
    /\ pc = "enroll"
    /\ \E a \in FirstEnroll, rs \in Bundle :
          /\ token' = Burnt(a)
          /\ IF a.ok
             THEN /\ svid' = Minted(rs) /\ ver' = 1 /\ attempt' = 0
                  /\ Told(rs, 1)
                  /\ pc' = IF kind = "net" THEN "save" ELSE "watch"
             ELSE /\ attempt' = attempt + 1
                  /\ pc' = IF kind = "net" /\ attempt' < MaxAttempts THEN "enroll" ELSE "off"
                  /\ UNCHANGED <<svid, ver, told>>
    /\ UNCHANGED <<kind, file, poked, tried, roots, out>>

\* the timer of run, or a poke of the update stream
Wake ==
    /\ pc = "watch"
    /\ (Due /\ ~tried) \/ poked
    /\ pc' = "mint" /\ poked' = FALSE
    /\ UNCHANGED <<kind, attempt, svid, file, ver, told, tried, lcmVars>>

Occurrences(rs, r) == Cardinality({i \in DOMAIN rs : rs[i] = r})

sameRoots_ByCount(a, b) == Len(a) = Len(b)

\* equally long, and no root occurs more often in b than in a
sameRoots(a, b) ==
    Len(a) = Len(b) /\ \A r \in Range(b) : Occurrences(b, r) <= Occurrences(a, r)

\* lcm's own provider reports a leaf renewal under the same bundle version
NextVersion(rs) ==
    IF kind # "self" THEN (ver + 1) % 4
    ELSE IF sameRoots(svid.roots, rs) THEN ver ELSE ver + 1

Renew ==
    /\ pc = "mint"
    /\ \E a \in Renewal, rs \in Bundle :
          /\ token' = Burnt(a)
          /\ IF a.ok
             THEN /\ svid' = Minted(rs)
                  /\ ver' = NextVersion(rs)
                  /\ Told(rs, ver')
                  /\ pc' = IF kind = "net" THEN "save" ELSE "watch"
             ELSE pc' = "watch" /\ UNCHANGED <<svid, ver, told>>
    /\ tried' = TRUE
    /\ UNCHANGED <<kind, attempt, file, poked, roots, out>>

\* best effort: the temporary file is renamed over the old one, or nothing is
persist ==
    /\ pc = "save"
    /\ pc' = "watch"
    /\ file' \in {svid, file}
    /\ UNCHANGED <<kind, attempt, svid, ver, told, poked, tried, lcmVars>>

\* an update for the workload: only the Provider's handler takes it, the agent
\* compares its type "certificate.renewed" with "renewed"
Poke ==
    /\ kind = "conn" /\ pc \in {"watch", "mint"} /\ ~poked /\ out = 0
    /\ poked' = TRUE
    /\ UNCHANGED <<kind, pc, attempt, svid, file, ver, told, tried, lcmVars>>

\* Close, or the process stops at any point
Stop ==
    /\ pc # "off"
    /\ pc' = "off" /\ svid' = NoSVID /\ ver' = 0 /\ told' = <<>>
    /\ UNCHANGED <<kind, attempt, file, poked, tried, lcmVars>>

\* an operator rotates the root (docs/operations.md): a root joins the bundle
\* while the previous one still signs, and the oldest leaves it
RotateRoot ==
    /\ \/ roots[1] <= MaxRotations /\ roots' = <<roots[1] + 1>> \o roots
       \/ Len(roots) > 1 /\ roots' = Front(roots)
    /\ UNCHANGED <<kind, pc, attempt, svid, file, ver, told, poked, tried, token, out>>

\* an outage does not begin between a renewal falling due and its first attempt
Outage ==
    /\ out = 0 /\ MaxOut > 0 /\ ~(Running /\ Due)
    /\ out' = 1
    /\ UNCHANGED <<kind, pc, attempt, svid, file, ver, told, poked, tried, token, roots>>

Recover ==
    /\ out > 0 /\ out' = 0 /\ tried' = FALSE
    /\ UNCHANGED <<kind, pc, attempt, svid, file, ver, told, poked, token, roots>>

Aged(s) == IF s = NoSVID \/ s.left = 0 THEN s ELSE [s EXCEPT !.left = @ - 1]

Tick ==
    /\ pc \in {"off", "watch"} /\ (Running /\ Due => tried)
    /\ out <= MaxOut
    /\ svid # NoSVID \/ file # NoSVID
    /\ svid' = Aged(svid) /\ file' = Aged(file)
    /\ tried' = FALSE
    /\ out' = IF out > 0 THEN out + 1 ELSE 0
    /\ UNCHANGED <<kind, pc, attempt, ver, told, poked, token, roots>>

WorkloadNext ==
    \/ Start \/ EnrollFirst \/ Wake \/ Renew \/ persist \/ Poke \/ Stop
    \/ RotateRoot \/ Outage \/ Recover \/ Tick

WorkloadSpec == WorkloadInit /\ [][WorkloadNext]_workloadVars

-----------------------------------------------------------------------------
\* The identity a running workload serves does not expire as long as outages
\* are shorter than the renewal window, unless the process was started on a
\* file that was already inside it: run renews in time, retries what fails and
\* keeps an SVID that can authenticate the next renewal.
Unexpired == Running => svid.left > 0 \/ svid.late

ServedAlive == kind # "agent" => Unexpired

\* RunAgent "keeps the workload's certificate fresh until ctx is done".
AgentFresh == kind = "agent" => Unexpired

\* From its start to its stop lcm's own provider reports one root set under one
\* version and never moves to a new version with the set it had, in whatever
\* order the roots are read and however many of them came and went between two
\* renewals: a missed change keeps peers on the old roots, a needless one drains
\* the connection pools.
VersionNamesRoots ==
    kind = "self" =>
        /\ Running => ver \in DOMAIN told /\ Range(svid.roots) = told[ver]
        /\ \A v \in DOMAIN told : v > 1 => told[v] # told[v - 1]

=============================================================================
