----------------------------- MODULE AcmeOrders -----------------------------
(***************************************************************************)
(* Asynchronous ACME issuance (internal/issue acme.go, acmerequests.go and  *)
(* importcert.go, internal/acme, internal/httpapi certificates.go): an      *)
(* accepted order is a certificate request in state processing and a        *)
(* goroutine that prepares a client, runs the DNS-01 order, removes its TXT *)
(* records, stores the certificate and ends the request.  An imported       *)
(* certificate that is already due starts the same flow as a renewal.       *)
(*                                                                          *)
(* The ACME server and the DNS service are external: each of their calls    *)
(* may succeed, fail, or take effect and be reported as failed.             *)
(***************************************************************************)
EXTENDS Naturals, Sequences, FiniteSets

CONSTANTS
    Orders,       \* orders POST /certificates/acme may accept
    Foreign,      \* certificates issued outside lcm that may be imported
    ProviderOf,   \* DNS provider of the issuer behind a run, Nil without an
                  \* ACME issuer that the caller may use
    Inputs,       \* domain lists a caller may send: sequences of names
    Leaves,       \* leaf certificates an import may carry
    Lower,        \* strings.ToLower on the labels that occur
    Zones,        \* names of the DNS zones the Cloudflare token may read
    MaxDomains,   \* acme.MaxDomains
    MaxChain,     \* maxImportChain
    MaxFaults,    \* bound: failed calls, timeouts and stops of the process
    MaxStarted,   \* bound: goroutines started in a behaviour
    Nil

ASSUME BoundsAssumption == {MaxDomains, MaxChain, MaxFaults, MaxStarted} \subseteq Nat

Runs == Orders \cup Foreign    \* whatever a goroutine works on

VARIABLES
    req,      \* certificate_requests: status and certificate_id of each order
    ord,      \* the goroutine of each run, see Order
    txt,      \* TXT records in DNS: [fqdn, value]
    leafs,    \* issued_certificates: [serial, request]
    told,     \* the outcome published for a run
    faults

acmeVars == <<req, ord, txt, leafs, told, faults>>

-----------------------------------------------------------------------------
(* Domain names: a name is the sequence of its labels, a trailing dot is an *)
(* empty last label and a wildcard a first label "*".                       *)

\* lower case, one trailing dot dropped
Normalise(d) ==
    LET low == [i \in DOMAIN d |-> Lower[d[i]]]
    IN  IF Len(low) > 1 /\ low[Len(low)] = "" THEN SubSeq(low, 1, Len(low) - 1) ELSE low

\* "-" stands for every label with a hyphen at an end, a foreign character or
\* more than 63 characters
labelProblem(l) == l \in {"", "*", "-"}

Base(d) == IF Len(d) > 1 /\ d[1] = "*" THEN Tail(d) ELSE d

domainProblem(d) ==
    \/ Len(Base(d)) < 2
    \/ \E i \in DOMAIN Base(d) : labelProblem(Base(d)[i])

NamesOf(in) == {Normalise(in[i]) : i \in DOMAIN in} \ {<<>>, <<"">>}

validateACMEDomains(in) ==
    LET names == NamesOf(in)
    IN  /\ Cardinality(names) \in 1..MaxDomains
        /\ \A d \in names : ~domainProblem(d)
        /\ \A d \in names : d[1] # "*" => <<"*">> \o Tail(d) \notin names

\* The names an import is renewed for: the DNS SANs, or the CN without any.
importDomains(leaf) == IF leaf.dns # <<>> THEN leaf.dns ELSE leaf.cn

parseImportCerts(leaf) == ~leaf.ca /\ Cardinality(leaf.chain) <= MaxChain

\* an unencrypted RSA (2048 bits or more) or P-256/P-384 key of this leaf
parseImportKey(leaf) == leaf.key = "matching"

-----------------------------------------------------------------------------
(* DNS providers *)

\* the name and its parents but for the top-level domain, longest first
zoneCandidates(d) == [i \in 1..(Len(d) - 1) |-> SubSeq(d, i, Len(d))]

\* the first candidate that is a zone, none when the token sees no such zone
ZoneOf(d) ==
    LET c == zoneCandidates(d)
        hits == {i \in DOMAIN c : c[i] \in Zones}
    IN  IF hits = {} THEN Nil ELSE c[CHOOSE i \in hits : \A j \in hits : i <= j]

supported == {"cloudflare", "manual", "freya-dns"}

\* acmeClientFor: the sealed settings open, the account key parses and the
\* issuer's provider has an adapter.
acmeClientFor(r) == ProviderOf[r] \in supported

\* The issuer exists, is an ACME issuer and the caller may use it.
PrecheckACME(r) == ProviderOf[r] # Nil

\* The record that answers the challenge of a name in a run: the token, and
\* with it the value, is the ACME server's own for every authorization.
Record(r, d) == [fqdn |-> Base(d), value |-> <<r, d>>]

\* What Present adds to DNS; the manual provider leaves that to the operator.
Presented(r, d) == IF ProviderOf[r] = "manual" THEN {} ELSE {Record(r, d)}

Removed_ByName(r, d) == {t \in txt : t.fqdn = Base(d)}

\* CleanUp removes the one value at the name that this run published.
Removed(r, d) == {Record(r, d)}

-----------------------------------------------------------------------------
(* State *)

Names == {Normalise(d) : d \in UNION {{in[i] : i \in DOMAIN in} : in \in Inputs}}
         \cup UNION {NamesOf(importDomains(l)) : l \in Leaves}

PCs == {"none", "prepare", "authorize", "authz", "accept", "finalize", "cleanup",
        "insert", "link", "reread", "finish", "publish", "done", "gone"}

Order == [pc : PCs,
          names : SUBSET Names,
          todo : SUBSET Names,       \* authorizations not looked at yet
          recs : Seq(Names),         \* records to clean up
          err : BOOLEAN,
          timed : BOOLEAN,           \* the context's deadline has passed
          leak : BOOLEAN,            \* a DNS call took effect, or not, against its report
          unsaved : BOOLEAN]         \* FinishACME's write failed

NoOrder == [pc |-> "none", names |-> {}, todo |-> {}, recs |-> <<>>, err |-> FALSE,
            timed |-> FALSE, leak |-> FALSE, unsaved |-> FALSE]

Statuses == {"absent", "processing", "issued", "failed"}

AcmeTypeOK ==
    /\ req \in [Orders -> [status : Statuses, certificate : Orders \cup {Nil}]]
    /\ ord \in [Runs -> Order]
    /\ txt \subseteq [fqdn : {Base(d) : d \in Names}, value : Runs \X Names]
    /\ leafs \subseteq [serial : Runs \X {"leaf", "renewal"}, request : Orders \cup {Nil}]
    /\ told \in [Runs -> {"nothing", "issued", "renewed", "failed"}]
    /\ faults \in 0..MaxFaults

AcmeInit ==
    /\ req = [r \in Orders |-> [status |-> "absent", certificate |-> Nil]]
    /\ ord = [r \in Runs |-> NoOrder]
    /\ txt = {}
    /\ leafs = {}
    /\ told = [r \in Runs |-> "nothing"]
    /\ faults = 0

\* The certificate the CA signs for a run, and the row that keeps it.
Serial(r) == <<r, IF r \in Orders THEN "leaf" ELSE "renewal">>

CertRow(r) == [serial |-> Serial(r), request |-> IF r \in Orders THEN r ELSE Nil]

Stored(serial) == \E c \in leafs : c.serial = serial

-----------------------------------------------------------------------------
(* API calls *)

MayStart == Cardinality({r \in Runs : ord[r].pc # "none"}) < MaxStarted

\* POST /certificates/acme: PrecheckACME and the domains are checked before
\* the request is recorded and the goroutine started.  A refusal changes
\* nothing.
BeginACME(r, in) ==
    /\ MayStart /\ PrecheckACME(r) /\ req[r].status = "absent"
    /\ validateACMEDomains(in)
    /\ req' = [req EXCEPT ![r].status = "processing"]
    /\ ord' = [ord EXCEPT ![r] = [NoOrder EXCEPT !.pc = "prepare", !.names = NamesOf(in)]]
    /\ UNCHANGED <<txt, leafs, told, faults>>

\* The goroutine that renews an import already due; the scheduler never picks
\* up an expired certificate.
RenewNow(leaf) ==
    IF leaf.due THEN [NoOrder EXCEPT !.pc = "prepare", !.names = NamesOf(importDomains(leaf))]
    ELSE NoOrder

\* POST /certificates/import: the row is inserted, a serial known already is
\* refused, and a certificate due or expired starts its renewal at once.
ImportACME(f, leaf) ==
    /\ MayStart /\ PrecheckACME(f) /\ ~Stored(<<f, "leaf">>)
    /\ parseImportCerts(leaf) /\ ~leaf.other
    /\ validateACMEDomains(importDomains(leaf))
    /\ parseImportKey(leaf)
    /\ leafs' = leafs \cup {[serial |-> <<f, "leaf">>, request |-> Nil]}
    /\ ord' = [ord EXCEPT ![f] = RenewNow(leaf)]
    /\ UNCHANGED <<req, txt, told, faults>>

-----------------------------------------------------------------------------
(* The goroutine.  A step that needs its context succeeds only before the   *)
(* deadline; every such step may also fail.                                 *)

Unwound_NoDefer(o) ==
    [o EXCEPT !.pc = IF o.err THEN "finish"
                     ELSE IF o.recs # <<>> THEN "cleanup" ELSE "insert"]

\* obtainACME and Obtain return through the deferred clean-up of the records
\* published so far; without an error the certificate is stored next.
Unwound(o) ==
    [o EXCEPT !.pc = IF o.recs # <<>> THEN "cleanup"
                     ELSE IF o.err THEN "finish" ELSE "insert"]

Failed(o) == Unwound([o EXCEPT !.err = TRUE])

\* The parts of a step that only moves the goroutine.
Moves(r, o) ==
    /\ ord' = [ord EXCEPT ![r] = o]
    /\ UNCHANGED <<req, txt, leafs, told, faults>>

InTime(r, pc) == ord[r].pc = pc /\ ~ord[r].timed

\* A call that fails because of the deadline, or for a provider without an
\* adapter, is no fault of its own.
Fails(r) ==
    IF ord[r].timed \/ ~acmeClientFor(r) THEN UNCHANGED faults
    ELSE faults < MaxFaults /\ faults' = faults + 1

\* Best-effort calls on a context of their own.
Succeeds(ok) ==
    IF ok THEN UNCHANGED faults ELSE faults < MaxFaults /\ faults' = faults + 1

HasZone(r, d) == ProviderOf[r] = "cloudflare" => ZoneOf(Base(d)) # Nil

\* Issuer, permission, sealed settings, account key and DNS provider are read
\* again, the account is registered and the key and CSR made.
Prepare(r) ==
    /\ InTime(r, "prepare") /\ acmeClientFor(r)
    /\ Moves(r, [ord[r] EXCEPT !.pc = "authorize"])

\* AuthorizeOrder answers with one authorization for every name.
AuthorizeOrder(r) ==
    /\ InTime(r, "authorize")
    /\ Moves(r, [ord[r] EXCEPT !.pc = "authz", !.todo = ord[r].names])

\* An authorization that is valid already needs no challenge.
SkipValid(r, d) ==
    /\ InTime(r, "authz") /\ d \in ord[r].todo
    /\ Moves(r, [ord[r] EXCEPT !.todo = @ \ {d}])

\* Present publishes the value; Obtain then remembers it for the clean-up.
Present(r, d) ==
    /\ InTime(r, "authz") /\ d \in ord[r].todo
    /\ HasZone(r, d)
    /\ txt' = txt \cup Presented(r, d)
    /\ ord' = [ord EXCEPT ![r].pc = "accept", ![r].todo = @ \ {d},
                          ![r].recs = Append(@, d)]
    /\ UNCHANGED <<req, leafs, told, faults>>

\* The record is created but Present reports an error, so it is not recorded.
PresentLost(r, d) ==
    /\ InTime(r, "authz") /\ d \in ord[r].todo
    /\ HasZone(r, d)
    /\ txt' = txt \cup Presented(r, d)
    /\ ord' = [ord EXCEPT ![r] = Failed([ord[r] EXCEPT !.leak = TRUE])]
    /\ Succeeds(FALSE)
    /\ UNCHANGED <<req, leafs, told>>

\* Present without a zone of the token for the name.
NoZone(r, d) ==
    /\ InTime(r, "authz") /\ d \in ord[r].todo
    /\ ~HasZone(r, d)
    /\ Moves(r, Failed(ord[r]))

\* Accept and WaitAuthorization: the CA must find the value it asked for.
Authorized(r) ==
    /\ InTime(r, "accept")
    /\ Presented(r, ord[r].recs[Len(ord[r].recs)]) \subseteq txt
    /\ Moves(r, [ord[r] EXCEPT !.pc = "authz"])

\* WaitOrder once no authorization is left, then the certificate, inline or
\* fetched from the order's URL.
WaitOrder(r) ==
    /\ InTime(r, "authz") /\ ord[r].todo = {}
    /\ Moves(r, [ord[r] EXCEPT !.pc = "finalize"])

CreateOrderCert(r) ==
    /\ InTime(r, "finalize")
    /\ Moves(r, Unwound(ord[r]))

\* Any call of obtainACME, Register or Obtain reports an error.
OrderFails(r) ==
    /\ ord[r].pc \in {"prepare", "authorize", "authz", "accept", "finalize"}
    /\ ord' = [ord EXCEPT ![r] = Failed(@)]
    /\ Fails(r)
    /\ UNCHANGED <<req, txt, leafs, told>>

\* The deferred CleanUp of one record, on a context of its own; its failure
\* is ignored.
CleanUp(r, ok) ==
    /\ ord[r].pc = "cleanup"
    /\ LET d == Head(ord[r].recs) IN
       txt' = IF ok THEN txt \ Removed(r, d) ELSE txt
    /\ ord' = [ord EXCEPT ![r] = Unwound([@ EXCEPT !.recs = Tail(@), !.leak = @ \/ ~ok])]
    /\ Succeeds(ok)
    /\ UNCHANGED <<req, leafs, told>>

\* One transaction inserts the certificate, its log line and the owner grant.
StoreCertificate(r) ==
    /\ InTime(r, "insert")
    /\ ~Stored(Serial(r))
    /\ leafs' = leafs \cup {CertRow(r)}
    /\ ord' = [ord EXCEPT ![r].pc = IF r \in Orders THEN "reread" ELSE "link"]
    /\ UNCHANGED <<req, txt, told, faults>>

\* renewACME links the old row to the new one before it is read back.
LinkRenewal(r) ==
    /\ InTime(r, "link")
    /\ Moves(r, [ord[r] EXCEPT !.pc = "reread"])

Reread(r) ==
    /\ InTime(r, "reread")
    /\ Moves(r, [ord[r] EXCEPT !.pc = "finish"])

\* A step on the way out of obtainACME or renewACME reports an error: the
\* chain does not parse, the transaction fails, or the row cannot be linked
\* or read back after it was committed.
StoreFails(r) ==
    /\ ord[r].pc \in {"insert", "link", "reread"}
    /\ ord' = [ord EXCEPT ![r].pc = "finish", ![r].err = TRUE]
    /\ Fails(r)
    /\ UNCHANGED <<req, txt, leafs, told>>

FinishACME_OrderContext(r, ok) ==
    /\ ord[r].pc = "finish" /\ ~ord[r].timed
    /\ req' = IF r \in Orders /\ ok
              THEN [req EXCEPT ![r].status = IF ord[r].err THEN "failed" ELSE "issued"]
              ELSE req
    /\ ord' = [ord EXCEPT ![r].pc = "publish", ![r].unsaved = ~ok]
    /\ Succeeds(ok)
    /\ UNCHANGED <<txt, leafs, told>>

FinishACME_IgnoresError(r, ok) ==
    /\ ord[r].pc = "finish"
    /\ req' = IF r \in Orders /\ ok
              THEN [req EXCEPT ![r] = [status |-> "issued", certificate |-> r]]
              ELSE req
    /\ ord' = [ord EXCEPT ![r].pc = "publish", ![r].unsaved = ~ok]
    /\ Succeeds(ok)
    /\ UNCHANGED <<txt, leafs, told>>

\* FinishACME ends the request on a fresh context; a renewal has none.  When
\* the write fails the request keeps its status.
FinishACME(r, ok) ==
    /\ ord[r].pc = "finish"
    /\ r \in Foreign => ok
    /\ req' = IF r \in Orders /\ ok
              THEN [req EXCEPT ![r] =
                     IF ord[r].err THEN [status |-> "failed", certificate |-> Nil]
                                   ELSE [status |-> "issued", certificate |-> r]]
              ELSE req
    /\ ord' = [ord EXCEPT ![r].pc = "publish", ![r].unsaved = ~ok]
    /\ Succeeds(ok)
    /\ UNCHANGED <<txt, leafs, told>>

\* The outcome goes to the tenant's live streams.
Publish(r) ==
    /\ ord[r].pc = "publish"
    /\ told' = [told EXCEPT ![r] = IF ord[r].err THEN "failed"
                                   ELSE IF r \in Orders THEN "issued" ELSE "renewed"]
    /\ ord' = [ord EXCEPT ![r].pc = "done"]
    /\ UNCHANGED <<req, txt, leafs, faults>>

\* The six minutes of the goroutine's context, or Obtain's own limit, pass.
Timeout(r) ==
    /\ ord[r].pc \notin {"none", "finish", "publish", "done", "gone"}
    /\ ~ord[r].timed
    /\ ord' = [ord EXCEPT ![r].timed = TRUE]
    /\ faults < MaxFaults /\ faults' = faults + 1
    /\ UNCHANGED <<req, txt, leafs, told>>

\* The process stops: its goroutines are gone, the rows and records stay.
Crash ==
    /\ faults < MaxFaults
    /\ \E r \in Runs : ord[r].pc \notin {"none", "done", "gone"}
    /\ ord' = [r \in Runs |-> IF ord[r].pc \in {"none", "done"} THEN ord[r]
                              ELSE [ord[r] EXCEPT !.pc = "gone"]]
    /\ faults' = faults + 1
    /\ UNCHANGED <<req, txt, leafs, told>>

GoStep(r) ==
    \/ Prepare(r) \/ AuthorizeOrder(r)
    \/ \E d \in ord[r].todo : SkipValid(r, d) \/ Present(r, d) \/ PresentLost(r, d)
                            \/ NoZone(r, d)
    \/ Authorized(r) \/ WaitOrder(r) \/ CreateOrderCert(r) \/ OrderFails(r)
    \/ \E ok \in BOOLEAN : CleanUp(r, ok) \/ FinishACME(r, ok)
    \/ StoreCertificate(r) \/ LinkRenewal(r) \/ Reread(r) \/ StoreFails(r)
    \/ Publish(r)

AcmeNext ==
    \/ \E r \in Orders, in \in Inputs : BeginACME(r, in)
    \/ \E f \in Foreign, leaf \in Leaves : ImportACME(f, leaf)
    \/ \E r \in Runs : GoStep(r) \/ Timeout(r)
    \/ Crash

AcmeSpec == AcmeInit /\ [][AcmeNext]_acmeVars

\* Every call of a goroutine is bounded by a context, so it keeps moving.
Fairness == \A r \in Runs : WF_acmeVars(GoStep(r))

FairAcmeSpec == AcmeSpec /\ Fairness

-----------------------------------------------------------------------------
(* Properties *)

\* "Every published record is cleaned up (deferred) whether or not issuance
\* succeeds" (Obtain): once an order has left the clean-up behind, none of its
\* TXT records is in DNS, unless a call to the provider failed.
RecordsCleaned ==
    \A t \in txt :
        LET o == ord[t.value[1]]
        IN  \/ o.leak
            \/ o.pc = "gone"
            \/ /\ o.pc \in {"authz", "accept", "finalize", "cleanup"}
               /\ \E i \in DOMAIN o.recs : Record(t.value[1], o.recs[i]) = t

\* While an order waits for the CA to look at its challenge, the record it
\* published is in DNS, whatever records other orders for the same name, or
\* for the wildcard beside it, publish and remove.
ChallengeVisible ==
    \A r \in Runs :
        ord[r].pc = "accept" => Presented(r, ord[r].recs[Len(ord[r].recs)]) \subseteq txt

\* A request is issued only with a stored certificate that carries it, and
\* what is published is what the request says: no order is announced as
\* issued and recorded as failed, or the other way round.
OutcomeTrue ==
    \A r \in Orders :
        /\ req[r].status = "issued" => CertRow(r) \in leafs /\ told[r] # "failed"
        /\ req[r].status = "failed" => told[r] # "issued"
        /\ told[r] = "issued" => CertRow(r) \in leafs

\* "The request is ended on a fresh context so a timed-out order is still
\* recorded as failed" (RegisterCertificates): every accepted order ends
\* issued or failed, unless the process stops or the write itself fails.
RequestEnds ==
    \A r \in Orders :
        req[r].status = "processing" ~>
            req[r].status \in {"issued", "failed"} \/ ord[r].pc = "gone" \/ ord[r].unsaved

\* "`processing` while it runs" (docs/README.md): a request in state processing
\* has a goroutine that works on it.
ProcessingWhileItRuns ==
    \A r \in Orders :
        req[r].status = "processing" => ord[r].pc \notin {"none", "done", "gone"}
=============================================================================
