------------------------------ MODULE MCIssuing ------------------------------
(***************************************************************************)
(* The two ways to a certificate, for TLC: the tenant's own authority with  *)
(* an administrator and a user, and asynchronous ACME orders.  They meet    *)
(* only in rows of different issuers, so instead of their product one of    *)
(* them moves in each behaviour.                                            *)
(***************************************************************************)
EXTENDS TenantBackup, AcmeOrders

CONSTANTS adm, usr, o1, o2, f1

VARIABLE part

-----------------------------------------------------------------------------
(* The tenant *)

MCAdmins == {adm}
MCUsers == {usr}
MCRolesOf == (adm :> {}) @@ (usr :> {"ops"})
MCDomains == {"d", "e"}

Input(name, type, domain, default, set) ==
    [name |-> name, type |-> type, domain |-> domain, default |-> default, set |-> set]

MCIssuerInputs ==
    {Input("a", "self_signed", "d", TRUE, <<>>),
     Input("b", "acme", "d", TRUE, [zone |-> "z", token |-> "marker"]),
     Input("b", "self_signed", "*", FALSE, [token |-> ""])}

\* to a role, for one tick
MCGrantInputs == {[subj |-> "ops", rel |-> "editor", exp |-> 2]}

MCSecretInputs ==
    {[name |-> "s", val |-> [k |-> "v1"]], [name |-> "s", val |-> [k |-> ""]]}

\* another tenant's default issuer, a certificate and a grant of it; an issuer
\* named like the tenant's own, of another trust domain
MCBackups ==
    {[issuers |-> <<[name |-> "c", type |-> "self_signed", domain |-> "d", default |-> TRUE,
                     set |-> <<>>, creds |-> [token |-> "t"]]>>,
      certs   |-> <<[serial |-> 100, issuer |-> "c", domain |-> "d", status |-> "active"]>>,
      perms   |-> {[type |-> "issuer", ref |-> "c", subj |-> usr, rel |-> "viewer", exp |-> None]},
      secrets |-> <<[name |-> "s", val |-> [k |-> "v2"]]>>],
     [issuers |-> <<[name |-> "a", type |-> "self_signed", domain |-> "e", default |-> TRUE,
                     set |-> <<>>, creds |-> <<>>]>>,
      certs   |-> <<>>, perms |-> {}, secrets |-> <<>>]}

\* an issuer, a user who may share it, three certificates, two of them imported
\* with a serial that is no number, and three revocations, two of one instant
\* and one of a certificate deleted since
MCBadSerials == {101, 103}

MCSeeds ==
    {[cas     |-> <<"d">>,
      issuers |-> <<IssuerRow(1, Input("a", "self_signed", "d", TRUE, <<>>), [token |-> "t0"], 1, "api")>>,
      certs   |-> [k \in 1..4 |-> IF k = 4 THEN None
                                  ELSE [issuer |-> 1, serial |-> <<101, 2, 103>>[k], domain |-> "d", ca |-> 1,
                                        status |-> IF k < 3 THEN "revoked" ELSE "active"]],
      grants  |-> UpsertGrant(GrantOwner(GrantOwner({}, IssuerRes(1), adm), CertRes(3), usr),
                              [res |-> IssuerRes(1), subj |-> usr, rel |-> "sharer", exp |-> None, src |-> Of("owner")]),
      revs    |-> {[cert |-> 1, serial |-> 101, at |-> 0]} \cup {[cert |-> k, serial |-> k, at |-> -1] : k \in {2, 4}}]}

-----------------------------------------------------------------------------
(* ACME: two orders that may share names, and one imported certificate *)

MCProviderOf == (o1 :> "cloudflare") @@ (o2 :> "freya-dns") @@ (f1 :> "manual")

MCLower == ("a" :> "a") @@ ("b" :> "b") @@ ("B" :> "b") @@ ("org" :> "org")
           @@ ("" :> "") @@ ("*" :> "*") @@ ("-" :> "-")

\* The apex with its wildcard, one name written in two ways, a name under a
\* wildcard, a wildcard in the middle or of a top-level domain, an empty list.
MCInputs == {<< <<"*", "a", "org">>, <<"a", "org">> >>,
             << <<"B", "org", "">>, <<"b", "org">> >>,
             << <<"b", "a", "org", "">>, <<"*", "a", "org">> >>,
             << <<"b", "*", "org">> >>, << <<"*", "org">> >>, << <<"", "">> >>, <<>>}

Leaf == [dns |-> << <<"a", "org">> >>, cn |-> <<>>, other |-> FALSE, ca |-> FALSE,
         chain |-> {}, key |-> "matching", due |-> TRUE]

MCLeaves == {Leaf, [Leaf EXCEPT !.due = FALSE],
             [Leaf EXCEPT !.dns = <<>>, !.cn = << <<"b", "org">> >>],
             [Leaf EXCEPT !.dns = <<>>], [Leaf EXCEPT !.other = TRUE], [Leaf EXCEPT !.ca = TRUE],
             [Leaf EXCEPT !.key = "weak"], [Leaf EXCEPT !.chain = {1, 2}]}

MCZones == {<<"a", "org">>}

-----------------------------------------------------------------------------
allVars == <<part, vars, acmeVars>>

MCInit ==
    /\ part \in {"tenant", "acme"}
    /\ Init /\ AcmeInit
    /\ part = "acme" => certs = <<>>

Only(name) == part = name /\ part' = name

TenantPart == Only("tenant") /\ Next /\ UNCHANGED acmeVars
AcmePart == Only("acme") /\ AcmeNext /\ UNCHANGED vars

MCNext == TenantPart \/ AcmePart

\* nothing keeps CRL from asking for its next page
MCSpec == MCInit /\ [][MCNext]_allVars /\ Fairness /\ WF_vars(\E c \in Callers : CRLPageRead(c))

\* The rows of both parts have the schema's shape, the references the foreign
\* keys declare resolve, and every goroutine is at a step of its own.
IssuingTypes == TypeOK /\ AcmeTypeOK

=============================================================================
