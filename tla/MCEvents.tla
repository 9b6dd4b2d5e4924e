------------------------------ MODULE MCEvents ------------------------------
(***************************************************************************)
(* The background parts of an instance and of its workloads, for TLC: the   *)
(* stream hub with two subscriptions of different users, a second hub with  *)
(* five subscriptions at its limits, the audit writer, webhook delivery,    *)
(* the expiry digest and a workload's identity.  They share no variable, so *)
(* instead of their product one of them moves in each behaviour.            *)
(***************************************************************************)
EXTENDS StreamHub, AuditWriter, Delivery, Workload, TLC

CONSTANTS s1, s2, s3, s4, s5, u1, u2, f1, c1, c2

VARIABLES
    part,
    tail2, first2, cut2, to2, hub2, tenant2, conns2, byUser2, sub2, loop2, lost2

MCUserOf == (s1 :> u1) @@ (s2 :> u2)

\* three calls of one user and two of another
LimitUserOf == (s1 :> u1) @@ (s2 :> u2) @@ (s3 :> u1) @@ (s4 :> u2) @@ (s5 :> u1)

Limits == INSTANCE StreamHub WITH
    Subs <- DOMAIN LimitUserOf, UserOf <- LimitUserOf,
    tail <- tail2, first <- first2, cut <- cut2, to <- to2, hub <- hub2,
    tenant <- tenant2, conns <- conns2, byUser <- byUser2, sub <- sub2,
    loop <- loop2, lost <- lost2

\* endpoints 1 and 3 have the same name
MCNameOf == (1 :> 1) @@ (2 :> 2) @@ (3 :> 1)

\* two spellings of one mailbox
MCFold == ("a" :> "a") @@ ("A" :> "a") @@ ("b" :> "b")
MCPayloads == {<<>>, <<"a", "A", "b">>, <<"a", "b">>, <<"a", "b", "a", "b">>}

vars2 == <<tail2, first2, cut2, to2, hub2, tenant2, conns2, byUser2, sub2, loop2, lost2>>
allVars == <<part, vars, vars2, auditVars, deliveryVars, workloadVars>>

MCInit ==
    /\ part \in {"hub", "limits", "audit", "hooks", "digest", "workload"}
    /\ Init /\ Limits!Init /\ AuditInit /\ DeliveryInit /\ WorkloadInit
    /\ part # "workload" => kind = "self"

Only(name) == part = name /\ part' = name

\* the calls of a user are named in the order they are made
NextCall(u) == CHOOSE s \in DOMAIN LimitUserOf : LimitUserOf[s] = u /\ sub2[s].st = "free"

\* connections come and go at a hub that stays up and has no events
LimitNext ==
    \/ \E u \in Users : /\ \E s \in DOMAIN LimitUserOf : LimitUserOf[s] = u /\ sub2[s].st = "free"
                        /\ Limits!Subscribe(NextCall(u), None)
    \/ \E s \in DOMAIN LimitUserOf :
         Limits!Leave(s) \/ Limits!CloseChannel(s) \/ Limits!EndLoop(s)

HubPart == Only("hub") /\ Next /\ UNCHANGED <<vars2, auditVars, deliveryVars, workloadVars>>
LimitPart ==
    Only("limits") /\ LimitNext /\ UNCHANGED <<vars, auditVars, deliveryVars, workloadVars>>
AuditPart == Only("audit") /\ AuditNext /\ UNCHANGED <<vars, vars2, deliveryVars, workloadVars>>
HookPart == Only("hooks") /\ HookNext /\ UNCHANGED <<vars, vars2, auditVars, workloadVars>>
DigestPart == Only("digest") /\ DigestNext /\ UNCHANGED <<vars, vars2, auditVars, workloadVars>>
WorkloadPart == Only("workload") /\ WorkloadNext /\ UNCHANGED <<vars, vars2, auditVars, deliveryVars>>

MCNext == HubPart \/ LimitPart \/ AuditPart \/ HookPart \/ DigestPart \/ WorkloadPart

MCSpec == MCInit /\ [][MCNext]_allVars /\ Fairness

-----------------------------------------------------------------------------
\* TypeOK of both hubs: among others, Subscribe keeps every user's count within
\* StreamsPerUser.
HubTypes == TypeOK /\ Limits!TypeOK

\* CountsMatch of both hubs: the limits hold, and the counts they are compared
\* with are right, with events, stalled readers and Hub.Close, and for users
\* with several connections that are opened and closed at the limits.
HubCounts == CountsMatch /\ Limits!CountsMatch

=============================================================================
