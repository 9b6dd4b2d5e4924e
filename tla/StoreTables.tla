---------------------------- MODULE StoreTables ----------------------------
(***************************************************************************)
(* The tables the two implementations of repo.Store keep: the SQL          *)
(* repositories (SqlStore) and the in-memory double of the unit tests      *)
(* (MemStore).  A table is a function from row ids to rows; a row keeps    *)
(* the columns that a condition, an index or an ORDER BY of the store      *)
(* reads.  One call of the store is one step; its answer is an error and,  *)
(* for a call that both writes and returns rows, the ids of those rows.    *)
(***************************************************************************)
EXTENDS Integers, Sequences, FiniteSets, Functions, TLC

CONSTANTS
    Tenants, Callers, \* tenant ids, and the tenants that make calls
    Domains,          \* trust domains
    Names,            \* names, records [rank, upper]
    Ids,              \* row ids, ordered as uuids are
    Null,             \* a NULL column, a nil pointer
    Seeds,            \* the databases a behaviour starts from
    Focuses,          \* the groups of calls behaviours are made of
    MaxCalls, MaxTime \* bounds on the calls and on the clock

ASSUME StoreAssumption ==
    /\ Callers \subseteq Tenants
    /\ Ids \subseteq Nat /\ IsFiniteSet(Ids) /\ Null \notin Ids
    /\ MaxCalls \in Nat /\ MaxTime \in Nat \ {0}

Now == 1..MaxTime
Limits == 0..2

\* A name without its case: what the unique indexes on lower(name) compare.
lower(name) == name.rank

Row(t, id, row) == [x \in DOMAIN t \cup {id} |-> IF x = id THEN row ELSE t[x]]
Without(t, gone) == Restrict(t, DOMAIN t \ gone)
Keep(t, P(_)) == {id \in DOMAIN t : P(t[id])}

\* The rows of a table that a call made for a tenant sees.
Scoped(t, tid) == {id \in DOMAIN t : t[id].tenant = tid}
Has(t, tid, id) == id \in DOMAIN t /\ t[id].tenant = tid

\* What a call leaves behind and answers.
Answer(d, err, rows) == [db |-> d, err |-> err, rows |-> rows]

CertStatuses == {"active", "expiring", "revoked"}
JobStatuses == {"queued", "processing", "failed"}
RequestStatuses == {"pending", "approved", "issued"}

(* The filters of the cursor lists; the cursor of the first page is zero. *)
Filters(status) ==
    [status : {Null, status}, issuer : {Null}, ts : Now, id : Ids, limit : {1, 2}]
    \cup [status : {Null}, issuer : {Null, 1}, ts : {0}, id : {0}, limit : Limits]

----------------------------------------------------------------------------
(* The list pages.  A list has sort fields, each with the direction it is   *)
(* sorted in when the caller names none, and a default field; the fields    *)
(* kept are those whose column the rows keep.                               *)

List(default, asc, desc) == [default |-> default, asc |-> asc, desc |-> desc]
CertificateList == List("created", {"issuer", "status", "notAfter"}, {"created"})
IssuerList == List("name", {"name"}, {})
RequestList == List("created", {"status"}, {"created"})
JobList == List("created", {"status"}, {"attempts", "runAfter", "created"})
NamedList == List("name", {"name"}, {})
AuditList == List("ts", {}, {"ts"})

\* The listquery library, which completes a request, clamps it to the last
\* page and orders rows: a row without key last, equal keys by id, in the same
\* direction.  A page holds DefaultSize rows unless the caller says how many.
DefaultSize == 2
MaxSize == 2
New(page, size, sort, order, list) ==
    LET field == IF sort = Null THEN list.default ELSE sort
    IN  [page |-> IF page = 0 THEN 1 ELSE page, size |-> IF size = 0 THEN DefaultSize ELSE size,
         sort |-> field,
         order |-> IF order # Null THEN order ELSE IF field \in list.desc THEN "desc" ELSE "asc"]
Clamp(r, total) ==
    LET last == (total + r.size - 1) \div r.size
    IN  [r EXCEPT !.page = IF @ <= last THEN @ ELSE IF last = 0 THEN 1 ELSE last]
Offset(r) == (r.page - 1) * r.size
SortsBefore(r, x, a, y, b) ==
    CASE x = y -> IF r.order = "asc" THEN a < b ELSE a > b
      [] x # y /\ Null \in {x, y} -> y = Null
      [] OTHER -> IF r.order = "asc" THEN x < y ELSE x > y

\* A request for a field the list does not have, or for too large a page, is
\* answered as if it asked for nothing.
ListRequest(r, list) ==
    IF r.sort \in list.asc \cup list.desc \cup {Null} /\ r.size <= MaxSize
    THEN New(r.page, r.size, r.sort, r.order, list) ELSE New(0, 0, Null, Null, list)

\* The order of the status texts.
Alphabetical(status) ==
    CHOOSE n \in 1..9 : status = <<"active", "approved", "expiring", "failed", "issued",
                                   "pending", "processing", "queued", "revoked">>[n]

(* What callers ask for, and what they may read. *)
Asked(list) ==
    {[page |-> 0, size |-> 0, sort |-> Null, order |-> Null],
     [page |-> 2, size |-> 9, sort |-> Null, order |-> Null],
     [page |-> 2, size |-> 1, sort |-> "nope", order |-> "asc"]}
    \cup [page : {2}, size : {1}, sort : list.asc \cup list.desc, order : {Null, "asc", "desc"}]
Visible == {[all |-> TRUE, ids |-> {}], [all |-> FALSE, ids |-> {1, 3}], [all |-> FALSE, ids |-> {}]}
RequestScopes ==
    {[actor |-> Null, allPinned |-> TRUE, issuers |-> {}, domains |-> Domains, allJobs |-> TRUE],
     [actor |-> "u1", allPinned |-> FALSE, issuers |-> {}, domains |-> {}, allJobs |-> FALSE],
     [actor |-> Null, allPinned |-> FALSE, issuers |-> {1}, domains |-> {}, allJobs |-> FALSE],
     [actor |-> Null, allPinned |-> FALSE, issuers |-> {3}, domains |-> Domains, allJobs |-> FALSE]}
============================================================================
