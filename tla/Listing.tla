------------------------------- MODULE Listing -------------------------------
(***************************************************************************)
(* GET /v1/evidence/packages: Store.List behind Server.listPackages, and a *)
(* client that walks through the pages while packages are created.         *)
(*                                                                         *)
(* A page is one statement, so it is read from one state of the table.     *)
(* Package ids are numbers here: their order is the ORDER BY's tie-break.  *)
(***************************************************************************)
EXTENDS Integers, Sequences, FiniteSets, SequencesExt

CONSTANTS
    LastID,      \* the packages that may be created are 1 .. LastID
    Tenant,      \* the tenant of the client
    OtherTenant,
    Times,       \* values of received_at, supplied by whoever creates
    Ranks,       \* the classification ladder
    Clearance,   \* of the client
    NoLimit,     \* no limit parameter, or one that is no number
    Limits,      \* limit parameters of the client
    ListDefaultLimit, ListMaxLimit  \* ListLimits

IDs == 1 .. LastID

(* NewServer *)
ASSUME ListingAssumption ==
    /\ LastID \in Nat
    /\ Times \subseteq Int
    /\ Ranks \subseteq Nat
    /\ Clearance \in Ranks
    /\ Tenant # OtherTenant
    /\ NoLimit \notin Int
    /\ Limits \subseteq Int \cup {NoLimit}
    /\ ListDefaultLimit \in Nat \ {0}
    /\ ListMaxLimit \in Nat
    /\ ListMaxLimit >= ListDefaultLimit

VARIABLES
    table,      \* the committed rows: a function on the ids that exist
    requested,  \* the limit parameter of the walk
    existing,   \* the client's packages that were there when it began
    offset,     \* the next offset the client asks for
    seen,       \* what the pages have shown
    walk        \* "before", "going" or, after an empty page, "over"

vars == <<table, requested, existing, offset, seen, walk>>

Init ==
    /\ table = << >>
    /\ requested = NoLimit
    /\ existing = {}
    /\ offset = 0
    /\ seen = {}
    /\ walk = "before"

-----------------------------------------------------------------------------
(* WHERE tenant_id = $1 *)
Own(rows) == {id \in DOMAIN rows : rows[id].tenant = Tenant}

(* Mutant: without the second key of the ORDER BY. *)
NewerOnly(rows, i, j) == rows[i].received > rows[j].received

(* ORDER BY received_at DESC, evidence_package_id *)
Before(rows, i, j) ==
    \/ rows[i].received > rows[j].received
    \/ rows[i].received = rows[j].received /\ i < j

(* The orders in which the database may return the rows. *)
Listings(rows) ==
    {s \in SetToSeqs(Own(rows)) :
        \A m, n \in DOMAIN s : m < n => ~Before(rows, s[n], s[m])}

(* LIMIT $2 OFFSET $3 *)
Window(listing, limit, from) ==
    {listing[n] : n \in {m \in DOMAIN listing : from < m /\ m <= from + limit}}

(* The length of a page, whatever the client asks for. *)
parseLimit(limit) ==
    CASE limit = NoLimit -> ListDefaultLimit
      [] limit # NoLimit /\ limit <= 0 -> ListDefaultLimit
      [] limit # NoLimit /\ limit > ListMaxLimit -> ListMaxLimit
      [] OTHER -> limit

(* Mutant: the response repeats the parameter instead of the limit in use. *)
RequestedLimit(limit) == IF requested = NoLimit THEN limit ELSE requested

(* The limit in the response, by which the client advances its offset: it   *)
(* is the client's only guide, the rows left out are not counted.           *)
ReportedLimit(limit) == limit

Visible(rows, id) == Clearance >= rows[id].rank

-----------------------------------------------------------------------------
(* Store.Create, committed: received_at may lie before any other row's. *)
Create(id) ==
    /\ id \notin DOMAIN table
    /\ \E tenant \in {Tenant, OtherTenant}, received \in Times, rank \in Ranks :
          table' = [i \in DOMAIN table \cup {id} |->
              IF i = id THEN [tenant |-> tenant, received |-> received, rank |-> rank]
              ELSE table[i]]
    /\ UNCHANGED <<requested, existing, offset, seen, walk>>

BeginWalk(limit) ==
    /\ walk = "before"
    /\ requested' = limit
    /\ existing' = {id \in Own(table) : Visible(table, id)}
    /\ walk' = "going"
    /\ UNCHANGED <<table, offset, seen>>

listPackages ==
    /\ walk = "going"
    /\ \E listing \in Listings(table) :
          LET limit == parseLimit(requested)
              page == {id \in Window(listing, limit, offset) : Visible(table, id)}
          IN  /\ seen' = seen \cup page
              /\ offset' = offset + ReportedLimit(limit)
              /\ walk' = IF page = {} THEN "over" ELSE "going"
    /\ UNCHANGED <<table, requested, existing>>

Over == walk = "over" /\ UNCHANGED vars

Next ==
    \/ \E id \in IDs : Create(id)
    \/ \E limit \in Limits : BeginWalk(limit)
    \/ listPackages
    \/ Over

Spec == Init /\ [][Next]_vars

-----------------------------------------------------------------------------
(* Properties *)

Position(id) == Cardinality({i \in Own(table) : Before(table, i, id)})

(* No package is skipped between two pages: what was there when the walk    *)
(* began and the client may see has been shown or still lies ahead, however *)
(* many packages are created before it in the order meanwhile.              *)
NoneSkipped ==
    walk # "before" => \A id \in existing : id \in seen \/ Position(id) >= offset

(* When the client's clearance covers every package of its tenant, an empty *)
(* page means it has been shown everything that was there when it began.    *)
EmptyPageIsTheEnd ==
    /\ walk = "over"
    /\ \A id \in Own(table) : Visible(table, id)
    => existing \subseteq seen
=============================================================================
