---------------------------- MODULE SchemaHistory ----------------------------
(***************************************************************************)
(* What db/migrations promise together to whoever works on the tables:     *)
(* each file takes effect once and whole, the first before the others, and *)
(* only 0004 touches a row, which it parks.  A package is received in the  *)
(* scope of its time, and decided once, by either release.  Migrations     *)
(* implements this statement by statement.                                 *)
(***************************************************************************)
EXTENDS Naturals, Sequences

CONSTANTS Files, PackageIDs, Tenants, Keys, Terminal, Blank, Legacy, NoPackage

VARIABLES applied, rows, decisions

historyVars == <<applied, rows, decisions>>

Tenancy == 4 \in applied

Init ==
    /\ applied = {}
    /\ rows = [id \in PackageIDs |-> NoPackage]
    /\ decisions = [id \in PackageIDs |-> <<>>]

(* The rows of before tenancy go to one tenant of their own. *)
Apply(f) ==
    /\ f \notin applied
    /\ f # 1 => 1 \in applied
    /\ applied' = applied \cup {f}
    /\ rows' = IF f = 4
               THEN [id \in PackageIDs |->
                       IF rows[id] = NoPackage THEN NoPackage
                       ELSE [rows[id] EXCEPT !.tenant = Legacy]]
               ELSE rows
    /\ UNCHANGED decisions

(* A row has a tenant if and only if there is tenancy, and a key of its own *)
(* among its tenant's, or among all while there is none.                    *)
Receive(id, tenant, key) ==
    /\ 1 \in applied
    /\ (tenant # Blank) <=> Tenancy
    /\ Tenancy => 3 \in applied
    /\ rows[id] = NoPackage
    /\ \A other \in PackageIDs :
          rows[other] # NoPackage => rows[other].tenant # tenant \/ rows[other].key # key
    /\ rows' = [rows EXCEPT ![id] = [tenant |-> tenant, key |-> key, status |-> "received"]]
    /\ UNCHANGED <<applied, decisions>>

(* The release before tenancy leaves the status as it is; the present one   *)
(* needs tenancy and the outbox.                                            *)
Decide(id, status, release) ==
    /\ rows[id] # NoPackage
    /\ rows[id].status = "received"
    /\ decisions[id] = <<>>
    /\ decisions' = [decisions EXCEPT ![id] = <<[status |-> status, release |-> release]>>]
    /\ \/ release = "legacy" /\ UNCHANGED rows
       \/ /\ release = "present" /\ {3, 4} \subseteq applied
          /\ rows' = [rows EXCEPT ![id].status = status]
    /\ UNCHANGED applied

Next ==
    \/ \E f \in Files : Apply(f)
    \/ \E id \in PackageIDs, tenant \in Tenants \cup {Blank}, key \in Keys : Receive(id, tenant, key)
    \/ \E id \in PackageIDs, status \in Terminal, release \in {"legacy", "present"} :
          Decide(id, status, release)

Spec == Init /\ [][Next]_historyVars
=============================================================================
