--------------------------- MODULE EvidenceLedger ---------------------------
(***************************************************************************)
(* What the evidence store promises to its callers: a ledger in which a    *)
(* package is received once per (tenant, key), decided at most once, and   *)
(* in which the package row, its chain of custody and its announcements    *)
(* change in one indivisible step.  EvidenceStore implements this.         *)
(***************************************************************************)
EXTENDS EvidenceData

VARIABLES packages, history, outbox

ledgerVars == <<packages, history, outbox>>

Init ==
    /\ packages = [id \in PackageIDs |-> NoPackage]
    /\ history = [id \in PackageIDs |-> <<>>]
    /\ outbox = [id \in PackageIDs |-> <<>>]

(* Package id now has this row, and the tables tell its whole story. *)
Enter(id, row) ==
    /\ packages' = [packages EXCEPT ![id] = row]
    /\ history' = [history EXCEPT ![id] = Custody(row)]
    /\ outbox' = [outbox EXCEPT ![id] = Announced(row)]

Receive(id, r) ==
    /\ packages[id] = NoPackage
    /\ r.tenant # NoTenant
    /\ \A other \in PackageIDs : ~Holds(packages, other, r.tenant, StoredKey[r.key])
    /\ Enter(id, StoredRow(r))

Decide(id, status) ==
    /\ packages[id] # NoPackage
    /\ packages[id].status = "received"
    /\ Enter(id, [packages[id] EXCEPT !.status = status])

Next ==
    \/ \E id \in PackageIDs, r \in CreateRequests : Receive(id, r)
    \/ \E id \in PackageIDs, status \in Terminal : Decide(id, status)

Spec == Init /\ [][Next]_ledgerVars
=============================================================================
