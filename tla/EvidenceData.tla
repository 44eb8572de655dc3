---------------------------- MODULE EvidenceData ----------------------------
(***************************************************************************)
(* The data of the evidence tables, abstracted to what the store and its  *)
(* clients tell apart.  A package's external reference, type, digest,      *)
(* location, received_at, classification and correlation id are one        *)
(* Metadata value: the store only ever compares them for equality          *)
(* (internal/evidence/store.go, createRequestMatchesPackage).              *)
(*                                                                         *)
(* PostgreSQL does not return every value as it was sent: a UUID column    *)
(* comes back in lower case and a TIMESTAMPTZ column in microseconds.      *)
(* StoredKey and StoredMetadata map what a client wrote to what a read     *)
(* returns.                                                                *)
(***************************************************************************)
EXTENDS Sequences

CONSTANTS
    Tenants,         \* tenant bindings of principals
    NoTenant,        \* a blank tenant binding
    KeyTexts,        \* spellings of idempotency keys a client may send
    Metadata,        \* spellings of the other client-supplied fields
    PackageIDs,      \* identifiers gen_random_uuid() may produce
    NoPackage,       \* no row, and no identifier
    StoredKey,       \* KeyTexts -> KeyTexts: what the UUID column returns
    StoredMetadata,  \* Metadata -> Metadata: what the columns return
    EventsWired      \* Store.WithEvents has been called (signer # nil)

Terminal == {"validated", "rejected"}
Statuses == {"received"} \cup Terminal

Rows == [tenant : Tenants, key : KeyTexts, metadata : Metadata, status : Statuses]

CreateRequests ==
    [op : {"create"}, tenant : Tenants \cup {NoTenant}, key : KeyTexts, metadata : Metadata]
ValidationRequests ==
    [op : {"validate"}, package : PackageIDs, status : Terminal]

(* Rows of evidence_validation_history; NULL is the prior of the first. *)
Entries == [prior : Statuses \cup {"NULL"}, status : Statuses]

TopicPackage == "evidence.package.v1"
TopicValidation == "evidence.validation.v1"
Events == [topic : {TopicPackage}, payload : Metadata]
              \cup [topic : {TopicValidation}, payload : Entries]

ASSUME DataAssumption ==
    /\ NoTenant \notin Tenants
    /\ NoPackage \notin PackageIDs
    /\ NoPackage \notin Rows
    /\ StoredKey \in [KeyTexts -> KeyTexts]
    /\ StoredMetadata \in [Metadata -> Metadata]
    /\ \A k \in KeyTexts : StoredKey[StoredKey[k]] = StoredKey[k]
    /\ \A m \in Metadata : StoredMetadata[StoredMetadata[m]] = StoredMetadata[m]
    /\ EventsWired \in BOOLEAN

(* Mutant: a status the CHECK constraint does not know. *)
StoredRowUnchecked(r) ==
    [tenant |-> r.tenant, key |-> StoredKey[r.key],
     metadata |-> StoredMetadata[r.metadata], status |-> "pending"]

(* The row that INSERT ... RETURNING gives back for request r. *)
StoredRow(r) ==
    [tenant |-> r.tenant, key |-> StoredKey[r.key],
     metadata |-> StoredMetadata[r.metadata], status |-> "received"]

(* Mutants: the key alone decides; the mutable status is compared too. *)
MatchesKey(r, row) == r.key = row.key
MatchesUndecided(r, row) ==
    r.key = row.key /\ r.metadata = row.metadata /\ row.status = "received"

(* createRequestMatchesPackage: what the client sent now against what the *)
(* table returns; the tenant is already part of the lookup.                *)
Matches(r, row) == r.key = row.key /\ r.metadata = row.metadata

(* A request the database gives back exactly as it was sent. *)
Canonical(r) == StoredKey[r.key] = r.key /\ StoredMetadata[r.metadata] = r.metadata

(* Package id holds the unique pair (tenant_id, idempotency_key). *)
Holds(rows, id, tenant, key) ==
    rows[id] # NoPackage /\ rows[id].tenant = tenant /\ rows[id].key = key

(* The history row and the event written with each change of a package. *)
Received == [prior |-> "NULL", status |-> "received"]
Decision(prior, status) == [prior |-> prior, status |-> status]
PackageEvent(row) == [topic |-> TopicPackage, payload |-> row.metadata]
ValidationEvent(entry) == [topic |-> TopicValidation, payload |-> entry]

(***************************************************************************)
(* What the two append-only tables must hold for a package whose row is    *)
(* given: the chain of custody, and its announcements when events are      *)
(* wired.                                                                  *)
(***************************************************************************)
Custody(row) ==
    IF row = NoPackage THEN <<>>
    ELSE IF row.status = "received" THEN <<Received>>
    ELSE <<Received, Decision("received", row.status)>>

Announced(row) ==
    IF row = NoPackage \/ ~EventsWired THEN <<>>
    ELSE IF row.status = "received" THEN <<PackageEvent(row)>>
    ELSE <<PackageEvent(row), ValidationEvent(Decision("received", row.status))>>
=============================================================================
