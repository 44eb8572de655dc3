---------------------------- MODULE EvidenceStore ----------------------------
(***************************************************************************)
(* internal/evidence/store.go over PostgreSQL: Store.Create and            *)
(* Store.RecordValidation, one action per statement.  Each call is one     *)
(* invocation of a handler and runs once; a client that retries makes      *)
(* another call with the same request.                                     *)
(*                                                                         *)
(* A transaction's writes stay in tx until its COMMIT.  What PostgreSQL    *)
(* does with them is part of the statement that meets it:                  *)
(*  - a unique index makes an INSERT wait for an uncommitted entry with    *)
(*    the same key, then see whether it committed;                         *)
(*  - READ COMMITTED (Create) reads the tables as they are at each         *)
(*    statement, SERIALIZABLE (RecordValidation) as they were at its       *)
(*    first;                                                               *)
(*  - an UPDATE waits for a concurrent writer of the row and is refused    *)
(*    when the row has changed since the snapshot.                         *)
(* A spurious serialization failure is a Fail, like a lost connection.     *)
(***************************************************************************)
EXTENDS EvidenceData

CONSTANTS
    Calls,          \* handler invocations, each runs once
    AssertedCalls   \* those on a connection that ConfigurePool prepared:
                    \* SET app.evidence_service = 'on'

ASSUME StoreAssumption == AssertedCalls \subseteq Calls

VARIABLES
    packages,   \* evidence_packages: package id -> row
    history,    \* evidence_validation_history: package id -> rows, as inserted
    outbox,     \* evidence_outbox: package id -> rows, in created_at order
    pc,         \* the statement a call executes next
    request,    \* the argument of the call
    tx,         \* the uncommitted writes of its transaction
    snapshot,   \* what its transaction has read of the package
    prior,      \* RecordValidation's priorStatus
    answer      \* what the call returned

tables == <<packages, history, outbox>>
vars == <<packages, history, outbox, pc, request, tx, snapshot, prior, answer>>

NoRequest == [op |-> "none"]
NoTx == [package |-> NoPackage, row |-> NoPackage, history |-> <<>>, outbox |-> <<>>]
NoSnapshot == [package |-> NoPackage, row |-> NoPackage, history |-> <<>>]
NoAnswer == [code |-> "none", package |-> NoPackage, row |-> NoPackage]

InTransaction ==
    {"insert", "initial", "lookup", "load", "read", "decide", "update", "enqueue", "commit"}

(* "refused" is an error the database raised for what concurrent            *)
(* transactions or the session did, "failed" one for a fault.  Both reach   *)
(* the client as 500 internal error.                                        *)
Codes == {"none", "unbound", "created", "retained", "conflict", "recorded",
          "not_found", "terminal", "refused", "failed"}

Init ==
    /\ packages = [id \in PackageIDs |-> NoPackage]
    /\ history = [id \in PackageIDs |-> <<>>]
    /\ outbox = [id \in PackageIDs |-> <<>>]
    /\ pc = [c \in Calls |-> "start"]
    /\ request = [c \in Calls |-> NoRequest]
    /\ tx = [c \in Calls |-> NoTx]
    /\ snapshot = [c \in Calls |-> NoSnapshot]
    /\ prior = [c \in Calls |-> "received"]
    /\ answer = [c \in Calls |-> NoAnswer]

-----------------------------------------------------------------------------
(* What the unique indexes and the row lock look at. *)

(* Mutant: the EXISTS query without its status filter. *)
HasAnyRow(rows) == rows # <<>>

HasTerminal(rows) == \E i \in DOMAIN rows : rows[i].status \in Terminal

(* Mutant: the insert does not wait for an uncommitted one. *)
InsertPendingUnseen(d, tenant, key) == FALSE

(* Call d has inserted a package with this pair and not yet ended. *)
InsertPending(d, tenant, key) ==
    /\ request[d].op = "create"
    /\ tx[d].row # NoPackage
    /\ tx[d].row.tenant = tenant
    /\ tx[d].row.key = key

(* Call d has inserted a terminal decision on id and not yet ended. *)
DecisionPending(d, id) == tx[d].package = id /\ HasTerminal(tx[d].history)

(* Call d has updated the row of id and not yet ended. *)
UpdatePending(d, id) ==
    request[d].op = "validate" /\ tx[d].package = id /\ tx[d].row # NoPackage

-----------------------------------------------------------------------------
(* How a call ends. *)

(* Mutant: without the deferred rollback the locks outlive the call. *)
ReturnHoldingLocks(c, code, id, row) ==
    /\ pc' = [pc EXCEPT ![c] = "answered"]
    /\ answer' = [answer EXCEPT ![c] = [code |-> code, package |-> id, row |-> row]]
    /\ UNCHANGED <<request, tx, snapshot, prior>>

Return(c, code, id, row) ==
    /\ pc' = [pc EXCEPT ![c] = "answered"]
    /\ answer' = [answer EXCEPT ![c] = [code |-> code, package |-> id, row |-> row]]
    /\ tx' = [tx EXCEPT ![c] = NoTx]
    /\ snapshot' = [snapshot EXCEPT ![c] = NoSnapshot]
    /\ prior' = [prior EXCEPT ![c] = "received"]
    /\ UNCHANGED request

(* The deferred transaction.Rollback. *)
Rollback(c, code) == Return(c, code, NoPackage, NoPackage) /\ UNCHANGED tables

Goto(c, label) == pc' = [pc EXCEPT ![c] = label]

-----------------------------------------------------------------------------
(* Store.Create *)

RejectUnbound(c, r) ==
    /\ pc[c] = "start"
    /\ r.tenant = NoTenant
    /\ request' = [request EXCEPT ![c] = r]
    /\ pc' = [pc EXCEPT ![c] = "answered"]
    /\ answer' = [answer EXCEPT ![c] = [NoAnswer EXCEPT !.code = "unbound"]]
    /\ UNCHANGED <<packages, history, outbox, tx, snapshot, prior>>

BeginCreate(c, r) ==
    /\ pc[c] = "start"
    /\ r.tenant # NoTenant
    /\ request' = [request EXCEPT ![c] = r]
    /\ Goto(c, "insert")
    /\ UNCHANGED <<packages, history, outbox, tx, snapshot, prior, answer>>

FreshID(id) == packages[id] = NoPackage /\ \A d \in Calls : tx[d].package # id

InsertPackage(c) ==
    LET r == request[c]
        key == StoredKey[r.key]
    IN  /\ pc[c] = "insert"
        /\ \A d \in Calls : ~InsertPending(d, r.tenant, key)
        /\ IF \E id \in PackageIDs : Holds(packages, id, r.tenant, key)
           THEN Goto(c, "lookup") /\ UNCHANGED tx
           ELSE \E id \in PackageIDs :
                   /\ FreshID(id)
                   /\ tx' = [tx EXCEPT ![c] = [@ EXCEPT !.package = id, !.row = StoredRow(r)]]
                   /\ Goto(c, "initial")
        /\ UNCHANGED <<packages, history, outbox, request, snapshot, prior, answer>>

InsertInitialHistory(c) ==
    /\ pc[c] = "initial"
    /\ tx' = [tx EXCEPT ![c].history = <<Received>>]
    /\ Goto(c, "enqueue")
    /\ UNCHANGED <<packages, history, outbox, request, snapshot, prior, answer>>

(* The row whose key stopped the INSERT is committed and never deleted, so  *)
(* the second SELECT always finds it.                                       *)
LookupRetained(c) ==
    LET r == request[c]
    IN  /\ pc[c] = "lookup"
        /\ \E id \in PackageIDs :
              /\ Holds(packages, id, r.tenant, StoredKey[r.key])
              /\ IF Matches(r, packages[id])
                 THEN /\ snapshot' = [snapshot EXCEPT ![c] = [@ EXCEPT !.package = id, !.row = packages[id]]]
                      /\ Goto(c, "commit")
                      /\ UNCHANGED <<packages, history, outbox, request, tx, prior, answer>>
                 ELSE Rollback(c, "conflict")

-----------------------------------------------------------------------------
(* Store.RecordValidation *)

BeginValidation(c, r) ==
    /\ pc[c] = "start"
    /\ request' = [request EXCEPT ![c] = r]
    /\ Goto(c, "load")
    /\ UNCHANGED <<packages, history, outbox, tx, snapshot, prior, answer>>

(* The first statement: it takes the transaction's snapshot. *)
LoadForValidation(c) ==
    LET id == request[c].package
    IN  /\ pc[c] = "load"
        /\ IF packages[id] = NoPackage
           THEN Rollback(c, "not_found")
           ELSE /\ snapshot' = [snapshot EXCEPT ![c] =
                       [package |-> id, row |-> packages[id], history |-> history[id]]]
                /\ Goto(c, "read")
                /\ UNCHANGED <<packages, history, outbox, request, tx, prior, answer>>

(* The EXISTS query, then the prior status.  occurred_at is the caller's,   *)
(* so any row of the snapshot may be the latest; without rows priorStatus   *)
(* keeps its first value.                                                   *)
ReadHistory(c) ==
    LET rows == snapshot[c].history
    IN  /\ pc[c] = "read"
        /\ IF HasTerminal(rows)
           THEN Rollback(c, "terminal")
           ELSE /\ \/ \E i \in DOMAIN rows : prior' = [prior EXCEPT ![c] = rows[i].status]
                   \/ rows = <<>> /\ UNCHANGED prior
                /\ Goto(c, "decide")
                /\ UNCHANGED <<packages, history, outbox, request, tx, snapshot, answer>>

(* The index evidence_validation_history_one_terminal_decision. *)
InsertTerminal(c) ==
    LET id == request[c].package
    IN  /\ pc[c] = "decide"
        /\ \A d \in Calls : ~DecisionPending(d, id)
        /\ IF HasTerminal(history[id])
           THEN Rollback(c, "refused")
           ELSE /\ tx' = [tx EXCEPT ![c] = [@ EXCEPT !.package = id,
                       !.history = <<Decision(prior[c], request[c].status)>>]]
                /\ Goto(c, "update")
                /\ UNCHANGED <<packages, history, outbox, request, snapshot, prior, answer>>

(* The trigger evidence_packages_immutable admits one transition. *)
Sanctioned(row, status) == row.status = "received" /\ status \in Terminal

(* Mutant: the status is left alone, as before migration 0004. *)
StatusKept(row, status) == row

(* The row after UPDATE ... SET validation_status. *)
Decided(row, status) == [row EXCEPT !.status = status]

UpdateStatus(c) ==
    LET id == request[c].package
        status == request[c].status
    IN  /\ pc[c] = "update"
        /\ \A d \in Calls : ~UpdatePending(d, id)
        /\ IF packages[id] = snapshot[c].row /\ Sanctioned(packages[id], status)
           THEN /\ tx' = [tx EXCEPT ![c].row = Decided(packages[id], status)]
                /\ Goto(c, "enqueue")
                /\ UNCHANGED <<packages, history, outbox, request, snapshot, prior, answer>>
           ELSE Rollback(c, "refused")

-----------------------------------------------------------------------------
(* Both: Store.enqueueOutbox, COMMIT and failures *)

(* Mutant: every event is announced as a received package. *)
PackageEventFor(c) == PackageEvent(tx[c].row)

EventFor(c) ==
    IF request[c].op = "create" THEN PackageEvent(tx[c].row)
    ELSE ValidationEvent(Decision(prior[c], request[c].status))

(* Mutant: an event without a signer. *)
AlwaysAnnounce(c) == <<EventFor(c)>>

(* The outbox rows of the transaction: none when signer is nil. *)
Announce(c) == IF EventsWired THEN <<EventFor(c)>> ELSE <<>>

(* Mutant: no FORCE ROW LEVEL SECURITY, the owner's session may insert. *)
OwnerAdmitted(c) == FALSE

(* The policy evidence_outbox_service_policy refuses the insert. *)
PolicyDenies(c) == EventsWired /\ c \notin AssertedCalls

Enqueue(c) ==
    /\ pc[c] = "enqueue"
    /\ IF PolicyDenies(c)
       THEN Rollback(c, "refused")
       ELSE /\ tx' = [tx EXCEPT ![c].outbox = Announce(c)]
            /\ Goto(c, "commit")
            /\ UNCHANGED <<packages, history, outbox, request, snapshot, prior, answer>>

(* Mutant: the new history row replaces the ones before it. *)
InstallOverHistory(c) ==
    LET id == tx[c].package
    IN  IF id = NoPackage THEN UNCHANGED tables
        ELSE /\ packages' = [packages EXCEPT ![id] = tx[c].row]
             /\ history' = [history EXCEPT ![id] = tx[c].history]
             /\ outbox' = [outbox EXCEPT ![id] = @ \o tx[c].outbox]

(* The writes of call c become visible together. *)
Install(c) ==
    LET id == tx[c].package
    IN  IF id = NoPackage THEN UNCHANGED tables
        ELSE /\ packages' = [packages EXCEPT ![id] = tx[c].row]
             /\ history' = [history EXCEPT ![id] = @ \o tx[c].history]
             /\ outbox' = [outbox EXCEPT ![id] = @ \o tx[c].outbox]

(* Mutant: Create's second result is true for a retained package too. *)
ReturnAsCreated(c) == Return(c, "created", snapshot[c].package, snapshot[c].row)

ReturnRetained(c) == Return(c, "retained", snapshot[c].package, snapshot[c].row)

Commit(c) ==
    /\ pc[c] = "commit"
    /\ Install(c)
    /\ IF request[c].op = "validate"
       THEN Return(c, "recorded", tx[c].package, NoPackage)
       ELSE IF tx[c].package # NoPackage
            THEN Return(c, "created", tx[c].package, tx[c].row)
            ELSE ReturnRetained(c)

(* The server commits but its answer is lost. *)
CommitUnacknowledged(c) ==
    /\ pc[c] = "commit"
    /\ Install(c)
    /\ Return(c, "failed", NoPackage, NoPackage)

(* A statement fails, the request is cancelled or the process dies. *)
Fail(c) ==
    /\ pc[c] \in InTransaction
    /\ Rollback(c, "failed")

-----------------------------------------------------------------------------
(* A call whose request has arrived runs to its end. *)
Run(c) ==
    \/ InsertPackage(c)
    \/ InsertInitialHistory(c)
    \/ LookupRetained(c)
    \/ LoadForValidation(c)
    \/ ReadHistory(c)
    \/ InsertTerminal(c)
    \/ UpdateStatus(c)
    \/ Enqueue(c)
    \/ Commit(c)

Arrive(c) ==
    \/ \E r \in CreateRequests : RejectUnbound(c, r) \/ BeginCreate(c, r)
    \/ \E r \in ValidationRequests : BeginValidation(c, r)

(* Every call has returned: the system is idle, not deadlocked. *)
Idle == (\A c \in Calls : pc[c] = "answered") /\ UNCHANGED vars

Next ==
    \/ \E c \in Calls : Arrive(c) \/ Run(c) \/ CommitUnacknowledged(c) \/ Fail(c)
    \/ Idle

Spec == Init /\ [][Next]_vars

(* A goroutine that has a request keeps executing its statements; nobody    *)
(* has to send a request, and nothing has to fail.                          *)
FairSpec == Spec /\ \A c \in Calls : WF_vars(Run(c))
=============================================================================
