------------------------------ MODULE Migrations ------------------------------
(***************************************************************************)
(* cmd/evidence-migrate over db/migrations: which file is applied, in what *)
(* order and how often is the operator's choice, nothing records what was  *)
(* applied, and a run may die at any statement.  Meanwhile processes of    *)
(* the release before tenancy and of the present one work on the tables.   *)
(*                                                                         *)
(* A file is one transaction that locks the tables it changes: a call that *)
(* writes one of them waits for its end, and any other commutes with it,   *)
(* so no call is made during a run.  A call is one step here: decisions    *)
(* are serializable, and EvidenceStore shows that the statements of a call *)
(* amount to one.                                                          *)
(***************************************************************************)
EXTENDS Naturals, Sequences

CONSTANTS
    PackageIDs,   \* identifiers of packages
    Tenants,      \* tenant bindings of principals
    Keys,         \* idempotency keys
    Blank,        \* tenant_id of a row when the column is added: ''
    Legacy,       \* 'legacy-unmigrated'
    NoPackage,    \* no row
    NoRun         \* evidence-migrate is not running

Terminal == {"validated", "rejected"}
Files == 1 .. 4
Rows == [tenant : Tenants \cup {Blank, Legacy}, key : Keys, status : {"received"} \cup Terminal]

ASSUME MigrationsAssumption ==
    /\ Blank \notin Tenants
    /\ Legacy \notin Tenants
    /\ Blank # Legacy
    /\ NoPackage \notin Rows

VARIABLES
    objects,    \* committed tables, columns, constraints and triggers
    rows,       \* evidence_packages
    decisions,  \* evidence_validation_history: package -> its terminal rows
    run,        \* what the transaction of evidence-migrate sees
    applied     \* history variable: the files that were committed

vars == <<objects, rows, decisions, run, applied>>

Init ==
    /\ objects = {}
    /\ rows = [id \in PackageIDs |-> NoPackage]
    /\ decisions = [id \in PackageIDs |-> <<>>]
    /\ run = NoRun
    /\ applied = {}

-----------------------------------------------------------------------------
(* The files, statement by statement. *)

(* Mutant: a statement that passes over a table that is missing. *)
CreatesAnyway(needs, adds) == [needs |-> {}, drops |-> {}, adds |-> adds]

Creates(needs, adds) == [needs |-> needs, drops |-> {}, adds |-> adds]
Drops(gone) == [needs |-> gone, drops |-> gone, adds |-> {}]

(* CREATE OR REPLACE FUNCTION *)
Narrows == [needs |-> {}, drops |-> {"blanket"}, adds |-> {"narrowed"}]

(* UPDATE ... SET tenant_id = 'legacy-unmigrated' WHERE tenant_id = '' *)
Park == Creates({"tenant_id"}, {})

(* 0001_evidence.sql *)
Evidence ==
    <<Creates({}, {"packages", "key_unique"}), Creates({"packages"}, {"history"}),
      Creates({}, {"blanket"}), Creates({"packages"}, {"trigger"})>>

(* 0002_terminal_validation_invariant.sql *)
TerminalInvariant == <<Creates({"history"}, {"one_terminal"})>>

(* 0003_evidence_outbox.sql *)
EvidenceOutbox == <<Creates({"packages"}, {"outbox"}), Creates({"outbox"}, {"policy"})>>

(* 0004_tenancy.sql *)
Tenancy ==
    <<Drops({"trigger"}), Creates({"packages"}, {"tenant_id"}), Park,
      Creates({"tenant_id"}, {"not_blank"}), Drops({"key_unique"}),
      Creates({"tenant_id"}, {"tenant_unique"}), Narrows, Creates({"packages"}, {"trigger"})>>

Script == <<Evidence, TerminalInvariant, EvidenceOutbox, Tenancy>>

Distinct(table, Same(_, _)) ==
    \A i, j \in PackageIDs :
        table[i] # NoPackage /\ table[j] # NoPackage /\ Same(table[i], table[j]) => i = j

SameScope(r, s) == r.tenant = s.tenant /\ r.key = s.key

(* What a statement demands of the rows there are. *)
RowsAllow(s) ==
    /\ "one_terminal" \in s.adds => \A id \in PackageIDs : Len(decisions[id]) <= 1
    /\ "not_blank" \in s.adds =>
          \A id \in PackageIDs : run.rows[id] # NoPackage => run.rows[id].tenant # Blank
    /\ "tenant_unique" \in s.adds => Distinct(run.rows, SameScope)
    /\ s = Park /\ "trigger" \in run.objects =>
          \A id \in PackageIDs : run.rows[id] # NoPackage => run.rows[id].tenant # Blank

Parked(row) ==
    IF row # NoPackage /\ row.tenant = Blank THEN [row EXCEPT !.tenant = Legacy] ELSE row

-----------------------------------------------------------------------------
(* evidence-migrate *)

(* An approved run with a readable file and a reachable database: BEGIN. *)
Begin(f) ==
    /\ run = NoRun
    /\ run' = [file |-> f, at |-> 1, objects |-> objects, rows |-> rows]
    /\ UNCHANGED <<objects, rows, decisions, applied>>

Executed(s) ==
    [run EXCEPT !.at = @ + 1,
                !.objects = (@ \ s.drops) \cup s.adds,
                !.rows = IF s = Park THEN [id \in PackageIDs |-> Parked(@[id])] ELSE @]

(* Mutant: a file without BEGIN and COMMIT. *)
ExecuteAtOnce ==
    /\ run # NoRun
    /\ run.at <= Len(Script[run.file])
    /\ LET s == Script[run.file][run.at]
       IN  /\ s.needs \subseteq run.objects
           /\ s.adds \cap run.objects = {}
           /\ RowsAllow(s)
           /\ run' = Executed(s)
    /\ objects' = run'.objects
    /\ rows' = run'.rows
    /\ UNCHANGED <<decisions, applied>>

Execute ==
    /\ run # NoRun
    /\ run.at <= Len(Script[run.file])
    /\ LET s == Script[run.file][run.at]
       IN  /\ s.needs \subseteq run.objects
           /\ s.adds \cap run.objects = {}
           /\ RowsAllow(s)
           /\ run' = Executed(s)
    /\ UNCHANGED <<objects, rows, decisions, applied>>

Commit ==
    /\ run # NoRun
    /\ run.at > Len(Script[run.file])
    /\ objects' = run.objects
    /\ rows' = run.rows
    /\ applied' = applied \cup {run.file}
    /\ run' = NoRun
    /\ UNCHANGED decisions

(* A statement is refused, the signal context is cancelled, the connection  *)
(* is lost or the process is killed: the transaction is rolled back.        *)
Abort ==
    /\ run # NoRun
    /\ run' = NoRun
    /\ UNCHANGED <<objects, rows, decisions, applied>>

-----------------------------------------------------------------------------
(* The releases. *)

Insert(id, tenant, key) ==
    /\ run = NoRun
    /\ rows[id] = NoPackage
    /\ rows' = [rows EXCEPT ![id] = [tenant |-> tenant, key |-> key, status |-> "received"]]
    /\ UNCHANGED <<objects, decisions, run, applied>>

(* Mutant: the column keeps its default and admits blank values. *)
TenantMayBeLeftOut == "packages" \in objects

(* An INSERT that does not name tenant_id. *)
TenantNotNeeded == "packages" \in objects /\ "tenant_id" \notin objects

(* The release before tenancy: one namespace of keys. *)
LegacyCreate(id, key) ==
    /\ TenantNotNeeded
    /\ \A other \in PackageIDs : rows[other] # NoPackage => rows[other].key # key
    /\ Insert(id, Blank, key)

(* Store.Create *)
Create(id, tenant, key) ==
    /\ {"tenant_unique", "outbox"} \subseteq objects
    /\ \A other \in PackageIDs :
          rows[other] # NoPackage => rows[other].tenant # tenant \/ rows[other].key # key
    /\ Insert(id, tenant, key)

(* Mutant: the status column of the package instead of its history. *)
StatusUndecided(id) == rows[id].status = "received"

(* The EXISTS query of both releases. *)
Undecided(id) == decisions[id] = <<>>

Decide(id, status, release) ==
    /\ run = NoRun
    /\ rows[id] # NoPackage
    /\ Undecided(id)
    /\ "one_terminal" \in objects => decisions[id] = <<>>
    /\ decisions' = [decisions EXCEPT ![id] = Append(@, [status |-> status, release |-> release])]
    /\ UNCHANGED <<objects, run, applied>>

(* The release before tenancy leaves the status to the history. *)
LegacyDecide(id, status) == Decide(id, status, "legacy") /\ UNCHANGED rows

(* Mutant: the decision is not persisted on the package row. *)
StatusUntouched(row, status) == row

Persisted(row, status) == [row EXCEPT !.status = status]

(* Store.RecordValidation: the blanket trigger would refuse its UPDATE. *)
PresentDecide(id, status) ==
    /\ {"narrowed", "outbox"} \subseteq objects
    /\ Decide(id, status, "present")
    /\ rows[id].status = "received"
    /\ rows' = [rows EXCEPT ![id] = Persisted(@, status)]

-----------------------------------------------------------------------------
Migrate == (\E f \in Files : Begin(f)) \/ Execute \/ Commit \/ Abort

Serve ==
    \E id \in PackageIDs :
        \/ \E key \in Keys : LegacyCreate(id, key) \/ \E t \in Tenants : Create(id, t, key)
        \/ \E status \in Terminal : LegacyDecide(id, status) \/ PresentDecide(id, status)

Next == Migrate \/ Serve

Spec == Init /\ [][Next]_vars

-----------------------------------------------------------------------------
(* Properties *)

(* What the files that were applied leave, whatever their order. *)
SchemaOf(files) ==
    (IF 1 \in files THEN {"packages", "history", "trigger"} ELSE {})
    \cup (IF 1 \in files /\ 4 \notin files THEN {"key_unique", "blanket"} ELSE {})
    \cup (IF 2 \in files THEN {"one_terminal"} ELSE {})
    \cup (IF 3 \in files THEN {"outbox", "policy"} ELSE {})
    \cup (IF 4 \in files THEN {"tenant_id", "not_blank", "tenant_unique", "narrowed"} ELSE {})

(* The runner keeps no record, but the files keep each other in order: what *)
(* the database holds is what the applied files add up to, however often,   *)
(* in whatever order and up to whichever statement others were tried.  In   *)
(* particular the packages are never without their trigger, nor the outbox  *)
(* without its policy.                                                      *)
SchemaIsApplied == objects = SchemaOf(applied)

(* At most one terminal decision is recorded on a package, across releases  *)
(* and migrations, also while 0002's index is missing, and also on a        *)
(* package that the release before tenancy decided, whose status still says *)
(* "received" (db/migrations/0004_tenancy.sql leaves it so).                *)
DecidedOnce == \A id \in PackageIDs : Len(decisions[id]) <= 1

(* A package's status lags behind its history only where the release before *)
(* tenancy decided it; what the present release decided, it also tells.     *)
StatusTellsDecision ==
    \A id \in PackageIDs :
        rows[id] # NoPackage =>
            rows[id].status =
                IF \E i \in DOMAIN decisions[id] : decisions[id][i].release = "present"
                THEN decisions[id][Len(decisions[id])].status
                ELSE "received"

(* A key is held once per scope, before and after the scope becomes the     *)
(* tenant, and once it has, no row is left in the blank one: processes of   *)
(* the release before tenancy that are still running can add none.          *)
ScopesHold ==
    /\ Distinct(rows, SameScope)
    /\ 4 \in applied =>
          \A id \in PackageIDs : rows[id] # NoPackage => rows[id].tenant # Blank

(* Although the runner takes one statement after the other, dies anywhere,  *)
(* keeps no record and is told the files in any order, to the releases each *)
(* file takes effect once and whole, 0001 first, only 0004 changes rows,    *)
(* and no package is received or decided under half a schema.               *)
History == INSTANCE SchemaHistory
ImplementsHistory == History!Spec
=============================================================================
