--------------------------- MODULE MigrationsProofs ---------------------------
(* Whatever files are applied, in whatever order, however often and up to   *)
(* whichever statement, and whatever processes of both releases do          *)
(* meanwhile: for any number of packages, tenants and keys.                 *)
EXTENDS Migrations, TLAPS

Terminals == [status : Terminal, release : {"legacy", "present"}]
Tables == [PackageIDs -> Rows \cup {NoPackage}]

AsRun(r) == [file |-> r.file, at |-> r.at, objects |-> r.objects, rows |-> r.rows]

ParkedTable(table) == [id \in PackageIDs |-> Parked(table[id])]

(* What the transaction of a run sees of the rows: it parks them, and does  *)
(* no more to them.                                                         *)
RunKeepsRows ==
    run # NoRun => run = AsRun(run) /\ run.rows \in {rows, ParkedTable(rows)}

DecisionsInv ==
    /\ rows \in Tables
    /\ decisions \in [PackageIDs -> Seq(Terminals)]
    /\ \A id \in PackageIDs : rows[id] = NoPackage => decisions[id] = <<>>
    /\ RunKeepsRows
    /\ DecidedOnce
    /\ StatusTellsDecision

-----------------------------------------------------------------------------
(* Parking gives a row a tenant and nothing else, and once is enough. *)
LEMMA ParkedRow ==
    ASSUME NEW row \in Rows \cup {NoPackage}
    PROVE  /\ Parked(row) \in Rows \cup {NoPackage}
           /\ (Parked(row) = NoPackage) <=> (row = NoPackage)
           /\ row # NoPackage => Parked(row).status = row.status /\ Parked(row).key = row.key
           /\ Parked(Parked(row)) = Parked(row)
BY MigrationsAssumption DEF Parked, Rows

(* So does the backfill of a whole table. *)
LEMMA ParkedTwice ==
    ASSUME NEW table \in Tables
    PROVE  ParkedTable(table) \in Tables /\ ParkedTable(ParkedTable(table)) = ParkedTable(table)
BY ParkedRow DEF Tables, ParkedTable

(* A step of the transaction leaves everything that is committed alone. *)
LEMMA RunStep ==
    ASSUME DecisionsInv, UNCHANGED <<rows, decisions>>, RunKeepsRows'
    PROVE  DecisionsInv'
BY DEF DecisionsInv, DecidedOnce, StatusTellsDecision

(* A statement of a file decides no package, *)
LEMMA ExecuteStep ==
    ASSUME DecisionsInv, Execute PROVE DecisionsInv'
<1>1. PICK s : run' = Executed(s)
  BY DEF Execute
<1>2. run' = AsRun(run')
  BY <1>1 DEF Execute, DecisionsInv, RunKeepsRows, Executed, AsRun
<1>3. run'.rows \in {run.rows, ParkedTable(run.rows)}
  BY <1>1 DEF Execute, DecisionsInv, RunKeepsRows, Executed, AsRun, ParkedTable
<1>4. run.rows \in {rows, ParkedTable(rows)} /\ rows' = rows /\ decisions' = decisions
  BY DEF Execute, DecisionsInv, RunKeepsRows
<1>5. run'.rows \in {rows', ParkedTable(rows')}
  BY <1>3, <1>4, ParkedTwice DEF DecisionsInv
<1> QED
  BY <1>2, <1>4, <1>5, RunStep DEF RunKeepsRows

(* nor does its COMMIT, which at most parks the rows, *)
LEMMA CommitStep ==
    ASSUME DecisionsInv, Commit PROVE DecisionsInv'
<1>1. rows' \in {rows, ParkedTable(rows)} /\ run' = NoRun /\ decisions' = decisions
  BY DEF Commit, DecisionsInv, RunKeepsRows
<1>2. rows' \in Tables
  BY <1>1, ParkedTwice DEF DecisionsInv
<1>3. ASSUME NEW id \in PackageIDs
      PROVE  /\ rows'[id] = NoPackage <=> rows[id] = NoPackage
             /\ rows[id] # NoPackage => rows'[id].status = rows[id].status
  BY <1>1, ParkedRow DEF DecisionsInv, Tables, ParkedTable
<1>4. StatusTellsDecision'
  BY <1>1, <1>3 DEF DecisionsInv, StatusTellsDecision
<1> QED
  BY <1>1, <1>2, <1>3, <1>4 DEF DecisionsInv, RunKeepsRows, DecidedOnce

(* so no step of a file does. *)
LEMMA MigrateStep ==
    ASSUME DecisionsInv, Migrate PROVE DecisionsInv'
<1>1. ASSUME NEW f \in Files, Begin(f) PROVE DecisionsInv'
  <2>1. RunKeepsRows'
    BY <1>1 DEF Begin, RunKeepsRows, AsRun
  <2> QED
    BY <1>1, <2>1, RunStep DEF Begin
<1>2. CASE Abort
  <2>1. RunKeepsRows'
    BY <1>2 DEF Abort, RunKeepsRows
  <2> QED
    BY <1>2, <2>1, RunStep DEF Abort
<1> QED
  BY <1>1, <1>2, ExecuteStep, CommitStep DEF Migrate

-----------------------------------------------------------------------------
(* A package that is created, by either release, has no decision yet. *)
LEMMA InsertStep ==
    ASSUME DecisionsInv, NEW id \in PackageIDs, NEW tenant \in Tenants \cup {Blank},
           NEW key \in Keys, Insert(id, tenant, key)
    PROVE  DecisionsInv'
<1> DEFINE row == [tenant |-> tenant, key |-> key, status |-> "received"]
<1>1. row \in Rows /\ row # NoPackage
  BY MigrationsAssumption DEF Rows
<1>2. rows' = [rows EXCEPT ![id] = row] /\ decisions' = decisions /\ run' = NoRun
  BY DEF Insert
<1>3. decisions[id] = <<>>
  BY DEF Insert, DecisionsInv
<1>4. rows' \in Tables
  BY <1>1, <1>2 DEF DecisionsInv, Tables
<1>5. ASSUME NEW i \in PackageIDs
      PROVE  /\ rows'[i] = NoPackage => decisions'[i] = <<>>
             /\ Len(decisions'[i]) <= 1
  BY <1>1, <1>2, <1>5 DEF DecisionsInv, Tables, DecidedOnce
<1>6. StatusTellsDecision'
  BY <1>1, <1>2, <1>3 DEF DecisionsInv, Tables, StatusTellsDecision
<1> QED
  BY <1>2, <1>4, <1>5, <1>6 DEF DecisionsInv, RunKeepsRows, DecidedOnce

(* Either release refuses to decide a package that has a terminal entry. *)
LEMMA DecideStep ==
    ASSUME DecisionsInv, NEW id \in PackageIDs, NEW status \in Terminal,
           LegacyDecide(id, status) \/ PresentDecide(id, status)
    PROVE  DecisionsInv'
<1>1. PICK release \in {"legacy", "present"} :
          /\ Decide(id, status, release)
          /\ release = "legacy" => rows' = rows
          /\ release = "present" =>
                rows' = [rows EXCEPT ![id] = [rows[id] EXCEPT !.status = status]]
  BY DEF LegacyDecide, PresentDecide, Persisted
<1> DEFINE made == [status |-> status, release |-> release]
<1>2. rows[id] \in Rows /\ decisions[id] = <<>> /\ run' = NoRun
  BY <1>1 DEF Decide, Undecided, DecisionsInv, Tables
<1>3. /\ decisions' = [decisions EXCEPT ![id] = <<made>>]
      /\ made \in Terminals /\ made.status = status /\ made.release = release
  BY <1>1, <1>2 DEF Decide, Terminals
<1> HIDE DEF made
<1>4. rows'[id] \in Rows /\ rows' \in Tables
  <2>1. [rows[id] EXCEPT !.status = status] \in Rows
    BY <1>2 DEF Rows
  <2>2. CASE release = "legacy"
    BY <1>1, <1>2, <2>2 DEF DecisionsInv
  <2>3. CASE release = "present"
    BY <1>1, <1>2, <2>1, <2>3 DEF DecisionsInv, Tables
  <2> QED
    BY <2>2, <2>3
<1>5. rows[id].status = "received"
  BY <1>2, MigrationsAssumption DEF DecisionsInv, StatusTellsDecision
<1>6. \A i \in PackageIDs \ {id} : rows'[i] = rows[i] /\ decisions'[i] = decisions[i]
  BY <1>1, <1>3 DEF DecisionsInv, Tables
<1>7. decisions'[id] = <<made>>
  BY <1>3 DEF DecisionsInv
<1>8. rows'[id].status = IF release = "present" THEN status ELSE "received"
  BY <1>1, <1>2, <1>5 DEF DecisionsInv, Tables, Rows
<1>9. StatusTellsDecision'
  <2> DEFINE Tells(i) ==
        rows'[i] # NoPackage =>
            rows'[i].status =
                IF \E n \in DOMAIN decisions'[i] : decisions'[i][n].release = "present"
                THEN decisions'[i][Len(decisions'[i])].status
                ELSE "received"
  <2>1. ASSUME NEW i \in PackageIDs \ {id} PROVE Tells(i)
    <3>1. rows'[i] = rows[i] /\ decisions'[i] = decisions[i]
      BY <1>6
    <3> QED
      BY <3>1 DEF DecisionsInv, StatusTellsDecision
  <2>2. DOMAIN <<made>> = {1} /\ Len(<<made>>) = 1 /\ <<made>>[1] = made
    OBVIOUS
  <2>3. Tells(id)
    BY <1>3, <1>7, <1>8, <2>2
  <2> QED
    BY <2>1, <2>3 DEF StatusTellsDecision
<1>10. DecidedOnce'
  <2>1. ASSUME NEW i \in PackageIDs PROVE Len(decisions'[i]) <= 1
    <3>1. Len(<<made>>) = 1
      OBVIOUS
    <3>2. CASE i = id
      <4>1. Len(decisions'[i]) = 1
        BY <1>7, <3>1, <3>2, Zenon
      <4> QED
        BY <4>1
    <3>3. CASE i # id
      <4>1. decisions'[i] = decisions[i] /\ Len(decisions[i]) <= 1
        BY <1>6, <3>3 DEF DecisionsInv, DecidedOnce
      <4> QED
        BY <4>1
    <3> QED
      BY <3>2, <3>3
  <2> QED
    BY <2>1 DEF DecidedOnce
<1>11. decisions' \in [PackageIDs -> Seq(Terminals)]
  BY <1>3 DEF DecisionsInv
<1>12. \A i \in PackageIDs : rows'[i] = NoPackage => decisions'[i] = <<>>
  BY <1>4, <1>6, MigrationsAssumption DEF DecisionsInv
<1> QED
  BY <1>2, <1>4, <1>9, <1>10, <1>11, <1>12 DEF DecisionsInv, RunKeepsRows

(* Whatever the processes do, a package is decided once. *)
LEMMA ServeStep ==
    ASSUME DecisionsInv, Serve PROVE DecisionsInv'
<1>1. ASSUME NEW id \in PackageIDs, NEW key \in Keys, LegacyCreate(id, key)
      PROVE  DecisionsInv'
  BY <1>1, InsertStep DEF LegacyCreate
<1>2. ASSUME NEW id \in PackageIDs, NEW key \in Keys, NEW t \in Tenants, Create(id, t, key)
      PROVE  DecisionsInv'
  BY <1>2, InsertStep DEF Create
<1> QED
  BY <1>1, <1>2, DecideStep DEF Serve

(* So decisions and statuses agree throughout. *)
LEMMA DecisionsInvariant == Spec => []DecisionsInv
<1>1. Init => DecisionsInv
  BY MigrationsAssumption
  DEF Init, DecisionsInv, Tables, RunKeepsRows, DecidedOnce, StatusTellsDecision
<1>2. ASSUME DecisionsInv, UNCHANGED vars PROVE DecisionsInv'
  BY <1>2 DEF DecisionsInv, RunKeepsRows, DecidedOnce, StatusTellsDecision, vars
<1>3. DecisionsInv /\ [Next]_vars => DecisionsInv'
  BY <1>2, MigrateStep, ServeStep DEF Next
<1> QED
  BY <1>1, <1>3, PTL DEF Spec

(* At most one terminal decision per package, in every order of migrations  *)
(* and releases, with or without the index of 0002.                         *)
THEOREM OneDecision == Spec => []DecidedOnce
<1>1. DecisionsInv => DecidedOnce
  BY DEF DecisionsInv
<1> QED
  BY <1>1, DecisionsInvariant, PTL

(* The status lags behind the history only where the release before tenancy *)
(* decided.                                                                 *)
THEOREM StatusIsTold == Spec => []StatusTellsDecision
<1>1. DecisionsInv => StatusTellsDecision
  BY DEF DecisionsInv
<1> QED
  BY <1>1, DecisionsInvariant, PTL

-----------------------------------------------------------------------------
(* The schema.  While a file is executed, its transaction sees what is      *)
(* committed and what the statements so far have added and dropped; that    *)
(* they succeeded says something of what is committed.                      *)

When(condition, names) == IF condition THEN names ELSE {}

AddedSoFar ==
    CASE run.file = 1 -> When(run.at > 1, {"packages", "key_unique"}) \cup When(run.at > 2, {"history"})
                         \cup When(run.at > 3, {"blanket"}) \cup When(run.at > 4, {"trigger"})
      [] run.file = 2 -> When(run.at > 1, {"one_terminal"})
      [] run.file = 3 -> When(run.at > 1, {"outbox"}) \cup When(run.at > 2, {"policy"})
      [] run.file = 4 -> When(run.at > 2, {"tenant_id"}) \cup When(run.at > 4, {"not_blank"})
                         \cup When(run.at > 6, {"tenant_unique"}) \cup When(run.at > 7, {"narrowed"})
                         \cup When(run.at > 8, {"trigger"})

DroppedSoFar ==
    IF run.file = 4
    THEN When(1 < run.at /\ run.at <= 8, {"trigger"}) \cup When(run.at > 5, {"key_unique"})
         \cup When(run.at > 7, {"blanket"})
    ELSE {}

RunOK ==
    /\ run = AsRun(run)
    /\ run.file \in Files
    /\ run.at \in 1 .. Len(Script[run.file]) + 1
    /\ run.objects = (objects \ DroppedSoFar) \cup AddedSoFar
    /\ run.rows = IF run.file = 4 /\ run.at > 3 THEN ParkedTable(rows) ELSE rows
    /\ run.file = 1 /\ run.at > 1 => "packages" \notin objects
    /\ run.file = 2 /\ run.at > 1 => "history" \in objects /\ "one_terminal" \notin objects
    /\ run.file = 3 /\ run.at > 1 => "packages" \in objects /\ "outbox" \notin objects
    /\ run.file = 4 /\ run.at > 1 => "trigger" \in objects
    /\ run.file = 4 /\ run.at > 2 => "tenant_id" \notin objects

SameKey(r, s) == r.key = s.key

(* Before 0004 all rows are in the blank tenant and keys are unique; after  *)
(* it no row is, and keys are unique in a tenant.                           *)
Scoped ==
    IF 4 \in applied
    THEN /\ \A id \in PackageIDs : rows[id] # NoPackage => rows[id].tenant # Blank
         /\ Distinct(rows, SameScope)
    ELSE /\ \A id \in PackageIDs : rows[id] # NoPackage => rows[id].tenant = Blank
         /\ Distinct(rows, SameKey)

SchemaInv ==
    /\ applied \subseteq Files
    /\ applied # {} => 1 \in applied
    /\ SchemaIsApplied
    /\ run # NoRun => RunOK
    /\ rows \in Tables
    /\ Scoped

(* How many statements the files have. *)
LEMMA ScriptLengths ==
    /\ Len(Script[1]) = 4 /\ Len(Script[2]) = 1 /\ Len(Script[3]) = 2 /\ Len(Script[4]) = 8
BY DEF Script, Evidence, TerminalInvariant, EvidenceOutbox, Tenancy

(* A statement that succeeds, and what it does to the schema. *)
Changes(needs, drops, adds) ==
    /\ needs \subseteq run.objects
    /\ adds \cap run.objects = {}
    /\ run'.objects = (run.objects \ drops) \cup adds

(* Execute runs the statement the transaction is at. *)
LEMMA Executing ==
    ASSUME RunOK, Execute
    PROVE  /\ run' = AsRun(run')
           /\ run'.file = run.file /\ run'.at = run.at + 1
           /\ run.at <= Len(Script[run.file])
           /\ LET s == Script[run.file][run.at]
              IN  /\ Changes(s.needs, s.drops, s.adds)
                  /\ s = Park => run'.rows = ParkedTable(run.rows)
                  /\ s # Park => run'.rows = run.rows
           /\ UNCHANGED <<objects, rows, decisions, applied>>
<1> DEFINE s == Script[run.file][run.at]
<1>1. /\ run' = Executed(s) /\ run.at <= Len(Script[run.file])
      /\ s.needs \subseteq run.objects /\ s.adds \cap run.objects = {}
      /\ UNCHANGED <<objects, rows, decisions, applied>>
  BY DEF Execute
<1> HIDE DEF s
<1>2. /\ run' = AsRun(run') /\ run'.file = run.file /\ run'.at = run.at + 1
      /\ run'.objects = (run.objects \ s.drops) \cup s.adds
      /\ s = Park => run'.rows = ParkedTable(run.rows)
      /\ s # Park => run'.rows = run.rows
  BY <1>1 DEF RunOK, AsRun, Executed, ParkedTable
<1> QED
  BY <1>1, <1>2 DEF s, Changes

(* The statements of 0001, *)
LEMMA EvidenceStatements ==
    ASSUME NEW n \in {1, 2, 3, 4}
    PROVE  /\ Script[1][n].drops = {} /\ Script[1][n] # Park
           /\ n = 1 => Script[1][n].needs = {} /\ Script[1][n].adds = {"packages", "key_unique"}
           /\ n = 2 => Script[1][n].needs = {"packages"} /\ Script[1][n].adds = {"history"}
           /\ n = 3 => Script[1][n].needs = {} /\ Script[1][n].adds = {"blanket"}
           /\ n = 4 => Script[1][n].needs = {"packages"} /\ Script[1][n].adds = {"trigger"}
BY DEF Script, Evidence, Creates, Park

(* those of 0002 and 0003, *)
LEMMA OtherStatements ==
    /\ Script[2][1] # Park
    /\ Script[2][1].needs = {"history"} /\ Script[2][1].drops = {}
    /\ Script[2][1].adds = {"one_terminal"}
    /\ Script[3][1] # Park /\ Script[3][2] # Park
    /\ Script[3][1].needs = {"packages"} /\ Script[3][1].drops = {}
    /\ Script[3][1].adds = {"outbox"}
    /\ Script[3][2].needs = {"outbox"} /\ Script[3][2].drops = {}
    /\ Script[3][2].adds = {"policy"}
BY DEF Script, TerminalInvariant, EvidenceOutbox, Creates, Park

(* What the n-th statement of 0004 needs, drops and adds. *)
TenancyNeeds ==
    <<{"trigger"}, {"packages"}, {"tenant_id"}, {"tenant_id"}, {"key_unique"}, {"tenant_id"}, {},
      {"packages"}>>
TenancyDrops == <<{"trigger"}, {}, {}, {}, {"key_unique"}, {}, {"blanket"}, {}>>
TenancyAdds ==
    <<{}, {"tenant_id"}, {}, {"not_blank"}, {}, {"tenant_unique"}, {"narrowed"}, {"trigger"}>>

(* and those of 0004. *)
LEMMA TenancyStatements ==
    ASSUME NEW n \in {1, 2, 3, 4, 5, 6, 7, 8}
    PROVE  /\ Script[4][n].needs = TenancyNeeds[n]
           /\ Script[4][n].drops = TenancyDrops[n]
           /\ Script[4][n].adds = TenancyAdds[n]
           /\ Script[4][n] = Park <=> n = 3
<1>1. CASE n = 1
  BY <1>1 DEF Script, Tenancy, Creates, Drops, Narrows, Park, TenancyNeeds, TenancyDrops, TenancyAdds
<1>2. CASE n = 2
  BY <1>2 DEF Script, Tenancy, Creates, Drops, Narrows, Park, TenancyNeeds, TenancyDrops, TenancyAdds
<1>3. CASE n = 3
  BY <1>3 DEF Script, Tenancy, Creates, Drops, Narrows, Park, TenancyNeeds, TenancyDrops, TenancyAdds
<1>4. CASE n = 4
  BY <1>4 DEF Script, Tenancy, Creates, Drops, Narrows, Park, TenancyNeeds, TenancyDrops, TenancyAdds
<1>5. CASE n = 5
  BY <1>5 DEF Script, Tenancy, Creates, Drops, Narrows, Park, TenancyNeeds, TenancyDrops, TenancyAdds
<1>6. CASE n = 6
  BY <1>6 DEF Script, Tenancy, Creates, Drops, Narrows, Park, TenancyNeeds, TenancyDrops, TenancyAdds
<1>7. CASE n = 7
  BY <1>7 DEF Script, Tenancy, Creates, Drops, Narrows, Park, TenancyNeeds, TenancyDrops, TenancyAdds
<1>8. CASE n = 8
  BY <1>8 DEF Script, Tenancy, Creates, Drops, Narrows, Park, TenancyNeeds, TenancyDrops, TenancyAdds
<1> QED
  BY <1>1, <1>2, <1>3, <1>4, <1>5, <1>6, <1>7, <1>8

(* Part-way through 0001 the schema is the committed one and what it added, *)
LEMMA ExecuteEvidence ==
    ASSUME RunOK, Execute, run.file = 1 PROVE RunOK'
<1>1. run.at \in {1, 2, 3, 4}
  BY Executing, ScriptLengths DEF RunOK
<1>2. /\ run' = AsRun(run') /\ run'.file = 1 /\ run'.at = run.at + 1
      /\ run'.rows = rows' /\ objects' = objects
  BY <1>1, Executing, EvidenceStatements DEF RunOK
<1>3. CASE run.at = 1
  <2>1. Changes({}, {}, {"packages", "key_unique"})
    BY <1>1, <1>3, Executing, EvidenceStatements
  <2> QED
    BY <1>2, <1>3, <2>1, ScriptLengths DEF RunOK, Changes, AddedSoFar, DroppedSoFar, When, Files
<1>4. CASE run.at = 2
  <2>1. Changes({"packages"}, {}, {"history"})
    BY <1>1, <1>4, Executing, EvidenceStatements
  <2> QED
    BY <1>2, <1>4, <2>1, ScriptLengths DEF RunOK, Changes, AddedSoFar, DroppedSoFar, When, Files
<1>5. CASE run.at = 3
  <2>1. Changes({}, {}, {"blanket"})
    BY <1>1, <1>5, Executing, EvidenceStatements
  <2> QED
    BY <1>2, <1>5, <2>1, ScriptLengths DEF RunOK, Changes, AddedSoFar, DroppedSoFar, When, Files
<1>6. CASE run.at = 4
  <2>1. Changes({"packages"}, {}, {"trigger"})
    BY <1>1, <1>6, Executing, EvidenceStatements
  <2> QED
    BY <1>2, <1>6, <2>1, ScriptLengths DEF RunOK, Changes, AddedSoFar, DroppedSoFar, When, Files
<1> QED
  BY <1>1, <1>3, <1>4, <1>5, <1>6

(* as it is through 0002 and 0003, *)
LEMMA ExecuteOther ==
    ASSUME RunOK, Execute, run.file \in {2, 3} PROVE RunOK'
<1>1. run.at \in 1 .. Len(Script[run.file])
  BY Executing DEF RunOK
<1>2. CASE run.file = 2
  <2>1. run.at = 1
    BY <1>1, <1>2, ScriptLengths
  <2>2. /\ run' = AsRun(run') /\ run'.file = 2 /\ run'.at = 2
        /\ run'.rows = rows' /\ objects' = objects
        /\ Changes({"history"}, {}, {"one_terminal"})
    BY <1>2, <2>1, Executing, OtherStatements DEF RunOK
  <2> QED
    BY <1>2, <2>1, <2>2, ScriptLengths DEF RunOK, Changes, AddedSoFar, DroppedSoFar, When, Files
<1>3. CASE run.file = 3 /\ run.at = 1
  <2>1. /\ run' = AsRun(run') /\ run'.file = 3 /\ run'.at = 2
        /\ run'.rows = rows' /\ objects' = objects
        /\ Changes({"packages"}, {}, {"outbox"})
    BY <1>3, Executing, OtherStatements DEF RunOK
  <2> QED
    BY <1>3, <2>1, ScriptLengths DEF RunOK, Changes, AddedSoFar, DroppedSoFar, When, Files
<1>4. CASE run.file = 3 /\ run.at = 2
  <2>1. /\ run' = AsRun(run') /\ run'.file = 3 /\ run'.at = 3
        /\ run'.rows = rows' /\ objects' = objects
        /\ Changes({"outbox"}, {}, {"policy"})
    BY <1>4, Executing, OtherStatements DEF RunOK
  <2> QED
    BY <1>4, <2>1, ScriptLengths DEF RunOK, Changes, AddedSoFar, DroppedSoFar, When, Files
<1>5. ASSUME run.file = 3 PROVE run.at \in {1, 2}
  BY <1>5, Executing, ScriptLengths DEF RunOK
<1> QED
  BY <1>2, <1>3, <1>4, <1>5

(* and through 0004, which also drops and backfills. *)
LEMMA ExecuteTenancy ==
    ASSUME RunOK, Execute, run.file = 4, rows \in Tables PROVE RunOK'
<1>1. run.at \in {1, 2, 3, 4, 5, 6, 7, 8}
  BY Executing, ScriptLengths DEF RunOK
<1>2. /\ run' = AsRun(run') /\ run'.file = 4 /\ run'.at = run.at + 1
      /\ objects' = objects /\ rows' = rows
      /\ Changes(TenancyNeeds[run.at], TenancyDrops[run.at], TenancyAdds[run.at])
      /\ run'.rows = IF run.at = 3 THEN ParkedTable(run.rows) ELSE run.rows
  BY <1>1, Executing, TenancyStatements DEF RunOK
<1>3. run'.rows = IF run'.file = 4 /\ run'.at > 3 THEN ParkedTable(rows') ELSE rows'
  BY <1>1, <1>2 DEF RunOK
<1>4. run'.at \in 1 .. Len(Script[run'.file]) + 1 /\ run'.file \in Files
  BY <1>1, <1>2, ScriptLengths DEF Files
<1> DEFINE Effect ==
        /\ run'.objects = (objects' \ DroppedSoFar') \cup AddedSoFar'
        /\ "trigger" \in objects'
        /\ run'.at > 2 => "tenant_id" \notin objects'
<1>5. ASSUME run.at = 1 PROVE Effect
  <2>1. Changes({"trigger"}, {"trigger"}, {})
    BY <1>2, <1>5 DEF TenancyNeeds, TenancyDrops, TenancyAdds
  <2> QED
    BY <1>2, <1>5, <2>1 DEF RunOK, Changes, AddedSoFar, DroppedSoFar, When
<1>6. ASSUME run.at = 2 PROVE Effect
  <2>1. Changes({"packages"}, {}, {"tenant_id"})
    BY <1>2, <1>6 DEF TenancyNeeds, TenancyDrops, TenancyAdds
  <2> QED
    BY <1>2, <1>6, <2>1 DEF RunOK, Changes, AddedSoFar, DroppedSoFar, When
<1>7. ASSUME run.at = 3 PROVE Effect
  <2>1. Changes({"tenant_id"}, {}, {})
    BY <1>2, <1>7 DEF TenancyNeeds, TenancyDrops, TenancyAdds
  <2> QED
    BY <1>2, <1>7, <2>1 DEF RunOK, Changes, AddedSoFar, DroppedSoFar, When
<1>8. ASSUME run.at = 4 PROVE Effect
  <2>1. Changes({"tenant_id"}, {}, {"not_blank"})
    BY <1>2, <1>8 DEF TenancyNeeds, TenancyDrops, TenancyAdds
  <2> QED
    BY <1>2, <1>8, <2>1 DEF RunOK, Changes, AddedSoFar, DroppedSoFar, When
<1>9. ASSUME run.at = 5 PROVE Effect
  <2>1. Changes({"key_unique"}, {"key_unique"}, {})
    BY <1>2, <1>9 DEF TenancyNeeds, TenancyDrops, TenancyAdds
  <2> QED
    BY <1>2, <1>9, <2>1 DEF RunOK, Changes, AddedSoFar, DroppedSoFar, When
<1>10. ASSUME run.at = 6 PROVE Effect
  <2>1. Changes({"tenant_id"}, {}, {"tenant_unique"})
    BY <1>2, <1>10 DEF TenancyNeeds, TenancyDrops, TenancyAdds
  <2> QED
    BY <1>2, <1>10, <2>1 DEF RunOK, Changes, AddedSoFar, DroppedSoFar, When
<1>11. ASSUME run.at = 7 PROVE Effect
  <2>1. Changes({}, {"blanket"}, {"narrowed"})
    BY <1>2, <1>11 DEF TenancyNeeds, TenancyDrops, TenancyAdds
  <2> QED
    BY <1>2, <1>11, <2>1 DEF RunOK, Changes, AddedSoFar, DroppedSoFar, When
<1>12. ASSUME run.at = 8 PROVE Effect
  <2>1. Changes({"packages"}, {}, {"trigger"})
    BY <1>2, <1>12 DEF TenancyNeeds, TenancyDrops, TenancyAdds
  <2> QED
    BY <1>2, <1>12, <2>1 DEF RunOK, Changes, AddedSoFar, DroppedSoFar, When
<1>13. Effect
  BY <1>1, <1>5, <1>6, <1>7, <1>8, <1>9, <1>10, <1>11, <1>12
<1> QED
  BY <1>2, <1>3, <1>4, <1>13 DEF RunOK

(* A statement changes nothing that is committed. *)
LEMMA ExecuteKeepsSchema ==
    ASSUME SchemaInv, Execute PROVE SchemaInv'
<1>1. RunOK'
  <2>1. RunOK /\ rows \in Tables
    BY DEF SchemaInv, Execute
  <2>2. run.file \in {1, 2, 3, 4}
    BY <2>1 DEF RunOK, Files
  <2> QED
    BY <2>1, <2>2, ExecuteEvidence, ExecuteOther, ExecuteTenancy
<1>2. UNCHANGED <<objects, rows, applied>>
  BY DEF Execute
<1> QED
  BY <1>1, <1>2 DEF SchemaInv, SchemaIsApplied, Scoped, Distinct

-----------------------------------------------------------------------------
(* What a committed file makes of the schema and of the rows. *)
LEMMA CommittedSchema ==
    ASSUME SchemaInv, Commit
    PROVE  SchemaIsApplied' /\ applied' \subseteq Files /\ 1 \in applied'
<1>1. RunOK /\ objects = SchemaOf(applied) /\ objects' = run.objects
      /\ applied' = applied \cup {run.file} /\ run.at = Len(Script[run.file]) + 1
  BY ScriptLengths DEF Commit, SchemaInv, SchemaIsApplied, RunOK, Files
<1>2. CASE run.file = 1
  <2>1. 1 \notin applied /\ applied = {}
    BY <1>1, <1>2, ScriptLengths DEF RunOK, SchemaOf, SchemaInv
  <2>2. objects' = {"packages", "key_unique", "history", "blanket", "trigger"}
    BY <1>1, <1>2, <2>1, ScriptLengths DEF RunOK, SchemaOf, AddedSoFar, DroppedSoFar, When
  <2> QED
    BY <1>1, <1>2, <2>1, <2>2 DEF SchemaIsApplied, SchemaOf, Files
<1>3. CASE run.file = 2
  <2>1. 1 \in applied /\ objects' = objects \cup {"one_terminal"}
    BY <1>1, <1>3, ScriptLengths DEF RunOK, SchemaOf, AddedSoFar, DroppedSoFar, When, SchemaInv
  <2> QED
    BY <1>1, <1>3, <2>1 DEF SchemaIsApplied, SchemaOf, SchemaInv, Files
<1>4. CASE run.file = 3
  <2>1. 1 \in applied /\ objects' = objects \cup {"outbox", "policy"}
    BY <1>1, <1>4, ScriptLengths DEF RunOK, SchemaOf, AddedSoFar, DroppedSoFar, When, SchemaInv
  <2> QED
    BY <1>1, <1>4, <2>1 DEF SchemaIsApplied, SchemaOf, SchemaInv, Files
<1>5. CASE run.file = 4
  <2>1. 1 \in applied /\ 4 \notin applied
    BY <1>1, <1>5, ScriptLengths DEF RunOK, SchemaOf, SchemaInv
  <2>2. objects' = (objects \ {"key_unique", "blanket"})
                      \cup {"tenant_id", "not_blank", "tenant_unique", "narrowed", "trigger"}
    BY <1>1, <1>5, ScriptLengths DEF RunOK, AddedSoFar, DroppedSoFar, When
  <2> QED
    BY <1>1, <1>5, <2>1, <2>2 DEF SchemaIsApplied, SchemaOf, SchemaInv, Files
<1> QED
  BY <1>1, <1>2, <1>3, <1>4, <1>5 DEF RunOK, Files

(* The rows a file commits have their keys and tenants scoped. *)
LEMMA CommittedRows ==
    ASSUME SchemaInv, Commit
    PROVE  rows' \in Tables /\ Scoped'
<1>1. RunOK /\ rows' = run.rows /\ applied' = applied \cup {run.file}
      /\ run.at = Len(Script[run.file]) + 1
  BY ScriptLengths DEF Commit, SchemaInv, RunOK, Files
<1>2. CASE run.file # 4
  BY <1>1, <1>2 DEF RunOK, SchemaInv, Scoped, Distinct
<1>3. CASE run.file = 4
  <2>1. rows' = ParkedTable(rows)
    BY <1>1, <1>3, ScriptLengths DEF RunOK
  <2>2. 4 \notin applied
    BY <1>1, <1>3, ScriptLengths DEF RunOK, SchemaInv, SchemaIsApplied, SchemaOf
  <2>3. ASSUME NEW id \in PackageIDs, rows'[id] # NoPackage
        PROVE  /\ rows[id] # NoPackage
               /\ rows'[id].tenant # Blank
               /\ rows'[id].key = rows[id].key
    <3>1. rows'[id] = Parked(rows[id]) /\ rows[id] \in Rows \cup {NoPackage}
      BY <2>1 DEF ParkedTable, SchemaInv, Tables
    <3>2. rows[id] # NoPackage
      BY <2>3, <3>1, ParkedRow
    <3>3. rows[id] \in Rows /\ rows[id].tenant = Blank
      BY <2>2, <3>1, <3>2 DEF SchemaInv, Scoped
    <3> QED
      BY <3>1, <3>2, <3>3, MigrationsAssumption DEF Parked, Rows
  <2>4. Distinct(rows', SameScope)
    BY <2>2, <2>3 DEF Distinct, SameScope, SameKey, SchemaInv, Scoped
  <2>5. rows' \in Tables
    BY <2>1, ParkedTwice DEF SchemaInv
  <2> QED
    BY <1>1, <1>3, <2>3, <2>4, <2>5 DEF Scoped
<1> QED
  BY <1>2, <1>3

(* Whole files only: what is committed is what the committed files add up to. *)
LEMMA MigrateKeepsSchema ==
    ASSUME SchemaInv, Migrate PROVE SchemaInv'
<1>1. ASSUME NEW f \in Files, Begin(f) PROVE SchemaInv'
  <2>1. run' = [file |-> f, at |-> 1, objects |-> objects, rows |-> rows]
        /\ UNCHANGED <<objects, rows, applied>>
    BY <1>1 DEF Begin
  <2>2. AddedSoFar' = {} /\ DroppedSoFar' = {}
    BY <2>1 DEF AddedSoFar, DroppedSoFar, When, Files
  <2>3. 1 \in 1 .. Len(Script[f]) + 1
    BY ScriptLengths DEF Files
  <2>4. RunOK'
    BY <2>1, <2>2, <2>3 DEF RunOK, AsRun
  <2> QED
    BY <2>1, <2>4 DEF SchemaInv, SchemaIsApplied, Scoped, Distinct
<1>2. CASE Commit
  <2>1. run' = NoRun
    BY <1>2 DEF Commit
  <2> QED
    BY <1>2, <2>1, CommittedSchema, CommittedRows DEF SchemaInv
<1>3. CASE Abort
  BY <1>3 DEF Abort, SchemaInv, SchemaIsApplied, Scoped, Distinct
<1> QED
  BY <1>1, <1>2, <1>3, ExecuteKeepsSchema DEF Migrate

-----------------------------------------------------------------------------
(* A release finds out from the schema whether 0004 has been applied. *)
LEMMA Inserted ==
    ASSUME SchemaInv, NEW id \in PackageIDs, NEW tenant \in Tenants \cup {Blank},
           NEW key \in Keys, Insert(id, tenant, key)
    PROVE  /\ rows' \in Tables
           /\ rows'[id].tenant = tenant /\ rows'[id].key = key
           /\ \A i \in PackageIDs \ {id} : rows'[i] = rows[i]
           /\ rows'[id] # NoPackage
           /\ UNCHANGED <<objects, applied>> /\ run' = NoRun
<1> DEFINE row == [tenant |-> tenant, key |-> key, status |-> "received"]
<1>1. row \in Rows /\ row # NoPackage
  BY MigrationsAssumption DEF Rows
<1> QED
  BY <1>1 DEF Insert, SchemaInv, Tables

(* A creation before 0004 keeps keys apart over all rows, *)
LEMMA LegacyCreateKeepsSchema ==
    ASSUME SchemaInv, NEW id \in PackageIDs, NEW key \in Keys, LegacyCreate(id, key)
    PROVE  SchemaInv'
<1>1. Insert(id, Blank, key) /\ 4 \notin applied
      /\ \A i \in PackageIDs : rows[i] # NoPackage => rows[i].key # key
  BY DEF LegacyCreate, TenantNotNeeded, SchemaInv, SchemaIsApplied, SchemaOf
<1>2. /\ rows' \in Tables
      /\ rows'[id].tenant = Blank /\ rows'[id].key = key
      /\ \A i \in PackageIDs \ {id} : rows'[i] = rows[i]
      /\ UNCHANGED <<objects, applied>> /\ run' = NoRun
  BY <1>1, Inserted
<1>3. Scoped'
  BY <1>1, <1>2 DEF SchemaInv, Scoped, Distinct, SameKey
<1> QED
  BY <1>2, <1>3 DEF SchemaInv, SchemaIsApplied

(* one after it within a tenant, *)
LEMMA CreateKeepsSchema ==
    ASSUME SchemaInv, NEW id \in PackageIDs, NEW t \in Tenants, NEW key \in Keys,
           Create(id, t, key)
    PROVE  SchemaInv'
<1>1. Insert(id, t, key) /\ 4 \in applied
      /\ \A i \in PackageIDs :
            rows[i] # NoPackage => rows[i].tenant # t \/ rows[i].key # key
  BY DEF Create, SchemaInv, SchemaIsApplied, SchemaOf
<1>2. /\ rows' \in Tables
      /\ rows'[id].tenant = t /\ rows'[id].key = key
      /\ \A i \in PackageIDs \ {id} : rows'[i] = rows[i]
      /\ UNCHANGED <<objects, applied>> /\ run' = NoRun
  BY <1>1, Inserted
<1>3. t # Blank
  BY MigrationsAssumption
<1>4. Scoped'
  BY <1>1, <1>2, <1>3 DEF SchemaInv, Scoped, Distinct, SameScope
<1> QED
  BY <1>2, <1>4 DEF SchemaInv, SchemaIsApplied

(* and a decision touches neither. *)
LEMMA DecideKeepsSchema ==
    ASSUME SchemaInv, NEW id \in PackageIDs, NEW status \in Terminal,
           LegacyDecide(id, status) \/ PresentDecide(id, status)
    PROVE  SchemaInv'
<1>1. /\ rows[id] # NoPackage /\ run' = run /\ run = NoRun
      /\ UNCHANGED <<objects, applied>>
      /\ rows' = rows \/ rows' = [rows EXCEPT ![id] = [rows[id] EXCEPT !.status = status]]
  BY DEF LegacyDecide, PresentDecide, Decide, Persisted
<1>2. [rows[id] EXCEPT !.status = status] \in Rows
  BY <1>1 DEF SchemaInv, Tables, Rows
<1>3. ASSUME NEW i \in PackageIDs
      PROVE  /\ rows'[i] \in Rows \cup {NoPackage}
             /\ rows'[i] # NoPackage =>
                   /\ rows[i] # NoPackage
                   /\ rows'[i].tenant = rows[i].tenant
                   /\ rows'[i].key = rows[i].key
  BY <1>1, <1>2 DEF SchemaInv, Tables, Rows
<1>4. rows' \in Tables
  BY <1>1, <1>2 DEF SchemaInv, Tables
<1>5. Scoped'
  BY <1>1, <1>3 DEF SchemaInv, Scoped, Distinct, SameKey, SameScope
<1> QED
  BY <1>1, <1>4, <1>5 DEF SchemaInv, SchemaIsApplied

(* So the schema is told by the files throughout. *)
LEMMA SchemaInvariant == Spec => []SchemaInv
<1>1. Init => SchemaInv
  BY MigrationsAssumption
  DEF Init, SchemaInv, SchemaIsApplied, SchemaOf, Tables, Scoped, Distinct
<1>2. ASSUME SchemaInv, Serve PROVE SchemaInv'
  BY <1>2, LegacyCreateKeepsSchema, CreateKeepsSchema, DecideKeepsSchema DEF Serve
<1>3. ASSUME SchemaInv, UNCHANGED vars PROVE SchemaInv'
  <2>1. SchemaIsApplied' /\ Scoped'
    BY <1>3 DEF SchemaInv, SchemaIsApplied, Scoped, Distinct, vars
  <2>2. run' # NoRun => RunOK'
    BY <1>3 DEF SchemaInv, RunOK, AddedSoFar, DroppedSoFar, vars
  <2> QED
    BY <1>3, <2>1, <2>2 DEF SchemaInv, vars
<1>4. SchemaInv /\ [Next]_vars => SchemaInv'
  BY <1>2, <1>3, MigrateKeepsSchema DEF Next
<1> QED
  BY <1>1, <1>4, PTL DEF Spec

(* The database always holds what the committed files add up to. *)
THEOREM SchemaIsWhatWasApplied == Spec => []SchemaIsApplied
<1>1. SchemaInv => SchemaIsApplied
  BY DEF SchemaInv
<1> QED
  BY <1>1, SchemaInvariant, PTL

(* A key is held once per scope, and no row is left in the blank one after  *)
(* 0004, whatever processes of the release before tenancy go on doing.      *)
THEOREM ScopesAlwaysHold == Spec => []ScopesHold
<1>1. SchemaInv => ScopesHold
  BY DEF SchemaInv, Scoped, ScopesHold, Distinct, SameScope, SameKey
<1> QED
  BY <1>1, SchemaInvariant, PTL

-----------------------------------------------------------------------------
(* The files as a history: each takes effect once, and whole. *)

(* What a file finds in the database tells it which files were there before. *)
LEMMA AppliedNames ==
    ASSUME NEW files
    PROVE  /\ "packages" \in SchemaOf(files) <=> 1 \in files
           /\ "history" \in SchemaOf(files) <=> 1 \in files
           /\ "trigger" \in SchemaOf(files) <=> 1 \in files
           /\ "one_terminal" \in SchemaOf(files) <=> 2 \in files
           /\ "outbox" \in SchemaOf(files) <=> 3 \in files
           /\ "tenant_id" \in SchemaOf(files) <=> 4 \in files
  BY DEF SchemaOf

(* A file that reaches its COMMIT had not been applied, and found 0001 there. *)
LEMMA CommitApplies ==
    ASSUME SchemaInv, Commit
    PROVE  run.file \in Files /\ History!Apply(run.file)
<1>1. RunOK /\ objects = SchemaOf(applied) /\ rows' = run.rows /\ decisions' = decisions
      /\ applied' = applied \cup {run.file} /\ run.at = Len(Script[run.file]) + 1
  BY ScriptLengths DEF Commit, SchemaInv, SchemaIsApplied, RunOK, Files
<1>2. run.file \in Files /\ run.file \in {1, 2, 3, 4}
  BY <1>1 DEF RunOK, Files
<1>3. run.file \notin applied /\ (run.file # 1 => 1 \in applied)
  <2>1. ASSUME run.file = 1 PROVE "packages" \notin objects
    BY <1>1, <2>1, ScriptLengths DEF RunOK
  <2>2. ASSUME run.file = 2 PROVE "history" \in objects /\ "one_terminal" \notin objects
    BY <1>1, <2>2, ScriptLengths DEF RunOK
  <2>3. ASSUME run.file = 3 PROVE "packages" \in objects /\ "outbox" \notin objects
    BY <1>1, <2>3, ScriptLengths DEF RunOK
  <2>4. ASSUME run.file = 4 PROVE "trigger" \in objects /\ "tenant_id" \notin objects
    BY <1>1, <2>4, ScriptLengths DEF RunOK
  <2> QED
    BY <1>1, <1>2, <2>1, <2>2, <2>3, <2>4, AppliedNames
<1>4. CASE run.file # 4
  BY <1>1, <1>2, <1>3, <1>4 DEF RunOK, History!Apply
<1>5. CASE run.file = 4
  <2>1. rows' = ParkedTable(rows)
    BY <1>1, <1>5, ScriptLengths DEF RunOK
  <2>2. ASSUME NEW id \in PackageIDs
        PROVE  Parked(rows[id]) = IF rows[id] = NoPackage THEN NoPackage
                                  ELSE [rows[id] EXCEPT !.tenant = Legacy]
    BY <1>3, <1>5 DEF SchemaInv, Scoped, Parked
  <2>3. rows' = [id \in PackageIDs |-> IF rows[id] = NoPackage THEN NoPackage
                                       ELSE [rows[id] EXCEPT !.tenant = Legacy]]
    BY <2>1, <2>2 DEF ParkedTable
  <2> QED
    BY <1>1, <1>2, <1>3, <1>5, <2>3 DEF History!Apply
<1> QED
  BY <1>2, <1>4, <1>5 DEF Files

(* Either release receives a package in the scope of its time. *)
LEMMA CreateReceives ==
    ASSUME SchemaInv, NEW id \in PackageIDs, NEW key \in Keys
    PROVE  /\ LegacyCreate(id, key) => History!Receive(id, Blank, key)
           /\ \A t \in Tenants : Create(id, t, key) => History!Receive(id, t, key)
<1>1. ASSUME LegacyCreate(id, key) PROVE History!Receive(id, Blank, key)
  <2>1. 4 \notin applied /\ 1 \in applied
    BY <1>1 DEF LegacyCreate, TenantNotNeeded, SchemaInv, SchemaIsApplied, SchemaOf
  <2> QED
    BY <1>1, <2>1 DEF LegacyCreate, Insert, History!Receive, History!Tenancy
<1>2. ASSUME NEW t \in Tenants, Create(id, t, key) PROVE History!Receive(id, t, key)
  <2>1. {1, 3, 4} \subseteq applied /\ t # Blank
    BY <1>2, MigrationsAssumption DEF Create, SchemaInv, SchemaIsApplied, SchemaOf
  <2> QED
    BY <1>2, <2>1 DEF Create, Insert, History!Receive, History!Tenancy
<1> QED
  BY <1>1, <1>2

(* Either release decides a package nobody has decided, which still says so. *)
LEMMA DecisionDecides ==
    ASSUME SchemaInv, DecisionsInv, NEW id \in PackageIDs, NEW status \in Terminal
    PROVE  /\ LegacyDecide(id, status) => History!Decide(id, status, "legacy")
           /\ PresentDecide(id, status) => History!Decide(id, status, "present")
<1>1. ASSUME NEW release, Decide(id, status, release)
      PROVE  /\ rows[id] # NoPackage /\ rows[id].status = "received"
             /\ decisions[id] = <<>> /\ UNCHANGED applied
             /\ decisions' = [decisions EXCEPT ![id] = <<[status |-> status, release |-> release]>>]
  <2>1. rows[id] # NoPackage /\ decisions[id] = <<>> /\ UNCHANGED applied
    BY <1>1 DEF Decide, Undecided
  <2>2. rows[id].status = "received"
    BY <2>1 DEF DecisionsInv, StatusTellsDecision
  <2>3. Append(<<>>, [status |-> status, release |-> release])
           = <<[status |-> status, release |-> release]>>
    OBVIOUS
  <2> QED
    BY <1>1, <2>1, <2>2, <2>3 DEF Decide
<1>2. ASSUME PresentDecide(id, status) PROVE {3, 4} \subseteq applied
  BY <1>2 DEF PresentDecide, SchemaInv, SchemaIsApplied, SchemaOf
<1> QED
  BY <1>1, <1>2 DEF LegacyDecide, PresentDecide, Persisted, History!Decide

(* Every step is one of the history, or changes nothing in it. *)
LEMMA HistoryStep ==
    SchemaInv /\ DecisionsInv /\ [Next]_vars => [History!Next]_(History!historyVars)
<1> SUFFICES ASSUME SchemaInv, DecisionsInv, [Next]_vars
             PROVE  [History!Next]_(History!historyVars)
  OBVIOUS
<1>1. CASE Commit
  BY <1>1, CommitApplies DEF History!Next
<1>2. CASE (\E f \in Files : Begin(f)) \/ Execute \/ Abort \/ UNCHANGED vars
  BY <1>2 DEF Begin, Execute, Abort, vars, History!historyVars
<1>3. ASSUME NEW id \in PackageIDs, NEW key \in Keys,
             LegacyCreate(id, key) \/ \E t \in Tenants : Create(id, t, key)
      PROVE  History!Next
  BY <1>3, CreateReceives DEF History!Next
<1>4. ASSUME NEW id \in PackageIDs, NEW status \in Terminal,
             LegacyDecide(id, status) \/ PresentDecide(id, status)
      PROVE  History!Next
  BY <1>4, DecisionDecides DEF History!Next
<1> QED
  BY <1>1, <1>2, <1>3, <1>4 DEF Next, Migrate, Serve

(* A runner that takes one statement after the other, dies anywhere and      *)
(* keeps no record gives the releases, whatever files it is told in whatever *)
(* order, a schema that changes by whole files, each once and 0001 first.    *)
THEOREM FilesAreAHistory == Spec => ImplementsHistory
<1>1. Init => History!Init
  BY DEF Init, History!Init
<1> QED
  BY <1>1, HistoryStep, SchemaInvariant, DecisionsInvariant, PTL
  DEF Spec, ImplementsHistory, History!Spec
=============================================================================
