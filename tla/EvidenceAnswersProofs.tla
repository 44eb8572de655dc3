------------------------ MODULE EvidenceAnswersProofs ------------------------
(***************************************************************************)
(* Proofs, for every value of the constants, of what EvidenceStore's       *)
(* callers may rely on: that rows are never changed, and that what a call  *)
(* was told was true and stays true.                                       *)
(***************************************************************************)
EXTENDS EvidenceStoreProofs

LOCAL INSTANCE SequencesExt

-----------------------------------------------------------------------------
(* How the tables grow. *)

(* A package only ever goes from "received" to a decision. *)
Grows(id) ==
    packages[id] # NoPackage =>
        \/ packages'[id] = packages[id]
        \/ \E status \in Terminal :
              /\ packages[id].status = "received"
              /\ packages'[id] = Decided(packages[id], status)

(* What a sequence is a prefix of. *)
LEMMA PrefixOfItself == ASSUME NEW S, NEW s \in Seq(S) PROVE IsPrefix(s, s)
  BY DEF IsPrefix

(* Nothing is a prefix of everything. *)
LEMMA EmptyPrefix == ASSUME NEW S, NEW s \in Seq(S) PROVE IsPrefix(<<>>, s)
  BY DEF IsPrefix

(* One row, then another. *)
LEMMA PrefixOfPair == ASSUME NEW S, NEW a \in S, NEW b \in S PROVE IsPrefix(<<a>>, <<a, b>>)
  BY DEF IsPrefix

(* An entry of the ledger extends the story of its package. *)
LEMMA EnterExtends ==
    ASSUME IInv, NEW id \in PackageIDs, NEW row \in Rows, Ledger!Enter(id, row),
           \/ packages[id] = NoPackage
           \/ \E status \in Terminal :
                 packages[id].status = "received" /\ row = Decided(packages[id], status)
    PROVE  IsPrefix(history[id], Custody(row)) /\ IsPrefix(outbox[id], Announced(row))
<1>1. history[id] = Custody(packages[id]) /\ outbox[id] = Announced(packages[id])
  BY DEF IInv, TablesAgree
<1>2. Custody(row) \in Seq(Entries) /\ Announced(row) \in Seq(Events)
  BY StoryType
<1>3. CASE packages[id] = NoPackage
  <2>1. history[id] = <<>> /\ outbox[id] = <<>>
    BY <1>1, <1>3 DEF Custody, Announced
  <2> QED
    BY <1>2, <2>1, EmptyPrefix
<1>4. CASE packages[id] # NoPackage
  <2>1. packages[id] \in Rows
    BY <1>4 DEF IInv, TypeOK
  <2>2. PICK status \in Terminal :
           packages[id].status = "received" /\ row = Decided(packages[id], status)
    BY <1>4
  <2> DEFINE entry == Decision("received", status)
  <2>3. /\ Received \in Entries /\ entry \in Entries
        /\ PackageEvent(packages[id]) \in Events /\ ValidationEvent(entry) \in Events
    BY <2>1, <2>2 DEF Received, Decision, Entries, Statuses, PackageEvent, ValidationEvent, Events, Rows
  <2>4. history[id] = <<Received>> /\ Custody(row) = <<Received, entry>>
    BY <1>1, <2>1, <2>2, Story
  <2>5. IsPrefix(history[id], Custody(row))
    BY <2>3, <2>4, PrefixOfPair
  <2>6. CASE EventsWired
    <3>1. /\ outbox[id] = <<PackageEvent(packages[id])>>
          /\ Announced(row) = <<PackageEvent(packages[id]), ValidationEvent(entry)>>
      BY <1>1, <2>1, <2>2, <2>6, Story
    <3> QED
      BY <2>3, <2>5, <3>1, PrefixOfPair
  <2>7. CASE ~EventsWired
    <3>1. outbox[id] = <<>>
      BY <1>1, <2>7 DEF Announced
    <3> QED
      BY <1>2, <2>5, <3>1, EmptyPrefix
  <2> QED
    BY <2>6, <2>7
<1> QED
  BY <1>3, <1>4

(* What a step does to the tables, whoever takes it. *)
LEMMA TablesGrow ==
    ASSUME IInv, [Next]_vars, NEW id \in PackageIDs
    PROVE  /\ Grows(id)
           /\ IsPrefix(history[id], history'[id])
           /\ IsPrefix(outbox[id], outbox'[id])
<1>1. /\ history[id] \in Seq(Entries) /\ outbox[id] \in Seq(Events)
      /\ packages \in [PackageIDs -> Rows \cup {NoPackage}]
      /\ history \in [PackageIDs -> Seq(Entries)] /\ outbox \in [PackageIDs -> Seq(Events)]
  BY DEF IInv, TypeOK
<1>2. ASSUME packages'[id] = packages[id], history'[id] = history[id], outbox'[id] = outbox[id]
      PROVE  /\ Grows(id)
             /\ IsPrefix(history[id], history'[id])
             /\ IsPrefix(outbox[id], outbox'[id])
  BY <1>1, <1>2, PrefixOfItself DEF Grows
<1>3. ASSUME NEW other \in PackageIDs, NEW row \in Rows, Ledger!Enter(other, row),
             \/ packages[other] = NoPackage
             \/ \E status \in Terminal :
                   packages[other].status = "received" /\ row = Decided(packages[other], status)
      PROVE  /\ Grows(id)
             /\ IsPrefix(history[id], history'[id])
             /\ IsPrefix(outbox[id], outbox'[id])
  <2>1. /\ packages' = [packages EXCEPT ![other] = row]
        /\ history' = [history EXCEPT ![other] = Custody(row)]
        /\ outbox' = [outbox EXCEPT ![other] = Announced(row)]
    BY <1>3, SameData DEF Ledger!Enter
  <2>2. CASE other # id
    BY <1>1, <1>2, <2>1, <2>2
  <2>3. CASE other = id
    <3>1. Grows(id)
      BY <1>1, <1>3, <2>1, <2>3 DEF Grows
    <3>2. IsPrefix(history[id], Custody(row)) /\ IsPrefix(outbox[id], Announced(row))
      BY <1>3, <2>3, EnterExtends
    <3> QED
      BY <1>1, <2>1, <2>3, <3>1, <3>2
  <2> QED
    BY <2>2, <2>3
<1>4. CASE \E other \in PackageIDs, r \in CreateRequests : Ledger!Receive(other, r)
  <2> PICK other \in PackageIDs, r \in CreateRequests : Ledger!Receive(other, r)
    BY <1>4
  <2>1. StoredRow(r) \in Rows /\ packages[other] = NoPackage /\ Ledger!Enter(other, StoredRow(r))
    BY RowFacts, SameData DEF Ledger!Receive, BoundCreation
  <2> QED
    BY <1>3, <2>1
<1>5. CASE \E other \in PackageIDs, status \in Terminal : Ledger!Decide(other, status)
  <2> PICK other \in PackageIDs, status \in Terminal : Ledger!Decide(other, status)
    BY <1>5
  <2>1. /\ packages[other] \in Rows /\ packages[other].status = "received"
        /\ Ledger!Enter(other, Decided(packages[other], status))
    BY DEF Ledger!Decide, Decided, IInv, TypeOK
  <2> QED
    BY <1>3, <2>1, RowFacts
<1>6. CASE UNCHANGED Ledger!ledgerVars
  BY <1>2, <1>6 DEF Ledger!ledgerVars
<1> QED
  BY <1>4, <1>5, <1>6, StepIsLedgerStep, SameData DEF Ledger!Next

(* No step deletes a package, changes a field of it other than its status,  *)
(* or leaves a decision; the other two tables are append-only.              *)
THEOREM RowsAreImmutable == Spec => RowsImmutable
<1>1. IInv /\ [Next]_vars =>
        [\A id \in PackageIDs :
            /\ packages[id] # NoPackage /\ packages'[id] # packages[id] =>
                  \E status \in Terminal :
                      /\ packages[id].status = "received"
                      /\ packages'[id] = [packages[id] EXCEPT !.status = status]
            /\ IsPrefix(history[id], history'[id])
            /\ IsPrefix(outbox[id], outbox'[id])]_vars
  BY TablesGrow DEF Grows, Decided
<1> QED
  BY <1>1, Invariance, PTL DEF Spec, RowsImmutable

-----------------------------------------------------------------------------
(***************************************************************************)
(* The answers.  AnswersInv adds to IInv what a call was told and what its *)
(* transaction read, as statements about the tables that their growth      *)
(* keeps, and for each package and decision the call that wrote it.        *)
(***************************************************************************)

(* The row is what request r sends, as the columns return it. *)
Sent(row, r) ==
    /\ row.tenant = r.tenant
    /\ row.key = StoredKey[r.key]
    /\ row.metadata = StoredMetadata[r.metadata]

(* The package is there as it was when row was read, up to its status. *)
Kept(id, row) ==
    /\ id \in PackageIDs
    /\ row \in Rows
    /\ packages[id] # NoPackage
    /\ \E status \in Statuses : packages[id] = [row EXCEPT !.status = status]

IsDecided(id) == packages[id] # NoPackage /\ packages[id].status \in Terminal

ToldTrue(c) ==
    LET r == request[c]
        a == answer[c]
    IN  /\ a.code \in {"created", "retained"} =>
              BoundCreation(r) /\ Kept(a.package, a.row) /\ Sent(a.row, r)
        /\ a.code = "recorded" =>
              /\ r \in ValidationRequests
              /\ a.package = r.package
              /\ IsDecided(r.package)
              /\ packages[r.package].status = r.status
        /\ a.code = "terminal" => r \in ValidationRequests /\ IsDecided(r.package)
        /\ a.code = "conflict" =>
              /\ BoundCreation(r)
              /\ Canonical(r) => \E id \in PackageIDs :
                    Holds(packages, id, r.tenant, r.key) /\ packages[id].metadata # r.metadata

(* What the transaction of a call that has not returned has read. *)
ReadTrue(c) ==
    /\ pc[c] # "answered" => answer[c] = NoAnswer
    /\ pc[c] = "read" /\ HasTerminal(snapshot[c].history) => IsDecided(request[c].package)
    /\ pc[c] = "commit" /\ tx[c] = NoTx =>
          Kept(snapshot[c].package, snapshot[c].row) /\ Sent(snapshot[c].row, request[c])

(* A call that announces is on a prepared connection. *)
MayAnnounce(c) ==
    EventsWired /\ c \notin AssertedCalls =>
        /\ answer[c].code \notin {"created", "recorded"}
        /\ pc[c] = "commit" => tx[c] = NoTx

CreatedBy(c, row) ==
    /\ EventsWired => c \in AssertedCalls
    /\ pc[c] = "answered" /\ answer[c].code \in {"created", "failed"}
    /\ request[c] \in CreateRequests
    /\ Sent(row, request[c])

DecidedBy(c, id) ==
    /\ pc[c] = "answered" /\ answer[c].code \in {"recorded", "failed"}
    /\ request[c] \in ValidationRequests
    /\ request[c].package = id
    /\ request[c].status = packages[id].status

AuthorsKnown(id) ==
    /\ packages[id] # NoPackage => \E c \in Calls : CreatedBy(c, packages[id])
    /\ IsDecided(id) => \E c \in Calls : DecidedBy(c, id)

AnswersInv ==
    /\ IInv
    /\ \A c \in Calls : ToldTrue(c) /\ ReadTrue(c) /\ MayAnnounce(c)
    /\ \A id \in PackageIDs : AuthorsKnown(id)
    /\ OneWinner

(* The growth of the tables keeps what was true of a package. *)
LEMMA GrowthKeeps ==
    ASSUME IInv, NEW id \in PackageIDs, Grows(id)
    PROVE  /\ packages[id] # NoPackage => packages'[id] # NoPackage
           /\ \A row : Kept(id, row) => Kept(id, row)'
           /\ IsDecided(id) => packages'[id] = packages[id]
           /\ \A tenant, key : Holds(packages, id, tenant, key) =>
                 /\ Holds(packages', id, tenant, key)
                 /\ packages'[id].metadata = packages[id].metadata
<1>1. CASE packages[id] = NoPackage
  BY <1>1 DEF Kept, IsDecided, Holds
<1>2. CASE packages'[id] = packages[id]
  BY <1>2 DEF Kept, IsDecided, Holds
<1>3. CASE /\ packages[id] # NoPackage
           /\ \E status \in Terminal :
                 packages[id].status = "received" /\ packages'[id] = Decided(packages[id], status)
  <2>1. PICK status \in Terminal :
           packages[id].status = "received" /\ packages'[id] = Decided(packages[id], status)
    BY <1>3
  <2>2. packages[id] \in Rows /\ packages'[id] \in Rows /\ packages'[id] # NoPackage
    BY <1>3, <2>1, RowFacts DEF IInv, TypeOK
  <2>3. ~IsDecided(id)
    BY <2>1 DEF IsDecided, Terminal
  <2>4. ASSUME NEW row, Kept(id, row) PROVE Kept(id, row)'
    <3>1. PICK old \in Statuses : packages[id] = [row EXCEPT !.status = old]
      BY <2>4 DEF Kept
    <3>2. packages'[id] = [row EXCEPT !.status = status]
      BY <2>1, <2>4, <3>1 DEF Kept, Decided, Rows
    <3> QED
      BY <2>2, <2>4, <3>2 DEF Kept, Statuses
  <2>5. /\ packages'[id].tenant = packages[id].tenant
        /\ packages'[id].key = packages[id].key
        /\ packages'[id].metadata = packages[id].metadata
    BY <2>1, <2>2 DEF Decided, Rows
  <2> QED
    BY <2>2, <2>3, <2>4, <2>5 DEF Holds
<1> QED
  BY <1>1, <1>2, <1>3 DEF Grows

(* A call that takes no step has been told, and has read, what is still so. *)
LEMMA OthersKeep ==
    ASSUME IInv, NEW d \in Calls, ToldTrue(d), ReadTrue(d), MayAnnounce(d),
           \A id \in PackageIDs : Grows(id),
           Undisturbed(d), answer'[d] = answer[d]
    PROVE  ToldTrue(d)' /\ ReadTrue(d)' /\ MayAnnounce(d)'
<1>1. \A id, row : Kept(id, row) => Kept(id, row)'
  BY GrowthKeeps DEF Kept
<1>2. \A id \in PackageIDs : IsDecided(id) => IsDecided(id)' /\ packages'[id] = packages[id]
  BY GrowthKeeps DEF IsDecided
<1>3. \A id \in PackageIDs : \A tenant, key : Holds(packages, id, tenant, key) =>
         Holds(packages', id, tenant, key) /\ packages'[id].metadata = packages[id].metadata
  BY GrowthKeeps
<1>4. /\ pc'[d] = pc[d] /\ request'[d] = request[d] /\ tx'[d] = tx[d]
      /\ snapshot'[d] = snapshot[d] /\ answer'[d] = answer[d]
  BY DEF Undisturbed
<1>5. request[d] \in ValidationRequests => request[d].package \in PackageIDs
  BY DEF ValidationRequests
<1>6. ToldTrue(d)'
  BY <1>1, <1>2, <1>3, <1>4, <1>5 DEF ToldTrue, Holds
<1>7. ReadTrue(d)'
  <2>1. pc[d] = "read" => request[d] \in ValidationRequests
    BY DEF IInv, StatementOK
  <2> QED
    BY <1>1, <1>2, <1>4, <1>5, <2>1 DEF ReadTrue
<1>8. MayAnnounce(d)'
  BY <1>4 DEF MayAnnounce
<1> QED
  BY <1>6, <1>7, <1>8

(* A step of c is none of the other calls', and c had not returned. *)
LEMMA OneCallMoves ==
    ASSUME IInv, NEW c \in Calls, Arrive(c) \/ Run(c) \/ Fail(c) \/ CommitUnacknowledged(c)
    PROVE  /\ pc[c] # "answered"
           /\ \A d \in Calls \ {c} : Undisturbed(d) /\ answer'[d] = answer[d]
<1> USE DEF Undisturbed, IInv, TypeOK
<1>1. ASSUME NEW code, NEW id, NEW row, Return(c, code, id, row)
      PROVE  \A d \in Calls \ {c} : Undisturbed(d) /\ answer'[d] = answer[d]
  BY <1>1 DEF Return
<1>2. ASSUME NEW code, Rollback(c, code)
      PROVE  \A d \in Calls \ {c} : Undisturbed(d) /\ answer'[d] = answer[d]
  BY <1>1, <1>2 DEF Rollback
<1>3. CASE Arrive(c)
  BY <1>3 DEF Arrive, RejectUnbound, BeginCreate, BeginValidation, Goto
<1>4. CASE Fail(c)
  BY <1>2, <1>4 DEF Fail, InTransaction
<1>5. CASE Commit(c) \/ CommitUnacknowledged(c)
  BY <1>1, <1>5 DEF Commit, CommitUnacknowledged, ReturnRetained
<1>6. CASE InsertPackage(c) \/ InsertInitialHistory(c)
  BY <1>6 DEF InsertPackage, InsertInitialHistory, Goto
<1>7. CASE LookupRetained(c)
  BY <1>2, <1>7 DEF LookupRetained, Goto
<1>8. CASE LoadForValidation(c) \/ ReadHistory(c)
  BY <1>2, <1>8 DEF LoadForValidation, ReadHistory, Goto
<1>9. CASE InsertTerminal(c) \/ UpdateStatus(c) \/ Enqueue(c)
  BY <1>2, <1>9 DEF InsertTerminal, UpdateStatus, Enqueue, Goto
<1> QED
  BY <1>3, <1>4, <1>5, <1>6, <1>7, <1>8, <1>9 DEF Run

-----------------------------------------------------------------------------
(* The call that moves. *)

(* It goes to a statement at which nothing is said of what it has read. *)
LEMMA SilentMove ==
    ASSUME IInv, NEW c \in Calls, ReadTrue(c), MayAnnounce(c), pc[c] # "answered",
           NEW label \in Labels \ {"answered", "read", "commit"}, pc'[c] = label,
           answer' = answer
    PROVE  ToldTrue(c)' /\ ReadTrue(c)' /\ MayAnnounce(c)'
<1>1. answer'[c] = NoAnswer
  BY DEF ReadTrue
<1>2. answer'[c].code = "none"
  BY <1>1 DEF NoAnswer
<1> QED
  BY <1>1, <1>2 DEF ToldTrue, ReadTrue, MayAnnounce

(* It is told of an error that says nothing about the tables. *)
LEMMA ErrorMove ==
    ASSUME IInv, NEW c \in Calls, NEW code \in {"not_found", "refused", "failed", "unbound"},
           pc'[c] = "answered", answer'[c].code = code
    PROVE  ToldTrue(c)' /\ ReadTrue(c)' /\ MayAnnounce(c)'
  BY DEF ToldTrue, ReadTrue, MayAnnounce

(* What a rollback or a return leaves of c. *)
LEMMA Returned ==
    ASSUME IInv, NEW c \in Calls, NEW code, NEW id, NEW row, Return(c, code, id, row)
    PROVE  /\ pc'[c] = "answered"
           /\ answer'[c] = [code |-> code, package |-> id, row |-> row]
           /\ request' = request
  BY DEF Return, IInv, TypeOK

(* A rollback with such an error. *)
LEMMA RollbackTold ==
    ASSUME IInv, NEW c \in Calls, NEW code \in {"not_found", "refused", "failed"}, Rollback(c, code)
    PROVE  ToldTrue(c)' /\ ReadTrue(c)' /\ MayAnnounce(c)'
<1>1. pc'[c] = "answered" /\ answer'[c].code = code
  BY DEF Rollback, Return, IInv, TypeOK
<1> QED
  BY <1>1, ErrorMove

(* The requests that arrive, and the first statements of each call. *)
LEMMA ArriveTold ==
    ASSUME IInv, NEW c \in Calls, ReadTrue(c), MayAnnounce(c), Arrive(c)
    PROVE  ToldTrue(c)' /\ ReadTrue(c)' /\ MayAnnounce(c)'
<1>1. pc[c] # "answered"
  BY OneCallMoves
<1>2. CASE \E r \in CreateRequests : RejectUnbound(c, r)
  BY <1>2, ErrorMove DEF RejectUnbound, NoAnswer, IInv, TypeOK
<1>3. CASE \E r \in CreateRequests : BeginCreate(c, r)
  <2>1. pc'[c] = "insert" /\ answer' = answer
    BY <1>3 DEF BeginCreate, Goto, IInv, TypeOK
  <2> QED
    BY <1>1, <2>1, SilentMove DEF Labels, InTransaction
<1>4. CASE \E r \in ValidationRequests : BeginValidation(c, r)
  <2>1. pc'[c] = "load" /\ answer' = answer
    BY <1>4 DEF BeginValidation, Goto, IInv, TypeOK
  <2> QED
    BY <1>1, <2>1, SilentMove DEF Labels, InTransaction
<1> QED
  BY <1>2, <1>3, <1>4 DEF Arrive

(* Create's INSERTs. *)
LEMMA CreateTold ==
    ASSUME IInv, NEW c \in Calls, ReadTrue(c), MayAnnounce(c),
           InsertPackage(c) \/ InsertInitialHistory(c)
    PROVE  ToldTrue(c)' /\ ReadTrue(c)' /\ MayAnnounce(c)'
<1>1. /\ pc[c] # "answered" /\ answer' = answer
      /\ pc'[c] \in {"lookup", "initial", "enqueue"}
  BY DEF InsertPackage, InsertInitialHistory, Goto, IInv, TypeOK
<1> QED
  BY <1>1, SilentMove DEF Labels, InTransaction

(* RecordValidation after its first read. *)
LEMMA ValidationTold ==
    ASSUME IInv, NEW c \in Calls, ReadTrue(c), MayAnnounce(c),
           ReadHistory(c) \/ InsertTerminal(c) \/ UpdateStatus(c)
    PROVE  ToldTrue(c)' /\ ReadTrue(c)' /\ MayAnnounce(c)'
<1>1. pc[c] # "answered"
  BY DEF ReadHistory, InsertTerminal, UpdateStatus
<1>2. CASE \E label \in {"decide", "update", "enqueue"} : Goto(c, label) /\ answer' = answer
  <2>1. answer' = answer /\ pc'[c] \in {"decide", "update", "enqueue"}
    BY <1>2 DEF Goto, IInv, TypeOK
  <2> QED
    BY <1>1, <2>1, SilentMove DEF Labels, InTransaction
<1>3. CASE Rollback(c, "refused")
  BY <1>3, RollbackTold
<1>4. CASE pc[c] = "read" /\ HasTerminal(snapshot[c].history) /\ Rollback(c, "terminal")
  <2>1. request[c] \in ValidationRequests /\ IsDecided(request[c].package)
    BY <1>4 DEF IInv, StatementOK, ReadTrue
  <2>2. /\ pc'[c] = "answered" /\ answer'[c].code = "terminal" /\ request' = request
        /\ packages' = packages
    <3>1. Return(c, "terminal", NoPackage, NoPackage) /\ packages' = packages
      BY <1>4 DEF Rollback, tables
    <3>2. /\ pc'[c] = "answered" /\ request' = request
          /\ answer'[c] = [code |-> "terminal", package |-> NoPackage, row |-> NoPackage]
      BY <3>1, Returned
    <3> QED
      BY <3>1, <3>2
  <2> QED
    BY <2>1, <2>2 DEF ToldTrue, ReadTrue, MayAnnounce, IsDecided
<1> QED
  BY <1>2, <1>3, <1>4 DEF ReadHistory, InsertTerminal, UpdateStatus

(* The first read of a validation: the history of the package as it is now, *)
(* and a decision in it is the package's.                                   *)
LEMMA LoadTold ==
    ASSUME IInv, NEW c \in Calls, ReadTrue(c), MayAnnounce(c), LoadForValidation(c)
    PROVE  ToldTrue(c)' /\ ReadTrue(c)' /\ MayAnnounce(c)'
<1> DEFINE id == request[c].package
<1>1. CASE Rollback(c, "not_found")
  BY <1>1, RollbackTold
<1>2. CASE /\ packages[id] # NoPackage
           /\ snapshot' = [snapshot EXCEPT ![c] =
                  [package |-> id, row |-> packages[id], history |-> history[id]]]
           /\ Goto(c, "read")
           /\ UNCHANGED <<packages, history, outbox, request, tx, prior, answer>>
  <2>1. pc[c] = "load" /\ id \in PackageIDs
    BY DEF LoadForValidation, IInv, StatementOK, ValidationRequests
  <2>2. /\ answer'[c] = NoAnswer /\ answer'[c].code = "none"
        /\ pc'[c] = "read" /\ snapshot'[c].history = history[id]
    BY <1>2, <2>1 DEF ReadTrue, Goto, NoAnswer, IInv, TypeOK
  <2>3. HasTerminal(history[id]) => packages[id].status \in Terminal
    <3>1. history[id] = Custody(packages[id]) /\ packages[id] \in Rows
      BY <1>2, <2>1 DEF IInv, TypeOK, TablesAgree
    <3>2. CASE packages[id].status = "received"
      <4>1. history[id] = <<Received>>
        BY <1>2, <3>1, <3>2 DEF Custody
      <4>2. \A i \in DOMAIN history[id] : history[id][i].status = "received"
        BY <4>1 DEF Received
      <4> QED
        BY <4>2 DEF HasTerminal, Terminal
    <3>3. CASE packages[id].status # "received"
      BY <3>1, <3>3 DEF Rows, Statuses
    <3> QED
      BY <3>2, <3>3
  <2>4. ReadTrue(c)'
    BY <1>2, <2>2, <2>3 DEF ReadTrue, IsDecided
  <2> QED
    BY <2>2, <2>4 DEF ToldTrue, MayAnnounce
<1> QED
  BY <1>1, <1>2 DEF LoadForValidation

(* The outbox INSERT: past it the connection is a prepared one. *)
LEMMA EnqueueTold ==
    ASSUME IInv, NEW c \in Calls, ReadTrue(c), MayAnnounce(c), Enqueue(c)
    PROVE  ToldTrue(c)' /\ ReadTrue(c)' /\ MayAnnounce(c)'
<1>1. CASE Rollback(c, "refused")
  BY <1>1, RollbackTold
<1>2. CASE ~PolicyDenies(c) /\ Goto(c, "commit") /\ tx' = [tx EXCEPT ![c].outbox = Announce(c)]
           /\ answer' = answer
  <2>1. pc[c] = "enqueue"
    BY DEF Enqueue
  <2>2. answer'[c] = NoAnswer /\ answer'[c].code = "none" /\ pc'[c] = "commit"
    BY <1>2, <2>1 DEF ReadTrue, Goto, NoAnswer, IInv, TypeOK
  <2>3. tx'[c] # NoTx
    <3>1. tx[c].package \in PackageIDs
      BY <2>1 DEF IInv, StatementOK, CreationWrites, DecisionWrites, ValidationRequests
    <3>2. tx[c] \in Writes /\ tx'[c] = [tx[c] EXCEPT !.outbox = Announce(c)]
      BY <1>2 DEF IInv, TypeOK
    <3>3. tx'[c].package = tx[c].package
      BY <3>2 DEF Writes
    <3> QED
      BY <3>1, <3>3, DataAssumption DEF NoTx
  <2>4. EventsWired => c \in AssertedCalls
    BY <1>2 DEF PolicyDenies
  <2> QED
    BY <2>2, <2>3, <2>4 DEF ToldTrue, ReadTrue, MayAnnounce
<1> QED
  BY <1>1, <1>2 DEF Enqueue

(* Create's second SELECT: the row that stopped the INSERT, whose content   *)
(* is what some creation sent, so it compares in the database's spelling.   *)
LEMMA LookupTold ==
    ASSUME IInv, NEW c \in Calls, ReadTrue(c), MayAnnounce(c), LookupRetained(c),
           \A id \in PackageIDs : AuthorsKnown(id)
    PROVE  ToldTrue(c)' /\ ReadTrue(c)' /\ MayAnnounce(c)'
<1> DEFINE r == request[c]
<1>1. pc[c] = "lookup" /\ BoundCreation(r) /\ tx[c] = NoTx /\ answer[c] = NoAnswer
  BY DEF LookupRetained, IInv, StatementOK, ReadTrue
<1>2. PICK id \in PackageIDs :
         /\ Holds(packages, id, r.tenant, StoredKey[r.key])
         /\ IF Matches(r, packages[id])
            THEN /\ snapshot' = [snapshot EXCEPT ![c] = [@ EXCEPT !.package = id, !.row = packages[id]]]
                 /\ Goto(c, "commit")
                 /\ UNCHANGED <<packages, history, outbox, request, tx, prior, answer>>
            ELSE Rollback(c, "conflict")
  BY DEF LookupRetained
<1>3. packages[id] \in Rows /\ packages[id] # NoPackage
  BY <1>2 DEF Holds, IInv, TypeOK
<1>4. StoredMetadata[packages[id].metadata] = packages[id].metadata
  <2>1. PICK d \in Calls : CreatedBy(d, packages[id])
    BY <1>3 DEF AuthorsKnown
  <2> QED
    BY <2>1, DataAssumption DEF CreatedBy, Sent, CreateRequests
<1>5. CASE Matches(r, packages[id])
  <2>1. Sent(packages[id], r)
    BY <1>2, <1>4, <1>5 DEF Sent, Holds, Matches
  <2>2. Kept(id, packages[id])
    BY <1>3 DEF Kept, Rows
  <2>3. /\ pc'[c] = "commit" /\ answer'[c] = NoAnswer /\ request' = request
        /\ packages' = packages /\ snapshot'[c].package = id /\ snapshot'[c].row = packages[id]
        /\ tx'[c] = NoTx
    <3>1. snapshot[c] \in Snapshots
      BY DEF IInv, TypeOK
    <3>2. snapshot'[c] = [snapshot[c] EXCEPT !.package = id, !.row = packages[id]]
      BY <1>2, <1>5 DEF IInv, TypeOK
    <3>3. snapshot'[c].package = id /\ snapshot'[c].row = packages[id]
      BY <3>1, <3>2 DEF Snapshots
    <3> QED
      BY <1>1, <1>2, <1>5, <3>3 DEF Goto, IInv, TypeOK
  <2>4. answer'[c].code = "none"
    BY <2>3 DEF NoAnswer
  <2>5. Kept(snapshot[c].package, snapshot[c].row)' /\ Sent(snapshot[c].row, request[c])'
    BY <2>1, <2>2, <2>3 DEF Kept, Sent
  <2> QED
    BY <2>3, <2>4, <2>5 DEF ToldTrue, ReadTrue, MayAnnounce
<1>6. CASE ~Matches(r, packages[id])
  <2>1. Return(c, "conflict", NoPackage, NoPackage) /\ packages' = packages
    BY <1>2, <1>6 DEF Rollback, tables
  <2>2. /\ pc'[c] = "answered" /\ request' = request
        /\ answer'[c] = [code |-> "conflict", package |-> NoPackage, row |-> NoPackage]
    BY <2>1, Returned
  <2>3. answer'[c].code = "conflict"
    BY <2>2
  <2>4. Canonical(r) => Holds(packages, id, r.tenant, r.key) /\ packages[id].metadata # r.metadata
    BY <1>2, <1>6 DEF Canonical, Matches, Holds
  <2>5. ToldTrue(c)'
    BY <1>1, <2>1, <2>2, <2>3, <2>4 DEF ToldTrue, Canonical, Holds
  <2> QED
    BY <2>2, <2>3, <2>5 DEF ReadTrue, MayAnnounce
<1> QED
  BY <1>5, <1>6

(* What each kind of commit writes. *)
LEMMA CommitCreates ==
    ASSUME IInv, NEW c \in Calls, pc[c] = "commit", Install(c), request[c].op # "validate",
           tx[c].package # NoPackage
    PROVE  /\ BoundCreation(request[c])
           /\ tx[c].package \in PackageIDs
           /\ tx[c].row = StoredRow(request[c]) /\ tx[c].row \in Rows
           /\ packages' = [packages EXCEPT ![tx[c].package] = tx[c].row]
           /\ \A id \in PackageIDs :
                 ~Holds(packages, id, request[c].tenant, StoredKey[request[c].key])
<1>1. \E events : CreationWrites(c, <<Received>>, events)
  BY DEF IInv, StatementOK, NoTx, DecisionWrites, ValidationRequests
<1>2. PICK events : CreationWrites(c, <<Received>>, events)
  BY <1>1
<1>3. StoredRow(request[c]) \in Rows
  BY <1>2, RowFacts DEF CreationWrites
<1> QED
  BY <1>2, <1>3 DEF CreationWrites, Install

(* A decision finds its package undecided. *)
LEMMA CommitDecidesOnce ==
    ASSUME IInv, NEW c \in Calls, pc[c] = "commit", Install(c), request[c].op = "validate"
    PROVE  /\ request[c] \in ValidationRequests
           /\ tx[c].package = request[c].package
           /\ ~IsDecided(request[c].package)
           /\ packages[request[c].package] \in Rows
           /\ packages' = [packages EXCEPT ![request[c].package] = DecidedRow(c)]
<1>1. DecisionWrites(c, DecidedRow(c), DecidedEvents(c))
  BY DEF IInv, StatementOK, CreationWrites, BoundCreation, CreateRequests
<1>2. request[c].package \in PackageIDs /\ request[c].package # NoPackage
  BY <1>1, DataAssumption DEF DecisionWrites, ValidationRequests
<1> QED
  BY <1>1, <1>2 DEF DecisionWrites, Install, IsDecided, Terminal, IInv, TypeOK

(* COMMIT, whose answer arrives. *)
LEMMA CommitTold ==
    ASSUME IInv, NEW c \in Calls, ReadTrue(c), MayAnnounce(c), Commit(c)
    PROVE  ToldTrue(c)' /\ ReadTrue(c)' /\ MayAnnounce(c)'
<1>1. pc[c] = "commit" /\ Install(c)
  BY DEF Commit
<1>2. CASE request[c].op = "validate"
  <2> DEFINE id == request[c].package
  <2>1. /\ request[c] \in ValidationRequests
        /\ tx[c].package = id /\ id \in PackageIDs
        /\ packages[id] \in Rows
        /\ packages' = [packages EXCEPT ![id] = DecidedRow(c)]
    BY <1>1, <1>2, CommitDecidesOnce DEF ValidationRequests
  <2>2. Return(c, "recorded", id, NoPackage)
    BY <1>2, <2>1 DEF Commit
  <2>3. /\ pc'[c] = "answered" /\ request' = request
        /\ answer'[c] = [code |-> "recorded", package |-> id, row |-> NoPackage]
    BY <2>2, Returned
  <2>4. packages'[id] = Decided(packages[id], request[c].status) /\ request[c].status \in Terminal
    BY <2>1 DEF DecidedRow, ValidationRequests, IInv, TypeOK
  <2>5. packages'[id] # NoPackage /\ packages'[id].status = request[c].status
    BY <2>1, <2>4, RowFacts DEF Decided, Rows
  <2>6. ToldTrue(c)'
    BY <2>1, <2>3, <2>4, <2>5 DEF ToldTrue, IsDecided
  <2>7. tx[c] # NoTx
    BY <2>1, DataAssumption DEF NoTx
  <2> QED
    BY <1>1, <2>3, <2>6, <2>7 DEF ReadTrue, MayAnnounce
<1>3. CASE request[c].op # "validate" /\ tx[c].package # NoPackage
  <2> DEFINE id == tx[c].package
  <2> DEFINE row == tx[c].row
  <2>1. /\ BoundCreation(request[c])
        /\ id \in PackageIDs
        /\ row = StoredRow(request[c]) /\ row \in Rows
        /\ packages' = [packages EXCEPT ![id] = row]
    BY <1>1, <1>3, CommitCreates
  <2>2. Return(c, "created", id, row)
    BY <1>3 DEF Commit
  <2>3. /\ pc'[c] = "answered" /\ request' = request
        /\ answer'[c] = [code |-> "created", package |-> id, row |-> row]
    BY <2>2, Returned
  <2>4. packages'[id] = row
    BY <2>1 DEF IInv, TypeOK
  <2>5. /\ packages'[id] # NoPackage
        /\ \E status \in Statuses : packages'[id] = [row EXCEPT !.status = status]
        /\ Sent(row, request[c])
    <3>1. row = [row EXCEPT !.status = "received"] /\ Sent(row, request[c])
      BY <2>1 DEF StoredRow, Sent
    <3> QED
      BY <2>1, <2>4, <3>1, RowFacts DEF Statuses
  <2>6. answer'[c].code = "created" /\ answer'[c].package = id /\ answer'[c].row = row
    BY <2>3
  <2>7. Kept(answer[c].package, answer[c].row)'
    BY <2>1, <2>5, <2>6 DEF Kept
  <2>8. ToldTrue(c)'
    BY <2>1, <2>3, <2>5, <2>6, <2>7 DEF ToldTrue, Sent
  <2>9. tx[c] # NoTx
    BY <1>3 DEF NoTx
  <2> QED
    BY <1>1, <2>3, <2>8, <2>9 DEF ReadTrue, MayAnnounce
<1>4. CASE request[c].op # "validate" /\ tx[c].package = NoPackage
  <2> DEFINE id == snapshot[c].package
  <2> DEFINE row == snapshot[c].row
  <2>1. BoundCreation(request[c]) /\ tx[c] = NoTx
    BY <1>1, <1>4, DataAssumption DEF IInv, StatementOK, CreationWrites, DecisionWrites, ValidationRequests
  <2>2. Kept(id, row) /\ Sent(row, request[c]) /\ packages' = packages
    BY <1>1, <1>4, <2>1 DEF ReadTrue, Install, tables
  <2>3. Return(c, "retained", id, row)
    BY <1>4 DEF Commit, ReturnRetained
  <2>4. /\ pc'[c] = "answered" /\ request' = request
        /\ answer'[c] = [code |-> "retained", package |-> id, row |-> row]
    BY <2>3, Returned
  <2>5. answer'[c].code = "retained" /\ answer'[c].package = id /\ answer'[c].row = row
    BY <2>4
  <2>6. Kept(answer[c].package, answer[c].row)'
    BY <2>2, <2>5 DEF Kept
  <2>7. ToldTrue(c)'
    BY <2>1, <2>2, <2>4, <2>5, <2>6 DEF ToldTrue, Sent
  <2> QED
    BY <2>4, <2>5, <2>7 DEF ReadTrue, MayAnnounce
<1> QED
  BY <1>2, <1>3, <1>4

(* Whatever c does, what it is told and what it has read is so. *)
LEMMA MovingCallTold ==
    ASSUME AnswersInv, NEW c \in Calls, Arrive(c) \/ Run(c) \/ Fail(c) \/ CommitUnacknowledged(c)
    PROVE  ToldTrue(c)' /\ ReadTrue(c)' /\ MayAnnounce(c)'
<1> USE DEF AnswersInv
<1>1. CASE Arrive(c)
  BY <1>1, ArriveTold
<1>2. CASE Fail(c)
  BY <1>2, RollbackTold DEF Fail
<1>3. CASE CommitUnacknowledged(c)
  <2>1. pc'[c] = "answered" /\ answer'[c].code = "failed"
    BY <1>3 DEF CommitUnacknowledged, Return, IInv, TypeOK
  <2> QED
    BY <2>1, ErrorMove
<1>4. CASE InsertPackage(c) \/ InsertInitialHistory(c)
  BY <1>4, CreateTold
<1>5. CASE LookupRetained(c)
  BY <1>5, LookupTold
<1>6. CASE LoadForValidation(c)
  BY <1>6, LoadTold
<1>7. CASE ReadHistory(c) \/ InsertTerminal(c) \/ UpdateStatus(c)
  BY <1>7, ValidationTold
<1>8. CASE Enqueue(c)
  BY <1>8, EnqueueTold
<1>9. CASE Commit(c)
  BY <1>9, CommitTold
<1> QED
  BY <1>1, <1>2, <1>3, <1>4, <1>5, <1>6, <1>7, <1>8, <1>9 DEF Run

-----------------------------------------------------------------------------
(* Who wrote what, and who was told so. *)

(* The calls that have returned remain the authors of what they wrote. *)
LEMMA AuthorsStay ==
    ASSUME IInv, NEW c \in Calls, Arrive(c) \/ Run(c) \/ Fail(c) \/ CommitUnacknowledged(c),
           NEW d \in Calls, pc[d] = "answered"
    PROVE  /\ d # c /\ pc'[d] = "answered"
           /\ request'[d] = request[d] /\ answer'[d] = answer[d]
  BY OneCallMoves DEF Undisturbed

(* A package that a step leaves alone keeps its authors. *)
LEMMA SameAuthors ==
    ASSUME IInv, NEW c \in Calls, Arrive(c) \/ Run(c) \/ Fail(c) \/ CommitUnacknowledged(c),
           NEW id \in PackageIDs, AuthorsKnown(id), packages'[id] = packages[id]
    PROVE  AuthorsKnown(id)'
<1>1. ASSUME NEW d \in Calls, NEW row, CreatedBy(d, row)
      PROVE  CreatedBy(d, row)'
  BY <1>1, AuthorsStay DEF CreatedBy
<1>2. ASSUME NEW d \in Calls, DecidedBy(d, id)
      PROVE  DecidedBy(d, id)'
  BY <1>2, AuthorsStay DEF DecidedBy
<1>3. packages[id] # NoPackage => \E d \in Calls : CreatedBy(d, packages[id])'
  <2>1. CASE packages[id] # NoPackage
    <3>1. PICK d \in Calls : CreatedBy(d, packages[id])
      BY <2>1 DEF AuthorsKnown
    <3>2. CreatedBy(d, packages[id])'
      BY <3>1, AuthorsStay DEF CreatedBy
    <3> QED
      BY <3>2
  <2> QED
    BY <2>1
<1> QED
  BY <1>2, <1>3 DEF AuthorsKnown, IsDecided

(* The author of a commit is the call that commits. *)
LEMMA CommitAuthors ==
    ASSUME AnswersInv, NEW c \in Calls, Commit(c) \/ CommitUnacknowledged(c), NEW id \in PackageIDs
    PROVE  AuthorsKnown(id)'
<1>1. pc[c] = "commit" /\ Install(c) /\ IInv /\ AuthorsKnown(id)
  BY DEF Commit, CommitUnacknowledged, AnswersInv
<1>2. pc'[c] = "answered" /\ request' = request
  BY <1>1 DEF Commit, CommitUnacknowledged, ReturnRetained, Return, IInv, TypeOK
<1>3. CASE packages'[id] = packages[id]
  BY <1>1, <1>3, SameAuthors DEF Run
<1>4. CASE request[c].op # "validate" /\ packages'[id] # packages[id]
  <2>1. tx[c].package # NoPackage
    BY <1>1, <1>4 DEF Install, tables
  <2>2. /\ BoundCreation(request[c]) /\ tx[c].package = id
        /\ packages'[id] = StoredRow(request[c])
    BY <1>1, <1>4, <2>1, CommitCreates DEF IInv, TypeOK
  <2>3. answer'[c].code \in {"created", "failed"}
    BY <1>1, <1>4, <2>1 DEF Commit, CommitUnacknowledged, Return, IInv, TypeOK
  <2>4. EventsWired => c \in AssertedCalls
    BY <1>1, <2>1 DEF AnswersInv, MayAnnounce, NoTx
  <2>5. CreatedBy(c, packages[id])'
    BY <1>2, <2>2, <2>3, <2>4 DEF CreatedBy, Sent, StoredRow, BoundCreation
  <2>6. ~IsDecided(id)'
    BY <2>2 DEF IsDecided, StoredRow, Terminal
  <2> QED
    BY <2>5, <2>6 DEF AuthorsKnown
<1>5. CASE request[c].op = "validate" /\ packages'[id] # packages[id]
  <2>1. /\ request[c] \in ValidationRequests /\ request[c].package = id
        /\ packages[id] \in Rows /\ packages'[id] = Decided(packages[id], request[c].status)
    BY <1>1, <1>5, CommitDecidesOnce DEF DecidedRow, IInv, TypeOK
  <2>2. answer'[c].code \in {"recorded", "failed"}
    BY <1>1, <1>5 DEF Commit, CommitUnacknowledged, Return, IInv, TypeOK
  <2>3. packages'[id].status = request[c].status
    BY <2>1 DEF Decided, Rows
  <2>4. DecidedBy(c, id)'
    BY <1>2, <2>1, <2>2, <2>3 DEF DecidedBy
  <2>5. \E d \in Calls : CreatedBy(d, packages[id])'
    <3>1. PICK d \in Calls : CreatedBy(d, packages[id])
      BY <1>1, <2>1, RowFacts DEF AuthorsKnown
    <3>2. /\ packages'[id].tenant = packages[id].tenant
          /\ packages'[id].key = packages[id].key
          /\ packages'[id].metadata = packages[id].metadata
      BY <2>1 DEF Decided, Rows
    <3>3. /\ pc'[d] = "answered" /\ request'[d] = request[d] /\ answer'[d] = answer[d]
      BY <1>1, <3>1, AuthorsStay DEF CreatedBy, Run
    <3>4. CreatedBy(d, packages[id])'
      BY <3>1, <3>2, <3>3 DEF CreatedBy, Sent
    <3> QED
      BY <3>4
  <2> QED
    BY <2>4, <2>5 DEF AuthorsKnown
<1> QED
  BY <1>3, <1>4, <1>5

(* A call that is told it created a package, or decided one, is the first:  *)
(* for an earlier one the tables would hold what its commit found absent.   *)
LEMMA FirstWinner ==
    ASSUME AnswersInv, NEW c \in Calls, Commit(c), NEW d \in Calls, pc[d] = "answered"
    PROVE  /\ ~/\ answer'[c].code = "created" /\ answer[d].code = "created"
               /\ request[c].tenant = request[d].tenant
               /\ StoredKey[request[c].key] = StoredKey[request[d].key]
           /\ ~/\ answer'[c].code = "recorded" /\ answer[d].code = "recorded"
               /\ request[c].package = request[d].package
<1>1. pc[c] = "commit" /\ Install(c) /\ IInv /\ ToldTrue(d)
  BY DEF Commit, AnswersInv
<1>2. /\ answer'[c].code = "created" =>
            request[c].op # "validate" /\ tx[c].package # NoPackage
      /\ answer'[c].code = "recorded" => request[c].op = "validate"
  BY <1>1 DEF Commit, ReturnRetained, Return, IInv, TypeOK
<1>3. ASSUME answer'[c].code = "created", answer[d].code = "created",
             request[c].tenant = request[d].tenant,
             StoredKey[request[c].key] = StoredKey[request[d].key]
      PROVE  FALSE
  <2>1. \A id \in PackageIDs :
           ~Holds(packages, id, request[c].tenant, StoredKey[request[c].key])
    BY <1>1, <1>2, <1>3, CommitCreates
  <2>2. Kept(answer[d].package, answer[d].row) /\ Sent(answer[d].row, request[d])
    BY <1>1, <1>3 DEF ToldTrue
  <2>3. Holds(packages, answer[d].package, request[d].tenant, StoredKey[request[d].key])
    BY <2>2 DEF Kept, Sent, Holds, Rows
  <2> QED
    BY <1>3, <2>1, <2>2, <2>3 DEF Kept
<1>4. ASSUME answer'[c].code = "recorded", answer[d].code = "recorded",
             request[c].package = request[d].package
      PROVE  FALSE
  BY <1>1, <1>2, <1>4, CommitDecidesOnce DEF ToldTrue
<1> QED
  BY <1>3, <1>4

(* Only an acknowledged commit tells a call that it won. *)
LEMMA OnlyCommitWins ==
    ASSUME AnswersInv, NEW c \in Calls, Arrive(c) \/ Run(c) \/ Fail(c) \/ CommitUnacknowledged(c),
           ~Commit(c)
    PROVE  answer'[c].code \notin {"created", "recorded"}
<1> USE DEF AnswersInv, IInv, TypeOK
<1>1. answer[c].code = "none"
  BY OneCallMoves DEF ReadTrue, NoAnswer
<1>2. CASE Arrive(c)
  BY <1>1, <1>2 DEF Arrive, RejectUnbound, BeginCreate, BeginValidation, NoAnswer
<1>3. CASE Fail(c) \/ CommitUnacknowledged(c)
  BY <1>3 DEF Fail, Rollback, Return, CommitUnacknowledged
<1>4. ASSUME NEW code \in {"conflict", "not_found", "terminal", "refused"}, Rollback(c, code)
      PROVE  answer'[c].code \notin {"created", "recorded"}
  BY <1>4 DEF Rollback, Return
<1>5. CASE InsertPackage(c) \/ InsertInitialHistory(c)
  BY <1>1, <1>5 DEF InsertPackage, InsertInitialHistory
<1>6. CASE LookupRetained(c)
  BY <1>1, <1>4, <1>6 DEF LookupRetained
<1>7. CASE LoadForValidation(c) \/ ReadHistory(c)
  BY <1>1, <1>4, <1>7 DEF LoadForValidation, ReadHistory
<1>8. CASE InsertTerminal(c) \/ UpdateStatus(c) \/ Enqueue(c)
  BY <1>1, <1>4, <1>8 DEF InsertTerminal, UpdateStatus, Enqueue
<1> QED
  BY <1>2, <1>3, <1>5, <1>6, <1>7, <1>8 DEF Run

(* Of two winners one would have come second. *)
LEMMA WinnerStays ==
    ASSUME AnswersInv, NEW c \in Calls, Arrive(c) \/ Run(c) \/ Fail(c) \/ CommitUnacknowledged(c)
    PROVE  OneWinner'
<1> SUFFICES ASSUME NEW d \in Calls, NEW e \in Calls, d # e
             PROVE  /\ ~/\ AnsweredWith(d, "created")' /\ AnsweredWith(e, "created")'
                        /\ request'[d].tenant = request'[e].tenant
                        /\ StoredKey[request'[d].key] = StoredKey[request'[e].key]
                    /\ ~/\ AnsweredWith(d, "recorded")' /\ AnsweredWith(e, "recorded")'
                        /\ request'[d].package = request'[e].package
  BY DEF OneWinner
<1>1. IInv /\ OneWinner
  BY DEF AnswersInv
<1>2. \A f \in Calls \ {c} :
         pc'[f] = pc[f] /\ request'[f] = request[f] /\ answer'[f] = answer[f]
  BY <1>1, OneCallMoves DEF Undisturbed
<1>3. CASE d # c /\ e # c
  BY <1>1, <1>2, <1>3 DEF OneWinner, AnsweredWith
<1>4. CASE ~Commit(c) /\ (d = c \/ e = c)
  BY <1>4, OnlyCommitWins DEF AnsweredWith
<1>5. CASE Commit(c) /\ (d = c \/ e = c)
  <2>1. request' = request
    BY <1>5 DEF Commit, ReturnRetained, Return
  <2>2. CASE d = c
    <3>1. CASE pc[e] = "answered"
      BY <1>2, <1>5, <2>1, <2>2, <3>1, FirstWinner DEF AnsweredWith
    <3>2. CASE pc[e] # "answered"
      BY <1>2, <2>2, <3>2 DEF AnsweredWith
    <3> QED
      BY <3>1, <3>2
  <2>3. CASE e = c
    <3>1. CASE pc[d] = "answered"
      BY <1>2, <1>5, <2>1, <2>3, <3>1, FirstWinner DEF AnsweredWith
    <3>2. CASE pc[d] # "answered"
      BY <1>2, <2>3, <3>2 DEF AnsweredWith
    <3> QED
      BY <3>1, <3>2
  <2> QED
    BY <1>5, <2>2, <2>3
<1> QED
  BY <1>3, <1>4, <1>5

-----------------------------------------------------------------------------
(* The theorems. *)

(* Nobody has been told anything, and nothing is stored. *)
LEMMA AnswersInitially == Init => AnswersInv
<1> SUFFICES ASSUME Init PROVE AnswersInv
  OBVIOUS
<1>1. IInv
  BY Initially
<1>2. ASSUME NEW c \in Calls PROVE ToldTrue(c) /\ ReadTrue(c) /\ MayAnnounce(c)
  BY DEF Init, ToldTrue, ReadTrue, MayAnnounce, NoAnswer
<1>3. ASSUME NEW id \in PackageIDs PROVE AuthorsKnown(id)
  BY DEF Init, AuthorsKnown, IsDecided
<1>4. OneWinner
  BY DEF Init, OneWinner, AnsweredWith
<1> QED
  BY <1>1, <1>2, <1>3, <1>4 DEF AnswersInv

(* Every action preserves AnswersInv. *)
LEMMA AnswersPreserved == AnswersInv /\ [Next]_vars => AnswersInv'
<1> SUFFICES ASSUME AnswersInv, [Next]_vars PROVE AnswersInv'
  OBVIOUS
<1>1. IInv /\ IInv'
  BY Preserved DEF AnswersInv
<1>2. \A id \in PackageIDs : Grows(id)
  BY <1>1, TablesGrow
<1>3. ASSUME NEW c \in Calls, Arrive(c) \/ Run(c) \/ Fail(c) \/ CommitUnacknowledged(c)
      PROVE  AnswersInv'
  <2>1. ASSUME NEW d \in Calls PROVE ToldTrue(d)' /\ ReadTrue(d)' /\ MayAnnounce(d)'
    <3>1. CASE d = c
      BY <1>3, <3>1, MovingCallTold
    <3>2. CASE d # c
      <4>1. Undisturbed(d) /\ answer'[d] = answer[d]
        BY <1>1, <1>3, <3>2, OneCallMoves
      <4> QED
        BY <1>1, <1>2, <4>1, OthersKeep DEF AnswersInv
    <3> QED
      BY <3>1, <3>2
  <2>2. ASSUME NEW id \in PackageIDs PROVE AuthorsKnown(id)'
    <3>1. CASE Commit(c) \/ CommitUnacknowledged(c)
      BY <3>1, CommitAuthors
    <3>2. CASE ~Commit(c) /\ ~CommitUnacknowledged(c)
      <4>1. packages'[id] = packages[id] /\ AuthorsKnown(id)
        BY <1>3, <3>2, OnlyCommitsWrite DEF tables, AnswersInv
      <4> QED
        BY <1>1, <1>3, <4>1, SameAuthors
    <3> QED
      BY <3>1, <3>2
  <2>3. OneWinner'
    BY <1>3, WinnerStays
  <2> QED
    BY <1>1, <2>1, <2>2, <2>3 DEF AnswersInv
<1>4. CASE UNCHANGED vars
  <2>1. ASSUME NEW d \in Calls PROVE ToldTrue(d)' /\ ReadTrue(d)' /\ MayAnnounce(d)'
    BY <1>1, <1>2, <1>4, OthersKeep DEF AnswersInv, Undisturbed, vars
  <2>2. ASSUME NEW id \in PackageIDs PROVE AuthorsKnown(id)'
    <3>1. AuthorsKnown(id)
      BY DEF AnswersInv
    <3> QED
      BY <1>4, <3>1 DEF AuthorsKnown, CreatedBy, DecidedBy, IsDecided, vars
  <2>3. OneWinner'
    BY <1>4 DEF AnswersInv, OneWinner, AnsweredWith, vars
  <2> QED
    BY <1>1, <2>1, <2>2, <2>3 DEF AnswersInv
<1> QED
  BY <1>3, <1>4 DEF Next, Idle

(* The invariant holds in every reachable state. *)
THEOREM AnswersInvariance == Spec => []AnswersInv
  BY AnswersInitially, AnswersPreserved, PTL DEF Spec

(* What a caller was told stays true, whatever the other calls do later. *)
THEOREM AnswersStayTrue == Spec => []Acknowledged
<1>1. AnswersInv => Acknowledged
  <2> SUFFICES ASSUME AnswersInv, NEW c \in Calls
               PROVE  /\ AnsweredWith(c, "created") \/ AnsweredWith(c, "retained") =>
                            /\ packages[answer[c].package] # NoPackage
                            /\ \E status \in Statuses :
                                  packages[answer[c].package] = [answer[c].row EXCEPT !.status = status]
                            /\ Sent(answer[c].row, request[c])
                      /\ AnsweredWith(c, "recorded") =>
                            LET id == answer[c].package
                            IN  /\ id = request[c].package
                                /\ packages[id] # NoPackage
                                /\ packages[id].status = request[c].status
                                /\ history[id][Len(history[id])].status = request[c].status
    BY DEF Acknowledged, Sent
  <2>1. ToldTrue(c) /\ IInv
    BY DEF AnswersInv
  <2>2. CASE AnsweredWith(c, "created") \/ AnsweredWith(c, "retained")
    BY <2>1, <2>2 DEF AnsweredWith, ToldTrue, Kept
  <2>3. CASE AnsweredWith(c, "recorded")
    <3> DEFINE id == request[c].package
    <3>1. /\ request[c] \in ValidationRequests /\ answer[c].package = id
          /\ packages[id] # NoPackage /\ packages[id].status = request[c].status
      BY <2>1, <2>3 DEF AnsweredWith, ToldTrue, IsDecided
    <3>2. id \in PackageIDs /\ packages[id].status # "received"
      BY <3>1 DEF ValidationRequests, Terminal
    <3>3. history[id] = <<Received, Decision("received", request[c].status)>>
      BY <2>1, <3>1, <3>2 DEF IInv, TablesAgree, Custody
    <3>4. Len(history[id]) = 2 /\ history[id][2].status = request[c].status
      BY <3>3 DEF Decision
    <3> QED
      BY <2>3, <3>1, <3>4 DEF AnsweredWith
  <2> QED
    BY <2>2, <2>3
<1> QED
  BY <1>1, AnswersInvariance, PTL

(* At most one 201 for a tenant and key, at most one recorded decision. *)
THEOREM AtMostOneWinner == Spec => []OneWinner
<1>1. AnswersInv => OneWinner
  BY DEF AnswersInv
<1> QED
  BY <1>1, AnswersInvariance, PTL

(* A conflict is about the content of a request, not about its spelling or  *)
(* about how often it was sent.                                             *)
THEOREM ConflictsAreReal == Spec => []ConflictIsReal
<1>1. AnswersInv => ConflictIsReal
  BY DEF AnswersInv, ToldTrue, ConflictIsReal, AnsweredWith
<1> QED
  BY <1>1, AnswersInvariance, PTL

(* A validation is told of a decision only when there is one, and every     *)
(* decision is one that some call asked for.                                *)
THEOREM DecisionsAreAuthored == Spec => []DecisionsHaveAuthors
<1>1. AnswersInv => DecisionsHaveAuthors
  <2> SUFFICES ASSUME AnswersInv PROVE DecisionsHaveAuthors
    OBVIOUS
  <2>1. ASSUME NEW c \in Calls, AnsweredWith(c, "terminal")
        PROVE  packages[request[c].package] # NoPackage
               /\ packages[request[c].package].status \in Terminal
    BY <2>1 DEF AnswersInv, ToldTrue, AnsweredWith, IsDecided
  <2>2. ASSUME NEW id \in PackageIDs, packages[id] # NoPackage, packages[id].status \in Terminal
        PROVE  \E c \in Calls :
                  /\ request[c].op = "validate"
                  /\ request[c].package = id
                  /\ request[c].status = packages[id].status
                  /\ answer[c].code \in {"recorded", "failed"}
    BY <2>2 DEF AnswersInv, AuthorsKnown, IsDecided, DecidedBy, ValidationRequests
  <2> QED
    BY <2>1, <2>2 DEF DecisionsHaveAuthors
<1> QED
  BY <1>1, AnswersInvariance, PTL

(* A call that cannot announce changes nothing and is told so; every        *)
(* package was sent on a prepared connection.                               *)
THEOREM AnnouncingFailsClosed == Spec => []FailClosed
<1>1. AnswersInv => FailClosed
  <2> SUFFICES ASSUME AnswersInv, EventsWired PROVE FailClosed
    BY DEF FailClosed
  <2>1. \A c \in Calls \ AssertedCalls : answer[c].code \notin {"created", "recorded"}
    BY DEF AnswersInv, MayAnnounce
  <2>2. ASSUME NEW id \in PackageIDs, packages[id] # NoPackage
        PROVE  \E c \in AssertedCalls :
                  /\ request[c].op = "create"
                  /\ Holds(packages, id, request[c].tenant, StoredKey[request[c].key])
                  /\ packages[id].metadata = StoredMetadata[request[c].metadata]
                  /\ answer[c].code \in {"created", "failed"}
    <3>1. PICK c \in Calls : CreatedBy(c, packages[id])
      BY <2>2 DEF AnswersInv, AuthorsKnown
    <3> QED
      BY <2>2, <3>1 DEF CreatedBy, Sent, Holds, CreateRequests
  <2> QED
    BY <2>1, <2>2 DEF FailClosed
<1> QED
  BY <1>1, AnswersInvariance, PTL
=============================================================================
