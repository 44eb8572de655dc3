------------------------- MODULE EvidenceStoreProofs -------------------------
(***************************************************************************)
(* Proofs, for every number of calls, packages, tenants and spellings,     *)
(* that EvidenceStore keeps its tables consistent and implements the       *)
(* ledger.                                                                 *)
(***************************************************************************)
EXTENDS EvidenceStoreProperties, SequenceTheorems, TLAPS

-----------------------------------------------------------------------------
(* The data. *)

(* Both a received row and a decided one are rows of the table. *)
LEMMA RowFacts ==
    /\ \A r : BoundCreation(r) => StoredRow(r) \in Rows
    /\ \A row \in Rows, status \in Terminal : Decided(row, status) \in Rows
    /\ NoPackage \notin Rows
  BY DataAssumption DEF BoundCreation, StoredRow, CreateRequests, Rows, Decided, Statuses, Terminal

(* The two ways a package's story grows. *)
LEMMA Story ==
    ASSUME NEW row \in Rows, row.status = "received", NEW status \in Terminal
    PROVE  /\ Custody(row) = <<Received>>
           /\ Custody(Decided(row, status)) = <<Received, Decision("received", status)>>
           /\ Announced(row) = IF EventsWired THEN <<PackageEvent(row)>> ELSE <<>>
           /\ Announced(Decided(row, status)) =
                IF EventsWired
                THEN <<PackageEvent(row), ValidationEvent(Decision("received", status))>>
                ELSE <<>>
<1>1. row # NoPackage /\ Decided(row, status) # NoPackage
  BY RowFacts
<1>2. /\ Decided(row, status).status = status
      /\ Decided(row, status).metadata = row.metadata
      /\ status # "received"
  BY DEF Decided, Rows, Terminal
<1> QED
  BY <1>1, <1>2 DEF Custody, Announced, PackageEvent

(* The story is a sequence of rows of the two append-only tables. *)
LEMMA StoryType ==
    ASSUME NEW row \in Rows \cup {NoPackage}
    PROVE  Custody(row) \in Seq(Entries) /\ Announced(row) \in Seq(Events)
<1>1. Received \in Entries
  BY DEF Received, Entries, Statuses
<1>2. CASE row = NoPackage
  BY <1>2 DEF Custody, Announced
<1>3. CASE row # NoPackage
  <2>1. row.status \in Statuses /\ PackageEvent(row) \in Events
    BY <1>3 DEF Rows, PackageEvent, Events
  <2>2. Decision("received", row.status) \in Entries
    BY <2>1 DEF Decision, Entries, Statuses
  <2>3. ValidationEvent(Decision("received", row.status)) \in Events
    BY <2>2 DEF ValidationEvent, Events
  <2>4. <<Received>> \in Seq(Entries) /\ <<Received, Decision("received", row.status)>> \in Seq(Entries)
    BY <1>1, <2>2
  <2>5. /\ <<>> \in Seq(Events)
        /\ <<PackageEvent(row)>> \in Seq(Events)
        /\ <<PackageEvent(row), ValidationEvent(Decision("received", row.status))>> \in Seq(Events)
    BY <2>1, <2>3
  <2> QED
    BY <1>3, <2>4, <2>5 DEF Custody, Announced
<1> QED
  BY <1>2, <1>3

(* Appending to a table that holds nothing, or one row, of a package. *)
LEMMA AppendOne ==
    ASSUME NEW S, NEW a \in S, NEW b \in S
    PROVE  <<a>> \o <<b>> = <<a, b>>
<1> DEFINE s == <<a>>
<1> DEFINE t == <<b>>
<1> DEFINE u == <<a, b>>
<1>1. /\ s \in Seq(S) /\ Len(s) = 1 /\ s[1] = a
      /\ t \in Seq(S) /\ Len(t) = 1 /\ t[1] = b
      /\ u \in Seq(S) /\ Len(u) = 2 /\ u[1] = a /\ u[2] = b
  OBVIOUS
<1> HIDE DEF s, t, u
<1>2. /\ s \o t \in Seq(S)
      /\ Len(s \o t) = 2
      /\ (s \o t)[1] = a
      /\ (s \o t)[2] = b
  BY <1>1, ConcatProperties
<1>3. \A i \in 1..2 : (s \o t)[i] = u[i]
  BY <1>1, <1>2
<1>4. s \o t = u
  BY <1>1, <1>2, <1>3, SeqEqual
<1> QED
  BY <1>4 DEF s, t, u

-----------------------------------------------------------------------------
(* What a commit does to the tables. *)

(* The ledger reads the data as the store does. *)
LEMMA SameData ==
    /\ \A row : Ledger!Custody(row) = Custody(row)
    /\ \A row : Ledger!Announced(row) = Announced(row)
    /\ \A r : Ledger!StoredRow(r) = StoredRow(r)
    /\ \A rows, id, tenant, key :
          Ledger!Holds(rows, id, tenant, key) = Holds(rows, id, tenant, key)
    /\ Ledger!CreateRequests = CreateRequests
    /\ Ledger!Terminal = Terminal
  BY DEF Ledger!Custody, Custody, Ledger!Announced, Announced, Ledger!Received, Received,
         Ledger!Decision, Decision, Ledger!PackageEvent, PackageEvent,
         Ledger!ValidationEvent, ValidationEvent, Ledger!TopicPackage, TopicPackage,
         Ledger!TopicValidation, TopicValidation, Ledger!StoredRow, StoredRow,
         Ledger!Holds, Holds, Ledger!CreateRequests, CreateRequests, Ledger!Terminal, Terminal

(* The committed creation is the ledger's Receive. *)
LEMMA CommitReceives ==
    ASSUME IInv, NEW c \in Calls, Install(c),
           CreationWrites(c, <<Received>>, Announced(StoredRow(request[c])))
    PROVE  Ledger!Receive(tx[c].package, request[c])
<1> DEFINE id == tx[c].package
<1> DEFINE row == StoredRow(request[c])
<1>1. /\ id \in PackageIDs /\ id # NoPackage
      /\ row \in Rows /\ row.status = "received"
      /\ packages[id] = NoPackage
  BY DataAssumption, RowFacts DEF CreationWrites, StoredRow
<1>2. history[id] = <<>> /\ outbox[id] = <<>>
  BY <1>1 DEF IInv, TablesAgree, Custody, Announced
<1>3. Custody(row) = <<Received>>
  BY <1>1, RowFacts DEF Custody
<1>4. <<>> \o Custody(row) = Custody(row) /\ <<>> \o Announced(row) = Announced(row)
  BY <1>1, StoryType, ConcatEmptySeq
<1>5. /\ packages' = [packages EXCEPT ![id] = row]
      /\ history' = [history EXCEPT ![id] = history[id] \o tx[c].history]
      /\ outbox' = [outbox EXCEPT ![id] = outbox[id] \o tx[c].outbox]
  BY <1>1 DEF Install, CreationWrites
<1>6. tx[c].history = Custody(row) /\ tx[c].outbox = Announced(row)
  BY <1>3 DEF CreationWrites
<1>7. Ledger!Enter(id, row)
  BY <1>2, <1>4, <1>5, <1>6, SameData DEF Ledger!Enter
<1>8. /\ request[c].tenant # NoTenant
      /\ \A other \in PackageIDs :
            ~Holds(packages, other, request[c].tenant, StoredKey[request[c].key])
  BY DEF CreationWrites, BoundCreation
<1> QED
  BY <1>1, <1>7, <1>8, SameData DEF Ledger!Receive

(* The committed validation is the ledger's Decide. *)
LEMMA CommitDecides ==
    ASSUME IInv, NEW c \in Calls, Install(c),
           DecisionWrites(c, DecidedRow(c), DecidedEvents(c))
    PROVE  Ledger!Decide(request[c].package, request[c].status)
<1> DEFINE id == request[c].package
<1> DEFINE status == request[c].status
<1> DEFINE row == packages[id]
<1> DEFINE entry == Decision("received", status)
<1>1. /\ id \in PackageIDs /\ id # NoPackage
      /\ status \in Terminal
      /\ row # NoPackage /\ row.status = "received"
  BY DataAssumption DEF DecisionWrites, ValidationRequests
<1>2. row \in Rows /\ Decided(row, status) \in Rows
  BY <1>1, RowFacts DEF IInv, TypeOK
<1>3. history[id] = <<Received>> /\ Custody(Decided(row, status)) = <<Received, entry>>
  BY <1>1, <1>2, Story DEF IInv, TablesAgree
<1>4. history[id] \o <<entry>> = Custody(Decided(row, status))
  <2>1. Received \in Entries /\ entry \in Entries
    BY <1>1 DEF Received, Decision, Entries, Statuses
  <2> QED
    BY <1>3, <2>1, AppendOne
<1>5. outbox[id] \o DecidedEvents(c) = Announced(Decided(row, status))
  <2>1. outbox[id] = Announced(row)
    BY <1>1 DEF IInv, TablesAgree
  <2>2. CASE EventsWired
    <3>1. PackageEvent(row) \in Events /\ ValidationEvent(entry) \in Events
      BY <1>1, <1>2 DEF PackageEvent, ValidationEvent, Events, Rows, Decision, Entries, Statuses
    <3>2. <<PackageEvent(row)>> \o <<ValidationEvent(entry)>> = <<PackageEvent(row), ValidationEvent(entry)>>
      BY <3>1, AppendOne
    <3> QED
      BY <1>1, <1>2, <2>1, <2>2, <3>2, Story DEF DecidedEvents
  <2>3. CASE ~EventsWired
    <3>1. outbox[id] = <<>> /\ DecidedEvents(c) = <<>> /\ Announced(Decided(row, status)) = <<>>
      BY <2>1, <2>3 DEF Announced, DecidedEvents
    <3> QED
      BY <3>1, ConcatEmptySeq, EmptySeq
  <2> QED
    BY <2>2, <2>3
<1>6. /\ packages' = [packages EXCEPT ![id] = Decided(row, status)]
      /\ history' = [history EXCEPT ![id] = history[id] \o <<entry>>]
      /\ outbox' = [outbox EXCEPT ![id] = outbox[id] \o DecidedEvents(c)]
  BY <1>1 DEF Install, DecisionWrites, DecidedRow
<1>7. Ledger!Enter(id, Decided(row, status))
  BY <1>4, <1>5, <1>6, SameData DEF Ledger!Enter
<1> QED
  BY <1>1, <1>7 DEF Ledger!Decide, Decided

(* Every step of the ledger keeps the tables in agreement and the keys      *)
(* unique.                                                                  *)
LEMMA LedgerKeepsTables ==
    ASSUME TypeOK, TablesAgree, UniqueIdempotency, Ledger!Next
    PROVE  /\ packages' \in [PackageIDs -> Rows \cup {NoPackage}]
           /\ history' \in [PackageIDs -> Seq(Entries)]
           /\ outbox' \in [PackageIDs -> Seq(Events)]
           /\ TablesAgree'
           /\ UniqueIdempotency'
<1>1. ASSUME NEW id \in PackageIDs, NEW row \in Rows, Ledger!Enter(id, row)
      PROVE  /\ packages' \in [PackageIDs -> Rows \cup {NoPackage}]
             /\ history' \in [PackageIDs -> Seq(Entries)]
             /\ outbox' \in [PackageIDs -> Seq(Events)]
             /\ TablesAgree'
  <2>1. Custody(row) \in Seq(Entries) /\ Announced(row) \in Seq(Events)
    BY StoryType
  <2> QED
    BY <1>1, <2>1, SameData DEF Ledger!Enter, TypeOK, TablesAgree
<1>2. CASE \E id \in PackageIDs, r \in CreateRequests : Ledger!Receive(id, r)
  <2> PICK id \in PackageIDs, r \in CreateRequests : Ledger!Receive(id, r)
    BY <1>2
  <2>1. StoredRow(r) \in Rows /\ Ledger!Enter(id, StoredRow(r))
    BY RowFacts, SameData DEF Ledger!Receive, BoundCreation
  <2>2. /\ packages' = [packages EXCEPT ![id] = StoredRow(r)]
        /\ \A other \in PackageIDs : ~Holds(packages, other, r.tenant, StoredKey[r.key])
    BY SameData DEF Ledger!Receive, Ledger!Enter
  <2>3. UniqueIdempotency'
    BY <2>2 DEF UniqueIdempotency, TypeOK, Holds, StoredRow
  <2> QED
    BY <1>1, <2>1, <2>3
<1>3. CASE \E id \in PackageIDs, status \in Terminal : Ledger!Decide(id, status)
  <2> PICK id \in PackageIDs, status \in Terminal : Ledger!Decide(id, status)
    BY <1>3
  <2>1. packages[id] \in Rows /\ Ledger!Enter(id, Decided(packages[id], status))
    BY DEF Ledger!Decide, Decided, TypeOK
  <2>2. Decided(packages[id], status) \in Rows
    BY <2>1, RowFacts
  <2>3. packages' = [packages EXCEPT ![id] = Decided(packages[id], status)]
    BY <2>1 DEF Ledger!Enter
  <2>4. /\ Decided(packages[id], status).tenant = packages[id].tenant
        /\ Decided(packages[id], status).key = packages[id].key
        /\ packages[id] # NoPackage
    BY <2>1, RowFacts DEF Decided, Rows
  <2>5. UniqueIdempotency'
    BY <2>3, <2>4 DEF UniqueIdempotency, TypeOK
  <2> QED
    BY <1>1, <2>1, <2>2, <2>5
<1> QED
  BY <1>2, <1>3, SameData DEF Ledger!Next

-----------------------------------------------------------------------------
(* Steps inside a transaction: they write only what belongs to one call. *)

(* The per-call state of d is what it was. *)
Undisturbed(d) ==
    /\ pc'[d] = pc[d]
    /\ request'[d] = request[d]
    /\ tx'[d] = tx[d]
    /\ snapshot'[d] = snapshot[d]
    /\ prior'[d] = prior[d]

(* The other calls cannot tell that c has taken a step in its transaction. *)
LEMMA LocalStep ==
    ASSUME IInv, NEW c \in Calls, UNCHANGED tables, TypeOK',
           \A d \in Calls \ {c} : Undisturbed(d),
           StatementOK(c)',
           \A d \in Calls \ {c} : Apart(c, d)'
    PROVE  IInv'
<1>1. TablesAgree' /\ UniqueIdempotency'
  BY DEF IInv, tables, TablesAgree, UniqueIdempotency
<1>2. \A d \in Calls : StatementOK(d)'
  <2> SUFFICES ASSUME NEW d \in Calls \ {c} PROVE StatementOK(d)'
    OBVIOUS
  <2>1. StatementOK(d) /\ Undisturbed(d)
    BY DEF IInv
  <2>2. \A rows, events : CreationWrites(d, rows, events) => CreationWrites(d, rows, events)'
    BY <2>1 DEF Undisturbed, tables, CreationWrites, Holds
  <2>3. \A row, events : DecisionWrites(d, row, events) => DecisionWrites(d, row, events)'
    BY <2>1 DEF Undisturbed, tables, DecisionWrites
  <2>4. DecidedRow(d)' = DecidedRow(d) /\ DecidedEvents(d)' = DecidedEvents(d)
    BY <2>1 DEF Undisturbed, tables, DecidedRow, DecidedEvents
  <2>5. packages' = packages
    BY DEF tables
  <2> QED
    BY <2>1, <2>2, <2>3, <2>4, <2>5 DEF Undisturbed, StatementOK
<1>3. \A d, e \in Calls : d # e => Apart(d, e)'
  <2> SUFFICES ASSUME NEW d \in Calls, NEW e \in Calls, d # e PROVE Apart(d, e)'
    OBVIOUS
  <2>1. CASE d = c
    BY <2>1
  <2>2. CASE e = c
    BY <2>2 DEF Apart
  <2>3. CASE d # c /\ e # c
    <3>1. Apart(d, e) /\ Undisturbed(d) /\ Undisturbed(e)
      BY <2>3 DEF IInv
    <3> QED
      BY <3>1 DEF Apart, Undisturbed, Creating
  <2> QED
    BY <2>1, <2>2, <2>3
<1> QED
  BY <1>1, <1>2, <1>3 DEF IInv

(* A step that goes to another statement and changes, beside the label, at  *)
(* most what the transaction has written and read.                          *)
LEMMA MoveType ==
    ASSUME TypeOK, NEW c \in Calls, NEW label \in Labels, Goto(c, label),
           UNCHANGED <<packages, history, outbox, request, prior, answer>>,
           tx' = tx \/ (\E writes \in Writes : tx' = [tx EXCEPT ![c] = writes]),
           snapshot' = snapshot
             \/ (\E read \in Snapshots : snapshot' = [snapshot EXCEPT ![c] = read])
    PROVE  TypeOK'
<1>1. pc' \in [Calls -> Labels]
  BY DEF TypeOK, Goto
<1>2. tx' \in [Calls -> Writes]
  BY DEF TypeOK
<1>3. snapshot' \in [Calls -> Snapshots]
  BY DEF TypeOK
<1> QED
  BY <1>1, <1>2, <1>3 DEF TypeOK

(* What a call starts from and ends with. *)
LEMMA BlankTypes ==
    /\ NoTx \in Writes /\ NoSnapshot \in Snapshots /\ NoRequest \in Requests
    /\ NoAnswer \in Answers /\ "received" \in Statuses
    /\ "start" \in Labels /\ "answered" \in Labels
<1>1. NoTx \in Writes
  BY EmptySeq DEF NoTx, Writes
<1>2. NoSnapshot \in Snapshots
  BY EmptySeq DEF NoSnapshot, Snapshots
<1>3. NoAnswer \in Answers
  BY DEF NoAnswer, Answers, Codes
<1> QED
  BY <1>1, <1>2, <1>3 DEF NoRequest, Requests, Statuses, Labels

(* Ending a call keeps the types. *)
LEMMA ReturnType ==
    ASSUME TypeOK, NEW c \in Calls, NEW code \in Codes, NEW id \in PackageIDs \cup {NoPackage},
           NEW row \in Rows \cup {NoPackage}, Return(c, code, id, row)
    PROVE  /\ pc' \in [Calls -> Labels]
           /\ request' \in [Calls -> Requests]
           /\ tx' \in [Calls -> Writes]
           /\ snapshot' \in [Calls -> Snapshots]
           /\ prior' \in [Calls -> Statuses]
           /\ answer' \in [Calls -> Answers]
<1>1. [code |-> code, package |-> id, row |-> row] \in Answers
  BY DEF Answers
<1>2. answer' \in [Calls -> Answers]
  BY <1>1 DEF TypeOK, Return
<1> QED
  BY <1>2, BlankTypes DEF TypeOK, Return

(* Ending a call with a rollback. *)
LEMMA RollbackStep ==
    ASSUME IInv, NEW c \in Calls, NEW code \in Codes, Rollback(c, code)
    PROVE  IInv'
<1>1. TypeOK'
  <2>1. Return(c, code, NoPackage, NoPackage) /\ UNCHANGED tables /\ TypeOK
    BY DEF IInv, Rollback
  <2> QED
    BY <2>1, ReturnType DEF TypeOK, tables
<1>2. tx'[c] = NoTx /\ pc'[c] = "answered" /\ prior'[c] = "received"
  BY DEF IInv, TypeOK, Rollback, Return
<1>3. StatementOK(c)'
  BY <1>2 DEF StatementOK
<1>4. \A d \in Calls \ {c} : Undisturbed(d)
  BY DEF IInv, TypeOK, Rollback, Return, Undisturbed
<1>5. \A d \in Calls \ {c} : Apart(c, d)'
  BY <1>2 DEF Apart, NoTx, Creating
<1>6. UNCHANGED tables
  BY DEF Rollback
<1> QED
  BY <1>1, <1>3, <1>4, <1>5, <1>6, LocalStep

(* Accepting a request: Create's blank tenant check, and both BEGINs. *)
LEMMA ArriveStep ==
    ASSUME IInv, NEW c \in Calls, Arrive(c)
    PROVE  IInv'
<1>1. \E r \in CreateRequests \cup ValidationRequests :
         /\ pc[c] = "start"
         /\ request' = [request EXCEPT ![c] = r]
         /\ \/ pc' = [pc EXCEPT ![c] = "answered"]
            \/ BoundCreation(r) /\ pc' = [pc EXCEPT ![c] = "insert"]
            \/ r \in ValidationRequests /\ pc' = [pc EXCEPT ![c] = "load"]
         /\ UNCHANGED <<packages, history, outbox, tx, snapshot, prior>>
  BY DEF Arrive, RejectUnbound, BeginCreate, BeginValidation, BoundCreation, Goto
<1>2. TypeOK'
  <2>1. answer' \in [Calls -> Answers]
    <3>1. [NoAnswer EXCEPT !.code = "unbound"] \in Answers
      BY DEF NoAnswer, Answers, Codes
    <3>2. \/ answer' = answer
          \/ answer' = [answer EXCEPT ![c] = [NoAnswer EXCEPT !.code = "unbound"]]
      BY DEF Arrive, RejectUnbound, BeginCreate, BeginValidation
    <3> QED
      BY <3>1, <3>2 DEF IInv, TypeOK
  <2>2. pc' \in [Calls -> Labels]
    BY <1>1 DEF IInv, TypeOK, Labels, InTransaction
  <2>3. request' \in [Calls -> Requests]
    BY <1>1 DEF IInv, TypeOK, Requests
  <2> QED
    BY <1>1, <2>1, <2>2, <2>3 DEF IInv, TypeOK
<1>3. StatementOK(c)'
  BY <1>1 DEF IInv, TypeOK, StatementOK
<1>4. \A d \in Calls \ {c} : Undisturbed(d)
  BY <1>1 DEF IInv, TypeOK, Undisturbed
<1>5. \A d \in Calls \ {c} : Apart(c, d)'
  <2>1. tx'[c] = NoTx
    BY <1>1 DEF IInv, StatementOK
  <2> QED
    BY <2>1 DEF Apart, NoTx, Creating
<1>6. UNCHANGED tables
  BY <1>1 DEF tables
<1> QED
  BY <1>2, <1>3, <1>4, <1>5, <1>6, LocalStep

(* Create's INSERT ... ON CONFLICT DO NOTHING: the new row waits under an   *)
(* id and a key nobody else holds or waits for.                             *)
LEMMA InsertPackageStep ==
    ASSUME IInv, NEW c \in Calls, InsertPackage(c)
    PROVE  IInv'
<1> DEFINE r == request[c]
<1> DEFINE key == StoredKey[r.key]
<1>1. /\ pc[c] = "insert" /\ tx[c] = NoTx
      /\ BoundCreation(r)
      /\ StoredRow(r) \in Rows
      /\ UNCHANGED <<packages, history, outbox, request, snapshot, prior, answer>>
  BY RowFacts DEF IInv, StatementOK, InsertPackage
<1>2. CASE Goto(c, "lookup") /\ UNCHANGED tx
  <2>1. TypeOK'
    BY <1>1, <1>2, MoveType DEF IInv, Labels, InTransaction
  <2>2. StatementOK(c)'
    BY <1>1, <1>2 DEF IInv, TypeOK, StatementOK, Goto
  <2>3. \A d \in Calls \ {c} : Undisturbed(d)
    BY <1>1, <1>2 DEF IInv, TypeOK, Undisturbed, Goto
  <2>4. \A d \in Calls \ {c} : Apart(c, d)'
    BY <1>1, <1>2 DEF Apart, NoTx, Creating
  <2> QED
    BY <1>1, <2>1, <2>2, <2>3, <2>4, LocalStep DEF tables
<1>3. CASE \E id \in PackageIDs :
              /\ ~\E other \in PackageIDs : Holds(packages, other, r.tenant, key)
              /\ FreshID(id)
              /\ tx' = [tx EXCEPT ![c] = [@ EXCEPT !.package = id, !.row = StoredRow(r)]]
              /\ Goto(c, "initial")
  <2> PICK id \in PackageIDs :
              /\ ~\E other \in PackageIDs : Holds(packages, other, r.tenant, key)
              /\ FreshID(id)
              /\ tx' = [tx EXCEPT ![c] = [@ EXCEPT !.package = id, !.row = StoredRow(r)]]
              /\ Goto(c, "initial")
    BY <1>3
  <2>1. /\ tx'[c].package = id /\ tx'[c].row = StoredRow(r)
        /\ tx'[c].history = <<>> /\ tx'[c].outbox = <<>>
    <3>1. tx'[c] = [NoTx EXCEPT !.package = id, !.row = StoredRow(r)]
      BY <1>1 DEF IInv, TypeOK
    <3> QED
      BY <3>1 DEF NoTx
  <2>2. TypeOK'
    <3>1. [NoTx EXCEPT !.package = id, !.row = StoredRow(r)] \in Writes
      BY <1>1, EmptySeq DEF NoTx, Writes
    <3>2. tx' = [tx EXCEPT ![c] = [NoTx EXCEPT !.package = id, !.row = StoredRow(r)]]
      BY <1>1
    <3> QED
      BY <1>1, <3>1, <3>2, MoveType DEF IInv, Labels, InTransaction
  <2>3. CreationWrites(c, <<>>, <<>>)'
    BY <1>1, <2>1 DEF CreationWrites, FreshID, Holds
  <2>4. StatementOK(c)'
    BY <1>1, <2>3 DEF IInv, TypeOK, StatementOK, Goto
  <2>5. \A d \in Calls \ {c} : Undisturbed(d)
    BY <1>1 DEF IInv, TypeOK, Undisturbed, Goto
  <2>6. \A d \in Calls \ {c} : Apart(c, d)'
    <3> SUFFICES ASSUME NEW d \in Calls \ {c} PROVE Apart(c, d)'
      OBVIOUS
    <3>1. tx'[d] = tx[d] /\ request'[d] = request[d]
      BY <2>5 DEF Undisturbed
    <3>2. tx[d].package # id
      BY DEF FreshID
    <3>3. ~InsertPending(d, r.tenant, key)
      BY DEF InsertPackage
    <3> QED
      BY <2>1, <3>1, <3>2, <3>3 DEF Apart, Creating, InsertPending, StoredRow
  <2> QED
    BY <1>1, <2>2, <2>4, <2>5, <2>6, LocalStep DEF tables
<1> QED
  BY <1>2, <1>3 DEF InsertPackage

(* Create's first history row. *)
LEMMA InsertInitialHistoryStep ==
    ASSUME IInv, NEW c \in Calls, InsertInitialHistory(c)
    PROVE  IInv'
<1>1. /\ pc[c] = "initial" /\ CreationWrites(c, <<>>, <<>>)
      /\ tx' = [tx EXCEPT ![c].history = <<Received>>]
      /\ Goto(c, "enqueue")
      /\ UNCHANGED <<packages, history, outbox, request, snapshot, prior, answer>>
  BY DEF IInv, StatementOK, InsertInitialHistory
<1>2. /\ tx'[c].package = tx[c].package /\ tx'[c].row = tx[c].row
      /\ tx'[c].history = <<Received>> /\ tx'[c].outbox = tx[c].outbox
  BY <1>1 DEF IInv, TypeOK, Writes
<1>3. TypeOK'
  <2>1. <<Received>> \in Seq(Entries)
    BY DEF Received, Entries, Statuses
  <2>2. [tx[c] EXCEPT !.history = <<Received>>] \in Writes
    BY <2>1 DEF IInv, TypeOK, Writes
  <2>3. tx' = [tx EXCEPT ![c] = [tx[c] EXCEPT !.history = <<Received>>]]
    BY <1>1
  <2> QED
    BY <1>1, <2>2, <2>3, MoveType DEF IInv, Labels, InTransaction
<1>4. CreationWrites(c, <<Received>>, <<>>)'
  BY <1>1, <1>2 DEF CreationWrites, Holds
<1>5. StatementOK(c)'
  BY <1>1, <1>4 DEF IInv, TypeOK, StatementOK, Goto
<1>6. \A d \in Calls \ {c} : Undisturbed(d)
  BY <1>1 DEF IInv, TypeOK, Undisturbed, Goto
<1>7. \A d \in Calls \ {c} : Apart(c, d)'
  BY <1>1, <1>2, <1>6 DEF IInv, Apart, Creating, Undisturbed
<1> QED
  BY <1>1, <1>3, <1>5, <1>6, <1>7, LocalStep DEF tables

(* Create's lookup of the retained row. *)
LEMMA LookupRetainedStep ==
    ASSUME IInv, NEW c \in Calls, LookupRetained(c)
    PROVE  IInv'
<1>1. /\ pc[c] = "lookup" /\ tx[c] = NoTx /\ BoundCreation(request[c])
  BY DEF IInv, StatementOK, LookupRetained
<1>2. CASE Rollback(c, "conflict")
  BY <1>2, RollbackStep DEF Codes
<1>3. CASE \E id \in PackageIDs :
              /\ packages[id] # NoPackage
              /\ snapshot' = [snapshot EXCEPT ![c] = [@ EXCEPT !.package = id, !.row = packages[id]]]
              /\ Goto(c, "commit")
              /\ UNCHANGED <<packages, history, outbox, request, tx, prior, answer>>
  <2> PICK id \in PackageIDs :
              /\ packages[id] # NoPackage
              /\ snapshot' = [snapshot EXCEPT ![c] = [@ EXCEPT !.package = id, !.row = packages[id]]]
              /\ Goto(c, "commit")
              /\ UNCHANGED <<packages, history, outbox, request, tx, prior, answer>>
    BY <1>3
  <2>1. TypeOK'
    <3>1. snapshot[c] \in Snapshots /\ packages[id] \in Rows \cup {NoPackage}
      BY DEF IInv, TypeOK
    <3>2. [snapshot[c] EXCEPT !.package = id, !.row = packages[id]] \in Snapshots
      BY <3>1 DEF Snapshots
    <3> QED
      BY <3>2, MoveType DEF IInv, Labels, InTransaction
  <2>2. StatementOK(c)'
    BY <1>1 DEF IInv, TypeOK, StatementOK, Goto
  <2>3. \A d \in Calls \ {c} : Undisturbed(d)
    BY DEF IInv, TypeOK, Undisturbed, Goto
  <2>4. \A d \in Calls \ {c} : Apart(c, d)'
    BY <1>1 DEF Apart, NoTx, Creating
  <2> QED
    BY <2>1, <2>2, <2>3, <2>4, LocalStep DEF tables
<1> QED
  BY <1>2, <1>3 DEF LookupRetained, Holds

(* RecordValidation's first SELECT. *)
LEMMA LoadForValidationStep ==
    ASSUME IInv, NEW c \in Calls, LoadForValidation(c)
    PROVE  IInv'
<1> DEFINE id == request[c].package
<1>1. pc[c] = "load" /\ tx[c] = NoTx /\ request[c] \in ValidationRequests
  BY DEF IInv, StatementOK, LoadForValidation
<1>2. id \in PackageIDs
  BY <1>1 DEF ValidationRequests
<1>3. CASE Rollback(c, "not_found")
  BY <1>3, RollbackStep DEF Codes
<1>4. CASE /\ packages[id] # NoPackage
           /\ snapshot' = [snapshot EXCEPT ![c] =
                  [package |-> id, row |-> packages[id], history |-> history[id]]]
           /\ Goto(c, "read")
           /\ UNCHANGED <<packages, history, outbox, request, tx, prior, answer>>
  <2>1. TypeOK'
    <3>1. [package |-> id, row |-> packages[id], history |-> history[id]] \in Snapshots
      BY <1>2 DEF IInv, TypeOK, Snapshots
    <3> QED
      BY <1>4, <3>1, MoveType DEF IInv, Labels, InTransaction
  <2>2. history[id] = Custody(packages[id])
    BY <1>2 DEF IInv, TablesAgree
  <2>3. snapshot'[c].history = history[id] /\ snapshot'[c].row = packages[id]
    BY <1>4 DEF IInv, TypeOK
  <2>4. StatementOK(c)'
    BY <1>1, <1>4, <2>2, <2>3 DEF IInv, TypeOK, StatementOK, Goto
  <2>5. \A d \in Calls \ {c} : Undisturbed(d)
    BY <1>4 DEF IInv, TypeOK, Undisturbed, Goto
  <2>6. \A d \in Calls \ {c} : Apart(c, d)'
    BY <1>1, <1>4 DEF Apart, NoTx, Creating
  <2> QED
    BY <1>4, <2>1, <2>4, <2>5, <2>6, LocalStep DEF tables
<1> QED
  BY <1>3, <1>4 DEF LoadForValidation

(* In a custody without a terminal decision every row is "received". *)
LEMMA UndecidedCustody ==
    ASSUME NEW row \in Rows \cup {NoPackage}, ~HasTerminal(Custody(row)), NEW i \in DOMAIN Custody(row)
    PROVE  Custody(row)[i].status = "received"
<1>1. CASE row = NoPackage
  BY <1>1 DEF Custody
<1>2. CASE row # NoPackage /\ row.status = "received"
  <2>1. Custody(row) = <<Received>>
    BY <1>2 DEF Custody
  <2>2. i = 1
    BY <2>1
  <2> QED
    BY <2>1, <2>2 DEF Received
<1>3. CASE row # NoPackage /\ row.status # "received"
  <2>1. Custody(row) = <<Received, Decision("received", row.status)>>
    BY <1>3 DEF Custody
  <2>2. i = 1 \/ i = 2
    BY <2>1
  <2>3. CASE i = 1
    BY <2>1, <2>3 DEF Received
  <2>4. CASE i = 2
    <3>1. Custody(row)[2].status = row.status /\ 2 \in DOMAIN Custody(row)
      BY <2>1 DEF Decision
    <3> QED
      BY <1>3, <2>4, <3>1 DEF HasTerminal, Rows, Statuses
  <2> QED
    BY <2>2, <2>3, <2>4
<1> QED
  BY <1>1, <1>2, <1>3

(* RecordValidation's EXISTS query and its priorStatus. *)
LEMMA ReadHistoryStep ==
    ASSUME IInv, NEW c \in Calls, ReadHistory(c)
    PROVE  IInv'
<1>1. /\ pc[c] = "read" /\ tx[c] = NoTx /\ request[c] \in ValidationRequests
      /\ packages[request[c].package] # NoPackage
      /\ snapshot[c].history = Custody(snapshot[c].row)
      /\ prior[c] = "received"
  BY DEF IInv, StatementOK, ReadHistory
<1>2. CASE Rollback(c, "terminal")
  BY <1>2, RollbackStep DEF Codes
<1>3. CASE /\ ~HasTerminal(snapshot[c].history)
           /\ \/ \E i \in DOMAIN snapshot[c].history :
                    prior' = [prior EXCEPT ![c] = snapshot[c].history[i].status]
              \/ snapshot[c].history = <<>> /\ UNCHANGED prior
           /\ Goto(c, "decide")
           /\ UNCHANGED <<packages, history, outbox, request, tx, snapshot, answer>>
  <2>1. prior' = prior
    <3>1. \A i \in DOMAIN snapshot[c].history : snapshot[c].history[i].status = "received"
      <4>1. snapshot[c].row \in Rows \cup {NoPackage}
        BY DEF IInv, TypeOK, Snapshots
      <4> QED
        BY <1>1, <1>3, <4>1, UndecidedCustody
    <3>2. prior \in [Calls -> Statuses] /\ prior[c] = "received"
      BY <1>1 DEF IInv, TypeOK
    <3>3. prior' = [prior EXCEPT ![c] = "received"] \/ prior' = prior
      BY <1>3, <3>1
    <3> QED
      BY <3>2, <3>3
  <2>2. TypeOK'
    BY <1>3, <2>1, MoveType DEF IInv, Labels, InTransaction
  <2>3. StatementOK(c)'
    BY <1>1, <1>3, <2>1 DEF IInv, TypeOK, StatementOK, Goto
  <2>4. \A d \in Calls \ {c} : Undisturbed(d)
    BY <1>3, <2>1 DEF IInv, TypeOK, Undisturbed, Goto
  <2>5. \A d \in Calls \ {c} : Apart(c, d)'
    BY <1>1, <1>3 DEF Apart, NoTx, Creating
  <2> QED
    BY <1>3, <2>2, <2>3, <2>4, <2>5, LocalStep DEF tables
<1> QED
  BY <1>2, <1>3 DEF ReadHistory

(* A package whose history has no terminal row is still received. *)
LEMMA UndecidedPackage ==
    ASSUME IInv, NEW id \in PackageIDs, packages[id] # NoPackage, ~HasTerminal(history[id])
    PROVE  packages[id].status = "received"
<1> SUFFICES ASSUME packages[id].status # "received" PROVE FALSE
  OBVIOUS
<1>1. packages[id].status \in Terminal
  BY DEF IInv, TypeOK, Rows, Statuses
<1>2. history[id] = <<Received, Decision("received", packages[id].status)>>
  BY DEF IInv, TablesAgree, Custody
<1>3. 2 \in DOMAIN history[id] /\ history[id][2].status = packages[id].status
  BY <1>2 DEF Decision
<1> QED
  BY <1>1, <1>3 DEF HasTerminal

(* Whoever writes to an existing package holds its terminal index entry. *)
LEMMA WriterHoldsIndex ==
    ASSUME IInv, NEW d \in Calls, tx[d].package # NoPackage, packages[tx[d].package] # NoPackage
    PROVE  HasTerminal(tx[d].history)
<1>1. StatementOK(d) /\ pc[d] \in InTransaction \cup {"start", "answered"}
  BY DEF IInv, TypeOK, Labels
<1>2. tx[d] # NoTx
  BY DEF NoTx
<1>3. \A rows, events : ~CreationWrites(d, rows, events)
  BY DEF CreationWrites
<1>4. \E row, events : DecisionWrites(d, row, events)
  BY <1>1, <1>2, <1>3 DEF StatementOK, InTransaction
<1>5. /\ tx[d].history = <<Decision("received", request[d].status)>>
      /\ request[d].status \in Terminal
  BY <1>4 DEF DecisionWrites, ValidationRequests
<1>6. 1 \in DOMAIN tx[d].history /\ tx[d].history[1].status \in Terminal
  BY <1>5 DEF Decision
<1> QED
  BY <1>6 DEF HasTerminal

(* RecordValidation's INSERT under the one-terminal-decision index: nobody  *)
(* else writes to this package until the transaction ends.                  *)
LEMMA InsertTerminalStep ==
    ASSUME IInv, NEW c \in Calls, InsertTerminal(c)
    PROVE  IInv'
<1> DEFINE id == request[c].package
<1> DEFINE entry == Decision("received", request[c].status)
<1>1. /\ pc[c] = "decide" /\ tx[c] = NoTx /\ request[c] \in ValidationRequests
      /\ packages[id] # NoPackage
      /\ prior[c] = "received"
      /\ \A d \in Calls : ~DecisionPending(d, id)
  BY DEF IInv, StatementOK, InsertTerminal
<1>2. id \in PackageIDs /\ request[c].status \in Terminal
  BY <1>1 DEF ValidationRequests
<1>3. CASE Rollback(c, "refused")
  BY <1>3, RollbackStep DEF Codes
<1>4. CASE /\ ~HasTerminal(history[id])
           /\ tx' = [tx EXCEPT ![c] = [@ EXCEPT !.package = id, !.history = <<entry>>]]
           /\ Goto(c, "update")
           /\ UNCHANGED <<packages, history, outbox, request, snapshot, prior, answer>>
  <2>1. packages[id].status = "received"
    BY <1>1, <1>2, <1>4, UndecidedPackage
  <2>2. /\ tx'[c].package = id /\ tx'[c].row = NoPackage
        /\ tx'[c].history = <<entry>> /\ tx'[c].outbox = <<>>
    <3>1. tx'[c] = [NoTx EXCEPT !.package = id, !.history = <<entry>>]
      BY <1>1, <1>4 DEF IInv, TypeOK
    <3> QED
      BY <3>1 DEF NoTx
  <2>3. TypeOK'
    <3>1. <<entry>> \in Seq(Entries)
      BY <1>2 DEF Decision, Entries, Statuses
    <3>2. [tx[c] EXCEPT !.package = id, !.history = <<entry>>] \in Writes
      BY <1>2, <3>1 DEF IInv, TypeOK, Writes
    <3> QED
      BY <1>4, <3>2, MoveType DEF IInv, Labels, InTransaction
  <2>4. DecisionWrites(c, NoPackage, <<>>)'
    BY <1>1, <1>4, <2>1, <2>2 DEF DecisionWrites
  <2>5. StatementOK(c)'
    BY <1>1, <1>4, <2>4 DEF IInv, TypeOK, StatementOK, Goto
  <2>6. \A d \in Calls \ {c} : Undisturbed(d)
    BY <1>4 DEF IInv, TypeOK, Undisturbed, Goto
  <2>7. \A d \in Calls \ {c} : Apart(c, d)'
    <3> SUFFICES ASSUME NEW d \in Calls \ {c} PROVE Apart(c, d)'
      OBVIOUS
    <3>1. tx'[d] = tx[d]
      BY <2>6 DEF Undisturbed
    <3>2. ~Creating(c)'
      BY <2>2 DEF Creating
    <3>3. tx[d].package # id
      BY <1>1, <1>2, WriterHoldsIndex, DataAssumption DEF DecisionPending
    <3> QED
      BY <2>2, <3>1, <3>2, <3>3 DEF Apart
  <2> QED
    BY <1>4, <2>3, <2>5, <2>6, <2>7, LocalStep DEF tables
<1> QED
  BY <1>1, <1>3, <1>4 DEF InsertTerminal

(* RecordValidation's UPDATE of the package row. *)
LEMMA UpdateStatusStep ==
    ASSUME IInv, NEW c \in Calls, UpdateStatus(c)
    PROVE  IInv'
<1> DEFINE id == request[c].package
<1>1. pc[c] = "update" /\ DecisionWrites(c, NoPackage, <<>>)
  BY DEF IInv, StatementOK, UpdateStatus
<1>2. /\ id \in PackageIDs /\ request[c].status \in Terminal
      /\ packages[id] \in Rows
  BY <1>1 DEF DecisionWrites, ValidationRequests, IInv, TypeOK
<1>3. CASE Rollback(c, "refused")
  BY <1>3, RollbackStep DEF Codes
<1>4. CASE /\ tx' = [tx EXCEPT ![c].row = Decided(packages[id], request[c].status)]
           /\ Goto(c, "enqueue")
           /\ UNCHANGED <<packages, history, outbox, request, snapshot, prior, answer>>
  <2>1. /\ tx'[c].package = tx[c].package /\ tx'[c].history = tx[c].history
        /\ tx'[c].outbox = tx[c].outbox
        /\ tx'[c].row = Decided(packages[id], request[c].status)
    BY <1>4 DEF IInv, TypeOK, Writes
  <2>2. TypeOK'
    <3>1. Decided(packages[id], request[c].status) \in Rows
      BY <1>2, RowFacts
    <3>2. [tx[c] EXCEPT !.row = Decided(packages[id], request[c].status)] \in Writes
      BY <3>1 DEF IInv, TypeOK, Writes
    <3>3. tx' = [tx EXCEPT ![c] = [tx[c] EXCEPT !.row = Decided(packages[id], request[c].status)]]
      BY <1>4
    <3> QED
      BY <1>4, <3>2, <3>3, MoveType DEF IInv, Labels, InTransaction
  <2>3. DecisionWrites(c, DecidedRow(c), <<>>)'
    BY <1>1, <1>4, <2>1 DEF DecisionWrites, DecidedRow
  <2>4. StatementOK(c)'
    BY <1>4, <2>3 DEF IInv, TypeOK, StatementOK, Goto
  <2>5. \A d \in Calls \ {c} : Undisturbed(d)
    BY <1>4 DEF IInv, TypeOK, Undisturbed, Goto
  <2>6. ~Creating(c)'
    BY <1>1, <1>4 DEF Creating, DecisionWrites, ValidationRequests
  <2>7. \A d \in Calls \ {c} : Apart(c, d)'
    BY <2>1, <2>5, <2>6 DEF IInv, Apart, Undisturbed
  <2> QED
    BY <1>4, <2>2, <2>4, <2>5, <2>7, LocalStep DEF tables
<1> QED
  BY <1>3, <1>4 DEF UpdateStatus

(* enqueueOutbox: the event is the one the ledger announces. *)
LEMMA EnqueueStep ==
    ASSUME IInv, NEW c \in Calls, Enqueue(c)
    PROVE  IInv'
<1>1. /\ pc[c] = "enqueue" /\ prior[c] = "received"
      /\ \/ CreationWrites(c, <<Received>>, <<>>)
         \/ DecisionWrites(c, DecidedRow(c), <<>>)
  BY DEF IInv, StatementOK, Enqueue
<1>2. CASE Rollback(c, "refused")
  BY <1>2, RollbackStep DEF Codes
<1>3. CASE /\ tx' = [tx EXCEPT ![c].outbox = Announce(c)]
           /\ Goto(c, "commit")
           /\ UNCHANGED <<packages, history, outbox, request, snapshot, prior, answer>>
  <2>1. /\ tx'[c].package = tx[c].package /\ tx'[c].history = tx[c].history
        /\ tx'[c].row = tx[c].row
        /\ tx'[c].outbox = Announce(c)
    BY <1>3 DEF IInv, TypeOK, Writes
  <2>4. ASSUME Announce(c) \in Seq(Events) PROVE TypeOK'
    <3>1. [tx[c] EXCEPT !.outbox = Announce(c)] \in Writes
      BY <2>4 DEF IInv, TypeOK, Writes
    <3>2. tx' = [tx EXCEPT ![c] = [tx[c] EXCEPT !.outbox = Announce(c)]]
      BY <1>3
    <3> QED
      BY <1>3, <3>1, <3>2, MoveType DEF IInv, Labels, InTransaction
  <2>2. CASE CreationWrites(c, <<Received>>, <<>>)
    <3>1. StoredRow(request[c]) \in Rows /\ StoredRow(request[c]).status = "received"
      BY <2>2, RowFacts DEF CreationWrites, StoredRow
    <3>2. Announce(c) = Announced(StoredRow(request[c]))
      <4>1. request[c].op = "create" /\ tx[c].row = StoredRow(request[c])
        BY <2>2 DEF CreationWrites, BoundCreation, CreateRequests
      <4>2. StoredRow(request[c]) # NoPackage
        BY <3>1, RowFacts
      <4> QED
        BY <3>1, <4>1, <4>2 DEF Announce, EventFor, Announced
    <3> QED
      <4>1. Announce(c) \in Seq(Events)
        BY <3>1, <3>2, StoryType
      <4>2. CreationWrites(c, <<Received>>, Announced(StoredRow(request[c])))'
        BY <1>3, <2>1, <2>2, <3>2 DEF CreationWrites, Holds
      <4>3. StatementOK(c)'
        BY <1>1, <1>3, <4>2 DEF IInv, TypeOK, StatementOK, Goto
      <4>4. TypeOK'
        BY <2>4, <4>1
      <4>5. \A d \in Calls \ {c} : Undisturbed(d)
        BY <1>3 DEF IInv, TypeOK, Undisturbed, Goto
      <4>6. \A d \in Calls \ {c} : Apart(c, d)'
        BY <1>3, <2>1, <4>5 DEF IInv, Apart, Creating, Undisturbed
      <4> QED
        BY <1>3, <4>3, <4>4, <4>5, <4>6, LocalStep DEF tables
  <2>3. CASE DecisionWrites(c, DecidedRow(c), <<>>)
    <3>1. Announce(c) = DecidedEvents(c)
      <4>1. request[c].op = "validate"
        BY <2>3 DEF DecisionWrites, ValidationRequests
      <4> QED
        BY <1>1, <4>1 DEF Announce, EventFor, DecidedEvents
    <3>2. Announce(c) \in Seq(Events)
      <4>1. request[c].status \in Terminal
        BY <2>3 DEF DecisionWrites, ValidationRequests
      <4>2. ValidationEvent(Decision("received", request[c].status)) \in Events
        BY <4>1 DEF ValidationEvent, Decision, Events, Entries, Statuses
      <4> QED
        BY <3>1, <4>2 DEF DecidedEvents
    <3>3. DecisionWrites(c, DecidedRow(c), DecidedEvents(c))'
      BY <1>3, <2>1, <2>3, <3>1 DEF DecisionWrites, DecidedRow, DecidedEvents
    <3>4. StatementOK(c)'
      BY <1>1, <1>3, <3>3 DEF IInv, TypeOK, StatementOK, Goto
    <3>5. TypeOK'
      BY <2>4, <3>2
    <3>6. \A d \in Calls \ {c} : Undisturbed(d)
      BY <1>3 DEF IInv, TypeOK, Undisturbed, Goto
    <3>7. \A d \in Calls \ {c} : Apart(c, d)'
      BY <1>3, <2>1, <3>6 DEF IInv, Apart, Creating, Undisturbed
    <3> QED
      BY <1>3, <3>4, <3>5, <3>6, <3>7, LocalStep DEF tables
  <2> QED
    BY <1>1, <2>2, <2>3
<1> QED
  BY <1>2, <1>3 DEF Enqueue

-----------------------------------------------------------------------------
(* Commits. *)

(* A call that ends with its writes installed, whatever it is told. *)
Committing(c) ==
    /\ pc[c] = "commit"
    /\ Install(c)
    /\ \E code \in Codes, id \in PackageIDs \cup {NoPackage}, row \in Rows \cup {NoPackage} :
          Return(c, code, id, row)

(* Both commits are of that kind. *)
LEMMA CommitsCommit ==
    ASSUME IInv, NEW c \in Calls, Commit(c) \/ CommitUnacknowledged(c)
    PROVE  Committing(c)
<1>1. /\ tx[c].package \in PackageIDs \cup {NoPackage}
      /\ tx[c].row \in Rows \cup {NoPackage}
      /\ snapshot[c].package \in PackageIDs \cup {NoPackage}
      /\ snapshot[c].row \in Rows \cup {NoPackage}
  BY DEF IInv, TypeOK, Writes, Snapshots
<1> QED
  BY <1>1 DEF Commit, CommitUnacknowledged, Committing, ReturnRetained, Codes

(* A commit is one indivisible step of the ledger, or none. *)
LEMMA CommitIsLedgerStep ==
    ASSUME IInv, NEW c \in Calls, Committing(c)
    PROVE  Ledger!Next \/ UNCHANGED Ledger!ledgerVars
<1>1. \/ tx[c] = NoTx
      \/ CreationWrites(c, <<Received>>, Announced(StoredRow(request[c])))
      \/ DecisionWrites(c, DecidedRow(c), DecidedEvents(c))
  BY DEF IInv, StatementOK, Committing
<1>2. CASE tx[c] = NoTx
  BY <1>2 DEF Committing, Install, NoTx, tables, Ledger!ledgerVars
<1>3. CASE CreationWrites(c, <<Received>>, Announced(StoredRow(request[c])))
  <2>1. Ledger!Receive(tx[c].package, request[c])
    BY <1>3, CommitReceives DEF Committing
  <2> QED
    BY <1>3, <2>1, SameData DEF Ledger!Next, CreationWrites, BoundCreation
<1>4. CASE DecisionWrites(c, DecidedRow(c), DecidedEvents(c))
  <2>1. Ledger!Decide(request[c].package, request[c].status)
    BY <1>4, CommitDecides DEF Committing
  <2> QED
    BY <1>4, <2>1, SameData DEF Ledger!Next, DecisionWrites, ValidationRequests
<1> QED
  BY <1>1, <1>2, <1>3, <1>4

(* What a commit writes: a new package, or an old one under its own key. *)
LEMMA CommitWrites ==
    ASSUME IInv, NEW c \in Calls, Committing(c), tx[c].package # NoPackage
    PROVE  /\ tx[c].package \in PackageIDs
           /\ tx[c].row \in Rows
           /\ packages' = [packages EXCEPT ![tx[c].package] = tx[c].row]
           /\ \/ Creating(c)
              \/ /\ packages[tx[c].package] # NoPackage
                 /\ tx[c].row.tenant = packages[tx[c].package].tenant
                 /\ tx[c].row.key = packages[tx[c].package].key
<1>1. tx[c].package \in PackageIDs /\ packages' = [packages EXCEPT ![tx[c].package] = tx[c].row]
  BY DEF IInv, TypeOK, Writes, Committing, Install
<1>2. \/ CreationWrites(c, <<Received>>, Announced(StoredRow(request[c])))
      \/ DecisionWrites(c, DecidedRow(c), DecidedEvents(c))
  BY DEF IInv, StatementOK, Committing, NoTx
<1>3. CASE CreationWrites(c, <<Received>>, Announced(StoredRow(request[c])))
  <2>1. tx[c].row \in Rows /\ request[c].op = "create"
    BY <1>3, RowFacts DEF CreationWrites, BoundCreation, CreateRequests
  <2> QED
    BY <1>1, <2>1, RowFacts DEF Creating
<1>4. CASE DecisionWrites(c, DecidedRow(c), DecidedEvents(c))
  <2>1. /\ tx[c].row = Decided(packages[tx[c].package], request[c].status)
        /\ packages[tx[c].package] \in Rows
        /\ request[c].status \in Terminal
    BY <1>1, <1>4 DEF DecisionWrites, DecidedRow, ValidationRequests, IInv, TypeOK
  <2>2. /\ tx[c].row.tenant = packages[tx[c].package].tenant
        /\ tx[c].row.key = packages[tx[c].package].key
    BY <2>1 DEF Decided, Rows
  <2> QED
    BY <1>1, <2>1, <2>2, RowFacts
<1> QED
  BY <1>2, <1>3, <1>4

(* After the commit of c the other calls are where they were, and what they *)
(* wait to write is still theirs to write.                                  *)
LEMMA CommitStep ==
    ASSUME IInv, NEW c \in Calls, Committing(c)
    PROVE  IInv'
<1>1. /\ packages' \in [PackageIDs -> Rows \cup {NoPackage}]
      /\ history' \in [PackageIDs -> Seq(Entries)]
      /\ outbox' \in [PackageIDs -> Seq(Events)]
      /\ TablesAgree'
      /\ UniqueIdempotency'
  <2>1. CASE Ledger!Next
    BY <2>1, LedgerKeepsTables DEF IInv
  <2>2. CASE UNCHANGED Ledger!ledgerVars
    BY <2>2 DEF Ledger!ledgerVars, IInv, TypeOK, TablesAgree, UniqueIdempotency
  <2> QED
    BY <2>1, <2>2, CommitIsLedgerStep
<1>2. TypeOK'
  <2>1. PICK code \in Codes, id \in PackageIDs \cup {NoPackage}, row \in Rows \cup {NoPackage} :
           Return(c, code, id, row)
    BY DEF Committing
  <2> QED
    BY <1>1, <2>1, ReturnType DEF IInv, TypeOK
<1>3. tx'[c] = NoTx /\ pc'[c] = "answered" /\ prior'[c] = "received"
  BY DEF IInv, TypeOK, Committing, Return
<1>4. \A d \in Calls \ {c} : Undisturbed(d)
  BY DEF IInv, TypeOK, Committing, Return, Undisturbed
<1>5. \A id \in PackageIDs : id # tx[c].package => packages'[id] = packages[id]
  BY DEF IInv, TypeOK, Committing, Install, tables
<1>6. \A id \in PackageIDs : packages[id] # NoPackage => packages'[id] # NoPackage
  <2>1. CASE tx[c].package = NoPackage
    BY <2>1 DEF Committing, Install, tables
  <2>2. CASE tx[c].package # NoPackage
    BY <2>2, CommitWrites, RowFacts DEF IInv, TypeOK
  <2> QED
    BY <2>1, <2>2
<1>7. ASSUME NEW d \in Calls \ {c}, NEW rows, NEW events, CreationWrites(d, rows, events)
      PROVE  CreationWrites(d, rows, events)'
  <2>1. /\ tx'[d] = tx[d] /\ request'[d] = request[d]
        /\ request[d].op = "create"
        /\ tx[d].row = StoredRow(request[d]) /\ tx[d].row # NoPackage
        /\ tx[d].package \in PackageIDs
        /\ packages[tx[d].package] = NoPackage
    BY <1>4, <1>7, RowFacts DEF Undisturbed, CreationWrites, BoundCreation, CreateRequests
  <2>2. packages'[tx[d].package] = NoPackage
    BY <1>5, <2>1, DataAssumption DEF IInv, Apart
  <2>3. ASSUME NEW id \in PackageIDs
        PROVE  ~Holds(packages', id, request[d].tenant, StoredKey[request[d].key])
    <3>1. ~Holds(packages, id, request[d].tenant, StoredKey[request[d].key])
      BY <1>7 DEF CreationWrites
    <3>2. CASE id # tx[c].package
      BY <1>5, <3>1, <3>2 DEF Holds
    <3>3. CASE id = tx[c].package
      <4>1. id # NoPackage
        BY DataAssumption
      <4>2. packages'[id] = tx[c].row
        BY <3>3, <4>1, CommitWrites DEF IInv, TypeOK
      <4>3. Creating(d)
        BY <2>1 DEF Creating
      <4>4. CASE Creating(c)
        <5>1. tx[c].row.tenant # tx[d].row.tenant \/ tx[c].row.key # tx[d].row.key
          BY <4>3, <4>4 DEF IInv, Apart
        <5> QED
          BY <2>1, <4>2, <5>1 DEF Holds, StoredRow
      <4>5. CASE ~Creating(c)
        <5>1. /\ packages[id] # NoPackage
              /\ tx[c].row.tenant = packages[id].tenant /\ tx[c].row.key = packages[id].key
          BY <3>3, <4>1, <4>5, CommitWrites
        <5> QED
          BY <3>1, <4>2, <5>1 DEF Holds
      <4> QED
        BY <4>4, <4>5
    <3> QED
      BY <3>2, <3>3
  <2> QED
    BY <1>7, <2>1, <2>2, <2>3 DEF CreationWrites, Holds
<1>8. ASSUME NEW d \in Calls \ {c}, NEW row, NEW events, DecisionWrites(d, row, events)
      PROVE  DecisionWrites(d, row, events)' /\ packages'[request[d].package] = packages[request[d].package]
  <2>1. /\ tx'[d] = tx[d] /\ request'[d] = request[d]
        /\ tx[d].package = request[d].package
        /\ request[d].package \in PackageIDs
    BY <1>4, <1>8 DEF Undisturbed, DecisionWrites, ValidationRequests
  <2>2. packages'[request[d].package] = packages[request[d].package]
    BY <1>5, <2>1, DataAssumption DEF IInv, Apart
  <2> QED
    BY <1>8, <2>1, <2>2 DEF DecisionWrites
<1>9. \A d \in Calls : StatementOK(d)'
  <2> SUFFICES ASSUME NEW d \in Calls PROVE StatementOK(d)'
    OBVIOUS
  <2>1. CASE d = c
    BY <1>3, <2>1 DEF StatementOK
  <2>2. CASE d # c
    <3>1. StatementOK(d) /\ Undisturbed(d)
      BY <1>4, <2>2 DEF IInv
    <3>2. ASSUME NEW rows, NEW events, CreationWrites(d, rows, events)
          PROVE  CreationWrites(d, rows, events)'
      BY <1>7, <2>2, <3>2
    <3>3. ASSUME NEW row, NEW events, DecisionWrites(d, row, events)
          PROVE  /\ DecisionWrites(d, row, events)'
                 /\ DecidedRow(d)' = DecidedRow(d)
                 /\ DecidedEvents(d)' = DecidedEvents(d)
      BY <1>8, <2>2, <3>1, <3>3 DEF DecidedRow, DecidedEvents, Undisturbed
    <3>4. pc[d] \in {"read", "decide"} => packages'[request[d].package] # NoPackage
      BY <1>6, <3>1 DEF StatementOK, ValidationRequests
    <3>5. request'[d] = request[d]
      BY <3>1 DEF Undisturbed
    <3>6. pc[d] = "enqueue" =>
             \/ CreationWrites(d, <<Received>>, <<>>)'
             \/ DecisionWrites(d, DecidedRow(d), <<>>)'
      BY <3>1, <3>2, <3>3 DEF StatementOK
    <3>7. CreationWrites(d, <<Received>>, Announced(StoredRow(request[d]))) =>
             CreationWrites(d, <<Received>>, Announced(StoredRow(request[d])))'
      BY <3>2, <3>5
    <3>8. DecisionWrites(d, DecidedRow(d), DecidedEvents(d)) =>
             DecisionWrites(d, DecidedRow(d), DecidedEvents(d))'
      BY <3>3
    <3> QED
      BY <3>1, <3>2, <3>3, <3>4, <3>5, <3>6, <3>7, <3>8 DEF StatementOK, Undisturbed
  <2> QED
    BY <2>1, <2>2
<1>10. \A d, e \in Calls : d # e => Apart(d, e)'
  <2> SUFFICES ASSUME NEW d \in Calls, NEW e \in Calls, d # e PROVE Apart(d, e)'
    OBVIOUS
  <2>1. CASE d = c
    BY <1>3, <2>1 DEF Apart, NoTx, Creating
  <2>2. CASE e = c
    BY <1>3, <2>2 DEF Apart, NoTx, Creating
  <2>3. CASE d # c /\ e # c
    <3>1. Apart(d, e) /\ Undisturbed(d) /\ Undisturbed(e)
      BY <1>4, <2>3 DEF IInv
    <3> QED
      BY <3>1 DEF Apart, Undisturbed, Creating
  <2> QED
    BY <2>1, <2>2, <2>3
<1> QED
  BY <1>1, <1>2, <1>9, <1>10 DEF IInv

-----------------------------------------------------------------------------
(* The theorems. *)

(* Nothing is stored and nobody has asked yet. *)
LEMMA Initially == Init => IInv
<1> SUFFICES ASSUME Init PROVE IInv
  OBVIOUS
<1>1. TypeOK
  BY EmptySeq, BlankTypes DEF Init, TypeOK
<1>2. TablesAgree /\ UniqueIdempotency
  BY DEF Init, TablesAgree, UniqueIdempotency, Custody, Announced
<1>3. \A c \in Calls : StatementOK(c)
  BY DEF Init, StatementOK
<1>4. \A c, d \in Calls : c # d => Apart(c, d)
  BY DEF Init, Apart, NoTx, Creating
<1> QED
  BY <1>1, <1>2, <1>3, <1>4 DEF IInv

(* Every action of the store preserves the inductive invariant. *)
LEMMA Preserved == IInv /\ [Next]_vars => IInv'
<1> SUFFICES ASSUME IInv, [Next]_vars PROVE IInv'
  OBVIOUS
<1>1. ASSUME NEW c \in Calls, Arrive(c) PROVE IInv'
  BY <1>1, ArriveStep
<1>2. ASSUME NEW c \in Calls, Fail(c) PROVE IInv'
  BY <1>2, RollbackStep DEF Fail, Codes
<1>3. ASSUME NEW c \in Calls, CommitUnacknowledged(c) PROVE IInv'
  BY <1>3, CommitsCommit, CommitStep
<1>4. ASSUME NEW c \in Calls, Run(c) PROVE IInv'
  <2>1. CASE InsertPackage(c)
    BY <2>1, InsertPackageStep
  <2>2. CASE InsertInitialHistory(c)
    BY <2>2, InsertInitialHistoryStep
  <2>3. CASE LookupRetained(c)
    BY <2>3, LookupRetainedStep
  <2>4. CASE LoadForValidation(c)
    BY <2>4, LoadForValidationStep
  <2>5. CASE ReadHistory(c)
    BY <2>5, ReadHistoryStep
  <2>6. CASE InsertTerminal(c)
    BY <2>6, InsertTerminalStep
  <2>7. CASE UpdateStatus(c)
    BY <2>7, UpdateStatusStep
  <2>8. CASE Enqueue(c)
    BY <2>8, EnqueueStep
  <2>9. CASE Commit(c)
    BY <2>9, CommitsCommit, CommitStep
  <2> QED
    BY <1>4, <2>1, <2>2, <2>3, <2>4, <2>5, <2>6, <2>7, <2>8, <2>9 DEF Run
<1>5. CASE UNCHANGED vars
  <2>1. TypeOK' /\ TablesAgree' /\ UniqueIdempotency'
    BY <1>5 DEF vars, IInv, TypeOK, TablesAgree, UniqueIdempotency
  <2>2. ASSUME NEW c \in Calls PROVE StatementOK(c)'
    <3>1. StatementOK(c)
      BY DEF IInv
    <3> QED
      BY <1>5, <3>1 DEF vars, StatementOK, CreationWrites, DecisionWrites, DecidedRow,
                        DecidedEvents, Holds
  <2>3. ASSUME NEW c \in Calls, NEW d \in Calls, c # d PROVE Apart(c, d)'
    <3>1. Apart(c, d)
      BY <2>3 DEF IInv
    <3> QED
      BY <1>5, <3>1 DEF vars, Apart, Creating
  <2> QED
    BY <2>1, <2>2, <2>3 DEF IInv
<1> QED
  BY <1>1, <1>2, <1>3, <1>4, <1>5 DEF Next, Idle

(* The inductive invariant holds in every reachable state. *)
THEOREM Invariance == Spec => []IInv
  BY Initially, Preserved, PTL DEF Spec

(* Every variable keeps its shape, for all values of the constants. *)
THEOREM TypeCorrect == Spec => []TypeOK
<1>1. IInv => TypeOK
  BY DEF IInv
<1> QED
  BY <1>1, Invariance, PTL

(* The package row, its chain of custody and its outbox rows always tell    *)
(* the same story: Create's and RecordValidation's several statements are   *)
(* one transition for every reader.                                         *)
THEOREM TablesAlwaysAgree == Spec => []TablesAgree
<1>1. IInv => TablesAgree
  BY DEF IInv
<1> QED
  BY <1>1, Invariance, PTL

(* One package per tenant and stored idempotency key. *)
THEOREM KeysAreUnique == Spec => []UniqueIdempotency
<1>1. IInv => UniqueIdempotency
  BY DEF IInv
<1> QED
  BY <1>1, Invariance, PTL

(* Whoever has written an index entry or a row is still at a statement of    *)
(* its transaction.                                                          *)
LEMMA HolderIsUnderWay ==
    ASSUME IInv, NEW d \in Calls, tx[d] # NoTx
    PROVE  pc[d] \in {"initial", "update", "enqueue", "commit"}
<1>1. pc[d] \in Labels /\ StatementOK(d)
  BY DEF IInv, TypeOK
<1> QED
  BY <1>1 DEF Labels, InTransaction, StatementOK

(* A call that waits has written nothing, or a decision nobody else writes.  *)
LEMMA WaiterIsAlone ==
    ASSUME IInv, NEW d \in Calls, NEW e \in Calls, tx[d] # NoTx
    PROVE  ~WaitsFor(d, e)
<1>1. /\ pc[d] \in {"initial", "update", "enqueue", "commit"}
      /\ StatementOK(d)
  BY HolderIsUnderWay DEF IInv
<1>2. ~(pc[d] = "insert") /\ ~(pc[d] = "decide")
  BY <1>1
<1>3. ASSUME pc[d] = "update", UpdatePending(e, request[d].package)
      PROVE  FALSE
  <2>1. DecisionWrites(d, NoPackage, <<>>)
    BY <1>1, <1>3 DEF StatementOK
  <2>2. tx[d].package = request[d].package /\ tx[d].row = NoPackage
        /\ request[d].package \in PackageIDs
    BY <2>1 DEF DecisionWrites, ValidationRequests
  <2>3. tx[d].package # NoPackage
    BY <2>2, DataAssumption
  <2>4. e # d /\ tx[e].package = tx[d].package
    BY <1>3, <2>2 DEF UpdatePending
  <2>5. Apart(d, e)
    BY <2>4 DEF IInv
  <2> QED
    BY <2>3, <2>4, <2>5 DEF Apart
<1> QED
  BY <1>2, <1>3 DEF WaitsFor

(* The waits of Create and RecordValidation for each other's index entries   *)
(* and rows have no circle and no second link, for any number of calls.      *)
THEOREM WaitsAreShort == Spec => []HoldersNeverWait
<1>1. ASSUME IInv, NEW c \in Calls, NEW d \in Calls, WaitsFor(c, d)
      PROVE  pc[d] \in InTransaction /\ \A e \in Calls : ~WaitsFor(d, e)
  <2>1. tx[d] # NoTx
    <3>1. CASE pc[c] = "insert" /\ InsertPending(d, request[c].tenant, StoredKey[request[c].key])
      BY <3>1 DEF InsertPending, NoTx
    <3>2. CASE pc[c] = "decide" /\ DecisionPending(d, request[c].package)
      BY <3>2 DEF DecisionPending, HasTerminal, NoTx
    <3>3. CASE pc[c] = "update" /\ UpdatePending(d, request[c].package)
      BY <3>3 DEF UpdatePending, NoTx
    <3> QED
      BY <1>1, <3>1, <3>2, <3>3 DEF WaitsFor
  <2>2. pc[d] \in InTransaction
    BY <1>1, <2>1, HolderIsUnderWay DEF InTransaction
  <2> QED
    BY <1>1, <2>1, <2>2, WaiterIsAlone
<1>2. IInv => HoldersNeverWait
  BY <1>1 DEF HoldersNeverWait
<1> QED
  BY <1>2, Invariance, PTL

(* Only a commit touches the tables. *)
LEMMA OnlyCommitsWrite ==
    ASSUME NEW c \in Calls, Arrive(c) \/ Run(c) \/ Fail(c), ~Commit(c)
    PROVE  UNCHANGED tables
<1>1. CASE Arrive(c)
  BY <1>1 DEF Arrive, RejectUnbound, BeginCreate, BeginValidation, tables
<1>2. CASE Fail(c)
  BY <1>2 DEF Fail, Rollback
<1>3. CASE InsertPackage(c) \/ InsertInitialHistory(c) \/ LookupRetained(c)
  BY <1>3 DEF InsertPackage, InsertInitialHistory, LookupRetained, Rollback, tables
<1>4. CASE \/ LoadForValidation(c) \/ ReadHistory(c) \/ InsertTerminal(c)
           \/ UpdateStatus(c) \/ Enqueue(c)
  BY <1>4 DEF LoadForValidation, ReadHistory, InsertTerminal, UpdateStatus, Enqueue, Rollback, tables
<1> QED
  BY <1>1, <1>2, <1>3, <1>4 DEF Run

(* Every step of the store is one of the ledger, or none. *)
LEMMA StepIsLedgerStep ==
    ASSUME IInv, [Next]_vars
    PROVE  Ledger!Next \/ UNCHANGED Ledger!ledgerVars
<1>1. ASSUME NEW c \in Calls, Commit(c) \/ CommitUnacknowledged(c)
      PROVE  Ledger!Next \/ UNCHANGED Ledger!ledgerVars
  BY <1>1, CommitsCommit, CommitIsLedgerStep
<1>2. ASSUME NEW c \in Calls, Arrive(c) \/ Run(c) \/ Fail(c), ~Commit(c)
      PROVE  UNCHANGED Ledger!ledgerVars
  BY <1>2, OnlyCommitsWrite DEF tables, Ledger!ledgerVars
<1>3. CASE UNCHANGED vars
  BY <1>3 DEF vars, Ledger!ledgerVars
<1> QED
  BY <1>1, <1>2, <1>3 DEF Next, Idle

(* The store implements the ledger: its statements, interleaved in any way *)
(* and failing anywhere, amount to indivisible Receive and Decide steps.    *)
THEOREM StoreImplementsLedger == Spec => ImplementsLedger
<1>1. Init => Ledger!Init
  BY DEF Init, Ledger!Init
<1>2. IInv /\ [Next]_vars => [Ledger!Next]_(Ledger!ledgerVars)
  BY StepIsLedgerStep
<1> QED
  BY <1>1, <1>2, Invariance, PTL DEF Spec, ImplementsLedger, Ledger!Spec
=============================================================================
