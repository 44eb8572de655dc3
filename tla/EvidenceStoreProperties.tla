----------------------- MODULE EvidenceStoreProperties -----------------------
(***************************************************************************)
(* What EvidenceStore must do, and two statements of the repository that it *)
(* does not live up to (the section at the end).                           *)
(***************************************************************************)
EXTENDS EvidenceStore, Naturals

LOCAL INSTANCE SequencesExt

Ledger == INSTANCE EvidenceLedger
          WITH packages <- packages, history <- history, outbox <- outbox

Labels == InTransaction \cup {"start", "answered"}
Requests == CreateRequests \cup ValidationRequests \cup {NoRequest}
Writes == [package : PackageIDs \cup {NoPackage}, row : Rows \cup {NoPackage},
           history : Seq(Entries), outbox : Seq(Events)]
Snapshots == [package : PackageIDs \cup {NoPackage}, row : Rows \cup {NoPackage},
              history : Seq(Entries)]
Answers == [code : Codes, package : PackageIDs \cup {NoPackage}, row : Rows \cup {NoPackage}]

(* Every variable keeps its shape. *)
TypeOK ==
    /\ packages \in [PackageIDs -> Rows \cup {NoPackage}]
    /\ history \in [PackageIDs -> Seq(Entries)]
    /\ outbox \in [PackageIDs -> Seq(Events)]
    /\ pc \in [Calls -> Labels]
    /\ request \in [Calls -> Requests]
    /\ tx \in [Calls -> Writes]
    /\ snapshot \in [Calls -> Snapshots]
    /\ prior \in [Calls -> Statuses]
    /\ answer \in [Calls -> Answers]

-----------------------------------------------------------------------------
(* Safety *)

(* A reader between any two commits sees the package row, its chain of      *)
(* custody and its outbox rows tell the same story, with the true prior     *)
(* status in each entry: the three inserts of Create and the insert, update *)
(* and insert of RecordValidation commit together or not at all, however    *)
(* calls overlap and whichever statement fails.                             *)
TablesAgree ==
    \A id \in PackageIDs :
        history[id] = Custody(packages[id]) /\ outbox[id] = Announced(packages[id])

(* ON CONFLICT (tenant_id, idempotency_key) DO NOTHING leaves one row per   *)
(* tenant and key, also when several creations of it are in flight and      *)
(* spell the key differently.                                               *)
UniqueIdempotency ==
    \A i, j \in PackageIDs :
        /\ packages[i] # NoPackage
        /\ packages[j] # NoPackage
        /\ packages[i].tenant = packages[j].tenant
        /\ packages[i].key = packages[j].key
        => i = j

AnsweredWith(c, code) == pc[c] = "answered" /\ answer[c].code = code

(* What a caller was told stays true: the package a creation returned is    *)
(* there with the fields that were returned, holds what that caller sent,   *)
(* and a recorded decision is the package's status and the last entry of    *)
(* its history, whatever the other calls do afterwards.                     *)
Acknowledged ==
    \A c \in Calls :
        LET r == request[c]
            id == answer[c].package
            row == answer[c].row
        IN  /\ AnsweredWith(c, "created") \/ AnsweredWith(c, "retained") =>
                  /\ packages[id] # NoPackage
                  /\ \E status \in Statuses :
                        packages[id] = [row EXCEPT !.status = status]
                  /\ row.tenant = r.tenant
                  /\ row.key = StoredKey[r.key]
                  /\ row.metadata = StoredMetadata[r.metadata]
            /\ AnsweredWith(c, "recorded") =>
                  /\ id = r.package
                  /\ packages[id] # NoPackage
                  /\ packages[id].status = r.status
                  /\ history[id][Len(history[id])].status = r.status

(* Of all calls about one package, at most one is told it was created (201) *)
(* and at most one that its decision was recorded; of the creations of one  *)
(* tenant and key at most one is told 201.                                  *)
OneWinner ==
    \A c, d \in Calls :
        /\ AnsweredWith(c, "created") /\ AnsweredWith(d, "created")
           /\ request[c].tenant = request[d].tenant
           /\ StoredKey[request[c].key] = StoredKey[request[d].key]
           => c = d
        /\ AnsweredWith(c, "recorded") /\ AnsweredWith(d, "recorded")
           /\ request[c].package = request[d].package
           => c = d

(* 409 on a creation is about the content: when the request is in the       *)
(* database's own spelling, a retained package with that tenant and key     *)
(* exists and differs from it.  A retry of what was stored is never         *)
(* refused, not even when the first answer was lost or the package decided. *)
ConflictIsReal ==
    \A c \in Calls :
        AnsweredWith(c, "conflict") /\ Canonical(request[c]) =>
            \E id \in PackageIDs :
                /\ Holds(packages, id, request[c].tenant, request[c].key)
                /\ packages[id].metadata # request[c].metadata

(* An unacknowledged decision leaves one of two states behind, and the      *)
(* caller learns which by asking again: a validation is told that a         *)
(* terminal decision exists only when one does, and a package whose status  *)
(* is terminal carries a decision some call asked for.                      *)
DecisionsHaveAuthors ==
    /\ \A c \in Calls : AnsweredWith(c, "terminal") =>
           packages[request[c].package] # NoPackage
           /\ packages[request[c].package].status \in Terminal
    /\ \A id \in PackageIDs :
           packages[id] # NoPackage /\ packages[id].status \in Terminal =>
               \E c \in Calls :
                   /\ request[c].op = "validate"
                   /\ request[c].package = id
                   /\ request[c].status = packages[id].status
                   /\ answer[c].code \in {"recorded", "failed"}

(* Without SET app.evidence_service the outbox policy denies the insert,    *)
(* and with it the whole transaction: a call that must announce and cannot  *)
(* changes nothing and is told so, while others on prepared connections go  *)
(* on, and every package in the table is one they sent.                     *)
FailClosed ==
    EventsWired =>
        /\ \A c \in Calls \ AssertedCalls : answer[c].code \notin {"created", "recorded"}
        /\ \A id \in PackageIDs :
              packages[id] # NoPackage =>
                  \E c \in AssertedCalls :
                      /\ request[c].op = "create"
                      /\ Holds(packages, id, request[c].tenant, StoredKey[request[c].key])
                      /\ packages[id].metadata = StoredMetadata[request[c].metadata]
                      /\ answer[c].code \in {"created", "failed"}

(* The next statement of call c waits until call d has ended.                *)
WaitsFor(c, d) ==
    \/ pc[c] = "insert" /\ InsertPending(d, request[c].tenant, StoredKey[request[c].key])
    \/ pc[c] = "decide" /\ DecisionPending(d, request[c].package)
    \/ pc[c] = "update" /\ UpdatePending(d, request[c].package)

(* No deadlock: a transaction that others wait for is still on its way and   *)
(* waits for nobody.  RecordValidation takes an index entry and then a row   *)
(* lock, Create an index entry, and what one holds another may want; but     *)
(* whoever holds the entry finds the row free, so PostgreSQL never has to    *)
(* break a circle, and no chain of waits is longer than one.                 *)
HoldersNeverWait ==
    \A c, d \in Calls :
        WaitsFor(c, d) => pc[d] \in InTransaction /\ \A e \in Calls : ~WaitsFor(d, e)

(* No step deletes a package, changes any of its fields except the status,  *)
(* or leaves a terminal status; history and outbox only grow.               *)
RowsImmutable ==
    [][\A id \in PackageIDs :
          /\ packages[id] # NoPackage /\ packages'[id] # packages[id] =>
                \E status \in Terminal :
                    /\ packages[id].status = "received"
                    /\ packages'[id] = [packages[id] EXCEPT !.status = status]
          /\ IsPrefix(history[id], history'[id])
          /\ IsPrefix(outbox[id], outbox'[id])]_vars

(* The statements of overlapping transactions add up to the ledger's        *)
(* indivisible Receive and Decide.                                          *)
ImplementsLedger == Ledger!Spec

-----------------------------------------------------------------------------
(***************************************************************************)
(* The inductive invariant: what the statement a call is about to execute  *)
(* says about its uncommitted writes, and how the writes of two calls stay *)
(* apart until they commit.                                                *)
(***************************************************************************)
BoundCreation(r) == r \in CreateRequests /\ r.tenant # NoTenant

(* A package inserted by c: its id and its key are still free. *)
CreationWrites(c, rows, events) ==
    /\ BoundCreation(request[c])
    /\ tx[c].package \in PackageIDs
    /\ tx[c].row = StoredRow(request[c])
    /\ tx[c].history = rows
    /\ tx[c].outbox = events
    /\ packages[tx[c].package] = NoPackage
    /\ \A id \in PackageIDs :
          ~Holds(packages, id, request[c].tenant, StoredKey[request[c].key])

(* A decision inserted by c: its package is still undecided. *)
DecisionWrites(c, row, events) ==
    /\ request[c] \in ValidationRequests
    /\ tx[c].package = request[c].package
    /\ tx[c].row = row
    /\ tx[c].history = <<Decision("received", request[c].status)>>
    /\ tx[c].outbox = events
    /\ packages[request[c].package] # NoPackage
    /\ packages[request[c].package].status = "received"

DecidedRow(c) == Decided(packages[request[c].package], request[c].status)
DecidedEvents(c) ==
    IF EventsWired THEN <<ValidationEvent(Decision("received", request[c].status))>>
    ELSE <<>>

StatementOK(c) ==
    /\ pc[c] \in {"start", "answered", "insert", "lookup", "load", "read", "decide"} =>
          tx[c] = NoTx
    /\ pc[c] \in {"insert", "initial", "lookup"} => BoundCreation(request[c])
    /\ pc[c] \in {"load", "read", "decide", "update"} => request[c] \in ValidationRequests
    /\ pc[c] \in {"read", "decide"} => packages[request[c].package] # NoPackage
    /\ pc[c] = "read" => snapshot[c].history = Custody(snapshot[c].row)
    /\ pc[c] = "initial" => CreationWrites(c, <<>>, <<>>)
    /\ pc[c] = "update" => DecisionWrites(c, NoPackage, <<>>)
    /\ pc[c] = "enqueue" =>
          \/ CreationWrites(c, <<Received>>, <<>>)
          \/ DecisionWrites(c, DecidedRow(c), <<>>)
    /\ pc[c] = "commit" =>
          \/ BoundCreation(request[c]) /\ tx[c] = NoTx
          \/ CreationWrites(c, <<Received>>, Announced(StoredRow(request[c])))
          \/ DecisionWrites(c, DecidedRow(c), DecidedEvents(c))
    /\ prior[c] = "received"

Creating(c) == request[c].op = "create" /\ tx[c].row # NoPackage

Apart(c, d) ==
    /\ tx[c].package # NoPackage => tx[c].package # tx[d].package
    /\ Creating(c) /\ Creating(d) =>
          tx[c].row.tenant # tx[d].row.tenant \/ tx[c].row.key # tx[d].row.key

IInv ==
    /\ TypeOK
    /\ TablesAgree
    /\ UniqueIdempotency
    /\ \A c \in Calls : StatementOK(c)
    /\ \A c, d \in Calls : c # d => Apart(c, d)

-----------------------------------------------------------------------------
(* Liveness *)

(* Transactions wait for each other's uncommitted index entries and rows,   *)
(* never in a circle: under FairSpec every call that arrived is answered.   *)
EveryCallReturns == \A c \in Calls : (pc[c] # "start") ~> (pc[c] = "answered")

-----------------------------------------------------------------------------
(* Statements of the repository's documents that the code does not keep. *)

(* integration/README.md:15 "Repeating one idempotency_key returns the      *)
(* original package": a call that repeats a request that was acknowledged   *)
(* as created is not told it conflicts.                                     *)
RepeatReturnsOriginal ==
    \A c, d \in Calls :
        AnsweredWith(c, "created") /\ request[d] = request[c] =>
            ~AnsweredWith(d, "conflict")

(* README.md:31 "a second terminal decision is 409": when a decision on a   *)
(* package was recorded, another validation of it that met no fault and     *)
(* found the package was answered with ErrTerminalValidation.               *)
SecondDecisionIsTerminal ==
    \A c, d \in Calls :
        /\ AnsweredWith(c, "recorded")
        /\ c # d
        /\ d \in AssertedCalls
        /\ request[d].op = "validate"
        /\ request[d].package = request[c].package
        /\ pc[d] = "answered"
        /\ answer[d].code \notin {"failed", "not_found"}
        => answer[d].code = "terminal"
=============================================================================
