-------------------------- MODULE EvidenceAPIProofs --------------------------
(***************************************************************************)
(* Proofs, for every number of requests, packages, tenants, tokens and     *)
(* keys, of what the handlers keep although they check once, on a row read *)
(* earlier, and call two stores one after the other.                       *)
(***************************************************************************)
EXTENDS EvidenceAPIProperties, TLAPS

-----------------------------------------------------------------------------
(* The data. *)

(* The ledger reads the data as the API does. *)
LEMMA SameData ==
    /\ \A row : Ledger!Custody(row) = Custody(row)
    /\ \A row : Ledger!Announced(row) = Announced(row)
    /\ \A r : Ledger!StoredRow(r) = StoredRow(r)
    /\ \A rows, id, tenant, key :
          Ledger!Holds(rows, id, tenant, key) = Holds(rows, id, tenant, key)
  BY DEF Ledger!Custody, Custody, Ledger!Announced, Announced, Ledger!Received, Received,
         Ledger!Decision, Decision, Ledger!PackageEvent, PackageEvent,
         Ledger!ValidationEvent, ValidationEvent, Ledger!TopicPackage, TopicPackage,
         Ledger!TopicValidation, TopicValidation, Ledger!StoredRow, StoredRow,
         Ledger!Holds, Holds

(* A creation sends a row of the table, whose location is its key text. *)
LEMMA CreationRow ==
    ASSUME NEW p, p.tenant \in Tenants, NEW body \in CreateBodies
    PROVE  LET r == CreateRequest(p, body)
           IN  /\ StoredRow(r) \in Rows
               /\ StoredRow(r) # NoPackage
               /\ StoredRow(r).status = "received"
               /\ StoredRow(r).tenant = p.tenant
               /\ StoredRow(r).key = StoredKey[body.key]
               /\ StoredRow(r).metadata.location = body.key
               /\ StoredRow(r).metadata.digest = body.digest
               /\ StoredRow(r).metadata.classification = body.classification
<1> DEFINE r == CreateRequest(p, body)
<1>1. /\ r.metadata \in Metadata /\ r.metadata.location = body.key /\ body.key \in KeyTexts
      /\ r.metadata.digest = body.digest /\ r.metadata.classification = body.classification
  BY APIAssumption DEF CreateRequest, CreateBodies, objectLocation
<1>2. /\ StoredMetadata[r.metadata] \in Metadata /\ StoredMetadata[r.metadata].location = body.key
      /\ StoredMetadata[r.metadata].digest = body.digest
      /\ StoredMetadata[r.metadata].classification = body.classification
  BY <1>1, DataAssumption, APIAssumption
<1>3. StoredKey[body.key] \in KeyTexts
  BY <1>1, DataAssumption
<1>4. r.tenant = p.tenant /\ r.key = body.key
  BY DEF CreateRequest
<1> QED
  BY <1>2, <1>3, <1>4, DataAssumption DEF StoredRow, Rows, Statuses

(* What is sent is a creation or about a package. *)
LEMMA BodiesAreSent == Bodies \subseteq CreateBodies \cup PackageBodies
  BY APIAssumption DEF Bodies, CreateBodies

(* Deciding a row changes its status alone. *)
LEMMA DecidedRow ==
    ASSUME NEW row \in Rows, NEW status \in Terminal
    PROVE  LET new == [row EXCEPT !.status = status]
           IN  /\ new \in Rows /\ new # NoPackage /\ new.status = status
               /\ new.tenant = row.tenant /\ new.key = row.key /\ new.metadata = row.metadata
  BY DataAssumption DEF Rows, Statuses, Terminal

-----------------------------------------------------------------------------
(* The clearance ladder. *)

(* The rank of a label is its place on the ladder, and no other text has one. *)
LEMMA LadderRanks ==
    /\ \A label \in Labels :
          ladderRank(label) \in 0..4 /\ Ladder[ladderRank(label) + 1] = label
    /\ \A text : text \notin Labels => ladderRank(text) = -1
<1>1. DOMAIN Ladder = 1..5
  BY DEF Ladder
<1>2. ASSUME NEW label \in Labels
      PROVE  Rung[label] \in DOMAIN Ladder /\ Ladder[Rung[label]] = label
  <2>1. \E i \in DOMAIN Ladder : Ladder[i] = label
    BY DEF Labels
  <2> DEFINE i == CHOOSE i \in DOMAIN Ladder : Ladder[i] = label
  <2>2. i \in DOMAIN Ladder /\ Ladder[i] = label
    BY <2>1, Zenon
  <2>3. Rung[label] = i
    BY DEF Rung
  <2> QED
    BY <2>2, <2>3
<1>3. ASSUME NEW label \in Labels
      PROVE  ladderRank(label) \in 0..4 /\ Ladder[ladderRank(label) + 1] = label
  <2>1. Rung[label] \in 1..5 /\ ladderRank(label) = Rung[label] - 1
    BY <1>1, <1>2 DEF ladderRank
  <2>2. ladderRank(label) + 1 = Rung[label] /\ ladderRank(label) \in 0..4
    BY <2>1
  <2> QED
    BY <1>2, <2>2
<1> QED
  BY <1>3 DEF ladderRank

-----------------------------------------------------------------------------
(* How the table of packages grows. *)

(* The package of id is there, as it was when row was read up to its status. *)
Kept(id, row) ==
    /\ id \in PackageIDs
    /\ row \in Rows
    /\ packages[id] \in Rows
    /\ packages[id].tenant = row.tenant
    /\ packages[id].key = row.key
    /\ packages[id].metadata = row.metadata
    /\ row.status \in Terminal => packages[id] = row

DecidedAs(id, status) ==
    /\ id \in PackageIDs
    /\ packages[id] \in Rows
    /\ packages[id].status = status
    /\ status \in Terminal

Grows(id) ==
    packages[id] # NoPackage =>
        /\ packages'[id] # NoPackage
        /\ packages'[id].tenant = packages[id].tenant
        /\ packages'[id].key = packages[id].key
        /\ packages'[id].metadata = packages[id].metadata
        /\ packages[id].status \in Terminal => packages'[id] = packages[id]

(* A creation adds the row of a pair (tenant, key) nobody held. *)
LEMMA ReceiveGrows ==
    ASSUME TypeOK, NEW id \in PackageIDs, NEW r, Ledger!Receive(id, r), StoredRow(r) \in Rows
    PROVE  /\ packages' = [packages EXCEPT ![id] = StoredRow(r)]
           /\ packages[id] = NoPackage
           /\ packages' \in [PackageIDs -> Rows \cup {NoPackage}]
           /\ \A other \in PackageIDs : ~Holds(packages, other, r.tenant, StoredKey[r.key])
           /\ \A other \in PackageIDs : Grows(other)
<1>1. packages' = [packages EXCEPT ![id] = StoredRow(r)] /\ packages[id] = NoPackage
  BY SameData DEF Ledger!Receive, Ledger!Enter
<1>2. \A other \in PackageIDs : ~Holds(packages, other, r.tenant, StoredKey[r.key])
  BY SameData DEF Ledger!Receive
<1>3. \A other \in PackageIDs : Grows(other)
  BY <1>1 DEF Grows, TypeOK
<1> QED
  BY <1>1, <1>2, <1>3 DEF TypeOK

(* A decision gives one received package its status. *)
LEMMA DecideGrows ==
    ASSUME TypeOK, NEW id \in PackageIDs, NEW status \in Terminal, Ledger!Decide(id, status)
    PROVE  /\ packages[id] \in Rows /\ packages[id].status = "received"
           /\ packages' = [packages EXCEPT ![id] = [packages[id] EXCEPT !.status = status]]
           /\ packages' \in [PackageIDs -> Rows \cup {NoPackage}]
           /\ DecidedAs(id, status)'
           /\ \A other \in PackageIDs : Grows(other)
<1>1. /\ packages[id] \in Rows /\ packages[id].status = "received"
      /\ packages' = [packages EXCEPT ![id] = [packages[id] EXCEPT !.status = status]]
  BY DEF Ledger!Decide, Ledger!Enter, TypeOK
<1>2. /\ packages'[id] = [packages[id] EXCEPT !.status = status]
      /\ packages'[id] \in Rows /\ packages'[id] # NoPackage /\ packages'[id].status = status
      /\ packages'[id].tenant = packages[id].tenant
      /\ packages'[id].key = packages[id].key
      /\ packages'[id].metadata = packages[id].metadata
  BY <1>1, DecidedRow DEF TypeOK
<1>3. \A other \in PackageIDs : Grows(other)
  BY <1>1, <1>2 DEF Grows, TypeOK, Terminal
<1> QED
  BY <1>1, <1>2, <1>3 DEF TypeOK, DecidedAs

(* What was true of a package stays so. *)
LEMMA GrowthKeeps ==
    ASSUME TypeOK, packages' \in [PackageIDs -> Rows \cup {NoPackage}],
           NEW id \in PackageIDs, Grows(id)
    PROVE  /\ \A row : Kept(id, row) => Kept(id, row)'
           /\ \A status : DecidedAs(id, status) => DecidedAs(id, status)' /\ packages'[id] = packages[id]
<1>1. packages[id] \in Rows => packages'[id] \in Rows
  BY DataAssumption DEF Grows
<1> QED
  BY <1>1, DataAssumption DEF Kept, DecidedAs, Grows

-----------------------------------------------------------------------------
(***************************************************************************)
(* The inductive invariant: what a handler's place says about the record   *)
(* it has in hand and about the package as it is by then, what an answer   *)
(* says for good, and where uploads and objects come from.                 *)
(***************************************************************************)
Cleared(p, row) ==
    /\ row.tenant = p.tenant
    /\ ladderRank(p.clearance) >= ladderRank(row.metadata.classification)

Sent(c) == CreateRequest(principal[c], request[c])

(* A package with the tenant and key of a creation, and its content when    *)
(* the columns return the request as it was sent.                           *)
Found(c) ==
    \E id \in PackageIDs :
        /\ Holds(packages, id, Sent(c).tenant, StoredKey[Sent(c).key])
        /\ Canonical(Sent(c)) => Matches(Sent(c), packages[id])

(* What c sent names the evidence of this row. *)
Names(c, row) ==
    /\ row.tenant = principal[c].tenant
    /\ row.metadata.digest = request[c].digest
    /\ row.metadata.classification = request[c].classification

(* The package in hand is the one with what c sent, or was just made of it. *)
InHand(c) ==
    /\ record[c].package \in PackageIDs
    /\ Holds(packages, record[c].package, Sent(c).tenant, StoredKey[Sent(c).key])
    /\ pc[c] = "presign" => Matches(Sent(c), packages[record[c].package])

HandlerOK(c) ==
    LET r == request[c]
        row == record[c].row
    IN  /\ pc[c] = "start" => r = NoRequest
        /\ pc[c] \notin {"start", "answered"} =>
              principal[c] \in Callers /\ RequireRoles(principal[c], r.op)
        /\ pc[c] = "create" => r \in CreateBodies /\ principal[c].tenant # NoTenant
        /\ pc[c] \in {"load", "decide", "reload", "head"} => r \in PackageBodies
        /\ pc[c] \in {"decide", "reload"} => r.op = "validate"
        /\ pc[c] = "presign" => r.op \in {"create", "read"}
        /\ pc[c] = "presign_new" => r.op = "create"
        /\ pc[c] = "head" => r.op = "confirm"
        /\ pc[c] \in {"presign", "presign_new", "decide", "head"} => Kept(record[c].package, row)
        /\ pc[c] \in {"presign", "presign_new"} /\ r.op = "create" =>
              Found(c) /\ InHand(c) /\ Names(c, row)
        /\ pc[c] \in {"decide", "head"} \/ (pc[c] = "presign" /\ r.op = "read") =>
              record[c].package = r.package /\ Cleared(principal[c], row)
        /\ pc[c] = "reload" => DecidedAs(r.package, r.status) /\ Cleared(principal[c], packages[r.package])
        /\ pc[c] # "answered" => answer[c].code = "none" /\ answer[c].package = NoPackage

AnswerOK(c) ==
    LET id == answer[c].package
        row == answer[c].row
    IN  /\ answer[c].code \in {"read", "confirmed", "recorded"} =>
              Kept(id, row) /\ Cleared(principal[c], row)
        /\ answer[c].code \in {"created", "retained"} =>
              Kept(id, row) /\ request[c].op = "create" /\ Names(c, row)
        /\ answer[c].code \notin {"read", "confirmed", "recorded", "created", "retained"} =>
              id = NoPackage
        /\ AnsweredWith(c, "recorded") => DecidedAs(id, request[c].status) /\ row = packages[id]
        /\ AnsweredWith(c, "confirmed") =>
              \/ objects[row.metadata.location] = row.metadata.digest
              \/ SharedLocation(row.metadata.location)
        /\ answer[c].code \in {"created", "retained", "unavailable"} /\ request[c].op = "create" =>
              Found(c)
        /\ AnsweredWith(c, "conflict") =>
              \E other \in PackageIDs :
                  /\ Holds(packages, other, Sent(c).tenant, StoredKey[Sent(c).key])
                  /\ ~Matches(Sent(c), packages[other])

AuthorOf(c, id) ==
    /\ pc[c] = "reload" \/ (pc[c] = "answered" /\ answer[c].code \in {"recorded", "failed"})
    /\ request[c].op = "validate"
    /\ request[c].package = id
    /\ request[c].status = packages[id].status
    /\ principal[c] \in Callers
    /\ RequireRoles(principal[c], "validate")
    /\ Cleared(principal[c], packages[id])

Authorised(id) ==
    packages[id] # NoPackage /\ packages[id].status \in Terminal => \E c \in Calls : AuthorOf(c, id)

(* The key of a package follows from its location, and is its own. *)
KeysOK ==
    /\ \A id \in PackageIDs :
          packages[id] # NoPackage => packages[id].key = StoredKey[packages[id].metadata.location]
    /\ \A i, j \in PackageIDs :
          packages[i] # NoPackage /\ Holds(packages, j, packages[i].tenant, packages[i].key) => i = j

Recorded(key, digest) ==
    \E id \in PackageIDs :
        /\ packages[id] # NoPackage
        /\ packages[id].metadata.location = key
        /\ packages[id].metadata.digest = digest

APIInv ==
    /\ TypeOK
    /\ KeysOK
    /\ \A grant \in uploads : Recorded(grant.key, grant.digest)
    /\ OnlyRecordedContent
    /\ \A c \in Calls : HandlerOK(c) /\ AnswerOK(c)
    /\ \A id \in PackageIDs : Authorised(id)

-----------------------------------------------------------------------------
(* The requests a step leaves alone. *)

Quiet(d) ==
    /\ pc'[d] = pc[d]
    /\ principal'[d] = principal[d]
    /\ request'[d] = request[d]
    /\ record'[d] = record[d]
    /\ answer'[d] = answer[d]

(* The table of packages has grown, by a step of the ledger or none. *)
Grown ==
    /\ packages' \in [PackageIDs -> Rows \cup {NoPackage}]
    /\ \A id \in PackageIDs : Grows(id)

(* A package that a creation found stays to be found, *)
LEMMA FoundStays ==
    ASSUME TypeOK, Grown, NEW d \in Calls, Found(d),
           principal'[d] = principal[d], request'[d] = request[d]
    PROVE  Found(d)'
<1>1. PICK id \in PackageIDs :
         /\ Holds(packages, id, Sent(d).tenant, StoredKey[Sent(d).key])
         /\ Canonical(Sent(d)) => Matches(Sent(d), packages[id])
  BY DEF Found
<1>2. Sent(d)' = Sent(d)
  BY DEF Sent
<1>3. Holds(packages', id, Sent(d).tenant, StoredKey[Sent(d).key])
  BY <1>1 DEF Holds, Grown, Grows
<1>4. Matches(Sent(d), packages[id]) => Matches(Sent(d), packages'[id])
  BY <1>1 DEF Holds, Matches, Grown, Grows
<1>5. /\ Holds(packages, id, Sent(d).tenant, StoredKey[Sent(d).key])'
      /\ (Canonical(Sent(d)) => Matches(Sent(d), packages[id]))'
  BY <1>1, <1>2, <1>3, <1>4 DEF Holds, Matches, Canonical
<1> QED
  BY <1>5 DEF Found

(* and the package in hand stays the one that was found. *)
LEMMA InHandStays ==
    ASSUME Grown, NEW d \in Calls, InHand(d), Quiet(d)
    PROVE  InHand(d)'
<1>1. Sent(d)' = Sent(d)
  BY DEF Sent, Quiet
<1>2. packages[record[d].package] # NoPackage /\ Grows(record[d].package)
  BY DEF InHand, Holds, Grown
<1> QED
  BY <1>1, <1>2 DEF InHand, Holds, Matches, Grows, Quiet

(* Two tenants that chose one key have done so for good. *)
LEMMA SharedStays ==
    ASSUME Grown, NEW k, SharedLocation(k)
    PROVE  SharedLocation(k)'
  BY DEF SharedLocation, Grown, Grows

(* A record read earlier stays true of the package, up to its status. *)
LEMMA KeptStays ==
    ASSUME TypeOK, Grown
    PROVE  /\ \A id, row : Kept(id, row) => Kept(id, row)'
           /\ \A id, status : DecidedAs(id, status) =>
                 DecidedAs(id, status)' /\ packages'[id] = packages[id]
  BY GrowthKeeps DEF Grown, Kept, DecidedAs

(* What others do to the table leaves a handler in its place told the truth, *)
LEMMA HandlerStays ==
    ASSUME APIInv, Grown, NEW d \in Calls, Quiet(d)
    PROVE  HandlerOK(d)'
<1>1. TypeOK /\ HandlerOK(d)
  BY DEF APIInv
<1>2. (Found(d) => Found(d)') /\ (InHand(d) => InHand(d)')
  BY <1>1, FoundStays, InHandStays DEF Quiet
<1>3. /\ \A id, row : Kept(id, row) => Kept(id, row)'
      /\ \A id, status : DecidedAs(id, status) =>
            DecidedAs(id, status)' /\ packages'[id] = packages[id]
  BY <1>1, KeptStays
<1> QED
  BY <1>1, <1>2, <1>3 DEF Quiet, HandlerOK, Cleared, Names

(* and its answer true, if the bytes it confirmed are still there or shared. *)
LEMMA AnswerStays ==
    ASSUME APIInv, Grown, NEW d \in Calls, Quiet(d),
           AnsweredWith(d, "confirmed") =>
               LET metadata == answer[d].row.metadata
               IN  \/ objects'[metadata.location] = objects[metadata.location]
                   \/ objects'[metadata.location] = metadata.digest
                   \/ SharedLocation(metadata.location)'
    PROVE  AnswerOK(d)'
<1>1. TypeOK /\ AnswerOK(d)
  BY DEF APIInv
<1>2. Found(d) => Found(d)'
  BY <1>1, FoundStays DEF Quiet
<1>3. /\ \A id, row : Kept(id, row) => Kept(id, row)'
      /\ \A id, status : DecidedAs(id, status) =>
            DecidedAs(id, status)' /\ packages'[id] = packages[id]
  BY <1>1, KeptStays
<1>4. \A k : SharedLocation(k) => SharedLocation(k)'
  BY SharedStays
<1>5. Sent(d)' = Sent(d)
  BY DEF Sent, Quiet
<1>6. ASSUME NEW other \in PackageIDs,
             Holds(packages, other, Sent(d).tenant, StoredKey[Sent(d).key]),
             ~Matches(Sent(d), packages[other])
      PROVE  /\ Holds(packages', other, Sent(d).tenant, StoredKey[Sent(d).key])
             /\ ~Matches(Sent(d), packages'[other])
  BY <1>6 DEF Holds, Matches, Grown, Grows
<1>7. /\ (answer[d].code \in {"read", "confirmed", "recorded"} =>
             Kept(answer[d].package, answer[d].row) /\ Cleared(principal[d], answer[d].row))'
      /\ (AnsweredWith(d, "recorded") =>
             /\ DecidedAs(answer[d].package, request[d].status)
             /\ answer[d].row = packages[answer[d].package])'
      /\ (answer[d].code \in {"created", "retained"} =>
             /\ Kept(answer[d].package, answer[d].row)
             /\ request[d].op = "create" /\ Names(d, answer[d].row))'
      /\ (answer[d].code \notin {"read", "confirmed", "recorded", "created", "retained"} =>
             answer[d].package = NoPackage)'
  BY <1>1, <1>3 DEF AnswerOK, Quiet, Cleared, AnsweredWith, Names
<1>8. (AnsweredWith(d, "confirmed") =>
         \/ objects[answer[d].row.metadata.location] = answer[d].row.metadata.digest
         \/ SharedLocation(answer[d].row.metadata.location))'
  BY <1>1, <1>4 DEF AnswerOK, Quiet, AnsweredWith
<1>9. (answer[d].code \in {"created", "retained", "unavailable"} /\ request[d].op = "create" =>
         Found(d))'
  BY <1>1, <1>2 DEF AnswerOK, Quiet
<1>10. (AnsweredWith(d, "conflict") =>
          \E other \in PackageIDs :
             /\ Holds(packages, other, Sent(d).tenant, StoredKey[Sent(d).key])
             /\ ~Matches(Sent(d), packages[other]))'
  BY <1>1, <1>5, <1>6 DEF AnswerOK, Quiet, AnsweredWith, Holds, Matches
<1> QED
  BY <1>7, <1>8, <1>9, <1>10 DEF AnswerOK

(* What is known of keys, uploads and authors of packages that only grow. *)
LEMMA RecordedStays ==
    ASSUME Grown, NEW key, NEW digest, Recorded(key, digest)
    PROVE  Recorded(key, digest)'
  BY DEF Recorded, Grown, Grows

(* A step of a request is of that request alone. *)
LEMMA OneRequestMoves ==
    ASSUME TypeOK, NEW c \in Calls, Arrive(c) \/ Handle(c)
    PROVE  /\ pc[c] # "answered"
           /\ objects' = objects
           /\ \A d \in Calls \ {c} : Quiet(d)
<1> USE DEF TypeOK, Quiet
<1>1. ASSUME NEW code, NEW id, NEW row, Answer(c, code, id, row)
      PROVE  \A d \in Calls \ {c} : Quiet(d)
  BY <1>1 DEF Answer, Goto
<1>2. ASSUME NEW code, Error(c, code)
      PROVE  \A d \in Calls \ {c} : Quiet(d)
  BY <1>1, <1>2 DEF Error
<1>3. ASSUME NEW id, NEW row, NEW label, Hold(c, id, row), Goto(c, label),
             UNCHANGED <<principal, request, answer>>
      PROVE  \A d \in Calls \ {c} : Quiet(d)
  BY <1>3 DEF Hold, Goto
<1>4. CASE Arrive(c)
  BY <1>2, <1>4 DEF Arrive, Unauthenticated, Refuse, Admit, Goto
<1>5. CASE RejectBody(c) \/ Fail(c)
  BY <1>2, <1>5 DEF RejectBody, Fail
<1>6. CASE CreatePackage(c)
  BY <1>2, <1>3, <1>6 DEF CreatePackage, OnConflict
<1>7. CASE CreateUnacknowledged(c) \/ DecisionUnacknowledged(c)
  BY <1>2, <1>7 DEF CreateUnacknowledged, DecisionUnacknowledged
<1>8. CASE PresignedUpload(c) \/ PresignedDownload(c)
  BY <1>1, <1>8 DEF PresignedUpload, PresignedDownload
<1>9. CASE LoadPackage(c)
  BY <1>2, <1>3, <1>9 DEF LoadPackage
<1>10. CASE RecordValidation(c)
  BY <1>2, <1>10 DEF RecordValidation, Goto
<1>11. CASE ReloadPackage(c) \/ ConfirmUpload(c)
  BY <1>1, <1>2, <1>11 DEF ReloadPackage, ConfirmUpload
<1> QED
  BY <1>4, <1>5, <1>6, <1>7, <1>8, <1>9, <1>10, <1>11 DEF Handle

-----------------------------------------------------------------------------
(* What the handlers do to the tables. *)

(* Whoever is let in holds a token the realm made for this service. *)
LEMMA CallerIsKnown ==
    ASSUME NEW p \in Callers
    PROVE  p.tenant \in Tenants \cup {NoTenant} /\ p \in Known
<1>1. PICK t \in Tokens, now \in Instants : p = PrincipalOf(t) /\ Authenticates(t, now)
  BY DEF Callers
<1>2. /\ t.expires \in Int /\ t.notBefore \in Int \cup {NoTime}
      /\ t.expires > now /\ (t.notBefore \in Int => t.notBefore <= now)
  BY <1>1, AuthenticationAssumption DEF Authenticates, Current
<1>3. t.clearance \in Labels \cup {""}
  BY <1>1 DEF Authenticates, validatedClearance, ClearanceOf
<1>4. Issued(t)
  BY <1>1, <1>2, <1>3 DEF Authenticates, Signed, audienceContains, validatedSubject, Issued
<1> QED
  BY <1>1, <1>4, APIAssumption DEF Known, PrincipalOf

(* A handler about to create sends a proper row. *)
LEMMA Creation ==
    ASSUME APIInv, NEW c \in Calls, pc[c] = "create"
    PROVE  /\ StoredRow(Sent(c)) \in Rows /\ StoredRow(Sent(c)) # NoPackage
           /\ StoredRow(Sent(c)).status = "received"
           /\ StoredRow(Sent(c)).tenant = Sent(c).tenant
           /\ StoredRow(Sent(c)).key = StoredKey[Sent(c).key]
           /\ StoredRow(Sent(c)).metadata.location = Sent(c).key
           /\ Names(c, StoredRow(Sent(c)))
           /\ Sent(c).tenant = principal[c].tenant
<1>1. request[c] \in CreateBodies /\ principal[c] \in Callers /\ principal[c].tenant # NoTenant
  BY DEF APIInv, HandlerOK
<1>2. principal[c].tenant \in Tenants
  BY <1>1, CallerIsKnown
<1>3. Sent(c).tenant = principal[c].tenant /\ Sent(c).key = request[c].key
  BY DEF Sent, CreateRequest
<1> QED
  BY <1>1, <1>2, <1>3, CreationRow DEF Sent, Names

(* The ledger's Receive and Decide grow the table and keep its keys. *)
LEMMA ReceiveKeepsKeys ==
    ASSUME APIInv, NEW c \in Calls, pc[c] = "create", NEW id \in PackageIDs,
           Ledger!Receive(id, Sent(c))
    PROVE  Grown /\ KeysOK' /\ packages'[id] = StoredRow(Sent(c))
<1>1. /\ packages' = [packages EXCEPT ![id] = StoredRow(Sent(c))]
      /\ packages' \in [PackageIDs -> Rows \cup {NoPackage}]
      /\ \A other \in PackageIDs : ~Holds(packages, other, Sent(c).tenant, StoredKey[Sent(c).key])
      /\ \A other \in PackageIDs : Grows(other)
  BY Creation, ReceiveGrows DEF APIInv
<1>2. packages'[id] = StoredRow(Sent(c)) /\ \A other \in PackageIDs \ {id} : packages'[other] = packages[other]
  BY <1>1 DEF APIInv, TypeOK
<1>3. KeysOK'
  <2>1. ASSUME NEW i \in PackageIDs, packages'[i] # NoPackage
        PROVE  packages'[i].key = StoredKey[packages'[i].metadata.location]
    BY <1>2, <2>1, Creation DEF APIInv, KeysOK
  <2>2. ASSUME NEW i \in PackageIDs, NEW j \in PackageIDs, packages'[i] # NoPackage,
               Holds(packages', j, packages'[i].tenant, packages'[i].key)
        PROVE  i = j
    BY <1>1, <1>2, <2>2, Creation DEF APIInv, KeysOK, Holds
  <2> QED
    BY <2>1, <2>2 DEF KeysOK, Holds
<1> QED
  BY <1>1, <1>2, <1>3 DEF Grown

(* The decision of a package changes no key. *)
LEMMA DecideKeepsKeys ==
    ASSUME APIInv, NEW id \in PackageIDs, NEW status \in Terminal, Ledger!Decide(id, status)
    PROVE  Grown /\ KeysOK' /\ DecidedAs(id, status)'
<1>1. /\ packages[id] \in Rows
      /\ packages' = [packages EXCEPT ![id] = [packages[id] EXCEPT !.status = status]]
      /\ packages' \in [PackageIDs -> Rows \cup {NoPackage}]
      /\ DecidedAs(id, status)'
      /\ \A other \in PackageIDs : Grows(other)
  BY DecideGrows DEF APIInv
<1>2. \A other \in PackageIDs : packages[other] = NoPackage => packages'[other] = NoPackage
  BY <1>1, DataAssumption DEF APIInv, TypeOK
<1>3. KeysOK'
  BY <1>1, <1>2 DEF APIInv, KeysOK, Holds, Grows
<1> QED
  BY <1>1, <1>3 DEF Grown

(* A step that leaves the table alone keeps all this. *)
LEMMA SameTables ==
    ASSUME APIInv, UNCHANGED packages
    PROVE  Grown /\ KeysOK'
  BY DEF APIInv, TypeOK, Grown, Grows, KeysOK, Holds

(* Every step of a handler leaves the table grown, with its keys. *)
LEMMA TableStep ==
    ASSUME APIInv, NEW c \in Calls, Arrive(c) \/ Handle(c)
    PROVE  Grown /\ KeysOK'
<1>1. CASE CreatePackage(c)
  <2>1. CASE \E id \in PackageIDs : Ledger!Receive(id, Sent(c))
    BY <1>1, <2>1, ReceiveKeepsKeys DEF CreatePackage
  <2>2. CASE UNCHANGED ledger
    BY <2>2, SameTables DEF ledger
  <2> QED
    BY <1>1, <2>1, <2>2 DEF CreatePackage, Sent
<1>2. CASE CreateUnacknowledged(c)
  BY <1>2, ReceiveKeepsKeys DEF CreateUnacknowledged, Sent
<1>3. CASE RecordValidation(c) \/ DecisionUnacknowledged(c)
  <2>1. pc[c] = "decide"
    BY <1>3 DEF RecordValidation, DecisionUnacknowledged
  <2>2. request[c].package \in PackageIDs /\ request[c].status \in Terminal
    BY <2>1 DEF APIInv, HandlerOK, PackageBodies
  <2>3. Ledger!Decide(request[c].package, request[c].status) \/ UNCHANGED ledger
    BY <1>3 DEF RecordValidation, DecisionUnacknowledged
  <2> QED
    BY <2>2, <2>3, DecideKeepsKeys, SameTables DEF ledger
<1>4. CASE Arrive(c) \/ RejectBody(c) \/ PresignedUpload(c) \/ LoadPackage(c) \/ PresignedDownload(c)
  <2>1. UNCHANGED packages
    BY <1>4 DEF Arrive, Unauthenticated, Refuse, Admit, RejectBody, PresignedUpload, LoadPackage,
                PresignedDownload, ledger
  <2> QED
    BY <2>1, SameTables
<1>5. CASE ReloadPackage(c) \/ ConfirmUpload(c) \/ Fail(c)
  BY <1>5, SameTables DEF ReloadPackage, ConfirmUpload, Fail, ledger
<1> QED
  BY <1>1, <1>2, <1>3, <1>4, <1>5 DEF Handle

-----------------------------------------------------------------------------
(* Types. *)

(* A response is of the type of responses, *)
LEMMA AnswerType ==
    ASSUME TypeOK, NEW c \in Calls, NEW code \in Codes, NEW id \in PackageIDs \cup {NoPackage},
           NEW row \in Rows \cup {NoPackage}, Answer(c, code, id, row),
           packages' \in [PackageIDs -> Rows \cup {NoPackage}],
           objects' = objects, uploads' \subseteq Uploads
    PROVE  TypeOK'
<1> DEFINE A == [code : Codes, package : PackageIDs \cup {NoPackage}, row : Rows \cup {NoPackage}]
<1> DEFINE R == [package : PackageIDs \cup {NoPackage}, row : Rows \cup {NoPackage}]
<1>1. [code |-> code, package |-> id, row |-> row] \in A /\ NoRecord \in R
  BY DEF NoRecord
<1>2. answer' \in [Calls -> A] /\ record' \in [Calls -> R]
  BY <1>1 DEF TypeOK, Answer
<1> QED
  BY <1>2 DEF TypeOK, Answer, Goto

(* a record in hand of that of records, *)
LEMMA HoldType ==
    ASSUME TypeOK, NEW c \in Calls, NEW id \in PackageIDs, NEW row \in Rows, Hold(c, id, row),
           NEW label \in {"presign", "presign_new", "decide", "head"}, Goto(c, label),
           UNCHANGED <<principal, request, answer, objects, uploads>>,
           packages' \in [PackageIDs -> Rows \cup {NoPackage}]
    PROVE  TypeOK'
<1> DEFINE R == [package : PackageIDs \cup {NoPackage}, row : Rows \cup {NoPackage}]
<1>1. [package |-> id, row |-> row] \in R
  OBVIOUS
<1>2. record' \in [Calls -> R]
  BY <1>1 DEF TypeOK, Hold
<1> QED
  BY <1>2 DEF TypeOK, Goto

(* and an error is a response. *)
LEMMA ErrorType ==
    ASSUME APIInv, Grown, NEW c \in Calls, NEW code \in Codes, Error(c, code),
           UNCHANGED <<objects, uploads>>
    PROVE  TypeOK'
<1>1. TypeOK /\ Answer(c, code, NoPackage, NoPackage)
  BY DEF APIInv, Error
<1>2. /\ packages' \in [PackageIDs -> Rows \cup {NoPackage}]
      /\ objects' = objects /\ uploads' \subseteq Uploads
  BY <1>1 DEF Grown, TypeOK
<1> QED
  BY <1>1, <1>2, AnswerType

(* Every step of a handler keeps the types. *)
LEMMA HandlerType ==
    ASSUME APIInv, NEW c \in Calls, Arrive(c) \/ Handle(c)
    PROVE  TypeOK'
<1>1. Grown /\ TypeOK /\ HandlerOK(c) /\ packages' \in [PackageIDs -> Rows \cup {NoPackage}]
  BY TableStep DEF APIInv, Grown
<1>2. CASE Unauthenticated(c) \/ (\E p \in Callers, body \in Bodies : Refuse(c, p, body))
  BY <1>1, <1>2, ErrorType DEF Unauthenticated, Refuse, Codes
<1>3. CASE \E p \in Callers, body \in Bodies : Admit(c, p, body)
  <2> PICK p \in Callers, body \in Bodies : Admit(c, p, body)
    BY <1>3
  <2>1. /\ principal' = [principal EXCEPT ![c] = p] /\ request' = [request EXCEPT ![c] = body]
        /\ \E label \in {"create", "load"} : pc' = [pc EXCEPT ![c] = label]
        /\ UNCHANGED <<objects, uploads, record, answer>>
    BY DEF Admit, Goto
  <2>2. /\ principal' \in [Calls -> Callers \cup {NoPrincipal}]
        /\ request' \in [Calls -> CreateBodies \cup PackageBodies \cup {NoRequest}]
    BY <1>1, <2>1, BodiesAreSent DEF TypeOK
  <2>3. pc' \in [Calls -> {"start", "create", "presign", "presign_new", "load", "decide",
                          "reload", "head", "answered"}]
    BY <1>1, <2>1 DEF TypeOK
  <2> QED
    BY <1>1, <2>1, <2>2, <2>3 DEF TypeOK
<1>4. CASE RejectBody(c)
  BY <1>1, <1>4, ErrorType DEF RejectBody, Codes
<1>5. CASE CreatePackage(c)
  <2>1. CASE \E id \in PackageIDs :
               Hold(c, id, StoredRow(Sent(c))) /\ Goto(c, "presign_new")
               /\ UNCHANGED <<principal, request, answer>>
    BY <1>1, <1>5, <2>1, Creation, HoldType DEF CreatePackage
  <2>2. CASE \E id \in PackageIDs :
               packages[id] # NoPackage /\ Hold(c, id, packages[id]) /\ Goto(c, "presign")
               /\ UNCHANGED <<principal, request, answer>>
    BY <1>1, <1>5, <2>2, HoldType DEF CreatePackage, TypeOK
  <2>3. CASE Error(c, "conflict")
    BY <1>1, <1>5, <2>3, ErrorType DEF CreatePackage, Codes
  <2> QED
    BY <1>5, <2>1, <2>2, <2>3 DEF CreatePackage, OnConflict, Sent, Holds
<1>6. CASE CreateUnacknowledged(c) \/ DecisionUnacknowledged(c)
  BY <1>1, <1>6, ErrorType DEF CreateUnacknowledged, DecisionUnacknowledged, Codes
<1>7. CASE PresignedUpload(c)
  <2>1. Kept(record[c].package, record[c].row)
    BY <1>1, <1>7 DEF HandlerOK, PresignedUpload
  <2>2. record[c].row.metadata \in Metadata
    BY <2>1 DEF Kept, Rows
  <2>3. UploadFor(record[c].row) \in Uploads
    BY <2>2, APIAssumption DEF UploadFor, Uploads
  <2>4. uploads' \subseteq Uploads /\ objects' = objects
    BY <1>1, <1>7, <2>3 DEF PresignedUpload, TypeOK
  <2>5. \E code \in {"created", "retained"} : Answer(c, code, record[c].package, record[c].row)
    BY <1>7 DEF PresignedUpload
  <2> QED
    BY <1>1, <2>1, <2>4, <2>5, AnswerType DEF Kept, Codes
<1>8. CASE LoadPackage(c)
  <2>1. request[c].package \in PackageIDs /\ request[c].op \in {"read", "confirm", "validate"}
    BY <1>1, <1>8 DEF LoadPackage, HandlerOK, PackageBodies
  <2>2. AfterLoad(request[c].op) \in {"presign", "head", "decide"}
    BY <2>1 DEF AfterLoad
  <2>3. CASE \E code \in {"not_found", "forbidden"} : Error(c, code)
    BY <1>1, <1>8, <2>3, ErrorType DEF LoadPackage, Codes
  <2>4. CASE /\ packages[request[c].package] # NoPackage
             /\ Hold(c, request[c].package, packages[request[c].package])
             /\ Goto(c, AfterLoad(request[c].op))
             /\ UNCHANGED <<principal, request, answer>>
    BY <1>1, <1>8, <2>1, <2>2, <2>4, HoldType DEF LoadPackage, TypeOK
  <2> QED
    BY <1>8, <2>3, <2>4 DEF LoadPackage
<1>9. CASE PresignedDownload(c)
  BY <1>1, <1>9, AnswerType DEF PresignedDownload, TypeOK, Codes
<1>10. CASE RecordValidation(c)
  <2>1. CASE Error(c, "terminal")
    BY <1>1, <1>10, <2>1, ErrorType DEF RecordValidation, Codes
  <2>2. CASE Goto(c, "reload") /\ UNCHANGED <<principal, request, record, answer>>
    BY <1>1, <1>10, <2>2 DEF RecordValidation, Goto, TypeOK
  <2> QED
    BY <1>10, <2>1, <2>2 DEF RecordValidation
<1>11. CASE ReloadPackage(c)
  <2>1. DecidedAs(request[c].package, request[c].status)
    BY <1>1, <1>11 DEF ReloadPackage, HandlerOK
  <2>2. /\ request[c].package \in PackageIDs /\ packages[request[c].package] \in Rows
        /\ Answer(c, "recorded", request[c].package, packages[request[c].package])
        /\ UNCHANGED <<objects, uploads>>
    BY <1>11, <2>1 DEF ReloadPackage, Reloaded, DecidedAs
  <2> QED
    BY <1>1, <2>2, AnswerType DEF TypeOK, Codes
<1>12. CASE ConfirmUpload(c)
  <2>1. CASE Answer(c, "confirmed", record[c].package, record[c].row)
    BY <1>1, <1>12, <2>1, AnswerType DEF ConfirmUpload, TypeOK, Codes
  <2>2. CASE Error(c, "unverified")
    BY <1>1, <1>12, <2>2, ErrorType DEF ConfirmUpload, Codes
  <2> QED
    BY <1>12, <2>1, <2>2 DEF ConfirmUpload
<1>13. CASE Fail(c)
  <2>1. ErrorAt(pc[c]) \in Codes
    BY <1>1, <1>13 DEF Fail, ErrorAt, Codes, TypeOK
  <2> QED
    BY <1>1, <1>13, <2>1, ErrorType DEF Fail
<1> QED
  BY <1>2, <1>3, <1>4, <1>5, <1>6, <1>7, <1>8, <1>9, <1>10, <1>11, <1>12, <1>13 DEF Arrive, Handle

-----------------------------------------------------------------------------
(* The request that moves. *)

(* Answers are on record, and nothing is in the handler's hands any more. *)
LEMMA Answered ==
    ASSUME TypeOK, NEW c \in Calls, NEW code, NEW id, NEW row, Answer(c, code, id, row)
    PROVE  /\ pc'[c] = "answered"
           /\ answer'[c] = [code |-> code, package |-> id, row |-> row]
           /\ principal' = principal /\ request' = request
  BY DEF Answer, Goto, TypeOK

(* An answered request is in no handler any more. *)
LEMMA AnsweredIsDone ==
    ASSUME NEW c \in Calls, pc'[c] = "answered"
    PROVE  HandlerOK(c)'
  BY DEF HandlerOK

(* An error that says nothing of packages and objects. *)
LEMMA ErrorTold ==
    ASSUME TypeOK, NEW c \in Calls,
           NEW code \in Codes \ {"read", "confirmed", "recorded", "created", "retained",
                                 "unavailable", "conflict"},
           Error(c, code)
    PROVE  HandlerOK(c)' /\ AnswerOK(c)'
<1>1. pc'[c] = "answered" /\ answer'[c].code = code /\ answer'[c].package = NoPackage
  BY DEF Error, Answer, Goto, TypeOK
<1> QED
  BY <1>1, AnsweredIsDone DEF AnswerOK, AnsweredWith

(* A step that answers nothing keeps what AnswerOK says: nothing. *)
LEMMA NotAnswered ==
    ASSUME TypeOK, NEW c \in Calls, HandlerOK(c), pc[c] # "answered", answer' = answer
    PROVE  AnswerOK(c)' /\ answer'[c].code = "none" /\ answer'[c].package = NoPackage
  BY DEF HandlerOK, AnswerOK, AnsweredWith

(* What it takes to hold a record. *)
LEMMA Holding ==
    ASSUME TypeOK, NEW c \in Calls, NEW id, NEW row, NEW label, Hold(c, id, row), Goto(c, label)
    PROVE  /\ pc'[c] = label /\ record'[c].package = id /\ record'[c].row = row
  BY DEF Hold, Goto, TypeOK

(* Arrivals: what RequireRoles let through. *)
LEMMA ArriveTold ==
    ASSUME APIInv, NEW c \in Calls, Arrive(c)
    PROVE  HandlerOK(c)' /\ AnswerOK(c)'
<1>1. TypeOK /\ HandlerOK(c)
  BY DEF APIInv
<1>2. CASE Unauthenticated(c) \/ (\E p \in Callers, body \in Bodies : Refuse(c, p, body))
  BY <1>1, <1>2, ErrorTold DEF Unauthenticated, Refuse, Codes
<1>3. CASE \E p \in Callers, body \in Bodies : Admit(c, p, body)
  <2> PICK p \in Callers, body \in Bodies : Admit(c, p, body)
    BY <1>3
  <2>1. /\ pc[c] = "start" /\ RequireRoles(p, body.op)
        /\ body.op = "create" => p.tenant # NoTenant
        /\ principal'[c] = p /\ request'[c] = body
        /\ pc'[c] = IF body.op = "create" THEN "create" ELSE "load"
        /\ answer' = answer
    BY <1>1 DEF Admit, Goto, TypeOK
  <2>2. /\ body.op = "create" => body \in CreateBodies
        /\ body.op # "create" => body \in PackageBodies
    BY BodiesAreSent DEF CreateBodies, PackageBodies
  <2>3. AnswerOK(c)' /\ answer'[c].code = "none" /\ answer'[c].package = NoPackage
    BY <1>1, <2>1, NotAnswered
  <2> QED
    BY <2>1, <2>2, <2>3 DEF HandlerOK
<1> QED
  BY <1>2, <1>3 DEF Arrive

(* createPackage *)
LEMMA CreateTold ==
    ASSUME APIInv, NEW c \in Calls, CreatePackage(c)
    PROVE  HandlerOK(c)' /\ AnswerOK(c)'
<1>1. /\ TypeOK /\ HandlerOK(c) /\ pc[c] = "create"
      /\ request[c].op = "create"
      /\ principal[c] \in Callers /\ RequireRoles(principal[c], request[c].op)
  BY DEF APIInv, CreatePackage, HandlerOK, CreateBodies
<1>2. ASSUME NEW id \in PackageIDs, NEW row \in Rows, Hold(c, id, row),
             NEW label \in {"presign", "presign_new"}, Goto(c, label),
             UNCHANGED <<principal, request, answer>>, packages'[id] = row,
             Holds(packages', id, Sent(c).tenant, StoredKey[Sent(c).key]),
             Canonical(Sent(c)) => Matches(Sent(c), row), Names(c, row),
             label = "presign" => Matches(Sent(c), row)
      PROVE  HandlerOK(c)' /\ AnswerOK(c)'
  <2>1. pc'[c] = label /\ record'[c].package = id /\ record'[c].row = row
    BY <1>1, <1>2, Holding
  <2>2. AnswerOK(c)' /\ answer'[c].code = "none" /\ answer'[c].package = NoPackage
    BY <1>1, <1>2, NotAnswered
  <2>3. Kept(record[c].package, record[c].row)'
    BY <1>2, <2>1 DEF Kept
  <2>4. Sent(c)' = Sent(c)
    BY <1>2 DEF Sent
  <2>5. Found(c)'
    BY <1>2, <2>4 DEF Found, Holds, Matches, Canonical
  <2>6. InHand(c)' /\ Names(c, record[c].row)'
    BY <1>2, <2>1, <2>4 DEF InHand, Holds, Matches, Names
  <2> QED
    BY <1>1, <1>2, <2>1, <2>2, <2>3, <2>5, <2>6 DEF HandlerOK
<1>3. ASSUME NEW id \in PackageIDs, Ledger!Receive(id, Sent(c)),
             Hold(c, id, StoredRow(Sent(c))), Goto(c, "presign_new"),
             UNCHANGED <<principal, request, answer>>
      PROVE  HandlerOK(c)' /\ AnswerOK(c)'
  <2>1. packages'[id] = StoredRow(Sent(c))
    BY <1>1, <1>3, ReceiveKeepsKeys
  <2>2. Holds(packages', id, Sent(c).tenant, StoredKey[Sent(c).key])
    BY <1>1, <2>1, Creation DEF Holds
  <2>3. Canonical(Sent(c)) => Matches(Sent(c), StoredRow(Sent(c)))
    BY DEF Canonical, Matches, StoredRow
  <2> QED
    BY <1>1, <1>2, <1>3, <2>1, <2>2, <2>3, Creation
<1>4. ASSUME NEW id \in PackageIDs, UNCHANGED ledger,
             Holds(packages, id, Sent(c).tenant, StoredKey[Sent(c).key]),
             Matches(Sent(c), packages[id]),
             Hold(c, id, packages[id]), Goto(c, "presign"),
             UNCHANGED <<principal, request, answer>>
      PROVE  HandlerOK(c)' /\ AnswerOK(c)'
  <2>1. packages[id] \in Rows /\ packages' = packages
    BY <1>1, <1>4 DEF Holds, TypeOK, ledger
  <2>2. Names(c, packages[id])
    BY <1>4 DEF Holds, Matches, Names, Sent, CreateRequest
  <2> QED
    BY <1>2, <1>4, <2>1, <2>2
<1>5. ASSUME NEW id \in PackageIDs, UNCHANGED ledger,
             Holds(packages, id, Sent(c).tenant, StoredKey[Sent(c).key]),
             ~Matches(Sent(c), packages[id]),
             Error(c, "conflict")
      PROVE  HandlerOK(c)' /\ AnswerOK(c)'
  <2>1. /\ pc'[c] = "answered" /\ principal' = principal /\ request' = request
        /\ answer'[c] = [code |-> "conflict", package |-> NoPackage, row |-> NoPackage]
    BY <1>1, <1>5, Answered DEF Error
  <2>2. answer'[c].code = "conflict" /\ Sent(c)' = Sent(c) /\ packages' = packages
    BY <1>5, <2>1 DEF Sent, ledger
  <2>3. (/\ Holds(packages, id, Sent(c).tenant, StoredKey[Sent(c).key])
         /\ ~Matches(Sent(c), packages[id]))'
    BY <1>5, <2>2 DEF Holds, Matches
  <2> QED
    BY <2>1, <2>2, <2>3, AnsweredIsDone DEF AnswerOK, AnsweredWith
<1> QED
  BY <1>3, <1>4, <1>5 DEF CreatePackage, OnConflict, Sent

(* What a refusal or a lost acknowledgement leaves behind. *)
LEMMA LostTold ==
    ASSUME APIInv, NEW c \in Calls,
           RejectBody(c) \/ CreateUnacknowledged(c) \/ DecisionUnacknowledged(c)
    PROVE  HandlerOK(c)' /\ AnswerOK(c)'
<1>1. \E code \in {"invalid", "failed"} : Error(c, code)
  BY DEF RejectBody, CreateUnacknowledged, DecisionUnacknowledged
<1> QED
  BY <1>1, ErrorTold DEF APIInv, Codes

(* The end of createPackage: the package it tells of is there. *)
LEMMA UploadTold ==
    ASSUME APIInv, NEW c \in Calls, PresignedUpload(c)
    PROVE  HandlerOK(c)' /\ AnswerOK(c)'
<1>1. TypeOK /\ HandlerOK(c) /\ Grown
  BY SameTables DEF APIInv, PresignedUpload, ledger
<1>2. Found(c)
  BY <1>1 DEF PresignedUpload, HandlerOK
<1>3. PICK code \in {"created", "retained"} : Answer(c, code, record[c].package, record[c].row)
  BY DEF PresignedUpload
<1>4. /\ pc'[c] = "answered" /\ principal' = principal /\ request' = request
      /\ answer'[c] = [code |-> code, package |-> record[c].package, row |-> record[c].row]
  BY <1>1, <1>3, Answered
<1>5. Found(c)'
  BY <1>1, <1>2, <1>4, FoundStays
<1>6. /\ Kept(record[c].package, record[c].row) /\ Names(c, record[c].row)
      /\ request[c].op = "create" /\ packages' = packages
  BY <1>1 DEF PresignedUpload, HandlerOK, ledger
<1>7. Kept(answer[c].package, answer[c].row)' /\ Names(c, answer[c].row)'
  BY <1>4, <1>6 DEF Kept, Names
<1> QED
  BY <1>4, <1>5, <1>6, <1>7, AnsweredIsDone DEF AnswerOK, AnsweredWith

(* loadPackage: the package in hand is the caller's to see. *)
LEMMA LoadTold ==
    ASSUME APIInv, NEW c \in Calls, LoadPackage(c)
    PROVE  HandlerOK(c)' /\ AnswerOK(c)'
<1> DEFINE id == request[c].package
           row == packages[id]
<1>1. /\ TypeOK /\ HandlerOK(c) /\ pc[c] = "load" /\ packages' = packages
      /\ principal[c] \in Callers /\ RequireRoles(principal[c], request[c].op)
  BY DEF APIInv, LoadPackage, HandlerOK, ledger
<1>2. /\ request[c] \in PackageBodies /\ id \in PackageIDs
      /\ request[c].op \in {"read", "confirm", "validate"}
  BY <1>1 DEF HandlerOK, PackageBodies
<1>3. CASE \E code \in {"not_found", "forbidden"} : Error(c, code)
  BY <1>1, <1>3, ErrorTold DEF Codes
<1>4. CASE /\ row # NoPackage /\ SameTenant(principal[c], row)
           /\ ClearanceCovers(principal[c].clearance, row.metadata.classification)
           /\ Hold(c, id, row) /\ Goto(c, AfterLoad(request[c].op))
           /\ UNCHANGED <<principal, request, answer>>
  <2>1. /\ pc'[c] = AfterLoad(request[c].op)
        /\ record'[c].package = id /\ record'[c].row = row
    BY <1>1, <1>4, Holding
  <2>2. AnswerOK(c)' /\ answer'[c].code = "none" /\ answer'[c].package = NoPackage
    BY <1>1, <1>4, NotAnswered
  <2>3. Kept(record[c].package, record[c].row)'
    BY <1>1, <1>2, <1>4, <2>1 DEF Kept, TypeOK
  <2>4. Cleared(principal[c], record[c].row)'
    BY <1>4, <2>1 DEF Cleared, SameTenant, ClearanceCovers
  <2>5. \/ request[c].op = "read" /\ pc'[c] = "presign"
        \/ request[c].op = "confirm" /\ pc'[c] = "head"
        \/ request[c].op = "validate" /\ pc'[c] = "decide"
    BY <1>2, <2>1 DEF AfterLoad
  <2>6. principal' = principal /\ request' = request
    BY <1>4
  <2> QED
    BY <1>1, <1>2, <2>1, <2>2, <2>3, <2>4, <2>5, <2>6 DEF HandlerOK
<1> QED
  BY <1>3, <1>4, <1>1 DEF LoadPackage

(* getPackage: what is shown is what was loaded, and still cleared. *)
LEMMA DownloadTold ==
    ASSUME APIInv, NEW c \in Calls, PresignedDownload(c)
    PROVE  HandlerOK(c)' /\ AnswerOK(c)'
<1>1. TypeOK /\ HandlerOK(c) /\ packages' = packages
  BY DEF APIInv, PresignedDownload, ledger
<1>2. Kept(record[c].package, record[c].row) /\ Cleared(principal[c], record[c].row)
  BY <1>1 DEF PresignedDownload, HandlerOK
<1>3. /\ pc'[c] = "answered" /\ principal' = principal /\ request' = request
      /\ answer'[c] = [code |-> "read", package |-> record[c].package, row |-> record[c].row]
  BY <1>1, Answered DEF PresignedDownload
<1>4. Kept(answer[c].package, answer[c].row)' /\ Cleared(principal[c], answer[c].row)'
  BY <1>1, <1>2, <1>3 DEF Kept, Cleared
<1> QED
  BY <1>3, <1>4, AnsweredIsDone DEF AnswerOK, AnsweredWith

(* recordValidation between its two reads: the decision it made stands. *)
LEMMA DecideTold ==
    ASSUME APIInv, NEW c \in Calls, RecordValidation(c)
    PROVE  HandlerOK(c)' /\ AnswerOK(c)'
<1> DEFINE id == request[c].package
<1>1. /\ TypeOK /\ HandlerOK(c) /\ pc[c] = "decide"
      /\ request[c] \in PackageBodies /\ request[c].op = "validate"
      /\ principal[c] \in Callers /\ RequireRoles(principal[c], request[c].op)
      /\ record[c].package = id /\ Kept(id, record[c].row) /\ Cleared(principal[c], record[c].row)
  BY DEF APIInv, RecordValidation, HandlerOK
<1>2. id \in PackageIDs /\ request[c].status \in Terminal
  BY <1>1 DEF PackageBodies
<1>3. CASE Error(c, "terminal")
  BY <1>1, <1>3, ErrorTold DEF Codes
<1>4. CASE /\ Ledger!Decide(id, request[c].status)
           /\ Goto(c, "reload")
           /\ UNCHANGED <<principal, request, record, answer>>
  <2>1. Grown /\ DecidedAs(id, request[c].status)'
    BY <1>2, <1>4, DecideKeepsKeys
  <2>2. Kept(id, record[c].row)'
    BY <1>1, <1>4, <2>1, KeptStays DEF Kept
  <2>3. Cleared(principal[c], packages[id])'
    BY <1>1, <1>4, <2>2 DEF Kept, Cleared
  <2>4. AnswerOK(c)' /\ answer'[c].code = "none" /\ answer'[c].package = NoPackage
    BY <1>1, <1>4, NotAnswered
  <2>5. pc'[c] = "reload" /\ principal' = principal /\ request' = request
    BY <1>1, <1>4 DEF Goto, TypeOK
  <2> QED
    BY <1>1, <2>1, <2>3, <2>4, <2>5 DEF HandlerOK
<1> QED
  BY <1>3, <1>4 DEF RecordValidation

(* recordValidation's second read: the row shown carries the decision made. *)
LEMMA ReloadTold ==
    ASSUME APIInv, NEW c \in Calls, ReloadPackage(c)
    PROVE  HandlerOK(c)' /\ AnswerOK(c)'
<1> DEFINE id == request[c].package
<1>1. TypeOK /\ HandlerOK(c) /\ packages' = packages
  BY DEF APIInv, ReloadPackage, ledger
<1>2. DecidedAs(id, request[c].status) /\ Cleared(principal[c], packages[id])
  BY <1>1 DEF ReloadPackage, HandlerOK
<1>3. /\ pc'[c] = "answered" /\ principal' = principal /\ request' = request
      /\ answer'[c] = [code |-> "recorded", package |-> id, row |-> packages[id]]
  BY <1>1, Answered DEF ReloadPackage, Reloaded
<1>4. /\ Kept(answer[c].package, answer[c].row)' /\ Cleared(principal[c], answer[c].row)'
      /\ DecidedAs(answer[c].package, request[c].status)'
      /\ answer'[c].row = packages'[answer'[c].package]
  BY <1>1, <1>2, <1>3 DEF Kept, Cleared, DecidedAs
<1> QED
  BY <1>3, <1>4, AnsweredIsDone DEF AnswerOK, AnsweredWith

(* confirmUpload: the bytes were there when they were asked for. *)
LEMMA ConfirmTold ==
    ASSUME APIInv, NEW c \in Calls, ConfirmUpload(c)
    PROVE  HandlerOK(c)' /\ AnswerOK(c)'
<1>1. TypeOK /\ HandlerOK(c) /\ packages' = packages /\ objects' = objects
  BY DEF APIInv, ConfirmUpload, ledger
<1>2. Kept(record[c].package, record[c].row) /\ Cleared(principal[c], record[c].row)
  BY <1>1 DEF ConfirmUpload, HandlerOK
<1>3. CASE Error(c, "unverified")
  BY <1>1, <1>3, ErrorTold DEF Codes
<1>4. CASE /\ objects[record[c].row.metadata.location] = record[c].row.metadata.digest
           /\ Answer(c, "confirmed", record[c].package, record[c].row)
  <2>1. /\ pc'[c] = "answered" /\ principal' = principal /\ request' = request
        /\ answer'[c] = [code |-> "confirmed", package |-> record[c].package, row |-> record[c].row]
    BY <1>1, <1>4, Answered
  <2>2. Kept(answer[c].package, answer[c].row)' /\ Cleared(principal[c], answer[c].row)'
    BY <1>1, <1>2, <2>1 DEF Kept, Cleared
  <2>3. objects'[answer'[c].row.metadata.location] = answer'[c].row.metadata.digest
    BY <1>1, <1>4, <2>1
  <2> QED
    BY <2>1, <2>2, <2>3, AnsweredIsDone DEF AnswerOK, AnsweredWith
<1> QED
  BY <1>3, <1>4 DEF ConfirmUpload, VerifyDigest

(* A failing call: only presigning after a creation leaves something to find. *)
LEMMA FailTold ==
    ASSUME APIInv, NEW c \in Calls, Fail(c)
    PROVE  HandlerOK(c)' /\ AnswerOK(c)'
<1>1. TypeOK /\ HandlerOK(c) /\ Grown
  BY SameTables DEF APIInv, Fail, ledger
<1>2. /\ pc[c] \in {"create", "load", "decide", "reload", "head", "presign", "presign_new"}
      /\ Error(c, ErrorAt(pc[c]))
  BY <1>1 DEF Fail, TypeOK
<1>3. CASE pc[c] \notin {"presign", "presign_new"}
  <2>1. ErrorAt(pc[c]) \in {"failed", "unverified"}
    BY <1>2, <1>3 DEF ErrorAt
  <2> QED
    BY <1>1, <1>2, <2>1, ErrorTold DEF Codes
<1>4. CASE pc[c] \in {"presign", "presign_new"}
  <2>1. ErrorAt(pc[c]) = "unavailable"
    BY <1>4 DEF ErrorAt
  <2>2. /\ pc'[c] = "answered" /\ principal' = principal /\ request' = request
        /\ answer'[c] = [code |-> "unavailable", package |-> NoPackage, row |-> NoPackage]
    <3>1. Answer(c, "unavailable", NoPackage, NoPackage)
      BY <1>2, <2>1 DEF Error
    <3> QED
      BY <1>1, <3>1, Answered
  <2>3. request[c].op = "create" => Found(c)'
    BY <1>1, <1>4, <2>2, FoundStays DEF HandlerOK
  <2> QED
    BY <2>2, <2>3, AnsweredIsDone DEF AnswerOK, AnsweredWith
<1> QED
  BY <1>3, <1>4

(* Whatever a handler does next, its place and its answer are told the truth. *)
LEMMA MovingTold ==
    ASSUME APIInv, NEW c \in Calls, Arrive(c) \/ Handle(c)
    PROVE  HandlerOK(c)' /\ AnswerOK(c)'
  BY ArriveTold, LostTold, CreateTold, UploadTold, LoadTold, DownloadTold, DecideTold,
     ReloadTold, ConfirmTold, FailTold DEF Handle

-----------------------------------------------------------------------------
(* Uploads and objects. *)

(* An upload is granted for the record in hand, which the store still has. *)
LEMMA GrantsStay ==
    ASSUME APIInv, NEW c \in Calls, Arrive(c) \/ Handle(c)
    PROVE  (\A grant \in uploads : Recorded(grant.key, grant.digest))'
<1>1. Grown /\ HandlerOK(c) /\ \A grant \in uploads : Recorded(grant.key, grant.digest)
  BY TableStep DEF APIInv
<1>2. \A grant \in uploads : Recorded(grant.key, grant.digest)'
  BY <1>1, RecordedStays
<1>3. CASE uploads' = uploads
  BY <1>2, <1>3 DEF Recorded
<1>4. CASE PresignedUpload(c)
  <2> DEFINE m == record[c].row.metadata
  <2>1. Kept(record[c].package, record[c].row) /\ packages' = packages
    BY <1>1, <1>4 DEF PresignedUpload, HandlerOK, ledger
  <2>2. \A key, digest : key = m.location /\ digest = m.digest => Recorded(key, digest)'
    BY <2>1, DataAssumption DEF Kept, Recorded
  <2>3. uploads' = uploads \cup {[key |-> m.location, digest |-> m.digest]}
    BY <1>4 DEF PresignedUpload, UploadFor
  <2>4. ASSUME NEW grant \in uploads'
        PROVE  Recorded(grant.key, grant.digest)'
    BY <1>2, <2>2, <2>3
  <2> QED
    BY <2>4
<1>5. uploads' = uploads \/ PresignedUpload(c)
  BY DEF Arrive, Handle, Unauthenticated, Refuse, Admit, RejectBody, CreatePackage,
         CreateUnacknowledged, LoadPackage, PresignedDownload, RecordValidation,
         DecisionUnacknowledged, ReloadPackage, ConfirmUpload, Fail
<1> QED
  BY <1>3, <1>4, <1>5

(* Bytes under a key stay those of a recorded package. *)
LEMMA ContentStays ==
    ASSUME OnlyRecordedContent, Grown,
           \A k \in KeyTexts : objects'[k] = objects[k] \/ Recorded(k, objects'[k])
    PROVE  OnlyRecordedContent'
<1>1. ASSUME NEW k \in KeyTexts, objects'[k] # NoObject
      PROVE  \E id \in PackageIDs :
                /\ packages'[id] # NoPackage
                /\ packages'[id].metadata.location = k
                /\ packages'[id].metadata.digest = objects'[k]
  <2>1. Recorded(k, objects'[k])
    BY <1>1 DEF OnlyRecordedContent, Recorded
  <2> QED
    BY <2>1 DEF Recorded, Grown, Grows
<1> QED
  BY <1>1 DEF OnlyRecordedContent

(* One package has a key of a tenant: its bytes are put under it, or another *)
(* tenant chose the same key.                                               *)
LEMMA SameKeySameContent ==
    ASSUME APIInv, NEW id, NEW row, Kept(id, row), NEW digest, Recorded(row.metadata.location, digest)
    PROVE  digest = row.metadata.digest \/ SharedLocation(row.metadata.location)
<1>1. PICK other \in PackageIDs :
         /\ packages[other] # NoPackage
         /\ packages[other].metadata.location = row.metadata.location
         /\ packages[other].metadata.digest = digest
  BY DEF Recorded
<1>2. /\ id \in PackageIDs /\ packages[id] # NoPackage
      /\ packages[id].metadata = row.metadata
  BY DataAssumption DEF Kept
<1>3. CASE packages[other].tenant # packages[id].tenant
  BY <1>1, <1>2, <1>3 DEF SharedLocation
<1>4. CASE packages[other].tenant = packages[id].tenant
  <2>1. packages[other].key = packages[id].key
    BY <1>1, <1>2 DEF APIInv, KeysOK
  <2>2. id = other
    BY <1>1, <1>2, <1>4, <2>1 DEF APIInv, KeysOK, Holds
  <2> QED
    BY <1>1, <1>2, <2>2
<1> QED
  BY <1>3, <1>4

(* A client uses an upload it was granted, however late. *)
LEMMA UploadKeeps ==
    ASSUME APIInv, NEW grant \in uploads, Upload(grant)
    PROVE  APIInv'
<1>1. /\ TypeOK /\ Grown /\ KeysOK' /\ Recorded(grant.key, grant.digest)
      /\ OnlyRecordedContent
      /\ UNCHANGED <<packages, uploads, pc, principal, request, record, answer>>
  BY SameTables DEF APIInv, Upload, ledger
<1>2. /\ grant \in Uploads /\ grant.key \in KeyTexts /\ grant.digest \in Digests
      /\ objects' = [objects EXCEPT ![grant.key] = grant.digest]
  BY <1>1 DEF TypeOK, Upload, Uploads
<1>3. TypeOK'
  BY <1>1, <1>2 DEF TypeOK
<1>4. OnlyRecordedContent'
  BY <1>1, <1>2, ContentStays DEF TypeOK
<1>5. (\A g \in uploads : Recorded(g.key, g.digest))'
  BY <1>1 DEF APIInv, Recorded
<1>6. ASSUME NEW d \in Calls
      PROVE  HandlerOK(d)' /\ AnswerOK(d)'
  <2>1. Quiet(d)
    BY <1>1 DEF Quiet
  <2>2. ASSUME AnsweredWith(d, "confirmed")
        PROVE  LET metadata == answer[d].row.metadata
               IN  \/ objects'[metadata.location] = objects[metadata.location]
                   \/ objects'[metadata.location] = metadata.digest
                   \/ SharedLocation(metadata.location)'
    <3> DEFINE m == answer[d].row.metadata
    <3>1. Kept(answer[d].package, answer[d].row)
      BY <2>2 DEF APIInv, AnswerOK, AnsweredWith
    <3>2. m.location \in KeyTexts
      BY <3>1, APIAssumption DEF Kept, Rows
    <3>3. CASE m.location # grant.key
      BY <1>1, <1>2, <3>2, <3>3 DEF TypeOK
    <3>4. CASE m.location = grant.key
      <4>1. grant.digest = m.digest \/ SharedLocation(m.location)
        BY <1>1, <3>1, <3>4, SameKeySameContent
      <4>2. objects'[m.location] = grant.digest
        BY <1>1, <1>2, <3>4 DEF TypeOK
      <4> QED
        BY <1>1, <4>1, <4>2, SharedStays
    <3> QED
      BY <3>3, <3>4
  <2> QED
    BY <1>1, <2>1, <2>2, HandlerStays, AnswerStays
<1>7. (\A id \in PackageIDs : Authorised(id))'
  BY <1>1 DEF APIInv, Authorised, AuthorOf, Cleared
<1> QED
  BY <1>1, <1>3, <1>4, <1>5, <1>6, <1>7 DEF APIInv

(* An upload that expires unused, and a system at rest, change nothing. *)
LEMMA RestKeeps ==
    ASSUME APIInv, UNCHANGED <<packages, objects, pc, principal, request, record, answer>>,
           uploads' \subseteq uploads
    PROVE  APIInv'
<1>1. TypeOK' /\ OnlyRecordedContent' /\ KeysOK' /\ Grown
  BY SameTables DEF APIInv, TypeOK, OnlyRecordedContent
<1>2. (\A g \in uploads : Recorded(g.key, g.digest))'
  BY DEF APIInv, Recorded
<1>3. \A d \in Calls : HandlerOK(d)' /\ AnswerOK(d)'
  <2> TAKE d \in Calls
  <2>1. Quiet(d)
    BY DEF Quiet
  <2> QED
    BY <1>1, <2>1, HandlerStays, AnswerStays
<1>4. (\A id \in PackageIDs : Authorised(id))'
  BY DEF APIInv, Authorised, AuthorOf, Cleared
<1> QED
  BY <1>1, <1>2, <1>3, <1>4 DEF APIInv

-----------------------------------------------------------------------------
(* The authors of decisions. *)

(* A decision is made by a handler that then knows itself its author. *)
LEMMA DeciderIsAuthor ==
    ASSUME APIInv, NEW c \in Calls, RecordValidation(c) \/ DecisionUnacknowledged(c),
           Ledger!Decide(request[c].package, request[c].status)
    PROVE  /\ request[c].package \in PackageIDs
           /\ AuthorOf(c, request[c].package)'
           /\ \A id \in PackageIDs \ {request[c].package} : packages'[id] = packages[id]
<1> DEFINE target == request[c].package
<1>1. /\ TypeOK /\ HandlerOK(c) /\ pc[c] = "decide" /\ request[c] \in PackageBodies
      /\ request[c].op = "validate" /\ principal[c] \in Callers
      /\ RequireRoles(principal[c], request[c].op)
      /\ record[c].package = target /\ Kept(target, record[c].row)
      /\ Cleared(principal[c], record[c].row)
  BY DEF APIInv, RecordValidation, DecisionUnacknowledged, HandlerOK
<1>2. target \in PackageIDs /\ request[c].status \in Terminal
  BY <1>1 DEF PackageBodies
<1>3. /\ packages' = [packages EXCEPT ![target] = [packages[target] EXCEPT !.status = request[c].status]]
      /\ DecidedAs(target, request[c].status)' /\ Grown
  <2>1. Ledger!Decide(target, request[c].status)
    OBVIOUS
  <2>2. packages' = [packages EXCEPT ![target] = [packages[target] EXCEPT !.status = request[c].status]]
    BY <1>1, <1>2, <2>1, DecideGrows
  <2>3. request' = request
    BY DEF RecordValidation, DecisionUnacknowledged, Error, Answer
  <2> QED
    BY <1>2, <2>1, <2>2, <2>3, DecideKeepsKeys
<1>4. principal' = principal /\ request' = request
  BY DEF RecordValidation, DecisionUnacknowledged, Error, Answer
<1>5. pc'[c] = "reload" \/ (pc'[c] = "answered" /\ answer'[c].code = "failed")
  <2>1. CASE RecordValidation(c)
    <3>1. packages[target].status \notin Terminal
      BY DEF Ledger!Decide, Terminal
    <3>2. Goto(c, "reload")
      BY <2>1, <3>1 DEF RecordValidation
    <3> QED
      BY <1>1, <3>2 DEF Goto, TypeOK
  <2>2. CASE DecisionUnacknowledged(c)
    <3>1. Answer(c, "failed", NoPackage, NoPackage)
      BY <2>2 DEF DecisionUnacknowledged, Error
    <3>2. /\ pc'[c] = "answered"
          /\ answer'[c] = [code |-> "failed", package |-> NoPackage, row |-> NoPackage]
      BY <1>1, <3>1, Answered
    <3> QED
      BY <3>2
  <2> QED
    BY <2>1, <2>2
<1>6. Cleared(principal[c], packages'[target])
  <2>1. packages[target] # NoPackage
    BY DEF Ledger!Decide
  <2> QED
    BY <1>1, <1>2, <1>3, <2>1 DEF Kept, Cleared, Grown, Grows
<1>7. packages'[target].status = request[c].status
  BY <1>3, <1>4 DEF DecidedAs
<1>8. AuthorOf(c, target)'
  BY <1>1, <1>4, <1>5, <1>6, <1>7 DEF AuthorOf, Cleared
<1> QED
  BY <1>1, <1>2, <1>3, <1>8 DEF TypeOK

(* Decisions of before keep their authors: an author answers, and is done. *)
LEMMA AuthorStays ==
    ASSUME APIInv, NEW c \in Calls, Arrive(c) \/ Handle(c), NEW id \in PackageIDs,
           packages[id] # NoPackage, packages[id].status \in Terminal
    PROVE  Authorised(id)'
<1>1. PICK d \in Calls : AuthorOf(d, id)
  BY DEF APIInv, Authorised
<1>2. packages'[id] = packages[id]
  BY TableStep DEF Grown, Grows
<1>3. pc[c] # "answered" /\ \A e \in Calls \ {c} : Quiet(e)
  BY OneRequestMoves DEF APIInv
<1>4. CASE d # c
  BY <1>1, <1>2, <1>3, <1>4 DEF Quiet, AuthorOf, Authorised, Cleared
<1>5. CASE d = c
  <2>1. pc[c] = "reload"
    BY <1>1, <1>3, <1>5 DEF AuthorOf
  <2>2. ReloadPackage(c) \/ Fail(c)
    BY <2>1 DEF Arrive, Handle, Unauthenticated, Refuse, Admit, RejectBody, CreatePackage,
                CreateUnacknowledged, PresignedUpload, LoadPackage, PresignedDownload,
                RecordValidation, DecisionUnacknowledged, ConfirmUpload
  <2>3. PICK code, other, row : code \in {"recorded", "failed"} /\ Answer(c, code, other, row)
    BY <2>1, <2>2 DEF ReloadPackage, Fail, Error, ErrorAt
  <2>4. /\ pc'[c] = "answered" /\ principal' = principal /\ request' = request
        /\ answer'[c] = [code |-> code, package |-> other, row |-> row]
    BY <2>3, Answered DEF APIInv
  <2>5. answer'[c].code \in {"recorded", "failed"}
    BY <2>3, <2>4
  <2> QED
    BY <1>1, <1>2, <1>5, <2>4, <2>5 DEF AuthorOf, Authorised, Cleared
<1> QED
  BY <1>4, <1>5

(* Every decision has an author after every step of a handler. *)
LEMMA AuthorsStay ==
    ASSUME APIInv, NEW c \in Calls, Arrive(c) \/ Handle(c)
    PROVE  (\A id \in PackageIDs : Authorised(id))'
<1>1. ASSUME NEW id \in PackageIDs, packages'[id] = packages[id]
      PROVE  Authorised(id)'
  BY <1>1, AuthorStays DEF Authorised
<1>2. ASSUME NEW id \in PackageIDs, packages'[id].status \notin Terminal
      PROVE  Authorised(id)'
  BY <1>2 DEF Authorised
<1>3. CASE \E id \in PackageIDs : pc[c] = "create" /\ Ledger!Receive(id, Sent(c))
  <2> PICK id \in PackageIDs : Ledger!Receive(id, Sent(c))
    BY <1>3
  <2>1. /\ packages' = [packages EXCEPT ![id] = StoredRow(Sent(c))]
        /\ StoredRow(Sent(c)).status = "received"
    BY <1>3, Creation, ReceiveGrows DEF APIInv
  <2> QED
    BY <1>1, <1>2, <2>1 DEF APIInv, TypeOK, Terminal
<1>4. CASE /\ RecordValidation(c) \/ DecisionUnacknowledged(c)
           /\ Ledger!Decide(request[c].package, request[c].status)
  <2>1. /\ AuthorOf(c, request[c].package)' /\ request' = request
        /\ \A id \in PackageIDs \ {request[c].package} : packages'[id] = packages[id]
    BY <1>4, DeciderIsAuthor DEF RecordValidation, DecisionUnacknowledged, Error, Answer
  <2> QED
    BY <1>1, <2>1 DEF Authorised
<1>5. CASE UNCHANGED packages
  BY <1>1, <1>5
<1>6. CASE RecordValidation(c) \/ DecisionUnacknowledged(c)
  BY <1>4, <1>5, <1>6 DEF RecordValidation, DecisionUnacknowledged, ledger
<1>7. CASE CreatePackage(c) \/ CreateUnacknowledged(c)
  BY <1>3, <1>5, <1>7 DEF CreatePackage, CreateUnacknowledged, Sent, ledger
<1>8. CASE Arrive(c) \/ RejectBody(c) \/ PresignedUpload(c) \/ LoadPackage(c) \/ PresignedDownload(c)
  <2>1. UNCHANGED packages
    BY <1>8 DEF Arrive, Unauthenticated, Refuse, Admit, RejectBody, PresignedUpload, LoadPackage,
                PresignedDownload, ledger
  <2> QED
    BY <1>5, <2>1
<1>9. CASE ReloadPackage(c) \/ ConfirmUpload(c) \/ Fail(c)
  BY <1>5, <1>9 DEF ReloadPackage, ConfirmUpload, Fail, ledger
<1> QED
  BY <1>6, <1>7, <1>8, <1>9 DEF Handle

-----------------------------------------------------------------------------
(* The invariant is inductive. *)

(* Before the first request there is nothing to tell. *)
LEMMA InitTold == Init => APIInv
<1> SUFFICES ASSUME Init
             PROVE  APIInv
  OBVIOUS
<1> USE DEF Init, Ledger!Init, NoAnswer
<1>1. TypeOK
  BY DEF TypeOK, NoRecord, Codes
<1>2. \A id \in PackageIDs : packages[id] = NoPackage
  OBVIOUS
<1>3. KeysOK /\ \A id \in PackageIDs : Authorised(id)
  BY <1>2 DEF KeysOK, Authorised
<1>4. \A c \in Calls : HandlerOK(c) /\ AnswerOK(c)
  BY DEF HandlerOK, AnswerOK, AnsweredWith
<1>5. OnlyRecordedContent /\ \A grant \in uploads : Recorded(grant.key, grant.digest)
  BY DEF OnlyRecordedContent
<1> QED
  BY <1>1, <1>3, <1>4, <1>5 DEF APIInv

(* Every step of a handler keeps it. *)
LEMMA HandlerKeeps ==
    ASSUME APIInv, NEW c \in Calls, Arrive(c) \/ Handle(c)
    PROVE  APIInv'
<1>1. Grown /\ KeysOK' /\ TypeOK'
  BY TableStep, HandlerType
<1>2. objects' = objects /\ \A d \in Calls \ {c} : Quiet(d)
  BY OneRequestMoves DEF APIInv
<1>3. OnlyRecordedContent'
  BY <1>1, <1>2, ContentStays DEF APIInv
<1>4. \A d \in Calls : HandlerOK(d)' /\ AnswerOK(d)'
  BY <1>1, <1>2, MovingTold, HandlerStays, AnswerStays
<1> QED
  BY <1>1, <1>3, <1>4, GrantsStay, AuthorsStay DEF APIInv

(* Every step of the system does. *)
LEMMA StepTold == APIInv /\ [Next]_vars => APIInv'
<1> SUFFICES ASSUME APIInv, [Next]_vars
             PROVE  APIInv'
  OBVIOUS
<1>1. CASE \E c \in Calls : Arrive(c) \/ Handle(c)
  BY <1>1, HandlerKeeps
<1>2. CASE \E grant \in uploads : Upload(grant)
  BY <1>2, UploadKeeps
<1>3. CASE (\E grant \in uploads : Expire(grant)) \/ UNCHANGED vars
  BY <1>3, RestKeeps DEF Expire, ledger, vars
<1> QED
  BY <1>1, <1>2, <1>3 DEF Next, Idle

(* So it holds throughout. *)
LEMMA AlwaysTold == Spec => []APIInv
  BY InitTold, StepTold, PTL DEF Spec

-----------------------------------------------------------------------------
(* The state of every handler, answer, upload and object has its type.      *)
THEOREM TypeCorrect == Spec => []TypeOK
<1>1. APIInv => TypeOK
  BY DEF APIInv
<1> QED
  BY <1>1, AlwaysTold, PTL

(* However late an upload is, and whatever happened to the request that     *)
(* asked for it, the bytes under a key are those of a committed package:    *)
(* createPackage presigns only after Store.Create returned a record.        *)
THEOREM BucketIsRecorded == Spec => []OnlyRecordedContent
<1>1. APIInv => OnlyRecordedContent
  BY DEF APIInv
<1> QED
  BY <1>1, AlwaysTold, PTL

(* Bytes found by confirmUpload stay, for every number of repeated uploads, *)
(* unless two tenants chose the same key, and with it the same object.      *)
THEOREM ConfirmationsLast == Spec => []ConfirmedIsRetained
<1>1. APIInv => ConfirmedIsRetained
  BY DEF APIInv, AnswerOK, ConfirmedIsRetained
<1> QED
  BY <1>1, AlwaysTold, PTL

(* loadPackage checks tenant and clearance once, on a row read earlier; that *)
(* is enough for all that is shown later, because neither ever changes.  And *)
(* createPackage, which checks no clearance, shows what it does not cover    *)
(* only to a caller who has named that digest and that classification.       *)
THEOREM ReadersAreCleared == Spec => []ReadsAreCleared
<1>1. APIInv => ReadsAreCleared
  BY DEF APIInv, AnswerOK, ReadsAreCleared, Kept, Cleared, Names
<1> QED
  BY <1>1, AlwaysTold, PTL

(* No interleaving, failure or lost acknowledgement leaves a decision in the *)
(* store that no authorised validator of the package's tenant asked for.     *)
THEOREM DecidersAreAuthorised == Spec => []DecisionsAreAuthorised
<1>1. ASSUME APIInv PROVE DecisionsAreAuthorised
  <2>1. ASSUME NEW id \in PackageIDs, NEW c \in Calls, AuthorOf(c, id)
        PROVE  /\ answer[c].code \in {"none", "recorded", "failed"}
               /\ principal[c].roles \cap {"evidence-validator", "evidence-admin"} # {}
               /\ principal[c] \in Known
    <3>1. HandlerOK(c)
      BY <1>1 DEF APIInv
    <3> QED
      BY <2>1, <3>1, CallerIsKnown DEF AuthorOf, HandlerOK, RequireRoles, AdmittedRoles
  <2> QED
    BY <1>1, <2>1 DEF APIInv, Authorised, AuthorOf, Cleared, DecisionsAreAuthorised
<1> QED
  BY <1>1, AlwaysTold, PTL

(* The row that recordValidation reads again after its decision carries that *)
(* decision and is the last one the package will ever have.                  *)
THEOREM DecisionsAreShown == Spec => []RecordedIsShown
<1>1. APIInv => RecordedIsShown
  BY DEF APIInv, AnswerOK, RecordedIsShown, DecidedAs, AnsweredWith
<1> QED
  BY <1>1, AlwaysTold, PTL

(* A creation that the columns give back as it was sent may be repeated      *)
(* after any answer that says the package exists, a 503 included, and        *)
(* whatever other spellings of its key or its time were sent meanwhile: it   *)
(* is never told that its content differs.                                   *)
THEOREM RepeatsFindPackages == Spec => []RepeatFindsPackage
<1>1. ASSUME APIInv, NEW c \in Calls, NEW d \in Calls,
             answer[c].code \in {"created", "retained", "unavailable"},
             request[c].op = "create", request[d] = request[c],
             Canonical(CreateRequest(principal[c], request[c])),
             principal[d].tenant = principal[c].tenant,
             AnsweredWith(d, "conflict")
      PROVE  FALSE
  <2>1. request[c] \in CreateBodies /\ Sent(d) = Sent(c)
    <3>1. request[c] \in CreateBodies \cup PackageBodies \cup {NoRequest}
      BY <1>1 DEF APIInv, TypeOK
    <3>2. request[c] \in CreateBodies
      BY <1>1, <3>1 DEF PackageBodies, NoRequest
    <3> QED
      BY <1>1, <3>2 DEF Sent, CreateRequest
  <2>3. Canonical(Sent(c))
    BY <1>1 DEF Sent
  <2>4. PICK i \in PackageIDs :
           /\ Holds(packages, i, Sent(c).tenant, StoredKey[Sent(c).key])
           /\ Matches(Sent(c), packages[i])
    BY <1>1, <2>3 DEF APIInv, AnswerOK, Found
  <2>5. PICK j \in PackageIDs :
           /\ Holds(packages, j, Sent(c).tenant, StoredKey[Sent(c).key])
           /\ ~Matches(Sent(c), packages[j])
    BY <1>1, <2>1 DEF APIInv, AnswerOK
  <2>6. i = j
    BY <1>1, <2>4, <2>5 DEF APIInv, KeysOK, Holds
  <2> QED
    BY <2>4, <2>5, <2>6
<1>2. APIInv => RepeatFindsPackage
  BY <1>1 DEF RepeatFindsPackage
<1> QED
  BY <1>2, AlwaysTold, PTL

-----------------------------------------------------------------------------
(* The handlers as one service. *)

(* The service reads the data as the handlers do, *)
LEMMA SameServiceData ==
    /\ Service!NoRequest = NoRequest /\ Service!NoAnswer = NoAnswer
    /\ Service!Callers = Callers
    /\ Service!Bodies = Bodies
    /\ Service!Terminal = Terminal
    /\ \A c \in Calls : Service!Sent(c) = Sent(c)
    /\ \A r, row : Service!Matches(r, row) = Matches(r, row)
    /\ \A row : Service!UploadFor(row) = UploadFor(row)
    /\ \A p, q : Service!ClearanceCovers(p, q) = ClearanceCovers(p, q)
  BY DEF Service!NoRequest, NoRequest, Service!NoAnswer, NoAnswer, Service!Callers, Callers,
         Service!PrincipalOf, PrincipalOf, Service!Authenticates, Authenticates,
         Service!Signed, Signed, Service!audienceContains, audienceContains,
         Service!Current, Current, Service!validatedSubject, validatedSubject,
         Service!validatedClearance, validatedClearance, Service!ClearanceOf, ClearanceOf,
         Service!Bodies, Bodies, Service!PackageBodies, PackageBodies,
         Service!Terminal, Terminal, Service!Sent, Sent, Service!CreateRequest, CreateRequest,
         Service!objectLocation, objectLocation, Service!Matches, Matches,
         Service!UploadFor, UploadFor, Service!ClearanceCovers, ClearanceCovers,
         Service!ladderRank, ladderRank, Service!Rung, Rung, Service!Labels, Labels,
         Service!Ladder, Ladder

(* and its ledger is theirs. *)
LEMMA SameLedger ==
    /\ Service!Ledger!Init = Ledger!Init
    /\ \A id, r : Service!Ledger!Receive(id, r) = Ledger!Receive(id, r)
    /\ \A id, status : Service!Ledger!Decide(id, status) = Ledger!Decide(id, status)
    /\ \A rows, id, tenant, key :
          Service!Holds(rows, id, tenant, key) = Holds(rows, id, tenant, key)
<1>1. \A id, row : Service!Ledger!Enter(id, row) = Ledger!Enter(id, row)
  BY DEF Service!Ledger!Enter, Ledger!Enter, Service!Ledger!Custody, Ledger!Custody,
         Service!Ledger!Announced, Ledger!Announced, Service!Ledger!Received, Ledger!Received,
         Service!Ledger!Decision, Ledger!Decision, Service!Ledger!PackageEvent,
         Ledger!PackageEvent, Service!Ledger!ValidationEvent, Ledger!ValidationEvent,
         Service!Ledger!TopicPackage, Ledger!TopicPackage,
         Service!Ledger!TopicValidation, Ledger!TopicValidation
<1>2. \A id, r : Service!Ledger!Receive(id, r) = Ledger!Receive(id, r)
  BY <1>1 DEF Service!Ledger!Receive, Ledger!Receive, Service!Ledger!StoredRow, Ledger!StoredRow,
              Service!Ledger!Holds, Ledger!Holds
<1>3. \A id, status : Service!Ledger!Decide(id, status) = Ledger!Decide(id, status)
  BY <1>1, Zenon DEF Service!Ledger!Decide, Ledger!Decide
<1> QED
  BY <1>2, <1>3 DEF Service!Ledger!Init, Ledger!Init, Service!Holds, Holds

(* What the handlers hold the service calls their effect. *)
EffectOf == [c \in Calls |-> Effect(c)]

(* A request nobody moves has the effect it had; one that is answered has    *)
(* none; one with a place has that of its place.                            *)
LEMMA EffectSteps ==
    ASSUME TypeOK, NEW c \in Calls, \A d \in Calls \ {c} : Quiet(d), NEW id, Effect(c)' = id
    PROVE  EffectOf' = [EffectOf EXCEPT ![c] = id]
<1>1. \A d \in Calls \ {c} : Effect(d)' = Effect(d)
  BY DEF Effect, Quiet
<1> QED
  BY <1>1 DEF EffectOf

(* An answer of a handler is one of the service. *)
LEMMA AnswerIsTold ==
    ASSUME APIInv, NEW c \in Calls, Arrive(c) \/ Handle(c), NEW code, NEW id, NEW row,
           Answer(c, code, id, row)
    PROVE  Service!Tell(c, code, id, row)
<1>1. /\ TypeOK /\ HandlerOK(c) /\ pc[c] # "answered" /\ objects' = objects
      /\ \A d \in Calls \ {c} : Quiet(d)
  BY OneRequestMoves DEF APIInv
<1>2. pc'[c] = "answered"
  BY <1>1, Answered
<1>3. EffectOf' = [EffectOf EXCEPT ![c] = NoPackage]
  BY <1>1, <1>2, EffectSteps DEF Effect
<1>4. answer[c].code = "none"
  BY <1>1 DEF HandlerOK
<1> QED
  BY <1>1, <1>3, <1>4 DEF Service!Tell, Answer, EffectOf

(* Turning a request down for a reason is a step of the service. *)
LEMMA ErrorIsTold ==
    ASSUME APIInv, NEW c \in Calls, Arrive(c) \/ Handle(c), NEW code \in Service!Codes,
           Error(c, code), Service!Reason(c, code), UNCHANGED <<ledger, uploads>>
    PROVE  Service!Next
<1>1. Service!Tell(c, code, NoPackage, NoPackage)
  BY AnswerIsTold DEF Error
<1>2. Service!TurnDown(c, code)
  BY <1>1 DEF Service!TurnDown, Service!ledger, ledger
<1> QED
  BY <1>2 DEF Service!Next

(* What is in hand is a version of the package. *)
LEMMA KeptIsVersion ==
    ASSUME NEW id, NEW row, Kept(id, row)
    PROVE  id \in Service!Present /\ row \in Service!Versions(id)
<1>1. CASE row.status \in Terminal
  BY <1>1, DataAssumption DEF Kept, Service!Present, Service!Versions
<1>2. CASE row.status \notin Terminal
  <2>1. /\ row \in Rows /\ packages[id] \in Rows /\ row.status = "received"
        /\ row.tenant = packages[id].tenant /\ row.key = packages[id].key
        /\ row.metadata = packages[id].metadata
    BY <1>2 DEF Kept, Rows, Statuses
  <2>2. row = [packages[id] EXCEPT !.status = "received"]
    BY <2>1 DEF Rows
  <2> QED
    BY <2>1, <2>2, DataAssumption DEF Kept, Service!Present, Service!Versions
<1> QED
  BY <1>1, <1>2

(* Who was cleared for what is in hand is entitled to the package. *)
LEMMA ClearedIsEntitled ==
    ASSUME NEW c \in Calls, NEW row, Kept(request[c].package, row), Cleared(principal[c], row)
    PROVE  Service!Entitled(c)
<1>1. /\ packages[request[c].package] # NoPackage
      /\ packages[request[c].package].tenant = principal[c].tenant
      /\ packages[request[c].package].metadata = row.metadata
  BY DataAssumption DEF Kept, Cleared
<1>2. ladderRank(row.metadata.classification) >= 0
  BY APIAssumption, LadderRanks DEF Kept, Rows
<1> QED
  BY <1>1, <1>2, SameServiceData DEF Cleared, ClearanceCovers, Service!Entitled,
     Service!Visible, Service!Covered

(* Who is turned away has asked for nothing; who is let in has asked. *)
LEMMA ArriveServed ==
    ASSUME APIInv, NEW c \in Calls, Arrive(c)
    PROVE  Service!Next
<1>1. /\ TypeOK /\ HandlerOK(c) /\ pc[c] = "start" /\ request[c].op = "none"
      /\ request[c] = NoRequest /\ answer[c].code = "none"
  BY DEF APIInv, Arrive, Unauthenticated, Refuse, Admit, HandlerOK, NoRequest
<1>2. ASSUME NEW code \in {"unauthenticated", "forbidden"}, Error(c, code),
             UNCHANGED <<ledger, objects, uploads>>
      PROVE  Service!Next
  BY <1>1, <1>2, ErrorIsTold DEF Service!Codes, Service!Reason
<1>3. CASE \E p \in Callers, body \in Bodies : Admit(c, p, body)
  <2> PICK p \in Callers, body \in Bodies : Admit(c, p, body)
    BY <1>3
  <2>1. \A d \in Calls \ {c} : Quiet(d)
    BY <1>1, OneRequestMoves
  <2>2. EffectOf' = EffectOf
    <3>1. Effect(c)' = NoPackage /\ Effect(c) = NoPackage
      BY <1>1 DEF Admit, Goto, TypeOK, Effect
    <3> QED
      BY <1>1, <2>1, <3>1, EffectSteps DEF EffectOf
  <2>3. Service!Ask(c, p, body)
    BY <1>1, <2>2, SameServiceData DEF Admit, Service!Ask, EffectOf, Service!ledger, ledger
  <2> QED
    BY <2>3, SameServiceData DEF Service!Next
<1> QED
  BY <1>2, <1>3 DEF Arrive, Unauthenticated, Refuse

(* createPackage: its one effect, told at once only as a failure. *)
LEMMA CreateServed ==
    ASSUME APIInv, NEW c \in Calls, CreatePackage(c) \/ CreateUnacknowledged(c)
    PROVE  [Service!Next]_(Service!serviceVars)
<1>1. /\ TypeOK /\ HandlerOK(c) /\ pc[c] = "create" /\ Effect(c) = NoPackage
      /\ request[c].op = "create" /\ answer[c].code = "none"
      /\ objects' = objects /\ uploads' = uploads
      /\ \A d \in Calls \ {c} : Quiet(d)
  BY OneRequestMoves DEF APIInv, CreatePackage, CreateUnacknowledged, HandlerOK, CreateBodies,
     Effect, Handle
<1>2. ASSUME NEW id \in PackageIDs, Ledger!Receive(id, Sent(c)),
             Hold(c, id, StoredRow(Sent(c))), Goto(c, "presign_new"),
             UNCHANGED <<principal, request, answer>>
      PROVE  Service!Next
  <2>1. Effect(c)' = id
    BY <1>1, <1>2, Holding DEF Effect
  <2>2. EffectOf' = [EffectOf EXCEPT ![c] = id]
    BY <1>1, <2>1, EffectSteps
  <2>3. Service!Affect(c, id)
    BY <1>1, <1>2, <2>2 DEF Service!Affect, EffectOf
  <2>4. Service!Receive(c, id)
    BY <1>1, <1>2, <2>3, SameLedger, SameServiceData DEF Service!Receive
  <2> QED
    BY <2>4 DEF Service!Next
<1>3. ASSUME NEW id \in PackageIDs, Ledger!Receive(id, Sent(c)), CreateUnacknowledged(c)
      PROVE  Service!Next
  <2>1. Service!Tell(c, "failed", NoPackage, NoPackage)
    BY <1>3, AnswerIsTold DEF CreateUnacknowledged, Error, Handle
  <2>2. Service!Affect(c, id)
    BY <1>1, <2>1 DEF Service!Affect
  <2>3. Service!Receive(c, id)
    BY <1>1, <1>3, <2>2, SameLedger, SameServiceData DEF Service!Receive
  <2> QED
    BY <2>3 DEF Service!Next
<1>4. ASSUME NEW id \in PackageIDs, UNCHANGED ledger,
             Holds(packages, id, Sent(c).tenant, StoredKey[Sent(c).key]),
             Hold(c, id, packages[id]), Goto(c, "presign"),
             UNCHANGED <<principal, request, answer>>
      PROVE  UNCHANGED Service!serviceVars
  <2>1. Effect(c)' = NoPackage
    BY <1>1, <1>4, Holding DEF Effect
  <2>2. EffectOf' = EffectOf
    BY <1>1, <2>1, EffectSteps DEF EffectOf
  <2> QED
    BY <1>1, <1>4, <2>2 DEF Service!serviceVars, EffectOf, ledger
<1>5. ASSUME NEW id \in PackageIDs, UNCHANGED ledger,
             Holds(packages, id, Sent(c).tenant, StoredKey[Sent(c).key]),
             ~Matches(Sent(c), packages[id]), Error(c, "conflict"), CreatePackage(c)
      PROVE  Service!Next
  <2>1. Service!Reason(c, "conflict")
    BY <1>1, <1>5, SameLedger, SameServiceData DEF Service!Reason, Service!Kin
  <2> QED
    BY <1>1, <1>5, <2>1, ErrorIsTold DEF Service!Codes, Handle
<1> QED
  BY <1>2, <1>3, <1>4, <1>5 DEF CreatePackage, CreateUnacknowledged, OnConflict, Sent

(* A body is rejected before it has any effect. *)
LEMMA RejectServed ==
    ASSUME APIInv, NEW c \in Calls, RejectBody(c)
    PROVE  Service!Next
<1>1. /\ HandlerOK(c) /\ pc[c] \in {"create", "decide"} /\ Error(c, "invalid")
      /\ UNCHANGED <<ledger, uploads>> /\ Effect(c) = NoPackage
  BY DEF APIInv, RejectBody, Effect
<1>2. \/ request[c].op = "create"
      \/ request[c].op = "validate" /\ Service!Entitled(c)
  <2>1. CASE pc[c] = "create"
    BY <1>1, <2>1 DEF HandlerOK, CreateBodies
  <2>2. CASE pc[c] = "decide"
    <3>1. /\ request[c].op = "validate" /\ record[c].package = request[c].package
          /\ Kept(record[c].package, record[c].row) /\ Cleared(principal[c], record[c].row)
      BY <1>1, <2>2 DEF HandlerOK
    <3> QED
      BY <3>1, ClearedIsEntitled
  <2> QED
    BY <1>1, <2>1, <2>2
<1>3. Service!Reason(c, "invalid")
  BY <1>1, <1>2 DEF Service!Reason
<1> QED
  BY <1>1, <1>3, ErrorIsTold DEF Service!Codes, Handle

(* createPackage ends with an upload of the package in hand as it once was. *)
LEMMA UploadServed ==
    ASSUME APIInv, NEW c \in Calls, PresignedUpload(c)
    PROVE  Service!Next
<1> DEFINE id == record[c].package
           row == record[c].row
<1>1. /\ HandlerOK(c) /\ pc[c] \in {"presign", "presign_new"} /\ request[c].op = "create"
      /\ uploads' = uploads \cup {UploadFor(row)} /\ UNCHANGED ledger
      /\ Answer(c, IF pc[c] = "presign_new" THEN "created" ELSE "retained", id, row)
  BY DEF APIInv, PresignedUpload
<1>2. Kept(id, row) /\ InHand(c)
  BY <1>1 DEF HandlerOK
<1>3. Service!Kin(c, id)
  BY <1>2, SameLedger, SameServiceData DEF InHand, Service!Kin
<1>4. ASSUME pc[c] = "presign_new"
      PROVE  Service!Authorise(c, id, row)
  <2>1. Answer(c, "created", id, row) /\ Effect(c) = id
    BY <1>1, <1>4 DEF Effect
  <2>2. Service!Tell(c, "created", id, row)
    BY <2>1, AnswerIsTold DEF Handle
  <2> QED
    BY <1>1, <1>3, <2>1, <2>2, SameServiceData DEF Service!Authorise, Service!ledger, ledger
<1>5. ASSUME pc[c] = "presign"
      PROVE  Service!Authorise(c, id, row)
  <2>1. Answer(c, "retained", id, row) /\ Effect(c) = NoPackage
    BY <1>1, <1>5 DEF Effect
  <2>2. Service!Tell(c, "retained", id, row)
    BY <2>1, AnswerIsTold DEF Handle
  <2>3. Matches(Sent(c), packages[id])
    BY <1>2, <1>5 DEF InHand
  <2> QED
    BY <1>1, <1>3, <2>1, <2>2, <2>3, SameServiceData DEF Service!Authorise, Service!ledger, ledger
<1>6. Service!Authorise(c, id, row)
  BY <1>1, <1>4, <1>5
<1>7. id \in Service!Present /\ row \in Service!Versions(id)
  BY <1>2, KeptIsVersion
<1> QED
  BY <1>6, <1>7 DEF Service!Next, Service!Present

(* loadPackage turns down who does not see the package, and who may not see it. *)
LEMMA LoadServed ==
    ASSUME APIInv, NEW c \in Calls, LoadPackage(c)
    PROVE  [Service!Next]_(Service!serviceVars)
<1> DEFINE id == request[c].package
           row == packages[id]
<1>1. /\ TypeOK /\ HandlerOK(c) /\ pc[c] = "load" /\ UNCHANGED <<ledger, objects, uploads>>
      /\ request[c].op \in {"read", "confirm", "validate"} /\ Effect(c) = NoPackage
      /\ \A d \in Calls \ {c} : Quiet(d)
  BY OneRequestMoves DEF APIInv, LoadPackage, HandlerOK, PackageBodies, Effect, Handle
<1>2. CASE /\ row = NoPackage \/ ~SameTenant(principal[c], row)
           /\ Error(c, "not_found")
  <2>1. Service!Reason(c, "not_found")
    BY <1>1, <1>2 DEF Service!Reason, Service!Visible, SameTenant
  <2> QED
    BY <1>1, <1>2, <2>1, ErrorIsTold DEF Service!Codes, Handle
<1>3. CASE /\ row # NoPackage /\ SameTenant(principal[c], row)
           /\ ~ClearanceCovers(principal[c].clearance, row.metadata.classification)
           /\ Error(c, "forbidden")
  <2>1. Service!Reason(c, "forbidden")
    BY <1>1, <1>3, SameServiceData DEF Service!Reason, Service!Visible, Service!Covered, SameTenant
  <2> QED
    BY <1>1, <1>3, <2>1, ErrorIsTold DEF Service!Codes, Handle
<1>4. CASE /\ Hold(c, id, row) /\ Goto(c, AfterLoad(request[c].op))
           /\ UNCHANGED <<principal, request, answer>>
  <2>1. AfterLoad(request[c].op) \in {"presign", "head", "decide"}
    BY <1>1 DEF AfterLoad
  <2>2. Effect(c)' = NoPackage
    BY <1>1, <1>4, <2>1, Holding DEF Effect
  <2>3. EffectOf' = EffectOf
    BY <1>1, <2>2, EffectSteps DEF EffectOf
  <2> QED
    BY <1>1, <1>4, <2>3 DEF Service!serviceVars, EffectOf, ledger
<1> QED
  BY <1>2, <1>3, <1>4 DEF LoadPackage

(* getPackage and confirmUpload show what they loaded to those entitled still. *)
LEMMA ShowServed ==
    ASSUME APIInv, NEW c \in Calls, PresignedDownload(c) \/ ConfirmUpload(c)
    PROVE  Service!Next
<1> DEFINE id == record[c].package
           row == record[c].row
<1>1. /\ HandlerOK(c) /\ UNCHANGED <<ledger, uploads>>
      /\ \/ pc[c] = "presign" /\ request[c].op = "read"
         \/ pc[c] = "head" /\ request[c].op = "confirm"
  BY DEF APIInv, PresignedDownload, ConfirmUpload, HandlerOK
<1>2. id = request[c].package /\ Kept(id, row) /\ Cleared(principal[c], row)
  BY <1>1 DEF HandlerOK
<1>3. Service!Entitled(c)
  BY <1>2, ClearedIsEntitled
<1>4. id \in Service!Present /\ row \in Service!Versions(id)
  BY <1>2, KeptIsVersion
<1>5. CASE PresignedDownload(c) \/ (ConfirmUpload(c) /\ Answer(c, "confirmed", id, row))
  <2>1. \/ request[c].op = "read" /\ Service!Tell(c, "read", id, row)
        \/ /\ request[c].op = "confirm" /\ Service!Tell(c, "confirmed", id, row)
           /\ objects[row.metadata.location] = row.metadata.digest
    <3>1. CASE PresignedDownload(c)
      BY <3>1, AnswerIsTold DEF PresignedDownload, Handle
    <3>2. CASE ConfirmUpload(c) /\ Answer(c, "confirmed", id, row)
      <4>1. objects[row.metadata.location] = row.metadata.digest
        BY <3>2 DEF ConfirmUpload, VerifyDigest, Error, Answer, APIInv, TypeOK
      <4>2. request[c].op = "confirm"
        BY <1>1, <3>2 DEF ConfirmUpload
      <4> QED
        BY <3>2, <4>1, <4>2, AnswerIsTold DEF Handle
    <3> QED
      BY <1>5, <3>1, <3>2
  <2>2. Service!Show(c, id, row)
    BY <1>1, <1>2, <1>3, <2>1 DEF Service!Show, Service!ledger, ledger
  <2> QED
    BY <1>4, <2>2 DEF Service!Next, Service!Present
<1>6. CASE ConfirmUpload(c) /\ Error(c, "unverified")
  <2>1. Service!Reason(c, "unverified")
    BY <1>1, <1>3, <1>6 DEF Service!Reason, ConfirmUpload
  <2> QED
    BY <1>1, <1>6, <2>1, ErrorIsTold DEF Service!Codes, Handle
<1> QED
  BY <1>5, <1>6 DEF ConfirmUpload

(* recordValidation decides for who is entitled now, though the check was made *)
(* on an earlier row, and tells at once only of a failure.                   *)
LEMMA DecideServed ==
    ASSUME APIInv, NEW c \in Calls, RecordValidation(c) \/ DecisionUnacknowledged(c)
    PROVE  Service!Next
<1> DEFINE id == request[c].package
<1>1. /\ TypeOK /\ HandlerOK(c) /\ pc[c] = "decide" /\ Effect(c) = NoPackage
      /\ request[c] \in PackageBodies /\ request[c].op = "validate"
      /\ record[c].package = id /\ Kept(id, record[c].row) /\ Cleared(principal[c], record[c].row)
      /\ answer[c].code = "none" /\ objects' = objects /\ uploads' = uploads
      /\ \A d \in Calls \ {c} : Quiet(d)
  BY OneRequestMoves DEF APIInv, RecordValidation, DecisionUnacknowledged, HandlerOK, Effect, Handle
<1>2. id \in PackageIDs /\ Service!Entitled(c)
  BY <1>1, ClearedIsEntitled DEF Kept
<1>3. ASSUME Ledger!Decide(id, request[c].status), Service!Affect(c, id)
      PROVE  Service!Next
  <2>1. Service!Decide(c, id)
    BY <1>1, <1>2, <1>3, SameLedger DEF Service!Decide
  <2> QED
    BY <1>2, <2>1 DEF Service!Next
<1>4. CASE /\ Ledger!Decide(id, request[c].status) /\ Goto(c, "reload")
           /\ UNCHANGED <<principal, request, record, answer>>
  <2>1. Effect(c)' = id
    BY <1>1, <1>4 DEF Effect, Goto, TypeOK
  <2>2. EffectOf' = [EffectOf EXCEPT ![c] = id]
    BY <1>1, <2>1, EffectSteps
  <2>3. Service!Affect(c, id)
    BY <1>1, <1>4, <2>2 DEF Service!Affect, EffectOf
  <2> QED
    BY <1>3, <1>4, <2>3
<1>5. CASE DecisionUnacknowledged(c)
  <2>1. Service!Tell(c, "failed", NoPackage, NoPackage)
    BY <1>5, AnswerIsTold DEF DecisionUnacknowledged, Error, Handle
  <2>2. Service!Affect(c, id)
    BY <1>1, <2>1 DEF Service!Affect
  <2> QED
    BY <1>3, <1>5, <2>2 DEF DecisionUnacknowledged
<1>6. CASE /\ RecordValidation(c) /\ packages[id].status \in Terminal
           /\ Error(c, "terminal") /\ UNCHANGED ledger
  <2>1. Service!Reason(c, "terminal")
    BY <1>1, <1>2, <1>6, SameServiceData DEF Service!Reason
  <2> QED
    BY <1>1, <1>6, <2>1, ErrorIsTold DEF Service!Codes, Handle
<1> QED
  BY <1>4, <1>5, <1>6 DEF RecordValidation

(* What recordValidation reads again is the effect it had. *)
LEMMA ReloadServed ==
    ASSUME APIInv, NEW c \in Calls, ReloadPackage(c)
    PROVE  Service!Next
<1> DEFINE id == request[c].package
           row == packages[id]
<1>1. /\ HandlerOK(c) /\ pc[c] = "reload" /\ request[c].op = "validate" /\ Effect(c) = id
      /\ DecidedAs(id, request[c].status) /\ Cleared(principal[c], row)
      /\ UNCHANGED <<ledger, uploads>> /\ Answer(c, "recorded", id, row)
  BY DEF APIInv, ReloadPackage, Reloaded, HandlerOK, Effect
<1>2. Kept(id, row) /\ id \in PackageIDs /\ row.status = request[c].status
  BY <1>1 DEF Kept, DecidedAs
<1>3. Service!Tell(c, "recorded", id, row)
  BY <1>1, AnswerIsTold DEF Handle
<1>4. Service!Entitled(c)
  BY <1>1, <1>2, ClearedIsEntitled
<1>5. Service!Show(c, id, row)
  BY <1>1, <1>2, <1>3, <1>4 DEF Service!Show, Service!ledger, ledger
<1>6. id \in Service!Present /\ row \in Service!Versions(id)
  BY <1>2, KeptIsVersion
<1> QED
  BY <1>5, <1>6 DEF Service!Next, Service!Present

(* A call that fails is a reason, and the one thing it may conceal is told   *)
(* apart: a 503 of a creation means that the package is there.              *)
LEMMA FailServed ==
    ASSUME APIInv, NEW c \in Calls, Fail(c)
    PROVE  Service!Next
<1>1. /\ TypeOK /\ HandlerOK(c) /\ UNCHANGED <<ledger, uploads>> /\ Error(c, ErrorAt(pc[c]))
      /\ pc[c] \in {"create", "load", "decide", "reload", "head", "presign", "presign_new"}
  BY DEF APIInv, Fail, TypeOK
<1>2. ASSUME NEW code \in Service!Codes, ErrorAt(pc[c]) = code, Service!Reason(c, code)
      PROVE  Service!Next
  <2>1. Error(c, code)
    BY <1>1, <1>2
  <2> QED
    BY <1>1, <1>2, <2>1, ErrorIsTold DEF Handle
<1>3. CASE pc[c] \in {"create", "load", "decide", "reload"}
  <2>1. ErrorAt(pc[c]) = "failed"
    BY <1>3 DEF ErrorAt
  <2>2. CASE pc[c] = "create"
    <3>1. request[c].op = "create" /\ Effect(c) = NoPackage
      BY <1>1, <2>2 DEF HandlerOK, CreateBodies, Effect
    <3>2. Service!Reason(c, "failed")
      BY <3>1 DEF Service!Reason
    <3> QED
      BY <1>2, <2>1, <3>2 DEF Service!Codes
  <2>3. CASE pc[c] # "create"
    <3>1. request[c].op \in {"read", "confirm", "validate"}
      BY <1>1, <1>3, <2>3 DEF HandlerOK, PackageBodies
    <3>2. Service!Reason(c, "failed")
      BY <3>1 DEF Service!Reason
    <3> QED
      BY <1>2, <2>1, <3>2 DEF Service!Codes
  <2> QED
    BY <2>2, <2>3
<1>4. CASE pc[c] = "head" \/ (pc[c] \in {"presign", "presign_new"} /\ request[c].op = "read")
  <2>1. /\ record[c].package = request[c].package
        /\ Kept(record[c].package, record[c].row) /\ Cleared(principal[c], record[c].row)
        /\ pc[c] = "head" => request[c].op = "confirm"
    BY <1>1, <1>4 DEF HandlerOK
  <2>2. Service!Entitled(c)
    BY <2>1, ClearedIsEntitled
  <2>3. CASE pc[c] = "head"
    <3>1. ErrorAt(pc[c]) = "unverified"
      BY <2>3 DEF ErrorAt
    <3>2. Service!Reason(c, "unverified")
      BY <2>1, <2>2, <2>3 DEF Service!Reason
    <3> QED
      BY <1>2, <3>1, <3>2 DEF Service!Codes
  <2>4. CASE pc[c] # "head"
    <3>1. ErrorAt(pc[c]) = "unavailable"
      BY <1>4, <2>4 DEF ErrorAt
    <3>2. Service!Reason(c, "unavailable")
      BY <1>4, <2>2, <2>4 DEF Service!Reason
    <3> QED
      BY <1>2, <3>1, <3>2 DEF Service!Codes
  <2> QED
    BY <2>3, <2>4
<1>5. CASE pc[c] \in {"presign", "presign_new"} /\ request[c].op # "read"
  <2>1. request[c].op = "create" /\ InHand(c)
    BY <1>1, <1>5 DEF HandlerOK
  <2>2. Service!Kin(c, record[c].package) /\ record[c].package \in PackageIDs
    BY <2>1, SameLedger, SameServiceData DEF InHand, Service!Kin
  <2>3. ErrorAt(pc[c]) = "unavailable"
    BY <1>5 DEF ErrorAt
  <2>4. Service!Reason(c, "unavailable")
    BY <2>1, <2>2 DEF Service!Reason
  <2> QED
    BY <1>2, <2>3, <2>4 DEF Service!Codes
<1> QED
  BY <1>1, <1>3, <1>4, <1>5

(* Clients use uploads, and uploads expire, under the service as they do. *)
LEMMA BucketServed ==
    ASSUME NEW grant \in uploads, Upload(grant) \/ Expire(grant)
    PROVE  Service!Next
<1>1. EffectOf' = EffectOf
  BY DEF Upload, Expire, EffectOf, Effect
<1> QED
  BY <1>1 DEF Upload, Expire, Service!Next, Service!Upload, Service!Expire, EffectOf,
     Service!ledger, ledger

(* Every step of the handlers, the clients and the object store is a step of *)
(* the service, or one it does not see.                                     *)
LEMMA StepServed == APIInv /\ [Next]_vars => [Service!Next]_(Service!serviceVars)
<1> SUFFICES ASSUME APIInv, [Next]_vars
             PROVE  [Service!Next]_(Service!serviceVars)
  OBVIOUS
<1>1. ASSUME NEW c \in Calls, Arrive(c) \/ Handle(c)
      PROVE  [Service!Next]_(Service!serviceVars)
  BY <1>1, ArriveServed, CreateServed, RejectServed, UploadServed, LoadServed, ShowServed,
     DecideServed, ReloadServed, FailServed DEF Handle
<1>2. CASE \E grant \in uploads : Upload(grant) \/ Expire(grant)
  BY <1>2, BucketServed
<1>3. CASE UNCHANGED vars
  <2>1. EffectOf' = EffectOf
    BY <1>3 DEF vars, EffectOf, Effect
  <2> QED
    BY <1>3, <2>1 DEF vars, Service!serviceVars, EffectOf
<1> QED
  BY <1>1, <1>2, <1>3 DEF Next, Idle

(* The handlers, each of which reads, checks, decides and answers in calls   *)
(* of their own to two stores, are to all their clients one service with one *)
(* ledger and one bucket: no request has more than one effect, and every     *)
(* response is so at the moment it is given, whatever came between.          *)
THEOREM HandlersAreOneService == Spec => ImplementsService
<1>1. Init => Service!Init
  <2> SUFFICES ASSUME Init
               PROVE  Service!Init
    OBVIOUS
  <2>1. EffectOf = [c \in Calls |-> NoPackage]
    BY DEF Init, EffectOf, Effect
  <2>2. Service!NoPrincipal = NoPrincipal
    BY DEF Service!NoPrincipal, NoPrincipal
  <2> QED
    BY <2>1, <2>2, SameLedger, SameServiceData DEF Init, Service!Init, EffectOf
<1> QED
  BY <1>1, StepServed, AlwaysTold, PTL DEF Spec, ImplementsService, Service!Spec
=============================================================================
