----------------------------- MODULE EvidenceAPI -----------------------------
(***************************************************************************)
(* internal/api/server.go between its clients, the evidence store and the  *)
(* object store (internal/objstore/objstore.go).  One action per call a    *)
(* handler makes: a statement of the store is one step of EvidenceLedger,  *)
(* which EvidenceStore implements, and between two of them other handlers, *)
(* uploads and expiries happen.                                            *)
(***************************************************************************)
EXTENDS EvidenceAPIData

VARIABLES
    packages, history, outbox,  \* the evidence store, as in EvidenceLedger
    objects,                    \* object key -> digest of the bytes retained
    uploads,                    \* presigned PUTs that have not expired
    pc,                         \* what a handler does next
    principal, request,         \* whose request it is, and for what
    record,                     \* the package the handler has in hand
    answer                      \* the response

ledger == <<packages, history, outbox>>
vars == <<packages, history, outbox, objects, uploads, pc, principal, request, record, answer>>

Ledger == INSTANCE EvidenceLedger

NoRecord == [package |-> NoPackage, row |-> NoPackage]

(* The responses: 401, 403, 400, 404, 500, 503, 201, 200, 409 "content differs", *)
(* 200 of a read, 201 and 409 of a validation, 200 and 409 of a             *)
(* confirmation.                                                            *)
Codes == {"none", "unauthenticated", "forbidden", "invalid", "not_found", "failed", "unavailable",
          "created", "retained", "conflict", "read", "recorded", "terminal",
          "confirmed", "unverified"}

Init ==
    /\ Ledger!Init
    /\ objects = [k \in KeyTexts |-> NoObject]
    /\ uploads = {}
    /\ pc = [c \in Calls |-> "start"]
    /\ principal = [c \in Calls |-> NoPrincipal]
    /\ request = [c \in Calls |-> NoRequest]
    /\ record = [c \in Calls |-> NoRecord]
    /\ answer = [c \in Calls |-> NoAnswer]

-----------------------------------------------------------------------------
(* The gates of a request. *)

(* Mutant: whoever may upload may also decide. *)
WriterMayDecide(op) ==
    CASE op = "create"   -> {"evidence-writer", "evidence-admin"}
      [] op = "read"     -> {"evidence-reader", "evidence-validator", "evidence-admin"}
      [] op = "validate" -> {"evidence-writer", "evidence-validator", "evidence-admin"}
      [] op = "confirm"  -> {"evidence-writer", "evidence-admin"}

(* Server.Handler: the roles that RequireRoles admits to each route. *)
AdmittedRoles(op) ==
    CASE op = "create"   -> {"evidence-writer", "evidence-admin"}
      [] op = "read"     -> {"evidence-reader", "evidence-validator", "evidence-admin"}
      [] op = "validate" -> {"evidence-validator", "evidence-admin"}
      [] op = "confirm"  -> {"evidence-writer", "evidence-admin"}

RequireRoles(p, op) == p.roles \cap AdmittedRoles(op) # {}

-----------------------------------------------------------------------------
Goto(c, label) == pc' = [pc EXCEPT ![c] = label]

Hold(c, id, row) == record' = [record EXCEPT ![c] = [package |-> id, row |-> row]]

(* The handler answers, with a package when it has one to show. *)
Answer(c, code, id, row) ==
    /\ Goto(c, "answered")
    /\ answer' = [answer EXCEPT ![c] = [code |-> code, package |-> id, row |-> row]]
    /\ record' = [record EXCEPT ![c] = NoRecord]
    /\ UNCHANGED <<principal, request>>

Error(c, code) == Answer(c, code, NoPackage, NoPackage)

(* Middleware: no principal, no handler. *)
Unauthenticated(c) ==
    /\ pc[c] = "start"
    /\ SomeoneIsRefused
    /\ Error(c, "unauthenticated")
    /\ UNCHANGED <<ledger, objects, uploads>>

(* RequireRoles, and the tenant binding that createPackage asks for. *)
Refuse(c, p, body) ==
    /\ pc[c] = "start"
    /\ RequireRoles(p, body.op) => body.op = "create" /\ p.tenant = NoTenant
    /\ Error(c, "forbidden")
    /\ UNCHANGED <<ledger, objects, uploads>>

Admit(c, p, body) ==
    /\ pc[c] = "start"
    /\ RequireRoles(p, body.op)
    /\ body.op = "create" => p.tenant # NoTenant
    /\ principal' = [principal EXCEPT ![c] = p]
    /\ request' = [request EXCEPT ![c] = body]
    /\ Goto(c, IF body.op = "create" THEN "create" ELSE "load")
    /\ UNCHANGED <<ledger, objects, uploads, record, answer>>

(* decodeJSON, parseTime or Validate: before Store.Create, but after the    *)
(* package is loaded for a validation.                                      *)
RejectBody(c) ==
    /\ pc[c] \in {"create", "decide"}
    /\ Error(c, "invalid")
    /\ UNCHANGED <<ledger, objects, uploads>>

-----------------------------------------------------------------------------
(* Server.createPackage *)

(* Mutant: a conflicting request is given the upload it asked for. *)
OnConflictUpload(c, id, r) == Hold(c, id, StoredRow(r)) /\ Goto(c, "presign")
                              /\ UNCHANGED <<principal, request, answer>>

OnConflict(c, id, r) == Error(c, "conflict")

(* Store.Create, as the ledger promises it. *)
CreatePackage(c) ==
    LET r == CreateRequest(principal[c], request[c])
    IN  /\ pc[c] = "create"
        /\ \/ \E id \in PackageIDs :
                 /\ Ledger!Receive(id, r)
                 /\ Hold(c, id, StoredRow(r))
                 /\ Goto(c, "presign_new")
                 /\ UNCHANGED <<principal, request, answer>>
           \/ \E id \in PackageIDs :
                 /\ Holds(packages, id, r.tenant, StoredKey[r.key])
                 /\ IF Matches(r, packages[id])
                    THEN Hold(c, id, packages[id]) /\ Goto(c, "presign")
                         /\ UNCHANGED <<principal, request, answer>>
                    ELSE OnConflict(c, id, r)
                 /\ UNCHANGED ledger
        /\ UNCHANGED <<objects, uploads>>

(* The transaction committed, but Store.Create returned an error. *)
CreateUnacknowledged(c) ==
    /\ pc[c] = "create"
    /\ \E id \in PackageIDs : Ledger!Receive(id, CreateRequest(principal[c], request[c]))
    /\ Error(c, "failed")
    /\ UNCHANGED <<objects, uploads>>

(* An upload of the bytes the record names. *)
PresignedUpload(c) ==
    LET row == record[c].row
    IN  /\ pc[c] \in {"presign", "presign_new"}
        /\ request[c].op = "create"
        /\ uploads' = uploads \cup {UploadFor(row)}
        /\ Answer(c, IF pc[c] = "presign_new" THEN "created" ELSE "retained",
                  record[c].package, row)
        /\ UNCHANGED <<ledger, objects>>

-----------------------------------------------------------------------------
(* Server.loadPackage, and the handlers that begin with it *)

(* Mutant: the clearance is looked at before the tenant. *)
ClearanceFirst(p, row) ==
    row.tenant = p.tenant \/ ~ClearanceCovers(p.clearance, row.metadata.classification)

SameTenant(p, row) == row.tenant = p.tenant

AfterLoad(op) ==
    CASE op = "read" -> "presign" [] op = "confirm" -> "head" [] op = "validate" -> "decide"

LoadPackage(c) ==
    LET id == request[c].package
        row == packages[id]
    IN  /\ pc[c] = "load"
        /\ IF row = NoPackage \/ ~SameTenant(principal[c], row)
           THEN Error(c, "not_found")
           ELSE IF ~ClearanceCovers(principal[c].clearance, row.metadata.classification)
           THEN Error(c, "forbidden")
           ELSE /\ Hold(c, id, row)
                /\ Goto(c, AfterLoad(request[c].op))
                /\ UNCHANGED <<principal, request, answer>>
        /\ UNCHANGED <<ledger, objects, uploads>>

(* getPackage: the package and a presigned GET for its location. *)
PresignedDownload(c) ==
    /\ pc[c] = "presign"
    /\ request[c].op = "read"
    /\ Answer(c, "read", record[c].package, record[c].row)
    /\ UNCHANGED <<ledger, objects, uploads>>

(* recordValidation: Store.RecordValidation, as the ledger promises it. *)
RecordValidation(c) ==
    /\ pc[c] = "decide"
    /\ \/ /\ Ledger!Decide(request[c].package, request[c].status)
          /\ Goto(c, "reload")
          /\ UNCHANGED <<principal, request, record, answer>>
       \/ /\ packages[request[c].package].status \in Terminal
          /\ Error(c, "terminal")
          /\ UNCHANGED ledger
    /\ UNCHANGED <<objects, uploads>>

(* The decision committed, but Store.RecordValidation returned an error. *)
DecisionUnacknowledged(c) ==
    /\ pc[c] = "decide"
    /\ Ledger!Decide(request[c].package, request[c].status)
    /\ Error(c, "failed")
    /\ UNCHANGED <<objects, uploads>>

(* Mutant: the package as it was loaded before the decision. *)
LoadedEarlier(c) == record[c].row

(* The second Store.Get of recordValidation. *)
Reloaded(c) == packages[request[c].package]

ReloadPackage(c) ==
    /\ pc[c] = "reload"
    /\ Answer(c, "recorded", request[c].package, Reloaded(c))
    /\ UNCHANGED <<ledger, objects, uploads>>

(* Mutant: an object that is not there passes. *)
MismatchOnly(key, digest) == objects[key] \in {digest, NoObject}

(* Client.VerifyDigest: a HEAD of the object, compared with the record. *)
VerifyDigest(key, digest) == objects[key] = digest

ConfirmUpload(c) ==
    LET row == record[c].row
    IN  /\ pc[c] = "head"
        /\ IF VerifyDigest(row.metadata.location, row.metadata.digest)
           THEN Answer(c, "confirmed", record[c].package, row)
           ELSE Error(c, "unverified")
        /\ UNCHANGED <<ledger, objects, uploads>>

-----------------------------------------------------------------------------
(* Mutant: an error nobody mapped to a response. *)
ErrorUnmapped(label) == IF label = "reload" THEN label ELSE "failed"

(* A call to the store or the object store fails without effect. *)
ErrorAt(label) ==
    CASE label \in {"create", "load", "decide", "reload"} -> "failed"
      [] label \in {"presign", "presign_new"}             -> "unavailable"
      [] label = "head"                                   -> "unverified"

Fail(c) ==
    /\ pc[c] \notin {"start", "answered"}
    /\ Error(c, ErrorAt(pc[c]))
    /\ UNCHANGED <<ledger, objects, uploads>>

-----------------------------------------------------------------------------
(* The object store and the clients that hold presigned URLs. *)

(* A client puts bytes with this digest; x-amz-checksum-sha256 is among the *)
(* signed headers, so other bytes are rejected.                             *)
Upload(grant) ==
    /\ grant \in uploads
    /\ objects' = [objects EXCEPT ![grant.key] = grant.digest]
    /\ UNCHANGED <<ledger, uploads, pc, principal, request, record, answer>>

Expire(grant) ==
    /\ grant \in uploads
    /\ uploads' = uploads \ {grant}
    /\ UNCHANGED <<ledger, objects, pc, principal, request, record, answer>>

-----------------------------------------------------------------------------
Arrive(c) ==
    \/ Unauthenticated(c)
    \/ \E p \in Callers, body \in Bodies :
          Refuse(c, p, body) \/ Admit(c, p, body)

Handle(c) ==
    \/ RejectBody(c)
    \/ CreatePackage(c)
    \/ CreateUnacknowledged(c)
    \/ PresignedUpload(c)
    \/ LoadPackage(c)
    \/ PresignedDownload(c)
    \/ RecordValidation(c)
    \/ DecisionUnacknowledged(c)
    \/ ReloadPackage(c)
    \/ ConfirmUpload(c)
    \/ Fail(c)

Idle == (\A c \in Calls : pc[c] = "answered") /\ UNCHANGED vars

Next ==
    \/ \E c \in Calls : Arrive(c) \/ Handle(c)
    \/ \E grant \in uploads : Upload(grant) \/ Expire(grant)
    \/ Idle

Spec == Init /\ [][Next]_vars
=============================================================================
