------------------------ MODULE EvidenceAPIProperties ------------------------
(* What the API and its two stores must do together. *)
EXTENDS EvidenceAPI

TypeOK ==
    /\ packages \in [PackageIDs -> Rows \cup {NoPackage}]
    /\ objects \in [KeyTexts -> Digests \cup {NoObject}]
    /\ uploads \subseteq Uploads
    /\ pc \in [Calls -> {"start", "create", "presign", "presign_new", "load", "decide",
                         "reload", "head", "answered"}]
    /\ principal \in [Calls -> Callers \cup {NoPrincipal}]
    /\ request \in [Calls -> CreateBodies \cup PackageBodies \cup {NoRequest}]
    /\ record \in [Calls -> [package : PackageIDs \cup {NoPackage},
                             row : Rows \cup {NoPackage}]]
    /\ answer \in [Calls -> [code : Codes, package : PackageIDs \cup {NoPackage},
                             row : Rows \cup {NoPackage}]]

AnsweredWith(c, code) == answer[c].code = code

(* The bucket holds nothing the store does not know: the bytes under a key  *)
(* always have the digest of a committed package with that location, since  *)
(* an upload is authorised only after Store.Create returned, for the record *)
(* it returned, and never for a request that conflicts with it.             *)
OnlyRecordedContent ==
    \A k \in KeyTexts :
        objects[k] # NoObject =>
            \E id \in PackageIDs :
                /\ packages[id] # NoPackage
                /\ packages[id].metadata.location = k
                /\ packages[id].metadata.digest = objects[k]

(* Two tenants chose the same key, and with it the same object. *)
SharedLocation(k) ==
    \E i, j \in PackageIDs :
        /\ packages[i] # NoPackage /\ packages[j] # NoPackage
        /\ packages[i].tenant # packages[j].tenant
        /\ packages[i].metadata.location = k
        /\ packages[j].metadata.location = k

(* A confirmed upload stays confirmed: after upload-confirmation answered   *)
(* digest_verified, late or repeated uploads through any authorisation that *)
(* is still valid leave bytes with that digest there.  Only a package of    *)
(* another tenant with the same key can put others in their place.          *)
ConfirmedIsRetained ==
    \A c \in Calls :
        AnsweredWith(c, "confirmed") =>
            LET metadata == answer[c].row.metadata
            IN  objects[metadata.location] = metadata.digest \/ SharedLocation(metadata.location)

(* Every package an answer shows is, by the row as it is now, of the        *)
(* caller's tenant, and not above the caller's clearance unless it has the  *)
(* digest and the classification the caller has just sent.  loadPackage     *)
(* checks once, on a row read earlier, and the validation handler shows a   *)
(* row it has read again without checking.  createPackage checks no         *)
(* clearance before its 201 and 200: whoever names the whole content of a   *)
(* package above its clearance is shown that package, and its status.       *)
ReadsAreCleared ==
    \A c \in Calls :
        answer[c].package # NoPackage =>
            LET row == packages[answer[c].package]
                label == row.metadata.classification
            IN  /\ row.tenant = principal[c].tenant
                /\ \/ ladderRank(principal[c].clearance) >= ladderRank(label)
                   \/ /\ request[c].op = "create"
                      /\ row.metadata.digest = request[c].digest
                      /\ label = request[c].classification

(* A token the realm made for this service, presented while it is in force. *)
Issued(t) ==
    /\ t.alg = "RS256" /\ t.signer \in SigningKeys /\ t.kid = t.signer
    /\ t.issuer = Issuer /\ Audience \in t.audience
    /\ t.expires \in Int /\ t.notBefore \in Int \cup {NoTime}
    /\ \E now \in Instants :
          t.expires > now /\ (t.notBefore \in Int => t.notBefore <= now)
    /\ t.subject \notin {"", "overlong"}
    /\ t.clearance \in Labels \cup {""}

Known == {PrincipalOf(t) : t \in {u \in Tokens : Issued(u)}}

(* Every decision in the store, acknowledged or not, was asked for by a     *)
(* validator or administrator of the package's tenant whose clearance       *)
(* covers it, and who holds all this by a token that the realm signed for   *)
(* this service and that was in force.                                      *)
DecisionsAreAuthorised ==
    \A id \in PackageIDs :
        packages[id] # NoPackage /\ packages[id].status \in Terminal =>
            \E c \in Calls :
                /\ request[c].op = "validate"
                /\ request[c].package = id
                /\ request[c].status = packages[id].status
                /\ answer[c].code \in {"none", "recorded", "failed"}
                /\ principal[c].roles \cap {"evidence-validator", "evidence-admin"} # {}
                /\ principal[c].tenant = packages[id].tenant
                /\ ladderRank(principal[c].clearance)
                       >= ladderRank(packages[id].metadata.classification)
                /\ principal[c] \in Known

(* The 201 of a validation shows the package with the decision just         *)
(* recorded, also when handlers overlap, and it is the package's last word. *)
RecordedIsShown ==
    \A c \in Calls :
        AnsweredWith(c, "recorded") =>
            /\ answer[c].row.status = request[c].status
            /\ answer[c].row = packages[answer[c].package]

(* When presigning fails (503) the package is already committed.  Repeating *)
(* a request that the columns give back as it was sent finds it, whatever   *)
(* has been decided on it meanwhile and whatever else was sent with its     *)
(* key, and is never told that its content differs.  (A UUID in upper case  *)
(* or a received_at in nanoseconds is told so: RepeatReturnsOriginal.)      *)
RepeatFindsPackage ==
    \A c, d \in Calls :
        /\ answer[c].code \in {"created", "retained", "unavailable"}
        /\ request[c].op = "create"
        /\ Canonical(CreateRequest(principal[c], request[c]))
        /\ request[d] = request[c]
        /\ principal[d].tenant = principal[c].tenant
        => ~AnsweredWith(d, "conflict")

-----------------------------------------------------------------------------
(* The package a handler has entered or decided and not yet answered for. *)
Effect(c) ==
    CASE pc[c] = "presign_new" -> record[c].package
      [] pc[c] = "reload"      -> request[c].package
      [] OTHER                 -> NoPackage

Service == INSTANCE EvidenceService WITH effect <- [c \in Calls |-> Effect(c)]

(* To its clients the handlers are one indivisible service: every request   *)
(* has at most one effect, and each response, decided on rows that were     *)
(* read before other requests came between, is true of the ledger and the   *)
(* bucket at the moment it is given.                                        *)
ImplementsService == Service!Spec

-----------------------------------------------------------------------------
(* README.md:3 "Raw evidence is retained in an approved object store":      *)
(* raw evidence that was confirmed to be retained stays retained.           *)
RawEvidenceIsRetained ==
    \A c \in Calls :
        AnsweredWith(c, "confirmed") =>
            objects[answer[c].row.metadata.location] = answer[c].row.metadata.digest
=============================================================================
