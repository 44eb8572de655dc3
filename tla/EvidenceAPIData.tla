---------------------------- MODULE EvidenceAPIData ----------------------------
(***************************************************************************)
(* The requests of internal/api/server.go as data.  A package's metadata   *)
(* is its digest, its classification, a label of the ladder in             *)
(* internal/auth/auth.go, its received_at and its object key.  The bucket  *)
(* is one and fixed, so a location is its key.                             *)
(***************************************************************************)
EXTENDS EvidenceData, Authentication

CONSTANTS
    Calls,            \* HTTP requests, each handled once
    Digests,          \* SHA-256 digests of raw evidence
    Classifications,  \* labels of the packages
    Times,            \* spellings of received_at
    Submitted,        \* the bodies of creations that clients send
    NoObject          \* nothing stored under an object key

ASSUME APIAssumption ==
    /\ Classifications \subseteq Labels
    /\ NoObject \notin Digests
    /\ Metadata = [digest : Digests, classification : Classifications,
                   receivedAt : Times, location : KeyTexts]
    /\ \A m \in Metadata :
          /\ StoredMetadata[m].digest = m.digest
          /\ StoredMetadata[m].classification = m.classification
          /\ StoredMetadata[m].location = m.location
    /\ Submitted \subseteq [op : {"create"}, key : KeyTexts, digest : Digests,
                            classification : Classifications, receivedAt : Times]
    /\ \A t \in Tokens : t.tenant \in Tenants \cup {NoTenant}

CreateBodies ==
    [op : {"create"}, key : KeyTexts, digest : Digests, classification : Classifications,
     receivedAt : Times]
PackageBodies ==
    [op : {"read", "confirm"}, package : PackageIDs]
        \cup [op : {"validate"}, package : PackageIDs, status : Terminal]

(* What a request may carry. *)
Bodies == Submitted \cup PackageBodies

Uploads == [key : KeyTexts, digest : Digests]

NoPrincipal == [tenant |-> NoTenant, clearance |-> "public", roles |-> {}]
NoRequest == [op |-> "none"]
NoAnswer == [code |-> "none", package |-> NoPackage, row |-> NoPackage]

(* Server.objectLocation: the key text as the client spelt it. *)
objectLocation(key) == key

CreateRequest(p, body) ==
    [op |-> "create", tenant |-> p.tenant, key |-> body.key,
     metadata |-> [digest |-> body.digest, classification |-> body.classification,
                   receivedAt |-> body.receivedAt, location |-> objectLocation(body.key)]]

(* Objects.PresignedUpload for the location and the digest of a row. *)
UploadFor(row) == [key |-> row.metadata.location, digest |-> row.metadata.digest]
=============================================================================
