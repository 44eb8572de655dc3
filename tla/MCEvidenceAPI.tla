---------------------------- MODULE MCEvidenceAPI ----------------------------
(* Small instances of EvidenceAPI for TLC. *)
EXTENDS EvidenceAPIProperties, TLC

CONSTANTS t1, t2, lower, upper, d1, d2, micro, nano

AllMetadata == [digest : Digests, classification : Classifications,
                receivedAt : Times, location : KeyTexts]

(* "upper" spells the UUID "lower" in upper case, and "nano" is "micro" with *)
(* a fraction below the microsecond: neither comes back as it was sent.      *)
LowerCased == [k \in KeyTexts |-> IF k = upper THEN lower ELSE k]
Truncated == [m \in AllMetadata |-> IF m.receivedAt = nano THEN [m EXCEPT !.receivedAt = micro] ELSE m]

Create(key, digest, classification, receivedAt) ==
    [op |-> "create", key |-> key, digest |-> digest, classification |-> classification,
     receivedAt |-> receivedAt]

(* One evidence, its key in either case and its time in either precision,   *)
(* and another for the same key.                                            *)
OneKey == {
    Create(lower, d1, "internal", micro),
    Create(upper, d1, "internal", micro),
    Create(lower, d1, "internal", nano),
    Create(lower, d2, "public", micro)}

TwoDigests == {Create(lower, d1, "public", micro), Create(lower, d2, "public", micro)}

Token(tenant, clearance, roles) ==
    [alg |-> "RS256", kid |-> "realm", signer |-> "realm",
     issuer |-> "realm", audience |-> {"evidence", "account"},
     expires |-> 2, notBefore |-> NoTime, subject |-> "somebody",
     realmRoles |-> {"offline_access"}, clientRoles |-> {roles}, clearance |-> clearance,
     tenant |-> tenant]

(* A writer who may not read what it writes, a validator and a reader with  *)
(* less clearance in one tenant, an administrator of another and a writer   *)
(* without a tenant.                                                        *)
Office == {
    Token(t1, "public", {"evidence-writer"}),
    [Token(t1, "internal", {"evidence-validator"}) EXCEPT !.expires = 1, !.notBefore = 0],
    Token(t1, "", {"evidence-reader", "evidence-validator"}),
    Token(t2, "internal", {"evidence-admin"}),
    Token(NoTenant, "internal", {"evidence-writer", ""})}

(* Tokens that would make an administrator of the first tenant. *)
Admin == Token(t1, "internal", {"evidence-admin"})

Refused == {
    [Admin EXCEPT !.alg = "HS256"],
    [Admin EXCEPT !.kid = "unknown"],
    [Admin EXCEPT !.signer = "somebody"],
    [Admin EXCEPT !.issuer = "another realm"],
    [Admin EXCEPT !.audience = {"account"}],
    [Admin EXCEPT !.expires = 0],
    [Admin EXCEPT !.expires = NoTime],
    [Admin EXCEPT !.notBefore = 2],
    [Admin EXCEPT !.notBefore = BadTime],
    [Admin EXCEPT !.subject = ""],
    [Admin EXCEPT !.subject = "overlong"],
    [Admin EXCEPT !.clearance = "secret"]}

OfficeTokens == Office \cup Refused

(* One writer in each of two tenants. *)
WriterTokens == {Token(t1, "public", {"evidence-writer"}), Token(t2, "public", {"evidence-writer"}),
                 [Admin EXCEPT !.expires = 0]}

Symmetry == Permutations(PackageIDs) \cup Permutations(Calls)
=============================================================================
