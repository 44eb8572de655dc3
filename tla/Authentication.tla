---------------------------- MODULE Authentication ----------------------------
(***************************************************************************)
(* internal/auth/auth.go: what OIDCAuthenticator.Authenticate makes of a   *)
(* bearer token, and the clearance ladder.  Texts are taken as they are    *)
(* after TrimSpace, which the code applies to each of them.  A token that  *)
(* is no compact JWT of base64url JSON is one more that is refused, and    *)
(* left out.  JwksCache says when a key is trusted; here the cache holds   *)
(* SigningKeys.                                                            *)
(***************************************************************************)
EXTENDS Integers, Sequences

CONSTANTS
    SigningKeys,       \* key IDs in the cache; a signature names the key that made it
    Issuer, Audience,  \* EVIDENCE_OIDC_ISSUER, EVIDENCE_OIDC_AUDIENCE
    Tokens,            \* the tokens that are presented
    Instants,          \* when
    NoTime, BadTime    \* a claim that is absent, or no whole number

Ladder == <<"public", "internal", "confidential", "restricted", "highly_restricted">>
Labels == {Ladder[i] : i \in DOMAIN Ladder}

ASSUME AuthenticationAssumption ==
    /\ Instants \subseteq Int
    /\ {NoTime, BadTime} \cap Int = {}
    /\ \A t \in Tokens :
          /\ t.expires \in Int \cup {NoTime, BadTime}
          /\ t.notBefore \in Int \cup {NoTime, BadTime}

-----------------------------------------------------------------------------
(* The clearance ladder *)

Rung == [label \in Labels |-> CHOOSE i \in DOMAIN Ladder : Ladder[i] = label]

ladderRank(label) == IF label \in Labels THEN Rung[label] - 1 ELSE -1

(* Mutant: the ladder read the wrong way round. *)
ClearanceBelow(clearance, classification) ==
    ladderRank(clearance) <= ladderRank(classification)

ClearanceCovers(clearance, classification) ==
    /\ ladderRank(clearance) >= ladderRank(classification)
    /\ ladderRank(classification) >= 0

(* An absent clearance is the lowest. *)
ClearanceOf(asserted) == IF asserted = "" THEN "public" ELSE asserted

-----------------------------------------------------------------------------
(* The checks of Authenticate, which reads the clock once. *)

Signed(t) == t.alg = "RS256" /\ t.kid \in SigningKeys /\ t.signer = t.kid

(* aud is a string or an array of them: the set of its members. *)
audienceContains(t) == Audience \in t.audience

(* Mutant: a token is taken before it is in force. *)
NotExpired(t, now) == t.expires \in Int /\ now < t.expires

Current(t, now) ==
    /\ t.expires \in Int /\ now < t.expires
    /\ t.notBefore # NoTime => t.notBefore \in Int /\ now >= t.notBefore

validatedSubject(subject) == subject \notin {"", "overlong"}

validatedClearance(asserted) == ClearanceOf(asserted) \in Labels

Authenticates(t, now) ==
    /\ Signed(t)
    /\ t.issuer = Issuer
    /\ audienceContains(t)
    /\ Current(t, now)
    /\ validatedSubject(t.subject)
    /\ validatedClearance(t.clearance)

(* The roles of the realm and of every client in resource_access. *)
PrincipalOf(t) ==
    [tenant |-> t.tenant,
     clearance |-> ClearanceOf(t.clearance),
     roles |-> (t.realmRoles \cup UNION t.clientRoles) \ {""}]

(* Whom a request may come from, and whether one may be turned away. *)
Callers == {PrincipalOf(t) : t \in {u \in Tokens : \E now \in Instants : Authenticates(u, now)}}
SomeoneIsRefused == \E t \in Tokens, now \in Instants : ~Authenticates(t, now)
=============================================================================
