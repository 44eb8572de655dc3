------------------------------ MODULE JwksCache ------------------------------
(***************************************************************************)
(* internal/auth/auth.go: the realm keys that OIDCAuthenticator trusts.    *)
(* Requests share one cache under a read-write lock, but the lock is not   *)
(* held while the key set is fetched: several requests may load at once    *)
(* and install what they got in any order.                                 *)
(*                                                                         *)
(* The issuer (Keycloak) publishes a key once and may withdraw it once.    *)
(* Time is counted in whole units; a load, from the decision to fetch to   *)
(* the last look into the cache, takes at most Timeout of them, the        *)
(* http.Client's Timeout: the few instructions after the body has been     *)
(* read are counted in.                                                    *)
(***************************************************************************)
EXTENDS Integers

CONSTANTS
    Requests,   \* authentications, each decided once
    Keys,       \* key IDs of the realm
    NoKey,      \* of a request that has not arrived, or is over
    TTL,        \* five minutes
    Timeout,    \* ten seconds
    MaxTime     \* bound: the last instant that is looked at

ASSUME JwksAssumption ==
    /\ NoKey \notin Keys
    /\ TTL \in Nat
    /\ Timeout \in Nat
    /\ Timeout < TTL
    /\ MaxTime \in Nat

VARIABLES
    now,
    from, until,      \* the issuer: when a key was published and withdrawn
    keys, loadedAt,   \* the cache
    pc, kid,          \* a request: where it is, and its token's key ID
    began, document,  \* its load: when it began, and the keys it has read
    decidedAt, trusted

issuer == <<from, until>>
cache == <<keys, loadedAt>>
vars == <<now, from, until, keys, loadedAt, pc, kid, began, document, decidedAt, trusted>>

Never == MaxTime + 1
Instants == 0 .. MaxTime

Published == {k \in Keys : from[k] <= now /\ until[k] = Never}

(* loadedAt is the zero time.Time: long ago. *)
Init ==
    /\ now = 0
    /\ from \in [Keys -> {0, Never}]
    /\ until = [k \in Keys |-> Never]
    /\ keys = {}
    /\ loadedAt = -TTL
    /\ pc = [r \in Requests |-> "start"]
    /\ kid = [r \in Requests |-> NoKey]
    /\ began = [r \in Requests |-> 0]
    /\ document = [r \in Requests |-> {}]
    /\ decidedAt = [r \in Requests |-> 0]
    /\ trusted = [r \in Requests |-> FALSE]

-----------------------------------------------------------------------------
(* The issuer, and time *)

Publish(k) ==
    /\ from[k] = Never
    /\ from' = [from EXCEPT ![k] = now]
    /\ UNCHANGED <<now, until, cache, pc, kid, began, document, decidedAt, trusted>>

Withdraw(k) ==
    /\ k \in Published
    /\ until' = [until EXCEPT ![k] = now]
    /\ UNCHANGED <<now, from, cache, pc, kid, began, document, decidedAt, trusted>>

Loading(r) == pc[r] \in {"fetch", "install", "look again"}

Tick ==
    /\ now < MaxTime
    /\ \A r \in Requests : Loading(r) => now < began[r] + Timeout
    /\ now' = now + 1
    /\ UNCHANGED <<issuer, cache, pc, kid, began, document, decidedAt, trusted>>

-----------------------------------------------------------------------------
(* OIDCAuthenticator.key *)

Decide(r, outcome) ==
    /\ pc' = [pc EXCEPT ![r] = "decided"]
    /\ decidedAt' = [decidedAt EXCEPT ![r] = now]
    /\ trusted' = [trusted EXCEPT ![r] = outcome]
    /\ began' = [began EXCEPT ![r] = 0]
    /\ document' = [document EXCEPT ![r] = {}]

(* Mutant: a cached key is trusted however old the key set is. *)
CachedAtAnyAge(k) == k \in keys

(* Under the read lock: the key is there and the key set is fresh. *)
Cached(k) == k \in keys /\ now - loadedAt < TTL

Look(r, k) ==
    /\ pc[r] = "start"
    /\ kid' = [kid EXCEPT ![r] = k]
    /\ IF Cached(k)
       THEN Decide(r, TRUE)
       ELSE /\ pc' = [pc EXCEPT ![r] = "fetch"]
            /\ began' = [began EXCEPT ![r] = now]
            /\ UNCHANGED <<document, decidedAt, trusted>>
    /\ UNCHANGED <<now, issuer, cache>>

(* Mutant: the map is made anew for each key of the document. *)
FetchLastOnly(r) ==
    /\ pc[r] = "fetch"
    /\ \E last \in Published : document' = [document EXCEPT ![r] = {last}]
    /\ pc' = [pc EXCEPT ![r] = "install"]
    /\ UNCHANGED <<now, issuer, cache, kid, began, decidedAt, trusted>>

(* loadKeys: the issuer's answer, as it is when the issuer gives it.  A     *)
(* document without approved keys is an error.                              *)
Fetch(r) ==
    /\ pc[r] = "fetch"
    /\ Published # {}
    /\ document' = [document EXCEPT ![r] = Published]
    /\ pc' = [pc EXCEPT ![r] = "install"]
    /\ UNCHANGED <<now, issuer, cache, kid, began, decidedAt, trusted>>

(* Mutant: the time at which the key set will have expired. *)
ExpiryTime == now + TTL

LoadTime == now

(* Under the write lock, whatever has been installed meanwhile. *)
Install(r) ==
    /\ pc[r] = "install"
    /\ keys' = document[r]
    /\ loadedAt' = LoadTime
    /\ pc' = [pc EXCEPT ![r] = "look again"]
    /\ UNCHANGED <<now, issuer, kid, began, document, decidedAt, trusted>>

(* The second look into the cache. *)
Known(r) == kid[r] \in keys

LookAgain(r) ==
    /\ pc[r] = "look again"
    /\ Decide(r, Known(r))
    /\ UNCHANGED <<now, issuer, cache, kid>>

(* The request fails, times out, or the document has no approved key: the   *)
(* error is returned, the cache stays as it is.                             *)
LoadFails(r) ==
    /\ pc[r] \in {"fetch", "install"}
    /\ pc' = [pc EXCEPT ![r] = "failed"]
    /\ kid' = [kid EXCEPT ![r] = NoKey]
    /\ began' = [began EXCEPT ![r] = 0]
    /\ document' = [document EXCEPT ![r] = {}]
    /\ UNCHANGED <<now, issuer, cache, decidedAt, trusted>>

-----------------------------------------------------------------------------
Authenticate(r) ==
    \/ \E k \in Keys : Look(r, k)
    \/ Fetch(r)
    \/ Install(r)
    \/ LookAgain(r)
    \/ LoadFails(r)

Done == now = MaxTime /\ UNCHANGED vars

Next ==
    \/ \E k \in Keys : Publish(k) \/ Withdraw(k)
    \/ \E r \in Requests : Authenticate(r)
    \/ Tick
    \/ Done

Spec == Init /\ [][Next]_vars

-----------------------------------------------------------------------------
(* Properties *)

TypeOK ==
    /\ now \in Instants
    /\ from \in [Keys -> Instants \cup {Never}]
    /\ until \in [Keys -> Instants \cup {Never}]
    /\ keys \subseteq Keys
    /\ loadedAt \in Instants \cup {-TTL}
    /\ pc \in [Requests -> {"start", "fetch", "install", "look again", "decided", "failed"}]
    /\ kid \in [Requests -> Keys \cup {NoKey}]
    /\ began \in [Requests -> Instants]
    /\ document \in [Requests -> SUBSET Keys]
    /\ decidedAt \in [Requests -> Instants]
    /\ trusted \in [Requests -> BOOLEAN]

(* A key that the realm has withdrawn is trusted for less than TTL plus one *)
(* Timeout after that, although a slow load may put an older key set over a *)
(* newer one and loadedAt is the end of a load, not its beginning; and a    *)
(* key is never trusted before it was published.                            *)
TrustedWasPublished ==
    \A r \in Requests :
        pc[r] = "decided" /\ trusted[r] =>
            /\ from[kid[r]] <= decidedAt[r]
            /\ decidedAt[r] < until[kid[r]] + TTL + Timeout

(* A key that has been published for more than two Timeouts is trusted by   *)
(* every request that meets no fault: an unknown key ID makes the request   *)
(* load, and no other load that ends later can bring back a key set from    *)
(* before.                                                                  *)
EstablishedIsTrusted ==
    \A r \in Requests :
        pc[r] = "decided" /\ ~trusted[r] =>
            \/ decidedAt[r] <= from[kid[r]] + 2 * Timeout
            \/ until[kid[r]] <= decidedAt[r]

(* The inductive invariant behind both.  Once, before the first load, the   *)
(* cache is empty; after that it holds what the issuer published at some    *)
(* instant of the last Timeout before loadedAt, and everything that was     *)
(* published throughout that Timeout and still is.                          *)
IssuerOK ==
    \A k \in Keys :
        /\ from[k] = Never \/ from[k] <= now
        /\ until[k] = Never \/ until[k] <= now

CacheOK ==
    /\ loadedAt <= now
    /\ \A k \in keys : from[k] <= now /\ loadedAt <= until[k] + Timeout
    /\ \A k \in Keys : from[k] + Timeout < loadedAt /\ until[k] = Never => k \in keys

LoadOK(r) ==
    /\ Loading(r) => began[r] <= now /\ now <= began[r] + Timeout
    /\ pc[r] = "install" =>
          /\ \A k \in document[r] : from[k] <= now /\ began[r] <= until[k]
          /\ \A k \in Keys : from[k] < began[r] /\ until[k] = Never => k \in document[r]
    /\ pc[r] = "look again" => began[r] <= loadedAt

DecidedOK(r) ==
    /\ decidedAt[r] <= now
    /\ pc[r] \in {"fetch", "install", "look again", "decided"} => kid[r] \in Keys

JwksInv ==
    /\ TypeOK
    /\ IssuerOK
    /\ CacheOK
    /\ \A r \in Requests : LoadOK(r) /\ DecidedOK(r)
    /\ TrustedWasPublished
    /\ EstablishedIsTrusted
=============================================================================
