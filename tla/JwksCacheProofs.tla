--------------------------- MODULE JwksCacheProofs ---------------------------
(***************************************************************************)
(* Proofs, for every number of requests and keys and every TTL longer than *)
(* the Timeout, of what the key cache of OIDCAuthenticator promises.       *)
(***************************************************************************)
EXTENDS JwksCache, TLAPS

(* Instants are natural numbers, and Never comes after all of them. *)
LEMMA Time ==
    /\ TTL \in Nat /\ Timeout \in Nat /\ MaxTime \in Nat
    /\ Timeout < TTL
    /\ Never \in Nat
  BY JwksAssumption DEF Never

(* What the types say that arithmetic needs. *)
Typed ==
    /\ now \in Nat /\ now < Never /\ loadedAt \in Int
    /\ keys \subseteq Keys
    /\ \A k \in Keys : from[k] \in Nat /\ until[k] \in Nat
    /\ \A r \in Requests :
          /\ began[r] \in Nat /\ decidedAt[r] \in Nat
          /\ document[r] \subseteq Keys
          /\ trusted[r] \in BOOLEAN

(* Instants are numbers, and each but the last has a next. *)
LEMMA Numbers ==
    /\ 0 \in Instants
    /\ \A i \in Instants : i \in Nat /\ i < Never /\ (i < MaxTime => i + 1 \in Instants)
  BY JwksAssumption DEF Instants, Never

(* The type invariant as the arithmetic below needs it. *)
LEMMA Types == TypeOK => Typed
<1> SUFFICES ASSUME TypeOK PROVE Typed
  OBVIOUS
<1>1. now \in Nat /\ now < Never
  BY Numbers DEF TypeOK
<1>5. loadedAt \in Int
  <2>1. CASE loadedAt \in Instants
    BY <2>1, Numbers
  <2>2. CASE loadedAt = -TTL
    BY <2>2, Time
  <2> QED
    BY <2>1, <2>2 DEF TypeOK
<1>2. \A k \in Keys : from[k] \in Nat /\ until[k] \in Nat
  BY Numbers, Time DEF TypeOK
<1>3. \A r \in Requests : began[r] \in Nat /\ decidedAt[r] \in Nat
  BY Numbers DEF TypeOK
<1>4. \A r \in Requests : document[r] \subseteq Keys /\ trusted[r] \in BOOLEAN
  BY DEF TypeOK
<1> QED
  BY <1>1, <1>2, <1>3, <1>4, <1>5 DEF TypeOK, Typed

(* An empty cache and an issuer that has published since the start. *)
LEMMA Initially == Init => JwksInv
<1> SUFFICES ASSUME Init PROVE JwksInv
  OBVIOUS
<1>1. TypeOK
  BY JwksAssumption DEF Init, TypeOK, Instants, Never
<1>2. IssuerOK
  BY DEF Init, IssuerOK
<1>3. CacheOK
  BY JwksAssumption DEF Init, CacheOK, Never
<1>4. \A r \in Requests : LoadOK(r) /\ DecidedOK(r)
  <2>1. ASSUME NEW r \in Requests
        PROVE  pc[r] = "start" /\ decidedAt[r] <= now
    BY DEF Init
  <2> QED
    BY <2>1 DEF LoadOK, DecidedOK, Loading
<1> QED
  BY <1>1, <1>2, <1>3, <1>4 DEF Init, JwksInv, TrustedWasPublished, EstablishedIsTrusted

(* The issuer adds a key, which nobody can have read before. *)
LEMMA PublishStep ==
    ASSUME JwksInv, NEW k \in Keys, Publish(k)
    PROVE  JwksInv'
<1>0. /\ TypeOK /\ Typed /\ IssuerOK /\ CacheOK
      /\ \A q \in Requests : LoadOK(q) /\ DecidedOK(q)
      /\ TrustedWasPublished /\ EstablishedIsTrusted
  BY Types DEF JwksInv
<1>1. TypeOK'
  BY <1>0 DEF TypeOK, Publish, cache
<1>2. /\ from[k] = Never /\ from' = [from EXCEPT ![k] = now]
      /\ UNCHANGED <<now, until, keys, loadedAt, pc, kid, began, document, decidedAt, trusted>>
  BY DEF Publish, cache
<1>p. \A j \in Keys : from'[j] = IF j = k THEN now ELSE from[j]
  BY <1>0, <1>2 DEF TypeOK
<1>3. IssuerOK'
  BY <1>0, <1>2, <1>p, Time DEF Typed, IssuerOK
<1>4. CacheOK'
  BY <1>0, <1>2, <1>p, Time DEF Typed, CacheOK
<1>5. ASSUME NEW r \in Requests PROVE LoadOK(r)' /\ DecidedOK(r)'
  <2>1. now <= now /\ ~(now < began[r] /\ began[r] <= now)
    BY <1>0 DEF Typed
  <2>2. pc[r] = "install" => began[r] <= now
    BY <1>0 DEF LoadOK, Loading
  <2>3. pc[r] = "install" =>
           /\ \A j \in document[r] : from'[j] <= now /\ began[r] <= until[j]
           /\ \A j \in Keys : from'[j] < began[r] /\ until[j] = Never => j \in document[r]
    BY <1>0, <1>p, <2>1, <2>2 DEF LoadOK, Typed
  <2> QED
    BY <1>0, <1>2, <2>3 DEF LoadOK, DecidedOK, Loading
<1>6. TrustedWasPublished'
  <2> SUFFICES ASSUME NEW r \in Requests, pc[r] = "decided", trusted[r]
               PROVE  /\ from'[kid[r]] <= decidedAt[r]
                      /\ decidedAt[r] < until[kid[r]] + TTL + Timeout
    BY <1>2 DEF TrustedWasPublished
  <2>1. /\ kid[r] \in Keys /\ decidedAt[r] <= now
        /\ from[kid[r]] <= decidedAt[r]
        /\ decidedAt[r] < until[kid[r]] + TTL + Timeout
    BY <1>0 DEF DecidedOK, TrustedWasPublished
  <2>2. kid[r] # k
    BY <1>0, <1>2, <2>1, Time DEF Typed
  <2> QED
    BY <1>p, <2>1, <2>2
<1>7. EstablishedIsTrusted'
  <2> SUFFICES ASSUME NEW r \in Requests, pc[r] = "decided", ~trusted[r]
               PROVE  \/ decidedAt[r] <= from'[kid[r]] + 2 * Timeout
                      \/ until[kid[r]] <= decidedAt[r]
    BY <1>2 DEF EstablishedIsTrusted
  <2>1. /\ kid[r] \in Keys /\ decidedAt[r] <= now
        /\ \/ decidedAt[r] <= from[kid[r]] + 2 * Timeout
           \/ until[kid[r]] <= decidedAt[r]
    BY <1>0 DEF DecidedOK, EstablishedIsTrusted
  <2> QED
    BY <1>0, <1>p, <2>1, Time DEF Typed
<1> QED
  BY <1>1, <1>3, <1>4, <1>5, <1>6, <1>7 DEF JwksInv

(* It removes one: that only weakens what is said of keys still published. *)
LEMMA WithdrawStep ==
    ASSUME JwksInv, NEW k \in Keys, Withdraw(k)
    PROVE  JwksInv'
<1>0. /\ TypeOK /\ Typed /\ IssuerOK /\ CacheOK
      /\ \A q \in Requests : LoadOK(q) /\ DecidedOK(q)
      /\ TrustedWasPublished /\ EstablishedIsTrusted
  BY Types DEF JwksInv
<1>1. TypeOK'
  BY <1>0 DEF TypeOK, Withdraw, cache
<1>2. /\ until[k] = Never /\ until' = [until EXCEPT ![k] = now]
      /\ UNCHANGED <<now, from, keys, loadedAt, pc, kid, began, document, decidedAt, trusted>>
  BY DEF Withdraw, cache, Published
<1>p. \A j \in Keys : until'[j] = IF j = k THEN now ELSE until[j]
  BY <1>0, <1>2 DEF TypeOK
<1>3. IssuerOK'
  BY <1>0, <1>2, <1>p, Time DEF Typed, IssuerOK
<1>4. CacheOK'
  BY <1>0, <1>2, <1>p, Time DEF Typed, CacheOK
<1>5. ASSUME NEW r \in Requests PROVE LoadOK(r)' /\ DecidedOK(r)'
  BY <1>0, <1>2, <1>p, Time DEF Typed, LoadOK, DecidedOK, Loading
<1>6. TrustedWasPublished'
  <2> SUFFICES ASSUME NEW r \in Requests, pc[r] = "decided", trusted[r]
               PROVE  /\ from[kid[r]] <= decidedAt[r]
                      /\ decidedAt[r] < until'[kid[r]] + TTL + Timeout
    BY <1>2 DEF TrustedWasPublished
  <2>1. /\ kid[r] \in Keys /\ decidedAt[r] <= now
        /\ from[kid[r]] <= decidedAt[r]
        /\ decidedAt[r] < until[kid[r]] + TTL + Timeout
    BY <1>0 DEF DecidedOK, TrustedWasPublished
  <2> QED
    BY <1>0, <1>p, <2>1, Time DEF Typed
<1>7. EstablishedIsTrusted'
  <2> SUFFICES ASSUME NEW r \in Requests, pc[r] = "decided", ~trusted[r]
               PROVE  \/ decidedAt[r] <= from[kid[r]] + 2 * Timeout
                      \/ until'[kid[r]] <= decidedAt[r]
    BY <1>2 DEF EstablishedIsTrusted
  <2>1. /\ kid[r] \in Keys /\ decidedAt[r] <= now
        /\ \/ decidedAt[r] <= from[kid[r]] + 2 * Timeout
           \/ until[kid[r]] <= decidedAt[r]
    BY <1>0 DEF DecidedOK, EstablishedIsTrusted
  <2> QED
    BY <1>0, <1>2, <1>p, <2>1, Time DEF Typed
<1> QED
  BY <1>1, <1>3, <1>4, <1>5, <1>6, <1>7 DEF JwksInv

(* Time passes only while every load is within its Timeout. *)
LEMMA TickStep ==
    ASSUME JwksInv, Tick
    PROVE  JwksInv'
<1>0. /\ TypeOK /\ Typed /\ IssuerOK /\ CacheOK
      /\ \A q \in Requests : LoadOK(q) /\ DecidedOK(q)
      /\ TrustedWasPublished /\ EstablishedIsTrusted
  BY Types DEF JwksInv
<1>1. TypeOK'
  <2>1. now' \in Instants
    BY <1>0, Numbers DEF TypeOK, Tick
  <2> QED
    BY <1>0, <2>1 DEF TypeOK, Tick, cache, issuer
<1>2. /\ now' = now + 1
      /\ UNCHANGED <<from, until, keys, loadedAt, pc, kid, began, document, decidedAt, trusted>>
      /\ \A r \in Requests : Loading(r) => now < began[r] + Timeout
  BY DEF Tick, cache, issuer
<1>3. IssuerOK'
  BY <1>0, <1>2, Time DEF Typed, IssuerOK
<1>4. CacheOK'
  BY <1>0, <1>2, Time DEF Typed, CacheOK
<1>5. ASSUME NEW r \in Requests PROVE LoadOK(r)' /\ DecidedOK(r)'
  <2>1. now \in Nat /\ now' = now + 1 /\ began[r] \in Nat /\ decidedAt[r] \in Nat
    BY <1>0, <1>2 DEF Typed
  <2>2. Loading(r) => now' <= began[r] + Timeout /\ began[r] <= now'
    <3> SUFFICES ASSUME Loading(r) PROVE now' <= began[r] + Timeout /\ began[r] <= now'
      OBVIOUS
    <3>1. now < began[r] + Timeout /\ began[r] <= now
      BY <1>0, <1>2 DEF LoadOK
    <3> QED
      BY <2>1, <3>1, Time
  <2>3. ASSUME NEW k \in Keys, from[k] <= now PROVE from[k] <= now'
    BY <1>0, <2>1, <2>3 DEF Typed
  <2>4. pc[r] = "install" => \A k \in document[r] : from[k] <= now' /\ began[r] <= until[k]
    BY <1>0, <2>3 DEF LoadOK, Typed
  <2>5. LoadOK(r)'
    BY <1>0, <1>2, <2>2, <2>4 DEF LoadOK, Loading
  <2>6. decidedAt[r] <= now'
    <3>1. decidedAt[r] <= now
      BY <1>0 DEF DecidedOK
    <3> QED
      BY <2>1, <3>1
  <2> QED
    BY <1>0, <1>2, <2>5, <2>6 DEF DecidedOK
<1>6. TrustedWasPublished' /\ EstablishedIsTrusted'
  BY <1>0, <1>2 DEF Typed, TrustedWasPublished, EstablishedIsTrusted
<1> QED
  BY <1>1, <1>3, <1>4, <1>5, <1>6 DEF JwksInv

(* An outcome that its two properties allow leaves the rest alone.*)
LEMMA DecideStep ==
    ASSUME JwksInv, NEW r \in Requests, NEW outcome \in BOOLEAN, Decide(r, outcome),
           UNCHANGED <<now, issuer, cache>>,
           kid' \in [Requests -> Keys \cup {NoKey}], kid'[r] \in Keys,
           \A q \in Requests \ {r} : kid'[q] = kid[q],
           outcome => /\ from[kid'[r]] <= now
                      /\ now < until[kid'[r]] + TTL + Timeout,
           ~outcome => \/ now <= from[kid'[r]] + 2 * Timeout
                       \/ until[kid'[r]] <= now
    PROVE  JwksInv'
<1>0. /\ TypeOK /\ Typed /\ IssuerOK /\ CacheOK
      /\ \A q \in Requests : LoadOK(q) /\ DecidedOK(q)
      /\ TrustedWasPublished /\ EstablishedIsTrusted
  BY Types DEF JwksInv
<1>d. /\ pc'[r] = "decided" /\ decidedAt'[r] = now /\ trusted'[r] = outcome
      /\ \A q \in Requests \ {r} :
            /\ pc'[q] = pc[q] /\ kid'[q] = kid[q] /\ began'[q] = began[q]
            /\ document'[q] = document[q]
            /\ decidedAt'[q] = decidedAt[q] /\ trusted'[q] = trusted[q]
      /\ UNCHANGED <<now, from, until, keys, loadedAt>>
  BY <1>0 DEF TypeOK, Decide, issuer, cache
<1>1. TypeOK'
  BY <1>0, Numbers DEF TypeOK, Decide, issuer, cache
<1>2. IssuerOK' /\ CacheOK'
  BY <1>0 DEF Typed, IssuerOK, CacheOK, issuer, cache
<1>3. ASSUME NEW q \in Requests PROVE LoadOK(q)' /\ DecidedOK(q)'
  <2>1. CASE q = r
    <3>1. pc'[q] = "decided" /\ kid'[q] \in Keys /\ decidedAt'[q] <= now'
      BY <1>0, <1>d, <2>1 DEF Typed
    <3> QED
      BY <3>1 DEF LoadOK, DecidedOK, Loading
  <2>2. CASE q # r
    BY <1>0, <1>d, <2>2 DEF LoadOK, DecidedOK, Loading
  <2> QED
    BY <2>1, <2>2
<1>4. TrustedWasPublished'
  <2> SUFFICES ASSUME NEW q \in Requests, pc'[q] = "decided", trusted'[q]
               PROVE  /\ from[kid'[q]] <= decidedAt'[q]
                      /\ decidedAt'[q] < until[kid'[q]] + TTL + Timeout
    BY <1>d DEF TrustedWasPublished
  <2>1. CASE q = r
    BY <1>d, <2>1
  <2>2. CASE q # r
    BY <1>0, <1>d, <2>2 DEF TrustedWasPublished
  <2> QED
    BY <2>1, <2>2
<1>5. EstablishedIsTrusted'
  <2> SUFFICES ASSUME NEW q \in Requests, pc'[q] = "decided", ~trusted'[q]
               PROVE  \/ decidedAt'[q] <= from[kid'[q]] + 2 * Timeout
                      \/ until[kid'[q]] <= decidedAt'[q]
    BY <1>d DEF EstablishedIsTrusted
  <2>1. CASE q = r
    BY <1>d, <2>1
  <2>2. CASE q # r
    BY <1>0, <1>d, <2>2 DEF EstablishedIsTrusted
  <2> QED
    BY <2>1, <2>2
<1> QED
  BY <1>1, <1>2, <1>3, <1>4, <1>5 DEF JwksInv

(* The first look: a fresh key set is at most TTL old, and what it holds    *)
(* was published in the Timeout before it was installed.                    *)
LEMMA LookStep ==
    ASSUME JwksInv, NEW r \in Requests, NEW k \in Keys, Look(r, k)
    PROVE  JwksInv'
<1>0. /\ TypeOK /\ Typed /\ IssuerOK /\ CacheOK
      /\ \A q \in Requests : LoadOK(q) /\ DecidedOK(q)
      /\ TrustedWasPublished /\ EstablishedIsTrusted
  BY Types DEF JwksInv
<1>1. /\ pc[r] = "start" /\ kid' = [kid EXCEPT ![r] = k]
      /\ UNCHANGED <<now, issuer, cache>>
  BY DEF Look
<1>2. /\ kid' \in [Requests -> Keys \cup {NoKey}] /\ kid'[r] = k
      /\ \A q \in Requests \ {r} : kid'[q] = kid[q]
  BY <1>0, <1>1 DEF TypeOK
<1>3. CASE Cached(k)
  <2>1. Decide(r, TRUE)
    BY <1>3 DEF Look
  <2>2. k \in keys /\ now - loadedAt < TTL
    BY <1>3 DEF Cached
  <2>3. from[k] <= now /\ loadedAt <= until[k] + Timeout
    BY <1>0, <2>2 DEF Typed, CacheOK
  <2>4. now < until[k] + TTL + Timeout
    <3>1. now \in Nat /\ until[k] \in Nat /\ loadedAt \in Int
      BY <1>0 DEF Typed
    <3> QED
      BY <2>2, <2>3, <3>1, Time
  <2> QED
    BY <1>1, <1>2, <2>1, <2>3, <2>4, DecideStep
<1>4. CASE ~Cached(k)
  <2>1. /\ pc' = [pc EXCEPT ![r] = "fetch"] /\ began' = [began EXCEPT ![r] = now]
        /\ UNCHANGED <<now, from, until, keys, loadedAt, document, decidedAt, trusted>>
    BY <1>4 DEF Look, issuer, cache
  <2>2. TypeOK'
    BY <1>0, <1>2, <2>1 DEF TypeOK
  <2>3. IssuerOK' /\ CacheOK'
    BY <1>0, <2>1 DEF Typed, IssuerOK, CacheOK
  <2>4. ASSUME NEW q \in Requests PROVE LoadOK(q)' /\ DecidedOK(q)'
    <3>1. CASE q = r
      <4>1. pc'[q] = "fetch" /\ began'[q] = now /\ kid'[q] = k /\ now' = now
        BY <1>0, <1>2, <2>1, <3>1 DEF TypeOK
      <4>2. now <= now /\ now <= now + Timeout
        BY <1>0, Time DEF Typed
      <4> QED
        BY <1>0, <2>1, <4>1, <4>2 DEF LoadOK, DecidedOK, Loading
    <3>2. CASE q # r
      <4>1. pc'[q] = pc[q] /\ began'[q] = began[q] /\ kid'[q] = kid[q]
        BY <1>0, <1>2, <2>1, <3>2 DEF TypeOK
      <4> QED
        BY <1>0, <2>1, <4>1 DEF LoadOK, DecidedOK, Loading
    <3> QED
      BY <3>1, <3>2
  <2>5. TrustedWasPublished' /\ EstablishedIsTrusted'
    BY <1>0, <1>1, <1>2, <2>1 DEF TypeOK, TrustedWasPublished, EstablishedIsTrusted
  <2> QED
    BY <2>2, <2>3, <2>4, <2>5 DEF JwksInv
<1> QED
  BY <1>3, <1>4

(* The issuer answers with what it publishes at this instant. *)
LEMMA FetchStep ==
    ASSUME JwksInv, NEW r \in Requests, Fetch(r)
    PROVE  JwksInv'
<1>0. /\ TypeOK /\ Typed /\ IssuerOK /\ CacheOK
      /\ \A q \in Requests : LoadOK(q) /\ DecidedOK(q)
      /\ TrustedWasPublished /\ EstablishedIsTrusted
  BY Types DEF JwksInv
<1>1. /\ pc[r] = "fetch" /\ pc' = [pc EXCEPT ![r] = "install"]
      /\ document' = [document EXCEPT ![r] = Published]
      /\ UNCHANGED <<now, from, until, keys, loadedAt, kid, began, decidedAt, trusted>>
  BY DEF Fetch, issuer, cache
<1>2. TypeOK'
  BY <1>0, <1>1 DEF TypeOK, Published
<1>3. IssuerOK' /\ CacheOK'
  BY <1>0, <1>1 DEF Typed, IssuerOK, CacheOK
<1>4. \A k \in Published : k \in Keys /\ from[k] <= now /\ until[k] = Never
  BY DEF Published
<1>l. Loading(r) /\ kid[r] \in Keys
  BY <1>0, <1>1 DEF Loading, DecidedOK
<1>5. began[r] <= now /\ now <= began[r] + Timeout /\ began[r] <= Never
  <2>1. began[r] <= now /\ now <= began[r] + Timeout
    BY <1>0, <1>l DEF LoadOK
  <2> QED
    BY <1>0, <2>1, Time DEF Typed
<1>6. \A k \in Keys : from[k] < began[r] /\ until[k] = Never => k \in Published
  BY <1>0, <1>5, Time DEF Typed, Published
<1>7. ASSUME NEW q \in Requests PROVE LoadOK(q)' /\ DecidedOK(q)'
  <2>1. CASE q = r
    <3>1. pc'[q] = "install" /\ document'[q] = Published
      BY <1>0, <1>1, <2>1 DEF TypeOK
    <3> QED
      BY <1>0, <1>1, <1>l, <1>4, <1>5, <1>6, <2>1, <3>1 DEF LoadOK, DecidedOK, Loading
  <2>2. CASE q # r
    <3>1. pc'[q] = pc[q] /\ document'[q] = document[q]
      BY <1>0, <1>1, <2>2 DEF TypeOK
    <3> QED
      BY <1>0, <1>1, <3>1 DEF LoadOK, DecidedOK, Loading
  <2> QED
    BY <2>1, <2>2
<1>8. TrustedWasPublished' /\ EstablishedIsTrusted'
  BY <1>0, <1>1 DEF TypeOK, TrustedWasPublished, EstablishedIsTrusted
<1> QED
  BY <1>2, <1>3, <1>7, <1>8 DEF JwksInv

(* Whatever is installed was read in the last Timeout. *)
LEMMA InstallStep ==
    ASSUME JwksInv, NEW r \in Requests, Install(r)
    PROVE  JwksInv'
<1>0. /\ TypeOK /\ Typed /\ IssuerOK /\ CacheOK
      /\ \A q \in Requests : LoadOK(q) /\ DecidedOK(q)
      /\ TrustedWasPublished /\ EstablishedIsTrusted
  BY Types DEF JwksInv
<1>1. /\ pc[r] = "install" /\ pc' = [pc EXCEPT ![r] = "look again"]
      /\ keys' = document[r] /\ loadedAt' = now
      /\ UNCHANGED <<now, from, until, kid, began, document, decidedAt, trusted>>
  BY DEF Install, LoadTime, issuer
<1>2. TypeOK'
  BY <1>0, <1>1 DEF TypeOK
<1>3. IssuerOK'
  BY <1>0, <1>1 DEF Typed, IssuerOK
<1>4. now \in Nat /\ began[r] \in Nat /\ now <= began[r] + Timeout
  BY <1>0, <1>1, Time DEF Typed, LoadOK, Loading
<1>5. CacheOK'
  <2>1. \A k \in document[r] : k \in Keys /\ from[k] <= now /\ began[r] <= until[k]
    BY <1>0, <1>1 DEF Typed, LoadOK
  <2>2. \A k \in Keys : from[k] < began[r] /\ until[k] = Never => k \in document[r]
    BY <1>0, <1>1 DEF Typed, LoadOK
  <2>3. \A k \in Keys : from[k] \in Nat /\ until[k] \in Nat
    BY <1>0 DEF Typed
  <2>4. \A k \in keys' : from[k] <= now /\ now <= until[k] + Timeout
    <3> SUFFICES ASSUME NEW k \in document[r]
                 PROVE  from[k] <= now /\ now <= until[k] + Timeout
      BY <1>1
    <3>1. /\ from[k] <= now /\ began[r] <= until[k]
          /\ from[k] \in Nat /\ until[k] \in Nat
      BY <2>1, <2>3
    <3> QED
      BY <1>4, <3>1, Time
  <2>5. \A k \in Keys : from[k] + Timeout < now /\ until[k] = Never => k \in keys'
    <3> SUFFICES ASSUME NEW k \in Keys, from[k] + Timeout < now, until[k] = Never
                 PROVE  k \in document[r]
      BY <1>1
    <3>1. from[k] < began[r]
      BY <1>4, <2>3, Time
    <3> QED
      BY <2>2, <3>1
  <2>6. now <= now
    BY <1>4
  <2> QED
    BY <1>1, <2>4, <2>5, <2>6 DEF CacheOK
<1>6. ASSUME NEW q \in Requests PROVE LoadOK(q)' /\ DecidedOK(q)'
  <2>1. CASE q = r
    <3>1. pc'[q] = "look again" /\ Loading(q) /\ kid[q] \in Keys
      BY <1>0, <1>1, <2>1 DEF TypeOK, Loading, DecidedOK
    <3>2. began[q] <= now /\ now <= began[q] + Timeout /\ decidedAt[q] <= now
      BY <1>0, <3>1 DEF LoadOK, DecidedOK
    <3> QED
      BY <1>1, <3>1, <3>2 DEF LoadOK, DecidedOK, Loading
  <2>2. CASE q # r
    <3>1. pc'[q] = pc[q]
      BY <1>0, <1>1, <2>2 DEF TypeOK
    <3>2. pc[q] = "look again" => began[q] <= now
      BY <1>0 DEF LoadOK, Loading
    <3> QED
      BY <1>0, <1>1, <3>1, <3>2 DEF LoadOK, DecidedOK, Loading
  <2> QED
    BY <2>1, <2>2
<1>7. TrustedWasPublished' /\ EstablishedIsTrusted'
  BY <1>0, <1>1 DEF TypeOK, TrustedWasPublished, EstablishedIsTrusted
<1> QED
  BY <1>2, <1>3, <1>5, <1>6, <1>7 DEF JwksInv

(* The second look sees a key set installed since this load began. *)
LEMMA LookAgainStep ==
    ASSUME JwksInv, NEW r \in Requests, LookAgain(r)
    PROVE  JwksInv'
<1>0. /\ TypeOK /\ Typed /\ IssuerOK /\ CacheOK
      /\ \A q \in Requests : LoadOK(q) /\ DecidedOK(q)
      /\ TrustedWasPublished /\ EstablishedIsTrusted
  BY Types DEF JwksInv
<1>1. /\ pc[r] = "look again" /\ Decide(r, Known(r))
      /\ UNCHANGED <<now, issuer, cache, kid>>
  BY DEF LookAgain
<1>2. /\ now \in Nat /\ began[r] \in Nat /\ loadedAt \in Int
      /\ kid[r] \in Keys /\ kid \in [Requests -> Keys \cup {NoKey}]
      /\ from[kid[r]] \in Nat /\ until[kid[r]] \in Nat
  <2>1. kid[r] \in Keys
    BY <1>0, <1>1 DEF DecidedOK
  <2> QED
    BY <1>0, <2>1 DEF TypeOK, Typed
<1>3. now <= began[r] + Timeout /\ began[r] <= loadedAt
  BY <1>0, <1>1 DEF Typed, LoadOK, Loading
<1>4. CASE Known(r)
  <2>1. from[kid[r]] <= now /\ loadedAt <= until[kid[r]] + Timeout
    BY <1>0, <1>4 DEF Typed, CacheOK, Known
  <2>2. now < until[kid[r]] + TTL + Timeout
    BY <1>2, <1>3, <2>1, Time
  <2>3. Decide(r, TRUE)
    BY <1>1, <1>4 DEF Decide, Known
  <2> QED
    BY <1>1, <1>2, <2>1, <2>2, <2>3, DecideStep
<1>5. CASE ~Known(r)
  <2>1. from[kid[r]] + Timeout >= loadedAt \/ until[kid[r]] # Never
    BY <1>0, <1>2, <1>5, Time DEF Typed, CacheOK, Known
  <2>2. until[kid[r]] # Never => until[kid[r]] <= now
    BY <1>0, <1>2 DEF Typed, IssuerOK
  <2>3. now <= from[kid[r]] + 2 * Timeout \/ until[kid[r]] <= now
    BY <1>2, <1>3, <2>1, <2>2, Time
  <2>4. Decide(r, FALSE)
    <3>1. Known(r) = FALSE
      BY <1>5 DEF Known
    <3> QED
      BY <1>1, <3>1
  <2> QED
    BY <1>1, <1>2, <2>3, <2>4, DecideStep
<1> QED
  BY <1>4, <1>5

(* A failed load leaves the cache as it is. *)
LEMMA LoadFailsStep ==
    ASSUME JwksInv, NEW r \in Requests, LoadFails(r)
    PROVE  JwksInv'
<1>0. /\ TypeOK /\ Typed /\ IssuerOK /\ CacheOK
      /\ \A q \in Requests : LoadOK(q) /\ DecidedOK(q)
      /\ TrustedWasPublished /\ EstablishedIsTrusted
  BY Types DEF JwksInv
<1>1. /\ pc' = [pc EXCEPT ![r] = "failed"] /\ kid' = [kid EXCEPT ![r] = NoKey]
      /\ began' = [began EXCEPT ![r] = 0] /\ document' = [document EXCEPT ![r] = {}]
      /\ UNCHANGED <<now, from, until, keys, loadedAt, decidedAt, trusted>>
  BY DEF LoadFails, issuer, cache
<1>2. TypeOK'
  BY <1>0, <1>1, Numbers DEF TypeOK
<1>3. IssuerOK' /\ CacheOK'
  BY <1>0, <1>1 DEF Typed, IssuerOK, CacheOK
<1>4. ASSUME NEW q \in Requests PROVE LoadOK(q)' /\ DecidedOK(q)'
  <2>1. CASE q = r
    <3>1. pc'[q] = "failed"
      BY <1>0, <1>1, <2>1 DEF TypeOK
    <3> QED
      BY <1>0, <1>1, <3>1 DEF LoadOK, DecidedOK, Loading
  <2>2. CASE q # r
    <3>1. /\ pc'[q] = pc[q] /\ kid'[q] = kid[q]
          /\ began'[q] = began[q] /\ document'[q] = document[q]
      BY <1>0, <1>1, <2>2 DEF TypeOK
    <3> QED
      BY <1>0, <1>1, <3>1 DEF LoadOK, DecidedOK, Loading
  <2> QED
    BY <2>1, <2>2
<1>5. TrustedWasPublished' /\ EstablishedIsTrusted'
  BY <1>0, <1>1 DEF TypeOK, TrustedWasPublished, EstablishedIsTrusted
<1> QED
  BY <1>2, <1>3, <1>4, <1>5 DEF JwksInv

(* Nothing happens. *)
LEMMA Stutter ==
    ASSUME JwksInv, UNCHANGED vars
    PROVE  JwksInv'
  BY DEF JwksInv, TypeOK, IssuerOK, CacheOK, LoadOK, DecidedOK, Loading,
         TrustedWasPublished, EstablishedIsTrusted, vars

(* JwksInv holds in every reachable state. *)
THEOREM Invariance == Spec => []JwksInv
<1>1. JwksInv /\ [Next]_vars => JwksInv'
  <2> SUFFICES ASSUME JwksInv, [Next]_vars PROVE JwksInv'
    OBVIOUS
  <2>1. ASSUME NEW k \in Keys, Publish(k) \/ Withdraw(k) PROVE JwksInv'
    BY <2>1, PublishStep, WithdrawStep
  <2>2. ASSUME NEW r \in Requests, Authenticate(r) PROVE JwksInv'
    BY <2>2, LookStep, FetchStep, InstallStep, LookAgainStep, LoadFailsStep DEF Authenticate
  <2>3. CASE Tick
    BY <2>3, TickStep
  <2>4. CASE Done \/ UNCHANGED vars
    BY <2>4, Stutter DEF Done
  <2> QED
    BY <2>1, <2>2, <2>3, <2>4 DEF Next
<1> QED
  BY Initially, <1>1, PTL DEF Spec

(* Every variable of the cache keeps its type. *)
THEOREM TypeCorrect == Spec => []TypeOK
<1>1. JwksInv => TypeOK
  BY DEF JwksInv
<1> QED
  BY <1>1, Invariance, PTL

(* A withdrawn key is trusted for less than TTL + Timeout after that. *)
THEOREM WithdrawnKeysExpire == Spec => []TrustedWasPublished
<1>1. JwksInv => TrustedWasPublished
  BY DEF JwksInv
<1> QED
  BY <1>1, Invariance, PTL

(* A key published for more than 2 * Timeout is refused by no request that  *)
(* meets no fault.                                                          *)
THEOREM EstablishedKeysAreTrusted == Spec => []EstablishedIsTrusted
<1>1. JwksInv => EstablishedIsTrusted
  BY DEF JwksInv
<1> QED
  BY <1>1, Invariance, PTL
=============================================================================
