# Maritime evidence: TLA+ models and proofs

This directory holds a TLA+ development of the maritime evidence service: the
PostgreSQL evidence store (`internal/evidence`), the HTTP handlers over it and
the object store (`internal/api`, `internal/objstore`), the authenticator and
its realm key cache (`internal/auth`), the outbox publisher
(`cmd/evidence-outbox-publisher`), the migrations (`cmd/evidence-migrate`,
`db/migrations`) and the life of the API process (`cmd/evidence-api`). TLC
checks every module on small instances; TLAPS proves every invariant, the four
refinements and the action property for every value of the constants.
`PROJECT.json` lists the runs, the lines of source behind each definition, the
hazards and the theorems.

    tlc -workers 2 -config StoreContention.cfg MCEvidenceStore
    tlapm EvidenceStoreProofs.tla

## 1. The system

| Component | State | Operations | Hard behaviour |
|---|---|---|---|
| Evidence store, `internal/evidence/store.go`, `db/migrations` | `evidence_packages`, `evidence_validation_history`, `evidence_outbox` | `Create`, `RecordValidation`, `Get`, `List` | several statements per transaction, READ COMMITTED and SERIALIZABLE side by side, unique-index and row-lock waits, lost COMMIT answers, values that come back in another spelling |
| Outbox publisher, `cmd/evidence-outbox-publisher` | `published_at` of each row, Kafka topics, row locks of a batch | `run`, `publishBatch` | crash between acknowledgement and commit, locks that outlive the process, several publishers, rows that become visible out of `created_at` order, key rotation |
| API handlers, `internal/api/server.go` | none of its own between requests | create, read, validate, confirm upload, list | each handler makes two or three calls to two stores; others run between them |
| Object store client, `internal/objstore` | retained objects, presigned URLs that have not expired | `PresignedUpload`, `PresignedDownload`, `VerifyDigest` | uploads late, repeated, after the confirmation |
| Authenticator, `internal/auth/auth.go` | `keys`, `loadedAt` | `Authenticate`, `key`, `loadKeys`, `RequireRoles`, `ClearanceCovers` | the lock is released while the key set is fetched; a dozen checks of which each alone keeps somebody out |
| Migrations, `cmd/evidence-migrate`, `db/migrations` | the schema, the rows it changes | apply one file | no record of what was applied, any order, aborts, two releases at work |
| API process, `cmd/evidence-api` | listener, pool, signal context | start, serve, shut down | the shutdown goroutine is not waited for; signals at any point |
| Domain model, `internal/evidence/model.go` | none | `Validate` of both requests | pure |
| Event envelope and signing, `internal/events` | none | build, sign, verify | pure |
| Configuration, `internal/config` | none | `FromEnv` | sequential |

Interactions: a handler calls the store, then the object store, in one request;
the store writes the outbox rows in the transaction of the change they
announce; the publisher reads these rows through the database only; clients
talk to the object store directly with the URLs the handlers gave them.

What makes each part correct:

* store: one package per tenant and key, at most one terminal decision, the
  three tables never disagree, acknowledgements stay true, every call returns;
* publisher: at least once, no event in two batches, everything is published
  in the end, and one publisher keeps a decision behind its package, unless it
  died with the package's row in its batch;
* API with object store: only recorded content in the bucket, what was
  confirmed is retained, nothing is shown or decided past the tenant and
  clearance gates although these are checked once, on a row read earlier, but
  for the package a creator has described itself;
* list: no row falls between two pages;
* key cache: a withdrawn key is trusted only for a bounded time, an established
  one always;
* migrations: the schema is what the committed files add up to, one decision
  per package and one key per scope across releases;
* process: a stop tears no transaction, SIGTERM always ends it.

## 2. Modules

| Module | Models | Depends on |
|---|---|---|
| `EvidenceData` | rows, requests, events and custody chains as data | |
| `EvidenceLedger` | abstract specification: a package is received and decided in indivisible steps | `EvidenceData` |
| `EvidenceStore` | `Store.Create` and `Store.RecordValidation`, one action per SQL statement | `EvidenceData` |
| `EvidenceStoreProperties` | properties, inductive invariant, `Ledger == INSTANCE EvidenceLedger` | `EvidenceStore` |
| `EvidenceStoreProofs`, `EvidenceAnswersProofs` | the tables; the answers | `EvidenceStoreProperties` |
| `EventDelivery` | abstract specification: delivery at least once | |
| `OutboxPublisher`, `OutboxPublisherProofs` | `run` and `publishBatch` with properties; proofs | `EventDelivery` |
| `Authentication` | `OIDCAuthenticator.Authenticate` and the clearance ladder, as operators on tokens | |
| `EvidenceAPIData` | requests, principals, answers and uploads as data | `EvidenceData`, `Authentication` |
| `EvidenceService` | abstract specification: a service with one ledger and one bucket that acts and answers in indivisible steps | `EvidenceAPIData`, `EvidenceLedger` |
| `EvidenceAPI` | four handlers, uploads, object store, composed with `EvidenceLedger` | `EvidenceAPIData`, `EvidenceLedger` |
| `EvidenceAPIProperties`, `EvidenceAPIProofs` | properties, inductive invariant, `Service == INSTANCE EvidenceService`; proofs | `EvidenceAPI`, `EvidenceService` |
| `Listing`, `ListingProofs` | `Store.List`, `listPackages` and a client that pages; proofs | |
| `JwksCache`, `JwksCacheProofs` | `OIDCAuthenticator.key` and `loadKeys` with properties; proofs | |
| `SchemaHistory` | abstract specification: each file takes effect once and whole, a package is received in one scope and decided once | |
| `Migrations`, `MigrationsProofs` | the four files and two releases at work; proofs | `SchemaHistory` |
| `ServerProcess`, `ServerProcessProofs` | `run` of `cmd/evidence-api`; proofs | |
| `MC*` | values for TLC | |

Definitions whose comment starts with "Mutant" are the forms a plausible bug
would give a definition; no specification uses them.

### The store and what PostgreSQL does

Each call in `Calls` is one handler invocation that runs once; a client that
retries makes another call with the same request. `pc[c]` is the statement that
comes next, `tx[c]` the uncommitted writes, `snapshot[c]` what the transaction
has read. A transaction's writes reach the tables only in `Commit` or
`CommitUnacknowledged` (the server commits, the answer is lost); `Rollback`,
the deferred one of the code, drops them.

* `INSERT ... ON CONFLICT (tenant_id, idempotency_key) DO NOTHING`
  (`InsertPackage`) waits while another transaction holds an uncommitted row
  with the same pair, then either finds it committed (no row returned:
  `LookupRetained`) or inserts. READ COMMITTED gives the second SELECT a new
  snapshot, so it finds the row.
* `RecordValidation` is SERIALIZABLE: `LoadForValidation` takes the snapshot
  all its reads use (`ReadHistory`), `InsertTerminal` waits for and is refused
  by the partial unique index of migration 0002, `UpdateStatus` is refused when
  the row has a version the snapshot does not see or when the trigger of
  migration 0004 does not admit the change.
* `Enqueue` is refused by the row-level security policy when the session does
  not assert `app.evidence_service` (`AssertedCalls` are the calls on
  connections `ConfigurePool` prepared); without `WithEvents` it writes nothing
  (`EventsWired`).
* A fault (`Fail`) is possible at every statement. A spurious serialization
  failure is one of them.
* `StoredKey` and `StoredMetadata` are what a UUID column (lower case) and a
  `TIMESTAMPTZ` column (microseconds) give back for what was sent;
  `createRequestMatchesPackage` compares the two.
* `ReadHistory` takes the status of any row of the snapshot as the latest:
  `occurred_at` is the caller's. Its two SELECTs are one step, since both read
  the one snapshot.

### The publisher

Rows are numbered in `created_at` order and become visible in any order, a
decision after its package. `claimed[p]` is what `FOR UPDATE SKIP LOCKED`
locked, `marked[p]` the `UPDATE`s not yet committed, `copies` how many records
of each row the brokers have stored. There are two topics, and nothing orders
the records of one among those of the other, so the model only counts them.

Every error leaves `publishBatch` through the deferred rollback and `run`
through its return, so the locks are released (`RollBack`), the process exits
and is restarted (`Start`), when it reads the key epoch of its environment
(`loaded`). A row whose envelope was signed with another epoch makes it exit at
that row. When the process is killed, or its host or network is gone, nobody
runs the rollback (`Abandon`): the transaction goes on holding its row locks
(`Locked`), and a restarted publisher skips these rows, until PostgreSQL notices
(`EndAbandoned`); when the COMMIT had been sent it may still take effect then.
`outlived` is the history of the rows such transactions held.

That is the one way in which a single publisher lets a decision overtake its
package: its successor skips the locked row of the package and publishes the
decision. `PackageBeforeDecision` says that there is no other; without
`outlived` in it TLC finds this one in eight steps.

`EventDelivery` knows neither processes, locks nor epochs: a row is recorded,
delivered any number of times while it is pending, and settled with its batch
once all of it was delivered. `Delivery` maps `visible` and `published` to a
row's stage and `copies` to its records in the topic; `ImplementsDelivery` says
that every behaviour of any number of publishers is one of these.

### Authentication

A token is a record of the claims and of which key really signed it;
`Authenticates` is the conjunction of the checks of `Authenticate` at an
instant, `PrincipalOf` what becomes of the claims: an absent clearance is
`public`, roles are those of the realm and of every client. Texts are taken as
they are after `TrimSpace`; a token that is no JWT is one more that is refused.
`EvidenceAPI` takes its callers from here: `Admit` is for the principal of a
token that authenticates, `Unauthenticated` for one that does not.
`DecisionsAreAuthorised` asks for a token that the realm made (`Issued`), claim
by claim and in words of its own, so that a check which is missing is noticed;
every token the run refuses would be an administrator's but for one claim.

### The API

A store call is one step of `EvidenceLedger`: `EvidenceStore` is shown to
implement it. An answer lost by the database is `CreateUnacknowledged` or
`DecisionUnacknowledged`, an error without effect is `Fail`. A package's
metadata is digest, classification, `received_at` and object key; key and time
come back from the columns as `StoredKey` and `StoredMetadata` say. The bucket is
fixed, so the error of `objectKey` (a location in another bucket) cannot occur,
nor, since packages are never deleted, can "not found" after a load. A
presigned PUT is a pair (key, digest) in `uploads` that may be used any number of
times until it expires. The object store accepts only bytes with the signed
digest. The tenant and clearance gates are on the row `LoadPackage` read;
`ReloadPackage` has none, as in the code. Nor has `createPackage` a clearance
gate: a writer below the label of a package is answered 201 and 200 with it
(`server.go:131` to `154`), although the package comment says that every read
enforces the clearance floor (`server.go:4`). A POST may not be a read in the
sense of that comment, so no run states it as a violation; instead
`ReadsAreCleared` covers these answers too and says how far they go: what is
shown above the caller's clearance has the digest and classification the caller
has just sent, and only its status is news. `RejectBody` stands for `decodeJSON`
and the validators, before the creation but after the load of a validation.

`EvidenceService` has no handlers, only what a client can tell: a request is
asked, has at most one effect (a package entered or decided), and is told
something in one step in which it is so. A package is shown to a caller whose
tenant has it and whose clearance covers it at that instant, as it is or as it
was before its decision; a confirmation is told while the bucket holds the
recorded bytes; "not found" is told only of what the tenant does not have, and
of that never "forbidden", whatever the clearance. The refinement maps `pc` and
`record` to `effect`: the package of a handler that is at "presign_new" or
"reload". A load that passes the gates is a stutter of the service: what it
found still holds when the handler acts on it and when it answers.

### The list

Ids are numbers because they break ties in `ORDER BY received_at DESC,
evidence_package_id`; `received_at` is the creator's, so a new row may appear at
any position. The walk advances its offset by the limit the response reports
and stops at the first empty page.

### The key cache

Time is counted in whole units. A load, from the decision to fetch to the last
look into the cache, takes at most `Timeout` (the `http.Client`'s, ten seconds;
the few instructions after the body was read are counted in), and
`TTL` is five minutes. The issuer answers a fetch with what it publishes at one
instant of the load. `Install` overwrites whatever other loads installed.

### The migrations

Each statement of the four files that makes or drops a table, a column, a
constraint, a unique index, the trigger or the policy is what it needs, drops
and adds; the `UPDATE` of 0004 parks the rows without a tenant. Left out are
`CREATE EXTENSION` and the plain indexes of 0001, the exchange of one of these in
0004, and `DROP DEFAULT` of 0004: an insert that names no tenant is refused
after 0004 either way, by `NOT NULL` without the default and by the next
statement's CHECK on blank tenants with it (`TenantNotNeeded`). A file is one
transaction, which `Begin` starts,
`Execute` advances and `Commit` or `Abort` ends; the operator chooses any file
at any time. It locks the tables it changes, so the calls of the two releases
are steps between runs: the release before tenancy inserts without a tenant and
decides without touching the status, the present one needs the outbox and the
tenant index, and updates the status. `applied` and the `release` of a decision
are history variables.

`SchemaHistory` keeps only `applied`, `rows` and `decisions`: a file happens
once, as a whole, 0001 before the others, and 0004 parks the rows; a package is
received with a tenant if and only if there is tenancy, and decided once. What
a run did before its commit, and whether it aborts, cannot be seen in it.

### The API process

`Main` is the main goroutine of `run` from the environment to the exit
(`Configure` is all of it before the pool, a SIGTERM in which is pending after it),
`Shutdown` the goroutine that waits for the signal. A request is sent, runs,
visits the database up to `MaxVisits` times on a pooled connection and is
answered. `ListenAndServe` returns as soon as `Shutdown` begins and `run` does
not wait for it, so what keeps a transaction whole is only the deferred
`pool.Close`, which waits for the connections that are out (`CloseReturns`).
`Remains` says what becomes of requests when the process is gone: a running
handler is cut off, one that holds a connection is torn.

## 3. Runs

| Run | Instance | Shows |
|---|---|---|
| `StoreContention` | 4 calls, one on an unprepared connection, one tenant, 2 spellings of a key, 3 of the content, 2 packages | `TypeOK`, seven invariants of tables and answers, `HoldersNeverWait` |
| `StoreRefinement` | 3 calls, 2 tenants, 2 spellings of a key, `FairSpec` | `ImplementsLedger`, `RowsImmutable`, `EveryCallReturns` |
| `StoreRepeat` | 2 calls | violation of `RepeatReturnsOriginal` |
| `StoreSecondDecision` | 3 calls | violation of `SecondDecisionIsTerminal` |
| `OutboxTwoPublishers` | 2 publishers, 3 rows, batches of 2, 2 faults, one rotation, up to 3 records of a row, `FairSpec` | five invariants, `ImplementsDelivery`, `DrainsUntilRotation` |
| `OutboxRotation` | 1 publisher, 2 rows, no fault, `FairSpec` | violation of `EverythingIsPublished` |
| `APIHandlers` | 3 requests, 5 callers in 2 tenants and 12 tokens that are refused, 2 packages, 4 creations of one key in 2 spellings with 2 digests, 2 labels and 2 precisions of time | `TypeOK`, six invariants of handlers and object store, `ImplementsService` |
| `APISharedKey` | 3 requests, 2 tenants | violation of `RawEvidenceIsRetained` |
| `ListingWalk` | 4 packages, 2 tenants, 2 times, 2 ranks, 5 limit parameters | `NoneSkipped`, `EmptyPageIsTheEnd` |
| `JwksLoads` | 3 requests, 2 keys, TTL 2, Timeout 1, 5 instants | `TypeOK`, `TrustedWasPublished`, `EstablishedIsTrusted` |
| `MigrationsAnyOrder` | 3 packages, 2 tenants, 2 keys, 4 files any number of times | `SchemaIsApplied`, `DecidedOnce`, `StatusTellsDecision`, `ScopesHold`, `ImplementsHistory` |
| `ProcessStops` | 3 requests, 2 connections, up to 3 visits, `FairSpec` | `OrderlyStopTearsNothing`, `TerminationEnds` |

Why the bounds are enough:

* Two calls race for a key or for a decision; the third is the retry of one of
  them, or the call that finds the package decided; the fourth is on a
  connection without the session context. Two identifiers are all that one
  tenant with one key (in two spellings) could misuse; two tenants are in
  `StoreRefinement`.
* Two publishers and three rows give batches that overlap, skip and repeat; a
  publisher that never starts leaves the other alone, which is what
  `PackageBeforeDecision` is about. With two faults a row is stored at most
  three times before a rotation, and `MaxCopies` is 3, so `CutOff` (where the
  model stops looking) hides no delivery before one; `MaxFailures`, `MaxCopies`
  and `LastEpoch` are bounds of the model.
* `APIHandlers` has one idempotency key, so that all creations meet, in lower and
  in upper case; the one writer is below the label of most of what it creates.
  Events are off, as the announcements are `EvidenceStore`'s.
* Four rows are two pages and a remainder at the limits used (1 and 2).
* With TTL 2 and Timeout 1 the bounds of the two key properties are met: both
  fail when they are made one unit tighter.
* Three packages are one created before 0004 and parked, one that competes with
  it, and one in another tenant or decided by the other release.
* Three requests on two connections: one waits for a connection when the pool
  closes; three visits are what `recordValidation` makes.

Symmetry is used over calls, packages, tenants, keys and digests, in runs of
invariants and of the two step properties `ImplementsService` and
`ImplementsHistory`, which treat the permuted values alike: they are of the form
`Init /\ [][Next]_vars`, a statement about single steps, and a permutation of a
step that satisfies it satisfies it. No liveness run uses symmetry. Where one
call differs (`AssertedCalls`) only the others are permuted.

Deadlock is checked in every run: `Idle`, `Poll`, `Over`, `Done`, `Rest` and
`CutOff` are the states in which the system rests.

### Fairness

* `EvidenceStore!FairSpec`: `WF_vars(Run(c))` for each call. A goroutine that
  has a request executes its next statement, and PostgreSQL wakes it when the
  transaction it waits for ends. No call has to arrive; nothing has to fail or
  not to fail. `EveryCallReturns` then says that the waits for index entries
  and rows are never circular; `HoldersNeverWait`, which needs no fairness, says
  why: a call that waits holds nothing that another one could wait for.
* `OutboxPublisher!FairSpec`: `WF_vars(Run(p))`. The poll loop runs as long as
  the process, and the supervisor starts the process again after an exit.
  `WF_vars(LockEnds)`: PostgreSQL notices a dead connection in the end (TCP
  keepalive) and ends its transaction. Faults are bounded, rotations too.
* `ServerProcess!FairSpec`: weak fairness of the main goroutine, of the
  shutdown goroutine and of each handler that has begun: the Go scheduler runs
  them, and a statement ends, with an error if need be. Nobody has to send a
  request or a signal. Without the handlers' fairness `pool.Close` could wait
  for ever.

## 4. Statements of the documents that the code does not keep

* `StoreRepeat`: repeating a request that was answered 201 is answered 409 when
  the key was sent in upper case or `received_at` with nanoseconds:
  `createRequestMatchesPackage` (`store.go:171`) compares what was sent with what
  the columns return. `integration/README.md:15` says that repeating a key
  returns the original package. For requests in the database's own spelling
  `ConflictIsReal` shows that a 409 is always about the content.
* `StoreSecondDecision`: a decision that loses a race is refused by the unique
  index and answered 500; `README.md:31` says a second terminal decision is 409.
* `OutboxRotation`: rows signed under the previous key epoch and not published
  when the key is rotated block the publisher for good; `README.md:49` says it
  drains the outbox at-least-once.
* `APISharedKey`: the object key is derived from the idempotency key alone
  (`server.go:323`), while migration 0004 makes that unique only per tenant.
  The second tenant's upload replaces the first tenant's confirmed bytes;
  `README.md:3` says raw evidence is retained. `ConfirmedIsRetained` shows that
  this is the only way to lose confirmed bytes.

Three more are of no run. `README.md:62` lists the migrations up to 0003, with
which the present release can create nothing (`Migrations`, `Create`: it needs
the tenant index). `integration/README.md:11` to `19` speaks of two migrations and of a
package row that keeps `received` for good, which migration 0004 changed: the
row takes the decision (`StatusTellsDecision`).

## 5. Proofs

Assumptions are the named `ASSUME`s of the modules; TLC evaluates each of them
in every run of the module. They are weak: identifiers that stand for nothing
are no identifiers, the two "stored" maps are idempotent and leave an object
key, a digest and a label alone, `Timeout < TTL`, a row follows an earlier one, limits are positive.

**`EvidenceStoreProofs`**, for any number of calls, packages, tenants, keys and
contents, prepared or not, with or without events: `TypeCorrect`,
`TablesAlwaysAgree`, `KeysAreUnique`, `StoreImplementsLedger`, `WaitsAreShort`.
The tables alone
are not inductive: that a commit keeps them in agreement depends on what the
uncommitted writes are. `IInv` adds, for each statement a call may be at, what
its `tx` holds and that the package it wrote is still free or undecided
(`StatementOK`), and that the writes of two calls are apart: they are about
different packages, and two creations have different tenants or keys (`Apart`).
`Apart` is what the index waits give. The refinement follows: only a commit
changes the tables, and by `StatementOK` it changes them as `Receive` or
`Decide` does; every other step stutters. `WaitsAreShort` follows from the same
invariant: a creation waits with its first statement, before it has written
anything, and a decision that holds the index entry finds no other transaction
with the row, since whoever would have it would have had the entry first.

**`EvidenceAnswersProofs`** builds on it: `RowsAreImmutable`, `AnswersStayTrue`,
`AtMostOneWinner`, `ConflictsAreReal`, `DecisionsAreAuthored`,
`AnnouncingFailsClosed`. By the refinement a step of the tables only receives
one package or decides one, so the tables grow, and `RowsImmutable` is that
growth. `AnswersInv` adds to `IInv` what each call was told (`ToldTrue`) or has
read (`ReadTrue`) in a form that growth keeps, that only prepared connections
announce (`MayAnnounce`), and for each package and each decision the call that
wrote it (`AuthorsKnown`); `OneWinner` is inductive only next to the latter.

**`EvidenceAPIProofs`**, for any number of requests, tokens, tenants, packages,
keys and uploads: `TypeCorrect`, `BucketIsRecorded`, `ConfirmationsLast`,
`ReadersAreCleared`, `DecidersAreAuthorised`, `DecisionsAreShown`,
`RepeatsFindPackages`. The gates look once, so `APIInv` says what is still
true later: the record a handler has in hand is the package as it is now up to
its status (`Kept`), it passed the gates (`Cleared`) or has what a creation sent
(`Names`), a package that a creation
answered about is there to be found (`Found`), and at "reload" the decision
just made stands (`DecidedAs`). Every grant and every object goes back to a
committed package (`Recorded`), every decision to the handler that made it,
acknowledged or not (`AuthorOf`). That an upload keeps what was confirmed
rests on `KeysOK`: within a tenant the object key is the package's own.
`RepeatsFindPackages` assumes nothing of the columns; the property is about
requests they return as they were sent, and `StoreRepeat` shows why it must be.
`DecidersAreAuthorised` goes back to the token that let the caller in
(`CallerIsKnown`).

`HandlersAreOneService` is the refinement of `EvidenceService`. It rests on `APIInv` in two ways: at every answer the row in hand is
a version of the package as it is now (`Kept`) and still passes the gates
(`Cleared`), and between its effect and its answer a creation or a decision has
that package in hand (`InHand`), so that the effect it is told of is its own.
One lemma per action shows which step of the service it is; admission maps to
`Ask`, the store calls that commit to `Receive` or `Decide`, every answer to
`Authorise`, `Show` or `TurnDown`, and a load that passes to a stutter.

**`OutboxPublisherProofs`**, for any number of publishers, rows, batch size,
epochs and faults: `TypeCorrect`, `AtLeastOnce`, `BatchesNeverOverlap`,
`OutboxImplementsDelivery`, `PackagesComeFirst`, `DuplicatesAreAccounted`.
`OutboxInv` adds that what is marked has been delivered, that at "mark" the
current row has been, that what is marked is claimed and what is claimed is
visible (`BatchOK`), and that a transaction left behind settles only delivered
rows of its own (`LeftOK`). `OrderInv` adds, for a publisher that is alone, that a
batch holds the packages of its decisions unless they are published or were in a
transaction that outlived the publisher. `CountInv`
adds that, before a rotation, a row delivered more often than there were faults
is published, marked or about to be (`Accounted`), which nobody's next row is.

**`ListingProofs`**, for any number of packages, any limits and limit
parameters: `WalksSkipNothing`, `EmptyPagesEndWalks`. In every order the
database may return, the place of a row is the number of rows before it
(`PlaceInListing`), creations only raise that number, and a page that does not
show a row has passed none it should have shown.

**`JwksCacheProofs`**, for any number of requests and keys, any TTL longer than
the Timeout and any horizon: `TypeCorrect`, `WithdrawnKeysExpire`,
`EstablishedKeysAreTrusted`. `JwksInv` says that the cache is what the issuer
published at an instant within the last Timeout before `loadedAt` (`CacheOK`),
which follows from the same statement about the document a load holds and
the time since it began (`LoadOK`), whoever installs last.

**`MigrationsProofs`**, for any number of packages, tenants and keys:
`OneDecision` and `StatusIsTold` from `DecisionsInv` (a run changes rows only
as `Park` does), `SchemaIsWhatWasApplied` and `ScopesAlwaysHold` from
`SchemaInv`, which describes the uncommitted schema of a run by the committed
one and the statements executed so far (`RunOK`). `FilesAreAHistory` is the
refinement of `SchemaHistory`: a commit is the application of its file, since
`RunOK` says which files the committed schema must hold for all its statements
to have been executed; a call of either release is a receipt or a decision, since
`DecisionsInv` and `SchemaInv` say what it may rely on; all else stutters.

**`ServerProcessProofs`**, for any number of requests, connections and visits:
`OrderlyStop`, from `ProcessInv`: there is no handler before the pool, and
after it the process ends only when no connection is out, or by force.

**Only model-checked**: liveness (`EveryCallReturns`, `DrainsUntilRotation`,
`TerminationEnds`), which needs fairness and ENABLED and is out of the prover's
reach. Everything else the passing runs check is proved.

## 6. Not modelled

* `internal/config`: one pass over the environment without state that others
  see; its list limits are an assumption of `Listing`. The health endpoints of
  the API have no state.
* The field validators of `model.go` are the alternative `RejectBody` of
  `EvidenceAPI`: which texts they refuse matters to no property here.
* `internal/events`: building the FHIR bundle, JCS and JWS are wording and
  encoding; what the publisher needs of them is "verifies under epoch".
* `TrustedProxyAuthenticator`, which no command wires. Base64url and JSON
  decoding of tokens and the RSA arithmetic are "which key signed it".
* `Config.Validate` and `ParseLocation` of the object store client: pure, and
  the API does not call the latter.
* PostgreSQL, Kafka, the realm and the object store are external: only what the
  code relies on is modelled, as described in section 2.
* Statements of calls between the statements of a migration: the file's locks
  keep them apart, as the comment of `Migrations` argues.

## 7. Plan

Done: the store with its ledger, the publisher with its delivery, the API over
both stores with its service, the list, the key cache, authentication, the
migrations with their history, the process, and the proofs of section 5. What
could follow:

1. The validators of `model.go` as operators on abstract fields, so that
   `RejectBody` gets a guard, and with it which spellings of a key are accepted.
2. `EvidenceAPI` with two object keys per tenant in a run, for uploads of two
   packages at a time (the proofs already cover it).
3. The key cache and the clock of `Authenticate` in one model, so that a token
   is accepted by the key set of its instant.
