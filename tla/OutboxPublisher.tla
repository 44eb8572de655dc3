--------------------------- MODULE OutboxPublisher ---------------------------
(***************************************************************************)
(* cmd/evidence-outbox-publisher: run and publishBatch, against the table  *)
(* evidence_outbox and the Kafka topics.                                   *)
(*                                                                         *)
(* The rows are numbered in created_at order.  A row becomes visible when  *)
(* the store's transaction commits, which may be out of that order, since  *)
(* created_at is the time the transaction began.  A publisher holds the    *)
(* row locks of its batch until its transaction ends; UPDATE ... SET       *)
(* published_at is visible to the others only then.  The transaction of a  *)
(* process that was killed, or whose host or network is gone, ends when    *)
(* PostgreSQL notices, and until then other batches skip its rows.         *)
(*                                                                         *)
(* The two topics are counted, not ordered: nothing relates the records of *)
(* one to those of the other.                                              *)
(***************************************************************************)
EXTENDS Integers, FiniteSets

CONSTANTS
    Publishers,    \* running or restarting publisher processes
    LastEvent,     \* the outbox rows are 1 .. LastEvent
    Follows,       \* row -> the package row it is a decision about, or 0
    BatchSize,     \* OUTBOX_BATCH_SIZE
    LastEpoch,     \* bound: the last signing key epoch ever deployed
    MaxFailures,   \* bound: faults in one behaviour
    MaxCopies      \* bound: records of one row in its topic

EventIDs == 1 .. LastEvent
Epochs == 0 .. LastEpoch
NeverStarted == -1

ASSUME OutboxAssumption ==
    /\ LastEvent \in Nat
    /\ Follows \in [EventIDs -> 0 .. LastEvent]
    /\ \A e \in EventIDs : Follows[e] < e
    /\ BatchSize \in Nat \ {0}
    /\ LastEpoch \in Nat
    /\ MaxFailures \in Nat
    /\ MaxCopies \in Nat

VARIABLES
    visible,     \* committed rows of evidence_outbox
    signedWith,  \* row -> key epoch of its envelope's signature
    published,   \* rows whose published_at is committed
    copies,      \* row -> how many records of it the brokers have stored
    pc,          \* where each publisher is
    claimed,     \* publisher -> rows its transaction has locked
    marked,      \* publisher -> rows its transaction has updated
    loaded,      \* publisher -> key epoch it read when it last started
    abandoned,   \* open transactions whose process is gone
    outlived,    \* history: the rows such transactions have ever held
    deployed,    \* the key epoch in the environment of new processes
    failures     \* faults so far

left == <<abandoned, outlived>>
rows == <<visible, signedWith, deployed>>
vars == <<rows, published, copies, pc, claimed, marked, loaded, left, failures>>

Init ==
    /\ visible = {}
    /\ signedWith = [e \in EventIDs |-> 0]
    /\ published = {}
    /\ copies = [e \in EventIDs |-> 0]
    /\ pc = [p \in Publishers |-> "down"]
    /\ claimed = [p \in Publishers |-> {}]
    /\ marked = [p \in Publishers |-> {}]
    /\ loaded = [p \in Publishers |-> NeverStarted]
    /\ abandoned = {}
    /\ outlived = {}
    /\ deployed = 0
    /\ failures = 0

-----------------------------------------------------------------------------
(* The store and the operator. *)

(* enqueueOutbox, committed.  A decision is taken on a package that its     *)
(* transaction has read.                                                    *)
Enqueue(e) ==
    /\ e \notin visible
    /\ Follows[e] \in visible \cup {0}
    /\ visible' = visible \cup {e}
    /\ signedWith' = [signedWith EXCEPT ![e] = deployed]
    /\ UNCHANGED <<published, copies, pc, claimed, marked, loaded, left, deployed, failures>>

(* A new signing key in the environment; the API is restarted with it.      *)
Rotate ==
    /\ deployed < LastEpoch
    /\ deployed' = deployed + 1
    /\ UNCHANGED <<visible, signedWith, published, copies, pc, claimed, marked, loaded, left, failures>>

-----------------------------------------------------------------------------
(* run *)

(* Mutant: the epoch after the one in the environment. *)
NextEpoch == deployed + 1

(* SignerFromEnv *)
EpochFromEnv == deployed

Start(p) ==
    /\ pc[p] = "down"
    /\ pc' = [pc EXCEPT ![p] = "idle"]
    /\ loaded' = [loaded EXCEPT ![p] = EpochFromEnv]
    /\ UNCHANGED <<published, copies, claimed, marked, left, failures, rows>>

(* The process is gone and with it what it knew of its batch. *)
Exit(p) ==
    /\ pc' = [pc EXCEPT ![p] = "down"]
    /\ claimed' = [claimed EXCEPT ![p] = {}]
    /\ marked' = [marked EXCEPT ![p] = {}]
    /\ UNCHANGED <<loaded, rows>>

(* Every error leaves publishBatch through the deferred rollback, run       *)
(* returns it and the process exits: the locks are released.                *)
RollBack(p) == Exit(p) /\ UNCHANGED left

(* No rollback was run, or it did not arrive: the transaction keeps its     *)
(* locks, and what it settles if its COMMIT had arrived.                    *)
Abandon(p, settles) ==
    /\ claimed[p] # {}
    /\ abandoned' = abandoned \cup {[rows |-> claimed[p], settles |-> settles]}
    /\ outlived' = outlived \cup claimed[p]
    /\ Exit(p)

(* The rows that FOR UPDATE SKIP LOCKED skips. *)
Locked == (UNION {claimed[p] : p \in Publishers}) \cup (UNION {t.rows : t \in abandoned})

(* Mutants: rows other transactions have locked; rows that are published    *)
(* already; rows before the last one published are never looked at again.   *)
PendingUnlocked == visible \ published
PendingPublished == visible \ Locked
PendingAfterCursor == {e \in visible \ published : \A f \in published : f < e} \ Locked

(* published_at IS NULL ... FOR UPDATE SKIP LOCKED *)
Pending == (visible \ published) \ Locked

(* ORDER BY created_at LIMIT batchSize *)
IsBatch(batch) ==
    /\ batch \subseteq Pending
    /\ \A e \in batch, f \in Pending \ batch : e < f
    /\ \/ batch = Pending /\ Cardinality(batch) <= BatchSize
       \/ Cardinality(batch) = BatchSize

Poll(p) ==
    /\ pc[p] = "idle"
    /\ Pending = {}
    /\ UNCHANGED vars

Claim(p) ==
    /\ pc[p] = "idle"
    /\ Pending # {}
    /\ \E batch \in SUBSET Pending :
          IsBatch(batch) /\ claimed' = [claimed EXCEPT ![p] = batch]
    /\ pc' = [pc EXCEPT ![p] = "publish"]
    /\ UNCHANGED <<published, copies, marked, loaded, left, failures, rows>>

-----------------------------------------------------------------------------
(* publishBatch, the loop over the pending rows *)

Remaining(p) == claimed[p] \ marked[p]

(* Mutant: the batch in any order. *)
IsAny(p, e) == e \in Remaining(p)

(* The row the loop is at. *)
IsCurrent(p, e) == e \in Remaining(p) /\ \A f \in Remaining(p) : e <= f

(* events.Verify with the public half of the publisher's own key. *)
Verifies(p, e) == signedWith[e] = loaded[p]

(* Mutant: the row is marked before the brokers have acknowledged it. *)
MarkFirst(p, e) ==
    /\ pc[p] = "publish"
    /\ IsCurrent(p, e)
    /\ marked' = [marked EXCEPT ![p] = @ \cup {e}]
    /\ pc' = [pc EXCEPT ![p] = "publish"]
    /\ UNCHANGED <<published, copies, claimed, loaded, left, failures, rows>>

Produce(e) ==
    /\ copies[e] < MaxCopies
    /\ copies' = [copies EXCEPT ![e] = @ + 1]

(* ProduceSync returned without error: all in-sync replicas have it. *)
Publish(p, e) ==
    /\ pc[p] = "publish"
    /\ IsCurrent(p, e)
    /\ IF Verifies(p, e)
       THEN /\ Produce(e)
            /\ pc' = [pc EXCEPT ![p] = "mark"]
            /\ UNCHANGED <<published, claimed, marked, loaded, left, failures, rows>>
       ELSE RollBack(p) /\ UNCHANGED <<published, copies, failures>>

Mark(p, e) ==
    /\ pc[p] = "mark"
    /\ IsCurrent(p, e)
    /\ marked' = [marked EXCEPT ![p] = @ \cup {e}]
    /\ pc' = [pc EXCEPT ![p] = "publish"]
    /\ UNCHANGED <<published, copies, claimed, loaded, left, failures, rows>>

CommitBatch(p) ==
    /\ pc[p] = "publish"
    /\ Remaining(p) = {}
    /\ published' = published \cup marked[p]
    /\ pc' = [pc EXCEPT ![p] = "idle"]
    /\ claimed' = [claimed EXCEPT ![p] = {}]
    /\ marked' = [marked EXCEPT ![p] = {}]
    /\ UNCHANGED <<copies, loaded, left, failures, rows>>

-----------------------------------------------------------------------------
(* Faults *)

Fault == failures < MaxFailures /\ failures' = failures + 1

(* The process dies, or a statement or the produce call fails cleanly. *)
Crash(p) ==
    /\ pc[p] # "down"
    /\ Fault
    /\ RollBack(p) \/ Abandon(p, {})
    /\ UNCHANGED <<published, copies>>

(* The brokers stored the record, the acknowledgement did not arrive. *)
ProduceUnacknowledged(p, e) ==
    /\ pc[p] = "publish"
    /\ IsCurrent(p, e)
    /\ Verifies(p, e)
    /\ Produce(e)
    /\ Fault
    /\ RollBack(p) \/ Abandon(p, {})
    /\ UNCHANGED published

(* COMMIT was sent, its answer did not arrive. *)
CommitUnacknowledged(p) ==
    /\ pc[p] = "publish"
    /\ Remaining(p) = {}
    /\ Fault
    /\ Abandon(p, marked[p])
    /\ UNCHANGED <<published, copies>>

(* PostgreSQL executes the COMMIT it has received, or notices that the      *)
(* connection is gone and rolls back.                                       *)
EndAbandoned(t) ==
    /\ abandoned' = abandoned \ {t}
    /\ published' \in {published, published \cup t.settles}
    /\ UNCHANGED <<copies, pc, claimed, marked, loaded, outlived, failures, rows>>

-----------------------------------------------------------------------------
Run(p) ==
    \/ Start(p)
    \/ Claim(p)
    \/ \E e \in EventIDs : Publish(p, e) \/ Mark(p, e)
    \/ CommitBatch(p)

Faults(p) ==
    \/ Crash(p)
    \/ \E e \in EventIDs : ProduceUnacknowledged(p, e)
    \/ CommitUnacknowledged(p)

(* The model looks no further: a batch that exits at a row of another key   *)
(* epoch is delivered again after every restart, without end.               *)
CutOff == (\E e \in EventIDs : copies[e] = MaxCopies) /\ UNCHANGED vars

LockEnds == \E t \in abandoned : EndAbandoned(t)

Next ==
    \/ \E e \in EventIDs : Enqueue(e)
    \/ Rotate
    \/ \E p \in Publishers : Run(p) \/ Poll(p) \/ Faults(p)
    \/ LockEnds
    \/ CutOff

Spec == Init /\ [][Next]_vars

(* The poll loop keeps running, the supervisor restarts the process, and    *)
(* PostgreSQL ends the transactions of lost connections.                    *)
FairSpec == Spec /\ (\A p \in Publishers : WF_vars(Run(p))) /\ WF_vars(LockEnds)

-----------------------------------------------------------------------------
(* Properties *)

TypeOK ==
    /\ visible \subseteq EventIDs
    /\ signedWith \in [EventIDs -> Epochs]
    /\ published \subseteq visible
    /\ copies \in [EventIDs -> Nat]
    /\ pc \in [Publishers -> {"down", "idle", "publish", "mark"}]
    /\ claimed \in [Publishers -> SUBSET EventIDs]
    /\ marked \in [Publishers -> SUBSET EventIDs]
    /\ loaded \in [Publishers -> Epochs \cup {NeverStarted}]
    /\ abandoned \subseteq [rows : SUBSET EventIDs, settles : SUBSET EventIDs]
    /\ outlived \subseteq EventIDs
    /\ deployed \in Epochs
    /\ failures \in 0 .. MaxFailures

Delivered == {e \in EventIDs : copies[e] > 0}

(* At-least-once: a row is marked published only after the brokers have     *)
(* acknowledged it, whichever process crashes between the two and whoever   *)
(* else publishes.                                                          *)
PublishedIsDelivered == published \subseteq Delivered

(* No row is in the batches of two publishers, dead or alive, nor in a      *)
(* batch once its published_at is committed.                                *)
ClaimsAreExclusive ==
    /\ \A p, q \in Publishers : p # q => claimed[p] \cap claimed[q] = {}
    /\ \A t, u \in abandoned : t # u => t.rows \cap u.rows = {}
    /\ \A p \in Publishers, t \in abandoned : claimed[p] \cap t.rows = {}
    /\ Locked \cap published = {}

(* A row is delivered twice only because something failed in between: row   *)
(* locks keep concurrent publishers off each other's batches, so without    *)
(* faults every event is on the topic at most once.  Once keys have been    *)
(* rotated, an exit at a row of another key has the effect of a fault.      *)
DuplicatesNeedFailures ==
    deployed = 0 => \A e \in EventIDs : copies[e] <= 1 + failures

(* Only one publisher has ever been started, however often it restarted. *)
Alone == \E p \in Publishers : \A q \in Publishers \ {p} : loaded[q] = NeverStarted

(* The brokers have stored a package's event before they store that of the  *)
(* decision on it, however often batches are repeated.  One publisher       *)
(* keeps this order, unless it died with the package's row in its batch:    *)
(* until PostgreSQL notices, its successor skips that row and not the       *)
(* decision.  Two publishers do not, since SKIP LOCKED lets the second      *)
(* overtake.  (In what order a consumer reads two topics is its own affair.) *)
PackageBeforeDecision ==
    Alone => \A e \in Delivered : Follows[e] \in Delivered \cup outlived \cup {0}

Stage(e) ==
    IF e \in published THEN "settled" ELSE IF e \in visible THEN "pending" ELSE "absent"

Delivery ==
    INSTANCE EventDelivery WITH stage <- [e \in EventIDs |-> Stage(e)], topic <- copies

(* Publishers that claim, produce, mark and commit in several steps, crash  *)
(* between any two and are never told of some of their successes, deliver   *)
(* at least once and not after the row was committed as published.          *)
ImplementsDelivery == Delivery!Spec

(* The inductive invariant behind PublishedIsDelivered and                  *)
(* ClaimsAreExclusive: what a publisher's place in publishBatch says about  *)
(* its batch.                                                               *)
BatchOK(p) ==
    /\ marked[p] \subseteq claimed[p]
    /\ claimed[p] \subseteq visible
    /\ pc[p] \in {"down", "idle"} => claimed[p] = {}
    /\ marked[p] \subseteq Delivered
    /\ pc[p] = "mark" => \A e \in EventIDs : IsCurrent(p, e) => e \in Delivered

(* A transaction that outlives its process settles delivered rows or none. *)
LeftOK(t) ==
    /\ t.rows \subseteq visible
    /\ t.settles \subseteq t.rows \cap Delivered

OutboxInv ==
    /\ TypeOK
    /\ PublishedIsDelivered
    /\ ClaimsAreExclusive
    /\ \A p \in Publishers : BatchOK(p)
    /\ \A t \in abandoned : LeftOK(t)

(* No committed row is left behind, also one that became visible after      *)
(* rows with a later created_at were published, as long as the signing key  *)
(* stays the one it was signed with.                                        *)
DrainsUntilRotation ==
    \A e \in EventIDs : (e \in visible) ~> (e \in published \/ deployed # 0)

(* README.md:49 "drains evidence_outbox to Kafka at-least-once": every      *)
(* committed row is published in the end.                                   *)
EverythingIsPublished == \A e \in EventIDs : (e \in visible) ~> (e \in published)
=============================================================================
