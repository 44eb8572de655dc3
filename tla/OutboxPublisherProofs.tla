------------------------ MODULE OutboxPublisherProofs ------------------------
(***************************************************************************)
(* Proofs, for every number of publishers, rows, key epochs and faults,    *)
(* that a row marked published is on its topic and that no two publishers  *)
(* hold the same row.                                                      *)
(***************************************************************************)
EXTENDS OutboxPublisher, TLAPS

(* A record more is a delivery more of its row alone, and none is lost.     *)
LEMMA ProduceDelivers ==
    ASSUME copies \in [EventIDs -> Nat], NEW e \in EventIDs, Produce(e)
    PROVE  /\ copies' \in [EventIDs -> Nat]
           /\ Delivered' = Delivered \cup {e}
           /\ \A f \in EventIDs : copies'[f] = IF f = e THEN copies[f] + 1 ELSE copies[f]
<1>1. copies' = [copies EXCEPT ![e] = @ + 1]
  BY DEF Produce
<1>2. \A f \in EventIDs : copies'[f] = IF f = e THEN copies[f] + 1 ELSE copies[f]
  BY <1>1
<1>3. copies' \in [EventIDs -> Nat]
  BY <1>1
<1>4. \A f \in EventIDs : copies[f] \in Nat
  OBVIOUS
<1> QED
  BY <1>2, <1>3, <1>4 DEF Delivered

(* The loop is at one row at a time. *)
LEMMA CurrentIsUnique ==
    ASSUME NEW p, NEW e \in EventIDs, NEW f \in EventIDs, IsCurrent(p, e), IsCurrent(p, f)
    PROVE  e = f
  BY OutboxAssumption DEF IsCurrent, EventIDs

(* No publisher holds anything before it has started. *)
LEMMA Initially == Init => OutboxInv
<1> SUFFICES ASSUME Init PROVE OutboxInv
  OBVIOUS
<1>1. TypeOK
  BY OutboxAssumption DEF Init, TypeOK, Epochs
<1> QED
  BY <1>1 DEF Init, OutboxInv, PublishedIsDelivered, ClaimsAreExclusive, Locked, BatchOK

(* What a batch is when its publisher is gone. *)
LEMMA ExitStep ==
    ASSUME OutboxInv, NEW p \in Publishers, Exit(p)
    PROVE  /\ pc' \in [Publishers -> {"down", "idle", "publish", "mark"}]
           /\ claimed' \in [Publishers -> SUBSET EventIDs]
           /\ marked' \in [Publishers -> SUBSET EventIDs]
           /\ pc'[p] = "down" /\ claimed'[p] = {} /\ marked'[p] = {}
           /\ \A q \in Publishers \ {p} : UNCHANGED <<pc[q], claimed[q], marked[q]>>
           /\ UNCHANGED <<loaded, rows>>
  BY DEF OutboxInv, TypeOK, Exit

(* Leaving publishBatch with the rollback: the batch is free again, and     *)
(* what was delivered stays so.                                             *)
LEMMA RollBackStep ==
    ASSUME OutboxInv, NEW p \in Publishers, RollBack(p), UNCHANGED published,
           copies' \in [EventIDs -> Nat], Delivered \subseteq Delivered',
           failures' \in 0 .. MaxFailures
    PROVE  OutboxInv'
<1>1. Exit(p) /\ UNCHANGED left
  BY DEF RollBack
<1>2. TypeOK'
  BY <1>1, ExitStep DEF OutboxInv, TypeOK, rows, left
<1>3. PublishedIsDelivered' /\ ClaimsAreExclusive'
  BY <1>1, ExitStep DEF OutboxInv, PublishedIsDelivered, ClaimsAreExclusive, Locked, left
<1>4. \A q \in Publishers : BatchOK(q)'
  BY <1>1, ExitStep DEF OutboxInv, TypeOK, rows, BatchOK, IsCurrent, Remaining
<1>5. \A t \in abandoned' : LeftOK(t)'
  BY <1>1, ExitStep DEF OutboxInv, LeftOK, rows, left
<1> QED
  BY <1>2, <1>3, <1>4, <1>5 DEF OutboxInv

(* Leaving it without: the transaction keeps the batch, and settles what    *)
(* was delivered if it settles anything.                                    *)
LEMMA AbandonStep ==
    ASSUME OutboxInv, NEW p \in Publishers, NEW settles \in {{}, marked[p]}, Abandon(p, settles),
           UNCHANGED published,
           copies' \in [EventIDs -> Nat], Delivered \subseteq Delivered',
           failures' \in 0 .. MaxFailures
    PROVE  OutboxInv'
<1> DEFINE mine == [rows |-> claimed[p], settles |-> settles]
<1>1. /\ Exit(p)
      /\ abandoned' = abandoned \cup {mine} /\ outlived' = outlived \cup claimed[p]
  BY DEF Abandon
<1>2. settles \subseteq claimed[p] \cap Delivered /\ claimed[p] \subseteq visible
  BY DEF OutboxInv, BatchOK
<1>3. claimed[p] \in SUBSET EventIDs /\ settles \in SUBSET EventIDs
  BY <1>2 DEF OutboxInv, TypeOK
<1>4. TypeOK'
  BY <1>1, <1>3, ExitStep DEF OutboxInv, TypeOK, rows
<1>5. PublishedIsDelivered'
  BY DEF OutboxInv, PublishedIsDelivered
<1>6. ClaimsAreExclusive'
  <2>1. \A t \in abandoned : claimed[p] \cap t.rows = {}
    BY DEF OutboxInv, ClaimsAreExclusive
  <2>2. \A q \in Publishers \ {p} : claimed[p] \cap claimed[q] = {}
    BY DEF OutboxInv, ClaimsAreExclusive
  <2>3. claimed[p] \cap published = {}
    BY DEF OutboxInv, ClaimsAreExclusive, Locked
  <2>4. \A t, u \in abandoned' : t # u => t.rows \cap u.rows = {}
    BY <1>1, <2>1 DEF OutboxInv, ClaimsAreExclusive
  <2>5. \A q \in Publishers, t \in abandoned' : claimed'[q] \cap t.rows = {}
    BY <1>1, <2>2, ExitStep DEF OutboxInv, ClaimsAreExclusive
  <2>6. \A q, r \in Publishers : q # r => claimed'[q] \cap claimed'[r] = {}
    BY <1>1, ExitStep DEF OutboxInv, ClaimsAreExclusive
  <2>7. Locked' \cap published = {}
    BY <1>1, <2>3, ExitStep DEF OutboxInv, ClaimsAreExclusive, Locked
  <2> QED
    BY <2>4, <2>5, <2>6, <2>7 DEF ClaimsAreExclusive
<1>7. \A q \in Publishers : BatchOK(q)'
  BY <1>1, ExitStep DEF OutboxInv, TypeOK, rows, BatchOK, IsCurrent, Remaining
<1>8. \A t \in abandoned' : LeftOK(t)'
  BY <1>1, <1>2, ExitStep DEF OutboxInv, LeftOK, rows
<1> QED
  BY <1>4, <1>5, <1>6, <1>7, <1>8 DEF OutboxInv

(* Every action preserves the inductive invariant. *)
LEMMA Preserved == OutboxInv /\ [Next]_vars => OutboxInv'
<1> SUFFICES ASSUME OutboxInv, [Next]_vars PROVE OutboxInv'
  OBVIOUS
<1>1. ASSUME NEW e \in EventIDs, Enqueue(e) PROVE OutboxInv'
  <2>1. TypeOK'
    BY <1>1 DEF OutboxInv, TypeOK, Enqueue, left
  <2>2. PublishedIsDelivered' /\ ClaimsAreExclusive'
    BY <1>1 DEF OutboxInv, PublishedIsDelivered, ClaimsAreExclusive, Locked, Delivered, Enqueue, left
  <2>3. \A q \in Publishers : BatchOK(q)'
    BY <1>1 DEF OutboxInv, BatchOK, IsCurrent, Remaining, Delivered, Enqueue
  <2>4. \A t \in abandoned' : LeftOK(t)'
    BY <1>1 DEF OutboxInv, LeftOK, Delivered, Enqueue, left
  <2> QED
    BY <2>1, <2>2, <2>3, <2>4 DEF OutboxInv
<1>2. CASE Rotate
  <2>1. TypeOK'
    BY <1>2, OutboxAssumption DEF OutboxInv, TypeOK, Rotate, Epochs, left
  <2> QED
    BY <1>2, <2>1 DEF OutboxInv, PublishedIsDelivered, ClaimsAreExclusive, Locked, BatchOK,
                      LeftOK, IsCurrent, Remaining, Delivered, Rotate, left
<1>3. ASSUME NEW p \in Publishers, Start(p) PROVE OutboxInv'
  <2>1. TypeOK'
    BY <1>3 DEF OutboxInv, TypeOK, Start, EpochFromEnv, rows, left
  <2>2. PublishedIsDelivered' /\ ClaimsAreExclusive'
    BY <1>3 DEF OutboxInv, PublishedIsDelivered, ClaimsAreExclusive, Locked, Delivered, Start, left
  <2>3. \A q \in Publishers : BatchOK(q)'
    BY <1>3 DEF OutboxInv, TypeOK, BatchOK, IsCurrent, Remaining, Delivered, Start, rows
  <2>4. \A t \in abandoned' : LeftOK(t)'
    BY <1>3 DEF OutboxInv, LeftOK, Delivered, Start, rows, left
  <2> QED
    BY <2>1, <2>2, <2>3, <2>4 DEF OutboxInv
<1>4. ASSUME NEW p \in Publishers, Claim(p) PROVE OutboxInv'
  <2> PICK batch \in SUBSET Pending : claimed' = [claimed EXCEPT ![p] = batch]
    BY <1>4 DEF Claim
  <2>1. /\ batch \subseteq visible /\ batch \cap published = {} /\ batch \cap Locked = {}
        /\ \A q \in Publishers : batch \cap claimed[q] = {}
        /\ \A t \in abandoned : batch \cap t.rows = {}
    BY DEF Pending, Locked
  <2>2. marked[p] = {} /\ pc[p] = "idle"
    BY <1>4 DEF Claim, OutboxInv, BatchOK
  <2>3. TypeOK'
    BY <1>4, <2>1 DEF OutboxInv, TypeOK, Claim, rows, left
  <2>4. PublishedIsDelivered'
    BY <1>4 DEF OutboxInv, PublishedIsDelivered, Delivered, Claim
  <2>5. ClaimsAreExclusive'
    <3>1. \A q \in Publishers : claimed'[q] = IF q = p THEN batch ELSE claimed[q]
      BY DEF OutboxInv, TypeOK
    <3>2. UNCHANGED <<abandoned, published>>
      BY <1>4 DEF Claim, left
    <3> QED
      BY <2>1, <3>1, <3>2 DEF OutboxInv, ClaimsAreExclusive, Locked
  <2>6. \A q \in Publishers : BatchOK(q)'
    BY <1>4, <2>1, <2>2 DEF OutboxInv, TypeOK, BatchOK, IsCurrent, Remaining, Delivered, Claim, rows
  <2>7. \A t \in abandoned' : LeftOK(t)'
    BY <1>4 DEF OutboxInv, LeftOK, Delivered, Claim, rows, left
  <2> QED
    BY <2>3, <2>4, <2>5, <2>6, <2>7 DEF OutboxInv
<1>5. ASSUME NEW p \in Publishers, NEW e \in EventIDs, Publish(p, e) PROVE OutboxInv'
  <2>1. CASE RollBack(p) /\ UNCHANGED <<published, copies, failures>>
    BY <2>1, RollBackStep DEF OutboxInv, TypeOK, Delivered
  <2>2. CASE /\ Produce(e)
             /\ pc' = [pc EXCEPT ![p] = "mark"]
             /\ UNCHANGED <<published, claimed, marked, loaded, left, failures, rows>>
    <3>1. copies' \in [EventIDs -> Nat] /\ Delivered' = Delivered \cup {e}
      BY <2>2, ProduceDelivers DEF OutboxInv, TypeOK
    <3>2. TypeOK'
      BY <2>2, <3>1 DEF OutboxInv, TypeOK, rows, left
    <3>3. PublishedIsDelivered' /\ ClaimsAreExclusive'
      BY <2>2, <3>1 DEF OutboxInv, PublishedIsDelivered, ClaimsAreExclusive, Locked, left
    <3>4. \A f \in EventIDs : IsCurrent(p, f) => f = e
      BY <1>5, CurrentIsUnique DEF Publish
    <3>5. pc[p] = "publish"
      BY <1>5 DEF Publish
    <3>6. \A q \in Publishers : BatchOK(q)'
      BY <2>2, <3>1, <3>4, <3>5 DEF OutboxInv, TypeOK, BatchOK, IsCurrent, Remaining, rows
    <3>7. \A t \in abandoned' : LeftOK(t)'
      BY <2>2, <3>1 DEF OutboxInv, LeftOK, rows, left
    <3> QED
      BY <3>2, <3>3, <3>6, <3>7 DEF OutboxInv
  <2> QED
    BY <1>5, <2>1, <2>2 DEF Publish
<1>6. ASSUME NEW p \in Publishers, NEW e \in EventIDs, Mark(p, e) PROVE OutboxInv'
  <2>1. e \in claimed[p] /\ e \in Delivered
    BY <1>6 DEF OutboxInv, BatchOK, Mark, IsCurrent, Remaining
  <2>2. TypeOK'
    BY <1>6 DEF OutboxInv, TypeOK, Mark, rows, left
  <2>3. PublishedIsDelivered' /\ ClaimsAreExclusive'
    BY <1>6 DEF OutboxInv, PublishedIsDelivered, ClaimsAreExclusive, Locked, Delivered, Mark, left
  <2>4. \A q \in Publishers : BatchOK(q)'
    BY <1>6, <2>1 DEF OutboxInv, TypeOK, BatchOK, IsCurrent, Remaining, Delivered, Mark, rows
  <2>5. \A t \in abandoned' : LeftOK(t)'
    BY <1>6 DEF OutboxInv, LeftOK, Delivered, Mark, rows, left
  <2> QED
    BY <2>2, <2>3, <2>4, <2>5 DEF OutboxInv
<1>7. ASSUME NEW p \in Publishers, CommitBatch(p) PROVE OutboxInv'
  <2>1. marked[p] \subseteq claimed[p] /\ marked[p] \subseteq visible /\ marked[p] \subseteq Delivered
    BY DEF OutboxInv, BatchOK
  <2>2. /\ published' = published \cup marked[p] /\ UNCHANGED <<copies, abandoned>>
        /\ \A q \in Publishers : claimed'[q] = IF q = p THEN {} ELSE claimed[q]
    BY <1>7 DEF CommitBatch, OutboxInv, TypeOK, left
  <2>3. TypeOK'
    BY <1>7, <2>1 DEF CommitBatch, OutboxInv, TypeOK, rows, left
  <2>4. PublishedIsDelivered'
    BY <2>1, <2>2 DEF OutboxInv, PublishedIsDelivered, Delivered
  <2>5. ClaimsAreExclusive'
    BY <2>1, <2>2 DEF OutboxInv, ClaimsAreExclusive, Locked
  <2>6. \A q \in Publishers : BatchOK(q)'
    BY <1>7 DEF CommitBatch, OutboxInv, TypeOK, BatchOK, IsCurrent, Remaining, Delivered, rows
  <2>7. \A t \in abandoned' : LeftOK(t)'
    BY <1>7 DEF CommitBatch, OutboxInv, LeftOK, Delivered, rows, left
  <2> QED
    BY <2>3, <2>4, <2>5, <2>6, <2>7 DEF OutboxInv
<1>8. ASSUME NEW p \in Publishers, Fault PROVE failures' \in 0 .. MaxFailures
  BY <1>8, OutboxAssumption DEF Fault, OutboxInv, TypeOK
<1>9. ASSUME NEW p \in Publishers, Crash(p) PROVE OutboxInv'
  BY <1>8, <1>9, RollBackStep, AbandonStep DEF Crash, OutboxInv, TypeOK, Delivered
<1>10. ASSUME NEW p \in Publishers, NEW e \in EventIDs, ProduceUnacknowledged(p, e) PROVE OutboxInv'
  <2>1. copies' \in [EventIDs -> Nat] /\ Delivered' = Delivered \cup {e}
    BY <1>10, ProduceDelivers DEF ProduceUnacknowledged, OutboxInv, TypeOK
  <2> QED
    BY <1>8, <1>10, <2>1, RollBackStep, AbandonStep DEF ProduceUnacknowledged
<1>11. ASSUME NEW p \in Publishers, CommitUnacknowledged(p) PROVE OutboxInv'
  BY <1>8, <1>11, AbandonStep DEF CommitUnacknowledged, OutboxInv, TypeOK, Delivered
<1>12. ASSUME NEW t \in abandoned, EndAbandoned(t) PROVE OutboxInv'
  <2>1. t.settles \subseteq t.rows /\ t.settles \subseteq Delivered /\ t.settles \subseteq visible
    BY DEF OutboxInv, LeftOK
  <2>2. /\ abandoned' = abandoned \ {t} /\ UNCHANGED <<copies, claimed>>
        /\ published' = published \/ published' = published \cup t.settles
    BY <1>12 DEF EndAbandoned
  <2>3. TypeOK'
    BY <1>12, <2>1 DEF EndAbandoned, OutboxInv, TypeOK, rows
  <2>4. PublishedIsDelivered'
    BY <2>1, <2>2 DEF OutboxInv, PublishedIsDelivered, Delivered
  <2>5. ClaimsAreExclusive'
    <3>1. \A u \in abandoned' : u \in abandoned /\ u.rows \cap t.rows = {}
      BY <2>2 DEF OutboxInv, ClaimsAreExclusive
    <3>2. \A q \in Publishers : claimed[q] \cap t.rows = {}
      BY DEF OutboxInv, ClaimsAreExclusive
    <3>3. Locked' \subseteq Locked /\ Locked' \cap t.rows = {}
      BY <2>2, <3>1, <3>2 DEF Locked
    <3> QED
      BY <2>1, <2>2, <3>1, <3>3 DEF OutboxInv, ClaimsAreExclusive
  <2>6. \A q \in Publishers : BatchOK(q)'
    BY <1>12 DEF EndAbandoned, OutboxInv, BatchOK, IsCurrent, Remaining, Delivered, rows
  <2>7. \A u \in abandoned' : LeftOK(u)'
    BY <1>12 DEF EndAbandoned, OutboxInv, LeftOK, Delivered, rows
  <2> QED
    BY <2>3, <2>4, <2>5, <2>6, <2>7 DEF OutboxInv
<1>13. CASE UNCHANGED vars
  BY <1>13 DEF vars, rows, left, OutboxInv, TypeOK, PublishedIsDelivered, ClaimsAreExclusive,
               Locked, BatchOK, LeftOK, IsCurrent, Remaining, Delivered
<1> QED
  BY <1>1, <1>2, <1>3, <1>4, <1>5, <1>6, <1>7, <1>9, <1>10, <1>11, <1>12, <1>13
     DEF Next, Run, Faults, LockEnds, Poll, CutOff

(* The inductive invariant holds in every reachable state. *)
THEOREM Invariance == Spec => []OutboxInv
  BY Initially, Preserved, PTL DEF Spec

(* Every variable keeps its shape, for all values of the constants. *)
THEOREM TypeCorrect == Spec => []TypeOK
<1>1. OutboxInv => TypeOK
  BY DEF OutboxInv
<1> QED
  BY <1>1, Invariance, PTL

(* At-least-once: whatever crashes, and whoever else publishes, a row is    *)
(* marked published only when the brokers have its record.                  *)
THEOREM AtLeastOnce == Spec => []PublishedIsDelivered
<1>1. OutboxInv => PublishedIsDelivered
  BY DEF OutboxInv
<1> QED
  BY <1>1, Invariance, PTL

(* Row locks keep publishers apart, also from the transactions of dead      *)
(* ones, and published rows out of batches.                                 *)
THEOREM BatchesNeverOverlap == Spec => []ClaimsAreExclusive
<1>1. OutboxInv => ClaimsAreExclusive
  BY DEF OutboxInv
<1> QED
  BY <1>1, Invariance, PTL

(* A batch that has been marked is delivered, pending and settled at once. *)
LEMMA BatchSettles ==
    ASSUME OutboxInv, NEW batch, batch \subseteq visible \cap Delivered, batch \cap published = {},
           published' = published \cup batch, UNCHANGED <<copies, visible>>
    PROVE  Delivery!Next
<1>1. batch \in SUBSET EventIDs /\ \A e \in batch : Stage(e) = "pending"
  BY DEF Stage, OutboxInv, TypeOK
<1>2. \A e \in batch : copies[e] > 0
  BY DEF Delivered
<1>3. \A e \in EventIDs : Stage(e)' = IF e \in batch THEN "settled" ELSE Stage(e)
  BY DEF Stage
<1>4. Delivery!Settle(batch)
  BY <1>1, <1>2, <1>3 DEF Delivery!Settle, Delivery!EventIDs, EventIDs
<1> QED
  BY <1>1, <1>4 DEF Delivery!Next, Delivery!EventIDs, EventIDs

(* A delivered record belongs to a row that is still pending. *)
LEMMA CurrentIsPending ==
    ASSUME OutboxInv, NEW p \in Publishers, NEW e \in EventIDs, IsCurrent(p, e),
           Produce(e), UNCHANGED <<visible, published>>
    PROVE  Delivery!Next
<1>1. e \in visible /\ e \notin published
  BY DEF IsCurrent, Remaining, OutboxInv, BatchOK, ClaimsAreExclusive, Locked
<1>2. Delivery!Deliver(e)
  BY <1>1 DEF Produce, Delivery!Deliver, Delivery!EventIDs, EventIDs, Stage
<1> QED
  BY <1>2 DEF Delivery!Next, Delivery!EventIDs, EventIDs

(* The outbox delivers at least once and never after it has settled: every  *)
(* step of the publishers is a step of EventDelivery or none.               *)
THEOREM OutboxImplementsDelivery == Spec => ImplementsDelivery
<1>1. Init => Delivery!Init
  BY DEF Init, Delivery!Init, Stage, Delivery!EventIDs, EventIDs
<1>2. OutboxInv /\ [Next]_vars => [Delivery!Next]_(Delivery!deliveryVars)
  <2> SUFFICES ASSUME OutboxInv, [Next]_vars
               PROVE  Delivery!Next \/ UNCHANGED Delivery!deliveryVars
    OBVIOUS
  <2>1. ASSUME UNCHANGED <<visible, published, copies>> PROVE UNCHANGED Delivery!deliveryVars
    BY <2>1 DEF Delivery!deliveryVars, Stage
  <2>2. ASSUME NEW e \in EventIDs, Enqueue(e) PROVE Delivery!Next
    <3>1. e \notin visible /\ visible' = visible \cup {e} /\ UNCHANGED <<published, copies>>
      BY <2>2 DEF Enqueue
    <3>2. e \notin published
      BY <3>1 DEF OutboxInv, TypeOK
    <3>3. Delivery!Record(e)
      BY <3>1, <3>2 DEF Delivery!Record, Delivery!EventIDs, EventIDs, Stage
    <3> QED
      BY <3>3 DEF Delivery!Next, Delivery!EventIDs, EventIDs
  <2>3. CASE Rotate \/ CutOff \/ UNCHANGED vars
    BY <2>1, <2>3 DEF Rotate, CutOff, vars, rows
  <2>4. ASSUME NEW p \in Publishers,
               Start(p) \/ Claim(p) \/ Poll(p) \/ Crash(p) \/ CommitUnacknowledged(p)
        PROVE  UNCHANGED Delivery!deliveryVars
    BY <2>1, <2>4 DEF Start, Claim, Poll, Crash, CommitUnacknowledged, RollBack, Abandon, Exit,
                      rows, vars
  <2>5. ASSUME NEW p \in Publishers, NEW e \in EventIDs,
               Publish(p, e) \/ Mark(p, e) \/ ProduceUnacknowledged(p, e)
        PROVE  Delivery!Next \/ UNCHANGED Delivery!deliveryVars
    <3>1. /\ UNCHANGED <<visible, published>>
          /\ UNCHANGED copies \/ (IsCurrent(p, e) /\ Produce(e))
      BY <2>5 DEF Publish, Mark, ProduceUnacknowledged, RollBack, Abandon, Exit, rows
    <3> QED
      BY <2>1, <3>1, CurrentIsPending
  <2>6. ASSUME NEW p \in Publishers, CommitBatch(p)
        PROVE  Delivery!Next
    <3>1. marked[p] \subseteq visible \cap Delivered /\ marked[p] \cap published = {}
      BY DEF OutboxInv, BatchOK, ClaimsAreExclusive, Locked
    <3> QED
      BY <2>6, <3>1, BatchSettles DEF CommitBatch, rows
  <2>7. ASSUME NEW t \in abandoned, EndAbandoned(t)
        PROVE  Delivery!Next \/ UNCHANGED Delivery!deliveryVars
    <3>1. t.settles \subseteq visible \cap Delivered /\ t.settles \cap published = {}
      BY DEF OutboxInv, LeftOK, ClaimsAreExclusive, Locked
    <3>2. /\ UNCHANGED <<copies, visible>>
          /\ UNCHANGED published \/ published' = published \cup t.settles
      BY <2>7 DEF EndAbandoned, rows
    <3> QED
      BY <2>1, <3>1, <3>2, BatchSettles
  <2> QED
    BY <2>2, <2>3, <2>4, <2>5, <2>6, <2>7 DEF Next, Run, Faults, LockEnds
<1> QED
  BY <1>1, <1>2, Invariance, PTL DEF Spec, ImplementsDelivery, Delivery!Spec

-----------------------------------------------------------------------------
(* The order of the topics with one publisher. *)

(* A lone publisher's batch holds, with every decision, the package unless  *)
(* it is published or a dead publisher's transaction has held it.           *)
BatchesAreClosed ==
    Alone => \A p \in Publishers : \A e \in claimed[p] :
                Follows[e] \in published \cup claimed[p] \cup outlived \cup {0}

(* The inductive invariant behind PackageBeforeDecision: a decision becomes *)
(* visible after its package, and batches are closed.                       *)
OrderInv ==
    /\ OutboxInv
    /\ \A e \in visible : Follows[e] \in visible \cup {0}
    /\ \A p \in Publishers : loaded[p] = NeverStarted => pc[p] = "down"
    /\ \A t \in abandoned : t.rows \subseteq outlived
    /\ BatchesAreClosed
    /\ PackageBeforeDecision

(* Once a second publisher has started it stays started. *)
LEMMA StaysAlone ==
    ASSUME TypeOK, [Next]_vars, Alone'
    PROVE  Alone
<1>1. loaded' = loaded \/ \E p \in Publishers : loaded' = [loaded EXCEPT ![p] = deployed]
  BY DEF Next, Run, Faults, LockEnds, Poll, CutOff, Enqueue, Rotate, Start, EpochFromEnv, Claim,
         Publish, Mark, CommitBatch, Crash, ProduceUnacknowledged, CommitUnacknowledged,
         EndAbandoned, RollBack, Abandon, Exit, rows, vars
<1>2. deployed # NeverStarted
  BY OutboxAssumption DEF TypeOK, Epochs, NeverStarted
<1>3. \A q \in Publishers : loaded'[q] = NeverStarted => loaded[q] = NeverStarted
  BY <1>1, <1>2 DEF TypeOK
<1> QED
  BY <1>3 DEF Alone, NeverStarted

(* A lone publisher's next row: if it is a decision, its package has been   *)
(* delivered or was in a batch that outlived its publisher.                 *)
LEMMA PackageIsDelivered ==
    ASSUME OrderInv, Alone, NEW p \in Publishers, NEW e \in EventIDs, IsCurrent(p, e)
    PROVE  Follows[e] \in Delivered \cup outlived \cup {0}
<1>1. e \in claimed[p] /\ Follows[e] \in published \cup claimed[p] \cup outlived \cup {0}
  BY DEF OrderInv, BatchesAreClosed, IsCurrent, Remaining
<1>2. Follows[e] < e /\ e \in Nat /\ Follows[e] \in Nat
  BY OutboxAssumption DEF EventIDs
<1>3. Follows[e] \notin Remaining(p)
  BY <1>2 DEF IsCurrent
<1> QED
  BY <1>1, <1>3 DEF Remaining, OrderInv, OutboxInv, PublishedIsDelivered, BatchOK

(* A batch claimed by the lone publisher is closed. *)
LEMMA BatchIsClosed ==
    ASSUME OrderInv, Alone, NEW p \in Publishers, loaded[p] # NeverStarted,
           NEW batch \in SUBSET Pending, IsBatch(batch), claimed[p] = {}, NEW e \in batch
    PROVE  Follows[e] \in published \cup batch \cup outlived \cup {0}
<1>1. \A q \in Publishers : claimed[q] = {}
  <2> SUFFICES ASSUME NEW q \in Publishers \ {p} PROVE claimed[q] = {}
    OBVIOUS
  <2>1. loaded[q] = NeverStarted
    BY DEF Alone
  <2> QED
    BY <2>1 DEF OrderInv, OutboxInv, BatchOK
<1>2. Locked \subseteq outlived
  BY <1>1 DEF Locked, OrderInv
<1>3. e \in visible /\ Follows[e] \in visible \cup {0} /\ e \in EventIDs
  BY DEF Pending, OrderInv, OutboxInv, TypeOK
<1>4. Follows[e] < e /\ e \in Nat /\ Follows[e] \in Nat
  BY <1>3, OutboxAssumption DEF EventIDs
<1>5. Follows[e] \notin Pending \ batch
  BY <1>4 DEF IsBatch
<1> QED
  BY <1>2, <1>3, <1>5 DEF Pending

(* Every action preserves the order. *)
LEMMA OrderPreserved == OrderInv /\ [Next]_vars => OrderInv'
<1> SUFFICES ASSUME OrderInv, [Next]_vars PROVE OrderInv'
  OBVIOUS
<1>1. OutboxInv /\ OutboxInv'
  BY Preserved DEF OrderInv
<1>2. (\A e \in visible : Follows[e] \in visible \cup {0})'
  <2>1. visible' = visible \/ \E e \in EventIDs : Enqueue(e)
    BY DEF Next, Run, Faults, LockEnds, Poll, CutOff, Rotate, Start, Claim, Publish, Mark,
           CommitBatch, Crash, ProduceUnacknowledged, CommitUnacknowledged, EndAbandoned,
           RollBack, Abandon, Exit, rows, vars
  <2> QED
    BY <2>1 DEF OrderInv, Enqueue
<1>3. (\A p \in Publishers : loaded[p] = NeverStarted => pc[p] = "down")'
  <2>1. \/ UNCHANGED <<pc, loaded>>
        \/ \E p \in Publishers :
              \/ Start(p)
              \/ /\ UNCHANGED loaded
                 /\ \A q \in Publishers \ {p} : pc'[q] = pc[q]
                 /\ pc[p] # "down" \/ pc'[p] = "down"
    <3>1. ASSUME NEW p \in Publishers, Run(p) \/ Faults(p), ~Start(p)
          PROVE  /\ UNCHANGED loaded
                 /\ \A q \in Publishers \ {p} : pc'[q] = pc[q]
                 /\ pc[p] # "down" \/ pc'[p] = "down"
      <4>1. pc \in [Publishers -> {"down", "idle", "publish", "mark"}]
        BY <1>1 DEF OutboxInv, TypeOK
      <4>2. CASE Claim(p) \/ CommitBatch(p)
        BY <4>1, <4>2 DEF Claim, CommitBatch
      <4>3. CASE \E e \in EventIDs : Publish(p, e) \/ Mark(p, e)
        BY <4>1, <4>3 DEF Publish, Mark, RollBack, Exit
      <4>4. CASE Faults(p)
        BY <4>1, <4>4 DEF Faults, Crash, ProduceUnacknowledged, CommitUnacknowledged,
                          RollBack, Abandon, Exit
      <4> QED
        BY <3>1, <4>2, <4>3, <4>4 DEF Run
    <3>2. ASSUME (\E e \in EventIDs : Enqueue(e)) \/ Rotate \/ CutOff \/ UNCHANGED vars
                 \/ LockEnds \/ \E p \in Publishers : Poll(p)
          PROVE  UNCHANGED <<pc, loaded>>
      BY <3>2 DEF Enqueue, Rotate, CutOff, LockEnds, EndAbandoned, Poll, vars
    <3> QED
      BY <3>1, <3>2 DEF Next
  <2>2. deployed # NeverStarted
    BY <1>1, OutboxAssumption DEF OutboxInv, TypeOK, Epochs, NeverStarted
  <2> QED
    BY <1>1, <2>1, <2>2 DEF OrderInv, OutboxInv, TypeOK, Start, EpochFromEnv, NeverStarted
<1>4. (\A t \in abandoned : t.rows \subseteq outlived)'
  <2>1. \/ UNCHANGED left
        \/ \E p \in Publishers, settles \in SUBSET EventIDs : Abandon(p, settles)
        \/ LockEnds
    <3>1. ASSUME NEW p \in Publishers, Faults(p)
          PROVE  UNCHANGED left \/ \E settles \in SUBSET EventIDs : Abandon(p, settles)
      <4>1. {} \in SUBSET EventIDs /\ marked[p] \in SUBSET EventIDs
        BY <1>1 DEF OutboxInv, TypeOK
      <4> QED
        BY <3>1, <4>1 DEF Faults, Crash, ProduceUnacknowledged, CommitUnacknowledged, RollBack
    <3> QED
      BY <3>1 DEF Next, Run, Poll, CutOff, Enqueue, Rotate, Start, Claim, Publish, Mark,
                  CommitBatch, RollBack, vars
  <2> QED
    BY <2>1 DEF OrderInv, Abandon, LockEnds, EndAbandoned, left
<1>5. ASSUME Alone'
      PROVE  BatchesAreClosed' /\ PackageBeforeDecision'
  <2>0. Alone
    BY <1>1, <1>5, StaysAlone DEF OutboxInv
  <2>1. ASSUME published \subseteq published', outlived \subseteq outlived', UNCHANGED copies,
               \A q \in Publishers : claimed'[q] \in {claimed[q], {}}
        PROVE  BatchesAreClosed' /\ PackageBeforeDecision'
    BY <2>0, <2>1 DEF OrderInv, BatchesAreClosed, PackageBeforeDecision, Delivered
  <2>2. ASSUME NEW p \in Publishers, NEW e \in EventIDs, IsCurrent(p, e), Produce(e),
               UNCHANGED published, outlived \subseteq outlived',
               \A q \in Publishers : claimed'[q] \in {claimed[q], {}}
        PROVE  BatchesAreClosed' /\ PackageBeforeDecision'
    <3>1. Delivered' = Delivered \cup {e}
      BY <1>1, <2>2, ProduceDelivers DEF OutboxInv, TypeOK
    <3>2. Follows[e] \in Delivered \cup outlived \cup {0}
      BY <2>0, <2>2, PackageIsDelivered
    <3> QED
      BY <2>0, <2>2, <3>1, <3>2 DEF OrderInv, BatchesAreClosed, PackageBeforeDecision
  <2>3. ASSUME NEW p \in Publishers, Claim(p)
        PROVE  BatchesAreClosed' /\ PackageBeforeDecision'
    <3> PICK batch \in SUBSET Pending :
                IsBatch(batch) /\ claimed' = [claimed EXCEPT ![p] = batch]
      BY <2>3 DEF Claim
    <3>1. claimed[p] = {} /\ loaded[p] # NeverStarted /\ UNCHANGED <<published, copies, outlived>>
      BY <2>3 DEF Claim, OrderInv, OutboxInv, BatchOK, left
    <3>2. \A e \in batch : Follows[e] \in published \cup batch \cup outlived \cup {0}
      BY <2>0, <3>1, BatchIsClosed
    <3>3. claimed'[p] = batch /\ \A q \in Publishers \ {p} : claimed'[q] = claimed[q]
      BY <1>1 DEF OutboxInv, TypeOK
    <3> QED
      BY <2>0, <3>1, <3>2, <3>3 DEF OrderInv, BatchesAreClosed, PackageBeforeDecision, Delivered
  <2>4. CASE (\E e \in EventIDs : Enqueue(e)) \/ Rotate \/ LockEnds \/ CutOff \/ UNCHANGED vars
    BY <2>1, <2>4 DEF Enqueue, Rotate, LockEnds, EndAbandoned, CutOff, left, vars
  <2>5. ASSUME NEW p \in Publishers, Start(p) \/ Poll(p) \/ \E e \in EventIDs : Mark(p, e)
        PROVE  UNCHANGED <<published, claimed, copies, outlived>>
    BY <2>5 DEF Start, Poll, Mark, left, vars
  <2>6. ASSUME NEW p \in Publishers, RollBack(p) \/ \E settles : Abandon(p, settles)
        PROVE  /\ outlived \subseteq outlived'
               /\ \A q \in Publishers : claimed'[q] \in {claimed[q], {}}
    BY <1>1, <2>6 DEF RollBack, Abandon, Exit, left, OutboxInv, TypeOK
  <2>7. ASSUME NEW p \in Publishers, CommitUnacknowledged(p) \/ Crash(p)
        PROVE  BatchesAreClosed' /\ PackageBeforeDecision'
    BY <2>1, <2>6, <2>7 DEF CommitUnacknowledged, Crash
  <2>8. ASSUME NEW p \in Publishers, CommitBatch(p)
        PROVE  BatchesAreClosed' /\ PackageBeforeDecision'
    <3>1. /\ published \subseteq published' /\ UNCHANGED <<copies, outlived>>
          /\ \A q \in Publishers : claimed'[q] \in {claimed[q], {}}
      BY <1>1, <2>8 DEF CommitBatch, left, OutboxInv, TypeOK
    <3> QED
      BY <2>1, <3>1
  <2>9. ASSUME NEW p \in Publishers, NEW e \in EventIDs,
               Publish(p, e) \/ ProduceUnacknowledged(p, e)
        PROVE  BatchesAreClosed' /\ PackageBeforeDecision'
    <3>1. /\ IsCurrent(p, e) /\ UNCHANGED published
          /\ UNCHANGED copies \/ Produce(e)
          /\ \/ UNCHANGED <<claimed, outlived>>
             \/ RollBack(p) \/ \E settles : Abandon(p, settles)
      BY <2>9 DEF Publish, ProduceUnacknowledged, left
    <3> QED
      BY <2>1, <2>2, <2>6, <3>1
  <2> QED
    BY <2>1, <2>3, <2>4, <2>5, <2>7, <2>8, <2>9 DEF Next, Run, Faults
<1>6. BatchesAreClosed' /\ PackageBeforeDecision'
  BY <1>5 DEF BatchesAreClosed, PackageBeforeDecision
<1> QED
  BY <1>1, <1>2, <1>3, <1>4, <1>6 DEF OrderInv

(* With one publisher, whatever crashes and is repeated, the brokers have a *)
(* package's event before that of a decision on it, unless its row was in a *)
(* transaction that outlived the publisher.                                 *)
THEOREM PackagesComeFirst == Spec => []PackageBeforeDecision
<1>1. Init => OrderInv
  <2> SUFFICES ASSUME Init PROVE OrderInv
    OBVIOUS
  <2> QED
    BY Initially DEF Init, OrderInv, BatchesAreClosed, PackageBeforeDecision, Delivered
<1>2. OrderInv => PackageBeforeDecision
  BY DEF OrderInv
<1> QED
  BY <1>1, <1>2, OrderPreserved, PTL DEF Spec
-----------------------------------------------------------------------------
(* How often an event is delivered. *)

(* Publisher p has delivered e, and its transaction will say so. *)
InHand(p, e) == e \in marked[p] \/ (pc[p] = "mark" /\ IsCurrent(p, e))

Accounted(e) == e \in published \/ \E p \in Publishers : InHand(p, e)

(* A delivery more than there were faults is one whose row is marked, or    *)
(* about to be.                                                             *)
Counted ==
    \A e \in EventIDs :
        /\ copies[e] <= 1 + failures
        /\ ~Accounted(e) => copies[e] <= failures

(* The inductive invariant behind DuplicatesNeedFailures. *)
CountInv ==
    /\ OutboxInv
    /\ deployed = 0 =>
          /\ \A e \in EventIDs : signedWith[e] = 0
          /\ \A p \in Publishers : loaded[p] \in {0, NeverStarted}
          /\ \A p \in Publishers : loaded[p] = NeverStarted => pc[p] = "down"
          /\ Counted

(* A publisher's next row is pending, and on nobody's account. *)
LEMMA CurrentIsUnaccounted ==
    ASSUME OutboxInv, NEW p \in Publishers, pc[p] = "publish", NEW e \in EventIDs, IsCurrent(p, e)
    PROVE  ~Accounted(e)
<1>1. e \in claimed[p] /\ e \notin marked[p]
  BY DEF IsCurrent, Remaining
<1>2. \A q \in Publishers \ {p} : e \notin claimed[q]
  BY <1>1 DEF OutboxInv, ClaimsAreExclusive
<1>3. \A q \in Publishers : InHand(q, e) => q # p /\ e \in claimed[q]
  BY <1>1 DEF OutboxInv, BatchOK, InHand, IsCurrent, Remaining
<1>4. e \notin published
  BY <1>1 DEF OutboxInv, ClaimsAreExclusive, Locked
<1> QED
  BY <1>2, <1>3, <1>4 DEF Accounted

(* Every action keeps the count. *)
LEMMA CountPreserved == CountInv /\ [Next]_vars => CountInv'
<1> SUFFICES ASSUME CountInv, [Next]_vars, deployed' = 0
             PROVE  /\ (\A e \in EventIDs : signedWith[e] = 0)'
                    /\ (\A p \in Publishers : loaded[p] \in {0, NeverStarted})'
                    /\ (\A p \in Publishers : loaded[p] = NeverStarted => pc[p] = "down")'
                    /\ Counted'
  BY Preserved DEF CountInv
<1>1. OutboxInv /\ TypeOK /\ deployed \in Nat /\ failures \in Nat
  BY OutboxAssumption DEF CountInv, OutboxInv, TypeOK, Epochs
<1>2. \A e \in EventIDs : copies[e] \in Nat
  BY <1>1 DEF TypeOK
<1>3. deployed = 0
  <2>1. deployed' = deployed \/ deployed' = deployed + 1
    BY DEF Next, Run, Faults, LockEnds, Poll, CutOff, Enqueue, Rotate, Start, Claim, Publish, Mark,
           CommitBatch, Crash, ProduceUnacknowledged, CommitUnacknowledged, EndAbandoned,
           RollBack, Abandon, Exit, rows, vars
  <2> QED
    BY <1>1, <2>1
<1>4. /\ \A e \in EventIDs : signedWith[e] = 0
      /\ \A p \in Publishers : loaded[p] \in {0, NeverStarted}
      /\ \A p \in Publishers : loaded[p] = NeverStarted => pc[p] = "down"
      /\ \A e \in EventIDs : copies[e] <= 1 + failures
      /\ \A e \in EventIDs : ~Accounted(e) => copies[e] <= failures
  BY <1>3 DEF CountInv, Counted
<1>5. (\A e \in EventIDs : signedWith[e] = 0)'
  BY <1>1, <1>3, <1>4 DEF TypeOK, Next, Run, Faults, LockEnds, Poll, CutOff, Enqueue, Rotate,
           Start, Claim, Publish, Mark, CommitBatch, Crash, ProduceUnacknowledged,
           CommitUnacknowledged, EndAbandoned, RollBack, Abandon, Exit, rows, vars
<1>6. (\A p \in Publishers : loaded[p] \in {0, NeverStarted})'
  <2>1. loaded' = loaded \/ \E p \in Publishers : loaded' = [loaded EXCEPT ![p] = deployed]
    BY DEF Next, Run, Faults, LockEnds, Poll, CutOff, Enqueue, Rotate, Start, EpochFromEnv, Claim,
           Publish, Mark, CommitBatch, Crash, ProduceUnacknowledged, CommitUnacknowledged,
           EndAbandoned, RollBack, Abandon, Exit, rows, vars
  <2> QED
    BY <1>1, <1>3, <1>4, <2>1 DEF TypeOK
<1>7. (\A p \in Publishers : loaded[p] = NeverStarted => pc[p] = "down")'
  <2>1. CASE \E p \in Publishers : Start(p)
    BY <1>1, <1>3, <1>4, <2>1 DEF Start, EpochFromEnv, TypeOK, NeverStarted
  <2>2. CASE loaded' = loaded /\ \A q \in Publishers : pc'[q] = pc[q] \/ pc[q] # "down" \/ pc'[q] = "down"
    BY <1>4, <2>2
  <2>3. (\E p \in Publishers : Start(p))
        \/ (loaded' = loaded /\ \A q \in Publishers : pc'[q] = pc[q] \/ pc[q] # "down" \/ pc'[q] = "down")
    BY <1>1 DEF TypeOK, Next, Run, Faults, LockEnds, Poll, CutOff, Enqueue, Rotate, Claim, Publish,
           Mark, CommitBatch, Crash, ProduceUnacknowledged, CommitUnacknowledged, EndAbandoned,
           RollBack, Abandon, Exit, rows, vars
  <2> QED
    BY <2>1, <2>2, <2>3
<1>8. ASSUME UNCHANGED <<copies, failures>>, \A e \in EventIDs : Accounted(e) => Accounted(e)'
      PROVE  Counted'
  BY <1>4, <1>8 DEF Counted
<1>9. ASSUME UNCHANGED copies, failures' = failures + 1
      PROVE  Counted'
  BY <1>1, <1>2, <1>4, <1>9 DEF Counted
<1>10. ASSUME NEW p \in Publishers, NEW e \in EventIDs, pc[p] = "publish", IsCurrent(p, e),
              Produce(e)
       PROVE  \A f \in EventIDs :
                 /\ copies'[f] \in Nat /\ copies'[f] <= 1 + failures
                 /\ f = e \/ Accounted(f) \/ copies'[f] <= failures
  <2>1. copies[e] <= failures
    BY <1>1, <1>4, <1>10, CurrentIsUnaccounted
  <2>2. \A f \in EventIDs : copies'[f] = IF f = e THEN copies[f] + 1 ELSE copies[f]
    BY <1>1, <1>10, ProduceDelivers DEF TypeOK
  <2> QED
    BY <1>1, <1>2, <1>4, <2>1, <2>2
<1>11. Counted'
  <2>1. CASE \E e \in EventIDs : Enqueue(e)
    BY <1>8, <2>1 DEF Enqueue, Accounted, InHand, IsCurrent, Remaining
  <2>2. CASE Rotate \/ CutOff \/ (\E p \in Publishers : Poll(p)) \/ UNCHANGED vars
    BY <1>8, <2>2 DEF Rotate, CutOff, Poll, vars, Accounted, InHand, IsCurrent, Remaining
  <2>3. ASSUME NEW p \in Publishers, Start(p) \/ Claim(p)
        PROVE  Counted'
    <3>1. pc[p] \in {"down", "idle"} /\ claimed[p] = {} /\ marked[p] = {}
      BY <1>1, <2>3 DEF Start, Claim, OutboxInv, BatchOK
    <3>2. /\ UNCHANGED <<copies, failures, published, marked>>
          /\ \A q \in Publishers \ {p} : pc'[q] = pc[q] /\ claimed'[q] = claimed[q]
      BY <1>1, <2>3 DEF Start, Claim, TypeOK
    <3>3. \A q \in Publishers, f \in EventIDs : InHand(q, f) => q # p
      BY <3>1 DEF InHand
    <3>4. \A f \in EventIDs : Accounted(f) => Accounted(f)'
      BY <3>2, <3>3 DEF Accounted, InHand, IsCurrent, Remaining
    <3> QED
      BY <1>8, <3>2, <3>4
  <2>4. ASSUME NEW p \in Publishers, NEW e \in EventIDs, Publish(p, e)
        PROVE  Counted'
    <3>1. /\ pc[p] = "publish" /\ IsCurrent(p, e)
          /\ Produce(e) /\ pc' = [pc EXCEPT ![p] = "mark"]
          /\ UNCHANGED <<published, claimed, marked, failures>>
      BY <1>4, <2>4 DEF Publish, Verifies
    <3>2. \A f \in EventIDs : f = e \/ Accounted(f) => Accounted(f)'
      BY <1>1, <3>1 DEF TypeOK, Accounted, InHand, IsCurrent, Remaining
    <3> QED
      BY <1>10, <3>1, <3>2 DEF Counted
  <2>5. ASSUME NEW p \in Publishers, NEW e \in EventIDs, Mark(p, e)
        PROVE  Counted'
    <3>1. /\ pc[p] = "mark" /\ IsCurrent(p, e)
          /\ marked' = [marked EXCEPT ![p] = @ \cup {e}] /\ pc' = [pc EXCEPT ![p] = "publish"]
          /\ UNCHANGED <<published, copies, claimed, failures>>
      BY <2>5 DEF Mark
    <3>2. ASSUME NEW f \in EventIDs, NEW q \in Publishers, InHand(q, f)
          PROVE  InHand(q, f)'
      <4>1. CASE q # p
        BY <1>1, <3>1, <3>2, <4>1 DEF TypeOK, InHand, IsCurrent, Remaining
      <4>2. CASE q = p
        <5>1. f \in marked[p] \/ f = e
          BY <3>1, <3>2, <4>2, CurrentIsUnique DEF InHand
        <5> QED
          BY <1>1, <3>1, <4>2, <5>1 DEF TypeOK, InHand
      <4> QED
        BY <4>1, <4>2
    <3> QED
      BY <1>8, <3>1, <3>2 DEF Accounted
  <2>6. ASSUME NEW p \in Publishers, CommitBatch(p)
        PROVE  Counted'
    <3>1. /\ pc[p] = "publish" /\ published' = published \cup marked[p]
          /\ \A q \in Publishers \ {p} : UNCHANGED <<pc[q], claimed[q], marked[q]>>
          /\ UNCHANGED <<copies, failures>>
      BY <1>1, <2>6 DEF CommitBatch, TypeOK
    <3>2. \A f \in EventIDs : Accounted(f) => Accounted(f)'
      BY <3>1 DEF Accounted, InHand, IsCurrent, Remaining
    <3> QED
      BY <1>8, <3>1, <3>2
  <2>7. ASSUME NEW p \in Publishers, Crash(p) \/ CommitUnacknowledged(p)
        PROVE  Counted'
    BY <1>9, <2>7 DEF Crash, CommitUnacknowledged, Fault
  <2>8. ASSUME NEW p \in Publishers, NEW e \in EventIDs, ProduceUnacknowledged(p, e)
        PROVE  Counted'
    <3>1. \A f \in EventIDs : copies'[f] \in Nat /\ copies'[f] <= 1 + failures
      BY <1>10, <2>8 DEF ProduceUnacknowledged
    <3>2. failures' = failures + 1
      BY <2>8 DEF ProduceUnacknowledged, Fault
    <3> QED
      BY <1>1, <3>1, <3>2 DEF Counted
  <2>9. ASSUME NEW t \in abandoned, EndAbandoned(t)
        PROVE  Counted'
    BY <1>8, <2>9 DEF EndAbandoned, Accounted, InHand, IsCurrent, Remaining
  <2> QED
    BY <2>1, <2>2, <2>3, <2>4, <2>5, <2>6, <2>7, <2>8, <2>9 DEF Next, Run, Faults, LockEnds
<1> QED
  BY <1>5, <1>6, <1>7, <1>11

(* Row locks keep any number of publishers off each other's batches: until  *)
(* a rotation no event is on a topic more often than once and once for      *)
(* every fault.                                                             *)
THEOREM DuplicatesAreAccounted == Spec => []DuplicatesNeedFailures
<1>1. Init => CountInv
  <2> SUFFICES ASSUME Init PROVE CountInv
    OBVIOUS
  <2>1. OutboxInv
    BY Initially
  <2> QED
    BY <2>1 DEF CountInv, Counted, Init
<1>2. CountInv => DuplicatesNeedFailures
  BY DEF CountInv, Counted, DuplicatesNeedFailures
<1> QED
  BY <1>1, <1>2, CountPreserved, PTL DEF Spec
=============================================================================
