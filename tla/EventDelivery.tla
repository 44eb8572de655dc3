---------------------------- MODULE EventDelivery ----------------------------
(***************************************************************************)
(* What the outbox promises to the consumers of its topics: delivery at    *)
(* least once.  A row that a commit of the store has recorded is delivered *)
(* any number of times, settled only when it has been, and never delivered *)
(* again after that.  OutboxPublisher implements this, with any number of  *)
(* publishers.                                                             *)
(***************************************************************************)
EXTENDS Naturals

CONSTANT LastEvent

EventIDs == 1 .. LastEvent

VARIABLES
    stage,   \* row -> "absent", "pending" or "settled"
    topic    \* row -> how many records of it the consumers can read

deliveryVars == <<stage, topic>>

Init ==
    /\ stage = [e \in EventIDs |-> "absent"]
    /\ topic = [e \in EventIDs |-> 0]

Record(e) ==
    /\ stage[e] = "absent"
    /\ stage' = [stage EXCEPT ![e] = "pending"]
    /\ UNCHANGED topic

Deliver(e) ==
    /\ stage[e] = "pending"
    /\ topic' = [topic EXCEPT ![e] = @ + 1]
    /\ UNCHANGED stage

(* A publisher's batch is settled as a whole. *)
Settle(batch) ==
    /\ \A e \in batch : stage[e] = "pending" /\ topic[e] > 0
    /\ stage' = [e \in EventIDs |-> IF e \in batch THEN "settled" ELSE stage[e]]
    /\ UNCHANGED topic

Next ==
    \/ \E e \in EventIDs : Record(e) \/ Deliver(e)
    \/ \E batch \in SUBSET EventIDs : Settle(batch)

Spec == Init /\ [][Next]_deliveryVars
=============================================================================
