-------------------------- MODULE MCOutboxPublisher --------------------------
(* Small instances of OutboxPublisher for TLC. *)
EXTENDS OutboxPublisher

(* Row 1 receives a package, row 2 is its decision, the others packages. *)
FollowsFirst == [e \in EventIDs |-> IF e = 2 THEN 1 ELSE 0]
=============================================================================
