------------------------ MODULE MCPublishTransaction ------------------------
(* A small instance of PublishTransaction for TLC: two snapshots of one invoice each. *)
EXTENDS PublishTransaction, TLC

CONSTANTS t1, t2, i1, i2

Disjoint == [t \in Txs |-> IF t = t1 THEN {i1} ELSE {i2}]

=============================================================================
