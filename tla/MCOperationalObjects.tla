------------------------ MODULE MCOperationalObjects ------------------------
(* A small instance of OperationalObjects for TLC: a file that carries the *)
(* same invoice reference in two rows.                                     *)
EXTENDS OperationalObjects, TLC

CONSTANTS r1, i1, i2, o1, s1, x1, x2

OnI1 == [o \in Objs |-> i1]
AllRows == [s \in Snapshots |-> Rows]
SameInvoice == [x \in Rows |-> i1]
AllHighValue == [x \in Rows |-> {"HIGH_VALUE"}]

=============================================================================
