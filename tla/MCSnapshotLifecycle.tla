----------------------- MODULE MCSnapshotLifecycle -----------------------
(* Small instances of SnapshotLifecycle for TLC: one entity, two files. *)
EXTENDS SnapshotLifecycle, TLC

CONSTANTS r1, r2, ana, adm, e1, c1, c2, f1, f2, x1, x2

MCRole == [u \in Users |-> IF u = ana THEN "ANALYST" ELSE "ADMIN"]
MCScope == [u \in Users |-> e1]
OneEntity == [c \in Canon |-> e1]
NoWarnings == [f \in Files |-> {}]

\* f1 reports both rows, the other file the second only.
Shrinking == [f \in Files |-> IF f = f1 THEN {x1, x2} ELSE {x2}]
OwnRow == [f \in Files |-> IF f = f1 THEN {x1} ELSE {x2}]

OneRef == [x \in Rows |-> "i1"]
AllMatched == [x \in Rows |-> c1]
FirstUnmapped == [x \in Rows |-> IF x = x1 THEN NoCanon ELSE c1]

\* Requests are interchangeable.
SymmetricReqs == Permutations(Reqs)

=============================================================================
