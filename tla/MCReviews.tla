------------------------------ MODULE MCReviews ------------------------------
(***************************************************************************)
(* A small instance of SnapshotLifecycle for TLC: one file, with a warning *)
(* and a row that did not parse, for one of two entities, of which the     *)
(* first wants a review before anything is published.                      *)
(***************************************************************************)
EXTENDS SnapshotLifecycle, TLC

CONSTANTS r1, r2, adm, rev, e1, e2, c1, c2, f1, x1, x2, w1

MCRole == [u \in Users |-> IF u = adm THEN "ADMIN" ELSE "REVIEWER"]
MCScope == [u \in Users |-> e1]

\* A party for each entity; the rows match the first entity's.
PartyEntity == [c \in Canon |-> IF c = c1 THEN e1 ELSE e2]
AllMatched == [x \in Rows |-> c1]
OneRef == [x \in Rows |-> "i1"]
BothRows == [f \in Files |-> Rows]
OneWarning == [f \in Files |-> {w1}]

\* Requests are interchangeable.
SymmetricReqs == Permutations(Reqs)

=============================================================================
