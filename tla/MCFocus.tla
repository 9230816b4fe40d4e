------------------------------ MODULE MCFocus ------------------------------
(* A small instance of Focus for TLC. *)
EXTENDS Focus

CONSTANTS ana, cfo

MCRole == [u \in Users |-> IF u = ana THEN "ANALYST" ELSE "CFO"]
MCScope == [u \in Users |-> "IND"]

Suggested(bucket, amount, signals) ==
  [table |-> "task", id |-> 1, entity |-> "IND", due |-> NoDay, status |-> "SUGGESTED",
   reason |-> "NINETY_PLUS", score |-> PriorityScore(bucket, amount, signals)]

\* One row of each table.
MCCandidates ==
  {Suggested("over90", 30, {"broken promise", "open dispute"}),
   [table |-> "task", id |-> 2, entity |-> "UAE", due |-> 1, status |-> "OPEN",
    reason |-> "MANUAL", score |-> ManualScore],
   [table |-> "follow-up", id |-> 3, entity |-> "IND", due |-> 1],
   [table |-> "promise", id |-> 4, entity |-> "IND", due |-> 0, status |-> "BROKEN"],
   [table |-> "dispute", id |-> 5, entity |-> "IND", due |-> NoDay, status |-> "IN_REVIEW"],
   [table |-> "staged", id |-> 6, entity |-> "UAE", due |-> 0, left |-> {"unmapped row", "warning"}],
   [table |-> "published", id |-> 7, entity |-> "IND", due |-> 0, status |-> "UNRECONCILED"]}

=============================================================================
