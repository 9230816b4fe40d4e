------------------------------- MODULE Focus -------------------------------
(***************************************************************************)
(* The focus queue and the command centre of the home page: the rows of    *)
(* the operational tables that need somebody today, as items of one list   *)
(* in an order, of which the home page takes the first.  The rows come and *)
(* go as OperationalObjects, SnapshotLifecycle and the follow-up form have *)
(* it; a read sees the tables of one moment.  The caps of 50 and 100 rows  *)
(* per table and the texts of the items are left out.                      *)
(***************************************************************************)
EXTENDS Integers, Sequences, FiniteSets, SequencesExt

CONSTANTS
  Users, Role, Scope,    \* users, their role, the entity of an analyst
  Candidates,            \* rows that may come and go
  HomeLimit,             \* 7: the items the home page asks for
  MaxDay                 \* bound

VARIABLES
  rows,    \* the rows of the tables
  today

vars == <<rows, today>>

NoDay == MaxDay + 1      \* no date: sorted as "9999-12-31"

TypeOK == rows \subseteq Candidates /\ today \in 0 .. MaxDay

Init == rows = {} /\ today = 0

-----------------------------------------------------------------------------
(* Scores *)

BucketPoints ==
  [NOT_DUE |-> 0, DUE_TODAY |-> 0, upTo30 |-> 10, upTo60 |-> 20, upTo90 |-> 30, over90 |-> 40]

\* computePriorityScore: amount is the part of the high-value threshold, in 30ths.
PriorityScore(bucket, amount, signals) ==
  LET score == BucketPoints[bucket] + (IF amount > 30 THEN 30 ELSE amount)
                 + (IF "broken promise" \in signals THEN 20 ELSE 0)
                 + (IF "open dispute" \in signals THEN 10 ELSE 0)
                 + (IF "stale contact" \in signals THEN 5 ELSE 0)
  IN IF score > 100 THEN 100 ELSE score

ManualScore == 50

\* mapTask, mapFollowUp, mapPtp, mapDispute, mapStaging, mapReconciliation
Score(row) ==
  CASE row.table = "task" -> row.score
    [] row.table = "follow-up" -> 72
    [] row.table = "promise" -> 95
    [] row.table = "dispute" ->
         (CASE row.status = "IN_REVIEW" -> 84 [] row.status = "WAITING_ON_CUSTOMER" -> 76
            [] OTHER -> 80)
    [] row.table = "staged" -> 90
    [] row.table = "published" -> IF row.status = "MISMATCHED" THEN 88 ELSE 66

-----------------------------------------------------------------------------
(* The queue: getFocusQueue *)

\* countStagingBlockers.  The stored rows carry no alias resolution, so one without a
\* party is never counted.
Blockers(row) == row.left \cap {"parse error", "file error", "warning"}

\* The WHERE of each of the six reads, and the rows that map to no item.
Wanted(row) ==
  CASE row.table = "task" ->
         /\ row.status \in {"SUGGESTED", "OPEN", "IN_PROGRESS", "SNOOZED"}
         /\ row.due <= today \/ row.reason = "NINETY_PLUS" \/ row.score >= 80
    [] row.table = "follow-up" -> row.due <= today
    [] row.table = "promise" -> row.status = "BROKEN"
    [] row.table = "dispute" -> row.status \in {"OPEN", "IN_REVIEW", "WAITING_ON_CUSTOMER"}
    [] row.table = "staged" -> Blockers(row) # {}
    [] row.table = "published" -> row.status \in {"MISMATCHED", "UNRECONCILED"}

Visible(u, row) == Role[u] = "ANALYST" => row.entity = Scope[u]

\* The digits that follow the minus sign in itemSortKey; zero has no sign, and a
\* digit sorts after the sign.
KeyText(score) ==
  <<IF score = 0 THEN 1 ELSE 0>> \o
  (IF score < 10 THEN <<score>>
   ELSE IF score < 100 THEN <<score \div 10, score % 10>>
   ELSE <<score \div 100, (score \div 10) % 10, score % 10>>)

\* localeCompare of the two texts; what ends first is followed by "|", which sorts
\* before a digit.
TextBefore(s, t) ==
  \/ IsStrictPrefix(s, t)
  \/ \E k \in DOMAIN s \cap DOMAIN t :
       s[k] < t[k] /\ \A j \in 1 .. k - 1 : s[j] = t[j]

\* Score, due date, entity, id.
SortsBefore(a, b) ==
  LET s == KeyText(Score(a))
      t == KeyText(Score(b)) IN
  \/ TextBefore(s, t)
  \/ s = t /\ a.due < b.due
  \/ s = t /\ a.due = b.due /\ a.id < b.id

Items(u) ==
  SetToSortSeq({row \in rows : Wanted(row) /\ Visible(u, row)}, SortsBefore)

-----------------------------------------------------------------------------
(* The home page: getHomeCommandCenter *)

HomeItems(u) ==
  SubSeq(Items(u), 1, IF Len(Items(u)) < HomeLimit THEN Len(Items(u)) ELSE HomeLimit)

-----------------------------------------------------------------------------

Appears(row) == row \notin rows /\ rows' = rows \cup {row} /\ UNCHANGED today
Leaves(row) == row \in rows /\ rows' = rows \ {row} /\ UNCHANGED today
NextDay == today < MaxDay /\ today' = today + 1 /\ UNCHANGED rows

Next == (\E row \in Candidates : Appears(row) \/ Leaves(row)) \/ NextDay

Spec == Init /\ [][Next]_vars

-----------------------------------------------------------------------------

\* "Prioritize the highest-risk receivables first." (src/app/page.tsx:397, the heading of
\* the home page): what the page leaves out has no higher score than what it shows.
HighestFirst ==
  \A u \in Users :
    \A shown \in ToSet(HomeItems(u)) : \A out \in ToSet(Items(u)) \ ToSet(HomeItems(u)) :
      Score(out) <= Score(shown)

=============================================================================
