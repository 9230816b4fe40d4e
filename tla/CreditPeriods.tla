---------------------------- MODULE CreditPeriods ----------------------------
(***************************************************************************)
(* The credit periods of the canonical parties.  Each party has rows that  *)
(* say how many days it may take to pay, from a date on; the row without   *)
(* valid_to is open, and there is at most one (unique index                *)
(* ix_credit_period_config_open).  The configuration pages add a row and   *)
(* change the days of the open one, a CREDIT_PERIOD workbook does both on  *)
(* publish, and the publish of invoices looks up the days of each row.     *)
(*                                                                         *)
(* A writing transaction takes effect when it commits; what it read of a   *)
(* party may have changed by then.                                         *)
(***************************************************************************)
EXTENDS Integers, Sequences, FiniteSets

CONSTANTS
  Reqs,              \* slots for requests in flight
  Users, Role, Scope,\* users, their role, the entity an analyst works in
  Parties, EntityOf, \* canonical parties and their entities
  Books,             \* ids (positive) of staged CREDIT_PERIOD workbooks
  MaxDay,            \* bound on the dates
  Terms,             \* numbers of credit days
  MaxRows            \* bound on the rows of a party

VARIABLES
  rows,        \* table credit_period_config: the rows of a party, oldest insert first
  default,     \* entities.default_credit_days
  book,        \* what a workbook says, of whom and from when, and whether it is STAGED
  req

vars == <<rows, default, book, req>>

-----------------------------------------------------------------------------

Days == 1 .. MaxDay
Entities == {EntityOf[p] : p \in Parties}
Open == MaxDay + 1                      \* valid_to IS NULL
Period == [from: Days, to: 0 .. Open, days: Terms]
NoTerm == -1                            \* default_credit_days IS NULL
Book == [parties: SUBSET Parties \ {{}}, from: Days, days: Terms, staged: BOOLEAN]
NoBook == 0

Idle == [pc |-> "idle"]
\* A transaction still has to read the open rows of todo, and read those of prior
\* (0: there was none).
Writing == [pc: {"write"}, book: Books \cup {NoBook}, from: Days, days: Terms,
            todo: SUBSET Parties, prior: UNION {[P -> 0 .. MaxRows] : P \in SUBSET Parties}]
Patching == [pc: {"patch"}, party: Parties, row: 1 .. MaxRows, days: Terms]

TypeOK ==
  /\ \A p \in Parties :
       rows[p] \in Seq(Period) /\ Len(rows[p]) =< MaxRows
  /\ default \in [Entities -> Terms \cup {NoTerm}]
  /\ book \in [Books -> Book]
  /\ req \in [Reqs -> {Idle} \cup Writing \cup Patching]

Init ==
  /\ rows = [p \in Parties |-> <<>>]
  /\ default \in [Entities -> Terms \cup {NoTerm}]
  /\ book \in [Books -> {b \in Book : b.staged}]
  /\ req = [r \in Reqs |-> Idle]

At(r, pc) == req[r].pc = pc
Goto(r, q) == req' = [req EXCEPT ![r] = q]
End(r) == Goto(r, Idle)

OpenRows(p) == {i \in DOMAIN rows[p] : rows[p][i].to = Open}
MayWrite(u, p) ==
  /\ Role[u] \in {"ANALYST", "ADMIN"}
  /\ Role[u] = "ANALYST" => Scope[u] = EntityOf[p]

-----------------------------------------------------------------------------
(* Looking up the credit days *)

Covers(row, d) == row.from =< d /\ d =< row.to
Covering(p, d) == {i \in DOMAIN rows[p] : Covers(rows[p][i], d)}

\* canResolveCreditDays, for a row without an override
CanResolve(p, d) == Covering(p, d) # {} \/ default[EntityOf[p]] # NoTerm

\* resolveCreditDaysFromConfigs without an override: of the rows that cover the
\* date the latest, else the default of the entity, else an error.
Resolved(p, d) ==
  IF Covering(p, d) = {} THEN {default[EntityOf[p]]}
  ELSE {rows[p][i].days : i \in {j \in Covering(p, d) :
          \A k \in Covering(p, d) : rows[p][k].from =< rows[p][j].from}}

\* The page shows the open row, else the default.
Summary(p) ==
  IF OpenRows(p) = {} THEN {default[EntityOf[p]]} ELSE {rows[p][i].days : i \in OpenRows(p)}

-----------------------------------------------------------------------------
(* Writing: createCreditPeriod, publishCreditPeriodSnapshot *)

Write(b, P, d, n) ==
  [pc |-> "write", book |-> b, from |-> d, days |-> n, todo |-> P, prior |-> [p \in {} |-> 0]]

CreateBegin(r, u, p, d, n) ==
  /\ At(r, "idle") /\ MayWrite(u, p)
  /\ Goto(r, Write(NoBook, {p}, d, n))
  /\ UNCHANGED <<rows, default, book>>

\* bulkCreateCreditPeriod runs up to 25 creations at once, each in a transaction
\* of its own; one that fails is reported and the others stand.  Nothing keeps a
\* party from being listed twice.
BulkBegin(S, u, P, d, n) ==
  /\ Role[u] \in {"ANALYST", "ADMIN"}
  /\ \A r \in S : At(r, "idle")
  /\ \E f \in [S -> P] :
       req' = [r \in Reqs |->
         IF r \in S /\ MayWrite(u, f[r]) THEN Write(NoBook, {f[r]}, d, n) ELSE req[r]]
  /\ UNCHANGED <<rows, default, book>>

\* prepareCreditPeriodPublishRows: each row of the workbook is of a party of its own,
\* and the user may work on all of them.
Prepared(u, b) == \A p \in book[b].parties : MayWrite(u, p)

\* The as-of date of the snapshot becomes the start of the period.
PublishBegin(r, u, b) ==
  /\ At(r, "idle") /\ book[b].staged /\ Prepared(u, b)
  /\ Goto(r, Write(b, book[b].parties, book[b].from, book[b].days))
  /\ UNCHANGED <<rows, default, book>>

\* The transaction looks for the open row of the next party.  A publish ends,
\* and writes nothing, when one starts after its date.
ReadPrior(r, p) ==
  LET q == req[r]
      conflict == \E i \in OpenRows(p) : q.book # NoBook /\ rows[p][i].from > q.from
      found == IF OpenRows(p) = {} THEN 0 ELSE CHOOSE i \in OpenRows(p) : TRUE IN
  /\ At(r, "write") /\ p \in q.todo
  /\ IF conflict THEN End(r)
     ELSE Goto(r, [q EXCEPT !.todo = @ \ {p},
            !.prior = [x \in DOMAIN @ \cup {p} |-> IF x = p THEN found ELSE q.prior[x]]])
  /\ UNCHANGED <<rows, default, book>>

New(q) == [from |-> q.from, to |-> Open, days |-> q.days]

\* Fault: a day too early.
ClosedEarly(q, p) ==
  [i \in DOMAIN rows[p] |->
     IF i = q.prior[p] THEN [rows[p][i] EXCEPT !.to = q.from - 2] ELSE rows[p][i]]

\* The row found is closed on the eve.  The update names the id only.
Closed(q, p) ==
  [i \in DOMAIN rows[p] |->
     IF i = q.prior[p] THEN [rows[p][i] EXCEPT !.to = q.from - 1] ELSE rows[p][i]]

RowsCreated(q, p) == Append(Closed(q, p), New(q))

\* A publish of the day on which the row found starts changes that row.
SameDay(q, p) == q.book # NoBook /\ q.prior[p] # 0 /\ rows[p][q.prior[p]].from = q.from

RowsPublished(q, p) ==
  IF SameDay(q, p) THEN [rows[p] EXCEPT ![q.prior[p]].days = q.days]
  ELSE Append(Closed(q, p), New(q))

\* Fault: the prior row ends on the day the new one starts.
RowsAfterSharesDay(q, p) ==
  LET closed == [i \in DOMAIN rows[p] |->
        IF i = q.prior[p] THEN [rows[p][i] EXCEPT !.to = q.from] ELSE rows[p][i]] IN
  IF SameDay(q, p) THEN [rows[p] EXCEPT ![q.prior[p]].days = q.days] ELSE Append(closed, New(q))

\* The rows of a party after the transaction.
RowsAfter(q, p) == IF q.book = NoBook THEN RowsCreated(q, p) ELSE RowsPublished(q, p)

\* ix_credit_period_config_open: no open row but the one the insert replaces.
IndexAdmits(q, p) == SameDay(q, p) \/ OpenRows(p) \subseteq {q.prior[p]}

\* All rows are written, or the transaction fails.  The update of the snapshot names
\* the id only.
Commit(r) ==
  LET q == req[r] IN
  /\ At(r, "write") /\ q.todo = {}
  /\ IF \A p \in DOMAIN q.prior : IndexAdmits(q, p)
     THEN /\ rows' = [p \in Parties |-> IF p \in DOMAIN q.prior THEN RowsAfter(q, p) ELSE rows[p]]
          /\ book' = [b \in Books |-> IF b = q.book THEN [book[b] EXCEPT !.staged = FALSE] ELSE book[b]]
     ELSE UNCHANGED <<rows, book>>
  /\ \A p \in Parties : Len(rows'[p]) =< MaxRows
  /\ End(r)
  /\ UNCHANGED default

-----------------------------------------------------------------------------
(* patchCreditPeriod, updateEntityDefault *)

PatchBegin(r, u, p, n) ==
  /\ At(r, "idle") /\ Role[u] = "ADMIN"
  /\ \E i \in OpenRows(p) : Goto(r, [pc |-> "patch", party |-> p, row |-> i, days |-> n])
  /\ UNCHANGED <<rows, default, book>>

\* The update names the id; whether the row is still open is not asked again.
PatchCommit(r) ==
  LET q == req[r] IN
  /\ At(r, "patch")
  /\ rows' = [rows EXCEPT ![q.party][q.row].days = q.days]
  /\ End(r)
  /\ UNCHANGED <<default, book>>

SetDefault(u, e, n) ==
  /\ Role[u] \in {"ANALYST", "ADMIN"}
  /\ default' = [default EXCEPT ![e] = n]
  /\ UNCHANGED <<rows, book, req>>

-----------------------------------------------------------------------------

Die(r) == ~At(r, "idle") /\ End(r) /\ UNCHANGED <<rows, default, book>>

Begin(r, u) ==
  \/ \E b \in Books : PublishBegin(r, u, b)
  \/ \E p \in Parties, d \in Days, n \in Terms : CreateBegin(r, u, p, d, n)
  \/ \E p \in Parties, n \in Terms : PatchBegin(r, u, p, n)

Advance(r) == (\E p \in Parties : ReadPrior(r, p)) \/ Commit(r) \/ PatchCommit(r) \/ Die(r)

Next ==
  \/ \E r \in Reqs : Advance(r) \/ \E u \in Users : Begin(r, u)
  \/ \E S \in SUBSET Reqs, u \in Users, d \in Days, n \in Terms :
       Cardinality(S) > 1 /\ BulkBegin(S, u, Parties, d, n)
  \/ \E u \in Users, e \in Entities, n \in Terms \cup {NoTerm} : SetDefault(u, e, n)

Spec == Init /\ [][Next]_vars

-----------------------------------------------------------------------------

\* No row of the party was ever added before the start of an older one.
InOrder(p) ==
  \A i, j \in DOMAIN rows[p] : i < j => rows[p][i].from =< rows[p][j].from

\* As long as periods are added in the order of their dates, the days of every date
\* are those of the row last added that has begun by then, whatever creations,
\* bulk creations and publishes overlap (createCreditPeriod,
\* publishCreditPeriodSnapshot, resolveCreditDaysFromConfigs).
LatestDecides ==
  \A p \in Parties : InOrder(p) => \A d \in Days :
    LET begun == {i \in DOMAIN rows[p] : rows[p][i].from =< d} IN
    Resolved(p, d) = IF begun = {} THEN {default[EntityOf[p]]}
                     ELSE {rows[p][i].days : i \in {j \in begun : \A k \in begun : k =< j}}

\* Three look-ups are written apart and agree: the publish gate lets a row pass
\* exactly when the publish will find its days, and the page shows what an invoice
\* of the last day will get (canResolveCreditDays, resolveCreditDaysFromConfigs,
\* listPartiesWithCreditPeriodSummary).
LookupsAgree ==
  \A p \in Parties :
    /\ \A d \in Days : CanResolve(p, d) <=> NoTerm \notin Resolved(p, d)
    /\ InOrder(p) => Summary(p) = Resolved(p, MaxDay)

=============================================================================
