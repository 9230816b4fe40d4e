------------------------------ MODULE Figures ------------------------------
(***************************************************************************)
(* What is owed, as the pages and exports tell it: the dashboard of an     *)
(* entity and the consolidated one, the list of accounts, the page of a    *)
(* party, the invoice register and the two receivables exports.  Each      *)
(* computes its figures from the tables by itself: some from the rows of   *)
(* the newest snapshot, some from the open invoices, some from both.  Only *)
(* publishes write here, as SnapshotLifecycle has them; a read sees the    *)
(* tables of one moment.  Rounding to cents, the counts of exceptions and  *)
(* changes, and the ten parties a list is cut to are left out.             *)
(***************************************************************************)
EXTENDS Integers, FiniteSets, Sequences, FiniteSetsExt, SequencesExt

CONSTANTS
  Entities, Parties, EntityOf,            \* canonical parties and their entities
  Invoices, PartyOf, CurrencyOf, DatedOn, \* invoices: party, currency, invoice day
  TermOf,                                 \* the credit days a publish resolves
  Days, Amounts,                          \* as-of days; what a file says is owed
  Rates,                                  \* table fx_rates: [from, since, rate] to INR
  ExportRows,                             \* 200: the rows of the ageing export
  MaxPublished                            \* bound

VARIABLES
  published,  \* the published snapshots in order: entity, day, and the rows written
  inv         \* table invoices

vars == <<published, inv>>

EntityOfInvoice(i) == EntityOf[PartyOf[i]]
NewInvoice == [status |-> "NONE", amount |-> 0, firstSeen |-> 0, settledBy |-> 0]

TypeOK ==
  /\ published \in Seq([entity : Entities, day : Days,
       rows : UNION {[S -> [amount : Amounts, times : 1..2]] : S \in SUBSET Invoices}])
  /\ inv \in [Invoices -> [status : {"NONE", "OPEN", "SETTLED"}, amount : Amounts \cup {0},
                           firstSeen : 0..MaxPublished, settledBy : 0..MaxPublished]]

Init == published = <<>> /\ inv = [i \in Invoices |-> NewInvoice]

-----------------------------------------------------------------------------
(* A publish *)

\* publishSnapshotTransaction: the invoices of the file are open, a row is written for
\* each line of it, and what was open and is not in it is settled.
Publish(e, day, rows) ==
  LET n == Len(published) + 1 IN
  /\ n <= MaxPublished
  /\ \A k \in DOMAIN published : published[k].entity = e => published[k].day # day
  /\ published' = Append(published, [entity |-> e, day |-> day, rows |-> rows])
  /\ inv' = [i \in Invoices |->
       CASE i \in DOMAIN rows ->
              [status |-> "OPEN", amount |-> rows[i].amount, settledBy |-> 0,
               firstSeen |-> IF inv[i].status = "NONE" THEN n ELSE inv[i].firstSeen]
         [] i \notin DOMAIN rows /\ EntityOfInvoice(i) = e /\ inv[i].status = "OPEN" ->
              [inv[i] EXCEPT !.status = "SETTLED", !.settledBy = n]
         [] OTHER -> inv[i]]

\* A file may hold an invoice twice.
Files(e) ==
  UNION {[S -> [amount : Amounts, times : 1..2]] :
           S \in SUBSET {i \in Invoices : EntityOfInvoice(i) = e}}

Next == \E e \in Entities, day \in Days : \E rows \in Files(e) : Publish(e, day, rows)

Spec == Init /\ [][Next]_vars

-----------------------------------------------------------------------------
(* Ageing *)

Overdue == <<"0_30", "31_60", "61_90", "90_PLUS">>
OverdueBuckets == {Overdue[k] : k \in 1..4}
Buckets == {"NOT_DUE", "DUE_TODAY"} \cup OverdueBuckets

AgeingBucket(days) ==
  CASE days < 0 -> "NOT_DUE"
    [] days = 0 -> "DUE_TODAY"
    [] days \in 1..30 -> "0_30"
    [] days \in 31..60 -> "31_60"
    [] days \in 61..90 -> "61_90"
    [] days > 90 -> "90_PLUS"

\* calculateAgeing, as the publish of snapshot n did it for invoice i.
LineBucket(n, i) == AgeingBucket(published[n].day - (DatedOn[i] + TermOf[i]))

Sum(of(_), S) == MapThenSumSet(of, S)

\* An amount per bucket, of the members of S.
ByBucket(S, bucket(_), amount(_)) ==
  [b \in Buckets |-> Sum(amount, {x \in S : bucket(x) = b})]

-----------------------------------------------------------------------------
(* The dashboard: the rows of the newest snapshot *)

PublishedOf(e) == {n \in DOMAIN published : published[n].entity = e}
NoSnapshot == 0

\* ORDER BY as_of_date DESC, published_at DESC LIMIT 1.
NewestOf(S) ==
  IF S = {} THEN NoSnapshot
  ELSE CHOOSE n \in S : \A k \in S \ {n} :
         \/ published[k].day < published[n].day
         \/ published[k].day = published[n].day /\ k < n

\* asOf is the day asked for, or, for "latest", any day.
Latest == Days
ResolveSnapshot(e, asOf) == NewestOf({n \in PublishedOf(e) : published[n].day \in asOf})

\* normalizeBucket knows five of the six.
NormalizeBucket(b) == IF b \in {"NOT_DUE"} \cup OverdueBuckets THEN b ELSE "NOT_DUE"

\* The loop over getInvoiceSnapshotRows, at a rate per invoice.
Summed(ns, rate) ==
  LET rows == {x \in ns \X Invoices : x[2] \in DOMAIN published[x[1]].rows}
      amount(x) == published[x[1]].rows[x[2]].amount * published[x[1]].rows[x[2]].times * rate[x[2]]
      bucket(x) == NormalizeBucket(LineBucket(x[1], x[2]))
      of(p) == {x \in rows : PartyOf[x[2]] = p}
  IN [total |-> Sum(amount, rows),
      overdue |-> Sum(amount, {x \in rows : bucket(x) # "NOT_DUE"}),
      buckets |-> ByBucket(rows, bucket, amount),
      parties |-> [p \in Parties |-> Sum(amount, of(p))],
      over90 |-> {p \in Parties : \E x \in of(p) : bucket(x) = "90_PLUS"}]

Unconverted == [i \in Invoices |-> 1]
DashboardOfEntity(n) == Summed({n}, Unconverted)

\* lookupFxRate: the latest rate of the invoice day, or an error that ends the request.
Covering(i) == {r \in Rates : r.from = CurrencyOf[i] /\ r.since <= DatedOn[i]}
HasRate(i) == CurrencyOf[i] = "INR" \/ Covering(i) # {}
RateOf == [i \in {j \in Invoices : HasRate(j)} |->
  IF CurrencyOf[i] = "INR" THEN 1
  ELSE (CHOOSE r \in Covering(i) : \A s \in Covering(i) : s.since <= r.since).rate]

\* The day of the newest snapshot of any entity, or the day asked for.
ReferenceDay(asOf) ==
  LET n == NewestOf({k \in DOMAIN published : published[k].day \in asOf})
  IN IF n = NoSnapshot THEN {} ELSE {published[n].day}

\* The snapshot of that day, else the newest one whatever its day.
ForConsolidated(e, day) ==
  IF ResolveSnapshot(e, {day}) # NoSnapshot THEN ResolveSnapshot(e, {day})
  ELSE ResolveSnapshot(e, Latest)

Consolidated(day) ==
  Summed({ForConsolidated(e, day) : e \in Entities} \ {NoSnapshot}, RateOf)

ConsolidatedAnswers(day) ==
  \A e \in Entities : ForConsolidated(e, day) # NoSnapshot =>
    \A i \in DOMAIN published[ForConsolidated(e, day)].rows : HasRate(i)

-----------------------------------------------------------------------------
(* Accounts and the page of a party: the open invoices, with their newest row *)

Open(S) == {i \in S : inv[i].status = "OPEN"}
InvoicesOf(p) == {i \in Invoices : PartyOf[i] = p}

LinesOf(i) == {n \in DOMAIN published : i \in DOMAIN published[n].rows}

\* Fault: the rows of an invoice are read in ascending order.
OldestLine(i) ==
  CHOOSE n \in LinesOf(i) : \A k \in LinesOf(i) : published[n].day <= published[k].day

\* invoice_snapshots: { orderBy: { as_of_date: "desc" }, take: 1 }
NewestLine(i) == NewestOf(LinesOf(i))

Bucket(i) == IF LinesOf(i) = {} THEN "NOT_DUE" ELSE LineBucket(NewestLine(i), i)
Outstanding(i) ==
  IF LinesOf(i) = {} THEN inv[i].amount ELSE published[NewestLine(i)].rows[i].amount

\* getPartyDetail
PartyTotal(p) == Sum(Outstanding, Open(InvoicesOf(p)))

\* BUCKET_RANK: what it does not know ranks with NOT_DUE.
BucketRank(b) == IF b \in OverdueBuckets THEN CHOOSE k \in 1..4 : Overdue[k] = b ELSE 0

\* summarizeAccount
Account(p) ==
  LET open == Open(InvoicesOf(p))
      worst == {i \in open : BucketRank(Bucket(i)) > 0 /\
                  \A j \in open : BucketRank(Bucket(j)) <= BucketRank(Bucket(i))}
  IN [total |-> Sum(Outstanding, open),
      overdue |-> Sum(Outstanding, {i \in open : Bucket(i) # "NOT_DUE"}),
      worst |-> IF worst = {} THEN "NOT_DUE" ELSE Bucket(CHOOSE i \in worst : TRUE)]

-----------------------------------------------------------------------------
(* The invoice register and the exports *)

\* getLatestPublishedSnapshotIds: published last, whatever its day.
LatestIds ==
  {n \in DOMAIN published : \A k \in PublishedOf(published[n].entity) : k <= n}

\* The WHERE of count and of the page.
Matching(q) ==
  {i \in Invoices :
     /\ inv[i].status # "NONE"
     /\ q.entity \in {"ANY", EntityOfInvoice(i)} /\ q.party \in {"ANY", PartyOf[i]}
     /\ q.status \in {"ANY", inv[i].status}
     /\ q.change = "new" => inv[i].firstSeen \in LatestIds
     /\ q.change = "closed" => inv[i].status = "SETTLED" /\ inv[i].settledBy \in LatestIds}

\* Newest invoice first, those of one day in any order; the bucket is asked for after the
\* page was cut. The rows that are left stand at their places.
ListInvoices(q) ==
  LET sorted == CHOOSE s \in SetToSeqs(Matching(q)) :
                  \A j, k \in DOMAIN s : j < k => DatedOn[s[j]] >= DatedOn[s[k]]
      before == (q.page - 1) * q.size
      paged == {k \in DOMAIN sorted : before < k /\ k <= before + q.size}
      taken == {k \in paged : q.bucket \in {"ANY", Bucket(sorted[k])}}
  IN [items |-> [k \in taken |-> sorted[k]], total |-> Cardinality(Matching(q))]

AllOpen(e) ==
  [status |-> "OPEN", entity |-> e, party |-> "ANY", change |-> "all", bucket |-> "ANY",
   page |-> 1, size |-> Cardinality(Invoices)]

\* What somebody finds who asks for a bucket and leafs through pages of one row.
Leafed(e, b) ==
  {i \in Invoices : \E page \in 1..Cardinality(Invoices) :
     i \in Range(ListInvoices([AllOpen(e) EXCEPT !.bucket = b, !.page = page, !.size = 1]).items)}

\* /reports/ageing: the first rows of the register.
AgeingReport(e) ==
  LET items == ListInvoices([AllOpen(e) EXCEPT !.size = ExportRows]).items
  IN [k \in DOMAIN items |-> [invoice |-> items[k], amount |-> inv[items[k]].amount,
                              bucket |-> Bucket(items[k])]]

\* /reports/parties: one row per party, by the amount of the invoice.
PartiesReport(e) ==
  LET items == ListInvoices(AllOpen(e)).items
      listed == Range(items)
      amount(i) == inv[i].amount
      of(p) == {i \in listed : PartyOf[i] = p}
  IN [p \in {PartyOf[i] : i \in listed} |->
       [total |-> Sum(amount, of(p)), buckets |-> ByBucket(of(p), Bucket, amount)]]

-----------------------------------------------------------------------------

\* The snapshots of every entity were published in the order of their days.
InOrder ==
  \A k, n \in DOMAIN published :
    k < n /\ published[k].entity = published[n].entity => published[k].day < published[n].day

\* No two invoices are of one day: two reads of the register may give those in two orders.
NoTies == \A i, j \in Invoices : DatedOn[i] = DatedOn[j] => i = j

NoRowTwice(n) == \A i \in DOMAIN published[n].rows : published[n].rows[i].times = 1

\* The dashboard of an entity, which reads the rows of its snapshot n, agrees with its
\* parties' pages, the accounts and the party export, in total, party by party and in every
\* overdue bucket, with the ageing export while that holds every row, and with the register
\* leafed through by bucket.
EntityAgrees(e, n) ==
  LET shown == DashboardOfEntity(n)
      report == PartiesReport(e)
      rows == AgeingReport(e)
      here == {p \in Parties : EntityOf[p] = e}
  IN /\ \A p \in here :
          /\ PartyTotal(p) = shown.parties[p] /\ Account(p).total = shown.parties[p]
          /\ p \in DOMAIN report => report[p].total = shown.parties[p]
          /\ p \in DOMAIN report <=> \E i \in DOMAIN published[n].rows : PartyOf[i] = p
          /\ p \in shown.over90 <=> Account(p).worst = "90_PLUS"
     /\ Sum(PartyTotal, here) = shown.total
     /\ \A b \in OverdueBuckets :
          Sum(LAMBDA p : report[p].buckets[b], DOMAIN report) = shown.buckets[b]
     /\ Cardinality(DOMAIN rows) < ExportRows =>
          Sum(LAMBDA k : rows[k].amount, DOMAIN rows) = shown.total
     /\ NoTies =>
          \A b \in OverdueBuckets : Sum(Outstanding, Leafed(e, b)) = shown.buckets[b]

\* The consolidated dashboard agrees with the open invoices, converted.
ConsolidatedAgrees(day) ==
  Consolidated(day).total = Sum(LAMBDA i : RateOf[i] * Outstanding(i), Open(Invoices))

\* What one page says is owed, another says too: where snapshots are published in the
\* order of their days and a file holds no invoice twice, the dashboard of every entity
\* agrees with its pages and exports, and so does the consolidated one when the rates are
\* there.
FiguresAgree ==
  InOrder =>
  /\ \A e \in Entities : LET n == ResolveSnapshot(e, Latest) IN
       n # NoSnapshot /\ NoRowTwice(n) => EntityAgrees(e, n)
  /\ \A day \in ReferenceDay(Latest) :
       ConsolidatedAnswers(day) /\ (\A n \in LatestIds : NoRowTwice(n)) =>
         ConsolidatedAgrees(day)

=============================================================================
