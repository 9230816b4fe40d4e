--------------------------- MODULE InvoiceChanges ---------------------------
(***************************************************************************)
(* The values of invoices, and the history of their changes that a publish *)
(* writes and an analyst acknowledges.  A publish reads the invoices,      *)
(* compares them with its rows and prepares every write before its         *)
(* transaction begins; an acknowledgement reads the changes before its     *)
(* own.                                                                    *)
(***************************************************************************)
EXTENDS Integers, SequencesExt

CONSTANTS
  Reqs, Users,
  Invoices, Amounts, Dates,
  Currencies,         \* as numbers
  Terms,              \* credit days a row may get
  Snapshots,
  Reported            \* the rows of a snapshot: [invoice, amount, date, currency]

VARIABLES
  value,       \* table invoices: the values of each, or NoInvoice
  history,     \* table invoice_changes, in the order it is written
  first,       \* the value an invoice was created with
  published, acks,    \* snapshots published; audit rows of acknowledgements
  req

vars == <<value, history, first, published, acks, req>>

-----------------------------------------------------------------------------

Fields == {"amount", "due_date", "credit_days", "invoice_date", "currency"}

\* The due date follows from the date and the credit days (calculateAgeing).
Value(row, days) ==
  [amount |-> row.amount, invoice_date |-> row.date, credit_days |-> days,
   due_date |-> row.date + days, currency |-> row.currency]
Row == [invoice : Invoices, amount : Amounts, date : Dates, currency : Currencies]
Values == {Value(row, t) : row \in Row, t \in Terms}
NoInvoice == [amount |-> 0]

Nobody == "nobody"
Change == [invoice : Invoices, snapshot : Snapshots, field : Fields,
           before : Nat, after : Nat, by : Users \cup {Nobody}]

Idle == [pc |-> "idle"]

\* now: the values as the publish will leave them.
Publishing == [pc : {"publish"}, snapshot : Snapshots,
               now : [Invoices -> Values \cup {NoInvoice}],
               inserts : SUBSET Invoices, deltas : Seq(Change)]
Acknowledging == [pc : {"acknowledge"}, user : Users, eligible : SUBSET Nat]

TypeOK ==
  /\ value \in [Invoices -> Values \cup {NoInvoice}] /\ first \in [Invoices -> Values \cup {NoInvoice}]
  /\ history \in Seq(Change)
  /\ published \subseteq Snapshots
  /\ acks \subseteq [user : Users, changes : SUBSET Nat]
  /\ req \in [Reqs -> {Idle} \cup Publishing \cup Acknowledging]

Init ==
  /\ value = [i \in Invoices |-> NoInvoice] /\ first = value
  /\ history = <<>> /\ published = {} /\ acks = {}
  /\ req = [r \in Reqs |-> Idle]

Goto(r, q) == req' = [req EXCEPT ![r] = q]

-----------------------------------------------------------------------------
(* publishSnapshot *)

\* A field of an invoice, if it changed.
Changed(f, prior, next) == IF prior[f] = next[f] THEN <<>> ELSE <<f>>

\* Fault: the due date is not among the fields compared.
DiffNoDue(prior, next) ==
  Changed("amount", prior, next) \o Changed("credit_days", prior, next)
    \o Changed("invoice_date", prior, next) \o Changed("currency", prior, next)

\* diffInvoice: the fields that changed.
Diff(prior, next) ==
  Changed("amount", prior, next) \o Changed("due_date", prior, next)
    \o Changed("credit_days", prior, next) \o Changed("invoice_date", prior, next)
    \o Changed("currency", prior, next)

Deltas(s, i, prior, next) ==
  LET changed == Diff(prior, next) IN
  [k \in DOMAIN changed |->
     [invoice |-> i, snapshot |-> s, field |-> changed[k],
      before |-> prior[changed[k]], after |-> next[changed[k]], by |-> Nobody]]

\* A row of the loop: an invoice that exists, or that an earlier row of the file
\* will create, is compared and updated, any other inserted.
WithRow(s, days, acc, row) ==
  LET i == row.invoice
      next == Value(row, days) IN
  [now |-> [acc.now EXCEPT ![i] = next],
   inserts |-> IF acc.now[i] = NoInvoice THEN acc.inserts \cup {i} ELSE acc.inserts,
   deltas |-> IF acc.now[i] = NoInvoice THEN acc.deltas
              ELSE acc.deltas \o Deltas(s, i, acc.now[i], next)]

Prepared(s, days) ==
  FoldLeft(LAMBDA acc, row : WithRow(s, days, acc, row),
           [now |-> value, inserts |-> {}, deltas |-> <<>>], Reported[s])

FirstRow(s, i) == SelectInSeq(Reported[s], LAMBDA x : x.invoice = i)

PublishRead(r, s) ==
  /\ req[r] = Idle /\ s \notin published
  /\ \E days \in Terms :
       LET prepared == Prepared(s, days) IN
       Goto(r, [pc |-> "publish", snapshot |-> s, now |-> prepared.now,
                inserts |-> prepared.inserts, deltas |-> prepared.deltas])
  /\ UNCHANGED <<value, history, first, published, acks>>

\* The transaction; an insert of an invoice that another publish has made meanwhile
\* violates the unique key and rolls everything back.
PublishWrite(r) ==
  LET q == req[r]
      rows == {Reported[q.snapshot][k].invoice : k \in DOMAIN Reported[q.snapshot]} IN
  /\ q.pc = "publish"
  /\ IF \E i \in q.inserts : value[i] # NoInvoice
     THEN UNCHANGED <<value, history, first, published>>
     ELSE /\ value' = [i \in Invoices |-> IF i \in rows THEN q.now[i] ELSE value[i]]
          /\ history' = history \o q.deltas
          /\ published' = published \cup {q.snapshot}
          /\ first' = [i \in Invoices |->
               IF i \in q.inserts
               THEN Value(Reported[q.snapshot][FirstRow(q.snapshot, i)], q.now[i].credit_days)
               ELSE first[i]]
  /\ Goto(r, Idle)
  /\ UNCHANGED acks

-----------------------------------------------------------------------------
(* acknowledgeInvoiceChanges *)

AckRead(r, u) ==
  /\ req[r] = Idle
  /\ \E asked \in SUBSET DOMAIN history :
       LET eligible == {c \in asked : history[c].by = Nobody} IN
       /\ eligible # {}
       /\ Goto(r, [pc |-> "acknowledge", user |-> u, eligible |-> eligible])
  /\ UNCHANGED <<value, history, first, published, acks>>

\* Fault: the update does not ask whether the change is still open.
SignsAll(r) == req[r].eligible

\* updateMany where acknowledged_at is null
Signs(r) == {c \in req[r].eligible : history[c].by = Nobody}

\* The audit row names all the changes that were eligible.
AckCommit(r) ==
  /\ req[r].pc = "acknowledge"
  /\ history' = [c \in DOMAIN history |->
                   IF c \in Signs(r) THEN [history[c] EXCEPT !.by = req[r].user] ELSE history[c]]
  /\ acks' = acks \cup {[user |-> req[r].user, changes |-> req[r].eligible]}
  /\ Goto(r, Idle)
  /\ UNCHANGED <<value, first, published>>

Next ==
  \E r \in Reqs :
    \/ \E s \in Snapshots : PublishRead(r, s)
    \/ PublishWrite(r)
    \/ \E u \in Users : AckRead(r, u)
    \/ AckCommit(r)

Spec == Init /\ [][Next]_vars

-----------------------------------------------------------------------------

\* The changes of a field of an invoice lead from the value it was created with to
\* the one it has, without a gap: "analysts can see exactly what shifted"
\* (publishSnapshot, diffInvoice).
Explained ==
  \A i \in Invoices, f \in Fields :
    LET own == {k \in DOMAIN history : history[k].invoice = i /\ history[k].field = f}
        Reached(S) == IF S = {} THEN first[i][f] ELSE history[Max(S)].after IN
    value[i] # NoInvoice =>
      /\ Reached(own) = value[i][f]
      /\ \A k \in own : history[k].before = Reached({j \in own : j < k})

\* Whoever acknowledged a change is not replaced by a later request
\* (acknowledgeInvoiceChanges).
KeepsSigner ==
  \A c \in DOMAIN history : history[c].by # Nobody => history'[c].by = history[c].by

=============================================================================
