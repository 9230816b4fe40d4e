------------------------- MODULE PublishTransaction -------------------------
(***************************************************************************)
(* The database transaction of publishSnapshot, statement by statement.    *)
(*                                                                         *)
(* SnapshotLifecycle takes it in three steps, the locks of a statement     *)
(* together.  Here every lock is a step, so that transactions meet in the  *)
(* middle of a statement and deadlocks arise.  Postgres runs it at READ    *)
(* COMMITTED: each statement sees what was committed when the statement    *)
(* began and what its own transaction wrote, a row another transaction has *)
(* written is waited for, and after the wait the condition of an UPDATE is *)
(* evaluated again on the row as it then is.  This module says what the    *)
(* publishes of one entity do to its invoices when their transactions      *)
(* overlap.                                                                *)
(***************************************************************************)
EXTENDS Naturals, FiniteSets

CONSTANTS
  Txs,        \* publishes of one entity
  Invoices,   \* its invoices, by (canonical_id, invoice_ref)
  Rows,       \* the invoices the snapshot of each publish reports
  NoTx

VARIABLES
  row,    \* the committed status of each invoice, NONE where there is no row
  own,    \* what each transaction has written and not committed
  tx,     \* where each publish is, and what it has read
  last    \* the publish that committed last

vars == <<row, own, tx, last>>

Status == {"NONE", "OPEN", "SETTLED"}

Publish ==
  [pc: {"read", "insert", "update", "list", "settle", "lock", "commit", "done", "aborted"},
   ins: SUBSET Invoices,       \* found missing by the read before the transaction
   todo: SUBSET Invoices,      \* rows the statement has still to write
   list: SUBSET Invoices,      \* aboutToSettle, which the cascade works on
   before: SUBSET Txs]         \* publishes committed when the settling UPDATE began

TypeOK ==
  /\ row \in [Invoices -> Status]
  /\ own \in [Txs -> [Invoices -> Status]]
  /\ tx \in [Txs -> Publish]
  /\ last \in Txs \cup {NoTx}

Init ==
  /\ row \in [Invoices -> Status]
  /\ own = [t \in Txs |-> [k \in Invoices |-> "NONE"]]
  /\ tx = [t \in Txs |-> [pc |-> "read", ins |-> {}, todo |-> {}, list |-> {}, before |-> {}]]
  /\ last = NoTx

-----------------------------------------------------------------------------
(* Postgres *)

Wrote(t, k) == own[t][k] # "NONE"

\* The row, or the unique key, is another open transaction's.
Held(t, k) == \E u \in Txs \ {t} : Wrote(u, k)

Visible(t, k) == IF Wrote(t, k) THEN own[t][k] ELSE row[k]

InTransaction(t) == tx[t].pc \in {"insert", "update", "list", "settle", "lock", "commit"}

Write(t, k, s) == own' = [own EXCEPT ![t][k] = s]
Release(t) == own' = [own EXCEPT ![t] = [k \in Invoices |-> "NONE"]]

\* The statement is finished with row k.
Done(t, k) == tx' = [tx EXCEPT ![t].todo = @ \ {k}]

\* The rows of the statement are written: the next one is at pc with work todo.
Then(t, pc, todo) ==
  /\ tx[t].todo = {}
  /\ tx' = [tx EXCEPT ![t].pc = pc, ![t].todo = todo]
  /\ UNCHANGED <<row, own, last>>

Abort(t) ==
  /\ Release(t)
  /\ tx' = [tx EXCEPT ![t].pc = "aborted"]
  /\ UNCHANGED <<row, last>>

\* Every transaction of S waits for a row another of S holds.
WaitCycle(S) ==
  \A t \in S :
    /\ tx[t].pc \in {"insert", "update", "lock"} /\ tx[t].todo # {}
    /\ \A k \in tx[t].todo : \E u \in S \ {t} : Wrote(u, k)

\* The deadlock detector cancels a transaction of a wait cycle.
DeadlockVictim(t) ==
  /\ \E S \in SUBSET Txs : t \in S /\ WaitCycle(S)
  /\ Abort(t)

-----------------------------------------------------------------------------
(* publishSnapshot *)

\* existingInvoices is read before the transaction is opened.
ReadExisting(t) ==
  /\ tx[t].pc = "read"
  /\ LET ins == {k \in Rows[t] : row[k] = "NONE"} IN
     tx' = [tx EXCEPT ![t].pc = "insert", ![t].ins = ins, ![t].todo = ins]
  /\ UNCHANGED <<row, own, last>>

\* invoices.createMany
Insert(t, k) ==
  /\ tx[t].pc = "insert" /\ k \in tx[t].todo
  /\ row[k] = "NONE" /\ ~Held(t, k)
  /\ Write(t, k, "OPEN")
  /\ Done(t, k)
  /\ UNCHANGED <<row, last>>

\* Fault: the insert is tried again and the read is not.
UniqueViolationRetries(t) ==
  /\ tx[t].pc = "insert"
  /\ \E k \in tx[t].todo : row[k] # "NONE"
  /\ UNCHANGED vars

UniqueViolation(t) ==
  /\ tx[t].pc = "insert"
  /\ \E k \in tx[t].todo : row[k] # "NONE"
  /\ Abort(t)

Inserted(t) == tx[t].pc = "insert" /\ Then(t, "update", Rows[t] \ tx[t].ins)

\* invoices.update, one statement for each invoice that was there.
Update(t, k) ==
  /\ tx[t].pc = "update" /\ k \in tx[t].todo
  /\ ~Held(t, k)
  /\ Write(t, k, "OPEN")
  /\ Done(t, k)
  /\ UNCHANGED <<row, last>>

Updated(t) == tx[t].pc = "update" /\ Then(t, "list", {})

Absent(t) == {k \in Invoices \ Rows[t] : Visible(t, k) = "OPEN"}

\* aboutToSettle = invoices.findMany
ListAbsent(t) ==
  /\ tx[t].pc = "list"
  /\ tx' = [tx EXCEPT ![t].pc = "settle", ![t].list = Absent(t)]
  /\ UNCHANGED <<row, own, last>>

\* Fault: the update takes the ids of the list.
SettleListed(t) ==
  /\ tx[t].pc = "settle"
  /\ tx' = [tx EXCEPT ![t].pc = "lock", ![t].todo = tx[t].list,
                      ![t].before = {u \in Txs : tx[u].pc = "done"}]
  /\ UNCHANGED <<row, own, last>>

\* invoices.updateMany finds the rows to settle,
Settle(t) ==
  /\ tx[t].pc = "settle"
  /\ tx' = [tx EXCEPT ![t].pc = "lock", ![t].todo = Absent(t),
                      ![t].before = {u \in Txs : tx[u].pc = "done"}]
  /\ UNCHANGED <<row, own, last>>

\* Fault: the row is settled whatever it has become.
SettleRowBlindly(t, k) ==
  /\ tx[t].pc = "lock" /\ k \in tx[t].todo
  /\ ~Held(t, k)
  /\ Write(t, k, "SETTLED")
  /\ Done(t, k)
  /\ UNCHANGED <<row, last>>

\* and settles each, unless it is no longer OPEN once its lock is had.
SettleRow(t, k) ==
  /\ tx[t].pc = "lock" /\ k \in tx[t].todo
  /\ ~Held(t, k)
  /\ IF row[k] = "OPEN" THEN Write(t, k, "SETTLED") ELSE UNCHANGED own
  /\ Done(t, k)
  /\ UNCHANGED <<row, last>>

\* The cascade over the list, the snapshot's and the audit rows follow: they
\* write no invoice.
SettledAll(t) == tx[t].pc = "lock" /\ Then(t, "commit", {})

Commit(t) ==
  /\ tx[t].pc = "commit"
  /\ row' = [k \in Invoices |-> Visible(t, k)]
  /\ last' = t
  /\ Release(t)
  /\ tx' = [tx EXCEPT ![t].pc = "done"]

\* A statement fails, the connection drops, or the 120 s timeout of the
\* transaction ends it.
Fail(t) == InTransaction(t) /\ Abort(t)

Step(t) ==
  \/ ReadExisting(t)
  \/ \E k \in Invoices : Insert(t, k) \/ Update(t, k) \/ SettleRow(t, k)
  \/ UniqueViolation(t)
  \/ Inserted(t) \/ Updated(t) \/ ListAbsent(t) \/ Settle(t) \/ SettledAll(t)
  \/ Commit(t)
  \/ DeadlockVictim(t)

Next == \E t \in Txs : Step(t) \/ Fail(t)

Spec == Init /\ [][Next]_vars

-----------------------------------------------------------------------------
(* Properties *)

\* After a publish every invoice it reports is OPEN, and an OPEN invoice it does
\* not report belongs to a publish that committed after the settling UPDATE had
\* looked.  Publishes of an entity that do not overlap therefore leave exactly the
\* invoices of the latest OPEN.
OpenUnlessLate ==
  last # NoTx =>
    /\ \A k \in Rows[last] : row[k] = "OPEN"
    /\ \A k \in Invoices \ Rows[last] : row[k] = "OPEN" =>
         \E u \in Txs \ tx[last].before : tx[u].pc = "done" /\ k \in Rows[u]

\* A transaction writes only rows it locked, so what it decided on the row holds
\* until it commits: an insert meets no committed row, and a row it settles is OPEN.
WritesStand ==
  \A t \in Txs, k \in Invoices :
    /\ Wrote(t, k) /\ k \in tx[t].ins => row[k] = "NONE"
    /\ own[t][k] = "SETTLED" => row[k] = "OPEN"
    /\ Wrote(t, k) => ~Held(t, k)

\* "mark absent-from-this-upload invoices as SETTLED": when no publish is in its
\* transaction the OPEN invoices are those of the latest one.
AbsentAreSettled ==
  last # NoTx /\ (\A t \in Txs : ~InTransaction(t)) =>
    {k \in Invoices : row[k] = "OPEN"} = Rows[last]

=============================================================================
