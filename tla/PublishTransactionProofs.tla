----------------------- MODULE PublishTransactionProofs -----------------------
(***************************************************************************)
(* What overlapping publish transactions keep, for any number of publishes *)
(* and invoices, proved with TLAPS: what a transaction decided on a row    *)
(* stands until it commits, and what is OPEN after a publish is reported   *)
(* by it or came later.                                                    *)
(***************************************************************************)
EXTENDS PublishTransaction, TLAPS

-----------------------------------------------------------------------------
(* The inductive invariant *)

\* A row is written by one open transaction at most,
Exclusive ==
  \A t, u \in Txs, k \in Invoices : Wrote(t, k) /\ Wrote(u, k) => t = u

\* and what is not in its transaction has written nothing.
InsideOf(t) == InTransaction(t) \/ \A k \in Invoices : ~Wrote(t, k)

\* What a publish read before it writes: missing invoices among its own, and
\* publishes that are done.
ReadsOf(t) ==
  /\ tx[t].ins \subseteq Rows[t]
  /\ \A u \in tx[t].before : tx[u].pc = "done"

\* Written OPEN is what the publish reports, SETTLED what it does not; an inserted row
\* is missing and a settled one OPEN outside the transaction.
WritesOf(t) ==
  \A k \in Invoices :
    /\ own[t][k] = "OPEN" => k \in Rows[t] /\ (k \in tx[t].ins => row[k] = "NONE")
    /\ own[t][k] = "SETTLED" => k \notin Rows[t] /\ row[k] = "OPEN"

\* How far the statements have come.
StatementsOf(t) ==
  /\ tx[t].pc = "insert" =>
       /\ tx[t].todo \subseteq tx[t].ins
       /\ \A k \in tx[t].ins \ tx[t].todo : own[t][k] = "OPEN"
  /\ tx[t].pc = "update" =>
       /\ tx[t].todo \subseteq Rows[t] \ tx[t].ins
       /\ \A k \in Rows[t] \ tx[t].todo : own[t][k] = "OPEN"
  /\ tx[t].pc \in {"list", "settle", "lock", "commit"} =>
       \A k \in Rows[t] : own[t][k] = "OPEN"
  /\ tx[t].pc = "lock" => tx[t].todo \cap Rows[t] = {}

\* An invoice k reported by a publish that committed after the settling UPDATE of t
\* had looked.
Late(t, k) == \E u \in Txs \ tx[t].before : tx[u].pc = "done" /\ k \in Rows[u]

\* What a publish has settled, or not found to settle, is OPEN only if it came late.
SettlingOf(t) ==
  \A k \in Invoices \ Rows[t] :
    /\ tx[t].pc = "lock" /\ k \notin tx[t].todo /\ Visible(t, k) = "OPEN" => Late(t, k)
    /\ tx[t].pc = "commit" /\ Visible(t, k) = "OPEN" => Late(t, k)

Local(t) == InsideOf(t) /\ ReadsOf(t) /\ WritesOf(t) /\ StatementsOf(t) /\ SettlingOf(t)

\* The publish that committed last is done, and the ledger is as it left it.
LastTrue ==
  last # NoTx =>
    /\ tx[last].pc = "done"
    /\ \A k \in Rows[last] : row[k] = "OPEN"
    /\ \A k \in Invoices \ Rows[last] : row[k] = "OPEN" => Late(last, k)

Inv == TypeOK /\ Exclusive /\ LastTrue /\ \A t \in Txs : Local(t)

\* What the publishes of an entity are: each reports some of its invoices.
Publishes == Rows \in [Txs -> SUBSET Invoices] /\ NoTx \notin Txs

-----------------------------------------------------------------------------

LEMMA InitHolds == ASSUME Publishes, Init PROVE Inv
<1>1. TypeOK
  BY DEF Publishes, Init, TypeOK, Publish, Status
<1>2. ASSUME NEW t \in Txs PROVE Local(t) /\ \A k \in Invoices : ~Wrote(t, k)
  BY DEF Publishes, Init, Local, InsideOf, ReadsOf, WritesOf, StatementsOf, SettlingOf, Wrote
<1> QED
  BY <1>1, <1>2 DEF Inv, Init, Exclusive, LastTrue

\* The record of t becomes p, what it has written o, and the others keep theirs.
Becomes(t, p, o) ==
  /\ tx' = [tx EXCEPT ![t] = p]
  /\ own' = [own EXCEPT ![t] = o]

LEMMA Becoming ==
  ASSUME TypeOK, NEW t \in Txs, NEW p \in Publish, NEW o \in [Invoices -> Status],
         Becomes(t, p, o), row' \in [Invoices -> Status], last' \in Txs \cup {NoTx}
  PROVE  /\ TypeOK'
         /\ tx'[t] = p /\ own'[t] = o
         /\ \A u \in Txs \ {t} : tx'[u] = tx[u] /\ own'[u] = own[u]
<1>1. tx' \in [Txs -> Publish] /\ tx'[t] = p /\ \A u \in Txs \ {t} : tx'[u] = tx[u]
  BY DEF TypeOK, Becomes
<1>2. own' \in [Txs -> [Invoices -> Status]] /\ own'[t] = o
      /\ \A u \in Txs \ {t} : own'[u] = own[u]
  BY DEF TypeOK, Becomes
<1> QED
  BY <1>1, <1>2 DEF TypeOK

Nothing == [k \in Invoices |-> "NONE"]

\* What each step makes of the record of its publish.
At(t, pc, todo) == [tx[t] EXCEPT !.pc = pc, !.todo = todo]

LEMMA AbortBecomes ==
  ASSUME TypeOK, NEW t \in Txs, Abort(t)
  PROVE  /\ Becomes(t, [tx[t] EXCEPT !.pc = "aborted"], Nothing)
         /\ [tx[t] EXCEPT !.pc = "aborted"] \in Publish
         /\ Nothing \in [Invoices -> Status]
<1>1. tx[t] \in Publish
  BY DEF TypeOK
<1> QED
  BY <1>1 DEF Abort, Release, Becomes, Nothing, Publish, Status

LEMMA ThenBecomes ==
  ASSUME TypeOK, NEW t \in Txs, NEW pc \in {"update", "list", "commit"},
         NEW todo \in SUBSET Invoices, Then(t, pc, todo)
  PROVE  /\ Becomes(t, At(t, pc, todo), own[t])
         /\ At(t, pc, todo) \in Publish /\ own[t] \in [Invoices -> Status]
<1>1. tx[t] \in Publish /\ own \in [Txs -> [Invoices -> Status]]
  BY DEF TypeOK
<1>2. own' = [own EXCEPT ![t] = own[t]]
  BY <1>1 DEF Then
<1>3. tx' = [tx EXCEPT ![t] = At(t, pc, todo)]
  BY DEF Then, At
<1>4. At(t, pc, todo) \in Publish
  BY <1>1 DEF At, Publish
<1> QED
  BY <1>1, <1>2, <1>3, <1>4 DEF Becomes

-----------------------------------------------------------------------------
(* A step of one publish that does not commit *)

LEMMA Moves ==
  ASSUME Publishes, Inv, NEW t \in Txs, TypeOK',
         \A u \in Txs \ {t} : tx'[u] = tx[u] /\ own'[u] = own[u],
         row' = row, last' = last, tx[t].pc # "done", tx'[t].pc # "done",
         \A k \in Invoices : Wrote(t, k)' => Wrote(t, k) \/ ~Held(t, k),
         Local(t)'
  PROVE  Inv'
<1>1. Exclusive'
  BY DEF Inv, Exclusive, Wrote, Held
<1>2. ASSUME NEW u \in Txs, NEW k \in Invoices, Late(u, k), u # t PROVE Late(u, k)'
  BY <1>2 DEF Late
<1>3. ASSUME NEW u \in Txs \ {t} PROVE Local(u)'
  <2>1. Local(u)
    BY DEF Inv
  <2>2. InsideOf(u)'
    BY <2>1 DEF Local, InsideOf, InTransaction, Wrote
  <2>3. ReadsOf(u)'
    BY <2>1 DEF Local, ReadsOf, Inv, TypeOK, Publish
  <2>4. WritesOf(u)' /\ StatementsOf(u)'
    BY <2>1 DEF Local, WritesOf, StatementsOf
  <2>5. SettlingOf(u)'
    BY <1>2, <2>1 DEF Local, SettlingOf, Visible, Wrote
  <2> QED
    BY <2>2, <2>3, <2>4, <2>5 DEF Local
<1>4. LastTrue'
  BY <1>2 DEF Inv, TypeOK, LastTrue, Publishes
<1> QED
  BY <1>1, <1>3, <1>4 DEF Inv

LEMMA AbortKeeps ==
  ASSUME Publishes, Inv, NEW t \in Txs, Abort(t), InTransaction(t)
  PROVE  Inv'
<1> DEFINE p == [tx[t] EXCEPT !.pc = "aborted"]
<1>1. Becomes(t, p, Nothing) /\ p \in Publish /\ Nothing \in [Invoices -> Status]
  BY AbortBecomes DEF Inv
<1>2. row' = row /\ last' = last
  BY DEF Abort
<1>3. /\ TypeOK' /\ tx'[t] = p /\ own'[t] = Nothing
      /\ \A u \in Txs \ {t} : tx'[u] = tx[u] /\ own'[u] = own[u]
  <2> HIDE DEF p
  <2> QED
    BY <1>1, <1>2, Becoming DEF Inv, TypeOK
<1>4. /\ tx'[t].pc = "aborted" /\ tx'[t].ins = tx[t].ins /\ tx'[t].before = tx[t].before
      /\ \A k \in Invoices : own'[t][k] = "NONE"
  BY <1>3 DEF Inv, TypeOK, Publish, Nothing
<1>5. Local(t) /\ tx[t].pc # "done"
  BY DEF Inv, InTransaction
<1>6. Local(t)'
  <2>1. ReadsOf(t)'
    BY <1>3, <1>4, <1>5 DEF Local, ReadsOf, Inv, TypeOK, Publish
  <2> QED
    BY <1>4, <2>1 DEF Local, InsideOf, WritesOf, StatementsOf, SettlingOf, Wrote
<1>7. \A k \in Invoices : ~Wrote(t, k)'
  BY <1>4 DEF Wrote
<1> QED
  BY <1>2, <1>3, <1>4, <1>5, <1>6, <1>7, Moves

\* What t has read and how far it has come change, and nothing else.
LEMMA QuietKeeps ==
  ASSUME Publishes, Inv, NEW t \in Txs, NEW p \in Publish,
         tx' = [tx EXCEPT ![t] = p], UNCHANGED <<row, own, last>>,
         tx[t].pc # "done", p.pc \in {"insert", "update", "list", "settle", "lock", "commit"},
         p.ins \subseteq Rows[t],
         \A u \in p.before : tx[u].pc = "done",
         \A k \in Invoices : own[t][k] = "OPEN" /\ k \in p.ins => row[k] = "NONE",
         StatementsOf(t)', SettlingOf(t)'
  PROVE  Inv'
<1>1. own[t] \in [Invoices -> Status] /\ own \in [Txs -> [Invoices -> Status]]
  BY DEF Inv, TypeOK
<1>2. Becomes(t, p, own[t])
  BY <1>1 DEF Becomes
<1>3. /\ TypeOK' /\ tx'[t] = p /\ own'[t] = own[t]
      /\ \A u \in Txs \ {t} : tx'[u] = tx[u] /\ own'[u] = own[u]
  BY <1>1, <1>2, Becoming DEF Inv, TypeOK
<1>4. Local(t)
  BY DEF Inv
<1>5. Local(t)'
  <2>1. InsideOf(t)'
    BY <1>3 DEF InsideOf, InTransaction
  <2>2. ReadsOf(t)'
    BY <1>3 DEF ReadsOf, Inv, TypeOK, Publish
  <2>3. WritesOf(t)'
    BY <1>3, <1>4 DEF Local, WritesOf
  <2> QED
    BY <2>1, <2>2, <2>3 DEF Local
<1>6. \A k \in Invoices : Wrote(t, k)' => Wrote(t, k)
  BY <1>3 DEF Wrote
<1> QED
  BY <1>3, <1>5, <1>6, Moves

-----------------------------------------------------------------------------
(* The statements *)

LEMMA ReadExistingKeeps ==
  ASSUME Publishes, Inv, NEW t \in Txs, ReadExisting(t)
  PROVE  Inv'
<1> DEFINE ins == {k \in Rows[t] : row[k] = "NONE"}
           p == [tx[t] EXCEPT !.pc = "insert", !.ins = ins, !.todo = ins]
<1>1. tx[t] \in Publish /\ Local(t) /\ tx[t].pc = "read"
  BY DEF Inv, TypeOK, ReadExisting
<1>2. /\ p \in Publish /\ p.pc = "insert" /\ p.ins = ins /\ p.todo = ins
      /\ p.before = tx[t].before
  BY <1>1 DEF Publish, Publishes
<1>3. tx' = [tx EXCEPT ![t] = p] /\ UNCHANGED <<row, own, last>>
  BY DEF ReadExisting
<1>4. tx'[t] = p
  BY <1>3 DEF Inv, TypeOK
<1> HIDE DEF p
<1>5. StatementsOf(t)' /\ SettlingOf(t)'
  BY <1>2, <1>4 DEF StatementsOf, SettlingOf
<1>6. p.ins \subseteq Rows[t] /\ \A u \in p.before : tx[u].pc = "done"
  BY <1>1, <1>2 DEF Local, ReadsOf
<1>7. \A k \in Invoices : own[t][k] = "OPEN" /\ k \in p.ins => row[k] = "NONE"
  BY <1>2
<1> QED
  BY <1>1, <1>2, <1>3, <1>5, <1>6, <1>7, QuietKeeps

\* The next statement begins.
LEMMA ThenKeeps ==
  ASSUME Publishes, Inv, NEW t \in Txs, Inserted(t) \/ Updated(t) \/ SettledAll(t)
  PROVE  Inv'
<1>1. tx[t] \in Publish /\ Local(t)
  BY DEF Inv, TypeOK
<1>2. ASSUME NEW pc \in {"update", "list", "commit"}, NEW todo \in SUBSET Invoices,
             Then(t, pc, todo), tx[t].pc # "done",
             StatementsOf(t)', SettlingOf(t)'
      PROVE Inv'
  <2>1. At(t, pc, todo) \in Publish
    BY <1>2, ThenBecomes DEF Inv
  <2>2. tx' = [tx EXCEPT ![t] = At(t, pc, todo)] /\ UNCHANGED <<row, own, last>>
    BY <1>2 DEF Then, At
  <2>3. At(t, pc, todo).pc = pc /\ At(t, pc, todo).ins = tx[t].ins
        /\ At(t, pc, todo).before = tx[t].before
    BY <1>1 DEF At, Publish
  <2> QED
    BY <1>1, <1>2, <2>1, <2>2, <2>3, QuietKeeps DEF Local, ReadsOf, WritesOf
<1>3. ASSUME NEW pc \in {"update", "list", "commit"}, NEW todo \in SUBSET Invoices,
             Then(t, pc, todo)
      PROVE /\ tx[t].todo = {} /\ own' = own /\ row' = row
            /\ tx'[t].pc = pc /\ tx'[t].todo = todo
            /\ tx'[t].ins = tx[t].ins /\ tx'[t].before = tx[t].before
            /\ \A u \in Txs : tx'[u].pc = "done" <=> tx[u].pc = "done" /\ u # t
  BY <1>1, <1>3 DEF Then, Inv, TypeOK, Publish
<1>4. CASE Inserted(t)
  <2> DEFINE todo == Rows[t] \ tx[t].ins
  <2>1. todo \in SUBSET Invoices /\ Then(t, "update", todo) /\ tx[t].pc = "insert"
    BY <1>4 DEF Inserted, Publishes
  <2>2. /\ tx[t].todo = {} /\ own' = own /\ tx'[t].pc = "update" /\ tx'[t].todo = todo
        /\ tx'[t].ins = tx[t].ins
    BY <1>3, <2>1
  <2>3. StatementsOf(t)' /\ SettlingOf(t)'
    BY <1>1, <2>1, <2>2 DEF StatementsOf, SettlingOf, Local
  <2> QED
    BY <1>2, <2>1, <2>3
<1>5. CASE Updated(t)
  <2>1. Then(t, "list", {}) /\ tx[t].pc = "update"
    BY <1>5 DEF Updated
  <2>2. tx[t].todo = {} /\ own' = own /\ tx'[t].pc = "list"
    BY <1>3, <2>1
  <2>3. StatementsOf(t)' /\ SettlingOf(t)'
    BY <1>1, <2>1, <2>2 DEF StatementsOf, SettlingOf, Local
  <2> QED
    BY <1>2, <2>1, <2>3
<1>6. CASE SettledAll(t)
  <2>1. Then(t, "commit", {}) /\ tx[t].pc = "lock"
    BY <1>6 DEF SettledAll
  <2>2. /\ tx[t].todo = {} /\ own' = own /\ row' = row /\ tx'[t].pc = "commit"
        /\ tx'[t].before = tx[t].before
        /\ \A u \in Txs : tx'[u].pc = "done" <=> tx[u].pc = "done" /\ u # t
    BY <1>3, <2>1
  <2>3. StatementsOf(t)'
    BY <1>1, <2>1, <2>2 DEF StatementsOf, Local
  <2>4. ASSUME NEW k \in Invoices \ Rows[t], Visible(t, k)' = "OPEN" PROVE Late(t, k)'
    <3>1. Visible(t, k) = "OPEN"
      BY <2>2, <2>4 DEF Visible, Wrote
    <3>2. Late(t, k)
      BY <1>1, <2>1, <2>2, <3>1 DEF Local, SettlingOf
    <3> QED
      BY <2>1, <2>2, <3>2 DEF Late
  <2>5. SettlingOf(t)'
    BY <2>2, <2>4 DEF SettlingOf
  <2> QED
    BY <1>2, <2>1, <2>3, <2>5
<1> QED
  BY <1>4, <1>5, <1>6

LEMMA LooksKeep ==
  ASSUME Publishes, Inv, NEW t \in Txs, ListAbsent(t) \/ Settle(t)
  PROVE  Inv'
<1>1. tx[t] \in Publish /\ Local(t)
  BY DEF Inv, TypeOK
<1>2. CASE ListAbsent(t)
  <2> DEFINE p == [tx[t] EXCEPT !.pc = "settle", !.list = Absent(t)]
  <2>1. p \in Publish /\ p.pc = "settle" /\ p.ins = tx[t].ins /\ p.before = tx[t].before
    BY <1>1 DEF Publish, Absent
  <2>2. tx[t].pc = "list" /\ tx' = [tx EXCEPT ![t] = p] /\ UNCHANGED <<row, own, last>>
    BY <1>2 DEF ListAbsent
  <2>3. tx'[t] = p
    BY <2>2 DEF Inv, TypeOK
  <2> HIDE DEF p
  <2>4. StatementsOf(t)' /\ SettlingOf(t)'
    BY <1>1, <2>1, <2>2, <2>3 DEF Local, StatementsOf, SettlingOf
  <2> QED
    BY <1>1, <2>1, <2>2, <2>4, QuietKeeps DEF Local, ReadsOf, WritesOf
<1>3. CASE Settle(t)
  <2> DEFINE gone == {u \in Txs : tx[u].pc = "done"}
             p == [tx[t] EXCEPT !.pc = "lock", !.todo = Absent(t), !.before = gone]
  <2>1. /\ p \in Publish /\ p.pc = "lock" /\ p.ins = tx[t].ins /\ p.before = gone
        /\ p.todo = Absent(t)
    BY <1>1 DEF Publish, Absent
  <2>2. tx[t].pc = "settle" /\ tx' = [tx EXCEPT ![t] = p] /\ UNCHANGED <<row, own, last>>
    BY <1>3 DEF Settle
  <2>3. tx'[t] = p
    BY <2>2 DEF Inv, TypeOK
  <2> HIDE DEF p
  <2>4. StatementsOf(t)'
    BY <1>1, <2>1, <2>2, <2>3 DEF Local, StatementsOf, Absent
  <2>5. SettlingOf(t)'
    BY <2>1, <2>2, <2>3 DEF SettlingOf, Absent, Visible, Wrote
  <2> QED
    BY <1>1, <2>1, <2>2, <2>4, <2>5, QuietKeeps DEF Local, ReadsOf, WritesOf
<1> QED
  BY <1>2, <1>3

\* A statement writes the status s into row k, which nobody else has written, or leaves
\* the row as it is.
LEMMA RowKeeps ==
  ASSUME Publishes, Inv, NEW t \in Txs, NEW k \in tx[t].todo,
         tx[t].pc \in {"insert", "update", "lock"},
         ~Held(t, k), Done(t, k), UNCHANGED <<row, last>>,
         \/ /\ tx[t].pc = "insert" /\ row[k] = "NONE"
            /\ Write(t, k, "OPEN")
         \/ tx[t].pc = "update" /\ Write(t, k, "OPEN")
         \/ /\ tx[t].pc = "lock"
            /\ IF row[k] = "OPEN" THEN Write(t, k, "SETTLED") ELSE UNCHANGED own
  PROVE  Inv'
<1> DEFINE p == [tx[t] EXCEPT !.todo = @ \ {k}]
<1>1. tx[t] \in Publish /\ Local(t) /\ k \in Invoices /\ own[t] \in [Invoices -> Status]
  BY DEF Inv, TypeOK, Publish
<1>2. p \in Publish /\ p.pc = tx[t].pc /\ p.ins = tx[t].ins /\ p.before = tx[t].before
      /\ p.todo = tx[t].todo \ {k}
  BY <1>1 DEF Publish
<1>3. tx' = [tx EXCEPT ![t] = p]
  BY DEF Done
<1> HIDE DEF p
<1>4. PICK s \in Status :
        /\ own' = [own EXCEPT ![t] = [own[t] EXCEPT ![k] = s]]
        /\ tx[t].pc \in {"insert", "update"} => s = "OPEN"
        /\ tx[t].pc = "lock" =>
             IF row[k] = "OPEN" THEN s = "SETTLED" ELSE s = own[t][k]
  <2>1. CASE tx[t].pc \in {"insert", "update"}
    BY <2>1 DEF Write, Status
  <2>2. CASE tx[t].pc = "lock" /\ row[k] = "OPEN"
    BY <2>2 DEF Write, Status
  <2>3. CASE tx[t].pc = "lock" /\ row[k] # "OPEN"
    <3>1. own' = own
      BY <2>3
    <3>2. own = [own EXCEPT ![t] = [own[t] EXCEPT ![k] = own[t][k]]]
      BY <1>1 DEF Inv, TypeOK
    <3>3. own[t][k] \in Status
      BY <1>1
    <3> QED
      BY <2>3, <3>1, <3>2, <3>3
  <2> QED
    BY <2>1, <2>2, <2>3
<1> DEFINE o == [own[t] EXCEPT ![k] = s]
<1>5. o \in [Invoices -> Status] /\ o[k] = s /\ \A j \in Invoices \ {k} : o[j] = own[t][j]
  BY <1>1
<1>6. own' = [own EXCEPT ![t] = o]
  BY <1>4
<1> HIDE DEF o
<1>7. /\ TypeOK' /\ tx'[t] = p /\ own'[t] = o
      /\ \A u \in Txs \ {t} : tx'[u] = tx[u] /\ own'[u] = own[u]
  BY <1>2, <1>3, <1>5, <1>6, Becoming DEF Becomes, Inv, TypeOK
<1>8. InsideOf(t)' /\ ReadsOf(t)'
  BY <1>1, <1>2, <1>7 DEF InsideOf, InTransaction, ReadsOf, Local, Inv, TypeOK, Publish
<1>9. WritesOf(t)'
  <2>1. ASSUME NEW j \in Invoices \ {k}
        PROVE /\ own'[t][j] = "OPEN" => j \in Rows[t] /\ (j \in tx'[t].ins => row'[j] = "NONE")
              /\ own'[t][j] = "SETTLED" => j \notin Rows[t] /\ row'[j] = "OPEN"
    BY <1>1, <1>2, <1>5, <1>7 DEF Local, WritesOf
  <2>2. tx[t].pc = "insert" => k \in Rows[t] /\ row[k] = "NONE"
    BY <1>1 DEF Local, StatementsOf, ReadsOf
  <2>3. tx[t].pc = "update" => k \in Rows[t] /\ k \notin tx[t].ins
    BY <1>1 DEF Local, StatementsOf
  <2>4. tx[t].pc = "lock" => k \notin Rows[t]
    BY <1>1 DEF Local, StatementsOf
  <2>5. /\ own[t][k] = "OPEN" => k \in Rows[t] /\ (k \in tx[t].ins => row[k] = "NONE")
        /\ own[t][k] = "SETTLED" => k \notin Rows[t] /\ row[k] = "OPEN"
    BY <1>1 DEF Local, WritesOf
  <2>6. /\ own'[t][k] = "OPEN" => k \in Rows[t] /\ (k \in tx'[t].ins => row'[k] = "NONE")
        /\ own'[t][k] = "SETTLED" => k \notin Rows[t] /\ row'[k] = "OPEN"
    BY <1>2, <1>4, <1>5, <1>7, <2>2, <2>3, <2>4, <2>5
  <2> QED
    BY <2>1, <2>6 DEF WritesOf
<1>10. StatementsOf(t)'
  <2>1. tx[t].pc = "insert" => \A j \in tx[t].ins \ p.todo : o[j] = "OPEN"
    BY <1>1, <1>2, <1>4, <1>5 DEF Local, StatementsOf, Publish
  <2>2. tx[t].pc = "update" => \A j \in Rows[t] \ p.todo : o[j] = "OPEN"
    BY <1>1, <1>2, <1>4, <1>5 DEF Local, StatementsOf, Publishes
  <2>3. tx[t].pc = "lock" => \A j \in Rows[t] : o[j] = "OPEN"
    BY <1>1, <1>5 DEF Local, StatementsOf, Publishes
  <2> QED
    BY <1>1, <1>2, <1>7, <2>1, <2>2, <2>3 DEF Local, StatementsOf
<1>11. SettlingOf(t)'
  <2>1. ASSUME tx[t].pc = "lock", NEW j \in Invoices \ Rows[t], j \notin p.todo,
               Visible(t, j)' = "OPEN"
        PROVE Late(t, j)'
    <3>1. j # k
      <4>1. ASSUME j = k PROVE FALSE
        <5>1. own[t][k] # "OPEN"
          BY <1>1, <2>1, <4>1 DEF Local, WritesOf
        <5>2. o[k] = IF row[k] = "OPEN" THEN "SETTLED" ELSE own[t][k]
          BY <1>4, <1>5, <2>1
        <5> QED
          BY <1>7, <2>1, <4>1, <5>1, <5>2 DEF Visible, Wrote
      <4> QED BY <4>1
    <3>2. Visible(t, j) = "OPEN"
      BY <1>5, <1>7, <2>1, <3>1 DEF Visible, Wrote
    <3>3. Late(t, j)
      BY <1>1, <1>2, <2>1, <3>1, <3>2 DEF Local, SettlingOf
    <3> QED
      BY <1>2, <1>7, <3>3 DEF Late
  <2> QED
    BY <1>2, <1>7, <2>1 DEF SettlingOf
<1>12. \A j \in Invoices : Wrote(t, j)' => Wrote(t, j) \/ ~Held(t, j)
  BY <1>5, <1>7 DEF Wrote
<1> QED
  BY <1>2, <1>7, <1>8, <1>9, <1>10, <1>11, <1>12, Moves DEF Local

\* The commit: what t wrote becomes the ledger, and t is the last.
LEMMA CommitKeeps ==
  ASSUME Publishes, Inv, NEW t \in Txs, Commit(t)
  PROVE  Inv'
<1> DEFINE p == [tx[t] EXCEPT !.pc = "done"]
<1>1. tx[t] \in Publish /\ Local(t) /\ tx[t].pc = "commit" /\ own[t] \in [Invoices -> Status]
  BY DEF Inv, TypeOK, Commit
<1>2. p \in Publish /\ p.pc = "done" /\ p.ins = tx[t].ins /\ p.before = tx[t].before
  BY <1>1 DEF Publish
<1>3. Becomes(t, p, Nothing) /\ Nothing \in [Invoices -> Status]
  BY DEF Commit, Release, Becomes, Nothing, Status
<1>4. /\ row' \in [Invoices -> Status] /\ last' = t
      /\ \A k \in Invoices : row'[k] = IF own[t][k] # "NONE" THEN own[t][k] ELSE row[k]
  BY <1>1 DEF Commit, Visible, Wrote, Inv, TypeOK
<1> HIDE DEF p
<1>5. /\ TypeOK' /\ tx'[t] = p /\ own'[t] = Nothing
      /\ \A u \in Txs \ {t} : tx'[u] = tx[u] /\ own'[u] = own[u]
  BY <1>2, <1>3, <1>4, Becoming DEF Inv
<1>6. \A k \in Invoices : own'[t][k] = "NONE"
  BY <1>5 DEF Nothing
<1>7. Exclusive'
  BY <1>5, <1>6 DEF Inv, Exclusive, Wrote
\* A publish that looked before did not see t done.
<1>8. \A u \in Txs : t \notin tx[u].before
  BY <1>1 DEF Inv, Local, ReadsOf
<1>9. ASSUME NEW u \in Txs, NEW k \in Invoices, Late(u, k) PROVE Late(u, k)'
  BY <1>1, <1>2, <1>5, <1>9 DEF Late
<1>10. ASSUME NEW u \in Txs, NEW k \in Rows[t] PROVE Late(u, k)'
  BY <1>2, <1>5, <1>8, <1>10 DEF Late
<1>11. ASSUME NEW u \in Txs \ {t} PROVE Local(u)'
  <2>1. Local(u) /\ own[u] \in [Invoices -> Status]
    BY DEF Inv, TypeOK
  <2>2. \A k \in Invoices : Wrote(u, k) => row'[k] = row[k]
    BY <1>4 DEF Inv, Exclusive, Wrote
  <2>3. InsideOf(u)'
    BY <1>5, <2>1 DEF Local, InsideOf, InTransaction, Wrote
  <2>4. ReadsOf(u)'
    BY <1>2, <1>5, <2>1 DEF Local, ReadsOf, Inv, TypeOK, Publish
  <2>5. WritesOf(u)'
    BY <1>5, <2>1, <2>2 DEF Local, WritesOf, Wrote
  <2>6. StatementsOf(u)'
    BY <1>5, <2>1 DEF Local, StatementsOf
  <2>7. ASSUME NEW k \in Invoices \ Rows[u], Visible(u, k)' = "OPEN", Visible(u, k) # "OPEN"
        PROVE Late(u, k)'
    <3>1. ~Wrote(u, k) /\ row'[k] = "OPEN" /\ row[k] # "OPEN"
      BY <1>5, <2>2, <2>7 DEF Visible, Wrote
    <3>2. own[t][k] = "OPEN"
      BY <1>4, <3>1
    <3>3. k \in Rows[t]
      BY <1>1, <3>2 DEF Local, WritesOf
    <3> QED
      BY <1>10, <3>3
  <2>8. SettlingOf(u)'
    BY <1>5, <1>9, <2>1, <2>7 DEF Local, SettlingOf
  <2> QED
    BY <2>3, <2>4, <2>5, <2>6, <2>8 DEF Local
<1>12. Local(t)'
  <2>1. ReadsOf(t)'
    BY <1>1, <1>2, <1>5 DEF Local, ReadsOf, Inv, TypeOK, Publish
  <2> QED
    BY <1>2, <1>5, <1>6, <2>1
       DEF Local, InsideOf, WritesOf, StatementsOf, SettlingOf, Wrote
<1>13. LastTrue'
  <2>1. \A k \in Rows[t] : row'[k] = "OPEN"
    BY <1>1, <1>4 DEF Local, StatementsOf, Publishes
  <2>2. ASSUME NEW k \in Invoices \ Rows[t], row'[k] = "OPEN" PROVE Late(t, k)'
    <3>1. Visible(t, k) = "OPEN"
      BY <1>4, <2>2 DEF Visible, Wrote
    <3> QED
      BY <1>1, <1>9, <3>1 DEF Local, SettlingOf
  <2> QED
    BY <1>2, <1>4, <1>5, <2>1, <2>2 DEF LastTrue
<1> QED
  BY <1>5, <1>7, <1>11, <1>12, <1>13 DEF Inv

-----------------------------------------------------------------------------

LEMMA StepKeeps == ASSUME Publishes, Inv, [Next]_vars PROVE Inv'
<1>1. CASE UNCHANGED vars
  BY <1>1 DEF vars, Inv, TypeOK, Exclusive, LastTrue, Local, InsideOf, InTransaction, ReadsOf,
       WritesOf, StatementsOf, SettlingOf, Late, Visible, Wrote
<1>2. ASSUME NEW t \in Txs, Step(t) \/ Fail(t) PROVE Inv'
  <2>1. CASE ReadExisting(t)
    BY <2>1, ReadExistingKeeps
  <2>2. CASE \E k \in Invoices : Insert(t, k) \/ Update(t, k) \/ SettleRow(t, k)
    <3>1. PICK k \in Invoices : Insert(t, k) \/ Update(t, k) \/ SettleRow(t, k)
      BY <2>2
    <3> QED
      BY <3>1, RowKeeps DEF Insert, Update, SettleRow
  <2>3. CASE UniqueViolation(t) \/ DeadlockVictim(t) \/ Fail(t)
    <3>1. Abort(t) /\ InTransaction(t)
      BY <2>3 DEF UniqueViolation, DeadlockVictim, Fail, InTransaction, WaitCycle
    <3> QED
      BY <3>1, AbortKeeps
  <2>4. CASE Inserted(t) \/ Updated(t) \/ SettledAll(t)
    BY <2>4, ThenKeeps
  <2>5. CASE ListAbsent(t) \/ Settle(t)
    BY <2>5, LooksKeep
  <2>6. CASE Commit(t)
    BY <2>6, CommitKeeps
  <2> QED
    BY <1>2, <2>1, <2>2, <2>3, <2>4, <2>5, <2>6 DEF Step
<1> QED
  BY <1>1, <1>2 DEF Next

\* What a transaction decided on a row stands until it commits, and after a publish what
\* it reports is OPEN and what else is OPEN came later, for any number of publishes of an
\* entity whose statements overlap (publishSnapshot's transaction).
THEOREM OverlapCorrect ==
  ASSUME Publishes PROVE Spec => [](TypeOK /\ WritesStand /\ OpenUnlessLate)
<1>1. Init => Inv
  BY InitHolds
<1>2. Inv /\ [Next]_vars => Inv'
  BY StepKeeps
<1>3. Inv => TypeOK /\ WritesStand /\ OpenUnlessLate
  <2>1. ASSUME Inv PROVE WritesStand
    <3>1. ASSUME NEW t \in Txs, NEW k \in Invoices
          PROVE /\ Wrote(t, k) /\ k \in tx[t].ins => row[k] = "NONE"
                /\ own[t][k] = "SETTLED" => row[k] = "OPEN"
      <4>1. own[t][k] \in Status /\ tx[t].ins \subseteq Rows[t] /\ WritesOf(t)
        BY <2>1 DEF Inv, TypeOK, Local, ReadsOf
      <4> QED
        BY <4>1 DEF WritesOf, Wrote, Status
    <3>2. \A t \in Txs, k \in Invoices : Wrote(t, k) => ~Held(t, k)
      BY <2>1 DEF Inv, Exclusive, Held
    <3> QED
      BY <3>1, <3>2 DEF WritesStand
  <2>2. ASSUME Inv PROVE OpenUnlessLate
    BY <2>2 DEF Inv, LastTrue, OpenUnlessLate, Late
  <2> QED
    BY <2>1, <2>2 DEF Inv
<1> QED
  BY <1>1, <1>2, <1>3, PTL DEF Spec

=============================================================================
