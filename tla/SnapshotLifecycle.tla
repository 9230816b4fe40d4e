------------------------- MODULE SnapshotLifecycle -------------------------
(***************************************************************************)
(* The life of a receivables snapshot: upload, staging edits, warning      *)
(* acknowledgement, review, publish, discard and reconciliation, as the    *)
(* functions of src/server/snapshots run them.                             *)
(*                                                                         *)
(* Every API request is a process of its own.  A handler first reads the   *)
(* database outside any transaction, decides, and then writes in one       *)
(* Postgres transaction.  Each database read the decision rests on is a    *)
(* step, what it returned is kept in the request's record, and other       *)
(* requests run in between.  The transactions of all requests but a        *)
(* publish are one step.                                                   *)
(*                                                                         *)
(* The transaction of a publish is many statements at READ COMMITTED, and  *)
(* takes three steps: it holds the rows it upserts (PublishUpsert), its    *)
(* settling UPDATE takes its view of the committed invoices                *)
(* (PublishSettle), and it commits.  A statement waits for a row another   *)
(* transaction has written, and an UPDATE writes a row it waited for only  *)
(* if the row still matches.  The locks of one statement are taken         *)
(* together and at the latest moment: between a lock and that moment       *)
(* nobody else can change the row.  PublishTransaction takes them one by   *)
(* one, with the deadlocks that makes possible: here the victim is a       *)
(* request that dies.                                                      *)
(*                                                                         *)
(* A snapshot is identified with the file it was made from:                *)
(* snapshots.upload_file_sha256 is unique, so there is at most one.        *)
(***************************************************************************)
EXTENDS Integers, FiniteSets

CONSTANTS
  Reqs,                        \* slots for requests in flight
  Users, Role, Scope,          \* users, their role, the entity an analyst works in
  Entities, ReviewRequired,    \* entities; those with require_review_before_publish
  Canon, EntityOf,             \* canonical parties and the entity each belongs to
  Refs,                        \* invoice references
  Files, Dates,                \* uploaded workbooks, as-of dates
  Rows, RowsOf,                \* parsed rows, and the rows of each file
  RefOf, AliasOf,              \* a row's reference; its EXACT alias match or NoCanon
  BadRows, NoDays,             \* PARSE_ERROR rows; rows without configured credit days
  Warnings, WarningsOf,        \* parser warnings of each file
  NoCanon, NoFile

ASSUME ConstantsAssumption ==
  /\ Dates \subseteq Int
  /\ Role \in [Users -> {"ANALYST", "ADMIN", "REVIEWER", "CFO"}]
  /\ Scope \in [Users -> Entities]
  /\ ReviewRequired \subseteq Entities
  /\ EntityOf \in [Canon -> Entities]
  /\ RowsOf \in [Files -> SUBSET Rows]
  /\ RefOf \in [Rows -> Refs]
  /\ AliasOf \in [Rows -> Canon \cup {NoCanon}]
  /\ BadRows \subseteq Rows /\ NoDays \subseteq Rows
  /\ WarningsOf \in [Files -> SUBSET Warnings]
  /\ NoCanon \notin Canon /\ NoFile \notin Files

VARIABLES
  snap,     \* table snapshots
  inv,      \* table invoices, by (canonical_id, invoice_ref)
  lines,    \* table invoice_snapshots: the rows each publish wrote
  recon,    \* table reconciliation_entries
  audit,    \* table audit_log: the publish, discard and review rows of a snapshot
  last,     \* an entity's latest snapshot.publish audit row: its snapshot, and, as
            \* history, the publishes committed when its settling UPDATE looked
  mapped,   \* the rows some committed staging.patch resolved, from audit_log
  req       \* what each request in flight has read and will write

vars == <<snap, inv, lines, recon, audit, last, mapped, req>>

-----------------------------------------------------------------------------
(* Tables *)

Keys == Canon \X Refs
EntityOfKey(k) == EntityOf[k[1]]

SnapRow ==
  [status: {"STAGED", "PUBLISHED", "DISCARDED"},
   entity: Entities, asOf: Dates, uploader: Users,
   acked: SUBSET Warnings,
   canon: [Rows -> Canon \cup {NoCanon}], days: SUBSET Rows, dismissed: SUBSET Rows,
   review: {"NONE", "APPROVED", "REJECTED"}]

InvoiceRow ==
  [status: {"NONE", "OPEN", "SETTLED"},
   firstSeen: Files \cup {NoFile}, settledBy: Files \cup {NoFile}]

LineRow == [row: Rows, key: Keys, nth: Nat]

\* A reconciliation entry: its delta is within the tolerance, or it is not and
\* has a note that accepts the variance, or neither.
Verdict == {"MATCHED", "NOTED", "MISMATCHED"}

LatestRow == [file: Files \cup {NoFile}, before: [Files -> Nat]]

AuditRow ==
  [publish: Nat, discard: Nat, reviews: SUBSET (Users \X {"APPROVED", "REJECTED"})]

NoRow == [status |-> "NONE"]
NewInvoice == [status |-> "NONE", firstSeen |-> NoFile, settledBy |-> NoFile]

\* Fault: a new snapshot waits for review whatever its entity asks.
StagedPending(e, d, u) ==
  [status |-> "STAGED", entity |-> e, asOf |-> d, uploader |-> u,
   acked |-> {}, canon |-> [row \in Rows |-> NoCanon],
   days |-> {}, dismissed |-> {}, review |-> "PENDING"]

\* A snapshot as createSnapshotFromParseResult inserts it.
Staged(e, d, u) ==
  [status |-> "STAGED", entity |-> e, asOf |-> d, uploader |-> u,
   acked |-> {}, canon |-> [row \in Rows |-> NoCanon],
   days |-> {}, dismissed |-> {}, review |-> "NONE"]

-----------------------------------------------------------------------------
(* Staging: overrides, resolution, the publish gate *)

\* An entry of staging_overrides_json.  Unset parts are NoCanon or {}.
Edit == [canon: [Rows -> Canon \cup {NoCanon}], days: SUBSET Rows,
         dismiss: SUBSET Rows, undismiss: SUBSET Rows]

NoEdit == [canon |-> [row \in Rows |-> NoCanon], days |-> {},
           dismiss |-> {}, undismiss |-> {}]

\* effectiveOverride folds the log of entries: what a later entry sets wins.
ApplyEdit(s, e) ==
  [s EXCEPT !.canon = [row \in Rows |-> IF e.canon[row] # NoCanon
                                        THEN e.canon[row] ELSE s.canon[row]],
            !.days = @ \cup e.days,
            !.dismissed = (@ \ e.undismiss) \cup e.dismiss]

OkRows(f) == RowsOf[f] \ BadRows

\* The canonical party of a row: the analyst's choice, else the exact alias match.
CanonOf(s, row) ==
  IF s.canon[row] # NoCanon THEN s.canon[row]
  ELSE IF AliasOf[row] # NoCanon /\ EntityOf[AliasOf[row]] = s.entity
       THEN AliasOf[row]
       ELSE NoCanon

Unmapped(s, f) == {row \in OkRows(f) : CanonOf(s, row) = NoCanon}

RolePermits(u) == Role[u] \in {"ANALYST", "ADMIN"}
CanAccess(u, e) == Role[u] = "ANALYST" => Scope[u] = e

\* gateFromRows
GateOk(s, f, u) ==
  /\ RolePermits(u)
  /\ WarningsOf[f] \subseteq s.acked
  /\ RowsOf[f] \cap BadRows \subseteq s.dismissed
  /\ Unmapped(s, f) = {}
  /\ OkRows(f) \cap NoDays \subseteq s.days
  /\ s.entity \in ReviewRequired => s.review = "APPROVED"

KeyOf(s, row) == <<CanonOf(s, row), RefOf[row]>>
Touched(s, f) == {KeyOf(s, row) : row \in OkRows(f)}

-----------------------------------------------------------------------------
(* The guards publishSnapshot evaluates against other snapshots *)

Published(e) == {g \in Files : snap[g].status = "PUBLISHED" /\ snap[g].entity = e}

\* Fault: no daily-cadence guard.
SameDayNever(f, s) == {}

\* Of a snapshot f that was read as s.
SameDay(f, s) == {g \in Published(s.entity) \ {f} : snap[g].asOf = s.asOf}

Prior(f, s) == {g \in Published(s.entity) \ {f} : snap[g].asOf < s.asOf}
LatestPrior(f, s) ==
  {g \in Prior(f, s) : \A h \in Prior(f, s) : snap[h].asOf =< snap[g].asOf}

\* total_outstanding is the sum of the OK rows and dashboardAr the sum of the
\* invoice_snapshots rows, so they agree when each row was written once.  Every
\* row has an amount above the tolerance.
AutoMatched(g) == Cardinality(lines[g]) = Cardinality(OkRows(g))

Reconciled(g) ==
  \/ recon[g] \in {"MATCHED", "NOTED"}
  \/ recon[g] = "NONE" /\ AutoMatched(g)

-----------------------------------------------------------------------------
(* Requests *)

Idle == [pc |-> "idle"]

PublishReq == [pc: {"sameDay", "prior", "gate"}, file: Files, user: Users, seen: SnapRow]
UpsertReq == [pc: {"publish", "settle"}, file: Files, user: Users, seen: SnapRow,
              ins: SUBSET Keys]
CommitReq == [pc: {"commit"}, file: Files, user: Users, seen: SnapRow,
              ins: SUBSET Keys, todo: SUBSET Keys, before: [Files -> Nat]]
UploadReq == [pc: {"upload"}, file: Files, user: Users, entity: Entities, asOf: Dates]
DiscardReq == [pc: {"discard"}, file: Files, user: Users]
ReviewReq == [pc: {"review"}, file: Files, user: Users, decision: {"APPROVED", "REJECTED"}]
AckReq == [pc: {"ack"}, file: Files, user: Users, codes: SUBSET Warnings]
PatchReq == [pc: {"patch"}, file: Files, user: Users, edit: Edit]
ReconcileReq == [pc: {"reconcile"}, file: Files, user: Users, verdict: Verdict]

Request == {Idle} \cup PublishReq \cup UpsertReq \cup CommitReq \cup UploadReq
             \cup DiscardReq \cup ReviewReq \cup AckReq \cup PatchReq \cup ReconcileReq

At(r, pc) == req[r].pc = pc
Goto(r, q) == req' = [req EXCEPT ![r] = q]
End(r) == Goto(r, Idle)
tables == <<snap, inv, lines, recon, audit, last, mapped>>
Reads == UNCHANGED tables

\* assertSnapshotAccess followed by the handler's status check.
May(u, f, status) == snap[f].status = status /\ CanAccess(u, snap[f].entity)

TypeOK ==
  /\ snap \in [Files -> SnapRow \cup {NoRow}]
  /\ inv \in [Keys -> InvoiceRow]
  /\ lines \in [Files -> SUBSET LineRow]
  /\ recon \in [Files -> Verdict \cup {"NONE"}]
  /\ audit \in [Files -> AuditRow]
  /\ last \in [Entities -> LatestRow]
  /\ mapped \in [Files -> SUBSET Rows]
  /\ req \in [Reqs -> Request]

Init ==
  /\ snap = [f \in Files |-> NoRow]
  /\ inv = [k \in Keys |-> NewInvoice]
  /\ lines = [f \in Files |-> {}]
  /\ recon = [f \in Files |-> "NONE"]
  /\ audit = [f \in Files |-> [publish |-> 0, discard |-> 0, reviews |-> {}]]
  /\ last = [e \in Entities |-> [file |-> NoFile, before |-> [f \in Files |-> 0]]]
  /\ mapped = [f \in Files |-> {}]
  /\ req = [r \in Reqs |-> Idle]

-----------------------------------------------------------------------------
(* Upload: createSnapshotFromUpload *)

\* The duplicate check, then parsing and storing the workbook.
UploadBegin(r, f, u) ==
  /\ At(r, "idle") /\ RolePermits(u)
  /\ snap[f] = NoRow
  /\ \E e \in Entities, d \in Dates :
       /\ CanAccess(u, e)
       /\ Goto(r, [pc |-> "upload", file |-> f, user |-> u, entity |-> e, asOf |-> d])
  /\ Reads

\* The insert, or the violation of the unique file hash.
UploadCommit(r) ==
  LET q == req[r] IN
  /\ At(r, "upload")
  /\ snap' = IF snap[q.file] = NoRow
             THEN [snap EXCEPT ![q.file] = Staged(q.entity, q.asOf, q.user)]
             ELSE snap
  /\ End(r)
  /\ UNCHANGED <<inv, lines, recon, audit, last, mapped>>

-----------------------------------------------------------------------------
(* Staging edits: patchStagingRow, bulkMapParties, ackSnapshotWarnings *)

Resolve(row, c) == [NoEdit EXCEPT !.canon[row] = c]

\* Fault: any party the database has.
PartiesAnywhere(e) == Canon

Parties(e) == {c \in Canon : EntityOf[c] = e}

\* One row at a time.  A dismissal or a days override of a row that needs none is
\* never read again and leaves no trace here.
Patches(f, e) ==
  {Resolve(row, c) : row \in RowsOf[f], c \in Parties(e)}
    \cup {[NoEdit EXCEPT !.days = {row}] : row \in RowsOf[f] \cap NoDays}
    \cup {[NoEdit EXCEPT !.dismiss = {row}] : row \in RowsOf[f] \cap BadRows}
    \cup {[NoEdit EXCEPT !.undismiss = {row}] : row \in RowsOf[f] \cap BadRows}

\* bulkMapParties resolves the actionable rows without a party in one entry.
BulkMaps(s, f) ==
  {[NoEdit EXCEPT !.canon = m] :
     m \in {n \in [Rows -> Parties(s.entity) \cup {NoCanon}] :
             {row \in Rows : n[row] # NoCanon} \subseteq Unmapped(s, f)}}

PatchBegin(r, f, u) ==
  /\ At(r, "idle") /\ RolePermits(u) /\ May(u, f, "STAGED")
  /\ \E e \in Patches(f, snap[f].entity) \cup BulkMaps(snap[f], f) :
       Goto(r, [pc |-> "patch", file |-> f, user |-> u, edit |-> e])
  /\ Reads

\* Fault: the new entry replaces the log.
PatchCommitReplaces(r) ==
  LET q == req[r] IN
  /\ At(r, "patch")
  /\ snap' = [snap EXCEPT ![q.file] = ApplyEdit([@ EXCEPT !.canon = NoEdit.canon], q.edit)]
  /\ mapped' = [mapped EXCEPT ![q.file] =
                  @ \cup {row \in Rows : q.edit.canon[row] # NoCanon}]
  /\ End(r)
  /\ UNCHANGED <<inv, lines, recon, audit, last>>

\* SELECT ... FOR UPDATE, then append to the log as it now is.  The status is
\* not read again.
PatchCommit(r) ==
  LET q == req[r] IN
  /\ At(r, "patch")
  /\ snap' = [snap EXCEPT ![q.file] = ApplyEdit(@, q.edit)]
  /\ mapped' = [mapped EXCEPT ![q.file] =
                  @ \cup {row \in Rows : q.edit.canon[row] # NoCanon}]
  /\ End(r)
  /\ UNCHANGED <<inv, lines, recon, audit, last>>

\* The new list is computed from the list read here.
AckBegin(r, f, u) ==
  /\ At(r, "idle") /\ RolePermits(u) /\ May(u, f, "STAGED")
  /\ \E codes \in SUBSET WarningsOf[f] :
       Goto(r, [pc |-> "ack", file |-> f, user |-> u, codes |-> snap[f].acked \cup codes])
  /\ Reads

AckCommit(r) ==
  LET q == req[r] IN
  /\ At(r, "ack")
  /\ snap' = [snap EXCEPT ![q.file].acked = q.codes]
  /\ End(r)
  /\ UNCHANGED <<inv, lines, recon, audit, last, mapped>>

-----------------------------------------------------------------------------
(* Review and discard *)

\* Fault: the uploader may review.
ReviewBeginOwn(r, f, u) ==
  /\ At(r, "idle") /\ Role[u] \in {"REVIEWER", "ADMIN"}
  /\ May(u, f, "STAGED")
  /\ \E d \in {"APPROVED", "REJECTED"} :
       Goto(r, [pc |-> "review", file |-> f, user |-> u, decision |-> d])
  /\ Reads

ReviewBegin(r, f, u) ==
  /\ At(r, "idle") /\ Role[u] \in {"REVIEWER", "ADMIN"}
  /\ May(u, f, "STAGED")
  /\ snap[f].uploader # u
  /\ \E d \in {"APPROVED", "REJECTED"} :
       Goto(r, [pc |-> "review", file |-> f, user |-> u, decision |-> d])
  /\ Reads

ReviewCommit(r) ==
  LET q == req[r] IN
  /\ At(r, "review")
  /\ snap' = [snap EXCEPT ![q.file].review = q.decision]
  /\ audit' = [audit EXCEPT ![q.file].reviews = @ \cup {<<q.user, q.decision>>}]
  /\ End(r)
  /\ UNCHANGED <<inv, lines, recon, last, mapped>>

DiscardBegin(r, f, u) ==
  /\ At(r, "idle") /\ RolePermits(u) /\ May(u, f, "STAGED")
  /\ Goto(r, [pc |-> "discard", file |-> f, user |-> u])
  /\ Reads

\* The update names the id only: whatever the status has become is overwritten.
DiscardCommit(r) ==
  LET q == req[r] IN
  /\ At(r, "discard")
  /\ snap' = [snap EXCEPT ![q.file].status = "DISCARDED"]
  /\ audit' = [audit EXCEPT ![q.file].discard = @ + 1]
  /\ End(r)
  /\ UNCHANGED <<inv, lines, recon, last, mapped>>

-----------------------------------------------------------------------------
(* Publish: publishSnapshot *)

PublishBegin(r, f, u) ==
  /\ At(r, "idle") /\ RolePermits(u) /\ May(u, f, "STAGED")
  /\ Goto(r, [pc |-> "sameDay", file |-> f, user |-> u, seen |-> snap[f]])
  /\ Reads

\* The daily-cadence guard.
PublishSameDay(r) ==
  LET q == req[r] IN
  /\ At(r, "sameDay")
  /\ IF SameDay(q.file, q.seen) = {} THEN Goto(r, [q EXCEPT !.pc = "prior"]) ELSE End(r)
  /\ Reads

\* Fault: an entry is enough, matched or not.
PublishPriorEntered(r) ==
  LET q == req[r] IN
  /\ At(r, "prior")
  /\ \/ /\ Prior(q.file, q.seen) = {}
        /\ Goto(r, [q EXCEPT !.pc = "gate"])
     \/ \E g \in LatestPrior(q.file, q.seen) :
          IF recon[g] # "NONE" \/ AutoMatched(g)
          THEN Goto(r, [q EXCEPT !.pc = "gate"]) ELSE End(r)
  /\ Reads

\* The reconciliation guard on the latest earlier snapshot; of two with the
\* same date either may come first.
PublishPrior(r) ==
  LET q == req[r] IN
  /\ At(r, "prior")
  /\ \/ /\ Prior(q.file, q.seen) = {}
        /\ Goto(r, [q EXCEPT !.pc = "gate"])
     \/ \E g \in LatestPrior(q.file, q.seen) :
          IF Reconciled(g) THEN Goto(r, [q EXCEPT !.pc = "gate"]) ELSE End(r)
  /\ Reads

\* The publish gate on the snapshot as first read, then the read of the
\* invoices that exist already.
PublishGate(r) ==
  LET q == req[r] IN
  /\ At(r, "gate")
  /\ IF GateOk(q.seen, q.file, q.user) /\ OkRows(q.file) # {}
     THEN Goto(r, [pc |-> "publish", file |-> q.file, user |-> q.user, seen |-> q.seen,
                   ins |-> {k \in Touched(q.seen, q.file) : inv[k].status = "NONE"}])
     ELSE End(r)
  /\ Reads

\* Fault: a reopened invoice keeps settled_snapshot_id.
UpsertedKeepsSettled(k, f, ins) ==
  [status |-> "OPEN", settledBy |-> inv[k].settledBy,
   firstSeen |-> IF k \in ins THEN f ELSE inv[k].firstSeen]

\* An invoice the publish of f reports: inserted, or updated and reopened.
Upserted(k, f, ins) ==
  [status |-> "OPEN", settledBy |-> NoFile,
   firstSeen |-> IF k \in ins THEN f ELSE inv[k].firstSeen]

Settled(k, f) == [inv[k] EXCEPT !.status = "SETTLED", !.settledBy = f]

\* Fault: absent invoices are not settled.
LedgerAfterKeepsAbsent(q) ==
  [k \in Keys |->
     IF k \in Touched(q.seen, q.file) THEN Upserted(k, q.file, q.ins) ELSE inv[k]]

\* The invoice table after the publish of request q: of the rows its settling UPDATE
\* found, those still OPEN are settled.
LedgerAfter(q) ==
  [k \in Keys |->
     IF k \in Touched(q.seen, q.file) THEN Upserted(k, q.file, q.ins)
     ELSE IF k \in q.todo /\ inv[k].status = "OPEN" THEN Settled(k, q.file)
     ELSE inv[k]]

\* Fault: rows of one invoice share a line.
NewLinesMerged(f, seen) ==
  {[row |-> CHOOSE row \in OkRows(f) : KeyOf(seen, row) = k, key |-> k,
    nth |-> audit[f].publish + 1] : k \in Touched(seen, f)}

\* One invoice_snapshots row for each staged row, duplicates included.
NewLines(f, seen) ==
  {[row |-> row, key |-> KeyOf(seen, row), nth |-> audit[f].publish + 1] :
     row \in OkRows(f)}

\* The invoices request q reports, once its transaction has written them.
Holds(q) == IF q.pc \in {"settle", "commit"} THEN Touched(q.seen, q.file) ELSE {}
HeldByOthers(r) == UNION {Holds(req[o]) : o \in Reqs \ {r}}

\* Fault: the insert meets no other transaction's.
PublishUpsertHeedless(r) ==
  LET q == req[r] IN
  /\ At(r, "publish")
  /\ \A k \in q.ins : inv[k].status = "NONE"
  /\ Goto(r, [q EXCEPT !.pc = "settle"])
  /\ Reads

\* invoices.createMany and invoices.update: the rows are the transaction's from here
\* on.  Nothing the guards read is read again.
PublishUpsert(r) ==
  LET q == req[r] IN
  /\ At(r, "publish")
  /\ \A k \in q.ins : inv[k].status = "NONE"
  /\ Touched(q.seen, q.file) \cap HeldByOthers(r) = {}
  /\ Goto(r, [q EXCEPT !.pc = "settle"])
  /\ Reads

\* What the settling UPDATE of request q finds: what is OPEN as it begins.
ToSettle(q) ==
  {k \in Keys : /\ EntityOfKey(k) = q.seen.entity /\ inv[k].status = "OPEN"
                /\ k \notin Touched(q.seen, q.file)}

PublishSettle(r) ==
  LET q == req[r] IN
  /\ At(r, "settle")
  /\ Goto(r, [pc |-> "commit", file |-> q.file, user |-> q.user, seen |-> q.seen,
              ins |-> q.ins, todo |-> ToSettle(q),
              before |-> [f \in Files |-> audit[f].publish]])
  /\ Reads

\* The update has its rows and the transaction commits.
PublishCommit(r) ==
  LET q == req[r] IN
  /\ At(r, "commit")
  /\ q.todo \cap HeldByOthers(r) = {}
  /\ inv' = LedgerAfter(q)
  /\ lines' = [lines EXCEPT ![q.file] = @ \cup NewLines(q.file, q.seen)]
  /\ snap' = [snap EXCEPT ![q.file].status = "PUBLISHED"]
  /\ audit' = [audit EXCEPT ![q.file].publish = @ + 1]
  /\ last' = [last EXCEPT ![q.seen.entity] = [file |-> q.file, before |-> q.before]]
  /\ End(r)
  /\ UNCHANGED <<recon, mapped>>

\* createMany meets uq_invoices_entity_canonical_ref and the transaction rolls back.
PublishAbort(r) ==
  /\ At(r, "publish")
  /\ \E k \in req[r].ins : inv[k].status # "NONE"
  /\ End(r)
  /\ Reads

-----------------------------------------------------------------------------
(* Reconciliation: upsertReconciliation *)

\* The delta of the entered closing balance against the invoice lines; which
\* balance the admin enters, and whether a note goes with it, is open.
ReconcileBegin(r, f, u) ==
  /\ At(r, "idle") /\ Role[u] = "ADMIN"
  /\ May(u, f, "PUBLISHED")
  /\ \E v \in Verdict : Goto(r, [pc |-> "reconcile", file |-> f, user |-> u, verdict |-> v])
  /\ Reads

ReconcileCommit(r) ==
  /\ At(r, "reconcile")
  /\ recon' = [recon EXCEPT ![req[r].file] = req[r].verdict]
  /\ End(r)
  /\ UNCHANGED <<snap, inv, lines, audit, last, mapped>>

-----------------------------------------------------------------------------

\* A request that dies (function timeout, lost connection, restart) before its
\* transaction commits leaves no trace.
Die(r) == ~At(r, "idle") /\ End(r) /\ Reads

Arrive(r) ==
  \E f \in Files, u \in Users :
    \/ UploadBegin(r, f, u) \/ PatchBegin(r, f, u) \/ AckBegin(r, f, u)
    \/ ReviewBegin(r, f, u) \/ DiscardBegin(r, f, u)
    \/ PublishBegin(r, f, u) \/ ReconcileBegin(r, f, u)

Advance(r) ==
  \/ UploadCommit(r) \/ PatchCommit(r) \/ AckCommit(r)
  \/ ReviewCommit(r) \/ DiscardCommit(r) \/ ReconcileCommit(r)
  \/ PublishSameDay(r) \/ PublishPrior(r) \/ PublishGate(r)
  \/ PublishUpsert(r) \/ PublishAbort(r) \/ PublishSettle(r) \/ PublishCommit(r)

Next == \E r \in Reqs : Arrive(r) \/ Advance(r) \/ Die(r)

Spec == Init /\ [][Next]_vars

-----------------------------------------------------------------------------
(* What holds however the requests interleave *)

\* Of the lines L of a snapshot: the invoices its n-th publish reported.
Reported(L, n) == {l.key : l \in {m \in L : m.nth = n}}
ReportedSince(k, before) ==
  \E f \in Files : \E n \in before[f] + 1 .. audit[f].publish : k \in Reported(lines[f], n)

Open(e) == {k \in Keys : EntityOfKey(k) = e /\ inv[k].status = "OPEN"}

\* The invoices the latest publish of an entity reported are OPEN, and an OPEN
\* invoice it did not report was reported by a publish that committed after its
\* settling UPDATE had looked: upserts, reopening and settling (publishSnapshot's
\* transaction) lose no invoice and leave none stale, except where transactions
\* overlapped, whatever was published, discarded or edited in between.
OpenOrLate ==
  \A e \in Entities :
    LET f == last[e].file IN
    IF f = NoFile THEN Open(e) = {}
    ELSE LET now == Reported(lines[f], audit[f].publish) IN
         /\ now \subseteq Open(e)
         /\ \A k \in Open(e) \ now : ReportedSince(k, last[e].before)

\* An invoice is SETTLED by a snapshot of its own entity that was published
\* without it, and an OPEN invoice carries no settled_snapshot_id.
SettledExplained ==
  \A k \in Keys :
    LET f == inv[k].settledBy IN
    IF inv[k].status # "SETTLED" THEN f = NoFile
    ELSE /\ f # NoFile
         /\ snap[f] # NoRow /\ snap[f].entity = EntityOfKey(k)
         /\ \E n \in 1 .. audit[f].publish : k \notin Reported(lines[f], n)

\* Every publish wrote one line for each OK row of the file, so no parsed row is
\* dropped between staging and the dashboard, and first_seen_snapshot_id names a
\* snapshot that reported the invoice.
LinesComplete ==
  /\ \A f \in Files :
       /\ {l.nth : l \in lines[f]} \subseteq 1 .. audit[f].publish
       /\ \A n \in 1 .. audit[f].publish, row \in OkRows(f) :
            \E l \in lines[f] : l.row = row /\ l.nth = n
  /\ \A k \in Keys : inv[k].status # "NONE" =>
       /\ inv[k].firstSeen # NoFile
       /\ \E l \in lines[inv[k].firstSeen] : l.key = k

\* Where review is required nothing is published without an approval recorded by
\* a reviewer or admin other than the uploader, although the decision may change
\* between the gate's read and the publish.
IndependentApproval ==
  \A f \in Files : audit[f].publish > 0 /\ snap[f].entity \in ReviewRequired =>
    \E u \in Users : /\ <<u, "APPROVED">> \in audit[f].reviews
                    /\ u # snap[f].uploader

\* A committed mapping of a row is never lost to another request's edit: the
\* FOR UPDATE lock serialises appends to staging_overrides_json.
MappingKept ==
  \A f \in Files : \A row \in mapped[f] :
    snap[f] # NoRow /\ snap[f].canon[row] # NoCanon

\* Of a snapshot s: the parties its overrides name are of its entity.
OverridesInEntity(s) ==
  \A row \in Rows : s.canon[row] # NoCanon => EntityOf[s.canon[row]] = s.entity

InEntity(e, edit) ==
  \A row \in Rows : edit.canon[row] # NoCanon => EntityOf[edit.canon[row]] = e

\* What a request in flight took from its first read is still so when it writes:
\* its snapshot exists, is of the entity it was read to be of, and neither the
\* overrides read nor the edit to append name a party of another entity.
InFlightInEntity ==
  /\ \A f \in Files : snap[f] # NoRow => OverridesInEntity(snap[f])
  /\ \A r \in Reqs :
       LET q == req[r] IN
       /\ q.pc \notin {"idle", "upload"} => snap[q.file] # NoRow
       /\ q.pc \in {"sameDay", "prior", "gate", "publish", "settle", "commit"} =>
            snap[q.file].entity = q.seen.entity /\ OverridesInEntity(q.seen)
       /\ q.pc \in {"publish", "settle", "commit"} => Unmapped(q.seen, q.file) = {}
       /\ q.pc = "patch" => InEntity(snap[q.file].entity, q.edit)

\* first_seen_snapshot_id, once set, never changes.
FirstSeenStands ==
  [][\A k \in Keys : inv[k].status # "NONE" => inv'[k].firstSeen = inv[k].firstSeen]_vars

-----------------------------------------------------------------------------
(* What publishing promises of the ledger *)

\* What a publish that has looked will do to the invoices.
PlanOf(q) ==
  IF q.pc = "commit"
  THEN [file |-> q.file, reports |-> Touched(q.seen, q.file), settles |-> q.todo]
  ELSE [file |-> NoFile, reports |-> {}, settles |-> {}]

Books == INSTANCE Ledger WITH
  Slots <- Reqs,
  open <- {k \in Keys : inv[k].status = "OPEN"},
  firstSeen <- [k \in Keys |-> IF inv[k].status = "NONE" THEN NoFile ELSE inv[k].firstSeen],
  plan <- [r \in Reqs |-> PlanOf(req[r])]

\* The requests of this module implement Ledger: whatever a publish read before its
\* transaction, a step that changes the invoices applies a whole plan, made of the
\* OPEN invoices at one moment, to invoices that no other plan reports meanwhile
\* (publishSnapshot).
LedgerRefined == Books!Spec

-----------------------------------------------------------------------------
(* What the guards promise, and keep only while requests do not overlap *)

PublishesNow(f) == audit'[f].publish # audit[f].publish
DiscardsNow(f) == audit'[f].discard # audit[f].discard

\* "A published snapshot for this entity and as-of date already exists"
\* (publishSnapshot's daily-cadence guard): no two on the same day.
OnePerDay ==
  \A f, g \in Files :
    snap[f].status = "PUBLISHED" /\ snap[g].status = "PUBLISHED" /\ f # g
      => snap[f].entity # snap[g].entity \/ snap[f].asOf # snap[g].asOf

\* "Only STAGED snapshots can be discarded" (discardSnapshot): a published one,
\* whose invoices are in the ledger, never is.
DiscardSpares(f) == DiscardsNow(f) => snap[f].status # "PUBLISHED"
DiscardSparesPublished == [][\A f \in Files : DiscardSpares(f)]_vars

\* The most recent published snapshot must be reconciled before a later one is
\* published (publishSnapshot, Spec 13.6).
PriorIsReconciled(f) ==
  PublishesNow(f) => \A g \in LatestPrior(f, snap[f]) : Reconciled(g)

=============================================================================
