---------------------- MODULE SnapshotLifecycleProofs ----------------------
(***************************************************************************)
(* Theorems about SnapshotLifecycle for every number of requests, users,   *)
(* entities, files and rows: types; what overlapping requests leave of a   *)
(* snapshot; the invoice ledger; and that it implements Ledger.            *)
(***************************************************************************)
EXTENDS SnapshotLifecycle, TLAPS

-----------------------------------------------------------------------------
(* Operators *)

LEMMA IdleIsRequest == Idle \in Request /\ Idle.pc = "idle"
BY DEF Idle, Request

\* The party of a row is a canonical party or none.
LEMMA CanonOfType ==
  ASSUME ConstantsAssumption, NEW s \in SnapRow, NEW row \in Rows
  PROVE  CanonOf(s, row) \in Canon \cup {NoCanon}
BY DEF CanonOf, SnapRow, ConstantsAssumption

\* An edit leaves a snapshot row a snapshot row of the same status, entity and
\* uploader, and keeps every mapping there is.
LEMMA ApplyEditType ==
  ASSUME NEW s \in SnapRow, NEW e \in Edit
  PROVE  /\ ApplyEdit(s, e) \in SnapRow
         /\ ApplyEdit(s, e).status = s.status
         /\ ApplyEdit(s, e).entity = s.entity
         /\ ApplyEdit(s, e).uploader = s.uploader
         /\ ApplyEdit(s, e).canon =
              [row \in Rows |-> IF e.canon[row] # NoCanon
                                THEN e.canon[row] ELSE s.canon[row]]
BY DEF ApplyEdit, SnapRow, Edit

\* The audit rows each commit adds keep the shape of the log.
LEMMA AuditRowType ==
  ASSUME NEW a \in AuditRow
  PROVE  /\ [a EXCEPT !.publish = a.publish + 1] \in AuditRow
         /\ [a EXCEPT !.discard = a.discard + 1] \in AuditRow
         /\ \A u \in Users, d \in {"APPROVED", "REJECTED"} :
              [a EXCEPT !.reviews = a.reviews \cup {<<u, d>>}] \in AuditRow
BY DEF AuditRow

\* An edit that names parties of the snapshot's entity only keeps its overrides so.
LEMMA ApplyEditInEntity ==
  ASSUME NEW s \in SnapRow, NEW e \in Edit, OverridesInEntity(s), InEntity(s.entity, e)
  PROVE  OverridesInEntity(ApplyEdit(s, e))
<1> DEFINE t == ApplyEdit(s, e)
<1>1. /\ t.entity = s.entity
      /\ t.canon = [row \in Rows |-> IF e.canon[row] # NoCanon
                                     THEN e.canon[row] ELSE s.canon[row]]
  BY ApplyEditType
<1> HIDE DEF t
<1>2. OverridesInEntity(t)
  BY <1>1 DEF OverridesInEntity, InEntity
<1> QED
  BY <1>2 DEF t

LEMMA EditsType ==
  ASSUME ConstantsAssumption, NEW f \in Files, NEW s \in SnapRow,
         NEW e \in Patches(f, s.entity) \cup BulkMaps(s, f)
  PROVE  e \in Edit /\ InEntity(s.entity, e)
<1>1. RowsOf[f] \subseteq Rows
  BY DEF ConstantsAssumption
<1>2. CASE e \in {Resolve(row, c) : row \in RowsOf[f], c \in Parties(s.entity)}
  <2>1. PICK row \in RowsOf[f], c \in Parties(s.entity) : e = Resolve(row, c)
    BY <1>2
  <2> QED
    BY <1>1, <2>1 DEF Resolve, Parties, NoEdit, Edit, InEntity
<1>3. CASE \E row \in RowsOf[f] : \/ e = [NoEdit EXCEPT !.days = {row}]
                                 \/ e = [NoEdit EXCEPT !.dismiss = {row}]
                                 \/ e = [NoEdit EXCEPT !.undismiss = {row}]
  BY <1>1, <1>3 DEF NoEdit, Edit, InEntity
<1>4. CASE e \in BulkMaps(s, f)
  <2>1. PICK m \in [Rows -> Parties(s.entity) \cup {NoCanon}] :
           e = [NoEdit EXCEPT !.canon = m]
    BY <1>4 DEF BulkMaps
  <2> QED
    BY <2>1 DEF Parties, NoEdit, Edit, InEntity
<1> QED
  BY <1>2, <1>3, <1>4 DEF Patches

LEMMA StagedType ==
  ASSUME NEW e \in Entities, NEW d \in Dates, NEW u \in Users
  PROVE  Staged(e, d, u) \in SnapRow /\ OverridesInEntity(Staged(e, d, u))
BY DEF Staged, SnapRow, OverridesInEntity

\* Once the gate is satisfied every OK row names an invoice of the entity.
LEMMA TouchedInEntity ==
  ASSUME ConstantsAssumption, NEW f \in Files, NEW s \in SnapRow,
         OverridesInEntity(s), Unmapped(s, f) = {}
  PROVE  /\ \A row \in OkRows(f) :
              row \in Rows /\ KeyOf(s, row) \in Keys /\ EntityOfKey(KeyOf(s, row)) = s.entity
         /\ Touched(s, f) \subseteq Keys
         /\ \A k \in Touched(s, f) : EntityOfKey(k) = s.entity
<1>1. ASSUME NEW row \in OkRows(f)
      PROVE row \in Rows /\ KeyOf(s, row) \in Keys /\ EntityOfKey(KeyOf(s, row)) = s.entity
  <2>1. row \in Rows
    BY DEF OkRows, ConstantsAssumption
  <2>2. CanonOf(s, row) \in Canon
    BY <2>1, CanonOfType DEF Unmapped
  <2>3. EntityOf[CanonOf(s, row)] = s.entity
    BY <2>1, <2>2 DEF CanonOf, OverridesInEntity, ConstantsAssumption
  <2> QED
    BY <2>1, <2>2, <2>3 DEF KeyOf, Keys, EntityOfKey, ConstantsAssumption
<1> QED
  BY <1>1 DEF Touched

\* What a request holds is known from where it is.
LEMMA RequestAt ==
  ASSUME NEW q \in Request
  PROVE  /\ q.pc = "idle" => q = Idle
         /\ q.pc \in {"sameDay", "prior", "gate"} => q \in PublishReq
         /\ q.pc \in {"publish", "settle"} => q \in UpsertReq
         /\ q.pc = "commit" => q \in CommitReq
         /\ q.pc = "upload" => q \in UploadReq
         /\ q.pc = "discard" => q \in DiscardReq
         /\ q.pc = "review" => q \in ReviewReq
         /\ q.pc = "ack" => q \in AckReq
         /\ q.pc = "patch" => q \in PatchReq
         /\ q.pc = "reconcile" => q \in ReconcileReq
BY DEF Request, Idle, PublishReq, UpsertReq, CommitReq, UploadReq, DiscardReq, ReviewReq,
       AckReq, PatchReq, ReconcileReq

\* The request record a step may leave behind.
RequestInEntity(q) ==
  /\ q.pc \notin {"idle", "upload"} => snap[q.file] # NoRow
  /\ q.pc \in {"sameDay", "prior", "gate", "publish", "settle", "commit"} =>
       snap[q.file].entity = q.seen.entity /\ OverridesInEntity(q.seen)
  /\ q.pc \in {"publish", "settle", "commit"} => Unmapped(q.seen, q.file) = {}
  /\ q.pc = "patch" => InEntity(snap[q.file].entity, q.edit)

LEMMA FreshRows ==
  /\ NoRow \notin SnapRow
  /\ \A s \in SnapRow \cup {NoRow} : s # NoRow <=> s \in SnapRow
BY DEF NoRow, SnapRow

\* A step that reads keeps the types when the record it leaves is right.
LEMMA ReadStep ==
  ASSUME TypeOK, InFlightInEntity, NEW r \in Reqs, NEW q \in Request,
         Goto(r, q), Reads, RequestInEntity(q)
  PROVE  TypeOK' /\ InFlightInEntity'
<1>1. TypeOK'
  BY DEF TypeOK, Goto, Reads, tables
<1>2. InFlightInEntity'
  BY DEF TypeOK, InFlightInEntity, RequestInEntity, Goto, Reads, tables,
         OverridesInEntity, InEntity, Unmapped, CanonOf
<1> QED
  BY <1>1, <1>2

LEMMA EndStep ==
  ASSUME TypeOK, InFlightInEntity, NEW r \in Reqs, End(r), Reads
  PROVE  TypeOK' /\ InFlightInEntity'
<1>1. RequestInEntity(Idle)
  BY DEF RequestInEntity, Idle
<1> QED
  BY <1>1, IdleIsRequest, ReadStep DEF End

\* A step that writes one snapshot row and ends keeps the types when the row
\* stays of its entity.
LEMMA WriteStep ==
  ASSUME TypeOK, InFlightInEntity, NEW r \in Reqs, End(r),
         NEW f \in Files, NEW s \in SnapRow,
         snap' = [snap EXCEPT ![f] = s],
         snap[f] # NoRow => s.entity = snap[f].entity,
         OverridesInEntity(s)
  PROVE  /\ snap' \in [Files -> SnapRow \cup {NoRow}]
         /\ req' \in [Reqs -> Request]
         /\ InFlightInEntity'
<1>1. /\ snap' \in [Files -> SnapRow \cup {NoRow}]
      /\ req' \in [Reqs -> Request]
      /\ \A g \in Files : snap[g] # NoRow =>
           snap'[g] # NoRow /\ snap'[g].entity = snap[g].entity
  BY IdleIsRequest, FreshRows DEF TypeOK, End, Goto
<1>2. \A g \in Files : snap'[g] # NoRow => OverridesInEntity(snap'[g])
  BY <1>1 DEF TypeOK, InFlightInEntity
<1>3. ASSUME NEW p \in Reqs
      PROVE  RequestInEntity(req[p])
  BY <1>3 DEF InFlightInEntity, RequestInEntity
<1>4. ASSUME NEW p \in Reqs, p # r, req[p].pc # "idle"
      PROVE  req[p].file \in Files
  BY <1>4, RequestAt DEF TypeOK, Request, Idle, PublishReq, UpsertReq, CommitReq,
       UploadReq, DiscardReq, ReviewReq, AckReq, PatchReq, ReconcileReq
<1>5. ASSUME NEW p \in Reqs
      PROVE  RequestInEntity(req[p])'
  <2>1. CASE p = r
    BY <2>1, IdleIsRequest DEF RequestInEntity, End, Goto, TypeOK
  <2>2. CASE p # r
    <3>1. req'[p] = req[p]
      BY <2>2 DEF End, Goto, TypeOK
    <3> QED
      BY <1>1, <1>3, <1>4, <2>2, <3>1 DEF RequestInEntity, OverridesInEntity, InEntity,
           Unmapped, CanonOf
  <2> QED
    BY <2>1, <2>2
<1> QED
  BY <1>1, <1>2, <1>5 DEF InFlightInEntity, RequestInEntity, OverridesInEntity, InEntity,
       Unmapped, CanonOf

-----------------------------------------------------------------------------
(* Types, and what requests in flight hold *)

\* What the parsed rows of a publish turn into.
LEMMA NewLinesType ==
  ASSUME ConstantsAssumption, TypeOK, NEW f \in Files, NEW s \in SnapRow,
         OverridesInEntity(s), Unmapped(s, f) = {}
  PROVE  NewLines(f, s) \subseteq LineRow
<1>1. audit[f].publish + 1 \in Nat
  BY DEF TypeOK, AuditRow
<1> QED
  BY <1>1, TouchedInEntity DEF NewLines, LineRow

LEMMA LedgerAfterType ==
  ASSUME TypeOK, NEW q \in CommitReq
  PROVE  LedgerAfter(q) \in [Keys -> InvoiceRow]
<1> PICK T, ins, todo, f : /\ T = Touched(q.seen, q.file) /\ ins = q.ins
                           /\ todo = q.todo /\ f = q.file /\ f \in Files
  BY DEF CommitReq
<1>1. \A k \in Keys : Upserted(k, f, ins) \in InvoiceRow /\ Settled(k, f) \in InvoiceRow
  BY DEF Upserted, Settled, TypeOK, InvoiceRow
<1>2. \A k \in Keys : inv[k] \in InvoiceRow
  BY DEF TypeOK
<1> QED
  BY <1>1, <1>2 DEF LedgerAfter

LEMMA InitTypes == ConstantsAssumption /\ Init => TypeOK /\ InFlightInEntity
BY IdleIsRequest DEF Init, TypeOK, InFlightInEntity, NewInvoice, InvoiceRow, AuditRow,
     LatestRow, Idle, NoRow

LEMMA ArriveTypes ==
  ASSUME ConstantsAssumption, TypeOK, InFlightInEntity, NEW r \in Reqs, Arrive(r)
  PROVE  TypeOK' /\ InFlightInEntity'
<1> PICK f \in Files, u \in Users :
      \/ UploadBegin(r, f, u) \/ PatchBegin(r, f, u) \/ AckBegin(r, f, u)
      \/ ReviewBegin(r, f, u) \/ DiscardBegin(r, f, u)
      \/ PublishBegin(r, f, u) \/ ReconcileBegin(r, f, u)
  BY DEF Arrive
<1>0. snap[f].status # "NONE" => snap[f] \in SnapRow /\ snap[f] # NoRow
  BY FreshRows DEF TypeOK, NoRow
<1>1. CASE UploadBegin(r, f, u)
  <2>1. PICK e \in Entities, d \in Dates :
           Goto(r, [pc |-> "upload", file |-> f, user |-> u, entity |-> e, asOf |-> d])
    BY <1>1 DEF UploadBegin
  <2>2. /\ [pc |-> "upload", file |-> f, user |-> u, entity |-> e, asOf |-> d] \in Request
        /\ RequestInEntity([pc |-> "upload", file |-> f, user |-> u,
                            entity |-> e, asOf |-> d])
    BY DEF Request, UploadReq, RequestInEntity
  <2> QED
    BY <1>1, <2>1, <2>2, ReadStep DEF UploadBegin
<1>2. CASE PatchBegin(r, f, u)
  <2>1. PICK e \in Patches(f, snap[f].entity) \cup BulkMaps(snap[f], f) :
           Goto(r, [pc |-> "patch", file |-> f, user |-> u, edit |-> e])
    BY <1>2 DEF PatchBegin
  <2>2. e \in Edit /\ InEntity(snap[f].entity, e) /\ snap[f] # NoRow
    BY <1>0, <1>2, <2>1, EditsType DEF PatchBegin, May
  <2>3. /\ [pc |-> "patch", file |-> f, user |-> u, edit |-> e] \in Request
        /\ RequestInEntity([pc |-> "patch", file |-> f, user |-> u, edit |-> e])
    BY <2>2 DEF Request, PatchReq, RequestInEntity
  <2> QED
    BY <1>2, <2>1, <2>3, ReadStep DEF PatchBegin
<1>3. CASE AckBegin(r, f, u)
  <2>1. PICK codes \in SUBSET WarningsOf[f] :
           Goto(r, [pc |-> "ack", file |-> f, user |-> u,
                    codes |-> snap[f].acked \cup codes])
    BY <1>3 DEF AckBegin
  <2>2. snap[f].acked \cup codes \subseteq Warnings /\ snap[f] # NoRow
    BY <1>0, <1>3 DEF AckBegin, May, SnapRow, ConstantsAssumption
  <2>3. /\ [pc |-> "ack", file |-> f, user |-> u, codes |-> snap[f].acked \cup codes]
             \in Request
        /\ RequestInEntity([pc |-> "ack", file |-> f, user |-> u,
                            codes |-> snap[f].acked \cup codes])
    BY <2>2 DEF Request, AckReq, RequestInEntity
  <2> QED
    BY <1>3, <2>1, <2>3, ReadStep DEF AckBegin
<1>4. CASE ReviewBegin(r, f, u)
  <2>1. PICK d \in {"APPROVED", "REJECTED"} :
           Goto(r, [pc |-> "review", file |-> f, user |-> u, decision |-> d])
    BY <1>4 DEF ReviewBegin
  <2>2. /\ [pc |-> "review", file |-> f, user |-> u, decision |-> d] \in Request
        /\ RequestInEntity([pc |-> "review", file |-> f, user |-> u, decision |-> d])
    BY <1>0, <1>4 DEF ReviewBegin, May, Request, ReviewReq, RequestInEntity
  <2> QED
    BY <1>4, <2>1, <2>2, ReadStep DEF ReviewBegin
<1>5. CASE DiscardBegin(r, f, u)
  <2>1. /\ [pc |-> "discard", file |-> f, user |-> u] \in Request
        /\ RequestInEntity([pc |-> "discard", file |-> f, user |-> u])
    BY <1>0, <1>5 DEF DiscardBegin, May, Request, DiscardReq, RequestInEntity
  <2> QED
    BY <1>5, <2>1, ReadStep DEF DiscardBegin
<1>6. CASE PublishBegin(r, f, u)
  <2>1. /\ [pc |-> "sameDay", file |-> f, user |-> u, seen |-> snap[f]] \in Request
        /\ RequestInEntity([pc |-> "sameDay", file |-> f, user |-> u, seen |-> snap[f]])
    BY <1>0, <1>6 DEF PublishBegin, May, Request, PublishReq, RequestInEntity,
         InFlightInEntity
  <2> QED
    BY <1>6, <2>1, ReadStep DEF PublishBegin
<1>7. CASE ReconcileBegin(r, f, u)
  <2>1. PICK v \in Verdict :
           Goto(r, [pc |-> "reconcile", file |-> f, user |-> u, verdict |-> v])
    BY <1>7 DEF ReconcileBegin
  <2>2. /\ [pc |-> "reconcile", file |-> f, user |-> u, verdict |-> v] \in Request
        /\ RequestInEntity([pc |-> "reconcile", file |-> f, user |-> u, verdict |-> v])
    BY <1>0, <1>7 DEF ReconcileBegin, May, Request, ReconcileReq, RequestInEntity
  <2> QED
    BY <1>7, <2>1, <2>2, ReadStep DEF ReconcileBegin
<1> QED
  BY <1>1, <1>2, <1>3, <1>4, <1>5, <1>6, <1>7

LEMMA AdvanceTypes ==
  ASSUME ConstantsAssumption, TypeOK, InFlightInEntity, NEW r \in Reqs, Advance(r)
  PROVE  TypeOK' /\ InFlightInEntity'
<1> DEFINE q == req[r]
<1>0. q \in Request /\ RequestInEntity(q)
  BY DEF TypeOK, InFlightInEntity, RequestInEntity
<1>1. CASE UploadCommit(r)
  <2>1. q \in UploadReq
    BY <1>0, <1>1, RequestAt DEF UploadCommit, At
  <2>2. CASE snap[q.file] = NoRow
    BY <1>1, <2>1, <2>2, StagedType, WriteStep DEF UploadCommit, UploadReq, TypeOK
  <2>3. CASE snap[q.file] # NoRow
    BY <1>1, <2>3, EndStep DEF UploadCommit, Reads, tables
  <2> QED
    BY <2>2, <2>3
<1>2. CASE PatchCommit(r)
  <2>1. q \in PatchReq /\ snap[q.file] # NoRow /\ InEntity(snap[q.file].entity, q.edit)
    BY <1>0, <1>2, RequestAt DEF PatchCommit, At, RequestInEntity
  <2>2. snap[q.file] \in SnapRow /\ OverridesInEntity(snap[q.file])
    BY <2>1, FreshRows DEF PatchReq, TypeOK, InFlightInEntity
  <2>3. /\ ApplyEdit(snap[q.file], q.edit) \in SnapRow
        /\ ApplyEdit(snap[q.file], q.edit).entity = snap[q.file].entity
        /\ OverridesInEntity(ApplyEdit(snap[q.file], q.edit))
    <3>1. q.edit \in Edit
      BY <2>1 DEF PatchReq
    <3> QED
      BY <2>1, <2>2, <3>1, ApplyEditType, ApplyEditInEntity
  <2>4. snap' = [snap EXCEPT ![q.file] = ApplyEdit(snap[q.file], q.edit)]
    BY <1>2 DEF PatchCommit
  <2>5. /\ snap' \in [Files -> SnapRow \cup {NoRow}]
        /\ req' \in [Reqs -> Request]
        /\ InFlightInEntity'
    BY <1>2, <2>1, <2>3, <2>4, WriteStep DEF PatchCommit, PatchReq
  <2>6. mapped' \in [Files -> SUBSET Rows]
    BY <1>2 DEF PatchCommit, TypeOK
  <2> QED
    BY <1>2, <2>5, <2>6 DEF PatchCommit, TypeOK
<1>3. CASE AckCommit(r)
  <2>1. q \in AckReq /\ snap[q.file] # NoRow
    BY <1>0, <1>3, RequestAt DEF AckCommit, At, RequestInEntity
  <2>2. snap[q.file] \in SnapRow /\ OverridesInEntity(snap[q.file])
    BY <2>1, FreshRows DEF AckReq, TypeOK, InFlightInEntity
  <2>3. /\ [snap[q.file] EXCEPT !.acked = q.codes] \in SnapRow
        /\ [snap[q.file] EXCEPT !.acked = q.codes].entity = snap[q.file].entity
        /\ OverridesInEntity([snap[q.file] EXCEPT !.acked = q.codes])
    BY <2>1, <2>2 DEF AckReq, SnapRow, OverridesInEntity
  <2>4. snap' = [snap EXCEPT ![q.file] = [snap[q.file] EXCEPT !.acked = q.codes]]
    BY <1>3 DEF AckCommit
  <2> QED
    BY <1>3, <2>1, <2>3, <2>4, WriteStep DEF AckCommit, AckReq, TypeOK
<1>4. CASE ReviewCommit(r)
  <2>1. q \in ReviewReq /\ snap[q.file] # NoRow
    BY <1>0, <1>4, RequestAt DEF ReviewCommit, At, RequestInEntity
  <2>2. snap[q.file] \in SnapRow /\ OverridesInEntity(snap[q.file])
    BY <2>1, FreshRows DEF ReviewReq, TypeOK, InFlightInEntity
  <2>3. /\ [snap[q.file] EXCEPT !.review = q.decision] \in SnapRow
        /\ [snap[q.file] EXCEPT !.review = q.decision].entity = snap[q.file].entity
        /\ OverridesInEntity([snap[q.file] EXCEPT !.review = q.decision])
    BY <2>1, <2>2 DEF ReviewReq, SnapRow, OverridesInEntity
  <2>4. snap' = [snap EXCEPT ![q.file] = [snap[q.file] EXCEPT !.review = q.decision]]
    BY <1>4 DEF ReviewCommit
  <2>5. audit' \in [Files -> AuditRow]
    <3>1. /\ q.file \in Files /\ q.user \in Users /\ q.decision \in {"APPROVED", "REJECTED"}
          /\ audit[q.file] \in AuditRow
      BY <2>1 DEF ReviewReq, TypeOK
    <3>2. audit' = [audit EXCEPT ![q.file] = [audit[q.file] EXCEPT
                      !.reviews = audit[q.file].reviews \cup {<<q.user, q.decision>>}]]
      BY <1>4 DEF ReviewCommit
    <3> QED
      BY <3>1, <3>2, AuditRowType DEF TypeOK
  <2> QED
    BY <1>4, <2>1, <2>3, <2>4, <2>5, WriteStep DEF ReviewCommit, ReviewReq, TypeOK
<1>5. CASE DiscardCommit(r)
  <2>1. q \in DiscardReq /\ snap[q.file] # NoRow
    BY <1>0, <1>5, RequestAt DEF DiscardCommit, At, RequestInEntity
  <2>2. snap[q.file] \in SnapRow /\ OverridesInEntity(snap[q.file])
    BY <2>1, FreshRows DEF DiscardReq, TypeOK, InFlightInEntity
  <2>3. /\ [snap[q.file] EXCEPT !.status = "DISCARDED"] \in SnapRow
        /\ [snap[q.file] EXCEPT !.status = "DISCARDED"].entity = snap[q.file].entity
        /\ OverridesInEntity([snap[q.file] EXCEPT !.status = "DISCARDED"])
    BY <2>2 DEF SnapRow, OverridesInEntity
  <2>4. snap' = [snap EXCEPT ![q.file] = [snap[q.file] EXCEPT !.status = "DISCARDED"]]
    BY <1>5 DEF DiscardCommit
  <2>5. audit' \in [Files -> AuditRow]
    <3>1. q.file \in Files /\ audit[q.file] \in AuditRow
      BY <2>1 DEF DiscardReq, TypeOK
    <3>2. audit' = [audit EXCEPT ![q.file] =
                      [audit[q.file] EXCEPT !.discard = audit[q.file].discard + 1]]
      BY <1>5 DEF DiscardCommit
    <3> QED
      BY <3>1, <3>2, AuditRowType DEF TypeOK
  <2> QED
    BY <1>5, <2>1, <2>3, <2>4, <2>5, WriteStep DEF DiscardCommit, DiscardReq, TypeOK
<1>6. CASE ReconcileCommit(r)
  <2>1. q \in ReconcileReq
    BY <1>0, <1>6, RequestAt DEF ReconcileCommit, At
  <2>2. TypeOK'
    BY <1>6, <2>1, IdleIsRequest DEF ReconcileCommit, ReconcileReq, TypeOK, End, Goto
  <2>3. InFlightInEntity'
    BY <1>6, IdleIsRequest DEF ReconcileCommit, TypeOK, End, Goto, InFlightInEntity,
       OverridesInEntity, InEntity, Unmapped, CanonOf
  <2> QED
    BY <2>2, <2>3
<1>7. CASE PublishSameDay(r) \/ PublishPrior(r)
  <2>1. q \in PublishReq
    BY <1>0, <1>7, RequestAt DEF PublishSameDay, PublishPrior, At
  <2>2. /\ [q EXCEPT !.pc = "prior"] \in Request
        /\ [q EXCEPT !.pc = "gate"] \in Request
        /\ RequestInEntity([q EXCEPT !.pc = "prior"])
        /\ RequestInEntity([q EXCEPT !.pc = "gate"])
    BY <1>0, <2>1 DEF Request, PublishReq, RequestInEntity
  <2> QED
    BY <1>7, <2>2, ReadStep, EndStep DEF PublishSameDay, PublishPrior
<1>8. CASE PublishGate(r)
  <2>1. q \in PublishReq /\ q.pc = "gate"
    BY <1>0, <1>8, RequestAt DEF PublishGate, At
  <2> DEFINE n == [pc |-> "publish", file |-> q.file, user |-> q.user, seen |-> q.seen,
                   ins |-> {k \in Touched(q.seen, q.file) : inv[k].status = "NONE"}]
  <2>2. CASE End(r)
    BY <1>8, <2>2, EndStep DEF PublishGate
  <2>3. CASE Goto(r, n) /\ GateOk(q.seen, q.file, q.user)
    <3>1. /\ q.file \in Files /\ q.user \in Users /\ q.seen \in SnapRow
          /\ Unmapped(q.seen, q.file) = {} /\ OverridesInEntity(q.seen)
      BY <1>0, <2>1, <2>3 DEF GateOk, PublishReq, RequestInEntity
    <3>2. Touched(q.seen, q.file) \subseteq Keys
      BY <3>1, TouchedInEntity
    <3>3. n \in Request
      BY <3>1, <3>2 DEF Request, UpsertReq
    <3>4. RequestInEntity(n)
      BY <1>0, <2>1, <3>1 DEF RequestInEntity
    <3> QED
      BY <1>8, <2>3, <3>3, <3>4, ReadStep DEF PublishGate
  <2> QED
    BY <1>8, <2>2, <2>3 DEF PublishGate
<1>9. CASE PublishCommit(r)
  <2>1. /\ q \in CommitReq /\ snap[q.file] # NoRow
        /\ OverridesInEntity(q.seen) /\ Unmapped(q.seen, q.file) = {}
    BY <1>0, <1>9, RequestAt DEF PublishCommit, At, RequestInEntity
  <2>2. /\ q.file \in Files /\ q.seen \in SnapRow /\ q.ins \in SUBSET Keys
        /\ snap[q.file] \in SnapRow /\ OverridesInEntity(snap[q.file])
        /\ q.seen.entity \in Entities
    BY <2>1, FreshRows DEF CommitReq, TypeOK, InFlightInEntity, SnapRow
  <2>3. /\ [snap[q.file] EXCEPT !.status = "PUBLISHED"] \in SnapRow
        /\ [snap[q.file] EXCEPT !.status = "PUBLISHED"].entity = snap[q.file].entity
        /\ OverridesInEntity([snap[q.file] EXCEPT !.status = "PUBLISHED"])
    BY <2>2 DEF SnapRow, OverridesInEntity
  <2>4. snap' = [snap EXCEPT ![q.file] = [snap[q.file] EXCEPT !.status = "PUBLISHED"]]
    BY <1>9 DEF PublishCommit
  <2>5. inv' \in [Keys -> InvoiceRow]
    BY <1>9, <2>1, LedgerAfterType DEF PublishCommit
  <2>6. lines' \in [Files -> SUBSET LineRow]
    BY <1>9, <2>1, <2>2, NewLinesType DEF PublishCommit, TypeOK
  <2>7. audit' \in [Files -> AuditRow]
    <3>1. audit[q.file] \in AuditRow
      BY <2>2 DEF TypeOK
    <3>2. audit' = [audit EXCEPT ![q.file] =
                      [audit[q.file] EXCEPT !.publish = audit[q.file].publish + 1]]
      BY <1>9 DEF PublishCommit
    <3> QED
      BY <2>2, <3>1, <3>2, AuditRowType DEF TypeOK
  <2>8. last' \in [Entities -> LatestRow]
    BY <1>9, <2>1, <2>2 DEF PublishCommit, TypeOK, CommitReq, LatestRow
  <2>9. End(r) /\ recon' = recon /\ mapped' = mapped
    BY <1>9 DEF PublishCommit
  <2> QED
    BY <2>2, <2>3, <2>4, <2>5, <2>6, <2>7, <2>8, <2>9, WriteStep DEF TypeOK
<1>10. CASE PublishAbort(r)
  BY <1>10, EndStep DEF PublishAbort
<1>11. CASE PublishUpsert(r)
  <2>1. q \in UpsertReq /\ q.pc = "publish"
    BY <1>0, <1>11, RequestAt DEF PublishUpsert, At
  <2>2. [q EXCEPT !.pc = "settle"] \in Request /\ RequestInEntity([q EXCEPT !.pc = "settle"])
    BY <1>0, <2>1 DEF Request, UpsertReq, RequestInEntity
  <2> QED
    BY <1>11, <2>2, ReadStep DEF PublishUpsert
<1>12. CASE PublishSettle(r)
  <2>1. q \in UpsertReq /\ q.pc = "settle"
    BY <1>0, <1>12, RequestAt DEF PublishSettle, At
  <2> DEFINE c == [pc |-> "commit", file |-> q.file, user |-> q.user, seen |-> q.seen,
                   ins |-> q.ins, todo |-> ToSettle(q),
                   before |-> [f \in Files |-> audit[f].publish]]
  <2>2. ToSettle(q) \subseteq Keys /\ \A f \in Files : audit[f].publish \in Nat
    BY DEF ToSettle, TypeOK, AuditRow
  <2>3. c \in Request /\ RequestInEntity(c)
    BY <1>0, <2>1, <2>2 DEF Request, UpsertReq, CommitReq, RequestInEntity
  <2> QED
    BY <1>12, <2>3, ReadStep DEF PublishSettle
<1> QED
  BY <1>1, <1>2, <1>3, <1>4, <1>5, <1>6, <1>7, <1>8, <1>9, <1>10, <1>11, <1>12 DEF Advance

\* Every variable keeps its type, and what a request in flight has read of its
\* snapshot stays true, whatever the interleaving.
THEOREM TypeCorrect == Spec => [](TypeOK /\ InFlightInEntity)
<1> USE ConstantsAssumption
<1>1. Init => TypeOK /\ InFlightInEntity
  BY InitTypes
<1>2. TypeOK /\ InFlightInEntity /\ [Next]_vars => (TypeOK /\ InFlightInEntity)'
  <2> SUFFICES ASSUME TypeOK, InFlightInEntity, [Next]_vars
               PROVE  (TypeOK /\ InFlightInEntity)'
    OBVIOUS
  <2>1. CASE Next
    BY <2>1, ArriveTypes, AdvanceTypes, EndStep DEF Next, Die
  <2>2. CASE UNCHANGED vars
    BY <2>2 DEF vars, TypeOK, InFlightInEntity, OverridesInEntity, InEntity, Unmapped,
       CanonOf
  <2> QED
    BY <2>1, <2>2
<1> QED
  BY <1>1, <1>2, PTL DEF Spec

-----------------------------------------------------------------------------
(***************************************************************************)
(* What overlapping requests cannot undo: a committed mapping of a row     *)
(* stays a mapping, and where review is required nothing is published      *)
(* without the approval of somebody else than the uploader.                *)
(*                                                                         *)
(* Both rest on what a snapshot never loses, whatever request writes it:   *)
(* its uploader, its entity, its mappings and its review rows.             *)
(***************************************************************************)

\* What a step leaves of a snapshot that exists.
RowKept(f) ==
  /\ snap'[f] \in SnapRow
  /\ snap'[f].entity = snap[f].entity /\ snap'[f].uploader = snap[f].uploader
  /\ \A row \in Rows : snap[f].canon[row] # NoCanon => snap'[f].canon[row] # NoCanon
  /\ audit[f].reviews \subseteq audit'[f].reviews

Kept == \A f \in Files : snap[f] # NoRow => RowKept(f)

LEMMA StillKept ==
  ASSUME TypeOK, UNCHANGED <<snap, audit>>
  PROVE  Kept
BY FreshRows DEF Kept, RowKept, TypeOK

LEMMA EditKeeps ==
  ASSUME NEW s \in SnapRow, NEW e \in Edit
  PROVE  /\ ApplyEdit(s, e) \in SnapRow
         /\ ApplyEdit(s, e).entity = s.entity /\ ApplyEdit(s, e).uploader = s.uploader
         /\ ApplyEdit(s, e).review = s.review
         /\ \A row \in Rows :
              ApplyEdit(s, e).canon[row] = IF e.canon[row] # NoCanon THEN e.canon[row]
                                           ELSE s.canon[row]
BY DEF ApplyEdit, SnapRow, Edit

\* Each transaction, in the words of the two invariants.
LEMMA CommitKeeps ==
  ASSUME TypeOK, InFlightInEntity, NEW r \in Reqs, Advance(r)
  PROVE  Kept
<1> DEFINE q == req[r]
<1>1. /\ q \in Request
      /\ q.pc \notin {"idle", "upload"} => snap[q.file] # NoRow
  BY DEF TypeOK, InFlightInEntity
<1>2. CASE UploadCommit(r)
  <2>1. q \in UploadReq
    BY <1>1, <1>2, RequestAt DEF UploadCommit, At
  <2> QED
    BY <1>2, <2>1, FreshRows DEF UploadCommit, Kept, RowKept, TypeOK, UploadReq
<1>3. CASE PatchCommit(r)
  <2>1. q \in PatchReq /\ snap[q.file] # NoRow
    BY <1>1, <1>3, RequestAt DEF PatchCommit, At
  <2>2. /\ q.file \in Files /\ q.edit \in Edit /\ snap[q.file] \in SnapRow
    BY <2>1, FreshRows DEF PatchReq, TypeOK
  <2>3. snap' = [snap EXCEPT ![q.file] = ApplyEdit(snap[q.file], q.edit)] /\ audit' = audit
    BY <1>3 DEF PatchCommit
  <2>4. RowKept(q.file)
    BY <2>2, <2>3, EditKeeps DEF RowKept, TypeOK
  <2>5. \A f \in Files \ {q.file} : snap[f] # NoRow => RowKept(f)
    BY <2>2, <2>3, FreshRows DEF RowKept, TypeOK
  <2> QED
    BY <2>4, <2>5 DEF Kept
<1>4. CASE AckCommit(r)
  <2>1. q \in AckReq /\ snap[q.file] # NoRow
    BY <1>1, <1>4, RequestAt DEF AckCommit, At
  <2>2. q.file \in Files /\ q.codes \in SUBSET Warnings /\ snap[q.file] \in SnapRow
    BY <2>1, FreshRows DEF AckReq, TypeOK
  <2> QED
    BY <1>4, <2>2, FreshRows DEF AckCommit, Kept, RowKept, TypeOK, SnapRow
<1>5. CASE ReviewCommit(r)
  <2>1. q \in ReviewReq /\ snap[q.file] # NoRow
    BY <1>1, <1>5, RequestAt DEF ReviewCommit, At
  <2>2. /\ q.file \in Files /\ q.decision \in {"APPROVED", "REJECTED"}
        /\ snap[q.file] \in SnapRow
    BY <2>1, FreshRows DEF ReviewReq, TypeOK
  <2>3. \A f \in Files : audit[f].reviews \subseteq audit'[f].reviews
    BY <1>5, <2>2 DEF ReviewCommit, TypeOK, AuditRow
  <2>4. \A f \in Files : snap[f] # NoRow =>
          /\ snap'[f] \in SnapRow
          /\ snap'[f].entity = snap[f].entity /\ snap'[f].uploader = snap[f].uploader
          /\ snap'[f].canon = snap[f].canon
    BY <1>5, <2>2, FreshRows DEF ReviewCommit, TypeOK, SnapRow
  <2> QED
    BY <2>3, <2>4 DEF Kept, RowKept
<1>6. CASE DiscardCommit(r)
  <2>1. q \in DiscardReq /\ snap[q.file] # NoRow
    BY <1>1, <1>6, RequestAt DEF DiscardCommit, At
  <2>2. q.file \in Files /\ snap[q.file] \in SnapRow
    BY <2>1, FreshRows DEF DiscardReq, TypeOK
  <2>3. \A f \in Files : audit[f].reviews \subseteq audit'[f].reviews
    BY <1>6, <2>2 DEF DiscardCommit, TypeOK, AuditRow
  <2>4. \A f \in Files : snap[f] # NoRow =>
          /\ snap'[f] \in SnapRow
          /\ snap'[f].entity = snap[f].entity /\ snap'[f].uploader = snap[f].uploader
          /\ snap'[f].canon = snap[f].canon
    BY <1>6, <2>2, FreshRows DEF DiscardCommit, TypeOK, SnapRow
  <2> QED
    BY <2>3, <2>4 DEF Kept, RowKept
<1>7. CASE PublishCommit(r)
  <2>1. q \in CommitReq /\ snap[q.file] # NoRow
    BY <1>1, <1>7, RequestAt DEF PublishCommit, At
  <2>2. q.file \in Files /\ snap[q.file] \in SnapRow
    BY <2>1, FreshRows DEF CommitReq, TypeOK
  <2>3. \A f \in Files : audit[f].reviews \subseteq audit'[f].reviews
    BY <1>7, <2>2 DEF PublishCommit, TypeOK, AuditRow
  <2>4. \A f \in Files : snap[f] # NoRow =>
          /\ snap'[f] \in SnapRow
          /\ snap'[f].entity = snap[f].entity /\ snap'[f].uploader = snap[f].uploader
          /\ snap'[f].canon = snap[f].canon
    BY <1>7, <2>2, FreshRows DEF PublishCommit, TypeOK, SnapRow
  <2> QED
    BY <2>3, <2>4 DEF Kept, RowKept
<1>8. CASE UNCHANGED <<snap, audit>>
  BY <1>8, StillKept
<1> QED
  BY <1>2, <1>3, <1>4, <1>5, <1>6, <1>7, <1>8 DEF Advance, Reads, tables, ReconcileCommit,
     PublishSameDay, PublishPrior, PublishGate, PublishAbort, PublishUpsert, PublishSettle

LEMMA ArriveReads ==
  ASSUME NEW r \in Reqs, Arrive(r) \/ Die(r)
  PROVE  UNCHANGED tables
BY DEF Arrive, Die, Reads, UploadBegin, PatchBegin, AckBegin, ReviewBegin, DiscardBegin,
   PublishBegin, ReconcileBegin

LEMMA StepKeeps ==
  ASSUME TypeOK, InFlightInEntity, [Next]_vars
  PROVE  Kept
<1>1. ASSUME NEW r \in Reqs, Arrive(r) \/ Die(r)
      PROVE  Kept
  BY <1>1, ArriveReads, StillKept DEF tables
<1>2. CASE UNCHANGED vars
  BY <1>2, StillKept DEF vars
<1> QED
  BY <1>1, <1>2, CommitKeeps DEF Next

-----------------------------------------------------------------------------
(* Mappings *)

LEMMA StepMapping ==
  ASSUME TypeOK, InFlightInEntity, MappingKept, [Next]_vars
  PROVE  MappingKept'
<1>1. SUFFICES ASSUME NEW f \in Files, NEW row \in mapped'[f]
               PROVE  snap'[f] # NoRow /\ snap'[f].canon[row] # NoCanon
  BY DEF MappingKept
<1>2. CASE row \in mapped[f]
  BY <1>2, StepKeeps, FreshRows DEF MappingKept, Kept, RowKept, TypeOK
<1>3. CASE row \notin mapped[f]
  <2>1. PICK r \in Reqs : PatchCommit(r)
    BY <1>1, <1>3, ArriveReads DEF Next, vars, Advance, Reads, tables, UploadCommit,
       AckCommit, ReviewCommit, DiscardCommit, ReconcileCommit, PublishCommit,
       PublishSameDay, PublishPrior, PublishGate, PublishAbort, PublishUpsert,
       PublishSettle
  <2> DEFINE q == req[r]
  <2>2. q \in PatchReq /\ snap[q.file] # NoRow
    BY <2>1, RequestAt DEF PatchCommit, At, TypeOK, InFlightInEntity
  <2>3. /\ q.file \in Files /\ q.edit \in Edit /\ snap[q.file] \in SnapRow
    BY <2>2, FreshRows DEF PatchReq, TypeOK
  <2>4. f = q.file /\ row \in Rows /\ q.edit.canon[row] # NoCanon
    BY <1>1, <1>3, <2>1, <2>3 DEF PatchCommit, TypeOK
  <2>5. snap'[f] = ApplyEdit(snap[f], q.edit)
    BY <2>1, <2>3, <2>4 DEF PatchCommit, TypeOK
  <2> QED
    BY <2>3, <2>4, <2>5, EditKeeps, FreshRows
<1> QED
  BY <1>2, <1>3

\* A committed mapping survives whatever other requests write to the snapshot, for
\* any number of requests, rows and parties.
THEOREM MappingCorrect == Spec => []MappingKept
<1> USE ConstantsAssumption
<1>1. Init => MappingKept
  BY DEF Init, MappingKept
<1>2. TypeOK /\ InFlightInEntity /\ MappingKept /\ [Next]_vars => MappingKept'
  BY StepMapping
<1> QED
  BY <1>1, <1>2, TypeCorrect, PTL DEF Spec

-----------------------------------------------------------------------------
(* Reviews *)

\* Somebody else than the uploader approved snapshot f, at some time.
Approved(f) ==
  \E u \in Users : <<u, "APPROVED">> \in audit[f].reviews /\ u # snap[f].uploader

\* A snapshot that reads APPROVED was approved, one that was not uploaded was never
\* published, a review in flight is not of the reviewer's own snapshot, and what a
\* publish in flight read, and holds to, was true.
RequestReviewed(q) ==
  /\ q.pc = "review" => q.user # snap[q.file].uploader
  /\ q.pc \in {"sameDay", "prior", "gate", "publish", "settle", "commit"}
       /\ q.seen.review = "APPROVED" => Approved(q.file)
  /\ q.pc \in {"publish", "settle", "commit"} /\ q.seen.entity \in ReviewRequired =>
       q.seen.review = "APPROVED"

Reviewed ==
  /\ \A f \in Files :
       /\ snap[f] # NoRow /\ snap[f].review = "APPROVED" => Approved(f)
       /\ snap[f] = NoRow => audit[f].publish = 0
  /\ \A r \in Reqs : RequestReviewed(req[r])
  /\ IndependentApproval

LEMMA ApprovedStays ==
  ASSUME Kept, NEW f \in Files, snap[f] # NoRow, Approved(f)
  PROVE  Approved(f)'
BY DEF Kept, RowKept, Approved

\* The requests that did not move hold what they held.
LEMMA OthersReviewed ==
  ASSUME TypeOK, InFlightInEntity, Reviewed, Kept, NEW r \in Reqs, req'[r] = req[r]
  PROVE  RequestReviewed(req[r])'
<1> DEFINE q == req[r]
<1>1. /\ q \in Request
      /\ q.pc \notin {"idle", "upload"} => snap[q.file] # NoRow
      /\ q.pc \in {"review", "sameDay", "prior", "gate", "publish", "settle", "commit"} =>
           q.file \in Files
  BY RequestAt DEF TypeOK, InFlightInEntity, ReviewReq, PublishReq, UpsertReq, CommitReq
<1>2. RequestReviewed(q)
  BY DEF Reviewed
<1>3. q.pc = "review" => q.user # snap'[q.file].uploader
  BY <1>1, <1>2 DEF RequestReviewed, Kept, RowKept
<1>4. q.pc \in {"sameDay", "prior", "gate", "publish", "settle", "commit"}
        /\ q.seen.review = "APPROVED" => Approved(q.file)'
  BY <1>1, <1>2, ApprovedStays DEF RequestReviewed
<1> QED
  BY <1>2, <1>3, <1>4 DEF RequestReviewed, Approved

\* A step whose tables and whose own request are right.
LEMMA ReviewedAfter ==
  ASSUME TypeOK, InFlightInEntity, Reviewed, Kept,
         NEW r \in Reqs, NEW q \in Request, Goto(r, q), RequestReviewed(q)',
         \A f \in Files :
           /\ snap'[f] # NoRow /\ snap'[f].review = "APPROVED" =>
                (snap[f] # NoRow /\ snap[f].review = "APPROVED") \/ Approved(f)'
           /\ audit'[f].publish # audit[f].publish =>
                snap[f] # NoRow /\ (snap[f].entity \in ReviewRequired => Approved(f))
  PROVE  Reviewed'
<1>1. ASSUME NEW f \in Files, snap'[f] # NoRow, snap'[f].review = "APPROVED"
      PROVE  Approved(f)'
  BY <1>1, ApprovedStays DEF Reviewed
<1>2. ASSUME NEW f \in Files, snap'[f] = NoRow
      PROVE  audit'[f].publish = 0
  BY <1>2, FreshRows DEF Reviewed, Kept, RowKept
<1>3. ASSUME NEW f \in Files, audit'[f].publish > 0, snap'[f].entity \in ReviewRequired
      PROVE  Approved(f)'
  <2>1. snap[f] # NoRow
    BY <1>3 DEF Reviewed
  <2>2. snap[f].entity \in ReviewRequired
    BY <1>3, <2>1 DEF Kept, RowKept
  <2>3. Approved(f)
    BY <1>3, <2>2 DEF Reviewed, IndependentApproval, Approved
  <2> QED
    BY <2>1, <2>3, ApprovedStays
<1>4. IndependentApproval'
  BY <1>3 DEF IndependentApproval, Approved
<1>5. ASSUME NEW p \in Reqs
      PROVE  RequestReviewed(req[p])'
  <2>1. CASE p = r
    <3>1. req'[p] = q
      BY <2>1 DEF Goto, TypeOK
    <3> QED
      BY <3>1 DEF RequestReviewed, Approved
  <2>2. CASE p # r
    <3>1. req'[p] = req[p]
      BY <2>2 DEF Goto, TypeOK
    <3> QED
      BY <3>1, OthersReviewed
  <2> QED
    BY <2>1, <2>2
<1> QED
  BY <1>1, <1>2, <1>4, <1>5 DEF Reviewed, Approved

\* A step that ends its request and neither approves nor publishes.
LEMMA EndReviewed ==
  ASSUME TypeOK, InFlightInEntity, Reviewed, Kept, NEW r \in Reqs, End(r),
         \A f \in Files :
           /\ snap'[f] # NoRow /\ snap'[f].review = "APPROVED" =>
                (snap[f] # NoRow /\ snap[f].review = "APPROVED") \/ Approved(f)'
           /\ audit'[f].publish # audit[f].publish =>
                snap[f] # NoRow /\ (snap[f].entity \in ReviewRequired => Approved(f))
  PROVE  Reviewed'
<1>1. Idle \in Request /\ RequestReviewed(Idle)'
  BY IdleIsRequest DEF RequestReviewed, Idle
<1> QED
  BY <1>1, ReviewedAfter DEF End

LEMMA ArriveReviewed ==
  ASSUME TypeOK, TypeOK', InFlightInEntity, Reviewed, Kept, NEW r \in Reqs, Arrive(r)
  PROVE  Reviewed'
<1> PICK f \in Files, u \in Users :
      \/ UploadBegin(r, f, u) \/ PatchBegin(r, f, u) \/ AckBegin(r, f, u)
      \/ ReviewBegin(r, f, u) \/ DiscardBegin(r, f, u)
      \/ PublishBegin(r, f, u) \/ ReconcileBegin(r, f, u)
  BY DEF Arrive
<1>1. UNCHANGED tables
  BY ArriveReads
<1>2. PICK q : Goto(r, q) /\ RequestReviewed(q)
  <2>1. CASE ReviewBegin(r, f, u)
    BY <2>1 DEF ReviewBegin, RequestReviewed
  <2>2. CASE PublishBegin(r, f, u)
    <3>1. snap[f] # NoRow
      BY <2>2 DEF PublishBegin, May, NoRow
    <3> QED
      BY <2>2, <3>1 DEF PublishBegin, RequestReviewed, Reviewed
  <2>3. CASE \/ UploadBegin(r, f, u) \/ PatchBegin(r, f, u) \/ AckBegin(r, f, u)
             \/ DiscardBegin(r, f, u) \/ ReconcileBegin(r, f, u)
    <3>1. /\ Goto(r, req'[r])
          /\ req'[r].pc \in {"upload", "patch", "ack", "discard", "reconcile"}
      BY <2>3 DEF UploadBegin, PatchBegin, AckBegin, DiscardBegin, ReconcileBegin, Goto, TypeOK
    <3> QED
      BY <3>1 DEF RequestReviewed
  <2> QED
    BY <2>1, <2>2, <2>3
<1>3. q \in Request
  BY <1>2 DEF Goto, TypeOK
<1>4. RequestReviewed(q)'
  BY <1>1, <1>2 DEF tables, RequestReviewed, Approved
<1> QED
  BY <1>1, <1>2, <1>3, <1>4, ReviewedAfter DEF tables

LEMMA AdvanceReviewed ==
  ASSUME TypeOK, TypeOK', InFlightInEntity, Reviewed, Kept, NEW r \in Reqs, Advance(r)
  PROVE  Reviewed'
<1> DEFINE q == req[r]
<1>1. /\ q \in Request /\ RequestReviewed(q)
      /\ q.pc \notin {"idle", "upload"} => snap[q.file] # NoRow
  BY DEF TypeOK, InFlightInEntity, Reviewed
<1>2. CASE UploadCommit(r)
  <2>1. q \in UploadReq
    BY <1>1, <1>2, RequestAt DEF UploadCommit, At
  <2>2. \A f \in Files : snap'[f] = snap[f] \/ snap'[f].review = "NONE"
    BY <1>2, <2>1 DEF UploadCommit, TypeOK, UploadReq, Staged
  <2> QED
    BY <1>2, <2>2, EndReviewed DEF UploadCommit
<1>3. CASE PatchCommit(r)
  <2>1. q \in PatchReq /\ snap[q.file] # NoRow
    BY <1>1, <1>3, RequestAt DEF PatchCommit, At
  <2>2. /\ q.file \in Files /\ q.edit \in Edit /\ snap[q.file] \in SnapRow
    BY <2>1, FreshRows DEF PatchReq, TypeOK
  <2>3. snap' = [snap EXCEPT ![q.file] = ApplyEdit(snap[q.file], q.edit)]
    BY <1>3 DEF PatchCommit
  <2>4. \A f \in Files : snap'[f] = snap[f] \/ (f = q.file /\ snap'[f].review = snap[f].review)
    BY <2>2, <2>3, EditKeeps DEF TypeOK
  <2> QED
    BY <1>3, <2>1, <2>4, EndReviewed DEF PatchCommit
<1>4. CASE AckCommit(r)
  <2>1. q \in AckReq /\ snap[q.file] # NoRow
    BY <1>1, <1>4, RequestAt DEF AckCommit, At
  <2>2. q.file \in Files /\ snap[q.file] \in SnapRow
    BY <2>1, FreshRows DEF AckReq, TypeOK
  <2>3. \A f \in Files : snap'[f] = snap[f] \/ (f = q.file /\ snap'[f].review = snap[f].review)
    BY <1>4, <2>2 DEF AckCommit, TypeOK, SnapRow
  <2> QED
    BY <1>4, <2>1, <2>3, EndReviewed DEF AckCommit
<1>5. CASE ReviewCommit(r)
  <2>1. q \in ReviewReq /\ snap[q.file] # NoRow
    BY <1>1, <1>5, RequestAt DEF ReviewCommit, At
  <2>2. /\ q.file \in Files /\ q.user \in Users /\ snap[q.file] \in SnapRow
        /\ q.user # snap[q.file].uploader
    BY <1>1, <2>1, FreshRows DEF ReviewReq, TypeOK, RequestReviewed
  <2>3. /\ \A f \in Files \ {q.file} : snap'[f] = snap[f]
        /\ snap'[q.file].review = q.decision
        /\ snap'[q.file].uploader = snap[q.file].uploader
    BY <1>5, <2>2 DEF ReviewCommit, TypeOK, SnapRow
  <2>4. /\ <<q.user, q.decision>> \in audit'[q.file].reviews
        /\ \A f \in Files : audit'[f].publish = audit[f].publish
    BY <1>5, <2>2 DEF ReviewCommit, TypeOK, AuditRow
  <2>5. ASSUME NEW f \in Files, f = q.file, q.decision = "APPROVED"
        PROVE  Approved(f)'
    BY <2>2, <2>3, <2>4, <2>5 DEF Approved
  <2> QED
    BY <1>5, <2>3, <2>4, <2>5, EndReviewed DEF ReviewCommit
<1>6. CASE DiscardCommit(r)
  <2>1. q \in DiscardReq /\ snap[q.file] # NoRow
    BY <1>1, <1>6, RequestAt DEF DiscardCommit, At
  <2>2. q.file \in Files /\ snap[q.file] \in SnapRow
    BY <2>1, FreshRows DEF DiscardReq, TypeOK
  <2>3. \A f \in Files : snap'[f] = snap[f] \/ (f = q.file /\ snap'[f].review = snap[f].review)
    BY <1>6, <2>2 DEF DiscardCommit, TypeOK, SnapRow
  <2>4. \A f \in Files : audit'[f].publish = audit[f].publish
    BY <1>6, <2>2 DEF DiscardCommit, TypeOK, AuditRow
  <2> QED
    BY <1>6, <2>1, <2>3, <2>4, EndReviewed DEF DiscardCommit
<1>7. CASE PublishCommit(r)
  <2>1. q \in CommitReq /\ snap[q.file] # NoRow /\ snap[q.file].entity = q.seen.entity
    BY <1>1, <1>7, RequestAt DEF PublishCommit, At, InFlightInEntity
  <2>2. q.file \in Files /\ snap[q.file] \in SnapRow
    BY <2>1, FreshRows DEF CommitReq, TypeOK
  <2>3. \A f \in Files : snap'[f] = snap[f] \/ (f = q.file /\ snap'[f].review = snap[f].review)
    BY <1>7, <2>2 DEF PublishCommit, TypeOK, SnapRow
  <2>4. \A f \in Files : audit'[f].publish # audit[f].publish => f = q.file
    BY <1>7, <2>2 DEF PublishCommit, TypeOK, AuditRow
  <2>5. snap[q.file].entity \in ReviewRequired => Approved(q.file)
    BY <1>1, <1>7, <2>1 DEF RequestReviewed, PublishCommit, At
  <2> QED
    BY <1>7, <2>1, <2>3, <2>4, <2>5, EndReviewed DEF PublishCommit
<1>8. CASE ReconcileCommit(r) \/ PublishAbort(r)
  BY <1>8, EndReviewed DEF ReconcileCommit, PublishAbort, Reads, tables
<1>9. CASE \/ PublishSameDay(r) \/ PublishPrior(r) \/ PublishGate(r) \/ PublishUpsert(r)
           \/ PublishSettle(r)
  <2>1. q \in PublishReq \cup UpsertReq
    BY <1>1, <1>9, RequestAt DEF PublishSameDay, PublishPrior, PublishGate, PublishUpsert,
       PublishSettle, At
  <2>2. UNCHANGED tables
    BY <1>9 DEF PublishSameDay, PublishPrior, PublishGate, PublishUpsert, PublishSettle, Reads
  <2>3. CASE End(r)
    BY <2>2, <2>3, EndReviewed DEF tables
  <2>4. ASSUME NEW c, Goto(r, c),
               c.pc \in {"prior", "gate", "publish", "settle", "commit"},
               c.file = q.file, c.seen = q.seen,
               c.pc \in {"publish", "settle", "commit"} /\ q.seen.entity \in ReviewRequired =>
                 q.seen.review = "APPROVED"
        PROVE  Reviewed'
    <3>1. c \in Request
      BY <2>4 DEF Goto, TypeOK
    <3>2. RequestReviewed(c)'
      BY <1>1, <2>1, <2>2, <2>4 DEF RequestReviewed, PublishReq, UpsertReq, Approved, tables
    <3> QED
      BY <2>2, <2>4, <3>1, <3>2, ReviewedAfter DEF tables
  <2>5. \A pc \in {"prior", "gate", "settle"} :
          /\ [q EXCEPT !.pc = pc].pc = pc
          /\ [q EXCEPT !.pc = pc].file = q.file /\ [q EXCEPT !.pc = pc].seen = q.seen
    BY <2>1 DEF PublishReq, UpsertReq
  <2>6. CASE PublishSameDay(r) /\ ~End(r)
    BY <2>4, <2>5, <2>6 DEF PublishSameDay
  <2>7. CASE PublishPrior(r) /\ ~End(r)
    BY <2>4, <2>5, <2>7 DEF PublishPrior
  <2>8. CASE PublishGate(r) /\ ~End(r)
    BY <2>4, <2>8 DEF PublishGate, GateOk
  <2>9. CASE PublishUpsert(r)
    BY <1>1, <2>4, <2>5, <2>9 DEF PublishUpsert, At, RequestReviewed
  <2>10. CASE PublishSettle(r)
    BY <1>1, <2>4, <2>10 DEF PublishSettle, At, RequestReviewed
  <2> QED
    BY <1>9, <2>3, <2>6, <2>7, <2>8, <2>9, <2>10
<1> QED
  BY <1>2, <1>3, <1>4, <1>5, <1>6, <1>7, <1>8, <1>9 DEF Advance

LEMMA StepReviewed ==
  ASSUME TypeOK, TypeOK', InFlightInEntity, Reviewed, [Next]_vars
  PROVE  Reviewed'
<1>1. Kept
  BY StepKeeps
<1>2. CASE UNCHANGED vars
  BY <1>2 DEF vars, Reviewed, RequestReviewed, Approved, IndependentApproval
<1>3. ASSUME NEW r \in Reqs, Die(r)
      PROVE  Reviewed'
  BY <1>1, <1>3, EndReviewed DEF Die, Reads, tables
<1> QED
  BY <1>1, <1>2, <1>3, ArriveReviewed, AdvanceReviewed DEF Next

\* Where review is required, nothing is published without the approval of somebody
\* other than the uploader, although the gate reads the decision earlier than the
\* transaction publishes and others review in between.
THEOREM ApprovalCorrect == Spec => []IndependentApproval
<1> USE ConstantsAssumption
<1>1. Init => Reviewed
  BY DEF Init, Reviewed, RequestReviewed, IndependentApproval, Idle
<1>2. TypeOK /\ TypeOK' /\ InFlightInEntity /\ Reviewed /\ [Next]_vars => Reviewed'
  BY StepReviewed
<1>3. Reviewed => IndependentApproval
  BY DEF Reviewed
<1> QED
  BY <1>1, <1>2, <1>3, TypeCorrect, PTL DEF Spec

-----------------------------------------------------------------------------
(***************************************************************************)
(* The invoice ledger is right under every interleaving: the OPEN invoices *)
(* of an entity are those its latest publish reported, every settled one   *)
(* has its reason, every parsed row its line, and first_seen stands.       *)
(*                                                                         *)
(* The publish counter of a snapshot numbers the lines it writes, so a     *)
(* publish adds lines under a number no earlier line has: what earlier     *)
(* publishes reported is not disturbed.                                    *)
(***************************************************************************)

\* Pairs of transactions that have written rows have written different ones.
Apart == \A p, o \in Reqs : p # o => Holds(req[p]) \cap Holds(req[o]) = {}

\* What request q holds is so of the tables.  A publish has a row to write; it inserts
\* every touched invoice that does not exist, since what its read found is not deleted
\* under it, and once it has inserted them nobody else does.  What is OPEN and not
\* reported by one about to commit is about to be settled, or reported since it looked.
Inserting(q) ==
  /\ q.pc \in {"publish", "settle", "commit"} =>
       /\ OkRows(q.file) # {}
       /\ q.ins \subseteq Touched(q.seen, q.file)
       /\ \A k \in Touched(q.seen, q.file) \ q.ins : inv[k].status # "NONE"
  /\ q.pc \in {"settle", "commit"} => \A k \in q.ins : inv[k].status = "NONE"

Settling(q) ==
  q.pc = "commit" =>
    /\ \A f \in Files : q.before[f] =< audit[f].publish
    /\ \A k \in q.todo : EntityOfKey(k) = q.seen.entity /\ k \notin Touched(q.seen, q.file)
    /\ \A k \in Open(q.seen.entity) \ Touched(q.seen, q.file) :
         k \in q.todo \/ ReportedSince(k, q.before)

Booked(q) == Inserting(q) /\ Settling(q)

\* The latest publish of an entity is of a snapshot of that entity.
LastInEntity ==
  \A e \in Entities :
    LET f == last[e].file IN
    f # NoFile => snap[f] # NoRow /\ snap[f].entity = e

\* The inductive invariant.
Ledger ==
  /\ LinesComplete
  /\ OpenOrLate
  /\ SettledExplained
  /\ LastInEntity
  /\ Apart
  /\ \A r \in Reqs : Booked(req[r])

IInv == TypeOK /\ InFlightInEntity /\ Ledger

-----------------------------------------------------------------------------
(* Steps that write no invoice and no line *)

\* A snapshot keeps its existence and its entity.
SnapKept ==
  \A f \in Files : snap[f] # NoRow => snap'[f] # NoRow /\ snap'[f].entity = snap[f].entity

PublishKept == \A f \in Files : audit'[f].publish = audit[f].publish

\* The invoices, the lines and who published last stay.
TablesKept == SnapKept /\ PublishKept /\ UNCHANGED <<inv, lines, last>>

LEMMA TablesStep ==
  ASSUME IInv, TablesKept
  PROVE  /\ LinesComplete' /\ OpenOrLate' /\ SettledExplained' /\ LastInEntity'
         /\ \A q : Booked(q) => Booked(q)'
<1>1. /\ inv \in [Keys -> InvoiceRow] /\ last \in [Entities -> LatestRow]
      /\ \A e : Open(e)' = Open(e)
  BY DEF IInv, TypeOK, Open, EntityOfKey, TablesKept
<1>2. LinesComplete'
  BY DEF IInv, Ledger, LinesComplete, PublishKept, TablesKept
<1>3. \A k, b : ReportedSince(k, b)' <=> ReportedSince(k, b)
  BY DEF ReportedSince, PublishKept, TablesKept
<1>4. OpenOrLate'
  <2> SUFFICES ASSUME NEW e \in Entities
               PROVE  LET f == last[e].file IN
                      IF f = NoFile THEN Open(e) = {}
                      ELSE LET now == Reported(lines[f], audit'[f].publish) IN
                           /\ now \subseteq Open(e)
                           /\ \A k \in Open(e) \ now : ReportedSince(k, last[e].before)
    BY <1>1, <1>3 DEF OpenOrLate, TablesKept
  <2>1. last[e].file # NoFile => last[e].file \in Files
    BY <1>1 DEF LatestRow
  <2> QED
    BY <2>1 DEF IInv, Ledger, OpenOrLate, PublishKept, TablesKept
<1>5. SettledExplained'
  <2> SUFFICES ASSUME NEW k \in Keys
               PROVE  LET f == inv[k].settledBy IN
                      IF inv[k].status # "SETTLED" THEN f = NoFile
                      ELSE /\ f # NoFile
                           /\ snap'[f] # NoRow /\ snap'[f].entity = EntityOfKey(k)
                           /\ \E n \in 1 .. audit'[f].publish : k \notin Reported(lines[f], n)
    BY <1>1 DEF SettledExplained, EntityOfKey, TablesKept
  <2>1. inv[k].settledBy # NoFile => inv[k].settledBy \in Files
    BY <1>1 DEF InvoiceRow
  <2> QED
    BY <2>1 DEF IInv, Ledger, SettledExplained, SnapKept, PublishKept, TablesKept
<1>6. LastInEntity'
  BY <1>1 DEF IInv, Ledger, LastInEntity, SnapKept, TablesKept, LatestRow
<1>7. ASSUME NEW q, Booked(q)
      PROVE  Booked(q)'
  <2>1. Inserting(q)'
    BY <1>7 DEF Booked, Inserting, TablesKept
  <2>2. Settling(q)'
    BY <1>1, <1>3, <1>7 DEF Booked, Settling, PublishKept, TablesKept
  <2> QED
    BY <2>1, <2>2 DEF Booked
<1> QED
  BY <1>2, <1>4, <1>5, <1>6, <1>7

LEMMA QuietStep ==
  ASSUME IInv, TablesKept, NEW r \in Reqs, NEW x, Goto(r, x), Booked(x),
         \A o \in Reqs \ {r} : Holds(x) \cap Holds(req[o]) = {}
  PROVE  Ledger'
<1>1. \A p \in Reqs : req'[p] = IF p = r THEN x ELSE req[p]
  BY DEF Goto, IInv, TypeOK
<1>2. \A p \in Reqs : Booked(req'[p])
  BY <1>1 DEF IInv, Ledger
<1>3. \A p \in Reqs : Booked(req[p])'
  <2> TAKE p \in Reqs
  <2>1. PICK q : q = req'[p]
    OBVIOUS
  <2>2. Booked(q)'
    BY <1>2, <2>1, TablesStep
  <2> QED
    BY <2>1, <2>2 DEF Booked, Inserting, Settling
<1>4. Apart'
  BY <1>1 DEF IInv, Ledger, Apart, Holds
<1> QED
  BY <1>3, <1>4, TablesStep DEF Ledger

\* A request that writes no invoice holds nothing.
LEMMA FreeStep ==
  ASSUME IInv, TablesKept, NEW r \in Reqs, NEW x, Goto(r, x),
         x.pc \notin {"publish", "settle", "commit"}
  PROVE  Ledger'
BY QuietStep DEF Booked, Inserting, Settling, Holds

LEMMA EndingStep ==
  ASSUME IInv, TablesKept, NEW r \in Reqs, End(r)
  PROVE  Ledger'
BY FreeStep, IdleIsRequest DEF End

-----------------------------------------------------------------------------
(* The statements of a publish *)

LEMMA GateStep ==
  ASSUME ConstantsAssumption, IInv, NEW r \in Reqs, PublishGate(r)
  PROVE  Ledger'
<1> DEFINE q == req[r]
           n == [pc |-> "publish", file |-> q.file, user |-> q.user, seen |-> q.seen,
                 ins |-> {k \in Touched(q.seen, q.file) : inv[k].status = "NONE"}]
<1>1. TablesKept
  BY DEF PublishGate, Reads, tables, TablesKept, SnapKept, PublishKept
<1>2. CASE End(r)
  BY <1>1, <1>2, EndingStep
<1>3. CASE Goto(r, n) /\ OkRows(q.file) # {}
  <2>1. Booked(n) /\ Holds(n) = {}
    BY <1>3 DEF Booked, Inserting, Settling, Holds
  <2> HIDE DEF n
  <2> QED
    BY <1>1, <1>3, <2>1, QuietStep
<1> QED
  BY <1>2, <1>3 DEF PublishGate

LEMMA UpsertStep ==
  ASSUME ConstantsAssumption, IInv, NEW r \in Reqs, PublishUpsert(r)
  PROVE  Ledger'
<1> DEFINE q == req[r]
           n == [q EXCEPT !.pc = "settle"]
<1>1. TablesKept /\ Goto(r, n)
  BY DEF PublishUpsert, Reads, tables, TablesKept, SnapKept, PublishKept
<1>2. q \in UpsertReq /\ q.pc = "publish" /\ Booked(q)
  BY RequestAt DEF PublishUpsert, At, IInv, TypeOK, Ledger
<1>3. /\ n.pc = "settle" /\ n.file = q.file /\ n.seen = q.seen /\ n.ins = q.ins
  BY <1>2 DEF UpsertReq
<1> HIDE DEF n
<1>4. Booked(n)
  BY <1>2, <1>3 DEF Booked, Inserting, Settling, PublishUpsert
<1>5. \A o \in Reqs \ {r} : Holds(n) \cap Holds(req[o]) = {}
  BY <1>3 DEF PublishUpsert, HeldByOthers, Holds
<1> QED
  BY <1>1, <1>4, <1>5, QuietStep

LEMMA SettleStep ==
  ASSUME ConstantsAssumption, IInv, NEW r \in Reqs, PublishSettle(r)
  PROVE  Ledger'
<1> DEFINE q == req[r]
           n == [pc |-> "commit", file |-> q.file, user |-> q.user, seen |-> q.seen,
                 ins |-> q.ins, todo |-> ToSettle(q),
                 before |-> [f \in Files |-> audit[f].publish]]
<1>1. TablesKept /\ Goto(r, n)
  BY DEF PublishSettle, Reads, tables, TablesKept, SnapKept, PublishKept
<1>2. q \in UpsertReq /\ q.pc = "settle" /\ Booked(q)
  BY RequestAt DEF PublishSettle, At, IInv, TypeOK, Ledger
<1>3. /\ n.pc = "commit" /\ n.file = q.file /\ n.seen = q.seen /\ n.ins = q.ins
      /\ n.todo = ToSettle(q) /\ \A f \in Files : n.before[f] = audit[f].publish
  OBVIOUS
<1> HIDE DEF n
<1>4. Inserting(n)
  BY <1>2, <1>3 DEF Booked, Inserting
<1>5. Settling(n)
  <2>1. \A f \in Files : audit[f].publish \in Nat
    BY DEF IInv, TypeOK, AuditRow
  <2> QED
    BY <1>3, <2>1 DEF Settling, ToSettle, Open
<1>6. \A o \in Reqs \ {r} : Holds(n) \cap Holds(req[o]) = {}
  BY <1>2, <1>3 DEF IInv, Ledger, Apart, Holds
<1> QED
  BY <1>1, <1>4, <1>5, <1>6, QuietStep DEF Booked

\* The commit of request r, in the words of the invariant: it reports the invoices T
\* of snapshot f, and of those it found OPEN settles the rest.
LEMMA CommitWrites ==
  ASSUME ConstantsAssumption, IInv, NEW r \in Reqs, PublishCommit(r),
         NEW f, NEW s, NEW T,
         f = req[r].file, s = req[r].seen, T = Touched(s, f)
  PROVE  /\ f \in Files /\ f # NoFile /\ s \in SnapRow /\ s.entity \in Entities
         /\ snap[f] # NoRow /\ snap[f].entity = s.entity
         /\ T \subseteq Keys /\ T # {} /\ \A k \in T : EntityOfKey(k) = s.entity
         /\ \A row \in OkRows(f) : row \in Rows /\ KeyOf(s, row) \in T
         /\ req[r] \in CommitReq /\ Booked(req[r]) /\ req[r].pc = "commit"
         /\ \A k \in Keys :
              inv'[k] \in InvoiceRow
              /\ IF k \in T
                 THEN /\ inv'[k].status = "OPEN" /\ inv'[k].settledBy = NoFile
                      /\ inv'[k].firstSeen = IF k \in req[r].ins THEN f ELSE inv[k].firstSeen
                 ELSE IF k \in req[r].todo /\ inv[k].status = "OPEN"
                 THEN /\ inv'[k].status = "SETTLED" /\ inv'[k].settledBy = f
                      /\ inv'[k].firstSeen = inv[k].firstSeen
                 ELSE inv'[k] = inv[k]
<1>1. /\ req[r] \in CommitReq /\ req[r].pc = "commit" /\ Booked(req[r])
  BY RequestAt DEF IInv, TypeOK, PublishCommit, At, Ledger
<1>2. f \in Files /\ f # NoFile /\ s \in SnapRow /\ s.entity \in Entities
  BY <1>1 DEF CommitReq, SnapRow, ConstantsAssumption
<1>3. /\ snap[f] # NoRow /\ snap[f].entity = s.entity
      /\ OverridesInEntity(s) /\ Unmapped(s, f) = {} /\ OkRows(f) # {}
  BY <1>1 DEF IInv, InFlightInEntity, Booked, Inserting
<1>4. /\ T \subseteq Keys /\ T # {}
      /\ \A k \in T : EntityOfKey(k) = s.entity
      /\ \A row \in OkRows(f) : row \in Rows /\ KeyOf(s, row) \in T
  BY <1>2, <1>3, TouchedInEntity DEF Touched
<1> DEFINE ins == req[r].ins
<1>5. /\ inv' \in [Keys -> InvoiceRow]
      /\ \A k \in Keys :
           inv'[k] = IF k \in T THEN Upserted(k, f, ins)
                     ELSE IF k \in req[r].todo /\ inv[k].status = "OPEN"
                          THEN Settled(k, f)
                          ELSE inv[k]
  BY <1>1, LedgerAfterType DEF PublishCommit, LedgerAfter, IInv
<1>6. \A k \in Keys :
        /\ Upserted(k, f, ins).status = "OPEN"
        /\ Upserted(k, f, ins).settledBy = NoFile
        /\ Upserted(k, f, ins).firstSeen = IF k \in ins THEN f ELSE inv[k].firstSeen
  BY DEF Upserted
<1>7. \A k \in Keys :
        /\ Settled(k, f).status = "SETTLED"
        /\ Settled(k, f).settledBy = f
        /\ Settled(k, f).firstSeen = inv[k].firstSeen
  BY DEF Settled, IInv, TypeOK, InvoiceRow
<1>8. \A k \in Keys :
        inv'[k] \in InvoiceRow
        /\ IF k \in T
           THEN /\ inv'[k].status = "OPEN" /\ inv'[k].settledBy = NoFile
                /\ inv'[k].firstSeen = IF k \in ins THEN f ELSE inv[k].firstSeen
           ELSE IF k \in req[r].todo /\ inv[k].status = "OPEN"
           THEN /\ inv'[k].status = "SETTLED" /\ inv'[k].settledBy = f
                /\ inv'[k].firstSeen = inv[k].firstSeen
           ELSE inv'[k] = inv[k]
  <2> TAKE k \in Keys
  <2>1. inv'[k] \in InvoiceRow
    BY <1>5
  <2> QED
    BY <1>5, <1>6, <1>7, <2>1
<1> QED
  BY <1>1, <1>2, <1>3, <1>4, <1>8

LEMMA PublishStep ==
  ASSUME ConstantsAssumption, IInv, TypeOK', NEW r \in Reqs, PublishCommit(r)
  PROVE  Ledger'
<1> PICK f, s, T, ins, todo, before :
      /\ f = req[r].file /\ s = req[r].seen /\ T = Touched(s, f)
      /\ ins = req[r].ins /\ todo = req[r].todo /\ before = req[r].before
  OBVIOUS
<1>1. /\ f \in Files /\ f # NoFile /\ s \in SnapRow /\ s.entity \in Entities
      /\ snap[f] # NoRow /\ snap[f].entity = s.entity
      /\ T \subseteq Keys /\ T # {} /\ \A k \in T : EntityOfKey(k) = s.entity
      /\ \A row \in OkRows(f) : row \in Rows /\ KeyOf(s, row) \in T
      /\ req[r] \in CommitReq /\ Booked(req[r]) /\ req[r].pc = "commit"
  BY CommitWrites
<1>8. \A k \in Keys :
        IF k \in T
        THEN /\ inv'[k].status = "OPEN" /\ inv'[k].settledBy = NoFile
             /\ inv'[k].firstSeen = IF k \in ins THEN f ELSE inv[k].firstSeen
        ELSE IF k \in todo /\ inv[k].status = "OPEN"
        THEN /\ inv'[k].status = "SETTLED" /\ inv'[k].settledBy = f
             /\ inv'[k].firstSeen = inv[k].firstSeen
        ELSE inv'[k] = inv[k]
  BY CommitWrites
<1>2. PICK n \in Nat : n = audit[f].publish + 1
  BY <1>1 DEF IInv, TypeOK, AuditRow
<1>4. /\ audit[f].publish \in Nat
      /\ audit'[f].publish = n
      /\ \A g \in Files \ {f} : audit'[g] = audit[g]
      /\ \A g \in Files : audit[g].publish \in Nat
  BY <1>1, <1>2 DEF IInv, TypeOK, AuditRow, PublishCommit
<1>5. /\ lines'[f] = lines[f] \cup NewLines(f, s)
      /\ \A g \in Files \ {f} : lines'[g] = lines[g]
      /\ \A g \in Files : lines[g] \subseteq lines'[g]
  BY <1>1 DEF IInv, TypeOK, PublishCommit
<1>6. /\ last'[s.entity].file = f /\ last'[s.entity].before = before
      /\ \A e \in Entities \ {s.entity} : last'[e] = last[e]
  BY <1>1 DEF IInv, TypeOK, PublishCommit
<1>7. SnapKept
  BY <1>1 DEF IInv, TypeOK, PublishCommit, SnapKept, NoRow, SnapRow
<1>9. \A k \in Keys : inv[k] \in InvoiceRow
  BY DEF IInv, TypeOK
\* The lines of this publish are numbered n and no earlier line is.
<1>10. \A l \in lines[f] : l.nth \in 1 .. audit[f].publish /\ l.nth # n
  BY <1>1, <1>2, <1>4 DEF IInv, Ledger, LinesComplete
<1>11. \A l \in NewLines(f, s) : l.nth = n /\ l.key \in T
  BY <1>1, <1>2 DEF NewLines
<1>12. \A row \in OkRows(f) : \E l \in NewLines(f, s) :
          l.row = row /\ l.nth = n /\ l.key = KeyOf(s, row)
  <2> TAKE row \in OkRows(f)
  <2>1. [row |-> row, key |-> KeyOf(s, row), nth |-> n] \in NewLines(f, s)
    BY <1>2 DEF NewLines
  <2> QED
    BY <2>1
<1>13. /\ Reported(lines'[f], n) = T
       /\ \A m : m # n => Reported(lines'[f], m) = Reported(lines[f], m)
  BY <1>5, <1>10, <1>11, <1>12 DEF Reported, Touched
\* What was reported since some publishes still is, and so is what is reported now.
<1>14. \A k, b : ReportedSince(k, b) => ReportedSince(k, b)'
  <2> SUFFICES ASSUME NEW k, NEW b, NEW g \in Files,
                      NEW m \in b[g] + 1 .. audit[g].publish, k \in Reported(lines[g], m)
               PROVE  ReportedSince(k, b)'
    BY DEF ReportedSince
  <2>1. m \in b[g] + 1 .. audit'[g].publish /\ k \in Reported(lines'[g], m)
    <3>1. CASE g = f
      BY <1>2, <1>4, <1>13, <3>1
    <3>2. CASE g # f
      BY <1>4, <1>5, <3>2
    <3> QED
      BY <3>1, <3>2
  <2> QED
    BY <2>1 DEF ReportedSince
<1>15. \A b \in [Files -> Nat] : b[f] =< audit[f].publish =>
         \A k \in T : ReportedSince(k, b)'
  <2> SUFFICES ASSUME NEW b \in [Files -> Nat], b[f] =< audit[f].publish, NEW k \in T
               PROVE  ReportedSince(k, b)'
    OBVIOUS
  <2>1. n \in b[f] + 1 .. audit'[f].publish
    BY <1>1, <1>2, <1>4
  <2> QED
    BY <1>1, <1>13, <2>1 DEF ReportedSince
<1>16. /\ \A k \in todo : EntityOfKey(k) = s.entity /\ k \notin T
       /\ \A k \in Open(s.entity) \ T : k \in todo \/ ReportedSince(k, before)
       /\ OkRows(f) # {} /\ ins \subseteq T
       /\ \A k \in T \ ins : inv[k].status # "NONE"
       /\ \A k \in ins : inv[k].status = "NONE"
  BY <1>1 DEF Booked, Inserting, Settling
<1>17. \A e \in Entities : e # s.entity => Open(e)' = Open(e)
  <2> SUFFICES ASSUME NEW e \in Entities, e # s.entity
               PROVE  Open(e)' = Open(e)
    OBVIOUS
  <2>1. \A k \in Keys : EntityOfKey(k) = e => inv'[k] = inv[k]
    BY <1>1, <1>8, <1>16
  <2> QED
    BY <2>1 DEF Open, EntityOfKey
<1>18. /\ T \subseteq Open(s.entity)'
       /\ \A k \in Open(s.entity)' \ T : k \in Open(s.entity) /\ ReportedSince(k, before)
  <2>1. \A k \in Open(s.entity)' : k \in Keys /\ EntityOfKey(k) = s.entity
                                  /\ inv'[k].status = "OPEN"
    BY DEF Open, EntityOfKey
  <2>2. \A k \in Keys : k \in T => k \in Open(s.entity)'
    BY <1>1, <1>8 DEF Open, EntityOfKey
  <2>3. ASSUME NEW k \in Open(s.entity)', k \notin T
        PROVE  k \in Open(s.entity) /\ k \notin todo
    BY <1>8, <2>1, <2>3 DEF Open
  <2> QED
    BY <1>1, <1>16, <2>2, <2>3
<1>19. OpenOrLate'
  <2> SUFFICES ASSUME NEW e \in Entities
               PROVE  LET g == last'[e].file IN
                      IF g = NoFile THEN Open(e)' = {}
                      ELSE LET now == Reported(lines'[g], audit'[g].publish) IN
                           /\ now \subseteq Open(e)'
                           /\ \A b : b = last'[e].before =>
                                \A k \in Open(e)' \ now : ReportedSince(k, b)'
    BY DEF OpenOrLate, ReportedSince
  <2>1. CASE e = s.entity
    <3>1. /\ T \subseteq Open(e)'
          /\ \A k \in Open(e)' \ T : ReportedSince(k, before)'
      BY <1>14, <1>18, <2>1
    <3>2. last'[e].file = f /\ last'[e].before = before /\ f # NoFile
      BY <1>1, <1>6, <2>1
    <3>3. Reported(lines'[f], audit'[f].publish) = T
      BY <1>4, <1>13
    <3> QED
      BY <3>1, <3>2, <3>3
  <2>2. CASE e # s.entity
    <3>1. PICK g, b : g = last[e].file /\ b = last[e].before
      OBVIOUS
    <3>2. last'[e].file = g /\ last'[e].before = b /\ (g # NoFile => g \in Files \ {f})
      BY <1>1, <1>6, <2>2, <3>1 DEF IInv, TypeOK, Ledger, LastInEntity, LatestRow
    <3>3. IF g = NoFile THEN Open(e) = {}
          ELSE LET now == Reported(lines[g], audit[g].publish) IN
               /\ now \subseteq Open(e)
               /\ \A k \in Open(e) \ now : ReportedSince(k, b)
      BY <3>1 DEF IInv, Ledger, OpenOrLate
    <3> QED
      BY <1>4, <1>5, <1>14, <1>17, <2>2, <3>2, <3>3
  <2> QED
    BY <2>1, <2>2
<1>20. SettledExplained'
  <2> SUFFICES ASSUME NEW k \in Keys
               PROVE  LET g == inv'[k].settledBy IN
                      IF inv'[k].status # "SETTLED" THEN g = NoFile
                      ELSE /\ g # NoFile
                           /\ snap'[g] # NoRow /\ snap'[g].entity = EntityOfKey(k)
                           /\ \E m \in 1 .. audit'[g].publish : k \notin Reported(lines'[g], m)
    BY DEF SettledExplained, EntityOfKey
  <2>1. CASE k \in T
    BY <1>8, <2>1
  <2>2. CASE k \notin T /\ inv[k].status = "OPEN" /\ k \in todo
    <3>1. inv'[k].status = "SETTLED" /\ inv'[k].settledBy = f
      BY <1>8, <2>2
    <3>2. f # NoFile /\ snap'[f] # NoRow /\ snap'[f].entity = EntityOfKey(k)
      BY <1>1, <1>7, <1>16, <2>2 DEF SnapKept
    <3>3. n \in 1 .. audit'[f].publish /\ k \notin Reported(lines'[f], n)
      BY <1>1, <1>2, <1>4, <1>13, <2>2
    <3> QED
      BY <3>1, <3>2, <3>3
  <2>3. CASE inv'[k] = inv[k]
    <3> DEFINE g == inv[k].settledBy
    <3>1. g # NoFile => g \in Files
      BY <1>9 DEF InvoiceRow
    <3>2. IF inv[k].status # "SETTLED" THEN g = NoFile
          ELSE /\ g # NoFile
               /\ snap[g] # NoRow /\ snap[g].entity = EntityOfKey(k)
               /\ \E m \in 1 .. audit[g].publish : k \notin Reported(lines[g], m)
      BY DEF IInv, Ledger, SettledExplained
    <3>3. ASSUME NEW h \in Files, NEW m \in 1 .. audit[h].publish,
                 k \notin Reported(lines[h], m)
          PROVE  m \in 1 .. audit'[h].publish /\ k \notin Reported(lines'[h], m)
      <4>1. CASE h = f
        BY <1>1, <1>2, <1>4, <1>13, <3>3, <4>1
      <4>2. CASE h # f
        BY <1>4, <1>5, <3>3, <4>2
      <4> QED
        BY <4>1, <4>2
    <3> HIDE DEF g
    <3>4. IF inv[k].status # "SETTLED" THEN g = NoFile
          ELSE /\ g # NoFile
               /\ snap'[g] # NoRow /\ snap'[g].entity = EntityOfKey(k)
               /\ \E m \in 1 .. audit'[g].publish : k \notin Reported(lines'[g], m)
      BY <1>7, <3>1, <3>2, <3>3 DEF SnapKept
    <3> QED
      BY <2>3, <3>4 DEF g
  <2> QED
    BY <1>8, <2>1, <2>2, <2>3
<1>21. LinesComplete'
  <2>1. ASSUME NEW g \in Files
        PROVE  /\ {l.nth : l \in lines'[g]} \subseteq 1 .. audit'[g].publish
               /\ \A m \in 1 .. audit'[g].publish, row \in OkRows(g) :
                    \E l \in lines'[g] : l.row = row /\ l.nth = m
    <3>1. CASE g = f
      <4>1. {l.nth : l \in lines'[f]} \subseteq 1 .. n
        BY <1>1, <1>2, <1>4, <1>5, <1>10, <1>11
      <4>2. ASSUME NEW m \in 1 .. n, NEW row \in OkRows(f)
            PROVE  \E l \in lines'[f] : l.row = row /\ l.nth = m
        <5>1. CASE m = n
          BY <1>5, <1>12, <5>1
        <5>2. CASE m # n
          <6>1. m \in 1 .. audit[f].publish
            BY <1>2, <1>4, <5>2
          <6>2. \E l \in lines[f] : l.row = row /\ l.nth = m
            BY <1>1, <6>1 DEF IInv, Ledger, LinesComplete
          <6> QED
            BY <1>1, <1>5, <6>2
        <5> QED
          BY <5>1, <5>2
      <4> QED
        BY <1>4, <3>1, <4>1, <4>2
    <3>2. CASE g # f
      BY <1>4, <1>5, <3>2 DEF IInv, Ledger, LinesComplete
    <3> QED
      BY <3>1, <3>2
  <2>2. ASSUME NEW k \in Keys, inv'[k].status # "NONE"
        PROVE  /\ inv'[k].firstSeen # NoFile
               /\ \E l \in lines'[inv'[k].firstSeen] : l.key = k
    <3>1. CASE k \in T /\ k \in ins
      <4>1. inv'[k].firstSeen = f
        BY <1>8, <3>1
      <4>2. PICK row \in OkRows(f) : k = KeyOf(s, row)
        BY <3>1 DEF Touched
      <4> QED
        BY <1>1, <1>5, <1>12, <4>1, <4>2 DEF ConstantsAssumption
    <3>2. CASE ~(k \in T /\ k \in ins)
      <4>1. inv[k].status # "NONE" /\ inv'[k].firstSeen = inv[k].firstSeen
        <5>1. CASE k \in T
          <6>1. inv[k].status # "NONE"
            BY <1>16, <3>2, <5>1
          <6> QED
            BY <1>8, <3>2, <5>1, <6>1
        <5>2. CASE k \notin T
          BY <1>8, <2>2, <5>2
        <5> QED
          BY <5>1, <5>2
      <4>2. inv[k].firstSeen \in Files
        BY <1>9, <4>1 DEF InvoiceRow, IInv, Ledger, LinesComplete
      <4> QED
        BY <1>5, <4>1, <4>2 DEF IInv, Ledger, LinesComplete
    <3> QED
      BY <3>1, <3>2
  <2> QED
    BY <2>1, <2>2 DEF LinesComplete, OkRows
<1>22. LastInEntity'
  <2> SUFFICES ASSUME NEW e \in Entities, last'[e].file # NoFile
               PROVE  snap'[last'[e].file] # NoRow /\ snap'[last'[e].file].entity = e
    BY DEF LastInEntity
  <2>1. CASE e = s.entity
    BY <1>1, <1>6, <1>7, <2>1 DEF SnapKept
  <2>2. CASE e # s.entity
    <3>1. last[e].file \in Files
      BY <1>6, <2>2 DEF IInv, TypeOK, LatestRow
    <3> QED
      BY <1>6, <1>7, <2>2, <3>1 DEF IInv, Ledger, LastInEntity, SnapKept
  <2> QED
    BY <2>1, <2>2
<1>23. ASSUME NEW p \in Reqs
       PROVE  Booked(req[p])' /\ (p # r => req'[p] = req[p]) /\ (p = r => req'[p] = Idle)
  <2>1. CASE p = r
    <3>1. req'[p] = Idle
      BY <2>1 DEF PublishCommit, End, Goto, IInv, TypeOK
    <3> QED
      BY <2>1, <3>1, IdleIsRequest DEF Booked, Inserting, Settling
  <2>2. CASE p # r
    <3>1. PICK q : q = req[p]
      OBVIOUS
    <3>2. req'[p] = q
      BY <2>2, <3>1 DEF PublishCommit, End, Goto, IInv, TypeOK
    <3>3. q \in Request /\ Booked(q)
      BY <3>1 DEF IInv, TypeOK, Ledger
    <3>4. q.pc \in {"publish", "settle", "commit"} => Touched(q.seen, q.file) \subseteq Keys
      <4>1. CASE q.pc \in {"publish", "settle"}
        BY <3>1, <3>3, <4>1, RequestAt, TouchedInEntity DEF UpsertReq, IInv, InFlightInEntity
      <4>2. CASE q.pc = "commit"
        BY <3>1, <3>3, <4>2, RequestAt, TouchedInEntity DEF CommitReq, IInv, InFlightInEntity
      <4> QED
        BY <4>1, <4>2
    <3>5. q.pc \in {"settle", "commit"} => Touched(q.seen, q.file) \cap T = {}
      BY <1>1, <2>2, <3>1 DEF IInv, Ledger, Apart, Holds
    <3>6. Inserting(q)'
      <4>1. ASSUME NEW k \in Keys, inv[k].status # "NONE"
            PROVE  inv'[k].status # "NONE"
        BY <1>8, <4>1
      <4>2. ASSUME NEW k \in Keys, inv[k].status = "NONE", k \notin T
            PROVE  inv'[k].status = "NONE"
        BY <1>8, <4>2
      <4> QED
        BY <3>3, <3>4, <3>5, <4>1, <4>2 DEF Booked, Inserting
    <3>7. Settling(q)'
      <4> SUFFICES ASSUME q.pc = "commit"
                   PROVE  /\ \A g \in Files : q.before[g] =< audit'[g].publish
                          /\ \A k \in q.todo : EntityOfKey(k) = q.seen.entity
                                             /\ k \notin Touched(q.seen, q.file)
                          /\ \A k \in Open(q.seen.entity)' \ Touched(q.seen, q.file) :
                               k \in q.todo \/ ReportedSince(k, q.before)'
        BY DEF Settling
      <4>1. /\ q.before \in [Files -> Nat] /\ q.seen.entity \in Entities
        BY <3>3, RequestAt DEF CommitReq, SnapRow
      <4>2. /\ \A g \in Files : q.before[g] =< audit[g].publish
            /\ \A k \in q.todo : EntityOfKey(k) = q.seen.entity
                               /\ k \notin Touched(q.seen, q.file)
            /\ \A k \in Open(q.seen.entity) \ Touched(q.seen, q.file) :
                 k \in q.todo \/ ReportedSince(k, q.before)
        BY <3>3 DEF Booked, Settling
      <4>3. \A g \in Files : q.before[g] =< audit'[g].publish
        BY <1>1, <1>2, <1>4, <4>1, <4>2
      <4>4. ASSUME NEW k \in Open(q.seen.entity)', k \notin Touched(q.seen, q.file)
            PROVE  k \in q.todo \/ ReportedSince(k, q.before)'
        <5>1. CASE k \in T /\ q.seen.entity = s.entity
          BY <1>1, <1>15, <4>1, <4>2, <5>1
        <5>2. CASE k \notin T /\ q.seen.entity = s.entity
          BY <1>14, <1>18, <4>2, <4>4, <5>2
        <5>3. CASE q.seen.entity # s.entity
          BY <1>14, <1>17, <4>1, <4>2, <4>4, <5>3
        <5> QED
          BY <5>1, <5>2, <5>3
      <4> QED
        BY <4>2, <4>3, <4>4
    <3> QED
      BY <2>2, <3>1, <3>2, <3>6, <3>7 DEF Booked, Inserting, Settling
  <2> QED
    BY <2>1, <2>2
<1>24. Apart'
  BY <1>23, IdleIsRequest DEF IInv, Ledger, Apart, Holds
<1> QED
  BY <1>19, <1>20, <1>21, <1>22, <1>23, <1>24 DEF Ledger

-----------------------------------------------------------------------------
(* Every step *)

LEMMA ArriveLedger ==
  ASSUME IInv, NEW r \in Reqs, Arrive(r), TypeOK'
  PROVE  Ledger'
<1>1. req' = [req EXCEPT ![r] = req'[r]] /\ req'[r] \in Request
  BY DEF Arrive, UploadBegin, PatchBegin, AckBegin, ReviewBegin, DiscardBegin,
     PublishBegin, ReconcileBegin, Goto, IInv, TypeOK
<1>2. req'[r].pc \notin {"publish", "settle", "commit"} /\ Reads
  BY DEF Arrive, UploadBegin, PatchBegin, AckBegin, ReviewBegin, DiscardBegin,
     PublishBegin, ReconcileBegin, Goto, IInv, TypeOK
<1>3. TablesKept
  BY <1>2 DEF TablesKept, SnapKept, PublishKept, Reads, tables
<1> QED
  BY <1>1, <1>2, <1>3, FreeStep DEF Goto

LEMMA AdvanceLedger ==
  ASSUME ConstantsAssumption, IInv, NEW r \in Reqs, Advance(r), TypeOK', InFlightInEntity'
  PROVE  Ledger'
<1> DEFINE q == req[r]
<1>0. q \in Request /\ RequestInEntity(q)
  BY DEF IInv, TypeOK, InFlightInEntity, RequestInEntity
<1>1. CASE UploadCommit(r)
  <2>1. SnapKept
    BY <1>1 DEF UploadCommit, SnapKept, IInv, TypeOK
  <2> QED
    BY <1>1, <2>1, EndingStep DEF UploadCommit, PublishKept, TablesKept
<1>2. CASE PatchCommit(r)
  <2>1. /\ q \in PatchReq /\ snap[q.file] \in SnapRow /\ q.edit \in Edit
        /\ q.file \in Files
    BY <1>0, <1>2, RequestAt, FreshRows DEF PatchCommit, At, RequestInEntity, PatchReq,
       IInv, TypeOK
  <2>2. /\ ApplyEdit(snap[q.file], q.edit) \in SnapRow
        /\ ApplyEdit(snap[q.file], q.edit).entity = snap[q.file].entity
    BY <2>1, ApplyEditType
  <2>3. snap' = [snap EXCEPT ![q.file] = ApplyEdit(snap[q.file], q.edit)]
    BY <1>2 DEF PatchCommit
  <2>4. SnapKept
    BY <2>1, <2>2, <2>3, FreshRows DEF SnapKept, IInv, TypeOK
  <2> QED
    BY <1>2, <2>4, EndingStep DEF PatchCommit, PublishKept, TablesKept
<1>3. CASE AckCommit(r) \/ ReviewCommit(r) \/ DiscardCommit(r)
  <2>1. q.file \in Files /\ snap[q.file] \in SnapRow /\ audit[q.file] \in AuditRow
    BY <1>0, <1>3, RequestAt, FreshRows DEF AckCommit, ReviewCommit, DiscardCommit, At,
       RequestInEntity, AckReq, ReviewReq, DiscardReq, IInv, TypeOK
  <2> DEFINE t == snap[q.file]
             a == audit[q.file]
  <2>2. \E x \in SnapRow : x.entity = t.entity /\ snap' = [snap EXCEPT ![q.file] = x]
    <3>1. CASE AckCommit(r)
      <4>1. /\ [t EXCEPT !.acked = q.codes] \in SnapRow
            /\ [t EXCEPT !.acked = q.codes].entity = t.entity
        BY <1>0, <2>1, <3>1, RequestAt DEF AckCommit, At, AckReq, SnapRow
      <4> QED
        BY <3>1, <4>1 DEF AckCommit
    <3>2. CASE ReviewCommit(r)
      <4>1. /\ [t EXCEPT !.review = q.decision] \in SnapRow
            /\ [t EXCEPT !.review = q.decision].entity = t.entity
        BY <1>0, <2>1, <3>2, RequestAt DEF ReviewCommit, At, ReviewReq, SnapRow
      <4> QED
        BY <3>2, <4>1 DEF ReviewCommit
    <3>3. CASE DiscardCommit(r)
      <4>1. /\ [t EXCEPT !.status = "DISCARDED"] \in SnapRow
            /\ [t EXCEPT !.status = "DISCARDED"].entity = t.entity
        BY <2>1 DEF SnapRow
      <4> QED
        BY <3>3, <4>1 DEF DiscardCommit
    <3> QED
      BY <1>3, <3>1, <3>2, <3>3
  <2>3. PublishKept
    <3>1. CASE AckCommit(r)
      BY <3>1 DEF AckCommit, PublishKept
    <3>2. CASE ReviewCommit(r)
      <4>1. audit' = [audit EXCEPT ![q.file] =
                        [a EXCEPT !.reviews = a.reviews \cup {<<q.user, q.decision>>}]]
        BY <3>2 DEF ReviewCommit
      <4>2. [a EXCEPT !.reviews = a.reviews \cup {<<q.user, q.decision>>}].publish = a.publish
        BY <2>1 DEF AuditRow
      <4> QED
        BY <2>1, <4>1, <4>2 DEF PublishKept, IInv, TypeOK
    <3>3. CASE DiscardCommit(r)
      <4>1. audit' = [audit EXCEPT ![q.file] = [a EXCEPT !.discard = a.discard + 1]]
        BY <3>3 DEF DiscardCommit
      <4>2. [a EXCEPT !.discard = a.discard + 1].publish = a.publish
        BY <2>1 DEF AuditRow
      <4> QED
        BY <2>1, <4>1, <4>2 DEF PublishKept, IInv, TypeOK
    <3> QED
      BY <1>3, <3>1, <3>2, <3>3
  <2>4. SnapKept
    BY <2>1, <2>2, FreshRows DEF SnapKept, IInv, TypeOK
  <2> QED
    BY <1>3, <2>3, <2>4, EndingStep DEF AckCommit, ReviewCommit, DiscardCommit, TablesKept
<1>4. CASE ReconcileCommit(r) \/ PublishAbort(r)
  BY <1>4, EndingStep DEF ReconcileCommit, PublishAbort, TablesKept, SnapKept, PublishKept,
     Reads, tables
<1>5. CASE PublishSameDay(r) \/ PublishPrior(r)
  <2>1. q \in PublishReq
    BY <1>0, <1>5, RequestAt DEF PublishSameDay, PublishPrior, At
  <2>2. \A pc \in {"prior", "gate"} :
          [q EXCEPT !.pc = pc].pc \notin {"publish", "settle", "commit"}
    BY <2>1 DEF PublishReq
  <2>3. End(r) \/ Goto(r, [q EXCEPT !.pc = "prior"]) \/ Goto(r, [q EXCEPT !.pc = "gate"])
    BY <1>5 DEF PublishSameDay, PublishPrior
  <2>4. TablesKept
    BY <1>5 DEF PublishSameDay, PublishPrior, TablesKept, SnapKept, PublishKept, Reads, tables
  <2> HIDE DEF q
  <2> QED
    BY <2>2, <2>3, <2>4, EndingStep, FreeStep
<1>6. CASE PublishGate(r) \/ PublishUpsert(r) \/ PublishSettle(r)
  BY <1>6, GateStep, UpsertStep, SettleStep
<1>7. CASE PublishCommit(r)
  BY <1>7, PublishStep
<1> QED
  BY <1>1, <1>2, <1>3, <1>4, <1>5, <1>6, <1>7 DEF Advance

LEMMA InitLedger == ConstantsAssumption /\ Init => Ledger
BY DEF Init, Ledger, LinesComplete, OpenOrLate, SettledExplained, LastInEntity, Apart, Holds,
   Booked, Inserting, Settling, NewInvoice, Open, Idle

LEMMA StepLedger ==
  ASSUME ConstantsAssumption, IInv, [Next]_vars
  PROVE  IInv'
<1>1. CASE Next
  <2> PICK r \in Reqs : Arrive(r) \/ Advance(r) \/ Die(r)
    BY <1>1 DEF Next
  <2>1. CASE Arrive(r)
    BY <2>1, ArriveTypes, ArriveLedger DEF IInv
  <2>2. CASE Advance(r)
    BY <2>2, AdvanceTypes, AdvanceLedger DEF IInv
  <2>3. CASE Die(r)
    <3>1. TablesKept
      BY <2>3 DEF Die, Reads, tables, TablesKept, SnapKept, PublishKept
    <3> QED
      BY <2>3, <3>1, EndStep, EndingStep DEF Die, IInv
  <2> QED
    BY <2>1, <2>2, <2>3
<1>2. CASE UNCHANGED vars
  <2>1. TypeOK' /\ InFlightInEntity'
    BY <1>2 DEF vars, IInv, TypeOK, InFlightInEntity, OverridesInEntity, InEntity,
       Unmapped, CanonOf
  <2>2. TablesKept
    BY <1>2 DEF vars, TablesKept, SnapKept, PublishKept
  <2>3. \A r \in Reqs : Booked(req[r])'
    <3> TAKE r \in Reqs
    <3>1. PICK q : q = req[r]
      OBVIOUS
    <3>2. Booked(q)' /\ req'[r] = q
      BY <1>2, <2>2, <3>1, TablesStep DEF vars, IInv, Ledger
    <3> QED
      BY <3>2 DEF Booked, Inserting, Settling
  <2>4. Apart'
    BY <1>2 DEF vars, IInv, Ledger, Apart, Holds, Touched, KeyOf, CanonOf, OkRows
  <2>5. Ledger'
    BY <2>2, <2>3, <2>4, TablesStep DEF Ledger
  <2> QED
    BY <2>1, <2>5 DEF IInv
<1> QED
  BY <1>1, <1>2

\* The ledger invariant holds in every reachable state, for any number of requests,
\* files, parties and rows.
THEOREM LedgerCorrect ==
  Spec => [](OpenOrLate /\ SettledExplained /\ LinesComplete)
<1> USE ConstantsAssumption
<1>1. Init => IInv
  BY InitTypes, InitLedger DEF IInv
<1>2. IInv /\ [Next]_vars => IInv'
  BY StepLedger
<1>3. IInv => OpenOrLate /\ SettledExplained /\ LinesComplete
  BY DEF IInv, Ledger
<1> QED
  BY <1>1, <1>2, <1>3, PTL DEF Spec

-----------------------------------------------------------------------------
(* first_seen_snapshot_id *)

\* Only the publish transaction writes invoices.
LEMMA OnlyPublishes ==
  ASSUME [Next]_vars
  PROVE  inv' = inv \/ \E r \in Reqs : PublishCommit(r)
<1>1. ASSUME NEW r \in Reqs, Arrive(r)
      PROVE  inv' = inv
  BY <1>1 DEF Arrive, Reads, tables, UploadBegin, PatchBegin, AckBegin, ReviewBegin,
     DiscardBegin, PublishBegin, ReconcileBegin
<1>2. ASSUME NEW r \in Reqs, Advance(r)
      PROVE  inv' = inv \/ PublishCommit(r)
  BY <1>2 DEF Advance, Reads, tables, UploadCommit, PatchCommit, AckCommit, ReviewCommit,
     DiscardCommit, ReconcileCommit, PublishSameDay, PublishPrior, PublishGate, PublishAbort,
     PublishUpsert, PublishSettle
<1>3. ASSUME NEW r \in Reqs, Die(r)
      PROVE  inv' = inv
  BY <1>3 DEF Die, Reads, tables
<1> QED
  BY <1>1, <1>2, <1>3 DEF Next, vars

\* Its inserts are of invoices that are not there: the unique constraint lets nobody else
\* insert them between the insert and the commit.
LEMMA StepFirstSeen ==
  ASSUME ConstantsAssumption, IInv, NEW k \in Keys, inv[k].status # "NONE", [Next]_vars
  PROVE  inv'[k].firstSeen = inv[k].firstSeen
<1>1. CASE inv' = inv
  BY <1>1
<1>2. CASE \E r \in Reqs : PublishCommit(r)
  <2> PICK r \in Reqs : PublishCommit(r)
    BY <1>2
  <2>1. PICK f, s, T : f = req[r].file /\ s = req[r].seen /\ T = Touched(s, f)
    OBVIOUS
  <2>2. /\ Booked(req[r]) /\ req[r].pc = "commit"
        /\ IF k \in T
           THEN inv'[k].firstSeen = IF k \in req[r].ins THEN f ELSE inv[k].firstSeen
           ELSE inv'[k].firstSeen = inv[k].firstSeen \/ inv'[k] = inv[k]
    BY <2>1, CommitWrites
  <2>3. k \notin req[r].ins
    BY <2>2 DEF Booked, Inserting
  <2> QED
    BY <2>2, <2>3
<1> QED
  BY <1>1, <1>2, OnlyPublishes

\* The snapshot an invoice was first seen in never changes, however often the
\* invoice is settled, reopened and published again.
THEOREM FirstSeenCorrect == Spec => FirstSeenStands
<1> USE ConstantsAssumption
<1>1. Init => IInv
  BY InitTypes, InitLedger DEF IInv
<1>2. IInv /\ [Next]_vars => IInv'
  BY StepLedger
<1>3. IInv /\ [Next]_vars =>
        [\A k \in Keys : inv[k].status # "NONE" => inv'[k].firstSeen = inv[k].firstSeen]_vars
  BY StepFirstSeen
<1> QED
  BY <1>1, <1>2, <1>3, PTL DEF Spec, FirstSeenStands

-----------------------------------------------------------------------------
(***************************************************************************)
(* SnapshotLifecycle implements Ledger: the settling UPDATE of a publish   *)
(* looks at the ledger and makes the plan, the commit applies it, and      *)
(* every other step leaves the ledger as it is, or drops the plan of the   *)
(* request that dies.  That plans report different invoices is what the    *)
(* row locks and the unique constraint give.                               *)
(***************************************************************************)

\* A plan is a matter of the request alone.
Plans(p) == p = [r \in Reqs |-> PlanOf(req[r])]

LEMMA PlansNext ==
  ASSUME TypeOK, NEW r \in Reqs, NEW x, Goto(r, x), NEW p, Plans(p)
  PROVE  [o \in Reqs |-> PlanOf(req[o])]' = [p EXCEPT ![r] = PlanOf(x)]
<1>1. \A o \in Reqs : req'[o] = IF o = r THEN x ELSE req[o]
  BY DEF Goto, TypeOK
<1>2. [o \in Reqs |-> PlanOf(req[o])]' = [o \in Reqs |-> PlanOf(req'[o])]
  BY DEF PlanOf, Touched, KeyOf, CanonOf, OkRows
<1>3. [p EXCEPT ![r] = PlanOf(x)] = [o \in Reqs |-> IF o = r THEN PlanOf(x) ELSE PlanOf(req[o])]
  BY DEF Plans
<1>4. \A o \in Reqs : PlanOf(req'[o]) = IF o = r THEN PlanOf(x) ELSE PlanOf(req[o])
  BY <1>1
<1> QED
  BY <1>2, <1>3, <1>4

LEMMA NoPlanUnlessCommitting ==
  ASSUME NEW x, x.pc # "commit"
  PROVE  PlanOf(x) = Books!NoPlan
BY DEF PlanOf, Books!NoPlan

\* A step that leaves the invoices and its own request with no plan.
LEMMA DropStep ==
  ASSUME TypeOK, NEW r \in Reqs, NEW x, Goto(r, x), x.pc # "commit", inv' = inv
  PROVE  Books!Next
<1>1. PICK p : Plans(p)
  BY DEF Plans
<1>2. [o \in Reqs |-> PlanOf(req[o])]' = [p EXCEPT ![r] = Books!NoPlan]
  BY <1>1, PlansNext, NoPlanUnlessCommitting
<1>3. Books!Drop(r)
  BY <1>1, <1>2 DEF Books!Drop, Plans
<1> QED
  BY <1>3 DEF Books!Next

\* The settling UPDATE looks.
LEMMA SettleLooks ==
  ASSUME ConstantsAssumption, IInv, NEW r \in Reqs, PublishSettle(r)
  PROVE  Books!Next
<1> PICK p, q, f, s, T : /\ Plans(p) /\ q = req[r] /\ f = q.file /\ s = q.seen
                         /\ T = Touched(s, f)
  BY DEF Plans
<1>1. /\ q \in UpsertReq /\ q.pc = "settle" /\ Booked(q)
  BY RequestAt DEF IInv, TypeOK, PublishSettle, At, Ledger
<1>2. f \in Files /\ s \in SnapRow /\ s.entity \in Entities
  BY <1>1 DEF UpsertReq, SnapRow
<1>3. OverridesInEntity(s) /\ Unmapped(s, f) = {} /\ OkRows(f) # {}
  BY <1>1 DEF IInv, InFlightInEntity, Booked, Inserting
<1>4. /\ T \subseteq Keys /\ T # {}
      /\ \A k \in T : EntityOfKey(k) = s.entity
  BY <1>2, <1>3, TouchedInEntity DEF Touched
<1>5. PICK x : /\ Goto(r, x) /\ x.pc = "commit" /\ x.file = f /\ x.seen = s
               /\ x.todo = ToSettle(q) /\ inv' = inv
  BY DEF PublishSettle, Reads, tables
<1>6. PlanOf(x) = [file |-> f, reports |-> T, settles |-> ToSettle(q)]
  BY <1>5 DEF PlanOf
<1>7. ToSettle(q) = ({k \in Keys : inv[k].status = "OPEN"} \cap Books!KeysOf(s.entity)) \ T
  BY DEF ToSettle, Books!KeysOf, EntityOfKey
<1>8. [o \in Reqs |-> PlanOf(req[o])]' =
        [p EXCEPT ![r] = [file |-> f, reports |-> T, settles |->
           ({k \in Keys : inv[k].status = "OPEN"} \cap Books!KeysOf(s.entity)) \ T]]
  <2>1. [o \in Reqs |-> PlanOf(req[o])]' = [p EXCEPT ![r] = PlanOf(x)]
    BY <1>5, PlansNext DEF IInv
  <2> QED
    BY <1>6, <1>7, <2>1
<1>9. \A o \in Reqs : p[o].reports \cap T = {}
  <2> TAKE o \in Reqs
  <2>1. CASE req[o].pc = "commit"
    <3>1. o # r /\ Holds(req[o]) \cap Holds(req[r]) = {}
      BY <1>1, <2>1 DEF IInv, Ledger, Apart
    <3> QED
      BY <1>1, <2>1, <3>1 DEF Plans, PlanOf, Holds
  <2>2. CASE req[o].pc # "commit"
    BY <2>2 DEF Plans, PlanOf
  <2> QED
    BY <2>1, <2>2
<1>10. p[r] = Books!NoPlan
  BY <1>1, NoPlanUnlessCommitting DEF Plans
<1>11. Books!Look(r, f, s.entity, T)
  BY <1>4, <1>5, <1>8, <1>9, <1>10 DEF Books!Look, Plans
<1>12. T \in SUBSET Books!KeysOf(s.entity)
  BY <1>4 DEF Books!KeysOf, EntityOfKey
<1> QED
  BY <1>2, <1>11, <1>12 DEF Books!Next

\* The commit applies the plan.
LEMMA CommitPublishes ==
  ASSUME ConstantsAssumption, IInv, NEW r \in Reqs, PublishCommit(r)
  PROVE  Books!Next
<1> PICK p, f, s, T, ins, todo :
      /\ Plans(p) /\ f = req[r].file /\ s = req[r].seen /\ T = Touched(s, f)
      /\ ins = req[r].ins /\ todo = req[r].todo
  BY DEF Plans
<1>1. /\ f \in Files /\ f # NoFile /\ T \subseteq Keys /\ T # {}
      /\ Booked(req[r]) /\ req[r].pc = "commit"
  BY CommitWrites
<1>2. \A k \in Keys :
        IF k \in T
        THEN /\ inv'[k].status = "OPEN"
             /\ inv'[k].firstSeen = IF k \in ins THEN f ELSE inv[k].firstSeen
        ELSE IF k \in todo /\ inv[k].status = "OPEN"
        THEN inv'[k].status = "SETTLED" /\ inv'[k].firstSeen = inv[k].firstSeen
        ELSE inv'[k] = inv[k]
  BY CommitWrites
<1>3. /\ \A k \in T \ ins : inv[k].status # "NONE"
      /\ \A k \in ins : inv[k].status = "NONE"
      /\ ins \subseteq T
  BY <1>1 DEF Booked, Inserting
<1>4. p[r] = [file |-> f, reports |-> T, settles |-> todo] /\ p[r] # Books!NoPlan
  BY <1>1 DEF Plans, PlanOf, Books!NoPlan
<1>5. \A o \in Reqs : p[o].reports \cap todo = {}
  <2> TAKE o \in Reqs
  <2>1. CASE o = r
    BY <1>1, <1>4, <2>1 DEF Booked, Settling
  <2>2. CASE o # r /\ req[o].pc = "commit"
    <3>1. Holds(req[o]) \in {Holds(req[i]) : i \in Reqs \ {r}}
      BY <2>2
    <3>2. Holds(req[o]) \cap todo = {}
      BY <3>1 DEF PublishCommit, HeldByOthers
    <3>3. p[o].reports = Holds(req[o])
      BY <2>2 DEF Plans, PlanOf, Holds
    <3> QED
      BY <3>2, <3>3
  <2>3. CASE req[o].pc # "commit"
    BY <2>3 DEF Plans, PlanOf
  <2> QED
    BY <2>1, <2>2, <2>3
<1>6. {k \in Keys : inv'[k].status = "OPEN"}
        = ({k \in Keys : inv[k].status = "OPEN"} \ todo) \cup T
  <2>1. \A k \in Keys : inv'[k].status = "OPEN"
          <=> k \in T \/ (inv[k].status = "OPEN" /\ k \notin todo)
    BY <1>2
  <2> QED
    BY <1>1, <2>1
<1> DEFINE seen(k) == IF inv[k].status = "NONE" THEN NoFile ELSE inv[k].firstSeen
           seenNext(k) == IF inv'[k].status = "NONE" THEN NoFile ELSE inv'[k].firstSeen
<1>7. \A k \in Keys : inv[k].status # "NONE" => inv[k].firstSeen # NoFile
  BY DEF IInv, Ledger, LinesComplete
<1>8. \A k \in Keys :
         seenNext(k) = IF k \in T /\ seen(k) = NoFile THEN f ELSE seen(k)
  <2> TAKE k \in Keys
  <2>1. CASE k \in T
    <3>1. inv'[k].status = "OPEN"
          /\ inv'[k].firstSeen = IF k \in ins THEN f ELSE inv[k].firstSeen
      BY <1>2, <2>1
    <3>2. k \in ins <=> inv[k].status = "NONE"
      BY <1>3, <2>1
    <3> QED
      BY <1>7, <2>1, <3>1, <3>2
  <2>2. CASE k \notin T
    <3>1. CASE k \in todo /\ inv[k].status = "OPEN"
      BY <1>2, <2>2, <3>1
    <3>2. CASE ~(k \in todo /\ inv[k].status = "OPEN")
      BY <1>2, <2>2, <3>2
    <3> QED
      BY <2>2, <3>1, <3>2
  <2> QED
    BY <2>1, <2>2
<1>9. [k \in Keys |-> seenNext(k)] =
        [k \in Keys |-> IF k \in T \ {i \in Keys : [j \in Keys |-> seen(j)][i] # NoFile}
                        THEN f ELSE [j \in Keys |-> seen(j)][k]]
  <2>1. \A k \in Keys :
          seenNext(k) = IF k \in T \ {i \in Keys : [j \in Keys |-> seen(j)][i] # NoFile}
                        THEN f ELSE [j \in Keys |-> seen(j)][k]
    BY <1>8
  <2> QED
    BY <2>1
<1>10. [o \in Reqs |-> PlanOf(req[o])]' = [p EXCEPT ![r] = Books!NoPlan]
  <2>1. Goto(r, Idle)
    BY DEF PublishCommit, End
  <2> QED
    BY <2>1, IdleIsRequest, PlansNext, NoPlanUnlessCommitting DEF IInv
<1>11. Books!Publish(r)
  BY <1>4, <1>5, <1>6, <1>9, <1>10 DEF Books!Publish, Books!Known, Plans
<1> QED
  BY <1>11 DEF Books!Next

LEMMA StepRefines ==
  ASSUME ConstantsAssumption, IInv, [Next]_vars
  PROVE  [Books!Next]_Books!vars
<1> USE DEF IInv
<1>1. CASE UNCHANGED vars
  <2>1. inv' = inv /\ req' = req
    BY <1>1 DEF vars
  <2>2. [o \in Reqs |-> PlanOf(req[o])]' = [o \in Reqs |-> PlanOf(req[o])]
    BY <2>1 DEF PlanOf, Touched, KeyOf, CanonOf, OkRows
  <2> QED
    BY <2>1, <2>2 DEF Books!vars
<1>2. ASSUME NEW r \in Reqs, Arrive(r)
      PROVE  Books!Next
  <2>1. Goto(r, req'[r]) /\ req'[r].pc # "commit" /\ inv' = inv
    BY <1>2 DEF Arrive, UploadBegin, PatchBegin, AckBegin, ReviewBegin, DiscardBegin,
       PublishBegin, ReconcileBegin, Goto, TypeOK, Reads, tables
  <2> QED
    BY <2>1, DropStep
<1>3. ASSUME NEW r \in Reqs, End(r), inv' = inv
      PROVE  Books!Next
  BY <1>3, IdleIsRequest, DropStep DEF End
<1>4. ASSUME NEW r \in Reqs, PublishSameDay(r) \/ PublishPrior(r) \/ PublishUpsert(r)
      PROVE  Books!Next
  <2>1. req[r] \in PublishReq \cup UpsertReq
    BY <1>4, RequestAt DEF PublishSameDay, PublishPrior, PublishUpsert, At, TypeOK
  <2>2. \A pc \in {"prior", "gate", "settle"} : [req[r] EXCEPT !.pc = pc].pc # "commit"
    BY <2>1 DEF PublishReq, UpsertReq
  <2>3. inv' = inv /\ (End(r) \/ \E pc \in {"prior", "gate", "settle"} :
                          Goto(r, [req[r] EXCEPT !.pc = pc]))
    BY <1>4 DEF PublishSameDay, PublishPrior, PublishUpsert, Reads, tables
  <2> QED
    BY <1>3, <2>2, <2>3, DropStep
<1>5. ASSUME NEW r \in Reqs, PublishGate(r)
      PROVE  Books!Next
  <2>1. inv' = inv /\ (End(r) \/ (Goto(r, req'[r]) /\ req'[r].pc = "publish"))
    BY <1>5 DEF PublishGate, Reads, tables, Goto, TypeOK
  <2> QED
    BY <1>3, <2>1, DropStep
<1>6. ASSUME NEW r \in Reqs, Advance(r)
      PROVE  Books!Next
  BY <1>3, <1>4, <1>5, <1>6, SettleLooks, CommitPublishes DEF Advance, UploadCommit,
     PatchCommit, AckCommit, ReviewCommit, DiscardCommit, ReconcileCommit, PublishAbort,
     Reads, tables
<1> QED
  BY <1>1, <1>2, <1>3, <1>6 DEF Next, Die, Reads, tables

\* The requests on snapshots implement the ledger, for any number of requests, files,
\* parties, rows and entities.
THEOREM LedgerImplemented == Spec => LedgerRefined
<1> USE ConstantsAssumption
<1>1. Init => IInv /\ Books!Init
  <2>1. Init => IInv
    BY InitTypes, InitLedger DEF IInv
  <2>2. Init => Books!Init
    BY DEF Init, Books!Init, Books!NoPlan, NewInvoice, PlanOf, Idle
  <2> QED
    BY <2>1, <2>2
<1>2. IInv /\ [Next]_vars => IInv'
  BY StepLedger
<1>3. IInv /\ [Next]_vars => [Books!Next]_Books!vars
  BY StepRefines
<1> QED
  BY <1>1, <1>2, <1>3, PTL DEF Spec, LedgerRefined, Books!Spec

=============================================================================
