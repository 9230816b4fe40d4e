----------------------------- MODULE MCImports -----------------------------
(***************************************************************************)
(* Small instances for TLC of how receivables come in and what a publish   *)
(* does to the work on them: pulls from Xero, workbooks and their parsers, *)
(* the column mapping of the next workbook, snapshots one request at a     *)
(* time, the history of what changed, and tasks, disputes, promises and    *)
(* exceptions.  The modules share no state, so each behaviour is of one of *)
(* them, under one of the circumstances its properties ask for.            *)
(***************************************************************************)
EXTENDS OperationalObjects, Integers, Sequences, TLC

CONSTANTS
  i1, s1, s2, s3, s4, x1,                                                    \* OperationalObjects
  MaxRuns, Receivables, DateOf, OpenAtFirst, Draft, Incomplete, PageSize, MaxPages,
  MaxFaults, MaxChanges,                                                     \* XeroSync
  RowAmounts, SheetRows,                                                     \* Workbooks
  Analysts, Bills, Amounts, Dates, Currencies, Terms, Told, Acked,           \* InvoiceChanges
  MappedFiles, Columns, Required, HeadersOf, MaxSaves,                            \* ColumnMappings
  TheRequest, Staff, RoleOf, ScopeOf, Entities, ReviewRequired, Canon, EntityOf, Refs,
  Uploads, Days, Parsed, ParsedIn, RefOf, AliasOf, BadRows, NoDays, Warnings, WarningsOf,
  NoCanon, NoUpload                                                          \* SnapshotLifecycle

\* In a cell, 0 is nothing and -1 not a number; an amount is neither.
ASSUME AmountsArePositive == RowAmounts \subseteq Nat \ {0}

VARIABLES
  which,                                                                     \* the circumstances
  open, newest, conn, runs, staged, faults, changes, renewed, pullReq,           \* XeroSync
  wrote, hint, sheets, rows,                                                 \* Workbooks
  value, history, first, told, acks, changeReq,                              \* InvoiceChanges
  saved, learnt, detected, drift, published, saves, mappingReq,              \* ColumnMappings
  snap, ledger, lines, recon, audit, last, mapped, snapReq                   \* SnapshotLifecycle

X == INSTANCE XeroSync WITH Invoices <- Receivables, req <- pullReq

\* Two customers, the name of one of which begins with "Total".
W == INSTANCE Workbooks WITH
  Parties <- {<<"Acme">>, <<"Total", "Oil">>}, Amounts <- RowAmounts, MaxRows <- SheetRows

I == INSTANCE InvoiceChanges WITH
  Users <- Analysts, Invoices <- Bills, Snapshots <- DOMAIN Told, Reported <- Told,
  published <- told, req <- changeReq

M == INSTANCE ColumnMappings WITH Files <- MappedFiles, Fields <- Columns, req <- mappingReq

S == INSTANCE SnapshotLifecycle WITH
  Reqs <- {TheRequest}, Users <- Staff, Role <- RoleOf, Scope <- ScopeOf, Files <- Uploads,
  Dates <- Days, Rows <- Parsed, RowsOf <- ParsedIn, NoFile <- NoUpload,
  inv <- ledger, req <- snapReq

\* The first two invoices are of one date.
TwoOfOneDate == [i \in Receivables |-> IF i = 3 THEN 2 ELSE 1]

\* Two invoices in three files; the second names an invoice twice, the third gives
\* one another date and currency.
Line(i, amount, date) == [invoice |-> i, amount |-> amount, date |-> date, currency |-> date]
ThreeFiles ==
  <<<<Line(1, 2, 1)>>, <<Line(2, 2, 1), Line(1, 3, 1), Line(2, 3, 2)>>, <<Line(1, 2, 2)>>>>

\* Three files of two layouts; one lacks a column the parser can do without.
TwoLayouts == [f \in MappedFiles |-> IF f = "f3" THEN {"total"} ELSE {"total", "email"}]

\* An admin; two files, of which the second reports one row less.
AllAdmin == [u \in Staff |-> "ADMIN"]
OneScope == [u \in Staff |-> CHOOSE e \in Entities : TRUE]
OneEntity == [c \in Canon |-> CHOOSE e \in Entities : TRUE]
OneRowLess == [f \in Uploads |-> IF f = 1 THEN Parsed ELSE Parsed \ NoDays]
OneRef == [x \in Parsed |-> CHOOSE i \in Refs : TRUE]
OneAlias == [x \in Parsed |-> CHOOSE c \in Canon : TRUE]
NoWarnings == [f \in Uploads |-> {}]

\* One object on an invoice that the second and the fourth snapshot do not report.
OnI1 == [o \in Objs |-> i1]
EveryOther == [s \in Snapshots |-> IF s \in {s2, s4} THEN {} ELSE {x1}]
SameInvoice == [x \in Rows |-> i1]
NoLineRules == [x \in Rows |-> {}]

MaxAcks == 2

SymmetricReqs == Permutations(Reqs)

pullVars == <<open, newest, conn, runs, staged, faults, changes, renewed, pullReq>>
sheetVars == <<wrote, hint, sheets, rows>>
changeVars == <<value, history, first, told, acks, changeReq>>
mappingVars == <<saved, learnt, detected, drift, published, saves, mappingReq>>
snapVars == <<snap, ledger, lines, recon, audit, last, mapped, snapReq>>

-----------------------------------------------------------------------------

Circumstances ==
  {"pulls", "sheets", "publishes", "acknowledgements", "mappings",
   "snapshots, alone", "objects", "objects, alone"}

MCInit ==
  /\ which \in Circumstances
  /\ Init
  /\ X!Init /\ open \in IF which = "pulls" THEN OpenAtFirst ELSE {{}}
  /\ IF which = "sheets"
     THEN W!Init /\ (wrote = "XERO" => sheets = W!SheetsOf(wrote))
     ELSE wrote = "TALLY" /\ hint = "TALLY" /\ sheets = W!SheetsOf("TALLY") /\ rows = <<>>
  /\ I!Init /\ M!Init /\ S!Init

\* A pull beside another, and either a fault or a change in Xero meanwhile.
Pulls == which = "pulls" /\ X!Next /\ faults' + changes' =< 1

\* Odd sheets and hints settle the parser whatever the rows.  Of rows that are not of
\* the layout a sheet has one; a master has three rows.
Sheets ==
  /\ which = "sheets" /\ hint = wrote
  /\ sheets \subseteq W!SheetsOf(wrote) /\ W!Next
  /\ Cardinality({k \in DOMAIN rows' : rows'[k].is \in {"note", "undated", "blank"}}) =< 1
  /\ wrote = "CREDIT_PERIOD" => Len(rows) < 3

\* Publishes that do not overlap, of all files and terms; acknowledgements that do,
\* of the changes that one file holds, and MaxAcks of them committed.
Changes ==
  \/ /\ which = "publishes"
     /\ \E r \in Reqs :
          \/ /\ \A k \in Reqs : changeReq[k] = I!Idle
             /\ \E s \in DOMAIN Told : I!PublishRead(r, s)
          \/ I!PublishWrite(r)
  \/ /\ which = "acknowledgements"
     /\ \E r \in Reqs :
          \/ /\ \A k \in Reqs : changeReq[k] = I!Idle
             /\ told = {} /\ I!PublishRead(r, Acked)
          \/ I!PublishWrite(r) \/ I!AckCommit(r)
          \/ Cardinality(acks) < MaxAcks /\ \E u \in Analysts : I!AckRead(r, u)

Mappings == which = "mappings" /\ M!Next

\* Of two snapshots that report the same one comes before the other.  Once all but one are
\* published, only publishes and creations begin.
Objects ==
  /\ \/ /\ which = "objects" /\ Next
        /\ Cardinality(pub) > 2 =>
             \A r \in Reqs : At(r, "idle") => req'[r].pc \notin {"tag", "patch"}
     \/ which = "objects, alone" /\ AloneNext
  /\ (s3 \in pub' => s1 \in pub') /\ (s4 \in pub' => s2 \in pub')

\* There is one request.
Lifecycle == which = "snapshots, alone" /\ S!Next

MCNext ==
  /\ \/ Pulls /\ UNCHANGED <<sheetVars, changeVars, mappingVars, vars, snapVars>>
     \/ Sheets /\ UNCHANGED <<pullVars, changeVars, mappingVars, vars, snapVars>>
     \/ Changes /\ UNCHANGED <<pullVars, sheetVars, mappingVars, vars, snapVars>>
     \/ Mappings /\ UNCHANGED <<pullVars, sheetVars, changeVars, vars, snapVars>>
     \/ Objects /\ UNCHANGED <<pullVars, sheetVars, changeVars, mappingVars, snapVars>>
     \/ Lifecycle /\ UNCHANGED <<pullVars, sheetVars, changeVars, mappingVars, vars>>
  /\ UNCHANGED which

MCSpec ==
  MCInit /\
    [][MCNext]_<<which, pullVars, sheetVars, changeVars, mappingVars, vars, snapVars>>

-----------------------------------------------------------------------------

\* Every variable has its type, whatever overlaps.
TypesOK ==
  /\ which = "pulls" => X!TypeOK
  /\ which = "sheets" => W!TypeOK
  /\ which \in {"publishes", "acknowledgements"} => I!TypeOK
  /\ which = "mappings" => M!TypeOK
  /\ which \in {"objects", "objects, alone"} => TypeOK
  /\ which = "snapshots, alone" => S!TypeOK

\* A pull that Xero does not change under, no date of which is split between pages,
\* stages every open invoice once (fetchOpenReceivableInvoices).
StagesWhole == which = "pulls" => X!StagesWhole

\* The status of a run tells what became of it (pullXeroSnapshot).
RunsTell == which = "pulls" => X!RunsTell

\* The good refresh token stays on file (refreshConnectionAccess).
TokenKept == which = "pulls" => X!TokenKept

\* Every row is classified as what it is, and without a warning the money of the rows is
\* that of the total (parseTallyGrpbills and its siblings).
SheetsTold == which = "sheets" => W!RowsAccounted /\ W!MoneyTold

\* Publishes that do not overlap explain every value they changed (diffInvoice).
ChangesExplain == which = "publishes" => I!Explained

\* Acknowledgements that overlap do not take a change from its signer
\* (acknowledgeInvoiceChanges).
SignerKept == [][which = "acknowledgements" => I!KeepsSigner]_<<which, changeVars>>

\* Only the button replaces a default mapping (publishSnapshot).
BaselineStands == [][M!BaselineStands]_mappingVars

\* One request at a time: no two published snapshots of an entity and a day
\* (publishSnapshot's daily-cadence guard).
OnePerDay == which = "snapshots, alone" => S!OnePerDay

\* One request at a time: a published snapshot is not discarded, and the latest one is
\* reconciled before the next is published (discardSnapshot, publishSnapshot).
GuardsHold ==
  [][which = "snapshots, alone" =>
       \A f \in Uploads : S!DiscardSpares(f) /\ S!PriorIsReconciled(f)]_<<which, snapVars>>

\* One request at a time leaves no ACTIVE exception tag on an invoice that is not open
\* (createExceptionForInvoice, autoResolveCascadeOnSettle).
NoZombiesAlone == which = "objects, alone" => NoZombies

\* A resolved exception stays so however requests overlap, and one request at a time
\* leaves every terminal status (the four PATCH handlers and the cascade).
StatusesStand ==
  [][KeepsResolved /\ (which = "objects, alone" => KeepsTerminal)]_<<which, vars>>

\* However requests overlap, a publish leaves no live work on an invoice it had listed and
\* settles, but for what others wrote meanwhile (autoResolveCascadeOnSettle).
CascadeComplete == [][SettlesWhole]_<<which, vars>>

=============================================================================
