------------------------- MODULE OperationalObjects -------------------------
(***************************************************************************)
(* The work attached to invoices: collection tasks, disputes, promises to  *)
(* pay and exception tags.  Analysts create and patch them; a publish      *)
(* closes those of the invoices it settles (autoResolveCascadeOnSettle)    *)
(* and suggests new tasks (generateSuggestedTasks).                        *)
(*                                                                         *)
(* A PATCH reads the row, checks the transition against what it read, and  *)
(* then updates the row by its id in a transaction that does not look at   *)
(* the status again.  Reading and writing are two steps of a request, its  *)
(* transaction is one.                                                     *)
(*                                                                         *)
(* A publish takes a step for each statement that looks at the tables, and *)
(* what it writes comes to be when it commits.  Postgres runs it at READ   *)
(* COMMITTED: a statement sees what is committed as it begins, waits for   *)
(* the rows it found that another transaction has written, and writes them *)
(* if they still match.  The wait is part of the step of the statement     *)
(* that follows, since nothing changes a row between its lock and there.   *)
(***************************************************************************)
EXTENDS FiniteSets

CONSTANTS
  Reqs,                      \* slots for requests in flight
  Invoices,
  Objs, InvoiceOf,           \* objects analysts create, and the invoice of each
  Snapshots, Rows, RowsOf,   \* snapshots and the rows each reports
  InvoiceOfRow,              \* the invoice of a row; two rows may share one
  LineRules                  \* the rules a row meets by bucket, amount or stale contact

Kinds == {"task", "dispute", "promise", "exception"}
Reasons == {"NINETY_PLUS", "HIGH_VALUE", "STALE_FOLLOW_UP", "DISPUTE_OPEN", "BROKEN_PROMISE"}

ASSUME ObjectsAssumption ==
  /\ InvoiceOf \in [Objs -> Invoices]
  /\ RowsOf \in [Snapshots -> SUBSET Rows]
  /\ InvoiceOfRow \in [Rows -> Invoices]
  /\ LineRules \in [Rows -> SUBSET Reasons]
  /\ Objs \cap (Snapshots \X Rows \X Reasons) = {}
  /\ Invoices \cap (Objs \cup (Snapshots \X Rows \X Reasons)) = {}

VARIABLES
  inv,    \* the status of each invoice
  obj,    \* each object: kind, status, and whether completed_at or resolved_at is set
  pub,    \* the snapshots published
  req,    \* what each request in flight has read
  since   \* history: the objects that changed since a publish took its list

vars == <<inv, obj, pub, req, since>>

-----------------------------------------------------------------------------
(* The state machines *)

Transitions ==
  [task |->
     [SUGGESTED |-> {"OPEN", "DISMISSED"},
      OPEN |-> {"IN_PROGRESS", "SNOOZED", "DISMISSED"},
      IN_PROGRESS |-> {"DONE", "SNOOZED", "DISMISSED"},
      SNOOZED |-> {"OPEN", "DISMISSED"},
      DONE |-> {}, DISMISSED |-> {}],
   dispute |->
     [OPEN |-> {"IN_REVIEW", "WAITING_ON_CUSTOMER", "RESOLVED", "CLOSED"},
      IN_REVIEW |-> {"OPEN", "WAITING_ON_CUSTOMER", "RESOLVED", "CLOSED"},
      WAITING_ON_CUSTOMER |-> {"IN_REVIEW", "RESOLVED", "CLOSED"},
      RESOLVED |-> {"CLOSED"}, CLOSED |-> {}],
   promise |->
     [OPEN |-> {"KEPT", "BROKEN", "CANCELLED"},
      KEPT |-> {}, BROKEN |-> {}, CANCELLED |-> {}],
   exception |->
     [ACTIVE |-> {"RESOLVED"}, RESOLVED |-> {}, AUTO_RESOLVED |-> {}]]

Created == [task |-> "OPEN", dispute |-> "OPEN", promise |-> "OPEN", exception |-> "ACTIVE"]

\* Fault: a snoozed task and a dispute that waits are left alone.
LiveAwake ==
  [task |-> {"SUGGESTED", "OPEN", "IN_PROGRESS"}, dispute |-> {"OPEN", "IN_REVIEW"},
   promise |-> {"OPEN"}, exception |-> {"ACTIVE"}]

\* Fault: a task that is done is closed again.
LiveDone ==
  [task |-> {"SUGGESTED", "OPEN", "IN_PROGRESS", "SNOOZED", "DONE"},
   dispute |-> {"OPEN", "IN_REVIEW", "WAITING_ON_CUSTOMER"},
   promise |-> {"OPEN"}, exception |-> {"ACTIVE"}]

\* The statuses the cascade closes, and what it closes them as.
Live ==
  [task |-> {"SUGGESTED", "OPEN", "IN_PROGRESS", "SNOOZED"},
   dispute |-> {"OPEN", "IN_REVIEW", "WAITING_ON_CUSTOMER"},
   promise |-> {"OPEN"}, exception |-> {"ACTIVE"}]

ClosedAs ==
  [task |-> "DISMISSED", dispute |-> "CLOSED", promise |-> "CANCELLED",
   exception |-> "AUTO_RESOLVED"]

\* A suggested task is named by what it was suggested for.
Suggestions == UNION {{s} \X RowsOf[s] \X Reasons : s \in Snapshots}
Ids == Objs \cup Suggestions
Kind(o) == obj[o].kind
InvoiceOfId(o) == IF o \in Objs THEN InvoiceOf[o] ELSE InvoiceOfRow[o[2]]

Statuses(k) == DOMAIN Transitions[k]
None == [kind |-> "task", status |-> "NONE", at |-> FALSE]
Exists(o) == obj[o].status # "NONE"

-----------------------------------------------------------------------------

Idle == [pc |-> "idle"]
Goto(r, q) == req' = [req EXCEPT ![r] = q]
At(r, pc) == req[r].pc = pc

\* What a PATCH may ask for of an object read as seen: no status, the same one,
\* or one a transition leads to.  An exception has actions instead, and the same
\* status is not one of them.
Asked(k, seen) ==
  {"KEEP"} \cup Transitions[k][seen.status]
    \cup (IF k = "exception" THEN {} ELSE {seen.status})

AnyStatus == UNION {Statuses(k) : k \in Kinds}

\* The steps of a publish.  It is at a kind until the cascade has looked for the
\* objects of that kind.
StepAfter ==
  [promise |-> "dispute", dispute |-> "task", task |-> "exception", exception |-> "suggest"]
Listed == Kinds \cup {"settle", "suggest", "commit"}
Publishing == Listed \cup {"list"}

\* new: invoices found missing; list: aboutToSettle; found: rows the last UPDATE has
\* still to get; held: rows it has written, its own invoices among them; tasks: those
\* it suggests.
Publish ==
  [pc: Publishing, snap: Snapshots, new: SUBSET Invoices, list: SUBSET Invoices,
   found: SUBSET (Invoices \cup Ids), held: SUBSET (Invoices \cup Ids),
   tasks: SUBSET Suggestions]

Object == [kind: Kinds, status: AnyStatus \cup {"NONE"}, at: BOOLEAN]

TypeOK ==
  /\ inv \in [Invoices -> {"NONE", "OPEN", "SETTLED"}]
  /\ obj \in [Ids -> Object]
  /\ \A o \in Ids : Exists(o) => obj[o].status \in Statuses(Kind(o))
  /\ pub \subseteq Snapshots
  /\ req \in [Reqs -> {Idle} \cup [pc: {"tag"}, obj: Objs] \cup Publish
                \cup [pc: {"patch"}, obj: Ids, seen: Object, to: AnyStatus \cup {"KEEP"}]]
  /\ since \in [Reqs -> SUBSET Ids]

Init ==
  /\ inv = [i \in Invoices |-> "NONE"]
  /\ obj = [o \in Ids |-> None]
  /\ pub = {}
  /\ req = [r \in Reqs |-> Idle]
  /\ since = [r \in Reqs |-> {}]

\* The rows a request has written and not committed.
Held(r) == IF req[r].pc \in Publishing THEN req[r].held ELSE {}

-----------------------------------------------------------------------------
(* Creation *)

\* No row, and no insert under way, has this id.
Free(o) == ~Exists(o) /\ \A r \in Reqs : req[r] # [pc |-> "tag", obj |-> o]

New(o, k) == obj' = [obj EXCEPT ![o] = [kind |-> k, status |-> Created[k], at |-> FALSE]]

\* createCollectionTask, createDisputeCase, createPromiseToPay: one transaction;
\* whether the invoice is open is not asked.
Create(r, o) ==
  /\ At(r, "idle")
  /\ Free(o) /\ inv[InvoiceOf[o]] # "NONE"
  /\ \E k \in Kinds \ {"exception"} : New(o, k)
  /\ UNCHANGED <<inv, pub, req>>

\* Fault: the invoice's status is not checked.
TagBeginSettled(r, o) ==
  /\ At(r, "idle")
  /\ Free(o) /\ inv[InvoiceOf[o]] # "NONE"
  /\ Goto(r, [pc |-> "tag", obj |-> o])
  /\ UNCHANGED <<inv, obj, pub>>

\* createExceptionForInvoice: "Exception tags can only be created on OPEN invoices",
TagBegin(r, o) ==
  /\ At(r, "idle")
  /\ Free(o) /\ inv[InvoiceOf[o]] = "OPEN"
  /\ Goto(r, [pc |-> "tag", obj |-> o])
  /\ UNCHANGED <<inv, obj, pub>>

\* and then the insert.
TagCommit(r) ==
  /\ At(r, "tag")
  /\ New(req[r].obj, "exception")
  /\ Goto(r, Idle)
  /\ UNCHANGED <<inv, pub>>

-----------------------------------------------------------------------------
(* PATCH: patchCollectionTask, patchDisputeCase, patchPromiseToPay, updateException *)

PatchBegin(r, o) ==
  /\ At(r, "idle") /\ Exists(o)
  /\ \E to \in Asked(Kind(o), obj[o]) :
       Goto(r, [pc |-> "patch", obj |-> o, seen |-> obj[o], to |-> to])
  /\ UNCHANGED <<inv, obj, pub>>

\* Whether completed_at or resolved_at is set after patch q of an object of kind
\* k: a task's is written from what was read, a dispute's and an exception's only
\* when it is resolved, and a promise has none.
Dated(k, q, at) ==
  CASE k = "task" -> q.to = "DONE" \/ q.seen.at
    [] k = "promise" -> FALSE
    [] OTHER -> q.to = "RESOLVED" \/ at

Patched(k, q, o) ==
  [kind |-> k, status |-> IF q.to = "KEEP" THEN o.status ELSE q.to,
   at |-> Dated(k, q, o.at)]

\* The transaction waits for a publish that has closed the object.
PatchCommit(r) ==
  LET q == req[r] IN
  /\ At(r, "patch") /\ \A k \in Reqs : q.obj \notin Held(k)
  /\ obj' = [obj EXCEPT ![q.obj] = Patched(Kind(q.obj), q, @)]
  /\ Goto(r, Idle)
  /\ UNCHANGED <<inv, pub>>

-----------------------------------------------------------------------------
(* publishSnapshot *)

InvoicesOf(s) == {InvoiceOfRow[row] : row \in RowsOf[s]}
Absent(s) == {i \in Invoices \ InvoicesOf(s) : inv[i] = "OPEN"}

\* existingInvoices is read before the transaction.  A snapshot is not published twice
\* at once: two that report the same rows stand for that.
PublishBegin(r, s) ==
  /\ At(r, "idle") /\ s \notin pub
  /\ \A k \in Reqs : req[k].pc \in Publishing => req[k].snap # s
  /\ Goto(r, [pc |-> "list", snap |-> s, new |-> {i \in InvoicesOf(s) : inv[i] = "NONE"},
              list |-> {}, found |-> {}, held |-> {}, tasks |-> {}])
  /\ UNCHANGED <<inv, obj, pub>>

\* The upserts, where an invoice found missing may be there by now and the insert
\* fails; and aboutToSettle.
PublishList(r) ==
  LET q == req[r] IN
  /\ At(r, "list") /\ \A k \in Reqs : InvoicesOf(q.snap) \cap Held(k) = {}
  /\ IF \E i \in q.new : inv[i] # "NONE"
     THEN Goto(r, Idle)
     ELSE Goto(r, [q EXCEPT !.pc = "settle", !.held = InvoicesOf(q.snap),
                            !.list = Absent(q.snap)])
  /\ UNCHANGED <<inv, obj, pub>>

\* The settling UPDATE looks for itself.
PublishSettle(r) ==
  /\ At(r, "settle")
  /\ Goto(r, [req[r] EXCEPT !.pc = "promise", !.found = Absent(req[r].snap)])
  /\ UNCHANGED <<inv, obj, pub>>

\* The rows the last UPDATE found are had: those that still match are written.
Gets(r) == \A k \in Reqs \ {r} : req[r].found \cap Held(k) = {}
Matches(x) == IF x \in Invoices THEN inv[x] = "OPEN" ELSE obj[x].status \in Live[Kind(x)]
Got(r) == req[r].held \cup {x \in req[r].found : Matches(x)}

\* autoResolveCascadeOnSettle: an UPDATE for each kind, of the objects of the list.
PublishCascade(r) ==
  LET q == req[r] IN
  /\ q.pc \in Kinds /\ Gets(r)
  /\ Goto(r, [q EXCEPT !.pc = StepAfter[q.pc], !.held = Got(r),
                !.found = {o \in Ids : /\ Kind(o) = q.pc /\ InvoiceOfId(o) \in q.list
                                       /\ obj[o].status \in Live[q.pc]}])
  /\ UNCHANGED <<inv, obj, pub>>

\* Some object of kind k on invoice i has a status of S.
Some(k, i, S) == \E o \in Ids : Kind(o) = k /\ InvoiceOfId(o) = i /\ obj[o].status \in S

Rules(row) ==
  LineRules[row]
    \cup (IF Some("dispute", InvoiceOfRow[row], {"OPEN", "IN_REVIEW"})
          THEN {"DISPUTE_OPEN"} ELSE {})
    \cup (IF Some("promise", InvoiceOfRow[row], {"BROKEN"}) THEN {"BROKEN_PROMISE"} ELSE {})

\* generateSuggestedTasks: a line of the snapshot gets a task for each rule it meets.
\* Its earlier suggestions are looked up first: a snapshot published once has none.
PublishSuggest(r) ==
  LET q == req[r] IN
  /\ At(r, "suggest") /\ Gets(r)
  /\ Goto(r, [q EXCEPT !.pc = "commit", !.held = Got(r), !.found = {},
                !.tasks = {o \in Suggestions : o[1] = q.snap /\ o[3] \in Rules(o[2])}])
  /\ UNCHANGED <<inv, obj, pub>>

\* An object closed by the cascade.  A promise has no date of its own.
Closed(o) == [obj[o] EXCEPT !.status = ClosedAs[Kind(o)], !.at = Kind(o) # "promise"]

PublishCommit(r) ==
  LET q == req[r] IN
  /\ At(r, "commit")
  /\ inv' = [i \in Invoices |-> IF i \in InvoicesOf(q.snap) THEN "OPEN"
                                ELSE IF i \in q.held THEN "SETTLED" ELSE inv[i]]
  /\ obj' = [o \in Ids |-> IF o \in q.tasks THEN [None EXCEPT !.status = "SUGGESTED"]
                           ELSE IF o \in q.held THEN Closed(o) ELSE obj[o]]
  /\ pub' = pub \cup {q.snap}
  /\ Goto(r, Idle)

-----------------------------------------------------------------------------

\* A request that dies before its transaction commits, or whose transaction is the
\* victim of a deadlock, leaves no trace.
Die(r) == ~At(r, "idle") /\ Goto(r, Idle) /\ UNCHANGED <<inv, obj, pub>>

Remember ==
  since' = [r \in Reqs |-> IF req'[r].pc \in Listed
                           THEN since[r] \cup {o \in Ids : obj'[o] # obj[o]} ELSE {}]

Step(r) ==
  \/ \E o \in Objs : Create(r, o) \/ TagBegin(r, o)
  \/ TagCommit(r)
  \/ \E o \in Ids : PatchBegin(r, o)
  \/ PatchCommit(r)
  \/ \E s \in Snapshots : PublishBegin(r, s)
  \/ PublishList(r) \/ PublishSettle(r) \/ PublishCascade(r) \/ PublishSuggest(r)
  \/ PublishCommit(r)
  \/ Die(r)

Next == (\E r \in Reqs : Step(r)) /\ Remember

Spec == Init /\ [][Next]_vars

\* One request at a time: while one is under way no other takes a step.
AloneNext == Next /\ \A r \in Reqs : ~At(r, "idle") => req'[r] # req[r]
AloneSpec == Init /\ [][AloneNext]_vars

-----------------------------------------------------------------------------
(* What holds however requests overlap *)

\* An exception tag that was resolved, by hand or by the cascade, is never ACTIVE
\* again, although patches of its note or date read it while it was.
KeepsResolved ==
  \A o \in Objs : Kind(o) = "exception" /\ Exists(o) /\ obj[o].status # "ACTIVE"
    => obj'[o].status # "ACTIVE"

\* A publish that settles an invoice (autoResolveCascadeOnSettle) leaves nothing on it
\* from which work could go on: every status but a dispute's RESOLVED is one that no
\* transition leaves.  Left out are an invoice that was not OPEN when the list was
\* taken, which another publish reopened before the settling UPDATE, and an object
\* that another request created or patched after the list was taken.
SettlesWhole ==
  \A r \in Reqs, o \in Ids :
    At(r, "commit") /\ req'[r] # req[r] /\ InvoiceOfId(o) \in req[r].list /\ o \notin since[r]
      /\ inv[InvoiceOfId(o)] = "OPEN" /\ inv'[InvoiceOfId(o)] = "SETTLED"
    => \/ obj'[o].status \in {"NONE", "RESOLVED"}
       \/ Transitions[Kind(o)][obj'[o].status] = {}

-----------------------------------------------------------------------------
(* What holds only while requests do not overlap *)

\* "Without this, zombie exceptions accumulate": no ACTIVE exception on an invoice
\* that is not open.
NoZombies ==
  \A o \in Objs : obj[o].status = "ACTIVE" => inv[InvoiceOf[o]] = "OPEN"

\* "DONE is terminal", "CLOSED is terminal", "KEPT is terminal": a step leaves a
\* status without transitions as it is, whether it publishes or patches.
KeepsTerminal ==
  \A o \in Ids : Exists(o) /\ Transitions[Kind(o)][obj[o].status] = {}
    => obj'[o].status = obj[o].status

\* "Emit one task per matching rule per invoice" (generateSuggestedTasks).
OneSuggestion ==
  \A o, p \in Suggestions :
    Exists(o) /\ Exists(p) /\ o # p => o[1] # p[1] \/ o[3] # p[3]
                                        \/ InvoiceOfId(o) # InvoiceOfId(p)

=============================================================================
