------------------------------ MODULE XeroSync ------------------------------
(***************************************************************************)
(* The pull of open receivables from Xero into a staged snapshot, and the  *)
(* connection it uses.  A pull opens a run, exchanges the refresh token    *)
(* for a new one, reads the open invoices page by page while Xero goes on  *)
(* changing, and stages what it read as a snapshot, at most once for the   *)
(* same content (upload_file_sha256 is unique).  Each call to Xero and to  *)
(* the database is a step.                                                 *)
(*                                                                         *)
(* Xero is external: its refresh tokens are rotated, and only the newest   *)
(* is good; it sorts the open invoices by date for every page it is asked  *)
(* for, and those of one date as it likes.                                 *)
(***************************************************************************)
EXTENDS Integers, FiniteSetsExt

CONSTANTS
  Reqs,                \* slots for pulls in flight
  MaxRuns,             \* bound on the pulls begun
  Invoices, DateOf,    \* invoices of the tenant, and their dates
  Draft, Incomplete,   \* those not authorised; those that lack a required field
  PageSize, MaxPages,  \* page size of Xero, MAX_INVOICE_PAGES
  MaxFaults,           \* bound on crashes and failures of the database
  MaxChanges           \* bound on changes made in Xero, and on connections made anew

VARIABLES
  open,       \* in Xero: ACCREC invoices with an amount due
  newest,     \* in Xero: the refresh token issued last
  conn,       \* the row of xero_connections: status and stored token
  runs,       \* table xero_sync_runs: status, and what the run staged
  staged,     \* contents of the snapshots made from pulls
  faults, changes, renewed,
  req

vars == <<open, newest, conn, runs, staged, faults, changes, renewed, req>>

-----------------------------------------------------------------------------

RunIds == 1 .. MaxRuns

\* What a pull has pushed: how often it has each invoice.
Contents == [Invoices -> Nat]
Nothing == [i \in Invoices |-> 0]

Run == [status: {"NEW", "RUNNING", "SUCCEEDED", "FAILED"}, made: SUBSET Contents]

\* moved: Xero has changed since the first page was asked for.
Idle == [pc |-> "idle"]
Request ==
  {Idle} \cup
  [pc: {"token", "refresh", "save", "page", "stage", "succeed", "fail"}, run: RunIds,
   token: Nat, page: 1 .. MaxPages + 1, got: Contents, limited: BOOLEAN, moved: BOOLEAN]

TypeOK ==
  /\ open \subseteq Invoices
  /\ newest \in Nat
  /\ conn \in [status: {"ACTIVE", "DISCONNECTED"}, token: Nat]
  /\ runs \in [RunIds -> Run]
  /\ staged \subseteq Contents
  /\ faults \in 0 .. MaxFaults /\ changes \in 0 .. MaxChanges /\ renewed \in 0 .. MaxChanges
  /\ req \in [Reqs -> Request]

Init ==
  /\ open \in SUBSET Invoices
  /\ newest = 1 /\ conn = [status |-> "ACTIVE", token |-> 1]
  /\ runs = [n \in RunIds |-> [status |-> "NEW", made |-> {}]]
  /\ staged = {}
  /\ faults = 0 /\ changes = 0 /\ renewed = 0
  /\ req = [r \in Reqs |-> Idle]

At(r, pc) == req[r].pc = pc
Goto(r, q) == req' = [req EXCEPT ![r] = q]
To(r, pc) == Goto(r, [req[r] EXCEPT !.pc = pc])
counts == <<faults, changes, renewed>>

-----------------------------------------------------------------------------
(* pullXeroSnapshot *)

PullBegin(r) ==
  /\ At(r, "idle") /\ conn.status = "ACTIVE"
  /\ \E n \in RunIds :
       /\ runs[n].status = "NEW" /\ \A k \in RunIds : k < n => runs[k].status # "NEW"
       /\ runs' = [runs EXCEPT ![n].status = "RUNNING"]
       /\ Goto(r, [pc |-> "token", run |-> n, token |-> 0, page |-> 1, got |-> Nothing,
                   limited |-> FALSE, moved |-> FALSE])
  /\ UNCHANGED <<open, newest, conn, staged, counts>>

\* refreshConnectionAccess reads the connection once more.
ReadToken(r) ==
  /\ At(r, "token")
  /\ IF conn.status = "ACTIVE"
     THEN Goto(r, [req[r] EXCEPT !.pc = "refresh", !.token = conn.token])
     ELSE To(r, "fail")
  /\ UNCHANGED <<open, newest, conn, runs, staged, counts>>

\* Xero takes the newest token and issues the next.
Refresh(r) ==
  /\ At(r, "refresh")
  /\ IF req[r].token = newest
     THEN newest' = newest + 1 /\ Goto(r, [req[r] EXCEPT !.pc = "save", !.token = newest + 1])
     ELSE newest' = newest /\ To(r, "fail")
  /\ UNCHANGED <<open, conn, runs, staged, counts>>

\* Fault: the rotated token is not stored.
SaveNothing(r) ==
  /\ At(r, "save")
  /\ To(r, "page")
  /\ UNCHANGED <<open, newest, conn, runs, staged, counts>>

\* The update names the id; the status is left as it is.
SaveToken(r) ==
  /\ At(r, "save")
  /\ conn' = [conn EXCEPT !.token = req[r].token]
  /\ To(r, "page")
  /\ UNCHANGED <<open, newest, runs, staged, counts>>

\* The sets of k open invoices (or all, if fewer) that may come first by date.
Leading(k) ==
  {P \in SUBSET open :
     /\ Cardinality(P) = IF k =< Cardinality(open) THEN k ELSE Cardinality(open)
     /\ \A i \in P, j \in open \ P : DateOf[i] =< DateOf[j]}

\* What page n may hold: order is "Date ASC", so which invoices of one date the page
\* before held is open.
Pages(n) ==
  UNION {{Q \ P : Q \in {R \in Leading(n * PageSize) : P \subseteq R}} :
           P \in Leading((n - 1) * PageSize)}

Pushed(got, batch) == [i \in Invoices |-> IF i \in batch THEN got[i] + 1 ELSE got[i]]

\* Fault: the loop over the pages has no cap.
FetchPageOn(r) ==
  LET q == req[r] IN
  /\ At(r, "page")
  /\ \E batch \in Pages(q.page) :
       Goto(r, [q EXCEPT !.got = Pushed(@, batch), !.page = @ + 1,
                 !.pc = IF Cardinality(batch) < PageSize THEN "stage" ELSE "page"])
  /\ UNCHANGED <<open, newest, conn, runs, staged, counts>>

\* fetchOpenReceivableInvoices ends at a short page, or after MAX_INVOICE_PAGES
\* with what it has.
FetchPage(r) ==
  LET q == req[r] IN
  /\ At(r, "page")
  /\ \/ q.page > MaxPages /\ To(r, "stage")
     \/ /\ q.page =< MaxPages
        /\ \E batch \in Pages(q.page) :
             Goto(r, [q EXCEPT !.got = Pushed(@, batch), !.page = @ + 1,
                       !.pc = IF Cardinality(batch) < PageSize THEN "stage" ELSE "page"])
  /\ UNCHANGED <<open, newest, conn, runs, staged, counts>>

\* Fault: the page that was refused is not asked for again.
RateLimitedSkips(r) ==
  /\ At(r, "page") /\ req[r].page =< MaxPages
  /\ IF req[r].limited THEN To(r, "fail")
     ELSE Goto(r, [req[r] EXCEPT !.limited = TRUE, !.page = @ + 1])
  /\ UNCHANGED <<open, newest, conn, runs, staged, counts>>

\* The first 429 of a pull is waited for and the page asked for again; a second
\* one ends it.
RateLimited(r) ==
  /\ At(r, "page") /\ req[r].page =< MaxPages
  /\ IF req[r].limited THEN To(r, "fail")
     ELSE Goto(r, [req[r] EXCEPT !.limited = TRUE])
  /\ UNCHANGED <<open, newest, conn, runs, staged, counts>>

\* normalizeXeroInvoicesToParseResult: a row of the snapshot for every time an
\* authorised invoice was pushed.
Normalized(got) ==
  [x \in UNION {{i} \X (1 .. got[i]) : i \in Invoices \ Draft} |->
     IF x[1] \in Incomplete THEN "PARSE_ERROR" ELSE "OK"]

\* createSnapshotFromXeroPull: the insert, or the duplicate found by the look-up
\* or by the unique index.  The hash is of the invoices sorted by InvoiceID.
Stage(r) ==
  LET q == req[r] IN
  /\ At(r, "stage")
  /\ IF q.got \in staged
     THEN To(r, "fail") /\ UNCHANGED <<staged, runs>>
     ELSE /\ staged' = staged \cup {q.got}
          /\ runs' = [runs EXCEPT ![q.run].made = {q.got}]
          /\ To(r, "succeed")
  /\ UNCHANGED <<open, newest, conn, counts>>

\* Fault: the error path marks the run like the other.
FinishAlways(r) ==
  /\ req[r].pc \in {"succeed", "fail"}
  /\ runs' = [runs EXCEPT ![req[r].run].status = "SUCCEEDED"]
  /\ Goto(r, Idle)
  /\ UNCHANGED <<open, newest, conn, staged, counts>>

Finish(r) ==
  /\ req[r].pc \in {"succeed", "fail"}
  /\ runs' = [runs EXCEPT ![req[r].run].status =
                IF At(r, "succeed") THEN "SUCCEEDED" ELSE "FAILED"]
  /\ Goto(r, Idle)
  /\ UNCHANGED <<open, newest, conn, staged, counts>>

\* The database fails a step of the try block, and the run is marked FAILED.
Fault(r) ==
  /\ req[r].pc \in {"token", "save", "stage", "succeed"} /\ faults < MaxFaults
  /\ faults' = faults + 1
  /\ To(r, "fail")
  /\ UNCHANGED <<open, newest, conn, runs, staged, changes, renewed>>

\* The process dies: the run stays RUNNING.
Die(r) ==
  /\ ~At(r, "idle") /\ faults < MaxFaults
  /\ faults' = faults + 1
  /\ Goto(r, Idle)
  /\ UNCHANGED <<open, newest, conn, runs, staged, changes, renewed>>

-----------------------------------------------------------------------------

\* completeXeroConnection: a new grant; the row of the tenant is made or renewed.
Connect ==
  /\ renewed < MaxChanges
  /\ renewed' = renewed + 1
  /\ newest' = newest + 1
  /\ conn' = [status |-> "ACTIVE", token |-> newest + 1]
  /\ UNCHANGED <<open, runs, staged, faults, changes, req>>

Disconnect ==
  /\ conn' = [conn EXCEPT !.status = "DISCONNECTED"]
  /\ UNCHANGED <<open, newest, runs, staged, counts, req>>

\* An invoice is issued or paid in Xero.
XeroChanges ==
  /\ changes < MaxChanges
  /\ changes' = changes + 1
  /\ \E i \in Invoices : open' = IF i \in open THEN open \ {i} ELSE open \cup {i}
  /\ req' = [r \in Reqs |-> IF req[r].pc \in {"page", "stage"} /\ req[r].page > 1
                            THEN [req[r] EXCEPT !.moved = TRUE] ELSE req[r]]
  /\ UNCHANGED <<newest, conn, runs, staged, faults, renewed>>

Step(r) ==
  \/ PullBegin(r) \/ ReadToken(r) \/ Refresh(r) \/ SaveToken(r)
  \/ FetchPage(r) \/ RateLimited(r) \/ Stage(r) \/ Finish(r) \/ Fault(r) \/ Die(r)

Next == (\E r \in Reqs : Step(r)) \/ Connect \/ Disconnect \/ XeroChanges

Spec == Init /\ [][Next]_vars

-----------------------------------------------------------------------------

\* The end of no page falls between invoices of one date: in whatever order Xero
\* sorts, the first n pages are the same.
NoDateSplit ==
  \A n \in 1 .. MaxPages : \A P, Q \in Leading(n * PageSize) : P = Q

\* A pull that Xero does not change under, of no more than MAX_INVOICE_PAGES and with
\* no date split between pages, stages one row for every authorised open invoice, and
\* no other, however it was paged, refused or repeated: publish will settle whatever
\* is missing (fetchOpenReceivableInvoices, normalizeXeroInvoicesToParseResult).
StagesWhole ==
  \A r \in Reqs : At(r, "stage") /\ ~req[r].moved
                    /\ Cardinality(open) =< MaxPages * PageSize /\ NoDateSplit =>
      DOMAIN Normalized(req[r].got) = (open \ Draft) \X {1}

\* "each attempt (success or failure) is auditable" (pullXeroSnapshot): a run is
\* SUCCEEDED only with its snapshot on file, and, as long as neither the process
\* nor the database fails, FAILED only without one and RUNNING only while it runs.
RunsTell ==
  \A n \in RunIds :
    /\ runs[n].status = "SUCCEEDED" => runs[n].made # {} /\ runs[n].made \subseteq staged
    /\ faults = 0 /\ runs[n].status = "FAILED" => runs[n].made = {}
    /\ faults = 0 /\ runs[n].status = "RUNNING" => \E r \in Reqs : req[r] # Idle /\ req[r].run = n

\* "persisting the new one keeps the connection ACTIVE" (refreshConnectionAccess):
\* overlapping pulls leave the good token on file, unless one dies on the way or
\* the connection is made anew beside it.
TokenKept ==
  faults = 0 /\ renewed = 0 /\ (\A r \in Reqs : ~At(r, "save")) => conn.token = newest

=============================================================================
