--------------------------- MODULE DigestDelivery ---------------------------
(***************************************************************************)
(* The daily digest and the email outbox.  A cron job or an admin triggers *)
(* the digest of a date, an admin approves or skips it, approval enqueues  *)
(* one email, and the outbox processor sends what is queued.               *)
(*                                                                         *)
(* Each call is a request that reads, decides and writes in steps of its   *)
(* own.  The processor sends over the network between reading a row and    *)
(* recording what became of it, and it may be killed anywhere (a Vercel    *)
(* function ends after maxDuration).                                       *)
(***************************************************************************)
EXTENDS Naturals, FiniteSets

CONSTANTS
  Reqs,        \* slots for requests in flight
  Dates,       \* digest dates; uq_digest_events_digest_date allows one event each
  Mails,       \* ids of email_outbox rows of rule DAILY_DIGEST
  MaxDeaths    \* bound on requests killed on the way

VARIABLES
  digest,    \* the state of the event of each date
  mail,      \* the rows of email_outbox
  active,    \* email_rules.is_active of DAILY_DIGEST
  deaths,    \* requests killed so far
  req        \* what each request in flight has read and will do

vars == <<digest, mail, active, deaths, req>>

-----------------------------------------------------------------------------

\* SENT and FAILED are states of the schema that no code writes.
State == {"NONE", "DRAFT", "PREVIEWED", "APPROVED", "SKIPPED"}

\* sends counts the deliveries of a row, byHand says that an admin marked it.
Mail == [date: Dates, status: {"QUEUED", "SENT", "FAILED", "CANCELLED"},
         sends: Nat, byHand: BOOLEAN]
NoMail == [status |-> "NONE"]

Idle == [pc |-> "idle"]
Request ==
  {Idle} \cup [pc: {"create", "build", "preview", "approve"}, date: Dates]
    \cup [pc: {"skip"}, date: Dates, seen: State]
    \cup [pc: {"process"}, todo: SUBSET Mails]
    \cup [pc: {"record"}, todo: SUBSET Mails, mail: Mails, as: {"SENT", "FAILED"}]
    \cup [pc: {"mark"}, mail: Mails]

At(r, pc) == req[r].pc = pc
Goto(r, q) == req' = [req EXCEPT ![r] = q]
End(r) == Goto(r, Idle)
Reads == UNCHANGED <<digest, mail, active, deaths>>
Writes(d, m) == digest' = d /\ mail' = m /\ UNCHANGED <<active, deaths>>

TypeOK ==
  /\ digest \in [Dates -> State]
  /\ mail \in [Mails -> Mail \cup {NoMail}]
  /\ active \in BOOLEAN
  /\ deaths \in 0 .. MaxDeaths
  /\ req \in [Reqs -> Request]

Init ==
  /\ digest = [d \in Dates |-> "NONE"]
  /\ mail = [m \in Mails |-> NoMail]
  /\ active \in BOOLEAN
  /\ deaths = 0
  /\ req = [r \in Reqs |-> Idle]

-----------------------------------------------------------------------------
(* POST /api/admin/digest/trigger, by the cron job or an admin *)

\* The states from which the route builds again.
Rebuildable == {"DRAFT", "PREVIEWED"}

\* triggerDigestForDate returns the event there is; one that is decided is left.
Trigger(r, d) ==
  /\ At(r, "idle")
  /\ IF digest[d] = "NONE" THEN Goto(r, [pc |-> "create", date |-> d])
     ELSE digest[d] \in Rebuildable /\ Goto(r, [pc |-> "build", date |-> d])
  /\ Reads

\* The insert of the DRAFT, or the violation of the unique date.
CreateDraft(r) ==
  LET d == req[r].date IN
  /\ At(r, "create")
  /\ IF digest[d] = "NONE"
     THEN Writes([digest EXCEPT ![d] = "DRAFT"], mail) /\ Goto(r, [pc |-> "build", date |-> d])
     ELSE Reads /\ End(r)

\* buildDigestPayload reads the state again, and then much else,
BuildBegin(r) ==
  LET d == req[r].date IN
  /\ At(r, "build")
  /\ IF digest[d] \in Rebuildable THEN Goto(r, [pc |-> "preview", date |-> d]) ELSE End(r)
  /\ Reads

\* before it writes the payload and PREVIEWED, whatever the state has become.
BuildCommit(r) ==
  /\ At(r, "preview")
  /\ Writes([digest EXCEPT ![req[r].date] = "PREVIEWED"], mail)
  /\ End(r)

-----------------------------------------------------------------------------
(* Approve and skip *)

\* Fault: an approved digest may be approved again.
ApproveBeginAgain(r, d) ==
  /\ At(r, "idle") /\ digest[d] \in {"PREVIEWED", "APPROVED"}
  /\ Goto(r, [pc |-> "approve", date |-> d])
  /\ Reads

ApproveBegin(r, d) ==
  /\ At(r, "idle") /\ digest[d] = "PREVIEWED"
  /\ Goto(r, [pc |-> "approve", date |-> d])
  /\ Reads

\* The rule is read in the transaction: an email is enqueued only if it is active.
ApproveCommit(r) ==
  LET d == req[r].date IN
  /\ At(r, "approve")
  /\ IF active
     THEN \E m \in Mails : /\ mail[m] = NoMail
                           /\ Writes([digest EXCEPT ![d] = "APPROVED"],
                                     [mail EXCEPT ![m] = [date |-> d, status |-> "QUEUED",
                                                      sends |-> 0, byHand |-> FALSE]])
     ELSE Writes([digest EXCEPT ![d] = "APPROVED"], mail)
  /\ End(r)

SkipBegin(r, d) ==
  /\ At(r, "idle") /\ digest[d] \notin {"NONE", "SKIPPED"}
  /\ Goto(r, [pc |-> "skip", date |-> d, seen |-> digest[d]])
  /\ Reads

\* Fault: nothing is cancelled.
CancelledNone == mail

\* Every queued digest email, of whatever date.
Cancelled ==
  [m \in Mails |-> IF mail[m].status = "QUEUED" THEN [mail[m] EXCEPT !.status = "CANCELLED"]
                   ELSE mail[m]]

\* Emails are cancelled if the digest was read APPROVED.
SkipCommit(r) ==
  LET q == req[r] IN
  /\ At(r, "skip")
  /\ Writes([digest EXCEPT ![q.date] = "SKIPPED"],
            IF q.seen = "APPROVED" THEN Cancelled ELSE mail)
  /\ End(r)

-----------------------------------------------------------------------------
(* POST /api/admin/email-outbox/process *)

\* The oldest QUEUED rows; a batch of 20 holds them all.  Nothing locks them.
ProcessBegin(r) ==
  LET rows == {m \in Mails : mail[m].status = "QUEUED"} IN
  /\ At(r, "idle") /\ rows # {}
  /\ Goto(r, [pc |-> "process", todo |-> rows])
  /\ Reads

\* The row is sent; or the provider refuses it; or the answer is lost after the
\* email was accepted.  Without a recipient or an API key nothing is sent either.
Send(r, m) ==
  LET q == req[r] IN
  /\ At(r, "process") /\ m \in q.todo
  /\ \E delivered \in BOOLEAN, as \in {"SENT", "FAILED"} :
       /\ as = "SENT" => delivered
       /\ Goto(r, [pc |-> "record", todo |-> q.todo \ {m}, mail |-> m, as |-> as])
       /\ Writes(digest, IF delivered THEN [mail EXCEPT ![m].sends = @ + 1] ELSE mail)

\* Fault: the answer of the provider is not looked at.
RecordUnread(r) ==
  LET q == req[r] IN
  /\ At(r, "record")
  /\ Writes(digest, [mail EXCEPT ![q.mail].status = "SENT"])
  /\ IF q.todo = {} THEN End(r) ELSE Goto(r, [pc |-> "process", todo |-> q.todo])

\* The update names the row and not its status.
Record(r) ==
  LET q == req[r] IN
  /\ At(r, "record")
  /\ Writes(digest, [mail EXCEPT ![q.mail].status = q.as])
  /\ IF q.todo = {} THEN End(r) ELSE Goto(r, [pc |-> "process", todo |-> q.todo])

-----------------------------------------------------------------------------
(* markEmailOutboxSent and the email rule *)

MarkBegin(r, m) ==
  /\ At(r, "idle") /\ mail[m].status \in {"QUEUED", "FAILED", "CANCELLED"}
  /\ Goto(r, [pc |-> "mark", mail |-> m])
  /\ Reads

MarkCommit(r) ==
  LET m == req[r].mail IN
  /\ At(r, "mark")
  /\ Writes(digest, [mail EXCEPT ![m].status = "SENT", ![m].byHand = TRUE])
  /\ End(r)

SetRule(r) ==
  /\ At(r, "idle")
  /\ active' = ~active
  /\ UNCHANGED <<digest, mail, deaths, req>>

\* A request is killed, or the database drops it.
Die(r) ==
  /\ ~At(r, "idle") /\ deaths < MaxDeaths
  /\ deaths' = deaths + 1
  /\ End(r)
  /\ UNCHANGED <<digest, mail, active>>

Next ==
  \E r \in Reqs :
    \/ \E d \in Dates : Trigger(r, d) \/ ApproveBegin(r, d) \/ SkipBegin(r, d)
    \/ CreateDraft(r) \/ BuildBegin(r) \/ BuildCommit(r)
    \/ ApproveCommit(r) \/ SkipCommit(r)
    \/ ProcessBegin(r) \/ Record(r)
    \/ \E m \in Mails : Send(r, m) \/ MarkBegin(r, m)
    \/ MarkCommit(r) \/ SetRule(r) \/ Die(r)

Spec == Init /\ [][Next]_vars

\* One request at a time: what is under way takes the step, and is not killed.
AloneNext == Next /\ deaths' = 0 /\ \A r \in Reqs : ~At(r, "idle") => req'[r] # req[r]
AloneSpec == Init /\ [][AloneNext]_vars

-----------------------------------------------------------------------------
(* What holds however requests overlap and die *)

Rows(d) == {m \in Mails : mail[m] # NoMail /\ mail[m].date = d}

\* An outbox row is SENT only if it was delivered or an admin marked it so, and
\* the digest of a row has got past its draft.
SentIsTrue ==
  \A m \in Mails : mail[m] # NoMail =>
    /\ mail[m].status = "SENT" => mail[m].sends > 0 \/ mail[m].byHand
    /\ digest[mail[m].date] \notin {"NONE", "DRAFT"}

-----------------------------------------------------------------------------
(* What holds only while requests neither overlap nor die *)

\* "A double-fire on the same day must be a no-op" (the trigger route): a step
\* does not make a preview of a decided digest.
KeepsDecision ==
  \A d \in Dates : digest[d] \in {"APPROVED", "SKIPPED"}
    => digest'[d] \in {"APPROVED", "SKIPPED"}

\* "So retries cannot send duplicate CFO emails" (the runbook) and "re-running is
\* safe" (the processor): the digest of a date is delivered at most once.
SentOnce ==
  \A d \in Dates :
    /\ \A m \in Rows(d) : mail[m].sends =< 1
    /\ \A m, n \in Rows(d) : mail[m].sends > 0 /\ mail[n].sends > 0 => m = n

\* "So the email doesn't go out despite the admin skipping the digest"
\* (skipDigest): once a digest is skipped a step sends none of its emails.
SendsNoSkipped ==
  \A d \in Dates : digest[d] = "SKIPPED" =>
    \A m \in Rows(d) : mail'[m].sends = mail[m].sends

\* "Cancel the pending outbox row" (skipDigest): an email is cancelled only when
\* its own digest is skipped.
CancelledIsSkipped ==
  \A m \in Mails : mail[m].status = "CANCELLED" => digest[mail[m].date] = "SKIPPED"

=============================================================================
