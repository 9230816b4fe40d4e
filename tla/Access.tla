------------------------------- MODULE Access -------------------------------
(***************************************************************************)
(* One person's browser and the schedule before the application: which     *)
(* page opens, which controls it shows, and what becomes of a request that *)
(* a control, a link or the schedule sends, from the proxy to the handler. *)
(* The role is read anew by every request and only once by a page, so a    *)
(* page left open shows what the person was allowed when it opened.        *)
(***************************************************************************)
EXTENDS Routes

VARIABLES
  role,     \* the person's row in users, or Nobody
  active,   \* is_active of it
  cookie,   \* the browser holds a session cookie of the account
  page,     \* the open page, or NoPage
  shown,    \* the requests that its controls send
  fresh,    \* nothing about the person changed since it opened
  last      \* the last request and its answer

vars == <<role, active, cookie, page, shown, fresh, last>>

-----------------------------------------------------------------------------
(* Controls: the request that each component sends. *)

To(route, method) == [path |-> route.path, method |-> method]

UserActions == {To(r, "POST") : r \in {UserApprove, UserDeactivate, UserReactivate}}
ResetForm == {To(DataReset, "POST")}
RuleToggle == {To(EmailRule, "PATCH")}
BucketsManager == {To(ExceptionBuckets, "POST"), To(ExceptionBucket, "PATCH")}
RateForm == {To(FxRates, "POST")}
RateImportForm == {To(FxImport, "POST")}
DigestButtons == {To(r, "POST") : r \in {DigestTrigger, DigestApprove, DigestSkip}}
LobActions == {To(Lobs, "POST"), To(Lob, "PATCH")}
ConnectXero == {To(XeroConnect, "GET")}
DisconnectXero == {To(XeroDisconnect, "POST")}
DefaultsCard == {To(EntityDefaults, "PATCH")}
PeriodTable == {To(CreditPeriodBulk, "POST")}
AliasesManager == {To(Alias, "PATCH"), To(Alias, "DELETE")}
FollowUpForm == {To(InvoiceFollowUps, "POST"), To(PartyFollowUps, "POST")}
PeriodPanel == {To(CreditPeriod, "POST")}
ExportRegister == {To(AgeingReport, "GET")}
ViewSwitcher == {To(Views, "GET")}
ViewComposer == {To(Views, "POST")}
ChangesPanel == {To(Acknowledge, "POST")}
Kanban == {To(Dispute, "PATCH")}
ReviewActions == {To(Review, "POST")}
UploadForm == {To(Upload, "POST")}
PullCard == {To(XeroPull, "POST")}
RowActions == {To(StagingRow, "PATCH")}
PublishPanel == {To(WarningsAck, "PATCH"), To(StagingRow, "PATCH"), To(Publish, "POST")}
PartyPanel == {To(BulkPartyMap, "POST")}
MappingPanel == {To(ColumnMapping, "PUT")}
Exports == {To(r, "GET") : r \in {AgeingReport, PartiesReport, UploadsReport, ExceptionsReport}}
Sidebar == {To(Me, "GET"), To(Views, "GET")}
StreakBadge == {To(Streak, "GET")}
NudgeStack == {To(Nudges, "GET")}

LoginForm == {To(LoginPassword, "POST")}
OtpForm == {To(OtpRequest, "POST")}
OtpVerifyForm == {To(OtpVerify, "POST"), To(OtpRequest, "POST")}
RegisterForm == {To(Register, "POST")}
ResendForm == {To(VerifyResend, "POST")}
ForgotForm == {To(ForgotPassword, "POST")}
NewPasswordForm == {To(ResetPassword, "POST")}
MailedLinks == {To(OtpConfirm, "GET"), To(VerifyConfirm, "GET")}

-----------------------------------------------------------------------------
(* Pages: who may open one, and what it shows to a role. *)

Page(path, roles, controls(_)) ==
  [path |-> path, roles |-> roles, controls |-> [r \in roles |-> controls(r)]]

AdminPage == Page("/admin", Admins, LAMBDA r : UserActions \cup ResetForm)
AdminBuckets == Page("/admin/exception-buckets", Admins, LAMBDA r : BucketsManager)
AdminRules == Page("/admin/email-rules", Admins, LAMBDA r : RuleToggle)
AdminRates == Page("/admin/fx-rates", Admins, LAMBDA r : RateForm \cup RateImportForm)
AdminDigest == Page("/admin/digest", Admins, LAMBDA r : DigestButtons)
AdminXero == Page("/admin/xero", Admins, LAMBDA r : ConnectXero \cup DisconnectXero)
AdminLobs == Page("/admin/lobs", Reading, LAMBDA r : IF r = "ADMIN" THEN LobActions ELSE {})
PeriodsPage == Page("/config/credit-periods", Reading,
  LAMBDA r : IF r \in Working THEN DefaultsCard \cup PeriodTable ELSE {})
\* Fault: the manager is shown to whoever may add an alias.
AliasesPageOfAnalysts == Page("/config/aliases", Reading,
  LAMBDA r : IF r \in Working THEN AliasesManager ELSE {})

AliasesPage == Page("/config/aliases", Reading,
  LAMBDA r : IF r = "ADMIN" THEN AliasesManager ELSE {})
FollowUpsPage == Page("/follow-ups", Reading,
  LAMBDA r : IF r \in Working THEN FollowUpForm ELSE {})
PartyPage == Page("/party/id", Reading,
  LAMBDA r : IF r \in Working THEN PeriodPanel ELSE {})
InvoicesPage == Page("/invoices", Reading,
  LAMBDA r : ExportRegister \cup ViewSwitcher \cup ViewComposer \cup ChangesPanel)
DisputesPage == Page("/dispute-cases", Reading, LAMBDA r : Kanban)
SnapshotPage == Page("/snapshots/id", Reading,
  LAMBDA r : IF r \in {"REVIEWER", "ADMIN"} THEN ReviewActions ELSE {})
StagingPage == Page("/snapshots/id/staging", Working,
  LAMBDA r : RowActions \cup PublishPanel \cup PartyPanel \cup MappingPanel)
UploadPage == Page("/upload", Working, LAMBDA r : UploadForm \cup PullCard)
ReportsPage == Page("/reports", Reading, LAMBDA r : Exports)
FocusPage == Page("/focus", Reading, LAMBDA r : StreakBadge \cup NudgeStack)

\* The pages that only show and link.
ReadingPage(path) == Page(path, Reading, LAMBDA r : {})
ReadingPages ==
  {ReadingPage(p) : p \in {"/", "/dashboard", "/parties", "/tasks", "/exceptions", "/snapshots",
     "/promises-to-pay", "/reconciliation", "/workflows", "/config", "/invoice/id"}}

\* The pages under /auth and the mailed links, which need no session.
AuthPage(path, controls) == Page(path, Everyone, LAMBDA r : controls)
AuthPages ==
  {AuthPage("/auth/login", LoginForm), AuthPage("/auth/login/otp", OtpForm),
   AuthPage("/auth/login/otp/verify", OtpVerifyForm), AuthPage("/auth/register", RegisterForm),
   AuthPage("/auth/verify-email", ResendForm), AuthPage("/auth/forgot-password", ForgotForm),
   AuthPage("/auth/reset-password", NewPasswordForm), AuthPage("mail", MailedLinks),
   AuthPage("/auth/pending", {})}

AppPages ==
  {AdminPage, AdminBuckets, AdminRules, AdminRates, AdminDigest, AdminXero, AdminLobs,
   PeriodsPage, AliasesPage, FollowUpsPage, PartyPage, InvoicesPage, DisputesPage,
   SnapshotPage, StagingPage, UploadPage, ReportsPage, FocusPage} \cup ReadingPages

Pages == AppPages \cup AuthPages
NoPage == "none"
LoginPage == "/auth/login"
PendingPage == "/auth/pending"

-----------------------------------------------------------------------------

NoRequest == [by |-> "nobody"]
Senders == {"control", "stale", "link", "schedule"}
Answers == {"redirected", "unsupported", "refused", "done"}

TypeOK ==
  /\ role \in Everyone /\ active \in BOOLEAN /\ cookie \in BOOLEAN
  /\ page \in {p.path : p \in Pages} \cup {NoPage}
  /\ shown \subseteq {To(r, m) : r \in Routes, m \in {"GET", "POST", "PATCH", "PUT", "DELETE"}}
  /\ fresh \in BOOLEAN
  /\ last = NoRequest \/ (last.by \in Senders /\ last.answer \in Answers /\ last.role \in Everyone)

Init ==
  /\ role = Nobody /\ active = TRUE /\ cookie = FALSE
  /\ page = NoPage /\ shown = {} /\ fresh = TRUE /\ last = NoRequest

\* getCurrentUser: the cookie's account, as it stands now.
CurrentRole == IF cookie /\ active THEN role ELSE Nobody

-----------------------------------------------------------------------------
(* The person *)

\* /auth/google/callback, which the proxy does not match.  A new account is PENDING.
GoogleSignIn ==
  /\ cookie' = TRUE /\ role' = IF role = Nobody THEN "PENDING" ELSE role
  /\ page' = NoPage /\ shown' = {} /\ fresh' = TRUE /\ last' = NoRequest
  /\ UNCHANGED active

\* approveUser, deactivateUser, reactivateUser, while the page stays open.
Administered ==
  /\ role # Nobody /\ fresh' = FALSE
  /\ \/ active /\ role' \in Reading /\ role' # role /\ UNCHANGED active
     \/ active' = ~active /\ UNCHANGED role
  /\ last' = NoRequest
  /\ UNCHANGED <<cookie, page, shown>>

\* Twelve hours, or /auth/logout in another tab.
SessionEnds ==
  /\ cookie /\ cookie' = FALSE /\ fresh' = FALSE
  /\ last' = NoRequest
  /\ UNCHANGED <<role, active, page, shown>>

\* The proxy asks some of the paths for a cookie, requirePageRole all: without a session
\* the login page, with another role the one that says to wait.
Open(p) ==
  LET to == IF CurrentRole \in p.roles THEN p.path
            ELSE IF CurrentRole = Nobody THEN LoginPage ELSE PendingPage
      landed == CHOOSE q \in Pages : q.path = to IN
  /\ page' = to
  /\ shown' = landed.controls[CurrentRole] \cup (IF p.path = to /\ p \in AppPages THEN Sidebar ELSE {})
  /\ fresh' = TRUE /\ last' = NoRequest
  /\ UNCHANGED <<role, active, cookie>>

-----------------------------------------------------------------------------
(* A request *)

\* What proxy asks of a path under /api, then what Next.js, requireRole and the service do.
Answer(request, secret) ==
  LET on == (CHOOSE r \in Routes : r.path = request.path).on IN
  IF ~cookie /\ ~secret THEN "redirected"
  ELSE IF request.method \notin DOMAIN on THEN "unsupported"
  ELSE IF (secret /\ on[request.method].secret) \/ CurrentRole \in on[request.method].may THEN "done"
  ELSE "refused"

\* A handler that signs in sets the cookie.
SignsIn == {To(LoginPassword, "POST"), To(OtpVerify, "POST"), To(OtpConfirm, "GET"), To(VerifyConfirm, "GET")}

Send(by, request, secret) ==
  LET answer == Answer(request, secret) IN
  /\ last' = [by |-> by, to |-> request, role |-> CurrentRole, answer |-> answer]
  /\ cookie' = (cookie \/ (role # Nobody /\ answer = "done" /\ request \in SignsIn))
  /\ UNCHANGED <<role, active, fresh>>

\* A control of the open page.
Press(request) ==
  /\ request \in shown /\ Send(IF fresh THEN "control" ELSE "stale", request, FALSE)
  /\ UNCHANGED <<page, shown>>

\* A request of no page: a script, a probe, an address typed in.
Call(r) ==
  /\ \E m \in DOMAIN r.on : Send("link", To(r, m), FALSE)
  /\ page' = NoPage /\ shown' = {}

\* vercel.json: a GET with the secret.
Schedule == {DigestTrigger, EmailProcess, StreakTick, FxBackfill}
Scheduled(r) == Send("schedule", To(r, "GET"), TRUE) /\ UNCHANGED <<page, shown>>

Next ==
  \/ GoogleSignIn \/ Administered \/ SessionEnds
  \/ \E p \in Pages : Open(p)
  \/ \E request \in shown : Press(request)
  \/ \E r \in Routes : Call(r)
  \/ \E r \in Schedule : Scheduled(r)

Spec == Init /\ [][Next]_vars

-----------------------------------------------------------------------------

Sent == last # NoRequest
HandlerOf(request) ==
  LET on == (CHOOSE r \in Routes : r.path = request.path).on
  IN IF request.method \in DOMAIN on THEN on[request.method] ELSE Immutable

\* A person who may work is never offered what is then refused: while nothing about
\* the account changed, every control of every page reaches a handler that lets the
\* role in.  Page and handler each name the roles by themselves.
OfferedWorks ==
  Sent /\ last.by = "control" /\ last.role \in Working => last.answer = "done"

\* "enforce read-only access for CFO and REVIEWER users.  REVIEWER may only mutate
\* snapshot review state" (assertReadOnlyForCfo.ts:8), whatever page is still open from
\* when the person was an analyst; a pending account and a visitor change nothing
\* but their own sign-in.
ReadersChangeNothing ==
  Sent /\ last.answer = "done" /\ last.by # "schedule" /\ HandlerOf(last.to).changes
  => \/ last.role \in Working
     \/ last.role = "REVIEWER" /\ last.to = To(Review, "POST")
     \/ last.to.path \in {r.path : r \in SigningIn}

\* "`/api/health` returns 200 in the target deployment" (docs/runbook.md:55): a handler
\* that asks for no role answers a request without a session.
PublicAnswered ==
  Sent /\ Nobody \in HandlerOf(last.to).may => last.answer = "done"

=============================================================================
