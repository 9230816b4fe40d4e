------------------------------- MODULE Routes -------------------------------
(***************************************************************************)
(* The HTTP handlers under /api, one definition per route file: for each   *)
(* method it exports, the roles whose request is carried out by the        *)
(* handler and the service it calls, whether the schedule's secret is      *)
(* taken instead of a role, and whether the request changes anything but   *)
(* the caller's own streak.                                                *)
(* What a handler then does is the business of the other modules; the      *)
(* entity scope of an analyst, the validation of a body and the rate limit *)
(* are left out.  Segments of a path that hold an id are written "id".     *)
(***************************************************************************)

Working == {"ANALYST", "ADMIN"}
Readers == {"CFO", "REVIEWER"}
Reading == Working \cup Readers
Admins == {"ADMIN"}
Nobody == "NONE"                                    \* a visitor without an account
Roles == Reading \cup {"PENDING"}
Everyone == Roles \cup {Nobody}

Handler(roles, changes) == [may |-> roles, secret |-> FALSE, changes |-> changes]
Reads(roles) == Handler(roles, FALSE)
Writes(roles) == Handler(roles, TRUE)
Immutable == Reads({})                              \* exported, and answers 405

\* The schedule's bearer secret instead of a session.
OrSecret(h) == [h EXCEPT !.secret = TRUE]

\* Fault: the guard asks for one of the two roles only.
AssertReadOnlyForCfoAlone(h) == [h EXCEPT !.may = @ \ {"CFO"}]

\* The guard of services whose routes let every reading role in.
AssertReadOnlyForCfo(h) == [h EXCEPT !.may = @ \ Readers]

Route(path, on) == [path |-> path, on |-> on]

-----------------------------------------------------------------------------
(* Administration *)

AuditLog == Route("admin/audit-log", [GET |-> Reads(Admins)])
DataReset == Route("admin/data-reset", [GET |-> Reads(Admins), POST |-> Writes(Admins)])
DigestApprove == Route("admin/digest/id/approve", [POST |-> Writes(Admins)])
DigestSkip == Route("admin/digest/id/skip", [POST |-> Writes(Admins)])
DigestTrigger == Route("admin/digest/trigger", [POST |-> OrSecret(Writes(Admins))])
DigestEvents == Route("digest-events", [GET |-> Reads(Admins)])
DigestEvent == Route("digest-events/id", [GET |-> Reads(Admins)])
EmailOutbox == Route("admin/email-outbox", [GET |-> Reads(Admins)])
EmailMarkSent == Route("admin/email-outbox/id/mark-sent", [POST |-> Writes(Admins)])
EmailProcess == Route("admin/email-outbox/process", [POST |-> OrSecret(Writes(Admins))])
EmailRules == Route("admin/email-rules", [GET |-> Reads(Admins)])
EmailRule == Route("admin/email-rules/id", [GET |-> Reads(Admins), PATCH |-> Writes(Admins)])
ExceptionBuckets ==
  Route("admin/exception-buckets", [GET |-> Reads(Reading), POST |-> Writes(Admins)])
ExceptionBucket == Route("admin/exception-buckets/id", [PATCH |-> Writes(Admins)])
Lobs == Route("admin/lobs", [GET |-> Reads(Reading), POST |-> Writes(Admins)])
Lob == Route("admin/lobs/id", [PATCH |-> Writes(Admins)])
AllUsers == Route("admin/users", [GET |-> Reads(Admins)])
UserApprove == Route("admin/users/id/approve", [POST |-> Writes(Admins)])
UserDeactivate == Route("admin/users/id/deactivate", [POST |-> Writes(Admins)])
UserReactivate == Route("admin/users/id/reactivate", [POST |-> Writes(Admins)])
XeroCallback == Route("admin/xero/callback", [GET |-> Writes(Admins)])
XeroConnect == Route("admin/xero/connect", [GET |-> Reads(Admins)])
XeroDisconnect == Route("admin/xero/disconnect", [POST |-> Writes(Admins)])
FxBackfill == Route("cron/fx-backfill",
  [GET |-> OrSecret(Writes(Admins)), POST |-> OrSecret(Writes(Admins))])
StreakTick == Route("cron/streak-tick", [POST |-> OrSecret(Writes(Admins))])

Administration ==
  {AuditLog, DataReset, DigestApprove, DigestSkip, DigestTrigger, DigestEvents, DigestEvent,
   EmailOutbox, EmailMarkSent, EmailProcess, EmailRules, EmailRule, ExceptionBuckets,
   ExceptionBucket, Lobs, Lob, AllUsers, UserApprove, UserDeactivate, UserReactivate,
   XeroCallback, XeroConnect, XeroDisconnect, FxBackfill, StreakTick}

-----------------------------------------------------------------------------
(* Configuration *)

Aliases == Route("config/aliases", [GET |-> Reads(Reading), POST |-> Writes(Working)])
Alias == Route("config/aliases/id", [PATCH |-> Writes(Admins), DELETE |-> Writes(Admins)])
CreditPeriod == Route("config/credit-period", [GET |-> Reads(Reading), POST |-> Writes(Working)])
CreditPeriodBulk == Route("config/credit-period/bulk", [POST |-> Writes(Working)])
CreditPeriodRow ==
  Route("config/credit-period/id", [PATCH |-> Writes(Admins), DELETE |-> Immutable])
EntityDefaults == Route("config/entity-defaults/id", [PATCH |-> Writes(Working)])
FxRates == Route("config/fx-rates", [GET |-> Reads(Reading), POST |-> Writes(Admins)])
FxRate == Route("config/fx-rates/id",
  [PATCH |-> Immutable, DELETE |-> Immutable, GET |-> Immutable])
FxImport == Route("config/fx-rates/import", [POST |-> Writes(Admins)])
ColumnMapping == Route("column-mappings", [GET |-> Reads(Reading), PUT |-> Writes(Working)])
Views == Route("views",
  [GET |-> Reads(Reading), POST |-> AssertReadOnlyForCfo(Writes(Reading))])
View == Route("views/id",
  [PATCH |-> AssertReadOnlyForCfo(Writes(Reading)), DELETE |-> AssertReadOnlyForCfo(Writes(Reading))])

Configuring ==
  {Aliases, Alias, CreditPeriod, CreditPeriodBulk, CreditPeriodRow, EntityDefaults, FxRates,
   FxRate, FxImport, ColumnMapping, Views, View}

-----------------------------------------------------------------------------
(* Snapshots *)

Snapshots == Route("snapshots", [GET |-> Reads(Reading)])
Snapshot == Route("snapshots/id", [GET |-> Reads(Reading)])
Upload == Route("snapshots/upload", [POST |-> Writes(Working)])
XeroPull == Route("xero/snapshots/pull", [POST |-> Writes(Working)])
Discard == Route("snapshots/id/discard", [POST |-> Writes(Working)])
Publish == Route("snapshots/id/publish", [POST |-> Writes(Working)])
Reconciliation ==
  Route("snapshots/id/reconciliation", [GET |-> Reads(Reading), POST |-> Writes(Admins)])
Review == Route("snapshots/id/review", [POST |-> Writes({"REVIEWER", "ADMIN"})])
Staging == Route("snapshots/id/staging", [GET |-> Reads(Working)])
StagingRow == Route("snapshots/id/staging/row", [PATCH |-> Writes(Working)])
AutoCanonicalize == Route("snapshots/id/staging/auto-canonicalize", [POST |-> Writes(Working)])
BulkPartyMap == Route("snapshots/id/staging/bulk-party-map", [POST |-> Writes(Working)])
WarningsAck == Route("snapshots/id/warnings/ack", [PATCH |-> Writes(Working)])

Importing ==
  {Snapshots, Snapshot, Upload, XeroPull, Discard, Publish, Reconciliation, Review, Staging,
   StagingRow, AutoCanonicalize, BulkPartyMap, WarningsAck}

-----------------------------------------------------------------------------
(* Receivables and the work on them *)

Tasks == Route("collection-tasks", [GET |-> Reads(Reading), POST |-> Writes(Working)])
Task == Route("collection-tasks/id", [GET |-> Reads(Reading), PATCH |-> Writes(Working)])
Disputes == Route("dispute-cases", [GET |-> Reads(Reading), POST |-> Writes(Working)])
Dispute == Route("dispute-cases/id", [GET |-> Reads(Reading), PATCH |-> Writes(Working)])
Promises == Route("promises-to-pay", [GET |-> Reads(Reading), POST |-> Writes(Working)])
Promise == Route("promises-to-pay/id", [GET |-> Reads(Reading), PATCH |-> Writes(Working)])
Exceptions == Route("exceptions", [GET |-> Reads(Reading)])
Exception == Route("exceptions/id", [PATCH |-> Writes(Working)])
InvoiceExceptions == Route("invoices/id/exceptions", [POST |-> Writes(Working)])
FollowUps == Route("follow-ups", [GET |-> Reads(Reading)])
InvoiceFollowUps == Route("invoices/id/follow-ups", [POST |-> Writes(Working)])
PartyFollowUps == Route("parties/id/follow-ups", [POST |-> Writes(Working)])
Invoices == Route("invoices", [GET |-> Reads(Reading)])
Invoice == Route("invoices/id", [GET |-> Reads(Reading)])
ChangesOf == Route("invoices/id/changes", [GET |-> Reads(Reading)])
Acknowledge == Route("invoice-changes/acknowledge", [POST |-> Writes(Working)])
AllParties == Route("parties", [GET |-> Reads(Reading)])
Party == Route("parties/id", [GET |-> Reads(Reading)])
Dashboard == Route("dashboard", [GET |-> Reads(Reading)])
AgeingReport == Route("reports/ageing", [GET |-> Reads(Reading)])
ExceptionsReport == Route("reports/exceptions", [GET |-> Reads(Reading)])
PartiesReport == Route("reports/parties", [GET |-> Reads(Reading)])
UploadsReport == Route("reports/uploads", [GET |-> Reads(Reading)])
Nudges == Route("engagement/nudges", [GET |-> Reads(Reading)])
Streak == Route("engagement/streak", [GET |-> Reads(Reading \ {"REVIEWER"})])

Collecting ==
  {Tasks, Task, Disputes, Dispute, Promises, Promise, Exceptions, Exception, InvoiceExceptions,
   FollowUps, InvoiceFollowUps, PartyFollowUps, Invoices, Invoice, ChangesOf, Acknowledge,
   AllParties, Party, Dashboard, AgeingReport, ExceptionsReport, PartiesReport, UploadsReport,
   Nudges, Streak}

-----------------------------------------------------------------------------
(* Open to everyone *)

ForgotPassword == Route("auth/forgot-password", [POST |-> Writes(Everyone)])
LoginPassword == Route("auth/login/password", [POST |-> Writes(Everyone)])
Me == Route("auth/me", [GET |-> Reads(Roles)])
OtpConfirm == Route("auth/otp/confirm", [GET |-> Writes(Everyone)])
OtpRequest == Route("auth/otp/request", [POST |-> Writes(Everyone)])
OtpVerify == Route("auth/otp/verify", [POST |-> Writes(Everyone)])
Register == Route("auth/register", [POST |-> Writes(Everyone)])
ResetPassword == Route("auth/reset-password", [POST |-> Writes(Everyone)])
VerifyConfirm == Route("auth/verify-email/confirm", [GET |-> Writes(Everyone)])
VerifyResend == Route("auth/verify-email/resend", [POST |-> Writes(Everyone)])
Health == Route("health", [GET |-> Reads(Everyone)])

SigningIn ==
  {ForgotPassword, LoginPassword, Me, OtpConfirm, OtpRequest, OtpVerify, Register,
   ResetPassword, VerifyConfirm, VerifyResend, Health}

Routes == Administration \cup Configuring \cup Importing \cup Collecting \cup SigningIn

=============================================================================
