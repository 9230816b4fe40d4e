# Receivables OS: specifications, model checks and proofs

TLA+ models of the receivables ageing dashboard (Next.js, Prisma, Postgres), the TLC
configurations that check them, and TLAPS proofs. Every definition is read from
the source; `PROJECT.json` maps each one to the lines it stands for and lists the runs,
the mutants that show each property can fail, the hazards, the findings and the
theorems.

Paths below are relative to `src/src/server/` unless they start with `src/`.

## 1. The system

The program imports receivables workbooks (Tally, Xero, generic), lets an analyst repair
the rows in a staging area, publishes them as a snapshot of an entity's
receivables, and hangs collection work, reports and a daily email on the
result. It is a stateless web server over one Postgres database. Each API request is a
handler that may overlap with any other, may be killed by the platform at its
`maxDuration`, and shares nothing with the others but the database and, in one
process, the alias cache. No handler asks for an isolation level, so transactions run at READ COMMITTED.

### 1.1 Components

| Component | State it keeps | Operations | Interacts with |
|---|---|---|---|
| Snapshot lifecycle (`snapshots/service.ts`, `snapshots/review.ts`) | `snapshots` (status, staging rows, overrides, acknowledged warnings, review), `reconciliation_entries` | upload, patch row, bulk map, acknowledge, review, publish, discard, reconcile | writes `invoices`, `invoice_snapshots`, `audit_log`; runs the cascade and the suggestions; reads aliases and credit configuration |
| Publish transaction (same file, 2958-3209) | `invoices`, `invoice_snapshots`, `invoice_changes` | insert, update, settle, cascade, commit | other publishes, through row locks and unique keys |
| Invoice changes (`snapshots/invoice-diff.ts`, `invoice-changes`) | `invoice_changes` | written by a publish, acknowledged by analysts | publish |
| Operational objects (`collection-tasks`, `dispute-cases`, `promises-to-pay`, `exceptions`, `snapshots/auto-resolve.ts`) | four tables with a status each | create, patch, resolve; cascade and suggestion by a publish | `invoices` |
| Digest and outbox (`digest`, `admin/emailOutbox.ts`, `admin/emailRules.ts`, `src/src/app/api/admin/...`) | `digest_events`, `email_outbox`, `email_rules` | trigger, build, approve, skip, process, mark sent | cron, email provider |
| Credit periods (`config/creditPeriod.ts`, `config/entityDefaults.ts`, `ageing`) | `credit_period_config` intervals, an entity's default | create, bulk create, patch, CREDIT_PERIOD publish; look-ups of gate, publish and page | publish gate |
| FX rates (`fx/backfill.ts`, `config/fxRates.ts`, `config/fxRateImport.ts`, `src/scripts`) | `fx_rates` intervals | daily tick, backfill, closing, manual rate, import | cron, rate provider, dashboard |
| Parties and aliases (`matching`, `config/aliases.ts`, `snapshots/service.ts` 1712-2270) | `parties_canonical`, `party_aliases`, a corpus cache per process | staging view, patch of a row, automatic creation, bulk mapping, alias pages | staging |
| Xero (`xero`, `snapshots/service.ts` 1354-1522) | `xero_connections` with the refresh token, `xero_sync_runs` | connect, disconnect, refresh, pull | Xero, staging |
| Column mappings (`column-mappings`, `snapshots/service.ts` 815, 1300, 3143) | `column_mappings` | detect, compare, save by publish and by button | upload, publish |
| Parsers (`parsers`) | none | detect the source, classify rows, totals, warnings | upload |
| Accounts (`core/auth.ts`, `core/email-auth.ts`, `admin/users.ts`) | `users` with three kinds of mailed codes, session cookies | register, sign in, ask for and redeem codes, approve, deactivate, reactivate | every handler |
| Access (`src/src/proxy.ts`, the pages and routes under `src/src/app`) | what a browser shows | open a page, press a control, call a handler, scheduled calls | every handler |
| Streaks (`engagement/streaks.ts`) | `engagement_streaks`, `engagement_streak_freezes` | daily tick, freeze, read | follow-ups, tasks, cron |
| Reads (`dashboard`, `parties`, `accounts`, `invoices`, `focus`, `home`, `src/src/app/api/reports`) | none | sums and lists of the ledger and of the work | the tables above |
| Nudges, data reset, views, LOBs, exception bucket types, follow-up history | see section 6 | | |

### 1.2 Where it is hard

* **Check, then act.** Almost every handler reads the row it is about to change
  outside the transaction, decides, and then updates by `id` alone. What was read may be
  stale when the transaction commits.
* **Two statements, two views.** In a READ COMMITTED transaction a list and the UPDATE that
  is meant to touch what it lists do not see the same rows.
* **Unique keys as the last line.** File hash, digest date, open rate and invoice key
  turn some of these races into errors, others not.
* **Crashes.** A request can end between any two database calls. Inside a
  transaction nothing is left; outside, everything already written is.
* **At-least-once callers.** Cron jobs, users and retries repeat requests.
* **External effects.** An email is sent between reading its row and recording it.
* **Sequences.** Ledgers, intervals and states of work objects depend on every
  legal call before.

`PROJECT.json` lists each hazard at its line with the properties that watch it.

### 1.3 What makes each component correct

* Snapshot lifecycle: the OPEN invoices of an entity are those of its latest publish,
  and of what overlapped it and committed later;
  every settled invoice was absent from a publish of its own entity; no mapping is lost; nothing is
  published without the approval that is required; one snapshot a day; only STAGED
  snapshots are published or discarded; the prior one is reconciled.
* Publish transaction: the same ledger when transactions overlap; every publish ends.
* Invoice changes: the history explains every value; who acknowledged is not replaced.
* Operational objects: terminal statuses stay; a publish closes the work on what it settles;
  one suggestion per rule and invoice.
* Digest: decided once, delivered at most once, silent when skipped, SENT only if true.
* Credit periods and FX rates: the period begun last decides; intervals do not overlap or
  leave a hole; a crash is repaired by the next run; an end once set stays.
* Parties and aliases: names are not resolved with a corpus older than its time to live;
  no two parties of one name.
* Xero: a pull brings every open invoice; its run says how it ended; the token stays good.
* Column mappings and parsers: only the button replaces a default; every row is read as what it is.
* Accounts and access: a code counts once; an admin remains; readers change nothing; what is
  offered works. Streaks: a tick counts a day once.
* Reads: what one page says is owed, another says too.

## 2. Modules

| Module | Models | Instantiated by |
|---|---|---|
| `Ledger` | abstract: what publishing promises of the ledger | `SnapshotLifecycle` |
| `SnapshotLifecycle` | requests on snapshots and the ledger | `MCSnapshotLifecycle`, `MCReviews`, `MCImports` |
| `PublishTransaction` | the publish transaction, statement by statement | `MCPublishTransaction`, `MCProgress` |
| `InvoiceChanges` | values of invoices and the history a publish writes | `MCImports` |
| `OperationalObjects` | tasks, disputes, promises, exceptions | `MCOperationalObjects`, `MCImports` |
| `DigestDelivery` | digest and outbox | `MCDigestDelivery`, `MCProgress` |
| `FxRates` | rates of one currency pair | `MCProgress` |
| `Engagement` | streaks | `MCProgress` |
| `CreditPeriods` | credit periods and their look-ups | `MCConfiguration` |
| `PartyMapping` | names, parties, aliases and the corpus cache | `MCConfiguration` |
| `Accounts` | users, mailed codes, sessions, admins | `MCConfiguration` |
| `Routes`, `Access` | roles of every handler; pages, controls, proxy | `MCConfiguration` |
| `Figures` | sums of dashboard, parties, accounts, register, exports | `MCConfiguration` |
| `Focus` | focus queue and home page | `MCFocus` |
| `XeroSync` | connection, pull and runs | `MCImports` |
| `Workbooks` | the parsers on sheets | `MCImports` |
| `ColumnMappings` | detected and saved mappings | `MCImports` |
| `SnapshotLifecycleProofs`, `PublishTransactionProofs`, `DigestDeliveryProofs`, `EngagementProofs`, `FiguresProofs` | theorems about the module of that name | the proofs of the compositions; `FiguresProofs` by `MCConfiguration` itself, so that its theorems are about the run's instance |
| `MCProgressProofs` (with `FxRates`), `MCImportsProofs`, `MCConfigurationProofs` | theorems about the compositions, and about the components only these instantiate | TLAPS |

The modules share no variables. Where the code shares a table, one module owns it and the
others take from it what they need: `SnapshotLifecycle` owns `snapshots`, `invoices` and
their lines; `PublishTransaction` has the locks of its transaction one by one, and
`InvoiceChanges` the values it writes; `OperationalObjects` has the same transaction with its
list and its cascade; `Figures` sees a publish as what it does to `invoices`.
`SnapshotLifecycle` implements `Ledger`, the abstract specification of what the transaction does.

### 2.1 SnapshotLifecycle

A request is a slot of `Reqs` with a `pc` and what it has read. A `...Begin` action is the
read and the checks outside the transaction, a `...Commit` action the transaction. A publish
has more steps because its guards are separate queries: `PublishBegin` (snapshot, role,
scope, status), `PublishSameDay` (daily cadence), `PublishPrior` (reconciliation of the
latest earlier snapshot), `PublishGate` (the gate on the rows *as first read*, then the read
of existing invoices). Its transaction runs at READ COMMITTED and takes three steps: `PublishUpsert` (the rows it
reports are its own from here on, once no other transaction holds them; if one it wants to insert exists by then,
`PublishAbort`), `PublishSettle` (the view of the settling UPDATE: what is committed and OPEN at that moment), and
`PublishCommit` (the rows found are had, those still OPEN are settled, and all is written). `Die` ends a request anywhere.

| Variable | Table |
|---|---|
| `snap` | `snapshots`; identified with the file, because `upload_file_sha256` is unique |
| `inv` | `invoices`: status, `first_seen_snapshot_id`, `settled_snapshot_id` |
| `lines` | `invoice_snapshots`, each with the publish that wrote it |
| `recon` | `reconciliation_entries` by what the guard makes of them |
| `audit`, `last`, `mapped` | what `audit_log` records of publishes, discards, reviews and row patches; the properties read them, no guard does |
| `req` | requests in flight |

Abstractions. A row is a model value with a reference, an exact alias match or none, and
flags for PARSE_ERROR and for missing credit days; amounts are above the tolerance, so totals
agree when the counts of rows do. `staging_overrides_json` is kept as what its fold
(`effectiveOverride`) yields, with one entry applied at a time. Two adjacent reads of the prior snapshot and its
entry are one step. The alias corpus, the credit configuration and an entity's review flag
do not change during a behaviour. The locks of a statement are taken together and as late as the statement
allows: nobody else changes the row between the lock and there. Transactions that meet in the middle of
a statement are in section 2.2. The cascade and suggestions are in section 2.3, CREDIT_PERIOD snapshots in 2.7, the creation
of parties in 2.8, the pull in 2.11, invoice changes in 2.13.
`Books` instantiates `Ledger` with the open invoices and their first snapshots as functions of `inv`, and with the plan of
each publish that has looked (`PlanOf`): what it reports and what it found to settle.

### 2.2 PublishTransaction

One action per statement, and per row for statements that write rows. `row` is the
committed ledger, `own` what each transaction wrote. A row or key written by an open transaction makes
others wait (`Held`); an INSERT that meets a committed key violates it and rolls back; an
UPDATE evaluates its condition again after the wait (`SettleRow`); a cycle of waits
costs one of its transactions (`DeadlockVictim`); a transaction may fail anywhere, its
120-second timeout included. Rows of a statement are written in any order, because neither `createMany` nor `updateMany`
orders them and the updates follow the order of the file. The model starts from every
ledger. Lines, snapshot and audit rows are left out: they conflict with nothing here.

### 2.3 OperationalObjects

`Transitions`, `Live` and `ClosedAs` are the tables of the four services and of
`auto-resolve.ts`; an object's kind is chosen when it is created. A PATCH is `PatchBegin` (read, check the transition) and `PatchCommit`
(update by id). `Patched` follows the field lists: a task's `completed_at` is written
back from what was read, a dispute's and an exception's `resolved_at` only when it is set. An
exception is inserted in a step after its invoice was seen OPEN. A publish has a step for every statement that looks at
the tables, each with a view of its own: `PublishBegin` (existing invoices), `PublishList` (upserts, and
`aboutToSettle`), `PublishSettle`, four of `PublishCascade` (an UPDATE for each kind, over the list), `PublishSuggest`,
`PublishCommit`. The rows an UPDATE finds (`found`) are had in the next step, if they still match then (`held`), and others wait for them.
A snapshot publishes once here, so the look-up of
earlier suggestions finds nothing; a suggested task is named by snapshot, row and rule. Roles, scope,
owners and texts are left out, since no status depends on them.

### 2.4 DigestDelivery

`digest` holds the event of each date (unique), `mail` the outbox rows. Trigger, build,
approve, skip and mark are reads followed by writes. The processor reads all queued rows
(`ProcessBegin`), then alternates `Send`, whose delivery and answer are independent
except that a success means a delivery, and `Record`. `Die` kills a request anywhere,
`MaxDeaths` times. `SENT` and `FAILED` of `digest_events` are never written by the code and so not states here.

### 2.5 FxRates

`rate` gives each date its row: `effective_to` (`Open` for NULL) and source. There is no
transaction anywhere in this component, so every query of the tick is a step: `TickBegin` (latest
API row, provider), `FindOpen`, `FindNext` and `Close` (`closeOpenFxRate`), one `Insert` a date.
`Admits` is the two unique indexes, and a violation is skipped as the code does. The audit row that
follows a closing needs a user, and a cron job without `CRON_ACTOR_USER_ID` has none, so its
tick ends there (`named`). `Add` stands for the manual rate and the import, `CloseBegin`
and `BackfillBegin` for the scripts. The provider answers the same each time it is asked for a
day that is over. `until` is the last day a request may live to see: the route has 60 seconds
(`maxDuration`), so a tick sees one midnight at most; the scripts have no such limit. Rate values are left out, and so is the AED-USD pair, for which it answers
with one date a call.

### 2.6 Engagement

A tick is `TickBegin` (the users), then for each user the row read or created (`ReadRow`),
the counts (`Judge`) and the update (`Write`), which credits the row *as read*. A tick of an
earlier day can be sent by an admin. Days are numbers, some of them weekends; a day ends
only when no tick is under way, because a tick may take a minute and the next comes a day later.

### 2.7 CreditPeriods

`rows` keeps the periods of a party in the order of insertion. Creation by hand and publish
of a workbook are each a read and a transaction; bulk creation is one creation a party, all at once
(`Promise.all`); `PatchBegin`/`PatchCommit` change the days of the open row. `IndexAdmits`
is the partial unique index. `CanResolve`, `Resolved` and `Summary` are the three look-ups.

### 2.8 PartyMapping

A request asks for the corpus (`Asking`: the cached entry or the database), gets it, resolves
names, writes, and drops the entry of *its own* process. `age` and `lag` count time since
the corpus was read; `Tick` lets time pass, and no request takes longer than `MaxLoad` between two answers.
A request works on the rows of one snapshot (`SnapshotOf`). Of `bulkMapParties`, phase 1 is `BulkGroup` (the look-up), `BulkCreate` (the party) and
`BulkAlias` (its aliases), phase 2 `BulkClose` (aliases of close matches), phase 3 `BulkCommit`. All but the last
are statements outside any transaction, and `Fail` may end the request after each. A party is its name; `Stem` stands for `normalizeName` and `Similar` for the score of Fuse.js.

### 2.9 Accounts

Each handler is a read and an update by id, except the redemption of a code, whose update is
conditional on the code (`Stands`). The three kinds of codes differ in what asks for one,
what accepts it and whether it signs in. An admin's request is `AdminFind`, `AdminSet`,
`AdminLog`, since the audit row is written after the update; `logged` is what the log tells.
`Offered` is the condition of the buttons on the page.

### 2.10 Routes and Access

`Routes` has one record for each route file: for each exported method the roles that pass
its guard *and* that of the service it calls, whether the cron secret passes, and whether the
request changes anything. `Access` has the pages, with the roles `requirePageRole`
lets in and the requests each control sends, and one browser: it opens a page, presses a
control of it, calls a handler directly, while the account is approved, changed or
deactivated. `Answer` goes through the proxy, the method and the guard in this order.

### 2.11 XeroSync

Each call to Xero or the database is a step: `PullBegin` (run RUNNING), `ReadToken`, `Refresh`,
`SaveToken`, `FetchPage` (with one wait on 429), `Stage`, `Finish`. Xero's open invoices change
between pages; refresh tokens are rotated. Pages are sorted by date, and Xero may put invoices of one date in another
order for every page (`Pages`). A page is pushed, so `got` counts how often each invoice came, and a snapshot has a row for each time. `Die` ends a request anywhere, and `Fault` lets a database
call fail, both bounded by `MaxFaults`.

### 2.12 Workbooks

A sheet is a sequence of rows, each with its meaning; what the parser sees of a row are its
cells (`Cells`). `ParseTally` and `ParseXero` are folds over rows, as the loops of the two
parsers, with the party above, the subtotals and the grand total. `TallyWarnings` compares
the sums. A file may end after any row, and an odd row or sheet may be in it.

### 2.13 InvoiceChanges and ColumnMappings

`PublishRead` prepares the values and the history from what it reads, `PublishWrite` writes
both; `AckRead` and `AckCommit` are an acknowledgement. `ColumnMappings` has the two reads
of an upload (`Parse`, `Stage`), the first save of a publish and the button.

### 2.14 Figures and Focus

Pure functions of the published snapshots and `invoices`: each page and export is an
operator that computes as the code does, with its own choice of snapshot, rows, rate and
paging. In `Focus`, `KeyText` is the text that the queue is sorted by, character by
character, because the finding is about it.

## 3. Runs

Bounds are the CONSTANTS of each `.cfg` and the WITH clauses of the MC modules; what a
theorem speaks of is a constant and gets its value in the `.cfg`. Modules that share no state are checked side by side: a behaviour of `MCProgress`, `MCConfiguration` or `MCImports`
chooses its circumstances in the variable `which` and stays with them; the other variables
keep their initial values. A circumstance "..., alone" lets a request that is
under way take every step until it ends. It is for promises the code keeps only while
requests do not overlap; every other circumstance has requests overlapping freely, killed where `Die` exists.

Two request slots are enough for the races: each is between one reader and one
writer of the same row (`PartyMapping` has a third, to put two requests into one process).
Requests in a slot come one after the other without limit; only `MaxDeaths`, `MaxDay` and the
numbers of files, objects, mails and codes end a behaviour, and when these are used up the system
may really have nothing left to do, hence `CHECK_DEADLOCK FALSE`. Symmetry is on request
slots and whatever else is interchangeable; no run with symmetry checks liveness.

### 3.1 What holds

| Run | Circumstances | Shows |
|---|---|---|
| `SnapshotLedger` | two requests, two snapshots of one entity whose rows shrink and whose first row may be mapped to either of two parties | `OpenOrLate`, `SettledExplained`, `LinesComplete`, `MappingKept` under any overlap, that of the transactions too; the requests implement `Ledger` (`LedgerRefined`) |
| `Reviews` | two requests, two entities of which one requires review, a warning, a row to dismiss, an admin who uploads and may review, a reviewer | `IndependentApproval`, `InFlightInEntity` |
| `Progress` | *rates*: two ticks at a time over six days of which four have a rate, one kill; *added*: manual rates and backfills too; *closed*: the open rate closed by script, one request; these two over the first four days (`LastBeside`) | `InOrderAlone` and `CatchesUp` left to the tick; `DecisionStands` beside added rates |
| | *digests*: two requests on one digest, one kill; *digests, alone*: two dates, no kill | `SentIsTrue`; alone also `SentOnceAlone`, `DecisionStands` |
| | *streaks*: ticks that overlap, die and are sent again over three days | `StreaksEarned` |
| | *publishes*: three transactions over three invoices, every ledger to start from that has the third invoice | `OpenUnlessLate`, `WritesStand`, `EveryPublishEnds` |
| `Configuration` | *periods*, and *periods, alone*: two writers of one party, three days | `LatestDecides`: the period begun last decides and gate, publish and page look up the same days |
| | *bulk mappings*, *bulks, alone*, *mappings, alone*, *views*: two processes, two snapshots, one stem they spell alike and one they do not; of overlapping bulk mappings one may fail anywhere | `NoTwinsByBulk`, `StaleAtMostTtl` |
| | *codes*: two requests on the codes of one user; *admins, alone*, *buttons*: two users, both perhaps admins | `UsedOnce`, `AdminRemains` |
| | *access*: a browser, every page, every handler, the schedule | `OfferedWorks`, `ReadersChangeNothing` |
| | *figures*: three publishes of two entities, three currencies and days | `FiguresAgree` |
| `Imports` | *snapshots, alone*: one request, two files of which the second has fewer rows, two days | `OnePerDay`, `GuardsHold`: the guards of publish and discard are right, only their distance from the write is not |
| | *objects*, and *objects, alone*: two requests, one object of any kind, four publishes that report its invoice and settle it in turn; patches and tags begin beside the first three | `StatusesStand`, `CascadeComplete`; alone also `NoZombiesAlone` |
| | *pulls*: two pulls of two pages, three invoices of which two have one date, a fault or a change in Xero | `StagesWhole`, `RunsTell`, `TokenKept` |
| | *sheets*: up to five rows (`SheetRows`), one of them odd, a customer named "Total ..." | `SheetsTold` |
| | *publishes*, *acknowledgements*: three files of two invoices, two users | `ChangesExplain`, `SignerKept` |
| | *mappings*: three files of two layouts | `BaselineStands` |

`TypeOK` and `TypesOK` are the type invariants; `TypesOK` is that of the component a behaviour is of.

Two files are the least in which an invoice is reported, settled and reported again (a
snapshot whose status is overwritten may publish twice, so longer sequences occur too). Three
publishes are the least in which one misses the inserts of another and a third misses
neither. Four days with rates and two without are the least for a gap inside, a tick of two
dates, and a tick of one day that meets what a tick of the next day wrote. Five rows of a sheet are a header, an invoice, a subtotal
and a second party, cut anywhere.

Some results are not obvious from the code:

* Ticks leave no hole only because none lives for two midnights: if one did, it would insert the days of its list into
  a table that others had carried further, and a closing would then find a rate that is not
  the last (`InOrderAlone` is false without `until`).
* The open rate is closed by id after two reads, and still no rate gets another end beside
  added rates (`DecisionStands`): overlapping ticks that read the same open row compute the
  same eve, and those that do not are stopped by one of the two checks of `closeOpenFxRate`.
  A closing by script breaks it, so that circumstance is left out.
* A corpus that was read before an invalidation may be stored after it, and other processes are not told at
  all; what holds is the bound by the time to live (`StaleAtMostTtl`). One request at a time in one process
  reads what it wrote.
* Two bulk mappings may both find a name unknown; the unique name of a party makes the
  second fail, and the group of names with one stem makes it try the same name, provided that the snapshots
  spell the first of them alike. Two snapshots that spell it in two ways and are mapped at once, or from a cached
  corpus, do make two parties, since the look-up goes by the text (`NoTwinsAlike`). One bulk mapping at a time in
  one process makes none, because the corpus it reads has the first (`NoTwins`).
* Publishes of one entity whose transactions overlap do not leave OPEN just what the latest reported: the
  settling UPDATE misses what another has inserted and not committed. What holds is that such an invoice was
  reported by a publish that committed after the UPDATE had looked: `OpenOrLate` for requests on
  snapshots, whatever they read before the transaction, `OpenUnlessLate` lock by lock. Nor
  does the history lead from value to value then; `ChangesExplain` is stated of publishes that do not overlap.
* The cascade works on a list taken before the settling UPDATE. `CascadeComplete` says what is left
  out: what another request created or patched after the list was taken, and an invoice that was
  not OPEN in it because another publish reopened it only then.
* A pull of an unchanged Xero is whole only if no date is split between two pages (`NoDateSplit`): the order is that
  of dates, and two invoices of one date may change places between two calls, so that one comes twice
  and the other not at all. What comes twice is two rows of the snapshot, and what does not come is settled by the publish.
* No exception tag is ACTIVE on an invoice that is not open, one request at a time (`NoZombiesAlone`). Of tasks,
  disputes and promises nothing like it holds: they may be created on settled invoices.
* `FiguresAgree` has conditions: snapshots are published in the order of their
  days, no file names an invoice twice, and rates are there. Without them pages differ, because some
  go by the newest day, some by the newest publish and some by the status of the invoice. The
  register leafed through has one more (`NoTies`): it is sorted by the day of the invoice alone, and two
  reads may give invoices of one day in two orders, so that a page repeats one and another is on none.

### 3.2 What the code says and does not keep

Each run below checks one statement of the code, the spec, a runbook or a test and ends in a counterexample.

| Run | Statement violated | How |
|---|---|---|
| `SnapshotRaceDiscard` | `DiscardSparesPublished` | a discard overwrites PUBLISHED, for its guard is not part of the update |
| `PublishWriteSkew` | `AbsentAreSettled` | each UPDATE misses the other's inserts |
| `SuggestedTwice` | `OneSuggestion` | two rows of one invoice, one request |
| `DigestSentTwice` | `SentOnce` | two processors, or two approvals |
| `DigestOtherDate` | `CancelledIsSkipped` | the cancel names the rule, not the date; one request |
| `SignInRedirected` | `PublicAnswered` | the proxy redirects what comes without a cookie, the sign-in handlers and the health probe included |
| `FocusLowestFirst` | `HighestFirst` | negated scores are sorted as text |

The other guards of `publishSnapshot` (status, daily cadence, reconciliation of the prior
snapshot), the transition checks of the PATCH handlers and the digest handlers check before they
write in the same way as the discard does. Hence the properties kept for requests
alone.

Three more deviations are visible in the models without a run of their own. After the first
publish of Xero data every later upload carries COLUMN_MAPPING_DRIFT, because the saved
mapping is used as an override, which changes `layout_variant`, which is compared
(`ColumnMappings`). And the dashboard counts what is due on its day as NOT_DUE, although
`src/docs/adr/0010-due-today-ageing-bucket.md` has six buckets (`NormalizeBucket` in `Figures`). And `snapshots/auto-resolve.ts:4`
speaks of "every operational object attached to those invoices", yet when another publish reopens an invoice between
the list and the settling UPDATE, it is settled and its work stays as it was (`OperationalObjects`: without its third exception
`SettlesWhole` fails after four publishes).

### 3.3 Fairness

Only `MCProgress` assumes fairness.

`EveryPublishEnds`: weak fairness of each publish's `Step`. The handler awaits one statement
after the other, Postgres answers or grants a lock once it is free, and its deadlock
detector runs. Failure and timeout (`Fail`) are not fair.

`CatchesUp`: weak fairness of the calendar and of `Tick(r)`, which is the start of a tick while a published
day is missing and the steps of a tick that is under way: `src/vercel.json` calls the route every
day, and it exports GET for that. `Die` is not fair, and kills and failures are bounded by
`MaxDeaths`: a provider that never answers appends nothing.

Whether a user, another cron job or an email provider ever acts again is not the code's to
promise.

## 4. Proofs

Every theorem holds for all values of the constants that meet the assumption it names; none of
these bounds a set. Assumptions of the modules: `ConstantsAssumption` (`SnapshotLifecycle`: sets are
sets, functions have their domains, the sentinels are not members), `FxAssumption`,
`ObjectsAssumption`, `AmountsArePositive` (`MCImports`: rows of workbooks). Of single theorems: `Publishes` (each publish reports some of the invoices),
`Parameters` of `EngagementProofs`, `MCConfigurationProofs` and `FiguresProofs`, `PeriodParameters`, `MappingParameters` and
`XeroParameters` (bounds and dates are numbers, Xero has finitely many invoices), `LonersShare`
(requests one at a time are in one process), `FileParameters` (files are sequences of rows, amounts,
dates and terms are numbers), `MaxDeaths`, `MaxSaves \in Nat`, `Days \subseteq Int`.

A theorem about a component is stated of the component's own specification; the theorem of
the same property of a composition is `MCSpec => ...` and names the formula that the run checks. That a
composition takes only steps of the component in the circumstance in question is part of the proof,
and so is that two instances of one module agree (`SameDigests` and its like).

### 4.1 Snapshots and the ledger (`SnapshotLifecycleProofs`)

**Types.** `TypeCorrect` is `Spec => [](TypeOK /\ InFlightInEntity)`. The second conjunct is
needed for the first: the commit of a publish writes invoices under the parties its rows resolve
to, and that these are parties of the snapshot's entity was tested two steps earlier, on rows
read then (`Unmapped(seen) = {}`).

**The ledger.** `LedgerCorrect` has `OpenOrLate`, `SettledExplained` and `LinesComplete`, and the
inductive invariant is `IInv`, since none of them is inductive: that a publish settles just what it should
depends on what its transaction saw three steps ago. `Ledger` adds `Apart` (no two transactions hold
one invoice, which is what row locks and the unique constraint give), and for each transaction
`Inserting` (what it is to insert is not there once it holds its rows, and what it will not insert is) and
`Settling`, for one about to commit: what is OPEN in its entity and not reported by it is on its list,
or was reported by a publish that committed after it looked. `Settling` is `OpenOrLate` told in advance, so
the commit establishes the one from the other.
`FirstSeenCorrect` says that no step changes `first_seen_snapshot_id` of an invoice that exists.

`LedgerImplemented` is `Spec => LedgerRefined`, by `IInv`. The plan of a request is a matter of the request alone
(`Plans`), so a step moves one plan at most. `PublishSettle` is the look of `Ledger`: it reports at
least one invoice, by `Inserting`, and none that another plan reports, by `Apart`. `PublishCommit` applies the
plan (`CommitPublishes`): what it settles no other plan reports, since its UPDATE waits for the rows others hold.
Every other step leaves the ledger and at most drops the plan of its request (`DropStep`).

**What requests leave each other.** `MappingCorrect` and `ApprovalCorrect` rest on what no request
takes from a snapshot whatever it had read: uploader, entity, mappings and the rows of its reviews
(`Kept`, `RowKept`); `Reviewed` then carries an approval from the first read of a publish to its commit.

**One request at a time** (`MCImportsProofs`). `OneADay` and `GuardsKept`. `SnapInv` says that what the
request has read nobody has changed (`SoFar`): its snapshot is still STAGED, no other is
published for its day, the latest prior one is reconciled. `OnePerDay` is part of it, since it makes
the latest prior snapshot one (`OneLatest`).

### 4.2 Overlapping publishes (`PublishTransactionProofs`)

The theorems above take the locks of a statement together; `OverlapCorrect`,
`Spec => [](TypeOK /\ WritesStand /\ OpenUnlessLate)`, takes them one by one, for any
number of publishes over any invoices. The invariant says for each
transaction what it has written so far (`StatementsOf`), what that means (`WritesOf`) and, from the
settling UPDATE on, that a row it leaves OPEN was reported by a publish that committed after that
UPDATE looked (`SettlingOf`, `Late`); `Exclusive` is the row lock: one open transaction at most has
written a row, so a commit takes nothing from the others. `LastTrue` then carries it over the commit.

### 4.3 Rates, digests and streaks (`MCProgressProofs`, `DigestDeliveryProofs`, `EngagementProofs`)

**Rates.** `EndsStand`: beside added rates no end of a rate changes. `Ends` says that a rate is open
or ends on the eve of the published day after it, and that whatever a request read before it closes a rate
leads to the same eve, however old it is. `OrderKept`: left to the tick, intervals are in order and without
holes. `Ordered` adds to that what every request still has to insert: all that is published from
its first day until the eve of the day it began on (`Timely`, where the 60 seconds enter), after
a rate from which nothing is missing (`Reaches`), and at most one day beyond an open rate that it did not
come to close (`OneAfter`).

**Digests.** `SentCorrect` for any overlap and kills: `Knows` has what a request knows of rows whatever
happens to them, for rows are never deleted and their deliveries only grow. `AloneCorrect`: `StillTrue` (what
was read holds until it is written) and `RowsSound` (one row a date, queued only when approved, and delivered only by
a request that is about to record it).

**Streaks.** `StreaksCorrect`: a row that was read is as `Fair` as the row on file, that is, of no
more days than the workdays until the one credited, and of today or before (`Timely`). This carries a
write of something stale.

`OrderStands`, `SentStands`, `DeliveredOnce`, `DecisionsStand`, `StreaksStand`, `PublishesStand` and
`TypesKept` are the theorems of `MCProgress`.

### 4.4 Work and imports (`MCImportsProofs`)

**Operational objects.** `WorkStands` has `KeepsResolved` and `SettlesWhole`. `Inv` says that a patch in flight asks for what some
transition allowed of what it read (`InFlight`); that is enough for exceptions, whose terminal status has none, and whose
update is written from what was read, not for tasks. `Standing` carries a publish from its list to its commit: of
the objects on the listed invoices that nobody else changed since, each live one of a kind already
passed has been found or closed, and the rows it holds nobody changes. `SettlesWhole` follows at the commit.
`WorkAlone`: with one request at a time what was read still holds (`StillTrue`), so no exception is
ACTIVE on an invoice that is not open, and no terminal status is left. `StatusesKept`,
`CascadeKept` and `ZombiesNever` are the theorems of the composition.

**Xero.** `RunsTold`: `RunInv` gives every RUNNING run its pull and every pull its own run, and says for each step of a pull
whether its snapshot is on file. `TokenStays`: `TokenInv` has at most one pull with
the newest token still to save, and none waiting for Xero with that token meanwhile. `PullsWhole`: with no date split over pages
the first n pages hold one set of invoices in whatever order Xero sorts (`PageAdds`, `LeadingAll`), and a pull that has
read n pages of an unchanged Xero has each invoice of that set once (`PagesRead`).

**Mappings and acknowledgements.** `BaselineKept`, `SignersKept`: nothing overwrites a saved mapping but the
button, and an acknowledgement updates only rows that are not signed; `AckInv` keeps the publish out of it.

**Histories.** `HistoryExplains` is `ChangesExplain` for all files and terms. A publish folds its rows into the
values, inserts and changes it will write. `FoldExists` constructs the function a fold chooses, length by
length: a set of numbers that has 0 and the next of each of its members has all (`AllReached`), since the
well-founded order of finite sets gives the least one it lacks (`LeastOf`), which needs no theorem with an
operator parameter. Along it goes `Explains`: after k rows the changes prepared continue the
history to the values prepared, from the value of the first row of each new invoice. A row of a new invoice adds no
change (`TellsNew`), and one of an invoice with a value adds a change for each field that differs and
no other (`DiffLists`, `DeltasAre`, `TellsMore`). `ToldInv` keeps that until the transaction, since nothing runs beside
a publish; a signature leaves it (`SignedLead`).

**Workbooks.** `SheetsRead` is `SheetsTold` for sheets of any length and any positive amounts, of the two customers of
the model. `Statement` says what the package writes: rows of its layout, the total last. The scan of either
parser is unfolded like that of a publish (`TallyFollows`, `XeroFollows`); after k rows it knows the party that row k belongs to
and has reported the first k rows as meant (`TallyTells`, `XeroTells`), for which `TallyRowIs` and `XeroRowIs` say what each
kind of row is taken for. For the money, `SumsExist` constructs the sums over all subsets of a finite set, and `AddsIs` shows
that the sum of the model, whatever element it takes first, is one of them; both go by `AllFinite`, the least set that
would be missing. `MoneyAddsUp` then adds the tolerances party by party.

**Types.** `TypesKept` puts together the parts of the circumstances; that of snapshots is `TypeCorrect` of
`SnapshotLifecycleProofs`, instantiated with one request.

### 4.5 Configuration and accounts (`MCConfigurationProofs`)

**Codes.** `CodesCorrect`: `UsedOnce` alone does not say that a code an account still has is unused;
`CodesHeld` does, and that no two accounts or kinds share one, so that clearing it in one row is enough.

**Admins.** `AuditCorrect`: the log lags behind an account only by the request that is about to write it
(`LogFollows`). `AdminsStay`: with the buttons of the page, who began is still an admin when the account is changed, and it is
another's (`Spared`).

**Credit periods.** `PeriodsCorrect`: `PeriodInv` says that the rows of a party are a chain, each ending on
the eve of the one added after it and the last open. From this the order of insertion is that of the dates, and the three look-ups agree.

**Names.** `MappingCorrect` has types and `StaleAtMostTtl`; `Timely` and `Young` relate the time since a corpus
was read to the time since it was asked for and stored. `CorpusTimely` adds the circumstance of one process
(`FreshInv`: the cached corpus is current unless somebody is about to drop it). 
`NoTwinsMade`: `GroupInv` says that requests and what is mapped go by whole groups, so that a party has the name of the first
row of its stem in some snapshot; if the snapshots spell a stem alike there, that is one name, which is unique.
For bulks one at a time, `TwinInv` adds that a party missing in the corpus of the request is of a group that it is done with
(`Ahead`), which needs `FreshInv`, that its corpus was current when it asked.

**Access.** `OffersKept` and `ReadersOnlyRead` are over all pages and handlers: `WriterOf` is checked for each
handler that changes something, and `ShownWorks` says that whatever a fresh screen shows, is answered to
whoever may work and has the page open, or to somebody who has just signed in on it.

**Figures.** `FiguresAgreed` is `FiguresAgree` of the composition, see 4.6.

### 4.6 Figures (`FiguresProofs`)

`FiguresTold` is `Spec => []FiguresAgree` for any entities, parties, invoices, days, amounts, rates and length of the ageing
export. `Parameters` asks that parties, invoices and rates are finitely many, that
amounts, days and rates are whole numbers, and that no entity is called like the choice of all entities; `FiguresParameters` shows
that the run's values are such.

Some pages read the rows of the newest snapshot, others the open invoices. What joins them is an invariant
(`OpenKept`): whatever the order of the days, an invoice is open when it is in the snapshot *published last* of its
entity, for the amount of its row there (`OpenIsLast`). It is inductive with `FilesKept`: a file has only
invoices of its entity, or a publish would settle what another entity's last snapshot holds, and a day of an entity is published
once. Published in the order of their days, the last snapshot is the newest (`LastIsNewest`), and with that every page
finds the same row of an invoice (`LastTells`). The consolidated dashboard prefers the snapshot of the newest day of all; there is one
of an entity at most, and it is that entity's newest (`ConsolidatedReads`).

From there on the figures are sums of the same amounts, taken differently. `SumsOver` gives the sum of every subset of a finite set (`SumsExist`),
and `AddsIs` shows that the model's sum, whatever element it takes first, is one of them. `SumByIndex` sums over
what stands for the invoices instead: rows of a dashboard, places of a list. `SumOfSums` adds up
sums over parts that do not overlap: the parties of an entity, the parties of a bucket. For the register, `SortedExists` shows that finitely many
invoices can be put into the order of their days, and `OnePage`, `LeafedShows` that
one long page, or all short ones, have each of them once.

## 5. Only model-checked

* `CatchesUp` and `EveryPublishEnds`: liveness under fairness.
* The counterexamples of section 3.2, which are of one instance each.

## 6. Not modelled

* Nudges are counts of a few reads. Views, LOBs and exception bucket types are single-row
  settings without a guard that another component relies on; only the roles of their handlers are in
  `Routes`. The data reset empties the tables in one transaction.
* Parsing of cells (dates, numbers, merged cells) is what a cell yields in `Workbooks`; the
  generic mapped parser is left out.
* Of the user interface only requests and roles are modelled; layout, filters and formatting are not.
* Libraries and services (Fuse.js, Xero, the rate and email providers, Postgres) are modelled by how
  the code uses them.

## 7. Plan

`PublishTransaction`, lock by lock, as a second implementation of `Ledger`, for its surviving transactions.
