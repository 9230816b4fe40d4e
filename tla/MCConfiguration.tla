-------------------------- MODULE MCConfiguration --------------------------
(***************************************************************************)
(* Small instances for TLC of what analysts and admins maintain, credit    *)
(* periods, the mapping of party names and user accounts, and of what the  *)
(* pages then offer and show.  The modules share no state, so each         *)
(* behaviour is one of one of them, under one of the circumstances its     *)
(* properties ask for.                                                     *)
(***************************************************************************)
EXTENDS Accounts, Integers, Sequences, FiniteSetsExt, TLC

CONSTANTS
  Clerks, RoleOf, ScopeOf, Parties, EntityOf, Books, MaxDay, Terms, MaxRows,  \* CreditPeriods
  MapReqs, Procs, ProcOf, Names, Stem, Similar, Rows, SnapshotOf, NameOf, TTL, MaxLoad, Cold,  \* PartyMapping
  Bulkers, Loners, Viewers,   \* the requests on mappings that its circumstances use,
  FewNames, FewRows           \* and, beside bulk mappings, the names and rows

VARIABLES
  which,                                                                    \* the circumstances
  rows, default, book, periodReq,                                             \* CreditPeriods
  parties, aliases, chosen, cache, mapReq,                                  \* PartyMapping
  role, active, cookie, page, shown, fresh, last,                           \* Access
  published, inv                                                            \* Figures

C == INSTANCE CreditPeriods WITH Users <- Clerks, Role <- RoleOf, Scope <- ScopeOf, req <- periodReq
P == INSTANCE PartyMapping WITH Reqs <- MapReqs, req <- mapReq

B == INSTANCE Access

\* Two parties of India, one of whom owes dirhams, and one of the Emirates.
F == INSTANCE FiguresProofs WITH
  Entities <- {"IND", "UAE"}, Parties <- 1..3, EntityOf <- <<"IND", "IND", "UAE">>,
  Invoices <- 1..3, PartyOf <- <<1, 2, 3>>, CurrencyOf <- <<"INR", "AED", "AED">>,
  DatedOn <- <<70, 20, 39>>, TermOf <- <<30, 19, 30>>, Days <- {100, 130}, Amounts <- {3, 5},
  Rates <- {[from |-> "AED", since |-> 30, rate |-> 2], [from |-> "AED", since |-> 38, rate |-> 4]},
  ExportRows <- 2, MaxPublished <- 3

\* One admin, whose one party may be given any period.
EverybodyAdmin == [u \in Clerks |-> "ADMIN"]
OneEntity == [x \in Parties \cup Clerks |-> "e1"]

\* Two snapshots: the first two rows, with two names of one stem and one of another, and
\* the others, that spell the first stem alike and the second otherwise, close to the
\* first name.  One of three requests has a process of its own.
TwoStems == <<1, 1, 2, 2>>
CloseNames == {<<1, 4>>}
TwoSnapshots == <<1, 1, 1, 2, 2>>
SpeltTwice == <<1, 2, 3, 1, 4>>
LonersApart == [r \in MapReqs |-> IF r \in Loners THEN Min(Procs) ELSE Max(Procs)]

\* Requests on credit periods and accounts are interchangeable.
SymmetricReqs == Permutations(Reqs)

periodVars == <<rows, default, book, periodReq>>
mapVars == <<parties, aliases, chosen, cache, mapReq>>
accessVars == <<role, active, cookie, page, shown, fresh, last>>
figuresVars == <<published, inv>>

\* A request that is under way takes the step.
Alone(before, after) == \A r \in DOMAIN before : before[r].pc # "idle" => after[r] # before[r]

-----------------------------------------------------------------------------

Circumstances ==
  {"periods", "periods, alone", "bulk mappings", "bulks, alone", "mappings, alone", "views",
   "codes", "admins, alone", "buttons", "access", "figures"}

MCInit ==
  /\ which \in Circumstances
  /\ C!Init
  /\ which # "periods, alone" => \A e \in C!Entities : default[e] = C!NoTerm
  /\ which \notin {"periods", "periods, alone"} =>
       \A b \in Books : book[b].parties = Parties /\ book[b].from = 1 /\ book[b].days = Min(Terms)
  /\ IF which = "views"
     THEN /\ parties = {Min(Names)} /\ aliases = {} /\ chosen = [row \in Rows |-> P!NoName]
          /\ cache = [p \in Procs |-> Cold] /\ mapReq = [r \in MapReqs |-> P!Idle]
     ELSE P!Init
  /\ Init /\ B!Init /\ F!Init

Periods ==
  /\ which \in {"periods", "periods, alone"} /\ C!Next
  /\ IF which = "periods" THEN default' = default ELSE Alone(periodReq, periodReq')

\* Bulk mappings at once, one of which may fail anywhere, while no process ends and no corpus
\* grows too old to be used; one bulk mapping, or any request, at a time in one process;
\* views in one process beside the alias pages.
Mappings ==
  \/ /\ which = "bulk mappings"
     /\ P!Bulks \/ P!Works \/ \E r \in MapReqs \ Loners : P!Fail(r)
     /\ \A r \in MapReqs \ Bulkers : mapReq'[r] = P!Idle
  \/ /\ \/ which = "bulks, alone" /\ (P!Bulks \/ P!Internal)
        \/ /\ which = "mappings, alone" /\ (P!Views \/ P!Bulks \/ P!Others \/ P!Internal)
           /\ parties' \subseteq FewNames /\ \A row \in Rows : chosen'[row] # P!NoName => row \in FewRows
     /\ Alone(mapReq, mapReq') \/ cache' # cache
     /\ \A r \in MapReqs \ Loners : mapReq'[r] = P!Idle
  \/ /\ which = "views" /\ (P!Views \/ P!EditAliases \/ P!Internal)
     /\ \A a \in aliases' : a[1] \in FewNames
     /\ \A r \in MapReqs \ Viewers : mapReq'[r] = P!Idle

\* The codes of newcomers; everything on accounts but codes, one admin at a time, on
\* any user or on those the page has a button for.
AccountsStep ==
  \/ /\ which = "codes"
     /\ \/ \E u \in Users \ {Founder} : Signs(u) \/ \E r \in Reqs : Mails(r, u)
        \/ \E r \in Reqs : Advance(r)
        \/ \E c \in Codes : Expire(c)
  \/ /\ \/ which = "admins, alone" /\ AloneNext
        \/ which = "buttons" /\ ButtonsNext
     /\ issued' = 0 /\ \A r \in Reqs : req'[r].pc # "mail"

MCNext ==
  /\ \/ Periods /\ UNCHANGED <<mapVars, vars, accessVars, figuresVars>>
     \/ Mappings /\ UNCHANGED <<periodVars, vars, accessVars, figuresVars>>
     \/ AccountsStep /\ UNCHANGED <<periodVars, mapVars, accessVars, figuresVars>>
     \/ which = "access" /\ B!Next /\ UNCHANGED <<periodVars, mapVars, vars, figuresVars>>
     \/ which = "figures" /\ F!Next /\ UNCHANGED <<periodVars, mapVars, vars, accessVars>>
  /\ UNCHANGED which

MCSpec ==
  MCInit /\ [][MCNext]_<<which, periodVars, mapVars, vars, accessVars, figuresVars>>

-----------------------------------------------------------------------------

\* Every variable has its type, whatever overlaps.
TypesOK ==
  /\ which \in {"periods", "periods, alone"} => C!TypeOK
  /\ which \in {"bulk mappings", "bulks, alone", "mappings, alone", "views"} => P!TypeOK
  /\ which \in {"codes", "admins, alone", "buttons"} => TypeOK
  /\ which = "access" => B!TypeOK
  /\ which = "figures" => F!TypeOK

\* The period begun last decides, and gate, publish and page look up the same days
\* (createCreditPeriod, publishCreditPeriodSnapshot, canResolveCreditDays).
LatestDecides ==
  which \in {"periods", "periods, alone"} => C!LatestDecides /\ C!LookupsAgree

\* No request resolves names with a corpus older than TTL, and one request at a time in
\* one process reads what it wrote (loadCachedAliasCorpus, invalidateAliasCorpus).
StaleAtMostTtl ==
  /\ which \in {"bulk mappings", "bulks, alone", "mappings, alone", "views"} => P!StaleAtMostTtl
  /\ which = "mappings, alone" => P!NextReadFresh

\* Bulk mappings that overlap, fail or die make no two parties of a stem that the staged
\* snapshots spell alike, and one at a time in one process none of any (bulkMapParties).
NoTwinsByBulk ==
  /\ which = "bulk mappings" => P!NoTwinsAlike
  /\ which = "bulks, alone" => P!NoTwins

\* One admin at a time, with the buttons of the page, cannot lock all admins out, and
\* the audit log tells what became of an account (deactivateUser, approveUser).
AdminRemains ==
  /\ which = "buttons" => SomeAdmin
  /\ which = "admins, alone" => AuditTells

\* What a page offers to somebody who may work is not refused (requirePageRole, requireRole).
OfferedWorks == which = "access" => B!OfferedWorks

\* Somebody who may only read changes nothing, whatever page is open (assertReadOnlyForCfo).
ReadersChangeNothing == which = "access" => B!ReadersChangeNothing

\* Dashboard, accounts, register and exports tell the same sums (getDashboard,
\* summarizeAccount, listInvoices, the report routes).
FiguresAgree == which = "figures" => F!FiguresAgree

=============================================================================
