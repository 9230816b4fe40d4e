----------------------------- MODULE MCProgress -----------------------------
(***************************************************************************)
(* Small instances for TLC of what must go on although requests die and    *)
(* overlap: the work the cron jobs of vercel.json start (the rates of a    *)
(* day, the digest with its email, the streaks) and the transactions of    *)
(* publishes.  The modules share no state, so each behaviour is of one of  *)
(* them, under one of the circumstances its properties ask for.            *)
(***************************************************************************)
EXTENDS FxRates, FiniteSets

CONSTANTS r1, r2, d1, d2, m1, m2, u1, Everyone, t1, t2, t3, i1, i2, i3, NoTx

VARIABLES
  which,                                                       \* the circumstances
  digest, mail, active, killed, digestReq,                     \* DigestDelivery
  evening, logged, tasks, freezes, streak, work, tickReq,      \* Engagement
  row, own, tx, last                                           \* PublishTransaction

D == INSTANCE DigestDelivery WITH
  Dates <- {d1, d2}, Mails <- {m1, m2}, deaths <- killed, req <- digestReq

E == INSTANCE Engagement WITH
  Users <- {u1}, MaxDay <- 3, Weekend <- {2}, MaxWork <- 2,
  today <- evening, req <- tickReq

\* Of three publishes the second reports part of the first and the third neither; what
\* the third reports is there already.
Txs == {t1, t2, t3}
Sharing == [t \in Txs |-> CASE t = t1 -> {i1, i2} [] t = t2 -> {i2} [] t = t3 -> {i3}]

P == INSTANCE PublishTransaction WITH Invoices <- {i1, i2, i3}, Rows <- Sharing

digestVars == <<digest, mail, active, killed, digestReq>>
streakVars == <<evening, logged, tasks, freezes, streak, work, tickReq>>
publishVars == <<row, own, tx, last>>
mcvars == <<which, vars, digestVars, streakVars, publishVars>>

-----------------------------------------------------------------------------

\* Rates only by the tick, also added and backfilled, also closed by hand, one
\* request at a time; one digest whose requests overlap and die, two whose do not;
\* streaks; publishes.
Circumstances ==
  {"rates", "rates, added", "rates, closed", "digests", "digests, alone", "streaks", "publishes"}

Rating == which \in {"rates", "rates, added", "rates, closed"}

MCInit ==
  /\ which \in Circumstances
  /\ IF Rating THEN Init
     ELSE /\ rate = [d \in Days |-> None] /\ today = 1 /\ deaths = 0
          /\ req = [r \in Reqs |-> Idle]
  /\ D!Init /\ E!Init
  /\ P!Init
  /\ IF which = "publishes" THEN row[i3] # "NONE" ELSE \A i \in {i1, i2, i3} : row[i] = "NONE"

\* Bound on the days while people write beside the tick.
LastBeside == 4

Rates ==
  \/ /\ Rating /\ Routine
     /\ which # "rates" => today' =< LastBeside
     /\ which = "rates, closed" => req'[r2] = Idle
  \/ which = "rates, added" /\ ByHand /\ \A d \in Days : d > LastBeside => rate'[d] = rate[d]
  \/ which = "rates, closed" /\ Closings /\ req'[r2] = Idle

Digests ==
  \/ which = "digests" /\ D!Next /\ digest'[d2] = "NONE"
  \/ which = "digests, alone" /\ D!AloneNext

Streaks == which = "streaks" /\ E!DailyNext

MCNext ==
  /\ \/ Rates /\ UNCHANGED <<digestVars, streakVars, publishVars>>
     \/ Digests /\ UNCHANGED <<vars, streakVars, publishVars>>
     \/ Streaks /\ UNCHANGED <<vars, digestVars, publishVars>>
     \/ which = "publishes" /\ P!Next /\ UNCHANGED <<vars, digestVars, streakVars>>
  /\ UNCHANGED which

OfRates(A) == which = "rates" /\ A /\ UNCHANGED <<which, digestVars, streakVars, publishVars>>
OfPublishes(A) == which = "publishes" /\ A /\ UNCHANGED <<which, vars, digestVars, streakVars>>

\* The rates' cron job fires every day, also after a day on which it failed; a request
\* goes on until it ends or is killed, and Postgres answers it.
MCSpec ==
  /\ MCInit /\ [][MCNext]_mcvars
  /\ WF_mcvars(OfRates(NextDay))
  /\ \A r \in Reqs : WF_mcvars(OfRates(Tick(r)))
  /\ \A t \in Txs : WF_mcvars(OfPublishes(P!Step(t)))

-----------------------------------------------------------------------------

\* Every variable has its type, whatever overlaps and dies.
TypesOK ==
  /\ Rating => TypeOK
  /\ which \in {"digests", "digests, alone"} => D!TypeOK
  /\ which = "streaks" => E!TypeOK
  /\ which = "publishes" => P!TypeOK

\* Left to the tick, intervals stay in order and no published day is passed over
\* (appendDailyRates).
InOrderAlone == which = "rates" => Disjoint /\ NoHole

\* Left to the tick, the table catches up, whatever request died or overlapped
\* (appendDailyRates, called every day).
CatchesUp == <>[](which = "rates" => CaughtUp)

\* However requests overlap and die, SENT is true of a row (the email outbox
\* processor, approveDigest).
SentIsTrue == which \in {"digests", "digests, alone"} => D!SentIsTrue

\* One request at a time, none killed, delivers a digest at most once (the email
\* outbox processor and approveDigest).
SentOnceAlone == which = "digests, alone" => D!SentOnce

\* What was decided stands: one request at a time neither reopens a decided digest nor
\* sends the email of a skipped one (triggerDigestForDate, skipDigest); and ticks that
\* overlap, fail or resume set the end of a rate once, whatever rates are added beside
\* them (closeOpenFxRate; ADR-0015, "not OPEN, the call is a no-op").
DecisionStands ==
  [][/\ which = "digests, alone" => D!KeepsDecision /\ D!SendsNoSkipped
     /\ which # "rates, closed" => KeepsEnds]_mcvars

\* Ticks of the day, however they overlap, die and are sent again, count a day once
\* (tickStreaks).
StreaksEarned == which = "streaks" => E!Earned

\* After a publish what it reports is OPEN, and what else is OPEN came later
\* (publishSnapshot's transaction, whichever statements overlap).
OpenUnlessLate == which = "publishes" => P!OpenUnlessLate

\* What a publish's transaction decided on a row holds until it commits.
WritesStand == which = "publishes" => P!WritesStand

\* Every publish ends, rows locked in opposite orders included.
EveryPublishEnds ==
  <>(which = "publishes" => \A t \in Txs : tx[t].pc \in {"done", "aborted"})

=============================================================================
