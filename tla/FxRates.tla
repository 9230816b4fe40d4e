------------------------------ MODULE FxRates ------------------------------
(***************************************************************************)
(* The rates of one currency pair.  A daily tick closes the open rate and  *)
(* appends those the provider has published since; an operator may         *)
(* backfill from a date or close the open rate by script; an admin may add *)
(* a rate or import one.  There is no transaction: a tick reads, closes    *)
(* and inserts in steps of its own, ticks may overlap, and each may be     *)
(* killed or fail between two steps.                                       *)
(*                                                                         *)
(* What keeps the table in order is two unique indexes, on the date        *)
(* (uq_fx_rate_triple) and on the open row (uq_fx_rates_pair_open), whose  *)
(* violations a tick swallows.  The provider answers the same each time    *)
(* it is asked for a day that is over.                                     *)
(***************************************************************************)
EXTENDS Integers, FiniteSetsExt

CONSTANTS
  Reqs,         \* slots for ticks, backfills and closings in flight
  MaxDay,       \* bound on the days that pass
  Published,    \* days for which the provider publishes a rate
  MaxDeaths     \* bound on requests killed on the way

Days == 1 .. MaxDay

ASSUME FxAssumption ==
  /\ MaxDay \in Nat \ {0}
  /\ MaxDeaths \in Nat
  /\ Published \subseteq Days

VARIABLES
  rate,     \* the row of each date: effective_to and source
  today,
  deaths,   \* requests killed so far
  req       \* what each request in flight has read and will do

vars == <<rate, today, deaths, req>>

-----------------------------------------------------------------------------

Open == MaxDay + 1    \* effective_to IS NULL: no end in sight
None == [to |-> -1, api |-> FALSE]
Row == [to: 0 .. Open, api: BOOLEAN]

Rated == {d \in Days : rate[d] # None}
ApiRated == {d \in Rated : rate[d].api}
OpenRows == {d \in Rated : rate[d].to = Open}

\* A request closes at a day, then inserts the days of todo.  named: its actor is
\* a user, as audit_log demands; a cron job without CRON_ACTOR_USER_ID has none.
\* until: the last day it may live to see.  The route has 60 seconds (maxDuration),
\* so that a tick sees one midnight at most; a script has no such limit.
Until == 1 .. Open
Idle == [pc |-> "idle"]
Request ==
  {Idle}
    \cup [pc: {"open"}, at: 0 .. MaxDay, todo: SUBSET Days, named: BOOLEAN, until: Until]
    \cup [pc: {"next", "close"}, at: 0 .. MaxDay, row: Days, todo: SUBSET Days,
           named: BOOLEAN, until: Until]
    \cup [pc: {"insert"}, todo: SUBSET Days, until: Until]

At(r, pc) == req[r].pc = pc
Goto(r, q) == req' = [req EXCEPT ![r] = q]
End(r) == Goto(r, Idle)
ThenInsert(r, todo, until) ==
  IF todo = {} THEN End(r) ELSE Goto(r, [pc |-> "insert", todo |-> todo, until |-> until])

TypeOK ==
  /\ rate \in [Days -> Row \cup {None}]
  /\ today \in Days
  /\ deaths \in 0 .. MaxDeaths
  /\ req \in [Reqs -> Request]

Fetched(from, to) == Published \cap from .. to

\* The end of date d when the dates S are inserted together.
EndOf(d, S) == LET later == {e \in S : e > d} IN IF later = {} THEN Open ELSE Min(later) - 1

\* The table starts empty, or as an undisturbed backfill from a day leaves it.
Backfilled(start) ==
  LET S == Fetched(start, today) IN
  [d \in Days |-> IF d \in S THEN [to |-> EndOf(d, S), api |-> TRUE] ELSE None]

Init ==
  /\ today \in Days
  /\ \/ rate = [d \in Days |-> None]
     \/ \E start \in Days : rate = Backfilled(start)
  /\ deaths = 0
  /\ req = [r \in Reqs |-> Idle]

\* INSERT under the two unique indexes.
Admits(d, to) == rate[d] = None /\ (to = Open => OpenRows = {})

-----------------------------------------------------------------------------
(* appendDailyRates *)

\* Fault: one day too few.
MissingLess == IF ApiRated = {} THEN {} ELSE Fetched(Max(ApiRated) + 1, today - 2)

\* The published days since the latest API row, but for today, are to be
\* inserted, and the open row closed on the eve of the first.
Missing == IF ApiRated = {} THEN {} ELSE Fetched(Max(ApiRated) + 1, today - 1)

TickBegin(r, named) ==
  /\ At(r, "idle") /\ Missing # {}
  /\ Goto(r, [pc |-> "open", at |-> Min(Missing) - 1, todo |-> Missing, named |-> named,
              until |-> today + 1])
  /\ UNCHANGED <<rate, today, deaths>>

\* Fault: any row may be closed at any day.
NeverTooEarly(r, d) == FALSE

\* The closing falls before the start of the open row d.
TooEarly(r, d) == req[r].at < d

\* Fault: the actor is lost on the way.
FindOpenUnnamed(r) ==
  /\ At(r, "open")
  /\ \E d \in OpenRows : Goto(r, [pc |-> "next", at |-> req[r].at, row |-> d, todo |-> req[r].todo,
                                 until |-> req[r].until])
  /\ UNCHANGED <<rate, today, deaths>>

\* closeOpenFxRate: without an open row there is nothing to close, one that
\* starts later is an error and ends the request.
FindOpen(r) ==
  /\ At(r, "open")
  /\ \/ OpenRows = {} /\ ThenInsert(r, req[r].todo, req[r].until)
     \/ \E d \in OpenRows :
          IF TooEarly(r, d) THEN End(r)
          ELSE Goto(r, [pc |-> "next", at |-> req[r].at, row |-> d,
                        todo |-> req[r].todo, named |-> req[r].named,
                        until |-> req[r].until])
  /\ UNCHANGED <<rate, today, deaths>>

\* A rate after the one to be closed starts before the closing.
Overlaps(r) == \E d \in Rated : d > req[r].row /\ d =< req[r].at

FindNext(r) ==
  /\ At(r, "next")
  /\ IF Overlaps(r)
     THEN End(r)
     ELSE Goto(r, [req[r] EXCEPT !.pc = "close"])
  /\ UNCHANGED <<rate, today, deaths>>

\* The update is by id.  The audit row that follows fails without a user.
Close(r) ==
  /\ At(r, "close")
  /\ rate' = [rate EXCEPT ![req[r].row].to = req[r].at]
  /\ IF req[r].named THEN ThenInsert(r, req[r].todo, req[r].until) ELSE End(r)
  /\ UNCHANGED <<today, deaths>>

\* One date after the other; a violated index skips the date.
Insert(r) ==
  LET S == req[r].todo
      d == Min(S)
      row == [to |-> EndOf(d, S), api |-> TRUE] IN
  /\ At(r, "insert")
  /\ rate' = IF Admits(d, row.to) THEN [rate EXCEPT ![d] = row] ELSE rate
  /\ ThenInsert(r, S \ {d}, req[r].until)
  /\ UNCHANGED <<today, deaths>>

-----------------------------------------------------------------------------
(* What people do *)

\* backfillFxPair refuses a pair with an open row.
BackfillBegin(r, start) ==
  /\ At(r, "idle") /\ OpenRows = {}
  /\ ThenInsert(r, Fetched(start, today), Open)
  /\ UNCHANGED <<rate, today, deaths>>

\* scripts/close-fx-open.mts
CloseBegin(r, at) ==
  /\ At(r, "idle")
  /\ Goto(r, [pc |-> "open", at |-> at, todo |-> {}, named |-> TRUE, until |-> Open])
  /\ UNCHANGED <<rate, today, deaths>>

\* createFxRate (any date) and importExchangeRateApiFxRate (a past one) insert an
\* open row; their look-up of the date adds nothing to its unique index.
Add(d, api) ==
  /\ Admits(d, Open) /\ (api => d =< today)
  /\ rate' = [rate EXCEPT ![d] = [to |-> Open, api |-> api]]
  /\ UNCHANGED <<today, deaths, req>>

-----------------------------------------------------------------------------

NextDay ==
  /\ today < MaxDay
  /\ \A r \in Reqs : ~At(r, "idle") => today < req[r].until
  /\ today' = today + 1
  /\ UNCHANGED <<rate, deaths, req>>

\* A request is killed, or the provider or the database fails it.
Die(r) ==
  /\ ~At(r, "idle") /\ deaths < MaxDeaths
  /\ deaths' = deaths + 1
  /\ End(r)
  /\ UNCHANGED <<rate, today>>

Step(r) == FindOpen(r) \/ FindNext(r) \/ Close(r) \/ Insert(r)
Tick(r) == (\E named \in BOOLEAN : TickBegin(r, named)) \/ Step(r)

Routine == NextDay \/ \E r \in Reqs : Tick(r) \/ Die(r)
ByHand ==
  \/ \E d \in Days, api \in BOOLEAN : Add(d, api)
  \/ \E d \in Days, r \in Reqs : BackfillBegin(r, d)
Closings == \E d \in Days, r \in Reqs : CloseBegin(r, d)

Next == Routine \/ ByHand \/ Closings

Spec == Init /\ [][Next]_vars

\* Only the tick writes; rates are also added and backfilled.
TickSpec == Init /\ [][Routine]_vars
AddSpec == Init /\ [][Routine \/ ByHand]_vars

-----------------------------------------------------------------------------

\* A step leaves the rates that have an end as they are, and deletes none.  (A
\* closing by hand between the read and the update of a tick is overwritten.)
KeepsEnds == \A d \in Rated : rate[d].to # Open => rate'[d] = rate[d]

\* "Never silently shortens an already-historical interval" (closeOpenFxRate): while
\* only the tick writes, no interval is inverted or overlaps the next, and the
\* open one is the last.
Disjoint ==
  \A d \in Rated : rate[d].to >= d /\ \A e \in Rated : e > d => rate[d].to < e

\* While only the tick writes, a published day between two that are on file is on
\* file, although the tick looks only behind the latest.
NoHole ==
  \A d \in Published :
    (\E e \in Rated : e < d) /\ (\E e \in Rated : e > d) => d \in Rated

\* "The daily backfill cron can append rates without manual analyst intervention"
\* (ADR-0015): every published day that is over, from the first on file.
CaughtUp ==
  \A d \in Published : d < today /\ (\E e \in Rated : e < d) => d \in Rated

=============================================================================
