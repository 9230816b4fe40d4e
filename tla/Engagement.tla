----------------------------- MODULE Engagement -----------------------------
(***************************************************************************)
(* Streaks: each weekday evening a cron job judges every analyst, CFO and  *)
(* admin by the follow-ups logged and the tasks due that day, and adds a   *)
(* day to the streak or ends it.  A tick works user by user, each          *)
(* statement on its own; it may die on the way, be sent again, overlap     *)
(* another, or be sent by an admin for a day that is past.                 *)
(*                                                                         *)
(* Days are numbers.  Each user owns at most one task per due day.         *)
(***************************************************************************)
EXTENDS Integers, FiniteSets

CONSTANTS
  Reqs,        \* slots for requests in flight
  Users,       \* those with a role that keeps a streak (ACTIVE_STREAK_ROLES)
  MaxDay,      \* bound on the days
  Weekend,     \* the days of them that are Saturdays and Sundays
  MaxWork,     \* bound on the follow-ups, tasks and freezes made
  Everyone     \* the user of a freeze without user_id

VARIABLES
  today,
  logged,      \* table follow_ups: per user, the days of logged_at
  tasks,       \* table collection_tasks: per owner and due_date, the status
  freezes,     \* table engagement_streak_freezes
  streak,      \* table engagement_streaks
  work,
  req

vars == <<today, logged, tasks, freezes, streak, work, req>>

-----------------------------------------------------------------------------

Days == 1 .. MaxDay
Workdays == Days \ Weekend
NoDay == 0

\* NoRow until the user is ticked or looks at the streak.
NoRow == [current |-> -1, longest |-> 0, credited |-> NoDay]
NewRow == [NoRow EXCEPT !.current = 0]
Row == [current: Nat \cup {-1}, longest: Nat, credited: 0 .. MaxDay]

\* todo: the users findMany returned, less those done; seen: the row read.
Idle == [pc |-> "idle"]
Request ==
  {Idle} \cup [pc: {"user", "row", "judge", "write"}, day: Days, todo: SUBSET Users,
               user: Users, seen: Row, credit: BOOLEAN]

TypeOK ==
  /\ today \in Days
  /\ logged \in [Users -> SUBSET Days]
  /\ tasks \in [Users -> [Days -> {"none", "open", "closed"}]]
  /\ freezes \subseteq (Users \cup {Everyone}) \X Days
  /\ streak \in [Users -> Row]
  /\ work \in 0 .. MaxWork
  /\ req \in [Reqs -> Request]

Init ==
  /\ today = 1
  /\ logged = [u \in Users |-> {}]
  /\ tasks = [u \in Users |-> [d \in Days |-> "none"]]
  /\ freezes = {} /\ work = 0
  /\ streak = [u \in Users |-> NoRow]
  /\ req = [r \in Reqs |-> Idle]

At(r, pc) == req[r].pc = pc
Goto(r, q) == req' = [req EXCEPT ![r] = q]

-----------------------------------------------------------------------------

\* A tick ends within the maxDuration of its route, a minute.
NextDay ==
  /\ today < MaxDay /\ \A r \in Reqs : At(r, "idle")
  /\ today' = today + 1
  /\ UNCHANGED <<logged, tasks, freezes, streak, work, req>>

\* createPartyFollowUp, createInvoiceFollowUp.
LogFollowUp(u) ==
  /\ work < MaxWork /\ work' = work + 1
  /\ logged' = [logged EXCEPT ![u] = @ \cup {today}]
  /\ UNCHANGED <<today, tasks, freezes, streak, req>>

\* A task gets this owner and due date, is closed, or is taken up again.
SetTask(u, d) ==
  /\ work < MaxWork /\ work' = work + 1
  /\ tasks' = [tasks EXCEPT ![u][d] = IF @ = "open" THEN "closed" ELSE "open"]
  /\ UNCHANGED <<today, logged, freezes, streak, req>>

\* The unique key is (user_id, freeze_date).
GrantFreeze(u, d) ==
  /\ work < MaxWork /\ work' = work + 1
  /\ <<u, d>> \notin freezes /\ freezes' = freezes \cup {<<u, d>>}
  /\ UNCHANGED <<today, logged, tasks, streak, req>>

\* The badge makes the row it does not find.
GetStreak(u) ==
  /\ streak[u] = NoRow
  /\ streak' = [streak EXCEPT ![u] = NewRow]
  /\ UNCHANGED <<today, logged, tasks, freezes, work, req>>

-----------------------------------------------------------------------------
(* tickStreaks *)

\* The cron job is for today; only an admin names a date.
TickBegin(r, day) ==
  /\ At(r, "idle")
  /\ \E u \in Users :
       Goto(r, [pc |-> "user", day |-> day, todo |-> Users, user |-> u, seen |-> NoRow,
                credit |-> FALSE])
  /\ UNCHANGED <<today, logged, tasks, freezes, streak, work>>

Frozen(u, d) == d \in Weekend \/ <<u, d>> \in freezes \/ <<Everyone, d>> \in freezes

\* The next user: a day off leaves the streak (preserveStreak), or makes the row.
NextUser(r) ==
  /\ At(r, "user")
  /\ IF req[r].todo = {}
     THEN Goto(r, Idle) /\ UNCHANGED streak
     ELSE \E u \in req[r].todo :
            LET q == [req[r] EXCEPT !.user = u, !.todo = @ \ {u}] IN
            IF Frozen(u, q.day)
            THEN /\ Goto(r, q)
                 /\ streak' = [streak EXCEPT ![u] = IF @ = NoRow THEN NewRow ELSE @]
            ELSE Goto(r, [q EXCEPT !.pc = "row"]) /\ UNCHANGED streak
  /\ UNCHANGED <<today, logged, tasks, freezes, work>>

\* ensureStreakRow.
ReadRow(r) ==
  LET u == req[r].user
      row == IF streak[u] = NoRow THEN NewRow ELSE streak[u] IN
  /\ At(r, "row")
  /\ streak' = [streak EXCEPT ![u] = row]
  /\ Goto(r, [req[r] EXCEPT !.pc = "judge", !.seen = row])
  /\ UNCHANGED <<today, logged, tasks, freezes, work>>

\* The counts are of the tasks as they are now, whatever day is judged.
Qualifies(u, d) ==
  /\ d \in logged[u] \/ tasks[u][d] = "none"
  /\ \A k \in Days : k =< d => tasks[u][k] # "open"

Judge(r) ==
  /\ At(r, "judge")
  /\ Goto(r, [req[r] EXCEPT !.pc = "write", !.credit = Qualifies(req[r].user, req[r].day)])
  /\ UNCHANGED <<today, logged, tasks, freezes, streak, work>>

\* Fault: a day is credited each time it is ticked.
CreditedAgain(row, d) ==
  LET n == row.current + 1 IN
  [current |-> n, longest |-> IF n > row.longest THEN n ELSE row.longest, credited |-> d]

Credited(row, d) ==
  LET n == IF row.credited = d THEN row.current ELSE row.current + 1 IN
  [current |-> n, longest |-> IF n > row.longest THEN n ELSE row.longest, credited |-> d]

\* The credit is of the row as it was read; the reset names one column.
Write(r) ==
  LET u == req[r].user IN
  /\ At(r, "write")
  /\ streak' = [streak EXCEPT ![u] =
       IF req[r].credit THEN Credited(req[r].seen, req[r].day) ELSE [@ EXCEPT !.current = 0]]
  /\ Goto(r, [req[r] EXCEPT !.pc = "user"])
  /\ UNCHANGED <<today, logged, tasks, freezes, work>>

Die(r) ==
  /\ ~At(r, "idle")
  /\ Goto(r, Idle)
  /\ UNCHANGED <<today, logged, tasks, freezes, streak, work>>

TickStep(r) == NextUser(r) \/ ReadRow(r) \/ Judge(r) \/ Write(r) \/ Die(r)

Work ==
  \E u \in Users :
    \/ LogFollowUp(u) \/ GetStreak(u)
    \/ \E d \in Days : SetTask(u, d) \/ GrantFreeze(u, d) \/ GrantFreeze(Everyone, d)

Next ==
  \/ NextDay \/ Work
  \/ \E r \in Reqs : TickStep(r) \/ \E d \in 1 .. today : TickBegin(r, d)

Spec == Init /\ [][Next]_vars

\* Only the cron job ticks: each tick is of its day.
DailyNext == NextDay \/ Work \/ \E r \in Reqs : TickStep(r) \/ TickBegin(r, today)
DailySpec == Init /\ [][DailyNext]_vars

-----------------------------------------------------------------------------

\* "Streak counts working days" (streak-badge.tsx): a streak is of no more days than
\* there were workdays up to the last one credited, and its record is no shorter.
Earned ==
  \A u \in Users :
    LET row == streak[u] IN
    row.current =< Cardinality({d \in Workdays : d =< row.credited}) /\ row.current =< row.longest

=============================================================================
