-------------------------- MODULE EngagementProofs --------------------------
(***************************************************************************)
(* Theorems about Engagement for every number of users, days and requests: *)
(* ticks of the day count a day once, however they overlap, die and are    *)
(* sent again.                                                             *)
(***************************************************************************)
EXTENDS Engagement, FiniteSetTheorems, TLAPS

\* The parameters as the MC module gives them: there are days, and work is bounded.
Parameters == MaxDay \in Nat \ {0} /\ MaxWork \in Nat

-----------------------------------------------------------------------------
(* Types *)

LEMMA RowsTyped ==
  ASSUME Parameters
  PROVE  NoRow \in Row /\ NewRow \in Row /\ NewRow = [current |-> 0, longest |-> 0, credited |-> 0]
BY DEF Parameters, NoRow, NewRow, NoDay, Row

\* A credit keeps a row a row.
LEMMA CreditTyped ==
  ASSUME Parameters, NEW row \in Row, NEW d \in Days
  PROVE  Credited(row, d) \in Row
<1> DEFINE n == IF row.credited = d THEN row.current ELSE row.current + 1
<1>1. n \in Nat \cup {-1} /\ row.longest \in Nat /\ d \in 0 .. MaxDay
  BY DEF Row, Days, Parameters
<1>2. (IF n > row.longest THEN n ELSE row.longest) \in Nat
  BY <1>1
<1> QED
  BY <1>1, <1>2 DEF Credited, Row

\* The requests in flight but for the idle ones.
Ticking ==
  [pc: {"user", "row", "judge", "write"}, day: Days, todo: SUBSET Users, user: Users,
   seen: Row, credit: BOOLEAN]

LEMMA RequestIs ==
  ASSUME TypeOK, NEW r \in Reqs, ~At(r, "idle")
  PROVE  req[r] \in Ticking
BY DEF TypeOK, Request, Ticking, At, Idle

LEMMA Going ==
  ASSUME TypeOK, NEW r \in Reqs, NEW q, Goto(r, q)
  PROVE  req'[r] = q /\ \A k \in Reqs \ {r} : req'[k] = req[k]
BY DEF TypeOK, Goto

LEMMA TypedGoing ==
  ASSUME TypeOK, NEW r \in Reqs, NEW q \in Request, Goto(r, q),
         streak' \in [Users -> Row], UNCHANGED <<today, logged, tasks, freezes, work>>
  PROVE  TypeOK'
BY DEF TypeOK, Goto

\* What people do leaves the requests alone, and every row but one it makes.
LEMMA WorkIs ==
  ASSUME Parameters, TypeOK, Work
  PROVE  /\ TypeOK' /\ UNCHANGED <<today, req>>
         /\ \A u \in Users : streak'[u] = streak[u] \/ streak'[u] = NewRow
<1>1. ASSUME NEW u \in Users, LogFollowUp(u)
      PROVE  TypeOK' /\ UNCHANGED <<today, req, streak>>
  BY <1>1 DEF LogFollowUp, TypeOK, Parameters
<1>2. ASSUME NEW u \in Users, GetStreak(u)
      PROVE  /\ TypeOK' /\ UNCHANGED <<today, req>>
             /\ \A v \in Users : streak'[v] = streak[v] \/ streak'[v] = NewRow
  BY <1>2, RowsTyped DEF GetStreak, TypeOK
<1>3. ASSUME NEW u \in Users, NEW d \in Days, SetTask(u, d)
      PROVE  TypeOK' /\ UNCHANGED <<today, req, streak>>
  <2>1. tasks' \in [Users -> [Days -> {"none", "open", "closed"}]]
    BY <1>3 DEF SetTask, TypeOK
  <2>2. work' \in 0 .. MaxWork
    BY <1>3 DEF SetTask, TypeOK, Parameters
  <2> QED
    BY <1>3, <2>1, <2>2 DEF SetTask, TypeOK
<1>4. ASSUME NEW u \in Users \cup {Everyone}, NEW d \in Days, GrantFreeze(u, d)
      PROVE  TypeOK' /\ UNCHANGED <<today, req, streak>>
  <2>1. work' \in 0 .. MaxWork
    BY <1>4 DEF GrantFreeze, TypeOK, Parameters
  <2> QED
    BY <1>4, <2>1 DEF GrantFreeze, TypeOK
<1> QED
  BY <1>1, <1>2, <1>3, <1>4 DEF Work

LEMMA TypedBegin ==
  ASSUME Parameters, TypeOK, NEW r \in Reqs, NEW day \in Days, TickBegin(r, day)
  PROVE  TypeOK'
<1>1. PICK u \in Users :
        Goto(r, [pc |-> "user", day |-> day, todo |-> Users, user |-> u, seen |-> NoRow,
                 credit |-> FALSE])
  BY DEF TickBegin
<1>2. [pc |-> "user", day |-> day, todo |-> Users, user |-> u, seen |-> NoRow,
       credit |-> FALSE] \in Request
  BY RowsTyped DEF Request
<1> QED
  BY <1>1, <1>2, TypedGoing DEF TickBegin, TypeOK

LEMMA TypedStep ==
  ASSUME Parameters, TypeOK, NEW r \in Reqs, TickStep(r)
  PROVE  TypeOK'
<1>1. CASE NextUser(r)
  <2>0. req[r] \in Ticking
    BY <1>1, RequestIs DEF NextUser, At
  <2>1. CASE req[r].todo = {}
    BY <1>1, <2>1, TypedGoing DEF NextUser, TypeOK, Request
  <2>2. CASE req[r].todo # {}
    <3>1. PICK u \in req[r].todo :
            LET q == [req[r] EXCEPT !.user = u, !.todo = @ \ {u}] IN
            IF Frozen(u, q.day)
            THEN /\ Goto(r, q)
                 /\ streak' = [streak EXCEPT ![u] = IF @ = NoRow THEN NewRow ELSE @]
            ELSE Goto(r, [q EXCEPT !.pc = "row"]) /\ UNCHANGED streak
      BY <1>1, <2>2 DEF NextUser
    <3>2. u \in Users
      BY <2>0 DEF Ticking
    <3>3. streak' \in [Users -> Row]
      BY <3>1, <3>2, RowsTyped DEF TypeOK
    <3>4. PICK q \in Ticking : Goto(r, q)
      <4> DEFINE q == [req[r] EXCEPT !.user = u, !.todo = @ \ {u}]
      <4>1. q \in Ticking /\ [q EXCEPT !.pc = "row"] \in Ticking
        BY <2>0, <3>2 DEF Ticking
      <4> QED
        BY <3>1, <4>1
    <3> QED
      BY <1>1, <3>3, <3>4, TypedGoing DEF NextUser, Request, Ticking
  <2> QED
    BY <2>1, <2>2
<1>2. CASE ReadRow(r)
  <2> DEFINE row == IF streak[req[r].user] = NoRow THEN NewRow ELSE streak[req[r].user]
  <2>1. req[r] \in Ticking
    BY <1>2, RequestIs DEF ReadRow, At
  <2>2. row \in Row
    BY <2>1, RowsTyped DEF Ticking, TypeOK
  <2>3. [req[r] EXCEPT !.pc = "judge", !.seen = row] \in Request
    BY <2>1, <2>2 DEF Ticking, Request
  <2>4. streak' \in [Users -> Row]
    BY <1>2, <2>1, <2>2 DEF ReadRow, TypeOK
  <2> QED
    BY <1>2, <2>3, <2>4, TypedGoing DEF ReadRow
<1>3. CASE Judge(r)
  <2>1. req[r] \in Ticking
    BY <1>3, RequestIs DEF Judge, At
  <2>2. Qualifies(req[r].user, req[r].day) \in BOOLEAN
    BY DEF Qualifies
  <2>3. [req[r] EXCEPT !.pc = "write", !.credit = Qualifies(req[r].user, req[r].day)] \in Request
    BY <2>1, <2>2 DEF Ticking, Request
  <2> QED
    BY <1>3, <2>3, TypedGoing DEF Judge, TypeOK
<1>4. CASE Write(r)
  <2>1. req[r] \in Ticking
    BY <1>4, RequestIs DEF Write, At
  <2>2. Credited(req[r].seen, req[r].day) \in Row
    BY <2>1, CreditTyped DEF Ticking
  <2>3. \A u \in Users : [streak[u] EXCEPT !.current = 0] \in Row
    BY DEF TypeOK, Row
  <2>4. streak' \in [Users -> Row]
    BY <1>4, <2>1, <2>2, <2>3 DEF Write, TypeOK, Ticking
  <2>5. [req[r] EXCEPT !.pc = "user"] \in Request
    BY <2>1 DEF Ticking, Request
  <2> QED
    BY <1>4, <2>4, <2>5, TypedGoing DEF Write
<1>5. CASE Die(r)
  BY <1>5, TypedGoing DEF Die, TypeOK, Request
<1> QED
  BY <1>1, <1>2, <1>3, <1>4, <1>5 DEF TickStep

LEMMA TypedInit == ASSUME Parameters PROVE Init => TypeOK
BY RowsTyped DEF Init, TypeOK, Days, Request, Parameters

\* Every variable has its type, whatever day is ticked how often (tickStreaks).
THEOREM StreaksTyped == ASSUME Parameters PROVE Spec => []TypeOK
<1>1. TypeOK /\ [Next]_vars => TypeOK'
  <2> SUFFICES ASSUME TypeOK, [Next]_vars PROVE TypeOK'
    OBVIOUS
  <2>1. CASE NextDay
    BY <2>1 DEF NextDay, TypeOK, Days, Parameters
  <2>2. ASSUME NEW r \in Reqs, NEW d \in 1 .. today, TickBegin(r, d) PROVE TypeOK'
    <3>1. d \in Days
      BY DEF TypeOK, Days, Parameters
    <3> QED
      BY <2>2, <3>1, TypedBegin
  <2>3. CASE UNCHANGED vars
    BY <2>3 DEF vars, TypeOK
  <2> QED
    BY <2>1, <2>2, <2>3, WorkIs, TypedStep DEF Next
<1> QED
  BY <1>1, TypedInit, PTL DEF Spec

-----------------------------------------------------------------------------
(* Ticks of the day *)

\* The workdays up to d.
Until(d) == {k \in Workdays : k =< d}

\* A row that counts no day twice, on a day.
Fair(row, day) ==
  /\ row.credited =< day
  /\ row.current =< Cardinality(Until(row.credited)) /\ row.current =< row.longest

\* What a request on day may write: it goes on to a user's row on a workday only.
Timely(q, day) ==
  /\ q.pc # "idle" => q.day = day
  /\ q.pc \in {"row", "judge", "write"} => day \notin Weekend
  /\ q.pc \in {"judge", "write"} => Fair(q.seen, day)

\* The inductive invariant: what is read is as fair as what is on file, and of today.
Inv ==
  /\ TypeOK
  /\ \A u \in Users : Fair(streak[u], today)
  /\ \A r \in Reqs : Timely(req[r], today)

LEMMA Counting ==
  ASSUME Parameters, NEW d \in 0 .. MaxDay
  PROVE  /\ IsFiniteSet(Until(d)) /\ Cardinality(Until(d)) \in Nat
         /\ \A e \in Days \ Weekend :
              d < e => Cardinality(Until(d)) + 1 =< Cardinality(Until(e))
<1>1. ASSUME NEW e \in 0 .. MaxDay
      PROVE  IsFiniteSet(Until(e)) /\ Cardinality(Until(e)) \in Nat
  <2>1. IsFiniteSet(1 .. MaxDay) /\ Until(e) \subseteq 1 .. MaxDay
    BY FS_Interval DEF Parameters, Until, Workdays, Days
  <2>2. IsFiniteSet(Until(e))
    BY <2>1, FS_Subset
  <2> QED
    BY <2>2, FS_CardinalityType
<1>2. ASSUME NEW e \in Days \ Weekend, d < e
      PROVE  Cardinality(Until(d)) + 1 =< Cardinality(Until(e))
  <2>1. e \notin Until(d)
    BY <1>2 DEF Until, Days, Parameters
  <2>2. Until(d) \cup {e} \subseteq Until(e)
    BY <1>2 DEF Until, Workdays, Days, Parameters
  <2>3. Cardinality(Until(d) \cup {e}) = Cardinality(Until(d)) + 1
    BY <1>1, <2>1, FS_AddElement
  <2>4. e \in 0 .. MaxDay
    BY DEF Days, Parameters
  <2>5. IsFiniteSet(Until(e))
    BY <1>1, <2>4
  <2>6. Cardinality(Until(d) \cup {e}) =< Cardinality(Until(e))
    BY <2>2, <2>5, FS_Subset
  <2> QED
    BY <2>3, <2>6
<1> QED
  BY <1>1, <1>2

LEMMA RowsFair ==
  ASSUME Parameters, NEW day \in Days
  PROVE  /\ Fair(NoRow, day) /\ Fair(NewRow, day)
         /\ \A row \in Row : Fair(row, day) => Fair([row EXCEPT !.current = 0], day)
<1>1. \A e \in 0 .. MaxDay : Cardinality(Until(e)) \in Nat
  BY Counting
<1>2. 0 \in 0 .. MaxDay /\ day >= 0 /\ NewRow.current = 0 /\ NoRow.current = -1
  BY DEF Parameters, Days, NoRow, NewRow
<1>3. ASSUME NEW row \in Row, Fair(row, day) PROVE Fair([row EXCEPT !.current = 0], day)
  BY <1>1, <1>3 DEF Fair, Row
<1> QED
  BY <1>1, <1>2, <1>3 DEF Fair, NoRow, NewRow, NoDay

\* The credit of a workday is fair: it adds a day to those up to an earlier one.
LEMMA CreditFair ==
  ASSUME Parameters, NEW row \in Row, NEW day \in Days, day \notin Weekend, Fair(row, day)
  PROVE  Fair(Credited(row, day), day)
<1>1. row.credited \in 0 .. MaxDay /\ row.current \in Int /\ row.longest \in Nat
  BY DEF Row
<1>2. day \in 0 .. MaxDay /\ day \in Int
  BY DEF Days, Parameters
<1>3. Cardinality(Until(day)) \in Nat /\ Cardinality(Until(row.credited)) \in Nat
  BY <1>1, <1>2, Counting
<1>4. CASE row.credited = day
  BY <1>1, <1>2, <1>4 DEF Fair, Credited
<1>5. CASE row.credited # day
  <2>1. row.credited < day
    BY <1>1, <1>2, <1>5 DEF Fair
  <2>2. Cardinality(Until(row.credited)) + 1 =< Cardinality(Until(day))
    BY <1>1, <2>1, Counting
  <2> QED
    BY <1>1, <1>2, <1>3, <1>5, <2>2 DEF Fair, Credited
<1> QED
  BY <1>4, <1>5

LEMMA FairGoing ==
  ASSUME Inv, TypeOK', today' = today, NEW r \in Reqs, NEW q, Goto(r, q), Timely(q, today),
         \A u \in Users : Fair(streak'[u], today)
  PROVE  Inv'
<1>1. \A k \in Reqs : Timely(req'[k], today)
  BY Going DEF Inv
<1> QED
  BY <1>1 DEF Inv

LEMMA FairStep ==
  ASSUME Parameters, Inv, NEW r \in Reqs, TickStep(r)
  PROVE  Inv'
<1>1. TypeOK /\ TypeOK' /\ today' = today /\ today \in Days
  BY TypedStep DEF Inv, TypeOK, TickStep, NextUser, ReadRow, Judge, Write, Die
<1>2. Timely(req[r], today) /\ \A u \in Users : streak[u] \in Row /\ Fair(streak[u], today)
  BY DEF Inv, TypeOK
<1>3. Timely(Idle, today)
  BY DEF Timely, Idle
<1>4. CASE NextUser(r)
  <2>1. req[r] \in Ticking
    BY <1>1, <1>4, RequestIs DEF NextUser, At
  <2>2. CASE req[r].todo = {}
    BY <1>1, <1>2, <1>3, <1>4, <2>2, FairGoing DEF NextUser
  <2>3. CASE req[r].todo # {}
    <3>1. PICK u \in req[r].todo :
            LET q == [req[r] EXCEPT !.user = u, !.todo = @ \ {u}] IN
            IF Frozen(u, q.day)
            THEN /\ Goto(r, q)
                 /\ streak' = [streak EXCEPT ![u] = IF @ = NoRow THEN NewRow ELSE @]
            ELSE Goto(r, [q EXCEPT !.pc = "row"]) /\ UNCHANGED streak
      BY <1>4, <2>3 DEF NextUser
    <3> DEFINE q == [req[r] EXCEPT !.user = u, !.todo = @ \ {u}]
    <3>2. req[r].pc = "user" /\ req[r].day = today
      BY <1>2, <1>4 DEF NextUser, At, Timely
    <3>3. q.pc = "user" /\ q.day = today /\ [q EXCEPT !.pc = "row"].pc = "row"
          /\ [q EXCEPT !.pc = "row"].day = today
      BY <2>1, <3>2 DEF Ticking
    <3>4. Timely(q, today) /\ (~Frozen(u, q.day) => Timely([q EXCEPT !.pc = "row"], today))
      BY <3>3 DEF Timely, Frozen
    <3>5. \A v \in Users : Fair(streak'[v], today)
      BY <1>1, <1>2, <3>1, RowsFair DEF TypeOK
    <3> HIDE DEF q
    <3> QED
      BY <1>1, <3>1, <3>4, <3>5, FairGoing DEF q
  <2> QED
    BY <2>2, <2>3
<1>5. CASE ReadRow(r)
  <2> DEFINE row == IF streak[req[r].user] = NoRow THEN NewRow ELSE streak[req[r].user]
             q == [req[r] EXCEPT !.pc = "judge", !.seen = row]
  <2>1. req[r] \in Ticking
    BY <1>1, <1>5, RequestIs DEF ReadRow, At
  <2>2. Fair(row, today)
    BY <1>1, <1>2, <2>1, RowsFair DEF Ticking
  <2>3. req[r].day = today /\ today \notin Weekend
    BY <1>2, <1>5 DEF ReadRow, At, Timely
  <2>4. Timely(q, today)
    BY <2>1, <2>2, <2>3 DEF Timely, Ticking
  <2>5. \A u \in Users : Fair(streak'[u], today)
    BY <1>1, <1>2, <1>5, <2>2 DEF ReadRow, TypeOK
  <2> QED
    BY <1>1, <1>5, <2>4, <2>5, FairGoing DEF ReadRow
<1>6. CASE Judge(r)
  <2> DEFINE q == [req[r] EXCEPT !.pc = "write",
                                 !.credit = Qualifies(req[r].user, req[r].day)]
  <2>1. req[r] \in Ticking
    BY <1>1, <1>6, RequestIs DEF Judge, At
  <2>2. Timely(q, today)
    BY <1>2, <1>6, <2>1 DEF Judge, At, Timely, Ticking
  <2> QED
    BY <1>1, <1>2, <1>6, <2>2, FairGoing DEF Judge
<1>7. CASE Write(r)
  <2>1. req[r] \in Ticking /\ req[r].seen \in Row /\ req[r].user \in Users
    BY <1>1, <1>7, RequestIs DEF Write, At, Ticking
  <2>2. req[r].day = today /\ today \notin Weekend /\ Fair(req[r].seen, today)
    BY <1>2, <1>7 DEF Write, At, Timely
  <2>3. Fair(Credited(req[r].seen, req[r].day), today)
    BY <1>1, <2>1, <2>2, CreditFair
  <2>4. \A u \in Users : Fair([streak[u] EXCEPT !.current = 0], today)
    BY <1>1, <1>2, RowsFair
  <2>5. \A u \in Users : Fair(streak'[u], today)
    BY <1>1, <1>2, <1>7, <2>1, <2>3, <2>4 DEF Write, TypeOK
  <2>6. Timely([req[r] EXCEPT !.pc = "user"], today)
    BY <2>1, <2>2 DEF Timely, Ticking
  <2> QED
    BY <1>1, <1>7, <2>5, <2>6, FairGoing DEF Write
<1>8. CASE Die(r)
  BY <1>1, <1>2, <1>3, <1>8, FairGoing DEF Die
<1> QED
  BY <1>4, <1>5, <1>6, <1>7, <1>8 DEF TickStep

LEMMA FairBegin ==
  ASSUME Parameters, Inv, NEW r \in Reqs, TickBegin(r, today)
  PROVE  Inv'
<1>1. today \in Days /\ today' = today /\ streak' = streak /\ TypeOK'
  BY TypedBegin DEF Inv, TypeOK, TickBegin
<1>2. PICK u \in Users :
        Goto(r, [pc |-> "user", day |-> today, todo |-> Users, user |-> u, seen |-> NoRow,
                 credit |-> FALSE])
  BY DEF TickBegin
<1>3. Timely([pc |-> "user", day |-> today, todo |-> Users, user |-> u, seen |-> NoRow,
              credit |-> FALSE], today)
  BY DEF Timely
<1> QED
  BY <1>1, <1>2, <1>3, FairGoing DEF Inv

LEMMA FairWork == ASSUME Parameters, Inv, Work PROVE Inv'
<1>1. /\ TypeOK' /\ today' = today /\ req' = req
      /\ \A u \in Users : streak'[u] = streak[u] \/ streak'[u] = NewRow
  BY WorkIs DEF Inv
<1>2. \A u \in Users : Fair(streak'[u], today)
  BY <1>1, RowsFair DEF Inv, TypeOK
<1> QED
  BY <1>1, <1>2 DEF Inv

LEMMA FairNextDay == ASSUME Parameters, Inv, NextDay PROVE Inv'
<1>1. TypeOK'
  BY DEF NextDay, Inv, TypeOK, Days, Parameters
<1>2. \A u \in Users : Fair(streak[u], today')
  <2>1. \A u \in Users : streak[u].credited \in Int
    BY DEF Inv, TypeOK, Row, Parameters
  <2> QED
    BY <2>1 DEF NextDay, Inv, TypeOK, Days, Fair
<1>3. \A r \in Reqs : Timely(req[r], today')
  BY DEF NextDay, At, Timely
<1> QED
  BY <1>1, <1>2, <1>3 DEF NextDay, Inv

LEMMA InvStep == ASSUME Parameters PROVE Inv /\ [DailyNext]_vars => Inv'
<1>1. ASSUME Inv, UNCHANGED vars PROVE Inv'
  BY <1>1 DEF vars, Inv, TypeOK
<1> QED
  BY <1>1, FairStep, FairBegin, FairWork, FairNextDay DEF DailyNext

LEMMA InvInit == ASSUME Parameters PROVE Init => Inv
<1> SUFFICES ASSUME Init PROVE Inv
  OBVIOUS
<1>1. TypeOK
  BY TypedInit
<1>2. \A u \in Users : Fair(streak[u], today)
  BY <1>1, RowsFair DEF Init, TypeOK
<1>3. \A r \in Reqs : Timely(req[r], today)
  BY DEF Init, Timely, Idle
<1> QED
  BY <1>1, <1>2, <1>3 DEF Inv

LEMMA InvMeans == ASSUME Inv PROVE Earned
BY DEF Inv, Fair, Until, Earned

\* Ticks of the day, however they overlap, die and are sent again, count a workday once
\* at most (tickStreaks).
THEOREM StreaksCorrect == ASSUME Parameters PROVE DailySpec => [](TypeOK /\ Earned)
<1>1. Init => Inv
  BY InvInit
<1>2. Inv /\ [DailyNext]_vars => Inv'
  BY InvStep
<1>3. Inv => TypeOK /\ Earned
  BY InvMeans DEF Inv
<1> QED
  BY <1>1, <1>2, <1>3, PTL DEF DailySpec

=============================================================================
