-------------------------- MODULE MCProgressProofs --------------------------
(***************************************************************************)
(* What the table of rates keeps, and what the run of MCProgress checks,   *)
(* for every set of requests, days, published days and bound on deaths,    *)
(* proved with TLAPS.  First the theorems of FxRates: ticks that overlap   *)
(* and die never change an end once it is set, and left to themselves they *)
(* keep the intervals in order, without holes.  Then those of the run: the *)
(* theorems of DigestDelivery, Engagement and PublishTransaction are       *)
(* instantiated as MCProgress instantiates the modules; each behaviour of  *)
(* MCProgress is, of each module, a behaviour under the circumstances its  *)
(* theorem asks for.                                                       *)
(***************************************************************************)
EXTENDS MCProgress, TLAPS, FiniteSetTheorems, WellFoundedInduction

-----------------------------------------------------------------------------
(* The first and the last of a set of days *)

\* A set of days has a first, which Min picks.
LEMMA MinIsFirst ==
  ASSUME NEW S \in SUBSET Nat, S # {}
  PROVE  Min(S) \in S /\ \A d \in S : Min(S) =< d
<1> DEFINE Belows == {0 .. d : d \in S}
<1>1. Belows \subseteq FiniteSubsetsOf(Nat) /\ Belows # {}
  <2>1. \A d \in S : d \in Nat /\ IsFiniteSet(0 .. d)
    BY FS_Interval
  <2>2. \A d \in S : 0 .. d \in SUBSET Nat
    BY <2>1
  <2> QED
    BY <2>1, <2>2 DEF FiniteSubsetsOf
<1>2. PICK B \in Belows : \A C \in Belows : <<C, B>> \notin StrictSubsetOrdering(Nat)
  <2> HIDE DEF Belows
  <2> QED
    BY <1>1, FS_StrictSubsetOrderingWellFounded, WFMin
<1>3. PICK m \in S : B = 0 .. m
  OBVIOUS
<1>4. ASSUME NEW d \in S PROVE m =< d
  <2> SUFFICES ASSUME d < m PROVE FALSE
    OBVIOUS
  <2>1. d \in Nat /\ m \in Nat
    OBVIOUS
  <2>2. 0 .. d \subseteq 0 .. m /\ m \in 0 .. m /\ m \notin 0 .. d
    BY <2>1
  <2>3. <<0 .. d, B>> \in StrictSubsetOrdering(Nat)
    BY <1>3, <2>1, <2>2 DEF StrictSubsetOrdering
  <2> QED
    BY <1>2, <2>3
<1> QED
  BY <1>4 DEF Min

\* A set of days has a last, which Max picks.
LEMMA MaxIsLast ==
  ASSUME NEW S \in SUBSET Days, S # {}
  PROVE  Max(S) \in S /\ \A d \in S : d =< Max(S)
<1> DEFINE Mirror == {MaxDay - d : d \in S}
<1>0. MaxDay \in Nat /\ \A d \in S : d \in Nat /\ d =< MaxDay
  BY FxAssumption DEF Days
<1>1. Mirror \in SUBSET Nat /\ Mirror # {}
  <2>1. \A d \in S : MaxDay - d \in Nat
    BY <1>0
  <2> QED
    BY <2>1
<1>2. PICK m \in Mirror : \A k \in Mirror : m =< k
  <2> HIDE DEF Mirror
  <2> QED
    BY <1>1, MinIsFirst
<1>3. PICK x \in S : m = MaxDay - x
  OBVIOUS
<1>4. ASSUME NEW d \in S PROVE d =< x
  <2>1. MaxDay - d \in Mirror
    OBVIOUS
  <2>2. MaxDay - x =< MaxDay - d
    BY <1>2, <1>3, <2>1
  <2> QED
    BY <1>0, <2>2
<1>5. \E y \in S : \A d \in S : y >= d
  BY <1>0, <1>4
<1>6. Max(S) \in S /\ \A d \in S : Max(S) >= d
  BY <1>5 DEF Max
<1> QED
  BY <1>0, <1>6

-----------------------------------------------------------------------------
(* Types *)

LEMMA Numbers == MaxDay \in Nat /\ Open = MaxDay + 1 /\ Days \subseteq Nat
  BY FxAssumption DEF Days, Open

\* What a request in flight carries.
LEMMA Carried ==
  ASSUME NEW q \in Request
  PROVE  /\ q.pc \in {"idle", "open", "next", "close", "insert"}
         /\ q.pc \in {"open", "next", "close"} => q.at \in 0 .. MaxDay /\ q.named \in BOOLEAN
         /\ q.pc \in {"next", "close"} => q.row \in Days
         /\ q.pc # "idle" => q.todo \in SUBSET Days /\ q.until \in Until
  BY DEF Request, Idle

\* The request r becomes q and the others keep theirs.
LEMMA Going ==
  ASSUME req \in [Reqs -> Request], NEW r \in Reqs, NEW q \in Request, Goto(r, q)
  PROVE  /\ req' \in [Reqs -> Request] /\ req'[r] = q
         /\ \A s \in Reqs \ {r} : req'[s] = req[s]
  BY DEF Goto

\* What ThenInsert makes of a request.
Inserting(todo, until) ==
  IF todo = {} THEN Idle ELSE [pc |-> "insert", todo |-> todo, until |-> until]

LEMMA ThenInserting ==
  ASSUME NEW r \in Reqs, NEW todo \in SUBSET Days, NEW until \in Until,
         ThenInsert(r, todo, until)
  PROVE  Goto(r, Inserting(todo, until)) /\ Inserting(todo, until) \in Request
  BY DEF ThenInsert, Inserting, End, Request, Idle

\* A day's end when the days of S are inserted together: open for the last, the eve of
\* the next for the others.
LEMMA EndIs ==
  ASSUME NEW S \in SUBSET Days, NEW d \in S
  PROVE  \/ EndOf(d, S) = Open /\ \A e \in S : e =< d
         \/ \E e \in S : d < e /\ EndOf(d, S) = e - 1 /\ \A f \in S : f > d => f >= e
<1> DEFINE later == {e \in S : e > d}
<1>1. CASE later = {}
  <2>1. \A e \in S : e =< d
    BY <1>1, Numbers
  <2> QED
    BY <1>1, <2>1 DEF EndOf
<1>2. CASE later # {}
  <2>1. later \in SUBSET Nat
    BY Numbers
  <2>2. Min(later) \in later /\ \A f \in later : Min(later) =< f
    BY <1>2, <2>1, MinIsFirst
  <2>3. EndOf(d, S) = Min(later) - 1
    BY <1>2 DEF EndOf
  <2>4. \A f \in S : f > d => f >= Min(later)
    BY <2>1, <2>2
  <2> QED
    BY <2>2, <2>3, <2>4
<1> QED
  BY <1>1, <1>2

LEMMA EndTyped ==
  ASSUME NEW S \in SUBSET Days, NEW d \in S
  PROVE  EndOf(d, S) \in 0 .. Open
  BY EndIs, Numbers DEF Days

\* The steps that touch the table.
LEMMA TypeInit == Init => TypeOK
<1> SUFFICES ASSUME Init PROVE TypeOK
  OBVIOUS
<1>1. ASSUME NEW start \in Days PROVE Backfilled(start) \in [Days -> Row \cup {None}]
  <2> DEFINE S == Fetched(start, today)
  <2>1. S \in SUBSET Days
    BY FxAssumption DEF Fetched
  <2>2. \A d \in S : [to |-> EndOf(d, S), api |-> TRUE] \in Row
    BY <2>1, EndTyped DEF Row
  <2> QED
    BY <2>2 DEF Backfilled
<1>2. rate \in [Days -> Row \cup {None}]
  BY <1>1 DEF Init
<1>3. Idle \in Request
  BY DEF Request
<1>4. deaths \in 0 .. MaxDeaths
  BY FxAssumption DEF Init
<1> QED
  BY <1>2, <1>3, <1>4 DEF Init, TypeOK

\* What a tick begins with: the published days after the latest row of the provider
\* that are over, and the eve of the first of them.
LEMMA Begins ==
  ASSUME TypeOK, NEW r \in Reqs, NEW named \in BOOLEAN, TickBegin(r, named)
  PROVE  \E m \in ApiRated, q \in Request :
           /\ Goto(r, q) /\ q.pc = "open" /\ q.until = today + 1
           /\ \A e \in ApiRated : e =< m
           /\ q.todo = Fetched(m + 1, today - 1)
           /\ q.at + 1 \in q.todo /\ \A p \in q.todo : p > q.at
           /\ m =< q.at
<1> DEFINE q == [pc |-> "open", at |-> Min(Missing) - 1, todo |-> Missing, named |-> named,
                 until |-> today + 1]
           m == Max(ApiRated)
<1>1. Missing # {} /\ Goto(r, q)
  BY DEF TickBegin
<1>2. ApiRated # {} /\ ApiRated \in SUBSET Days /\ Missing = Fetched(m + 1, today - 1)
  BY <1>1 DEF Missing, ApiRated, Rated
<1>3. m \in ApiRated /\ \A e \in ApiRated : e =< m
  BY <1>2, MaxIsLast
<1>4. m \in Days /\ today \in Days /\ Missing \in SUBSET Days
  BY <1>2, <1>3, FxAssumption DEF Fetched, TypeOK
<1>5. Min(Missing) \in Missing /\ \A p \in Missing : Min(Missing) =< p
  BY <1>1, <1>4, Numbers, MinIsFirst
<1>6. PICK k \in Missing : k = Min(Missing)
  BY <1>5
<1>7. k \in m + 1 .. today - 1 /\ k \in Days
  BY <1>2, <1>4 DEF Fetched
<1>8. q.at = k - 1 /\ m =< k - 1 /\ k - 1 \in 0 .. MaxDay /\ \A p \in Missing : p > k - 1
  BY <1>4, <1>5, <1>6, <1>7, Numbers DEF Days
<1>9. today + 1 \in Until
  BY <1>4, Numbers DEF Until, Days
<1>10. q \in Request
  BY <1>4, <1>8, <1>9 DEF Request
<1>11. q.at + 1 \in q.todo
  BY <1>4, <1>6, <1>8, Numbers
<1> HIDE DEF m
<1> QED
  BY <1>1, <1>2, <1>3, <1>8, <1>10, <1>11

LEMMA FindsOpen ==
  ASSUME TypeOK, NEW r \in Reqs, FindOpen(r)
  PROVE  \E q \in Request :
           /\ Goto(r, q)
           /\ \/ OpenRows = {} /\ q = Inserting(req[r].todo, req[r].until)
              \/ q = Idle
              \/ /\ q.pc = "next" /\ q.row \in OpenRows /\ q.row =< req[r].at
                 /\ q.at = req[r].at /\ q.todo = req[r].todo /\ q.until = req[r].until
<1>1. req[r] \in Request /\ req[r].pc = "open"
  BY DEF TypeOK, FindOpen, At
<1>2. /\ req[r].todo \in SUBSET Days /\ req[r].until \in Until
      /\ req[r].at \in 0 .. MaxDay /\ req[r].named \in BOOLEAN
  BY <1>1, Carried
<1>3. CASE OpenRows = {} /\ ThenInsert(r, req[r].todo, req[r].until)
  BY <1>2, <1>3, ThenInserting
<1>4. ASSUME NEW d \in OpenRows, TooEarly(r, d), End(r)
      PROVE  Goto(r, Idle) /\ Idle \in Request
  BY <1>4 DEF End, Request
<1>5. ASSUME NEW d \in OpenRows, ~TooEarly(r, d),
             Goto(r, [pc |-> "next", at |-> req[r].at, row |-> d, todo |-> req[r].todo,
                      named |-> req[r].named, until |-> req[r].until])
      PROVE  \E q \in Request :
               /\ Goto(r, q)
               /\ q.pc = "next" /\ q.row \in OpenRows /\ q.row =< req[r].at
               /\ q.at = req[r].at /\ q.todo = req[r].todo /\ q.until = req[r].until
  <2> DEFINE q == [pc |-> "next", at |-> req[r].at, row |-> d, todo |-> req[r].todo,
                   named |-> req[r].named, until |-> req[r].until]
  <2>1. d \in Days /\ d =< req[r].at
    BY <1>2, <1>5, Numbers DEF OpenRows, Rated, TooEarly
  <2>2. q \in Request
    BY <1>2, <2>1 DEF Request
  <2> QED
    BY <1>5, <2>1, <2>2
<1> QED
  BY <1>3, <1>4, <1>5 DEF FindOpen

LEMMA FindsNext ==
  ASSUME TypeOK, NEW r \in Reqs, FindNext(r)
  PROVE  \E q \in Request :
           /\ Goto(r, q)
           /\ \/ q = Idle
              \/ /\ ~Overlaps(r)
                 /\ q.pc = "close" /\ q.row = req[r].row /\ q.at = req[r].at
                 /\ q.todo = req[r].todo /\ q.until = req[r].until
<1>1. req[r] \in Request /\ req[r].pc = "next"
  BY DEF TypeOK, FindNext, At
<1>2. Idle \in Request /\ [req[r] EXCEPT !.pc = "close"] \in Request
  BY <1>1 DEF Request, Idle
<1>3. /\ [req[r] EXCEPT !.pc = "close"].pc = "close"
      /\ [req[r] EXCEPT !.pc = "close"].row = req[r].row
      /\ [req[r] EXCEPT !.pc = "close"].at = req[r].at
      /\ [req[r] EXCEPT !.pc = "close"].todo = req[r].todo
      /\ [req[r] EXCEPT !.pc = "close"].until = req[r].until
  BY <1>1 DEF Request, Idle
<1> QED
  BY <1>2, <1>3 DEF FindNext, End

LEMMA Closes ==
  ASSUME TypeOK, NEW r \in Reqs, Close(r)
  PROVE  \E q \in Request :
           /\ Goto(r, q)
           /\ q = Idle \/ q = Inserting(req[r].todo, req[r].until)
<1>1. req[r] \in Request /\ req[r].pc = "close"
  BY DEF TypeOK, Close, At
<1>2. req[r].todo \in SUBSET Days /\ req[r].until \in Until
  BY <1>1, Carried
<1>3. Idle \in Request
  BY DEF Request
<1> QED
  BY <1>2, <1>3, ThenInserting DEF Close, End

\* The rest of an insertion, and the row it has inserted unless an index forbade it.
LEMMA Inserts ==
  ASSUME TypeOK, NEW r \in Reqs, Insert(r), req[r].todo # {}
  PROVE  \E d \in req[r].todo :
           /\ \A e \in req[r].todo : d =< e
           /\ Goto(r, Inserting(req[r].todo \ {d}, req[r].until))
           /\ Inserting(req[r].todo \ {d}, req[r].until) \in Request
           /\ EndOf(d, req[r].todo) \in 0 .. Open
           /\ \/ /\ Admits(d, EndOf(d, req[r].todo))
                 /\ rate' = [rate EXCEPT ![d] = [to |-> EndOf(d, req[r].todo), api |-> TRUE]]
              \/ ~Admits(d, EndOf(d, req[r].todo)) /\ rate' = rate
<1>1. req[r] \in Request /\ req[r].pc = "insert"
  BY DEF TypeOK, Insert, At
<1>2. PICK S \in SUBSET Days : S = req[r].todo /\ req[r].until \in Until
  BY <1>1, Carried
<1>3. Min(S) \in S /\ \A e \in S : Min(S) =< e
  BY <1>2, Numbers, MinIsFirst
<1>4. PICK d \in S : d = Min(S)
  BY <1>3
<1>5. /\ Goto(r, Inserting(S \ {d}, req[r].until))
      /\ Inserting(S \ {d}, req[r].until) \in Request
  BY <1>2, <1>4, ThenInserting DEF Insert
<1>6. rate' = IF Admits(d, EndOf(d, S))
              THEN [rate EXCEPT ![d] = [to |-> EndOf(d, S), api |-> TRUE]] ELSE rate
  BY <1>2, <1>4 DEF Insert
<1>7. EndOf(d, S) \in 0 .. Open
  BY EndTyped
<1> QED
  BY <1>2, <1>3, <1>4, <1>5, <1>6, <1>7

-----------------------------------------------------------------------------
(* Type correctness *)

\* An insertion in flight has a day to insert.
InsertsSome == \A r \in Reqs : At(r, "insert") => req[r].todo # {}

\* A request becomes q; the table keeps its type.
LEMMA TypedGoing ==
  ASSUME TypeOK, InsertsSome, NEW r \in Reqs, NEW q \in Request, Goto(r, q),
         q.pc = "insert" => q.todo # {},
         rate' \in [Days -> Row \cup {None}], today' \in Days, deaths' \in 0 .. MaxDeaths
  PROVE  TypeOK' /\ InsertsSome'
<1>1. /\ req' \in [Reqs -> Request] /\ req'[r] = q
      /\ \A s \in Reqs \ {r} : req'[s] = req[s]
  BY Going DEF TypeOK
<1>2. TypeOK'
  BY <1>1 DEF TypeOK
<1>3. ASSUME NEW s \in Reqs, req'[s].pc = "insert" PROVE req'[s].todo # {}
  BY <1>1, <1>3 DEF InsertsSome, At
<1> QED
  BY <1>2, <1>3 DEF InsertsSome, At

LEMMA InsertingSome ==
  ASSUME NEW todo, NEW until, Inserting(todo, until).pc = "insert"
  PROVE  Inserting(todo, until).todo # {}
  BY DEF Inserting, Idle

\* A row with another end is a row.
LEMMA Rewritten ==
  ASSUME NEW q \in Row \cup {None}, NEW to \in 0 .. Open
  PROVE  /\ [q EXCEPT !.to = to] \in Row
         /\ [q EXCEPT !.to = to].to = to /\ [q EXCEPT !.to = to].api = q.api
<1>1. CASE q \in Row
  BY <1>1 DEF Row
<1>2. CASE q = None
  BY <1>2 DEF Row, None
<1> QED
  BY <1>1, <1>2

LEMMA AddTyped ==
  ASSUME TypeOK, InsertsSome, NEW d \in Days, NEW api \in BOOLEAN, Add(d, api)
  PROVE  TypeOK' /\ InsertsSome'
<1>1. [to |-> Open, api |-> api] \in Row
  BY Numbers DEF Row
<1>2. rate' \in [Days -> Row \cup {None}]
  BY <1>1 DEF Add, TypeOK
<1> QED
  BY <1>2 DEF Add, TypeOK, InsertsSome, At

LEMMA TickTyped ==
  ASSUME TypeOK, InsertsSome, NEW r \in Reqs, Tick(r)
  PROVE  TypeOK' /\ InsertsSome'
<1>1. ASSUME NEW named \in BOOLEAN, TickBegin(r, named) PROVE TypeOK' /\ InsertsSome'
  <2>1. PICK q \in Request : Goto(r, q) /\ q.pc = "open"
    BY <1>1, Begins
  <2>2. rate' = rate /\ today' = today /\ deaths' = deaths
    BY <1>1 DEF TickBegin
  <2> QED
    BY <2>1, <2>2, TypedGoing DEF TypeOK
<1>2. CASE FindOpen(r)
  <2>1. PICK q \in Request :
          /\ Goto(r, q)
          /\ \/ q = Inserting(req[r].todo, req[r].until)
             \/ q = Idle
             \/ q.pc = "next"
    BY <1>2, FindsOpen
  <2>2. q.pc = "insert" => q.todo # {}
    BY <2>1, InsertingSome DEF Idle
  <2>3. rate' = rate /\ today' = today /\ deaths' = deaths
    BY <1>2 DEF FindOpen
  <2> QED
    BY <2>1, <2>2, <2>3, TypedGoing DEF TypeOK
<1>3. CASE FindNext(r)
  <2>1. PICK q \in Request : Goto(r, q) /\ (q = Idle \/ q.pc = "close")
    BY <1>3, FindsNext
  <2>2. q.pc = "insert" => q.todo # {}
    BY <2>1 DEF Idle
  <2>3. rate' = rate /\ today' = today /\ deaths' = deaths
    BY <1>3 DEF FindNext
  <2> QED
    BY <2>1, <2>2, <2>3, TypedGoing DEF TypeOK
<1>4. CASE Close(r)
  <2>1. PICK q \in Request :
          Goto(r, q) /\ (q = Idle \/ q = Inserting(req[r].todo, req[r].until))
    BY <1>4, Closes
  <2>2. q.pc = "insert" => q.todo # {}
    BY <2>1, InsertingSome DEF Idle
  <2>3. req[r].row \in Days /\ req[r].at \in 0 .. Open
    BY <1>4, Carried, Numbers DEF TypeOK, Close, At
  <2>4. rate' \in [Days -> Row \cup {None}] /\ today' = today /\ deaths' = deaths
    <3>1. [rate[req[r].row] EXCEPT !.to = req[r].at] \in Row
      BY <2>3, Rewritten DEF TypeOK
    <3> QED
      BY <1>4, <2>3, <3>1 DEF TypeOK, Close
  <2> QED
    BY <2>1, <2>2, <2>4, TypedGoing DEF TypeOK
<1>5. CASE Insert(r)
  <2>1. req[r].todo # {}
    BY <1>5 DEF InsertsSome, Insert
  <2>2. PICK d \in req[r].todo :
          /\ Goto(r, Inserting(req[r].todo \ {d}, req[r].until))
          /\ Inserting(req[r].todo \ {d}, req[r].until) \in Request
          /\ EndOf(d, req[r].todo) \in 0 .. Open
          /\ \/ rate' = [rate EXCEPT ![d] = [to |-> EndOf(d, req[r].todo), api |-> TRUE]]
             \/ rate' = rate
    BY <1>5, <2>1, Inserts
  <2>3. rate' \in [Days -> Row \cup {None}]
    <3>1. [to |-> EndOf(d, req[r].todo), api |-> TRUE] \in Row
      BY <2>2 DEF Row
    <3> QED
      BY <2>2, <3>1 DEF TypeOK
  <2>4. today' \in Days /\ deaths' \in 0 .. MaxDeaths
    BY <1>5 DEF TypeOK, Insert
  <2> QED
    BY <2>2, <2>3, <2>4, InsertingSome, TypedGoing
<1> QED
  BY <1>1, <1>2, <1>3, <1>4, <1>5 DEF Tick, Step

LEMMA DieTyped ==
  ASSUME TypeOK, InsertsSome, NEW r \in Reqs, Die(r)
  PROVE  TypeOK' /\ InsertsSome'
<1>1. Idle \in Request /\ Idle.pc = "idle"
  BY DEF Request, Idle
<1>2. deaths' \in 0 .. MaxDeaths
  BY FxAssumption DEF Die, TypeOK
<1> QED
  BY <1>1, <1>2, TypedGoing DEF Die, End, TypeOK

LEMMA BackfillTyped ==
  ASSUME TypeOK, InsertsSome, NEW r \in Reqs, NEW start \in Days, BackfillBegin(r, start)
  PROVE  TypeOK' /\ InsertsSome'
<1>1. Fetched(start, today) \in SUBSET Days /\ Open \in Until
  BY FxAssumption, Numbers DEF Fetched, Until
<1>2. PICK q \in Request : q = Inserting(Fetched(start, today), Open) /\ Goto(r, q)
  BY <1>1, ThenInserting DEF BackfillBegin
<1> QED
  BY <1>2, InsertingSome, TypedGoing DEF BackfillBegin, TypeOK

LEMMA ClosingTyped ==
  ASSUME TypeOK, InsertsSome, NEW r \in Reqs, NEW at \in Days, CloseBegin(r, at)
  PROVE  TypeOK' /\ InsertsSome'
<1>1. [pc |-> "open", at |-> at, todo |-> {}, named |-> TRUE, until |-> Open] \in Request
  BY Numbers DEF Request, Until, Days
<1> QED
  BY <1>1, TypedGoing DEF CloseBegin, TypeOK

LEMMA TypedStep == TypeOK /\ InsertsSome /\ [Next]_vars => TypeOK' /\ InsertsSome'
<1> SUFFICES ASSUME TypeOK, InsertsSome, [Next]_vars PROVE TypeOK' /\ InsertsSome'
  OBVIOUS
<1>1. CASE NextDay
  BY <1>1, Numbers DEF NextDay, TypeOK, InsertsSome, At, Days
<1>2. ASSUME NEW r \in Reqs, Tick(r) \/ Die(r) PROVE TypeOK' /\ InsertsSome'
  BY <1>2, TickTyped, DieTyped
<1>3. CASE ByHand
  BY <1>3, AddTyped, BackfillTyped DEF ByHand
<1>4. CASE Closings
  BY <1>4, ClosingTyped DEF Closings
<1>5. CASE UNCHANGED vars
  BY <1>5 DEF vars, TypeOK, InsertsSome, At
<1> QED
  BY <1>1, <1>2, <1>3, <1>4, <1>5 DEF Next, Routine

\* Every variable has its type, whatever overlaps, dies and is written by hand.
THEOREM RatesTyped == Spec => []TypeOK
<1>1. Init => InsertsSome
  BY DEF Init, InsertsSome, At, Idle
<1> QED
  BY <1>1, TypeInit, TypedStep, PTL DEF Spec

-----------------------------------------------------------------------------
(* Ends, once set, stand: ticks, added rates and backfills *)

\* Nothing is published after m and until a.
Clear(m, a) == \A p \in Published : ~(m < p /\ p =< a)

\* The eve of what is published next after d.
Eve(d, a) == a >= d /\ a + 1 \in Published /\ Clear(d, a)

\* Published days without one between that is missing.
Unbroken(S) ==
  /\ S \subseteq Published
  /\ \A p \in Published, a \in S, b \in S : a < p /\ p < b => p \in S

\* The inductive invariant: a rate is open or ends on the eve of the next published
\* day, and a request closes on such an eve, however old what it has read.
EndsOnEve == \A d \in Rated : rate[d].to = Open \/ Eve(d, rate[d].to)

ClosesOnEve(q, R) ==
  /\ q.pc \in {"open", "next", "close"} =>
       /\ q.at + 1 \in q.todo /\ Unbroken(q.todo)
       /\ \A p \in q.todo : p > q.at
       /\ \E m \in R : m =< q.at /\ Clear(m, q.at)
  /\ q.pc \in {"next", "close"} => q.row \in R /\ q.row =< q.at
  /\ q.pc = "close" => Clear(q.row, q.at)
  /\ q.pc = "insert" => Unbroken(q.todo)

Ends == EndsOnEve /\ \A r \in Reqs : ClosesOnEve(req[r], Rated)

\* Of two eves of a day there is one.
LEMMA EveUnique ==
  ASSUME NEW d \in Days, NEW a \in 0 .. MaxDay, NEW b \in 0 .. MaxDay, Eve(d, a), Eve(d, b)
  PROVE  a = b
  BY Numbers, FxAssumption DEF Eve, Clear

\* The end a date gets beside the rest of an unbroken run.
LEMMA EndOnEve ==
  ASSUME NEW S \in SUBSET Days, NEW d \in S, Unbroken(S)
  PROVE  EndOf(d, S) = Open \/ Eve(d, EndOf(d, S))
<1> SUFFICES ASSUME EndOf(d, S) # Open PROVE Eve(d, EndOf(d, S))
  OBVIOUS
<1>1. PICK e \in S : d < e /\ EndOf(d, S) = e - 1 /\ \A f \in S : f > d => f >= e
  BY EndIs
<1>2. d \in Nat /\ e \in Nat /\ e \in Published
  BY Numbers DEF Unbroken
<1>3. ASSUME NEW p \in Published, d < p, p =< e - 1 PROVE FALSE
  <2>1. p \in Nat
    BY Numbers, FxAssumption
  <2>2. p \in S
    BY <1>1, <1>2, <1>3, <2>1 DEF Unbroken
  <2> QED
    BY <1>1, <1>2, <1>3, <2>1, <2>2
<1>4. e - 1 >= d /\ (e - 1) + 1 = e
  BY <1>1, <1>2
<1> QED
  BY <1>1, <1>2, <1>3, <1>4 DEF Eve, Clear

LEMMA FetchedUnbroken ==
  ASSUME NEW a \in Int, NEW b \in Int
  PROVE  Unbroken(Fetched(a, b)) /\ Fetched(a, b) \in SUBSET Days
  BY FxAssumption, Numbers DEF Unbroken, Fetched

LEMMA InsertingUnbroken ==
  ASSUME NEW todo \in SUBSET Days, Unbroken(todo), NEW until, NEW R
  PROVE  ClosesOnEve(Inserting(todo, until), R)
  BY DEF ClosesOnEve, Inserting, Idle

LEMMA RowIsRated ==
  ASSUME NEW q \in Row
  PROVE  q # None
  BY Numbers DEF Row, None

\* A request becomes q; no rate is deleted.
LEMMA EndsGoing ==
  ASSUME TypeOK, Ends, NEW r \in Reqs, NEW q \in Request, Goto(r, q),
         Rated \subseteq Rated', EndsOnEve', ClosesOnEve(q, Rated')
  PROVE  Ends'
<1>1. /\ req' \in [Reqs -> Request] /\ req'[r] = q
      /\ \A s \in Reqs \ {r} : req'[s] = req[s]
  BY Going DEF TypeOK
<1>2. ASSUME NEW s \in Reqs PROVE ClosesOnEve(req'[s], Rated')
  <2>1. CASE s = r
    BY <1>1, <2>1
  <2>2. CASE s # r
    <3>1. ClosesOnEve(req[s], Rated) /\ req'[s] = req[s]
      BY <1>1, <2>2 DEF Ends
    <3> QED
      BY <3>1 DEF ClosesOnEve
  <2> QED
    BY <2>1, <2>2
<1> QED
  BY <1>2 DEF Ends

\* Nothing of the table changes.
LEMMA TableSame ==
  ASSUME rate' = rate
  PROVE  Rated' = Rated /\ ApiRated' = ApiRated /\ OpenRows' = OpenRows
         /\ (EndsOnEve => EndsOnEve') /\ KeepsEnds
  BY DEF Rated, ApiRated, OpenRows, EndsOnEve, KeepsEnds

\* The date d, which had no rate, gets the row q.
LEMMA TableGrows ==
  ASSUME TypeOK, NEW d \in Days, rate[d] = None, NEW q \in Row, rate' = [rate EXCEPT ![d] = q]
  PROVE  /\ rate'[d] = q /\ \A e \in Days \ {d} : rate'[e] = rate[e]
         /\ Rated' = Rated \cup {d} /\ d \notin Rated
         /\ KeepsEnds
         /\ EndsOnEve /\ (q.to = Open \/ Eve(d, q.to)) => EndsOnEve'
<1>1. rate'[d] = q /\ \A e \in Days \ {d} : rate'[e] = rate[e]
  BY DEF TypeOK
<1>2. Rated' = Rated \cup {d} /\ d \notin Rated
  BY <1>1, RowIsRated DEF Rated
<1>3. KeepsEnds
  BY <1>1, <1>2 DEF KeepsEnds, Rated
<1>4. ASSUME EndsOnEve, q.to = Open \/ Eve(d, q.to), NEW e \in Rated'
      PROVE  rate'[e].to = Open \/ Eve(e, rate'[e].to)
  BY <1>1, <1>2, <1>4 DEF EndsOnEve, Rated
<1> QED
  BY <1>1, <1>2, <1>3, <1>4 DEF EndsOnEve

\* The rate of d is closed, at its eve.
LEMMA TableCloses ==
  ASSUME TypeOK, EndsOnEve, NEW d \in Rated, NEW a \in 0 .. MaxDay, Eve(d, a),
         rate' = [rate EXCEPT ![d].to = a]
  PROVE  /\ Rated' = Rated /\ OpenRows' = OpenRows \ {d}
         /\ KeepsEnds /\ EndsOnEve'
         /\ \A e \in Days : rate'[e].api = rate[e].api
<1> DEFINE q == [rate[d] EXCEPT !.to = a]
<1>1. d \in Days /\ rate[d] \in Row /\ a \in 0 .. Open /\ a # Open
  BY Numbers DEF Rated, TypeOK
<1>2. q \in Row /\ q.to = a /\ q.api = rate[d].api
  BY <1>1, Rewritten
<1>3. rate'[d] = q /\ \A e \in Days \ {d} : rate'[e] = rate[e]
  BY <1>1 DEF TypeOK
<1>4. Rated' = Rated
  BY <1>1, <1>2, <1>3, RowIsRated DEF Rated
<1>5. OpenRows' = OpenRows \ {d}
  BY <1>1, <1>2, <1>3, <1>4 DEF OpenRows, Rated
<1>6. rate[d].to # Open => rate'[d] = rate[d]
  <2> SUFFICES ASSUME rate[d].to # Open PROVE q = rate[d]
    BY <1>3
  <2>1. Eve(d, rate[d].to) /\ rate[d].to \in 0 .. MaxDay
    BY <1>1, Numbers DEF EndsOnEve, Row
  <2>2. rate[d].to = a
    BY <1>1, <2>1, EveUnique
  <2> QED
    BY <1>1, <2>2 DEF Row
<1>7. KeepsEnds
  BY <1>3, <1>6 DEF KeepsEnds, Rated
<1>8. EndsOnEve'
  BY <1>2, <1>3, <1>4 DEF EndsOnEve, Rated
<1> QED
  BY <1>1, <1>2, <1>3, <1>4, <1>5, <1>7, <1>8

LEMMA BeginEnds ==
  ASSUME TypeOK, Ends, NEW r \in Reqs, NEW named \in BOOLEAN, TickBegin(r, named)
  PROVE  Ends' /\ KeepsEnds
<1>1. PICK m \in ApiRated, q \in Request :
        /\ Goto(r, q) /\ q.pc = "open"
        /\ q.todo = Fetched(m + 1, today - 1)
        /\ q.at + 1 \in q.todo /\ \A p \in q.todo : p > q.at
        /\ m =< q.at
  BY Begins
<1>2. m \in Rated /\ m \in Nat /\ today \in Nat /\ q.at \in Nat
  BY <1>1, Carried, Numbers DEF ApiRated, Rated, TypeOK
<1>3. Unbroken(q.todo)
  BY <1>1, <1>2, FetchedUnbroken
<1>4. Clear(m, q.at)
  <2> SUFFICES ASSUME NEW p \in Published, m < p, p =< q.at PROVE FALSE
    BY DEF Clear
  <2>1. p \in Nat
    BY Numbers, FxAssumption
  <2>2. q.at + 1 =< today - 1
    BY <1>1, <1>2 DEF Fetched
  <2>3. p \in q.todo
    BY <1>1, <1>2, <2>1, <2>2 DEF Fetched
  <2> QED
    BY <1>1, <1>2, <2>1, <2>3
<1>5. rate' = rate
  BY DEF TickBegin
<1>6. ClosesOnEve(q, Rated)
  BY <1>1, <1>2, <1>3, <1>4 DEF ClosesOnEve
<1> QED
  BY <1>1, <1>5, <1>6, TableSame, EndsGoing DEF Ends

LEMMA FindOpenEnds ==
  ASSUME TypeOK, Ends, NEW r \in Reqs, FindOpen(r)
  PROVE  Ends' /\ KeepsEnds
<1>1. PICK q \in Request :
        /\ Goto(r, q)
        /\ \/ q = Inserting(req[r].todo, req[r].until)
           \/ q = Idle
           \/ /\ q.pc = "next" /\ q.row \in OpenRows /\ q.row =< req[r].at
              /\ q.at = req[r].at /\ q.todo = req[r].todo /\ q.until = req[r].until
  BY FindsOpen
<1>2. ClosesOnEve(req[r], Rated) /\ req[r].pc = "open" /\ req[r].todo \in SUBSET Days
  BY Carried DEF Ends, FindOpen, At, TypeOK
<1>3. Unbroken(req[r].todo)
  BY <1>2 DEF ClosesOnEve
<1>4. ClosesOnEve(q, Rated)
  <2>1. CASE q = Inserting(req[r].todo, req[r].until)
    BY <1>2, <1>3, <2>1, InsertingUnbroken
  <2>2. CASE q = Idle
    BY <2>2 DEF ClosesOnEve, Idle
  <2>3. CASE /\ q.pc = "next" /\ q.row \in OpenRows /\ q.row =< req[r].at
             /\ q.at = req[r].at /\ q.todo = req[r].todo
    BY <1>2, <2>3 DEF ClosesOnEve, OpenRows
  <2> QED
    BY <1>1, <2>1, <2>2, <2>3
<1>5. rate' = rate
  BY DEF FindOpen
<1> QED
  BY <1>1, <1>4, <1>5, TableSame, EndsGoing DEF Ends

LEMMA FindNextEnds ==
  ASSUME TypeOK, Ends, NEW r \in Reqs, FindNext(r)
  PROVE  Ends' /\ KeepsEnds
<1>1. PICK q \in Request :
        /\ Goto(r, q)
        /\ \/ q = Idle
           \/ /\ ~Overlaps(r)
              /\ q.pc = "close" /\ q.row = req[r].row /\ q.at = req[r].at
              /\ q.todo = req[r].todo
  BY FindsNext
<1>2. /\ ClosesOnEve(req[r], Rated) /\ req[r].pc = "next"
      /\ req[r].row \in Days /\ req[r].at \in 0 .. MaxDay
  BY Carried DEF Ends, FindNext, At, TypeOK
<1>4. ASSUME ~Overlaps(r) PROVE Clear(req[r].row, req[r].at)
  <2>1. PICK m \in Rated : m =< req[r].at /\ Clear(m, req[r].at)
    BY <1>2 DEF ClosesOnEve
  <2>2. m \in Nat /\ req[r].row \in Nat /\ req[r].at \in Nat
    <3>1. m \in Nat
      BY Numbers DEF Rated
    <3>2. req[r].row \in Nat
      BY <1>2, Numbers
    <3>3. req[r].at \in Nat
      BY <1>2, Numbers
    <3> QED
      BY <3>1, <3>2, <3>3
  <2>3. m =< req[r].row
    BY <1>4, <2>1, <2>2 DEF Overlaps
  <2> QED
    BY <2>1, <2>2, <2>3, Numbers, FxAssumption DEF Clear
<1>5. ClosesOnEve(q, Rated)
  <2>1. CASE q = Idle
    BY <2>1 DEF ClosesOnEve, Idle
  <2>2. CASE /\ ~Overlaps(r)
             /\ q.pc = "close" /\ q.row = req[r].row /\ q.at = req[r].at
             /\ q.todo = req[r].todo
    BY <1>2, <1>4, <2>2 DEF ClosesOnEve
  <2> QED
    BY <1>1, <2>1, <2>2
<1>6. rate' = rate
  BY DEF FindNext
<1> QED
  BY <1>1, <1>5, <1>6, TableSame, EndsGoing DEF Ends

LEMMA CloseEnds ==
  ASSUME TypeOK, Ends, NEW r \in Reqs, Close(r)
  PROVE  Ends' /\ KeepsEnds /\ Rated' = Rated /\ OpenRows' = OpenRows \ {req[r].row}
         /\ \A e \in Days : rate'[e].api = rate[e].api
<1>1. PICK q \in Request : Goto(r, q) /\ (q = Idle \/ q = Inserting(req[r].todo, req[r].until))
  BY Closes
<1>2. /\ ClosesOnEve(req[r], Rated) /\ req[r].pc = "close"
      /\ req[r].at \in 0 .. MaxDay /\ req[r].todo \in SUBSET Days
  BY Carried DEF Ends, Close, At, TypeOK
<1>3. PICK d \in Rated : d = req[r].row
  BY <1>2 DEF ClosesOnEve
<1>4. Eve(d, req[r].at)
  <2>1. req[r].at + 1 \in Published /\ d =< req[r].at /\ Clear(d, req[r].at)
    BY <1>2, <1>3 DEF ClosesOnEve, Unbroken
  <2> QED
    BY <1>2, <1>3, <2>1 DEF Eve
<1>5. rate' = [rate EXCEPT ![d].to = req[r].at]
  BY <1>3 DEF Close
<1>6. /\ Rated' = Rated /\ OpenRows' = OpenRows \ {d} /\ KeepsEnds /\ EndsOnEve'
      /\ \A e \in Days : rate'[e].api = rate[e].api
  BY <1>2, <1>4, <1>5, TableCloses DEF Ends
<1>7. ClosesOnEve(q, Rated')
  <2>1. Unbroken(req[r].todo)
    BY <1>2 DEF ClosesOnEve
  <2>2. ClosesOnEve(Inserting(req[r].todo, req[r].until), Rated')
    BY <1>2, <2>1, InsertingUnbroken
  <2>3. ClosesOnEve(Idle, Rated')
    BY DEF ClosesOnEve, Idle
  <2> QED
    BY <1>1, <2>2, <2>3
<1> QED
  BY <1>1, <1>3, <1>6, <1>7, EndsGoing

LEMMA UnbrokenRest ==
  ASSUME NEW S \in SUBSET Days, NEW d \in S, Unbroken(S), \A e \in S : d =< e
  PROVE  Unbroken(S \ {d}) /\ S \ {d} \in SUBSET Days
<1>1. S \ {d} \subseteq Published
  BY DEF Unbroken
<1>2. ASSUME NEW p \in Published, NEW a \in S \ {d}, NEW b \in S \ {d}, a < p, p < b
      PROVE  p \in S \ {d}
  <2>1. p \in S
    BY <1>2 DEF Unbroken
  <2>2. d \in Nat /\ a \in Nat /\ p \in Nat /\ d =< a
    BY <2>1, Numbers
  <2> QED
    BY <1>2, <2>1, <2>2
<1> QED
  BY <1>1, <1>2 DEF Unbroken

LEMMA InsertEnds ==
  ASSUME TypeOK, InsertsSome, Ends, NEW r \in Reqs, Insert(r)
  PROVE  Ends' /\ KeepsEnds
<1>1. /\ ClosesOnEve(req[r], Rated) /\ req[r].pc = "insert" /\ req[r].todo # {}
      /\ req[r].todo \in SUBSET Days
  BY Carried DEF Ends, Insert, At, TypeOK, InsertsSome
<1>2. PICK S \in SUBSET Days : S = req[r].todo /\ Unbroken(S)
  BY <1>1 DEF ClosesOnEve
<1>3. PICK d \in S :
        /\ \A e \in S : d =< e
        /\ Goto(r, Inserting(S \ {d}, req[r].until))
        /\ Inserting(S \ {d}, req[r].until) \in Request
        /\ EndOf(d, S) \in 0 .. Open
        /\ \/ /\ Admits(d, EndOf(d, S))
              /\ rate' = [rate EXCEPT ![d] = [to |-> EndOf(d, S), api |-> TRUE]]
           \/ rate' = rate
  BY <1>1, <1>2, Inserts
<1>4. Rated \subseteq Rated' /\ EndsOnEve' /\ KeepsEnds
  <2>1. CASE rate' = rate
    BY <2>1, TableSame DEF Ends
  <2>2. CASE /\ Admits(d, EndOf(d, S))
             /\ rate' = [rate EXCEPT ![d] = [to |-> EndOf(d, S), api |-> TRUE]]
    <3>1. [to |-> EndOf(d, S), api |-> TRUE] \in Row /\ d \in Days /\ rate[d] = None
      BY <1>3, <2>2 DEF Row, Admits
    <3>2. EndOf(d, S) = Open \/ Eve(d, EndOf(d, S))
      BY <1>2, EndOnEve
    <3> QED
      BY <2>2, <3>1, <3>2, TableGrows DEF Ends
  <2> QED
    BY <1>3, <2>1, <2>2
<1>5. ClosesOnEve(Inserting(S \ {d}, req[r].until), Rated')
  BY <1>2, <1>3, UnbrokenRest, InsertingUnbroken
<1> QED
  BY <1>3, <1>4, <1>5, EndsGoing

LEMMA AddEnds ==
  ASSUME TypeOK, Ends, NEW d \in Days, NEW api \in BOOLEAN, Add(d, api)
  PROVE  Ends' /\ KeepsEnds
<1>1. /\ [to |-> Open, api |-> api] \in Row /\ rate[d] = None
      /\ rate' = [rate EXCEPT ![d] = [to |-> Open, api |-> api]]
  BY Numbers DEF Row, Add, Admits
<1>2. Rated \subseteq Rated' /\ EndsOnEve' /\ KeepsEnds
  BY <1>1, TableGrows DEF Ends
<1>3. ASSUME NEW r \in Reqs PROVE ClosesOnEve(req'[r], Rated')
  <2>1. ClosesOnEve(req[r], Rated) /\ req' = req
    BY DEF Ends, Add
  <2> QED
    BY <1>2, <2>1 DEF ClosesOnEve
<1> QED
  BY <1>2, <1>3 DEF Ends

LEMMA BackfillEnds ==
  ASSUME TypeOK, Ends, NEW r \in Reqs, NEW start \in Days, BackfillBegin(r, start)
  PROVE  Ends' /\ KeepsEnds
<1> DEFINE todo == Fetched(start, today)
<1>1. Unbroken(todo) /\ todo \in SUBSET Days
  <2>1. start \in Int /\ today \in Int
    BY Numbers DEF TypeOK
  <2> QED
    BY <2>1, FetchedUnbroken
<1>2. Open \in Until
  BY Numbers DEF Until
<1>3. Goto(r, Inserting(todo, Open)) /\ Inserting(todo, Open) \in Request
  BY <1>1, <1>2, ThenInserting DEF BackfillBegin
<1>4. ClosesOnEve(Inserting(todo, Open), Rated)
  BY <1>1, InsertingUnbroken
<1>5. rate' = rate
  BY DEF BackfillBegin
<1> QED
  BY <1>3, <1>4, <1>5, TableSame, EndsGoing DEF Ends

LEMMA DieEnds ==
  ASSUME TypeOK, Ends, NEW r \in Reqs, Die(r)
  PROVE  Ends' /\ KeepsEnds
<1>1. Idle \in Request /\ ClosesOnEve(Idle, Rated) /\ Goto(r, Idle) /\ rate' = rate
  BY DEF Request, Idle, ClosesOnEve, Die, End
<1> QED
  BY <1>1, TableSame, EndsGoing DEF Ends

\* Neither the table nor a request moves.
LEMMA StillEnds ==
  ASSUME Ends, rate' = rate, req' = req
  PROVE  Ends' /\ KeepsEnds
<1>1. Rated' = Rated /\ EndsOnEve' /\ KeepsEnds
  BY TableSame DEF Ends
<1> QED
  BY <1>1 DEF Ends

LEMMA EndsStep ==
  TypeOK /\ InsertsSome /\ Ends /\ [Routine \/ ByHand]_vars => Ends' /\ KeepsEnds
<1> SUFFICES ASSUME TypeOK, InsertsSome, Ends, [Routine \/ ByHand]_vars
             PROVE  Ends' /\ KeepsEnds
  OBVIOUS
<1>1. CASE NextDay \/ UNCHANGED vars
  BY <1>1, StillEnds DEF NextDay, vars
<1>2. ASSUME NEW r \in Reqs, Tick(r) PROVE Ends' /\ KeepsEnds
  BY <1>2, BeginEnds, FindOpenEnds, FindNextEnds, CloseEnds, InsertEnds DEF Tick, Step
<1>3. ASSUME NEW r \in Reqs, Die(r) PROVE Ends' /\ KeepsEnds
  BY <1>3, DieEnds
<1>4. CASE ByHand
  BY <1>4, AddEnds, BackfillEnds DEF ByHand
<1> QED
  BY <1>1, <1>2, <1>3, <1>4 DEF Routine

\* What Backfilled leaves: the published days of a stretch, up to today.
LEMMA BackfilledIs ==
  ASSUME TypeOK, NEW start \in Days, rate = Backfilled(start)
  PROVE  LET S == Fetched(start, today) IN
           /\ S \in SUBSET Days /\ Unbroken(S)
           /\ Rated = S
           /\ \A d \in S : rate[d].to = EndOf(d, S) /\ rate[d].api = TRUE
<1> DEFINE S == Fetched(start, today)
<1>1. Unbroken(S) /\ S \in SUBSET Days
  <2>1. start \in Int /\ today \in Int
    BY Numbers DEF TypeOK
  <2> QED
    BY <2>1, FetchedUnbroken
<1>2. ASSUME NEW d \in S
      PROVE  /\ rate[d].to = EndOf(d, S) /\ rate[d].api = TRUE /\ rate[d] # None
  <2>1. d \in Days /\ rate[d] = [to |-> EndOf(d, S), api |-> TRUE]
    BY <1>1 DEF Backfilled
  <2> QED
    BY <2>1 DEF None
<1>3. \A d \in Days \ S : rate[d] = None
  BY DEF Backfilled
<1>4. Rated = S
  BY <1>1, <1>2, <1>3 DEF Rated
<1> QED
  BY <1>1, <1>2, <1>4

LEMMA EndsInit == Init => Ends
<1> SUFFICES ASSUME Init PROVE Ends
  OBVIOUS
<1>1. TypeOK
  BY TypeInit
<1>2. ASSUME NEW start \in Days, rate = Backfilled(start) PROVE EndsOnEve
  <2> DEFINE S == Fetched(start, today)
  <2>1. /\ S \in SUBSET Days /\ Unbroken(S) /\ Rated = S
        /\ \A d \in S : rate[d].to = EndOf(d, S)
    BY <1>1, <1>2, BackfilledIs
  <2> HIDE DEF S
  <2>2. \A d \in S : EndOf(d, S) = Open \/ Eve(d, EndOf(d, S))
    BY <2>1, EndOnEve
  <2> QED
    BY <2>1, <2>2 DEF EndsOnEve
<1>3. rate = [d \in Days |-> None] => EndsOnEve
  BY DEF EndsOnEve, Rated
<1>4. ClosesOnEve(Idle, Rated)
  BY DEF ClosesOnEve, Idle
<1> QED
  BY <1>2, <1>3, <1>4 DEF Init, Ends

\* However ticks overlap, die and are sent again, and whatever rates are added or
\* backfilled beside them, the end of a rate is set once (closeOpenFxRate).
THEOREM EndsStand == AddSpec => [](TypeOK /\ Ends) /\ [][KeepsEnds]_vars
<1>1. Init => TypeOK /\ InsertsSome /\ Ends
  BY TypeInit, EndsInit DEF Init, InsertsSome, At, Idle
<1>2. TypeOK /\ InsertsSome /\ Ends /\ [Routine \/ ByHand]_vars
      => TypeOK' /\ InsertsSome' /\ Ends' /\ [KeepsEnds]_vars
  BY TypedStep, EndsStep DEF Next
<1> QED
  BY <1>1, <1>2, PTL DEF AddSpec

-----------------------------------------------------------------------------
(* Left to the tick, the intervals stay in order and without holes *)

\* What a tick is to insert: all that is published from the first of it until the eve
\* of the day it began on, which is today or yesterday.
Timely(q, day) ==
  q.pc # "idle" =>
    /\ q.until \in {day, day + 1}
    /\ \A p \in q.todo : p =< q.until - 2
    /\ \A p \in Published, k \in q.todo : k =< p /\ p =< q.until - 2 => p \in q.todo

\* From some rate on, what is published before it is on file.
Reaches(q, R) ==
  q.pc = "insert" =>
    \E m \in R :
      /\ \A k \in q.todo : m < k
      /\ \A p \in Published : m < p /\ (\A k \in q.todo : p < k) => p \in R

\* Beside an open rate x it has not come to close, it has one day after x at most.
OneAfter(x, q) ==
  q.pc = "insert" \/ (q.pc \in {"next", "close"} /\ q.row # x) =>
    \A d \in q.todo, e \in q.todo : d > x => e =< d

\* The inductive invariant: only the provider's rates, of published days, no hole, the
\* open one the last, and requests that keep it so.
OnFile ==
  /\ ApiRated = Rated
  /\ Rated \subseteq Published
  /\ NoHole
  /\ \A x \in OpenRows, e \in Rated : e =< x

Ordered ==
  /\ OnFile
  /\ \A r \in Reqs :
       /\ Timely(req[r], today) /\ Reaches(req[r], Rated)
       /\ \A x \in OpenRows : OneAfter(x, req[r])

\* A request becomes q; the others lose no rate they reach from, and meet no open rate
\* that is new.
LEMMA OrderGoing ==
  ASSUME TypeOK, Ordered, NEW r \in Reqs, NEW q \in Request, Goto(r, q),
         OnFile', Rated \subseteq Rated', today' = today,
         \A x \in OpenRows', s \in Reqs \ {r} : OneAfter(x, req[s]),
         Timely(q, today), Reaches(q, Rated'), \A x \in OpenRows' : OneAfter(x, q)
  PROVE  Ordered'
<1>1. /\ req' \in [Reqs -> Request] /\ req'[r] = q
      /\ \A s \in Reqs \ {r} : req'[s] = req[s]
  BY Going DEF TypeOK
<1>2. ASSUME NEW s \in Reqs \ {r} PROVE Timely(req[s], today) /\ Reaches(req[s], Rated')
  <2>1. Timely(req[s], today) /\ Reaches(req[s], Rated)
    BY DEF Ordered
  <2> QED
    BY <2>1 DEF Reaches
<1>3. ASSUME NEW s \in Reqs
      PROVE  /\ Timely(req'[s], today') /\ Reaches(req'[s], Rated')
             /\ \A x \in OpenRows' : OneAfter(x, req'[s])
  BY <1>1, <1>2
<1> QED
  BY <1>3 DEF Ordered

LEMMA OnFileSame ==
  ASSUME OnFile, rate' = rate
  PROVE  OnFile'
<1>1. Rated' = Rated /\ ApiRated' = ApiRated /\ OpenRows' = OpenRows
  BY TableSame
<1> QED
  BY <1>1 DEF OnFile, NoHole

LEMMA IdleOrder ==
  ASSUME NEW R, NEW day
  PROVE  Timely(Idle, day) /\ Reaches(Idle, R) /\ \A x : OneAfter(x, Idle)
  BY DEF Timely, Reaches, OneAfter, Idle

\* One open rate at most.
LEMMA OneOpen ==
  ASSUME OnFile, NEW x \in OpenRows, NEW y \in OpenRows
  PROVE  x = y
<1>1. x \in Nat /\ y \in Nat /\ x =< y /\ y =< x
  BY Numbers DEF OnFile, OpenRows, Rated
<1> QED
  BY <1>1

\* Having closed, or found nothing to close, a request inserts from where the rates end.
LEMMA ReachesFromEve ==
  ASSUME NEW q \in Request, q.pc \in {"open", "next", "close"}, NEW R \in SUBSET Days,
         ClosesOnEve(q, R)
  PROVE  Reaches(Inserting(q.todo, q.until), R)
<1>1. /\ q.at + 1 \in q.todo /\ (\A p \in q.todo : p > q.at) /\ q.at \in Nat
      /\ q.todo \in SUBSET Days
  BY Carried, Numbers DEF ClosesOnEve
<1>2. PICK m \in R : m =< q.at /\ Clear(m, q.at)
  BY DEF ClosesOnEve
<1>3. m \in Nat
  BY Numbers
<1>4. ASSUME NEW k \in q.todo PROVE m < k
  <2>1. k \in Nat /\ k > q.at
    BY <1>1, Numbers
  <2> QED
    BY <1>1, <1>2, <1>3, <2>1
<1>5. ASSUME NEW p \in Published, m < p, \A k \in q.todo : p < k PROVE FALSE
  <2>1. p < q.at + 1 /\ p \in Nat
    BY <1>1, <1>5, Numbers, FxAssumption
  <2>2. p =< q.at
    BY <1>1, <2>1
  <2> QED
    BY <1>2, <1>5, <2>2 DEF Clear
<1>6. Inserting(q.todo, q.until) = [pc |-> "insert", todo |-> q.todo, until |-> q.until]
  BY <1>1 DEF Inserting
<1>7. Inserting(q.todo, q.until).todo = q.todo
  BY <1>6
<1> QED
  BY <1>4, <1>5, <1>7 DEF Reaches

LEMMA TimelyInserting ==
  ASSUME NEW q \in Request, q.pc # "idle", NEW day, Timely(q, day)
  PROVE  Timely(Inserting(q.todo, q.until), day)
<1>1. CASE q.todo = {}
  BY <1>1 DEF Timely, Inserting, Idle
<1>2. CASE q.todo # {}
  <2> DEFINE i == Inserting(q.todo, q.until)
  <2>1. i.todo = q.todo /\ i.until = q.until /\ i.pc = "insert"
    BY <1>2 DEF Inserting
  <2> HIDE DEF i
  <2>2. Timely(i, day)
    BY <2>1 DEF Timely
  <2> QED
    BY <2>2 DEF i
<1> QED
  BY <1>1, <1>2

LEMMA BeginOrder ==
  ASSUME TypeOK, Ends, Ordered, NEW r \in Reqs, NEW named \in BOOLEAN, TickBegin(r, named)
  PROVE  Ordered'
<1>1. PICK m \in ApiRated, q \in Request :
        /\ Goto(r, q) /\ q.pc = "open" /\ q.until = today + 1
        /\ q.todo = Fetched(m + 1, today - 1)
  BY Begins
<1>2. m \in Nat /\ today \in Nat /\ Published \subseteq Nat
  BY Numbers, FxAssumption DEF ApiRated, Rated, TypeOK
<1>3. Timely(q, today)
  BY <1>1, <1>2 DEF Timely, Fetched
<1>4. Reaches(q, Rated) /\ \A x : OneAfter(x, q)
  BY <1>1 DEF Reaches, OneAfter
<1>5. rate' = rate /\ today' = today
  BY DEF TickBegin
<1>6. OnFile' /\ Rated' = Rated /\ OpenRows' = OpenRows
  BY <1>5, OnFileSame, TableSame DEF Ordered
<1> QED
  BY <1>1, <1>3, <1>4, <1>5, <1>6, OrderGoing DEF Ordered

LEMMA FindOpenOrder ==
  ASSUME TypeOK, Ends, Ordered, NEW r \in Reqs, FindOpen(r)
  PROVE  Ordered'
<1>1. PICK q \in Request :
        /\ Goto(r, q)
        /\ \/ OpenRows = {} /\ q = Inserting(req[r].todo, req[r].until)
           \/ q = Idle
           \/ /\ q.pc = "next" /\ q.row \in OpenRows
              /\ q.todo = req[r].todo /\ q.until = req[r].until
  BY FindsOpen
<1>2. req[r] \in Request /\ req[r].pc = "open" /\ Timely(req[r], today)
  BY DEF TypeOK, FindOpen, At, Ordered
<1>3. Timely(q, today) /\ Reaches(q, Rated) /\ \A x \in OpenRows : OneAfter(x, q)
  <2>1. CASE OpenRows = {} /\ q = Inserting(req[r].todo, req[r].until)
    <3>1. ClosesOnEve(req[r], Rated) /\ Rated \in SUBSET Days
      BY DEF Ends, Rated
    <3> QED
      BY <1>2, <2>1, <3>1, ReachesFromEve, TimelyInserting
  <2>2. CASE q = Idle
    BY <2>2, IdleOrder
  <2>3. CASE /\ q.pc = "next" /\ q.row \in OpenRows
             /\ q.todo = req[r].todo /\ q.until = req[r].until
    <3>1. Timely(q, today)
      BY <1>2, <2>3 DEF Timely
    <3>2. \A x \in OpenRows : x = q.row
      BY <2>3, OneOpen DEF Ordered
    <3> QED
      BY <2>3, <3>1, <3>2 DEF Reaches, OneAfter
  <2> QED
    BY <1>1, <2>1, <2>2, <2>3
<1>4. rate' = rate /\ today' = today
  BY DEF FindOpen
<1>5. OnFile' /\ Rated' = Rated /\ OpenRows' = OpenRows
  BY <1>4, OnFileSame, TableSame DEF Ordered
<1> QED
  BY <1>1, <1>3, <1>4, <1>5, OrderGoing DEF Ordered

LEMMA FindNextOrder ==
  ASSUME TypeOK, Ordered, NEW r \in Reqs, FindNext(r)
  PROVE  Ordered'
<1>1. PICK q \in Request :
        /\ Goto(r, q)
        /\ \/ q = Idle
           \/ /\ q.pc = "close" /\ q.row = req[r].row
              /\ q.todo = req[r].todo /\ q.until = req[r].until
  BY FindsNext
<1>2. req[r].pc = "next" /\ Timely(req[r], today) /\ \A x \in OpenRows : OneAfter(x, req[r])
  BY DEF FindNext, At, Ordered
<1>3. Timely(q, today) /\ Reaches(q, Rated) /\ \A x \in OpenRows : OneAfter(x, q)
  <2>1. CASE q = Idle
    BY <2>1, IdleOrder
  <2>2. CASE /\ q.pc = "close" /\ q.row = req[r].row
             /\ q.todo = req[r].todo /\ q.until = req[r].until
    BY <1>2, <2>2 DEF Timely, Reaches, OneAfter
  <2> QED
    BY <1>1, <2>1, <2>2
<1>4. rate' = rate /\ today' = today
  BY DEF FindNext
<1>5. OnFile' /\ Rated' = Rated /\ OpenRows' = OpenRows
  BY <1>4, OnFileSame, TableSame DEF Ordered
<1> QED
  BY <1>1, <1>3, <1>4, <1>5, OrderGoing DEF Ordered

LEMMA CloseOrder ==
  ASSUME TypeOK, Ends, Ordered, NEW r \in Reqs, Close(r)
  PROVE  Ordered'
<1>1. PICK q \in Request : Goto(r, q) /\ (q = Idle \/ q = Inserting(req[r].todo, req[r].until))
  BY Closes
<1>2. /\ req[r] \in Request /\ req[r].pc = "close"
      /\ Timely(req[r], today) /\ \A x \in OpenRows : OneAfter(x, req[r])
  BY DEF TypeOK, Close, At, Ordered
<1>3. /\ Rated' = Rated /\ OpenRows' = OpenRows \ {req[r].row}
      /\ \A e \in Days : rate'[e].api = rate[e].api
  BY CloseEnds
<1>4. OnFile'
  <2>1. ApiRated' = ApiRated
    BY <1>3 DEF ApiRated, Rated
  <2> QED
    BY <1>3, <2>1 DEF Ordered, OnFile, NoHole
<1>5. /\ Timely(q, today) /\ Reaches(q, Rated')
      /\ \A x \in OpenRows' : OneAfter(x, q)
  <2>1. CASE q = Idle
    BY <2>1, IdleOrder
  <2>2. CASE q = Inserting(req[r].todo, req[r].until)
    <3>1. ClosesOnEve(req[r], Rated) /\ Rated \in SUBSET Days
      BY DEF Ends, Rated
    <3>2. Timely(q, today) /\ Reaches(q, Rated')
      BY <1>2, <1>3, <2>2, <3>1, ReachesFromEve, TimelyInserting
    <3>3. ASSUME NEW x \in OpenRows' PROVE OneAfter(x, q)
      <4>1. OneAfter(x, req[r]) /\ x # req[r].row
        BY <1>2, <1>3
      <4>2. req[r].todo # {} => q.todo = req[r].todo
        BY <2>2 DEF Inserting
      <4>3. req[r].todo = {} => q = Idle
        BY <2>2 DEF Inserting
      <4> QED
        BY <1>2, <4>1, <4>2, <4>3, IdleOrder DEF OneAfter
    <3> QED
      BY <3>2, <3>3
  <2> QED
    BY <1>1, <2>1, <2>2
<1>6. today' = today
  BY DEF Close
<1> QED
  BY <1>1, <1>3, <1>4, <1>5, <1>6, OrderGoing DEF Ordered

LEMMA DieOrder ==
  ASSUME TypeOK, Ordered, NEW r \in Reqs, Die(r)
  PROVE  Ordered'
<1>1. Idle \in Request /\ Goto(r, Idle) /\ rate' = rate /\ today' = today
  BY DEF Request, Die, End
<1>2. OnFile' /\ Rated' = Rated /\ OpenRows' = OpenRows
  BY <1>1, OnFileSame, TableSame DEF Ordered
<1> QED
  BY <1>1, <1>2, IdleOrder, OrderGoing DEF Ordered

\* A tick in flight at midnight began on the day that ends.
LEMMA NextDayOrder ==
  ASSUME TypeOK, Ordered, NextDay
  PROVE  Ordered'
<1>1. rate' = rate /\ req' = req /\ today' = today + 1 /\ today \in Nat
  BY Numbers DEF NextDay, TypeOK
<1>2. OnFile' /\ Rated' = Rated /\ OpenRows' = OpenRows
  BY <1>1, OnFileSame, TableSame DEF Ordered
<1>3. ASSUME NEW r \in Reqs PROVE Timely(req[r], today + 1)
  <2>1. Timely(req[r], today) /\ (req[r].pc # "idle" => today < req[r].until)
    BY DEF Ordered, NextDay, At
  <2> QED
    BY <1>1, <2>1 DEF Timely
<1> QED
  BY <1>1, <1>2, <1>3 DEF Ordered

\* The rest S \ {d} of what a request inserts, once d is on file or nothing is left.
LEMMA RestOrder ==
  ASSUME NEW S \in SUBSET Days, NEW d \in S, \A e \in S : d =< e, Unbroken(S),
         NEW until \in Until, NEW q \in Request, q.pc = "insert", q.todo = S, q.until = until,
         Timely(q, today), NEW R \in SUBSET Days, d \in R \/ S = {d}
  PROVE  LET i == Inserting(S \ {d}, until) IN
           /\ Timely(i, today) /\ Reaches(i, R)
           /\ \A x : OneAfter(x, q) => OneAfter(x, i)
<1> DEFINE rest == S \ {d}
           i == Inserting(rest, until)
<1>1. CASE rest = {}
  BY <1>1, IdleOrder DEF Inserting
<1>2. CASE rest # {}
  <2>1. i.pc = "insert" /\ i.todo = rest /\ i.until = until
    BY <1>2 DEF Inserting
  <2>2. d \in R /\ d \in Nat /\ S \subseteq Nat /\ Published \subseteq Nat
    BY <1>2, Numbers, FxAssumption
  <2>3. until \in {today, today + 1} /\ until \in Nat
    BY Numbers DEF Timely, Until
  <2>4. ASSUME NEW p \in Published, NEW k \in rest, k =< p, p =< until - 2 PROVE p \in rest
    <3>1. p \in S
      BY <2>4 DEF Timely
    <3>2. k \in Nat /\ d =< k /\ k # d /\ p \in Nat
      BY <2>2
    <3> QED
      BY <2>2, <2>4, <3>1, <3>2
  <2>5. \A p \in rest : p =< until - 2
    BY DEF Timely
  <2>6. \A k \in rest : d < k
    BY <2>2
  <2>7. ASSUME NEW p \in Published, d < p, \A k \in rest : p < k PROVE p \in R
    <3>1. PICK k \in rest : TRUE
      BY <1>2
    <3>2. p < k /\ p \in S
      BY <2>7, <3>1 DEF Unbroken
    <3>3. p \in rest /\ p \in Nat
      BY <2>2, <2>7, <3>2
    <3> QED
      BY <2>7, <3>3
  <2> HIDE DEF i
  <2>8. Timely(i, today)
    BY <2>1, <2>3, <2>4, <2>5 DEF Timely
  <2>9. Reaches(i, R)
    BY <2>1, <2>2, <2>6, <2>7 DEF Reaches
  <2>10. ASSUME NEW x, OneAfter(x, q) PROVE OneAfter(x, i)
    BY <2>1, <2>10 DEF OneAfter
  <2> QED
    BY <2>8, <2>9, <2>10 DEF i
<1> QED
  BY <1>1, <1>2

\* A date that is missing comes after all that are on file.
LEMMA NewIsLast ==
  ASSUME TypeOK, OnFile, NEW S \in SUBSET Days, S \subseteq Published,
         NEW d \in S, \A e \in S : d =< e, rate[d] = None,
         NEW q \in Request, q.pc = "insert", q.todo = S, Reaches(q, Rated)
  PROVE  /\ \A e \in Rated : e < d
         /\ \E m \in Rated : \A p \in Published : m < p /\ p < d => p \in Rated
<1>1. PICK m \in Rated : /\ \A k \in S : m < k
                         /\ \A p \in Published : m < p /\ (\A k \in S : p < k) => p \in Rated
  BY DEF Reaches
<1>2. d \in Published /\ d \notin Rated /\ m < d
  BY <1>1 DEF Rated
<1>3. ASSUME NEW e \in Rated PROVE e < d
  <2>1. e \in Nat /\ d \in Nat /\ e # d
    BY <1>2, Numbers DEF Rated
  <2>2. ~(e > d)
    BY <1>2 DEF OnFile, NoHole
  <2> QED
    BY <2>1, <2>2
<1>4. ASSUME NEW p \in Published, m < p, p < d PROVE p \in Rated
  <2>1. ASSUME NEW k \in S PROVE p < k
    <3>1. k \in Nat /\ d \in Nat /\ p \in Nat /\ d =< k
      BY Numbers, FxAssumption
    <3> QED
      BY <1>4, <3>1
  <2> QED
    BY <1>1, <1>4, <2>1
<1> QED
  BY <1>3, <1>4

\* The row of such a date keeps the table in order.
LEMMA GrowsOnFile ==
  ASSUME TypeOK, OnFile, NEW d \in Published, rate[d] = None, \A e \in Rated : e < d,
         NEW m \in Rated, \A p \in Published : m < p /\ p < d => p \in Rated,
         NEW q \in Row, q.api = TRUE, rate' = [rate EXCEPT ![d] = q],
         OpenRows = {}
  PROVE  OnFile' /\ Rated' = Rated \cup {d} /\ OpenRows' \subseteq {d}
<1>1. /\ d \in Days /\ d \in Nat /\ Rated \subseteq Nat /\ Published \subseteq Nat
  BY Numbers, FxAssumption DEF Rated
<1>2. /\ rate'[d] = q /\ \A e \in Days \ {d} : rate'[e] = rate[e]
      /\ Rated' = Rated \cup {d} /\ d \notin Rated
  BY <1>1, TableGrows
<1>3. ApiRated' = Rated'
  BY <1>2 DEF ApiRated, OnFile, Rated
<1>4. OpenRows' \subseteq {d}
  BY <1>2 DEF OpenRows, Rated
<1>5. NoHole'
  <2> SUFFICES ASSUME NEW p \in Published, NEW a \in Rated', NEW b \in Rated', a < p, p < b
               PROVE  p \in Rated'
    BY DEF NoHole
  <2>1. a \in Nat /\ b \in Nat /\ p \in Nat /\ m \in Nat
    BY <1>1, <1>2
  <2>2. a \in Rated
    BY <1>1, <1>2, <2>1
  <2>3. CASE b \in Rated
    BY <1>2, <2>2, <2>3 DEF OnFile, NoHole
  <2>4. CASE b = d
    <3>1. CASE m < p
      BY <1>2, <2>4, <3>1
    <3>2. CASE p = m
      BY <1>2, <3>2
    <3>3. CASE p < m
      BY <1>2, <2>2, <3>3 DEF OnFile, NoHole
    <3> QED
      BY <2>1, <3>1, <3>2, <3>3
  <2> QED
    BY <1>2, <2>3, <2>4
<1>6. \A x \in OpenRows', e \in Rated' : e =< x
  BY <1>1, <1>2, <1>4
<1>7. Rated' \subseteq Published
  BY <1>2 DEF OnFile
<1> QED
  BY <1>2, <1>3, <1>4, <1>5, <1>6, <1>7 DEF OnFile

\* The last day of one tick leaves another a day after it at most: that other began
\* on the same day, the day before or the day after.
LEMMA NewOpenOneAfter ==
  ASSUME NEW day \in Nat, NEW q \in Request, NEW s \in Request, q.pc # "idle", s.pc # "idle",
         Timely(q, day), Timely(s, day), Unbroken(s.todo),
         NEW x \in q.todo, \A e \in q.todo : e =< x
  PROVE  OneAfter(x, s)
<1> SUFFICES ASSUME NEW d \in s.todo, NEW e \in s.todo, d > x PROVE e =< d
  BY DEF OneAfter
<1>1. d \in Nat /\ e \in Nat /\ x \in Nat /\ d \in Published
  BY Carried, Numbers DEF Unbroken
<1>2. q.until \in {day, day + 1} /\ s.until \in {day, day + 1} /\ e =< s.until - 2
  BY DEF Timely
<1>3. ~(d =< q.until - 2)
  <2> SUFFICES ASSUME d =< q.until - 2 PROVE FALSE
    OBVIOUS
  <2>1. d \in q.todo
    BY <1>1 DEF Timely
  <2> QED
    BY <1>1, <2>1
<1> QED
  BY <1>1, <1>2, <1>3

LEMMA InsertOrder ==
  ASSUME TypeOK, InsertsSome, Ends, Ordered, NEW r \in Reqs, Insert(r)
  PROVE  Ordered'
<1>1. PICK q \in Request : q = req[r] /\ q.pc = "insert" /\ q.todo # {}
  BY DEF TypeOK, Insert, At, InsertsSome
<1>2. PICK S \in SUBSET Days : S = q.todo
  BY <1>1, Carried
<1>3. PICK until \in Until : until = q.until
  BY <1>1, Carried
<1>4. /\ Timely(q, today) /\ Reaches(q, Rated) /\ Unbroken(S)
      /\ \A x \in OpenRows : OneAfter(x, q)
  BY <1>1, <1>2 DEF Ordered, Ends, ClosesOnEve
<1>5. PICK d \in S :
        /\ \A e \in S : d =< e
        /\ Goto(r, Inserting(S \ {d}, until))
        /\ Inserting(S \ {d}, until) \in Request
        /\ EndOf(d, S) \in 0 .. Open
        /\ \/ /\ Admits(d, EndOf(d, S))
              /\ rate' = [rate EXCEPT ![d] = [to |-> EndOf(d, S), api |-> TRUE]]
           \/ ~Admits(d, EndOf(d, S)) /\ rate' = rate
  BY <1>1, <1>2, <1>3, Inserts
<1>6. /\ today' = today /\ today \in Nat /\ d \in Published /\ d \in Days /\ S \subseteq Published
      /\ Rated \in SUBSET Days
  BY <1>4, Numbers DEF Insert, TypeOK, Unbroken, Rated
<1>7. EndOf(d, S) = Open => S = {d}
  <2> SUFFICES ASSUME EndOf(d, S) = Open, NEW e \in S PROVE e = d
    OBVIOUS
  <2>1. \A f \in S : f =< d
    <3>1. \A f \in S : f - 1 # Open
      BY Numbers DEF Days
    <3> QED
      BY <3>1, EndIs
  <2>2. e \in Nat /\ d \in Nat /\ e =< d /\ d =< e
    BY <1>5, <2>1, Numbers
  <2> QED
    BY <2>2
<1>8. CASE ~Admits(d, EndOf(d, S)) /\ rate' = rate
  <2>1. d \in Rated \/ S = {d}
    BY <1>6, <1>7, <1>8 DEF Admits, Rated
  <2>2. OnFile' /\ Rated' = Rated /\ OpenRows' = OpenRows
    BY <1>8, OnFileSame, TableSame DEF Ordered
  <2>3. /\ Timely(Inserting(S \ {d}, until), today) /\ Reaches(Inserting(S \ {d}, until), Rated)
        /\ \A x \in OpenRows : OneAfter(x, Inserting(S \ {d}, until))
    BY <1>1, <1>2, <1>3, <1>4, <1>5, <1>6, <2>1, RestOrder
  <2> QED
    BY <1>5, <1>6, <2>2, <2>3, OrderGoing DEF Ordered
<1>9. CASE /\ Admits(d, EndOf(d, S))
           /\ rate' = [rate EXCEPT ![d] = [to |-> EndOf(d, S), api |-> TRUE]]
  <2>1. rate[d] = None /\ OnFile
    BY <1>9 DEF Admits, Ordered
  <2>2. \A e \in Rated : e < d
    BY <1>1, <1>2, <1>4, <1>5, <1>6, <2>1, NewIsLast
  <2>3. PICK m \in Rated : \A p \in Published : m < p /\ p < d => p \in Rated
    BY <1>1, <1>2, <1>4, <1>5, <1>6, <2>1, NewIsLast
  <2>4. OpenRows = {}
    <3> SUFFICES ASSUME NEW x \in OpenRows PROVE FALSE
      OBVIOUS
    <3>1. x \in Rated /\ x \in Nat /\ d \in Nat /\ d > x
      BY <1>6, <2>2, Numbers DEF OpenRows, Rated
    <3>2. \A e \in S : e =< d
      BY <1>1, <1>2, <1>4, <3>1 DEF OneAfter
    <3>3. S = {d}
      <4>1. ASSUME NEW e \in S PROVE e = d
        <5>1. e \in Nat /\ e =< d /\ d =< e
          BY <1>5, <3>2, Numbers
        <5> QED
          BY <3>1, <5>1
      <4> QED
        BY <4>1
    <3>4. EndOf(d, S) = Open
      BY <3>1, <3>3, EndIs
    <3> QED
      BY <1>9, <3>4 DEF Admits
  <2>5. PICK w \in Row : w = [to |-> EndOf(d, S), api |-> TRUE]
    BY <1>5 DEF Row
  <2>6. w.api = TRUE /\ w.to = EndOf(d, S) /\ rate' = [rate EXCEPT ![d] = w]
    BY <1>9, <2>5
  <2>7. OnFile' /\ Rated' = Rated \cup {d} /\ OpenRows' \subseteq {d}
    BY <1>6, <2>1, <2>2, <2>3, <2>4, <2>6, GrowsOnFile
  <2>8. ASSUME NEW x \in OpenRows' PROVE x = d /\ S = {d}
    <3>1. x = d /\ rate'[d].to = Open
      BY <2>7, <2>8 DEF OpenRows
    <3>2. rate'[d] = w
      BY <1>6, <2>6 DEF TypeOK
    <3> QED
      BY <1>7, <2>6, <3>1, <3>2
  <2>9. ASSUME NEW x \in OpenRows', NEW s \in Reqs \ {r} PROVE OneAfter(x, req[s])
    <3>1. CASE req[s].pc \in {"idle", "open"}
      BY <3>1 DEF OneAfter
    <3>2. CASE req[s].pc \notin {"idle", "open"}
      <4>1. /\ req[s] \in Request /\ Timely(req[s], today)
            /\ req[s].pc \in {"next", "close", "insert"} /\ Unbroken(req[s].todo)
        <5>1. req[s] \in Request /\ Timely(req[s], today) /\ ClosesOnEve(req[s], Rated)
          BY DEF TypeOK, Ordered, Ends
        <5>2. req[s].pc \in {"next", "close", "insert"}
          BY <3>2, <5>1, Carried
        <5> QED
          BY <5>1, <5>2 DEF ClosesOnEve
      <4>2. x \in q.todo /\ \A e \in q.todo : e =< x
        BY <1>2, <1>6, <2>8, Numbers
      <4>3. q.pc # "idle" /\ req[s].pc # "idle"
        BY <1>1, <3>2
      <4> QED
        BY <1>4, <1>6, <4>1, <4>2, <4>3, NewOpenOneAfter
    <3> QED
      BY <3>1, <3>2
  <2>10. d \in Rated' /\ Rated' \in SUBSET Days /\ Rated \subseteq Rated'
    BY <1>6, <2>7
  <2>11. /\ Timely(Inserting(S \ {d}, until), today)
         /\ Reaches(Inserting(S \ {d}, until), Rated')
    BY <1>1, <1>2, <1>3, <1>4, <1>5, <2>10, RestOrder
  <2>12. ASSUME NEW x \in OpenRows' PROVE OneAfter(x, Inserting(S \ {d}, until))
    <3>1. S \ {d} = {}
      BY <2>8
    <3> QED
      BY <3>1, IdleOrder DEF Inserting
  <2> QED
    BY <1>5, <1>6, <2>7, <2>9, <2>10, <2>11, <2>12, OrderGoing
<1> QED
  BY <1>5, <1>8, <1>9

LEMMA OrderStep ==
  TypeOK /\ InsertsSome /\ Ends /\ Ordered /\ [Routine]_vars => Ordered'
<1> SUFFICES ASSUME TypeOK, InsertsSome, Ends, Ordered, [Routine]_vars PROVE Ordered'
  OBVIOUS
<1>1. CASE NextDay
  BY <1>1, NextDayOrder
<1>2. ASSUME NEW r \in Reqs, Tick(r) PROVE Ordered'
  BY <1>2, BeginOrder, FindOpenOrder, FindNextOrder, CloseOrder, InsertOrder DEF Tick, Step
<1>3. ASSUME NEW r \in Reqs, Die(r) PROVE Ordered'
  BY <1>3, DieOrder
<1>4. CASE UNCHANGED vars
  <2>1. rate' = rate /\ req' = req /\ today' = today
    BY <1>4 DEF vars
  <2>2. OnFile' /\ Rated' = Rated /\ OpenRows' = OpenRows
    BY <2>1, OnFileSame, TableSame DEF Ordered
  <2> QED
    BY <2>1, <2>2 DEF Ordered
<1> QED
  BY <1>1, <1>2, <1>3, <1>4 DEF Routine

LEMMA OrderInit == Init => Ordered
<1> SUFFICES ASSUME Init PROVE Ordered
  OBVIOUS
<1>1. TypeOK
  BY TypeInit
<1>2. CASE rate = [d \in Days |-> None]
  <2>1. Rated = {} /\ ApiRated = {} /\ OpenRows = {}
    BY <1>2 DEF Rated, ApiRated, OpenRows
  <2> QED
    BY <2>1, IdleOrder DEF Init, Ordered, OnFile, NoHole
<1>3. ASSUME NEW start \in Days, rate = Backfilled(start) PROVE Ordered
  <2>1. PICK S \in SUBSET Days :
          /\ Unbroken(S) /\ Rated = S
          /\ \A d \in S : rate[d].to = EndOf(d, S) /\ rate[d].api = TRUE
    BY <1>1, <1>3, BackfilledIs
  <2>2. ApiRated = Rated /\ Rated \subseteq Published /\ NoHole
    BY <2>1 DEF ApiRated, Unbroken, NoHole
  <2>3. ASSUME NEW x \in OpenRows PROVE \A e \in Rated : e =< x
    <3>1. x \in S /\ EndOf(x, S) = Open
      BY <2>1, <2>3 DEF OpenRows
    <3>2. \A e \in S : e - 1 # Open
      BY Numbers DEF Days
    <3> QED
      BY <2>1, <3>1, <3>2, EndIs
  <2> QED
    BY <2>2, <2>3, IdleOrder DEF Init, Ordered, OnFile
<1> QED
  BY <1>2, <1>3 DEF Init

LEMMA InOrder == ASSUME TypeOK, Ends, Ordered PROVE Disjoint /\ NoHole
<1>1. ASSUME NEW d \in Rated
      PROVE  rate[d].to >= d /\ \A e \in Rated : e > d => rate[d].to < e
  <2>0. Rated \subseteq Nat /\ d \in Days
    BY Numbers DEF Rated
  <2>1. CASE rate[d].to = Open
    <3>1. d \in OpenRows /\ d =< Open /\ Open \in Nat
      BY <2>0, <2>1, Numbers DEF OpenRows, Days
    <3>2. \A e \in Rated : ~(e > d)
      <4>1. \A e \in Rated : e =< d
        BY <3>1 DEF Ordered, OnFile
      <4> QED
        BY <2>0, <4>1
    <3> QED
      BY <2>0, <2>1, <3>1, <3>2
  <2>2. CASE Eve(d, rate[d].to)
    <3>1. rate[d].to \in Nat
      BY <2>0, Numbers DEF TypeOK, Row, Rated
    <3>2. ASSUME NEW e \in Rated, e > d PROVE rate[d].to < e
      <4>1. e \in Published /\ e \in Nat
        BY <2>0 DEF Ordered, OnFile
      <4> QED
        BY <2>0, <2>2, <3>1, <3>2, <4>1 DEF Eve, Clear
    <3> QED
      BY <2>2, <3>2 DEF Eve
  <2> QED
    BY <2>1, <2>2 DEF Ends, EndsOnEve
<1> QED
  BY <1>1 DEF Disjoint, Ordered, OnFile

\* Left to the tick, however ticks overlap and die, no interval overlaps the next, the
\* open one is the last, and no published day between two on file is missing
\* (appendDailyRates).
THEOREM OrderKept == TickSpec => [](Disjoint /\ NoHole)
<1>1. Init => TypeOK /\ InsertsSome /\ Ends /\ Ordered
  BY TypeInit, EndsInit, OrderInit DEF Init, InsertsSome, At, Idle
<1>2. TypeOK /\ InsertsSome /\ Ends /\ Ordered /\ [Routine]_vars
      => TypeOK' /\ InsertsSome' /\ Ends' /\ Ordered'
  BY TypedStep, EndsStep, OrderStep DEF Next
<1>3. TypeOK /\ Ends /\ Ordered => Disjoint /\ NoHole
  BY InOrder
<1> QED
  BY <1>1, <1>2, <1>3, PTL DEF TickSpec

-----------------------------------------------------------------------------
(* The run: the modules with their proofs *)

DD == INSTANCE DigestDeliveryProofs WITH
  Dates <- {d1, d2}, Mails <- {m1, m2}, deaths <- killed, req <- digestReq

EE == INSTANCE EngagementProofs WITH
  Users <- {u1}, MaxDay <- 3, Weekend <- {2}, MaxWork <- 2,
  today <- evening, req <- tickReq

PP == INSTANCE PublishTransactionProofs WITH Invoices <- {i1, i2, i3}, Rows <- Sharing

\* No publish is the publish before the first.
Names == NoTx \notin Txs

-----------------------------------------------------------------------------
(* The instances of a module and of its proofs are of one module *)

LEMMA SameDigests ==
  /\ DD!Init <=> D!Init
  /\ [DD!Next]_DD!vars <=> [D!Next]_D!vars
  /\ [DD!AloneNext]_DD!vars <=> [D!AloneNext]_D!vars
  /\ DD!TypeOK <=> D!TypeOK
  /\ DD!SentIsTrue <=> D!SentIsTrue
  /\ DD!SentOnce <=> D!SentOnce
  /\ DD!KeepsDecision <=> D!KeepsDecision
  /\ DD!SendsNoSkipped <=> D!SendsNoSkipped
<1> USE DEF
      D!vars, D!State, D!Mail, D!NoMail, D!Idle, D!Request, D!At, D!Goto, D!End, D!Reads,
      D!Writes, D!TypeOK, D!Init, D!Rebuildable, D!Trigger, D!CreateDraft, D!BuildBegin,
      D!BuildCommit, D!ApproveBegin, D!ApproveCommit, D!SkipBegin, D!Cancelled,
      D!SkipCommit, D!ProcessBegin, D!Send, D!Record, D!MarkBegin, D!MarkCommit,
      D!SetRule, D!Die, D!Next, D!AloneNext, D!Rows, D!SentIsTrue, D!KeepsDecision,
      D!SentOnce, D!SendsNoSkipped, DD!vars, DD!State, DD!Mail, DD!NoMail, DD!Idle,
      DD!Request, DD!At, DD!Goto, DD!End, DD!Reads, DD!Writes, DD!TypeOK, DD!Init,
      DD!Rebuildable, DD!Trigger, DD!CreateDraft, DD!BuildBegin, DD!BuildCommit,
      DD!ApproveBegin, DD!ApproveCommit, DD!SkipBegin, DD!Cancelled, DD!SkipCommit,
      DD!ProcessBegin, DD!Send, DD!Record, DD!MarkBegin, DD!MarkCommit, DD!SetRule,
      DD!Die, DD!Next, DD!AloneNext, DD!Rows, DD!SentIsTrue, DD!KeepsDecision,
      DD!SentOnce, DD!SendsNoSkipped
<1>1. DD!Init <=> D!Init
  OBVIOUS
<1>2. [DD!Next]_DD!vars <=> [D!Next]_D!vars
  OBVIOUS
<1>3. [DD!AloneNext]_DD!vars <=> [D!AloneNext]_D!vars
  OBVIOUS
<1>4. DD!TypeOK <=> D!TypeOK
  OBVIOUS
<1>5. DD!SentIsTrue <=> D!SentIsTrue
  OBVIOUS
<1>6. DD!SentOnce <=> D!SentOnce
  OBVIOUS
<1>7. DD!KeepsDecision <=> D!KeepsDecision
  OBVIOUS
<1>8. DD!SendsNoSkipped <=> D!SendsNoSkipped
  OBVIOUS
<1> QED
  BY <1>1, <1>2, <1>3, <1>4, <1>5, <1>6, <1>7, <1>8

LEMMA SameStreaks ==
  /\ EE!Init <=> E!Init
  /\ [EE!DailyNext]_EE!vars <=> [E!DailyNext]_E!vars
  /\ EE!TypeOK <=> E!TypeOK
  /\ EE!Earned <=> E!Earned
<1> USE DEF
      E!vars, E!Days, E!Workdays, E!NoDay, E!NoRow, E!NewRow, E!Row, E!Idle, E!Request,
      E!TypeOK, E!Init, E!At, E!Goto, E!NextDay, E!LogFollowUp, E!SetTask, E!GrantFreeze,
      E!GetStreak, E!TickBegin, E!Frozen, E!NextUser, E!ReadRow, E!Qualifies, E!Judge,
      E!Credited, E!Write, E!Die, E!TickStep, E!Work, E!DailyNext, E!Earned,
      E!Cardinality, EE!vars, EE!Days, EE!Workdays, EE!NoDay, EE!NoRow, EE!NewRow,
      EE!Row, EE!Idle, EE!Request, EE!TypeOK, EE!Init, EE!At, EE!Goto, EE!NextDay,
      EE!LogFollowUp, EE!SetTask, EE!GrantFreeze, EE!GetStreak, EE!TickBegin, EE!Frozen,
      EE!NextUser, EE!ReadRow, EE!Qualifies, EE!Judge, EE!Credited, EE!Write, EE!Die,
      EE!TickStep, EE!Work, EE!DailyNext, EE!Earned, EE!Cardinality
<1>1. EE!Init <=> E!Init
  OBVIOUS
<1>2. [EE!DailyNext]_EE!vars <=> [E!DailyNext]_E!vars
  OBVIOUS
<1>3. EE!TypeOK <=> E!TypeOK
  OBVIOUS
<1>4. EE!Earned <=> E!Earned
  OBVIOUS
<1> QED
  BY <1>1, <1>2, <1>3, <1>4

LEMMA SamePublishes ==
  /\ PP!Init <=> P!Init
  /\ [PP!Next]_PP!vars <=> [P!Next]_P!vars
  /\ PP!TypeOK <=> P!TypeOK
  /\ PP!WritesStand <=> P!WritesStand
  /\ PP!OpenUnlessLate <=> P!OpenUnlessLate
<1> USE DEF
      P!vars, P!Status, P!Publish, P!TypeOK, P!Init, P!Wrote, P!Held, P!Visible,
      P!InTransaction, P!Write, P!Release, P!Done, P!Then, P!Abort, P!WaitCycle,
      P!DeadlockVictim, P!ReadExisting, P!Insert, P!UniqueViolation, P!Inserted,
      P!Update, P!Updated, P!Absent, P!ListAbsent, P!Settle, P!SettleRow, P!SettledAll,
      P!Commit, P!Fail, P!Step, P!Next, P!OpenUnlessLate, P!WritesStand, PP!vars,
      PP!Status, PP!Publish, PP!TypeOK, PP!Init, PP!Wrote, PP!Held, PP!Visible,
      PP!InTransaction, PP!Write, PP!Release, PP!Done, PP!Then, PP!Abort, PP!WaitCycle,
      PP!DeadlockVictim, PP!ReadExisting, PP!Insert, PP!UniqueViolation, PP!Inserted,
      PP!Update, PP!Updated, PP!Absent, PP!ListAbsent, PP!Settle, PP!SettleRow,
      PP!SettledAll, PP!Commit, PP!Fail, PP!Step, PP!Next, PP!OpenUnlessLate,
      PP!WritesStand
<1>1. PP!Init <=> P!Init
  OBVIOUS
<1>2. [PP!Next]_PP!vars <=> [P!Next]_P!vars
  OBVIOUS
<1>3. PP!TypeOK <=> P!TypeOK
  OBVIOUS
<1>4. PP!WritesStand <=> P!WritesStand
  OBVIOUS
<1>5. PP!OpenUnlessLate <=> P!OpenUnlessLate
  OBVIOUS
<1> QED
  BY <1>1, <1>2, <1>3, <1>4, <1>5

-----------------------------------------------------------------------------
(* The rates *)

\* The inductive invariants of FxRates, each under the circumstances that it needs.
RatesInv ==
  Rating =>
    /\ TypeOK /\ InsertsSome
    /\ which # "rates, closed" => Ends
    /\ which = "rates" => Ordered

LEMMA RatesInit == MCInit => RatesInv
<1>1. Init => InsertsSome
  BY DEF Init, InsertsSome, At, Idle
<1> QED
  BY <1>1, TypeInit, EndsInit, OrderInit DEF MCInit, RatesInv

LEMMA RatesStep ==
  RatesInv /\ [MCNext]_mcvars => RatesInv' /\ (which # "rates, closed" => KeepsEnds)
<1> SUFFICES ASSUME RatesInv, [MCNext]_mcvars
             PROVE  RatesInv' /\ (which # "rates, closed" => KeepsEnds)
  OBVIOUS
<1>1. CASE UNCHANGED <<which, vars>>
  <2>1. KeepsEnds
    BY <1>1 DEF vars, KeepsEnds
  <2>2. RatesInv'
    BY <1>1 DEF RatesInv, Rating, vars, TypeOK, InsertsSome, At, Ends, EndsOnEve, Rated, Ordered,
       OnFile, OpenRows, ApiRated, NoHole
  <2> QED
    BY <2>1, <2>2
<1>2. CASE Rates /\ which' = which
  <2>1. CASE which = "rates"
    <3>1. Routine /\ Rating
      BY <1>2, <2>1 DEF Rates, Rating
    <3> QED
      BY <1>2, <2>1, <3>1, TypedStep, EndsStep, OrderStep DEF RatesInv, Rating, Next
  <2>2. CASE which = "rates, added"
    <3>1. (Routine \/ ByHand) /\ Rating
      BY <1>2, <2>2 DEF Rates, Rating
    <3> QED
      BY <1>2, <2>2, <3>1, TypedStep, EndsStep DEF RatesInv, Rating, Next
  <2>3. CASE which = "rates, closed"
    <3>1. (Routine \/ Closings) /\ Rating
      BY <1>2, <2>3 DEF Rates, Rating
    <3> QED
      BY <1>2, <2>3, <3>1, TypedStep DEF RatesInv, Rating, Next
  <2> QED
    BY <1>2, <2>1, <2>2, <2>3 DEF Rates, Rating
<1> QED
  BY <1>1, <1>2 DEF MCNext, mcvars

\* Left to the tick, however ticks overlap and die, no interval overlaps the next, the
\* open one is the last, and no published day between two on file is missing
\* (appendDailyRates).
THEOREM OrderStands == MCSpec => []InOrderAlone
<1>1. RatesInv => InOrderAlone
  BY InOrder DEF RatesInv, Rating, InOrderAlone
<1>2. RatesInv /\ [MCNext]_mcvars => RatesInv'
  BY RatesStep
<1> QED
  BY <1>1, <1>2, RatesInit, PTL DEF MCSpec

-----------------------------------------------------------------------------
(* Digests *)

LEMMA DigestsAre == MCSpec => DD!Spec
<1>1. MCInit => DD!Init
  BY SameDigests DEF MCInit
<1>2. [MCNext]_mcvars => [DD!Next]_DD!vars
  <2>1. D!AloneNext => D!Next
    BY DEF D!AloneNext
  <2>2. [MCNext]_mcvars => [D!Next]_D!vars
    BY <2>1 DEF MCNext, mcvars, Digests, digestVars, D!vars
  <2> QED
    BY <2>2, SameDigests
<1> QED
  BY <1>1, <1>2, PTL DEF MCSpec, DD!Spec

\* However requests overlap and die, SENT is true of a row (the email outbox
\* processor, approveDigest).
THEOREM SentStands == MCSpec => []SentIsTrue
<1>1. MaxDeaths \in Nat
  BY FxAssumption
<1>2. DD!Spec => [](DD!TypeOK /\ DD!SentIsTrue)
  BY <1>1, DD!SentCorrect
<1>3. DD!SentIsTrue => SentIsTrue
  BY SameDigests DEF SentIsTrue
<1> QED
  BY <1>2, <1>3, DigestsAre, PTL

\* The inductive invariant of DigestDelivery for one request at a time.
DigestsInv == which = "digests, alone" => DD!AloneInv

LEMMA DigestsInit == MCInit => DigestsInv
BY FxAssumption, SameDigests, DD!AloneInit DEF MCInit, DigestsInv

LEMMA DigestsStep ==
  DigestsInv /\ [MCNext]_mcvars
    => DigestsInv' /\ (which = "digests, alone" => D!KeepsDecision /\ D!SendsNoSkipped)
<1> SUFFICES ASSUME DigestsInv, [MCNext]_mcvars, which = "digests, alone" \/ which' = "digests, alone"
             PROVE  DigestsInv' /\ D!KeepsDecision /\ D!SendsNoSkipped
  BY DEF DigestsInv
<1>1. which = "digests, alone"
  BY DEF MCNext, mcvars
<1>2. [DD!AloneNext]_DD!vars
  <2>1. [D!AloneNext]_D!vars
    BY <1>1 DEF MCNext, mcvars, Digests, digestVars, D!vars
  <2> QED
    BY <2>1, SameDigests
<1>3. DD!AloneInv' /\ [DD!KeepsDecision /\ DD!SendsNoSkipped]_DD!vars
  BY <1>1, <1>2, FxAssumption, DD!AloneStep DEF DigestsInv
<1>4. UNCHANGED DD!vars => D!KeepsDecision /\ D!SendsNoSkipped
  BY DEF DD!vars, D!KeepsDecision, D!SendsNoSkipped
<1>5. D!KeepsDecision /\ D!SendsNoSkipped
  BY <1>3, <1>4, SameDigests
<1> QED
  BY <1>3, <1>5 DEF DigestsInv

\* One request at a time, none killed, delivers a digest at most once (the email
\* outbox processor and approveDigest).
THEOREM DeliveredOnce == MCSpec => []SentOnceAlone
<1>1. DigestsInv => SentOnceAlone
  BY SameDigests, DD!AloneMeans DEF DigestsInv, SentOnceAlone
<1>2. DigestsInv /\ [MCNext]_mcvars => DigestsInv'
  BY DigestsStep
<1> QED
  BY <1>1, <1>2, DigestsInit, PTL DEF MCSpec

\* What was decided stands: one request at a time neither reopens a decided digest nor
\* sends the email of a skipped one (triggerDigestForDate, skipDigest); the end of a rate
\* is set once, however ticks overlap and die (closeOpenFxRate).
THEOREM DecisionsStand == MCSpec => DecisionStands
<1>1. RatesInv /\ DigestsInv /\ [MCNext]_mcvars
      => /\ RatesInv' /\ DigestsInv'
         /\ [/\ which = "digests, alone" => D!KeepsDecision /\ D!SendsNoSkipped
             /\ which # "rates, closed" => KeepsEnds]_mcvars
  BY RatesStep, DigestsStep
<1> QED
  BY <1>1, RatesInit, DigestsInit, PTL DEF MCSpec, DecisionStands

-----------------------------------------------------------------------------
(* Streaks and publishes *)

LEMMA StreaksAre == MCSpec => EE!DailySpec
<1>1. MCInit => EE!Init
  BY SameStreaks DEF MCInit
<1>2. [MCNext]_mcvars => [EE!DailyNext]_EE!vars
  <2>1. [MCNext]_mcvars => [E!DailyNext]_E!vars
    BY DEF MCNext, mcvars, Streaks, streakVars, E!vars
  <2> QED
    BY <2>1, SameStreaks
<1> QED
  BY <1>1, <1>2, PTL DEF MCSpec, EE!DailySpec

LEMMA StreaksHold == MCSpec => [](E!TypeOK /\ E!Earned)
<1>1. EE!Parameters
  BY DEF EE!Parameters
<1>2. EE!DailySpec => [](EE!TypeOK /\ EE!Earned)
  BY <1>1, EE!StreaksCorrect
<1>3. EE!TypeOK /\ EE!Earned => E!TypeOK /\ E!Earned
  BY SameStreaks
<1> QED
  BY <1>2, <1>3, StreaksAre, PTL

\* Ticks of the day, however they overlap, die and are sent again, count a day once
\* (tickStreaks).
THEOREM StreaksStand == MCSpec => []StreaksEarned
<1>1. E!Earned => StreaksEarned
  BY DEF StreaksEarned
<1> QED
  BY <1>1, StreaksHold, PTL

LEMMA PublishesAre == MCSpec => PP!Spec
<1>1. MCInit => PP!Init
  BY SamePublishes DEF MCInit
<1>2. [MCNext]_mcvars => [PP!Next]_PP!vars
  <2>1. [MCNext]_mcvars => [P!Next]_P!vars
    BY DEF MCNext, mcvars, publishVars, P!vars
  <2> QED
    BY <2>1, SamePublishes
<1> QED
  BY <1>1, <1>2, PTL DEF MCSpec, PP!Spec

LEMMA PublishesHold ==
  ASSUME Names PROVE MCSpec => [](P!TypeOK /\ P!WritesStand /\ P!OpenUnlessLate)
<1>1. PP!Publishes
  BY DEF PP!Publishes, Names, Txs, Sharing
<1>2. PP!Spec => [](PP!TypeOK /\ PP!WritesStand /\ PP!OpenUnlessLate)
  BY <1>1, PP!OverlapCorrect
<1>3. PP!TypeOK /\ PP!WritesStand /\ PP!OpenUnlessLate
      => P!TypeOK /\ P!WritesStand /\ P!OpenUnlessLate
  BY SamePublishes
<1> QED
  BY <1>2, <1>3, PublishesAre, PTL

\* What a publish's transaction decided on a row holds until it commits, and after a
\* publish what it reports is OPEN, and what else is OPEN came later (publishSnapshot's
\* transaction, whichever statements overlap).
THEOREM PublishesStand == ASSUME Names PROVE MCSpec => [](WritesStand /\ OpenUnlessLate)
<1>1. P!WritesStand /\ P!OpenUnlessLate => WritesStand /\ OpenUnlessLate
  BY DEF WritesStand, OpenUnlessLate
<1> QED
  BY <1>1, PublishesHold, PTL

-----------------------------------------------------------------------------

\* Every variable has its type, whatever overlaps and dies.
THEOREM TypesKept == ASSUME Names PROVE MCSpec => []TypesOK
<1>1. RatesInv => (Rating => TypeOK)
  BY DEF RatesInv
<1>2. RatesInv /\ [MCNext]_mcvars => RatesInv'
  BY RatesStep
<1>3. DD!Spec => [](DD!TypeOK /\ DD!SentIsTrue)
  BY FxAssumption, DD!SentCorrect
<1>4. RatesInv /\ DD!TypeOK /\ E!TypeOK /\ P!TypeOK => TypesOK
  BY <1>1, SameDigests DEF TypesOK
<1> QED
  BY <1>2, <1>3, <1>4, RatesInit, DigestsAre, StreaksHold, PublishesHold, PTL DEF MCSpec

=============================================================================
