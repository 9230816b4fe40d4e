-------------------------- MODULE MCImportsProofs --------------------------
(***************************************************************************)
(* Theorems about what the run of MCImports checks.  The work attached to  *)
(* invoices (OperationalObjects) is treated for every set of requests,     *)
(* invoices, objects, snapshots and rows.                                  *)
(***************************************************************************)
EXTENDS MCImports, FiniteSetTheorems, SequenceTheorems, WellFoundedInduction, TLAPS

-----------------------------------------------------------------------------
(* The state machines *)

LEMMA StatusesAre ==
  /\ Statuses("task") = {"SUGGESTED", "OPEN", "IN_PROGRESS", "SNOOZED", "DONE", "DISMISSED"}
  /\ Statuses("dispute") = {"OPEN", "IN_REVIEW", "WAITING_ON_CUSTOMER", "RESOLVED", "CLOSED"}
  /\ Statuses("promise") = {"OPEN", "KEPT", "BROKEN", "CANCELLED"}
  /\ Statuses("exception") = {"ACTIVE", "RESOLVED", "AUTO_RESOLVED"}
BY DEF Statuses, Transitions

\* Transitions stay in the machine; the cascade closes with a status no transition
\* leaves; what it does not close is such a status or a dispute's or exception's RESOLVED.
MachineOf(k) ==
  /\ Created[k] \in Statuses(k) /\ ClosedAs[k] \in Statuses(k) /\ Transitions[k][ClosedAs[k]] = {}
  /\ \A s \in Statuses(k) :
       /\ s \notin {"NONE", "KEEP"}
       /\ Transitions[k][s] \subseteq Statuses(k)
       /\ s \in Live[k] \/ s = "RESOLVED" \/ Transitions[k][s] = {}
       /\ Transitions[k][s] = {} => s \notin Live[k]
       /\ "ACTIVE" \notin Transitions[k][s]
       /\ s = "ACTIVE" => k = "exception" /\ s \in Live[k]
       /\ k = "exception" => Transitions[k][s] \subseteq {"RESOLVED"}

LEMMA Machines == \A k \in Kinds : MachineOf(k)
<1>1. MachineOf("task")
  BY StatusesAre DEF MachineOf, Created, ClosedAs, Live, Transitions
<1>2. MachineOf("dispute")
  BY StatusesAre DEF MachineOf, Created, ClosedAs, Live, Transitions
<1>3. MachineOf("promise")
  BY StatusesAre DEF MachineOf, Created, ClosedAs, Live, Transitions
<1>4. MachineOf("exception")
  BY StatusesAre DEF MachineOf, Created, ClosedAs, Live, Transitions
<1> QED
  BY <1>1, <1>2, <1>3, <1>4 DEF Kinds


-----------------------------------------------------------------------------
(* What requests in flight rely on *)

\* A tag is of an object that does not exist; a patch is of one that does, of the kind
\* it was read with, and asks for what a transition of what was read allows.
InFlight(q, O) ==
  /\ q.pc = "tag" => O[q.obj].status = "NONE"
  /\ q.pc = "patch" =>
       /\ O[q.obj].status # "NONE" /\ O[q.obj].kind = q.seen.kind
       /\ q.seen.status \in Statuses(q.seen.kind)
       /\ q.to \in Asked(q.seen.kind, q.seen)

\* No two requests insert one object, publish one snapshot or hold one row.
Apart(q, p) ==
  /\ q.pc = "tag" /\ p.pc = "tag" => q.obj # p.obj
  /\ q.pc \in Publishing /\ p.pc \in Publishing => q.snap # p.snap /\ q.held \cap p.held = {}

\* The kinds whose objects a publish has looked for.
Passed ==
  [list |-> {}, settle |-> {}, promise |-> {}, dispute |-> {"promise"},
   task |-> {"promise", "dispute"}, exception |-> {"promise", "dispute", "task"},
   suggest |-> Kinds, commit |-> Kinds]

LiveIn(O, o) == O[o].status \in Live[O[o].kind]

\* What a publish q has written still matches, and of what it lists it has, or will
\* get, every live object of the kinds passed that is not among those changed.
Standing(q, changed, O, J, P) ==
  q.pc \in Publishing =>
    /\ q.snap \notin P
    /\ q.pc = "list" => q.held = {}
    /\ q.pc # "list" => InvoicesOf(q.snap) \subseteq q.held
    /\ q.pc = "commit" => q.found = {}
    /\ \A o \in Ids : o \in q.held => LiveIn(O, o)
    /\ \A i \in Invoices \ InvoicesOf(q.snap) : i \in q.held => J[i] = "OPEN"
    /\ \A o \in Ids : InvoiceOfId(o) \in q.list /\ o \notin changed /\ LiveIn(O, o)
                        /\ O[o].kind \in Passed[q.pc] => o \in q.found \cup q.held
    /\ \A o \in q.tasks : o[1] = q.snap

\* The inductive invariant.
Inv ==
  /\ TypeOK
  /\ \A o \in Suggestions : Kind(o) = "task" /\ (Exists(o) => o[1] \in pub)
  /\ \A r \in Reqs : InFlight(req[r], obj) /\ Standing(req[r], since[r], obj, inv, pub)
  /\ \A r, k \in Reqs : r # k => Apart(req[r], req[k])

\* Objects stay and keep their kind; suggestions are of published snapshots.
Kept ==
  /\ \A o \in Ids : Exists(o) => obj'[o].status # "NONE" /\ obj'[o].kind = Kind(o)
  /\ \A o \in Suggestions :
       obj'[o].kind = "task" /\ (obj'[o].status # "NONE" => o[1] \in pub')

\* A step leaves alone what request k relies on.
Spares(k) ==
  /\ req[k].pc = "tag" => obj'[req[k].obj].status = "NONE"
  /\ req[k].pc \in Publishing =>
       /\ req[k].snap \notin pub'
       /\ \A o \in Ids : o \in req[k].held => obj'[o] = obj[o]
       /\ \A i \in Invoices : i \in req[k].held => inv'[i] = inv[i]

LEMMA NamesApart ==
  /\ Objs \cap Suggestions = {} /\ Invoices \cap Ids = {}
  /\ \A o \in Ids : InvoiceOfId(o) \in Invoices
  /\ \A o \in Suggestions : o[1] \in Snapshots /\ InvoiceOfId(o) \in InvoicesOf(o[1])
<1>1. Suggestions \subseteq Snapshots \X Rows \X Reasons
  BY ObjectsAssumption DEF Suggestions
<1>2. Objs \cap Suggestions = {} /\ Invoices \cap Ids = {}
  BY <1>1, ObjectsAssumption DEF Ids
<1>3. ASSUME NEW o \in Suggestions
      PROVE  /\ o[1] \in Snapshots /\ InvoiceOfId(o) \in InvoicesOf(o[1])
             /\ InvoiceOfId(o) \in Invoices
  <2>1. PICK t \in Snapshots : \E row \in RowsOf[t], y \in Reasons : o = <<t, row, y>>
    BY <1>3 DEF Suggestions
  <2>2. PICK row \in RowsOf[t], y \in Reasons : o = <<t, row, y>>
    BY <2>1
  <2>3. o \notin Objs /\ row \in Rows
    BY <1>2, <2>2, ObjectsAssumption
  <2>4. o[1] = t /\ InvoiceOfId(o) = InvoiceOfRow[row]
    BY <2>2, <2>3 DEF InvoiceOfId
  <2> QED
    BY <2>2, <2>3, <2>4, ObjectsAssumption DEF InvoicesOf
<1>4. \A o \in Objs : InvoiceOfId(o) \in Invoices
  BY ObjectsAssumption DEF InvoiceOfId
<1> QED
  BY <1>2, <1>3, <1>4 DEF Ids

LEMMA StepsAre ==
  /\ "idle" \notin Publishing /\ "tag" \notin Publishing /\ "patch" \notin Publishing
  /\ Publishing = {"list", "settle", "promise", "dispute", "task", "exception", "suggest", "commit"}
  /\ Listed = {"settle", "promise", "dispute", "task", "exception", "suggest", "commit"}
BY DEF Publishing, Listed, Kinds

LEMMA RequestIs ==
  ASSUME TypeOK, NEW r \in Reqs
  PROVE  /\ At(r, "tag") => req[r] = [pc |-> "tag", obj |-> req[r].obj] /\ req[r].obj \in Objs
         /\ At(r, "patch") => /\ req[r].obj \in Ids /\ req[r].seen \in Object
                              /\ req[r].to \in AnyStatus \cup {"KEEP"}
         /\ req[r].pc \in Publishing => req[r] \in Publish
BY StepsAre DEF TypeOK, At, Idle, Publish

\* An object a publish holds exists.
LEMMA HeldExists ==
  ASSUME Inv, NEW k \in Reqs, NEW o \in Ids, o \in Held(k)
  PROVE  /\ req[k].pc \in Publishing /\ o \in req[k].held
         /\ obj[o].status \in Live[Kind(o)] /\ Exists(o)
<1>1. req[k].pc \in Publishing /\ o \in req[k].held
  BY DEF Held
<1>2. obj[o].status \in Live[Kind(o)]
  BY <1>1 DEF Inv, Standing, LiveIn, Kind
<1>3. Kind(o) \in Kinds
  BY DEF Inv, TypeOK, Object, Kind
<1>4. "NONE" \notin Live[Kind(o)]
  BY <1>3 DEF Live, Kinds
<1> QED
  BY <1>1, <1>2, <1>4 DEF Exists

LEMMA Remembers ==
  ASSUME TypeOK, Remember
  PROVE  /\ since' \in [Reqs -> SUBSET Ids]
         /\ \A k \in Reqs : req'[k].pc \in Listed =>
              /\ since[k] \subseteq since'[k]
              /\ \A o \in Ids : obj'[o] # obj[o] => o \in since'[k]
BY DEF TypeOK, Remember

LEMMA StillStanding ==
  ASSUME Inv, NEW k \in Reqs, Kept, Spares(k), Remember, req'[k] = req[k]
  PROVE  InFlight(req[k], obj') /\ Standing(req[k], since'[k], obj', inv', pub')
<1>1. InFlight(req[k], obj')
  BY RequestIs DEF Inv, InFlight, Kept, Spares, Exists, Kind, At
<1>2. ASSUME req[k].pc \in Publishing
      PROVE  \A o \in Ids : InvoiceOfId(o) \in req[k].list /\ o \notin since'[k] /\ LiveIn(obj', o)
                        /\ obj'[o].kind \in Passed[req[k].pc] => o \in req[k].found \cup req[k].held
  <2>1. CASE req[k].pc = "list"
    BY <2>1 DEF Passed
  <2>2. CASE req[k].pc # "list"
    <3>1. req'[k].pc \in Listed
      BY <1>2, <2>2, StepsAre
    <3>2. \A o \in Ids : o \notin since'[k] => obj'[o] = obj[o] /\ o \notin since[k]
      BY <3>1, Remembers DEF Inv
    <3> QED
      BY <1>2, <3>2 DEF Inv, Standing, LiveIn
  <2> QED
    BY <2>1, <2>2
<1>3. Standing(req[k], since'[k], obj', inv', pub')
  BY <1>2 DEF Standing, Inv, Spares, LiveIn
<1> QED
  BY <1>1, <1>3

\* A step of request r keeps the invariant if it spares the others and r stands.
LEMMA Going ==
  ASSUME Inv, TypeOK', Kept, Remember, NEW r \in Reqs,
         \A k \in Reqs \ {r} : req'[k] = req[k] /\ Spares(k) /\ Apart(req'[r], req[k]),
         InFlight(req'[r], obj'), Standing(req'[r], since'[r], obj', inv', pub')
  PROVE  Inv'
<1>1. \A k \in Reqs : InFlight(req'[k], obj') /\ Standing(req'[k], since'[k], obj', inv', pub')
  BY StillStanding
<1>2. \A j, k \in Reqs : j # k => Apart(req'[j], req'[k])
  BY DEF Inv, Apart
<1>3. \A o \in Suggestions :
        obj'[o].kind = "task" /\ (obj'[o].status # "NONE" => o[1] \in pub')
  BY DEF Kept
<1> QED
  BY <1>1, <1>2, <1>3 DEF Inv, Kind, Exists

LEMMA IdleStands ==
  ASSUME NEW changed, NEW O, NEW J, NEW P
  PROVE  /\ InFlight(Idle, O) /\ Standing(Idle, changed, O, J, P)
         /\ \A k \in Reqs : Apart(Idle, req[k])
BY StepsAre DEF InFlight, Apart, Standing, Idle

\* A request moves and leaves the tables alone.
LEMMA Moving ==
  ASSUME Inv, Remember, NEW r \in Reqs, NEW q, Goto(r, q), UNCHANGED <<inv, obj, pub>>,
         q \in {Idle} \cup [pc: {"tag"}, obj: Objs] \cup Publish
                \cup [pc: {"patch"}, obj: Ids, seen: Object, to: AnyStatus \cup {"KEEP"}],
         InFlight(q, obj), Standing(q, since'[r], obj, inv, pub),
         \A k \in Reqs \ {r} : Apart(q, req[k])
  PROVE  Inv'
<1>1. req'[r] = q /\ \A k \in Reqs \ {r} : req'[k] = req[k]
  BY DEF Goto, Inv, TypeOK
<1>2. TypeOK'
  <2>1. req' \in [Reqs -> {Idle} \cup [pc: {"tag"}, obj: Objs] \cup Publish
                \cup [pc: {"patch"}, obj: Ids, seen: Object, to: AnyStatus \cup {"KEEP"}]]
    BY DEF Goto, Inv, TypeOK
  <2>2. since' \in [Reqs -> SUBSET Ids]
    BY Remembers DEF Inv
  <2> QED
    BY <2>1, <2>2 DEF Inv, TypeOK, Exists, Kind
<1>3. Kept
  BY DEF Kept, Inv, Exists, Kind
<1>4. \A k \in Reqs : Spares(k)
  BY DEF Inv, Spares, InFlight, Standing
<1> QED
  BY <1>1, <1>2, <1>3, <1>4, Going

\* A request ends and leaves the tables alone.
LEMMA Ending ==
  ASSUME Inv, Remember, NEW r \in Reqs, Goto(r, Idle), UNCHANGED <<inv, obj, pub>>
  PROVE  Inv'
BY IdleStands, Moving

\* The table with one object more or another.
LEMMA Writing ==
  ASSUME Inv, NEW o \in Ids, NEW k \in Kinds, NEW s \in Statuses(k), NEW at \in BOOLEAN,
         Exists(o) \/ o \in Objs, Exists(o) => k = Kind(o), UNCHANGED pub,
         obj' = [obj EXCEPT ![o] = [kind |-> k, status |-> s, at |-> at]]
  PROVE  /\ obj' \in [Ids -> Object]
         /\ \A i \in Ids : obj'[i].status # "NONE" => obj'[i].status \in Statuses(obj'[i].kind)
         /\ Kept
<1>1. [kind |-> k, status |-> s, at |-> at] \in Object /\ s # "NONE"
  BY Machines DEF Object, AnyStatus, MachineOf
<1>2. obj'[o] = [kind |-> k, status |-> s, at |-> at] /\ \A i \in Ids \ {o} : obj'[i] = obj[i]
  BY DEF Inv, TypeOK
<1>3. obj' \in [Ids -> Object]
  BY <1>1 DEF Inv, TypeOK
<1>4. \A i \in Ids : obj'[i].status # "NONE" => obj'[i].status \in Statuses(obj'[i].kind)
  BY <1>2 DEF Inv, TypeOK, Exists, Kind
<1>5. \A i \in Ids : Exists(i) => obj'[i].status # "NONE" /\ obj'[i].kind = Kind(i)
  BY <1>1, <1>2 DEF Exists, Kind
<1>6. ASSUME NEW i \in Suggestions
      PROVE  obj'[i].kind = "task" /\ (obj'[i].status # "NONE" => i[1] \in pub')
  <2>1. i \in Ids /\ i \notin Objs
    BY NamesApart DEF Ids
  <2>2. i = o => Exists(o)
    BY <2>1
  <2> QED
    BY <1>2, <2>1, <2>2 DEF Inv, Exists, Kind
<1> QED
  BY <1>3, <1>4, <1>5, <1>6 DEF Kept

\* A step of request r that writes one object that no publish has closed.
LEMMA WritingInv ==
  ASSUME Inv, Remember, NEW r \in Reqs, NEW o \in Ids, NEW k \in Kinds, NEW s \in Statuses(k),
         NEW at \in BOOLEAN, Exists(o) \/ o \in Objs, Exists(o) => k = Kind(o),
         obj' = [obj EXCEPT ![o] = [kind |-> k, status |-> s, at |-> at]],
         UNCHANGED <<inv, pub>>, req' = [req EXCEPT ![r] = Idle],
         \A j \in Reqs : o \notin Held(j),
         \A j \in Reqs \ {r} : At(j, "tag") => req[j].obj # o
  PROVE  Inv'
<1>1. Kept /\ obj' \in [Ids -> Object]
      /\ \A i \in Ids : obj'[i].status # "NONE" => obj'[i].status \in Statuses(obj'[i].kind)
  BY Writing
<1>2. req'[r] = Idle /\ \A j \in Reqs \ {r} : req'[j] = req[j]
  BY DEF Inv, TypeOK
<1>3. TypeOK'
  BY <1>1, Remembers DEF Inv, TypeOK, Exists, Kind
<1>4. \A i \in Ids \ {o} : obj'[i] = obj[i]
  BY DEF Inv, TypeOK
<1>5. ASSUME NEW j \in Reqs \ {r} PROVE Spares(j)
  <2>1. req[j].pc = "tag" => obj'[req[j].obj].status = "NONE"
    BY <1>4, RequestIs DEF Inv, InFlight, At, Ids
  <2>2. req[j].pc \in Publishing => req[j].snap \notin pub'
    BY DEF Inv, Standing
  <2>3. req[j].pc \in Publishing => \A i \in Ids : i \in req[j].held => obj'[i] = obj[i]
    BY <1>4 DEF Held
  <2> QED
    BY <2>1, <2>2, <2>3 DEF Spares
<1> QED
  BY <1>1, <1>2, <1>3, <1>5, IdleStands, Going

LEMMA CreateInv ==
  ASSUME Inv, Remember, NEW r \in Reqs, NEW o \in Objs, Create(r, o)
  PROVE  Inv'
<1>1. PICK k \in Kinds : New(o, k)
  BY DEF Create
<1>2. o \in Ids /\ ~Exists(o) /\ Created[k] \in Statuses(k)
  BY Machines DEF Create, Free, Ids, MachineOf
<1>3. \A j \in Reqs : o \notin Held(j)
  BY <1>2, HeldExists
<1>4. \A j \in Reqs : At(j, "tag") => req[j].obj # o
  BY RequestIs DEF Create, Free, Inv
<1>5. req' = [req EXCEPT ![r] = Idle]
  BY DEF Create, At, Inv, TypeOK, Idle, Publish, Publishing, Listed, Kinds
<1> QED
  BY <1>1, <1>2, <1>3, <1>4, <1>5, WritingInv DEF New, Create

LEMMA TagBeginInv ==
  ASSUME Inv, Remember, NEW r \in Reqs, NEW o \in Objs, TagBegin(r, o)
  PROVE  Inv'
<1> DEFINE q == [pc |-> "tag", obj |-> o]
<1>1. Goto(r, q) /\ ~Exists(o) /\ UNCHANGED <<inv, obj, pub>>
  BY DEF TagBegin, Free
<1>2. InFlight(q, obj) /\ Standing(q, since'[r], obj, inv, pub)
  BY <1>1, StepsAre DEF InFlight, Exists, Standing
<1>3. \A k \in Reqs : Apart(q, req[k])
  BY RequestIs, StepsAre DEF TagBegin, Free, Apart, At, Inv
<1> QED
  BY <1>1, <1>2, <1>3, Moving

LEMMA TagCommitInv ==
  ASSUME Inv, Remember, NEW r \in Reqs, TagCommit(r)
  PROVE  Inv'
<1>0. PICK o : o = req[r].obj
  OBVIOUS
<1>1. o \in Objs /\ o \in Ids /\ ~Exists(o) /\ New(o, "exception") /\ Goto(r, Idle)
  BY <1>0, RequestIs DEF TagCommit, Inv, InFlight, At, Exists, Ids
<1>2. Created["exception"] \in Statuses("exception") /\ "exception" \in Kinds
  BY Machines DEF MachineOf, Kinds
<1>3. \A j \in Reqs : o \notin Held(j)
  BY <1>1, HeldExists
<1>4. \A j \in Reqs \ {r} : At(j, "tag") => req[j].obj # o
  BY <1>0 DEF TagCommit, Inv, Apart, At
<1>5. /\ obj' = [obj EXCEPT ![o] = [kind |-> "exception", status |-> Created["exception"],
                                    at |-> FALSE]]
      /\ UNCHANGED <<inv, pub>> /\ req' = [req EXCEPT ![r] = Idle]
  BY <1>1 DEF New, TagCommit, Goto
<1> QED
  BY <1>1, <1>2, <1>3, <1>4, <1>5, WritingInv

\* What a patch may ask for is no status or one of its machine.
LEMMA AskedIs ==
  ASSUME NEW k \in Kinds, NEW seen \in Object, seen.status \in Statuses(k), NEW to \in Asked(k, seen)
  PROVE  /\ to = "KEEP" \/ to \in Statuses(k)
         /\ to \in AnyStatus \cup {"KEEP"}
         /\ k = "exception" => to \in {"KEEP", "RESOLVED"}
         /\ Transitions[k][seen.status] = {} => to \in {"KEEP", seen.status}
         /\ to = "ACTIVE" => FALSE
<1>1. MachineOf(k)
  BY Machines
<1>2. to = "KEEP" \/ to \in Transitions[k][seen.status] \/ (k # "exception" /\ to = seen.status)
  BY DEF Asked
<1> QED
  BY <1>1, <1>2 DEF MachineOf, AnyStatus

LEMMA PatchBeginInv ==
  ASSUME Inv, Remember, NEW r \in Reqs, NEW o \in Ids, PatchBegin(r, o)
  PROVE  Inv'
<1>1. PICK to \in Asked(Kind(o), obj[o]) :
        Goto(r, [pc |-> "patch", obj |-> o, seen |-> obj[o], to |-> to])
  BY DEF PatchBegin
<1> DEFINE q == [pc |-> "patch", obj |-> o, seen |-> obj[o], to |-> to]
<1>2. obj[o] \in Object /\ Kind(o) \in Kinds /\ obj[o].status \in Statuses(Kind(o)) /\ Exists(o)
  BY DEF PatchBegin, Inv, TypeOK, Object, Kind
<1>3. to \in AnyStatus \cup {"KEEP"}
  BY <1>2, AskedIs
<1>4. InFlight(q, obj) /\ Standing(q, since'[r], obj, inv, pub)
  BY <1>2, StepsAre DEF PatchBegin, InFlight, Exists, Kind, Standing
<1>5. \A k \in Reqs : Apart(q, req[k])
  BY StepsAre DEF Apart
<1>6. q \in [pc: {"patch"}, obj: Ids, seen: Object, to: AnyStatus \cup {"KEEP"}]
  BY <1>2, <1>3
<1> QED
  BY <1>1, <1>4, <1>5, <1>6, Moving DEF PatchBegin

\* What a patch writes on its object.
LEMMA Patches ==
  ASSUME Inv, NEW r \in Reqs, PatchCommit(r)
  PROVE  \E o \in Ids, k \in Kinds, s \in AnyStatus, at \in BOOLEAN :
           /\ o = req[r].obj /\ Exists(o) /\ Kind(o) = k /\ s \in Statuses(k)
           /\ req[r].seen \in Object /\ req[r].seen.status \in Statuses(k)
           /\ req[r].to \in Asked(k, req[r].seen)
           /\ s = (IF req[r].to = "KEEP" THEN obj[o].status ELSE req[r].to)
           /\ obj' = [obj EXCEPT ![o] = [kind |-> k, status |-> s, at |-> at]]
<1> DEFINE q == req[r]
           o == q.obj
           k == Kind(o)
           s == IF q.to = "KEEP" THEN obj[o].status ELSE q.to
           at == Dated(k, q, obj[o].at)
<1>1. At(r, "patch") /\ q.obj \in Ids /\ q.seen \in Object
  BY RequestIs DEF PatchCommit, Inv
<1>2. /\ Exists(o) /\ k = q.seen.kind /\ k \in Kinds
      /\ q.seen.status \in Statuses(k) /\ q.to \in Asked(k, q.seen)
  BY <1>1 DEF Inv, TypeOK, Object, InFlight, At, Exists, Kind
<1>3. s \in Statuses(k) /\ s \in AnyStatus
  BY <1>1, <1>2, AskedIs DEF Inv, TypeOK, AnyStatus
<1>4. at \in BOOLEAN
  <2>1. q.seen.at \in BOOLEAN /\ obj[o].at \in BOOLEAN
    BY <1>1 DEF Inv, TypeOK, Object
  <2> QED
    BY <2>1 DEF Dated
<1>5. obj' = [obj EXCEPT ![o] = [kind |-> k, status |-> s, at |-> at]]
  BY DEF PatchCommit, Patched
<1> HIDE DEF k, s, at
<1> QED
  BY <1>1, <1>2, <1>3, <1>4, <1>5 DEF k, s

LEMMA PatchCommitInv ==
  ASSUME Inv, Remember, NEW r \in Reqs, PatchCommit(r)
  PROVE  Inv'
<1>1. PICK o \in Ids, k \in Kinds, s \in AnyStatus, at \in BOOLEAN :
        /\ o = req[r].obj /\ Exists(o) /\ Kind(o) = k /\ s \in Statuses(k)
        /\ obj' = [obj EXCEPT ![o] = [kind |-> k, status |-> s, at |-> at]]
  BY Patches
<1>2. \A j \in Reqs : At(j, "tag") => req[j].obj # o
  BY <1>1 DEF Inv, InFlight, At, Exists
<1>3. \A j \in Reqs : o \notin Held(j)
  BY <1>1 DEF PatchCommit
<1> QED
  BY <1>1, <1>2, <1>3, WritingInv DEF PatchCommit, Goto

-----------------------------------------------------------------------------
(* The steps of a publish *)

LEMMA PublishBeginInv ==
  ASSUME Inv, Remember, NEW r \in Reqs, NEW s \in Snapshots, PublishBegin(r, s)
  PROVE  Inv'
<1> DEFINE new == {i \in InvoicesOf(s) : inv[i] = "NONE"}
           q == [pc |-> "list", snap |-> s, new |-> new,
                 list |-> {}, found |-> {}, held |-> {}, tasks |-> {}]
<1>1. Goto(r, q) /\ s \notin pub /\ UNCHANGED <<inv, obj, pub>>
  BY DEF PublishBegin
<1>2. new \in SUBSET Invoices
  BY ObjectsAssumption DEF InvoicesOf
<1>3. q \in Publish
  BY <1>2, StepsAre DEF Publish
<1>4. InFlight(q, obj) /\ Standing(q, since'[r], obj, inv, pub)
  BY <1>1 DEF InFlight, Standing
<1>5. \A k \in Reqs : Apart(q, req[k])
  BY DEF Apart, PublishBegin
<1> QED
  BY <1>1, <1>3, <1>4, <1>5, Moving

LEMMA PublishListInv ==
  ASSUME Inv, Remember, NEW r \in Reqs, PublishList(r)
  PROVE  Inv'
<1> DEFINE p == req[r]
           q == [p EXCEPT !.pc = "settle", !.held = InvoicesOf(p.snap), !.list = Absent(p.snap)]
<1>1. CASE Goto(r, Idle)
  BY <1>1, Ending DEF PublishList
<1>2. CASE Goto(r, q)
  <2>1. p \in Publish /\ p.pc \in Publishing /\ p.pc = "list"
    BY RequestIs, StepsAre DEF PublishList, At, Inv
  <2>2. InvoicesOf(p.snap) \in SUBSET Invoices /\ Absent(p.snap) \in SUBSET Invoices
    BY <2>1, ObjectsAssumption DEF InvoicesOf, Absent, Publish
  <2>3. q \in Publish /\ q.pc = "settle" /\ q.held = InvoicesOf(p.snap) /\ q.snap = p.snap
        /\ q.tasks = p.tasks
    BY <2>1, <2>2, StepsAre DEF Publish
  <2>4. InFlight(q, obj)
    BY <2>3 DEF InFlight
  <2>5. Standing(q, since'[r], obj, inv, pub)
    BY <2>1, <2>2, <2>3, NamesApart DEF Inv, Standing, Passed
  <2>6. ASSUME NEW k \in Reqs \ {r} PROVE Apart(q, req[k])
    BY <2>1, <2>3 DEF Inv, Apart, PublishList, Held
  <2> HIDE DEF q
  <2> QED
    BY <1>2, <2>3, <2>4, <2>5, <2>6, Moving DEF PublishList
<1> QED
  BY <1>1, <1>2 DEF PublishList

LEMMA PublishSettleInv ==
  ASSUME Inv, Remember, NEW r \in Reqs, PublishSettle(r)
  PROVE  Inv'
<1> DEFINE p == req[r]
           q == [p EXCEPT !.pc = "promise", !.found = Absent(p.snap)]
<1>1. p \in Publish /\ p.pc \in Publishing /\ p.pc = "settle"
  BY RequestIs, StepsAre DEF PublishSettle, At, Inv
<1>2. Absent(p.snap) \in SUBSET Invoices
  BY DEF Absent
<1>3. q \in Publish /\ q.pc = "promise" /\ q.held = p.held /\ q.snap = p.snap /\ q.tasks = p.tasks
  BY <1>1, <1>2, StepsAre DEF Publish
<1>4. InFlight(q, obj) /\ Standing(q, since'[r], obj, inv, pub)
  BY <1>1, <1>3 DEF InFlight, Inv, Standing, Passed
<1>5. \A k \in Reqs \ {r} : Apart(q, req[k])
  BY <1>1, <1>3, StepsAre DEF Inv, Apart
<1> HIDE DEF q
<1>6. Goto(r, q) /\ UNCHANGED <<inv, obj, pub>>
  BY DEF PublishSettle, q
<1> QED
  BY <1>3, <1>4, <1>5, <1>6, Moving

\* What a publish has once the last UPDATE has its rows.
LEMMA Gotten ==
  ASSUME Inv, NEW r \in Reqs, Gets(r), req[r].pc \in Publishing \ {"list"}
  PROVE  /\ Got(r) \in SUBSET (Invoices \cup Ids) /\ InvoicesOf(req[r].snap) \subseteq Got(r)
         /\ \A o \in Ids : o \in Got(r) => LiveIn(obj, o)
         /\ \A i \in Invoices \ InvoicesOf(req[r].snap) : i \in Got(r) => inv[i] = "OPEN"
         /\ \A o \in Ids : LiveIn(obj, o) /\ o \in req[r].found \cup req[r].held => o \in Got(r)
         /\ \A k \in Reqs \ {r} : req[k].pc \in Publishing => Got(r) \cap req[k].held = {}
<1>1. req[r] \in Publish
  BY RequestIs DEF Inv
<1>2. Got(r) \in SUBSET (Invoices \cup Ids) /\ InvoicesOf(req[r].snap) \subseteq Got(r)
  BY <1>1 DEF Got, Inv, Standing, Publish
<1>3. \A o \in Ids : Matches(o) <=> LiveIn(obj, o)
  BY NamesApart DEF Matches, LiveIn, Kind
<1>4. \A i \in Invoices : Matches(i) <=> inv[i] = "OPEN"
  BY DEF Matches
<1>5. \A o \in Ids : o \in Got(r) => LiveIn(obj, o)
  BY <1>3 DEF Got, Inv, Standing
<1>6. \A i \in Invoices \ InvoicesOf(req[r].snap) : i \in Got(r) => inv[i] = "OPEN"
  BY <1>4 DEF Got, Inv, Standing
<1>7. \A o \in Ids : LiveIn(obj, o) /\ o \in req[r].found \cup req[r].held => o \in Got(r)
  BY <1>3 DEF Got
<1>8. ASSUME NEW k \in Reqs \ {r}, req[k].pc \in Publishing
      PROVE  Got(r) \cap req[k].held = {}
  <2>1. req[r].found \cap req[k].held = {}
    BY <1>8 DEF Gets, Held
  <2>2. req[r].held \cap req[k].held = {}
    BY <1>8 DEF Inv, Apart
  <2> QED
    BY <2>1, <2>2 DEF Got
<1> QED
  BY <1>2, <1>5, <1>6, <1>7, <1>8

LEMMA PublishCascadeInv ==
  ASSUME Inv, Remember, NEW r \in Reqs, PublishCascade(r)
  PROVE  Inv'
<1> DEFINE p == req[r]
           F == {o \in Ids : /\ Kind(o) = p.pc /\ InvoiceOfId(o) \in p.list
                             /\ obj[o].status \in Live[p.pc]}
           q == [p EXCEPT !.pc = StepAfter[p.pc], !.held = Got(r), !.found = F]
<1>1. p.pc \in {"promise", "dispute", "task", "exception"} /\ Gets(r)
      /\ Goto(r, q) /\ UNCHANGED <<inv, obj, pub>>
  BY DEF PublishCascade, Kinds
<1>2. p \in Publish /\ p.pc \in Publishing \ {"list"}
  BY <1>1, RequestIs, StepsAre DEF Inv
<1>3. /\ StepAfter[p.pc] \in Listed \ {"commit"}
      /\ Passed[StepAfter[p.pc]] = Passed[p.pc] \cup {p.pc}
  BY <1>1, StepsAre DEF StepAfter, Passed, Kinds
<1>4. /\ q \in Publish /\ q.pc = StepAfter[p.pc] /\ q.held = Got(r) /\ q.snap = p.snap
      /\ q.tasks = p.tasks /\ q.list = p.list /\ q.found = F
  BY <1>1, <1>2, <1>3, Gotten DEF Publish, Publishing
<1>5. \A o \in Ids : InvoiceOfId(o) \in p.list /\ o \notin since'[r] /\ LiveIn(obj, o)
                       /\ obj[o].kind \in Passed[q.pc] => o \in F \cup Got(r)
  <2> SUFFICES ASSUME NEW o \in Ids, InvoiceOfId(o) \in p.list, o \notin since'[r], LiveIn(obj, o),
                      obj[o].kind \in Passed[q.pc]
               PROVE  o \in F \cup Got(r)
    OBVIOUS
  <2>1. CASE obj[o].kind = p.pc
    BY <2>1 DEF LiveIn, Kind
  <2>2. CASE obj[o].kind \in Passed[p.pc]
    <3>1. req'[r] = q
      BY <1>1 DEF Goto, Inv, TypeOK
    <3>2. o \notin since[r]
      BY <1>3, <1>4, <3>1, Remembers DEF Inv
    <3>3. o \in p.found \cup p.held
      BY <1>2, <2>2, <3>2 DEF Inv, Standing
    <3> QED
      BY <1>1, <1>2, <3>3, Gotten
  <2> QED
    BY <1>3, <1>4, <2>1, <2>2
<1> HIDE DEF F, q
<1>6. Standing(q, since'[r], obj, inv, pub)
  <2>1. p.snap \notin pub /\ \A o \in p.tasks : o[1] = p.snap
    BY <1>2 DEF Inv, Standing
  <2>2. q.pc \notin {"list", "commit"}
    BY <1>3, <1>4, StepsAre
  <2> QED
    BY <1>1, <1>2, <1>4, <1>5, <2>1, <2>2, Gotten DEF Standing
<1>7. InFlight(q, obj)
  BY <1>3, <1>4, StepsAre DEF InFlight
<1>8. \A k \in Reqs \ {r} : Apart(q, req[k])
  BY <1>1, <1>2, <1>3, <1>4, StepsAre, Gotten DEF Inv, Apart
<1> QED
  BY <1>1, <1>4, <1>6, <1>7, <1>8, Moving

LEMMA PublishSuggestInv ==
  ASSUME Inv, Remember, NEW r \in Reqs, PublishSuggest(r)
  PROVE  Inv'
<1> DEFINE p == req[r]
           T == {o \in Suggestions : o[1] = p.snap /\ o[3] \in Rules(o[2])}
           q == [p EXCEPT !.pc = "commit", !.held = Got(r), !.found = {}, !.tasks = T]
<1>1. p.pc = "suggest" /\ Gets(r) /\ Goto(r, q) /\ UNCHANGED <<inv, obj, pub>>
  BY DEF PublishSuggest, At
<1>2. p \in Publish /\ p.pc \in Publishing \ {"list"}
  BY <1>1, RequestIs, StepsAre DEF Inv
<1>3. /\ q \in Publish /\ q.pc = "commit" /\ q.held = Got(r) /\ q.snap = p.snap
      /\ q.tasks = T /\ q.list = p.list /\ q.found = {}
  BY <1>1, <1>2, StepsAre, Gotten DEF Publish
<1>4. \A o \in Ids : InvoiceOfId(o) \in p.list /\ o \notin since'[r] /\ LiveIn(obj, o)
                       /\ obj[o].kind \in Passed["commit"] => o \in Got(r)
  <2> SUFFICES ASSUME NEW o \in Ids, InvoiceOfId(o) \in p.list, o \notin since'[r], LiveIn(obj, o),
                      obj[o].kind \in Passed["commit"]
               PROVE  o \in Got(r)
    OBVIOUS
  <2>1. req'[r] = q
    BY <1>1 DEF Goto, Inv, TypeOK
  <2>2. o \notin since[r]
    BY <1>3, <2>1, StepsAre, Remembers DEF Inv
  <2>3. obj[o].kind \in Passed[p.pc]
    BY <1>1 DEF Passed
  <2>4. o \in p.found \cup p.held
    BY <1>2, <2>2, <2>3 DEF Inv, Standing
  <2> QED
    BY <1>1, <1>2, <2>4, Gotten
<1>5. \A o \in T : o[1] = p.snap
  OBVIOUS
<1> HIDE DEF T, q
<1>6. Standing(q, since'[r], obj, inv, pub)
  <2>1. p.snap \notin pub
    BY <1>2 DEF Inv, Standing
  <2> QED
    BY <1>1, <1>2, <1>3, <1>4, <1>5, <2>1, Gotten DEF Standing
<1>7. InFlight(q, obj)
  BY <1>3 DEF InFlight
<1>8. \A k \in Reqs \ {r} : Apart(q, req[k])
  BY <1>1, <1>2, <1>3, StepsAre, Gotten DEF Inv, Apart
<1> QED
  BY <1>1, <1>3, <1>6, <1>7, <1>8, Moving

\* What a publish leaves of an object: a new suggestion, on an invoice it reports; what
\* the cascade has closed; or what was there.
LEMMA Publishes ==
  ASSUME Inv, NEW r \in Reqs, PublishCommit(r), NEW o \in Ids
  PROVE  \/ /\ o \in Suggestions /\ o \notin Objs /\ ~Exists(o) /\ o[1] = req[r].snap
            /\ InvoiceOfId(o) \in InvoicesOf(req[r].snap)
            /\ obj'[o] = [kind |-> "task", status |-> "SUGGESTED", at |-> FALSE]
         \/ /\ o \in req[r].held /\ obj[o].status \in Live[Kind(o)]
            /\ obj'[o].kind = Kind(o) /\ obj'[o].status = ClosedAs[Kind(o)] /\ obj'[o] \in Object
         \/ o \notin req[r].held /\ obj'[o] = obj[o]
<1>1. obj'[o] = IF o \in req[r].tasks THEN [None EXCEPT !.status = "SUGGESTED"]
                ELSE IF o \in req[r].held THEN Closed(o) ELSE obj[o]
  BY DEF PublishCommit
<1>2. req[r].pc \in Publishing /\ req[r] \in Publish
  BY RequestIs, StepsAre DEF PublishCommit, At, Inv
<1>3. CASE o \in req[r].tasks
  <2>1. o \in Suggestions /\ o[1] = req[r].snap /\ req[r].snap \notin pub
    BY <1>2, <1>3 DEF Inv, Standing, Publish
  <2>2. o \notin Objs /\ ~Exists(o) /\ InvoiceOfId(o) \in InvoicesOf(req[r].snap)
    BY <2>1, NamesApart DEF Inv
  <2> QED
    BY <1>1, <1>3, <2>1, <2>2 DEF None
<1>4. CASE o \notin req[r].tasks /\ o \in req[r].held
  <2>1. obj[o].status \in Live[Kind(o)] /\ obj[o] \in Object /\ Kind(o) \in Kinds
    BY <1>2, <1>4 DEF Inv, Standing, LiveIn, Kind, TypeOK, Object
  <2>2. ClosedAs[Kind(o)] \in AnyStatus
    BY <2>1, Machines DEF MachineOf, AnyStatus
  <2> QED
    BY <1>1, <1>4, <2>1, <2>2 DEF Closed, Object, Kind
<1> QED
  BY <1>1, <1>3, <1>4

LEMMA PublishCommitInv ==
  ASSUME Inv, Remember, NEW r \in Reqs, PublishCommit(r)
  PROVE  Inv'
<1>1. ASSUME NEW o \in Ids
      PROVE  /\ obj'[o] \in Object
             /\ obj'[o].status # "NONE" => obj'[o].status \in Statuses(obj'[o].kind)
             /\ Exists(o) => obj'[o].status # "NONE" /\ obj'[o].kind = Kind(o)
             /\ o \in Suggestions =>
                  obj'[o].kind = "task" /\ (obj'[o].status # "NONE" => o[1] \in pub')
             /\ o \in Objs /\ ~Exists(o) => obj'[o].status = "NONE"
  <2>1. obj[o] \in Object /\ Kind(o) \in Kinds /\ (Exists(o) => obj[o].status \in Statuses(Kind(o)))
        /\ (o \in Suggestions => Kind(o) = "task" /\ (Exists(o) => o[1] \in pub))
        /\ pub' = pub \cup {req[r].snap}
    BY DEF Inv, TypeOK, Object, Kind, PublishCommit
  <2>2. MachineOf(Kind(o)) /\ "NONE" \notin Live[Kind(o)]
    BY <2>1, Machines DEF Live, Kinds
  <2>3. "SUGGESTED" \in Statuses("task")
    BY StatusesAre
  <2>4. [kind |-> "task", status |-> "SUGGESTED", at |-> FALSE] \in Object
    BY <2>3 DEF Object, Kinds, AnyStatus
  <2>5. CASE obj'[o] = obj[o]
    BY <2>1, <2>5 DEF Exists, Kind
  <2>6. CASE o \in Suggestions /\ o \notin Objs /\ ~Exists(o) /\ o[1] = req[r].snap
             /\ obj'[o] = [kind |-> "task", status |-> "SUGGESTED", at |-> FALSE]
    BY <2>1, <2>3, <2>4, <2>6
  <2>7. CASE /\ obj[o].status \in Live[Kind(o)]
             /\ obj'[o].kind = Kind(o) /\ obj'[o].status = ClosedAs[Kind(o)] /\ obj'[o] \in Object
    BY <2>1, <2>2, <2>7 DEF Exists, MachineOf
  <2> QED
    BY <2>5, <2>6, <2>7, Publishes
<1>2. req[r].pc \in Publishing /\ req[r] \in Publish /\ req[r].pc # "list"
  BY RequestIs, StepsAre DEF PublishCommit, At, Inv
<1>3. obj' \in [Ids -> Object]
  BY <1>1 DEF PublishCommit
<1>4. inv' \in [Invoices -> {"NONE", "OPEN", "SETTLED"}]
  BY DEF PublishCommit, Inv, TypeOK
<1>5. req' = [req EXCEPT ![r] = Idle] /\ pub' \subseteq Snapshots
  BY <1>2 DEF PublishCommit, Goto, Inv, TypeOK, Publish
<1>6. TypeOK'
  BY <1>1, <1>3, <1>4, <1>5, Remembers DEF Inv, TypeOK, Exists, Kind
<1>7. Kept
  BY <1>1 DEF Kept, Ids
<1>8. ASSUME NEW k \in Reqs \ {r} PROVE Spares(k)
  <2>1. req[k].pc = "tag" => obj'[req[k].obj].status = "NONE"
    BY <1>1, RequestIs DEF Inv, InFlight, At, Exists, Ids
  <2>2. ASSUME req[k].pc \in Publishing
        PROVE  /\ req[k].snap \notin pub'
               /\ \A o \in Ids : o \in req[k].held => obj'[o] = obj[o]
               /\ \A i \in Invoices : i \in req[k].held => inv'[i] = inv[i]
    <3>1. req[k].snap # req[r].snap /\ req[r].held \cap req[k].held = {}
      BY <1>2, <2>2 DEF Inv, Apart
    <3>2. req[k].snap \notin pub'
      BY <2>2, <3>1 DEF Inv, Standing, PublishCommit
    <3>3. \A o \in Ids : o \in req[k].held => obj'[o] = obj[o]
      <4> SUFFICES ASSUME NEW o \in Ids, o \in req[k].held PROVE obj'[o] = obj[o]
        OBVIOUS
      <4>1. o \in Held(k)
        BY <2>2 DEF Held
      <4>2. Exists(o) /\ o \notin req[r].held
        BY <3>1, <4>1, HeldExists
      <4> QED
        BY <4>2, Publishes
    <3>4. \A i \in Invoices : i \in req[k].held => inv'[i] = inv[i]
      BY <1>2, <3>1 DEF Inv, Standing, PublishCommit
    <3> QED
      BY <3>2, <3>3, <3>4
  <2> QED
    BY <2>1, <2>2 DEF Spares
<1>9. req'[r] = Idle /\ \A k \in Reqs \ {r} : req'[k] = req[k]
  BY <1>5 DEF Inv, TypeOK
<1> QED
  BY <1>6, <1>7, <1>8, <1>9, IdleStands, Going

LEMMA InvStep == Inv /\ [Next]_vars => Inv'
<1> SUFFICES ASSUME Inv, [Next]_vars PROVE Inv'
  OBVIOUS
<1>1. CASE UNCHANGED vars
  BY <1>1 DEF vars, Inv, TypeOK, Exists, Kind, InFlight, Standing, LiveIn, Apart
<1>2. ASSUME NEW r \in Reqs, Step(r), Remember PROVE Inv'
  BY <1>2, Ending, CreateInv, TagBeginInv, TagCommitInv, PatchBeginInv, PatchCommitInv,
     PublishBeginInv, PublishListInv, PublishSettleInv, PublishCascadeInv, PublishSuggestInv,
     PublishCommitInv DEF Step, Die
<1> QED
  BY <1>1, <1>2 DEF Next

LEMMA InvInit == Init => Inv
BY StepsAre
   DEF Init, Inv, TypeOK, None, Object, Kinds, Exists, Kind, Ids, InFlight, Apart, Idle, Standing

\* Every variable has its type, whatever overlaps.
THEOREM ObjectsTyped == Spec => []TypeOK
<1>1. Inv => TypeOK
  BY DEF Inv
<1> QED
  BY <1>1, InvInit, InvStep, PTL DEF Spec

-----------------------------------------------------------------------------
(* What holds however requests overlap *)

\* A step that publishes nothing writes one object: one that is not there, with the
\* status it is created with, or one that is patched.
LEMMA WritesOne ==
  ASSUME Inv, NEW r \in Reqs,
         (\E o \in Objs : Create(r, o)) \/ TagCommit(r) \/ PatchCommit(r), NEW o \in Ids
  PROVE  \/ obj'[o] = obj[o]
         \/ ~Exists(o)
         \/ /\ At(r, "patch") /\ o = req[r].obj /\ obj'[o].kind = Kind(o)
            /\ req[r].seen \in Object /\ req[r].seen.status \in Statuses(Kind(o))
            /\ req[r].to \in Asked(Kind(o), req[r].seen)
            /\ obj'[o].status = (IF req[r].to = "KEEP" THEN obj[o].status ELSE req[r].to)
<1>1. ASSUME NEW p \in Objs, Create(r, p) PROVE obj'[o] = obj[o] \/ ~Exists(o)
  BY <1>1 DEF Create, Free, New, Inv, TypeOK
<1>2. CASE TagCommit(r)
  BY <1>2 DEF TagCommit, New, Inv, TypeOK, InFlight, At, Exists
<1>3. CASE PatchCommit(r)
  <2>1. PICK p \in Ids, k \in Kinds, s \in AnyStatus, at \in BOOLEAN :
          /\ p = req[r].obj /\ Exists(p) /\ Kind(p) = k
          /\ req[r].seen \in Object /\ req[r].seen.status \in Statuses(k)
          /\ req[r].to \in Asked(k, req[r].seen)
          /\ s = (IF req[r].to = "KEEP" THEN obj[p].status ELSE req[r].to)
          /\ obj' = [obj EXCEPT ![p] = [kind |-> k, status |-> s, at |-> at]]
    BY <1>3, Patches
  <2>2. At(r, "patch")
    BY <1>3 DEF PatchCommit
  <2>3. CASE o = p
    <3>1. obj'[o] = [kind |-> k, status |-> s, at |-> at]
      BY <2>1, <2>3 DEF Inv, TypeOK
    <3> QED
      BY <2>1, <2>2, <2>3, <3>1
  <2>4. CASE o # p
    BY <2>1, <2>4 DEF Inv, TypeOK
  <2> QED
    BY <2>3, <2>4
<1> QED
  BY <1>1, <1>2, <1>3

\* The steps: no object changes, or one is written, or a publish commits.
LEMMA StepIs ==
  ASSUME [Next]_vars
  PROVE  \/ UNCHANGED <<inv, obj, pub>>
         \/ /\ UNCHANGED <<inv, pub>>
            /\ \E r \in Reqs : (\E o \in Objs : Create(r, o)) \/ TagCommit(r) \/ PatchCommit(r)
         \/ \E r \in Reqs : PublishCommit(r)
BY DEF Next, Step, vars, Create, TagBegin, TagCommit, PatchBegin, PatchCommit, Die, PublishBegin,
       PublishList, PublishSettle, PublishCascade, PublishSuggest

LEMMA ResolvedKept ==
  ASSUME Inv, [Next]_vars
  PROVE  KeepsResolved
<1> SUFFICES ASSUME NEW o \in Objs, Kind(o) = "exception", Exists(o), obj[o].status # "ACTIVE"
             PROVE  obj'[o].status # "ACTIVE"
  BY DEF KeepsResolved
<1>0. o \in Ids /\ "exception" \in Kinds
  BY DEF Ids, Kinds
<1>1. ASSUME NEW r \in Reqs,
             (\E p \in Objs : Create(r, p)) \/ TagCommit(r) \/ PatchCommit(r)
      PROVE  obj'[o].status # "ACTIVE"
  <2>1. CASE obj'[o] = obj[o]
    BY <2>1
  <2>2. CASE /\ req[r].seen \in Object /\ req[r].seen.status \in Statuses(Kind(o))
             /\ req[r].to \in Asked(Kind(o), req[r].seen)
             /\ obj'[o].status = (IF req[r].to = "KEEP" THEN obj[o].status ELSE req[r].to)
    BY <1>0, <2>2, AskedIs
  <2> QED
    BY <1>0, <1>1, <2>1, <2>2, WritesOne
<1>2. ASSUME NEW r \in Reqs, PublishCommit(r) PROVE obj'[o].status # "ACTIVE"
  <2>1. ClosedAs["exception"] # "ACTIVE"
    BY DEF ClosedAs
  <2> QED
    BY <1>0, <1>2, <2>1, Publishes
<1> QED
  BY <1>1, <1>2, StepIs

\* What is in no live status is in one that no transition leaves, or resolved.
LEMMA Whole ==
  ASSUME Inv, NEW r \in Reqs, PublishCommit(r), NEW o \in Ids,
         InvoiceOfId(o) \in req[r].list, o \notin since[r],
         inv[InvoiceOfId(o)] = "OPEN", inv'[InvoiceOfId(o)] = "SETTLED"
  PROVE  obj'[o].status \in {"NONE", "RESOLVED"} \/ Transitions[Kind(o)][obj'[o].status] = {}
<1>1. InvoiceOfId(o) \in Invoices /\ InvoiceOfId(o) \notin InvoicesOf(req[r].snap)
  BY NamesApart DEF PublishCommit
<1>2. Kind(o) \in Kinds /\ MachineOf(Kind(o)) /\ (Exists(o) => obj[o].status \in Statuses(Kind(o)))
  BY Machines DEF Inv, TypeOK, Object, Kind
<1>3. CASE obj'[o].status = ClosedAs[Kind(o)]
  BY <1>2, <1>3 DEF MachineOf
<1>4. CASE o \notin req[r].held /\ obj'[o] = obj[o]
  <2>1. req[r].pc = "commit" /\ req[r].pc \in Publishing
    BY StepsAre DEF PublishCommit, At
  <2>2. obj[o].status \notin Live[Kind(o)]
    BY <1>2, <1>4, <2>1 DEF Inv, Standing, LiveIn, Kind, Passed
  <2> QED
    BY <1>2, <1>4, <2>2 DEF MachineOf, Exists
<1> QED
  BY <1>1, <1>3, <1>4, Publishes

LEMMA SettledWhole ==
  ASSUME Inv, [Next]_vars
  PROVE  SettlesWhole
<1> SUFFICES ASSUME NEW r \in Reqs, NEW o \in Ids, At(r, "commit"), req'[r] # req[r],
                    InvoiceOfId(o) \in req[r].list, o \notin since[r],
                    inv[InvoiceOfId(o)] = "OPEN", inv'[InvoiceOfId(o)] = "SETTLED"
             PROVE  obj'[o].status \in {"NONE", "RESOLVED"}
                    \/ Transitions[Kind(o)][obj'[o].status] = {}
  BY DEF SettlesWhole
<1>1. PICK k \in Reqs : Step(k)
  BY DEF Next, vars
<1>2. inv' # inv
  OBVIOUS
<1>3. PublishCommit(k)
  BY <1>1, <1>2 DEF Step, Create, TagBegin, TagCommit, PatchBegin, PatchCommit, Die, PublishBegin,
       PublishList, PublishSettle, PublishCascade, PublishSuggest
<1>4. k = r
  BY <1>3 DEF PublishCommit, Goto, Inv, TypeOK
<1> QED
  BY <1>3, <1>4, Whole

\* However requests overlap, a resolved exception is never ACTIVE again (updateException),
\* and of the invoices a publish has listed and settles none keeps work that could go on
\* and that nobody else has touched since (autoResolveCascadeOnSettle).
THEOREM WorkStands == Spec => [][KeepsResolved /\ SettlesWhole]_vars
<1>1. Inv /\ [Next]_vars => [KeepsResolved /\ SettlesWhole]_vars
  BY ResolvedKept, SettledWhole
<1> QED
  BY <1>1, InvInit, InvStep, PTL DEF Spec

-----------------------------------------------------------------------------
(* What holds while requests do not overlap *)

\* What was read is still true when it is written.
StillTrue(q, changed, objects, invoices) ==
  /\ q.pc = "patch" => objects[q.obj] = q.seen
  /\ q.pc = "tag" => invoices[InvoiceOf[q.obj]] = "OPEN"
  /\ q.pc \in Listed => q.list = {i \in Invoices \ InvoicesOf(q.snap) : invoices[i] = "OPEN"}
  /\ changed = {}

\* The inductive invariant for one request at a time.
AloneInv ==
  /\ Inv /\ NoZombies
  /\ \A r \in Reqs : StillTrue(req[r], since[r], obj, inv)

OneAtATime == \A r \in Reqs : ~At(r, "idle") => req'[r] # req[r]

LEMMA AloneGoing ==
  ASSUME AloneInv, OneAtATime, Remember, Inv', NoZombies', NEW r \in Reqs, NEW q, Goto(r, q), q # req[r],
         StillTrue(q, since'[r], obj', inv')
  PROVE  AloneInv'
<1>1. req'[r] = q /\ \A k \in Reqs \ {r} : req'[k] = req[k]
  BY DEF Goto, AloneInv, Inv, TypeOK
<1>2. \A k \in Reqs \ {r} : At(k, "idle")
  BY <1>1 DEF OneAtATime
<1>3. \A k \in Reqs : StillTrue(req'[k], since'[k], obj', inv')
  BY <1>1, <1>2, StepsAre DEF StillTrue, At, Remember, Listed, Kinds
<1> QED
  BY <1>3 DEF AloneInv

\* Steps that only move a request.
LEMMA AloneReads ==
  ASSUME AloneInv, OneAtATime, Remember, Inv', NEW r \in Reqs, NEW q, Goto(r, q), q # req[r],
         UNCHANGED <<inv, obj, pub>>, StillTrue(q, since'[r], obj, inv)
  PROVE  AloneInv' /\ KeepsTerminal
<1>1. NoZombies' /\ KeepsTerminal
  BY DEF AloneInv, NoZombies, KeepsTerminal
<1> QED
  BY <1>1, AloneGoing

\* Steps that write one object and end their request, or never had one in flight.
LEMMA AloneWrites ==
  ASSUME AloneInv, Inv', NEW r \in Reqs,
         (\E o \in Objs : Create(r, o)) \/ TagCommit(r) \/ PatchCommit(r)
  PROVE  KeepsTerminal /\ NoZombies'
<1>1. UNCHANGED <<inv, pub>>
  BY DEF Create, TagCommit, PatchCommit
<1>2. ASSUME NEW o \in Ids, Exists(o)
      PROVE  \/ obj'[o] = obj[o]
             \/ /\ Transitions[Kind(o)][obj[o].status] = {} => obj'[o].status = obj[o].status
                /\ obj'[o].status = "ACTIVE" => obj[o].status = "ACTIVE"
  <2>1. Kind(o) \in Kinds
    BY DEF AloneInv, Inv, TypeOK, Object, Kind
  <2>2. CASE /\ At(r, "patch") /\ o = req[r].obj
             /\ req[r].seen \in Object /\ req[r].seen.status \in Statuses(Kind(o))
             /\ req[r].to \in Asked(Kind(o), req[r].seen)
             /\ obj'[o].status = (IF req[r].to = "KEEP" THEN obj[o].status ELSE req[r].to)
    <3>1. req[r].seen = obj[o]
      BY <2>2 DEF AloneInv, StillTrue, At
    <3> QED
      BY <2>1, <2>2, <3>1, AskedIs
  <2> QED
    BY <1>2, <2>2, WritesOne DEF AloneInv
<1>3. KeepsTerminal
  BY <1>2 DEF KeepsTerminal
<1>4. ASSUME NEW o \in Objs, ~Exists(o), obj'[o].status = "ACTIVE"
      PROVE  inv[InvoiceOf[o]] = "OPEN"
  <2>0. o \in Ids
    BY DEF Ids
  <2>1. ASSUME NEW p \in Objs, Create(r, p) PROVE FALSE
    <3>1. PICK k \in Kinds \ {"exception"} : New(p, k)
      BY <2>1 DEF Create
    <3>2. Created[k] # "ACTIVE"
      BY <3>1 DEF Kinds, Created
    <3> QED
      BY <1>4, <2>0, <3>1, <3>2 DEF New, AloneInv, Inv, TypeOK, Exists
  <2>2. CASE TagCommit(r)
    BY <1>4, <2>0, <2>2 DEF TagCommit, New, AloneInv, Inv, TypeOK, Exists, StillTrue, At
  <2>3. CASE PatchCommit(r)
    <3>1. PICK p \in Ids : Exists(p) /\ \E new : obj' = [obj EXCEPT ![p] = new]
      BY <2>3, Patches DEF AloneInv
    <3> QED
      BY <1>4, <2>0, <3>1 DEF AloneInv, Inv, TypeOK, Exists
  <2> QED
    BY <2>1, <2>2, <2>3
<1>5. NoZombies'
  <2> SUFFICES ASSUME NEW o \in Objs, obj'[o].status = "ACTIVE" PROVE inv[InvoiceOf[o]] = "OPEN"
    BY <1>1 DEF NoZombies
  <2>1. o \in Ids
    BY DEF Ids
  <2>2. CASE Exists(o)
    BY <1>2, <2>1, <2>2 DEF AloneInv, NoZombies
  <2> QED
    BY <1>4, <2>2
<1> QED
  BY <1>3, <1>5

LEMMA AlonePublishes ==
  ASSUME AloneInv, NEW r \in Reqs, PublishCommit(r)
  PROVE  KeepsTerminal /\ NoZombies'
<1>1. ASSUME NEW o \in Ids, Exists(o), Transitions[Kind(o)][obj[o].status] = {}
      PROVE  obj'[o].status = obj[o].status
  <2>1. MachineOf(Kind(o)) /\ obj[o].status \in Statuses(Kind(o))
    BY <1>1, Machines DEF AloneInv, Inv, TypeOK, Object, Kind
  <2>2. obj[o].status \notin Live[Kind(o)]
    BY <1>1, <2>1 DEF MachineOf
  <2> QED
    BY <1>1, <2>2, Publishes DEF AloneInv
<1>2. ASSUME NEW o \in Objs, obj'[o].status = "ACTIVE"
      PROVE  inv'[InvoiceOf[o]] = "OPEN"
  <2>1. o \in Ids /\ InvoiceOfId(o) = InvoiceOf[o] /\ InvoiceOf[o] \in Invoices
    BY ObjectsAssumption DEF Ids, InvoiceOfId
  <2>2. \A k \in Kinds : ClosedAs[k] # "ACTIVE"
    BY DEF Kinds, ClosedAs
  <2>3. Kind(o) \in Kinds /\ (Exists(o) => obj[o].status \in Statuses(Kind(o)))
    BY <2>1 DEF AloneInv, Inv, TypeOK, Object, Kind
  <2>4. obj'[o] = obj[o] /\ o \notin req[r].held
    BY <1>2, <2>1, <2>2, <2>3, Publishes DEF AloneInv
  <2>5. obj[o].status \in Live[Kind(o)] /\ inv[InvoiceOf[o]] = "OPEN"
    BY <1>2, <2>3, <2>4, Machines DEF MachineOf, Exists, AloneInv, NoZombies
  <2>6. req[r].pc = "commit" /\ req[r].pc \in Publishing /\ req[r].pc \in Listed
    BY StepsAre DEF PublishCommit, At
  <2>7. InvoiceOf[o] \notin req[r].list
    <3>1. since[r] = {}
      BY <2>6 DEF AloneInv, StillTrue
    <3>2. Standing(req[r], since[r], obj, inv, pub)
      BY DEF AloneInv, Inv
    <3>3. InvoiceOf[o] \in req[r].list => o \in req[r].found \cup req[r].held
      BY <2>1, <2>3, <2>5, <2>6, <3>1, <3>2 DEF Standing, LiveIn, Kind, Passed
    <3>4. req[r].found = {}
      BY <2>6, <3>2 DEF Standing
    <3> QED
      BY <2>4, <3>3, <3>4
  <2>8. InvoiceOf[o] \in InvoicesOf(req[r].snap)
    BY <2>1, <2>5, <2>6, <2>7 DEF AloneInv, StillTrue
  <2> QED
    BY <2>1, <2>8 DEF PublishCommit
<1> QED
  BY <1>1, <1>2 DEF KeepsTerminal, NoZombies

\* The steps of a publish that only look.
LEMMA AloneLooks ==
  ASSUME AloneInv, OneAtATime, Inv', Remember, NEW r \in Reqs,
         \/ \E s \in Snapshots : PublishBegin(r, s)
         \/ PublishList(r) \/ PublishSettle(r) \/ PublishCascade(r) \/ PublishSuggest(r)
  PROVE  AloneInv' /\ KeepsTerminal
<1>0. UNCHANGED <<inv, obj, pub>>
  BY DEF PublishBegin, PublishList, PublishSettle, PublishCascade, PublishSuggest
<1>1. PICK q : q = req'[r]
  OBVIOUS
<1>2. Goto(r, q)
  BY <1>1 DEF PublishBegin, PublishList, PublishSettle, PublishCascade, PublishSuggest,
              Goto, AloneInv, Inv, TypeOK
<1>3. req[r].pc \in Publishing => req[r] \in Publish
  BY RequestIs DEF AloneInv, Inv
<1>4. /\ q.pc # req[r].pc /\ q.pc \notin {"patch", "tag"}
      /\ q.pc \in Listed => q.list = Absent(q.snap)
  <2>1. ASSUME NEW s \in Snapshots, PublishBegin(r, s) PROVE q.pc = "list" /\ At(r, "idle")
    BY <1>1, <2>1 DEF PublishBegin, Goto, AloneInv, Inv, TypeOK
  <2>2. CASE PublishList(r)
    <3>1. CASE Goto(r, Idle)
      BY <1>1, <2>2, <3>1, StepsAre DEF PublishList, At, Goto, AloneInv, Inv, TypeOK, Idle
    <3>2. CASE Goto(r, [req[r] EXCEPT !.pc = "settle", !.held = InvoicesOf(req[r].snap),
                                      !.list = Absent(req[r].snap)])
      <4>1. req[r] \in Publish
        BY <1>3, <2>2, StepsAre DEF PublishList, At
      <4> QED
        BY <1>1, <2>2, <3>2, <4>1 DEF PublishList, At, Goto, AloneInv, Inv, TypeOK, Publish
    <3> QED
      BY <2>2, <3>1, <3>2 DEF PublishList
  <2>3. CASE PublishSettle(r) \/ PublishCascade(r) \/ PublishSuggest(r)
    <3>1. req[r].pc \in Listed
      BY <2>3, StepsAre DEF PublishSettle, PublishCascade, PublishSuggest, At, Kinds
    <3>2. req[r] \in Publish /\ req[r].list = Absent(req[r].snap)
      BY <1>3, <3>1 DEF Publishing, AloneInv, StillTrue, Absent
    <3>3. q.list = req[r].list /\ q.snap = req[r].snap
          /\ q.pc # req[r].pc /\ q.pc \notin {"patch", "tag"}
      <4>1. CASE PublishSettle(r)
        BY <1>1, <3>2, <4>1 DEF PublishSettle, Goto, Publish, At, AloneInv, Inv, TypeOK
      <4>2. CASE PublishCascade(r)
        <5>1. req[r].pc \in {"promise", "dispute", "task", "exception"}
          BY <4>2 DEF PublishCascade, Kinds
        <5>2. StepAfter[req[r].pc] # req[r].pc /\ StepAfter[req[r].pc] \notin {"patch", "tag"}
          BY <5>1 DEF StepAfter
        <5>3. q.list = req[r].list /\ q.snap = req[r].snap /\ q.pc = StepAfter[req[r].pc]
          BY <1>1, <3>2, <4>2 DEF PublishCascade, Goto, Publish, AloneInv, Inv, TypeOK
        <5> QED
          BY <5>2, <5>3
      <4>3. CASE PublishSuggest(r)
        BY <1>1, <3>2, <4>3 DEF PublishSuggest, Goto, Publish, At, AloneInv, Inv, TypeOK
      <4> QED
        BY <2>3, <4>1, <4>2, <4>3
    <3> QED
      BY <3>2, <3>3
  <2> QED
    BY <2>1, <2>2, <2>3, StepsAre DEF At
<1>5. since'[r] = {}
  BY <1>0 DEF Remember, AloneInv, StillTrue
<1>6. StillTrue(q, since'[r], obj, inv) /\ q # req[r]
  BY <1>4, <1>5 DEF StillTrue, Absent
<1> QED
  BY <1>0, <1>2, <1>6, AloneReads

LEMMA AloneStep ==
  AloneInv /\ [AloneNext]_vars => AloneInv' /\ [KeepsTerminal]_vars
<1> SUFFICES ASSUME AloneInv, [AloneNext]_vars PROVE AloneInv' /\ [KeepsTerminal]_vars
  OBVIOUS
<1>0. Inv'
  BY InvStep DEF AloneInv, AloneNext
<1>1. CASE UNCHANGED vars
  BY <1>0, <1>1 DEF vars, AloneInv, NoZombies, StillTrue
<1>2. CASE AloneNext
  <2>1. OneAtATime /\ Remember
    BY <1>2 DEF AloneNext, OneAtATime, Next
  <2>2. ASSUME NEW r \in Reqs, req'[r] = Idle
        PROVE  StillTrue(Idle, since'[r], obj, inv) /\ StillTrue(Idle, since'[r], obj', inv')
    BY <2>1, <2>2, StepsAre DEF StillTrue, Idle, Remember, Publishing
  <2>3. ASSUME NEW r \in Reqs, NEW o \in Objs, TagBegin(r, o) PROVE AloneInv' /\ KeepsTerminal
    <3> DEFINE q == [pc |-> "tag", obj |-> o]
    <3>1. Goto(r, q) /\ q # req[r] /\ UNCHANGED <<inv, obj, pub>> /\ req'[r] = q
      BY <2>3 DEF TagBegin, At, Goto, AloneInv, Inv, TypeOK
    <3>2. since'[r] = {}
      BY <2>1, <3>1, StepsAre DEF Remember, Publishing
    <3>3. StillTrue(q, since'[r], obj, inv)
      BY <2>3, <3>2, StepsAre DEF TagBegin, StillTrue, Publishing
    <3> QED
      BY <1>0, <2>1, <3>1, <3>3, AloneReads
  <2>4. ASSUME NEW r \in Reqs, NEW o \in Ids, PatchBegin(r, o) PROVE AloneInv' /\ KeepsTerminal
    <3>1. PICK to \in Asked(Kind(o), obj[o]) :
            Goto(r, [pc |-> "patch", obj |-> o, seen |-> obj[o], to |-> to])
      BY <2>4 DEF PatchBegin
    <3> DEFINE q == [pc |-> "patch", obj |-> o, seen |-> obj[o], to |-> to]
    <3>2. q # req[r] /\ UNCHANGED <<inv, obj, pub>> /\ req'[r] = q
      BY <2>4, <3>1 DEF PatchBegin, At, Goto, AloneInv, Inv, TypeOK
    <3>3. since'[r] = {}
      BY <2>1, <3>2, StepsAre DEF Remember, Publishing
    <3>4. StillTrue(q, since'[r], obj, inv)
      BY <3>3, StepsAre DEF StillTrue, Publishing
    <3> QED
      BY <1>0, <2>1, <3>1, <3>2, <3>4, AloneReads
  <2>5. ASSUME NEW r \in Reqs, Die(r) PROVE AloneInv' /\ KeepsTerminal
    <3>1. Goto(r, Idle) /\ Idle # req[r] /\ req'[r] = Idle /\ UNCHANGED <<inv, obj, pub>>
      BY <2>5 DEF Die, At, Idle, Goto, AloneInv, Inv, TypeOK
    <3> QED
      BY <1>0, <2>1, <2>2, <3>1, AloneReads
  <2>6. ASSUME NEW r \in Reqs, TagCommit(r) \/ PatchCommit(r) \/ PublishCommit(r)
        PROVE  AloneInv' /\ KeepsTerminal
    <3>1. Goto(r, Idle) /\ Idle # req[r] /\ req'[r] = Idle
      BY <2>6 DEF TagCommit, PatchCommit, PublishCommit, At, Idle, Goto, AloneInv, Inv, TypeOK
    <3>2. KeepsTerminal /\ NoZombies'
      BY <1>0, <2>6, AloneWrites, AlonePublishes
    <3> QED
      BY <1>0, <2>1, <2>2, <3>1, <3>2, AloneGoing
  <2>7. ASSUME NEW r \in Reqs, NEW o \in Objs, Create(r, o) PROVE AloneInv' /\ KeepsTerminal
    <3>1. \A k \in Reqs : At(k, "idle") /\ req'[k] = req[k]
      BY <2>1, <2>7 DEF Create, OneAtATime
    <3>2. \A k \in Reqs : StillTrue(req'[k], since'[k], obj', inv')
      BY <2>1, <3>1, StepsAre DEF StillTrue, At, Remember, Publishing
    <3> QED
      BY <1>0, <2>7, <3>2, AloneWrites DEF AloneInv
  <2> QED
    BY <1>0, <1>2, <2>1, <2>3, <2>4, <2>5, <2>6, <2>7, AloneLooks DEF AloneNext, Next, Step
<1> QED
  BY <1>1, <1>2

LEMMA AloneInit == Init => AloneInv
BY InvInit, StepsAre DEF Init, AloneInv, NoZombies, StillTrue, None, Idle, Ids, Publishing

\* One request at a time leaves no ACTIVE exception on an invoice that is not open and
\* every terminal status as it is (createExceptionForInvoice, the four PATCH handlers,
\* autoResolveCascadeOnSettle).
THEOREM WorkAlone == AloneSpec => []NoZombies /\ [][KeepsTerminal]_vars
<1>1. AloneInv => NoZombies
  BY DEF AloneInv
<1> QED
  BY <1>1, AloneInit, AloneStep, PTL DEF AloneSpec

-----------------------------------------------------------------------------
(* The run: each behaviour is of the work under one of the circumstances *)

WorkInv == Inv /\ (which = "objects, alone" => AloneInv)

LEMMA WorkStep ==
  ASSUME WorkInv, [MCNext]_<<which, pullVars, sheetVars, changeVars, mappingVars, vars, snapVars>>
  PROVE  /\ WorkInv' /\ KeepsResolved /\ SettlesWhole
         /\ which = "objects, alone" => KeepsTerminal
<1>1. which' = which /\ [Next]_vars /\ (which = "objects, alone" => [AloneNext]_vars)
  BY DEF MCNext, Objects, AloneNext
<1>2. Inv' /\ KeepsResolved /\ SettlesWhole
  BY <1>1, InvStep, ResolvedKept, SettledWhole DEF WorkInv
<1>3. CASE which = "objects, alone"
  <2>1. AloneInv' /\ [KeepsTerminal]_vars
    BY <1>1, <1>3, AloneStep DEF WorkInv
  <2>2. UNCHANGED vars => KeepsTerminal
    BY DEF vars, KeepsTerminal
  <2> QED
    BY <1>1, <1>2, <2>1, <2>2 DEF WorkInv
<1> QED
  BY <1>1, <1>2, <1>3 DEF WorkInv

LEMMA WorkInit == MCInit => WorkInv
BY InvInit, AloneInit DEF MCInit, WorkInv

\* A resolved exception stays so however requests overlap, and one request at a time
\* leaves every terminal status (the four PATCH handlers and the cascade).
THEOREM StatusesKept == MCSpec => StatusesStand
<1>1. WorkInv /\ [MCNext]_<<which, pullVars, sheetVars, changeVars, mappingVars, vars, snapVars>>
      => WorkInv' /\ [KeepsResolved /\ (which = "objects, alone" => KeepsTerminal)]_<<which, vars>>
  BY WorkStep
<1> QED
  BY <1>1, WorkInit, PTL DEF MCSpec, StatusesStand

\* However requests overlap, a publish leaves no live work on an invoice it had listed and
\* settles, but for what others wrote meanwhile (autoResolveCascadeOnSettle).
THEOREM CascadeKept == MCSpec => CascadeComplete
<1>1. WorkInv /\ [MCNext]_<<which, pullVars, sheetVars, changeVars, mappingVars, vars, snapVars>>
      => WorkInv' /\ [SettlesWhole]_<<which, vars>>
  BY WorkStep
<1> QED
  BY <1>1, WorkInit, PTL DEF MCSpec, CascadeComplete

\* One request at a time leaves no ACTIVE exception tag on an invoice that is not open
\* (createExceptionForInvoice, autoResolveCascadeOnSettle).
THEOREM ZombiesNever == MCSpec => []NoZombiesAlone
<1>1. WorkInv /\ [MCNext]_<<which, pullVars, sheetVars, changeVars, mappingVars, vars, snapVars>>
      => WorkInv'
  BY WorkStep
<1>2. WorkInv => NoZombiesAlone
  BY DEF WorkInv, AloneInv, NoZombiesAlone
<1> QED
  BY <1>1, <1>2, WorkInit, PTL DEF MCSpec

-----------------------------------------------------------------------------
(* Column mappings *)

LEMMA MappingRequests ==
  ASSUME M!TypeOK, NEW r \in Reqs, mappingReq[r].pc \in {"publish", "button"}
  PROVE  mappingReq[r].file \in MappedFiles
  BY DEF M!TypeOK, M!Idle

LEMMA FoundTyped == ASSUME NEW file \in MappedFiles PROVE M!Found(file) \in M!Mapping
  BY DEF M!Found, M!Mapping

LEMMA MappingEnds ==
  ASSUME M!TypeOK, NEW r \in Reqs, M!End(r)
  PROVE  /\ mappingReq'[r] = M!Idle
         /\ mappingReq' \in [Reqs -> {M!Idle}
              \cup [pc : {"compare"}, file : MappedFiles, mapping : M!Mapping]
              \cup [pc : {"publish", "button"}, file : MappedFiles, absent : BOOLEAN]]
  BY DEF M!TypeOK, M!End, M!Goto

\* A default that is there changes only when a press of the button ends.
LEMMA MappingStep ==
  ASSUME MaxSaves \in Nat, M!TypeOK, [M!Next]_mappingVars PROVE M!TypeOK' /\ M!BaselineStands
<1>1. CASE UNCHANGED mappingVars
  BY <1>1 DEF mappingVars, M!TypeOK, M!BaselineStands
<1>2. ASSUME NEW r \in Reqs, NEW f \in MappedFiles, M!Parse(r, f) PROVE M!TypeOK' /\ M!BaselineStands
  <2>1. PICK found \in M!Mapping : found = M!Found(f)
    BY FoundTyped
  <2> QED
    BY <1>2, <2>1 DEF M!Parse, M!Goto, M!TypeOK, M!BaselineStands
<1>3. ASSUME NEW r \in Reqs, NEW f \in MappedFiles, M!PublishFind(r, f) PROVE M!TypeOK' /\ M!BaselineStands
  BY <1>3 DEF M!PublishFind, M!Find, M!Goto, M!TypeOK, M!BaselineStands
<1>4. ASSUME NEW r \in Reqs, NEW f \in MappedFiles, M!ButtonFind(r, f) PROVE M!TypeOK' /\ M!BaselineStands
  BY <1>4 DEF M!ButtonFind, M!Find, M!Goto, M!TypeOK, M!BaselineStands
<1>5. ASSUME NEW r \in Reqs, M!Stage(r) PROVE M!TypeOK' /\ M!BaselineStands
  <2>1. mappingReq[r].file \in MappedFiles /\ mappingReq[r].mapping \in M!Mapping
    BY <1>5 DEF M!Stage, M!TypeOK, M!Idle
  <2>2. detected' \in [MappedFiles -> M!Mapping \cup {M!None}] /\ drift' \subseteq MappedFiles
    BY <1>5, <2>1 DEF M!Stage, M!TypeOK
  <2> QED
    BY <1>5, <2>2, MappingEnds DEF M!Stage, M!TypeOK, M!BaselineStands
<1>6. ASSUME NEW r \in Reqs, M!PublishSave(r) PROVE M!TypeOK' /\ M!BaselineStands
  <2>1. mappingReq[r].file \in MappedFiles
    BY <1>6, MappingRequests DEF M!PublishSave
  <2>2. /\ saved' \in M!Mapping \cup {M!None} /\ learnt' \in MappedFiles \cup {M!NoFile}
        /\ published' \subseteq MappedFiles /\ (saved' # saved => saved = M!None)
    BY <1>6, <2>1 DEF M!PublishSave, M!Put, M!TypeOK
  <2> QED
    BY <1>6, <2>2, MappingEnds DEF M!PublishSave, M!TypeOK, M!BaselineStands
<1>7. ASSUME NEW r \in Reqs, M!ButtonSave(r) PROVE M!TypeOK' /\ M!BaselineStands
  <2>1. mappingReq[r].file \in MappedFiles
    BY <1>7, MappingRequests DEF M!ButtonSave
  <2>2. saved' \in M!Mapping \cup {M!None} /\ learnt' \in MappedFiles \cup {M!NoFile}
    BY <1>7, <2>1 DEF M!ButtonSave, M!Put, M!TypeOK
  <2> QED
    BY <1>7, <2>2, MappingEnds DEF M!ButtonSave, M!TypeOK, M!BaselineStands
<1> QED
  BY <1>1, <1>2, <1>3, <1>4, <1>5, <1>6, <1>7 DEF M!Next

\* Only the button replaces a default mapping, for any files, columns and number of
\* requests that overlap (publishSnapshot, saveColumnMapping).
THEOREM BaselineKept == ASSUME MaxSaves \in Nat PROVE MCSpec => BaselineStands
<1>1. MCInit => M!TypeOK
  BY DEF MCInit, M!Init, M!TypeOK
<1>2. ASSUME M!TypeOK, [MCNext]_<<which, pullVars, sheetVars, changeVars, mappingVars, vars, snapVars>>
      PROVE  M!TypeOK' /\ [M!BaselineStands]_mappingVars
  <2>1. [M!Next]_mappingVars
    BY <1>2 DEF MCNext, Mappings
  <2> QED
    BY <1>2, <2>1, MappingStep
<1> QED
  BY <1>1, <1>2, PTL DEF MCSpec, BaselineStands

-----------------------------------------------------------------------------
(* Acknowledgements *)

\* Nothing is on file before the publish, which nothing runs beside; after it none begins.
AckInv ==
  /\ DOMAIN changeReq = Reqs
  /\ told = {} => /\ history = <<>>
                  /\ \A r, s \in Reqs : changeReq[r] # I!Idle /\ changeReq[s] # I!Idle => r = s
  /\ told # {} => \A r \in Reqs : changeReq[r].pc # "publish"

LEMMA ChangeGoes ==
  ASSUME AckInv, NEW r \in Reqs, NEW q, I!Goto(r, q)
  PROVE  /\ DOMAIN changeReq' = Reqs /\ changeReq'[r] = q
         /\ \A s \in Reqs : s # r => changeReq'[s] = changeReq[s]
  BY DEF AckInv, I!Goto

LEMMA AckStep ==
  ASSUME AckInv, which = "acknowledgements", [Changes]_changeVars
  PROVE  AckInv' /\ I!KeepsSigner
<1>1. CASE UNCHANGED changeVars
  BY <1>1 DEF changeVars, AckInv, I!KeepsSigner
<1>2. ASSUME NEW r \in Reqs, \A k \in Reqs : changeReq[k] = I!Idle, told = {}, I!PublishRead(r, Acked)
      PROVE  AckInv' /\ I!KeepsSigner
  <2>1. PICK q : I!Goto(r, q)
    BY <1>2 DEF I!PublishRead
  <2> QED
    BY <1>2, <2>1, ChangeGoes DEF I!PublishRead, AckInv, I!KeepsSigner
<1>3. ASSUME NEW r \in Reqs, I!PublishWrite(r) PROVE AckInv' /\ I!KeepsSigner
  <2>1. told = {} /\ history = <<>>
    BY <1>3 DEF I!PublishWrite, AckInv
  <2>2. changeReq[r] # I!Idle
    BY <1>3 DEF I!PublishWrite, I!Idle
  <2>3. \A s \in Reqs : changeReq'[s] = I!Idle
    BY <1>3, <2>1, <2>2, ChangeGoes DEF I!PublishWrite, AckInv
  <2>4. told' = {} => history' = history
    BY <1>3 DEF I!PublishWrite
  <2> QED
    BY <1>3, <2>1, <2>3, <2>4, ChangeGoes DEF I!PublishWrite, AckInv, I!KeepsSigner, I!Idle
<1>4. ASSUME NEW r \in Reqs, I!AckCommit(r) PROVE AckInv' /\ I!KeepsSigner
  <2>1. history = <<>> => history' = <<>>
    BY <1>4 DEF I!AckCommit
  <2>2. I!KeepsSigner
    BY <1>4 DEF I!AckCommit, I!KeepsSigner, I!Signs
  <2> QED
    BY <1>4, <2>1, <2>2, ChangeGoes DEF I!AckCommit, AckInv, I!Idle
<1>5. ASSUME NEW r \in Reqs, NEW u \in Analysts, I!AckRead(r, u) PROVE AckInv' /\ I!KeepsSigner
  <2>1. PICK eligible : /\ eligible # {} /\ eligible \subseteq DOMAIN history
                        /\ I!Goto(r, [pc |-> "acknowledge", user |-> u, eligible |-> eligible])
    BY <1>5 DEF I!AckRead
  <2>2. told # {}
    BY <2>1 DEF AckInv
  <2> QED
    BY <1>5, <2>1, <2>2, ChangeGoes DEF I!AckRead, AckInv, I!KeepsSigner
<1> QED
  BY <1>1, <1>2, <1>3, <1>4, <1>5 DEF Changes

\* However acknowledgements of the changes of a publish overlap, whoever signed one is not
\* replaced (acknowledgeInvoiceChanges).
THEOREM SignersKept == MCSpec => SignerKept
<1> DEFINE MCInv == which = "acknowledgements" => AckInv
<1>1. MCInit => MCInv
  BY DEF MCInit, I!Init, AckInv
<1>2. ASSUME MCInv, [MCNext]_<<which, pullVars, sheetVars, changeVars, mappingVars, vars, snapVars>>
      PROVE  MCInv' /\ [which = "acknowledgements" => I!KeepsSigner]_<<which, changeVars>>
  <2>1. which' = which /\ [Changes]_changeVars
    BY <1>2 DEF MCNext
  <2> QED
    BY <1>2, <2>1, AckStep
<1> QED
  BY <1>1, <1>2, PTL DEF MCSpec, SignerKept

-----------------------------------------------------------------------------
(* Snapshots, one request at a time *)

\* Days are numbers; a snapshot has a status, an entity and a day.
SnapShaped(s) ==
  \/ s = S!NoRow
  \/ {"status", "entity", "asOf"} \subseteq DOMAIN s /\ s.entity \in Entities /\ s.asOf \in Days

SnapTables ==
  /\ DOMAIN snap = Uploads /\ \A f \in Uploads : SnapShaped(snap[f])
  /\ audit \in [Uploads -> S!AuditRow]
  /\ S!OnePerDay

\* Past its gate, a publish is in its transaction.
InTransaction == {"publish", "settle", "commit"}

\* What the request has read, nobody has changed.
SoFar(q) ==
  /\ q.pc # "idle" => q.file \in Uploads /\ q.user \in Staff
  /\ q.pc = "upload" => q.entity \in Entities /\ q.asOf \in Days
  /\ q.pc = "review" => q.decision \in {"APPROVED", "REJECTED"}
  /\ q.pc \notin {"idle", "upload", "reconcile"} => snap[q.file].status = "STAGED"
  /\ q.pc \in {"sameDay", "prior", "publish"} => {"pc", "file", "user", "seen"} \subseteq DOMAIN q
  /\ q.pc \in {"sameDay", "prior", "gate"} \cup InTransaction => q.seen = snap[q.file]
  /\ q.pc \in {"prior", "gate"} \cup InTransaction => S!SameDay(q.file, q.seen) = {}
  /\ q.pc \in {"gate"} \cup InTransaction => \A g \in S!LatestPrior(q.file, q.seen) : S!Reconciled(g)

SnapInv == SnapTables /\ DOMAIN snapReq = {TheRequest} /\ SoFar(snapReq[TheRequest])

GuardsStand == \A f \in Uploads : S!DiscardSpares(f) /\ S!PriorIsReconciled(f)

LEMMA TablesStand == ASSUME SnapTables, S!Reads PROVE SnapTables' /\ GuardsStand
  BY DEF S!Reads, S!tables, SnapTables, SnapShaped, S!OnePerDay, GuardsStand, S!DiscardSpares,
         S!PriorIsReconciled, S!DiscardsNow, S!PublishesNow

LEMMA AskedStays == ASSUME NEW CONSTANT q, SoFar(q), S!Reads PROVE SoFar(q)'
  BY DEF S!Reads, S!tables, SoFar, InTransaction, S!SameDay, S!Published, S!LatestPrior, S!Prior, S!Reconciled,
         S!AutoMatched

LEMMA IdleAsks == SoFar(S!Idle) /\ SoFar(S!Idle)'
  BY DEF SoFar, S!Idle, InTransaction

\* A step that only reads.
LEMMA SnapReads ==
  ASSUME SnapInv, S!Reads, NEW CONSTANT q, S!Goto(TheRequest, q), SoFar(q)
  PROVE  SnapInv' /\ GuardsStand
<1>1. snapReq' = [snapReq EXCEPT ![TheRequest] = q]
  BY DEF S!Goto
<1>2. DOMAIN snapReq' = {TheRequest} /\ snapReq'[TheRequest] = q
  BY <1>1 DEF SnapInv
<1> QED
  BY <1>2, TablesStand, AskedStays DEF SnapInv

\* A step that ends the request.
LEMMA SnapEnds ==
  ASSUME SnapInv, SnapTables', S!End(TheRequest) PROVE SnapInv'
<1>1. snapReq' = [snapReq EXCEPT ![TheRequest] = S!Idle]
  BY DEF S!End, S!Goto
<1>2. DOMAIN snapReq' = {TheRequest} /\ snapReq'[TheRequest] = S!Idle
  BY <1>1 DEF SnapInv
<1> QED
  BY <1>2, IdleAsks DEF SnapInv

LEMMA SnapGivesUp ==
  ASSUME SnapInv, S!Reads, S!End(TheRequest) PROVE SnapInv' /\ GuardsStand
  BY SnapEnds, TablesStand DEF SnapInv

LEMMA SnapArrives ==
  ASSUME SnapInv, S!Arrive(TheRequest) PROVE SnapInv' /\ GuardsStand
<1> DEFINE Begun(q) == SoFar(q) /\ S!Goto(TheRequest, q) /\ S!Reads
<1>1. ASSUME NEW f \in Uploads, NEW u \in Staff, S!UploadBegin(TheRequest, f, u)
      PROVE  \E q : Begun(q)
  BY <1>1 DEF S!UploadBegin, SoFar, InTransaction
<1>2. ASSUME NEW f \in Uploads, NEW u \in Staff, S!PatchBegin(TheRequest, f, u)
      PROVE  \E q : Begun(q)
  BY <1>2 DEF S!PatchBegin, S!May, SoFar, InTransaction
<1>3. ASSUME NEW f \in Uploads, NEW u \in Staff, S!AckBegin(TheRequest, f, u)
      PROVE  \E q : Begun(q)
  BY <1>3 DEF S!AckBegin, S!May, SoFar, InTransaction
<1>4. ASSUME NEW f \in Uploads, NEW u \in Staff, S!ReviewBegin(TheRequest, f, u)
      PROVE  \E q : Begun(q)
  BY <1>4 DEF S!ReviewBegin, S!May, SoFar, InTransaction
<1>5. ASSUME NEW f \in Uploads, NEW u \in Staff, S!DiscardBegin(TheRequest, f, u)
      PROVE  \E q : Begun(q)
  BY <1>5 DEF S!DiscardBegin, S!May, SoFar, InTransaction
<1>6. ASSUME NEW f \in Uploads, NEW u \in Staff, S!PublishBegin(TheRequest, f, u)
      PROVE  \E q : Begun(q)
  BY <1>6 DEF S!PublishBegin, S!May, SoFar, InTransaction
<1>7. ASSUME NEW f \in Uploads, NEW u \in Staff, S!ReconcileBegin(TheRequest, f, u)
      PROVE  \E q : Begun(q)
  BY <1>7 DEF S!ReconcileBegin, S!May, SoFar, InTransaction
<1>8. \E q : Begun(q)
  BY <1>1, <1>2, <1>3, <1>4, <1>5, <1>6, <1>7 DEF S!Arrive
<1> QED
  BY <1>8, SnapReads

\* A row that is not published is written.
LEMMA RowWritten ==
  ASSUME SnapTables, NEW f \in Uploads, NEW s, snap' = [snap EXCEPT ![f] = s], SnapShaped(s),
         s.status # "PUBLISHED", audit' \in [Uploads -> S!AuditRow]
  PROVE  SnapTables'
<1>1. DOMAIN snap' = Uploads /\ snap'[f] = s /\ \A g \in Uploads : g # f => snap'[g] = snap[g]
  BY DEF SnapTables
<1> QED
  BY <1>1 DEF SnapTables, SnapShaped, S!OnePerDay

\* The snapshot a request works on is staged.
LEMMA StagedIs ==
  ASSUME SnapInv, NEW q, q = snapReq[TheRequest], q.pc \notin {"idle", "upload", "reconcile"}
  PROVE  /\ q.file \in Uploads /\ snap[q.file].status = "STAGED"
         /\ {"status", "entity", "asOf"} \subseteq DOMAIN snap[q.file]
         /\ snap[q.file].entity \in Entities /\ snap[q.file].asOf \in Days
  BY DEF SnapInv, SoFar, SnapTables, SnapShaped, S!NoRow

LEMMA AuditStands == ASSUME UNCHANGED audit PROVE GuardsStand
  BY DEF GuardsStand, S!DiscardSpares, S!PriorIsReconciled, S!DiscardsNow, S!PublishesNow

LEMMA SnapUpload == ASSUME SnapInv, S!UploadCommit(TheRequest) PROVE SnapInv' /\ GuardsStand
<1>1. PICK q : q = snapReq[TheRequest]
  OBVIOUS
<1>2. q.file \in Uploads /\ q.entity \in Entities /\ q.asOf \in Days
  BY <1>1 DEF SnapInv, SoFar, S!UploadCommit, S!At
<1>3. PICK s : s = S!Staged(q.entity, q.asOf, q.user)
  OBVIOUS
<1>4. SnapShaped(s) /\ s.status # "PUBLISHED"
  BY <1>2, <1>3 DEF SnapShaped, S!Staged
<1>5. /\ snap' = [snap EXCEPT ![q.file] = s] \/ snap' = snap
      /\ UNCHANGED audit /\ S!End(TheRequest)
  BY <1>1, <1>3 DEF S!UploadCommit
<1>6. audit' \in [Uploads -> S!AuditRow]
  BY <1>5 DEF SnapInv, SnapTables
<1>7. SnapTables'
  <2>1. CASE snap' = snap
    BY <1>5, <2>1 DEF SnapInv, SnapTables, SnapShaped, S!OnePerDay
  <2>2. CASE snap' = [snap EXCEPT ![q.file] = s]
    BY <1>2, <1>4, <1>6, <2>2, RowWritten DEF SnapInv
  <2> QED
    BY <1>5, <2>1, <2>2
<1> QED
  BY <1>5, <1>7, SnapEnds, AuditStands

LEMMA SnapEdits ==
  ASSUME SnapInv, S!PatchCommit(TheRequest) \/ S!AckCommit(TheRequest) PROVE SnapInv' /\ GuardsStand
<1>1. PICK q : q = snapReq[TheRequest]
  OBVIOUS
<1>2. q.pc \in {"patch", "ack"} /\ UNCHANGED audit /\ S!End(TheRequest)
  BY <1>1 DEF S!PatchCommit, S!AckCommit, S!At
<1>3. PICK o : o = snap[q.file]
  OBVIOUS
<1>4. /\ q.file \in Uploads /\ o.status = "STAGED" /\ {"status", "entity", "asOf"} \subseteq DOMAIN o
      /\ o.entity \in Entities /\ o.asOf \in Days
  BY <1>1, <1>2, <1>3, StagedIs
<1>5. PICK s : /\ s = S!ApplyEdit(o, q.edit) \/ s = [o EXCEPT !.acked = q.codes]
               /\ snap' = [snap EXCEPT ![q.file] = s]
  BY <1>1, <1>3 DEF S!PatchCommit, S!AckCommit
<1>6. SnapShaped(s) /\ s.status # "PUBLISHED"
  <2>1. CASE s = S!ApplyEdit(o, q.edit)
    BY <1>4, <2>1 DEF SnapShaped, S!ApplyEdit
  <2>2. CASE s = [o EXCEPT !.acked = q.codes]
    BY <1>4, <2>2 DEF SnapShaped
  <2> QED
    BY <1>5, <2>1, <2>2
<1>7. audit' \in [Uploads -> S!AuditRow]
  BY <1>2 DEF SnapInv, SnapTables
<1>8. SnapTables'
  BY <1>4, <1>5, <1>6, <1>7, RowWritten DEF SnapInv
<1> QED
  BY <1>2, <1>8, SnapEnds, AuditStands

\* A decision or a discard counts neither as the other nor as a publish.
LEMMA SnapDecides ==
  ASSUME SnapInv, S!ReviewCommit(TheRequest) \/ S!DiscardCommit(TheRequest)
  PROVE  SnapInv' /\ GuardsStand
<1>1. PICK q : q = snapReq[TheRequest]
  OBVIOUS
<1>2. q.pc \in {"review", "discard"} /\ S!End(TheRequest)
  BY <1>1 DEF S!ReviewCommit, S!DiscardCommit, S!At
<1>3. PICK o : o = snap[q.file]
  OBVIOUS
<1>4. /\ q.file \in Uploads /\ o.status = "STAGED" /\ {"status", "entity", "asOf"} \subseteq DOMAIN o
      /\ o.entity \in Entities /\ o.asOf \in Days
  BY <1>1, <1>2, <1>3, StagedIs
<1>5. q.user \in Staff /\ (q.pc = "review" => q.decision \in {"APPROVED", "REJECTED"})
  BY <1>1, <1>2 DEF SnapInv, SoFar
<1>6. PICK a \in S!AuditRow : a = audit[q.file]
  BY <1>4 DEF SnapInv, SnapTables
<1>7. PICK s, b :
        /\ \/ /\ s = [o EXCEPT !.review = q.decision] /\ q.pc = "review"
              /\ b = [a EXCEPT !.reviews = @ \cup {<<q.user, q.decision>>}]
           \/ s = [o EXCEPT !.status = "DISCARDED"] /\ b = [a EXCEPT !.discard = @ + 1]
        /\ snap' = [snap EXCEPT ![q.file] = s] /\ audit' = [audit EXCEPT ![q.file] = b]
  BY <1>1, <1>3, <1>6 DEF S!ReviewCommit, S!DiscardCommit, S!At
<1>8. SnapShaped(s) /\ s.status # "PUBLISHED"
  BY <1>4, <1>7 DEF SnapShaped
<1>9. b \in S!AuditRow /\ b.publish = a.publish
  BY <1>5, <1>7 DEF S!AuditRow
<1>10. audit' \in [Uploads -> S!AuditRow]
  BY <1>4, <1>7, <1>9 DEF SnapInv, SnapTables
<1>11. SnapTables'
  BY <1>4, <1>7, <1>8, <1>10, RowWritten DEF SnapInv
<1>12. ASSUME NEW f \in Uploads PROVE S!DiscardSpares(f) /\ S!PriorIsReconciled(f)
  <2>1. /\ audit'[f] = IF f = q.file THEN b ELSE audit[f]
        /\ f = q.file => snap[f].status = "STAGED"
    BY <1>3, <1>4, <1>7 DEF SnapInv, SnapTables
  <2> QED
    BY <1>6, <1>9, <2>1 DEF S!DiscardSpares, S!PriorIsReconciled, S!DiscardsNow, S!PublishesNow
<1> QED
  BY <1>2, <1>11, <1>12, SnapEnds DEF GuardsStand

LEMMA SnapReconciles == ASSUME SnapInv, S!ReconcileCommit(TheRequest) PROVE SnapInv' /\ GuardsStand
<1>1. UNCHANGED <<snap, audit>> /\ S!End(TheRequest)
  BY DEF S!ReconcileCommit
<1>2. SnapTables'
  BY <1>1 DEF SnapInv, SnapTables, SnapShaped, S!OnePerDay
<1> QED
  BY <1>1, <1>2, SnapEnds, AuditStands

\* Of the published snapshots of an entity one is the latest before a day.
LEMMA OneLatest ==
  ASSUME Days \subseteq Int, SnapTables, NEW f, NEW s,
         NEW g \in S!LatestPrior(f, s), NEW h \in S!LatestPrior(f, s)
  PROVE  g = h
<1>1. /\ g \in Uploads /\ h \in Uploads /\ snap[g].status = "PUBLISHED" /\ snap[h].status = "PUBLISHED"
      /\ snap[g].entity = snap[h].entity /\ snap[g].asOf =< snap[h].asOf /\ snap[h].asOf =< snap[g].asOf
  BY DEF S!LatestPrior, S!Prior, S!Published
<1>2. ASSUME NEW x \in Uploads, snap[x].status = "PUBLISHED" PROVE snap[x].asOf \in Int
  <2>1. SnapShaped(snap[x])
    BY DEF SnapTables
  <2>2. snap[x] # S!NoRow
    BY <1>2 DEF S!NoRow
  <2> QED
    BY <2>1, <2>2 DEF SnapShaped
<1>3. snap[g].asOf = snap[h].asOf
  <2>1. snap[g].asOf \in Int /\ snap[h].asOf \in Int
    BY <1>1, <1>2
  <2> QED
    BY <1>1, <2>1
<1> QED
  BY <1>1, <1>3 DEF SnapTables, S!OnePerDay

LEMMA SnapGuards ==
  ASSUME Days \subseteq Int, SnapInv,
         S!PublishSameDay(TheRequest) \/ S!PublishPrior(TheRequest) \/ S!PublishGate(TheRequest)
  PROVE  SnapInv' /\ GuardsStand
<1>1. PICK q : q = snapReq[TheRequest]
  OBVIOUS
<1>2. /\ q.pc \in {"sameDay", "prior", "gate"} /\ S!Reads /\ SoFar(q)
      /\ q.file \in Uploads /\ q.user \in Staff /\ q.seen = snap[q.file]
      /\ snap[q.file].status = "STAGED"
  BY <1>1 DEF S!PublishSameDay, S!PublishPrior, S!PublishGate, S!At, SnapInv, SoFar
<1>3. CASE S!End(TheRequest)
  BY <1>2, <1>3, SnapGivesUp
<1>4. CASE S!PublishSameDay(TheRequest) /\ ~S!End(TheRequest)
  <2> DEFINE n == [q EXCEPT !.pc = "prior"]
  <2>1. q.pc = "sameDay" /\ S!SameDay(q.file, q.seen) = {} /\ S!Goto(TheRequest, n)
    BY <1>1, <1>4 DEF S!PublishSameDay, S!At
  <2>2. /\ n.pc = "prior" /\ n.file = q.file /\ n.user = q.user /\ n.seen = q.seen
        /\ {"pc", "file", "user", "seen"} \subseteq DOMAIN n
    BY <1>2, <2>1 DEF SoFar, InTransaction
  <2> HIDE DEF n
  <2>3. SoFar(n)
    BY <1>2, <2>1, <2>2 DEF SoFar, InTransaction
  <2> QED
    BY <1>2, <2>1, <2>3, SnapReads
<1>5. CASE S!PublishPrior(TheRequest) /\ ~S!End(TheRequest)
  <2> DEFINE n == [q EXCEPT !.pc = "gate"]
  <2>1. /\ q.pc = "prior" /\ S!Goto(TheRequest, n)
        /\ \/ S!Prior(q.file, q.seen) = {}
           \/ \E g \in S!LatestPrior(q.file, q.seen) : S!Reconciled(g)
    BY <1>1, <1>5 DEF S!PublishPrior, S!At
  <2>2. n.pc = "gate" /\ n.file = q.file /\ n.user = q.user /\ n.seen = q.seen
    BY <1>2, <2>1 DEF SoFar, InTransaction
  <2>3. \A g \in S!LatestPrior(q.file, q.seen) : S!Reconciled(g)
    <3>1. CASE S!Prior(q.file, q.seen) = {}
      BY <3>1 DEF S!LatestPrior
    <3>2. ASSUME NEW h \in S!LatestPrior(q.file, q.seen), S!Reconciled(h),
                 NEW g \in S!LatestPrior(q.file, q.seen)
          PROVE  S!Reconciled(g)
      BY <3>2, OneLatest DEF SnapInv
    <3> QED
      BY <2>1, <3>1, <3>2
  <2> HIDE DEF n
  <2>4. SoFar(n)
    BY <1>2, <2>1, <2>2, <2>3 DEF SoFar, InTransaction
  <2> QED
    BY <1>2, <2>1, <2>4, SnapReads
<1>6. CASE S!PublishGate(TheRequest) /\ ~S!End(TheRequest)
  <2>1. q.pc = "gate"
    BY <1>1, <1>6 DEF S!PublishGate, S!At
  <2>2. PICK n : /\ S!Goto(TheRequest, n) /\ n.pc = "publish" /\ n.file = q.file /\ n.user = q.user
                 /\ n.seen = q.seen /\ {"pc", "file", "user", "seen"} \subseteq DOMAIN n
    BY <1>1, <1>6 DEF S!PublishGate
  <2>3. SoFar(n)
    BY <1>2, <2>1, <2>2 DEF SoFar, InTransaction
  <2> QED
    BY <1>2, <2>2, <2>3, SnapReads
<1> QED
  BY <1>3, <1>4, <1>5, <1>6

\* Its transaction writes nothing others see before it commits.
LEMMA SnapWrites ==
  ASSUME SnapInv, S!PublishUpsert(TheRequest) \/ S!PublishSettle(TheRequest)
  PROVE  SnapInv' /\ GuardsStand
<1>1. PICK q : q = snapReq[TheRequest]
  OBVIOUS
<1>2. q.pc \in {"publish", "settle"} /\ S!Reads /\ SoFar(q)
  BY <1>1 DEF S!PublishUpsert, S!PublishSettle, S!At, SnapInv
<1>3. PICK n : /\ S!Goto(TheRequest, n) /\ n.pc \in {"settle", "commit"}
               /\ n.file = q.file /\ n.user = q.user /\ n.seen = q.seen
  <2>1. CASE S!PublishUpsert(TheRequest)
    <3>1. PICK n : n = [q EXCEPT !.pc = "settle"]
      OBVIOUS
    <3>2. q.pc = "publish" /\ S!Goto(TheRequest, n)
      BY <1>1, <2>1, <3>1 DEF S!PublishUpsert, S!At
    <3>3. n.pc = "settle" /\ n.file = q.file /\ n.user = q.user /\ n.seen = q.seen
      BY <1>2, <3>1, <3>2 DEF SoFar
    <3> QED
      BY <3>2, <3>3
  <2>2. CASE S!PublishSettle(TheRequest)
    BY <1>1, <2>2 DEF S!PublishSettle
  <2> QED
    BY <2>1, <2>2
<1>4. SoFar(n)
  BY <1>2, <1>3 DEF SoFar, InTransaction
<1> QED
  BY <1>2, <1>3, <1>4, SnapReads

LEMMA SnapPublishes ==
  ASSUME SnapInv, S!PublishCommit(TheRequest) PROVE SnapInv' /\ GuardsStand
<1>1. PICK q : q = snapReq[TheRequest]
  OBVIOUS
<1>2. /\ q.pc = "commit" /\ S!End(TheRequest) /\ q.file \in Uploads /\ q.seen = snap[q.file]
      /\ S!SameDay(q.file, q.seen) = {}
      /\ \A g \in S!LatestPrior(q.file, q.seen) : S!Reconciled(g)
  BY <1>1 DEF S!PublishCommit, S!At, SnapInv, SoFar, InTransaction
<1>3. PICK o : o = snap[q.file]
  OBVIOUS
<1>4. /\ o.status = "STAGED" /\ {"status", "entity", "asOf"} \subseteq DOMAIN o
      /\ o.entity \in Entities /\ o.asOf \in Days
  BY <1>1, <1>2, <1>3, StagedIs
<1>5. PICK s : s = [o EXCEPT !.status = "PUBLISHED"]
  OBVIOUS
<1>6. /\ s.status = "PUBLISHED" /\ s.entity = o.entity /\ s.asOf = o.asOf
      /\ {"status", "entity", "asOf"} \subseteq DOMAIN s
  BY <1>4, <1>5
<1>7. PICK a \in S!AuditRow : a = audit[q.file]
  BY <1>2 DEF SnapInv, SnapTables
<1>8. PICK b : b = [a EXCEPT !.publish = @ + 1]
  OBVIOUS
<1>9. b \in S!AuditRow
  BY <1>8 DEF S!AuditRow
<1>10. snap' = [snap EXCEPT ![q.file] = s] /\ audit' = [audit EXCEPT ![q.file] = b]
  BY <1>1, <1>3, <1>5, <1>7, <1>8 DEF S!PublishCommit
<1>11. /\ DOMAIN snap' = Uploads /\ audit' \in [Uploads -> S!AuditRow]
       /\ \A f \in Uploads : /\ snap'[f] = IF f = q.file THEN s ELSE snap[f]
                             /\ f # q.file => audit'[f] = audit[f]
  BY <1>10, <1>9 DEF SnapInv, SnapTables
<1>12. S!OnePerDay'
  <2> SUFFICES ASSUME NEW f \in Uploads, NEW g \in Uploads, f # g,
                      snap'[f].status = "PUBLISHED", snap'[g].status = "PUBLISHED",
                      snap'[f].entity = snap'[g].entity, snap'[f].asOf = snap'[g].asOf
               PROVE  FALSE
    BY DEF S!OnePerDay
  <2>1. CASE f = q.file
    <3>1. g \in S!SameDay(q.file, q.seen)
      BY <1>2, <1>3, <1>6, <1>11, <2>1 DEF S!SameDay, S!Published
    <3> QED
      BY <1>2, <3>1
  <2>2. CASE g = q.file
    <3>1. f \in S!SameDay(q.file, q.seen)
      BY <1>2, <1>3, <1>6, <1>11, <2>2 DEF S!SameDay, S!Published
    <3> QED
      BY <1>2, <3>1
  <2>3. CASE f # q.file /\ g # q.file
    BY <1>11, <2>3 DEF SnapInv, SnapTables, S!OnePerDay
  <2> QED
    BY <2>1, <2>2, <2>3
<1>13. SnapTables'
  BY <1>4, <1>6, <1>11, <1>12 DEF SnapInv, SnapTables, SnapShaped
<1>14. ASSUME NEW f \in Uploads PROVE S!DiscardSpares(f) /\ S!PriorIsReconciled(f)
  <2>1. CASE f = q.file
    <3>1. snap[f].status # "PUBLISHED" /\ \A g \in S!LatestPrior(f, snap[f]) : S!Reconciled(g)
      BY <1>2, <1>3, <1>4, <2>1
    <3> QED
      BY <3>1 DEF S!DiscardSpares, S!PriorIsReconciled
  <2>2. CASE f # q.file
    BY <1>11, <2>2 DEF S!DiscardSpares, S!PriorIsReconciled, S!DiscardsNow, S!PublishesNow
  <2> QED
    BY <2>1, <2>2
<1> QED
  BY <1>2, <1>13, <1>14, SnapEnds DEF GuardsStand

LEMMA SnapStep ==
  ASSUME Days \subseteq Int, SnapInv, [S!Next]_snapVars PROVE SnapInv' /\ GuardsStand
<1>1. CASE UNCHANGED snapVars
  <2>1. S!Reads /\ snapReq' = snapReq
    BY <1>1 DEF snapVars, S!Reads, S!tables
  <2>2. PICK q : q = snapReq[TheRequest]
    OBVIOUS
  <2> QED
    BY <2>1, <2>2, TablesStand, AskedStays DEF SnapInv
<1>2. CASE S!Die(TheRequest)
  BY <1>2, SnapGivesUp DEF S!Die
<1>3. CASE S!PublishAbort(TheRequest)
  BY <1>3, SnapGivesUp DEF S!PublishAbort
<1>4. CASE S!Advance(TheRequest)
  BY <1>3, <1>4, SnapUpload, SnapEdits, SnapDecides, SnapReconciles, SnapGuards, SnapWrites,
     SnapPublishes
     DEF S!Advance
<1> QED
  BY <1>1, <1>2, <1>4, SnapArrives DEF S!Next

LEMMA SnapInit == ASSUME MCInit PROVE SnapInv
<1>1. /\ snap = [f \in Uploads |-> S!NoRow] /\ snapReq = [r \in {TheRequest} |-> S!Idle]
      /\ audit = [f \in Uploads |-> [publish |-> 0, discard |-> 0, reviews |-> {}]]
  BY DEF MCInit, S!Init
<1>2. SnapTables
  BY <1>1 DEF SnapTables, SnapShaped, S!OnePerDay, S!NoRow, S!AuditRow
<1> QED
  BY <1>1, <1>2, IdleAsks DEF SnapInv

LEMMA SnapNext ==
  ASSUME Days \subseteq Int, SnapInv,
         [MCNext]_<<which, pullVars, sheetVars, changeVars, mappingVars, vars, snapVars>>
  PROVE  SnapInv' /\ GuardsStand
<1>1. [S!Next]_snapVars
  BY DEF MCNext, Lifecycle
<1> QED
  BY <1>1, SnapStep

\* One request at a time, for any files, rows, days, users and entities: no two published
\* snapshots of an entity and a day (publishSnapshot's daily-cadence guard).
THEOREM OneADay == ASSUME Days \subseteq Int PROVE MCSpec => []OnePerDay
<1>1. SnapInv => OnePerDay
  BY DEF SnapInv, SnapTables, OnePerDay
<1> QED
  BY <1>1, SnapInit, SnapNext, PTL DEF MCSpec

\* One request at a time: a published snapshot is not discarded, and the latest one is
\* reconciled before the next is published (discardSnapshot, publishSnapshot).
THEOREM GuardsKept == ASSUME Days \subseteq Int PROVE MCSpec => GuardsHold
<1>1. GuardsStand => \A f \in Uploads : S!DiscardSpares(f) /\ S!PriorIsReconciled(f)
  BY DEF GuardsStand
<1>2. SnapInv /\ [MCNext]_<<which, pullVars, sheetVars, changeVars, mappingVars, vars, snapVars>>
      => SnapInv' /\ [which = "snapshots, alone" =>
           \A f \in Uploads : S!DiscardSpares(f) /\ S!PriorIsReconciled(f)]_<<which, snapVars>>
  BY <1>1, SnapNext
<1> QED
  BY <1>2, SnapInit, PTL DEF MCSpec, GuardsHold

-----------------------------------------------------------------------------
(* Pulls from Xero: the pages *)

XeroParameters ==
  /\ IsFiniteSet(Receivables)
  /\ PageSize \in Nat \ {0} /\ MaxPages \in Nat \ {0}
  /\ MaxRuns \in Nat /\ MaxFaults \in Nat /\ MaxChanges \in Nat

LEMMA CardinalitiesAgree == ASSUME NEW T PROVE X!Cardinality(T) = Cardinality(T)
  BY DEF X!Cardinality, Cardinality

LEMMA OpenIsFinite ==
  ASSUME XeroParameters, open \subseteq Receivables
  PROVE  IsFiniteSet(open) /\ Cardinality(open) \in Nat
  BY FS_Subset, FS_CardinalityType DEF XeroParameters

\* Of each invoice of P, one.
Once(P) == [i \in Receivables |-> IF i \in P THEN 1 ELSE 0]

LEMMA LeadingIs ==
  ASSUME XeroParameters, open \subseteq Receivables, NEW k \in Nat, NEW P \in X!Leading(k)
  PROVE  /\ P \subseteq open /\ IsFiniteSet(P) /\ Cardinality(P) \in Nat
         /\ Cardinality(P) = IF k =< Cardinality(open) THEN k ELSE Cardinality(open)
<1>1. P \subseteq open
      /\ Cardinality(P) = IF k =< Cardinality(open) THEN k ELSE Cardinality(open)
  BY CardinalitiesAgree DEF X!Leading
<1> QED
  BY <1>1, OpenIsFinite, FS_Subset, FS_CardinalityType

LEMMA LeadingNone ==
  ASSUME XeroParameters, open \subseteq Receivables
  PROVE  {} \in X!Leading(0) /\ \A P \in X!Leading(0) : P = {}
<1>1. Cardinality({}) = 0 /\ Cardinality(open) \in Nat
  BY FS_EmptySet, OpenIsFinite
<1>2. {} \in X!Leading(0)
  BY <1>1, CardinalitiesAgree DEF X!Leading
<1>3. ASSUME NEW P \in X!Leading(0) PROVE P = {}
  <2>1. IsFiniteSet(P) /\ Cardinality(P) = 0
    BY <1>1, LeadingIs
  <2> QED
    BY <2>1, FS_EmptySet
<1> QED
  BY <1>2, <1>3

LEMMA LeadingAll ==
  ASSUME XeroParameters, open \subseteq Receivables, NEW k \in Nat, NEW P \in X!Leading(k),
         Cardinality(open) =< Cardinality(P)
  PROVE  P = open
<1>1. P \in SUBSET open /\ Cardinality(P) \in Nat
  BY LeadingIs
<1>2. IsFiniteSet(open) /\ Cardinality(open) \in Nat
  BY OpenIsFinite
<1>3. Cardinality(P) =< Cardinality(open)
  BY <1>1, <1>2, FS_Subset
<1>4. Cardinality(P) = Cardinality(open)
  BY <1>1, <1>2, <1>3
<1> QED
  BY <1>1, <1>2, <1>4, FS_Subset

\* What a page adds, and that after a short one there is nothing left.
LEMMA PageAdds ==
  ASSUME XeroParameters, open \subseteq Receivables, X!NoDateSplit, NEW n \in 1 .. MaxPages,
         NEW P \in X!Leading((n - 1) * PageSize), NEW batch \in X!Pages(n)
  PROVE  \E Q \in X!Leading(n * PageSize) :
           /\ X!Pushed(Once(P), batch) = Once(Q)
           /\ X!Cardinality(batch) < PageSize => Q = open
<1>1. PICK a : a = (n - 1) * PageSize
  OBVIOUS
<1>2. PICK b : b = n * PageSize
  OBVIOUS
<1>3. a \in Nat /\ b \in Nat /\ b - a = PageSize
  BY <1>1, <1>2 DEF XeroParameters
<1>4. PICK O \in X!Leading(a), Q \in X!Leading(b) : O \subseteq Q /\ batch = Q \ O
  BY <1>1, <1>2 DEF X!Pages
<1>5. O = P
  <2>1. CASE n = 1
    <3>1. a = 0
      BY <1>1, <2>1 DEF XeroParameters
    <3> QED
      BY <1>1, <1>4, <3>1, LeadingNone
  <2>2. CASE n # 1
    <3>1. n - 1 \in 1 .. MaxPages
      BY <2>2 DEF XeroParameters
    <3> QED
      BY <1>1, <1>4, <3>1 DEF X!NoDateSplit
  <2> QED
    BY <2>1, <2>2
<1>6. X!Pushed(Once(P), batch) = Once(Q)
  BY <1>4, <1>5 DEF X!Pushed, Once
<1>7. ASSUME X!Cardinality(batch) < PageSize PROVE Q = open
  <2>1. Cardinality(batch) < PageSize
    BY <1>7, CardinalitiesAgree
  <2>2. /\ IsFiniteSet(Q) /\ Cardinality(Q) \in Nat /\ Cardinality(P) \in Nat
        /\ Cardinality(Q) = IF b =< Cardinality(open) THEN b ELSE Cardinality(open)
    <3>1. Cardinality(P) \in Nat
      BY <1>1, <1>3, LeadingIs
    <3>2. Q \in X!Leading(b) /\ b \in Nat
      BY <1>3, <1>4
    <3>3. /\ IsFiniteSet(Q) /\ Cardinality(Q) \in Nat
          /\ Cardinality(Q) = IF b =< Cardinality(open) THEN b ELSE Cardinality(open)
      BY <3>2, LeadingIs
    <3> QED
      BY <3>1, <3>3
  <2>3. Cardinality(P) = IF a =< Cardinality(open) THEN a ELSE Cardinality(open)
    BY <1>1, <1>3, LeadingIs
  <2>4. Cardinality(batch) = Cardinality(Q) - Cardinality(P)
    <3>1. Q \cap P = P /\ batch = Q \ P
      BY <1>4, <1>5
    <3>2. IsFiniteSet(P) /\ IsFiniteSet(Q)
      BY <1>1, <1>3, <2>2, LeadingIs
    <3>3. Cardinality(Q \ P) = Cardinality(Q) - Cardinality(Q \cap P)
      BY <3>2, FS_Difference
    <3> QED
      BY <3>1, <3>3
  <2>5. Cardinality(open) \in Nat
    BY OpenIsFinite
  <2>6. ~(b =< Cardinality(open) /\ Cardinality(Q) # Cardinality(open))
    BY <1>3, <2>1, <2>2, <2>3, <2>4, <2>5 DEF XeroParameters
  <2>7. Cardinality(open) =< Cardinality(Q)
    BY <2>2, <2>5, <2>6
  <2>8. Q \in X!Leading(b) /\ b \in Nat
    BY <1>3, <1>4
  <2> QED
    BY <2>7, <2>8, LeadingAll
<1> QED
  BY <1>2, <1>4, <1>6, <1>7

-----------------------------------------------------------------------------
(* Pulls from Xero: what each step does to its request *)

\* A request in the middle of a pull.
Working == X!Request \ {X!Idle}

\* Records q and p are of one pull that has read the same.
Reads(p, q) == q.run = p.run /\ q.page = p.page /\ q.got = p.got /\ q.moved = p.moved

LEMMA WorkingIs ==
  Working =
    [pc: {"token", "refresh", "save", "page", "stage", "succeed", "fail"}, run: X!RunIds,
     token: Nat, page: 1 .. MaxPages + 1, got: X!Contents, limited: BOOLEAN, moved: BOOLEAN]
<1> DEFINE R ==
      [pc: {"token", "refresh", "save", "page", "stage", "succeed", "fail"}, run: X!RunIds,
       token: Nat, page: 1 .. MaxPages + 1, got: X!Contents, limited: BOOLEAN, moved: BOOLEAN]
<1>1. X!Idle.pc = "idle"
  BY DEF X!Idle
<1>2. \A q \in R : q.pc # "idle"
  OBVIOUS
<1>3. X!Request = {X!Idle} \cup R
  BY DEF X!Request
<1> QED
  BY <1>1, <1>2, <1>3 DEF Working

LEMMA BusyWorks ==
  ASSUME X!TypeOK, NEW r \in Reqs
  PROVE  /\ pullReq[r] = X!Idle \/ pullReq[r] \in Working
         /\ pullReq[r].pc = "idle" <=> pullReq[r] = X!Idle
<1>1. pullReq[r] = X!Idle \/ pullReq[r] \in Working
  BY DEF X!TypeOK, Working
<1>2. X!Idle.pc = "idle"
  BY DEF X!Idle
<1>3. \A q \in Working : q.pc # "idle"
  BY WorkingIs
<1> QED
  BY <1>1, <1>2, <1>3

LEMMA PullBeginIs ==
  ASSUME XeroParameters, X!TypeOK, NEW r \in Reqs, X!PullBegin(r)
  PROVE  /\ pullReq[r] = X!Idle
         /\ \E q \in Working, n \in X!RunIds :
              /\ runs[n].status = "NEW" /\ runs' = [runs EXCEPT ![n].status = "RUNNING"]
              /\ pullReq' = [pullReq EXCEPT ![r] = q]
              /\ q.pc = "token" /\ q.run = n /\ q.page = 1 /\ q.got = X!Nothing /\ q.moved = FALSE
         /\ UNCHANGED <<open, newest, conn, staged, faults, changes, renewed>>
<1>1. PICK n \in X!RunIds :
        /\ runs[n].status = "NEW" /\ runs' = [runs EXCEPT ![n].status = "RUNNING"]
        /\ pullReq' = [pullReq EXCEPT ![r] =
             [pc |-> "token", run |-> n, token |-> 0, page |-> 1, got |-> X!Nothing,
              limited |-> FALSE, moved |-> FALSE]]
  BY DEF X!PullBegin, X!Goto
<1>2. PICK q : q = [pc |-> "token", run |-> n, token |-> 0, page |-> 1, got |-> X!Nothing,
                    limited |-> FALSE, moved |-> FALSE]
  OBVIOUS
<1>3. q \in Working
  BY <1>2, WorkingIs DEF XeroParameters, X!Contents, X!Nothing
<1> QED
  BY <1>1, <1>2, <1>3, BusyWorks DEF X!PullBegin, X!At, X!counts

LEMMA ReadTokenIs ==
  ASSUME XeroParameters, X!TypeOK, NEW r \in Reqs, X!ReadToken(r)
  PROVE  /\ pullReq[r] \in Working /\ pullReq[r].pc = "token"
         /\ \E q \in Working :
              /\ pullReq' = [pullReq EXCEPT ![r] = q] /\ Reads(pullReq[r], q)
              /\ (q.pc = "refresh" /\ q.token = conn.token) \/ q.pc = "fail"
         /\ UNCHANGED <<open, newest, conn, runs, staged, faults, changes, renewed>>
<1>1. pullReq[r].pc = "token" /\ pullReq[r] \in Working
  BY BusyWorks DEF X!ReadToken, X!At, X!Idle
<1>2. CASE conn.status = "ACTIVE"
  <2>1. PICK q : q = [pullReq[r] EXCEPT !.pc = "refresh", !.token = conn.token]
    OBVIOUS
  <2>2. q \in Working /\ Reads(pullReq[r], q) /\ q.pc = "refresh" /\ q.token = conn.token
    BY <1>1, <2>1, WorkingIs DEF Reads, X!TypeOK
  <2> QED
    BY <1>1, <1>2, <2>1, <2>2 DEF X!ReadToken, X!Goto, X!counts
<1>3. CASE conn.status # "ACTIVE"
  <2>1. PICK q : q = [pullReq[r] EXCEPT !.pc = "fail"]
    OBVIOUS
  <2>2. q \in Working /\ Reads(pullReq[r], q) /\ q.pc = "fail"
    BY <1>1, <2>1, WorkingIs DEF Reads
  <2> QED
    BY <1>1, <1>3, <2>1, <2>2 DEF X!ReadToken, X!Goto, X!To, X!counts
<1> QED
  BY <1>2, <1>3

LEMMA RefreshIs ==
  ASSUME XeroParameters, X!TypeOK, NEW r \in Reqs, X!Refresh(r)
  PROVE  /\ pullReq[r] \in Working /\ pullReq[r].pc = "refresh"
         /\ \E q \in Working :
              /\ pullReq' = [pullReq EXCEPT ![r] = q] /\ Reads(pullReq[r], q)
              /\ \/ /\ pullReq[r].token = newest /\ newest' = newest + 1
                    /\ q.pc = "save" /\ q.token = newest + 1
                 \/ newest' = newest /\ q.pc = "fail"
         /\ UNCHANGED <<open, conn, runs, staged, faults, changes, renewed>>
<1>1. pullReq[r].pc = "refresh" /\ pullReq[r] \in Working
  BY BusyWorks DEF X!Refresh, X!At, X!Idle
<1>2. CASE pullReq[r].token = newest
  <2>1. PICK q : q = [pullReq[r] EXCEPT !.pc = "save", !.token = newest + 1]
    OBVIOUS
  <2>2. q \in Working /\ Reads(pullReq[r], q) /\ q.pc = "save" /\ q.token = newest + 1
    <3>1. newest + 1 \in Nat
      BY DEF X!TypeOK
    <3> QED
      BY <1>1, <2>1, <3>1, WorkingIs DEF Reads
  <2> QED
    BY <1>1, <1>2, <2>1, <2>2 DEF X!Refresh, X!Goto, X!counts
<1>3. CASE pullReq[r].token # newest
  <2>1. PICK q : q = [pullReq[r] EXCEPT !.pc = "fail"]
    OBVIOUS
  <2>2. q \in Working /\ Reads(pullReq[r], q) /\ q.pc = "fail"
    BY <1>1, <2>1, WorkingIs DEF Reads
  <2> QED
    BY <1>1, <1>3, <2>1, <2>2 DEF X!Refresh, X!Goto, X!To, X!counts
<1> QED
  BY <1>2, <1>3

LEMMA SaveTokenIs ==
  ASSUME XeroParameters, X!TypeOK, NEW r \in Reqs, X!SaveToken(r)
  PROVE  /\ pullReq[r] \in Working /\ pullReq[r].pc = "save"
         /\ conn' = [conn EXCEPT !.token = pullReq[r].token]
         /\ \E q \in Working :
              pullReq' = [pullReq EXCEPT ![r] = q] /\ Reads(pullReq[r], q) /\ q.pc = "page"
         /\ UNCHANGED <<open, newest, runs, staged, faults, changes, renewed>>
<1>1. pullReq[r].pc = "save" /\ pullReq[r] \in Working
  BY BusyWorks DEF X!SaveToken, X!At, X!Idle
<1>2. PICK q : q = [pullReq[r] EXCEPT !.pc = "page"]
  OBVIOUS
<1>3. q \in Working /\ Reads(pullReq[r], q) /\ q.pc = "page"
  BY <1>1, <1>2, WorkingIs DEF Reads
<1> QED
  BY <1>1, <1>2, <1>3 DEF X!SaveToken, X!Goto, X!To, X!counts

LEMMA FetchPageIs ==
  ASSUME XeroParameters, X!TypeOK, NEW r \in Reqs, X!FetchPage(r)
  PROVE  /\ pullReq[r] \in Working /\ pullReq[r].pc = "page"
         /\ \E q \in Working :
              /\ pullReq' = [pullReq EXCEPT ![r] = q]
              /\ \/ pullReq[r].page = MaxPages + 1 /\ Reads(pullReq[r], q) /\ q.pc = "stage"
                 \/ /\ pullReq[r].page =< MaxPages /\ q.page = pullReq[r].page + 1
                    /\ q.run = pullReq[r].run /\ q.moved = pullReq[r].moved
                    /\ \E batch \in X!Pages(pullReq[r].page) :
                         /\ q.got = X!Pushed(pullReq[r].got, batch)
                         /\ q.pc = IF X!Cardinality(batch) < PageSize THEN "stage" ELSE "page"
         /\ UNCHANGED <<open, newest, conn, runs, staged, faults, changes, renewed>>
<1>1. pullReq[r].pc = "page" /\ pullReq[r] \in Working
  BY BusyWorks DEF X!FetchPage, X!At, X!Idle
<1>2. CASE pullReq[r].page > MaxPages
  <2>1. PICK q : q = [pullReq[r] EXCEPT !.pc = "stage"]
    OBVIOUS
  <2>2. q \in Working /\ Reads(pullReq[r], q) /\ q.pc = "stage"
    BY <1>1, <2>1, WorkingIs DEF Reads
  <2>3. pullReq[r].page = MaxPages + 1 /\ ~(pullReq[r].page =< MaxPages)
    BY <1>1, <1>2, WorkingIs DEF XeroParameters
  <2> QED
    BY <1>1, <1>2, <2>1, <2>2, <2>3 DEF X!FetchPage, X!Goto, X!To, X!counts
<1>3. CASE ~(pullReq[r].page > MaxPages)
  <2>1. PICK p : p = pullReq[r]
    OBVIOUS
  <2>2. PICK batch \in X!Pages(p.page) :
          pullReq' = [pullReq EXCEPT ![r] =
            [p EXCEPT !.got = X!Pushed(@, batch), !.page = @ + 1,
                      !.pc = IF X!Cardinality(batch) < PageSize THEN "stage" ELSE "page"]]
    BY <1>3, <2>1 DEF X!FetchPage, X!Goto
  <2>3. PICK pc : pc = IF X!Cardinality(batch) < PageSize THEN "stage" ELSE "page"
    OBVIOUS
  <2>4. PICK got : got = X!Pushed(p.got, batch)
    OBVIOUS
  <2>5. PICK q : q = [p EXCEPT !.got = got, !.page = @ + 1, !.pc = pc]
    OBVIOUS
  <2>6. p \in Working /\ p.got \in [Receivables -> Nat] /\ p.page \in 1 .. MaxPages + 1
    BY <1>1, <2>1, WorkingIs DEF X!Contents
  <2>7. p.page \in Nat /\ p.page =< MaxPages /\ p.page + 1 \in 1 .. MaxPages + 1
    BY <1>3, <2>1, <2>6 DEF XeroParameters
  <2>8. got \in X!Contents
    BY <2>4, <2>6 DEF X!Pushed, X!Contents
  <2>9. q \in Working
    BY <2>3, <2>5, <2>6, <2>7, <2>8, WorkingIs
  <2>10. /\ q.pc = pc /\ q.page = p.page + 1 /\ q.got = got
         /\ q.run = p.run /\ q.moved = p.moved
    BY <2>5, <2>6, WorkingIs
  <2>11. pullReq' = [pullReq EXCEPT ![r] = q]
    BY <2>2, <2>3, <2>4, <2>5
  <2>12. UNCHANGED <<open, newest, conn, runs, staged, faults, changes, renewed>>
    BY DEF X!FetchPage, X!counts
  <2> QED
    BY <1>1, <2>1, <2>3, <2>4, <2>7, <2>9, <2>10, <2>11, <2>12
<1> QED
  BY <1>2, <1>3

LEMMA RateLimitedIs ==
  ASSUME XeroParameters, X!TypeOK, NEW r \in Reqs, X!RateLimited(r)
  PROVE  /\ pullReq[r] \in Working /\ pullReq[r].pc = "page"
         /\ \E q \in Working :
              /\ pullReq' = [pullReq EXCEPT ![r] = q] /\ Reads(pullReq[r], q)
              /\ q.pc \in {"page", "fail"}
         /\ UNCHANGED <<open, newest, conn, runs, staged, faults, changes, renewed>>
<1>1. pullReq[r].pc = "page" /\ pullReq[r] \in Working
  BY BusyWorks DEF X!RateLimited, X!At, X!Idle
<1>2. CASE pullReq[r].limited
  <2>1. PICK q : q = [pullReq[r] EXCEPT !.pc = "fail"]
    OBVIOUS
  <2>2. q \in Working /\ Reads(pullReq[r], q) /\ q.pc = "fail"
    BY <1>1, <2>1, WorkingIs DEF Reads
  <2> QED
    BY <1>1, <1>2, <2>1, <2>2 DEF X!RateLimited, X!Goto, X!To, X!counts
<1>3. CASE ~pullReq[r].limited
  <2>1. PICK q : q = [pullReq[r] EXCEPT !.limited = TRUE]
    OBVIOUS
  <2>2. q \in Working /\ Reads(pullReq[r], q) /\ q.pc = "page"
    BY <1>1, <2>1, WorkingIs DEF Reads
  <2> QED
    BY <1>1, <1>3, <2>1, <2>2 DEF X!RateLimited, X!Goto, X!counts
<1> QED
  BY <1>2, <1>3

LEMMA StageIs ==
  ASSUME XeroParameters, X!TypeOK, NEW r \in Reqs, X!Stage(r)
  PROVE  /\ pullReq[r] \in Working /\ pullReq[r].pc = "stage"
         /\ \E q \in Working :
              /\ pullReq' = [pullReq EXCEPT ![r] = q] /\ Reads(pullReq[r], q)
              /\ \/ q.pc = "fail" /\ UNCHANGED <<staged, runs>>
                 \/ /\ q.pc = "succeed" /\ staged' = staged \cup {pullReq[r].got}
                    /\ runs' = [runs EXCEPT ![pullReq[r].run].made = {pullReq[r].got}]
         /\ UNCHANGED <<open, newest, conn, faults, changes, renewed>>
<1>1. pullReq[r].pc = "stage" /\ pullReq[r] \in Working
  BY BusyWorks DEF X!Stage, X!At, X!Idle
<1>2. CASE pullReq[r].got \in staged
  <2>1. PICK q : q = [pullReq[r] EXCEPT !.pc = "fail"]
    OBVIOUS
  <2>2. q \in Working /\ Reads(pullReq[r], q) /\ q.pc = "fail"
    BY <1>1, <2>1, WorkingIs DEF Reads
  <2> QED
    BY <1>1, <1>2, <2>1, <2>2 DEF X!Stage, X!Goto, X!To, X!counts
<1>3. CASE pullReq[r].got \notin staged
  <2>1. PICK q : q = [pullReq[r] EXCEPT !.pc = "succeed"]
    OBVIOUS
  <2>2. q \in Working /\ Reads(pullReq[r], q) /\ q.pc = "succeed"
    BY <1>1, <2>1, WorkingIs DEF Reads
  <2> QED
    BY <1>1, <1>3, <2>1, <2>2 DEF X!Stage, X!Goto, X!To, X!counts
<1> QED
  BY <1>2, <1>3

LEMMA FinishIs ==
  ASSUME XeroParameters, X!TypeOK, NEW r \in Reqs, X!Finish(r)
  PROVE  /\ pullReq[r] \in Working /\ pullReq[r].pc \in {"succeed", "fail"}
         /\ pullReq' = [pullReq EXCEPT ![r] = X!Idle]
         /\ runs' = [runs EXCEPT ![pullReq[r].run].status =
                       IF pullReq[r].pc = "succeed" THEN "SUCCEEDED" ELSE "FAILED"]
         /\ UNCHANGED <<open, newest, conn, staged, faults, changes, renewed>>
  BY BusyWorks DEF X!Finish, X!At, X!Idle, X!Goto, X!counts

LEMMA FaultIs ==
  ASSUME XeroParameters, X!TypeOK, NEW r \in Reqs, X!Fault(r)
  PROVE  /\ pullReq[r] \in Working /\ pullReq[r].pc \in {"token", "save", "stage", "succeed"}
         /\ faults < MaxFaults /\ faults' = faults + 1
         /\ \E q \in Working :
              pullReq' = [pullReq EXCEPT ![r] = q] /\ Reads(pullReq[r], q) /\ q.pc = "fail"
         /\ UNCHANGED <<open, newest, conn, runs, staged, changes, renewed>>
<1>1. pullReq[r].pc \in {"token", "save", "stage", "succeed"} /\ pullReq[r] \in Working
  BY BusyWorks DEF X!Fault, X!Idle
<1>2. PICK q : q = [pullReq[r] EXCEPT !.pc = "fail"]
  OBVIOUS
<1>3. q \in Working /\ Reads(pullReq[r], q) /\ q.pc = "fail"
  BY <1>1, <1>2, WorkingIs DEF Reads
<1> QED
  BY <1>1, <1>2, <1>3 DEF X!Fault, X!Goto, X!To

LEMMA DieIs ==
  ASSUME XeroParameters, X!TypeOK, NEW r \in Reqs, X!Die(r)
  PROVE  /\ pullReq[r] \in Working
         /\ pullReq' = [pullReq EXCEPT ![r] = X!Idle]
         /\ faults < MaxFaults /\ faults' = faults + 1
         /\ UNCHANGED <<open, newest, conn, runs, staged, changes, renewed>>
  BY BusyWorks DEF X!Die, X!At, X!Goto

\* A change in Xero marks the pulls that have read a page, and does nothing else to them.
LEMMA XeroChangesIs ==
  ASSUME XeroParameters, X!TypeOK, X!XeroChanges
  PROVE  /\ changes < MaxChanges /\ changes' = changes + 1 /\ open' \subseteq Receivables
         /\ pullReq' \in [Reqs -> X!Request]
         /\ \A r \in Reqs : pullReq[r] = X!Idle => pullReq'[r] = X!Idle
         /\ \A r \in Reqs : pullReq[r] \in Working =>
              /\ pullReq'[r] \in Working
              /\ pullReq'[r].pc = pullReq[r].pc /\ pullReq'[r].run = pullReq[r].run
              /\ pullReq'[r].token = pullReq[r].token /\ pullReq'[r].page = pullReq[r].page
              /\ pullReq'[r].got = pullReq[r].got
              /\ pullReq[r].pc \in {"page", "stage"} /\ pullReq[r].page > 1 => pullReq'[r].moved
         /\ UNCHANGED <<newest, conn, runs, staged, faults, renewed>>
<1>1. pullReq' = [r \in Reqs |-> IF pullReq[r].pc \in {"page", "stage"} /\ pullReq[r].page > 1
                                 THEN [pullReq[r] EXCEPT !.moved = TRUE] ELSE pullReq[r]]
  BY DEF X!XeroChanges
<1>2. ASSUME NEW r \in Reqs, pullReq[r] = X!Idle PROVE pullReq'[r] = X!Idle
  BY <1>1, <1>2 DEF X!Idle
<1>3. ASSUME NEW r \in Reqs, pullReq[r] \in Working
      PROVE  /\ pullReq'[r] \in Working
             /\ pullReq'[r].pc = pullReq[r].pc /\ pullReq'[r].run = pullReq[r].run
             /\ pullReq'[r].token = pullReq[r].token /\ pullReq'[r].page = pullReq[r].page
             /\ pullReq'[r].got = pullReq[r].got
             /\ pullReq[r].pc \in {"page", "stage"} /\ pullReq[r].page > 1 => pullReq'[r].moved
  <2>1. PICK p : p = pullReq[r]
    OBVIOUS
  <2>2. pullReq'[r] = IF p.pc \in {"page", "stage"} /\ p.page > 1
                      THEN [p EXCEPT !.moved = TRUE] ELSE p
    BY <1>1, <2>1
  <2>3. p \in Working
    BY <1>3, <2>1
  <2>4. [p EXCEPT !.moved = TRUE] \in Working
    BY <2>3, WorkingIs
  <2>5. \A q : q = [p EXCEPT !.moved = TRUE] =>
          /\ q.pc = p.pc /\ q.run = p.run /\ q.token = p.token /\ q.page = p.page
          /\ q.got = p.got /\ q.moved
    BY <2>3, WorkingIs
  <2> QED
    BY <2>1, <2>2, <2>3, <2>4, <2>5
<1>4. pullReq' \in [Reqs -> X!Request]
  <2>1. \A r \in Reqs : pullReq'[r] \in X!Request
    BY <1>2, <1>3, BusyWorks DEF X!Request, Working
  <2> QED
    BY <1>1, <2>1
<1>5. changes < MaxChanges /\ changes' = changes + 1 /\ open' \subseteq Receivables
  BY DEF X!XeroChanges, X!TypeOK
<1> QED
  BY <1>2, <1>3, <1>4, <1>5 DEF X!XeroChanges

-----------------------------------------------------------------------------
(* Pulls from Xero: their types *)

\* One request is another, or stays.
LEMMA PullTypesKept ==
  ASSUME XeroParameters, X!TypeOK, X!Next PROVE X!TypeOK'
<1>1. ASSUME NEW r \in Reqs, NEW q \in X!Request, pullReq' = [pullReq EXCEPT ![r] = q]
      PROVE  pullReq' \in [Reqs -> X!Request]
  BY <1>1 DEF X!TypeOK
<1>2. Working \subseteq X!Request /\ X!Idle \in X!Request
  BY DEF Working, X!Request
<1>3. ASSUME NEW r \in Reqs, X!PullBegin(r) PROVE X!TypeOK'
  <2>1. PICK q \in Working, n \in X!RunIds :
          /\ runs[n].status = "NEW" /\ runs' = [runs EXCEPT ![n].status = "RUNNING"]
          /\ pullReq' = [pullReq EXCEPT ![r] = q]
          /\ q.pc = "token" /\ q.run = n /\ q.page = 1 /\ q.got = X!Nothing /\ q.moved = FALSE
    BY <1>3, PullBeginIs
  <2>2. runs' \in [X!RunIds -> X!Run]
    BY <2>1 DEF X!TypeOK, X!Run
  <2> QED
    BY <1>1, <1>2, <1>3, <2>1, <2>2, PullBeginIs DEF X!TypeOK
<1>4. ASSUME NEW r \in Reqs, X!ReadToken(r) PROVE X!TypeOK'
  BY <1>1, <1>2, <1>4, ReadTokenIs DEF X!TypeOK
<1>5. ASSUME NEW r \in Reqs, X!Refresh(r) PROVE X!TypeOK'
  <2>1. newest' \in Nat
    BY <1>5, RefreshIs DEF X!TypeOK
  <2> QED
    BY <1>1, <1>2, <1>5, <2>1, RefreshIs DEF X!TypeOK
<1>6. ASSUME NEW r \in Reqs, X!SaveToken(r) PROVE X!TypeOK'
  <2>1. pullReq[r].token \in Nat
    BY <1>6, SaveTokenIs, WorkingIs
  <2>2. conn' \in [status: {"ACTIVE", "DISCONNECTED"}, token: Nat]
    BY <1>6, <2>1, SaveTokenIs DEF X!TypeOK
  <2> QED
    BY <1>1, <1>2, <1>6, <2>2, SaveTokenIs DEF X!TypeOK
<1>7. ASSUME NEW r \in Reqs, X!FetchPage(r) PROVE X!TypeOK'
  BY <1>1, <1>2, <1>7, FetchPageIs DEF X!TypeOK
<1>8. ASSUME NEW r \in Reqs, X!RateLimited(r) PROVE X!TypeOK'
  BY <1>1, <1>2, <1>8, RateLimitedIs DEF X!TypeOK
<1>9. ASSUME NEW r \in Reqs, X!Stage(r) PROVE X!TypeOK'
  <2>1. pullReq[r].got \in X!Contents /\ pullReq[r].run \in X!RunIds
    BY <1>9, StageIs, WorkingIs
  <2>2. PICK q \in Working :
          /\ pullReq' = [pullReq EXCEPT ![r] = q]
          /\ \/ UNCHANGED <<staged, runs>>
             \/ /\ staged' = staged \cup {pullReq[r].got}
                /\ runs' = [runs EXCEPT ![pullReq[r].run].made = {pullReq[r].got}]
    BY <1>9, StageIs
  <2>3. staged' \subseteq X!Contents
    BY <2>1, <2>2 DEF X!TypeOK
  <2>4. runs' \in [X!RunIds -> X!Run]
    <3>1. {pullReq[r].got} \in SUBSET X!Contents
      BY <2>1
    <3> QED
      BY <2>1, <2>2, <3>1 DEF X!TypeOK, X!Run
  <2> QED
    BY <1>1, <1>2, <1>9, <2>2, <2>3, <2>4, StageIs DEF X!TypeOK
<1>10. ASSUME NEW r \in Reqs, X!Finish(r) PROVE X!TypeOK'
  <2>1. pullReq[r].run \in X!RunIds
    BY <1>10, FinishIs, WorkingIs
  <2>2. PICK s : s = IF pullReq[r].pc = "succeed" THEN "SUCCEEDED" ELSE "FAILED"
    OBVIOUS
  <2>3. runs' = [runs EXCEPT ![pullReq[r].run].status = s]
    BY <1>10, <2>2, FinishIs
  <2>4. runs' \in [X!RunIds -> X!Run]
    BY <2>1, <2>2, <2>3 DEF X!TypeOK, X!Run
  <2> QED
    BY <1>1, <1>2, <1>10, <2>4, FinishIs DEF X!TypeOK
<1>11. ASSUME NEW r \in Reqs, X!Fault(r) PROVE X!TypeOK'
  <2>1. faults' \in 0 .. MaxFaults
    BY <1>11, FaultIs DEF XeroParameters, X!TypeOK
  <2> QED
    BY <1>1, <1>2, <1>11, <2>1, FaultIs DEF X!TypeOK
<1>12. ASSUME NEW r \in Reqs, X!Die(r) PROVE X!TypeOK'
  <2>1. faults' \in 0 .. MaxFaults
    BY <1>12, DieIs DEF XeroParameters, X!TypeOK
  <2> QED
    BY <1>1, <1>2, <1>12, <2>1, DieIs DEF X!TypeOK
<1>13. ASSUME X!Connect PROVE X!TypeOK'
  <2>1. newest' \in Nat /\ renewed' \in 0 .. MaxChanges
    BY <1>13 DEF X!Connect, X!TypeOK, XeroParameters
  <2>2. conn' \in [status: {"ACTIVE", "DISCONNECTED"}, token: Nat]
    BY <1>13, <2>1 DEF X!Connect
  <2> QED
    BY <1>13, <2>1, <2>2 DEF X!Connect, X!TypeOK
<1>14. ASSUME X!Disconnect PROVE X!TypeOK'
  <2>1. conn' \in [status: {"ACTIVE", "DISCONNECTED"}, token: Nat]
    BY <1>14 DEF X!Disconnect, X!TypeOK
  <2> QED
    BY <1>14, <2>1 DEF X!Disconnect, X!counts, X!TypeOK
<1>15. ASSUME X!XeroChanges PROVE X!TypeOK'
  <2>1. changes' \in 0 .. MaxChanges
    BY <1>15, XeroChangesIs DEF XeroParameters, X!TypeOK
  <2> QED
    BY <1>15, <2>1, XeroChangesIs DEF X!TypeOK
<1> QED
  BY <1>3, <1>4, <1>5, <1>6, <1>7, <1>8, <1>9, <1>10, <1>11, <1>12, <1>13, <1>14, <1>15
  DEF X!Next, X!Step

-----------------------------------------------------------------------------
(* Pulls from Xero: a run tells what became of its pull *)

Early == {"token", "refresh", "save", "page", "stage"}

\* What a run's row says, and that one that is RUNNING has a pull.
RowsTell ==
  \A n \in X!RunIds :
    /\ runs[n].made \subseteq staged
    /\ runs[n].status = "NEW" => runs[n].made = {}
    /\ runs[n].status = "SUCCEEDED" => runs[n].made # {}
    /\ faults = 0 /\ runs[n].status = "FAILED" => runs[n].made = {}
    /\ faults = 0 /\ runs[n].status = "RUNNING" =>
         \E r \in Reqs : pullReq[r] \in Working /\ pullReq[r].run = n

\* A pull's run is RUNNING, and has made a snapshot once the pull has staged one.
Runs(q) ==
  /\ runs[q.run].status = "RUNNING"
  /\ q.pc = "succeed" => runs[q.run].made # {}
  /\ q.pc \in Early \/ (q.pc = "fail" /\ faults = 0) => runs[q.run].made = {}

RunInv ==
  /\ RowsTell
  /\ \A r \in Reqs : pullReq[r] \in Working => Runs(pullReq[r])
  /\ \A r, s \in Reqs :
       pullReq[r] \in Working /\ pullReq[s] \in Working /\ pullReq[r].run = pullReq[s].run =>
         r = s

\* A pull goes on: the rows stand, and it stays before its snapshot or fails.
LEMMA RunGoesOn ==
  ASSUME X!TypeOK, RunInv, NEW r \in Reqs, NEW q \in Working,
         pullReq[r] \in Working, pullReq' = [pullReq EXCEPT ![r] = q],
         q.run = pullReq[r].run, UNCHANGED <<runs, staged>>,
         \/ faults' = faults /\ pullReq[r].pc \in Early /\ q.pc \in Early \cup {"fail"}
         \/ faults' # 0 /\ faults' \in Nat /\ q.pc = "fail"
  PROVE  RunInv'
<1>1. pullReq'[r] = q /\ \A s \in Reqs : s # r => pullReq'[s] = pullReq[s]
  BY DEF X!TypeOK
<1>2. RowsTell'
  <2>1. \A s \in Reqs : pullReq[s] \in Working =>
          pullReq'[s] \in Working /\ pullReq'[s].run = pullReq[s].run
    BY <1>1
  <2>2. faults' = 0 => faults = 0
    OBVIOUS
  <2> QED
    BY <2>1, <2>2 DEF RunInv, RowsTell
<1>3. ASSUME NEW s \in Reqs, pullReq'[s] \in Working PROVE Runs(pullReq[s])'
  <2>1. CASE s = r
    <3>1. Runs(pullReq[r])
      BY DEF RunInv
    <3>2. Runs(q)'
      BY <3>1 DEF Runs, Early
    <3> QED
      BY <1>1, <2>1, <3>2
  <2>2. CASE s # r
    <3>1. pullReq'[s] = pullReq[s] /\ Runs(pullReq[s])
      BY <1>1, <1>3, <2>2 DEF RunInv
    <3>2. faults' = 0 => faults = 0
      OBVIOUS
    <3> QED
      BY <3>1, <3>2 DEF Runs
  <2> QED
    BY <2>1, <2>2
<1>4. ASSUME NEW s \in Reqs, NEW k \in Reqs, pullReq'[s] \in Working, pullReq'[k] \in Working,
             pullReq'[s].run = pullReq'[k].run
      PROVE  s = k
  <2>1. pullReq[s] \in Working /\ pullReq[k] \in Working /\ pullReq[s].run = pullReq[k].run
    BY <1>1, <1>4
  <2> QED
    BY <2>1 DEF RunInv
<1> QED
  BY <1>2, <1>3, <1>4 DEF RunInv

\* A pull ends: its run, and no other, gets its status.
LEMMA RunEnds ==
  ASSUME XeroParameters, X!TypeOK, RunInv, NEW r \in Reqs, X!Finish(r) PROVE RunInv'
<1>1. PICK p : p = pullReq[r]
  OBVIOUS
<1>2. p \in Working /\ p.pc \in {"succeed", "fail"} /\ p.run \in X!RunIds
  BY <1>1, FinishIs, WorkingIs
<1>3. PICK status : status = IF p.pc = "succeed" THEN "SUCCEEDED" ELSE "FAILED"
  OBVIOUS
<1>4. runs' = [runs EXCEPT ![p.run].status = status] /\ staged' = staged /\ faults' = faults
  BY <1>1, <1>3, FinishIs
<1>5. pullReq'[r] = X!Idle /\ \A s \in Reqs : s # r => pullReq'[s] = pullReq[s]
  BY FinishIs DEF X!TypeOK
<1>6. X!Idle \notin Working
  BY DEF Working
<1>7. /\ \A n \in X!RunIds : runs'[n].made = runs[n].made
      /\ \A n \in X!RunIds : n # p.run => runs'[n].status = runs[n].status
      /\ runs'[p.run].status = status
  BY <1>2, <1>4 DEF X!TypeOK, X!Run
<1>8. Runs(p)
  BY <1>1, <1>2 DEF RunInv
<1>9. RowsTell'
  <2> SUFFICES ASSUME NEW n \in X!RunIds
      PROVE /\ runs'[n].made \subseteq staged'
            /\ runs'[n].status = "NEW" => runs'[n].made = {}
            /\ runs'[n].status = "SUCCEEDED" => runs'[n].made # {}
            /\ faults' = 0 /\ runs'[n].status = "FAILED" => runs'[n].made = {}
            /\ faults' = 0 /\ runs'[n].status = "RUNNING" =>
                 \E s \in Reqs : pullReq'[s] \in Working /\ pullReq'[s].run = n
    BY DEF RowsTell
  <2>1. CASE n = p.run
    BY <1>2, <1>3, <1>4, <1>7, <1>8, <2>1 DEF RunInv, RowsTell, Runs
  <2>2. CASE n # p.run
    <3>1. ASSUME NEW s \in Reqs, pullReq[s] \in Working, pullReq[s].run = n
          PROVE  pullReq'[s] \in Working /\ pullReq'[s].run = n
      BY <1>1, <1>5, <2>2, <3>1
    <3> QED
      BY <1>4, <1>7, <2>2, <3>1 DEF RunInv, RowsTell
  <2> QED
    BY <2>1, <2>2
<1>10. ASSUME NEW s \in Reqs, pullReq'[s] \in Working
       PROVE  s # r /\ pullReq'[s] = pullReq[s] /\ Runs(pullReq[s])'
  <2>1. s # r /\ pullReq'[s] = pullReq[s] /\ Runs(pullReq[s])
    BY <1>5, <1>6, <1>10 DEF RunInv
  <2>2. pullReq[s].run # p.run /\ pullReq[s].run \in X!RunIds
    BY <1>1, <1>2, <1>10, <2>1, WorkingIs DEF RunInv
  <2> QED
    BY <1>4, <1>7, <2>1, <2>2 DEF Runs
<1> QED
  BY <1>9, <1>10 DEF RunInv

\* A pull begins: the run was no one's.
LEMMA RunBegins ==
  ASSUME XeroParameters, X!TypeOK, RunInv, NEW r \in Reqs, X!PullBegin(r) PROVE RunInv'
<1>1. PICK q \in Working, n \in X!RunIds :
        /\ runs[n].status = "NEW" /\ runs' = [runs EXCEPT ![n].status = "RUNNING"]
        /\ pullReq' = [pullReq EXCEPT ![r] = q]
        /\ q.pc = "token" /\ q.run = n /\ q.page = 1 /\ q.got = X!Nothing /\ q.moved = FALSE
  BY PullBeginIs
<1>2. pullReq[r] = X!Idle /\ staged' = staged /\ faults' = faults
  BY PullBeginIs
<1>3. pullReq'[r] = q /\ \A s \in Reqs : s # r => pullReq'[s] = pullReq[s]
  BY <1>1 DEF X!TypeOK
<1>4. /\ \A k \in X!RunIds : runs'[k].made = runs[k].made
      /\ \A k \in X!RunIds : k # n => runs'[k].status = runs[k].status
      /\ runs'[n].status = "RUNNING"
  BY <1>1 DEF X!TypeOK, X!Run
<1>5. ASSUME NEW s \in Reqs, pullReq[s] \in Working
      PROVE  s # r /\ pullReq[s].run # n /\ pullReq[s].run \in X!RunIds
  <2>1. s # r
    BY <1>2, <1>5 DEF Working
  <2> QED
    BY <1>1, <1>5, <2>1, WorkingIs DEF RunInv, Runs
<1>6. RowsTell'
  <2>1. \A s \in Reqs : pullReq[s] \in Working => pullReq'[s] = pullReq[s]
    BY <1>3, <1>5
  <2> QED
    BY <1>1, <1>2, <1>3, <1>4, <2>1 DEF RunInv, RowsTell
<1>7. ASSUME NEW s \in Reqs, pullReq'[s] \in Working PROVE Runs(pullReq[s])'
  <2>1. CASE s = r
    <3>1. runs[n].made = {}
      BY <1>1 DEF RunInv, RowsTell
    <3> QED
      BY <1>1, <1>3, <1>4, <2>1, <3>1 DEF Runs
  <2>2. CASE s # r
    <3>1. pullReq'[s] = pullReq[s] /\ Runs(pullReq[s])
      BY <1>3, <1>7, <2>2 DEF RunInv
    <3> QED
      BY <1>2, <1>4, <1>5, <1>7, <3>1 DEF Runs
  <2> QED
    BY <2>1, <2>2
<1>8. ASSUME NEW s \in Reqs, NEW k \in Reqs, pullReq'[s] \in Working, pullReq'[k] \in Working,
             pullReq'[s].run = pullReq'[k].run
      PROVE  s = k
  <2>1. \A j \in Reqs : j # r /\ pullReq'[j] \in Working =>
          pullReq'[j] = pullReq[j] /\ pullReq[j].run # n
    BY <1>3, <1>5
  <2>2. pullReq'[r].run = n
    BY <1>1, <1>3
  <2> QED
    BY <1>8, <2>1, <2>2 DEF RunInv
<1> QED
  BY <1>6, <1>7, <1>8 DEF RunInv

\* A pull stages its snapshot, or finds that there is one of that content.
LEMMA RunStages ==
  ASSUME XeroParameters, X!TypeOK, RunInv, NEW r \in Reqs, X!Stage(r) PROVE RunInv'
<1>1. PICK p : p = pullReq[r]
  OBVIOUS
<1>2. p \in Working /\ p.pc = "stage" /\ p.run \in X!RunIds /\ faults' = faults
  BY <1>1, StageIs, WorkingIs
<1>3. PICK q \in Working :
        /\ pullReq' = [pullReq EXCEPT ![r] = q] /\ Reads(p, q)
        /\ \/ q.pc = "fail" /\ UNCHANGED <<staged, runs>>
           \/ /\ q.pc = "succeed" /\ staged' = staged \cup {p.got}
              /\ runs' = [runs EXCEPT ![p.run].made = {p.got}]
  BY <1>1, StageIs
<1>4. CASE q.pc = "fail" /\ UNCHANGED <<staged, runs>>
  BY <1>1, <1>2, <1>3, <1>4, RunGoesOn DEF Early, Reads
<1>5. CASE /\ q.pc = "succeed" /\ staged' = staged \cup {p.got}
           /\ runs' = [runs EXCEPT ![p.run].made = {p.got}]
  <2>1. pullReq'[r] = q /\ \A s \in Reqs : s # r => pullReq'[s] = pullReq[s]
    BY <1>3 DEF X!TypeOK
  <2>2. /\ \A k \in X!RunIds : runs'[k].status = runs[k].status
        /\ \A k \in X!RunIds : k # p.run => runs'[k].made = runs[k].made
        /\ runs'[p.run].made = {p.got}
    BY <1>2, <1>5 DEF X!TypeOK, X!Run
  <2>3. runs[p.run].status = "RUNNING" /\ q.run = p.run
    BY <1>1, <1>2, <1>3 DEF RunInv, Runs, Reads
  <2>4. RowsTell'
    <3>1. \A s \in Reqs : pullReq[s] \in Working =>
            pullReq'[s] \in Working /\ pullReq'[s].run = pullReq[s].run
      BY <1>1, <2>1, <2>3
    <3>2. \A n \in X!RunIds : runs'[n].made \subseteq staged'
      BY <1>5, <2>2 DEF RunInv, RowsTell
    <3> QED
      BY <1>2, <2>2, <2>3, <3>1, <3>2 DEF RunInv, RowsTell
  <2>5. ASSUME NEW s \in Reqs, pullReq'[s] \in Working PROVE Runs(pullReq[s])'
    <3>1. CASE s = r
      <4>1. runs'[q.run].status = "RUNNING" /\ runs'[q.run].made # {}
        BY <1>2, <2>2, <2>3
      <4> QED
        BY <1>5, <2>1, <3>1, <4>1 DEF Runs, Early
    <3>2. CASE s # r
      <4>1. pullReq'[s] = pullReq[s] /\ Runs(pullReq[s])
        BY <2>1, <2>5, <3>2 DEF RunInv
      <4>2. pullReq[s].run # p.run /\ pullReq[s].run \in X!RunIds
        BY <1>1, <1>2, <2>1, <2>5, <3>2, WorkingIs DEF RunInv
      <4> QED
        BY <1>2, <2>2, <4>1, <4>2 DEF Runs
    <3> QED
      BY <3>1, <3>2
  <2>6. ASSUME NEW s \in Reqs, NEW k \in Reqs, pullReq'[s] \in Working, pullReq'[k] \in Working,
               pullReq'[s].run = pullReq'[k].run
        PROVE  s = k
    <3>1. pullReq[s] \in Working /\ pullReq[k] \in Working /\ pullReq[s].run = pullReq[k].run
      BY <1>1, <1>2, <2>1, <2>3, <2>6
    <3> QED
      BY <3>1 DEF RunInv
  <2> QED
    BY <2>4, <2>5, <2>6 DEF RunInv
<1> QED
  BY <1>3, <1>4, <1>5

\* A process dies: its run stays as it was, and from then on that may be.
LEMMA RunDies ==
  ASSUME XeroParameters, X!TypeOK, RunInv, NEW r \in Reqs, X!Die(r) PROVE RunInv'
<1>1. pullReq'[r] = X!Idle /\ \A s \in Reqs : s # r => pullReq'[s] = pullReq[s]
  BY DieIs DEF X!TypeOK
<1>2. runs' = runs /\ staged' = staged /\ faults' # 0
  BY DieIs DEF X!TypeOK
<1>3. \A s \in Reqs : pullReq'[s] \in Working => pullReq'[s] = pullReq[s]
  BY <1>1 DEF Working
<1>4. RowsTell'
  BY <1>2 DEF RunInv, RowsTell
<1>5. \A s \in Reqs : pullReq'[s] \in Working => Runs(pullReq[s])'
  <2> SUFFICES ASSUME NEW s \in Reqs, pullReq'[s] \in Working PROVE Runs(pullReq[s])'
    OBVIOUS
  <2>1. pullReq'[s] = pullReq[s] /\ Runs(pullReq[s])
    BY <1>3 DEF RunInv
  <2> QED
    BY <1>2, <2>1 DEF Runs
<1> QED
  BY <1>3, <1>4, <1>5 DEF RunInv

\* Nothing that a run tells of changes.
LEMMA RunStands ==
  ASSUME RunInv, UNCHANGED <<runs, staged, faults>>, pullReq' \in [Reqs -> X!Request],
         \A r \in Reqs : pullReq[r] \in Working <=> pullReq'[r] \in Working,
         \A r \in Reqs : pullReq[r] \in Working =>
           pullReq'[r].pc = pullReq[r].pc /\ pullReq'[r].run = pullReq[r].run
  PROVE  RunInv'
<1>1. RowsTell'
  BY DEF RunInv, RowsTell
<1>2. ASSUME NEW r \in Reqs, pullReq'[r] \in Working PROVE Runs(pullReq[r])'
  BY <1>2 DEF RunInv, Runs
<1> QED
  BY <1>1, <1>2 DEF RunInv

LEMMA RunsToldStep ==
  ASSUME XeroParameters, X!TypeOK, RunInv, X!Next PROVE RunInv'
<1>1. ASSUME NEW r \in Reqs, X!ReadToken(r) PROVE RunInv'
  BY <1>1, ReadTokenIs, RunGoesOn DEF Early, Reads
<1>2. ASSUME NEW r \in Reqs, X!Refresh(r) PROVE RunInv'
  BY <1>2, RefreshIs, RunGoesOn DEF Early, Reads
<1>3. ASSUME NEW r \in Reqs, X!SaveToken(r) PROVE RunInv'
  BY <1>3, SaveTokenIs, RunGoesOn DEF Early, Reads
<1>4. ASSUME NEW r \in Reqs, X!FetchPage(r) PROVE RunInv'
  <2>1. PICK q \in Working :
          /\ pullReq' = [pullReq EXCEPT ![r] = q]
          /\ q.run = pullReq[r].run /\ q.pc \in {"page", "stage"}
    BY <1>4, FetchPageIs DEF Reads
  <2> QED
    BY <1>4, <2>1, FetchPageIs, RunGoesOn DEF Early
<1>5. ASSUME NEW r \in Reqs, X!RateLimited(r) PROVE RunInv'
  BY <1>5, RateLimitedIs, RunGoesOn DEF Early, Reads
<1>6. ASSUME NEW r \in Reqs, X!Fault(r) PROVE RunInv'
  <2>1. faults' # 0 /\ faults' \in Nat
    BY <1>6, FaultIs DEF X!TypeOK
  <2> QED
    BY <1>6, <2>1, FaultIs, RunGoesOn DEF Reads
<1>7. ASSUME X!Connect PROVE RunInv'
  BY <1>7, RunStands DEF X!Connect, X!TypeOK
<1>8. ASSUME X!Disconnect PROVE RunInv'
  BY <1>8, RunStands DEF X!Disconnect, X!counts, X!TypeOK
<1>9. ASSUME X!XeroChanges PROVE RunInv'
  <2>1. \A r \in Reqs : pullReq[r] \in Working <=> pullReq'[r] \in Working
    BY <1>9, BusyWorks, XeroChangesIs DEF Working
  <2> QED
    BY <1>9, <2>1, RunStands, XeroChangesIs
<1> QED
  BY <1>1, <1>2, <1>3, <1>4, <1>5, <1>6, <1>7, <1>8, <1>9,
     RunBegins, RunStages, RunEnds, RunDies DEF X!Next, X!Step

-----------------------------------------------------------------------------
(* Pulls from Xero: the token on file *)

Refreshes(r) == pullReq[r].pc = "refresh"
Saves(r) == pullReq[r].pc = "save"

\* Nobody has a newer token than Xero's newest; at most one pull has that one to save,
\* none that waits for Xero holds it meanwhile, and with none to save it is on file.
TokenInv ==
  faults = 0 /\ renewed = 0 =>
    /\ conn.token =< newest
    /\ \A r \in Reqs : Refreshes(r) => pullReq[r].token =< newest
    /\ \A r \in Reqs : Saves(r) => pullReq[r].token = newest /\ conn.token # newest
    /\ \A r, k \in Reqs : Saves(r) /\ Refreshes(k) => pullReq[k].token # newest
    /\ \A r, k \in Reqs : Saves(r) /\ Saves(k) => r = k
    /\ (\A r \in Reqs : ~Saves(r)) => conn.token = newest

\* A pull that neither was to save a token nor has one now to exchange.
LEMMA TokenStands ==
  ASSUME X!TypeOK, TokenInv, UNCHANGED <<newest, conn, renewed>>, faults' = faults,
         NEW r \in Reqs, NEW q \in X!Request, pullReq' = [pullReq EXCEPT ![r] = q],
         ~Saves(r), q.pc \notin {"refresh", "save"}
  PROVE  TokenInv'
<1>1. pullReq'[r] = q /\ \A s \in Reqs : s # r => pullReq'[s] = pullReq[s]
  BY DEF X!TypeOK
<1>2. /\ ~Refreshes(r)' /\ ~Saves(r)'
      /\ \A s \in Reqs : s # r => (Refreshes(s)' <=> Refreshes(s)) /\ (Saves(s)' <=> Saves(s))
  BY <1>1 DEF Refreshes, Saves
<1> QED
  BY <1>1, <1>2 DEF TokenInv

\* Once something failed, or the connection was made anew, nothing is promised.
LEMMA TokenLost ==
  ASSUME faults' # 0 \/ renewed' # 0 PROVE TokenInv'
  BY DEF TokenInv

LEMMA TokenKeptStep ==
  ASSUME XeroParameters, X!TypeOK, TokenInv, X!Next PROVE TokenInv'
<1>1. Working \subseteq X!Request /\ X!Idle \in X!Request /\ X!Idle.pc = "idle"
  BY DEF Working, X!Request, X!Idle
<1>2. ASSUME NEW r \in Reqs, X!PullBegin(r) PROVE TokenInv'
  <2>1. PICK q \in Working, n \in X!RunIds :
          /\ runs[n].status = "NEW" /\ runs' = [runs EXCEPT ![n].status = "RUNNING"]
          /\ pullReq' = [pullReq EXCEPT ![r] = q]
          /\ q.pc = "token" /\ q.run = n /\ q.page = 1 /\ q.got = X!Nothing /\ q.moved = FALSE
    BY <1>2, PullBeginIs
  <2>2. ~Saves(r)
    BY <1>1, <1>2, PullBeginIs DEF Saves
  <2> QED
    BY <1>1, <1>2, <2>1, <2>2, PullBeginIs, TokenStands
<1>3. ASSUME NEW r \in Reqs, X!ReadToken(r) PROVE TokenInv'
  <2>1. PICK q \in Working :
          /\ pullReq' = [pullReq EXCEPT ![r] = q] /\ Reads(pullReq[r], q)
          /\ (q.pc = "refresh" /\ q.token = conn.token) \/ q.pc = "fail"
    BY <1>3, ReadTokenIs
  <2>2. ~Saves(r) /\ UNCHANGED <<newest, conn, faults, renewed>>
    BY <1>3, ReadTokenIs DEF Saves
  <2>3. CASE q.pc = "fail"
    BY <1>1, <2>1, <2>2, <2>3, TokenStands
  <2>4. CASE q.pc = "refresh" /\ q.token = conn.token
    <3>1. pullReq'[r] = q /\ \A s \in Reqs : s # r => pullReq'[s] = pullReq[s]
      BY <2>1 DEF X!TypeOK
    <3>2. /\ ~Saves(r)'
          /\ \A s \in Reqs : s # r => (Refreshes(s)' <=> Refreshes(s)) /\ (Saves(s)' <=> Saves(s))
      BY <2>4, <3>1 DEF Refreshes, Saves
    <3>3. \A s \in Reqs : Saves(s)' <=> Saves(s)
      BY <2>2, <3>2
    <3> QED
      BY <2>2, <2>4, <3>1, <3>2, <3>3 DEF TokenInv
  <2> QED
    BY <2>1, <2>3, <2>4
<1>4. ASSUME NEW r \in Reqs, X!Refresh(r) PROVE TokenInv'
  <2>1. PICK q \in Working :
          /\ pullReq' = [pullReq EXCEPT ![r] = q] /\ Reads(pullReq[r], q)
          /\ \/ /\ pullReq[r].token = newest /\ newest' = newest + 1
                /\ q.pc = "save" /\ q.token = newest + 1
             \/ newest' = newest /\ q.pc = "fail"
    BY <1>4, RefreshIs
  <2>2. Refreshes(r) /\ ~Saves(r) /\ UNCHANGED <<conn, faults, renewed>>
    BY <1>4, RefreshIs DEF Saves, Refreshes
  <2>3. CASE newest' = newest /\ q.pc = "fail"
    BY <1>1, <2>1, <2>2, <2>3, TokenStands
  <2>4. CASE /\ pullReq[r].token = newest /\ newest' = newest + 1
             /\ q.pc = "save" /\ q.token = newest + 1
    <3>1. pullReq'[r] = q /\ \A s \in Reqs : s # r => pullReq'[s] = pullReq[s]
      BY <2>1 DEF X!TypeOK
    <3>2. /\ Saves(r)' /\ ~Refreshes(r)'
          /\ \A s \in Reqs : s # r => (Refreshes(s)' <=> Refreshes(s)) /\ (Saves(s)' <=> Saves(s))
      BY <2>4, <3>1 DEF Refreshes, Saves
    <3>3. SUFFICES ASSUME faults = 0, renewed = 0 PROVE TokenInv'
      BY <2>2 DEF TokenInv
    <3>4. \A s \in Reqs : ~Saves(s)
      BY <2>2, <2>4, <3>3 DEF TokenInv
    <3>5. newest \in Nat /\ conn.token \in Nat /\ conn.token =< newest
      BY <3>3 DEF TokenInv, X!TypeOK
    <3>6. \A s \in Reqs : Refreshes(s)' => pullReq'[s].token =< newest /\ pullReq'[s].token \in Nat
      <4>1. \A s \in Reqs : Refreshes(s) => pullReq[s].token =< newest /\ pullReq[s].token \in Nat
        BY <1>1, <3>3, BusyWorks, WorkingIs DEF TokenInv, Refreshes
      <4> QED
        BY <3>1, <3>2, <4>1
    <3>7. \A s \in Reqs : Saves(s)' => s = r
      BY <3>2, <3>4
    <3>8. /\ conn.token # newest' /\ conn.token =< newest'
          /\ \A s \in Reqs : Refreshes(s)' =>
               pullReq'[s].token =< newest' /\ pullReq'[s].token # newest'
      BY <2>4, <3>5, <3>6
    <3> QED
      BY <2>2, <2>4, <3>1, <3>2, <3>7, <3>8 DEF TokenInv
  <2> QED
    BY <2>1, <2>3, <2>4
<1>5. ASSUME NEW r \in Reqs, X!SaveToken(r) PROVE TokenInv'
  <2>1. PICK q \in Working :
          pullReq' = [pullReq EXCEPT ![r] = q] /\ Reads(pullReq[r], q) /\ q.pc = "page"
    BY <1>5, SaveTokenIs
  <2>2. /\ Saves(r) /\ UNCHANGED <<newest, faults, renewed>>
        /\ conn'.token = pullReq[r].token
    BY <1>5, SaveTokenIs DEF Saves, X!TypeOK
  <2>3. pullReq'[r] = q /\ \A s \in Reqs : s # r => pullReq'[s] = pullReq[s]
    BY <2>1 DEF X!TypeOK
  <2>4. /\ ~Saves(r)' /\ ~Refreshes(r)'
        /\ \A s \in Reqs : s # r => (Refreshes(s)' <=> Refreshes(s)) /\ (Saves(s)' <=> Saves(s))
    BY <2>1, <2>3 DEF Refreshes, Saves
  <2>5. SUFFICES ASSUME faults = 0, renewed = 0 PROVE TokenInv'
    BY <2>2 DEF TokenInv
  <2>6. \A s \in Reqs : ~Saves(s)'
    BY <2>2, <2>4, <2>5 DEF TokenInv
  <2>7. conn'.token = newest' /\ newest' =< newest' /\ newest' = newest
    BY <2>2, <2>5 DEF TokenInv, X!TypeOK
  <2>8. \A s \in Reqs : Refreshes(s)' => pullReq'[s].token =< newest'
    BY <2>2, <2>3, <2>4, <2>5 DEF TokenInv
  <2> QED
    BY <2>6, <2>7, <2>8 DEF TokenInv
<1>6. ASSUME NEW r \in Reqs, X!FetchPage(r) PROVE TokenInv'
  <2>1. PICK q \in Working :
          pullReq' = [pullReq EXCEPT ![r] = q] /\ q.pc \in {"page", "stage"}
    BY <1>6, FetchPageIs
  <2> QED
    BY <1>1, <1>6, <2>1, FetchPageIs, TokenStands DEF Saves
<1>7. ASSUME NEW r \in Reqs, X!RateLimited(r) PROVE TokenInv'
  BY <1>1, <1>7, RateLimitedIs, TokenStands DEF Saves
<1>8. ASSUME NEW r \in Reqs, X!Stage(r) PROVE TokenInv'
  <2>1. PICK q \in Working :
          pullReq' = [pullReq EXCEPT ![r] = q] /\ q.pc \in {"succeed", "fail"}
    BY <1>8, StageIs
  <2> QED
    BY <1>1, <1>8, <2>1, StageIs, TokenStands DEF Saves
<1>9. ASSUME NEW r \in Reqs, X!Finish(r) PROVE TokenInv'
  BY <1>1, <1>9, FinishIs, TokenStands DEF Saves
<1>10. ASSUME NEW r \in Reqs, X!Fault(r) \/ X!Die(r) PROVE TokenInv'
  <2>1. faults' # 0
    BY <1>10, FaultIs, DieIs DEF X!TypeOK
  <2> QED
    BY <2>1, TokenLost
<1>11. ASSUME X!Connect PROVE TokenInv'
  <2>1. renewed' # 0
    BY <1>11 DEF X!Connect, X!TypeOK
  <2> QED
    BY <2>1, TokenLost
<1>12. ASSUME X!Disconnect PROVE TokenInv'
  <2>1. conn'.token = conn.token /\ UNCHANGED <<newest, faults, renewed, pullReq>>
    BY <1>12 DEF X!Disconnect, X!counts, X!TypeOK
  <2> QED
    BY <2>1 DEF TokenInv, Refreshes, Saves
<1>13. ASSUME X!XeroChanges PROVE TokenInv'
  <2>1. \A r \in Reqs : pullReq'[r].pc = pullReq[r].pc
                          /\ (pullReq[r].pc # "idle" => pullReq'[r].token = pullReq[r].token)
    BY <1>13, BusyWorks, XeroChangesIs
  <2>2. UNCHANGED <<newest, conn, faults, renewed>>
    BY <1>13, XeroChangesIs
  <2> QED
    BY <2>1, <2>2 DEF TokenInv, Refreshes, Saves
<1> QED
  BY <1>2, <1>3, <1>4, <1>5, <1>6, <1>7, <1>8, <1>9, <1>10, <1>11, <1>12, <1>13
  DEF X!Next, X!Step

-----------------------------------------------------------------------------
(* Pulls from Xero: what is read *)

\* Before the first page nothing is read; after n pages, of a Xero that stands still and
\* splits no date, the invoices on them, once each; and what is staged is all there was,
\* unless it was more than the pages that are asked for.
PagesRead(q) ==
  /\ q.pc \in {"token", "refresh", "save"} => q.page = 1 /\ q.got = X!Nothing
  /\ q.pc = "page" =>
       /\ q.page = 1 => q.got = X!Nothing
       /\ ~q.moved /\ X!NoDateSplit =>
            \E P \in X!Leading((q.page - 1) * PageSize) : q.got = Once(P)
  /\ q.pc = "stage" =>
       /\ q.page > 1
       /\ ~q.moved /\ X!NoDateSplit /\ Cardinality(open) =< MaxPages * PageSize =>
            q.got = Once(open)

PagesInv == \A r \in Reqs : pullReq[r] \in Working => PagesRead(pullReq[r])

LEMMA OnceNone == Once({}) = X!Nothing
  BY DEF Once, X!Nothing

\* In the next state too the first none are none.
LEMMA NoneLater ==
  ASSUME XeroParameters, open' \subseteq Receivables PROVE {} \in X!Leading(0)'
<1>1. IsFiniteSet(open')
  BY FS_Subset DEF XeroParameters
<1>2. Cardinality(open') \in Nat
  BY <1>1, FS_CardinalityType
<1>3. Cardinality({}) = 0
  BY FS_EmptySet
<1> QED
  BY <1>2, <1>3, CardinalitiesAgree DEF X!Leading

\* Of the requests, one goes on as it should.
LEMMA PagesGoOn ==
  ASSUME X!TypeOK, PagesInv, open' = open, NEW r \in Reqs, NEW q \in X!Request,
         pullReq' = [pullReq EXCEPT ![r] = q], q \in Working => PagesRead(q)
  PROVE  PagesInv'
<1>1. pullReq'[r] = q /\ \A s \in Reqs : s # r => pullReq'[s] = pullReq[s]
  BY DEF X!TypeOK
<1>2. ASSUME NEW s \in Reqs, pullReq'[s] \in Working PROVE PagesRead(pullReq[s])'
  <2>1. CASE s = r
    BY <1>1, <1>2, <2>1 DEF PagesRead, X!NoDateSplit, X!Leading
  <2>2. CASE s # r
    <3>1. pullReq'[s] = pullReq[s] /\ PagesRead(pullReq[s])
      BY <1>1, <1>2, <2>2 DEF PagesInv
    <3> QED
      BY <3>1 DEF PagesRead, X!NoDateSplit, X!Leading
  <2> QED
    BY <2>1, <2>2
<1> QED
  BY <1>2 DEF PagesInv

LEMMA PagesStep ==
  ASSUME XeroParameters, X!TypeOK, PagesInv, X!Next PROVE PagesInv'
<1>1. open \subseteq Receivables /\ Working \subseteq X!Request /\ X!Idle \in X!Request
      /\ X!Idle \notin Working
  BY DEF X!TypeOK, Working, X!Request
<1>2. ASSUME NEW r \in Reqs, X!PullBegin(r) PROVE PagesInv'
  <2>1. PICK q \in Working, n \in X!RunIds :
          /\ runs[n].status = "NEW" /\ runs' = [runs EXCEPT ![n].status = "RUNNING"]
          /\ pullReq' = [pullReq EXCEPT ![r] = q]
          /\ q.pc = "token" /\ q.run = n /\ q.page = 1 /\ q.got = X!Nothing /\ q.moved = FALSE
    BY <1>2, PullBeginIs
  <2>2. PagesRead(q)
    BY <2>1 DEF PagesRead
  <2> QED
    BY <1>1, <1>2, <2>1, <2>2, PullBeginIs, PagesGoOn
<1>3. ASSUME NEW r \in Reqs, X!ReadToken(r) PROVE PagesInv'
  <2>1. PICK q \in Working :
          /\ pullReq' = [pullReq EXCEPT ![r] = q] /\ Reads(pullReq[r], q)
          /\ (q.pc = "refresh" /\ q.token = conn.token) \/ q.pc = "fail"
    BY <1>3, ReadTokenIs
  <2>2. PagesRead(q)
    BY <1>3, <2>1, ReadTokenIs DEF PagesInv, PagesRead, Reads
  <2> QED
    BY <1>1, <1>3, <2>1, <2>2, ReadTokenIs, PagesGoOn
<1>4. ASSUME NEW r \in Reqs, X!Refresh(r) PROVE PagesInv'
  <2>1. PICK q \in Working :
          /\ pullReq' = [pullReq EXCEPT ![r] = q] /\ Reads(pullReq[r], q)
          /\ q.pc \in {"save", "fail"}
    BY <1>4, RefreshIs
  <2>2. PagesRead(q)
    BY <1>4, <2>1, RefreshIs DEF PagesInv, PagesRead, Reads
  <2> QED
    BY <1>1, <1>4, <2>1, <2>2, RefreshIs, PagesGoOn
<1>5. ASSUME NEW r \in Reqs, X!SaveToken(r) PROVE PagesInv'
  <2>1. PICK q \in Working :
          pullReq' = [pullReq EXCEPT ![r] = q] /\ Reads(pullReq[r], q) /\ q.pc = "page"
    BY <1>5, SaveTokenIs
  <2>2. q.page = 1 /\ q.got = X!Nothing
    BY <1>5, <2>1, SaveTokenIs DEF PagesInv, PagesRead, Reads
  <2>3. (q.page - 1) * PageSize = 0
    BY <2>2 DEF XeroParameters
  <2>4. PagesRead(q)
    BY <1>1, <2>1, <2>2, <2>3, LeadingNone, OnceNone DEF PagesRead
  <2> QED
    BY <1>1, <1>5, <2>1, <2>4, SaveTokenIs, PagesGoOn
<1>6. ASSUME NEW r \in Reqs, X!FetchPage(r) PROVE PagesInv'
  <2>1. PICK p : p = pullReq[r]
    OBVIOUS
  <2>2. PICK q \in Working :
          /\ pullReq' = [pullReq EXCEPT ![r] = q]
          /\ \/ p.page = MaxPages + 1 /\ Reads(p, q) /\ q.pc = "stage"
             \/ /\ p.page =< MaxPages /\ q.page = p.page + 1
                /\ q.run = p.run /\ q.moved = p.moved
                /\ \E batch \in X!Pages(p.page) :
                     /\ q.got = X!Pushed(p.got, batch)
                     /\ q.pc = IF X!Cardinality(batch) < PageSize THEN "stage" ELSE "page"
    BY <1>6, <2>1, FetchPageIs
  <2>3. p \in Working /\ p.pc = "page" /\ p.page \in Nat \ {0}
    <3>1. p \in Working /\ p.pc = "page"
      BY <1>6, <2>1, FetchPageIs
    <3> QED
      BY <3>1, WorkingIs DEF XeroParameters
  <2>4. ~p.moved /\ X!NoDateSplit =>
          \E P \in X!Leading((p.page - 1) * PageSize) : p.got = Once(P)
    BY <2>1, <2>3 DEF PagesInv, PagesRead
  <2>5. ASSUME p.page = MaxPages + 1, Reads(p, q), q.pc = "stage" PROVE PagesRead(q)
    <3>1. q.page > 1
      BY <2>5 DEF XeroParameters, Reads
    <3>2. PICK k \in Nat : k = MaxPages * PageSize /\ k = (p.page - 1) * PageSize
      BY <2>5 DEF XeroParameters
    <3>3. ASSUME ~q.moved, X!NoDateSplit, Cardinality(open) =< k PROVE q.got = Once(open)
      <4>1. PICK P \in X!Leading(k) : p.got = Once(P)
        BY <2>4, <2>5, <3>2, <3>3 DEF Reads
      <4>2. Cardinality(open) =< Cardinality(P)
        BY <1>1, <3>3, OpenIsFinite, LeadingIs
      <4>3. P = open
        BY <1>1, <4>2, LeadingAll
      <4> QED
        BY <2>5, <4>1, <4>3 DEF Reads
    <3> QED
      BY <2>5, <3>1, <3>2, <3>3 DEF PagesRead
  <2>6. ASSUME p.page =< MaxPages, q.page = p.page + 1, q.moved = p.moved,
               NEW batch \in X!Pages(p.page), q.got = X!Pushed(p.got, batch),
               q.pc = IF X!Cardinality(batch) < PageSize THEN "stage" ELSE "page"
        PROVE  PagesRead(q)
    <3>1. q.page > 1 /\ q.page - 1 = p.page /\ p.page \in 1 .. MaxPages
      BY <2>3, <2>6 DEF XeroParameters
    <3>2. ASSUME ~q.moved, X!NoDateSplit
          PROVE  \E Q \in X!Leading(p.page * PageSize) :
                   q.got = Once(Q) /\ (q.pc = "stage" => Q = open)
      <4>1. PICK P \in X!Leading((p.page - 1) * PageSize) : p.got = Once(P)
        BY <2>4, <2>6, <3>2
      <4>2. PICK Q \in X!Leading(p.page * PageSize) :
              /\ X!Pushed(Once(P), batch) = Once(Q)
              /\ X!Cardinality(batch) < PageSize => Q = open
        BY <1>1, <3>1, <3>2, PageAdds
      <4> QED
        BY <2>6, <4>1, <4>2
    <3>3. q.pc \in {"stage", "page"}
      BY <2>6
    <3> QED
      BY <3>1, <3>2, <3>3 DEF PagesRead
  <2>7. PagesRead(q)
    BY <2>2, <2>5, <2>6
  <2> QED
    BY <1>1, <1>6, <2>2, <2>7, FetchPageIs, PagesGoOn
<1>7. ASSUME NEW r \in Reqs, X!RateLimited(r) PROVE PagesInv'
  <2>1. PICK q \in Working :
          /\ pullReq' = [pullReq EXCEPT ![r] = q] /\ Reads(pullReq[r], q)
          /\ q.pc \in {"page", "fail"}
    BY <1>7, RateLimitedIs
  <2>2. PagesRead(q)
    BY <1>7, <2>1, RateLimitedIs DEF PagesInv, PagesRead, Reads
  <2> QED
    BY <1>1, <1>7, <2>1, <2>2, RateLimitedIs, PagesGoOn
<1>8. ASSUME NEW r \in Reqs, X!Stage(r) PROVE PagesInv'
  <2>1. PICK q \in Working :
          pullReq' = [pullReq EXCEPT ![r] = q] /\ q.pc \in {"succeed", "fail"}
    BY <1>8, StageIs
  <2>2. PagesRead(q)
    BY <2>1 DEF PagesRead
  <2> QED
    BY <1>1, <1>8, <2>1, <2>2, StageIs, PagesGoOn
<1>9. ASSUME NEW r \in Reqs, X!Finish(r) PROVE PagesInv'
  BY <1>1, <1>9, FinishIs, PagesGoOn
<1>10. ASSUME NEW r \in Reqs, X!Fault(r) PROVE PagesInv'
  <2>1. PICK q \in Working :
          pullReq' = [pullReq EXCEPT ![r] = q] /\ Reads(pullReq[r], q) /\ q.pc = "fail"
    BY <1>10, FaultIs
  <2>2. PagesRead(q)
    BY <2>1 DEF PagesRead
  <2> QED
    BY <1>1, <1>10, <2>1, <2>2, FaultIs, PagesGoOn
<1>11. ASSUME NEW r \in Reqs, X!Die(r) PROVE PagesInv'
  BY <1>1, <1>11, DieIs, PagesGoOn
<1>12. ASSUME X!Connect \/ X!Disconnect PROVE PagesInv'
  <2>1. UNCHANGED <<open, pullReq>>
    BY <1>12 DEF X!Connect, X!Disconnect
  <2> QED
    BY <2>1 DEF PagesInv, PagesRead, X!NoDateSplit, X!Leading
<1>13. ASSUME X!XeroChanges PROVE PagesInv'
  <2> SUFFICES ASSUME NEW r \in Reqs, pullReq'[r] \in Working PROVE PagesRead(pullReq[r])'
    BY DEF PagesInv
  <2>1. PICK p : p = pullReq[r]
    OBVIOUS
  <2>2. PICK q : q = pullReq'[r]
    OBVIOUS
  <2>3. p \in Working
    BY <1>1, <1>13, <2>1, BusyWorks, XeroChangesIs
  <2>4. /\ q.pc = p.pc /\ q.page = p.page /\ q.got = p.got
        /\ p.pc \in {"page", "stage"} /\ p.page > 1 => q.moved
    BY <1>13, <2>1, <2>2, <2>3, XeroChangesIs
  <2>5. PagesRead(p) /\ p.page \in Nat \ {0}
    BY <2>1, <2>3, WorkingIs DEF PagesInv, XeroParameters
  <2>6. {} \in X!Leading(0)'
    BY <1>13, XeroChangesIs, NoneLater
  <2>7. ASSUME q.pc = "page", ~q.moved
        PROVE  \E P \in X!Leading((q.page - 1) * PageSize)' : q.got = Once(P)
    <3>1. q.page = 1 /\ q.got = X!Nothing
      BY <2>4, <2>5, <2>7 DEF PagesRead
    <3>2. (q.page - 1) * PageSize = 0
      BY <3>1 DEF XeroParameters
    <3> QED
      BY <2>6, <3>1, <3>2, OnceNone
  <2>8. PagesRead(q)'
    BY <2>4, <2>5, <2>7 DEF PagesRead
  <2> QED
    BY <2>2, <2>8 DEF PagesRead
<1> QED
  BY <1>2, <1>3, <1>4, <1>5, <1>6, <1>7, <1>8, <1>9, <1>10, <1>11, <1>12, <1>13
  DEF X!Next, X!Step

-----------------------------------------------------------------------------
(* Pulls from Xero: the run *)

PullInv == X!TypeOK /\ RunInv /\ TokenInv /\ PagesInv

LEMMA PullInit == ASSUME XeroParameters PROVE MCInit => PullInv
<1> SUFFICES ASSUME MCInit PROVE PullInv
  OBVIOUS
<1>1. /\ open \subseteq Receivables /\ newest = 1 /\ conn = [status |-> "ACTIVE", token |-> 1]
      /\ runs = [n \in X!RunIds |-> [status |-> "NEW", made |-> {}]] /\ staged = {}
      /\ faults = 0 /\ changes = 0 /\ renewed = 0 /\ pullReq = [r \in Reqs |-> X!Idle]
  BY DEF MCInit, X!Init
<1>2. X!Idle \notin Working /\ X!Idle.pc = "idle" /\ X!Idle \in X!Request
  BY DEF Working, X!Idle, X!Request
<1>3. X!TypeOK
  BY <1>1, <1>2 DEF XeroParameters, X!TypeOK, X!Run
<1>4. \A r \in Reqs : pullReq[r] \notin Working /\ pullReq[r].pc = "idle"
  BY <1>1, <1>2
<1>5. RunInv
  BY <1>1, <1>4 DEF RunInv, RowsTell
<1>6. TokenInv
  BY <1>1, <1>4 DEF TokenInv, Refreshes, Saves
<1>7. PagesInv
  BY <1>4 DEF PagesInv
<1> QED
  BY <1>3, <1>5, <1>6, <1>7 DEF PullInv

LEMMA PullStep ==
  ASSUME XeroParameters, PullInv,
         [MCNext]_<<which, pullVars, sheetVars, changeVars, mappingVars, vars, snapVars>>
  PROVE  PullInv'
<1>1. X!Next \/ UNCHANGED pullVars
  BY DEF MCNext, Pulls
<1>2. CASE X!Next
  BY <1>2, PullTypesKept, RunsToldStep, TokenKeptStep, PagesStep DEF PullInv
<1>3. CASE UNCHANGED pullVars
  BY <1>3 DEF pullVars, PullInv, X!TypeOK, RunInv, RowsTell, Runs, TokenInv, Refreshes, Saves,
              PagesInv, PagesRead, X!NoDateSplit, X!Leading
<1> QED
  BY <1>1, <1>2, <1>3

\* The status of a run tells what became of it (pullXeroSnapshot).
THEOREM RunsTold == ASSUME XeroParameters PROVE MCSpec => []RunsTell
<1>1. PullInv => RunsTell
  <2> SUFFICES ASSUME PullInv PROVE X!RunsTell
    BY DEF RunsTell
  <2>1. \A r \in Reqs : pullReq[r] \in Working => pullReq[r] # X!Idle
    BY DEF Working
  <2> QED
    BY <2>1 DEF PullInv, RunInv, RowsTell, X!RunsTell
<1> QED
  BY <1>1, PullInit, PullStep, PTL DEF MCSpec

\* The good refresh token stays on file (refreshConnectionAccess).
THEOREM TokenStays == ASSUME XeroParameters PROVE MCSpec => []TokenKept
<1>1. PullInv => TokenKept
  BY DEF PullInv, TokenInv, Saves, TokenKept, X!TokenKept, X!At
<1> QED
  BY <1>1, PullInit, PullStep, PTL DEF MCSpec

\* A pull that Xero does not change under, no date of which is split between pages,
\* stages every open invoice once (fetchOpenReceivableInvoices).
THEOREM PullsWhole == ASSUME XeroParameters PROVE MCSpec => []StagesWhole
<1>1. PullInv => StagesWhole
  <2> SUFFICES ASSUME PullInv, NEW r \in Reqs, pullReq[r].pc = "stage", ~pullReq[r].moved,
                      X!Cardinality(open) =< MaxPages * PageSize, X!NoDateSplit
      PROVE  DOMAIN X!Normalized(pullReq[r].got) = (open \ Draft) \X {1}
    BY DEF StagesWhole, X!StagesWhole, X!At
  <2>1. pullReq[r] \in Working /\ open \subseteq Receivables
    BY BusyWorks DEF PullInv, X!Idle, X!TypeOK
  <2>2. pullReq[r].got = Once(open)
    BY <2>1, CardinalitiesAgree DEF PullInv, PagesInv, PagesRead
  <2>3. DOMAIN X!Normalized(Once(open)) =
          UNION {{i} \X (1 .. Once(open)[i]) : i \in Receivables \ Draft}
    BY DEF X!Normalized
  <2>4. \A i \in Receivables \ Draft :
          {i} \X (1 .. Once(open)[i]) = IF i \in open THEN {<<i, 1>>} ELSE {}
    <3> SUFFICES ASSUME NEW i \in Receivables \ Draft
        PROVE  {i} \X (1 .. Once(open)[i]) = IF i \in open THEN {<<i, 1>>} ELSE {}
      OBVIOUS
    <3>1. CASE i \in open
      <4>1. 1 .. Once(open)[i] = {1}
        BY <3>1 DEF Once
      <4> QED
        BY <3>1, <4>1
    <3>2. CASE i \notin open
      <4>1. 1 .. Once(open)[i] = {}
        BY <3>2 DEF Once
      <4> QED
        BY <3>2, <4>1
    <3> QED
      BY <3>1, <3>2
  <2>5. UNION {{i} \X (1 .. Once(open)[i]) : i \in Receivables \ Draft} = (open \ Draft) \X {1}
    <3>1. ASSUME NEW x \in UNION {{i} \X (1 .. Once(open)[i]) : i \in Receivables \ Draft}
          PROVE  x \in (open \ Draft) \X {1}
      <4>1. PICK i \in Receivables \ Draft : x \in {i} \X (1 .. Once(open)[i])
        BY <3>1
      <4> QED
        BY <2>4, <4>1
    <3>2. ASSUME NEW x \in (open \ Draft) \X {1}
          PROVE  x \in UNION {{i} \X (1 .. Once(open)[i]) : i \in Receivables \ Draft}
      <4>1. PICK i \in open \ Draft : x = <<i, 1>>
        BY <3>2
      <4>2. i \in Receivables \ Draft
        BY <2>1
      <4>3. x \in {i} \X (1 .. Once(open)[i])
        BY <2>4, <4>1, <4>2
      <4> QED
        BY <4>2, <4>3
    <3> QED
      BY <3>1, <3>2
  <2> QED
    BY <2>2, <2>3, <2>5
<1> QED
  BY <1>1, PullInit, PullStep, PTL DEF MCSpec

-----------------------------------------------------------------------------
(* Folds *)

LEMMA LeastOf ==
  ASSUME NEW N \in SUBSET Nat, N # {}
  PROVE  \E m \in N : \A k \in N : m =< k
<1> DEFINE Belows == {0 .. m : m \in N}
<1>1. Belows \subseteq FiniteSubsetsOf(Nat) /\ Belows # {}
  <2>1. \A m \in N : IsFiniteSet(0 .. m) /\ 0 .. m \subseteq Nat
    BY FS_Interval
  <2> QED
    BY <2>1 DEF FiniteSubsetsOf
<1>2. PICK least \in Belows : \A D \in Belows : <<D, least>> \notin StrictSubsetOrdering(Nat)
  <2> HIDE DEF Belows
  <2> QED
    BY <1>1, FS_StrictSubsetOrderingWellFounded, WFMin
<1>3. PICK m \in N : least = 0 .. m
  OBVIOUS
<1>4. ASSUME NEW d \in N PROVE m =< d
  <2> SUFFICES ASSUME d < m PROVE FALSE
    OBVIOUS
  <2>1. d \in Nat /\ m \in Nat
    OBVIOUS
  <2>2. 0 .. d \subseteq 0 .. m /\ m \in 0 .. m /\ m \notin 0 .. d
    BY <2>1
  <2>3. <<0 .. d, least>> \in StrictSubsetOrdering(Nat)
    BY <1>3, <2>1, <2>2 DEF StrictSubsetOrdering
  <2> QED
    BY <1>2, <2>3
<1> QED
  BY <1>4

LEMMA GreatestIs ==
  ASSUME NEW s \in SUBSET Nat, NEW m \in s, \A k \in s : k =< m
  PROVE  I!Max(s) = m
<1>1. I!Max(s) \in s /\ \A k \in s : I!Max(s) >= k
  <2>1. \E x \in s : \A y \in s : x >= y
    OBVIOUS
  <2> QED
    BY <2>1 DEF I!Max
<1>2. I!Max(s) \in Nat /\ m \in Nat
  BY <1>1
<1> QED
  BY <1>1, <1>2

\* What holds of 0 and of the next of every number it holds of, holds of all to n: a set
\* of numbers with both is all of them.
LEMMA AllReached ==
  ASSUME NEW n \in Nat, NEW N, 0 \in N, \A k \in 1 .. n : k - 1 \in N => k \in N
  PROVE  0 .. n \subseteq N
<1> DEFINE T == {k \in 0 .. n : k \notin N}
<1> SUFFICES ASSUME T # {} PROVE FALSE
  OBVIOUS
<1>1. PICK m \in T : \A k \in T : m =< k
  <2> HIDE DEF T
  <2>1. T \subseteq Nat
    BY DEF T
  <2> QED
    BY <2>1, LeastOf
<1>2. m # 0 /\ m \in 1 .. n
  OBVIOUS
<1>3. m - 1 \in 0 .. n /\ m - 1 \notin T
  BY <1>1, <1>2
<1> QED
  BY <1>2, <1>3

\* The step h taken over each subset of 1 .. n, its greatest element last.
FoldsTo(g, n, A, b, h) ==
  /\ g \in [SUBSET (1 .. n) -> A]
  /\ g[{}] = b
  /\ \A s \in SUBSET (1 .. n), m \in 1 .. n :
       m \in s /\ (\A k \in s : k =< m) => g[s] = h[<<g[s \ {m}], m>>]

LEMMA FoldExists ==
  ASSUME NEW n \in Nat, NEW A, NEW b \in A, NEW h \in [A \X (1 .. n) -> A]
  PROVE  \E g : FoldsTo(g, n, A, b, h)
<1> DEFINE N == {m \in 0 .. n : \E g : FoldsTo(g, m, A, b, h)}
<1>1. 0 \in N
  <2> DEFINE g == [s \in SUBSET (1 .. 0) |-> b]
  <2>1. FoldsTo(g, 0, A, b, h)
    <3>1. \A m \in 1 .. 0 : FALSE
      OBVIOUS
    <3>2. g \in [SUBSET (1 .. 0) -> A] /\ g[{}] = b
      OBVIOUS
    <3> QED
      BY <3>1, <3>2 DEF FoldsTo
  <2> HIDE DEF g
  <2> QED
    BY <2>1
<1>2. ASSUME NEW m \in 1 .. n, m - 1 \in N PROVE m \in N
  <2>1. PICK f : FoldsTo(f, m - 1, A, b, h)
    BY <1>2
  <2> DEFINE g == [s \in SUBSET (1 .. m) |-> IF m \in s THEN h[<<f[s \ {m}], m>>] ELSE f[s]]
  <2>2. \A s \in SUBSET (1 .. m) : s \ {m} \in SUBSET (1 .. m - 1) /\ f[s \ {m}] \in A
    <3> SUFFICES ASSUME NEW s \in SUBSET (1 .. m)
                 PROVE  s \ {m} \in SUBSET (1 .. m - 1) /\ f[s \ {m}] \in A
      OBVIOUS
    <3>1. s \ {m} \in SUBSET (1 .. m - 1)
      OBVIOUS
    <3>2. f \in [SUBSET (1 .. m - 1) -> A]
      BY <2>1 DEF FoldsTo
    <3> QED
      BY <3>1, <3>2
  <2>3. \A s \in SUBSET (1 .. m) : m \notin s => s \in SUBSET (1 .. m - 1) /\ s \ {m} = s
    OBVIOUS
  <2>4. g \in [SUBSET (1 .. m) -> A]
    BY <2>2, <2>3
  <2>5. g[{}] = b
    BY <2>1 DEF FoldsTo
  <2>6. ASSUME NEW s \in SUBSET (1 .. m), NEW l \in 1 .. m, l \in s, \A k \in s : k =< l
        PROVE  g[s] = h[<<g[s \ {l}], l>>]
    <3>1. CASE l = m
      <4>1. g[s] = h[<<f[s \ {m}], m>>] /\ g[s \ {m}] = f[s \ {m}]
        BY <2>6, <3>1
      <4> QED
        BY <4>1, <3>1
    <3>2. CASE l # m
      <4>1. m \notin s /\ l \in 1 .. m - 1 /\ s \in SUBSET (1 .. m - 1)
        BY <2>6, <3>2
      <4>2. g[s] = f[s] /\ g[s \ {l}] = f[s \ {l}]
        BY <4>1
      <4>3. f[s] = h[<<f[s \ {l}], l>>]
        BY <4>1, <2>1, <2>6 DEF FoldsTo
      <4> QED
        BY <4>2, <4>3
    <3> QED
      BY <3>1, <3>2
  <2> QED
    <3> HIDE DEF g
    <3>1. FoldsTo(g, m, A, b, h)
      BY <2>4, <2>5, <2>6 DEF FoldsTo
    <3> QED
      BY <3>1
<1>3. n \in N
  <2> HIDE DEF N
  <2> QED
    BY <1>1, <1>2, AllReached
<1> QED
  BY <1>3

LEMMA MaxIn ==
  ASSUME NEW n \in Nat, NEW N \in SUBSET (1 .. n), N # {}
  PROVE  I!Max(N) \in N /\ \A k \in N : k =< I!Max(N)
<1> DEFINE L == {n - k : k \in N}
<1>1. PICK l \in L : \A k \in L : l =< k
  <2>1. L \subseteq Nat /\ L # {}
    <3>1. \A k \in N : n - k \in Nat
      OBVIOUS
    <3> QED
      BY <3>1
  <2> HIDE DEF L
  <2> QED
    BY <2>1, LeastOf
<1>2. PICK m \in N : l = n - m
  OBVIOUS
<1>3. \A k \in N : k =< m
  BY <1>1, <1>2
<1>4. I!Max(N) = m
  BY <1>3, GreatestIs
<1> QED
  BY <1>3, <1>4

-----------------------------------------------------------------------------
(* Histories of invoices: what a publish prepares *)

FileParameters ==
  /\ \A s \in DOMAIN Told : Told[s] \in Seq(I!Row)
  /\ Acked \in DOMAIN Told
  /\ Amounts \subseteq Nat /\ Dates \subseteq Nat /\ Currencies \subseteq Nat /\ Terms \subseteq Nat

Valued == I!Values \cup {I!NoInvoice}
Accrued == [now : [Bills -> Valued], inserts : SUBSET Bills, deltas : Seq(I!Change)]

LEMMA NoInvoiceIsNone == I!NoInvoice \notin I!Values
<1> SUFFICES ASSUME NEW row \in I!Row, NEW t \in Terms, I!NoInvoice = I!Value(row, t) PROVE FALSE
  BY DEF I!Values
<1>1. DOMAIN I!NoInvoice = {"amount"} /\ "currency" \in DOMAIN I!Value(row, t)
  BY DEF I!NoInvoice, I!Value
<1> QED
  BY <1>1

LEMMA ValueTyped ==
  ASSUME NEW row \in I!Row, NEW days \in Terms
  PROVE  I!Value(row, days) \in I!Values /\ I!Value(row, days).credit_days = days
<1>1. I!Value(row, days) \in I!Values
  BY DEF I!Values
<1>2. I!Value(row, days).credit_days = days
  BY DEF I!Value
<1> QED
  BY <1>1, <1>2

LEMMA ValueFields ==
  ASSUME FileParameters, NEW v \in I!Values, NEW f \in I!Fields
  PROVE  v[f] \in Nat /\ v.credit_days \in Terms
<1>1. PICK row \in I!Row, days \in Terms : v = I!Value(row, days)
  BY DEF I!Values
<1>2. /\ row.amount \in Nat /\ row.date \in Nat /\ row.currency \in Nat
      /\ days \in Nat /\ row.date + days \in Nat
  <2>1. row.amount \in Amounts /\ row.date \in Dates /\ row.currency \in Currencies
    BY DEF I!Row
  <2>2. row.amount \in Nat /\ row.date \in Nat /\ row.currency \in Nat /\ days \in Nat
    BY <2>1 DEF FileParameters
  <2> QED
    BY <2>2
<1>3. v = [amount |-> row.amount, invoice_date |-> row.date, credit_days |-> days,
           due_date |-> row.date + days, currency |-> row.currency]
  BY <1>1 DEF I!Value
<1> QED
  BY <1>2, <1>3 DEF I!Fields

\* s names each member of H once, and nothing else.
Lists(s, H) ==
  /\ s \in Seq(H)
  /\ \A f \in H : \E k \in DOMAIN s : s[k] = f
  /\ \A j, k \in DOMAIN s : s[j] = s[k] => j = k

LEMMA ListsBoth ==
  ASSUME NEW G, NEW H, NEW s, NEW t, Lists(s, G), Lists(t, H), G \cap H = {}
  PROVE  Lists(s \o t, G \cup H)
<1> DEFINE B == G \cup H
<1>0. s \in Seq(B) /\ t \in Seq(B)
  BY SeqMonotonic DEF Lists
<1>1. /\ s \o t \in Seq(B) /\ Len(s \o t) = Len(s) + Len(t)
      /\ Len(s) \in Nat /\ Len(t) \in Nat
      /\ DOMAIN s = 1 .. Len(s) /\ DOMAIN t = 1 .. Len(t) /\ DOMAIN (s \o t) = 1 .. Len(s) + Len(t)
  <2> HIDE DEF B
  <2> QED
    BY <1>0, ConcatProperties, LenProperties
<1>2. /\ \A k \in 1 .. Len(s) : (s \o t)[k] = s[k] /\ s[k] \in G
      /\ \A k \in 1 .. Len(t) : (s \o t)[Len(s) + k] = t[k] /\ t[k] \in H
  BY <1>0, <1>1 DEF Lists
<1>3. \A k \in 1 .. Len(s) + Len(t) :
        k \in 1 .. Len(s) \/ \E l \in 1 .. Len(t) : k = Len(s) + l
  <2> SUFFICES ASSUME NEW k \in 1 .. Len(s) + Len(t), k \notin 1 .. Len(s)
               PROVE  k - Len(s) \in 1 .. Len(t) /\ k = Len(s) + (k - Len(s))
    OBVIOUS
  <2> QED
    BY <1>1
<1>4. ASSUME NEW f \in G \cup H PROVE \E k \in DOMAIN (s \o t) : (s \o t)[k] = f
  <2>1. CASE f \in G
    <3>1. PICK k \in 1 .. Len(s) : s[k] = f
      BY <2>1, <1>1 DEF Lists
    <3> QED
      BY <3>1, <1>1, <1>2
  <2>2. CASE f \in H
    <3>1. PICK k \in 1 .. Len(t) : t[k] = f
      BY <2>2, <1>1 DEF Lists
    <3>2. Len(s) + k \in 1 .. Len(s) + Len(t)
      BY <1>1
    <3> QED
      BY <3>1, <3>2, <1>1, <1>2
  <2> QED
    BY <2>1, <2>2
<1>5. ASSUME NEW j \in DOMAIN (s \o t), NEW k \in DOMAIN (s \o t), (s \o t)[j] = (s \o t)[k]
      PROVE  j = k
  <2>1. CASE j \in 1 .. Len(s) /\ k \in 1 .. Len(s)
    BY <2>1, <1>1, <1>2, <1>5 DEF Lists
  <2>2. ASSUME NEW a \in 1 .. Len(t), NEW b \in 1 .. Len(t), j = Len(s) + a, k = Len(s) + b
        PROVE  j = k
    <3>1. t[a] = t[b]
      BY <2>2, <1>2, <1>5
    <3> QED
      BY <2>2, <3>1, <1>1 DEF Lists
  <2>3. ASSUME NEW a \in 1 .. Len(t), j \in 1 .. Len(s), k = Len(s) + a
        PROVE  FALSE
    BY <2>3, <1>1, <1>2, <1>5
  <2>4. ASSUME NEW a \in 1 .. Len(t), k \in 1 .. Len(s), j = Len(s) + a
        PROVE  FALSE
    BY <2>4, <1>1, <1>2, <1>5
  <2> QED
    BY <2>1, <2>2, <2>3, <2>4, <1>1, <1>3
<1> QED
  BY <1>1, <1>4, <1>5 DEF Lists

LEMMA ChangedLists ==
  ASSUME NEW f, NEW prior, NEW next
  PROVE  Lists(I!Changed(f, prior, next), {g \in {f} : prior[g] # next[g]})
<1>1. CASE prior[f] = next[f]
  BY <1>1 DEF Lists, I!Changed
<1>2. CASE prior[f] # next[f]
  BY <1>2 DEF Lists, I!Changed
<1> QED
  BY <1>1, <1>2

LEMMA DiffLists ==
  ASSUME NEW prior, NEW next
  PROVE  Lists(I!Diff(prior, next), {f \in I!Fields : prior[f] # next[f]})
<1> DEFINE D(G) == {f \in G : prior[f] # next[f]}
<1>1. ASSUME NEW G, NEW f, f \notin G, NEW s, Lists(s, D(G))
      PROVE  Lists(s \o I!Changed(f, prior, next), D(G \cup {f}))
  <2>1. D(G \cup {f}) = D(G) \cup D({f}) /\ D(G) \cap D({f}) = {}
    BY <1>1
  <2>2. Lists(I!Changed(f, prior, next), D({f}))
    BY ChangedLists
  <2> QED
    BY <1>1, <2>1, <2>2, ListsBoth
<1> DEFINE C(f) == I!Changed(f, prior, next)
<1>2. Lists(C("amount"), D({"amount"}))
  BY ChangedLists
<1> HIDE DEF D, C
<1>3. Lists(C("amount") \o C("due_date"), D({"amount"} \cup {"due_date"}))
  BY <1>1, <1>2 DEF C
<1>4. Lists(C("amount") \o C("due_date") \o C("credit_days"),
            D({"amount"} \cup {"due_date"} \cup {"credit_days"}))
  BY <1>1, <1>3 DEF C
<1>5. Lists(C("amount") \o C("due_date") \o C("credit_days") \o C("invoice_date"),
            D({"amount"} \cup {"due_date"} \cup {"credit_days"} \cup {"invoice_date"}))
  BY <1>1, <1>4 DEF C
<1>6. Lists(C("amount") \o C("due_date") \o C("credit_days") \o C("invoice_date") \o C("currency"),
            D({"amount"} \cup {"due_date"} \cup {"credit_days"} \cup {"invoice_date"} \cup {"currency"}))
  BY <1>1, <1>5 DEF C
<1>7. I!Fields = {"amount"} \cup {"due_date"} \cup {"credit_days"} \cup {"invoice_date"} \cup {"currency"}
  BY DEF I!Fields
<1>8. I!Diff(prior, next)
        = C("amount") \o C("due_date") \o C("credit_days") \o C("invoice_date") \o C("currency")
  BY DEF I!Diff, C
<1> QED
  BY <1>6, <1>7, <1>8 DEF D

LEMMA DeltasAre ==
  ASSUME FileParameters, NEW s \in DOMAIN Told, NEW i \in Bills,
         NEW prior \in I!Values, NEW next \in I!Values, NEW D, D = I!Deltas(s, i, prior, next)
  PROVE  /\ D \in Seq(I!Change)
         /\ \A k \in DOMAIN D : D[k].invoice = i /\ prior[D[k].field] # next[D[k].field]
         /\ \A j, k \in DOMAIN D : D[j].field = D[k].field => j = k
         /\ \A f \in I!Fields : prior[f] # next[f] =>
              \E k \in DOMAIN D : D[k].field = f /\ D[k].before = prior[f] /\ D[k].after = next[f]
<1> DEFINE c == I!Diff(prior, next)
           H == {f \in I!Fields : prior[f] # next[f]}
           d(k) == [invoice |-> i, snapshot |-> s, field |-> c[k],
                    before |-> prior[c[k]], after |-> next[c[k]], by |-> I!Nobody]
<1>1. Lists(c, H)
  BY DiffLists
<1>2. D = [k \in DOMAIN c |-> d(k)]
  BY DEF I!Deltas
<1> HIDE DEF c
<1>3. c \in Seq(H) /\ Len(c) \in Nat /\ DOMAIN c = 1 .. Len(c)
  BY <1>1, LenProperties DEF Lists
<1>4. \A k \in 1 .. Len(c) : c[k] \in I!Fields /\ prior[c[k]] # next[c[k]]
  <2> SUFFICES ASSUME NEW k \in 1 .. Len(c) PROVE c[k] \in H
    OBVIOUS
  <2> HIDE DEF H
  <2> QED
    BY <1>3, ElementOfSeq
<1>5. ASSUME NEW k \in 1 .. Len(c) PROVE d(k) \in I!Change
  <2>1. prior[c[k]] \in Nat /\ next[c[k]] \in Nat /\ c[k] \in I!Fields
    BY <1>4, ValueFields
  <2> HIDE DEF H
  <2> QED
    BY <2>1 DEF I!Change
<1>6. D \in Seq(I!Change)
  <2> HIDE DEF H, d
  <2>1. D \in [1 .. Len(c) -> I!Change]
    BY <1>2, <1>3, <1>5
  <2> QED
    BY <2>1, <1>3, SeqDef
<1>7. \A j, k \in DOMAIN D : D[j].field = D[k].field => j = k
  BY <1>1, <1>2, <1>3 DEF Lists
<1>8. ASSUME NEW f \in I!Fields, prior[f] # next[f]
      PROVE  \E k \in DOMAIN D : D[k].field = f /\ D[k].before = prior[f] /\ D[k].after = next[f]
  <2>1. PICK k \in DOMAIN c : c[k] = f
    BY <1>1, <1>8 DEF Lists
  <2>2. k \in DOMAIN D /\ D[k] = d(k)
    BY <1>2, <2>1
  <2> QED
    BY <2>1, <2>2
<1>9. ASSUME NEW k \in DOMAIN D PROVE D[k].invoice = i /\ prior[D[k].field] # next[D[k].field]
  BY <1>2, <1>3, <1>4
<1> QED
  BY <1>6, <1>7, <1>8, <1>9

-----------------------------------------------------------------------------
(* A file, row by row *)

\* What the rows of the snapshot s have become after k of them.
Nothing == [now |-> value, inserts |-> {}, deltas |-> <<>>]
Follows(F, s, days) ==
  /\ F[0] = Nothing
  /\ \A k \in 1 .. Len(Told[s]) : F[k] = I!WithRow(s, days, F[k - 1], Told[s][k])

LEMMA RowIs ==
  ASSUME FileParameters, NEW s \in DOMAIN Told
  PROVE  /\ Len(Told[s]) \in Nat /\ DOMAIN Told[s] = 1 .. Len(Told[s])
         /\ \A k \in 1 .. Len(Told[s]) :
              Told[s][k] \in I!Row /\ Told[s][k].invoice \in Bills
<1>1. Told[s] \in Seq(I!Row)
  BY DEF FileParameters
<1>2. \A k \in 1 .. Len(Told[s]) : Told[s][k] \in I!Row
  BY <1>1, ElementOfSeq
<1>3. \A row \in I!Row : row.invoice \in Bills
  BY DEF I!Row
<1> QED
  BY <1>1, <1>2, <1>3, LenProperties

LEMMA WithRowTyped ==
  ASSUME FileParameters, NEW s \in DOMAIN Told, NEW days \in Terms, NEW acc \in Accrued,
         NEW row \in I!Row
  PROVE  I!WithRow(s, days, acc, row) \in Accrued
<1> DEFINE i == row.invoice
           next == I!Value(row, days)
           D == I!Deltas(s, i, acc.now[i], next)
<1>1. i \in Bills /\ next \in I!Values
  BY ValueTyped DEF I!Row
<1>2. acc.now \in [Bills -> Valued] /\ acc.inserts \subseteq Bills /\ acc.deltas \in Seq(I!Change)
  BY DEF Accrued
<1>3. [acc.now EXCEPT ![i] = next] \in [Bills -> Valued]
  BY <1>1, <1>2 DEF Valued
<1>4. acc.now[i] # I!NoInvoice => acc.deltas \o D \in Seq(I!Change)
  <2> SUFFICES ASSUME acc.now[i] # I!NoInvoice PROVE acc.deltas \o D \in Seq(I!Change)
    OBVIOUS
  <2>1. acc.now[i] \in I!Values
    BY <1>1, <1>2 DEF Valued
  <2>2. D \in Seq(I!Change)
    <3> HIDE DEF i, next
    <3> QED
      BY <1>1, <2>1, DeltasAre
  <2> HIDE DEF D
  <2> QED
    BY <1>2, <2>2, ConcatProperties
<1> DEFINE w == [now |-> [acc.now EXCEPT ![i] = next],
                 inserts |-> IF acc.now[i] = I!NoInvoice THEN acc.inserts \cup {i} ELSE acc.inserts,
                 deltas |-> IF acc.now[i] = I!NoInvoice THEN acc.deltas ELSE acc.deltas \o D]
<1>5. I!WithRow(s, days, acc, row) = w
  BY DEF I!WithRow
<1>6. w \in Accrued
  <2> HIDE DEF i, next, D
  <2> QED
    BY <1>1, <1>2, <1>3, <1>4 DEF Accrued
<1> QED
  BY <1>5, <1>6

LEMMA PreparedFollows ==
  ASSUME FileParameters, value \in [Bills -> Valued], NEW s \in DOMAIN Told, NEW days \in Terms
  PROVE  \E F : Follows(F, s, days) /\ F[Len(Told[s])] = I!Prepared(s, days)
<1> DEFINE n == Len(Told[s])
           h == [x \in Accrued \X (1 .. n) |-> I!WithRow(s, days, x[1], Told[s][x[2]])]
           Fold(g) == g = [N \in SUBSET DOMAIN Told[s] |->
                             IF N = {} THEN Nothing
                             ELSE I!WithRow(s, days, g[N \ {I!Max(N)}], Told[s][I!Max(N)])]
           G == CHOOSE g : Fold(g)
<1>1. n \in Nat /\ DOMAIN Told[s] = 1 .. n /\ Nothing \in Accrued
  <2>1. <<>> \in Seq(I!Change)
    OBVIOUS
  <2> QED
    BY <2>1, RowIs DEF Nothing, Accrued
<1>2. h \in [Accrued \X (1 .. n) -> Accrued]
  <2>1. ASSUME NEW acc \in Accrued, NEW k \in 1 .. n
        PROVE  I!WithRow(s, days, acc, Told[s][k]) \in Accrued
    BY RowIs, WithRowTyped
  <2> QED
    BY <2>1
<1>3. PICK g : FoldsTo(g, n, Accrued, Nothing, h)
  <2> HIDE DEF n, h
  <2> QED
    BY <1>1, <1>2, FoldExists
<1>4. Fold(g)
  <2>1. ASSUME NEW N \in SUBSET (1 .. n), N # {}
        PROVE  g[N] = I!WithRow(s, days, g[N \ {I!Max(N)}], Told[s][I!Max(N)])
    <3> DEFINE m == I!Max(N)
    <3>1. m \in N /\ \A k \in N : k =< m
      <4> HIDE DEF n
      <4> QED
        BY <1>1, <2>1, MaxIn
    <3>2. g[N \ {m}] \in Accrued /\ m \in 1 .. n
      <4> HIDE DEF m, n, h
      <4> QED
        BY <1>3, <3>1 DEF FoldsTo
    <3>3. g[N] = h[<<g[N \ {m}], m>>]
      <4> HIDE DEF m, n, h
      <4> QED
        BY <1>3, <3>1, <3>2 DEF FoldsTo
    <3> HIDE DEF m, n
    <3>4. h[<<g[N \ {m}], m>>] = I!WithRow(s, days, g[N \ {m}], Told[s][m])
      BY <3>2
    <3> QED
      BY <3>3, <3>4 DEF m
  <2>2. g \in [SUBSET (1 .. n) -> Accrued] /\ g[{}] = Nothing
    BY <1>3 DEF FoldsTo
  <2> HIDE DEF n, h
  <2> QED
    BY <1>1, <2>1, <2>2
<1>5. Fold(G)
  <2> HIDE DEF Fold
  <2> QED
    BY <1>4
<1>6. I!Prepared(s, days) = G[1 .. n]
  <2>1. I!Prepared(s, days) = G[DOMAIN Told[s]]
    BY DEF I!Prepared, I!FoldLeft, I!MapThenFoldSet, Nothing
  <2> QED
    BY <1>1, <2>1
<1> DEFINE F == [k \in 0 .. n |-> G[1 .. k]]
<1>7. ASSUME NEW k \in 1 .. n PROVE F[k] = I!WithRow(s, days, F[k - 1], Told[s][k])
  <2>1. I!Max(1 .. k) = k
    <3>1. 1 .. k \in SUBSET Nat /\ k \in 1 .. k /\ \A j \in 1 .. k : j =< k
      BY <1>1
    <3> QED
      BY <3>1, GreatestIs
  <2>2. (1 .. k) \ {k} = 1 .. k - 1 /\ 1 .. k # {} /\ 1 .. k \in SUBSET (1 .. n)
    BY <1>1
  <2>3. F[k] = G[1 .. k] /\ F[k - 1] = G[1 .. k - 1]
    BY <1>1
  <2> HIDE DEF F, n, G
  <2>4. G[1 .. k] = I!WithRow(s, days, G[(1 .. k) \ {k}], Told[s][k])
    BY <1>1, <1>5, <2>1, <2>2
  <2> QED
    BY <2>2, <2>3, <2>4
<1>8. F[0] = Nothing /\ F[n] = G[1 .. n]
  <2>1. F[0] = G[1 .. 0] /\ 1 .. 0 = {} /\ {} \in SUBSET DOMAIN Told[s] /\ F[n] = G[1 .. n]
    BY <1>1
  <2> HIDE DEF F, n, G
  <2> QED
    BY <2>1, <1>5
<1> HIDE DEF F
<1>9. Follows(F, s, days)
  BY <1>7, <1>8 DEF Follows
<1> QED
  BY <1>6, <1>8, <1>9

-----------------------------------------------------------------------------
(* Histories of invoices: what the history tells *)

\* The history H of the field f of an invoice i, the value after the changes N of it, and
\* that H leads from the values F without a gap to the values V.
Own(H, i, f) == {k \in DOMAIN H : H[k].invoice = i /\ H[k].field = f}
After(H, F, i, f, N) == IF N = {} THEN F[i][f] ELSE H[I!Max(N)].after
Leads(H, v, F, i, f) ==
  /\ After(H, F, i, f, Own(H, i, f)) = v
  /\ \A k \in Own(H, i, f) : H[k].before = After(H, F, i, f, {j \in Own(H, i, f) : j < k})
Tells(H, V, F) ==
  \A i \in Bills : V[i] # I!NoInvoice => \A f \in I!Fields : Leads(H, V[i][f], F, i, f)

\* Only invoices that exist have a history.
Known(H, V) == \A k \in DOMAIN H : V[H[k].invoice] # I!NoInvoice

LEMMA ExplainedIs == I!Explained <=> Tells(history, value, first)
<1>1. ASSUME NEW i \in Bills, NEW f \in I!Fields
      PROVE  (LET own == {k \in DOMAIN history : history[k].invoice = i /\ history[k].field = f}
                  Reached(s) == IF s = {} THEN first[i][f] ELSE history[I!Max(s)].after IN
              /\ Reached(own) = value[i][f]
              /\ \A k \in own : history[k].before = Reached({j \in own : j < k}))
             <=> Leads(history, value[i][f], first, i, f)
  BY DEF Leads, Own, After
<1> QED
  BY <1>1 DEF I!Explained, Tells

LEMMA ChangeIs ==
  ASSUME NEW H, H \in Seq(I!Change)
  PROVE  /\ Len(H) \in Nat /\ DOMAIN H = 1 .. Len(H)
         /\ \A k \in 1 .. Len(H) : H[k] \in I!Change
         /\ \A k \in 1 .. Len(H) : H[k].invoice \in Bills /\ H[k].field \in I!Fields
<1>1. \A k \in 1 .. Len(H) : H[k] \in I!Change
  BY ElementOfSeq
<1>2. \A c \in I!Change : c.invoice \in Bills /\ c.field \in I!Fields
  BY DEF I!Change
<1> QED
  BY <1>1, <1>2, LenProperties

LEMMA Appended ==
  ASSUME NEW H, NEW D, H \in Seq(I!Change), D \in Seq(I!Change)
  PROVE  /\ H \o D \in Seq(I!Change) /\ DOMAIN (H \o D) = 1 .. Len(H) + Len(D)
         /\ Len(H) \in Nat /\ Len(D) \in Nat
         /\ \A k \in 1 .. Len(H) : (H \o D)[k] = H[k]
         /\ \A k \in 1 .. Len(D) : (H \o D)[Len(H) + k] = D[k]
         /\ \A k \in 1 .. Len(H) + Len(D) :
              k \in 1 .. Len(H) \/ \E l \in 1 .. Len(D) : k = Len(H) + l
<1>1. /\ Len(H) \in Nat /\ Len(D) \in Nat
      /\ H \o D \in Seq(I!Change) /\ Len(H \o D) = Len(H) + Len(D)
      /\ DOMAIN (H \o D) = 1 .. Len(H) + Len(D)
  BY ConcatProperties, LenProperties
<1>2. /\ \A k \in 1 .. Len(H) : (H \o D)[k] = H[k]
      /\ \A k \in 1 .. Len(D) : (H \o D)[Len(H) + k] = D[k]
  BY <1>1, ConcatProperties
<1>3. ASSUME NEW k \in 1 .. Len(H) + Len(D), k \notin 1 .. Len(H)
      PROVE  k - Len(H) \in 1 .. Len(D) /\ k = Len(H) + (k - Len(H))
  BY <1>1, <1>3
<1> QED
  BY <1>1, <1>2, <1>3

\* What was told of the first changes is told of them when others follow.
LEMMA AfterStays ==
  ASSUME NEW H, NEW D, H \in Seq(I!Change), D \in Seq(I!Change), NEW F, NEW i, NEW f,
         NEW N \in SUBSET DOMAIN H
  PROVE  After(H \o D, F, i, f, N) = After(H, F, i, f, N)
<1>1. CASE N = {}
  BY <1>1 DEF After
<1>2. CASE N # {}
  <2>1. I!Max(N) \in 1 .. Len(H)
    BY <1>2, ChangeIs, MaxIn
  <2>2. (H \o D)[I!Max(N)] = H[I!Max(N)]
    BY <2>1, Appended
  <2> QED
    BY <1>2, <2>2 DEF After
<1> QED
  BY <1>1, <1>2

LEMMA LeadsOn ==
  ASSUME NEW H, NEW D, H \in Seq(I!Change), D \in Seq(I!Change), NEW F, NEW v, NEW i, NEW f,
         Leads(H, v, F, i, f), \A k \in DOMAIN D : D[k].invoice # i \/ D[k].field # f
  PROVE  Leads(H \o D, v, F, i, f)
<1>1. Own(H \o D, i, f) = Own(H, i, f)
  <2>1. \A k \in DOMAIN (H \o D) :
          (H \o D)[k].invoice = i /\ (H \o D)[k].field = f => k \in DOMAIN H
    BY Appended, ChangeIs
  <2>2. \A k \in DOMAIN H : k \in DOMAIN (H \o D) /\ (H \o D)[k] = H[k]
    BY Appended, ChangeIs
  <2> QED
    BY <2>1, <2>2 DEF Own
<1>2. \A N \in SUBSET DOMAIN H : After(H \o D, F, i, f, N) = After(H, F, i, f, N)
  BY AfterStays
<1>3. Own(H, i, f) \subseteq DOMAIN H
  BY DEF Own
<1>4. \A k \in Own(H, i, f) : (H \o D)[k] = H[k]
  BY <1>3, Appended, ChangeIs
<1>5. \A k \in Own(H, i, f) : {j \in Own(H, i, f) : j < k} \in SUBSET DOMAIN H
  BY <1>3
<1> QED
  BY <1>1, <1>2, <1>3, <1>4, <1>5 DEF Leads

LEMMA LeadsOneMore ==
  ASSUME NEW H, NEW D, H \in Seq(I!Change), D \in Seq(I!Change), NEW F, NEW v, NEW i, NEW f,
         Leads(H, v, F, i, f), NEW l \in DOMAIN D, D[l].invoice = i, D[l].field = f,
         D[l].before = v,
         \A k \in DOMAIN D : D[k].invoice = i /\ D[k].field = f => k = l
  PROVE  Leads(H \o D, D[l].after, F, i, f)
<1> DEFINE n == Len(H)
           own == Own(H, i, f)
<1>1. /\ n \in Nat /\ l \in Nat /\ l \in 1 .. Len(D) /\ own \subseteq 1 .. n
      /\ DOMAIN H = 1 .. n /\ DOMAIN D = 1 .. Len(D)
      /\ (H \o D)[n + l] = D[l] /\ n + l \in DOMAIN (H \o D)
  <2>1. l \in 1 .. Len(D) /\ DOMAIN H = 1 .. n
    BY ChangeIs
  <2>2. own \subseteq DOMAIN H
    BY DEF Own
  <2>3. n \in Nat /\ Len(D) \in Nat /\ DOMAIN (H \o D) = 1 .. n + Len(D) /\ (H \o D)[n + l] = D[l]
    BY <2>1, Appended
  <2>4. l \in Nat /\ n + l \in 1 .. n + Len(D)
    BY <2>1, <2>3
  <2> QED
    BY <2>1, <2>2, <2>3, <2>4, ChangeIs
<1>2. Own(H \o D, i, f) = own \cup {n + l}
  <2>1. ASSUME NEW k \in DOMAIN (H \o D), (H \o D)[k].invoice = i, (H \o D)[k].field = f
        PROVE  k \in own \cup {n + l}
    <3>1. CASE k \in 1 .. n
      BY <2>1, <3>1, <1>1, Appended DEF Own
    <3>2. ASSUME NEW m \in 1 .. Len(D), k = n + m PROVE k = n + l
      BY <2>1, <3>2, <1>1, Appended
    <3>3. k \in 1 .. n \/ \E m \in 1 .. Len(D) : k = n + m
      BY Appended
    <3> HIDE DEF own, n
    <3> QED
      BY <3>1, <3>2, <3>3
  <2>2. \A k \in own : k \in DOMAIN (H \o D) /\ (H \o D)[k].invoice = i /\ (H \o D)[k].field = f
    <3>1. \A k \in own : k \in 1 .. n /\ H[k].invoice = i /\ H[k].field = f
      BY <1>1 DEF Own
    <3>2. \A k \in 1 .. n : k \in DOMAIN (H \o D) /\ (H \o D)[k] = H[k]
      BY Appended
    <3> HIDE DEF own, n
    <3> QED
      BY <3>1, <3>2
  <2>3. n + l \in DOMAIN (H \o D) /\ (H \o D)[n + l].invoice = i /\ (H \o D)[n + l].field = f
    BY <1>1
  <2> HIDE DEF own, n
  <2> QED
    BY <2>1, <2>2, <2>3 DEF Own
<1>3. I!Max(own \cup {n + l}) = n + l
  <2>1. \A k \in own : k \in Nat /\ k =< n + l
    BY <1>1
  <2>2. own \cup {n + l} \in SUBSET Nat /\ n + l \in own \cup {n + l}
        /\ \A k \in own \cup {n + l} : k =< n + l
    BY <1>1, <2>1
  <2> HIDE DEF own, n
  <2> QED
    BY <2>2, GreatestIs
<1>4. After(H \o D, F, i, f, own \cup {n + l}) = D[l].after
  BY <1>1, <1>3 DEF After
<1>5. ASSUME NEW k \in own
      PROVE  (H \o D)[k].before = After(H \o D, F, i, f, {j \in own \cup {n + l} : j < k})
  <2>1. {j \in own \cup {n + l} : j < k} = {j \in own : j < k} /\ {j \in own : j < k} \subseteq DOMAIN H
    <3>1. k \in 1 .. n /\ ~(n + l < k)
      BY <1>1
    <3> HIDE DEF own, n
    <3> QED
      BY <3>1, <1>1
  <2>2. (H \o D)[k] = H[k]
    BY <1>1, Appended
  <2>3. H[k].before = After(H, F, i, f, {j \in own : j < k})
    BY DEF Leads
  <2>4. After(H \o D, F, i, f, {j \in own : j < k}) = After(H, F, i, f, {j \in own : j < k})
    BY <2>1, AfterStays
  <2> QED
    BY <2>1, <2>2, <2>3, <2>4
<1>6. (H \o D)[n + l].before = After(H \o D, F, i, f, {j \in own \cup {n + l} : j < n + l})
  <2>1. {j \in own \cup {n + l} : j < n + l} = own
    <3>1. \A k \in own : k \in Int /\ k < n + l
      BY <1>1
    <3>2. ~(n + l < n + l)
      BY <1>1
    <3> HIDE DEF own, n
    <3> QED
      BY <3>1, <3>2
  <2>2. After(H \o D, F, i, f, own) = After(H, F, i, f, own)
    BY <1>1, AfterStays
  <2>3. After(H, F, i, f, own) = v
    BY DEF Leads
  <2> QED
    BY <2>1, <2>2, <2>3, <1>1
<1> QED
  BY <1>2, <1>4, <1>5, <1>6 DEF Leads

\* A row of an invoice that exists: the changes it makes are told.
LEMMA TellsMore ==
  ASSUME FileParameters, NEW H, H \in Seq(I!Change), NEW V \in [Bills -> Valued], NEW F,
         Tells(H, V, F), Known(H, V), NEW s \in DOMAIN Told, NEW i \in Bills,
         V[i] \in I!Values, NEW next \in I!Values
  PROVE  LET H2 == H \o I!Deltas(s, i, V[i], next)
             V2 == [V EXCEPT ![i] = next] IN
         Tells(H2, V2, F) /\ Known(H2, V2)
<1> DEFINE D == I!Deltas(s, i, V[i], next)
           V2 == [V EXCEPT ![i] = next]
<1>1. /\ D \in Seq(I!Change)
      /\ \A k \in DOMAIN D : D[k].invoice = i /\ V[i][D[k].field] # next[D[k].field]
      /\ \A j, k \in DOMAIN D : D[j].field = D[k].field => j = k
      /\ \A f \in I!Fields : V[i][f] # next[f] =>
           \E k \in DOMAIN D : D[k].field = f /\ D[k].before = V[i][f] /\ D[k].after = next[f]
  BY DeltasAre
<1>2. V2[i] = next /\ (\A j \in Bills \ {i} : V2[j] = V[j]) /\ next # I!NoInvoice /\ V[i] # I!NoInvoice
  BY NoInvoiceIsNone
<1> HIDE DEF D, V2
<1>3. ASSUME NEW j \in Bills, V2[j] # I!NoInvoice, NEW f \in I!Fields
      PROVE  Leads(H \o D, V2[j][f], F, j, f)
  <2>1. CASE j # i
    <3>1. V2[j] = V[j] /\ Leads(H, V[j][f], F, j, f)
      BY <2>1, <1>2, <1>3 DEF Tells
    <3> QED
      BY <3>1, <2>1, <1>1, LeadsOn
  <2>2. CASE j = i
    <3>1. Leads(H, V[i][f], F, i, f)
      BY <1>2 DEF Tells
    <3>2. CASE V[i][f] = next[f]
      <4>1. \A k \in DOMAIN D : D[k].invoice # i \/ D[k].field # f
        BY <1>1, <3>2
      <4>2. Leads(H \o D, V[i][f], F, i, f)
        BY <3>1, <4>1, <1>1, LeadsOn
      <4> QED
        BY <4>2, <3>2, <2>2, <1>2
    <3>3. CASE V[i][f] # next[f]
      <4>1. PICK k \in DOMAIN D : D[k].field = f /\ D[k].before = V[i][f] /\ D[k].after = next[f]
        BY <1>1, <3>3
      <4>2. D[k].invoice = i /\ \A l \in DOMAIN D : D[l].invoice = i /\ D[l].field = f => l = k
        BY <4>1, <1>1
      <4>3. Leads(H \o D, D[k].after, F, i, f)
        BY <3>1, <4>1, <4>2, <1>1, LeadsOneMore
      <4> QED
        BY <4>1, <4>3, <2>2, <1>2
    <3> QED
      BY <3>2, <3>3
  <2> QED
    BY <2>1, <2>2
<1>4. Known(H \o D, V2)
  <2> SUFFICES ASSUME NEW k \in DOMAIN (H \o D) PROVE V2[(H \o D)[k].invoice] # I!NoInvoice
    BY DEF Known
  <2>1. CASE k \in 1 .. Len(H)
    <3>1. (H \o D)[k] = H[k] /\ H[k].invoice \in Bills /\ V[H[k].invoice] # I!NoInvoice
      BY <2>1, <1>1, Appended, ChangeIs DEF Known
    <3> QED
      BY <3>1, <1>2
  <2>2. ASSUME NEW l \in 1 .. Len(D), k = Len(H) + l PROVE V2[(H \o D)[k].invoice] # I!NoInvoice
    BY <2>2, <1>1, <1>2, Appended, ChangeIs
  <2> QED
    BY <2>1, <2>2, <1>1, Appended
<1> QED
  BY <1>3, <1>4 DEF Tells, D, V2

\* A row of a new invoice: nothing of it was told.
LEMMA TellsNew ==
  ASSUME NEW H, H \in Seq(I!Change), NEW V \in [Bills -> Valued], NEW F \in [Bills -> Valued],
         Tells(H, V, F), Known(H, V), NEW i \in Bills, V[i] = I!NoInvoice, NEW next \in I!Values
  PROVE  LET V2 == [V EXCEPT ![i] = next]
             F2 == [F EXCEPT ![i] = next] IN
         Tells(H, V2, F2) /\ Known(H, V2)
<1> DEFINE V2 == [V EXCEPT ![i] = next]
           F2 == [F EXCEPT ![i] = next]
<1>1. /\ V2[i] = next /\ F2[i] = next /\ next # I!NoInvoice
      /\ \A j \in Bills \ {i} : V2[j] = V[j] /\ F2[j] = F[j]
  BY NoInvoiceIsNone
<1> HIDE DEF V2, F2
<1>2. ASSUME NEW j \in Bills, V2[j] # I!NoInvoice, NEW f \in I!Fields
      PROVE  Leads(H, V2[j][f], F2, j, f)
  <2>1. CASE j # i
    <3>1. V2[j] = V[j] /\ F2[j] = F[j]
      BY <2>1, <1>1
    <3>2. Leads(H, V[j][f], F, j, f)
      BY <3>1, <1>2 DEF Tells
    <3> QED
      BY <3>1, <3>2 DEF Leads, After
  <2>2. CASE j = i
    <3>1. Own(H, i, f) = {}
      BY ChangeIs DEF Own, Known
    <3> QED
      BY <3>1, <2>2, <1>1 DEF Leads, After
  <2> QED
    BY <2>1, <2>2
<1>3. Known(H, V2)
  BY <1>1, ChangeIs DEF Known
<1> QED
  BY <1>2, <1>3 DEF Tells, V2, F2

-----------------------------------------------------------------------------
(* Histories of invoices: publishes that do not overlap *)

\* The first row of the invoice i in the file of the snapshot s is the row k.
FirstAt(s, i, k) ==
  /\ k \in DOMAIN Told[s] /\ Told[s][k].invoice = i
  /\ \A j \in 1 .. k - 1 : Told[s][j].invoice # i
Before(s, i, k) == \E j \in 1 .. k : Told[s][j].invoice = i

\* What k rows of s have become, acc, explains itself: with its changes the history leads
\* from the values F the invoices were created with, or will be, to what they will be.
Explains(acc, s, days, k, F) ==
  /\ F \in [Bills -> Valued]
  /\ \A i \in Bills :
       /\ IF Before(s, i, k) THEN acc.now[i] \in I!Values /\ acc.now[i].credit_days = days
          ELSE acc.now[i] = value[i] /\ i \notin acc.inserts
       /\ IF i \in acc.inserts
          THEN value[i] = I!NoInvoice /\ \E j \in 1 .. k : FirstAt(s, i, j) /\ F[i] = I!Value(Told[s][j], days)
          ELSE F[i] = first[i]
  /\ Tells(history \o acc.deltas, acc.now, F) /\ Known(history \o acc.deltas, acc.now)

\* The tables, and the history between two publishes.
Tables ==
  /\ value \in [Bills -> Valued] /\ first \in [Bills -> Valued] /\ history \in Seq(I!Change)
  /\ Tells(history, value, first) /\ Known(history, value)

LEMMA NothingExplains ==
  ASSUME FileParameters, Tables, NEW s \in DOMAIN Told, NEW days \in Terms
  PROVE  Nothing \in Accrued /\ Explains(Nothing, s, days, 0, first)
<1>1. <<>> \in Seq(I!Change) /\ history \o <<>> = history
  BY ConcatEmptySeq DEF Tables
<1>2. \A i \in Bills : ~Before(s, i, 0)
  BY DEF Before
<1> QED
  BY <1>1, <1>2 DEF Nothing, Accrued, Explains, Tables

LEMMA RowExplains ==
  ASSUME FileParameters, Tables, NEW s \in DOMAIN Told, NEW days \in Terms,
         NEW k \in 1 .. Len(Told[s]), NEW acc \in Accrued, NEW F, Explains(acc, s, days, k - 1, F)
  PROVE  LET new == I!WithRow(s, days, acc, Told[s][k]) IN
         new \in Accrued /\ \E G : Explains(new, s, days, k, G)
<1> DEFINE i == Told[s][k].invoice
           next == I!Value(Told[s][k], days)
           D == I!Deltas(s, i, acc.now[i], next)
           new == [now |-> [acc.now EXCEPT ![i] = next],
                   inserts |-> IF acc.now[i] = I!NoInvoice THEN acc.inserts \cup {i} ELSE acc.inserts,
                   deltas |-> IF acc.now[i] = I!NoInvoice THEN acc.deltas ELSE acc.deltas \o D]
           G == IF acc.now[i] = I!NoInvoice THEN [F EXCEPT ![i] = next] ELSE F
<1>1. /\ k \in Nat /\ k - 1 \in Nat /\ k \in DOMAIN Told[s] /\ i \in Bills /\ Told[s][k] \in I!Row
      /\ next \in I!Values /\ next.credit_days = days
  BY RowIs, ValueTyped
<1>2. /\ acc.now \in [Bills -> Valued] /\ acc.inserts \subseteq Bills /\ acc.deltas \in Seq(I!Change)
      /\ F \in [Bills -> Valued] /\ history \in Seq(I!Change)
  BY DEF Accrued, Explains, Tables
<1>3. I!WithRow(s, days, acc, Told[s][k]) = new
  BY DEF I!WithRow
<1>4. new \in Accrued
  BY <1>1, <1>3, WithRowTyped
<1>5. \A j \in Bills : Before(s, j, k) <=> Before(s, j, k - 1) \/ j = i
  <2>1. \A m \in 1 .. k : m \in 1 .. k - 1 \/ m = k
    BY <1>1
  <2>2. \A m \in 1 .. k - 1 : m \in 1 .. k
    BY <1>1
  <2>3. k \in 1 .. k
    BY <1>1
  <2> QED
    BY <2>1, <2>2, <2>3 DEF Before
<1> DEFINE H == history \o acc.deltas
<1>6. H \in Seq(I!Change) /\ Tells(H, acc.now, F) /\ Known(H, acc.now)
  BY <1>2, Appended DEF Explains
<1>7. G \in [Bills -> Valued]
  <2>1. next \in Valued
    BY <1>1 DEF Valued
  <2> HIDE DEF next, i
  <2> QED
    BY <2>1, <1>2
<1>8. Tells(history \o new.deltas, new.now, G) /\ Known(history \o new.deltas, new.now)
  <2>1. CASE acc.now[i] = I!NoInvoice
    <3> DEFINE V2 == [acc.now EXCEPT ![i] = next]
               F2 == [F EXCEPT ![i] = next]
    <3>1. Tells(H, V2, F2) /\ Known(H, V2)
      <4> HIDE DEF H, i, next
      <4> QED
        BY <1>1, <1>2, <1>6, <2>1, TellsNew
    <3>2. history \o new.deltas = H /\ new.now = V2 /\ G = F2
      BY <2>1
    <3> HIDE DEF new, G, H, V2, F2
    <3> QED
      BY <3>1, <3>2
  <2>2. CASE acc.now[i] # I!NoInvoice
    <3> DEFINE V2 == [acc.now EXCEPT ![i] = next]
    <3>1. acc.now[i] \in I!Values
      BY <1>1, <1>2, <2>2 DEF Valued
    <3>2. Tells(H \o D, V2, F) /\ Known(H \o D, V2)
      <4> HIDE DEF H, i, next
      <4> QED
        BY <1>1, <1>2, <1>6, <3>1, TellsMore
    <3>3. D \in Seq(I!Change)
      <4> HIDE DEF i, next
      <4> QED
        BY <1>1, <3>1, DeltasAre
    <3>4. history \o (acc.deltas \o D) = H \o D
      <4>1. \A a, b, c \in Seq(I!Change) : (a \o b) \o c = a \o (b \o c)
        BY ConcatAssociative
      <4> HIDE DEF D
      <4> QED
        BY <1>2, <3>3, <4>1, Zenon
    <3>5. history \o new.deltas = H \o D /\ new.now = V2 /\ G = F
      BY <2>2, <3>4
    <3> HIDE DEF new, G, H, V2, D
    <3> QED
      BY <3>2, <3>5
  <2> QED
    BY <2>1, <2>2
<1>9. /\ new.now[i] = next /\ \A j \in Bills \ {i} : new.now[j] = acc.now[j] /\ G[j] = F[j]
      /\ \A j \in Bills \ {i} : j \in new.inserts <=> j \in acc.inserts
      /\ acc.now[i] = I!NoInvoice => i \in new.inserts /\ G[i] = next
      /\ acc.now[i] # I!NoInvoice => new.inserts = acc.inserts /\ G = F
  <2> HIDE DEF i, next
  <2> QED
    BY <1>1, <1>2
<1> HIDE DEF new, G
<1>10. ASSUME NEW j \in Bills
       PROVE  IF Before(s, j, k) THEN new.now[j] \in I!Values /\ new.now[j].credit_days = days
              ELSE new.now[j] = value[j] /\ j \notin new.inserts
  <2>1. CASE j = i
    BY <2>1, <1>1, <1>5, <1>9
  <2>2. CASE j # i
    BY <2>2, <1>5, <1>9 DEF Explains
  <2> QED
    BY <2>1, <2>2
<1>11. ASSUME NEW j \in Bills
       PROVE  IF j \in new.inserts
              THEN value[j] = I!NoInvoice /\ \E m \in 1 .. k : FirstAt(s, j, m) /\ G[j] = I!Value(Told[s][m], days)
              ELSE G[j] = first[j]
  <2>1. CASE j = i /\ acc.now[i] = I!NoInvoice
    <3>1. ~Before(s, i, k - 1)
      BY <1>1, <2>1, NoInvoiceIsNone DEF Explains
    <3>2. value[i] = I!NoInvoice
      BY <1>1, <2>1, <3>1 DEF Explains
    <3>3. FirstAt(s, i, k)
      BY <1>1, <3>1 DEF FirstAt, Before
    <3>4. k \in 1 .. k
      BY <1>1
    <3> QED
      BY <1>9, <2>1, <3>2, <3>3, <3>4
  <2>2. CASE ~(j = i /\ acc.now[i] = I!NoInvoice)
    <3>1. (j \in new.inserts <=> j \in acc.inserts) /\ G[j] = F[j]
      BY <2>2, <1>9
    <3>2. 1 .. k - 1 \subseteq 1 .. k
      BY <1>1
    <3> QED
      BY <3>1, <3>2 DEF Explains
  <2> QED
    BY <2>1, <2>2
<1>12. Explains(new, s, days, k, G)
  BY <1>7, <1>8, <1>10, <1>11 DEF Explains
<1> QED
  BY <1>3, <1>4, <1>12

LEMMA FileExplains ==
  ASSUME FileParameters, Tables, NEW s \in DOMAIN Told, NEW days \in Terms
  PROVE  /\ I!Prepared(s, days) \in Accrued
         /\ \E G : Explains(I!Prepared(s, days), s, days, Len(Told[s]), G)
<1>1. value \in [Bills -> Valued]
  BY DEF Tables
<1>2. PICK F : Follows(F, s, days) /\ F[Len(Told[s])] = I!Prepared(s, days)
  BY <1>1, PreparedFollows
<1> DEFINE n == Len(Told[s])
           N == {k \in 0 .. n : F[k] \in Accrued /\ \E G : Explains(F[k], s, days, k, G)}
<1>3. n \in Nat
  BY RowIs
<1>4. 0 \in N
  BY <1>2, <1>3, NothingExplains DEF Follows
<1>5. ASSUME NEW k \in 1 .. n, k - 1 \in N PROVE k \in N
  <2>1. F[k] = I!WithRow(s, days, F[k - 1], Told[s][k])
    BY <1>2 DEF Follows
  <2>2. PICK G : Explains(F[k - 1], s, days, k - 1, G)
    BY <1>5
  <2>3. F[k - 1] \in Accrued /\ k \in 0 .. n
    BY <1>3, <1>5
  <2> QED
    BY <2>1, <2>2, <2>3, RowExplains
<1>6. n \in N
  <2>1. 0 .. n \subseteq N
    <3> HIDE DEF N, n
    <3> QED
      BY <1>3, <1>4, <1>5, AllReached
  <2> QED
    BY <1>3, <2>1
<1> QED
  BY <1>2, <1>6

-----------------------------------------------------------------------------

\* A publish in flight writes what explains itself, and nothing runs beside it.
Ready(q) ==
  /\ q \in I!Publishing
  /\ \E days \in Terms : \E F : Explains(q, q.snapshot, days, Len(Told[q.snapshot]), F)

ToldInv ==
  /\ Tables
  /\ told \subseteq DOMAIN Told /\ acks \subseteq [user : Analysts, changes : SUBSET Nat]
  /\ changeReq = [r \in Reqs |-> changeReq[r]]
  /\ \A r \in Reqs : changeReq[r] \in {I!Idle} \cup I!Acknowledging \/ Ready(changeReq[r])
  /\ \A r, k \in Reqs : changeReq[r].pc = "publish" /\ k # r => changeReq[k] = I!Idle

LEMMA ReadyStays ==
  ASSUME NEW CONSTANT q, Ready(q), value' = value, first' = first, history' = history
  PROVE  Ready(q)'
<1>1. PICK days \in Terms : \E F : Explains(q, q.snapshot, days, Len(Told[q.snapshot]), F)
  BY DEF Ready
<1>2. PICK F : Explains(q, q.snapshot, days, Len(Told[q.snapshot]), F)
  BY <1>1
<1>3. Explains(q, q.snapshot, days, Len(Told[q.snapshot]), F)'
  BY <1>2 DEF Explains
<1> QED
  BY <1>3 DEF Ready

LEMMA ChosenRow ==
  ASSUME FileParameters, NEW s \in DOMAIN Told, NEW i, NEW k, FirstAt(s, i, k)
  PROVE  I!FirstRow(s, i) = k
<1> DEFINE N == {j \in 1 .. Len(Told[s]) : Told[s][j].invoice = i}
<1>1. k \in N /\ N \subseteq Nat /\ Len(Told[s]) \in Nat /\ k \in Nat
  BY RowIs DEF FirstAt
<1>2. \A j \in N : k =< j
  <2> SUFFICES ASSUME NEW j \in N, j < k PROVE FALSE
    BY <1>1
  <2>1. j \in 1 .. k - 1
    BY <1>1
  <2> QED
    BY <2>1 DEF FirstAt
<1>3. I!FirstRow(s, i) = I!Min(N)
  BY <1>1 DEF I!FirstRow, I!SelectInSeq
<1>4. I!Min(N) \in N /\ \A j \in N : I!Min(N) =< j
  <2> HIDE DEF N
  <2>1. \E x \in N : \A y \in N : x =< y
    BY <1>1, <1>2
  <2> QED
    BY <2>1 DEF I!Min
<1>5. I!Min(N) =< k /\ k =< I!Min(N) /\ I!Min(N) \in Nat
  BY <1>1, <1>2, <1>4
<1> HIDE DEF N
<1>6. I!Min(N) = k
  BY <1>5, <1>1
<1> QED
  BY <1>3, <1>6

LEMMA ReadTold ==
  ASSUME FileParameters, ToldInv, NEW r \in Reqs, \A k \in Reqs : changeReq[k] = I!Idle,
         NEW s \in DOMAIN Told, I!PublishRead(r, s)
  PROVE  ToldInv'
<1>1. PICK days \in Terms :
        I!Goto(r, [pc |-> "publish", snapshot |-> s, now |-> I!Prepared(s, days).now,
                   inserts |-> I!Prepared(s, days).inserts, deltas |-> I!Prepared(s, days).deltas])
  BY DEF I!PublishRead
<1>2. value' = value /\ history' = history /\ first' = first
  BY DEF I!PublishRead
<1>3. PICK p \in Accrued : p = I!Prepared(s, days) /\ \E G : Explains(p, s, days, Len(Told[s]), G)
  BY FileExplains DEF ToldInv
<1>4. PICK q : q = [pc |-> "publish", snapshot |-> s, now |-> p.now, inserts |-> p.inserts, deltas |-> p.deltas]
  OBVIOUS
<1>5. changeReq' = [k \in Reqs |-> changeReq'[k]] /\ changeReq'[r] = q /\ \A k \in Reqs : k # r => changeReq'[k] = I!Idle
  BY <1>1, <1>3, <1>4 DEF I!Goto, ToldInv
<1>6. q \in I!Publishing
  BY <1>4 DEF Accrued, Valued, I!Publishing
<1>7. Ready(q)
  <2>1. PICK G : Explains(p, s, days, Len(Told[s]), G)
    BY <1>3
  <2>2. q.now = p.now /\ q.inserts = p.inserts /\ q.deltas = p.deltas /\ q.snapshot = s
    BY <1>4
  <2>3. Explains(q, s, days, Len(Told[s]), G)
    BY <2>1, <2>2 DEF Explains
  <2> QED
    BY <1>6, <2>2, <2>3 DEF Ready
<1>8. Ready(q)'
  BY <1>2, <1>7, ReadyStays
<1>9. Tables'
  BY <1>2 DEF ToldInv, Tables
<1>10. told' = told /\ acks' = acks
  BY DEF I!PublishRead
<1> QED
  BY <1>5, <1>8, <1>9, <1>10 DEF ToldInv, I!Idle

LEMMA WriteTold ==
  ASSUME FileParameters, ToldInv, NEW r \in Reqs, I!PublishWrite(r)
  PROVE  ToldInv'
<1>1. PICK q : q = changeReq[r] /\ q.pc = "publish"
  BY DEF I!PublishWrite
<1>2. Ready(q)
  BY <1>1 DEF ToldInv, I!Idle, I!Acknowledging
<1>3. PICK s \in DOMAIN Told : s = q.snapshot
  BY <1>2 DEF Ready, I!Publishing
<1>4. PICK days \in Terms : \E F : Explains(q, s, days, Len(Told[s]), F)
  BY <1>2, <1>3 DEF Ready
<1>41. PICK F : Explains(q, s, days, Len(Told[s]), F)
  BY <1>4
<1>5. q.now \in [Bills -> Valued] /\ q.inserts \subseteq Bills /\ q.deltas \in Seq(I!Change)
  BY <1>2 DEF Ready, I!Publishing, Valued
<1>6. /\ changeReq' = [k \in Reqs |-> changeReq'[k]] /\ \A k \in Reqs : changeReq'[k] = I!Idle
      /\ told' \subseteq DOMAIN Told /\ acks' = acks
  BY <1>1, <1>3 DEF I!PublishWrite, I!Goto, ToldInv
<1>7. \A i \in q.inserts : value[i] = I!NoInvoice
  BY <1>41, <1>5 DEF Explains
<1> DEFINE past == {Told[s][k].invoice : k \in DOMAIN Told[s]}
<1>8. /\ value' = [i \in Bills |-> IF i \in past THEN q.now[i] ELSE value[i]]
      /\ history' = history \o q.deltas
      /\ first' = [i \in Bills |->
           IF i \in q.inserts
           THEN I!Value(Told[s][I!FirstRow(s, i)], q.now[i].credit_days)
           ELSE first[i]]
  BY <1>1, <1>3, <1>7 DEF I!PublishWrite
<1>9. value' = q.now
  <2>1. ASSUME NEW i \in Bills PROVE value'[i] = q.now[i]
    <3>1. CASE i \in past
      BY <3>1, <1>8
    <3>2. CASE i \notin past
      <4>1. ~Before(s, i, Len(Told[s]))
        BY <3>2, RowIs DEF Before
      <4> QED
        BY <3>2, <4>1, <1>4, <1>8 DEF Explains
    <3> QED
      BY <3>1, <3>2
  <2>2. value' = [i \in Bills |-> value'[i]]
    BY <1>8
  <2> HIDE DEF past
  <2> QED
    BY <2>1, <2>2, <1>5
<1>10. first' = F
  <2>1. ASSUME NEW i \in Bills, i \in q.inserts PROVE first'[i] = F[i]
    <3>1. PICK k \in 1 .. Len(Told[s]) : FirstAt(s, i, k) /\ F[i] = I!Value(Told[s][k], days)
      BY <1>41, <2>1 DEF Explains
    <3>2. Before(s, i, Len(Told[s])) /\ q.now[i].credit_days = days
      BY <1>41, <2>1 DEF Explains
    <3>3. I!FirstRow(s, i) = k
      BY <3>1, ChosenRow
    <3> QED
      BY <1>8, <2>1, <3>1, <3>2, <3>3
  <2>2. ASSUME NEW i \in Bills, i \notin q.inserts PROVE first'[i] = F[i]
    BY <1>41, <1>8, <2>2 DEF Explains
  <2>3. first' = [i \in Bills |-> first'[i]] /\ F \in [Bills -> Valued]
    BY <1>41, <1>8 DEF Explains
  <2> QED
    BY <2>1, <2>2, <2>3
<1>11. /\ Tells(history \o q.deltas, q.now, F) /\ Known(history \o q.deltas, q.now)
       /\ F \in [Bills -> Valued]
  BY <1>41 DEF Explains
<1>12. history \in Seq(I!Change) /\ history \o q.deltas \in Seq(I!Change)
  BY <1>5, Appended DEF ToldInv, Tables
<1>13. Tables'
  BY <1>5, <1>8, <1>9, <1>10, <1>11, <1>12 DEF Tables
<1> QED
  BY <1>6, <1>13 DEF ToldInv, I!Idle

\* The changes signed lead where they did.
LEMMA SignedLead ==
  ASSUME NEW H, H \in Seq(I!Change), NEW G, DOMAIN G = DOMAIN H,
         \A k \in DOMAIN H : /\ G[k].invoice = H[k].invoice /\ G[k].field = H[k].field
                             /\ G[k].before = H[k].before /\ G[k].after = H[k].after,
         NEW V, NEW F, Tells(H, V, F), Known(H, V)
  PROVE  Tells(G, V, F) /\ Known(G, V)
<1>1. ASSUME NEW i \in Bills, V[i] # I!NoInvoice, NEW f \in I!Fields PROVE Leads(G, V[i][f], F, i, f)
  <2>1. Own(G, i, f) = Own(H, i, f) /\ Own(H, i, f) \subseteq DOMAIN H
    BY DEF Own
  <2>2. ASSUME NEW N \in SUBSET DOMAIN H PROVE After(G, F, i, f, N) = After(H, F, i, f, N)
    <3>1. N # {} => I!Max(N) \in DOMAIN H
      BY ChangeIs, MaxIn
    <3> QED
      BY <3>1 DEF After
  <2>3. \A k \in Own(H, i, f) : {j \in Own(H, i, f) : j < k} \in SUBSET DOMAIN H
    BY <2>1
  <2>4. Leads(H, V[i][f], F, i, f)
    BY <1>1 DEF Tells
  <2> QED
    BY <2>1, <2>2, <2>3, <2>4 DEF Leads
<1> QED
  BY <1>1 DEF Tells, Known

LEMMA AckReadTold ==
  ASSUME ToldInv, NEW r \in Reqs, NEW u \in Analysts, I!AckRead(r, u),
         \A k \in Reqs : changeReq[k].pc # "publish"
  PROVE  ToldInv'
<1>1. PICK eligible : /\ eligible \subseteq DOMAIN history
                      /\ I!Goto(r, [pc |-> "acknowledge", user |-> u, eligible |-> eligible])
  BY DEF I!AckRead
<1>2. PICK q : q = [pc |-> "acknowledge", user |-> u, eligible |-> eligible]
  OBVIOUS
<1>3. q \in I!Acknowledging
  <2>1. DOMAIN history \subseteq Nat
    BY ChangeIs DEF ToldInv, Tables
  <2> QED
    BY <1>1, <1>2, <2>1 DEF I!Acknowledging
<1>4. changeReq' = [k \in Reqs |-> changeReq'[k]] /\ changeReq'[r] = q /\ \A k \in Reqs : k # r => changeReq'[k] = changeReq[k]
  BY <1>1, <1>2 DEF I!Goto, ToldInv
<1>5. \A k \in Reqs : changeReq'[k] \in {I!Idle} \cup I!Acknowledging /\ changeReq'[k].pc # "publish"
  BY <1>3, <1>4 DEF ToldInv, Ready, I!Publishing, I!Acknowledging, I!Idle
<1>6. /\ value' = value /\ first' = first /\ history' = history
      /\ told' = told /\ acks' = acks
  BY DEF I!AckRead
<1>7. Tables'
  BY <1>6 DEF ToldInv, Tables
<1> QED
  BY <1>4, <1>5, <1>6, <1>7 DEF ToldInv

LEMMA SignTold == ASSUME ToldInv, NEW r \in Reqs, I!AckCommit(r) PROVE ToldInv'
<1>1. PICK q \in I!Acknowledging : q = changeReq[r]
  BY DEF I!AckCommit, ToldInv, Ready, I!Publishing, I!Idle
<1>2. q.user \in Analysts /\ q.eligible \in SUBSET Nat /\ q.pc = "acknowledge"
  BY DEF I!Acknowledging
<1> DEFINE signed(c) == IF c \in I!Signs(r) THEN [history[c] EXCEPT !.by = q.user] ELSE history[c]
<1>3. history' = [c \in DOMAIN history |-> signed(c)] /\ value' = value /\ first' = first /\ told' = told
  BY <1>1 DEF I!AckCommit
<1>4. \A c \in DOMAIN history : history[c] \in I!Change
  BY ChangeIs DEF ToldInv, Tables
<1>5. ASSUME NEW c \in DOMAIN history
      PROVE  /\ history'[c] \in I!Change
             /\ history'[c].invoice = history[c].invoice /\ history'[c].field = history[c].field
             /\ history'[c].before = history[c].before /\ history'[c].after = history[c].after
  BY <1>2, <1>3, <1>4 DEF I!Change
<1>6. history' \in Seq(I!Change) /\ DOMAIN history' = DOMAIN history
  <2>1. DOMAIN history = 1 .. Len(history) /\ Len(history) \in Nat
    BY ChangeIs DEF ToldInv, Tables
  <2> HIDE DEF signed
  <2>2. history' \in [1 .. Len(history) -> I!Change]
    BY <1>3, <1>5, <2>1
  <2> QED
    BY <1>3, <2>1, <2>2, SeqDef
<1>7. Tables'
  <2>1. PICK G : G = history'
    OBVIOUS
  <2>2. Tells(G, value, first) /\ Known(G, value)
    BY <1>5, <1>6, <2>1, SignedLead DEF ToldInv, Tables
  <2> QED
    BY <1>3, <1>6, <2>1, <2>2 DEF ToldInv, Tables
<1>8. /\ changeReq' = [k \in Reqs |-> changeReq'[k]] /\ changeReq'[r] = I!Idle
      /\ \A k \in Reqs : k # r => changeReq'[k] = changeReq[k]
  BY DEF I!AckCommit, I!Goto, ToldInv
<1>9. acks' \subseteq [user : Analysts, changes : SUBSET Nat]
  BY <1>1, <1>2 DEF I!AckCommit, ToldInv
<1>10. \A k \in Reqs : changeReq[k].pc # "publish"
  BY <1>1, <1>2 DEF ToldInv, I!Idle
<1>11. \A k \in Reqs : changeReq'[k] \in {I!Idle} \cup I!Acknowledging /\ changeReq'[k].pc # "publish"
  BY <1>8, <1>10 DEF ToldInv, Ready, I!Publishing, I!Idle
<1> QED
  BY <1>3, <1>7, <1>8, <1>9, <1>11 DEF ToldInv

LEMMA ToldStands == ASSUME ToldInv, UNCHANGED changeVars PROVE ToldInv'
<1>1. /\ value' = value /\ first' = first /\ history' = history /\ changeReq' = changeReq
      /\ told' = told /\ acks' = acks
  BY DEF changeVars
<1>2. Tables'
  BY <1>1 DEF ToldInv, Tables
<1>3. ASSUME NEW r \in Reqs
      PROVE  changeReq'[r] \in {I!Idle} \cup I!Acknowledging \/ Ready(changeReq[r])'
  <2>1. PICK q : q = changeReq[r]
    OBVIOUS
  <2>2. Ready(q) => Ready(q)'
    BY <1>1, ReadyStays
  <2> QED
    BY <1>1, <2>1, <2>2 DEF ToldInv
<1> QED
  BY <1>1, <1>2, <1>3 DEF ToldInv

LEMMA ToldInit == ASSUME MCInit PROVE ToldInv
<1>1. \A i \in Bills : value[i] = I!NoInvoice
  BY DEF MCInit, I!Init
<1>2. history = <<>> /\ history \in Seq(I!Change) /\ \A k \in DOMAIN history : FALSE
  BY DEF MCInit, I!Init
<1>3. value \in [Bills -> Valued] /\ first \in [Bills -> Valued]
  BY DEF MCInit, I!Init, Valued
<1>4. Tables
  BY <1>1, <1>2, <1>3 DEF Tables, Tells, Known
<1>5. changeReq = [r \in Reqs |-> I!Idle] /\ told = {} /\ acks = {}
  BY DEF MCInit, I!Init
<1>6. \A r \in Reqs : changeReq[r] = I!Idle /\ changeReq[r].pc # "publish"
  BY <1>5 DEF I!Idle
<1>7. changeReq = [r \in Reqs |-> changeReq[r]]
  BY <1>5
<1> QED
  BY <1>4, <1>5, <1>6, <1>7 DEF ToldInv

\* In both circumstances of the histories; AckInv is that nothing is acknowledged before
\* the publish is over.
HistoryInv ==
  which \in {"publishes", "acknowledgements"} =>
    ToldInv /\ (which = "acknowledgements" => AckInv)

LEMMA HistoryInit == ASSUME MCInit PROVE HistoryInv
  BY ToldInit DEF HistoryInv, AckInv, MCInit, I!Init

LEMMA HistoryStep ==
  ASSUME FileParameters, HistoryInv,
         [MCNext]_<<which, pullVars, sheetVars, changeVars, mappingVars, vars, snapVars>>
  PROVE  HistoryInv'
<1> SUFFICES ASSUME which \in {"publishes", "acknowledgements"} PROVE HistoryInv'
  BY DEF MCNext, HistoryInv
<1>1. which' = which /\ ToldInv /\ [Changes]_changeVars
  BY DEF MCNext, HistoryInv
<1>2. CASE which = "publishes"
  <2>1. CASE Changes
    BY <1>1, <1>2, <2>1, ReadTold, WriteTold DEF Changes, HistoryInv
  <2> QED
    BY <1>1, <1>2, <2>1, ToldStands DEF HistoryInv
<1>3. CASE which = "acknowledgements"
  <2>1. AckInv /\ AckInv'
    BY <1>1, <1>3, AckStep DEF HistoryInv
  <2>2. ASSUME NEW r \in Reqs, NEW u \in Analysts, I!AckRead(r, u)
        PROVE  \A k \in Reqs : changeReq[k].pc # "publish"
    BY <2>1, <2>2 DEF I!AckRead, AckInv
  <2>3. CASE Changes
    <3>1. Acked \in DOMAIN Told
      BY DEF FileParameters
    <3> QED
      BY <1>1, <1>3, <2>1, <2>2, <2>3, <3>1, ReadTold, WriteTold, AckReadTold, SignTold
         DEF Changes, HistoryInv
  <2> QED
    BY <1>1, <1>3, <2>1, <2>3, ToldStands DEF HistoryInv
<1> QED
  BY <1>2, <1>3

\* Publishes that do not overlap explain every value they changed (diffInvoice): the
\* changes of each field of an invoice lead from the value it was created with to the one
\* it has, whatever the files and however often they name an invoice.
THEOREM HistoryExplains == ASSUME FileParameters PROVE MCSpec => []ChangesExplain
<1>1. HistoryInv => ChangesExplain
  BY ExplainedIs DEF HistoryInv, ChangesExplain, ToldInv, Tables
<1> QED
  BY <1>1, HistoryInit, HistoryStep, PTL DEF MCSpec

-----------------------------------------------------------------------------
(* Types *)

LEMMA HistoryTyped == ASSUME ToldInv PROVE I!TypeOK
<1>1. \A r \in Reqs : changeReq[r] \in {I!Idle} \cup I!Publishing \cup I!Acknowledging
  BY DEF ToldInv, Ready
<1>2. changeReq \in [Reqs -> {I!Idle} \cup I!Publishing \cup I!Acknowledging]
  <2>1. changeReq = [r \in Reqs |-> changeReq[r]]
    BY DEF ToldInv
  <2> QED
    BY <1>1, <2>1
<1> QED
  BY <1>2 DEF ToldInv, Tables, Valued, I!TypeOK

-----------------------------------------------------------------------------
(* Types: rows of workbooks *)

LEMMA SheetTypes ==
  ASSUME W!TypeOK,
         [MCNext]_<<which, pullVars, sheetVars, changeVars, mappingVars, vars, snapVars>>
  PROVE  W!TypeOK'
<1>1. CASE Sheets
  <2>1. PICK row \in W!Ledger \cup W!Master : rows' = Append(rows, row)
    BY <1>1 DEF Sheets, W!Next, W!WriteRow
  <2>2. rows \in Seq(W!Ledger \cup W!Master)
    BY DEF W!TypeOK
  <2>3. rows' \in Seq(W!Ledger \cup W!Master)
    BY <2>1, <2>2, AppendProperties
  <2>4. wrote' = wrote /\ hint' = hint /\ sheets' = sheets
    BY <1>1 DEF Sheets, W!Next, W!WriteRow
  <2> QED
    BY <2>3, <2>4 DEF W!TypeOK
<1>2. CASE UNCHANGED sheetVars
  BY <1>2 DEF sheetVars, W!TypeOK
<1> QED
  BY <1>1, <1>2 DEF MCNext

LEMMA SheetInit == ASSUME MCInit PROVE W!TypeOK
<1>1. rows \in Seq(W!Ledger \cup W!Master)
  <2>1. rows = <<>>
    BY Zenon DEF MCInit, W!Init
  <2> QED
    BY <2>1
<1>2. wrote \in W!Sources /\ hint \in W!Sources \cup {W!None}
  <2>1. CASE which = "sheets"
    <3>1. wrote \in W!Sources /\ hint \in {wrote, W!None, "TALLY"}
      <4>1. W!Init
        BY <2>1 DEF MCInit
      <4> QED
        BY <4>1, Zenon DEF W!Init
    <3> QED
      BY <3>1 DEF W!Sources
  <2>2. CASE which # "sheets"
    <3>1. wrote = "TALLY" /\ hint = "TALLY"
      BY <2>2, Zenon DEF MCInit
    <3> QED
      BY <3>1 DEF W!Sources
  <2> QED
    BY <2>1, <2>2
<1>3. sheets \subseteq UNION {W!SheetsOf(s) : s \in W!Sources}
  <2>1. {"UAE"} \subseteq W!SheetsOf("CREDIT_PERIOD") /\ {"Sundry Debtors"} \subseteq W!SheetsOf("TALLY")
    BY DEF W!SheetsOf
  <2>2. "CREDIT_PERIOD" \in W!Sources /\ "TALLY" \in W!Sources
    BY DEF W!Sources
  <2>3. sheets \subseteq W!SheetsOf(wrote) \cup {"UAE", "Sundry Debtors"} \/ sheets = W!SheetsOf("TALLY")
    BY DEF MCInit, W!Init
  <2> QED
    BY <1>2, <2>1, <2>2, <2>3
<1> QED
  BY <1>1, <1>2, <1>3 DEF W!TypeOK

-----------------------------------------------------------------------------
(* Sums over finite sets *)

\* A set that has every subset of which it has all those with one element less (the empty
\* one among them) has all.
LEMMA AllFinite ==
  ASSUME NEW T, IsFiniteSet(T), NEW N,
         \A U \in SUBSET T : (\A x \in U : U \ {x} \in N) => U \in N
  PROVE  SUBSET T \subseteq N
<1> DEFINE Others == (SUBSET T) \ N
<1> SUFFICES ASSUME Others # {} PROVE FALSE
  OBVIOUS
<1>1. Others \subseteq FiniteSubsetsOf(T)
  <2>1. \A U \in SUBSET T : IsFiniteSet(U)
    BY FS_Subset
  <2> QED
    BY <2>1 DEF FiniteSubsetsOf
<1>2. PICK least \in Others : \A U \in Others : <<U, least>> \notin StrictSubsetOrdering(T)
  <2> HIDE DEF Others
  <2> QED
    BY <1>1, FS_StrictSubsetOrderingWellFounded, WFMin
<1>3. ASSUME NEW x \in least PROVE least \ {x} \in N
  <2>1. <<least \ {x}, least>> \in StrictSubsetOrdering(T)
    BY <1>2 DEF StrictSubsetOrdering
  <2> QED
    BY <1>2, <2>1
<1>4. least \in SUBSET T /\ least \notin N
  BY <1>2
<1> HIDE DEF Others
<1>5. least \in N
  BY <1>3, <1>4
<1> QED
  BY <1>4, <1>5

\* The same, where an element to leave out can be chosen.
LEMMA AllFiniteBy ==
  ASSUME NEW T, IsFiniteSet(T), NEW N, {} \in N,
         \A U \in SUBSET T : \A x \in U : U \ {x} \in N => U \in N
  PROVE  SUBSET T \subseteq N
<1>1. ASSUME NEW U \in SUBSET T, \A x \in U : U \ {x} \in N PROVE U \in N
  <2>1. CASE U = {}
    BY <2>1
  <2>2. CASE U # {}
    BY <1>1, <2>2
  <2> QED
    BY <2>1, <2>2
<1> QED
  BY <1>1, AllFinite

\* g sums the numbers of F over each subset of T.
SumsOver(g, T, F) ==
  /\ g \in [SUBSET T -> Int] /\ g[{}] = 0
  /\ \A U \in SUBSET T : \A x \in U : g[U] = F[x] + g[U \ {x}]

LEMMA SumsExist ==
  ASSUME NEW T, IsFiniteSet(T), NEW F \in [T -> Int]
  PROVE  \E g : SumsOver(g, T, F)
<1> DEFINE N == {U \in SUBSET T : \E g : SumsOver(g, U, F)}
<1>1. {} \in N
  <2> DEFINE g == [U \in SUBSET {} |-> 0]
  <2>1. SumsOver(g, {}, F)
    BY DEF SumsOver
  <2> HIDE DEF g
  <2> QED
    BY <2>1
<1>2. ASSUME NEW U \in SUBSET T, NEW x \in U, U \ {x} \in N PROVE U \in N
  <2>1. PICK f : SumsOver(f, U \ {x}, F)
    BY <1>2
  <2> DEFINE g == [V \in SUBSET U |-> IF x \in V THEN F[x] + f[V \ {x}] ELSE f[V]]
  <2>2. f \in [SUBSET (U \ {x}) -> Int] /\ \A y \in U : F[y] \in Int
    BY <2>1 DEF SumsOver
  <2>3. \A V \in SUBSET U : V \ {x} \in SUBSET (U \ {x}) /\ (x \notin V => V \in SUBSET (U \ {x}))
    OBVIOUS
  <2>4. ASSUME NEW V \in SUBSET U
        PROVE  g[V] \in Int /\ g[V] = IF x \in V THEN F[x] + f[V \ {x}] ELSE f[V]
    BY <2>2, <2>3
  <2>5. g \in [SUBSET U -> Int] /\ g[{}] = 0
    <3>1. g[{}] = f[{}] /\ f[{}] = 0
      BY <2>1 DEF SumsOver
    <3>2. \A V \in SUBSET U : g[V] \in Int
      BY <2>4
    <3>3. g = [V \in SUBSET U |-> g[V]]
      OBVIOUS
    <3> HIDE DEF g
    <3> QED
      BY <3>1, <3>2, <3>3
  <2>6. ASSUME NEW V \in SUBSET U, NEW y \in V PROVE g[V] = F[y] + g[V \ {y}]
    <3>1. CASE y = x
      <4>1. g[V \ {x}] = f[V \ {x}]
        BY <2>4
      <4> QED
        BY <3>1, <4>1, <2>4
    <3>2. CASE y # x /\ x \notin V
      <4>1. V \in SUBSET (U \ {x}) /\ f[V] = F[y] + f[V \ {y}]
        BY <3>2, <2>1, <2>3 DEF SumsOver
      <4>2. g[V] = f[V] /\ g[V \ {y}] = f[V \ {y}]
        BY <3>2, <2>4
      <4> QED
        BY <4>1, <4>2
    <3>3. CASE y # x /\ x \in V
      <4>1. V \ {x} \in SUBSET (U \ {x}) /\ y \in V \ {x}
        BY <3>3
      <4>2. f[V \ {x}] = F[y] + f[(V \ {x}) \ {y}]
        BY <4>1, <2>1 DEF SumsOver
      <4>3. (V \ {x}) \ {y} = (V \ {y}) \ {x} /\ x \in V \ {y} /\ V \ {y} \in SUBSET U
        BY <3>3
      <4>4. g[V] = F[x] + f[V \ {x}] /\ g[V \ {y}] = F[x] + f[(V \ {y}) \ {x}]
        BY <3>3, <4>3, <2>4
      <4>5. F[x] \in Int /\ F[y] \in Int /\ f[(V \ {y}) \ {x}] \in Int
        BY <2>2, <2>3, <4>3
      <4> HIDE DEF g
      <4>6. g[V] = F[x] + (F[y] + f[(V \ {y}) \ {x}])
        BY <4>2, <4>3, <4>4
      <4> QED
        BY <4>4, <4>5, <4>6
    <3> QED
      BY <3>1, <3>2, <3>3
  <2> HIDE DEF g
  <2>7. SumsOver(g, U, F)
    BY <2>5, <2>6 DEF SumsOver
  <2> QED
    BY <2>7
<1>3. T \in N
  <2> HIDE DEF N
  <2> QED
    BY <1>1, <1>2, AllFiniteBy
<1> QED
  BY <1>3

Splits(g, T) ==
  \A U \in SUBSET T : \A V \in SUBSET T : U \cap V = {} => g[U \cup V] = g[U] + g[V]

LEMMA SumSplits ==
  ASSUME NEW T, IsFiniteSet(T), NEW F \in [T -> Int], NEW g, SumsOver(g, T, F)
  PROVE  Splits(g, T)
<1> SUFFICES ASSUME NEW U \in SUBSET T, NEW V \in SUBSET T, U \cap V = {}
             PROVE  g[U \cup V] = g[U] + g[V]
  BY DEF Splits
<1> DEFINE N == {D \in SUBSET V : g[U \cup D] = g[U] + g[D]}
<1>0. g \in [SUBSET T -> Int] /\ g[{}] = 0 /\ \A x \in T : F[x] \in Int
  BY DEF SumsOver
<1>1. {} \in N
  BY <1>0
<1>2. ASSUME NEW D \in SUBSET V, NEW x \in D, D \ {x} \in N PROVE D \in N
  <2>1. g[D] = F[x] + g[D \ {x}] /\ g[U \cup D] = F[x] + g[(U \cup D) \ {x}]
    BY DEF SumsOver
  <2>2. (U \cup D) \ {x} = U \cup (D \ {x})
    OBVIOUS
  <2>3. g[U \cup (D \ {x})] = g[U] + g[D \ {x}]
    BY <1>2
  <2>4. g[U] \in Int /\ g[D \ {x}] \in Int /\ F[x] \in Int
    <3>1. D \ {x} \in SUBSET T /\ x \in T
      OBVIOUS
    <3> QED
      BY <1>0, <3>1
  <2>5. g[U \cup D] = F[x] + (g[U] + g[D \ {x}])
    BY <2>1, <2>2, <2>3
  <2>6. g[U \cup D] = g[U] + g[D]
    BY <2>1, <2>4, <2>5
  <2> QED
    BY <2>6
<1>3. IsFiniteSet(V)
  BY FS_Subset
<1>4. V \in N
  <2> HIDE DEF N
  <2> QED
    BY <1>1, <1>2, <1>3, AllFiniteBy
<1> QED
  BY <1>4

\* How the fold of MapThenSumSet goes over the subsets of D.
Adds(h, D, F) ==
  h = [s \in SUBSET D |-> IF s = {} THEN 0
         ELSE F[CHOOSE x \in s : TRUE] + h[s \ {CHOOSE x \in s : TRUE}]]

AddsUpTo(D, F, v) == (\E h : Adds(h, D, F)) /\ \A h : Adds(h, D, F) => h[D] = v

LEMMA AddsIs ==
  ASSUME NEW T, IsFiniteSet(T), NEW F, NEW g, SumsOver(g, T, F),
         NEW D \in SUBSET T
  PROVE  AddsUpTo(D, F, g[D])
<1>1. ASSUME NEW s \in SUBSET D, s # {}
      PROVE  LET c == CHOOSE x \in s : TRUE IN
             c \in s /\ g[s] = F[c] + g[s \ {c}]
  <2>1. (CHOOSE x \in s : TRUE) \in s
    BY <1>1
  <2>2. s \in SUBSET T
    OBVIOUS
  <2> QED
    BY <2>1, <2>2 DEF SumsOver
<1>2. \E h : Adds(h, D, F)
  <2> DEFINE h == [s \in SUBSET D |-> g[s]]
  <2>1. ASSUME NEW s \in SUBSET D
        PROVE  h[s] = IF s = {} THEN 0
                      ELSE F[CHOOSE x \in s : TRUE] + h[s \ {CHOOSE x \in s : TRUE}]
    <3>1. CASE s = {}
      BY <3>1 DEF SumsOver
    <3>2. CASE s # {}
      BY <3>2, <1>1
    <3> QED
      BY <3>1, <3>2
  <2>2. h = [s \in SUBSET D |-> h[s]]
    OBVIOUS
  <2> HIDE DEF h
  <2>3. Adds(h, D, F)
    BY <2>1, <2>2 DEF Adds
  <2> QED
    BY <2>3
<1>3. ASSUME NEW h, Adds(h, D, F) PROVE h[D] = g[D]
  <2> DEFINE N == {s \in SUBSET D : h[s] = g[s]}
  <2>1. h[{}] = 0 /\ g[{}] = 0
    BY <1>3 DEF Adds, SumsOver
  <2>2. ASSUME NEW s \in SUBSET D, \A x \in s : s \ {x} \in N PROVE s \in N
    <3>1. CASE s = {}
      BY <2>1, <3>1
    <3>2. CASE s # {}
      <4> DEFINE c == CHOOSE x \in s : TRUE
      <4>1. c \in s /\ g[s] = F[c] + g[s \ {c}]
        BY <1>1, <3>2
      <4>2. h[s] = F[c] + h[s \ {c}]
        BY <1>3, <3>2 DEF Adds
      <4> HIDE DEF c
      <4>3. h[s \ {c}] = g[s \ {c}]
        BY <2>2, <4>1
      <4> QED
        BY <4>1, <4>2, <4>3
    <3> QED
      BY <3>1, <3>2
  <2>3. IsFiniteSet(D)
    BY FS_Subset
  <2>4. D \in N
    <3> HIDE DEF N
    <3> QED
      BY <2>2, <2>3, AllFinite
  <2> QED
    BY <2>4
<1> QED
  BY <1>2, <1>3 DEF AddsUpTo

-----------------------------------------------------------------------------
(* Workbooks: rows *)

Customers == {<<"Acme">>, <<"Total", "Oil">>}
Names == Customers \cup {<<>>}

\* A row of a statement of receivables, its total last.
Statement ==
  /\ rows \in Seq(W!Ledger)
  /\ \A k \in DOMAIN rows : rows[k].is = "total" => k = Len(rows)

LEMMA CustomersAre ==
  ASSUME NEW p \in Customers
  PROVE  /\ p # <<>> /\ Len(<<"Total">> \o p) > 1 /\ <<"Total">> \o p # <<>>
         /\ <<"Total">> \o p # <<"Total">> /\ Head(<<"Total">> \o p) = "Total"
<1>1. p \in Seq({"Acme", "Total", "Oil"}) /\ Len(p) \in Nat /\ Len(p) > 0
  <2>1. CASE p = <<"Acme">>
    BY <2>1
  <2>2. CASE p = <<"Total", "Oil">>
    BY <2>2
  <2> QED
    BY <2>1, <2>2 DEF Customers
<1>2. <<"Total">> \in Seq({"Acme", "Total", "Oil"}) /\ Len(<<"Total">>) = 1 /\ <<"Total">>[1] = "Total"
  OBVIOUS
<1> DEFINE s == <<"Total">> \o p
<1>3. /\ s \in Seq({"Acme", "Total", "Oil"}) /\ Len(s) = 1 + Len(p)
      /\ \A i \in 1 .. Len(s) : s[i] = IF i =< 1 THEN <<"Total">>[i] ELSE p[i - 1]
  <2> HIDE DEF s
  <2>1. /\ s \in Seq({"Acme", "Total", "Oil"}) /\ Len(s) = Len(<<"Total">>) + Len(p)
        /\ \A i \in 1 .. Len(<<"Total">>) + Len(p) :
             s[i] = IF i =< Len(<<"Total">>) THEN <<"Total">>[i] ELSE p[i - Len(<<"Total">>)]
    BY <1>1, <1>2, ConcatProperties DEF s
  <2> QED
    BY <1>1, <1>2, <2>1
<1> HIDE DEF s
<1>4. Len(s) > 1 /\ s[1] = "Total"
  BY <1>1, <1>2, <1>3
<1>5. s # <<>> /\ s # <<"Total">> /\ Head(s) = s[1]
  BY <1>3, <1>4
<1>6. p # <<>>
  BY <1>1
<1> QED
  BY <1>4, <1>5, <1>6 DEF s

LEMMA RowShape ==
  ASSUME NEW r \in W!Ledger
  PROVE  /\ r.is \in {"party", "invoice", "note", "undated", "blank", "subtotal", "total"}
         /\ r.amount \in Int
         /\ r.is \in {"party", "subtotal"} => r.name \in Customers
         /\ r.is \notin {"party", "subtotal"} => r.name = <<>>
         /\ r.is \in {"party", "note", "undated", "blank"} => r.amount = 0
         /\ r.is \in {"invoice", "subtotal", "total"} => r.amount # 0
<1>1. \A a \in RowAmounts : a \in Int /\ a # 0
  BY AmountsArePositive
<1> QED
  BY <1>1 DEF W!Ledger, W!NoAmount, W!NotANumber, Customers

LEMMA RowsAre ==
  ASSUME Statement
  PROVE  /\ Len(rows) \in Nat /\ DOMAIN rows = 1 .. Len(rows)
         /\ \A k \in 1 .. Len(rows) : rows[k] \in W!Ledger
  BY DEF Statement

\* The party that row k belongs to, the line it is reported as, and those of the first k.
RowTold(i) ==
  [row |-> i, party |-> W!Owner(i),
   status |-> IF rows[i].is = "invoice" /\ rows[i].amount > 0 THEN "OK" ELSE "PARSE_ERROR"]
Reported == {k \in DOMAIN rows : rows[k].is \in {"invoice", "note", "undated"}}
LinesTo(k) == {RowTold(i) : i \in {j \in Reported : j =< k}}

LEMMA OwnerIs ==
  ASSUME Statement, NEW k \in 1 .. Len(rows)
  PROVE  W!Owner(k) = IF rows[k].is = "party" THEN rows[k].name ELSE W!Owner(k - 1)
<1> DEFINE headers(m) == {j \in 1 .. m : rows[j].is = "party"}
<1>0. k \in Nat /\ k >= 1
  BY RowsAre
<1>1. CASE rows[k].is = "party"
  <2>1. headers(k) \in SUBSET Nat /\ k \in headers(k) /\ \A j \in headers(k) : j =< k
    BY <1>0, <1>1
  <2>2. I!Max(headers(k)) = k
    <3> HIDE DEF headers
    <3> QED
      BY <2>1, GreatestIs
  <2>3. W!Max(headers(k)) = I!Max(headers(k))
    BY DEF W!Max, I!Max
  <2> QED
    BY <1>1, <2>1, <2>2, <2>3 DEF W!Owner
<1>2. CASE rows[k].is # "party"
  <2>1. headers(k) = headers(k - 1)
    BY <1>0, <1>2
  <2> QED
    BY <1>2, <2>1 DEF W!Owner
<1> QED
  BY <1>1, <1>2

LEMMA LinesAdd ==
  ASSUME Statement, NEW k \in 1 .. Len(rows)
  PROVE  LinesTo(k) = IF k \in Reported THEN LinesTo(k - 1) \cup {RowTold(k)} ELSE LinesTo(k - 1)
<1>1. \A j \in DOMAIN rows : j \in Int /\ (j =< k <=> j =< k - 1 \/ j = k)
  BY RowsAre
<1>2. k \in DOMAIN rows /\ k \in Int
  BY RowsAre
<1>3. {j \in Reported : j =< k} =
        IF k \in Reported THEN {j \in Reported : j =< k - 1} \cup {k}
        ELSE {j \in Reported : j =< k - 1}
  BY <1>1, <1>2 DEF Reported
<1>4. CASE k \in Reported
  <2>1. {j \in Reported : j =< k} = {j \in Reported : j =< k - 1} \cup {k}
    BY <1>3, <1>4
  <2> QED
    BY <1>4, <2>1 DEF LinesTo
<1>5. CASE k \notin Reported
  BY <1>3, <1>5 DEF LinesTo
<1> QED
  BY <1>4, <1>5

LEMMA LinesAll ==
  ASSUME Statement
  PROVE  LinesTo(0) = {} /\ LinesTo(Len(rows)) = W!Meant
<1>1. \A j \in Reported : j \in Nat /\ j >= 1 /\ j =< Len(rows)
  BY RowsAre DEF Reported
<1>2. {j \in Reported : j =< 0} = {} /\ {j \in Reported : j =< Len(rows)} = Reported
  BY <1>1
<1> QED
  BY <1>2 DEF LinesTo, RowTold, Reported, W!Meant

-----------------------------------------------------------------------------
(* Workbooks: the parser of Tally *)

Subtotals == [Customers -> Int]
LineSet == [row : 1 .. Len(rows), party : Names, status : {"OK", "PARSE_ERROR"}]
Parse == [party : Names, out : SUBSET LineSet, subtotal : Subtotals, over : BOOLEAN]

\* What the cells of a row look like to either parser.
LEMMA LooksLike ==
  ASSUME Statement, NEW k \in 1 .. Len(rows)
  PROVE  /\ rows[k].is \in {"invoice", "note"} => W!C(k).date = "day"
         /\ rows[k].is = "undated" => W!C(k).date = W!Text
         /\ rows[k].is \in {"party", "blank", "subtotal", "total"} => W!C(k).date = W!None
         /\ W!C(k).ref <=> rows[k].is \in {"invoice", "undated"}
         /\ W!C(k).amount = rows[k].amount
         /\ rows[k].is = "party" => W!C(k).name = rows[k].name
         /\ rows[k].is \notin {"party", "subtotal", "total"} => W!C(k).name = <<>>
         /\ wrote = "TALLY" /\ rows[k].is # "party" => W!C(k).name = <<>>
         /\ wrote = "XERO" /\ rows[k].is = "subtotal" => W!C(k).name = <<"Total">> \o rows[k].name
         /\ wrote = "XERO" /\ rows[k].is = "total" => W!C(k).name = <<"Total">>
<1>1. rows[k] \in W!Ledger
  BY RowsAre
<1> USE DEF W!C, W!Cells
<1>2. rows[k].is \in {"party", "invoice", "note", "undated", "blank", "subtotal", "total"}
  BY <1>1, RowShape
<1>3. rows[k].is \in {"invoice", "note"} => W!C(k).date = "day"
  OBVIOUS
<1>4. rows[k].is = "undated" => W!C(k).date = W!Text
  OBVIOUS
<1>5. rows[k].is \in {"party", "blank", "subtotal", "total"} => W!C(k).date = W!None
  OBVIOUS
<1>6. W!C(k).ref <=> rows[k].is \in {"invoice", "undated"}
  OBVIOUS
<1>7. W!C(k).amount = rows[k].amount
  OBVIOUS
<1>8. rows[k].is = "party" => W!C(k).name = rows[k].name
  OBVIOUS
<1>9. rows[k].is \notin {"party", "subtotal", "total"} => W!C(k).name = <<>>
  OBVIOUS
<1>10. wrote = "TALLY" /\ rows[k].is # "party" => W!C(k).name = <<>>
  OBVIOUS
<1>11. wrote = "XERO" /\ rows[k].is = "subtotal" => W!C(k).name = <<"Total">> \o rows[k].name
  OBVIOUS
<1>12. wrote = "XERO" /\ rows[k].is = "total" => W!C(k).name = <<"Total">>
  OBVIOUS
<1> QED
  BY <1>3, <1>4, <1>5, <1>6, <1>7, <1>8, <1>9, <1>10, <1>11, <1>12, Zenon

LEMMA ReportIs ==
  ASSUME Statement, NEW k \in Reported, NEW s \in Parse, s.party = W!Owner(k)
  PROVE  W!Report(s, k) = [s EXCEPT !.out = @ \cup {RowTold(k)}]
<1>1. k \in 1 .. Len(rows)
  BY RowsAre DEF Reported
<1>2. W!Readable(W!C(k)) <=> rows[k].is = "invoice" /\ rows[k].amount > 0
  BY <1>1, LooksLike DEF Reported, W!Readable, W!IsInvoice, W!Text, W!None
<1>3. [row |-> k, party |-> s.party,
       status |-> IF W!Readable(W!C(k)) THEN "OK" ELSE "PARSE_ERROR"] = RowTold(k)
  BY <1>2 DEF RowTold
<1> QED
  BY <1>3 DEF W!Report

\* What a row does to what the parser knows.
TallySteps(s, k) ==
  LET is == rows[k].is IN
  /\ is = "party" => W!TallyRow(s, k) = [s EXCEPT !.party = rows[k].name]
  /\ is \in {"invoice", "note", "undated"} => W!TallyRow(s, k) = W!Report(s, k)
  /\ is = "blank" => W!TallyRow(s, k) = s
  /\ is \in {"subtotal", "total"} =>
       \/ W!TallyRow(s, k) = s
       \/ /\ s.party # <<>>
          /\ W!TallyRow(s, k) = [s EXCEPT !.subtotal[s.party] = rows[k].amount]

LEMMA GrandIsSum ==
  ASSUME Statement
  PROVE  W!GrandRow # 0 => W!GrandRow \in 1 .. Len(rows) /\ W!IsSum(W!C(W!GrandRow))
<1> SUFFICES ASSUME W!GrandRow # 0
             PROVE  W!GrandRow \in 1 .. Len(rows) /\ W!IsSum(W!C(W!GrandRow))
  OBVIOUS
<1>1. W!TallySums # {} /\ W!GrandRow = W!Max(W!TallySums)
  BY DEF W!GrandRow
<1>2. W!TallySums \in SUBSET (1 .. Len(rows)) /\ Len(rows) \in Nat
  BY RowsAre DEF W!TallySums
<1>3. I!Max(W!TallySums) \in W!TallySums
  BY <1>1, <1>2, MaxIn
<1>4. W!Max(W!TallySums) = I!Max(W!TallySums)
  BY DEF W!Max, I!Max
<1> QED
  BY <1>1, <1>2, <1>3, <1>4 DEF W!TallySums

LEMMA TallyRowIs ==
  ASSUME Statement, wrote = "TALLY", NEW k \in 1 .. Len(rows), NEW s
  PROVE  TallySteps(s, k)
<1> DEFINE c == W!C(k)
           is == rows[k].is
<1>0. k # 0
  BY RowsAre
<1>1. k = W!GrandRow => W!IsSum(c)
  BY <1>0, GrandIsSum
<1>2. /\ is \in {"party", "invoice", "note", "undated", "blank", "subtotal", "total"}
      /\ is = "party" => rows[k].name # <<>>
      /\ is \in {"invoice", "subtotal", "total"} => rows[k].amount # 0
      /\ is \in {"party", "note", "undated", "blank"} => rows[k].amount = 0
  BY RowsAre, RowShape, CustomersAre
<1>3. /\ is \in {"invoice", "note"} => c.date = "day"
      /\ is = "undated" => c.date = W!Text
      /\ is \in {"party", "blank", "subtotal", "total"} => c.date = W!None
      /\ c.ref <=> is \in {"invoice", "undated"}
      /\ c.amount = rows[k].amount
      /\ is = "party" => c.name = rows[k].name
      /\ is # "party" => c.name = <<>>
  BY LooksLike
<1> HIDE DEF c, is
<1> DEFINE blank == W!IsBlank(c)
           header == W!TallyHeader(c)
           sum == W!IsSum(c)
<1>4. W!TallyRow(s, k) =
        CASE k = W!GrandRow \/ blank -> s
          [] header -> [s EXCEPT !.party = c.name]
          [] sum /\ k # W!GrandRow ->
               IF s.party # <<>> /\ s.subtotal[s.party] = W!NoAmount
               THEN [s EXCEPT !.subtotal[s.party] = c.amount] ELSE s
          [] OTHER -> W!Report(s, k)
  BY DEF W!TallyRow, c
<1>5. /\ blank <=> is = "blank"
      /\ header <=> is = "party"
      /\ sum <=> is \in {"subtotal", "total"}
  BY <1>2, <1>3 DEF W!IsBlank, W!TallyHeader, W!IsSum, W!None, W!Text, W!NoAmount
<1>6. k = W!GrandRow => sum
  BY <1>1
<1> HIDE DEF blank, header, sum
<1>7. CASE is = "party"
  <2>1. W!TallyRow(s, k) = [s EXCEPT !.party = c.name]
    BY <1>4, <1>5, <1>6, <1>7
  <2> QED
    BY <1>3, <1>7, <2>1 DEF TallySteps, is
<1>8. CASE is \in {"invoice", "note", "undated"}
  <2>1. W!TallyRow(s, k) = W!Report(s, k)
    BY <1>4, <1>5, <1>6, <1>8
  <2> QED
    BY <1>8, <2>1 DEF TallySteps, is
<1>9. CASE is = "blank"
  <2>1. W!TallyRow(s, k) = s
    BY <1>4, <1>5, <1>6, <1>9
  <2> QED
    BY <1>9, <2>1 DEF TallySteps, is
<1>10. CASE is \in {"subtotal", "total"}
  <2>1. CASE k = W!GrandRow
    <3>1. W!TallyRow(s, k) = s
      BY <1>4, <1>5, <1>6, <1>10, <2>1
    <3> QED
      BY <1>10, <3>1 DEF TallySteps, is
  <2>2. CASE k # W!GrandRow
    <3>1. W!TallyRow(s, k) =
            IF s.party # <<>> /\ s.subtotal[s.party] = W!NoAmount
            THEN [s EXCEPT !.subtotal[s.party] = c.amount] ELSE s
      BY <1>4, <1>5, <1>10, <2>2
    <3> QED
      BY <1>3, <1>10, <3>1 DEF TallySteps, is
  <2> QED
    BY <2>1, <2>2
<1> QED
  BY <1>2, <1>7, <1>8, <1>9, <1>10

\* The same, its greatest element taken out as a fold of the parser does.
TakesGreatest(g, n, A, b, h) ==
  /\ g \in [SUBSET (1 .. n) -> A] /\ g[{}] = b
  /\ \A N \in SUBSET (1 .. n) :
       N # {} => W!Max(N) \in N /\ g[N] = h[<<g[N \ {W!Max(N)}], W!Max(N)>>]

LEMMA FoldAt ==
  ASSUME NEW n \in Nat, NEW A, NEW b \in A, NEW h \in [A \X (1 .. n) -> A]
  PROVE  \E g : TakesGreatest(g, n, A, b, h)
<1>1. PICK g : FoldsTo(g, n, A, b, h)
  BY FoldExists
<1>2. g \in [SUBSET (1 .. n) -> A] /\ g[{}] = b
  BY <1>1 DEF FoldsTo
<1>3. ASSUME NEW N \in SUBSET (1 .. n), N # {}
      PROVE  /\ W!Max(N) \in N
             /\ g[N] = h[<<g[N \ {W!Max(N)}], W!Max(N)>>]
  <2> DEFINE m == W!Max(N)
  <2>1. m = I!Max(N)
    BY DEF W!Max, I!Max
  <2> HIDE DEF m
  <2>2. m \in N /\ \A k \in N : k =< m
    BY <1>3, <2>1, MaxIn
  <2>3. m \in 1 .. n
    BY <2>2
  <2>4. g[N] = h[<<g[N \ {m}], m>>]
    BY <1>1, <2>2, <2>3 DEF FoldsTo
  <2> QED
    BY <2>2, <2>4 DEF m
<1> QED
  BY <1>2, <1>3 DEF TakesGreatest

LEMMA TallyRowTyped ==
  ASSUME Statement, wrote = "TALLY", NEW k \in 1 .. Len(rows), NEW s \in Parse
  PROVE  W!TallyRow(s, k) \in Parse
<1>1. TallySteps(s, k)
  BY TallyRowIs
<1>2. /\ rows[k].is \in {"party", "invoice", "note", "undated", "blank", "subtotal", "total"}
      /\ rows[k].is = "party" => rows[k].name \in Customers
      /\ rows[k].amount \in Int
  BY RowsAre, RowShape
<1>3. CASE rows[k].is = "party"
  BY <1>1, <1>2, <1>3 DEF TallySteps, Parse, Names
<1>4. CASE rows[k].is \in {"invoice", "note", "undated"}
  <2>1. W!TallyRow(s, k) = W!Report(s, k)
    BY <1>1, <1>4 DEF TallySteps
  <2>2. [row |-> k, party |-> s.party,
         status |-> IF W!Readable(W!C(k)) THEN "OK" ELSE "PARSE_ERROR"] \in LineSet
    BY DEF LineSet, Parse
  <2> QED
    BY <2>1, <2>2 DEF W!Report, Parse
<1>5. CASE rows[k].is = "blank"
  BY <1>1, <1>5 DEF TallySteps
<1>6. CASE rows[k].is \in {"subtotal", "total"}
  <2>1. CASE W!TallyRow(s, k) = s
    BY <2>1
  <2>2. CASE /\ s.party # <<>>
             /\ W!TallyRow(s, k) = [s EXCEPT !.subtotal[s.party] = rows[k].amount]
    <3>1. s.party \in Customers /\ s.subtotal \in [Customers -> Int]
      BY <2>2 DEF Parse, Names, Subtotals
    <3>2. [s.subtotal EXCEPT ![s.party] = rows[k].amount] \in [Customers -> Int]
      BY <1>2, <3>1
    <3> QED
      BY <2>2, <3>2 DEF Parse, Subtotals
  <2> QED
    BY <1>1, <1>6, <2>1, <2>2 DEF TallySteps
<1> QED
  BY <1>2, <1>3, <1>4, <1>5, <1>6

LEMMA BeforeIs ==
  /\ W!Before \in Parse /\ W!Before.party = <<>> /\ W!Before.out = {} /\ W!Before.over = FALSE
  BY DEF W!Before, Parse, Names, Customers, Subtotals, W!NoAmount

LEMMA IndicesAre ==
  ASSUME Statement
  PROVE  DOMAIN W!Indices = 1 .. Len(rows) /\ \A k \in 1 .. Len(rows) : W!Indices[k] = k
  BY DEF W!Indices

LEMMA OneToIs ==
  ASSUME NEW n \in Nat, NEW k \in 1 .. n
  PROVE  /\ W!Max(1 .. k) = k /\ (1 .. k) \ {k} = 1 .. k - 1
         /\ 1 .. k # {} /\ 1 .. k \in SUBSET (1 .. n)
<1>1. 1 .. k \in SUBSET Nat /\ k \in 1 .. k /\ \A j \in 1 .. k : j =< k
  OBVIOUS
<1>2. I!Max(1 .. k) = k
  BY <1>1, GreatestIs
<1>3. W!Max(1 .. k) = k
  BY <1>2 DEF W!Max, I!Max
<1> QED
  BY <1>3

LEMMA TallyFollows ==
  ASSUME Statement, wrote = "TALLY"
  PROVE  \E F : /\ F[0] = W!Before /\ F[Len(rows)] = W!ParseTally
                /\ \A k \in 1 .. Len(rows) : F[k] = W!TallyRow(F[k - 1], k)
<1> DEFINE n == Len(rows)
           h == [x \in Parse \X (1 .. n) |-> W!TallyRow(x[1], x[2])]
           Fold(g) == g = [N \in SUBSET DOMAIN W!Indices |->
                             IF N = {} THEN W!Before
                             ELSE W!TallyRow(g[N \ {W!Max(N)}], W!Indices[W!Max(N)])]
           G == CHOOSE g : Fold(g)
<1>1. n \in Nat /\ DOMAIN W!Indices = 1 .. n /\ \A k \in 1 .. n : W!Indices[k] = k
  BY RowsAre, IndicesAre
<1>2. h \in [Parse \X (1 .. n) -> Parse]
  <2>1. ASSUME NEW s \in Parse, NEW k \in 1 .. n PROVE W!TallyRow(s, k) \in Parse
    BY TallyRowTyped
  <2> QED
    BY <2>1
<1>3. PICK g : TakesGreatest(g, n, Parse, W!Before, h)
  <2> HIDE DEF n, h
  <2> QED
    BY <1>1, <1>2, BeforeIs, FoldAt
<1>4. Fold(g)
  <2>1. ASSUME NEW N \in SUBSET (1 .. n), N # {}
        PROVE  g[N] = W!TallyRow(g[N \ {W!Max(N)}], W!Indices[W!Max(N)])
    <3> DEFINE m == W!Max(N)
    <3>1. m \in N /\ g[N] = h[<<g[N \ {m}], m>>]
      <4> HIDE DEF n, h
      <4> QED
        BY <1>3, <2>1 DEF TakesGreatest
    <3> HIDE DEF m
    <3>2. g[N \ {m}] \in Parse /\ m \in 1 .. n
      <4> HIDE DEF n, h
      <4> QED
        BY <1>3, <3>1 DEF TakesGreatest
    <3> HIDE DEF n
    <3>3. h[<<g[N \ {m}], m>>] = W!TallyRow(g[N \ {m}], m)
      BY <3>2
    <3>4. W!Indices[m] = m
      BY <1>1, <3>2
    <3> HIDE DEF h
    <3> QED
      BY <3>1, <3>3, <3>4 DEF m
  <2> HIDE DEF n, h
  <2> QED
    BY <1>1, <1>3, <2>1 DEF TakesGreatest
<1>5. Fold(G)
  <2> HIDE DEF Fold
  <2> QED
    BY <1>4
<1>6. W!ParseTally = G[1 .. n]
  <2>1. W!ParseTally = G[DOMAIN W!Indices]
    BY DEF W!ParseTally, W!FoldLeft, W!MapThenFoldSet
  <2> QED
    BY <1>1, <2>1
<1> DEFINE F == [k \in 0 .. n |-> G[1 .. k]]
<1>7. ASSUME NEW k \in 1 .. n PROVE F[k] = W!TallyRow(F[k - 1], k)
  <2>1. F[k] = G[1 .. k] /\ F[k - 1] = G[1 .. k - 1]
    BY <1>1
  <2> HIDE DEF F, n, G
  <2>2. G[1 .. k] = W!TallyRow(G[1 .. k - 1], k)
    <3>1. W!Max(1 .. k) = k /\ (1 .. k) \ {k} = 1 .. k - 1 /\ 1 .. k # {} /\ 1 .. k \in SUBSET (1 .. n)
      BY <1>1, OneToIs
    <3>2. G[1 .. k] = W!TallyRow(G[(1 .. k) \ {W!Max(1 .. k)}], W!Indices[W!Max(1 .. k)])
      BY <1>1, <1>5, <3>1
    <3> QED
      BY <1>1, <3>1, <3>2
  <2> QED
    BY <2>1, <2>2
<1>8. F[0] = W!Before /\ F[n] = G[1 .. n]
  <2>1. F[0] = G[1 .. 0] /\ 1 .. 0 = {} /\ {} \in SUBSET DOMAIN W!Indices /\ F[n] = G[1 .. n]
    BY <1>1
  <2> HIDE DEF F, n, G
  <2> QED
    BY <2>1, <1>5
<1> HIDE DEF F
<1> QED
  BY <1>6, <1>7, <1>8

\* What the parser knows after k rows of a sheet of Tally.
TallyKnows(s, k) == s \in Parse /\ s.party = W!Owner(k) /\ s.out = LinesTo(k)

LEMMA TallyTells ==
  ASSUME Statement, wrote = "TALLY"
  PROVE  TallyKnows(W!ParseTally, Len(rows))
<1> DEFINE n == Len(rows)
<1>1. PICK F : /\ F[0] = W!Before /\ F[n] = W!ParseTally
               /\ \A k \in 1 .. n : F[k] = W!TallyRow(F[k - 1], k)
  BY TallyFollows
<1> DEFINE Reaches == {k \in 0 .. n : TallyKnows(F[k], k)}
<1>2. n \in Nat
  BY RowsAre
<1>3. 0 \in Reaches
  <2>1. W!Owner(0) = <<>>
    <3>1. {j \in 1 .. 0 : rows[j].is = "party"} = {}
      OBVIOUS
    <3> QED
      BY <3>1 DEF W!Owner
  <2> QED
    <3>1. F[0] \in Parse /\ F[0].party = W!Owner(0) /\ F[0].out = LinesTo(0)
      BY <1>1, <2>1, BeforeIs, LinesAll
    <3>2. 0 \in 0 .. n
      BY <1>2
    <3> QED
      BY <3>1, <3>2 DEF TallyKnows
<1>4. ASSUME NEW k \in 1 .. n, k - 1 \in Reaches PROVE k \in Reaches
  <2> DEFINE s == F[k - 1]
             t == W!TallyRow(s, k)
  <2>1. s \in Parse /\ s.party = W!Owner(k - 1) /\ s.out = LinesTo(k - 1)
    BY <1>4 DEF TallyKnows
  <2>2. F[k] = t
    BY <1>1
  <2> HIDE DEF s
  <2>3. t \in Parse /\ TallySteps(s, k)
    BY <2>1, TallyRowTyped, TallyRowIs
  <2>4. rows[k].is \in {"party", "invoice", "note", "undated", "blank", "subtotal", "total"}
    BY RowsAre, RowShape
  <2> HIDE DEF t
  <2>5. t.party = W!Owner(k) /\ t.out = LinesTo(k)
    <3>1. W!Owner(k) = IF rows[k].is = "party" THEN rows[k].name ELSE s.party
      BY <2>1, OwnerIs
    <3>2. LinesTo(k) = IF k \in Reported THEN s.out \cup {RowTold(k)} ELSE s.out
      BY <2>1, LinesAdd
    <3>3. k \in Reported <=> rows[k].is \in {"invoice", "note", "undated"}
      BY RowsAre DEF Reported
    <3>4. CASE rows[k].is = "party"
      <4>1. t = [s EXCEPT !.party = rows[k].name]
        BY <2>3, <3>4 DEF TallySteps, t
      <4> QED
        BY <2>1, <3>1, <3>2, <3>3, <3>4, <4>1 DEF Parse
    <3>5. CASE rows[k].is \in {"invoice", "note", "undated"}
      <4>1. t = W!Report(s, k)
        BY <2>3, <3>5 DEF TallySteps, t
      <4>2. W!Report(s, k) = [s EXCEPT !.out = @ \cup {RowTold(k)}]
        BY <2>1, <3>1, <3>3, <3>5, ReportIs
      <4> QED
        BY <2>1, <3>1, <3>2, <3>3, <3>5, <4>1, <4>2 DEF Parse
    <3>6. CASE rows[k].is = "blank"
      <4>1. t = s
        BY <2>3, <3>6 DEF TallySteps, t
      <4> QED
        BY <3>1, <3>2, <3>3, <3>6, <4>1
    <3>7. CASE rows[k].is \in {"subtotal", "total"}
      <4>1. t = s \/ t = [s EXCEPT !.subtotal[s.party] = rows[k].amount]
        BY <2>3, <3>7 DEF TallySteps, t
      <4>2. t.party = s.party /\ t.out = s.out
        BY <2>1, <4>1 DEF Parse
      <4> QED
        BY <3>1, <3>2, <3>3, <3>7, <4>2
    <3> QED
      BY <2>4, <3>4, <3>5, <3>6, <3>7
  <2> HIDE DEF s
  <2> QED
    BY <1>2, <2>2, <2>3, <2>5 DEF TallyKnows, t
<1>5. n \in Reaches
  <2> HIDE DEF Reaches
  <2>1. 0 .. n \subseteq Reaches
    BY <1>2, <1>3, <1>4, AllReached
  <2> QED
    BY <1>2, <2>1
<1> QED
  BY <1>1, <1>5

-----------------------------------------------------------------------------
(* Workbooks: the parser of Xero *)

Plain == \A k \in DOMAIN rows : rows[k].is = "party" => Head(rows[k].name) # "Total"

XeroSteps(s, k) ==
  LET is == rows[k].is IN
  /\ is = "party" => W!XeroRow(s, k) = [s EXCEPT !.party = rows[k].name]
  /\ is \in {"invoice", "note", "undated"} => W!XeroRow(s, k) = W!Report(s, k)
  /\ is \in {"blank", "subtotal"} => W!XeroRow(s, k) = s
  /\ is = "total" => W!XeroRow(s, k) = [s EXCEPT !.over = TRUE]

LEMMA XeroRowIs ==
  ASSUME Statement, wrote = "XERO", Plain, NEW k \in 1 .. Len(rows), NEW s, ~s.over
  PROVE  XeroSteps(s, k)
<1> DEFINE c == W!C(k)
           is == rows[k].is
<1>1. /\ is \in {"party", "invoice", "note", "undated", "blank", "subtotal", "total"}
      /\ is \in {"party", "subtotal"} => rows[k].name \in Customers
      /\ is \in {"invoice", "subtotal", "total"} => rows[k].amount # 0
      /\ is \in {"party", "note", "undated", "blank"} => rows[k].amount = 0
  BY RowsAre, RowShape
<1>2. is = "party" => Head(rows[k].name) # "Total"
  BY RowsAre DEF Plain
<1>3. /\ is \in {"invoice", "note"} => c.date = "day"
      /\ is = "undated" => c.date = W!Text
      /\ is \in {"party", "blank", "subtotal", "total"} => c.date = W!None
      /\ c.ref <=> is \in {"invoice", "undated"}
      /\ c.amount = rows[k].amount
      /\ is = "party" => c.name = rows[k].name
      /\ is \notin {"party", "subtotal", "total"} => c.name = <<>>
      /\ is = "subtotal" => c.name = <<"Total">> \o rows[k].name
      /\ is = "total" => c.name = <<"Total">>
  BY LooksLike
<1> DEFINE blank == W!IsBlank(c)
           header == W!XeroHeader(c)
           subtotal == W!XeroSubtotal(c)
           total == W!XeroTotal(c)
<1>4. W!XeroRow(s, k) =
        CASE s.over \/ total -> [s EXCEPT !.over = TRUE]
          [] ~s.over /\ (blank \/ subtotal) -> s
          [] ~s.over /\ header -> [s EXCEPT !.party = c.name]
          [] OTHER -> W!Report(s, k)
  BY DEF W!XeroRow
<1> HIDE DEF c, is
<1>5. CASE is = "party"
  <2>1. c.name # <<>> /\ Head(c.name) # "Total" /\ c.date = W!None
    BY <1>1, <1>2, <1>3, <1>5, CustomersAre
  <2>2. c.name # <<"Total">>
    BY <2>1
  <2>3. header /\ ~blank /\ ~subtotal /\ ~total
    BY <2>1, <2>2 DEF W!XeroHeader, W!SaysTotal, W!IsBlank, W!XeroSubtotal, W!XeroTotal
  <2> HIDE DEF blank, header, subtotal, total
  <2>4. W!XeroRow(s, k) = [s EXCEPT !.party = c.name]
    BY <1>4, <2>3
  <2> QED
    BY <1>3, <1>5, <2>4 DEF XeroSteps, is
<1>6. CASE is \in {"invoice", "note", "undated"}
  <2>1. c.name = <<>> /\ c.date # W!None /\ <<"Total">> # <<>>
    BY <1>3, <1>6 DEF W!None, W!Text
  <2>2. ~header /\ ~blank /\ ~subtotal /\ ~total
    BY <2>1 DEF W!XeroHeader, W!SaysTotal, W!IsBlank, W!XeroSubtotal, W!XeroTotal
  <2> HIDE DEF blank, header, subtotal, total
  <2>3. W!XeroRow(s, k) = W!Report(s, k)
    BY <1>4, <2>2
  <2> QED
    BY <1>6, <2>3 DEF XeroSteps, is
<1>7. CASE is = "blank"
  <2>1. /\ c.name = <<>> /\ c.date = W!None /\ ~c.ref /\ c.amount = W!NoAmount
        /\ <<"Total">> # <<>>
    BY <1>1, <1>3, <1>7 DEF W!NoAmount
  <2>2. blank /\ ~total /\ ~header
    BY <2>1 DEF W!IsBlank, W!XeroTotal, W!XeroHeader
  <2> HIDE DEF blank, header, subtotal, total
  <2>3. W!XeroRow(s, k) = s
    BY <1>4, <2>2
  <2> QED
    BY <1>7, <2>3 DEF XeroSteps, is
<1>8. CASE is = "subtotal"
  <2>1. c.name # <<>> /\ Head(c.name) = "Total" /\ Len(c.name) > 1 /\ c.name # <<"Total">>
    BY <1>1, <1>3, <1>8, CustomersAre
  <2>2. subtotal /\ ~total /\ ~header
    BY <2>1 DEF W!SaysTotal, W!XeroSubtotal, W!XeroTotal, W!XeroHeader
  <2> HIDE DEF blank, header, subtotal, total
  <2>3. W!XeroRow(s, k) = s
    BY <1>4, <2>2
  <2> QED
    BY <1>8, <2>3 DEF XeroSteps, is
<1>9. CASE is = "total"
  <2>1. total
    BY <1>3, <1>9 DEF W!XeroTotal
  <2>2. W!XeroRow(s, k) = [s EXCEPT !.over = TRUE]
    <3>1. ~blank /\ ~subtotal /\ ~header
      <4>1. c.name = <<"Total">> /\ Len(<<"Total">>) = 1 /\ <<"Total">> # <<>> /\ Head(<<"Total">>) = "Total"
        BY <1>3, <1>9
      <4> QED
        BY <4>1 DEF blank, header, subtotal, W!XeroHeader, W!SaysTotal, W!IsBlank, W!XeroSubtotal
    <3> HIDE DEF blank, header, subtotal, total
    <3> QED
      BY <1>4, <2>1, <3>1
  <2> QED
    BY <1>9, <2>2 DEF XeroSteps, is
<1> QED
  BY <1>1, <1>5, <1>6, <1>7, <1>8, <1>9

LEMMA XeroOverIs ==
  ASSUME NEW k \in 1 .. Len(rows), NEW s, s.over
  PROVE  W!XeroRow(s, k) = [s EXCEPT !.over = TRUE]
  BY DEF W!XeroRow

LEMMA XeroRowTyped ==
  ASSUME Statement, wrote = "XERO", Plain, NEW k \in 1 .. Len(rows), NEW s \in Parse
  PROVE  W!XeroRow(s, k) \in Parse
<1>1. CASE s.over
  <2>1. W!XeroRow(s, k) = [s EXCEPT !.over = TRUE]
    BY <1>1, XeroOverIs
  <2> QED
    BY <2>1 DEF Parse
<1>2. CASE ~s.over
  <2>1. XeroSteps(s, k)
    BY <1>2, XeroRowIs
  <2>2. /\ rows[k].is \in {"party", "invoice", "note", "undated", "blank", "subtotal", "total"}
        /\ rows[k].is = "party" => rows[k].name \in Customers
    BY RowsAre, RowShape
  <2>3. CASE rows[k].is = "party"
    BY <2>1, <2>2, <2>3 DEF XeroSteps, Parse, Names
  <2>4. CASE rows[k].is \in {"invoice", "note", "undated"}
    <3>1. W!XeroRow(s, k) = W!Report(s, k)
      BY <2>1, <2>4 DEF XeroSteps
    <3>2. [row |-> k, party |-> s.party,
           status |-> IF W!Readable(W!C(k)) THEN "OK" ELSE "PARSE_ERROR"] \in LineSet
      BY DEF LineSet, Parse
    <3> QED
      BY <3>1, <3>2 DEF W!Report, Parse
  <2>5. CASE rows[k].is \in {"blank", "subtotal", "total"}
    BY <2>1, <2>5 DEF XeroSteps, Parse
  <2> QED
    BY <2>2, <2>3, <2>4, <2>5
<1> QED
  BY <1>1, <1>2

LEMMA XeroFollows ==
  ASSUME Statement, wrote = "XERO", Plain
  PROVE  \E F : /\ F[0] = W!Before /\ F[Len(rows)] = W!ParseXero
                /\ \A k \in 1 .. Len(rows) : F[k] = W!XeroRow(F[k - 1], k)
<1> DEFINE n == Len(rows)
           h == [x \in Parse \X (1 .. n) |-> W!XeroRow(x[1], x[2])]
           Fold(g) == g = [N \in SUBSET DOMAIN W!Indices |->
                             IF N = {} THEN W!Before
                             ELSE W!XeroRow(g[N \ {W!Max(N)}], W!Indices[W!Max(N)])]
           G == CHOOSE g : Fold(g)
<1>1. n \in Nat /\ DOMAIN W!Indices = 1 .. n /\ \A k \in 1 .. n : W!Indices[k] = k
  BY RowsAre, IndicesAre
<1>2. h \in [Parse \X (1 .. n) -> Parse]
  <2>1. ASSUME NEW s \in Parse, NEW k \in 1 .. n PROVE W!XeroRow(s, k) \in Parse
    BY XeroRowTyped
  <2> QED
    BY <2>1
<1>3. PICK g : TakesGreatest(g, n, Parse, W!Before, h)
  <2> HIDE DEF n, h
  <2> QED
    BY <1>1, <1>2, BeforeIs, FoldAt
<1>4. Fold(g)
  <2>1. ASSUME NEW N \in SUBSET (1 .. n), N # {}
        PROVE  g[N] = W!XeroRow(g[N \ {W!Max(N)}], W!Indices[W!Max(N)])
    <3> DEFINE m == W!Max(N)
    <3>1. m \in N /\ g[N] = h[<<g[N \ {m}], m>>]
      <4> HIDE DEF n, h
      <4> QED
        BY <1>3, <2>1 DEF TakesGreatest
    <3> HIDE DEF m
    <3>2. g[N \ {m}] \in Parse /\ m \in 1 .. n
      <4> HIDE DEF n, h
      <4> QED
        BY <1>3, <3>1 DEF TakesGreatest
    <3> HIDE DEF n
    <3>3. h[<<g[N \ {m}], m>>] = W!XeroRow(g[N \ {m}], m)
      BY <3>2
    <3>4. W!Indices[m] = m
      BY <1>1, <3>2
    <3> HIDE DEF h
    <3> QED
      BY <3>1, <3>3, <3>4 DEF m
  <2> HIDE DEF n, h
  <2> QED
    BY <1>1, <1>3, <2>1 DEF TakesGreatest
<1>5. Fold(G)
  <2> HIDE DEF Fold
  <2> QED
    BY <1>4
<1>6. W!ParseXero = G[1 .. n]
  <2>1. W!ParseXero = G[DOMAIN W!Indices]
    BY DEF W!ParseXero, W!FoldLeft, W!MapThenFoldSet
  <2> QED
    BY <1>1, <2>1
<1> DEFINE F == [k \in 0 .. n |-> G[1 .. k]]
<1>7. ASSUME NEW k \in 1 .. n PROVE F[k] = W!XeroRow(F[k - 1], k)
  <2>1. F[k] = G[1 .. k] /\ F[k - 1] = G[1 .. k - 1]
    BY <1>1
  <2> HIDE DEF F, n, G
  <2>2. G[1 .. k] = W!XeroRow(G[1 .. k - 1], k)
    <3>1. W!Max(1 .. k) = k /\ (1 .. k) \ {k} = 1 .. k - 1 /\ 1 .. k # {} /\ 1 .. k \in SUBSET (1 .. n)
      BY <1>1, OneToIs
    <3>2. G[1 .. k] = W!XeroRow(G[(1 .. k) \ {W!Max(1 .. k)}], W!Indices[W!Max(1 .. k)])
      BY <1>1, <1>5, <3>1
    <3> QED
      BY <1>1, <3>1, <3>2
  <2> QED
    BY <2>1, <2>2
<1>8. F[0] = W!Before /\ F[n] = G[1 .. n]
  <2>1. F[0] = G[1 .. 0] /\ 1 .. 0 = {} /\ {} \in SUBSET DOMAIN W!Indices /\ F[n] = G[1 .. n]
    BY <1>1
  <2> HIDE DEF F, n, G
  <2> QED
    BY <2>1, <1>5
<1> HIDE DEF F
<1> QED
  BY <1>6, <1>7, <1>8

\* What the parser knows after k rows of a sheet of Xero: nothing follows its total.
XeroKnows(s, k) ==
  /\ s \in Parse /\ s.party = W!Owner(k) /\ s.out = LinesTo(k)
  /\ s.over => k \in DOMAIN rows /\ rows[k].is = "total"

LEMMA XeroTells ==
  ASSUME Statement, wrote = "XERO", Plain
  PROVE  W!ParseXero.out = W!Meant
<1> DEFINE n == Len(rows)
<1>1. PICK F : /\ F[0] = W!Before /\ F[n] = W!ParseXero
               /\ \A k \in 1 .. n : F[k] = W!XeroRow(F[k - 1], k)
  BY XeroFollows
<1> DEFINE Reaches == {k \in 0 .. n : XeroKnows(F[k], k)}
<1>2. n \in Nat
  BY RowsAre
<1>3. 0 \in Reaches
  <2>1. W!Owner(0) = <<>>
    <3>1. {j \in 1 .. 0 : rows[j].is = "party"} = {}
      OBVIOUS
    <3> QED
      BY <3>1 DEF W!Owner
  <2>2. F[0] \in Parse /\ F[0].party = W!Owner(0) /\ F[0].out = LinesTo(0) /\ ~F[0].over
    BY <1>1, <2>1, BeforeIs, LinesAll
  <2>3. 0 \in 0 .. n
    BY <1>2
  <2> QED
    BY <2>2, <2>3 DEF XeroKnows
<1>4. ASSUME NEW k \in 1 .. n, k - 1 \in Reaches PROVE k \in Reaches
  <2> DEFINE s == F[k - 1]
             t == W!XeroRow(s, k)
  <2>1. /\ s \in Parse /\ s.party = W!Owner(k - 1) /\ s.out = LinesTo(k - 1)
        /\ s.over => k - 1 \in DOMAIN rows /\ rows[k - 1].is = "total"
    BY <1>4 DEF XeroKnows
  <2>2. F[k] = t
    BY <1>1
  <2> HIDE DEF s
  <2>3. ~s.over
    BY <2>1, RowsAre DEF Statement
  <2>4. t \in Parse /\ XeroSteps(s, k)
    BY <2>1, <2>3, XeroRowTyped, XeroRowIs
  <2>5. rows[k].is \in {"party", "invoice", "note", "undated", "blank", "subtotal", "total"}
    BY RowsAre, RowShape
  <2> HIDE DEF t
  <2>6. t.party = W!Owner(k) /\ t.out = LinesTo(k) /\ (t.over => rows[k].is = "total")
    <3>1. W!Owner(k) = IF rows[k].is = "party" THEN rows[k].name ELSE s.party
      BY <2>1, OwnerIs
    <3>2. LinesTo(k) = IF k \in Reported THEN s.out \cup {RowTold(k)} ELSE s.out
      BY <2>1, LinesAdd
    <3>3. k \in Reported <=> rows[k].is \in {"invoice", "note", "undated"}
      BY RowsAre DEF Reported
    <3>4. CASE rows[k].is = "party"
      <4>1. t = [s EXCEPT !.party = rows[k].name]
        BY <2>4, <3>4 DEF XeroSteps, t
      <4> QED
        BY <2>1, <2>3, <3>1, <3>2, <3>3, <3>4, <4>1 DEF Parse
    <3>5. CASE rows[k].is \in {"invoice", "note", "undated"}
      <4>1. t = W!Report(s, k)
        BY <2>4, <3>5 DEF XeroSteps, t
      <4>2. W!Report(s, k) = [s EXCEPT !.out = @ \cup {RowTold(k)}]
        BY <2>1, <3>1, <3>3, <3>5, ReportIs
      <4> QED
        BY <2>1, <2>3, <3>1, <3>2, <3>3, <3>5, <4>1, <4>2 DEF Parse
    <3>6. CASE rows[k].is \in {"blank", "subtotal"}
      <4>1. t = s
        BY <2>4, <3>6 DEF XeroSteps, t
      <4> QED
        BY <2>3, <3>1, <3>2, <3>3, <3>6, <4>1
    <3>7. CASE rows[k].is = "total"
      <4>1. t = [s EXCEPT !.over = TRUE]
        BY <2>4, <3>7 DEF XeroSteps, t
      <4> QED
        BY <2>1, <3>1, <3>2, <3>3, <3>7, <4>1 DEF Parse
    <3> QED
      BY <2>5, <3>4, <3>5, <3>6, <3>7
  <2> HIDE DEF s
  <2>7. XeroKnows(t, k)
    BY <2>4, <2>6, RowsAre DEF XeroKnows
  <2> QED
    BY <1>2, <2>2, <2>7 DEF t
<1>5. n \in Reaches
  <2> HIDE DEF Reaches
  <2>1. 0 .. n \subseteq Reaches
    BY <1>2, <1>3, <1>4, AllReached
  <2> QED
    BY <1>2, <2>1
<1> QED
  BY <1>1, <1>5, LinesAll DEF XeroKnows

-----------------------------------------------------------------------------
(* Workbooks: money *)

LEMMA MeantIsFinite ==
  ASSUME Statement
  PROVE  IsFiniteSet(W!Meant)
<1>1. IsFiniteSet(Reported)
  <2>1. IsFiniteSet(1 .. Len(rows)) /\ Reported \in SUBSET (1 .. Len(rows))
    BY RowsAre, FS_Interval DEF Reported
  <2> QED
    BY <2>1, FS_Subset
<1> DEFINE f == [k \in Reported |-> RowTold(k)]
<1>2. W!Meant = {RowTold(k) : k \in Reported}
  BY DEF W!Meant, RowTold, Reported
<1>3. f \in Surjection(Reported, W!Meant)
  BY <1>2 DEF Surjection
<1> QED
  BY <1>1, <1>3, FS_Surjection

LEMMA CustomersFinite == IsFiniteSet(Customers)
<1>1. ASSUME NEW a, NEW b PROVE IsFiniteSet({a, b})
  <2>1. IsFiniteSet({a} \cup {b})
    BY FS_Singleton, FS_AddElement
  <2>2. {a} \cup {b} = {a, b}
    OBVIOUS
  <2> QED
    BY <2>1, <2>2
<1> QED
  BY <1>1 DEF Customers

LEMMA MoneyIs ==
  ASSUME NEW T, IsFiniteSet(T), NEW F, \A o \in T : F[o] = W!C(o.row).amount,
         NEW g, SumsOver(g, T, F), NEW D \in SUBSET T
  PROVE  W!Money(D) = g[D]
<1> DEFINE Fold(h) == h = [s \in SUBSET D |->
                             IF s = {} THEN 0
                             ELSE W!C((CHOOSE x \in s : TRUE).row).amount
                                    + h[s \ {CHOOSE x \in s : TRUE}]]
           G == CHOOSE h : Fold(h)
<1>1. ASSUME NEW h PROVE Fold(h) <=> Adds(h, D, F)
  <2>1. ASSUME NEW s \in SUBSET D, s # {}
        PROVE  F[CHOOSE x \in s : TRUE] = W!C((CHOOSE x \in s : TRUE).row).amount
    <3>1. (CHOOSE x \in s : TRUE) \in T
      BY <2>1
    <3> QED
      BY <3>1
  <2>2. [s \in SUBSET D |->
           IF s = {} THEN 0
           ELSE W!C((CHOOSE x \in s : TRUE).row).amount + h[s \ {CHOOSE x \in s : TRUE}]]
        = [s \in SUBSET D |-> IF s = {} THEN 0
             ELSE F[CHOOSE x \in s : TRUE] + h[s \ {CHOOSE x \in s : TRUE}]]
    BY <2>1
  <2> QED
    BY <2>2 DEF Adds
<1>2. W!Money(D) = G[D]
  BY DEF W!Money, W!Sum, W!MapThenSumSet, W!MapThenFoldSet
<1>3. (\E h : Adds(h, D, F)) /\ \A h : Adds(h, D, F) => h[D] = g[D]
  <2>1. AddsUpTo(D, F, g[D])
    BY AddsIs
  <2> QED
    BY <2>1 DEF AddsUpTo
<1>4. Adds(G, D, F)
  <2> HIDE DEF Fold
  <2>1. \E h : Fold(h)
    BY <1>1, <1>3
  <2>2. Fold(G)
    BY <2>1
  <2> HIDE DEF G
  <2> QED
    BY <1>1, <2>2
<1> HIDE DEF G
<1> QED
  BY <1>2, <1>3, <1>4

LEMMA SubtotalsSum ==
  ASSUME NEW parsed, parsed.subtotal \in Subtotals,
         NEW g, SumsOver(g, Customers, parsed.subtotal)
  PROVE  LET paid == {p \in Customers : parsed.subtotal[p] > 0} IN
         W!GrandOff(parsed) <=> W!Apart(W!C(W!GrandRow).amount, g[paid])
<1> DEFINE D == {p \in Customers : parsed.subtotal[p] > 0}
           F == parsed.subtotal
           Fold(h) == h = [s \in SUBSET D |->
                             IF s = {} THEN 0
                             ELSE F[CHOOSE x \in s : TRUE] + h[s \ {CHOOSE x \in s : TRUE}]]
           G == CHOOSE h : Fold(h)
<1>1. W!GrandOff(parsed) <=> W!Apart(W!C(W!GrandRow).amount, G[D])
  BY DEF W!GrandOff, W!Sum, W!MapThenSumSet, W!MapThenFoldSet, Customers
<1>2. IsFiniteSet(Customers) /\ D \in SUBSET Customers
  BY CustomersFinite
<1>3. (\E h : Adds(h, D, F)) /\ \A h : Adds(h, D, F) => h[D] = g[D]
  <2> HIDE DEF D
  <2>1. AddsUpTo(D, F, g[D])
    BY <1>2, AddsIs
  <2> QED
    BY <2>1 DEF AddsUpTo
<1>4. Adds(G, D, F)
  <2> HIDE DEF D
  <2>1. \A h : Fold(h) <=> Adds(h, D, F)
    BY DEF Adds
  <2> HIDE DEF Fold
  <2>2. Fold(G)
    BY <1>3, <2>1
  <2> HIDE DEF G
  <2> QED
    BY <2>1, <2>2
<1> HIDE DEF G, D, Fold
<1>5. G[D] = g[D]
  BY <1>3, <1>4
<1> QED
  BY <1>1, <1>5 DEF D

LEMMA WarnsNot ==
  ASSUME NEW parsed, W!TallyWarnings(parsed) = {"UNALLOCATED_CREDITS_DELTA"}
  PROVE  /\ W!GrandRow # 0 /\ ~W!GrandOff(parsed)
         /\ \A p \in Customers : ~W!SubtotalOff(parsed, p)
<1>1. W!GrandRow # 0
  BY DEF W!TallyWarnings
<1>2. ~W!GrandOff(parsed)
  BY <1>1 DEF W!TallyWarnings
<1>3. ASSUME NEW p \in Customers, W!SubtotalOff(parsed, p) PROVE FALSE
  <2>1. "SUBTOTAL_MISMATCH" \in W!TallyWarnings(parsed)
    BY <1>3 DEF W!TallyWarnings, Customers
  <2> QED
    BY <2>1
<1> QED
  BY <1>1, <1>2, <1>3

LEMMA MoneyAddsUp ==
  ASSUME Statement, wrote = "TALLY"
  PROVE  W!MoneyTold
<1> DEFINE parsed == W!ParseTally
           ok == W!Ok(parsed)
           paid == {p \in Customers : parsed.subtotal[p] > 0}
           of(P) == {o \in ok : o.party \in P}
           amounts == [o \in parsed.out |-> W!C(o.row).amount]
<1>3. IsFiniteSet(Customers) /\ paid \in SUBSET Customers /\ IsFiniteSet(paid)
  <2>1. IsFiniteSet(Customers) /\ paid \in SUBSET Customers
    BY CustomersFinite
  <2> QED
    BY <2>1, FS_Subset
<1> SUFFICES ASSUME W!TallyWarnings(parsed) = {"UNALLOCATED_CREDITS_DELTA"},
                    {o.party : o \in ok} \subseteq paid
             PROVE  LET delta == W!Money(ok) - W!C(W!GrandRow).amount
                        most == Cardinality(paid) + 1 IN
                    -most =< delta /\ delta =< most
  <2>1. Cardinality(paid) = W!Cardinality(paid)
    BY DEF Cardinality, W!Cardinality
  <2> HIDE DEF parsed, ok
  <2>2. W!MoneyTold <=>
          (/\ W!TallyWarnings(parsed) = {"UNALLOCATED_CREDITS_DELTA"}
           /\ {o.party : o \in ok} \subseteq paid
           => LET delta == W!Money(ok) - W!C(W!GrandRow).amount
                  most == (W!Cardinality(paid) + 1) * 1 IN
              -most =< delta /\ delta =< most)
    BY DEF W!MoneyTold, W!Tolerance, Customers, parsed, ok
  <2>3. Cardinality(paid) \in Nat
    BY <1>3, FS_CardinalityType
  <2> HIDE DEF paid
  <2> QED
    BY <2>1, <2>2, <2>3
<1>1. /\ parsed.out \in SUBSET LineSet /\ IsFiniteSet(parsed.out)
      /\ parsed.subtotal \in [Customers -> Int] /\ ok \in SUBSET parsed.out
  <2>1. parsed \in Parse /\ parsed.out = W!Meant
    BY TallyTells, LinesAll DEF TallyKnows
  <2> QED
    BY <2>1, MeantIsFinite DEF Parse, Subtotals, W!Ok
<1>2. /\ W!GrandRow # 0 /\ ~W!GrandOff(parsed)
      /\ \A p \in Customers : ~W!SubtotalOff(parsed, p)
  BY WarnsNot
<1>4. W!C(W!GrandRow).amount \in Int
  BY <1>2, GrandIsSum, LooksLike, RowsAre, RowShape
<1>5. amounts \in [parsed.out -> Int]
  <2>1. ASSUME NEW o \in parsed.out PROVE W!C(o.row).amount \in Int
    <3>1. o.row \in 1 .. Len(rows)
      BY <1>1 DEF LineSet
    <3> QED
      BY <3>1, LooksLike, RowsAre, RowShape
  <2> QED
    BY <2>1
<1> HIDE DEF parsed
<1>6. PICK sigma : SumsOver(sigma, parsed.out, amounts)
  BY <1>1, <1>5, SumsExist
<1>7. PICK tau : SumsOver(tau, Customers, parsed.subtotal)
  BY <1>1, <1>3, SumsExist
<1>8. \A D \in SUBSET parsed.out : W!Money(D) = sigma[D] /\ sigma[D] \in Int
  <2> SUFFICES ASSUME NEW D \in SUBSET parsed.out PROVE W!Money(D) = sigma[D] /\ sigma[D] \in Int
    OBVIOUS
  <2>1. \A o \in parsed.out : amounts[o] = W!C(o.row).amount
    OBVIOUS
  <2> HIDE DEF amounts
  <2>2. W!Money(D) = sigma[D]
    BY <1>1, <1>6, <2>1, MoneyIs
  <2> QED
    BY <1>6, <2>2 DEF SumsOver
<1>9. \A P \in SUBSET Customers : tau[P] \in Int
  BY <1>7 DEF SumsOver
<1>10. ASSUME NEW p \in paid
       PROVE  LET d == sigma[of({p})] - tau[{p}] IN -1 =< d /\ d =< 1
  <2>1. of({p}) = {o \in W!Ok(parsed) : o.party = p} /\ of({p}) \in SUBSET parsed.out
    BY <1>1
  <2>2. tau[{p}] = parsed.subtotal[p] /\ tau[{p}] \in Int
    <3>1. {p} \in SUBSET Customers /\ {p} \ {p} = {}
      OBVIOUS
    <3>2. tau[{p}] = parsed.subtotal[p] + tau[{}] /\ tau[{}] = 0
      BY <1>7, <3>1 DEF SumsOver
    <3> QED
      BY <1>1, <1>9, <3>1, <3>2
  <2>3. ~W!Apart(W!Money(of({p})), parsed.subtotal[p])
    BY <1>2, <2>1 DEF W!SubtotalOff
  <2>4. W!Money(of({p})) = sigma[of({p})] /\ sigma[of({p})] \in Int
    BY <1>8, <2>1
  <2> HIDE DEF of
  <2> QED
    BY <2>2, <2>3, <2>4 DEF W!Apart, W!Tolerance
<1> DEFINE Off(P) == sigma[of(P)] - tau[P]
           N == {P \in SUBSET paid : -Cardinality(P) =< Off(P) /\ Off(P) =< Cardinality(P)}
<1>11. {} \in N
  <2>1. of({}) = {} /\ sigma[{}] = 0 /\ tau[{}] = 0
    BY <1>6, <1>7 DEF SumsOver
  <2>2. Cardinality({}) = 0
    BY FS_EmptySet
  <2> QED
    BY <2>1, <2>2
<1>12. ASSUME NEW U \in SUBSET paid, NEW x \in U, U \ {x} \in N PROVE U \in N
  <2> DEFINE rest == U \ {x}
  <2>1. sigma[of(U)] = sigma[of(rest)] + sigma[of({x})]
    <3>1. of(U) = of(rest) \cup of({x}) /\ of(rest) \cap of({x}) = {}
      OBVIOUS
    <3>2. of(rest) \in SUBSET parsed.out /\ of({x}) \in SUBSET parsed.out
      BY <1>1
    <3> HIDE DEF of, rest, amounts
    <3>3. Splits(sigma, parsed.out)
      BY <1>1, <1>5, <1>6, SumSplits
    <3>4. sigma[of(rest) \cup of({x})] = sigma[of(rest)] + sigma[of({x})]
      BY <3>1, <3>2, <3>3 DEF Splits
    <3> QED
      BY <3>1, <3>4
  <2>2. tau[U] = parsed.subtotal[x] + tau[rest] /\ tau[{x}] = parsed.subtotal[x] + tau[{}] /\ tau[{}] = 0
    <3>1. U \in SUBSET Customers /\ {x} \in SUBSET Customers /\ {x} \ {x} = {}
      OBVIOUS
    <3> QED
      BY <1>7, <3>1 DEF SumsOver
  <2>3. Cardinality(U) = Cardinality(rest) + 1 /\ Cardinality(rest) \in Nat
    <3>1. IsFiniteSet(U) /\ IsFiniteSet(rest)
      BY <1>3, FS_Subset
    <3>2. Cardinality(rest) = Cardinality(U) - 1 /\ Cardinality(U) \in Nat /\ Cardinality(rest) \in Nat
      BY <3>1, FS_RemoveElement, FS_CardinalityType
    <3> QED
      BY <3>2
  <2>4. /\ sigma[of(rest)] \in Int /\ sigma[of({x})] \in Int
        /\ tau[rest] \in Int /\ parsed.subtotal[x] \in Int
    <3>1. of(rest) \in SUBSET parsed.out /\ of({x}) \in SUBSET parsed.out
      BY <1>1
    <3>2. rest \in SUBSET Customers /\ x \in Customers
      OBVIOUS
    <3> HIDE DEF of, rest
    <3> QED
      BY <1>1, <1>8, <1>9, <3>1, <3>2
  <2>5. -Cardinality(rest) =< Off(rest) /\ Off(rest) =< Cardinality(rest)
    BY <1>12
  <2>6. -1 =< Off({x}) /\ Off({x}) =< 1
    BY <1>10
  <2> HIDE DEF of, rest
  <2>7. -Cardinality(U) =< Off(U) /\ Off(U) =< Cardinality(U)
    BY <2>1, <2>2, <2>3, <2>4, <2>5, <2>6
  <2> HIDE DEF Off
  <2> QED
    BY <2>7
<1>13. paid \in N
  <2> HIDE DEF N, paid
  <2>1. SUBSET paid \subseteq N
    BY <1>3, <1>11, <1>12, AllFiniteBy
  <2> QED
    BY <2>1
<1>14. of(paid) = ok
  OBVIOUS
<1>15. ~W!Apart(W!C(W!GrandRow).amount, tau[paid])
  <2>1. parsed.subtotal \in Subtotals
    BY <1>1 DEF Subtotals
  <2>2. W!GrandOff(parsed) <=> W!Apart(W!C(W!GrandRow).amount, tau[paid])
    BY <1>7, <2>1, SubtotalsSum
  <2> QED
    BY <1>2, <2>2
<1>16. W!Money(ok) = sigma[ok] /\ sigma[ok] \in Int /\ tau[paid] \in Int
  BY <1>1, <1>3, <1>8, <1>9
<1>17. Cardinality(paid) \in Nat /\ -Cardinality(paid) =< Off(paid) /\ Off(paid) =< Cardinality(paid)
  BY <1>3, <1>13, FS_CardinalityType
<1> HIDE DEF ok, paid, of
<1>18. Off(paid) = sigma[ok] - tau[paid]
  BY <1>14
<1> HIDE DEF Off
<1> QED
  BY <1>4, <1>15, <1>16, <1>17, <1>18 DEF W!Apart, W!Tolerance

-----------------------------------------------------------------------------
(* Workbooks: what is told *)

LEMMA ReadAsIs ==
  ASSUME W!ReadAs # W!None, wrote \in W!Matches
  PROVE  W!ReadAs = wrote
<1> DEFINE Ms == W!Matches
<1>1. IsFiniteSet(Ms)
  <2>1. IsFiniteSet(W!Sources)
    <3>1. IsFiniteSet({"TALLY"}) /\ IsFiniteSet({"TALLY"} \cup {"XERO"})
      BY FS_Singleton, FS_AddElement
    <3>2. IsFiniteSet(({"TALLY"} \cup {"XERO"}) \cup {"CREDIT_PERIOD"})
      BY <3>1, FS_AddElement
    <3>3. W!Sources = ({"TALLY"} \cup {"XERO"}) \cup {"CREDIT_PERIOD"}
      BY DEF W!Sources
    <3> QED
      BY <3>2, <3>3
  <2>2. Ms \in SUBSET W!Sources
    BY DEF W!Matches
  <2> HIDE DEF Ms
  <2> QED
    BY <2>1, <2>2, FS_Subset
<1>2. W!Cardinality(Ms) = Cardinality(Ms)
  BY DEF W!Cardinality, Cardinality
<1>3. ~(W!Cardinality(Ms) > 1) /\ ~(hint # W!None /\ Ms \notin {{}, {hint}})
  BY DEF W!ReadAs
<1>4. /\ hint # W!None => W!ReadAs = hint
      /\ hint = W!None => W!ReadAs = IF Ms = {} THEN W!None ELSE CHOOSE s \in Ms : TRUE
  BY <1>3 DEF W!ReadAs
<1> HIDE DEF Ms
<1>5. Ms = {wrote}
  <2>1. wrote \in Ms
    BY DEF Ms
  <2>2. Cardinality(Ms \ {wrote}) = Cardinality(Ms) - 1 /\ IsFiniteSet(Ms \ {wrote})
    BY <1>1, <2>1, FS_RemoveElement
  <2>3. Cardinality(Ms) \in Nat /\ Cardinality(Ms \ {wrote}) \in Nat
    BY <1>1, <2>2, FS_CardinalityType
  <2>4. Cardinality(Ms \ {wrote}) = 0
    BY <1>2, <1>3, <2>2, <2>3
  <2>5. Ms \ {wrote} = {}
    BY <2>2, <2>4, FS_EmptySet
  <2> QED
    BY <2>1, <2>5
<1>6. CASE hint # W!None
  <2>1. Ms \in {{}, {hint}}
    BY <1>3, <1>6
  <2> QED
    BY <1>4, <1>5, <1>6, <2>1
<1>7. CASE hint = W!None
  <2>1. (CHOOSE s \in Ms : TRUE) \in Ms
    BY <1>5
  <2> QED
    BY <1>4, <1>5, <1>7, <2>1
<1> QED
  BY <1>6, <1>7

LEMMA PeriodsTold ==
  ASSUME W!MasterErrors = {}
  PROVE  \A s \in {"India", "UAE"} :
           W!PeriodsOf(s) = W!RowsOn(s)
             /\ \A i, j \in W!RowsOn(s) : rows[i].name = rows[j].name => i = j
<1> SUFFICES ASSUME NEW s \in {"India", "UAE"}
             PROVE  W!PeriodsOf(s) = W!RowsOn(s)
                      /\ \A i, j \in W!RowsOn(s) : rows[i].name = rows[j].name => i = j
  OBVIOUS
<1>1. W!Read(s) = W!RowsOn(s) /\ ~W!Repeats(s)
  BY DEF W!MasterErrors
<1>2. W!PeriodsOf(s) = W!RowsOn(s)
  BY <1>1 DEF W!PeriodsOf
<1>3. \A i, j \in W!RowsOn(s) : rows[i].name = rows[j].name => i = j
  BY <1>1 DEF W!Repeats
<1> QED
  BY <1>2, <1>3

\* A file of receivables is a statement.
SheetInv == which = "sheets" /\ wrote # "CREDIT_PERIOD" => Statement

LEMMA TotalIsLast ==
  ASSUME Statement, NEW row \in W!Ledger, W!Writes(row), rows' = Append(rows, row)
  PROVE  Statement'
<1>1. rows' \in Seq(W!Ledger)
  BY DEF Statement
<1>2. \A k \in DOMAIN rows : rows[k].is # "total"
  BY DEF W!Writes
<1>3. /\ Len(rows') = Len(rows) + 1 /\ DOMAIN rows' = 1 .. Len(rows) + 1
      /\ \A k \in DOMAIN rows : rows'[k] = rows[k]
  BY DEF Statement
<1>4. ASSUME NEW k \in DOMAIN rows', rows'[k].is = "total" PROVE k = Len(rows')
  <2>1. k \notin DOMAIN rows
    BY <1>2, <1>3, <1>4
  <2> QED
    BY <1>3, <2>1, RowsAre
<1> QED
  BY <1>1, <1>4 DEF Statement

LEMMA SheetStep ==
  ASSUME SheetInv,
         [MCNext]_<<which, pullVars, sheetVars, changeVars, mappingVars, vars, snapVars>>
  PROVE  SheetInv'
<1>1. CASE Sheets /\ UNCHANGED which
  <2>1. PICK row \in IF wrote = "CREDIT_PERIOD" THEN W!Master ELSE W!Ledger :
          W!Writes(row) /\ rows' = Append(rows, row)
    BY <1>1 DEF Sheets, W!Next, W!WriteRow
  <2>2. UNCHANGED <<which, wrote>>
    BY <1>1 DEF Sheets, W!Next, W!WriteRow
  <2>3. CASE which = "sheets" /\ wrote # "CREDIT_PERIOD"
    BY <2>1, <2>2, <2>3, TotalIsLast DEF SheetInv
  <2>4. CASE ~(which = "sheets" /\ wrote # "CREDIT_PERIOD")
    BY <2>2, <2>4 DEF SheetInv
  <2> QED
    BY <2>3, <2>4
<1>2. CASE UNCHANGED <<which, sheetVars>>
  BY <1>2 DEF sheetVars, SheetInv, Statement
<1> QED
  BY <1>1, <1>2 DEF MCNext

LEMMA SheetsAtFirst == ASSUME MCInit PROVE SheetInv
<1>1. rows = <<>>
  <2>1. CASE which = "sheets"
    BY <2>1, Zenon DEF MCInit, W!Init
  <2>2. CASE which # "sheets"
    BY <2>2, Zenon DEF MCInit
  <2> QED
    BY <2>1, <2>2
<1> QED
  BY <1>1 DEF SheetInv, Statement

LEMMA SheetsAreTold == ASSUME SheetInv, W!TypeOK PROVE SheetsTold
<1> SUFFICES ASSUME which = "sheets" PROVE W!RowsAccounted /\ W!MoneyTold
  BY DEF SheetsTold
<1>1. wrote \in {"TALLY", "XERO", "CREDIT_PERIOD"}
  BY DEF W!TypeOK, W!Sources
<1>2. W!ReadAs # W!None /\ wrote \in W!Matches => W!ReadAs = wrote
  BY ReadAsIs
<1>3. wrote = "TALLY" => W!ParseTally.out = W!Meant
  <2> SUFFICES ASSUME wrote = "TALLY" PROVE W!ParseTally.out = W!Meant
    OBVIOUS
  <2>1. Statement
    BY DEF SheetInv
  <2> QED
    BY <2>1, TallyTells, LinesAll DEF TallyKnows
<1>4. wrote = "XERO" /\ Plain => W!ParseXero.out = W!Meant
  <2> SUFFICES ASSUME wrote = "XERO", Plain PROVE W!ParseXero.out = W!Meant
    OBVIOUS
  <2>1. Statement
    BY DEF SheetInv
  <2> QED
    BY <2>1, XeroTells
<1>5. wrote = "CREDIT_PERIOD" /\ W!MasterErrors = {} =>
        \A s \in {"India", "UAE"} :
          W!PeriodsOf(s) = W!RowsOn(s)
            /\ \A i, j \in W!RowsOn(s) : rows[i].name = rows[j].name => i = j
  BY PeriodsTold
<1>6. W!MoneyTold
  <2>1. CASE wrote = "TALLY"
    BY <2>1, MoneyAddsUp DEF SheetInv
  <2>2. CASE wrote # "TALLY"
    BY <2>2 DEF W!MoneyTold
  <2> QED
    BY <2>1, <2>2
<1>7. W!RowsAccounted
  BY <1>2, <1>3, <1>4, <1>5, Zenon DEF W!RowsAccounted, Plain
<1> QED
  BY <1>6, <1>7

\* However many rows a sheet has, each is taken for what it is, and a Tally sheet without a
\* warning reports the money of its total (parseTallyGrpbills and its siblings).
THEOREM SheetsRead == MCSpec => []SheetsTold
<1> DEFINE WholeStep == [MCNext]_<<which, pullVars, sheetVars, changeVars, mappingVars, vars, snapVars>>
<1>1. MCInit => W!TypeOK /\ SheetInv
  BY SheetInit, SheetsAtFirst
<1>2. (W!TypeOK /\ SheetInv) /\ WholeStep => (W!TypeOK /\ SheetInv)'
  BY SheetTypes, SheetStep
<1>3. W!TypeOK /\ SheetInv => SheetsTold
  BY SheetsAreTold
<1> QED
  BY <1>1, <1>2, <1>3, PTL DEF MCSpec

-----------------------------------------------------------------------------
(* Types: snapshots *)

\* What SnapshotLifecycleProofs proves of any requests holds of the one request; its
\* definitions are those of S.
SP == INSTANCE SnapshotLifecycleProofs WITH
  Reqs <- {TheRequest}, Users <- Staff, Role <- RoleOf, Scope <- ScopeOf, Files <- Uploads,
  Dates <- Days, Rows <- Parsed, RowsOf <- ParsedIn, NoFile <- NoUpload,
  inv <- ledger, req <- snapReq

LEMMA SameArrive == ASSUME NEW r PROVE S!Arrive(r) = SP!Arrive(r)
  BY DEF S!Arrive, S!UploadBegin, S!PatchBegin, S!AckBegin, S!ReviewBegin, S!DiscardBegin,
         S!PublishBegin, S!ReconcileBegin, S!NoRow, S!RolePermits, S!CanAccess, S!At,
         S!Goto, S!Reads, S!May, S!Patches, S!BulkMaps, S!Verdict, S!tables, S!NoEdit,
         S!Resolve, S!Parties, S!Unmapped, S!OkRows, S!CanonOf, SP!Arrive, SP!UploadBegin,
         SP!PatchBegin, SP!AckBegin, SP!ReviewBegin, SP!DiscardBegin, SP!PublishBegin,
         SP!ReconcileBegin, SP!NoRow, SP!RolePermits, SP!CanAccess, SP!At, SP!Goto,
         SP!Reads, SP!May, SP!Patches, SP!BulkMaps, SP!Verdict, SP!tables, SP!NoEdit,
         SP!Resolve, SP!Parties, SP!Unmapped, SP!OkRows, SP!CanonOf

LEMMA SameAdvance == ASSUME NEW r PROVE S!Advance(r) = SP!Advance(r)
  BY DEF S!Advance, S!UploadCommit, S!PatchCommit, S!AckCommit, S!ReviewCommit,
         S!DiscardCommit, S!PublishSameDay, S!PublishPrior, S!PublishGate,
         S!PublishUpsert, S!PublishSettle, S!HeldByOthers, S!Holds, S!ToSettle,
         S!PublishCommit, S!PublishAbort, S!ReconcileCommit, S!NoRow, S!Staged, S!At,
         S!End, S!ApplyEdit, S!SameDay, S!Goto, S!Reads, S!Prior, S!LatestPrior,
         S!Reconciled, S!OkRows, S!GateOk, S!Touched, S!LedgerAfter, S!NewLines, S!Idle,
         S!Published, S!tables, S!AutoMatched, S!Unmapped, S!RolePermits, S!KeyOf, S!Keys,
         S!EntityOfKey, S!Upserted, S!Settled, S!CanonOf, S!Cardinality, SP!Advance,
         SP!UploadCommit, SP!PatchCommit, SP!AckCommit, SP!ReviewCommit, SP!DiscardCommit,
         SP!PublishSameDay, SP!PublishPrior, SP!PublishGate, SP!PublishUpsert,
         SP!PublishSettle, SP!HeldByOthers, SP!Holds, SP!ToSettle, SP!PublishCommit,
         SP!PublishAbort, SP!ReconcileCommit, SP!NoRow, SP!Staged, SP!At, SP!End,
         SP!ApplyEdit, SP!SameDay, SP!Goto, SP!Reads, SP!Prior, SP!LatestPrior,
         SP!Reconciled, SP!OkRows, SP!GateOk, SP!Touched, SP!LedgerAfter, SP!NewLines,
         SP!Idle, SP!Published, SP!tables, SP!AutoMatched, SP!Unmapped, SP!RolePermits,
         SP!KeyOf, SP!Keys, SP!EntityOfKey, SP!Upserted, SP!Settled, SP!CanonOf,
         SP!Cardinality

LEMMA SameDie == ASSUME NEW r PROVE S!Die(r) = SP!Die(r)
  BY DEF S!Die, S!At, S!End, S!Reads, S!Idle, S!Goto, S!tables, SP!Die, SP!At, SP!End,
         SP!Reads, SP!Idle, SP!Goto, SP!tables

LEMMA SameInit == S!Init = SP!Init
  BY DEF S!Init, S!Keys, S!NoRow, S!NewInvoice, S!Idle, SP!Init, SP!Keys, SP!NoRow,
         SP!NewInvoice, SP!Idle

LEMMA SameTypes == S!TypeOK = SP!TypeOK
  BY DEF S!TypeOK, S!Keys, S!SnapRow, S!InvoiceRow, S!LineRow, S!Verdict, S!AuditRow,
         S!LatestRow, S!NoRow, S!Request, S!Idle, S!PublishReq, S!UpsertReq, S!CommitReq, S!UploadReq, S!DiscardReq,
         S!ReviewReq, S!AckReq, S!PatchReq, S!ReconcileReq, S!Edit, SP!TypeOK, SP!Keys,
         SP!SnapRow, SP!InvoiceRow, SP!LineRow, SP!Verdict, SP!AuditRow, SP!LatestRow,
         SP!NoRow, SP!Request, SP!Idle, SP!PublishReq, SP!UpsertReq, SP!CommitReq, SP!UploadReq, SP!DiscardReq,
         SP!ReviewReq, SP!AckReq, SP!PatchReq, SP!ReconcileReq, SP!Edit

LEMMA LifecycleTyped ==
  ASSUME S!ConstantsAssumption PROVE MCSpec => [](which = "snapshots, alone" => S!TypeOK)
<1>1. SP!ConstantsAssumption
  BY DEF SP!ConstantsAssumption, S!ConstantsAssumption
<1>2. MCInit => SP!Init
  BY SameInit DEF MCInit
<1>3. [MCNext]_<<which, pullVars, sheetVars, changeVars, mappingVars, vars, snapVars>>
      => [SP!Next]_SP!vars
  <2> SUFFICES ASSUME [MCNext]_<<which, pullVars, sheetVars, changeVars, mappingVars, vars, snapVars>>
               PROVE  SP!Next \/ UNCHANGED SP!vars
    OBVIOUS
  <2>1. CASE S!Next
    BY <2>1, SameArrive, SameAdvance, SameDie DEF S!Next, SP!Next
  <2>2. CASE UNCHANGED snapVars
    BY <2>2 DEF snapVars, SP!vars
  <2> QED
    BY <2>1, <2>2 DEF MCNext, Lifecycle
<1>4. SP!Spec => [](SP!TypeOK /\ SP!InFlightInEntity)
  BY <1>1, SP!TypeCorrect
<1>5. SP!TypeOK => S!TypeOK
  BY SameTypes
<1> QED
  BY <1>2, <1>3, <1>4, <1>5, PTL DEF MCSpec, SP!Spec

-----------------------------------------------------------------------------
(* Types of the run *)

\* Every variable has its type, whatever requests, pulls and publishes overlap.
THEOREM TypesKept ==
  ASSUME XeroParameters, FileParameters, MaxSaves \in Nat, S!ConstantsAssumption
  PROVE  MCSpec => []TypesOK
<1> DEFINE WholeStep == [MCNext]_<<which, pullVars, sheetVars, changeVars, mappingVars, vars, snapVars>>
           Typed == PullInv /\ W!TypeOK /\ HistoryInv /\ M!TypeOK /\ WorkInv
<1>1. MCInit => Typed
  BY PullInit, SheetInit, HistoryInit, WorkInit DEF MCInit, M!Init, M!TypeOK
<1>2. Typed /\ WholeStep => Typed'
  <2> SUFFICES ASSUME Typed, WholeStep PROVE Typed'
    OBVIOUS
  <2>1. PullInv'
    BY PullStep
  <2>2. W!TypeOK'
    BY SheetTypes
  <2>3. HistoryInv'
    BY HistoryStep
  <2>4. M!TypeOK'
    BY MappingStep DEF MCNext, Mappings
  <2>5. WorkInv'
    BY WorkStep
  <2> QED
    BY <2>1, <2>2, <2>3, <2>4, <2>5
<1>3. Typed /\ (which = "snapshots, alone" => S!TypeOK) => TypesOK
  BY HistoryTyped DEF PullInv, HistoryInv, WorkInv, Inv, TypesOK
<1> QED
  BY <1>1, <1>2, <1>3, LifecycleTyped, PTL DEF MCSpec

=============================================================================
