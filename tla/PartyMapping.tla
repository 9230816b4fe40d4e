---------------------------- MODULE PartyMapping ----------------------------
(***************************************************************************)
(* How the party names of staged workbooks become canonical parties of     *)
(* one entity.  A name resolves through the alias corpus (the parties and  *)
(* their aliases), which every server process caches for TTL; analysts and *)
(* two batch jobs create parties and aliases while they resolve rows, and  *)
(* the configuration pages edit aliases.                                   *)
(*                                                                         *)
(* A party is identified with its name, unique in its entity               *)
(* (uq_parties_canonical_entity_name); parties are read in the order of    *)
(* their names.  Names that differ in case, blanks or legal suffix have    *)
(* the same Stem.  Which other names a search finds close enough is left   *)
(* to Similar.  Rows that carry a GSTIN or a Xero contact are left out.    *)
(***************************************************************************)
EXTENDS Integers, FiniteSetsExt

CONSTANTS
  Procs, Reqs, ProcOf,   \* server processes, request slots, the process of each
  Names, Stem, Similar,  \* party names, in order; their stems; FUZZY_HIGH pairs
  Rows, SnapshotOf, NameOf,  \* rows, in order; the staged snapshot and the name of each
  TTL, MaxLoad,          \* life of a cached corpus; bound on the length of a request
  Cold                   \* no corpus in the cache

VARIABLES
  parties,   \* table parties_canonical
  aliases,   \* table party_aliases: <<text, party>>
  chosen,    \* the party staging_overrides_json names for a row
  cache,     \* the corpus each process keeps, its age and the time since it was read
  req

vars == <<parties, aliases, chosen, cache, req>>

-----------------------------------------------------------------------------
(* The corpus and what a name resolves to: fuse-alias.ts *)

Corpus == [parties: SUBSET Names, aliases: SUBSET (Names \X Names)]
Current == [parties |-> parties, aliases |-> aliases]
NoName == 0
Oldest == TTL + MaxLoad + 1      \* where ages stop counting

\* The texts a party is found by.
TextsOf(c, p) == {p} \cup {a[1] : a \in {b \in c.aliases : b[2] = p}}

ExactMatches(c, n) == {p \in c.parties : \E t \in TextsOf(c, p) : Stem[t] = Stem[n]}
FuzzyMatches(c, n) == {p \in c.parties : \E t \in TextsOf(c, p) : <<t, n>> \in Similar}

\* The first party in order on an exact match; else a close one is suggested.
Exact(c, n) == IF ExactMatches(c, n) = {} THEN NoName ELSE Min(ExactMatches(c, n))
TopMatches(c, n) ==
  IF ExactMatches(c, n) # {} THEN {Exact(c, n)} ELSE FuzzyMatches(c, n)

PartyOf(c, row) == IF chosen[row] # NoName THEN chosen[row] ELSE Exact(c, NameOf[row])

-----------------------------------------------------------------------------

Idle == [pc |-> "idle"]
NoPlan == [row \in Rows |-> NoName]
\* A request is loading the corpus (load, fill), has it (got), works through the
\* rows of todo (next, patch, create, alias), or has committed and not yet dropped the
\* cached corpus (drop).  near: the rows planned on a close match.  lag: how long ago
\* the corpus it has was read.
Request ==
  {Idle} \cup
  [pc: {"load", "fill", "got", "next", "patch", "create", "alias", "drop"},
   kind: {"view", "auto", "each", "bulk"}, todo: SUBSET Rows, party: Names \cup {NoName},
   plan: [Rows -> Names \cup {NoName}], near: SUBSET Rows,
   age: 0 .. MaxLoad, lag: 0 .. Oldest, corpus: Corpus]
Entry == [age: 0 .. TTL, lag: 0 .. Oldest, corpus: Corpus]

TypeOK ==
  /\ parties \subseteq Names
  /\ aliases \subseteq Names \X parties
  /\ chosen \in [Rows -> Names \cup {NoName}]
  /\ cache \in [Procs -> Entry \cup {Cold}]
  /\ req \in [Reqs -> Request]

Init ==
  /\ parties = {} /\ aliases = {}
  /\ chosen = [row \in Rows |-> NoName]
  /\ cache = [p \in Procs |-> Cold]
  /\ req = [r \in Reqs |-> Idle]

At(r, pc) == req[r].pc = pc
Goto(r, q) == req' = [req EXCEPT ![r] = q]
End(r) == Goto(r, Idle)
tables == <<parties, aliases, chosen>>

-----------------------------------------------------------------------------
(* loadCachedAliasCorpus *)

\* A request q asks for the corpus now: from the cache while it is young, else
\* from the database.
Asking(r, q) ==
  LET e == cache[ProcOf[r]] IN
  IF e # Cold /\ e.age < TTL
  THEN [q EXCEPT !.pc = "got", !.age = 0, !.lag = e.lag, !.corpus = e.corpus]
  ELSE [q EXCEPT !.pc = "load", !.age = 0, !.lag = 0]

Snapshots == {SnapshotOf[row] : row \in Rows}
Undecided(s) == {row \in Rows : SnapshotOf[row] = s /\ chosen[row] = NoName}

Start(kind, todo) ==
  [pc |-> "load", kind |-> kind, todo |-> todo, party |-> NoName, plan |-> NoPlan, near |-> {},
   age |-> 0, lag |-> 0, corpus |-> [parties |-> {}, aliases |-> {}]]

\* getStagingView, autoCreateCanonicals, bulkMapParties read a staged snapshot, then
\* build its rows.
Begin(r, kind) ==
  /\ At(r, "idle")
  /\ \E s \in Snapshots :
       Goto(r, Asking(r, Start(kind, IF kind = "view" THEN {} ELSE Undecided(s))))
  /\ UNCHANGED <<tables, cache>>

ReadCorpus(r) ==
  /\ At(r, "load")
  /\ Goto(r, [req[r] EXCEPT !.pc = "fill", !.lag = 0, !.corpus = Current])
  /\ UNCHANGED <<tables, cache>>

\* Fault: the entry is dated when it is stored.
FillDatedLate(r) ==
  /\ At(r, "fill")
  /\ cache' = [cache EXCEPT ![ProcOf[r]] =
       [age |-> 0, lag |-> req[r].lag, corpus |-> req[r].corpus]]
  /\ Goto(r, [req[r] EXCEPT !.pc = "got"])
  /\ UNCHANGED tables

\* The answer is stored whatever was invalidated meanwhile, dated when it was asked.
Fill(r) ==
  /\ At(r, "fill")
  /\ cache' = [cache EXCEPT ![ProcOf[r]] =
       [age |-> Min({req[r].age, TTL}), lag |-> req[r].lag, corpus |-> req[r].corpus]]
  /\ Goto(r, [req[r] EXCEPT !.pc = "got"])
  /\ UNCHANGED tables

\* invalidateAliasCorpus in the process of the request, then the rows once more.
DropCorpus(r) ==
  /\ At(r, "drop")
  /\ cache' = [cache EXCEPT ![ProcOf[r]] = Cold]
  /\ Goto(r, [req[r] EXCEPT !.pc = "load", !.age = 0, !.lag = 0])
  /\ UNCHANGED tables

-----------------------------------------------------------------------------
(* patchStagingRow *)

\* Exact text, not stem: the look-ups of the two batch jobs in the database.
Known(n, texts) == {p \in parties : p = n \/ \E t \in texts : <<t, p>> \in aliases}

\* resolve_alias with create_alias.  An alias on file violates its unique key; the
\* error is caught, but Postgres has given the transaction up and its next
\* statement fails.
ResolveRow(row, p) ==
  IF <<NameOf[row], p>> \in aliases THEN UNCHANGED tables
  ELSE /\ aliases' = aliases \cup {<<NameOf[row], p>>}
       /\ chosen' = [chosen EXCEPT ![row] = p]
       /\ UNCHANGED parties

\* create_canonical, with the row's name as alias.
CreateParty(row, n) ==
  IF n \in parties THEN UNCHANGED tables
  ELSE /\ parties' = parties \cup {n}
       /\ aliases' = aliases \cup {<<NameOf[row], n>>}
       /\ chosen' = [chosen EXCEPT ![row] = n]

\* After its transaction a request drops the cache, or fails with it.
Committed(r, q) ==
  IF tables' = tables THEN End(r) ELSE Goto(r, [q EXCEPT !.pc = "drop"])

\* An analyst resolves one row, with or without an alias, or creates its party.
Patch(r, row) ==
  /\ At(r, "idle")
  /\ \/ \E p \in parties : ResolveRow(row, p) /\ Committed(r, Start("view", {}))
     \/ \E n \in Names : CreateParty(row, n) /\ Committed(r, Start("view", {}))
     \/ \E p \in parties :
          /\ chosen' = [chosen EXCEPT ![row] = p]
          /\ UNCHANGED <<parties, aliases>>
          /\ Goto(r, Asking(r, Start("view", {})))
  /\ UNCHANGED cache

-----------------------------------------------------------------------------
(* What a request does with the corpus *)

View(r) == At(r, "got") /\ req[r].kind = "view" /\ End(r) /\ UNCHANGED <<tables, cache>>

\* autoCreateCanonicals takes the rows for which nothing at all was found when it
\* began, and goes on with those left.
AutoRows(r) ==
  /\ At(r, "got") /\ req[r].kind \in {"auto", "each"}
  /\ LET q == req[r]
         rows == IF q.kind = "each" THEN q.todo
                 ELSE {row \in q.todo : TopMatches(q.corpus, NameOf[row]) = {}} IN
     IF rows = {} THEN End(r)
     ELSE Goto(r, [q EXCEPT !.pc = "next", !.kind = "each", !.todo = rows, !.age = 0])
  /\ UNCHANGED <<tables, cache>>

\* One row after the other: its name is looked up, then the row resolved or its
\* party created, and the rows are built anew.
AutoLookup(r) ==
  LET n == NameOf[Min(req[r].todo)] IN
  /\ At(r, "next") /\ req[r].kind = "each"
  /\ Goto(r, [req[r] EXCEPT !.pc = "patch",
                !.party = IF Known(n, {n}) = {} THEN NoName ELSE Min(Known(n, {n}))])
  /\ UNCHANGED <<tables, cache>>

AutoPatch(r) ==
  LET row == Min(req[r].todo) IN
  /\ At(r, "patch")
  /\ IF req[r].party = NoName THEN CreateParty(row, NameOf[row])
     ELSE ResolveRow(row, req[r].party)
  /\ Committed(r, [req[r] EXCEPT !.todo = @ \ {row}, !.age = 0])
  /\ UNCHANGED cache

\* Fault: each row is a group of its own.
GroupOfOne(q) == {Min(q.todo)}

\* computePartyMappingSummary groups the undecided rows by stem.
GroupOf(q) == {row \in q.todo : Stem[NameOf[row]] = Stem[NameOf[Min(q.todo)]]}

RawNames(q) == {NameOf[row] : row \in GroupOf(q)}

\* The rows of the group are to be mapped to the party.
Planned(q, p) ==
  [q EXCEPT !.pc = "next", !.todo = @ \ GroupOf(q), !.party = NoName, !.age = 0,
            !.plan = [row \in Rows |-> IF row \in GroupOf(q) THEN p ELSE @[row]]]

\* bulkMapParties first takes the groups in turn, outside any transaction: an exact
\* match stands, a close one too, and else the display name, that of the group's first
\* row, and the raw names are looked up in the database.
BulkGroup(r) ==
  LET q == req[r]
      n == NameOf[Min(q.todo)] IN
  /\ q.pc \in {"got", "next"} /\ q.kind = "bulk" /\ q.todo # {}
  /\ \/ /\ ExactMatches(q.corpus, n) # {}
        /\ Goto(r, Planned(q, Exact(q.corpus, n)))
     \/ /\ ExactMatches(q.corpus, n) = {}
        /\ \E p \in FuzzyMatches(q.corpus, n) :
             Goto(r, [Planned(q, p) EXCEPT !.near = @ \cup GroupOf(q)])
     \/ /\ TopMatches(q.corpus, n) = {}
        /\ \E p \in Known(n, RawNames(q)) : Goto(r, Planned(q, p))
     \/ /\ TopMatches(q.corpus, n) = {} /\ Known(n, RawNames(q)) = {}
        /\ Goto(r, [q EXCEPT !.pc = "create"])
  /\ UNCHANGED <<tables, cache>>

\* The party is created, or its name is taken by now and the request fails.
BulkCreate(r) ==
  LET q == req[r]
      n == NameOf[Min(q.todo)] IN
  /\ At(r, "create")
  /\ IF n \in parties THEN End(r) /\ UNCHANGED parties
     ELSE parties' = parties \cup {n} /\ Goto(r, [q EXCEPT !.pc = "alias", !.party = n])
  /\ UNCHANGED <<aliases, chosen, cache>>

\* Then, by a statement of its own, it gets the raw names as aliases.
BulkAlias(r) ==
  LET q == req[r] IN
  /\ At(r, "alias")
  /\ aliases' = aliases \cup (RawNames(q) \X {q.party})
  /\ Goto(r, Planned(q, q.party))
  /\ UNCHANGED <<parties, chosen, cache>>

\* After all groups, those with a close match get their names as its aliases.
BulkClose(r) ==
  LET q == req[r]
      group == {row \in q.near : Stem[NameOf[row]] = Stem[NameOf[Min(q.near)]]} IN
  /\ At(r, "next") /\ q.kind = "bulk" /\ q.todo = {} /\ q.near # {}
  /\ aliases' = aliases \cup {<<NameOf[row], q.plan[row]>> : row \in group}
  /\ Goto(r, [q EXCEPT !.near = @ \ group, !.age = 0])
  /\ UNCHANGED <<parties, chosen, cache>>

\* One transaction appends the entries of all groups.
BulkCommit(r) ==
  LET q == req[r] IN
  /\ q.pc \in {"got", "next"} /\ q.kind = "bulk" /\ q.todo = {} /\ q.near = {}
  /\ IF q.plan = NoPlan THEN End(r)
     ELSE Goto(r, [q EXCEPT !.pc = "drop", !.kind = "view", !.plan = NoPlan, !.age = 0])
  /\ chosen' = [row \in Rows |-> IF q.plan[row] # NoName THEN q.plan[row] ELSE chosen[row]]
  /\ UNCHANGED <<parties, aliases, cache>>

-----------------------------------------------------------------------------
(* The alias pages: none of them drops the cached corpus. *)

CreateAlias == \E t \in Names, p \in parties : aliases' = aliases \cup {<<t, p>>}
PatchAlias ==
  \E a \in aliases, t \in Names :
    <<t, a[2]>> \notin aliases /\ aliases' = (aliases \ {a}) \cup {<<t, a[2]>>}
DeleteAlias == \E a \in aliases : aliases' = aliases \ {a}

EditAliases ==
  /\ CreateAlias \/ PatchAlias \/ DeleteAlias
  /\ UNCHANGED <<parties, chosen, cache, req>>

-----------------------------------------------------------------------------

\* A server process ends, and with it what it cached and was doing.
Crash(p) ==
  /\ cache' = [cache EXCEPT ![p] = Cold]
  /\ req' = [r \in Reqs |-> IF ProcOf[r] = p THEN Idle ELSE req[r]]
  /\ UNCHANGED tables

\* A statement fails, and its request with it: what was committed stays.
Fail(r) == ~At(r, "idle") /\ End(r) /\ UNCHANGED <<tables, cache>>

Older(n, most) == Min({n + 1, most})

\* Time passes, but no request takes longer than MaxLoad between two answers.
Tick ==
  /\ \A r \in Reqs : req[r] # Idle => req[r].age < MaxLoad
  /\ cache' = [p \in Procs |-> IF cache[p] = Cold THEN Cold
       ELSE [cache[p] EXCEPT !.age = Older(@, TTL), !.lag = Older(@, Oldest)]]
  /\ req' = [r \in Reqs |-> IF req[r] = Idle THEN Idle
       ELSE [req[r] EXCEPT !.age = @ + 1, !.lag = Older(@, Oldest)]]
  /\ UNCHANGED tables

Advance(r) ==
  \/ ReadCorpus(r) \/ Fill(r) \/ DropCorpus(r) \/ View(r)
  \/ AutoRows(r) \/ AutoLookup(r) \/ AutoPatch(r)
  \/ BulkGroup(r) \/ BulkCreate(r) \/ BulkAlias(r) \/ BulkClose(r) \/ BulkCommit(r)

Views == \E r \in Reqs : Begin(r, "view")
Bulks == \E r \in Reqs : Begin(r, "bulk")
Others == \E r \in Reqs : Begin(r, "auto") \/ \E row \in Rows : Patch(r, row)

Failures == \E r \in Reqs : Fail(r)
Works == \E r \in Reqs : Advance(r)
Internal == Tick \/ Works \/ \E p \in Procs : Crash(p)

Next == Views \/ Bulks \/ Others \/ EditAliases \/ Failures \/ Internal

Spec == Init /\ [][Next]_vars

-----------------------------------------------------------------------------

\* "TTL is a safety net" (loadCachedAliasCorpus): whoever stores what in the cache,
\* in whatever order answers arrive, rows are never resolved with a corpus that
\* was read longer than TTL before the request asked for it.
StaleAtMostTtl ==
  \A r \in Reqs : At(r, "got") => req[r].lag < TTL + req[r].age \/ req[r].lag =< req[r].age

\* "so the next read picks up the fresh data" (invalidateAliasCorpus): a request
\* resolves rows with the parties and aliases the database has.
NextReadFresh == \A r \in Reqs : At(r, "got") => req[r].corpus = Current

\* No two parties have names that differ only in case, blanks or legal suffix.
NoTwins == \A p, q \in parties : Stem[p] = Stem[q] => p = q

\* The snapshots with names of one stem spell it alike, each in its first row of it.
Leads(x) ==
  \A y \in Rows : SnapshotOf[y] = SnapshotOf[x] /\ Stem[NameOf[y]] = Stem[NameOf[x]] => x =< y
SpeltAlike(stem) ==
  \A x, y \in Rows :
    Leads(x) /\ Leads(y) /\ Stem[NameOf[x]] = stem /\ Stem[NameOf[y]] = stem => NameOf[x] = NameOf[y]

\* No two parties have names of a stem that the snapshots spell alike.
NoTwinsAlike == \A p, q \in parties : p # q /\ Stem[p] = Stem[q] => ~SpeltAlike(Stem[p])

=============================================================================
