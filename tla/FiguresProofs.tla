--------------------------- MODULE FiguresProofs ---------------------------
(***************************************************************************)
(* What one page says is owed, another says too, for any parties, invoices,*)
(* files and rates, proved with TLAPS.  Whatever the order of the days, an  *)
(* invoice is open when it is in the snapshot published last of its entity,*)
(* for the amount of its row there; where snapshots come in the order of   *)
(* their days, that row is the newest, so the pages sum the same amounts.  *)
(***************************************************************************)
EXTENDS Figures, FiniteSetTheorems, SequenceTheorems, WellFoundedInduction, TLAPS

-----------------------------------------------------------------------------
(* Sums over finite sets *)

\* A set that has every subset of which it has all those with one element less (the empty
\* one among them) has all.
LEMMA AllFinite ==
  ASSUME NEW T, IsFiniteSet(T), NEW N,
         \A U \in SUBSET T : (\A x \in U : U \ {x} \in N) => U \in N
  PROVE  SUBSET T \subseteq N
<1> DEFINE Others == (SUBSET T) \ N
<1> SUFFICES ASSUME Others # {} PROVE FALSE
  OBVIOUS
<1>1. Others \subseteq FiniteSubsetsOf(T)
  <2>1. \A U \in SUBSET T : IsFiniteSet(U)
    BY FS_Subset
  <2> QED
    BY <2>1 DEF FiniteSubsetsOf
<1>2. PICK least \in Others : \A U \in Others : <<U, least>> \notin StrictSubsetOrdering(T)
  <2> HIDE DEF Others
  <2> QED
    BY <1>1, FS_StrictSubsetOrderingWellFounded, WFMin
<1>3. ASSUME NEW x \in least PROVE least \ {x} \in N
  <2>1. <<least \ {x}, least>> \in StrictSubsetOrdering(T)
    BY <1>2 DEF StrictSubsetOrdering
  <2> QED
    BY <1>2, <2>1
<1>4. least \in SUBSET T /\ least \notin N
  BY <1>2
<1> HIDE DEF Others
<1>5. least \in N
  BY <1>3, <1>4
<1> QED
  BY <1>4, <1>5

\* The same, where an element to leave out can be chosen.
LEMMA AllFiniteBy ==
  ASSUME NEW T, IsFiniteSet(T), NEW N, {} \in N,
         \A U \in SUBSET T : \A x \in U : U \ {x} \in N => U \in N
  PROVE  SUBSET T \subseteq N
<1>1. ASSUME NEW U \in SUBSET T, \A x \in U : U \ {x} \in N PROVE U \in N
  <2>1. CASE U = {}
    BY <2>1
  <2>2. CASE U # {}
    BY <1>1, <2>2
  <2> QED
    BY <2>1, <2>2
<1> QED
  BY <1>1, AllFinite

\* g sums the numbers of F over each subset of T.
SumsOver(g, T, F) ==
  /\ g \in [SUBSET T -> Int] /\ g[{}] = 0
  /\ \A U \in SUBSET T : \A x \in U : g[U] = F[x] + g[U \ {x}]

LEMMA SumsExist ==
  ASSUME NEW T, IsFiniteSet(T), NEW F \in [T -> Int]
  PROVE  \E g : SumsOver(g, T, F)
<1> DEFINE N == {U \in SUBSET T : \E g : SumsOver(g, U, F)}
<1>1. {} \in N
  <2> DEFINE g == [U \in SUBSET {} |-> 0]
  <2>1. SumsOver(g, {}, F)
    BY DEF SumsOver
  <2> HIDE DEF g
  <2> QED
    BY <2>1
<1>2. ASSUME NEW U \in SUBSET T, NEW x \in U, U \ {x} \in N PROVE U \in N
  <2>1. PICK f : SumsOver(f, U \ {x}, F)
    BY <1>2
  <2> DEFINE g == [V \in SUBSET U |-> IF x \in V THEN F[x] + f[V \ {x}] ELSE f[V]]
  <2>2. f \in [SUBSET (U \ {x}) -> Int] /\ \A y \in U : F[y] \in Int
    BY <2>1 DEF SumsOver
  <2>3. \A V \in SUBSET U : V \ {x} \in SUBSET (U \ {x}) /\ (x \notin V => V \in SUBSET (U \ {x}))
    OBVIOUS
  <2>4. ASSUME NEW V \in SUBSET U
        PROVE  g[V] \in Int /\ g[V] = IF x \in V THEN F[x] + f[V \ {x}] ELSE f[V]
    BY <2>2, <2>3
  <2>5. g \in [SUBSET U -> Int] /\ g[{}] = 0
    <3>1. g[{}] = f[{}] /\ f[{}] = 0
      BY <2>1 DEF SumsOver
    <3>2. \A V \in SUBSET U : g[V] \in Int
      BY <2>4
    <3>3. g = [V \in SUBSET U |-> g[V]]
      OBVIOUS
    <3> HIDE DEF g
    <3> QED
      BY <3>1, <3>2, <3>3
  <2>6. ASSUME NEW V \in SUBSET U, NEW y \in V PROVE g[V] = F[y] + g[V \ {y}]
    <3>1. CASE y = x
      <4>1. g[V \ {x}] = f[V \ {x}]
        BY <2>4
      <4> QED
        BY <3>1, <4>1, <2>4
    <3>2. CASE y # x /\ x \notin V
      <4>1. V \in SUBSET (U \ {x}) /\ f[V] = F[y] + f[V \ {y}]
        BY <3>2, <2>1, <2>3 DEF SumsOver
      <4>2. g[V] = f[V] /\ g[V \ {y}] = f[V \ {y}]
        BY <3>2, <2>4
      <4> QED
        BY <4>1, <4>2
    <3>3. CASE y # x /\ x \in V
      <4>1. V \ {x} \in SUBSET (U \ {x}) /\ y \in V \ {x}
        BY <3>3
      <4>2. f[V \ {x}] = F[y] + f[(V \ {x}) \ {y}]
        BY <4>1, <2>1 DEF SumsOver
      <4>3. (V \ {x}) \ {y} = (V \ {y}) \ {x} /\ x \in V \ {y} /\ V \ {y} \in SUBSET U
        BY <3>3
      <4>4. g[V] = F[x] + f[V \ {x}] /\ g[V \ {y}] = F[x] + f[(V \ {y}) \ {x}]
        BY <3>3, <4>3, <2>4
      <4>5. F[x] \in Int /\ F[y] \in Int /\ f[(V \ {y}) \ {x}] \in Int
        BY <2>2, <2>3, <4>3
      <4> HIDE DEF g
      <4>6. g[V] = F[x] + (F[y] + f[(V \ {y}) \ {x}])
        BY <4>2, <4>3, <4>4
      <4> QED
        BY <4>4, <4>5, <4>6
    <3> QED
      BY <3>1, <3>2, <3>3
  <2> HIDE DEF g
  <2>7. SumsOver(g, U, F)
    BY <2>5, <2>6 DEF SumsOver
  <2> QED
    BY <2>7
<1>3. T \in N
  <2> HIDE DEF N
  <2> QED
    BY <1>1, <1>2, AllFiniteBy
<1> QED
  BY <1>3

Splits(g, T) ==
  \A U \in SUBSET T : \A V \in SUBSET T : U \cap V = {} => g[U \cup V] = g[U] + g[V]

LEMMA SumSplits ==
  ASSUME NEW T, IsFiniteSet(T), NEW F \in [T -> Int], NEW g, SumsOver(g, T, F)
  PROVE  Splits(g, T)
<1> SUFFICES ASSUME NEW U \in SUBSET T, NEW V \in SUBSET T, U \cap V = {}
             PROVE  g[U \cup V] = g[U] + g[V]
  BY DEF Splits
<1> DEFINE N == {D \in SUBSET V : g[U \cup D] = g[U] + g[D]}
<1>0. g \in [SUBSET T -> Int] /\ g[{}] = 0 /\ \A x \in T : F[x] \in Int
  BY DEF SumsOver
<1>1. {} \in N
  BY <1>0
<1>2. ASSUME NEW D \in SUBSET V, NEW x \in D, D \ {x} \in N PROVE D \in N
  <2>1. g[D] = F[x] + g[D \ {x}] /\ g[U \cup D] = F[x] + g[(U \cup D) \ {x}]
    BY DEF SumsOver
  <2>2. (U \cup D) \ {x} = U \cup (D \ {x})
    OBVIOUS
  <2>3. g[U \cup (D \ {x})] = g[U] + g[D \ {x}]
    BY <1>2
  <2>4. g[U] \in Int /\ g[D \ {x}] \in Int /\ F[x] \in Int
    <3>1. D \ {x} \in SUBSET T /\ x \in T
      OBVIOUS
    <3> QED
      BY <1>0, <3>1
  <2>5. g[U \cup D] = F[x] + (g[U] + g[D \ {x}])
    BY <2>1, <2>2, <2>3
  <2>6. g[U \cup D] = g[U] + g[D]
    BY <2>1, <2>4, <2>5
  <2> QED
    BY <2>6
<1>3. IsFiniteSet(V)
  BY FS_Subset
<1>4. V \in N
  <2> HIDE DEF N
  <2> QED
    BY <1>1, <1>2, <1>3, AllFiniteBy
<1> QED
  BY <1>4

\* How the fold of MapThenSumSet goes over the subsets of D.
Adds(h, D, F) ==
  h = [s \in SUBSET D |-> IF s = {} THEN 0
         ELSE F[CHOOSE x \in s : TRUE] + h[s \ {CHOOSE x \in s : TRUE}]]

AddsUpTo(D, F, v) == (\E h : Adds(h, D, F)) /\ \A h : Adds(h, D, F) => h[D] = v

LEMMA AddsIs ==
  ASSUME NEW T, IsFiniteSet(T), NEW F, NEW g, SumsOver(g, T, F),
         NEW D \in SUBSET T
  PROVE  AddsUpTo(D, F, g[D])
<1>1. ASSUME NEW s \in SUBSET D, s # {}
      PROVE  LET c == CHOOSE x \in s : TRUE IN
             c \in s /\ g[s] = F[c] + g[s \ {c}]
  <2>1. (CHOOSE x \in s : TRUE) \in s
    BY <1>1
  <2>2. s \in SUBSET T
    OBVIOUS
  <2> QED
    BY <2>1, <2>2 DEF SumsOver
<1>2. \E h : Adds(h, D, F)
  <2> DEFINE h == [s \in SUBSET D |-> g[s]]
  <2>1. ASSUME NEW s \in SUBSET D
        PROVE  h[s] = IF s = {} THEN 0
                      ELSE F[CHOOSE x \in s : TRUE] + h[s \ {CHOOSE x \in s : TRUE}]
    <3>1. CASE s = {}
      BY <3>1 DEF SumsOver
    <3>2. CASE s # {}
      BY <3>2, <1>1
    <3> QED
      BY <3>1, <3>2
  <2>2. h = [s \in SUBSET D |-> h[s]]
    OBVIOUS
  <2> HIDE DEF h
  <2>3. Adds(h, D, F)
    BY <2>1, <2>2 DEF Adds
  <2> QED
    BY <2>3
<1>3. ASSUME NEW h, Adds(h, D, F) PROVE h[D] = g[D]
  <2> DEFINE N == {s \in SUBSET D : h[s] = g[s]}
  <2>1. h[{}] = 0 /\ g[{}] = 0
    BY <1>3 DEF Adds, SumsOver
  <2>2. ASSUME NEW s \in SUBSET D, \A x \in s : s \ {x} \in N PROVE s \in N
    <3>1. CASE s = {}
      BY <2>1, <3>1
    <3>2. CASE s # {}
      <4> DEFINE c == CHOOSE x \in s : TRUE
      <4>1. c \in s /\ g[s] = F[c] + g[s \ {c}]
        BY <1>1, <3>2
      <4>2. h[s] = F[c] + h[s \ {c}]
        BY <1>3, <3>2 DEF Adds
      <4> HIDE DEF c
      <4>3. h[s \ {c}] = g[s \ {c}]
        BY <2>2, <4>1
      <4> QED
        BY <4>1, <4>2, <4>3
    <3> QED
      BY <3>1, <3>2
  <2>3. IsFiniteSet(D)
    BY FS_Subset
  <2>4. D \in N
    <3> HIDE DEF N
    <3> QED
      BY <2>2, <2>3, AllFinite
  <2> QED
    BY <2>4
<1> QED
  BY <1>2, <1>3 DEF AddsUpTo

\* Of finitely many, one has the greatest number.
LEMMA GreatestExists ==
  ASSUME NEW S, IsFiniteSet(S), S # {}, NEW K \in [S -> Int]
  PROVE  \E x \in S : \A y \in S : K[y] =< K[x]
<1> DEFINE N == {U \in SUBSET S : U # {} => \E x \in U : \A y \in U : K[y] =< K[x]}
<1>1. {} \in N
  OBVIOUS
<1>2. ASSUME NEW U \in SUBSET S, NEW z \in U, U \ {z} \in N PROVE U \in N
  <2>0. \A y \in U : K[y] \in Int
    OBVIOUS
  <2>1. CASE U \ {z} = {}
    <3>1. \A y \in U : y = z
      BY <2>1
    <3>2. \A y \in U : K[y] =< K[z]
      BY <2>0, <3>1
    <3> QED
      BY <3>2
  <2>2. CASE U \ {z} # {}
    <3>1. PICK x \in U \ {z} : \A y \in U \ {z} : K[y] =< K[x]
      BY <1>2, <2>2
    <3>2. K[x] \in Int /\ K[z] \in Int
      BY <2>0
    <3>3. CASE K[z] =< K[x]
      <4>1. \A y \in U : K[y] =< K[x]
        BY <3>1, <3>3
      <4> QED
        BY <4>1
    <3>4. CASE ~(K[z] =< K[x])
      <4>1. \A y \in U : K[y] =< K[z]
        BY <2>0, <3>1, <3>2, <3>4
      <4> QED
        BY <4>1
    <3> QED
      BY <3>3, <3>4
  <2> QED
    BY <2>1, <2>2
<1> HIDE DEF N
<1>3. S \in N
  BY <1>1, <1>2, AllFiniteBy
<1> QED
  BY <1>3 DEF N

\* A sum over a set is the sum over what its members stand for, if no two stand for one.
LEMMA SumByIndex ==
  ASSUME NEW T, IsFiniteSet(T), NEW F, NEW g, SumsOver(g, T, F),
         NEW D, NEW f \in [D -> T], \A x, y \in D : f[x] = f[y] => x = y,
         NEW H, \A x \in D : H[x] = F[f[x]]
  PROVE  AddsUpTo(D, H, g[{f[x] : x \in D}])
<1> DEFINE Image(U) == {f[x] : x \in U}
           G == [U \in SUBSET D |-> g[Image(U)]]
<1>1. IsFiniteSet(D)
  <2>1. f \in Injection(D, T)
    BY DEF Injection, IsInjective
  <2> QED
    BY <2>1, FS_Injection
<1>2. \A U \in SUBSET D : Image(U) \in SUBSET T
  OBVIOUS
<1>3. SumsOver(G, D, H)
  <2>1. G \in [SUBSET D -> Int]
    <3>1. \A U \in SUBSET D : g[Image(U)] \in Int
      <4> HIDE DEF Image
      <4> QED
        BY <1>2 DEF SumsOver
    <3> HIDE DEF Image
    <3> QED
      BY <3>1
  <2>2. G[{}] = 0
    <3>1. Image({}) = {}
      OBVIOUS
    <3> HIDE DEF Image
    <3> QED
      BY <3>1 DEF SumsOver
  <2>3. ASSUME NEW U \in SUBSET D, NEW x \in U PROVE G[U] = H[x] + G[U \ {x}]
    <3>1. Image(U \ {x}) = Image(U) \ {f[x]} /\ f[x] \in Image(U)
      OBVIOUS
    <3>2. G[U] = g[Image(U)] /\ G[U \ {x}] = g[Image(U \ {x})]
      OBVIOUS
    <3> HIDE DEF Image, G
    <3>3. g[Image(U)] = F[f[x]] + g[Image(U) \ {f[x]}]
      BY <1>2, <3>1 DEF SumsOver
    <3> QED
      BY <3>1, <3>2, <3>3
  <2> HIDE DEF G
  <2> QED
    BY <2>1, <2>2, <2>3 DEF SumsOver
<1>4. AddsUpTo(D, H, G[D])
  <2> HIDE DEF G
  <2> QED
    BY <1>1, <1>3, AddsIs
<1> QED
  BY <1>4

\* Finitely many parts of T that do not overlap, and what they make up.
Parts(K, P, T) ==
  /\ IsFiniteSet(P) /\ K \in [P -> SUBSET T]
  /\ \A p, q \in P : p # q => K[p] \cap K[q] = {}

Each(H, K, P, g) == \A p \in P : H[p] = g[K[p]]
Joined(K, P) == UNION {K[p] : p \in P}

\* The sums of parts that do not overlap add up to the sum of the whole.
LEMMA SumOfSums ==
  ASSUME NEW T, IsFiniteSet(T), NEW F \in [T -> Int], NEW g, SumsOver(g, T, F),
         NEW P, NEW K, Parts(K, P, T), NEW H, Each(H, K, P, g)
  PROVE  AddsUpTo(P, H, g[Joined(K, P)])
<1> USE DEF Parts, Each
<1> DEFINE All(Q) == UNION {K[p] : p \in Q}
           G == [Q \in SUBSET P |-> g[All(Q)]]
<1>1. Splits(g, T)
  BY SumSplits
<1>2. \A Q \in SUBSET P : All(Q) \in SUBSET T
  OBVIOUS
<1>3. SumsOver(G, P, H)
  <2>1. G \in [SUBSET P -> Int]
    <3>1. \A Q \in SUBSET P : g[All(Q)] \in Int
      <4> HIDE DEF All
      <4> QED
        BY <1>2 DEF SumsOver
    <3> HIDE DEF All
    <3> QED
      BY <3>1
  <2>2. G[{}] = 0
    <3>1. All({}) = {}
      OBVIOUS
    <3> HIDE DEF All
    <3> QED
      BY <3>1 DEF SumsOver
  <2>3. ASSUME NEW Q \in SUBSET P, NEW q \in Q PROVE G[Q] = H[q] + G[Q \ {q}]
    <3>1. All(Q) = K[q] \cup All(Q \ {q})
      OBVIOUS
    <3>2. K[q] \cap All(Q \ {q}) = {}
      OBVIOUS
    <3>3. G[Q] = g[All(Q)] /\ G[Q \ {q}] = g[All(Q \ {q})]
      OBVIOUS
    <3>4. K[q] \in SUBSET T /\ All(Q \ {q}) \in SUBSET T
      BY <1>2
    <3> HIDE DEF All, G
    <3>5. g[K[q] \cup All(Q \ {q})] = g[K[q]] + g[All(Q \ {q})]
      BY <1>1, <3>2, <3>4 DEF Splits
    <3> QED
      BY <3>1, <3>3, <3>5
  <2> HIDE DEF G
  <2> QED
    BY <2>1, <2>2, <2>3 DEF SumsOver
<1>4. AddsUpTo(P, H, G[P])
  <2> HIDE DEF G
  <2> QED
    BY <1>3, AddsIs
<1> QED
  BY <1>4 DEF Joined

\* What is assumed: finitely many parties, invoices and rates, whole amounts, rates and
\* days, and no entity that is called like the choice of all of them.
Parameters ==
  /\ IsFiniteSet(Parties) /\ IsFiniteSet(Invoices) /\ IsFiniteSet(Rates)
  /\ EntityOf \in [Parties -> Entities] /\ PartyOf \in [Invoices -> Parties]
  /\ DatedOn \in [Invoices -> Int] /\ TermOf \in [Invoices -> Int]
  /\ Days \subseteq Int /\ Amounts \subseteq Int
  /\ \A r \in Rates : r.since \in Int /\ r.rate \in Int
  /\ ExportRows \in Nat /\ MaxPublished \in Nat
  /\ "ANY" \notin Entities

-----------------------------------------------------------------------------
(* The inductive invariant *)

Lines(n) == DOMAIN published[n].rows

\* A file holds invoices of its entity, and a day of an entity is published once.
FilesKept ==
  /\ \A n \in DOMAIN published : \A i \in Lines(n) : EntityOfInvoice(i) = published[n].entity
  /\ \A k, n \in DOMAIN published :
       published[k].entity = published[n].entity /\ published[k].day = published[n].day => k = n

\* An invoice is open when it is in the snapshot published last of its entity, for the
\* amount of its row there.
OpenIsLast ==
  /\ \A i \in Invoices : inv[i].status = "OPEN" <=> \E n \in LatestIds : i \in Lines(n)
  /\ \A n \in LatestIds : \A i \in Lines(n) : inv[i].amount = published[n].rows[i].amount

Inv == TypeOK /\ FilesKept /\ OpenIsLast

\* What a published snapshot holds.
LEMMA PublishedTyped ==
  ASSUME TypeOK
  PROVE  /\ Len(published) \in Nat /\ DOMAIN published = 1 .. Len(published)
         /\ \A n \in DOMAIN published :
              /\ published[n].entity \in Entities /\ published[n].day \in Days
              /\ Lines(n) \subseteq Invoices
              /\ \A i \in Lines(n) : published[n].rows[i].amount \in Amounts
<1> DEFINE R == UNION {[S -> [amount : Amounts, times : 1..2]] : S \in SUBSET Invoices}
           P == [entity : Entities, day : Days, rows : R]
<1>1. published \in Seq(P)
  BY DEF TypeOK
<1>2. \A r \in R : DOMAIN r \subseteq Invoices /\ \A i \in DOMAIN r : r[i].amount \in Amounts
  OBVIOUS
<1> HIDE DEF R
<1>3. \A s \in P : s.entity \in Entities /\ s.day \in Days /\ s.rows \in R
  OBVIOUS
<1> HIDE DEF P
<1>4. Len(published) \in Nat /\ DOMAIN published = 1 .. Len(published)
  BY <1>1
<1>5. \A n \in DOMAIN published : published[n] \in P
  BY <1>1, <1>4
<1> QED
  BY <1>2, <1>3, <1>4, <1>5 DEF Lines

\* What one publish does to the table of snapshots.
Appended(e, day, rows) ==
  /\ DOMAIN published = 1 .. Len(published) /\ Len(published) \in Nat
  /\ DOMAIN published' = 1 .. Len(published) + 1
  /\ \A k \in DOMAIN published : k # Len(published) + 1 /\ published'[k] = published[k]
  /\ published'[Len(published) + 1] = [entity |-> e, day |-> day, rows |-> rows]

LEMMA PublishAppends ==
  ASSUME TypeOK, NEW e, NEW day, NEW rows, Publish(e, day, rows)
  PROVE  Appended(e, day, rows)
<1> DEFINE R == UNION {[S -> [amount : Amounts, times : 1..2]] : S \in SUBSET Invoices}
           P == [entity : Entities, day : Days, rows : R]
           s == [entity |-> e, day |-> day, rows |-> rows]
<1>1. published \in Seq(P) /\ published' = Append(published, s)
  BY DEF TypeOK, Publish
<1> HIDE DEF P, s
<1>2. /\ Len(published) \in Nat /\ DOMAIN published = 1 .. Len(published)
  BY <1>1
<1>3. /\ DOMAIN published' = 1 .. Len(published) + 1
      /\ \A k \in 1 .. Len(published) : published'[k] = published[k]
      /\ published'[Len(published) + 1] = s
  BY <1>1, <1>2
<1> QED
  BY <1>2, <1>3 DEF Appended, s

LEMMA TypeStep ==
  ASSUME MaxPublished \in Nat, TypeOK, Next
  PROVE  TypeOK'
<1> DEFINE R == UNION {[S -> [amount : Amounts, times : 1..2]] : S \in SUBSET Invoices}
           P == [entity : Entities, day : Days, rows : R]
           Kept == [status : {"NONE", "OPEN", "SETTLED"}, amount : Amounts \cup {0},
                    firstSeen : 0 .. MaxPublished, settledBy : 0 .. MaxPublished]
<1>1. published \in Seq(P) /\ inv \in [Invoices -> Kept]
  BY DEF TypeOK
<1>2. PICK e \in Entities, day \in Days : \E rows \in Files(e) : Publish(e, day, rows)
  BY DEF Next
<1>3. PICK rows \in Files(e) : Publish(e, day, rows)
  BY <1>2
<1>4. PICK S \in SUBSET Invoices : rows \in [S -> [amount : Amounts, times : 1..2]]
  BY <1>3 DEF Files
<1>5. [entity |-> e, day |-> day, rows |-> rows] \in P
  BY <1>4
<1>6. published' \in Seq(P)
  <2> HIDE DEF P
  <2> QED
    BY <1>1, <1>3, <1>5, AppendProperties DEF Publish
<1>7. PICK n : n = Len(published) + 1
  OBVIOUS
<1>8. n \in 0 .. MaxPublished
  <2>1. Len(published) \in Nat
    BY <1>1, LenProperties
  <2>2. Len(published) + 1 <= MaxPublished
    BY <1>3 DEF Publish
  <2> QED
    BY <1>7, <2>1, <2>2
<1>9. inv' = [i \in Invoices |->
         CASE i \in DOMAIN rows ->
                [status |-> "OPEN", amount |-> rows[i].amount, settledBy |-> 0,
                 firstSeen |-> IF inv[i].status = "NONE" THEN n ELSE inv[i].firstSeen]
           [] i \notin DOMAIN rows /\ EntityOfInvoice(i) = e /\ inv[i].status = "OPEN" ->
                [inv[i] EXCEPT !.status = "SETTLED", !.settledBy = n]
           [] OTHER -> inv[i]]
  BY <1>3, <1>7 DEF Publish
<1>10. ASSUME NEW i \in Invoices PROVE inv'[i] \in Kept
  <2>1. inv[i] \in Kept
    BY <1>1
  <2>2. CASE i \in DOMAIN rows
    <3>1. rows[i].amount \in Amounts
      BY <1>4, <2>2
    <3>2. inv'[i] = [status |-> "OPEN", amount |-> rows[i].amount, settledBy |-> 0,
                     firstSeen |-> IF inv[i].status = "NONE" THEN n ELSE inv[i].firstSeen]
      BY <1>9, <2>2
    <3>3. (IF inv[i].status = "NONE" THEN n ELSE inv[i].firstSeen) \in 0 .. MaxPublished
      BY <1>8, <2>1
    <3>4. 0 \in 0 .. MaxPublished
      BY <1>8
    <3> QED
      BY <3>1, <3>2, <3>3, <3>4
  <2>3. CASE i \notin DOMAIN rows
    <3>1. inv'[i] = [inv[i] EXCEPT !.status = "SETTLED", !.settledBy = n] \/ inv'[i] = inv[i]
      BY <1>9, <2>3
    <3>2. [inv[i] EXCEPT !.status = "SETTLED", !.settledBy = n] \in Kept
      BY <1>8, <2>1
    <3> QED
      BY <2>1, <3>1, <3>2
  <2> QED
    BY <2>2, <2>3
<1>11. inv' \in [Invoices -> Kept]
  BY <1>9, <1>10
<1> QED
  BY <1>6, <1>11 DEF TypeOK

\* Which snapshots are the last of their entities after a publish.
LEMMA LatestNow ==
  ASSUME NEW e, NEW day, NEW rows, Appended(e, day, rows)
  PROVE  LET n == Len(published) + 1 IN
         LatestIds' = {k \in LatestIds : published[k].entity # e} \cup {n}
<1> DEFINE n == Len(published) + 1
<1>1. LatestIds' = {m \in DOMAIN published' :
                     \A k \in DOMAIN published' : published'[k].entity = published'[m].entity => k <= m}
  BY DEF LatestIds, PublishedOf
<1>2. LatestIds = {m \in DOMAIN published :
                     \A k \in DOMAIN published : published[k].entity = published[m].entity => k <= m}
  BY DEF LatestIds, PublishedOf
<1>3. ASSUME NEW m \in DOMAIN published PROVE m \in LatestIds' <=> m \in LatestIds /\ published[m].entity # e
  BY <1>1, <1>2 DEF Appended
<1>4. n \in LatestIds'
  BY <1>1 DEF Appended
<1>5. \A m \in LatestIds' : m = n \/ m \in DOMAIN published
  BY <1>1 DEF Appended
<1>6. \A m \in LatestIds : m \in DOMAIN published
  BY <1>2
<1> QED
  BY <1>3, <1>4, <1>5, <1>6

LEMMA InvStep ==
  ASSUME MaxPublished \in Nat, Inv, [Next]_vars
  PROVE  Inv'
<1>1. CASE UNCHANGED vars
  BY <1>1 DEF Inv, vars, TypeOK, FilesKept, OpenIsLast, LatestIds, PublishedOf, Lines
<1>2. CASE Next
  <2>1. PICK e \in Entities, day \in Days : \E rows \in Files(e) : Publish(e, day, rows)
    BY <1>2 DEF Next
  <2>2. PICK rows \in Files(e) : Publish(e, day, rows)
    BY <2>1
  <2>3. PICK n : n = Len(published) + 1
    OBVIOUS
  <2>4. Appended(e, day, rows)
    BY <2>2, PublishAppends DEF Inv
  <2>5. \A i \in DOMAIN rows : i \in Invoices /\ EntityOfInvoice(i) = e
    BY DEF Files
  <2>6. LatestIds' = {k \in LatestIds : published[k].entity # e} \cup {n}
    BY <2>3, <2>4, LatestNow
  <2>7. LatestIds \subseteq DOMAIN published
    BY DEF LatestIds
  <2>8. FilesKept'
    <3>1. \A k \in DOMAIN published : published[k].entity = e => published[k].day # day
      BY <2>2 DEF Publish
    <3>2. \A k \in DOMAIN published' : k = n \/ k \in DOMAIN published
      BY <2>3, <2>4 DEF Appended
    <3>3. published'[n] = [entity |-> e, day |-> day, rows |-> rows]
      BY <2>3, <2>4 DEF Appended
    <3>4. \A k \in DOMAIN published : published'[k] = published[k]
      BY <2>4 DEF Appended
    <3>5. \A k \in DOMAIN published' : \A i \in DOMAIN published'[k].rows :
            EntityOfInvoice(i) = published'[k].entity
      BY <2>5, <3>2, <3>3, <3>4 DEF Inv, FilesKept, Lines
    <3>6. \A k, m \in DOMAIN published' :
            published'[k].entity = published'[m].entity /\ published'[k].day = published'[m].day
              => k = m
      BY <3>1, <3>2, <3>3, <3>4 DEF Inv, FilesKept
    <3> QED
      BY <3>5, <3>6 DEF FilesKept, Lines, EntityOfInvoice
  <2>9. inv' = [i \in Invoices |->
         CASE i \in DOMAIN rows ->
                [status |-> "OPEN", amount |-> rows[i].amount, settledBy |-> 0,
                 firstSeen |-> IF inv[i].status = "NONE" THEN n ELSE inv[i].firstSeen]
           [] i \notin DOMAIN rows /\ EntityOfInvoice(i) = e /\ inv[i].status = "OPEN" ->
                [inv[i] EXCEPT !.status = "SETTLED", !.settledBy = n]
           [] OTHER -> inv[i]]
    BY <2>2, <2>3 DEF Publish
  <2>10. published'[n].rows = rows /\ published'[n].entity = e
    BY <2>3, <2>4 DEF Appended
  <2>11. \A k \in DOMAIN published : published'[k] = published[k]
    BY <2>4 DEF Appended
  <2>12. ASSUME NEW i \in DOMAIN rows
         PROVE  i \in Invoices /\ inv'[i].status = "OPEN" /\ inv'[i].amount = rows[i].amount
    BY <2>5, <2>9
  <2>13. ASSUME NEW i \in Invoices, i \notin DOMAIN rows, EntityOfInvoice(i) = e
         PROVE  inv'[i].status # "OPEN"
    <3>1. inv[i] \in [status : {"NONE", "OPEN", "SETTLED"}, amount : Amounts \cup {0},
                      firstSeen : 0 .. MaxPublished, settledBy : 0 .. MaxPublished]
      BY DEF Inv, TypeOK
    <3>2. CASE inv[i].status = "OPEN"
      BY <2>9, <2>13, <3>1, <3>2
    <3>3. CASE inv[i].status # "OPEN"
      BY <2>9, <2>13, <3>3
    <3> QED
      BY <3>2, <3>3
  <2>14. ASSUME NEW i \in Invoices, EntityOfInvoice(i) # e
         PROVE  i \notin DOMAIN rows /\ inv'[i] = inv[i]
    BY <2>5, <2>9, <2>14
  <2>15. OpenIsLast'
    <3>1. \A k \in LatestIds' : \A i : i \in DOMAIN published'[k].rows =>
            \/ k = n /\ i \in DOMAIN rows
            \/ /\ k \in LatestIds /\ i \in Lines(k) /\ published[k].entity # e
               /\ EntityOfInvoice(i) # e /\ published'[k] = published[k]
      BY <2>6, <2>7, <2>10, <2>11 DEF Inv, FilesKept, Lines
    <3>2. ASSUME NEW i \in Invoices
          PROVE  inv'[i].status = "OPEN" <=> \E k \in LatestIds' : i \in DOMAIN published'[k].rows
      <4>1. CASE i \in DOMAIN rows
        BY <2>6, <2>10, <2>12, <4>1
      <4>2. CASE i \notin DOMAIN rows /\ EntityOfInvoice(i) = e
        BY <2>13, <3>1, <4>2
      <4>3. CASE EntityOfInvoice(i) # e
        <5>1. inv'[i] = inv[i] /\ i \notin DOMAIN rows
          BY <2>14, <4>3
        <5>2. ASSUME NEW k \in LatestIds, i \in Lines(k)
              PROVE  k \in LatestIds' /\ i \in DOMAIN published'[k].rows
          <6>1. published[k].entity # e
            BY <2>7, <4>3, <5>2 DEF Inv, FilesKept
          <6> QED
            BY <2>6, <2>7, <2>11, <5>2, <6>1 DEF Lines
        <5> QED
          BY <3>1, <5>1, <5>2 DEF Inv, OpenIsLast
      <4> QED
        BY <4>1, <4>2, <4>3
    <3>3. ASSUME NEW k \in LatestIds', NEW i \in DOMAIN published'[k].rows
          PROVE  inv'[i].amount = published'[k].rows[i].amount
      <4>1. CASE k = n /\ i \in DOMAIN rows
        BY <2>10, <2>12, <4>1
      <4>2. CASE /\ k \in LatestIds /\ i \in Lines(k) /\ published[k].entity # e
                 /\ EntityOfInvoice(i) # e /\ published'[k] = published[k]
        <5>1. i \in Invoices
          BY <2>7, <4>2, PublishedTyped DEF Inv
        <5> QED
          BY <2>14, <4>2, <5>1 DEF Inv, OpenIsLast
      <4> QED
        BY <3>1, <4>1, <4>2
    <3> QED
      BY <3>2, <3>3 DEF OpenIsLast, Lines
  <2> QED
    BY <1>2, <2>8, <2>15, TypeStep DEF Inv
<1> QED
  BY <1>1, <1>2

LEMMA InvInit ==
  ASSUME Init, MaxPublished \in Nat
  PROVE  Inv
<1>1. TypeOK
  BY DEF Init, TypeOK, NewInvoice
<1>2. DOMAIN published = {}
  BY DEF Init
<1>3. FilesKept
  BY <1>2 DEF FilesKept
<1>4. OpenIsLast
  BY <1>2 DEF Init, OpenIsLast, LatestIds, NewInvoice
<1> QED
  BY <1>1, <1>3, <1>4 DEF Inv

-----------------------------------------------------------------------------
(* The newest snapshot *)

\* NewestOf picks: no other of the set is newer.
Newest(n, S) ==
  /\ n \in S
  /\ \A k \in S \ {n} : \/ published[k].day < published[n].day
                        \/ published[k].day = published[n].day /\ k < n

LEMMA DaysAreNumbers ==
  ASSUME Parameters, TypeOK, NEW n \in DOMAIN published
  PROVE  n \in Int /\ published[n].day \in Int
<1>1. DOMAIN published = 1 .. Len(published) /\ Len(published) \in Nat
  BY PublishedTyped
<1>2. published[n].day \in Days
  BY PublishedTyped
<1>3. Days \subseteq Int
  BY DEF Parameters
<1>4. n \in Int
  BY <1>1
<1>5. published[n].day \in Int
  BY <1>2, <1>3
<1> QED
  BY <1>4, <1>5

LEMMA NewestIs ==
  ASSUME Parameters, TypeOK, NEW S \in SUBSET DOMAIN published, S # {}
  PROVE  Newest(NewestOf(S), S)
<1>1. Len(published) \in Nat /\ DOMAIN published = 1 .. Len(published)
  BY PublishedTyped
<1>2. \A n \in S : published[n].day \in Int /\ n \in Int
  BY <1>1, DaysAreNumbers
<1>3. IsFiniteSet(S)
  <2>1. IsFiniteSet(1 .. Len(published))
    BY <1>1, FS_Interval
  <2>2. S \in SUBSET (1 .. Len(published))
    BY <1>1
  <2> QED
    BY <2>1, <2>2, FS_Subset
<1>4. PICK d \in S : \A k \in S : published[k].day =< published[d].day
  <2> DEFINE K == [n \in S |-> published[n].day]
  <2>1. K \in [S -> Int]
    BY <1>2
  <2>2. \A k \in S : K[k] = published[k].day
    OBVIOUS
  <2> HIDE DEF K
  <2>3. \E x \in S : \A y \in S : K[y] =< K[x]
    BY <1>3, <2>1, GreatestExists
  <2> QED
    BY <2>2, <2>3
<1> DEFINE T == {k \in S : published[k].day = published[d].day}
<1>5. PICK n \in T : \A k \in T : k =< n
  <2> DEFINE K == [k \in T |-> k]
  <2>1. K \in [T -> Int] /\ IsFiniteSet(T) /\ T # {}
    BY <1>2, <1>3, FS_Subset
  <2>2. \A k \in T : K[k] = k
    OBVIOUS
  <2> HIDE DEF K, T
  <2>3. \E x \in T : \A y \in T : K[y] =< K[x]
    BY <2>1, GreatestExists
  <2> QED
    BY <2>2, <2>3
<1>6. Newest(n, S)
  <2>1. ASSUME NEW k \in S \ {n}
        PROVE  \/ published[k].day < published[n].day
               \/ published[k].day = published[n].day /\ k < n
    <3>1. n \in S /\ published[n].day = published[d].day
      OBVIOUS
    <3>2. published[k].day =< published[n].day
      BY <1>4, <3>1
    <3>3. published[k].day = published[n].day => k < n
      <4>1. published[k].day = published[n].day => k \in T
        BY <3>1
      <4> HIDE DEF T
      <4> QED
        BY <1>2, <1>5, <3>1, <4>1
    <3> QED
      BY <1>2, <3>1, <3>2, <3>3
  <2> QED
    BY <2>1 DEF Newest
<1>7. NewestOf(S) = CHOOSE m \in S : Newest(m, S)
  BY DEF NewestOf, Newest
<1>8. \E m \in S : Newest(m, S)
  BY <1>6
<1> HIDE DEF T
<1> QED
  BY <1>7, <1>8

LEMMA NewestIsThat ==
  ASSUME Parameters, TypeOK, NEW S \in SUBSET DOMAIN published, NEW n \in S,
         \A k \in S : k # n => published[k].day < published[n].day
  PROVE  NewestOf(S) = n
<1>1. Newest(NewestOf(S), S)
  BY NewestIs
<1>2. \A k \in S : published[k].day \in Int
  BY DaysAreNumbers
<1> QED
  BY <1>1, <1>2 DEF Newest

\* Published in the order of their days, the last snapshot of an entity is its newest.
LEMMA LastIsNewest ==
  ASSUME Parameters, TypeOK, InOrder, NEW n \in LatestIds,
         NEW S \in SUBSET PublishedOf(published[n].entity), n \in S
  PROVE  NewestOf(S) = n
<1>1. S \in SUBSET DOMAIN published
  BY DEF PublishedOf
<1>2. ASSUME NEW k \in S, k # n PROVE published[k].day < published[n].day
  <2>1. k <= n /\ published[k].entity = published[n].entity
    BY DEF LatestIds, PublishedOf
  <2>2. k \in DOMAIN published /\ n \in DOMAIN published /\ k < n
    BY <1>1, <1>2, <2>1, PublishedTyped
  <2> QED
    BY <2>1, <2>2 DEF InOrder
<1> QED
  BY <1>1, <1>2, NewestIsThat

LEMMA NewestIsLast ==
  ASSUME Parameters, TypeOK, InOrder, NEW e, PublishedOf(e) # {}
  PROVE  LET n == NewestOf(PublishedOf(e)) IN n \in LatestIds /\ published[n].entity = e
<1> DEFINE n == NewestOf(PublishedOf(e))
<1>1. PublishedOf(e) \in SUBSET DOMAIN published
  BY DEF PublishedOf
<1>2. Newest(n, PublishedOf(e))
  BY <1>1, NewestIs
<1> HIDE DEF n
<1>3. n \in DOMAIN published /\ published[n].entity = e
  BY <1>2 DEF Newest, PublishedOf
<1>4. ASSUME NEW k \in PublishedOf(e) PROVE k <= n
  <2>1. k \in DOMAIN published /\ published[k].entity = e
    BY DEF PublishedOf
  <2>2. k \in Int /\ n \in Int /\ published[k].day \in Int /\ published[n].day \in Int
    BY <1>3, <2>1, DaysAreNumbers
  <2>3. n < k => published[n].day < published[k].day
    BY <1>3, <2>1 DEF InOrder
  <2>4. k # n => published[k].day =< published[n].day
    BY <1>2, <2>2 DEF Newest
  <2> QED
    BY <2>2, <2>3, <2>4
<1> QED
  BY <1>3, <1>4 DEF LatestIds, n

\* What the dashboard reads of an entity.
LEMMA ResolvedIsNewest ==
  ASSUME TypeOK, NEW e
  PROVE  ResolveSnapshot(e, Latest) = NewestOf(PublishedOf(e))
<1>1. {n \in PublishedOf(e) : published[n].day \in Latest} = PublishedOf(e)
  BY PublishedTyped DEF PublishedOf, Latest
<1> QED
  BY <1>1 DEF ResolveSnapshot

LEMMA ResolvedIsLast ==
  ASSUME Parameters, TypeOK, InOrder, NEW e, ResolveSnapshot(e, Latest) # NoSnapshot
  PROVE  /\ ResolveSnapshot(e, Latest) \in LatestIds
         /\ published[ResolveSnapshot(e, Latest)].entity = e
<1>1. PublishedOf(e) # {}
  BY ResolvedIsNewest DEF NewestOf
<1> QED
  BY <1>1, ResolvedIsNewest, NewestIsLast

-----------------------------------------------------------------------------
(* The open invoices *)

\* What every page finds of an invoice in the snapshot published last of its entity.
Tells(n, i) ==
  /\ i \in Invoices /\ n \in DOMAIN published
  /\ inv[i].status = "OPEN" /\ EntityOfInvoice(i) = published[n].entity
  /\ published[n].rows[i].amount \in Int
  /\ inv[i].amount = published[n].rows[i].amount
  /\ Outstanding(i) = published[n].rows[i].amount
  /\ Bucket(i) = LineBucket(n, i)

LEMMA LastTells ==
  ASSUME Parameters, Inv, InOrder, NEW n \in LatestIds, NEW i \in Lines(n)
  PROVE  Tells(n, i)
<1>1. TypeOK /\ FilesKept /\ OpenIsLast
  BY DEF Inv
<1>2. n \in DOMAIN published
  BY DEF LatestIds
<1>3. i \in Invoices /\ published[n].rows[i].amount \in Int
  BY <1>1, <1>2, PublishedTyped DEF Parameters
<1>4. EntityOfInvoice(i) = published[n].entity
  BY <1>1, <1>2 DEF FilesKept
<1>5. inv[i].status = "OPEN" /\ inv[i].amount = published[n].rows[i].amount
  BY <1>1, <1>3 DEF OpenIsLast
<1>6. n \in LinesOf(i)
  BY <1>2 DEF LinesOf, Lines
<1>7. LinesOf(i) \in SUBSET PublishedOf(published[n].entity)
  <2>1. ASSUME NEW k \in LinesOf(i) PROVE k \in PublishedOf(published[n].entity)
    <3>1. k \in DOMAIN published /\ i \in Lines(k)
      BY DEF LinesOf, Lines
    <3>2. EntityOfInvoice(i) = published[k].entity
      BY <1>1, <3>1 DEF FilesKept
    <3> QED
      BY <1>4, <3>1, <3>2 DEF PublishedOf
  <2> QED
    BY <2>1
<1>8. NewestLine(i) = n
  BY <1>1, <1>6, <1>7, LastIsNewest DEF NewestLine
<1>9. Outstanding(i) = published[n].rows[i].amount /\ Bucket(i) = LineBucket(n, i)
  BY <1>6, <1>8 DEF Outstanding, Bucket
<1> QED
  BY <1>2, <1>3, <1>4, <1>5, <1>9 DEF Tells

LEMMA OpenOfEntity ==
  ASSUME Parameters, Inv, NEW n \in LatestIds
  PROVE  {i \in Invoices : inv[i].status = "OPEN" /\ EntityOfInvoice(i) = published[n].entity}
           = Lines(n)
<1>1. TypeOK /\ FilesKept /\ OpenIsLast
  BY DEF Inv
<1>2. n \in DOMAIN published
  BY DEF LatestIds
<1>3. ASSUME NEW i \in Invoices, inv[i].status = "OPEN",
             EntityOfInvoice(i) = published[n].entity
      PROVE  i \in Lines(n)
  <2>1. PICK k \in LatestIds : i \in Lines(k)
    BY <1>1, <1>3 DEF OpenIsLast
  <2>2. k \in DOMAIN published /\ published[k].entity = published[n].entity
    BY <1>1, <1>3, <2>1 DEF FilesKept, LatestIds
  <2>3. k <= n /\ n <= k /\ k \in Int /\ n \in Int
    BY <1>1, <1>2, <2>2, PublishedTyped DEF LatestIds, PublishedOf
  <2>4. k = n
    BY <2>3
  <2> QED
    BY <2>1, <2>4
<1>4. ASSUME NEW i \in Lines(n)
      PROVE  i \in Invoices /\ inv[i].status = "OPEN" /\ EntityOfInvoice(i) = published[n].entity
  <2>1. i \in Invoices
    BY <1>1, <1>2, PublishedTyped
  <2> QED
    BY <1>1, <1>2, <2>1 DEF FilesKept, OpenIsLast
<1> QED
  BY <1>3, <1>4

-----------------------------------------------------------------------------
(* The sums that the pages take *)

\* What is summed of a row, at a rate per invoice, of an invoice, and of the rows of the exports.
RowMoney(x, rate) ==
  published[x[1]].rows[x[2]].amount * published[x[1]].rows[x[2]].times * rate[x[2]]

SumOfRows(D, rate) == Sum(LAMBDA x : RowMoney(x, rate), D)
SumOfAmounts(D) == Sum(LAMBDA i : inv[i].amount, D)
SumOfColumn(D, rows) == Sum(LAMBDA k : rows[k].amount, D)
SumOfBucket(D, report, b) == Sum(LAMBDA p : report[p].buckets[b], D)
SumConverted(D) == Sum(LAMBDA i : RateOf[i] * Outstanding(i), D)

\* Each of them is a sum in the sense of AddsUpTo.
LEMMA SumOutstanding ==
  ASSUME NEW D, NEW H, NEW v, AddsUpTo(D, H, v),
         \A i \in D : Outstanding(i) = H[i]
  PROVE  Sum(Outstanding, D) = v
<1> DEFINE Fold(h) == h = [s \in SUBSET D |->
             IF s = {} THEN 0
             ELSE Outstanding((CHOOSE x \in s : TRUE))
                    + h[s \ {CHOOSE x \in s : TRUE}]]
           G == CHOOSE h : Fold(h)
<1>1. Sum(Outstanding, D) = G[D]
  BY DEF Sum, MapThenSumSet, MapThenFoldSet
<1>2. ASSUME NEW h PROVE Fold(h) <=> Adds(h, D, H)
  <2>1. ASSUME NEW s \in SUBSET D, s # {}
        PROVE  Outstanding((CHOOSE x \in s : TRUE)) = H[CHOOSE x \in s : TRUE]
    <3>1. (CHOOSE x \in s : TRUE) \in D
      BY <2>1
    <3> QED
      BY <3>1
  <2>2. [s \in SUBSET D |->
           IF s = {} THEN 0
           ELSE Outstanding((CHOOSE x \in s : TRUE))
                  + h[s \ {CHOOSE x \in s : TRUE}]]
        = [s \in SUBSET D |-> IF s = {} THEN 0
             ELSE H[CHOOSE x \in s : TRUE] + h[s \ {CHOOSE x \in s : TRUE}]]
    BY <2>1
  <2> QED
    BY <2>2 DEF Adds
<1> HIDE DEF Fold
<1>3. Fold(G)
  BY <1>2 DEF AddsUpTo
<1> HIDE DEF G
<1> QED
  BY <1>1, <1>2, <1>3 DEF AddsUpTo

LEMMA SumPartyTotals ==
  ASSUME NEW D, NEW H, NEW v, AddsUpTo(D, H, v),
         \A i \in D : PartyTotal(i) = H[i]
  PROVE  Sum(PartyTotal, D) = v
<1> DEFINE Fold(h) == h = [s \in SUBSET D |->
             IF s = {} THEN 0
             ELSE PartyTotal((CHOOSE x \in s : TRUE))
                    + h[s \ {CHOOSE x \in s : TRUE}]]
           G == CHOOSE h : Fold(h)
<1>1. Sum(PartyTotal, D) = G[D]
  BY DEF Sum, MapThenSumSet, MapThenFoldSet
<1>2. ASSUME NEW h PROVE Fold(h) <=> Adds(h, D, H)
  <2>1. ASSUME NEW s \in SUBSET D, s # {}
        PROVE  PartyTotal((CHOOSE x \in s : TRUE)) = H[CHOOSE x \in s : TRUE]
    <3>1. (CHOOSE x \in s : TRUE) \in D
      BY <2>1
    <3> QED
      BY <3>1
  <2>2. [s \in SUBSET D |->
           IF s = {} THEN 0
           ELSE PartyTotal((CHOOSE x \in s : TRUE))
                  + h[s \ {CHOOSE x \in s : TRUE}]]
        = [s \in SUBSET D |-> IF s = {} THEN 0
             ELSE H[CHOOSE x \in s : TRUE] + h[s \ {CHOOSE x \in s : TRUE}]]
    BY <2>1
  <2> QED
    BY <2>2 DEF Adds
<1> HIDE DEF Fold
<1>3. Fold(G)
  BY <1>2 DEF AddsUpTo
<1> HIDE DEF G
<1> QED
  BY <1>1, <1>2, <1>3 DEF AddsUpTo

LEMMA SumRows ==
  ASSUME NEW D, NEW H, NEW v, AddsUpTo(D, H, v), NEW rate,
         \A i \in D : RowMoney(i, rate) = H[i]
  PROVE  SumOfRows(D, rate) = v
<1> DEFINE Fold(h) == h = [s \in SUBSET D |->
             IF s = {} THEN 0
             ELSE RowMoney((CHOOSE x \in s : TRUE), rate)
                    + h[s \ {CHOOSE x \in s : TRUE}]]
           G == CHOOSE h : Fold(h)
<1>1. SumOfRows(D, rate) = G[D]
  BY DEF SumOfRows, Sum, MapThenSumSet, MapThenFoldSet
<1>2. ASSUME NEW h PROVE Fold(h) <=> Adds(h, D, H)
  <2>1. ASSUME NEW s \in SUBSET D, s # {}
        PROVE  RowMoney((CHOOSE x \in s : TRUE), rate) = H[CHOOSE x \in s : TRUE]
    <3>1. (CHOOSE x \in s : TRUE) \in D
      BY <2>1
    <3> QED
      BY <3>1
  <2>2. [s \in SUBSET D |->
           IF s = {} THEN 0
           ELSE RowMoney((CHOOSE x \in s : TRUE), rate)
                  + h[s \ {CHOOSE x \in s : TRUE}]]
        = [s \in SUBSET D |-> IF s = {} THEN 0
             ELSE H[CHOOSE x \in s : TRUE] + h[s \ {CHOOSE x \in s : TRUE}]]
    BY <2>1
  <2> QED
    BY <2>2 DEF Adds
<1> HIDE DEF Fold
<1>3. Fold(G)
  BY <1>2 DEF AddsUpTo
<1> HIDE DEF G
<1> QED
  BY <1>1, <1>2, <1>3 DEF AddsUpTo

LEMMA SumAmounts ==
  ASSUME NEW D, NEW H, NEW v, AddsUpTo(D, H, v),
         \A i \in D : inv[i].amount = H[i]
  PROVE  SumOfAmounts(D) = v
<1> DEFINE Fold(h) == h = [s \in SUBSET D |->
             IF s = {} THEN 0
             ELSE inv[(CHOOSE x \in s : TRUE)].amount
                    + h[s \ {CHOOSE x \in s : TRUE}]]
           G == CHOOSE h : Fold(h)
<1>1. SumOfAmounts(D) = G[D]
  BY DEF SumOfAmounts, Sum, MapThenSumSet, MapThenFoldSet
<1>2. ASSUME NEW h PROVE Fold(h) <=> Adds(h, D, H)
  <2>1. ASSUME NEW s \in SUBSET D, s # {}
        PROVE  inv[(CHOOSE x \in s : TRUE)].amount = H[CHOOSE x \in s : TRUE]
    <3>1. (CHOOSE x \in s : TRUE) \in D
      BY <2>1
    <3> QED
      BY <3>1
  <2>2. [s \in SUBSET D |->
           IF s = {} THEN 0
           ELSE inv[(CHOOSE x \in s : TRUE)].amount
                  + h[s \ {CHOOSE x \in s : TRUE}]]
        = [s \in SUBSET D |-> IF s = {} THEN 0
             ELSE H[CHOOSE x \in s : TRUE] + h[s \ {CHOOSE x \in s : TRUE}]]
    BY <2>1
  <2> QED
    BY <2>2 DEF Adds
<1> HIDE DEF Fold
<1>3. Fold(G)
  BY <1>2 DEF AddsUpTo
<1> HIDE DEF G
<1> QED
  BY <1>1, <1>2, <1>3 DEF AddsUpTo

LEMMA SumColumn ==
  ASSUME NEW D, NEW H, NEW v, AddsUpTo(D, H, v), NEW rows,
         \A i \in D : rows[i].amount = H[i]
  PROVE  SumOfColumn(D, rows) = v
<1> DEFINE Fold(h) == h = [s \in SUBSET D |->
             IF s = {} THEN 0
             ELSE rows[(CHOOSE x \in s : TRUE)].amount
                    + h[s \ {CHOOSE x \in s : TRUE}]]
           G == CHOOSE h : Fold(h)
<1>1. SumOfColumn(D, rows) = G[D]
  BY DEF SumOfColumn, Sum, MapThenSumSet, MapThenFoldSet
<1>2. ASSUME NEW h PROVE Fold(h) <=> Adds(h, D, H)
  <2>1. ASSUME NEW s \in SUBSET D, s # {}
        PROVE  rows[(CHOOSE x \in s : TRUE)].amount = H[CHOOSE x \in s : TRUE]
    <3>1. (CHOOSE x \in s : TRUE) \in D
      BY <2>1
    <3> QED
      BY <3>1
  <2>2. [s \in SUBSET D |->
           IF s = {} THEN 0
           ELSE rows[(CHOOSE x \in s : TRUE)].amount
                  + h[s \ {CHOOSE x \in s : TRUE}]]
        = [s \in SUBSET D |-> IF s = {} THEN 0
             ELSE H[CHOOSE x \in s : TRUE] + h[s \ {CHOOSE x \in s : TRUE}]]
    BY <2>1
  <2> QED
    BY <2>2 DEF Adds
<1> HIDE DEF Fold
<1>3. Fold(G)
  BY <1>2 DEF AddsUpTo
<1> HIDE DEF G
<1> QED
  BY <1>1, <1>2, <1>3 DEF AddsUpTo

LEMMA SumBucket ==
  ASSUME NEW D, NEW H, NEW v, AddsUpTo(D, H, v), NEW report, NEW b,
         \A i \in D : report[i].buckets[b] = H[i]
  PROVE  SumOfBucket(D, report, b) = v
<1> DEFINE Fold(h) == h = [s \in SUBSET D |->
             IF s = {} THEN 0
             ELSE report[(CHOOSE x \in s : TRUE)].buckets[b]
                    + h[s \ {CHOOSE x \in s : TRUE}]]
           G == CHOOSE h : Fold(h)
<1>1. SumOfBucket(D, report, b) = G[D]
  BY DEF SumOfBucket, Sum, MapThenSumSet, MapThenFoldSet
<1>2. ASSUME NEW h PROVE Fold(h) <=> Adds(h, D, H)
  <2>1. ASSUME NEW s \in SUBSET D, s # {}
        PROVE  report[(CHOOSE x \in s : TRUE)].buckets[b] = H[CHOOSE x \in s : TRUE]
    <3>1. (CHOOSE x \in s : TRUE) \in D
      BY <2>1
    <3> QED
      BY <3>1
  <2>2. [s \in SUBSET D |->
           IF s = {} THEN 0
           ELSE report[(CHOOSE x \in s : TRUE)].buckets[b]
                  + h[s \ {CHOOSE x \in s : TRUE}]]
        = [s \in SUBSET D |-> IF s = {} THEN 0
             ELSE H[CHOOSE x \in s : TRUE] + h[s \ {CHOOSE x \in s : TRUE}]]
    BY <2>1
  <2> QED
    BY <2>2 DEF Adds
<1> HIDE DEF Fold
<1>3. Fold(G)
  BY <1>2 DEF AddsUpTo
<1> HIDE DEF G
<1> QED
  BY <1>1, <1>2, <1>3 DEF AddsUpTo

LEMMA SumConvertedIs ==
  ASSUME NEW D, NEW H, NEW v, AddsUpTo(D, H, v),
         \A i \in D : RateOf[i] * Outstanding(i) = H[i]
  PROVE  SumConverted(D) = v
<1> DEFINE Fold(h) == h = [s \in SUBSET D |->
             IF s = {} THEN 0
             ELSE RateOf[(CHOOSE x \in s : TRUE)] * Outstanding((CHOOSE x \in s : TRUE))
                    + h[s \ {CHOOSE x \in s : TRUE}]]
           G == CHOOSE h : Fold(h)
<1>1. SumConverted(D) = G[D]
  BY DEF SumConverted, Sum, MapThenSumSet, MapThenFoldSet
<1>2. ASSUME NEW h PROVE Fold(h) <=> Adds(h, D, H)
  <2>1. ASSUME NEW s \in SUBSET D, s # {}
        PROVE  RateOf[(CHOOSE x \in s : TRUE)] * Outstanding((CHOOSE x \in s : TRUE)) = H[CHOOSE x \in s : TRUE]
    <3>1. (CHOOSE x \in s : TRUE) \in D
      BY <2>1
    <3> QED
      BY <3>1
  <2>2. [s \in SUBSET D |->
           IF s = {} THEN 0
           ELSE RateOf[(CHOOSE x \in s : TRUE)] * Outstanding((CHOOSE x \in s : TRUE))
                  + h[s \ {CHOOSE x \in s : TRUE}]]
        = [s \in SUBSET D |-> IF s = {} THEN 0
             ELSE H[CHOOSE x \in s : TRUE] + h[s \ {CHOOSE x \in s : TRUE}]]
    BY <2>1
  <2> QED
    BY <2>2 DEF Adds
<1> HIDE DEF Fold
<1>3. Fold(G)
  BY <1>2 DEF AddsUpTo
<1> HIDE DEF G
<1> QED
  BY <1>1, <1>2, <1>3 DEF AddsUpTo

-----------------------------------------------------------------------------
(* The register *)

Sorted(s, U) ==
  s \in SetToSeqs(U) /\ \A j, k \in DOMAIN s : j < k => DatedOn[s[j]] >= DatedOn[s[k]]

\* The order that the register takes them in.
Order(U) ==
  CHOOSE s \in SetToSeqs(U) :
    \A j, k \in DOMAIN s : j < k => DatedOn[s[j]] >= DatedOn[s[k]]

\* Invoices can be put into the order of their days: the oldest goes behind the others.
LEMMA SortedExists ==
  ASSUME Parameters, NEW U \in SUBSET Invoices
  PROVE  \E s : Sorted(s, U)
<1> DEFINE N == {V \in SUBSET U : \E s : Sorted(s, V)}
<1>1. IsFiniteSet(U) /\ \A i \in U : DatedOn[i] \in Int
  <2>1. IsFiniteSet(Invoices) /\ DatedOn \in [Invoices -> Int]
    BY DEF Parameters
  <2> QED
    BY <2>1, FS_Subset
<1>2. ASSUME NEW V \in SUBSET U, \A x \in V : V \ {x} \in N PROVE V \in N
  <2>1. CASE V = {}
    <3> DEFINE s == [k \in 1 .. 0 |-> k]
    <3>1. Cardinality({}) = 0 /\ 1 .. 0 = {}
      BY FS_EmptySet
    <3>2. s \in [1 .. 0 -> {}] /\ DOMAIN s = {}
      OBVIOUS
    <3> HIDE DEF s
    <3>3. Sorted(s, {})
      BY <3>1, <3>2 DEF Sorted, SetToSeqs
    <3> QED
      BY <2>1, <3>3
  <2>2. CASE V # {}
    <3>1. PICK z \in V : \A y \in V : DatedOn[z] =< DatedOn[y]
      <4> DEFINE K == [i \in V |-> 0 - DatedOn[i]]
      <4>1. K \in [V -> Int] /\ \A i \in V : K[i] = 0 - DatedOn[i]
        BY <1>1
      <4>2. IsFiniteSet(V)
        BY <1>1, FS_Subset
      <4> HIDE DEF K
      <4>3. PICK z \in V : \A y \in V : K[y] =< K[z]
        BY <2>2, <4>1, <4>2, GreatestExists
      <4>4. \A y \in V : DatedOn[z] =< DatedOn[y]
        BY <1>1, <4>1, <4>3
      <4> QED
        BY <4>4
    <3>2. PICK s : Sorted(s, V \ {z})
      BY <1>2
    <3>3. PICK m : m = Cardinality(V \ {z})
      OBVIOUS
    <3>4. m \in Nat /\ Cardinality(V) = m + 1
      <4>1. IsFiniteSet(V)
        BY <1>1, FS_Subset
      <4>2. IsFiniteSet(V \ {z})
        BY <4>1, FS_Subset
      <4>3. Cardinality(V \ {z}) \in Nat /\ Cardinality(V) \in Nat
        BY <4>1, <4>2, FS_CardinalityType
      <4>4. Cardinality(V \ {z}) = Cardinality(V) - 1
        BY <4>1, FS_RemoveElement
      <4> QED
        BY <3>3, <4>3, <4>4
    <3>5. /\ s \in [1 .. m -> V \ {z}]
          /\ \A j, k \in 1 .. m : j # k => s[j] # s[k]
          /\ \A j, k \in 1 .. m : j < k => DatedOn[s[j]] >= DatedOn[s[k]]
      BY <3>2, <3>3 DEF Sorted, SetToSeqs
    <3> DEFINE t == [k \in 1 .. m + 1 |-> IF k = m + 1 THEN z ELSE s[k]]
    <3>6. /\ DOMAIN t = 1 .. m + 1 /\ t[m + 1] = z
          /\ \A k \in 1 .. m : t[k] = s[k]
      BY <3>4
    <3>7. \A k \in 1 .. m + 1 : k = m + 1 \/ k \in 1 .. m
      BY <3>4
    <3>8. t \in [1 .. m + 1 -> V]
      <4>1. \A k \in 1 .. m + 1 : t[k] \in V
        <5> HIDE DEF t
        <5> QED
          BY <3>5, <3>6, <3>7
      <4> QED
        BY <4>1
    <3> HIDE DEF t
    <3>9. \A j, k \in 1 .. m + 1 : j # k => t[j] # t[k]
      BY <3>5, <3>6, <3>7
    <3>10. \A k \in 1 .. m : DatedOn[s[k]] >= DatedOn[z]
      BY <1>1, <3>1, <3>5
    <3>11. \A j, k \in 1 .. m + 1 : j < k => DatedOn[t[j]] >= DatedOn[t[k]]
      BY <3>4, <3>5, <3>6, <3>7, <3>10
    <3>12. Sorted(t, V)
      BY <3>4, <3>6, <3>8, <3>9, <3>11 DEF Sorted, SetToSeqs
    <3> QED
      BY <3>12
  <2> QED
    BY <2>1, <2>2
<1> HIDE DEF N
<1>3. U \in N
  BY <1>1, <1>2, AllFinite
<1> QED
  BY <1>3 DEF N

\* It takes each of them, and none twice.
LEMMA OrderIs ==
  ASSUME Parameters, NEW U \in SUBSET Invoices
  PROVE  /\ Cardinality(U) \in Nat /\ Cardinality(U) <= Cardinality(Invoices)
         /\ Cardinality(Invoices) \in Nat
         /\ Order(U) \in [1 .. Cardinality(U) -> U]
         /\ \A j, k \in 1 .. Cardinality(U) : Order(U)[j] = Order(U)[k] => j = k
         /\ \A i \in U : \E k \in 1 .. Cardinality(U) : Order(U)[k] = i
<1>1. Sorted(Order(U), U)
  <2>1. \E s : Sorted(s, U)
    BY SortedExists
  <2> QED
    BY <2>1 DEF Order, Sorted
<1>2. IsFiniteSet(U) /\ IsFiniteSet(Invoices)
  <2>1. IsFiniteSet(Invoices)
    BY DEF Parameters
  <2> QED
    BY <2>1, FS_Subset
<1>3. PICK m : m = Cardinality(U)
  OBVIOUS
<1>4. m \in Nat /\ m <= Cardinality(Invoices) /\ Cardinality(Invoices) \in Nat
  BY <1>2, <1>3, FS_CardinalityType, FS_Subset
<1>5. PICK s : s = Order(U)
  OBVIOUS
<1>6. s \in [1 .. m -> U] /\ \A j, k \in 1 .. m : j # k => s[j] # s[k]
  BY <1>1, <1>3, <1>5 DEF Sorted, SetToSeqs
<1>7. s \in Surjection(1 .. m, U)
  <2>1. s \in Injection(1 .. m, U)
    BY <1>6 DEF Injection, IsInjective
  <2>2. Cardinality(1 .. m) = m
    BY <1>4, FS_Interval
  <2> QED
    BY <1>2, <1>3, <2>1, <2>2, FS_Injection
<1>8. \A i \in U : \E k \in 1 .. m : s[k] = i
  BY <1>7 DEF Surjection
<1> QED
  BY <1>3, <1>4, <1>5, <1>6, <1>8

LEMMA ItemsAre ==
  ASSUME NEW q
  PROVE  LET s == Order(Matching(q))
             before == (q.page - 1) * q.size
             taken == {k \in DOMAIN s : /\ before < k /\ k <= before + q.size
                                        /\ q.bucket \in {"ANY", Bucket(s[k])}}
         IN ListInvoices(q).items = [k \in taken |-> s[k]]
<1> DEFINE s == Order(Matching(q))
           before == (q.page - 1) * q.size
           paged == {k \in DOMAIN s : before < k /\ k <= before + q.size}
<1>1. ListInvoices(q).items =
        [k \in {k \in paged : q.bucket \in {"ANY", Bucket(s[k])}} |-> s[k]]
  BY DEF ListInvoices, Order
<1>2. {k \in paged : q.bucket \in {"ANY", Bucket(s[k])}}
        = {k \in DOMAIN s : /\ before < k /\ k <= before + q.size
                            /\ q.bucket \in {"ANY", Bucket(s[k])}}
  <2> HIDE DEF s, before
  <2> QED
    OBVIOUS
<1> QED
  BY <1>1, <1>2

\* A page as long as the list holds it.
LEMMA OnePage ==
  ASSUME Parameters, NEW q, Matching(q) \in SUBSET Invoices, q.page = 1, q.bucket = "ANY",
         q.size \in Nat, Cardinality(Matching(q)) <= q.size
  PROVE  ListInvoices(q).items = Order(Matching(q))
<1> DEFINE s == Order(Matching(q))
           m == Cardinality(Matching(q))
           before == (q.page - 1) * q.size
           taken == {k \in DOMAIN s : /\ before < k /\ k <= before + q.size
                                      /\ q.bucket \in {"ANY", Bucket(s[k])}}
<1>1. ListInvoices(q).items = [k \in taken |-> s[k]]
  BY ItemsAre
<1>2. m \in Nat /\ s \in [1 .. m -> Matching(q)]
  BY OrderIs
<1>3. before = 0
  OBVIOUS
<1> HIDE DEF s, m, before
<1>4. taken = 1 .. m
  BY <1>2, <1>3 DEF m
<1>5. s = [k \in 1 .. m |-> s[k]]
  BY <1>2
<1> HIDE DEF taken
<1> QED
  BY <1>1, <1>4, <1>5 DEF s

-----------------------------------------------------------------------------
(* The pages of one entity *)

Owed(n) == [i \in Lines(n) |-> published[n].rows[i].amount]
OfParty(n, p) == {i \in Lines(n) : PartyOf[i] = p}
InBucket(n, b) == {i \in Lines(n) : LineBucket(n, i) = b}

\* The snapshot that is the last of its entity, and the sums of its amounts.
Newly(n, g) ==
  /\ n \in LatestIds /\ NoRowTwice(n)
  /\ IsFiniteSet(Lines(n)) /\ Lines(n) \subseteq Invoices
  /\ Owed(n) \in [Lines(n) -> Int] /\ SumsOver(g, Lines(n), Owed(n))
  /\ \A i \in Lines(n) : Tells(n, i)

LEMMA NewlyExists ==
  ASSUME Parameters, Inv, InOrder, NEW n \in LatestIds, NoRowTwice(n)
  PROVE  \E g : Newly(n, g)
<1>1. \A i \in Lines(n) : Tells(n, i)
  BY LastTells
<1>2. Lines(n) \subseteq Invoices /\ Owed(n) \in [Lines(n) -> Int]
  BY <1>1 DEF Tells, Owed
<1>3. IsFiniteSet(Lines(n))
  <2>1. IsFiniteSet(Invoices)
    BY DEF Parameters
  <2> QED
    BY <1>2, <2>1, FS_Subset
<1>4. PICK g : SumsOver(g, Lines(n), Owed(n))
  BY <1>2, <1>3, SumsExist
<1> QED
  BY <1>1, <1>2, <1>3, <1>4 DEF Newly

\* A sum over some of its invoices, however they are taken.
LEMMA SumLines ==
  ASSUME NEW n, NEW g, Newly(n, g), NEW D, NEW f \in [D -> Lines(n)],
         \A x, y \in D : f[x] = f[y] => x = y,
         NEW H, \A x \in D : H[x] = Owed(n)[f[x]]
  PROVE  AddsUpTo(D, H, g[{f[x] : x \in D}])
<1>1. IsFiniteSet(Lines(n)) /\ SumsOver(g, Lines(n), Owed(n))
  BY DEF Newly
<1> QED
  BY <1>1, SumByIndex

LEMMA SumOwed ==
  ASSUME NEW n, NEW g, Newly(n, g), NEW U \in SUBSET Lines(n)
  PROVE  AddsUpTo(U, Owed(n), g[U])
<1> DEFINE f == [i \in U |-> i]
<1>1. f \in [U -> Lines(n)] /\ (\A x \in U : f[x] = x) /\ {f[x] : x \in U} = U
  OBVIOUS
<1> HIDE DEF f
<1>2. AddsUpTo(U, Owed(n), g[{f[x] : x \in U}])
  BY <1>1, SumLines
<1> QED
  BY <1>1, <1>2

LEMMA SumOfOutstanding ==
  ASSUME NEW n, NEW g, Newly(n, g), NEW U \in SUBSET Lines(n)
  PROVE  Sum(Outstanding, U) = g[U]
<1>1. AddsUpTo(U, Owed(n), g[U])
  BY SumOwed
<1>2. \A i \in U : Outstanding(i) = Owed(n)[i]
  BY DEF Newly, Tells, Owed
<1> QED
  BY <1>1, <1>2, SumOutstanding

\* The sums of parts that do not overlap.
LEMMA SumParts ==
  ASSUME NEW n, NEW g, Newly(n, g), NEW P, NEW K, Parts(K, P, Lines(n)),
         NEW H, Each(H, K, P, g)
  PROVE  AddsUpTo(P, H, g[Joined(K, P)])
<1>1. /\ IsFiniteSet(Lines(n)) /\ Owed(n) \in [Lines(n) -> Int]
      /\ SumsOver(g, Lines(n), Owed(n))
  BY DEF Newly
<1> QED
  BY <1>1, SumOfSums

LEMMA OverdueAre ==
  /\ OverdueBuckets = {"0_30", "31_60", "61_90", "90_PLUS"}
  /\ Overdue[1] = "0_30" /\ Overdue[2] = "31_60" /\ Overdue[3] = "61_90" /\ Overdue[4] = "90_PLUS"
<1>1. Overdue[1] = "0_30" /\ Overdue[2] = "31_60" /\ Overdue[3] = "61_90" /\ Overdue[4] = "90_PLUS"
  BY DEF Overdue
<1>2. 1 .. 4 = {1, 2, 3, 4}
  OBVIOUS
<1>3. OverdueBuckets = {Overdue[k] : k \in {1, 2, 3, 4}}
  BY <1>2 DEF OverdueBuckets
<1>4. {Overdue[k] : k \in {1, 2, 3, 4}} = {Overdue[1], Overdue[2], Overdue[3], Overdue[4]}
  OBVIOUS
<1>5. OverdueBuckets = {"0_30", "31_60", "61_90", "90_PLUS"}
  <2>1. ASSUME NEW a, NEW b, NEW c, NEW d, Overdue[1] = a, Overdue[2] = b, Overdue[3] = c,
               Overdue[4] = d
        PROVE  OverdueBuckets = {a, b, c, d}
    BY <1>3, <1>4, <2>1
  <2> QED
    BY <1>1, <2>1
<1> QED
  BY <1>1, <1>5

\* The dashboard of the entity: the loop over the rows, one for each invoice.
LEMMA DashboardShows ==
  ASSUME NEW n, NEW g, Newly(n, g)
  PROVE  LET shown == DashboardOfEntity(n) IN
         /\ shown.total = g[Lines(n)]
         /\ \A p \in Parties :
              /\ shown.parties[p] = g[OfParty(n, p)]
              /\ p \in shown.over90 <=> \E i \in OfParty(n, p) : LineBucket(n, i) = "90_PLUS"
         /\ \A b \in OverdueBuckets : shown.buckets[b] = g[InBucket(n, b)]
<1> DEFINE rows == {x \in {n} \X Invoices : x[2] \in DOMAIN published[x[1]].rows}
           bucket(x) == NormalizeBucket(LineBucket(x[1], x[2]))
           of(p) == {x \in rows : PartyOf[x[2]] = p}
           shown == DashboardOfEntity(n)
<1>1. /\ shown.total = SumOfRows(rows, Unconverted)
      /\ \A p \in Parties : shown.parties[p] = SumOfRows(of(p), Unconverted)
      /\ \A b \in Buckets :
           shown.buckets[b] = SumOfRows({x \in rows : bucket(x) = b}, Unconverted)
      /\ shown.over90 = {p \in Parties : \E x \in of(p) : bucket(x) = "90_PLUS"}
  BY DEF DashboardOfEntity, Summed, ByBucket, SumOfRows, RowMoney, Sum, MapThenSumSet, MapThenFoldSet
<1>2. /\ \A x \in rows : x[1] = n /\ x[2] \in Lines(n) /\ x = <<n, x[2]>>
      /\ \A i \in Lines(n) : <<n, i>> \in rows /\ <<n, i>>[1] = n /\ <<n, i>>[2] = i
  BY DEF Newly, Lines
<1> HIDE DEF rows, shown
<1>3. ASSUME NEW U \in SUBSET rows
      PROVE  SumOfRows(U, Unconverted) = g[{x[2] : x \in U}]
  <2> DEFINE f == [x \in U |-> x[2]]
             H == [x \in U |-> RowMoney(x, Unconverted)]
  <2>1. f \in [U -> Lines(n)] /\ \A x \in U : f[x] = x[2]
    BY <1>2
  <2>2. \A x, y \in U : f[x] = f[y] => x = y
    BY <1>2, <2>1
  <2>3. \A x \in U : H[x] = Owed(n)[f[x]]
    <3>1. ASSUME NEW x \in U PROVE RowMoney(x, Unconverted) = Owed(n)[x[2]]
      <4>1. x[1] = n /\ x[2] \in Lines(n)
        BY <1>2
      <4>2. /\ published[n].rows[x[2]].times = 1
            /\ published[n].rows[x[2]].amount \in Int
            /\ Unconverted[x[2]] = 1
        BY <4>1 DEF Newly, NoRowTwice, Lines, Unconverted, Tells
      <4> QED
        BY <4>1, <4>2 DEF RowMoney, Owed
    <3> QED
      BY <2>1, <3>1
  <2>4. \A x \in U : RowMoney(x, Unconverted) = H[x]
    OBVIOUS
  <2>5. {f[x] : x \in U} = {x[2] : x \in U}
    OBVIOUS
  <2> HIDE DEF f, H
  <2>6. AddsUpTo(U, H, g[{f[x] : x \in U}])
    BY <2>1, <2>2, <2>3, SumLines
  <2>7. AddsUpTo(U, H, g[{x[2] : x \in U}])
    BY <2>5, <2>6
  <2> QED
    BY <2>4, <2>7, SumRows
<1>4. shown.total = g[Lines(n)]
  <2>1. {x[2] : x \in rows} = Lines(n)
    BY <1>2
  <2> QED
    BY <1>1, <1>3, <2>1
<1>5. ASSUME NEW p \in Parties
      PROVE  /\ shown.parties[p] = g[OfParty(n, p)]
             /\ p \in shown.over90 <=> \E i \in OfParty(n, p) : LineBucket(n, i) = "90_PLUS"
  <2>1. {x[2] : x \in of(p)} = OfParty(n, p)
    BY <1>2 DEF OfParty
  <2>2. shown.parties[p] = g[OfParty(n, p)]
    <3>1. of(p) \in SUBSET rows
      OBVIOUS
    <3>2. SumOfRows(of(p), Unconverted) = g[{x[2] : x \in of(p)}]
      BY <1>3, <3>1
    <3> QED
      BY <1>1, <2>1, <3>2
  <2>3. \A x \in rows : bucket(x) = "90_PLUS" <=> LineBucket(n, x[2]) = "90_PLUS"
    BY <1>2, OverdueAre DEF NormalizeBucket
  <2>4. (\E x \in of(p) : bucket(x) = "90_PLUS")
          <=> \E i \in OfParty(n, p) : LineBucket(n, i) = "90_PLUS"
    <3> HIDE DEF bucket
    <3> QED
      BY <1>2, <2>3 DEF OfParty
  <2> QED
    BY <1>1, <2>2, <2>4
<1>6. ASSUME NEW b \in OverdueBuckets
      PROVE  shown.buckets[b] = g[InBucket(n, b)]
  <2>1. \A x \in rows : bucket(x) = b <=> LineBucket(n, x[2]) = b
    BY <1>2, OverdueAre DEF NormalizeBucket
  <2>2. b \in Buckets
    BY DEF Buckets
  <2>3. {x[2] : x \in {y \in rows : bucket(y) = b}} = InBucket(n, b)
    <3> HIDE DEF bucket
    <3> QED
      BY <1>2, <2>1 DEF InBucket
  <2>4. shown.buckets[b] = g[{x[2] : x \in {y \in rows : bucket(y) = b}}]
    <3>1. shown.buckets[b] = SumOfRows({y \in rows : bucket(y) = b}, Unconverted)
      BY <1>1, <2>2
    <3> HIDE DEF bucket
    <3> QED
      BY <1>3, <3>1
  <2> QED
    BY <2>3, <2>4
<1> QED
  BY <1>4, <1>5, <1>6 DEF shown

\* The rank of 90_PLUS is the highest, and only its own.
LEMMA WorstRank ==
  /\ BucketRank("90_PLUS") = 4
  /\ \A b : BucketRank(b) \in 0 .. 4 /\ (BucketRank(b) = 4 => b = "90_PLUS")
<1> DEFINE Rank(b) == CHOOSE k \in 1 .. 4 : Overdue[k] = b
<1>1. ASSUME NEW b \in OverdueBuckets PROVE Rank(b) \in 1 .. 4 /\ Overdue[Rank(b)] = b
  <2>1. \E k \in 1 .. 4 : Overdue[k] = b
    BY DEF OverdueBuckets
  <2> QED
    BY <2>1
<1>2. \A b : BucketRank(b) = IF b \in OverdueBuckets THEN Rank(b) ELSE 0
  BY DEF BucketRank
<1> HIDE DEF Rank
<1>3. Rank("90_PLUS") = 4
  <2>1. Rank("90_PLUS") \in 1 .. 4 /\ Overdue[Rank("90_PLUS")] = "90_PLUS"
    BY <1>1, OverdueAre
  <2>2. Rank("90_PLUS") \in {1, 2, 3, 4}
    BY <2>1
  <2> QED
    BY <2>1, <2>2, OverdueAre
<1>4. ASSUME NEW b PROVE BucketRank(b) \in 0 .. 4 /\ (BucketRank(b) = 4 => b = "90_PLUS")
  BY <1>1, <1>2, OverdueAre
<1> QED
  BY <1>2, <1>3, <1>4, OverdueAre

\* The page of a party and its account.
LEMMA PartyShows ==
  ASSUME Parameters, Inv, NEW n, NEW g, Newly(n, g),
         NEW p \in Parties, EntityOf[p] = published[n].entity
  PROVE  /\ PartyTotal(p) = g[OfParty(n, p)]
         /\ Account(p).total = g[OfParty(n, p)]
         /\ Account(p).worst = "90_PLUS" <=> \E i \in OfParty(n, p) : LineBucket(n, i) = "90_PLUS"
<1> DEFINE open == Open(InvoicesOf(p))
           worst == {i \in open : BucketRank(Bucket(i)) > 0 /\
                       \A j \in open : BucketRank(Bucket(j)) <= BucketRank(Bucket(i))}
<1>1. open = OfParty(n, p)
  <2>1. {i \in Invoices : inv[i].status = "OPEN" /\ EntityOfInvoice(i) = published[n].entity}
          = Lines(n)
    BY OpenOfEntity DEF Newly
  <2>2. \A i \in open : i \in Invoices /\ PartyOf[i] = p /\ inv[i].status = "OPEN"
    BY DEF Open, InvoicesOf
  <2>3. \A i \in Invoices : PartyOf[i] = p => EntityOfInvoice(i) = published[n].entity
    BY DEF EntityOfInvoice
  <2>4. \A i \in open : i \in OfParty(n, p)
    <3> HIDE DEF open
    <3> QED
      BY <2>1, <2>2, <2>3 DEF OfParty
  <2>5. \A i \in OfParty(n, p) : i \in Invoices /\ PartyOf[i] = p /\ inv[i].status = "OPEN"
    BY <2>1 DEF OfParty
  <2>6. \A i \in OfParty(n, p) : i \in open
    BY <2>5 DEF Open, InvoicesOf
  <2> QED
    BY <2>4, <2>6
<1>2. Sum(Outstanding, OfParty(n, p)) = g[OfParty(n, p)]
  BY SumOfOutstanding DEF OfParty
<1>3. \A i \in OfParty(n, p) : Bucket(i) = LineBucket(n, i)
  BY DEF Newly, Tells, OfParty
<1>4. PartyTotal(p) = g[OfParty(n, p)] /\ Account(p).total = g[OfParty(n, p)]
  <2>1. PartyTotal(p) = Sum(Outstanding, open)
    BY DEF PartyTotal, Sum, MapThenSumSet, MapThenFoldSet
  <2>2. Account(p).total = Sum(Outstanding, open)
    BY DEF Account, Sum, MapThenSumSet, MapThenFoldSet
  <2> HIDE DEF open
  <2> QED
    BY <1>1, <1>2, <2>1, <2>2
<1>5. Account(p).worst = IF worst = {} THEN "NOT_DUE" ELSE Bucket(CHOOSE i \in worst : TRUE)
  BY DEF Account
<1> HIDE DEF open
<1>6. ASSUME NEW i \in OfParty(n, p), LineBucket(n, i) = "90_PLUS"
      PROVE  Account(p).worst = "90_PLUS"
  <2>1. Bucket(i) = "90_PLUS"
    BY <1>3, <1>6
  <2>2. i \in worst
    BY <1>1, <2>1, WorstRank
  <2>3. PICK w : w = CHOOSE j \in worst : TRUE
    OBVIOUS
  <2>4. w \in worst
    <3> HIDE DEF worst
    <3> QED
      BY <2>2, <2>3
  <2>5. BucketRank(Bucket(i)) <= BucketRank(Bucket(w))
    BY <1>1, <2>4
  <2>6. BucketRank(Bucket(w)) = 4
    BY <2>1, <2>5, WorstRank
  <2>7. Bucket(w) = "90_PLUS"
    BY <2>6, WorstRank
  <2> HIDE DEF worst
  <2> QED
    BY <1>5, <2>2, <2>3, <2>7
<1>7. ASSUME Account(p).worst = "90_PLUS"
      PROVE  \E i \in OfParty(n, p) : LineBucket(n, i) = "90_PLUS"
  <2>1. worst # {}
    <3> HIDE DEF worst
    <3> QED
      BY <1>5, <1>7
  <2>2. PICK w : w = CHOOSE j \in worst : TRUE
    OBVIOUS
  <2>3. w \in worst /\ Bucket(w) = "90_PLUS"
    <3> HIDE DEF worst
    <3> QED
      BY <1>5, <1>7, <2>1, <2>2
  <2>4. w \in OfParty(n, p)
    BY <1>1, <2>3
  <2> QED
    BY <1>3, <2>3, <2>4
<1> QED
  BY <1>4, <1>6, <1>7

Here(n) == {p \in Parties : EntityOf[p] = published[n].entity}

\* All pages of the entity's parties together.
LEMMA PartiesShow ==
  ASSUME Parameters, Inv, NEW n, NEW g, Newly(n, g)
  PROVE  Sum(PartyTotal, Here(n)) = g[Lines(n)]
<1> DEFINE P == Here(n)
           K == [p \in P |-> OfParty(n, p)]
           H == [p \in P |-> PartyTotal(p)]
<1>1. IsFiniteSet(P)
  <2>1. IsFiniteSet(Parties) /\ P \in SUBSET Parties
    BY DEF Parameters, Here
  <2> QED
    BY <2>1, FS_Subset
<1>2. \A p \in P : PartyTotal(p) = g[OfParty(n, p)]
  BY PartyShows DEF Here
<1>3. \A p \in P : K[p] = OfParty(n, p) /\ H[p] = PartyTotal(p)
  OBVIOUS
<1>4. K \in [P -> SUBSET Lines(n)]
  BY DEF OfParty
<1>5. \A i \in Lines(n) : PartyOf[i] \in P
  <2>1. \A i \in Lines(n) : i \in Invoices /\ EntityOf[PartyOf[i]] = published[n].entity
    BY DEF Newly, Tells, EntityOfInvoice
  <2>2. PartyOf \in [Invoices -> Parties]
    BY DEF Parameters
  <2> QED
    BY <2>1, <2>2 DEF Here
<1> HIDE DEF K, H, P
<1>6. Parts(K, P, Lines(n)) /\ Each(H, K, P, g)
  <2>1. \A p, q \in P : p # q => K[p] \cap K[q] = {}
    BY <1>3 DEF OfParty
  <2>2. \A p \in P : H[p] = g[K[p]]
    BY <1>2, <1>3
  <2> QED
    BY <1>1, <1>4, <2>1, <2>2 DEF Parts, Each
<1>7. Joined(K, P) = Lines(n)
  BY <1>3, <1>5 DEF Joined, OfParty
<1>8. AddsUpTo(P, H, g[Lines(n)])
  <2>1. AddsUpTo(P, H, g[Joined(K, P)])
    BY <1>6, SumParts
  <2> QED
    BY <1>7, <2>1
<1>9. Sum(PartyTotal, P) = g[Lines(n)]
  BY <1>3, <1>8, SumPartyTotals
<1>10. Sum(PartyTotal, P) = Sum(PartyTotal, Here(n))
  BY DEF P, Sum, MapThenSumSet, MapThenFoldSet
<1> QED
  BY <1>9, <1>10

-----------------------------------------------------------------------------
(* The exports and the leafed register *)

\* Whoever lists all open invoices of the entity finds the rows of its snapshot.
AsksOpen(q, e) ==
  /\ q.entity = e /\ q.status = "OPEN" /\ q.party = "ANY" /\ q.change = "all"

LEMMA OpenMatch ==
  ASSUME Parameters, Inv, NEW n, NEW g, Newly(n, g), NEW q, AsksOpen(q, published[n].entity)
  PROVE  Matching(q) = Lines(n)
<1>1. published[n].entity # "ANY"
  <2>1. n \in DOMAIN published
    BY DEF Newly, LatestIds
  <2>2. published[n].entity \in Entities
    BY <2>1, PublishedTyped DEF Inv
  <2> QED
    BY <2>2 DEF Parameters
<1>2. {i \in Invoices : inv[i].status = "OPEN" /\ EntityOfInvoice(i) = published[n].entity}
        = Lines(n)
  BY OpenOfEntity DEF Newly
<1>3. \A i \in Invoices : i \in Matching(q) <=>
        inv[i].status = "OPEN" /\ EntityOfInvoice(i) = published[n].entity
  BY <1>1 DEF Matching, AsksOpen
<1>4. Matching(q) \subseteq Invoices
  BY DEF Matching
<1> QED
  BY <1>2, <1>3, <1>4

LEMMA OrderOfLines ==
  ASSUME Parameters, NEW n, NEW g, Newly(n, g)
  PROVE  LET s == Order(Lines(n))
             m == Cardinality(Lines(n)) IN
         /\ m \in Nat /\ m <= Cardinality(Invoices) /\ Cardinality(Invoices) \in Nat
         /\ DOMAIN s = 1 .. m /\ Range(s) = Lines(n)
         /\ s \in [1 .. m -> Lines(n)]
         /\ \A j, k \in 1 .. m : s[j] = s[k] => j = k
<1>1. Lines(n) \in SUBSET Invoices
  BY DEF Newly
<1>2. PICK s : s = Order(Lines(n))
  OBVIOUS
<1>3. PICK m : m = Cardinality(Lines(n))
  OBVIOUS
<1>4. /\ m \in Nat /\ m <= Cardinality(Invoices) /\ Cardinality(Invoices) \in Nat
      /\ s \in [1 .. m -> Lines(n)]
      /\ \A j, k \in 1 .. m : s[j] = s[k] => j = k
      /\ \A i \in Lines(n) : \E k \in 1 .. m : s[k] = i
  BY <1>1, <1>2, <1>3, OrderIs
<1>5. DOMAIN s = 1 .. m /\ Range(s) = Lines(n)
  BY <1>4 DEF Range
<1> QED
  BY <1>2, <1>3, <1>4, <1>5

\* /reports/parties.
LEMMA ReportShows ==
  ASSUME Parameters, Inv, NEW n, NEW g, Newly(n, g)
  PROVE  LET report == PartiesReport(published[n].entity) IN
         /\ DOMAIN report = {PartyOf[i] : i \in Lines(n)}
         /\ \A p \in DOMAIN report : report[p].total = g[OfParty(n, p)]
         /\ \A b \in OverdueBuckets : SumOfBucket(DOMAIN report, report, b) = g[InBucket(n, b)]
<1> DEFINE q == AllOpen(published[n].entity)
           report == PartiesReport(published[n].entity)
           P == {PartyOf[i] : i \in Lines(n)}
<1>1. /\ AsksOpen(q, published[n].entity) /\ q.page = 1 /\ q.bucket = "ANY"
      /\ q.size = Cardinality(Invoices)
  BY DEF AllOpen, AsksOpen
<1> HIDE DEF q
<1>2. Matching(q) = Lines(n)
  BY <1>1, OpenMatch
<1>3. ListInvoices(q).items = Order(Lines(n))
  <2>1. Lines(n) \in SUBSET Invoices
    BY DEF Newly
  <2>2. Cardinality(Lines(n)) <= q.size /\ q.size \in Nat
    BY <1>1, OrderOfLines
  <2> QED
    BY <1>1, <1>2, <2>1, <2>2, OnePage
<1>4. Range(ListInvoices(q).items) = Lines(n)
  BY <1>3, OrderOfLines
<1>5. report = [p \in {PartyOf[i] : i \in Range(ListInvoices(q).items)} |->
        [total |-> SumOfAmounts({i \in Range(ListInvoices(q).items) : PartyOf[i] = p}),
         buckets |-> [b \in Buckets |->
           SumOfAmounts({x \in {i \in Range(ListInvoices(q).items) : PartyOf[i] = p} :
                           Bucket(x) = b})]]]
  BY DEF PartiesReport, ByBucket, SumOfAmounts, Sum, MapThenSumSet, MapThenFoldSet, q
<1>6. report = [p \in P |->
        [total |-> SumOfAmounts(OfParty(n, p)),
         buckets |-> [b \in Buckets |-> SumOfAmounts({x \in OfParty(n, p) : Bucket(x) = b})]]]
  BY <1>4, <1>5 DEF OfParty
<1> HIDE DEF report
<1>7. ASSUME NEW U \in SUBSET Lines(n) PROVE SumOfAmounts(U) = g[U]
  <2>1. AddsUpTo(U, Owed(n), g[U])
    BY SumOwed
  <2>2. \A i \in U : inv[i].amount = Owed(n)[i]
    BY DEF Newly, Tells, Owed
  <2> QED
    BY <2>1, <2>2, SumAmounts
<1>8. DOMAIN report = P
  BY <1>6
<1>9. ASSUME NEW p \in P
      PROVE  /\ report[p].total = g[OfParty(n, p)]
             /\ \A b \in Buckets : report[p].buckets[b] = g[{i \in OfParty(n, p) : Bucket(i) = b}]
  <2>1. report[p].total = SumOfAmounts(OfParty(n, p))
    BY <1>6
  <2>2. \A b \in Buckets :
          report[p].buckets[b] = SumOfAmounts({x \in OfParty(n, p) : Bucket(x) = b})
    BY <1>6
  <2>3. OfParty(n, p) \in SUBSET Lines(n)
    BY DEF OfParty
  <2>4. \A b : {x \in OfParty(n, p) : Bucket(x) = b} \in SUBSET Lines(n)
    BY <2>3
  <2> QED
    BY <1>7, <2>1, <2>2, <2>3, <2>4
<1>10. ASSUME NEW b \in OverdueBuckets
       PROVE  SumOfBucket(P, report, b) = g[InBucket(n, b)]
  <2> DEFINE K == [p \in P |-> {i \in OfParty(n, p) : Bucket(i) = b}]
             H == [p \in P |-> report[p].buckets[b]]
  <2>1. b \in Buckets
    BY DEF Buckets
  <2>2. \A p \in P : /\ K[p] = {i \in OfParty(n, p) : Bucket(i) = b}
                     /\ H[p] = report[p].buckets[b]
    OBVIOUS
  <2>3. K \in [P -> SUBSET Lines(n)]
    BY DEF OfParty
  <2>4. IsFiniteSet(P)
    <3>1. \A i \in Lines(n) : i \in Invoices
      BY DEF Newly
    <3>2. P \in SUBSET Parties /\ IsFiniteSet(Parties)
      BY <3>1 DEF Parameters
    <3> QED
      BY <3>2, FS_Subset
  <2> HIDE DEF K, H
  <2>5. Parts(K, P, Lines(n)) /\ Each(H, K, P, g)
    <3>1. \A p, r \in P : p # r => K[p] \cap K[r] = {}
      BY <2>2 DEF OfParty
    <3>2. \A p \in P : H[p] = g[K[p]]
      BY <1>9, <2>1, <2>2
    <3> HIDE DEF P
    <3> QED
      BY <2>3, <2>4, <3>1, <3>2 DEF Parts, Each
  <2>6. Joined(K, P) = InBucket(n, b)
    <3>1. \A i \in Lines(n) : Bucket(i) = LineBucket(n, i)
      BY DEF Newly, Tells
    <3>2. \A i \in InBucket(n, b) : PartyOf[i] \in P /\ i \in K[PartyOf[i]]
      BY <2>2, <3>1 DEF InBucket, OfParty
    <3>3. \A p \in P : K[p] \subseteq InBucket(n, b)
      BY <2>2, <3>1 DEF InBucket, OfParty
    <3> HIDE DEF P
    <3> QED
      BY <3>2, <3>3 DEF Joined
  <2>7. AddsUpTo(P, H, g[Joined(K, P)])
    BY <2>5, SumParts
  <2>8. AddsUpTo(P, H, g[InBucket(n, b)])
    BY <2>6, <2>7
  <2> HIDE DEF P
  <2> QED
    BY <2>2, <2>8, SumBucket
<1> QED
  BY <1>8, <1>9, <1>10 DEF report

\* /reports/ageing, while it holds every row.
LEMMA AgeingShows ==
  ASSUME Parameters, Inv, NEW n, NEW g, Newly(n, g),
         Cardinality(DOMAIN AgeingReport(published[n].entity)) < ExportRows
  PROVE  LET rows == AgeingReport(published[n].entity) IN
         SumOfColumn(DOMAIN rows, rows) = g[Lines(n)]
<1> DEFINE q == [AllOpen(published[n].entity) EXCEPT !.size = ExportRows]
           rows == AgeingReport(published[n].entity)
           s == Order(Lines(n))
           m == Cardinality(Lines(n))
<1>1. /\ AsksOpen(q, published[n].entity) /\ q.page = 1 /\ q.bucket = "ANY"
      /\ q.size = ExportRows /\ ExportRows \in Nat
  BY DEF AllOpen, AsksOpen, Parameters
<1> HIDE DEF q
<1>2. Matching(q) = Lines(n) /\ Lines(n) \in SUBSET Invoices
  BY <1>1, OpenMatch DEF Newly
<1>3. /\ m \in Nat /\ DOMAIN s = 1 .. m /\ Range(s) = Lines(n) /\ s \in [1 .. m -> Lines(n)]
      /\ \A j, k \in 1 .. m : s[j] = s[k] => j = k
  BY OrderOfLines
<1>4. rows = [k \in DOMAIN ListInvoices(q).items |->
         [invoice |-> ListInvoices(q).items[k], amount |-> inv[ListInvoices(q).items[k]].amount,
          bucket |-> Bucket(ListInvoices(q).items[k])]]
  BY DEF AgeingReport, q
<1>5. m <= ExportRows
  <2> SUFFICES ASSUME ~(m <= ExportRows) PROVE FALSE
    OBVIOUS
  <2> DEFINE before == (q.page - 1) * q.size
             taken == {k \in DOMAIN s : /\ before < k /\ k <= before + q.size
                                        /\ q.bucket \in {"ANY", Bucket(s[k])}}
  <2>1. ListInvoices(q).items = [k \in taken |-> s[k]]
    BY <1>2, ItemsAre
  <2>2. before = 0
    BY <1>1
  <2> HIDE DEF before, s, m
  <2>3. taken = 1 .. ExportRows
    BY <1>1, <1>3, <2>2
  <2>4. DOMAIN rows = 1 .. ExportRows
    <3> HIDE DEF taken, rows
    <3> QED
      BY <1>4, <2>1, <2>3
  <2>5. Cardinality(1 .. ExportRows) = ExportRows
    BY <1>1, FS_Interval
  <2>6. Cardinality(DOMAIN rows) < ExportRows
    OBVIOUS
  <2> HIDE DEF rows
  <2> QED
    BY <1>1, <2>4, <2>5, <2>6
<1>6. ListInvoices(q).items = s
  BY <1>1, <1>2, <1>5, OnePage
<1> HIDE DEF rows, s, m
<1>7. PICK D : D = 1 .. m
  OBVIOUS
<1>8. DOMAIN rows = D /\ \A k \in D : rows[k].amount = inv[s[k]].amount
  BY <1>3, <1>4, <1>6, <1>7
<1>9. /\ s \in [D -> Lines(n)] /\ \A j, k \in D : s[j] = s[k] => j = k
      /\ {s[k] : k \in D} = Lines(n)
  BY <1>3, <1>7 DEF Range
<1> DEFINE H == [k \in D |-> rows[k].amount]
<1>10. \A k \in D : rows[k].amount = H[k]
  OBVIOUS
<1>11. \A k \in D : H[k] = Owed(n)[s[k]]
  <2>1. \A i \in Lines(n) : inv[i].amount = Owed(n)[i]
    BY DEF Newly, Tells, Owed
  <2> QED
    BY <1>8, <1>9, <2>1
<1> HIDE DEF H
<1>12. AddsUpTo(D, H, g[{s[k] : k \in D}])
  BY <1>9, <1>11, SumLines
<1>13. AddsUpTo(D, H, g[Lines(n)])
  BY <1>9, <1>12
<1>14. SumOfColumn(D, rows) = g[Lines(n)]
  BY <1>10, <1>13, SumColumn
<1> QED
  BY <1>8, <1>14 DEF rows

\* The register, page by page, a bucket at a time.
LEMMA LeafedShows ==
  ASSUME Parameters, Inv, NEW n, NEW g, Newly(n, g), NEW b \in OverdueBuckets
  PROVE  Sum(Outstanding, Leafed(published[n].entity, b)) = g[InBucket(n, b)]
<1> DEFINE e == published[n].entity
           s == Order(Lines(n))
           m == Cardinality(Lines(n))
           Q(page) == [AllOpen(e) EXCEPT !.bucket = b, !.page = page, !.size = 1]
<1>1. /\ m \in Nat /\ m <= Cardinality(Invoices) /\ Cardinality(Invoices) \in Nat
      /\ DOMAIN s = 1 .. m /\ Range(s) = Lines(n) /\ s \in [1 .. m -> Lines(n)]
  BY OrderOfLines
<1>2. Lines(n) \subseteq Invoices /\ \A i \in Lines(n) : Bucket(i) = LineBucket(n, i)
  BY DEF Newly, Tells
<1> HIDE DEF m
<1>3. ASSUME NEW page \in 1 .. Cardinality(Invoices)
      PROVE  Range(ListInvoices(Q(page)).items) =
               IF page \in 1 .. m /\ Bucket(s[page]) = b THEN {s[page]} ELSE {}
  <2>1. /\ AsksOpen(Q(page), e) /\ Q(page).page = page /\ Q(page).bucket = b
        /\ Q(page).size = 1
    BY DEF AllOpen, AsksOpen
  <2>2. PICK q : q = Q(page)
    OBVIOUS
  <2>3. Matching(q) = Lines(n)
    BY <2>1, <2>2, OpenMatch
  <2> DEFINE before == (q.page - 1) * q.size
             taken == {k \in DOMAIN s : /\ before < k /\ k <= before + q.size
                                        /\ q.bucket \in {"ANY", Bucket(s[k])}}
  <2>4. ListInvoices(q).items = [k \in taken |-> s[k]]
    BY <2>3, ItemsAre
  <2>5. before = page - 1 /\ q.size = 1 /\ q.bucket = b /\ b # "ANY" /\ page \in Int
    BY <1>1, <2>1, <2>2, OverdueAre
  <2> HIDE DEF before, s
  <2>6. taken = IF page \in 1 .. m /\ Bucket(s[page]) = b THEN {page} ELSE {}
    BY <1>1, <2>5
  <2> HIDE DEF taken
  <2>7. Range(ListInvoices(q).items) = {s[k] : k \in taken}
    BY <2>4 DEF Range
  <2>8. CASE page \in 1 .. m /\ Bucket(s[page]) = b
    BY <2>2, <2>6, <2>7, <2>8
  <2>9. CASE ~(page \in 1 .. m /\ Bucket(s[page]) = b)
    BY <2>2, <2>6, <2>7, <2>9
  <2> QED
    BY <2>8, <2>9
<1>4. Leafed(e, b) = {i \in Invoices : \E page \in 1 .. Cardinality(Invoices) :
                        i \in Range(ListInvoices(Q(page)).items)}
  BY DEF Leafed
<1> HIDE DEF Q, s
<1>5. Leafed(e, b) = InBucket(n, b)
  <2>1. ASSUME NEW i \in Leafed(e, b) PROVE i \in InBucket(n, b)
    <3>1. PICK page \in 1 .. Cardinality(Invoices) : i \in Range(ListInvoices(Q(page)).items)
      BY <1>4
    <3>2. page \in 1 .. m /\ Bucket(s[page]) = b /\ i = s[page]
      BY <1>3, <3>1
    <3> QED
      BY <1>1, <1>2, <3>2 DEF InBucket
  <2>2. ASSUME NEW i \in InBucket(n, b) PROVE i \in Leafed(e, b)
    <3>1. i \in Lines(n) /\ i \in Invoices /\ Bucket(i) = b
      BY <1>2 DEF InBucket
    <3>2. PICK page \in 1 .. m : s[page] = i
      BY <1>1, <3>1 DEF Range
    <3>3. page \in 1 .. Cardinality(Invoices)
      BY <1>1
    <3>4. i \in Range(ListInvoices(Q(page)).items)
      BY <1>3, <3>1, <3>2, <3>3
    <3> QED
      BY <1>4, <3>1, <3>3, <3>4
  <2> QED
    BY <2>1, <2>2
<1>6. Sum(Outstanding, InBucket(n, b)) = g[InBucket(n, b)]
  BY SumOfOutstanding DEF InBucket
<1>7. Sum(Outstanding, Leafed(e, b)) = Sum(Outstanding, InBucket(n, b))
  BY <1>5 DEF Sum, MapThenSumSet, MapThenFoldSet
<1> QED
  BY <1>6, <1>7

-----------------------------------------------------------------------------
(* The consolidated dashboard *)

LEMMA RateKnown ==
  ASSUME Parameters, NEW i \in Invoices, HasRate(i)
  PROVE  RateOf[i] \in Int
<1>1. RateOf[i] = IF CurrencyOf[i] = "INR" THEN 1
        ELSE (CHOOSE r \in Covering(i) : \A s \in Covering(i) : s.since <= r.since).rate
  BY DEF RateOf
<1>2. CASE CurrencyOf[i] = "INR"
  BY <1>1, <1>2
<1>3. CASE CurrencyOf[i] # "INR"
  <2> DEFINE C == Covering(i)
             K == [r \in C |-> r.since]
  <2>1. C \in SUBSET Rates /\ C # {}
    BY <1>3 DEF Covering, HasRate
  <2>2. \A r \in C : r.since \in Int /\ r.rate \in Int
    BY <2>1 DEF Parameters
  <2>3. IsFiniteSet(C)
    <3>1. IsFiniteSet(Rates)
      BY DEF Parameters
    <3> HIDE DEF C
    <3> QED
      BY <2>1, <3>1, FS_Subset
  <2> HIDE DEF C
  <2>4. K \in [C -> Int] /\ \A r \in C : K[r] = r.since
    BY <2>2
  <2> HIDE DEF K
  <2>5. \E r \in C : \A s \in C : K[s] =< K[r]
    BY <2>1, <2>3, <2>4, GreatestExists
  <2>6. \E r \in C : \A s \in C : s.since <= r.since
    BY <2>4, <2>5
  <2>7. PICK r \in C : r = CHOOSE t \in C : \A s \in C : s.since <= t.since
    BY <2>6
  <2>8. RateOf[i] = r.rate
    BY <1>1, <1>3, <2>7 DEF C
  <2> QED
    BY <2>2, <2>8
<1> QED
  BY <1>2, <1>3

\* On the newest day of all, the snapshot of that day is the newest of its entity.
LEMMA ConsolidatedReads ==
  ASSUME Parameters, TypeOK, FilesKept, NEW day \in ReferenceDay(Latest), NEW e
  PROVE  ForConsolidated(e, day) = NewestOf(PublishedOf(e))
<1> DEFINE All == {k \in DOMAIN published : published[k].day \in Latest}
           S == {n \in PublishedOf(e) : published[n].day \in {day}}
<1>1. All = DOMAIN published
  BY PublishedTyped DEF Latest
<1>2. NewestOf(All) # NoSnapshot /\ published[NewestOf(All)].day = day
  BY DEF ReferenceDay
<1>3. DOMAIN published # {}
  BY <1>1, <1>2 DEF NewestOf
<1>4. Newest(NewestOf(DOMAIN published), DOMAIN published)
  BY <1>3, NewestIs
<1> HIDE DEF All
<1>5. \A k \in DOMAIN published : published[k].day =< day
  <2> DEFINE m == NewestOf(DOMAIN published)
  <2>1. published[m].day = day
    BY <1>1, <1>2
  <2> HIDE DEF m
  <2>2. Newest(m, DOMAIN published)
    BY <1>4 DEF m
  <2>3. \A k \in DOMAIN published : published[k].day \in Int
    BY DaysAreNumbers
  <2> QED
    BY <2>1, <2>2, <2>3 DEF Newest
<1>6. ResolveSnapshot(e, {day}) = NewestOf(S)
  BY DEF ResolveSnapshot
<1>7. CASE S = {}
  <2>1. ResolveSnapshot(e, {day}) = NoSnapshot
    BY <1>6, <1>7 DEF NewestOf
  <2> QED
    BY <2>1, ResolvedIsNewest DEF ForConsolidated
<1>8. CASE S # {}
  <2>1. PICK n \in S : TRUE
    BY <1>8
  <2>2. n \in DOMAIN published /\ published[n].entity = e /\ published[n].day = day
    BY <2>1 DEF PublishedOf
  <2>3. ASSUME NEW k \in PublishedOf(e), k # n PROVE published[k].day < published[n].day
    <3>1. k \in DOMAIN published /\ published[k].entity = e
      BY DEF PublishedOf
    <3>2. published[k].day # published[n].day
      BY <2>2, <2>3, <3>1 DEF FilesKept
    <3>3. published[k].day \in Int /\ published[n].day \in Int
      BY <2>2, <3>1, DaysAreNumbers
    <3> QED
      BY <1>5, <2>2, <3>1, <3>2, <3>3
  <2>4. PublishedOf(e) \in SUBSET DOMAIN published /\ n \in PublishedOf(e)
    BY <2>2 DEF PublishedOf
  <2>5. NewestOf(PublishedOf(e)) = n
    BY <2>3, <2>4, NewestIsThat
  <2>6. S \in SUBSET DOMAIN published /\ \A k \in S : k \in PublishedOf(e)
    BY DEF PublishedOf
  <2> HIDE DEF S
  <2>7. NewestOf(S) = n
    BY <2>1, <2>3, <2>6, NewestIsThat
  <2>8. n # NoSnapshot
    <3>1. DOMAIN published = 1 .. Len(published) /\ Len(published) \in Nat
      BY PublishedTyped
    <3> QED
      BY <2>2, <3>1 DEF NoSnapshot
  <2> QED
    BY <1>6, <2>5, <2>7, <2>8 DEF ForConsolidated
<1> QED
  BY <1>7, <1>8

\* So it reads, of every entity, the snapshot published last.
LEMMA ConsolidatedIds ==
  ASSUME Parameters, TypeOK, FilesKept, InOrder, NEW day \in ReferenceDay(Latest)
  PROVE  {ForConsolidated(e, day) : e \in Entities} \ {NoSnapshot} = LatestIds
<1>1. ASSUME NEW e \in Entities, ForConsolidated(e, day) # NoSnapshot
      PROVE  ForConsolidated(e, day) \in LatestIds
  <2>1. ForConsolidated(e, day) = NewestOf(PublishedOf(e))
    BY ConsolidatedReads
  <2>2. PublishedOf(e) # {}
    BY <1>1, <2>1 DEF NewestOf
  <2> QED
    BY <2>1, <2>2, NewestIsLast
<1>2. ASSUME NEW n \in LatestIds
      PROVE  n # NoSnapshot /\ \E e \in Entities : ForConsolidated(e, day) = n
  <2>1. n \in DOMAIN published
    BY DEF LatestIds
  <2>2. PICK e \in Entities : e = published[n].entity
    BY <2>1, PublishedTyped
  <2>3. n \in PublishedOf(e)
    BY <2>1, <2>2 DEF PublishedOf
  <2>4. NewestOf(PublishedOf(e)) = n
    <3>1. PublishedOf(e) \in SUBSET PublishedOf(published[n].entity)
      BY <2>2
    <3> QED
      BY <2>3, <3>1, LastIsNewest
  <2>5. ForConsolidated(e, day) = n
    BY <2>4, ConsolidatedReads
  <2>6. n # NoSnapshot
    <3>1. DOMAIN published = 1 .. Len(published) /\ Len(published) \in Nat
      BY PublishedTyped
    <3> QED
      BY <2>1, <3>1 DEF NoSnapshot
  <2> QED
    BY <2>5, <2>6
<1> QED
  BY <1>1, <1>2

LEMMA ConsolidatedShows ==
  ASSUME Parameters, Inv, InOrder, NEW day \in ReferenceDay(Latest),
         ConsolidatedAnswers(day), \A n \in LatestIds : NoRowTwice(n)
  PROVE  Consolidated(day).total = SumConverted(Open(Invoices))
<1> DEFINE rows == {x \in LatestIds \X Invoices : x[2] \in DOMAIN published[x[1]].rows}
           T == Open(Invoices)
           F == [i \in T |-> RateOf[i] * Outstanding(i)]
<1>1. TypeOK /\ FilesKept /\ OpenIsLast
  BY DEF Inv
<1>2. {ForConsolidated(e, day) : e \in Entities} \ {NoSnapshot} = LatestIds
  BY <1>1, ConsolidatedIds
<1>3. Consolidated(day).total = SumOfRows(rows, RateOf)
  <2> DEFINE Of(ns) == {x \in ns \X Invoices : x[2] \in DOMAIN published[x[1]].rows}
  <2>1. Consolidated(day).total
          = SumOfRows(Of({ForConsolidated(e, day) : e \in Entities} \ {NoSnapshot}), RateOf)
    BY DEF Consolidated, Summed, ByBucket, SumOfRows, RowMoney, Sum, MapThenSumSet, MapThenFoldSet
  <2>2. Of({ForConsolidated(e, day) : e \in Entities} \ {NoSnapshot}) = rows
    BY <1>2
  <2> HIDE DEF Of, rows
  <2> QED
    BY <2>1, <2>2
<1>4. ASSUME NEW n \in LatestIds, NEW i \in Lines(n)
      PROVE  /\ Tells(n, i) /\ HasRate(i) /\ RateOf[i] \in Int
             /\ published[n].rows[i].times = 1
  <2>1. Tells(n, i)
    BY LastTells
  <2>2. PICK e \in Entities : ForConsolidated(e, day) = n /\ n # NoSnapshot
    BY <1>2
  <2>3. HasRate(i)
    BY <2>2 DEF ConsolidatedAnswers, Lines
  <2>4. RateOf[i] \in Int
    BY <2>1, <2>3, RateKnown DEF Tells
  <2>5. published[n].rows[i].times = 1
    BY DEF NoRowTwice, Lines
  <2> QED
    BY <2>1, <2>3, <2>4, <2>5
<1>5. \A i \in T : i \in Invoices /\ \E n \in LatestIds : i \in Lines(n)
  BY <1>1 DEF Open, OpenIsLast
<1>6. \A n \in LatestIds : \A i \in Lines(n) : i \in T
  BY <1>4 DEF Open, Tells
<1>7. F \in [T -> Int] /\ \A i \in T : F[i] = RateOf[i] * Outstanding(i)
  <2>1. \A i \in T : RateOf[i] \in Int /\ Outstanding(i) \in Int
    BY <1>4, <1>5 DEF Tells
  <2> HIDE DEF T
  <2>2. \A i \in T : RateOf[i] * Outstanding(i) \in Int
    BY <2>1
  <2> QED
    BY <2>2
<1>8. IsFiniteSet(T)
  <2>1. IsFiniteSet(Invoices) /\ T \in SUBSET Invoices
    BY DEF Parameters, Open
  <2> QED
    BY <2>1, FS_Subset
<1>9. /\ \A x \in rows : /\ x[1] \in LatestIds /\ x[2] \in Lines(x[1]) /\ x[2] \in T
                         /\ x = <<x[1], x[2]>>
      /\ \A n \in LatestIds : \A i \in Lines(n) : <<n, i>> \in rows
  <2>1. \A n \in LatestIds : \A i \in Lines(n) : i \in Invoices
    BY <1>4 DEF Tells
  <2>2. \A x \in rows : /\ x[1] \in LatestIds /\ x[2] \in Lines(x[1])
                        /\ x = <<x[1], x[2]>>
    BY DEF Lines
  <2>3. \A n \in LatestIds : \A i \in Lines(n) : <<n, i>> \in rows
    BY <2>1 DEF Lines
  <2> HIDE DEF rows, T
  <2> QED
    BY <1>6, <2>2, <2>3
<1> HIDE DEF F, T, rows
<1>10. PICK g : SumsOver(g, T, F)
  BY <1>7, <1>8, SumsExist
<1> DEFINE f == [x \in rows |-> x[2]]
           H == [x \in rows |-> RowMoney(x, RateOf)]
<1>11. f \in [rows -> T] /\ \A x \in rows : f[x] = x[2]
  BY <1>9
<1>12. \A x, y \in rows : f[x] = f[y] => x = y
  <2>1. ASSUME NEW k \in LatestIds, NEW n \in LatestIds, NEW i \in Lines(k), i \in Lines(n)
        PROVE  k = n
    <3>1. k \in DOMAIN published /\ n \in DOMAIN published
      BY DEF LatestIds
    <3>2. published[k].entity = published[n].entity
      BY <1>1, <2>1, <3>1 DEF FilesKept
    <3>3. k <= n /\ n <= k
      BY <3>1, <3>2 DEF LatestIds, PublishedOf
    <3>4. k \in Int /\ n \in Int
      BY <1>1, <3>1, DaysAreNumbers
    <3> QED
      BY <3>3, <3>4
  <2>2. ASSUME NEW x \in rows, NEW y \in rows, x[2] = y[2] PROVE x = y
    <3>1. x[1] = y[1]
      BY <1>9, <2>1, <2>2
    <3> QED
      BY <1>9, <2>2, <3>1
  <2> QED
    BY <1>11, <2>2
<1>13. {f[x] : x \in rows} = T
  <2>1. \A i \in T : \E x \in rows : x[2] = i
    <3>1. ASSUME NEW i \in T PROVE \E x \in rows : x[2] = i
      <4>1. PICK n \in LatestIds : i \in Lines(n)
        BY <1>5
      <4>2. <<n, i>> \in rows /\ <<n, i>>[2] = i
        BY <1>9, <4>1
      <4> QED
        BY <4>2
    <3> QED
      BY <3>1
  <2> HIDE DEF f
  <2> QED
    BY <1>11, <2>1
<1>14. \A x \in rows : H[x] = F[f[x]]
  <2>1. ASSUME NEW x \in rows PROVE RowMoney(x, RateOf) = F[x[2]]
    <3> DEFINE n == x[1]
               i == x[2]
    <3>1. n \in LatestIds /\ i \in Lines(n) /\ x[1] = n /\ x[2] = i
      BY <1>9
    <3> HIDE DEF n, i
    <3>2. /\ published[n].rows[i].times = 1 /\ RateOf[i] \in Int
          /\ published[n].rows[i].amount \in Int /\ Outstanding(i) = published[n].rows[i].amount
      BY <1>4, <3>1 DEF Tells
    <3>3. RowMoney(x, RateOf)
            = published[n].rows[i].amount * published[n].rows[i].times * RateOf[i]
      BY <3>1 DEF RowMoney
    <3>4. F[i] = RateOf[i] * Outstanding(i)
      BY <1>6, <1>7, <3>1
    <3>5. PICK a \in Int : a = published[n].rows[i].amount
      BY <3>2
    <3>6. PICK r \in Int : r = RateOf[i]
      BY <3>2
    <3>7. a * 1 * r = r * a
      OBVIOUS
    <3> QED
      BY <3>1, <3>2, <3>3, <3>4, <3>5, <3>6, <3>7
  <2> QED
    BY <1>11, <2>1
<1>15. \A x \in rows : RowMoney(x, RateOf) = H[x]
  OBVIOUS
<1> HIDE DEF f, H
<1>16. AddsUpTo(rows, H, g[{f[x] : x \in rows}])
  BY <1>8, <1>10, <1>11, <1>12, <1>14, SumByIndex
<1>17. AddsUpTo(rows, H, g[T])
  BY <1>13, <1>16
<1>18. SumOfRows(rows, RateOf) = g[T]
  BY <1>15, <1>17, SumRows
<1>19. SumConverted(T) = g[T]
  <2>1. AddsUpTo(T, F, g[T])
    BY <1>8, <1>10, AddsIs
  <2> QED
    BY <1>7, <2>1, SumConvertedIs
<1>20. SumConverted(T) = SumConverted(Open(Invoices))
  BY DEF T
<1> QED
  BY <1>3, <1>18, <1>19, <1>20

-----------------------------------------------------------------------------
(* The figures agree *)

LEMMA EntityTold ==
  ASSUME Parameters, Inv, InOrder, NEW e \in Entities,
         ResolveSnapshot(e, Latest) # NoSnapshot, NoRowTwice(ResolveSnapshot(e, Latest))
  PROVE  EntityAgrees(e, ResolveSnapshot(e, Latest))
<1>0. PICK n : n = ResolveSnapshot(e, Latest)
  OBVIOUS
<1> DEFINE shown == DashboardOfEntity(n)
           report == PartiesReport(e)
           here == {p \in Parties : EntityOf[p] = e}
           rows == AgeingReport(e)
<1>1. n \in LatestIds /\ published[n].entity = e
  BY <1>0, ResolvedIsLast DEF Inv
<1>2. PICK g : Newly(n, g)
  BY <1>0, <1>1, NewlyExists
<1>3. /\ shown.total = g[Lines(n)]
      /\ \A p \in Parties :
           /\ shown.parties[p] = g[OfParty(n, p)]
           /\ p \in shown.over90 <=> \E i \in OfParty(n, p) : LineBucket(n, i) = "90_PLUS"
      /\ \A b \in OverdueBuckets : shown.buckets[b] = g[InBucket(n, b)]
  BY <1>2, DashboardShows
<1>4. /\ DOMAIN report = {PartyOf[i] : i \in Lines(n)}
      /\ \A p \in DOMAIN report : report[p].total = g[OfParty(n, p)]
      /\ \A b \in OverdueBuckets : SumOfBucket(DOMAIN report, report, b) = g[InBucket(n, b)]
  <2> DEFINE of == PartiesReport(published[n].entity)
  <2>1. /\ DOMAIN of = {PartyOf[i] : i \in Lines(n)}
        /\ \A p \in DOMAIN of : of[p].total = g[OfParty(n, p)]
        /\ \A b \in OverdueBuckets : SumOfBucket(DOMAIN of, of, b) = g[InBucket(n, b)]
    BY <1>2, ReportShows
  <2>2. of = report
    BY <1>1
  <2> HIDE DEF of, report
  <2> QED
    BY <2>1, <2>2
<1>5. Cardinality(DOMAIN rows) < ExportRows => SumOfColumn(DOMAIN rows, rows) = g[Lines(n)]
  BY <1>1, <1>2, AgeingShows
<1>6. \A b \in OverdueBuckets : Sum(Outstanding, Leafed(e, b)) = g[InBucket(n, b)]
  BY <1>1, <1>2, LeafedShows
<1>7. Sum(PartyTotal, here) = g[Lines(n)]
  <2>1. Sum(PartyTotal, Here(n)) = g[Lines(n)]
    BY <1>2, PartiesShow
  <2>2. Here(n) = here
    BY <1>1 DEF Here
  <2>3. Sum(PartyTotal, Here(n)) = Sum(PartyTotal, here)
    BY <2>2 DEF Sum, MapThenSumSet, MapThenFoldSet
  <2> QED
    BY <2>1, <2>3
<1> HIDE DEF shown, report, rows
<1>8. ASSUME NEW p \in here
      PROVE  /\ PartyTotal(p) = shown.parties[p] /\ Account(p).total = shown.parties[p]
             /\ p \in DOMAIN report => report[p].total = shown.parties[p]
             /\ p \in DOMAIN report <=> \E i \in DOMAIN published[n].rows : PartyOf[i] = p
             /\ p \in shown.over90 <=> Account(p).worst = "90_PLUS"
  <2>1. p \in Parties /\ EntityOf[p] = published[n].entity
    BY <1>1
  <2>2. /\ PartyTotal(p) = g[OfParty(n, p)]
        /\ Account(p).total = g[OfParty(n, p)]
        /\ Account(p).worst = "90_PLUS" <=> \E i \in OfParty(n, p) : LineBucket(n, i) = "90_PLUS"
    BY <1>2, <2>1, PartyShows
  <2>3. p \in DOMAIN report <=> \E i \in DOMAIN published[n].rows : PartyOf[i] = p
    BY <1>4 DEF Lines
  <2> QED
    BY <1>3, <1>4, <2>1, <2>2, <2>3
<1> QED
  <2>1. Sum(PartyTotal, here) = shown.total
    BY <1>3, <1>7
  <2>2. \A b \in OverdueBuckets :
          Sum(LAMBDA p : report[p].buckets[b], DOMAIN report) = shown.buckets[b]
    <3>1. \A b \in OverdueBuckets : SumOfBucket(DOMAIN report, report, b) = shown.buckets[b]
      BY <1>3, <1>4
    <3> QED
      BY <3>1 DEF SumOfBucket, Sum, MapThenSumSet, MapThenFoldSet
  <2>3. Cardinality(DOMAIN rows) < ExportRows =>
          Sum(LAMBDA k : rows[k].amount, DOMAIN rows) = shown.total
    <3>1. Cardinality(DOMAIN rows) < ExportRows => SumOfColumn(DOMAIN rows, rows) = shown.total
      BY <1>3, <1>5
    <3> QED
      BY <3>1 DEF SumOfColumn, Sum, MapThenSumSet, MapThenFoldSet
  <2>4. \A b \in OverdueBuckets : Sum(Outstanding, Leafed(e, b)) = shown.buckets[b]
    BY <1>3, <1>6
  <2>5. EntityAgrees(e, n)
    BY <1>8, <2>1, <2>2, <2>3, <2>4 DEF EntityAgrees, shown, report, rows
  <2> QED
    BY <1>0, <2>5

LEMMA InvTells ==
  ASSUME Parameters, Inv
  PROVE  FiguresAgree
<1> SUFFICES ASSUME InOrder PROVE FiguresAgree
  BY DEF FiguresAgree
<1>1. ASSUME NEW day \in ReferenceDay(Latest), ConsolidatedAnswers(day),
             \A n \in LatestIds : NoRowTwice(n)
      PROVE  ConsolidatedAgrees(day)
  <2>1. Consolidated(day).total = SumConverted(Open(Invoices))
    BY <1>1, ConsolidatedShows
  <2> QED
    BY <2>1 DEF ConsolidatedAgrees, SumConverted, Sum, MapThenSumSet, MapThenFoldSet
<1> QED
  BY <1>1, EntityTold DEF FiguresAgree

\* The tables stay what they are said to be.
THEOREM TypesKept == ASSUME Parameters PROVE Spec => []TypeOK
<1>1. MaxPublished \in Nat
  BY DEF Parameters
<1>2. Init => Inv
  BY <1>1, InvInit
<1>3. Inv /\ [Next]_vars => Inv'
  BY <1>1, InvStep
<1>4. Inv => TypeOK
  BY DEF Inv
<1> QED
  BY <1>2, <1>3, <1>4, PTL DEF Spec

\* An invoice is open exactly when it is in the snapshot published last of its entity, for
\* the amount of its row there: what lets the pages that read the rows and those that read
\* the open invoices tell one story.
THEOREM OpenKept == ASSUME Parameters PROVE Spec => []OpenIsLast
<1>1. MaxPublished \in Nat
  BY DEF Parameters
<1>2. Init => Inv
  BY <1>1, InvInit
<1>3. Inv /\ [Next]_vars => Inv'
  BY <1>1, InvStep
<1>4. Inv => OpenIsLast
  BY DEF Inv
<1> QED
  BY <1>2, <1>3, <1>4, PTL DEF Spec

\* What one page says is owed, another says too.
THEOREM FiguresTold == ASSUME Parameters PROVE Spec => []FiguresAgree
<1>1. MaxPublished \in Nat
  BY DEF Parameters
<1>2. Init => Inv
  BY <1>1, InvInit
<1>3. Inv /\ [Next]_vars => Inv'
  BY <1>1, InvStep
<1>4. Inv => FiguresAgree
  BY InvTells
<1> QED
  BY <1>2, <1>3, <1>4, PTL DEF Spec

=============================================================================
