---------------------------- MODULE MCConfigurationProofs ----------------------------
(***************************************************************************)
(* What MCConfiguration checks on a small instance, for any value of its   *)
(* constants.  User accounts: a mailed code is accepted once whatever      *)
(* overlaps, and with one admin at a time the audit log tells what became  *)
(* of an account and somebody can still administer them.  Credit periods:  *)
(* the period begun last decides, in every look-up.  Names: none is        *)
(* resolved with a corpus older than its time to live, and bulk mappings   *)
(* make no twins.  Access: who may only read changes nothing, and what a   *)
(* page offers works.  Last, the types of the composition.  Proved with    *)
(* TLAPS.                                                                  *)
(***************************************************************************)
EXTENDS MCConfiguration, FiniteSetTheorems, SequenceTheorems, WellFoundedInduction, TLAPS

-----------------------------------------------------------------------------
(* The inductive invariant *)

CodeOf(u, k) == account[u].code[k]

\* An account has a code that nobody has used, and no other has it.
Unused(u, k) == CodeOf(u, k) =< issued /\ (CodeOf(u, k) # NoCode => taken[CodeOf(u, k)] = 0)
Alike(u, k, v, l) == CodeOf(u, k) # NoCode /\ CodeOf(u, k) = CodeOf(v, l) => u = v /\ k = l

\* The same of the accounts there are, and no code counts before it is mailed.
CodesHeld ==
  /\ \A u \in Users, k \in Kinds : Exists(u) => Unused(u, k)
  /\ \A u, v \in Users, k, l \in Kinds : Exists(u) /\ Exists(v) => Alike(u, k, v, l)
  /\ \A c \in Codes : c > issued => taken[c] = 0

\* A request is about an account that exists: none is ever deleted.
InFlightExist == \A r \in Reqs : req[r].pc # "idle" => Exists(req[r].user)

Inv == TypeOK /\ InFlightExist /\ CodesHeld /\ UsedOnce

\* The founder is a user, approvals give roles there are, and the bounds are numbers.
Parameters ==
  Founder \in Users /\ Granted \subseteq Roles /\ MaxCodes \in Nat /\ MaxFaults \in Nat

-----------------------------------------------------------------------------
(* Accounts *)

LEMMA NobodyIsNobody == NoAccount \notin Account
  BY DEF NoAccount, Account, Roles

\* The account of u becomes b.
LEMMA Becoming ==
  ASSUME account \in [Users -> Account \cup {NoAccount}], NEW u \in Users, NEW b \in Account,
         account' = [account EXCEPT ![u] = b]
  PROVE  /\ account' \in [Users -> Account \cup {NoAccount}]
         /\ account'[u] = b /\ Exists(u)'
         /\ \A v \in Users \ {u} : account'[v] = account[v]
  BY NobodyIsNobody DEF Exists

\* An account whose codes are those before or cleared keeps the invariant.
LEMMA Keeping ==
  ASSUME Parameters, Inv, TypeOK', NEW u \in Users,
         \A v \in Users \ {u} : account'[v] = account[v],
         \A k \in Kinds :
           CodeOf(u, k)' = NoCode \/ (Exists(u) /\ CodeOf(u, k)' = CodeOf(u, k)),
         UNCHANGED <<issued, taken>>
  PROVE  CodesHeld' /\ UsedOnce'
<1>1. \A v \in Users, k \in Kinds :
        CodeOf(v, k)' = NoCode \/ ((Exists(v)' => Exists(v)) /\ CodeOf(v, k)' = CodeOf(v, k))
  BY DEF CodeOf, Exists
<1>2. issued \in Nat
  BY DEF Inv, TypeOK, Parameters
<1>3. \A v \in Users, k \in Kinds : Exists(v)' => Unused(v, k)'
  BY <1>1, <1>2 DEF Inv, CodesHeld, Unused, NoCode
<1>4. \A v, w \in Users, k, l \in Kinds : Exists(v)' /\ Exists(w)' => Alike(v, k, w, l)'
  BY <1>1 DEF Inv, CodesHeld, Alike
<1> QED
  BY <1>3, <1>4 DEF Inv, CodesHeld, UsedOnce

LEMMA Quiet ==
  ASSUME Inv, UNCHANGED <<account, issued, taken>>
  PROVE  CodesHeld' /\ UsedOnce' /\ \A u \in Users : Exists(u) <=> Exists(u)'
  BY DEF Inv, CodesHeld, UsedOnce, Exists, Unused, Alike, CodeOf

\* A new code of kind k is mailed to u, whose other codes are those before or cleared.
LEMMA Mailing ==
  ASSUME Parameters, Inv, TypeOK', NEW u \in Users, NEW k \in Kinds, issued < MaxCodes,
         \A v \in Users \ {u} : account'[v] = account[v],
         CodeOf(u, k)' = issued + 1,
         \A l \in Kinds \ {k} :
           CodeOf(u, l)' = NoCode \/ (Exists(u) /\ CodeOf(u, l)' = CodeOf(u, l)),
         issued' = issued + 1, UNCHANGED taken
  PROVE  CodesHeld' /\ UsedOnce'
<1>1. issued \in Nat /\ issued + 1 \in Codes
  BY DEF Inv, TypeOK, Parameters, Codes
<1>2. \A v \in Users, l \in Kinds :
        \/ v = u /\ l = k
        \/ CodeOf(v, l)' = NoCode
        \/ (Exists(v)' => Exists(v)) /\ CodeOf(v, l)' = CodeOf(v, l)
  BY DEF CodeOf, Exists
<1>3. \A v \in Users, l \in Kinds :
        Exists(v) => CodeOf(v, l) \in Nat /\ CodeOf(v, l) =< issued
  BY DEF Inv, TypeOK, CodesHeld, Unused, Exists, CodeOf, Account, Codes, NoCode, Parameters
<1>4. \A v \in Users, l \in Kinds : Exists(v)' => Unused(v, l)'
  BY <1>1, <1>2, <1>3 DEF Inv, CodesHeld, Unused, NoCode
<1>5. \A v, w \in Users, l, m \in Kinds :
        Exists(v)' /\ Exists(w)' => Alike(v, l, w, m)'
  BY <1>1, <1>2, <1>3 DEF Inv, CodesHeld, Alike, NoCode
<1>6. \A c \in Codes : c > issued' => taken'[c] = 0
  BY <1>1 DEF Inv, CodesHeld, Codes
<1> QED
  BY <1>4, <1>5, <1>6 DEF Inv, CodesHeld, UsedOnce

-----------------------------------------------------------------------------
(* Requests *)

\* Request r goes on as q; accounts may come and change, and none goes.
LEMMA GoingOn ==
  ASSUME Inv, NEW r \in Reqs, NEW q \in Request, Goto(r, q),
         \A u \in Users : Exists(u) => Exists(u)',
         q.pc # "idle" => Exists(q.user)
  PROVE  req' \in [Reqs -> Request] /\ InFlightExist'
<1>1. req' \in [Reqs -> Request] /\ req'[r] = q /\ \A s \in Reqs \ {r} : req'[s] = req[s]
  BY DEF Inv, TypeOK, Goto
<1>2. \A s \in Reqs : req'[s].pc # "idle" => req'[s].user \in Users
  BY <1>1 DEF Request, Idle
<1>3. \A s \in Reqs : req'[s].pc # "idle" => Exists(req'[s].user)
  BY <1>1 DEF Inv, InFlightExist
<1> QED
  BY <1>1, <1>2, <1>3 DEF InFlightExist, Exists

LEMMA Ending ==
  ASSUME Inv, NEW r \in Reqs, End(r), \A u \in Users : Exists(u) => Exists(u)'
  PROVE  req' \in [Reqs -> Request] /\ InFlightExist'
  BY GoingOn DEF End, Idle, Request

\* Requests that do not move keep theirs.
LEMMA Staying ==
  ASSUME Inv, UNCHANGED req, \A u \in Users : Exists(u) => Exists(u)'
  PROVE  req' \in [Reqs -> Request] /\ InFlightExist'
<1>1. \A s \in Reqs : req[s].pc # "idle" => req[s].user \in Users
  BY DEF Inv, TypeOK, Request, Idle
<1> QED
  BY <1>1 DEF Inv, TypeOK, InFlightExist, Exists

\* What the fields of a request hold.
LEMMA Fields ==
  ASSUME Inv, NEW r \in Reqs
  PROVE  /\ At(r, "mail") => req[r].user \in Users /\ req[r].kind \in Kinds
         /\ At(r, "redeem") =>
              req[r].user \in Users /\ req[r].kind \in Kinds /\ req[r].code \in Codes
         /\ \A pc \in {"find", "set", "log"} : At(r, pc) =>
              req[r] \in [pc: {"find", "set", "log"}, by: Users, user: Users,
                          op: {"approve", "deactivate", "reactivate"}, role: Roles,
                          before: Standing]
  BY DEF Inv, TypeOK, Request, Idle, At

-----------------------------------------------------------------------------
(* Registration and sign-in *)

LEMMA RegisterKeeps == ASSUME Parameters, Inv, NEW u \in Users, Register(u) PROVE Inv'
<1> DEFINE b == [role |-> "PENDING", active |-> TRUE, password |-> TRUE, google |-> FALSE,
                 verified |-> FALSE, code |-> [NoCodes EXCEPT !["verify"] = issued + 1]]
<1>1. issued + 1 \in Codes /\ issued' = issued + 1 /\ issued' \in 0 .. MaxCodes
  BY DEF Register, Inv, TypeOK, Parameters, Codes
<1>2. /\ b \in Account
      /\ b.code["verify"] = issued + 1 /\ \A k \in Kinds \ {"verify"} : b.code[k] = NoCode
  BY <1>1 DEF Account, Roles, NoCodes, Kinds
<1>3. account' = [account EXCEPT ![u] = b]
  BY DEF Register
<1> HIDE DEF b
<1>4. /\ account' \in [Users -> Account \cup {NoAccount}]
      /\ account'[u] = b /\ Exists(u)' /\ \A v \in Users \ {u} : account'[v] = account[v]
  BY <1>2, <1>3, Becoming DEF Inv, TypeOK
<1>5. \A v \in Users : Exists(v) => Exists(v)'
  BY <1>4 DEF Exists
<1>6. req' \in [Reqs -> Request] /\ InFlightExist'
  BY <1>5, Staying DEF Register
<1>7. TypeOK'
  <2>1. expired' \subseteq 1 .. issued'
    BY <1>1 DEF Register, Inv, TypeOK, Parameters
  <2>2. UNCHANGED <<taken, sessions, logged, faults>>
    BY DEF Register
  <2> QED
    BY <1>1, <1>4, <1>6, <2>1, <2>2 DEF Inv, TypeOK
<1>8. CodesHeld' /\ UsedOnce'
  <2>1. issued < MaxCodes /\ UNCHANGED taken
    BY DEF Register
  <2>2. /\ CodeOf(u, "verify")' = issued + 1
        /\ \A l \in Kinds \ {"verify"} : CodeOf(u, l)' = NoCode
    BY <1>2, <1>4 DEF CodeOf
  <2>3. "verify" \in Kinds
    BY DEF Kinds
  <2> QED
    BY <1>1, <1>4, <1>7, <2>1, <2>2, <2>3, Mailing
<1> QED
  BY <1>6, <1>7, <1>8 DEF Inv

LEMMA GoogleSignInKeeps == ASSUME Parameters, Inv, NEW u \in Users, GoogleSignIn(u) PROVE Inv'
<1> DEFINE b == IF Exists(u)
                THEN [account[u] EXCEPT !.google = TRUE, !.verified = TRUE]
                ELSE [role |-> "PENDING", active |-> TRUE, password |-> FALSE,
                      google |-> TRUE, verified |-> TRUE, code |-> NoCodes]
<1>1. /\ b \in Account
      /\ \A k \in Kinds : b.code[k] = NoCode \/ (Exists(u) /\ b.code[k] = account[u].code[k])
  BY DEF Inv, TypeOK, Exists, Account, Roles, NoCodes, Codes
<1>2. account' = [account EXCEPT ![u] = b]
  BY DEF GoogleSignIn
<1> HIDE DEF b
<1>3. /\ account' \in [Users -> Account \cup {NoAccount}]
      /\ account'[u] = b /\ Exists(u)' /\ \A v \in Users \ {u} : account'[v] = account[v]
  BY <1>1, <1>2, Becoming DEF Inv, TypeOK
<1>4. \A v \in Users : Exists(v) => Exists(v)'
  BY <1>3 DEF Exists
<1>5. req' \in [Reqs -> Request] /\ InFlightExist'
  BY <1>4, Staying DEF GoogleSignIn
<1>6. TypeOK'
  BY <1>3, <1>5 DEF GoogleSignIn, Inv, TypeOK
<1>7. CodesHeld' /\ UsedOnce'
  BY <1>1, <1>3, <1>6, Keeping DEF CodeOf, GoogleSignIn
<1> QED
  BY <1>5, <1>6, <1>7 DEF Inv

LEMMA SessionsKeep ==
  ASSUME Parameters, Inv, NEW u \in Users, PasswordSignIn(u) \/ SessionEnds(u) PROVE Inv'
<1>1. UNCHANGED <<account, issued, expired, taken, logged, faults, req>>
  BY DEF PasswordSignIn, SessionEnds
<1>2. sessions' \subseteq Users
  BY DEF PasswordSignIn, SessionEnds, Inv, TypeOK
<1>3. CodesHeld' /\ UsedOnce' /\ \A v \in Users : Exists(v) => Exists(v)'
  BY <1>1, Quiet
<1> QED
  BY <1>1, <1>2, <1>3, Staying DEF Inv, TypeOK

-----------------------------------------------------------------------------
(* Mailed codes *)

LEMMA ExpireKeeps == ASSUME Parameters, Inv, NEW c \in Codes, Expire(c) PROVE Inv'
<1>1. expired' \subseteq 1 .. issued'
  BY DEF Expire, Inv, TypeOK, Codes, Parameters
<1>2. CodesHeld' /\ UsedOnce' /\ \A u \in Users : Exists(u) => Exists(u)'
  BY Quiet DEF Expire
<1> QED
  BY <1>1, <1>2, Staying DEF Expire, Inv, TypeOK

\* A request that begins changes nothing but its slot.
LEMMA BeginKeeps ==
  ASSUME Parameters, Inv, NEW r \in Reqs, NEW q \in Request, Goto(r, q),
         q.pc # "idle" => Exists(q.user),
         UNCHANGED <<account, issued, expired, taken, sessions, faults>>,
         logged' \in [Users -> [state: Standing, chained: BOOLEAN]]
  PROVE  Inv'
<1>1. CodesHeld' /\ UsedOnce' /\ \A u \in Users : Exists(u) => Exists(u)'
  BY Quiet
<1>2. req' \in [Reqs -> Request] /\ InFlightExist'
  BY <1>1, GoingOn
<1> QED
  BY <1>1, <1>2 DEF Inv, TypeOK

LEMMA MailsKeep ==
  ASSUME Parameters, Inv, NEW r \in Reqs, NEW u \in Users, NEW k \in Kinds,
         AskBegin(r, u, k) \/ RedeemBegin(r, u, k)
  PROVE  Inv'
<1>1. CASE AskBegin(r, u, k)
  <2> DEFINE q == [pc |-> "mail", user |-> u, kind |-> k]
  <2>1. q \in Request /\ Exists(q.user) /\ Goto(r, q)
    BY <1>1 DEF Request, AskBegin, MayAsk
  <2> QED
    BY <1>1, <2>1, BeginKeeps DEF AskBegin, Inv, TypeOK
<1>2. CASE RedeemBegin(r, u, k)
  <2> DEFINE q == [pc |-> "redeem", user |-> u, kind |-> k, code |-> account[u].code[k]]
  <2>1. account[u].code[k] \in Codes
    BY <1>2 DEF RedeemBegin, Inv, TypeOK, Exists, Account
  <2>2. q \in Request /\ Exists(q.user) /\ Goto(r, q)
    BY <1>2, <2>1 DEF Request, RedeemBegin
  <2> QED
    BY <1>2, <2>2, BeginKeeps DEF RedeemBegin, Inv, TypeOK
<1> QED
  BY <1>1, <1>2

LEMMA AskCommitKeeps == ASSUME Parameters, Inv, NEW r \in Reqs, AskCommit(r) PROVE Inv'
<1>0. PICK u \in Users, k \in Kinds : u = req[r].user /\ k = req[r].kind
  BY Fields DEF AskCommit
<1> DEFINE b == [account[u] EXCEPT !.code[k] = issued + 1]
<1>1. Exists(u)
  BY <1>0 DEF AskCommit, Inv, InFlightExist, At
<1>2. issued + 1 \in Codes /\ issued' = issued + 1 /\ issued' \in 0 .. MaxCodes
  BY DEF AskCommit, Inv, TypeOK, Parameters, Codes
<1>3. account[u] \in Account
  BY <1>1 DEF Inv, TypeOK, Exists
<1>4. /\ b \in Account
      /\ b.code[k] = issued + 1 /\ \A l \in Kinds \ {k} : b.code[l] = account[u].code[l]
  BY <1>1, <1>2, <1>3 DEF Account
<1>5. account' = [account EXCEPT ![u] = b]
  BY <1>0 DEF AskCommit
<1> HIDE DEF b
<1>6. /\ account' \in [Users -> Account \cup {NoAccount}]
      /\ account'[u] = b /\ Exists(u)' /\ \A v \in Users \ {u} : account'[v] = account[v]
  BY <1>1, <1>4, <1>5, Becoming DEF Inv, TypeOK
<1>7. \A v \in Users : Exists(v) => Exists(v)'
  BY <1>6 DEF Exists
<1>8. req' \in [Reqs -> Request] /\ InFlightExist'
  BY <1>7, Ending DEF AskCommit
<1>9. TypeOK'
  <2>1. expired' \subseteq 1 .. issued'
    BY <1>2 DEF AskCommit, Inv, TypeOK, Parameters
  <2>2. UNCHANGED <<taken, sessions, logged, faults>>
    BY DEF AskCommit
  <2> QED
    BY <1>2, <1>6, <1>8, <2>1, <2>2 DEF Inv, TypeOK
<1>10. CodesHeld' /\ UsedOnce'
  <2>1. issued < MaxCodes /\ UNCHANGED taken
    BY DEF AskCommit
  <2>2. /\ CodeOf(u, k)' = issued + 1
        /\ \A l \in Kinds \ {k} : Exists(u) /\ CodeOf(u, l)' = CodeOf(u, l)
    BY <1>1, <1>4, <1>6 DEF CodeOf
  <2> QED
    BY <1>2, <1>6, <1>9, <2>1, <2>2, Mailing
<1> QED
  BY <1>8, <1>9, <1>10 DEF Inv

LEMMA RedeemCommitKeeps == ASSUME Parameters, Inv, NEW r \in Reqs, RedeemCommit(r) PROVE Inv'
<1>0. PICK u \in Users, k \in Kinds, c \in Codes :
        u = req[r].user /\ k = req[r].kind /\ c = req[r].code
  BY Fields DEF RedeemCommit
<1>1. Exists(u) /\ account[u] \in Account
  BY <1>0 DEF RedeemCommit, Inv, TypeOK, InFlightExist, At, Exists
<1>2. CASE ~Stands(req[r])
  <2>1. UNCHANGED <<account, issued, expired, taken, sessions, logged, faults>> /\ End(r)
    BY <1>2 DEF RedeemCommit
  <2> QED
    BY <2>1, BeginKeeps DEF End, Idle, Request, Inv, TypeOK
<1>3. CASE Stands(req[r])
  <2> DEFINE b == Redeemed(account[u], k)
  <2>1. b \in Account /\ b.code[k] = NoCode /\ \A l \in Kinds \ {k} : b.code[l] = account[u].code[l]
    BY <1>1 DEF Redeemed, VerifiedByToken, SignedInByOtp, WithNewPassword, Account, Kinds
  <2>2. /\ account' = [account EXCEPT ![u] = b] /\ taken' = [taken EXCEPT ![c] = @ + 1]
        /\ CodeOf(u, k) = c /\ End(r)
        /\ sessions' \subseteq sessions \cup {u} /\ UNCHANGED <<issued, expired, logged, faults>>
    BY <1>0, <1>3 DEF RedeemCommit, Stands, CodeOf
  <2> HIDE DEF b
  <2>3. /\ account' \in [Users -> Account \cup {NoAccount}]
        /\ account'[u] = b /\ Exists(u)' /\ \A v \in Users \ {u} : account'[v] = account[v]
    BY <1>1, <2>1, <2>2, Becoming DEF Inv, TypeOK
  <2>4. \A v \in Users : Exists(v)' => Exists(v)
    BY <1>1, <2>3 DEF Exists
  <2>5. req' \in [Reqs -> Request] /\ InFlightExist'
    BY <2>2, <2>3, Ending DEF Exists
  <2>6. c # NoCode /\ taken[c] = 0 /\ c =< issued
    BY <1>1, <2>2 DEF Inv, CodesHeld, Unused, NoCode, Codes
  <2>7. taken'[c] = 1 /\ taken' \in [Codes -> 0 .. 2] /\ \A d \in Codes \ {c} : taken'[d] = taken[d]
    BY <2>2, <2>6 DEF Inv, TypeOK
  <2>8. \A v \in Users, l \in Kinds : Exists(v)' =>
          \/ CodeOf(v, l)' = NoCode
          \/ CodeOf(v, l)' = CodeOf(v, l) /\ CodeOf(v, l) # c
    <3>1. SUFFICES ASSUME NEW v \in Users, NEW l \in Kinds, Exists(v)'
                   PROVE  \/ CodeOf(v, l)' = NoCode
                          \/ CodeOf(v, l)' = CodeOf(v, l) /\ CodeOf(v, l) # c
      OBVIOUS
    <3>2. CASE v = u /\ l = k
      BY <2>1, <2>3, <3>2 DEF CodeOf
    <3>3. CASE v # u \/ l # k
      <4>1. CodeOf(v, l)' = CodeOf(v, l)
        BY <2>1, <2>3, <3>3 DEF CodeOf
      <4>2. Alike(u, k, v, l)
        BY <1>1, <2>4, <3>1 DEF Inv, CodesHeld
      <4> QED
        BY <2>2, <2>6, <3>3, <4>1, <4>2 DEF Alike
    <3> QED
      BY <3>2, <3>3
  <2>9. CodesHeld'
    <3>1. \A v \in Users, l \in Kinds : Exists(v) => CodeOf(v, l) \in Codes \cup {NoCode}
      BY DEF Inv, TypeOK, Exists, CodeOf, Account
    <3>2. issued \in Nat
      BY DEF Inv, TypeOK, Parameters
    <3>3. \A v \in Users, l \in Kinds : Exists(v)' => Unused(v, l)'
      BY <2>2, <2>4, <2>7, <2>8, <3>1, <3>2 DEF Inv, CodesHeld, Unused, NoCode, Codes
    <3>4. \A v, w \in Users, l, m \in Kinds : Exists(v)' /\ Exists(w)' => Alike(v, l, w, m)'
      BY <2>4, <2>8 DEF Inv, CodesHeld, Alike
    <3>5. \A d \in Codes : d > issued' => taken'[d] = 0
      BY <2>2, <2>6, <2>7, <3>2 DEF Inv, CodesHeld, Codes
    <3> QED
      BY <3>3, <3>4, <3>5 DEF CodesHeld
  <2>10. UsedOnce'
    BY <2>7 DEF Inv, UsedOnce
  <2>11. TypeOK'
    BY <2>2, <2>3, <2>5, <2>7 DEF Inv, TypeOK
  <2> QED
    BY <2>5, <2>9, <2>10, <2>11 DEF Inv
<1> QED
  BY <1>2, <1>3

-----------------------------------------------------------------------------
(* Admins *)

LEMMA AdminBeginKeeps ==
  ASSUME Parameters, Inv, NEW r \in Reqs, NEW a \in Users, NEW u \in Users,
         NEW op \in {"approve", "deactivate", "reactivate"}, NEW granted \in Roles,
         AdminBegin(r, a, op, u, granted)
  PROVE  Inv'
<1> DEFINE q == [pc |-> "find", by |-> a, user |-> u, op |-> op, role |-> granted, before |-> New]
<1>1. q \in Request /\ Exists(q.user) /\ Goto(r, q)
  BY DEF Request, AdminBegin, New, Standing, Roles
<1> QED
  BY <1>1, BeginKeeps DEF AdminBegin, Inv, TypeOK

\* The user an admin's request is about.
LEMMA About ==
  ASSUME Parameters, Inv, NEW r \in Reqs, At(r, "find") \/ At(r, "set") \/ At(r, "log")
  PROVE  /\ req[r].user \in Users /\ Exists(req[r].user) /\ account[req[r].user] \in Account
         /\ StandingOf(account[req[r].user]) \in Standing
<1>1. req[r].user \in Users /\ Exists(req[r].user)
  BY Fields DEF Inv, InFlightExist, At
<1>2. account[req[r].user] \in Account
  BY <1>1 DEF Inv, TypeOK, Exists
<1> QED
  BY <1>1, <1>2 DEF StandingOf, Standing, Account

LEMMA AdminFindKeeps == ASSUME Parameters, Inv, NEW r \in Reqs, AdminFind(r) PROVE Inv'
<1>1. UNCHANGED <<account, issued, expired, taken, sessions, logged, faults>>
  BY DEF AdminFind
<1>2. CASE Refused(req[r])
  BY <1>1, <1>2, BeginKeeps DEF AdminFind, End, Idle, Request, Inv, TypeOK
<1>3. CASE ~Refused(req[r])
  <2> DEFINE q == [req[r] EXCEPT !.pc = "set", !.before = StandingOf(account[req[r].user])]
  <2>1. q \in Request /\ q.user = req[r].user /\ Exists(req[r].user)
    BY About, Fields DEF AdminFind, Request
  <2>2. Goto(r, q)
    BY <1>3 DEF AdminFind
  <2> HIDE DEF q
  <2> QED
    BY <1>1, <2>1, <2>2, BeginKeeps DEF Inv, TypeOK
<1> QED
  BY <1>2, <1>3

LEMMA AdminSetKeeps == ASSUME Parameters, Inv, NEW r \in Reqs, AdminSet(r) PROVE Inv'
<1>0. PICK u \in Users : u = req[r].user
  BY About DEF AdminSet
<1> DEFINE b == Administered(req[r], account[u])
           q == [req[r] EXCEPT !.pc = "log"]
<1>1. Exists(u) /\ account[u] \in Account
  BY <1>0, About DEF AdminSet
<1>2. b \in Account /\ b.code = account[u].code
  BY <1>1, Fields DEF AdminSet, Administered, Account
<1>3. q \in Request /\ q.user = u
  BY <1>0, Fields DEF AdminSet, Request
<1>4. account' = [account EXCEPT ![u] = b] /\ Goto(r, q)
  BY <1>0 DEF AdminSet
<1> HIDE DEF b, q
<1>5. /\ account' \in [Users -> Account \cup {NoAccount}]
      /\ account'[u] = b /\ Exists(u)' /\ \A v \in Users \ {u} : account'[v] = account[v]
  BY <1>2, <1>4, Becoming DEF Inv, TypeOK
<1>6. req' \in [Reqs -> Request] /\ InFlightExist'
  BY <1>1, <1>3, <1>4, <1>5, GoingOn DEF Exists
<1>7. TypeOK'
  BY <1>5, <1>6 DEF AdminSet, Inv, TypeOK
<1>8. CodesHeld' /\ UsedOnce'
  BY <1>1, <1>2, <1>5, <1>7, Keeping DEF CodeOf, AdminSet
<1> QED
  BY <1>6, <1>7, <1>8 DEF Inv

LEMMA AdminLogKeeps == ASSUME Parameters, Inv, NEW r \in Reqs, AdminLog(r) PROVE Inv'
<1>1. req[r].user \in Users /\ After(req[r]) \in Standing
  BY Fields DEF AdminLog, After, Standing
<1>2. logged' \in [Users -> [state: Standing, chained: BOOLEAN]]
  BY <1>1 DEF AdminLog, Inv, TypeOK
<1> QED
  BY <1>2, BeginKeeps DEF AdminLog, End, Idle, Request

LEMMA DieKeeps == ASSUME Parameters, Inv, NEW r \in Reqs, Die(r) PROVE Inv'
<1>1. faults' \in 0 .. MaxFaults
  BY DEF Die, Inv, TypeOK, Parameters
<1>2. CodesHeld' /\ UsedOnce' /\ \A u \in Users : Exists(u) => Exists(u)'
  BY Quiet DEF Die
<1> QED
  BY <1>1, <1>2, Ending DEF Die, Inv, TypeOK

-----------------------------------------------------------------------------

LEMMA InitHolds == ASSUME Parameters, Init PROVE Inv
<1>1. TypeOK
  BY DEF Parameters, Init, TypeOK, Account, NoAccount, NoCodes, New, Roles, Standing, Request, Idle,
         Codes
<1>2. \A u \in Users, k \in Kinds : Exists(u) => CodeOf(u, k) = NoCode
  BY DEF Parameters, Init, Exists, CodeOf, NoCodes
<1> QED
  BY <1>1, <1>2 DEF Init, Inv, InFlightExist, Idle, CodesHeld, Unused, Alike, UsedOnce, NoCode, Codes

LEMMA NextKeeps == ASSUME Parameters, Inv, [Next]_vars PROVE Inv'
<1>1. CASE UNCHANGED vars
  BY <1>1, Quiet, Staying DEF vars, Inv, TypeOK
<1>2. ASSUME NEW u \in Users, Signs(u) PROVE Inv'
  BY <1>2, RegisterKeeps, GoogleSignInKeeps, SessionsKeep DEF Signs
<1>3. ASSUME NEW c \in Codes, Expire(c) PROVE Inv'
  BY <1>3, ExpireKeeps
<1>4. ASSUME NEW r \in Reqs, Advance(r) PROVE Inv'
  BY <1>4, AskCommitKeeps, RedeemCommitKeeps, AdminFindKeeps, AdminSetKeeps, AdminLogKeeps,
     DieKeeps DEF Advance
<1>5. ASSUME NEW r \in Reqs, NEW u \in Users, Mails(r, u) PROVE Inv'
  BY <1>5, MailsKeep DEF Mails
<1>6. ASSUME NEW r \in Reqs, NEW a \in Users, Administers(r, a) PROVE Inv'
  BY <1>6, AdminBeginKeeps DEF Administers, Parameters, Roles
<1> QED
  BY <1>1, <1>2, <1>3, <1>4, <1>5, <1>6 DEF Next

\* No mailed code is accepted twice (the conditional updates of verifyEmailToken,
\* verifyOtpCode, verifyOtpToken and resetPassword), for any
\* number of users, codes and overlapping requests.
THEOREM CodesCorrect == ASSUME Parameters PROVE Spec => [](TypeOK /\ UsedOnce)
<1>1. Init => Inv
  BY InitHolds
<1>2. Inv /\ [Next]_vars => Inv'
  BY NextKeeps
<1>3. Inv => TypeOK /\ UsedOnce
  BY DEF Inv
<1> QED
  BY <1>1, <1>2, <1>3, PTL DEF Spec

-----------------------------------------------------------------------------
(* One admin at a time *)

\* How an account stands; nobody's is how it will begin.
NowOf(u) == IF Exists(u) THEN StandingOf(account[u]) ELSE New
Logging(r, u) == At(r, "log") /\ req[r].user = u

OneAtATime == \A r, s \in Reqs : req[r].pc # "idle" /\ req[s].pc # "idle" => r = s

\* The log tells how every account stands but the one whose row is still to be
\* written, and that row will begin where the last one ended.
LogFollows ==
  /\ \A u \in Users : logged[u].chained
  /\ \A u \in Users : (\A r \in Reqs : ~Logging(r, u)) => logged[u].state = NowOf(u)
  /\ \A r \in Reqs : At(r, "set") => req[r].before = NowOf(req[r].user)
  /\ \A r \in Reqs : At(r, "log") =>
       req[r].before = logged[req[r].user].state /\ After(req[r]) = NowOf(req[r].user)

AloneInv == Inv /\ OneAtATime /\ LogFollows

\* With the buttons of the page: who began still is an admin when the account is
\* changed, and it is not theirs that is closed or demoted.
AnAdmin == [role |-> "ADMIN", active |-> TRUE]
Spared(q) ==
  /\ NowOf(q.by) = AnAdmin
  /\ q.op = "approve" => NowOf(q.user).role = "PENDING"
  /\ q.op = "deactivate" /\ q.pc = "set" => q.user # q.by

BySomebody == \A r \in Reqs : At(r, "find") \/ At(r, "set") => Spared(req[r])

ButtonsInv == AloneInv /\ BySomebody /\ SomeAdmin

-----------------------------------------------------------------------------
(* How accounts stand *)

\* Nothing but an admin's update changes how an account stands: mails, sign-in and
\* codes leave role and activity alone, and a new one begins as a new one does.
LEMMA StandingKept ==
  ASSUME Parameters, Inv, Next, \A r \in Reqs : ~AdminSet(r)
  PROVE  \A u \in Users : NowOf(u)' = NowOf(u)
<1>1. CASE UNCHANGED account
  BY <1>1 DEF NowOf, Exists, StandingOf, New
<1>2. ASSUME NEW u \in Users, NEW b \in Account, account' = [account EXCEPT ![u] = b],
             StandingOf(b) = NowOf(u)
      PROVE  \A v \in Users : NowOf(v)' = NowOf(v)
  <2>1. /\ account'[u] = b /\ Exists(u)' /\ \A v \in Users \ {u} : account'[v] = account[v]
    BY <1>2, Becoming DEF Inv, TypeOK
  <2>2. NowOf(u)' = NowOf(u)
    BY <1>2, <2>1 DEF NowOf, StandingOf
  <2>3. \A v \in Users \ {u} : NowOf(v)' = NowOf(v)
    BY <2>1 DEF NowOf, Exists, StandingOf, New
  <2> QED
    BY <2>2, <2>3
<1>3. ASSUME NEW u \in Users, Register(u) PROVE \A v \in Users : NowOf(v)' = NowOf(v)
  <2> DEFINE b == [role |-> "PENDING", active |-> TRUE, password |-> TRUE, google |-> FALSE,
                   verified |-> FALSE, code |-> [NoCodes EXCEPT !["verify"] = issued + 1]]
  <2>1. issued + 1 \in Codes
    BY <1>3 DEF Register, Inv, TypeOK, Parameters, Codes
  <2>2. b \in Account /\ StandingOf(b) = NowOf(u)
    BY <1>3, <2>1 DEF Account, Roles, NoCodes, Kinds, StandingOf, NowOf, New, Register
  <2>3. account' = [account EXCEPT ![u] = b]
    BY <1>3 DEF Register
  <2> HIDE DEF b
  <2> QED
    BY <1>2, <2>2, <2>3
<1>4. ASSUME NEW u \in Users, GoogleSignIn(u) PROVE \A v \in Users : NowOf(v)' = NowOf(v)
  <2> DEFINE b == IF Exists(u)
                  THEN [account[u] EXCEPT !.google = TRUE, !.verified = TRUE]
                  ELSE [role |-> "PENDING", active |-> TRUE, password |-> FALSE,
                        google |-> TRUE, verified |-> TRUE, code |-> NoCodes]
  <2>1. b \in Account /\ StandingOf(b) = NowOf(u)
    BY DEF Inv, TypeOK, Exists, Account, Roles, NoCodes, Codes, StandingOf, NowOf, New
  <2>2. account' = [account EXCEPT ![u] = b]
    BY <1>4 DEF GoogleSignIn
  <2> HIDE DEF b
  <2> QED
    BY <1>2, <2>1, <2>2
<1>5. ASSUME NEW r \in Reqs, AskCommit(r) PROVE \A v \in Users : NowOf(v)' = NowOf(v)
  <2>0. PICK u \in Users, k \in Kinds : u = req[r].user /\ k = req[r].kind
    BY <1>5, Fields DEF AskCommit
  <2> DEFINE b == [account[u] EXCEPT !.code[k] = issued + 1]
  <2>1. Exists(u) /\ account[u] \in Account
    BY <1>5, <2>0 DEF AskCommit, Inv, InFlightExist, At, TypeOK, Exists
  <2>2. issued + 1 \in Codes
    BY <1>5 DEF AskCommit, Inv, TypeOK, Parameters, Codes
  <2>3. b \in Account /\ StandingOf(b) = NowOf(u)
    BY <2>1, <2>2 DEF Account, StandingOf, NowOf
  <2>4. account' = [account EXCEPT ![u] = b]
    BY <1>5, <2>0 DEF AskCommit
  <2> HIDE DEF b
  <2> QED
    BY <1>2, <2>3, <2>4
<1>6. ASSUME NEW r \in Reqs, RedeemCommit(r) PROVE \A v \in Users : NowOf(v)' = NowOf(v)
  <2>0. PICK u \in Users, k \in Kinds : u = req[r].user /\ k = req[r].kind
    BY <1>6, Fields DEF RedeemCommit
  <2> DEFINE b == Redeemed(account[u], k)
  <2>1. Exists(u) /\ account[u] \in Account
    BY <1>6, <2>0 DEF RedeemCommit, Inv, InFlightExist, At, TypeOK, Exists
  <2>2. b \in Account /\ StandingOf(b) = NowOf(u)
    BY <2>1 DEF Redeemed, VerifiedByToken, SignedInByOtp, WithNewPassword, Account, Kinds,
                StandingOf, NowOf
  <2>3. UNCHANGED account \/ account' = [account EXCEPT ![u] = b]
    BY <1>6, <2>0 DEF RedeemCommit
  <2> HIDE DEF b
  <2> QED
    BY <1>1, <1>2, <2>2, <2>3
<1> QED
  BY <1>1, <1>3, <1>4, <1>5, <1>6 DEF Next, Signs, PasswordSignIn, SessionEnds, Expire, Advance,
     AdminFind, AdminLog, Die, Mails, AskBegin, RedeemBegin, Administers, AdminBegin

-----------------------------------------------------------------------------
(* Requests, one at a time *)

\* Request r goes on as q; no other was under way.
LEMMA OnlyOne ==
  ASSUME Inv, OneAtATime, NEW r \in Reqs, NEW q, Goto(r, q),
         \A s \in Reqs : ~At(s, "idle") => req'[s] # req[s]
  PROVE  /\ OneAtATime' /\ req'[r] = q
         /\ \A s \in Reqs \ {r} : req[s].pc = "idle" /\ req'[s].pc = "idle" /\ req'[s] = req[s]
<1>1. req'[r] = q /\ \A s \in Reqs \ {r} : req'[s] = req[s]
  BY DEF Inv, TypeOK, Goto
<1> QED
  BY <1>1 DEF OneAtATime, At

\* A step that leaves the requests, the accounts and the log as they are.
LEMMA LogStays ==
  ASSUME OneAtATime, LogFollows, UNCHANGED <<req, logged>>, \A u \in Users : NowOf(u)' = NowOf(u),
         \A r \in Reqs : At(r, "set") \/ At(r, "log") => req[r].user \in Users
  PROVE  OneAtATime' /\ LogFollows'
<1>1. \A r \in Reqs : After(req[r])' = After(req[r])
  BY DEF After
<1> QED
  BY <1>1 DEF OneAtATime, LogFollows, Logging, At

\* A request that is not about to be logged.
LEMMA LogWaits ==
  ASSUME Inv, OneAtATime, LogFollows, NEW r \in Reqs, NEW q, Goto(r, q),
         \A s \in Reqs : ~At(s, "idle") => req'[s] # req[s],
         ~At(r, "log"), q.pc # "log", q.pc = "set" => q.before = NowOf(q.user) /\ q.user \in Users,
         UNCHANGED logged, \A u \in Users : NowOf(u)' = NowOf(u)
  PROVE  OneAtATime' /\ LogFollows'
<1>1. /\ OneAtATime' /\ req'[r] = q
      /\ \A s \in Reqs \ {r} : req[s].pc = "idle" /\ req'[s].pc = "idle" /\ req'[s] = req[s]
  BY OnlyOne
<1>2. \A s \in Reqs : ~At(s, "log") /\ ~At(s, "log")'
  BY <1>1 DEF At
<1>3. \A s \in Reqs : At(s, "set")' => s = r
  BY <1>1 DEF At
<1> QED
  BY <1>1, <1>2, <1>3 DEF LogFollows, Logging, At

LEMMA AdminSetLogs ==
  ASSUME Parameters, AloneInv, NEW r \in Reqs, AdminSet(r),
         \A s \in Reqs : ~At(s, "idle") => req'[s] # req[s]
  PROVE  /\ OneAtATime' /\ LogFollows'
         /\ \A v \in Users : NowOf(v)' = IF v = req[r].user THEN After(req[r]) ELSE NowOf(v)
<1>0. PICK u \in Users : u = req[r].user
  BY About DEF AdminSet, AloneInv
<1> DEFINE b == Administered(req[r], account[u])
           q == [req[r] EXCEPT !.pc = "log"]
<1>1. Exists(u) /\ account[u] \in Account /\ req[r].before = NowOf(u)
  BY <1>0, About DEF AdminSet, AloneInv, LogFollows
<1>a. req[r] \in [pc: {"find", "set", "log"}, by: Users, user: Users,
                 op: {"approve", "deactivate", "reactivate"}, role: Roles, before: Standing]
  BY Fields DEF AdminSet, AloneInv
<1>2. b \in Account /\ StandingOf(b) = After(req[r])
  <2>1. /\ req[r].before.role = account[u].role /\ req[r].before.active = account[u].active
        /\ account[u].active \in BOOLEAN /\ account[u].role \in Roles
    BY <1>1 DEF NowOf, StandingOf, Account
  <2>2. CASE req[r].op = "approve"
    BY <1>1, <1>a, <2>2 DEF Administered, Account, StandingOf, After
  <2>3. CASE req[r].op = "deactivate"
    <3>1. CASE account[u].active = TRUE
      BY <1>1, <2>1, <2>3, <3>1 DEF Administered, Account, StandingOf, After
    <3>2. CASE account[u].active = FALSE
      BY <1>1, <2>1, <2>3, <3>2 DEF Administered, Account, StandingOf, After
    <3> QED
      BY <2>1, <3>1, <3>2
  <2>4. CASE req[r].op = "reactivate"
    <3>1. CASE account[u].active = TRUE
      BY <1>1, <2>1, <2>4, <3>1 DEF Administered, Account, StandingOf, After
    <3>2. CASE account[u].active = FALSE
      BY <1>1, <2>1, <2>4, <3>2 DEF Administered, Account, StandingOf, After
    <3> QED
      BY <2>1, <3>1, <3>2
  <2> QED
    BY <1>a, <2>2, <2>3, <2>4
<1>3. q.pc = "log" /\ q.user = u /\ q.before = req[r].before /\ After(q) = After(req[r])
  BY <1>0, <1>a DEF After
<1>4. account' = [account EXCEPT ![u] = b] /\ Goto(r, q) /\ UNCHANGED logged
  BY <1>0 DEF AdminSet
<1> HIDE DEF b, q
<1>5. /\ account'[u] = b /\ Exists(u)' /\ \A v \in Users \ {u} : account'[v] = account[v]
  BY <1>2, <1>4, Becoming DEF AloneInv, Inv, TypeOK
<1>6. NowOf(u)' = After(req[r]) /\ \A v \in Users \ {u} : NowOf(v)' = NowOf(v)
  BY <1>2, <1>5 DEF NowOf, StandingOf, Exists, New
<1>7. /\ OneAtATime' /\ req'[r] = q
      /\ \A s \in Reqs \ {r} : req[s].pc = "idle" /\ req'[s].pc = "idle" /\ req'[s] = req[s]
  BY <1>4, OnlyOne DEF AloneInv
<1>8. \A s \in Reqs : ~At(s, "log") /\ ~At(s, "set")' /\ (At(s, "log")' <=> s = r)
  BY <1>3, <1>7 DEF At, AdminSet
<1>9. \A v \in Users : logged[v].state = NowOf(v) /\ logged[v].chained
  BY <1>8 DEF AloneInv, LogFollows, Logging
<1>10. \A v \in Users \ {u} : logged'[v].state = NowOf(v)'
  BY <1>4, <1>6, <1>9
<1>11. Logging(r, u)'
  BY <1>3, <1>7, <1>8 DEF Logging
<1>12. req'[r].before = logged'[u].state /\ After(req'[r]) = NowOf(u)'
  BY <1>1, <1>3, <1>4, <1>6, <1>7, <1>9
<1>13. LogFollows'
  BY <1>3, <1>4, <1>7, <1>8, <1>9, <1>10, <1>11, <1>12 DEF LogFollows
<1> QED
  BY <1>0, <1>6, <1>7, <1>13

LEMMA AdminLogLogs ==
  ASSUME Parameters, AloneInv, NEW r \in Reqs, AdminLog(r), \A u \in Users : NowOf(u)' = NowOf(u),
         \A s \in Reqs : ~At(s, "idle") => req'[s] # req[s]
  PROVE  OneAtATime' /\ LogFollows'
<1>0. PICK u \in Users : u = req[r].user
  BY About DEF AdminLog, AloneInv
<1>1. /\ OneAtATime' /\ req'[r] = Idle
      /\ \A s \in Reqs \ {r} : req[s].pc = "idle" /\ req'[s].pc = "idle" /\ req'[s] = req[s]
  BY OnlyOne DEF AdminLog, End, AloneInv
<1>2. \A s \in Reqs : ~At(s, "log")' /\ ~At(s, "set")' /\ (At(s, "log") <=> s = r)
  BY <1>1 DEF At, Idle, AdminLog
<1>3. req[r].before = logged[u].state /\ After(req[r]) = NowOf(u)
  BY <1>0 DEF AdminLog, AloneInv, LogFollows
<1>4. \A v \in Users \ {u} : logged[v].state = NowOf(v)
  BY <1>0, <1>2 DEF AloneInv, LogFollows, Logging
<1>5. /\ logged'[u] = [state |-> After(req[r]), chained |-> TRUE]
      /\ \A v \in Users \ {u} : logged'[v] = logged[v]
  BY <1>0, <1>3 DEF AdminLog, AloneInv, Inv, TypeOK, LogFollows
<1>6. \A v \in Users : logged'[v].chained /\ logged'[v].state = NowOf(v)'
  BY <1>3, <1>4, <1>5 DEF AloneInv, LogFollows
<1> QED
  BY <1>1, <1>2, <1>6 DEF LogFollows

LEMMA AloneKeeps == ASSUME Parameters, AloneInv, [AloneNext]_vars PROVE AloneInv'
<1>1. Inv'
  BY NextKeeps DEF AloneNext, AloneInv
<1>0. \A r \in Reqs : At(r, "set") \/ At(r, "log") => req[r].user \in Users
  BY Fields DEF AloneInv
<1>2. CASE UNCHANGED vars
  <2>1. UNCHANGED <<req, logged>> /\ \A u \in Users : NowOf(u)' = NowOf(u)
    BY <1>2 DEF vars, NowOf, Exists, StandingOf, New
  <2> QED
    BY <1>0, <1>1, <2>1, LogStays DEF AloneInv
<1>3. CASE AloneNext
  <2>0. Next /\ (\A s \in Reqs : ~At(s, "idle") => req'[s] # req[s]) /\ faults' = faults
    BY <1>3 DEF AloneNext
  <2>1. ASSUME NEW r \in Reqs, AdminSet(r) PROVE AloneInv'
    BY <1>1, <2>0, <2>1, AdminSetLogs DEF AloneInv
  <2>2. CASE \A r \in Reqs : ~AdminSet(r)
    <3>1. \A u \in Users : NowOf(u)' = NowOf(u)
      BY <2>0, <2>2, StandingKept DEF AloneInv
    <3>2. CASE UNCHANGED <<req, logged>>
      BY <1>0, <1>1, <3>1, <3>2, LogStays DEF AloneInv
    <3>3. ASSUME NEW r \in Reqs, AdminLog(r) PROVE AloneInv'
      BY <1>1, <2>0, <3>1, <3>3, AdminLogLogs DEF AloneInv
    <3>4. ASSUME NEW r \in Reqs, NEW q, Goto(r, q), ~At(r, "log"), q.pc # "log",
                 q.pc = "set" => q.before = NowOf(q.user) /\ q.user \in Users, UNCHANGED logged
          PROVE  AloneInv'
      BY <1>1, <2>0, <3>1, <3>4, LogWaits DEF AloneInv
    <3>5. ASSUME NEW r \in Reqs, AdminFind(r) PROVE AloneInv'
      <4>1. CASE Refused(req[r])
        BY <3>4, <3>5, <4>1 DEF AdminFind, End, Idle, At
      <4>2. CASE ~Refused(req[r])
        <5> DEFINE q == [req[r] EXCEPT !.pc = "set", !.before = StandingOf(account[req[r].user])]
        <5>1. /\ q.pc = "set" /\ q.before = StandingOf(account[req[r].user])
              /\ q.user = req[r].user /\ q.user \in Users /\ Exists(q.user)
          BY <3>5, Fields, About DEF AdminFind, AloneInv
        <5>2. Goto(r, q) /\ ~At(r, "log") /\ UNCHANGED logged
          BY <3>5, <4>2 DEF AdminFind, At
        <5> HIDE DEF q
        <5>3. q.before = NowOf(q.user)
          BY <5>1 DEF NowOf
        <5> QED
          BY <3>4, <5>1, <5>2, <5>3
      <4> QED
        BY <4>1, <4>2
    <3>6. ASSUME NEW r \in Reqs, AskCommit(r) \/ RedeemCommit(r) PROVE AloneInv'
      BY <3>4, <3>6 DEF AskCommit, RedeemCommit, End, Idle, At
    <3>7. ASSUME NEW r \in Reqs, NEW u \in Users, Mails(r, u) PROVE AloneInv'
      BY <3>4, <3>7 DEF Mails, AskBegin, RedeemBegin, At
    <3>8. ASSUME NEW r \in Reqs, NEW a \in Users, Administers(r, a) PROVE AloneInv'
      BY <3>4, <3>8 DEF Administers, AdminBegin, At
    <3>9. ASSUME NEW r \in Reqs, Die(r) PROVE FALSE
      BY <2>0, <3>9 DEF Die, AloneInv, Inv, TypeOK, Parameters
    <3>10. ASSUME NEW r \in Reqs, Advance(r) PROVE AloneInv'
      BY <2>2, <3>3, <3>5, <3>6, <3>9, <3>10 DEF Advance
    <3>11. ASSUME NEW u \in Users, Signs(u) PROVE UNCHANGED <<req, logged>>
      BY <3>11 DEF Signs, Register, GoogleSignIn, PasswordSignIn, SessionEnds
    <3>12. ASSUME NEW c \in Codes, Expire(c) PROVE UNCHANGED <<req, logged>>
      BY <3>12 DEF Expire
    <3> QED
      BY <2>0, <3>2, <3>7, <3>8, <3>10, <3>11, <3>12 DEF Next
  <2> QED
    BY <2>1, <2>2
<1> QED
  BY <1>2, <1>3

LEMMA AloneInit == ASSUME Parameters, Init PROVE ButtonsInv
<1>1. Inv
  BY InitHolds
<1>2. \A r \in Reqs, pc \in {"find", "set", "log"} : req[r].pc = "idle" /\ ~At(r, pc)
  BY DEF Init, At, Idle
<1>3. \A u \in Users : logged[u].chained /\ logged[u].state = NowOf(u)
  BY DEF Init, NowOf, Exists, NoAccount, StandingOf, New, Parameters
<1>4. SomeAdmin
  BY DEF SomeAdmin, Init, Exists, NoAccount, Parameters
<1> QED
  BY <1>1, <1>2, <1>3, <1>4 DEF ButtonsInv, AloneInv, OneAtATime, LogFollows, BySomebody

LEMMA AloneTells == ASSUME AloneInv PROVE AuditTells
<1>1. (\A r \in Reqs : req[r] = Idle) => \A u \in Users, r \in Reqs : ~Logging(r, u)
  BY DEF Logging, At, Idle
<1> QED
  BY <1>1 DEF AloneInv, LogFollows, AuditTells, NowOf

\* One admin at a time, each row of the audit log begins where the one before ended and
\* tells how the account stands (approveUser, deactivateUser, reactivateUser).
THEOREM AuditCorrect == ASSUME Parameters PROVE AloneSpec => [](TypeOK /\ AuditTells)
<1>1. AloneInv => TypeOK /\ AuditTells
  BY AloneTells DEF AloneInv, Inv
<1>2. Init => AloneInv
  BY AloneInit DEF ButtonsInv
<1>3. AloneInv /\ [AloneNext]_vars => AloneInv'
  BY AloneKeeps
<1> QED
  BY <1>1, <1>2, <1>3, PTL DEF AloneSpec

-----------------------------------------------------------------------------
(* The buttons of the page *)

LEMMA AdminStands ==
  ASSUME NEW u \in Users
  PROVE  NowOf(u) = AnAdmin <=> Exists(u) /\ account[u].active = TRUE /\ account[u].role = "ADMIN"
  BY DEF NowOf, AnAdmin, StandingOf, New

\* An admin before the step who stands as before is one after it.
LEMMA SomeAdminStays ==
  ASSUME SomeAdmin, Inv, \A u \in Users : NowOf(u)' = NowOf(u) PROVE SomeAdmin'
<1>1. PICK u \in Users : Exists(u) /\ account[u].active = TRUE /\ account[u].role = "ADMIN"
  BY DEF SomeAdmin, Inv, TypeOK, Exists, Account
<1>2. NowOf(u)' = AnAdmin
  BY <1>1, AdminStands
<1>3. Exists(u)' /\ account'[u].active = TRUE /\ account'[u].role = "ADMIN"
  BY <1>2 DEF NowOf, AnAdmin, StandingOf, New
<1> QED
  BY <1>3 DEF SomeAdmin

\* Where nobody's standing changes, it is enough that the requests after the step spare
\* the admins there were before it.
LEMMA SparedStays ==
  ASSUME ButtonsInv, AloneInv', \A u \in Users : NowOf(u)' = NowOf(u),
         \A r \in Reqs : At(r, "find")' \/ At(r, "set")' =>
           Spared(req'[r]) /\ req'[r].by \in Users /\ req'[r].user \in Users
  PROVE  ButtonsInv'
<1>1. SomeAdmin'
  BY SomeAdminStays DEF ButtonsInv, AloneInv
<1>2. BySomebody'
  BY DEF BySomebody, Spared
<1> QED
  BY <1>1, <1>2 DEF ButtonsInv

LEMMA ButtonsKeep == ASSUME Parameters, ButtonsInv, [ButtonsNext]_vars PROVE ButtonsInv'
<1>1. AloneInv'
  BY AloneKeeps DEF ButtonsNext, ButtonsInv
<1>2. \A r \in Reqs : At(r, "find") \/ At(r, "set") =>
        Spared(req[r]) /\ req[r].by \in Users /\ req[r].user \in Users
  BY Fields DEF ButtonsInv, AloneInv, BySomebody
<1>3. CASE UNCHANGED vars
  <2>1. UNCHANGED req /\ \A u \in Users : NowOf(u)' = NowOf(u)
    BY <1>3 DEF vars, NowOf, Exists, StandingOf, New
  <2> QED
    BY <1>1, <1>2, <2>1, SparedStays DEF At
<1>4. CASE ButtonsNext
  <2>0. Next /\ (\A s \in Reqs : ~At(s, "idle") => req'[s] # req[s]) /\ faults' = faults
    BY <1>4 DEF ButtonsNext, AloneNext
  <2>1. ASSUME NEW r \in Reqs, AdminSet(r) PROVE ButtonsInv'
    <3>1. PICK v \in Users, u \in Users : v = req[r].by /\ u = req[r].user
      BY <1>2, <2>1 DEF AdminSet
    <3>2. Spared(req[r]) /\ req[r].before = NowOf(u) /\ req[r].pc = "set"
      BY <1>2, <2>1, <3>1 DEF AdminSet, ButtonsInv, AloneInv, LogFollows, At
    <3>3. req[r].op \in {"approve", "deactivate", "reactivate"}
      BY <2>1, Fields DEF AdminSet, ButtonsInv, AloneInv
    <3>4. NowOf(v)' = IF v = u THEN After(req[r]) ELSE NowOf(v)
      BY <2>0, <2>1, <3>1, AdminSetLogs DEF ButtonsInv
    <3>5. v = u => After(req[r]) = AnAdmin
      <4>1. SUFFICES ASSUME v = u PROVE After(req[r]) = AnAdmin
        OBVIOUS
      <4>2. req[r].op = "reactivate"
        BY <3>1, <3>2, <3>3, <4>1 DEF Spared, AnAdmin
      <4>3. req[r].before.role = "ADMIN"
        BY <3>1, <3>2, <4>1 DEF Spared, AnAdmin
      <4>4. (req[r].op = "reactivate") = TRUE
        BY <4>2
      <4> QED
        BY <4>2, <4>3, <4>4 DEF After, AnAdmin
    <3>6. NowOf(v)' = AnAdmin
      BY <3>1, <3>2, <3>4, <3>5 DEF Spared
    <3>7. Exists(v)' /\ account'[v].active = TRUE /\ account'[v].role = "ADMIN"
      BY <3>6 DEF NowOf, AnAdmin, StandingOf, New
    <3>8. SomeAdmin'
      BY <3>7 DEF SomeAdmin
    <3> DEFINE q == [req[r] EXCEPT !.pc = "log"]
    <3>9. q.pc = "log" /\ Goto(r, q)
      BY <2>1, Fields DEF AdminSet, ButtonsInv, AloneInv
    <3> HIDE DEF q
    <3>10. /\ req'[r] = q /\ \A s \in Reqs \ {r} : req'[s].pc = "idle"
      BY <2>0, <3>9, OnlyOne DEF ButtonsInv, AloneInv
    <3>11. BySomebody'
      BY <3>9, <3>10 DEF BySomebody, At
    <3> QED
      BY <1>1, <3>8, <3>11 DEF ButtonsInv
  <2>2. CASE \A r \in Reqs : ~AdminSet(r)
    <3>1. \A u \in Users : NowOf(u)' = NowOf(u)
      BY <2>0, <2>2, StandingKept DEF ButtonsInv, AloneInv
    <3>2. ASSUME UNCHANGED req PROVE ButtonsInv'
      BY <1>1, <1>2, <3>1, <3>2, SparedStays DEF At
    <3>3. ASSUME NEW r \in Reqs, NEW q, Goto(r, q),
                 q.pc \in {"find", "set"} => Spared(q) /\ q.by \in Users /\ q.user \in Users
          PROVE  ButtonsInv'
      <4>1. req'[r] = q /\ \A s \in Reqs \ {r} : req'[s].pc = "idle"
        BY <2>0, <3>3, OnlyOne DEF ButtonsInv, AloneInv
      <4>2. \A s \in Reqs : At(s, "find")' \/ At(s, "set")' =>
              Spared(req'[s]) /\ req'[s].by \in Users /\ req'[s].user \in Users
        BY <3>3, <4>1 DEF At
      <4> QED
        BY <1>1, <3>1, <4>2, SparedStays
    <3>4. ASSUME NEW r \in Reqs, AdminFind(r) PROVE ButtonsInv'
      <4>1. CASE Refused(req[r])
        BY <3>3, <3>4, <4>1 DEF AdminFind, End, Idle
      <4>2. CASE ~Refused(req[r])
        <5> DEFINE q == [req[r] EXCEPT !.pc = "set", !.before = StandingOf(account[req[r].user])]
        <5>1. q.by = req[r].by /\ q.user = req[r].user /\ q.op = req[r].op
          BY <3>4, Fields DEF AdminFind, ButtonsInv, AloneInv
        <5>2. Goto(r, q)
          BY <3>4, <4>2 DEF AdminFind
        <5> HIDE DEF q
        <5>3. Spared(q) /\ q.by \in Users /\ q.user \in Users
          BY <1>2, <3>4, <4>2, <5>1 DEF AdminFind, Spared, Refused
        <5> QED
          BY <3>3, <5>2, <5>3
      <4> QED
        BY <4>1, <4>2
    <3>5. ASSUME NEW r \in Reqs, NEW a \in Users, Administers(r, a) PROVE ButtonsInv'
      <4>1. PICK u \in Users, op \in {"approve", "deactivate", "reactivate"}, granted \in Roles :
              AdminBegin(r, a, op, u, granted)
        BY <3>5 DEF Administers, Parameters, Roles
      <4> DEFINE q == [pc |-> "find", by |-> a, user |-> u, op |-> op, role |-> granted, before |-> New]
      <4>2. Goto(r, q) /\ q.pc = "find" /\ q.by = a /\ q.user = u /\ q.op = op
        BY <4>1 DEF AdminBegin
      <4> HIDE DEF q
      <4>3. req'[r] = q /\ At(r, "idle")
        BY <2>0, <4>1, <4>2, OnlyOne DEF ButtonsInv, AloneInv, AdminBegin
      <4>4. Offered(u, op)
        BY <1>4, <4>2, <4>3 DEF ButtonsNext
      <4>5. NowOf(a) = AnAdmin
        BY <4>1, AdminStands DEF AdminBegin, MayAdminister
      <4>6. op = "approve" => NowOf(u).role = "PENDING"
        BY <4>1, <4>4 DEF Offered, NowOf, AdminBegin, StandingOf
      <4> QED
        BY <3>3, <4>2, <4>5, <4>6 DEF Spared
    <3>6. ASSUME NEW r \in Reqs, AskCommit(r) \/ RedeemCommit(r) \/ AdminLog(r) \/ Die(r)
          PROVE  ButtonsInv'
      BY <3>3, <3>6 DEF AskCommit, RedeemCommit, AdminLog, Die, End, Idle
    <3>7. ASSUME NEW r \in Reqs, NEW u \in Users, Mails(r, u) PROVE ButtonsInv'
      BY <3>3, <3>7 DEF Mails, AskBegin, RedeemBegin
    <3>8. ASSUME NEW r \in Reqs, Advance(r) PROVE ButtonsInv'
      BY <2>2, <3>4, <3>6, <3>8 DEF Advance
    <3>9. ASSUME NEW u \in Users, Signs(u) PROVE UNCHANGED req
      BY <3>9 DEF Signs, Register, GoogleSignIn, PasswordSignIn, SessionEnds
    <3>10. ASSUME NEW c \in Codes, Expire(c) PROVE UNCHANGED req
      BY <3>10 DEF Expire
    <3> QED
      BY <2>0, <3>2, <3>5, <3>7, <3>8, <3>9, <3>10 DEF Next
  <2> QED
    BY <2>1, <2>2
<1> QED
  BY <1>3, <1>4

\* One admin at a time, with the buttons of the page, cannot lock all admins out: there is
\* always an active one (deactivateUser refuses the own account, and the page approves
\* only who is pending).
THEOREM AdminsStay == ASSUME Parameters PROVE ButtonsSpec => []SomeAdmin
<1>1. Init => ButtonsInv
  BY AloneInit
<1>2. ButtonsInv /\ [ButtonsNext]_vars => ButtonsInv'
  BY ButtonsKeep
<1>3. ButtonsInv => SomeAdmin
  BY DEF ButtonsInv
<1> QED
  BY <1>1, <1>2, <1>3, PTL DEF ButtonsSpec

-----------------------------------------------------------------------------
(* What the run of MCConfiguration checks of accounts *)

\* In every circumstance but these accounts stay as they were at first.
Audited == which = "admins, alone" => AloneInv
Staffed == which = "buttons" => ButtonsInv

LEMMA MCNextIs ==
  ASSUME [MCNext]_<<which, periodVars, mapVars, vars, accessVars, figuresVars>>
  PROVE  /\ UNCHANGED which /\ [Next]_vars
         /\ which = "admins, alone" => [AloneNext]_vars
         /\ which = "buttons" => [ButtonsNext]_vars
<1>1. ASSUME AccountsStep PROVE Next
  BY <1>1 DEF AccountsStep, AloneNext, ButtonsNext, Next
<1> QED
  BY <1>1 DEF MCNext, AccountsStep

\* Of the run's behaviours: no mailed code is accepted twice (verifyEmailToken and its
\* siblings).
THEOREM CodesOnce == ASSUME Parameters PROVE MCSpec => []UsedOnce
<1>1. MCInit => Inv
  BY InitHolds DEF MCInit
<1>2. Inv /\ [MCNext]_<<which, periodVars, mapVars, vars, accessVars, figuresVars>> => Inv'
  BY NextKeeps, MCNextIs
<1>3. Inv => UsedOnce
  BY DEF Inv
<1> QED
  BY <1>1, <1>2, <1>3, PTL DEF MCSpec

\* Of the run's behaviours: one admin at a time cannot lock all admins out with the buttons
\* of the page, and the audit log tells what became of an account.
THEOREM AdminsRemain == ASSUME Parameters PROVE MCSpec => []AdminRemains
<1> DEFINE MCInv == Audited /\ Staffed
<1>1. MCInit => MCInv
  BY AloneInit DEF MCInit, Audited, Staffed, ButtonsInv
<1>2. MCInv /\ [MCNext]_<<which, periodVars, mapVars, vars, accessVars, figuresVars>> => MCInv'
  BY AloneKeeps, ButtonsKeep, MCNextIs DEF Audited, Staffed
<1>3. MCInv => AdminRemains
  BY AloneTells DEF Audited, Staffed, AdminRemains, ButtonsInv
<1> QED
  BY <1>1, <1>2, <1>3, PTL DEF MCSpec

-----------------------------------------------------------------------------
(* Numbers *)

\* A set of numbers has a first, which Min picks.
LEMMA MinIsFirst ==
  ASSUME NEW S \in SUBSET Nat, S # {}
  PROVE  Min(S) \in S /\ \A d \in S : Min(S) =< d
<1> DEFINE Belows == {0 .. d : d \in S}
<1>1. Belows \subseteq FiniteSubsetsOf(Nat) /\ Belows # {}
  <2>1. \A d \in S : d \in Nat /\ IsFiniteSet(0 .. d)
    BY FS_Interval
  <2>2. \A d \in S : 0 .. d \in SUBSET Nat
    BY <2>1
  <2> QED
    BY <2>1, <2>2 DEF FiniteSubsetsOf
<1>2. PICK least \in Belows : \A D \in Belows : <<D, least>> \notin StrictSubsetOrdering(Nat)
  <2> HIDE DEF Belows
  <2> QED
    BY <1>1, FS_StrictSubsetOrderingWellFounded, WFMin
<1>3. PICK m \in S : least = 0 .. m
  OBVIOUS
<1>4. ASSUME NEW d \in S PROVE m =< d
  <2> SUFFICES ASSUME d < m PROVE FALSE
    OBVIOUS
  <2>1. d \in Nat /\ m \in Nat
    OBVIOUS
  <2>2. 0 .. d \subseteq 0 .. m /\ m \in 0 .. m /\ m \notin 0 .. d
    BY <2>1
  <2>3. <<0 .. d, least>> \in StrictSubsetOrdering(Nat)
    BY <1>3, <2>1, <2>2 DEF StrictSubsetOrdering
  <2> QED
    BY <1>2, <2>3
<1> QED
  BY <1>4 DEF Min

\* A set of positions up to n has a last.
LEMMA SomeLast ==
  ASSUME NEW n \in Nat, NEW S \in SUBSET (1 .. n), S # {}
  PROVE  \E m \in S : \A k \in S : k =< m
<1> DEFINE T == {n - k : k \in S}
<1>1. T \in SUBSET Nat /\ T # {}
  <2>1. \A k \in S : n - k \in Nat
    OBVIOUS
  <2> QED
    BY <2>1
<1>2. Min(T) \in T /\ \A d \in T : Min(T) =< d
  <2> HIDE DEF T
  <2> QED
    BY <1>1, MinIsFirst
<1>3. PICK m \in S : Min(T) = n - m
  BY <1>2
<1>4. \A k \in S : n - m =< n - k
  BY <1>2, <1>3
<1> QED
  BY <1>4

-----------------------------------------------------------------------------
(* Credit periods: the inductive invariant *)

\* Dates and days are numbers and NoTerm is none of them.
PeriodParameters ==
  MaxDay \in Nat /\ MaxRows \in Nat /\ Terms \subseteq Nat /\ Books \subseteq Nat \ {0}

\* Each row ends on the eve of the one added after it, and the last is open.
Chained(s) == \A i \in 1 .. Len(s) : s[i].to = IF i = Len(s) THEN C!Open ELSE s[i + 1].from - 1

PeriodsTyped == C!TypeOK /\ rows \in [Parties -> Seq(C!Period)]
PeriodInv == PeriodsTyped /\ \A p \in Parties : Chained(rows[p])

-----------------------------------------------------------------------------
(* The rows of a party *)

LEMMA RowFields ==
  ASSUME PeriodParameters, NEW s \in Seq(C!Period), NEW i \in 1 .. Len(s)
  PROVE  /\ s[i].from \in 1 .. MaxDay /\ s[i].to \in 0 .. MaxDay + 1 /\ s[i].days \in Terms
         /\ s[i] \in C!Period /\ Len(s) \in Nat /\ DOMAIN s = 1 .. Len(s)
<1>1. s[i] \in C!Period /\ Len(s) \in Nat /\ DOMAIN s = 1 .. Len(s)
  BY ElementOfSeq, LenProperties
<1> QED
  BY <1>1 DEF C!Period, C!Days, C!Open

\* A new row follows the open one, which ends on its eve; there was no other.
LEMMA RowAdded ==
  ASSUME PeriodParameters, NEW s \in Seq(C!Period), Chained(s), NEW k, NEW d \in C!Days,
         NEW n \in Terms, {i \in DOMAIN s : s[i].to = C!Open} \subseteq {k},
         NEW closed, closed = [i \in DOMAIN s |-> IF i = k THEN [s[i] EXCEPT !.to = d - 1] ELSE s[i]],
         NEW t, t = Append(closed, [from |-> d, to |-> C!Open, days |-> n])
  PROVE  t \in Seq(C!Period) /\ Chained(t)
<1>1. closed \in Seq(C!Period) /\ Len(closed) = Len(s)
  <2>1. ASSUME NEW i \in 1 .. Len(s) PROVE closed[i] \in C!Period
    <3>1. s[i] \in C!Period /\ i \in DOMAIN s
      BY RowFields
    <3>2. d - 1 \in 0 .. C!Open
      BY DEF C!Days, C!Open, PeriodParameters
    <3>3. [s[i] EXCEPT !.to = d - 1] \in C!Period
      BY <3>1, <3>2 DEF C!Period
    <3> QED
      BY <3>1, <3>3
  <2>2. DOMAIN closed = 1 .. Len(s) /\ Len(s) \in Nat
    BY LenProperties
  <2>3. closed \in [1 .. Len(s) -> C!Period]
    BY <2>1, <2>2
  <2> QED
    BY <2>2, <2>3, SeqDef
<1>2. [from |-> d, to |-> C!Open, days |-> n] \in C!Period
  BY DEF C!Period, C!Days, C!Open, PeriodParameters
<1>3. /\ t \in Seq(C!Period) /\ Len(t) = Len(s) + 1 /\ Len(s) \in Nat
      /\ \A i \in 1 .. Len(s) : t[i] = closed[i]
      /\ t[Len(s) + 1] = [from |-> d, to |-> C!Open, days |-> n]
  BY <1>1, <1>2, AppendProperties, LenProperties
<1>4. ASSUME NEW i \in 1 .. Len(t)
      PROVE  t[i].to = IF i = Len(t) THEN C!Open ELSE t[i + 1].from - 1
  <2>1. CASE i = Len(s) + 1
    BY <1>3, <2>1
  <2>2. CASE i = Len(s)
    <3>1. s[i].to = C!Open /\ i \in DOMAIN s /\ s[i] \in C!Period
      BY <1>3, <2>2, RowFields, LenProperties DEF Chained
    <3>2. i = k
      BY <3>1
    <3>3. t[i].to = d - 1
      BY <1>3, <2>2, <3>1, <3>2 DEF C!Period
    <3> QED
      BY <1>3, <2>2, <3>3
  <2>3. CASE i \in 1 .. Len(s) - 1
    <3>1. s[i].to = s[i + 1].from - 1 /\ i \in DOMAIN s /\ i + 1 \in 1 .. Len(s) /\ i + 1 \in DOMAIN s
      BY <1>3, <2>3, LenProperties DEF Chained
    <3>2. s[i + 1].from \in 1 .. MaxDay /\ s[i].from \in 1 .. MaxDay /\ s[i + 1] \in C!Period
      BY <2>3, <3>1, RowFields
    <3>3. s[i].to # C!Open
      BY <3>1, <3>2 DEF C!Open, PeriodParameters
    <3>4. k = Len(s)
      <4>1. Len(s) \in 1 .. Len(s)
        BY <1>3, <2>3
      <4>2. Len(s) \in DOMAIN s /\ s[Len(s)].to = C!Open
        BY <4>1, RowFields DEF Chained
      <4> QED
        BY <4>2
    <3>5. t[i].to = s[i].to
      BY <1>3, <2>3, <3>1, <3>4
    <3>6. t[i + 1].from = s[i + 1].from
      <4>1. closed[i + 1].from = s[i + 1].from
        BY <3>1, <3>2 DEF C!Period
      <4> QED
        BY <1>3, <3>1, <4>1
    <3> QED
      BY <1>3, <2>3, <3>1, <3>5, <3>6
  <2> QED
    BY <1>3, <2>1, <2>2, <2>3
<1> QED
  BY <1>3, <1>4 DEF Chained

\* The days of a row change, and nothing else; there may be no such row.
LEMMA RowChanged ==
  ASSUME PeriodParameters, NEW s \in Seq(C!Period), Chained(s), NEW k, NEW n \in Terms,
         NEW t, t = [s EXCEPT ![k].days = n]
  PROVE  t \in Seq(C!Period) /\ Len(t) = Len(s) /\ Chained(t)
<1>1. DOMAIN s = 1 .. Len(s) /\ Len(s) \in Nat /\ DOMAIN t = 1 .. Len(s)
  BY LenProperties
<1>2. \A i \in 1 .. Len(s) : t[i] \in C!Period /\ t[i].from = s[i].from /\ t[i].to = s[i].to
  BY <1>1, RowFields DEF C!Period
<1>3. t \in [1 .. Len(s) -> C!Period]
  <2>1. t = [i \in DOMAIN s |-> t[i]]
    OBVIOUS
  <2> QED
    BY <1>1, <1>2, <2>1
<1>4. t \in Seq(C!Period) /\ Len(t) = Len(s)
  BY <1>1, <1>3, SeqDef, LenProperties
<1>5. \A i \in 1 .. Len(s) : i # Len(s) => i + 1 \in 1 .. Len(s)
  BY <1>1
<1> QED
  BY <1>2, <1>4, <1>5 DEF Chained

-----------------------------------------------------------------------------
(* Requests on credit periods *)

LEMMA OpenRowsAre ==
  ASSUME PeriodParameters, PeriodInv, NEW p \in Parties
  PROVE  /\ rows[p] \in Seq(C!Period) /\ Len(rows[p]) \in 0 .. MaxRows
         /\ DOMAIN rows[p] = 1 .. Len(rows[p])
         /\ C!OpenRows(p) \subseteq 1 .. MaxRows
         /\ C!OpenRows(p) = {i \in DOMAIN rows[p] : rows[p][i].to = C!Open}
<1>1. rows[p] \in Seq(C!Period) /\ Len(rows[p]) =< MaxRows
  BY DEF PeriodInv, PeriodsTyped, C!TypeOK
<1>2. Len(rows[p]) \in Nat /\ DOMAIN rows[p] = 1 .. Len(rows[p])
  BY <1>1, LenProperties
<1> QED
  BY <1>1, <1>2 DEF C!OpenRows, PeriodParameters

LEMMA WriteIsRequest ==
  ASSUME PeriodParameters, NEW b \in Books \cup {C!NoBook}, NEW T \in SUBSET Parties,
         NEW d \in C!Days, NEW n \in Terms
  PROVE  C!Write(b, T, d, n) \in C!Writing
<1>1. [p \in {} |-> 0] \in [{} -> 0 .. MaxRows] /\ {} \in SUBSET Parties
  OBVIOUS
<1>2. [p \in {} |-> 0] \in UNION {[S -> 0 .. MaxRows] : S \in SUBSET Parties}
  BY <1>1
<1> QED
  BY <1>2 DEF C!Write, C!Writing

\* Request r goes on as q.
LEMMA PeriodGoesOn ==
  ASSUME PeriodInv, NEW r \in Reqs, NEW q \in {C!Idle} \cup C!Writing \cup C!Patching, C!Goto(r, q)
  PROVE  periodReq' \in [Reqs -> {C!Idle} \cup C!Writing \cup C!Patching]
  BY DEF PeriodInv, PeriodsTyped, C!TypeOK, C!Goto

\* A step that adds and changes no row.
LEMMA RowsStay ==
  ASSUME PeriodInv, UNCHANGED rows, default' \in [C!Entities -> Terms \cup {C!NoTerm}],
         book' \in [Books -> C!Book],
         periodReq' \in [Reqs -> {C!Idle} \cup C!Writing \cup C!Patching]
  PROVE  PeriodInv'
  BY DEF PeriodInv, PeriodsTyped, C!TypeOK, Chained

LEMMA PeriodBegins ==
  ASSUME PeriodParameters, PeriodInv, NEW r \in Reqs, NEW u, C!Begin(r, u) PROVE PeriodInv'
<1>1. ASSUME NEW b \in Books, C!PublishBegin(r, u, b) PROVE PeriodInv'
  <2>1. book[b].parties \in SUBSET Parties /\ book[b].from \in C!Days /\ book[b].days \in Terms
    BY DEF PeriodInv, PeriodsTyped, C!TypeOK, C!Book
  <2>2. C!Write(b, book[b].parties, book[b].from, book[b].days) \in C!Writing
    BY <2>1, WriteIsRequest
  <2>3. periodReq' \in [Reqs -> {C!Idle} \cup C!Writing \cup C!Patching]
    BY <1>1, <2>2, PeriodGoesOn DEF C!PublishBegin
  <2> QED
    BY <1>1, <2>3, RowsStay DEF C!PublishBegin, PeriodInv, PeriodsTyped, C!TypeOK
<1>2. ASSUME NEW p \in Parties, NEW d \in C!Days, NEW n \in Terms, C!CreateBegin(r, u, p, d, n)
      PROVE  PeriodInv'
  <2>1. C!Write(C!NoBook, {p}, d, n) \in C!Writing
    BY WriteIsRequest
  <2>2. periodReq' \in [Reqs -> {C!Idle} \cup C!Writing \cup C!Patching]
    BY <1>2, <2>1, PeriodGoesOn DEF C!CreateBegin
  <2> QED
    BY <1>2, <2>2, RowsStay DEF C!CreateBegin, PeriodInv, PeriodsTyped, C!TypeOK
<1>3. ASSUME NEW p \in Parties, NEW n \in Terms, C!PatchBegin(r, u, p, n) PROVE PeriodInv'
  <2>1. PICK i \in C!OpenRows(p) : C!Goto(r, [pc |-> "patch", party |-> p, row |-> i, days |-> n])
    BY <1>3 DEF C!PatchBegin
  <2>2. i \in 1 .. MaxRows
    BY OpenRowsAre
  <2>3. [pc |-> "patch", party |-> p, row |-> i, days |-> n] \in C!Patching
    BY <2>2 DEF C!Patching
  <2>4. periodReq' \in [Reqs -> {C!Idle} \cup C!Writing \cup C!Patching]
    BY <2>1, <2>3, PeriodGoesOn
  <2> QED
    BY <1>3, <2>4, RowsStay DEF C!PatchBegin, PeriodInv, PeriodsTyped, C!TypeOK
<1> QED
  BY <1>1, <1>2, <1>3 DEF C!Begin

LEMMA BulkBegins ==
  ASSUME PeriodParameters, PeriodInv, NEW S \in SUBSET Reqs, NEW u, NEW d \in C!Days, NEW n \in Terms,
         C!BulkBegin(S, u, Parties, d, n)
  PROVE  PeriodInv'
<1>1. PICK f \in [S -> Parties] :
        periodReq' = [r \in Reqs |-> IF r \in S /\ C!MayWrite(u, f[r])
                                     THEN C!Write(C!NoBook, {f[r]}, d, n) ELSE periodReq[r]]
  BY DEF C!BulkBegin
<1>2. \A r \in S : C!Write(C!NoBook, {f[r]}, d, n) \in C!Writing
  BY WriteIsRequest
<1>3. periodReq' \in [Reqs -> {C!Idle} \cup C!Writing \cup C!Patching]
  BY <1>1, <1>2 DEF PeriodInv, PeriodsTyped, C!TypeOK
<1> QED
  BY <1>3, RowsStay DEF C!BulkBegin, PeriodInv, PeriodsTyped, C!TypeOK

LEMMA WritingFields ==
  ASSUME PeriodInv, NEW r \in Reqs, C!At(r, "write")
  PROVE  /\ periodReq[r] \in C!Writing
         /\ periodReq[r].from \in C!Days /\ periodReq[r].days \in Terms
         /\ periodReq[r].todo \in SUBSET Parties /\ DOMAIN periodReq[r].prior \in SUBSET Parties
         /\ periodReq[r].prior \in [DOMAIN periodReq[r].prior -> 0 .. MaxRows]
<1>1. periodReq[r] \in C!Writing
  BY DEF PeriodInv, PeriodsTyped, C!TypeOK, C!At, C!Idle, C!Patching
<1> QED
  BY <1>1 DEF C!Writing

LEMMA PriorReads ==
  ASSUME PeriodParameters, PeriodInv, NEW r \in Reqs, NEW p \in Parties, C!ReadPrior(r, p)
  PROVE  PeriodInv'
<1> DEFINE old == periodReq[r]
           found == IF C!OpenRows(p) = {} THEN 0 ELSE CHOOSE i \in C!OpenRows(p) : TRUE
           prior == [x \in DOMAIN old.prior \cup {p} |-> IF x = p THEN found ELSE old.prior[x]]
           q == [old EXCEPT !.todo = @ \ {p}, !.prior = prior]
<1>1. C!End(r) \/ C!Goto(r, q)
  BY DEF C!ReadPrior
<1>2. found \in 0 .. MaxRows
  BY OpenRowsAre DEF PeriodParameters
<1>3. prior \in UNION {[S -> 0 .. MaxRows] : S \in SUBSET Parties}
  <2> HIDE DEF found
  <2>1. prior \in [DOMAIN old.prior \cup {p} -> 0 .. MaxRows] /\ DOMAIN old.prior \cup {p} \in SUBSET Parties
    BY <1>2, WritingFields DEF C!ReadPrior
  <2> QED
    BY <2>1
<1>4. q \in C!Writing
  <2> HIDE DEF prior
  <2> QED
    BY <1>3, WritingFields DEF C!ReadPrior, C!Writing
<1>5. periodReq' \in [Reqs -> {C!Idle} \cup C!Writing \cup C!Patching]
  <2> HIDE DEF q
  <2> QED
    BY <1>1, <1>4, PeriodGoesOn DEF C!End
<1> QED
  BY <1>5, RowsStay DEF C!ReadPrior, PeriodInv, PeriodsTyped, C!TypeOK

\* The rows of a party whose open row, if there is one, is the one found.
LEMMA RowsCommitted ==
  ASSUME PeriodParameters, PeriodInv, NEW r \in Reqs, C!At(r, "write"), NEW p \in Parties,
         C!IndexAdmits(periodReq[r], p)
  PROVE  C!RowsAfter(periodReq[r], p) \in Seq(C!Period) /\ Chained(C!RowsAfter(periodReq[r], p))
<1> DEFINE q == periodReq[r]
<1>1. q.from \in C!Days /\ q.days \in Terms
  BY WritingFields
<1>2. rows[p] \in Seq(C!Period) /\ Chained(rows[p])
  BY OpenRowsAre DEF PeriodInv
<1>3. CASE C!SameDay(q, p)
  BY <1>1, <1>2, <1>3, RowChanged DEF C!RowsAfter, C!SameDay, C!RowsPublished
<1>4. CASE ~C!SameDay(q, p)
  <2>1. C!OpenRows(p) \subseteq {q.prior[p]}
    BY <1>4 DEF C!IndexAdmits
  <2>2. {i \in DOMAIN rows[p] : rows[p][i].to = C!Open} \subseteq {q.prior[p]}
    BY <2>1 DEF C!OpenRows
  <2>3. C!RowsAfter(q, p) = Append(C!Closed(q, p), C!New(q))
    BY <1>4 DEF C!RowsAfter, C!RowsCreated, C!RowsPublished
  <2>4. C!Closed(q, p) = [i \in DOMAIN rows[p] |->
          IF i = q.prior[p] THEN [rows[p][i] EXCEPT !.to = q.from - 1] ELSE rows[p][i]]
    BY DEF C!Closed
  <2>5. C!New(q) = [from |-> q.from, to |-> C!Open, days |-> q.days]
    BY DEF C!New
  <2>6. Append(C!Closed(q, p), C!New(q)) \in Seq(C!Period) /\ Chained(Append(C!Closed(q, p), C!New(q)))
    <3> HIDE DEF q
    <3>1. PICK s \in Seq(C!Period), d \in C!Days, n \in Terms :
            s = rows[p] /\ d = q.from /\ n = q.days
      BY <1>1, <1>2
    <3>2. PICK k : k = q.prior[p]
      OBVIOUS
    <3>3. PICK closed : closed = C!Closed(q, p)
      OBVIOUS
    <3>4. PICK t : t = Append(closed, [from |-> d, to |-> C!Open, days |-> n])
      OBVIOUS
    <3>5. closed = [i \in DOMAIN s |-> IF i = k THEN [s[i] EXCEPT !.to = d - 1] ELSE s[i]]
      BY <2>4, <3>1, <3>2, <3>3
    <3>6. Chained(s) /\ {i \in DOMAIN s : s[i].to = C!Open} \subseteq {k}
      BY <1>2, <2>2, <3>1, <3>2
    <3>7. t \in Seq(C!Period) /\ Chained(t)
      BY <3>4, <3>5, <3>6, RowAdded
    <3> QED
      BY <2>5, <3>1, <3>3, <3>4, <3>7
  <2> QED
    BY <2>3, <2>6
<1> QED
  BY <1>3, <1>4

LEMMA PeriodCommits ==
  ASSUME PeriodParameters, PeriodInv, NEW r \in Reqs, C!Commit(r) PROVE PeriodInv'
<1>1. periodReq' \in [Reqs -> {C!Idle} \cup C!Writing \cup C!Patching]
  BY PeriodGoesOn DEF C!Commit, C!End
<1>2. CASE UNCHANGED <<rows, book>>
  BY <1>1, <1>2, RowsStay DEF C!Commit, PeriodInv, PeriodsTyped, C!TypeOK
<1>3. CASE ~UNCHANGED <<rows, book>>
  <2>1. \A p \in DOMAIN periodReq[r].prior : C!IndexAdmits(periodReq[r], p)
    BY <1>3 DEF C!Commit
  <2>2. rows' = [p \in Parties |-> IF p \in DOMAIN periodReq[r].prior
                                   THEN C!RowsAfter(periodReq[r], p) ELSE rows[p]]
    BY <1>3 DEF C!Commit
  <2>3. book' = [b \in Books |-> IF b = periodReq[r].book THEN [book[b] EXCEPT !.staged = FALSE]
                                 ELSE book[b]]
    BY <1>3 DEF C!Commit
  <2>4. \A p \in Parties : rows'[p] \in Seq(C!Period) /\ Chained(rows'[p])
    <3>1. ASSUME NEW p \in Parties PROVE rows'[p] \in Seq(C!Period) /\ Chained(rows'[p])
      <4>1. CASE p \in DOMAIN periodReq[r].prior
        BY <2>1, <2>2, <4>1, RowsCommitted DEF C!Commit
      <4>2. CASE p \notin DOMAIN periodReq[r].prior
        BY <2>2, <4>2, OpenRowsAre DEF PeriodInv
      <4> QED
        BY <4>1, <4>2
    <3> QED
      BY <3>1
  <2>5. rows' \in [Parties -> Seq(C!Period)]
    BY <2>2, <2>4
  <2>6. book' \in [Books -> C!Book]
    BY <2>3 DEF PeriodInv, PeriodsTyped, C!TypeOK, C!Book
  <2>7. (\A p \in Parties : Len(rows'[p]) =< MaxRows) /\ UNCHANGED default
    BY DEF C!Commit
  <2> QED
    BY <1>1, <2>4, <2>5, <2>6, <2>7 DEF PeriodInv, PeriodsTyped, C!TypeOK, Chained
<1> QED
  BY <1>2, <1>3

LEMMA PatchCommits ==
  ASSUME PeriodParameters, PeriodInv, NEW r \in Reqs, C!PatchCommit(r) PROVE PeriodInv'
<1>1. periodReq' \in [Reqs -> {C!Idle} \cup C!Writing \cup C!Patching]
  BY PeriodGoesOn DEF C!PatchCommit, C!End
<1>2. periodReq[r] \in C!Patching
  BY DEF PeriodInv, PeriodsTyped, C!TypeOK, C!At, C!Idle, C!Writing, C!PatchCommit
<1>3. PICK p \in Parties, k \in 1 .. MaxRows, n \in Terms :
        p = periodReq[r].party /\ k = periodReq[r].row /\ n = periodReq[r].days
  BY <1>2 DEF C!Patching
<1>4. rows' = [rows EXCEPT ![p] = [rows[p] EXCEPT ![k].days = n]]
  BY <1>3 DEF C!PatchCommit
<1> DEFINE t == [rows[p] EXCEPT ![k].days = n]
<1>5. t \in Seq(C!Period) /\ Len(t) = Len(rows[p]) /\ Chained(t)
  BY OpenRowsAre, RowChanged DEF PeriodInv
<1> HIDE DEF t
<1>6. /\ rows' \in [Parties -> Seq(C!Period)] /\ rows'[p] = t
      /\ \A x \in Parties \ {p} : rows'[x] = rows[x]
  BY <1>4, <1>5 DEF PeriodInv, PeriodsTyped, t
<1>7. UNCHANGED <<default, book>>
  BY DEF C!PatchCommit
<1>8. \A x \in Parties : rows'[x] \in Seq(C!Period) /\ Len(rows'[x]) =< MaxRows /\ Chained(rows'[x])
  BY <1>5, <1>6 DEF PeriodInv, PeriodsTyped, C!TypeOK
<1> QED
  BY <1>1, <1>6, <1>7, <1>8 DEF PeriodInv, PeriodsTyped, C!TypeOK, Chained

LEMMA PeriodInit == ASSUME PeriodParameters, C!Init PROVE PeriodInv
<1>1. \A p \in Parties : rows[p] = <<>> /\ rows[p] \in Seq(C!Period) /\ Len(rows[p]) = 0
  BY EmptySeq DEF C!Init
<1>2. rows \in [Parties -> Seq(C!Period)]
  BY <1>1 DEF C!Init
<1>3. book \in [Books -> C!Book]
  BY DEF C!Init
<1> QED
  BY <1>1, <1>2, <1>3 DEF C!Init, PeriodInv, PeriodsTyped, C!TypeOK, Chained, PeriodParameters

LEMMA PeriodNext == ASSUME PeriodParameters, PeriodInv, [C!Next]_(C!vars) PROVE PeriodInv'
<1>1. CASE UNCHANGED C!vars
  BY <1>1, RowsStay DEF C!vars, PeriodInv, PeriodsTyped, C!TypeOK
<1>2. ASSUME NEW r \in Reqs, C!Die(r) PROVE PeriodInv'
  <2>1. periodReq' \in [Reqs -> {C!Idle} \cup C!Writing \cup C!Patching]
    BY <1>2, PeriodGoesOn DEF C!Die, C!End
  <2> QED
    BY <1>2, <2>1, RowsStay DEF C!Die, PeriodInv, PeriodsTyped, C!TypeOK
<1>3. ASSUME NEW r \in Reqs, C!Advance(r) PROVE PeriodInv'
  BY <1>2, <1>3, PriorReads, PeriodCommits, PatchCommits DEF C!Advance
<1>4. ASSUME NEW u, NEW e \in C!Entities, NEW n \in Terms \cup {C!NoTerm}, C!SetDefault(u, e, n)
      PROVE  PeriodInv'
  BY <1>4, RowsStay DEF C!SetDefault, PeriodInv, PeriodsTyped, C!TypeOK
<1> QED
  BY <1>1, <1>3, <1>4, PeriodBegins, BulkBegins DEF C!Next

-----------------------------------------------------------------------------
(* What the rows of a party say *)

\* In order, the row begun last covers the day and no other does.
LEMMA OneCovers ==
  ASSUME PeriodParameters, PeriodInv, NEW p \in Parties, C!InOrder(p), NEW d \in C!Days,
         NEW m \in DOMAIN rows[p], rows[p][m].from =< d,
         \A k \in DOMAIN rows[p] : rows[p][k].from =< d => k =< m
  PROVE  C!Covering(p, d) = {m}
<1> DEFINE s == rows[p]
<1>1. s \in Seq(C!Period) /\ Len(s) \in Nat /\ DOMAIN s = 1 .. Len(s) /\ Chained(s)
  BY OpenRowsAre, LenProperties DEF PeriodInv
<1>2. \A i \in 1 .. Len(s) : s[i].from \in 1 .. MaxDay /\ s[i].to \in 0 .. MaxDay + 1
  BY <1>1, RowFields
<1>3. d \in 1 .. MaxDay /\ MaxDay \in Nat
  BY DEF C!Days, PeriodParameters
<1>4. \A i, j \in 1 .. Len(s) : i < j => s[i].from =< s[j].from
  BY <1>1 DEF C!InOrder
<1>5. m \in 1 .. Len(s) /\ s[m].from =< d
  BY <1>1
<1>6. d =< s[m].to
  <2>1. CASE m = Len(s)
    BY <1>1, <1>3, <1>5, <2>1 DEF Chained, C!Open
  <2>2. CASE m # Len(s)
    <3>1. m + 1 \in 1 .. Len(s) /\ s[m].to = s[m + 1].from - 1
      BY <1>1, <1>5, <2>2 DEF Chained
    <3>2. ~(s[m + 1].from =< d)
      BY <1>1, <1>5, <3>1
    <3> QED
      BY <1>2, <1>3, <3>1, <3>2
  <2> QED
    BY <2>1, <2>2
<1>7. ASSUME NEW j \in 1 .. Len(s), j # m, C!Covers(s[j], d) PROVE FALSE
  <2>1. s[j].from =< d /\ d =< s[j].to
    BY <1>7 DEF C!Covers
  <2>2. j < m
    BY <1>1, <1>5, <1>7, <2>1
  <2>3. j + 1 \in 1 .. Len(s) /\ s[j].to = s[j + 1].from - 1
    BY <1>1, <1>5, <2>2 DEF Chained
  <2>4. s[j + 1].from =< s[m].from
    BY <1>2, <1>4, <1>5, <2>2, <2>3
  <2> QED
    BY <1>2, <1>3, <1>5, <2>1, <2>3, <2>4
<1> QED
  BY <1>1, <1>5, <1>6, <1>7 DEF C!Covering, C!Covers

LEMMA LatestDecidesHolds == ASSUME PeriodParameters, PeriodInv PROVE C!LatestDecides
<1>1. SUFFICES ASSUME NEW p \in Parties, C!InOrder(p), NEW d \in C!Days
               PROVE  LET begun == {i \in DOMAIN rows[p] : rows[p][i].from =< d} IN
                        C!Resolved(p, d) = IF begun = {} THEN {default[EntityOf[p]]}
                          ELSE {rows[p][i].days : i \in {j \in begun : \A k \in begun : k =< j}}
  BY DEF C!LatestDecides
<1> DEFINE begun == {i \in DOMAIN rows[p] : rows[p][i].from =< d}
<1>2. Len(rows[p]) \in Nat /\ begun \in SUBSET (1 .. Len(rows[p]))
  BY OpenRowsAre
<1>3. CASE begun = {}
  <2>1. C!Covering(p, d) = {}
    BY <1>3 DEF C!Covering, C!Covers
  <2> QED
    BY <1>3, <2>1 DEF C!Resolved
<1>4. CASE begun # {}
  <2>1. PICK m \in begun : \A k \in begun : k =< m
    <3> HIDE DEF begun
    <3> QED
      BY <1>2, <1>4, SomeLast
  <2>2. C!Covering(p, d) = {m}
    BY <1>1, <2>1, OneCovers
  <2>3. {j \in begun : \A k \in begun : k =< j} = {m}
    <3>1. \A j \in begun : j \in Nat
      BY <1>2
    <3>2. \A j \in begun : (\A k \in begun : k =< j) => j = m
      BY <2>1, <3>1
    <3> QED
      BY <2>1, <3>2
  <2>4. rows[p][m].from \in Nat
    BY <1>2, <2>1, OpenRowsAre, RowFields
  <2>5. C!Resolved(p, d) = {rows[p][m].days}
    BY <2>2, <2>4 DEF C!Resolved
  <2> QED
    BY <1>4, <2>3, <2>5
<1> QED
  BY <1>3, <1>4

LEMMA LookupsAgreeHolds ==
  ASSUME PeriodParameters, PeriodInv, MaxDay # 0 PROVE C!LookupsAgree
<1>1. ASSUME NEW p \in Parties, NEW d \in C!Days
      PROVE  C!CanResolve(p, d) <=> C!NoTerm \notin C!Resolved(p, d)
  <2>1. \A i \in C!Covering(p, d) : rows[p][i].days \in Terms
    BY OpenRowsAre, RowFields DEF C!Covering
  <2>2. C!NoTerm \notin Terms
    BY DEF C!NoTerm, PeriodParameters
  <2> QED
    BY <2>1, <2>2 DEF C!CanResolve, C!Resolved
<1>2. ASSUME NEW p \in Parties, C!InOrder(p) PROVE C!Summary(p) = C!Resolved(p, MaxDay)
  <2> DEFINE s == rows[p]
             n == Len(s)
  <2>1. s \in Seq(C!Period) /\ n \in Nat /\ DOMAIN s = 1 .. n /\ Chained(s)
    BY OpenRowsAre, LenProperties DEF PeriodInv
  <2>2. \A i \in 1 .. n : s[i].from \in 1 .. MaxDay
    BY <2>1, RowFields
  <2>3. MaxDay \in C!Days
    BY DEF C!Days, PeriodParameters
  <2>4. CASE n = 0
    <3>1. C!OpenRows(p) = {} /\ C!Covering(p, MaxDay) = {}
      BY <2>1, <2>4 DEF C!OpenRows, C!Covering
    <3> QED
      BY <3>1 DEF C!Summary, C!Resolved
  <2>5. CASE n # 0
    <3>1. n \in DOMAIN s /\ s[n].from =< MaxDay /\ \A k \in DOMAIN s : k =< n
      BY <2>1, <2>2, <2>5
    <3>2. C!Covering(p, MaxDay) = {n}
      BY <1>2, <2>3, <3>1, OneCovers
    <3>3. C!OpenRows(p) = {n}
      <4>1. s[n].to = C!Open
        BY <2>1, <3>1 DEF Chained
      <4>2. ASSUME NEW i \in 1 .. n, i # n PROVE s[i].to # C!Open
        <5>1. s[i].to = s[i + 1].from - 1 /\ i + 1 \in 1 .. n
          BY <2>1, <4>2 DEF Chained
        <5> QED
          BY <2>2, <5>1 DEF C!Open, PeriodParameters
      <4> QED
        BY <2>1, <3>1, <4>1, <4>2 DEF C!OpenRows
    <3>4. s[n].from \in Nat
      BY <2>1, <2>2, <3>1
    <3>5. C!Resolved(p, MaxDay) = {s[n].days} /\ C!Summary(p) = {s[n].days}
      BY <3>2, <3>3, <3>4 DEF C!Resolved, C!Summary
    <3> QED
      BY <3>5
  <2> QED
    BY <2>4, <2>5
<1> QED
  BY <1>1, <1>2 DEF C!LookupsAgree

\* For any number of parties, requests, workbooks and days: as long as periods are added in
\* the order of their dates, the days of a date are those of the row last added that has
\* begun by then, and the three look-ups agree (createCreditPeriod,
\* publishCreditPeriodSnapshot, resolveCreditDaysFromConfigs, canResolveCreditDays).
THEOREM PeriodsCorrect ==
  ASSUME PeriodParameters, MaxDay # 0
  PROVE  C!Spec => [](C!TypeOK /\ C!LatestDecides /\ C!LookupsAgree)
<1>1. C!Init => PeriodInv
  BY PeriodInit
<1>2. PeriodInv /\ [C!Next]_(C!vars) => PeriodInv'
  BY PeriodNext
<1>3. PeriodInv => C!TypeOK /\ C!LatestDecides /\ C!LookupsAgree
  BY LatestDecidesHolds, LookupsAgreeHolds DEF PeriodInv, PeriodsTyped
<1> QED
  BY <1>1, <1>2, <1>3, PTL DEF C!Spec

\* Of the run's behaviours: the period begun last decides, and the look-ups agree.
THEOREM PeriodsDecide ==
  ASSUME PeriodParameters, MaxDay # 0 PROVE MCSpec => []LatestDecides
<1>1. MCInit => PeriodInv
  BY PeriodInit DEF MCInit
<1>2. ASSUME PeriodInv, [MCNext]_<<which, periodVars, mapVars, vars, accessVars, figuresVars>>
      PROVE  PeriodInv'
  <2>1. [C!Next]_(C!vars)
    BY <1>2 DEF MCNext, Periods, periodVars, C!vars
  <2> QED
    BY <1>2, <2>1, PeriodNext
<1>3. PeriodInv => LatestDecides
  BY LatestDecidesHolds, LookupsAgreeHolds DEF LatestDecides
<1> QED
  BY <1>1, <1>2, <1>3, PTL DEF MCSpec

-----------------------------------------------------------------------------
(* The mapping of party names: the inductive invariant *)

\* Names and rows are ordered; 0 is no name, and no corpus is Cold.
MappingParameters ==
  /\ Names \subseteq Nat \ {0} /\ Rows \subseteq Nat /\ NameOf \in [Rows -> Names]
  /\ ProcOf \in [MapReqs -> Procs] /\ TTL \in Nat \ {0} /\ MaxLoad \in Nat /\ Cold \notin P!Entry

Busy ==
  [pc: {"load", "fill", "got", "next", "patch", "create", "alias", "drop"},
   kind: {"view", "auto", "each", "bulk"}, todo: SUBSET Rows, party: Names \cup {P!NoName},
   plan: [Rows -> Names \cup {P!NoName}], near: SUBSET Rows,
   age: 0 .. MaxLoad, lag: 0 .. P!Oldest, corpus: P!Corpus]

\* A request at work on a row or group has one, and only bulk mappings create in groups.
AtWork(q) ==
  /\ q.pc \in {"patch", "create", "alias"} \/ (q.pc = "next" /\ q.kind = "each") => q.todo # {}
  /\ q.pc \in {"create", "alias"} => q.kind = "bulk"

\* What was read after the request asked for it is no older than its question, and what
\* came out of the cache was younger than TTL then.
Timely(q) ==
  /\ q.pc = "fill" => q.lag =< q.age
  /\ q.pc = "got" => q.lag < TTL + q.age \/ q.lag =< q.age

\* A cached corpus is no older than its entry, until that is too old to be used.
Young(e) == e = Cold \/ (e.age < TTL => e.lag =< e.age)

TablesTyped ==
  /\ parties \subseteq Names
  /\ aliases \subseteq Names \X parties
  /\ chosen \in [Rows -> Names \cup {P!NoName}]

Served(q) == q \in P!Request /\ AtWork(q) /\ Timely(q)

\* What a request knows of parties is on file: parties are never deleted.
Sound(q, S) ==
  q # P!Idle =>
    /\ q.corpus.parties \subseteq S
    /\ q.party \in S \cup {P!NoName} /\ (q.pc = "alias" => q.party \in S)
    /\ \A row \in q.near : q.plan[row] \in S
Grounded ==
  /\ \A r \in MapReqs : Sound(mapReq[r], parties)
  /\ \A p \in Procs : cache[p] # Cold => cache[p].corpus.parties \subseteq parties

MapInv ==
  /\ TablesTyped
  /\ cache \in [Procs -> P!Entry \cup {Cold}] /\ \A p \in Procs : Young(cache[p])
  /\ mapReq \in [MapReqs -> P!Request] /\ \A r \in MapReqs : Served(mapReq[r])

-----------------------------------------------------------------------------

LEMMA RequestsAre == P!Request = {P!Idle} \cup Busy
  BY DEF P!Request, Busy

LEMMA IdleServed == Served(P!Idle)
  BY RequestsAre DEF Served, AtWork, Timely, P!Idle

LEMMA MapFields ==
  ASSUME MapInv, NEW r \in MapReqs, ~P!At(r, "idle")
  PROVE  mapReq[r] \in Busy /\ AtWork(mapReq[r]) /\ Timely(mapReq[r])
  BY RequestsAre DEF MapInv, P!At, P!Idle, Served

LEMMA MapGoesOn ==
  ASSUME MapInv, NEW r \in MapReqs, NEW q, Served(q), P!Goto(r, q)
  PROVE  mapReq' \in [MapReqs -> P!Request] /\ \A s \in MapReqs : Served(mapReq'[s])
  BY DEF MapInv, P!Goto, Served

LEMMA MapEnds ==
  ASSUME MapInv, NEW r \in MapReqs, P!End(r)
  PROVE  mapReq' \in [MapReqs -> P!Request] /\ \A s \in MapReqs : Served(mapReq'[s])
  BY IdleServed, MapGoesOn DEF P!End

\* Min is that of the instance.
LEMMA MinsAgree == \A S : P!Min(S) = Min(S)
  BY DEF P!Min, Min

LEMMA Zeros == ASSUME MappingParameters PROVE 0 \in 0 .. MaxLoad /\ 0 \in 0 .. P!Oldest
  BY DEF MappingParameters, P!Oldest

\* The smaller of two numbers.
LEMMA MinOfTwo ==
  ASSUME NEW a \in Nat, NEW b \in Nat
  PROVE  Min({a, b}) \in {a, b} /\ Min({a, b}) =< a /\ Min({a, b}) =< b
<1>1. {a, b} \in SUBSET Nat /\ {a, b} # {}
  OBVIOUS
<1> QED
  BY <1>1, MinIsFirst

LEMMA Aged ==
  ASSUME NEW n \in Nat, NEW most \in Nat
  PROVE  P!Older(n, most) \in 0 .. most /\ P!Older(n, most) =< n + 1
         /\ (P!Older(n, most) = n + 1 \/ P!Older(n, most) = most)
<1>1. n + 1 \in Nat
  OBVIOUS
<1>2. Min({n + 1, most}) \in {n + 1, most} /\ Min({n + 1, most}) =< n + 1 /\ Min({n + 1, most}) =< most
  BY <1>1, MinOfTwo
<1> QED
  BY <1>1, <1>2, MinsAgree DEF P!Older

\* A request that asks is served from the cache or begins to load.
LEMMA AskServed ==
  ASSUME MappingParameters, MapInv, NEW r \in MapReqs, NEW q \in Busy
  PROVE  P!Asking(r, q) \in Busy /\ Served(P!Asking(r, q))
<1> DEFINE e == cache[ProcOf[r]]
<1>1. (e = Cold \/ e \in P!Entry) /\ Young(e)
  BY DEF MapInv, MappingParameters
<1>2. CASE e # Cold /\ e.age < TTL
  <2> DEFINE a == [q EXCEPT !.pc = "got", !.age = 0, !.lag = e.lag, !.corpus = e.corpus]
  <2>1. e.lag \in 0 .. P!Oldest /\ e.corpus \in P!Corpus /\ e.lag =< e.age /\ e.age \in 0 .. TTL
    BY <1>1, <1>2 DEF P!Entry, Young
  <2>2. a \in Busy /\ a.pc = "got" /\ a.age = 0 /\ a.lag = e.lag
    <3> HIDE DEF e
    <3> QED
      BY <2>1, Zeros DEF Busy
  <2>3. P!Asking(r, q) = a
    BY <1>2 DEF P!Asking
  <2>4. a.lag < TTL + a.age
    BY <1>2, <2>1, <2>2 DEF MappingParameters
  <2> HIDE DEF a
  <2> QED
    BY <2>2, <2>3, <2>4, RequestsAre DEF Served, AtWork, Timely
<1>3. CASE ~(e # Cold /\ e.age < TTL)
  <2> DEFINE a == [q EXCEPT !.pc = "load", !.age = 0, !.lag = 0]
  <2>1. a \in Busy /\ a.pc = "load"
    BY Zeros DEF Busy
  <2>2. P!Asking(r, q) = a
    BY <1>3 DEF P!Asking
  <2> HIDE DEF a
  <2> QED
    BY <2>1, <2>2, RequestsAre DEF Served, AtWork, Timely
<1> QED
  BY <1>2, <1>3

LEMMA StartBusy ==
  ASSUME MappingParameters, NEW kind \in {"view", "auto", "bulk"}, NEW todo \in SUBSET Rows
  PROVE  /\ P!Start(kind, todo) \in Busy /\ P!Start(kind, todo).pc = "load"
         /\ P!Start(kind, todo).kind = kind /\ P!Start(kind, todo).todo = todo
         /\ P!Start(kind, todo).plan = P!NoPlan
<1>1. P!NoPlan \in [Rows -> Names \cup {P!NoName}]
  BY DEF P!NoPlan
<1>2. [parties |-> {}, aliases |-> {}] \in P!Corpus
  BY DEF P!Corpus
<1> QED
  BY <1>1, <1>2 DEF P!Start, Busy, MappingParameters, P!Oldest

\* A request that begins takes the undecided rows of a snapshot, or none.
LEMMA BeginStarts ==
  ASSUME NEW r \in MapReqs, NEW kind, P!Begin(r, kind)
  PROVE  \E todo \in SUBSET Rows :
           /\ P!Goto(r, P!Asking(r, P!Start(kind, todo)))
           /\ kind = "bulk" => \E s : todo = P!Undecided(s)
<1>1. \A s : P!Undecided(s) \in SUBSET Rows
  BY DEF P!Undecided
<1>2. PICK s : P!Goto(r, P!Asking(r, P!Start(kind, IF kind = "view" THEN {} ELSE P!Undecided(s))))
  BY DEF P!Begin
<1> QED
  BY <1>1, <1>2

\* A step that leaves the cache alone.
LEMMA CacheStays ==
  ASSUME MapInv, UNCHANGED cache, TablesTyped',
         mapReq' \in [MapReqs -> P!Request], \A s \in MapReqs : Served(mapReq'[s])
  PROVE  MapInv'
<1>1. \A p \in Procs : Young(cache'[p])
  BY DEF MapInv
<1> QED
  BY <1>1 DEF MapInv

LEMMA TablesStay == ASSUME MapInv, UNCHANGED P!tables PROVE TablesTyped'
  BY DEF MapInv, TablesTyped, P!tables

-----------------------------------------------------------------------------
(* The cached corpus *)

LEMMA CurrentTyped == ASSUME TablesTyped PROVE P!Current \in P!Corpus
  BY DEF TablesTyped, P!Current, P!Corpus

LEMMA BeginKeepsMap ==
  ASSUME MappingParameters, MapInv, NEW r \in MapReqs, NEW kind \in {"view", "auto", "bulk"},
         P!Begin(r, kind)
  PROVE  MapInv'
<1>1. PICK todo \in SUBSET Rows : P!Goto(r, P!Asking(r, P!Start(kind, todo)))
  BY BeginStarts
<1>2. Served(P!Asking(r, P!Start(kind, todo)))
  BY StartBusy, AskServed
<1>3. mapReq' \in [MapReqs -> P!Request] /\ \A s \in MapReqs : Served(mapReq'[s])
  BY <1>1, <1>2, MapGoesOn
<1> QED
  BY <1>3, CacheStays, TablesStay DEF P!Begin

LEMMA ReadKeepsMap ==
  ASSUME MappingParameters, MapInv, NEW r \in MapReqs, P!ReadCorpus(r) PROVE MapInv'
<1>1. PICK old \in Busy : old = mapReq[r]
  BY MapFields DEF P!ReadCorpus, P!At
<1>2. PICK c \in P!Corpus : c = P!Current
  BY CurrentTyped DEF MapInv
<1> DEFINE q == [old EXCEPT !.pc = "fill", !.lag = 0, !.corpus = c]
<1>3. q \in Busy /\ q.pc = "fill" /\ q.lag = 0 /\ q.age \in Nat
  <2>1. 0 \in 0 .. P!Oldest /\ MaxLoad \in Nat
    BY Zeros DEF MappingParameters
  <2>2. old.age \in Nat
    BY <2>1 DEF Busy
  <2> QED
    BY <2>1, <2>2 DEF Busy
<1>4. P!Goto(r, q)
  BY <1>1, <1>2 DEF P!ReadCorpus
<1> HIDE DEF q
<1>5. Served(q)
  BY <1>3, RequestsAre DEF Served, AtWork, Timely
<1>6. mapReq' \in [MapReqs -> P!Request] /\ \A s \in MapReqs : Served(mapReq'[s])
  BY <1>4, <1>5, MapGoesOn
<1> QED
  BY <1>6, CacheStays, TablesStay DEF P!ReadCorpus

LEMMA FillKeepsMap ==
  ASSUME MappingParameters, MapInv, NEW r \in MapReqs, P!Fill(r) PROVE MapInv'
<1> DEFINE q == [mapReq[r] EXCEPT !.pc = "got"]
           e == [age |-> P!Min({mapReq[r].age, TTL}), lag |-> mapReq[r].lag, corpus |-> mapReq[r].corpus]
<1>1. mapReq[r] \in Busy /\ mapReq[r].lag =< mapReq[r].age
  BY MapFields DEF P!Fill, P!At, Timely
<1>2. /\ mapReq[r].age \in Nat /\ mapReq[r].lag \in 0 .. P!Oldest /\ mapReq[r].corpus \in P!Corpus
      /\ TTL \in Nat
  BY <1>1 DEF Busy, MappingParameters
<1>3. q \in Busy /\ q.pc = "got" /\ q.lag = mapReq[r].lag /\ q.age = mapReq[r].age
  BY <1>1 DEF Busy
<1>4. /\ P!Min({mapReq[r].age, TTL}) \in {mapReq[r].age, TTL}
      /\ P!Min({mapReq[r].age, TTL}) =< mapReq[r].age /\ P!Min({mapReq[r].age, TTL}) =< TTL
  BY <1>2, MinOfTwo, MinsAgree
<1>5. e \in P!Entry /\ (e.age < TTL => e.lag =< e.age)
  BY <1>1, <1>2, <1>4 DEF P!Entry
<1>6. P!Goto(r, q) /\ cache' = [cache EXCEPT ![ProcOf[r]] = e]
  BY DEF P!Fill
<1> HIDE DEF q, e
<1>7. Served(q)
  BY <1>1, <1>3, RequestsAre DEF Served, AtWork, Timely
<1>8. mapReq' \in [MapReqs -> P!Request] /\ \A s \in MapReqs : Served(mapReq'[s])
  BY <1>6, <1>7, MapGoesOn
<1>9. cache' \in [Procs -> P!Entry \cup {Cold}] /\ \A p \in Procs : Young(cache'[p])
  BY <1>5, <1>6 DEF MapInv, Young
<1> QED
  BY <1>8, <1>9, TablesStay DEF P!Fill, MapInv

LEMMA DropKeepsMap ==
  ASSUME MappingParameters, MapInv, NEW r \in MapReqs, P!DropCorpus(r) PROVE MapInv'
<1> DEFINE q == [mapReq[r] EXCEPT !.pc = "load", !.age = 0, !.lag = 0]
<1>1. mapReq[r] \in Busy
  BY MapFields DEF P!DropCorpus, P!At
<1>2. q \in Busy /\ q.pc = "load"
  BY <1>1, Zeros DEF Busy
<1>3. P!Goto(r, q) /\ cache' = [cache EXCEPT ![ProcOf[r]] = Cold]
  BY DEF P!DropCorpus
<1> HIDE DEF q
<1>4. Served(q)
  BY <1>2, RequestsAre DEF Served, AtWork, Timely
<1>5. mapReq' \in [MapReqs -> P!Request] /\ \A s \in MapReqs : Served(mapReq'[s])
  BY <1>3, <1>4, MapGoesOn
<1>6. cache' \in [Procs -> P!Entry \cup {Cold}] /\ \A p \in Procs : Young(cache'[p])
  BY <1>3 DEF MapInv, Young
<1> QED
  BY <1>5, <1>6, TablesStay DEF P!DropCorpus, MapInv

LEMMA CrashKeepsMap ==
  ASSUME MappingParameters, MapInv, NEW p \in Procs, P!Crash(p) PROVE MapInv'
<1>1. mapReq' \in [MapReqs -> P!Request] /\ \A s \in MapReqs : Served(mapReq'[s])
  BY IdleServed DEF P!Crash, MapInv, Served
<1>2. cache' \in [Procs -> P!Entry \cup {Cold}] /\ \A x \in Procs : Young(cache'[x])
  BY DEF P!Crash, MapInv, Young
<1> QED
  BY <1>1, <1>2, TablesStay DEF P!Crash, MapInv

\* Question, entry and corpus grow older together.
LEMMA TickKeepsMap == ASSUME MappingParameters, MapInv, P!Tick PROVE MapInv'
<1>0. TTL \in Nat /\ MaxLoad \in Nat /\ P!Oldest \in Nat /\ P!Oldest = TTL + MaxLoad + 1
  BY DEF MappingParameters, P!Oldest
<1>1. ASSUME NEW s \in MapReqs PROVE Served(mapReq'[s])
  <2>1. CASE mapReq[s] = P!Idle
    BY <2>1, IdleServed DEF P!Tick
  <2>2. CASE mapReq[s] # P!Idle
    <3> DEFINE q == [mapReq[s] EXCEPT !.age = @ + 1, !.lag = P!Older(@, P!Oldest)]
    <3>1. mapReq[s] \in Busy /\ AtWork(mapReq[s]) /\ Timely(mapReq[s])
      BY <2>2, RequestsAre DEF MapInv, Served
    <3>2. mapReq[s].age \in Nat /\ mapReq[s].age + 1 \in 0 .. MaxLoad /\ mapReq[s].lag \in Nat
      <4>1. mapReq[s].age < MaxLoad
        BY <2>2 DEF P!Tick
      <4>2. mapReq[s].age \in Nat /\ mapReq[s].lag \in Nat
        BY <3>1 DEF Busy
      <4> QED
        BY <1>0, <4>1, <4>2
    <3>3. P!Older(mapReq[s].lag, P!Oldest) \in 0 .. P!Oldest
          /\ P!Older(mapReq[s].lag, P!Oldest) =< mapReq[s].lag + 1
      BY <1>0, <3>2, Aged
    <3>4. /\ q \in Busy /\ q.pc = mapReq[s].pc /\ q.kind = mapReq[s].kind /\ q.todo = mapReq[s].todo
          /\ q.age = mapReq[s].age + 1 /\ q.lag = P!Older(mapReq[s].lag, P!Oldest)
      BY <3>1, <3>2, <3>3 DEF Busy
    <3>5. mapReq'[s] = q
      BY <2>2 DEF P!Tick
    <3> HIDE DEF q
    <3>6. Timely(q)
      BY <1>0, <3>1, <3>2, <3>3, <3>4 DEF Timely
    <3> QED
      BY <3>1, <3>4, <3>5, <3>6, RequestsAre DEF Served, AtWork
  <2> QED
    BY <2>1, <2>2
<1>2. ASSUME NEW p \in Procs PROVE cache'[p] \in P!Entry \cup {Cold} /\ Young(cache'[p])
  <2>1. CASE cache[p] = Cold
    BY <2>1 DEF P!Tick, Young
  <2>2. CASE cache[p] # Cold
    <3> DEFINE e == [cache[p] EXCEPT !.age = P!Older(@, TTL), !.lag = P!Older(@, P!Oldest)]
    <3>1. cache[p] \in P!Entry /\ (cache[p].age < TTL => cache[p].lag =< cache[p].age)
      BY <2>2 DEF MapInv, Young
    <3>2. cache[p].age \in 0 .. TTL /\ cache[p].lag \in Nat
      BY <1>0, <3>1 DEF P!Entry
    <3>3. /\ P!Older(cache[p].age, TTL) \in 0 .. TTL
          /\ (P!Older(cache[p].age, TTL) = cache[p].age + 1 \/ P!Older(cache[p].age, TTL) = TTL)
          /\ P!Older(cache[p].lag, P!Oldest) \in 0 .. P!Oldest
          /\ P!Older(cache[p].lag, P!Oldest) =< cache[p].lag + 1
      <4>1. cache[p].age \in Nat
        BY <1>0, <3>2
      <4>2. /\ P!Older(cache[p].age, TTL) \in 0 .. TTL
            /\ (P!Older(cache[p].age, TTL) = cache[p].age + 1 \/ P!Older(cache[p].age, TTL) = TTL)
        BY <1>0, <4>1, Aged
      <4>3. /\ P!Older(cache[p].lag, P!Oldest) \in 0 .. P!Oldest
            /\ P!Older(cache[p].lag, P!Oldest) =< cache[p].lag + 1
        BY <1>0, <3>2, Aged
      <4> QED
        BY <4>2, <4>3
    <3>4. e \in P!Entry /\ e.age = P!Older(cache[p].age, TTL) /\ e.lag = P!Older(cache[p].lag, P!Oldest)
      BY <3>1, <3>3 DEF P!Entry
    <3>5. cache'[p] = e
      BY <2>2 DEF P!Tick
    <3> HIDE DEF e
    <3>6. e.age < TTL => e.lag =< e.age
      BY <1>0, <3>1, <3>2, <3>3, <3>4
    <3> QED
      BY <3>4, <3>5, <3>6 DEF Young
  <2> QED
    BY <2>1, <2>2
<1>3. mapReq' \in [MapReqs -> P!Request]
  BY <1>1 DEF P!Tick, Served
<1>4. cache' \in [Procs -> P!Entry \cup {Cold}]
  BY <1>2 DEF P!Tick
<1> QED
  BY <1>1, <1>2, <1>3, <1>4, TablesStay DEF P!Tick, MapInv

-----------------------------------------------------------------------------
(* The rows *)

\* Parties, aliases and chosen parties that a resolved row or a new party leave.
LEMMA ResolveTyped ==
  ASSUME MappingParameters, MapInv, NEW row \in Rows, NEW p \in parties, P!ResolveRow(row, p)
  PROVE  TablesTyped' /\ parties' = parties
<1>1. CASE UNCHANGED P!tables
  BY <1>1, TablesStay DEF P!tables
<1>2. CASE ~UNCHANGED P!tables
  <2>1. /\ aliases' = aliases \cup {<<NameOf[row], p>>} /\ parties' = parties
        /\ chosen' = [chosen EXCEPT ![row] = p]
    BY <1>2 DEF P!ResolveRow
  <2>2. NameOf[row] \in Names /\ p \in Names
    BY DEF MapInv, TablesTyped, MappingParameters
  <2> QED
    BY <2>1, <2>2 DEF MapInv, TablesTyped
<1> QED
  BY <1>1, <1>2

LEMMA CreateTyped ==
  ASSUME MappingParameters, MapInv, NEW row \in Rows, NEW n \in Names, P!CreateParty(row, n)
  PROVE  TablesTyped' /\ parties \subseteq parties'
<1>1. CASE UNCHANGED P!tables
  BY <1>1, TablesStay DEF P!tables
<1>2. CASE ~UNCHANGED P!tables
  <2>1. /\ aliases' = aliases \cup {<<NameOf[row], n>>} /\ parties' = parties \cup {n}
        /\ chosen' = [chosen EXCEPT ![row] = n]
    BY <1>2 DEF P!CreateParty
  <2>2. NameOf[row] \in Names
    BY DEF MappingParameters
  <2> QED
    BY <2>1, <2>2 DEF MapInv, TablesTyped
<1> QED
  BY <1>1, <1>2

LEMMA CommittedServed ==
  ASSUME MapInv, NEW r \in MapReqs, NEW q \in Busy, P!Committed(r, q)
  PROVE  mapReq' \in [MapReqs -> P!Request] /\ \A s \in MapReqs : Served(mapReq'[s])
<1> DEFINE d == [q EXCEPT !.pc = "drop"]
<1>1. d \in Busy /\ d.pc = "drop"
  BY DEF Busy
<1>2. P!End(r) \/ P!Goto(r, d)
  BY DEF P!Committed
<1> HIDE DEF d
<1>3. Served(d)
  BY <1>1, RequestsAre DEF Served, AtWork, Timely
<1> QED
  BY <1>2, <1>3, MapEnds, MapGoesOn

LEMMA PatchKeepsMap ==
  ASSUME MappingParameters, MapInv, NEW r \in MapReqs, NEW row \in Rows, P!Patch(r, row)
  PROVE  MapInv'
<1>0. P!Start("view", {}) \in Busy /\ UNCHANGED cache
  BY StartBusy DEF P!Patch
<1>1. ASSUME NEW p \in parties, P!ResolveRow(row, p), P!Committed(r, P!Start("view", {})) PROVE MapInv'
  BY <1>0, <1>1, ResolveTyped, CommittedServed, CacheStays
<1>2. ASSUME NEW n \in Names, P!CreateParty(row, n), P!Committed(r, P!Start("view", {})) PROVE MapInv'
  BY <1>0, <1>2, CreateTyped, CommittedServed, CacheStays
<1>3. ASSUME NEW p \in parties, chosen' = [chosen EXCEPT ![row] = p], UNCHANGED <<parties, aliases>>,
             P!Goto(r, P!Asking(r, P!Start("view", {})))
      PROVE  MapInv'
  <2>1. TablesTyped'
    BY <1>3 DEF MapInv, TablesTyped
  <2>2. Served(P!Asking(r, P!Start("view", {})))
    BY <1>0, AskServed
  <2>3. mapReq' \in [MapReqs -> P!Request] /\ \A s \in MapReqs : Served(mapReq'[s])
    BY <1>3, <2>2, MapGoesOn
  <2> QED
    BY <1>0, <2>1, <2>3, CacheStays
<1> QED
  BY <1>1, <1>2, <1>3 DEF P!Patch

\* A request that goes on with some of its rows, and leaves the tables.
LEMMA MapMoves ==
  ASSUME MapInv, NEW r \in MapReqs, NEW q \in Busy, P!Goto(r, q), AtWork(q), q.pc \notin {"fill", "got"},
         UNCHANGED cache, TablesTyped'
  PROVE  MapInv'
<1>1. Served(q)
  BY RequestsAre DEF Served, Timely
<1> QED
  BY <1>1, MapGoesOn, CacheStays

LEMMA ViewKeepsMap == ASSUME MapInv, NEW r \in MapReqs, P!View(r) PROVE MapInv'
  BY MapEnds, CacheStays, TablesStay DEF P!View

LEMMA AutoRowsKeepsMap ==
  ASSUME MappingParameters, MapInv, NEW r \in MapReqs, P!AutoRows(r) PROVE MapInv'
<1> DEFINE old == mapReq[r]
           some == IF old.kind = "each" THEN old.todo
                   ELSE {row \in old.todo : P!TopMatches(old.corpus, NameOf[row]) = {}}
           q == [old EXCEPT !.pc = "next", !.kind = "each", !.todo = some, !.age = 0]
<1>0. UNCHANGED P!tables /\ UNCHANGED cache /\ TablesTyped'
  BY TablesStay DEF P!AutoRows
<1>1. CASE P!End(r)
  BY <1>0, <1>1, MapEnds, CacheStays
<1>2. CASE some # {} /\ P!Goto(r, q)
  <2>1. old \in Busy
    BY MapFields DEF P!AutoRows, P!At
  <2>2. some \in SUBSET Rows
    BY <2>1 DEF Busy
  <2>3. q \in Busy /\ q.pc = "next" /\ q.todo = some
    <3> HIDE DEF some
    <3> QED
      BY <2>1, <2>2, Zeros DEF Busy
  <2>4. AtWork(q)
    <3> HIDE DEF some, q
    <3> QED
      BY <1>2, <2>3 DEF AtWork
  <2> HIDE DEF some, q
  <2> QED
    BY <1>0, <1>2, <2>3, <2>4, MapMoves
<1> QED
  BY <1>1, <1>2 DEF P!AutoRows

\* The first of a request's rows.
LEMMA FirstRow ==
  ASSUME MappingParameters, NEW q \in Busy, q.todo # {}
  PROVE  P!Min(q.todo) \in q.todo /\ P!Min(q.todo) \in Rows /\ NameOf[P!Min(q.todo)] \in Names
<1>1. q.todo \in SUBSET Rows /\ q.todo \in SUBSET Nat
  BY DEF Busy, MappingParameters
<1>2. P!Min(q.todo) \in q.todo
  BY <1>1, MinIsFirst, MinsAgree
<1> QED
  BY <1>1, <1>2 DEF MappingParameters

LEMMA LowestOf ==
  ASSUME MappingParameters, NEW S \in SUBSET Names, S # {} PROVE P!Min(S) \in S /\ P!Min(S) \in Names
<1>1. S \in SUBSET Nat
  BY DEF MappingParameters
<1> QED
  BY <1>1, MinIsFirst, MinsAgree

LEMMA AutoLookupKeepsMap ==
  ASSUME MappingParameters, MapInv, NEW r \in MapReqs, P!AutoLookup(r) PROVE MapInv'
<1> DEFINE n == NameOf[P!Min(mapReq[r].todo)]
           found == IF P!Known(n, {n}) = {} THEN P!NoName ELSE P!Min(P!Known(n, {n}))
           q == [mapReq[r] EXCEPT !.pc = "patch", !.party = found]
<1>0. UNCHANGED P!tables /\ UNCHANGED cache /\ TablesTyped' /\ P!Goto(r, q)
  BY TablesStay DEF P!AutoLookup
<1>1. mapReq[r] \in Busy /\ mapReq[r].todo # {}
  BY MapFields DEF P!AutoLookup, P!At, AtWork
<1>2. found \in Names \cup {P!NoName}
  <2>1. P!Known(n, {n}) \in SUBSET Names
    BY DEF P!Known, MapInv, TablesTyped
  <2> QED
    BY <2>1, LowestOf
<1>3. q \in Busy /\ q.pc = "patch" /\ q.todo # {}
  <2> HIDE DEF found
  <2> QED
    BY <1>1, <1>2 DEF Busy
<1> HIDE DEF q
<1>4. AtWork(q)
  BY <1>3 DEF AtWork
<1> QED
  BY <1>0, <1>3, <1>4, MapMoves

LEMMA AutoPatchKeepsMap ==
  ASSUME MappingParameters, MapInv, Grounded, NEW r \in MapReqs, P!AutoPatch(r)
  PROVE  MapInv' /\ parties \subseteq parties'
<1>1. PICK old \in Busy : old = mapReq[r] /\ old.todo # {}
  BY MapFields DEF P!AutoPatch, P!At, AtWork
<1>2. PICK row \in Rows : row = P!Min(old.todo) /\ NameOf[row] \in Names
  BY <1>1, FirstRow
<1> DEFINE q == [old EXCEPT !.todo = @ \ {row}, !.age = 0]
<1>3. q \in Busy
  <2>1. PICK t \in SUBSET Rows : t = old.todo \ {row}
    BY DEF Busy
  <2>2. q = [old EXCEPT !.todo = t, !.age = 0] /\ 0 \in 0 .. MaxLoad
    BY <2>1, Zeros DEF Busy
  <2> QED
    BY <2>2 DEF Busy
<1>4. P!Committed(r, q) /\ UNCHANGED cache
  BY <1>1, <1>2 DEF P!AutoPatch
<1> HIDE DEF q
<1>5. TablesTyped' /\ parties \subseteq parties'
  <2>1. CASE old.party = P!NoName
    <3>1. P!CreateParty(row, NameOf[row])
      BY <1>1, <1>2, <2>1 DEF P!AutoPatch
    <3> QED
      BY <1>2, <3>1, CreateTyped
  <2>2. CASE old.party # P!NoName
    <3>1. PICK p \in parties : p = old.party
      BY <1>1, <2>2, RequestsAre DEF Grounded, Sound, P!Idle, P!AutoPatch, P!At
    <3>2. P!ResolveRow(row, p)
      BY <1>1, <1>2, <2>2, <3>1 DEF P!AutoPatch
    <3> QED
      BY <3>2, ResolveTyped
  <2> QED
    BY <2>1, <2>2
<1> QED
  BY <1>3, <1>4, <1>5, CommittedServed, CacheStays

-----------------------------------------------------------------------------
(* Bulk mappings *)

LEMMA PlannedIs ==
  ASSUME MappingParameters, NEW q \in Busy, NEW p \in Names
  PROVE  /\ P!Planned(q, p) \in Busy
         /\ P!Planned(q, p).pc = "next" /\ P!Planned(q, p).kind = q.kind
         /\ P!Planned(q, p).corpus = q.corpus /\ P!Planned(q, p).party = P!NoName
         /\ P!Planned(q, p).todo = q.todo \ P!GroupOf(q) /\ P!Planned(q, p).near = q.near
         /\ P!Planned(q, p).plan
              = [row \in Rows |-> IF row \in P!GroupOf(q) THEN p ELSE q.plan[row]]
<1>1. PICK G : G = P!GroupOf(q)
  OBVIOUS
<1>2. [row \in Rows |-> IF row \in G THEN p ELSE q.plan[row]] \in [Rows -> Names \cup {P!NoName}]
  BY DEF Busy
<1>3. PICK f \in [Rows -> Names \cup {P!NoName}] :
        f = [row \in Rows |-> IF row \in G THEN p ELSE q.plan[row]]
  BY <1>2
<1> DEFINE n == [q EXCEPT !.pc = "next", !.todo = @ \ G, !.party = P!NoName, !.age = 0, !.plan = f]
<1>4. /\ n \in Busy /\ n.pc = "next" /\ n.kind = q.kind /\ n.corpus = q.corpus /\ n.party = P!NoName
      /\ n.todo = q.todo \ G /\ n.plan = f /\ n.near = q.near
  BY Zeros DEF Busy
<1>5. P!Planned(q, p) = n
  BY <1>1, <1>3 DEF P!Planned
<1> HIDE DEF n
<1> QED
  BY <1>1, <1>3, <1>4, <1>5

\* A request that goes on with its group planned for a party, by a close match or not.
Plans(q, p, n) ==
  /\ n \in Busy /\ n.pc = "next" /\ n.kind = q.kind /\ n.corpus = q.corpus /\ n.party = P!NoName
  /\ n.todo = q.todo \ P!GroupOf(q) /\ n.near \subseteq q.near \cup P!GroupOf(q)
  /\ n.plan = [row \in Rows |-> IF row \in P!GroupOf(q) THEN p ELSE q.plan[row]]

LEMMA GroupRows ==
  ASSUME MappingParameters, NEW q \in Busy
  PROVE  P!GroupOf(q) \subseteq Rows /\ P!RawNames(q) \subseteq Names
  BY DEF P!GroupOf, P!RawNames, Busy, MappingParameters

LEMMA PlannedPlans ==
  ASSUME MappingParameters, NEW q \in Busy, NEW p \in Names
  PROVE  /\ P!Planned(q, p) \in Busy /\ Plans(q, p, P!Planned(q, p))
         /\ [P!Planned(q, p) EXCEPT !.near = @ \cup P!GroupOf(q)] \in Busy
         /\ Plans(q, p, [P!Planned(q, p) EXCEPT !.near = @ \cup P!GroupOf(q)])
<1>1. PICK n \in Busy : n = P!Planned(q, p)
  BY PlannedIs
<1>2. PICK G \in SUBSET Rows : G = P!GroupOf(q)
  BY GroupRows
<1>3. Plans(q, p, n)
  BY <1>1, PlannedIs DEF Plans
<1> DEFINE m == [n EXCEPT !.near = @ \cup G]
<1>4. /\ m \in Busy /\ m.pc = n.pc /\ m.kind = n.kind /\ m.corpus = n.corpus /\ m.party = n.party
      /\ m.todo = n.todo /\ m.near = n.near \cup G /\ m.plan = n.plan
  BY DEF Busy
<1> HIDE DEF m
<1>5. Plans(q, p, m)
  BY <1>2, <1>3, <1>4 DEF Plans
<1> QED
  BY <1>1, <1>2, <1>3, <1>4, <1>5 DEF m

\* A group is planned for a party on file, or its party is to be created: none has a name
\* that the corpus matches.
LEMMA GroupPlanned ==
  ASSUME MappingParameters, MapInv, Grounded, NEW r \in MapReqs, P!BulkGroup(r)
  PROVE  /\ mapReq[r] \in Busy /\ mapReq[r].todo # {} /\ mapReq[r].kind = "bulk"
         /\ UNCHANGED P!tables /\ cache' = cache
         /\ \/ \E p \in parties, n \in Busy : P!Goto(r, n) /\ Plans(mapReq[r], p, n)
            \/ /\ P!Goto(r, [mapReq[r] EXCEPT !.pc = "create"])
               /\ NameOf[P!Min(mapReq[r].todo)] \notin parties
               /\ P!ExactMatches(mapReq[r].corpus, NameOf[P!Min(mapReq[r].todo)]) = {}
<1>1. PICK q \in Busy : q = mapReq[r] /\ q.corpus.parties \subseteq parties /\ q.todo # {}
  BY MapFields DEF P!BulkGroup, P!At, Grounded, Sound, P!Idle
<1>2. PICK name \in Names : name = NameOf[P!Min(q.todo)]
  BY <1>1, FirstRow
<1>3. q.corpus.parties \in SUBSET Names
  BY <1>1 DEF MapInv, TablesTyped
<1>4. ASSUME NEW p \in parties,
             \/ P!Goto(r, P!Planned(q, p))
             \/ P!Goto(r, [P!Planned(q, p) EXCEPT !.near = @ \cup P!GroupOf(q)])
      PROVE  \E x \in parties, n \in Busy : P!Goto(r, n) /\ Plans(q, x, n)
  <2>1. p \in Names
    BY DEF MapInv, TablesTyped
  <2>2. PICK n \in Busy : P!Goto(r, n) /\ Plans(q, p, n)
    BY <1>4, <2>1, PlannedPlans
  <2> QED
    BY <2>2
<1>5. ASSUME P!ExactMatches(q.corpus, name) # {}, P!Goto(r, P!Planned(q, P!Exact(q.corpus, name)))
      PROVE  \E x \in parties, n \in Busy : P!Goto(r, n) /\ Plans(q, x, n)
  <2>1. P!ExactMatches(q.corpus, name) \in SUBSET Names /\ P!ExactMatches(q.corpus, name) \subseteq parties
    BY <1>1, <1>3 DEF P!ExactMatches
  <2>2. P!Exact(q.corpus, name) \in parties
    BY <1>5, <2>1, LowestOf DEF P!Exact
  <2>3. PICK p \in parties : p = P!Exact(q.corpus, name)
    BY <2>2
  <2>4. P!Goto(r, P!Planned(q, p))
    BY <1>5, <2>3
  <2> QED
    BY <1>4, <2>4
<1>6. ASSUME NEW p \in P!FuzzyMatches(q.corpus, name),
             P!Goto(r, [P!Planned(q, p) EXCEPT !.near = @ \cup P!GroupOf(q)])
      PROVE  \E x \in parties, n \in Busy : P!Goto(r, n) /\ Plans(q, x, n)
  <2>1. p \in parties
    BY <1>1 DEF P!FuzzyMatches
  <2> QED
    BY <1>4, <1>6, <2>1
<1>7. ASSUME NEW p \in P!Known(name, P!RawNames(q)), P!Goto(r, P!Planned(q, p))
      PROVE  \E x \in parties, n \in Busy : P!Goto(r, n) /\ Plans(q, x, n)
  <2>1. p \in parties
    BY DEF P!Known
  <2> QED
    BY <1>4, <1>7, <2>1
<1>8. ASSUME P!TopMatches(q.corpus, name) = {}, P!Known(name, P!RawNames(q)) = {}
      PROVE  name \notin parties /\ P!ExactMatches(q.corpus, name) = {}
  BY <1>2, <1>8 DEF P!Known, P!TopMatches
<1>9. \/ P!ExactMatches(q.corpus, name) # {} /\ P!Goto(r, P!Planned(q, P!Exact(q.corpus, name)))
      \/ \E p \in P!FuzzyMatches(q.corpus, name) :
           P!Goto(r, [P!Planned(q, p) EXCEPT !.near = @ \cup P!GroupOf(q)])
      \/ \E p \in P!Known(name, P!RawNames(q)) : P!Goto(r, P!Planned(q, p))
      \/ /\ P!TopMatches(q.corpus, name) = {} /\ P!Known(name, P!RawNames(q)) = {}
         /\ P!Goto(r, [q EXCEPT !.pc = "create"])
  BY <1>1, <1>2 DEF P!BulkGroup
<1>10. q.kind = "bulk" /\ UNCHANGED P!tables /\ cache' = cache
  BY <1>1 DEF P!BulkGroup
<1> QED
  BY <1>1, <1>2, <1>5, <1>6, <1>7, <1>8, <1>9, <1>10

LEMMA BulkGroupKeepsMap ==
  ASSUME MappingParameters, MapInv, Grounded, NEW r \in MapReqs, P!BulkGroup(r) PROVE MapInv'
<1>1. PICK q \in Busy : q = mapReq[r] /\ q.todo # {} /\ q.kind = "bulk"
  BY GroupPlanned
<1>2. UNCHANGED cache /\ TablesTyped'
  BY GroupPlanned, TablesStay
<1>3. ASSUME NEW p \in parties, NEW n, P!Goto(r, n), Plans(q, p, n) PROVE MapInv'
  <2>1. n \in Busy /\ n.pc = "next" /\ n.kind = "bulk"
    BY <1>1, <1>3 DEF Plans
  <2>2. AtWork(n)
    BY <2>1 DEF AtWork
  <2> QED
    BY <1>2, <1>3, <2>1, <2>2, MapMoves
<1>4. CASE P!Goto(r, [q EXCEPT !.pc = "create"])
  <2> DEFINE n == [q EXCEPT !.pc = "create"]
  <2>1. n \in Busy /\ n.pc = "create" /\ n.kind = "bulk" /\ n.todo # {}
    BY <1>1 DEF Busy
  <2>2. P!Goto(r, n)
    BY <1>4
  <2> HIDE DEF n
  <2>3. AtWork(n)
    BY <2>1 DEF AtWork
  <2> QED
    BY <1>2, <2>1, <2>2, <2>3, MapMoves
<1> QED
  BY <1>1, <1>3, <1>4, GroupPlanned

\* The party of a group is created, unless its name is taken.
LEMMA GroupCreated ==
  ASSUME MappingParameters, MapInv, NEW r \in MapReqs, P!BulkCreate(r)
  PROVE  /\ mapReq[r] \in Busy /\ mapReq[r].todo # {} /\ mapReq[r].kind = "bulk"
         /\ aliases' = aliases /\ chosen' = chosen /\ cache' = cache
         /\ \E n \in Names :
              /\ n = NameOf[P!Min(mapReq[r].todo)]
              /\ \/ n \in parties /\ P!End(r) /\ parties' = parties
                 \/ /\ n \notin parties
                    /\ parties' = parties \cup {n}
                    /\ P!Goto(r, [mapReq[r] EXCEPT !.pc = "alias", !.party = n])
<1>1. PICK q \in Busy : q = mapReq[r] /\ q.todo # {} /\ q.kind = "bulk"
  BY MapFields DEF P!BulkCreate, P!At, AtWork
<1>2. PICK n \in Names : n = NameOf[P!Min(q.todo)]
  BY <1>1, FirstRow
<1> QED
  BY <1>1, <1>2 DEF P!BulkCreate

\* The request with its party.
LEMMA CreatedIs ==
  ASSUME NEW q \in Busy, NEW p \in Names
  PROVE  LET n == [q EXCEPT !.pc = "alias", !.party = p] IN
         /\ n \in Busy /\ n.pc = "alias" /\ n.party = p /\ n.kind = q.kind /\ n.todo = q.todo
         /\ n.plan = q.plan /\ n.near = q.near /\ n.corpus = q.corpus
  BY DEF Busy

LEMMA BulkCreateKeepsMap ==
  ASSUME MappingParameters, MapInv, NEW r \in MapReqs, P!BulkCreate(r)
  PROVE  MapInv' /\ parties \subseteq parties'
<1>1. PICK q \in Busy : q = mapReq[r] /\ q.kind = "bulk" /\ q.todo # {}
  BY GroupCreated
<1>2. PICK p \in Names :
        \/ P!End(r) /\ parties' = parties
        \/ parties' = parties \cup {p} /\ P!Goto(r, [q EXCEPT !.pc = "alias", !.party = p])
  BY <1>1, GroupCreated
<1>3. UNCHANGED cache /\ chosen' = chosen /\ aliases' = aliases
  BY GroupCreated
<1>4. TablesTyped' /\ parties \subseteq parties'
  BY <1>2, <1>3 DEF MapInv, TablesTyped
<1>5. CASE P!End(r)
  BY <1>3, <1>4, <1>5, MapEnds, CacheStays
<1>6. CASE P!Goto(r, [q EXCEPT !.pc = "alias", !.party = p])
  <2>1. PICK n : n = [q EXCEPT !.pc = "alias", !.party = p]
    OBVIOUS
  <2>2. n \in Busy /\ n.pc = "alias" /\ n.kind = "bulk" /\ n.todo # {}
    BY <1>1, <2>1, CreatedIs
  <2>3. AtWork(n)
    BY <2>2 DEF AtWork
  <2> QED
    BY <1>3, <1>4, <1>6, <2>1, <2>2, <2>3, MapMoves
<1> QED
  BY <1>2, <1>5, <1>6

\* The new party gets the names of its group.
LEMMA GroupNamed ==
  ASSUME MappingParameters, MapInv, Grounded, NEW r \in MapReqs, P!BulkAlias(r)
  PROVE  /\ mapReq[r] \in Busy /\ mapReq[r].pc = "alias"
         /\ mapReq[r].todo # {} /\ mapReq[r].kind = "bulk"
         /\ parties' = parties /\ chosen' = chosen /\ cache' = cache
         /\ TablesTyped'
         /\ \E p \in parties, n \in Busy : P!Goto(r, n) /\ Plans(mapReq[r], p, n)
<1>1. PICK q \in Busy : q = mapReq[r] /\ q.todo # {} /\ q.kind = "bulk" /\ q.pc = "alias"
  BY MapFields DEF P!BulkAlias, P!At, AtWork
<1>2. PICK p \in parties : p = q.party
  BY <1>1 DEF Grounded, Sound, P!Idle
<1>3. p \in Names
  BY DEF MapInv, TablesTyped
<1>4. /\ aliases' = aliases \cup (P!RawNames(q) \X {p}) /\ P!Goto(r, P!Planned(q, p))
      /\ parties' = parties /\ chosen' = chosen /\ cache' = cache
  BY <1>1, <1>2 DEF P!BulkAlias
<1>5. TablesTyped'
  BY <1>4, GroupRows DEF MapInv, TablesTyped
<1>6. PICK n \in Busy : P!Goto(r, n) /\ Plans(q, p, n)
  BY <1>3, <1>4, PlannedPlans
<1> QED
  BY <1>1, <1>4, <1>5, <1>6

LEMMA BulkAliasKeepsMap ==
  ASSUME MappingParameters, MapInv, Grounded, NEW r \in MapReqs, P!BulkAlias(r) PROVE MapInv'
<1>1. PICK q \in Busy : q = mapReq[r] /\ q.kind = "bulk"
  BY GroupNamed
<1>2. PICK p \in parties, n \in Busy : P!Goto(r, n) /\ Plans(q, p, n)
  BY <1>1, GroupNamed
<1>3. n \in Busy /\ n.pc = "next" /\ n.kind = "bulk"
  BY <1>1, <1>2 DEF Plans
<1>4. AtWork(n)
  BY <1>3 DEF AtWork
<1>5. UNCHANGED cache /\ TablesTyped'
  BY GroupNamed
<1> QED
  BY <1>2, <1>3, <1>4, <1>5, MapMoves

\* Names that are close to a party become its aliases.
LEMMA CloseAliased ==
  ASSUME MappingParameters, MapInv, Grounded, NEW r \in MapReqs, P!BulkClose(r)
  PROVE  /\ mapReq[r] \in Busy /\ mapReq[r].pc = "next" /\ mapReq[r].kind = "bulk"
         /\ parties' = parties /\ chosen' = chosen /\ cache' = cache
         /\ TablesTyped'
         /\ \E n \in Busy :
              /\ P!Goto(r, n) /\ n.pc = "next" /\ n.kind = "bulk" /\ n.todo = mapReq[r].todo
              /\ n.plan = mapReq[r].plan /\ n.near \subseteq mapReq[r].near
              /\ n.corpus = mapReq[r].corpus /\ n.party = mapReq[r].party
<1>1. PICK q \in Busy : q = mapReq[r] /\ q.kind = "bulk" /\ q.pc = "next"
  BY MapFields DEF P!BulkClose, P!At
<1>2. PICK group \in SUBSET Rows :
        group = {row \in q.near : Stem[NameOf[row]] = Stem[NameOf[P!Min(q.near)]]}
  BY DEF Busy
<1>3. /\ aliases' = aliases \cup {<<NameOf[row], q.plan[row]>> : row \in group}
      /\ P!Goto(r, [q EXCEPT !.near = @ \ group, !.age = 0])
      /\ parties' = parties /\ chosen' = chosen /\ cache' = cache
  BY <1>1, <1>2 DEF P!BulkClose
<1>4. \A row \in group : NameOf[row] \in Names /\ q.plan[row] \in parties
  BY <1>1, <1>2 DEF Grounded, Sound, P!Idle, MappingParameters
<1>5. TablesTyped'
  BY <1>3, <1>4 DEF MapInv, TablesTyped
<1> DEFINE n == [q EXCEPT !.near = @ \ group, !.age = 0]
<1>6. /\ n \in Busy /\ n.pc = "next" /\ n.kind = "bulk" /\ n.todo = q.todo
      /\ n.plan = q.plan /\ n.near \subseteq q.near /\ n.corpus = q.corpus /\ n.party = q.party
  BY <1>1, Zeros DEF Busy
<1> QED
  BY <1>1, <1>3, <1>5, <1>6

LEMMA BulkCloseKeepsMap ==
  ASSUME MappingParameters, MapInv, Grounded, NEW r \in MapReqs, P!BulkClose(r) PROVE MapInv'
<1>1. PICK n \in Busy : P!Goto(r, n) /\ n.pc = "next" /\ n.kind = "bulk"
  BY CloseAliased
<1>2. AtWork(n)
  BY <1>1 DEF AtWork
<1>3. UNCHANGED cache /\ TablesTyped'
  BY CloseAliased
<1> QED
  BY <1>1, <1>2, <1>3, MapMoves

LEMMA FailKeepsMap == ASSUME MapInv, NEW r \in MapReqs, P!Fail(r) PROVE MapInv'
  BY MapEnds, CacheStays, TablesStay DEF P!Fail

LEMMA BulkCommitKeepsMap ==
  ASSUME MappingParameters, MapInv, NEW r \in MapReqs, P!BulkCommit(r) PROVE MapInv'
<1>1. PICK q \in Busy : q = mapReq[r]
  BY MapFields DEF P!BulkCommit, P!At
<1>2. PICK N \in [Rows -> Names \cup {P!NoName}] : N = P!NoPlan
  BY DEF P!NoPlan
<1> DEFINE d == [q EXCEPT !.pc = "drop", !.kind = "view", !.plan = N, !.age = 0]
<1>3. d \in Busy /\ d.pc = "drop"
  BY Zeros DEF Busy
<1>4. (P!End(r) \/ P!Goto(r, d)) /\ UNCHANGED cache /\ parties' = parties /\ aliases' = aliases
      /\ chosen' = [row \in Rows |-> IF q.plan[row] # P!NoName THEN q.plan[row] ELSE chosen[row]]
  BY <1>1, <1>2 DEF P!BulkCommit
<1> HIDE DEF d
<1>5. q.plan \in [Rows -> Names \cup {P!NoName}]
  BY DEF Busy
<1>6. TablesTyped'
  BY <1>4, <1>5 DEF MapInv, TablesTyped
<1>7. AtWork(d)
  BY <1>3 DEF AtWork
<1> QED
  BY <1>3, <1>4, <1>6, <1>7, MapEnds, MapMoves, CacheStays

LEMMA EditKeepsMap == ASSUME MapInv, P!EditAliases PROVE MapInv'
<1>1. aliases \in SUBSET (Names \X parties)
  BY DEF MapInv, TablesTyped
<1>2. aliases' \in SUBSET (Names \X parties)
  <2>1. CASE P!CreateAlias
    BY <1>1, <2>1 DEF P!CreateAlias, MapInv, TablesTyped
  <2>2. CASE P!PatchAlias
    <3>1. PICK a \in aliases, t \in Names : aliases' = (aliases \ {a}) \cup {<<t, a[2]>>}
      BY <2>2 DEF P!PatchAlias
    <3>2. <<t, a[2]>> \in Names \X parties
      BY <1>1
    <3> QED
      BY <1>1, <3>1, <3>2
  <2>3. CASE P!DeleteAlias
    BY <1>1, <2>3 DEF P!DeleteAlias
  <2> QED
    BY <2>1, <2>2, <2>3 DEF P!EditAliases
<1> QED
  BY <1>2, CacheStays DEF P!EditAliases, MapInv, TablesTyped

-----------------------------------------------------------------------------
(* What is known of parties stays true *)

LEMMA GroundGoesOn ==
  ASSUME MapInv, Grounded, NEW r \in MapReqs, NEW q, P!Goto(r, q), Sound(q, parties'),
         parties \subseteq parties', UNCHANGED cache
  PROVE  Grounded'
<1>1. ASSUME NEW s \in MapReqs PROVE Sound(mapReq'[s], parties')
  <2>1. mapReq'[s] = q \/ mapReq'[s] = mapReq[s]
    BY DEF P!Goto, MapInv
  <2>2. Sound(mapReq[s], parties')
    BY DEF Grounded, Sound
  <2> QED
    BY <2>1, <2>2
<1>2. \A p \in Procs : cache'[p] # Cold => cache'[p].corpus.parties \subseteq parties'
  BY DEF Grounded
<1> QED
  BY <1>1, <1>2 DEF Grounded

LEMMA GroundEnds ==
  ASSUME MapInv, Grounded, NEW r \in MapReqs, P!End(r), parties \subseteq parties', UNCHANGED cache
  PROVE  Grounded'
<1>1. Sound(P!Idle, parties')
  BY DEF Sound
<1> QED
  BY <1>1, GroundGoesOn DEF P!End

\* A request that goes on with the corpus, the party and the plan it has.
LEMMA GroundKeeps ==
  ASSUME MapInv, Grounded, NEW r \in MapReqs, ~P!At(r, "idle"), NEW q, P!Goto(r, q),
         q.corpus = mapReq[r].corpus, q.party \in {mapReq[r].party, P!NoName}, q.pc # "alias",
         q.plan = mapReq[r].plan, q.near \subseteq mapReq[r].near,
         parties \subseteq parties', UNCHANGED cache
  PROVE  Grounded'
<1>1. Sound(q, parties')
  BY DEF Grounded, Sound, P!At, P!Idle
<1> QED
  BY <1>1, GroundGoesOn

LEMMA StartSound ==
  ASSUME MapInv, Grounded, NEW r \in MapReqs, MappingParameters, NEW kind, NEW todo
  PROVE  /\ Sound(P!Start(kind, todo), parties) /\ Sound(P!Asking(r, P!Start(kind, todo)), parties)
         /\ Sound([P!Start(kind, todo) EXCEPT !.pc = "drop"], parties)
<1>1. PICK q : q = P!Start(kind, todo)
  OBVIOUS
<1>2. q.corpus.parties = {} /\ q.party = P!NoName /\ q.near = {} /\ q.pc = "load"
  BY <1>1 DEF P!Start
<1>3. Sound(q, parties)
  BY <1>2 DEF Sound
<1>4. PICK f : q = [pc |-> "load", kind |-> kind, todo |-> todo, party |-> P!NoName, plan |-> f,
        near |-> {}, age |-> 0, lag |-> 0, corpus |-> [parties |-> {}, aliases |-> {}]]
  BY <1>1 DEF P!Start
<1>5. Sound([q EXCEPT !.pc = "drop"], parties)
  BY <1>2, <1>4 DEF Sound
<1>6. Sound(P!Asking(r, q), parties)
  <2>1. PICK e : e = cache[ProcOf[r]]
    OBVIOUS
  <2>2. CASE e # Cold /\ e.age < TTL
    <3>1. e.corpus.parties \subseteq parties
      BY <2>1, <2>2 DEF Grounded, MappingParameters
    <3>2. P!Asking(r, q) = [q EXCEPT !.pc = "got", !.age = 0, !.lag = e.lag, !.corpus = e.corpus]
      BY <2>1, <2>2 DEF P!Asking
    <3>3. PICK a : a = P!Asking(r, q)
      OBVIOUS
    <3>4. a.corpus = e.corpus /\ a.party = P!NoName /\ a.near = {} /\ a.pc = "got"
      BY <1>4, <3>2, <3>3
    <3> QED
      BY <3>1, <3>3, <3>4 DEF Sound
  <2>3. CASE ~(e # Cold /\ e.age < TTL)
    <3>1. P!Asking(r, q) = [q EXCEPT !.pc = "load", !.age = 0, !.lag = 0]
      BY <2>1, <2>3 DEF P!Asking
    <3>2. PICK a : a = P!Asking(r, q)
      OBVIOUS
    <3>3. a.corpus.parties = {} /\ a.party = P!NoName /\ a.near = {} /\ a.pc = "load"
      BY <1>4, <3>1, <3>2
    <3> QED
      BY <3>2, <3>3 DEF Sound
  <2> QED
    BY <2>2, <2>3
<1> QED
  BY <1>1, <1>3, <1>5, <1>6

LEMMA ReadGrounds ==
  ASSUME MappingParameters, MapInv, Grounded, NEW r \in MapReqs, P!ReadCorpus(r) PROVE Grounded'
<1>1. PICK old \in Busy : old = mapReq[r]
  BY MapFields DEF P!ReadCorpus, P!At
<1>2. PICK c : c = P!Current
  OBVIOUS
<1> DEFINE q == [old EXCEPT !.pc = "fill", !.lag = 0, !.corpus = c]
<1>3. q.corpus = c /\ q.party = old.party /\ q.near = old.near /\ q.plan = old.plan /\ q.pc = "fill"
  BY DEF Busy
<1>4. c.parties = parties
  BY <1>2 DEF P!Current
<1>5. P!Goto(r, q) /\ parties' = parties /\ UNCHANGED cache
  BY <1>1, <1>2 DEF P!ReadCorpus, P!tables
<1>6. old # P!Idle
  BY <1>1 DEF P!ReadCorpus, P!At, P!Idle
<1> HIDE DEF q
<1>7. Sound(q, parties')
  BY <1>1, <1>3, <1>4, <1>5, <1>6 DEF Sound, Grounded
<1> QED
  BY <1>5, <1>7, GroundGoesOn

LEMMA FillGrounds ==
  ASSUME MappingParameters, MapInv, Grounded, NEW r \in MapReqs, P!Fill(r) PROVE Grounded'
<1>1. PICK old \in Busy : old = mapReq[r] /\ old # P!Idle
  BY MapFields DEF P!Fill, P!At, P!Idle
<1>2. parties' = parties
  BY DEF P!Fill, P!tables
<1>3. /\ old.corpus.parties \subseteq parties /\ old.party \in parties \cup {P!NoName}
      /\ \A row \in old.near : old.plan[row] \in parties
  BY <1>1 DEF Grounded, Sound
<1>4. ASSUME NEW s \in MapReqs PROVE Sound(mapReq'[s], parties')
  <2>1. CASE s = r
    <3>1. PICK q : q = mapReq'[s]
      OBVIOUS
    <3>2. q = [old EXCEPT !.pc = "got"]
      BY <1>1, <2>1, <3>1 DEF P!Fill, P!Goto, MapInv
    <3>3. /\ q.corpus = old.corpus /\ q.party = old.party /\ q.near = old.near /\ q.plan = old.plan
          /\ q.pc # "alias"
      BY <3>2 DEF Busy
    <3> QED
      BY <1>2, <1>3, <3>1, <3>3 DEF Sound
  <2>2. CASE s # r
    BY <1>2, <2>2 DEF P!Fill, P!Goto, MapInv, Grounded, Sound
  <2> QED
    BY <2>1, <2>2
<1>5. ASSUME NEW p \in Procs, cache'[p] # Cold PROVE cache'[p].corpus.parties \subseteq parties'
  <2>1. cache'[p] = cache[p] \/ cache'[p].corpus = old.corpus
    BY <1>1 DEF P!Fill, MapInv
  <2> QED
    BY <1>2, <1>3, <1>5, <2>1 DEF Grounded, P!Fill, MapInv
<1> QED
  BY <1>4, <1>5 DEF Grounded

LEMMA DropGrounds ==
  ASSUME MappingParameters, MapInv, Grounded, NEW r \in MapReqs, P!DropCorpus(r) PROVE Grounded'
<1>1. PICK old \in Busy : old = mapReq[r] /\ old # P!Idle
  BY MapFields DEF P!DropCorpus, P!At, P!Idle
<1>2. parties' = parties
  BY DEF P!DropCorpus, P!tables
<1>3. ASSUME NEW s \in MapReqs PROVE Sound(mapReq'[s], parties')
  <2>1. CASE s = r
    <3>1. PICK q : q = mapReq'[s]
      OBVIOUS
    <3>2. q = [old EXCEPT !.pc = "load", !.age = 0, !.lag = 0]
      BY <1>1, <2>1, <3>1 DEF P!DropCorpus, P!Goto, MapInv
    <3>3. /\ q.corpus = old.corpus /\ q.party = old.party /\ q.near = old.near /\ q.plan = old.plan
          /\ q.pc # "alias"
      BY <3>2 DEF Busy
    <3> QED
      BY <1>1, <1>2, <3>1, <3>3 DEF Sound, Grounded
  <2>2. CASE s # r
    BY <1>2, <2>2 DEF P!DropCorpus, P!Goto, MapInv, Grounded, Sound
  <2> QED
    BY <2>1, <2>2
<1>4. \A p \in Procs : cache'[p] # Cold => cache'[p].corpus.parties \subseteq parties'
  BY <1>2 DEF P!DropCorpus, MapInv, Grounded
<1> QED
  BY <1>3, <1>4 DEF Grounded

LEMMA CrashGrounds ==
  ASSUME MapInv, Grounded, NEW p \in Procs, P!Crash(p) PROVE Grounded'
<1>1. parties' = parties
  BY DEF P!Crash, P!tables
<1>2. \A s \in MapReqs : Sound(mapReq'[s], parties')
  BY <1>1 DEF P!Crash, Grounded, Sound
<1>3. \A x \in Procs : cache'[x] # Cold => cache'[x].corpus.parties \subseteq parties'
  BY <1>1 DEF P!Crash, Grounded, MapInv
<1> QED
  BY <1>2, <1>3 DEF Grounded

LEMMA TickGrounds == ASSUME MapInv, Grounded, P!Tick PROVE Grounded'
<1>1. parties' = parties
  BY DEF P!Tick, P!tables
<1>2. ASSUME NEW s \in MapReqs PROVE Sound(mapReq'[s], parties')
  <2>1. CASE mapReq[s] = P!Idle
    BY <2>1 DEF P!Tick, Sound
  <2>2. CASE mapReq[s] # P!Idle
    <3>1. PICK old \in Busy : old = mapReq[s]
      BY <2>2, RequestsAre DEF MapInv
    <3>2. PICK q : q = mapReq'[s]
      OBVIOUS
    <3>3. PICK l : q = [old EXCEPT !.age = @ + 1, !.lag = l]
      BY <2>2, <3>1, <3>2 DEF P!Tick
    <3>4. /\ q.corpus = old.corpus /\ q.party = old.party /\ q.near = old.near /\ q.plan = old.plan
          /\ q.pc = old.pc
      BY <3>3 DEF Busy
    <3> QED
      BY <1>1, <2>2, <3>1, <3>2, <3>4 DEF Sound, Grounded
  <2> QED
    BY <2>1, <2>2
<1>3. ASSUME NEW p \in Procs, cache'[p] # Cold PROVE cache'[p].corpus.parties \subseteq parties'
  <2>1. cache[p] # Cold
    BY <1>3 DEF P!Tick
  <2>2. PICK e \in P!Entry : e = cache[p]
    BY <2>1 DEF MapInv
  <2>3. PICK a, l : cache'[p] = [e EXCEPT !.age = a, !.lag = l]
    BY <2>1, <2>2 DEF P!Tick
  <2>4. cache'[p].corpus = e.corpus
    BY <2>3 DEF P!Entry
  <2> QED
    BY <1>1, <2>1, <2>2, <2>4 DEF Grounded
<1> QED
  BY <1>2, <1>3 DEF Grounded

LEMMA BeginGrounds ==
  ASSUME MappingParameters, MapInv, Grounded, NEW r \in MapReqs, NEW kind, P!Begin(r, kind)
  PROVE  Grounded'
<1>1. parties' = parties
  BY DEF P!Begin, P!tables
<1>2. PICK todo \in SUBSET Rows : P!Goto(r, P!Asking(r, P!Start(kind, todo)))
  BY BeginStarts
<1>3. Sound(P!Asking(r, P!Start(kind, todo)), parties')
  BY <1>1, StartSound
<1> QED
  BY <1>1, <1>2, <1>3, GroundGoesOn DEF P!Begin

LEMMA CommittedGrounds ==
  ASSUME MapInv, Grounded, NEW r \in MapReqs, NEW q, P!Committed(r, q),
         Sound([q EXCEPT !.pc = "drop"], parties), parties \subseteq parties', UNCHANGED cache
  PROVE  Grounded'
<1>1. CASE P!End(r)
  BY <1>1, GroundEnds
<1>2. CASE P!Goto(r, [q EXCEPT !.pc = "drop"])
  <2>1. Sound([q EXCEPT !.pc = "drop"], parties')
    BY DEF Sound
  <2> QED
    BY <1>2, <2>1, GroundGoesOn
<1> QED
  BY <1>1, <1>2 DEF P!Committed

LEMMA PatchGrounds ==
  ASSUME MappingParameters, MapInv, Grounded, NEW r \in MapReqs, NEW row \in Rows, P!Patch(r, row)
  PROVE  Grounded'
<1>1. UNCHANGED cache /\ Sound([P!Start("view", {}) EXCEPT !.pc = "drop"], parties)
      /\ Sound(P!Asking(r, P!Start("view", {})), parties)
  BY StartSound DEF P!Patch
<1>2. ASSUME NEW p \in parties, P!ResolveRow(row, p), P!Committed(r, P!Start("view", {})) PROVE Grounded'
  BY <1>1, <1>2, ResolveTyped, CommittedGrounds
<1>3. ASSUME NEW n \in Names, P!CreateParty(row, n), P!Committed(r, P!Start("view", {})) PROVE Grounded'
  BY <1>1, <1>3, CreateTyped, CommittedGrounds
<1>4. ASSUME UNCHANGED <<parties, aliases>>, P!Goto(r, P!Asking(r, P!Start("view", {}))) PROVE Grounded'
  BY <1>1, <1>4, GroundGoesOn
<1> QED
  BY <1>2, <1>3, <1>4 DEF P!Patch

LEMMA AutoRowsGrounds ==
  ASSUME MapInv, Grounded, NEW r \in MapReqs, P!AutoRows(r) PROVE Grounded'
<1>1. PICK old \in Busy : old = mapReq[r] /\ ~P!At(r, "idle")
  BY MapFields DEF P!AutoRows, P!At
<1>2. parties' = parties /\ UNCHANGED cache
  BY DEF P!AutoRows, P!tables
<1>3. PICK t : P!End(r) \/ P!Goto(r, [old EXCEPT !.pc = "next", !.kind = "each", !.todo = t, !.age = 0])
  BY <1>1 DEF P!AutoRows
<1> DEFINE q == [old EXCEPT !.pc = "next", !.kind = "each", !.todo = t, !.age = 0]
<1>4. /\ q.corpus = old.corpus /\ q.party = old.party /\ q.near = old.near /\ q.plan = old.plan
      /\ q.pc = "next"
  BY DEF Busy
<1> HIDE DEF q
<1> QED
  BY <1>1, <1>2, <1>3, <1>4, GroundEnds, GroundKeeps DEF q

LEMMA AutoLookupGrounds ==
  ASSUME MapInv, Grounded, NEW r \in MapReqs, P!AutoLookup(r), MappingParameters PROVE Grounded'
<1>1. PICK old \in Busy : old = mapReq[r] /\ old # P!Idle
  BY MapFields DEF P!AutoLookup, P!At, P!Idle
<1>2. parties' = parties /\ UNCHANGED cache
  BY DEF P!AutoLookup, P!tables
<1>3. PICK n : n = NameOf[P!Min(old.todo)]
  OBVIOUS
<1>4. PICK found : found = IF P!Known(n, {n}) = {} THEN P!NoName ELSE P!Min(P!Known(n, {n}))
  OBVIOUS
<1>5. found \in parties \cup {P!NoName}
  <2>1. P!Known(n, {n}) \subseteq parties /\ P!Known(n, {n}) \in SUBSET Names
    BY DEF P!Known, MapInv, TablesTyped
  <2> QED
    BY <1>4, <2>1, LowestOf
<1> DEFINE q == [old EXCEPT !.pc = "patch", !.party = found]
<1>6. /\ q.corpus = old.corpus /\ q.party = found /\ q.near = old.near /\ q.plan = old.plan
      /\ q.pc = "patch"
  BY DEF Busy
<1>7. P!Goto(r, q)
  BY <1>1, <1>3, <1>4 DEF P!AutoLookup
<1> HIDE DEF q
<1>8. Sound(q, parties')
  BY <1>1, <1>2, <1>5, <1>6 DEF Sound, Grounded
<1> QED
  BY <1>2, <1>7, <1>8, GroundGoesOn

LEMMA AutoPatchGrounds ==
  ASSUME MappingParameters, MapInv, Grounded, NEW r \in MapReqs, P!AutoPatch(r) PROVE Grounded'
<1>1. PICK old \in Busy : old = mapReq[r] /\ old # P!Idle
  BY MapFields DEF P!AutoPatch, P!At, P!Idle
<1>2. parties \subseteq parties' /\ UNCHANGED cache
  BY AutoPatchKeepsMap DEF P!AutoPatch
<1>3. PICK t : P!Committed(r, [old EXCEPT !.todo = t, !.age = 0])
  BY <1>1 DEF P!AutoPatch, Busy
<1> DEFINE q == [old EXCEPT !.todo = t, !.age = 0]
           d == [q EXCEPT !.pc = "drop"]
<1>4. /\ d.corpus = old.corpus /\ d.party = old.party /\ d.near = old.near /\ d.plan = old.plan
      /\ d.pc = "drop"
  BY DEF Busy
<1>5. Sound(d, parties)
  <2> HIDE DEF d
  <2> QED
    BY <1>1, <1>4 DEF Sound, Grounded
<1> QED
  BY <1>2, <1>3, <1>5, CommittedGrounds

\* A group planned for a party on file.
LEMMA PlansGround ==
  ASSUME MappingParameters, MapInv, Grounded, NEW r \in MapReqs, NEW old \in Busy, old = mapReq[r],
         NEW p \in parties, NEW n, P!Goto(r, n), Plans(old, p, n),
         parties' = parties, UNCHANGED cache
  PROVE  Grounded'
<1>1. old # P!Idle
  BY DEF Busy, P!Idle
<1>2. old.corpus.parties \subseteq parties /\ \A row \in old.near : old.plan[row] \in parties
  BY <1>1 DEF Grounded, Sound
<1>3. P!GroupOf(old) \subseteq Rows /\ old.near \subseteq Rows
  BY GroupRows DEF Busy
<1>4. \A row \in n.near : n.plan[row] \in parties
  BY <1>2, <1>3 DEF Plans
<1>5. Sound(n, parties')
  BY <1>2, <1>4 DEF Sound, Plans
<1> QED
  BY <1>5, GroundGoesOn

LEMMA BulkGroupGrounds ==
  ASSUME MappingParameters, MapInv, Grounded, NEW r \in MapReqs, P!BulkGroup(r) PROVE Grounded'
<1>1. PICK old \in Busy : old = mapReq[r] /\ ~P!At(r, "idle")
  BY GroupPlanned DEF P!BulkGroup, P!At
<1>2. parties' = parties /\ UNCHANGED cache
  BY GroupPlanned DEF P!tables
<1>3. ASSUME NEW p \in parties, NEW n, P!Goto(r, n), Plans(old, p, n) PROVE Grounded'
  BY <1>1, <1>2, <1>3, PlansGround
<1>4. CASE P!Goto(r, [old EXCEPT !.pc = "create"])
  <2> DEFINE q == [old EXCEPT !.pc = "create"]
  <2>1. /\ q.corpus = old.corpus /\ q.party = old.party /\ q.near = old.near /\ q.plan = old.plan
        /\ q.pc = "create" /\ P!Goto(r, q)
    BY <1>4 DEF Busy
  <2> HIDE DEF q
  <2> QED
    BY <1>1, <1>2, <2>1, GroundKeeps
<1> QED
  BY <1>1, <1>3, <1>4, GroupPlanned

LEMMA BulkCreateGrounds ==
  ASSUME MappingParameters, MapInv, Grounded, NEW r \in MapReqs, P!BulkCreate(r) PROVE Grounded'
<1>1. PICK old \in Busy : old = mapReq[r] /\ old # P!Idle
  BY MapFields DEF P!BulkCreate, P!At, P!Idle
<1>2. UNCHANGED cache
  BY GroupCreated
<1>3. PICK p \in Names :
        \/ P!End(r) /\ parties' = parties
        \/ parties' = parties \cup {p} /\ P!Goto(r, [old EXCEPT !.pc = "alias", !.party = p])
  BY <1>1, GroupCreated
<1>4. CASE P!End(r) /\ parties' = parties
  BY <1>2, <1>4, GroundEnds
<1>5. CASE parties' = parties \cup {p} /\ P!Goto(r, [old EXCEPT !.pc = "alias", !.party = p])
  <2>1. PICK n : n = [old EXCEPT !.pc = "alias", !.party = p]
    OBVIOUS
  <2>2. n.party = p /\ n.corpus = old.corpus /\ n.near = old.near /\ n.plan = old.plan
    BY <2>1, CreatedIs
  <2>3. p \in parties' /\ parties \subseteq parties'
    BY <1>5
  <2>4. Sound(old, parties)
    BY <1>1 DEF Grounded
  <2>5. Sound(n, parties')
    BY <1>1, <2>2, <2>3, <2>4 DEF Sound
  <2> QED
    BY <1>2, <1>5, <2>1, <2>3, <2>5, GroundGoesOn
<1> QED
  BY <1>3, <1>4, <1>5

LEMMA BulkAliasGrounds ==
  ASSUME MappingParameters, MapInv, Grounded, NEW r \in MapReqs, P!BulkAlias(r) PROVE Grounded'
<1>1. PICK old \in Busy : old = mapReq[r]
  BY GroupNamed
<1>2. PICK p \in parties, n \in Busy : P!Goto(r, n) /\ Plans(old, p, n)
  BY <1>1, GroupNamed
<1>3. parties' = parties /\ UNCHANGED cache
  BY GroupNamed
<1> QED
  BY <1>1, <1>2, <1>3, PlansGround

LEMMA BulkCloseGrounds ==
  ASSUME MappingParameters, MapInv, Grounded, NEW r \in MapReqs, P!BulkClose(r) PROVE Grounded'
<1>1. /\ ~P!At(r, "idle") /\ parties' = parties /\ UNCHANGED cache
      /\ \E n \in Busy : /\ P!Goto(r, n) /\ n.pc = "next" /\ n.plan = mapReq[r].plan
           /\ n.near \subseteq mapReq[r].near /\ n.corpus = mapReq[r].corpus /\ n.party = mapReq[r].party
  BY CloseAliased DEF P!At
<1> QED
  BY <1>1, GroundKeeps

LEMMA BulkCommitGrounds ==
  ASSUME MapInv, Grounded, NEW r \in MapReqs, P!BulkCommit(r) PROVE Grounded'
<1>1. PICK old \in Busy : old = mapReq[r] /\ ~P!At(r, "idle")
  BY MapFields DEF P!BulkCommit, P!At
<1>2. parties' = parties /\ UNCHANGED cache
  BY DEF P!BulkCommit
<1>3. PICK N : N = P!NoPlan
  OBVIOUS
<1> DEFINE q == [old EXCEPT !.pc = "drop", !.kind = "view", !.plan = N, !.age = 0]
<1>4. P!End(r) \/ P!Goto(r, q)
  BY <1>1, <1>3 DEF P!BulkCommit
<1>5. q.corpus = old.corpus /\ q.party = old.party /\ q.near = old.near /\ q.pc = "drop"
  BY DEF Busy
<1> HIDE DEF q
<1>6. CASE P!End(r)
  BY <1>2, <1>6, GroundEnds
<1>7. CASE P!Goto(r, q) /\ old.near = {}
  <2>1. old # P!Idle
    BY <1>1 DEF P!At, P!Idle
  <2>2. Sound(q, parties')
    BY <1>1, <1>2, <1>5, <1>7, <2>1 DEF Sound, Grounded
  <2> QED
    BY <1>2, <1>7, <2>2, GroundGoesOn
<1>8. old.near = {}
  BY <1>1 DEF P!BulkCommit
<1> QED
  BY <1>4, <1>6, <1>7, <1>8

\* Every step of the mapping keeps the types and the ages.
LEMMA AdvanceKeepsMap ==
  ASSUME MappingParameters, MapInv, Grounded, NEW r \in MapReqs, P!Advance(r)
  PROVE  MapInv' /\ Grounded'
<1>1. CASE P!ReadCorpus(r)
  BY <1>1, ReadKeepsMap, ReadGrounds
<1>2. CASE P!Fill(r)
  BY <1>2, FillKeepsMap, FillGrounds
<1>3. CASE P!DropCorpus(r)
  BY <1>3, DropKeepsMap, DropGrounds
<1>4. CASE P!View(r)
  BY <1>4, ViewKeepsMap, GroundEnds DEF P!View, P!tables
<1>5. CASE P!AutoRows(r)
  BY <1>5, AutoRowsKeepsMap, AutoRowsGrounds
<1>6. CASE P!AutoLookup(r)
  BY <1>6, AutoLookupKeepsMap, AutoLookupGrounds
<1>7. CASE P!AutoPatch(r)
  BY <1>7, AutoPatchKeepsMap, AutoPatchGrounds
<1>8. CASE P!BulkGroup(r)
  BY <1>8, BulkGroupKeepsMap, BulkGroupGrounds
<1>9. CASE P!BulkCreate(r)
  BY <1>9, BulkCreateKeepsMap, BulkCreateGrounds
<1>10. CASE P!BulkCommit(r)
  BY <1>10, BulkCommitKeepsMap, BulkCommitGrounds
<1>11. CASE P!BulkAlias(r)
  BY <1>11, BulkAliasKeepsMap, BulkAliasGrounds
<1>12. CASE P!BulkClose(r)
  BY <1>12, BulkCloseKeepsMap, BulkCloseGrounds
<1> QED
  BY <1>1, <1>2, <1>3, <1>4, <1>5, <1>6, <1>7, <1>8, <1>9, <1>10, <1>11, <1>12 DEF P!Advance

LEMMA MapNext ==
  ASSUME MappingParameters, MapInv, Grounded, [P!Next]_mapVars
  PROVE  MapInv' /\ Grounded'
<1>1. ASSUME NEW r \in MapReqs, NEW kind \in {"view", "auto", "bulk"}, P!Begin(r, kind)
      PROVE  MapInv' /\ Grounded'
  BY <1>1, BeginKeepsMap, BeginGrounds
<1>2. ASSUME NEW r \in MapReqs, NEW row \in Rows, P!Patch(r, row) PROVE MapInv' /\ Grounded'
  BY <1>2, PatchKeepsMap, PatchGrounds
<1>3. CASE P!EditAliases
  BY <1>3, EditKeepsMap DEF P!EditAliases, Grounded, Sound
<1>4. CASE P!Tick
  BY <1>4, TickKeepsMap, TickGrounds
<1>5. ASSUME NEW p \in Procs, P!Crash(p) PROVE MapInv' /\ Grounded'
  BY <1>5, CrashKeepsMap, CrashGrounds
<1>6. CASE UNCHANGED mapVars
  BY <1>6 DEF mapVars, MapInv, Grounded, TablesTyped
<1>7. ASSUME NEW r \in MapReqs, P!Fail(r) PROVE MapInv' /\ Grounded'
  BY <1>7, FailKeepsMap, GroundEnds DEF P!Fail, P!tables
<1> QED
  BY <1>1, <1>2, <1>3, <1>4, <1>5, <1>6, <1>7, AdvanceKeepsMap
     DEF P!Next, P!Views, P!Bulks, P!Others, P!Failures, P!Internal, P!Works

LEMMA MapInit == ASSUME MappingParameters, Names # {}, MCInit PROVE MapInv /\ Grounded
<1>1. Min(Names) \in Names
  <2>1. Names \in SUBSET Nat
    BY DEF MappingParameters
  <2> QED
    BY <2>1, MinIsFirst
<1>2. /\ parties \subseteq Names /\ aliases = {} /\ chosen = [row \in Rows |-> P!NoName]
      /\ cache = [p \in Procs |-> Cold] /\ mapReq = [r \in MapReqs |-> P!Idle]
  BY <1>1 DEF MCInit, P!Init
<1>3. TablesTyped /\ Grounded
  BY <1>2 DEF TablesTyped, Grounded, Sound
<1>4. mapReq \in [MapReqs -> P!Request] /\ \A r \in MapReqs : Served(mapReq[r])
  BY <1>2, IdleServed DEF Served
<1> QED
  BY <1>2, <1>3, <1>4 DEF MapInv, Young

LEMMA MapTells == MapInv => P!TypeOK /\ P!StaleAtMostTtl
  BY DEF MapInv, TablesTyped, Served, Timely, P!TypeOK, P!StaleAtMostTtl, P!At

\* For any number of requests, processes, names and rows: every table, entry and request has
\* its type, and whoever stores what in the cache, in whatever order answers arrive, no
\* request resolves names with a corpus read longer than TTL before it asked
\* (loadCachedAliasCorpus).
THEOREM MappingCorrect ==
  ASSUME MappingParameters PROVE P!Spec => [](P!TypeOK /\ P!StaleAtMostTtl)
<1>1. P!Init => MapInv /\ Grounded
  <2> SUFFICES ASSUME P!Init PROVE MapInv /\ Grounded
    OBVIOUS
  <2>1. /\ parties = {} /\ aliases = {} /\ chosen = [row \in Rows |-> P!NoName]
        /\ cache = [p \in Procs |-> Cold] /\ mapReq = [r \in MapReqs |-> P!Idle]
    BY DEF P!Init
  <2>2. TablesTyped /\ Grounded
    BY <2>1 DEF TablesTyped, Grounded, Sound
  <2>3. mapReq \in [MapReqs -> P!Request] /\ \A r \in MapReqs : Served(mapReq[r])
    BY <2>1, IdleServed DEF Served
  <2> QED
    BY <2>1, <2>2, <2>3 DEF MapInv, Young
<1>2. MapInv /\ Grounded /\ [P!Next]_(P!vars) => MapInv' /\ Grounded'
  BY MapNext DEF P!vars, mapVars
<1>3. MapInv => P!TypeOK /\ P!StaleAtMostTtl
  BY MapTells
<1> QED
  BY <1>1, <1>2, <1>3, PTL DEF P!Spec

\* A step of another component, or of the mapping.
LEMMA MappingMoves == ASSUME [MCNext]_<<which, periodVars, mapVars, vars, accessVars, figuresVars>>
                      PROVE  which' = which /\ [Mappings]_mapVars
  BY DEF MCNext

LEMMA MappingIsNext == ASSUME Mappings PROVE P!Next
  BY DEF Mappings, P!Next, P!Internal, P!Failures

-----------------------------------------------------------------------------
(* Bulk mappings make no twins *)

\* The rows of a stem in a snapshot are all in it or none is.
Same(x, y) == SnapshotOf[x] = SnapshotOf[y] /\ Stem[NameOf[x]] = Stem[NameOf[y]]
Whole(S) == \A x, y \in Rows : Same(x, y) => (x \in S <=> y \in S)
Left(f) == {row \in Rows : f[row] = P!NoName}

\* All are rows of one snapshot.
OfOne(S) == \A x, y \in S : SnapshotOf[x] = SnapshotOf[y]

\* A party has the name of the first row of its stem in some snapshot.
FirstOfStem(p) == \E row \in Rows : p = NameOf[row] /\ P!Leads(row)

\* Requests work on whole groups.
ByGroup(q) ==
  q # P!Idle => /\ q.kind \in {"bulk", "view"} /\ q.pc # "patch"
                /\ OfOne(q.todo) /\ Whole(q.todo) /\ Whole(Left(q.plan))

GroupInv ==
  /\ \A p \in parties : FirstOfStem(p)
  /\ Whole(Left(chosen))
  /\ \A r \in MapReqs : ByGroup(mapReq[r])

LEMMA NoTwinsFollows == ASSUME MappingParameters, GroupInv PROVE P!NoTwinsAlike
<1> SUFFICES ASSUME NEW p \in parties, NEW q \in parties, Stem[p] = Stem[q], P!SpeltAlike(Stem[p])
             PROVE  p = q
  BY DEF P!NoTwinsAlike
<1>1. PICK x \in Rows : p = NameOf[x] /\ P!Leads(x)
  BY DEF GroupInv, FirstOfStem
<1>2. PICK y \in Rows : q = NameOf[y] /\ P!Leads(y)
  BY DEF GroupInv, FirstOfStem
<1> QED
  BY <1>1, <1>2 DEF P!SpeltAlike

LEMMA GroupGoesOn ==
  ASSUME MapInv, GroupInv, NEW r \in MapReqs, NEW q, P!Goto(r, q), ByGroup(q),
         UNCHANGED <<parties, chosen>>
  PROVE  GroupInv'
<1>1. ASSUME NEW s \in MapReqs PROVE ByGroup(mapReq'[s])
  BY DEF P!Goto, MapInv, GroupInv
<1> QED
  BY <1>1 DEF GroupInv

LEMMA GroupEnds ==
  ASSUME MapInv, GroupInv, NEW r \in MapReqs, P!End(r), UNCHANGED <<parties, chosen>> PROVE GroupInv'
<1>1. ByGroup(P!Idle)
  BY DEF ByGroup
<1> QED
  BY <1>1, GroupGoesOn DEF P!End

\* A request that keeps kind, rows and plan.
LEMMA GroupKeeps ==
  ASSUME MapInv, GroupInv, NEW r \in MapReqs, ~P!At(r, "idle"), NEW q, P!Goto(r, q),
         q.kind = mapReq[r].kind, q.todo = mapReq[r].todo, q.plan = mapReq[r].plan, q.pc # "patch",
         UNCHANGED <<parties, chosen>>
  PROVE  GroupInv'
<1>1. ByGroup(q)
  BY DEF GroupInv, ByGroup, P!At, P!Idle
<1> QED
  BY <1>1, GroupGoesOn

\* What a request that asks keeps.
LEMMA AskingKeeps ==
  ASSUME NEW r \in MapReqs, NEW q \in Busy
  PROVE  /\ P!Asking(r, q).pc \in {"got", "load"} /\ P!Asking(r, q).kind = q.kind
         /\ P!Asking(r, q).todo = q.todo /\ P!Asking(r, q).plan = q.plan
         /\ P!Asking(r, q).pc = "got" =>
              cache[ProcOf[r]] # Cold /\ P!Asking(r, q).corpus = cache[ProcOf[r]].corpus
<1>1. PICK e : e = cache[ProcOf[r]]
  OBVIOUS
<1>2. PICK a : a = P!Asking(r, q)
  OBVIOUS
<1>3. CASE e # Cold /\ e.age < TTL
  <2>1. a = [q EXCEPT !.pc = "got", !.age = 0, !.lag = e.lag, !.corpus = e.corpus]
    BY <1>1, <1>2, <1>3 DEF P!Asking
  <2>2. a.pc = "got" /\ a.kind = q.kind /\ a.todo = q.todo /\ a.plan = q.plan /\ a.corpus = e.corpus
    BY <2>1 DEF Busy
  <2> QED
    BY <1>1, <1>2, <1>3, <2>2
<1>4. CASE ~(e # Cold /\ e.age < TTL)
  <2>1. a = [q EXCEPT !.pc = "load", !.age = 0, !.lag = 0]
    BY <1>1, <1>2, <1>4 DEF P!Asking
  <2>2. a.pc = "load" /\ a.kind = q.kind /\ a.todo = q.todo /\ a.plan = q.plan
    BY <2>1 DEF Busy
  <2> QED
    BY <1>2, <2>2
<1> QED
  BY <1>3, <1>4

LEMMA GroupIsWhole ==
  ASSUME NEW q \in Busy, Whole(q.todo), OfOne(q.todo)
  PROVE  Whole(P!GroupOf(q)) /\ Whole(q.todo \ P!GroupOf(q)) /\ OfOne(q.todo \ P!GroupOf(q))
  BY DEF Whole, OfOne, Same, P!GroupOf, Busy

LEMMA PlansByGroup ==
  ASSUME MappingParameters, NEW q \in Busy, ByGroup(q), q # P!Idle, NEW p \in Names, NEW n, Plans(q, p, n)
  PROVE  ByGroup(n)
<1>1. PICK G \in SUBSET Rows : G = P!GroupOf(q)
  BY GroupRows
<1>2. /\ n.pc = "next" /\ n.kind = q.kind /\ n.todo = q.todo \ G
      /\ n.plan = [row \in Rows |-> IF row \in G THEN p ELSE q.plan[row]]
  BY <1>1 DEF Plans
<1>3. Whole(G) /\ Whole(n.todo) /\ OfOne(n.todo)
  BY <1>1, <1>2, GroupIsWhole DEF ByGroup
<1>4. p # P!NoName
  BY DEF MappingParameters, P!NoName
<1>5. Left(n.plan) = Left(q.plan) \ G
  BY <1>2, <1>4 DEF Left
<1>6. Whole(Left(q.plan) \ G)
  BY <1>3 DEF Whole, ByGroup
<1> QED
  BY <1>2, <1>3, <1>5, <1>6 DEF ByGroup

LEMMA BeginByGroup ==
  ASSUME MappingParameters, MapInv, GroupInv, NEW r \in MapReqs, P!Begin(r, "bulk") PROVE GroupInv'
<1>1. PICK todo \in SUBSET Rows :
        P!Goto(r, P!Asking(r, P!Start("bulk", todo))) /\ \E s : todo = P!Undecided(s)
  BY BeginStarts
<1>2. PICK q \in Busy : q = P!Start("bulk", todo)
  BY StartBusy
<1>3. q.kind = "bulk" /\ q.todo = todo /\ q.plan = [row \in Rows |-> P!NoName]
  BY <1>2, StartBusy DEF P!NoPlan
<1>4. Left(q.plan) = Rows
  BY <1>3 DEF Left
<1>5. PICK s : todo = {row \in Rows : SnapshotOf[row] = s /\ chosen[row] = P!NoName}
  BY <1>1 DEF P!Undecided
<1>6. OfOne(todo) /\ Whole(todo) /\ Whole(Left(q.plan))
  BY <1>4, <1>5 DEF GroupInv, Whole, OfOne, Same, Left
<1>7. PICK a : a = P!Asking(r, q)
  OBVIOUS
<1>8. a.pc \in {"got", "load"} /\ a.kind = "bulk" /\ a.todo = q.todo /\ a.plan = q.plan
  BY <1>3, <1>7, AskingKeeps
<1>9. ByGroup(a)
  BY <1>3, <1>6, <1>8 DEF ByGroup
<1>10. P!Goto(r, a) /\ UNCHANGED <<parties, chosen>>
  BY <1>1, <1>2, <1>7 DEF P!Begin, P!tables
<1> QED
  BY <1>9, <1>10, GroupGoesOn

LEMMA CorpusByGroup ==
  ASSUME MapInv, GroupInv, NEW r \in MapReqs, P!ReadCorpus(r) \/ P!Fill(r) \/ P!DropCorpus(r)
  PROVE  GroupInv'
<1>1. PICK old \in Busy : old = mapReq[r] /\ ~P!At(r, "idle")
  BY MapFields DEF P!ReadCorpus, P!Fill, P!DropCorpus, P!At
<1>2. UNCHANGED <<parties, chosen>>
  BY DEF P!ReadCorpus, P!Fill, P!DropCorpus, P!tables
<1>3. PICK c : \/ P!Goto(r, [old EXCEPT !.pc = "fill", !.lag = 0, !.corpus = c])
               \/ P!Goto(r, [old EXCEPT !.pc = "got"])
               \/ P!Goto(r, [old EXCEPT !.pc = "load", !.age = 0, !.lag = 0])
  BY <1>1 DEF P!ReadCorpus, P!Fill, P!DropCorpus
<1>4. PICK q : /\ P!Goto(r, q) /\ q.kind = old.kind /\ q.todo = old.todo /\ q.plan = old.plan
               /\ q.pc # "patch"
  <2> DEFINE f == [old EXCEPT !.pc = "fill", !.lag = 0, !.corpus = c]
             g == [old EXCEPT !.pc = "got"]
             l == [old EXCEPT !.pc = "load", !.age = 0, !.lag = 0]
             Keeps(n) == n.kind = old.kind /\ n.todo = old.todo /\ n.plan = old.plan /\ n.pc # "patch"
  <2>1. Keeps(f) /\ Keeps(g) /\ Keeps(l)
    BY DEF Busy
  <2>2. P!Goto(r, f) \/ P!Goto(r, g) \/ P!Goto(r, l)
    BY <1>3
  <2> HIDE DEF f, g, l
  <2> QED
    BY <2>1, <2>2
<1> QED
  BY <1>1, <1>2, <1>4, GroupKeeps

LEMMA TickByGroup == ASSUME MapInv, GroupInv, P!Tick PROVE GroupInv'
<1>1. UNCHANGED <<parties, chosen>>
  BY DEF P!Tick, P!tables
<1>2. ASSUME NEW s \in MapReqs PROVE ByGroup(mapReq'[s])
  <2>1. CASE mapReq[s] = P!Idle
    BY <2>1 DEF P!Tick, ByGroup
  <2>2. CASE mapReq[s] # P!Idle
    <3>1. PICK old \in Busy : old = mapReq[s]
      BY <2>2, RequestsAre DEF MapInv
    <3>2. PICK q : q = mapReq'[s]
      OBVIOUS
    <3>3. PICK l : q = [old EXCEPT !.age = @ + 1, !.lag = l]
      BY <2>2, <3>1, <3>2 DEF P!Tick
    <3>4. q.kind = old.kind /\ q.pc = old.pc /\ q.todo = old.todo /\ q.plan = old.plan
      BY <3>3 DEF Busy
    <3> QED
      BY <2>2, <3>1, <3>2, <3>4 DEF ByGroup, GroupInv
  <2> QED
    BY <2>1, <2>2
<1> QED
  BY <1>1, <1>2 DEF GroupInv

LEMMA CreateByGroup ==
  ASSUME MappingParameters, MapInv, GroupInv, NEW r \in MapReqs, P!BulkCreate(r) PROVE GroupInv'
<1>0. PICK q \in Busy : q = mapReq[r] /\ q.todo # {}
  BY GroupCreated
<1>1. q = mapReq[r] /\ q.todo # {} /\ q # P!Idle
  BY <1>0 DEF P!BulkCreate, P!At, P!Idle
<1>2. PICK p \in Names :
        /\ p = NameOf[P!Min(q.todo)]
        /\ \/ P!End(r) /\ parties' = parties
           \/ parties' = parties \cup {p} /\ P!Goto(r, [q EXCEPT !.pc = "alias", !.party = p])
  BY <1>1, GroupCreated
<1>3. chosen' = chosen
  BY GroupCreated
<1>4. CASE P!End(r) /\ parties' = parties
  BY <1>3, <1>4, GroupEnds
<1>5. CASE parties' = parties \cup {p} /\ P!Goto(r, [q EXCEPT !.pc = "alias", !.party = p])
  <2>1. PICK n : n = [q EXCEPT !.pc = "alias", !.party = p]
    OBVIOUS
  <2>2. n.pc = "alias" /\ n.kind = q.kind /\ n.todo = q.todo /\ n.plan = q.plan
    BY <2>1, CreatedIs
  <2>3. ByGroup(q)
    BY <1>1 DEF GroupInv
  <2>4. ByGroup(n)
    BY <1>1, <2>2, <2>3 DEF ByGroup
  <2>5. \A s \in MapReqs : ByGroup(mapReq'[s])
    BY <1>5, <2>1, <2>4 DEF P!Goto, MapInv, GroupInv
  <2>6. FirstOfStem(p)
    <3>1. q.todo \in SUBSET Nat /\ q.todo \in SUBSET Rows
      BY DEF Busy, MappingParameters
    <3>2. P!Min(q.todo) \in q.todo /\ \A x \in q.todo : P!Min(q.todo) =< x
      BY <1>1, <3>1, MinIsFirst, MinsAgree
    <3>3. PICK first \in q.todo : first = P!Min(q.todo)
      BY <3>2
    <3>4. \A x \in Rows : Same(x, first) => x \in q.todo
      BY <1>1, <2>3, <3>1 DEF ByGroup, Whole
    <3>5. P!Leads(first)
      BY <3>2, <3>3, <3>4 DEF P!Leads, Same
    <3> QED
      BY <1>2, <3>1, <3>3, <3>5 DEF FirstOfStem
  <2> QED
    BY <1>3, <1>5, <2>5, <2>6 DEF GroupInv
<1> QED
  BY <1>2, <1>4, <1>5

LEMMA CommitByGroup ==
  ASSUME MappingParameters, MapInv, GroupInv, NEW r \in MapReqs, P!BulkCommit(r) PROVE GroupInv'
<1>1. PICK q \in Busy : q = mapReq[r] /\ q # P!Idle
  BY MapFields DEF P!BulkCommit, P!At, P!Idle
<1>2. PICK N : N = [row \in Rows |-> P!NoName]
  OBVIOUS
<1> DEFINE d == [q EXCEPT !.pc = "drop", !.kind = "view", !.plan = N, !.age = 0]
<1>3. d.pc = "drop" /\ d.kind = "view" /\ d.plan = N /\ d.todo = q.todo
  BY DEF Busy
<1>4. (P!End(r) \/ P!Goto(r, d)) /\ parties' = parties
      /\ chosen' = [row \in Rows |-> IF q.plan[row] # P!NoName THEN q.plan[row] ELSE chosen[row]]
  BY <1>1, <1>2 DEF P!BulkCommit, P!NoPlan
<1> HIDE DEF d
<1>5. ByGroup(q)
  BY <1>1 DEF GroupInv
<1>6. Whole(Left(N))
  <2>1. Left(N) = Rows
    BY <1>2 DEF Left
  <2> QED
    BY <2>1 DEF Whole
<1>7. ByGroup(d) /\ ByGroup(P!Idle)
  BY <1>1, <1>3, <1>5, <1>6 DEF ByGroup
<1>8. \A s \in MapReqs : ByGroup(mapReq'[s])
  BY <1>4, <1>7 DEF P!Goto, P!End, MapInv, GroupInv
<1>9. Left(chosen') = Left(q.plan) \cap Left(chosen)
  BY <1>4 DEF Left
<1>10. Whole(Left(chosen'))
  BY <1>1, <1>5, <1>9 DEF ByGroup, Whole, GroupInv
<1> QED
  BY <1>4, <1>8, <1>10 DEF GroupInv

LEMMA AdvanceByGroup ==
  ASSUME MappingParameters, MapInv, Grounded, GroupInv, NEW r \in MapReqs, P!Advance(r)
  PROVE  GroupInv'
<1>1. ~P!At(r, "idle") => mapReq[r].kind \in {"bulk", "view"} /\ mapReq[r].pc # "patch"
  BY DEF GroupInv, ByGroup, P!At, P!Idle
<1>2. ~P!AutoRows(r) /\ ~P!AutoLookup(r) /\ ~P!AutoPatch(r)
  BY <1>1 DEF P!AutoRows, P!AutoLookup, P!AutoPatch, P!At
<1>3. CASE P!View(r)
  BY <1>3, GroupEnds DEF P!View, P!tables
<1>4. CASE P!BulkGroup(r)
  <2>1. PICK q \in Busy : q = mapReq[r] /\ ~P!At(r, "idle") /\ q # P!Idle
    BY <1>4, GroupPlanned DEF P!BulkGroup, P!At, P!Idle
  <2>2. UNCHANGED <<parties, chosen>> /\ ByGroup(q)
    BY <1>4, <2>1, GroupPlanned DEF GroupInv, P!tables
  <2>3. ASSUME NEW p \in parties, NEW n, P!Goto(r, n), Plans(q, p, n) PROVE GroupInv'
    <3>1. ByGroup(n)
      BY <2>1, <2>2, <2>3, PlansByGroup DEF MapInv, TablesTyped
    <3> QED
      BY <2>2, <2>3, <3>1, GroupGoesOn
  <2>4. CASE P!Goto(r, [q EXCEPT !.pc = "create"])
    <3> DEFINE n == [q EXCEPT !.pc = "create"]
    <3>1. n.kind = q.kind /\ n.todo = q.todo /\ n.plan = q.plan /\ n.pc = "create" /\ P!Goto(r, n)
      BY <2>4 DEF Busy
    <3> HIDE DEF n
    <3> QED
      BY <2>1, <2>2, <3>1, GroupKeeps
  <2> QED
    BY <1>4, <2>1, <2>3, <2>4, GroupPlanned
<1>5. CASE P!BulkAlias(r)
  <2>1. PICK q \in Busy : q = mapReq[r] /\ q # P!Idle
    BY <1>5, MapFields DEF P!BulkAlias, P!At, P!Idle
  <2>2. PICK p \in parties, n \in Busy : P!Goto(r, n) /\ Plans(q, p, n)
    BY <1>5, <2>1, GroupNamed
  <2>3. UNCHANGED <<parties, chosen>> /\ ByGroup(q) /\ p \in Names
    BY <1>5, <2>1, GroupNamed DEF GroupInv, MapInv, TablesTyped
  <2>4. ByGroup(n)
    BY <2>1, <2>2, <2>3, PlansByGroup
  <2> QED
    BY <2>2, <2>3, <2>4, GroupGoesOn
<1>6. CASE P!BulkClose(r)
  <2>1. PICK n \in Busy : /\ P!Goto(r, n) /\ n.pc = "next" /\ n.kind = mapReq[r].kind
                         /\ n.todo = mapReq[r].todo /\ n.plan = mapReq[r].plan
    BY <1>6, CloseAliased
  <2>2. ~P!At(r, "idle") /\ UNCHANGED <<parties, chosen>>
    BY <1>6, CloseAliased DEF P!At
  <2> QED
    BY <2>1, <2>2, GroupKeeps
<1> QED
  BY <1>2, <1>3, <1>4, <1>5, <1>6, CorpusByGroup, CreateByGroup, CommitByGroup DEF P!Advance

LEMMA BulksByGroup ==
  ASSUME MappingParameters, MapInv, Grounded, GroupInv, P!Bulks \/ P!Failures \/ P!Internal PROVE GroupInv'
<1>1. ASSUME NEW p \in Procs, P!Crash(p) PROVE GroupInv'
  BY <1>1 DEF P!Crash, P!tables, GroupInv, ByGroup
<1>2. ASSUME NEW r \in MapReqs, P!Fail(r) PROVE GroupInv'
  BY <1>2, GroupEnds DEF P!Fail, P!tables
<1> QED
  BY <1>1, <1>2, BeginByGroup, TickByGroup, AdvanceByGroup
     DEF P!Bulks, P!Failures, P!Internal, P!Works

-----------------------------------------------------------------------------
(* One request at a time in one process reads what it wrote *)

\* The process of those who work one at a time.
LonersShare ==
  Loners \subseteq MapReqs /\ \A r, s \in Loners : ProcOf[r] = ProcOf[s]

\* A request that will drop the corpus, for it may have written what that lacks.
Dirty(q) == q.pc = "drop" \/ (q.kind = "bulk" /\ q.pc \in {"next", "create", "alias"})

\* A request has the corpus as it is; what it found unknown is; and it plans what it wrote.
Knows(q, S, corpus) ==
  /\ q.pc \in {"fill", "got"} => q.corpus = corpus
  /\ q.pc = "create" => NameOf[P!Min(q.todo)] \notin S
  /\ q.pc = "next" /\ q.kind = "bulk" => q.plan # P!NoPlan

FreshInv ==
  /\ \A r \in MapReqs : mapReq[r] # P!Idle => r \in Loners
  /\ \A r, s \in MapReqs : mapReq[r] # P!Idle /\ mapReq[s] # P!Idle => r = s
  /\ \A r \in MapReqs : Knows(mapReq[r], parties, P!Current)
  /\ \A r \in Loners :
       \/ cache[ProcOf[r]] = Cold \/ cache[ProcOf[r]].corpus = P!Current
       \/ \E s \in MapReqs : Dirty(mapReq[s])

\* Whose step it is.
OneSteps == /\ Alone(mapReq, mapReq') \/ cache' # cache
            /\ \A r \in MapReqs \ Loners : mapReq'[r] = P!Idle

LEMMA IdleIsClean == ~Dirty(P!Idle) /\ \A S, c : Knows(P!Idle, S, c)
  BY DEF Dirty, Knows, P!Idle

LEMMA BusyIsNot == ASSUME NEW q, q.pc # "idle" PROVE q # P!Idle
  BY DEF P!Idle

\* While a request is at work, or begins, no other is.
LEMMA OthersIdle ==
  ASSUME MapInv, FreshInv, OneSteps, NEW r \in MapReqs, NEW q, P!Goto(r, q),
         P!At(r, "idle") => cache' = cache
  PROVE  /\ mapReq'[r] = q /\ (q # P!Idle => r \in Loners)
         /\ \A s \in MapReqs : s # r => mapReq[s] = P!Idle /\ mapReq'[s] = P!Idle
<1>1. mapReq'[r] = q /\ \A s \in MapReqs : s # r => mapReq'[s] = mapReq[s]
  BY DEF P!Goto, MapInv
<1>2. ASSUME NEW s \in MapReqs, s # r PROVE mapReq[s] = P!Idle
  <2>1. CASE mapReq[r] # P!Idle
    BY <1>2, <2>1 DEF FreshInv
  <2>2. CASE mapReq[r] = P!Idle
    <3>1. Alone(mapReq, mapReq')
      BY <2>2 DEF OneSteps, P!At, P!Idle
    <3>2. mapReq[s].pc = "idle"
      BY <1>1, <1>2, <3>1 DEF Alone, MapInv
    <3> QED
      BY <3>2, RequestsAre DEF MapInv, Busy, P!Idle
  <2> QED
    BY <2>1, <2>2
<1> QED
  BY <1>1, <1>2 DEF OneSteps

\* What a step of a request has to leave.
LEMMA FreshGoesOn ==
  ASSUME MapInv, FreshInv, OneSteps, NEW r \in MapReqs, NEW q, P!Goto(r, q),
         P!At(r, "idle") => cache' = cache,
         Knows(q, parties', P!Current'),
         \A s \in Loners : \/ cache'[ProcOf[s]] = Cold \/ cache'[ProcOf[s]].corpus = P!Current'
                           \/ Dirty(q)
  PROVE  FreshInv'
<1>1. /\ mapReq'[r] = q /\ (q # P!Idle => r \in Loners)
      /\ \A s \in MapReqs : s # r => mapReq'[s] = P!Idle
  BY OthersIdle
<1>2. \A s \in MapReqs : mapReq'[s] # P!Idle => s \in Loners
  BY <1>1
<1>3. \A s, x \in MapReqs : mapReq'[s] # P!Idle /\ mapReq'[x] # P!Idle => s = x
  BY <1>1
<1>4. \A s \in MapReqs : Knows(mapReq'[s], parties', P!Current')
  BY <1>1, IdleIsClean
<1>5. \A s \in Loners : \/ cache'[ProcOf[s]] = Cold \/ cache'[ProcOf[s]].corpus = P!Current'
                        \/ \E x \in MapReqs : Dirty(mapReq'[x])
  BY <1>1
<1> QED
  BY <1>2, <1>3, <1>4, <1>5 DEF FreshInv

\* Before the step of a request that is not dirty, the cached corpus is as it is.
LEMMA CacheIsFresh ==
  ASSUME MapInv, FreshInv, OneSteps, NEW r \in MapReqs, NEW q, P!Goto(r, q),
         P!At(r, "idle") => cache' = cache, ~Dirty(mapReq[r])
  PROVE  \A s \in Loners : cache[ProcOf[s]] = Cold \/ cache[ProcOf[s]].corpus = P!Current
<1>1. \A s \in MapReqs : ~Dirty(mapReq[s])
  BY OthersIdle, IdleIsClean
<1> QED
  BY <1>1 DEF FreshInv

LEMMA SameCorpus == ASSUME UNCHANGED <<parties, aliases>> PROVE P!Current' = P!Current
  BY DEF P!Current

\* A request that leaves tables and cache as they are, and is not dirty.
LEMMA FreshKeeps ==
  ASSUME MapInv, FreshInv, OneSteps, NEW r \in MapReqs, NEW q, P!Goto(r, q), UNCHANGED cache,
         UNCHANGED <<parties, aliases>>, ~Dirty(mapReq[r]), Knows(q, parties, P!Current)
  PROVE  FreshInv'
<1>1. P!Current' = P!Current
  BY SameCorpus
<1>2. Knows(q, parties', P!Current')
  BY <1>1
<1>3. \A s \in Loners : cache'[ProcOf[s]] = Cold \/ cache'[ProcOf[s]].corpus = P!Current'
  BY <1>1, CacheIsFresh
<1> QED
  BY <1>2, <1>3, FreshGoesOn

\* A request that will drop the corpus may leave any.
LEMMA FreshLater ==
  ASSUME MapInv, FreshInv, OneSteps, NEW r \in MapReqs, NEW q, P!Goto(r, q), UNCHANGED cache,
         Dirty(q), Knows(q, parties', P!Current')
  PROVE  FreshInv'
  BY FreshGoesOn

LEMMA EndsFresh ==
  ASSUME MapInv, FreshInv, OneSteps, NEW r \in MapReqs, P!End(r), UNCHANGED cache,
         UNCHANGED <<parties, aliases>>, ~Dirty(mapReq[r])
  PROVE  FreshInv'
  BY IdleIsClean, FreshKeeps DEF P!End

\* A request that begins takes what is in the cache, or loads it.
LEMMA AsksFresh ==
  ASSUME MappingParameters, MapInv, FreshInv, OneSteps, NEW r \in MapReqs, P!At(r, "idle"),
         NEW kind \in {"view", "auto", "bulk"}, NEW todo \in SUBSET Rows,
         P!Goto(r, P!Asking(r, P!Start(kind, todo))),
         UNCHANGED cache, UNCHANGED <<parties, aliases>>
  PROVE  FreshInv'
<1>1. PICK q \in Busy : q = P!Start(kind, todo)
  BY StartBusy
<1>2. PICK a \in Busy : a = P!Asking(r, q)
  BY AskServed
<1>3. /\ a.pc \in {"got", "load"} /\ P!Goto(r, a)
      /\ (a.pc = "got" => cache[ProcOf[r]] # Cold /\ a.corpus = cache[ProcOf[r]].corpus)
  BY <1>1, <1>2, AskingKeeps
<1>4. ~Dirty(mapReq[r])
  BY DEF P!At, Dirty
<1>5. a # P!Idle
  BY <1>3 DEF P!Idle
<1>6. r \in Loners
  BY <1>3, <1>5, OthersIdle
<1>7. a.pc = "got" => a.corpus = P!Current
  BY <1>3, <1>4, <1>6, CacheIsFresh
<1>8. Knows(a, parties, P!Current)
  BY <1>3, <1>7 DEF Knows
<1> QED
  BY <1>3, <1>4, <1>8, FreshKeeps

LEMMA CommittedFresh ==
  ASSUME MapInv, FreshInv, OneSteps, NEW r \in MapReqs, NEW q \in Busy, P!Committed(r, q),
         UNCHANGED cache, ~Dirty(mapReq[r])
  PROVE  FreshInv'
<1> DEFINE d == [q EXCEPT !.pc = "drop"]
<1>1. d.pc = "drop"
  BY DEF Busy
<1>2. (P!End(r) /\ P!tables' = P!tables) \/ P!Goto(r, d)
  BY DEF P!Committed
<1> HIDE DEF d
<1>3. CASE P!End(r) /\ P!tables' = P!tables
  BY <1>3, EndsFresh DEF P!tables
<1>4. CASE P!Goto(r, d)
  BY <1>1, <1>4, FreshLater DEF Dirty, Knows
<1> QED
  BY <1>2, <1>3, <1>4

LEMMA PatchFresh ==
  ASSUME MappingParameters, MapInv, FreshInv, OneSteps, NEW r \in MapReqs, NEW row \in Rows, P!Patch(r, row)
  PROVE  FreshInv'
<1>1. P!Start("view", {}) \in Busy /\ UNCHANGED cache /\ P!At(r, "idle") /\ ~Dirty(mapReq[r])
  BY StartBusy DEF P!Patch, P!At, Dirty
<1>2. CASE P!Committed(r, P!Start("view", {}))
  BY <1>1, <1>2, CommittedFresh
<1>3. CASE P!Goto(r, P!Asking(r, P!Start("view", {}))) /\ UNCHANGED <<parties, aliases>>
  BY <1>1, <1>3, AsksFresh
<1> QED
  BY <1>2, <1>3 DEF P!Patch

LEMMA ReadFresh ==
  ASSUME MappingParameters, MapInv, FreshInv, OneSteps, NEW r \in MapReqs, P!ReadCorpus(r) PROVE FreshInv'
<1>1. PICK old \in Busy : old = mapReq[r]
  BY MapFields DEF P!ReadCorpus, P!At
<1>2. PICK c : c = P!Current
  OBVIOUS
<1> DEFINE q == [old EXCEPT !.pc = "fill", !.lag = 0, !.corpus = c]
<1>3. q.pc = "fill" /\ q.corpus = c
  BY DEF Busy
<1>4. P!Goto(r, q) /\ UNCHANGED cache /\ UNCHANGED <<parties, aliases>> /\ ~Dirty(mapReq[r])
  BY <1>1, <1>2 DEF P!ReadCorpus, P!tables, P!At, Dirty
<1> HIDE DEF q
<1>5. Knows(q, parties, P!Current)
  BY <1>2, <1>3 DEF Knows
<1> QED
  BY <1>4, <1>5, FreshKeeps

LEMMA FillFresh ==
  ASSUME MappingParameters, MapInv, FreshInv, OneSteps, NEW r \in MapReqs, P!Fill(r) PROVE FreshInv'
<1>1. PICK old \in Busy : old = mapReq[r] /\ old.pc = "fill"
  BY MapFields DEF P!Fill, P!At
<1> DEFINE q == [old EXCEPT !.pc = "got"]
<1>2. q.pc = "got" /\ q.corpus = old.corpus
  BY DEF Busy
<1>3. P!Goto(r, q) /\ UNCHANGED <<parties, aliases>> /\ ~Dirty(mapReq[r]) /\ ~P!At(r, "idle")
  BY <1>1 DEF P!Fill, P!tables, P!At, Dirty
<1> HIDE DEF q
<1>4. old.corpus = P!Current /\ P!Current' = P!Current
  BY <1>1, <1>3, SameCorpus DEF FreshInv, Knows
<1>5. Knows(q, parties', P!Current')
  BY <1>2, <1>4 DEF Knows
<1>6. ASSUME NEW s \in Loners
      PROVE  cache'[ProcOf[s]] = Cold \/ cache'[ProcOf[s]].corpus = P!Current'
  <2>1. cache'[ProcOf[s]] = cache[ProcOf[s]] \/ cache'[ProcOf[s]].corpus = old.corpus
    BY <1>1 DEF P!Fill, MapInv
  <2> QED
    BY <1>3, <1>4, <2>1, CacheIsFresh
<1> QED
  BY <1>3, <1>5, <1>6, FreshGoesOn

LEMMA DropFresh ==
  ASSUME MappingParameters, LonersShare, MapInv, FreshInv, OneSteps, NEW r \in MapReqs, P!DropCorpus(r)
  PROVE  FreshInv'
<1>1. PICK old \in Busy : old = mapReq[r]
  BY MapFields DEF P!DropCorpus, P!At
<1> DEFINE q == [old EXCEPT !.pc = "load", !.age = 0, !.lag = 0]
<1>2. q.pc = "load"
  BY DEF Busy
<1>3. P!Goto(r, q) /\ ~P!At(r, "idle") /\ cache' = [cache EXCEPT ![ProcOf[r]] = Cold]
  BY <1>1 DEF P!DropCorpus, P!At
<1> HIDE DEF q
<1>4. Knows(q, parties', P!Current')
  BY <1>2 DEF Knows
<1>5. q # P!Idle
  BY <1>2 DEF P!Idle
<1>6. r \in Loners
  BY <1>3, <1>5, OthersIdle
<1>7. \A s \in Loners : cache'[ProcOf[s]] = Cold
  BY <1>3, <1>6 DEF LonersShare, MapInv, MappingParameters
<1> QED
  BY <1>3, <1>4, <1>7, FreshGoesOn

LEMMA AutoFresh ==
  ASSUME MappingParameters, MapInv, FreshInv, OneSteps, NEW r \in MapReqs, P!AutoRows(r) \/ P!AutoLookup(r)
  PROVE  FreshInv'
<1>1. PICK old \in Busy : old = mapReq[r] /\ ~Dirty(old)
  BY MapFields DEF P!AutoRows, P!AutoLookup, P!At, Dirty
<1>2. UNCHANGED cache /\ UNCHANGED <<parties, aliases>>
  BY DEF P!AutoRows, P!AutoLookup, P!tables
<1>3. CASE P!AutoRows(r)
  <2>1. PICK t : P!End(r) \/ P!Goto(r, [old EXCEPT !.pc = "next", !.kind = "each", !.todo = t, !.age = 0])
    BY <1>1, <1>3 DEF P!AutoRows
  <2> DEFINE q == [old EXCEPT !.pc = "next", !.kind = "each", !.todo = t, !.age = 0]
  <2>2. q.pc = "next" /\ q.kind = "each"
    BY DEF Busy
  <2>3. P!End(r) \/ P!Goto(r, q)
    BY <2>1
  <2> HIDE DEF q
  <2>4. Knows(q, parties, P!Current)
    BY <2>2 DEF Knows
  <2> QED
    BY <1>1, <1>2, <2>3, <2>4, EndsFresh, FreshKeeps
<1>4. CASE P!AutoLookup(r)
  <2>1. PICK found : P!Goto(r, [old EXCEPT !.pc = "patch", !.party = found])
    BY <1>1, <1>4 DEF P!AutoLookup
  <2> DEFINE q == [old EXCEPT !.pc = "patch", !.party = found]
  <2>2. q.pc = "patch"
    BY DEF Busy
  <2>3. P!Goto(r, q)
    BY <2>1
  <2> HIDE DEF q
  <2>4. Knows(q, parties, P!Current)
    BY <2>2 DEF Knows
  <2> QED
    BY <1>1, <1>2, <2>3, <2>4, FreshKeeps
<1> QED
  BY <1>3, <1>4

LEMMA AutoPatchFresh ==
  ASSUME MappingParameters, MapInv, FreshInv, OneSteps, NEW r \in MapReqs, P!AutoPatch(r) PROVE FreshInv'
<1>1. PICK old \in Busy : old = mapReq[r] /\ ~Dirty(old) /\ old.todo # {}
  BY MapFields DEF P!AutoPatch, P!At, Dirty, AtWork
<1>2. PICK t \in SUBSET Rows : t = old.todo \ {P!Min(old.todo)}
  BY DEF Busy
<1> DEFINE q == [old EXCEPT !.todo = t, !.age = 0]
<1>3. q \in Busy
  BY Zeros DEF Busy
<1>4. P!Committed(r, q) /\ UNCHANGED cache
  BY <1>1, <1>2 DEF P!AutoPatch, Busy
<1> HIDE DEF q
<1> QED
  BY <1>1, <1>3, <1>4, CommittedFresh

\* A plan with a group in it is not empty.
LEMMA PlansAreDirty ==
  ASSUME MappingParameters, NEW q \in Busy, q.todo # {}, q.kind = "bulk", NEW p \in Names,
         NEW n, Plans(q, p, n), NEW S, NEW c
  PROVE  Dirty(n) /\ Knows(n, S, c)
<1>1. PICK row \in q.todo : row = P!Min(q.todo) /\ row \in Rows
  BY FirstRow
<1>2. row \in P!GroupOf(q)
  BY <1>1 DEF P!GroupOf
<1>3. n.pc = "next" /\ n.kind = "bulk" /\ n.plan[row] = p
  BY <1>1, <1>2 DEF Plans
<1>4. p # P!NoName
  BY DEF MappingParameters, P!NoName
<1>5. n.plan # P!NoPlan
  BY <1>1, <1>3, <1>4 DEF P!NoPlan
<1> QED
  BY <1>3, <1>5 DEF Dirty, Knows

LEMMA BulkGroupFresh ==
  ASSUME MappingParameters, MapInv, Grounded, FreshInv, OneSteps, NEW r \in MapReqs, P!BulkGroup(r)
  PROVE  FreshInv'
<1>1. PICK q \in Busy : q = mapReq[r] /\ q.todo # {} /\ q.kind = "bulk"
  BY GroupPlanned
<1>2. UNCHANGED cache /\ parties' = parties
  BY GroupPlanned DEF P!tables
<1>3. ASSUME NEW p \in parties, NEW n, P!Goto(r, n), Plans(q, p, n) PROVE FreshInv'
  <2>1. p \in Names
    BY DEF MapInv, TablesTyped
  <2>2. \A S, c : Dirty(n) /\ Knows(n, S, c)
    BY <1>1, <1>3, <2>1, PlansAreDirty
  <2> QED
    BY <1>2, <1>3, <2>2, FreshLater
<1>4. CASE P!Goto(r, [q EXCEPT !.pc = "create"]) /\ NameOf[P!Min(q.todo)] \notin parties
  <2> DEFINE n == [q EXCEPT !.pc = "create"]
  <2>1. n.pc = "create" /\ n.kind = "bulk" /\ n.todo = q.todo /\ P!Goto(r, n)
    BY <1>1, <1>4 DEF Busy
  <2> HIDE DEF n
  <2>2. Dirty(n) /\ Knows(n, parties', P!Current')
    BY <1>2, <1>4, <2>1 DEF Dirty, Knows
  <2> QED
    BY <1>2, <2>1, <2>2, FreshLater
<1> QED
  BY <1>1, <1>3, <1>4, GroupPlanned

LEMMA BulkCreateFresh ==
  ASSUME MappingParameters, MapInv, FreshInv, OneSteps, NEW r \in MapReqs, P!BulkCreate(r) PROVE FreshInv'
<1>1. PICK q \in Busy : q = mapReq[r] /\ q.kind = "bulk" /\ q.pc = "create"
  BY GroupCreated DEF P!BulkCreate, P!At
<1>2. NameOf[P!Min(q.todo)] \notin parties
  BY <1>1 DEF FreshInv, Knows
<1>3. PICK p \in Names : P!Goto(r, [q EXCEPT !.pc = "alias", !.party = p])
  BY <1>1, <1>2, GroupCreated
<1>4. UNCHANGED cache
  BY GroupCreated
<1>5. PICK n : n = [q EXCEPT !.pc = "alias", !.party = p]
  OBVIOUS
<1>6. n.pc = "alias" /\ n.kind = "bulk"
  BY <1>1, <1>5, CreatedIs
<1>7. Dirty(n) /\ Knows(n, parties', P!Current')
  BY <1>6 DEF Dirty, Knows
<1> QED
  BY <1>3, <1>4, <1>5, <1>7, FreshLater

LEMMA BulkAliasFresh ==
  ASSUME MappingParameters, MapInv, Grounded, FreshInv, OneSteps, NEW r \in MapReqs, P!BulkAlias(r)
  PROVE  FreshInv'
<1>1. PICK q \in Busy : q = mapReq[r] /\ q.todo # {} /\ q.kind = "bulk"
  BY GroupNamed
<1>2. PICK p \in parties, n \in Busy : P!Goto(r, n) /\ Plans(q, p, n)
  BY <1>1, GroupNamed
<1>3. p \in Names /\ UNCHANGED cache
  BY GroupNamed DEF MapInv, TablesTyped
<1>4. \A S, c : Dirty(n) /\ Knows(n, S, c)
  BY <1>1, <1>2, <1>3, PlansAreDirty
<1> QED
  BY <1>2, <1>3, <1>4, FreshLater

LEMMA BulkCloseFresh ==
  ASSUME MappingParameters, MapInv, Grounded, FreshInv, OneSteps, NEW r \in MapReqs, P!BulkClose(r)
  PROVE  FreshInv'
<1>1. PICK n \in Busy : P!Goto(r, n) /\ n.pc = "next" /\ n.kind = "bulk" /\ n.plan = mapReq[r].plan
  BY CloseAliased
<1>2. mapReq[r].plan # P!NoPlan /\ UNCHANGED cache
  BY CloseAliased DEF FreshInv, Knows
<1>3. Dirty(n) /\ Knows(n, parties', P!Current')
  BY <1>1, <1>2 DEF Dirty, Knows
<1> QED
  BY <1>1, <1>2, <1>3, FreshLater

LEMMA BulkCommitFresh ==
  ASSUME MappingParameters, MapInv, FreshInv, OneSteps, NEW r \in MapReqs, P!BulkCommit(r) PROVE FreshInv'
<1>1. PICK q \in Busy : q = mapReq[r] /\ q.pc \in {"got", "next"} /\ q.kind = "bulk"
  BY MapFields DEF P!BulkCommit, P!At
<1>2. UNCHANGED cache /\ UNCHANGED <<parties, aliases>>
  BY DEF P!BulkCommit
<1>3. CASE q.plan = P!NoPlan
  <2>1. q.pc = "got"
    BY <1>1, <1>3 DEF FreshInv, Knows
  <2>2. ~Dirty(mapReq[r]) /\ P!End(r)
    BY <1>1, <1>3, <2>1 DEF Dirty, P!BulkCommit
  <2> QED
    BY <1>2, <2>2, EndsFresh
<1>4. CASE q.plan # P!NoPlan
  <2>1. PICK N : N = P!NoPlan
    OBVIOUS
  <2> DEFINE d == [q EXCEPT !.pc = "drop", !.kind = "view", !.plan = N, !.age = 0]
  <2>2. d.pc = "drop" /\ P!Goto(r, d)
    BY <1>1, <1>4, <2>1 DEF Busy, P!BulkCommit
  <2> HIDE DEF d
  <2>3. Dirty(d) /\ Knows(d, parties', P!Current')
    BY <2>2 DEF Dirty, Knows
  <2> QED
    BY <1>2, <2>2, <2>3, FreshLater
<1> QED
  BY <1>3, <1>4

LEMMA TickFresh ==
  ASSUME MappingParameters, LonersShare, MapInv, FreshInv, P!Tick PROVE FreshInv'
<1>1. UNCHANGED <<parties, aliases>> /\ P!Current' = P!Current
  BY SameCorpus DEF P!Tick, P!tables
<1>2. ASSUME NEW s \in MapReqs
      PROVE  /\ mapReq'[s] # P!Idle => mapReq[s] # P!Idle
             /\ Dirty(mapReq[s]) => Dirty(mapReq'[s])
             /\ Knows(mapReq'[s], parties, P!Current)
  <2>1. CASE mapReq[s] = P!Idle
    BY <2>1, IdleIsClean DEF P!Tick
  <2>2. CASE mapReq[s] # P!Idle
    <3>1. PICK old \in Busy : old = mapReq[s]
      BY <2>2, RequestsAre DEF MapInv
    <3>2. PICK q : q = mapReq'[s]
      OBVIOUS
    <3>3. PICK l : q = [old EXCEPT !.age = @ + 1, !.lag = l]
      BY <2>2, <3>1, <3>2 DEF P!Tick
    <3>4. /\ q.kind = old.kind /\ q.pc = old.pc /\ q.todo = old.todo /\ q.plan = old.plan
          /\ q.corpus = old.corpus
      BY <3>3 DEF Busy
    <3>5. Knows(old, parties, P!Current)
      BY <3>1 DEF FreshInv
    <3> QED
      BY <2>2, <3>1, <3>2, <3>4, <3>5 DEF Dirty, Knows
  <2> QED
    BY <2>1, <2>2
<1>3. ASSUME NEW p \in Procs
      PROVE  cache'[p] = Cold \/ (cache[p] # Cold /\ cache'[p].corpus = cache[p].corpus)
  <2>1. CASE cache[p] = Cold
    BY <2>1 DEF P!Tick
  <2>2. CASE cache[p] # Cold
    <3>1. PICK e \in P!Entry : e = cache[p]
      BY <2>2 DEF MapInv
    <3>2. PICK a, l : cache'[p] = [e EXCEPT !.age = a, !.lag = l]
      BY <2>2, <3>1 DEF P!Tick
    <3>3. cache'[p].corpus = e.corpus
      BY <3>2 DEF P!Entry
    <3> QED
      BY <2>2, <3>1, <3>3
  <2> QED
    BY <2>1, <2>2
<1>4. ASSUME NEW r \in Loners
      PROVE  \/ cache'[ProcOf[r]] = Cold \/ cache'[ProcOf[r]].corpus = P!Current'
             \/ \E s \in MapReqs : Dirty(mapReq'[s])
  <2>1. ProcOf[r] \in Procs
    BY DEF LonersShare, MappingParameters
  <2> QED
    BY <1>1, <1>2, <1>3, <2>1 DEF FreshInv
<1> QED
  BY <1>1, <1>2, <1>4 DEF FreshInv

LEMMA CrashFresh ==
  ASSUME MappingParameters, LonersShare, MapInv, FreshInv, NEW p \in Procs, P!Crash(p) PROVE FreshInv'
<1>1. UNCHANGED <<parties, aliases>> /\ P!Current' = P!Current
  BY SameCorpus DEF P!Crash, P!tables
<1>2. ASSUME NEW s \in MapReqs
      PROVE  /\ ProcOf[s] = p => mapReq'[s] = P!Idle
             /\ ProcOf[s] # p => mapReq'[s] = mapReq[s]
  BY DEF P!Crash
<1>3. \A s \in MapReqs : Knows(mapReq'[s], parties, P!Current)
  BY <1>2, IdleIsClean DEF FreshInv
<1>4. ASSUME NEW r \in Loners
      PROVE  \/ cache'[ProcOf[r]] = Cold \/ cache'[ProcOf[r]].corpus = P!Current'
             \/ \E s \in MapReqs : Dirty(mapReq'[s])
  <2>1. ProcOf[r] \in Procs /\ r \in MapReqs
    BY DEF LonersShare, MappingParameters
  <2>2. CASE ProcOf[r] = p
    BY <2>1, <2>2 DEF P!Crash, MapInv
  <2>3. CASE ProcOf[r] # p
    <3>1. cache'[ProcOf[r]] = cache[ProcOf[r]]
      BY <2>1, <2>3 DEF P!Crash, MapInv
    <3>2. ASSUME NEW s \in MapReqs, Dirty(mapReq[s]) PROVE Dirty(mapReq'[s])
      <4>1. s \in Loners
        BY <3>2, IdleIsClean DEF FreshInv
      <4>2. ProcOf[s] # p
        BY <2>3, <4>1 DEF LonersShare
      <4> QED
        BY <1>2, <3>2, <4>2
    <3> QED
      BY <1>1, <3>1, <3>2 DEF FreshInv
  <2> QED
    BY <2>2, <2>3
<1> QED
  BY <1>1, <1>2, <1>3, <1>4 DEF FreshInv

LEMMA AdvanceFresh ==
  ASSUME MappingParameters, LonersShare, MapInv, Grounded, FreshInv, OneSteps,
         NEW r \in MapReqs, P!Advance(r)
  PROVE  FreshInv'
<1>1. ASSUME P!View(r) PROVE FreshInv'
  BY <1>1, EndsFresh DEF P!View, P!tables, P!At, Dirty
<1> QED
  BY <1>1, ReadFresh, FillFresh, DropFresh, AutoFresh, AutoPatchFresh, BulkGroupFresh,
     BulkCreateFresh, BulkAliasFresh, BulkCloseFresh, BulkCommitFresh DEF P!Advance

LEMMA AloneFresh ==
  ASSUME MappingParameters, LonersShare, MapInv, Grounded, FreshInv, OneSteps,
         P!Views \/ P!Bulks \/ P!Others \/ P!Internal
  PROVE  FreshInv'
<1>1. ASSUME NEW r \in MapReqs, NEW kind \in {"view", "auto", "bulk"}, P!Begin(r, kind)
      PROVE  FreshInv'
  <2>1. PICK todo \in SUBSET Rows : P!Goto(r, P!Asking(r, P!Start(kind, todo)))
    BY <1>1, BeginStarts
  <2>2. P!At(r, "idle") /\ UNCHANGED cache /\ UNCHANGED <<parties, aliases>>
    BY <1>1 DEF P!Begin, P!tables
  <2> QED
    BY <2>1, <2>2, AsksFresh
<1> QED
  BY <1>1, PatchFresh, TickFresh, CrashFresh, AdvanceFresh
     DEF P!Views, P!Bulks, P!Others, P!Internal, P!Works

-----------------------------------------------------------------------------
(* Bulk mappings one at a time in one process make no twins of any spelling *)

\* The rows whose groups have no party yet.
Rest(q) == IF q.pc = "alias" THEN q.todo \ P!GroupOf(q) ELSE q.todo

\* Parties of S that the request's corpus lacks are those of groups it is done with.
Ahead(q, S) ==
  q.kind = "bulk" =>
    /\ q.pc \in {"next", "create", "alias"} =>
         \A p \in S \ q.corpus.parties, row \in Rest(q) : Stem[p] # Stem[NameOf[row]]
    /\ q.pc = "create" => \A p \in S : Stem[p] # Stem[NameOf[P!Min(q.todo)]]

TwinInv == P!NoTwins /\ \A r \in MapReqs : mapReq[r] # P!Idle => Ahead(mapReq[r], parties)

LEMMA TwinsGoOn ==
  ASSUME MapInv, FreshInv, OneSteps, NEW r \in MapReqs, NEW q, P!Goto(r, q),
         P!At(r, "idle") => cache' = cache, (P!NoTwins)', q # P!Idle => Ahead(q, parties')
  PROVE  TwinInv'
<1>1. mapReq'[r] = q /\ \A s \in MapReqs : s # r => mapReq'[s] = P!Idle
  BY OthersIdle
<1> QED
  BY <1>1 DEF TwinInv

\* A request that is not in the midst of its groups.
LEMMA TwinsRest ==
  ASSUME MapInv, FreshInv, TwinInv, OneSteps, NEW r \in MapReqs, NEW q, P!Goto(r, q),
         P!At(r, "idle") => cache' = cache, parties' = parties,
         q.pc \notin {"next", "create", "alias"} \/ q.kind # "bulk"
  PROVE  TwinInv'
<1>1. Ahead(q, parties')
  BY DEF Ahead
<1>2. (P!NoTwins)'
  BY DEF TwinInv, P!NoTwins
<1> QED
  BY <1>1, <1>2, TwinsGoOn

LEMMA TwinsEnd ==
  ASSUME MapInv, FreshInv, TwinInv, OneSteps, NEW r \in MapReqs, P!End(r),
         P!At(r, "idle") => cache' = cache, parties' = parties
  PROVE  TwinInv'
  BY TwinsRest DEF P!End, P!Idle

LEMMA CorpusTwins ==
  ASSUME MappingParameters, MapInv, FreshInv, TwinInv, OneSteps, NEW r \in MapReqs,
         P!ReadCorpus(r) \/ P!Fill(r) \/ P!DropCorpus(r)
  PROVE  TwinInv'
<1>1. PICK old \in Busy : old = mapReq[r] /\ ~P!At(r, "idle")
  BY MapFields DEF P!ReadCorpus, P!Fill, P!DropCorpus, P!At
<1>2. parties' = parties
  BY DEF P!ReadCorpus, P!Fill, P!DropCorpus, P!tables
<1>3. PICK c : \/ P!Goto(r, [old EXCEPT !.pc = "fill", !.lag = 0, !.corpus = c])
               \/ P!Goto(r, [old EXCEPT !.pc = "got"])
               \/ P!Goto(r, [old EXCEPT !.pc = "load", !.age = 0, !.lag = 0])
  BY <1>1 DEF P!ReadCorpus, P!Fill, P!DropCorpus
<1>4. \E q : P!Goto(r, q) /\ q.pc \in {"fill", "got", "load"}
  <2> DEFINE f == [old EXCEPT !.pc = "fill", !.lag = 0, !.corpus = c]
             g == [old EXCEPT !.pc = "got"]
             l == [old EXCEPT !.pc = "load", !.age = 0, !.lag = 0]
  <2>1. f.pc = "fill" /\ g.pc = "got" /\ l.pc = "load"
    BY DEF Busy
  <2>2. P!Goto(r, f) \/ P!Goto(r, g) \/ P!Goto(r, l)
    BY <1>3
  <2> HIDE DEF f, g, l
  <2> QED
    BY <2>1, <2>2
<1>5. PICK q : P!Goto(r, q) /\ q.pc \in {"fill", "got", "load"}
  BY <1>4
<1> QED
  BY <1>1, <1>2, <1>5, TwinsRest

LEMMA BeginTwins ==
  ASSUME MappingParameters, MapInv, FreshInv, TwinInv, OneSteps, NEW r \in MapReqs, P!Begin(r, "bulk")
  PROVE  TwinInv'
<1>1. PICK todo \in SUBSET Rows : P!Goto(r, P!Asking(r, P!Start("bulk", todo)))
  BY BeginStarts
<1>2. PICK a : a = P!Asking(r, P!Start("bulk", todo)) /\ a.pc \in {"got", "load"}
  BY StartBusy, AskingKeeps
<1>3. parties' = parties /\ cache' = cache
  BY DEF P!Begin, P!tables
<1> QED
  BY <1>1, <1>2, <1>3, TwinsRest

\* Before it takes its next group, a request knows every party of a stem it has ahead.
LEMMA AheadOfGroup ==
  ASSUME MapInv, FreshInv, TwinInv, NEW r \in MapReqs, P!BulkGroup(r)
  PROVE  \A p \in parties \ mapReq[r].corpus.parties, row \in mapReq[r].todo : Stem[p] # Stem[NameOf[row]]
<1>1. CASE mapReq[r].pc = "got"
  <2>1. mapReq[r].corpus = P!Current
    BY <1>1 DEF FreshInv, Knows
  <2> QED
    BY <2>1 DEF P!Current
<1>2. CASE mapReq[r].pc = "next"
  <2>1. mapReq[r] # P!Idle /\ mapReq[r].kind = "bulk" /\ Rest(mapReq[r]) = mapReq[r].todo
    BY <1>2 DEF P!Idle, P!BulkGroup, Rest
  <2>2. Ahead(mapReq[r], parties)
    BY <2>1 DEF TwinInv
  <2> QED
    BY <1>2, <2>1, <2>2 DEF Ahead
<1> QED
  BY <1>1, <1>2 DEF P!BulkGroup

\* A request whose group is planned goes on with the others.
LEMMA PlansTwins ==
  ASSUME MapInv, FreshInv, TwinInv, OneSteps, NEW r \in MapReqs, NEW q \in Busy, ~P!At(r, "idle"),
         NEW p, NEW n, P!Goto(r, n), Plans(q, p, n), parties' = parties,
         \A x \in parties \ q.corpus.parties, row \in q.todo \ P!GroupOf(q) : Stem[x] # Stem[NameOf[row]]
  PROVE  TwinInv'
<1>1. n.pc = "next" /\ n.todo = q.todo \ P!GroupOf(q) /\ n.corpus = q.corpus
  BY DEF Plans
<1>2. Ahead(n, parties')
  BY <1>1 DEF Ahead, Rest
<1>3. (P!NoTwins)'
  BY DEF TwinInv, P!NoTwins
<1> QED
  BY <1>2, <1>3, TwinsGoOn

LEMMA GroupTwins ==
  ASSUME MappingParameters, MapInv, Grounded, FreshInv, TwinInv, OneSteps, NEW r \in MapReqs, P!BulkGroup(r)
  PROVE  TwinInv'
<1>1. PICK q \in Busy : q = mapReq[r] /\ q.todo # {} /\ q.kind = "bulk"
  BY GroupPlanned
<1>2. ~P!At(r, "idle") /\ parties' = parties
  BY GroupPlanned DEF P!BulkGroup, P!At, P!tables
<1>3. \A p \in parties \ q.corpus.parties, row \in q.todo : Stem[p] # Stem[NameOf[row]]
  BY <1>1, AheadOfGroup
<1>4. ASSUME NEW p \in parties, NEW n, P!Goto(r, n), Plans(q, p, n) PROVE TwinInv'
  BY <1>2, <1>3, <1>4, PlansTwins
<1>5. ASSUME P!Goto(r, [q EXCEPT !.pc = "create"]),
             P!ExactMatches(q.corpus, NameOf[P!Min(q.todo)]) = {}
      PROVE  TwinInv'
  <2>1. PICK n : n = [q EXCEPT !.pc = "create"]
    OBVIOUS
  <2>2. n.pc = "create" /\ n.todo = q.todo /\ n.corpus = q.corpus
    BY <2>1 DEF Busy
  <2>3. P!Min(q.todo) \in q.todo
    BY <1>1, FirstRow
  <2>4. \A p \in q.corpus.parties : Stem[p] # Stem[NameOf[P!Min(q.todo)]]
    <3>1. \A p : p \in P!TextsOf(q.corpus, p)
      BY DEF P!TextsOf
    <3> QED
      BY <1>5, <3>1 DEF P!ExactMatches
  <2>5. \A p \in parties : Stem[p] # Stem[NameOf[P!Min(q.todo)]]
    BY <1>3, <2>3, <2>4
  <2>6. Ahead(n, parties')
    BY <1>2, <1>3, <2>2, <2>5 DEF Ahead, Rest
  <2>7. (P!NoTwins)'
    BY <1>2 DEF TwinInv, P!NoTwins
  <2> QED
    BY <1>2, <1>5, <2>1, <2>6, <2>7, TwinsGoOn
<1> QED
  BY <1>1, <1>4, <1>5, GroupPlanned

LEMMA CreateTwins ==
  ASSUME MappingParameters, MapInv, FreshInv, TwinInv, OneSteps, NEW r \in MapReqs, P!BulkCreate(r)
  PROVE  TwinInv'
<1>1. PICK q \in Busy : q = mapReq[r] /\ q.kind = "bulk" /\ q.pc = "create"
  BY GroupCreated DEF P!BulkCreate, P!At
<1>2. q # P!Idle /\ ~P!At(r, "idle")
  BY <1>1 DEF P!Idle, P!At
<1>3. Ahead(q, parties) /\ Rest(q) = q.todo
  BY <1>1, <1>2 DEF TwinInv, Rest
<1>4. NameOf[P!Min(q.todo)] \notin parties
  BY <1>1 DEF FreshInv, Knows
<1>5. PICK p \in Names : /\ p = NameOf[P!Min(q.todo)] /\ parties' = parties \cup {p}
                        /\ P!Goto(r, [q EXCEPT !.pc = "alias", !.party = p])
  BY <1>1, <1>4, GroupCreated
<1>6. \A x \in parties : Stem[x] # Stem[p]
  BY <1>1, <1>3, <1>5 DEF Ahead
<1>7. (P!NoTwins)'
  BY <1>5, <1>6 DEF TwinInv, P!NoTwins
<1>8. PICK n : n = [q EXCEPT !.pc = "alias", !.party = p]
  OBVIOUS
<1>9. n.pc = "alias" /\ n.todo = q.todo /\ n.corpus = q.corpus
  BY <1>8, CreatedIs
<1>10. Rest(n) = {row \in q.todo : Stem[NameOf[row]] # Stem[p]}
  BY <1>5, <1>9 DEF Rest, P!GroupOf
<1>11. ASSUME NEW x \in parties' \ n.corpus.parties, NEW row \in Rest(n)
       PROVE  Stem[x] # Stem[NameOf[row]]
  <2>1. row \in q.todo /\ Stem[NameOf[row]] # Stem[p]
    BY <1>10
  <2>2. x = p \/ x \in parties \ q.corpus.parties
    BY <1>5, <1>9
  <2> QED
    BY <1>1, <1>3, <2>1, <2>2 DEF Ahead
<1>12. Ahead(n, parties')
  BY <1>9, <1>11 DEF Ahead
<1> QED
  BY <1>2, <1>5, <1>7, <1>8, <1>12, TwinsGoOn

LEMMA AliasTwins ==
  ASSUME MappingParameters, MapInv, Grounded, FreshInv, TwinInv, OneSteps, NEW r \in MapReqs, P!BulkAlias(r)
  PROVE  TwinInv'
<1>1. PICK q \in Busy : q = mapReq[r] /\ q.kind = "bulk" /\ q.pc = "alias"
  BY GroupNamed
<1>2. q # P!Idle /\ ~P!At(r, "idle") /\ parties' = parties
  BY <1>1, GroupNamed DEF P!Idle, P!At
<1>3. Ahead(q, parties) /\ Rest(q) = q.todo \ P!GroupOf(q)
  BY <1>1, <1>2 DEF TwinInv, Rest
<1>4. PICK p \in parties, n \in Busy : P!Goto(r, n) /\ Plans(q, p, n)
  BY <1>1, GroupNamed
<1>5. \A x \in parties \ q.corpus.parties, row \in q.todo \ P!GroupOf(q) : Stem[x] # Stem[NameOf[row]]
  BY <1>1, <1>3 DEF Ahead
<1> QED
  BY <1>2, <1>4, <1>5, PlansTwins

LEMMA CloseTwins ==
  ASSUME MappingParameters, MapInv, Grounded, FreshInv, TwinInv, OneSteps, NEW r \in MapReqs, P!BulkClose(r)
  PROVE  TwinInv'
<1>1. PICK q : q = mapReq[r] /\ q.pc = "next" /\ q.kind = "bulk"
  BY CloseAliased
<1>2. PICK n \in Busy : P!Goto(r, n) /\ n.pc = "next" /\ n.todo = q.todo /\ n.corpus = q.corpus
  BY <1>1, CloseAliased
<1>3. q # P!Idle /\ ~P!At(r, "idle") /\ parties' = parties
  BY <1>1, CloseAliased DEF P!Idle, P!At
<1>4. Ahead(q, parties)
  BY <1>1, <1>3 DEF TwinInv
<1>5. Ahead(n, parties')
  BY <1>1, <1>2, <1>3, <1>4 DEF Ahead, Rest
<1>6. (P!NoTwins)'
  BY <1>3 DEF TwinInv, P!NoTwins
<1> QED
  BY <1>2, <1>3, <1>5, <1>6, TwinsGoOn

LEMMA CommitTwins ==
  ASSUME MappingParameters, MapInv, FreshInv, TwinInv, OneSteps, NEW r \in MapReqs, P!BulkCommit(r)
  PROVE  TwinInv'
<1>1. PICK q \in Busy : q = mapReq[r] /\ ~P!At(r, "idle")
  BY MapFields DEF P!BulkCommit, P!At
<1>2. PICK N : N = P!NoPlan
  OBVIOUS
<1> DEFINE d == [q EXCEPT !.pc = "drop", !.kind = "view", !.plan = N, !.age = 0]
<1>3. d.pc = "drop"
  BY DEF Busy
<1>4. (P!End(r) \/ P!Goto(r, d)) /\ parties' = parties
  BY <1>1, <1>2 DEF P!BulkCommit
<1> HIDE DEF d
<1> QED
  BY <1>1, <1>3, <1>4, TwinsEnd, TwinsRest

LEMMA TickTwins == ASSUME MapInv, TwinInv, P!Tick PROVE TwinInv'
<1>1. parties' = parties
  BY DEF P!Tick, P!tables
<1>2. ASSUME NEW s \in MapReqs, mapReq'[s] # P!Idle PROVE Ahead(mapReq'[s], parties')
  <2>1. mapReq[s] # P!Idle
    BY <1>2 DEF P!Tick
  <2>2. PICK old \in Busy : old = mapReq[s]
    BY <2>1, RequestsAre DEF MapInv
  <2>3. PICK q : q = mapReq'[s]
    OBVIOUS
  <2>4. PICK l : q = [old EXCEPT !.age = @ + 1, !.lag = l]
    BY <2>1, <2>2, <2>3 DEF P!Tick
  <2>5. q.kind = old.kind /\ q.pc = old.pc /\ q.todo = old.todo /\ q.corpus = old.corpus
    BY <2>4 DEF Busy
  <2>6. Ahead(old, parties)
    BY <2>1, <2>2 DEF TwinInv
  <2>7. Rest(q) = Rest(old)
    BY <2>5 DEF Rest, P!GroupOf
  <2> QED
    BY <1>1, <2>3, <2>5, <2>6, <2>7 DEF Ahead
<1>3. (P!NoTwins)'
  BY <1>1 DEF TwinInv, P!NoTwins
<1> QED
  BY <1>2, <1>3 DEF TwinInv

LEMMA BulksAlone ==
  ASSUME MappingParameters, MapInv, Grounded, GroupInv, FreshInv, TwinInv, OneSteps, P!Bulks \/ P!Internal
  PROVE  TwinInv'
<1>1. ASSUME NEW p \in Procs, P!Crash(p) PROVE TwinInv'
  BY <1>1 DEF P!Crash, P!tables, TwinInv, P!NoTwins
<1>2. ASSUME NEW r \in MapReqs, P!Advance(r) PROVE TwinInv'
  <2>1. ~P!At(r, "idle") => mapReq[r].kind \in {"bulk", "view"} /\ mapReq[r].pc # "patch"
    BY DEF GroupInv, ByGroup, P!At, P!Idle
  <2>2. ~P!AutoRows(r) /\ ~P!AutoLookup(r) /\ ~P!AutoPatch(r)
    BY <2>1 DEF P!AutoRows, P!AutoLookup, P!AutoPatch, P!At
  <2>3. ASSUME P!View(r) PROVE TwinInv'
    BY <2>3, TwinsEnd DEF P!View, P!tables
  <2> QED
    BY <1>2, <2>2, <2>3, CorpusTwins, GroupTwins, CreateTwins, AliasTwins, CloseTwins, CommitTwins
       DEF P!Advance
<1> QED
  BY <1>1, <1>2, BeginTwins, TickTwins DEF P!Bulks, P!Internal, P!Works

-----------------------------------------------------------------------------
(* What the run of MCConfiguration checks of mappings *)

LEMMA GroupsBegin ==
  ASSUME MCInit, which # "views" PROVE GroupInv
<1>1. P!Init
  BY DEF MCInit
<1>2. Left(chosen) = Rows /\ Whole(Rows)
  BY <1>1 DEF P!Init, Left, Whole
<1>3. parties = {} /\ \A r \in MapReqs : mapReq[r] = P!Idle
  BY <1>1 DEF P!Init
<1> QED
  BY <1>2, <1>3 DEF GroupInv, ByGroup

LEMMA LonersBegin ==
  ASSUME MappingParameters, LonersShare, MCInit, which # "views" PROVE FreshInv
<1>1. P!Init
  BY DEF MCInit
<1>2. /\ \A r \in MapReqs : mapReq[r] = P!Idle
      /\ \A p \in Procs : cache[p] = Cold
  BY <1>1 DEF P!Init
<1>3. \A r \in MapReqs : Knows(mapReq[r], parties, P!Current)
  BY <1>2, IdleIsClean
<1>4. \A r \in Loners : cache[ProcOf[r]] = Cold
  BY <1>2 DEF MappingParameters, LonersShare
<1> QED
  BY <1>2, <1>3, <1>4 DEF FreshInv

\* The part of the invariant that holds in every circumstance.
LEMMA MappingsKeep ==
  ASSUME MappingParameters, MapInv, Grounded,
         [MCNext]_<<which, periodVars, mapVars, vars, accessVars, figuresVars>>
  PROVE  MapInv' /\ Grounded'
  BY MappingMoves, MappingIsNext, MapNext

LEMMA StandingStill ==
  ASSUME UNCHANGED mapVars
  PROVE  (GroupInv => GroupInv') /\ (FreshInv => FreshInv') /\ (TwinInv => TwinInv')
<1>1. P!Current' = P!Current
  BY SameCorpus DEF mapVars
<1> QED
  BY <1>1 DEF mapVars, GroupInv, FreshInv, TwinInv, P!NoTwins

\* Of the run's behaviours, for any number of requests, processes and names: a request uses
\* no corpus older than TTL, and requests one at a time in one process read what they wrote
\* (loadCachedAliasCorpus, invalidateAliasCorpus).
THEOREM CorpusTimely ==
  ASSUME MappingParameters, LonersShare, Names # {} PROVE MCSpec => []StaleAtMostTtl
<1> DEFINE MCInv == MapInv /\ Grounded /\ (which = "mappings, alone" => FreshInv)
<1>1. MCInit => MCInv
  BY MapInit, LonersBegin
<1>2. ASSUME MCInv, [MCNext]_<<which, periodVars, mapVars, vars, accessVars, figuresVars>>
      PROVE  MCInv'
  <2>1. MapInv' /\ Grounded'
    BY <1>2, MappingsKeep
  <2>2. ASSUME which' = "mappings, alone" PROVE FreshInv'
    <3>1. which = "mappings, alone" /\ FreshInv /\ [Mappings]_mapVars
      BY <1>2, <2>2, MappingMoves
    <3>2. CASE Mappings
      <4>1. OneSteps /\ (P!Views \/ P!Bulks \/ P!Others \/ P!Internal)
        BY <3>1, <3>2 DEF Mappings, OneSteps
      <4> QED
        BY <1>2, <3>1, <4>1, AloneFresh
    <3> QED
      BY <3>1, <3>2, StandingStill
  <2> QED
    BY <2>1, <2>2
<1>3. MapInv => P!StaleAtMostTtl
  BY MapTells
<1>4. FreshInv => P!NextReadFresh
  BY DEF FreshInv, Knows, P!NextReadFresh, P!At
<1>5. MCInv => StaleAtMostTtl
  BY <1>3, <1>4 DEF StaleAtMostTtl
<1> QED
  BY <1>1, <1>2, <1>5, PTL DEF MCSpec

\* Of the run's behaviours, for any number of requests, processes, snapshots and names: bulk
\* mappings that overlap and fail make no two parties of a stem that the staged snapshots
\* spell alike, and one at a time in one process none of any stem (bulkMapParties).
THEOREM NoTwinsMade ==
  ASSUME MappingParameters, LonersShare, Names # {} PROVE MCSpec => []NoTwinsByBulk
<1> DEFINE MCInv == /\ MapInv /\ Grounded
                    /\ which \in {"bulk mappings", "bulks, alone"} => GroupInv
                    /\ which = "bulks, alone" => FreshInv /\ TwinInv
<1>1. ASSUME MCInit PROVE MCInv
  <2>1. ASSUME which = "bulks, alone" PROVE TwinInv
    <3>1. parties = {} /\ \A r \in MapReqs : mapReq[r] = P!Idle
      BY <1>1, <2>1 DEF MCInit, P!Init
    <3> QED
      BY <3>1 DEF TwinInv, P!NoTwins
  <2> QED
    BY <1>1, <2>1, MapInit, GroupsBegin, LonersBegin
<1>2. ASSUME MCInv, [MCNext]_<<which, periodVars, mapVars, vars, accessVars, figuresVars>>
      PROVE  MCInv'
  <2>1. MapInv' /\ Grounded'
    BY <1>2, MappingsKeep
  <2>2. which' = which /\ [Mappings]_mapVars
    BY <1>2, MappingMoves
  <2>3. ASSUME which = "bulk mappings", Mappings PROVE GroupInv'
    <3>1. P!Bulks \/ P!Failures \/ P!Internal
      BY <2>3 DEF Mappings, P!Internal, P!Failures
    <3> QED
      BY <1>2, <2>3, <3>1, BulksByGroup
  <2>4. ASSUME which = "bulks, alone", Mappings PROVE GroupInv' /\ FreshInv' /\ TwinInv'
    <3>1. OneSteps /\ (P!Bulks \/ P!Internal)
      BY <2>4 DEF Mappings, OneSteps
    <3> QED
      BY <1>2, <2>4, <3>1, BulksByGroup, AloneFresh, BulksAlone
  <2> QED
    BY <1>2, <2>1, <2>2, <2>3, <2>4, StandingStill
<1>3. ASSUME MCInv PROVE NoTwinsByBulk
  BY <1>3, NoTwinsFollows DEF NoTwinsByBulk, TwinInv
<1> QED
  BY <1>1, <1>2, <1>3, PTL DEF MCSpec

-----------------------------------------------------------------------------
(* Figures *)

\* What FiguresProofs assumes of parties, invoices and rates holds of the run's.
LEMMA FiguresParameters == F!Parameters
<1> DEFINE FirstRate == [from |-> "AED", since |-> 30, rate |-> 2]
           NextRate == [from |-> "AED", since |-> 38, rate |-> 4]
<1>1. F!IsFiniteSet(1 .. 3)
  <2>1. 1 \in Int /\ 3 \in Int
    OBVIOUS
  <2> QED
    BY <2>1, F!FS_Interval
<1>2. F!IsFiniteSet({FirstRate, NextRate})
  <2> HIDE DEF FirstRate, NextRate
  <2>1. F!IsFiniteSet({})
    BY F!FS_EmptySet
  <2>2. F!IsFiniteSet({} \cup {FirstRate})
    BY <2>1, F!FS_AddElement
  <2>3. F!IsFiniteSet({} \cup {FirstRate} \cup {NextRate})
    BY <2>2, F!FS_AddElement
  <2>4. {} \cup {FirstRate} \cup {NextRate} = {FirstRate, NextRate}
    OBVIOUS
  <2> QED
    BY <2>3, <2>4
<1>3. /\ <<"IND", "IND", "UAE">> \in [1 .. 3 -> {"IND", "UAE"}]
      /\ <<1, 2, 3>> \in [1 .. 3 -> 1 .. 3]
      /\ <<70, 20, 39>> \in [1 .. 3 -> Int] /\ <<30, 19, 30>> \in [1 .. 3 -> Int]
  OBVIOUS
<1>4. "ANY" \notin {"IND", "UAE"}
  OBVIOUS
<1>5. \A r \in {FirstRate, NextRate} : r.since \in Int /\ r.rate \in Int
  OBVIOUS
<1>6. {100, 130} \subseteq Int /\ {3, 5} \subseteq Int /\ 2 \in Nat /\ 3 \in Nat
  OBVIOUS
<1> QED
  BY <1>1, <1>2, <1>3, <1>4, <1>5, <1>6 DEF F!Parameters

\* Of the run's behaviours: the dashboards, the accounts, the pages of the parties, the
\* register and the exports tell the same amounts (server/dashboard, server/accounts,
\* server/parties, server/invoices).
THEOREM FiguresAgreed == MCSpec => []FiguresAgree
<1>1. MCInit => F!Inv
  BY F!InvInit, FiguresParameters DEF MCInit, F!Parameters
<1>2. ASSUME F!Inv, [MCNext]_<<which, periodVars, mapVars, vars, accessVars, figuresVars>>
      PROVE  F!Inv'
  <2>1. [F!Next]_(F!vars)
    BY <1>2 DEF MCNext, figuresVars, F!vars
  <2>2. 3 \in Nat
    OBVIOUS
  <2> QED
    BY <1>2, <2>1, <2>2, F!InvStep
<1>3. F!Inv => FiguresAgree
  BY F!InvTells, FiguresParameters DEF FiguresAgree
<1> QED
  BY <1>1, <1>2, <1>3, PTL DEF MCSpec

-----------------------------------------------------------------------------
(* Access: the routes *)

\* Who may have a handler change something.
WriterOf(r, m) ==
  \A who \in r.on[m].may :
    \/ who \in B!Working
    \/ who = "REVIEWER" /\ r = B!Review /\ m = "POST"
    \/ r \in B!SigningIn

WritesWell(S) == \A r \in S : \A m \in DOMAIN r.on : r.on[m].changes => WriterOf(r, m)

LEMMA AdministrationWrites == WritesWell(B!Administration)
  BY DEF WritesWell, WriterOf,
     B!Working, B!Route, B!Handler, B!Reads, B!Writes, B!Immutable, B!OrSecret,
     B!AssertReadOnlyForCfo, B!Admins, B!Reading, B!Readers, B!Roles, B!Everyone, B!Nobody,
     B!Administration, B!AuditLog, B!DataReset, B!DigestApprove, B!DigestSkip, B!DigestTrigger,
     B!DigestEvents, B!DigestEvent, B!EmailOutbox, B!EmailMarkSent, B!EmailProcess, B!EmailRules,
     B!EmailRule, B!ExceptionBuckets, B!ExceptionBucket, B!Lobs, B!Lob, B!AllUsers,
     B!UserApprove, B!UserDeactivate, B!UserReactivate, B!XeroCallback, B!XeroConnect,
     B!XeroDisconnect, B!FxBackfill, B!StreakTick

LEMMA ConfiguringWrites == WritesWell(B!Configuring)
  BY DEF WritesWell, WriterOf,
     B!Working, B!Route, B!Handler, B!Reads, B!Writes, B!Immutable, B!OrSecret,
     B!AssertReadOnlyForCfo, B!Admins, B!Reading, B!Readers, B!Roles, B!Everyone, B!Nobody,
     B!Configuring, B!Aliases, B!Alias, B!CreditPeriod, B!CreditPeriodBulk, B!CreditPeriodRow,
     B!EntityDefaults, B!FxRates, B!FxRate, B!FxImport, B!ColumnMapping, B!Views, B!View

LEMMA ImportingWrites == WritesWell(B!Importing)
  BY DEF WritesWell, WriterOf,
     B!Working, B!Route, B!Handler, B!Reads, B!Writes, B!Immutable, B!OrSecret,
     B!AssertReadOnlyForCfo, B!Admins, B!Reading, B!Readers, B!Roles, B!Everyone, B!Nobody,
     B!Importing, B!Snapshots, B!Snapshot, B!Upload, B!XeroPull, B!Discard, B!Publish,
     B!Reconciliation, B!Review, B!Staging, B!StagingRow, B!AutoCanonicalize, B!BulkPartyMap,
     B!WarningsAck

LEMMA CollectingWrites == WritesWell(B!Collecting)
  BY DEF WritesWell, WriterOf,
     B!Working, B!Route, B!Handler, B!Reads, B!Writes, B!Immutable, B!OrSecret,
     B!AssertReadOnlyForCfo, B!Admins, B!Reading, B!Readers, B!Roles, B!Everyone, B!Nobody,
     B!Collecting, B!Tasks, B!Task, B!Disputes, B!Dispute, B!Promises, B!Promise, B!Exceptions,
     B!Exception, B!InvoiceExceptions, B!FollowUps, B!InvoiceFollowUps, B!PartyFollowUps,
     B!Invoices, B!Invoice, B!ChangesOf, B!Acknowledge, B!AllParties, B!Party, B!Dashboard,
     B!AgeingReport, B!ExceptionsReport, B!PartiesReport, B!UploadsReport, B!Nudges, B!Streak

LEMMA SigningInWrites == WritesWell(B!SigningIn)
  BY DEF WritesWell, WriterOf,
     B!Working, B!Route, B!Handler, B!Reads, B!Writes, B!Immutable, B!OrSecret,
     B!AssertReadOnlyForCfo, B!Admins, B!Reading, B!Readers, B!Roles, B!Everyone, B!Nobody,
     B!SigningIn, B!ForgotPassword, B!LoginPassword, B!Me, B!OtpConfirm, B!OtpRequest,
     B!OtpVerify, B!Register, B!ResetPassword, B!VerifyConfirm, B!VerifyResend, B!Health

LEMMA RoutesWrite == WritesWell(B!Routes)
  BY AdministrationWrites, ConfiguringWrites, ImportingWrites, CollectingWrites, SigningInWrites
  DEF WritesWell, B!Routes

AdminControls ==
  B!UserActions \cup B!ResetForm \cup B!RuleToggle \cup B!BucketsManager \cup B!RateForm
    \cup B!RateImportForm \cup B!DigestButtons \cup B!LobActions \cup B!ConnectXero
    \cup B!DisconnectXero \cup B!AliasesManager \cup B!ReviewActions

WorkControls ==
  B!DefaultsCard \cup B!PeriodTable \cup B!FollowUpForm \cup B!PeriodPanel \cup B!ExportRegister
    \cup B!ViewSwitcher \cup B!ViewComposer \cup B!ChangesPanel \cup B!Kanban \cup B!UploadForm
    \cup B!PullCard \cup B!RowActions \cup B!PublishPanel \cup B!PartyPanel \cup B!MappingPanel
    \cup B!Exports \cup B!Sidebar \cup B!StreakBadge \cup B!NudgeStack

SignInControls ==
  B!LoginForm \cup B!OtpForm \cup B!OtpVerifyForm \cup B!RegisterForm \cup B!ResendForm
    \cup B!ForgotForm \cup B!NewPasswordForm \cup B!MailedLinks

\* The handler of request q, and no other has its path, lets the role in.
Grants(q, who) ==
  \A r \in B!Routes : r.path = q.path => q.method \in DOMAIN r.on /\ who \in r.on[q.method].may

\* A request of a route there is.
Asks(q) == \E r \in B!Routes, m \in {"GET", "POST", "PATCH", "PUT", "DELETE"} : q = B!To(r, m)

LEMMA AdminGranted == \A q \in AdminControls : \A who \in {"ADMIN"} : Grants(q, who)
  BY SMTT(90) DEF Grants, AdminControls, B!To,
     B!UserActions, B!ResetForm, B!RuleToggle, B!BucketsManager, B!RateForm, B!RateImportForm,
     B!DigestButtons, B!LobActions, B!ConnectXero, B!DisconnectXero, B!AliasesManager,
     B!ReviewActions, B!Working, B!Route, B!Handler, B!Reads, B!Writes, B!Immutable, B!OrSecret,
     B!AssertReadOnlyForCfo, B!Admins, B!Reading, B!Readers, B!Roles, B!Everyone, B!Nobody,
     B!Routes, B!Administration, B!AuditLog, B!DataReset, B!DigestApprove, B!DigestSkip,
     B!DigestTrigger, B!DigestEvents, B!DigestEvent, B!EmailOutbox, B!EmailMarkSent,
     B!EmailProcess, B!EmailRules, B!EmailRule, B!ExceptionBuckets, B!ExceptionBucket, B!Lobs,
     B!Lob, B!AllUsers, B!UserApprove, B!UserDeactivate, B!UserReactivate, B!XeroCallback,
     B!XeroConnect, B!XeroDisconnect, B!FxBackfill, B!StreakTick, B!Configuring, B!Aliases,
     B!Alias, B!CreditPeriod, B!CreditPeriodBulk, B!CreditPeriodRow, B!EntityDefaults, B!FxRates,
     B!FxRate, B!FxImport, B!ColumnMapping, B!Views, B!View, B!Importing, B!Snapshots,
     B!Snapshot, B!Upload, B!XeroPull, B!Discard, B!Publish, B!Reconciliation, B!Review,
     B!Staging, B!StagingRow, B!AutoCanonicalize, B!BulkPartyMap, B!WarningsAck, B!Collecting,
     B!Tasks, B!Task, B!Disputes, B!Dispute, B!Promises, B!Promise, B!Exceptions, B!Exception,
     B!InvoiceExceptions, B!FollowUps, B!InvoiceFollowUps, B!PartyFollowUps, B!Invoices,
     B!Invoice, B!ChangesOf, B!Acknowledge, B!AllParties, B!Party, B!Dashboard, B!AgeingReport,
     B!ExceptionsReport, B!PartiesReport, B!UploadsReport, B!Nudges, B!Streak, B!SigningIn,
     B!ForgotPassword, B!LoginPassword, B!Me, B!OtpConfirm, B!OtpRequest, B!OtpVerify,
     B!Register, B!ResetPassword, B!VerifyConfirm, B!VerifyResend, B!Health

LEMMA WorkGranted == \A q \in WorkControls : \A who \in B!Working : Grants(q, who)
  BY SMTT(90) DEF Grants, WorkControls, B!To,
     B!DefaultsCard, B!PeriodTable, B!FollowUpForm, B!PeriodPanel, B!ExportRegister,
     B!ViewSwitcher, B!ViewComposer, B!ChangesPanel, B!Kanban, B!UploadForm, B!PullCard,
     B!RowActions, B!PublishPanel, B!PartyPanel, B!MappingPanel, B!Exports, B!Sidebar,
     B!StreakBadge, B!NudgeStack, B!Working, B!Route, B!Handler, B!Reads, B!Writes, B!Immutable,
     B!OrSecret, B!AssertReadOnlyForCfo, B!Admins, B!Reading, B!Readers, B!Roles, B!Everyone,
     B!Nobody, B!Routes, B!Administration, B!AuditLog, B!DataReset, B!DigestApprove,
     B!DigestSkip, B!DigestTrigger, B!DigestEvents, B!DigestEvent, B!EmailOutbox,
     B!EmailMarkSent, B!EmailProcess, B!EmailRules, B!EmailRule, B!ExceptionBuckets,
     B!ExceptionBucket, B!Lobs, B!Lob, B!AllUsers, B!UserApprove, B!UserDeactivate,
     B!UserReactivate, B!XeroCallback, B!XeroConnect, B!XeroDisconnect, B!FxBackfill,
     B!StreakTick, B!Configuring, B!Aliases, B!Alias, B!CreditPeriod, B!CreditPeriodBulk,
     B!CreditPeriodRow, B!EntityDefaults, B!FxRates, B!FxRate, B!FxImport, B!ColumnMapping,
     B!Views, B!View, B!Importing, B!Snapshots, B!Snapshot, B!Upload, B!XeroPull, B!Discard,
     B!Publish, B!Reconciliation, B!Review, B!Staging, B!StagingRow, B!AutoCanonicalize,
     B!BulkPartyMap, B!WarningsAck, B!Collecting, B!Tasks, B!Task, B!Disputes, B!Dispute,
     B!Promises, B!Promise, B!Exceptions, B!Exception, B!InvoiceExceptions, B!FollowUps,
     B!InvoiceFollowUps, B!PartyFollowUps, B!Invoices, B!Invoice, B!ChangesOf, B!Acknowledge,
     B!AllParties, B!Party, B!Dashboard, B!AgeingReport, B!ExceptionsReport, B!PartiesReport,
     B!UploadsReport, B!Nudges, B!Streak, B!SigningIn, B!ForgotPassword, B!LoginPassword, B!Me,
     B!OtpConfirm, B!OtpRequest, B!OtpVerify, B!Register, B!ResetPassword, B!VerifyConfirm,
     B!VerifyResend, B!Health

LEMMA SignInGranted == \A q \in SignInControls : \A who \in B!Working : Grants(q, who)
  BY SMTT(90) DEF Grants, SignInControls, B!To,
     B!LoginForm, B!OtpForm, B!OtpVerifyForm, B!RegisterForm, B!ResendForm, B!ForgotForm,
     B!NewPasswordForm, B!MailedLinks, B!Working, B!Route, B!Handler, B!Reads, B!Writes,
     B!Immutable, B!OrSecret, B!AssertReadOnlyForCfo, B!Admins, B!Reading, B!Readers, B!Roles,
     B!Everyone, B!Nobody, B!Routes, B!Administration, B!AuditLog, B!DataReset, B!DigestApprove,
     B!DigestSkip, B!DigestTrigger, B!DigestEvents, B!DigestEvent, B!EmailOutbox,
     B!EmailMarkSent, B!EmailProcess, B!EmailRules, B!EmailRule, B!ExceptionBuckets,
     B!ExceptionBucket, B!Lobs, B!Lob, B!AllUsers, B!UserApprove, B!UserDeactivate,
     B!UserReactivate, B!XeroCallback, B!XeroConnect, B!XeroDisconnect, B!FxBackfill,
     B!StreakTick, B!Configuring, B!Aliases, B!Alias, B!CreditPeriod, B!CreditPeriodBulk,
     B!CreditPeriodRow, B!EntityDefaults, B!FxRates, B!FxRate, B!FxImport, B!ColumnMapping,
     B!Views, B!View, B!Importing, B!Snapshots, B!Snapshot, B!Upload, B!XeroPull, B!Discard,
     B!Publish, B!Reconciliation, B!Review, B!Staging, B!StagingRow, B!AutoCanonicalize,
     B!BulkPartyMap, B!WarningsAck, B!Collecting, B!Tasks, B!Task, B!Disputes, B!Dispute,
     B!Promises, B!Promise, B!Exceptions, B!Exception, B!InvoiceExceptions, B!FollowUps,
     B!InvoiceFollowUps, B!PartyFollowUps, B!Invoices, B!Invoice, B!ChangesOf, B!Acknowledge,
     B!AllParties, B!Party, B!Dashboard, B!AgeingReport, B!ExceptionsReport, B!PartiesReport,
     B!UploadsReport, B!Nudges, B!Streak, B!SigningIn, B!ForgotPassword, B!LoginPassword, B!Me,
     B!OtpConfirm, B!OtpRequest, B!OtpVerify, B!Register, B!ResetPassword, B!VerifyConfirm,
     B!VerifyResend, B!Health

LEMMA AdminAsked == \A q \in AdminControls : Asks(q)
  BY DEF Asks, AdminControls, B!To,
     B!UserActions, B!ResetForm, B!RuleToggle, B!BucketsManager, B!RateForm, B!RateImportForm,
     B!DigestButtons, B!LobActions, B!ConnectXero, B!DisconnectXero, B!AliasesManager,
     B!ReviewActions, B!Routes, B!Administration, B!Configuring, B!Importing, B!Collecting,
     B!SigningIn

LEMMA WorkAsked == \A q \in WorkControls : Asks(q)
  BY DEF Asks, WorkControls, B!To,
     B!DefaultsCard, B!PeriodTable, B!FollowUpForm, B!PeriodPanel, B!ExportRegister,
     B!ViewSwitcher, B!ViewComposer, B!ChangesPanel, B!Kanban, B!UploadForm, B!PullCard,
     B!RowActions, B!PublishPanel, B!PartyPanel, B!MappingPanel, B!Exports, B!Sidebar,
     B!StreakBadge, B!NudgeStack, B!Routes, B!Administration, B!Configuring, B!Importing,
     B!Collecting, B!SigningIn

LEMMA SignInAsked == \A q \in SignInControls : Asks(q)
  BY DEF Asks, SignInControls, B!To,
     B!LoginForm, B!OtpForm, B!OtpVerifyForm, B!RegisterForm, B!ResendForm, B!ForgotForm,
     B!NewPasswordForm, B!MailedLinks, B!Routes, B!Administration, B!Configuring, B!Importing,
     B!Collecting, B!SigningIn

LEMMA MethodsAre == \A r \in B!Routes : DOMAIN r.on \subseteq {"GET", "POST", "PATCH", "PUT", "DELETE"}
  BY DEF
     B!Route, B!Routes, B!Administration, B!AuditLog, B!DataReset, B!DigestApprove, B!DigestSkip,
     B!DigestTrigger, B!DigestEvents, B!DigestEvent, B!EmailOutbox, B!EmailMarkSent,
     B!EmailProcess, B!EmailRules, B!EmailRule, B!ExceptionBuckets, B!ExceptionBucket, B!Lobs,
     B!Lob, B!AllUsers, B!UserApprove, B!UserDeactivate, B!UserReactivate, B!XeroCallback,
     B!XeroConnect, B!XeroDisconnect, B!FxBackfill, B!StreakTick, B!Configuring, B!Aliases,
     B!Alias, B!CreditPeriod, B!CreditPeriodBulk, B!CreditPeriodRow, B!EntityDefaults, B!FxRates,
     B!FxRate, B!FxImport, B!ColumnMapping, B!Views, B!View, B!Importing, B!Snapshots,
     B!Snapshot, B!Upload, B!XeroPull, B!Discard, B!Publish, B!Reconciliation, B!Review,
     B!Staging, B!StagingRow, B!AutoCanonicalize, B!BulkPartyMap, B!WarningsAck, B!Collecting,
     B!Tasks, B!Task, B!Disputes, B!Dispute, B!Promises, B!Promise, B!Exceptions, B!Exception,
     B!InvoiceExceptions, B!FollowUps, B!InvoiceFollowUps, B!PartyFollowUps, B!Invoices,
     B!Invoice, B!ChangesOf, B!Acknowledge, B!AllParties, B!Party, B!Dashboard, B!AgeingReport,
     B!ExceptionsReport, B!PartiesReport, B!UploadsReport, B!Nudges, B!Streak, B!SigningIn,
     B!ForgotPassword, B!LoginPassword, B!Me, B!OtpConfirm, B!OtpRequest, B!OtpVerify,
     B!Register, B!ResetPassword, B!VerifyConfirm, B!VerifyResend, B!Health

-----------------------------------------------------------------------------
(* Access: the pages *)

AuthPaths ==
  {"/auth/login", "/auth/login/otp", "/auth/login/otp/verify", "/auth/register",
   "/auth/verify-email", "/auth/forgot-password", "/auth/reset-password", "mail",
   "/auth/pending"}

\* The roles a path is opened to.
RolesFor(path) ==
  CASE path \in {"/admin", "/admin/exception-buckets", "/admin/email-rules", "/admin/fx-rates",
                 "/admin/digest", "/admin/xero"} -> B!Admins
    [] path \in {"/snapshots/id/staging", "/upload"} -> B!Working
    [] path \in AuthPaths -> B!Everyone
    [] OTHER -> B!Reading

LEMMA AppPagesOpen ==
  \A p \in B!AppPages : p.roles = RolesFor(p.path) /\ p.path \notin AuthPaths
  BY DEF RolesFor, AuthPaths,
     B!Page, B!ReadingPage, B!ReadingPages, B!AppPages, B!AdminPage, B!AdminBuckets,
     B!AdminRules, B!AdminRates, B!AdminDigest, B!AdminXero, B!AdminLobs, B!PeriodsPage,
     B!AliasesPage, B!FollowUpsPage, B!PartyPage, B!InvoicesPage, B!DisputesPage, B!SnapshotPage,
     B!StagingPage, B!UploadPage, B!ReportsPage, B!FocusPage, B!Reading, B!Working, B!Readers,
     B!Admins

LEMMA AuthPagesOpen ==
  \A p \in B!AuthPages : p.roles = RolesFor(p.path) /\ p.path \in AuthPaths
  BY DEF RolesFor, AuthPaths, B!Page, B!AuthPage, B!AuthPages, B!Everyone

\* What a page shows to a role is for that role.
LEMMA AppPagesShow ==
  \A p \in B!AppPages : \A who \in p.roles :
    /\ p.controls[who] \subseteq AdminControls \cup WorkControls
    /\ who = "ANALYST" => p.controls[who] \subseteq WorkControls
  BY SMTT(90) DEF AdminControls, WorkControls,
     B!Page, B!ReadingPage, B!ReadingPages, B!AppPages, B!AdminPage, B!AdminBuckets,
     B!AdminRules, B!AdminRates, B!AdminDigest, B!AdminXero, B!AdminLobs, B!PeriodsPage,
     B!AliasesPage, B!FollowUpsPage, B!PartyPage, B!InvoicesPage, B!DisputesPage, B!SnapshotPage,
     B!StagingPage, B!UploadPage, B!ReportsPage, B!FocusPage, B!Working, B!Readers, B!Reading,
     B!Admins, B!Roles, B!Everyone, B!Nobody

LEMMA AuthPagesShow ==
  \A p \in B!AuthPages : \A who \in p.roles : p.controls[who] \subseteq SignInControls
  BY DEF SignInControls, B!Page, B!AuthPage, B!AuthPages, B!Everyone

LEMMA PagesOpen ==
  /\ \A p \in B!Pages : p.roles = RolesFor(p.path) /\ (B!Nobody \in p.roles => p \in B!AuthPages)
  /\ \E p \in B!Pages : p.path = B!LoginPage
  /\ \E p \in B!Pages : p.path = B!PendingPage
<1>1. \A p \in B!AppPages : B!Nobody \notin p.roles
  BY AppPagesOpen DEF RolesFor, AuthPaths, B!Nobody, B!Reading, B!Working, B!Readers, B!Admins
<1>2. /\ \E p \in B!AuthPages : p.path = B!LoginPage
      /\ \E p \in B!AuthPages : p.path = B!PendingPage
  BY DEF B!AuthPages, B!AuthPage, B!Page, B!LoginPage, B!PendingPage
<1> QED
  BY <1>1, <1>2, AppPagesOpen, AuthPagesOpen DEF B!Pages

-----------------------------------------------------------------------------
(* Access: what is on the screen *)

Controls == AdminControls \cup WorkControls \cup SignInControls

\* Whoever may work is let in by what the page shows, and so is whoever signs in on it.
ShownWorks ==
  fresh => \A q \in shown, who \in B!Working :
             B!CurrentRole \in {who, B!Nobody} => Grants(q, who)

LEMMA ControlsAsk == \A q \in Controls : Asks(q)
  BY AdminAsked, WorkAsked, SignInAsked DEF Controls

LEMMA LandsSomewhere ==
  ASSUME NEW p \in B!Pages, NEW to,
         to = (IF B!CurrentRole \in p.roles THEN p.path
               ELSE IF B!CurrentRole = B!Nobody THEN B!LoginPage ELSE B!PendingPage),
         NEW landed, landed = CHOOSE q \in B!Pages : q.path = to, B!CurrentRole \in B!Everyone
  PROVE  landed \in B!Pages /\ landed.path = to /\ B!CurrentRole \in landed.roles
<1>1. \E q \in B!Pages : q.path = to
  BY PagesOpen
<1>2. landed \in B!Pages /\ landed.path = to
  BY <1>1
<1>3. landed.roles = RolesFor(to)
  BY <1>2, PagesOpen
<1>4. RolesFor(B!LoginPage) = B!Everyone /\ RolesFor(B!PendingPage) = B!Everyone
  BY DEF RolesFor, AuthPaths, B!LoginPage, B!PendingPage
<1>5. B!CurrentRole \in p.roles => B!CurrentRole \in RolesFor(p.path)
  BY PagesOpen
<1> QED
  BY <1>2, <1>3, <1>4, <1>5

LEMMA OpensWell ==
  ASSUME B!TypeOK, NEW p \in B!Pages, B!Open(p)
  PROVE  /\ page' \in {q.path : q \in B!Pages} /\ shown' \subseteq Controls
         /\ ShownWorks'
<1>1. PICK to :
        to = (IF B!CurrentRole \in p.roles THEN p.path
              ELSE IF B!CurrentRole = B!Nobody THEN B!LoginPage ELSE B!PendingPage)
  OBVIOUS
<1>2. PICK landed : landed = CHOOSE q \in B!Pages : q.path = to
  OBVIOUS
<1>3. PICK who : who = B!CurrentRole
  OBVIOUS
<1>4. who \in B!Everyone
  BY <1>3 DEF B!CurrentRole, B!TypeOK, B!Everyone
<1>5. landed \in B!Pages /\ landed.path = to /\ who \in landed.roles
  BY <1>1, <1>2, <1>3, <1>4, LandsSomewhere
<1>6. /\ page' = to
      /\ shown' = landed.controls[who] \cup (IF p.path = to /\ p \in B!AppPages THEN B!Sidebar ELSE {})
      /\ UNCHANGED <<role, active, cookie>>
  BY <1>1, <1>2, <1>3 DEF B!Open
<1>7. B!CurrentRole' = who
  BY <1>3, <1>6 DEF B!CurrentRole
<1>8. B!Sidebar \subseteq WorkControls
  BY DEF WorkControls
<1>9. shown' \subseteq Controls
  BY <1>5, <1>6, <1>8, AppPagesShow, AuthPagesShow DEF B!Pages, Controls
<1>10. ASSUME NEW q \in shown', NEW w \in B!Working, who \in {w, B!Nobody} PROVE Grants(q, w)
  <2>1. CASE who = B!Nobody
    <3>1. landed \in B!AuthPages
      BY <1>5, <2>1, PagesOpen
    <3>2. p.path = to => p \in B!AuthPages
      <4>1. p.path = to => p.roles = landed.roles
        BY <1>5, PagesOpen
      <4> QED
        BY <1>5, <2>1, <4>1, PagesOpen
    <3>3. p \in B!AuthPages => p \notin B!AppPages
      BY AppPagesOpen, AuthPagesOpen
    <3>4. q \in SignInControls
      BY <1>5, <1>6, <1>10, <3>1, <3>2, <3>3, AuthPagesShow
    <3> QED
      BY <3>4, SignInGranted
  <2>2. CASE who = w
    <3>1. CASE w = "ANALYST"
      <4>1. q \in WorkControls \cup SignInControls
        BY <1>5, <1>6, <1>8, <1>10, <2>2, <3>1, AppPagesShow, AuthPagesShow DEF B!Pages
      <4> QED
        BY <4>1, WorkGranted, SignInGranted
    <3>2. CASE w = "ADMIN"
      <4>1. q \in Controls
        BY <1>9, <1>10
      <4> QED
        BY <3>2, <4>1, AdminGranted, WorkGranted, SignInGranted DEF Controls
    <3> QED
      BY <3>1, <3>2 DEF B!Working
  <2> QED
    BY <1>10, <2>1, <2>2
<1>11. ShownWorks'
  BY <1>7, <1>10 DEF ShownWorks
<1> QED
  BY <1>5, <1>6, <1>9, <1>11

-----------------------------------------------------------------------------
(* Access: a request and its answer *)

\* A request that is done was let in, and one that is let in is done.
LEMMA AnswerTells ==
  ASSUME NEW q, Asks(q)
  PROVE  /\ B!Answer(q, FALSE) \in B!Answers
         /\ \A who \in B!Working : B!CurrentRole = who /\ Grants(q, who) => B!Answer(q, FALSE) = "done"
         /\ B!Answer(q, FALSE) = "done" /\ B!HandlerOf(q).changes =>
              \E r \in B!Routes : /\ r.path = q.path /\ q.method \in DOMAIN r.on
                                  /\ r.on[q.method].changes
                                  /\ B!CurrentRole \in r.on[q.method].may
<1>1. PICK r : r = CHOOSE x \in B!Routes : x.path = q.path
  OBVIOUS
<1>2. \E x \in B!Routes : x.path = q.path
  BY DEF Asks, B!To
<1>3. r \in B!Routes /\ r.path = q.path
  BY <1>1, <1>2
<1>4. B!Answer(q, FALSE) =
        IF ~cookie THEN "redirected"
        ELSE IF q.method \notin DOMAIN r.on THEN "unsupported"
        ELSE IF B!CurrentRole \in r.on[q.method].may THEN "done" ELSE "refused"
  BY <1>1 DEF B!Answer
<1>5. B!Answer(q, FALSE) \in B!Answers
  BY <1>4 DEF B!Answers
<1>6. ASSUME NEW who \in B!Working, B!CurrentRole = who, Grants(q, who)
      PROVE  B!Answer(q, FALSE) = "done"
  <2>1. cookie
    BY <1>6 DEF B!CurrentRole, B!Nobody, B!Working
  <2>2. q.method \in DOMAIN r.on /\ who \in r.on[q.method].may
    BY <1>3, <1>6 DEF Grants
  <2> QED
    BY <1>4, <1>6, <2>1, <2>2
<1>7. ASSUME B!Answer(q, FALSE) = "done", B!HandlerOf(q).changes
      PROVE  q.method \in DOMAIN r.on /\ r.on[q.method].changes /\ B!CurrentRole \in r.on[q.method].may
  <2>1. cookie /\ q.method \in DOMAIN r.on /\ B!CurrentRole \in r.on[q.method].may
    BY <1>4, <1>7
  <2>2. B!HandlerOf(q) = r.on[q.method]
    BY <1>1, <2>1 DEF B!HandlerOf
  <2> QED
    BY <1>7, <2>1, <2>2
<1> QED
  BY <1>3, <1>5, <1>6, <1>7

\* Whatever is answered: somebody who works is not refused what is on the screen, and
\* nobody else is let in to change anything.
LEMMA SendsWell ==
  ASSUME B!TypeOK, NEW by \in B!Senders \ {"schedule"}, NEW q, Asks(q), B!Send(by, q, FALSE),
         by = "control" => \A who \in B!Working : B!CurrentRole = who => Grants(q, who)
  PROVE  /\ last'.by \in B!Senders /\ last'.answer \in B!Answers /\ last'.role \in B!Everyone
         /\ B!OfferedWorks' /\ B!ReadersChangeNothing'
<1>1. PICK answer : answer = B!Answer(q, FALSE)
  OBVIOUS
<1>2. PICK who : who = B!CurrentRole
  OBVIOUS
<1>3. PICK l : l = [by |-> by, to |-> q, role |-> who, answer |-> answer]
  OBVIOUS
<1>4. last' = l /\ l.by = by /\ l.to = q /\ l.role = who /\ l.answer = answer
  BY <1>1, <1>2, <1>3 DEF B!Send
<1>5. who \in B!Everyone
  BY <1>2 DEF B!CurrentRole, B!TypeOK, B!Everyone
<1>6. answer \in B!Answers
  BY <1>1, AnswerTells
<1>7. B!OfferedWorks'
  <2>1. by = "control" /\ who \in B!Working => answer = "done"
    BY <1>1, <1>2, AnswerTells
  <2> QED
    BY <1>4, <2>1 DEF B!OfferedWorks
<1>8. ASSUME answer = "done", B!HandlerOf(q).changes
      PROVE  \/ who \in B!Working
             \/ who = "REVIEWER" /\ q = B!To(B!Review, "POST")
             \/ q.path \in {r.path : r \in B!SigningIn}
  <2>1. PICK r \in B!Routes : /\ r.path = q.path /\ q.method \in DOMAIN r.on
                              /\ r.on[q.method].changes /\ who \in r.on[q.method].may
    BY <1>1, <1>2, <1>8, AnswerTells
  <2>2. \/ who \in B!Working
        \/ who = "REVIEWER" /\ r = B!Review /\ q.method = "POST"
        \/ r \in B!SigningIn
    BY <2>1, RoutesWrite DEF WritesWell, WriterOf
  <2>3. q = [path |-> q.path, method |-> q.method]
    BY DEF Asks, B!To
  <2> QED
    BY <2>1, <2>2, <2>3 DEF B!To
<1>9. B!ReadersChangeNothing'
  BY <1>4, <1>8 DEF B!ReadersChangeNothing
<1> QED
  BY <1>4, <1>5, <1>6, <1>7, <1>9

\* The schedule's request is nobody's.
LEMMA SchedulesWell ==
  ASSUME B!TypeOK, NEW q, B!Send("schedule", q, TRUE)
  PROVE  /\ last'.by \in B!Senders /\ last'.answer \in B!Answers /\ last'.role \in B!Everyone
         /\ B!OfferedWorks' /\ B!ReadersChangeNothing'
<1>1. last'.by = "schedule" /\ last'.answer = B!Answer(q, TRUE) /\ last'.role = B!CurrentRole
  BY DEF B!Send
<1>2. B!Answer(q, TRUE) \in B!Answers
  BY DEF B!Answer, B!Answers
<1>3. B!CurrentRole \in B!Everyone
  BY DEF B!CurrentRole, B!TypeOK, B!Everyone
<1> QED
  BY <1>1, <1>2, <1>3 DEF B!OfferedWorks, B!ReadersChangeNothing, B!Senders

\* A request leaves the person signed in who was, or signs in who was nobody.
LEMMA SendStays ==
  ASSUME B!TypeOK, ShownWorks, NEW by, NEW q, NEW secret \in BOOLEAN, B!Send(by, q, secret), shown' = shown
  PROVE  cookie' \in BOOLEAN /\ ShownWorks'
<1>1. cookie' \in BOOLEAN /\ (cookie => cookie')
  BY DEF B!Send, B!TypeOK
<1>2. UNCHANGED <<role, active, fresh>>
  BY DEF B!Send
<1>3. B!CurrentRole' = B!CurrentRole \/ B!CurrentRole = B!Nobody
  BY <1>1, <1>2 DEF B!CurrentRole, B!TypeOK
<1>4. ASSUME NEW who \in B!Working, B!CurrentRole' \in {who, B!Nobody}
      PROVE  B!CurrentRole \in {who, B!Nobody}
  BY <1>3, <1>4
<1> QED
  BY <1>1, <1>2, <1>4 DEF ShownWorks

AccessInv ==
  /\ B!TypeOK /\ shown \subseteq Controls /\ ShownWorks
  /\ B!OfferedWorks /\ B!ReadersChangeNothing

LEMMA NothingSent ==
  ASSUME last' = B!NoRequest PROVE B!OfferedWorks' /\ B!ReadersChangeNothing'
  BY DEF B!OfferedWorks, B!ReadersChangeNothing, B!Sent

\* The type of what is on the screen follows from what is ever shown.
Typed ==
  /\ role \in B!Everyone /\ active \in BOOLEAN /\ cookie \in BOOLEAN /\ fresh \in BOOLEAN
  /\ page \in {p.path : p \in B!Pages} \cup {B!NoPage}
  /\ \/ last = B!NoRequest
     \/ last.by \in B!Senders /\ last.answer \in B!Answers /\ last.role \in B!Everyone

LEMMA TypedIs == B!TypeOK => Typed
  BY DEF B!TypeOK, Typed

LEMMA TypedLater == ASSUME Typed', shown' \subseteq Controls PROVE B!TypeOK'
<1>1. shown' \subseteq {B!To(r, m) : r \in B!Routes, m \in {"GET", "POST", "PATCH", "PUT", "DELETE"}}
  BY ControlsAsk DEF Asks
<1> QED
  BY <1>1 DEF B!TypeOK, Typed

LEMMA AccessStep == ASSUME AccessInv, B!Next PROVE AccessInv'
<1>1. ASSUME Typed', shown' \subseteq Controls, ShownWorks', B!OfferedWorks', B!ReadersChangeNothing'
      PROVE  AccessInv'
  <2>1. B!TypeOK'
    BY <1>1, TypedLater
  <2> QED
    BY <1>1, <2>1 DEF AccessInv
<1>2. CASE B!GoogleSignIn
  <2>1. Typed'
    BY <1>2, TypedIs DEF AccessInv, B!GoogleSignIn, Typed, B!Everyone, B!Roles
  <2>2. ShownWorks' /\ shown' \subseteq Controls
    BY <1>2 DEF B!GoogleSignIn, ShownWorks
  <2> QED
    BY <1>1, <1>2, <2>1, <2>2, NothingSent DEF AccessInv, B!GoogleSignIn
<1>3. CASE B!Administered
  <2>1. Typed'
    BY <1>3, TypedIs DEF AccessInv, B!Administered, Typed, B!Everyone, B!Roles
  <2>2. ShownWorks' /\ shown' \subseteq Controls
    BY <1>3 DEF AccessInv, B!Administered, ShownWorks
  <2> QED
    BY <1>1, <1>3, <2>1, <2>2, NothingSent DEF AccessInv, B!Administered
<1>4. CASE B!SessionEnds
  <2>1. Typed'
    BY <1>4, TypedIs DEF AccessInv, B!SessionEnds, Typed
  <2>2. ShownWorks' /\ shown' \subseteq Controls
    BY <1>4 DEF AccessInv, B!SessionEnds, ShownWorks
  <2> QED
    BY <1>1, <1>4, <2>1, <2>2, NothingSent DEF AccessInv, B!SessionEnds
<1>5. ASSUME NEW p \in B!Pages, B!Open(p) PROVE AccessInv'
  <2>1. page' \in {q.path : q \in B!Pages} /\ shown' \subseteq Controls /\ ShownWorks'
    BY <1>5, OpensWell DEF AccessInv
  <2>2. Typed'
    BY <1>5, <2>1, TypedIs DEF AccessInv, B!Open, Typed
  <2> QED
    BY <1>1, <1>5, <2>1, <2>2, NothingSent DEF AccessInv, B!Open
<1>6. ASSUME NEW q \in shown, B!Press(q) PROVE AccessInv'
  <2>1. PICK by : by = IF fresh THEN "control" ELSE "stale"
    OBVIOUS
  <2>2. B!Send(by, q, FALSE) /\ UNCHANGED <<page, shown>> /\ by \in B!Senders \ {"schedule"}
    BY <1>6, <2>1 DEF B!Press, B!Senders
  <2>3. Asks(q)
    BY <1>6, ControlsAsk DEF AccessInv
  <2>4. by = "control" => \A who \in B!Working : B!CurrentRole = who => Grants(q, who)
    BY <1>6, <2>1 DEF AccessInv, ShownWorks
  <2>5. /\ last'.by \in B!Senders /\ last'.answer \in B!Answers /\ last'.role \in B!Everyone
        /\ B!OfferedWorks' /\ B!ReadersChangeNothing'
    BY <2>2, <2>3, <2>4, SendsWell DEF AccessInv
  <2>6. cookie' \in BOOLEAN /\ ShownWorks'
    BY <2>2, SendStays DEF AccessInv
  <2>7. Typed'
    BY <2>2, <2>5, <2>6, TypedIs DEF AccessInv, B!Send, Typed
  <2> QED
    BY <1>1, <2>2, <2>5, <2>6, <2>7 DEF AccessInv
<1>7. ASSUME NEW r \in B!Routes, B!Call(r) PROVE AccessInv'
  <2>1. PICK m \in DOMAIN r.on : B!Send("link", B!To(r, m), FALSE)
    BY <1>7 DEF B!Call
  <2>2. page' = B!NoPage /\ shown' = {}
    BY <1>7 DEF B!Call
  <2>3. Asks(B!To(r, m))
    BY <2>1, MethodsAre DEF Asks
  <2>4. /\ last'.by \in B!Senders /\ last'.answer \in B!Answers /\ last'.role \in B!Everyone
        /\ B!OfferedWorks' /\ B!ReadersChangeNothing'
    <3>1. "link" \in B!Senders \ {"schedule"} /\ "link" # "control"
      BY DEF B!Senders
    <3> QED
      BY <2>1, <2>3, <3>1, SendsWell DEF AccessInv
  <2>5. Typed'
    BY <2>1, <2>2, <2>4, TypedIs DEF AccessInv, B!Send, Typed
  <2>6. ShownWorks'
    BY <2>2 DEF ShownWorks
  <2> QED
    BY <1>1, <2>2, <2>4, <2>5, <2>6 DEF AccessInv
<1>8. ASSUME NEW r \in B!Schedule, B!Scheduled(r) PROVE AccessInv'
  <2>1. PICK q : q = B!To(r, "GET")
    OBVIOUS
  <2>2. B!Send("schedule", q, TRUE) /\ UNCHANGED <<page, shown>>
    BY <1>8, <2>1 DEF B!Scheduled
  <2>3. /\ last'.by \in B!Senders /\ last'.answer \in B!Answers /\ last'.role \in B!Everyone
        /\ B!OfferedWorks' /\ B!ReadersChangeNothing'
    BY <2>2, SchedulesWell DEF AccessInv
  <2>4. cookie' \in BOOLEAN /\ ShownWorks'
    BY <2>2, SendStays DEF AccessInv
  <2>5. Typed'
    BY <2>2, <2>3, <2>4, TypedIs DEF AccessInv, B!Send, Typed
  <2> QED
    BY <1>1, <2>2, <2>3, <2>4, <2>5 DEF AccessInv
<1> QED
  BY <1>2, <1>3, <1>4, <1>5, <1>6, <1>7, <1>8 DEF B!Next

LEMMA AccessInit == B!Init => AccessInv
<1> SUFFICES ASSUME B!Init PROVE AccessInv
  OBVIOUS
<1>1. B!TypeOK
  <2>1. role \in B!Everyone /\ page \in {p.path : p \in B!Pages} \cup {B!NoPage}
    BY DEF B!Init, B!Everyone
  <2>2. active \in BOOLEAN /\ cookie \in BOOLEAN /\ fresh \in BOOLEAN /\ shown = {} /\ last = B!NoRequest
    BY DEF B!Init
  <2> QED
    BY <2>1, <2>2 DEF B!TypeOK
<1>2. shown \subseteq Controls /\ ShownWorks
  BY DEF B!Init, ShownWorks
<1>3. B!OfferedWorks /\ B!ReadersChangeNothing
  BY DEF B!Init, B!OfferedWorks, B!ReadersChangeNothing, B!Sent
<1> QED
  BY <1>1, <1>2, <1>3 DEF AccessInv

-----------------------------------------------------------------------------
(* What the run of MCConfiguration checks of pages and figures *)

LEMMA AccessStays == ASSUME AccessInv, UNCHANGED accessVars PROVE AccessInv'
<1>1. shown' = shown /\ B!CurrentRole' = B!CurrentRole /\ fresh' = fresh /\ last' = last
  BY DEF accessVars, B!CurrentRole
<1>2. B!TypeOK'
  BY <1>1 DEF accessVars, AccessInv, B!TypeOK
<1>3. ShownWorks' /\ B!OfferedWorks' /\ B!ReadersChangeNothing'
  BY <1>1 DEF AccessInv, ShownWorks, B!OfferedWorks, B!ReadersChangeNothing, B!Sent
<1> QED
  BY <1>1, <1>2, <1>3 DEF AccessInv

LEMMA AccessKeeps ==
  ASSUME AccessInv, [MCNext]_<<which, periodVars, mapVars, vars, accessVars, figuresVars>>
  PROVE  AccessInv'
<1>1. B!Next \/ UNCHANGED accessVars
  BY DEF MCNext
<1> QED
  BY <1>1, AccessStep, AccessStays

\* Of the run's behaviours: whoever may work and presses what the page shows is not refused,
\* as long as nothing about the account changed; all pages against all handlers
\* (requirePageRole, requireRole).
THEOREM OffersKept == MCSpec => []OfferedWorks
<1>1. MCInit => AccessInv
  BY AccessInit DEF MCInit
<1>2. AccessInv => OfferedWorks
  BY DEF AccessInv, OfferedWorks
<1> QED
  BY <1>1, <1>2, AccessKeeps, PTL DEF MCSpec

\* Of the run's behaviours: no request of somebody who may only read changes anything,
\* whatever page is still open (assertReadOnlyForCfo).
THEOREM ReadersOnlyRead == MCSpec => []ReadersChangeNothing
<1>1. MCInit => AccessInv
  BY AccessInit DEF MCInit
<1>2. AccessInv => ReadersChangeNothing
  BY DEF AccessInv, ReadersChangeNothing
<1> QED
  BY <1>1, <1>2, AccessKeeps, PTL DEF MCSpec

\* Of the run's behaviours: every variable of every component keeps its type.
THEOREM TypesKept ==
  ASSUME Parameters, PeriodParameters, MappingParameters, Names # {} PROVE MCSpec => []TypesOK
<1> DEFINE MCInv == Inv /\ PeriodInv /\ MapInv /\ Grounded /\ AccessInv /\ F!TypeOK
<1>1. MCInit => MCInv
  <2>1. F!Init => F!TypeOK
    BY EmptySeq DEF F!Init, F!TypeOK, F!NewInvoice
  <2> QED
    BY <2>1, InitHolds, PeriodInit, MapInit, AccessInit DEF MCInit
<1>2. ASSUME MCInv, [MCNext]_<<which, periodVars, mapVars, vars, accessVars, figuresVars>>
      PROVE  MCInv'
  <2>1. Inv'
    BY <1>2, NextKeeps, MCNextIs
  <2>2. PeriodInv'
    <3>1. [C!Next]_(C!vars)
      BY <1>2 DEF MCNext, Periods, periodVars, C!vars
    <3> QED
      BY <1>2, <3>1, PeriodNext
  <2>3. MapInv' /\ Grounded'
    BY <1>2, MappingsKeep
  <2>4. AccessInv'
    BY <1>2, AccessKeeps
  <2>5. F!TypeOK'
    <3>1. F!Next \/ UNCHANGED figuresVars
      BY <1>2 DEF MCNext
    <3>2. UNCHANGED figuresVars => F!TypeOK'
      BY <1>2 DEF figuresVars, F!TypeOK
    <3> QED
      BY <1>2, <3>1, <3>2, FiguresParameters, F!TypeStep DEF F!Parameters
  <2> QED
    BY <2>1, <2>2, <2>3, <2>4, <2>5
<1>3. MCInv => TypesOK
  <2>1. MapInv => P!TypeOK
    BY MapTells
  <2>2. Inv => TypeOK
    BY DEF Inv
  <2>3. PeriodInv => C!TypeOK
    BY DEF PeriodInv, PeriodsTyped
  <2>4. AccessInv => B!TypeOK
    BY DEF AccessInv
  <2> QED
    BY <2>1, <2>2, <2>3, <2>4 DEF TypesOK
<1> QED
  BY <1>1, <1>2, <1>3, PTL DEF MCSpec

=============================================================================
