------------------------------ MODULE Accounts ------------------------------
(***************************************************************************)
(* User accounts: registration, the three kinds of mailed codes (address   *)
(* verification, sign-in, password reset), sign-in, sessions, and what     *)
(* admins do to the accounts of others.  No handler uses a transaction:    *)
(* each reads a row of users and updates it by id, and an admin's audit    *)
(* row is written after that.                                              *)
(*                                                                         *)
(* A user stands for an email address, unique in users; the stub provider  *)
(* of development builds is left out.  A code stands for the random string *)
(* of one mail; the six digits and the link of a sign-in mail are set and  *)
(* cleared together, so they are one code that can be sent back twice.     *)
(* The mail that tells admins of a newcomer is left out.                   *)
(***************************************************************************)
EXTENDS Naturals, FiniteSets

CONSTANTS
  Reqs,        \* slots for requests in flight
  Users,
  Founder,     \* the admin there is at first
  Granted,     \* the roles an approval may give
  MaxCodes,    \* bound on the mails with a code
  MaxFaults    \* bound on requests that die

VARIABLES
  account,     \* table users
  issued,      \* codes mailed so far
  expired,     \* those past their expiry
  taken,       \* how often each code was accepted
  sessions,    \* users whose browser has a session cookie
  logged,      \* per user: the last state audit_log tells of, and whether its rows
               \* follow from each other
  faults,
  req

vars == <<account, issued, expired, taken, sessions, logged, faults, req>>

-----------------------------------------------------------------------------

Roles == {"PENDING", "ANALYST", "REVIEWER", "CFO", "ADMIN"}
Kinds == {"verify", "otp", "reset"}
Codes == 1 .. MaxCodes
NoCode == 0

Standing == [role: Roles, active: BOOLEAN]
Account ==
  [role: Roles, active: BOOLEAN, password: BOOLEAN, google: BOOLEAN, verified: BOOLEAN,
   code: [Kinds -> Codes \cup {NoCode}]]
StandingOf(a) == [role |-> a.role, active |-> a.active]

NoAccount == [role |-> "NONE"]
Exists(u) == account[u] # NoAccount
NoCodes == [k \in Kinds |-> NoCode]

Idle == [pc |-> "idle"]
Request ==
  {Idle}
  \cup [pc: {"mail"}, user: Users, kind: Kinds]
  \cup [pc: {"redeem"}, user: Users, kind: Kinds, code: Codes]
  \cup [pc: {"find", "set", "log"}, by: Users, user: Users, op: {"approve", "deactivate", "reactivate"},
        role: Roles, before: Standing]

TypeOK ==
  /\ account \in [Users -> Account \cup {NoAccount}]
  /\ issued \in 0 .. MaxCodes
  /\ expired \subseteq 1 .. issued
  /\ taken \in [Codes -> 0 .. 2]
  /\ sessions \subseteq Users
  /\ logged \in [Users -> [state: Standing, chained: BOOLEAN]]
  /\ faults \in 0 .. MaxFaults
  /\ req \in [Reqs -> Request]

New == [role |-> "PENDING", active |-> TRUE]

Init ==
  /\ account = [u \in Users |-> IF u = Founder
       THEN [role |-> "ADMIN", active |-> TRUE, password |-> FALSE, google |-> TRUE,
             verified |-> TRUE, code |-> NoCodes]
       ELSE NoAccount]
  /\ issued = 0 /\ expired = {} /\ taken = [c \in Codes |-> 0]
  /\ sessions = {Founder}
  /\ logged = [u \in Users |->
       [state |-> IF u = Founder THEN [role |-> "ADMIN", active |-> TRUE] ELSE New,
        chained |-> TRUE]]
  /\ faults = 0
  /\ req = [r \in Reqs |-> Idle]

At(r, pc) == req[r].pc = pc
Goto(r, q) == req' = [req EXCEPT ![r] = q]
End(r) == Goto(r, Idle)

-----------------------------------------------------------------------------
(* Registration and sign-in.  The unique keys of users make one step of the     *)
(* look-up and the insert: of two, one fails.                                   *)

\* createEmailPasswordUser; the mail is sent or not, the code counts.
Register(u) ==
  /\ ~Exists(u) /\ issued < MaxCodes
  /\ issued' = issued + 1
  /\ account' = [account EXCEPT ![u] =
       [role |-> "PENDING", active |-> TRUE, password |-> TRUE, google |-> FALSE,
        verified |-> FALSE, code |-> [NoCodes EXCEPT !["verify"] = issued + 1]]]
  /\ UNCHANGED <<expired, taken, sessions, logged, faults, req>>

\* getOrCreateGoogleUser by sub, by email, or a new PENDING user.  Google vouches
\* for the address.
GoogleSignIn(u) ==
  /\ account' = [account EXCEPT ![u] = IF Exists(u)
       THEN [@ EXCEPT !.google = TRUE, !.verified = TRUE]
       ELSE [role |-> "PENDING", active |-> TRUE, password |-> FALSE, google |-> TRUE,
             verified |-> TRUE, code |-> NoCodes]]
  /\ sessions' = sessions \cup {u}
  /\ UNCHANGED <<issued, expired, taken, logged, faults, req>>

PasswordSuffices(u) == Exists(u) /\ account[u].password /\ account[u].verified

\* Nobody asks whether the account is active; the session of an inactive one is
\* refused at its first request.
PasswordSignIn(u) ==
  /\ PasswordSuffices(u)
  /\ sessions' = sessions \cup {u}
  /\ UNCHANGED <<account, issued, expired, taken, logged, faults, req>>

\* Sign-out, or SESSION_TTL_MS have passed.
SessionEnds(u) ==
  /\ sessions' = sessions \ {u}
  /\ UNCHANGED <<account, issued, expired, taken, logged, faults, req>>

-----------------------------------------------------------------------------
(* Mailed codes *)

MayResend(u) == account[u].password /\ ~account[u].verified
MayRequestOtp(u) == account[u].active
MayRequestReset(u) == account[u].active

MayAsk(u, k) ==
  /\ Exists(u)
  /\ \/ k = "verify" /\ MayResend(u)
     \/ k = "otp" /\ MayRequestOtp(u)
     \/ k = "reset" /\ MayRequestReset(u)

\* resendVerificationEmail, requestOtp, requestPasswordReset
AskBegin(r, u, k) ==
  /\ At(r, "idle") /\ MayAsk(u, k)
  /\ Goto(r, [pc |-> "mail", user |-> u, kind |-> k])
  /\ UNCHANGED <<account, issued, expired, taken, sessions, logged, faults>>

\* The new code replaces the one before.
AskCommit(r) ==
  LET q == req[r] IN
  /\ At(r, "mail") /\ issued < MaxCodes
  /\ issued' = issued + 1
  /\ account' = [account EXCEPT ![q.user].code[q.kind] = issued + 1]
  /\ End(r)
  /\ UNCHANGED <<expired, taken, sessions, logged, faults>>

Expire(c) ==
  /\ c =< issued
  /\ expired' = expired \cup {c}
  /\ UNCHANGED <<account, issued, taken, sessions, logged, faults, req>>

\* verifyEmailToken, verifyOtpCode, verifyOtpToken, resetPassword: the code and its
\* expiry are looked up.  bcrypt then takes its time in the last.
RedeemBegin(r, u, k) ==
  /\ At(r, "idle") /\ Exists(u)
  /\ account[u].code[k] \notin expired \cup {NoCode}
  /\ Goto(r, [pc |-> "redeem", user |-> u, kind |-> k, code |-> account[u].code[k]])
  /\ UNCHANGED <<account, issued, expired, taken, sessions, logged, faults>>

\* Fault: the update names the id only.
StandsAlways(q) == TRUE

\* "WHERE includes token so only one concurrent request wins"
Stands(q) == account[q.user].code[q.kind] = q.code

VerifiedByToken(a) == [a EXCEPT !.code["verify"] = NoCode, !.verified = TRUE]
SignedInByOtp(a) == [a EXCEPT !.code["otp"] = NoCode]
WithNewPassword(a) == [a EXCEPT !.code["reset"] = NoCode, !.password = TRUE]

Redeemed(a, k) ==
  CASE k = "verify" -> VerifiedByToken(a) [] k = "otp" -> SignedInByOtp(a)
    [] k = "reset" -> WithNewPassword(a)

\* An inactive account gets no session for a reset password.
SignsIn(u, k) == k # "reset" \/ account[u].active

RedeemCommit(r) ==
  LET q == req[r] IN
  /\ At(r, "redeem")
  /\ IF Stands(q)
     THEN /\ account' = [account EXCEPT ![q.user] = Redeemed(@, q.kind)]
          /\ taken' = [taken EXCEPT ![q.code] = @ + 1]
          /\ sessions' = sessions \cup {u \in {q.user} : SignsIn(u, q.kind)}
     ELSE UNCHANGED <<account, taken, sessions>>
  /\ End(r)
  /\ UNCHANGED <<issued, expired, logged, faults>>

-----------------------------------------------------------------------------
(* Admins: approveUser, deactivateUser, reactivateUser *)

\* UserRowActions: what the row of a user has buttons for.
Offered(u, op) ==
  op = IF account[u].role = "PENDING" THEN "approve"
       ELSE IF account[u].active THEN "deactivate" ELSE "reactivate"

\* requireRole reads the user of the session anew.
MayAdminister(a) ==
  a \in sessions /\ Exists(a) /\ account[a].active /\ account[a].role = "ADMIN"

AdminBegin(r, a, op, u, role) ==
  /\ At(r, "idle") /\ MayAdminister(a) /\ Exists(u)
  /\ Goto(r, [pc |-> "find", by |-> a, user |-> u, op |-> op, role |-> role, before |-> New])
  /\ UNCHANGED <<account, issued, expired, taken, sessions, logged, faults>>

\* Fault: nobody is refused.
RefusedNever(q) == FALSE

Refused(q) == q.op = "deactivate" /\ q.user = q.by      \* 422

AdminFind(r) ==
  LET q == req[r] IN
  /\ At(r, "find")
  /\ IF Refused(q) THEN End(r)
     ELSE Goto(r, [q EXCEPT !.pc = "set", !.before = StandingOf(account[q.user])])
  /\ UNCHANGED <<account, issued, expired, taken, sessions, logged, faults>>

\* What the audit row says the account is now.
After(q) ==
  IF q.op = "approve" THEN [role |-> q.role, active |-> TRUE]
  ELSE [role |-> q.before.role, active |-> q.op = "reactivate"]

\* (De)activation leaves the role alone and is skipped when it was read to be done.
Administered(q, a) ==
  IF q.op = "approve" THEN [a EXCEPT !.role = q.role, !.active = TRUE]
  ELSE IF q.before.active = (q.op = "reactivate") THEN a
  ELSE [a EXCEPT !.active = q.op = "reactivate"]

AdminSet(r) ==
  LET q == req[r] IN
  /\ At(r, "set")
  /\ account' = [account EXCEPT ![q.user] = Administered(q, @)]
  /\ Goto(r, [q EXCEPT !.pc = "log"])
  /\ UNCHANGED <<issued, expired, taken, sessions, logged, faults>>

AdminLog(r) ==
  LET q == req[r] IN
  /\ At(r, "log")
  /\ logged' = [logged EXCEPT ![q.user] =
       [state |-> After(q), chained |-> @.chained /\ @.state = q.before]]
  /\ End(r)
  /\ UNCHANGED <<account, issued, expired, taken, sessions, faults>>

-----------------------------------------------------------------------------

Die(r) ==
  /\ ~At(r, "idle") /\ faults < MaxFaults
  /\ faults' = faults + 1
  /\ End(r)
  /\ UNCHANGED <<account, issued, expired, taken, sessions, logged>>

Signs(u) == Register(u) \/ GoogleSignIn(u) \/ PasswordSignIn(u) \/ SessionEnds(u)
Mails(r, u) == \E k \in Kinds : AskBegin(r, u, k) \/ RedeemBegin(r, u, k)
Administers(r, a) ==
  \E u \in Users :
    \/ \E op \in {"deactivate", "reactivate"} : AdminBegin(r, a, op, u, "PENDING")
    \/ \E role \in Granted : AdminBegin(r, a, "approve", u, role)
Advance(r) ==
  AskCommit(r) \/ RedeemCommit(r) \/ AdminFind(r) \/ AdminSet(r) \/ AdminLog(r) \/ Die(r)

Next ==
  \/ \E u \in Users : Signs(u)
  \/ \E c \in Codes : Expire(c)
  \/ \E r \in Reqs : Advance(r) \/ \E u \in Users : Mails(r, u) \/ Administers(r, u)

Spec == Init /\ [][Next]_vars

\* One request at a time, and none that dies between the update and the audit row.
AloneNext ==
  /\ Next /\ faults' = faults
  /\ \A r \in Reqs : ~At(r, "idle") => req'[r] # req[r]

AloneSpec == Init /\ [][AloneNext]_vars

\* And an admin presses the buttons that the page of users has.
ButtonsNext ==
  /\ AloneNext
  /\ \A r \in Reqs : At(r, "idle") /\ req'[r].pc = "find" => Offered(req'[r].user, req'[r].op)

ButtonsSpec == Init /\ [][ButtonsNext]_vars

-----------------------------------------------------------------------------

\* "so only one concurrent request wins" (verifyEmailToken and its siblings): no code
\* is accepted twice, by digits or by link, sent at once or one after the other.
UsedOnce == \A c \in Codes : taken[c] =< 1

\* What the audit log says of an account while nobody is working on it is how the
\* account is, and each row starts where the one before ended (approveUser,
\* deactivateUser, reactivateUser).
AuditTells ==
  \A u \in Users :
    /\ logged[u].chained
    /\ Exists(u) /\ (\A r \in Reqs : req[r] = Idle) => logged[u].state = StandingOf(account[u])

\* "Cannot deactivate your own account" (deactivateUser): one admin at a time, with
\* the buttons of the page, cannot lock all admins out.
SomeAdmin == \E u \in Users : Exists(u) /\ account[u].active /\ account[u].role = "ADMIN"

=============================================================================
