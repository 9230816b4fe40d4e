------------------------ MODULE DigestDeliveryProofs ------------------------
(***************************************************************************)
(* What the digest and its email keep, for any dates, rows, requests and   *)
(* deaths, proved with TLAPS: SENT is true of a row however requests       *)
(* overlap and die, and one request at a time delivers a digest once.      *)
(***************************************************************************)
EXTENDS DigestDelivery, TLAPS

-----------------------------------------------------------------------------
(* Types *)

LEMMA Carried ==
  ASSUME NEW q \in Request
  PROVE  /\ q.pc \in {"create", "build", "preview", "approve", "skip"} => q.date \in Dates
         /\ q.pc = "skip" => q.seen \in State
         /\ q.pc \in {"process", "record"} => q.todo \in SUBSET Mails
         /\ q.pc \in {"record", "mark"} => q.mail \in Mails
         /\ q.pc = "record" => q.as \in {"SENT", "FAILED"}
  BY DEF Request, Idle

LEMMA Requests ==
  /\ Idle \in Request
  /\ \A d \in Dates, pc \in {"create", "build", "preview", "approve"} :
       [pc |-> pc, date |-> d] \in Request
  /\ \A d \in Dates, seen \in State : [pc |-> "skip", date |-> d, seen |-> seen] \in Request
  /\ \A todo \in SUBSET Mails : [pc |-> "process", todo |-> todo] \in Request
  /\ \A todo \in SUBSET Mails, m \in Mails, as \in {"SENT", "FAILED"} :
       [pc |-> "record", todo |-> todo, mail |-> m, as |-> as] \in Request
  /\ \A m \in Mails : [pc |-> "mark", mail |-> m] \in Request
  BY DEF Request

\* The request r becomes q and the others keep theirs.
LEMMA Going ==
  ASSUME req \in [Reqs -> Request], NEW r \in Reqs, NEW q \in Request, Goto(r, q)
  PROVE  /\ req' \in [Reqs -> Request] /\ req'[r] = q
         /\ \A s \in Reqs \ {r} : req'[s] = req[s]
  BY DEF Goto

-----------------------------------------------------------------------------
(* However requests overlap and die *)

\* What a request knows of the rows M, whatever happens to them: the rows it sends,
\* records or marks are there, and one it records as SENT was delivered.
Knows(q, M) ==
  /\ q.pc \in {"process", "record"} => \A m \in q.todo : M[m] # NoMail
  /\ q.pc \in {"record", "mark"} => M[q.mail] # NoMail
  /\ q.pc = "record" /\ q.as = "SENT" => M[q.mail].sends > 0

Inv == TypeOK /\ SentIsTrue /\ \A r \in Reqs : Knows(req[r], mail)

\* From M to N no row is deleted or gets another date, and none is delivered less often.
Follows(M, N) ==
  \A m \in Mails : M[m] # NoMail =>
    N[m] # NoMail /\ N[m].date = M[m].date /\ N[m].sends >= M[m].sends

LEMMA KnowsStill ==
  ASSUME NEW q \in Request, NEW M \in [Mails -> Mail \cup {NoMail}],
         NEW N \in [Mails -> Mail \cup {NoMail}], Follows(M, N), Knows(q, M)
  PROVE  Knows(q, N)
<1>1. q.pc \in {"process", "record"} => \A m \in q.todo : N[m] # NoMail
  BY Carried DEF Knows, Follows
<1>2. q.pc \in {"record", "mark"} => N[q.mail] # NoMail
  BY Carried DEF Knows, Follows
<1>3. ASSUME q.pc = "record", q.as = "SENT" PROVE N[q.mail].sends > 0
  <2>1. q.mail \in Mails /\ M[q.mail] # NoMail /\ M[q.mail].sends > 0
    BY <1>3, Carried DEF Knows
  <2>2. M[q.mail] \in Mail /\ N[q.mail] \in Mail /\ N[q.mail].sends >= M[q.mail].sends
    BY <2>1 DEF Follows
  <2> QED
    BY <2>1, <2>2 DEF Mail
<1> QED
  BY <1>1, <1>2, <1>3 DEF Knows

\* A request becomes q, the rows and the digests change as they may.
LEMMA InvGoing ==
  ASSUME Inv, NEW r \in Reqs, NEW q \in Request, Goto(r, q),
         NEW D \in [Dates -> State], digest' = D,
         NEW M \in [Mails -> Mail \cup {NoMail}], mail' = M,
         active' \in BOOLEAN, deaths' \in 0 .. MaxDeaths,
         Follows(mail, M), Knows(q, M), SentIsTrue'
  PROVE  Inv'
<1>1. /\ req' \in [Reqs -> Request] /\ req'[r] = q
      /\ \A s \in Reqs \ {r} : req'[s] = req[s]
  BY Going DEF Inv, TypeOK
<1>2. TypeOK'
  BY <1>1 DEF Inv, TypeOK
<1>3. ASSUME NEW s \in Reqs \ {r} PROVE Knows(req[s], M)
  BY KnowsStill DEF Inv, TypeOK
<1>4. ASSUME NEW s \in Reqs PROVE Knows(req'[s], mail')
  BY <1>1, <1>3
<1> QED
  BY <1>2, <1>4 DEF Inv

\* A step that reads only.
LEMMA InvReads ==
  ASSUME Inv, NEW r \in Reqs, NEW q \in Request, Goto(r, q), Knows(q, mail),
         digest' = digest, mail' = mail, active' \in BOOLEAN, deaths' \in 0 .. MaxDeaths
  PROVE  Inv'
<1>1. Follows(mail, mail)
  BY DEF Inv, TypeOK, Follows, Mail
<1>2. SentIsTrue'
  BY DEF Inv, SentIsTrue
<1> QED
  BY <1>1, <1>2, InvGoing DEF Inv, TypeOK

\* A digest gets the state s; it has left NONE and DRAFT if it has a row.
LEMMA InvDecides ==
  ASSUME Inv, NEW r \in Reqs, NEW q \in Request, Goto(r, q), Knows(q, mail),
         NEW d \in Dates, NEW s \in State, s \notin {"NONE", "DRAFT"} \/ digest[d] = "NONE",
         digest' = [digest EXCEPT ![d] = s], mail' = mail,
         UNCHANGED <<active, deaths>>
  PROVE  Inv'
<1>1. Follows(mail, mail)
  BY DEF Inv, TypeOK, Follows, Mail
<1>2. [digest EXCEPT ![d] = s] \in [Dates -> State]
  BY DEF Inv, TypeOK
<1>3. ASSUME NEW m \in Mails, mail[m] # NoMail
      PROVE  digest'[mail[m].date] \notin {"NONE", "DRAFT"}
  <2>1. digest[mail[m].date] \notin {"NONE", "DRAFT"} /\ mail[m].date \in Dates
    BY <1>3 DEF Inv, SentIsTrue, TypeOK, Mail
  <2> QED
    BY <2>1 DEF Inv, TypeOK
<1>4. SentIsTrue'
  BY <1>3 DEF Inv, SentIsTrue
<1> QED
  BY <1>1, <1>2, <1>4, InvGoing DEF Inv, TypeOK

\* The row m, which is there, becomes w.
LEMMA InvRewrites ==
  ASSUME Inv, NEW r \in Reqs, NEW q \in Request, Goto(r, q),
         NEW m \in Mails, mail[m] # NoMail, NEW w \in Mail, mail' = [mail EXCEPT ![m] = w],
         w.date = mail[m].date, w.sends >= mail[m].sends,
         w.status = "SENT" => w.sends > 0 \/ w.byHand,
         Knows(q, [mail EXCEPT ![m] = w]),
         digest' = digest, UNCHANGED <<active, deaths>>
  PROVE  Inv'
<1> DEFINE M == [mail EXCEPT ![m] = w]
<1>0. w # NoMail
  BY DEF Mail, NoMail
<1>1. M \in [Mails -> Mail \cup {NoMail}] /\ M[m] = w /\ \A n \in Mails \ {m} : M[n] = mail[n]
  BY DEF Inv, TypeOK
<1>2. Follows(mail, M)
  <2>1. \A n \in Mails : mail[n] # NoMail => mail[n].sends \in Nat
    BY DEF Inv, TypeOK, Mail
  <2> HIDE DEF M
  <2> QED
    BY <1>0, <1>1, <2>1 DEF Follows
<1>3. SentIsTrue'
  <2>1. mail'[m] = w /\ \A n \in Mails \ {m} : mail'[n] = mail[n]
    BY <1>1
  <2>2. ASSUME NEW n \in Mails, mail'[n] # NoMail
        PROVE  /\ mail'[n].status = "SENT" => mail'[n].sends > 0 \/ mail'[n].byHand
               /\ digest'[mail'[n].date] \notin {"NONE", "DRAFT"}
    <3>1. CASE n = m
      BY <2>1, <3>1 DEF Inv, SentIsTrue
    <3>2. CASE n # m
      BY <2>1, <2>2, <3>2 DEF Inv, SentIsTrue
    <3> QED
      BY <3>1, <3>2
  <2> QED
    BY <2>2 DEF SentIsTrue
<1> HIDE DEF M
<1> QED
  BY <1>1, <1>2, <1>3, InvGoing DEF Inv, TypeOK, M

LEMMA BeginInv ==
  ASSUME Inv, NEW r \in Reqs,
         \/ \E d \in Dates : Trigger(r, d) \/ ApproveBegin(r, d) \/ SkipBegin(r, d)
         \/ ProcessBegin(r) \/ BuildBegin(r)
         \/ \E m \in Mails : MarkBegin(r, m)
  PROVE  Inv'
<1>1. \E q \in Request : Goto(r, q) /\ Knows(q, mail)
  <2>1. ASSUME NEW d \in Dates, NEW pc \in {"create", "build", "preview", "approve"}
        PROVE  LET q == [pc |-> pc, date |-> d] IN q \in Request /\ Knows(q, mail)
    BY Requests DEF Knows
  <2>2. Idle \in Request /\ Knows(Idle, mail)
    BY Requests DEF Knows, Idle
  <2>3. ASSUME NEW d \in Dates, Trigger(r, d) \/ ApproveBegin(r, d)
        PROVE  \E q \in Request : Goto(r, q) /\ Knows(q, mail)
    BY <2>1, <2>3 DEF Trigger, ApproveBegin
  <2>4. ASSUME NEW d \in Dates, SkipBegin(r, d)
        PROVE  \E q \in Request : Goto(r, q) /\ Knows(q, mail)
    <3>1. digest[d] \in State
      BY DEF Inv, TypeOK
    <3> QED
      BY <2>4, <3>1, Requests DEF SkipBegin, Knows
  <2>5. ASSUME ProcessBegin(r)
        PROVE  \E q \in Request : Goto(r, q) /\ Knows(q, mail)
    <3> DEFINE rows == {m \in Mails : mail[m].status = "QUEUED"}
               q == [pc |-> "process", todo |-> rows]
    <3>1. Goto(r, q) /\ q \in Request
      BY <2>5, Requests DEF ProcessBegin
    <3>2. Knows(q, mail)
      BY DEF Knows, NoMail
    <3> QED
      BY <3>1, <3>2
  <2>6. ASSUME BuildBegin(r)
        PROVE  \E q \in Request : Goto(r, q) /\ Knows(q, mail)
    <3>1. req[r].date \in Dates
      BY <2>6, Carried DEF BuildBegin, At, Inv, TypeOK
    <3> QED
      BY <2>1, <2>2, <2>6, <3>1 DEF BuildBegin, End
  <2>7. ASSUME NEW m \in Mails, MarkBegin(r, m)
        PROVE  \E q \in Request : Goto(r, q) /\ Knows(q, mail)
    <3>1. mail[m] # NoMail
      BY <2>7 DEF MarkBegin, NoMail
    <3> QED
      BY <2>7, <3>1, Requests DEF MarkBegin, Knows
  <2> QED
    BY <2>3, <2>4, <2>5, <2>6, <2>7
<1>2. Reads
  BY DEF Trigger, ApproveBegin, SkipBegin, ProcessBegin, BuildBegin, MarkBegin
<1> QED
  BY <1>1, <1>2, InvReads DEF Reads, Inv, TypeOK

LEMMA DraftInv ==
  ASSUME Inv, NEW r \in Reqs, CreateDraft(r)
  PROVE  Inv'
<1>1. PICK d \in Dates : d = req[r].date
  BY Carried DEF CreateDraft, At, Inv, TypeOK
<1>2. CASE digest[d] = "NONE"
  <2>1. PICK q \in Request : q = [pc |-> "build", date |-> d]
    BY Requests
  <2>2. Goto(r, q) /\ Knows(q, mail)
    BY <1>1, <1>2, <2>1 DEF CreateDraft, Knows
  <2>3. /\ digest' = [digest EXCEPT ![d] = "DRAFT"] /\ mail' = mail
        /\ UNCHANGED <<active, deaths>> /\ "DRAFT" \in State
    BY <1>1, <1>2 DEF CreateDraft, Writes, State
  <2> QED
    BY <1>2, <2>2, <2>3, InvDecides
<1>3. CASE digest[d] # "NONE"
  BY <1>1, <1>3, InvReads, Requests DEF CreateDraft, Reads, End, Knows, Idle, Inv, TypeOK
<1> QED
  BY <1>2, <1>3

LEMMA PreviewInv ==
  ASSUME Inv, NEW r \in Reqs, BuildCommit(r)
  PROVE  Inv'
<1>1. PICK d \in Dates : d = req[r].date
  BY Carried DEF BuildCommit, At, Inv, TypeOK
<1>2. /\ digest' = [digest EXCEPT ![d] = "PREVIEWED"] /\ mail' = mail
      /\ UNCHANGED <<active, deaths>> /\ "PREVIEWED" \in State
  BY <1>1 DEF BuildCommit, Writes, State
<1>3. Goto(r, Idle) /\ Idle \in Request /\ Knows(Idle, mail)
  BY Requests DEF BuildCommit, End, Knows, Idle
<1> QED
  BY <1>2, <1>3, InvDecides

\* The email an approval enqueues.
Queued(d) == [date |-> d, status |-> "QUEUED", sends |-> 0, byHand |-> FALSE]

LEMMA ApproveInv ==
  ASSUME Inv, NEW r \in Reqs, ApproveCommit(r)
  PROVE  Inv'
<1>1. PICK d \in Dates : d = req[r].date
  BY Carried DEF ApproveCommit, At, Inv, TypeOK
<1>2. Goto(r, Idle) /\ Idle \in Request /\ \A M : Knows(Idle, M)
  BY Requests DEF ApproveCommit, End, Knows, Idle
<1>3. CASE ~active
  <2>1. /\ digest' = [digest EXCEPT ![d] = "APPROVED"] /\ mail' = mail
        /\ UNCHANGED <<active, deaths>> /\ "APPROVED" \in State
    BY <1>1, <1>3 DEF ApproveCommit, Writes, State
  <2> QED
    BY <1>2, <2>1, InvDecides
<1>4. CASE active
  <2>1. PICK m \in Mails :
          /\ mail[m] = NoMail
          /\ digest' = [digest EXCEPT ![d] = "APPROVED"] /\ mail' = [mail EXCEPT ![m] = Queued(d)]
          /\ UNCHANGED <<active, deaths>>
    BY <1>1, <1>4 DEF ApproveCommit, Writes, Queued
  <2>2. Queued(d) \in Mail /\ Queued(d).date = d /\ Queued(d).status = "QUEUED"
    BY DEF Queued, Mail
  <2>3. PICK M \in [Mails -> Mail \cup {NoMail}] :
          mail' = M /\ M[m] = Queued(d) /\ \A n \in Mails \ {m} : M[n] = mail[n]
    BY <2>1, <2>2 DEF Inv, TypeOK
  <2>4. PICK D \in [Dates -> State] :
          digest' = D /\ D[d] = "APPROVED" /\ \A e \in Dates \ {d} : D[e] = digest[e]
    BY <2>1 DEF Inv, TypeOK, State
  <2>5. Follows(mail, M)
    <3>1. \A n \in Mails : mail[n] # NoMail => mail[n].sends \in Nat
      BY DEF Inv, TypeOK, Mail
    <3> QED
      BY <2>1, <2>3, <3>1 DEF Follows
  <2>6. ASSUME NEW n \in Mails, M[n] # NoMail
        PROVE  /\ M[n].status = "SENT" => M[n].sends > 0 \/ M[n].byHand
               /\ D[M[n].date] \notin {"NONE", "DRAFT"}
    <3>1. CASE n = m
      BY <2>2, <2>3, <2>4, <3>1
    <3>2. CASE n # m
      <4>1. /\ mail[n] # NoMail /\ mail[n].date \in Dates /\ M[n] = mail[n]
            /\ digest[mail[n].date] \notin {"NONE", "DRAFT"}
            /\ mail[n].status = "SENT" => mail[n].sends > 0 \/ mail[n].byHand
        BY <2>3, <2>6, <3>2 DEF Inv, SentIsTrue, TypeOK, Mail
      <4> QED
        BY <2>4, <4>1
    <3> QED
      BY <3>1, <3>2
  <2>7. SentIsTrue'
    BY <2>3, <2>4, <2>6 DEF SentIsTrue
  <2> QED
    BY <1>2, <2>1, <2>3, <2>4, <2>5, <2>7, InvGoing DEF Inv, TypeOK
<1> QED
  BY <1>3, <1>4

\* What a skip makes of the rows: some are cancelled.
LEMMA CancelledIs ==
  ASSUME TypeOK
  PROVE  /\ Cancelled \in [Mails -> Mail \cup {NoMail}]
         /\ \A m \in Mails :
              /\ mail[m] = NoMail => Cancelled[m] = NoMail
              /\ mail[m] # NoMail =>
                   /\ Cancelled[m] # NoMail /\ Cancelled[m].date = mail[m].date
                   /\ Cancelled[m].sends = mail[m].sends
                   /\ Cancelled[m].byHand = mail[m].byHand
                   /\ Cancelled[m].status =
                        IF mail[m].status = "QUEUED" THEN "CANCELLED" ELSE mail[m].status
<1>1. ASSUME NEW m \in Mails
      PROVE  /\ Cancelled[m] \in Mail \cup {NoMail}
             /\ mail[m] = NoMail => Cancelled[m] = NoMail
             /\ mail[m] # NoMail =>
                   /\ Cancelled[m] # NoMail /\ Cancelled[m].date = mail[m].date
                   /\ Cancelled[m].sends = mail[m].sends
                   /\ Cancelled[m].byHand = mail[m].byHand
                   /\ Cancelled[m].status =
                        IF mail[m].status = "QUEUED" THEN "CANCELLED" ELSE mail[m].status
  <2>1. CASE mail[m] = NoMail
    BY <2>1 DEF Cancelled, NoMail
  <2>2. CASE mail[m] \in Mail /\ mail[m].status # "QUEUED"
    BY <2>2 DEF Cancelled, NoMail, Mail
  <2>3. CASE mail[m] \in Mail /\ mail[m].status = "QUEUED"
    <3>1. Cancelled[m] = [mail[m] EXCEPT !.status = "CANCELLED"]
      BY <2>3 DEF Cancelled
    <3>2. Cancelled[m] \in Mail /\ Cancelled[m].status = "CANCELLED"
          /\ Cancelled[m].date = mail[m].date /\ Cancelled[m].sends = mail[m].sends
          /\ Cancelled[m].byHand = mail[m].byHand
      BY <2>3, <3>1 DEF Mail
    <3> QED
      BY <2>3, <3>2 DEF NoMail, Mail
  <2> QED
    BY <2>1, <2>2, <2>3 DEF TypeOK
<1>2. Cancelled = [m \in Mails |-> Cancelled[m]]
  BY DEF Cancelled
<1> QED
  BY <1>1, <1>2

LEMMA SkipInv ==
  ASSUME Inv, NEW r \in Reqs, SkipCommit(r)
  PROVE  Inv'
<1>1. PICK d \in Dates : d = req[r].date
  BY Carried DEF SkipCommit, At, Inv, TypeOK
<1>2. Goto(r, Idle) /\ Idle \in Request /\ \A M : Knows(Idle, M)
  BY Requests DEF SkipCommit, End, Knows, Idle
<1>3. /\ digest' = [digest EXCEPT ![d] = "SKIPPED"] /\ "SKIPPED" \in State
      /\ UNCHANGED <<active, deaths>> /\ (mail' = mail \/ mail' = Cancelled)
  BY <1>1 DEF SkipCommit, Writes, State
<1>4. CASE mail' = mail
  BY <1>2, <1>3, <1>4, InvDecides
<1>5. CASE mail' = Cancelled
  <2>1. PICK M \in [Mails -> Mail \cup {NoMail}] : M = Cancelled
    BY CancelledIs DEF Inv
  <2>2. ASSUME NEW m \in Mails
        PROVE  /\ mail[m] = NoMail => M[m] = NoMail
               /\ mail[m] # NoMail =>
                    /\ M[m] # NoMail /\ M[m].date = mail[m].date
                    /\ M[m].sends = mail[m].sends /\ M[m].byHand = mail[m].byHand
                    /\ M[m].status = "SENT" => mail[m].status = "SENT"
    BY <2>1, CancelledIs DEF Inv
  <2>3. Follows(mail, M)
    <3>1. \A n \in Mails : mail[n] # NoMail => mail[n].sends \in Nat
      BY DEF Inv, TypeOK, Mail
    <3> QED
      BY <2>2, <3>1 DEF Follows
  <2>4. PICK D \in [Dates -> State] :
          digest' = D /\ D[d] = "SKIPPED" /\ \A e \in Dates \ {d} : D[e] = digest[e]
    BY <1>3 DEF Inv, TypeOK, State
  <2>5. ASSUME NEW n \in Mails, M[n] # NoMail
        PROVE  /\ M[n].status = "SENT" => M[n].sends > 0 \/ M[n].byHand
               /\ D[M[n].date] \notin {"NONE", "DRAFT"}
    <3>1. /\ mail[n] # NoMail /\ mail[n].date \in Dates
          /\ digest[mail[n].date] \notin {"NONE", "DRAFT"}
          /\ mail[n].status = "SENT" => mail[n].sends > 0 \/ mail[n].byHand
      BY <2>2, <2>5 DEF Inv, SentIsTrue, TypeOK, Mail
    <3> QED
      BY <2>2, <2>4, <3>1
  <2>6. SentIsTrue'
    BY <1>5, <2>1, <2>4, <2>5 DEF SentIsTrue
  <2> QED
    BY <1>2, <1>3, <1>5, <2>1, <2>3, <2>4, <2>6, InvGoing DEF Inv, TypeOK
<1> QED
  BY <1>3, <1>4, <1>5

\* The row w with one delivery more, or marked by hand.
LEMMA Delivered ==
  ASSUME NEW w \in Mail
  PROVE  \E v \in Mail :
           /\ v = [w EXCEPT !.sends = @ + 1]
           /\ v.status = w.status /\ v.date = w.date /\ v.sends = w.sends + 1
<1> DEFINE v == [w EXCEPT !.sends = @ + 1]
<1>1. v \in Mail
  BY DEF Mail
<1>2. v.status = w.status /\ v.date = w.date /\ v.sends = w.sends + 1
  BY DEF Mail
<1> QED
  BY <1>1, <1>2

LEMMA Marked ==
  ASSUME NEW w \in Mail
  PROVE  \E v \in Mail :
           /\ v = [w EXCEPT !.status = "SENT", !.byHand = TRUE]
           /\ v.status = "SENT" /\ v.byHand /\ v.date = w.date /\ v.sends = w.sends
<1> DEFINE v == [w EXCEPT !.status = "SENT", !.byHand = TRUE]
<1>1. v \in Mail
  BY DEF Mail
<1>2. v.status = "SENT" /\ v.byHand /\ v.date = w.date /\ v.sends = w.sends
  BY DEF Mail
<1> QED
  BY <1>1, <1>2

\* The table when the row m is w.
LEMMA TableWith ==
  ASSUME TypeOK, NEW m \in Mails, NEW w \in Mail
  PROVE  \E M \in [Mails -> Mail \cup {NoMail}] :
           M = [mail EXCEPT ![m] = w] /\ M[m] = w /\ \A n \in Mails \ {m} : M[n] = mail[n]
<1> DEFINE M == [mail EXCEPT ![m] = w]
<1>1. M \in [Mails -> Mail \cup {NoMail}] /\ M[m] = w /\ \A n \in Mails \ {m} : M[n] = mail[n]
  BY DEF TypeOK
<1> QED
  BY <1>1

LEMMA SendInv ==
  ASSUME Inv, NEW r \in Reqs, NEW m \in Mails, Send(r, m)
  PROVE  Inv'
<1>1. PICK todo \in SUBSET Mails : todo = req[r].todo /\ m \in todo /\ \A n \in todo : mail[n] # NoMail
  BY Carried DEF Send, At, Inv, TypeOK, Knows
<1>2. PICK delivered \in BOOLEAN, as \in {"SENT", "FAILED"} :
        /\ as = "SENT" => delivered
        /\ Goto(r, [pc |-> "record", todo |-> todo \ {m}, mail |-> m, as |-> as])
        /\ Writes(digest, IF delivered THEN [mail EXCEPT ![m].sends = @ + 1] ELSE mail)
  BY <1>1 DEF Send
<1>3. PICK q \in Request : q = [pc |-> "record", todo |-> todo \ {m}, mail |-> m, as |-> as]
  BY <1>1, Requests
<1>4. mail[m] \in Mail /\ mail[m] # NoMail /\ Goto(r, q)
  BY <1>1, <1>2, <1>3 DEF Inv, TypeOK
<1>5. CASE ~delivered
  <2>1. Knows(q, mail)
    BY <1>1, <1>2, <1>3, <1>4, <1>5 DEF Knows
  <2> QED
    BY <1>2, <1>4, <1>5, <2>1, InvReads DEF Writes, Inv, TypeOK
<1>6. CASE delivered
  <2>1. PICK w \in Mail : /\ w = [mail[m] EXCEPT !.sends = @ + 1]
                          /\ w.status = mail[m].status /\ w.date = mail[m].date
                          /\ w.sends = mail[m].sends + 1
    BY <1>4, Delivered
  <2>2. mail' = [mail EXCEPT ![m] = w]
    BY <1>2, <1>6, <2>1 DEF Writes
  <2>3. PICK M \in [Mails -> Mail \cup {NoMail}] :
          M = [mail EXCEPT ![m] = w] /\ M[m] = w /\ \A n \in Mails \ {m} : M[n] = mail[n]
    BY TableWith DEF Inv
  <2>4. w # NoMail
    BY DEF Mail, NoMail
  <2>5. w.sends >= mail[m].sends /\ w.sends > 0
    BY <1>4, <2>1 DEF Mail
  <2>6. w.status = "SENT" => w.sends > 0
    BY <2>5
  <2>7. Knows(q, M)
    BY <1>1, <1>3, <2>3, <2>4, <2>5 DEF Knows
  <2>8. digest' = digest /\ UNCHANGED <<active, deaths>>
    BY <1>2 DEF Writes
  <2> QED
    BY <1>4, <2>1, <2>2, <2>3, <2>5, <2>6, <2>7, <2>8, InvRewrites
<1> QED
  BY <1>5, <1>6

LEMMA RecordInv ==
  ASSUME Inv, NEW r \in Reqs, Record(r)
  PROVE  Inv'
<1>1. PICK todo \in SUBSET Mails, m \in Mails, s \in {"SENT", "FAILED"} :
        /\ todo = req[r].todo /\ m = req[r].mail /\ s = req[r].as
        /\ mail[m] # NoMail /\ \A n \in todo : mail[n] # NoMail
        /\ s = "SENT" => mail[m].sends > 0
  BY Carried DEF Record, At, Inv, TypeOK, Knows
<1>2. mail[m] \in Mail
  BY <1>1 DEF Inv, TypeOK
<1>3. PICK w \in Mail : /\ w = [mail[m] EXCEPT !.status = s] /\ w.status = s
                        /\ w.date = mail[m].date /\ w.sends = mail[m].sends
  <2> DEFINE w == [mail[m] EXCEPT !.status = s]
  <2>1. w \in Mail /\ w.status = s /\ w.date = mail[m].date /\ w.sends = mail[m].sends
    BY <1>2 DEF Mail
  <2> QED
    BY <2>1
<1>4. mail' = [mail EXCEPT ![m] = w] /\ digest' = digest /\ UNCHANGED <<active, deaths>>
  BY <1>1, <1>3 DEF Record, Writes
<1>5. PICK q \in Request :
        Goto(r, q) /\ (q = Idle \/ q = [pc |-> "process", todo |-> todo])
  BY <1>1, Requests DEF Record, End
<1>6. PICK M \in [Mails -> Mail \cup {NoMail}] :
        M = [mail EXCEPT ![m] = w] /\ M[m] = w /\ \A n \in Mails \ {m} : M[n] = mail[n]
  BY TableWith DEF Inv
<1>7. w # NoMail
  BY DEF Mail, NoMail
<1>8. Knows(q, M)
  <2>1. CASE q = Idle
    BY <2>1 DEF Knows, Idle
  <2>2. CASE q = [pc |-> "process", todo |-> todo]
    BY <1>1, <1>6, <1>7, <2>2 DEF Knows
  <2> QED
    BY <1>5, <2>1, <2>2
<1>9. w.sends >= mail[m].sends
  BY <1>2, <1>3 DEF Mail
<1>10. w.status = "SENT" => w.sends > 0 \/ w.byHand
  BY <1>1, <1>3
<1>11. Goto(r, q) /\ mail[m] # NoMail /\ w.date = mail[m].date
  BY <1>1, <1>3, <1>5
<1>12. Knows(q, [mail EXCEPT ![m] = w])
  BY <1>6, <1>8
<1> QED
  BY <1>4, <1>9, <1>10, <1>11, <1>12, InvRewrites

LEMMA MarkInv ==
  ASSUME Inv, NEW r \in Reqs, MarkCommit(r)
  PROVE  Inv'
<1>1. PICK m \in Mails : m = req[r].mail /\ mail[m] # NoMail
  BY Carried DEF MarkCommit, At, Inv, TypeOK, Knows
<1>2. mail[m] \in Mail
  BY <1>1 DEF Inv, TypeOK
<1>3. PICK w \in Mail : /\ w = [mail[m] EXCEPT !.status = "SENT", !.byHand = TRUE] /\ w.byHand
                        /\ w.date = mail[m].date /\ w.sends = mail[m].sends
  BY <1>2, Marked
<1>4. mail' = [mail EXCEPT ![m] = w] /\ digest' = digest /\ UNCHANGED <<active, deaths>>
  <2>1. mail' = [mail EXCEPT ![m].status = "SENT", ![m].byHand = TRUE]
    BY <1>1 DEF MarkCommit, Writes
  <2>2. mail' = [mail EXCEPT ![m] = w]
    BY <1>1, <1>3, <2>1 DEF Inv, TypeOK
  <2> QED
    BY <2>2 DEF MarkCommit, Writes
<1>5. Goto(r, Idle) /\ Idle \in Request /\ \A M : Knows(Idle, M)
  BY Requests DEF MarkCommit, End, Knows, Idle
<1>6. w.sends >= mail[m].sends
  BY <1>2, <1>3 DEF Mail
<1> QED
  BY <1>1, <1>3, <1>4, <1>5, <1>6, InvRewrites

LEMMA InvStep == ASSUME MaxDeaths \in Nat PROVE Inv /\ [Next]_vars => Inv'
<1> SUFFICES ASSUME Inv, [Next]_vars PROVE Inv'
  OBVIOUS
<1>1. CASE UNCHANGED vars
  BY <1>1 DEF vars, Inv, TypeOK, SentIsTrue
<1>2. ASSUME NEW r \in Reqs, SetRule(r) PROVE Inv'
  BY <1>2 DEF SetRule, Inv, TypeOK, SentIsTrue
<1>3. ASSUME NEW r \in Reqs, Die(r) PROVE Inv'
  <2>1. Goto(r, Idle) /\ Idle \in Request /\ Knows(Idle, mail)
    BY <1>3, Requests DEF Die, End, Knows, Idle
  <2>2. deaths' \in 0 .. MaxDeaths
    BY <1>3 DEF Die, Inv, TypeOK
  <2> QED
    BY <1>3, <2>1, <2>2, InvReads DEF Die, Inv, TypeOK
<1>4. CASE Next
  BY <1>2, <1>3, <1>4, BeginInv, DraftInv, PreviewInv, ApproveInv, SkipInv, SendInv, RecordInv,
     MarkInv DEF Next
<1> QED
  BY <1>1, <1>4

LEMMA InvInit == ASSUME MaxDeaths \in Nat PROVE Init => Inv
<1> SUFFICES ASSUME Init PROVE Inv
  OBVIOUS
<1>1. TypeOK
  BY Requests DEF Init, TypeOK, State
<1>2. SentIsTrue
  BY DEF Init, SentIsTrue
<1>3. \A r \in Reqs : Knows(req[r], mail)
  BY DEF Init, Knows, Idle
<1> QED
  BY <1>1, <1>2, <1>3 DEF Inv

\* However requests overlap and die, what the outbox calls SENT was delivered or marked
\* by an admin, and its digest has got past the draft (approveDigest, the processor).
THEOREM SentCorrect == ASSUME MaxDeaths \in Nat PROVE Spec => [](TypeOK /\ SentIsTrue)
<1>1. Inv => TypeOK /\ SentIsTrue
  BY DEF Inv
<1> QED
  BY <1>1, InvInit, InvStep, PTL DEF Spec

-----------------------------------------------------------------------------
(* One request at a time, none killed *)

Decided == {"APPROVED", "SKIPPED"}

\* What a request read is still so when it uses it, of the digests D and the rows M.
StillTrue(q, D, M) ==
  /\ q.pc = "create" => D[q.date] = "NONE"
  /\ q.pc \in {"build", "preview"} => D[q.date] \in Rebuildable
  /\ q.pc = "approve" => D[q.date] = "PREVIEWED"
  /\ q.pc = "skip" => D[q.date] = q.seen /\ q.seen \notin {"NONE", "SKIPPED"}
  /\ q.pc \in {"process", "record"} => \A m \in q.todo : M[m].status = "QUEUED" /\ M[m].sends = 0
  /\ q.pc = "record" => q.mail \notin q.todo

\* The row m is the one of its date, which is decided; it is delivered once at most, and
\* while it is queued its digest is approved and it is not delivered, unless it is one
\* of those S that are being recorded.
RowSound(m, D, M, S) ==
  /\ D[M[m].date] \in Decided
  /\ \A n \in Mails : M[n] # NoMail /\ M[n].date = M[m].date => m = n
  /\ M[m].sends =< 1
  /\ M[m].status = "QUEUED" => D[M[m].date] = "APPROVED" /\ (m \in S \/ M[m].sends = 0)

RowsSound(D, M, S) == \A m \in Mails : M[m] # NoMail => RowSound(m, D, M, S)

RecordedBy(q) == IF q.pc = "record" THEN {q.mail} ELSE {}
Recorded == UNION {RecordedBy(req[r]) : r \in Reqs}

AloneInv ==
  /\ Inv
  /\ \A r \in Reqs : StillTrue(req[r], digest, mail)
  /\ RowsSound(digest, mail, Recorded)

OneAtATime == \A r \in Reqs : ~At(r, "idle") => req'[r] # req[r]

\* All but the request that moves are idle.
LEMMA OthersIdle ==
  ASSUME Inv, OneAtATime, NEW r \in Reqs, NEW q \in Request, Goto(r, q)
  PROVE  /\ req'[r] = q /\ \A s \in Reqs \ {r} : req'[s] = req[s] /\ req[s].pc = "idle"
         /\ Recorded = RecordedBy(req[r]) /\ Recorded' = RecordedBy(q)
<1>1. req'[r] = q /\ \A s \in Reqs \ {r} : req'[s] = req[s]
  BY Going DEF Inv, TypeOK
<1>2. \A s \in Reqs \ {r} : req[s].pc = "idle"
  BY <1>1 DEF OneAtATime, At
<1>3. \A s \in Reqs \ {r} : RecordedBy(req[s]) = {} /\ RecordedBy(req'[s]) = {}
  BY <1>1, <1>2 DEF RecordedBy
<1>4. Recorded = RecordedBy(req[r])
  BY <1>3 DEF Recorded
<1>5. Recorded' = RecordedBy(q)
  <2>1. Recorded' = UNION {RecordedBy(req'[s]) : s \in Reqs}
    BY DEF Recorded, RecordedBy
  <2> QED
    BY <1>1, <1>3, <2>1
<1> QED
  BY <1>1, <1>2, <1>4, <1>5

LEMMA AloneGoing ==
  ASSUME AloneInv, Inv', OneAtATime, NEW r \in Reqs, NEW q \in Request, Goto(r, q),
         NEW D, digest' = D, NEW M, mail' = M,
         StillTrue(q, D, M), RowsSound(D, M, RecordedBy(q))
  PROVE  AloneInv'
<1>1. /\ req'[r] = q /\ \A s \in Reqs \ {r} : req'[s] = req[s] /\ req[s].pc = "idle"
      /\ Recorded' = RecordedBy(q)
  BY OthersIdle DEF AloneInv
<1>2. ASSUME NEW s \in Reqs PROVE StillTrue(req'[s], D, M)
  <2>1. CASE s = r
    BY <1>1, <2>1
  <2>2. CASE s # r
    BY <1>1, <2>2 DEF StillTrue
  <2> QED
    BY <2>1, <2>2
<1>3. StillTrue(req'[r], D, M) /\ RowsSound(digest', mail', Recorded')
  BY <1>1
<1> QED
  BY <1>2, <1>3 DEF AloneInv

\* What holds of the table before the request r moves.
LEMMA AloneBefore ==
  ASSUME AloneInv, OneAtATime, NEW r \in Reqs, NEW q \in Request, Goto(r, q)
  PROVE  RowsSound(digest, mail, RecordedBy(req[r])) /\ StillTrue(req[r], digest, mail)
  BY OthersIdle DEF AloneInv

\* Digests and rows stay.
LEMMA AloneReads ==
  ASSUME AloneInv, Inv', OneAtATime, NEW r \in Reqs, NEW q \in Request, Goto(r, q),
         digest' = digest, mail' = mail, req[r].pc # "record",
         StillTrue(q, digest, mail)
  PROVE  AloneInv' /\ KeepsDecision /\ SendsNoSkipped
<1>1. RowsSound(digest, mail, {})
  BY AloneBefore DEF RecordedBy
<1>2. RowsSound(digest, mail, RecordedBy(q))
  BY <1>1 DEF RowsSound, RowSound
<1>3. AloneInv'
  BY <1>2, AloneGoing
<1> QED
  BY <1>3 DEF KeepsDecision, SendsNoSkipped

\* A digest that is not decided has no row, and gets the state s.
LEMMA AloneDecides ==
  ASSUME AloneInv, Inv', OneAtATime, NEW r \in Reqs, NEW q \in Request, Goto(r, q),
         req[r].pc # "record", NEW d \in Dates, digest[d] \notin Decided, NEW s \in State,
         digest' = [digest EXCEPT ![d] = s], mail' = mail,
         StillTrue(q, [digest EXCEPT ![d] = s], mail)
  PROVE  AloneInv' /\ KeepsDecision /\ SendsNoSkipped
<1> DEFINE D == [digest EXCEPT ![d] = s]
<1>1. RowsSound(digest, mail, {})
  BY AloneBefore DEF RecordedBy
<1>2. D[d] = s /\ \A e \in Dates \ {d} : D[e] = digest[e]
  BY DEF AloneInv, Inv, TypeOK
<1>3. ASSUME NEW m \in Mails, mail[m] # NoMail PROVE RowSound(m, D, mail, RecordedBy(q))
  <2>1. mail[m].date \in Dates /\ RowSound(m, digest, mail, {})
    BY <1>1, <1>3 DEF RowsSound, AloneInv, Inv, TypeOK, Mail
  <2>2. mail[m].date # d
    BY <2>1 DEF RowSound
  <2> HIDE DEF D
  <2> QED
    BY <1>2, <2>1, <2>2 DEF RowSound
<1>4. RowsSound(D, mail, RecordedBy(q))
  BY <1>3 DEF RowsSound
<1>5. AloneInv'
  BY <1>4, AloneGoing
<1>6. KeepsDecision /\ SendsNoSkipped
  BY <1>2 DEF KeepsDecision, SendsNoSkipped, Decided
<1> QED
  BY <1>5, <1>6

LEMMA AloneBegins ==
  ASSUME AloneInv, Inv', OneAtATime, NEW r \in Reqs,
         \/ \E d \in Dates : Trigger(r, d) \/ ApproveBegin(r, d) \/ SkipBegin(r, d)
         \/ ProcessBegin(r) \/ BuildBegin(r)
         \/ \E m \in Mails : MarkBegin(r, m)
  PROVE  AloneInv' /\ KeepsDecision /\ SendsNoSkipped
<1>1. \E q \in Request : Goto(r, q) /\ StillTrue(q, digest, mail)
  <2>1. ASSUME NEW d \in Dates, Trigger(r, d)
        PROVE  \E q \in Request : Goto(r, q) /\ StillTrue(q, digest, mail)
    <3>1. CASE digest[d] = "NONE"
      BY <2>1, <3>1, Requests DEF Trigger, StillTrue
    <3>2. CASE digest[d] # "NONE"
      BY <2>1, <3>2, Requests DEF Trigger, StillTrue
    <3> QED
      BY <3>1, <3>2
  <2>2. ASSUME NEW d \in Dates, ApproveBegin(r, d)
        PROVE  \E q \in Request : Goto(r, q) /\ StillTrue(q, digest, mail)
    BY <2>2, Requests DEF ApproveBegin, StillTrue
  <2>3. ASSUME NEW d \in Dates, SkipBegin(r, d)
        PROVE  \E q \in Request : Goto(r, q) /\ StillTrue(q, digest, mail)
    <3>1. digest[d] \in State
      BY DEF AloneInv, Inv, TypeOK
    <3> QED
      BY <2>3, <3>1, Requests DEF SkipBegin, StillTrue
  <2>4. ASSUME ProcessBegin(r)
        PROVE  \E q \in Request : Goto(r, q) /\ StillTrue(q, digest, mail)
    <3> DEFINE rows == {m \in Mails : mail[m].status = "QUEUED"}
    <3>1. PICK q \in Request : q = [pc |-> "process", todo |-> rows]
      BY Requests
    <3>2. Goto(r, q) /\ req[r].pc = "idle"
      BY <2>4, <3>1 DEF ProcessBegin, At
    <3>3. RowsSound(digest, mail, {})
      BY <3>2, AloneBefore DEF RecordedBy
    <3>4. ASSUME NEW m \in rows PROVE mail[m].status = "QUEUED" /\ mail[m].sends = 0
      BY <3>3 DEF RowsSound, RowSound, NoMail
    <3>5. StillTrue(q, digest, mail)
      BY <3>1, <3>4 DEF StillTrue
    <3> QED
      BY <3>2, <3>5
  <2>5. ASSUME BuildBegin(r)
        PROVE  \E q \in Request : Goto(r, q) /\ StillTrue(q, digest, mail)
    <3>1. PICK d \in Dates : d = req[r].date
      BY <2>5, Carried DEF BuildBegin, At, AloneInv, Inv, TypeOK
    <3>2. StillTrue(Idle, digest, mail)
      BY DEF StillTrue, Idle
    <3>3. digest[d] \in Rebuildable => StillTrue([pc |-> "preview", date |-> d], digest, mail)
      BY DEF StillTrue
    <3> QED
      BY <2>5, <3>1, <3>2, <3>3, Requests DEF BuildBegin, End
  <2>6. ASSUME NEW m \in Mails, MarkBegin(r, m)
        PROVE  \E q \in Request : Goto(r, q) /\ StillTrue(q, digest, mail)
    BY <2>6, Requests DEF MarkBegin, StillTrue
  <2> QED
    BY <2>1, <2>2, <2>3, <2>4, <2>5, <2>6
<1>2. Reads /\ req[r].pc # "record"
  BY DEF Trigger, ApproveBegin, SkipBegin, ProcessBegin, BuildBegin, MarkBegin, At
<1> QED
  BY <1>1, <1>2, AloneReads DEF Reads

LEMMA AloneDrafts ==
  ASSUME AloneInv, Inv', OneAtATime, NEW r \in Reqs, CreateDraft(r)
  PROVE  AloneInv' /\ KeepsDecision /\ SendsNoSkipped
<1>1. PICK d \in Dates : d = req[r].date /\ digest[d] = "NONE" /\ req[r].pc = "create"
  BY Carried DEF CreateDraft, At, AloneInv, Inv, TypeOK, StillTrue
<1>2. PICK q \in Request : q = [pc |-> "build", date |-> d]
  BY Requests
<1>3. /\ Goto(r, q) /\ digest' = [digest EXCEPT ![d] = "DRAFT"] /\ mail' = mail
      /\ "DRAFT" \in State
  BY <1>1, <1>2 DEF CreateDraft, Writes, State
<1>4. [digest EXCEPT ![d] = "DRAFT"][d] = "DRAFT"
  BY DEF AloneInv, Inv, TypeOK
<1>5. StillTrue(q, [digest EXCEPT ![d] = "DRAFT"], mail)
  BY <1>2, <1>4 DEF StillTrue, Rebuildable
<1> QED
  BY <1>1, <1>3, <1>5, AloneDecides DEF Decided

LEMMA AlonePreviews ==
  ASSUME AloneInv, Inv', OneAtATime, NEW r \in Reqs, BuildCommit(r)
  PROVE  AloneInv' /\ KeepsDecision /\ SendsNoSkipped
<1>1. PICK d \in Dates : d = req[r].date /\ digest[d] \in Rebuildable /\ req[r].pc = "preview"
  BY Carried DEF BuildCommit, At, AloneInv, Inv, TypeOK, StillTrue
<1>2. /\ digest' = [digest EXCEPT ![d] = "PREVIEWED"] /\ mail' = mail
      /\ "PREVIEWED" \in State
  BY <1>1 DEF BuildCommit, Writes, State
<1>3. Goto(r, Idle) /\ Idle \in Request /\ \A D : StillTrue(Idle, D, mail)
  BY Requests DEF BuildCommit, End, StillTrue, Idle
<1> QED
  BY <1>1, <1>2, <1>3, AloneDecides DEF Decided, Rebuildable

LEMMA AloneApproves ==
  ASSUME AloneInv, Inv', OneAtATime, NEW r \in Reqs, ApproveCommit(r)
  PROVE  AloneInv' /\ KeepsDecision /\ SendsNoSkipped
<1>1. PICK d \in Dates : d = req[r].date /\ digest[d] = "PREVIEWED" /\ req[r].pc = "approve"
  BY Carried DEF ApproveCommit, At, AloneInv, Inv, TypeOK, StillTrue
<1>2. Goto(r, Idle) /\ Idle \in Request /\ \A D, M : StillTrue(Idle, D, M)
  BY Requests DEF ApproveCommit, End, StillTrue, Idle
<1>3. CASE ~active
  <2>1. digest' = [digest EXCEPT ![d] = "APPROVED"] /\ mail' = mail /\ "APPROVED" \in State
    BY <1>1, <1>3 DEF ApproveCommit, Writes, State
  <2> QED
    BY <1>1, <1>2, <2>1, AloneDecides DEF Decided
<1>4. CASE active
  <2>1. PICK m \in Mails :
          /\ mail[m] = NoMail
          /\ digest' = [digest EXCEPT ![d] = "APPROVED"] /\ mail' = [mail EXCEPT ![m] = Queued(d)]
    BY <1>1, <1>4 DEF ApproveCommit, Writes, Queued
  <2>2. /\ Queued(d) \in Mail /\ Queued(d).date = d /\ Queued(d).status = "QUEUED"
        /\ Queued(d).sends = 0
    BY DEF Queued, Mail
  <2>3. PICK M \in [Mails -> Mail \cup {NoMail}] :
          mail' = M /\ M[m] = Queued(d) /\ \A n \in Mails \ {m} : M[n] = mail[n]
    BY <2>1, <2>2 DEF AloneInv, Inv, TypeOK
  <2>4. PICK D \in [Dates -> State] :
          digest' = D /\ D[d] = "APPROVED" /\ \A e \in Dates \ {d} : D[e] = digest[e]
    BY <2>1 DEF AloneInv, Inv, TypeOK, State
  <2>5. RowsSound(digest, mail, {})
    BY <1>1, <1>2, AloneBefore DEF RecordedBy
  <2>6. ASSUME NEW n \in Mails, mail[n] # NoMail
        PROVE  mail[n].date \in Dates /\ mail[n].date # d /\ RowSound(n, digest, mail, {})
    <3>1. RowSound(n, digest, mail, {}) /\ mail[n].date \in Dates
      BY <2>5, <2>6 DEF RowsSound, AloneInv, Inv, TypeOK, Mail
    <3> QED
      BY <1>1, <3>1 DEF RowSound, Decided
  <2>7. ASSUME NEW n \in Mails, M[n] # NoMail PROVE RowSound(n, D, M, {})
    <3>1. CASE n = m
      <4>1. D[M[n].date] \in Decided /\ M[n].sends =< 1
        BY <2>2, <2>3, <2>4, <3>1 DEF Decided
      <4>2. ASSUME NEW k \in Mails, M[k] # NoMail, M[k].date = M[n].date PROVE n = k
        BY <2>2, <2>3, <2>6, <3>1, <4>2
      <4>3. D[M[n].date] = "APPROVED" /\ M[n].sends = 0
        BY <2>2, <2>3, <2>4, <3>1
      <4> QED
        BY <4>1, <4>2, <4>3 DEF RowSound
    <3>2. CASE n # m
      <4>1. M[n] = mail[n] /\ mail[n].date # d /\ D[mail[n].date] = digest[mail[n].date]
        BY <2>3, <2>4, <2>6, <2>7, <3>2
      <4>2. RowSound(n, digest, mail, {})
        BY <2>6, <2>7, <4>1
      <4>3. ASSUME NEW k \in Mails, M[k] # NoMail, M[k].date = M[n].date PROVE n = k
        <5>1. k # m
          BY <2>2, <2>3, <4>1, <4>3
        <5>2. M[k] = mail[k]
          BY <2>3, <5>1
        <5> QED
          BY <4>1, <4>2, <4>3, <5>2 DEF RowSound
      <4> QED
        BY <4>1, <4>2, <4>3 DEF RowSound
    <3> QED
      BY <3>1, <3>2
  <2>8. RowsSound(D, M, RecordedBy(Idle))
    BY <2>7 DEF RowsSound, RecordedBy, Idle
  <2>9. AloneInv'
    BY <1>2, <2>3, <2>4, <2>8, AloneGoing
  <2>10. KeepsDecision
    BY <2>4 DEF KeepsDecision
  <2>11. SendsNoSkipped
    BY <2>1, <2>3 DEF SendsNoSkipped, Rows
  <2> QED
    BY <2>9, <2>10, <2>11
<1> QED
  BY <1>3, <1>4

LEMMA AloneSkips ==
  ASSUME AloneInv, Inv', OneAtATime, NEW r \in Reqs, SkipCommit(r)
  PROVE  AloneInv' /\ KeepsDecision /\ SendsNoSkipped
<1>1. PICK d \in Dates : /\ d = req[r].date /\ digest[d] = req[r].seen /\ req[r].pc = "skip"
                         /\ digest[d] \notin {"NONE", "SKIPPED"}
  BY Carried DEF SkipCommit, At, AloneInv, Inv, TypeOK, StillTrue
<1>2. Goto(r, Idle) /\ Idle \in Request /\ \A D, M : StillTrue(Idle, D, M)
  BY Requests DEF SkipCommit, End, StillTrue, Idle
<1>3. /\ digest' = [digest EXCEPT ![d] = "SKIPPED"] /\ "SKIPPED" \in State
      /\ mail' = IF digest[d] = "APPROVED" THEN Cancelled ELSE mail
  BY <1>1 DEF SkipCommit, Writes, State
<1>4. CASE digest[d] # "APPROVED"
  BY <1>1, <1>2, <1>3, <1>4, AloneDecides DEF Decided
<1>5. CASE digest[d] = "APPROVED"
  <2>1. PICK M \in [Mails -> Mail \cup {NoMail}] : M = Cancelled /\ mail' = M
    BY <1>3, <1>5, CancelledIs DEF AloneInv, Inv
  <2>2. ASSUME NEW m \in Mails
        PROVE  /\ mail[m] = NoMail => M[m] = NoMail
               /\ mail[m] # NoMail => /\ M[m] # NoMail /\ M[m].date = mail[m].date
                                     /\ M[m].sends = mail[m].sends /\ M[m].status # "QUEUED"
    BY <2>1, CancelledIs DEF AloneInv, Inv
  <2>3. PICK D \in [Dates -> State] :
          digest' = D /\ D[d] = "SKIPPED" /\ \A e \in Dates \ {d} : D[e] = digest[e]
    BY <1>3 DEF AloneInv, Inv, TypeOK, State
  <2>4. RowsSound(digest, mail, {})
    BY <1>1, <1>2, AloneBefore DEF RecordedBy
  <2>5. ASSUME NEW m \in Mails, M[m] # NoMail PROVE RowSound(m, D, M, {})
    <3>1. /\ mail[m] # NoMail /\ M[m].date = mail[m].date /\ M[m].sends = mail[m].sends
          /\ M[m].status # "QUEUED"
      BY <2>2, <2>5
    <3>2. RowSound(m, digest, mail, {}) /\ mail[m].date \in Dates
      BY <2>4, <3>1 DEF RowsSound, AloneInv, Inv, TypeOK, Mail
    <3>3. D[M[m].date] \in Decided
      BY <2>3, <3>1, <3>2 DEF RowSound, Decided
    <3>4. ASSUME NEW k \in Mails, M[k] # NoMail, M[k].date = M[m].date PROVE m = k
      <4>1. mail[k] # NoMail /\ mail[k].date = mail[m].date
        BY <2>2, <3>1, <3>4
      <4> QED
        BY <3>2, <4>1 DEF RowSound
    <3> QED
      BY <3>1, <3>2, <3>3, <3>4 DEF RowSound
  <2>6. RowsSound(D, M, RecordedBy(Idle))
    BY <2>5 DEF RowsSound, RecordedBy, Idle
  <2>7. AloneInv'
    BY <1>2, <2>1, <2>3, <2>6, AloneGoing
  <2>8. KeepsDecision
    BY <2>3 DEF KeepsDecision
  <2>9. SendsNoSkipped
    BY <2>1, <2>2 DEF SendsNoSkipped, Rows
  <2> QED
    BY <2>7, <2>8, <2>9
<1> QED
  BY <1>4, <1>5

\* The row m, which is there, becomes w of the same date; no digest changes.
LEMMA AloneRewrites ==
  ASSUME AloneInv, Inv', OneAtATime, NEW r \in Reqs, NEW q \in Request, Goto(r, q),
         NEW m \in Mails, mail[m] # NoMail, NEW w \in Mail, mail' = [mail EXCEPT ![m] = w],
         w.date = mail[m].date, w.sends =< 1, w.status = "QUEUED" => m \in RecordedBy(q),
         w.status = "QUEUED" => mail[m].status = "QUEUED",
         RecordedBy(req[r]) \subseteq {m},
         w.sends = mail[m].sends \/ mail[m].status = "QUEUED",
         digest' = digest, StillTrue(q, digest, [mail EXCEPT ![m] = w])
  PROVE  AloneInv' /\ KeepsDecision /\ SendsNoSkipped
<1>1. RowsSound(digest, mail, {m})
  <2>1. RowsSound(digest, mail, RecordedBy(req[r]))
    BY AloneBefore
  <2> QED
    BY <2>1 DEF RowsSound, RowSound
<1>2. PICK M \in [Mails -> Mail \cup {NoMail}] :
        M = [mail EXCEPT ![m] = w] /\ M[m] = w /\ \A n \in Mails \ {m} : M[n] = mail[n]
  BY TableWith DEF AloneInv, Inv
<1>3. ASSUME NEW n \in Mails, M[n] # NoMail PROVE RowSound(n, digest, M, RecordedBy(q))
  <2>1. RowSound(n, digest, mail, {m}) /\ mail[n] # NoMail /\ M[n].date = mail[n].date
    BY <1>1, <1>2, <1>3 DEF RowsSound
  <2>2. ASSUME NEW k \in Mails, M[k] # NoMail, M[k].date = M[n].date PROVE n = k
    <3>1. mail[k] # NoMail /\ mail[k].date = mail[n].date
      BY <1>2, <2>1, <2>2
    <3> QED
      BY <2>1, <3>1 DEF RowSound
  <2>3. CASE n = m
    BY <1>2, <2>1, <2>2, <2>3 DEF RowSound
  <2>4. CASE n # m
    BY <1>2, <2>1, <2>2, <2>4 DEF RowSound
  <2> QED
    BY <2>3, <2>4
<1>4. RowsSound(digest, M, RecordedBy(q))
  BY <1>3 DEF RowsSound
<1>5. StillTrue(q, digest, M) /\ mail' = M
  BY <1>2
<1>6. AloneInv'
  BY <1>4, <1>5, AloneGoing
<1>7. ASSUME NEW d \in Dates, digest[d] = "SKIPPED", NEW n \in Rows(d)
      PROVE  mail'[n].sends = mail[n].sends
  <2>1. n \in Mails /\ mail[n] # NoMail /\ mail[n].date = d
    BY DEF Rows
  <2>2. RowSound(n, digest, mail, {m})
    BY <1>1, <2>1 DEF RowsSound
  <2>3. mail[n].status # "QUEUED"
    BY <1>7, <2>1, <2>2 DEF RowSound
  <2> QED
    BY <1>2, <1>5, <2>1, <2>3
<1>8. KeepsDecision /\ SendsNoSkipped
  BY <1>7 DEF KeepsDecision, SendsNoSkipped
<1> QED
  BY <1>6, <1>8

LEMMA AloneSends ==
  ASSUME AloneInv, Inv', OneAtATime, NEW r \in Reqs, NEW m \in Mails, Send(r, m)
  PROVE  AloneInv' /\ KeepsDecision /\ SendsNoSkipped
<1>1. PICK todo \in SUBSET Mails :
        /\ todo = req[r].todo /\ m \in todo /\ req[r].pc = "process"
        /\ \A n \in todo : mail[n].status = "QUEUED" /\ mail[n].sends = 0
  BY Carried DEF Send, At, AloneInv, Inv, TypeOK, StillTrue
<1>2. PICK delivered \in BOOLEAN, as \in {"SENT", "FAILED"} :
        /\ Goto(r, [pc |-> "record", todo |-> todo \ {m}, mail |-> m, as |-> as])
        /\ Writes(digest, IF delivered THEN [mail EXCEPT ![m].sends = @ + 1] ELSE mail)
  BY <1>1 DEF Send
<1>3. PICK q \in Request : q = [pc |-> "record", todo |-> todo \ {m}, mail |-> m, as |-> as]
  BY <1>1, Requests
<1>4. /\ mail[m] # NoMail /\ mail[m] \in Mail /\ Goto(r, q)
      /\ mail[m].status = "QUEUED" /\ mail[m].sends = 0
  BY <1>1, <1>2, <1>3 DEF AloneInv, Inv, TypeOK, NoMail
<1>5. CASE ~delivered
  <2>1. StillTrue(q, digest, mail)
    BY <1>1, <1>3 DEF StillTrue
  <2> QED
    BY <1>1, <1>2, <1>4, <1>5, <2>1, AloneReads DEF Writes
<1>6. CASE delivered
  <2>1. PICK w \in Mail : /\ w = [mail[m] EXCEPT !.sends = @ + 1]
                          /\ w.status = mail[m].status /\ w.date = mail[m].date
                          /\ w.sends = mail[m].sends + 1
    BY <1>4, Delivered
  <2>2. mail' = [mail EXCEPT ![m] = w] /\ digest' = digest
    BY <1>2, <1>6, <2>1 DEF Writes
  <2>3. \A n \in Mails \ {m} : [mail EXCEPT ![m] = w][n] = mail[n]
    BY DEF AloneInv, Inv, TypeOK
  <2>4. StillTrue(q, digest, [mail EXCEPT ![m] = w])
    BY <1>1, <1>3, <2>3 DEF StillTrue
  <2>5. w.sends =< 1 /\ m \in RecordedBy(q) /\ RecordedBy(req[r]) = {}
    BY <1>1, <1>3, <1>4, <2>1 DEF RecordedBy
  <2>6. w.date = mail[m].date
    BY <2>1
  <2> QED
    BY <1>4, <2>2, <2>4, <2>5, <2>6, AloneRewrites
<1> QED
  BY <1>5, <1>6

LEMMA AloneRecords ==
  ASSUME AloneInv, Inv', OneAtATime, NEW r \in Reqs, Record(r)
  PROVE  AloneInv' /\ KeepsDecision /\ SendsNoSkipped
<1>1. PICK todo \in SUBSET Mails, m \in Mails, s \in {"SENT", "FAILED"} :
        /\ todo = req[r].todo /\ m = req[r].mail /\ s = req[r].as
        /\ req[r].pc = "record" /\ m \notin todo
        /\ \A n \in todo : mail[n].status = "QUEUED" /\ mail[n].sends = 0
  BY Carried DEF Record, At, AloneInv, Inv, TypeOK, StillTrue
<1>2. mail[m] # NoMail /\ mail[m] \in Mail
  BY <1>1 DEF AloneInv, Inv, Knows, TypeOK
<1>3. PICK w \in Mail : /\ w = [mail[m] EXCEPT !.status = s] /\ w.status = s
                        /\ w.date = mail[m].date /\ w.sends = mail[m].sends
  <2> DEFINE w == [mail[m] EXCEPT !.status = s]
  <2>1. w \in Mail /\ w.status = s /\ w.date = mail[m].date /\ w.sends = mail[m].sends
    BY <1>2 DEF Mail
  <2> QED
    BY <2>1
<1>4. mail' = [mail EXCEPT ![m] = w] /\ digest' = digest
  BY <1>1, <1>3 DEF Record, Writes
<1>5. PICK q \in Request :
        Goto(r, q) /\ (q = Idle \/ q = [pc |-> "process", todo |-> todo])
  BY <1>1, Requests DEF Record, End
<1>6. RecordedBy(req[r]) = {m}
  BY <1>1 DEF RecordedBy
<1>7. w.sends =< 1
  <2>1. RowSound(m, digest, mail, {m})
    BY <1>2, <1>5, <1>6, AloneBefore DEF RowsSound
  <2> QED
    BY <1>3, <2>1 DEF RowSound
<1>8. StillTrue(q, digest, [mail EXCEPT ![m] = w])
  <2>1. CASE q = Idle
    BY <2>1 DEF StillTrue, Idle
  <2>2. CASE q = [pc |-> "process", todo |-> todo]
    <3>1. \A n \in todo : [mail EXCEPT ![m] = w][n] = mail[n]
      BY <1>1 DEF AloneInv, Inv, TypeOK
    <3> QED
      BY <1>1, <2>2, <3>1 DEF StillTrue
  <2> QED
    BY <1>5, <2>1, <2>2
<1>9. w.status # "QUEUED" /\ w.date = mail[m].date /\ w.sends = mail[m].sends
  BY <1>3
<1>10. Goto(r, q)
  BY <1>5
<1> QED
  BY <1>2, <1>4, <1>6, <1>7, <1>8, <1>9, <1>10, AloneRewrites

LEMMA AloneMarks ==
  ASSUME AloneInv, Inv', OneAtATime, NEW r \in Reqs, MarkCommit(r)
  PROVE  AloneInv' /\ KeepsDecision /\ SendsNoSkipped
<1>1. PICK m \in Mails : m = req[r].mail /\ req[r].pc = "mark" /\ mail[m] # NoMail
  BY Carried DEF MarkCommit, At, AloneInv, Inv, TypeOK, Knows
<1>2. mail[m] \in Mail
  BY <1>1 DEF AloneInv, Inv, TypeOK
<1>3. PICK w \in Mail : /\ w = [mail[m] EXCEPT !.status = "SENT", !.byHand = TRUE]
                        /\ w.status = "SENT" /\ w.byHand
                        /\ w.date = mail[m].date /\ w.sends = mail[m].sends
  BY <1>2, Marked
<1>4. mail' = [mail EXCEPT ![m] = w] /\ digest' = digest
  <2>1. mail' = [mail EXCEPT ![m].status = "SENT", ![m].byHand = TRUE]
    BY <1>1 DEF MarkCommit, Writes
  <2>2. mail' = [mail EXCEPT ![m] = w]
    BY <1>1, <1>3, <2>1 DEF AloneInv, Inv, TypeOK
  <2> QED
    BY <2>2 DEF MarkCommit, Writes
<1>5. Goto(r, Idle) /\ Idle \in Request /\ \A D, M : StillTrue(Idle, D, M)
  BY Requests DEF MarkCommit, End, StillTrue, Idle
<1>6. RecordedBy(req[r]) = {}
  BY <1>1 DEF RecordedBy
<1>7. w.sends =< 1
  <2>1. RowSound(m, digest, mail, {})
    BY <1>1, <1>5, <1>6, AloneBefore DEF RowsSound
  <2> QED
    BY <1>3, <2>1 DEF RowSound
<1>8. w.status # "QUEUED" /\ w.date = mail[m].date /\ w.sends = mail[m].sends
  BY <1>3
<1> QED
  BY <1>1, <1>4, <1>5, <1>6, <1>7, <1>8, AloneRewrites

LEMMA AloneStep ==
  ASSUME MaxDeaths \in Nat
  PROVE  AloneInv /\ [AloneNext]_vars => AloneInv' /\ [KeepsDecision /\ SendsNoSkipped]_vars
<1> SUFFICES ASSUME AloneInv, [AloneNext]_vars
             PROVE  AloneInv' /\ [KeepsDecision /\ SendsNoSkipped]_vars
  OBVIOUS
<1>1. Inv'
  BY InvStep DEF AloneInv, AloneNext
<1>2. CASE UNCHANGED <<digest, mail, req>>
  BY <1>1, <1>2 DEF AloneInv, Recorded, KeepsDecision, SendsNoSkipped
<1>3. CASE AloneNext
  <2>1. OneAtATime
    BY <1>3 DEF AloneNext, OneAtATime
  <2>2. ASSUME NEW r \in Reqs, Die(r) PROVE FALSE
    BY <1>3, <2>2 DEF AloneNext, Die, AloneInv, Inv, TypeOK
  <2>3. ASSUME NEW r \in Reqs, SetRule(r) PROVE UNCHANGED <<digest, mail, req>>
    BY <2>3 DEF SetRule
  <2> QED
    BY <1>1, <1>2, <1>3, <2>1, <2>2, <2>3, AloneBegins, AloneDrafts, AlonePreviews, AloneApproves,
       AloneSkips, AloneSends, AloneRecords, AloneMarks DEF AloneNext, Next
<1> QED
  BY <1>2, <1>3 DEF vars

LEMMA AloneInit == ASSUME MaxDeaths \in Nat PROVE Init => AloneInv
<1> SUFFICES ASSUME Init PROVE AloneInv
  OBVIOUS
<1>1. Inv
  BY InvInit
<1>2. \A r \in Reqs : StillTrue(req[r], digest, mail)
  BY DEF Init, StillTrue, Idle
<1>3. RowsSound(digest, mail, Recorded)
  BY DEF Init, RowsSound
<1> QED
  BY <1>1, <1>2, <1>3 DEF AloneInv

LEMMA AloneMeans == AloneInv => SentOnce
<1> SUFFICES ASSUME AloneInv, NEW d \in Dates,
                    NEW m \in Rows(d), NEW n \in Rows(d)
             PROVE  mail[m].sends =< 1 /\ m = n
  BY DEF SentOnce
<1>1. m \in Mails /\ n \in Mails /\ RowSound(m, digest, mail, Recorded)
  BY DEF AloneInv, RowsSound, Rows
<1> QED
  BY <1>1 DEF RowSound, Rows

\* One request at a time, none killed, delivers the digest of a date at most once, makes
\* no preview of a decided digest and sends no email of a skipped one (approveDigest,
\* skipDigest, the processor).
THEOREM AloneCorrect ==
  ASSUME MaxDeaths \in Nat
  PROVE  AloneSpec => []SentOnce /\ [][KeepsDecision /\ SendsNoSkipped]_vars
BY AloneInit, AloneStep, AloneMeans, PTL DEF AloneSpec

=============================================================================
