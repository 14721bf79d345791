-------------------------- MODULE NotificationProofs --------------------------
(* NotificationWorker, for any number of mails, workers and crashes: the     *)
(* types, the one holder of a row, the account of the copies, and the        *)
(* refinement of MailOutbox.                                                 *)
EXTENDS MCCheckInAndMail, TLAPS

USE NotificationAssumption

Talking(w) == pc[w] \in {"claimed", "took", "raised"}

\* a worker that talks to the mail server holds one row, another none
HoldsOne ==
  \A w \in Workers :
    IF Talking(w) THEN \E m \in Mails : job[w] = {m} ELSE job[w] = {}

\* a claimed row is open, is worth a try and has its original text
ClaimIsGood ==
  \A w \in Workers, m \in Mails : m \in job[w] =>
    /\ row[m].status \in {"pending", "failed"}
    /\ row[m].tries < MaxTries

OneClaim ==
  \A v, w \in Workers : \A m \in Mails : m \in job[v] /\ m \in job[w] => v = w

\* only a sent mail is wiped
WipedIsSent == \A m \in Mails : row[m].wiped => row[m].status = "sent"

\* a worker that has been told the mail was taken, and has not committed
Taken(m) == \E w \in Workers : pc[w] = "took" /\ m \in job[w]

\* a copy is one whose acceptance is lost, or the one that is recorded as
\* sent or about to be
Settled(m) == row[m].status = "sent" \/ Taken(m)

Account ==
  \A m \in Mails : copies[m] = unrecorded[m] + (IF Settled(m) THEN 1 ELSE 0)

Inv == MailTypeOK /\ HoldsOne /\ ClaimIsGood /\ OneClaim /\ WipedIsSent /\ Account

LEMMA InitInv == MailInit => Inv
<1>. SUFFICES ASSUME MailInit PROVE Inv
  OBVIOUS
<1>1. MailTypeOK
  BY DEF MailInit, MailTypeOK, Row, Stages
<1>2. HoldsOne /\ ClaimIsGood /\ OneClaim /\ WipedIsSent
  BY DEF MailInit, HoldsOne, ClaimIsGood, OneClaim, WipedIsSent, Talking
<1>3. Account
  BY DEF MailInit, Account, Settled, Taken
<1>. QED
  BY <1>1, <1>2, <1>3 DEF Inv

-----------------------------------------------------------------------------
(* One lemma per part of the invariant, one step per action. *)

LEMMA TypeStep == MailTypeOK /\ ClaimIsGood /\ [MailNext]_mailVars => MailTypeOK'
<1>. SUFFICES ASSUME MailTypeOK, ClaimIsGood, [MailNext]_mailVars PROVE MailTypeOK'
  OBVIOUS
<1>. USE DEF MailTypeOK, Row, Stages
<1>1. ASSUME NEW m \in Mails, Queue(m) PROVE MailTypeOK'
  BY <1>1 DEF Queue
<1>2. ASSUME NEW m \in Mails, RetryDelayPasses(m) PROVE MailTypeOK'
  <2>1. row' = [row EXCEPT ![m].wait = FALSE] /\ row[m] \in Row
    BY <1>2 DEF RetryDelayPasses
  <2>2. [row[m] EXCEPT !.wait = FALSE] \in Row
    BY <2>1
  <2>3. row' \in [Mails -> Row]
    <3>. DEFINE x == [row[m] EXCEPT !.wait = FALSE]
    <3>1. row' = [row EXCEPT ![m] = x] /\ x \in Row
      BY <2>1, <2>2, Zenon
    <3>. HIDE DEF x, Row
    <3>. QED
      BY <3>1
  <2>. QED
    BY <1>2, <2>3 DEF RetryDelayPasses
<1>3. ASSUME NEW w \in Workers, Poll(w) PROVE MailTypeOK'
  BY <1>3 DEF Poll, Continue, NextBatch, Waiting
<1>4. ASSUME NEW w \in Workers, NEW m \in Mails, Dismiss(w, m) PROVE MailTypeOK'
  BY <1>4 DEF Dismiss, Continue
<1>5. ASSUME NEW w \in Workers, NEW m \in Mails, Claim(w, m) PROVE MailTypeOK'
  BY <1>5 DEF Claim
<1>6. ASSUME NEW w \in Workers, NEW m \in Mails, Talk(w, m) PROVE MailTypeOK'
  BY <1>6 DEF Talk, Deliver, Refused, AnswerLost
<1>7. ASSUME NEW w \in Workers, NEW m \in Mails, Record(w, m) PROVE MailTypeOK'
  <2>1. m \in job[w]
    BY <1>7 DEF Record, RecordSent, RecordFailed
  <2>2. row[m].tries < MaxTries /\ row[m].tries \in 0..MaxTries /\ row[m].wiped \in BOOLEAN
    BY <2>1 DEF ClaimIsGood
  <2>3. row[m].tries + 1 \in 0..MaxTries
    BY <2>2, NotificationAssumption
  <2>4. CASE RecordSent(w, m)
    BY <2>3, <2>4 DEF RecordSent, Tell, Continue
  <2>5. CASE RecordFailed(w, m)
    BY <2>2, <2>3, <2>5 DEF RecordFailed, Tell, Continue
  <2>. QED
    BY <1>7, <2>4, <2>5 DEF Record
<1>8. ASSUME NEW w \in Workers, Crash(w) PROVE MailTypeOK'
  BY <1>8 DEF Crash
<1>9. ASSUME NEW w \in Workers, Restart(w) PROVE MailTypeOK'
  BY <1>9 DEF Restart
<1>10. CASE UNCHANGED mailVars
  BY <1>10 DEF mailVars
<1>. QED
  BY <1>1, <1>2, <1>3, <1>4, <1>5, <1>6, <1>7, <1>8, <1>9, <1>10 DEF MailNext, Work

LEMMA HoldsOneStep == MailTypeOK /\ HoldsOne /\ [MailNext]_mailVars => HoldsOne'
<1>. SUFFICES ASSUME MailTypeOK, HoldsOne, [MailNext]_mailVars, NEW v \in Workers
              PROVE  IF Talking(v)' THEN \E m \in Mails : job'[v] = {m} ELSE job'[v] = {}
  BY DEF HoldsOne
<1>. DEFINE Goal == IF Talking(v)' THEN \E m \in Mails : job'[v] = {m} ELSE job'[v] = {}
<1>. USE DEF MailTypeOK, HoldsOne, Talking
<1>1. ASSUME NEW m \in Mails, Queue(m) \/ RetryDelayPasses(m) PROVE Goal
  BY <1>1 DEF Queue, RetryDelayPasses
<1>2. ASSUME NEW w \in Workers, Poll(w) \/ Restart(w) \/ Crash(w) PROVE Goal
  BY <1>2 DEF Poll, Restart, Crash, Continue
<1>3. ASSUME NEW w \in Workers, NEW m \in Mails, Dismiss(w, m) PROVE Goal
  BY <1>3 DEF Dismiss, Continue, Oldest
<1>4. ASSUME NEW w \in Workers, NEW m \in Mails, Claim(w, m) PROVE Goal
  BY <1>4 DEF Claim
<1>5. ASSUME NEW w \in Workers, NEW m \in Mails, Talk(w, m) PROVE Goal
  BY <1>5 DEF Talk, Deliver, Refused, AnswerLost
<1>6. ASSUME NEW w \in Workers, NEW m \in Mails, Record(w, m) PROVE Goal
  BY <1>6 DEF Record, RecordSent, RecordFailed, Continue
<1>7. CASE UNCHANGED mailVars
  BY <1>7 DEF mailVars
<1>. QED
  BY <1>1, <1>2, <1>3, <1>4, <1>5, <1>6, <1>7 DEF MailNext, Work

LEMMA OneClaimStep == MailTypeOK /\ OneClaim /\ [MailNext]_mailVars => OneClaim'
<1>. SUFFICES ASSUME MailTypeOK, OneClaim, [MailNext]_mailVars PROVE OneClaim'
  OBVIOUS
<1>. USE DEF MailTypeOK
<1>1. ASSUME NEW m \in Mails, Queue(m) \/ RetryDelayPasses(m) PROVE OneClaim'
  BY <1>1 DEF Queue, RetryDelayPasses, OneClaim
<1>2. ASSUME NEW w \in Workers, Poll(w) \/ Restart(w) \/ Crash(w) PROVE OneClaim'
  BY <1>2 DEF Poll, Restart, Crash, OneClaim
<1>3. ASSUME NEW w \in Workers, NEW m \in Mails, Dismiss(w, m) PROVE OneClaim'
  BY <1>3 DEF Dismiss, OneClaim
<1>4. ASSUME NEW w \in Workers, NEW m \in Mails, Claim(w, m) PROVE OneClaim'
  BY <1>4 DEF Claim, Locked, OneClaim
<1>5. ASSUME NEW w \in Workers, NEW m \in Mails, Talk(w, m) PROVE OneClaim'
  BY <1>5 DEF Talk, Deliver, Refused, AnswerLost, OneClaim
<1>6. ASSUME NEW w \in Workers, NEW m \in Mails, Record(w, m) PROVE OneClaim'
  BY <1>6 DEF Record, RecordSent, RecordFailed, OneClaim
<1>7. CASE UNCHANGED mailVars
  BY <1>7 DEF mailVars, OneClaim
<1>. QED
  BY <1>1, <1>2, <1>3, <1>4, <1>5, <1>6, <1>7 DEF MailNext, Work

\* A row is written by its holder alone, so what the claim found stays true.
LEMMA ClaimIsGoodStep ==
  MailTypeOK /\ HoldsOne /\ OneClaim /\ ClaimIsGood /\ [MailNext]_mailVars => ClaimIsGood'
<1>. SUFFICES ASSUME MailTypeOK, HoldsOne, OneClaim, ClaimIsGood, [MailNext]_mailVars,
                     NEW v \in Workers, NEW k \in Mails, k \in job'[v]
              PROVE  row'[k].status \in {"pending", "failed"} /\ row'[k].tries < MaxTries
  BY DEF ClaimIsGood
<1>. DEFINE Goal == row'[k].status \in {"pending", "failed"} /\ row'[k].tries < MaxTries
<1>. USE DEF MailTypeOK
<1>1. ASSUME NEW m \in Mails, Queue(m) \/ RetryDelayPasses(m) PROVE Goal
  <2>1. k \in job[v] /\ row[k] \in Row
    BY <1>1 DEF Queue, RetryDelayPasses
  <2>2. row[k].status \in {"pending", "failed"} /\ row[k].tries < MaxTries
    BY <2>1 DEF ClaimIsGood
  <2>3. row'[k].status = row[k].status /\ row'[k].tries = row[k].tries
    BY <1>1, <2>1, <2>2, SMTT(20) DEF Queue, RetryDelayPasses, Row
  <2>. QED
    BY <2>2, <2>3
<1>2. ASSUME NEW w \in Workers, Poll(w) \/ Restart(w) \/ Crash(w) PROVE Goal
  BY <1>2 DEF Poll, Restart, Crash, ClaimIsGood
<1>3. ASSUME NEW w \in Workers, NEW m \in Mails, Dismiss(w, m) PROVE Goal
  BY <1>3 DEF Dismiss, ClaimIsGood
<1>4. ASSUME NEW w \in Workers, NEW m \in Mails, Claim(w, m) PROVE Goal
  BY <1>4 DEF Claim, Deliverable, ClaimIsGood
<1>5. ASSUME NEW w \in Workers, NEW m \in Mails, Talk(w, m) PROVE Goal
  BY <1>5 DEF Talk, Deliver, Refused, AnswerLost, ClaimIsGood
<1>6. ASSUME NEW w \in Workers, NEW m \in Mails, Record(w, m) PROVE Goal
  <2>1. job' = [job EXCEPT ![w] = {}] /\ m \in job[w]
    BY <1>6 DEF Record, RecordSent, RecordFailed
  <2>2. v # w /\ k \in job[v]
    BY <2>1
  <2>3. k # m
    BY <2>1, <2>2 DEF OneClaim
  <2>4. row'[k] = row[k]
    BY <1>6, <2>3 DEF Record, RecordSent, RecordFailed
  <2>. QED
    BY <2>2, <2>4 DEF ClaimIsGood
<1>7. CASE UNCHANGED mailVars
  BY <1>7 DEF mailVars, ClaimIsGood
<1>. QED
  BY <1>1, <1>2, <1>3, <1>4, <1>5, <1>6, <1>7 DEF MailNext, Work

LEMMA WipedIsSentStep ==
  MailTypeOK /\ ClaimIsGood /\ WipedIsSent /\ [MailNext]_mailVars => WipedIsSent'
<1>. SUFFICES ASSUME MailTypeOK, ClaimIsGood, WipedIsSent, [MailNext]_mailVars,
                     NEW k \in Mails, row'[k].wiped
              PROVE  row'[k].status = "sent"
  BY DEF WipedIsSent
<1>. USE DEF MailTypeOK, WipedIsSent
<1>1. ASSUME NEW m \in Mails, Queue(m) \/ RetryDelayPasses(m)
      PROVE  row'[k].status = "sent"
  BY <1>1, SMTT(20) DEF Queue, RetryDelayPasses, Row
<1>2. ASSUME NEW w \in Workers, NEW m \in Mails, Record(w, m)
      PROVE  row'[k].status = "sent"
  BY <1>2 DEF Record, RecordSent, RecordFailed, ClaimIsGood
<1>3. CASE UNCHANGED row
  BY <1>3
<1>. QED
  BY <1>1, <1>2, <1>3 DEF MailNext, Work, Poll, Restart, Crash, Dismiss, Claim, Talk,
                          Deliver, Refused, AnswerLost, mailVars

\* A step that counts no copy, and changes nobody's standing, keeps the account.
LEMMA KeepAccount ==
  ASSUME MailTypeOK, Account, NEW k \in Mails, copies'[k] = copies[k],
         unrecorded'[k] = unrecorded[k], Settled(k)' <=> Settled(k)
  PROVE  copies'[k] = unrecorded'[k] + (IF Settled(k)' THEN 1 ELSE 0)
<1>1. copies[k] = unrecorded[k] + (IF Settled(k) THEN 1 ELSE 0)
  BY DEF Account
<1>. QED
  BY <1>1

LEMMA AccountStep == Inv /\ [MailNext]_mailVars => Account'
<1>. SUFFICES ASSUME Inv, [MailNext]_mailVars, NEW k \in Mails
              PROVE  copies'[k] = unrecorded'[k] + (IF Settled(k)' THEN 1 ELSE 0)
  BY DEF Account
<1>. DEFINE Goal == copies'[k] = unrecorded'[k] + (IF Settled(k)' THEN 1 ELSE 0)
<1>a. MailTypeOK /\ HoldsOne /\ ClaimIsGood /\ OneClaim /\ Account
  BY DEF Inv
<1>b. copies[k] = unrecorded[k] + (IF Settled(k) THEN 1 ELSE 0)
      /\ copies[k] \in Nat /\ unrecorded[k] \in Nat
  BY <1>a DEF Account, MailTypeOK
<1>c. ASSUME NEW w \in Workers, NEW m \in Mails, m \in job[w], Talking(w)
      PROVE  /\ job[w] = {m} /\ row[m].status # "sent"
             /\ \A v \in Workers : m \in job[v] => v = w
  BY <1>a, <1>c DEF HoldsOne, ClaimIsGood, OneClaim
<1>1. ASSUME NEW m \in Mails, Queue(m) \/ RetryDelayPasses(m) PROVE Goal
  <2>1. row'[k].status = "sent" <=> row[k].status = "sent"
    <3>1. row[k] \in Row /\ row[m] \in Row
      BY <1>a DEF MailTypeOK
    <3>. QED
      BY <1>1, <1>a, <3>1 DEF Queue, RetryDelayPasses, Row, MailTypeOK
  <2>2. Settled(k)' <=> Settled(k)
    BY <1>1, <2>1 DEF Queue, RetryDelayPasses, Settled, Taken
  <2>. QED
    BY <1>1, <1>a, <2>2, KeepAccount DEF Queue, RetryDelayPasses
<1>2. ASSUME NEW w \in Workers, Poll(w) \/ Restart(w) PROVE Goal
  <2>1. Settled(k)' <=> Settled(k)
    BY <1>2, <1>a DEF Poll, Restart, Continue, Settled, Taken, MailTypeOK
  <2>. QED
    BY <1>2, <1>a, <2>1, KeepAccount DEF Poll, Restart
<1>3. ASSUME NEW w \in Workers, NEW m \in Mails, Dismiss(w, m) \/ Claim(w, m) PROVE Goal
  <2>1. Settled(k)' <=> Settled(k)
    BY <1>3, <1>a DEF Dismiss, Claim, Oldest, Continue, Settled, Taken, MailTypeOK
  <2>. QED
    BY <1>3, <1>a, <2>1, KeepAccount DEF Dismiss, Claim
<1>4. ASSUME NEW w \in Workers, NEW m \in Mails, Deliver(w, m) PROVE Goal
  <2>1. /\ job[w] = {m} /\ row[m].status # "sent"
        /\ \A v \in Workers : m \in job[v] => v = w
    BY <1>4, <1>c DEF Deliver, Talking
  <2>2. CASE k = m
    <3>1. ~Settled(k)
      BY <1>4, <2>1, <2>2 DEF Deliver, Settled, Taken
    <3>2. Settled(k)'
      BY <1>4, <1>a, <2>2 DEF Deliver, Settled, Taken, MailTypeOK
    <3>3. copies'[k] = copies[k] + 1 /\ unrecorded' = unrecorded
      BY <1>4, <1>a, <2>2 DEF Deliver, MailTypeOK
    <3>. QED
      BY <1>b, <3>1, <3>2, <3>3
  <2>3. CASE k # m
    <3>1. Settled(k)' <=> Settled(k)
      BY <1>4, <1>a, <2>1, <2>3 DEF Deliver, Settled, Taken, MailTypeOK
    <3>. QED
      BY <1>4, <1>a, <2>3, <3>1, KeepAccount DEF Deliver, MailTypeOK
  <2>. QED
    BY <2>2, <2>3
<1>5. ASSUME NEW w \in Workers, NEW m \in Mails, Refused(w, m) \/ AnswerLost(w, m)
      PROVE  Goal
  <2>1. Settled(k)' <=> Settled(k)
    BY <1>5, <1>a DEF Refused, AnswerLost, Settled, Taken, MailTypeOK
  <2>2. CASE AnswerLost(w, m) /\ k = m
    <3>1. copies'[k] = copies[k] + 1 /\ unrecorded'[k] = unrecorded[k] + 1
      BY <1>a, <2>2 DEF AnswerLost, MailTypeOK
    <3>. QED
      BY <1>b, <2>1, <3>1
  <2>3. CASE Refused(w, m) \/ k # m
    BY <1>5, <1>a, <2>1, <2>3, KeepAccount DEF Refused, AnswerLost, MailTypeOK
  <2>. QED
    BY <1>5, <2>2, <2>3
<1>6. ASSUME NEW w \in Workers, NEW m \in Mails, Record(w, m) PROVE Goal
  <2>1. /\ job[w] = {m} /\ row[m].status # "sent"
        /\ \A v \in Workers : m \in job[v] => v = w
    BY <1>6, <1>c DEF Record, RecordSent, RecordFailed, Talking
  <2>2. CASE k # m
    <3>1. Settled(k)' <=> Settled(k)
      BY <1>6, <1>a, <2>1, <2>2
         DEF Record, RecordSent, RecordFailed, Continue, Settled, Taken, MailTypeOK
    <3>. QED
      BY <1>6, <1>a, <3>1, KeepAccount DEF Record, RecordSent, RecordFailed
  <2>3. CASE k = m /\ RecordSent(w, m)
    <3>1. Settled(k) /\ Settled(k)'
      BY <1>a, <2>3 DEF RecordSent, Settled, Taken, MailTypeOK
    <3>. QED
      BY <1>a, <2>3, <3>1, KeepAccount DEF RecordSent
  <2>4. CASE k = m /\ RecordFailed(w, m)
    <3>1. ~Settled(k) /\ ~Settled(k)'
      BY <1>a, <2>1, <2>4 DEF RecordFailed, Continue, Settled, Taken, MailTypeOK
    <3>. QED
      BY <1>a, <2>4, <3>1, KeepAccount DEF RecordFailed
  <2>. QED
    BY <1>6, <2>2, <2>3, <2>4 DEF Record
<1>7. ASSUME NEW w \in Workers, Crash(w) PROVE Goal
  <2>1. CASE pc[w] = "took" /\ k \in job[w]
    <3>1. Settled(k)
      BY <2>1 DEF Settled, Taken
    <3>2. ~Settled(k)'
      BY <1>7, <1>a, <1>c, <2>1 DEF Crash, Settled, Taken, Talking, MailTypeOK
    <3>3. copies' = copies /\ unrecorded'[k] = unrecorded[k] + 1
      BY <1>7, <2>1 DEF Crash
    <3>. QED
      BY <1>b, <3>1, <3>2, <3>3
  <2>2. CASE ~(pc[w] = "took" /\ k \in job[w])
    <3>1. Settled(k)' <=> Settled(k)
      BY <1>7, <1>a, <2>2 DEF Crash, Settled, Taken, MailTypeOK
    <3>. QED
      BY <1>7, <1>a, <2>2, <3>1, KeepAccount DEF Crash
  <2>. QED
    BY <2>1, <2>2
<1>8. CASE UNCHANGED mailVars
  BY <1>8, <1>b DEF mailVars, Settled, Taken
<1>. QED
  BY <1>1, <1>2, <1>3, <1>4, <1>5, <1>6, <1>7, <1>8 DEF MailNext, Work, Talk

LEMMA Invariance == MailSpec => []Inv
<1>1. Inv /\ [MailNext]_mailVars => Inv'
  BY TypeStep, HoldsOneStep, OneClaimStep, ClaimIsGoodStep, WipedIsSentStep,
     AccountStep DEF Inv
<1>. QED
  BY <1>1, InitInv, PTL DEF MailSpec

-----------------------------------------------------------------------------
\* Tries stay within the limit, with any number of workers and old batches.
THEOREM TypeCorrect == MailSpec => []MailTypeOK
<1>1. Inv => MailTypeOK
  BY DEF Inv
<1>. QED
  BY <1>1, Invariance, PTL

\* However many workers handle the table, a recipient gets a second copy only
\* after a death or a lost answer.
THEOREM DeliveredOnceAlways == MailSpec => []DeliveredOnce
<1>1. Inv => DeliveredOnce
  BY DEF Inv, MailTypeOK, Account, DeliveredOnce
<1>. QED
  BY <1>1, Invariance, PTL

-----------------------------------------------------------------------------
\* The mail of MailOutbox a row stands for.
Box(m) == IF row[m].status = "pending" THEN "waiting" ELSE row[m].status

LEMMA InitRefines == MailInit => Outbox!Init
BY DEF MailInit, Outbox!Init

LEMMA StepRefines ==
  Inv /\ [MailNext]_mailVars =>
    [Outbox!Next]_<<[m \in Mails |-> Box(m)], [m \in Mails |-> row[m].tries], copies,
                    [m \in Mails |-> row[m].wiped], alert>>
<1>. DEFINE seen == <<[m \in Mails |-> Box(m)], [m \in Mails |-> row[m].tries], copies,
                      [m \in Mails |-> row[m].wiped], alert>>
<1>. SUFFICES ASSUME Inv, [MailNext]_mailVars PROVE Outbox!Next \/ UNCHANGED seen
  OBVIOUS
<1>a. MailTypeOK /\ HoldsOne /\ ClaimIsGood /\ WipedIsSent /\ Account
  BY DEF Inv
<1>1. ASSUME NEW m \in Mails, Queue(m) PROVE Outbox!Accept(m)
  BY <1>1, <1>a DEF Queue, Outbox!Accept, MailTypeOK, Row
<1>2. ASSUME NEW m \in Mails, RetryDelayPasses(m) PROVE UNCHANGED seen
  BY <1>2, <1>a DEF RetryDelayPasses, Box, MailTypeOK, Row
<1>3. ASSUME NEW w \in Workers, NEW m \in Mails, Deliver(w, m) \/ AnswerLost(w, m)
      PROVE  Outbox!Copy(m)
  <2>1. row[m].status \in {"pending", "failed"} /\ ~row[m].wiped
    BY <1>3, <1>a DEF Deliver, AnswerLost, ClaimIsGood, WipedIsSent
  <2>. QED
    BY <1>3, <2>1 DEF Deliver, AnswerLost, Outbox!Copy, Outbox!Unsettled
<1>4. ASSUME NEW w \in Workers, NEW m \in Mails, RecordSent(w, m) PROVE Outbox!Sent(m)
  <2>1. row[m].status \in {"pending", "failed"} /\ row[m].tries < MaxTries
    BY <1>4, <1>a DEF RecordSent, ClaimIsGood
  <2>2. copies[m] > 0
    BY <1>4, <1>a DEF RecordSent, Account, Settled, Taken, MailTypeOK
  <2>. QED
    BY <1>4, <1>a, <2>1, <2>2
       DEF RecordSent, Tell, Outbox!Sent, Outbox!Tell, Outbox!Unsettled, MailTypeOK, Row
<1>5. ASSUME NEW w \in Workers, NEW m \in Mails, RecordFailed(w, m) PROVE Outbox!Failed(m)
  <2>1. row[m].status \in {"pending", "failed"} /\ row[m].tries < MaxTries
    BY <1>5, <1>a DEF RecordFailed, ClaimIsGood
  <2>. QED
    BY <1>5, <1>a, <2>1
       DEF RecordFailed, Tell, Outbox!Failed, Outbox!Tell, Outbox!Unsettled, MailTypeOK, Row
<1>6. CASE UNCHANGED <<row, alert, copies>>
  BY <1>6 DEF Box
<1>. QED
  BY <1>1, <1>2, <1>3, <1>4, <1>5, <1>6
     DEF Outbox!Next, MailNext, Work, Poll, Restart, Crash, Dismiss, Claim, Talk, Refused,
         Record, mailVars

\* The table keeps what MailOutbox promises of every mail.
THEOREM Refinement == MailSpec => ImplementsOutbox
<1>1. MailInit => Outbox!Init
  BY InitRefines
<1>2. Inv /\ [MailNext]_mailVars =>
        [Outbox!Next]_<<[m \in Mails |-> IF row[m].status = "pending" THEN "waiting"
                                         ELSE row[m].status],
                        [m \in Mails |-> row[m].tries], copies,
                        [m \in Mails |-> row[m].wiped], alert>>
  BY StepRefines DEF Box
<1>. QED
  BY <1>1, <1>2, Invariance, PTL DEF MailSpec, ImplementsOutbox, Outbox!Spec

\* What TLC explores is behaviour of the session and of the workers.
THEOREM InstanceOfBoth == ServicesSpec => Spec /\ MailSpec
<1>1. ServicesInit => Init /\ MailInit
  BY DEF ServicesInit
<1>2. [ServicesNext]_<<moving, vars, mailVars>> => [Next]_vars /\ [MailNext]_mailVars
  BY DEF ServicesNext
<1>. QED
  BY <1>1, <1>2, PTL DEF ServicesSpec, Spec, MailSpec
=============================================================================
