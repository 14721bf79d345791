-------------------------- MODULE NotificationWorker --------------------------
(***************************************************************************)
(* The delivery of the notifications table by worker processes             *)
(* (src/backend/app/workers): a worker reads the ids of a batch in one     *)
(* transaction and handles them one by one, each in a transaction of its   *)
(* own that claims the row (FOR UPDATE SKIP LOCKED), talks to the mail     *)
(* server and commits the outcome. A worker may die anywhere and is        *)
(* started again. Two run at once while a deployment replaces one, or      *)
(* when more are started.                                                  *)
(*                                                                         *)
(* The polling query is the one the deployed program runs, worker.py:13;   *)
(* `python -m app.workers.worker` enters its loop at line 51, before the   *)
(* second definition at line 54 exists. notification_job.py is imported,   *)
(* so there the second definitions are in force.                           *)
(***************************************************************************)
EXTENDS Naturals, FiniteSets

CONSTANTS
  Mails,        \* ids of notifications, in the order of creation
  Secret,       \* those with related_entity "student_invitation"
  Alerts,       \* those with related_entity "attendance_threshold_alert"
  Workers,      \* worker processes
  BatchSize,    \* notification_worker_batch_size
  MaxTries,     \* notification_max_delivery_attempts
  MaxCrashes    \* bound: how often workers die

ASSUME NotificationAssumption ==
  /\ Mails \subseteq Nat /\ Secret \subseteq Mails
  /\ Alerts \subseteq Mails \ Secret
  /\ BatchSize \in Nat \ {0} /\ MaxTries \in Nat \ {0} /\ MaxCrashes \in Nat

VARIABLES
  row,          \* the committed notification rows
  alert,        \* which of email_sent_at, email_failed_at its alert has
  pc,           \* where a worker is
  batch,        \* ids a worker has read and not handled yet
  job,          \* the row a worker has claimed: empty or one id
  copies,       \* copies the mail server took
  unrecorded,   \* copies whose acceptance no worker could record as sent
  crashes       \* how often workers have died

mailVars == <<row, alert, pc, batch, job, copies, unrecorded, crashes>>

\* wait: next_attempt_at lies ahead; wiped: the text is the note without link
Row == [status : {"none", "pending", "sent", "failed"}, tries : 0..MaxTries,
        wait : BOOLEAN, wiped : BOOLEAN]

\* "took": the mail server took the mail and said so; "raised": an exception
Stages == {"down", "idle", "batch", "claimed", "took", "raised"}

MailInit ==
  /\ row = [m \in Mails |-> [status |-> "none", tries |-> 0,
                             wait |-> FALSE, wiped |-> FALSE]]
  /\ alert = [m \in Mails |-> {}]
  /\ pc = [w \in Workers |-> "idle"]
  /\ batch = [w \in Workers |-> {}]
  /\ job = [w \in Workers |-> {}]
  /\ copies = [m \in Mails |-> 0]
  /\ unrecorded = [m \in Mails |-> 0]
  /\ crashes = 0

Waiting == {m \in Mails : row[m].status = "pending"}

\* mutant: failed rows are polled without looking at their tries
NextBatchWithFailed ==
  LET open == {m \in Mails : row[m].status \in {"pending", "failed"}} IN
  {m \in open : Cardinality({n \in open : n < m}) < BatchSize}

\* the oldest BatchSize pending rows
NextBatch == {m \in Waiting : Cardinality({n \in Waiting : n < m}) < BatchSize}

\* mutant: the row is read without FOR UPDATE
NeverLocked(m) == FALSE

\* handle locks the row until its commit
Locked(m) == \E w \in Workers : m \in job[w]

\* mutant: the tries are left to the polling query
AlwaysRetried(m) == /\ row[m].status \in {"pending", "failed"}
                    /\ row[m].status = "failed" => ~row[m].wait

\* mutant: the status is left to the polling query
AnyStatus(m) == row[m].tries < MaxTries /\ ~row[m].wait

\* the conditions of handle's query and of the tests after it
Deliverable(m) ==
  /\ row[m].status \in {"pending", "failed"}
  /\ row[m].tries < MaxTries
  /\ row[m].status = "failed" => ~row[m].wait

\* the next id of the batch, in its order
Oldest(w, m) == /\ pc[w] = "batch" /\ m \in batch[w]
                /\ \A n \in batch[w] : m <= n

\* the loop over the batch goes on or is done
Continue(w, rest) == pc' = [pc EXCEPT ![w] = IF rest = {} THEN "idle" ELSE "batch"]

-----------------------------------------------------------------------------
(* A request commits with the row queue_notification added. *)
Queue(m) ==
  /\ row[m].status = "none"
  /\ row' = [row EXCEPT ![m].status = "pending"]
  /\ UNCHANGED <<alert, pc, batch, job, copies, unrecorded, crashes>>

\* an empty batch leaves the worker polling
Poll(w) ==
  /\ pc[w] = "idle"
  /\ batch' = [batch EXCEPT ![w] = NextBatch]
  /\ Continue(w, NextBatch)
  /\ UNCHANGED <<row, alert, job, copies, unrecorded, crashes>>

\* handle returns False
Dismiss(w, m) ==
  /\ Oldest(w, m)
  /\ Locked(m) \/ ~Deliverable(m)
  /\ batch' = [batch EXCEPT ![w] = @ \ {m}]
  /\ Continue(w, batch[w] \ {m})
  /\ UNCHANGED <<row, alert, job, copies, unrecorded, crashes>>

Claim(w, m) ==
  /\ Oldest(w, m)
  /\ ~Locked(m) /\ Deliverable(m)
  /\ batch' = [batch EXCEPT ![w] = @ \ {m}]
  /\ job' = [job EXCEPT ![w] = {m}]
  /\ pc' = [pc EXCEPT ![w] = "claimed"]
  /\ UNCHANGED <<row, alert, copies, unrecorded, crashes>>

\* the mail server takes the mail and the call returns
Deliver(w, m) ==
  /\ pc[w] = "claimed" /\ m \in job[w]
  /\ copies' = [copies EXCEPT ![m] = @ + 1]
  /\ pc' = [pc EXCEPT ![w] = "took"]
  /\ UNCHANGED <<row, alert, batch, job, unrecorded, crashes>>

\* no address, no server, a refusal: an exception and no mail
Refused(w, m) ==
  /\ pc[w] = "claimed" /\ m \in job[w]
  /\ pc' = [pc EXCEPT ![w] = "raised"]
  /\ UNCHANGED <<row, alert, batch, job, copies, unrecorded, crashes>>

\* the mail server takes the mail, its answer is lost: an exception
AnswerLost(w, m) ==
  /\ pc[w] = "claimed" /\ m \in job[w]
  /\ copies' = [copies EXCEPT ![m] = @ + 1]
  /\ unrecorded' = [unrecorded EXCEPT ![m] = @ + 1]
  /\ pc' = [pc EXCEPT ![w] = "raised"]
  /\ UNCHANGED <<row, alert, batch, job, crashes>>

\* _record_threshold_delivery
Tell(m, outcome) ==
  alert' = IF m \in Alerts THEN [alert EXCEPT ![m] = @ \cup {outcome}] ELSE alert

RecordSent(w, m) ==
  /\ pc[w] = "took" /\ m \in job[w]
  /\ row' = [row EXCEPT ![m] = [status |-> "sent", tries |-> @.tries + 1,
                                wait |-> FALSE, wiped |-> m \in Secret]]
  /\ Tell(m, "sent")
  /\ job' = [job EXCEPT ![w] = {}]
  /\ Continue(w, batch[w])
  /\ UNCHANGED <<batch, copies, unrecorded, crashes>>

RecordFailed(w, m) ==
  /\ pc[w] = "raised" /\ m \in job[w]
  /\ row' = [row EXCEPT ![m] = [status |-> "failed", tries |-> @.tries + 1,
                                wait |-> @.tries + 1 < MaxTries, wiped |-> @.wiped]]
  /\ Tell(m, "failed")
  /\ job' = [job EXCEPT ![w] = {}]
  /\ Continue(w, batch[w])
  /\ UNCHANGED <<batch, copies, unrecorded, crashes>>

\* the process dies, its transaction is rolled back and its batch forgotten
Crash(w) ==
  /\ pc[w] # "down" /\ crashes < MaxCrashes
  /\ unrecorded' = [m \in Mails |->
       IF pc[w] = "took" /\ m \in job[w] THEN unrecorded[m] + 1 ELSE unrecorded[m]]
  /\ pc' = [pc EXCEPT ![w] = "down"]
  /\ batch' = [batch EXCEPT ![w] = {}]
  /\ job' = [job EXCEPT ![w] = {}]
  /\ crashes' = crashes + 1
  /\ UNCHANGED <<row, alert, copies>>

\* the service is configured with Restart=always
Restart(w) ==
  /\ pc[w] = "down"
  /\ pc' = [pc EXCEPT ![w] = "idle"]
  /\ UNCHANGED <<row, alert, batch, job, copies, unrecorded, crashes>>

\* next_attempt_at is reached
RetryDelayPasses(m) ==
  /\ row[m].wait
  /\ row' = [row EXCEPT ![m].wait = FALSE]
  /\ UNCHANGED <<alert, pc, batch, job, copies, unrecorded, crashes>>

-----------------------------------------------------------------------------
Talk(w, m) == Deliver(w, m) \/ Refused(w, m) \/ AnswerLost(w, m)

Record(w, m) == RecordSent(w, m) \/ RecordFailed(w, m)

\* what a running worker does next, and its supervisor when it is dead
Work(w) ==
  \/ Poll(w) \/ Restart(w)
  \/ \E m \in Mails : Dismiss(w, m) \/ Claim(w, m) \/ Talk(w, m) \/ Record(w, m)

MailNext ==
  \/ \E m \in Mails : Queue(m) \/ RetryDelayPasses(m)
  \/ \E w \in Workers : Work(w) \/ Crash(w)

MailSpec == MailInit /\ [][MailNext]_mailVars

\* a process runs on, the supervisor restarts it, time passes
Fairness == /\ \A w \in Workers : WF_mailVars(Work(w))
            /\ \A m \in Mails : WF_mailVars(RetryDelayPasses(m))

MailFairSpec == MailSpec /\ Fairness
-----------------------------------------------------------------------------
\* Types. That tries stays within MaxTries is the bound on retries
\* (notification_job.py:193), with several workers and stale batches.
MailTypeOK ==
  /\ row \in [Mails -> Row]
  /\ alert \in [Mails -> SUBSET {"sent", "failed"}]
  /\ pc \in [Workers -> Stages]
  /\ batch \in [Workers -> SUBSET Mails]
  /\ job \in [Workers -> SUBSET Mails]
  /\ copies \in [Mails -> Nat]
  /\ unrecorded \in [Mails -> Nat]
  /\ crashes \in 0..MaxCrashes

\* A recipient gets a mail again only if a worker died or lost the answer
\* after the mail server had taken it, never because two workers, or one
\* with an old batch, handle the same row (notification_job.py:184-191).
DeliveredOnce == \A m \in Mails : copies[m] <= unrecorded[m] + 1

\* The table keeps what MailOutbox promises: copies only of unsettled mails
\* and with the original text, sent only what went out, sent is final, and
\* the alert hears what the row says (notification_job.py:138-204).
Outbox == INSTANCE MailOutbox WITH
  box <- [m \in Mails |-> IF row[m].status = "pending" THEN "waiting" ELSE row[m].status],
  tries <- [m \in Mails |-> row[m].tries],
  wiped <- [m \in Mails |-> row[m].wiped],
  heard <- alert

ImplementsOutbox == Outbox!Spec

\* Every queued mail is tried, however often the workers die, as long as
\* they do not die forever (worker.py:14: "even after a process restart").
EveryMailTried ==
  [](\A m \in Mails :
       row[m].status = "pending" => <>(row[m].status \in {"sent", "failed"}))

\* A failed mail with tries left is retried until it is sent or the tries
\* are used up (worker.py:55: "bounded retries after the configured delay").
FailedIsRetried ==
  \A m \in Mails : row[m].status = "failed" ~>
                     row[m].status = "sent" \/ row[m].tries = MaxTries
=============================================================================
