------------------------------- MODULE FollowUp -------------------------------
(***************************************************************************)
(* What follows when classes of one module offering are completed or their *)
(* records changed (src/backend/app/modules/attendance/router.py:882-1264, *)
(* analytics/service.py, crm/): the count of the course plan, threshold    *)
(* alerts, their mails, and attendance cases.                              *)
(*                                                                         *)
(* A request commits the attendance and then evaluates every student of    *)
(* the class in a second transaction, which may fail without anybody       *)
(* noticing. Nothing is locked: what an evaluation has read may be old     *)
(* when it commits, and only two unique indexes stand in its way.          *)
(***************************************************************************)
EXTENDS Naturals, Sequences, FiniteSets

CONSTANTS
  Students, Classes,
  Requests,     \* bound: handlers in flight
  MinObs,       \* settings.minimum_observations
  Percent,      \* settings.attendance_threshold_percent
  MaxChanges    \* bound: records changed by hand

ASSUME FollowUpAssumption ==
  /\ MinObs \in Nat \ {0} /\ Percent \in 1..100 /\ MaxChanges \in Nat
  /\ IsFiniteSet(Classes)

VARIABLES
  done,       \* ClassSession.status = COMPLETED
  mark,       \* the AttendanceRecord of a class and a student
  conducted,  \* CoursePlan.conducted_sessions
  alert,      \* AttendanceThresholdAlerts of a student in the order of ids
  case,       \* his attendance StudentCases: in hand (open, in_progress) or
              \* not (resolved, closed)
  current,    \* _scope_is_current
  req,        \* requests in flight
  changes,    \* how many records have been changed by hand
  byHand,     \* history: classes completed by a mark made after their date
  overlapped, \* history: classes another completion reached in midst of theirs
  doubt       \* history: students whose last evaluation failed, was skipped,
              \* or committed on what was no longer so

completions == <<byHand, overlapped>>
records == <<done, mark, conducted, changes, completions>>
followups == <<alert, case, doubt>>
vars == <<records, followups, current, req>>

\* A request: the class it is about, what a completion has collected and will
\* set, whether its evaluation mails, the students not evaluated yet, and what
\* has been read of the others: first the rate, then the alert and the case.
Idle == [at |-> "idle", class |-> {}, plan |-> 0, missing |-> {}, set |-> [s \in {} |-> ""],
         mails |-> FALSE, left |-> {}, rate |-> [s \in {} |-> ""], seen |-> [s \in {} |-> {}]]

Recorded(s, v) == {c \in Classes : done[c] /\ mark[c][s] \in v}

\* _scope_stats and the comparisons of _evaluate_scope
Rate(s) ==
  LET present == Cardinality(Recorded(s, {"pass"}))
      total   == Cardinality(Recorded(s, {"pass", "miss"}))
  IN  IF total > 0 /\ 100 * present >= Percent * total THEN "good"
      ELSE IF total >= MinObs THEN "low" ELSE "few"

\* _active_threshold_alert
Active(s) == {a \in DOMAIN alert[s] : alert[s][a].active}

\* the case get_or_create_attendance_case and _resolve_attendance_case look for
OpenCase(s) == {k \in DOMAIN case[s] : case[s][k]}

Unmailed(s) == {a \in Active(s) : alert[s][a].mails = 0}

Roster(C) == {s \in Students : \E c \in C : mark[c][s] # "none"}

Set(r, q) == req' = [req EXCEPT ![r] = q]
-----------------------------------------------------------------------------
\* confirm_check_in
Attend(c, s) ==
  /\ ~done[c] /\ mark[c][s] = "none"
  /\ mark' = [mark EXCEPT ![c][s] = "pass"]
  /\ UNCHANGED <<done, conducted, changes, completions, followups, current, req>>

\* mutant: finalize does not look whether the session is finalized
AlwaysFinalize(c) == TRUE

MayFinalize(c) == ~done[c]

Finalizing == {q \in Requests : req[q].at \in {"finalize", "collected"}}
InFlight == UNION {req[q].class : q \in Finalizing}

\* finalize reads the status and returns early when the session is completed
FinalizeRead(r, c) ==
  /\ req[r] = Idle
  /\ MayFinalize(c)
  /\ overlapped' = overlapped \cup IF Finalizing = {} THEN {} ELSE InFlight \cup {c}
  /\ Set(r, [Idle EXCEPT !.at = "finalize", !.class = {c}])
  /\ UNCHANGED <<done, mark, conducted, changes, byHand, followups, current>>

\* it collects the students without a record and reads the course plan
FinalizeCollect(r) ==
  /\ req[r].at = "finalize"
  /\ Set(r, [req[r] EXCEPT !.at = "collected", !.plan = conducted,
                           !.missing = Students \ Roster(req[r].class)])
  /\ UNCHANGED <<records, followups, current>>

\* The insertions and updates of a completion. uq_attendance_session_student
\* refuses them all when a student has got a record since he was missed.
SaveClass(r) ==
  LET C == req[r].class  new == req[r].missing  set == req[r].set IN
  /\ new \cap Roster(C) = {}
  /\ mark' = [c \in Classes |-> [s \in Students |->
                IF c \notin C THEN mark[c][s]
                ELSE IF s \in new THEN "miss"
                ELSE IF s \in DOMAIN set THEN set[s] ELSE mark[c][s]]]
  /\ done' = [c \in Classes |-> done[c] \/ c \in C]
  /\ Set(r, [Idle EXCEPT !.at = "saved", !.class = C])
  /\ UNCHANGED <<changes, followups, current>>

FinalizeCommit(r) ==
  /\ req[r].at = "collected"
  /\ SaveClass(r)
  /\ conducted' = req[r].plan + 1
  /\ UNCHANGED completions

\* set_teacher_attendance after the date: manual_session misses the students
\* without a record and completes the class, which no plan counts. A student
\* without a record would get two; a class that is completed needs no more than
\* ChangeMark.
PastRead(r, c, s, v) ==
  /\ req[r] = Idle
  /\ changes < MaxChanges
  /\ ~done[c] /\ mark[c][s] # "none"
  /\ changes' = changes + 1
  /\ Set(r, [Idle EXCEPT !.at = "past", !.class = {c}, !.missing = Students \ Roster({c}),
                         !.set = [t \in {s} \ {u \in Students : mark[c][u] = v} |-> v]])
  /\ UNCHANGED <<done, mark, conducted, completions, followups, current>>

PastCommit(r) ==
  LET C == req[r].class IN
  /\ req[r].at = "past"
  /\ SaveClass(r)
  /\ byHand' = byHand \cup {c \in C : ~done[c]}
  /\ overlapped' = overlapped \cup (C \cap InFlight)
  /\ UNCHANGED conducted

\* set_session_student_attendance, change_status: the record by primary key
ChangeMark(r, c, s, v) ==
  /\ req[r] = Idle
  /\ changes < MaxChanges
  /\ mark[c][s] # v
  /\ mark' = [mark EXCEPT ![c][s] = v]
  /\ changes' = changes + 1
  /\ Set(r, [Idle EXCEPT !.at = "saved", !.class = {c}])
  /\ UNCHANGED <<done, conducted, completions, followups, current>>
-----------------------------------------------------------------------------
\* evaluate_saved_session: the students with a record, if the class is completed
EvaluationStarts(r) ==
  /\ req[r].at = "saved"
  /\ Set(r, IF \A c \in req[r].class : done[c]
            THEN [Idle EXCEPT !.at = "evaluate", !.mails = TRUE,
                              !.left = Roster(req[r].class)]
            ELSE Idle)
  /\ UNCHANGED <<records, followups, current>>

\* run_risk_evaluations, which the endpoint calls without sending mails
RunEvaluations(r) ==
  /\ req[r] = Idle
  /\ Set(r, [Idle EXCEPT !.at = "evaluate", !.left = Students])
  /\ UNCHANGED <<records, followups, current>>

Read(r) == DOMAIN req[r].rate
Seen(r) == DOMAIN req[r].seen

\* the next student, or past him when the offering is over
EvaluateSkip(r, s) ==
  /\ req[r].at = "evaluate" /\ s \in req[r].left /\ Read(r) = Seen(r)
  /\ ~current
  /\ doubt' = doubt \cup {s}
  /\ Set(r, [req[r] EXCEPT !.left = @ \ {s}])
  /\ UNCHANGED <<records, alert, case, current>>

EvaluateStats(r, s) ==
  /\ req[r].at = "evaluate" /\ s \in req[r].left /\ Read(r) = Seen(r)
  /\ current
  /\ Set(r, [req[r] EXCEPT !.left = @ \ {s},
       !.rate = [t \in Read(r) \cup {s} |-> IF t = s THEN Rate(s) ELSE @[t]]])
  /\ UNCHANGED <<records, followups, current>>

EvaluateView(r) ==
  /\ req[r].at = "evaluate" /\ Read(r) # Seen(r)
  /\ Set(r, [req[r] EXCEPT !.seen = [t \in Read(r) |->
       IF t \in Seen(r) THEN @[t]
       ELSE [alert |-> Active(t), unmailed |-> Unmailed(t), case |-> OpenCase(t)]]])
  /\ UNCHANGED <<records, followups, current>>

\* mutant: an alert that has its mail gets another one
MailsEach(r, s) == req[r].mails

Mails(r, s) == req[r].mails /\ req[r].seen[s].unmailed = req[r].seen[s].alert

\* mutant: a resolved alert keeps another one from being opened
OpensOnce(r, s) ==
  req[r].rate[s] = "low" /\ req[r].seen[s].alert = {} /\ alert[s] = <<>>

Opens(r, s) == req[r].rate[s] = "low" /\ req[r].seen[s].alert = {}
Resolves(r, s) == req[r].rate[s] = "good" /\ req[r].seen[s].alert # {}

\* the alerts of a student as the evaluation leaves them
Alerts(r, s) ==
  LET sent == IF Mails(r, s) THEN 1 ELSE 0
      kept == [a \in DOMAIN alert[s] |->
                 IF a \notin req[r].seen[s].alert THEN alert[s][a]
                 ELSE CASE req[r].rate[s] = "low"  ->
                             [alert[s][a] EXCEPT !.mails = @ + sent]
                        [] req[r].rate[s] = "good" ->
                             [alert[s][a] EXCEPT !.active = FALSE]
                        [] OTHER -> alert[s][a]]
  IN  IF Opens(r, s)
      THEN Append(kept, [active |-> TRUE, mails |-> sent, quiet |-> sent = 0])
      ELSE kept

\* his cases: a new one with a new alert unless he has one in hand
Cases(r, s) ==
  LET seen == req[r].seen[s].case IN
  IF Opens(r, s) /\ seen = {} THEN Append(case[s], TRUE)
  ELSE IF Resolves(r, s)
       THEN [k \in DOMAIN case[s] |-> case[s][k] /\ k \notin seen]
       ELSE case[s]

\* mutants: no unique index on active alerts, or none on cases in hand
OnlyCases(r, s) == Opens(r, s) /\ req[r].seen[s].case = {} /\ OpenCase(s) # {}
OnlyAlerts(r, s) == Opens(r, s) /\ Active(s) # {}

\* uq_active_attendance_alert_module, uq_active_case
Refused(r, s) ==
  /\ Opens(r, s)
  /\ \/ Active(s) # {}
     \/ req[r].seen[s].case = {} /\ OpenCase(s) # {}

\* what was read of the student is still so
UpToDate(r, s) == req[r].rate[s] = Rate(s) /\ req[r].seen[s].alert = Active(s)

EvaluateCommit(r) ==
  /\ req[r].at = "evaluate" /\ req[r].left = {} /\ Read(r) = Seen(r)
  /\ \A s \in Seen(r) : ~Refused(r, s)
  /\ alert' = [s \in Students |-> IF s \in Seen(r) THEN Alerts(r, s) ELSE alert[s]]
  /\ case' = [s \in Students |-> IF s \in Seen(r) THEN Cases(r, s) ELSE case[s]]
  /\ doubt' = (doubt \ Seen(r)) \cup {s \in Seen(r) : ~UpToDate(r, s)}
  /\ Set(r, Idle)
  /\ UNCHANGED <<records, current>>

\* Students whose evaluation is lost when the request fails.
Due(r) ==
  CASE req[r].at = "saved" -> Roster({c \in req[r].class : done[c]})
    [] req[r].mails        -> req[r].left \cup Read(r)
    [] OTHER               -> {}

\* A unique index refuses, the database picks the request to end a deadlock, or
\* the process dies: the transaction is rolled back. safely_evaluate_saved_session
\* hides it; the class stays as it was saved.
Fails(r) ==
  /\ req[r] # Idle
  /\ doubt' = doubt \cup Due(r)
  /\ Set(r, Idle)
  /\ UNCHANGED <<records, alert, case, current>>
-----------------------------------------------------------------------------
\* change_status of a case, which uq_active_case refuses for a second one in hand
SetCase(s, k, v) ==
  /\ case[s][k] # v
  /\ v => OpenCase(s) = {}
  /\ case' = [case EXCEPT ![s][k] = v]
  /\ UNCHANGED <<records, alert, doubt, current, req>>

\* the offering is switched off or its semester ends
ScopeEnds ==
  /\ current
  /\ current' = FALSE
  /\ UNCHANGED <<records, followups, req>>
-----------------------------------------------------------------------------
Init ==
  /\ done = [c \in Classes |-> FALSE]
  /\ mark = [c \in Classes |-> [s \in Students |-> "none"]]
  /\ conducted = 0
  /\ alert = [s \in Students |-> <<>>]
  /\ case = [s \in Students |-> <<>>]
  /\ current = TRUE
  /\ req = [r \in Requests |-> Idle]
  /\ changes = 0
  /\ byHand = {} /\ overlapped = {}
  /\ doubt = {}

Attendance(r) ==
  \/ \E c \in Classes : FinalizeRead(r, c)
  \/ FinalizeCollect(r) \/ FinalizeCommit(r)
  \/ \E c \in Classes, s \in Students, v \in {"pass", "miss"} :
       ChangeMark(r, c, s, v) \/ PastRead(r, c, s, v)
  \/ PastCommit(r)

Evaluation(r) ==
  \/ EvaluationStarts(r) \/ RunEvaluations(r)
  \/ \E s \in Students : EvaluateSkip(r, s) \/ EvaluateStats(r, s)
  \/ EvaluateView(r) \/ EvaluateCommit(r)
  \/ Fails(r)

Next ==
  \/ \E r \in Requests : Attendance(r) \/ Evaluation(r)
  \/ \E c \in Classes, s \in Students : Attend(c, s)
  \/ \E s \in Students, v \in BOOLEAN : \E k \in DOMAIN case[s] : SetCase(s, k, v)
  \/ ScopeEnds

Spec == Init /\ [][Next]_vars
-----------------------------------------------------------------------------
\* Types. An evaluation never sees more than one alert or case to write to.
TypeOK ==
  /\ done \in [Classes -> BOOLEAN]
  /\ mark \in [Classes -> [Students -> {"none", "pass", "miss"}]]
  /\ alert \in [Students -> Seq([active : BOOLEAN, mails : Nat, quiet : BOOLEAN])]
  /\ case \in [Students -> Seq(BOOLEAN)]
  /\ \A c \in Classes : done[c] => Roster({c}) = Students
  /\ \A r \in Requests : \A s \in Seen(r) :
       Cardinality(req[r].seen[s].alert) <= 1 /\ Cardinality(req[r].seen[s].case) <= 1

Done == {c \in Classes : done[c]}

\* The count of the course plan misses a completed class for two reasons only: it
\* was completed for a mark after its date (router.py:906), or another class was
\* completed between the read and the write of its finalization (router.py:1178).
\* Without the second reason it is exactly the number of the others, so none is
\* counted twice.
CountedOnce ==
  LET plain == Done \ (byHand \cup overlapped) IN
  /\ Cardinality(plain) <= conducted
  /\ overlapped = {} => conducted = Cardinality(plain)

\* The claim that a teacher's finalization updates the progress of the course
\* plan (README.md:48): no finalized class is missing from the count
\* (attendance/router.py:1178).
EveryFinalizationCounted == Cardinality(Done \ byHand) <= conducted

\* Whatever evaluations and staff do at once, a student has at most one active
\* alert and one case in hand (crm/models.py:15, 36-52).
OneActive ==
  \A s \in Students : Cardinality(Active(s)) <= 1 /\ Cardinality(OpenCase(s)) <= 1

\* When no evaluation is due, the alert of a student tells whether his rate is
\* below the threshold, unless his last evaluation failed or went wrong by
\* committing on an old view.
AlertTracksRate ==
  (\A r \in Requests : req[r].at \notin {"saved", "evaluate"})
    => \A s \in Students \ doubt : (Active(s) # {}) = (Rate(s) = "low")

\* An alert that is opened with its mail is never mailed again, whoever evaluates
\* the student at the same time (analytics/service.py:362-366).
MailedAtOpening ==
  \A s \in Students : \A a \in DOMAIN alert[s] :
    ~alert[s][a].quiet => alert[s][a].mails = 1

\* The claim that no evaluation queues a duplicate (README.md:245,
\* tests/test_attendance_threshold_alerts.py:191).
OneMailPerAlert ==
  \A s \in Students : \A a \in DOMAIN alert[s] : alert[s][a].mails <= 1

\* The claim that an alert opened without a mail becomes deliverable only when an
\* administrator asks for mails (analytics/service.py:363-364), which nobody does
\* here.
QuietStaysQuiet ==
  \A s \in Students : \A a \in DOMAIN alert[s] :
    alert[s][a].quiet => alert[s][a].mails = 0

\* One of these three claims holds, also when classes of one student are
\* finalized and evaluated at the same time.
CountedOrMailedAsClaimed ==
  EveryFinalizationCounted \/ OneMailPerAlert \/ QuietStaysQuiet
=============================================================================
