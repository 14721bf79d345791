------------------------------- MODULE CheckIn -------------------------------
(***************************************************************************)
(* Attendance of ONE class session: the rotating QR/code challenge, the    *)
(* students' two-step check-in, the teacher's review and the finalization. *)
(*                                                                         *)
(* The handlers run in parallel threads, each in one READ COMMITTED        *)
(* transaction.  A handler that only reads, or that holds every row it     *)
(* read, is one action; any other is split where its reads and its commit  *)
(* can be separated by other handlers, and `req' holds what it read.       *)
(* Row locks are not variables: they follow from the handlers in flight.   *)
(***************************************************************************)
EXTENDS Integers, FiniteSets

CONSTANTS
  Students,        \* the students on the roster of the session
  OnLeave,         \* those with an approved leave request for its date
  Codes,           \* classroom codes that can be drawn
  Tokens,          \* verification tokens that can be issued (a bound)
  Requests,        \* handlers that can be in flight at once (a bound)
  MaxVersion,      \* rotations of the challenge (a bound)
  MaxAttempts,     \* rows of check_in_attempts (a bound)
  MaxCodeAttempts, \* settings.attendance_max_code_attempts
  ManualStatuses,  \* the statuses teachers enter by hand
  Workload,        \* the endpoints clients call
  None             \* SQL NULL

Statuses  == {"present", "late", "absent", "leave", "bunk"}
Endpoints == {"qr", "scan", "code", "confirm", "decide", "mark", "patch",
              "finalize", "past", "cancel", "start"}

ASSUME CheckInAssumption ==
  /\ OnLeave \subseteq Students
  /\ ManualStatuses \subseteq Statuses
  /\ Workload \subseteq Endpoints
  /\ MaxVersion \in Nat \ {0} /\ MaxAttempts \in Nat /\ MaxCodeAttempts \in Nat
  /\ None \notin Students /\ None \notin Codes

VARIABLES
  status,     \* ClassSession.status, "none" before the row exists
  cancelled,  \* an approved override cancels the occurrence
  window,     \* the self check-in window is still open
  past,       \* session_date is before today
  ver,        \* ClassSession.qr_version; the nonce changes with it
  challenge,  \* AttendanceChallenge rows by version (unique per session)
  token,      \* PendingAttendanceVerification rows
  attempt,    \* CheckInAttempt rows by id
  record,     \* AttendanceRecord rows by student (unique per session)
  conducted,  \* CoursePlan.conducted_sessions gained from this session
  misses,     \* "attendance.code_invalid" audit rows of the last 5 minutes
  req         \* what each handler in flight has read so far

sessionVars == <<status, cancelled, window, past>>
db   == <<sessionVars, ver, challenge, token, attempt, record, conducted,
          misses>>
vars == <<db, req>>

-----------------------------------------------------------------------------
(* Rows *)

Versions   == 1..MaxVersion
AttemptIds == 1..MaxAttempts

Challenges == [code: Codes \cup {None}, revoked: BOOLEAN, expired: BOOLEAN]
TokenRows  == [student: Students \cup {None}, ver: 0..MaxVersion,
               method: {"none", "qr", "code"}, consumed: BOOLEAN,
               invalidated: BOOLEAN, expired: BOOLEAN]
Attempts   == [student: Students \cup {None},
               kind: {"none", "verified", "exception"},
               status: {"none", "pending", "accepted", "confirmed", "rejected"}]
Records    == [status: Statuses \cup {"none"},
               method: {"none", "qr", "code", "manual", "finalization"}]

NoChallenge == [code |-> None, revoked |-> TRUE, expired |-> TRUE]
NoToken     == [student |-> None, ver |-> 0, method |-> "none",
                consumed |-> FALSE, invalidated |-> FALSE, expired |-> FALSE]
NoAttempt   == [student |-> None, kind |-> "none", status |-> "none"]
NoRecord    == [status |-> "none", method |-> "none"]

HasRecord(s)  == record[s].status # "none"
OpenTokens    == {t \in Tokens : /\ token[t].student # None
                                 /\ ~token[t].consumed
                                 /\ ~token[t].invalidated}
OwnTokens(s)  == {t \in OpenTokens : token[t].student = s}
Pending       == {a \in AttemptIds : attempt[a].status = "pending"}
PendingOf(s)  == {a \in Pending : attempt[a].student = s}

(* Handlers in flight: name, progress and the rows they read. *)
Idle == [op |-> "idle"]
QrReads     == [op: {"qr_read"}, force: BOOLEAN, ver: 0..(MaxVersion - 1),
                active: BOOLEAN]
QrHolds     == [op: {"qr_held"}, ver: Versions, code: Codes,
                seen: SUBSET Tokens]
Begins      == [op: {"scan_read", "code_held"}, student: Students,
                ver: Versions, seen: SUBSET Tokens]
Confirms    == [op: {"confirm_held"}, student: Students, token: Tokens,
                seen: SUBSET AttemptIds]
Decisions   == [op: {"decide_read", "decide_held"}, student: Students,
                seen: SUBSET AttemptIds, had: BOOLEAN]
MarkReads   == [op: {"mark_read"}, student: Students, had: BOOLEAN,
                seen: SUBSET AttemptIds]
MarkHolds   == [op: {"mark_held"}, student: Students,
                seen: SUBSET AttemptIds, status: ManualStatuses]
PastReads   == [op: {"past_read"}, student: Students, had: BOOLEAN,
                missing: SUBSET Students, seen: SUBSET AttemptIds]
FinalReads  == [op: {"final_read"}]
FinalHolds  == [op: {"final_collected"}, missing: SUBSET Students,
                conducted: Nat]
Handlers    == {Idle} \cup QrReads \cup QrHolds \cup Begins \cup Confirms
                 \cup Decisions \cup MarkReads \cup MarkHolds
                 \cup PastReads \cup FinalReads \cup FinalHolds

TypeOK ==
  /\ status \in {"none", "active", "completed"}
  /\ cancelled \in BOOLEAN /\ window \in BOOLEAN /\ past \in BOOLEAN
  /\ ver \in 0..MaxVersion
  /\ challenge \in [Versions -> Challenges]
  /\ token \in [Tokens -> TokenRows]
  /\ attempt \in [AttemptIds -> Attempts]
  /\ record \in [Students -> Records]
  /\ conducted \in Nat
  /\ misses \in [Students -> 0..MaxCodeAttempts]
  /\ req \in [Requests -> Handlers]

Init ==
  /\ status = "none"
  /\ cancelled = FALSE /\ window = TRUE /\ past = FALSE
  /\ ver = 0
  /\ challenge = [v \in Versions |-> NoChallenge]
  /\ token = [t \in Tokens |-> NoToken]
  /\ attempt = [a \in AttemptIds |-> NoAttempt]
  /\ record = [s \in Students |-> NoRecord]
  /\ conducted = 0
  /\ misses = [s \in Students |-> 0]
  /\ req = [r \in Requests |-> Idle]

-----------------------------------------------------------------------------
(* Row locks held by the handlers in flight *)

In(r, ops) == req[r].op \in ops

\* class_sessions FOR UPDATE
SessionLocked == \E r \in Requests : In(r, {"qr_held", "code_held"})

\* class_sessions FOR KEY SHARE, and the key of the uncommitted record
KeyHeld(s) == \E r \in Requests : /\ In(r, {"decide_held", "mark_held"})
                                  /\ req[r].student = s
SessionFree == ~SessionLocked /\ \A s \in Students : ~KeyHeld(s)

\* pending_attendance_verifications and check_in_attempts FOR UPDATE
\* (mutant: the token is read without FOR UPDATE)
TokenNotLocked(t) == FALSE
TokenLocked(t)   == \E r \in Requests : /\ In(r, {"confirm_held"})
                                        /\ req[r].token = t
AttemptLocked(a) == \E r \in Requests : /\ In(r, {"confirm_held"})
                                        /\ a \in req[r].seen

\* r waits for a row that q has locked
WaitsFor(r, q) ==
  \/ /\ In(r, {"qr_held", "code_held"}) /\ In(q, {"confirm_held"})
     /\ req[q].token \in req[r].seen
  \/ In(r, {"confirm_held"}) /\ In(q, {"qr_held", "code_held"})
  \/ /\ In(r, {"confirm_held"}) /\ In(q, {"decide_held", "mark_held"})
     /\ req[r].student = req[q].student
  \/ /\ In(r, {"decide_held", "mark_held"}) /\ In(q, {"confirm_held"})
     /\ req[r].seen \cap req[q].seen # {}

Begin(r, what) == In(r, {"idle"}) /\ req' = [req EXCEPT ![r] = what]
Go(r, what)    == req' = [req EXCEPT ![r] = what]
End(r)         == req' = [req EXCEPT ![r] = Idle]

-----------------------------------------------------------------------------
(* The session and its environment *)

\* ensure_accepting_check_ins
Accepting == status = "active" /\ ~cancelled /\ window

FreshChallenge(c) == [code |-> c, revoked |-> FALSE, expired |-> FALSE]

\* start_routine_session: the routine row is locked, so at most one session
StartSession ==
  /\ status = "none" /\ ~past /\ ~cancelled
  /\ status' = "active"
  /\ ver' = 1
  /\ \E c \in Codes : challenge' = [challenge EXCEPT ![1] = FreshChallenge(c)]
  /\ UNCHANGED <<cancelled, window, past, token, attempt, record, conducted,
                 misses, req>>

\* set_teacher_attendance today without a session: an active one is created,
\* and it has no challenge until the QR is first asked for
MarkNewSession(s, st) ==
  /\ status = "none" /\ ~past /\ ~cancelled
  /\ status' = "active"
  /\ record' = [record EXCEPT ![s] = [status |-> st, method |-> "manual"]]
  /\ UNCHANGED <<cancelled, window, past, ver, challenge, token, attempt,
                 conducted, misses, req>>

\* self_checkin_closes_at passes; tokens from a code expire with it
CloseWindow ==
  /\ window /\ status # "none"
  /\ window' = FALSE
  /\ token' = [t \in Tokens |-> IF token[t].method = "code"
                 THEN [token[t] EXCEPT !.expired = TRUE] ELSE token[t]]
  /\ UNCHANGED <<status, cancelled, past, ver, challenge, attempt, record,
                 conducted, misses, req>>

\* midnight
DayPasses ==
  /\ ~past
  /\ past' = TRUE
  /\ UNCHANGED <<status, cancelled, window, ver, challenge, token, attempt,
                 record, conducted, misses, req>>

\* an override that cancels the occurrence is approved, or rejected again
DecideCancellation ==
  /\ cancelled' = ~cancelled
  /\ UNCHANGED <<status, window, past, ver, challenge, token, attempt, record,
                 conducted, misses, req>>

\* qr_expires_at passes; tokens from a scan expire no later
ExpireChallenge ==
  /\ ver > 0 /\ ~challenge[ver].expired
  /\ challenge' = [challenge EXCEPT ![ver].expired = TRUE]
  /\ token' = [t \in Tokens |->
                 IF token[t].method = "qr" /\ token[t].ver = ver
                 THEN [token[t] EXCEPT !.expired = TRUE] ELSE token[t]]
  /\ UNCHANGED <<sessionVars, ver, attempt, record, conducted, misses, req>>

\* attendance_verification_timeout_seconds pass
ExpireToken(t) ==
  /\ t \in OpenTokens /\ ~token[t].expired
  /\ token' = [token EXCEPT ![t].expired = TRUE]
  /\ UNCHANGED <<sessionVars, ver, challenge, attempt, record, conducted,
                 misses, req>>

-----------------------------------------------------------------------------
(* teacher_qr_response: GET /qr, and POST /challenge when forced *)

\* db.get loads the session row; the lock taken next does not refresh it
QrRead(r, force) ==
  /\ status # "none" /\ ver < MaxVersion
  /\ Begin(r, [op |-> "qr_read", force |-> force, ver |-> ver,
               active |-> status = "active"])
  /\ UNCHANGED db

\* issue_qr_token on the row as it was read: rotate, or return the current QR
RotationDue(q) ==
  \/ q.force \/ q.ver = 0
  \/ q.ver > 0 /\ challenge[q.ver].expired

QrAccepting(q) == q.active /\ ~cancelled /\ window

\* nothing is written: refused, answered with the QR that was read, or the
\* version was taken by another rotation and the insert fails
QrReturn(r) ==
  LET q == req[r] IN
  /\ In(r, {"qr_read"}) /\ SessionFree
  /\ QrAccepting(q) /\ RotationDue(q) => q.ver < ver
  /\ End(r)
  /\ UNCHANGED db

\* The session row is locked and the new challenge flushed.
QrLock(r) ==
  LET q == req[r] IN
  /\ In(r, {"qr_read"}) /\ SessionFree
  /\ QrAccepting(q) /\ RotationDue(q) /\ q.ver = ver
  /\ \E c \in Codes :
       /\ ver > 0 /\ status = "active" => c # challenge[ver].code
       /\ Go(r, [op |-> "qr_held", ver |-> ver + 1, code |-> c,
                 seen |-> {t \in OpenTokens :
                             ~ /\ token[t].method = "code"
                               /\ challenge[token[t].ver].code = c}])
  /\ UNCHANGED db

Invalidate(ts) == [t \in Tokens |-> IF t \in ts
                     THEN [token[t] EXCEPT !.invalidated = TRUE] ELSE token[t]]

\* mutant: the challenges before are not revoked
Superseded(v) == challenge[v]

Revoked(v) == [challenge[v] EXCEPT !.revoked = TRUE]

QrCommit(r) ==
  LET q == req[r] IN
  /\ In(r, {"qr_held"})
  /\ \A t \in q.seen : ~TokenLocked(t)
  /\ ver' = q.ver
  /\ challenge' = [v \in Versions |->
                     IF v = q.ver THEN FreshChallenge(q.code)
                     ELSE Revoked(v)]
  /\ token' = Invalidate(q.seen)
  /\ End(r)
  /\ UNCHANGED <<sessionVars, attempt, record, conducted, misses>>

-----------------------------------------------------------------------------
(* begin_check_in, from a scanned QR and from a typed code *)

\* rows the handlers in flight may still insert, kept within the bounds
Beginning   == {r \in Requests : In(r, {"scan_read", "code_held"})}
Accepts     == {r \in Requests : In(r, {"confirm_held"}) /\ req[r].seen = {}}
TokenRoom   == Cardinality({t \in Tokens : token[t] = NoToken})
                 > Cardinality(Beginning)
AttemptRoom == Cardinality({a \in AttemptIds : attempt[a] = NoAttempt})
                 > Cardinality(Beginning \cup Accepts)

\* check_in: the QR on the screen is the current one and is not expired
ScanRead(r, s) ==
  /\ Accepting /\ ver > 0
  /\ ~challenge[ver].revoked /\ ~challenge[ver].expired
  /\ ~HasRecord(s) /\ TokenRoom /\ AttemptRoom
  /\ Begin(r, [op |-> "scan_read", student |-> s, ver |-> ver,
               seen |-> OwnTokens(s)])
  /\ UNCHANGED db

CodeMatches(c) ==
  status = "active" /\ ver > 0 /\ ~challenge[ver].revoked
    /\ challenge[ver].code = c

\* mutant: the last of the allowed guesses is not the last
MayGuessOften(s) == misses[s] <= MaxCodeAttempts

MayGuess(s) == misses[s] < MaxCodeAttempts

\* check_in_with_code: the student row is locked from the count of wrong
\* guesses on, the session row from the match on
CodeLock(r, s, c) ==
  /\ MayGuess(s) /\ SessionFree
  /\ CodeMatches(c) /\ Accepting
  /\ ~HasRecord(s) /\ TokenRoom /\ AttemptRoom
  /\ Begin(r, [op |-> "code_held", student |-> s, ver |-> ver,
               seen |-> OwnTokens(s)])
  /\ UNCHANGED db

WrongCode(s, c) ==
  /\ MayGuess(s) /\ ~CodeMatches(c)
  /\ misses' = [misses EXCEPT ![s] = @ + 1]
  /\ UNCHANGED <<sessionVars, ver, challenge, token, attempt, record,
                 conducted, req>>

\* five minutes pass since the wrong guesses
ForgetMisses(s) ==
  /\ misses[s] > 0
  /\ misses' = [misses EXCEPT ![s] = 0]
  /\ UNCHANGED <<sessionVars, ver, challenge, token, attempt, record,
                 conducted, req>>

\* ids are drawn in order
AddAttempt(s, kind, st) ==
  \E a \in AttemptIds :
    /\ attempt[a] = NoAttempt
    /\ \A b \in AttemptIds : attempt[b] = NoAttempt => a <= b
    /\ attempt' = [attempt EXCEPT ![a] =
                     [student |-> s, kind |-> kind, status |-> st]]

BeginReady(r) ==
  /\ \/ In(r, {"scan_read"}) /\ ~SessionLocked
     \/ In(r, {"code_held"})
  /\ End(r)
  /\ UNCHANGED <<sessionVars, ver, challenge, record, conducted, misses>>

\* the location is unknown, coarse or outside: left to the teacher; a repeat
\* within five seconds reuses the pending attempt
LocationFails(r) ==
  LET s == req[r].student IN
  /\ BeginReady(r)
  /\ \/ AddAttempt(s, "exception", "pending")
     \/ /\ \E a \in PendingOf(s) : attempt[a].kind = "exception"
        /\ UNCHANGED attempt
  /\ UNCHANGED token

\* the location passes: earlier tokens of the student that were read are
\* invalidated and a token is issued
LocationPasses(r) ==
  LET q == req[r]
      m == IF q.op = "code_held" THEN "code" ELSE "qr"
  IN
  /\ BeginReady(r)
  /\ \A t \in q.seen : ~TokenLocked(t)
  /\ \E t \in Tokens :
       /\ token[t] = NoToken
       /\ token' = [Invalidate(q.seen) EXCEPT ![t] =
            [student |-> q.student, ver |-> q.ver, method |-> m,
             consumed |-> FALSE, invalidated |-> FALSE,
             expired |-> IF m = "qr" THEN challenge[q.ver].expired
                                     ELSE ~window]]
  /\ AddAttempt(q.student, "verified", "pending")

-----------------------------------------------------------------------------
(* confirm_check_in *)

TokenValid(t) ==
  /\ ~token[t].invalidated /\ ~token[t].expired
  /\ IF token[t].method = "code"
     THEN /\ ~challenge[ver].revoked
          /\ challenge[ver].code = challenge[token[t].ver].code
     ELSE /\ token[t].ver = ver
          /\ ~challenge[ver].revoked /\ ~challenge[ver].expired

Confirmable(t) ==
  /\ token[t].student # None /\ ~token[t].consumed
  /\ ~TokenLocked(t)

\* the token row is locked: a stale one is invalidated, one whose student has
\* a record is spent
ConfirmRefused(t) ==
  /\ Confirmable(t)
  /\ \/ /\ ~TokenValid(t)
        /\ token' = [token EXCEPT ![t].invalidated = TRUE]
     \/ /\ TokenValid(t) /\ Accepting /\ HasRecord(token[t].student)
        /\ token' = [token EXCEPT ![t].consumed = TRUE]
  /\ UNCHANGED <<sessionVars, ver, challenge, attempt, record, conducted,
                 misses, req>>

\* the pending attempts of passed locations are locked with the token
ConfirmLock(r, t) ==
  LET s     == token[t].student
      tries == {a \in PendingOf(s) : attempt[a].kind = "verified"}
  IN
  /\ Confirmable(t) /\ TokenValid(t) /\ Accepting
  /\ ~HasRecord(s) /\ (tries = {} => AttemptRoom)
  /\ \A a \in tries : ~AttemptLocked(a)
  /\ Begin(r, [op |-> "confirm_held", student |-> s, token |-> t,
               seen |-> tries])
  /\ UNCHANGED db

\* the record is inserted, the token spent, the latest attempt accepted
ConfirmWrite(r) ==
  LET q == req[r]
      s == q.student
  IN
  /\ ~SessionLocked /\ ~KeyHeld(s)
  /\ record' = [record EXCEPT ![s] = [status |-> "present",
                                      method |-> token[q.token].method]]
  /\ token' = [token EXCEPT ![q.token].consumed = TRUE]
  /\ IF q.seen = {}
     THEN AddAttempt(s, "verified", "accepted")
     ELSE \E a \in q.seen :
            /\ \A b \in q.seen : b <= a
            /\ attempt' = [attempt EXCEPT ![a].status = "accepted"]
  /\ End(r)
  /\ UNCHANGED <<sessionVars, ver, challenge, conducted, misses>>

\* mutant: an upsert in place of the insert
ConfirmUpserts(r) == In(r, {"confirm_held"}) /\ ConfirmWrite(r)

ConfirmCommit(r) ==
  /\ In(r, {"confirm_held"}) /\ ~HasRecord(req[r].student)
  /\ ConfirmWrite(r)

\* mutant: the collision is retried
ConfirmRetries(r) ==
  /\ In(r, {"confirm_held"}) /\ HasRecord(req[r].student)
  /\ UNCHANGED vars

\* a record appeared in between: the unique constraint, rolled back
ConfirmCollides(r) ==
  /\ In(r, {"confirm_held"}) /\ HasRecord(req[r].student)
  /\ End(r)
  /\ UNCHANGED db

-----------------------------------------------------------------------------
(* The teacher's review: decide_exception *)

DecideRead(r, a) ==
  /\ attempt[a].status = "pending"
  /\ Begin(r, [op |-> "decide_read", student |-> attempt[a].student,
               seen |-> {a}, had |-> HasRecord(attempt[a].student)])
  /\ UNCHANGED db

\* an update by primary key: the attempts that were read, whatever they are
\* now, once no check-in holds them
Resolve(seen, verdict) ==
  /\ \A a \in seen : ~AttemptLocked(a)
  /\ attempt' = [a \in AttemptIds |-> IF a \in seen
                   THEN [attempt[a] EXCEPT !.status = verdict] ELSE attempt[a]]

\* mutant: confirmed without a record
DecideConfirms(r) ==
  /\ In(r, {"decide_read"})
  /\ Resolve(req[r].seen, "confirmed")
  /\ End(r)
  /\ UNCHANGED <<sessionVars, ver, challenge, token, record, conducted,
                 misses>>

\* rejected, or confirmed where the student was seen to have a record
DecideCommit(r) ==
  LET q == req[r] IN
  /\ In(r, {"decide_read"})
  /\ \/ Resolve(q.seen, "rejected")
     \/ q.had /\ Resolve(q.seen, "confirmed")
  /\ End(r)
  /\ UNCHANGED <<sessionVars, ver, challenge, token, record, conducted,
                 misses>>

\* A record seen missing is inserted and flushed before the attempts are
\* touched: the key is held until the commit, or violated already.
InsertHeld(r, what) ==
  LET s == req[r].student IN
  /\ ~HasRecord(s) /\ ~SessionLocked /\ ~KeyHeld(s)
  /\ Go(r, what)
  /\ UNCHANGED db

InsertCollides(r) ==
  /\ In(r, {"decide_read", "mark_read"})
  /\ ~req[r].had /\ HasRecord(req[r].student)
  /\ End(r)
  /\ UNCHANGED db

DecideInsert(r) ==
  /\ In(r, {"decide_read"}) /\ ~req[r].had
  /\ InsertHeld(r, [req[r] EXCEPT !.op = "decide_held"])

SetRecord(s, st) ==
  record' = [record EXCEPT ![s] = [status |-> st, method |-> "manual"]]

DecideInsertCommit(r) ==
  /\ In(r, {"decide_held"})
  /\ Resolve(req[r].seen, "confirmed")
  /\ SetRecord(req[r].student, "present")
  /\ End(r)
  /\ UNCHANGED <<sessionVars, ver, challenge, token, conducted, misses>>

-----------------------------------------------------------------------------
(* Manual marks: apply_manual_status, set_session_student_attendance and   *)
(* change_status                                                           *)

Verdict(st) == IF st \in {"present", "late"} THEN "confirmed" ELSE "rejected"

MarkRead(r, s) ==
  /\ status # "none"
  /\ Begin(r, [op |-> "mark_read", student |-> s, had |-> HasRecord(s),
               seen |-> PendingOf(s)])
  /\ UNCHANGED db

MarkCommit(r, st) ==
  LET q == req[r] IN
  /\ In(r, {"mark_read"}) /\ q.had
  /\ SetRecord(q.student, st)
  /\ Resolve(q.seen, Verdict(st))
  /\ End(r)
  /\ UNCHANGED <<sessionVars, ver, challenge, token, conducted, misses>>

\* the pending attempts are read after the flush
MarkInsert(r, st) ==
  /\ In(r, {"mark_read"}) /\ ~req[r].had
  /\ InsertHeld(r, [op |-> "mark_held", student |-> req[r].student,
                    seen |-> PendingOf(req[r].student), status |-> st])

MarkInsertCommit(r) ==
  LET q == req[r] IN
  /\ In(r, {"mark_held"})
  /\ SetRecord(q.student, q.status)
  /\ Resolve(q.seen, Verdict(q.status))
  /\ End(r)
  /\ UNCHANGED <<sessionVars, ver, challenge, token, conducted, misses>>

\* change_status updates the one record; attempts are left alone
ChangeStatus(s, st) ==
  /\ HasRecord(s)
  /\ SetRecord(s, st)
  /\ UNCHANGED <<sessionVars, ver, challenge, token, attempt, conducted,
                 misses, req>>

-----------------------------------------------------------------------------
(* finalize *)

\* mutant: a leave is taken for a record
MissingWithoutLeave == {s \in Students : ~HasRecord(s) /\ s \notin OnLeave}

Missing == {s \in Students : ~HasRecord(s)}

FinalStatus(s) == IF s \in OnLeave THEN "leave" ELSE "absent"

\* mutant: every record is overwritten
FilledOver(ss) ==
  [s \in Students |-> [status |-> FinalStatus(s), method |-> "finalization"]]

Filled(ss) == [s \in Students |-> IF s \in ss
                 THEN [status |-> FinalStatus(s), method |-> "finalization"]
                 ELSE record[s]]

\* inserting the records of ss waits for keys and the session row
CanInsert(ss) == ~SessionLocked /\ \A s \in ss : ~KeyHeld(s)

FinalizeRead(r) ==
  /\ status = "active"
  /\ Begin(r, [op |-> "final_read"])
  /\ UNCHANGED db

\* "Resolve pending check-in exceptions before finalizing"
FinalizeRefused(r) ==
  /\ In(r, {"final_read"}) /\ Pending # {}
  /\ End(r)
  /\ UNCHANGED db

FinalizeCollect(r) ==
  /\ In(r, {"final_read"}) /\ Pending = {}
  /\ Go(r, [op |-> "final_collected", missing |-> Missing,
            conducted |-> conducted])
  /\ UNCHANGED db

FinalizeCommit(r) ==
  LET q == req[r] IN
  /\ In(r, {"final_collected"}) /\ CanInsert(q.missing)
  /\ q.missing \subseteq Missing
  /\ record' = Filled(q.missing)
  /\ conducted' = q.conducted + 1
  /\ status' = "completed"
  /\ End(r)
  /\ UNCHANGED <<cancelled, window, past, ver, challenge, token, attempt,
                 misses>>

\* a student seen missing has got a record: the unique constraint, rolled back
FillCollides(r) ==
  /\ In(r, {"final_collected", "past_read"})
  /\ ~(req[r].missing \subseteq Missing)
  /\ End(r)
  /\ UNCHANGED db

-----------------------------------------------------------------------------
(* set_teacher_attendance on a past date: manual_session fills the missing *)
(* records and completes the session, apply_manual_status marks one student*)

PastRead(r, s) ==
  /\ past /\ ~cancelled
  /\ Begin(r, [op |-> "past_read", student |-> s, had |-> HasRecord(s),
               missing |-> Missing, seen |-> PendingOf(s)])
  /\ UNCHANGED db

PastCommit(r, st) ==
  LET q == req[r] IN
  /\ In(r, {"past_read"}) /\ q.had
  /\ status # "completed" \/ q.missing # {} => CanInsert(q.missing)
  /\ q.missing \subseteq Missing
  /\ record' = [Filled(q.missing) EXCEPT ![q.student] =
                  [status |-> st, method |-> "manual"]]
  /\ Resolve(q.seen, Verdict(st))
  /\ status' = "completed"
  /\ End(r)
  /\ UNCHANGED <<cancelled, window, past, ver, challenge, token, conducted,
                 misses>>

\* The session does not flush before it queries (autoflush=False): the fill
\* of the student being marked is not seen, a second record is added for him
\* and the flush violates the unique constraint.
PastFails(r) ==
  /\ In(r, {"past_read"}) /\ ~req[r].had
  /\ End(r)
  /\ UNCHANGED db

-----------------------------------------------------------------------------
(* PostgreSQL aborts one of two transactions that wait for each other *)

Deadlock(r, q) == WaitsFor(r, q) /\ WaitsFor(q, r)

AbortDeadlock(r) ==
  /\ \E q \in Requests : Deadlock(r, q)
  /\ End(r)
  /\ UNCHANGED db

Progress(r) ==
  \/ QrReturn(r) \/ QrLock(r) \/ QrCommit(r)
  \/ LocationFails(r) \/ LocationPasses(r)
  \/ ConfirmCommit(r) \/ ConfirmCollides(r)
  \/ DecideCommit(r) \/ DecideInsert(r) \/ DecideInsertCommit(r)
  \/ InsertCollides(r) \/ MarkInsertCommit(r)
  \/ \E st \in ManualStatuses : \/ MarkCommit(r, st) \/ MarkInsert(r, st)
                                \/ PastCommit(r, st)
  \/ FinalizeRefused(r) \/ FinalizeCollect(r) \/ FinalizeCommit(r)
  \/ FillCollides(r) \/ PastFails(r)
  \/ AbortDeadlock(r)

Arrival(r) ==
  \/ "qr" \in Workload /\ \E force \in BOOLEAN : QrRead(r, force)
  \/ "scan" \in Workload /\ \E s \in Students : ScanRead(r, s)
  \/ "code" \in Workload /\ \E s \in Students, c \in Codes : CodeLock(r, s, c)
  \/ "confirm" \in Workload /\ \E t \in Tokens : ConfirmLock(r, t)
  \/ "decide" \in Workload /\ \E a \in AttemptIds : DecideRead(r, a)
  \/ "mark" \in Workload /\ \E s \in Students : MarkRead(r, s)
  \/ "finalize" \in Workload /\ FinalizeRead(r)
  \/ "past" \in Workload /\ \E s \in Students : PastRead(r, s)

\* handlers of a single step
Call ==
  \/ "start" \in Workload /\ StartSession
  \/ "mark" \in Workload /\ \E s \in Students, st \in ManualStatuses :
       MarkNewSession(s, st)
  \/ "patch" \in Workload /\ \E s \in Students, st \in ManualStatuses :
       ChangeStatus(s, st)
  \/ "code" \in Workload /\ \E s \in Students, c \in Codes : WrongCode(s, c)
  \/ "confirm" \in Workload /\ \E t \in Tokens : ConfirmRefused(t)
  \/ "cancel" \in Workload /\ DecideCancellation

Time ==
  \/ CloseWindow \/ ExpireChallenge
  \/ \E t \in Tokens : ExpireToken(t)
  \/ "past" \in Workload /\ DayPasses
  \/ \E s \in Students : ForgetMisses(s)

Next == Call \/ Time \/ \E r \in Requests : Arrival(r) \/ Progress(r)

Spec == Init /\ [][Next]_vars

\* Every handler runs on, and a lock queue serves every waiter.
FairSpec == Spec /\ \A r \in Requests : SF_vars(Progress(r))

-----------------------------------------------------------------------------
(* Safety *)

\* Of the challenges of a session exactly the one of the current version is
\* not revoked, however GET /qr and POST /challenge interleave: a QR or a code
\* of an earlier rotation is dead (issue_qr_challenge).
OneLiveChallenge ==
  \A v \in Versions : v <= ver => (challenge[v].revoked <=> v # ver)

SelfCheckIn(s) == /\ record'[s] # record[s]
                  /\ record'[s].method \in {"qr", "code"}

\* The step that records a student's own check-in spends a token of his that
\* no rotation, later scan or check-in has withdrawn, of a challenge that is
\* live at that very step, although both were checked before
\* (confirm_check_in against teacher_qr_response and begin_check_in).
CheckInSpendsLiveToken ==
  [][\A s \in Students : SelfCheckIn(s) =>
       \E t \in Tokens :
         /\ token[t].student = s
         /\ ~token[t].consumed /\ token'[t].consumed
         /\ ~token[t].invalidated
         /\ ~challenge[token[t].ver].revoked]_vars

\* No student checks himself in once the session is completed, although
\* confirm_check_in looked at the status before finalize committed.
CheckInOnlyWhileActive ==
  [][\A s \in Students : SelfCheckIn(s) => status = "active"]_vars

\* A completed session has a record of every student of the roster, whatever
\* check-ins and reviews ran beside finalize and manual_session.
CompletedHasRoster ==
  status = "completed" => \A s \in Students : HasRecord(s)

\* An accepted or confirmed attempt is never without the record it stands
\* for: confirm_check_in and decide_exception commit both or neither.
AcceptedHasRecord ==
  \A a \in AttemptIds :
    attempt[a].status \in {"accepted", "confirmed"}
      => HasRecord(attempt[a].student)

\* The session is a register as AttendanceLedger describes it.
Ledger == INSTANCE AttendanceLedger WITH phase <- status, entry <- record
ImplementsLedger == Ledger!Spec

(* Liveness *)

\* Every handler ends: no two wait for each other's rows for ever, and none
\* waits for a row that nobody gives back.
EveryHandlerEnds == \A r \in Requests : []<>In(r, {"idle"})

-----------------------------------------------------------------------------
(* What the repository says and the code does not do *)

\* router.py: "Resolve pending check-in exceptions before finalizing"
CompletedHasNoPending == status = "completed" => Pending = {}

\* router.py: "Check-in exception has already been reviewed"
ReviewedOnce ==
  [][\A a \in AttemptIds :
       attempt[a].status \in {"accepted", "confirmed", "rejected"}
         => attempt'[a] = attempt[a]]_vars

\* test_teacher_manual_attendance.py: a teacher marks a student of a past
\* class who has no record yet, and the mark is there.
PastMarkIsRecorded ==
  [][\A r \in Requests :
       In(r, {"past_read"}) /\ req'[r] = Idle
         => record'[req[r].student] # NoRecord]_vars
=============================================================================
