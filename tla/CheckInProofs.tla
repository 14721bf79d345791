---------------------------- MODULE CheckInProofs ----------------------------
(* Theorems about CheckIn, for every roster, workload and number of         *)
(* handlers.                                                                *)
EXTENDS CheckIn, TLAPS

-----------------------------------------------------------------------------
(* Types.  TypeOK is not inductive alone: decide_exception takes the student *)
(* from the attempt it reads, so a row in use must name one, and a handler   *)
(* writes to the rows it has seen.                                           *)

\* an attempt that is in use belongs to a student
AttemptsOwned ==
  \A a \in AttemptIds : attempt[a].status # "none"
                          => attempt[a].student \in Students

Resolving == {"confirm_held", "decide_read", "decide_held", "mark_read",
              "mark_held", "past_read"}

\* the attempts a handler has seen are in use, and its student's
SeenOwned ==
  \A r \in Requests : In(r, Resolving) =>
    \A a \in req[r].seen : /\ attempt[a].status # "none"
                           /\ attempt[a].student = req[r].student

TypeInv == TypeOK /\ AttemptsOwned /\ SeenOwned

LEMMA Bounds ==
  /\ MaxVersion \in Nat /\ MaxVersion # 0
  /\ MaxAttempts \in Nat /\ MaxCodeAttempts \in Nat
  /\ ManualStatuses \subseteq Statuses /\ OnLeave \subseteq Students
  /\ None \notin Students /\ None \notin Codes
BY CheckInAssumption DEF CheckInAssumption

LEMMA InitTypeInv == Init => TypeInv
<1>. SUFFICES ASSUME Init PROVE TypeInv
  OBVIOUS
<1>. USE Bounds DEF Init, Versions, AttemptIds
<1>1. NoChallenge \in Challenges /\ NoToken \in TokenRows
  BY DEF NoChallenge, NoToken, Challenges, TokenRows
<1>2. NoAttempt \in Attempts /\ NoRecord \in Records
  BY DEF NoAttempt, NoRecord, Attempts, Records
<1>3. req \in [Requests -> Handlers]
  BY DEF Handlers
<1>4. misses \in [Students -> 0..MaxCodeAttempts] /\ ver \in 0..MaxVersion
  OBVIOUS
<1>5. /\ challenge \in [Versions -> Challenges]
      /\ token \in [Tokens -> TokenRows]
      /\ attempt \in [AttemptIds -> Attempts]
      /\ record \in [Students -> Records]
  BY <1>1, <1>2
<1>6. TypeOK
  BY <1>3, <1>4, <1>5 DEF TypeOK
<1>7. AttemptsOwned
  BY DEF AttemptsOwned, NoAttempt
<1>8. SeenOwned
  BY DEF SeenOwned, In, Idle, Resolving
<1>. QED
  BY <1>6, <1>7, <1>8 DEF TypeInv

\* A step of a handler that writes nothing: what it has read is a row of
\* Handlers, and the attempts it has seen are its student's.
LEMMA ReadStep ==
  ASSUME TypeInv, UNCHANGED db,
         NEW r \in Requests, NEW what \in Handlers, Go(r, what),
         what.op \in Resolving =>
           \A a \in what.seen : /\ attempt[a].status # "none"
                                /\ attempt[a].student = what.student
  PROVE  TypeInv'
<1>. USE DEF Go, db, sessionVars
<1>1. req' \in [Requests -> Handlers]
  BY DEF TypeInv, TypeOK
<1>2. TypeOK'
  BY <1>1 DEF TypeInv, TypeOK
<1>3. AttemptsOwned'
  BY DEF TypeInv, AttemptsOwned
<1>4. SeenOwned'
  BY DEF TypeInv, TypeOK, SeenOwned, In
<1>. QED
  BY <1>2, <1>3, <1>4 DEF TypeInv

LEMMA QuietEnd ==
  ASSUME TypeInv, UNCHANGED db, NEW r \in Requests, End(r)
  PROVE  TypeInv'
<1>1. Idle \in Handlers /\ Idle.op \notin Resolving /\ Go(r, Idle)
  BY DEF Handlers, Idle, Resolving, End, Go
<1>. QED
  BY <1>1, ReadStep

\* attempts are never deleted, nor given to another student
AttemptsKept ==
  \A a \in AttemptIds : attempt[a].status # "none" =>
    /\ attempt'[a].status # "none"
    /\ attempt'[a].student = attempt[a].student

LEMMA SeenSubset ==
  ASSUME TypeOK, NEW r \in Requests, In(r, Resolving)
  PROVE  req[r].seen \subseteq AttemptIds
<1>1. req[r] \in Handlers
  BY DEF TypeOK
<1>. QED
  BY <1>1 DEF In, Resolving, Handlers, Idle, QrReads, QrHolds, Begins,
     Confirms, Decisions, MarkReads, MarkHolds, PastReads, FinalReads,
     FinalHolds

LEMMA SeenStep ==
  ASSUME TypeInv, AttemptsKept,
         \/ UNCHANGED req
         \/ \E r \in Requests : End(r)
  PROVE  SeenOwned'
<1>1. ASSUME NEW q \in Requests, In(q, Resolving)', NEW a \in req'[q].seen
      PROVE  attempt'[a].status # "none" /\ attempt'[a].student = req'[q].student
  <2>1. req'[q] = req[q] /\ In(q, Resolving)
    BY <1>1 DEF End, Idle, In, Resolving, TypeInv, TypeOK
  <2>2. a \in AttemptIds
    BY <1>1, <2>1, SeenSubset DEF TypeInv
  <2>. QED
    BY <1>1, <2>1, <2>2 DEF TypeInv, SeenOwned, AttemptsKept
<1>. QED
  BY <1>1 DEF SeenOwned

LEMMA ResolveStep ==
  ASSUME TypeInv, NEW r \in Requests, In(r, Resolving),
         NEW verdict \in {"accepted", "confirmed", "rejected"},
         Resolve(req[r].seen, verdict)
  PROVE  /\ attempt' \in [AttemptIds -> Attempts]
         /\ AttemptsOwned' /\ AttemptsKept
<1>1. \A a \in AttemptIds : attempt[a] \in Attempts
  BY DEF TypeInv, TypeOK
<1>2. \A a \in AttemptIds :
        attempt'[a] = IF a \in req[r].seen
                      THEN [attempt[a] EXCEPT !.status = verdict]
                      ELSE attempt[a]
  BY DEF Resolve
<1>3. \A a \in AttemptIds : attempt'[a] \in Attempts
  BY <1>1, <1>2, ZenonT(30) DEF Attempts
<1>4. attempt' \in [AttemptIds -> Attempts]
  BY <1>3 DEF Resolve
<1>5. AttemptsKept
  BY <1>1, <1>2 DEF AttemptsKept, Attempts
<1>6. AttemptsOwned'
  BY <1>1, <1>2 DEF AttemptsOwned, TypeInv, SeenOwned, Attempts
<1>. QED
  BY <1>4, <1>5, <1>6

LEMMA AddStep ==
  ASSUME TypeInv, NEW s \in Students, NEW kind \in {"verified", "exception"},
         NEW st \in {"pending", "accepted"}, AddAttempt(s, kind, st)
  PROVE  /\ attempt' \in [AttemptIds -> Attempts]
         /\ AttemptsOwned' /\ AttemptsKept
<1>1. PICK a \in AttemptIds :
        /\ attempt[a] = NoAttempt
        /\ attempt' = [attempt EXCEPT ![a] =
                         [student |-> s, kind |-> kind, status |-> st]]
  BY DEF AddAttempt
<1>2. [student |-> s, kind |-> kind, status |-> st] \in Attempts
  BY DEF Attempts
<1>3. attempt' \in [AttemptIds -> Attempts]
  BY <1>1, <1>2 DEF TypeInv, TypeOK
<1>4. AttemptsKept
  BY <1>1 DEF AttemptsKept, NoAttempt, TypeInv, TypeOK
<1>5. AttemptsOwned'
  BY <1>1 DEF AttemptsOwned, TypeInv, TypeOK
<1>. QED
  BY <1>3, <1>4, <1>5

\* Steps that leave the handlers and the attempts alone.
LEMMA DbStep ==
  ASSUME TypeInv, TypeOK', UNCHANGED <<attempt, req>>
  PROVE  TypeInv'
BY DEF TypeInv, AttemptsOwned, SeenOwned, In

LEMMA EndStep ==
  ASSUME TypeInv, NEW r \in Requests, End(r),
         UNCHANGED <<cancelled, window, past>>,
         status' \in {"none", "active", "completed"},
         ver' \in 0..MaxVersion, challenge' \in [Versions -> Challenges],
         token' \in [Tokens -> TokenRows],
         attempt' \in [AttemptIds -> Attempts], AttemptsOwned', AttemptsKept,
         record' \in [Students -> Records], conducted' \in Nat,
         UNCHANGED misses
  PROVE  TypeInv'
<1>1. req' \in [Requests -> Handlers]
  BY DEF End, TypeInv, TypeOK, Handlers
<1>2. TypeOK'
  BY <1>1 DEF TypeInv, TypeOK
<1>3. SeenOwned'
  BY SeenStep
<1>. QED
  BY <1>2, <1>3 DEF TypeInv

LEMMA TokenFlags ==
  ASSUME NEW row \in TokenRows
  PROVE  /\ [row EXCEPT !.invalidated = TRUE] \in TokenRows
         /\ [row EXCEPT !.consumed = TRUE] \in TokenRows
         /\ [row EXCEPT !.expired = TRUE] \in TokenRows
BY DEF TokenRows

LEMMA CallTypeInv == TypeInv /\ Call => TypeInv'
<1>. SUFFICES ASSUME TypeInv, Call PROVE TypeInv'
  OBVIOUS
<1>. USE Bounds DEF TypeInv
<1>1. CASE StartSession
  <2>1. \A c \in Codes : FreshChallenge(c) \in Challenges
    BY DEF FreshChallenge, Challenges
  <2>2. challenge' \in [Versions -> Challenges]
    BY <1>1, <2>1 DEF StartSession, TypeOK
  <2>3. TypeOK'
    BY <1>1, <2>2, 1 \in 0..MaxVersion DEF StartSession, TypeOK
  <2>. QED
    BY <1>1, <2>3, DbStep DEF StartSession
<1>2. ASSUME NEW s \in Students, NEW st \in ManualStatuses,
             MarkNewSession(s, st)
      PROVE  TypeInv'
  <2>1. [status |-> st, method |-> "manual"] \in Records
    BY DEF Records
  <2>2. TypeOK'
    BY <1>2, <2>1 DEF MarkNewSession, TypeOK
  <2>. QED
    BY <1>2, <2>2, DbStep DEF MarkNewSession
<1>3. ASSUME NEW s \in Students, NEW st \in ManualStatuses,
             ChangeStatus(s, st)
      PROVE  TypeInv'
  <2>1. [status |-> st, method |-> "manual"] \in Records
    BY DEF Records
  <2>2. TypeOK'
    BY <1>3, <2>1 DEF ChangeStatus, SetRecord, sessionVars, TypeOK
  <2>. QED
    BY <1>3, <2>2, DbStep DEF ChangeStatus
<1>4. ASSUME NEW s \in Students, NEW c \in Codes, WrongCode(s, c)
      PROVE  TypeInv'
  <2>1. misses' \in [Students -> 0..MaxCodeAttempts]
    BY <1>4 DEF WrongCode, MayGuess, TypeOK
  <2>2. TypeOK'
    BY <1>4, <2>1 DEF WrongCode, sessionVars, TypeOK
  <2>. QED
    BY <1>4, <2>2, DbStep DEF WrongCode
<1>5. ASSUME NEW t \in Tokens, ConfirmRefused(t)
      PROVE  TypeInv'
  <2>. token \in [Tokens -> TokenRows]
    BY DEF TypeOK
  <2>1. \/ token' = [token EXCEPT ![t].invalidated = TRUE]
        \/ token' = [token EXCEPT ![t].consumed = TRUE]
    BY <1>5 DEF ConfirmRefused
  <2>2. token' \in [Tokens -> TokenRows]
    BY <2>1, TokenFlags, ZenonT(30)
  <2>3. TypeOK'
    BY <1>5, <2>2 DEF ConfirmRefused, sessionVars, TypeOK
  <2>. QED
    BY <1>5, <2>3, DbStep DEF ConfirmRefused
<1>6. CASE DecideCancellation
  <2>1. TypeOK'
    BY <1>6 DEF DecideCancellation, TypeOK
  <2>. QED
    BY <1>6, <2>1, DbStep DEF DecideCancellation
<1>. QED
  BY <1>1, <1>2, <1>3, <1>4, <1>5, <1>6 DEF Call

LEMMA TimeTypeInv == TypeInv /\ Time => TypeInv'
<1>. SUFFICES ASSUME TypeInv, Time PROVE TypeInv'
  OBVIOUS
<1>. USE Bounds DEF TypeInv
<1>1. CASE CloseWindow
  <2>1. token' \in [Tokens -> TokenRows]
    BY <1>1, TokenFlags DEF CloseWindow, TypeOK
  <2>2. TypeOK'
    BY <1>1, <2>1 DEF CloseWindow, TypeOK
  <2>. QED
    BY <1>1, <2>2, DbStep DEF CloseWindow
<1>2. CASE ExpireChallenge
  <2>1. challenge' \in [Versions -> Challenges]
    BY <1>2 DEF ExpireChallenge, TypeOK, Challenges
  <2>2. token' \in [Tokens -> TokenRows]
    BY <1>2, TokenFlags DEF ExpireChallenge, TypeOK
  <2>3. TypeOK'
    BY <1>2, <2>1, <2>2 DEF ExpireChallenge, sessionVars, TypeOK
  <2>. QED
    BY <1>2, <2>3, DbStep DEF ExpireChallenge
<1>3. ASSUME NEW t \in Tokens, ExpireToken(t) PROVE TypeInv'
  <2>1. token' \in [Tokens -> TokenRows]
    BY <1>3, TokenFlags DEF ExpireToken, TypeOK
  <2>2. TypeOK'
    BY <1>3, <2>1 DEF ExpireToken, sessionVars, TypeOK
  <2>. QED
    BY <1>3, <2>2, DbStep DEF ExpireToken
<1>4. CASE DayPasses
  <2>1. TypeOK'
    BY <1>4 DEF DayPasses, TypeOK
  <2>. QED
    BY <1>4, <2>1, DbStep DEF DayPasses
<1>5. ASSUME NEW s \in Students, ForgetMisses(s) PROVE TypeInv'
  <2>1. misses' \in [Students -> 0..MaxCodeAttempts]
    BY <1>5 DEF ForgetMisses, TypeOK
  <2>2. TypeOK'
    BY <1>5, <2>1 DEF ForgetMisses, sessionVars, TypeOK
  <2>. QED
    BY <1>5, <2>2, DbStep DEF ForgetMisses
<1>. QED
  BY <1>1, <1>2, <1>3, <1>4, <1>5 DEF Time

LEMMA ArrivalTypeInv ==
  ASSUME TypeInv, NEW r \in Requests, Arrival(r) PROVE TypeInv'
<1>. USE Bounds DEF TypeInv, Begin, Go
<1>1. ASSUME NEW force \in BOOLEAN, QrRead(r, force) PROVE TypeInv'
  <2>. DEFINE what == [op |-> "qr_read", force |-> force, ver |-> ver,
                       active |-> status = "active"]
  <2>1. what \in Handlers /\ what.op \notin Resolving
    BY <1>1 DEF QrRead, TypeOK, Handlers, QrReads, Resolving
  <2>. QED
    BY <1>1, <2>1, ReadStep DEF QrRead
<1>2. ASSUME NEW s \in Students, ScanRead(r, s) PROVE TypeInv'
  <2>. DEFINE what == [op |-> "scan_read", student |-> s, ver |-> ver,
                       seen |-> OwnTokens(s)]
  <2>1. what \in Handlers /\ what.op \notin Resolving
    BY <1>2 DEF ScanRead, TypeOK, Handlers, Begins, Resolving, OwnTokens,
                OpenTokens, Versions
  <2>. QED
    BY <1>2, <2>1, ReadStep DEF ScanRead
<1>3. ASSUME NEW s \in Students, NEW c \in Codes, CodeLock(r, s, c)
      PROVE  TypeInv'
  <2>. DEFINE what == [op |-> "code_held", student |-> s, ver |-> ver,
                       seen |-> OwnTokens(s)]
  <2>1. what \in Handlers /\ what.op \notin Resolving
    BY <1>3 DEF CodeLock, CodeMatches, TypeOK, Handlers, Begins, Resolving,
                OwnTokens, OpenTokens, Versions
  <2>. QED
    BY <1>3, <2>1, ReadStep DEF CodeLock
<1>4. ASSUME NEW t \in Tokens, ConfirmLock(r, t) PROVE TypeInv'
  <2>. DEFINE s == token[t].student
              tries == {a \in PendingOf(s) : attempt[a].kind = "verified"}
              what == [op |-> "confirm_held", student |-> s, token |-> t,
                       seen |-> tries]
  <2>1. s \in Students
    BY <1>4 DEF ConfirmLock, Confirmable, TypeOK, TokenRows
  <2>2. tries \subseteq AttemptIds
    BY DEF PendingOf, Pending
  <2>3. what \in Handlers
    BY <2>1, <2>2 DEF Handlers, Confirms
  <2>4. \A a \in tries : attempt[a].status # "none" /\ attempt[a].student = s
    BY DEF PendingOf, Pending
  <2>5. Go(r, what) /\ UNCHANGED db
    BY <1>4 DEF ConfirmLock
  <2>. QED
    BY <2>3, <2>4, <2>5, ReadStep
<1>5. ASSUME NEW a \in AttemptIds, DecideRead(r, a) PROVE TypeInv'
  <2>. DEFINE s == attempt[a].student
              what == [op |-> "decide_read", student |-> s, seen |-> {a},
                       had |-> HasRecord(s)]
  <2>1. attempt[a].status # "none" /\ s \in Students
    BY <1>5 DEF DecideRead, AttemptsOwned
  <2>2. what \in Handlers
    BY <2>1 DEF Handlers, Decisions, HasRecord
  <2>. QED
    BY <1>5, <2>1, <2>2, ReadStep DEF DecideRead
<1>6. ASSUME NEW s \in Students, MarkRead(r, s) PROVE TypeInv'
  <2>. DEFINE what == [op |-> "mark_read", student |-> s, had |-> HasRecord(s),
                       seen |-> PendingOf(s)]
  <2>1. what \in Handlers
    BY DEF Handlers, MarkReads, HasRecord, PendingOf, Pending
  <2>2. \A a \in what.seen : attempt[a].status # "none" /\ attempt[a].student = s
    BY DEF PendingOf, Pending
  <2>. QED
    BY <1>6, <2>1, <2>2, ReadStep DEF MarkRead
<1>7. CASE FinalizeRead(r)
  <2>1. [op |-> "final_read"] \in Handlers /\ "final_read" \notin Resolving
    BY DEF Handlers, FinalReads, Resolving
  <2>. QED
    BY <1>7, <2>1, ReadStep DEF FinalizeRead
<1>8. ASSUME NEW s \in Students, PastRead(r, s) PROVE TypeInv'
  <2>. DEFINE what == [op |-> "past_read", student |-> s, had |-> HasRecord(s),
                       missing |-> Missing, seen |-> PendingOf(s)]
  <2>1. what \in Handlers
    BY DEF Handlers, PastReads, HasRecord, PendingOf, Pending, Missing
  <2>2. \A a \in what.seen : attempt[a].status # "none" /\ attempt[a].student = s
    BY DEF PendingOf, Pending
  <2>. QED
    BY <1>8, <2>1, <2>2, ReadStep DEF PastRead
<1>. QED
  BY <1>1, <1>2, <1>3, <1>4, <1>5, <1>6, <1>7, <1>8 DEF Arrival

\* the row of a handler tells what it is
LEMMA HandlerTypes ==
  ASSUME TypeOK, NEW r \in Requests
  PROVE  /\ In(r, {"qr_read"}) => req[r] \in QrReads
         /\ In(r, {"qr_held"}) => req[r] \in QrHolds
         /\ In(r, {"scan_read", "code_held"}) => req[r] \in Begins
         /\ In(r, {"confirm_held"}) => req[r] \in Confirms
         /\ In(r, {"decide_read", "decide_held"}) => req[r] \in Decisions
         /\ In(r, {"mark_read"}) => req[r] \in MarkReads
         /\ In(r, {"mark_held"}) => req[r] \in MarkHolds
         /\ In(r, {"past_read"}) => req[r] \in PastReads
         /\ In(r, {"final_collected"}) => req[r] \in FinalHolds
<1>1. req[r] \in Handlers
  BY DEF TypeOK
<1>. QED
  BY <1>1 DEF In, Handlers, Idle, QrReads, QrHolds, Begins, Confirms,
     Decisions, MarkReads, MarkHolds, PastReads, FinalReads, FinalHolds

LEMMA TokensTyped ==
  ASSUME TypeOK, NEW ts
  PROVE  Invalidate(ts) \in [Tokens -> TokenRows]
BY TokenFlags DEF Invalidate, TypeOK

LEMMA SetRecordTyped ==
  ASSUME TypeOK, NEW s, NEW st \in Statuses, SetRecord(s, st)
  PROVE  record' \in [Students -> Records]
<1>1. [status |-> st, method |-> "manual"] \in Records
  BY DEF Records
<1>. QED
  BY <1>1 DEF SetRecord, TypeOK

LEMMA FilledTyped ==
  ASSUME TypeOK, NEW ss
  PROVE  Filled(ss) \in [Students -> Records]
<1>1. \A s \in Students :
        [status |-> FinalStatus(s), method |-> "finalization"] \in Records
  BY DEF FinalStatus, Records, Statuses
<1>. QED
  BY <1>1 DEF Filled, TypeOK

LEMMA VerdictTyped ==
  \A st : Verdict(st) \in {"accepted", "confirmed", "rejected"}
BY DEF Verdict

\* the rotations and the second halves of the check-in
LEMMA RotationTypeInv ==
  ASSUME TypeInv, NEW r \in Requests,
         QrReturn(r) \/ QrLock(r) \/ QrCommit(r)
  PROVE  TypeInv'
<1>. USE Bounds DEF TypeInv
<1>1. CASE QrReturn(r)
  BY <1>1, QuietEnd DEF QrReturn
<1>2. CASE QrLock(r)
  <2>1. req[r] \in QrReads /\ UNCHANGED db /\ req[r].ver = ver
    BY <1>2, HandlerTypes DEF QrLock
  <2>2. ver + 1 \in Versions
    BY <2>1 DEF QrReads, Versions
  <2>3. PICK c \in Codes :
          Go(r, [op |-> "qr_held", ver |-> ver + 1, code |-> c,
                 seen |-> {t \in OpenTokens :
                             ~ /\ token[t].method = "code"
                               /\ challenge[token[t].ver].code = c}])
    BY <1>2 DEF QrLock
  <2>. DEFINE ts == {t \in OpenTokens :
                       ~ /\ token[t].method = "code"
                         /\ challenge[token[t].ver].code = c}
              what == [op |-> "qr_held", ver |-> ver + 1, code |-> c,
                       seen |-> ts]
  <2>4. ts \subseteq Tokens
    BY DEF OpenTokens
  <2>. HIDE DEF ts
  <2>5. what \in Handlers /\ what.op \notin Resolving
    BY <2>2, <2>4 DEF Handlers, QrHolds, Resolving
  <2>6. Go(r, what)
    BY <2>3 DEF ts
  <2>. QED
    BY <2>1, <2>5, <2>6, ReadStep
<1>3. CASE QrCommit(r)
  <2>1. req[r] \in QrHolds
    BY <1>3, HandlerTypes DEF QrCommit
  <2>2. req[r].ver \in 0..MaxVersion
    BY <2>1 DEF QrHolds, Versions
  <2>3. FreshChallenge(req[r].code) \in Challenges
    BY <2>1 DEF QrHolds, FreshChallenge, Challenges
  <2>4. \A v \in Versions : Revoked(v) \in Challenges
    BY DEF Revoked, Challenges, TypeOK
  <2>5. challenge' \in [Versions -> Challenges]
    BY <1>3, <2>3, <2>4 DEF QrCommit
  <2>6. token' \in [Tokens -> TokenRows]
    BY <1>3, TokensTyped DEF QrCommit
  <2>7. AttemptsKept /\ AttemptsOwned'
    BY <1>3 DEF QrCommit, AttemptsKept, AttemptsOwned
  <2>. QED
    BY <1>3, <2>2, <2>5, <2>6, <2>7, EndStep
       DEF QrCommit, TypeOK, sessionVars
<1>. QED
  BY <1>1, <1>2, <1>3

LEMMA LocationTypeInv ==
  ASSUME TypeInv, NEW r \in Requests, LocationFails(r) \/ LocationPasses(r)
  PROVE  TypeInv'
<1>. USE Bounds DEF TypeInv
<1>1. req[r] \in Begins /\ req[r].student \in Students
  BY HandlerTypes DEF LocationFails, LocationPasses, BeginReady, In, Begins
<1>2. CASE LocationFails(r)
  <2>1. CASE AddAttempt(req[r].student, "exception", "pending")
    BY <1>1, <1>2, <2>1, AddStep, EndStep
       DEF LocationFails, BeginReady, TypeOK, sessionVars
  <2>2. CASE UNCHANGED attempt
    <3>1. AttemptsKept /\ AttemptsOwned'
      BY <2>2 DEF AttemptsKept, AttemptsOwned
    <3>. QED
      BY <1>2, <2>2, <3>1, EndStep
         DEF LocationFails, BeginReady, TypeOK, sessionVars
  <2>. QED
    BY <1>2, <2>1, <2>2 DEF LocationFails
<1>3. CASE LocationPasses(r)
  <2>. DEFINE m == IF req[r].op = "code_held" THEN "code" ELSE "qr"
              late == IF m = "qr" THEN challenge[req[r].ver].expired
                                  ELSE ~window
              row == [student |-> req[r].student, ver |-> req[r].ver,
                      method |-> m, consumed |-> FALSE, invalidated |-> FALSE,
                      expired |-> late]
  <2>a. req[r].ver \in Versions /\ req[r].ver \in 0..MaxVersion
    BY <1>1 DEF Begins, Versions
  <2>b. challenge[req[r].ver] \in Challenges /\ window \in BOOLEAN
    BY <2>a DEF TypeOK
  <2>c. late \in BOOLEAN /\ m \in {"none", "qr", "code"}
    BY <2>b DEF Challenges
  <2>. HIDE DEF late, m
  <2>1. row \in TokenRows
    BY <1>1, <2>a, <2>c DEF TokenRows
  <2>2. PICK t \in Tokens : token' = [Invalidate(req[r].seen) EXCEPT ![t] = row]
    BY <1>3 DEF LocationPasses, late, m
  <2>. HIDE DEF row
  <2>3. token' \in [Tokens -> TokenRows]
    BY <2>1, <2>2, TokensTyped
  <2>4. AddAttempt(req[r].student, "verified", "pending")
    BY <1>3 DEF LocationPasses
  <2>5. /\ attempt' \in [AttemptIds -> Attempts]
        /\ AttemptsOwned' /\ AttemptsKept
    BY <1>1, <2>4, AddStep
  <2>. QED
    BY <1>3, <2>3, <2>5, EndStep
       DEF LocationPasses, BeginReady, TypeOK, sessionVars
<1>. QED
  BY <1>2, <1>3

LEMMA ConfirmTypeInv ==
  ASSUME TypeInv, NEW r \in Requests, ConfirmCommit(r)
  PROVE  TypeInv'
<1>. DEFINE s == req[r].student
            t == req[r].token
<1>. USE DEF TypeInv
<1>1. /\ In(r, {"confirm_held"}) /\ ConfirmWrite(r)
      /\ req[r] \in Confirms /\ s \in Students /\ t \in Tokens
  BY HandlerTypes DEF ConfirmCommit, Confirms
<1>2. In(r, Resolving)
  BY <1>1 DEF In, Resolving
<1>3. record' \in [Students -> Records]
  <2>1. token[t].method \in {"none", "qr", "code"}
    BY <1>1 DEF TypeOK, TokenRows
  <2>2. [status |-> "present", method |-> token[t].method] \in Records
    BY <2>1 DEF Records, Statuses
  <2>. QED
    BY <1>1, <2>2 DEF ConfirmWrite, TypeOK
<1>4. token' \in [Tokens -> TokenRows]
  BY <1>1, TokenFlags DEF ConfirmWrite, TypeOK
<1>5. /\ attempt' \in [AttemptIds -> Attempts]
      /\ AttemptsOwned' /\ AttemptsKept
  <2>1. CASE req[r].seen = {}
    BY <1>1, <2>1, AddStep DEF ConfirmWrite
  <2>2. CASE req[r].seen # {}
    <3>1. PICK a \in req[r].seen :
            attempt' = [attempt EXCEPT ![a].status = "accepted"]
      BY <1>1, <2>2 DEF ConfirmWrite
    <3>2. a \in AttemptIds /\ attempt[a].student \in Students
      BY <1>1, <1>2, <3>1, SeenSubset DEF SeenOwned
    <3>3. [attempt[a] EXCEPT !.status = "accepted"] \in Attempts
      BY <3>2 DEF TypeOK, Attempts
    <3>4. attempt' \in [AttemptIds -> Attempts]
      BY <3>1, <3>3 DEF TypeOK
    <3>5. /\ attempt'[a].student = attempt[a].student
          /\ attempt'[a].status = "accepted"
          /\ \A b \in AttemptIds \ {a} : attempt'[b] = attempt[b]
      BY <3>1, <3>2 DEF TypeOK, Attempts
    <3>6. AttemptsKept
      BY <3>5 DEF AttemptsKept
    <3>7. AttemptsOwned'
      BY <3>2, <3>5 DEF AttemptsOwned
    <3>. QED
      BY <3>4, <3>6, <3>7
  <2>. QED
    BY <2>1, <2>2
<1>. QED
  BY <1>1, <1>3, <1>4, <1>5, EndStep DEF ConfirmWrite, TypeOK, sessionVars

\* the review of an attempt and the marks of the teacher
LEMMA TeacherTypeInv ==
  ASSUME TypeInv, NEW r \in Requests,
         \/ DecideCommit(r) \/ DecideInsert(r) \/ DecideInsertCommit(r)
         \/ InsertCollides(r) \/ MarkInsertCommit(r)
         \/ \E st \in ManualStatuses : MarkCommit(r, st) \/ MarkInsert(r, st)
  PROVE  TypeInv'
<1>. USE Bounds DEF TypeInv
<1>1. CASE DecideCommit(r)
  <2>1. /\ attempt' \in [AttemptIds -> Attempts]
        /\ AttemptsOwned' /\ AttemptsKept
    BY <1>1, ResolveStep DEF DecideCommit, In, Resolving
  <2>. QED
    BY <1>1, <2>1, EndStep DEF DecideCommit, TypeOK, sessionVars
<1>2. CASE DecideInsert(r)
  <2>. DEFINE what == [req[r] EXCEPT !.op = "decide_held"]
  <2>1. req[r] \in Decisions /\ In(r, Resolving)
    BY <1>2, HandlerTypes DEF DecideInsert, In, Resolving
  <2>2. /\ what \in Handlers /\ what.seen = req[r].seen
        /\ what.student = req[r].student
    BY <2>1 DEF Handlers, Decisions
  <2>3. UNCHANGED db /\ Go(r, what)
    BY <1>2 DEF DecideInsert, InsertHeld
  <2>. HIDE DEF what
  <2>. QED
    BY <2>1, <2>2, <2>3, ReadStep DEF SeenOwned
<1>3. CASE DecideInsertCommit(r)
  <2>1. /\ attempt' \in [AttemptIds -> Attempts]
        /\ AttemptsOwned' /\ AttemptsKept
    BY <1>3, ResolveStep DEF DecideInsertCommit, In, Resolving
  <2>2. record' \in [Students -> Records]
    BY <1>3, SetRecordTyped DEF DecideInsertCommit, Statuses
  <2>. QED
    BY <1>3, <2>1, <2>2, EndStep DEF DecideInsertCommit, TypeOK, sessionVars
<1>4. CASE InsertCollides(r)
  BY <1>4, QuietEnd DEF InsertCollides
<1>5. CASE MarkInsertCommit(r)
  <2>1. req[r] \in MarkHolds /\ req[r].status \in Statuses
    BY <1>5, HandlerTypes DEF MarkInsertCommit, MarkHolds
  <2>2. /\ attempt' \in [AttemptIds -> Attempts]
        /\ AttemptsOwned' /\ AttemptsKept
    BY <1>5, ResolveStep, VerdictTyped DEF MarkInsertCommit, In, Resolving
  <2>3. record' \in [Students -> Records]
    BY <1>5, <2>1, SetRecordTyped DEF MarkInsertCommit
  <2>. QED
    BY <1>5, <2>2, <2>3, EndStep DEF MarkInsertCommit, TypeOK, sessionVars
<1>6. ASSUME NEW st \in ManualStatuses, MarkCommit(r, st) PROVE TypeInv'
  <2>1. /\ attempt' \in [AttemptIds -> Attempts]
        /\ AttemptsOwned' /\ AttemptsKept
    BY <1>6, ResolveStep, VerdictTyped DEF MarkCommit, In, Resolving
  <2>2. record' \in [Students -> Records]
    BY <1>6, SetRecordTyped DEF MarkCommit
  <2>. QED
    BY <1>6, <2>1, <2>2, EndStep DEF MarkCommit, TypeOK, sessionVars
<1>7. ASSUME NEW st \in ManualStatuses, MarkInsert(r, st) PROVE TypeInv'
  <2>. DEFINE s == req[r].student
              what == [op |-> "mark_held", student |-> s,
                       seen |-> PendingOf(s), status |-> st]
  <2>1. s \in Students
    BY <1>7, HandlerTypes DEF MarkInsert, MarkReads
  <2>2. what \in Handlers
    BY <2>1 DEF Handlers, MarkHolds, PendingOf, Pending
  <2>3. \A a \in what.seen : attempt[a].status # "none" /\ attempt[a].student = s
    BY DEF PendingOf, Pending
  <2>4. UNCHANGED db /\ Go(r, what)
    BY <1>7 DEF MarkInsert, InsertHeld
  <2>. QED
    BY <2>2, <2>3, <2>4, ReadStep
<1>. QED
  BY <1>1, <1>2, <1>3, <1>4, <1>5, <1>6, <1>7

\* finalize and the marks of a past date
LEMMA ClosingTypeInv ==
  ASSUME TypeInv, NEW r \in Requests,
         \/ FinalizeRefused(r) \/ FinalizeCollect(r) \/ FinalizeCommit(r)
         \/ FillCollides(r) \/ PastFails(r) \/ AbortDeadlock(r)
         \/ ConfirmCollides(r)
         \/ \E st \in ManualStatuses : PastCommit(r, st)
  PROVE  TypeInv'
<1>. USE Bounds DEF TypeInv
<1>1. CASE \/ FinalizeRefused(r) \/ FillCollides(r) \/ PastFails(r)
           \/ AbortDeadlock(r) \/ ConfirmCollides(r)
  BY <1>1, QuietEnd DEF FinalizeRefused, FillCollides, PastFails,
                        AbortDeadlock, ConfirmCollides
<1>2. CASE FinalizeCollect(r)
  <2>. DEFINE what == [op |-> "final_collected", missing |-> Missing,
                       conducted |-> conducted]
  <2>1. what \in Handlers /\ what.op \notin Resolving
    BY DEF Handlers, FinalHolds, Missing, TypeOK, Resolving
  <2>. QED
    BY <1>2, <2>1, ReadStep DEF FinalizeCollect
<1>3. CASE FinalizeCommit(r)
  <2>1. req[r] \in FinalHolds /\ conducted' \in Nat
    BY <1>3, HandlerTypes DEF FinalizeCommit, FinalHolds
  <2>2. record' \in [Students -> Records]
    BY <1>3, FilledTyped DEF FinalizeCommit
  <2>3. AttemptsKept /\ AttemptsOwned'
    BY <1>3 DEF FinalizeCommit, AttemptsKept, AttemptsOwned
  <2>. QED
    BY <1>3, <2>1, <2>2, <2>3, EndStep DEF FinalizeCommit, TypeOK
<1>4. ASSUME NEW st \in ManualStatuses, PastCommit(r, st) PROVE TypeInv'
  <2>1. /\ attempt' \in [AttemptIds -> Attempts]
        /\ AttemptsOwned' /\ AttemptsKept
    BY <1>4, ResolveStep, VerdictTyped DEF PastCommit, In, Resolving
  <2>2. [status |-> st, method |-> "manual"] \in Records
    BY DEF Records
  <2>3. record' \in [Students -> Records]
    BY <1>4, <2>2, FilledTyped DEF PastCommit
  <2>. QED
    BY <1>4, <2>1, <2>3, EndStep DEF PastCommit, TypeOK
<1>. QED
  BY <1>1, <1>2, <1>3, <1>4

LEMMA StutterTypeInv == TypeInv /\ UNCHANGED vars => TypeInv'
BY DEF TypeInv, TypeOK, AttemptsOwned, SeenOwned, In, vars, db, sessionVars

LEMMA NextTypeInv == TypeInv /\ [Next]_vars => TypeInv'
<1>. SUFFICES ASSUME TypeInv, [Next]_vars PROVE TypeInv'
  OBVIOUS
<1>1. CASE Call
  BY <1>1, CallTypeInv
<1>2. CASE Time
  BY <1>2, TimeTypeInv
<1>3. ASSUME NEW r \in Requests, Arrival(r) PROVE TypeInv'
  BY <1>3, ArrivalTypeInv
<1>4. ASSUME NEW r \in Requests, Progress(r) PROVE TypeInv'
  BY <1>4, RotationTypeInv, LocationTypeInv, ConfirmTypeInv, TeacherTypeInv,
     ClosingTypeInv DEF Progress
<1>5. CASE UNCHANGED vars
  BY <1>5, StutterTypeInv
<1>. QED
  BY <1>1, <1>2, <1>3, <1>4, <1>5 DEF Next

LEMMA TypeInvariant == Spec => []TypeInv
BY InitTypeInv, NextTypeInv, PTL DEF Spec

\* Every row the handlers write and everything they hold between two steps
\* stays within its type, for every roster and number of handlers.
THEOREM TypeCorrect == Spec => []TypeOK
<1>1. TypeInv => TypeOK
  BY DEF TypeInv
<1>. QED
  BY <1>1, TypeInvariant, PTL

-----------------------------------------------------------------------------
(* Safety.  A handler decides on what it has read; the invariant says what   *)
(* of that still holds when it writes, with no lock to protect it: records   *)
(* are never deleted, so a record seen is there and the records seen missing *)
(* include those missing now; a check-in whose session is no longer active   *)
(* finds the record that the completion has filled in.                       *)

RowOK(q) ==
  /\ q.op \in {"decide_read", "mark_read", "past_read"} /\ q.had
       => HasRecord(q.student)
  /\ q.op \in {"final_collected", "past_read"} => Missing \subseteq q.missing
  /\ q.op = "confirm_held" =>
       /\ status = "active" \/ HasRecord(q.student)
       /\ token[q.token].student = q.student
  /\ q.op \notin {"idle", "past_read"} => status # "none"

HandlersOK == \A r \in Requests : RowOK(req[r])

\* nothing is there before the session is
NothingYet ==
  status = "none" => /\ ver = 0
                     /\ Missing = Students
                     /\ \A a \in AttemptIds : attempt[a].status = "none"

TokensNamed ==
  \A t \in Tokens : token[t].student # None => token[t].method \in {"qr", "code"}

SafeInv == /\ TypeInv /\ HandlersOK /\ NothingYet /\ TokensNamed
           /\ AcceptedHasRecord /\ CompletedHasRoster /\ OneLiveChallenge

LEMMA InitSafeInv == Init => SafeInv
<1>. SUFFICES ASSUME Init PROVE SafeInv
  OBVIOUS
<1>1. TypeInv
  BY InitTypeInv
<1>2. HandlersOK
  BY DEF Init, HandlersOK, RowOK, Idle
<1>3. NothingYet /\ AcceptedHasRecord
  BY DEF Init, NothingYet, AcceptedHasRecord, Missing, HasRecord, NoRecord,
         NoAttempt
<1>4. TokensNamed /\ CompletedHasRoster
  BY DEF Init, TokensNamed, NoToken, CompletedHasRoster
<1>5. OneLiveChallenge
  BY Bounds DEF Init, OneLiveChallenge, Versions
<1>. QED
  BY <1>1, <1>2, <1>3, <1>4, <1>5 DEF SafeInv

\* What every step keeps.
RecordsKept == \A s \in Students : HasRecord(s) => HasRecord(s)'

Advances ==
  /\ RecordsKept
  /\ status # "none" => status' # "none"
  /\ status = "active" => \/ status' = "active"
                           \/ \A s \in Students : HasRecord(s)'
  /\ \A t \in Tokens : token[t].student # None
                           => token'[t].student = token[t].student

LEMMA RowKept ==
  ASSUME TypeOK, Advances, NEW r \in Requests, RowOK(req[r])
  PROVE  \A q : q = req[r] => RowOK(q)'
<1>. SUFFICES ASSUME NEW q, q = req[r] PROVE RowOK(q)'
  OBVIOUS
<1>1. CASE In(r, {"decide_read", "mark_read", "past_read"})
  <2>1. q.student \in Students
    BY <1>1, HandlerTypes DEF In, Decisions, MarkReads, PastReads
  <2>. QED
    BY <1>1, <2>1 DEF RowOK, In, Advances, RecordsKept, Missing
<1>2. CASE In(r, {"confirm_held"})
  <2>1. q.student \in Students /\ q.token \in Tokens
    BY <1>2, HandlerTypes DEF Confirms
  <2>2. token[q.token].student = q.student /\ q.student # None
    BY <1>2, <2>1, Bounds DEF RowOK, In
  <2>. QED
    BY <1>2, <2>1, <2>2 DEF RowOK, In, Advances, RecordsKept
<1>3. CASE ~In(r, {"decide_read", "mark_read", "past_read", "confirm_held"})
  BY <1>3 DEF RowOK, In, Advances, RecordsKept, Missing
<1>. QED
  BY <1>1, <1>2, <1>3 DEF In

LEMMA ReadSafe ==
  ASSUME SafeInv, TypeInv', UNCHANGED db,
         NEW r \in Requests, NEW what \in Handlers, Go(r, what), RowOK(what)
  PROVE  SafeInv'
<1>. USE DEF SafeInv, db, sessionVars
<1>1. HandlersOK'
  BY DEF HandlersOK, RowOK, Go, TypeInv, TypeOK, HasRecord, Missing
<1>2. (NothingYet /\ TokensNamed /\ AcceptedHasRecord)'
  BY DEF NothingYet, TokensNamed, AcceptedHasRecord, Missing, HasRecord
<1>3. (CompletedHasRoster /\ OneLiveChallenge)'
  BY DEF CompletedHasRoster, OneLiveChallenge, HasRecord
<1>. QED
  BY <1>1, <1>2, <1>3

LEMMA QuietSafe ==
  ASSUME SafeInv, TypeInv', UNCHANGED db, NEW r \in Requests, End(r)
  PROVE  SafeInv'
<1>1. Idle \in Handlers /\ RowOK(Idle) /\ Go(r, Idle)
  BY DEF Handlers, Idle, RowOK, End, Go
<1>. QED
  BY <1>1, ReadSafe

LEMMA WriteSafe ==
  ASSUME SafeInv, TypeInv', Advances,
         \/ UNCHANGED req
         \/ \E r \in Requests : End(r),
         (NothingYet /\ TokensNamed)',
         (AcceptedHasRecord /\ CompletedHasRoster /\ OneLiveChallenge)'
  PROVE  SafeInv'
<1>1. ASSUME NEW q \in Requests PROVE RowOK(req[q])'
  <2>1. CASE req'[q] = req[q]
    BY <2>1, RowKept DEF SafeInv, TypeInv, HandlersOK
  <2>2. CASE req'[q] = Idle
    BY <2>2 DEF Idle, RowOK
  <2>. QED
    BY <2>1, <2>2 DEF End, SafeInv, TypeInv, TypeOK
<1>. QED
  BY <1>1 DEF SafeInv, HandlersOK

\* The facts of SafeInv that a step with the records and attempts unchanged
\* keeps by itself.
LEMMA RegisterKept ==
  ASSUME SafeInv, UNCHANGED <<status, ver, attempt, record>>
  PROVE  (NothingYet /\ AcceptedHasRecord /\ CompletedHasRoster)'
BY DEF SafeInv, NothingYet, AcceptedHasRecord, CompletedHasRoster, Missing,
       HasRecord

LEMMA AcceptedKept ==
  ASSUME SafeInv, RecordsKept, UNCHANGED attempt
  PROVE  AcceptedHasRecord'
BY DEF SafeInv, TypeInv, AttemptsOwned, RecordsKept, AcceptedHasRecord,
       HasRecord

LEMMA ResolveAccepted ==
  ASSUME SafeInv, RecordsKept, NEW r \in Requests, In(r, Resolving),
         NEW verdict \in {"accepted", "confirmed", "rejected"},
         Resolve(req[r].seen, verdict),
         verdict # "rejected" => record'[req[r].student].status # "none"
  PROVE  AcceptedHasRecord'
<1>1. ASSUME NEW a \in AttemptIds,
             attempt'[a].status \in {"accepted", "confirmed"}
      PROVE  record'[attempt'[a].student].status # "none"
  <2>1. attempt[a] \in Attempts
    BY DEF SafeInv, TypeInv, TypeOK
  <2>2. CASE a \in req[r].seen
    <3>1. attempt'[a] = [attempt[a] EXCEPT !.status = verdict]
      BY <2>2 DEF Resolve
    <3>2. attempt'[a].student = req[r].student /\ attempt'[a].status = verdict
      BY <2>1, <2>2, <3>1 DEF SafeInv, TypeInv, SeenOwned, Attempts
    <3>. QED
      BY <1>1, <3>2 DEF HasRecord
  <2>3. CASE a \notin req[r].seen
    <3>1. attempt'[a] = attempt[a]
      BY <2>3 DEF Resolve
    <3>2. attempt[a].student \in Students /\ HasRecord(attempt[a].student)
      BY <1>1, <3>1 DEF SafeInv, TypeInv, AttemptsOwned, AcceptedHasRecord
    <3>. QED
      BY <3>1, <3>2 DEF RecordsKept, HasRecord
  <2>. QED
    BY <2>2, <2>3
<1>. QED
  BY <1>1 DEF AcceptedHasRecord, HasRecord

\* a teacher's mark is a record, and loses none
LEMMA SetRecordKeeps ==
  ASSUME TypeOK, NEW s \in Students, NEW st \in Statuses, SetRecord(s, st)
  PROVE  RecordsKept /\ HasRecord(s)'
BY DEF SetRecord, RecordsKept, HasRecord, TypeOK, Statuses

\* so do the records filled in
LEMMA FilledKeeps ==
  ASSUME TypeOK, NEW ss \in SUBSET Students, record' = Filled(ss)
  PROVE  RecordsKept /\ \A s \in ss : HasRecord(s)'
BY DEF Filled, RecordsKept, HasRecord, FinalStatus

LEMMA CallSafe == SafeInv /\ TypeInv' /\ Call => SafeInv'
<1>. SUFFICES ASSUME SafeInv, TypeInv', Call PROVE SafeInv'
  OBVIOUS
<1>. USE Bounds
<1>0. TypeOK
  BY DEF SafeInv, TypeInv
<1>1. CASE StartSession
  <2>1. ver = 0 /\ UNCHANGED <<token, attempt, record, req>>
    BY <1>1 DEF StartSession, SafeInv, NothingYet
  <2>2. Advances
    BY <1>1 DEF StartSession, Advances, RecordsKept, HasRecord
  <2>3. OneLiveChallenge'
    BY <1>0, <1>1, <2>1
       DEF StartSession, OneLiveChallenge, FreshChallenge, Versions, TypeOK
  <2>4. (TokensNamed /\ AcceptedHasRecord)'
    BY <2>1 DEF SafeInv, TokensNamed, AcceptedHasRecord, HasRecord
  <2>5. (NothingYet /\ CompletedHasRoster)'
    BY <1>1 DEF StartSession, NothingYet, CompletedHasRoster
  <2>. QED
    BY <2>1, <2>2, <2>3, <2>4, <2>5, WriteSafe
<1>2. ASSUME NEW s \in Students, NEW st \in ManualStatuses,
             MarkNewSession(s, st)
      PROVE  SafeInv'
  <2>1. SetRecord(s, st) /\ UNCHANGED <<ver, challenge, token, attempt, req>>
    BY <1>2 DEF MarkNewSession, SetRecord
  <2>2. RecordsKept
    BY <1>0, <2>1, SetRecordKeeps
  <2>3. Advances
    BY <1>2, <2>2 DEF MarkNewSession, Advances
  <2>4. AcceptedHasRecord'
    BY <2>1, <2>2, AcceptedKept
  <2>5. (NothingYet /\ CompletedHasRoster)'
    BY <1>2 DEF MarkNewSession, NothingYet, CompletedHasRoster
  <2>6. (TokensNamed /\ OneLiveChallenge)'
    BY <2>1 DEF SafeInv, TokensNamed, OneLiveChallenge
  <2>. QED
    BY <2>1, <2>3, <2>4, <2>5, <2>6, WriteSafe
<1>3. ASSUME NEW s \in Students, NEW st \in ManualStatuses,
             ChangeStatus(s, st)
      PROVE  SafeInv'
  <2>1. /\ SetRecord(s, st) /\ HasRecord(s)
        /\ UNCHANGED <<status, ver, challenge, token, attempt, req>>
    BY <1>3 DEF ChangeStatus, sessionVars
  <2>2. RecordsKept
    BY <1>0, <2>1, SetRecordKeeps
  <2>3. Advances
    BY <2>1, <2>2 DEF Advances
  <2>4. AcceptedHasRecord'
    BY <2>1, <2>2, AcceptedKept
  <2>5. status # "none"
    BY <2>1 DEF SafeInv, NothingYet, Missing
  <2>6. (NothingYet /\ CompletedHasRoster)'
    BY <2>1, <2>2, <2>5
       DEF SafeInv, NothingYet, CompletedHasRoster, RecordsKept, HasRecord
  <2>7. (TokensNamed /\ OneLiveChallenge)'
    BY <2>1 DEF SafeInv, TokensNamed, OneLiveChallenge
  <2>. QED
    BY <2>1, <2>3, <2>4, <2>6, <2>7, WriteSafe
<1>4. ASSUME NEW s \in Students, NEW c \in Codes, WrongCode(s, c)
      PROVE  SafeInv'
  <2>1. UNCHANGED <<status, ver, challenge, token, attempt, record, req>>
    BY <1>4 DEF WrongCode, sessionVars
  <2>2. Advances
    BY <2>1 DEF Advances, RecordsKept, HasRecord
  <2>3. (TokensNamed /\ OneLiveChallenge)'
    BY <2>1 DEF SafeInv, TokensNamed, OneLiveChallenge
  <2>. QED
    BY <2>1, <2>2, <2>3, RegisterKept, WriteSafe
<1>5. ASSUME NEW t \in Tokens, ConfirmRefused(t) PROVE SafeInv'
  <2>1. UNCHANGED <<status, ver, challenge, attempt, record, req>>
    BY <1>5 DEF ConfirmRefused, sessionVars
  <2>2. \A u \in Tokens : /\ token'[u].student = token[u].student
                          /\ token'[u].method = token[u].method
    BY <1>0, <1>5 DEF ConfirmRefused, TypeOK, TokenRows
  <2>3. Advances
    BY <2>1, <2>2 DEF Advances, RecordsKept, HasRecord
  <2>4. (TokensNamed /\ OneLiveChallenge)'
    BY <2>1, <2>2 DEF SafeInv, TokensNamed, OneLiveChallenge
  <2>. QED
    BY <2>1, <2>3, <2>4, RegisterKept, WriteSafe
<1>6. CASE DecideCancellation
  <2>1. UNCHANGED <<status, ver, challenge, token, attempt, record, req>>
    BY <1>6 DEF DecideCancellation
  <2>2. Advances
    BY <2>1 DEF Advances, RecordsKept, HasRecord
  <2>3. (TokensNamed /\ OneLiveChallenge)'
    BY <2>1 DEF SafeInv, TokensNamed, OneLiveChallenge
  <2>. QED
    BY <2>1, <2>2, <2>3, RegisterKept, WriteSafe
<1>. QED
  BY <1>1, <1>2, <1>3, <1>4, <1>5, <1>6 DEF Call

LEMMA TimeSafe == SafeInv /\ TypeInv' /\ Time => SafeInv'
<1>. SUFFICES ASSUME SafeInv, TypeInv', Time PROVE SafeInv'
  OBVIOUS
<1>1. UNCHANGED <<status, ver, attempt, record, req>>
  BY DEF Time, CloseWindow, ExpireChallenge, ExpireToken, DayPasses,
         ForgetMisses, sessionVars
<1>2. \A u \in Tokens : /\ token'[u].student = token[u].student
                        /\ token'[u].method = token[u].method
  BY DEF Time, CloseWindow, ExpireChallenge, ExpireToken, DayPasses,
         ForgetMisses, SafeInv, TypeInv, TypeOK, TokenRows
<1>3. \A v \in Versions : challenge'[v].revoked = challenge[v].revoked
  BY DEF Time, CloseWindow, ExpireChallenge, ExpireToken, DayPasses,
         ForgetMisses, SafeInv, TypeInv, TypeOK, Challenges
<1>4. Advances
  BY <1>1, <1>2 DEF Advances, RecordsKept, HasRecord
<1>5. (TokensNamed /\ OneLiveChallenge)'
  BY <1>1, <1>2, <1>3 DEF SafeInv, TokensNamed, OneLiveChallenge
<1>. QED
  BY <1>1, <1>4, <1>5, RegisterKept, WriteSafe

LEMMA ArrivalSafe ==
  ASSUME SafeInv, TypeInv', NEW r \in Requests, Arrival(r) PROVE SafeInv'
<1>. USE DEF Begin, Go
<1>1. UNCHANGED db
  BY DEF Arrival, QrRead, ScanRead, CodeLock, ConfirmLock, DecideRead, MarkRead,
         FinalizeRead, PastRead
<1>2. req' = [req EXCEPT ![r] = req'[r]] /\ req'[r] \in Handlers
  BY DEF Arrival, QrRead, ScanRead, CodeLock, ConfirmLock, DecideRead, MarkRead,
         FinalizeRead, PastRead, SafeInv, TypeInv, TypeOK
<1>3. \A q : q = req'[r] => RowOK(q)
  <2>. SUFFICES ASSUME NEW q, q = req'[r] PROVE RowOK(q)
    OBVIOUS
  <2>. req \in [Requests -> Handlers]
    BY DEF SafeInv, TypeInv, TypeOK
  <2>1. ASSUME NEW force \in BOOLEAN, QrRead(r, force) PROVE RowOK(q)
    BY <2>1 DEF QrRead, RowOK
  <2>2. ASSUME NEW s \in Students, ScanRead(r, s) PROVE RowOK(q)
    BY <2>2 DEF ScanRead, Accepting, RowOK
  <2>3. ASSUME NEW s \in Students, NEW c \in Codes, CodeLock(r, s, c)
        PROVE  RowOK(q)
    BY <2>3 DEF CodeLock, Accepting, RowOK
  <2>4. ASSUME NEW t \in Tokens, ConfirmLock(r, t) PROVE RowOK(q)
    BY <2>4 DEF ConfirmLock, Accepting, RowOK
  <2>5. ASSUME NEW a \in AttemptIds, DecideRead(r, a) PROVE RowOK(q)
    BY <2>5 DEF DecideRead, RowOK, SafeInv, NothingYet
  <2>6. ASSUME NEW s \in Students, MarkRead(r, s) PROVE RowOK(q)
    BY <2>6 DEF MarkRead, RowOK
  <2>7. CASE FinalizeRead(r)
    BY <2>7 DEF FinalizeRead, RowOK
  <2>8. ASSUME NEW s \in Students, PastRead(r, s) PROVE RowOK(q)
    BY <2>8 DEF PastRead, RowOK
  <2>. QED
    BY <2>1, <2>2, <2>3, <2>4, <2>5, <2>6, <2>7, <2>8 DEF Arrival
<1>. QED
  BY <1>1, <1>2, <1>3, ReadSafe

LEMMA RotationSafe ==
  ASSUME SafeInv, TypeInv', NEW r \in Requests,
         QrReturn(r) \/ QrLock(r) \/ QrCommit(r)
  PROVE  SafeInv'
<1>0. TypeOK /\ RowOK(req[r])
  BY DEF SafeInv, TypeInv, HandlersOK
<1>1. CASE QrReturn(r)
  BY <1>1, QuietSafe DEF QrReturn
<1>2. CASE QrLock(r)
  <2>1. /\ req' = [req EXCEPT ![r] = req'[r]] /\ req'[r] \in Handlers
        /\ req'[r].op = "qr_held"
    BY <1>0, <1>2 DEF QrLock, Go, TypeInv, TypeOK
  <2>2. status # "none"
    BY <1>0, <1>2 DEF QrLock, RowOK, In
  <2>3. \A q : q = req'[r] => RowOK(q)
    BY <2>1, <2>2 DEF RowOK
  <2>. QED
    BY <1>2, <2>1, <2>3, ReadSafe DEF QrLock, Go
<1>3. CASE QrCommit(r)
  <2>1. UNCHANGED <<status, attempt, record>> /\ End(r)
    BY <1>3 DEF QrCommit, sessionVars
  <2>2. status # "none"
    BY <1>0, <1>3 DEF QrCommit, RowOK, In
  <2>3. \A t \in Tokens : /\ token'[t].student = token[t].student
                          /\ token'[t].method = token[t].method
    BY <1>0, <1>3 DEF QrCommit, Invalidate, TypeOK, TokenRows
  <2>4. Advances
    BY <2>1, <2>3 DEF Advances, RecordsKept, HasRecord
  <2>5. OneLiveChallenge'
    <3>1. \A v \in Versions : challenge[v] \in Challenges
      BY <1>0 DEF TypeOK
    <3>2. \A v \in Versions : challenge'[v].revoked <=> v # req[r].ver
      BY <1>3, <3>1 DEF QrCommit, FreshChallenge, Revoked, Challenges
    <3>. QED
      BY <1>3, <3>2 DEF QrCommit, OneLiveChallenge
  <2>6. (NothingYet /\ TokensNamed /\ AcceptedHasRecord
           /\ CompletedHasRoster)'
    BY <2>1, <2>2, <2>3 DEF SafeInv, NothingYet, TokensNamed,
       AcceptedHasRecord, CompletedHasRoster, HasRecord
  <2>. QED
    BY <2>1, <2>4, <2>5, <2>6, WriteSafe
<1>. QED
  BY <1>1, <1>2, <1>3

LEMMA LocationSafe ==
  ASSUME SafeInv, TypeInv', NEW r \in Requests,
         LocationFails(r) \/ LocationPasses(r)
  PROVE  SafeInv'
<1>0. TypeOK /\ RowOK(req[r])
  BY DEF SafeInv, TypeInv, HandlersOK
<1>1. /\ UNCHANGED <<status, ver, challenge, record>> /\ End(r)
      /\ In(r, {"scan_read", "code_held"})
  BY DEF LocationFails, LocationPasses, BeginReady, sessionVars, In
<1>2. status # "none"
  BY <1>0, <1>1 DEF RowOK, In
<1>3. \A t \in Tokens : /\ token[t].student # None =>
                              token'[t].student = token[t].student
                        /\ token'[t].student # None =>
                              token'[t].method \in {"qr", "code"}
  <2>1. CASE LocationFails(r)
    BY <2>1 DEF LocationFails, SafeInv, TokensNamed
  <2>2. CASE LocationPasses(r)
    BY <1>0, <2>2 DEF LocationPasses, Invalidate, NoToken, SafeInv,
       TokensNamed, TypeOK, TokenRows
  <2>. QED
    BY <2>1, <2>2
<1>4. AcceptedHasRecord'
  <2>1. CASE UNCHANGED attempt
    BY <1>1, <2>1 DEF SafeInv, AcceptedHasRecord, HasRecord
  <2>2. ASSUME NEW kind, AddAttempt(req[r].student, kind, "pending")
        PROVE  AcceptedHasRecord'
    <3>1. PICK a \in AttemptIds :
            attempt' = [attempt EXCEPT ![a] =
              [student |-> req[r].student, kind |-> kind, status |-> "pending"]]
      BY <2>2 DEF AddAttempt
    <3>. QED
      BY <1>0, <1>1, <3>1 DEF SafeInv, AcceptedHasRecord, HasRecord, TypeOK
  <2>. QED
    BY <2>1, <2>2 DEF LocationFails, LocationPasses
<1>5. Advances
  BY <1>1, <1>3 DEF Advances, RecordsKept, HasRecord
<1>6. (NothingYet /\ TokensNamed /\ CompletedHasRoster /\ OneLiveChallenge)'
  BY <1>1, <1>2, <1>3 DEF SafeInv, NothingYet, TokensNamed,
     CompletedHasRoster, OneLiveChallenge, HasRecord
<1>. QED
  BY <1>1, <1>4, <1>5, <1>6, WriteSafe

\* the record of a check-in is new, and its session active
LEMMA ConfirmFacts ==
  ASSUME SafeInv, NEW r \in Requests, ConfirmCommit(r)
  PROVE  LET s == req[r].student
             t == req[r].token
         IN  /\ s \in Students /\ t \in Tokens /\ ~HasRecord(s)
             /\ status = "active" /\ token[t].method \in {"qr", "code"}
             /\ record' = [record EXCEPT ![s] =
                             [status |-> "present", method |-> token[t].method]]
             /\ UNCHANGED <<status, ver, challenge>> /\ End(r)
<1>1. req[r] \in Confirms /\ RowOK(req[r]) /\ req[r].op = "confirm_held"
  BY HandlerTypes DEF SafeInv, TypeInv, HandlersOK, ConfirmCommit, In
<1>2. /\ ~HasRecord(req[r].student) /\ End(r)
      /\ UNCHANGED <<status, ver, challenge>>
  BY DEF ConfirmCommit, ConfirmWrite, sessionVars
<1>3. req[r].student \in Students /\ req[r].token \in Tokens
  BY <1>1 DEF Confirms
<1>4. status = "active" /\ token[req[r].token].student = req[r].student
  BY <1>1, <1>2 DEF RowOK
<1>5. token[req[r].token].method \in {"qr", "code"}
  BY <1>3, <1>4, Bounds DEF SafeInv, TokensNamed
<1>. QED
  BY <1>2, <1>3, <1>4, <1>5 DEF ConfirmCommit, ConfirmWrite

LEMMA ConfirmSafe ==
  ASSUME SafeInv, TypeInv', NEW r \in Requests, ConfirmCommit(r)
  PROVE  SafeInv'
<1>. DEFINE s == req[r].student
<1>0. TypeOK
  BY DEF SafeInv, TypeInv
<1>1. /\ s \in Students /\ status = "active" /\ End(r)
      /\ UNCHANGED <<status, ver, challenge>>
  BY ConfirmFacts
<1>2. RecordsKept /\ record'[s].status # "none"
  <2>1. record' = [record EXCEPT ![s] = [status |-> "present",
                                         method |-> token[req[r].token].method]]
    BY ConfirmFacts
  <2>. QED
    BY <1>0, <1>1, <2>1 DEF RecordsKept, HasRecord, TypeOK
<1>3. \A u \in Tokens : /\ token'[u].student = token[u].student
                        /\ token'[u].method = token[u].method
  BY <1>0 DEF ConfirmCommit, ConfirmWrite, TypeOK, TokenRows
<1>4. AcceptedHasRecord'
  <2>1. CASE req[r].seen = {}
    <3>1. PICK a \in AttemptIds :
            attempt' = [attempt EXCEPT ![a] =
              [student |-> s, kind |-> "verified", status |-> "accepted"]]
      BY <2>1 DEF ConfirmCommit, ConfirmWrite, AddAttempt
    <3>. QED
      BY <1>0, <1>2, <3>1
         DEF SafeInv, TypeInv, AttemptsOwned, AcceptedHasRecord, RecordsKept,
             HasRecord, TypeOK
  <2>2. CASE req[r].seen # {}
    <3>1. PICK a \in req[r].seen :
            attempt' = [attempt EXCEPT ![a].status = "accepted"]
      BY <2>2 DEF ConfirmCommit, ConfirmWrite
    <3>2. In(r, Resolving)
      BY DEF ConfirmCommit, In, Resolving
    <3>3. a \in AttemptIds /\ attempt[a].student = s
      BY <1>0, <3>1, <3>2, SeenSubset DEF SafeInv, TypeInv, SeenOwned
    <3>4. /\ attempt'[a].student = s
          /\ \A b \in AttemptIds \ {a} : attempt'[b] = attempt[b]
      BY <1>0, <3>1, <3>3 DEF TypeOK, Attempts
    <3>. QED
      BY <1>2, <3>4
         DEF SafeInv, TypeInv, AttemptsOwned, AcceptedHasRecord, RecordsKept,
             HasRecord
  <2>. QED
    BY <2>1, <2>2
<1>5. Advances
  BY <1>1, <1>2, <1>3 DEF Advances
<1>6. (NothingYet /\ TokensNamed /\ CompletedHasRoster /\ OneLiveChallenge)'
  BY <1>1, <1>3 DEF SafeInv, NothingYet, TokensNamed, CompletedHasRoster,
     OneLiveChallenge
<1>. QED
  BY <1>1, <1>4, <1>5, <1>6, WriteSafe

LEMMA TeacherSafe ==
  ASSUME SafeInv, TypeInv', NEW r \in Requests,
         \/ DecideCommit(r) \/ DecideInsert(r) \/ DecideInsertCommit(r)
         \/ InsertCollides(r) \/ MarkInsertCommit(r)
         \/ \E st \in ManualStatuses : MarkCommit(r, st) \/ MarkInsert(r, st)
  PROVE  SafeInv'
<1>. USE Bounds
<1>0. TypeOK /\ RowOK(req[r])
  BY DEF SafeInv, TypeInv, HandlersOK
<1>1. CASE InsertCollides(r)
  BY <1>1, QuietSafe DEF InsertCollides
<1>2. CASE \/ DecideInsert(r)
           \/ \E st \in ManualStatuses : MarkInsert(r, st)
  <2>1. /\ req' = [req EXCEPT ![r] = req'[r]] /\ req'[r] \in Handlers
        /\ req'[r].op \in {"decide_held", "mark_held"} /\ UNCHANGED db
    <3>1. CASE DecideInsert(r)
      <4>1. req[r] \in Decisions
        BY <1>0, <3>1, HandlerTypes DEF DecideInsert, In
      <4>. QED
        BY <1>0, <3>1, <4>1
           DEF DecideInsert, InsertHeld, Go, Decisions, TypeInv, TypeOK
    <3>2. CASE \E st \in ManualStatuses : MarkInsert(r, st)
      BY <1>0, <3>2 DEF MarkInsert, InsertHeld, Go, TypeInv, TypeOK
    <3>. QED
      BY <1>2, <3>1, <3>2
  <2>2. status # "none"
    BY <1>0, <1>2 DEF DecideInsert, MarkInsert, RowOK, In
  <2>3. \A q : q = req'[r] => RowOK(q)
    BY <2>1, <2>2 DEF RowOK
  <2>. QED
    BY <2>1, <2>3, ReadSafe DEF Go
<1>3. ASSUME status # "none", RecordsKept, AcceptedHasRecord', End(r),
             UNCHANGED <<status, ver, challenge, token>>
      PROVE  SafeInv'
  <2>1. Advances
    BY <1>3 DEF Advances
  <2>2. (NothingYet /\ TokensNamed /\ CompletedHasRoster /\ OneLiveChallenge)'
    BY <1>3 DEF SafeInv, NothingYet, TokensNamed, CompletedHasRoster,
       OneLiveChallenge, RecordsKept, HasRecord
  <2>. QED
    BY <1>3, <2>1, <2>2, WriteSafe
<1>4. CASE DecideCommit(r)
  <2>1. /\ In(r, Resolving) /\ req[r] \in Decisions /\ End(r)
        /\ UNCHANGED <<status, ver, challenge, token, record>>
    BY <1>0, <1>4, HandlerTypes DEF DecideCommit, In, Resolving, sessionVars
  <2>2. status # "none" /\ RecordsKept
    BY <1>0, <1>4, <2>1 DEF DecideCommit, RowOK, In, RecordsKept, HasRecord
  <2>3. CASE Resolve(req[r].seen, "rejected")
    <3>1. AcceptedHasRecord'
      BY <2>1, <2>2, <2>3, ResolveAccepted
    <3>. QED
      BY <1>3, <2>1, <2>2, <3>1
  <2>4. CASE req[r].had /\ Resolve(req[r].seen, "confirmed")
    <3>1. HasRecord(req[r].student)
      BY <1>0, <1>4, <2>4 DEF DecideCommit, RowOK, In
    <3>2. AcceptedHasRecord'
      BY <2>1, <2>2, <2>4, <3>1, ResolveAccepted DEF HasRecord
    <3>. QED
      BY <1>3, <2>1, <2>2, <3>2
  <2>. QED
    BY <1>4, <2>3, <2>4 DEF DecideCommit
<1>5. ASSUME NEW s \in Students, NEW st \in Statuses, NEW v,
             In(r, Resolving), s = req[r].student, status # "none", End(r),
             v \in {"accepted", "confirmed", "rejected"},
             SetRecord(s, st), Resolve(req[r].seen, v),
             UNCHANGED <<status, ver, challenge, token>>
      PROVE  SafeInv'
  <2>1. RecordsKept /\ HasRecord(s)'
    BY <1>0, <1>5, SetRecordKeeps
  <2>2. AcceptedHasRecord'
    BY <1>5, <2>1, ResolveAccepted DEF HasRecord
  <2>. QED
    BY <1>3, <1>5, <2>1, <2>2
<1>6. CASE DecideInsertCommit(r)
  <2>1. req[r] \in Decisions /\ In(r, Resolving) /\ status # "none"
    BY <1>0, <1>6, HandlerTypes DEF DecideInsertCommit, In, Resolving, RowOK
  <2>2. req[r].student \in Students /\ "present" \in Statuses
    BY <2>1 DEF Decisions, Statuses
  <2>. QED
    BY <1>5, <1>6, <2>1, <2>2 DEF DecideInsertCommit, sessionVars
<1>7. CASE MarkInsertCommit(r)
  <2>1. req[r] \in MarkHolds /\ In(r, Resolving) /\ status # "none"
    BY <1>0, <1>7, HandlerTypes DEF MarkInsertCommit, In, Resolving, RowOK
  <2>2. req[r].student \in Students /\ req[r].status \in Statuses
    BY <2>1 DEF MarkHolds
  <2>. QED
    BY <1>5, <1>7, <2>1, <2>2, VerdictTyped DEF MarkInsertCommit, sessionVars
<1>8. ASSUME NEW st \in ManualStatuses, MarkCommit(r, st) PROVE SafeInv'
  <2>1. req[r] \in MarkReads /\ In(r, Resolving) /\ status # "none"
    BY <1>0, <1>8, HandlerTypes DEF MarkCommit, In, Resolving, RowOK
  <2>2. req[r].student \in Students /\ st \in Statuses
    BY <2>1 DEF MarkReads
  <2>. QED
    BY <1>5, <1>8, <2>1, <2>2, VerdictTyped DEF MarkCommit, sessionVars
<1>. QED
  BY <1>1, <1>2, <1>4, <1>6, <1>7, <1>8

\* finalize and manual_session fill in exactly the records missing when they
\* commit, although they were collected before
LEMMA CollectedIsMissing ==
  ASSUME SafeInv, NEW r \in Requests, In(r, {"final_collected", "past_read"}),
         req[r].missing \subseteq Missing
  PROVE  req[r].missing = Missing
BY DEF SafeInv, HandlersOK, RowOK, In

LEMMA ClosingSafe ==
  ASSUME SafeInv, TypeInv', NEW r \in Requests,
         \/ FinalizeRefused(r) \/ FinalizeCollect(r) \/ FinalizeCommit(r)
         \/ FillCollides(r) \/ PastFails(r) \/ AbortDeadlock(r)
         \/ ConfirmCollides(r)
         \/ \E st \in ManualStatuses : PastCommit(r, st)
  PROVE  SafeInv'
<1>0. TypeOK /\ RowOK(req[r])
  BY DEF SafeInv, TypeInv, HandlersOK
<1>1. CASE \/ FinalizeRefused(r) \/ FillCollides(r) \/ PastFails(r)
           \/ AbortDeadlock(r) \/ ConfirmCollides(r)
  BY <1>1, QuietSafe DEF FinalizeRefused, FillCollides, PastFails,
                         AbortDeadlock, ConfirmCollides
<1>2. CASE FinalizeCollect(r)
  <2>. DEFINE what == [op |-> "final_collected", missing |-> Missing,
                       conducted |-> conducted]
  <2>1. what \in Handlers
    BY <1>0 DEF Handlers, FinalHolds, Missing, TypeOK
  <2>2. RowOK(what)
    BY <1>0, <1>2 DEF FinalizeCollect, RowOK, In
  <2>. QED
    BY <1>2, <2>1, <2>2, ReadSafe DEF FinalizeCollect
<1>3. ASSUME RecordsKept, \A s \in Students : record'[s].status # "none",
             AcceptedHasRecord', status' = "completed", End(r),
             UNCHANGED <<ver, challenge, token>>
      PROVE  SafeInv'
  <2>1. Advances
    BY <1>3 DEF Advances, HasRecord
  <2>2. (NothingYet /\ TokensNamed /\ CompletedHasRoster /\ OneLiveChallenge)'
    BY <1>3 DEF SafeInv, NothingYet, TokensNamed, CompletedHasRoster,
       OneLiveChallenge, HasRecord
  <2>. QED
    BY <1>3, <2>1, <2>2, WriteSafe
<1>4. CASE FinalizeCommit(r)
  <2>1. req[r].missing = Missing /\ record' = Filled(Missing)
    BY <1>4, CollectedIsMissing DEF FinalizeCommit, In
  <2>2. RecordsKept /\ \A s \in Missing : HasRecord(s)'
    BY <1>0, <2>1, FilledKeeps DEF Missing
  <2>3. \A s \in Students : record'[s].status # "none"
    BY <2>2 DEF RecordsKept, Missing, HasRecord
  <2>4. AcceptedHasRecord'
    BY <1>4, <2>2, AcceptedKept DEF FinalizeCommit
  <2>. QED
    BY <1>3, <1>4, <2>2, <2>3, <2>4 DEF FinalizeCommit
<1>5. ASSUME NEW st \in ManualStatuses, PastCommit(r, st) PROVE SafeInv'
  <2>. DEFINE s == req[r].student
  <2>1. /\ req[r].missing = Missing /\ req[r] \in PastReads
        /\ In(r, Resolving)
    BY <1>0, <1>5, CollectedIsMissing, HandlerTypes
       DEF PastCommit, In, Resolving
  <2>2. s \in Students /\ st # "none"
    BY <2>1, Bounds DEF PastReads, Statuses
  <2>3. record' = [Filled(Missing) EXCEPT ![s] =
                     [status |-> st, method |-> "manual"]]
    BY <1>5, <2>1 DEF PastCommit
  <2>4. \A u \in Students : record'[u].status # "none"
    BY <2>2, <2>3 DEF Filled, FinalStatus, Missing, HasRecord
  <2>5. RecordsKept
    BY <2>4 DEF RecordsKept, HasRecord
  <2>6. AcceptedHasRecord'
    BY <1>5, <2>1, <2>2, <2>4, <2>5, ResolveAccepted, VerdictTyped
       DEF PastCommit
  <2>. QED
    BY <1>3, <1>5, <2>4, <2>5, <2>6 DEF PastCommit
<1>. QED
  BY <1>1, <1>2, <1>4, <1>5

LEMMA NextSafeInv == SafeInv /\ [Next]_vars => SafeInv'
<1>. SUFFICES ASSUME SafeInv, [Next]_vars PROVE SafeInv'
  OBVIOUS
<1>0. TypeInv'
  BY NextTypeInv DEF SafeInv
<1>1. CASE Call
  BY <1>0, <1>1, CallSafe
<1>2. CASE Time
  BY <1>0, <1>2, TimeSafe
<1>3. ASSUME NEW r \in Requests, Arrival(r) PROVE SafeInv'
  BY <1>0, <1>3, ArrivalSafe
<1>4. ASSUME NEW r \in Requests, Progress(r) PROVE SafeInv'
  BY <1>0, <1>4, RotationSafe, LocationSafe, ConfirmSafe, TeacherSafe,
     ClosingSafe DEF Progress
<1>5. CASE UNCHANGED vars
  <2>1. UNCHANGED <<status, ver, challenge, token, attempt, record, req>>
    BY <1>5 DEF vars, db, sessionVars
  <2>2. Advances /\ (TokensNamed /\ OneLiveChallenge)'
    BY <2>1 DEF Advances, RecordsKept, HasRecord, SafeInv, TokensNamed,
                OneLiveChallenge
  <2>. QED
    BY <1>0, <2>1, <2>2, RegisterKept, WriteSafe
<1>. QED
  BY <1>1, <1>2, <1>3, <1>4, <1>5 DEF Next

LEMMA SafeInvariant == Spec => []SafeInv
BY InitSafeInv, NextSafeInv, PTL DEF Spec

\* Whatever rotations of GET /qr and POST /challenge interleave, the challenge
\* of the current version is the only one of the session not revoked.
THEOREM OneLiveChallengeAlways == Spec => []OneLiveChallenge
<1>1. SafeInv => OneLiveChallenge
  BY DEF SafeInv
<1>. QED
  BY <1>1, SafeInvariant, PTL

\* finalize and manual_session leave no student of the roster without a
\* record, whatever check-ins and reviews run beside them.
THEOREM CompletedHasRosterAlways == Spec => []CompletedHasRoster
<1>1. SafeInv => CompletedHasRoster
  BY DEF SafeInv
<1>. QED
  BY <1>1, SafeInvariant, PTL

\* confirm_check_in, decide_exception and the manual marks never accept or
\* confirm an attempt of a student without a record.
THEOREM AcceptedHasRecordAlways == Spec => []AcceptedHasRecord
<1>1. SafeInv => AcceptedHasRecord
  BY DEF SafeInv
<1>. QED
  BY <1>1, SafeInvariant, PTL

-----------------------------------------------------------------------------
(* What one step does to the register. *)

\* the entries as AttendanceLedger closes them
LEMMA FilledIsClosed == Filled(Missing) = Ledger!Closed
BY DEF Filled, FinalStatus, Missing, HasRecord, Ledger!Closed, Ledger!Blank,
       Ledger!AtClosing

\* Every step of the handlers is a step of AttendanceLedger or none.
LEMMA StepRefines ==
  SafeInv /\ [Next]_vars => [Ledger!Next]_<<status, record>>
<1>. SUFFICES ASSUME SafeInv, [Next]_vars
              PROVE  [Ledger!Next]_<<status, record>>
  OBVIOUS
<1>. USE Bounds
<1>0. TypeOK /\ \A r \in Requests : RowOK(req[r])
  BY DEF SafeInv, TypeInv, HandlersOK
<1>m. ASSUME NEW s \in Students, NEW st \in ManualStatuses \cup {"present"},
             SetRecord(s, st),
             status' = IF status = "none" THEN "active" ELSE status
      PROVE  Ledger!Next
  <2>1. Ledger!Mark(s, st)
    BY <1>m DEF SetRecord, Ledger!Mark, Ledger!ByTeacher
  <2>. QED
    BY <2>1 DEF Ledger!Next
<1>1. CASE Call
  <2>1. CASE StartSession
    BY <2>1 DEF StartSession, Ledger!Next, Ledger!Open
  <2>2. ASSUME NEW s \in Students, NEW st \in ManualStatuses,
               MarkNewSession(s, st)
        PROVE  Ledger!Next
    BY <1>m, <2>2 DEF MarkNewSession, SetRecord
  <2>3. ASSUME NEW s \in Students, NEW st \in ManualStatuses,
               ChangeStatus(s, st)
        PROVE  Ledger!Next
    <3>1. status # "none"
      BY <2>3 DEF ChangeStatus, SafeInv, NothingYet, Missing
    <3>. QED
      BY <1>m, <2>3, <3>1 DEF ChangeStatus, sessionVars
  <2>4. CASE \/ \E s \in Students, c \in Codes : WrongCode(s, c)
             \/ \E t \in Tokens : ConfirmRefused(t)
             \/ DecideCancellation
    BY <2>4 DEF WrongCode, ConfirmRefused, DecideCancellation, sessionVars
  <2>. QED
    BY <1>1, <2>1, <2>2, <2>3, <2>4 DEF Call
<1>2. CASE Time
  BY <1>2 DEF Time, CloseWindow, ExpireChallenge, ExpireToken, DayPasses,
              ForgetMisses, sessionVars
<1>3. ASSUME NEW r \in Requests, Arrival(r) PROVE UNCHANGED <<status, record>>
  BY <1>3 DEF Arrival, QrRead, ScanRead, CodeLock, ConfirmLock, DecideRead,
              MarkRead, FinalizeRead, PastRead, db, sessionVars
<1>4. ASSUME NEW r \in Requests, Progress(r)
      PROVE  [Ledger!Next]_<<status, record>>
  <2>1. CASE ConfirmCommit(r)
    <3>. DEFINE s == req[r].student
                m == token[req[r].token].method
    <3>1. /\ s \in Students /\ ~HasRecord(s) /\ status = "active"
          /\ m \in {"qr", "code"} /\ UNCHANGED status
          /\ record' = [record EXCEPT ![s] =
                          [status |-> "present", method |-> m]]
      BY <2>1, ConfirmFacts
    <3>. HIDE DEF s, m
    <3>2. Ledger!CheckIn(s, m)
      BY <3>1 DEF Ledger!CheckIn, Ledger!Blank, HasRecord
    <3>. QED
      BY <3>1, <3>2 DEF Ledger!Next
  <2>2. CASE DecideInsertCommit(r)
    <3>1. req[r].student \in Students /\ status # "none"
      BY <1>0, <2>2, HandlerTypes DEF DecideInsertCommit, In, RowOK, Decisions
    <3>. QED
      BY <1>m, <2>2, <3>1 DEF DecideInsertCommit, sessionVars
  <2>3. CASE MarkInsertCommit(r)
    <3>1. /\ req[r].student \in Students /\ status # "none"
          /\ req[r].status \in ManualStatuses
      BY <1>0, <2>3, HandlerTypes DEF MarkInsertCommit, In, RowOK, MarkHolds
    <3>. QED
      BY <1>m, <2>3, <3>1 DEF MarkInsertCommit, sessionVars
  <2>4. ASSUME NEW st \in ManualStatuses, MarkCommit(r, st)
        PROVE  Ledger!Next
    <3>1. req[r].student \in Students /\ status # "none"
      BY <1>0, <2>4, HandlerTypes DEF MarkCommit, In, RowOK, MarkReads
    <3>. QED
      BY <1>m, <2>4, <3>1 DEF MarkCommit, sessionVars
  <2>5. CASE FinalizeCommit(r)
    <3>1. /\ req[r].missing = Missing /\ record' = Filled(Missing)
          /\ status' = "completed" /\ status # "none"
      BY <1>0, <2>5, CollectedIsMissing DEF FinalizeCommit, In, RowOK
    <3>2. CASE status = "active"
      <4>1. Ledger!Close
        BY <3>1, <3>2, FilledIsClosed DEF Ledger!Close
      <4>. QED
        BY <4>1 DEF Ledger!Next
    <3>3. CASE status = "completed"
      <4>1. \A s \in Students : s \notin Missing
        BY <3>3 DEF SafeInv, CompletedHasRoster, Missing
      <4>2. record' = record
        BY <1>0, <3>1, <4>1 DEF Filled, TypeOK
      <4>. QED
        BY <3>1, <3>3, <4>2
    <3>. QED
      BY <1>0, <3>1, <3>2, <3>3 DEF TypeOK
  <2>6. ASSUME NEW st \in ManualStatuses, PastCommit(r, st)
        PROVE  Ledger!Next
    <3>. DEFINE s == req[r].student
    <3>1. /\ req[r].missing = Missing /\ req[r].had
          /\ status' = "completed" /\ s \in Students
      BY <1>0, <2>6, CollectedIsMissing, HandlerTypes
         DEF PastCommit, In, PastReads
    <3>2. HasRecord(s) /\ status # "none"
      BY <1>0, <2>6, <3>1
         DEF PastCommit, In, RowOK, SafeInv, NothingYet, Missing
    <3>3. record' = [Filled(Missing) EXCEPT ![s] =
                       [status |-> st, method |-> "manual"]]
      BY <2>6, <3>1 DEF PastCommit
    <3>4. Ledger!CloseAndMark(s, st)
      BY <3>1, <3>2, <3>3, FilledIsClosed
         DEF Ledger!CloseAndMark, Ledger!Blank, Ledger!ByTeacher, HasRecord
    <3>. QED
      BY <3>1, <3>4 DEF Ledger!Next
  <2>7. CASE \/ QrReturn(r) \/ QrLock(r) \/ QrCommit(r)
             \/ LocationFails(r) \/ LocationPasses(r) \/ ConfirmCollides(r)
             \/ DecideCommit(r) \/ DecideInsert(r) \/ InsertCollides(r)
             \/ FinalizeRefused(r) \/ FinalizeCollect(r) \/ FillCollides(r)
             \/ PastFails(r) \/ AbortDeadlock(r)
             \/ \E st \in ManualStatuses : MarkInsert(r, st)
    BY <2>7 DEF QrReturn, QrLock, QrCommit, LocationFails, LocationPasses,
       BeginReady, ConfirmCollides, DecideCommit, DecideInsert, InsertHeld,
       InsertCollides, FinalizeRefused, FinalizeCollect, FillCollides,
       PastFails, AbortDeadlock, MarkInsert, db, sessionVars
  <2>. QED
    BY <1>4, <2>1, <2>2, <2>3, <2>4, <2>5, <2>6, <2>7 DEF Progress
<1>5. CASE UNCHANGED vars
  BY <1>5 DEF vars, db, sessionVars
<1>. QED
  BY <1>1, <1>2, <1>3, <1>4, <1>5 DEF Next

\* Whatever order the handlers of CheckIn act in, the session is a register
\* as AttendanceLedger describes it.
THEOREM Refinement == Spec => ImplementsLedger
<1>1. Init => Ledger!Init
  BY DEF Init, Ledger!Init, NoRecord
<1>. QED
  BY <1>1, StepRefines, SafeInvariant, PTL DEF Spec, ImplementsLedger, Ledger!Spec

\* Only the commit of confirm_check_in writes a check-in, and it finds the
\* session active, although it looked before finalize may have committed.
LEMMA SelfCheckInStep ==
  SafeInv /\ [Next]_vars =>
    \A s \in Students : SelfCheckIn(s) => status = "active"
<1>. SUFFICES ASSUME SafeInv, [Next]_vars, NEW s \in Students, SelfCheckIn(s)
              PROVE  status = "active"
  OBVIOUS
<1>1. [Ledger!Next]_<<status, record>>
  BY StepRefines
<1>2. record \in [Students -> Records]
  BY DEF SafeInv, TypeInv, TypeOK
<1>3. record'[s] # record[s] /\ record'[s].method \in {"qr", "code"}
  BY DEF SelfCheckIn
<1>4. CASE Ledger!Open
  BY <1>3, <1>4 DEF Ledger!Open
<1>5. CASE Ledger!Close
  BY <1>5 DEF Ledger!Close
<1>6. ASSUME NEW u \in Students, NEW m, Ledger!CheckIn(u, m)
      PROVE  status = "active"
  BY <1>6 DEF Ledger!CheckIn
<1>7. ASSUME NEW u \in Students, NEW st, Ledger!Mark(u, st) PROVE FALSE
  BY <1>2, <1>3, <1>7 DEF Ledger!Mark, Ledger!ByTeacher
<1>8. ASSUME NEW u \in Students, NEW st, Ledger!CloseAndMark(u, st) PROVE FALSE
  BY <1>2, <1>3, <1>8 DEF Ledger!CloseAndMark, Ledger!ByTeacher, Ledger!Closed,
                          Ledger!AtClosing
<1>. QED
  BY <1>1, <1>3, <1>4, <1>5, <1>6, <1>7, <1>8 DEF Ledger!Next

\* No student checks himself in once the session is completed.
THEOREM CheckInOnlyWhileActiveAlways == Spec => CheckInOnlyWhileActive
<1>1. SafeInv /\ [Next]_vars =>
        [\A s \in Students : SelfCheckIn(s) => status = "active"]_vars
  BY SelfCheckInStep
<1>. QED
  BY <1>1, SafeInvariant, PTL DEF Spec, CheckInOnlyWhileActive
=============================================================================
