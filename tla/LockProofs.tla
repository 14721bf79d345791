------------------------------ MODULE LockProofs ------------------------------
(* What the row locks of CheckIn guarantee: a token that confirm_check_in    *)
(* has found good is still good when its check-in commits.                   *)
EXTENDS CheckInProofs

-----------------------------------------------------------------------------
Holding == {"qr_held", "code_held", "confirm_held"}

\* FOR UPDATE on the session row, and on a token, has one holder
OneHolder ==
  \A r, q \in Requests :
    In(r, {"qr_held", "code_held"}) /\ In(q, {"qr_held", "code_held"}) => r = q

OneSpender ==
  \A r, q \in Requests :
    In(r, {"confirm_held"}) /\ In(q, {"confirm_held"})
      /\ req[r].token = req[q].token => r = q

\* no token before the session, and none of a challenge that is not there
TokensIssued ==
  \A t \in OpenTokens : status # "none" /\ token[t].ver \in Versions

\* a rotation leaves no token of a code open while the session is active
CodeCurrent ==
  \A t \in OpenTokens :
    token[t].method = "code" => token[t].ver = ver \/ status = "completed"

HeldCurrent == \A r \in Requests : In(r, {"code_held"}) => req[r].ver = ver

\* no token is issued between the rotation's query and its commit
RotationSeesAll ==
  \A r \in Requests : In(r, {"qr_held"}) =>
    OpenTokens \subseteq req[r].seen \/ status = "completed"

\* a token that passed the checks of confirm_check_in stays good under its
\* lock, or the session is completed and the check-in will collide
SpentIsLive ==
  \A r \in Requests : In(r, {"confirm_held"}) =>
    /\ req[r].token \in OpenTokens
    /\ token[req[r].token].ver = ver \/ status = "completed"

LockInv == /\ OneHolder /\ OneSpender /\ TokensIssued /\ CodeCurrent
           /\ HeldCurrent /\ RotationSeesAll /\ SpentIsLive

LEMMA InitLockInv == Init => LockInv
BY DEF Init, LockInv, OneHolder, OneSpender, TokensIssued, CodeCurrent,
       HeldCurrent, RotationSeesAll, SpentIsLive, OpenTokens, NoToken, In, Idle

\* the session does not go back
Onward == /\ status = "completed" => status' = "completed"
          /\ status # "none" => status' # "none"

\* the tokens that are open were open before, and are the same
Shrinks == \A t \in OpenTokens' : /\ t \in OpenTokens
                                  /\ token'[t].ver = token[t].ver
                                  /\ token'[t].method = token[t].method

\* Steps that rotate nothing, issue nothing and take no lock.
LEMMA KeepLocks ==
  ASSUME LockInv, TypeOK, Onward, Shrinks, ver' = ver,
         \A q \in Requests : In(q, Holding)' =>
           In(q, Holding) /\ req'[q] = req[q],
         \A q \in Requests : In(q, {"confirm_held"})' =>
           req[q].token \in OpenTokens'
  PROVE  LockInv'
<1>1. (OneHolder /\ OneSpender /\ HeldCurrent)'
  BY DEF LockInv, OneHolder, OneSpender, HeldCurrent, In, Holding
<1>2. (TokensIssued /\ CodeCurrent)'
  BY DEF LockInv, TokensIssued, CodeCurrent, Onward, Shrinks, Versions
<1>3. RotationSeesAll'
  BY DEF LockInv, RotationSeesAll, Onward, Shrinks, In, Holding
<1>4. SpentIsLive'
  BY DEF LockInv, SpentIsLive, Onward, Shrinks, In, Holding
<1>. QED
  BY <1>1, <1>2, <1>3, <1>4 DEF LockInv

\* A handler moves on, the tokens as they are.
LEMMA MoveLocks ==
  ASSUME LockInv, TypeOK, Onward, UNCHANGED <<ver, token>>,
         \/ UNCHANGED req
         \/ \E r \in Requests :
              /\ req' = [req EXCEPT ![r] = req'[r]]
              /\ req'[r].op \notin Holding
  PROVE  LockInv'
<1>1. OpenTokens' = OpenTokens /\ Shrinks
  BY DEF OpenTokens, Shrinks
<1>2. \A q \in Requests : In(q, Holding)' => In(q, Holding) /\ req'[q] = req[q]
  BY DEF In, TypeOK
<1>3. \A q \in Requests : In(q, {"confirm_held"})' => In(q, Holding)'
  BY DEF In, Holding
<1>4. \A q \in Requests : In(q, {"confirm_held"})' =>
        req[q].token \in OpenTokens'
  BY <1>1, <1>2, <1>3 DEF LockInv, SpentIsLive, In
<1>. QED
  BY <1>1, <1>2, <1>4, KeepLocks

LEMMA TimeLocks == SafeInv /\ LockInv /\ Time => LockInv'
<1>. SUFFICES ASSUME SafeInv, LockInv, Time PROVE LockInv'
  OBVIOUS
<1>0. TypeOK
  BY DEF SafeInv, TypeInv
<1>1. UNCHANGED <<status, ver, req>>
  BY DEF Time, CloseWindow, ExpireChallenge, ExpireToken, DayPasses,
         ForgetMisses, sessionVars
<1>2. \A t \in Tokens : /\ token'[t].student = token[t].student
                        /\ token'[t].ver = token[t].ver
                        /\ token'[t].method = token[t].method
                        /\ token'[t].consumed = token[t].consumed
                        /\ token'[t].invalidated = token[t].invalidated
  BY <1>0 DEF Time, CloseWindow, ExpireChallenge, ExpireToken, DayPasses,
         ForgetMisses, TypeOK, TokenRows
<1>3. OpenTokens' = OpenTokens
  BY <1>2 DEF OpenTokens
<1>4. Onward /\ Shrinks
  BY <1>1, <1>2, <1>3 DEF Onward, Shrinks, OpenTokens
<1>5. \A q \in Requests : In(q, {"confirm_held"})' =>
        req[q].token \in OpenTokens'
  BY <1>1, <1>3 DEF LockInv, SpentIsLive, In
<1>. QED
  BY <1>0, <1>1, <1>4, <1>5, KeepLocks DEF In

LEMMA CallLocks == SafeInv /\ LockInv /\ Call => LockInv'
<1>. SUFFICES ASSUME SafeInv, LockInv, Call PROVE LockInv'
  OBVIOUS
<1>0. TypeOK
  BY DEF SafeInv, TypeInv
<1>1. CASE StartSession
  <2>1. OpenTokens' = {}
    BY <1>1 DEF StartSession, LockInv, TokensIssued, OpenTokens
  <2>2. \A r \in Requests : ~In(r, Holding)'
    BY <1>1 DEF StartSession, SafeInv, HandlersOK, RowOK, In, Holding
  <2>. QED
    BY <2>1, <2>2 DEF LockInv, OneHolder, OneSpender, TokensIssued,
       CodeCurrent, HeldCurrent, RotationSeesAll, SpentIsLive, In, Holding
<1>2. ASSUME NEW t \in Tokens, ConfirmRefused(t) PROVE LockInv'
  <2>1. /\ UNCHANGED <<status, ver, req>> /\ ~TokenLocked(t)
        /\ \A u \in Tokens \ {t} : token'[u] = token[u]
    BY <1>0, <1>2 DEF ConfirmRefused, Confirmable, sessionVars, TypeOK
  <2>2. t \notin OpenTokens'
    BY <1>0, <1>2 DEF ConfirmRefused, OpenTokens, TypeOK, TokenRows
  <2>3. \A u \in OpenTokens : u # t => u \in OpenTokens'
    BY <2>1 DEF OpenTokens
  <2>4. Onward /\ Shrinks
    BY <2>1, <2>2 DEF Onward, Shrinks, OpenTokens
  <2>5. \A q \in Requests : In(q, {"confirm_held"})' =>
          req[q].token \in OpenTokens'
    BY <2>1, <2>3 DEF LockInv, SpentIsLive, TokenLocked, In
  <2>. QED
    BY <1>0, <2>1, <2>4, <2>5, KeepLocks DEF In
<1>3. ASSUME NEW s \in Students, NEW st \in ManualStatuses,
             MarkNewSession(s, st) \/ ChangeStatus(s, st)
      PROVE  LockInv'
  BY <1>0, <1>3, MoveLocks DEF MarkNewSession, ChangeStatus, sessionVars, Onward
<1>4. ASSUME NEW s \in Students, NEW c \in Codes, WrongCode(s, c)
      PROVE  LockInv'
  BY <1>0, <1>4, MoveLocks DEF WrongCode, sessionVars, Onward
<1>5. CASE DecideCancellation
  BY <1>0, <1>5, MoveLocks DEF DecideCancellation, Onward
<1>. QED
  BY <1>1, <1>2, <1>3, <1>4, <1>5 DEF Call

LEMMA ArrivalLocks ==
  ASSUME SafeInv, LockInv, NEW r \in Requests, Arrival(r) PROVE LockInv'
<1>. USE DEF Begin
<1>0. TypeOK
  BY DEF SafeInv, TypeInv
<1>1. UNCHANGED db /\ Onward
  BY DEF Arrival, QrRead, ScanRead, CodeLock, ConfirmLock, DecideRead, MarkRead,
         FinalizeRead, PastRead, db, sessionVars, Onward
<1>2. UNCHANGED <<status, ver, token>> /\ OpenTokens' = OpenTokens
  BY <1>1 DEF db, sessionVars, OpenTokens
<1>3. ASSUME NEW s \in Students, NEW c \in Codes, CodeLock(r, s, c)
      PROVE  LockInv'
  <2>1. /\ req' = [req EXCEPT ![r] = req'[r]]
        /\ req'[r].op = "code_held" /\ req'[r].ver = ver
        /\ ~SessionLocked
    BY <1>0, <1>3 DEF CodeLock, SessionFree, TypeOK
  <2>2. (OneHolder /\ HeldCurrent)'
    BY <1>0, <1>2, <2>1 DEF LockInv, OneHolder, HeldCurrent, SessionLocked, In,
       TypeOK
  <2>3. (OneSpender /\ RotationSeesAll /\ SpentIsLive)'
    BY <1>0, <1>2, <2>1 DEF LockInv, OneSpender, RotationSeesAll, SpentIsLive,
       In, TypeOK
  <2>4. (TokensIssued /\ CodeCurrent)'
    BY <1>2 DEF LockInv, TokensIssued, CodeCurrent
  <2>. QED
    BY <2>2, <2>3, <2>4 DEF LockInv
<1>4. ASSUME NEW t \in Tokens, ConfirmLock(r, t) PROVE LockInv'
  <2>1. /\ req' = [req EXCEPT ![r] = req'[r]]
        /\ req'[r].op = "confirm_held" /\ req'[r].token = t
        /\ Confirmable(t) /\ TokenValid(t)
    BY <1>0, <1>4 DEF ConfirmLock, TypeOK
  <2>2. t \in OpenTokens
    BY <2>1 DEF Confirmable, TokenValid, OpenTokens
  <2>3. token[t].ver = ver \/ status = "completed"
    BY <2>1, <2>2 DEF TokenValid, LockInv, CodeCurrent
  <2>4. (OneHolder /\ HeldCurrent /\ RotationSeesAll)'
    BY <1>0, <1>2, <2>1 DEF LockInv, OneHolder, HeldCurrent, RotationSeesAll,
       In, TypeOK
  <2>5. OneSpender'
    BY <1>0, <2>1 DEF LockInv, OneSpender, Confirmable, TokenLocked, In, TypeOK
  <2>6. SpentIsLive'
    BY <1>0, <1>2, <2>1, <2>2, <2>3 DEF LockInv, SpentIsLive, In, TypeOK
  <2>7. (TokensIssued /\ CodeCurrent)'
    BY <1>2 DEF LockInv, TokensIssued, CodeCurrent
  <2>. QED
    BY <2>4, <2>5, <2>6, <2>7 DEF LockInv
<1>5. ASSUME req' = [req EXCEPT ![r] = req'[r]], req'[r].op \notin Holding
      PROVE  LockInv'
  BY <1>0, <1>1, <1>2, <1>5, MoveLocks
<1>6. ASSUME NEW force \in BOOLEAN, QrRead(r, force) PROVE LockInv'
  BY <1>0, <1>5, <1>6 DEF QrRead, Holding, TypeOK
<1>7. ASSUME NEW s \in Students, ScanRead(r, s) \/ MarkRead(r, s) \/ PastRead(r, s)
      PROVE  LockInv'
  BY <1>0, <1>5, <1>7 DEF ScanRead, MarkRead, PastRead, Holding, TypeOK
<1>8. ASSUME NEW a \in AttemptIds, DecideRead(r, a) PROVE LockInv'
  BY <1>0, <1>5, <1>8 DEF DecideRead, Holding, TypeOK
<1>9. CASE FinalizeRead(r)
  BY <1>0, <1>5, <1>9 DEF FinalizeRead, Holding, TypeOK
<1>. QED
  BY <1>3, <1>4, <1>6, <1>7, <1>8, <1>9 DEF Arrival

\* The new challenge is flushed: every open token is seen, for none of a code
\* has the new one.
LEMMA LockedRotation ==
  ASSUME SafeInv, LockInv, NEW r \in Requests, QrLock(r) PROVE LockInv'
<1>0. TypeOK /\ RowOK(req[r])
  BY DEF SafeInv, TypeInv, HandlersOK
<1>1. UNCHANGED <<status, ver, token>> /\ OpenTokens' = OpenTokens
  BY DEF QrLock, db, sessionVars, OpenTokens
<1>2. status # "none" /\ ~SessionLocked
  BY <1>0 DEF QrLock, RowOK, In, SessionFree
<1>3. PICK c \in Codes :
        /\ ver > 0 /\ status = "active" => c # challenge[ver].code
        /\ req' = [req EXCEPT ![r] =
             [op |-> "qr_held", ver |-> ver + 1, code |-> c,
              seen |-> {t \in OpenTokens :
                          ~ /\ token[t].method = "code"
                            /\ challenge[token[t].ver].code = c}]]
  BY DEF QrLock, Go
<1>4. /\ req' = [req EXCEPT ![r] = req'[r]] /\ req'[r].op = "qr_held"
      /\ req'[r].seen = {t \in OpenTokens :
                           ~ /\ token[t].method = "code"
                             /\ challenge[token[t].ver].code = c}
  BY <1>0, <1>3 DEF TypeOK
<1>5. OpenTokens \subseteq req'[r].seen \/ status = "completed"
  <2>. SUFFICES ASSUME status = "active", NEW t \in OpenTokens
                PROVE  t \in req'[r].seen
    BY <1>0, <1>2 DEF TypeOK
  <2>1. CASE token[t].method = "code"
    <3>1. token[t].ver = ver /\ ver \in Versions
      BY <2>1 DEF LockInv, CodeCurrent, TokensIssued
    <3>2. challenge[token[t].ver].code # c
      BY <1>3, <3>1 DEF Versions
    <3>. QED
      BY <1>4, <3>2
  <2>2. CASE token[t].method # "code"
    BY <1>4, <2>2
  <2>. QED
    BY <2>1, <2>2
<1>6. (OneHolder /\ HeldCurrent)'
  BY <1>0, <1>1, <1>2, <1>4 DEF LockInv, OneHolder, HeldCurrent, SessionLocked,
     In, TypeOK
<1>7. RotationSeesAll'
  BY <1>0, <1>1, <1>4, <1>5 DEF LockInv, RotationSeesAll, In, TypeOK
<1>8. (OneSpender /\ SpentIsLive)'
  BY <1>0, <1>1, <1>4 DEF LockInv, OneSpender, SpentIsLive, In, TypeOK
<1>9. (TokensIssued /\ CodeCurrent)'
  BY <1>1 DEF LockInv, TokensIssued, CodeCurrent
<1>. QED
  BY <1>6, <1>7, <1>8, <1>9 DEF LockInv

\* a token that is invalidated is not open
LEMMA InvalidatedClosed ==
  ASSUME TypeOK, NEW ts
  PROVE  /\ \A t \in Tokens : t \in ts => Invalidate(ts)[t].invalidated
         /\ \A t \in Tokens : t \notin ts => Invalidate(ts)[t] = token[t]
         /\ \A t \in Tokens :
              /\ Invalidate(ts)[t].student = token[t].student
              /\ Invalidate(ts)[t].ver = token[t].ver
              /\ Invalidate(ts)[t].method = token[t].method
              /\ Invalidate(ts)[t].consumed = token[t].consumed
              /\ token[t].invalidated => Invalidate(ts)[t].invalidated
BY DEF Invalidate, TypeOK, TokenRows

\* The rotation commits: it withdraws every open token, waiting for those of
\* a confirmation, or the session is completed.
LEMMA CommittedRotation ==
  ASSUME SafeInv, LockInv, NEW r \in Requests, QrCommit(r) PROVE LockInv'
<1>. DEFINE seen == req[r].seen
<1>0. TypeOK
  BY DEF SafeInv, TypeInv
<1>1. /\ In(r, {"qr_held"}) /\ token' = Invalidate(seen)
      /\ \A t \in seen : ~TokenLocked(t)
      /\ status' = status /\ req' = [req EXCEPT ![r] = Idle]
  BY DEF QrCommit, sessionVars, End
<1>2. /\ Shrinks /\ OpenTokens' = OpenTokens \ seen
  BY <1>0, <1>1, InvalidatedClosed DEF Shrinks, OpenTokens
<1>3. \A q \in Requests : ~In(q, {"qr_held", "code_held"})'
  BY <1>0, <1>1 DEF LockInv, OneHolder, In, Idle, TypeOK
<1>4. \A q \in Requests : In(q, {"confirm_held"})' =>
        /\ In(q, {"confirm_held"}) /\ req'[q] = req[q]
        /\ req[q].token \notin seen
  BY <1>0, <1>1 DEF In, Idle, TokenLocked, TypeOK
<1>5. (OneHolder /\ HeldCurrent /\ RotationSeesAll)'
  BY <1>3 DEF OneHolder, HeldCurrent, RotationSeesAll, In
<1>6. OneSpender'
  BY <1>4 DEF LockInv, OneSpender
<1>7. TokensIssued'
  BY <1>1, <1>2 DEF LockInv, TokensIssued, Shrinks, Versions
<1>8. OpenTokens \subseteq seen \/ status = "completed"
  BY <1>1 DEF LockInv, RotationSeesAll
<1>9. (CodeCurrent /\ SpentIsLive)'
  BY <1>1, <1>2, <1>4, <1>8 DEF LockInv, CodeCurrent, SpentIsLive, Shrinks
<1>. QED
  BY <1>5, <1>6, <1>7, <1>9 DEF LockInv

\* a check-in of which the location passes issues a token, and no rotation is
\* between its query and its commit
LEMMA LocationLocks ==
  ASSUME SafeInv, LockInv, NEW r \in Requests, LocationPasses(r) PROVE LockInv'
<1>. DEFINE seen == req[r].seen
<1>0. TypeOK /\ RowOK(req[r]) /\ req[r] \in Begins
  BY HandlerTypes DEF SafeInv, TypeInv, HandlersOK, LocationPasses, BeginReady,
     In
<1>1. /\ UNCHANGED <<status, ver>> /\ req' = [req EXCEPT ![r] = Idle]
      /\ \A u \in seen : ~TokenLocked(u)
      /\ (In(r, {"scan_read"}) /\ ~SessionLocked) \/ In(r, {"code_held"})
  BY DEF LocationPasses, BeginReady, sessionVars, End
<1>2. PICK t \in Tokens :
        /\ token[t] = NoToken
        /\ \A u \in Tokens \ {t} : token'[u] = Invalidate(seen)[u]
        /\ token'[t].ver = req[r].ver
        /\ In(r, {"scan_read"}) => token'[t].method = "qr"
  <2>. DEFINE m == IF req[r].op = "code_held" THEN "code" ELSE "qr"
              late == IF m = "qr" THEN challenge[req[r].ver].expired
                                  ELSE ~window
              row == [student |-> req[r].student, ver |-> req[r].ver,
                      method |-> m, consumed |-> FALSE, invalidated |-> FALSE,
                      expired |-> late]
  <2>1. PICK t \in Tokens :
          /\ token[t] = NoToken
          /\ token' = [Invalidate(seen) EXCEPT ![t] = row]
    BY DEF LocationPasses
  <2>2. row.ver = req[r].ver /\ row.method = m
    OBVIOUS
  <2>3. In(r, {"scan_read"}) => m = "qr"
    BY DEF In
  <2>. HIDE DEF row, m, late
  <2>4. token'[t] = row /\ \A u \in Tokens \ {t} : token'[u] = Invalidate(seen)[u]
    BY <2>1 DEF Invalidate
  <2>. QED
    BY <2>1, <2>2, <2>3, <2>4
<1>3. /\ \A u \in OpenTokens' \ {t} : /\ u \in OpenTokens \ seen
                                      /\ token'[u].ver = token[u].ver
                                      /\ token'[u].method = token[u].method
      /\ \A u \in OpenTokens \ seen : /\ u \in OpenTokens'
                                      /\ token'[u].ver = token[u].ver
      /\ t \notin OpenTokens
  BY <1>0, <1>2, InvalidatedClosed DEF OpenTokens, NoToken
<1>4. \A q \in Requests : ~In(q, {"qr_held"})
  BY <1>1 DEF LockInv, OneHolder, SessionLocked, In
<1>5. \A q \in Requests : In(q, Holding)' => In(q, Holding) /\ req'[q] = req[q]
  BY <1>0, <1>1 DEF In, Idle, Holding, TypeOK
<1>6. \A q \in Requests : In(q, {"confirm_held"})' =>
        In(q, {"confirm_held"}) /\ req[q].token \in OpenTokens \ seen
  BY <1>1, <1>5 DEF LockInv, SpentIsLive, TokenLocked, In, Holding
<1>7. (OneHolder /\ OneSpender /\ HeldCurrent)'
  BY <1>1, <1>5 DEF LockInv, OneHolder, OneSpender, HeldCurrent, In, Holding
<1>8. RotationSeesAll'
  BY <1>4, <1>5 DEF RotationSeesAll, In, Holding
<1>9. SpentIsLive'
  BY <1>1, <1>3, <1>5, <1>6 DEF LockInv, SpentIsLive, In, Holding
<1>10. TokensIssued'
  BY <1>0, <1>1, <1>2, <1>3 DEF LockInv, TokensIssued, RowOK, In, Begins,
     Versions
<1>11. CodeCurrent'
  BY <1>1, <1>2, <1>3 DEF LockInv, CodeCurrent, HeldCurrent, In
<1>. QED
  BY <1>7, <1>8, <1>9, <1>10, <1>11 DEF LockInv

LEMMA SpendLocks ==
  ASSUME SafeInv, LockInv, NEW r \in Requests, ConfirmCommit(r) PROVE LockInv'
<1>0. TypeOK /\ In(r, {"confirm_held"})
  BY DEF SafeInv, TypeInv, ConfirmCommit
<1>1. /\ UNCHANGED <<status, ver>> /\ req' = [req EXCEPT ![r] = Idle]
      /\ token' = [token EXCEPT ![req[r].token].consumed = TRUE]
  BY DEF ConfirmCommit, ConfirmWrite, sessionVars, End
<1>2. \A u \in Tokens : /\ u # req[r].token => token'[u] = token[u]
                        /\ token'[u].student = token[u].student
                        /\ token'[u].ver = token[u].ver
                        /\ token'[u].method = token[u].method
                        /\ token[u].consumed => token'[u].consumed
                        /\ token'[u].invalidated = token[u].invalidated
  BY <1>0, <1>1 DEF TypeOK, TokenRows
<1>3. Onward /\ Shrinks /\ OpenTokens \ {req[r].token} \subseteq OpenTokens'
  BY <1>1, <1>2 DEF Onward, Shrinks, OpenTokens
<1>4. \A q \in Requests : In(q, Holding)' => In(q, Holding) /\ req'[q] = req[q]
  BY <1>0, <1>1 DEF In, Idle, Holding, TypeOK
<1>5. \A q \in Requests : In(q, {"confirm_held"})' =>
        /\ In(q, {"confirm_held"}) /\ q # r
        /\ req[q].token \in OpenTokens
  BY <1>0, <1>1, <1>4 DEF LockInv, SpentIsLive, In, Idle, Holding, TypeOK
<1>6. \A q \in Requests : In(q, {"confirm_held"})' =>
        req[q].token \in OpenTokens'
  BY <1>0, <1>3, <1>5 DEF LockInv, OneSpender
<1>. QED
  BY <1>0, <1>1, <1>3, <1>4, <1>6, KeepLocks

LEMMA ProgressLocks ==
  ASSUME SafeInv, LockInv, NEW r \in Requests, Progress(r) PROVE LockInv'
<1>0. TypeOK
  BY DEF SafeInv, TypeInv
<1>1. ASSUME UNCHANGED <<ver, token>>, Onward,
             req' = [req EXCEPT ![r] = req'[r]], req'[r].op \notin Holding
      PROVE  LockInv'
  BY <1>0, <1>1, MoveLocks
<1>2. ASSUME UNCHANGED <<ver, token>>, Onward, End(r) PROVE LockInv'
  BY <1>0, <1>1, <1>2 DEF End, Idle, Holding, TypeOK
<1>3. CASE \/ QrReturn(r) \/ LocationFails(r) \/ ConfirmCollides(r)
           \/ DecideCommit(r) \/ DecideInsertCommit(r) \/ InsertCollides(r)
           \/ MarkInsertCommit(r) \/ FinalizeRefused(r) \/ FillCollides(r)
           \/ PastFails(r) \/ AbortDeadlock(r)
  BY <1>2, <1>3 DEF QrReturn, LocationFails, BeginReady, ConfirmCollides,
     DecideCommit, DecideInsertCommit, InsertCollides, MarkInsertCommit,
     FinalizeRefused, FillCollides, PastFails, AbortDeadlock, db, sessionVars,
     Onward
<1>4. CASE FinalizeCommit(r)
  BY <1>2, <1>4 DEF FinalizeCommit, Onward
<1>5. ASSUME NEW st \in ManualStatuses, MarkCommit(r, st) \/ PastCommit(r, st)
      PROVE  LockInv'
  BY <1>2, <1>5 DEF MarkCommit, PastCommit, sessionVars, Onward
<1>6. CASE DecideInsert(r)
  <2>1. req[r] \in Decisions
    BY <1>0, <1>6, HandlerTypes DEF DecideInsert, In
  <2>2. /\ req' = [req EXCEPT ![r] = req'[r]] /\ req'[r].op = "decide_held"
    BY <1>0, <1>6, <2>1 DEF DecideInsert, InsertHeld, Go, TypeOK, Decisions
  <2>. QED
    BY <1>1, <1>6, <2>2 DEF DecideInsert, InsertHeld, db, sessionVars, Onward,
       Holding
<1>7. ASSUME NEW st \in ManualStatuses, MarkInsert(r, st) PROVE LockInv'
  <2>1. req' = [req EXCEPT ![r] = req'[r]] /\ req'[r].op = "mark_held"
    BY <1>0, <1>7 DEF MarkInsert, InsertHeld, Go, TypeOK
  <2>. QED
    BY <1>1, <1>7, <2>1 DEF MarkInsert, InsertHeld, db, sessionVars, Onward,
       Holding
<1>8. CASE FinalizeCollect(r)
  <2>1. req' = [req EXCEPT ![r] = req'[r]] /\ req'[r].op = "final_collected"
    BY <1>0, <1>8 DEF FinalizeCollect, Go, TypeOK
  <2>. QED
    BY <1>1, <1>8, <2>1 DEF FinalizeCollect, db, sessionVars, Onward, Holding
<1>. QED
  BY <1>3, <1>4, <1>5, <1>6, <1>7, <1>8, LockedRotation, CommittedRotation,
     LocationLocks, SpendLocks DEF Progress

LEMMA NextLockInv == SafeInv /\ LockInv /\ [Next]_vars => LockInv'
<1>. SUFFICES ASSUME SafeInv, LockInv, [Next]_vars PROVE LockInv'
  OBVIOUS
<1>1. CASE UNCHANGED vars
  BY <1>1, MoveLocks DEF SafeInv, TypeInv, vars, db, sessionVars, Onward
<1>. QED
  BY <1>1, CallLocks, TimeLocks, ArrivalLocks, ProgressLocks DEF Next

LEMMA LockInvariant == Spec => [](SafeInv /\ LockInv)
<1>1. SafeInv /\ LockInv /\ [Next]_vars => (SafeInv /\ LockInv)'
  BY NextSafeInv, NextLockInv
<1>. QED
  BY <1>1, InitSafeInv, InitLockInv, PTL DEF Spec

-----------------------------------------------------------------------------
(* The check-in. *)

\* Everybody else writes records of method manual or finalization.
LEMMA OnlyConfirmChecksIn ==
  ASSUME TypeOK, NEW s \in Students, SelfCheckIn(s), [Next]_vars
  PROVE  \E r \in Requests : ConfirmCommit(r)
<1>1. record'[s] # record[s] /\ record'[s].method \in {"qr", "code"}
  BY DEF SelfCheckIn
<1>2. ASSUME NEW u, NEW st, SetRecord(u, st) PROVE FALSE
  BY <1>1, <1>2 DEF SetRecord, TypeOK
<1>3. ASSUME NEW ss, record' = Filled(ss) PROVE FALSE
  BY <1>1, <1>3 DEF Filled
<1>4. ~UNCHANGED record
  BY <1>1
<1>5. ~UNCHANGED vars /\ ~Time
  BY <1>4 DEF vars, db, Time, CloseWindow, ExpireChallenge, ExpireToken,
     DayPasses, ForgetMisses
<1>6. ~Call
  BY <1>2, <1>4 DEF Call, StartSession, MarkNewSession, SetRecord,
     ChangeStatus, WrongCode, ConfirmRefused, DecideCancellation
<1>7. ASSUME NEW r \in Requests PROVE ~Arrival(r)
  BY <1>4 DEF Arrival, QrRead, ScanRead, CodeLock, ConfirmLock, DecideRead,
     MarkRead, FinalizeRead, PastRead, db
<1>8. ASSUME NEW r \in Requests, Progress(r) PROVE ConfirmCommit(r)
  <2>1. ASSUME NEW st, PastCommit(r, st) PROVE FALSE
    BY <1>1, <2>1 DEF PastCommit, Filled, TypeOK
  <2>2. ASSUME NEW st, MarkCommit(r, st) \/ MarkInsert(r, st) PROVE FALSE
    BY <1>2, <1>4, <2>2 DEF MarkCommit, MarkInsert, InsertHeld, db
  <2>3. ~ \/ DecideInsertCommit(r) \/ MarkInsertCommit(r) \/ FinalizeCommit(r)
    BY <1>2, <1>3 DEF DecideInsertCommit, MarkInsertCommit, FinalizeCommit
  <2>4. ~ \/ QrReturn(r) \/ QrLock(r) \/ QrCommit(r) \/ LocationFails(r)
          \/ LocationPasses(r) \/ ConfirmCollides(r) \/ DecideCommit(r)
          \/ DecideInsert(r) \/ InsertCollides(r) \/ FinalizeRefused(r)
          \/ FinalizeCollect(r) \/ FillCollides(r) \/ PastFails(r)
          \/ AbortDeadlock(r)
    BY <1>4 DEF QrReturn, QrLock, QrCommit, LocationFails, LocationPasses,
       BeginReady, ConfirmCollides, DecideCommit, DecideInsert, InsertHeld,
       InsertCollides, FinalizeRefused, FinalizeCollect, FillCollides,
       PastFails, AbortDeadlock, db
  <2>. QED
    BY <1>8, <2>1, <2>2, <2>3, <2>4 DEF Progress
<1>. QED
  BY <1>5, <1>6, <1>7, <1>8 DEF Next

\* The commit of a check-in finds its token as good as when it was checked.
LEMMA LiveStep ==
  SafeInv /\ LockInv /\ [Next]_vars =>
    \A s \in Students : SelfCheckIn(s) =>
      \E t \in Tokens :
        /\ token[t].student = s
        /\ ~token[t].consumed /\ token'[t].consumed
        /\ ~token[t].invalidated
        /\ ~challenge[token[t].ver].revoked
<1>. SUFFICES ASSUME SafeInv, LockInv, [Next]_vars,
                     NEW s \in Students, SelfCheckIn(s)
              PROVE  \E t \in Tokens :
                       /\ token[t].student = s
                       /\ ~token[t].consumed /\ token'[t].consumed
                       /\ ~token[t].invalidated
                       /\ ~challenge[token[t].ver].revoked
  OBVIOUS
<1>0. TypeOK
  BY DEF SafeInv, TypeInv
<1>1. PICK r \in Requests : ConfirmCommit(r)
  BY <1>0, OnlyConfirmChecksIn
<1>. DEFINE t == req[r].token
<1>2. t \in Tokens /\ status = "active" /\ req[r].student \in Students
  BY <1>1, ConfirmFacts
<1>3. req[r].student = s
  <2>1. record' = [record EXCEPT ![req[r].student] =
                     [status |-> "present", method |-> token[t].method]]
    BY <1>1, ConfirmFacts
  <2>. QED
    BY <1>0, <2>1 DEF SelfCheckIn, TypeOK
<1>4. token[t].student = s
  BY <1>1, <1>2, <1>3, <1>0 DEF SafeInv, HandlersOK, RowOK, ConfirmCommit, In
<1>5. t \in OpenTokens /\ token[t].ver = ver
  BY <1>1, <1>2 DEF LockInv, SpentIsLive, ConfirmCommit
<1>6. ~challenge[token[t].ver].revoked
  BY <1>0, <1>5 DEF LockInv, TokensIssued, SafeInv, OneLiveChallenge, Versions,
     TypeOK, Challenges
<1>7. token'[t].consumed
  BY <1>0, <1>1, <1>2 DEF ConfirmCommit, ConfirmWrite, TypeOK, TokenRows
<1>. QED
  BY <1>2, <1>4, <1>5, <1>6, <1>7 DEF OpenTokens

\* confirm_check_in records a check-in only with a token that no rotation,
\* later scan or earlier check-in has withdrawn, of a live challenge, at the
\* step that commits it, however many handlers run beside it.
THEOREM CheckInSpendsLiveTokenAlways == Spec => CheckInSpendsLiveToken
<1>1. SafeInv /\ LockInv /\ [Next]_vars =>
        [\A s \in Students : SelfCheckIn(s) =>
           \E t \in Tokens :
             /\ token[t].student = s
             /\ ~token[t].consumed /\ token'[t].consumed
             /\ ~token[t].invalidated
             /\ ~challenge[token[t].ver].revoked]_vars
  BY LiveStep
<1>. QED
  BY <1>1, LockInvariant, PTL DEF Spec, CheckInSpendsLiveToken
=============================================================================
