------------------------------- MODULE Accounts -------------------------------
(***************************************************************************)
(* One student's account: passwords, sessions, lockout, reset links and    *)
(* invitations (src/backend/app/modules/identity/, academic/               *)
(* invitation_service.py and onboarding_router.py, platform/router.py).    *)
(*                                                                         *)
(* Login, reset, the request for a link and unlocking hold the row of the  *)
(* user from read to commit: one step each. The other handlers read        *)
(* without a lock and write later, and then only the columns whose new     *)
(* value differs from the one they read. What answers with a session reads *)
(* the version again after its commit.                                     *)
(*                                                                         *)
(* Of a password only matters whether it is the one in force. Request      *)
(* limits (rate_limit.py), the status of the college and the ages of links *)
(* and invitations only refuse requests, which then do not happen here.    *)
(***************************************************************************)
EXTENDS Naturals, Sequences, FiniteSets

CONSTANTS
  Threads,      \* bound: handlers in flight
  MaxFailed,     \* settings.max_failed_login_attempts
  MaxPasswords,  \* bound: passwords set
  MaxVersions,    \* bound: session_version when a handler starts
  MaxInvites,    \* bound: invitations
  MaxSessions,   \* bound: sessions handed out
  NoLink         \* reset_token_hash is NULL

ASSUME AccountsAssumption ==
  /\ IsFiniteSet(Threads)
  /\ MaxFailed \in Nat \ {0} /\ MaxPasswords \in Nat \ {0} /\ MaxVersions \in Nat
  /\ MaxInvites \in Nat /\ MaxSessions \in Nat
  /\ NoLink \notin {"current", "former"}

VARIABLES
  user,      \* users
  invites,   \* student_invitations in the order of their ids
  sessions,  \* the sessions handed out
  thread,       \* handlers in flight
  loose      \* history: columns an overtaken handler has written to

userVars == <<user, invites, sessions, thread, loose>>

\* passwords: how many were set; 0: the student has no account yet. A link is
\* current while the password it was asked for under is in force.
User == [passwords : 0..MaxPasswords, version : Nat, failed : 0..MaxFailed,
         locked : BOOLEAN, active : BOOLEAN, link : {NoLink, "current", "former"}]

Invitation == [status : {"sent", "revoked", "activated"},
               purpose : {"activation", "setup"},
               uses : 0..1,      \* history: by handlers nobody overtook
               late : BOOLEAN]   \* history: by an overtaken handler

\* pw: history: is the password it was handed out for in force; unknown once
\* a handler that was overtaken has written the version
Session == [version : Nat, pw : {"current", "former", "unknown"}]

\* A handler: what it has read and (history) what others have written since
NoUser == [passwords |-> 0, version |-> 0, failed |-> 0, locked |-> FALSE,
           active |-> TRUE, link |-> NoLink]
Resting == [op |-> "idle", was |-> NoUser, inv |-> 0, sent |-> {}, behind |-> {}]

Exists == user.passwords # 0

\* bound
PasswordsLeft ==
  LET setting == {r \in Threads : thread[r].op \in {"activate", "change", "set"}}
  IN user.passwords + Cardinality(setting) < MaxPasswords /\ user.version < MaxVersions

Answering == [Resting EXCEPT !.op = "answer"]

Ask(r, q) == thread[r] = Resting /\ thread' = [thread EXCEPT ![r] = q]

\* What a handler may be overtaken on
Minds(op) ==
  CASE op = "answer" -> {"version"}
    [] op \in {"change", "set"} -> {"link", "version"}
    [] op = "invite" -> {"invites"}
    [] op = "activate" -> {"failed", "link", "version", "invites"}
    [] OTHER -> {}

\* What of the account its commit depends on
Read(op) ==
  [NoUser EXCEPT
     !.passwords = IF Exists /\ op \in {"activate", "invite"} THEN 1 ELSE 0,
     !.version   = IF op \in {"activate", "change", "set"} THEN user.version ELSE 0,
     !.failed    = IF op = "activate" THEN user.failed ELSE 0,
     !.locked    = op = "activate" /\ user.locked,
     !.link      = IF op = "invite" \/ user.link = NoLink THEN NoLink ELSE "current"]

\* The handlers in flight have not seen this write to cols.
Behind(cols) ==
  [x \in Threads |->
     [thread[x] EXCEPT !.behind = @ \cup (cols \cap Minds(thread[x].op))]]

Wrote(cols) == thread' = Behind(cols)

\* Handler r has written, and goes on as q.
Went(r, q, cols) == thread' = [Behind(cols) EXCEPT ![r] = q]

\* mutant: the sessions of the old password stay
SameVersion(u) == u.version

\* session_version += 1
NextVersion(u) == u.version + 1

\* mutant: an unlocked account keeps its counter
ClearedLock(u, was) == [u EXCEPT !.locked = IF was.locked THEN FALSE ELSE @]

\* clear_login_failures, on what the handler has read
Cleared(u, was) ==
  [u EXCEPT !.failed = IF was.failed # 0 THEN 0 ELSE @,
            !.locked = IF was.locked THEN FALSE ELSE @]

\* mutant: a link outlives what it was asked for
LinkKept(u, was) == u

\* invalidate_reset, on what the handler has read
LinkDropped(u, was) == [u EXCEPT !.link = IF was.link # NoLink THEN NoLink ELSE @]

\* get_current_user
Valid(s) == s.version = user.version /\ user.active /\ ~user.locked

\* A new password, and what becomes of the link there is
NewPassword(u, version) ==
  [u EXCEPT !.passwords = @ + 1, !.version = version,
            !.link = IF @ = NoLink THEN NoLink ELSE "former"]

SessionsAfter(overtaken) ==
  {[s EXCEPT !.pw = IF overtaken \/ @ = "unknown" THEN "unknown" ELSE "former"] : s \in sessions}
-----------------------------------------------------------------------------
(* Login, links, unlocking: the row is locked *)

\* authenticate, with a wrong password
Miss ==
  LET failed == IF user.failed < MaxFailed THEN user.failed + 1 ELSE MaxFailed
      locks == failed >= MaxFailed
  IN
  /\ Exists /\ ~user.locked
  /\ locks => user.version < MaxVersions
  /\ user' = [user EXCEPT !.failed = failed, !.locked = locks,
                          !.version = IF locks THEN NextVersion(user) ELSE @]
  /\ Wrote({"failed"} \cup {c \in {"version"} : locks})
  /\ UNCHANGED <<invites, sessions, loose>>

\* authenticate and login, with the right one; the session comes later
Login(r) ==
  /\ Exists /\ ~user.locked /\ user.active
  /\ thread[r] = Resting
  /\ user' = Cleared(user, user)
  /\ Went(r, Answering, {"failed"})
  /\ loose' = loose \ {"failed"}
  /\ UNCHANGED <<invites, sessions>>

\* browser_session reads the version of the row as it is now
Answer(r) ==
  LET q == thread[r] IN
  /\ q.op = "answer"
  /\ sessions' = sessions \cup
       {[version |-> user.version,
         pw |-> IF "version" \in q.behind THEN "unknown" ELSE "current"]}
  /\ Cardinality(sessions') <= MaxSessions
  /\ thread' = [thread EXCEPT ![r] = Resting]
  /\ UNCHANGED <<user, invites, loose>>

\* forgot_password: a new link replaces the old one
ForgotPassword ==
  /\ Exists /\ user.active
  /\ user' = [user EXCEPT !.link = "current"]
  /\ Wrote({"link"})
  /\ loose' = loose \ {"link"}
  /\ UNCHANGED <<invites, sessions>>

\* reset_account and reset_password
ResetPassword ==
  /\ user.link # NoLink /\ user.active
  /\ PasswordsLeft
  /\ user' = NewPassword(LinkDropped(Cleared(user, user), user), NextVersion(user))
  /\ sessions' = SessionsAfter(FALSE)
  /\ Wrote({"failed", "link", "version"})
  /\ loose' = loose \ {"failed", "link"}
  /\ UNCHANGED invites

\* unlock_account
Unlock ==
  /\ Exists
  /\ user' = LinkDropped(Cleared(user, user), user)
  /\ Wrote({"failed", "link"})
  /\ loose' = loose \ {"failed", "link"}
  /\ UNCHANGED <<invites, sessions>>
-----------------------------------------------------------------------------
(* Changes of the account: read, and written later *)

\* change_password: someone signed in; update_account: the platform
\* administrator; the address changes with update_profile or update_account
AskChange(r, op) ==
  /\ Exists
  /\ op = "change" => \E s \in sessions : Valid(s)
  /\ op # "email" => PasswordsLeft
  /\ Ask(r, [Resting EXCEPT !.op = op, !.was = Read(op)])
  /\ UNCHANGED <<user, invites, sessions, loose>>

\* After a change the session of the browser is replaced.
Change(r) ==
  LET q == thread[r] IN
  /\ q.op \in {"change", "set"}
  /\ user' = NewPassword(LinkDropped(user, q.was), NextVersion(q.was))
  /\ sessions' = SessionsAfter("version" \in q.behind)
  /\ Went(r, IF q.op = "change" THEN Answering ELSE Resting, {"link", "version"})
  /\ loose' = loose \cup (q.behind \cap {"link"})
  /\ UNCHANGED invites

ChangeEmail(r) ==
  LET q == thread[r] IN
  /\ q.op = "email"
  /\ user' = LinkDropped(user, q.was)
  /\ Went(r, Resting, {"link"})
  /\ UNCHANGED <<invites, sessions, loose>>

\* update_user, update_account
SetActive ==
  /\ Exists
  /\ user' = [user EXCEPT !.active = ~@]
  /\ UNCHANGED <<invites, sessions, thread, loose>>
-----------------------------------------------------------------------------
(* Invitations *)

\* mutant: the old invitations stay
NoneSent == {i \in DOMAIN invites : FALSE}

\* issue_student_invitation: the invitations to be revoked
Sent == {i \in DOMAIN invites : invites[i].status = "sent"}

AskInvite(r) ==
  /\ Len(invites) + Cardinality({x \in Threads : thread[x].op = "invite"}) < MaxInvites
  /\ Ask(r, [Resting EXCEPT !.op = "invite", !.was = Read("invite"), !.sent = Sent])
  /\ UNCHANGED <<user, invites, sessions, loose>>

\* send_invitations commits
Invite(r) ==
  LET q == thread[r]
      revoked == [i \in DOMAIN invites |->
                    IF i \in q.sent THEN [invites[i] EXCEPT !.status = "revoked"]
                    ELSE invites[i]]
  IN
  /\ q.op = "invite"
  /\ invites' = Append(revoked,
       [status |-> "sent", purpose |-> IF q.was.passwords = 0 THEN "activation" ELSE "setup",
        uses |-> 0, late |-> "invites" \in q.behind])
  /\ Went(r, Resting, {"invites"})
  /\ UNCHANGED <<user, sessions, loose>>

\* mutant: an invitation is good for as long as it lasts
UsableAgain(i) == invites[i].status # "revoked"

\* invitation_from_token
Usable(i) == invites[i].status = "sent"

\* activate reads the invitation, the student and the account
AskActivate(r, i) ==
  /\ i \in DOMAIN invites /\ Usable(i)
  /\ IF invites[i].purpose = "setup" THEN Exists /\ user.active ELSE ~Exists
  /\ PasswordsLeft
  /\ Ask(r, [Resting EXCEPT !.op = "activate", !.was = Read("activate"), !.inv = i])
  /\ UNCHANGED <<user, invites, sessions, loose>>

Used(q) ==
  invites' = [invites EXCEPT ![q.inv].status = "activated",
                             ![q.inv].uses = @ + IF "invites" \in q.behind THEN 0 ELSE 1]

\* activate commits a new password of the account there is
SetUp(r) ==
  LET q == thread[r] IN
  /\ q.op = "activate" /\ q.was.passwords # 0
  /\ user' = NewPassword(LinkDropped(Cleared(user, q.was), q.was), NextVersion(q.was))
  /\ Used(q)
  /\ sessions' = SessionsAfter("version" \in q.behind)
  /\ Went(r, Answering, {"failed", "link", "version", "invites"})
  /\ loose' = loose \cup (q.behind \cap {"failed", "link"})

\* or creates the account
Create(r) ==
  LET q == thread[r] IN
  /\ q.op = "activate" /\ q.was.passwords = 0 /\ ~Exists
  /\ user' = [NoUser EXCEPT !.passwords = 1]
  /\ Used(q)
  /\ Went(r, Answering, {"version", "invites"})
  /\ UNCHANGED <<sessions, loose>>

\* A handler ends without its commit or its answer: the email is taken by an
\* account created since, or the server stops.
Fails(r) ==
  /\ thread[r] # Resting
  /\ thread' = [thread EXCEPT ![r] = Resting]
  /\ UNCHANGED <<user, invites, sessions, loose>>
-----------------------------------------------------------------------------
\* A student without account, or one whom the import gave an account
UserInit ==
  /\ user \in {NoUser, [NoUser EXCEPT !.passwords = 1]}
  /\ invites = <<>> /\ sessions = {}
  /\ thread = [r \in Threads |-> Resting]
  /\ loose = {}

UserNext ==
  \/ Miss \/ ForgotPassword \/ ResetPassword \/ Unlock \/ SetActive
  \/ \E r \in Threads :
       \/ Login(r) \/ Answer(r)
       \/ \E op \in {"change", "set", "email"} : AskChange(r, op)
       \/ Change(r) \/ ChangeEmail(r)
       \/ AskInvite(r) \/ Invite(r)
       \/ \E i \in 1..MaxInvites : AskActivate(r, i)
       \/ SetUp(r) \/ Create(r) \/ Fails(r)

UserSpec == UserInit /\ [][UserNext]_userVars
-----------------------------------------------------------------------------
\* Types; an invitation is used once, by handlers nobody overtakes
\* (invitation_from_token).
UserTypeOK ==
  /\ user \in User
  /\ invites \in Seq(Invitation) /\ Len(invites) <= MaxInvites
  /\ sessions \subseteq Session
  /\ loose \subseteq {"failed", "link"}

\* A session is good only for the password in force, as long as every handler
\* that sets one starts from the row it finds at its commit, and the session
\* was handed out before the next one was set (session_version, browser_session).
SessionsFollowPassword ==
  \A s \in sessions : Valid(s) => s.pw # "former"

\* A reset link was asked for under the password in force, unless a handler
\* did not see the link it should have withdrawn (invalidate_reset).
LinkFollowsPassword ==
  user.link = "former" => "link" \in loose

\* The account is locked exactly when its misses have reached the limit, unless
\* a handler cleared what it had read of misses counted since (authenticate,
\* clear_login_failures).
LockMatchesMisses ==
  "failed" \notin loose => (user.locked <=> user.failed = MaxFailed)

\* A student holds two open invitations only if they were sent at the same time
\* (issue_student_invitation).
OneInvitation ==
  \A i, j \in DOMAIN invites :
    i < j /\ invites[i].status = "sent" /\ invites[j].status = "sent" => invites[j].late
=============================================================================
