---------------------------- MODULE AccountsProofs ----------------------------
(* Theorems about Accounts and ProfilePictures, for any number of handlers,  *)
(* misses, passwords, invitations and sessions.                              *)
EXTENDS MCReviewAndAccounts, FiniteSetTheorems, TLAPS

-----------------------------------------------------------------------------
(* Types, without the bounds                                                 *)

Columns == {"failed", "link", "version", "invites"}

Ops == {"idle", "answer", "change", "set", "email", "invite", "activate"}

\* a row of users, of any number of passwords and misses
Account == [passwords : Nat, version : Nat, failed : Nat,
            locked : BOOLEAN, active : BOOLEAN, link : {NoLink, "current", "former"}]

Handler == [op : Ops, was : Account, inv : Nat, sent : SUBSET Nat, behind : SUBSET Columns]

Letter == [status : {"sent", "revoked", "activated"}, purpose : {"activation", "setup"},
           uses : Nat, late : BOOLEAN]

TypeInv ==
  /\ user \in Account
  /\ invites \in Seq(Letter)
  /\ sessions \subseteq Session
  /\ thread \in [Threads -> Handler]
  /\ loose \subseteq {"failed", "link"}

-----------------------------------------------------------------------------
(* What a handler has read is still so unless it is marked as overtaken.     *)

\* the handlers that will write the version
Setting(r) ==
  \/ thread[r].op \in {"change", "set"}
  \/ thread[r].op = "activate" /\ thread[r].was.passwords # 0

\* an account does not go away under those who have read it
AccountSeen ==
  \A r \in Threads : (Setting(r) \/ thread[r].op = "answer") => Exists

VersionSeen ==
  \A r \in Threads : Setting(r) /\ "version" \notin thread[r].behind
                        => thread[r].was.version = user.version

LinkSeen ==
  \A r \in Threads : Setting(r) /\ "link" \notin thread[r].behind
                        => (thread[r].was.link = NoLink <=> user.link = NoLink)

MissesSeen ==
  \A r \in Threads :
    Setting(r) /\ thread[r].op = "activate" /\ "failed" \notin thread[r].behind
      => thread[r].was.failed = user.failed /\ thread[r].was.locked = user.locked

InvitesSeen ==
  \A r \in Threads :
    /\ thread[r].op = "invite" /\ "invites" \notin thread[r].behind => thread[r].sent = Sent
    /\ thread[r].op = "activate" =>
         /\ thread[r].inv \in DOMAIN invites
         /\ "invites" \notin thread[r].behind => invites[thread[r].inv].status = "sent"

\* no session carries a later version than the row, and none of a former
\* password the version of the row
SessionsBehind ==
  /\ ~Exists => sessions = {}
  /\ \A s \in sessions : /\ s.pw # "unknown" => s.version <= user.version
                         /\ s.pw = "former" => s.version < user.version

\* an open invitation has not been used, and none twice
UsesCounted ==
  \A i \in DOMAIN invites :
    invites[i].uses <= 1 /\ (invites[i].status = "sent" => invites[i].uses = 0)

Seen == AccountSeen /\ VersionSeen /\ LinkSeen /\ MissesSeen /\ InvitesSeen

Correct == /\ SessionsBehind /\ LinkFollowsPassword /\ LockMatchesMisses
           /\ UsesCounted /\ OneInvitation

\* the bounds: who will set a password or send an invitation is counted
Passwording == {r \in Threads : thread[r].op \in {"activate", "change", "set"}}
Inviting == {r \in Threads : thread[r].op = "invite"}

Bounded ==
  /\ user.passwords + Cardinality(Passwording) <= MaxPasswords
  /\ Len(invites) + Cardinality(Inviting) <= MaxInvites
  /\ user.failed <= MaxFailed

AccountsInv == TypeInv /\ Seen /\ Correct /\ Bounded

-----------------------------------------------------------------------------
(* The model's operators *)

LEMMA Constants ==
  /\ MaxFailed \in Nat \ {0} /\ MaxPasswords \in Nat \ {0} /\ MaxVersions \in Nat
  /\ MaxInvites \in Nat /\ MaxSessions \in Nat
  /\ NoLink # "current" /\ NoLink # "former"
<1>1. /\ MaxFailed \in Nat \ {0} /\ MaxPasswords \in Nat \ {0} /\ MaxVersions \in Nat
      /\ MaxInvites \in Nat /\ MaxSessions \in Nat
      /\ NoLink \notin {"current", "former"}
  BY AccountsAssumption, Zenon DEF AccountsAssumption
<1>. QED
  BY <1>1

LEMMA FiniteRequests == IsFiniteSet(Threads)
BY AccountsAssumption, Zenon DEF AccountsAssumption

LEMMA NoUserFields ==
  /\ NoUser \in Account
  /\ NoUser.passwords = 0 /\ NoUser.version = 0 /\ NoUser.failed = 0
  /\ NoUser.locked = FALSE /\ NoUser.active = TRUE /\ NoUser.link = NoLink
BY DEF NoUser, Account

LEMMA IdleFields == Resting \in Handler /\ Resting.op = "idle" /\ Resting.behind = {} /\ Resting.sent = {}
BY NoUserFields DEF Resting, Handler, Ops

LEMMA AnsweringFields == Answering \in Handler /\ Answering.op = "answer"
BY IdleFields DEF Answering, Handler, Ops

\* what becomes of a handler that is marked
Mark(h, cols) == [h EXCEPT !.behind = @ \cup (cols \cap Minds(h.op))]

LEMMA MarkFields ==
  ASSUME NEW h \in Handler, NEW cols \in SUBSET Columns
  PROVE  /\ Mark(h, cols) \in Handler
         /\ Mark(h, cols).op = h.op /\ Mark(h, cols).was = h.was /\ Mark(h, cols).inv = h.inv
         /\ Mark(h, cols).sent = h.sent
         /\ Mark(h, cols).behind = h.behind \cup (cols \cap Minds(h.op))
BY DEF Mark, Handler

\* x is still where it was, and marked on the columns in cols that it minds.
Marked(x, cols) ==
  /\ thread'[x].op = thread[x].op /\ thread'[x].was = thread[x].was
  /\ thread'[x].inv = thread[x].inv /\ thread'[x].sent = thread[x].sent
  /\ thread'[x].behind = thread[x].behind \cup (cols \cap Minds(thread[x].op))

LEMMA WroteFacts ==
  ASSUME thread \in [Threads -> Handler], NEW cols \in SUBSET Columns, Wrote(cols)
  PROVE  thread' \in [Threads -> Handler] /\ \A x \in Threads : Marked(x, cols)
<1>1. \A x \in Threads :
        thread'[x] = Mark(thread[x], cols)
  BY DEF Wrote, Behind, Mark
<1>2. \A x \in Threads : thread'[x] \in Handler /\ Marked(x, cols)
  BY <1>1, MarkFields DEF Marked
<1>. QED
  BY <1>2 DEF Wrote, Behind

LEMMA WentFacts ==
  ASSUME thread \in [Threads -> Handler], NEW r \in Threads, NEW q \in Handler,
         NEW cols \in SUBSET Columns, Went(r, q, cols)
  PROVE  /\ thread' \in [Threads -> Handler] /\ thread'[r] = q
         /\ \A x \in Threads \ {r} : Marked(x, cols)
<1>1. \A x \in Threads \ {r} :
        thread'[x] = Mark(thread[x], cols)
  BY DEF Went, Behind, Mark
<1>2. \A x \in Threads \ {r} : thread'[x] \in Handler /\ Marked(x, cols)
  BY <1>1, MarkFields DEF Marked
<1>3. thread'[r] = q /\ DOMAIN thread' = Threads
  BY DEF Went, Behind
<1>4. thread' = [x \in Threads |-> thread'[x]]
  BY DEF Went, Behind
<1>. QED
  BY <1>2, <1>3, <1>4

LEMMA AskFacts ==
  ASSUME thread \in [Threads -> Handler], NEW r \in Threads, NEW q \in Handler, Ask(r, q)
  PROVE  /\ thread' \in [Threads -> Handler] /\ thread[r] = Resting /\ thread'[r] = q
         /\ \A x \in Threads \ {r} : thread'[x] = thread[x]
BY DEF Ask

\* what a handler reads of the account
LEMMA ReadFields ==
  ASSUME user \in Account, NEW op
  PROVE  /\ Read(op) \in Account
         /\ op \in {"change", "set", "activate"} =>
              /\ Read(op).version = user.version
              /\ Read(op).link = NoLink <=> user.link = NoLink
         /\ op = "activate" =>
              /\ Read(op).passwords = IF Exists THEN 1 ELSE 0
              /\ Read(op).failed = user.failed /\ Read(op).locked = user.locked
BY Constants, NoUserFields DEF Read, Account

LEMMA ClearedFields ==
  ASSUME NEW u \in Account, NEW was \in Account
  PROVE  /\ Cleared(u, was) \in Account
         /\ Cleared(u, was).passwords = u.passwords /\ Cleared(u, was).version = u.version
         /\ Cleared(u, was).active = u.active /\ Cleared(u, was).link = u.link
         /\ Cleared(u, was).failed = IF was.failed # 0 THEN 0 ELSE u.failed
BY DEF Cleared, Account

LEMMA ClearedLocked ==
  ASSUME NEW u \in Account, NEW was \in Account
  PROVE  Cleared(u, was).locked = IF was.locked THEN FALSE ELSE u.locked
BY DEF Cleared, Account

\* when it clears what it finds
LEMMA ClearedWhole ==
  ASSUME NEW u \in Account
  PROVE  /\ Cleared(u, u) \in Account
         /\ Cleared(u, u).passwords = u.passwords /\ Cleared(u, u).version = u.version
         /\ Cleared(u, u).active = u.active /\ Cleared(u, u).link = u.link
         /\ Cleared(u, u).failed = 0 /\ Cleared(u, u).locked = FALSE
<1>1. Cleared(u, u).failed = 0
  BY ClearedFields
<1>2. Cleared(u, u).locked = FALSE
  BY ClearedLocked, Zenon DEF Account
<1>. QED
  BY <1>1, <1>2, ClearedFields

LEMMA DroppedFields ==
  ASSUME NEW u \in Account, NEW was \in Account
  PROVE  /\ LinkDropped(u, was) \in Account
         /\ LinkDropped(u, was).passwords = u.passwords /\ LinkDropped(u, was).version = u.version
         /\ LinkDropped(u, was).active = u.active /\ LinkDropped(u, was).failed = u.failed
         /\ LinkDropped(u, was).locked = u.locked
         /\ LinkDropped(u, was).link = IF was.link # NoLink THEN NoLink ELSE u.link
BY DEF LinkDropped, Account

LEMMA NewPasswordFields ==
  ASSUME NEW u \in Account, NEW v \in Nat
  PROVE  /\ NewPassword(u, v) \in Account
         /\ NewPassword(u, v).passwords = u.passwords + 1 /\ NewPassword(u, v).version = v
         /\ NewPassword(u, v).active = u.active /\ NewPassword(u, v).failed = u.failed
         /\ NewPassword(u, v).locked = u.locked
         /\ NewPassword(u, v).link = IF u.link = NoLink THEN NoLink ELSE "former"
<1>1. u.passwords + 1 \in Nat
  BY DEF Account
<1>2. (IF u.link = NoLink THEN NoLink ELSE "former") \in {NoLink, "current", "former"}
  OBVIOUS
<1>. QED
  BY <1>1, <1>2 DEF NewPassword, Account

-----------------------------------------------------------------------------
(* What the steps do to the account, column by column                        *)

\* the columns but for version and link, as Miss leaves them
LEMMA MissFacts ==
  ASSUME TypeInv, Bounded, Miss
  PROVE  /\ user' \in Account /\ user'.passwords = user.passwords /\ user'.link = user.link
         /\ user'.active = user.active
         /\ user'.version = (IF user'.locked THEN user.version + 1 ELSE user.version)
         /\ user'.failed <= MaxFailed /\ (user'.locked <=> user'.failed = MaxFailed)
         /\ Wrote({"failed"} \cup {c \in {"version"} : user'.locked})
<1>. DEFINE failed == IF user.failed < MaxFailed THEN user.failed + 1 ELSE MaxFailed
            locks == failed >= MaxFailed
<1>1. /\ user \in Account /\ failed \in Nat /\ failed <= MaxFailed
      /\ locks \in BOOLEAN /\ (locks <=> failed = MaxFailed)
  BY Constants DEF TypeInv, Bounded, Account
<1>2. /\ user' = [user EXCEPT !.failed = failed, !.locked = locks,
                             !.version = IF locks THEN NextVersion(user) ELSE @]
      /\ Wrote({"failed"} \cup {c \in {"version"} : locks})
  BY DEF Miss
<1>. HIDE DEF failed, locks
<1>3. /\ user'.passwords = user.passwords /\ user'.link = user.link
      /\ user'.active = user.active /\ user'.failed = failed
      /\ user'.version = (IF locks THEN user.version + 1 ELSE user.version)
  BY <1>1, <1>2 DEF Account, NextVersion
<1>4. user'.locked = locks
  BY <1>1, <1>2 DEF Account, NextVersion
<1>5. user' \in Account
  <2>. DEFINE v == IF locks THEN NextVersion(user) ELSE user.version
  <2>1. v \in Nat
    BY <1>1 DEF Account, NextVersion
  <2>2. user' = [user EXCEPT !.failed = failed, !.locked = locks, !.version = v]
    BY <1>2, Zenon
  <2>3. user \in Account /\ failed \in Nat /\ locks \in BOOLEAN
    BY <1>1
  <2>. HIDE DEF v
  <2>. QED
    BY <2>1, <2>2, <2>3 DEF Account
<1>. QED
  BY <1>1, <1>2, <1>3, <1>4, <1>5

LEMMA LoginFacts ==
  ASSUME TypeInv, NEW r \in Threads, Login(r)
  PROVE  /\ user' \in Account /\ user'.passwords = user.passwords /\ user'.link = user.link
         /\ user'.active = user.active /\ user'.version = user.version
         /\ user'.failed = 0 /\ user'.locked = FALSE
BY ClearedWhole DEF TypeInv, Login

LEMMA ForgotFacts ==
  ASSUME TypeInv, ForgotPassword
  PROVE  /\ user' \in Account /\ user'.passwords = user.passwords /\ user'.link = "current"
         /\ user'.active = user.active /\ user'.version = user.version
         /\ user'.failed = user.failed /\ user'.locked = user.locked
BY DEF TypeInv, ForgotPassword, Account

LEMMA UnlockFacts ==
  ASSUME TypeInv, Unlock
  PROVE  /\ user' \in Account /\ user'.passwords = user.passwords /\ user'.link = NoLink
         /\ user'.active = user.active /\ user'.version = user.version
         /\ user'.failed = 0 /\ user'.locked = FALSE
<1>. DEFINE c == Cleared(user, user)
<1>1. /\ user \in Account /\ c \in Account /\ c.passwords = user.passwords
      /\ c.link = user.link /\ c.active = user.active /\ c.version = user.version
      /\ c.failed = 0 /\ c.locked = FALSE
  BY ClearedWhole DEF TypeInv
<1>2. user' = LinkDropped(Cleared(user, user), user)
  BY DEF Unlock
<1>. HIDE DEF c
<1>3. /\ user' \in Account /\ user'.passwords = user.passwords /\ user'.link = NoLink
      /\ user'.active = user.active /\ user'.version = user.version
      /\ user'.failed = c.failed /\ user'.locked = c.locked
  BY <1>1, <1>2, DroppedFields DEF c
<1>. QED
  BY <1>1, <1>3

LEMMA ResetFacts ==
  ASSUME TypeInv, ResetPassword
  PROVE  /\ user' \in Account /\ user'.passwords = user.passwords + 1 /\ user'.link = NoLink
         /\ user'.active = user.active /\ user'.version = user.version + 1
         /\ user'.failed = 0 /\ user'.locked = FALSE
<1>. DEFINE c == Cleared(user, user)
            d == LinkDropped(c, user)
            v == user.version + 1
<1>1. user \in Account /\ v \in Nat
  BY DEF TypeInv, Account
<1>2. user' = NewPassword(d, v)
  BY DEF ResetPassword, NextVersion
<1>3. /\ c \in Account /\ c.passwords = user.passwords /\ c.active = user.active
      /\ c.link = user.link /\ c.failed = 0 /\ c.locked = FALSE
  BY <1>1, ClearedWhole
<1>. HIDE DEF c
<1>4. /\ d \in Account /\ d.passwords = user.passwords /\ d.active = user.active
      /\ d.link = NoLink /\ d.failed = 0 /\ d.locked = FALSE
  BY <1>1, <1>3, DroppedFields
<1>. HIDE DEF d, v
<1>5. user' \in Account /\ user'.link = NoLink
  <2>1. /\ NewPassword(d, v) \in Account
        /\ NewPassword(d, v).link = IF d.link = NoLink THEN NoLink ELSE "former"
    BY <1>1, <1>4, NewPasswordFields
  <2>. QED
    BY <1>2, <1>4, <2>1, Zenon
<1>6. user'.passwords = user.passwords + 1 /\ user'.version = v
  BY <1>1, <1>2, <1>4, NewPasswordFields, SMTT(20)
<1>7. user'.active = user.active /\ user'.failed = 0 /\ user'.locked = FALSE
  BY <1>1, <1>2, <1>4, NewPasswordFields, SMTT(20)
<1>. QED
  BY <1>5, <1>6, <1>7 DEF v

LEMMA ActiveFacts ==
  ASSUME TypeInv, SetActive
  PROVE  /\ user' \in Account /\ user'.passwords = user.passwords /\ user'.link = user.link
         /\ user'.version = user.version
         /\ user'.failed = user.failed /\ user'.locked = user.locked
BY DEF TypeInv, SetActive, Account

\* a handler that has read the account writes what it has read
LEMMA ChangeFacts ==
  ASSUME TypeInv, NEW r \in Threads, Change(r)
  PROVE  /\ user' \in Account /\ user'.passwords = user.passwords + 1
         /\ user'.active = user.active /\ user'.version = thread[r].was.version + 1
         /\ user'.failed = user.failed /\ user'.locked = user.locked
         /\ user'.link = IF thread[r].was.link # NoLink \/ user.link = NoLink
                         THEN NoLink ELSE "former"
<1>. DEFINE was == thread[r].was
            d == LinkDropped(user, was)
            v == was.version + 1
<1>1. user \in Account /\ was \in Account /\ v \in Nat
  BY DEF TypeInv, Handler, Account
<1>2. user' = NewPassword(d, v)
  BY DEF Change, NextVersion
<1>3. /\ d \in Account /\ d.passwords = user.passwords /\ d.active = user.active
      /\ d.failed = user.failed /\ d.locked = user.locked
  BY <1>1, DroppedFields
<1>4. d.link = NoLink <=> was.link # NoLink \/ user.link = NoLink
  BY <1>1, DroppedFields
<1>. HIDE DEF d, v
<1>5. user' \in Account /\ user'.passwords = user.passwords + 1 /\ user'.version = v
  BY <1>1, <1>2, <1>3, NewPasswordFields
<1>6. user'.active = user.active /\ user'.failed = user.failed /\ user'.locked = user.locked
  BY <1>1, <1>2, <1>3, NewPasswordFields
<1>7. user'.link = IF d.link = NoLink THEN NoLink ELSE "former"
  BY <1>1, <1>2, <1>3, NewPasswordFields
<1>. QED
  BY <1>4, <1>5, <1>6, <1>7 DEF v

LEMMA SetUpFacts ==
  ASSUME TypeInv, NEW r \in Threads, SetUp(r)
  PROVE  /\ user' \in Account /\ user'.passwords = user.passwords + 1
         /\ user'.active = user.active /\ user'.version = thread[r].was.version + 1
         /\ user'.failed = IF thread[r].was.failed # 0 THEN 0 ELSE user.failed
         /\ user'.locked = IF thread[r].was.locked THEN FALSE ELSE user.locked
         /\ user'.link = IF thread[r].was.link # NoLink \/ user.link = NoLink
                         THEN NoLink ELSE "former"
<1>. DEFINE was == thread[r].was
            c == Cleared(user, was)
            d == LinkDropped(c, was)
            v == was.version + 1
<1>1. user \in Account /\ was \in Account /\ v \in Nat
  BY DEF TypeInv, Handler, Account
<1>2. user' = NewPassword(d, v)
  BY DEF SetUp, NextVersion
<1>3. /\ c \in Account /\ c.passwords = user.passwords /\ c.active = user.active
      /\ c.link = user.link
  BY <1>1, ClearedFields
<1>4. c.failed = IF was.failed # 0 THEN 0 ELSE user.failed
  BY <1>1, ClearedFields
<1>5. c.locked = IF was.locked THEN FALSE ELSE user.locked
  BY <1>1, ClearedLocked, Zenon
<1>. HIDE DEF c
<1>6. /\ d \in Account /\ d.passwords = user.passwords /\ d.active = user.active
      /\ d.failed = c.failed /\ d.locked = c.locked
  BY <1>1, <1>3, DroppedFields
<1>7. d.link = NoLink <=> was.link # NoLink \/ user.link = NoLink
  BY <1>1, <1>3, DroppedFields
<1>. HIDE DEF d, v
<1>8. user' \in Account /\ user'.passwords = user.passwords + 1 /\ user'.version = v
  BY <1>1, <1>2, <1>6, NewPasswordFields
<1>9. user'.active = user.active /\ user'.failed = c.failed /\ user'.locked = c.locked
  BY <1>1, <1>2, <1>6, NewPasswordFields
<1>10. user'.link = IF d.link = NoLink THEN NoLink ELSE "former"
  BY <1>1, <1>2, <1>6, NewPasswordFields
<1>11. user'.locked = IF was.locked THEN FALSE ELSE user.locked
  BY <1>5, <1>9, Zenon
<1>12. user'.link = IF was.link # NoLink \/ user.link = NoLink THEN NoLink ELSE "former"
  BY <1>7, <1>10, Zenon
<1>13. user'.version = was.version + 1
  BY <1>8 DEF v
<1>. QED
  BY <1>4, <1>8, <1>9, <1>11, <1>12, <1>13, Zenon

LEMMA EmailFacts ==
  ASSUME TypeInv, NEW r \in Threads, ChangeEmail(r)
  PROVE  /\ user' \in Account /\ user'.passwords = user.passwords
         /\ user'.active = user.active /\ user'.version = user.version
         /\ user'.failed = user.failed /\ user'.locked = user.locked
         /\ user'.link = IF thread[r].was.link # NoLink THEN NoLink ELSE user.link
<1>1. user \in Account /\ thread[r].was \in Account
  BY DEF TypeInv, Handler
<1>. QED
  BY <1>1, DroppedFields DEF ChangeEmail

LEMMA CreateFacts ==
  ASSUME NEW r \in Threads, Create(r)
  PROVE  /\ ~Exists /\ user' \in Account /\ user'.passwords = 1
         /\ user'.active = TRUE /\ user'.version = 0
         /\ user'.failed = 0 /\ user'.locked = FALSE /\ user'.link = NoLink
BY NoUserFields DEF Create, Account

-----------------------------------------------------------------------------
(* A handler in flight: still in flight and marked on what has changed, just *)
(* asked, or done.                                                           *)

\* what of the row still is as it was
SameVersionColumn == user'.version = user.version
SameLinkColumn == user'.link = NoLink <=> user.link = NoLink
SameMisses == user'.failed = user.failed /\ user'.locked = user.locked

Kept(x) ==
  /\ thread'[x].op = thread[x].op /\ thread'[x].was = thread[x].was
  /\ thread'[x].inv = thread[x].inv /\ thread'[x].sent = thread[x].sent
  /\ thread[x].behind \subseteq thread'[x].behind
  /\ Setting(x) => /\ "version" \in thread'[x].behind \/ SameVersionColumn
                   /\ "link" \in thread'[x].behind \/ SameLinkColumn
  /\ Setting(x) /\ thread[x].op = "activate" => "failed" \in thread'[x].behind \/ SameMisses
  /\ thread[x].op \in {"invite", "activate"} => "invites" \in thread'[x].behind \/ invites' = invites

Asked(x) ==
  /\ UNCHANGED <<user, invites>>
  /\ thread'[x].was = Read(thread'[x].op) /\ thread'[x].op # "answer"
  /\ thread'[x].op \in {"change", "set"} => Exists
  /\ thread'[x].op = "invite" => thread'[x].sent = Sent
  /\ thread'[x].op = "activate" => thread'[x].inv \in DOMAIN invites /\ Usable(thread'[x].inv)

Done(x) == thread'[x].op \in {"idle", "answer", "email"} /\ (thread'[x].op = "answer" => Exists')

\* what Marked must cover for Kept
Covers(cols) ==
  /\ "version" \in cols \/ SameVersionColumn
  /\ "link" \in cols \/ SameLinkColumn
  /\ "failed" \in cols \/ SameMisses
  /\ "invites" \in cols \/ invites' = invites

LEMMA Minding ==
  ASSUME NEW op
  PROVE  /\ op \in {"change", "set", "activate"} => {"version", "link"} \subseteq Minds(op)
         /\ op = "activate" => "failed" \in Minds(op)
         /\ op \in {"invite", "activate"} => "invites" \in Minds(op)
BY DEF Minds

LEMMA MarkedKept ==
  ASSUME NEW x \in Threads, NEW cols \in SUBSET Columns, Marked(x, cols), Covers(cols)
  PROVE  Kept(x)
<1>1. /\ thread'[x].op = thread[x].op /\ thread'[x].was = thread[x].was
      /\ thread'[x].inv = thread[x].inv /\ thread'[x].sent = thread[x].sent
      /\ thread'[x].behind = thread[x].behind \cup (cols \cap Minds(thread[x].op))
  BY DEF Marked
<1>2. Setting(x) => thread[x].op \in {"change", "set", "activate"}
  BY DEF Setting
<1>. DEFINE op == thread[x].op
<1>3. /\ op \in {"change", "set", "activate"} => {"version", "link"} \subseteq Minds(op)
      /\ op = "activate" => "failed" \in Minds(op)
      /\ op \in {"invite", "activate"} => "invites" \in Minds(op)
  BY Minding
<1>4. Setting(x) => /\ "version" \in thread'[x].behind \/ SameVersionColumn
                    /\ "link" \in thread'[x].behind \/ SameLinkColumn
  BY <1>1, <1>2, <1>3 DEF Covers
<1>5. Setting(x) /\ op = "activate" => "failed" \in thread'[x].behind \/ SameMisses
  BY <1>1, <1>3 DEF Covers
<1>6. op \in {"invite", "activate"} => "invites" \in thread'[x].behind \/ invites' = invites
  BY <1>1, <1>3 DEF Covers
<1>. QED
  BY <1>1, <1>4, <1>5, <1>6 DEF Kept

\* the handlers that nobody has marked
LEMMA SameKept ==
  ASSUME NEW x \in Threads, thread'[x] = thread[x], UNCHANGED <<invites>>,
         SameVersionColumn, SameLinkColumn, SameMisses
  PROVE  Kept(x)
BY DEF Kept

\* what every step keeps, and what it does to the handlers
Advance ==
  /\ thread' \in [Threads -> Handler] /\ user' \in Account
  /\ Exists => Exists'
  /\ DOMAIN invites \subseteq DOMAIN invites'
  /\ \A x \in Threads : Kept(x) \/ Asked(x) \/ Done(x)

\* a step in which only handler r moves on, and the others are marked
LEMMA WentAdvance ==
  ASSUME TypeInv, NEW r \in Threads, NEW q \in Handler, NEW cols \in SUBSET Columns,
         Went(r, q, cols), \A x \in Threads \ {r} : Marked(x, cols) => Kept(x),
         user' \in Account, Exists => Exists', DOMAIN invites \subseteq DOMAIN invites',
         q.op \in {"idle", "answer", "email"}, q.op = "answer" => Exists'
  PROVE  Advance
<1>1. /\ thread' \in [Threads -> Handler] /\ thread'[r] = q
      /\ \A x \in Threads \ {r} : Marked(x, cols)
  BY WentFacts DEF TypeInv
<1>2. Done(r)
  BY <1>1 DEF Done
<1>. QED
  BY <1>1, <1>2 DEF Advance

\* a step in which no handler moves on
LEMMA WroteAdvance ==
  ASSUME TypeInv, NEW cols \in SUBSET Columns, Wrote(cols), Covers(cols),
         user' \in Account, Exists => Exists', UNCHANGED invites
  PROVE  Advance
<1>1. thread' \in [Threads -> Handler] /\ \A x \in Threads : Marked(x, cols)
  BY WroteFacts DEF TypeInv
<1>. QED
  BY <1>1, MarkedKept DEF Advance

\* a step in which a handler reads
LEMMA AskAdvance ==
  ASSUME TypeInv, NEW r \in Threads, NEW q \in Handler, Ask(r, q), UNCHANGED <<user, invites>>,
         q.was = Read(q.op) \/ q.op = "email", q.op \in {"change", "set"} => Exists, q.op # "answer",
         q.op = "invite" => q.sent = Sent,
         q.op = "activate" => q.inv \in DOMAIN invites /\ Usable(q.inv)
  PROVE  Advance
<1>1. /\ thread' \in [Threads -> Handler] /\ thread'[r] = q
      /\ \A x \in Threads \ {r} : thread'[x] = thread[x]
  BY AskFacts DEF TypeInv
<1>2. Asked(r) \/ Done(r)
  BY <1>1 DEF Asked, Done
<1>3. \A x \in Threads \ {r} : Kept(x)
  BY <1>1, SameKept DEF SameVersionColumn, SameLinkColumn, SameMisses
<1>. QED
  BY <1>1, <1>2, <1>3 DEF Advance, TypeInv, Exists

LEMMA ProgressStep == TypeInv /\ AccountSeen /\ Bounded /\ [UserNext]_userVars => Advance
<1>. SUFFICES ASSUME TypeInv, AccountSeen, Bounded, [UserNext]_userVars PROVE Advance
  OBVIOUS
<1>. USE DEF Columns
<1>t. user \in Account /\ thread \in [Threads -> Handler] /\ invites \in Seq(Letter)
  BY DEF TypeInv
<1>1. CASE Miss
  <2>. DEFINE cols == {"failed"} \cup {c \in {"version"} : user'.locked}
  <2>1. Wrote(cols) /\ cols \in SUBSET Columns
    BY <1>1, MissFacts
  <2>2. UNCHANGED invites
    BY <1>1 DEF Miss
  <2>3. /\ user' \in Account /\ user'.passwords = user.passwords /\ user'.link = user.link
        /\ user'.locked \/ user'.version = user.version
    BY <1>1, MissFacts, Zenon
  <2>4. Covers(cols) /\ (Exists => Exists')
    BY <2>2, <2>3 DEF Covers, SameVersionColumn, SameLinkColumn, SameMisses, Exists
  <2>. QED
    BY <2>1, <2>2, <2>3, <2>4, WroteAdvance
<1>2. CASE ForgotPassword
  <2>1. Wrote({"link"}) /\ UNCHANGED invites
    BY <1>2 DEF ForgotPassword
  <2>2. user' \in Account /\ Covers({"link"}) /\ (Exists => Exists')
    BY <1>2, <2>1, ForgotFacts DEF Covers, SameVersionColumn, SameLinkColumn, SameMisses, Exists
  <2>. QED
    BY <2>1, <2>2, WroteAdvance
<1>3. CASE ResetPassword
  <2>1. Wrote({"failed", "link", "version"}) /\ UNCHANGED invites
    BY <1>3 DEF ResetPassword
  <2>2. user' \in Account /\ Covers({"failed", "link", "version"}) /\ (Exists => Exists')
    BY <1>3, <1>t, <2>1, ResetFacts DEF Covers, SameVersionColumn, SameLinkColumn, SameMisses, Exists, Account
  <2>. QED
    BY <2>1, <2>2, WroteAdvance
<1>4. CASE Unlock
  <2>1. Wrote({"failed", "link"}) /\ UNCHANGED invites
    BY <1>4 DEF Unlock
  <2>2. user' \in Account /\ Covers({"failed", "link"}) /\ (Exists => Exists')
    BY <1>4, <2>1, UnlockFacts DEF Covers, SameVersionColumn, SameLinkColumn, SameMisses, Exists
  <2>. QED
    BY <2>1, <2>2, WroteAdvance
<1>5. CASE SetActive
  <2>1. thread' = thread /\ invites' = invites
    BY <1>5 DEF SetActive
  <2>2. /\ user' \in Account /\ SameVersionColumn /\ SameLinkColumn /\ SameMisses
        /\ Exists => Exists'
    BY <1>5, ActiveFacts DEF Covers, SameVersionColumn, SameLinkColumn, SameMisses, Exists
  <2>3. \A x \in Threads : Kept(x)
    BY <2>1, <2>2, SameKept
  <2>. QED
    BY <1>t, <2>1, <2>2, <2>3 DEF Advance
<1>6. ASSUME NEW r \in Threads, Login(r) PROVE Advance
  <2>1. Went(r, Answering, {"failed"}) /\ UNCHANGED invites /\ Exists
    BY <1>6 DEF Login
  <2>2. user' \in Account /\ Covers({"failed"}) /\ (Exists => Exists') /\ Exists'
    BY <1>6, <2>1, LoginFacts DEF Covers, SameVersionColumn, SameLinkColumn, SameMisses, Exists
  <2>3. ASSUME NEW x \in Threads, Marked(x, {"failed"}) PROVE Kept(x)
    BY <2>1, <2>2, <2>3, MarkedKept
  <2>4. {"failed"} \in SUBSET Columns
    BY DEF Columns
  <2>. QED
    BY <2>1, <2>2, <2>3, <2>4, <1>t, WentAdvance, AnsweringFields, IdleFields
<1>7. ASSUME NEW r \in Threads, Answer(r) \/ Fails(r) PROVE Advance
  <2>1. thread' = [thread EXCEPT ![r] = Resting] /\ UNCHANGED <<user, invites>>
    BY <1>7 DEF Answer, Fails
  <2>2. Done(r)
    BY <1>t, <2>1, IdleFields DEF Done
  <2>3. \A x \in Threads \ {r} : Kept(x)
    BY <1>t, <2>1, SameKept DEF SameVersionColumn, SameLinkColumn, SameMisses
  <2>. QED
    BY <1>t, <2>1, <2>2, <2>3, IdleFields DEF Advance, Exists
<1>8. ASSUME NEW r \in Threads, NEW op \in {"change", "set", "email"}, AskChange(r, op)
      PROVE  Advance
  <2>. DEFINE q == [Resting EXCEPT !.op = op, !.was = Read(op)]
  <2>1. q \in Handler /\ q.op = op /\ q.was = Read(op)
    BY <1>t, IdleFields, ReadFields DEF Handler, Ops
  <2>2. Ask(r, q) /\ UNCHANGED <<user, invites>> /\ Exists
    BY <1>8 DEF AskChange
  <2>. HIDE DEF q
  <2>. QED
    BY <2>1, <2>2, AskAdvance
<1>9. ASSUME NEW r \in Threads, Change(r) PROVE Advance
  <2>. DEFINE q == IF thread[r].op = "change" THEN Answering ELSE Resting
  <2>1. Went(r, q, {"link", "version"}) /\ UNCHANGED invites
    BY <1>9 DEF Change
  <2>2. q \in Handler /\ q.op \in {"idle", "answer"}
    BY AnsweringFields, IdleFields
  <2>3. user' \in Account /\ Covers({"link", "version"}) /\ Exists'
    BY <1>9, <1>t, <2>1, ChangeFacts DEF Covers, SameVersionColumn, SameLinkColumn, SameMisses, Exists, Account
  <2>. HIDE DEF q
  <2>4. ASSUME NEW x \in Threads, Marked(x, {"link", "version"}) PROVE Kept(x)
    BY <2>1, <2>2, <2>3, <2>4, MarkedKept
  <2>5. {"link", "version"} \in SUBSET Columns
    BY DEF Columns
  <2>. QED
    BY <2>1, <2>2, <2>3, <2>4, <2>5, <1>t, WentAdvance, AnsweringFields, IdleFields
<1>10. ASSUME NEW r \in Threads, ChangeEmail(r) PROVE Advance
  <2>1. Went(r, Resting, {"link"}) /\ UNCHANGED invites
    BY <1>10 DEF ChangeEmail
  <2>2. user' \in Account /\ Covers({"link"}) /\ (Exists => Exists')
    BY <1>10, <2>1, EmailFacts DEF Covers, SameVersionColumn, SameLinkColumn, SameMisses, Exists
  <2>3. ASSUME NEW x \in Threads, Marked(x, {"link"}) PROVE Kept(x)
    BY <2>1, <2>2, <2>3, MarkedKept
  <2>4. {"link"} \in SUBSET Columns
    BY DEF Columns
  <2>. QED
    BY <2>1, <2>2, <2>3, <2>4, <1>t, WentAdvance, AnsweringFields, IdleFields
<1>11. ASSUME NEW r \in Threads, AskInvite(r) PROVE Advance
  <2>. DEFINE q == [Resting EXCEPT !.op = "invite", !.was = Read("invite"), !.sent = Sent]
  <2>1. Sent \in SUBSET Nat
    BY <1>t DEF Sent
  <2>2. q \in Handler /\ q.op = "invite" /\ q.was = Read("invite") /\ q.sent = Sent
    BY <1>t, <2>1, IdleFields, ReadFields DEF Handler, Ops
  <2>3. Ask(r, q) /\ UNCHANGED <<user, invites>>
    BY <1>11 DEF AskInvite
  <2>. HIDE DEF q
  <2>. QED
    BY <2>2, <2>3, AskAdvance
<1>12. ASSUME NEW r \in Threads, Invite(r) PROVE Advance
  <2>1. Went(r, Resting, {"invites"}) /\ UNCHANGED user
    BY <1>12 DEF Invite
  <2>2. DOMAIN invites \subseteq DOMAIN invites'
    BY <1>12, <1>t DEF Invite
  <2>3. Covers({"invites"}) /\ (Exists => Exists')
    BY <2>1 DEF Covers, SameVersionColumn, SameLinkColumn, SameMisses, Exists
  <2>4. ASSUME NEW x \in Threads, Marked(x, {"invites"}) PROVE Kept(x)
    BY <2>1, <2>2, <2>3, <2>4, MarkedKept
  <2>5. {"invites"} \in SUBSET Columns
    BY DEF Columns
  <2>. QED
    BY <2>1, <2>2, <2>3, <2>4, <2>5, <1>t, WentAdvance, AnsweringFields, IdleFields
<1>13. ASSUME NEW r \in Threads, NEW i \in 1..MaxInvites, AskActivate(r, i) PROVE Advance
  <2>. DEFINE q == [Resting EXCEPT !.op = "activate", !.was = Read("activate"), !.inv = i]
  <2>1. q \in Handler /\ q.op = "activate" /\ q.was = Read("activate") /\ q.inv = i
    <3>1. i \in Nat /\ Read("activate") \in Account
      BY <1>13, <1>t, Constants, ReadFields
    <3>. QED
      BY <3>1, IdleFields DEF Handler, Ops
  <2>2. Ask(r, q) /\ UNCHANGED <<user, invites>> /\ i \in DOMAIN invites /\ Usable(i)
    BY <1>13 DEF AskActivate
  <2>. HIDE DEF q
  <2>. QED
    BY <2>1, <2>2, AskAdvance
<1>14. ASSUME NEW r \in Threads, SetUp(r) PROVE Advance
  <2>1. Went(r, Answering, {"failed", "link", "version", "invites"})
    BY <1>14 DEF SetUp
  <2>2. DOMAIN invites \subseteq DOMAIN invites'
    BY <1>14, <1>t DEF SetUp, Used
  <2>3. user' \in Account /\ user'.passwords = user.passwords + 1
    BY <1>14, SetUpFacts, Zenon
  <2>4. Exists' /\ Covers({"failed", "link", "version", "invites"})
    BY <1>t, <2>3 DEF Covers, Exists, Account
  <2>5. ASSUME NEW x \in Threads, Marked(x, {"failed", "link", "version", "invites"}) PROVE Kept(x)
    BY <2>1, <2>2, <2>3, <2>4, <2>5, MarkedKept
  <2>6. {"failed", "link", "version", "invites"} \in SUBSET Columns
    BY DEF Columns
  <2>. QED
    BY <2>1, <2>2, <2>3, <2>4, <2>5, <2>6, <1>t, WentAdvance, AnsweringFields, IdleFields
<1>15. ASSUME NEW r \in Threads, Create(r) PROVE Advance
  <2>1. Went(r, Answering, {"version", "invites"}) /\ ~Exists
    BY <1>15 DEF Create
  <2>2. DOMAIN invites \subseteq DOMAIN invites'
    BY <1>15, <1>t DEF Create, Used
  <2>3. user' \in Account /\ user'.passwords = 1
    BY <1>15, CreateFacts, Zenon
  <2>4. Exists'
    BY <2>3 DEF Exists
  <2>5. ASSUME NEW x \in Threads, Marked(x, {"version", "invites"}) PROVE Kept(x)
    <3>1. ~Setting(x)
      BY <2>1 DEF AccountSeen
    <3>2. thread[x].op \in {"invite", "activate"} => "invites" \in Minds(thread[x].op)
      BY Minding
    <3>. QED
      BY <2>5, <3>1, <3>2 DEF Kept, Marked
  <2>6. {"version", "invites"} \in SUBSET Columns
    BY DEF Columns
  <2>. QED
    BY <2>1, <2>2, <2>3, <2>4, <2>5, <2>6, <1>t, WentAdvance, AnsweringFields, IdleFields
<1>16. CASE UNCHANGED userVars
  <2>1. UNCHANGED <<user, invites, thread>>
    BY <1>16 DEF userVars
  <2>. QED
    BY <1>t, <2>1, SameKept DEF Advance, SameVersionColumn, SameLinkColumn, SameMisses, Exists
<1>. QED
  BY <1>1, <1>2, <1>3, <1>4, <1>5, <1>6, <1>7, <1>8, <1>9, <1>10, <1>11, <1>12, <1>13,
     <1>14, <1>15, <1>16 DEF UserNext

\* what handlers have read is so until they are marked
LEMMA SeenStep == TypeInv /\ Seen /\ Advance => Seen'
<1>. SUFFICES ASSUME TypeInv, Seen, Advance, NEW x \in Threads
     PROVE  /\ (Setting(x)' \/ thread'[x].op = "answer") => Exists'
            /\ Setting(x)' /\ "version" \notin thread'[x].behind => thread'[x].was.version = user'.version
            /\ Setting(x)' /\ "link" \notin thread'[x].behind
                 => (thread'[x].was.link = NoLink <=> user'.link = NoLink)
            /\ Setting(x)' /\ thread'[x].op = "activate" /\ "failed" \notin thread'[x].behind
                 => thread'[x].was.failed = user'.failed /\ thread'[x].was.locked = user'.locked
            /\ thread'[x].op = "invite" /\ "invites" \notin thread'[x].behind => thread'[x].sent = Sent'
            /\ thread'[x].op = "activate" =>
                 /\ thread'[x].inv \in DOMAIN invites'
                 /\ "invites" \notin thread'[x].behind => invites'[thread'[x].inv].status = "sent"
  BY DEF Seen, AccountSeen, VersionSeen, LinkSeen, MissesSeen, InvitesSeen
<1>1. CASE Kept(x)
  <2>1. /\ thread'[x].op = thread[x].op /\ thread'[x].was = thread[x].was
        /\ thread'[x].inv = thread[x].inv /\ thread'[x].sent = thread[x].sent
        /\ \A c : c \notin thread'[x].behind => c \notin thread[x].behind
    BY <1>1 DEF Kept
  <2>2. Setting(x)' <=> Setting(x)
    BY <2>1 DEF Setting
  <2>3. (Setting(x)' \/ thread'[x].op = "answer") => Exists'
    BY <2>1, <2>2 DEF Seen, AccountSeen, Advance
  <2>4. Setting(x)' /\ "version" \notin thread'[x].behind => thread'[x].was.version = user'.version
    BY <1>1, <2>1, <2>2 DEF Kept, SameVersionColumn, Seen, VersionSeen
  <2>5. Setting(x)' /\ "link" \notin thread'[x].behind
          => (thread'[x].was.link = NoLink <=> user'.link = NoLink)
    BY <1>1, <2>1, <2>2 DEF Kept, SameLinkColumn, Seen, LinkSeen
  <2>6. Setting(x)' /\ thread'[x].op = "activate" /\ "failed" \notin thread'[x].behind
          => thread'[x].was.failed = user'.failed /\ thread'[x].was.locked = user'.locked
    BY <1>1, <2>1, <2>2 DEF Kept, SameMisses, Seen, MissesSeen
  <2>7. thread'[x].op = "invite" /\ "invites" \notin thread'[x].behind => thread'[x].sent = Sent'
    BY <1>1, <2>1 DEF Kept, Seen, InvitesSeen, Sent
  <2>8. thread'[x].op = "activate" =>
          /\ thread'[x].inv \in DOMAIN invites'
          /\ "invites" \notin thread'[x].behind => invites'[thread'[x].inv].status = "sent"
    BY <1>1, <2>1 DEF Kept, Seen, InvitesSeen, Advance
  <2>. QED
    BY <2>3, <2>4, <2>5, <2>6, <2>7, <2>8
<1>2. CASE Asked(x)
  <2>1. /\ user' = user /\ invites' = invites /\ Exists' = Exists /\ Sent' = Sent
        /\ thread'[x].was = Read(thread'[x].op) /\ user \in Account
    BY <1>2 DEF Asked, Exists, Sent, TypeInv
  <2>2. Setting(x)' => thread'[x].op \in {"change", "set", "activate"}
    BY DEF Setting
  <2>3. Setting(x)' => /\ thread'[x].was.version = user'.version
                       /\ (thread'[x].was.link = NoLink <=> user'.link = NoLink)
    BY <2>1, <2>2, ReadFields
  <2>4. thread'[x].op = "activate" =>
          thread'[x].was.failed = user'.failed /\ thread'[x].was.locked = user'.locked
    BY <2>1, ReadFields
  <2>5. Setting(x)' => Exists'
    <3>1. CASE thread'[x].op \in {"change", "set"}
      BY <1>2, <2>1, <3>1 DEF Asked
    <3>2. CASE thread'[x].op = "activate" /\ thread'[x].was.passwords # 0
      BY <2>1, <3>2, ReadFields
    <3>. QED
      BY <3>1, <3>2 DEF Setting
  <2>. QED
    BY <1>2, <2>1, <2>3, <2>4, <2>5 DEF Asked, Usable
<1>3. CASE Done(x)
  BY <1>3 DEF Done, Setting
<1>. QED
  BY <1>1, <1>2, <1>3 DEF Advance

-----------------------------------------------------------------------------
(* Invitations                                                               *)

\* the invitations others than the one used stay as they are
LEMMA UsedFacts ==
  ASSUME TypeInv, InvitesSeen, NEW r \in Threads, thread[r].op = "activate", Used(thread[r])
  PROVE  /\ thread[r].inv \in DOMAIN invites
         /\ invites' \in Seq(Letter) /\ Len(invites') = Len(invites)
         /\ \A j \in DOMAIN invites : j # thread[r].inv => invites'[j] = invites[j]
         /\ invites'[thread[r].inv].status = "activated"
         /\ invites'[thread[r].inv].uses =
              invites[thread[r].inv].uses + (IF "invites" \in thread[r].behind THEN 0 ELSE 1)
<1>. DEFINE i == thread[r].inv
            n == IF "invites" \in thread[r].behind THEN 0 ELSE 1
            l == [invites[i] EXCEPT !.status = "activated", !.uses = @ + n]
<1>1. i \in DOMAIN invites /\ invites \in Seq(Letter) /\ n \in {0, 1}
  BY DEF TypeInv, InvitesSeen
<1>2. invites[i] \in Letter
  BY <1>1
<1>3. invites' = [invites EXCEPT ![i] = l]
  BY <1>1, <1>2 DEF Used, Letter
<1>. HIDE DEF i, n
<1>4. l \in Letter /\ l.status = "activated" /\ l.uses = invites[i].uses + n
  <2>. DEFINE m == invites[i].uses + n
  <2>1. m \in Nat
    BY <1>1, <1>2 DEF Letter
  <2>2. l = [invites[i] EXCEPT !.status = "activated", !.uses = m]
    BY <1>2 DEF Letter
  <2>. HIDE DEF m, l
  <2>3. l \in Letter /\ l.status = "activated" /\ l.uses = m
    BY <1>2, <2>1, <2>2 DEF Letter
  <2>. QED
    BY <2>3 DEF m
<1>. HIDE DEF l
<1>5. invites' \in Seq(Letter) /\ Len(invites') = Len(invites) /\ invites'[i] = l
  BY <1>1, <1>3, <1>4
<1>6. \A j \in DOMAIN invites : j # i => invites'[j] = invites[j]
  BY <1>1, <1>3
<1>. QED
  BY <1>1, <1>4, <1>5, <1>6 DEF i, n

\* the new one comes last, and those the handler has found are revoked
LEMMA InviteFacts ==
  ASSUME TypeInv, NEW r \in Threads, Invite(r)
  PROVE  LET n == Len(invites) IN
         /\ invites' \in Seq(Letter) /\ Len(invites') = n + 1
         /\ \A j \in 1..n :
              /\ invites'[j].uses = invites[j].uses /\ invites'[j].late = invites[j].late
              /\ invites'[j].status = "sent" => j \notin thread[r].sent /\ invites[j].status = "sent"
         /\ invites'[n + 1].uses = 0 /\ invites'[n + 1].late = ("invites" \in thread[r].behind)
<1>. DEFINE n == Len(invites)
            Withdraws(j) == IF j \in thread[r].sent THEN [invites[j] EXCEPT !.status = "revoked"]
                          ELSE invites[j]
            revoked == [j \in DOMAIN invites |-> Withdraws(j)]
            l == [status |-> "sent",
                  purpose |-> IF thread[r].was.passwords = 0 THEN "activation" ELSE "setup",
                  uses |-> 0, late |-> "invites" \in thread[r].behind]
<1>1. invites \in Seq(Letter) /\ n \in Nat /\ DOMAIN invites = 1..n
  BY DEF TypeInv
<1>2. invites' = Append(revoked, l)
  BY DEF Invite
<1>3. \A j \in 1..n : /\ Withdraws(j) \in Letter
                      /\ Withdraws(j).uses = invites[j].uses /\ Withdraws(j).late = invites[j].late
                      /\ Withdraws(j).status = "sent" =>
                           j \notin thread[r].sent /\ invites[j].status = "sent"
  <2>. TAKE j \in 1..n
  <2>1. invites[j] \in Letter
    BY <1>1
  <2>. QED
    BY <2>1 DEF Letter
<1>. HIDE DEF Withdraws
<1>4. revoked \in Seq(Letter) /\ Len(revoked) = n /\ \A j \in 1..n : revoked[j] = Withdraws(j)
  BY <1>1, <1>3
<1>. HIDE DEF revoked
<1>5. l \in Letter /\ l.uses = 0 /\ l.late = ("invites" \in thread[r].behind)
  BY DEF Letter
<1>. HIDE DEF l, n
<1>6. /\ invites' \in Seq(Letter) /\ Len(invites') = n + 1 /\ invites'[n + 1] = l
      /\ \A j \in 1..n : invites'[j] = revoked[j]
  BY <1>1, <1>2, <1>4, <1>5
<1>. QED
  BY <1>3, <1>4, <1>5, <1>6 DEF n

\* what a step does to the invitations
LEMMA InvitesStep ==
  ASSUME TypeInv, UserNext
  PROVE  \/ invites' = invites
         \/ \E r \in Threads : Invite(r)
         \/ \E r \in Threads : thread[r].op = "activate" /\ Used(thread[r])
BY DEF UserNext, Miss, ForgotPassword, ResetPassword, Unlock, SetActive, Login, Answer, AskChange,
       Change, ChangeEmail, AskInvite, AskActivate, SetUp, Create, Fails

LEMMA OneInvitationStep ==
  TypeInv /\ InvitesSeen /\ UsesCounted /\ OneInvitation /\ [UserNext]_userVars
    => invites' \in Seq(Letter) /\ UsesCounted' /\ OneInvitation'
<1>. SUFFICES ASSUME TypeInv, InvitesSeen, UsesCounted, OneInvitation, [UserNext]_userVars
              PROVE  invites' \in Seq(Letter) /\ UsesCounted' /\ OneInvitation'
  OBVIOUS
<1>t. /\ invites \in Seq(Letter) /\ Len(invites) \in Nat /\ DOMAIN invites = 1..Len(invites)
      /\ \A i \in DOMAIN invites : invites[i] \in Letter
  BY DEF TypeInv
<1>1. CASE invites' = invites
  BY <1>1, <1>t DEF UsesCounted, OneInvitation
<1>2. ASSUME NEW r \in Threads, Invite(r)
      PROVE  invites' \in Seq(Letter) /\ UsesCounted' /\ OneInvitation'
  <2>. DEFINE n == Len(invites)
  <2>1. /\ invites' \in Seq(Letter) /\ Len(invites') = n + 1 /\ DOMAIN invites' = 1..(n + 1)
        /\ invites'[n + 1].uses = 0
    BY <1>2, InviteFacts
  <2>2. invites'[n + 1].late = ("invites" \in thread[r].behind)
    BY <1>2, InviteFacts
  <2>3. \A j \in 1..n :
          /\ invites'[j].uses = invites[j].uses /\ invites'[j].late = invites[j].late
          /\ invites'[j].status = "sent" => j \notin thread[r].sent /\ invites[j].status = "sent"
    BY <1>2, InviteFacts
  <2>4. UsesCounted'
    BY <1>t, <2>1, <2>3 DEF UsesCounted
  <2>5. ASSUME NEW i \in 1..(n + 1), NEW j \in 1..(n + 1), i < j,
               invites'[i].status = "sent", invites'[j].status = "sent"
        PROVE  invites'[j].late
    <3>1. i \in 1..n /\ i \in DOMAIN invites /\ invites[i].status = "sent" /\ i \notin thread[r].sent
      BY <1>t, <2>3, <2>5
    <3>2. CASE j = n + 1
      <4>1. thread[r].sent # Sent
        BY <3>1 DEF Sent
      <4>2. "invites" \in thread[r].behind
        BY <1>2, <4>1 DEF InvitesSeen, Invite
      <4>. QED
        BY <2>2, <3>2, <4>2
    <3>3. CASE j \in 1..n
      BY <1>t, <2>3, <2>5, <3>1, <3>3 DEF OneInvitation
    <3>. QED
      BY <1>t, <3>2, <3>3
  <2>. QED
    BY <2>1, <2>4, <2>5 DEF OneInvitation
<1>3. ASSUME NEW r \in Threads, thread[r].op = "activate", Used(thread[r])
      PROVE  invites' \in Seq(Letter) /\ UsesCounted' /\ OneInvitation'
  <2>. DEFINE i == thread[r].inv
  <2>1. /\ i \in DOMAIN invites /\ invites' \in Seq(Letter) /\ DOMAIN invites' = DOMAIN invites
        /\ \A j \in DOMAIN invites : j # i => invites'[j] = invites[j]
        /\ invites'[i].status = "activated"
    BY <1>3, <1>t, UsedFacts
  <2>2. invites'[i].uses = invites[i].uses + (IF "invites" \in thread[r].behind THEN 0 ELSE 1)
    BY <1>3, UsedFacts
  <2>3. "invites" \notin thread[r].behind => invites[i].status = "sent"
    BY <1>3 DEF InvitesSeen
  <2>4. invites[i].uses \in Nat /\ invites[i].uses <= 1
        /\ (invites[i].status = "sent" => invites[i].uses = 0)
    BY <1>t, <2>1 DEF Letter, UsesCounted
  <2>5. invites'[i].uses <= 1
    BY <2>2, <2>3, <2>4
  <2>. HIDE DEF i
  <2>6. UsesCounted'
    BY <2>1, <2>5 DEF UsesCounted
  <2>7. OneInvitation'
    BY <2>1 DEF OneInvitation
  <2>. QED
    BY <2>1, <2>6, <2>7
<1>4. CASE UNCHANGED userVars
  BY <1>1, <1>4 DEF userVars
<1>. QED
  BY <1>1, <1>2, <1>3, <1>4, InvitesStep

-----------------------------------------------------------------------------
(* Sessions                                                                  *)

\* after a new password, no session is of the password in force
LEMMA AfterFacts ==
  ASSUME sessions \subseteq Session, NEW overtaken \in BOOLEAN
  PROVE  /\ SessionsAfter(overtaken) \subseteq Session
         /\ \A s \in SessionsAfter(overtaken) :
              /\ s.pw # "unknown" => ~overtaken
              /\ s.pw # "unknown" => \E t \in sessions : s.version = t.version /\ t.pw # "unknown"
<1>. SUFFICES ASSUME NEW t \in sessions
     PROVE  LET s == [t EXCEPT !.pw = IF overtaken \/ @ = "unknown" THEN "unknown" ELSE "former"]
            IN /\ s \in Session /\ s.version = t.version
               /\ s.pw # "unknown" => ~overtaken /\ t.pw # "unknown"
  BY DEF SessionsAfter
<1>. QED
  BY DEF Session

\* a step that sets a password from the version v, which is the one in force
\* unless the handler was overtaken
LEMMA PasswordSessions ==
  ASSUME TypeInv, SessionsBehind, Exists, Exists', NEW overtaken \in BOOLEAN,
         sessions' = SessionsAfter(overtaken),
         ~overtaken => user'.version = user.version + 1
  PROVE  sessions' \subseteq Session /\ SessionsBehind'
<1>1. /\ sessions' \subseteq Session
      /\ \A s \in sessions' :
           /\ s.pw # "unknown" => ~overtaken
           /\ s.pw # "unknown" => \E t \in sessions : s.version = t.version /\ t.pw # "unknown"
  BY AfterFacts DEF TypeInv
<1>2. ASSUME NEW s \in sessions', s.pw # "unknown" PROVE s.version < user'.version
  <2>1. PICK t \in sessions : s.version = t.version /\ t.pw # "unknown"
    BY <1>1, <1>2
  <2>2. t.version <= user.version /\ t.version \in Nat /\ user.version \in Nat
    BY <2>1 DEF SessionsBehind, TypeInv, Session, Account
  <2>3. user'.version = user.version + 1
    BY <1>1, <1>2
  <2>. QED
    BY <2>1, <2>2, <2>3
<1>3. ASSUME NEW s \in sessions', s.pw # "unknown"
      PROVE  s.version <= user'.version /\ s.version < user'.version
  <2>1. s.version < user'.version /\ s.version \in Nat
    BY <1>1, <1>2, <1>3 DEF Session
  <2>2. user'.version = user.version + 1 /\ user.version \in Nat
    BY <1>1, <1>3 DEF TypeInv, Account
  <2>. QED
    BY <2>1, <2>2
<1>. QED
  BY <1>1, <1>3 DEF SessionsBehind

\* a step that leaves the sessions, and does not take the version back
LEMMA SameSessions ==
  ASSUME TypeInv, SessionsBehind, sessions' = sessions, Exists => Exists',
         Exists => user'.version \in Nat /\ user'.version >= user.version
  PROVE  sessions' \subseteq Session /\ SessionsBehind'
<1>1. sessions' \subseteq Session /\ user.version \in Nat
  BY DEF TypeInv, Account
<1>2. ~Exists' => sessions' = {}
  BY DEF SessionsBehind
<1>3. ASSUME NEW s \in sessions'
      PROVE  /\ s.pw # "unknown" => s.version <= user'.version
             /\ s.pw = "former" => s.version < user'.version
  <2>1. Exists /\ s \in sessions /\ s.version \in Nat
    BY <1>1, <1>3 DEF SessionsBehind, Session
  <2>2. /\ s.pw # "unknown" => s.version <= user.version
        /\ s.pw = "former" => s.version < user.version
    BY <2>1 DEF SessionsBehind
  <2>. QED
    BY <1>1, <2>1, <2>2
<1>. QED
  BY <1>1, <1>2, <1>3 DEF SessionsBehind

LEMMA SessionsStep ==
  TypeInv /\ Seen /\ Bounded /\ SessionsBehind /\ Advance /\ [UserNext]_userVars
    => sessions' \subseteq Session /\ SessionsBehind'
<1>. SUFFICES ASSUME TypeInv, Seen, Bounded, SessionsBehind, Advance, [UserNext]_userVars
              PROVE  sessions' \subseteq Session /\ SessionsBehind'
  OBVIOUS
<1>. DEFINE Goal == sessions' \subseteq Session /\ SessionsBehind'
<1>t. user \in Account /\ user.version \in Nat /\ (Exists => Exists') /\ thread \in [Threads -> Handler]
  BY DEF TypeInv, Account, Advance
<1>1. ASSUME sessions' = sessions, user'.version \in {user.version, user.version + 1}
      PROVE  Goal
  <2>1. user'.version \in Nat /\ user'.version >= user.version
    BY <1>1, <1>t
  <2>. QED
    BY <1>1, <1>t, <2>1, SameSessions
<1>2. CASE Miss
  <2>1. user'.version \in {user.version, user.version + 1}
    BY <1>2, MissFacts, Zenon
  <2>. QED
    BY <1>1, <1>2, <2>1 DEF Miss
<1>3. CASE ForgotPassword
  BY <1>1, <1>3, ForgotFacts DEF ForgotPassword
<1>4. CASE Unlock
  BY <1>1, <1>4, UnlockFacts DEF Unlock
<1>5. CASE SetActive
  BY <1>1, <1>5, ActiveFacts DEF SetActive
<1>6. ASSUME NEW r \in Threads, Login(r) PROVE Goal
  BY <1>1, <1>6, LoginFacts DEF Login
<1>7. ASSUME NEW r \in Threads, ChangeEmail(r) PROVE Goal
  <2>1. user'.version = user.version
    BY <1>7, EmailFacts, Zenon
  <2>. QED
    BY <1>1, <1>7, <2>1 DEF ChangeEmail
<1>8. ASSUME NEW r \in Threads, Answer(r) PROVE Goal
  <2>. DEFINE pw == IF "version" \in thread[r].behind THEN "unknown" ELSE "current"
              s == [version |-> user.version, pw |-> pw]
  <2>1. /\ sessions' = sessions \cup {s} /\ user' = user
        /\ thread[r].op = "answer"
    BY <1>8 DEF Answer
  <2>2. Exists
    BY <2>1 DEF Seen, AccountSeen
  <2>3. s \in Session /\ s.version = user.version /\ s.pw # "former"
    BY <1>t DEF Session
  <2>. HIDE DEF s
  <2>4. SessionsBehind'
    BY <1>t, <2>1, <2>2, <2>3 DEF SessionsBehind
  <2>. QED
    BY <2>1, <2>3, <2>4 DEF TypeInv
<1>9. CASE ResetPassword
  <2>1. sessions' = SessionsAfter(FALSE)
    BY <1>9 DEF ResetPassword
  <2>2. user.link # NoLink /\ PasswordsLeft
    BY <1>9 DEF ResetPassword
  <2>3. user'.version = user.version + 1 /\ user'.passwords = user.passwords + 1
    BY <1>9, ResetFacts
  <2>4. CASE Exists
    BY <1>t, <2>1, <2>3, <2>4, PasswordSessions
  <2>5. CASE ~Exists
    <3>1. sessions = {}
      BY <2>5 DEF SessionsBehind
    <3>2. sessions' = {}
      BY <2>1, <3>1 DEF SessionsAfter
    <3>. QED
      BY <3>2 DEF SessionsBehind
  <2>. QED
    BY <2>4, <2>5
<1>10. ASSUME NEW r \in Threads, Change(r) \/ SetUp(r) PROVE Goal
  <2>. DEFINE overtaken == "version" \in thread[r].behind
  <2>1. sessions' = SessionsAfter(overtaken) /\ Setting(r)
    BY <1>10 DEF Change, SetUp, Setting
  <2>2. Exists /\ (~overtaken => thread[r].was.version = user.version)
    BY <2>1 DEF Seen, AccountSeen, VersionSeen
  <2>3. user'.version = thread[r].was.version + 1
    <3>1. CASE Change(r)
      BY <3>1, ChangeFacts, Zenon
    <3>2. CASE SetUp(r)
      BY <3>2, SetUpFacts, Zenon
    <3>. QED
      BY <1>10, <3>1, <3>2
  <2>4. overtaken \in BOOLEAN
    OBVIOUS
  <2>. HIDE DEF overtaken
  <2>. QED
    BY <1>t, <2>1, <2>2, <2>3, <2>4, PasswordSessions
<1>11. ASSUME NEW r \in Threads, Create(r) PROVE Goal
  <2>1. ~Exists /\ sessions' = sessions
    BY <1>11 DEF Create
  <2>. QED
    BY <1>t, <2>1, SameSessions
<1>12. CASE UNCHANGED <<user, sessions>>
  BY <1>1, <1>12
<1>. QED
  BY <1>2, <1>3, <1>4, <1>5, <1>6, <1>7, <1>8, <1>9, <1>10, <1>11, <1>12
     DEF UserNext, AskChange, AskInvite, Invite, AskActivate, Fails, userVars

-----------------------------------------------------------------------------
(* Links and misses                                                          *)

LEMMA LinkStep ==
  TypeInv /\ Seen /\ Bounded /\ LinkFollowsPassword /\ [UserNext]_userVars => LinkFollowsPassword'
<1>. SUFFICES ASSUME TypeInv, Seen, Bounded, LinkFollowsPassword, [UserNext]_userVars,
                     user'.link = "former"
              PROVE  "link" \in loose'
  BY DEF LinkFollowsPassword
<1>1. ASSUME user'.link = user.link, loose \ {"failed"} \subseteq loose' PROVE "link" \in loose'
  BY <1>1 DEF LinkFollowsPassword
<1>2. CASE Miss
  <2>1. user'.link = user.link
    BY <1>2, MissFacts, Zenon
  <2>. QED
    BY <1>1, <1>2, <2>1 DEF Miss
<1>3. CASE ForgotPassword \/ ResetPassword \/ Unlock
  <2>1. user'.link \in {"current", NoLink}
    BY <1>3, ForgotFacts, ResetFacts, UnlockFacts, Zenon
  <2>. QED
    BY <2>1, Constants
<1>4. CASE SetActive
  BY <1>1, <1>4, ActiveFacts DEF SetActive
<1>5. ASSUME NEW r \in Threads, Login(r) PROVE "link" \in loose'
  BY <1>1, <1>5, LoginFacts DEF Login
<1>6. ASSUME NEW r \in Threads, Change(r) \/ SetUp(r) PROVE "link" \in loose'
  <2>1. user'.link = IF thread[r].was.link # NoLink \/ user.link = NoLink THEN NoLink ELSE "former"
    BY <1>6, ChangeFacts, SetUpFacts, Zenon
  <2>2. thread[r].was.link = NoLink /\ user.link # NoLink
    BY <2>1, Constants
  <2>3. Setting(r) /\ thread[r].behind \in SUBSET Columns
    BY <1>6 DEF Change, SetUp, Setting, TypeInv, Handler
  <2>4. "link" \in thread[r].behind
    BY <2>2, <2>3 DEF Seen, LinkSeen
  <2>. QED
    BY <1>6, <2>4 DEF Change, SetUp
<1>7. ASSUME NEW r \in Threads, ChangeEmail(r) PROVE "link" \in loose'
  <2>1. user'.link = IF thread[r].was.link # NoLink THEN NoLink ELSE user.link
    BY <1>7, EmailFacts
  <2>2. user'.link = user.link
    BY <2>1, Constants
  <2>. QED
    BY <1>1, <1>7, <2>2 DEF ChangeEmail
<1>8. ASSUME NEW r \in Threads, Create(r) PROVE "link" \in loose'
  <2>1. user'.link = NoLink
    BY <1>8, CreateFacts, Zenon
  <2>. QED
    BY <2>1, Constants
<1>9. CASE UNCHANGED <<user, loose>>
  BY <1>1, <1>9
<1>. QED
  BY <1>2, <1>3, <1>4, <1>5, <1>6, <1>7, <1>8, <1>9
     DEF UserNext, Answer, AskChange, AskInvite, Invite, AskActivate, Fails, userVars

\* the misses of the row, and whether they lock it
LEMMA MissesStep ==
  TypeInv /\ Seen /\ Bounded /\ LockMatchesMisses /\ [UserNext]_userVars
    => LockMatchesMisses' /\ user'.failed <= MaxFailed
<1>. SUFFICES ASSUME TypeInv, Seen, Bounded, LockMatchesMisses, [UserNext]_userVars
              PROVE  LockMatchesMisses' /\ user'.failed <= MaxFailed
  OBVIOUS
<1>. DEFINE Goal == LockMatchesMisses' /\ user'.failed <= MaxFailed
<1>t. user \in Account /\ user.failed \in Nat /\ user.failed <= MaxFailed
  BY DEF TypeInv, Account, Bounded
<1>1. ASSUME user'.failed = user.failed, user'.locked = user.locked,
             loose \ {"link"} \subseteq loose'
      PROVE  Goal
  <2>1. "failed" \notin loose' => "failed" \notin loose
    BY <1>1
  <2>. QED
    BY <1>t, <1>1, <2>1 DEF LockMatchesMisses
<1>2. ASSUME user'.failed = 0, user'.locked = FALSE PROVE Goal
  <2>1. 0 # MaxFailed /\ 0 <= MaxFailed
    BY Constants
  <2>. QED
    BY <1>2, <2>1 DEF LockMatchesMisses
<1>3. CASE Miss
  <2>1. user'.failed <= MaxFailed /\ (user'.locked <=> user'.failed = MaxFailed)
    BY <1>3, MissFacts, Zenon
  <2>. QED
    BY <2>1 DEF LockMatchesMisses
<1>4. CASE ForgotPassword
  BY <1>1, <1>4, ForgotFacts DEF ForgotPassword
<1>5. CASE ResetPassword
  BY <1>2, <1>5, ResetFacts
<1>6. CASE Unlock
  BY <1>2, <1>6, UnlockFacts
<1>7. CASE SetActive
  BY <1>1, <1>7, ActiveFacts DEF SetActive
<1>8. ASSUME NEW r \in Threads, Login(r) PROVE Goal
  BY <1>2, <1>8, LoginFacts
<1>9. ASSUME NEW r \in Threads, Change(r) PROVE Goal
  <2>1. user'.failed = user.failed /\ user'.locked = user.locked
    BY <1>9, ChangeFacts, Zenon
  <2>. QED
    BY <1>1, <1>9, <2>1 DEF Change
<1>10. ASSUME NEW r \in Threads, SetUp(r) PROVE Goal
  <2>. DEFINE was == thread[r].was
  <2>1. /\ user'.failed = IF was.failed # 0 THEN 0 ELSE user.failed
        /\ user'.locked = IF was.locked THEN FALSE ELSE user.locked
    BY <1>10, SetUpFacts, Zenon
  <2>2. was \in Account /\ Setting(r) /\ thread[r].op = "activate"
    BY <1>10 DEF SetUp, Setting, TypeInv, Handler
  <2>3. user'.failed <= MaxFailed
    <3>1. user'.failed \in {0, user.failed}
      BY <2>1, Zenon
    <3>. QED
      BY <3>1, <1>t, Constants
  <2>4. CASE "failed" \in thread[r].behind
    <3>1. "failed" \in loose'
      BY <1>10, <2>4 DEF SetUp
    <3>. QED
      BY <2>3, <3>1 DEF LockMatchesMisses
  <2>5. CASE "failed" \notin thread[r].behind
    <3>1. was.failed = user.failed /\ was.locked = user.locked
      BY <2>2, <2>5 DEF Seen, MissesSeen
    <3>2. user'.failed = 0
      BY <2>1, <3>1, Zenon
    <3>3. user'.locked = FALSE
      BY <2>1, <3>1, <1>t, Zenon DEF Account
    <3>. QED
      BY <1>2, <3>2, <3>3
  <2>. QED
    BY <2>4, <2>5
<1>11. ASSUME NEW r \in Threads, ChangeEmail(r) PROVE Goal
  <2>1. user'.failed = user.failed /\ user'.locked = user.locked
    BY <1>11, EmailFacts, Zenon
  <2>. QED
    BY <1>1, <1>11, <2>1 DEF ChangeEmail
<1>12. ASSUME NEW r \in Threads, Create(r) PROVE Goal
  BY <1>2, <1>12, CreateFacts, Zenon
<1>13. CASE UNCHANGED <<user, loose>>
  BY <1>1, <1>13
<1>. QED
  BY <1>3, <1>4, <1>5, <1>6, <1>7, <1>8, <1>9, <1>10, <1>11, <1>12, <1>13
     DEF UserNext, Answer, AskChange, AskInvite, Invite, AskActivate, Fails, userVars

-----------------------------------------------------------------------------
(* The bounds                                                                *)

\* one handler more, or one less
LEMMA Counting ==
  ASSUME NEW S \in SUBSET Threads, NEW T \in SUBSET Threads, NEW r
  PROVE  /\ Cardinality(S) \in Nat /\ Cardinality(T) \in Nat
         /\ T \subseteq S => Cardinality(T) <= Cardinality(S)
         /\ T \subseteq S \cup {r} => Cardinality(T) <= Cardinality(S) + 1
         /\ r \in S /\ T \subseteq S \ {r} => Cardinality(T) + 1 <= Cardinality(S)
<1>1. IsFiniteSet(S) /\ IsFiniteSet(T)
  BY FiniteRequests, FS_Subset
<1>2. Cardinality(S) \in Nat /\ Cardinality(T) \in Nat
  BY <1>1, FS_CardinalityType
<1>3. T \subseteq S => Cardinality(T) <= Cardinality(S)
  BY <1>1, FS_Subset
<1>4. ASSUME T \subseteq S \cup {r} PROVE Cardinality(T) <= Cardinality(S) + 1
  <2>0. /\ IsFiniteSet(S \cup {r})
        /\ Cardinality(S \cup {r}) = IF r \in S THEN Cardinality(S) ELSE Cardinality(S) + 1
    BY <1>1, FS_AddElement, Zenon
  <2>1. IsFiniteSet(S \cup {r}) /\ Cardinality(S \cup {r}) <= Cardinality(S) + 1
    BY <1>2, <2>0
  <2>2. Cardinality(T) <= Cardinality(S \cup {r}) /\ Cardinality(S \cup {r}) \in Nat
    BY <1>4, <2>1, FS_Subset, FS_CardinalityType
  <2>. QED
    BY <1>2, <2>1, <2>2
<1>5. ASSUME r \in S, T \subseteq S \ {r} PROVE Cardinality(T) + 1 <= Cardinality(S)
  <2>1. IsFiniteSet(S \ {r}) /\ Cardinality(S \ {r}) = Cardinality(S) - 1
    BY <1>1, <1>5, FS_RemoveElement
  <2>2. Cardinality(T) <= Cardinality(S \ {r})
    BY <1>5, <2>1, FS_Subset
  <2>. QED
    BY <1>2, <2>1, <2>2
<1>. QED
  BY <1>2, <1>3, <1>4, <1>5

\* the handlers but those in R are at the same operation
Steady(R) == \A x \in Threads \ R : thread'[x].op = thread[x].op

LEMMA WroteSteady ==
  ASSUME TypeInv, NEW cols \in SUBSET Columns, Wrote(cols) PROVE Steady({})
BY WroteFacts DEF TypeInv, Steady, Marked

LEMMA WentSteady ==
  ASSUME TypeInv, NEW r \in Threads, NEW q \in Handler, NEW cols \in SUBSET Columns,
         Went(r, q, cols)
  PROVE  Steady({r}) /\ thread'[r] = q
BY WentFacts DEF TypeInv, Steady, Marked

LEMMA AskSteady ==
  ASSUME TypeInv, NEW r \in Threads, NEW q \in Handler, Ask(r, q)
  PROVE  Steady({r}) /\ thread'[r] = q /\ thread[r].op = "idle"
BY AskFacts, IdleFields DEF TypeInv, Steady

\* what a step does to the handlers at work, by what it does to the bounds
LEMMA Sparing ==
  ASSUME NEW r, Steady({r}), r \in Threads => thread'[r].op \notin {"activate", "change", "set"}
  PROVE  Passwording' \subseteq Passwording
BY DEF Steady, Passwording

LEMMA PasswordsStep ==
  TypeInv /\ Bounded /\ [UserNext]_userVars
    => user'.passwords + Cardinality(Passwording') <= MaxPasswords
<1>. SUFFICES ASSUME TypeInv, Bounded, [UserNext]_userVars
              PROVE  user'.passwords + Cardinality(Passwording') <= MaxPasswords
  OBVIOUS
<1>. DEFINE Goal == user'.passwords + Cardinality(Passwording') <= MaxPasswords
<1>. USE DEF Columns
<1>t. /\ user \in Account /\ user.passwords \in Nat /\ thread \in [Threads -> Handler]
      /\ user.passwords + Cardinality(Passwording) <= MaxPasswords /\ MaxPasswords \in Nat \ {0}
      /\ Passwording \in SUBSET Threads /\ Passwording' \in SUBSET Threads
      /\ Cardinality(Passwording) \in Nat /\ Cardinality(Passwording') \in Nat
  BY Constants, Counting DEF TypeInv, Bounded, Account, Passwording
<1>1. ASSUME user'.passwords = user.passwords, Passwording' \subseteq Passwording PROVE Goal
  BY <1>t, <1>1, Counting
<1>2. ASSUME NEW r, user'.passwords = user.passwords, Passwording' \subseteq Passwording \cup {r},
             PasswordsLeft
      PROVE  Goal
  <2>1. user.passwords + Cardinality(Passwording) < MaxPasswords
    BY <1>2 DEF PasswordsLeft, Passwording
  <2>2. Cardinality(Passwording') <= Cardinality(Passwording) + 1
    BY <1>t, <1>2, Counting
  <2>. QED
    BY <1>t, <1>2, <2>1, <2>2
<1>3. ASSUME NEW r, user'.passwords = user.passwords + 1, r \in Passwording,
             Passwording' \subseteq Passwording \ {r}
      PROVE  Goal
  <2>1. Cardinality(Passwording') + 1 <= Cardinality(Passwording)
    BY <1>t, <1>3, Counting
  <2>. QED
    BY <1>t, <1>3, <2>1
<1>4. Steady({}) => Passwording' \subseteq Passwording
  BY DEF Steady, Passwording
<1>5. CASE Miss
  <2>1. user'.passwords = user.passwords
    BY <1>5, MissFacts, Zenon
  <2>2. Steady({})
    BY <1>5, MissFacts, WroteSteady
  <2>. QED
    BY <1>1, <1>4, <2>1, <2>2
<1>6. CASE ForgotPassword
  BY <1>1, <1>4, <1>6, ForgotFacts, WroteSteady DEF ForgotPassword
<1>7. CASE Unlock
  BY <1>1, <1>4, <1>7, UnlockFacts, WroteSteady DEF Unlock
<1>8. CASE ResetPassword
  <2>1. user'.passwords = user.passwords + 1
    BY <1>8, ResetFacts
  <2>2. Passwording' \subseteq Passwording
    BY <1>4, <1>8, WroteSteady DEF ResetPassword
  <2>3. user.passwords + Cardinality(Passwording) < MaxPasswords
    BY <1>8 DEF ResetPassword, PasswordsLeft, Passwording
  <2>4. Cardinality(Passwording') <= Cardinality(Passwording)
    BY <1>t, <2>2, Counting
  <2>. QED
    BY <1>t, <2>1, <2>3, <2>4
<1>9. CASE SetActive
  <2>1. user'.passwords = user.passwords
    BY <1>9, ActiveFacts
  <2>. QED
    BY <1>1, <1>9, <2>1 DEF SetActive, Passwording
<1>10. ASSUME NEW r \in Threads, Login(r) PROVE Goal
  <2>1. user'.passwords = user.passwords
    BY <1>10, LoginFacts
  <2>2. Steady({r}) /\ thread'[r].op = "answer"
    BY <1>10, WentSteady, AnsweringFields DEF Login
  <2>. QED
    BY <1>1, <2>1, <2>2, Sparing
<1>11. ASSUME NEW r \in Threads, Answer(r) \/ Fails(r) PROVE Goal
  <2>1. thread' = [thread EXCEPT ![r] = Resting] /\ user' = user
    BY <1>11 DEF Answer, Fails
  <2>2. Passwording' \subseteq Passwording
    BY <1>t, <2>1, IdleFields DEF Passwording
  <2>. QED
    BY <1>1, <2>1, <2>2
<1>12. ASSUME NEW r \in Threads, NEW op \in {"change", "set", "email"}, AskChange(r, op) PROVE Goal
  <2>. DEFINE q == [Resting EXCEPT !.op = op, !.was = Read(op)]
  <2>1. q \in Handler /\ q.op = op
    BY <1>t, IdleFields, ReadFields DEF Handler, Ops
  <2>2. Ask(r, q) /\ user' = user /\ (op # "email" => PasswordsLeft)
    BY <1>12 DEF AskChange
  <2>. HIDE DEF q
  <2>3. Steady({r}) /\ thread'[r].op = op
    BY <2>1, <2>2, AskSteady
  <2>4. CASE op = "email"
    BY <1>1, <2>2, <2>3, <2>4, Sparing
  <2>5. CASE op # "email"
    <3>1. Passwording' \subseteq Passwording \cup {r}
      BY <2>3 DEF Steady, Passwording
    <3>. QED
      BY <1>2, <2>2, <2>5, <3>1
  <2>. QED
    BY <2>4, <2>5
<1>13. ASSUME NEW r \in Threads, Change(r) \/ SetUp(r) PROVE Goal
  <2>1. user'.passwords = user.passwords + 1
    BY <1>13, ChangeFacts, SetUpFacts, Zenon
  <2>2. Steady({r}) /\ thread'[r].op \in {"idle", "answer"}
    <3>1. CASE Change(r)
      <4>. DEFINE q == IF thread[r].op = "change" THEN Answering ELSE Resting
      <4>1. q \in Handler /\ q.op \in {"idle", "answer"}
        BY AnsweringFields, IdleFields
      <4>2. Went(r, q, {"link", "version"})
        BY <3>1 DEF Change
      <4>. HIDE DEF q
      <4>. QED
        BY <4>1, <4>2, WentSteady
    <3>2. CASE SetUp(r)
      BY <3>2, WentSteady, AnsweringFields DEF SetUp
    <3>. QED
      BY <1>13, <3>1, <3>2
  <2>3. r \in Passwording
    BY <1>13 DEF Change, SetUp, Passwording
  <2>4. Passwording' \subseteq Passwording \ {r}
    BY <2>2 DEF Steady, Passwording
  <2>. QED
    BY <1>3, <2>1, <2>3, <2>4
<1>14. ASSUME NEW r \in Threads, ChangeEmail(r) PROVE Goal
  <2>1. user'.passwords = user.passwords
    BY <1>14, EmailFacts, Zenon
  <2>2. Steady({r}) /\ thread'[r].op = "idle"
    BY <1>14, WentSteady, IdleFields DEF ChangeEmail
  <2>. QED
    BY <1>1, <2>1, <2>2, Sparing
<1>15. ASSUME NEW r \in Threads, AskInvite(r) PROVE Goal
  <2>. DEFINE q == [Resting EXCEPT !.op = "invite", !.was = Read("invite"), !.sent = Sent]
  <2>1. Sent \in SUBSET Nat
    BY DEF Sent, TypeInv
  <2>2. q \in Handler /\ q.op = "invite"
    BY <1>t, <2>1, IdleFields, ReadFields DEF Handler, Ops
  <2>3. Ask(r, q) /\ user' = user
    BY <1>15 DEF AskInvite
  <2>. HIDE DEF q
  <2>4. Steady({r}) /\ thread'[r].op = "invite"
    BY <2>2, <2>3, AskSteady
  <2>. QED
    BY <1>1, <2>3, <2>4, Sparing
<1>16. ASSUME NEW r \in Threads, Invite(r) PROVE Goal
  <2>1. user' = user /\ Steady({r}) /\ thread'[r].op = "idle"
    BY <1>16, WentSteady, IdleFields DEF Invite
  <2>. QED
    BY <1>1, <2>1, Sparing
<1>17. ASSUME NEW r \in Threads, NEW i \in 1..MaxInvites, AskActivate(r, i) PROVE Goal
  <2>. DEFINE q == [Resting EXCEPT !.op = "activate", !.was = Read("activate"), !.inv = i]
  <2>1. i \in Nat /\ Read("activate") \in Account
    BY <1>t, Constants, ReadFields
  <2>2. q \in Handler
    BY <2>1, IdleFields DEF Handler, Ops
  <2>3. Ask(r, q) /\ user' = user /\ PasswordsLeft
    BY <1>17 DEF AskActivate
  <2>. HIDE DEF q
  <2>4. Passwording' \subseteq Passwording \cup {r}
    BY <2>2, <2>3, AskSteady DEF Steady, Passwording
  <2>. QED
    BY <1>2, <2>3, <2>4
<1>18. ASSUME NEW r \in Threads, Create(r) PROVE Goal
  <2>1. user'.passwords = user.passwords + 1
    <3>1. user'.passwords = 1
      BY <1>18, CreateFacts, Zenon
    <3>. QED
      BY <1>18, <3>1 DEF Create, Exists
  <2>2. Steady({r}) /\ thread'[r].op = "answer"
    BY <1>18, WentSteady, AnsweringFields DEF Create
  <2>3. r \in Passwording
    BY <1>18 DEF Create, Passwording
  <2>4. Passwording' \subseteq Passwording \ {r}
    BY <2>2 DEF Steady, Passwording
  <2>. QED
    BY <1>3, <2>1, <2>3, <2>4
<1>19. CASE UNCHANGED userVars
  BY <1>1, <1>19 DEF userVars, Passwording
<1>. QED
  BY <1>5, <1>6, <1>7, <1>8, <1>9, <1>10, <1>11, <1>12, <1>13, <1>14, <1>15, <1>16, <1>17,
     <1>18, <1>19 DEF UserNext

LEMMA LettersStep ==
  TypeInv /\ InvitesSeen /\ Bounded /\ [UserNext]_userVars
    => Len(invites') + Cardinality(Inviting') <= MaxInvites
<1>. SUFFICES ASSUME TypeInv, InvitesSeen, Bounded, [UserNext]_userVars
              PROVE  Len(invites') + Cardinality(Inviting') <= MaxInvites
  OBVIOUS
<1>. DEFINE Goal == Len(invites') + Cardinality(Inviting') <= MaxInvites
<1>. USE DEF Columns
<1>t. /\ user \in Account /\ invites \in Seq(Letter) /\ thread \in [Threads -> Handler]
      /\ Len(invites) \in Nat
      /\ Len(invites) + Cardinality(Inviting) <= MaxInvites /\ MaxInvites \in Nat
      /\ Inviting \in SUBSET Threads /\ Inviting' \in SUBSET Threads
      /\ Cardinality(Inviting) \in Nat /\ Cardinality(Inviting') \in Nat
  <2>1. Inviting \in SUBSET Threads /\ Inviting' \in SUBSET Threads
    BY DEF Inviting
  <2>2. Cardinality(Inviting) \in Nat /\ Cardinality(Inviting') \in Nat
    BY <2>1, Counting
  <2>. QED
    BY <2>1, <2>2, Constants DEF TypeInv, Bounded
<1>1. ASSUME Len(invites') = Len(invites), Inviting' \subseteq Inviting PROVE Goal
  BY <1>t, <1>1, Counting
<1>2. Steady({}) => Inviting' \subseteq Inviting
  BY DEF Steady, Inviting
<1>3. ASSUME NEW r, Steady({r}), r \in Threads => thread'[r].op # "invite",
             Len(invites') = Len(invites)
      PROVE  Goal
  <2>1. Inviting' \subseteq Inviting
    BY <1>3 DEF Steady, Inviting
  <2>. QED
    BY <1>1, <1>3, <2>1
<1>4. CASE Miss
  <2>1. Steady({})
    BY <1>4, MissFacts, WroteSteady
  <2>. QED
    BY <1>1, <1>2, <1>4, <2>1 DEF Miss
<1>5. CASE ForgotPassword \/ Unlock \/ ResetPassword
  BY <1>1, <1>2, <1>5, WroteSteady DEF ForgotPassword, Unlock, ResetPassword
<1>6. CASE SetActive
  BY <1>1, <1>6 DEF SetActive, Inviting
<1>7. ASSUME NEW r \in Threads, Login(r) PROVE Goal
  BY <1>3, <1>7, WentSteady, AnsweringFields DEF Login
<1>8. ASSUME NEW r \in Threads, Answer(r) \/ Fails(r) PROVE Goal
  <2>1. thread' = [thread EXCEPT ![r] = Resting] /\ invites' = invites
    BY <1>8 DEF Answer, Fails
  <2>2. Inviting' \subseteq Inviting
    BY <1>t, <2>1, IdleFields DEF Inviting
  <2>. QED
    BY <1>1, <2>1, <2>2
<1>9. ASSUME NEW r \in Threads, NEW op \in {"change", "set", "email"}, AskChange(r, op) PROVE Goal
  <2>. DEFINE q == [Resting EXCEPT !.op = op, !.was = Read(op)]
  <2>1. q \in Handler /\ q.op = op
    BY <1>t, IdleFields, ReadFields DEF Handler, Ops
  <2>2. Ask(r, q) /\ invites' = invites
    BY <1>9 DEF AskChange
  <2>. HIDE DEF q
  <2>3. Steady({r}) /\ thread'[r].op = op
    BY <2>1, <2>2, AskSteady
  <2>. QED
    BY <1>3, <2>2, <2>3
<1>10. ASSUME NEW r \in Threads, Change(r) PROVE Goal
  <2>. DEFINE q == IF thread[r].op = "change" THEN Answering ELSE Resting
  <2>1. q \in Handler /\ q.op \in {"idle", "answer"}
    BY AnsweringFields, IdleFields
  <2>2. Went(r, q, {"link", "version"}) /\ invites' = invites
    BY <1>10 DEF Change
  <2>. HIDE DEF q
  <2>. QED
    BY <1>3, <2>1, <2>2, WentSteady
<1>11. ASSUME NEW r \in Threads, ChangeEmail(r) PROVE Goal
  BY <1>3, <1>11, WentSteady, IdleFields DEF ChangeEmail
<1>12. ASSUME NEW r \in Threads, AskInvite(r) PROVE Goal
  <2>. DEFINE q == [Resting EXCEPT !.op = "invite", !.was = Read("invite"), !.sent = Sent]
  <2>1. Sent \in SUBSET Nat
    BY DEF Sent, TypeInv
  <2>2. q \in Handler /\ q.op = "invite"
    BY <1>t, <2>1, IdleFields, ReadFields DEF Handler, Ops
  <2>3. /\ Ask(r, q) /\ invites' = invites
        /\ Len(invites) + Cardinality(Inviting) < MaxInvites
    BY <1>12 DEF AskInvite, Inviting
  <2>. HIDE DEF q
  <2>4. Inviting' \subseteq Inviting \cup {r}
    BY <2>2, <2>3, AskSteady DEF Steady, Inviting
  <2>5. Cardinality(Inviting') <= Cardinality(Inviting) + 1
    BY <1>t, <2>4, Counting
  <2>. QED
    BY <1>t, <2>3, <2>5
<1>13. ASSUME NEW r \in Threads, Invite(r) PROVE Goal
  <2>1. Len(invites') = Len(invites) + 1
    BY <1>13, InviteFacts
  <2>2. Steady({r}) /\ thread'[r].op = "idle" /\ r \in Inviting
    BY <1>13, WentSteady, IdleFields DEF Invite, Inviting
  <2>3. Inviting' \subseteq Inviting \ {r}
    BY <2>2 DEF Steady, Inviting
  <2>4. Cardinality(Inviting') + 1 <= Cardinality(Inviting)
    BY <1>t, <2>2, <2>3, Counting
  <2>. QED
    BY <1>t, <2>1, <2>4
<1>14. ASSUME NEW r \in Threads, NEW i \in 1..MaxInvites, AskActivate(r, i) PROVE Goal
  <2>. DEFINE q == [Resting EXCEPT !.op = "activate", !.was = Read("activate"), !.inv = i]
  <2>1. i \in Nat /\ Read("activate") \in Account
    BY <1>t, Constants, ReadFields
  <2>2. q \in Handler /\ q.op = "activate"
    BY <2>1, IdleFields DEF Handler, Ops
  <2>3. Ask(r, q) /\ invites' = invites
    BY <1>14 DEF AskActivate
  <2>. HIDE DEF q
  <2>. QED
    BY <1>3, <2>2, <2>3, AskSteady
<1>15. ASSUME NEW r \in Threads, SetUp(r) \/ Create(r) PROVE Goal
  <2>1. thread[r].op = "activate" /\ Used(thread[r])
    BY <1>15 DEF SetUp, Create
  <2>2. Len(invites') = Len(invites)
    BY <2>1, UsedFacts
  <2>3. Steady({r}) /\ thread'[r].op = "answer"
    BY <1>15, WentSteady, AnsweringFields DEF SetUp, Create
  <2>. QED
    BY <1>3, <2>2, <2>3
<1>16. CASE UNCHANGED userVars
  BY <1>1, <1>16 DEF userVars, Inviting
<1>. QED
  BY <1>4, <1>5, <1>6, <1>7, <1>8, <1>9, <1>10, <1>11, <1>12, <1>13, <1>14, <1>15, <1>16 DEF UserNext

-----------------------------------------------------------------------------
(* The invariant                                                             *)

LEMMA InitInv == UserInit => AccountsInv
<1>. SUFFICES ASSUME UserInit PROVE AccountsInv
  OBVIOUS
<1>1. /\ user \in Account /\ user.passwords \in {0, 1} /\ user.link = NoLink
      /\ user.failed = 0 /\ user.locked = FALSE
  BY NoUserFields DEF UserInit, Account
<1>2. /\ invites = <<>> /\ sessions = {} /\ loose = {}
      /\ thread \in [Threads -> Handler] /\ \A r \in Threads : thread[r] = Resting
  BY IdleFields DEF UserInit
<1>3. \A r \in Threads : ~Setting(r) /\ thread[r].op = "idle"
  BY <1>2, IdleFields DEF Setting
<1>4. TypeInv
  BY <1>1, <1>2 DEF TypeInv
<1>5. Seen
  BY <1>3 DEF Seen, AccountSeen, VersionSeen, LinkSeen, MissesSeen, InvitesSeen
<1>6. SessionsBehind /\ UsesCounted /\ OneInvitation
  BY <1>2 DEF SessionsBehind, UsesCounted, OneInvitation
<1>7. LinkFollowsPassword
  BY <1>1, Constants DEF LinkFollowsPassword
<1>8. LockMatchesMisses
  BY <1>1, Constants DEF LockMatchesMisses
<1>9. Passwording = {} /\ Inviting = {}
  BY <1>3 DEF Passwording, Inviting
<1>10. Bounded
  BY <1>1, <1>2, <1>9, Constants, FS_EmptySet DEF Bounded
<1>. QED
  BY <1>4, <1>5, <1>6, <1>7, <1>8, <1>10 DEF AccountsInv, Correct

LEMMA InvStep == AccountsInv /\ [UserNext]_userVars => AccountsInv'
<1>. SUFFICES ASSUME AccountsInv, [UserNext]_userVars PROVE AccountsInv'
  OBVIOUS
<1>1. TypeInv /\ Seen /\ Correct /\ Bounded /\ AccountSeen /\ InvitesSeen
  BY DEF AccountsInv, Seen
<1>2. Advance
  BY <1>1, ProgressStep
<1>3. Seen'
  BY <1>1, <1>2, SeenStep
<1>4. invites' \in Seq(Letter) /\ UsesCounted' /\ OneInvitation'
  BY <1>1, OneInvitationStep DEF Correct
<1>5. sessions' \subseteq Session /\ SessionsBehind'
  BY <1>1, <1>2, SessionsStep DEF Correct
<1>6. LinkFollowsPassword'
  BY <1>1, LinkStep DEF Correct
<1>7. LockMatchesMisses' /\ user'.failed <= MaxFailed
  BY <1>1, MissesStep DEF Correct
<1>8. loose' \subseteq {"failed", "link"}
  BY <1>1 DEF TypeInv, UserNext, userVars, Miss, ForgotPassword, ResetPassword, Unlock, SetActive, Login,
     Answer, AskChange, Change, ChangeEmail, AskInvite, Invite, AskActivate, SetUp, Create, Fails
<1>9. TypeInv'
  BY <1>2, <1>4, <1>5, <1>8 DEF TypeInv, Advance
<1>10. Bounded'
  BY <1>1, <1>7, PasswordsStep, LettersStep DEF Bounded
<1>. QED
  BY <1>3, <1>4, <1>5, <1>6, <1>7, <1>9, <1>10 DEF AccountsInv, Correct

\* What holds in every state of the accounts: the types, what handlers have
\* read, the columns that follow each other and the bounds. (identity/service.py,
\* academic/invitation_service.py)
THEOREM Invariance == UserSpec => []AccountsInv
BY InitInv, InvStep, PTL DEF UserSpec

\* A session is good only for the password in force, in every state of every
\* number of handlers, sessions and passwords (session_version, browser_session).
THEOREM SessionsFollow == UserSpec => []SessionsFollowPassword
<1>1. AccountsInv => SessionsFollowPassword
  BY DEF AccountsInv, Correct, SessionsBehind, SessionsFollowPassword, Valid, TypeInv, Session, Account
<1>. QED
  BY <1>1, Invariance, PTL

\* A reset link was asked for under the password in force, or the handler that
\* should have withdrawn it had not seen it (invalidate_reset).
THEOREM LinkFollows == UserSpec => []LinkFollowsPassword
<1>1. AccountsInv => LinkFollowsPassword
  BY DEF AccountsInv, Correct
<1>. QED
  BY <1>1, Invariance, PTL

\* The account is locked when its misses have reached the limit and not before,
\* until a handler clears misses it has not seen (clear_login_failures).
THEOREM LockMatches == UserSpec => []LockMatchesMisses
<1>1. AccountsInv => LockMatchesMisses
  BY DEF AccountsInv, Correct
<1>. QED
  BY <1>1, Invariance, PTL

\* Of two open invitations the later one was sent by a handler that had not
\* seen the other (issue_student_invitation).
THEOREM InvitationAlone == UserSpec => []OneInvitation
<1>1. AccountsInv => OneInvitation
  BY DEF AccountsInv, Correct
<1>. QED
  BY <1>1, Invariance, PTL

\* Types, an invitation used once by handlers nobody overtook, and the bounds
\* (invitation_from_token).
THEOREM AccountTypes == UserSpec => []UserTypeOK
<1>1. ASSUME AccountsInv PROVE UserTypeOK
  <2>1. TypeInv /\ UsesCounted /\ Bounded
    BY <1>1 DEF AccountsInv, Correct
  <2>2. user \in User
    <3>1. /\ user \in Account /\ user.passwords \in 0..MaxPasswords /\ user.failed \in 0..MaxFailed
      <4>1. /\ user \in Account /\ user.passwords \in Nat /\ user.failed \in Nat
            /\ user.failed <= MaxFailed
            /\ user.passwords + Cardinality(Passwording) <= MaxPasswords
        BY <2>1 DEF TypeInv, Account, Bounded
      <4>2. Cardinality(Passwording) \in Nat
        BY Counting DEF Passwording
      <4>. QED
        BY <4>1, <4>2, Constants
    <3>. QED
      BY <3>1 DEF Account, User
  <2>3. invites \in Seq(Invitation)
    <3>1. invites \in Seq(Letter) /\ Len(invites) \in Nat /\ DOMAIN invites = 1..Len(invites)
      BY <2>1 DEF TypeInv
    <3>2. \A i \in 1..Len(invites) : invites[i] \in Invitation
      <4>. TAKE i \in 1..Len(invites)
      <4>1. invites[i] \in Letter
        BY <3>1
      <4>2. invites[i].uses \in 0..1
        BY <2>1, <3>1, <4>1 DEF UsesCounted, Letter
      <4>. QED
        BY <4>1, <4>2 DEF Letter, Invitation
    <3>. QED
      BY <3>1, <3>2
  <2>4. Len(invites) <= MaxInvites
    <3>1. Cardinality(Inviting) \in Nat
      BY Counting DEF Inviting
    <3>. QED
      BY <2>1, <3>1, Constants DEF Bounded, TypeInv
  <2>. QED
    BY <2>1, <2>2, <2>3, <2>4 DEF UserTypeOK, TypeInv
<1>. QED
  BY <1>1, Invariance, PTL

-----------------------------------------------------------------------------
(* Profile pictures. A picture in the row never leaves it, so who has read   *)
(* the key of an earlier one finds that key or a picture in the row.         *)

WellFormed(p) ==
  /\ p \in P!Pictures
  /\ IF p.key = "own" THEN p.image \in Images ELSE p.image = NoImage

CallsSeen ==
  \A r \in Threads :
    /\ call[r].op = "upload" =>
         /\ call[r].image \in Images /\ WellFormed(call[r].was)
         /\ picture.key \in {call[r].was.key, "own"}
    /\ call[r].op = "saved" => picture.key = "own"
    /\ call[r].op = "show" => call[r].key = "former"
    /\ call[r].op = "missing" => call[r].key = "former" /\ picture.key # "former"

PicturesInv ==
  /\ call = [r \in Threads |-> call[r]]
  /\ WellFormed(picture)
  /\ picture.key = "former" => stored # {}
  /\ picture.key = "own" => mixed \/ picture.kind = P!Kind(picture.image)
  /\ CallsSeen

LEMMA NoneIsNoImage == NoImage \notin Images
BY AccountsOfPictures, Zenon DEF P!PicturesAssumption

\* the row as an upload leaves it
LEMMA WrittenWell ==
  ASSUME WellFormed(picture), NEW q, q.image \in Images, WellFormed(q.was),
         picture.key \in {q.was.key, "own"}
  PROVE  /\ WellFormed(P!Written(q)) /\ P!Written(q).key = "own"
         /\ picture = q.was => P!Written(q).kind = P!Kind(P!Written(q).image)
<1>1. q.image = q.was.image => picture.key = "own" /\ picture.image \in Images
  BY NoneIsNoImage DEF WellFormed
<1>2. P!Kind(q.image) \in {"jpeg", "png"} /\ picture.kind \in {NoImage, "jpeg", "png"}
  BY DEF P!Kind, WellFormed, P!Pictures
<1>3. P!Written(q).key = "own"
  BY DEF P!Written
<1>4. P!Written(q).image = (IF q.image = q.was.image THEN picture.image ELSE q.image)
  BY DEF P!Written
<1>5. P!Written(q).kind = (IF P!Kind(q.image) = q.was.kind THEN picture.kind ELSE P!Kind(q.image))
  BY DEF P!Written
<1>6. WellFormed(P!Written(q))
  BY <1>1, <1>2 DEF WellFormed, P!Written, P!Pictures
<1>7. picture = q.was => P!Written(q).kind = P!Kind(P!Written(q).image)
  BY <1>4, <1>5
<1>. QED
  BY <1>3, <1>6, <1>7

LEMMA PicturesInit == P!Init => PicturesInv
BY NoneIsNoImage DEF P!Init, P!Idle, P!NoPicture, P!Former, PicturesInv, WellFormed, P!Pictures, CallsSeen

LEMMA PicturesStep == PicturesInv /\ [P!Next]_pictureVars => PicturesInv'
<1>. SUFFICES ASSUME PicturesInv, [P!Next]_pictureVars PROVE PicturesInv'
  OBVIOUS
<1>t. call = [x \in Threads |-> call[x]] /\ WellFormed(picture) /\ CallsSeen
  BY DEF PicturesInv
<1>1. ASSUME NEW r \in Threads, NEW i \in Images, P!AskUpload(r, i) PROVE PicturesInv'
  BY <1>1, <1>t DEF P!AskUpload, P!Ask, PicturesInv, CallsSeen, WellFormed
<1>2. ASSUME NEW r \in Threads, call[r].op = "upload", P!Put(call[r]), stored' = stored,
             NEW q, call' = [call EXCEPT ![r] = q], q.op \in {"idle", "saved"}
      PROVE  PicturesInv'
  <2>1. call[r].image \in Images /\ WellFormed(call[r].was) /\ picture.key \in {call[r].was.key, "own"}
    BY <1>2, <1>t DEF CallsSeen
  <2>2. picture' = P!Written(call[r]) /\ mixed' = (picture # call[r].was)
    BY <1>2 DEF P!Put
  <2>3. /\ WellFormed(picture') /\ picture'.key = "own"
        /\ picture = call[r].was => picture'.kind = P!Kind(picture'.image)
    BY <1>t, <2>1, <2>2, WrittenWell
  <2>4. mixed' \/ picture'.kind = P!Kind(picture'.image)
    BY <2>2, <2>3
  <2>5. CallsSeen'
    BY <1>2, <1>t, <2>3 DEF CallsSeen
  <2>6. call' = [x \in Threads |-> call'[x]]
    BY <1>2, <1>t
  <2>. QED
    BY <2>3, <2>4, <2>5, <2>6 DEF PicturesInv
<1>3. ASSUME NEW r \in Threads, NEW q, call' = [call EXCEPT ![r] = q], q.op \notin {"upload"},
             UNCHANGED <<picture, mixed>>, stored' # stored => picture.key = "own",
             q.op = "saved" => picture.key = "own",
             q.op = "show" => q.key = "former",
             q.op = "missing" => q.key = "former" /\ picture.key # "former"
      PROVE  PicturesInv'
  <2>1. CallsSeen'
    BY <1>3, <1>t DEF CallsSeen
  <2>2. call' = [x \in Threads |-> call'[x]]
    BY <1>3, <1>t
  <2>. QED
    BY <1>3, <1>t, <2>1, <2>2 DEF PicturesInv
<1>4. ASSUME NEW r \in Threads, P!Save(r) PROVE PicturesInv'
  <2>. DEFINE q == IF P!External(call[r]) THEN [op |-> "saved", key |-> call[r].was.key] ELSE P!Idle
  <2>1. q.op \in {"idle", "saved"}
    BY DEF P!Idle
  <2>2. call[r].op = "upload" /\ P!Put(call[r]) /\ stored' = stored /\ call' = [call EXCEPT ![r] = q]
    BY <1>4 DEF P!Save, P!Step
  <2>. HIDE DEF q
  <2>. QED
    BY <1>2, <2>1, <2>2
<1>5. ASSUME NEW r \in Threads, P!SaveFails(r) PROVE PicturesInv'
  <2>1. stored' = stored /\ call' = [call EXCEPT ![r] = P!Idle] /\ call[r].op = "upload"
    BY <1>5 DEF P!SaveFails, P!DeleteKey, P!NewKey, P!Step
  <2>2. P!Idle.op = "idle"
    BY DEF P!Idle
  <2>. HIDE DEF P!Idle
  <2>3. CASE P!Put(call[r])
    BY <1>2, <2>1, <2>2, <2>3
  <2>4. CASE UNCHANGED <<picture, mixed>>
    BY <1>3, <2>1, <2>2, <2>4
  <2>. QED
    BY <1>5, <2>3, <2>4 DEF P!SaveFails
<1>6. ASSUME NEW r \in Threads, P!DeleteOld(r) \/ P!Finish(r) PROVE PicturesInv'
  <2>1. /\ call' = [call EXCEPT ![r] = P!Idle] /\ UNCHANGED <<picture, mixed>>
        /\ stored' # stored => call[r].op = "saved"
    BY <1>6 DEF P!DeleteOld, P!Finish, P!Step
  <2>2. P!Idle.op = "idle"
    BY DEF P!Idle
  <2>3. stored' # stored => picture.key = "own"
    BY <1>t, <2>1 DEF CallsSeen
  <2>. QED
    BY <1>3, <2>1, <2>2, <2>3
<1>7. ASSUME NEW r \in Threads, P!AskPicture(r) PROVE PicturesInv'
  <2>. DEFINE q == [op |-> "show", key |-> picture.key]
  <2>1. q.op = "show" /\ q.key = "former"
    BY <1>7 DEF P!AskPicture
  <2>2. call' = [call EXCEPT ![r] = q] /\ UNCHANGED <<picture, stored, mixed>>
    BY <1>7 DEF P!AskPicture, P!Ask
  <2>. HIDE DEF q
  <2>. QED
    BY <1>3, <2>1, <2>2
<1>8. ASSUME NEW r \in Threads, P!Show(r) PROVE PicturesInv'
  <2>1. /\ call[r].op = "show" /\ UNCHANGED <<picture, stored, mixed>>
        /\ \E a \in P!Answers : call' = [call EXCEPT ![r] = [op |-> a, key |-> call[r].key]]
    BY <1>8 DEF P!Show, P!Step
  <2>2. PICK a \in P!Answers : call' = [call EXCEPT ![r] = [op |-> a, key |-> call[r].key]]
    BY <2>1
  <2>. DEFINE q == [op |-> a, key |-> call[r].key]
  <2>3. a \in {"unavailable", "missing", "shown"} /\ (a = "missing" => stored = {})
    BY DEF P!Answers
  <2>4. call[r].key = "former" /\ (stored = {} => picture.key # "former")
    BY <1>t, <2>1 DEF CallsSeen, PicturesInv
  <2>5. q.op = a /\ q.key = "former" /\ call' = [call EXCEPT ![r] = q]
    BY <2>2, <2>4
  <2>. HIDE DEF q
  <2>. QED
    BY <1>3, <2>1, <2>3, <2>4, <2>5
<1>9. CASE UNCHANGED pictureVars
  BY <1>9 DEF pictureVars, PicturesInv, CallsSeen, WellFormed
<1>. QED
  BY <1>1, <1>4, <1>5, <1>6, <1>7, <1>8, <1>9 DEF P!Next

\* An account that has a picture can show it, whatever uploads overtake each
\* other or are cut, for any number of requests and images (upload_avatar,
\* profile_media).
THEOREM PictureStaysIntact == P!Spec => []PictureIntact
<1>1. PicturesInv => PictureIntact
  BY NoneIsNoImage DEF PicturesInv, WellFormed, CallsSeen, PictureIntact, P!PictureIntact, P!Pictures
<1>. QED
  BY <1>1, PicturesInit, PicturesStep, PTL DEF P!Spec, pictureVars, P!pictureVars

\* What TLC explores is behaviour of the session and of both components.
THEOREM InstanceOfAll == PeopleSpec => Spec /\ UserSpec /\ P!Spec
<1>1. PeopleInit => Init /\ UserInit /\ P!Init
  BY DEF PeopleInit, AccountsInit
<1>2. [PeopleNext]_<<moving, vars, part, userVars, pictureVars>> =>
        [Next]_vars /\ [UserNext]_userVars /\ [P!Next]_pictureVars
  BY DEF PeopleNext, AccountsNext
<1>. QED
  BY <1>1, <1>2, PTL DEF PeopleSpec, Spec, UserSpec, P!Spec, pictureVars, P!pictureVars
=============================================================================
