------------------------- MODULE GoogleWorkspace -------------------------
(***************************************************************************)
(* One college's Google Workspace connection and the files it manages      *)
(* (backend/app/modules/google_workspace): OAuth attempts and callbacks,   *)
(* disconnection, and the creation, renaming and deletion of files, each   *)
(* of which calls Google before it writes its own row.                     *)
(*                                                                         *)
(* Google is the environment: a call is refused, or done and answered, or  *)
(* done with its answer lost (a timeout).  A process may die between two   *)
(* steps of a request.  A refresh token is known by the account it belongs *)
(* to; Google leaves it out of an answer only when the account already     *)
(* holds a grant.                                                          *)
(***************************************************************************)
EXTENDS Naturals

CONSTANTS
  Emails,   \* Google accounts of the college's domain
  Links,    \* authorization links: the states of OAuth attempts
  Files,    \* identifiers Google gives to files
  Titles,   \* titles of files
  Calls,    \* requests the server works on at a time
  None      \* no row, no file

VARIABLES
  links,      \* attempts issued and not consumed
  passes,     \* passes[l]: callbacks that went on to Google with link l
  granted,    \* accounts that grant this application access
  connection, \* the college's connection row, or None
  overtaken,  \* the connection was last written over another's commit
  file,       \* file[f]: title of f at Google, or None
  row,        \* row[f]: title of f in the resource table, or None
  astray,     \* files left behind by a request that was cut or overlapped
  call        \* call[r]: what request r holds

vars == <<links, passes, granted, connection, overtaken, file, row, astray, call>>
authVars == <<links, passes>>
accountVars == <<granted, connection, overtaken>>
fileVars == <<file, row, astray>>

Idle == [op |-> "idle"]

Connections == [email : Emails, token : Emails, live : BOOLEAN]

Ask(r, q) == call[r] = Idle /\ call' = [call EXCEPT ![r] = q]
Step(r, q) == call' = [call EXCEPT ![r] = q]
End(r) == Step(r, Idle)
At(r, op, step) == call[r].op = op /\ call[r].at = step

(***************************************************************************)
(* Connecting an account                                                   *)
(***************************************************************************)

\* Requests that have read link l and not consumed it.
Readers(l) == {r \in Calls : call[r].op = "callback" /\ call[r].at = "seen"
                               /\ call[r].link = l}

\* An administrator asks for a link; links found expired are removed.
Authorize(l) ==
  /\ l \notin links /\ Readers(l) = {}
  /\ \E expired \in SUBSET links : links' = (links \ expired) \cup {l}
  /\ passes' = [passes EXCEPT ![l] = 0]
  /\ UNCHANGED <<accountVars, fileVars, call>>

\* Google sends the browser back: the attempt is read.
AskCallback(r, l) ==
  /\ l \in links
  /\ Ask(r, [op |-> "callback", at |-> "seen", link |-> l])
  /\ UNCHANGED <<authVars, accountVars, fileVars>>

\* The attempt is deleted and the deletion committed.  The deletion counts no
\* rows, so a callback that read the attempt in time passes as well.
Consume(r) ==
  /\ At(r, "callback", "seen")
  /\ LET l == call[r].link IN
       /\ links' = links \ {l}
       /\ passes' = [passes EXCEPT ![l] = @ + 1]
  /\ Step(r, [op |-> "callback", at |-> "passed"])
  /\ UNCHANGED <<accountVars, fileVars>>

\* The attempt has expired: it is deleted and the callback fails.
Expire(r) ==
  /\ At(r, "callback", "seen")
  /\ links' = links \ {call[r].link}
  /\ End(r)
  /\ UNCHANGED <<passes, accountVars, fileVars>>

\* Google exchanges the code for account e, with a refresh token or without.
Exchange(r, e, renewed) ==
  /\ At(r, "callback", "passed")
  /\ renewed \/ e \in granted
  /\ granted' = granted \cup {e}
  /\ Step(r, [op |-> "callback", at |-> "granted", email |-> e, renewed |-> renewed])
  /\ UNCHANGED <<authVars, connection, overtaken, fileVars>>

\* The mistake of reusing the saved token whatever account it belongs to.
AlwaysReusable(e) == connection # None

\* The saved token serves account e.
Reusable(e) == connection # None /\ connection.email = e

\* The connection is read; without a refresh token the saved one must serve.
Load(r) ==
  /\ At(r, "callback", "granted")
  /\ LET q == call[r] IN
       IF q.renewed \/ Reusable(q.email)
       THEN Step(r, [op |-> "callback", at |-> "loaded", email |-> q.email,
                     renewed |-> q.renewed, found |-> connection])
       ELSE End(r)
  /\ UNCHANGED <<authVars, accountVars, fileVars>>

\* The row a callback writes: the columns it changed over what it had read.
Written(q) ==
  [email |-> IF q.email = q.found.email THEN connection.email ELSE q.email,
   token |-> IF q.renewed THEN q.email ELSE connection.token,
   live  |-> connection.live \/ ~q.found.live]

\* The callback commits.  A second first connection meets the unique college.
Connect(r) ==
  /\ At(r, "callback", "loaded")
  /\ LET q == call[r] IN
       \/ /\ q.found = None /\ connection = None
          /\ connection' = [email |-> q.email, token |-> q.email, live |-> TRUE]
          /\ overtaken' = FALSE
       \/ /\ q.found = None /\ connection # None
          /\ UNCHANGED <<connection, overtaken>>
       \/ /\ q.found # None
          /\ connection' = Written(q)
          /\ overtaken' = (connection # q.found \/ (overtaken /\ ~q.renewed))
  /\ End(r)
  /\ UNCHANGED <<authVars, granted, fileVars>>

(***************************************************************************)
(* Disconnecting it                                                        *)
(***************************************************************************)

Connected == connection # None /\ connection.live

AskDisconnect(r) ==
  /\ Connected
  /\ Ask(r, [op |-> "disconnect", at |-> "seen", account |-> connection.token])
  /\ UNCHANGED <<authVars, accountVars, fileVars>>

\* The token is revoked at Google; an error is ignored.
Revoke(r) ==
  /\ At(r, "disconnect", "seen")
  /\ granted' \in {granted, granted \ {call[r].account}}
  /\ Step(r, [op |-> "disconnect", at |-> "revoked"])
  /\ UNCHANGED <<authVars, connection, overtaken, fileVars>>

Disconnect(r) ==
  /\ At(r, "disconnect", "revoked")
  /\ connection' = [connection EXCEPT !.live = FALSE]
  /\ End(r)
  /\ UNCHANGED <<authVars, granted, overtaken, fileVars>>

(***************************************************************************)
(* Managed files                                                           *)
(***************************************************************************)

FileOps == {"create", "rename", "delete"}

\* Requests that hold file f.
Holders(f) == {r \in Calls : call[r].op \in FileOps /\ call[r].at # "asked"
                               /\ call[r].file = f}

AskCreate(r, t) ==
  /\ Connected
  /\ Ask(r, [op |-> "create", at |-> "asked", account |-> connection.token, title |-> t])
  /\ UNCHANGED <<authVars, accountVars, fileVars>>

\* A rename or a deletion reads the row of file f.
AskFile(r, f, op, t) ==
  /\ Connected /\ row[f] # None
  /\ Ask(r, [op |-> op, at |-> "seen", account |-> connection.token, file |-> f, title |-> t])
  /\ astray' = IF Holders(f) = {} THEN astray ELSE astray \cup {f}
  /\ UNCHANGED <<authVars, accountVars, file, row>>

\* Google creates a file, and its identifier comes back.
Create(r, f) ==
  /\ At(r, "create", "asked") /\ call[r].account \in granted
  /\ file[f] = None /\ row[f] = None /\ Holders(f) = {}
  /\ file' = [file EXCEPT ![f] = call[r].title]
  /\ astray' = astray \ {f}
  /\ Step(r, [op |-> "create", at |-> "done", file |-> f, title |-> call[r].title])
  /\ UNCHANGED <<authVars, accountVars, row>>

\* Google creates a file and the answer is lost: no one knows its identifier.
CreateUnheard(r, f) ==
  /\ At(r, "create", "asked") /\ call[r].account \in granted
  /\ file[f] = None /\ row[f] = None /\ Holders(f) = {}
  /\ file' = [file EXCEPT ![f] = call[r].title]
  /\ astray' = astray \cup {f}
  /\ End(r)
  /\ UNCHANGED <<authVars, accountVars, row>>

\* What a rename or a deletion makes of the file at Google.
Outcome(q) == IF q.op = "rename" THEN q.title ELSE None

\* Google renames or deletes the file.
Alter(r) ==
  /\ call[r].op \in {"rename", "delete"} /\ call[r].at = "seen"
  /\ call[r].account \in granted /\ file[call[r].file] # None
  /\ file' = [file EXCEPT ![call[r].file] = Outcome(call[r])]
  /\ \/ Step(r, [op |-> call[r].op, at |-> "done", file |-> call[r].file,
                 title |-> call[r].title]) /\ astray' = astray
     \/ End(r) /\ astray' = astray \cup {call[r].file}
  /\ UNCHANGED <<authVars, accountVars, row>>

\* The mistake of a deletion that drops the row although Google refused.
RefusedAnyway(q) == IF q.op = "delete" THEN None ELSE row[q.file]

\* What the row of a file becomes when Google refuses request q.
Refused(q) == row[q.file]

\* Google refuses, or cannot be reached: nothing of the request is kept.
Refuse(r) ==
  /\ \/ At(r, "create", "asked") /\ row' = row
     \/ /\ call[r].op \in {"rename", "delete"} /\ call[r].at = "seen"
        /\ row' = [row EXCEPT ![call[r].file] = Refused(call[r])]
  /\ End(r)
  /\ UNCHANGED <<authVars, accountVars, file, astray>>

\* The row is written.  An update of a row deleted meanwhile fails.
Record(r) ==
  /\ call[r].op \in FileOps /\ call[r].at = "done"
  /\ LET q == call[r] IN
       \/ q.op = "create" /\ row' = [row EXCEPT ![q.file] = q.title]
       \/ q.op = "delete" /\ row' = [row EXCEPT ![q.file] = None]
       \/ q.op = "rename" /\ row' = [row EXCEPT ![q.file] = IF @ = None THEN None ELSE q.title]
  /\ End(r)
  /\ UNCHANGED <<authVars, accountVars, file, astray>>

\* A request ends where it stands: Google denied the consent or the second
\* call that describes a new form failed, or the process died.
Cut(r) ==
  /\ call[r] # Idle
  /\ astray' = IF call[r].op \in FileOps /\ call[r].at = "done"
               THEN astray \cup {call[r].file} ELSE astray
  /\ End(r)
  /\ UNCHANGED <<authVars, accountVars, file, row>>

(***************************************************************************)
(* The component                                                           *)
(***************************************************************************)

Init ==
  /\ links = {} /\ passes = [l \in Links |-> 0]
  /\ granted = {} /\ connection = None /\ overtaken = FALSE
  /\ file = [f \in Files |-> None] /\ row = [f \in Files |-> None] /\ astray = {}
  /\ call = [r \in Calls |-> Idle]

Connecting ==
  \/ \E l \in Links : Authorize(l)
  \/ \E r \in Calls, l \in Links : AskCallback(r, l)
  \/ \E r \in Calls : Consume(r) \/ Expire(r) \/ Load(r) \/ Connect(r)
  \/ \E r \in Calls, e \in Emails, renewed \in BOOLEAN : Exchange(r, e, renewed)

Disconnecting == \E r \in Calls : AskDisconnect(r) \/ Revoke(r) \/ Disconnect(r)

Filing ==
  \/ \E r \in Calls, t \in Titles : AskCreate(r, t)
  \/ \E r \in Calls, f \in Files, t \in Titles : AskFile(r, f, "rename", t)
  \/ \E r \in Calls, f \in Files : AskFile(r, f, "delete", None)
  \/ \E r \in Calls, f \in Files : Create(r, f) \/ CreateUnheard(r, f)
  \/ \E r \in Calls : Alter(r) \/ Refuse(r) \/ Record(r)

Next == Connecting \/ Disconnecting \/ Filing \/ \E r \in Calls : Cut(r)

Spec == Init /\ [][Next]_vars

----------------------------------------------------------------------------
\* The claim that an authorization link serves one callback: "Commit before
\* contacting Google so state is genuinely single-use" (service.py:145-146).
LinkUsedOnce == \A l \in Links : passes[l] <= 1

\* The token kept for the college belongs to the account the connection names,
\* with or without a refresh token in Google's answer, unless the row was
\* written over a commit its writer had not seen (authorization_callback).
TokenOfAccount ==
  connection = None \/ overtaken \/ connection.token = connection.email

\* A file no request holds is recorded exactly when it exists at Google, under
\* the title it has there, unless a request on it was cut or lost its answer
\* between Google and the database, or two requests on it overlapped.
RowsMatchFiles ==
  \A f \in Files : f \in astray \/ Holders(f) # {} \/ row[f] = file[f]
=============================================================================
