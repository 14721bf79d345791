----------------------------- MODULE OfficeProofs -----------------------------
(* Theorems about GoogleWorkspace and FollowUp, for any number of requests,  *)
(* links, accounts, files, students and classes.                             *)
EXTENDS MCOffice, FiniteSetTheorems, TLAPS

-----------------------------------------------------------------------------
(* Google Workspace. The requests of the model are records of different      *)
(* fields, so what is known of each is stated by what it is about.           *)

CallIsFunction == call = [r \in Requests |-> call[r]]

\* one step of a request
LEMMA OneStep ==
  ASSUME CallIsFunction, NEW r \in Requests, NEW q, call' = [call EXCEPT ![r] = q]
  PROVE  /\ CallIsFunction' /\ call'[r] = q
         /\ \A s \in Requests : s # r => call'[s] = call[s]
BY DEF CallIsFunction

LEMMA GoogleInit == G!Init => CallIsFunction
BY DEF G!Init, CallIsFunction

\* requests move one at a time
LEMMA AllMove == CallIsFunction /\ [G!Next]_googleVars => CallIsFunction'
BY DEF CallIsFunction, googleVars, G!Next, G!Connecting, G!Disconnecting, G!Filing, G!Authorize,
  G!AskCallback, G!Consume, G!Expire, G!Load, G!Connect, G!Exchange, G!AskDisconnect, G!Revoke,
  G!Disconnect, G!AskCreate, G!AskFile, G!Create, G!CreateUnheard, G!Alter, G!Refuse, G!Record,
  G!Cut, G!Ask, G!Step, G!End

-----------------------------------------------------------------------------
(* The connection. A callback that saves no new token has found the one of   *)
(* its own account.                                                          *)

ConnectionInv ==
  /\ connection \in G!Connections \cup {None}
  /\ \A r \in Requests :
       /\ call[r].op = "callback" /\ call[r].at \in {"granted", "loaded"} =>
            call[r].email \in Emails /\ call[r].renewed \in BOOLEAN
       /\ call[r].op = "callback" /\ call[r].at = "loaded" =>
            /\ call[r].found \in G!Connections \cup {None}
            /\ call[r].found # None => connection # None
            /\ ~call[r].renewed => call[r].found # None /\ call[r].found.email = call[r].email
       /\ call[r].op = "disconnect" => connection # None
  /\ TokenOfAccount

LEMMA ConnectionInit == G!Init => ConnectionInv
BY DEF G!Init, G!Idle, ConnectionInv, TokenOfAccount, G!TokenOfAccount

\* what is to be known of what request r goes on as
Going(q) ==
  /\ q.op = "callback" /\ q.at \in {"granted", "loaded"} => q.email \in Emails /\ q.renewed \in BOOLEAN
  /\ q.op = "callback" /\ q.at = "loaded" =>
       /\ q.found \in G!Connections \cup {None}
       /\ q.found # None => connection # None
       /\ ~q.renewed => q.found # None /\ q.found.email = q.email
  /\ q.op = "disconnect" => connection # None

\* a step of a request that leaves the connection
LEMMA ConnectionMove ==
  ASSUME CallIsFunction, ConnectionInv, NEW r \in Requests, NEW q,
         call' = [call EXCEPT ![r] = q], Going(q), connection' = connection, overtaken' = overtaken
  PROVE  ConnectionInv'
<1>1. call'[r] = q /\ \A s \in Requests : s # r => call'[s] = call[s]
  BY OneStep
<1>2. TokenOfAccount'
  BY DEF ConnectionInv, TokenOfAccount, G!TokenOfAccount
<1>. QED
  BY <1>1, <1>2 DEF ConnectionInv, Going

\* the last step of one that writes it
LEMMA ConnectionSet ==
  ASSUME CallIsFunction, ConnectionInv, NEW r \in Requests, call' = [call EXCEPT ![r] = G!Idle],
         connection' \in G!Connections, TokenOfAccount'
  PROVE  ConnectionInv'
<1>1. call'[r] = G!Idle /\ \A s \in Requests : s # r => call'[s] = call[s]
  BY OneStep
<1>2. connection' \in G!Connections \cup {None} /\ connection' # None
  BY NoneIsNoRow
<1>3. G!Idle.op = "idle"
  BY DEF G!Idle
<1>. QED
  BY <1>1, <1>2, <1>3 DEF ConnectionInv

LEMMA WrittenConnection ==
  ASSUME connection \in G!Connections, TokenOfAccount, connection # None, NEW q,
         q.email \in Emails, q.renewed \in BOOLEAN, q.found \in G!Connections,
         ~q.renewed => q.found.email = q.email
  PROVE  /\ G!Written(q) \in G!Connections
         /\ \/ connection # q.found \/ (overtaken /\ ~q.renewed)
            \/ G!Written(q).token = G!Written(q).email
<1>1. /\ G!Written(q).email = (IF q.email = q.found.email THEN connection.email ELSE q.email)
      /\ G!Written(q).token = (IF q.renewed THEN q.email ELSE connection.token)
  BY DEF G!Written
<1>2. G!Written(q) \in G!Connections
  <2>1. /\ (IF q.email = q.found.email THEN connection.email ELSE q.email) \in Emails
        /\ (IF q.renewed THEN q.email ELSE connection.token) \in Emails
    BY DEF G!Connections
  <2>2. (connection.live \/ ~q.found.live) \in BOOLEAN
    OBVIOUS
  <2>. QED
    BY <2>1, <2>2, Zenon DEF G!Written, G!Connections
<1>3. ASSUME connection = q.found, q.renewed PROVE G!Written(q).token = G!Written(q).email
  BY <1>1, <1>3
<1>4. ASSUME connection = q.found, ~q.renewed, ~overtaken
      PROVE  G!Written(q).token = G!Written(q).email
  BY <1>1, <1>4 DEF TokenOfAccount, G!TokenOfAccount
<1>. QED
  BY <1>2, <1>3, <1>4

LEMMA ConnectionStep == CallIsFunction /\ ConnectionInv /\ [G!Next]_googleVars => ConnectionInv'
<1>. SUFFICES ASSUME CallIsFunction, ConnectionInv, [G!Next]_googleVars PROVE ConnectionInv'
  OBVIOUS
<1>i. G!Idle.op = "idle" /\ Going(G!Idle)
  BY DEF G!Idle, Going
<1>e. ASSUME NEW r \in Requests, call' = [call EXCEPT ![r] = G!Idle],
             UNCHANGED <<connection, overtaken>>
      PROVE  ConnectionInv'
  BY <1>i, <1>e, ConnectionMove
<1>1. ASSUME NEW k \in Links, G!Authorize(k) PROVE ConnectionInv'
  BY <1>1 DEF G!Authorize, G!accountVars, ConnectionInv, TokenOfAccount, G!TokenOfAccount
<1>2. ASSUME NEW r \in Requests, NEW k \in Links, G!AskCallback(r, k) PROVE ConnectionInv'
  <2>. DEFINE q == [op |-> "callback", at |-> "seen", link |-> k]
  <2>1. Going(q)
    BY DEF Going
  <2>2. call' = [call EXCEPT ![r] = q] /\ UNCHANGED <<connection, overtaken>>
    BY <1>2 DEF G!AskCallback, G!Ask, G!accountVars
  <2>. HIDE DEF q
  <2>. QED
    BY <2>1, <2>2, ConnectionMove
<1>3. ASSUME NEW r \in Requests, G!Consume(r) PROVE ConnectionInv'
  <2>. DEFINE q == [op |-> "callback", at |-> "passed"]
  <2>1. Going(q)
    BY DEF Going
  <2>2. call' = [call EXCEPT ![r] = q] /\ UNCHANGED <<connection, overtaken>>
    BY <1>3 DEF G!Consume, G!Step, G!accountVars
  <2>. HIDE DEF q
  <2>. QED
    BY <2>1, <2>2, ConnectionMove
<1>4. ASSUME NEW r \in Requests, G!Expire(r) \/ G!Cut(r) \/ G!Refuse(r) \/ G!Record(r)
      PROVE  ConnectionInv'
  <2>1. call' = [call EXCEPT ![r] = G!Idle] /\ UNCHANGED <<connection, overtaken>>
    BY <1>4 DEF G!Expire, G!Cut, G!Refuse, G!Record, G!End, G!Step, G!accountVars
  <2>. QED
    BY <1>e, <2>1
<1>5. ASSUME NEW r \in Requests, NEW e \in Emails, NEW renewed \in BOOLEAN, G!Exchange(r, e, renewed)
      PROVE  ConnectionInv'
  <2>. DEFINE q == [op |-> "callback", at |-> "granted", email |-> e, renewed |-> renewed]
  <2>1. Going(q)
    BY DEF Going
  <2>2. call' = [call EXCEPT ![r] = q] /\ UNCHANGED <<connection, overtaken>>
    BY <1>5 DEF G!Exchange, G!Step
  <2>. HIDE DEF q
  <2>. QED
    BY <2>1, <2>2, ConnectionMove
<1>6. ASSUME NEW r \in Requests, G!Load(r) PROVE ConnectionInv'
  <2>. DEFINE c == call[r]
              q == [op |-> "callback", at |-> "loaded", email |-> c.email,
                    renewed |-> c.renewed, found |-> connection]
  <2>1. /\ UNCHANGED <<connection, overtaken>> /\ c.op = "callback" /\ c.at = "granted"
        /\ \/ call' = [call EXCEPT ![r] = G!Idle]
           \/ (c.renewed \/ G!Reusable(c.email)) /\ call' = [call EXCEPT ![r] = q]
    BY <1>6 DEF G!Load, G!End, G!Step, G!At, G!accountVars
  <2>2. c.email \in Emails /\ c.renewed \in BOOLEAN /\ connection \in G!Connections \cup {None}
    BY <2>1 DEF ConnectionInv
  <2>3. /\ q.op = "callback" /\ q.email = c.email /\ q.renewed = c.renewed /\ q.found = connection
    OBVIOUS
  <2>. HIDE DEF c, q
  <2>4. CASE c.renewed \/ G!Reusable(c.email)
    <3>1. Going(q)
      BY <2>2, <2>3, <2>4 DEF Going, G!Reusable
    <3>. QED
      BY <1>e, <2>1, <3>1, ConnectionMove
  <2>. QED
    BY <1>e, <2>1, <2>4
<1>7. ASSUME NEW r \in Requests, G!Connect(r) PROVE ConnectionInv'
  <2>. DEFINE q == call[r]
  <2>1. /\ q.op = "callback" /\ q.at = "loaded" /\ call' = [call EXCEPT ![r] = G!Idle]
        /\ q.email \in Emails /\ q.renewed \in BOOLEAN
        /\ q.found \in G!Connections \cup {None} /\ (q.found # None => connection # None)
        /\ ~q.renewed => q.found # None /\ q.found.email = q.email
    BY <1>7 DEF G!Connect, G!At, G!End, G!Step, ConnectionInv
  <2>2. CASE /\ q.found = None /\ connection = None /\ overtaken' = FALSE
             /\ connection' = [email |-> q.email, token |-> q.email, live |-> TRUE]
    <3>1. connection' \in G!Connections /\ connection'.token = connection'.email
      BY <2>1, <2>2 DEF G!Connections
    <3>. QED
      BY <2>1, <3>1, ConnectionSet DEF TokenOfAccount, G!TokenOfAccount
  <2>3. CASE UNCHANGED <<connection, overtaken>>
    BY <1>e, <2>1, <2>3
  <2>4. CASE /\ q.found # None /\ connection' = G!Written(q)
             /\ overtaken' = (connection # q.found \/ (overtaken /\ ~q.renewed))
    <3>1. /\ connection \in G!Connections /\ q.found \in G!Connections /\ TokenOfAccount
          /\ connection # None
      BY <2>1, <2>4 DEF ConnectionInv
    <3>2. /\ connection' \in G!Connections
          /\ overtaken' \/ connection'.token = connection'.email
      BY <2>1, <2>4, <3>1, WrittenConnection
    <3>3. TokenOfAccount'
      BY <3>2 DEF TokenOfAccount, G!TokenOfAccount
    <3>. QED
      BY <2>1, <3>2, <3>3, ConnectionSet
  <2>. QED
    BY <1>7, <2>2, <2>3, <2>4 DEF G!Connect
<1>8. ASSUME NEW r \in Requests, G!AskDisconnect(r) PROVE ConnectionInv'
  <2>. DEFINE q == [op |-> "disconnect", at |-> "seen", account |-> connection.token]
  <2>1. connection # None /\ call' = [call EXCEPT ![r] = q] /\ UNCHANGED <<connection, overtaken>>
    BY <1>8 DEF G!AskDisconnect, G!Connected, G!Ask, G!accountVars
  <2>2. Going(q)
    BY <2>1 DEF Going
  <2>. HIDE DEF q
  <2>. QED
    BY <2>1, <2>2, ConnectionMove
<1>9. ASSUME NEW r \in Requests, G!Revoke(r) PROVE ConnectionInv'
  <2>. DEFINE q == [op |-> "disconnect", at |-> "revoked"]
  <2>1. connection # None /\ call' = [call EXCEPT ![r] = q] /\ UNCHANGED <<connection, overtaken>>
    BY <1>9 DEF G!Revoke, G!At, G!Step, ConnectionInv
  <2>2. Going(q)
    BY <2>1 DEF Going
  <2>. HIDE DEF q
  <2>. QED
    BY <2>1, <2>2, ConnectionMove
<1>10. ASSUME NEW r \in Requests, G!Disconnect(r) PROVE ConnectionInv'
  <2>1. /\ connection \in G!Connections /\ connection # None /\ TokenOfAccount
        /\ connection' = [connection EXCEPT !.live = FALSE] /\ overtaken' = overtaken
        /\ call' = [call EXCEPT ![r] = G!Idle]
    BY <1>10 DEF G!Disconnect, G!At, G!End, G!Step, ConnectionInv
  <2>2. /\ connection' \in G!Connections /\ connection'.token = connection.token
        /\ connection'.email = connection.email
    BY <2>1 DEF G!Connections
  <2>. QED
    BY <2>1, <2>2, ConnectionSet DEF TokenOfAccount, G!TokenOfAccount
<1>11. ASSUME NEW r \in Requests, NEW q, call' = [call EXCEPT ![r] = q], q.op \in G!FileOps \cup {"idle"},
              UNCHANGED <<connection, overtaken>>
       PROVE  ConnectionInv'
  BY <1>11, ConnectionMove DEF Going, G!FileOps
<1>12. ASSUME NEW r \in Requests, NEW t, G!AskCreate(r, t) PROVE ConnectionInv'
  <2>. DEFINE q == [op |-> "create", at |-> "asked", account |-> connection.token, title |-> t]
  <2>1. q.op \in G!FileOps
    BY DEF G!FileOps
  <2>2. call' = [call EXCEPT ![r] = q] /\ UNCHANGED <<connection, overtaken>>
    BY <1>12 DEF G!AskCreate, G!Ask, G!accountVars
  <2>. HIDE DEF q
  <2>. QED
    BY <1>11, <2>1, <2>2
<1>13. ASSUME NEW r \in Requests, NEW f \in Files, NEW op \in {"rename", "delete"}, NEW t,
              G!AskFile(r, f, op, t)
       PROVE  ConnectionInv'
  <2>. DEFINE q == [op |-> op, at |-> "seen", account |-> connection.token, file |-> f, title |-> t]
  <2>1. q.op \in G!FileOps
    BY DEF G!FileOps
  <2>2. call' = [call EXCEPT ![r] = q] /\ UNCHANGED <<connection, overtaken>>
    BY <1>13 DEF G!AskFile, G!Ask, G!accountVars
  <2>. HIDE DEF q
  <2>. QED
    BY <1>11, <2>1, <2>2
<1>14. ASSUME NEW r \in Requests, NEW f \in Files, G!Create(r, f) \/ G!CreateUnheard(r, f)
       PROVE  ConnectionInv'
  <2>. DEFINE q == [op |-> "create", at |-> "done", file |-> f, title |-> call[r].title]
  <2>1. q.op \in G!FileOps
    BY DEF G!FileOps
  <2>2. /\ call' = [call EXCEPT ![r] = q] \/ call' = [call EXCEPT ![r] = G!Idle]
        /\ UNCHANGED <<connection, overtaken>>
    BY <1>14 DEF G!Create, G!CreateUnheard, G!End, G!Step, G!accountVars
  <2>. HIDE DEF q
  <2>. QED
    BY <1>11, <1>e, <2>1, <2>2
<1>15. ASSUME NEW r \in Requests, G!Alter(r) PROVE ConnectionInv'
  <2>. DEFINE q == [op |-> call[r].op, at |-> "done", file |-> call[r].file, title |-> call[r].title]
  <2>1. q.op \in G!FileOps
    BY <1>15 DEF G!Alter, G!FileOps
  <2>2. /\ call' = [call EXCEPT ![r] = q] \/ call' = [call EXCEPT ![r] = G!Idle]
        /\ UNCHANGED <<connection, overtaken>>
    BY <1>15 DEF G!Alter, G!End, G!Step, G!accountVars
  <2>. HIDE DEF q
  <2>. QED
    BY <1>11, <1>e, <2>1, <2>2
<1>16. CASE UNCHANGED googleVars
  BY <1>16 DEF googleVars, ConnectionInv, TokenOfAccount, G!TokenOfAccount
<1>. QED
  BY <1>1, <1>2, <1>3, <1>4, <1>5, <1>6, <1>7, <1>8, <1>9, <1>10, <1>12, <1>13, <1>14, <1>15, <1>16
     DEF G!Next, G!Connecting, G!Disconnecting, G!Filing

\* The token kept is that of the account the connection names, unless the row
\* was written over a commit its writer had not seen (authorization_callback).
THEOREM TokenMatches == G!Spec => []TokenOfAccount
<1>1. ConnectionInv => TokenOfAccount
  BY DEF ConnectionInv
<1>2. G!Init => CallIsFunction
  BY GoogleInit
<1>. QED
  BY <1>1, <1>2, ConnectionInit, ConnectionStep, AllMove, PTL DEF G!Spec, googleVars, G!vars

-----------------------------------------------------------------------------
(* Files. A file that is not astray has one request at work on it at most,   *)
(* and its row tells what the file was when that request began.              *)

\* request r holds file f
Holds(q, f) == q.op \in G!FileOps /\ q.at # "asked" /\ q.file = f

\* what a request at work knows of its file, recorded as here and being there
Knows(q, here, there) ==
  /\ q.at \in {"seen", "done"}
  /\ q.at = "seen" => q.op \in {"rename", "delete"} /\ here = there /\ here # None
  /\ q.at = "done" => there = IF q.op = "delete" THEN None ELSE q.title
  /\ q.at = "done" /\ q.op = "rename" => here # None

Faithful(q, f) == Knows(q, row[f], file[f])

Orderly(f) ==
  /\ \A r, s \in Requests : Holds(call[r], f) /\ Holds(call[s], f) => r = s
  /\ (\A r \in Requests : ~Holds(call[r], f)) => row[f] = file[f]
  /\ \A r \in Requests : Holds(call[r], f) => Faithful(call[r], f)

FilesInv ==
  /\ file = [f \in Files |-> file[f]] /\ row = [f \in Files |-> row[f]]
  /\ \A f \in Files : f \in astray \/ Orderly(f)

LEMMA HoldersHold ==
  ASSUME NEW f PROVE G!Holders(f) = {r \in Requests : Holds(call[r], f)}
BY DEF G!Holders, Holds

LEMMA FilesInit == G!Init => FilesInv
BY DEF G!Init, G!Idle, FilesInv, Orderly, Holds, G!FileOps

\* a step of a request that holds no file before or after it, or the same one
\* as faithfully
LEMMA FilesMove ==
  ASSUME CallIsFunction, FilesInv, NEW r \in Requests, NEW q,
         call' = [call EXCEPT ![r] = q], file' = file, row' = row, astray' = astray,
         \A f \in Files : ~Holds(call[r], f) /\ ~Holds(q, f)
  PROVE  FilesInv'
<1>1. call'[r] = q /\ \A s \in Requests : s # r => call'[s] = call[s]
  BY OneStep
<1>2. ASSUME NEW f \in Files, Orderly(f) PROVE Orderly(f)'
  <2>1. \A s \in Requests : Holds(call'[s], f) <=> Holds(call[s], f)
    BY <1>1
  <2>2. \A s \in Requests : Holds(call'[s], f) => call'[s] = call[s]
    BY <1>1
  <2>. QED
    BY <1>2, <2>1, <2>2 DEF Orderly, Faithful, Knows, Holds
<1>. QED
  BY <1>2 DEF FilesInv

\* a request is done with its file, which is then as its row says
LEMMA FileLeft ==
  ASSUME CallIsFunction, NEW r \in Requests, NEW q, call' = [call EXCEPT ![r] = q],
         NEW f \in Files, Orderly(f), Holds(call[r], f), ~Holds(q, f), row'[f] = file'[f]
  PROVE  Orderly(f)'
<1>1. call'[r] = q /\ \A s \in Requests : s # r => call'[s] = call[s]
  BY OneStep
<1>2. \A s \in Requests : ~Holds(call'[s], f)
  BY <1>1 DEF Orderly
<1>. QED
  BY <1>2 DEF Orderly, Holds

\* a request that holds another file, if any
LEMMA FileApart ==
  ASSUME CallIsFunction, NEW r \in Requests, NEW q, call' = [call EXCEPT ![r] = q],
         NEW f \in Files, Orderly(f), ~Holds(call[r], f), ~Holds(q, f),
         row'[f] = row[f], file'[f] = file[f]
  PROVE  Orderly(f)'
<1>1. call'[r] = q /\ \A s \in Requests : s # r => call'[s] = call[s]
  BY OneStep
<1>2. \A s \in Requests : Holds(call'[s], f) <=> Holds(call[s], f)
  BY <1>1
<1>3. \A s \in Requests : Holds(call'[s], f) => call'[s] = call[s]
  BY <1>1
<1>. QED
  BY <1>2, <1>3 DEF Orderly, Faithful, Knows, Holds

\* a request comes to hold a file alone, or goes on holding it
LEMMA FileHeld ==
  ASSUME CallIsFunction, NEW r \in Requests, NEW q, call' = [call EXCEPT ![r] = q],
         NEW f \in Files, \A s \in Requests : Holds(call[s], f) => s = r,
         Holds(q, f), Knows(q, row'[f], file'[f])
  PROVE  Orderly(f)'
<1>1. call'[r] = q /\ \A s \in Requests : s # r => call'[s] = call[s]
  BY OneStep
<1>2. \A s \in Requests : Holds(call'[s], f) <=> s = r
  BY <1>1
<1>. QED
  BY <1>1, <1>2 DEF Orderly, Faithful, Knows, Holds

LEMMA FilesStep == CallIsFunction /\ FilesInv /\ [G!Next]_googleVars => FilesInv'
<1>. SUFFICES ASSUME CallIsFunction, FilesInv, [G!Next]_googleVars PROVE FilesInv'
  OBVIOUS
<1>i. \A f : ~Holds(G!Idle, f)
  BY DEF G!Idle, Holds, G!FileOps
<1>1. ASSUME NEW k \in Links, G!Authorize(k) PROVE FilesInv'
  BY <1>1 DEF G!Authorize, G!fileVars, FilesInv, Orderly, Holds, Faithful
<1>2. ASSUME NEW r \in Requests, NEW k \in Links, G!AskCallback(r, k) PROVE FilesInv'
  <2>. DEFINE q == [op |-> "callback", at |-> "seen", link |-> k]
  <2>1. \A f \in Files : ~Holds(call[r], f) /\ ~Holds(q, f)
    BY <1>2, <1>i DEF G!AskCallback, G!Ask, Holds, G!FileOps
  <2>2. call' = [call EXCEPT ![r] = q] /\ UNCHANGED <<file, row, astray>>
    BY <1>2 DEF G!AskCallback, G!Ask, G!fileVars
  <2>. HIDE DEF q
  <2>. QED
    BY <2>1, <2>2, FilesMove
<1>3. ASSUME NEW r \in Requests, G!Consume(r) PROVE FilesInv'
  <2>. DEFINE q == [op |-> "callback", at |-> "passed"]
  <2>1. \A f \in Files : ~Holds(call[r], f) /\ ~Holds(q, f)
    BY <1>3 DEF G!Consume, G!At, Holds, G!FileOps
  <2>2. call' = [call EXCEPT ![r] = q] /\ UNCHANGED <<file, row, astray>>
    BY <1>3 DEF G!Consume, G!Step, G!fileVars
  <2>. HIDE DEF q
  <2>. QED
    BY <2>1, <2>2, FilesMove
<1>4. ASSUME NEW r \in Requests, G!Expire(r) \/ G!Connect(r) \/ G!Disconnect(r) PROVE FilesInv'
  <2>1. \A f \in Files : ~Holds(call[r], f) /\ ~Holds(G!Idle, f)
    BY <1>4, <1>i DEF G!Expire, G!Connect, G!Disconnect, G!At, Holds, G!FileOps
  <2>2. call' = [call EXCEPT ![r] = G!Idle] /\ UNCHANGED <<file, row, astray>>
    BY <1>4 DEF G!Expire, G!Connect, G!Disconnect, G!End, G!Step, G!fileVars
  <2>. QED
    BY <2>1, <2>2, FilesMove
<1>5. ASSUME NEW r \in Requests, NEW e \in Emails, NEW renewed \in BOOLEAN, G!Exchange(r, e, renewed)
      PROVE  FilesInv'
  <2>. DEFINE q == [op |-> "callback", at |-> "granted", email |-> e, renewed |-> renewed]
  <2>1. \A f \in Files : ~Holds(call[r], f) /\ ~Holds(q, f)
    BY <1>5 DEF G!Exchange, G!At, Holds, G!FileOps
  <2>2. call' = [call EXCEPT ![r] = q] /\ UNCHANGED <<file, row, astray>>
    BY <1>5 DEF G!Exchange, G!Step, G!fileVars
  <2>. HIDE DEF q
  <2>. QED
    BY <2>1, <2>2, FilesMove
<1>6. ASSUME NEW r \in Requests, G!Load(r) PROVE FilesInv'
  <2>. DEFINE q == [op |-> "callback", at |-> "loaded", email |-> call[r].email,
                    renewed |-> call[r].renewed, found |-> connection]
  <2>1. \A f \in Files : ~Holds(call[r], f) /\ ~Holds(q, f)
    BY <1>6 DEF G!Load, G!At, Holds, G!FileOps
  <2>2. /\ call' = [call EXCEPT ![r] = q] \/ call' = [call EXCEPT ![r] = G!Idle]
        /\ UNCHANGED <<file, row, astray>>
    BY <1>6 DEF G!Load, G!End, G!Step, G!fileVars
  <2>. HIDE DEF q
  <2>. QED
    BY <1>i, <2>1, <2>2, FilesMove
<1>7. ASSUME NEW r \in Requests, G!AskDisconnect(r) PROVE FilesInv'
  <2>. DEFINE q == [op |-> "disconnect", at |-> "seen", account |-> connection.token]
  <2>1. \A f \in Files : ~Holds(call[r], f) /\ ~Holds(q, f)
    BY <1>7, <1>i DEF G!AskDisconnect, G!Ask, Holds, G!FileOps
  <2>2. call' = [call EXCEPT ![r] = q] /\ UNCHANGED <<file, row, astray>>
    BY <1>7 DEF G!AskDisconnect, G!Ask, G!fileVars
  <2>. HIDE DEF q
  <2>. QED
    BY <2>1, <2>2, FilesMove
<1>8. ASSUME NEW r \in Requests, G!Revoke(r) PROVE FilesInv'
  <2>. DEFINE q == [op |-> "disconnect", at |-> "revoked"]
  <2>1. \A f \in Files : ~Holds(call[r], f) /\ ~Holds(q, f)
    BY <1>8 DEF G!Revoke, G!At, Holds, G!FileOps
  <2>2. call' = [call EXCEPT ![r] = q] /\ UNCHANGED <<file, row, astray>>
    BY <1>8 DEF G!Revoke, G!Step, G!fileVars
  <2>. HIDE DEF q
  <2>. QED
    BY <2>1, <2>2, FilesMove
<1>9. ASSUME NEW r \in Requests, NEW t, G!AskCreate(r, t) PROVE FilesInv'
  <2>. DEFINE q == [op |-> "create", at |-> "asked", account |-> connection.token, title |-> t]
  <2>1. \A f \in Files : ~Holds(call[r], f) /\ ~Holds(q, f)
    BY <1>9, <1>i DEF G!AskCreate, G!Ask, Holds, G!FileOps
  <2>2. call' = [call EXCEPT ![r] = q] /\ UNCHANGED <<file, row, astray>>
    BY <1>9 DEF G!AskCreate, G!Ask, G!fileVars
  <2>. HIDE DEF q
  <2>. QED
    BY <2>1, <2>2, FilesMove
<1>10. ASSUME NEW r \in Requests, NEW k \in Files, NEW op \in {"rename", "delete"}, NEW t,
              G!AskFile(r, k, op, t)
       PROVE  FilesInv'
  <2>. DEFINE q == [op |-> op, at |-> "seen", account |-> connection.token, file |-> k, title |-> t]
  <2>1. /\ call' = [call EXCEPT ![r] = q] /\ file' = file /\ row' = row /\ row[k] # None
        /\ astray' = IF G!Holders(k) = {} THEN astray ELSE astray \cup {k}
        /\ \A f : ~Holds(call[r], f)
    BY <1>10, <1>i DEF G!AskFile, G!Ask
  <2>2. Holds(q, k) /\ \A f : f # k => ~Holds(q, f)
    BY DEF Holds, G!FileOps
  <2>3. q.at = "seen" /\ q.op \in {"rename", "delete"}
    OBVIOUS
  <2>. HIDE DEF q
  <2>4. ASSUME NEW f \in Files, f \notin astray' PROVE Orderly(f)'
    <3>1. Orderly(f)
      BY <2>1, <2>4 DEF FilesInv
    <3>2. CASE f # k
      BY <2>1, <2>2, <3>1, <3>2, FileApart
    <3>3. CASE f = k
      <4>1. \A s \in Requests : ~Holds(call[s], f)
        BY <2>1, <2>4, <3>3, HoldersHold
      <4>2. Knows(q, row'[f], file'[f])
        BY <2>1, <2>3, <3>1, <3>3, <4>1 DEF Orderly, Faithful, Knows
      <4>. QED
        BY <2>1, <2>2, <3>3, <4>1, <4>2, FileHeld
    <3>. QED
      BY <3>2, <3>3
  <2>. QED
    BY <2>1, <2>4 DEF FilesInv
<1>11. ASSUME NEW r \in Requests, NEW k \in Files, G!Create(r, k) PROVE FilesInv'
  <2>. DEFINE title == call[r].title
              q == [op |-> "create", at |-> "done", file |-> k, title |-> title]
  <2>1. /\ call' = [call EXCEPT ![r] = q] /\ file' = [file EXCEPT ![k] = title] /\ row' = row
        /\ astray' = astray \ {k} /\ G!Holders(k) = {} /\ row[k] = None
        /\ \A f : ~Holds(call[r], f)
    BY <1>11 DEF G!Create, G!At, G!Step, Holds
  <2>2. /\ Holds(q, k) /\ \A f : f # k => ~Holds(q, f)
        /\ q.at = "done" /\ q.op = "create" /\ q.title = title
    BY DEF Holds, G!FileOps
  <2>. HIDE DEF q, title
  <2>3. file'[k] = title /\ \A f \in Files : f # k => file'[f] = file[f]
    BY <2>1 DEF FilesInv
  <2>4. ASSUME NEW f \in Files, f \notin astray' PROVE Orderly(f)'
    <3>1. CASE f # k
      <4>1. Orderly(f)
        BY <2>1, <2>4, <3>1 DEF FilesInv
      <4>. QED
        BY <2>1, <2>2, <2>3, <3>1, <4>1, FileApart
    <3>2. CASE f = k
      <4>1. \A s \in Requests : ~Holds(call[s], f)
        BY <2>1, <3>2, HoldersHold
      <4>2. Knows(q, row'[f], file'[f])
        BY <2>2, <2>3, <3>2 DEF Knows
      <4>. QED
        BY <2>1, <2>2, <3>2, <4>1, <4>2, FileHeld
    <3>. QED
      BY <3>1, <3>2
  <2>5. file' = [f \in Files |-> file'[f]]
    BY <2>1 DEF FilesInv
  <2>. QED
    BY <2>1, <2>4, <2>5 DEF FilesInv
<1>12. ASSUME NEW r \in Requests, NEW k \in Files, G!CreateUnheard(r, k) PROVE FilesInv'
  <2>1. /\ call' = [call EXCEPT ![r] = G!Idle] /\ file' = [file EXCEPT ![k] = call[r].title]
        /\ row' = row /\ astray' = astray \cup {k}
        /\ \A f : ~Holds(call[r], f)
    BY <1>12 DEF G!CreateUnheard, G!At, G!End, G!Step, Holds
  <2>2. \A f \in Files : f # k => file'[f] = file[f]
    BY <2>1 DEF FilesInv
  <2>3. ASSUME NEW f \in Files, f \notin astray' PROVE Orderly(f)'
    BY <1>i, <2>1, <2>2, <2>3, FileApart DEF FilesInv
  <2>4. file' = [f \in Files |-> file'[f]]
    BY <2>1 DEF FilesInv
  <2>. QED
    BY <2>1, <2>3, <2>4 DEF FilesInv
<1>13. ASSUME NEW r \in Requests, G!Alter(r) PROVE FilesInv'
  <2>. DEFINE c == call[r]
              k == c.file
              q == [op |-> c.op, at |-> "done", file |-> k, title |-> c.title]
  <2>1. /\ c.op \in {"rename", "delete"} /\ c.at = "seen"
        /\ file' = [file EXCEPT ![k] = G!Outcome(c)] /\ row' = row
        /\ \/ call' = [call EXCEPT ![r] = q] /\ astray' = astray
           \/ call' = [call EXCEPT ![r] = G!Idle] /\ astray' = astray \cup {k}
    BY <1>13 DEF G!Alter, G!Step, G!End
  <2>2. /\ Holds(c, k) /\ \A f : f # k => ~Holds(c, f) /\ ~Holds(q, f)
        /\ Holds(q, k) /\ q.at = "done" /\ q.op = c.op /\ q.title = c.title
    BY <2>1 DEF Holds, G!FileOps
  <2>3. G!Outcome(c) = IF c.op = "delete" THEN None ELSE c.title
    BY <2>1 DEF G!Outcome
  <2>. HIDE DEF q, k
  <2>4. /\ \A f \in Files : f # k => file'[f] = file[f]
        /\ k \in Files => file'[k] = G!Outcome(c)
        /\ file' = [f \in Files |-> file'[f]]
    BY <2>1 DEF FilesInv
  <2>5. ASSUME NEW f \in Files, f \notin astray' PROVE Orderly(f)'
    <3>1. Orderly(f)
      BY <2>1, <2>5 DEF FilesInv
    <3>2. CASE f # k
      BY <1>i, <2>1, <2>2, <2>4, <3>1, <3>2, FileApart
    <3>3. CASE f = k
      <4>1. call' = [call EXCEPT ![r] = q]
        BY <2>1, <2>5, <3>3
      <4>2. (\A s \in Requests : Holds(call[s], f) => s = r) /\ row[f] # None
        BY <2>1, <2>2, <3>1, <3>3 DEF Orderly, Faithful, Knows
      <4>3. Knows(q, row'[f], file'[f])
        BY <2>1, <2>2, <2>3, <2>4, <3>3, <4>2 DEF Knows
      <4>. QED
        BY <2>2, <3>3, <4>1, <4>2, <4>3, FileHeld
    <3>. QED
      BY <3>2, <3>3
  <2>. QED
    BY <2>1, <2>4, <2>5 DEF FilesInv
<1>14. ASSUME NEW r \in Requests, G!Refuse(r) PROVE FilesInv'
  <2>. DEFINE c == call[r]
  <2>1. /\ call' = [call EXCEPT ![r] = G!Idle] /\ file' = file /\ astray' = astray
        /\ \/ c.at = "asked" /\ row' = row
           \/ c.at = "seen" /\ row' = [row EXCEPT ![c.file] = row[c.file]]
    BY <1>14 DEF G!Refuse, G!Refused, G!At, G!End, G!Step
  <2>2. row' = row
    BY <2>1 DEF FilesInv
  <2>3. ASSUME NEW f \in Files, f \notin astray' PROVE Orderly(f)'
    <3>1. Orderly(f)
      BY <2>1, <2>3 DEF FilesInv
    <3>2. CASE ~Holds(c, f)
      BY <1>i, <2>1, <2>2, <3>1, <3>2, FileApart
    <3>3. CASE Holds(c, f)
      <4>1. row[f] = file[f]
        BY <2>1, <3>1, <3>3 DEF Orderly, Faithful, Knows, Holds
      <4>. QED
        BY <1>i, <2>1, <2>2, <3>1, <3>3, <4>1, FileLeft
    <3>. QED
      BY <3>2, <3>3
  <2>. QED
    BY <2>1, <2>2, <2>3 DEF FilesInv
<1>15. ASSUME NEW r \in Requests, G!Record(r) PROVE FilesInv'
  <2>. DEFINE c == call[r]
              k == c.file
  <2>1. /\ c.op \in G!FileOps /\ c.at = "done"
        /\ call' = [call EXCEPT ![r] = G!Idle] /\ file' = file /\ astray' = astray
        /\ \/ c.op = "create" /\ row' = [row EXCEPT ![k] = c.title]
           \/ c.op = "delete" /\ row' = [row EXCEPT ![k] = None]
           \/ c.op = "rename" /\ row' = [row EXCEPT ![k] = IF @ = None THEN None ELSE c.title]
    BY <1>15 DEF G!Record, G!End, G!Step
  <2>2. Holds(c, k) /\ \A f : f # k => ~Holds(c, f)
    BY <2>1 DEF Holds
  <2>. HIDE DEF c, k
  <2>3. (\A f \in Files : f # k => row'[f] = row[f]) /\ row' = [f \in Files |-> row'[f]]
    BY <2>1 DEF FilesInv
  <2>4. ASSUME NEW f \in Files, f \notin astray' PROVE Orderly(f)'
    <3>1. Orderly(f)
      BY <2>1, <2>4 DEF FilesInv
    <3>2. CASE f # k
      BY <1>i, <2>1, <2>2, <2>3, <3>1, <3>2, FileApart DEF c
    <3>3. CASE f = k
      <4>1. Faithful(c, f)
        BY <2>2, <3>1, <3>3 DEF Orderly, c
      <4>2. row'[f] = file'[f]
        BY <2>1, <3>3, <4>1 DEF Faithful, Knows, FilesInv
      <4>. QED
        BY <1>i, <2>1, <2>2, <3>1, <3>3, <4>2, FileLeft DEF c
    <3>. QED
      BY <3>2, <3>3
  <2>. QED
    BY <2>1, <2>3, <2>4 DEF FilesInv
<1>16. ASSUME NEW r \in Requests, G!Cut(r) PROVE FilesInv'
  <2>. DEFINE c == call[r]
  <2>1. /\ call' = [call EXCEPT ![r] = G!Idle] /\ file' = file /\ row' = row
        /\ astray' = IF c.op \in G!FileOps /\ c.at = "done" THEN astray \cup {c.file} ELSE astray
    BY <1>16 DEF G!Cut, G!End, G!Step
  <2>2. ASSUME NEW f \in Files, f \notin astray' PROVE Orderly(f)'
    <3>1. Orderly(f)
      BY <2>1, <2>2 DEF FilesInv
    <3>2. CASE ~Holds(c, f)
      BY <1>i, <2>1, <3>1, <3>2, FileApart
    <3>3. CASE Holds(c, f)
      <4>1. c.at # "done"
        BY <2>1, <2>2, <3>3 DEF Holds
      <4>2. row[f] = file[f]
        BY <3>1, <3>3, <4>1 DEF Orderly, Faithful, Knows, Holds
      <4>. QED
        BY <1>i, <2>1, <3>1, <3>3, <4>2, FileLeft
    <3>. QED
      BY <3>2, <3>3
  <2>. QED
    BY <2>1, <2>2 DEF FilesInv
<1>17. CASE UNCHANGED googleVars
  BY <1>17 DEF googleVars, FilesInv, Orderly, Holds, Faithful
<1>. QED
  BY <1>1, <1>2, <1>3, <1>4, <1>5, <1>6, <1>7, <1>8, <1>9, <1>10, <1>11, <1>12, <1>13, <1>14,
     <1>15, <1>16, <1>17 DEF G!Next, G!Connecting, G!Disconnecting, G!Filing

\* A file at rest is recorded exactly as it exists at Google, or a request on it
\* was cut, lost its answer or overlapped another (google_workspace/router.py).
THEOREM RowsMatch == G!Spec => []RowsMatchFiles
<1>1. FilesInv => RowsMatchFiles
  BY HoldersHold DEF FilesInv, Orderly, RowsMatchFiles, G!RowsMatchFiles
<1>2. G!Init => CallIsFunction
  BY GoogleInit
<1>. QED
  BY <1>1, <1>2, FilesInit, FilesStep, AllMove, PTL DEF G!Spec, googleVars, G!vars

\* What TLC explores is behaviour of both components.
THEOREM InstanceOfBoth == OfficeSpec => Spec /\ G!Spec
<1>1. OfficeInit => Init /\ G!Init
  BY DEF OfficeInit
<1>2. [OfficeNext]_<<part, vars, googleVars>> => [Next]_vars /\ [G!Next]_googleVars
  BY DEF OfficeNext
<1>. QED
  BY <1>1, <1>2, PTL DEF OfficeSpec, Spec, G!Spec, googleVars, G!vars
===============================================================================
