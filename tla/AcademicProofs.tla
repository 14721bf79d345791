--------------------------- MODULE AcademicProofs ---------------------------
(***************************************************************************)
(* Proofs about the academic registry: placements of students, the courses *)
(* sections attend, and the administrator's assistant.                     *)
(***************************************************************************)
EXTENDS MCAcademic, SequenceTheorems, TLAPS

-----------------------------------------------------------------------------
(***************************************************************************)
(* The assistant.  A request decides on an approval there is, and a        *)
(* confirmation that is not stale finds no row of the name.                *)
(***************************************************************************)

Approval == [name : Names \cup {""}, status : {"none", "pending", "approved", "cancelled"}]

Turn ==
  {A!Quiet} \cup [op : {"chat"}, round : Nat, provider : Nat]
    \cup [op : {"confirm"}, approval : A!Approvals, stale : BOOLEAN]
    \cup [op : {"cancel"}, approval : A!Approvals]

Deciding(u) == turn[u].op \in {"confirm", "cancel"}

AssistantTypes ==
  /\ approval \in [A!Approvals -> Approval]
  /\ \A a \in A!Approvals : approval[a].status # "none" => approval[a].name \in Names
  /\ copies \in [Names -> Nat]
  /\ applied \in [A!Approvals -> Nat]
  /\ turn \in [Handlers -> Turn]

DecidesOnKnown ==
  \A u \in Handlers : Deciding(u) => approval[turn[u].approval].status # "none"

FreshCheck ==
  \A u \in Handlers : turn[u].op = "confirm" =>
    turn[u].stale \/ copies[approval[turn[u].approval].name] = 0

AssistantInv == AssistantTypes /\ DecidesOnKnown /\ FreshCheck

LEMMA TurnFields ==
  ASSUME NEW t \in Turn
  PROVE  /\ t.op \in {"none", "chat", "confirm", "cancel"}
         /\ t.op \in {"confirm", "cancel"} => t.approval \in A!Approvals
         /\ t.op = "chat" => t.round \in Nat /\ t.provider \in Nat
  BY DEF Turn, A!Quiet

LEMMA MarkedStale ==
  ASSUME NEW t \in Turn, t.op = "confirm"
  PROVE  LET x == [t EXCEPT !.stale = TRUE]
         IN  x \in Turn /\ x.op = "confirm" /\ x.approval = t.approval /\ x.stale
<1>1. t \in [op : {"confirm"}, approval : A!Approvals, stale : BOOLEAN]
  BY DEF Turn, A!Quiet
<1>. QED
  BY <1>1 DEF Turn

\* Requests that begin, go on with a chat or end leave the tables alone.
LEMMA TurnMoves ==
  ASSUME AssistantInv, UNCHANGED <<approval, copies, applied>>,
         turn' \in [Handlers -> Turn],
         \A v \in Handlers : turn'[v] = turn[v] \/ turn'[v].op \in {"none", "chat"}
  PROVE  AssistantInv'
<1>1. AssistantTypes'
  BY DEF AssistantInv, AssistantTypes
<1>2. DecidesOnKnown' /\ FreshCheck'
  BY DEF AssistantInv, DecidesOnKnown, FreshCheck, Deciding
<1>. QED
  BY <1>1, <1>2 DEF AssistantInv

LEMMA QuietTurn == A!Quiet \in Turn /\ A!Quiet.op = "none"
  BY DEF Turn, A!Quiet

LEMMA ChatTurn ==
  ASSUME NEW k \in Nat PROVE A!Asking(k) \in Turn /\ A!Asking(k).op = "chat"
  BY DEF Turn, A!Asking

LEMMA ChatInv ==
  ASSUME AssistantInv, NEW u \in Handlers,
         A!Chat(u) \/ A!ProviderFails(u) \/ A!Answer(u) \/ A!Read(u) \/ A!Undo(u)
  PROVE  AssistantInv'
<1>1. UNCHANGED <<approval, copies, applied>>
  BY DEF A!Chat, A!ProviderFails, A!Answer, A!Read, A!Undo
<1>2. turn \in [Handlers -> Turn] /\ turn[u] \in Turn
  BY DEF AssistantInv, AssistantTypes
<1>3. PICK t : turn' = [turn EXCEPT ![u] = t] /\ t \in Turn /\ t.op \in {"none", "chat"}
  <2>1. CASE A!Chat(u)
    BY <2>1, ChatTurn DEF A!Chat, A!Begin
  <2>2. CASE A!Answer(u) \/ A!Undo(u)
    BY <2>2, QuietTurn DEF A!Answer, A!Undo, A!Close
  <2>3. CASE A!Read(u)
    <3>1. turn[u].round + 1 \in Nat
      BY <2>3, <1>2, TurnFields DEF A!Read, A!Chatting
    <3>2. turn' = [turn EXCEPT ![u] = A!Asking(turn[u].round + 1)]
      BY <2>3 DEF A!Read
    <3>. QED
      BY <3>1, <3>2, ChatTurn
  <2>4. CASE A!ProviderFails(u)
    <3>1. turn[u] \in [op : {"chat"}, round : Nat, provider : Nat]
      BY <2>4, <1>2 DEF A!ProviderFails, A!Chatting, Turn, A!Quiet
    <3>2. [turn[u] EXCEPT !.provider = @ + 1] \in Turn
          /\ [turn[u] EXCEPT !.provider = @ + 1].op = "chat"
      BY <3>1 DEF Turn
    <3>3. \/ turn' = [turn EXCEPT ![u] = [turn[u] EXCEPT !.provider = @ + 1]]
          \/ turn' = [turn EXCEPT ![u] = A!Quiet]
      <4>1. turn' = [turn EXCEPT ![u] = IF turn[u].provider < Providers
                                        THEN [turn[u] EXCEPT !.provider = @ + 1] ELSE A!Quiet]
        BY <2>4, Zenon DEF A!ProviderFails
      <4>. QED
        BY <4>1, Zenon
    <3>. QED
      BY <3>2, <3>3, QuietTurn
  <2>. QED
    BY <2>1, <2>2, <2>3, <2>4
<1>4. turn' \in [Handlers -> Turn]
      /\ \A v \in Handlers : turn'[v] = turn[v] \/ turn'[v].op \in {"none", "chat"}
  BY <1>2, <1>3
<1>. QED
  BY <1>1, <1>4, TurnMoves

LEMMA NoStatus == A!NoApproval.status = "none"
  BY DEF A!NoApproval

LEMMA ProposeInv ==
  ASSUME AssistantInv, NEW u \in Handlers, NEW n \in Names, A!Propose(u, n)
  PROVE  AssistantInv'
<1>1. PICK a \in A!Approvals :
        /\ approval[a] = A!NoApproval
        /\ approval' = [approval EXCEPT ![a] = [name |-> n, status |-> "pending"]]
  BY DEF A!Propose, A!Free
<1>2. UNCHANGED <<copies, applied>> /\ turn' = [turn EXCEPT ![u] = A!Quiet]
  BY DEF A!Propose, A!Close
<1>3. AssistantTypes'
  <2>1. /\ approval'[a] = [name |-> n, status |-> "pending"]
        /\ \A b \in A!Approvals \ {a} : approval'[b] = approval[b]
    BY <1>1 DEF AssistantInv, AssistantTypes
  <2>2. \A b \in A!Approvals : approval'[b].status # "none" => approval'[b].name \in Names
    BY <2>1 DEF AssistantInv, AssistantTypes
  <2>. QED
    BY <1>1, <1>2, <2>2, QuietTurn DEF AssistantInv, AssistantTypes, Approval
<1>4. ASSUME NEW v \in Handlers, Deciding(v)'
      PROVE  /\ turn'[v] = turn[v] /\ Deciding(v) /\ turn[v].approval # a
             /\ approval'[turn'[v].approval] = approval[turn[v].approval]
  <2>1. v # u /\ turn'[v] = turn[v]
    BY <1>2, <1>4, QuietTurn DEF AssistantInv, AssistantTypes, Deciding
  <2>2. Deciding(v)
    BY <1>4, <2>1 DEF Deciding
  <2>3. turn[v].approval # a
    <3>1. approval[a].status = "none"
      BY <1>1, NoStatus
    <3>. QED
      BY <3>1, <2>2 DEF AssistantInv, DecidesOnKnown
  <2>. QED
    BY <1>1, <2>1, <2>2, <2>3 DEF AssistantInv, AssistantTypes
<1>5. DecidesOnKnown'
  BY <1>2, <1>4 DEF AssistantInv, DecidesOnKnown
<1>6. FreshCheck'
  BY <1>2, <1>4 DEF AssistantInv, FreshCheck, Deciding
<1>. QED
  BY <1>3, <1>5, <1>6 DEF AssistantInv

LEMMA DecideInv ==
  ASSUME AssistantInv, NEW u \in Handlers, NEW a \in A!Approvals,
         A!AskConfirm(u, a) \/ A!AskCancel(u, a)
  PROVE  AssistantInv'
<1>1. /\ approval[a].status = "pending"
      /\ UNCHANGED <<approval, copies, applied>>
  BY DEF A!AskConfirm, A!AskCancel, A!Decidable
<1>2. PICK t \in Turn : /\ turn' = [turn EXCEPT ![u] = t]
                        /\ t.approval = a /\ t.op \in {"confirm", "cancel"}
                        /\ t.op = "confirm" => copies[approval[a].name] = 0
  <2>1. CASE A!AskConfirm(u, a)
    <3>. DEFINE t == [op |-> "confirm", approval |-> a, stale |-> FALSE]
    <3>1. t \in Turn /\ t.approval = a /\ t.op = "confirm"
      BY DEF Turn
    <3>2. turn' = [turn EXCEPT ![u] = t] /\ copies[approval[a].name] = 0
      BY <2>1, Zenon DEF A!AskConfirm, A!Begin, A!Valid
    <3>. HIDE DEF t
    <3>. QED
      BY <3>1, <3>2
  <2>2. CASE A!AskCancel(u, a)
    <3>. DEFINE t == [op |-> "cancel", approval |-> a]
    <3>1. t \in Turn /\ t.approval = a /\ t.op = "cancel"
      BY DEF Turn
    <3>2. turn' = [turn EXCEPT ![u] = t]
      BY <2>2, Zenon DEF A!AskCancel, A!Begin
    <3>. HIDE DEF t
    <3>. QED
      BY <3>1, <3>2
  <2>. QED
    BY <2>1, <2>2
<1>3. AssistantTypes'
  BY <1>1, <1>2 DEF AssistantInv, AssistantTypes
<1>4. turn'[u] = t /\ \A v \in Handlers \ {u} : turn'[v] = turn[v]
  BY <1>2 DEF AssistantInv, AssistantTypes
<1>5. DecidesOnKnown'
  BY <1>1, <1>2, <1>4 DEF AssistantInv, DecidesOnKnown, Deciding
<1>6. FreshCheck'
  BY <1>1, <1>2, <1>4 DEF AssistantInv, FreshCheck
<1>. QED
  BY <1>3, <1>5, <1>6 DEF AssistantInv

\* What an insertion of name n leaves the requests with, some of which end.
Marked(ended, n) ==
  [v \in Handlers |->
     IF v \in ended THEN A!Quiet
     ELSE IF turn[v].op = "confirm" /\ approval[turn[v].approval].name = n
     THEN [turn[v] EXCEPT !.stale = TRUE] ELSE turn[v]]

\* An insertion of name n makes the confirmations stale that had looked for it.
LEMMA InsertMarks ==
  ASSUME AssistantInv, NEW n, NEW ended \in SUBSET Handlers, turn' = Marked(ended, n)
  PROVE  /\ turn' \in [Handlers -> Turn]
         /\ \A v \in ended : turn'[v] = A!Quiet
         /\ \A v \in Handlers \ ended :
              /\ turn'[v].op = turn[v].op
              /\ Deciding(v) => turn'[v].approval = turn[v].approval
              /\ turn[v].op = "confirm" /\ approval[turn[v].approval].name = n => turn'[v].stale
              /\ ~(turn[v].op = "confirm" /\ approval[turn[v].approval].name = n)
                   => turn'[v] = turn[v]
<1>1. \A v \in ended : turn'[v] = A!Quiet
  BY Zenon DEF Marked
<1>2. ASSUME NEW v \in Handlers \ ended
      PROVE  IF turn[v].op = "confirm" /\ approval[turn[v].approval].name = n
             THEN turn'[v] = [turn[v] EXCEPT !.stale = TRUE] ELSE turn'[v] = turn[v]
  BY Zenon DEF Marked
<1>3. \A v \in Handlers : turn[v] \in Turn
  BY DEF AssistantInv, AssistantTypes
<1>4. ASSUME NEW v \in Handlers \ ended
      PROVE  /\ turn'[v] \in Turn
             /\ turn'[v].op = turn[v].op
             /\ Deciding(v) => turn'[v].approval = turn[v].approval
             /\ turn[v].op = "confirm" /\ approval[turn[v].approval].name = n => turn'[v].stale
             /\ ~(turn[v].op = "confirm" /\ approval[turn[v].approval].name = n)
                  => turn'[v] = turn[v]
  <2>1. CASE turn[v].op = "confirm" /\ approval[turn[v].approval].name = n
    <3>1. turn'[v] = [turn[v] EXCEPT !.stale = TRUE]
      BY <2>1, <1>2, Zenon
    <3>2. turn[v] \in Turn /\ turn[v].op = "confirm"
      BY <1>3, <2>1, Zenon
    <3>3. /\ turn'[v] \in Turn /\ turn'[v].op = "confirm"
          /\ turn'[v].approval = turn[v].approval /\ turn'[v].stale
      BY ONLY <3>1, <3>2, MarkedStale
    <3>. QED
      BY <2>1, <3>3, Zenon
  <2>2. CASE ~(turn[v].op = "confirm" /\ approval[turn[v].approval].name = n)
    BY <2>2, <1>2, <1>3, Zenon
  <2>. QED
    BY <2>1, <2>2, Zenon
<1>5. turn' \in [Handlers -> Turn]
  <2>1. turn' = [v \in Handlers |-> turn'[v]]
    BY DEF Marked
  <2>. QED
    BY <1>1, <1>4, <2>1, QuietTurn
<1>. QED
  BY <1>1, <1>4, <1>5, Zenon

\* The table of names changes by insertions and deletions of n only.
LEMMA CreateInv ==
  ASSUME AssistantInv, NEW n \in Names, A!Create(n)
  PROVE  AssistantInv'
<1>1. /\ copies' = [copies EXCEPT ![n] = @ + 1]
      /\ UNCHANGED <<approval, applied>>
      /\ turn' = [v \in Handlers |->
                    IF v \in {} THEN A!Quiet
                    ELSE IF turn[v].op = "confirm" /\ approval[turn[v].approval].name = n
                    THEN [turn[v] EXCEPT !.stale = TRUE] ELSE turn[v]]
  BY Zenon DEF A!Create
<1>2. /\ turn' \in [Handlers -> Turn]
      /\ \A v \in Handlers :
              /\ turn'[v].op = turn[v].op
              /\ Deciding(v) => turn'[v].approval = turn[v].approval
              /\ turn[v].op = "confirm" /\ approval[turn[v].approval].name = n => turn'[v].stale
              /\ ~(turn[v].op = "confirm" /\ approval[turn[v].approval].name = n)
                   => turn'[v] = turn[v]
  <2>1. PICK ended : ended = {}
    OBVIOUS
  <2>2. ended \in SUBSET Handlers /\ Handlers \ ended = Handlers
    BY <2>1
  <2>3. turn' = Marked(ended, n)
    BY <1>1, <2>1, Zenon DEF Marked
  <2>4. /\ turn' \in [Handlers -> Turn]
        /\ \A v \in Handlers \ ended :
              /\ turn'[v].op = turn[v].op
              /\ Deciding(v) => turn'[v].approval = turn[v].approval
              /\ turn[v].op = "confirm" /\ approval[turn[v].approval].name = n => turn'[v].stale
              /\ ~(turn[v].op = "confirm" /\ approval[turn[v].approval].name = n)
                   => turn'[v] = turn[v]
    BY <2>2, <2>3, InsertMarks
  <2>. QED
    BY <2>2, <2>4, Zenon
<1>3. AssistantTypes'
  BY <1>1, <1>2 DEF AssistantInv, AssistantTypes
<1>4. DecidesOnKnown'
  BY <1>1, <1>2 DEF AssistantInv, DecidesOnKnown, Deciding
<1>5. FreshCheck'
  <2>. SUFFICES ASSUME NEW v \in Handlers, turn'[v].op = "confirm", ~turn'[v].stale
                PROVE  copies'[approval'[turn'[v].approval].name] = 0
    BY DEF FreshCheck
  <2>1. turn[v].op = "confirm" /\ approval[turn[v].approval].name # n /\ turn'[v] = turn[v]
    BY <1>2
  <2>2. copies[approval[turn[v].approval].name] = 0
    BY <2>1 DEF AssistantInv, FreshCheck
  <2>. QED
    BY <1>1, <2>1, <2>2 DEF AssistantInv, AssistantTypes
<1>. QED
  BY <1>3, <1>4, <1>5 DEF AssistantInv

LEMMA DeleteInv ==
  ASSUME AssistantInv, NEW n \in Names, A!Delete(n)
  PROVE  AssistantInv'
<1>1. /\ copies[n] > 0 /\ copies' = [copies EXCEPT ![n] = @ - 1]
      /\ UNCHANGED <<approval, applied, turn>>
  BY DEF A!Delete
<1>2. AssistantTypes'
  BY <1>1 DEF AssistantInv, AssistantTypes
<1>3. DecidesOnKnown'
  BY <1>1 DEF AssistantInv, DecidesOnKnown, Deciding
<1>4. FreshCheck'
  BY <1>1 DEF AssistantInv, AssistantTypes, FreshCheck
<1>. QED
  BY <1>2, <1>3, <1>4 DEF AssistantInv

LEMMA ConfirmInv ==
  ASSUME AssistantInv, NEW u \in Handlers, A!Confirm(u)
  PROVE  AssistantInv'
<1>0. PICK a, n : a = turn[u].approval /\ n = approval[a].name
  OBVIOUS
<1>1. /\ turn[u].op = "confirm"
      /\ copies' = [copies EXCEPT ![n] = @ + 1]
      /\ approval' = [approval EXCEPT ![a].status = "approved"]
      /\ applied' = [applied EXCEPT ![a] = @ + 1]
      /\ A!Overtake(n, u)
  BY <1>0, Zenon DEF A!Confirm
<1>2. a \in A!Approvals /\ Deciding(u) /\ n \in Names
  <2>1. a \in A!Approvals /\ Deciding(u)
    BY <1>0, <1>1, TurnFields DEF AssistantInv, AssistantTypes, Deciding
  <2>2. approval[a].status # "none"
    BY <1>0, <2>1 DEF AssistantInv, DecidesOnKnown
  <2>. QED
    BY <1>0, <2>1, <2>2 DEF AssistantInv, AssistantTypes
<1>4. approval[a].status # "none"
  BY <1>0, <1>2 DEF AssistantInv, DecidesOnKnown
<1>5. /\ approval' \in [A!Approvals -> Approval]
      /\ approval'[a].status = "approved" /\ approval'[a].name = n
      /\ \A b \in A!Approvals \ {a} : approval'[b] = approval[b]
  BY <1>0, <1>1, <1>2 DEF AssistantInv, AssistantTypes, Approval
<1>6. /\ turn' \in [Handlers -> Turn]
      /\ turn'[u] = A!Quiet
      /\ \A v \in Handlers \ {u} :
           /\ turn'[v].op = turn[v].op
           /\ Deciding(v) => turn'[v].approval = turn[v].approval
           /\ turn[v].op = "confirm" /\ approval[turn[v].approval].name = n => turn'[v].stale
           /\ ~(turn[v].op = "confirm" /\ approval[turn[v].approval].name = n)
                => turn'[v] = turn[v]
  <2>1. PICK ended : ended = {u}
    OBVIOUS
  <2>2. ended \in SUBSET Handlers /\ u \in ended
    BY <2>1
  <2>3. turn' = Marked(ended, n)
    <3>1. \A v : v \in ended <=> v = u
      BY <2>1
    <3>. QED
      BY <1>1, <3>1, Zenon DEF A!Overtake, Marked
  <2>4. /\ turn' \in [Handlers -> Turn]
        /\ \A v \in ended : turn'[v] = A!Quiet
        /\ \A v \in Handlers \ ended :
              /\ turn'[v].op = turn[v].op
              /\ Deciding(v) => turn'[v].approval = turn[v].approval
              /\ turn[v].op = "confirm" /\ approval[turn[v].approval].name = n => turn'[v].stale
              /\ ~(turn[v].op = "confirm" /\ approval[turn[v].approval].name = n)
                   => turn'[v] = turn[v]
    BY <2>2, <2>3, InsertMarks
  <2>. QED
    BY <2>1, <2>2, <2>4, Zenon
<1>7. AssistantTypes'
  <2>1. \A b \in A!Approvals : approval'[b].status # "none" => approval'[b].name \in Names
    BY <1>2, <1>5 DEF AssistantInv, AssistantTypes
  <2>2. copies' \in [Names -> Nat] /\ applied' \in [A!Approvals -> Nat]
    BY <1>1, <1>2 DEF AssistantInv, AssistantTypes
  <2>. QED
    BY <1>5, <1>6, <2>1, <2>2 DEF AssistantTypes
<1>8. \A v \in Handlers : Deciding(v)' =>
         /\ v # u /\ Deciding(v) /\ turn'[v].approval = turn[v].approval
         /\ turn[v].approval \in A!Approvals
  BY <1>6, QuietTurn, TurnFields DEF Deciding, AssistantInv, AssistantTypes
<1>9. DecidesOnKnown'
  <2>. SUFFICES ASSUME NEW v \in Handlers, Deciding(v)'
                PROVE  approval'[turn'[v].approval].status # "none"
    BY DEF DecidesOnKnown
  <2>1. CASE turn[v].approval = a
    BY <2>1, <1>5, <1>8
  <2>2. CASE turn[v].approval # a
    BY <2>2, <1>5, <1>8 DEF AssistantInv, DecidesOnKnown
  <2>. QED
    BY <2>1, <2>2
<1>10. FreshCheck'
  <2>. SUFFICES ASSUME NEW v \in Handlers, turn'[v].op = "confirm", ~turn'[v].stale
                PROVE  copies'[approval'[turn'[v].approval].name] = 0
    BY DEF FreshCheck
  <2>1. v # u /\ turn[v].op = "confirm"
    BY <1>6, QuietTurn
  <2>2. approval[turn[v].approval].name # n /\ turn'[v] = turn[v] /\ turn[v].approval # a
    BY <2>1, <1>0, <1>6
  <2>3. copies[approval[turn[v].approval].name] = 0
    BY <2>1, <2>2 DEF AssistantInv, FreshCheck
  <2>4. approval'[turn[v].approval] = approval[turn[v].approval]
    BY <1>1, <2>2 DEF AssistantInv, AssistantTypes
  <2>. QED
    BY <1>1, <2>2, <2>3, <2>4 DEF AssistantInv, AssistantTypes
<1>. QED
  BY <1>7, <1>9, <1>10 DEF AssistantInv

LEMMA CancelInv ==
  ASSUME AssistantInv, NEW u \in Handlers, A!Cancel(u)
  PROVE  AssistantInv'
<1>0. PICK a : a = turn[u].approval
  OBVIOUS
<1>1. /\ turn[u].op = "cancel"
      /\ approval' = [approval EXCEPT ![a].status = "cancelled"]
      /\ turn' = [turn EXCEPT ![u] = A!Quiet]
      /\ UNCHANGED <<copies, applied>>
  BY <1>0, Zenon DEF A!Cancel, A!Close
<1>2. a \in A!Approvals /\ Deciding(u)
  BY <1>0, <1>1, TurnFields DEF AssistantInv, AssistantTypes, Deciding
<1>5. /\ approval' \in [A!Approvals -> Approval]
      /\ approval'[a].status = "cancelled"
      /\ \A b \in A!Approvals : approval'[b].name = approval[b].name
      /\ \A b \in A!Approvals \ {a} : approval'[b] = approval[b]
  <2>. DEFINE x == [approval[a] EXCEPT !.status = "cancelled"]
  <2>1. approval \in [A!Approvals -> Approval] /\ approval' = [approval EXCEPT ![a] = x]
    BY <1>1 DEF AssistantInv, AssistantTypes
  <2>2. x \in Approval /\ x.status = "cancelled" /\ x.name = approval[a].name
    BY <1>2, <2>1 DEF Approval
  <2>. HIDE DEF x
  <2>. QED
    BY <1>2, <2>1, <2>2
<1>6. AssistantTypes'
  <2>1. approval[a].status # "none"
    BY <1>0, <1>2 DEF AssistantInv, DecidesOnKnown
  <2>2. \A b \in A!Approvals : approval'[b].status # "none" => approval'[b].name \in Names
    BY <2>1, <1>2, <1>5 DEF AssistantInv, AssistantTypes
  <2>. QED
    BY <1>1, <1>5, <2>2, QuietTurn DEF AssistantInv, AssistantTypes
<1>7. \A v \in Handlers : Deciding(v)' =>
         /\ v # u /\ Deciding(v) /\ turn'[v] = turn[v]
         /\ turn[v].approval \in A!Approvals
  BY <1>1, QuietTurn, TurnFields DEF Deciding, AssistantInv, AssistantTypes
<1>8. DecidesOnKnown'
  BY <1>5, <1>7 DEF AssistantInv, DecidesOnKnown
<1>9. FreshCheck'
  BY <1>1, <1>5, <1>7 DEF AssistantInv, FreshCheck, Deciding
<1>. QED
  BY <1>6, <1>8, <1>9 DEF AssistantInv

LEMMA AssistantInit == A!Init => AssistantInv
<1>. SUFFICES ASSUME A!Init PROVE AssistantInv
  OBVIOUS
<1>1. AssistantTypes
  BY QuietTurn DEF A!Init, AssistantTypes, A!NoApproval, Approval
<1>2. \A u \in Handlers : turn[u].op = "none"
  BY QuietTurn DEF A!Init
<1>3. DecidesOnKnown /\ FreshCheck
  BY <1>2 DEF DecidesOnKnown, FreshCheck, Deciding
<1>. QED
  BY <1>1, <1>3 DEF AssistantInv

LEMMA AssistantStep == ASSUME AssistantInv, [A!Next]_assistantVars PROVE AssistantInv'
<1>1. ASSUME NEW u \in Handlers,
             \/ A!Chat(u) \/ A!ProviderFails(u) \/ A!Answer(u) \/ A!Read(u) \/ A!Undo(u)
             \/ A!Confirm(u) \/ A!Cancel(u)
             \/ \E n \in Names : A!Propose(u, n)
             \/ \E a \in A!Approvals : A!AskConfirm(u, a) \/ A!AskCancel(u, a)
      PROVE  AssistantInv'
  BY <1>1, ChatInv, ProposeInv, DecideInv, ConfirmInv, CancelInv
<1>2. ASSUME NEW n \in Names, A!Create(n) \/ A!Delete(n) PROVE AssistantInv'
  BY <1>2, CreateInv, DeleteInv
<1>3. CASE UNCHANGED assistantVars
  <2>1. /\ UNCHANGED <<approval, copies, applied>> /\ turn' = turn
    BY <1>3 DEF assistantVars
  <2>. QED
    BY <2>1, TurnMoves DEF AssistantInv, AssistantTypes
<1>. QED
  BY <1>1, <1>2, <1>3 DEF A!Next

THEOREM AssistantInvariance == A!Spec => []AssistantInv
<1>1. [A!Next]_A!assistantVars => [A!Next]_assistantVars
  BY DEF A!assistantVars, assistantVars
<1>. QED
  BY <1>1, AssistantInit, AssistantStep, PTL DEF A!Spec

\* The confirmation that ends is the one that has looked for the name.
LEMMA SecondCopyStep ==
  ASSUME AssistantInv, A!Next, NEW u \in Handlers,
         turn[u].op = "confirm", ~turn[u].stale, turn'[u] = A!Quiet
  PROVE  copies'[approval[turn[u].approval].name] <= 1 \/ copies' = copies
<1>1. CASE A!Confirm(u)
  <2>0. PICK n : n = approval[turn[u].approval].name
    OBVIOUS
  <2>1. turn[u].approval \in A!Approvals
    BY TurnFields DEF AssistantInv, AssistantTypes
  <2>2. n \in Names
    BY <2>0, <2>1 DEF AssistantInv, AssistantTypes, DecidesOnKnown, Deciding
  <2>3. copies[n] = 0
    BY <2>0 DEF AssistantInv, FreshCheck
  <2>4. copies' = [copies EXCEPT ![n] = @ + 1]
    BY <1>1, <2>0 DEF A!Confirm
  <2>5. copies'[n] = 1
    BY <2>2, <2>3, <2>4 DEF AssistantInv, AssistantTypes
  <2>. QED
    BY <2>0, <2>5
<1>2. ASSUME NEW n, NEW S \in SUBSET Handlers, u \notin S, turn' = Marked(S, n)
      PROVE  FALSE
  <2>1. turn'[u].op = turn[u].op
    BY <1>2, InsertMarks
  <2>. QED
    BY <2>1, QuietTurn
<1>3. ASSUME NEW v \in Handlers, v # u, A!Confirm(v) PROVE FALSE
  <2>1. PICK n : n = approval[turn[v].approval].name
    OBVIOUS
  <2>2. PICK S : S = {v}
    OBVIOUS
  <2>3. \A w : w \in S <=> w = v
    BY <2>2
  <2>4. A!Overtake(n, v)
    BY <1>3, <2>1, Zenon DEF A!Confirm
  <2>5. turn' = Marked(S, n)
    BY <2>3, <2>4 DEF A!Overtake, Marked
  <2>6. S \in SUBSET Handlers /\ u \notin S
    BY <2>2, <1>3
  <2>. QED
    BY <1>2, <2>5, <2>6
<1>4. ASSUME NEW n \in Names, A!Create(n) PROVE FALSE
  <2>1. turn' = Marked({}, n)
    BY <1>4, Zenon DEF A!Create, Marked
  <2>2. PICK S : S = {}
    OBVIOUS
  <2>3. turn' = Marked(S, n) /\ S \in SUBSET Handlers /\ u \notin S
    BY <2>1, <2>2
  <2>. QED
    BY <1>2, <2>3
<1>5. ASSUME NEW n \in Names, A!Delete(n) PROVE FALSE
  BY <1>5, QuietTurn DEF A!Delete
<1>6. ASSUME NEW v \in Handlers,
             \/ A!Chat(v) \/ A!ProviderFails(v) \/ A!Answer(v) \/ A!Read(v)
             \/ A!Cancel(v) \/ A!Undo(v)
             \/ \E n \in Names : A!Propose(v, n)
             \/ \E a \in A!Approvals : A!AskConfirm(v, a) \/ A!AskCancel(v, a)
      PROVE  copies' = copies
  BY <1>6 DEF A!Chat, A!ProviderFails, A!Answer, A!Read, A!Cancel, A!Undo, A!Propose,
              A!AskConfirm, A!AskCancel
<1>. QED
  BY <1>1, <1>3, <1>4, <1>5, <1>6 DEF A!Next

\* A confirmation whose check nobody overtook adds the first row of its name
\* (_apply_action in agent/tools.py validates again what was proposed).
THEOREM NothingTwice == A!Spec => NoSecondCopy
<1>1. [A!Next]_A!assistantVars => [A!Next]_assistantVars
  BY DEF A!assistantVars, assistantVars
<1>2. ASSUME AssistantInv, [A!Next]_A!assistantVars
      PROVE  [\A u \in Handlers :
                (turn[u].op = "confirm" /\ ~turn[u].stale /\ turn'[u] = A!Quiet)
                  => copies'[approval[turn[u].approval].name] <= 1
                       \/ copies' = copies]_A!assistantVars
  BY <1>2, SecondCopyStep
<1>. QED
  BY <1>2, AssistantInvariance, PTL DEF A!Spec, NoSecondCopy, A!NoSecondCopy
-----------------------------------------------------------------------------
(***************************************************************************)
(* Enrollment.  Commits overtake each other, so a change must suit a       *)
(* student whatever has been written since it was computed.  It does: the  *)
(* rows of a student only grow in number, their first days are never       *)
(* rewritten, and a change that ends rows on a day opens one on that day   *)
(* that has no end.  So whenever a row has ended, there is another that    *)
(* has started since and goes on (Succession).                             *)
(***************************************************************************)

Placement == {r \in Row : r.from < r.to}
Changes == UNION {[S -> Change] : S \in SUBSET Students}
RunItem == [held : BOOLEAN, source : Nat, target : Nat]
RunItems == UNION {[S -> RunItem] : S \in SUBSET Students}
Run == [from : {n \in Semesters : n + 1 \in Semesters}, day : Days, item : RunItems]
Request == [at : {"idle", "promote", "assign", "move", "release", "create", "dates"},
            sem : 0..N, day : 0..LastDay, last : 0..LastDay, run : Nat, change : Changes]

Semester == [start : 0..LastDay, end : 0..LastDay, ready : BOOLEAN]

EnrollTypes ==
  /\ sem \in [Semesters -> Semester]
  /\ rows \in [Students -> Seq(Placement)]
  /\ section \in [Students -> Sections \cup {None}]
  /\ runs \in Seq(Run)
  /\ todo \in [Handlers -> Request]

\* what change c does to student s can be written on whatever is committed
Suits(s, c) ==
  /\ s \in Known
  /\ c.row \subseteq DOMAIN rows[s]
  /\ \A i \in DOMAIN c.new : c.new[i].from < c.new[i].to /\ c.new[i].to \in {c.until, Never}
  /\ c.until # 0 => /\ \A k \in c.row : rows[s][k].from < c.until
                    /\ \E i \in DOMAIN c.new : c.new[i].from = c.until /\ c.new[i].to = Never

\* ... and lets the run of semester n on day d say what it says
Promotes(n, d, s, c) ==
  /\ c.held => c.until = 0
  /\ ~c.held => /\ c.until = d
                /\ Len(c.new) = IF c.row = {} THEN 2 ELSE 1
                /\ c.new[Len(c.new)].from = d /\ c.new[Len(c.new)].sem = n + 1
  /\ c.row = {} => Len(c.new) > 0 /\ c.new[1].from < d /\ (~c.held => c.new[1].to = d)
  /\ \A k \in c.row : rows[s][k].from < d

\* what a release writes is what its run has decided on
Releases(i, s, c) ==
  /\ s \in DOMAIN runs[i].item
  /\ c.row = {runs[i].item[s].source}
  /\ c.until = runs[i].day
  /\ Len(c.new) = 1 /\ c.new[1].from = runs[i].day /\ c.new[1].sem = runs[i].from + 1

Fits(q) ==
  /\ \A s \in DOMAIN q.change : Suits(s, q.change[s])
  /\ q.at = "promote" => /\ q.sem \in Semesters /\ q.sem + 1 \in Semesters /\ q.day \in Days
                         /\ \A s \in DOMAIN q.change : Promotes(q.sem, q.day, s, q.change[s])
  /\ q.at = "release" => /\ q.run \in DOMAIN runs
                         /\ \A s \in DOMAIN q.change : Releases(q.run, s, q.change[s])
  /\ q.at = "create" => q.sem \in Semesters /\ 0 < q.day /\ q.day <= q.last
  /\ q.at = "dates" => Exists(q.sem)

RequestsFit == \A h \in Handlers : \A q \in Request : todo[h] = q => Fits(q)

SemesterDates == \A n \in Semesters : Exists(n) => sem[n].start <= sem[n].end

Newcomers == \A s \in Students : section[s] = None => rows[s] = <<>>

Succession ==
  \A s \in Students : \A k \in DOMAIN rows[s] : \A d \in Days :
    rows[s][k].to <= d =>
      \E j \in DOMAIN rows[s] : rows[s][k].to <= rows[s][j].from /\ Covers(rows[s][j], d)

Decided ==
  \A i \in DOMAIN runs : \A s \in DOMAIN runs[i].item :
    /\ s \in Known
    /\ runs[i].item[s].source \in DOMAIN rows[s]
    /\ rows[s][runs[i].item[s].source].from < runs[i].day

EnrollInv ==
  /\ EnrollTypes /\ SemesterDates /\ Newcomers /\ Succession /\ Decided
  /\ RunsMatchPlacements
  /\ RequestsFit

-----------------------------------------------------------------------------
LEMMA Numbers ==
  /\ N \in Nat /\ LastDay \in Nat /\ None \notin Sections
  /\ Starts \subseteq Days /\ Ends \subseteq Days /\ Never \in Nat
  /\ \A d \in Days : d \in Nat /\ d # 0 /\ d < Never /\ d \in 1..Never /\ d \in 0..LastDay
  /\ Never \in 1..Never
  /\ \A n \in Semesters : n \in Nat /\ n \in 0..N
BY EnrollmentAssumption DEF Days, Never, Semesters

LEMMA PlacementFields ==
  ASSUME NEW r \in Placement
  PROVE  /\ r.section \in Sections /\ r.sem \in Nat /\ r.from \in Nat /\ r.to \in Nat
         /\ r.from \in Days /\ r.to \in 1..Never /\ r.from < r.to
BY Numbers DEF Placement, Row

LEMMA Rows ==
  ASSUME EnrollTypes, NEW s \in Students
  PROVE  /\ rows[s] \in Seq(Placement) /\ Len(rows[s]) \in Nat
         /\ DOMAIN rows[s] = 1..Len(rows[s])
         /\ \A k \in DOMAIN rows[s] :
              /\ rows[s][k] \in Placement /\ rows[s][k].section \in Sections
              /\ rows[s][k].from \in Nat /\ rows[s][k].to \in Nat /\ rows[s][k].sem \in Nat
              /\ rows[s][k].from < rows[s][k].to
<1>1. rows[s] \in Seq(Placement) /\ Len(rows[s]) \in Nat /\ DOMAIN rows[s] = 1..Len(rows[s])
  BY DEF EnrollTypes
<1>2. ASSUME NEW k \in DOMAIN rows[s] PROVE rows[s][k] \in Placement
  BY <1>1, <1>2, ElementOfSeq
<1>. QED
  BY <1>1, <1>2, PlacementFields

LEMMA RunFields ==
  ASSUME EnrollTypes, NEW i \in DOMAIN runs
  PROVE  /\ runs \in Seq(Run) /\ DOMAIN runs = 1..Len(runs) /\ Len(runs) \in Nat
         /\ runs[i] \in Run
         /\ runs[i].from \in Nat /\ runs[i].from + 1 \in Semesters
         /\ runs[i].day \in Days /\ runs[i].item \in RunItems
<1>1. runs \in Seq(Run) /\ DOMAIN runs = 1..Len(runs) /\ Len(runs) \in Nat
  BY DEF EnrollTypes
<1>2. runs[i] \in Run
  BY <1>1, ElementOfSeq
<1>. QED
  BY <1>1, <1>2, Numbers DEF Run

LEMMA InForce ==
  ASSUME EnrollTypes, NEW s \in Known, NEW d \in Nat
  PROVE  /\ Current(s, d) \subseteq DOMAIN rows[s]
         /\ \A k \in Current(s, d) : rows[s][k].from <= d /\ d < rows[s][k].to
         /\ section[s] \in Sections
         /\ SectionAt(s, d) \in Sections
<1>0. s \in Students /\ section[s] \in Sections
  BY DEF Known, EnrollTypes
<1>1. Current(s, d) \subseteq DOMAIN rows[s]
      /\ \A k \in Current(s, d) : rows[s][k].from <= d /\ d < rows[s][k].to
  BY DEF Current, Covers
<1>2. SectionAt(s, d) \in Sections
  <2>1. CASE Current(s, d) = {}
    BY <1>0, <2>1 DEF SectionAt
  <2>2. CASE Current(s, d) # {}
    <3>1. PICK k : k = CHOOSE j \in Current(s, d) : TRUE
      OBVIOUS
    <3>2. k \in Current(s, d)
      BY <2>2, <3>1
    <3>3. SectionAt(s, d) = rows[s][k].section
      BY <2>2, <3>1 DEF SectionAt
    <3>. QED
      BY <1>0, <1>1, <3>2, <3>3, Rows
  <2>. QED
    BY <2>1, <2>2
<1>. QED
  BY <1>0, <1>1, <1>2

\* Opening a row and ending others on the day it starts suits everybody.
LEMMA HandOverSuits ==
  ASSUME EnrollTypes, NEW s \in Known, NEW old \in SUBSET DOMAIN rows[s], NEW sec \in Sections,
         NEW n \in 0..N, NEW d \in Days, \A k \in old : rows[s][k].from < d
  PROVE  /\ HandOver(old, sec, n, d) \in Change
         /\ Suits(s, HandOver(old, sec, n, d))
<1>1. s \in Students /\ old \subseteq Nat \ {0}
  BY Rows DEF Known
<1>2. PICK r : r = Opens(sec, n, d)
  OBVIOUS
<1>3. r \in Row /\ r.from = d /\ r.to = Never /\ r.sem = n
  BY <1>2, Numbers DEF Opens, Row
<1>4. PICK c : c = HandOver(old, sec, n, d)
  OBVIOUS
<1>5. c = [row |-> old, until |-> d, adopt |-> 0, new |-> <<r>>, goes |-> sec, held |-> FALSE]
  BY <1>2, <1>4 DEF HandOver
<1>6. /\ c.row = old /\ c.until = d /\ c.new = <<r>>
      /\ DOMAIN c.new = {1} /\ c.new[1] = r
  BY <1>5
<1>7. c \in Change
  <2>1. <<r>> \in Seq(Row) /\ old \in SUBSET (Nat \ {0}) /\ d \in 0..LastDay /\ 0 \in 0..N
        /\ sec \in Sections \cup {None}
    BY <1>1, <1>3, Numbers
  <2>2. FALSE \in BOOLEAN
    OBVIOUS
  <2>. QED
    BY <1>5, <2>1, <2>2, Zenon DEF Change
<1>8. Suits(s, c)
  BY <1>3, <1>6, Numbers DEF Suits
<1>. QED
  BY <1>4, <1>7, <1>8

LEMMA Joined ==
  ASSUME NEW S, NEW a \in S, NEW b \in S
  PROVE  /\ <<a>> \o <<>> = <<a>> /\ <<>> \o <<b>> = <<b>> /\ <<>> \o <<>> = <<>>
         /\ <<a>> \in Seq(S) /\ <<b>> \in Seq(S) /\ <<a>> \o <<b>> \in Seq(S)
         /\ Len(<<a>> \o <<b>>) = 2
         /\ (<<a>> \o <<b>>)[1] = a /\ (<<a>> \o <<b>>)[2] = b
<1>1. <<>> \in Seq(S) /\ <<a>> \in Seq(S) /\ <<b>> \in Seq(S)
  OBVIOUS
<1>2. <<a>> \o <<>> = <<a>> /\ <<>> \o <<b>> = <<b>> /\ <<>> \o <<>> = <<>>
  BY <1>1, ConcatEmptySeq
<1>3. <<a>> \o <<b>> \in Seq(S) /\ Len(<<a>> \o <<b>>) = 2
      /\ (<<a>> \o <<b>>)[1] = a /\ (<<a>> \o <<b>>)[2] = b
  BY <1>1, ConcatProperties
<1>. QED
  BY <1>1, <1>2, <1>3

\* What a promotion does to a student suits him, and the run can tell it.
LEMMA DecisionSuits ==
  ASSUME EnrollTypes, SemesterDates, NEW s \in Known, NEW n \in Semesters,
         Exists(n), Exists(n + 1), sem[n + 1].start > sem[n].end,
         NEW held \in BOOLEAN, NEW sec \in Sections, NEW d, d = sem[n + 1].start
  PROVE  /\ Decision(s, n, d, held, sec) \in Change
         /\ Suits(s, Decision(s, n, d, held, sec))
         /\ Promotes(n, d, s, Decision(s, n, d, held, sec))
         /\ d \in Days /\ n + 1 \in Semesters
<1>1. /\ s \in Students /\ section[s] \in Sections
      /\ n \in Nat /\ n \in 0..N /\ n + 1 \in Semesters /\ n + 1 \in 0..N /\ n + 1 # 0
  BY Numbers DEF Known, EnrollTypes, Exists, Semesters
<1>2. d \in Days /\ sem[n].start \in Days /\ sem[n].start < d /\ d - 1 \in Nat
  <2>1. sem[n].start \in 0..LastDay /\ sem[n].end \in 0..LastDay /\ d \in 0..LastDay
    BY <1>1 DEF EnrollTypes, Semester
  <2>2. sem[n].start # 0 /\ d # 0 /\ sem[n].start <= sem[n].end
    BY DEF Exists, SemesterDates
  <2>. QED
    BY <2>1, <2>2, Numbers DEF Days
<1>3. PICK cur : cur = Current(s, d - 1)
  OBVIOUS
<1>4. /\ cur \subseteq DOMAIN rows[s] /\ cur \subseteq Nat \ {0}
      /\ \A k \in cur : rows[s][k].from < d
  <2>1. \A k \in cur : rows[s][k].from <= d - 1
    BY <1>2, <1>3, InForce
  <2>2. cur \subseteq DOMAIN rows[s]
    BY <1>2, <1>3, InForce
  <2>. QED
    BY <1>1, <1>2, <2>1, <2>2, Rows, Numbers, SMTT(20)
<1>5. PICK miss, open : /\ miss = [section |-> section[s], sem |-> n, from |-> sem[n].start,
                                   to |-> IF held THEN Never ELSE d]
                        /\ open = Opens(sec, n + 1, d)
  OBVIOUS
<1>6. /\ miss \in Row /\ miss.from = sem[n].start
      /\ held => miss.to = Never
      /\ ~held => miss.to = d
  <2>1. CASE held
    BY <1>1, <1>2, <1>5, <2>1, Numbers DEF Row
  <2>2. CASE ~held
    BY <1>1, <1>2, <1>5, <2>2, Numbers DEF Row
  <2>. QED
    BY <2>1, <2>2, Zenon
<1>7. open \in Row /\ open.from = d /\ open.to = Never /\ open.sem = n + 1
  BY <1>1, <1>2, <1>5, Numbers DEF Opens, Row
<1>8. PICK c, new : /\ c = Decision(s, n, d, held, sec)
                    /\ new = (IF cur = {} THEN <<miss>> ELSE <<>>)
                               \o (IF held THEN <<>> ELSE <<open>>)
  OBVIOUS
<1>9. c = [row |-> cur, until |-> IF held THEN 0 ELSE d, adopt |-> n,
           new |-> new, goes |-> IF held THEN None ELSE sec, held |-> held]
  BY <1>3, <1>5, <1>8, Zenon DEF Decision
<1>10. /\ c.row = cur /\ c.new = new /\ c.held = held
       /\ held => c.until = 0
       /\ ~held => c.until = d
  <2>1. c.row = cur /\ c.new = new /\ c.until = IF held THEN 0 ELSE d
    BY <1>9
  <2>2. c.held = held
    BY <1>9, Zenon
  <2>. QED
    BY <2>1, <2>2, Zenon
<1>11. /\ new \in Seq(Row)
       /\ held /\ cur # {} => new = <<>>
       /\ held /\ cur = {} => new = <<miss>>
       /\ ~held /\ cur # {} => new = <<open>>
       /\ ~held /\ cur = {} => Len(new) = 2 /\ new[1] = miss /\ new[2] = open
  <2>1. CASE held
    BY <1>6, <1>7, <1>8, <2>1, Joined
  <2>2. CASE ~held /\ cur = {}
    BY <1>6, <1>7, <1>8, <2>2, Joined
  <2>3. CASE ~held /\ cur # {}
    <3>1. new = <<>> \o <<open>>
      BY <1>8, <2>3
    <3>2. <<>> \o <<open>> = <<open>> /\ <<open>> \in Seq(Row)
      BY <1>7, Joined
    <3>. QED
      BY <2>3, <3>1, <3>2
  <2>. QED
    BY <2>1, <2>2, <2>3, Zenon
<1>12. c \in Change
  <2>1. new \in Seq(Row)
    BY <1>11
  <2>2. cur \in SUBSET (Nat \ {0}) /\ n \in 0..N
    BY <1>1, <1>4
  <2>3. (IF held THEN 0 ELSE d) \in 0..LastDay
    BY <1>2, Numbers
  <2>4. (IF held THEN None ELSE sec) \in Sections \cup {None}
    OBVIOUS
  <2>. QED
    BY <1>9, <2>1, <2>2, <2>3, <2>4, Zenon DEF Change
<1>13. Suits(s, c)
  <2>1. CASE held
    <3>1. \A i \in DOMAIN c.new : c.new[i].from < c.new[i].to /\ c.new[i].to = Never
      BY <2>1, <1>2, <1>6, <1>10, <1>11, Numbers
    <3>. QED
      BY <2>1, <3>1, <1>4, <1>10 DEF Suits
  <2>2. CASE ~held
    <3>1. \A i \in DOMAIN c.new : c.new[i].from < c.new[i].to /\ c.new[i].to \in {d, Never}
      BY <2>2, <1>2, <1>6, <1>7, <1>10, <1>11, Numbers, SMTT(20)
    <3>2. \E i \in DOMAIN c.new : c.new[i].from = d /\ c.new[i].to = Never
      <4>1. CASE cur = {}
        <5>1. 2 \in DOMAIN c.new /\ c.new[2] = open
          BY <4>1, <2>2, <1>10, <1>11
        <5>. QED
          BY <5>1, <1>7
      <4>2. CASE cur # {}
        <5>1. 1 \in DOMAIN c.new /\ c.new[1] = open
          BY <4>2, <2>2, <1>10, <1>11
        <5>. QED
          BY <5>1, <1>7
      <4>. QED
        BY <4>1, <4>2
    <3>. QED
      BY <2>2, <3>1, <3>2, <1>4, <1>10 DEF Suits
  <2>. QED
    BY <2>1, <2>2, Zenon
<1>14. Promotes(n, d, s, c)
  <2>1. c.held => c.until = 0
    BY <1>10, Zenon
  <2>2. ASSUME ~c.held
        PROVE  /\ c.until = d
               /\ Len(c.new) = IF c.row = {} THEN 2 ELSE 1
               /\ c.new[Len(c.new)].from = d /\ c.new[Len(c.new)].sem = n + 1
    <3>1. ~held
      BY <2>2, <1>10, Zenon
    <3>2. CASE cur = {}
      <4>1. Len(new) = 2 /\ new[2] = open
        BY <3>1, <3>2, <1>11, Zenon
      <4>. QED
        BY <3>1, <3>2, <4>1, <1>7, <1>10
    <3>3. CASE cur # {}
      <4>1. new = <<open>>
        BY <3>1, <3>3, <1>11, Zenon
      <4>2. Len(new) = 1 /\ new[1] = open
        BY <4>1
      <4>. QED
        BY <3>1, <3>3, <4>2, <1>7, <1>10
    <3>. QED
      BY <3>2, <3>3
  <2>3. ASSUME c.row = {}
        PROVE  Len(c.new) > 0 /\ c.new[1].from < d /\ (~c.held => c.new[1].to = d)
    <3>1. Len(c.new) > 0 /\ c.new[1] = miss
      BY <2>3, <1>10, <1>11, SMTT(20)
    <3>2. ~c.held => c.new[1].to = d
      BY <3>1, <1>6, <1>10, Zenon
    <3>. QED
      BY <3>1, <3>2, <1>2, <1>6
  <2>. QED
    BY <2>1, <2>2, <2>3, <1>4, <1>10 DEF Promotes
<1>. QED
  BY <1>1, <1>2, <1>8, <1>12, <1>13, <1>14

-----------------------------------------------------------------------------
\* What a step may do while a request waits to commit: students stay, their
\* rows keep their first days, runs keep what they have decided on.
Grown ==
  /\ \A s \in Known : section'[s] # None
  /\ \A s \in Known : /\ DOMAIN rows[s] \subseteq DOMAIN rows'[s]
                      /\ \A k \in DOMAIN rows[s] : rows'[s][k].from = rows[s][k].from
  /\ DOMAIN runs \subseteq DOMAIN runs'
  /\ \A i \in DOMAIN runs :
       /\ runs'[i].from = runs[i].from /\ runs'[i].day = runs[i].day
       /\ DOMAIN runs'[i].item = DOMAIN runs[i].item
       /\ \A s \in DOMAIN runs[i].item : runs'[i].item[s].source = runs[i].item[s].source
  /\ \A n \in Semesters : Exists(n) => Exists(n)'

LEMMA Waiting ==
  ASSUME EnrollInv, Grown, NEW q, Fits(q)
  PROVE  Fits(q)'
<1>1. ASSUME NEW s \in DOMAIN q.change, Suits(s, q.change[s]) PROVE Suits(s, q.change[s])'
  <2>1. s \in Known /\ s \in Known'
    BY <1>1 DEF Suits, Grown, Known
  <2>. QED
    BY <1>1, <2>1 DEF Suits, Grown
<1>2. ASSUME NEW s \in DOMAIN q.change, Suits(s, q.change[s]), Promotes(q.sem, q.day, s, q.change[s])
      PROVE  Promotes(q.sem, q.day, s, q.change[s])'
  <2>1. \A k \in q.change[s].row : rows[s][k].from < q.day
    BY <1>2, Zenon DEF Promotes
  <2>2. \A k \in q.change[s].row : rows'[s][k].from < q.day
    BY <1>2, <2>1 DEF Suits, Grown
  <2>. QED
    BY <1>2, <2>2, Zenon DEF Promotes
<1>3. ASSUME NEW s \in DOMAIN q.change, q.run \in DOMAIN runs, Releases(q.run, s, q.change[s])
      PROVE  Releases(q.run, s, q.change[s])' /\ q.run \in DOMAIN runs'
  BY <1>3 DEF Releases, Grown
<1>4. Exists(q.sem) => Exists(q.sem)'
  BY DEF Grown, Exists
<1>5. \A s \in DOMAIN q.change : Suits(s, q.change[s])'
  BY <1>1 DEF Fits
<1>6. q.at = "promote" => /\ q.sem \in Semesters /\ q.sem + 1 \in Semesters /\ q.day \in Days
                          /\ \A s \in DOMAIN q.change : Promotes(q.sem, q.day, s, q.change[s])'
  BY <1>2, Zenon DEF Fits
<1>7. q.at = "release" => /\ q.run \in DOMAIN runs'
                          /\ \A s \in DOMAIN q.change : Releases(q.run, s, q.change[s])'
  <2>1. DOMAIN runs \subseteq DOMAIN runs'
    BY DEF Grown
  <2>. QED
    BY <1>3, <2>1, Zenon DEF Fits
<1>. QED
  BY <1>4, <1>5, <1>6, <1>7, Zenon DEF Fits

\* what a run tells of a student
ItemTells(i, s) ==
  /\ runs[i].item[s].source \in DOMAIN rows[s]
  /\ runs[i].item[s].held => runs[i].item[s].target = 0
  /\ ~runs[i].item[s].held =>
       /\ runs[i].item[s].target \in DOMAIN rows[s] \ {runs[i].item[s].source}
       /\ rows[s][runs[i].item[s].target].from = runs[i].day
       /\ rows[s][runs[i].item[s].target].sem = runs[i].from + 1
       /\ rows[s][runs[i].item[s].source].to # Never

LEMMA RunsTell ==
  ASSUME \A i, j \in DOMAIN runs' :
            runs'[i].from = runs'[j].from /\ runs'[i].day = runs'[j].day => i = j,
         \A i \in DOMAIN runs' : \A s \in DOMAIN runs'[i].item : ItemTells(i, s)'
  PROVE  RunsMatchPlacements'
BY Zenon DEF RunsMatchPlacements, ItemTells

\* replacing the elements of a sequence
LEMMA Replaced ==
  ASSUME NEW S, NEW T, NEW q \in Seq(S), NEW g, g = [i \in DOMAIN q |-> g[i]],
         \A i \in DOMAIN q : g[i] \in T
  PROVE  g \in Seq(T) /\ Len(g) = Len(q) /\ DOMAIN g = DOMAIN q
<1>1. DOMAIN q = 1..Len(q) /\ Len(q) \in Nat
  OBVIOUS
<1>2. g \in [1..Len(q) -> T]
  BY <1>1
<1>3. g \in Seq(T)
  BY <1>1, <1>2, SeqDef
<1>. QED
  BY <1>1, <1>2, <1>3

LEMMA ChangeFields ==
  ASSUME NEW c \in Change
  PROVE  /\ c.until \in 0..LastDay /\ c.adopt \in 0..N /\ c.new \in Seq(Row)
         /\ c.goes \in Sections \cup {None}
         /\ DOMAIN c.new = 1..Len(c.new) /\ Len(c.new) \in Nat
         /\ \A i \in DOMAIN c.new : c.new[i] \in Row
<1>1. c.until \in 0..LastDay /\ c.adopt \in 0..N /\ c.new \in Seq(Row) /\ c.goes \in Sections \cup {None}
  BY DEF Change
<1>2. DOMAIN c.new = 1..Len(c.new) /\ Len(c.new) \in Nat
  BY <1>1
<1>. QED
  BY <1>1, <1>2, ElementOfSeq

LEMMA WrittenRow ==
  ASSUME NEW r \in Placement, NEW c \in Change, c.until # 0 => r.from < c.until
  PROVE  /\ Written(r, c) \in Placement
         /\ Written(r, c).from = r.from
         /\ Written(r, c).to = IF c.until = 0 THEN r.to ELSE c.until
         /\ r.sem # 0 => Written(r, c).sem = r.sem
<1>1. PICK t, n : /\ t = IF c.until = 0 THEN r.to ELSE c.until
                  /\ n = IF c.adopt # 0 /\ r.sem = 0 THEN c.adopt ELSE r.sem
  OBVIOUS
<1>2. t \in 1..Never /\ r.from < t
  BY <1>1, ChangeFields, PlacementFields, Numbers DEF Never
<1>3. n \in 0..N /\ (r.sem # 0 => n = r.sem)
  BY <1>1, ChangeFields DEF Placement, Row
<1>4. Written(r, c) = [r EXCEPT !.to = t, !.sem = n]
  BY <1>1 DEF Written
<1>5. r = [section |-> r.section, sem |-> r.sem, from |-> r.from, to |-> r.to]
  BY DEF Placement, Row
<1>6. Written(r, c) = [section |-> r.section, sem |-> n, from |-> r.from, to |-> t]
  BY <1>4, <1>5
<1>7. r.section \in Sections /\ r.from \in Days
  BY PlacementFields
<1>8. Written(r, c) \in Placement
  BY <1>2, <1>3, <1>6, <1>7 DEF Placement, Row
<1>. QED
  BY <1>1, <1>3, <1>6, <1>8

\* What a commit makes of the rows of a student: the old ones in their places,
\* the new ones after them.
IsWritten(x, s, c) ==
  /\ x \in Seq(Placement)
  /\ DOMAIN x = 1..(Len(rows[s]) + Len(c.new))
  /\ \A k \in DOMAIN rows[s] :
       /\ k \in DOMAIN x
       /\ x[k].from = rows[s][k].from
       /\ k \in c.row /\ c.until # 0 => x[k].to = c.until
       /\ ~(k \in c.row /\ c.until # 0) => x[k].to = rows[s][k].to
       /\ rows[s][k].sem # 0 => x[k].sem = rows[s][k].sem
  /\ \A i \in DOMAIN c.new :
       /\ Len(rows[s]) + i \in DOMAIN x \ DOMAIN rows[s]
       /\ x[Len(rows[s]) + i] = c.new[i]
  /\ \A k \in DOMAIN x \ DOMAIN rows[s] : \E i \in DOMAIN c.new : k = Len(rows[s]) + i

LEMMA WrittenRows ==
  ASSUME EnrollTypes, NEW s \in Students, NEW c \in Change, Suits(s, c)
  PROVE  IsWritten(Applied(s, c), s, c)
<1>1. PICK q : q = rows[s]
  OBVIOUS
<1>2. /\ q \in Seq(Placement) /\ Len(q) \in Nat /\ DOMAIN q = 1..Len(q)
      /\ \A k \in DOMAIN q : q[k] \in Placement
  BY <1>1, Rows
<1>3. PICK g : g = [k \in DOMAIN q |-> IF k \in c.row THEN Written(q[k], c) ELSE q[k]]
  OBVIOUS
<1>4. ASSUME NEW k \in DOMAIN q
      PROVE  /\ g[k] \in Placement /\ g[k].from = q[k].from
             /\ k \in c.row /\ c.until # 0 => g[k].to = c.until
             /\ ~(k \in c.row /\ c.until # 0) => g[k].to = q[k].to
             /\ q[k].sem # 0 => g[k].sem = q[k].sem
  <2>1. CASE k \in c.row
    <3>1. g[k] = Written(q[k], c)
      BY <1>3, <2>1
    <3>2. c.until # 0 => q[k].from < c.until
      BY <1>1, <2>1 DEF Suits
    <3>. QED
      BY <2>1, <3>1, <3>2, <1>2, WrittenRow
  <2>2. CASE k \notin c.row
    BY <1>2, <1>3, <2>2
  <2>. QED
    BY <2>1, <2>2
<1>5. g \in Seq(Placement) /\ Len(g) = Len(q) /\ DOMAIN g = DOMAIN q
  <2>1. g = [k \in DOMAIN q |-> g[k]]
    BY <1>3
  <2>. QED
    BY <1>2, <1>4, <2>1, Replaced
<1>6. c.new \in Seq(Placement) /\ DOMAIN c.new = 1..Len(c.new) /\ Len(c.new) \in Nat
  <2>1. \A i \in DOMAIN c.new : c.new[i] \in Placement
    BY ChangeFields DEF Suits, Placement
  <2>2. c.new = [i \in DOMAIN c.new |-> c.new[i]]
    BY ChangeFields
  <2>. QED
    BY <2>1, <2>2, ChangeFields, Replaced
<1>7. Applied(s, c) = g \o c.new
  BY <1>1, <1>3 DEF Applied
<1>8. PICK x : x = g \o c.new
  OBVIOUS
<1>9. /\ x \in Seq(Placement) /\ Len(x) = Len(q) + Len(c.new)
      /\ \A k \in 1..(Len(q) + Len(c.new)) :
            x[k] = IF k <= Len(q) THEN g[k] ELSE c.new[k - Len(q)]
  <2>1. PICK y : y = c.new
    OBVIOUS
  <2>2. /\ g \o y \in Seq(Placement) /\ Len(g \o y) = Len(g) + Len(y)
        /\ \A k \in 1..(Len(g) + Len(y)) :
              (g \o y)[k] = IF k <= Len(g) THEN g[k] ELSE y[k - Len(g)]
    <3>1. g \in Seq(Placement) /\ y \in Seq(Placement)
      BY <1>5, <1>6, <2>1
    <3>. QED
      BY ONLY <3>1, ConcatProperties
  <2>3. x = g \o y /\ Len(g) = Len(q)
    BY <1>5, <1>8, <2>1
  <2>. QED
    BY <2>1, <2>2, <2>3, Zenon
<1>10. DOMAIN x = 1..(Len(q) + Len(c.new))
  BY <1>9
<1>11. \A k \in DOMAIN q : k \in DOMAIN x /\ x[k] = g[k]
  BY <1>2, <1>6, <1>9, <1>10
<1>12. \A i \in DOMAIN c.new : Len(q) + i \in DOMAIN x \ DOMAIN q /\ x[Len(q) + i] = c.new[i]
  BY <1>2, <1>6, <1>9, <1>10
<1>13. ASSUME NEW k \in DOMAIN x \ DOMAIN q
       PROVE  \E i \in DOMAIN c.new : k = Len(q) + i
  <2>1. k - Len(q) \in DOMAIN c.new /\ k = Len(q) + (k - Len(q))
    BY <1>2, <1>6, <1>10
  <2>. QED
    BY <2>1
<1>14. Applied(s, c) = x /\ rows[s] = q
  BY <1>1, <1>7, <1>8
<1>15. ASSUME NEW k \in DOMAIN q
       PROVE  /\ k \in DOMAIN x
              /\ x[k].from = q[k].from
              /\ k \in c.row /\ c.until # 0 => x[k].to = c.until
              /\ ~(k \in c.row /\ c.until # 0) => x[k].to = q[k].to
              /\ q[k].sem # 0 => x[k].sem = q[k].sem
  BY <1>4, <1>11, Zenon
<1>16. IsWritten(x, s, c)
  BY <1>1, <1>9, <1>10, <1>12, <1>13, <1>15, ZenonT(30) DEF IsWritten
<1>. QED
  BY <1>14, <1>16

\* A change that suits a student leaves no gap: what it ends goes on in what it opens.
LEMMA NoGap ==
  ASSUME EnrollTypes, Succession, NEW s \in Students, NEW c \in Change, Suits(s, c),
         rows'[s] = Applied(s, c),
         NEW k \in DOMAIN rows'[s], NEW d \in Days, rows'[s][k].to <= d
  PROVE  \E j \in DOMAIN rows'[s] : rows'[s][k].to <= rows'[s][j].from /\ Covers(rows'[s][j], d)
<1>1. PICK L : L = Len(rows[s])
  OBVIOUS
<1>2. /\ rows'[s] \in Seq(Placement)
      /\ \A j \in DOMAIN rows[s] :
              /\ j \in DOMAIN rows'[s]
              /\ rows'[s][j].from = rows[s][j].from
              /\ j \in c.row /\ c.until # 0 => rows'[s][j].to = c.until
              /\ ~(j \in c.row /\ c.until # 0) => rows'[s][j].to = rows[s][j].to
      /\ \A i \in DOMAIN c.new : L + i \in DOMAIN rows'[s] /\ rows'[s][L + i] = c.new[i]
      /\ \A j \in DOMAIN rows'[s] \ DOMAIN rows[s] : \E i \in DOMAIN c.new : j = L + i
  <2>1. IsWritten(rows'[s], s, c)
    BY WrittenRows
  <2>. QED
    BY <1>1, <2>1 DEF IsWritten
<1>3. d \in Nat /\ d < Never
  BY Numbers
<1>4. ASSUME c.until # 0, c.until <= d
      PROVE  \E j \in DOMAIN rows'[s] : rows'[s][j].from = c.until /\ Covers(rows'[s][j], d)
  <2>1. PICK i \in DOMAIN c.new : c.new[i].from = c.until /\ c.new[i].to = Never
    BY <1>4 DEF Suits
  <2>2. L + i \in DOMAIN rows'[s] /\ rows'[s][L + i] = c.new[i]
    BY <1>2
  <2>3. Covers(rows'[s][L + i], d) /\ rows'[s][L + i].from = c.until
    BY <1>3, <1>4, <2>1, <2>2 DEF Covers
  <2>. QED
    BY <2>2, <2>3
<1>5. CASE k \notin DOMAIN rows[s]
  <2>1. PICK i \in DOMAIN c.new : rows'[s][k] = c.new[i]
    BY <1>2, <1>5
  <2>2. c.new[i].to \in {c.until, Never} /\ c.new[i] \in Row
    BY ChangeFields DEF Suits
  <2>3. c.new[i].to = c.until /\ c.until # 0
    BY <1>3, <2>1, <2>2, Numbers DEF Row
  <2>4. c.until \in Nat
    BY ChangeFields, Numbers
  <2>. QED
    BY <1>4, <2>1, <2>3, <2>4
<1>6. CASE k \in DOMAIN rows[s] /\ k \in c.row /\ c.until # 0
  <2>1. rows'[s][k].to = c.until /\ c.until \in Nat
    BY <1>2, <1>6, ChangeFields, Numbers
  <2>. QED
    BY <1>4, <1>6, <2>1
<1>7. CASE k \in DOMAIN rows[s] /\ ~(k \in c.row /\ c.until # 0)
  <2>1. rows'[s][k].to = rows[s][k].to
    BY <1>2, <1>7
  <2>2. PICK j \in DOMAIN rows[s] : rows[s][k].to <= rows[s][j].from /\ Covers(rows[s][j], d)
    BY <1>7, <2>1 DEF Succession
  <2>3. /\ j \in DOMAIN rows'[s] /\ rows'[s][j].from = rows[s][j].from
        /\ rows[s][j].from \in Nat /\ rows[s][k].to \in Nat
    BY <1>2, <1>7, Rows
  <2>4. CASE ~(j \in c.row /\ c.until # 0)
    <3>1. rows'[s][j].to = rows[s][j].to
      BY <1>2, <2>4
    <3>. QED
      BY <2>1, <2>2, <2>3, <3>1 DEF Covers
  <2>5. CASE j \in c.row /\ c.until # 0
    <3>1. rows'[s][j].to = c.until /\ c.until \in Nat /\ rows[s][j].from < c.until
      BY <1>2, <2>5, ChangeFields, Numbers DEF Suits
    <3>2. CASE d < c.until
      BY <2>1, <2>2, <2>3, <3>1, <3>2 DEF Covers
    <3>3. CASE c.until <= d
      <4>1. PICK i \in DOMAIN rows'[s] : rows'[s][i].from = c.until /\ Covers(rows'[s][i], d)
        BY <1>4, <2>5, <3>3
      <4>2. rows'[s][k].to <= rows'[s][i].from
        BY <2>1, <2>2, <2>3, <3>1, <4>1
      <4>. QED
        BY <4>1, <4>2
    <3>. QED
      BY <1>3, <3>1, <3>2, <3>3
  <2>. QED
    BY <2>4, <2>5
<1>. QED
  BY <1>5, <1>6, <1>7

\* A step writes the rows of S and leaves the other students alone.
Writes(S, change) ==
  /\ rows' = [s \in Students |-> IF s \in S THEN Applied(s, change[s]) ELSE rows[s]]
  /\ \A s \in S : change[s] \in Change /\ Suits(s, change[s])

LEMMA WritesRows ==
  ASSUME EnrollTypes, Succession, NEW S \in SUBSET Students, NEW change, Writes(S, change)
  PROVE  /\ rows' \in [Students -> Seq(Placement)]
         /\ Succession'
         /\ \A s \in S : rows'[s] = Applied(s, change[s])
         /\ \A s \in Students \ S : rows'[s] = rows[s]
         /\ \A s \in Students :
              /\ DOMAIN rows[s] \subseteq DOMAIN rows'[s]
              /\ \A k \in DOMAIN rows[s] :
                   /\ rows'[s][k].from = rows[s][k].from
                   /\ rows[s][k].sem # 0 => rows'[s][k].sem = rows[s][k].sem
                   /\ rows[s][k].to # Never => rows'[s][k].to # Never
<1>1. /\ \A s \in S : rows'[s] = Applied(s, change[s])
      /\ \A s \in Students \ S : rows'[s] = rows[s]
  BY DEF Writes
<1>2. \A s \in Students : rows'[s] \in Seq(Placement)
  BY <1>1, Rows, WrittenRows DEF Writes, IsWritten
<1>3. rows' \in [Students -> Seq(Placement)]
  BY <1>2 DEF Writes
<1>4. ASSUME NEW s \in Students
      PROVE  /\ DOMAIN rows[s] \subseteq DOMAIN rows'[s]
             /\ \A k \in DOMAIN rows[s] :
                   /\ rows'[s][k].from = rows[s][k].from
                   /\ rows[s][k].sem # 0 => rows'[s][k].sem = rows[s][k].sem
                   /\ rows[s][k].to # Never => rows'[s][k].to # Never
  <2>1. CASE s \in S
    <3>1. PICK c : c = change[s]
      OBVIOUS
    <3>2. c \in Change /\ Suits(s, c) /\ rows'[s] = Applied(s, c)
      BY <1>1, <2>1, <3>1 DEF Writes
    <3>3. c.until # Never
      BY <3>2, ChangeFields, Numbers DEF Never
    <3>4. \A k \in DOMAIN rows[s] :
              /\ k \in DOMAIN rows'[s]
              /\ rows'[s][k].from = rows[s][k].from
              /\ k \in c.row /\ c.until # 0 => rows'[s][k].to = c.until
              /\ ~(k \in c.row /\ c.until # 0) => rows'[s][k].to = rows[s][k].to
              /\ rows[s][k].sem # 0 => rows'[s][k].sem = rows[s][k].sem
      <4>1. IsWritten(rows'[s], s, c)
        BY <3>2, WrittenRows
      <4>. QED
        BY <4>1 DEF IsWritten
    <3>. QED
      BY <3>3, <3>4
  <2>2. CASE s \notin S
    BY <1>1, <2>2
  <2>. QED
    BY <2>1, <2>2
<1>5. Succession'
  <2>. SUFFICES ASSUME NEW s \in Students, NEW k \in DOMAIN rows'[s], NEW d \in Days,
                       rows'[s][k].to <= d
                PROVE  \E j \in DOMAIN rows'[s] :
                          rows'[s][k].to <= rows'[s][j].from /\ Covers(rows'[s][j], d)
    BY DEF Succession, Covers
  <2>1. CASE s \in S
    BY <1>1, <2>1, NoGap DEF Writes
  <2>2. CASE s \notin S
    BY <1>1, <2>2 DEF Succession
  <2>. QED
    BY <2>1, <2>2
<1>. QED
  BY <1>1, <1>3, <1>4, <1>5

-----------------------------------------------------------------------------
LEMMA Requests ==
  ASSUME EnrollTypes, NEW h \in Handlers
  PROVE  /\ todo[h] \in Request
         /\ todo[h].sem \in 0..N /\ todo[h].day \in 0..LastDay /\ todo[h].last \in 0..LastDay
         /\ todo[h].run \in Nat /\ DOMAIN todo[h].change \in SUBSET Students
         /\ \A s \in DOMAIN todo[h].change : todo[h].change[s] \in Change
<1>1. todo[h] \in Request
  BY DEF EnrollTypes
<1>2. /\ todo[h].sem \in 0..N /\ todo[h].day \in 0..LastDay /\ todo[h].last \in 0..LastDay
      /\ todo[h].run \in Nat /\ todo[h].change \in Changes
  BY <1>1 DEF Request
<1>. QED
  BY <1>1, <1>2 DEF Changes

\* What the commit of a request writes of the students.
LEMMA CommitWrites ==
  ASSUME EnrollInv, NEW h \in Handlers, Commit(h), NEW q, q = todo[h]
  PROVE  /\ Writes(DOMAIN q.change, q.change)
         /\ DOMAIN q.change \in SUBSET Known
         /\ section' \in [Students -> Sections \cup {None}]
         /\ \A s \in Known : section'[s] # None
         /\ Newcomers'
<1>1. /\ DOMAIN q.change \in SUBSET Students
      /\ \A s \in DOMAIN q.change : q.change[s] \in Change /\ Suits(s, q.change[s])
  <2>1. q \in Request /\ DOMAIN q.change \in SUBSET Students
        /\ \A s \in DOMAIN q.change : q.change[s] \in Change
    BY Requests DEF EnrollInv
  <2>2. Fits(q)
    BY <2>1 DEF EnrollInv, RequestsFit
  <2>. QED
    BY <2>1, <2>2 DEF Fits
<1>2. DOMAIN q.change \in SUBSET Known
  BY <1>1 DEF Suits
<1>3. rows' = [s \in Students |->
                 IF s \in DOMAIN q.change THEN Applied(s, q.change[s]) ELSE rows[s]]
  BY Zenon DEF Commit
<1>4. section' = [s \in Students |->
         IF s \in DOMAIN q.change /\ q.change[s].goes # None THEN q.change[s].goes ELSE section[s]]
  BY Zenon DEF Commit
<1>5. Writes(DOMAIN q.change, q.change)
  BY <1>1, <1>3 DEF Writes
<1>6. \A s \in DOMAIN q.change : q.change[s].goes \in Sections \cup {None}
  BY <1>1, ChangeFields
<1>7. section' \in [Students -> Sections \cup {None}]
  BY <1>4, <1>6 DEF EnrollInv, EnrollTypes
<1>8. \A s \in Known : section'[s] # None
  BY <1>4 DEF Known
<1>9. Newcomers'
  <2>. SUFFICES ASSUME NEW s \in Students, section'[s] = None PROVE rows'[s] = <<>>
    BY DEF Newcomers
  <2>1. s \notin Known
    BY <1>8
  <2>2. rows'[s] = rows[s]
    BY <1>2, <1>3, <2>1
  <2>. QED
    BY <2>1, <2>2 DEF EnrollInv, Newcomers, Known
<1>. QED
  BY <1>2, <1>5, <1>7, <1>8, <1>9

\* What the item of a promotion says of a student is so once it is committed.
LEMMA ItemOfDecision ==
  ASSUME EnrollInv, NEW s \in Known, NEW c \in Change, Suits(s, c), NEW n \in Nat, NEW d \in Days,
         Promotes(n, d, s, c), rows'[s] = Applied(s, c)
  PROVE  LET item == Item(s, c) IN
         /\ item \in RunItem
         /\ item.source \in DOMAIN rows'[s] /\ rows'[s][item.source].from < d
         /\ item.held => item.target = 0
         /\ ~item.held =>
              /\ item.target \in DOMAIN rows'[s] \ {item.source}
              /\ rows'[s][item.target].from = d /\ rows'[s][item.target].sem = n + 1
              /\ rows'[s][item.source].to # Never
<1>1. PICK L, m, o, t :
        /\ L = Len(rows[s]) /\ m = Len(c.new)
        /\ o = IF c.row = {} THEN Len(rows[s]) + 1 ELSE CHOOSE k \in c.row : TRUE
        /\ t = IF c.held THEN 0 ELSE Len(rows[s]) + Len(c.new)
  OBVIOUS
<1>2. Item(s, c) = [held |-> c.held, source |-> o, target |-> t]
  BY <1>1, Zenon DEF Item
<1>3. /\ s \in Students /\ L \in Nat /\ m \in Nat /\ DOMAIN c.new = 1..m /\ DOMAIN rows[s] = 1..L
      /\ c.row \subseteq DOMAIN rows[s] /\ d # Never /\ d \in Nat /\ d # 0
  BY <1>1, Rows, ChangeFields, Numbers DEF Known, Suits, EnrollInv
<1>4. IsWritten(rows'[s], s, c)
  BY <1>3, WrittenRows DEF EnrollInv
<1>5. /\ \A k \in DOMAIN rows[s] :
              /\ k \in DOMAIN rows'[s]
              /\ rows'[s][k].from = rows[s][k].from
              /\ k \in c.row /\ c.until # 0 => rows'[s][k].to = c.until
      /\ \A i \in DOMAIN c.new : L + i \in DOMAIN rows'[s] /\ rows'[s][L + i] = c.new[i]
  BY <1>1, <1>4 DEF IsWritten
<1>6. /\ c.held => c.until = 0
      /\ ~c.held => /\ c.until = d /\ m = IF c.row = {} THEN 2 ELSE 1
                    /\ c.new[m].from = d /\ c.new[m].sem = n + 1
      /\ c.row = {} => m > 0 /\ c.new[1].from < d /\ (~c.held => c.new[1].to = d)
      /\ \A k \in c.row : rows[s][k].from < d
  BY <1>1, Zenon DEF Promotes
<1>7. /\ o \in DOMAIN rows'[s] /\ rows'[s][o].from < d /\ o \in Nat
      /\ ~c.held => rows'[s][o].to # Never
  <2>1. CASE c.row = {}
    <3>1. o = L + 1
      BY <1>1, <2>1
    <3>2. m > 0 /\ c.new[1].from < d
      BY <1>6, <2>1, Zenon
    <3>3. o \in DOMAIN rows'[s] /\ rows'[s][o] = c.new[1] /\ o \in Nat
      BY <1>3, <1>5, <3>1, <3>2
    <3>4. ~c.held => c.new[1].to = d
      BY <1>6, <2>1, Zenon
    <3>5. ~c.held => rows'[s][o].to # Never
      BY <1>3, <3>3, <3>4, Zenon
    <3>. QED
      BY <3>2, <3>3, <3>5
  <2>2. CASE c.row # {}
    <3>1. o \in c.row
      BY <1>1, <2>2
    <3>2. rows[s][o].from < d /\ o \in DOMAIN rows[s]
      BY <1>3, <1>6, <3>1, Zenon
    <3>3. o \in DOMAIN rows'[s] /\ rows'[s][o].from < d /\ o \in Nat
      BY <1>3, <1>5, <3>2
    <3>4. ~c.held => c.until = d
      BY <1>6, Zenon
    <3>5. c.until = d => rows'[s][o].to # Never
      BY <1>3, <1>5, <3>1, <3>2
    <3>. QED
      BY <3>3, <3>4, <3>5, Zenon
  <2>. QED
    BY <2>1, <2>2
<1>8. c.held => t = 0
  BY <1>1, Zenon
<1>9. ASSUME ~c.held
      PROVE  /\ t \in DOMAIN rows'[s] \ {o} /\ t \in Nat
             /\ rows'[s][t].from = d /\ rows'[s][t].sem = n + 1
  <2>1. t = L + m
    BY <1>1, <1>9, Zenon
  <2>2. m = (IF c.row = {} THEN 2 ELSE 1) /\ c.new[m].from = d /\ c.new[m].sem = n + 1
    BY <1>6, <1>9, Zenon
  <2>3. m \in DOMAIN c.new
    BY <1>3, <2>2
  <2>4. t \in DOMAIN rows'[s] /\ rows'[s][t] = c.new[m] /\ t \in Nat
    BY <1>3, <1>5, <2>1, <2>3
  <2>5. o # t
    <3>1. CASE c.row = {}
      BY <1>1, <1>3, <2>1, <2>2, <3>1
    <3>2. CASE c.row # {}
      <4>1. o \in c.row
        BY <1>1, <3>2
      <4>. QED
        BY <1>3, <2>1, <2>2, <3>2, <4>1
    <3>. QED
      BY <3>1, <3>2
  <2>. QED
    BY <2>2, <2>4, <2>5
<1>10. c.held \in BOOLEAN
  BY Zenon DEF Change
<1>11. t \in Nat
  BY <1>8, <1>9
<1>12. PICK item : item = Item(s, c)
  OBVIOUS
<1>13. item \in RunItem /\ item.source = o /\ item.target = t /\ item.held = c.held
  <2>1. PICK b : b = c.held
    OBVIOUS
  <2>2. b \in BOOLEAN /\ item = [held |-> b, source |-> o, target |-> t]
    BY <1>2, <1>10, <1>12, <2>1, Zenon
  <2>3. item \in RunItem /\ item.source = o /\ item.target = t
    BY <2>2, <1>7, <1>11 DEF RunItem
  <2>4. item.held = b
    BY <2>2
  <2>. QED
    BY <2>1, <2>3, <2>4, Zenon
<1>14. item.source = o /\ item.target = t
  BY <1>13
<1>15. item.held = c.held
  BY <1>13, Zenon
<1>16. item.held => item.target = 0
  BY <1>8, <1>14, <1>15, Zenon
<1>17. ~item.held =>
              /\ item.target \in DOMAIN rows'[s] \ {item.source}
              /\ rows'[s][item.target].from = d /\ rows'[s][item.target].sem = n + 1
              /\ rows'[s][item.source].to # Never
  BY <1>7, <1>9, <1>14, <1>15, Zenon
<1>18. item.source \in DOMAIN rows'[s] /\ rows'[s][item.source].from < d
  BY <1>7, <1>14
<1>. QED
  BY <1>12, <1>13, <1>16, <1>17, <1>18, Zenon

\* the items of a run after a release
FreedItems(q) ==
  [s \in DOMAIN runs[q.run].item |->
     IF s \in DOMAIN q.change
     THEN [runs[q.run].item[s] EXCEPT !.held = FALSE, !.target = Len(rows[s]) + 1]
     ELSE runs[q.run].item[s]]

\* The three ways a commit leaves the runs.
LEMMA CommitRuns ==
  ASSUME NEW h \in Handlers, Commit(h), NEW q, q = todo[h]
  PROVE  /\ q.at \in {"promote", "assign", "move", "release"}
         /\ q.at = "promote" =>
              /\ \A i \in DOMAIN runs : ~(runs[i].from = q.sem /\ runs[i].day = q.day)
              /\ runs' = Append(runs, [from |-> q.sem, day |-> q.day,
                           item |-> [s \in DOMAIN q.change |-> Item(s, q.change[s])]])
         /\ q.at = "release" =>
              runs' = [runs EXCEPT ![q.run].item = FreedItems(q)]
         /\ q.at \in {"assign", "move"} => runs' = runs
<1>1. /\ q.at \in {"promote", "assign", "move", "release"}
      /\ q.at = "promote" =>
           \A i \in DOMAIN runs : ~(runs[i].from = q.sem /\ runs[i].day = q.day)
  BY Zenon DEF Commit, Collides
<1>2. runs' = CASE q.at = "promote" ->
                    Append(runs, [from |-> q.sem, day |-> q.day,
                           item |-> [s \in DOMAIN q.change |-> Item(s, q.change[s])]])
               [] q.at = "release" ->
                    [runs EXCEPT ![q.run].item = [s \in DOMAIN runs[q.run].item |->
                         IF s \in DOMAIN q.change
                         THEN [runs[q.run].item[s] EXCEPT !.held = FALSE, !.target = Len(rows[s]) + 1]
                         ELSE runs[q.run].item[s]]]
               [] OTHER -> runs
  BY DEF Commit
<1>. QED
  BY <1>1, <1>2 DEF FreedItems

Later ==
  /\ rows' \in [Students -> Seq(Placement)]
  /\ \A s \in Known : section'[s] # None
  /\ \A s \in Students :
       /\ DOMAIN rows[s] \subseteq DOMAIN rows'[s]
       /\ \A k \in DOMAIN rows[s] :
            /\ rows'[s][k].from = rows[s][k].from
            /\ rows[s][k].sem # 0 => rows'[s][k].sem = rows[s][k].sem
            /\ rows[s][k].to # Never => rows'[s][k].to # Never
  /\ \A n \in Semesters : Exists(n) => Exists(n)'

RunsGrown ==
  /\ DOMAIN runs \subseteq DOMAIN runs'
  /\ \A i \in DOMAIN runs :
       /\ runs'[i].from = runs[i].from /\ runs'[i].day = runs[i].day
       /\ DOMAIN runs'[i].item = DOMAIN runs[i].item
       /\ \A s \in DOMAIN runs[i].item : runs'[i].item[s].source = runs[i].item[s].source

LEMMA LaterGrown ==
  ASSUME Later, RunsGrown
  PROVE  Grown
BY DEF Later, RunsGrown, Grown, Known

\* A run that a step leaves alone tells the same.
LEMMA TellsOn ==
  ASSUME EnrollInv, Later, NEW i \in DOMAIN runs, runs'[i] = runs[i],
         NEW s \in DOMAIN runs[i].item
  PROVE  ItemTells(i, s)' /\ s \in Known' /\ rows'[s][runs[i].item[s].source].from < runs[i].day
<1>1. PICK t, o, d : /\ t = runs[i].item[s].target /\ o = runs[i].item[s].source
                     /\ d = runs[i].day
  OBVIOUS
<1>2. s \in Known /\ o \in DOMAIN rows[s] /\ rows[s][o].from < d
  BY <1>1 DEF EnrollInv, Decided
<1>3. s \in Students
  BY <1>2 DEF Known
<1>4. o \in DOMAIN rows'[s] /\ s \in Known' /\ rows'[s][o].from < d
  BY <1>2, <1>3 DEF Later, Known
<1>5. runs[i].from + 1 # 0
  BY RunFields DEF EnrollInv
<1>6. runs[i].item[s].held => t = 0
  BY <1>1, Zenon DEF EnrollInv, RunsMatchPlacements
<1>7. ASSUME ~runs[i].item[s].held
      PROVE  /\ t \in DOMAIN rows'[s] \ {o}
             /\ rows'[s][t].from = d /\ rows'[s][t].sem = runs[i].from + 1
             /\ rows'[s][o].to # Never
  <2>1. /\ t \in DOMAIN rows[s] \ {o}
        /\ rows[s][t].from = d /\ rows[s][t].sem = runs[i].from + 1
        /\ rows[s][o].to # Never
    BY <1>1, <1>7, Zenon DEF EnrollInv, RunsMatchPlacements
  <2>. QED
    BY <1>2, <1>3, <1>5, <2>1 DEF Later
<1>8. ItemTells(i, s)'
  BY <1>1, <1>4, <1>6, <1>7, Zenon DEF ItemTells
<1>. QED
  BY <1>1, <1>4, <1>8

\* A run that a step adds or changes: what is asked of it.
RunHolds(i) ==
  \A s \in DOMAIN runs[i].item :
    ItemTells(i, s) /\ s \in Known /\ rows[s][runs[i].item[s].source].from < runs[i].day

LEMMA RunsHold ==
  ASSUME \A i \in DOMAIN runs' : RunHolds(i)',
         \A i, j \in DOMAIN runs' :
            runs'[i].from = runs'[j].from /\ runs'[i].day = runs'[j].day => i = j
  PROVE  Decided' /\ RunsMatchPlacements'
<1>1. Decided'
  BY DEF Decided, RunHolds, ItemTells
<1>2. RunsMatchPlacements'
  <2>1. \A i \in DOMAIN runs' : \A s \in DOMAIN runs'[i].item : ItemTells(i, s)'
    BY DEF RunHolds
  <2>. QED
    BY <2>1, RunsTell
<1>. QED
  BY <1>1, <1>2

LEMMA RunsDiffer ==
  ASSUME EnrollInv, NEW i \in DOMAIN runs, NEW j \in DOMAIN runs,
         runs[i].from = runs[j].from, runs[i].day = runs[j].day
  PROVE  i = j
BY DEF EnrollInv, RunsMatchPlacements

LEMMA RunsStay ==
  ASSUME EnrollInv, Later, runs' = runs
  PROVE  RunsGrown /\ Decided' /\ RunsMatchPlacements' /\ runs' \in Seq(Run)
<1>1. RunsGrown /\ runs' \in Seq(Run)
  BY DEF RunsGrown, EnrollInv, EnrollTypes
<1>2. \A i \in DOMAIN runs' : RunHolds(i)'
  BY TellsOn DEF RunHolds
<1>3. \A i, j \in DOMAIN runs' :
            runs'[i].from = runs'[j].from /\ runs'[i].day = runs'[j].day => i = j
  BY RunsDiffer
<1>. QED
  BY <1>1, <1>2, <1>3, RunsHold

LEMMA Appended ==
  ASSUME NEW S, NEW q \in Seq(S), NEW e \in S
  PROVE  /\ Append(q, e) \in Seq(S) /\ Len(q) + 1 \notin DOMAIN q
         /\ DOMAIN Append(q, e) = DOMAIN q \cup {Len(q) + 1}
         /\ Append(q, e)[Len(q) + 1] = e
         /\ \A i \in DOMAIN q : Append(q, e)[i] = q[i]
BY AppendProperties

\* A promotion adds a run that tells what it has written.
LEMMA RunAdded ==
  ASSUME EnrollInv, Later, NEW q \in Request, Fits(q), q.at = "promote",
         \A s \in DOMAIN q.change :
            q.change[s] \in Change /\ Suits(s, q.change[s]) /\ rows'[s] = Applied(s, q.change[s]),
         DOMAIN q.change \in SUBSET Known,
         \A i \in DOMAIN runs : ~(runs[i].from = q.sem /\ runs[i].day = q.day),
         runs' = Append(runs, [from |-> q.sem, day |-> q.day,
                   item |-> [s \in DOMAIN q.change |-> Item(s, q.change[s])]])
  PROVE  RunsGrown /\ Decided' /\ RunsMatchPlacements' /\ runs' \in Seq(Run)
<1>1. PICK items, r : /\ items = [s \in DOMAIN q.change |-> Item(s, q.change[s])]
                      /\ r = [from |-> q.sem, day |-> q.day, item |-> items]
  OBVIOUS
<1>2. /\ q.sem \in Nat /\ q.sem \in Semesters /\ q.sem + 1 \in Semesters /\ q.day \in Days
      /\ \A s \in DOMAIN q.change : Promotes(q.sem, q.day, s, q.change[s])
  BY Numbers DEF Fits
<1>3. ASSUME NEW s \in DOMAIN q.change
      PROVE  /\ items[s] \in RunItem
             /\ items[s].source \in DOMAIN rows'[s] /\ rows'[s][items[s].source].from < q.day
             /\ items[s].held => items[s].target = 0
             /\ ~items[s].held =>
                  /\ items[s].target \in DOMAIN rows'[s] \ {items[s].source}
                  /\ rows'[s][items[s].target].from = q.day
                  /\ rows'[s][items[s].target].sem = q.sem + 1
                  /\ rows'[s][items[s].source].to # Never
  <2>1. items[s] = Item(s, q.change[s])
    BY <1>1
  <2>2. s \in Known /\ rows'[s] = Applied(s, q.change[s])
    OBVIOUS
  <2>3. LET item == Item(s, q.change[s]) IN
         /\ item \in RunItem
         /\ item.source \in DOMAIN rows'[s] /\ rows'[s][item.source].from < q.day
         /\ item.held => item.target = 0
         /\ ~item.held =>
              /\ item.target \in DOMAIN rows'[s] \ {item.source}
              /\ rows'[s][item.target].from = q.day /\ rows'[s][item.target].sem = q.sem + 1
              /\ rows'[s][item.source].to # Never
    BY <1>2, <2>2, ItemOfDecision
  <2>. QED
    BY <2>1, <2>3, Zenon
<1>4. r \in Run /\ r.from = q.sem /\ r.day = q.day /\ r.item = items
      /\ DOMAIN items = DOMAIN q.change
  <2>1. items \in [DOMAIN q.change -> RunItem] /\ DOMAIN q.change \in SUBSET Students
    BY <1>1, <1>3 DEF Known
  <2>2. items \in RunItems
    BY <2>1, Zenon DEF RunItems
  <2>. QED
    BY <1>1, <1>2, <2>1, <2>2 DEF Run
<1>5. PICK m : m = Len(runs) + 1
  OBVIOUS
<1>6. /\ runs' \in Seq(Run) /\ DOMAIN runs' = DOMAIN runs \cup {m} /\ m \notin DOMAIN runs
      /\ runs'[m] = r /\ \A i \in DOMAIN runs : runs'[i] = runs[i]
  <2>1. runs \in Seq(Run) /\ runs' = Append(runs, r)
    BY <1>1 DEF EnrollInv, EnrollTypes
  <2>. QED
    BY <1>4, <1>5, <2>1, Appended
<1>7. RunsGrown
  BY <1>6 DEF RunsGrown
<1>8. RunHolds(m)'
  <2>. SUFFICES ASSUME NEW s \in DOMAIN items
                PROVE  /\ ItemTells(m, s)' /\ s \in Known'
                       /\ rows'[s][items[s].source].from < q.day
    BY <1>4, <1>6 DEF RunHolds
  <2>1. ItemTells(m, s)'
    BY <1>3, <1>4, <1>6, ZenonT(40) DEF ItemTells
  <2>2. s \in Known'
    BY <1>4 DEF Later, Known
  <2>. QED
    BY <1>3, <1>4, <2>1, <2>2
<1>9. ASSUME NEW i \in DOMAIN runs PROVE RunHolds(i)'
  <2>1. \A s \in DOMAIN runs[i].item :
           ItemTells(i, s)' /\ s \in Known' /\ rows'[s][runs[i].item[s].source].from < runs[i].day
    BY <1>6, TellsOn
  <2>. QED
    BY <1>6, <2>1 DEF RunHolds
<1>10. \A i, j \in DOMAIN runs' :
            runs'[i].from = runs'[j].from /\ runs'[i].day = runs'[j].day => i = j
  BY <1>4, <1>6, RunsDiffer, SMTT(20)
<1>11. \A i \in DOMAIN runs' : RunHolds(i)'
  BY <1>6, <1>8, <1>9
<1>. QED
  BY <1>6, <1>7, <1>10, <1>11, RunsHold

\* A release changes the items of its run for the students it places.
LEMMA RunReleases ==
  ASSUME EnrollInv, Later, NEW q \in Request, Fits(q), q.at = "release",
         \A s \in DOMAIN q.change :
            q.change[s] \in Change /\ Suits(s, q.change[s]) /\ rows'[s] = Applied(s, q.change[s]),
         runs' = [runs EXCEPT ![q.run].item = FreedItems(q)]
  PROVE  RunsGrown /\ Decided' /\ RunsMatchPlacements' /\ runs' \in Seq(Run)
<1>1. PICK m, old, items :
        /\ m = q.run /\ old = runs[q.run]
        /\ items = FreedItems(q)
  OBVIOUS
<1>0. items = [s \in DOMAIN old.item |->
                 IF s \in DOMAIN q.change
                 THEN [old.item[s] EXCEPT !.held = FALSE, !.target = Len(rows[s]) + 1]
                 ELSE old.item[s]]
  BY <1>1 DEF FreedItems
<1>2. /\ m \in DOMAIN runs /\ old = runs[m] /\ old \in Run /\ old.item \in RunItems
      /\ old.from \in Nat /\ old.day \in Days
      /\ \A s \in DOMAIN q.change : Releases(m, s, q.change[s])
  BY <1>1, RunFields DEF Fits, EnrollInv
<1>3. /\ runs' = [runs EXCEPT ![m].item = items] /\ DOMAIN items = DOMAIN old.item
      /\ runs'[m] = [old EXCEPT !.item = items]
      /\ DOMAIN runs' = DOMAIN runs /\ \A i \in DOMAIN runs \ {m} : runs'[i] = runs[i]
  BY <1>0, <1>1, <1>2
<1>4. runs'[m].from = old.from /\ runs'[m].day = old.day /\ runs'[m].item = items
  BY <1>2, <1>3 DEF Run
<1>5. ASSUME NEW s \in DOMAIN old.item
      PROVE  s \in Known /\ s \in Students /\ old.item[s] \in RunItem /\ Len(rows[s]) + 1 \in Nat
  <2>1. s \in Known
    BY <1>2 DEF EnrollInv, Decided
  <2>2. s \in Students
    BY <2>1 DEF Known
  <2>3. old.item[s] \in RunItem
    BY <1>2 DEF RunItems
  <2>4. Len(rows[s]) \in Nat
    BY <2>2, Rows DEF EnrollInv
  <2>5. Len(rows[s]) + 1 \in Nat
    BY ONLY <2>4
  <2>. QED
    BY <2>1, <2>2, <2>3, <2>5
<1>6. ASSUME NEW s \in DOMAIN old.item, s \in DOMAIN q.change
      PROVE  /\ items[s] \in RunItem /\ items[s].source = old.item[s].source
             /\ items[s].target = Len(rows[s]) + 1 /\ ~items[s].held
  <2>1. PICK x : x = old.item[s]
    OBVIOUS
  <2>2. PICK k : k = Len(rows[s]) + 1
    OBVIOUS
  <2>3. PICK f : f = FALSE
    OBVIOUS
  <2>4. items[s] = [x EXCEPT !.held = f, !.target = k]
    BY <1>0, <1>6, <2>1, <2>2, <2>3
  <2>5. x \in RunItem /\ k \in Nat /\ f \in BOOLEAN
    BY <1>5, <2>1, <2>2, <2>3
  <2>6. PICK y : y = [x EXCEPT !.held = f, !.target = k]
    OBVIOUS
  <2>7. y \in RunItem /\ y.source = x.source /\ y.target = k
    BY ONLY <2>5, <2>6 DEF RunItem
  <2>8. y.held = f
    BY ONLY <2>5, <2>6 DEF RunItem
  <2>9. ~y.held
    BY <2>3, <2>8, Zenon
  <2>10. items[s] = y
    BY <2>4, <2>6
  <2>11. ~items[s].held
    BY <2>9, <2>10, Zenon
  <2>. QED
    BY <2>1, <2>2, <2>7, <2>10, <2>11, Zenon
<1>7. ASSUME NEW s \in DOMAIN old.item, s \notin DOMAIN q.change
      PROVE  items[s] = old.item[s]
  BY <1>0, <1>7
<1>8. \A s \in DOMAIN old.item : items[s] \in RunItem /\ items[s].source = old.item[s].source
  BY <1>5, <1>6, <1>7
<1>9. runs' \in Seq(Run)
  <2>1. items \in [DOMAIN old.item -> RunItem] /\ DOMAIN old.item \in SUBSET Students
    BY <1>0, <1>5, <1>8
  <2>2. items \in RunItems
    BY <2>1, Zenon DEF RunItems
  <2>3. runs'[m] \in Run
    BY <1>2, <1>3, <2>2 DEF Run
  <2>4. \A i \in DOMAIN runs : runs'[i] \in Run
    BY <1>3, <2>3, RunFields DEF EnrollInv
  <2>5. runs' = [i \in DOMAIN runs |-> runs'[i]] /\ runs \in Seq(Run)
    BY <1>3 DEF EnrollInv, EnrollTypes
  <2>. QED
    BY ONLY <2>4, <2>5, Replaced
<1>10. RunsGrown
  <2>1. ASSUME NEW i \in DOMAIN runs
        PROVE  /\ runs'[i].from = runs[i].from /\ runs'[i].day = runs[i].day
               /\ DOMAIN runs'[i].item = DOMAIN runs[i].item
               /\ \A s \in DOMAIN runs[i].item : runs'[i].item[s].source = runs[i].item[s].source
    <3>1. CASE i = m
      BY <1>2, <1>3, <1>4, <1>8, <3>1
    <3>2. CASE i # m
      BY <1>3, <3>2
    <3>. QED
      BY <3>1, <3>2
  <2>. QED
    BY <1>3, <2>1 DEF RunsGrown
<1>11. ASSUME NEW s \in DOMAIN old.item, s \in DOMAIN q.change
       PROVE  /\ items[s].source \in DOMAIN rows'[s]
              /\ items[s].target \in DOMAIN rows'[s] \ {items[s].source}
              /\ rows'[s][items[s].target].from = old.day
              /\ rows'[s][items[s].target].sem = old.from + 1
              /\ rows'[s][items[s].source].to # Never
              /\ rows'[s][items[s].source].from < old.day
  <2>1. PICK c, o : c = q.change[s] /\ o = old.item[s].source
    OBVIOUS
  <2>2. /\ c \in Change /\ Suits(s, c) /\ rows'[s] = Applied(s, c)
        /\ c.row = {o} /\ c.until = old.day
        /\ Len(c.new) = 1 /\ c.new[1].from = old.day /\ c.new[1].sem = old.from + 1
    BY <1>2, <1>11, <2>1 DEF Releases
  <2>3. o \in DOMAIN rows[s] /\ rows[s][o].from < old.day
    BY <1>2, <2>1 DEF EnrollInv, Decided
  <2>4. IsWritten(rows'[s], s, c)
    BY <1>5, <2>2, WrittenRows DEF EnrollInv
  <2>5. 1 \in DOMAIN c.new /\ old.day # 0 /\ old.day # Never
    <3>1. old.day # 0 /\ old.day # Never
      <4>1. old.day \in Days
        BY <1>2
      <4>. QED
        BY ONLY <4>1, Numbers
    <3>2. 1 \in DOMAIN c.new
      <4>1. c.new \in Seq(Row) /\ Len(c.new) = 1
        BY <2>2, ChangeFields
      <4>. QED
        BY ONLY <4>1
    <3>. QED
      BY <3>1, <3>2
  <2>6. /\ Len(rows[s]) + 1 \in DOMAIN rows'[s] \ DOMAIN rows[s]
        /\ rows'[s][Len(rows[s]) + 1] = c.new[1]
    BY <2>4, <2>5 DEF IsWritten
  <2>7. o \in DOMAIN rows'[s] /\ rows'[s][o].from = rows[s][o].from /\ rows'[s][o].to = old.day
    BY <2>2, <2>3, <2>4, <2>5 DEF IsWritten
  <2>8. items[s].source = o /\ items[s].target = Len(rows[s]) + 1
    BY <1>6, <1>11, <2>1
  <2>. QED
    BY <2>2, <2>3, <2>5, <2>6, <2>7, <2>8
<1>12. RunHolds(m)'
  <2>. SUFFICES ASSUME NEW s \in DOMAIN old.item
                PROVE  /\ ItemTells(m, s)' /\ s \in Known'
                       /\ rows'[s][items[s].source].from < old.day
    BY <1>3, <1>4 DEF RunHolds
  <2>1. CASE s \in DOMAIN q.change
    <3>1. ItemTells(m, s)'
      BY <1>4, <1>6, <1>11, <2>1, Zenon DEF ItemTells
    <3>. QED
      BY <1>5, <1>11, <2>1, <3>1 DEF Later, Known
  <2>2. CASE s \notin DOMAIN q.change
    <3>1. PICK x : x = old.item[s]
      OBVIOUS
    <3>2. items[s] = x /\ runs'[m].item[s] = x /\ runs[m].item[s] = x /\ s \in DOMAIN runs[m].item
      BY <1>2, <1>4, <1>7, <2>2, <3>1
    <3>3. x.source \in DOMAIN rows'[s] /\ s \in Known' /\ rows'[s][x.source].from < old.day
      BY <1>2, <1>5, <3>2, ZenonT(30) DEF EnrollInv, Decided, Later, Known
    <3>4. x.held => x.target = 0
      <4>1. runs[m].item[s].held => runs[m].item[s].target = 0
        BY <1>2, <3>2, Zenon DEF EnrollInv, RunsMatchPlacements
      <4>. QED
        BY <3>2, <4>1, Zenon
    <3>5. ASSUME ~x.held
          PROVE  /\ x.target \in DOMAIN rows'[s] \ {x.source}
                 /\ rows'[s][x.target].from = old.day
                 /\ rows'[s][x.target].sem = old.from + 1
                 /\ rows'[s][x.source].to # Never
      <4>1. /\ x.target \in DOMAIN rows[s] \ {x.source} /\ x.source \in DOMAIN rows[s]
            /\ rows[s][x.target].from = old.day
            /\ rows[s][x.target].sem = old.from + 1
            /\ rows[s][x.source].to # Never
        BY <1>2, <3>2, <3>5, ZenonT(40) DEF EnrollInv, RunsMatchPlacements
      <4>2. old.from + 1 # 0
        <5>1. old.from \in Nat
          BY <1>2
        <5>. QED
          BY ONLY <5>1
      <4>. QED
        BY <1>5, <4>1, <4>2 DEF Later
    <3>6. ItemTells(m, s)'
      BY <1>4, <3>2, <3>3, <3>4, <3>5, Zenon DEF ItemTells
    <3>. QED
      BY <3>2, <3>3, <3>6
  <2>. QED
    BY <2>1, <2>2
<1>13. ASSUME NEW i \in DOMAIN runs, i # m PROVE RunHolds(i)'
  <2>1. runs'[i] = runs[i]
    BY <1>3, <1>13
  <2>2. \A s \in DOMAIN runs[i].item :
           ItemTells(i, s)' /\ s \in Known' /\ rows'[s][runs[i].item[s].source].from < runs[i].day
    BY <2>1, TellsOn
  <2>. QED
    BY <2>1, <2>2 DEF RunHolds
<1>14. \A i, j \in DOMAIN runs' :
            runs'[i].from = runs'[j].from /\ runs'[i].day = runs'[j].day => i = j
  BY <1>3, <1>10, RunsDiffer DEF RunsGrown
<1>15. \A i \in DOMAIN runs' : RunHolds(i)'
  BY <1>3, <1>12, <1>13
<1>. QED
  BY <1>9, <1>10, <1>14, <1>15, RunsHold

-----------------------------------------------------------------------------
LEMMA IdleRequest == Idle \in Request /\ Fits(Idle) /\ DOMAIN Idle.change = {}
<1>1. NoChange \in [{} -> Change] /\ DOMAIN NoChange = {}
  BY DEF NoChange
<1>2. NoChange \in Changes
  BY <1>1 DEF Changes
<1>3. Idle \in Request
  BY <1>2, Numbers DEF Idle, Request
<1>4. Idle.at = "idle" /\ Idle.change = NoChange
  BY DEF Idle
<1>5. Fits(Idle)
  BY <1>1, <1>4 DEF Fits
<1>. QED
  BY <1>1, <1>3, <1>4, <1>5

\* After a step that lets rows and runs grow, every request that still waits fits.
LEMMA Settle ==
  ASSUME EnrollInv, Later, RunsGrown,
         sem' \in [Semesters -> Semester], SemesterDates', Newcomers', Succession',
         Decided', RunsMatchPlacements', section' \in [Students -> Sections \cup {None}],
         runs' \in Seq(Run),
         todo' \in [Handlers -> Request],
         \A h \in Handlers : todo'[h] = todo[h] \/ todo'[h] = Idle
  PROVE  EnrollInv'
<1>1. Grown
  BY LaterGrown
<1>2. EnrollTypes'
  BY DEF EnrollTypes, Later
<1>3. RequestsFit'
  <2>. SUFFICES ASSUME NEW h \in Handlers, NEW q \in Request, todo'[h] = q PROVE Fits(q)'
    BY DEF RequestsFit
  <2>1. Fits(q)
    BY IdleRequest DEF EnrollInv, RequestsFit
  <2>. QED
    BY <1>1, <2>1, Waiting
<1>. QED
  BY <1>2, <1>3 DEF EnrollInv

LEMMA CommitInv ==
  ASSUME EnrollInv, NEW h \in Handlers, Commit(h)
  PROVE  EnrollInv'
<1>1. PICK q : q = todo[h]
  OBVIOUS
<1>2. /\ q \in Request /\ Fits(q)
      /\ \A s \in DOMAIN q.change : q.change[s] \in Change /\ Suits(s, q.change[s])
  <2>1. q \in Request /\ \A s \in DOMAIN q.change : q.change[s] \in Change
    BY <1>1, Requests DEF EnrollInv
  <2>2. Fits(q)
    BY <1>1, <2>1 DEF EnrollInv, RequestsFit
  <2>. QED
    BY <2>1, <2>2 DEF Fits
<1>3. /\ Writes(DOMAIN q.change, q.change)
      /\ DOMAIN q.change \in SUBSET Known
      /\ section' \in [Students -> Sections \cup {None}]
      /\ \A s \in Known : section'[s] # None
      /\ Newcomers'
  BY <1>1, CommitWrites
<1>4. sem' = sem /\ todo' = [todo EXCEPT ![h] = Idle]
  BY DEF Commit
<1>5. PICK S, change : S = DOMAIN q.change /\ change = q.change
  OBVIOUS
<1>6. S \in SUBSET Students /\ Writes(S, change)
  BY <1>3, <1>5 DEF Known
<1>7. /\ rows' \in [Students -> Seq(Placement)]
      /\ Succession'
      /\ \A s \in S : rows'[s] = Applied(s, change[s])
      /\ \A s \in Students :
           /\ DOMAIN rows[s] \subseteq DOMAIN rows'[s]
           /\ \A k \in DOMAIN rows[s] :
                /\ rows'[s][k].from = rows[s][k].from
                /\ rows[s][k].sem # 0 => rows'[s][k].sem = rows[s][k].sem
                /\ rows[s][k].to # Never => rows'[s][k].to # Never
  BY <1>6, WritesRows DEF EnrollInv
<1>8. Later
  BY <1>3, <1>4, <1>7 DEF Later, Exists
<1>9. \A s \in DOMAIN q.change :
         q.change[s] \in Change /\ Suits(s, q.change[s]) /\ rows'[s] = Applied(s, q.change[s])
  BY <1>2, <1>5, <1>7
<1>10. RunsGrown /\ Decided' /\ RunsMatchPlacements' /\ runs' \in Seq(Run)
  <2>1. CASE q.at = "promote"
    <3>1. /\ \A i \in DOMAIN runs : ~(runs[i].from = q.sem /\ runs[i].day = q.day)
          /\ runs' = Append(runs, [from |-> q.sem, day |-> q.day,
                       item |-> [s \in DOMAIN q.change |-> Item(s, q.change[s])]])
      BY <1>1, <2>1, CommitRuns
    <3>. QED
      BY <1>2, <1>3, <1>8, <1>9, <2>1, <3>1, RunAdded
  <2>2. CASE q.at = "release"
    <3>1. runs' = [runs EXCEPT ![q.run].item = FreedItems(q)]
      BY <1>1, <2>2, CommitRuns
    <3>. QED
      BY <1>2, <1>8, <1>9, <2>2, <3>1, RunReleases
  <2>3. CASE q.at \in {"assign", "move"}
    <3>1. runs' = runs
      BY <1>1, <2>3, CommitRuns
    <3>. QED
      BY <1>8, <3>1, RunsStay
  <2>. QED
    BY <1>1, <2>1, <2>2, <2>3, CommitRuns
<1>11. sem' \in [Semesters -> Semester] /\ SemesterDates'
  BY <1>4 DEF EnrollInv, EnrollTypes, SemesterDates, Exists
<1>12. todo' \in [Handlers -> Request] /\ \A g \in Handlers : todo'[g] = todo[g] \/ todo'[g] = Idle
  BY <1>4, IdleRequest DEF EnrollInv, EnrollTypes
<1>. QED
  BY <1>3, <1>7, <1>8, <1>10, <1>11, <1>12, Settle

\* A request is asked, or ends without a trace.
LEMMA AskInv ==
  ASSUME EnrollInv, NEW h \in Handlers, NEW q \in Request, Fits(q),
         todo' = [todo EXCEPT ![h] = q], UNCHANGED <<sem, rows, section, runs>>
  PROVE  EnrollInv'
<1>1. /\ rows' = rows /\ section' = section /\ runs' = runs /\ sem' = sem
      /\ EnrollTypes'
  BY DEF EnrollInv, EnrollTypes
<1>2. SemesterDates' /\ Newcomers' /\ Succession'
  BY <1>1 DEF EnrollInv, SemesterDates, Exists, Newcomers, Succession, Covers
<1>3. Decided' /\ RunsMatchPlacements'
  <2>1. Later
    BY <1>1 DEF Later, Known, Exists, EnrollInv, EnrollTypes
  <2>. QED
    BY <1>1, <2>1, RunsStay
<1>4. Grown
  BY <1>1 DEF Grown, Known, Exists
<1>5. RequestsFit'
  <2>. SUFFICES ASSUME NEW g \in Handlers, NEW r \in Request, todo'[g] = r PROVE Fits(r)'
    BY DEF RequestsFit
  <2>1. Fits(r)
    BY DEF EnrollInv, RequestsFit, EnrollTypes
  <2>. QED
    BY <1>4, <2>1, Waiting
<1>. QED
  BY <1>1, <1>2, <1>3, <1>5 DEF EnrollInv

-----------------------------------------------------------------------------
\* what is asked of students
Asked(at, n, d, change) == [Idle EXCEPT !.at = at, !.sem = n, !.day = d, !.change = change]
AskedOf(i, d, change) == [Idle EXCEPT !.at = "release", !.run = i, !.day = d, !.change = change]

LEMMA AskFields ==
  ASSUME NEW at \in {"promote", "assign", "move"}, NEW n \in 0..N, NEW d \in 0..LastDay,
         NEW change \in Changes
  PROVE  LET q == Asked(at, n, d, change) IN
         q \in Request /\ q.at = at /\ q.sem = n /\ q.day = d /\ q.change = change
<1>1. Idle \in Request
  BY IdleRequest
<1>2. PICK r : r = Idle
  OBVIOUS
<1>. QED
  BY <1>1, <1>2 DEF Request, Asked

LEMMA ReleaseFields ==
  ASSUME NEW i \in Nat, NEW d \in 0..LastDay, NEW change \in Changes
  PROVE  LET q == AskedOf(i, d, change) IN
         q \in Request /\ q.at = "release" /\ q.run = i /\ q.change = change
<1>1. Idle \in Request
  BY IdleRequest
<1>2. PICK r : r = Idle
  OBVIOUS
<1>. QED
  BY <1>1, <1>2 DEF Request, AskedOf

LEMMA ChangesOf ==
  ASSUME NEW S \in SUBSET Students, NEW change, change = [s \in S |-> change[s]],
         \A s \in S : change[s] \in Change
  PROVE  change \in Changes /\ DOMAIN change = S
<1>1. change \in [S -> Change] /\ DOMAIN change = S
  OBVIOUS
<1>. QED
  BY <1>1, Zenon DEF Changes

LEMMA PlaceAsk ==
  ASSUME EnrollInv, NEW h \in Handlers, NEW q \in Request, Ask(h, q),
         q.at \in {"promote", "assign", "move", "release"},
         \A s \in DOMAIN q.change : Suits(s, q.change[s]),
         q.at = "promote" => /\ q.sem \in Semesters /\ q.sem + 1 \in Semesters /\ q.day \in Days
                             /\ \A s \in DOMAIN q.change : Promotes(q.sem, q.day, s, q.change[s]),
         q.at = "release" => /\ q.run \in DOMAIN runs
                             /\ \A s \in DOMAIN q.change : Releases(q.run, s, q.change[s])
  PROVE  EnrollInv'
<1>1. q.at # "create" /\ q.at # "dates"
  OBVIOUS
<1>2. Fits(q)
  BY <1>1, Zenon DEF Fits
<1>3. todo' = [todo EXCEPT ![h] = q] /\ UNCHANGED <<sem, rows, section, runs>>
  BY DEF Ask
<1>. QED
  BY <1>2, <1>3, AskInv

LEMMA SourcesKnown ==
  ASSUME NEW n, NEW d PROVE SourceStudents(n, d) \in SUBSET Known
BY DEF SourceStudents

LEMMA PromoteInv ==
  ASSUME EnrollInv, NEW h \in Handlers, NEW n \in Semesters, NEW hold \in SUBSET Students,
         NEW place \in [Students -> Sections], Promote(h, n, hold, place)
  PROVE  EnrollInv'
<1>1. PICK d, who : d = sem[n + 1].start /\ who = SourceStudents(n, d - 1)
  OBVIOUS
<1>2. PICK change : change = [s \in who |-> Decision(s, n, d, s \in hold, place[s])]
  OBVIOUS
<1>3. /\ Promotable(n)
      /\ Ask(h, [Idle EXCEPT !.at = "promote", !.sem = n, !.day = d, !.change = change])
  BY <1>1, <1>2 DEF Promote
<1>4. who \in SUBSET Known /\ who \in SUBSET Students
  BY <1>1, SourcesKnown DEF Known
<1>5. Exists(n) /\ Exists(n + 1) /\ sem[n + 1].start > sem[n].end
  BY <1>3 DEF Promotable
<1>6. ASSUME NEW s \in who
      PROVE  /\ change[s] \in Change /\ Suits(s, change[s]) /\ Promotes(n, d, s, change[s])
             /\ d \in Days /\ n + 1 \in Semesters
  <2>0. (s \in hold) \in BOOLEAN
    OBVIOUS
  <2>1. PICK b \in BOOLEAN : b = (s \in hold)
    BY <2>0, Zenon
  <2>2. change[s] = Decision(s, n, d, s \in hold, place[s])
    BY <1>2
  <2>3. change[s] = Decision(s, n, d, b, place[s])
    BY <2>1, <2>2, Zenon
  <2>4. s \in Known /\ place[s] \in Sections
    BY <1>4
  <2>. QED
    BY <1>1, <1>5, <2>3, <2>4, DecisionSuits DEF EnrollInv
<1>7. d \in Days /\ n + 1 \in Semesters
  <2>1. d \in 0..LastDay /\ d # 0 /\ n + 1 \in Semesters
    BY <1>1, <1>5 DEF Exists, EnrollInv, EnrollTypes, Semester
  <2>. QED
    BY <2>1 DEF Days
<1>8. change \in Changes /\ DOMAIN change = who
  <2>1. change = [s \in who |-> change[s]]
    BY <1>2
  <2>. QED
    BY <1>4, <1>6, <2>1, ChangesOf
<1>9. PICK q : q = Asked("promote", n, d, change)
  OBVIOUS
<1>10. q \in Request /\ q.at = "promote" /\ q.sem = n /\ q.day = d /\ q.change = change
  <2>1. n \in 0..N /\ d \in 0..LastDay /\ "promote" \in {"promote", "assign", "move"}
    BY <1>7, Numbers
  <2>. QED
    BY ONLY <1>8, <1>9, <2>1, AskFields
<1>11. Ask(h, q)
  BY <1>3, <1>9, Zenon DEF Asked
<1>. QED
  BY <1>6, <1>7, <1>8, <1>10, <1>11, PlaceAsk

LEMMA ProcessDueInv ==
  ASSUME EnrollInv, NEW h \in Handlers, NEW n \in Semesters, ProcessDue(h, n)
  PROVE  EnrollInv'
<1>1. PICK d, who : d = sem[n + 1].start /\ who = SourceStudents(n, d - 1)
  OBVIOUS
<1>2. PICK change : change = [s \in who |-> Decision(s, n, d, FALSE, SectionAt(s, d - 1))]
  OBVIOUS
<1>3. /\ Promotable(n)
      /\ Ask(h, [Idle EXCEPT !.at = "promote", !.sem = n, !.day = d, !.change = change])
  BY <1>1, <1>2 DEF ProcessDue
<1>4. who \in SUBSET Known /\ who \in SUBSET Students
  BY <1>1, SourcesKnown DEF Known
<1>5. Exists(n) /\ Exists(n + 1) /\ sem[n + 1].start > sem[n].end
  BY <1>3 DEF Promotable
<1>6. d \in Days /\ n + 1 \in Semesters /\ d - 1 \in Nat
  <2>1. d \in 0..LastDay /\ d # 0 /\ n + 1 \in Semesters
    BY <1>1, <1>5 DEF Exists, EnrollInv, EnrollTypes, Semester
  <2>. QED
    BY <2>1, Numbers DEF Days
<1>7. ASSUME NEW s \in who
      PROVE  change[s] \in Change /\ Suits(s, change[s]) /\ Promotes(n, d, s, change[s])
  <2>1. PICK b \in BOOLEAN : b = FALSE
    OBVIOUS
  <2>2. change[s] = Decision(s, n, d, FALSE, SectionAt(s, d - 1))
    BY <1>2
  <2>3. change[s] = Decision(s, n, d, b, SectionAt(s, d - 1))
    BY <2>1, <2>2, Zenon
  <2>4. s \in Known /\ SectionAt(s, d - 1) \in Sections
    BY <1>4, <1>6, InForce DEF EnrollInv
  <2>. QED
    BY <1>1, <1>5, <2>3, <2>4, DecisionSuits DEF EnrollInv
<1>8. change \in Changes /\ DOMAIN change = who
  <2>1. change = [s \in who |-> change[s]]
    BY <1>2
  <2>. QED
    BY <1>4, <1>7, <2>1, ChangesOf
<1>9. PICK q : q = Asked("promote", n, d, change)
  OBVIOUS
<1>10. q \in Request /\ q.at = "promote" /\ q.sem = n /\ q.day = d /\ q.change = change
  <2>1. n \in 0..N /\ d \in 0..LastDay /\ "promote" \in {"promote", "assign", "move"}
    BY <1>6, Numbers
  <2>. QED
    BY ONLY <1>8, <1>9, <2>1, AskFields
<1>11. Ask(h, q)
  BY <1>3, <1>9, Zenon DEF Asked
<1>. QED
  BY <1>6, <1>7, <1>8, <1>10, <1>11, PlaceAsk

LEMMA AssignInv ==
  ASSUME EnrollInv, NEW h \in Handlers, NEW n \in Semesters, NEW who \in SUBSET Students,
         NEW place \in [Students -> Sections], Assign(h, n, who, place)
  PROVE  EnrollInv'
<1>1. PICK d, prior : /\ d = sem[n].start
                      /\ prior = [s \in who |-> {k \in Current(s, d - 1) : rows[s][k].sem # n}]
  OBVIOUS
<1>2. PICK change : change = [s \in who |-> HandOver(prior[s], place[s], n, d)]
  OBVIOUS
<1>3. /\ Exists(n) /\ who \subseteq Known
      /\ Ask(h, [Idle EXCEPT !.at = "assign", !.sem = n, !.day = d,
             !.change = [s \in who |->
                HandOver({k \in Current(s, d - 1) : rows[s][k].sem # n}, place[s], n, d)]])
  BY <1>1 DEF Assign
<1>4. change = [s \in who |->
                HandOver({k \in Current(s, d - 1) : rows[s][k].sem # n}, place[s], n, d)]
  BY <1>1, <1>2
<1>5. d \in Days /\ d - 1 \in Nat /\ n \in 0..N /\ d \in 0..LastDay
  <2>1. d \in 0..LastDay /\ d # 0
    BY <1>1, <1>3 DEF Exists, EnrollInv, EnrollTypes, Semester
  <2>. QED
    BY <2>1, Numbers DEF Days
<1>6. ASSUME NEW s \in who
      PROVE  change[s] \in Change /\ Suits(s, change[s])
  <2>1. s \in Known /\ place[s] \in Sections
    BY <1>3
  <2>2. prior[s] \subseteq Current(s, d - 1)
    BY <1>1
  <2>3. prior[s] \in SUBSET DOMAIN rows[s] /\ \A k \in prior[s] : rows[s][k].from < d
    <3>1. \A k \in prior[s] : k \in DOMAIN rows[s] /\ rows[s][k].from <= d - 1
      BY <1>5, <2>1, <2>2, InForce DEF EnrollInv
    <3>2. s \in Students
      BY <2>1 DEF Known
    <3>. QED
      BY <1>5, <3>1, <3>2, Rows, Numbers DEF EnrollInv
  <2>. QED
    BY <1>2, <1>5, <2>1, <2>3, HandOverSuits DEF EnrollInv
<1>7. change \in Changes /\ DOMAIN change = who
  <2>1. change = [s \in who |-> change[s]]
    BY <1>2
  <2>. QED
    BY <1>6, <2>1, ChangesOf
<1>8. PICK q : q = Asked("assign", n, d, change)
  OBVIOUS
<1>9. q \in Request /\ q.at = "assign" /\ q.change = change
  <2>1. "assign" \in {"promote", "assign", "move"}
    OBVIOUS
  <2>. QED
    BY ONLY <1>5, <1>7, <1>8, <2>1, AskFields
<1>10. Ask(h, q)
  BY <1>3, <1>4, <1>8, Zenon DEF Asked
<1>. QED
  BY <1>6, <1>7, <1>9, <1>10, PlaceAsk

LEMMA MoveInv ==
  ASSUME EnrollInv, NEW h \in Handlers, NEW s \in Students, NEW n \in Semesters,
         NEW sec \in Sections, NEW d \in Days, Move(h, s, n, sec, d)
  PROVE  EnrollInv'
<1>1. PICK k \in MoveFrom(s, n, d) :
        /\ Movable(s, k, sec, d)
        /\ Ask(h, [Idle EXCEPT !.at = "move", !.sem = n, !.day = d,
             !.change = [t \in {s} |-> HandOver({k}, sec, n, d)]])
  BY DEF Move
<1>2. PICK change : change = [t \in {s} |-> HandOver({k}, sec, n, d)]
  OBVIOUS
<1>3. k \in DOMAIN rows[s] /\ rows[s][k].from < d
  BY <1>1, Rows, Numbers DEF MoveFrom, Movable, EnrollInv
<1>4. s \in Known
  <2>1. rows[s] # <<>>
    BY <1>3
  <2>. QED
    BY <2>1 DEF EnrollInv, Newcomers, Known
<1>5. n \in 0..N /\ d \in 0..LastDay /\ {k} \in SUBSET DOMAIN rows[s]
  BY <1>3, Numbers
<1>6. \A t \in DOMAIN change : change[t] \in Change /\ Suits(t, change[t])
  BY <1>2, <1>3, <1>4, <1>5, HandOverSuits DEF EnrollInv
<1>7. change \in Changes
  <2>1. change = [t \in {s} |-> change[t]] /\ {s} \in SUBSET Students /\ DOMAIN change = {s}
    BY <1>2
  <2>. QED
    BY <1>6, <2>1, ChangesOf
<1>8. PICK q : q = Asked("move", n, d, change)
  OBVIOUS
<1>9. q \in Request /\ q.at = "move" /\ q.change = change
  <2>1. "move" \in {"promote", "assign", "move"}
    OBVIOUS
  <2>. QED
    BY ONLY <1>5, <1>7, <1>8, <2>1, AskFields
<1>10. Ask(h, q)
  BY <1>1, <1>2, <1>8, Zenon DEF Asked
<1>. QED
  BY <1>6, <1>9, <1>10, PlaceAsk

LEMMA ReleaseInv ==
  ASSUME EnrollInv, NEW h \in Handlers, NEW i \in DOMAIN runs, NEW s \in Students,
         NEW sec \in Sections, Release(h, i, s, sec)
  PROVE  EnrollInv'
<1>1. PICK d, o, n : d = runs[i].day /\ o = runs[i].item[s].source /\ n = runs[i].from + 1
  OBVIOUS
<1>2. PICK change : change = [t \in {s} |-> HandOver({o}, sec, n, d)]
  OBVIOUS
<1>3. /\ s \in DOMAIN runs[i].item
      /\ Ask(h, [Idle EXCEPT !.at = "release", !.run = i, !.day = d, !.change = change])
  BY <1>1, <1>2 DEF Release, Released
<1>4. d \in Days /\ d \in 0..LastDay /\ i \in Nat /\ 0 \in 0..N
  BY <1>1, RunFields, Numbers DEF EnrollInv
<1>5. s \in Known /\ o \in DOMAIN rows[s] /\ rows[s][o].from < d
  BY <1>1, <1>3 DEF EnrollInv, Decided
<1>6. n \in 0..N /\ {o} \in SUBSET DOMAIN rows[s]
  BY <1>1, <1>5, RunFields, Numbers DEF EnrollInv
<1>7. PICK c : c = HandOver({o}, sec, n, d)
  OBVIOUS
<1>8. c \in Change /\ Suits(s, c)
  BY <1>4, <1>5, <1>6, <1>7, HandOverSuits DEF EnrollInv
<1>9. change = [t \in {s} |-> c] /\ DOMAIN change = {s} /\ change[s] = c
  BY <1>2, <1>7
<1>10. Releases(i, s, c)
  <2>1. PICK r : r = Opens(sec, n, d)
    OBVIOUS
  <2>2. r.from = d /\ r.sem = n
    BY <2>1 DEF Opens
  <2>3. c.row = {o} /\ c.until = d /\ c.new = <<r>>
    BY <1>7, <2>1 DEF HandOver
  <2>4. Len(c.new) = 1 /\ c.new[1] = r
    BY <2>3
  <2>. QED
    BY <1>1, <1>3, <2>2, <2>3, <2>4 DEF Releases
<1>11. change \in Changes
  <2>1. change = [t \in {s} |-> change[t]] /\ {s} \in SUBSET Students
    BY <1>9
  <2>. QED
    BY <1>8, <1>9, <2>1, ChangesOf
<1>12. PICK q : q = AskedOf(i, d, change)
  OBVIOUS
<1>13. q \in Request /\ q.at = "release" /\ q.run = i /\ q.change = change
  BY ONLY <1>4, <1>11, <1>12, ReleaseFields
<1>14. Ask(h, q)
  BY <1>3, <1>12, Zenon DEF AskedOf
<1>. QED
  BY <1>8, <1>9, <1>10, <1>13, <1>14, PlaceAsk

-----------------------------------------------------------------------------
\* semesters
Dating(at, n, a, b) == [Idle EXCEPT !.at = at, !.sem = n, !.day = a, !.last = b]

LEMMA DatingFields ==
  ASSUME NEW at \in {"create", "dates"}, NEW n \in 0..N, NEW a \in 0..LastDay, NEW b \in 0..LastDay
  PROVE  LET q == Dating(at, n, a, b) IN
         /\ q \in Request /\ q.at = at /\ q.sem = n /\ q.day = a /\ q.last = b
         /\ q.change = Idle.change
<1>1. Idle \in Request
  BY IdleRequest
<1>2. PICK r : r = Idle
  OBVIOUS
<1>. QED
  BY <1>1, <1>2 DEF Request, Dating

LEMMA SemesterInv ==
  ASSUME EnrollInv, NEW h \in Handlers, NEW n \in Semesters,
         NEW a \in Starts \cup {0}, NEW b \in Ends \cup {0},
         UpdateSemester(h, n, a, b) \/ CreateSemester(h, n, a, b)
  PROVE  EnrollInv'
<1>1. PICK at \in {"create", "dates"} :
         /\ Edit(h, Dating(at, n, a, b))
         /\ at = "create" => a # 0 /\ a <= b
         /\ at = "dates" => Exists(n)
  <2>1. CASE CreateSemester(h, n, a, b)
    <3>1. Edit(h, Dating("create", n, a, b)) /\ a # 0 /\ a <= b
      BY <2>1, Zenon DEF CreateSemester, Dating
    <3>2. "create" \in {"create", "dates"} /\ "create" # "dates"
      OBVIOUS
    <3>. QED
      BY <3>1, <3>2
  <2>2. CASE UpdateSemester(h, n, a, b)
    <3>1. Edit(h, Dating("dates", n, a, b)) /\ Exists(n)
      BY <2>2, Zenon DEF UpdateSemester, Dating
    <3>2. "dates" \in {"create", "dates"} /\ "create" # "dates"
      OBVIOUS
    <3>. QED
      BY <3>1, <3>2
  <2>. QED
    BY <2>1, <2>2
<1>2. n \in 0..N /\ a \in 0..LastDay /\ b \in 0..LastDay
  BY Numbers
<1>3. PICK q : q = Dating(at, n, a, b)
  OBVIOUS
<1>4. /\ q \in Request /\ q.at = at /\ q.sem = n /\ q.day = a /\ q.last = b
      /\ q.change = Idle.change
  BY <1>2, <1>3, DatingFields
<1>5. Fits(q)
  <2>1. DOMAIN q.change = {} /\ q.at # "promote" /\ q.at # "release"
    BY <1>4, IdleRequest
  <2>2. q.at = "create" => q.sem \in Semesters /\ 0 < q.day /\ q.day <= q.last
    BY <1>1, <1>2, <1>4
  <2>3. q.at = "dates" => Exists(q.sem)
    BY <1>1, <1>4
  <2>. QED
    BY <2>1, <2>2, <2>3 DEF Fits
<1>6. todo' = [todo EXCEPT ![h] = q] /\ UNCHANGED <<sem, rows, section, runs>>
  BY <1>1, <1>3 DEF Edit
<1>. QED
  BY <1>4, <1>5, <1>6, AskInv

LEMMA RunCollidesInv ==
  ASSUME EnrollInv, NEW h \in Handlers, RunCollides(h)
  PROVE  EnrollInv'
<1>1. todo' = [todo EXCEPT ![h] = Idle] /\ UNCHANGED <<sem, rows, section, runs>>
  BY DEF RunCollides
<1>. QED
  BY <1>1, IdleRequest, AskInv

\* A change of the semesters: those there were stay, with dates in order.
LEMMA SemestersChange ==
  ASSUME EnrollInv, UNCHANGED <<rows, section, runs>>,
         sem' \in [Semesters -> Semester], SemesterDates',
         \A n \in Semesters : Exists(n) => Exists(n)',
         todo' \in [Handlers -> Request],
         \A h \in Handlers : todo'[h] = todo[h] \/ todo'[h] = Idle
  PROVE  EnrollInv'
<1>1. /\ section' \in [Students -> Sections \cup {None}] /\ runs' = runs
      /\ rows' = rows /\ section' = section
  BY DEF EnrollInv, EnrollTypes
<1>2. Later
  BY <1>1 DEF Later, EnrollInv, EnrollTypes, Known
<1>3. Newcomers' /\ Succession'
  BY <1>1 DEF EnrollInv, Newcomers, Succession, Covers
<1>4. RunsGrown /\ Decided' /\ RunsMatchPlacements' /\ runs' \in Seq(Run)
  BY <1>1, <1>2, RunsStay
<1>. QED
  BY <1>1, <1>2, <1>3, <1>4, Settle

LEMMA CommitSemesterInv ==
  ASSUME EnrollInv, NEW h \in Handlers, CommitSemester(h)
  PROVE  EnrollInv'
<1>1. PICK q : q = todo[h]
  OBVIOUS
<1>2. /\ q.at \in {"create", "dates"}
      /\ sem' = IF SemesterRefused(q) THEN sem ELSE [sem EXCEPT ![q.sem] = Dated(q)]
      /\ todo' = [todo EXCEPT ![h] = Idle]
      /\ UNCHANGED <<rows, section, runs>>
  BY <1>1, Zenon DEF CommitSemester
<1>3. q.sem \in 0..N /\ q.day \in 0..LastDay /\ q.last \in 0..LastDay /\ q \in Request
  BY <1>1, Requests DEF EnrollInv
<1>4. Fits(q)
  BY <1>1, <1>3 DEF EnrollInv, RequestsFit
<1>5. todo' \in [Handlers -> Request] /\ \A g \in Handlers : todo'[g] = todo[g] \/ todo'[g] = Idle
  BY <1>2, IdleRequest DEF EnrollInv, EnrollTypes
<1>6. CASE SemesterRefused(q)
  <2>1. sem' = sem
    BY <1>2, <1>6
  <2>2. /\ sem' \in [Semesters -> Semester] /\ SemesterDates'
        /\ \A n \in Semesters : Exists(n) => Exists(n)'
    BY <2>1 DEF EnrollInv, EnrollTypes, SemesterDates, Exists
  <2>. QED
    BY <1>2, <1>5, <2>2, SemestersChange
<1>7. CASE ~SemesterRefused(q)
  <2>1. PICK n, x, y : n = q.sem /\ x = sem[n] /\ y = Dated(q)
    OBVIOUS
  <2>2. n \in Semesters
    BY <1>2, <1>4, <2>1 DEF Fits, Exists
  <2>3. x \in Semester /\ x.start \in 0..LastDay /\ x.end \in 0..LastDay
    BY <2>1, <2>2 DEF EnrollInv, EnrollTypes, Semester
  <2>4. PICK a, b : /\ a = IF q.day = 0 THEN x.start ELSE q.day
                    /\ b = IF q.last = 0 THEN x.end ELSE q.last
    OBVIOUS
  <2>5. a \in 0..LastDay /\ b \in 0..LastDay
    BY <1>3, <2>3, <2>4
  <2>6. y = [x EXCEPT !.start = a, !.end = b]
    BY <2>1, <2>4 DEF Dated
  <2>7. y \in Semester /\ y.start = a /\ y.end = b
    BY ONLY <2>3, <2>5, <2>6 DEF Semester
  <2>8. a <= b
    <3>1. CASE q.at = "create"
      <4>1. 0 < q.day /\ q.day <= q.last
        BY <1>4, <3>1 DEF Fits
      <4>. QED
        BY <1>3, <2>4, <4>1
    <3>2. CASE q.at = "dates"
      <4>1. ~(y.start > y.end)
        BY <1>7, <2>1, <3>2 DEF SemesterRefused
      <4>. QED
        BY <2>5, <2>7, <4>1
    <3>. QED
      BY <1>2, <3>1, <3>2
  <2>9. x.start # 0 => a # 0
    BY <2>4
  <2>10. sem' = [sem EXCEPT ![n] = y]
    BY <1>2, <1>7, <2>1
  <2>11. /\ sem' \in [Semesters -> Semester]
         /\ sem'[n] = y /\ \A m \in Semesters \ {n} : sem'[m] = sem[m]
    BY <2>2, <2>7, <2>10 DEF EnrollInv, EnrollTypes
  <2>12. SemesterDates' /\ \A m \in Semesters : Exists(m) => Exists(m)'
    BY <2>1, <2>7, <2>8, <2>9, <2>11 DEF EnrollInv, SemesterDates, Exists
  <2>. QED
    BY <1>2, <1>5, <2>11, <2>12, SemestersChange
<1>. QED
  BY <1>6, <1>7

LEMMA CalendarInv ==
  ASSUME EnrollInv, NEW n \in Semesters, NEW ready \in BOOLEAN, SetCalendar(n, ready)
  PROVE  EnrollInv'
<1>1. PICK b : b = ready
  OBVIOUS
<1>2. b \in BOOLEAN /\ sem' = [sem EXCEPT ![n].ready = b] /\ UNCHANGED <<rows, section, runs, todo>>
  BY <1>1, Zenon DEF SetCalendar
<1>3. sem \in [Semesters -> [start : 0..LastDay, end : 0..LastDay, ready : BOOLEAN]]
  BY DEF EnrollInv, EnrollTypes, Semester
<1>4. PICK x : x = [sem[n] EXCEPT !.ready = b]
  OBVIOUS
<1>5. sem' = [sem EXCEPT ![n] = x]
  BY <1>2, <1>4
<1>6. sem[n] \in [start : 0..LastDay, end : 0..LastDay, ready : BOOLEAN]
  BY <1>3
<1>7. x \in [start : 0..LastDay, end : 0..LastDay, ready : BOOLEAN]
      /\ x.start = sem[n].start /\ x.end = sem[n].end
  BY ONLY <1>2, <1>4, <1>6
<1>8. /\ sem' \in [Semesters -> [start : 0..LastDay, end : 0..LastDay, ready : BOOLEAN]]
      /\ sem'[n] = x /\ \A m \in Semesters \ {n} : sem'[m] = sem[m]
  BY ONLY <1>3, <1>5, <1>7, n \in Semesters
<1>9. SemesterDates' /\ \A m \in Semesters : Exists(m) => Exists(m)'
  BY <1>7, <1>8 DEF EnrollInv, SemesterDates, Exists
<1>10. todo' \in [Handlers -> Request] /\ \A g \in Handlers : todo'[g] = todo[g]
  BY <1>2 DEF EnrollInv, EnrollTypes
<1>. QED
  BY <1>2, <1>8, <1>9, <1>10, SemestersChange DEF Semester

LEMMA LevelInv ==
  ASSUME EnrollInv, NEW n \in Semesters, NEW a \in Starts, NEW b \in Ends,
         NEW c \in Starts, NEW d \in Ends, CreateLevel(n, a, b, c, d)
  PROVE  EnrollInv'
<1>1. PICK x, y : /\ x = [start |-> a, end |-> b, ready |-> TRUE]
                  /\ y = [start |-> c, end |-> d, ready |-> TRUE]
  OBVIOUS
<1>2. /\ n + 1 \in Semesters /\ ~Exists(n) /\ ~Exists(n + 1) /\ a <= b /\ c <= d
      /\ sem' = [sem EXCEPT ![n] = x, ![n + 1] = y]
      /\ UNCHANGED <<rows, section, runs, todo>>
  BY <1>1, Zenon DEF CreateLevel
<1>3. /\ a \in 1..LastDay /\ b \in 1..LastDay /\ c \in 1..LastDay /\ d \in 1..LastDay
  BY EnrollmentAssumption
<1>4. x \in Semester /\ y \in Semester
  BY <1>1, <1>3, EnrollmentAssumption DEF Semester
<1>5. /\ x.start # 0 /\ y.start # 0 /\ x.start <= x.end /\ y.start <= y.end
  BY <1>1, <1>2, <1>3
<1>6. n # n + 1
  BY EnrollmentAssumption DEF Semesters
<1>7. PICK m : m = n + 1
  OBVIOUS
<1>8. /\ sem' \in [Semesters -> Semester] /\ sem'[n] = x /\ sem'[m] = y
      /\ \A k \in Semesters \ {n, m} : sem'[k] = sem[k]
  BY <1>2, <1>4, <1>6, <1>7, Zenon DEF EnrollInv, EnrollTypes
<1>9. SemesterDates' /\ \A k \in Semesters : Exists(k) => Exists(k)'
  BY <1>5, <1>7, <1>8 DEF EnrollInv, SemesterDates, Exists
<1>10. todo' \in [Handlers -> Request] /\ \A g \in Handlers : todo'[g] = todo[g]
  BY <1>2 DEF EnrollInv, EnrollTypes
<1>. QED
  BY <1>2, <1>8, <1>9, <1>10, SemestersChange

-----------------------------------------------------------------------------
\* new students
LEMMA AdmittedInv ==
  ASSUME EnrollInv, NEW S \in SUBSET Students, NEW to \in [S -> Sections], NEW n \in 0..N,
         NEW today \in Starts, \A s \in S : section[s] = None,
         section' = [s \in Students |-> IF s \in S THEN to[s] ELSE section[s]],
         rows' = [s \in Students |-> IF s \in S THEN FirstPlacement(to[s], n, today) ELSE rows[s]],
         UNCHANGED <<sem, runs, todo>>
  PROVE  EnrollInv'
<1>1. ASSUME NEW s \in S
      PROVE  /\ rows[s] = <<>> /\ section'[s] \in Sections /\ s \notin Known
             /\ rows'[s] \in Seq(Placement)
             /\ \A k \in DOMAIN rows'[s] : rows'[s][k].to = Never
  <2>1. PICK r : r = Opens(to[s], n, today)
    OBVIOUS
  <2>2. rows'[s] = <<r>>
    BY <2>1 DEF FirstPlacement
  <2>3. today \in Days /\ to[s] \in Sections
    BY Numbers
  <2>4. r = [section |-> to[s], sem |-> n, from |-> today, to |-> Never]
    BY <2>1 DEF Opens
  <2>5. r \in Row /\ r.from = today /\ r.to = Never
    BY ONLY <2>3, <2>4, n \in 0..N, Numbers DEF Row
  <2>6. r \in Placement
    BY <2>3, <2>5, Numbers DEF Placement
  <2>7. rows'[s] \in Seq(Placement) /\ \A k \in DOMAIN rows'[s] : rows'[s][k].to = Never
    BY ONLY <2>2, <2>5, <2>6
  <2>8. rows[s] = <<>> /\ section'[s] \in Sections /\ s \notin Known
    BY <2>3 DEF EnrollInv, Newcomers, Known
  <2>. QED
    BY <2>7, <2>8
<1>2. \A s \in Students \ S : rows'[s] = rows[s] /\ section'[s] = section[s]
  OBVIOUS
<1>3. rows' \in [Students -> Seq(Placement)]
  <2>1. \A s \in Students : rows'[s] \in Seq(Placement)
    BY <1>1, <1>2, Rows DEF EnrollInv
  <2>. QED
    BY <2>1
<1>4. section' \in [Students -> Sections \cup {None}]
  BY DEF EnrollInv, EnrollTypes
<1>5. /\ \A s \in Known : section'[s] # None
      /\ \A s \in Students :
           /\ DOMAIN rows[s] \subseteq DOMAIN rows'[s]
           /\ \A k \in DOMAIN rows[s] : rows'[s][k] = rows[s][k]
  <2>1. ASSUME NEW s \in Students
        PROVE  /\ DOMAIN rows[s] \subseteq DOMAIN rows'[s]
               /\ \A k \in DOMAIN rows[s] : rows'[s][k] = rows[s][k]
    <3>1. CASE s \in S
      <4>0. rows[s] = <<>>
        BY <1>1, <3>1
      <4>1. DOMAIN rows[s] = {}
        BY ONLY <4>0
      <4>. QED
        BY ONLY <4>1
    <3>2. CASE s \notin S
      BY <1>2, <3>2
    <3>. QED
      BY <3>1, <3>2
  <2>2. ASSUME NEW s \in Known PROVE section'[s] # None
    BY <1>1, <1>2 DEF Known
  <2>. QED
    BY <2>1, <2>2
<1>6. Later
  BY <1>3, <1>5 DEF Later, Exists
<1>7. RunsGrown /\ Decided' /\ RunsMatchPlacements' /\ runs' \in Seq(Run)
  BY <1>6, RunsStay
<1>8. None \notin Sections
  BY Numbers
<1>9. Newcomers'
  BY <1>1, <1>2, <1>8 DEF EnrollInv, Newcomers
<1>10. Succession'
  <2>. SUFFICES ASSUME NEW s \in Students, NEW k \in DOMAIN rows'[s], NEW d \in Days,
                       rows'[s][k].to <= d
                PROVE  \E j \in DOMAIN rows'[s] :
                          rows'[s][k].to <= rows'[s][j].from /\ Covers(rows'[s][j], d)
    BY DEF Succession, Covers
  <2>1. CASE s \in S
    <3>1. rows'[s][k].to = Never
      BY <1>1, <2>1
    <3>2. d \in Nat /\ d < Never /\ Never \in Nat
      BY Numbers
    <3>3. Never <= d
      BY <3>1
    <3>. QED
      BY ONLY <3>2, <3>3
  <2>2. CASE s \notin S
    BY <1>2, <2>2 DEF EnrollInv, Succession
  <2>. QED
    BY <2>1, <2>2
<1>11. sem' \in [Semesters -> Semester] /\ SemesterDates' /\ todo' \in [Handlers -> Request]
       /\ \A g \in Handlers : todo'[g] = todo[g]
  BY DEF EnrollInv, EnrollTypes, SemesterDates, Exists
<1>. QED
  BY <1>4, <1>6, <1>7, <1>9, <1>10, <1>11, Settle

LEMMA AdmitInv ==
  ASSUME EnrollInv, NEW s \in Students, NEW sec \in Sections, NEW n \in 0..N, NEW today \in Starts,
         Admit(s, sec, n, today)
  PROVE  EnrollInv'
<1>1. PICK S, to : S = {s} /\ to = [t \in {s} |-> sec]
  OBVIOUS
<1>2. S \in SUBSET Students /\ to \in [S -> Sections] /\ to[s] = sec
  BY <1>1
<1>3. /\ \A t \in S : section[t] = None
      /\ section' = [t \in Students |-> IF t \in S THEN to[t] ELSE section[t]]
      /\ rows' = [t \in Students |-> IF t \in S THEN FirstPlacement(to[t], n, today) ELSE rows[t]]
      /\ UNCHANGED <<sem, runs, todo>>
  BY <1>1, <1>2 DEF Admit, EnrollInv, EnrollTypes
<1>. QED
  BY <1>2, <1>3, AdmittedInv

LEMMA ImportInv ==
  ASSUME EnrollInv, NEW S \in SUBSET Students, NEW to \in [S -> Sections], NEW n \in 0..N,
         NEW today \in Starts, ImportStudents(to, n, today)
  PROVE  EnrollInv'
<1>1. DOMAIN to = S
  OBVIOUS
<1>2. /\ \A t \in S : section[t] = None
      /\ section' = [t \in Students |-> IF t \in S THEN to[t] ELSE section[t]]
      /\ rows' = [t \in Students |-> IF t \in S THEN FirstPlacement(to[t], n, today) ELSE rows[t]]
      /\ UNCHANGED <<sem, runs, todo>>
  BY <1>1, Zenon DEF ImportStudents
<1>. QED
  BY <1>2, AdmittedInv

-----------------------------------------------------------------------------
LEMMA Unmoved ==
  ASSUME EnrollInv, UNCHANGED <<sem, rows, section, runs, todo>>
  PROVE  EnrollInv'
<1>1. /\ sem' \in [Semesters -> Semester] /\ SemesterDates'
      /\ \A n \in Semesters : Exists(n) => Exists(n)'
      /\ todo' \in [Handlers -> Request] /\ \A h \in Handlers : todo'[h] = todo[h]
  BY DEF EnrollInv, EnrollTypes, SemesterDates, Exists
<1>. QED
  BY <1>1, SemestersChange

LEMMA EnrollInit == Init => EnrollInv
<1>. SUFFICES ASSUME Init PROVE EnrollInv
  OBVIOUS
<1>0. /\ sem = [n \in Semesters |-> [start |-> 0, end |-> 0, ready |-> FALSE]]
      /\ rows = [s \in Students |-> <<>>]
      /\ section \in [Students -> Sections \cup {None}]
      /\ runs = <<>> /\ todo = [h \in Handlers |-> Idle]
  BY DEF Init
<1>1. sem \in [Semesters -> Semester] /\ \A n \in Semesters : sem[n].start = 0
  <2>1. 0 \in 0..LastDay /\ FALSE \in BOOLEAN
    BY Numbers
  <2>2. [start |-> 0, end |-> 0, ready |-> FALSE] \in Semester
    BY <2>1, Zenon DEF Semester
  <2>. QED
    BY <1>0, <2>2
<1>2. rows \in [Students -> Seq(Placement)] /\ \A s \in Students : rows[s] = <<>>
  BY <1>0
<1>3. runs \in Seq(Run) /\ DOMAIN runs = {}
  BY <1>0
<1>4. EnrollTypes
  BY <1>0, <1>1, <1>2, <1>3, IdleRequest DEF EnrollTypes
<1>5. SemesterDates /\ Newcomers /\ Decided /\ RunsMatchPlacements
  BY <1>1, <1>2, <1>3 DEF SemesterDates, Exists, Newcomers, Decided, RunsMatchPlacements
<1>6. Succession
  <2>1. ASSUME NEW s \in Students PROVE DOMAIN rows[s] = {}
    <3>1. rows[s] = <<>>
      BY <1>2
    <3>. QED
      BY ONLY <3>1
  <2>. QED
    BY <2>1 DEF Succession
<1>7. RequestsFit
  BY <1>0, IdleRequest DEF RequestsFit
<1>. QED
  BY <1>4, <1>5, <1>6, <1>7 DEF EnrollInv

LEMMA PlaceInv ==
  ASSUME EnrollInv, NEW h \in Handlers, Place(h)
  PROVE  EnrollInv'
<1>1. CASE \E n \in Semesters : ProcessDue(h, n)
  BY <1>1, ProcessDueInv
<1>2. CASE \E n \in Semesters, S \in SUBSET Students, p \in [Students -> Sections] :
             Promote(h, n, S, p) \/ Assign(h, n, S, p)
  BY <1>2, PromoteInv, AssignInv
<1>3. CASE \E s \in Students, sec \in Sections : \E n \in Semesters, d \in Days : Move(h, s, n, sec, d)
  BY <1>3, MoveInv
<1>4. CASE \E s \in Students, sec \in Sections : \E i \in DOMAIN runs : Release(h, i, s, sec)
  BY <1>4, ReleaseInv
<1>5. CASE Commit(h)
  BY <1>5, CommitInv
<1>6. CASE RunCollides(h)
  BY <1>6, RunCollidesInv
<1>. QED
  BY <1>1, <1>2, <1>3, <1>4, <1>5, <1>6, Zenon DEF Place

LEMMA EnrollStep == EnrollInv /\ [Next]_vars => EnrollInv'
<1>. SUFFICES ASSUME EnrollInv, [Next]_vars PROVE EnrollInv'
  OBVIOUS
<1>1. CASE \E h \in Handlers : Place(h)
  BY <1>1, PlaceInv
<1>2. CASE \E h \in Handlers : Calendar(h)
  <2>1. PICK h \in Handlers : Calendar(h)
    BY <1>2
  <2>2. CASE \E n \in Semesters, a \in Starts \cup {0}, b \in Ends \cup {0} :
               UpdateSemester(h, n, a, b) \/ CreateSemester(h, n, a, b)
    BY <2>2, SemesterInv
  <2>3. CASE CommitSemester(h)
    BY <2>3, CommitSemesterInv
  <2>. QED
    BY <2>1, <2>2, <2>3, Zenon DEF Calendar
<1>3. CASE \E s \in Students, sec \in Sections, n \in 0..N, d \in Starts : Admit(s, sec, n, d)
  BY <1>3, AdmitInv
<1>4. CASE \E S \in (SUBSET Students) \ {{}} : \E to \in [S -> Sections], n \in 0..N, d \in Starts :
             ImportStudents(to, n, d)
  BY <1>4, ImportInv
<1>5. CASE \E n \in Semesters, ready \in BOOLEAN : SetCalendar(n, ready)
  BY <1>5, CalendarInv
<1>6. CASE \E n \in Semesters, a, c \in Starts, b, d \in Ends : CreateLevel(n, a, b, c, d)
  BY <1>6, LevelInv
<1>7. CASE UNCHANGED vars
  BY <1>7, Unmoved DEF vars
<1>. QED
  BY <1>1, <1>2, <1>3, <1>4, <1>5, <1>6, <1>7, Zenon DEF Next

\* The inductive invariant of placements: changes suit the students whatever
\* is committed before them, and a placement that has ended has a successor
\* (promotion_service.py:705-1160, promotion_router.py).
THEOREM EnrollmentInvariance == Spec => []EnrollInv
<1>. QED
  BY EnrollInit, EnrollStep, PTL DEF Spec

\* Every placement ends after it starts, whatever handlers overwrite:
\* ck_student_enrollment_dates is never run into (models.py:266).
THEOREM EnrollmentTypes == Spec => []TypeOK
<1>1. EnrollInv => TypeOK
  <2>. SUFFICES ASSUME EnrollInv PROVE TypeOK
    OBVIOUS
  <2>1. \A h \in Handlers : \A s \in DOMAIN todo[h].change : todo[h].change[s] \in Change
    BY Requests DEF EnrollInv
  <2>2. /\ sem \in [Semesters -> [start : 0..LastDay, end : 0..LastDay, ready : BOOLEAN]]
        /\ rows \in [Students -> Seq({r \in Row : r.from < r.to})]
        /\ section \in [Students -> Sections \cup {None}]
    BY Zenon DEF EnrollInv, EnrollTypes, Placement, Semester
  <2>. QED
    BY <2>1, <2>2, Zenon DEF TypeOK
<1>. QED
  BY <1>1, EnrollmentInvariance, PTL

\* From his first placement on a student is in a section on every day,
\* however commits overtake each other (promotion_service.py:705-1160).
THEOREM AlwaysPlaced == Spec => []NeverWithoutSection
<1>1. EnrollInv => NeverWithoutSection
  <2>. SUFFICES ASSUME EnrollInv, NEW s \in Students, NEW d \in Days, NEW k \in DOMAIN rows[s],
                       rows[s][k].from <= d
                PROVE  \E j \in DOMAIN rows[s] : Covers(rows[s][j], d)
    BY DEF NeverWithoutSection
  <2>1. rows[s][k].to \in Nat /\ d \in Nat
    BY Rows, Numbers DEF EnrollInv
  <2>2. CASE d < rows[s][k].to
    BY <2>2 DEF Covers
  <2>3. CASE rows[s][k].to <= d
    BY <2>3 DEF EnrollInv, Succession
  <2>. QED
    BY <2>1, <2>2, <2>3
<1>. QED
  BY <1>1, EnrollmentInvariance, PTL

\* A run says what became of its students, and no two runs promote the same
\* semester to the same day (promotion_service.py:705-798, 801-844).
THEOREM RunsTold == Spec => []RunsMatchPlacements
<1>1. EnrollInv => RunsMatchPlacements
  BY DEF EnrollInv
<1>. QED
  BY <1>1, EnrollmentInvariance, PTL

-----------------------------------------------------------------------------
\* Who was where is kept: a row a commit ends anew still covers the days it
\* covered, and on those it covers in addition its successor prevails.
LEMMA WrittenHistory ==
  ASSUME EnrollInv, NEW s \in Students, NEW d \in Days, NEW c \in Change, Suits(s, c),
         IsWritten(rows'[s], s, c),
         \A k \in DOMAIN rows'[s] \ DOMAIN rows[s] : d < rows'[s][k].from
  PROVE  Current(s, d)' = Current(s, d)
<1>1. PICK x, y : x = rows[s] /\ y = rows'[s]
  OBVIOUS
<1>2. /\ d \in Nat /\ c.until \in Nat
      /\ DOMAIN x \subseteq Nat
      /\ \A k \in DOMAIN x : x[k].from \in Nat /\ x[k].to \in Nat /\ x[k].from < x[k].to
  BY <1>1, Rows, Numbers, ChangeFields DEF EnrollInv
<1>3. /\ DOMAIN x \subseteq DOMAIN y
      /\ \A k \in DOMAIN x :
           /\ y[k].from = x[k].from
           /\ k \in c.row /\ c.until # 0 => y[k].to = c.until
           /\ ~(k \in c.row /\ c.until # 0) => y[k].to = x[k].to
      /\ \A i \in DOMAIN c.new : Len(x) + i \in DOMAIN y \ DOMAIN x /\ y[Len(x) + i] = c.new[i]
  BY <1>1 DEF IsWritten
<1>4. \A k \in DOMAIN y \ DOMAIN x : d < y[k].from
  BY <1>1
<1>5. c.until # 0 => d < c.until
  <2>1. ASSUME c.until # 0 PROVE \E i \in DOMAIN c.new : c.new[i].from = c.until
    BY <2>1 DEF Suits
  <2>. QED
    BY <2>1, <1>3, <1>4
<1>6. \A k \in DOMAIN x : x[k].from <= d /\ d < x[k].to => y[k].from <= d /\ d < y[k].to
  BY <1>2, <1>3, <1>5
<1>7. ASSUME NEW k \in DOMAIN y, y[k].from <= d, d < y[k].to
      PROVE  /\ k \in DOMAIN x
             /\ \/ x[k].from <= d /\ d < x[k].to
                \/ \E j \in DOMAIN x : x[j].from <= d /\ d < x[j].to /\ x[k].from < x[j].from
  <2>1. k \in DOMAIN x
    <3>1. CASE k \notin DOMAIN x
      <4>1. d < y[k].from
        BY <3>1, <1>4
      <4>2. c.new \in Seq(Row)
        BY ChangeFields
      <4>3. \E i \in DOMAIN c.new : k = Len(x) + i
        BY <3>1, <1>1 DEF IsWritten
      <4>4. y[k].from \in Nat
        BY <4>3, <1>3, ChangeFields, Numbers DEF Row
      <4>. QED
        BY ONLY <4>1, <4>4, <1>2, <1>7
    <3>. QED
      BY <3>1
  <2>2. x[k].from <= d
    BY <2>1, <1>3, <1>7
  <2>3. CASE x[k].to <= d
    <3>1. \E j \in DOMAIN x : x[k].to <= x[j].from /\ x[j].from <= d /\ d < x[j].to
      BY <2>1, <2>3, <1>1 DEF EnrollInv, Succession, Covers
    <3>. QED
      BY <3>1, <2>1, <1>2
  <2>. QED
    BY <2>1, <2>2, <2>3, <1>2
<1>8. /\ Current(s, d) =
           {k \in DOMAIN x :
              /\ x[k].from <= d /\ d < x[k].to
              /\ \A j \in DOMAIN x : x[j].from <= d /\ d < x[j].to =>
                   x[j].from < x[k].from \/ (x[j].from = x[k].from /\ j <= k)}
      /\ Current(s, d)' =
           {k \in DOMAIN y :
              /\ y[k].from <= d /\ d < y[k].to
              /\ \A j \in DOMAIN y : y[j].from <= d /\ d < y[j].to =>
                   y[j].from < y[k].from \/ (y[j].from = y[k].from /\ j <= k)}
  BY <1>1, Zenon DEF Current, Covers, NotAfter
<1>9. ASSUME NEW k \in Current(s, d) PROVE k \in Current(s, d)'
  <2>1. /\ k \in DOMAIN x /\ x[k].from <= d /\ d < x[k].to
        /\ \A j \in DOMAIN x : x[j].from <= d /\ d < x[j].to =>
             x[j].from < x[k].from \/ (x[j].from = x[k].from /\ j <= k)
    BY <1>8
  <2>2. k \in DOMAIN y /\ y[k].from <= d /\ d < y[k].to /\ y[k].from = x[k].from
    BY <2>1, <1>3, <1>6
  <2>3. ASSUME NEW j \in DOMAIN y, y[j].from <= d, d < y[j].to
        PROVE  y[j].from < y[k].from \/ (y[j].from = y[k].from /\ j <= k)
    <3>1. /\ j \in DOMAIN x /\ y[j].from = x[j].from
          /\ \/ x[j].from <= d /\ d < x[j].to
             \/ \E i \in DOMAIN x : x[i].from <= d /\ d < x[i].to /\ x[j].from < x[i].from
      BY <2>3, <1>3, <1>7
    <3>. QED
      BY <3>1, <2>1, <2>2, <1>2
  <2>. QED
    BY <2>2, <2>3, <1>8
<1>10. ASSUME NEW k \in Current(s, d)' PROVE k \in Current(s, d)
  <2>1. /\ k \in DOMAIN y /\ y[k].from <= d /\ d < y[k].to
        /\ \A j \in DOMAIN y : y[j].from <= d /\ d < y[j].to =>
             y[j].from < y[k].from \/ (y[j].from = y[k].from /\ j <= k)
    BY <1>8
  <2>2. /\ k \in DOMAIN x /\ y[k].from = x[k].from
        /\ \/ x[k].from <= d /\ d < x[k].to
           \/ \E j \in DOMAIN x : x[j].from <= d /\ d < x[j].to /\ x[k].from < x[j].from
    BY <2>1, <1>3, <1>7
  <2>3. \A j \in DOMAIN x : x[j].from <= d /\ d < x[j].to =>
          x[j].from < x[k].from \/ (x[j].from = x[k].from /\ j <= k)
    BY <2>1, <2>2, <1>3, <1>6
  <2>4. x[k].from <= d /\ d < x[k].to
    BY <2>2, <2>3, <1>2
  <2>. QED
    BY <2>2, <2>3, <2>4, <1>8
<1>. QED
  BY <1>9, <1>10

\* who gets rows, and when
LEMMA RowsChange ==
  ASSUME EnrollInv, [Next]_vars
  PROVE  \/ \E h \in Handlers : Commit(h)
         \/ \A s \in Students : rows'[s] = rows[s] \/ rows[s] = <<>>
<1>1. CASE \E h \in Handlers : Place(h)
  <2>1. PICK h \in Handlers : Place(h)
    BY <1>1
  <2>2. ASSUME NEW q, Ask(h, q) PROVE rows' = rows
    BY <2>2 DEF Ask
  <2>3. \/ \E n \in Semesters : ProcessDue(h, n)
        \/ \E n \in Semesters, S \in SUBSET Students, p \in [Students -> Sections] : Promote(h, n, S, p)
        \/ \E n \in Semesters, S \in SUBSET Students, p \in [Students -> Sections] : Assign(h, n, S, p)
        \/ \E s \in Students, sec \in Sections, n \in Semesters, d \in Days : Move(h, s, n, sec, d)
        \/ \E s \in Students, sec \in Sections, i \in DOMAIN runs : Release(h, i, s, sec)
        \/ Commit(h)
        \/ RunCollides(h)
    BY <2>1, Zenon DEF Place
  <2>4. Commit(h) \/ RunCollides(h) \/ \E q : Ask(h, q)
    <3>1. ASSUME NEW n \in Semesters, ProcessDue(h, n) PROVE \E q : Ask(h, q)
      BY <3>1, Zenon DEF ProcessDue
    <3>2. ASSUME NEW n, NEW S, NEW p, Promote(h, n, S, p) PROVE \E q : Ask(h, q)
      BY <3>2, Zenon DEF Promote
    <3>3. ASSUME NEW n, NEW S, NEW p, Assign(h, n, S, p) PROVE \E q : Ask(h, q)
      BY <3>3, Zenon DEF Assign
    <3>4. ASSUME NEW s, NEW sec, NEW n, NEW d, Move(h, s, n, sec, d) PROVE \E q : Ask(h, q)
      BY <3>4, Zenon DEF Move
    <3>5. ASSUME NEW s, NEW sec, NEW i, Release(h, i, s, sec) PROVE \E q : Ask(h, q)
      BY <3>5, Zenon DEF Release
    <3>. QED
      BY <2>3, <3>1, <3>2, <3>3, <3>4, <3>5, Zenon
  <2>5. RunCollides(h) => rows' = rows
    BY DEF RunCollides
  <2>. QED
    BY <2>2, <2>4, <2>5, Zenon
<1>2. CASE \E h \in Handlers : Calendar(h)
  <2>1. ASSUME NEW h, NEW q, Edit(h, q) PROVE rows' = rows
    BY <2>1 DEF Edit
  <2>2. ASSUME NEW h, NEW n, NEW a, NEW b, UpdateSemester(h, n, a, b) \/ CreateSemester(h, n, a, b)
        PROVE  \E q : Edit(h, q)
    BY <2>2, Zenon DEF UpdateSemester, CreateSemester
  <2>3. ASSUME NEW h, CommitSemester(h) PROVE rows' = rows
    BY <2>3 DEF CommitSemester
  <2>4. rows' = rows
    BY <1>2, <2>1, <2>2, <2>3, Zenon DEF Calendar
  <2>. QED
    BY <2>4
<1>3. CASE \E s \in Students, sec \in Sections, n \in 0..N, d \in Starts : Admit(s, sec, n, d)
  BY <1>3 DEF Admit, EnrollInv, EnrollTypes, Newcomers
<1>4. CASE \E S \in (SUBSET Students) \ {{}} : \E to \in [S -> Sections], n \in 0..N, d \in Starts :
             ImportStudents(to, n, d)
  BY <1>4 DEF ImportStudents, EnrollInv, Newcomers
<1>5. CASE \E n \in Semesters, ready \in BOOLEAN : SetCalendar(n, ready)
  BY <1>5 DEF SetCalendar
<1>6. CASE \E n \in Semesters, a, c \in Starts, b, d \in Ends : CreateLevel(n, a, b, c, d)
  BY <1>6 DEF CreateLevel
<1>7. CASE UNCHANGED vars
  BY <1>7 DEF vars
<1>. QED
  BY <1>1, <1>2, <1>3, <1>4, <1>5, <1>6, <1>7, Zenon DEF Next

LEMMA HistoryStep ==
  ASSUME EnrollInv, [Next]_vars, NEW s \in Students, NEW d \in Days,
         \A k \in DOMAIN rows'[s] \ DOMAIN rows[s] : d < rows'[s][k].from
  PROVE  Current(s, d)' = Current(s, d)
<1>1. CASE rows'[s] = rows[s]
  BY <1>1, Zenon DEF Current, Covers, NotAfter
<1>2. CASE rows[s] = <<>>
  <2>1. DOMAIN rows[s] = {}
    BY ONLY <1>2
  <2>2. EnrollInv'
    BY EnrollStep
  <2>3. \A k \in DOMAIN rows'[s] : d < rows'[s][k].from /\ rows'[s][k].from \in Nat /\ d \in Nat
    <3>1. \A k \in DOMAIN rows'[s] : rows'[s][k].from \in Nat
      <4>1. rows'[s] \in Seq(Placement)
        BY <2>2 DEF EnrollInv, EnrollTypes
      <4>. QED
        BY <4>1, ElementOfSeq, PlacementFields
    <3>. QED
      BY <2>1, <3>1, Numbers
  <2>4. \A k \in DOMAIN rows'[s] : ~(rows'[s][k].from <= d)
    BY ONLY <2>3
  <2>5. Current(s, d)' = {} /\ Current(s, d) = {}
    BY <2>1, <2>4 DEF Current, Covers
  <2>. QED
    BY <2>5
<1>3. CASE \E h \in Handlers : Commit(h)
  <2>1. PICK h \in Handlers : Commit(h)
    BY <1>3
  <2>2. PICK q : q = todo[h]
    OBVIOUS
  <2>3. Writes(DOMAIN q.change, q.change) /\ DOMAIN q.change \in SUBSET Known
    BY <2>1, <2>2, CommitWrites
  <2>4. CASE s \in DOMAIN q.change
    <3>1. PICK c : c = q.change[s]
      OBVIOUS
    <3>2. c \in Change /\ Suits(s, c) /\ rows'[s] = Applied(s, c)
      BY <2>3, <2>4, <3>1 DEF Writes
    <3>3. IsWritten(rows'[s], s, c)
      BY <3>2, WrittenRows DEF EnrollInv
    <3>. QED
      BY <3>2, <3>3, WrittenHistory
  <2>5. CASE s \notin DOMAIN q.change
    <3>1. rows'[s] = rows[s]
      BY <2>3, <2>5 DEF Writes
    <3>. QED
      BY <3>1, <1>1
  <2>. QED
    BY <2>4, <2>5
<1>. QED
  BY <1>1, <1>2, <1>3, RowsChange

\* Where a student was is never rewritten: a step changes who is where only
\* from the first day of a placement it adds (models.py:262, promotion_service.py).
THEOREM HistoryStays == Spec => HistoryKept
<1>1. EnrollInv /\ [Next]_vars =>
        [\A s \in Students, d \in Days :
           (\A k \in DOMAIN rows'[s] \ DOMAIN rows[s] : d < rows'[s][k].from)
             => Current(s, d)' = Current(s, d)]_vars
  BY HistoryStep
<1>. QED
  BY <1>1, EnrollmentInvariance, PTL DEF Spec, HistoryKept

-----------------------------------------------------------------------------
(***************************************************************************)
(* Courses.  A request that nobody has overtaken finds what it has read    *)
(* (Holds), because a commit changes nothing but the rows it concerns      *)
(* (Footprint) and marks every request about one of them.  What a marked   *)
(* request commits has strayed; an entry that has not (Firm) still         *)
(* resolves to its offering.                                               *)
(***************************************************************************)
Operations == {"section", "move", "offering", "update", "removal", "entry", "merge", "change"}

CourseTypes ==
  /\ home \in [Sections -> Batches \cup {None}]
  /\ offering \in [Offerings -> C!Offering \cup {None}]
  /\ routine \in [Routines -> C!Entry \cup {None}]
  /\ member \subseteq Offerings \X Sections
  /\ \A o \in Offerings, s \in Sections :
       <<o, s>> \in member => offering[o] # None /\ home[s] # None
  /\ \A o, p \in Offerings :
       /\ offering[o] # None /\ offering[p] # None /\ offering[o].batch = offering[p].batch
       => o = p

\* what a request carries, by operation
Formed(q) ==
  /\ q.op \in Operations \cup {"none"}
  /\ q.offerings \subseteq Offerings /\ q.sections \subseteq Sections
  /\ q.op = "none" => q = C!Free
  /\ q.op # "none" => q = [op |-> q.op, id |-> q.id, offerings |-> q.offerings,
                           sections |-> q.sections, stale |-> q.stale, data |-> q.data]
  /\ q.op = "section" => q.id \in Sections /\ q.sections = {q.id} /\ q.data \in Batches
  /\ q.op = "move" => /\ q.id \in Sections /\ q.sections = {q.id} /\ q.data.to \in Batches
                      /\ q.data.add \subseteq q.offerings \X {q.id}
                      /\ q.data.drop \subseteq q.offerings \X {q.id}
  /\ q.op = "offering" => q.id \in Offerings /\ q.offerings = {q.id} /\ q.data \in C!Offering
  /\ q.op = "update" => /\ q.id \in Offerings /\ q.offerings = {q.id}
                        /\ q.data.row \in C!Offering /\ q.data.found \in C!Offering
                        /\ q.data.add \subseteq {q.id} \X q.sections
                        /\ q.data.drop \subseteq {q.id} \X q.sections
  /\ q.op = "removal" => q.id \in Offerings /\ q.offerings = {q.id}
  /\ q.op \in {"entry", "merge", "change"} =>
       q.id \in Routines /\ q.sections # {} /\ \E o \in Offerings : q.offerings = {o}
  /\ q.op = "change" => q.data \in C!Entry

Firm == {e \in Routines : routine[e] # None /\ e \notin strayed}

\* the memberships a request leaves
Left(q) == (member \cup q.data.add) \ q.data.drop

\* what a request has read is so
Holds(q) ==
  /\ q.op = "section" =>
       /\ home[q.id] = None
       /\ \A o \in q.offerings : offering[o].batch = q.data
  /\ q.op = "move" =>
       /\ home[q.id] = q.data.from
       /\ \A o \in Offerings : <<o, q.id>> \in member => o \in q.offerings
       /\ \A o \in Offerings : <<o, q.id>> \in Left(q) => offering[o].batch = q.data.to
       /\ \A e \in Firm : q.id \in routine[e].sections => <<routine[e].offering, q.id>> \in Left(q)
  /\ q.op = "offering" =>
       /\ offering[q.id] = None
       /\ \A s \in q.sections : home[s] = q.data.batch
  /\ q.op = "update" =>
       /\ offering[q.id] = q.data.found
       /\ \A s \in Sections : <<q.id, s>> \in member => s \in q.sections
       /\ \A s \in Sections : <<q.id, s>> \in Left(q) => home[s] = q.data.row.batch
       /\ \A e \in Firm : routine[e].offering = q.id =>
            \A s \in routine[e].sections : <<q.id, s>> \in Left(q)
  /\ q.op = "removal" => \A e \in Firm : routine[e].offering # q.id
  /\ q.op \in {"entry", "merge", "change"} =>
       \A o \in q.offerings : offering[o] # None /\ \A s \in q.sections :
         <<o, s>> \in member /\ home[s] = offering[o].batch
  /\ q.op = "merge" => routine[q.id] = None \/ routine[q.id].offering \in q.offerings
  /\ q.op = "change" =>
       \/ routine[q.id] = None
       \/ /\ routine[q.id].sections = q.data.sections
          /\ q.data.offering \in q.offerings => routine[q.id].offering = q.data.offering

WorkInv ==
  /\ work = [r \in Handlers |-> work[r]]
  /\ \A r \in Handlers : \A q : work[r] = q => Formed(q) /\ (~q.stale => Holds(q))

InBatch ==
  \A o \in Offerings, s \in Sections :
    <<o, s>> \in member => o \in strayed \/ home[s] = offering[o].batch

Within ==
  \A e \in Firm :
    /\ routine[e].offering \in Offerings /\ offering[routine[e].offering] # None
    /\ \A s \in routine[e].sections :
         <<routine[e].offering, s>> \in member /\ home[s] = offering[routine[e].offering].batch

CoursesInv == CourseTypes /\ WorkInv /\ InBatch /\ Within

\* What a step about row id, offerings O and sections S may change.
Footprint(id, O, S) ==
  /\ \A o \in Offerings \ O :
       /\ offering'[o] = offering[o]
       /\ \A s \in Sections : <<o, s>> \in member' <=> <<o, s>> \in member
  /\ \A s \in Sections \ S :
       /\ home'[s] = home[s]
       /\ \A o \in Offerings : <<o, s>> \in member' => <<o, s>> \in member
  /\ \A e \in Firm' :
       /\ routine'[e].offering \notin O => e \in Firm /\ routine'[e] = routine[e]
       /\ \A s \in routine'[e].sections \ S :
            /\ e \in Firm /\ s \in routine[e].sections
            /\ routine'[e].offering = routine[e].offering
  /\ \A e \in Routines :
       \/ e = id \/ routine'[e] = None \/ routine'[e] = routine[e]
       \/ /\ routine[e] # None /\ routine'[e].sections = routine[e].sections
          /\ routine[e].offering \in O

-----------------------------------------------------------------------------
LEMMA NoRow ==
  /\ None \notin Batches /\ None \notin Sections /\ None \notin Offerings /\ None \notin Routines
  /\ \A x \in C!Offering : x # None /\ x.batch \in Batches
  /\ \A x \in C!Entry : /\ x # None /\ x.offering \in Offerings \cup {None}
                        /\ x.sections \subseteq Sections /\ x.sections # {}
  /\ \A o \in Offerings : o \notin Routines
<1>1. /\ None \notin Batches /\ None \notin Sections /\ None \notin Offerings /\ None \notin Routines
      /\ \A o \in Offerings : o \notin Routines
  BY CoursesOfAcademic DEF C!CoursesAssumption
<1>2. None \notin C!Offering /\ None \notin C!Entry
  BY CoursesOfAcademic, Zenon DEF C!CoursesAssumption, C!Offering, C!Entry
<1>3. ASSUME NEW x \in C!Offering PROVE x.batch \in Batches
  BY Zenon DEF C!Offering
<1>4. ASSUME NEW x \in C!Entry
      PROVE  /\ x.offering \in Offerings \cup {None}
             /\ x.sections \subseteq Sections /\ x.sections # {}
  <2>1. x.offering \in Offerings \cup {None} /\ x.sections \in (SUBSET Sections) \ {{}}
    <3>1. PICK F, B : F = Offerings \cup {None} /\ B = (SUBSET Sections) \ {{}}
      OBVIOUS
    <3>2. x \in [offering : F, sections : B]
      BY <3>1, Zenon DEF C!Entry
    <3>3. x.offering \in F /\ x.sections \in B
      BY ONLY <3>2
    <3>. QED
      BY <3>1, <3>3
  <2>. QED
    BY <2>1
<1>. QED
  BY <1>1, <1>2, <1>3, <1>4

LEMMA OfferingRow ==
  ASSUME CourseTypes, NEW o \in Offerings, offering[o] # None
  PROVE  offering[o] \in C!Offering /\ offering[o].batch \in Batches
BY NoRow DEF CourseTypes

LEMMA EntryRow ==
  ASSUME CourseTypes, NEW e \in Routines, routine[e] # None
  PROVE  /\ routine[e] \in C!Entry /\ routine[e].offering \in Offerings \cup {None}
         /\ routine[e].sections \subseteq Sections /\ routine[e].sections # {}
BY NoRow DEF CourseTypes

LEMMA InvShows ==
  ASSUME CoursesInv
  PROVE  C!TypeOK /\ C!MembersInBatch /\ C!EntryWithinOffering
<1>1. \A p \in member : \E o \in Offerings, s \in Sections : p = <<o, s>>
  BY DEF CoursesInv, CourseTypes
<1>2. C!TypeOK
  <2>1. \A p \in member : offering[p[1]] # None /\ home[p[2]] # None
    BY <1>1 DEF CoursesInv, CourseTypes
  <2>2. \A o, p \in C!Live(offering) : offering[o].batch = offering[p].batch => o = p
    BY DEF CoursesInv, CourseTypes, C!Live
  <2>. QED
    BY <2>1, <2>2, Zenon DEF CoursesInv, CourseTypes, C!TypeOK
<1>3. C!MembersInBatch
  BY <1>1 DEF CoursesInv, InBatch, C!MembersInBatch
<1>4. C!EntryWithinOffering
  <2>1. ASSUME NEW e \in C!Live(routine), e \notin strayed
        PROVE  /\ routine[e].offering # None
               /\ routine[e].sections \subseteq C!Members(routine[e].offering)
    <3>1. e \in Routines /\ routine[e] # None /\ e \in Firm
      BY <2>1 DEF CoursesInv, CourseTypes, C!Live, Firm
    <3>2. /\ routine[e].offering \in Offerings
          /\ \A s \in routine[e].sections : <<routine[e].offering, s>> \in member
      BY <3>1 DEF CoursesInv, Within
    <3>3. routine[e].sections \subseteq Sections
      BY <3>1, EntryRow DEF CoursesInv
    <3>. QED
      BY <3>2, <3>3, NoRow DEF C!Members
  <2>. QED
    BY <2>1 DEF C!EntryWithinOffering
<1>. QED
  BY <1>2, <1>3, <1>4

LEMMA FreeFits == Formed(C!Free) /\ Holds(C!Free) /\ C!Free.op = "none"
BY DEF C!Free, Formed, Holds, Operations

LEMMA StaleCopy ==
  ASSUME NEW q, Formed(q), q.op # "none", NEW x, x = [q EXCEPT !.stale = TRUE]
  PROVE  Formed(x) /\ x.stale /\ x.op # "none"
<1>1. PICK op, id, O, S, stale, data :
        q = [op |-> op, id |-> id, offerings |-> O, sections |-> S, stale |-> stale, data |-> data]
  BY Zenon DEF Formed
<1>2. x = [op |-> op, id |-> id, offerings |-> O, sections |-> S, stale |-> TRUE, data |-> data]
  BY ONLY <1>1, x = [q EXCEPT !.stale = TRUE]
<1>3. /\ x.op = q.op /\ x.id = q.id /\ x.offerings = q.offerings /\ x.sections = q.sections
      /\ x.data = q.data
      /\ x = [op |-> x.op, id |-> x.id, offerings |-> x.offerings, sections |-> x.sections,
              stale |-> x.stale, data |-> x.data]
  BY ONLY <1>1, <1>2
<1>4. x.stale
  BY ONLY <1>2
<1>5. Formed(x)
  BY <1>3, Zenon DEF Formed
<1>. QED
  BY <1>3, <1>4, <1>5

\* What a request has read is not disturbed by a step about other rows.
LEMMA HoldsOn ==
  ASSUME CourseTypes, NEW id, NEW O, NEW S, Footprint(id, O, S),
         NEW q, Formed(q), Holds(q), ~C!Meets(q, id, O, S)
  PROVE  Holds(q)'
<1>1. q.id # id /\ (\A o \in q.offerings : o \notin O) /\ (\A s \in q.sections : s \notin S)
  BY DEF C!Meets
<1>2. /\ \A o \in q.offerings :
           /\ o \in Offerings /\ offering'[o] = offering[o]
           /\ \A s \in Sections : <<o, s>> \in member' <=> <<o, s>> \in member
      /\ \A s \in q.sections :
           /\ s \in Sections /\ home'[s] = home[s]
           /\ \A o \in Offerings : <<o, s>> \in member' => <<o, s>> \in member
  BY <1>1 DEF Footprint, Formed
<1>3. /\ \A e \in Firm' : routine'[e].offering \in q.offerings => e \in Firm /\ routine'[e] = routine[e]
      /\ \A e \in Firm' : \A s \in routine'[e].sections \cap q.sections :
           /\ e \in Firm /\ s \in routine[e].sections /\ routine'[e].offering = routine[e].offering
  BY <1>1 DEF Footprint
<1>4. q.id \in Routines =>
        \/ routine'[q.id] = None \/ routine'[q.id] = routine[q.id]
        \/ /\ routine[q.id] # None /\ routine'[q.id].sections = routine[q.id].sections
           /\ routine[q.id].offering \notin q.offerings
  BY <1>1 DEF Footprint
<1>5. ASSUME q.op = "section"
      PROVE  home'[q.id] = None /\ \A o \in q.offerings : offering'[o].batch = q.data
  BY <1>2, <1>5 DEF Holds, Formed
<1>6. ASSUME q.op = "move"
      PROVE  /\ home'[q.id] = q.data.from
             /\ \A o \in Offerings : <<o, q.id>> \in member' => o \in q.offerings
             /\ \A o \in Offerings : <<o, q.id>> \in Left(q)' => offering'[o].batch = q.data.to
             /\ \A e \in Firm' : q.id \in routine'[e].sections => <<routine'[e].offering, q.id>> \in Left(q)'
  <2>1. PICK s, add, drop : s = q.id /\ add = q.data.add /\ drop = q.data.drop
    OBVIOUS
  <2>2. s \in q.sections /\ s \in Sections /\ add \subseteq q.offerings \X {s}
    BY <1>6, <2>1, Zenon DEF Formed
  <2>3. /\ home[s] = q.data.from
        /\ \A o \in Offerings : <<o, s>> \in member => o \in q.offerings
        /\ \A o \in Offerings : <<o, s>> \in (member \cup add) \ drop => offering[o].batch = q.data.to
        /\ \A e \in Firm : s \in routine[e].sections => <<routine[e].offering, s>> \in (member \cup add) \ drop
    BY <1>6, <2>1, Zenon DEF Holds, Left
  <2>4. home'[s] = q.data.from /\ \A o \in Offerings : <<o, s>> \in member' => o \in q.offerings
    BY <1>2, <2>2, <2>3
  <2>5. \A o \in Offerings : <<o, s>> \in member' <=> <<o, s>> \in member
    BY <1>2, <2>2, <2>3
  <2>6. \A o \in Offerings : <<o, s>> \in (member' \cup add) \ drop => offering'[o].batch = q.data.to
    <3>1. \A o \in Offerings : <<o, s>> \in add => o \in q.offerings
      BY <2>2
    <3>. QED
      BY <3>1, <1>2, <2>3, <2>5
  <2>7. ASSUME NEW e \in Firm', s \in routine'[e].sections
        PROVE  <<routine'[e].offering, s>> \in (member' \cup add) \ drop
    <3>1. /\ e \in Firm /\ s \in routine[e].sections /\ routine'[e].offering = routine[e].offering
      BY <1>3, <2>2, <2>7
    <3>2. <<routine[e].offering, s>> \in (member \cup add) \ drop
      BY <2>3, <3>1
    <3>3. routine[e].offering \in Offerings
      BY <2>2, <3>2 DEF CourseTypes, Formed
    <3>. QED
      BY <2>5, <3>1, <3>2, <3>3
  <2>. QED
    BY <2>1, <2>4, <2>6, <2>7, Zenon DEF Left
<1>7. ASSUME q.op = "offering"
      PROVE  offering'[q.id] = None /\ \A s \in q.sections : home'[s] = q.data.batch
  BY <1>2, <1>7 DEF Holds, Formed
<1>8. ASSUME q.op = "update"
      PROVE  /\ offering'[q.id] = q.data.found
             /\ \A s \in Sections : <<q.id, s>> \in member' => s \in q.sections
             /\ \A s \in Sections : <<q.id, s>> \in Left(q)' => home'[s] = q.data.row.batch
             /\ \A e \in Firm' : routine'[e].offering = q.id =>
                  \A s \in routine'[e].sections : <<q.id, s>> \in Left(q)'
  <2>1. PICK o, add, drop : o = q.id /\ add = q.data.add /\ drop = q.data.drop
    OBVIOUS
  <2>2. o \in q.offerings /\ o \in Offerings /\ add \subseteq {o} \X q.sections
        /\ q.sections \subseteq Sections
    BY <1>8, <2>1 DEF Formed
  <2>3. /\ offering[o] = q.data.found
        /\ \A s \in Sections : <<o, s>> \in member => s \in q.sections
        /\ \A s \in Sections : <<o, s>> \in (member \cup add) \ drop => home[s] = q.data.row.batch
        /\ \A e \in Firm : routine[e].offering = o =>
             \A s \in routine[e].sections : <<o, s>> \in (member \cup add) \ drop
    BY <1>8, <2>1, Zenon DEF Holds, Left
  <2>4. offering'[o] = q.data.found /\ \A s \in Sections : <<o, s>> \in member' <=> <<o, s>> \in member
    BY <1>2, <2>2, <2>3
  <2>5. \A s \in Sections : <<o, s>> \in (member' \cup add) \ drop => home'[s] = q.data.row.batch
    <3>1. \A s \in Sections : <<o, s>> \in add => s \in q.sections
      BY <2>2
    <3>. QED
      BY <3>1, <1>2, <2>3, <2>4
  <2>6. ASSUME NEW e \in Firm', routine'[e].offering = o, NEW s \in routine'[e].sections
        PROVE  <<o, s>> \in (member' \cup add) \ drop
    <3>1. e \in Firm /\ routine'[e] = routine[e]
      BY <1>3, <2>2, <2>6
    <3>2. <<o, s>> \in (member \cup add) \ drop
      BY <2>3, <2>6, <3>1
    <3>3. s \in Sections
      BY <2>2, <3>2 DEF CourseTypes
    <3>. QED
      BY <2>4, <3>2, <3>3
  <2>. QED
    BY <2>1, <2>3, <2>4, <2>5, <2>6, Zenon DEF Left
<1>9. ASSUME q.op = "removal" PROVE \A e \in Firm' : routine'[e].offering # q.id
  <2>1. q.id \in q.offerings
    BY <1>9 DEF Formed
  <2>2. \A e \in Firm : routine[e].offering # q.id
    BY <1>9, Zenon DEF Holds
  <2>. QED
    BY <1>3, <2>1, <2>2
<1>10. ASSUME q.op \in {"entry", "merge", "change"}
       PROVE  \A o \in q.offerings : offering'[o] # None /\ \A s \in q.sections :
                <<o, s>> \in member' /\ home'[s] = offering'[o].batch
  <2>1. \A o \in q.offerings : offering[o] # None /\ \A s \in q.sections :
                <<o, s>> \in member /\ home[s] = offering[o].batch
    BY <1>10, Zenon DEF Holds
  <2>. QED
    BY <1>2, <2>1
<1>11. ASSUME q.op = "merge" PROVE routine'[q.id] = None \/ routine'[q.id].offering \in q.offerings
  <2>1. q.id \in Routines
    BY <1>11 DEF Formed
  <2>2. routine[q.id] = None \/ routine[q.id].offering \in q.offerings
    BY <1>11, Zenon DEF Holds
  <2>. QED
    BY <1>4, <2>1, <2>2
<1>12. ASSUME q.op = "change"
       PROVE  \/ routine'[q.id] = None
              \/ /\ routine'[q.id].sections = q.data.sections
                 /\ q.data.offering \in q.offerings => routine'[q.id].offering = q.data.offering
  <2>1. q.id \in Routines
    BY <1>12 DEF Formed
  <2>2. \/ routine[q.id] = None
        \/ /\ routine[q.id].sections = q.data.sections
           /\ q.data.offering \in q.offerings => routine[q.id].offering = q.data.offering
    BY <1>12, Zenon DEF Holds
  <2>. QED
    BY <1>4, <2>1, <2>2
<1>. QED
  BY <1>5, <1>6, <1>7, <1>8, <1>9, <1>10, <1>11, <1>12, Zenon DEF Holds

\* how a step about these rows leaves the requests
Marks(id, O, S) ==
  /\ work' = [k \in Handlers |-> work'[k]]
  /\ \A k \in Handlers :
       \/ work'[k] = C!Free
       \/ work[k].op # "none" /\ work'[k] = [work[k] EXCEPT !.stale = TRUE]
       \/ work'[k] = work[k] /\ ~C!Meets(work[k], id, O, S)

LEMMA MarkedWork ==
  ASSUME CourseTypes, WorkInv, NEW id, NEW O, NEW S, Footprint(id, O, S), Marks(id, O, S)
  PROVE  WorkInv'
<1>1. ASSUME NEW k \in Handlers, NEW x, x = work'[k]
      PROVE  Formed(x) /\ (~x.stale => Holds(x)')
  <2>1. PICK q : q = work[k]
    OBVIOUS
  <2>2. Formed(q) /\ (~q.stale => Holds(q))
    BY <2>1, Zenon DEF WorkInv
  <2>3. CASE x = C!Free
    <3>1. Holds(C!Free)'
      BY DEF Holds, C!Free
    <3>2. Formed(x) /\ Holds(x)'
      BY <2>3, <3>1, FreeFits, Zenon
    <3>. QED
      BY <3>2, Zenon
  <2>4. CASE q.op # "none" /\ x = [q EXCEPT !.stale = TRUE]
    <3>1. Formed(x) /\ x.stale
      BY <2>2, <2>4, StaleCopy
    <3>. QED
      BY <3>1, Zenon
  <2>5. CASE x = q /\ ~C!Meets(q, id, O, S)
    <3>1. ~q.stale => Holds(q)'
      BY <2>2, <2>5, HoldsOn, Zenon
    <3>. QED
      BY <2>2, <2>5, <3>1, Zenon
  <2>6. \/ x = C!Free
        \/ q.op # "none" /\ x = [q EXCEPT !.stale = TRUE]
        \/ x = q /\ ~C!Meets(q, id, O, S)
    BY <1>1, <2>1, Zenon DEF Marks
  <2>. QED
    BY <2>3, <2>4, <2>5, <2>6, Zenon
<1>2. work' = [k \in Handlers |-> work'[k]]
  BY Zenon DEF Marks
<1>. QED
  BY <1>1, <1>2, Zenon DEF WorkInv

\* What a commit does to the requests and to the marks of what strays.
LEMMA CommitMarks ==
  ASSUME CourseTypes, WorkInv, NEW r \in Handlers, NEW q, q = work[r], q.op # "none", NEW kept,
         C!Commit(r, kept)
  PROVE  /\ Formed(q) /\ (~q.stale => Holds(q))
         /\ Marks(q.id, q.offerings, q.sections)
<1>1. Formed(q) /\ (~q.stale => Holds(q))
  BY Zenon DEF WorkInv
<1>2. q.id # None
  BY <1>1, NoRow DEF Formed, Operations
<1>3. work' = [k \in Handlers |->
             IF k = r THEN C!Free
             ELSE IF C!Meets(work[k], q.id, q.offerings, q.sections)
                  THEN [work[k] EXCEPT !.stale = TRUE] ELSE work[k]]
  BY Zenon DEF C!Commit, C!Done
<1>4. ASSUME NEW k \in Handlers, work[k].op = "none"
      PROVE  ~C!Meets(work[k], q.id, q.offerings, q.sections)
  <2>1. work[k] = C!Free
    BY <1>4, Zenon DEF WorkInv, Formed
  <2>. QED
    BY <1>2, <2>1 DEF C!Free, C!Meets
<1>5. Marks(q.id, q.offerings, q.sections)
  BY <1>3, <1>4, Zenon DEF Marks
<1>. QED
  BY <1>1, <1>5

LEMMA CommitStrays ==
  ASSUME CourseTypes, NEW r \in Handlers, NEW q, q = work[r], NEW kept, C!Commit(r, kept)
  PROVE  /\ \A x \in kept : x \in strayed'
         /\ ~q.stale => strayed' = kept
         /\ q.stale =>
              /\ q.offerings \subseteq strayed'
              /\ \A o \in Offerings, s \in q.sections : <<o, s>> \in member => o \in strayed'
              /\ \A e \in Routines : /\ routine[e] # None
                                     /\ \/ routine[e].offering \in q.offerings
                                        \/ routine[e].sections \cap q.sections # {}
                                     => e \in strayed'
              /\ q.id \in Routines => q.id \in strayed'
<1>1. PICK M, E : /\ M = {p[1] : p \in {m \in member : m[2] \in q.sections}}
                  /\ E = {e \in C!Live(routine) : routine[e].offering \in q.offerings
                                                  \/ routine[e].sections \cap q.sections # {}}
  OBVIOUS
<1>2. strayed' = IF ~q.stale THEN kept ELSE kept \cup q.offerings \cup M \cup E \cup ({q.id} \cap Routines)
  BY <1>1, Zenon DEF C!Commit, C!Strays
<1>3. \A o \in Offerings, s \in q.sections : <<o, s>> \in member => o \in M
  <2>1. ASSUME NEW o \in Offerings, NEW s \in q.sections, <<o, s>> \in member PROVE o \in M
    <3>1. PICK p : p = <<o, s>>
      OBVIOUS
    <3>2. p \in member /\ p[1] = o /\ p[2] \in q.sections
      BY <2>1, <3>1
    <3>. QED
      BY <1>1, <3>2
  <2>. QED
    BY <2>1
<1>4. \A e \in Routines : /\ routine[e] # None
                          /\ routine[e].offering \in q.offerings \/ routine[e].sections \cap q.sections # {}
                          => e \in E
  BY <1>1 DEF CourseTypes, C!Live
<1>5. CASE ~q.stale
  BY <1>2, <1>5, Zenon
<1>6. CASE q.stale
  <2>1. strayed' = kept \cup q.offerings \cup M \cup E \cup ({q.id} \cap Routines)
    BY <1>2, <1>6, Zenon
  <2>. QED
    BY <2>1, <1>3, <1>4, <1>6
<1>. QED
  BY <1>5, <1>6, Zenon

\* A commit keeps the invariant if it keeps the tables in order.
LEMMA Committed ==
  ASSUME CoursesInv, NEW r \in Handlers, NEW q, q = work[r], q.op # "none", NEW kept,
         C!Commit(r, kept), Footprint(q.id, q.offerings, q.sections),
         CourseTypes', InBatch', Within'
  PROVE  CoursesInv'
<1>1. CourseTypes /\ WorkInv
  BY DEF CoursesInv
<1>2. WorkInv'
  BY <1>1, CommitMarks, MarkedWork
<1>. QED
  BY <1>2 DEF CoursesInv

\* what the commit of a request starts from
LEMMA Committing ==
  ASSUME CoursesInv, NEW r \in Handlers, NEW q, q = work[r], q.op # "none", NEW kept,
         C!Commit(r, kept)
  PROVE  /\ CourseTypes /\ InBatch /\ Within
         /\ Formed(q) /\ (~q.stale => Holds(q))
         /\ \A x \in kept : x \in strayed'
         /\ ~q.stale => strayed' = kept
         /\ q.stale =>
              /\ q.offerings \subseteq strayed'
              /\ \A o \in Offerings, s \in q.sections : <<o, s>> \in member => o \in strayed'
              /\ \A e \in Routines : /\ routine[e] # None
                                     /\ \/ routine[e].offering \in q.offerings
                                        \/ routine[e].sections \cap q.sections # {}
                                     => e \in strayed'
              /\ q.id \in Routines => q.id \in strayed'
<1>1. CourseTypes /\ WorkInv /\ InBatch /\ Within
  BY DEF CoursesInv
<1>2. Formed(q) /\ (~q.stale => Holds(q))
  BY <1>1, CommitMarks, Zenon
<1>. QED
  BY <1>1, <1>2, CommitStrays, Zenon

\* an entry that is firm after a step that leaves the entries alone was so before
LEMMA StillFirm ==
  ASSUME routine' = routine, \A x \in strayed : x \in strayed'
  PROVE  \A e \in Firm' : e \in Firm /\ e \in Routines /\ routine[e] # None /\ e \notin strayed'
BY DEF Firm

LEMMA CreateSectionInv ==
  ASSUME CoursesInv, NEW r \in Handlers, C!CreateSection(r)
  PROVE  CoursesInv'
<1>1. PICK q : q = work[r]
  OBVIOUS
<1>2. PICK s, b, O : s = q.id /\ b = q.data /\ O = q.offerings
  OBVIOUS
<1>3. /\ q.op = "section" /\ O \subseteq C!Live(offering)
      /\ home' = [home EXCEPT ![s] = b] /\ member' = member \cup (O \X {s})
      /\ C!Commit(r, strayed) /\ offering' = offering /\ routine' = routine
  BY <1>1, <1>2, Zenon DEF C!CreateSection
<1>4. q.op # "none"
  BY <1>3
<1>5. /\ CourseTypes /\ InBatch /\ Within
      /\ Formed(q) /\ (~q.stale => Holds(q))
      /\ \A x \in strayed : x \in strayed'
      /\ q.stale =>
           /\ O \subseteq strayed'
           /\ \A o \in Offerings, t \in q.sections : <<o, t>> \in member => o \in strayed'
           /\ \A e \in Routines : routine[e] # None /\ routine[e].sections \cap q.sections # {}
                                  => e \in strayed'
  BY <1>1, <1>2, <1>3, <1>4, Committing, Zenon
<1>6. s \in Sections /\ q.sections = {s} /\ b \in Batches /\ O \subseteq Offerings /\ b # None
  BY <1>2, <1>3, <1>5, NoRow DEF Formed
<1>7. ~q.stale => home[s] = None /\ \A o \in O : offering[o].batch = b
  BY <1>2, <1>3, <1>5, Zenon DEF Holds
<1>8. /\ home' \in [Sections -> Batches \cup {None}] /\ home'[s] = b
      /\ \A t \in Sections \ {s} : home'[t] = home[t]
  BY <1>3, <1>5, <1>6 DEF CourseTypes
<1>9. /\ \A o \in Offerings : <<o, s>> \in member' <=> <<o, s>> \in member \/ o \in O
      /\ \A o \in Offerings, t \in Sections \ {s} : <<o, t>> \in member' <=> <<o, t>> \in member
  BY <1>3
<1>10. CourseTypes'
  <2>1. member' \subseteq Offerings \X Sections
    BY <1>3, <1>5, <1>6 DEF CourseTypes
  <2>2. \A o \in O : offering[o] # None
    BY <1>3 DEF C!Live
  <2>3. \A o \in Offerings, t \in Sections : <<o, t>> \in member' => offering[o] # None /\ home'[t] # None
    BY <1>5, <1>6, <1>8, <1>9, <2>2 DEF CourseTypes
  <2>. QED
    BY <1>3, <1>5, <1>8, <2>1, <2>3 DEF CourseTypes
<1>11. \A e \in Firm' : e \in Firm /\ e \in Routines /\ routine[e] # None /\ e \notin strayed'
  BY <1>3, <1>5, StillFirm
<1>12. Footprint(q.id, q.offerings, q.sections)
  BY <1>2, <1>3, <1>6, <1>8, <1>9, <1>11 DEF Footprint
<1>13. InBatch'
  <2>1. ASSUME NEW o \in Offerings, NEW t \in Sections, <<o, t>> \in member'
        PROVE  o \in strayed' \/ home'[t] = offering'[o].batch
    <3>1. CASE t # s
      BY <1>3, <1>5, <1>8, <1>9, <2>1, <3>1 DEF InBatch
    <3>2. CASE t = s /\ q.stale
      BY <1>5, <1>6, <1>9, <2>1, <3>2
    <3>3. CASE t = s /\ ~q.stale
      <4>1. <<o, s>> \notin member
        BY <1>5, <1>6, <1>7, <3>3 DEF CourseTypes
      <4>. QED
        BY <1>3, <1>7, <1>8, <1>9, <2>1, <3>3, <4>1
    <3>. QED
      BY <3>1, <3>2, <3>3, Zenon
  <2>. QED
    BY <2>1 DEF InBatch
<1>14. Within'
  <2>1. ASSUME NEW e \in Firm'
        PROVE  /\ routine[e].offering \in Offerings /\ offering[routine[e].offering] # None
               /\ \A t \in routine[e].sections :
                    <<routine[e].offering, t>> \in member'
                    /\ home'[t] = offering[routine[e].offering].batch
    <3>1. e \in Firm /\ e \in Routines /\ routine[e] # None /\ e \notin strayed'
      BY <1>11
    <3>2. /\ routine[e].offering \in Offerings /\ offering[routine[e].offering] # None
          /\ \A t \in routine[e].sections :
               <<routine[e].offering, t>> \in member
               /\ home[t] = offering[routine[e].offering].batch
      BY <1>5, <3>1 DEF Within
    <3>3. offering[routine[e].offering].batch # None
      BY <1>5, <3>2, OfferingRow, NoRow
    <3>4. s \notin routine[e].sections
      <4>1. CASE q.stale
        BY <1>5, <1>6, <3>1, <4>1
      <4>2. CASE ~q.stale
        BY <1>7, <3>2, <3>3, <4>2
      <4>. QED
        BY <4>1, <4>2, Zenon
    <3>5. routine[e].sections \subseteq Sections
      BY <1>5, <3>1, EntryRow
    <3>. QED
      BY <1>3, <1>8, <3>2, <3>4, <3>5
  <2>. QED
    BY <1>3, <2>1 DEF Within
<1>. QED
  BY <1>1, <1>3, <1>4, <1>10, <1>12, <1>13, <1>14, Committed

LEMMA MoveSectionInv ==
  ASSUME CoursesInv, NEW r \in Handlers, C!MoveSection(r)
  PROVE  CoursesInv'
<1>1. PICK q : q = work[r]
  OBVIOUS
<1>2. PICK s, from, to, add, drop, O :
        s = q.id /\ from = q.data.from /\ to = q.data.to /\ add = q.data.add /\ drop = q.data.drop
        /\ O = q.offerings
  OBVIOUS
<1>3. /\ q.op = "move" /\ home[s] # None
      /\ home' = [home EXCEPT ![s] = IF to = from THEN home[s] ELSE to]
      /\ member' = (member \cup add) \ drop
      /\ \A p \in add : offering[p[1]] # None
      /\ C!Commit(r, strayed) /\ offering' = offering /\ routine' = routine
  BY <1>1, <1>2, Zenon DEF C!MoveSection, C!Relink, C!ForeignKeys
<1>4. q.op # "none"
  BY <1>3
<1>5. /\ CourseTypes /\ InBatch /\ Within
      /\ Formed(q) /\ (~q.stale => Holds(q))
      /\ \A x \in strayed : x \in strayed'
      /\ q.stale =>
           /\ O \subseteq strayed'
           /\ \A o \in Offerings, t \in q.sections : <<o, t>> \in member => o \in strayed'
           /\ \A e \in Routines : routine[e] # None /\ routine[e].sections \cap q.sections # {}
                                  => e \in strayed'
  BY <1>1, <1>2, <1>3, <1>4, Committing, Zenon
<1>6. /\ s \in Sections /\ q.sections = {s} /\ to \in Batches /\ O \subseteq Offerings /\ to # None
      /\ add \subseteq O \X {s} /\ drop \subseteq O \X {s}
  <2>1. /\ s \in Sections /\ q.sections = {s} /\ to \in Batches /\ O \subseteq Offerings
        /\ add \subseteq O \X {s} /\ drop \subseteq O \X {s}
    BY <1>2, <1>3, <1>5, Zenon DEF Formed
  <2>. QED
    BY <2>1, NoRow
<1>7. ~q.stale => /\ home[s] = from
                  /\ \A o \in Offerings : <<o, s>> \in member' => offering[o].batch = to
                  /\ \A e \in Firm : s \in routine[e].sections => <<routine[e].offering, s>> \in member'
  BY <1>2, <1>3, <1>5, Zenon DEF Holds, Left
<1>8. /\ home' \in [Sections -> Batches \cup {None}] /\ home'[s] # None
      /\ ~q.stale => home'[s] = to
      /\ \A t \in Sections \ {s} : home'[t] = home[t]
  BY <1>3, <1>5, <1>6, <1>7 DEF CourseTypes
<1>9. /\ \A o \in Offerings \ O : <<o, s>> \in member' <=> <<o, s>> \in member
      /\ \A o \in Offerings : <<o, s>> \in member' => <<o, s>> \in member \/ o \in O
      /\ \A o \in Offerings, t \in Sections \ {s} : <<o, t>> \in member' <=> <<o, t>> \in member
  BY <1>3, <1>6
<1>10. CourseTypes'
  <2>1. member' \subseteq Offerings \X Sections
    BY <1>3, <1>5, <1>6 DEF CourseTypes
  <2>2. ASSUME NEW o \in Offerings, NEW t \in Sections, <<o, t>> \in member'
        PROVE  offering[o] # None /\ home'[t] # None
    <3>1. <<o, t>> \in member \/ <<o, t>> \in add
      BY <1>3, <2>2
    <3>2. <<o, t>> \in add => offering[o] # None
      <4>1. PICK p : p = <<o, t>>
        OBVIOUS
      <4>2. p[1] = o
        BY <4>1
      <4>. QED
        BY <1>3, <4>1, <4>2, Zenon
    <3>3. <<o, t>> \in member => offering[o] # None /\ home[t] # None
      BY <1>5 DEF CourseTypes
    <3>4. <<o, t>> \in add => t = s
      BY <1>6
    <3>. QED
      BY <1>8, <3>1, <3>2, <3>3, <3>4
  <2>. QED
    BY <1>3, <1>5, <1>8, <2>1, <2>2 DEF CourseTypes
<1>11. \A e \in Firm' : e \in Firm /\ e \in Routines /\ routine[e] # None /\ e \notin strayed'
  BY <1>3, <1>5, StillFirm
<1>12. Footprint(q.id, q.offerings, q.sections)
  BY <1>2, <1>3, <1>6, <1>8, <1>9, <1>11 DEF Footprint
<1>13. InBatch'
  <2>1. ASSUME NEW o \in Offerings, NEW t \in Sections, <<o, t>> \in member'
        PROVE  o \in strayed' \/ home'[t] = offering'[o].batch
    <3>1. CASE t # s
      BY <1>3, <1>5, <1>8, <1>9, <2>1, <3>1 DEF InBatch
    <3>2. CASE t = s /\ q.stale
      BY <1>5, <1>6, <1>9, <2>1, <3>2
    <3>3. CASE t = s /\ ~q.stale
      BY <1>3, <1>7, <1>8, <2>1, <3>3
    <3>. QED
      BY <3>1, <3>2, <3>3, Zenon
  <2>. QED
    BY <2>1 DEF InBatch
<1>14. Within'
  <2>1. ASSUME NEW e \in Firm'
        PROVE  /\ routine[e].offering \in Offerings /\ offering[routine[e].offering] # None
               /\ \A t \in routine[e].sections :
                    <<routine[e].offering, t>> \in member'
                    /\ home'[t] = offering[routine[e].offering].batch
    <3>1. e \in Firm /\ e \in Routines /\ routine[e] # None /\ e \notin strayed'
      BY <1>11
    <3>2. /\ routine[e].offering \in Offerings /\ offering[routine[e].offering] # None
          /\ \A t \in routine[e].sections :
               <<routine[e].offering, t>> \in member
               /\ home[t] = offering[routine[e].offering].batch
      BY <1>5, <3>1 DEF Within
    <3>3. s \in routine[e].sections => ~q.stale
      BY <1>5, <1>6, <3>1
    <3>4. routine[e].sections \subseteq Sections
      BY <1>5, <3>1, EntryRow
    <3>5. ASSUME NEW t \in routine[e].sections
          PROVE  <<routine[e].offering, t>> \in member'
                 /\ home'[t] = offering[routine[e].offering].batch
      <4>1. CASE t = s
        BY <1>7, <1>8, <3>1, <3>2, <3>3, <4>1
      <4>2. CASE t # s
        BY <1>8, <1>9, <3>2, <3>4, <4>2
      <4>. QED
        BY <4>1, <4>2, Zenon
    <3>. QED
      BY <3>2, <3>5
  <2>. QED
    BY <1>3, <2>1 DEF Within
<1>. QED
  BY <1>1, <1>3, <1>4, <1>10, <1>12, <1>13, <1>14, Committed

LEMMA CreateOfferingInv ==
  ASSUME CoursesInv, NEW r \in Handlers, C!CreateOffering(r)
  PROVE  CoursesInv'
<1>1. PICK q : q = work[r]
  OBVIOUS
<1>2. PICK o, d, S : o = q.id /\ d = q.data /\ S = q.sections
  OBVIOUS
<1>3. /\ q.op = "offering" /\ C!OfferingsIn(d.batch) = {} /\ S \subseteq C!Live(home)
      /\ offering' = [offering EXCEPT ![o] = d] /\ member' = member \cup ({o} \X S)
      /\ C!Commit(r, strayed \ {o}) /\ home' = home /\ routine' = routine
  BY <1>1, <1>2, Zenon DEF C!CreateOffering
<1>4. q.op # "none"
  BY <1>3
<1>5. /\ CourseTypes /\ InBatch /\ Within
      /\ Formed(q) /\ (~q.stale => Holds(q))
      /\ \A x \in strayed \ {o} : x \in strayed'
      /\ q.stale =>
           /\ q.offerings \subseteq strayed'
           /\ \A e \in Routines : routine[e] # None /\ routine[e].offering \in q.offerings
                                  => e \in strayed'
  BY <1>1, <1>2, <1>3, <1>4, Committing, Zenon
<1>6. o \in Offerings /\ q.offerings = {o} /\ d \in C!Offering /\ S \subseteq Sections
  BY <1>2, <1>3, <1>5, Zenon DEF Formed
<1>7. ~q.stale => offering[o] = None /\ \A s \in S : home[s] = d.batch
  BY <1>2, <1>3, <1>5, Zenon DEF Holds
<1>8. /\ offering' \in [Offerings -> C!Offering \cup {None}] /\ offering'[o] = d /\ d # None
      /\ \A p \in Offerings \ {o} : offering'[p] = offering[p]
  BY <1>3, <1>5, <1>6, NoRow DEF CourseTypes
<1>9. /\ \A s \in Sections : <<o, s>> \in member' <=> <<o, s>> \in member \/ s \in S
      /\ \A p \in Offerings \ {o}, s \in Sections : <<p, s>> \in member' <=> <<p, s>> \in member
  BY <1>3
<1>10. CourseTypes'
  <2>1. member' \subseteq Offerings \X Sections
    BY <1>3, <1>5, <1>6 DEF CourseTypes
  <2>2. \A s \in S : home[s] # None
    BY <1>3 DEF C!Live
  <2>3. \A p \in Offerings, s \in Sections : <<p, s>> \in member' => offering'[p] # None /\ home[s] # None
    BY <1>5, <1>6, <1>8, <1>9, <2>2 DEF CourseTypes
  <2>4. \A p \in Offerings : offering[p] # None => offering[p].batch # d.batch
    BY <1>3, <1>5 DEF C!OfferingsIn, C!Live, CourseTypes
  <2>5. \A p, x \in Offerings :
          /\ offering'[p] # None /\ offering'[x] # None /\ offering'[p].batch = offering'[x].batch
          => p = x
    BY <1>5, <1>8, <2>4 DEF CourseTypes
  <2>. QED
    BY <1>3, <1>5, <1>8, <2>1, <2>3, <2>5 DEF CourseTypes
<1>11. \A e \in Firm' : e \in Firm /\ e \in Routines /\ routine[e] # None /\ e \notin strayed'
  BY <1>3, <1>5, <1>6, NoRow DEF Firm
<1>12. Footprint(q.id, q.offerings, q.sections)
  BY <1>2, <1>3, <1>6, <1>8, <1>9, <1>11 DEF Footprint
<1>13. InBatch'
  <2>1. ASSUME NEW p \in Offerings, NEW s \in Sections, <<p, s>> \in member'
        PROVE  p \in strayed' \/ home[s] = offering'[p].batch
    <3>1. CASE p # o
      BY <1>5, <1>8, <1>9, <2>1, <3>1 DEF InBatch
    <3>2. CASE p = o /\ q.stale
      BY <1>5, <1>6, <3>2
    <3>3. CASE p = o /\ ~q.stale
      <4>1. <<o, s>> \notin member
        BY <1>5, <1>6, <1>7, <3>3 DEF CourseTypes
      <4>. QED
        BY <1>7, <1>8, <1>9, <2>1, <3>3, <4>1
    <3>. QED
      BY <3>1, <3>2, <3>3, Zenon
  <2>. QED
    BY <1>3, <2>1 DEF InBatch
<1>14. Within'
  <2>1. ASSUME NEW e \in Firm'
        PROVE  /\ routine[e].offering \in Offerings /\ offering'[routine[e].offering] # None
               /\ \A t \in routine[e].sections :
                    <<routine[e].offering, t>> \in member'
                    /\ home[t] = offering'[routine[e].offering].batch
    <3>1. e \in Firm /\ e \in Routines /\ routine[e] # None /\ e \notin strayed'
      BY <1>11
    <3>2. /\ routine[e].offering \in Offerings /\ offering[routine[e].offering] # None
          /\ \A t \in routine[e].sections :
               <<routine[e].offering, t>> \in member
               /\ home[t] = offering[routine[e].offering].batch
      BY <1>5, <3>1 DEF Within
    <3>3. routine[e].offering # o
      <4>1. CASE q.stale
        BY <1>5, <1>6, <3>1, <4>1
      <4>2. CASE ~q.stale
        BY <1>7, <3>2, <4>2
      <4>. QED
        BY <4>1, <4>2, Zenon
    <3>. QED
      BY <1>3, <1>8, <3>2, <3>3
  <2>. QED
    BY <1>3, <2>1 DEF Within
<1>. QED
  BY <1>1, <1>3, <1>4, <1>10, <1>12, <1>13, <1>14, Committed

\* the row an update commits
LEMMA MergedRow ==
  ASSUME NEW F, NEW B, NEW now \in [batch : F, inherit : B], NEW d,
         d.row \in [batch : F, inherit : B], d.found \in [batch : F, inherit : B]
  PROVE  /\ C!Merged(now, d) \in [batch : F, inherit : B]
         /\ now = d.found => C!Merged(now, d) = d.row
<1>1. PICK row, found : row = d.row /\ found = d.found
  OBVIOUS
<1>2. row \in [batch : F, inherit : B] /\ found \in [batch : F, inherit : B]
  BY <1>1
<1>3. C!Merged(now, d) = [c \in DOMAIN now |-> IF row[c] = found[c] THEN now[c] ELSE row[c]]
  BY <1>1, Zenon DEF C!Merged
<1>4. PICK m : m = [c \in DOMAIN now |-> IF row[c] = found[c] THEN now[c] ELSE row[c]]
  OBVIOUS
<1>5. m \in [batch : F, inherit : B]
  BY ONLY <1>2, <1>4, now \in [batch : F, inherit : B]
<1>6. now = found => m = row
  BY ONLY <1>2, <1>4, now \in [batch : F, inherit : B]
<1>. QED
  BY <1>1, <1>3, <1>4, <1>5, <1>6, Zenon

LEMMA UpdateOfferingInv ==
  ASSUME CoursesInv, NEW r \in Handlers, C!UpdateOffering(r)
  PROVE  CoursesInv'
<1>1. PICK q : q = work[r]
  OBVIOUS
<1>2. PICK o, d, add, drop, S, row :
        /\ o = q.id /\ d = q.data /\ add = q.data.add /\ drop = q.data.drop /\ S = q.sections
        /\ row = C!Merged(offering[o], d)
  OBVIOUS
<1>3. /\ q.op = "update" /\ offering[o] # None /\ C!OfferingsIn(row.batch) \subseteq {o}
      /\ offering' = [offering EXCEPT ![o] = row]
      /\ member' = (member \cup add) \ drop
      /\ \A p \in add : home[p[2]] # None
      /\ C!Commit(r, strayed) /\ home' = home /\ routine' = routine
  BY <1>1, <1>2, Zenon DEF C!UpdateOffering, C!Relink, C!ForeignKeys
<1>4. q.op # "none"
  BY <1>3
<1>5. /\ CourseTypes /\ InBatch /\ Within
      /\ Formed(q) /\ (~q.stale => Holds(q))
      /\ \A x \in strayed : x \in strayed'
      /\ q.stale =>
           /\ q.offerings \subseteq strayed'
           /\ \A e \in Routines : routine[e] # None /\ routine[e].offering \in q.offerings
                                  => e \in strayed'
  BY <1>1, <1>3, <1>4, Committing, Zenon
<1>6. /\ o \in Offerings /\ q.offerings = {o} /\ S \subseteq Sections
      /\ d.row \in C!Offering /\ d.found \in C!Offering
      /\ add \subseteq {o} \X S /\ drop \subseteq {o} \X S
  BY <1>2, <1>3, <1>5, Zenon DEF Formed
<1>7. ~q.stale => /\ offering[o] = d.found
                  /\ \A s \in Sections : <<o, s>> \in member' => home[s] = d.row.batch
                  /\ \A e \in Firm : routine[e].offering = o =>
                       \A s \in routine[e].sections : <<o, s>> \in member'
  BY <1>2, <1>3, <1>5, Zenon DEF Holds, Left
<1>8. row \in C!Offering /\ (~q.stale => row = d.row)
  <2>1. offering[o] \in C!Offering
    BY <1>3, <1>5, <1>6, OfferingRow
  <2>2. PICK B : B = BOOLEAN
    OBVIOUS
  <2>3. C!Offering = [batch : Batches, inherit : B]
    BY <2>2, Zenon DEF C!Offering
  <2>4. /\ C!Merged(offering[o], d) \in [batch : Batches, inherit : B]
        /\ offering[o] = d.found => C!Merged(offering[o], d) = d.row
    BY ONLY <1>6, <2>1, <2>3, MergedRow
  <2>. QED
    BY <1>2, <1>7, <2>3, <2>4, Zenon
<1>9. /\ offering' \in [Offerings -> C!Offering \cup {None}] /\ offering'[o] = row /\ row # None
      /\ \A p \in Offerings \ {o} : offering'[p] = offering[p]
  BY <1>3, <1>5, <1>6, <1>8, NoRow DEF CourseTypes
<1>10. /\ \A s \in Sections \ S : <<o, s>> \in member' <=> <<o, s>> \in member
       /\ \A p \in Offerings \ {o}, s \in Sections : <<p, s>> \in member' <=> <<p, s>> \in member
  BY <1>3, <1>6
<1>11. CourseTypes'
  <2>1. member' \subseteq Offerings \X Sections
    BY <1>3, <1>5, <1>6 DEF CourseTypes
  <2>2. ASSUME NEW p \in Offerings, NEW t \in Sections, <<p, t>> \in member'
        PROVE  offering'[p] # None /\ home[t] # None
    <3>1. <<p, t>> \in member \/ <<p, t>> \in add
      BY <1>3, <2>2
    <3>2. <<p, t>> \in add => home[t] # None
      <4>1. PICK x : x = <<p, t>>
        OBVIOUS
      <4>2. x[2] = t
        BY <4>1
      <4>. QED
        BY <1>3, <4>1, <4>2, Zenon
    <3>3. <<p, t>> \in member => offering[p] # None /\ home[t] # None
      BY <1>5 DEF CourseTypes
    <3>4. <<p, t>> \in add => p = o
      BY <1>6
    <3>. QED
      BY <1>9, <3>1, <3>2, <3>3, <3>4
  <2>3. \A p \in Offerings \ {o} : offering[p] # None => offering[p].batch # row.batch
    BY <1>3, <1>5 DEF C!OfferingsIn, C!Live, CourseTypes
  <2>4. \A p, x \in Offerings :
          /\ offering'[p] # None /\ offering'[x] # None /\ offering'[p].batch = offering'[x].batch
          => p = x
    BY <1>5, <1>9, <2>3 DEF CourseTypes
  <2>. QED
    BY <1>3, <1>5, <1>9, <2>1, <2>2, <2>4 DEF CourseTypes
<1>12. \A e \in Firm' : e \in Firm /\ e \in Routines /\ routine[e] # None /\ e \notin strayed'
  BY <1>3, <1>5, StillFirm
<1>13. Footprint(q.id, q.offerings, q.sections)
  <2>1. \A p \in Offerings, s \in Sections \ S : <<p, s>> \in member' => <<p, s>> \in member
    BY <1>10
  <2>. QED
    BY <1>2, <1>3, <1>6, <1>9, <1>10, <1>12, <2>1 DEF Footprint
<1>14. InBatch'
  <2>1. ASSUME NEW p \in Offerings, NEW s \in Sections, <<p, s>> \in member'
        PROVE  p \in strayed' \/ home[s] = offering'[p].batch
    <3>1. CASE p # o
      BY <1>5, <1>9, <1>10, <2>1, <3>1 DEF InBatch
    <3>2. CASE p = o /\ q.stale
      BY <1>5, <1>6, <3>2
    <3>3. CASE p = o /\ ~q.stale
      BY <1>7, <1>8, <1>9, <2>1, <3>3
    <3>. QED
      BY <3>1, <3>2, <3>3, Zenon
  <2>. QED
    BY <1>3, <2>1 DEF InBatch
<1>15. Within'
  <2>1. ASSUME NEW e \in Firm'
        PROVE  /\ routine[e].offering \in Offerings /\ offering'[routine[e].offering] # None
               /\ \A t \in routine[e].sections :
                    <<routine[e].offering, t>> \in member'
                    /\ home[t] = offering'[routine[e].offering].batch
    <3>1. e \in Firm /\ e \in Routines /\ routine[e] # None /\ e \notin strayed'
      BY <1>12
    <3>2. /\ routine[e].offering \in Offerings /\ offering[routine[e].offering] # None
          /\ \A t \in routine[e].sections :
               <<routine[e].offering, t>> \in member
               /\ home[t] = offering[routine[e].offering].batch
      BY <1>5, <3>1 DEF Within
    <3>3. routine[e].offering = o => ~q.stale
      BY <1>5, <1>6, <3>1
    <3>4. routine[e].sections \subseteq Sections
      BY <1>5, <3>1, EntryRow
    <3>5. CASE routine[e].offering = o
      BY <1>7, <1>8, <1>9, <3>1, <3>2, <3>3, <3>4, <3>5
    <3>6. CASE routine[e].offering # o
      BY <1>9, <1>10, <3>2, <3>4, <3>6
    <3>. QED
      BY <3>5, <3>6, Zenon
  <2>. QED
    BY <1>3, <2>1 DEF Within
<1>. QED
  BY <1>1, <1>3, <1>4, <1>11, <1>13, <1>14, <1>15, Committed

LEMMA RemoveOfferingInv ==
  ASSUME CoursesInv, NEW r \in Handlers, C!RemoveOffering(r)
  PROVE  CoursesInv'
<1>1. PICK q : q = work[r]
  OBVIOUS
<1>2. PICK o : o = q.id
  OBVIOUS
<1>3. /\ q.op = "removal" /\ offering' = [offering EXCEPT ![o] = None]
      /\ member' = {p \in member : p[1] # o}
      /\ routine' = [e \in Routines |-> IF e \in C!Linked(o) THEN [routine[e] EXCEPT !.offering = None]
                                        ELSE routine[e]]
      /\ C!Commit(r, strayed) /\ home' = home
  BY <1>1, <1>2, Zenon DEF C!RemoveOffering
<1>4. q.op # "none"
  BY <1>3
<1>5. /\ CourseTypes /\ InBatch /\ Within
      /\ Formed(q) /\ (~q.stale => Holds(q))
      /\ \A x \in strayed : x \in strayed'
      /\ ~q.stale => strayed' = strayed
      /\ q.stale => \A e \in Routines : routine[e] # None /\ routine[e].offering \in q.offerings
                                        => e \in strayed'
  BY <1>1, <1>3, <1>4, Committing, Zenon
<1>6. o \in Offerings /\ q.offerings = {o}
  BY <1>2, <1>3, <1>5, Zenon DEF Formed
<1>7. ~q.stale => \A e \in Firm : routine[e].offering # o
  BY <1>2, <1>3, <1>5, Zenon DEF Holds
<1>8. /\ offering' \in [Offerings -> C!Offering \cup {None}] /\ offering'[o] = None
      /\ \A p \in Offerings \ {o} : offering'[p] = offering[p]
  BY <1>3, <1>5, <1>6 DEF CourseTypes
<1>9. /\ \A p \in Offerings, s \in Sections : <<p, s>> \in member' <=> <<p, s>> \in member /\ p # o
      /\ member' \subseteq member
  <2>1. ASSUME NEW p \in Offerings, NEW s \in Sections
        PROVE  <<p, s>> \in member' <=> <<p, s>> \in member /\ p # o
    <3>1. PICK x : x = <<p, s>>
      OBVIOUS
    <3>2. x[1] = p
      BY <3>1
    <3>3. x \in member' <=> x \in member /\ x[1] # o
      BY <1>3, Zenon
    <3>. QED
      BY <3>1, <3>2, <3>3, Zenon
  <2>. QED
    BY <1>3, <2>1
<1>10. \A e \in Routines : e \in C!Linked(o) <=> routine[e] # None /\ routine[e].offering = o
  BY <1>5 DEF C!Linked, C!Live, CourseTypes
<1>11. ASSUME NEW e \in Routines
       PROVE  /\ e \notin C!Linked(o) => routine'[e] = routine[e]
              /\ e \in C!Linked(o) =>
                   /\ routine'[e] \in C!Entry /\ routine'[e] # None
                   /\ routine'[e].offering = None /\ routine'[e].sections = routine[e].sections
  <2>1. CASE e \in C!Linked(o)
    <3>1. PICK x, y, F, B : x = routine[e] /\ y = routine'[e] /\ F = Offerings \cup {None}
                            /\ B = (SUBSET Sections) \ {{}}
      OBVIOUS
    <3>2. x \in C!Entry
      BY <1>5, <1>10, <2>1, <3>1, EntryRow
    <3>3. x \in [offering : F, sections : B] /\ None \in F
      BY <3>1, <3>2 DEF C!Entry
    <3>4. y = [x EXCEPT !.offering = None]
      BY <1>3, <2>1, <3>1, Zenon
    <3>5. y \in [offering : F, sections : B] /\ y.offering = None /\ y.sections = x.sections
      BY ONLY <3>3, <3>4
    <3>6. y \in C!Entry
      BY <3>1, <3>5, Zenon DEF C!Entry
    <3>. QED
      BY <2>1, <3>1, <3>5, <3>6, NoRow
  <2>2. CASE e \notin C!Linked(o)
    BY <1>3, <2>2, Zenon
  <2>. QED
    BY <2>1, <2>2, Zenon
<1>12. CourseTypes'
  <2>1. routine' \in [Routines -> C!Entry \cup {None}]
    <3>1. \A e \in Routines : routine'[e] \in C!Entry \cup {None}
      BY <1>5, <1>11 DEF CourseTypes
    <3>2. routine' = [e \in Routines |-> routine'[e]]
      BY <1>3
    <3>. QED
      BY <3>1, <3>2
  <2>2. \A p \in Offerings, s \in Sections : <<p, s>> \in member' => offering'[p] # None /\ home[s] # None
    BY <1>5, <1>8, <1>9 DEF CourseTypes
  <2>3. \A p, x \in Offerings :
          /\ offering'[p] # None /\ offering'[x] # None /\ offering'[p].batch = offering'[x].batch
          => p = x
    BY <1>5, <1>8 DEF CourseTypes
  <2>. QED
    BY <1>3, <1>5, <1>8, <1>9, <2>1, <2>2, <2>3 DEF CourseTypes
<1>13. ASSUME NEW e \in Firm'
       PROVE  /\ e \in Firm /\ e \in Routines /\ routine[e] # None
              /\ routine'[e] = routine[e] /\ routine[e].offering # o
  <2>1. e \in Routines /\ routine'[e] # None /\ e \notin strayed'
    BY <1>13 DEF Firm
  <2>2. routine[e] # None
    BY <1>10, <1>11, <2>1
  <2>3. e \in Firm
    BY <1>5, <2>1, <2>2 DEF Firm
  <2>4. routine[e].offering # o
    <3>1. CASE q.stale
      BY <1>5, <1>6, <2>1, <2>2, <3>1
    <3>2. CASE ~q.stale
      BY <1>7, <2>3, <3>2
    <3>. QED
      BY <3>1, <3>2, Zenon
  <2>5. routine'[e] = routine[e]
    BY <1>10, <1>11, <2>1, <2>4
  <2>. QED
    BY <2>1, <2>2, <2>3, <2>4, <2>5
<1>14. Footprint(q.id, q.offerings, q.sections)
  <2>1. \A e \in Routines :
          \/ routine'[e] = routine[e]
          \/ /\ routine[e] # None /\ routine'[e].sections = routine[e].sections
             /\ routine[e].offering \in q.offerings
    BY <1>6, <1>10, <1>11
  <2>2. \A e \in Firm' : e \in Firm /\ routine'[e] = routine[e]
    BY <1>13
  <2>. QED
    BY <1>3, <1>6, <1>8, <1>9, <2>1, <2>2 DEF Footprint
<1>15. InBatch'
  BY <1>3, <1>5, <1>8, <1>9 DEF InBatch
<1>16. Within'
  <2>1. ASSUME NEW e \in Firm'
        PROVE  /\ routine'[e].offering \in Offerings /\ offering'[routine'[e].offering] # None
               /\ \A t \in routine'[e].sections :
                    <<routine'[e].offering, t>> \in member'
                    /\ home[t] = offering'[routine'[e].offering].batch
    <3>1. e \in Firm /\ routine'[e] = routine[e] /\ routine[e].offering # o
      BY <1>13
    <3>2. /\ routine[e].offering \in Offerings /\ offering[routine[e].offering] # None
          /\ \A t \in routine[e].sections :
               <<routine[e].offering, t>> \in member
               /\ home[t] = offering[routine[e].offering].batch
      BY <1>5, <3>1 DEF Within
    <3>3. routine[e].sections \subseteq Sections
      BY <1>5, <1>13, EntryRow
    <3>. QED
      BY <1>8, <1>9, <3>1, <3>2, <3>3
  <2>. QED
    BY <1>3, <2>1 DEF Within
<1>. QED
  BY <1>1, <1>3, <1>4, <1>12, <1>14, <1>15, <1>16, Committed

\* What the commit of a request about an entry writes, if it goes by what it has read.
EntryChange(r, q, e, kept, row, o) ==
  /\ q = work[r] /\ e = q.id /\ q.op \in {"entry", "merge", "change"} /\ q.offerings = {o}
  /\ C!Commit(r, kept) /\ (kept = strayed \/ kept = strayed \ {e})
  /\ home' = home /\ offering' = offering /\ member' = member
  /\ routine' = [routine EXCEPT ![e] = row] /\ row \in C!Entry
  /\ ~q.stale /\ e \notin strayed' =>
       /\ row.offering = o
       /\ \A s \in row.sections : s \in q.sections \/ (e \in Firm /\ s \in routine[e].sections
                                                       /\ routine[e].offering = o)

LEMMA EntryWritten ==
  ASSUME CoursesInv, NEW r \in Handlers, NEW q, NEW e, NEW kept, NEW row, NEW o,
         EntryChange(r, q, e, kept, row, o)
  PROVE  CoursesInv'
<1>. USE DEF EntryChange
<1>1. q.op # "none"
  OBVIOUS
<1>2. /\ CourseTypes /\ InBatch /\ Within
      /\ Formed(q) /\ (~q.stale => Holds(q))
      /\ \A x \in strayed \ {e} : x \in strayed'
      /\ kept = strayed => \A x \in strayed : x \in strayed'
      /\ q.stale => (e \in Routines => e \in strayed')
  BY <1>1, Committing, Zenon
<1>3. e \in Routines /\ o \in Offerings /\ q.sections \subseteq Sections
  BY <1>2 DEF Formed
<1>4. ~q.stale => offering[o] # None /\ \A s \in q.sections :
                    <<o, s>> \in member /\ home[s] = offering[o].batch
  BY <1>2 DEF Holds
<1>5. /\ routine' \in [Routines -> C!Entry \cup {None}] /\ routine'[e] = row
      /\ \A f \in Routines \ {e} : routine'[f] = routine[f]
  BY <1>2, <1>3 DEF CourseTypes
<1>6. CourseTypes'
  BY <1>2, <1>5 DEF CourseTypes
<1>7. \A f \in Firm' : f # e => f \in Firm /\ routine'[f] = routine[f]
  BY <1>2, <1>5 DEF Firm
<1>8. e \in Firm' => ~q.stale /\ e \notin strayed'
  BY <1>2, <1>3 DEF Firm
<1>9. e \in Firm' =>
        /\ row.offering = o
        /\ \A s \in row.sections : s \in q.sections \/ (e \in Firm /\ s \in routine[e].sections
                                                        /\ routine[e].offering = o)
  BY <1>8
<1>10. Footprint(q.id, q.offerings, q.sections)
  <2>1. \A f \in Firm' : routine'[f].offering \notin q.offerings => f \in Firm /\ routine'[f] = routine[f]
    BY <1>5, <1>7, <1>9
  <2>2. \A f \in Firm' : \A s \in routine'[f].sections \ q.sections :
          f \in Firm /\ s \in routine[f].sections /\ routine'[f].offering = routine[f].offering
    BY <1>5, <1>7, <1>9
  <2>3. \A f \in Routines : f = q.id \/ routine'[f] = routine[f]
    BY <1>5
  <2>. QED
    BY <2>1, <2>2, <2>3 DEF Footprint
<1>11. InBatch'
  <2>1. \A p \in Offerings : p # e
    BY <1>3, NoRow
  <2>. QED
    BY <1>2, <2>1 DEF InBatch
<1>12. Within'
  <2>1. ASSUME NEW f \in Firm', f # e
        PROVE  /\ routine'[f].offering \in Offerings /\ offering[routine'[f].offering] # None
               /\ \A t \in routine'[f].sections :
                    <<routine'[f].offering, t>> \in member
                    /\ home[t] = offering[routine'[f].offering].batch
    BY <1>2, <1>7, <2>1 DEF Within
  <2>2. ASSUME e \in Firm'
        PROVE  /\ row.offering \in Offerings /\ offering[row.offering] # None
               /\ \A t \in row.sections :
                    <<row.offering, t>> \in member /\ home[t] = offering[row.offering].batch
    <3>1. row.offering = o /\ ~q.stale
      BY <1>8, <1>9, <2>2
    <3>2. ASSUME NEW t \in row.sections PROVE <<o, t>> \in member /\ home[t] = offering[o].batch
      <4>1. CASE t \in q.sections
        BY <1>4, <3>1, <4>1
      <4>2. CASE e \in Firm /\ t \in routine[e].sections /\ routine[e].offering = o
        BY <1>2, <4>2 DEF Within
      <4>. QED
        BY <1>9, <2>2, <3>2, <4>1, <4>2
    <3>. QED
      BY <1>3, <1>4, <3>1, <3>2
  <2>3. ASSUME NEW f \in Firm'
        PROVE  /\ routine'[f].offering \in Offerings /\ offering[routine'[f].offering] # None
               /\ \A t \in routine'[f].sections :
                    <<routine'[f].offering, t>> \in member
                    /\ home[t] = offering[routine'[f].offering].batch
    BY <1>5, <2>1, <2>2
  <2>. QED
    BY <2>3 DEF Within
<1>. QED
  BY <1>1, <1>6, <1>10, <1>11, <1>12, Committed

LEMMA RowFits ==
  ASSUME NEW o \in Offerings \cup {None}, NEW S \in SUBSET Sections, S # {}
  PROVE  [offering |-> o, sections |-> S] \in C!Entry
<1>1. PICK F, B : F = Offerings \cup {None} /\ B = (SUBSET Sections) \ {{}}
  OBVIOUS
<1>2. o \in F /\ S \in B
  BY <1>1
<1>3. [offering |-> o, sections |-> S] \in [offering : F, sections : B]
  BY ONLY <1>2
<1>. QED
  BY <1>1, <1>3, Zenon DEF C!Entry

LEMMA CreateEntryInv ==
  ASSUME CoursesInv, NEW r \in Handlers, C!CreateEntry(r)
  PROVE  CoursesInv'
<1>1. PICK q, e, S : q = work[r] /\ e = q.id /\ S = q.sections
  OBVIOUS
<1>2. q.op = "entry" /\ C!Commit(r, strayed \ {e}) /\ home' = home /\ offering' = offering /\ member' = member
  BY <1>1, Zenon DEF C!CreateEntry
<1>3. PICK o \in q.offerings : routine' = [routine EXCEPT ![e] = [offering |-> o, sections |-> S]]
  BY <1>1, Zenon DEF C!CreateEntry
<1>4. CourseTypes /\ Formed(q)
  BY <1>1, <1>2, Committing
<1>5. S \subseteq Sections /\ S # {} /\ o \in Offerings /\ q.offerings = {o}
  BY <1>1, <1>2, <1>3, <1>4 DEF Formed
<1>6. PICK row : row = [offering |-> o, sections |-> S]
  OBVIOUS
<1>7. row \in C!Entry /\ row.offering = o /\ row.sections = S
  BY <1>5, <1>6, RowFits
<1>8. EntryChange(r, q, e, strayed \ {e}, row, o)
  BY <1>1, <1>2, <1>3, <1>5, <1>6, <1>7 DEF EntryChange
<1>. QED
  BY <1>8, EntryWritten, Zenon

LEMMA MergeEntryInv ==
  ASSUME CoursesInv, NEW r \in Handlers, C!MergeEntry(r)
  PROVE  CoursesInv'
<1>1. PICK q, e, S : q = work[r] /\ e = q.id /\ S = q.sections
  OBVIOUS
<1>2. /\ q.op = "merge" /\ routine[e] # None
      /\ routine' = [routine EXCEPT ![e].sections = routine[e].sections \cup S]
      /\ C!Commit(r, strayed) /\ home' = home /\ offering' = offering /\ member' = member
  BY <1>1, Zenon DEF C!MergeEntry
<1>3. /\ CourseTypes /\ Formed(q) /\ (~q.stale => Holds(q))
      /\ ~q.stale => strayed' = strayed
  BY <1>1, <1>2, Committing
<1>4. e \in Routines /\ S \subseteq Sections /\ S # {} /\ \E o \in Offerings : q.offerings = {o}
  BY <1>1, <1>2, <1>3 DEF Formed
<1>5. PICK o \in Offerings : q.offerings = {o}
  BY <1>4
<1>6. PICK x, T : x = routine[e] /\ T = routine[e].sections
  OBVIOUS
<1>7. /\ x \in C!Entry /\ x.offering \in Offerings \cup {None} /\ T \subseteq Sections
  BY <1>2, <1>3, <1>4, <1>6, EntryRow
<1>8. PICK row : row = [x EXCEPT !.sections = T \cup S]
  OBVIOUS
<1>9. row = [offering |-> x.offering, sections |-> T \cup S]
  <2>1. PICK F, B : x \in [offering : F, sections : B]
    BY <1>7, Zenon DEF C!Entry
  <2>. QED
    BY ONLY <1>8, <2>1
<1>10. row \in C!Entry /\ row.offering = x.offering /\ row.sections = T \cup S
  BY <1>4, <1>7, <1>9, RowFits
<1>11. routine' = [routine EXCEPT ![e] = row]
  BY <1>2, <1>6, <1>8
<1>12. ASSUME ~q.stale, e \notin strayed'
       PROVE  /\ row.offering = o
              /\ \A s \in row.sections : s \in q.sections \/ (e \in Firm /\ s \in routine[e].sections
                                                              /\ routine[e].offering = o)
  <2>1. routine[e] = None \/ routine[e].offering \in q.offerings
    BY <1>1, <1>2, <1>3, <1>12, Zenon DEF Holds
  <2>2. routine[e].offering = o /\ e \in Firm
    BY <1>2, <1>3, <1>4, <1>5, <1>12, <2>1 DEF Firm
  <2>. QED
    BY <1>1, <1>6, <1>10, <2>2
<1>13. q.op \in {"entry", "merge", "change"}
  BY <1>2
<1>14. EntryChange(r, q, e, strayed, row, o)
  BY <1>1, <1>2, <1>5, <1>10, <1>11, <1>12, <1>13 DEF EntryChange
<1>. QED
  BY <1>14, EntryWritten, Zenon

LEMMA ChangeEntryInv ==
  ASSUME CoursesInv, NEW r \in Handlers, C!ChangeEntry(r)
  PROVE  CoursesInv'
<1>1. PICK q, e, S, d : q = work[r] /\ e = q.id /\ S = q.sections /\ d = q.data
  OBVIOUS
<1>2. /\ q.op = "change" /\ routine[e] # None
      /\ C!Commit(r, strayed) /\ home' = home /\ offering' = offering /\ member' = member
  BY <1>1, Zenon DEF C!ChangeEntry
<1>3. PICK o \in q.offerings :
        routine' = [routine EXCEPT ![e] =
                      [offering |-> IF o = d.offering THEN routine[e].offering ELSE o,
                       sections |-> IF S = d.sections THEN routine[e].sections ELSE S]]
  BY <1>1, Zenon DEF C!ChangeEntry
<1>4. /\ CourseTypes /\ Formed(q) /\ (~q.stale => Holds(q))
      /\ ~q.stale => strayed' = strayed
  BY <1>1, <1>2, Committing
<1>5. /\ e \in Routines /\ S \subseteq Sections /\ S # {} /\ o \in Offerings /\ q.offerings = {o}
  BY <1>1, <1>2, <1>3, <1>4 DEF Formed
<1>6. /\ routine[e].offering \in Offerings \cup {None}
      /\ routine[e].sections \subseteq Sections /\ routine[e].sections # {}
  BY <1>2, <1>4, <1>5, EntryRow
<1>7. PICK x, T : /\ x = IF o = d.offering THEN routine[e].offering ELSE o
                  /\ T = IF S = d.sections THEN routine[e].sections ELSE S
  OBVIOUS
<1>8. PICK row : row = [offering |-> x, sections |-> T]
  OBVIOUS
<1>9. row \in C!Entry /\ row.offering = x /\ row.sections = T
  BY <1>5, <1>6, <1>7, <1>8, RowFits
<1>10. routine' = [routine EXCEPT ![e] = row]
  BY <1>3, <1>7, <1>8
<1>11. ASSUME ~q.stale
       PROVE  x = o /\ T = S
  <2>1. \/ routine[e] = None
        \/ /\ routine[e].sections = d.sections
           /\ d.offering \in q.offerings => routine[e].offering = d.offering
    BY <1>1, <1>2, <1>4, <1>11, Zenon DEF Holds
  <2>. QED
    BY <1>2, <1>5, <1>7, <2>1
<1>12. q.op \in {"entry", "merge", "change"}
  BY <1>2
<1>13. EntryChange(r, q, e, strayed, row, o)
  BY <1>1, <1>2, <1>5, <1>9, <1>10, <1>11, <1>12 DEF EntryChange
<1>. QED
  BY <1>13, EntryWritten, Zenon

LEMMA DeleteSectionInv ==
  ASSUME CoursesInv, NEW s \in Sections, C!DeleteSection(s)
  PROVE  CoursesInv'
<1>1. CourseTypes /\ WorkInv /\ InBatch /\ Within
  BY DEF CoursesInv
<1>2. PICK O : O = C!Current(s)
  OBVIOUS
<1>3. /\ \A e \in C!Live(routine) : s \notin routine[e].sections
      /\ home' = [home EXCEPT ![s] = None] /\ member' = {p \in member : p[2] # s}
      /\ work' = [k \in Handlers |-> IF C!Meets(work[k], s, O, {s})
                                     THEN [work[k] EXCEPT !.stale = TRUE] ELSE work[k]]
      /\ offering' = offering /\ routine' = routine /\ strayed' = strayed
  BY <1>2, Zenon DEF C!DeleteSection
<1>4. /\ home' \in [Sections -> Batches \cup {None}]
      /\ \A t \in Sections \ {s} : home'[t] = home[t]
  BY <1>1, <1>3 DEF CourseTypes
<1>5. /\ \A o \in Offerings, t \in Sections : <<o, t>> \in member' <=> <<o, t>> \in member /\ t # s
      /\ member' \subseteq member
  <2>1. ASSUME NEW o \in Offerings, NEW t \in Sections
        PROVE  <<o, t>> \in member' <=> <<o, t>> \in member /\ t # s
    <3>1. PICK x : x = <<o, t>>
      OBVIOUS
    <3>2. x[2] = t
      BY <3>1
    <3>3. x \in member' <=> x \in member /\ x[2] # s
      BY <1>3, Zenon
    <3>. QED
      BY <3>1, <3>2, <3>3, Zenon
  <2>. QED
    BY <1>3, <2>1
<1>6. CourseTypes'
  BY <1>1, <1>3, <1>4, <1>5 DEF CourseTypes
<1>7. Firm' = Firm
  BY <1>3 DEF Firm
<1>8. \A o \in Offerings \ O : <<o, s>> \notin member
  BY <1>2 DEF C!Current
<1>9. Footprint(s, O, {s})
  BY <1>3, <1>4, <1>5, <1>7, <1>8 DEF Footprint
<1>10. Marks(s, O, {s})
  <2>1. ASSUME NEW k \in Handlers, work[k].op = "none" PROVE ~C!Meets(work[k], s, O, {s})
    <3>1. work[k] = C!Free
      BY <1>1, <2>1, Zenon DEF WorkInv, Formed
    <3>. QED
      BY <3>1, NoRow DEF C!Free, C!Meets
  <2>. QED
    BY <1>3, <2>1, Zenon DEF Marks
<1>11. WorkInv'
  BY <1>1, <1>9, <1>10, MarkedWork
<1>12. InBatch'
  BY <1>1, <1>3, <1>4, <1>5 DEF InBatch
<1>13. Within'
  <2>1. ASSUME NEW e \in Firm
        PROVE  /\ routine[e].offering \in Offerings /\ offering[routine[e].offering] # None
               /\ \A t \in routine[e].sections :
                    <<routine[e].offering, t>> \in member'
                    /\ home'[t] = offering[routine[e].offering].batch
    <3>1. /\ routine[e].offering \in Offerings /\ offering[routine[e].offering] # None
          /\ \A t \in routine[e].sections :
               <<routine[e].offering, t>> \in member
               /\ home[t] = offering[routine[e].offering].batch
      BY <1>1 DEF Within
    <3>2. e \in Routines /\ routine[e] # None
      BY DEF Firm
    <3>3. routine[e].sections \subseteq Sections
      BY <1>1, <3>2, EntryRow
    <3>4. s \notin routine[e].sections
      BY <1>1, <1>3, <3>2 DEF C!Live, CourseTypes
    <3>. QED
      BY <1>4, <1>5, <3>1, <3>3, <3>4
  <2>. QED
    BY <1>3, <1>7, <2>1 DEF Within
<1>. QED
  BY <1>6, <1>11, <1>12, <1>13 DEF CoursesInv

LEMMA DeleteEntryInv ==
  ASSUME CoursesInv, NEW e \in Routines, C!DeleteEntry(e)
  PROVE  CoursesInv'
<1>1. CourseTypes /\ WorkInv /\ InBatch /\ Within
  BY DEF CoursesInv
<1>2. /\ routine' = [routine EXCEPT ![e] = None] /\ home' = home /\ offering' = offering
      /\ member' = member /\ strayed' = strayed /\ work' = work
  BY Zenon DEF C!DeleteEntry
<1>3. /\ routine' \in [Routines -> C!Entry \cup {None}] /\ routine'[e] = None
      /\ \A f \in Routines \ {e} : routine'[f] = routine[f]
  BY <1>1, <1>2 DEF CourseTypes
<1>4. CourseTypes'
  BY <1>1, <1>2, <1>3 DEF CourseTypes
<1>5. \A f \in Firm' : f \in Firm /\ routine'[f] = routine[f]
  BY <1>2, <1>3 DEF Firm
<1>6. Footprint(None, {}, {})
  BY <1>2, <1>3, <1>5 DEF Footprint
<1>7. Marks(None, {}, {})
  <2>1. ASSUME NEW k \in Handlers, NEW q, q = work[k], q # C!Free PROVE ~C!Meets(q, None, {}, {})
    <3>1. Formed(q)
      BY <1>1, <2>1, Zenon DEF WorkInv
    <3>2. q.id # None
      BY <2>1, <3>1, NoRow DEF Formed, Operations
    <3>. QED
      BY <3>2 DEF C!Meets
  <2>2. work' = [k \in Handlers |-> work'[k]]
    BY <1>1, <1>2, Zenon DEF WorkInv
  <2>. QED
    BY <1>2, <2>1, <2>2, Zenon DEF Marks
<1>8. WorkInv'
  BY <1>1, <1>6, <1>7, MarkedWork
<1>9. InBatch'
  BY <1>1, <1>2 DEF InBatch
<1>10. Within'
  BY <1>1, <1>2, <1>5 DEF Within
<1>. QED
  BY <1>4, <1>8, <1>9, <1>10 DEF CoursesInv

\* A step that leaves the tables alone and gives request r what it has read.
LEMMA Reading ==
  ASSUME CoursesInv, NEW r \in Handlers, NEW q, Formed(q), Holds(q), work' = [work EXCEPT ![r] = q],
         home' = home, offering' = offering, member' = member, routine' = routine,
         strayed' = strayed
  PROVE  CoursesInv'
<1>1. CourseTypes' /\ InBatch' /\ Firm' = Firm
  BY DEF CoursesInv, CourseTypes, InBatch, Firm
<1>2. Within'
  BY <1>1 DEF CoursesInv, Within
<1>3. ASSUME NEW x, Holds(x) PROVE Holds(x)'
  <2>1. Left(x)' = Left(x)
    BY DEF Left
  <2>. QED
    BY <1>1, <1>3, <2>1, ZenonT(90) DEF Holds
<1>4. /\ work' = [k \in Handlers |-> work'[k]]
      /\ \A k \in Handlers : work'[k] = IF k = r THEN q ELSE work[k]
  BY Zenon DEF CoursesInv, WorkInv
<1>5. \A k \in Handlers : \A x : work[k] = x => Formed(x) /\ (~x.stale => Holds(x))
  BY Zenon DEF CoursesInv, WorkInv
<1>6. ASSUME NEW k \in Handlers, NEW x, x = work'[k]
      PROVE  Formed(x) /\ (~x.stale => Holds(x)')
  <2>1. CASE k = r
    <3>1. x = q
      BY <1>4, <1>6, <2>1, Zenon
    <3>2. Holds(q)'
      BY <1>3, Zenon
    <3>. QED
      BY <3>1, <3>2, Zenon
  <2>2. CASE k # r
    <3>1. x = work[k]
      BY <1>4, <1>6, <2>2, Zenon
    <3>2. Formed(x) /\ (~x.stale => Holds(x))
      BY <1>5, <3>1, Zenon
    <3>. QED
      BY <1>3, <3>2, Zenon
  <2>. QED
    BY <2>1, <2>2, Zenon
<1>7. WorkInv'
  BY <1>4, <1>6, Zenon DEF WorkInv
<1>. QED
  BY <1>1, <1>2, <1>7 DEF CoursesInv

\* what a request holds once it has asked
Carries(q, op, id, O, S, data) ==
  /\ q = [op |-> op, id |-> id, offerings |-> O, sections |-> S, stale |-> FALSE, data |-> data]
  /\ q.op = op /\ q.id = id /\ q.offerings = O /\ q.sections = S /\ q.data = data

LEMMA RequestRead ==
  ASSUME CoursesInv, NEW r \in Handlers, NEW op, NEW id, NEW O, NEW S, NEW data,
         C!Ask(r, op, id, O, S, data),
         ASSUME NEW q, Carries(q, op, id, O, S, data)
         PROVE  Formed(q) /\ Holds(q)
  PROVE  CoursesInv'
<1>1. PICK q : q = [op |-> op, id |-> id, offerings |-> O, sections |-> S, stale |-> FALSE, data |-> data]
  OBVIOUS
<1>2. q.op = op /\ q.id = id /\ q.offerings = O /\ q.sections = S /\ q.data = data
  BY ONLY <1>1
<1>3. Carries(q, op, id, O, S, data)
  BY <1>1, <1>2, Zenon DEF Carries
<1>4. Formed(q) /\ Holds(q)
  BY <1>3
<1>5. /\ work' = [work EXCEPT ![r] = q] /\ home' = home /\ offering' = offering
      /\ member' = member /\ routine' = routine /\ strayed' = strayed
  BY <1>1, Zenon DEF C!Ask
<1>. QED
  BY <1>4, <1>5, Reading

\* the operations told apart, and the shape of what a request carries
LEMMA Shape ==
  ASSUME NEW q, NEW op \in Operations, NEW id, NEW O, NEW S, NEW data, Carries(q, op, id, O, S, data)
  PROVE  /\ q.op \in Operations \cup {"none"} /\ q.op # "none"
         /\ q = [op |-> q.op, id |-> q.id, offerings |-> q.offerings,
                 sections |-> q.sections, stale |-> q.stale, data |-> q.data]
<1>1. q = [op |-> op, id |-> id, offerings |-> O, sections |-> S, stale |-> FALSE, data |-> data]
  BY Zenon DEF Carries
<1>2. q = [op |-> q.op, id |-> q.id, offerings |-> q.offerings,
           sections |-> q.sections, stale |-> q.stale, data |-> q.data]
  BY ONLY <1>1
<1>3. q.op = op
  BY Zenon DEF Carries
<1>. QED
  BY <1>2, <1>3 DEF Operations

LEMMA AskSectionInv ==
  ASSUME CoursesInv, NEW r \in Handlers, NEW s \in Sections, NEW b \in Batches, C!AskSection(r, s, b)
  PROVE  CoursesInv'
<1>1. home[s] = None /\ C!Ask(r, "section", s, C!Inheriting(b), {s}, b)
  BY Zenon DEF C!AskSection, C!Unused
<1>2. C!Inheriting(b) \subseteq Offerings /\ \A o \in C!Inheriting(b) : offering[o].batch = b
  BY DEF C!Inheriting, C!OfferingsIn, C!Live, CoursesInv, CourseTypes
<1>3. ASSUME NEW q, Carries(q, "section", s, C!Inheriting(b), {s}, b)
      PROVE  Formed(q) /\ Holds(q)
  <2>1. q.op = "section" /\ q.id = s /\ q.offerings = C!Inheriting(b) /\ q.sections = {s} /\ q.data = b
    BY <1>3, Zenon DEF Carries
  <2>2. /\ q.op \in Operations \cup {"none"} /\ q.op # "none"
        /\ q = [op |-> q.op, id |-> q.id, offerings |-> q.offerings,
                sections |-> q.sections, stale |-> q.stale, data |-> q.data]
    BY <1>3, Shape DEF Operations
  <2>3. Formed(q)
    BY <1>2, <2>1, <2>2 DEF Formed
  <2>4. Holds(q)
    BY <1>1, <1>2, <2>1 DEF Holds
  <2>. QED
    BY <2>3, <2>4
<1>. QED
  BY <1>1, <1>3, RequestRead

LEMMA AskMoveInv ==
  ASSUME CoursesInv, NEW r \in Handlers, NEW s \in Sections, NEW b \in Batches, C!AskMove(r, s, b)
  PROVE  CoursesInv'
<1>1. PICK Cur, Des : Cur = C!Current(s) /\ Des = C!Desired(s, b)
  OBVIOUS
<1>2. PICK add, drop : add = (Des \ Cur) \X {s} /\ drop = (Cur \ Des) \X {s}
  OBVIOUS
<1>3. PICK data : data = [from |-> home[s], to |-> b, add |-> add, drop |-> drop]
  OBVIOUS
<1>4. data.from = home[s] /\ data.to = b /\ data.add = add /\ data.drop = drop
  BY ONLY <1>3
<1>5. /\ \A o \in Cur \ Des : C!MayLeave(o, s)
      /\ C!Ask(r, "move", s, Cur \cup Des, {s}, data)
  BY <1>1, <1>2, <1>3, Zenon DEF C!AskMove
<1>6. /\ Cur \subseteq Offerings /\ \A o \in Offerings : o \in Cur <=> <<o, s>> \in member
      /\ Des \subseteq Offerings /\ \A o \in Des : offering[o].batch = b
  BY <1>1 DEF C!Current, C!Desired, C!Inheriting, C!OfferingsIn, C!Live, CoursesInv, CourseTypes
<1>7. \A o \in Offerings : <<o, s>> \in (member \cup add) \ drop <=> o \in Des
  BY <1>2, <1>6
<1>8. ASSUME NEW e \in Firm, s \in routine[e].sections
      PROVE  <<routine[e].offering, s>> \in (member \cup add) \ drop
  <2>1. routine[e].offering \in Offerings /\ <<routine[e].offering, s>> \in member
    BY <1>8 DEF CoursesInv, Within
  <2>2. e \in C!Uses(routine[e].offering, s)
    BY <1>8 DEF C!Uses, C!Linked, C!Live, Firm, CoursesInv, CourseTypes
  <2>3. routine[e].offering \in Des
    BY <1>5, <1>6, <2>1, <2>2 DEF C!MayLeave
  <2>. QED
    BY <1>7, <2>1, <2>3
<1>9. ASSUME NEW q, Carries(q, "move", s, Cur \cup Des, {s}, data)
      PROVE  Formed(q) /\ Holds(q)
  <2>1. q.op = "move" /\ q.id = s /\ q.offerings = Cur \cup Des /\ q.sections = {s} /\ q.data = data
    BY <1>9, Zenon DEF Carries
  <2>2. /\ q.op \in Operations \cup {"none"} /\ q.op # "none"
        /\ q = [op |-> q.op, id |-> q.id, offerings |-> q.offerings,
                sections |-> q.sections, stale |-> q.stale, data |-> q.data]
    BY <1>9, Shape DEF Operations
  <2>3. Formed(q)
    BY <1>2, <1>4, <1>6, <2>1, <2>2 DEF Formed
  <2>4. Left(q) = (member \cup add) \ drop
    BY <1>4, <2>1 DEF Left
  <2>5. Holds(q)
    BY <1>4, <1>6, <1>7, <1>8, <2>1, <2>4 DEF Holds
  <2>. QED
    BY <2>3, <2>5
<1>. QED
  BY <1>5, <1>9, RequestRead

LEMMA AskOfferingInv ==
  ASSUME CoursesInv, NEW r \in Handlers, NEW o \in Offerings, NEW b \in Batches,
         NEW S \in SUBSET Sections, C!AskOffering(r, o, b, S)
  PROVE  CoursesInv'
<1>1. PICK T, B, i : T = (IF S = {} THEN C!OfBatch(b) ELSE S) /\ B = BOOLEAN /\ i = (S = {})
  OBVIOUS
<1>2. PICK data : data = [batch |-> b, inherit |-> i]
  OBVIOUS
<1>3. /\ offering[o] = None /\ S \subseteq C!OfBatch(b)
      /\ C!Ask(r, "offering", o, {o}, T, data)
  BY <1>1, <1>2, Zenon DEF C!AskOffering, C!Unused
<1>4. T \subseteq Sections /\ \A s \in T : home[s] = b
  BY <1>1, <1>3 DEF C!OfBatch
<1>5. data \in C!Offering /\ data.batch = b
  <2>1. i \in B
    BY <1>1, Zenon
  <2>2. data \in [batch : Batches, inherit : B] /\ data.batch = b
    BY ONLY <1>2, <2>1, b \in Batches
  <2>. QED
    BY <1>1, <2>2, Zenon DEF C!Offering
<1>6. ASSUME NEW q, Carries(q, "offering", o, {o}, T, data)
      PROVE  Formed(q) /\ Holds(q)
  <2>1. q.op = "offering" /\ q.id = o /\ q.offerings = {o} /\ q.sections = T /\ q.data = data
    BY <1>6, Zenon DEF Carries
  <2>2. /\ q.op \in Operations \cup {"none"} /\ q.op # "none"
        /\ q = [op |-> q.op, id |-> q.id, offerings |-> q.offerings,
                sections |-> q.sections, stale |-> q.stale, data |-> q.data]
    BY <1>6, Shape DEF Operations
  <2>3. Formed(q)
    BY <1>4, <1>5, <2>1, <2>2 DEF Formed
  <2>4. Holds(q)
    BY <1>3, <1>4, <1>5, <2>1 DEF Holds
  <2>. QED
    BY <2>3, <2>4
<1>. QED
  BY <1>3, <1>6, RequestRead

LEMMA AskUpdateInv ==
  ASSUME CoursesInv, NEW r \in Handlers, NEW o \in Offerings, NEW b \in Batches,
         NEW S \in (SUBSET Sections) \cup {C!Kept}, C!AskUpdate(r, o, b, S)
  PROVE  CoursesInv'
<1>1. PICK Old, New, B, i :
        /\ Old = C!Members(o) /\ New = C!NewMembers(b, S) /\ B = BOOLEAN
        /\ i = IF S = C!Kept THEN offering[o].inherit ELSE S = {}
  OBVIOUS
<1>2. PICK row, kept, add, drop :
        /\ row = [batch |-> b, inherit |-> i] /\ kept = (S = C!Kept)
        /\ add = {o} \X (New \ Old) /\ drop = {o} \X (Old \ New)
  OBVIOUS
<1>3. PICK data : data = [found |-> offering[o], row |-> row, kept |-> kept, add |-> add, drop |-> drop]
  OBVIOUS
<1>4. data.found = offering[o] /\ data.row = row /\ data.add = add /\ data.drop = drop
  BY ONLY <1>3
<1>5. /\ offering[o] # None /\ (S = C!Kept \/ S \subseteq C!OfBatch(b))
      /\ \A s \in Old \ New : C!MayLeave(o, s)
      /\ C!Ask(r, "update", o, {o}, Old \cup New, data)
  BY <1>1, <1>2, <1>3, Zenon DEF C!AskUpdate
<1>6. /\ Old \subseteq Sections /\ \A s \in Sections : s \in Old <=> <<o, s>> \in member
      /\ New \subseteq Sections /\ \A s \in New : home[s] = b
  BY <1>1, <1>5 DEF C!Members, C!NewMembers, C!OfBatch
<1>7. offering[o] \in C!Offering /\ row \in C!Offering /\ row.batch = b
  <2>1. offering[o] \in C!Offering
    BY <1>5, OfferingRow DEF CoursesInv
  <2>2. offering[o] \in [batch : Batches, inherit : B]
    BY <1>1, <2>1, Zenon DEF C!Offering
  <2>3. offering[o].inherit \in B
    BY ONLY <2>2
  <2>4. i \in B
    <3>1. CASE S = C!Kept
      BY <1>1, <2>3, <3>1, Zenon
    <3>2. CASE S # C!Kept
      <4>1. i = (S = {})
        BY <1>1, <3>2, Zenon
      <4>. QED
        BY <1>1, <4>1, Zenon
    <3>. QED
      BY <3>1, <3>2, Zenon
  <2>5. row \in [batch : Batches, inherit : B] /\ row.batch = b
    <3>1. row = [batch |-> b, inherit |-> i]
      BY <1>2, Zenon
    <3>. QED
      BY ONLY <2>4, <3>1, b \in Batches
  <2>. QED
    BY <1>1, <2>1, <2>5, Zenon DEF C!Offering
<1>8. \A s \in Sections : <<o, s>> \in (member \cup add) \ drop <=> s \in New
  <2>1. add = {o} \X (New \ Old) /\ drop = {o} \X (Old \ New)
    BY <1>2, Zenon
  <2>. QED
    BY ONLY <1>6, <2>1
<1>9. ASSUME NEW e \in Firm, routine[e].offering = o, NEW s \in routine[e].sections
      PROVE  <<o, s>> \in (member \cup add) \ drop
  <2>1. e \in Routines /\ routine[e] # None /\ <<o, s>> \in member
    BY <1>9 DEF Firm, CoursesInv, Within
  <2>2. s \in Sections
    BY <2>1, <1>9, EntryRow DEF CoursesInv
  <2>3. e \in C!Uses(o, s)
    BY <1>9, <2>1 DEF C!Uses, C!Linked, C!Live, CoursesInv, CourseTypes
  <2>4. s \in New
    BY <1>5, <1>6, <2>1, <2>2, <2>3 DEF C!MayLeave
  <2>. QED
    BY <1>8, <2>2, <2>4
<1>10. ASSUME NEW q, Carries(q, "update", o, {o}, Old \cup New, data)
       PROVE  Formed(q) /\ Holds(q)
  <2>1. q.op = "update" /\ q.id = o /\ q.offerings = {o} /\ q.sections = Old \cup New /\ q.data = data
    BY <1>10, Zenon DEF Carries
  <2>2. /\ q.op \in Operations \cup {"none"} /\ q.op # "none"
        /\ q = [op |-> q.op, id |-> q.id, offerings |-> q.offerings,
                sections |-> q.sections, stale |-> q.stale, data |-> q.data]
    BY <1>10, Shape DEF Operations
  <2>3. q.data.add \subseteq {o} \X q.sections /\ q.data.drop \subseteq {o} \X q.sections
    <3>1. add = {o} \X (New \ Old) /\ drop = {o} \X (Old \ New)
      BY <1>2, Zenon
    <3>. QED
      BY ONLY <1>4, <2>1, <3>1
  <2>4. Formed(q)
    BY <1>4, <1>6, <1>7, <2>1, <2>2, <2>3 DEF Formed
  <2>5. Left(q) = (member \cup add) \ drop
    BY <1>4, <2>1, Zenon DEF Left
  <2>6. Holds(q)
    <3>1. offering[q.id] = q.data.found /\ q.data.row.batch = b
      BY <1>4, <1>7, <2>1
    <3>2. \A s \in Sections : <<q.id, s>> \in member => s \in q.sections
      BY <1>6, <2>1
    <3>3. \A s \in Sections : <<q.id, s>> \in Left(q) => home[s] = q.data.row.batch
      BY <1>6, <1>8, <2>1, <2>5, <3>1
    <3>4. \A e \in Firm : routine[e].offering = q.id =>
            \A s \in routine[e].sections : <<q.id, s>> \in Left(q)
      BY <1>9, <2>1, <2>5
    <3>. QED
      BY <2>1, <3>1, <3>2, <3>3, <3>4 DEF Holds
  <2>. QED
    BY <2>4, <2>6
<1>. QED
  BY <1>5, <1>10, RequestRead

LEMMA AskRemovalInv ==
  ASSUME CoursesInv, NEW r \in Handlers, NEW o \in Offerings, C!AskRemoval(r, o)
  PROVE  CoursesInv'
<1>1. C!Linked(o) = {} /\ C!Ask(r, "removal", o, {o}, {}, None)
  BY Zenon DEF C!AskRemoval, C!Deletable
<1>2. \A e \in Firm : routine[e].offering # o
  BY <1>1 DEF Firm, C!Linked, C!Live, CoursesInv, CourseTypes
<1>3. ASSUME NEW q, Carries(q, "removal", o, {o}, {}, None)
      PROVE  Formed(q) /\ Holds(q)
  <2>1. q.op = "removal" /\ q.id = o /\ q.offerings = {o} /\ q.sections = {}
    BY <1>3, Zenon DEF Carries
  <2>2. /\ q.op \in Operations \cup {"none"} /\ q.op # "none"
        /\ q = [op |-> q.op, id |-> q.id, offerings |-> q.offerings,
                sections |-> q.sections, stale |-> q.stale, data |-> q.data]
    BY <1>3, Shape DEF Operations
  <2>3. Formed(q)
    BY <2>1, <2>2 DEF Formed
  <2>4. Holds(q)
    BY <1>2, <2>1 DEF Holds
  <2>. QED
    BY <2>3, <2>4
<1>. QED
  BY <1>1, <1>3, RequestRead

\* a request about an entry has found that its sections resolve to an offering
LEMMA Resolved ==
  ASSUME CourseTypes, NEW e \in Routines, NEW o \in Offerings, NEW S \in SUBSET Sections, C!Resolves(o, S),
         NEW op \in {"entry", "merge", "change"}, NEW data, NEW q, Carries(q, op, e, {o}, S, data),
         op = "merge" => routine[e].offering = o,
         op = "change" => routine[e] # None /\ data = routine[e]
  PROVE  Formed(q) /\ Holds(q)
<1>1. q.op = op /\ q.id = e /\ q.offerings = {o} /\ q.sections = S /\ q.data = data
  BY Zenon DEF Carries
<1>2. /\ q.op \in Operations \cup {"none"} /\ q.op # "none"
      /\ q = [op |-> q.op, id |-> q.id, offerings |-> q.offerings,
              sections |-> q.sections, stale |-> q.stale, data |-> q.data]
  <2>1. op \in Operations
    BY DEF Operations
  <2>. QED
    BY <2>1, Shape
<1>3. op = "change" => data \in C!Entry
  BY EntryRow
<1>4. Formed(q)
  <2>1. S # {} /\ q.offerings \subseteq Offerings /\ q.sections \subseteq Sections
    BY <1>1 DEF C!Resolves
  <2>2. \E x \in Offerings : q.offerings = {x}
    BY <1>1
  <2>. QED
    BY <1>1, <1>2, <1>3, <2>1, <2>2 DEF Formed
<1>5. offering[o] # None /\ \A s \in S : <<o, s>> \in member /\ home[s] = offering[o].batch
  BY DEF C!Resolves, C!Members
<1>6. Holds(q)
  BY <1>1, <1>5 DEF Holds
<1>. QED
  BY <1>4, <1>6

LEMMA AskPlanningInv ==
  ASSUME CoursesInv, NEW r \in Handlers, NEW e \in Routines, NEW o \in Offerings,
         NEW S \in SUBSET Sections,
         C!AskEntry(r, e, o, S) \/ C!AskMerge(r, e, o, S) \/ C!AskChange(r, e, o, S)
  PROVE  CoursesInv'
<1>1. CourseTypes
  BY DEF CoursesInv
<1>2. CASE C!AskEntry(r, e, o, S)
  <2>1. C!Resolves(o, S) /\ C!Ask(r, "entry", e, {o}, S, None)
    BY <1>2, Zenon DEF C!AskEntry
  <2>2. ASSUME NEW q, Carries(q, "entry", e, {o}, S, None) PROVE Formed(q) /\ Holds(q)
    BY <1>1, <2>1, <2>2, Resolved
  <2>. QED
    BY <2>1, <2>2, RequestRead
<1>3. CASE C!AskMerge(r, e, o, S)
  <2>1. C!Resolves(o, S) /\ C!Ask(r, "merge", e, {o}, S, None) /\ routine[e].offering = o
    BY <1>3, Zenon DEF C!AskMerge
  <2>2. ASSUME NEW q, Carries(q, "merge", e, {o}, S, None) PROVE Formed(q) /\ Holds(q)
    BY <1>1, <2>1, <2>2, Resolved
  <2>. QED
    BY <2>1, <2>2, RequestRead
<1>4. CASE C!AskChange(r, e, o, S)
  <2>1. C!Resolves(o, S) /\ C!Ask(r, "change", e, {o}, S, routine[e]) /\ routine[e] # None
    BY <1>4, Zenon DEF C!AskChange
  <2>2. ASSUME NEW q, Carries(q, "change", e, {o}, S, routine[e]) PROVE Formed(q) /\ Holds(q)
    BY <1>1, <2>1, <2>2, Resolved
  <2>. QED
    BY <2>1, <2>2, RequestRead
<1>. QED
  BY <1>2, <1>3, <1>4

LEMMA AbandonInv ==
  ASSUME CoursesInv, NEW r \in Handlers, C!Abandon(r)
  PROVE  CoursesInv'
<1>1. /\ work' = [work EXCEPT ![r] = C!Free] /\ home' = home /\ offering' = offering
      /\ member' = member /\ routine' = routine /\ strayed' = strayed
  BY Zenon DEF C!Abandon
<1>. QED
  BY <1>1, FreeFits, Reading

LEMMA CoursesStart == ASSUME C!Init PROVE CoursesInv
<1>1. /\ home = [s \in Sections |-> None] /\ offering = [o \in Offerings |-> None]
      /\ member = {} /\ routine = [e \in Routines |-> None] /\ strayed = {}
      /\ work = [r \in Handlers |-> C!Free]
  BY Zenon DEF C!Init
<1>2. CourseTypes /\ InBatch
  BY <1>1 DEF CourseTypes, InBatch
<1>3. Within
  BY <1>1 DEF Within, Firm
<1>4. WorkInv
  <2>1. \A r \in Handlers : work[r] = C!Free
    BY <1>1, Zenon
  <2>2. work = [r \in Handlers |-> work[r]]
    BY <1>1, <2>1, Zenon
  <2>. QED
    BY <2>1, <2>2, FreeFits, Zenon DEF WorkInv
<1>. QED
  BY <1>2, <1>3, <1>4 DEF CoursesInv

LEMMA CoursesStep == ASSUME CoursesInv, [C!Next]_C!courseVars PROVE CoursesInv'
<1>1. ASSUME C!Sectioning PROVE CoursesInv'
  <2>1. ASSUME NEW r \in Handlers, NEW s \in Sections, NEW b \in Batches, C!AskSection(r, s, b)
        PROVE  CoursesInv'
    BY <2>1, AskSectionInv
  <2>2. ASSUME NEW r \in Handlers, NEW s \in Sections, NEW b \in Batches, C!AskMove(r, s, b)
        PROVE  CoursesInv'
    BY <2>2, AskMoveInv
  <2>3. ASSUME NEW r \in Handlers, C!CreateSection(r) \/ C!MoveSection(r) \/ C!Abandon(r)
        PROVE  CoursesInv'
    BY <2>3, CreateSectionInv, MoveSectionInv, AbandonInv
  <2>4. ASSUME NEW s \in Sections, C!DeleteSection(s) PROVE CoursesInv'
    BY <2>4, DeleteSectionInv
  <2>. QED
    BY <1>1, <2>1, <2>2, <2>3, <2>4, Zenon DEF C!Sectioning
<1>2. ASSUME C!Assigning PROVE CoursesInv'
  <2>1. ASSUME NEW r \in Handlers, NEW o \in Offerings, NEW b \in Batches, NEW S \in SUBSET Sections,
               C!AskOffering(r, o, b, S)
        PROVE  CoursesInv'
    BY <2>1, AskOfferingInv
  <2>2. ASSUME NEW r \in Handlers, NEW o \in Offerings, NEW b \in Batches,
               NEW S \in (SUBSET Sections) \cup {C!Kept}, C!AskUpdate(r, o, b, S)
        PROVE  CoursesInv'
    BY <2>2, AskUpdateInv
  <2>3. ASSUME NEW r \in Handlers, NEW o \in Offerings, C!AskRemoval(r, o) PROVE CoursesInv'
    BY <2>3, AskRemovalInv
  <2>4. ASSUME NEW r \in Handlers,
               C!CreateOffering(r) \/ C!UpdateOffering(r) \/ C!RemoveOffering(r)
        PROVE  CoursesInv'
    BY <2>4, CreateOfferingInv, UpdateOfferingInv, RemoveOfferingInv
  <2>. QED
    BY <1>2, <2>1, <2>2, <2>3, <2>4, Zenon DEF C!Assigning
<1>3. ASSUME C!Planning PROVE CoursesInv'
  <2>1. ASSUME NEW r \in Handlers, NEW e \in Routines, NEW o \in Offerings, NEW S \in SUBSET Sections,
               C!AskEntry(r, e, o, S) \/ C!AskMerge(r, e, o, S) \/ C!AskChange(r, e, o, S)
        PROVE  CoursesInv'
    BY <2>1, AskPlanningInv
  <2>2. ASSUME NEW r \in Handlers, C!CreateEntry(r) \/ C!MergeEntry(r) \/ C!ChangeEntry(r)
        PROVE  CoursesInv'
    BY <2>2, CreateEntryInv, MergeEntryInv, ChangeEntryInv
  <2>3. ASSUME NEW e \in Routines, C!DeleteEntry(e) PROVE CoursesInv'
    BY <2>3, DeleteEntryInv
  <2>. QED
    BY <1>3, <2>1, <2>2, <2>3, Zenon DEF C!Planning
<1>4. ASSUME UNCHANGED C!courseVars PROVE CoursesInv'
  <2>1. /\ home' = home /\ offering' = offering /\ member' = member /\ routine' = routine
        /\ strayed' = strayed /\ work' = work
    BY <1>4 DEF C!courseVars
  <2>2. CourseTypes' /\ InBatch' /\ Within' /\ Firm' = Firm
    BY <2>1 DEF CoursesInv, CourseTypes, InBatch, Within, Firm
  <2>3. ASSUME NEW x, Holds(x) PROVE Holds(x)'
    <3>1. Left(x)' = Left(x)
      BY <2>1 DEF Left
    <3>. QED
      BY <2>1, <2>2, <2>3, <3>1, ZenonT(60) DEF Holds
  <2>4. WorkInv'
    BY <2>1, <2>3, Zenon DEF CoursesInv, WorkInv
  <2>. QED
    BY <2>2, <2>4 DEF CoursesInv
<1>. QED
  BY <1>1, <1>2, <1>3, <1>4 DEF C!Next

-----------------------------------------------------------------------------
(***************************************************************************)
(* The invariant of the courses (module_offering_service.py, router.py and *)
(* routine_router.py): rows refer to rows there are, a batch has one       *)
(* offering of the course, a request nobody has overtaken finds what it    *)
(* has read, and what no overtaken request has written is in order, for    *)
(* any number of sections, offerings, entries and requests at a time.      *)
(***************************************************************************)
THEOREM CoursesInvariance == C!Spec => []CoursesInv
<1>1. C!Init => CoursesInv
  BY CoursesStart
<1>2. CoursesInv /\ [C!Next]_C!courseVars => CoursesInv'
  BY CoursesStep
<1>. QED
  BY <1>1, <1>2, PTL DEF C!Spec

\* Members of an offering are sections of its batch ("Keep offering membership
\* inside its cohort", synchronize_offering_sections), whichever sections move
\* and offerings change, unless an overtaken request wrote the offering.
THEOREM MembersStay == C!Spec => []MembersInBatch
<1>1. CoursesInv => MembersInBatch
  BY InvShows DEF MembersInBatch
<1>. QED
  BY <1>1, CoursesInvariance, PTL

\* A routine entry stays within an offering, its sections among the members
\* (validate_routine_entry_module_offering), whatever is created, moved, merged,
\* changed or deleted meanwhile, unless an overtaken request wrote it.
THEOREM EntriesStay == C!Spec => []EntryWithinOffering
<1>1. CoursesInv => EntryWithinOffering
  BY InvShows DEF EntryWithinOffering
<1>. QED
  BY <1>1, CoursesInvariance, PTL

\* Placements, memberships and entries refer to rows there are, and a batch has
\* one offering of the course (the types of Enrollment and Courses together).
THEOREM AcademicTypes == Spec /\ C!Spec => []AcademicTypeOK
<1>1. CoursesInv => C!TypeOK
  BY InvShows
<1>2. TypeOK /\ C!TypeOK => AcademicTypeOK
  BY DEF AcademicTypeOK
<1>. QED
  BY <1>1, <1>2, EnrollmentTypes, CoursesInvariance, PTL

\* The instance the runs check moves one part at a time and leaves the others
\* as they are: each part behaves as its own specification says, so what is
\* proved of Enrollment, Courses and Assistant holds of the instance.
THEOREM InstanceOfAll == AcademicSpec => Spec /\ C!Spec /\ A!Spec
<1>1. AcademicInit => Init /\ C!Init /\ A!Init
  BY Zenon DEF AcademicInit
<1>2. [AcademicNext]_<<part, vars, courseVars, assistantVars>> => [Next]_vars
  BY Zenon DEF AcademicNext
<1>3. [AcademicNext]_<<part, vars, courseVars, assistantVars>> => [C!Next]_C!courseVars
  <2>1. UNCHANGED courseVars => UNCHANGED C!courseVars
    BY Zenon DEF courseVars, C!courseVars
  <2>2. UNCHANGED <<part, vars, courseVars, assistantVars>> => UNCHANGED courseVars
    BY Zenon
  <2>. QED
    BY <2>1, <2>2, Zenon DEF AcademicNext
<1>4. [AcademicNext]_<<part, vars, courseVars, assistantVars>> => [A!Next]_A!assistantVars
  <2>1. UNCHANGED assistantVars => UNCHANGED A!assistantVars
    BY Zenon DEF assistantVars, A!assistantVars
  <2>2. UNCHANGED <<part, vars, courseVars, assistantVars>> => UNCHANGED assistantVars
    BY Zenon
  <2>. QED
    BY <2>1, <2>2, Zenon DEF AcademicNext
<1>. QED
  BY <1>1, <1>2, <1>3, <1>4, PTL DEF AcademicSpec, Spec, C!Spec, A!Spec
=============================================================================
