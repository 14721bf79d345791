---------------------------- MODULE Assistant ----------------------------
(***************************************************************************)
(* The administrator's assistant (backend/app/modules/agent).  A chat asks *)
(* the configured model providers in turn, round after round; a write the  *)
(* model asks for becomes a proposal, kept as a pending AgentApproval, and *)
(* nothing else.  Confirming the approval validates the proposal again and *)
(* applies it; cancelling it ends it.  Neither locks the approval.         *)
(*                                                                         *)
(* What is created (a program, a batch, an intake, a section, a semester)  *)
(* is a name.  A unique constraint keeps the names in Unique apart: all but*)
(* a batch whose intake codes there are already (academic/models.py).      *)
(* Applying a promotion is Promote of Enrollment.                          *)
(***************************************************************************)
EXTENDS Naturals

CONSTANTS
  Names,        \* names of things to create
  Unique,       \* names the database keeps unique: all but batches
  Providers,    \* how many model providers are configured
  MaxRounds,    \* settings.ai_max_tool_rounds
  MaxApprovals, \* bound: approvals
  MaxCopies,    \* bound: rows of one name
  Users         \* requests the server works on at a time

VARIABLES
  approval,  \* approval[a]: the rows of agent_approvals in the order of their ids
  copies,    \* copies[n]: how many rows have the name n
  applied,   \* history, applied[a]: how often approval a was applied
  turn       \* turn[u]: what request u holds

assistantVars == <<approval, copies, applied, turn>>

Approvals == 1..MaxApprovals
Quiet == [op |-> "none"]
NoApproval == [name |-> "", status |-> "none"]

Begin(u, t) == turn[u] = Quiet /\ turn' = [turn EXCEPT ![u] = t]
Close(u) == turn' = [turn EXCEPT ![u] = Quiet]

(***************************************************************************)
(* A chat                                                                  *)
(***************************************************************************)

\* call_model at round k: the first provider is asked.
Asking(k) == [op |-> "chat", round |-> k, provider |-> 1]

Chat(u) ==
  /\ Begin(u, Asking(0))
  /\ UNCHANGED <<approval, copies, applied>>

Chatting(u) == turn[u].op = "chat" /\ turn[u].round < MaxRounds

\* A provider fails and the next one is asked; after the last the chat ends.
ProviderFails(u) ==
  /\ Chatting(u)
  /\ turn' = [turn EXCEPT ![u] = IF turn[u].provider < Providers
                               THEN [turn[u] EXCEPT !.provider = @ + 1] ELSE Quiet]
  /\ UNCHANGED <<approval, copies, applied>>

\* The model answers, or asks for several writes at once: the chat ends, as it
\* does at the safe tool limit.
Answer(u) ==
  /\ turn[u].op = "chat"
  /\ Close(u)
  /\ UNCHANGED <<approval, copies, applied>>

\* Only reading tools are called, or a proposal is refused: another round.
Read(u) ==
  /\ Chatting(u)
  /\ turn' = [turn EXCEPT ![u] = Asking(@.round + 1)]
  /\ UNCHANGED <<approval, copies, applied>>

Free(a) == approval[a] = NoApproval /\ \A b \in 1..(a - 1) : approval[b] # NoApproval

\* The model proposes to create n, which does not exist: the approval is
\* stored and the chat ends with it.
Propose(u, n) ==
  /\ Chatting(u) /\ copies[n] = 0
  /\ \E a \in Approvals :
       /\ Free(a)
       /\ approval' = [approval EXCEPT ![a] = [name |-> n, status |-> "pending"]]
  /\ Close(u)
  /\ UNCHANGED <<copies, applied>>

(***************************************************************************)
(* Deciding on a proposal                                                  *)
(***************************************************************************)

\* Whether a decision finds the approval it was given.
Decidable(a) == approval[a].status = "pending"

\* The mistake of trusting the check made when it was proposed.
AlwaysValid(a) == TRUE

\* Whether what approval a proposes may still be created.
Valid(a) == copies[approval[a].name] = 0

AskConfirm(u, a) ==
  /\ Decidable(a) /\ Valid(a)
  /\ Begin(u, [op |-> "confirm", approval |-> a, stale |-> FALSE])
  /\ UNCHANGED <<approval, copies, applied>>

AskCancel(u, a) ==
  /\ Decidable(a)
  /\ Begin(u, [op |-> "cancel", approval |-> a])
  /\ UNCHANGED <<approval, copies, applied>>

\* Confirmations whose check of name n an insertion makes stale.
Overtake(n, u) ==
  turn' = [v \in Users |->
             IF v = u THEN Quiet
             ELSE IF turn[v].op = "confirm" /\ approval[turn[v].approval].name = n
                  THEN [turn[v] EXCEPT !.stale = TRUE]
                  ELSE turn[v]]

\* The action and the status of the approval are committed together.
Confirm(u) ==
  /\ turn[u].op = "confirm"
  /\ LET a == turn[u].approval
         n == approval[a].name IN
       /\ n \in Unique => copies[n] = 0
       /\ copies[n] < MaxCopies
       /\ copies' = [copies EXCEPT ![n] = @ + 1]
       /\ approval' = [approval EXCEPT ![a].status = "approved"]
       /\ applied' = [applied EXCEPT ![a] = @ + 1]
       /\ Overtake(n, u)

\* The unique constraint refuses the row, or the process dies: all is undone.
Undo(u) ==
  /\ turn[u].op \in {"confirm", "cancel"}
  /\ Close(u)
  /\ UNCHANGED <<approval, copies, applied>>

Cancel(u) ==
  /\ turn[u].op = "cancel"
  /\ approval' = [approval EXCEPT ![turn[u].approval].status = "cancelled"]
  /\ Close(u)
  /\ UNCHANGED <<copies, applied>>

(***************************************************************************)
(* Administrators create and delete without the assistant.  A batch is not *)
(* looked for first.                                                       *)
(***************************************************************************)
Create(n) ==
  /\ copies[n] < IF n \in Unique THEN 1 ELSE MaxCopies
  /\ copies' = [copies EXCEPT ![n] = @ + 1]
  /\ turn' = [v \in Users |->
                IF turn[v].op = "confirm" /\ approval[turn[v].approval].name = n
                THEN [turn[v] EXCEPT !.stale = TRUE] ELSE turn[v]]
  /\ UNCHANGED <<approval, applied>>

Delete(n) ==
  /\ copies[n] > 0
  /\ copies' = [copies EXCEPT ![n] = @ - 1]
  /\ UNCHANGED <<approval, applied, turn>>

Init ==
  /\ approval = [a \in Approvals |-> NoApproval]
  /\ copies = [n \in Names |-> 0]
  /\ applied = [a \in Approvals |-> 0]
  /\ turn = [u \in Users |-> Quiet]

Next ==
  \/ \E u \in Users : Chat(u) \/ ProviderFails(u) \/ Answer(u) \/ Read(u)
  \/ \E u \in Users, n \in Names : Propose(u, n)
  \/ \E u \in Users, a \in Approvals : AskConfirm(u, a) \/ AskCancel(u, a)
  \/ \E u \in Users : Confirm(u) \/ Cancel(u) \/ Undo(u)
  \/ \E n \in Names : Create(n) \/ Delete(n)

Spec == Init /\ [][Next]_assistantVars

----------------------------------------------------------------------------
\* The claim that an approval serves once ("one-use", AI_AGENT.md:49 and
\* agent/models.py:11), for what no unique constraint keeps apart.
ApprovalUsedOnce == \A a \in Approvals : applied[a] <= 1

\* A confirmation never adds a second row of a name, however long ago the
\* proposal was made and whatever administrators created since, unless the row
\* was inserted after the confirmation had looked (_apply_action).
NoSecondCopy ==
  [][\A u \in Users :
       (turn[u].op = "confirm" /\ ~turn[u].stale /\ turn'[u] = Quiet)
         => copies'[approval[turn[u].approval].name] <= 1
              \/ copies' = copies]_assistantVars
=============================================================================
