------------------------------ MODULE MCSingleUse ------------------------------
(***************************************************************************)
(* The two places that promise to use something once: the authorization    *)
(* links of GoogleWorkspace and the approvals of Assistant. Here both      *)
(* move, each with the same number of requests.                            *)
(***************************************************************************)
EXTENDS GoogleWorkspace

CONSTANTS Names, Unique, Providers, MaxRounds, MaxApprovals, MaxCopies

VARIABLES approval, copies, applied, turn

A == INSTANCE Assistant WITH Users <- Calls

assistantVars == <<approval, copies, applied, turn>>

OnceInit == Init /\ A!Init

OnceNext ==
  \/ Next /\ UNCHANGED assistantVars
  \/ A!Next /\ UNCHANGED vars

OnceSpec == OnceInit /\ [][OnceNext]_<<vars, assistantVars>>

\* One of the two claims of single use holds (google_workspace/service.py:145-146;
\* AI_AGENT.md:49).
LinkOrApprovalUsedOnce == LinkUsedOnce \/ A!ApprovalUsedOnce
=============================================================================
