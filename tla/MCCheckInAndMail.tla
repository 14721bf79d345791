--------------------------- MODULE MCCheckInAndMail ---------------------------
(***************************************************************************)
(* The instance TLC checks of the two kinds of process that are deployed:  *)
(* the API with the handlers of a class session, and the mail workers. The *)
(* session and the notifications table share no row, so each is explored   *)
(* with the other at rest: moving tells which one moves. A handler or a    *)
(* worker at rest has nothing to do, so fairness asks nothing of it.       *)
(***************************************************************************)
EXTENDS CheckIn, NotificationWorker

VARIABLE moving

ServicesInit == moving \in {"session", "mail"} /\ Init /\ MailInit

\* Codes are told apart by equality only, so the first one drawn may be any: TLC
\* is given one, which halves the states of a run too temporal for SYMMETRY.
FirstCode == CHOOSE c \in Codes : TRUE

ServicesNext ==
  \/ /\ moving = "session" /\ Next
     /\ challenge'[1].code \in {NoChallenge.code, FirstCode}
     /\ UNCHANGED <<moving, mailVars>>
  \/ moving = "mail" /\ MailNext /\ UNCHANGED <<moving, vars>>

\* Whoever moves is scheduled as the components say.
ServicesFairness ==
  /\ \A r \in Requests : SF_vars(moving = "session" /\ Progress(r))
  /\ \A w \in Workers : WF_mailVars(moving = "mail" /\ Work(w))
  /\ \A m \in Mails : WF_mailVars(moving = "mail" /\ RetryDelayPasses(m))

ServicesSpec ==
  /\ ServicesInit /\ [][ServicesNext]_<<moving, vars, mailVars>>
  /\ ServicesFairness
=============================================================================
