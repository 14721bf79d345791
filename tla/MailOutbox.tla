------------------------------ MODULE MailOutbox ------------------------------
(***************************************************************************)
(* What the notifications table promises of a mail, whatever the workers   *)
(* do and whenever they die: copies go out only while it is not settled    *)
(* and with its original text, it is settled as sent only after a copy     *)
(* went out, it is recorded as tried at most MaxTries times, and a sent    *)
(* mail is closed for good.                                                *)
(***************************************************************************)
EXTENDS Naturals

CONSTANTS Mails, Secret, Alerts, MaxTries

VARIABLES
  box,     \* "none", "waiting", "failed" or "sent"
  tries,   \* how often a try was recorded
  copies,  \* how many copies went out
  wiped,   \* the text has been replaced by a note without the link
  heard    \* the outcomes the threshold alert of this mail was told

Unsettled(m) == box[m] \in {"waiting", "failed"}

Tell(m, outcome) ==
  heard' = IF m \in Alerts THEN [heard EXCEPT ![m] = @ \cup {outcome}] ELSE heard

Init ==
  /\ box = [m \in Mails |-> "none"]
  /\ tries = [m \in Mails |-> 0] /\ copies = [m \in Mails |-> 0]
  /\ wiped = [m \in Mails |-> FALSE] /\ heard = [m \in Mails |-> {}]

Accept(m) ==
  /\ box[m] = "none" /\ box' = [box EXCEPT ![m] = "waiting"]
  /\ UNCHANGED <<tries, copies, wiped, heard>>

Copy(m) ==
  /\ Unsettled(m) /\ ~wiped[m]
  /\ copies' = [copies EXCEPT ![m] = @ + 1]
  /\ UNCHANGED <<box, tries, wiped, heard>>

Sent(m) ==
  /\ Unsettled(m) /\ copies[m] > 0 /\ tries[m] < MaxTries
  /\ box' = [box EXCEPT ![m] = "sent"]
  /\ tries' = [tries EXCEPT ![m] = @ + 1]
  /\ wiped' = [wiped EXCEPT ![m] = m \in Secret]
  /\ Tell(m, "sent")
  /\ UNCHANGED copies

Failed(m) ==
  /\ Unsettled(m) /\ tries[m] < MaxTries
  /\ box' = [box EXCEPT ![m] = "failed"]
  /\ tries' = [tries EXCEPT ![m] = @ + 1]
  /\ Tell(m, "failed")
  /\ UNCHANGED <<copies, wiped>>

Next == \E m \in Mails : Accept(m) \/ Copy(m) \/ Sent(m) \/ Failed(m)

Spec == Init /\ [][Next]_<<box, tries, copies, wiped, heard>>
=============================================================================
