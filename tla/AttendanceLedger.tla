--------------------------- MODULE AttendanceLedger ---------------------------
(***************************************************************************)
(* What the attendance of one class session promises, whatever the order   *)
(* in which students, the teacher and the clock act: a register with one   *)
(* entry per student, written by the student only while the session is     *)
(* open and the entry blank, by the closing of the session only where it   *)
(* is blank, and changed afterwards by the teacher alone.                  *)
(***************************************************************************)
CONSTANTS Students, OnLeave, ManualStatuses

VARIABLES
  phase,   \* "none", "active" or "completed"
  entry    \* the record of each student

Blank(s) == entry[s].status = "none"

ByTeacher(st) == [status |-> st, method |-> "manual"]

AtClosing(s) == [status |-> IF s \in OnLeave THEN "leave" ELSE "absent",
                 method |-> "finalization"]

Closed == [s \in Students |-> IF Blank(s) THEN AtClosing(s) ELSE entry[s]]

Init ==
  /\ phase = "none"
  /\ entry = [s \in Students |-> [status |-> "none", method |-> "none"]]

Open ==
  /\ phase = "none" /\ phase' = "active"
  /\ UNCHANGED entry

CheckIn(s, method) ==
  /\ phase = "active" /\ Blank(s)
  /\ entry' = [entry EXCEPT ![s] = [status |-> "present", method |-> method]]
  /\ UNCHANGED phase

\* by the teacher, in any phase; the first mark opens the register
Mark(s, st) ==
  /\ phase' = IF phase = "none" THEN "active" ELSE phase
  /\ entry' = [entry EXCEPT ![s] = ByTeacher(st)]

Close ==
  /\ phase = "active" /\ phase' = "completed"
  /\ entry' = Closed

\* the teacher corrects an entry of an earlier day
CloseAndMark(s, st) ==
  /\ phase # "none" /\ ~Blank(s)
  /\ phase' = "completed"
  /\ entry' = [Closed EXCEPT ![s] = ByTeacher(st)]

Next ==
  \/ Open \/ Close
  \/ \E s \in Students : \/ CheckIn(s, "qr") \/ CheckIn(s, "code")
  \/ \E s \in Students, st \in ManualStatuses \cup {"present"} :
       Mark(s, st) \/ CloseAndMark(s, st)

Spec == Init /\ [][Next]_<<phase, entry>>
=============================================================================
