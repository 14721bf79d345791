----------------------------- MODULE MCAcademic -----------------------------
(***************************************************************************)
(* The instance TLC checks of the academic registry: enrollment, the       *)
(* courses sections attend, and the administrator's assistant.  No two of  *)
(* them write the same table here, so each is explored with the others at  *)
(* rest: part tells which one moves.                                       *)
(***************************************************************************)
EXTENDS Enrollment, TLC

CONSTANTS Batches, Offerings, Routines, MaxCourseEdits,
          Names, Unique, Providers, MaxRounds, MaxApprovals, MaxCopies

VARIABLES part,
          home, offering, member, routine, strayed, work, courseEdits,
          approval, copies, applied, turn

C == INSTANCE Courses WITH Clerks <- Handlers, MaxEdits <- MaxCourseEdits, edits <- courseEdits
A == INSTANCE Assistant WITH Users <- Handlers

ASSUME CoursesOfAcademic == C!CoursesAssumption

courseVars == <<home, offering, member, routine, strayed, work, courseEdits>>
assistantVars == <<approval, copies, applied, turn>>

\* The parts at rest start, and stay, in one of their initial states.
AcademicInit ==
  /\ part \in {"enrollment", "courses", "assistant"}
  /\ Init /\ C!Init /\ A!Init
  /\ part # "enrollment" => section = [s \in Students |-> None]

AcademicNext ==
  \/ part = "enrollment" /\ Next /\ UNCHANGED <<part, courseVars, assistantVars>>
  \/ part = "courses" /\ C!Next /\ UNCHANGED <<part, vars, assistantVars>>
  \/ part = "assistant" /\ A!Next /\ UNCHANGED <<part, vars, courseVars>>

AcademicSpec == AcademicInit /\ [][AcademicNext]_<<part, vars, courseVars, assistantVars>>

\* Types; placements, sections, offerings and entries refer to rows there are,
\* and a batch has one offering of the course (Enrollment, Courses).
AcademicTypeOK == TypeOK /\ C!TypeOK

\* Members of an offering are sections of its batch (Courses).
MembersInBatch == C!MembersInBatch

\* An entry stays within its offering, its sections among the members (Courses).
EntryWithinOffering == C!EntryWithinOffering

\* A confirmation never adds a second row of a name it had seen (Assistant).
NoSecondCopy == A!NoSecondCopy

Symmetry == UNION {Permutations(S) : S \in {Handlers, Sections, Batches}}
=============================================================================
