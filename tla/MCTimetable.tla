---------------------------- MODULE MCTimetable ----------------------------
(***************************************************************************)
(* The instance TLC checks of the timetable: the plan with its changes,    *)
(* and the worksheets imported into it. Places are left out of the latter  *)
(* and sections out of the former, so each is explored with the other at   *)
(* rest: part tells which one moves.                                       *)
(***************************************************************************)
EXTENDS Timetable, TLC

CONSTANTS Kinds, Physical, MaxRows, MaxChanges

ASSUME RowsAssumption == MaxRows \in Nat

VARIABLES part,
          ready, entry, link, waiting, resolved, claimed, strayed, job, uploaded, changes

\* The worksheets use the plan's model values as identifiers of their own, so
\* that one group of permutations serves both parts.
I == INSTANCE Imports WITH Importers <- Requests, Names <- Places, Entries <- Days

importVars ==
  <<ready, entry, link, waiting, resolved, claimed, strayed, job, uploaded, changes>>

TimetableInit ==
  /\ part \in {"plan", "imports"}
  /\ Init /\ I!Init
  /\ part = "plan" => ready = {}
  /\ part = "imports" => \A c \in Classes : ~Exists(c)

TimetableNext ==
  \/ part = "plan" /\ Next /\ UNCHANGED <<part, importVars>>
  \/ part = "imports" /\ I!Next /\ UNCHANGED <<part, vars>>

TimetableSpec == TimetableInit /\ [][TimetableNext]_<<part, vars, importVars>>

\* Every section an import reported attends the class or is pending (Imports).
NothingForgotten == I!NothingForgotten

\* A class has one row, unless an import of it was overtaken (Imports).
OnePhysicalClass == I!OnePhysicalClass

Symmetry ==
  Permutations(Classes) \cup Permutations(Days)
    \cup Permutations(Places) \cup Permutations(Requests)
=============================================================================
