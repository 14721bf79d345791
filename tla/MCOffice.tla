------------------------------ MODULE MCOffice ------------------------------
(***************************************************************************)
(* The instance TLC checks of the staff's office: the follow-up of         *)
(* attendance and the files of Google Workspace.  They share no table      *)
(* either of them writes, so each is explored with the other at rest: part *)
(* tells which one moves.                                                  *)
(***************************************************************************)
EXTENDS FollowUp, TLC

CONSTANTS Emails, Links, Files, Titles, None

VARIABLES part,
          links, passes, granted, connection, overtaken, file, row, astray, call

G == INSTANCE GoogleWorkspace WITH Calls <- Requests

\* A row that does not exist is no row.
ASSUME NoneIsNoRow == None \notin G!Connections

googleVars ==
  <<links, passes, granted, connection, overtaken, file, row, astray, call>>

OfficeInit == part \in {"followup", "google"} /\ Init /\ G!Init

OfficeNext ==
  \/ part = "followup" /\ Next /\ UNCHANGED <<part, googleVars>>
  \/ part = "google" /\ G!Next /\ UNCHANGED <<part, vars>>

OfficeSpec == OfficeInit /\ [][OfficeNext]_<<part, vars, googleVars>>

\* The token kept belongs to the account the connection names (GoogleWorkspace).
TokenOfAccount == G!TokenOfAccount

\* A file at rest is recorded exactly as it exists at Google (GoogleWorkspace).
RowsMatchFiles == G!RowsMatchFiles

Symmetry ==
  Permutations(Students) \cup Permutations(Classes) \cup Permutations(Requests)
=============================================================================
