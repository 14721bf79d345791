-------------------------- MODULE MCReviewAndAccounts --------------------------
(***************************************************************************)
(* The instance TLC checks of a class session under review, and of the     *)
(* accounts of MCAccounts. They share no table either of them writes (who  *)
(* is signed in is taken as given in a session), so each is explored with  *)
(* the other at rest: moving tells which one moves.                        *)
(***************************************************************************)
EXTENDS MCCheckIn, MCAccounts

VARIABLE moving

PeopleInit ==
  /\ moving \in {"session", "accounts"}
  /\ Init /\ AccountsInit
  /\ moving = "session" =>
       part = "picture" /\ stored = {} /\ picture = P!NoPicture

PeopleNext ==
  \/ moving = "session" /\ Next /\ UNCHANGED <<moving, part, userVars, pictureVars>>
  \/ moving = "accounts" /\ AccountsNext /\ UNCHANGED <<moving, vars>>

PeopleSpec ==
  PeopleInit /\ [][PeopleNext]_<<moving, vars, part, userVars, pictureVars>>

PeopleSymmetry == Symmetry \cup ThreadSymmetry
=============================================================================
