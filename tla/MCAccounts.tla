------------------------------ MODULE MCAccounts ------------------------------
(***************************************************************************)
(* The instance TLC checks of accounts and of their profile pictures. They *)
(* write different columns of users and neither reads the other's, so each *)
(* is explored with the other at rest: part tells which one moves.         *)
(***************************************************************************)
EXTENDS Accounts, TLC

CONSTANTS Images, Jpegs, NoImage

VARIABLES part, picture, stored, mixed, call

P == INSTANCE ProfilePictures WITH Calls <- Threads, None <- NoImage

ASSUME AccountsOfPictures == P!PicturesAssumption

pictureVars == <<picture, stored, mixed, call>>

AccountsInit ==
  /\ part \in {"account", "picture"}
  /\ UserInit /\ P!Init
  /\ part = "account" => picture.key = "none"
  /\ part = "picture" => ~Exists

AccountsNext ==
  \/ part = "account" /\ UserNext /\ UNCHANGED <<part, pictureVars>>
  \/ part = "picture" /\ P!Next /\ UNCHANGED <<part, userVars>>

AccountsSpec == AccountsInit /\ [][AccountsNext]_<<part, userVars, pictureVars>>

\* The picture of an account can be shown, as what it is (ProfilePictures).
PictureIntact == P!PictureIntact

\* Handlers are interchangeable.
ThreadSymmetry == Permutations(Threads)
=============================================================================
