--------------------------- MODULE ProfilePictures ---------------------------
(***************************************************************************)
(* The profile picture of one account (backend/app/modules/identity/       *)
(* router.py, backend/app/core/profile_media.py).                          *)
(*                                                                         *)
(* Pictures are kept in the row of their user. One uploaded before that    *)
(* was so is an object in S3, a local file, or both, and the row has only  *)
(* its key; it is deleted when another picture has replaced it. The        *)
(* database and the stores have no transaction in common, no row is        *)
(* locked, and a save writes the columns that differ from those read.      *)
(***************************************************************************)
CONSTANTS
  Images,  \* contents of pictures
  Jpegs,   \* those of them that are JPEG; the others are PNG
  Calls,   \* bound: requests the server works on at a time
  None     \* NULL

\* What the constants are, assumed where they are given values.
PicturesAssumption == Jpegs \subseteq Images /\ None \notin Images

VARIABLES
  picture,  \* users: avatar_key, avatar_data, avatar_content_type
  stored,   \* where the object of the former key is
  mixed,    \* history: the row was last written by an overtaken upload
  call      \* requests in flight

pictureVars == <<picture, stored, mixed, call>>

\* key: given before pictures were kept in the row, or since
Pictures == [key : {"none", "former", "own"}, image : Images \cup {None},
             kind : {None, "jpeg", "png"}]

Stores == {"s3", "local"}
NoPicture == [key |-> "none", image |-> None, kind |-> None]
Former == [key |-> "former", image |-> None, kind |-> None]

Idle == [op |-> "idle"]
Ask(r, q) == call[r] = Idle /\ call' = [call EXCEPT ![r] = q]
Step(r, q) == call' = [call EXCEPT ![r] = q]

Kind(i) == IF i \in Jpegs THEN "jpeg" ELSE "png"

(***************************************************************************)
(* An upload                                                               *)
(***************************************************************************)

\* The user is read, then the image of the request.
AskUpload(r, i) ==
  /\ Ask(r, [op |-> "upload", was |-> picture, image |-> i])
  /\ UNCHANGED <<picture, stored, mixed>>

\* The row as the upload leaves it: the columns it changed.
Written(q) ==
  [key   |-> "own",
   image |-> IF q.image = q.was.image THEN picture.image ELSE q.image,
   kind  |-> IF Kind(q.image) = q.was.kind THEN picture.kind ELSE Kind(q.image)]

\* Whether the picture that was read is in the stores.
External(q) == q.was.key # "none" /\ q.was.image = None

Put(q) == picture' = Written(q) /\ mixed' = (picture # q.was)

\* ProfileMediaStore.delete: errors of S3 are ignored, one of the disk is
\* swallowed by the caller.
DeleteKey(key) ==
  IF key = "former" THEN stored' \in SUBSET stored ELSE stored' = stored

Save(r) ==
  /\ call[r].op = "upload"
  /\ Put(call[r])
  /\ Step(r, IF External(call[r]) THEN [op |-> "saved", key |-> call[r].was.key] ELSE Idle)
  /\ UNCHANGED stored

\* The mistake of deleting the old picture when the new one is not saved.
OldKey(q) == q.was.key

\* The picture to be deleted when saving fails.
NewKey(q) == "own"

\* The commit fails, or the row cannot be read again after it.
SaveFails(r) ==
  /\ call[r].op = "upload"
  /\ Put(call[r]) \/ UNCHANGED <<picture, mixed>>
  /\ DeleteKey(NewKey(call[r]))
  /\ Step(r, Idle)

DeleteOld(r) ==
  /\ call[r].op = "saved"
  /\ DeleteKey(call[r].key)
  /\ Step(r, Idle)
  /\ UNCHANGED <<picture, mixed>>

(***************************************************************************)
(* Showing it                                                              *)
(***************************************************************************)

\* profile_media finds the owner of the key; a picture in the row is answered
\* at once.
AskPicture(r) ==
  /\ picture.key = "former" /\ picture.image = None
  /\ Ask(r, [op |-> "show", key |-> picture.key])
  /\ UNCHANGED <<picture, stored, mixed>>

\* ProfileMediaStore.read: S3, then the local file. Without the file, an answer
\* of S3 that there is no object means it is missing, any other error that the
\* stores cannot tell.
Answers ==
  {"unavailable"} \cup IF stored = {} THEN {"missing"} ELSE {"shown"}

Show(r) ==
  /\ call[r].op = "show"
  /\ \E a \in Answers : Step(r, [op |-> a, key |-> call[r].key])
  /\ UNCHANGED <<picture, stored, mixed>>

\* The request is answered, or its process dies.
Finish(r) ==
  /\ call[r] # Idle
  /\ Step(r, Idle)
  /\ UNCHANGED <<picture, stored, mixed>>

Init ==
  /\ picture \in {NoPicture, Former}
  /\ stored \in SUBSET Stores
  /\ stored # {} <=> picture = Former
  /\ mixed = FALSE
  /\ call = [r \in Calls |-> Idle]

Next ==
  \E r \in Calls :
    \/ \E i \in Images : AskUpload(r, i)
    \/ Save(r) \/ SaveFails(r) \/ DeleteOld(r)
    \/ AskPicture(r) \/ Show(r) \/ Finish(r)

Spec == Init /\ [][Next]_pictureVars
-----------------------------------------------------------------------------
\* An account that has a picture can show it, however uploads overtake each
\* other, fail or are cut: it is in the row, with the type it has, unless an
\* upload wrote over one it had not seen; or it is still in a store. And nobody
\* is told that a picture does not exist while it is the account's
\* (upload_avatar, profile_media).
PictureIntact ==
  /\ picture \in Pictures
  /\ picture.key # "none" =>
       IF picture.image = None THEN stored # {}
       ELSE mixed \/ picture.kind = Kind(picture.image)
  /\ \A r \in Calls : call[r].op = "missing" => picture.key # call[r].key
=============================================================================
