------------------------------ MODULE Profile ------------------------------
(***************************************************************************)
(* The profile of a user: UserService.updateProfilePicture, updateUser and *)
(* getMe, with FileService.uploadSingleImageAndInsert and                  *)
(* deleteImagesAndRecord and CloudinaryService.uploadImage.                *)
(*                                                                         *)
(* updateProfilePicture is one database transaction with calls to the      *)
(* object store in the middle.  Its writes are private until it commits    *)
(* and gone if it is rolled back; what it did to the store stays.  The     *)
(* statement that updates the user's row takes the lock of the row, which  *)
(* is held to the end; a second update of the row waits there, with what   *)
(* it read before.  The schema deletes a user whose picture's row is       *)
(* deleted (onDelete: Cascade of User.profilePicture).                     *)
(*                                                                         *)
(* Users have signed up before; their later profile fields are left out.   *)
(* "slip: P" marks a plausible mistake in the operator defined after it:   *)
(* nothing uses it, and with it in that operator's place P fails.          *)
(***************************************************************************)
EXTENDS Naturals

CONSTANTS
  Users,
  Names,
  MaxImages,  \* image ids that may be handed out: a bound
  Sizes,      \* the sizes an image is stored in: three in the code
  Requests,   \* how many updates may be in flight at once: a bound
  None

ASSUME BoundAssumption == MaxImages \in Nat
ASSUME NoneAssumption == None \notin Users \cup Names \cup Nat

VARIABLES
  accounts,    \* the users with a row
  name,        \* name[u]
  picture,     \* picture[u]: profilePictureId, or None
  rows,        \* the images with a row
  stored,      \* the objects in the store: pairs of an image and a size
  images,      \* how many image ids have been handed out
  req,         \* req[r]: the picture update in flight, None when there is none
  \* history, for the properties only:
  undone,      \* images whose deletion was rolled back when their objects were at stake
  overlapped,  \* two picture updates of a user were in flight at once
  faulty       \* the store failed, or a transaction was rolled back

tables == <<accounts, name, picture, rows>>
history == <<undone, overlapped, faulty>>
vars == <<accounts, name, picture, rows, stored, images, req, undone, overlapped, faulty>>

ImageIds == 1..MaxImages
Objects == ImageIds \X Sizes
ObjectsOf(i) == {o \in Objects : o[1] = i}

Stages == {"upload", "uploaded", "updated", "deleted", "commit"}

(* prev: the picture of the row read at the beginning.                       *)
(* erased: the images the deletion of whose rows is among the writes.        *)
Request ==
  [at : Stages, user : Users, prev : ImageIds \cup {None}, new : ImageIds,
   erased : SUBSET ImageIds]

ASSUME NoneIsNoRequest == None \notin Request

TypeOK ==
  /\ accounts \subseteq Users
  /\ name \in [Users -> Names]
  /\ picture \in [Users -> ImageIds \cup {None}]
  /\ rows \subseteq ImageIds
  /\ stored \subseteq Objects
  /\ images \in 0..MaxImages
  /\ req \in [Requests -> Request \cup {None}]
  /\ undone \subseteq ImageIds
  /\ overlapped \in BOOLEAN
  /\ faulty \in BOOLEAN

Init ==
  /\ accounts = Users
  /\ name \in [Users -> Names]
  /\ picture = [u \in Users |-> None]
  /\ rows = {}
  /\ stored = {}
  /\ images = 0
  /\ req = [r \in Requests |-> None]
  /\ undone = {}
  /\ overlapped = FALSE
  /\ faulty = FALSE

-----------------------------------------------------------------------------
At(r, stage) == req[r] # None /\ req[r].at = stage
InFlight(u) == {r \in Requests : req[r] # None /\ req[r].user = u}

(* Whose transaction holds the lock of the user's row. *)
Locks(r, u) ==
  /\ req[r] # None
  /\ req[r].user = u
  /\ req[r].at \in {"updated", "deleted", "commit"}

(* One of the user's updates has erased the picture the profile still shows. *)
AtStake(u) ==
  \E r \in Requests : Locks(r, u) /\ picture[u] \in req[r].erased

WaitsForAll(r) == InFlight(req[r].user) = {r}  \* slip: EveryUpdateEnds
RowIsFree(r) == \A s \in Requests \ {r} : ~Locks(s, req[r].user)

-----------------------------------------------------------------------------
(* updateUser: one statement, for the name only. *)
UpdateUser(u, n) ==
  /\ u \in accounts
  /\ \A r \in Requests : ~Locks(r, u)
  /\ name' = [name EXCEPT ![u] = n]
  /\ UNCHANGED <<accounts, picture, rows, stored, images, req, history>>

(* getMe: the row of the user with the picture's. *)
GetMe(u) ==
  [name |-> name[u], picture |-> IF picture[u] \in rows THEN picture[u] ELSE None]

-----------------------------------------------------------------------------
(* updateProfilePicture *)

Begin(r, u) ==
  /\ req[r] = None
  /\ u \in accounts
  /\ images < MaxImages
  /\ images' = images + 1
  /\ req' = [req EXCEPT ![r] =
       [at |-> "upload", user |-> u, prev |-> picture[u], new |-> images + 1,
        erased |-> {}]]
  /\ overlapped' = (overlapped \/ InFlight(u) # {})
  /\ UNCHANGED <<tables, stored, undone, faulty>>

(* uploadImage stores every size, and the row is inserted; when the store    *)
(* refuses a size the others stay, nothing removes them.                     *)
UploadSingleImageAndInsert(r) ==
  /\ At(r, "upload")
  /\ \E done \in SUBSET ObjectsOf(req[r].new) :
       /\ stored' = stored \cup done
       /\ \/ /\ done = ObjectsOf(req[r].new)
             /\ req' = [req EXCEPT ![r].at = "uploaded"]
             /\ UNCHANGED faulty
          \/ /\ done # ObjectsOf(req[r].new)
             /\ req' = [req EXCEPT ![r] = None]
             /\ faulty' = TRUE
  /\ UNCHANGED <<tables, images, undone, overlapped>>

UpdatePicture(r) ==
  /\ At(r, "uploaded")
  /\ RowIsFree(r)
  /\ req' = [req EXCEPT ![r].at = "updated"]
  /\ UNCHANGED <<tables, stored, images, history>>

(* deleteImagesAndRecord of the previous picture, as it was read at the      *)
(* beginning: its row may be gone by now.                                    *)
KeepPrevious(r) == req' = [req EXCEPT ![r].at = "commit"]  \* slip: NothingLeftBehind
DeletePrevious(r) ==
  LET gone == {req[r].prev} \cap rows IN
  req' = [req EXCEPT ![r] =
           [@ EXCEPT !.at = IF gone # {} THEN "deleted" ELSE "commit", !.erased = gone]]

DeleteImagesAndRecord(r) ==
  /\ At(r, "updated")
  /\ DeletePrevious(r)
  /\ UNCHANGED <<tables, stored, images, history>>

(* The store's refusals are swallowed. *)
DestroyObjects(r) ==
  /\ At(r, "deleted")
  /\ \E left \in SUBSET ObjectsOf(req[r].prev) :
       /\ stored' = (stored \ ObjectsOf(req[r].prev)) \cup (stored \cap left)
       /\ faulty' = (faulty \/ stored \cap left # {})
  /\ req' = [req EXCEPT ![r].at = "commit"]
  /\ UNCHANGED <<tables, images, undone, overlapped>>

(* The cascade takes the users whose picture the erased row is, as the       *)
(* transaction's own statements have left them.                              *)
PicturesBefore(r) == picture  \* slip: AccountsSurvive
PicturesOnDelete(r) == [picture EXCEPT ![req[r].user] = req[r].new]

Commit(r) ==
  /\ At(r, "commit")
  /\ picture' = [picture EXCEPT ![req[r].user] = req[r].new]
  /\ rows' = (rows \cup {req[r].new}) \ req[r].erased
  /\ accounts' = accounts \ {u \in Users : PicturesOnDelete(r)[u] \in req[r].erased}
  /\ req' = [req EXCEPT ![r] = None]
  /\ UNCHANGED <<name, stored, images, history>>

(* What the catch block may destroy: the new picture's objects, if the       *)
(* transaction still answers its look-up of the row.                         *)
CatchWrongPicture(r) == ObjectsOf(req[r].prev)  \* slip: ShownPicturesAreStored
CatchDestroys(r) == ObjectsOf(req[r].new)

(* A statement fails, 15 seconds pass, the connection or the process is      *)
(* lost: the transaction is rolled back wherever it is.  Calls to the store  *)
(* under way then are carried out or not.                                    *)
Rollback(r) ==
  /\ req[r] # None
  /\ \E added \in SUBSET ObjectsOf(req[r].new), lost \in SUBSET ObjectsOf(req[r].prev),
        caught \in SUBSET CatchDestroys(r) :
       /\ added # {} => req[r].at = "upload"
       /\ lost # {} => req[r].at = "deleted"
       /\ caught # {} => req[r].at \in {"uploaded", "updated"}
       /\ stored' = (stored \cup added) \ (lost \cup caught)
  /\ undone' = undone \cup req[r].erased
  /\ faulty' = TRUE
  /\ req' = [req EXCEPT ![r] = None]
  /\ UNCHANGED <<tables, images, overlapped>>

-----------------------------------------------------------------------------
Advance(r) ==
  \/ UploadSingleImageAndInsert(r)
  \/ UpdatePicture(r)
  \/ DeleteImagesAndRecord(r)
  \/ DestroyObjects(r)
  \/ Commit(r)

Next ==
  \/ \E u \in Users, n \in Names : UpdateUser(u, n)
  \/ \E r \in Requests : Advance(r) \/ Rollback(r) \/ \E u \in Users : Begin(r, u)

(* The store answers or fails, and the database executes a statement that    *)
(* need not wait.  Those that wait for a row are served in turn.  Nothing is *)
(* assumed of rollbacks.                                                     *)
Fairness == \A r \in Requests : WF_vars(Advance(r)) /\ SF_vars(UpdatePicture(r))

Spec == Init /\ [][Next]_vars /\ Fairness

-----------------------------------------------------------------------------
(* No update of a picture deletes an account: deleting the row of an image   *)
(* that is still somebody's picture would.                                   *)
AccountsSurvive == accounts = Users

(* The picture a profile shows has its row and its objects in every size,    *)
(* whatever fails and whatever updates there are at the same time, but for   *)
(* one case: an update of the user has come to the deletion of it and is     *)
(* still to commit, or was rolled back then.                                 *)
ShownPicturesAreStored ==
  \A u \in accounts : picture[u] # None =>
    /\ GetMe(u).picture = picture[u]
    /\ ~AtStake(u) /\ picture[u] \notin undone => ObjectsOf(picture[u]) \subseteq stored

(* When nothing failed and no user's updates overlapped, a finished system   *)
(* holds the rows and objects of the pictures shown, and no others.  (Of two *)
(* overlapping updates the second leaves the first one's picture behind.)    *)
NothingLeftBehind ==
  ~faulty /\ ~overlapped /\ (\A r \in Requests : req[r] = None) =>
    LET shown == {picture[u] : u \in accounts} \ {None} IN
    /\ rows = shown
    /\ stored = UNION {ObjectsOf(i) : i \in shown}

(* Every update ends even if no transaction ever times out: the updates of a *)
(* user do not wait for one another in a circle.                             *)
EveryUpdateEnds == \A r \in Requests : req[r] # None ~> req[r] = None

(* The inductive strengthening: images are told apart, and what an update    *)
(* has uploaded and not yet shown is in the store.                           *)
ImagesAreFresh ==
  /\ \A r \in Requests : req[r] # None =>
       /\ req[r].new <= images
       /\ req[r].new \notin rows \cup undone
       /\ req[r].prev # req[r].new
       /\ \A u \in Users : picture[u] # req[r].new
       /\ \A s \in Requests : req[s] # None =>
            /\ req[s].prev # req[r].new
            /\ s # r => req[s].new # req[r].new
  /\ \A i \in rows \cup undone : i <= images
  /\ \A u \in Users : picture[u] # None => picture[u] <= images
  /\ \A r \in Requests : req[r] # None /\ req[r].prev # None => req[r].prev <= images

PicturesAreTheirs ==
  /\ \A u, v \in Users : picture[u] # None /\ picture[u] = picture[v] => u = v
  /\ \A r \in Requests, u \in Users :
       req[r] # None /\ req[r].prev # None /\ picture[u] = req[r].prev => u = req[r].user

ErasureIsLocked ==
  \A r \in Requests : req[r] # None =>
    /\ req[r].at = "deleted" => req[r].erased = {req[r].prev}
    /\ req[r].erased # {} =>
         /\ req[r].erased = {req[r].prev}
         /\ req[r].at \in {"deleted", "commit"}

OneHolder ==
  \A u \in Users, r, s \in Requests : Locks(r, u) /\ Locks(s, u) => r = s

UploadedAreStored ==
  \A r \in Requests :
    req[r] # None /\ req[r].at # "upload" => ObjectsOf(req[r].new) \subseteq stored

ShownOrAtStake ==
  \A u \in Users : picture[u] # None =>
    /\ picture[u] \in rows
    /\ \/ picture[u] \in undone
       \/ ObjectsOf(picture[u]) \subseteq stored
       \/ AtStake(u)

(* While nothing has failed and no user's updates have overlapped: an image  *)
(* has a row when it is shown, and objects when it is shown or will be.      *)
Shown(i) == \E u \in Users : picture[u] = i
Destroyed(i) == \E r \in Requests : At(r, "commit") /\ i \in req[r].erased
Uploaded(i) == \E r \in Requests : req[r] # None /\ req[r].at # "upload" /\ req[r].new = i

OneUpdateEach ==
  \A r, s \in Requests :
    req[r] # None /\ req[s] # None /\ req[r].user = req[s].user => r = s

PreviousIsCurrent ==
  \A r \in Requests : req[r] # None =>
    /\ req[r].prev = picture[req[r].user]
    /\ req[r].at \in {"deleted", "commit"} => req[r].erased = {req[r].prev} \ {None}

RowsAreShown == \A i \in ImageIds : i \in rows <=> Shown(i)

ObjectsAreNeeded ==
  \A o \in Objects :
    o \in stored <=> (Shown(o[1]) /\ ~Destroyed(o[1])) \/ Uploaded(o[1])

SerialStore == OneUpdateEach /\ PreviousIsCurrent /\ RowsAreShown /\ ObjectsAreNeeded
Serial == ~faulty /\ ~overlapped => SerialStore

Inductive ==
  /\ AccountsSurvive
  /\ ImagesAreFresh
  /\ PicturesAreTheirs
  /\ ErasureIsLocked
  /\ OneHolder
  /\ UploadedAreStored
  /\ ShownOrAtStake
=============================================================================
