-------------------------------- MODULE Files --------------------------------
(***************************************************************************)
(* Uploaded files: the objects in the Cloudinary store, their rows in the  *)
(* files table, and the submissions, tasks and messages that refer to them.*)
(*   UserFilesController.uploadUserFiles / UserFilesService.deleteUser...,  *)
(*   ManagerTaskController.createTask, MessageController.sendMessageToGroup,*)
(*   ParticipantTasksController.submitTask, FileService,                   *)
(*   MessageService.sendCleanMessageToRoom.                                *)
(*                                                                         *)
(* The two stores have no common transaction.  A request with files        *)
(* uploads them first, writes its rows second, and when that fails deletes *)
(* what it has uploaded.  Every await is a step; a transaction's writes    *)
(* and its commit are one; a commit that fails has no effect.              *)
(*                                                                         *)
(* A file is one file of one request.  Its row has an id of its own; its   *)
(* object has the public id made of the file's name without the extension  *)
(* and the millisecond, which files of one request may share: the later    *)
(* upload replaces the earlier, and the two rows refer to one object.  A   *)
(* file, and an object, comes again only when nothing remembers it.        *)
(*                                                                         *)
(* The guards of createTask and of the messages (is the caller a manager,  *)
(* in the room) are left out: refused by them or otherwise, a request      *)
(* fails the same.                                                         *)
(*                                                                         *)
(* "slip: P" marks a plausible mistake in the operator defined after it:   *)
(* nothing uses it, and with it in that operator's place P fails.          *)
(***************************************************************************)
EXTENDS FiniteSets

CONSTANTS
  Files,
  Objects,   \* the public ids of the store
  ObjectOf,  \* ObjectOf[f]: the public id under which f is uploaded
  Raw,       \* the objects that are no images: those of raw/, not of uploads/
  Users,
  Slots,     \* what is submitted to: a GROUP task, or one INDIVIDUAL assignment
  Requests,  \* how many requests may be in flight at once: a bound
  None

ASSUME NoneAssumption == None \notin Users /\ \A F \in SUBSET Files : F # None
ASSUME ObjectAssumption == ObjectOf \in [Files -> Objects] /\ Raw \subseteq Objects
ASSUME SlotsAssumption == Slots \cap {"library", "task", "message"} = {}

VARIABLES
  stored,      \* the objects in the store
  rows,        \* rows[f]: who uploaded f, None if it has no row
  listed,      \* the files whose row uploadUserFiles has reported to its caller
  attached,    \* the files of task attachments
  sent,        \* the files of messages
  submission,  \* submission[s]: the files submitted, None before
  alike,       \* the files that were given one object with another (history)
  faulty,      \* whether the server or the store has ever failed (history)
  req          \* req[r]: the request in flight, None when there is none

references == <<listed, attached, sent, submission>>
vars == <<stored, rows, references, alike, faulty, req>>

(* What files are uploaded for: a slot, or one of the others. *)
Purposes == {"library", "task", "message"} \cup Slots

Request ==
  [at : {"upload", "check", "insert", "write", "cleanup"}, purpose : Purposes,
   user : Users, files : SUBSET Files]
    \cup [at : {"find", "delete", "destroy", "send"}, files : SUBSET Files]

ASSUME NoneIsNoRequest == None \notin Request

TypeOK ==
  /\ stored \subseteq Objects
  /\ rows \in [Files -> Users \cup {None}]
  /\ listed \subseteq Files
  /\ attached \subseteq Files
  /\ sent \subseteq Files
  /\ submission \in [Slots -> {None} \cup SUBSET Files]
  /\ alike \subseteq Files
  /\ faulty \in BOOLEAN
  /\ req \in [Requests -> Request \cup {None}]

Init ==
  /\ stored = {}
  /\ rows = [f \in Files |-> None]
  /\ listed = {}
  /\ attached = {}
  /\ sent = {}
  /\ submission = [s \in Slots |-> None]
  /\ alike = {}
  /\ faulty = FALSE
  /\ req = [r \in Requests |-> None]

-----------------------------------------------------------------------------
Begin(r, q) == req[r] = None /\ req' = [req EXCEPT ![r] = q]
At(r, stage) == req[r] # None /\ req[r].at = stage
Proceed(r, stage) == req' = [req EXCEPT ![r].at = stage]
End(r) == req' = [req EXCEPT ![r] = None]

Submitted == UNION {submission[s] : s \in {x \in Slots : submission[x] # None}}

(* onDelete: Restrict from submissions and attachments, Cascade from       *)
(* messages.                                                               *)
Unrestricted(F) == TRUE  \* slip: UsableFilesAreStored
Deletable(F) == F \cap (attached \cup Submitted) = {}

(* The files whose ids a client knows: reported to it, or shown with what  *)
(* refers to them.                                                         *)
Known == listed \cup attached \cup sent \cup Submitted

Carried(f) == \E r \in Requests : req[r] # None /\ f \in req[r].files
Live(f) == rows[f] # None \/ Carried(f)

Uploads == UNION {req[r].files : r \in {x \in Requests : At(x, "upload")}}

(* An object that is neither stored nor anybody's.  Its public id is that  *)
(* of a file in F, or of one whose upload may have begun in the same       *)
(* millisecond, if their names are alike too.                              *)
Fresh(F) ==
  \A f \in F :
    /\ ~Live(f)
    /\ ObjectOf[f] \notin stored
    /\ \A g \in Files \ Uploads : ObjectOf[g] = ObjectOf[f] => ~Live(g)

OneObject(F) == {f \in F : \E g \in F \ {f} : ObjectOf[g] = ObjectOf[f]}

ObjectsOf(F) == {ObjectOf[f] : f \in F}

AddRows(F, u) == rows' = [f \in Files |-> IF f \in F THEN u ELSE rows[f]]

-----------------------------------------------------------------------------
(* Requests with files *)

(* uploadUserFiles refuses a request without files; a task or a message    *)
(* without files changes nothing here.                                     *)
Upload(r, u, k, F) ==
  /\ F # {} \/ k \in Slots
  /\ Fresh(F)
  /\ alike' = {f \in alike : Live(f)} \cup OneObject(F \cup Uploads)
  /\ Begin(r, [at |-> "upload", purpose |-> k, user |-> u, files |-> F])
  /\ UNCHANGED <<stored, rows, references, faulty>>

(* uploadMultipleFiles: Promise.all over the files.  If one fails, so does *)
(* the request, and nobody deletes the others: their ids are lost.         *)
UploadMultipleFiles(r) ==
  /\ At(r, "upload")
  /\ \E S \in SUBSET req[r].files :
       /\ stored' = stored \cup ObjectsOf(S)
       /\ faulty' = (faulty \/ S # req[r].files)
       /\ IF S # req[r].files THEN End(r)
          ELSE Proceed(r, IF req[r].purpose \in Slots THEN "check" ELSE "write")
  /\ UNCHANGED <<rows, references, alike>>

(* The transactions of uploadUserFiles, createTask and sendMessageToRoom:  *)
(* the rows and what refers to them.                                       *)
WriteRows(r) ==
  /\ At(r, "write")
  /\ req[r].purpose \notin Slots
  /\ LET F == req[r].files  k == req[r].purpose IN
       /\ AddRows(F, req[r].user)
       /\ listed' = IF k = "library" THEN listed \cup F ELSE listed
       /\ attached' = IF k = "task" THEN attached \cup F ELSE attached
       /\ sent' = IF k = "message" THEN sent \cup F ELSE sent
  /\ End(r)
  /\ UNCHANGED <<stored, submission, alike, faulty>>

(* An error, a refusal or a rollback: catch, and delete what was uploaded. *)
Refused(r) ==
  /\ At(r, "check") \/ At(r, "insert") \/ At(r, "write")
  /\ Proceed(r, "cleanup")
  /\ UNCHANGED <<stored, rows, references, alike, faulty>>

(* deleteMultipleFiles of CloudinaryService: any of the deletions may fail. *)
(* uploadFile stores what is no image as a raw object; deleteFile asks for  *)
(* the image of that id, which the store does not find, and reports no     *)
(* error.                                                                  *)
KeepsObjects(F) == UNCHANGED <<stored, faulty>>  \* slip: NoImageLeaks
DestroyMultiple(F) ==
  \E S \in SUBSET (ObjectsOf(F) \ Raw) :
    /\ stored' = stored \ S
    /\ faulty' = (faulty \/ S # ObjectsOf(F) \ Raw)

Cleanup(r) ==
  /\ At(r, "cleanup")
  /\ DestroyMultiple(req[r].files)
  /\ End(r)
  /\ UNCHANGED <<rows, references, alike>>

(* The server stops: no catch runs. *)
Crash(r) ==
  /\ req[r] # None
  /\ End(r)
  /\ faulty' = TRUE
  /\ UNCHANGED <<stored, rows, references, alike>>

-----------------------------------------------------------------------------
(* submitTask *)

SubmitCheck(r) ==
  /\ At(r, "check")
  /\ submission[req[r].purpose] = None
  /\ Proceed(r, "insert")
  /\ UNCHANGED <<stored, rows, references, alike, faulty>>

(* insertMultipleFiles without the transaction: every row is committed at  *)
(* once, and stays when the transaction around it rolls back.              *)
InsertMultipleFiles(r) ==
  /\ At(r, "insert")
  /\ \E S \in SUBSET req[r].files :
       /\ AddRows(S, req[r].user)
       /\ Proceed(r, IF S = req[r].files THEN "write" ELSE "cleanup")
  /\ UNCHANGED <<stored, references, alike, faulty>>

(* @@unique([taskId]) and @@unique([assignmentId]) of the submissions. *)
NoUniqueIndex(s) == TRUE  \* slip: SubmittedOnce
UniqueIndexAllows(s) == submission[s] = None

SubmitCommit(r) ==
  /\ At(r, "write")
  /\ req[r].purpose \in Slots
  /\ UniqueIndexAllows(req[r].purpose)
  /\ \A f \in req[r].files : rows[f] # None
  /\ submission' = [submission EXCEPT ![req[r].purpose] = req[r].files]
  /\ End(r)
  /\ UNCHANGED <<stored, rows, listed, attached, sent, alike, faulty>>

-----------------------------------------------------------------------------
(* Requests about files that have rows *)

Owned(u, F) == F # {} /\ \A f \in F : f \in Known /\ rows[f] = u

(* deleteUserMultipleFiles: the files must all be the caller's. *)
DeleteUserFiles(r, u, F) ==
  /\ Owned(u, F)
  /\ Begin(r, [at |-> "find", files |-> F])
  /\ UNCHANGED <<stored, rows, references, alike, faulty>>

(* deleteMultipleFiles of FileService: find the rows, delete them, then    *)
(* the objects.                                                            *)
FindRows(r) ==
  /\ At(r, "find")
  /\ LET F == {f \in req[r].files : rows[f] # None} IN
       /\ F # {}
       /\ req' = [req EXCEPT ![r] = [at |-> "delete", files |-> F]]
  /\ UNCHANGED <<stored, rows, references, alike, faulty>>

DeleteRows(r) ==
  /\ At(r, "delete")
  /\ LET F == req[r].files IN
       /\ Deletable(F)
       /\ AddRows(F, None)
       /\ listed' = listed \ F
       /\ sent' = sent \ F
  /\ Proceed(r, "destroy")
  /\ UNCHANGED <<stored, attached, submission, alike, faulty>>

DestroyObjects(r) ==
  /\ At(r, "destroy")
  /\ DestroyMultiple(req[r].files)
  /\ End(r)
  /\ UNCHANGED <<rows, references, alike>>

(* Such a request finds no row, is refused by a foreign key, or rolls back. *)
Fail(r) ==
  /\ At(r, "find") \/ At(r, "delete") \/ At(r, "send")
  /\ End(r)
  /\ UNCHANGED <<stored, rows, references, alike, faulty>>

(* sendCleanMessageToRoom: the files must all be the sender's. *)
SendMessage(r, u, F) ==
  /\ Owned(u, F)
  /\ Begin(r, [at |-> "send", files |-> F])
  /\ UNCHANGED <<stored, rows, references, alike, faulty>>

(* The foreign key of message_files. *)
RowsExist(F) == \A f \in F : rows[f] # None

SendMessageCommit(r) ==
  /\ At(r, "send")
  /\ RowsExist(req[r].files)
  /\ sent' = sent \cup req[r].files
  /\ End(r)
  /\ UNCHANGED <<stored, rows, listed, attached, submission, alike, faulty>>

-----------------------------------------------------------------------------
Arrive(r) ==
  \E u \in Users, F \in SUBSET Files :
    \/ \E k \in Purposes : Upload(r, u, k, F)
    \/ DeleteUserFiles(r, u, F)
    \/ SendMessage(r, u, F)

Advance(r) ==
  \/ UploadMultipleFiles(r)
  \/ WriteRows(r)
  \/ Refused(r)
  \/ Cleanup(r)
  \/ Crash(r)
  \/ SubmitCheck(r)
  \/ InsertMultipleFiles(r)
  \/ SubmitCommit(r)
  \/ FindRows(r)
  \/ DeleteRows(r)
  \/ DestroyObjects(r)
  \/ SendMessageCommit(r)
  \/ Fail(r)

Next == \E r \in Requests : Arrive(r) \/ Advance(r)

Spec == Init /\ [][Next]_vars

-----------------------------------------------------------------------------
(* What holds however requests interleave, and whatever fails.             *)

(* A file that a client can use, because its id was reported by            *)
(* uploadUserFiles or because a task, a submission or a message shows it,  *)
(* has its row: neither a deletion nor the clean-up of a failed request    *)
(* takes away what somebody else has come to refer to.  And it has its     *)
(* object, unless that is another file's as well.                          *)
UsableFilesAreStored ==
  \A f \in Known : rows[f] # None /\ (ObjectOf[f] \in stored \/ f \in alike)

(* The inductive strengthening.  The files of an upload are known to       *)
(* nobody, carried by no other request, and stored once uploaded; files    *)
(* being destroyed have no row and are known to nobody; a file being sent  *)
(* is still known if it still has its row.                                 *)
Uploading(r) ==
  At(r, "upload") \/ At(r, "check") \/ At(r, "insert") \/ At(r, "write") \/ At(r, "cleanup")

UploadsArePrivate ==
  \A r \in Requests : Uploading(r) =>
    /\ req[r].files \cap Known = {}
    /\ \A q \in Requests : q # r /\ req[q] # None => req[q].files \cap req[r].files = {}

UploadsAreStored ==
  \A r \in Requests : Uploading(r) /\ ~At(r, "upload") =>
    \A f \in req[r].files : ObjectOf[f] \in stored \/ f \in alike

DestroyedAreGone ==
  \A r \in Requests : At(r, "destroy") =>
    \A f \in req[r].files : rows[f] = None /\ f \notin Known

SentAreKnown ==
  \A r \in Requests : At(r, "send") =>
    \A f \in req[r].files : rows[f] # None => f \in Known

Inductive ==
  /\ UsableFilesAreStored
  /\ UploadsArePrivate
  /\ UploadsAreStored
  /\ DestroyedAreGone
  /\ SentAreKnown

(* Two files share an object only if it was given to them together.        *)
SharersAreAlike ==
  \A f, g \in Files :
    f # g /\ ObjectOf[f] = ObjectOf[g] /\ Live(f) /\ Live(g) => f \in alike

(* A submission is not replaced: of two assignees of a group task, or two  *)
(* clicks of one, that both found no submission, only one gets through.    *)
SubmittedOnce ==
  [][\A s \in Slots : submission[s] # None => submission'[s] = submission[s]]_vars

(* As long as the server and the store work, no image is left behind       *)
(* without a row, however many requests are refused or rolled back.        *)
NoImageLeaks ==
  ~faulty => \A o \in stored \ Raw : \E f \in Files : ObjectOf[f] = o /\ Live(f)

(* Its inductive strengthening: of those that carry the image, one will yet  *)
(* give it a row or destroy it.                                              *)
AnswersFor(r, f) == (Uploading(r) \/ At(r, "destroy")) /\ f \in req[r].files

ImagesAreAccountedFor ==
  ~faulty =>
    \A o \in stored \ Raw : \E f \in Files :
      ObjectOf[f] = o /\ (rows[f] # None \/ \E r \in Requests : AnswersFor(r, f))

-----------------------------------------------------------------------------
(* What the comment says and the code does not do. *)

(* "If an error occurs, delete uploaded files": no row of the files table  *)
(* refers to a file that is gone.                                          *)
RowsAreStored == \A f \in Files : rows[f] # None => ObjectOf[f] \in stored
=============================================================================
