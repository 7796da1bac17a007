----------------------------- MODULE FilesProofs -----------------------------
(* Theorems about Files, for any sets of files, users, slots and requests in *)
(* flight.                                                                   *)
EXTENDS Files, TLAPS

(* Every row, object and request in flight keeps its type.                   *)
THEOREM TypeCorrect == Spec => []TypeOK
<1>1. Init => TypeOK
  BY DEF Init, TypeOK
<1>2. TypeOK /\ [Next]_vars => TypeOK'
  <2> SUFFICES ASSUME TypeOK, [Next]_vars PROVE TypeOK'
    OBVIOUS
  <2> USE DEF TypeOK, Begin, At, Proceed, End, references
  <2>1. ASSUME NEW r \in Requests, NEW u \in Users, NEW F \in SUBSET Files,
               NEW k \in Purposes, Upload(r, u, k, F)
        PROVE  TypeOK'
    <3>1. Uploads \subseteq Files
      BY DEF Uploads, Request
    <3>2. alike' \subseteq Files
      BY <2>1, <3>1 DEF Upload, OneObject
    <3>3. req' \in [Requests -> Request \cup {None}]
      BY <2>1 DEF Upload, Request
    <3> QED
      BY <2>1, <3>2, <3>3 DEF Upload
  <2>2. ASSUME NEW r \in Requests, NEW u \in Users, NEW F \in SUBSET Files,
               DeleteUserFiles(r, u, F)
        PROVE  TypeOK'
    BY <2>2 DEF DeleteUserFiles, Request
  <2>3. ASSUME NEW r \in Requests, NEW u \in Users, NEW F \in SUBSET Files,
               SendMessage(r, u, F)
        PROVE  TypeOK'
    BY <2>3 DEF SendMessage, Request
  <2>4. ASSUME NEW r \in Requests, UploadMultipleFiles(r)
        PROVE  TypeOK'
    <3>1. req[r] \in Request /\ req[r].files \subseteq Files
      BY <2>4 DEF UploadMultipleFiles, Request
    <3>2. stored' \subseteq Objects /\ faulty' \in BOOLEAN
      BY <2>4, <3>1, ObjectAssumption DEF UploadMultipleFiles, ObjectsOf
    <3>3. req' \in [Requests -> Request \cup {None}]
      BY <2>4, <3>1 DEF UploadMultipleFiles, Request
    <3> QED
      BY <2>4, <3>2, <3>3 DEF UploadMultipleFiles
  <2>5. ASSUME NEW r \in Requests, WriteRows(r)
        PROVE  TypeOK'
    <3>1. req[r].files \subseteq Files /\ req[r].user \in Users
      BY <2>5 DEF WriteRows, Request
    <3> QED
      BY <2>5, <3>1 DEF WriteRows, AddRows
  <2>6. ASSUME NEW r \in Requests, Refused(r)
        PROVE  TypeOK'
    BY <2>6 DEF Refused, Request
  <2>7. ASSUME NEW r \in Requests, Cleanup(r) \/ DestroyObjects(r)
        PROVE  TypeOK'
    BY <2>7 DEF Cleanup, DestroyObjects, DestroyMultiple
  <2>8. ASSUME NEW r \in Requests, Crash(r) \/ Fail(r)
        PROVE  TypeOK'
    BY <2>8 DEF Crash, Fail
  <2>9. ASSUME NEW r \in Requests, SubmitCheck(r)
        PROVE  TypeOK'
    BY <2>9 DEF SubmitCheck, Request
  <2>10. ASSUME NEW r \in Requests, InsertMultipleFiles(r)
         PROVE  TypeOK'
    <3>1. req[r].files \subseteq Files /\ req[r].user \in Users
      BY <2>10 DEF InsertMultipleFiles, Request
    <3>2. rows' \in [Files -> Users \cup {None}]
      BY <2>10, <3>1 DEF InsertMultipleFiles, AddRows
    <3>3. req' \in [Requests -> Request \cup {None}]
      BY <2>10, <3>1 DEF InsertMultipleFiles, Request
    <3> QED
      BY <2>10, <3>2, <3>3 DEF InsertMultipleFiles
  <2>11. ASSUME NEW r \in Requests, SubmitCommit(r)
         PROVE  TypeOK'
    <3>1. req[r].files \subseteq Files /\ req[r].purpose \in Slots
      BY <2>11 DEF SubmitCommit, Request
    <3> QED
      BY <2>11, <3>1 DEF SubmitCommit
  <2>12. ASSUME NEW r \in Requests, FindRows(r)
         PROVE  TypeOK'
    <3>1. req[r].files \subseteq Files
      BY <2>12 DEF FindRows, Request
    <3> QED
      BY <2>12, <3>1 DEF FindRows, Request
  <2>13. ASSUME NEW r \in Requests, DeleteRows(r)
         PROVE  TypeOK'
    <3>1. req' \in [Requests -> Request \cup {None}]
      BY <2>13 DEF DeleteRows, Request
    <3> QED
      BY <2>13, <3>1 DEF DeleteRows, AddRows
  <2>14. ASSUME NEW r \in Requests, SendMessageCommit(r)
         PROVE  TypeOK'
    <3>1. req[r].files \subseteq Files
      BY <2>14 DEF SendMessageCommit, Request
    <3> QED
      BY <2>14, <3>1 DEF SendMessageCommit
  <2>15. CASE UNCHANGED vars
    BY <2>15 DEF vars
  <2> QED
    BY <2>1, <2>2, <2>3, <2>4, <2>5, <2>6, <2>7, <2>8, <2>9, <2>10, <2>11, <2>12, <2>13,
       <2>14, <2>15
    DEF Next, Arrive, Advance
<1> QED
  BY <1>1, <1>2, PTL DEF Spec

-----------------------------------------------------------------------------
(* A file that was given one object with another stays marked while a row or *)
(* a request has it, and only an upload makes files live.                    *)
LEMMA LiveStep ==
  ASSUME TypeOK, [Next]_vars
  PROVE  /\ \A f \in alike : Live(f) => f \in alike'
         /\ \/ \E r \in Requests, u \in Users, k \in Purposes, F \in SUBSET Files :
                 Upload(r, u, k, F)
            \/ alike' = alike /\ \A f \in Files : Live(f)' => Live(f)
<1> USE DEF TypeOK, Begin, At, Proceed, End, Live, Carried
<1>1. ASSUME NEW r \in Requests, NEW u \in Users, NEW F \in SUBSET Files,
             NEW k \in Purposes, Upload(r, u, k, F)
      PROVE  \A f \in alike : Live(f) => f \in alike'
  BY <1>1 DEF Upload
<1>2. ASSUME NEW r \in Requests, NEW u \in Users, NEW F \in SUBSET Files,
             DeleteUserFiles(r, u, F) \/ SendMessage(r, u, F)
      PROVE  alike' = alike /\ \A f \in Files : Live(f)' => Live(f)
  <2>1. \A f \in F : rows[f] # None
    BY <1>2, NoneAssumption DEF DeleteUserFiles, SendMessage, Owned
  <2>2. UNCHANGED <<alike, rows>> /\ \A q \in Requests \ {r} : req'[q] = req[q]
    BY <1>2 DEF DeleteUserFiles, SendMessage
  <2>3. req'[r].files = F
    BY <1>2 DEF DeleteUserFiles, SendMessage
  <2> QED
    BY <2>1, <2>2, <2>3
<1>3. ASSUME NEW r \in Requests, Advance(r)
      PROVE  alike' = alike /\ \A f \in Files : Live(f)' => Live(f)
  <2>1. /\ alike' = alike /\ req[r] # None
        /\ \A q \in Requests \ {r} : req'[q] = req[q]
    BY <1>3 DEF Advance, UploadMultipleFiles, WriteRows, Refused, Cleanup, Crash, SubmitCheck,
                InsertMultipleFiles, SubmitCommit, FindRows, DeleteRows, DestroyObjects,
                SendMessageCommit, Fail
  <2>2. req'[r] # None => req'[r].files \subseteq req[r].files
    BY <1>3 DEF Advance, UploadMultipleFiles, WriteRows, Refused, Cleanup, Crash, SubmitCheck,
                InsertMultipleFiles, SubmitCommit, FindRows, DeleteRows, DestroyObjects,
                SendMessageCommit, Fail, Request
  <2>3. \A f \in Files : rows'[f] # None => rows[f] # None \/ f \in req[r].files
    BY <1>3 DEF Advance, UploadMultipleFiles, WriteRows, Refused, Cleanup, Crash, SubmitCheck,
                InsertMultipleFiles, SubmitCommit, FindRows, DeleteRows, DestroyObjects,
                SendMessageCommit, Fail, AddRows, references
  <2> QED
    BY <2>1, <2>2, <2>3
<1>4. CASE UNCHANGED vars
  BY <1>4 DEF vars
<1> QED
  BY <1>1, <1>2, <1>3, <1>4 DEF Next, Arrive

(* Two files share an object only if it was given to them together.          *)
LEMMA SharersHold == Spec => []SharersAreAlike
<1>1. Init => SharersAreAlike
  BY DEF Init, SharersAreAlike, Live, Carried
<1>2. TypeOK /\ SharersAreAlike /\ [Next]_vars => SharersAreAlike'
  <2> SUFFICES ASSUME TypeOK, SharersAreAlike, [Next]_vars,
                      NEW f \in Files, NEW g \in Files, f # g, ObjectOf[f] = ObjectOf[g],
                      Live(f)', Live(g)'
               PROVE  f \in alike'
    BY DEF SharersAreAlike
  <2>1. CASE Live(f) /\ Live(g)
    BY <2>1, LiveStep DEF SharersAreAlike
  <2>2. CASE ~(Live(f) /\ Live(g))
    <3>1. PICK r \in Requests, u \in Users, k \in Purposes, F \in SUBSET Files :
            Upload(r, u, k, F)
      BY <2>2, LiveStep
    <3>2. rows' = rows /\ \A q \in Requests \ {r} : req'[q] = req[q]
      BY <3>1 DEF Upload, Begin, TypeOK
    <3>3. req'[r].files = F
      BY <3>1 DEF Upload, Begin, TypeOK
    <3>4. (f \in F \/ Live(f)) /\ (g \in F \/ Live(g))
      BY <3>2, <3>3 DEF Live, Carried
    <3>5. (f \in F => g \in F \cup Uploads) /\ (g \in F => f \in F \cup Uploads)
      BY <3>1, <3>4 DEF Upload, Fresh
    <3>6. f \in F \cup Uploads /\ g \in F \cup Uploads
      BY <2>2, <3>4, <3>5
    <3> QED
      BY <3>1, <3>6 DEF Upload, OneObject
  <2> QED
    BY <2>1, <2>2
<1> QED
  BY <1>1, <1>2, TypeCorrect, PTL DEF Spec

(* A step that changes no row and no reference preserves Inductive if it     *)
(* keeps the objects in use and what is said of the requests in flight.      *)
LEMMA ReferencesUnchanged ==
  ASSUME TypeOK, Inductive, UNCHANGED <<rows, references>>,
         UploadsArePrivate', UploadsAreStored',
         \A f \in Known : ObjectOf[f] \in stored' \/ f \in alike',
         DestroyedAreGone', SentAreKnown'
  PROVE  Inductive'
BY DEF Inductive, UsableFilesAreStored, Known, Submitted, references

LEMMA InductiveStep ==
  ASSUME TypeOK, SharersAreAlike, Inductive, [Next]_vars
  PROVE  Inductive'
<1> USE DEF TypeOK, Begin, At, Proceed, End
<1>1. ASSUME NEW r \in Requests, NEW u \in Users, NEW F \in SUBSET Files,
             NEW k \in Purposes, Upload(r, u, k, F)
      PROVE  Inductive'
  <2>1. UNCHANGED <<stored, rows, references, faulty>> /\ UNCHANGED Known
    BY <1>1 DEF Upload, references, Known, Submitted
  <2>2. F \cap Known = {}
    BY <1>1 DEF Upload, Fresh, Live, Inductive, UsableFilesAreStored
  <2>3. /\ req' = [req EXCEPT ![r] = req'[r]] /\ req[r] = None
        /\ req'[r].at = "upload" /\ req'[r].files = F
    BY <1>1 DEF Upload
  <2>4. \A q \in Requests : req[q] # None => req[q].files \cap F = {}
    BY <1>1 DEF Upload, Fresh, Live, Carried
  <2>5. UploadsArePrivate'
    BY <2>1, <2>2, <2>3, <2>4 DEF Inductive, UploadsArePrivate, Uploading
  <2>6. \A f \in alike : Live(f) => f \in alike'
    BY LiveStep
  <2>7. UploadsAreStored'
    BY <2>1, <2>3, <2>6 DEF Inductive, UploadsAreStored, Uploading, Live, Carried
  <2>8. DestroyedAreGone' /\ SentAreKnown'
    BY <2>1, <2>3 DEF Inductive, DestroyedAreGone, SentAreKnown
  <2>9. \A f \in Known : ObjectOf[f] \in stored' \/ f \in alike'
    BY <2>1, <2>6 DEF Inductive, UsableFilesAreStored, Live
  <2> QED
    BY <2>1, <2>5, <2>7, <2>8, <2>9, ReferencesUnchanged
<1>2. ASSUME NEW r \in Requests, NEW u \in Users, NEW F \in SUBSET Files,
             DeleteUserFiles(r, u, F) \/ SendMessage(r, u, F)
      PROVE  Inductive'
  <2>1. UNCHANGED <<stored, rows, references, alike, faulty>> /\ UNCHANGED Known
    BY <1>2 DEF DeleteUserFiles, SendMessage, references, Known, Submitted
  <2>2. F \subseteq Known
    BY <1>2 DEF DeleteUserFiles, SendMessage, Owned
  <2>3. /\ req' = [req EXCEPT ![r] = req'[r]] /\ req[r] = None
        /\ req'[r].at \in {"find", "send"} /\ req'[r].files = F
    BY <1>2 DEF DeleteUserFiles, SendMessage
  <2>4. UploadsArePrivate'
    BY <2>1, <2>2, <2>3 DEF Inductive, UploadsArePrivate, Uploading
  <2>5. UploadsAreStored'
    BY <2>1, <2>3 DEF Inductive, UploadsAreStored, Uploading
  <2>6. DestroyedAreGone'
    BY <2>1, <2>3 DEF Inductive, DestroyedAreGone
  <2>7. SentAreKnown'
    BY <2>1, <2>2, <2>3 DEF Inductive, SentAreKnown
  <2> QED
    BY <2>1, <2>4, <2>5, <2>6, <2>7, ReferencesUnchanged DEF Inductive, UsableFilesAreStored
<1>3. ASSUME NEW r \in Requests, UploadMultipleFiles(r)
      PROVE  Inductive'
  <2>1. UNCHANGED <<rows, references, alike>> /\ UNCHANGED Known /\ stored \subseteq stored'
    BY <1>3 DEF UploadMultipleFiles, references, Known, Submitted
  <2>2. \/ req' = [req EXCEPT ![r] = None]
        \/ /\ req' = [req EXCEPT ![r] = req'[r]]
           /\ req'[r].at \in {"check", "write"} /\ req'[r].files = req[r].files
           /\ \A f \in req[r].files : ObjectOf[f] \in stored'
    BY <1>3 DEF UploadMultipleFiles, Request, ObjectsOf
  <2>3. req[r] # None /\ req[r].at = "upload"
    BY <1>3 DEF UploadMultipleFiles
  <2>4. UploadsArePrivate'
    BY <2>1, <2>2, <2>3 DEF Inductive, UploadsArePrivate, Uploading
  <2>5. UploadsAreStored'
    BY <2>1, <2>2, <2>3 DEF Inductive, UploadsAreStored, Uploading
  <2>6. DestroyedAreGone' /\ SentAreKnown'
    BY <2>1, <2>2, <2>3 DEF Inductive, DestroyedAreGone, SentAreKnown
  <2> QED
    BY <2>1, <2>4, <2>5, <2>6, ReferencesUnchanged DEF Inductive, UsableFilesAreStored
<1>4. ASSUME NEW r \in Requests, WriteRows(r)
      PROVE  Inductive'
  <2> DEFINE F == req[r].files
  <2>1. /\ req[r] # None /\ Uploading(r) /\ ~At(r, "upload")
        /\ rows' = [f \in Files |-> IF f \in F THEN req[r].user ELSE rows[f]]
        /\ UNCHANGED <<stored, alike>>
        /\ req' = [req EXCEPT ![r] = None]
    BY <1>4 DEF WriteRows, AddRows, Uploading
  <2>2. /\ \A f \in F : ObjectOf[f] \in stored \/ f \in alike
        /\ F \subseteq Files /\ req[r].user # None
    BY <2>1, <1>4, NoneAssumption DEF WriteRows, Request, Inductive, UploadsAreStored
  <2>3. Known \subseteq Known' /\ Known' \subseteq Known \cup F
    BY <1>4 DEF WriteRows, Known, Submitted
  <2>4. \A q \in Requests : q # r /\ req[q] # None => req[q].files \cap F = {}
    BY <2>1 DEF Inductive, UploadsArePrivate
  <2> HIDE DEF F
  <2>5. UsableFilesAreStored'
    <3> SUFFICES ASSUME NEW f \in Known'
                 PROVE  rows'[f] # None /\ (ObjectOf[f] \in stored \/ f \in alike)
      BY <2>1 DEF UsableFilesAreStored
    <3>1. f \in Files /\ (f \in F \/ f \in Known)
      BY <2>2, <2>3 DEF Known, Submitted
    <3> QED
      BY <2>1, <2>2, <3>1 DEF Inductive, UsableFilesAreStored
  <2>6. UploadsArePrivate'
    BY <2>1, <2>3, <2>4 DEF Inductive, UploadsArePrivate, Uploading
  <2>7. UploadsAreStored'
    BY <2>1 DEF Inductive, UploadsAreStored, Uploading
  <2>8. DestroyedAreGone'
    <3> SUFFICES ASSUME NEW q \in Requests, q # r, req[q] # None, At(q, "destroy"),
                        NEW f \in req[q].files
                 PROVE  rows'[f] = None /\ f \notin Known'
      BY <2>1 DEF DestroyedAreGone
    <3>1. f \in Files /\ f \notin F
      BY <2>4 DEF Request
    <3> QED
      BY <2>1, <2>3, <3>1 DEF Inductive, DestroyedAreGone
  <2>9. SentAreKnown'
    <3> SUFFICES ASSUME NEW q \in Requests, q # r, req[q] # None, At(q, "send"),
                        NEW f \in req[q].files, rows'[f] # None
                 PROVE  f \in Known'
      BY <2>1 DEF SentAreKnown
    <3>1. f \in Files /\ f \notin F
      BY <2>4 DEF Request
    <3> QED
      BY <2>1, <2>3, <3>1 DEF Inductive, SentAreKnown
  <2> QED
    BY <2>5, <2>6, <2>7, <2>8, <2>9 DEF Inductive
<1>5. ASSUME NEW r \in Requests, Refused(r) \/ SubmitCheck(r)
      PROVE  Inductive'
  <2>1. UNCHANGED <<stored, rows, references, alike, faulty>> /\ UNCHANGED Known
    BY <1>5 DEF Refused, SubmitCheck, references, Known, Submitted
  <2>2. /\ req[r] # None /\ req[r].at \in {"check", "insert", "write"}
        /\ req' = [req EXCEPT ![r] = req'[r]]
        /\ req'[r].at \in {"insert", "cleanup"} /\ req'[r].files = req[r].files
    BY <1>5 DEF Refused, SubmitCheck, Request
  <2>3. UploadsArePrivate'
    BY <2>1, <2>2 DEF Inductive, UploadsArePrivate, Uploading
  <2>4. UploadsAreStored'
    BY <2>1, <2>2 DEF Inductive, UploadsAreStored, Uploading
  <2>5. DestroyedAreGone' /\ SentAreKnown'
    BY <2>1, <2>2 DEF Inductive, DestroyedAreGone, SentAreKnown
  <2> QED
    BY <2>1, <2>3, <2>4, <2>5, ReferencesUnchanged DEF Inductive, UsableFilesAreStored
<1>6. ASSUME NEW r \in Requests, Cleanup(r) \/ DestroyObjects(r) \/ Crash(r) \/ Fail(r)
      PROVE  Inductive'
  <2> DEFINE F == req[r].files
  <2>1. /\ UNCHANGED <<rows, references>> /\ UNCHANGED Known
        /\ req[r] # None /\ req' = [req EXCEPT ![r] = None]
    BY <1>6 DEF Cleanup, DestroyObjects, Crash, Fail, references, Known, Submitted
  <2>2. \/ stored' = stored
        \/ /\ stored \ ObjectsOf(F) \subseteq stored' /\ F \cap Known = {}
           /\ \A q \in Requests : q # r /\ Uploading(q) => req[q].files \cap F = {}
    <3>1. CASE Cleanup(r)
      BY <3>1 DEF Cleanup, DestroyMultiple, Uploading, Inductive, UploadsArePrivate
    <3>2. CASE DestroyObjects(r)
      <4>1. F \cap Known = {} /\ stored \ ObjectsOf(F) \subseteq stored'
        BY <3>2 DEF DestroyObjects, DestroyMultiple, Inductive, DestroyedAreGone
      <4>2. \A q \in Requests : q # r /\ Uploading(q) => F \cap req[q].files = {}
        BY <2>1 DEF Inductive, UploadsArePrivate
      <4> QED
        BY <4>1, <4>2
    <3>3. CASE Crash(r) \/ Fail(r)
      BY <3>3 DEF Crash, Fail
    <3> QED
      BY <1>6, <3>1, <3>2, <3>3
  <2>3. alike' = alike /\ F \subseteq Files /\ \A g \in F : Live(g)
    BY <1>6, <2>1 DEF Cleanup, DestroyObjects, Crash, Fail, Live, Carried, Request
  <2> HIDE DEF F
  <2>4. ASSUME stored' # stored, NEW f \in Files \ F, Live(f), f \notin alike,
               ObjectOf[f] \in stored
        PROVE  ObjectOf[f] \in stored'
    BY <2>2, <2>3, <2>4 DEF ObjectsOf, SharersAreAlike
  <2>5. UploadsArePrivate'
    BY <2>1 DEF Inductive, UploadsArePrivate, Uploading
  <2>6. UploadsAreStored'
    <3> SUFFICES ASSUME NEW q \in Requests, q # r, Uploading(q), ~At(q, "upload"),
                        NEW f \in req[q].files, f \notin alike
                 PROVE  ObjectOf[f] \in stored'
      BY <2>1, <2>3 DEF UploadsAreStored, Uploading
    <3>1. f \in Files /\ Live(f) /\ ObjectOf[f] \in stored
      BY DEF Uploading, Request, Live, Carried, Inductive, UploadsAreStored
    <3> QED
      BY <2>2, <2>4, <3>1
  <2>7. DestroyedAreGone' /\ SentAreKnown'
    BY <2>1 DEF Inductive, DestroyedAreGone, SentAreKnown
  <2>8. \A f \in Known : ObjectOf[f] \in stored' \/ f \in alike'
    <3> SUFFICES ASSUME NEW f \in Known, f \notin alike
                 PROVE  ObjectOf[f] \in stored'
      BY <2>3
    <3>1. f \in Files /\ Live(f) /\ ObjectOf[f] \in stored
      BY DEF Known, Submitted, Live, Inductive, UsableFilesAreStored
    <3> QED
      BY <2>2, <2>4, <3>1
  <2> QED
    BY <2>1, <2>5, <2>6, <2>7, <2>8, ReferencesUnchanged
<1>7. ASSUME NEW r \in Requests, InsertMultipleFiles(r)
      PROVE  Inductive'
  <2> DEFINE F == req[r].files
  <2>1. PICK S \in SUBSET F :
          /\ rows' = [f \in Files |-> IF f \in S THEN req[r].user ELSE rows[f]]
          /\ req' = [req EXCEPT ![r].at = IF S = F THEN "write" ELSE "cleanup"]
    BY <1>7 DEF InsertMultipleFiles, AddRows
  <2>2. /\ UNCHANGED <<stored, references, alike>> /\ UNCHANGED Known
        /\ req[r] # None /\ req[r].at = "insert"
    BY <1>7 DEF InsertMultipleFiles, references, Known, Submitted
  <2>3. /\ req' = [req EXCEPT ![r] = req'[r]]
        /\ req'[r].at \in {"write", "cleanup"} /\ req'[r].files = F
    BY <2>1, <2>2 DEF Request
  <2>4. \A q \in Requests : q # r /\ req[q] # None => req[q].files \cap F = {}
    BY <2>2 DEF Inductive, UploadsArePrivate, Uploading
  <2>5. F \cap Known = {} /\ \A f \in F : ObjectOf[f] \in stored \/ f \in alike
    BY <2>2 DEF Inductive, UploadsArePrivate, UploadsAreStored, Uploading
  <2> HIDE DEF F
  <2>6. UsableFilesAreStored'
    <3> SUFFICES ASSUME NEW f \in Known
                 PROVE  rows'[f] # None /\ (ObjectOf[f] \in stored \/ f \in alike)
      BY <2>2 DEF UsableFilesAreStored
    <3>1. f \in Files /\ f \notin F
      BY <2>5 DEF Known, Submitted
    <3> QED
      BY <2>1, <3>1 DEF Inductive, UsableFilesAreStored
  <2>7. UploadsArePrivate'
    BY <2>2, <2>3, <2>4, <2>5 DEF Inductive, UploadsArePrivate, Uploading
  <2>8. UploadsAreStored'
    BY <2>2, <2>3, <2>5 DEF Inductive, UploadsAreStored, Uploading
  <2>9. DestroyedAreGone'
    <3> SUFFICES ASSUME NEW q \in Requests, q # r, req[q] # None, At(q, "destroy"),
                        NEW f \in req[q].files
                 PROVE  rows'[f] = None /\ f \notin Known
      BY <2>2, <2>3 DEF DestroyedAreGone
    <3>1. f \in Files /\ f \notin F
      BY <2>4 DEF Request
    <3> QED
      BY <2>1, <3>1 DEF Inductive, DestroyedAreGone
  <2>10. SentAreKnown'
    <3> SUFFICES ASSUME NEW q \in Requests, q # r, req[q] # None, At(q, "send"),
                        NEW f \in req[q].files, rows'[f] # None
                 PROVE  f \in Known
      BY <2>2, <2>3 DEF SentAreKnown
    <3>1. f \in Files /\ f \notin F
      BY <2>4 DEF Request
    <3> QED
      BY <2>1, <3>1 DEF Inductive, SentAreKnown
  <2> QED
    BY <2>6, <2>7, <2>8, <2>9, <2>10 DEF Inductive
<1>8. ASSUME NEW r \in Requests, SubmitCommit(r)
      PROVE  Inductive'
  <2> DEFINE F == req[r].files
             s == req[r].purpose
  <2>1. /\ req[r] # None /\ Uploading(r) /\ ~At(r, "upload") /\ s \in Slots
        /\ F \subseteq Files /\ submission[s] = None
        /\ \A f \in F : rows[f] # None
        /\ UNCHANGED <<stored, rows, listed, attached, sent, alike, faulty>>
        /\ submission' = [submission EXCEPT ![s] = F]
        /\ req' = [req EXCEPT ![r] = None]
    BY <1>8 DEF SubmitCommit, UniqueIndexAllows, Uploading, Request
  <2>2. \A f \in F : ObjectOf[f] \in stored \/ f \in alike
    BY <2>1 DEF Inductive, UploadsAreStored
  <2>3. \A q \in Requests : q # r /\ req[q] # None => req[q].files \cap F = {}
    BY <2>1 DEF Inductive, UploadsArePrivate
  <2> HIDE DEF F, s
  <2>4. \A x \in Slots : submission'[x] = IF x = s THEN F ELSE submission[x]
    BY <2>1
  <2>5. Known \subseteq Known' /\ Known' \subseteq Known \cup F
    BY <2>1, <2>4 DEF Known, Submitted
  <2>6. UsableFilesAreStored'
    BY <2>1, <2>2, <2>5 DEF Inductive, UsableFilesAreStored
  <2>7. UploadsArePrivate'
    BY <2>1, <2>3, <2>5 DEF Inductive, UploadsArePrivate, Uploading
  <2>8. UploadsAreStored'
    BY <2>1 DEF Inductive, UploadsAreStored, Uploading
  <2>9. DestroyedAreGone'
    BY <2>1, <2>3, <2>5 DEF Inductive, DestroyedAreGone
  <2>10. SentAreKnown'
    BY <2>1, <2>5 DEF Inductive, SentAreKnown
  <2> QED
    BY <2>6, <2>7, <2>8, <2>9, <2>10 DEF Inductive
<1>9. ASSUME NEW r \in Requests, FindRows(r)
      PROVE  Inductive'
  <2>1. UNCHANGED <<stored, rows, references, alike, faulty>> /\ UNCHANGED Known
    BY <1>9 DEF FindRows, references, Known, Submitted
  <2>2. /\ req[r] # None /\ req[r].at = "find"
        /\ req' = [req EXCEPT ![r] = req'[r]]
        /\ req'[r].at = "delete" /\ req'[r].files \subseteq req[r].files
    BY <1>9 DEF FindRows
  <2>3. UploadsArePrivate'
    BY <2>1, <2>2 DEF Inductive, UploadsArePrivate, Uploading
  <2>4. UploadsAreStored'
    BY <2>1, <2>2 DEF Inductive, UploadsAreStored, Uploading
  <2>5. DestroyedAreGone' /\ SentAreKnown'
    BY <2>1, <2>2 DEF Inductive, DestroyedAreGone, SentAreKnown
  <2> QED
    BY <2>1, <2>3, <2>4, <2>5, ReferencesUnchanged DEF Inductive, UsableFilesAreStored
<1>10. ASSUME NEW r \in Requests, DeleteRows(r)
       PROVE  Inductive'
  <2> DEFINE F == req[r].files
  <2>1. /\ req[r] # None /\ req[r].at = "delete" /\ F \subseteq Files
        /\ F \cap (attached \cup Submitted) = {}
        /\ rows' = [f \in Files |-> IF f \in F THEN None ELSE rows[f]]
        /\ listed' = listed \ F /\ sent' = sent \ F
        /\ UNCHANGED <<stored, attached, submission, alike, faulty>>
    BY <1>10 DEF DeleteRows, Deletable, AddRows, Request
  <2>2. /\ req' = [req EXCEPT ![r] = req'[r]]
        /\ req'[r].at = "destroy" /\ req'[r].files = F
    BY <1>10 DEF DeleteRows, Request
  <2>3. Known' = Known \ F
    BY <2>1 DEF Known, Submitted
  <2> HIDE DEF F
  <2>4. UsableFilesAreStored'
    <3>1. Known \subseteq Files
      BY DEF Known, Submitted
    <3> QED
      BY <2>1, <2>3, <3>1 DEF Inductive, UsableFilesAreStored
  <2>5. UploadsArePrivate'
    <3> SUFFICES ASSUME NEW q \in Requests, q # r, Uploading(q)
                 PROVE  /\ req[q].files \cap Known' = {}
                        /\ F \cap req[q].files = {}
                        /\ \A x \in Requests :
                             x \notin {q, r} /\ req[x] # None =>
                               req[x].files \cap req[q].files = {}
      BY <2>2 DEF UploadsArePrivate, Uploading
    <3> QED
      BY <2>1, <2>3 DEF Inductive, UploadsArePrivate, F
  <2>6. UploadsAreStored'
    BY <2>1, <2>2 DEF Inductive, UploadsAreStored, Uploading
  <2>7. DestroyedAreGone'
    <3> SUFFICES ASSUME NEW q \in Requests, q # r, At(q, "destroy"),
                        NEW f \in req[q].files
                 PROVE  rows'[f] = None /\ f \notin Known'
      BY <2>1, <2>2, <2>3 DEF DestroyedAreGone
    <3>1. f \in Files
      BY DEF Request
    <3> QED
      BY <2>1, <2>3, <3>1 DEF Inductive, DestroyedAreGone
  <2>8. SentAreKnown'
    <3> SUFFICES ASSUME NEW q \in Requests, q # r, At(q, "send"),
                        NEW f \in req[q].files, rows'[f] # None
                 PROVE  f \in Known'
      BY <2>2 DEF SentAreKnown
    <3>1. f \in Files
      BY DEF Request
    <3> QED
      BY <2>1, <2>3, <3>1 DEF Inductive, SentAreKnown
  <2> QED
    BY <2>4, <2>5, <2>6, <2>7, <2>8 DEF Inductive
<1>11. ASSUME NEW r \in Requests, SendMessageCommit(r)
       PROVE  Inductive'
  <2>1. /\ req[r] # None /\ req' = [req EXCEPT ![r] = None]
        /\ \A f \in req[r].files : rows[f] # None
        /\ sent' = sent \cup req[r].files
        /\ UNCHANGED <<stored, rows, listed, attached, submission, alike, faulty>>
    BY <1>11 DEF SendMessageCommit, RowsExist
  <2>2. req[r].files \subseteq Known
    BY <2>1, <1>11 DEF SendMessageCommit, Inductive, SentAreKnown
  <2>3. UNCHANGED Known
    BY <2>1, <2>2 DEF Known, Submitted
  <2> QED
    BY <2>1, <2>3
    DEF Inductive, UsableFilesAreStored, UploadsArePrivate, UploadsAreStored, Uploading,
        DestroyedAreGone, SentAreKnown
<1>12. CASE UNCHANGED vars
  <2>1. UNCHANGED Known
    BY <1>12 DEF vars, references, Known, Submitted
  <2> QED
    BY <1>12, <2>1
    DEF vars, Inductive, UsableFilesAreStored, UploadsArePrivate, UploadsAreStored, Uploading,
        DestroyedAreGone, SentAreKnown
<1> QED
  BY <1>1, <1>2, <1>3, <1>4, <1>5, <1>6, <1>7, <1>8, <1>9, <1>10, <1>11, <1>12
  DEF Next, Arrive, Advance

(* Uploads in flight are private, what is being destroyed is out of use.     *)
THEOREM FilesConsistent == Spec => []Inductive
<1>1. Init => Inductive
  BY DEF Init, Inductive, UsableFilesAreStored, UploadsArePrivate, UploadsAreStored,
         Uploading, DestroyedAreGone, SentAreKnown, Known, Submitted, At
<1>2. TypeOK /\ SharersAreAlike /\ Inductive /\ [Next]_vars => Inductive'
  BY InductiveStep
<1> QED
  BY <1>1, <1>2, TypeCorrect, SharersHold, PTL DEF Spec

(* What a client can use has its row, and its object unless that was given   *)
(* to another file as well, whatever interleaves or fails.                   *)
THEOREM UsableFilesAreAlwaysStored == Spec => []UsableFilesAreStored
<1>1. Inductive => UsableFilesAreStored
  BY DEF Inductive
<1> QED
  BY <1>1, FilesConsistent, PTL

(* No submission is ever replaced.                                           *)
THEOREM SubmissionsStay == Spec => SubmittedOnce
<1>1. TypeOK /\ [Next]_vars =>
        [\A s \in Slots : submission[s] # None => submission'[s] = submission[s]]_vars
  <2> SUFFICES ASSUME TypeOK, Next, NEW s \in Slots, submission[s] # None
               PROVE  submission'[s] = submission[s]
    BY DEF vars
  <2>1. ASSUME NEW r \in Requests, SubmitCommit(r)
        PROVE  submission'[s] = submission[s]
    BY <2>1 DEF SubmitCommit, UniqueIndexAllows, TypeOK
  <2>2. ASSUME NEW r \in Requests, ~SubmitCommit(r), Arrive(r) \/ Advance(r)
        PROVE  submission' = submission
    BY <2>2 DEF Arrive, Advance, references, Upload, DeleteUserFiles, SendMessage,
                UploadMultipleFiles, WriteRows, Refused, Cleanup, Crash, SubmitCheck,
                InsertMultipleFiles, FindRows, DeleteRows, DestroyObjects, SendMessageCommit, Fail
  <2> QED
    BY <2>1, <2>2 DEF Next
<1> QED
  BY <1>1, TypeCorrect, PTL DEF Spec, SubmittedOnce

-----------------------------------------------------------------------------
(* A step of request r leaves nothing behind if each file has a row, or r    *)
(* answers for it, whenever it had one or r did before, except those whose   *)
(* objects are destroyed; and if objects are stored for files r answers for. *)
LEMMA StillAccountedFor ==
  ASSUME ImagesAreAccountedFor, NEW r \in Requests, ~faulty,
         \A q \in Requests \ {r} : req'[q] = req[q],
         \A o \in stored' \ Raw :
           o \in stored \/ \E f \in Files : ObjectOf[f] = o /\ AnswersFor(r, f)',
         \A f \in Files : ObjectOf[f] \in stored' \ Raw /\ (rows[f] # None \/ AnswersFor(r, f)) =>
           rows'[f] # None \/ AnswersFor(r, f)'
  PROVE  ImagesAreAccountedFor'
<1> SUFFICES ASSUME NEW o \in stored' \ Raw
             PROVE  \E f \in Files :
                      /\ ObjectOf[f] = o
                      /\ rows'[f] # None \/ \E q \in Requests : AnswersFor(q, f)'
  BY DEF ImagesAreAccountedFor
<1>1. CASE o \in stored
  <2>1. PICK f \in Files :
          ObjectOf[f] = o /\ (rows[f] # None \/ \E q \in Requests : AnswersFor(q, f))
    BY <1>1 DEF ImagesAreAccountedFor
  <2>2. CASE rows[f] # None \/ AnswersFor(r, f)
    BY <2>1, <2>2
  <2>3. ASSUME NEW q \in Requests \ {r}, AnswersFor(q, f)
        PROVE  AnswersFor(q, f)'
    BY <2>3 DEF AnswersFor, Uploading, At
  <2> QED
    BY <2>1, <2>2, <2>3
<1>2. CASE o \notin stored
  BY <1>2
<1> QED
  BY <1>1, <1>2

LEMMA AccountedForStep ==
  ASSUME TypeOK, ImagesAreAccountedFor, [Next]_vars
  PROVE  ImagesAreAccountedFor'
<1> SUFFICES ASSUME ~faulty'
             PROVE  ImagesAreAccountedFor'
  BY DEF ImagesAreAccountedFor
<1> USE DEF TypeOK, Begin, At, Proceed, End
<1>1. ASSUME NEW r \in Requests, NEW u \in Users, NEW F \in SUBSET Files,
             \/ \E k \in Purposes : Upload(r, u, k, F)
             \/ DeleteUserFiles(r, u, F)
             \/ SendMessage(r, u, F)
      PROVE  ImagesAreAccountedFor'
  <2>1. UNCHANGED <<stored, rows, faulty>> /\ req[r] = None
    BY <1>1 DEF Upload, DeleteUserFiles, SendMessage
  <2>2. \A q \in Requests \ {r} : req'[q] = req[q]
    BY <1>1 DEF Upload, DeleteUserFiles, SendMessage
  <2>3. \A f : ~AnswersFor(r, f)
    BY <2>1 DEF AnswersFor, Uploading
  <2> QED
    BY <2>1, <2>2, <2>3, StillAccountedFor
<1>2. ASSUME NEW r \in Requests, UploadMultipleFiles(r)
      PROVE  ImagesAreAccountedFor'
  <2>1. /\ rows' = rows /\ ~faulty /\ req[r].files \subseteq Files
        /\ stored' = stored \cup ObjectsOf(req[r].files)
        /\ \A q \in Requests \ {r} : req'[q] = req[q]
    BY <1>2 DEF UploadMultipleFiles, Request
  <2>2. req'[r] \in Request /\ req'[r].files = req[r].files /\ req'[r].at \in {"check", "write"}
    <3>1. PICK stage \in {"check", "write"} : req' = [req EXCEPT ![r].at = stage]
      BY <1>2 DEF UploadMultipleFiles
    <3>2. req[r] \in [at : {"upload", "check", "insert", "write", "cleanup"},
                      purpose : Purposes, user : Users, files : SUBSET Files]
      BY <1>2 DEF UploadMultipleFiles, Request
    <3> QED
      BY <3>1, <3>2 DEF Request
  <2>3. \A f \in req[r].files : AnswersFor(r, f)'
    BY <2>2, NoneIsNoRequest DEF AnswersFor, Uploading
  <2>4. \A f : f \notin req[r].files => ~AnswersFor(r, f)
    BY DEF AnswersFor
  <2> QED
    BY <2>1, <2>3, <2>4, StillAccountedFor DEF ObjectsOf
<1>3. ASSUME NEW r \in Requests, WriteRows(r)
      PROVE  ImagesAreAccountedFor'
  <2>1. /\ UNCHANGED <<stored, faulty>> /\ req[r].user # None
        /\ rows' = [f \in Files |-> IF f \in req[r].files THEN req[r].user ELSE rows[f]]
        /\ \A q \in Requests \ {r} : req'[q] = req[q]
    BY <1>3, NoneAssumption DEF WriteRows, AddRows, Request
  <2>2. \A f : f \notin req[r].files => ~AnswersFor(r, f)
    BY DEF AnswersFor
  <2> QED
    BY <2>1, <2>2, StillAccountedFor
<1>4. ASSUME NEW r \in Requests, Refused(r) \/ SubmitCheck(r)
      PROVE  ImagesAreAccountedFor'
  <2>1. UNCHANGED <<stored, rows, faulty>> /\ \A q \in Requests \ {r} : req'[q] = req[q]
    BY <1>4 DEF Refused, SubmitCheck
  <2>2. /\ req'[r] \in Request /\ req'[r].files = req[r].files
        /\ req'[r].at \in {"insert", "cleanup"}
    BY <1>4 DEF Refused, SubmitCheck, Request
  <2>3. \A f : AnswersFor(r, f) => AnswersFor(r, f)'
    BY <2>2, NoneIsNoRequest DEF AnswersFor, Uploading
  <2> QED
    BY <2>1, <2>3, StillAccountedFor
<1>5. ASSUME NEW r \in Requests, Cleanup(r) \/ DestroyObjects(r)
      PROVE  ImagesAreAccountedFor'
  <2>1. /\ rows' = rows /\ ~faulty /\ stored' \subseteq stored
        /\ \A f \in req[r].files : ObjectOf[f] \in stored' => ObjectOf[f] \in Raw
        /\ \A q \in Requests \ {r} : req'[q] = req[q]
    BY <1>5 DEF Cleanup, DestroyObjects, DestroyMultiple, ObjectsOf
  <2>2. \A f : f \notin req[r].files => ~AnswersFor(r, f)
    BY DEF AnswersFor
  <2> QED
    BY <2>1, <2>2, StillAccountedFor
<1>6. ASSUME NEW r \in Requests, Crash(r)
      PROVE  ImagesAreAccountedFor'
  BY <1>6 DEF Crash
<1>7. ASSUME NEW r \in Requests, InsertMultipleFiles(r)
      PROVE  ImagesAreAccountedFor'
  <2>1. PICK S \in SUBSET req[r].files :
          rows' = [f \in Files |-> IF f \in S THEN req[r].user ELSE rows[f]]
    BY <1>7 DEF InsertMultipleFiles, AddRows
  <2>2. /\ UNCHANGED <<stored, faulty>> /\ req[r].user # None
        /\ \A q \in Requests \ {r} : req'[q] = req[q]
    BY <1>7, NoneAssumption DEF InsertMultipleFiles, Request
  <2>3. /\ req'[r] \in Request /\ req'[r].files = req[r].files
        /\ req'[r].at \in {"write", "cleanup"}
    BY <1>7 DEF InsertMultipleFiles, Request
  <2>4. \A f \in Files \ req[r].files : rows'[f] = rows[f] /\ ~AnswersFor(r, f)
    BY <2>1 DEF AnswersFor
  <2>5. \A f \in req[r].files : AnswersFor(r, f)'
    BY <2>3, NoneIsNoRequest DEF AnswersFor, Uploading
  <2> QED
    BY <2>2, <2>4, <2>5, StillAccountedFor
<1>8. ASSUME NEW r \in Requests, SubmitCommit(r)
      PROVE  ImagesAreAccountedFor'
  <2>1. /\ UNCHANGED <<stored, rows, faulty>> /\ \A f \in req[r].files : rows[f] # None
        /\ \A q \in Requests \ {r} : req'[q] = req[q]
    BY <1>8 DEF SubmitCommit
  <2>2. \A f : f \notin req[r].files => ~AnswersFor(r, f)
    BY DEF AnswersFor
  <2> QED
    BY <2>1, <2>2, StillAccountedFor
<1>9. ASSUME NEW r \in Requests, FindRows(r) \/ Fail(r) \/ SendMessageCommit(r)
      PROVE  ImagesAreAccountedFor'
  <2>1. UNCHANGED <<stored, rows, faulty>> /\ \A q \in Requests \ {r} : req'[q] = req[q]
    BY <1>9 DEF FindRows, Fail, SendMessageCommit
  <2>2. \A f : ~AnswersFor(r, f)
    BY <1>9 DEF FindRows, Fail, SendMessageCommit, AnswersFor, Uploading
  <2> QED
    BY <2>1, <2>2, StillAccountedFor
<1>10. ASSUME NEW r \in Requests, DeleteRows(r)
       PROVE  ImagesAreAccountedFor'
  <2>1. /\ UNCHANGED <<stored, faulty>>
        /\ rows' = [f \in Files |-> IF f \in req[r].files THEN None ELSE rows[f]]
        /\ \A q \in Requests \ {r} : req'[q] = req[q]
    BY <1>10 DEF DeleteRows, AddRows
  <2>2. req'[r] \in Request /\ req'[r].at = "destroy" /\ req'[r].files = req[r].files
    BY <1>10 DEF DeleteRows, Request
  <2>3. /\ \A f \in req[r].files : AnswersFor(r, f)'
        /\ \A f : f \notin req[r].files => ~AnswersFor(r, f)
    BY <2>2, NoneIsNoRequest DEF AnswersFor
  <2> QED
    BY <2>1, <2>3, StillAccountedFor
<1>11. CASE UNCHANGED vars
  BY <1>11 DEF vars, ImagesAreAccountedFor, AnswersFor, Uploading
<1> QED
  BY <1>1, <1>2, <1>3, <1>4, <1>5, <1>6, <1>7, <1>8, <1>9, <1>10, <1>11
  DEF Next, Arrive, Advance

(* While the server and the store work no image is left behind, however many *)
(* requests interleave, are refused or rolled back.                          *)
THEOREM NoImageEverLeaks == Spec => []NoImageLeaks
<1>1. Init => ImagesAreAccountedFor
  BY DEF Init, ImagesAreAccountedFor
<1>2. TypeOK /\ ImagesAreAccountedFor /\ [Next]_vars => ImagesAreAccountedFor'
  BY AccountedForStep
<1>3. ImagesAreAccountedFor => NoImageLeaks
  BY DEF ImagesAreAccountedFor, NoImageLeaks, AnswersFor, Uploading, At, Live, Carried
<1> QED
  BY <1>1, <1>2, <1>3, TypeCorrect, PTL DEF Spec
=============================================================================
