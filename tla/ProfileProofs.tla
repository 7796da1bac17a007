---------------------------- MODULE ProfileProofs ----------------------------
(* Theorems about Profile, for any sets of users, names, sizes and updates   *)
(* in flight, and any number of images.                                      *)
EXTENDS Profile, TLAPS

(* What an update in flight carries has its type. *)
LEMMA RequestFields ==
  ASSUME TypeOK, NEW r \in Requests, req[r] # None
  PROVE  /\ req[r] \in Request
         /\ req[r].user \in Users
         /\ req[r].new \in ImageIds /\ req[r].prev \in ImageIds \cup {None}
         /\ req[r].erased \subseteq ImageIds
  BY DEF TypeOK, Request

LEMMA TypeInit == Init => TypeOK
<1> SUFFICES ASSUME Init PROVE TypeOK
  OBVIOUS
<1>1. overlapped \in BOOLEAN /\ faulty \in BOOLEAN
  BY Zenon DEF Init
<1>2. images \in 0..MaxImages
  BY BoundAssumption DEF Init
<1>3. /\ picture \in [Users -> ImageIds \cup {None}]
      /\ req \in [Requests -> Request \cup {None}]
  BY Zenon DEF Init
<1> QED
  BY <1>1, <1>2, <1>3 DEF Init, TypeOK

LEMMA TypeStep ==
  ASSUME TypeOK, [Next]_vars
  PROVE  TypeOK'
<1> USE BoundAssumption, NoneAssumption, NoneIsNoRequest DEF TypeOK, tables, history
<1>1. ASSUME NEW u \in Users, NEW n \in Names, UpdateUser(u, n)
      PROVE  TypeOK'
  BY <1>1 DEF UpdateUser
<1>2. ASSUME NEW r \in Requests, NEW u \in Users, Begin(r, u)
      PROVE  TypeOK'
  <2>1. images + 1 \in ImageIds
    BY <1>2 DEF Begin, ImageIds
  <2>2. [at |-> "upload", user |-> u, prev |-> picture[u],
         new |-> images + 1, erased |-> {}] \in Request
    BY <2>1 DEF Request, Stages
  <2>3. req' \in [Requests -> Request \cup {None}]
    BY <1>2, <2>2 DEF Begin
  <2>4. overlapped' \in BOOLEAN
    BY <1>2 DEF Begin
  <2> QED
    BY <1>2, <2>1, <2>3, <2>4 DEF Begin, ImageIds
<1>3. ASSUME NEW r \in Requests, UploadSingleImageAndInsert(r)
      PROVE  TypeOK'
  <2>1. stored' \subseteq Objects /\ faulty' \in BOOLEAN
    BY <1>3 DEF UploadSingleImageAndInsert, ObjectsOf
  <2>2. req' \in [Requests -> Request \cup {None}]
    BY <1>3 DEF UploadSingleImageAndInsert, At, Request, Stages
  <2> QED
    BY <1>3, <2>1, <2>2 DEF UploadSingleImageAndInsert
<1>4. ASSUME NEW r \in Requests, UpdatePicture(r)
      PROVE  TypeOK'
  BY <1>4 DEF UpdatePicture, At, Request, Stages
<1>5. ASSUME NEW r \in Requests, DeleteImagesAndRecord(r)
      PROVE  TypeOK'
  <2>. DEFINE gone == {req[r].prev} \cap rows
             q == [req[r] EXCEPT !.at = IF gone # {} THEN "deleted" ELSE "commit",
                                 !.erased = gone]
  <2>2. req[r] \in Request
    BY <1>5 DEF DeleteImagesAndRecord, At
  <2>3. q \in Request
    BY <2>2 DEF Request, Stages
  <2>1. req' \in [Requests -> Request \cup {None}]
    BY <1>5, <2>3 DEF DeleteImagesAndRecord, DeletePrevious
  <2> QED
    BY <1>5, <2>1 DEF DeleteImagesAndRecord
<1>6. ASSUME NEW r \in Requests, DestroyObjects(r)
      PROVE  TypeOK'
  <2>1. stored' \subseteq Objects
    BY <1>6 DEF DestroyObjects
  <2>2. faulty' \in BOOLEAN
    BY <1>6 DEF DestroyObjects
  <2>3. req' \in [Requests -> Request \cup {None}]
    BY <1>6 DEF DestroyObjects, At, Request, Stages
  <2> QED
    BY <1>6, <2>1, <2>2, <2>3 DEF DestroyObjects
<1>7. ASSUME NEW r \in Requests, Commit(r)
      PROVE  TypeOK'
  <2>1. req[r] # None
    BY <1>7 DEF Commit, At
  <2> QED
    BY <1>7, <2>1, RequestFields DEF Commit
<1>8. ASSUME NEW r \in Requests, Rollback(r)
      PROVE  TypeOK'
  <2>1. req[r] # None
    BY <1>8 DEF Rollback
  <2>2. stored' \subseteq Objects
    BY <1>8 DEF Rollback, ObjectsOf
  <2>3. undone' \subseteq ImageIds
    BY <1>8, <2>1, RequestFields DEF Rollback
  <2> QED
    BY <1>8, <2>2, <2>3 DEF Rollback
<1>9. CASE UNCHANGED vars
  BY <1>9 DEF vars
<1> QED
  BY <1>1, <1>2, <1>3, <1>4, <1>5, <1>6, <1>7, <1>8, <1>9 DEF Next, Advance

(* Every row, object and update in flight keeps its type.                    *)
THEOREM TypeCorrect == Spec => []TypeOK
  BY TypeInit, TypeStep, PTL DEF Spec

-----------------------------------------------------------------------------
LEMMA InductiveInit == Init => Inductive
  BY DEF Init, Inductive, AccountsSurvive, ImagesAreFresh, PicturesAreTheirs,
         ErasureIsLocked, OneHolder, UploadedAreStored, ShownOrAtStake, Locks

(* The objects of two images are apart, and None has none. *)
LEMMA ObjectsApart ==
  ASSUME NEW i, NEW j, i # j
  PROVE  ObjectsOf(i) \cap ObjectsOf(j) = {}
  BY DEF ObjectsOf

(* An update that goes on keeps what it is about, and so do the others: the  *)
(* parts about who holds which image stay.                                   *)
LEMMA GoesOn ==
  ASSUME TypeOK, Inductive, NEW r \in Requests, req[r] # None,
         req' \in [Requests -> Request \cup {None}],
         \A s \in Requests \ {r} : req'[s] = req[s],
         req'[r] # None, req'[r].user = req[r].user,
         req'[r].prev = req[r].prev, req'[r].new = req[r].new,
         UNCHANGED tables, UNCHANGED images, UNCHANGED undone
  PROVE  AccountsSurvive' /\ ImagesAreFresh' /\ PicturesAreTheirs'
<1>1. \A s \in Requests :
        /\ req'[s] # None <=> req[s] # None
        /\ req[s] # None =>
             req'[s].user = req[s].user /\ req'[s].prev = req[s].prev /\ req'[s].new = req[s].new
  OBVIOUS
<1>2. AccountsSurvive'
  BY DEF Inductive, AccountsSurvive, tables
<1>3. ImagesAreFresh'
  BY <1>1 DEF Inductive, ImagesAreFresh, tables
<1>4. PicturesAreTheirs'
  BY <1>1 DEF Inductive, PicturesAreTheirs, tables
<1> QED
  BY <1>2, <1>3, <1>4

LEMMA InductiveStep ==
  ASSUME TypeOK, Inductive, [Next]_vars
  PROVE  Inductive'
<1> USE BoundAssumption, NoneAssumption, NoneIsNoRequest DEF Inductive
<1>0. TypeOK'
  BY TypeStep
<1>1. ASSUME NEW u \in Users, NEW n \in Names, UpdateUser(u, n)
      PROVE  Inductive'
  BY <1>1 DEF UpdateUser, history, AccountsSurvive, ImagesAreFresh, PicturesAreTheirs,
       ErasureIsLocked, OneHolder, UploadedAreStored, ShownOrAtStake, Locks, AtStake
<1>2. ASSUME NEW r \in Requests, NEW u \in Users, Begin(r, u)
      PROVE  Inductive'
  <2>1. /\ req[r] = None /\ images' = images + 1 /\ images \in Nat
        /\ req'[r] # None /\ req'[r].at = "upload" /\ req'[r].user = u
        /\ req'[r].prev = picture[u] /\ req'[r].new = images + 1 /\ req'[r].erased = {}
        /\ \A s \in Requests \ {r} : req'[s] = req[s]
        /\ UNCHANGED <<tables, stored, undone>>
    <3>. DEFINE q == [at |-> "upload", user |-> u, prev |-> picture[u],
                      new |-> images + 1, erased |-> {}]
    <3>1. images + 1 \in ImageIds
      BY <1>2 DEF Begin, TypeOK, ImageIds
    <3>2. q \in Request
      BY <3>1 DEF TypeOK, Request, Stages
    <3>3. q # None
      BY <3>2
    <3>4. req'[r] = q /\ \A s \in Requests \ {r} : req'[s] = req[s]
      BY <1>2 DEF Begin, TypeOK
    <3> QED
      BY <1>2, <3>3, <3>4 DEF Begin, TypeOK
  <2>2. /\ rows \cup undone \subseteq Nat
        /\ \A v \in Users : picture[v] # None => picture[v] \in Nat
        /\ \A s \in Requests : req[s] # None =>
             /\ req[s].new \in Nat
             /\ req[s].prev # None => req[s].prev \in Nat
    BY RequestFields DEF TypeOK, ImageIds
  <2>3. AccountsSurvive'
    BY <2>1 DEF AccountsSurvive, tables
  <2>4. ImagesAreFresh'
    BY <2>1, <2>2 DEF ImagesAreFresh, tables
  <2>5. PicturesAreTheirs'
    BY <2>1 DEF PicturesAreTheirs, tables
  <2>6. ErasureIsLocked'
    BY <2>1 DEF ErasureIsLocked
  <2>7. OneHolder'
    BY <2>1 DEF OneHolder, Locks
  <2>8. UploadedAreStored'
    BY <2>1 DEF UploadedAreStored
  <2>9. ShownOrAtStake'
    BY <2>1 DEF ShownOrAtStake, AtStake, Locks, tables
  <2> QED
    BY <2>3, <2>4, <2>5, <2>6, <2>7, <2>8, <2>9
<1>3. ASSUME NEW r \in Requests, UploadSingleImageAndInsert(r)
      PROVE  Inductive'
  <2>1. PICK done \in SUBSET ObjectsOf(req[r].new) :
          /\ stored' = stored \cup done
          /\ \/ /\ done = ObjectsOf(req[r].new)
                /\ req' = [req EXCEPT ![r].at = "uploaded"]
             \/ req' = [req EXCEPT ![r] = None]
    BY <1>3 DEF UploadSingleImageAndInsert
  <2>2. /\ req[r] \in Request /\ req[r].at = "upload"
        /\ UNCHANGED <<tables, images, undone>>
    BY <1>3 DEF UploadSingleImageAndInsert, At, TypeOK
  <2>3. CASE req' = [req EXCEPT ![r] = None]
    <3>1. \A s \in Requests : req'[s] # None => req[s] # None /\ req'[s] = req[s]
      BY <2>3 DEF TypeOK
    <3>2. AccountsSurvive' /\ ImagesAreFresh' /\ PicturesAreTheirs'
      BY <2>2, <3>1 DEF AccountsSurvive, ImagesAreFresh, PicturesAreTheirs, tables
    <3>3. ErasureIsLocked' /\ OneHolder'
      BY <3>1 DEF ErasureIsLocked, OneHolder, Locks
    <3>4. UploadedAreStored'
      BY <3>1, <2>1 DEF UploadedAreStored
    <3>5. ShownOrAtStake'
      BY <2>1, <2>2, <2>3 DEF ShownOrAtStake, AtStake, Locks, tables, TypeOK
    <3> QED
      BY <3>2, <3>3, <3>4, <3>5
  <2>4. CASE /\ done = ObjectsOf(req[r].new)
             /\ req' = [req EXCEPT ![r].at = "uploaded"]
    <3>1. /\ \A s \in Requests \ {r} : req'[s] = req[s]
          /\ req'[r].at = "uploaded" /\ req'[r].user = req[r].user
          /\ req'[r].prev = req[r].prev /\ req'[r].new = req[r].new
          /\ req'[r].erased = req[r].erased
      BY <2>2, <2>4 DEF TypeOK, Request
    <3>2. req[r] # None /\ req'[r] # None
      <4>1. [req[r] EXCEPT !.at = "uploaded"] \in Request
        BY <2>2 DEF Request, Stages
      <4>2. req'[r] = [req[r] EXCEPT !.at = "uploaded"]
        BY <2>4 DEF TypeOK
      <4> QED
        BY <2>2, <4>1, <4>2
    <3>3. AccountsSurvive' /\ ImagesAreFresh' /\ PicturesAreTheirs'
      BY <1>0, <2>2, <3>1, <3>2, GoesOn DEF TypeOK
    <3>4. ErasureIsLocked' /\ OneHolder'
      BY <2>2, <3>1, <3>2 DEF ErasureIsLocked, OneHolder, Locks
    <3>5. UploadedAreStored'
      BY <2>1, <2>4, <3>1, <3>2 DEF UploadedAreStored
    <3>6. ShownOrAtStake'
      BY <2>1, <2>2, <3>1, <3>2 DEF ShownOrAtStake, AtStake, Locks, tables
    <3> QED
      BY <3>3, <3>4, <3>5, <3>6
  <2> QED
    BY <2>1, <2>3, <2>4
<1>4. ASSUME NEW r \in Requests, UpdatePicture(r)
      PROVE  Inductive'
  <2>1. /\ req[r] \in Request /\ req[r] # None /\ req[r].at = "uploaded"
        /\ UNCHANGED <<tables, stored, images, undone>>
        /\ req' = [req EXCEPT ![r].at = "updated"]
    BY <1>4 DEF UpdatePicture, At, TypeOK, history
  <2>2. /\ \A s \in Requests \ {r} : req'[s] = req[s]
        /\ req'[r].at = "updated" /\ req'[r].user = req[r].user
        /\ req'[r].prev = req[r].prev /\ req'[r].new = req[r].new
        /\ req'[r].erased = req[r].erased /\ req'[r] # None
    <3>1. [req[r] EXCEPT !.at = "updated"] \in Request
      BY <2>1 DEF Request, Stages
    <3>2. req'[r] # None
      BY <2>1, <3>1 DEF TypeOK
    <3> QED
      BY <2>1, <3>2 DEF TypeOK, Request
  <2>3. AccountsSurvive' /\ ImagesAreFresh' /\ PicturesAreTheirs'
    BY <1>0, <2>1, <2>2, GoesOn DEF TypeOK
  <2>4. ErasureIsLocked'
    BY <2>1, <2>2 DEF ErasureIsLocked
  <2>5. OneHolder'
    BY <1>4, <2>1, <2>2 DEF OneHolder, Locks, UpdatePicture, RowIsFree
  <2>6. UploadedAreStored'
    BY <2>1, <2>2 DEF UploadedAreStored
  <2>7. ShownOrAtStake'
    BY <2>1, <2>2 DEF ShownOrAtStake, AtStake, Locks, tables
  <2> QED
    BY <2>3, <2>4, <2>5, <2>6, <2>7
<1>5. ASSUME NEW r \in Requests, DeleteImagesAndRecord(r)
      PROVE  Inductive'
  <2>. DEFINE gone == {req[r].prev} \cap rows
             q == [req[r] EXCEPT !.at = IF gone # {} THEN "deleted" ELSE "commit",
                                 !.erased = gone]
  <2>1. /\ req[r] \in Request /\ req[r] # None /\ req[r].at = "updated"
        /\ UNCHANGED <<tables, stored, images, undone>>
        /\ req' = [req EXCEPT ![r] = q]
    BY <1>5 DEF DeleteImagesAndRecord, DeletePrevious, At, TypeOK, history
  <2>2. /\ q.user = req[r].user /\ q.prev = req[r].prev /\ q.new = req[r].new
        /\ q.erased = gone
        /\ q.at \in {"deleted", "commit"}
        /\ q.at = "deleted" <=> gone # {}
    BY <2>1 DEF Request
  <2>3. req'[r] = q /\ \A s \in Requests \ {r} : req'[s] = req[s]
    BY <2>1 DEF TypeOK
  <2>4. q # None
    <3>1. q \in Request
      BY <2>1 DEF Request, Stages, TypeOK
    <3> HIDE DEF q
    <3> QED
      BY <3>1
  <2> HIDE DEF q
  <2>5. AccountsSurvive' /\ ImagesAreFresh' /\ PicturesAreTheirs'
    BY <1>0, <2>1, <2>2, <2>3, <2>4, GoesOn DEF TypeOK
  <2>6. ErasureIsLocked'
    BY <2>2, <2>3, <2>4 DEF ErasureIsLocked
  <2>7. OneHolder'
    BY <2>1, <2>2, <2>3 DEF OneHolder, Locks
  <2>8. UploadedAreStored'
    BY <2>1, <2>2, <2>3 DEF UploadedAreStored
  <2>9. ShownOrAtStake'
    <3>1. ASSUME NEW u \in Users, AtStake(u) PROVE AtStake(u)'
      BY <3>1, <2>1, <2>2, <2>3 DEF AtStake, Locks, ErasureIsLocked, tables
    <3> QED
      BY <2>1, <3>1 DEF ShownOrAtStake, tables
  <2> QED
    BY <2>5, <2>6, <2>7, <2>8, <2>9
<1>6. ASSUME NEW r \in Requests, DestroyObjects(r)
      PROVE  Inductive'
  <2>1. /\ req[r] \in Request /\ req[r] # None /\ req[r].at = "deleted"
        /\ UNCHANGED <<tables, images, undone>>
        /\ req' = [req EXCEPT ![r].at = "commit"]
        /\ stored \ ObjectsOf(req[r].prev) \subseteq stored'
    BY <1>6 DEF DestroyObjects, At, TypeOK
  <2>2. /\ \A s \in Requests \ {r} : req'[s] = req[s]
        /\ req'[r].at = "commit" /\ req'[r].user = req[r].user
        /\ req'[r].prev = req[r].prev /\ req'[r].new = req[r].new
        /\ req'[r].erased = req[r].erased /\ req'[r] # None
    <3>1. [req[r] EXCEPT !.at = "commit"] \in Request
      BY <2>1 DEF Request, Stages
    <3>2. req'[r] # None
      BY <2>1, <3>1 DEF TypeOK
    <3> QED
      BY <2>1, <3>2 DEF TypeOK, Request
  <2>3. AccountsSurvive' /\ ImagesAreFresh' /\ PicturesAreTheirs'
    BY <1>0, <2>1, <2>2, GoesOn DEF TypeOK
  <2>4. req[r].erased = {req[r].prev} /\ req[r].prev \in ImageIds
    BY <2>1, RequestFields DEF ErasureIsLocked
  <2>5. ErasureIsLocked'
    BY <2>1, <2>2, <2>4 DEF ErasureIsLocked
  <2>6. OneHolder'
    BY <2>1, <2>2 DEF OneHolder, Locks
  <2>7. UploadedAreStored'
    <3>1. \A s \in Requests : req[s] # None => req[s].new # req[r].prev
      BY <2>1 DEF ImagesAreFresh
    <3>2. \A s \in Requests : req[s] # None =>
            ObjectsOf(req[s].new) \cap ObjectsOf(req[r].prev) = {}
      BY <3>1, ObjectsApart
    <3> QED
      BY <2>1, <2>2, <3>2 DEF UploadedAreStored
  <2>8. ShownOrAtStake'
    <3>1. ASSUME NEW u \in Users, AtStake(u) PROVE AtStake(u)'
      BY <3>1, <2>1, <2>2 DEF AtStake, Locks, tables
    <3>2. ASSUME NEW u \in Users, picture[u] = req[r].prev PROVE AtStake(u)
      <4>1. u = req[r].user
        BY <3>2, <2>1, <2>4 DEF PicturesAreTheirs, ImageIds
      <4> QED
        BY <3>2, <4>1, <2>1, <2>4 DEF AtStake, Locks
    <3>3. ASSUME NEW u \in Users, picture[u] # req[r].prev,
                 ObjectsOf(picture[u]) \subseteq stored
          PROVE  ObjectsOf(picture[u]) \subseteq stored'
      BY <3>3, <2>1, ObjectsApart
    <3> QED
      BY <2>1, <3>1, <3>2, <3>3 DEF ShownOrAtStake, tables
  <2> QED
    BY <2>3, <2>5, <2>6, <2>7, <2>8
<1>7. ASSUME NEW r \in Requests, Commit(r)
      PROVE  Inductive'
  <2>1. /\ req[r] \in Request /\ req[r] # None /\ req[r].at = "commit"
        /\ picture' = [picture EXCEPT ![req[r].user] = req[r].new]
        /\ rows' = (rows \cup {req[r].new}) \ req[r].erased
        /\ accounts' = accounts \ {u \in Users : PicturesOnDelete(r)[u] \in req[r].erased}
        /\ req' = [req EXCEPT ![r] = None]
        /\ UNCHANGED <<stored, images, undone>>
    BY <1>7 DEF Commit, At, TypeOK, history
  <2>2. /\ req[r].user \in Users /\ req[r].new \in ImageIds
        /\ picture'[req[r].user] = req[r].new
        /\ \A u \in Users \ {req[r].user} : picture'[u] = picture[u]
        /\ \A s \in Requests : req'[s] # None => req'[s] = req[s] /\ s # r
        /\ \A s \in Requests \ {r} : req'[s] = req[s]
    BY <2>1, RequestFields DEF TypeOK
  <2>3. /\ req[r].new \notin req[r].erased
        /\ \A u \in Users \ {req[r].user} : picture[u] \notin req[r].erased
    <3>1. CASE req[r].erased = {}
      BY <3>1
    <3>2. CASE req[r].erased = {req[r].prev}
      <4>1. req[r].prev # None /\ req[r].prev # req[r].new
        BY <3>2, <2>1, RequestFields DEF ImagesAreFresh, ImageIds
      <4> QED
        BY <3>2, <4>1, <2>1 DEF PicturesAreTheirs
    <3> QED
      BY <3>1, <3>2, <2>1 DEF ErasureIsLocked
  <2>4. AccountsSurvive'
    <3>1. \A u \in Users : PicturesOnDelete(r)[u] \notin req[r].erased
      BY <2>2, <2>3 DEF PicturesOnDelete, TypeOK
    <3> QED
      BY <2>1, <3>1 DEF AccountsSurvive
  <2>5. ImagesAreFresh'
    BY <2>1, <2>2 DEF ImagesAreFresh
  <2>6. PicturesAreTheirs'
    BY <2>1, <2>2 DEF PicturesAreTheirs, ImagesAreFresh
  <2>7. ErasureIsLocked' /\ OneHolder' /\ UploadedAreStored'
    BY <2>1, <2>2 DEF ErasureIsLocked, OneHolder, UploadedAreStored, Locks
  <2>8. ShownOrAtStake'
    <3>1. ASSUME NEW u \in Users \ {req[r].user}, AtStake(u) PROVE AtStake(u)'
      BY <3>1, <2>2 DEF AtStake, Locks
    <3>2. ASSUME NEW u \in Users \ {req[r].user}, picture'[u] # None
          PROVE  /\ picture'[u] \in rows'
                 /\ \/ picture'[u] \in undone'
                    \/ ObjectsOf(picture'[u]) \subseteq stored'
                    \/ AtStake(u)'
      BY <3>1, <3>2, <2>1, <2>2, <2>3 DEF ShownOrAtStake
    <3>3. req[r].new \in rows' /\ ObjectsOf(req[r].new) \subseteq stored'
      BY <2>1, <2>3 DEF UploadedAreStored
    <3> QED
      BY <3>2, <3>3, <2>2 DEF ShownOrAtStake
  <2> QED
    BY <2>4, <2>5, <2>6, <2>7, <2>8
<1>8. ASSUME NEW r \in Requests, Rollback(r)
      PROVE  Inductive'
  <2>1. PICK added \in SUBSET ObjectsOf(req[r].new), lost \in SUBSET ObjectsOf(req[r].prev),
             caught \in SUBSET ObjectsOf(req[r].new) :
          /\ lost # {} => req[r].at = "deleted"
          /\ stored' = (stored \cup added) \ (lost \cup caught)
    BY <1>8 DEF Rollback, CatchDestroys
  <2>2. /\ req[r] \in Request /\ req[r] # None
        /\ req' = [req EXCEPT ![r] = None]
        /\ undone' = undone \cup req[r].erased
        /\ UNCHANGED <<tables, images>>
    BY <1>8 DEF Rollback, TypeOK
  <2>3. /\ \A s \in Requests : req'[s] # None => req'[s] = req[s] /\ s # r
        /\ \A s \in Requests \ {r} : req'[s] = req[s]
    BY <2>2 DEF TypeOK
  <2>4. \A i \in req[r].erased : i = req[r].prev /\ req[r].prev # None
    BY <2>2, RequestFields DEF ErasureIsLocked, ImageIds
  <2>5. AccountsSurvive'
    BY <2>2 DEF AccountsSurvive, tables
  <2>6. ImagesAreFresh'
    BY <2>2, <2>3, <2>4 DEF ImagesAreFresh, tables
  <2>7. PicturesAreTheirs' /\ ErasureIsLocked' /\ OneHolder'
    BY <2>2, <2>3 DEF PicturesAreTheirs, ErasureIsLocked, OneHolder, Locks, tables
  <2>8. \A i : i # req[r].new /\ (i # req[r].prev \/ lost = {}) /\ ObjectsOf(i) \subseteq stored
               => ObjectsOf(i) \subseteq stored'
    BY <2>1, ObjectsApart
  <2>9. UploadedAreStored'
    <3>1. \A s \in Requests : req'[s] # None =>
            req[s].new # req[r].new /\ req[s].new # req[r].prev
      BY <2>2, <2>3 DEF ImagesAreFresh
    <3> QED
      BY <2>3, <2>8, <3>1 DEF UploadedAreStored
  <2>10. ShownOrAtStake'
    <3>1. ASSUME NEW u \in Users, AtStake(u) PROVE AtStake(u)' \/ picture[u] \in undone'
      BY <3>1, <2>2, <2>3 DEF AtStake, Locks, tables
    <3>2. ASSUME NEW u \in Users, picture[u] # None, ObjectsOf(picture[u]) \subseteq stored
          PROVE  picture[u] \in undone' \/ ObjectsOf(picture[u]) \subseteq stored'
      <4>1. picture[u] # req[r].new
        BY <2>2 DEF ImagesAreFresh
      <4>2. lost # {} => req[r].prev \in undone'
        BY <2>1, <2>2 DEF ErasureIsLocked
      <4> QED
        BY <3>2, <4>1, <4>2, <2>8
    <3> QED
      BY <2>2, <3>1, <3>2 DEF ShownOrAtStake, tables
  <2> QED
    BY <2>5, <2>6, <2>7, <2>9, <2>10
<1>9. CASE UNCHANGED vars
  BY <1>9 DEF vars, AccountsSurvive, ImagesAreFresh, PicturesAreTheirs,
       ErasureIsLocked, OneHolder, UploadedAreStored, ShownOrAtStake, Locks, AtStake
<1> QED
  BY <1>1, <1>2, <1>3, <1>4, <1>5, <1>6, <1>7, <1>8, <1>9 DEF Next, Advance

(* Images are told apart, each belongs to one user, and one update at a time *)
(* holds a user's row: what the theorems below rest on.                      *)
THEOREM ProfileConsistent == Spec => []Inductive
  BY InductiveInit, TypeInit, TypeStep, InductiveStep, PTL DEF Spec

(* No picture update deletes an account, whatever fails and however updates  *)
(* overlap.                                                                  *)
THEOREM AccountsAlwaysSurvive == Spec => []AccountsSurvive
<1>1. Inductive => AccountsSurvive
  BY DEF Inductive
<1> QED
  BY <1>1, ProfileConsistent, PTL

(* A shown picture has its row and its objects, unless an update of its user *)
(* has come to its deletion.                                                 *)
THEOREM ShownPicturesAreAlwaysStored == Spec => []ShownPicturesAreStored
<1>1. TypeOK /\ Inductive => ShownPicturesAreStored
  BY DEF TypeOK, Inductive, ShownOrAtStake, ShownPicturesAreStored, GetMe, AtStake
<1> QED
  BY <1>1, TypeCorrect, ProfileConsistent, PTL
-----------------------------------------------------------------------------
LEMMA SerialInit == Init => Serial
<1> SUFFICES ASSUME Init PROVE SerialStore
  BY DEF Serial
<1>1. OneUpdateEach /\ PreviousIsCurrent
  BY DEF Init, OneUpdateEach, PreviousIsCurrent
<1>2. \A i \in ImageIds : ~Shown(i)
  BY BoundAssumption, NoneAssumption DEF Init, Shown, ImageIds
<1>3. \A i : ~Uploaded(i)
  BY DEF Init, Uploaded
<1>4. RowsAreShown /\ ObjectsAreNeeded
  BY <1>2, <1>3 DEF Init, RowsAreShown, ObjectsAreNeeded, Objects
<1> QED
  BY <1>1, <1>4 DEF SerialStore

(* An update that goes on short of its commit leaves who is in flight, what  *)
(* is shown and what has a row.                                              *)
LEMMA SerialGoesOn ==
  ASSUME TypeOK, OneUpdateEach, PreviousIsCurrent, RowsAreShown,
         NEW r \in Requests, req[r] # None,
         \A s \in Requests \ {r} : req'[s] = req[s],
         req'[r] # None, req'[r].user = req[r].user, req'[r].prev = req[r].prev,
         req'[r].at \in {"deleted", "commit"} => req'[r].erased = {req[r].prev} \ {None},
         UNCHANGED tables
  PROVE  OneUpdateEach' /\ PreviousIsCurrent' /\ RowsAreShown'
<1>1. \A s \in Requests :
        /\ req'[s] # None <=> req[s] # None
        /\ req[s] # None => req'[s].user = req[s].user /\ req'[s].prev = req[s].prev
  OBVIOUS
<1>2. OneUpdateEach'
  BY <1>1 DEF OneUpdateEach
<1>3. PreviousIsCurrent'
  BY <1>1 DEF PreviousIsCurrent, tables
<1>4. RowsAreShown'
  BY DEF RowsAreShown, Shown, tables
<1> QED
  BY <1>2, <1>3, <1>4

LEMMA SerialStep ==
  ASSUME TypeOK, Inductive, Serial, [Next]_vars
  PROVE  Serial'
<1> USE BoundAssumption, NoneAssumption, NoneIsNoRequest
<1> SUFFICES ASSUME ~faulty', ~overlapped' PROVE SerialStore'
  BY DEF Serial
<1>0. ~faulty /\ ~overlapped
  <2>1. UNCHANGED vars => UNCHANGED <<faulty, overlapped>>
    BY DEF vars
  <2>2. ASSUME NEW r \in Requests, Advance(r) PROVE faulty => faulty'
    BY <2>2 DEF Advance, UploadSingleImageAndInsert, UpdatePicture, DeleteImagesAndRecord,
         DestroyObjects, Commit, history
  <2>3. ASSUME NEW r \in Requests, Advance(r) PROVE overlapped => overlapped'
    BY <2>3 DEF Advance, UploadSingleImageAndInsert, UpdatePicture, DeleteImagesAndRecord,
         DestroyObjects, Commit, history
  <2>4. ASSUME NEW u \in Users, NEW n \in Names, UpdateUser(u, n)
        PROVE  UNCHANGED <<faulty, overlapped>>
    BY <2>4 DEF UpdateUser, history
  <2>5. ASSUME NEW r \in Requests, NEW u \in Users, Begin(r, u)
        PROVE  UNCHANGED faulty /\ (overlapped => overlapped')
    BY <2>5 DEF Begin
  <2>6. ASSUME NEW r \in Requests, Rollback(r) PROVE FALSE
    BY <2>6 DEF Rollback
  <2> QED
    BY <2>1, <2>2, <2>3, <2>4, <2>5, <2>6 DEF Next
<1>00. /\ OneUpdateEach /\ PreviousIsCurrent /\ RowsAreShown /\ ObjectsAreNeeded
       /\ TypeOK'
  BY <1>0, TypeStep DEF Serial, SerialStore
<1>1. ASSUME NEW u \in Users, NEW n \in Names, UpdateUser(u, n)
      PROVE  SerialStore'
  BY <1>1, <1>00 DEF UpdateUser, SerialStore, OneUpdateEach, PreviousIsCurrent, RowsAreShown,
         ObjectsAreNeeded, Shown, Destroyed, Uploaded, At
<1>2. ASSUME NEW r \in Requests, NEW u \in Users, Begin(r, u)
      PROVE  SerialStore'
  <2>1. /\ req[r] = None /\ InFlight(u) = {}
        /\ UNCHANGED <<tables, stored>>
    BY <1>2 DEF Begin
  <2>2. /\ req'[r] # None /\ req'[r].at = "upload" /\ req'[r].user = u
        /\ req'[r].prev = picture[u]
        /\ \A s \in Requests \ {r} : req'[s] = req[s]
    <3>. DEFINE q == [at |-> "upload", user |-> u, prev |-> picture[u],
                      new |-> images + 1, erased |-> {}]
    <3>1. req'[r] = q /\ \A s \in Requests \ {r} : req'[s] = req[s]
      BY <1>2 DEF Begin, TypeOK
    <3>2. q \in Request
      <4>1. images + 1 \in ImageIds
        BY <1>2 DEF Begin, TypeOK, ImageIds
      <4> QED
        BY <4>1 DEF TypeOK, Request, Stages
    <3> QED
      BY <3>1, <3>2
  <2>3. \A s \in Requests : req[s] # None => req[s].user # u
    BY <2>1 DEF InFlight
  <2>4. OneUpdateEach'
    BY <1>00, <2>2, <2>3 DEF OneUpdateEach
  <2>5. PreviousIsCurrent'
    BY <1>00, <2>1, <2>2 DEF PreviousIsCurrent, tables
  <2>6. RowsAreShown'
    BY <1>00, <2>1 DEF RowsAreShown, Shown, tables
  <2>7. \A i : (Shown(i)' <=> Shown(i)) /\ (Destroyed(i)' <=> Destroyed(i))
               /\ (Uploaded(i)' <=> Uploaded(i))
    BY <2>1, <2>2 DEF Shown, Destroyed, Uploaded, At, tables
  <2>8. ObjectsAreNeeded'
    BY <1>00, <2>1, <2>7 DEF ObjectsAreNeeded
  <2> QED
    BY <2>4, <2>5, <2>6, <2>8 DEF SerialStore
<1>3. ASSUME NEW r \in Requests, UploadSingleImageAndInsert(r)
      PROVE  SerialStore'
  <2>1. /\ req[r] \in Request /\ req[r] # None /\ req[r].at = "upload"
        /\ stored' = stored \cup ObjectsOf(req[r].new)
        /\ req' = [req EXCEPT ![r].at = "uploaded"]
        /\ UNCHANGED tables
    BY <1>3 DEF UploadSingleImageAndInsert, At, TypeOK
  <2>2. /\ \A s \in Requests \ {r} : req'[s] = req[s]
        /\ req'[r].at = "uploaded" /\ req'[r].user = req[r].user
        /\ req'[r].prev = req[r].prev /\ req'[r].new = req[r].new
    BY <2>1 DEF TypeOK, Request
  <2>3. req'[r] # None
    <3>1. [req[r] EXCEPT !.at = "uploaded"] \in Request
      BY <2>1 DEF Request, Stages
    <3> QED
      BY <2>1, <3>1 DEF TypeOK
  <2>4. OneUpdateEach' /\ PreviousIsCurrent' /\ RowsAreShown'
    BY <1>00, <2>1, <2>2, <2>3, SerialGoesOn
  <2>5. \A i : (Shown(i)' <=> Shown(i)) /\ (Destroyed(i)' <=> Destroyed(i))
    BY <2>1, <2>2, <2>3 DEF Shown, Destroyed, At, tables
  <2>6. \A i : Uploaded(i)' <=> Uploaded(i) \/ i = req[r].new
    BY <2>1, <2>2, <2>3 DEF Uploaded
  <2>7. \A o \in Objects : o \in stored' <=> o \in stored \/ o[1] = req[r].new
    BY <2>1 DEF ObjectsOf
  <2>8. ObjectsAreNeeded'
    BY <1>00, <2>5, <2>6, <2>7 DEF ObjectsAreNeeded
  <2> QED
    BY <2>4, <2>8 DEF SerialStore
<1>4. ASSUME NEW r \in Requests, UpdatePicture(r)
      PROVE  SerialStore'
  <2>1. /\ req[r] \in Request /\ req[r] # None /\ req[r].at = "uploaded"
        /\ req' = [req EXCEPT ![r].at = "updated"]
        /\ UNCHANGED <<tables, stored>>
    BY <1>4 DEF UpdatePicture, At, TypeOK
  <2>2. /\ \A s \in Requests \ {r} : req'[s] = req[s]
        /\ req'[r].at = "updated" /\ req'[r].user = req[r].user
        /\ req'[r].prev = req[r].prev /\ req'[r].new = req[r].new
    BY <2>1 DEF TypeOK, Request
  <2>3. req'[r] # None
    <3>1. [req[r] EXCEPT !.at = "updated"] \in Request
      BY <2>1 DEF Request, Stages
    <3> QED
      BY <2>1, <3>1 DEF TypeOK
  <2>4. OneUpdateEach' /\ PreviousIsCurrent' /\ RowsAreShown'
    BY <1>00, <2>1, <2>2, <2>3, SerialGoesOn
  <2>5. \A i : (Shown(i)' <=> Shown(i)) /\ (Destroyed(i)' <=> Destroyed(i))
               /\ (Uploaded(i)' <=> Uploaded(i))
    BY <2>1, <2>2, <2>3 DEF Shown, Destroyed, Uploaded, At, tables
  <2>6. ObjectsAreNeeded'
    BY <1>00, <2>1, <2>5 DEF ObjectsAreNeeded
  <2> QED
    BY <2>4, <2>6 DEF SerialStore
<1>5. ASSUME NEW r \in Requests, DeleteImagesAndRecord(r)
      PROVE  SerialStore'
  <2>. DEFINE gone == {req[r].prev} \cap rows
             q == [req[r] EXCEPT !.at = IF gone # {} THEN "deleted" ELSE "commit",
                                 !.erased = gone]
  <2>1. /\ req[r] \in Request /\ req[r] # None /\ req[r].at = "updated"
        /\ UNCHANGED <<tables, stored>>
        /\ req' = [req EXCEPT ![r] = q]
    BY <1>5 DEF DeleteImagesAndRecord, DeletePrevious, At, TypeOK
  <2>2. /\ q.user = req[r].user /\ q.prev = req[r].prev /\ q.new = req[r].new
        /\ q.erased = gone
        /\ q.at \in {"deleted", "commit"}
        /\ q.at = "commit" => gone = {}
    BY <2>1 DEF Request
  <2>3. req'[r] = q /\ \A s \in Requests \ {r} : req'[s] = req[s]
    BY <2>1 DEF TypeOK
  <2>4. q # None
    <3>1. q \in Request
      BY <2>1 DEF Request, Stages, TypeOK
    <3> HIDE DEF q
    <3> QED
      BY <3>1
  <2>5. gone = {req[r].prev} \ {None}
    <3>1. req[r].prev = picture[req[r].user] /\ req[r].user \in Users
      BY <1>00, <2>1, RequestFields DEF PreviousIsCurrent
    <3>2. req[r].prev # None => req[r].prev \in ImageIds /\ Shown(req[r].prev)
      BY <3>1, <2>1, RequestFields DEF Shown
    <3>3. None \notin rows
      <4>1. ImageIds \subseteq Nat
        BY DEF ImageIds
      <4>2. rows \subseteq ImageIds
        BY DEF TypeOK
      <4> QED
        BY <4>1, <4>2
    <3> QED
      BY <1>00, <3>2, <3>3 DEF RowsAreShown
  <2> HIDE DEF q
  <2>6. OneUpdateEach' /\ PreviousIsCurrent' /\ RowsAreShown'
    BY <1>00, <2>1, <2>2, <2>3, <2>4, <2>5, SerialGoesOn
  <2>7. \A i : (Shown(i)' <=> Shown(i)) /\ (Destroyed(i)' <=> Destroyed(i))
               /\ (Uploaded(i)' <=> Uploaded(i))
    BY <2>1, <2>2, <2>3, <2>4 DEF Shown, Destroyed, Uploaded, At, tables
  <2>8. ObjectsAreNeeded'
    BY <1>00, <2>1, <2>7 DEF ObjectsAreNeeded
  <2> QED
    BY <2>6, <2>8 DEF SerialStore
<1>6. ASSUME NEW r \in Requests, DestroyObjects(r)
      PROVE  SerialStore'
  <2>1. /\ req[r] \in Request /\ req[r] # None /\ req[r].at = "deleted"
        /\ req' = [req EXCEPT ![r].at = "commit"]
        /\ stored' = stored \ ObjectsOf(req[r].prev)
        /\ UNCHANGED tables
    BY <1>6 DEF DestroyObjects, At, TypeOK
  <2>2. /\ \A s \in Requests \ {r} : req'[s] = req[s]
        /\ req'[r].at = "commit" /\ req'[r].user = req[r].user
        /\ req'[r].prev = req[r].prev /\ req'[r].new = req[r].new
        /\ req'[r].erased = req[r].erased
    BY <2>1 DEF TypeOK, Request
  <2>3. req'[r] # None
    <3>1. [req[r] EXCEPT !.at = "commit"] \in Request
      BY <2>1 DEF Request, Stages
    <3> QED
      BY <2>1, <3>1 DEF TypeOK
  <2>4. req[r].erased = {req[r].prev} /\ req[r].erased = {req[r].prev} \ {None}
    BY <1>00, <2>1 DEF Inductive, ErasureIsLocked, PreviousIsCurrent
  <2>5. OneUpdateEach' /\ PreviousIsCurrent' /\ RowsAreShown'
    BY <1>00, <2>1, <2>2, <2>3, <2>4, SerialGoesOn
  <2>6. \A i : (Shown(i)' <=> Shown(i)) /\ (Uploaded(i)' <=> Uploaded(i))
    BY <2>1, <2>2, <2>3 DEF Shown, Uploaded, tables
  <2>7. \A i : Destroyed(i)' <=> Destroyed(i) \/ i = req[r].prev
    BY <2>1, <2>2, <2>3, <2>4 DEF Destroyed, At
  <2>8. ~Uploaded(req[r].prev)
    BY <2>1 DEF Inductive, ImagesAreFresh, Uploaded
  <2>9. \A o \in Objects : o \in stored' <=> o \in stored /\ o[1] # req[r].prev
    BY <2>1 DEF ObjectsOf
  <2>10. ObjectsAreNeeded'
    BY <1>00, <2>6, <2>7, <2>8, <2>9 DEF ObjectsAreNeeded
  <2> QED
    BY <2>5, <2>10 DEF SerialStore
<1>7. ASSUME NEW r \in Requests, Commit(r)
      PROVE  SerialStore'
  <2>1. /\ req[r] \in Request /\ req[r] # None /\ req[r].at = "commit"
        /\ picture' = [picture EXCEPT ![req[r].user] = req[r].new]
        /\ rows' = (rows \cup {req[r].new}) \ req[r].erased
        /\ req' = [req EXCEPT ![r] = None]
        /\ UNCHANGED stored
    BY <1>7 DEF Commit, At, TypeOK
  <2>2. /\ req[r].user \in Users /\ req[r].new \in ImageIds
        /\ picture'[req[r].user] = req[r].new
        /\ \A u \in Users \ {req[r].user} : picture'[u] = picture[u]
        /\ \A s \in Requests : req'[s] # None => req'[s] = req[s] /\ s # r /\ req[s] # None
        /\ \A s \in Requests \ {r} : req'[s] = req[s]
        /\ req'[r] = None
    BY <2>1, RequestFields DEF TypeOK
  <2>3. /\ req[r].prev = picture[req[r].user]
        /\ req[r].erased = {req[r].prev} \ {None}
        /\ req[r].prev # req[r].new
    BY <1>00, <2>1 DEF PreviousIsCurrent, Inductive, ImagesAreFresh
  <2>4. \A i \in ImageIds : Shown(i)' <=> i = req[r].new \/ (Shown(i) /\ i # req[r].prev)
    <3>1. \A u \in Users : picture[u] # req[r].new
      BY <2>1 DEF Inductive, ImagesAreFresh
    <3>2. ASSUME NEW u \in Users \ {req[r].user}, picture[u] \in ImageIds
          PROVE  picture[u] # req[r].prev
      BY <3>2, <2>2, <2>3 DEF Inductive, PicturesAreTheirs, ImageIds
    <3> QED
      BY <2>2, <2>3, <3>1, <3>2 DEF Shown
  <2>5. OneUpdateEach'
    BY <1>00, <2>2 DEF OneUpdateEach
  <2>6. PreviousIsCurrent'
    <3>1. \A s \in Requests : req'[s] # None => req[s].user \in Users \ {req[r].user}
      BY <1>00, <2>1, <2>2, RequestFields DEF OneUpdateEach
    <3> QED
      BY <1>00, <2>2, <3>1 DEF PreviousIsCurrent
  <2>7. RowsAreShown'
    <3>1. \A i \in ImageIds : i \in rows' <=> i = req[r].new \/ (i \in rows /\ i # req[r].prev)
      BY <2>1, <2>3 DEF ImageIds
    <3> QED
      BY <1>00, <2>4, <3>1 DEF RowsAreShown
  <2>8. \A i \in ImageIds : Destroyed(i) <=> Destroyed(i)' \/ i = req[r].prev
    BY <2>1, <2>2, <2>3 DEF Destroyed, At, ImageIds
  <2>9. \A i \in ImageIds : Uploaded(i) <=> Uploaded(i)' \/ i = req[r].new
    BY <2>1, <2>2 DEF Uploaded
  <2>10. ~Destroyed(req[r].new)
    <3>1. \A s \in Requests : req[s] # None /\ req[s].at = "commit" =>
            req[s].erased = {req[s].prev} \ {None}
      BY <1>00 DEF PreviousIsCurrent
    <3>2. \A s \in Requests : req[s] # None => req[s].prev # req[r].new
      BY <2>1 DEF Inductive, ImagesAreFresh
    <3> QED
      BY <3>1, <3>2 DEF Destroyed, At
  <2>11. ~Uploaded(req[r].prev)
    BY <2>1 DEF Inductive, ImagesAreFresh, Uploaded
  <2>12. \A o \in Objects : o[1] \in ImageIds
    BY DEF Objects
  <2>13. ObjectsAreNeeded'
    <3>1. SUFFICES ASSUME NEW i \in ImageIds
          PROVE  (Shown(i) /\ ~Destroyed(i)) \/ Uploaded(i)
                 <=> (Shown(i)' /\ ~Destroyed(i)') \/ Uploaded(i)'
      BY <1>00, <2>1, <2>12 DEF ObjectsAreNeeded
    <3>2. CASE i = req[r].new
      BY <3>2, <2>4, <2>8, <2>9, <2>10
    <3>3. CASE i = req[r].prev
      BY <3>3, <2>3, <2>4, <2>8, <2>9, <2>11
    <3>4. CASE i # req[r].new /\ i # req[r].prev
      BY <3>4, <2>4, <2>8, <2>9
    <3> QED
      BY <3>2, <3>3, <3>4
  <2> QED
    BY <2>5, <2>6, <2>7, <2>13 DEF SerialStore
<1>8. ASSUME NEW r \in Requests, Rollback(r)
      PROVE  SerialStore'
  BY <1>8 DEF Rollback
<1>9. CASE UNCHANGED vars
  BY <1>9, <1>00 DEF vars, SerialStore, OneUpdateEach, PreviousIsCurrent, RowsAreShown,
         ObjectsAreNeeded, Shown, Destroyed, Uploaded, At
<1> QED
  BY <1>1, <1>2, <1>3, <1>4, <1>5, <1>6, <1>7, <1>8, <1>9 DEF Next, Advance

(* While nothing fails and no user's updates overlap, images have rows when  *)
(* they are shown, and objects when they are shown or are about to be.       *)
THEOREM SerialUpdatesKeepTheStore == Spec => []Serial
  BY SerialInit, SerialStep, TypeCorrect, ProfileConsistent, PTL DEF Spec

(* Such a system, once it has finished, holds nothing but what is shown.     *)
THEOREM NothingIsLeftBehind == Spec => []NothingLeftBehind
<1>1. TypeOK /\ Inductive /\ Serial => NothingLeftBehind
  <2> SUFFICES ASSUME TypeOK, Inductive, Serial, ~faulty, ~overlapped,
                      \A r \in Requests : req[r] = None
               PROVE  LET shown == {picture[u] : u \in accounts} \ {None}
                      IN  rows = shown /\ stored = UNION {ObjectsOf(i) : i \in shown}
    BY DEF NothingLeftBehind
  <2> DEFINE shown == {picture[u] : u \in accounts} \ {None}
  <2>1. RowsAreShown /\ ObjectsAreNeeded /\ accounts = Users
    BY DEF Serial, SerialStore, Inductive, AccountsSurvive
  <2>2. shown \subseteq ImageIds /\ \A i \in ImageIds : Shown(i) <=> i \in shown
    BY <2>1, NoneAssumption DEF Shown, TypeOK, ImageIds
  <2>3. rows = shown
    BY <2>1, <2>2 DEF RowsAreShown, TypeOK
  <2>4. \A i : ~Uploaded(i) /\ ~Destroyed(i)
    BY DEF Uploaded, Destroyed, At
  <2> HIDE DEF shown
  <2>5. \A o \in Objects : o \in stored <=> o[1] \in shown
    BY <2>1, <2>2, <2>4 DEF ObjectsAreNeeded, Objects
  <2>6. stored = UNION {ObjectsOf(i) : i \in shown}
    BY <2>5 DEF ObjectsOf, TypeOK
  <2> QED
    BY <2>3, <2>6 DEF shown
<1> QED
  BY <1>1, TypeCorrect, ProfileConsistent, SerialUpdatesKeepTheStore, PTL
=============================================================================
