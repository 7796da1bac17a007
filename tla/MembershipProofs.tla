-------------------------- MODULE MembershipProofs --------------------------
(* Theorems about Membership, for any sets of users, projects, titles and    *)
(* requests in flight.                                                       *)
EXTENDS Membership, TLAPS

(* Every row and every request in flight keeps its type.                     *)
THEOREM TypeCorrect == Spec => []TypeOK
<1>1. Init => TypeOK
  <2> SUFFICES ASSUME Init PROVE TypeOK
    OBVIOUS
  <2>1. overlapped \in BOOLEAN
    BY Zenon DEF Init
  <2>2. req \in [Requests -> Request \cup {None}]
    BY Zenon DEF Init
  <2> QED
    BY <2>1, <2>2 DEF Init, TypeOK
<1>2. TypeOK /\ [Next]_vars => TypeOK'
  <2> SUFFICES ASSUME TypeOK, [Next]_vars PROVE TypeOK'
    OBVIOUS
  <2> USE DEF TypeOK, Begin, At, Proceed, End, tables
  <2>1. ASSUME NEW r \in Requests, NEW u \in Users, NEW t \in Titles,
               CreateProject(r, u, t)
        PROVE  TypeOK'
    BY <2>1 DEF CreateProject, Request
  <2>2. ASSUME NEW r \in Requests, NEW u \in Users, NEW p \in Projects, NEW t \in Titles,
               UpdateProject(r, u, p, t)
        PROVE  TypeOK'
    BY <2>2 DEF UpdateProject, Request
  <2>3. ASSUME NEW r \in Requests, NEW m \in Users, NEW p \in Projects, NEW u \in Users,
               SendInvitation(r, m, p, u)
        PROVE  TypeOK'
    BY <2>3 DEF SendInvitation, Request
  <2>4. ASSUME NEW r \in Requests, NEW u \in Users, NEW p \in Projects, NEW a \in Answers,
               RespondToInvitation(r, u, p, a)
        PROVE  TypeOK'
    BY <2>4 DEF RespondToInvitation, Request
  <2>5. ASSUME NEW r \in Requests, NEW m \in Users, NEW p \in Projects, NEW u \in Users,
               NEW s \in ParticipationStatus, UpdateParticipation(r, m, p, u, s)
        PROVE  TypeOK'
    BY <2>5 DEF UpdateParticipation, Request
  <2>6. ASSUME NEW r \in Requests, CreateProjectCommit(r)
        PROVE  TypeOK'
    <3>1. req[r].user \in Users /\ req[r].title \in Titles
      BY <2>6 DEF CreateProjectCommit, Request
    <3> QED
      BY <2>6, <3>1 DEF CreateProjectCommit, ParticipationStatus
  <2>7. ASSUME NEW r \in Requests, UpdateProjectCommit(r)
        PROVE  TypeOK'
    <3>1. req[r].project \in Projects /\ req[r].title \in Titles
      BY <2>7 DEF UpdateProjectCommit, Request
    <3> QED
      BY <2>7, <3>1 DEF UpdateProjectCommit
  <2>8. ASSUME NEW r \in Requests, SendInvitationCheck(r)
        PROVE  TypeOK'
    BY <2>8 DEF SendInvitationCheck, Request
  <2>9. ASSUME NEW r \in Requests, SendInvitationCommit(r)
        PROVE  TypeOK'
    BY <2>9 DEF SendInvitationCommit, Upserted, InviteStatus
  <2>10. ASSUME NEW r \in Requests, RespondCheck(r)
        PROVE  TypeOK'
    <3>1. req[r] \in Request /\ req[r].at = "respondCheck" /\ UNCHANGED <<tables, overlapped>>
      BY <2>10 DEF RespondCheck
    <3>2. [req[r] EXCEPT !.at = "respond"] \in Request
      BY <3>1 DEF Request
    <3>3. req' = [req EXCEPT ![r] = [req[r] EXCEPT !.at = "respond"]]
      BY <2>10 DEF RespondCheck
    <3> QED
      BY <3>1, <3>2, <3>3
  <2>11. ASSUME NEW r \in Requests, RespondCommit(r)
        PROVE  TypeOK'
    <3> DEFINE p == req[r].project
               u == req[r].user
               a == req[r].answer
    <3>1. p \in Projects /\ u \in Users /\ a \in Answers
      BY <2>11 DEF RespondCommit, Request
    <3>2. /\ invitation' = [invitation EXCEPT ![p][u] = a]
          /\ \/ /\ participation' = [participation EXCEPT ![p][u] = "ACTIVE"]
                /\ room' = [room EXCEPT ![p] = @ \cup {u}]
             \/ UNCHANGED <<participation, room>>
          /\ UNCHANGED <<creator, title>>
          /\ req' = [req EXCEPT ![r] = None] /\ overlapped' = overlapped
      BY <2>11 DEF RespondCommit, RecordAnswer, JoinProject
    <3> HIDE DEF p, u, a
    <3>3. invitation' \in [Projects -> [Users -> InviteStatus \cup {"none"}]]
      BY <3>1, <3>2 DEF InviteStatus
    <3>4. participation' \in [Projects -> [Users -> ParticipationStatus \cup {"none"}]]
      <4>1. [participation[p] EXCEPT ![u] = "ACTIVE"]
              \in [Users -> ParticipationStatus \cup {"none"}]
        BY <3>1 DEF ParticipationStatus
      <4> QED
        BY <3>1, <3>2, <4>1
    <3>5. room' \in [Projects -> SUBSET Users]
      <4>1. room \in [Projects -> SUBSET Users]
        OBVIOUS
      <4>2. room[p] \cup {u} \in SUBSET Users
        BY <3>1, <4>1
      <4>3. room' = room \/ room' = [room EXCEPT ![p] = @ \cup {u}]
        BY <3>2
      <4> HIDE DEF TypeOK
      <4> QED
        BY <4>1, <4>2, <4>3
    <3>6. /\ creator' \in [Projects -> Users \cup {None}]
          /\ title' \in [Projects -> Titles \cup {None}]
          /\ req' \in [Requests -> Request \cup {None}] /\ overlapped' \in BOOLEAN
      BY <3>2
    <3> QED
      BY <3>3, <3>4, <3>5, <3>6
  <2>12. ASSUME NEW r \in Requests, UpdateParticipationWrite(r)
        PROVE  TypeOK'
    <3>1. req[r].project \in Projects /\ req[r].user \in Users
            /\ req[r].status \in ParticipationStatus
      BY <2>12 DEF UpdateParticipationWrite, Request
    <3> QED
      BY <2>12, <3>1 DEF UpdateParticipationWrite
  <2>13. ASSUME NEW r \in Requests, Fail(r)
        PROVE  TypeOK'
    BY <2>13 DEF Fail
  <2>14. CASE UNCHANGED vars
    BY <2>14 DEF vars
  <2> QED
    BY <2>1, <2>2, <2>3, <2>4, <2>5, <2>6, <2>7, <2>8, <2>9, <2>10, <2>11, <2>12, <2>13, <2>14
    DEF Next, Arrive, Advance
<1> QED
  BY <1>1, <1>2, PTL DEF Spec

-----------------------------------------------------------------------------
(* A step that touches no table preserves all of Inductive but what is in    *)
(* flight.                                                                   *)
LEMMA TablesUnchanged ==
  ASSUME Inductive, UNCHANGED tables, InFlightHolds'
  PROVE  Inductive'
BY DEF Inductive, tables, AcceptedAreMembers, PendingAreOutsiders, RoomIsMembers,
       UnusedIsEmpty, MembersWereInvited

(* One step per action, one conjunct at a time.                              *)
LEMMA InductiveStep ==
  ASSUME TypeOK, Inductive, [Next]_vars
  PROVE  Inductive'
<1> USE DEF TypeOK, Begin, At, Proceed, End
<1>1. ASSUME NEW r \in Requests, NEW u \in Users, NEW t \in Titles,
             CreateProject(r, u, t)
      PROVE  Inductive'
  <2>1. InFlightHolds'
    BY <1>1 DEF CreateProject, Inductive, InFlightHolds, tables
  <2> QED
    BY <1>1, <2>1, TablesUnchanged DEF CreateProject
<1>2. ASSUME NEW r \in Requests, NEW u \in Users, NEW p \in Projects, NEW t \in Titles,
             UpdateProject(r, u, p, t)
      PROVE  Inductive'
  <2>1. InFlightHolds'
    BY <1>2 DEF UpdateProject, Inductive, InFlightHolds, tables
  <2> QED
    BY <1>2, <2>1, TablesUnchanged DEF UpdateProject
<1>3. ASSUME NEW r \in Requests, NEW m \in Users, NEW p \in Projects, NEW u \in Users,
             SendInvitation(r, m, p, u)
      PROVE  Inductive'
  <2>1. creator[p] \notin {None, u}
    BY <1>3, NoneAssumption DEF SendInvitation, Manages, OtherAddress
  <2>2. InFlightHolds'
    BY <1>3, <2>1 DEF SendInvitation, Inductive, InFlightHolds, tables
  <2> QED
    BY <1>3, <2>2, TablesUnchanged DEF SendInvitation
<1>4. ASSUME NEW r \in Requests, NEW u \in Users, NEW p \in Projects, NEW a \in Answers,
             RespondToInvitation(r, u, p, a)
      PROVE  Inductive'
  <2>1. InFlightHolds'
    BY <1>4 DEF RespondToInvitation, Answerable, Inductive, InFlightHolds, tables
  <2> QED
    BY <1>4, <2>1, TablesUnchanged DEF RespondToInvitation
<1>5. ASSUME NEW r \in Requests, NEW m \in Users, NEW p \in Projects, NEW u \in Users,
             NEW s \in ParticipationStatus, UpdateParticipation(r, m, p, u, s)
      PROVE  Inductive'
  <2>1. InFlightHolds'
    BY <1>5 DEF UpdateParticipation, Changeable, Inductive, InFlightHolds, tables
  <2> QED
    BY <1>5, <2>1, TablesUnchanged DEF UpdateParticipation
<1>6. ASSUME NEW r \in Requests, CreateProjectCommit(r)
      PROVE  Inductive'
  <2> DEFINE u == req[r].user
  <2>1. PICK p \in Projects :
          /\ creator[p] = None
          /\ creator' = [creator EXCEPT ![p] = u]
          /\ participation' = [participation EXCEPT ![p][u] = "ACTIVE"]
          /\ room' = [room EXCEPT ![p] = {u}]
    BY <1>6 DEF CreateProjectCommit
  <2>2. u \in Users /\ invitation' = invitation /\ req' = [req EXCEPT ![r] = None]
    BY <1>6 DEF CreateProjectCommit, Request
  <2> HIDE DEF u
  <2>3. \A v \in Users : invitation[p][v] = "none" /\ participation[p][v] = "none"
    BY <2>1 DEF Inductive, UnusedIsEmpty
  <2>4. \A q \in Projects, v \in Users :
          participation'[q][v] = IF q = p /\ v = u THEN "ACTIVE" ELSE participation[q][v]
    BY <2>1, <2>2
  <2>5. AcceptedAreMembers'
    <3>1. \A q \in Projects, v \in Users :
            invitation[q][v] = "ACCEPTED" => participation[q][v] # "none"
      BY Zenon DEF Inductive, AcceptedAreMembers
    <3>2. \A q \in Projects, v \in Users :
            participation[q][v] # "none" => participation'[q][v] # "none"
      BY <2>4
    <3> QED
      BY <2>2, <3>1, <3>2, Zenon DEF AcceptedAreMembers
  <2>6. PendingAreOutsiders'
    BY <2>2, <2>3, <2>4 DEF Inductive, PendingAreOutsiders
  <2>7. RoomIsMembers'
    BY <2>1, <2>2, <2>3, <2>4 DEF Inductive, RoomIsMembers
  <2>8. UnusedIsEmpty'
    BY <2>1, <2>2, <2>4, NoneAssumption DEF Inductive, UnusedIsEmpty
  <2>9. MembersWereInvited'
    BY <2>1, <2>2, <2>3, <2>4 DEF Inductive, MembersWereInvited
  <2>10. InFlightHolds'
    BY <2>1, <2>2, <2>3, <2>4 DEF Inductive, InFlightHolds, UnusedIsEmpty
  <2> QED
    BY <2>5, <2>6, <2>7, <2>8, <2>9, <2>10 DEF Inductive
<1>7. ASSUME NEW r \in Requests, UpdateProjectCommit(r)
      PROVE  Inductive'
  BY <1>7 DEF UpdateProjectCommit, Inductive, AcceptedAreMembers, PendingAreOutsiders,
     RoomIsMembers, UnusedIsEmpty, MembersWereInvited, InFlightHolds
<1>8. ASSUME NEW r \in Requests, SendInvitationCheck(r)
      PROVE  Inductive'
  <2>1. InFlightHolds'
    BY <1>8 DEF SendInvitationCheck, Inductive, InFlightHolds, tables, Request
  <2> QED
    BY <1>8, <2>1, TablesUnchanged DEF SendInvitationCheck
<1>9. ASSUME NEW r \in Requests, SendInvitationCommit(r)
      PROVE  Inductive'
  <2> DEFINE p == req[r].project
             u == req[r].user
  <2>1. /\ p \in Projects /\ u \in Users
        /\ creator[p] \notin {None, u}
    BY <1>9 DEF SendInvitationCommit, Request, Inductive, InFlightHolds
  <2>2. /\ invitation' = [invitation EXCEPT ![p][u] = Upserted(@)]
        /\ UNCHANGED <<creator, participation, room>>
        /\ req' = [req EXCEPT ![r] = None]
    BY <1>9 DEF SendInvitationCommit
  <2> HIDE DEF p, u
  <2>3. \A q \in Projects, v \in Users :
          invitation'[q][v] =
            IF q = p /\ v = u THEN Upserted(invitation[q][v]) ELSE invitation[q][v]
    BY <2>1, <2>2
  <2>4. AcceptedAreMembers'
    BY <2>2, <2>3 DEF Inductive, AcceptedAreMembers, Upserted
  <2>5. PendingAreOutsiders'
    BY <2>1, <2>2, <2>3 DEF Inductive, PendingAreOutsiders, MembersWereInvited, Upserted
  <2>6. RoomIsMembers'
    BY <2>2 DEF Inductive, RoomIsMembers
  <2>7. UnusedIsEmpty'
    BY <2>1, <2>2, <2>3 DEF Inductive, UnusedIsEmpty
  <2>8. MembersWereInvited'
    BY <2>2, <2>3 DEF Inductive, MembersWereInvited, Upserted
  <2>9. InFlightHolds'
    BY <2>1, <2>2, <2>3 DEF Inductive, InFlightHolds, Upserted, Request
  <2> QED
    BY <2>4, <2>5, <2>6, <2>7, <2>8, <2>9 DEF Inductive
<1>10. ASSUME NEW r \in Requests, RespondCheck(r)
      PROVE  Inductive'
  <2>1. InFlightHolds'
    BY <1>10 DEF RespondCheck, Inductive, InFlightHolds, tables, Request
  <2> QED
    BY <1>10, <2>1, TablesUnchanged DEF RespondCheck
<1>11. ASSUME NEW r \in Requests, RespondCommit(r)
      PROVE  Inductive'
  <2> DEFINE p == req[r].project
             u == req[r].user
             a == req[r].answer
  <2>1. /\ p \in Projects /\ u \in Users /\ a \in Answers
        /\ invitation[p][u] # "none"
    BY <1>11 DEF RespondCommit, Request, Inductive, InFlightHolds
  <2>2. /\ invitation' = [invitation EXCEPT ![p][u] = a]
        /\ \/ a = "ACCEPTED" /\ JoinProject(p, u)
           \/ a = "DECLINED" /\ UNCHANGED <<participation, room>>
        /\ UNCHANGED creator
        /\ req' = [req EXCEPT ![r] = None]
    BY <1>11 DEF RespondCommit, RecordAnswer
  <2> HIDE DEF p, u, a
  <2>3. \A q \in Projects, v \in Users :
          invitation'[q][v] = IF q = p /\ v = u THEN a ELSE invitation[q][v]
    BY <2>1, <2>2
  <2>4. \A q \in Projects, v \in Users :
          participation'[q][v] =
            IF a = "ACCEPTED" /\ q = p /\ v = u THEN "ACTIVE" ELSE participation[q][v]
    BY <2>1, <2>2 DEF JoinProject
  <2>5. creator[p] # None
    BY <2>1 DEF Inductive, UnusedIsEmpty
  <2>6. AcceptedAreMembers'
    BY <2>1, <2>3, <2>4 DEF Inductive, AcceptedAreMembers
  <2>7. PendingAreOutsiders'
    BY <2>1, <2>3, <2>4 DEF Inductive, PendingAreOutsiders, Answers
  <2>8. RoomIsMembers'
    <3>1. CASE a = "ACCEPTED"
      <4>1. room' = [room EXCEPT ![p] = @ \cup {u}]
        BY <2>2, <3>1 DEF JoinProject
      <4> QED
        BY <2>1, <2>4, <3>1, <4>1 DEF Inductive, RoomIsMembers
    <3>2. CASE a = "DECLINED"
      BY <2>2, <2>4, <3>2 DEF Inductive, RoomIsMembers
    <3> QED
      BY <2>2, <3>1, <3>2
  <2>9. UnusedIsEmpty'
    BY <2>2, <2>3, <2>4, <2>5 DEF Inductive, UnusedIsEmpty
  <2>10. MembersWereInvited'
    BY <2>1, <2>2, <2>3, <2>4 DEF Inductive, MembersWereInvited, Answers
  <2>11. InFlightHolds'
    BY <2>1, <2>2, <2>3, <2>4 DEF Inductive, InFlightHolds, Answers, Request
  <2> QED
    BY <2>6, <2>7, <2>8, <2>9, <2>10, <2>11 DEF Inductive
<1>12. ASSUME NEW r \in Requests, UpdateParticipationWrite(r)
      PROVE  Inductive'
  <2> DEFINE p == req[r].project
             u == req[r].user
             s == req[r].status
  <2>1. /\ p \in Projects /\ u \in Users /\ s \in ParticipationStatus
        /\ participation[p][u] # "none"
    BY <1>12 DEF UpdateParticipationWrite, Request, Inductive, InFlightHolds
  <2>2. /\ participation' = [participation EXCEPT ![p][u] = s]
        /\ UNCHANGED <<creator, invitation, room>>
        /\ req' = [req EXCEPT ![r] = None]
    BY <1>12 DEF UpdateParticipationWrite
  <2> HIDE DEF p, u, s
  <2>3. \A q \in Projects, v \in Users :
          participation'[q][v] = "none" <=> participation[q][v] = "none"
    BY <2>1, <2>2 DEF ParticipationStatus
  <2>4. RoomIsMembers'
    BY <2>2, <2>3 DEF Inductive, RoomIsMembers
  <2>5. InFlightHolds'
    BY <2>2, <2>3 DEF Inductive, InFlightHolds, Request
  <2> QED
    BY <2>2, <2>3, <2>4, <2>5 DEF Inductive, AcceptedAreMembers, PendingAreOutsiders,
       UnusedIsEmpty, MembersWereInvited
<1>13. ASSUME NEW r \in Requests, Fail(r)
      PROVE  Inductive'
  <2>1. InFlightHolds'
    BY <1>13 DEF Fail, Inductive, InFlightHolds, tables
  <2> QED
    BY <1>13, <2>1, TablesUnchanged DEF Fail
<1>14. CASE UNCHANGED vars
  <2>1. InFlightHolds'
    BY <1>14 DEF Inductive, InFlightHolds, vars
  <2> QED
    BY <1>14, <2>1, TablesUnchanged DEF vars, tables
<1> QED
  BY <1>1, <1>2, <1>3, <1>4, <1>5, <1>6, <1>7, <1>8, <1>9, <1>10, <1>11, <1>12, <1>13, <1>14
  DEF Next, Arrive, Advance

(* No interleaving of requests parts an acceptance from its participation,   *)
(* leaves a member an open invitation, or parts the room from the members.   *)
THEOREM MembershipConsistent == Spec => []Inductive
<1>1. Init => Inductive
  BY DEF Init, Inductive, AcceptedAreMembers, PendingAreOutsiders, RoomIsMembers,
     UnusedIsEmpty, MembersWereInvited, InFlightHolds, At
<1> QED
  BY <1>1, InductiveStep, TypeCorrect, PTL DEF Spec

(* Whoever has accepted is in the project, in every interleaving.            *)
THEOREM AcceptedAreAlwaysMembers == Spec => []AcceptedAreMembers
BY MembershipConsistent, PTL DEF Inductive

(* No member has an open invitation, in every interleaving.                  *)
THEOREM PendingAreAlwaysOutsiders == Spec => []PendingAreOutsiders
BY MembershipConsistent, PTL DEF Inductive

(* The chat room is the membership, in every interleaving.                   *)
THEOREM RoomIsAlwaysMembers == Spec => []RoomIsMembers
BY MembershipConsistent, PTL DEF Inductive

(* The index on creator and title keeps titles apart, whatever the check     *)
(* that createProject made earlier has seen.                                 *)
THEOREM TitlesAlwaysUnique == Spec => []TitlesUnique
<1>1. Init => TitlesUnique
  BY DEF Init, TitlesUnique
<1>2. TypeOK /\ TitlesUnique /\ [Next]_vars => TitlesUnique'
  <2> SUFFICES ASSUME TypeOK, TitlesUnique, [Next]_vars PROVE TitlesUnique'
    OBVIOUS
  <2> USE DEF TypeOK, TitlesUnique
  <2>1. ASSUME NEW r \in Requests, CreateProjectCommit(r)
        PROVE  TitlesUnique'
    BY <2>1 DEF CreateProjectCommit, TitleIndexAllows, Titled
  <2>2. ASSUME NEW r \in Requests, UpdateProjectCommit(r)
        PROVE  TitlesUnique'
    <3> DEFINE q == req[r].project
               t == req[r].title
    <3>1. /\ q \in Projects
          /\ title[q] = t \/ ~Titled(creator[q], t)
          /\ title' = [title EXCEPT ![q] = t]
          /\ UNCHANGED creator
      BY <2>2 DEF UpdateProjectCommit, TitleIndexAllows, At, Request
    <3> HIDE DEF q, t
    <3> QED
      BY <3>1 DEF Titled
  <2> QED
    BY <2>1, <2>2 DEF Next, Arrive, Advance, vars, tables, CreateProject, UpdateProject,
       SendInvitation, RespondToInvitation, UpdateParticipation, SendInvitationCommit,
       SendInvitationCheck, RespondCheck, RespondCommit, UpdateParticipationWrite, Fail
<1> QED
  BY <1>1, <1>2, TypeCorrect, PTL DEF Spec

-----------------------------------------------------------------------------
(* The refinement: the ledger's members and invited users, read off the      *)
(* tables.                                                                   *)
Invited == [p \in Projects |-> {u \in Users : invitation[p][u] # "none"}]
Members == [p \in Projects |-> {u \in Users : participation[p][u] # "none"}]

LEMMA LedgerStep ==
  ASSUME TypeOK, Inductive, [Next]_vars
  PROVE  [Ledger!Next]_(Ledger!vars)
<1> USE DEF TypeOK
<1> SUFFICES \/ \E p \in Projects, u \in Users :
                   Ledger!Found(p, u) \/ Ledger!Invite(p, u) \/ Ledger!Join(p, u)
             \/ UNCHANGED <<creator, Invited, Members, room>>
  BY DEF Ledger!Next, Ledger!vars, Invited, Members
<1>1. ASSUME NEW r \in Requests, CreateProjectCommit(r)
      PROVE  \E p \in Projects, u \in Users : Ledger!Found(p, u)
  <2> DEFINE u == req[r].user
  <2>1. PICK p \in Projects :
          /\ creator[p] = None
          /\ creator' = [creator EXCEPT ![p] = u]
          /\ participation' = [participation EXCEPT ![p][u] = "ACTIVE"]
          /\ room' = [room EXCEPT ![p] = {u}]
    BY <1>1 DEF CreateProjectCommit
  <2>2. u \in Users /\ invitation' = invitation
    BY <1>1 DEF CreateProjectCommit, At, Request
  <2> HIDE DEF u
  <2>3. \A v \in Users : participation[p][v] = "none"
    BY <2>1 DEF Inductive, UnusedIsEmpty
  <2>4. Members' = [Members EXCEPT ![p] = {u}]
    <3>1. ASSUME NEW q \in Projects
          PROVE  Members'[q] = IF q = p THEN {u} ELSE Members[q]
      <4>1. CASE q = p
        BY <2>1, <2>2, <2>3, <4>1 DEF Members, Inductive, TypeOK
      <4>2. CASE q # p
        BY <2>1, <4>2 DEF Members, Inductive, TypeOK
      <4> QED
        BY <4>1, <4>2
    <3> QED
      BY <3>1 DEF Members
  <2> QED
    BY <2>1, <2>2, <2>4 DEF Ledger!Found, Members
<1>2. ASSUME NEW r \in Requests, SendInvitationCommit(r)
      PROVE  \/ \E p \in Projects, u \in Users : Ledger!Invite(p, u)
             \/ UNCHANGED <<creator, Invited, Members, room>>
  <2>1. req[r].project \in Projects /\ req[r].user \in Users
    BY <1>2 DEF SendInvitationCommit, At, Request
  <2>2. PICK p \in Projects, u \in Users :
          /\ creator[p] \notin {None, u}
          /\ invitation' = [invitation EXCEPT ![p][u] = Upserted(@)]
          /\ UNCHANGED <<creator, participation, room>>
    BY <1>2, <2>1 DEF SendInvitationCommit, At, Inductive, InFlightHolds
  <2>3. CASE invitation[p][u] = "none"
    <3>1. participation[p][u] = "none"
      BY <2>2, <2>3 DEF Inductive, MembersWereInvited
    <3>2. \A q \in Projects, v \in Users :
            invitation'[q][v] # "none" <=> invitation[q][v] # "none" \/ (q = p /\ v = u)
      <4>1. invitation' = [invitation EXCEPT ![p][u] = "PENDING"]
        BY <2>2, <2>3 DEF Upserted
      <4> QED
        BY <4>1
    <3>3. Invited' = [Invited EXCEPT ![p] = @ \cup {u}]
      BY <3>2 DEF Invited
    <3>4. Ledger!Invite(p, u)
      BY <2>2, <3>1, <3>3 DEF Ledger!Invite, Invited
    <3> QED
      BY <3>4
  <2>4. CASE invitation[p][u] # "none"
    <3>1. invitation' = invitation
      BY <2>1, <2>2, <2>4 DEF Upserted
    <3> QED
      BY <2>2, <3>1 DEF Invited, Members
  <2> QED
    BY <2>3, <2>4
<1>3. ASSUME NEW r \in Requests, RespondCommit(r)
      PROVE  \/ \E p \in Projects, u \in Users : Ledger!Join(p, u)
             \/ UNCHANGED <<creator, Invited, Members, room>>
  <2>1. req[r].project \in Projects /\ req[r].user \in Users /\ req[r].answer \in Answers
    BY <1>3 DEF RespondCommit, At, Request
  <2>2. PICK p \in Projects, u \in Users, a \in Answers :
          /\ invitation[p][u] # "none"
          /\ invitation' = [invitation EXCEPT ![p][u] = a]
          /\ \/ a = "ACCEPTED" /\ JoinProject(p, u)
             \/ a = "DECLINED" /\ UNCHANGED <<participation, room>>
          /\ UNCHANGED creator
    BY <1>3, <2>1 DEF RespondCommit, RecordAnswer, At, Inductive, InFlightHolds
  <2>3. Invited' = Invited
    BY <2>2 DEF Invited, Answers
  <2>4. CASE a = "ACCEPTED"
    <3>1. JoinProject(p, u)
      BY <2>2, <2>4
    <3>2. \A q \in Projects, v \in Users :
            participation'[q][v] # "none" <=> participation[q][v] # "none" \/ (q = p /\ v = u)
      BY <3>1 DEF JoinProject
    <3>3. Members' = [Members EXCEPT ![p] = @ \cup {u}]
      BY <3>2 DEF Members
    <3>4. Ledger!Join(p, u)
      BY <2>2, <2>3, <3>1, <3>3 DEF Ledger!Join, JoinProject, Invited, Members
    <3> QED
      BY <3>4
  <2>5. CASE a = "DECLINED"
    BY <2>2, <2>3, <2>5 DEF Members
  <2> QED
    BY <2>2, <2>4, <2>5
<1>4. ASSUME NEW r \in Requests, UpdateParticipationWrite(r)
      PROVE  UNCHANGED <<creator, Invited, Members, room>>
  <2> DEFINE p == req[r].project
             u == req[r].user
             s == req[r].status
  <2>1. /\ p \in Projects /\ u \in Users /\ s \in ParticipationStatus
        /\ participation[p][u] # "none"
    BY <1>4 DEF UpdateParticipationWrite, At, Request, Inductive, InFlightHolds
  <2>2. /\ participation' = [participation EXCEPT ![p][u] = s]
        /\ UNCHANGED <<creator, invitation, room>>
    BY <1>4 DEF UpdateParticipationWrite
  <2> HIDE DEF p, u, s
  <2>3. Members' = Members
    BY <2>1, <2>2 DEF Members, ParticipationStatus
  <2> QED
    BY <2>2, <2>3 DEF Invited
<1>5. UNCHANGED <<creator, invitation, participation, room>>
        => UNCHANGED <<creator, Invited, Members, room>>
  BY DEF Invited, Members
<1>6. \/ UNCHANGED <<creator, invitation, participation, room>>
      \/ \E r \in Requests : CreateProjectCommit(r) \/ SendInvitationCommit(r)
                             \/ RespondCommit(r) \/ UpdateParticipationWrite(r)
  BY DEF Next, Arrive, Advance, vars, tables, CreateProject, UpdateProject,
     SendInvitation, RespondToInvitation, UpdateParticipation, UpdateProjectCommit,
     SendInvitationCheck, RespondCheck, Fail
<1> QED
  BY <1>1, <1>2, <1>3, <1>4, <1>5, <1>6

(* Membership implements the ledger: in every interleaving a project is      *)
(* founded once, and a user joins it and its chat together and only after an *)
(* invitation.                                                               *)
THEOREM MembershipImplementsLedger == Spec => ImplementsLedger
<1>1. Init => Ledger!Init
  BY DEF Init, Ledger!Init
<1>2. TypeOK /\ Inductive /\ [Next]_vars => [Ledger!Next]_(Ledger!vars)
  BY LedgerStep
<1> QED
  BY <1>1, <1>2, TypeCorrect, MembershipConsistent, PTL
  DEF Spec, ImplementsLedger, Ledger!Spec

-----------------------------------------------------------------------------
(* As long as no two requests overlap, at most one is in flight, and what it *)
(* has read still holds when it writes.                                      *)
Alone == \A q, r \in Requests : req[q] # None /\ req[r] # None => q = r

NothingChangedMeanwhile ==
  \A r \in Requests :
    /\ At(r, "respondCheck") \/ At(r, "respond") =>
         invitation[req[r].project][req[r].user] = "PENDING"
    /\ At(r, "setStatus") =>
         participation[req[r].project][req[r].user] \notin {"none", "REMOVED"}

SerialInductive ==
  /\ MembersHaveAccepted
  /\ ~overlapped => Alone /\ NothingChangedMeanwhile

LEMMA SerialStep ==
  ASSUME TypeOK, Inductive, SerialInductive, ~overlapped, [Next]_vars
  PROVE  /\ SerialInductive'
         /\ \A p \in Projects, u \in Users :
              /\ invitation[p][u] \in Answers => invitation'[p][u] = invitation[p][u]
              /\ participation[p][u] = "REMOVED" => participation'[p][u] = "REMOVED"
<1> USE DEF TypeOK, Begin, At, Proceed, End, SerialInductive, MembersHaveAccepted
<1>0. ASSUME NEW r \in Requests, req[r] # None, End(r)
      PROVE  Alone' /\ NothingChangedMeanwhile'
  <2>1. \A x \in Requests : req'[x] = None
    BY <1>0 DEF Alone
  <2> QED
    BY <2>1 DEF Alone, NothingChangedMeanwhile
<1>a. ASSUME NEW r \in Requests, req[r] # None, NEW stage, Proceed(r, stage)
      PROVE  Alone'
  BY <1>a DEF Alone
<1>1. ASSUME NEW r \in Requests, CreateProjectCommit(r)
      PROVE  /\ SerialInductive'
             /\ \A p \in Projects, u \in Users :
                  /\ invitation'[p][u] = invitation[p][u]
                  /\ participation[p][u] = "REMOVED" => participation'[p][u] = "REMOVED"
  <2> DEFINE u == req[r].user
  <2>1. PICK p \in Projects :
          /\ creator[p] = None
          /\ creator' = [creator EXCEPT ![p] = u]
          /\ participation' = [participation EXCEPT ![p][u] = "ACTIVE"]
    BY <1>1 DEF CreateProjectCommit
  <2>2. u \in Users /\ invitation' = invitation
    BY <1>1 DEF CreateProjectCommit, Request
  <2> HIDE DEF u
  <2>3. \A v \in Users : participation[p][v] = "none"
    BY <2>1 DEF Inductive, UnusedIsEmpty
  <2>4. Alone' /\ NothingChangedMeanwhile'
    BY <1>0, <1>1 DEF CreateProjectCommit
  <2> QED
    BY <2>1, <2>2, <2>3, <2>4
<1>2. ASSUME NEW r \in Requests, SendInvitationCommit(r)
      PROVE  /\ SerialInductive'
             /\ \A p \in Projects, u \in Users :
                  /\ invitation[p][u] \in Answers => invitation'[p][u] = invitation[p][u]
                  /\ participation'[p][u] = participation[p][u]
  <2>1. Alone' /\ NothingChangedMeanwhile'
    BY <1>0, <1>2 DEF SendInvitationCommit
  <2> QED
    BY <1>2, <2>1 DEF SendInvitationCommit, Upserted, Answers
<1>3. ASSUME NEW r \in Requests, RespondCommit(r)
      PROVE  /\ SerialInductive'
             /\ \A p \in Projects, u \in Users :
                  /\ invitation[p][u] \in Answers => invitation'[p][u] = invitation[p][u]
                  /\ participation[p][u] = "REMOVED" => participation'[p][u] = "REMOVED"
  <2> DEFINE p == req[r].project
             u == req[r].user
             a == req[r].answer
  <2>1. /\ p \in Projects /\ u \in Users /\ a \in Answers
        /\ invitation[p][u] = "PENDING"
    <3>1. req[r] \in Request /\ req[r] # None /\ req[r].at = "respond"
      BY <1>3 DEF RespondCommit
    <3>2. NothingChangedMeanwhile
      OBVIOUS
    <3> QED
      BY <3>1, <3>2 DEF Request, NothingChangedMeanwhile
  <2>2. /\ invitation' = [invitation EXCEPT ![p][u] = a]
        /\ \/ a = "ACCEPTED" /\ JoinProject(p, u)
           \/ a = "DECLINED" /\ UNCHANGED <<participation, room>>
        /\ UNCHANGED creator
        /\ At(r, "respond") /\ End(r)
    BY <1>3 DEF RespondCommit, RecordAnswer
  <2> HIDE DEF p, u, a
  <2>3. participation[p][u] = "none"
    BY <2>1 DEF Inductive, PendingAreOutsiders
  <2>4. \A q \in Projects, v \in Users :
          /\ invitation'[q][v] = IF q = p /\ v = u THEN a ELSE invitation[q][v]
          /\ participation'[q][v] =
               IF a = "ACCEPTED" /\ q = p /\ v = u THEN "ACTIVE" ELSE participation[q][v]
    BY <2>1, <2>2 DEF JoinProject
  <2>5. MembersHaveAccepted'
    BY <2>1, <2>2, <2>3, <2>4 DEF Answers
  <2>6. Alone' /\ NothingChangedMeanwhile'
    BY <1>0, <2>2
  <2> QED
    BY <2>1, <2>3, <2>4, <2>5, <2>6 DEF Answers
<1>4. ASSUME NEW r \in Requests, UpdateParticipationWrite(r)
      PROVE  /\ SerialInductive'
             /\ \A p \in Projects, u \in Users :
                  /\ invitation'[p][u] = invitation[p][u]
                  /\ participation[p][u] = "REMOVED" => participation'[p][u] = "REMOVED"
  <2> DEFINE p == req[r].project
             u == req[r].user
             s == req[r].status
  <2>1. /\ p \in Projects /\ u \in Users /\ s \in ParticipationStatus
        /\ participation[p][u] \notin {"none", "REMOVED"}
    BY <1>4 DEF UpdateParticipationWrite, Request, NothingChangedMeanwhile
  <2>2. /\ participation' = [participation EXCEPT ![p][u] = s]
        /\ UNCHANGED <<creator, invitation>>
        /\ At(r, "setStatus") /\ End(r)
    BY <1>4 DEF UpdateParticipationWrite
  <2> HIDE DEF p, u, s
  <2>3. Alone' /\ NothingChangedMeanwhile'
    BY <1>0, <2>2
  <2> QED
    BY <2>1, <2>2, <2>3 DEF ParticipationStatus
<1>5. ASSUME UNCHANGED <<creator, invitation, participation>>,
             ~overlapped' => Alone' /\ NothingChangedMeanwhile'
      PROVE  /\ SerialInductive'
             /\ \A p \in Projects, u \in Users :
                  /\ invitation'[p][u] = invitation[p][u]
                  /\ participation'[p][u] = participation[p][u]
  BY <1>5
<1>6. ASSUME NEW r \in Requests, UNCHANGED <<creator, invitation, participation>>,
             req[r] # None,
             End(r) \/ SendInvitationCheck(r) \/ RespondCheck(r)
      PROVE  Alone' /\ NothingChangedMeanwhile'
  <2>1. CASE End(r)
    BY <1>0, <1>6, <2>1
  <2>2. CASE SendInvitationCheck(r)
    <3>1. req[r] \in Request /\ req' = [req EXCEPT ![r].at = "invite"]
      BY <2>2 DEF SendInvitationCheck
    <3>2. ~At(r, "respondCheck")' /\ ~At(r, "respond")' /\ ~At(r, "setStatus")'
      BY <3>1 DEF Request
    <3>3. Alone' /\ \A x \in Requests : x # r => req'[x] = None
      BY <1>6, <2>2, <3>1, <1>a DEF SendInvitationCheck, Alone
    <3> QED
      BY <3>2, <3>3 DEF NothingChangedMeanwhile
  <2>3. CASE RespondCheck(r)
    <3>1. /\ req[r] \in Request /\ req[r].at = "respondCheck"
          /\ req' = [req EXCEPT ![r].at = "respond"]
      BY <2>3 DEF RespondCheck
    <3>2. /\ ~At(r, "setStatus")'
          /\ req'[r].project = req[r].project /\ req'[r].user = req[r].user
      BY <3>1 DEF Request
    <3>3. invitation[req[r].project][req[r].user] = "PENDING"
      BY <2>3 DEF RespondCheck, NothingChangedMeanwhile
    <3>4. Alone' /\ \A x \in Requests : x # r => req'[x] = None
      BY <1>6, <2>3, <3>1, <1>a DEF RespondCheck, Alone
    <3> QED
      BY <1>6, <3>2, <3>3, <3>4 DEF NothingChangedMeanwhile
  <2> QED
    BY <1>6, <2>1, <2>2, <2>3
<1>7. ASSUME NEW r \in Requests, Arrive(r)
      PROVE  /\ ~overlapped' => Alone' /\ NothingChangedMeanwhile'
             /\ UNCHANGED tables
  <2>1. UNCHANGED tables /\ \E q : Begin(r, q)
    BY <1>7 DEF Arrive, CreateProject, UpdateProject, SendInvitation, RespondToInvitation,
       UpdateParticipation
  <2>2. ASSUME ~overlapped'
        PROVE  Alone' /\ NothingChangedMeanwhile'
    <3>1. \A x \in Requests : x # r => req'[x] = None
      BY <2>1, <2>2
    <3>2. Alone'
      BY <3>1 DEF Alone
    <3>3. NothingChangedMeanwhile'
      BY <1>7, <3>1 DEF Arrive, NothingChangedMeanwhile, tables, CreateProject, UpdateProject,
         SendInvitation, RespondToInvitation, UpdateParticipation, Answerable, Changeable
    <3> QED
      BY <3>2, <3>3
  <2> QED
    BY <2>1, <2>2
<1>8. CASE UNCHANGED vars
  BY <1>8 DEF vars, tables, Alone, NothingChangedMeanwhile
<1> QED
  BY <1>1, <1>2, <1>3, <1>4, <1>5, <1>6, <1>7, <1>8
  DEF Next, Advance, SendInvitationCheck, RespondCheck, UpdateProjectCommit, Fail, tables

(* As long as requests do not overlap, an answer and a removal are final,    *)
(* and every member but the creator has an invitation that says ACCEPTED.    *)
THEOREM SerialRequestsAreFinal ==
  Spec => AnswerIsFinal /\ RemovalIsFinal /\ []MembersHaveAccepted
<1>1. Init => SerialInductive
  BY DEF Init, SerialInductive, MembersHaveAccepted, Alone, NothingChangedMeanwhile, At
<1>2. TypeOK /\ Inductive /\ SerialInductive /\ [Next]_vars =>
        /\ SerialInductive'
        /\ [\A p \in Projects, u \in Users :
              ~overlapped /\ invitation[p][u] \in Answers =>
                invitation'[p][u] = invitation[p][u]]_vars
        /\ [\A p \in Projects, u \in Users :
              ~overlapped /\ participation[p][u] = "REMOVED" =>
                participation'[p][u] = "REMOVED"]_vars
  <2>1. ASSUME TypeOK, overlapped, [Next]_vars
        PROVE  overlapped'
    <3>1. ASSUME NEW r \in Requests, Arrive(r)
          PROVE  overlapped'
      BY <2>1, <3>1 DEF Arrive, Begin, CreateProject, UpdateProject, SendInvitation,
         RespondToInvitation, UpdateParticipation
    <3>2. ASSUME NEW r \in Requests, Advance(r)
          PROVE  overlapped' = overlapped
      BY <3>2, Zenon DEF Advance, End, Proceed, Fail, CreateProjectCommit, UpdateProjectCommit,
         SendInvitationCheck, SendInvitationCommit, RespondCheck, RespondCommit,
         UpdateParticipationWrite
    <3> QED
      BY <2>1, <3>1, <3>2 DEF Next, vars
  <2> QED
    BY <2>1, SerialStep DEF SerialInductive, MembersHaveAccepted
<1>3. SerialInductive => MembersHaveAccepted
  BY DEF SerialInductive
<1> QED
  BY <1>1, <1>2, <1>3, TypeCorrect, MembershipConsistent, PTL
  DEF Spec, AnswerIsFinal, RemovalIsFinal

(* Of the three, on its own: who takes part beside the creator has an        *)
(* invitation that says ACCEPTED, unless requests have overlapped.           *)
THEOREM MembersAlwaysHaveAccepted == Spec => []MembersHaveAccepted
BY SerialRequestsAreFinal

(* Whoever has been removed stays removed, unless requests have overlapped:  *)
(* no invitation answered later brings the participation back.               *)
THEOREM RemovalsAreFinal == Spec => RemovalIsFinal
BY SerialRequestsAreFinal
=============================================================================
