---------------------------- MODULE TeamsProofs ----------------------------
(* Theorems about Teams, for any sets of users, projects, teams, names and   *)
(* requests in flight.                                                       *)
EXTENDS Teams, TLAPS

(* What a step of the ledger can do to the tables of projects: it founds a   *)
(* project, records an invitation or adds a member, and the chat follows.    *)
LEMMA LedgerStep ==
  ASSUME TypeOK, ProjectStep
  PROVE  \E p \in Projects, u \in Users :
           \/ /\ owner[p] = None
              /\ owner' = [owner EXCEPT ![p] = u]
              /\ members' = [members EXCEPT ![p] = {u}]
              /\ chat' = [chat EXCEPT ![p] = {u}]
              /\ UNCHANGED invited
           \/ /\ invited' = [invited EXCEPT ![p] = @ \cup {u}]
              /\ UNCHANGED <<owner, members, chat>>
           \/ /\ members' = [members EXCEPT ![p] = @ \cup {u}]
              /\ chat' = [chat EXCEPT ![p] = @ \cup {u}]
              /\ UNCHANGED <<owner, invited>>
BY DEF ProjectStep, Ledger!Next, Ledger!Found, Ledger!Invite, Ledger!Join

(* Every row and every request in flight keeps its type.                     *)
LEMMA TypeStep ==
  ASSUME TypeOK, [Next]_vars
  PROVE  TypeOK'
<1> USE DEF TypeOK, Begin, At, End, projectTables, teamTables
<1>1. ASSUME ProjectStep
      PROVE  TypeOK'
  <2>1. PICK p \in Projects, u \in Users :
           \/ /\ owner[p] = None
              /\ owner' = [owner EXCEPT ![p] = u]
              /\ members' = [members EXCEPT ![p] = {u}]
              /\ chat' = [chat EXCEPT ![p] = {u}]
              /\ UNCHANGED invited
           \/ /\ invited' = [invited EXCEPT ![p] = @ \cup {u}]
              /\ UNCHANGED <<owner, members, chat>>
           \/ /\ members' = [members EXCEPT ![p] = @ \cup {u}]
              /\ chat' = [chat EXCEPT ![p] = @ \cup {u}]
              /\ UNCHANGED <<owner, invited>>
    BY <1>1, LedgerStep
  <2> QED
    BY <1>1, <2>1 DEF ProjectStep
<1>2. ASSUME NEW t \in TeamIds, NEW n \in Names, UpdateTeam(t, n)
      PROVE  TypeOK'
  BY <1>2 DEF UpdateTeam
<1>3. ASSUME NEW r \in Requests, NEW u \in Users, NEW p \in Projects, NEW n \in Names,
             CreateTeam(r, u, p, n)
      PROVE  TypeOK'
  BY <1>3 DEF CreateTeam, Request
<1>4. ASSUME NEW r \in Requests, NEW m \in Users, NEW t \in TeamIds,
             NEW pu \in Participation, CreateTeamMembership(r, m, t, pu)
      PROVE  TypeOK'
  BY <1>4 DEF CreateTeamMembership, Request
<1>5. ASSUME NEW r \in Requests, CreateTeamCommit(r)
      PROVE  TypeOK'
  <2>1. req[r].project \in Projects /\ req[r].name \in Names /\ req[r].user \in Users
    BY <1>5, NoneAssumption DEF CreateTeamCommit, Request
  <2> QED
    BY <1>5, <2>1 DEF CreateTeamCommit, NewRoom
<1>6. ASSUME NEW r \in Requests, CreateTeamMembershipCommit(r)
      PROVE  TypeOK'
  <2> DEFINE t == req[r].team
             pu == req[r].participation
  <2>1. t \in TeamIds /\ pu \in Participation /\ pu[2] \in Users
    BY <1>6 DEF CreateTeamMembershipCommit, Request, Participation
  <2>2. /\ enrolled' = [enrolled EXCEPT ![t] = @ \cup {pu}]
        /\ room' = [room EXCEPT ![t] = @ \cup {pu[2]}]
        /\ req' = [req EXCEPT ![r] = None]
        /\ UNCHANGED <<projectTables, project, name, founder>>
    BY <1>6 DEF CreateTeamMembershipCommit, Enroll
  <2> HIDE DEF t, pu
  <2> QED
    BY <2>1, <2>2
<1>7. ASSUME NEW r \in Requests, Fail(r)
      PROVE  TypeOK'
  BY <1>7 DEF Fail
<1>8. CASE UNCHANGED vars
  BY <1>8 DEF vars
<1> QED
  BY <1>1, <1>2, <1>3, <1>4, <1>5, <1>6, <1>7, <1>8 DEF Next, Arrive, Advance

LEMMA TypeInit == Init => TypeOK
BY DEF Init, Ledger!Init, TypeOK

THEOREM TypeCorrect == Spec => []TypeOK
<1> QED
  BY TypeInit, TypeStep, PTL DEF Spec

-----------------------------------------------------------------------------
(* What Inductive says does not mention the names of teams.                  *)
LEMMA InductiveStep ==
  ASSUME TypeOK, Inductive, [Next]_vars
  PROVE  Inductive'
<1> USE DEF TypeOK, Begin, At, End, projectTables, teamTables
<1>1. ASSUME ProjectStep
      PROVE  Inductive'
  <2>1. PICK p \in Projects, u \in Users :
           \/ /\ owner[p] = None
              /\ owner' = [owner EXCEPT ![p] = u]
              /\ members' = [members EXCEPT ![p] = {u}]
              /\ chat' = [chat EXCEPT ![p] = {u}]
              /\ UNCHANGED invited
           \/ /\ invited' = [invited EXCEPT ![p] = @ \cup {u}]
              /\ UNCHANGED <<owner, members, chat>>
           \/ /\ members' = [members EXCEPT ![p] = @ \cup {u}]
              /\ chat' = [chat EXCEPT ![p] = @ \cup {u}]
              /\ UNCHANGED <<owner, invited>>
    BY <1>1, LedgerStep
  <2>2. UNCHANGED <<project, name, founder, enrolled, room, req>>
    BY <1>1 DEF ProjectStep
  <2>3. \A q \in Projects : owner[q] # None => owner'[q] = owner[q]
    BY <2>1
  <2>4. \A q \in Projects : owner[q] # None => members[q] \subseteq members'[q]
    BY <2>1
  <2>5. ChatIsMembers'
    <3>1. chat = members
      BY DEF Inductive, ChatIsMembers
    <3>2. \A q \in Projects : chat'[q] = members'[q]
      BY <2>1, <3>1
    <3>3. chat' \in [Projects -> SUBSET Users] /\ members' \in [Projects -> SUBSET Users]
      BY <2>1
    <3> QED
      BY <3>2, <3>3 DEF ChatIsMembers
  <2>6. OwnersAreMembers'
    BY <2>1 DEF Inductive, OwnersAreMembers
  <2>7. FoundersOwn'
    <3>1. \A r \in Requests : At(r, "create") =>
             req[r].project \in Projects /\ req[r].user # None
      BY NoneAssumption DEF Request
    <3> QED
      BY <2>2, <2>3, <3>1 DEF Inductive, FoundersOwn
  <2>8. \A t \in TeamIds : project[t] # None => owner[project[t]] # None
    BY DEF Inductive, FoundersOwn
  <2>9. EnrolledParticipate'
    <3>1. \A t \in TeamIds : project[t] # None =>
             members[project[t]] \subseteq members'[project[t]]
      BY <2>4, <2>8
    <3>2. \A t \in TeamIds : enrolled[t] # {} => project[t] # None
      BY DEF Inductive, FoundersOwn
    <3>3. \A r \in Requests : At(r, "enroll") => req[r].team \in TeamIds
      BY DEF Request
    <3> QED
      BY <2>2, <3>1, <3>2, <3>3 DEF Inductive, EnrolledParticipate
  <2>10. RoomIsTeam'
    BY <2>2 DEF Inductive, RoomIsTeam
  <2>11. TeamsWithinProjects'
    BY <2>2, <2>4, <2>5, <2>8 DEF Inductive, TeamsWithinProjects, ChatIsMembers
  <2> QED
    BY <2>5, <2>6, <2>7, <2>9, <2>10, <2>11 DEF Inductive
<1>2. ASSUME NEW t \in TeamIds, NEW n \in Names, UpdateTeam(t, n)
      PROVE  Inductive'
  BY <1>2 DEF UpdateTeam, Inductive, ChatIsMembers, OwnersAreMembers, FoundersOwn,
     EnrolledParticipate, RoomIsTeam, TeamsWithinProjects
<1>3. ASSUME NEW r \in Requests, NEW u \in Users, NEW p \in Projects, NEW n \in Names,
             CreateTeam(r, u, p, n)
      PROVE  Inductive'
  <2>1. FoundersOwn'
    BY <1>3 DEF CreateTeam, Inductive, FoundersOwn
  <2>2. EnrolledParticipate'
    BY <1>3 DEF CreateTeam, Inductive, EnrolledParticipate
  <2> QED
    BY <1>3, <2>1, <2>2 DEF CreateTeam, Inductive, ChatIsMembers, OwnersAreMembers,
       RoomIsTeam, TeamsWithinProjects
<1>4. ASSUME NEW r \in Requests, NEW m \in Users, NEW t \in TeamIds,
             NEW pu \in Participation, CreateTeamMembership(r, m, t, pu)
      PROVE  Inductive'
  <2>1. FoundersOwn'
    BY <1>4 DEF CreateTeamMembership, Inductive, FoundersOwn
  <2>2. EnrolledParticipate'
    BY <1>4 DEF CreateTeamMembership, ParticipationFound, Inductive, EnrolledParticipate
  <2> QED
    BY <1>4, <2>1, <2>2 DEF CreateTeamMembership, Inductive, ChatIsMembers,
       OwnersAreMembers, RoomIsTeam, TeamsWithinProjects
<1>5. ASSUME NEW r \in Requests, CreateTeamCommit(r)
      PROVE  Inductive'
  <2> DEFINE p == req[r].project
             u == req[r].user
  <2>1. p \in Projects /\ u \in Users /\ owner[p] = u
    BY <1>5 DEF CreateTeamCommit, Request, Inductive, FoundersOwn
  <2>2. PICK t \in TeamIds :
          /\ project[t] = None
          /\ project' = [project EXCEPT ![t] = p]
          /\ founder' = [founder EXCEPT ![t] = u]
          /\ room' = [room EXCEPT ![t] = {u}]
    BY <1>5 DEF CreateTeamCommit, NewRoom
  <2>3. UNCHANGED <<owner, invited, members, chat, enrolled>>
          /\ req' = [req EXCEPT ![r] = None]
    BY <1>5 DEF CreateTeamCommit
  <2> HIDE DEF p, u
  <2>4. p # None /\ u # None
    BY <2>1, NoneAssumption
  <2>5. enrolled[t] = {}
    BY <2>2 DEF Inductive, FoundersOwn
  <2>6. u \in members[p] /\ u \in chat[p]
    BY <2>1, <2>4 DEF Inductive, OwnersAreMembers, ChatIsMembers
  <2>7. FoundersOwn'
    BY <2>1, <2>2, <2>3, <2>4 DEF Inductive, FoundersOwn
  <2>8. EnrolledParticipate'
    <3>1. \A s \in TeamIds \ {t} : project'[s] = project[s]
      BY <2>2
    <3>2. \A s \in Requests : s # r => req'[s] = req[s]
      BY <2>3
    <3>3. req'[r] = None
      BY <2>3
    <3>4. \A s \in Requests : At(s, "enroll") => req[s].team \in TeamIds \ {t}
      BY <2>2 DEF Request, Inductive, EnrolledParticipate
    <3> QED
      BY <2>3, <2>5, <3>1, <3>2, <3>3, <3>4 DEF Inductive, EnrolledParticipate
  <2>9. RoomIsTeam'
    BY <2>1, <2>2, <2>3, <2>5 DEF Inductive, RoomIsTeam
  <2>10. TeamsWithinProjects'
    BY <2>1, <2>2, <2>3, <2>6 DEF Inductive, TeamsWithinProjects
  <2> QED
    BY <2>3, <2>7, <2>8, <2>9, <2>10 DEF Inductive, ChatIsMembers, OwnersAreMembers
<1>6. ASSUME NEW r \in Requests, CreateTeamMembershipCommit(r)
      PROVE  Inductive'
  <2> DEFINE t == req[r].team
             pu == req[r].participation
  <2>1. /\ t \in TeamIds /\ pu \in Participation
        /\ project[t] # None /\ pu[1] = project[t] /\ pu[2] \in members[project[t]]
    BY <1>6 DEF CreateTeamMembershipCommit, Request, Inductive, EnrolledParticipate
  <2>2. /\ pu[2] \notin room[t]
        /\ enrolled' = [enrolled EXCEPT ![t] = @ \cup {pu}]
        /\ room' = [room EXCEPT ![t] = @ \cup {pu[2]}]
        /\ req' = [req EXCEPT ![r] = None]
        /\ UNCHANGED <<owner, invited, members, chat, project, founder>>
    BY <1>6 DEF CreateTeamMembershipCommit, Enroll
  <2> HIDE DEF t, pu
  <2>3. pu[2] \in Users /\ pu = <<project[t], pu[2]>>
    BY <2>1 DEF Participation
  <2>4. FoundersOwn'
    BY <2>1, <2>2 DEF Inductive, FoundersOwn
  <2>5. EnrolledParticipate'
    BY <2>1, <2>2 DEF Inductive, EnrolledParticipate
  <2>6. RoomIsTeam'
    <3>1. \A s \in TeamIds \ {t} : enrolled'[s] = enrolled[s] /\ room'[s] = room[s]
      BY <2>2
    <3>2. enrolled'[t] = enrolled[t] \cup {pu} /\ room'[t] = room[t] \cup {pu[2]}
      BY <2>1, <2>2
    <3>3. \A u \in Users : <<project[t], u>> = pu <=> u = pu[2]
      BY <2>3
    <3>4. founder[t] \in room[t]
      <4>1. founder[t] \in Users
        BY <2>1 DEF Inductive, FoundersOwn
      <4> QED
        BY <2>1, <4>1 DEF Inductive, RoomIsTeam
    <3>5. pu[2] # founder[t]
      BY <2>2, <3>4
    <3>6. room'[t] = {u \in Users : u = founder[t] \/ <<project[t], u>> \in enrolled'[t]}
      BY <2>1, <2>3, <3>2, <3>3 DEF Inductive, RoomIsTeam
    <3> QED
      BY <2>1, <2>2, <3>1, <3>2, <3>5, <3>6 DEF Inductive, RoomIsTeam
  <2>7. TeamsWithinProjects'
    BY <2>1, <2>2 DEF Inductive, TeamsWithinProjects, ChatIsMembers
  <2> QED
    BY <2>2, <2>4, <2>5, <2>6, <2>7 DEF Inductive, ChatIsMembers, OwnersAreMembers
<1>7. ASSUME NEW r \in Requests, Fail(r)
      PROVE  Inductive'
  BY <1>7 DEF Fail, Inductive, ChatIsMembers, OwnersAreMembers, FoundersOwn,
     EnrolledParticipate, RoomIsTeam, TeamsWithinProjects
<1>8. CASE UNCHANGED vars
  BY <1>8 DEF vars, Inductive, ChatIsMembers, OwnersAreMembers, FoundersOwn,
     EnrolledParticipate, RoomIsTeam, TeamsWithinProjects
<1> QED
  BY <1>1, <1>2, <1>3, <1>4, <1>5, <1>6, <1>7, <1>8 DEF Next, Arrive, Advance

LEMMA InductiveInit == Init => Inductive
BY NoneAssumption DEF Init, Ledger!Init, Inductive, ChatIsMembers, OwnersAreMembers,
   FoundersOwn, At, EnrolledParticipate, RoomIsTeam, TeamsWithinProjects

(* Founders own their projects, memberships name participants of the team's  *)
(* project, and these facts survive every request in flight.                 *)
THEOREM TeamsConsistent == Spec => []Inductive
<1> QED
  BY TypeInit, TypeStep, InductiveInit, InductiveStep, PTL DEF Spec

(* Whoever is in the room of a team is in the room of its project.           *)
THEOREM TeamsAreWithinProjects == Spec => []TeamsWithinProjects
<1>1. Inductive => TeamsWithinProjects
  BY DEF Inductive
<1> QED
  BY <1>1, TeamsConsistent, PTL

(* The room of a team is its founder and its members, and nobody else.       *)
THEOREM RoomIsAlwaysTeam == Spec => []RoomIsTeam
<1>1. Inductive => RoomIsTeam
  BY DEF Inductive
<1> QED
  BY <1>1, TeamsConsistent, PTL

(* The unique index keeps the names of a project's teams apart, though       *)
(* createTeam looks before its transaction and updateTeam does not look.     *)
THEOREM TeamNamesAlwaysUnique == Spec => []TeamNamesUnique
<1>1. Init => TeamNamesUnique
  BY DEF Init, TeamNamesUnique
<1>2. TypeOK /\ TeamNamesUnique /\ [Next]_vars => TeamNamesUnique'
  <2> SUFFICES ASSUME TypeOK, TeamNamesUnique, [Next]_vars PROVE TeamNamesUnique'
    OBVIOUS
  <2> USE DEF TypeOK
  <2>1. ASSUME NEW t \in TeamIds, NEW n \in Names, UpdateTeam(t, n)
        PROVE  TeamNamesUnique'
    BY <2>1 DEF UpdateTeam, NameIndexAllows, Named, TeamNamesUnique
  <2>2. ASSUME NEW r \in Requests, CreateTeamCommit(r)
        PROVE  TeamNamesUnique'
    BY <2>2 DEF CreateTeamCommit, NameIndexAllows, Named, TeamNamesUnique
  <2>3. CASE UNCHANGED <<project, name>>
    BY <2>3 DEF TeamNamesUnique
  <2> QED
    BY <2>1, <2>2, <2>3 DEF Next, Arrive, Advance, ProjectStep, CreateTeam,
       CreateTeamMembership, CreateTeamMembershipCommit, Fail, teamTables, vars
<1> QED
  BY <1>1, <1>2, TypeInit, TypeStep, PTL DEF Spec
=============================================================================
