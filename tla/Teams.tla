------------------------------- MODULE Teams -------------------------------
(***************************************************************************)
(* The teams of projects and their chat rooms, over the membership ledger: *)
(*   TeamService.createTeam / updateTeam,                                  *)
(*   TeamMembershipService.createTeamMembership.                           *)
(*                                                                         *)
(* Projects, their members and their rooms change by the steps of the      *)
(* ledger, which Membership implements; so what holds here holds of the    *)
(* teams beside the projects as they really are.                           *)
(*                                                                         *)
(* A request is a process as in Membership: it reads, then a transaction   *)
(* writes in one step.  Its look-ups of the manager, of the team's project *)
(* and of the participation read rows that never change and are never      *)
(* deleted; they belong to the action that begins the request.             *)
(* A participation is a pair of a project and a user.  Purpose, status and *)
(* responsibilities are left out.                                          *)
(*                                                                         *)
(* "slip: P" marks a plausible mistake in the operator defined after it:   *)
(* nothing uses it, and with it in that operator's place P fails.          *)
(***************************************************************************)
CONSTANTS
  Users,
  Projects,
  TeamIds,   \* the team ids that may be handed out: a bound
  Names,
  Requests,  \* how many requests may be in flight at once: a bound
  None

ASSUME NoneAssumption == None \notin Users \cup Projects \cup Names

VARIABLES
  owner, invited, members, chat,  \* the ledger of projects
  project,     \* project[t]: the project of team t, None if t does not exist
  name,        \* name[t]
  founder,     \* founder[t]: createdBy of the group of t
  enrolled,    \* enrolled[t]: the participations with a membership of t
  room,        \* room[t]: the participants of the room of the group of t
  req          \* req[r]: the request in flight, None when there is none

projectTables == <<owner, invited, members, chat>>
teamTables == <<project, name, founder, enrolled, room>>
vars == <<owner, invited, members, chat, project, name, founder, enrolled, room, req>>

Ledger == INSTANCE MembershipLedger

Participation == Projects \X Users

Request ==
  [at : {"create"}, user : Users, project : Projects, name : Names]
    \cup [at : {"enroll"}, team : TeamIds, participation : Participation]

TypeOK ==
  /\ owner \in [Projects -> Users \cup {None}]
  /\ invited \in [Projects -> SUBSET Users]
  /\ members \in [Projects -> SUBSET Users]
  /\ chat \in [Projects -> SUBSET Users]
  /\ project \in [TeamIds -> Projects \cup {None}]
  /\ name \in [TeamIds -> Names \cup {None}]
  /\ founder \in [TeamIds -> Users \cup {None}]
  /\ enrolled \in [TeamIds -> SUBSET Participation]
  /\ room \in [TeamIds -> SUBSET Users]
  /\ req \in [Requests -> Request \cup {None}]

Init ==
  /\ Ledger!Init
  /\ project = [t \in TeamIds |-> None]
  /\ name = [t \in TeamIds |-> None]
  /\ founder = [t \in TeamIds |-> None]
  /\ enrolled = [t \in TeamIds |-> {}]
  /\ room = [t \in TeamIds |-> {}]
  /\ req = [r \in Requests |-> None]

-----------------------------------------------------------------------------
Begin(r, q) == req[r] = None /\ req' = [req EXCEPT ![r] = q]
At(r, stage) == req[r] # None /\ req[r].at = stage
End(r) == req' = [req EXCEPT ![r] = None]

(* A refusal, a rollback, or a crash before the commit. *)
Fail(r) ==
  /\ req[r] # None
  /\ End(r)
  /\ UNCHANGED <<projectTables, teamTables>>

(* Whatever sendInvitation, respondToInvitation and createProject do. *)
ProjectStep ==
  /\ Ledger!Next
  /\ UNCHANGED <<teamTables, req>>

-----------------------------------------------------------------------------
(* createTeam and updateTeam *)

Named(p, n) == \E t \in TeamIds : project[t] = p /\ name[t] = n

CreateTeam(r, u, p, n) ==
  /\ owner[p] = u
  /\ ~Named(p, n)
  /\ Begin(r, [at |-> "create", user |-> u, project |-> p, name |-> n])
  /\ UNCHANGED <<projectTables, teamTables>>

(* @@unique([projectId, name]) of the schema. *)
NoIndex(p, n) == TRUE  \* slip: TeamNamesUnique
NameIndexAllows(p, n) == ~Named(p, n)

(* Room with the manager in it, group, team. *)
EmptyRoom(u) == {}  \* slip: RoomIsTeam
NewRoom(u) == {u}

CreateTeamCommit(r) ==
  /\ At(r, "create")
  /\ NameIndexAllows(req[r].project, req[r].name)
  /\ \E t \in TeamIds :
       /\ project[t] = None
       /\ project' = [project EXCEPT ![t] = req[r].project]
       /\ name' = [name EXCEPT ![t] = req[r].name]
       /\ founder' = [founder EXCEPT ![t] = req[r].user]
       /\ room' = [room EXCEPT ![t] = NewRoom(req[r].user)]
  /\ End(r)
  /\ UNCHANGED <<projectTables, enrolled>>

(* The look-up of the manager is not awaited: the check that follows tests *)
(* a promise, which is never falsy.  What is left is one update by id.     *)
UpdateTeam(t, n) ==
  /\ project[t] # None
  /\ name[t] = n \/ NameIndexAllows(project[t], n)
  /\ name' = [name EXCEPT ![t] = n]
  /\ UNCHANGED <<projectTables, project, founder, enrolled, room, req>>

-----------------------------------------------------------------------------
(* createTeamMembership *)

(* The participation belongs to the project of the team. *)
AnyParticipation(t, pu) == pu[2] \in members[pu[1]]  \* slip: TeamsWithinProjects
ParticipationFound(t, pu) == pu[1] = project[t] /\ pu[2] \in members[pu[1]]

CreateTeamMembership(r, m, t, pu) ==
  /\ project[t] # None
  /\ owner[project[t]] = m
  /\ ParticipationFound(t, pu)
  /\ pu \notin enrolled[t]
  /\ Begin(r, [at |-> "enroll", team |-> t, participation |-> pu])
  /\ UNCHANGED <<projectTables, teamTables>>

(* teamMembership.create and roomParticipant.create, each under its index. *)
Enroll(t, pu) ==
  /\ pu \notin enrolled[t]
  /\ pu[2] \notin room[t]
  /\ enrolled' = [enrolled EXCEPT ![t] = @ \cup {pu}]
  /\ room' = [room EXCEPT ![t] = @ \cup {pu[2]}]

CreateTeamMembershipCommit(r) ==
  /\ At(r, "enroll")
  /\ Enroll(req[r].team, req[r].participation)
  /\ End(r)
  /\ UNCHANGED <<projectTables, project, name, founder>>

-----------------------------------------------------------------------------
Arrive(r) ==
  \E u \in Users :
    \/ \E p \in Projects, n \in Names : CreateTeam(r, u, p, n)
    \/ \E t \in TeamIds, pu \in Participation : CreateTeamMembership(r, u, t, pu)

Advance(r) ==
  \/ CreateTeamCommit(r)
  \/ CreateTeamMembershipCommit(r)
  \/ Fail(r)

Next ==
  \/ ProjectStep
  \/ \E t \in TeamIds, n \in Names : UpdateTeam(t, n)
  \/ \E r \in Requests : Arrive(r) \/ Advance(r)

Spec == Init /\ [][Next]_vars

-----------------------------------------------------------------------------
(* Whoever can read a team's chat can read the chat of its project: the two  *)
(* rooms are filled by different services, and createTeamMembership is given *)
(* the id of a participation that may be of any project.                     *)
TeamsWithinProjects ==
  \A t \in TeamIds : project[t] # None => room[t] \subseteq chat[project[t]]

(* The team's room holds the manager who created the team and, besides,      *)
(* exactly its members.  The manager is not one: the unique index on the     *)
(* room's participants refuses the membership of somebody who is in the room *)
(* already, so no manager can join a team of an own project.                 *)
RoomIsTeam ==
  \A t \in TeamIds :
    /\ room[t] = {u \in Users : u = founder[t] \/ <<project[t], u>> \in enrolled[t]}
    /\ \A pu \in enrolled[t] : pu[2] # founder[t]

(* No two teams of a project share a name, whether created or renamed.       *)
TeamNamesUnique ==
  \A s, t \in TeamIds :
    project[s] # None /\ project[s] = project[t] /\ name[s] = name[t] => s = t

(* The inductive strengthening: the rooms of projects hold their members and *)
(* owners; a team's founder owns its project; memberships name participants  *)
(* of that project, also those about to be written.                          *)
ChatIsMembers == chat = members

OwnersAreMembers ==
  \A p \in Projects : owner[p] # None => owner[p] \in members[p]

FoundersOwn ==
  /\ \A t \in TeamIds :
       IF project[t] = None
         THEN founder[t] = None /\ enrolled[t] = {} /\ room[t] = {}
         ELSE founder[t] # None /\ owner[project[t]] = founder[t]
  /\ \A r \in Requests : At(r, "create") => owner[req[r].project] = req[r].user

EnrolledParticipate ==
  /\ \A t \in TeamIds : \A pu \in enrolled[t] :
       pu[1] = project[t] /\ pu[2] \in members[pu[1]]
  /\ \A r \in Requests :
       At(r, "enroll") =>
         /\ project[req[r].team] # None
         /\ req[r].participation[1] = project[req[r].team]
         /\ req[r].participation[2] \in members[project[req[r].team]]

Inductive ==
  /\ ChatIsMembers
  /\ OwnersAreMembers
  /\ FoundersOwn
  /\ EnrolledParticipate
  /\ RoomIsTeam
  /\ TeamsWithinProjects
=============================================================================
