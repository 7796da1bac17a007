----------------------------- MODULE Membership -----------------------------
(***************************************************************************)
(* Projects, invitations, participations and the project's chat room:      *)
(*   ProjectService.createProject / updateProject,                         *)
(*   InvitationService.sendInvitation (manager side),                      *)
(*   InvitationService.respondToInvitation (participant side),             *)
(*   ProjectParticipationService.updateProjectParticipations.              *)
(*                                                                         *)
(* A request is a process.  Each await that reads the database is a step   *)
(* of its own, and so sees what other requests have committed by then      *)
(* (PostgreSQL READ COMMITTED).  The writes of a transaction and its       *)
(* commit are one step: its row locks and the unique indexes make every    *)
(* conflicting writer wait for the commit, and nobody reads what is not    *)
(* committed.  A guard that throws, a unique index that refuses a row, a   *)
(* transaction timeout, a lost connection or a crash of the server before  *)
(* the commit all end the request without a trace: Fail.                   *)
(*                                                                         *)
(* A user stands for the e-mail address of the account, which never        *)
(* changes; an invitation is identified by its project and address, unique *)
(* by index and never deleted.  Messages, dates and the seen flag are left *)
(* out: no guard reads them.                                               *)
(*                                                                         *)
(* "slip: P" marks a plausible mistake in the operator defined after it:   *)
(* nothing uses it, and with it in that operator's place P fails.          *)
(***************************************************************************)
CONSTANTS
  Users,
  Projects,  \* the project ids that may be handed out: a bound
  Titles,
  Requests,  \* how many requests may be in flight at once: a bound
  None

ASSUME NoneAssumption == None \notin Users \cup Titles

VARIABLES
  creator,        \* creator[p]: its creator, the one admin; None if p does not exist
  title,          \* title[p]
  invitation,     \* invitation[p][u]: status of the invitation, "none" if no row
  participation,  \* participation[p][u]: status of the participation, "none" if no row
  room,           \* room[p]: the participants of the room of p's group
  req,            \* req[r]: the request in flight, None when there is none
  overlapped      \* whether two requests were ever in flight at once (history)

tables == <<creator, title, invitation, participation, room>>
vars == <<creator, title, invitation, participation, room, req, overlapped>>

Answers == {"ACCEPTED", "DECLINED"}
InviteStatus == {"PENDING"} \cup Answers
ParticipationStatus == {"ACTIVE", "INACTIVE", "REMOVED"}

(* A request and the await it has reached, with what it carries along.     *)
Request ==
  [at : {"create"}, user : Users, title : Titles]
    \cup [at : {"rename"}, project : Projects, title : Titles]
    \cup [at : {"inviteCheck", "invite"}, project : Projects, user : Users]
    \cup [at : {"respondCheck", "respond"}, project : Projects, user : Users, answer : Answers]
    \cup [at : {"setStatus"}, project : Projects, user : Users, status : ParticipationStatus]

TypeOK ==
  /\ creator \in [Projects -> Users \cup {None}]
  /\ title \in [Projects -> Titles \cup {None}]
  /\ invitation \in [Projects -> [Users -> InviteStatus \cup {"none"}]]
  /\ participation \in [Projects -> [Users -> ParticipationStatus \cup {"none"}]]
  /\ room \in [Projects -> SUBSET Users]
  /\ req \in [Requests -> Request \cup {None}]
  /\ overlapped \in BOOLEAN

Init ==
  /\ creator = [p \in Projects |-> None]
  /\ title = [p \in Projects |-> None]
  /\ invitation = [p \in Projects |-> [u \in Users |-> "none"]]
  /\ participation = [p \in Projects |-> [u \in Users |-> "none"]]
  /\ room = [p \in Projects |-> {}]
  /\ req = [r \in Requests |-> None]
  /\ overlapped = FALSE

-----------------------------------------------------------------------------
(* The life of a request. *)

Begin(r, q) ==
  /\ req[r] = None
  /\ req' = [req EXCEPT ![r] = q]
  /\ overlapped' = (overlapped \/ \E x \in Requests : req[x] # None)
At(r, stage) == req[r] # None /\ req[r].at = stage
Proceed(r, stage) == req' = [req EXCEPT ![r].at = stage] /\ UNCHANGED overlapped
End(r) == req' = [req EXCEPT ![r] = None] /\ UNCHANGED overlapped

(* The transaction rolls back, or the plain request ends, with no effect.  *)
Fail(r) ==
  /\ req[r] # None
  /\ End(r)
  /\ UNCHANGED tables

(* getManagerProject: the caller's participation has an active admin role. *)
(* Only createProject makes admin roles, and nothing deactivates one.      *)
Manages(u, p) == creator[p] = u

-----------------------------------------------------------------------------
(* createProject and updateProject *)

Titled(u, t) == \E p \in Projects : creator[p] = u /\ title[p] = t

CreateProject(r, u, t) ==
  /\ ~Titled(u, t)
  /\ Begin(r, [at |-> "create", user |-> u, title |-> t])
  /\ UNCHANGED tables

(* @@unique([creatorId, title]) of the schema. *)
NoIndex(u, t) == TRUE  \* slip: TitlesUnique
TitleIndexAllows(u, t) == ~Titled(u, t)

(* Room with the creator in it, group, project, participation, admin role. *)
CreateProjectCommit(r) ==
  /\ At(r, "create")
  /\ LET u == req[r].user  t == req[r].title IN
       /\ TitleIndexAllows(u, t)
       /\ \E p \in Projects :
            /\ creator[p] = None
            /\ creator' = [creator EXCEPT ![p] = u]
            /\ title' = [title EXCEPT ![p] = t]
            /\ participation' = [participation EXCEPT ![p][u] = "ACTIVE"]
            /\ room' = [room EXCEPT ![p] = {u}]
  /\ End(r)
  /\ UNCHANGED invitation

UpdateProject(r, u, p, t) ==
  /\ creator[p] = u
  /\ Begin(r, [at |-> "rename", project |-> p, title |-> t])
  /\ UNCHANGED tables

UpdateProjectCommit(r) ==
  /\ At(r, "rename")
  /\ LET p == req[r].project  t == req[r].title IN
       /\ title[p] = t \/ TitleIndexAllows(creator[p], t)
       /\ title' = [title EXCEPT ![p] = t]
  /\ End(r)
  /\ UNCHANGED <<creator, invitation, participation, room>>

-----------------------------------------------------------------------------
(* sendInvitation *)

(* A manager cannot invite the manager's own address. *)
OtherAddress(m, u) == u # m

SendInvitation(r, m, p, u) ==
  /\ Manages(m, p)
  /\ OtherAddress(m, u)
  /\ Begin(r, [at |-> "inviteCheck", project |-> p, user |-> u])
  /\ UNCHANGED tables

SendInvitationCheck(r) ==
  /\ At(r, "inviteCheck")
  /\ participation[req[r].project][req[r].user] = "none"
  /\ Proceed(r, "invite")
  /\ UNCHANGED tables

(* The upsert: a new row is PENDING, an old one keeps its status. *)
ReopenOnUpsert(status) == "PENDING"  \* slip: PendingAreOutsiders
Upserted(status) == IF status = "none" THEN "PENDING" ELSE status

SendInvitationCommit(r) ==
  /\ At(r, "invite")
  /\ invitation' = [invitation EXCEPT ![req[r].project][req[r].user] = Upserted(@)]
  /\ End(r)
  /\ UNCHANGED <<creator, title, participation, room>>

-----------------------------------------------------------------------------
(* respondToInvitation *)

(* The status an invitation must have to be answered. *)
AnswerAgain(status) == status # "none"          \* slip: AnswerIsFinal
NotAnsweredYet(status) == status \notin Answers  \* slip: ImplementsLedger
Answerable(status) == status = "PENDING"

RespondToInvitation(r, u, p, a) ==
  /\ Answerable(invitation[p][u])
  /\ Begin(r, [at |-> "respondCheck", project |-> p, user |-> u, answer |-> a])
  /\ UNCHANGED tables

RespondCheck(r) ==
  /\ At(r, "respondCheck")
  /\ participation[req[r].project][req[r].user] = "none"
  /\ Proceed(r, "respond")
  /\ UNCHANGED tables

(* participation.create and roomParticipant.create, each under its index.  *)
JoinOutsideChat(p, u) ==  \* slip: RoomIsMembers
  /\ participation[p][u] = "none"
  /\ participation' = [participation EXCEPT ![p][u] = "ACTIVE"]
  /\ UNCHANGED room
JoinChatOnly(p, u) ==     \* slip: AcceptedAreMembers
  /\ u \notin room[p]
  /\ room' = [room EXCEPT ![p] = @ \cup {u}]
  /\ UNCHANGED participation
JoinProject(p, u) ==
  /\ participation[p][u] = "none"
  /\ u \notin room[p]
  /\ participation' = [participation EXCEPT ![p][u] = "ACTIVE"]
  /\ room' = [room EXCEPT ![p] = @ \cup {u}]

(* invitation.update is by id alone: whatever the status is by now. *)
AnswerStays(p, u, a) == UNCHANGED invitation  \* slip: MembersHaveAccepted
RecordAnswer(p, u, a) == invitation' = [invitation EXCEPT ![p][u] = a]

RespondCommit(r) ==
  /\ At(r, "respond")
  /\ LET p == req[r].project  u == req[r].user  a == req[r].answer IN
       /\ RecordAnswer(p, u, a)
       /\ \/ a = "ACCEPTED" /\ JoinProject(p, u)
          \/ a = "DECLINED" /\ UNCHANGED <<participation, room>>
  /\ End(r)
  /\ UNCHANGED <<creator, title>>

-----------------------------------------------------------------------------
(* updateProjectParticipations: not in a transaction *)

(* Whether a participation may still be changed. *)
ChangeAnything(status) == status # "none"  \* slip: RemovalIsFinal
Changeable(status) == status \notin {"none", "REMOVED"}

UpdateParticipation(r, m, p, u, s) ==
  /\ Manages(m, p)
  /\ Changeable(participation[p][u])
  /\ Begin(r, [at |-> "setStatus", project |-> p, user |-> u, status |-> s])
  /\ UNCHANGED tables

UpdateParticipationWrite(r) ==
  /\ At(r, "setStatus")
  /\ participation' = [participation EXCEPT ![req[r].project][req[r].user] = req[r].status]
  /\ End(r)
  /\ UNCHANGED <<creator, title, invitation, room>>

-----------------------------------------------------------------------------
Arrive(r) ==
  \E u \in Users :
    \/ \E t \in Titles : CreateProject(r, u, t)
    \/ \E p \in Projects, t \in Titles : UpdateProject(r, u, p, t)
    \/ \E p \in Projects, v \in Users : SendInvitation(r, u, p, v)
    \/ \E p \in Projects, a \in Answers : RespondToInvitation(r, u, p, a)
    \/ \E p \in Projects, v \in Users, s \in ParticipationStatus :
         UpdateParticipation(r, u, p, v, s)

Advance(r) ==
  \/ CreateProjectCommit(r)
  \/ UpdateProjectCommit(r)
  \/ SendInvitationCheck(r)
  \/ SendInvitationCommit(r)
  \/ RespondCheck(r)
  \/ RespondCommit(r)
  \/ UpdateParticipationWrite(r)
  \/ Fail(r)

Next == \E r \in Requests : Arrive(r) \/ Advance(r)

Spec == Init /\ [][Next]_vars

-----------------------------------------------------------------------------
(* What holds however requests interleave. *)

(* Whoever has accepted an invitation is in the project: respondToInvitation *)
(* stores ACCEPTED and the participation together, and no race with another  *)
(* answer, invitation or status change leaves one without the other.         *)
AcceptedAreMembers ==
  \A p \in Projects, u \in Users :
    invitation[p][u] = "ACCEPTED" => participation[p][u] # "none"

(* Nobody who is in the project has an open invitation to it, although       *)
(* sendInvitation looks for a participation long before it writes: its       *)
(* upsert must leave the status of an existing invitation alone.             *)
PendingAreOutsiders ==
  \A p \in Projects, u \in Users :
    invitation[p][u] = "PENDING" => participation[p][u] = "none"

(* The project's chat room holds exactly the people with a participation:    *)
(* createProject and respondToInvitation write the two tables side by side.  *)
RoomIsMembers ==
  \A p \in Projects : room[p] = {u \in Users : participation[p][u] # "none"}

(* The inductive strengthening of the three invariants above.  A project     *)
(* that does not exist has no rows; a member who is not the creator was      *)
(* invited; and what a request has read that cannot change any more still    *)
(* holds when it writes: the addressee of an invitation is not the creator,  *)
(* an invitation being answered and a participation being changed exist.     *)
UnusedIsEmpty ==
  \A p \in Projects, u \in Users :
    creator[p] = None => invitation[p][u] = "none" /\ participation[p][u] = "none"

MembersWereInvited ==
  \A p \in Projects, u \in Users :
    participation[p][u] # "none" => creator[p] = u \/ invitation[p][u] # "none"

InFlightHolds ==
  \A r \in Requests :
    /\ At(r, "inviteCheck") \/ At(r, "invite") =>
         creator[req[r].project] \notin {None, req[r].user}
    /\ At(r, "respondCheck") \/ At(r, "respond") =>
         invitation[req[r].project][req[r].user] # "none"
    /\ At(r, "setStatus") =>
         participation[req[r].project][req[r].user] # "none"

Inductive ==
  /\ AcceptedAreMembers
  /\ PendingAreOutsiders
  /\ RoomIsMembers
  /\ UnusedIsEmpty
  /\ MembersWereInvited
  /\ InFlightHolds

(* No creator has two projects of one title, whether created or renamed.     *)
TitlesUnique ==
  \A p, q \in Projects :
    creator[p] # None /\ creator[p] = creator[q] /\ title[p] = title[q] => p = q

(* The tables implement the membership ledger.                               *)
Ledger ==
  INSTANCE MembershipLedger WITH
    owner <- creator,
    invited <- [p \in Projects |-> {u \in Users : invitation[p][u] # "none"}],
    members <- [p \in Projects |-> {u \in Users : participation[p][u] # "none"}],
    chat <- room

(* Every request is, for the ledger, one step or none: ownership, membership *)
(* and invitations are only ever added, and only in the ledger's order.      *)
ImplementsLedger == Ledger!Spec

-----------------------------------------------------------------------------
(* What holds while requests do not overlap. *)

(* An invitation is answered once: the second answer is refused with         *)
(* "Inviation is already accepted" or "... declined".                        *)
AnswerIsFinal ==
  [][\A p \in Projects, u \in Users :
       ~overlapped /\ invitation[p][u] \in Answers =>
         invitation'[p][u] = invitation[p][u]]_vars

(* A removed participant stays removed: "Participant has already been        *)
(* removed from he project."                                                 *)
RemovalIsFinal ==
  [][\A p \in Projects, u \in Users :
       ~overlapped /\ participation[p][u] = "REMOVED" =>
         participation'[p][u] = "REMOVED"]_vars

(* Every member other than the creator has an invitation that says ACCEPTED. *)
MembersHaveAccepted ==
  ~overlapped =>
    \A p \in Projects, u \in Users :
      participation[p][u] # "none" => creator[p] = u \/ invitation[p][u] = "ACCEPTED"

-----------------------------------------------------------------------------
(* What the reply says and the code does not do. *)

(* After "Invitation sent successfully" there is an invitation that its      *)
(* addressee can answer, also when an earlier one was declined.              *)
SentInvitationIsOpen ==
  [][\A r \in Requests :
       SendInvitationCommit(r) =>
         Answerable(invitation'[req[r].project][req[r].user])]_vars
=============================================================================
