------------------------------- MODULE Tasks -------------------------------
(***************************************************************************)
(* Tasks of projects: how a manager hands them out, how the people they    *)
(* are assigned to list them page by page and submit them:                 *)
(*   ManagerTaskService.createTask,                                        *)
(*   ParticipantTasksService.getParticipantTasks / submitTask.             *)
(*                                                                         *)
(* Projects and their members change by the steps of the membership        *)
(* ledger, which Membership implements.  A participation is a pair of a    *)
(* project and a user; teams are only ids with a project, as Teams creates *)
(* them.  Files, descriptions, priorities, due dates and budgets are left  *)
(* out (Files models the uploads of both operations).                      *)
(*                                                                         *)
(* A task is named by its createdAt, drawn when its row is written inside  *)
(* the transaction: tasks need not commit in the order of their stamps.    *)
(* That no two tasks share a millisecond is an assumption.  Listings are    *)
(* sorted by createdAt, the default: the other keys are shared by tasks,   *)
(* whose order may then differ from page to page.                          *)
(*                                                                         *)
(* "slip: P" marks a plausible mistake in the operator defined after it:   *)
(* nothing uses it, and with it in that operator's place P fails.          *)
(***************************************************************************)
EXTENDS Naturals, FiniteSets

CONSTANTS
  Users,
  Projects,
  TeamIds,
  MaxTasks,  \* stamps that may be drawn: a bound
  Drafts,    \* the tasks managers ask for: a bound
  Listings,  \* the queries clients send: a bound
  Limit,     \* the page size the client asks for
  Requests,  \* how many requests may be in flight at once: a bound
  None

ASSUME BoundsAssumption == MaxTasks \in Nat /\ Limit \in Nat \ {0}
ASSUME NoneAssumption == None \notin Users \cup Projects

VARIABLES
  owner, invited, members, chat,  \* the ledger of projects
  teamOf,     \* teamOf[t]: the project of team t, None if t does not exist
  stamps,     \* how many stamps have been drawn
  task,       \* task[k]: the committed task stamped k, or None
  delivered,  \* delivered[k]: submittedBy of its task submission, or None
  handedIn,   \* handedIn[k]: the assignments of k with a submission
  req         \* req[r]: the request in flight, or a client reading its listing
              \* page by page; None when there is none

projectTables == <<owner, invited, members, chat>>
taskTables == <<teamOf, stamps, task, delivered, handedIn>>
vars == <<owner, invited, members, chat, teamOf, stamps, task, delivered, handedIn, req>>

Ledger == INSTANCE MembershipLedger

TaskIds == 1..MaxTasks
Participation == Projects \X Users

(* The statuses createTask's schema admits.  Nothing changes a task's status. *)
Statuses == {"TODO", "IN_PROGRESS", "DONE"}

TaskRow ==
  [project : Projects, type : {"GROUP", "INDIVIDUAL"}, status : Statuses,
   assigned : SUBSET Participation, teams : SUBSET TeamIds]

Query == [user : Users, status : Statuses \cup {None}, sortOrder : {"asc", "desc"}]

(* A reader remembers the next page, what the listing held when it began and *)
(* what it has been shown so far.                                            *)
Reader ==
  [at : {"list", "count"}, query : Query, page : Nat,
   wanted : SUBSET TaskIds, got : SUBSET TaskIds]

Request ==
  [at : {"create"}, stamp : TaskIds, row : TaskRow]
    \cup [at : {"submit"}, task : TaskIds, by : Participation]
    \cup Reader

ASSUME InputsAssumption == Drafts \subseteq TaskRow /\ Listings \subseteq Query
ASSUME NoneIsNoRecord == None \notin TaskRow \cup Request \cup Participation

TypeOK ==
  /\ owner \in [Projects -> Users \cup {None}]
  /\ invited \in [Projects -> SUBSET Users]
  /\ members \in [Projects -> SUBSET Users]
  /\ chat \in [Projects -> SUBSET Users]
  /\ teamOf \in [TeamIds -> Projects \cup {None}]
  /\ stamps \in 0..MaxTasks
  /\ task \in [TaskIds -> TaskRow \cup {None}]
  /\ delivered \in [TaskIds -> Participation \cup {None}]
  /\ handedIn \in [TaskIds -> SUBSET Participation]
  /\ req \in [Requests -> Request \cup {None}]

Init ==
  /\ Ledger!Init
  /\ teamOf = [t \in TeamIds |-> None]
  /\ stamps = 0
  /\ task = [k \in TaskIds |-> None]
  /\ delivered = [k \in TaskIds |-> None]
  /\ handedIn = [k \in TaskIds |-> {}]
  /\ req = [r \in Requests |-> None]

-----------------------------------------------------------------------------
Begin(r, q) == req[r] = None /\ req' = [req EXCEPT ![r] = q]
At(r, stage) == req[r] # None /\ req[r].at = stage
End(r) == req' = [req EXCEPT ![r] = None]

(* A refusal, a rollback, or a crash before the commit. *)
Fail(r) ==
  /\ At(r, "create") \/ At(r, "submit")
  /\ End(r)
  /\ UNCHANGED <<projectTables, taskTables>>

(* Whatever sendInvitation, respondToInvitation and createProject do. *)
ProjectStep ==
  /\ Ledger!Next
  /\ UNCHANGED <<taskTables, req>>

(* What createTeam leaves behind: a team belongs to one project for good. *)
CreateTeam(t, p) ==
  /\ owner[p] # None
  /\ teamOf[t] = None
  /\ teamOf' = [teamOf EXCEPT ![t] = p]
  /\ UNCHANGED <<projectTables, stamps, task, delivered, handedIn, req>>

-----------------------------------------------------------------------------
(* createTask *)

(* getManagerProject: a participation with an active admin role. *)
Manages(u, p) == u \in members[p] /\ owner[p] = u

(* Every id the manager sent is found among the rows of the project. *)
AnyAssignees(p, A) == \A a \in A : a[2] \in members[a[1]]  \* slip: AssigneesParticipate
AssigneesFound(p, A) == \A a \in A : a[1] = p /\ a[2] \in members[p]

TeamsFound(p, T) == \A t \in T : teamOf[t] = p

CreateTask(r, u, row) ==
  /\ Manages(u, row.project)
  /\ AssigneesFound(row.project, row.assigned)
  /\ TeamsFound(row.project, row.teams)
  /\ stamps < MaxTasks
  /\ stamps' = stamps + 1
  /\ Begin(r, [at |-> "create", stamp |-> stamps + 1, row |-> row])
  /\ UNCHANGED <<projectTables, teamOf, task, delivered, handedIn>>

(* Task, task assignments and team assignments become visible together. *)
CreateTaskCommit(r) ==
  /\ At(r, "create")
  /\ task' = [task EXCEPT ![req[r].stamp] = req[r].row]
  /\ End(r)
  /\ UNCHANGED <<projectTables, teamOf, stamps, delivered, handedIn>>

-----------------------------------------------------------------------------
(* submitTask.  Its check and its writes are one transaction, which sees the *)
(* commits of others: two of them may both find no submission.               *)

Submittable(k, a) ==
  /\ task[k] # None
  /\ a \in task[k].assigned
  /\ task[k].status = "TODO"

AlreadySubmitted(k, a) ==
  IF task[k].type = "GROUP" THEN delivered[k] # None ELSE a \in handedIn[k]

SubmitTask(r, u, k, a) ==
  /\ a[2] = u
  /\ Submittable(k, a)
  /\ ~AlreadySubmitted(k, a)
  /\ Begin(r, [at |-> "submit", task |-> k, by |-> a])
  /\ UNCHANGED <<projectTables, taskTables>>

(* The unique indexes: a task has one task submission, an assignment one     *)
(* assignment submission.                                                    *)
DeliverSwapped(k, a) ==  \* slip: SubmissionsFit
  \/ /\ task[k].type = "INDIVIDUAL"
     /\ delivered[k] = None
     /\ delivered' = [delivered EXCEPT ![k] = a]
     /\ UNCHANGED handedIn
  \/ /\ task[k].type = "GROUP"
     /\ a \notin handedIn[k]
     /\ handedIn' = [handedIn EXCEPT ![k] = @ \cup {a}]
     /\ UNCHANGED delivered
Deliver(k, a) ==
  \/ /\ task[k].type = "GROUP"
     /\ delivered[k] = None
     /\ delivered' = [delivered EXCEPT ![k] = a]
     /\ UNCHANGED handedIn
  \/ /\ task[k].type = "INDIVIDUAL"
     /\ a \notin handedIn[k]
     /\ handedIn' = [handedIn EXCEPT ![k] = @ \cup {a}]
     /\ UNCHANGED delivered

SubmitTaskCommit(r) ==
  /\ At(r, "submit")
  /\ Deliver(req[r].task, req[r].by)
  /\ End(r)
  /\ UNCHANGED <<projectTables, teamOf, stamps, task>>

-----------------------------------------------------------------------------
(* getParticipantTasks, and a client that reads page after page until the    *)
(* last one it has been told of.                                             *)

(* A task shows to those with an assignment of their own: an assignment of   *)
(* their team is not enough.                                                 *)
Matching(q) ==
  {k \in TaskIds :
     /\ task[k] # None
     /\ \E a \in task[k].assigned : a[2] = q.user
     /\ q.status \in {None, task[k].status}}

Before(q, j, k) == IF q.sortOrder = "asc" THEN j < k ELSE k < j

SkipFromZero(page) == page * Limit  \* slip: PagesMissNothing
Skip(page) == (page - 1) * Limit

Ahead(q, k) == {j \in Matching(q) : Before(q, j, k)}

Page(q, page) ==
  {k \in Matching(q) : /\ Skip(page) <= Cardinality(Ahead(q, k))
                       /\ Cardinality(Ahead(q, k)) < Skip(page) + Limit}

TotalPages(total) == (total + Limit - 1) \div Limit

Reading(stage, q, page, wanted, got) ==
  [at |-> stage, query |-> q, page |-> page, wanted |-> wanted, got |-> got]

Shown(q, page, wanted, got) ==
  Reading("count", q, page, wanted, got \cup Page(q, page))

(* findMany, for the first page and for the next ones.  Readers do not       *)
(* disturb one another: one at a time is a bound.                            *)
OpenListing(r, q) ==
  /\ \A s \in Requests : ~At(s, "list") /\ ~At(s, "count")
  /\ Begin(r, Shown(q, 1, Matching(q), {}))
  /\ UNCHANGED <<projectTables, taskTables>>

TurnPage(r) ==
  /\ At(r, "list")
  /\ req' = [req EXCEPT ![r] = Shown(@.query, @.page, @.wanted, @.got)]
  /\ UNCHANGED <<projectTables, taskTables>>

(* count, a statement of its own: the client learns how many pages there are *)
(* now, and goes on or is done.                                              *)
LastPage(r) == req[r].page >= TotalPages(Cardinality(Matching(req[r].query)))

CountPages(r) ==
  /\ At(r, "count")
  /\ IF LastPage(r)
       THEN End(r)
       ELSE req' = [req EXCEPT ![r] = Reading("list", @.query, @.page + 1, @.wanted, @.got)]
  /\ UNCHANGED <<projectTables, taskTables>>

-----------------------------------------------------------------------------
Arrive(r) ==
  \/ \E u \in Users, row \in Drafts : CreateTask(r, u, row)
  \/ \E u \in Users, k \in TaskIds, a \in Participation : SubmitTask(r, u, k, a)
  \/ \E q \in Listings : OpenListing(r, q)

Advance(r) ==
  \/ CreateTaskCommit(r)
  \/ SubmitTaskCommit(r)
  \/ TurnPage(r)
  \/ CountPages(r)
  \/ Fail(r)

Next ==
  \/ ProjectStep
  \/ \E t \in TeamIds, p \in Projects : CreateTeam(t, p)
  \/ \E r \in Requests : Arrive(r) \/ Advance(r)

Spec == Init /\ [][Next]_vars

-----------------------------------------------------------------------------
(* Tasks stay inside their project: whoever a task is assigned to takes part *)
(* in the project it belongs to, and the teams are teams of that project.    *)
(* The manager sends ids, and only createTask's look-ups tie them to it.     *)
AssigneesParticipate ==
  \A k \in TaskIds : task[k] # None =>
    /\ \A a \in task[k].assigned : a[1] = task[k].project /\ a[2] \in members[a[1]]
    /\ \A t \in task[k].teams : teamOf[t] = task[k].project

(* A submission hangs on the table its task's type asks for and is of one of *)
(* the task's assignees; only tasks to do have any.  Two requests of two     *)
(* assignees pass submitTask's checks side by side and write later.          *)
SubmissionsFit ==
  \A k \in TaskIds :
    /\ delivered[k] # None =>
         /\ task[k] # None
         /\ task[k].type = "GROUP" /\ task[k].status = "TODO"
         /\ delivered[k] \in task[k].assigned
    /\ handedIn[k] # {} =>
         /\ task[k] # None
         /\ task[k].type = "INDIVIDUAL" /\ task[k].status = "TODO"
         /\ handedIn[k] \subseteq task[k].assigned

(* Somebody who reads the listing page by page, up to the last page told of, *)
(* has been shown every task that was in it when they began, though tasks    *)
(* keep being created, in any order of their stamps, between two pages and   *)
(* between a page and its count.                                             *)
PagesMissNothing ==
  [][ \A r \in Requests :
        At(r, "count") /\ req'[r] = None => req[r].wanted \subseteq req[r].got ]_vars

(* The inductive strengthening: a project begins with its owner; what a      *)
(* request is about to write is fit to be written; stamps are told apart.    *)
OwnersAreMembers ==
  \A p \in Projects :
    IF owner[p] = None THEN members[p] \cup invited[p] = {} ELSE owner[p] \in members[p]

RowFits(row) ==
  /\ \A a \in row.assigned : a[1] = row.project /\ a[2] \in members[a[1]]
  /\ \A t \in row.teams : teamOf[t] = row.project

RequestsFit ==
  \A r \in Requests :
    /\ At(r, "create") =>
         /\ RowFits(req[r].row)
         /\ req[r].stamp <= stamps
         /\ task[req[r].stamp] = None
    /\ At(r, "submit") => Submittable(req[r].task, req[r].by)

StampsUnique ==
  /\ \A k \in TaskIds : k > stamps => task[k] = None
  /\ \A r, s \in Requests :
       At(r, "create") /\ At(s, "create") /\ req[r].stamp = req[s].stamp => r = s

(* And for the pages: of what a reader wants, everything that now ranks      *)
(* within the pages read so far has been shown.                              *)
PagesSoFar ==
  \A r \in Requests :
    /\ At(r, "list") \/ At(r, "count") => req[r].wanted \subseteq Matching(req[r].query)
    /\ At(r, "list") =>
         \A k \in req[r].wanted :
           Cardinality(Ahead(req[r].query, k)) < (req[r].page - 1) * Limit => k \in req[r].got
    /\ At(r, "count") =>
         \A k \in req[r].wanted :
           Cardinality(Ahead(req[r].query, k)) < req[r].page * Limit => k \in req[r].got

Inductive ==
  /\ OwnersAreMembers
  /\ AssigneesParticipate
  /\ RequestsFit
  /\ StampsUnique
  /\ SubmissionsFit
=============================================================================
