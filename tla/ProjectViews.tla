---------------------------- MODULE ProjectViews ----------------------------
(***************************************************************************)
(* What the read-only endpoints answer about projects, as functions of the *)
(* tables of Tasks:                                                        *)
(*   ProjectService.getMyProjects / getSingleProject / getProjectTeams /   *)
(*     getProjectParticipants / getProjectSummary,                         *)
(*   ManagerTaskService.getTasks, ParticipantTasksService.getSingleTask,   *)
(*   ParticipantProjectService.getProjects / getSingleProject.             *)
(* Only rows and counts are kept of the answers, not their columns.        *)
(*                                                                         *)
(* "slip: P" as in Tasks.                                                  *)
(***************************************************************************)
EXTENDS Tasks, Functions, FiniteSetsExt

CONSTANT Wallets  \* what the wallet of a project may hold: a bound

Transaction == [id : Nat, credit : BOOLEAN, amount : Nat]

ASSUME WalletsAssumption ==
  \A W \in Wallets : W \subseteq Transaction /\ IsFiniteSet(W)
ASSUME NoneIsNoRow == None \notin TaskIds \cup TeamIds \cup Transaction

TasksOf(p) == {k \in TaskIds : task[k] # None /\ task[k].project = p}
TeamsOf(p) == {t \in TeamIds : teamOf[t] = p}

-----------------------------------------------------------------------------
(* getMyProjects: the projects of creatorId, their tasks grouped by project  *)
(* and status in a second query, and the groups added up.                    *)

StatusGroups(p) ==
  {[status |-> s, count |-> Cardinality({k \in TasksOf(p) : task[k].status = s})] :
     s \in {task[k].status : k \in TasksOf(p)}}

Noted(g, acc, total) ==
  [total |-> total,
   todo |-> IF g.status = "TODO" THEN g.count ELSE acc.todo,
   done |-> IF g.status = "DONE" THEN g.count ELSE acc.done]

LastGroup(g, acc) == Noted(g, acc, g.count)  \* slip: ViewsAgree
AddGroup(g, acc) == Noted(g, acc, acc.total + g.count)

TaskCounts(p) ==
  FoldSet(AddGroup, [total |-> 0, todo |-> 0, done |-> 0], StatusGroups(p))

MyProjects(u) == {p \in Projects : owner[p] = u}

(* getSingleProject, getProjectTeams and getProjectParticipants: a project   *)
(* opens to a participant with an active admin role.  The lists are cut at   *)
(* 10 teams and 20 participants, which the bounds stay below.                *)
Opens(u, p) == Manages(u, p)

ProjectCounts(p) ==
  [participations |-> Cardinality(members[p]), teams |-> Cardinality(TeamsOf(p)),
   tasks |-> Cardinality(TasksOf(p)), invitations |-> Cardinality(invited[p])]

ProjectTeams(u, p) == IF Opens(u, p) THEN TeamsOf(p) ELSE {}
ProjectParticipants(u, p) == IF Opens(u, p) THEN members[p] ELSE {}

(* getTasks of the manager: the query's schema demands an id.                *)
ManagerFinds(u, k) == task[k] # None /\ owner[task[k].project] = u

-----------------------------------------------------------------------------
(* The participant's side *)

JoinedProjects(u) == {p \in Projects : u \in members[p]}

(* getSingleProject counts as for the manager, but for the invitations. *)
JoinedProject(u, p) == IF p \in JoinedProjects(u) THEN ProjectCounts(p) ELSE None

(* The count beside a project: tasks to do with an assignment of one's own. *)
MyTodo(u, p) ==
  {k \in TasksOf(p) : task[k].status = "TODO" /\ \E a \in task[k].assigned : a[2] = u}

ParticipantFinds(u, k) == task[k] # None /\ \E a \in task[k].assigned : a[2] = u

-----------------------------------------------------------------------------
(* getProjectSummary: one query that joins every table of a project with     *)
(* every other.  A table with no row for the project still yields one row,   *)
(* of nulls.  Nothing writes stakeholders; W is the set of transactions of   *)
(* the project's wallet.  The join with the admin roles adds no row: a       *)
(* participation has one at most, and a null when it has none.               *)

LeftJoin(S) == IF S = {} THEN {None} ELSE S

(* The condition on pa.userId turns the join with participations inner.      *)
JoinedRows(u, p, W) ==
  [invitation : LeftJoin(invited[p]), task : LeftJoin(TasksOf(p)),
   participation : members[p] \cap {u}, stakeholder : LeftJoin({}),
   team : LeftJoin(TeamsOf(p)), transaction : LeftJoin(W)]

CountRows(rows, column) == Cardinality(rows)  \* slip: LoneTableIsCounted
CountColumn(rows, column) == Cardinality({row \in rows : row[column] # None})

ProjectSummary(u, p, W) ==
  LET rows == JoinedRows(u, p, W)
      credits == {row \in rows : row.transaction # None /\ row.transaction.credit}
  IN [invitations |-> CountColumn(rows, "invitation"),
      tasks |-> CountColumn(rows, "task"),
      todoTasks |-> CountColumn(
        {row \in rows : row.task # None /\ task[row.task].status = "TODO"}, "task"),
      participations |-> CountColumn(rows, "participation"),
      stakeholders |-> CountColumn(rows, "stakeholder"),
      teams |-> CountColumn(rows, "team"),
      transactions |-> CountColumn(rows, "transaction"),
      totalCredits |-> SumFunction([row \in credits |-> row.transaction.amount])]

-----------------------------------------------------------------------------
(* The views agree, though each asks by a condition of its own: a manager    *)
(* opens exactly the projects in the own list, finds exactly their tasks,    *)
(* and the total added up from the groups by status is the number of tasks   *)
(* counted beside the opened project.  A participant finds the tasks to do   *)
(* counted beside their projects, and finds only tasks of projects joined.   *)
ViewsAgree ==
  /\ \A p \in Projects :
       LET counts == TaskCounts(p) IN
       /\ counts.total = ProjectCounts(p).tasks
       /\ counts.todo = Cardinality({k \in TasksOf(p) : task[k].status = "TODO"})
       /\ \A u \in Users :
            /\ p \in MyProjects(u) <=> Opens(u, p)
            /\ Cardinality(MyTodo(u, p)) <= counts.todo
            /\ MyTodo(u, p) # {} => JoinedProject(u, p).tasks >= Cardinality(MyTodo(u, p))
  /\ \A k \in TaskIds, u \in Users :
       /\ ManagerFinds(u, k) <=> task[k] # None /\ task[k].project \in MyProjects(u)
       /\ ParticipantFinds(u, k) =>
            /\ task[k].project \in JoinedProjects(u)
            /\ task[k].status = "TODO" => k \in MyTodo(u, task[k].project)

(* The inductive strengthening of the counts: no step makes a table infinite. *)
TablesFinite ==
  \A p \in Projects :
    IsFiniteSet(invited[p]) /\ IsFiniteSet(members[p]) /\ IsFiniteSet(TeamsOf(p))

(* A figure of getProjectSummary is the true one as long as no other table   *)
(* of the join has two rows for the project: the row of nulls that an empty  *)
(* table yields is not counted, nor does it hide the rows of the others.     *)
(* Somebody outside the project is told zeros.                               *)
AtMostOne(S) == Cardinality(S) <= 1

LoneTableIsCounted ==
  \A u \in Users, p \in Projects, W \in Wallets :
    LET s == ProjectSummary(u, p, W)
        i == AtMostOne(invited[p])   t == AtMostOne(TasksOf(p))
        m == AtMostOne(TeamsOf(p))   w == AtMostOne(W)
    IN IF u \notin members[p]
         THEN \A column \in DOMAIN s : s[column] = 0
         ELSE /\ t /\ m /\ w => s.invitations = Cardinality(invited[p])
              /\ i /\ m /\ w =>
                   /\ s.tasks = Cardinality(TasksOf(p))
                   /\ s.todoTasks = TaskCounts(p).todo
              /\ i /\ t /\ m /\ w /\ members[p] = {u} => s.participations = 1
              /\ i /\ t /\ w => s.teams = Cardinality(TeamsOf(p))
              /\ i /\ t /\ m =>
                   /\ s.transactions = Cardinality(W)
                   /\ s.totalCredits =
                        SumFunction([x \in W |-> IF x.credit THEN x.amount ELSE 0])

(* And otherwise it is not, whatever its comments ("Task counts") and columns *)
(* ("totalTasks") say: because every table is joined with every other, each   *)
(* count and sum is the true one times the sizes of all the other tables,     *)
(* empty ones counting as one, and only the reader's own participation enters. *)
FiguresAreMultiplied ==
  \A u \in Users, p \in Projects, W \in Wallets :
    LET s == ProjectSummary(u, p, W)
        many(S) == IF S = {} THEN 1 ELSE Cardinality(S)
        i == many(invited[p])   t == many(TasksOf(p))
        m == many(TeamsOf(p))   w == many(W)
    IN IF u \notin members[p]
         THEN \A column \in DOMAIN s : s[column] = 0
         ELSE /\ s.invitations = Cardinality(invited[p]) * t * m * w
              /\ s.tasks = Cardinality(TasksOf(p)) * i * m * w
              /\ s.todoTasks = TaskCounts(p).todo * i * m * w
              /\ s.participations = i * t * m * w
              /\ s.stakeholders = 0
              /\ s.teams = Cardinality(TeamsOf(p)) * i * t * w
              /\ s.transactions = Cardinality(W) * i * t * m
              /\ s.totalCredits =
                   SumFunction([x \in W |-> IF x.credit THEN x.amount ELSE 0]) * i * t * m
=============================================================================
